----------------------------- MODULE MCAnnounce -----------------------------
(* An instance of Announce for TLC.  Every provider announces with a late   *)
(* expiry; p1 also with an early one, and a second client competes for p1   *)
(* with a key of its own and a message that gives its expiry as a duration, *)
(* signed for one reading of the clock only.                                *)
EXTENDS Announce, TLC

CONSTANTS k1, p1

Message(p, k, at, in, signed) ==
  [provider |-> p, key |-> k, nonce |-> <<p, 0>>,
   expiresAt |-> at, expiresIn |-> in, signed |-> signed]

MCAnnouncements ==
  {Message(p, k1, 3, 0, 3) : p \in Providers}
    \cup {Message(p1, k1, 1, 0, 1)}
    \cup {Message(p1, k, 0, 2, 3) : k \in Keys \ {k1}}
MCRegistrations == [provider : Providers, key : {k1}] \cup [provider : {p1}, key : Keys]
Symmetry == Permutations(Handlers) \cup Permutations(Providers \ {p1})
=============================================================================
