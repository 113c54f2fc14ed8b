----------------------------- MODULE NonceGuard -----------------------------
(***************************************************************************)
(* What the rest of the server may rely on of the nonce cache: a nonce is  *)
(* accepted unless one accepted before is still live.  A live nonce is     *)
(* forgotten when its lifetime ends, which counts from a time the caller   *)
(* read before, when it makes room for another, or when the server         *)
(* restarts.                                                               *)
(***************************************************************************)
EXTENDS Integers, FiniteSets

CONSTANTS Nonces, NonceTTL, MaxEntries

VARIABLES
  time,
  live   \* <<nonce, end of its lifetime>>

vars == <<time, live>>

Init ==
  /\ time = 0
  /\ live = {}

\* At most one other nonce leaves for it; that it is the new one says none does.
Accept(n) ==
  /\ \A s \in live : s[1] # n
  /\ \E end \in time..(time + NonceTTL) :
       \E oldest \in live \cup {<<n, end>>} :
         live' = (live \ {oldest}) \cup {s \in {<<n, end>>} : s[2] > time}
  /\ Cardinality(live') <= MaxEntries
  /\ time' = time

Pass ==
  /\ time' = time + 1
  /\ live' = {s \in live : s[2] > time'}

Restart ==
  /\ live' = {}
  /\ time' = time

Next == (\E n \in Nonces : Accept(n)) \/ Pass \/ Restart

Spec == Init /\ [][Next]_vars
=============================================================================
