----------------------------- MODULE MCCatalog -----------------------------
(* One instance of Catalog: two bootstraps of a handle that disagree about  *)
(* the payee's id, a plain payee, another artist's upload over an asset     *)
(* that is being created with two hints, and a late hint.                   *)
EXTENDS Catalog, TLC

CONSTANTS b1, b2, b3, y1, s1, u1, hi, ann, bob, ar1, ar2, p1, p2, fap, url, x

Request(kind, handle, art, payee, asset, n) ==
  [kind |-> kind, handle |-> handle, artist |-> art, key |-> None,
   payee |-> payee, fap |-> fap, url |-> url, asset |-> asset, hints |-> n]

MCReq ==
  [c \in Calls |->
    CASE c = b1 -> Request("bootstrap", ann, ar1, p1, None, 0)
      [] c = b2 -> Request("bootstrap", ann, ar1, p2, None, 0)
      [] c = b3 -> Request("bootstrap", bob, ar2, p2, None, 0)
      [] c = y1 -> Request("payee", ann, None, None, None, 0)
      [] c = s1 -> Request("asset", ann, None, p1, x, 2)
      [] c = u1 -> Request("upload", None, ar2, p2, x, 0)
      [] c = hi -> Request("hint", None, None, None, x, 1)]
=============================================================================
