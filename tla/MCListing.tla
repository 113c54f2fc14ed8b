----------------------------- MODULE MCListing ------------------------------
(* An instance of Listing for TLC: the default weights, and a clock whose   *)
(* tick is long enough for ages and lifetimes to cross every boundary.      *)
EXTENDS Listing
MCWeights ==
  [recent10M |-> 20, recent1H |-> 10, old24H |-> 20, expires1H |-> 30, expires24H |-> 10,
   multiplier |-> 3, priorityMax |-> 30]
=============================================================================
