----------------------------- MODULE MCDatabase -----------------------------
(* The instance of Database for TLC: a migration that can be run twice and  *)
(* one that cannot.  A page of the model stands for 64 of a backup's step.  *)
EXTENDS Database
=============================================================================
