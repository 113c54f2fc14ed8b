------------------------------ MODULE MCIngest ------------------------------
(* Instances of Ingest for TLC: all uploads name the same asset, so that     *)
(* every collision the paths of the code allow happens.                      *)
EXTENDS Ingest, TLC

CONSTANTS a1

MCAssets  == {a1}
MCAssetOf == [j \in Jobs |-> a1]
Symmetry  == Permutations(Workers) \cup Permutations(Jobs)

\* To keep the run small: an ffmpeg that outlives its worker is the only thing
\* that goes wrong with processes or the job table in a behaviour.
OrphanAlone == orphans # {} => faults = 1
=============================================================================
