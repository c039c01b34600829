--------------------------- MODULE MCScanPipeline ---------------------------
EXTENDS ScanPipeline, TLC

(* Scanners are interchangeable, and so are ingesters.                     *)
Symmetry == Permutations(Scanners) \cup Permutations(Ingesters)
=============================================================================
