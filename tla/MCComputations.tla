--------------------------- MODULE MCComputations ---------------------------
(* Instances of Computations for TLC. *)
EXTENDS Computations, TLC

MCToolOf == [c \in Call |-> IF c = ProfileCall THEN "describe_dataset" ELSE "filter_rows"]
MCTool == {"describe_dataset", "filter_rows"}

Symmetry == Permutations(Ask) \cup Permutations(Profile) \cup Permutations(Delete)
=============================================================================
