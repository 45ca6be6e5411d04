----------------------------- MODULE MCDatasets -----------------------------
(* Instances of Datasets for TLC. *)
EXTENDS Datasets, TLC

Symmetry == Permutations(Upload) \cup Permutations(Override) \cup Permutations(Delete)
            \cup Permutations(Column) \cup Permutations(Type)
=============================================================================
