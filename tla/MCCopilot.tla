----------------------------- MODULE MCCopilot -----------------------------
(* Instances of Copilot for TLC. *)
EXTENDS Copilot, TLC

Symmetry == Permutations(Cloud)
=============================================================================
