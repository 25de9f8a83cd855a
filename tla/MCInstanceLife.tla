--------------------------- MODULE MCInstanceLife ---------------------------
(* Instances are interchangeable: their place in the chain is a free choice. *)
EXTENDS InstanceLife, TLC

Symmetry == Permutations(Inst)
=============================================================================
