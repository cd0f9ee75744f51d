------------------------------ MODULE MCDurable ------------------------------
(* Instances of Durable for TLC.                                           *)
EXTENDS Durable, TLC

Symmetry == Permutations(Proc)
=============================================================================
