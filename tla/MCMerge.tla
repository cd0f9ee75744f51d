------------------------------- MODULE MCMerge -------------------------------
(* Instances of Merge for TLC.                                             *)
EXTENDS Merge
=============================================================================
