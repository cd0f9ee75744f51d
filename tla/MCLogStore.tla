----------------------------- MODULE MCLogStore -----------------------------
(* LogStore for TLC: interchangeable entries and processes.                *)
EXTENDS LogStore, TLC

Symmetry == Permutations(Entry) \cup Permutations(Proc)
=============================================================================
