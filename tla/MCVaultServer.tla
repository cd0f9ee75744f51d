--------------------------- MODULE MCVaultServer ---------------------------
(* VaultServer for TLC: entry e1 has size 1, any other size 2; entries are *)
(* dated at 1, so a clock at 0 with no skew refuses them from the wire.    *)
EXTENDS VaultServer, TLC

CONSTANT Small          \* the entries of size 1

MCSize == [e \in Entry |-> IF e \in Small THEN 1 ELSE 2]
MCTs == [e \in Entry |-> IF e \in Small THEN 0 ELSE 1]

Symmetry == Permutations(Thread)
=============================================================================
