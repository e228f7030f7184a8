-------------------------------- MODULE MCSync -------------------------------
(* Small instances of SyncSession for TLC. *)
EXTENDS SyncSession, TLC

CONSTANTS l1, l2

\* l1 is dialled by device 1, l2 by device 2: each reaches the other.
MCDialler == [l \in Link |-> IF l = l1 THEN 1 ELSE 2]
MCResponder == [l \in Link |-> IF l = l1 THEN 2 ELSE 1]
NoSkew == [d \in Device |-> 0]
Skew == [d \in Device |-> IF d = 1 THEN 1 ELSE 0]
HashSymmetry == Permutations(Hash)
==============================================================================
