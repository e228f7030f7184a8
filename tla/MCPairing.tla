----------------------------- MODULE MCPairing -----------------------------
(* A small instance of Pairing for TLC. *)
EXTENDS Pairing, TLC

Symmetry ==
    Permutations(Device) \cup Permutations(Call)
        \cup Permutations(OfferId) \cup Permutations(Code)

============================================================================
