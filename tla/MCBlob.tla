-------------------------------- MODULE MCBlob -------------------------------
(* Small instances of BlobStore for TLC. *)
EXTENDS BlobStore

CONSTANTS g1, g2

Digests == {g1, g2}
==============================================================================
