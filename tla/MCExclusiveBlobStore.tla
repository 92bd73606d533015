------------------------- MODULE MCExclusiveBlobStore -------------------------
(* A small instance of ExclusiveBlobStore for TLC. *)
EXTENDS ExclusiveBlobStore, TLC

WriterSymmetry == Permutations(Writers)
=============================================================================
