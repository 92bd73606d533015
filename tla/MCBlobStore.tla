----------------------------- MODULE MCBlobStore -----------------------------
(* A small instance of BlobStore for TLC. *)
EXTENDS BlobStore

CONSTANTS u1, u2, u3, c1, c2

\* u1 and u2 only fail if they die.
MCFaulty == {u3}
=============================================================================
