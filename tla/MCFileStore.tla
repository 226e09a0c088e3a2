---------------------------- MODULE MCFileStore ----------------------------
(* Two identities and two writers, for TLC. *)
EXTENDS FileStore
CONSTANTS k1, k2, old, new, w1, w2
=============================================================================
