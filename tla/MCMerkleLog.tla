----------------------------- MODULE MCMerkleLog -----------------------------
(* Two logs of a few decisions, for TLC. *)
EXTENDS MerkleLog
CONSTANTS yes, no
=============================================================================
