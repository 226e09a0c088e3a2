--------------------------- MODULE MCTransparency ---------------------------
(* One or two mandates and a few decisions, for TLC. *)
EXTENDS Transparency
CONSTANTS m1, m2, yes, no

\* No property names a mandate or a decision.
Interchangeable == Permutations(Mandate) \cup Permutations(Decision)
=============================================================================
