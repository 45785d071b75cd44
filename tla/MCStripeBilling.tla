--------------------------- MODULE MCStripeBilling ---------------------------
(* Small instances of StripeBilling. *)
EXTENDS StripeBilling, TLC

Symmetry == Permutations(Users) \cup Permutations(Subs)
=============================================================================
