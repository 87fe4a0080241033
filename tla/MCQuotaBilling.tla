--------------------------- MODULE MCQuotaBilling ---------------------------
(* Small instances of QuotaBilling; attempts are interchangeable.           *)
EXTENDS QuotaBilling, TLC

Symmetry == Permutations(Attempts)
=============================================================================
