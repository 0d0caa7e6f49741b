----------------------------- MODULE MCCatalog -----------------------------
(***************************************************************************)
(* Instances of Catalog for TLC: names that differ only in case, and names *)
(* that really differ.                                                     *)
(***************************************************************************)
EXTENDS Catalog, TLC

MCNames == {"Flat", "FLAT", "villa"}
MCLower == [n \in MCNames |-> IF n = "villa" THEN "villa" ELSE "flat"]

Symmetry == Permutations(Workers)
============================================================================
