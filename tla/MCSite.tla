------------------------------ MODULE MCSite ------------------------------
(***************************************************************************)
(* Instances of Site for TLC.                                              *)
(***************************************************************************)
EXTENDS Site, TLC

MCNames == {"Flat", "villa"}
MCLower == [n \in MCNames |-> IF n = "Flat" THEN "flat" ELSE n]

Symmetry == Permutations(Workers)

\* Bound: there is one location, so an edit's form need not name it.
NoneNamed == \A w \in Workers : ~lreq[w].named
===========================================================================
