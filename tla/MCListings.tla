---------------------------- MODULE MCListings ----------------------------
(***************************************************************************)
(* Instances of Listings for TLC.  The processes are interchangeable, and  *)
(* so are the users, the locations and the properties: a form can carry    *)
(* any of them.                                                            *)
(***************************************************************************)
EXTENDS Listings, TLC

Symmetry == Permutations(Users) \cup Permutations(Workers)
            \cup Permutations(Locations) \cup Permutations(Properties)

\* Bound: one offer is issued; what a user looks for can be copied twice.
OneOffer == nextListing[Offers] <= 2
===========================================================================
