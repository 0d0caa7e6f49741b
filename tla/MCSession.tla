----------------------------- MODULE MCSession -----------------------------
(***************************************************************************)
(* Session for TLC: a browser with one tab and three listings, such that a *)
(* row mixed from the columns of two of them is none of them; and one with *)
(* two tabs and one listing.                                               *)
(***************************************************************************)
EXTENDS Session

CONSTANT First      \* the tab that is always open
VARIABLE browser    \* one tab or two

Row(l, p, k) == [location |-> l, property |-> p, looking_for |-> k]

MCRows == {Row("Ameerpet", "flat", "rent"), Row("Ameerpet", "villa", "buy"),
           Row("Begumpet", "flat", "buy")}
OneRow == {Row("Ameerpet", "flat", "rent")}

OneTab == browser = "one tab"

MCInit ==
    /\ browser \in {"one tab", "two tabs"}
    /\ Init /\ wanted = IF OneTab THEN Rows ELSE OneRow

MCNext ==
    /\ Next
    /\ IF OneTab THEN \A b \in Tabs \ {First} : tab'[b] = tab[b] ELSE wanted' \subseteq OneRow
    /\ UNCHANGED browser

MCSpec ==
    /\ MCInit /\ [][MCNext]_<<vars, browser>>
    /\ \A b \in Tabs : WF_vars(Follow(b)) /\ WF_vars(Answer(b))

-----------------------------------------------------------------------------
\* FavouriteWasShown of the browser with one tab: home#search_properties and
\* home#add_to_favourites keep the three keys of one row together.
FavouriteWasShownInOneTab == OneTab => FavouriteWasShown

\* CartReachesFavourites of the browser with one tab: home#add_to_cart and the
\* devise redirects lead to the favourites page.
CartReachesFavouritesInOneTab == OneTab => CartReachesFavourites
============================================================================
