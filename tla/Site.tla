------------------------------- MODULE Site -------------------------------
(***************************************************************************)
(* The catalogue and the listings together.  A listing names a property    *)
(* and an ownership type (or a looking-for) by id: the ids come from the   *)
(* select boxes of its form, and nothing in the database or in the models  *)
(* checks them again.  The same processes serve the administrators and the *)
(* users, one request at a time each.                                      *)
(***************************************************************************)
EXTENDS Naturals

CONSTANTS
    Workers, Controllers, Names, Lower, MaxRows, NoRow, NoWorker,
    Users, Locations, Handled, MaxListings, Geocoder, NoListing, NoUser

VARIABLES
    rows, nextId, creq, author,                  \* Catalog
    accounts, listings, nextListing, lreq        \* Listings

cvars == <<rows, nextId, creq, author>>
lvars == <<accounts, listings, nextListing, lreq>>
vars  == <<cvars, lvars>>

C == INSTANCE Catalog WITH req <- creq
L == INSTANCE Listings WITH req <- lreq, Properties <- 1..MaxRows, Kinds <- 1..MaxRows

ASSUME SiteAssumption ==
    /\ MaxRows \in Nat /\ Controllers \subseteq C!Tables /\ NoRow \notin Names
    /\ NoWorker \notin Workers
    /\ MaxListings \in Nat /\ Handled \subseteq L!Tables /\ Geocoder \in BOOLEAN
    /\ NoListing \notin L!Listing /\ NoUser \notin Users

\* The catalogue table behind the second select box of a listing's form.
KindTable(t) == IF t = L!Offers THEN "ownership_types" ELSE "looking_fors"

\* collection_select(:property_id, Property.all, ...): the form offers rows
\* that exist when it is rendered.  They may be gone when it is posted, so a
\* form can carry any id issued so far.
Offered(t, form) ==
    /\ form.property < nextId["properties"]
    /\ form.kind < nextId[KindTable(t)]

Init == C!Init /\ L!Init

CatalogStep(w) ==
    /\ L!Resting(w)
    /\ C!Step(w)
    /\ UNCHANGED lvars

ListingsStep(w) ==
    /\ C!Resting(w)
    /\ L!Step(w)
    /\ lreq'[w].pc \in {"creating", "editing"} => Offered(lreq'[w].table, lreq'[w].form)
    /\ UNCHANGED cvars

Register(u) == L!Register(u) /\ UNCHANGED cvars

Next ==
    \/ \E u \in Users : Register(u)
    \/ \E w \in Workers : CatalogStep(w) \/ ListingsStep(w)

Spec == Init /\ [][Next]_vars

-----------------------------------------------------------------------------
\* Type invariant: those of the two components.
TypeOK == C!TypeOK /\ L!TypeOK

Listed(t, i) == listings[t][i] # NoListing

PropertyGone(t, i) == rows["properties"][listings[t][i].property] = NoRow

\* belongs_to :property, which the index and show pages follow without a
\* check: the property of every listing exists.  Not true: properties are
\* destroyed without regard to the listings that name them.
PropertiesResolve ==
    \A t \in L!Tables, i \in L!Ids : Listed(t, i) => ~PropertyGone(t, i)

\* belongs_to :ownership_type: the ownership type of every offer exists, with
\* any number of processes and however late its form was posted.  No one
\* destroys an ownership type: the handler that should do it looks the id up
\* among the properties.
OwnershipTypesResolve ==
    \A i \in L!Ids :
        Listed(L!Offers, i) => rows["ownership_types"][listings[L!Offers][i].kind] # NoRow

\* A listing whose property was destroyed never comes to name another one:
\* as long as it is not edited it stays broken, whatever is created since.
BrokenStaysBroken ==
    [][\A t \in L!Tables, i \in L!Ids :
          (Listed(t, i) /\ PropertyGone(t, i) /\ listings'[t][i] = listings[t][i])
             => PropertyGone(t, i)']_vars
===========================================================================
