----------------------------- MODULE Listings -----------------------------
(***************************************************************************)
(* What registered users own: user_properties (homes they offer) and       *)
(* user_looking_for_properties (homes they look for), the handlers of the  *)
(* two controllers, the copying of search results into favourites, and     *)
(* the cancelling of an account, which destroys the account's listings.    *)
(*                                                                         *)
(* As in Catalog, a process runs one request at a time, the processes      *)
(* interleave between database statements, and what a transaction changes  *)
(* is seen when it commits.  No foreign key ties a listing to its owner.   *)
(***************************************************************************)
EXTENDS Naturals

CONSTANTS
    Workers,      \* server processes
    Users,        \* accounts that can be registered, each under a new id
    Locations,    \* addresses a form can carry
    Properties,   \* property ids a form can carry
    Kinds,        \* ownership type or looking-for ids a form can carry
    Handled,      \* the listing tables that receive requests
    MaxListings,  \* bound: how many rows a listing table issues
    Geocoder,     \* whether the geocoding service answers every save
    NoListing,    \* stands for a row that is not there
    NoUser        \* the user of a process that serves no one

VARIABLES
    accounts,     \* accounts[u]: whether user u is registered
    listings,     \* listings[t][i]: row i of listing table t, or NoListing
    nextListing,  \* nextListing[t]: the id the next row of table t gets
    req           \* req[w]: the request process w is handling

vars == <<accounts, listings, nextListing, req>>

Offers  == "user_properties"
Wanted  == "user_looking_for_properties"
Tables  == {Offers, Wanted}
Ids     == 1..MaxListings
Listing == [user : Users, location : Locations, property : Properties, kind : Kinds]

ASSUME MaxListingsAssumption == MaxListings \in Nat
ASSUME HandledAssumption     == Handled \subseteq Tables
ASSUME GeocoderAssumption    == Geocoder \in BOOLEAN
ASSUME NoListingAssumption   == NoListing \notin Listing
ASSUME NoUserAssumption      == NoUser \notin Users

Nothing == [i \in Ids |-> NoListing]

\* user: the session's.  form: the attributes of the form.  named: whether its
\* location goes by the attribute's name.  found: the row find returned.
\* products: the rows selected for favourites.  left: those still to copy.
\* doomed: the rows an account's cancellation has loaded for destruction.
Request ==
    [pc       : {"idle", "creating", "editing", "found", "saved", "removing",
                 "deleting", "identifying", "adding", "added",
                 "cancelling", "collecting", "closing"},
     user     : Users \cup {NoUser},
     table    : Tables,
     id       : 0..MaxListings,
     form     : Listing \cup {NoListing},
     named    : BOOLEAN,
     found    : Listing \cup {NoListing},
     products : [Ids -> Listing \cup {NoListing}],
     left     : SUBSET Ids,
     doomed   : [Tables -> SUBSET Ids]]

Fresh ==
    [pc |-> "idle", user |-> NoUser, table |-> Offers, id |-> 0,
     form |-> NoListing, named |-> FALSE, found |-> NoListing, products |-> Nothing, left |-> {},
     doomed |-> [t \in Tables |-> {}]]

Resting(w) == req[w].pc \in {"idle", "saved", "added"}

OwnedBy(t, u) == {i \in Ids : listings[t][i] # NoListing /\ listings[t][i].user = u}

Init ==
    /\ accounts = [u \in Users |-> "new"]
    /\ listings = [t \in Tables |-> Nothing]
    /\ nextListing = [t \in Tables |-> 1]
    /\ req = [w \in Workers |-> Fresh]

-----------------------------------------------------------------------------
\* before_filter :authenticate_user!, which loads the session's user: without
\* the row it redirects to the sign-in page and the action does not run.
Authenticated(w, u) == Resting(w) /\ accounts[u] = "active"

Register(u) ==
    /\ accounts[u] = "new"
    /\ accounts' = [accounts EXCEPT ![u] = "active"]
    /\ UNCHANGED <<listings, nextListing, req>>

\* create sets the user and the location after the attributes: the user is the
\* session's and the location is addr, whatever else is posted.
SubmitCreate(w, t, form) ==
    /\ Authenticated(w, form.user)
    /\ req' = [req EXCEPT ![w] = [Fresh EXCEPT !.pc = "creating", !.user = form.user,
                                               !.table = t, !.form = form]]
    /\ UNCHANGED <<accounts, listings, nextListing>>

\* update sets the user before the attributes, and user_id and location are
\* accessible: the owner is the user_id of the form, if it has one, and else
\* the session's user u; the location is the form's if it goes by that name.
\* The pages' own form has no user_id and calls the location addr.
SubmitUpdate(w, u, t, i, form, named) ==
    /\ Authenticated(w, u)
    /\ i < nextListing[t]
    /\ req' = [req EXCEPT ![w] = [Fresh EXCEPT !.pc = "editing", !.user = u, !.table = t,
                                               !.id = i, !.form = form, !.named = named]]
    /\ UNCHANGED <<accounts, listings, nextListing>>

SubmitDestroy(w, u, t, i) ==
    /\ Authenticated(w, u)
    /\ i < nextListing[t]
    /\ req' = [req EXCEPT ![w] = [Fresh EXCEPT !.pc = "removing", !.user = u,
                                               !.table = t, !.id = i]]
    /\ UNCHANGED <<accounts, listings, nextListing>>

SubmitCancel(w, u) ==
    /\ Authenticated(w, u)
    /\ req' = [req EXCEPT ![w] = [Fresh EXCEPT !.pc = "cancelling", !.user = u]]
    /\ UNCHANGED <<accounts, listings, nextListing>>

\* create_properties has no before_filter: it finds the selected rows, all of
\* them or a 404, before it asks for the session's user.
SubmitCopy(w, u, S) ==
    /\ Resting(w)
    /\ accounts[u] # "new"
    /\ \A i \in S : listings[Wanted][i] # NoListing
    /\ req' = [req EXCEPT ![w] =
                 [Fresh EXCEPT !.pc = "identifying", !.user = u, !.table = Wanted, !.left = S,
                    !.products = [i \in Ids |-> IF i \in S THEN listings[Wanted][i]
                                                           ELSE NoListing]]]
    /\ UNCHANGED <<accounts, listings, nextListing>>

-----------------------------------------------------------------------------
InsertListing(t, row) ==
    /\ nextListing[t] \in Ids
    /\ listings' = [listings EXCEPT ![t][nextListing[t]] = row]
    /\ nextListing' = [nextListing EXCEPT ![t] = @ + 1]

Create(w) ==
    /\ req[w].pc = "creating"
    /\ InsertListing(req[w].table, req[w].form)
    /\ req' = [req EXCEPT ![w] = [Fresh EXCEPT !.pc = "saved"]]
    /\ UNCHANGED accounts

\* find, for an update and for a destroy: 404 when the row is not there.
Find(w) ==
    LET row == listings[req[w].table][req[w].id] IN
    /\ \/ /\ req[w].pc \in {"editing", "removing"} /\ row = NoListing
          /\ req' = [req EXCEPT ![w] = Fresh]
       \/ /\ req[w].pc = "editing" /\ row # NoListing
          /\ req' = [req EXCEPT ![w].pc = "found", ![w].found = row]
       \/ /\ req[w].pc = "removing" /\ row # NoListing
          /\ req' = [req EXCEPT ![w].pc = "deleting"]
    /\ UNCHANGED <<accounts, listings, nextListing>>

\* An UPDATE sets the columns in which the record differs from what find
\* loaded; the others stay what the row has.
Dirty(new, found, row) == IF new # found THEN new ELSE row

\* Mutant of Merge: location and property_id are not accessible to update_attributes.
MergeButPlace(row, r) ==
    [row EXCEPT !.user = Dirty(r.form.user, r.found.user, @),
                !.kind = Dirty(r.form.kind, r.found.kind, @)]

\* update reads no addr: a location that is not named stays the one loaded.
Merge(row, r) ==
    [user     |-> Dirty(r.form.user, r.found.user, row.user),
     location |-> IF r.named THEN Dirty(r.form.location, r.found.location, row.location)
                  ELSE row.location,
     property |-> Dirty(r.form.property, r.found.property, row.property),
     kind     |-> Dirty(r.form.kind, r.found.kind, row.kind)]

\* The UPDATE matches nothing if the row is gone; the answer is success anyway.
Update(w) ==
    LET t == req[w].table
        i == req[w].id
    IN
    /\ req[w].pc = "found"
    /\ listings' = IF listings[t][i] = NoListing THEN listings
                   ELSE [listings EXCEPT ![t][i] = Merge(@, req[w])]
    /\ req' = [req EXCEPT ![w] = [Fresh EXCEPT !.pc = "saved"]]
    /\ UNCHANGED <<accounts, nextListing>>

\* The save of a create or an update fails: a blank or too short field, or
\* the geocoding that acts_as_gmappable makes part of the validation.
Refuse(w) ==
    /\ ~Geocoder
    /\ req[w].pc \in {"creating", "found"}
    /\ req' = [req EXCEPT ![w] = Fresh]
    /\ UNCHANGED <<accounts, listings, nextListing>>

Delete(w) ==
    /\ req[w].pc = "deleting"
    /\ listings' = [listings EXCEPT ![req[w].table][req[w].id] = NoListing]
    /\ req' = [req EXCEPT ![w] = Fresh]
    /\ UNCHANGED <<accounts, nextListing>>

-----------------------------------------------------------------------------
\* current_user, loaded when the first copy is built; without the row it is
\* nil and the request fails.
Identify(w) ==
    /\ req[w].pc = "identifying"
    /\ \/ accounts[req[w].user] = "active" /\ req' = [req EXCEPT ![w].pc = "adding"]
       \/ accounts[req[w].user] # "active" /\ req' = [req EXCEPT ![w] = Fresh]
    /\ UNCHANGED <<accounts, listings, nextListing>>

\* Mutant of AddFavourite: the product is saved again as it was found.
AddFavouriteAsIs(w, i) ==
    /\ req[w].pc = "adding" /\ i \in req[w].left
    /\ InsertListing(Wanted, req[w].products[i])
    /\ req' = [req EXCEPT ![w].left = @ \ {i}]
    /\ UNCHANGED accounts

\* Each copy is saved in a transaction of its own.
AddFavourite(w, i) ==
    /\ req[w].pc = "adding" /\ i \in req[w].left
    /\ InsertListing(Wanted, [req[w].products[i] EXCEPT !.user = req[w].user])
    /\ req' = [req EXCEPT ![w].left = @ \ {i}]
    /\ UNCHANGED accounts

\* The result of the copy's save is not looked at.
SkipFavourite(w, i) ==
    /\ ~Geocoder
    /\ req[w].pc = "adding" /\ i \in req[w].left
    /\ req' = [req EXCEPT ![w].left = @ \ {i}]
    /\ UNCHANGED <<accounts, listings, nextListing>>

\* Mutant of AnswerFavourites: the answer is given from inside the loop.
AnswerAtOnce(w) ==
    /\ req[w].pc = "adding"
    /\ req' = [req EXCEPT ![w] = [Fresh EXCEPT !.pc = "added"]]
    /\ UNCHANGED <<accounts, listings, nextListing>>

\* "Your Favourites added successfully...."
AnswerFavourites(w) ==
    /\ req[w].pc = "adding" /\ req[w].left = {}
    /\ req' = [req EXCEPT ![w] = [Fresh EXCEPT !.pc = "added"]]
    /\ UNCHANGED <<accounts, listings, nextListing>>

-----------------------------------------------------------------------------
\* has_many :dependent => :destroy: the rows to destroy are loaded, one
\* association after the other, and destroyed with the account's row in one
\* transaction.
Collect(w, t, from, to) ==
    /\ req[w].pc = from
    /\ req' = [req EXCEPT ![w] = [@ EXCEPT !.pc = to, !.doomed[t] = OwnedBy(t, req[w].user)]]
    /\ UNCHANGED <<accounts, listings, nextListing>>

CollectOffers(w) == Collect(w, Offers, "cancelling", "collecting")

\* Mutants of CollectWanted: the association has no :dependent => :destroy; the
\* association is loaded again and again.
CollectNothing(w) ==
    /\ req[w].pc = "collecting"
    /\ req' = [req EXCEPT ![w].pc = "closing"]
    /\ UNCHANGED <<accounts, listings, nextListing>>
CollectForEver(w) == Collect(w, Wanted, "collecting", "collecting")

CollectWanted(w) == Collect(w, Wanted, "collecting", "closing")

CommitCancel(w) ==
    /\ req[w].pc = "closing"
    /\ listings' = [t \in Tables |-> [i \in Ids |->
                      IF i \in req[w].doomed[t] THEN NoListing ELSE listings[t][i]]]
    /\ accounts' = [accounts EXCEPT ![req[w].user] = "cancelled"]
    /\ req' = [req EXCEPT ![w] = Fresh]
    /\ UNCHANGED nextListing

\* An exception or the death of the process: the open transaction is rolled
\* back; copies of favourites already saved stay.
Abort(w) ==
    /\ ~Resting(w)
    /\ req' = [req EXCEPT ![w] = Fresh]
    /\ UNCHANGED <<accounts, listings, nextListing>>

Submit(w) ==
    \/ \E t \in Handled, form \in Listing :
          \/ SubmitCreate(w, t, form)
          \/ \E u \in Users, i \in Ids, named \in BOOLEAN : SubmitUpdate(w, u, t, i, form, named)
    \/ \E u \in Users :
          \/ \E t \in Handled, i \in Ids : SubmitDestroy(w, u, t, i)
          \/ SubmitCancel(w, u)
          \/ Wanted \in Handled /\ \E S \in SUBSET Ids \ {{}} : SubmitCopy(w, u, S)

Proceed(w) ==
    \/ Create(w) \/ Find(w) \/ Update(w) \/ Refuse(w) \/ Delete(w) \/ Identify(w)
    \/ \E i \in Ids : AddFavourite(w, i) \/ SkipFavourite(w, i)
    \/ AnswerFavourites(w) \/ CollectOffers(w) \/ CollectWanted(w) \/ CommitCancel(w)

Step(w) == Submit(w) \/ Proceed(w) \/ Abort(w)

Next == (\E u \in Users : Register(u)) \/ (\E w \in Workers : Step(w))

Spec == Init /\ [][Next]_vars

\* A process runs the request it has taken to its end; nothing obliges a user
\* to send one, and nothing is assumed of exceptions.
FairSpec == Spec /\ \A w \in Workers : WF_vars(Proceed(w))

-----------------------------------------------------------------------------
\* Type invariant: the shape of the accounts, the listings and the requests.
TypeOK ==
    /\ accounts \in [Users -> {"new", "active", "cancelled"}]
    /\ listings \in [Tables -> [Ids -> Listing \cup {NoListing}]]
    /\ nextListing \in [Tables -> 1..(MaxListings + 1)]
    /\ req \in [Workers -> Request]

Orphaned(t, i) == listings[t][i] # NoListing /\ accounts[listings[t][i].user] # "active"

\* Process w is about to store an edit whose form names another user as the
\* owner of row i than the one who edits.
HandsOver(w, t, i, u) ==
    /\ req[w].pc = "found" /\ req[w].table = t /\ req[w].id = i
    /\ req[w].form.user = u /\ req[w].user # u

\* has_many :user_properties, :dependent => :destroy and its twin: a listing
\* comes to have no registered owner in one way only, an edit whose form names
\* an account that is not there.  No save, copy or cancellation leaves one.
\* True of a single process only.
NoOrphans ==
    [][\A t \in Tables, i \in Ids :
          (~Orphaned(t, i) /\ Orphaned(t, i)')
             => \E w \in Workers : HandsOver(w, t, i, listings'[t][i].user)]_vars

\* What holds with any number of processes: once an account is cancelled and
\* the requests it had under way are answered, its listings only go away, but
\* for those that an edit's form gives to it by name.  A copied favourite
\* belongs to the one who copies, an edit that names no one makes the editor
\* the owner, and the UPDATE of another's request leaves no row to the gone one.
CancelledStaysQuiet ==
    [][\A u \in Users, t \in Tables :
          (accounts[u] = "cancelled" /\ \A w \in Workers : req[w].user # u) =>
             \A i \in OwnedBy(t, u)' \ OwnedBy(t, u) : \E w \in Workers : HandsOver(w, t, i, u)]_vars

\* "Property Updated Successfully.": when an update is answered with success
\* the row has the owner, the property, the kind and the named location of the
\* form.  True of a single process only.
EditTakesEffect ==
    [][\A w \in Workers :
          (req[w].pc = "found" /\ req'[w].pc = "saved") =>
             LET row == listings'[req[w].table][req[w].id] IN
             /\ row # NoListing
             /\ row.user = req[w].form.user /\ row.property = req[w].form.property
             /\ row.kind = req[w].form.kind
             /\ req[w].named => row.location = req[w].form.location]_vars

\* The Location field of the edit form: when an update is answered with
\* success the row is at the location that was typed.
EditStoresLocation ==
    [][\A w \in Workers :
          (req[w].pc = "found" /\ req'[w].pc = "saved" /\ listings'[req[w].table][req[w].id] # NoListing)
             => listings'[req[w].table][req[w].id].location = req[w].form.location]_vars

\* "Your Favourites added successfully....": when the copying of the selected
\* rows is answered, the user owns a listing for each of them with the same
\* location, property and kind (the price is not copied).
FavouritesCopied ==
    [][\A w \in Workers :
          (req[w].pc = "adding" /\ req'[w].pc = "added") =>
             \A i \in Ids : req[w].products[i] # NoListing =>
                \E j \in Ids :
                   listings[Wanted][j] = [req[w].products[i] EXCEPT !.user = req[w].user]]_vars

\* Every request a process takes ends in an answer or an exception, however
\* many rows it has to copy and whatever the other processes do to them.
RequestsEnd == \A w \in Workers : ~Resting(w) ~> Resting(w)
===========================================================================
