-------------------------- MODULE ListingsProofs --------------------------
(***************************************************************************)
(* Theorems about Listings, for every set of processes and users, every    *)
(* form and every bound.                                                   *)
(***************************************************************************)
EXTENDS Listings, TLAPS

USE MaxListingsAssumption, HandledAssumption, GeocoderAssumption,
    NoListingAssumption, NoUserAssumption

(***************************************************************************)
(* What a request carries depends on how far it has come: a form that has  *)
(* been posted, a row that has been found, a session that has a user.      *)
(* Without this the rows the handlers write need not be listings.          *)
(***************************************************************************)
Formed(r) ==
    /\ r.pc \in {"creating", "editing", "found"} => r.form \in Listing
    /\ r.pc = "creating" => r.form.user = r.user
    /\ r.pc \in {"editing", "found", "removing", "deleting"} => r.id \in Ids
    /\ r.pc = "found" => r.found \in Listing
    /\ r.pc \in {"identifying", "adding", "cancelling", "collecting", "closing"} => r.user \in Users
    /\ \A i \in r.left : r.products[i] \in Listing

TypeInv == TypeOK /\ \A w \in Workers : Formed(req[w])

\* The request of process w becomes r; r is well formed.
Becomes(w, r) == req' = [req EXCEPT ![w] = r] /\ r \in Request /\ Formed(r)

LEMMA FreshFormed == Fresh \in Request /\ Formed(Fresh)
<1>1. Nothing \in [Ids -> Listing \cup {NoListing}]
  BY DEF Nothing
<1>2. Fresh \in Request
  BY <1>1 DEF Fresh, Request, Tables
<1>3. Formed(Fresh)
  BY DEF Formed, Fresh
<1>4. QED
  BY <1>2, <1>3

\* The request starts as r, for a user whose row was found.
Begins(w, r) ==
    /\ Becomes(w, r)
    /\ r.pc \in {"creating", "editing", "removing", "cancelling", "identifying"}
    /\ r.pc # "identifying" => accounts[r.user] = "active"

\* A request record that starts a request of process w is well formed.
LEMMA SubmitBecomes ==
    ASSUME TypeInv, NEW w \in Workers, Submit(w)
    PROVE  /\ UNCHANGED <<accounts, listings, nextListing>>
           /\ \E r : Begins(w, r)
<1> USE DEF TypeInv, TypeOK
<1>0. Fresh \in Request /\ Fresh.left = {}
  BY FreshFormed DEF Fresh
<1>1. ASSUME NEW t \in Handled, NEW form \in Listing, SubmitCreate(w, t, form)
      PROVE  \E r : Begins(w, r)
  <2> DEFINE r == [Fresh EXCEPT !.pc = "creating", !.user = form.user, !.table = t, !.form = form]
  <2>1. r \in Request /\ r.pc = "creating" /\ r.form = form /\ r.user = form.user /\ r.left = {}
    BY <1>0 DEF Request, Listing
  <2>2. Formed(r)
    BY <2>1 DEF Formed
  <2>3. QED
    BY <1>1, <2>1, <2>2 DEF SubmitCreate, Begins, Becomes, Authenticated
<1>2. ASSUME NEW t \in Handled, NEW form \in Listing, NEW u \in Users, NEW i \in Ids,
             NEW named \in BOOLEAN, SubmitUpdate(w, u, t, i, form, named)
      PROVE  \E r : Begins(w, r)
  <2> DEFINE r == [Fresh EXCEPT !.pc = "editing", !.user = u, !.table = t,
                                !.id = i, !.form = form, !.named = named]
  <2>0. i \in 0..MaxListings
    BY DEF Ids
  <2>1. /\ r \in Request /\ r.pc = "editing" /\ r.form = form /\ r.user = u
        /\ r.id = i /\ r.left = {}
    BY <1>0, <2>0 DEF Request, Listing
  <2>2. Formed(r)
    BY <2>1 DEF Formed
  <2>3. QED
    BY <1>2, <2>1, <2>2 DEF SubmitUpdate, Begins, Becomes, Authenticated
<1>3. ASSUME NEW u \in Users, NEW t \in Handled, NEW i \in Ids, SubmitDestroy(w, u, t, i)
      PROVE  \E r : Begins(w, r)
  <2> DEFINE r == [Fresh EXCEPT !.pc = "removing", !.user = u, !.table = t, !.id = i]
  <2>0. i \in 0..MaxListings
    BY DEF Ids
  <2>1. r \in Request /\ r.pc = "removing" /\ r.user = u /\ r.id = i /\ r.left = {}
    BY <1>0, <2>0 DEF Request
  <2>2. Formed(r)
    BY <2>1 DEF Formed
  <2>3. QED
    BY <1>3, <2>1, <2>2 DEF SubmitDestroy, Begins, Becomes, Authenticated
<1>4. ASSUME NEW u \in Users, SubmitCancel(w, u)
      PROVE  \E r : Begins(w, r)
  <2> DEFINE r == [Fresh EXCEPT !.pc = "cancelling", !.user = u]
  <2>1. r \in Request /\ r.pc = "cancelling" /\ r.user = u /\ r.left = {}
    BY <1>0 DEF Request
  <2>2. Formed(r)
    BY <2>1 DEF Formed
  <2>3. QED
    BY <1>4, <2>1, <2>2 DEF SubmitCancel, Begins, Becomes, Authenticated
<1>5. ASSUME NEW u \in Users, NEW S \in SUBSET Ids, SubmitCopy(w, u, S)
      PROVE  \E r : Begins(w, r)
  <2> DEFINE p == [i \in Ids |-> IF i \in S THEN listings[Wanted][i] ELSE NoListing]
             r == [Fresh EXCEPT !.pc = "identifying", !.user = u, !.table = Wanted,
                                !.left = S, !.products = p]
  <2>1. p \in [Ids -> Listing \cup {NoListing}] /\ \A i \in S : p[i] \in Listing
    BY <1>5 DEF SubmitCopy, Tables
  <2> HIDE DEF p
  <2>2. Wanted \in Tables
    BY DEF Tables
  <2>3. r \in Request /\ r.pc = "identifying" /\ r.user = u /\ r.left = S /\ r.products = p
    BY <1>0, <2>1, <2>2 DEF Request
  <2>4. Formed(r)
    BY <2>1, <2>3 DEF Formed
  <2>5. req' = [req EXCEPT ![w] = r]
    BY <1>5 DEF SubmitCopy, p
  <2>6. QED
    BY <2>3, <2>4, <2>5 DEF Begins, Becomes
<1>6. UNCHANGED <<accounts, listings, nextListing>>
  BY DEF Submit, SubmitCreate, SubmitUpdate, SubmitDestroy, SubmitCancel, SubmitCopy
<1>7. QED
  BY <1>1, <1>2, <1>3, <1>4, <1>5, <1>6 DEF Submit

\* The row an INSERT writes, the row an UPDATE leaves: listings both.
LEMMA InsertTyped ==
    ASSUME TypeOK, NEW t \in Tables, NEW row \in Listing, InsertListing(t, row)
    PROVE  /\ listings' \in [Tables -> [Ids -> Listing \cup {NoListing}]]
           /\ nextListing' \in [Tables -> 1..(MaxListings + 1)]
<1>1. listings' \in [Tables -> [Ids -> Listing \cup {NoListing}]]
  BY DEF TypeOK, InsertListing
<1>2. nextListing[t] + 1 \in 1..(MaxListings + 1)
  BY DEF InsertListing, Ids
<1>3. nextListing' \in [Tables -> 1..(MaxListings + 1)]
  BY <1>2 DEF TypeOK, InsertListing
<1>4. QED
  BY <1>1, <1>3

LEMMA MergeTyped ==
    ASSUME NEW row \in Listing, NEW r, r.found \in Listing, r.form \in Listing
    PROVE  Merge(row, r) \in Listing
BY DEF Merge, Dirty, Listing

\* A step a handler takes leaves the request of its process well formed.
LEMMA ProceedBecomes ==
    ASSUME TypeInv, NEW w \in Workers, Proceed(w) \/ Abort(w)
    PROVE  \E r : Becomes(w, r)
<1> USE DEF TypeInv, TypeOK
<1>0. req[w] \in Request /\ Formed(req[w]) /\ Fresh \in Request /\ Formed(Fresh)
  BY FreshFormed
<1>1. CASE req' = [req EXCEPT ![w] = Fresh]
  BY <1>0, <1>1 DEF Becomes
<1>2. ASSUME NEW p \in {"saved", "added"}, req' = [req EXCEPT ![w] = [Fresh EXCEPT !.pc = p]]
      PROVE  \E r : Becomes(w, r)
  <2> DEFINE r == [Fresh EXCEPT !.pc = p]
  <2>1. r \in Request /\ r.pc = p /\ r.left = Fresh.left
    BY <1>0 DEF Request
  <2>2. Formed(r)
    BY <2>1 DEF Formed, Fresh
  <2>3. QED
    BY <1>2, <2>1, <2>2 DEF Becomes
<1>3. ASSUME Find(w) PROVE \E r : Becomes(w, r)
  <2> DEFINE row == listings[req[w].table][req[w].id]
             e   == [req[w] EXCEPT !.pc = "found", !.found = row]
             d   == [req[w] EXCEPT !.pc = "deleting"]
  <2>1. CASE req' = [req EXCEPT ![w] = Fresh]
    BY <1>1, <2>1
  <2>2. CASE req[w].pc = "editing" /\ row # NoListing /\ req' = [req EXCEPT ![w] = e]
    <3>1. row \in Listing
      BY <1>0, <2>2 DEF Formed, Request
    <3> HIDE DEF row
    <3>2. /\ e \in Request /\ e.pc = "found" /\ e.found = row /\ e.id = req[w].id
          /\ e.form = req[w].form /\ e.user = req[w].user /\ e.left = req[w].left
          /\ e.products = req[w].products
      BY <1>0, <3>1 DEF Request
    <3> HIDE DEF e
    <3>3. Formed(e)
      BY <1>0, <2>2, <3>1, <3>2 DEF Formed
    <3>4. QED
      BY <2>2, <3>2, <3>3 DEF Becomes
  <2>3. CASE req[w].pc = "removing" /\ req' = [req EXCEPT ![w] = d]
    <3>1. /\ d \in Request /\ d.pc = "deleting" /\ d.id = req[w].id /\ d.left = req[w].left
          /\ d.products = req[w].products
      BY <1>0 DEF Request
    <3> HIDE DEF d
    <3>2. Formed(d)
      BY <1>0, <2>3, <3>1 DEF Formed
    <3>3. QED
      BY <2>3, <3>1, <3>2 DEF Becomes
  <2>4. QED
    BY <1>3, <2>1, <2>2, <2>3 DEF Find
<1>4. ASSUME Identify(w) PROVE \E r : Becomes(w, r)
  <2> DEFINE a == [req[w] EXCEPT !.pc = "adding"]
  <2>1. CASE req[w].pc = "identifying" /\ req' = [req EXCEPT ![w] = a]
    <3>1. /\ a \in Request /\ a.pc = "adding" /\ a.user = req[w].user /\ a.left = req[w].left
          /\ a.products = req[w].products
      BY <1>0 DEF Request
    <3> HIDE DEF a
    <3>2. Formed(a)
      BY <1>0, <2>1, <3>1 DEF Formed
    <3>3. QED
      BY <2>1, <3>1, <3>2 DEF Becomes
  <2>2. QED
    BY <1>1, <1>4, <2>1 DEF Identify
<1>5. ASSUME NEW i \in Ids, AddFavourite(w, i) \/ SkipFavourite(w, i)
      PROVE  \E r : Becomes(w, r)
  <2> DEFINE a == [req[w] EXCEPT !.left = @ \ {i}]
  <2>1. /\ a \in Request /\ a.pc = req[w].pc /\ a.user = req[w].user
        /\ a.left = req[w].left \ {i} /\ a.products = req[w].products
    BY <1>0 DEF Request
  <2>2. req[w].pc = "adding" /\ req' = [req EXCEPT ![w] = a]
    BY <1>5 DEF AddFavourite, SkipFavourite
  <2> HIDE DEF a
  <2>3. Formed(a)
    BY <1>0, <2>1, <2>2 DEF Formed
  <2>4. QED
    BY <2>1, <2>2, <2>3 DEF Becomes
<1>6. ASSUME NEW t \in Tables, NEW from \in {"cancelling", "collecting"},
             NEW to \in {"collecting", "closing"}, Collect(w, t, from, to)
      PROVE  \E r : Becomes(w, r)
  <2> DEFINE own == OwnedBy(t, req[w].user)
             c   == [req[w] EXCEPT !.pc = to, !.doomed[t] = own]
  <2>1. own \in SUBSET Ids
    BY DEF OwnedBy
  <2>2. req[w].pc = from /\ req' = [req EXCEPT ![w] = c]
    BY <1>6 DEF Collect
  <2> HIDE DEF own
  <2>3. /\ c \in Request /\ c.pc = to /\ c.user = req[w].user /\ c.left = req[w].left
        /\ c.products = req[w].products
    <3> DEFINE d == [req[w].doomed EXCEPT ![t] = own]
    <3>1. d \in [Tables -> SUBSET Ids]
      BY <1>0, <2>1 DEF Request
    <3> HIDE DEF d
    <3>2. c = [req[w] EXCEPT !.pc = to, !.doomed = d]
      BY DEF d
    <3>3. QED
      BY <1>0, <3>1, <3>2 DEF Request
  <2> HIDE DEF c
  <2>4. Formed(c)
    BY <1>0, <2>2, <2>3 DEF Formed
  <2>5. QED
    BY <2>2, <2>3, <2>4 DEF Becomes
<1>7. Offers \in Tables /\ Wanted \in Tables
  BY DEF Tables
<1>8. CASE Create(w) \/ Update(w) \/ AnswerFavourites(w)
  BY <1>2, <1>8 DEF Create, Update, AnswerFavourites
<1>9. CASE Refuse(w) \/ Delete(w) \/ CommitCancel(w) \/ Abort(w)
  BY <1>1, <1>9 DEF Refuse, Delete, CommitCancel, Abort
<1>10. CASE CollectOffers(w) \/ CollectWanted(w)
  BY <1>6, <1>7, <1>10 DEF CollectOffers, CollectWanted
<1>11. QED
  BY <1>3, <1>4, <1>5, <1>8, <1>9, <1>10 DEF Proceed

\* What the handlers write keeps the tables in shape.
LEMMA ProceedTyped ==
    ASSUME TypeInv, NEW w \in Workers, Proceed(w)
    PROVE  /\ accounts' \in [Users -> {"new", "active", "cancelled"}]
           /\ listings' \in [Tables -> [Ids -> Listing \cup {NoListing}]]
           /\ nextListing' \in [Tables -> 1..(MaxListings + 1)]
<1> USE DEF TypeInv, TypeOK
<1>0. req[w] \in Request /\ Formed(req[w])
  OBVIOUS
<1>1. CASE Create(w)
  <2>1. req[w].table \in Tables /\ req[w].form \in Listing
    BY <1>0, <1>1 DEF Create, Formed, Request
  <2>2. InsertListing(req[w].table, req[w].form) /\ UNCHANGED accounts
    BY <1>1 DEF Create
  <2>3. QED
    BY <2>1, <2>2, InsertTyped
<1>2. ASSUME NEW i \in Ids, AddFavourite(w, i) PROVE
           /\ accounts' \in [Users -> {"new", "active", "cancelled"}]
           /\ listings' \in [Tables -> [Ids -> Listing \cup {NoListing}]]
           /\ nextListing' \in [Tables -> 1..(MaxListings + 1)]
  <2>1. req[w].products[i] \in Listing /\ req[w].user \in Users
    BY <1>0, <1>2 DEF AddFavourite, Formed
  <2>2. [req[w].products[i] EXCEPT !.user = req[w].user] \in Listing
    BY <2>1 DEF Listing
  <2>3. InsertListing(Wanted, [req[w].products[i] EXCEPT !.user = req[w].user]) /\ UNCHANGED accounts
    BY <1>2 DEF AddFavourite
  <2>4. Wanted \in Tables
    BY DEF Tables
  <2>5. QED
    BY <2>2, <2>3, <2>4, InsertTyped
<1>3. CASE Update(w)
  <2> DEFINE t == req[w].table
             row == listings[t][req[w].id]
             m == Merge(row, req[w])
  <2>1. t \in Tables /\ req[w].id \in Ids /\ req[w].found \in Listing /\ req[w].form \in Listing
    BY <1>0, <1>3 DEF Update, Formed, Request
  <2>2. CASE row = NoListing
    BY <1>3, <2>2 DEF Update
  <2>3. CASE row # NoListing
    <3>1. row \in Listing
      BY <2>1, <2>3
    <3>2. m \in Listing
      BY <2>1, <3>1, MergeTyped
    <3>3. listings' = [listings EXCEPT ![t][req[w].id] = m] /\ UNCHANGED <<accounts, nextListing>>
      BY <1>3, <2>3 DEF Update
    <3> HIDE DEF m, t
    <3>4. QED
      BY <2>1, <3>2, <3>3
  <2>4. QED
    BY <2>2, <2>3
<1>4. CASE Delete(w)
  <2>1. req[w].table \in Tables
    BY <1>0 DEF Request
  <2>2. QED
    BY <1>4, <2>1 DEF Delete
<1>5. CASE CommitCancel(w)
  <2>1. req[w].user \in Users
    BY <1>0, <1>5 DEF CommitCancel, Formed
  <2>2. QED
    BY <1>5, <2>1 DEF CommitCancel
<1>6. CASE UNCHANGED <<accounts, listings, nextListing>>
  BY <1>6
<1>7. QED
  BY <1>1, <1>2, <1>3, <1>4, <1>5, <1>6
     DEF Proceed, Find, Refuse, Identify, SkipFavourite, AnswerFavourites,
         CollectOffers, CollectWanted, Collect

\* Type correctness, with what each request carries at each stage.
LEMMA TypeInvariant == Spec => []TypeInv
<1>1. Init => TypeInv
  <2> SUFFICES ASSUME Init PROVE TypeInv
    OBVIOUS
  <2>1. accounts \in [Users -> {"new", "active", "cancelled"}]
    BY DEF Init
  <2>2. listings \in [Tables -> [Ids -> Listing \cup {NoListing}]]
    BY DEF Init, Nothing
  <2>3. nextListing \in [Tables -> 1..(MaxListings + 1)]
    BY DEF Init
  <2>4. req \in [Workers -> Request] /\ \A w \in Workers : Formed(req[w])
    BY FreshFormed DEF Init
  <2>5. QED
    BY <2>1, <2>2, <2>3, <2>4 DEF TypeInv, TypeOK
<1>2. TypeInv /\ [Next]_vars => TypeInv'
  <2> SUFFICES ASSUME TypeInv, [Next]_vars PROVE TypeInv'
    OBVIOUS
  <2>1. ASSUME NEW w \in Workers, NEW r, Becomes(w, r)
        PROVE  req' \in [Workers -> Request] /\ \A v \in Workers : Formed(req'[v])
    BY <2>1 DEF Becomes, TypeInv, TypeOK
  <2>2. ASSUME NEW w \in Workers, Submit(w) PROVE TypeInv'
    BY <2>1, <2>2, SubmitBecomes DEF TypeInv, TypeOK, Formed, Begins
  <2>3. ASSUME NEW w \in Workers, Proceed(w) PROVE TypeInv'
    BY <2>1, <2>3, ProceedBecomes, ProceedTyped DEF TypeInv, TypeOK, Formed
  <2>4. ASSUME NEW w \in Workers, Abort(w) PROVE TypeInv'
    <3>1. UNCHANGED <<accounts, listings, nextListing>>
      BY <2>4 DEF Abort
    <3>2. QED
      BY <2>1, <2>4, <3>1, ProceedBecomes DEF TypeInv, TypeOK, Formed
  <2>5. ASSUME NEW u \in Users, Register(u) PROVE TypeInv'
    BY <2>5 DEF Register, TypeInv, TypeOK, Formed
  <2>6. CASE UNCHANGED vars
    BY <2>6 DEF vars, TypeInv, TypeOK, Formed
  <2>7. QED
    BY <2>2, <2>3, <2>4, <2>5, <2>6 DEF Next, Step
<1>3. QED
  BY <1>1, <1>2, PTL DEF Spec

\* Type correctness: accounts, listings and requests keep their shape.
THEOREM ListingsTypeCorrect == Spec => []TypeOK
<1>1. TypeInv => TypeOK
  BY DEF TypeInv
<1>2. QED
  BY <1>1, TypeInvariant, PTL

-----------------------------------------------------------------------------
\* The owner a step of process w can give to a row it writes: the user of its
\* own request, or the one an edit's form names.  Any other row of a user was
\* the user's before.
LEMMA OwnersComeFromRequests ==
    ASSUME TypeInv, NEW w \in Workers, Step(w),
           NEW t \in Tables, NEW i \in Ids, listings'[t][i] # NoListing
    PROVE  \/ /\ listings'[t][i].user = req[w].user
              /\ req[w].pc \in {"creating", "found", "adding"}
           \/ HandsOver(w, t, i, listings'[t][i].user)
           \/ listings[t][i] # NoListing /\ listings'[t][i].user = listings[t][i].user
<1> USE DEF TypeInv, TypeOK
<1>0. req[w] \in Request /\ Formed(req[w])
  OBVIOUS
<1>1. ASSUME NEW s \in Tables, NEW row \in Listing, InsertListing(s, row), row.user = req[w].user
      PROVE  \/ listings'[t][i].user = req[w].user
             \/ listings[t][i] # NoListing /\ listings'[t][i].user = listings[t][i].user
  BY <1>1 DEF InsertListing
<1>2. CASE Create(w)
  <2>1. /\ req[w].table \in Tables /\ req[w].form \in Listing
        /\ req[w].form.user = req[w].user /\ req[w].pc = "creating"
    BY <1>0, <1>2 DEF Create, Formed, Request
  <2>2. InsertListing(req[w].table, req[w].form)
    BY <1>2 DEF Create
  <2>3. QED
    BY <1>1, <2>1, <2>2
<1>3. ASSUME NEW j \in Ids, AddFavourite(w, j)
      PROVE  \/ /\ listings'[t][i].user = req[w].user
                /\ req[w].pc \in {"creating", "found", "adding"}
             \/ listings[t][i] # NoListing /\ listings'[t][i].user = listings[t][i].user
  <2> DEFINE copy == [req[w].products[j] EXCEPT !.user = req[w].user]
  <2>1. req[w].products[j] \in Listing /\ req[w].user \in Users /\ req[w].pc = "adding"
    BY <1>0, <1>3 DEF AddFavourite, Formed
  <2>2. copy \in Listing /\ copy.user = req[w].user
    BY <2>1 DEF Listing
  <2>3. InsertListing(Wanted, copy) /\ Wanted \in Tables
    BY <1>3 DEF AddFavourite, Tables
  <2> HIDE DEF copy
  <2>4. QED
    BY <1>1, <2>1, <2>2, <2>3
<1>4. CASE Update(w)
  <2> DEFINE u   == req[w].table
             row == listings[u][req[w].id]
             m   == Merge(row, req[w])
  <2>1. /\ u \in Tables /\ req[w].id \in Ids /\ req[w].pc = "found"
    BY <1>0, <1>4 DEF Update, Formed, Request
  <2>2. m.user \in {req[w].form.user, row.user}
    BY DEF Merge, Dirty
  <2>3. CASE row = NoListing
    BY <1>4, <2>3 DEF Update
  <2>4. CASE row # NoListing
    <3>1. listings' = [listings EXCEPT ![u][req[w].id] = m]
      BY <1>4, <2>4 DEF Update
    <3> HIDE DEF m
    <3>2. CASE t = u /\ i = req[w].id
      <4>1. listings'[t][i] = m
        BY <2>1, <3>1, <3>2
      <4>2. QED
        BY <2>1, <2>2, <2>4, <3>2, <4>1 DEF HandsOver
    <3>3. CASE ~(t = u /\ i = req[w].id)
      BY <2>1, <3>1, <3>3
    <3>4. QED
      BY <3>2, <3>3
  <2>5. QED
    BY <2>3, <2>4
<1>5. CASE Delete(w)
  BY <1>5 DEF Delete
<1>6. CASE CommitCancel(w)
  BY <1>6 DEF CommitCancel
<1>7. CASE UNCHANGED listings
  BY <1>7
<1>8. QED
  BY <1>2, <1>3, <1>4, <1>5, <1>6, <1>7
     DEF Step, Submit, SubmitCreate, SubmitUpdate, SubmitDestroy, SubmitCancel, SubmitCopy,
         Proceed, Find, Refuse, Identify, SkipFavourite, AnswerFavourites,
         CollectOffers, CollectWanted, Collect, Abort

\* With any number of processes, a cancelled account with no request under
\* way gets another listing only from an edit whose form names it: what it
\* left behind otherwise only goes away.
THEOREM CancelledNeverGrows == Spec => CancelledStaysQuiet
<1>1. TypeInv /\ [Next]_vars =>
        \A u \in Users, t \in Tables :
          (accounts[u] = "cancelled" /\ \A w \in Workers : req[w].user # u) =>
             \A i \in OwnedBy(t, u)' \ OwnedBy(t, u) : \E w \in Workers : HandsOver(w, t, i, u)
  <2> SUFFICES ASSUME TypeInv, [Next]_vars, NEW u \in Users, NEW t \in Tables,
                      \A w \in Workers : req[w].user # u,
                      NEW i \in OwnedBy(t, u)' \ OwnedBy(t, u)
               PROVE  \E w \in Workers : HandsOver(w, t, i, u)
    OBVIOUS
  <2>0. /\ i \in Ids /\ listings'[t][i] # NoListing /\ listings'[t][i].user = u
        /\ ~(listings[t][i] # NoListing /\ listings[t][i].user = u)
    BY DEF OwnedBy
  <2>1. ASSUME NEW w \in Workers, Step(w) PROVE HandsOver(w, t, i, u)
    BY <2>0, <2>1, OwnersComeFromRequests
  <2>2. ~UNCHANGED listings
    BY <2>0
  <2>3. QED
    BY <2>1, <2>2 DEF Next, Register, vars
<1>2. QED
  BY <1>1, TypeInvariant, PTL DEF Spec, CancelledStaysQuiet

-----------------------------------------------------------------------------
(***************************************************************************)
(* A single process.  The user authenticated at the start of a request is  *)
(* still registered at its end, and the rows loaded for a cancellation are *)
(* still all the rows of the account when they are destroyed.              *)
(***************************************************************************)
OneProcess == \A v, w \in Workers : v = w

UserStillActive ==
    \A w \in Workers :
        req[w].pc \in {"creating", "editing", "found", "adding", "cancelling", "collecting", "closing"}
            => accounts[req[w].user] = "active"

AllDoomed ==
    \A w \in Workers :
        /\ req[w].pc \in {"collecting", "closing"} =>
              OwnedBy(Offers, req[w].user) \subseteq req[w].doomed[Offers]
        /\ req[w].pc = "closing" => OwnedBy(Wanted, req[w].user) \subseteq req[w].doomed[Wanted]

SoloInv == UserStillActive /\ AllDoomed

\* Steps other than those of the cancellation: no account is touched and the
\* process is not, or no longer, collecting rows.
LEMMA SoloOrdinaryStep ==
    ASSUME OneProcess, TypeInv, SoloInv, NEW w \in Workers, Step(w),
           UNCHANGED accounts, req'[w].pc \notin {"collecting", "closing"},
           req'[w].pc \in {"creating", "editing", "found", "adding", "cancelling"}
              => accounts[req'[w].user] = "active"
    PROVE  SoloInv'
BY OneProcess DEF OneProcess, SoloInv, UserStillActive, AllDoomed

LEMMA SoloInvariant == ASSUME OneProcess PROVE Spec => []SoloInv
<1>1. Init => SoloInv
  BY DEF Init, SoloInv, UserStillActive, AllDoomed, Fresh
<1>2. TypeInv /\ SoloInv /\ [Next]_vars => SoloInv'
  <2> SUFFICES ASSUME TypeInv, SoloInv, [Next]_vars PROVE SoloInv'
    OBVIOUS
  <2> USE DEF TypeInv, TypeOK
  <2>0. \A w \in Workers : req[w] \in Request /\ Formed(req[w])
    OBVIOUS
  <2>1. ASSUME NEW w \in Workers, Submit(w) PROVE SoloInv'
    <3>1. UNCHANGED accounts /\ Step(w)
      BY <2>1, SubmitBecomes DEF Step
    <3>2. /\ req'[w].pc \notin {"collecting", "closing"}
          /\ req'[w].pc \in {"creating", "editing", "found", "adding", "cancelling"}
               => accounts[req'[w].user] = "active"
      <4>1. PICK r : Begins(w, r)
        BY <2>1, SubmitBecomes
      <4>2. req'[w] = r
        BY <4>1 DEF Begins, Becomes
      <4>3. QED
        BY <3>1, <4>1, <4>2 DEF Begins
    <3>3. QED
      BY <3>1, <3>2, OneProcess, SoloOrdinaryStep
  <2>2. ASSUME NEW w \in Workers, Find(w) PROVE SoloInv'
    <3>1. UNCHANGED accounts /\ Step(w)
      BY <2>2 DEF Find, Step, Proceed
    <3>2. \/ req'[w] = Fresh
          \/ req[w].pc = "editing" /\ req'[w].pc = "found" /\ req'[w].user = req[w].user
          \/ req'[w].pc = "deleting"
      BY <2>0, <2>2 DEF Find, Request
    <3>3. /\ req'[w].pc \notin {"collecting", "closing"}
          /\ req'[w].pc \in {"creating", "editing", "found", "adding", "cancelling"}
               => accounts[req'[w].user] = "active"
      BY <3>2 DEF Fresh, SoloInv, UserStillActive
    <3>4. QED
      BY <3>1, <3>3, OneProcess, SoloOrdinaryStep
  <2>3. ASSUME NEW w \in Workers, Identify(w) PROVE SoloInv'
    <3>1. UNCHANGED accounts /\ Step(w)
      BY <2>3 DEF Identify, Step, Proceed
    <3>2. \/ req'[w] = Fresh
          \/ /\ req'[w].pc = "adding" /\ req'[w].user = req[w].user
             /\ accounts[req[w].user] = "active"
      BY <2>0, <2>3 DEF Identify, Request
    <3>3. QED
      BY <3>1, <3>2, OneProcess, SoloOrdinaryStep DEF Fresh
  <2>4. ASSUME NEW w \in Workers, NEW i \in Ids, AddFavourite(w, i) \/ SkipFavourite(w, i)
        PROVE  SoloInv'
    <3>1. UNCHANGED accounts /\ Step(w)
      BY <2>4 DEF AddFavourite, SkipFavourite, Step, Proceed
    <3>2. req[w].pc = "adding" /\ req'[w].pc = "adding" /\ req'[w].user = req[w].user
      BY <2>0, <2>4 DEF AddFavourite, SkipFavourite, Request
    <3>3. QED
      BY <3>1, <3>2, OneProcess, SoloOrdinaryStep DEF SoloInv, UserStillActive
  <2>5. ASSUME NEW w \in Workers,
               Create(w) \/ Update(w) \/ Refuse(w) \/ Delete(w) \/ AnswerFavourites(w) \/ Abort(w)
        PROVE  SoloInv'
    <3>1. UNCHANGED accounts /\ Step(w)
      BY <2>5 DEF Create, Update, Refuse, Delete, AnswerFavourites, Abort, Step, Proceed
    <3>2. req'[w].pc \in {"idle", "saved", "added"}
      <4>1. Fresh.pc = "idle" /\ \A p \in {"saved", "added"} : [Fresh EXCEPT !.pc = p].pc = p
        BY DEF Fresh
      <4>2. \/ req' = [req EXCEPT ![w] = Fresh]
            \/ \E p \in {"saved", "added"} : req' = [req EXCEPT ![w] = [Fresh EXCEPT !.pc = p]]
        BY <2>5 DEF Create, Update, Refuse, Delete, AnswerFavourites, Abort
      <4>3. QED
        BY <4>1, <4>2
    <3>3. QED
      BY <3>1, <3>2, OneProcess, SoloOrdinaryStep
  <2>6. ASSUME NEW w \in Workers, NEW t \in Tables, NEW from, NEW to, Collect(w, t, from, to),
               \/ t = Offers /\ from = "cancelling" /\ to = "collecting"
               \/ t = Wanted /\ from = "collecting" /\ to = "closing"
        PROVE  SoloInv'
    <3>1. UNCHANGED <<accounts, listings>> /\ req[w].pc = from
      BY <2>6 DEF Collect
    <3>2. /\ req'[w].pc = to /\ req'[w].user = req[w].user
          /\ req'[w].doomed = [req[w].doomed EXCEPT ![t] = OwnedBy(t, req[w].user)]
      BY <2>0, <2>6 DEF Collect, Request
    <3>3. req[w].doomed \in [Tables -> SUBSET Ids]
      BY <2>0 DEF Request
    <3>4. UserStillActive'
      BY <2>6, <3>1, <3>2, OneProcess DEF OneProcess, SoloInv, UserStillActive
    <3>6. AllDoomed'
      <4>1. /\ OwnedBy(t, req[w].user) \subseteq req'[w].doomed[t]
            /\ \A s \in Tables : s # t => req'[w].doomed[s] = req[w].doomed[s]
        BY <3>2, <3>3
      <4>2. Offers # Wanted /\ Offers \in Tables /\ Wanted \in Tables
        BY DEF Offers, Wanted, Tables
      <4>3. /\ OwnedBy(Offers, req[w].user) \subseteq req'[w].doomed[Offers]
            /\ to = "closing" => OwnedBy(Wanted, req[w].user) \subseteq req'[w].doomed[Wanted]
        BY <2>6, <3>1, <4>1, <4>2 DEF SoloInv, AllDoomed
      <4>4. QED
        BY <3>1, <3>2, <4>2, <4>3, OneProcess DEF OneProcess, AllDoomed, OwnedBy
    <3>7. QED
      BY <3>4, <3>6 DEF SoloInv
  <2>7. ASSUME NEW w \in Workers, CommitCancel(w) PROVE SoloInv'
    <3>1. req'[w] = Fresh
      BY <2>7 DEF CommitCancel
    <3>2. QED
      BY <3>1, OneProcess DEF OneProcess, SoloInv, UserStillActive, AllDoomed, Fresh
  <2>8. ASSUME NEW u \in Users, Register(u) PROVE SoloInv'
    <3>1. UNCHANGED <<listings, req>> /\ accounts[u] = "new"
      BY <2>8 DEF Register
    <3>2. \A v : accounts[v] = "active" => accounts'[v] = "active"
      BY <2>8, <3>1 DEF Register
    <3>3. UserStillActive'
      BY <3>1, <3>2 DEF SoloInv, UserStillActive
    <3>4. AllDoomed'
      BY <3>1 DEF SoloInv, AllDoomed, OwnedBy
    <3>5. QED
      BY <3>3, <3>4 DEF SoloInv
  <2>9. CASE UNCHANGED vars
    BY <2>9 DEF vars, SoloInv, UserStillActive, AllDoomed, OwnedBy
  <2>10. ASSUME NEW w \in Workers, CollectOffers(w) \/ CollectWanted(w) PROVE SoloInv'
    BY <2>6, <2>10 DEF CollectOffers, CollectWanted, Tables
  <2>11. QED
    BY <2>1, <2>2, <2>3, <2>4, <2>5, <2>7, <2>8, <2>9, <2>10 DEF Next, Step, Proceed
<1>3. QED
  BY <1>1, <1>2, TypeInvariant, PTL DEF Spec

\* With a single process a listing loses its registered owner only to an edit
\* whose form names an account that is not there: saves and copies are made
\* for a user who is registered still, and a cancellation destroys them all.
THEOREM OneProcessNoOrphans == ASSUME OneProcess PROVE Spec => NoOrphans
<1>1. TypeInv /\ SoloInv /\ [Next]_vars =>
        \A t \in Tables, i \in Ids :
          (~Orphaned(t, i) /\ Orphaned(t, i)')
             => \E w \in Workers : HandsOver(w, t, i, listings'[t][i].user)
  <2> SUFFICES ASSUME TypeInv, SoloInv, [Next]_vars, NEW t \in Tables, NEW i \in Ids,
                      ~Orphaned(t, i), Orphaned(t, i)'
               PROVE  \E w \in Workers : HandsOver(w, t, i, listings'[t][i].user)
    OBVIOUS
  <2> DEFINE owner == listings'[t][i].user
  <2>0. /\ listings'[t][i] # NoListing /\ accounts'[owner] # "active"
        /\ listings[t][i] # NoListing => accounts[listings[t][i].user] = "active"
    BY DEF Orphaned
  <2>1. ASSUME NEW w \in Workers, CommitCancel(w) PROVE FALSE
    <3>1. listings'[t][i] = listings[t][i] /\ i \notin req[w].doomed[t]
      BY <2>0, <2>1 DEF CommitCancel
    <3>2. OwnedBy(t, req[w].user) \subseteq req[w].doomed[t]
      BY <2>1 DEF CommitCancel, SoloInv, AllDoomed, Tables
    <3>3. owner # req[w].user
      BY <2>0, <3>1, <3>2 DEF OwnedBy
    <3>4. accounts'[owner] = accounts[owner]
      <4>1. listings[t][i] \in Listing
        BY <2>0, <3>1 DEF TypeInv, TypeOK
      <4>2. owner \in Users
        BY <3>1, <4>1 DEF Listing
      <4>3. accounts' = [accounts EXCEPT ![req[w].user] = "cancelled"]
        BY <2>1 DEF CommitCancel
      <4>4. QED
        BY <3>3, <4>2, <4>3 DEF TypeInv, TypeOK
    <3>5. QED
      BY <2>0, <3>1, <3>4
  <2>2. ASSUME NEW w \in Workers, Step(w) PROVE HandsOver(w, t, i, owner)
    <3>1. UNCHANGED accounts
      BY <2>1, <2>2
         DEF Step, Submit, SubmitCreate, SubmitUpdate, SubmitDestroy, SubmitCancel, SubmitCopy,
             Proceed, Create, Find, Update, Refuse, Delete, Identify, AddFavourite,
             SkipFavourite, AnswerFavourites, CollectOffers, CollectWanted, Collect, Abort
    <3>2. ~(owner = req[w].user /\ req[w].pc \in {"creating", "found", "adding"})
      BY <2>0, <3>1 DEF SoloInv, UserStillActive
    <3>3. ~(listings[t][i] # NoListing /\ owner = listings[t][i].user)
      BY <2>0, <3>1
    <3>4. QED
      BY <2>0, <2>2, <3>2, <3>3, OwnersComeFromRequests
  <2>3. ASSUME NEW u \in Users, Register(u) PROVE FALSE
    BY <2>0, <2>3 DEF Register
  <2>4. ~UNCHANGED vars
    BY <2>0 DEF vars
  <2>5. QED
    BY <2>2, <2>3, <2>4 DEF Next
<1>2. QED
  BY <1>1, TypeInvariant, SoloInvariant, PTL DEF Spec, NoOrphans

-----------------------------------------------------------------------------
(* A single process: what find loaded is still the row when it is updated. *)

FoundStays ==
    \A w \in Workers : req[w].pc = "found" => listings[req[w].table][req[w].id] = req[w].found

\* A request has found a row only by its Find.
LEMMA OnlyFindFinds ==
    ASSUME TypeInv, NEW w \in Workers, Step(w), req'[w].pc = "found"
    PROVE  /\ UNCHANGED listings
           /\ req'[w].table = req[w].table /\ req'[w].id = req[w].id
           /\ req'[w].found = listings[req[w].table][req[w].id]
<1> USE DEF TypeInv, TypeOK
<1>0. req[w] \in Request /\ Fresh.pc = "idle" /\ \A p \in {"saved", "added"} : [Fresh EXCEPT !.pc = p].pc = p
  BY DEF Fresh
<1>1. ~Submit(w)
  BY SubmitBecomes DEF Begins, Becomes
<1>2. CASE Find(w)
  BY <1>0, <1>2 DEF Find, Request
<1>3. ~(Create(w) \/ Update(w) \/ Refuse(w) \/ Delete(w) \/ AnswerFavourites(w) \/ CommitCancel(w) \/ Abort(w))
  BY <1>0 DEF Create, Update, Refuse, Delete, AnswerFavourites, CommitCancel, Abort
<1>4. ~Identify(w)
  BY <1>0 DEF Identify, Request
<1>5. \A i \in Ids : ~AddFavourite(w, i) /\ ~SkipFavourite(w, i)
  BY <1>0 DEF AddFavourite, SkipFavourite, Request
<1>6. ASSUME NEW t, NEW from, NEW to, Collect(w, t, from, to), to # "found" PROVE FALSE
  BY <1>0, <1>6 DEF Collect, Request
<1>7. ~(CollectOffers(w) \/ CollectWanted(w))
  BY <1>6 DEF CollectOffers, CollectWanted
<1>8. QED
  BY <1>1, <1>2, <1>3, <1>4, <1>5, <1>7 DEF Step, Proceed

LEMMA FoundInvariant == ASSUME OneProcess PROVE Spec => []FoundStays
<1>1. Init => FoundStays
  BY DEF Init, FoundStays, Fresh
<1>2. TypeInv /\ FoundStays /\ [Next]_vars => FoundStays'
  <2> SUFFICES ASSUME TypeInv, FoundStays, [Next]_vars PROVE FoundStays'
    OBVIOUS
  <2>1. ASSUME NEW w \in Workers, Step(w) PROVE FoundStays'
    <3> SUFFICES ASSUME req'[w].pc = "found"
                 PROVE  listings'[req'[w].table][req'[w].id] = req'[w].found
      BY OneProcess DEF OneProcess, FoundStays
    <3> QED
      BY <2>1, OnlyFindFinds
  <2>2. CASE UNCHANGED <<listings, req>>
    BY <2>2 DEF FoundStays
  <2>3. QED
    BY <2>1, <2>2 DEF Next, Register, vars
<1>3. QED
  BY <1>1, <1>2, TypeInvariant, PTL DEF Spec

\* With a single process an update answered with success has happened: the row
\* is there and holds what the form gave.
THEOREM OneProcessEditTakesEffect == ASSUME OneProcess PROVE Spec => EditTakesEffect
<1> DEFINE Effective == \A w \in Workers :
               (req[w].pc = "found" /\ req'[w].pc = "saved") =>
                  LET row == listings'[req[w].table][req[w].id] IN
                  /\ row # NoListing
                  /\ row.user = req[w].form.user /\ row.property = req[w].form.property
                  /\ row.kind = req[w].form.kind
                  /\ req[w].named => row.location = req[w].form.location
<1>1. TypeInv /\ FoundStays /\ [Next]_vars => [Effective]_vars
  <2> SUFFICES ASSUME TypeInv, FoundStays, Next, NEW w \in Workers,
                      req[w].pc = "found", req'[w].pc = "saved"
               PROVE  LET row == listings'[req[w].table][req[w].id] IN
                      /\ row # NoListing
                      /\ row.user = req[w].form.user /\ row.property = req[w].form.property
                      /\ row.kind = req[w].form.kind
                      /\ req[w].named => row.location = req[w].form.location
    OBVIOUS
  <2> USE DEF TypeInv, TypeOK
  <2>0. req[w] \in Request /\ Formed(req[w]) /\ Fresh.pc = "idle"
    BY DEF Fresh
  <2>1. PICK v \in Workers : Step(v)
    BY DEF Next, Register
  <2>2. Step(w)
    BY <2>1, OneProcess DEF OneProcess
  <2>3. Update(w)
    <3>1. ~Submit(w)
      BY SubmitBecomes DEF Begins, Becomes
    <3>2. ~Refuse(w) /\ ~Abort(w)
      BY <2>0 DEF Refuse, Abort
    <3>3. QED
      BY <2>2, <3>1, <3>2
         DEF Step, Proceed, Create, Find, Delete, Identify, AddFavourite, SkipFavourite, AnswerFavourites,
             CollectOffers, CollectWanted, Collect, CommitCancel
  <2> DEFINE t   == req[w].table
             i   == req[w].id
             row == listings[t][i]
             m   == Merge(row, req[w])
  <2>4. row = req[w].found /\ row \in Listing /\ req[w].form \in Listing /\ t \in Tables /\ i \in Ids
    BY <2>0 DEF FoundStays, Formed, Request
  <2>5. /\ m.user = req[w].form.user /\ m.property = req[w].form.property
        /\ m.kind = req[w].form.kind /\ m \in Listing
        /\ req[w].named => m.location = req[w].form.location
    BY <2>4, MergeTyped DEF Merge, Dirty, Listing
  <2>6. listings' = [listings EXCEPT ![t][i] = m]
    BY <2>3, <2>4 DEF Update
  <2>7. listings'[t][i] = m
    BY <2>4, <2>6
  <2>8. QED
    BY <2>5, <2>7
<1>2. QED
  BY <1>1, TypeInvariant, FoundInvariant, PTL DEF Spec, EditTakesEffect

-----------------------------------------------------------------------------
(* A single process whose saves all succeed: each row selected as a        *)
(* favourite is either still to be copied or has its copy.                 *)

CopyOf(r, i) == [r.products[i] EXCEPT !.user = r.user]

RoomAhead == \A t \in Tables, i \in Ids : i >= nextListing[t] => listings[t][i] = NoListing

CopiedOrLeft ==
    \A w \in Workers : req[w].pc \in {"identifying", "adding"} =>
       \A i \in Ids : req[w].products[i] # NoListing /\ i \notin req[w].left =>
          \E j \in Ids : listings[Wanted][j] = CopyOf(req[w], i)

CopyInv == RoomAhead /\ CopiedOrLeft

\* An id is new when it is issued, whatever a step does.
LEMMA RoomStays ==
    ASSUME TypeInv, RoomAhead, NEW w \in Workers, Step(w)
    PROVE  RoomAhead'
<1> USE DEF TypeInv, TypeOK
<1>0. req[w] \in Request /\ Formed(req[w])
  OBVIOUS
<1>1. ASSUME NEW t \in Tables, NEW row, InsertListing(t, row) PROVE RoomAhead'
  BY <1>1 DEF RoomAhead, InsertListing, Ids
<1>2. CASE Create(w) \/ \E i \in Ids : AddFavourite(w, i)
  BY <1>0, <1>1, <1>2 DEF Create, AddFavourite, Request, Tables
<1>3. CASE Update(w)
  <2> DEFINE t == req[w].table
             i == req[w].id
  <2>1. t \in Tables /\ i \in Ids
    BY <1>0, <1>3 DEF Update, Formed, Request
  <2>2. nextListing' = nextListing /\ \A u \in Tables, j \in Ids : listings[u][j] = NoListing => listings'[u][j] = NoListing
    BY <1>3, <2>1 DEF Update
  <2>3. QED
    BY <2>2 DEF RoomAhead
<1>4. CASE Delete(w)
  <2>1. nextListing' = nextListing /\ \A u \in Tables, j \in Ids : listings[u][j] = NoListing => listings'[u][j] = NoListing
    BY <1>4 DEF Delete
  <2>2. QED
    BY <2>1 DEF RoomAhead
<1>5. CASE CommitCancel(w)
  BY <1>5 DEF CommitCancel, RoomAhead
<1>6. CASE UNCHANGED <<listings, nextListing>>
  BY <1>6 DEF RoomAhead
<1>7. QED
  BY <1>2, <1>3, <1>4, <1>5, <1>6
     DEF Step, Submit, SubmitCreate, SubmitUpdate, SubmitDestroy, SubmitCancel, SubmitCopy,
         Proceed, Find, Refuse, Identify, SkipFavourite, AnswerFavourites,
         CollectOffers, CollectWanted, Collect, Abort

\* What a step of the process that copies favourites leaves to copy.
LEMMA CopiesStay ==
    ASSUME Geocoder, TypeInv, CopyInv, NEW w \in Workers, Step(w),
           req'[w].pc \in {"identifying", "adding"},
           NEW i \in Ids, req'[w].products[i] # NoListing, i \notin req'[w].left
    PROVE  \E j \in Ids : listings'[Wanted][j] = CopyOf(req'[w], i)
<1> USE DEF TypeInv, TypeOK
<1>0. req[w] \in Request /\ Fresh.pc = "idle" /\ \A p \in {"saved", "added"} : [Fresh EXCEPT !.pc = p].pc = p
  BY DEF Fresh
<1>1. ~(Create(w) \/ Update(w) \/ Refuse(w) \/ Delete(w) \/ AnswerFavourites(w) \/ CommitCancel(w) \/ Abort(w))
  BY <1>0 DEF Create, Update, Refuse, Delete, AnswerFavourites, CommitCancel, Abort
<1>2. ~Find(w)
  BY <1>0 DEF Find, Request
<1>3. ~(CollectOffers(w) \/ CollectWanted(w))
  <2>1. ASSUME NEW t, NEW from, NEW to, Collect(w, t, from, to), to \notin {"identifying", "adding"} PROVE FALSE
    BY <1>0, <2>1 DEF Collect, Request
  <2>2. QED
    BY <2>1 DEF CollectOffers, CollectWanted
<1>4. ~Submit(w)
  <2>1. SUFFICES ASSUME Submit(w) PROVE FALSE
    OBVIOUS
  <2>2. PICK u \in Users, S \in SUBSET Ids : SubmitCopy(w, u, S)
    <3>0. Fresh \in Request
      BY FreshFormed
    <3>1. ASSUME NEW t \in Handled, NEW form \in Listing, SubmitCreate(w, t, form) PROVE FALSE
      <4> DEFINE r == [Fresh EXCEPT !.pc = "creating", !.user = form.user, !.table = t, !.form = form]
      <4>1. r.pc = "creating"
        BY <3>0 DEF Request
      <4>2. QED
        BY <3>1, <4>1 DEF SubmitCreate
    <3>2. ASSUME NEW t \in Handled, NEW form \in Listing, NEW u \in Users, NEW k \in Ids,
                 NEW named \in BOOLEAN, SubmitUpdate(w, u, t, k, form, named)
          PROVE  FALSE
      <4> DEFINE r == [Fresh EXCEPT !.pc = "editing", !.user = u, !.table = t, !.id = k,
                                    !.form = form, !.named = named]
      <4>1. r.pc = "editing"
        BY <3>0 DEF Request
      <4>2. QED
        BY <3>2, <4>1 DEF SubmitUpdate
    <3>3. ASSUME NEW u \in Users, NEW t \in Handled, NEW k \in Ids, SubmitDestroy(w, u, t, k) PROVE FALSE
      <4> DEFINE r == [Fresh EXCEPT !.pc = "removing", !.user = u, !.table = t, !.id = k]
      <4>1. r.pc = "removing"
        BY <3>0 DEF Request
      <4>2. QED
        BY <3>3, <4>1 DEF SubmitDestroy
    <3>4. ASSUME NEW u \in Users, SubmitCancel(w, u) PROVE FALSE
      <4> DEFINE r == [Fresh EXCEPT !.pc = "cancelling", !.user = u]
      <4>1. r.pc = "cancelling"
        BY <3>0 DEF Request
      <4>2. QED
        BY <3>4, <4>1 DEF SubmitCancel
    <3>5. QED
      BY <2>1, <3>1, <3>2, <3>3, <3>4 DEF Submit
  <2>3. /\ req'[w].left = S
        /\ req'[w].products = [k \in Ids |-> IF k \in S THEN listings[Wanted][k] ELSE NoListing]
    BY <2>2 DEF SubmitCopy, Fresh
  <2>4. QED
    BY <2>3
<1>5. CASE Identify(w)
  <2>1. /\ req[w].pc = "identifying" /\ listings' = listings
        /\ req'[w].products = req[w].products /\ req'[w].left = req[w].left /\ req'[w].user = req[w].user
    BY <1>0, <1>5 DEF Identify, Request
  <2>2. QED
    BY <2>1 DEF CopyInv, CopiedOrLeft, CopyOf
<1>6. ASSUME NEW k \in Ids, AddFavourite(w, k)
      PROVE  \E j \in Ids : listings'[Wanted][j] = CopyOf(req'[w], i)
  <2> DEFINE n == nextListing[Wanted]
  <2>1. /\ req[w].pc = "adding"
        /\ req'[w].products = req[w].products /\ req'[w].left = req[w].left \ {k} /\ req'[w].user = req[w].user
    BY <1>0, <1>6 DEF AddFavourite, Request
  <2>2. /\ n \in Ids /\ Wanted \in Tables
        /\ listings' = [listings EXCEPT ![Wanted][n] = CopyOf(req[w], k)]
    BY <1>6 DEF AddFavourite, InsertListing, CopyOf, Tables
  <2>3. listings[Wanted][n] = NoListing
    BY <2>2 DEF CopyInv, RoomAhead, Ids
  <2>4. CASE i = k
    BY <2>1, <2>2, <2>4 DEF CopyOf
  <2>5. CASE i # k
    <3>1. PICK j \in Ids : listings[Wanted][j] = CopyOf(req[w], i)
      BY <2>1, <2>5 DEF CopyInv, CopiedOrLeft
    <3>2. CopyOf(req[w], i) \in Listing
      <4>1. req[w].products[i] \in Listing
        BY <1>0, <2>1 DEF Request
      <4>2. req[w].user \in Users
        BY <2>1 DEF Formed
      <4>3. QED
        BY <4>1, <4>2 DEF CopyOf, Listing
    <3>3. j # n
      BY <2>3, <3>1, <3>2
    <3>4. listings'[Wanted][j] = CopyOf(req[w], i)
      BY <2>2, <3>1, <3>3
    <3>5. QED
      BY <2>1, <3>4 DEF CopyOf
  <2>6. QED
    BY <2>4, <2>5
<1>7. \A k \in Ids : ~SkipFavourite(w, k)
  BY DEF SkipFavourite
<1>8. QED
  BY <1>1, <1>2, <1>3, <1>4, <1>5, <1>6, <1>7 DEF Step, Proceed

LEMMA CopyInvariant == ASSUME OneProcess, Geocoder PROVE Spec => []CopyInv
<1>1. Init => CopyInv
  BY DEF Init, CopyInv, RoomAhead, CopiedOrLeft, Fresh, Nothing
<1>2. TypeInv /\ CopyInv /\ [Next]_vars => CopyInv'
  <2> SUFFICES ASSUME TypeInv, CopyInv, [Next]_vars PROVE CopyInv'
    OBVIOUS
  <2>1. ASSUME NEW w \in Workers, Step(w) PROVE CopyInv'
    <3>1. RoomAhead'
      BY <2>1, RoomStays DEF CopyInv
    <3>2. CopiedOrLeft'
      BY <2>1, Geocoder, OneProcess, CopiesStay DEF OneProcess, CopiedOrLeft
    <3>3. QED
      BY <3>1, <3>2 DEF CopyInv
  <2>2. CASE UNCHANGED <<listings, nextListing, req>>
    BY <2>2 DEF CopyInv, RoomAhead, CopiedOrLeft
  <2>3. QED
    BY <2>1, <2>2 DEF Next, Register, vars
<1>3. QED
  BY <1>1, <1>2, TypeInvariant, PTL DEF Spec

\* create_properties: with a single process and saves that succeed, the answer
\* "added successfully" comes when every selected row has its copy.
THEOREM OneProcessFavouritesCopied == ASSUME OneProcess, Geocoder PROVE Spec => FavouritesCopied
<1> DEFINE Copied == \A w \in Workers :
               (req[w].pc = "adding" /\ req'[w].pc = "added") =>
                  \A i \in Ids : req[w].products[i] # NoListing =>
                     \E j \in Ids :
                        listings[Wanted][j] = [req[w].products[i] EXCEPT !.user = req[w].user]
<1>1. TypeInv /\ CopyInv /\ [Next]_vars => [Copied]_vars
  <2> SUFFICES ASSUME TypeInv, CopyInv, Next, NEW w \in Workers,
                      req[w].pc = "adding", req'[w].pc = "added",
                      NEW i \in Ids, req[w].products[i] # NoListing
               PROVE  \E j \in Ids : listings[Wanted][j] = [req[w].products[i] EXCEPT !.user = req[w].user]
    OBVIOUS
  <2> USE DEF TypeInv, TypeOK
  <2>0. req[w] \in Request /\ Fresh.pc = "idle"
    BY DEF Fresh
  <2>1. PICK v \in Workers : Step(v)
    BY DEF Next, Register
  <2>2. Step(w)
    BY <2>1, OneProcess DEF OneProcess
  <2>3. AnswerFavourites(w)
    <3>1. ~Submit(w)
      BY SubmitBecomes DEF Begins, Becomes
    <3>2. ~Abort(w)
      BY <2>0 DEF Abort
    <3>3. \A k \in Ids : ~AddFavourite(w, k) /\ ~SkipFavourite(w, k)
      <4>1. ASSUME NEW k \in Ids, AddFavourite(w, k) \/ SkipFavourite(w, k) PROVE FALSE
        <5>1. req' = [req EXCEPT ![w].left = @ \ {k}]
          BY <4>1 DEF AddFavourite, SkipFavourite
        <5>2. req'[w].pc = req[w].pc
          BY <2>0, <5>1 DEF Request
        <5>3. QED
          BY <5>2
      <4>2. QED
        BY <4>1
    <3>4. QED
      BY <2>2, <3>1, <3>2, <3>3
         DEF Step, Proceed, Create, Find, Update, Refuse, Delete, Identify,
             CollectOffers, CollectWanted, Collect, CommitCancel
  <2>4. req[w].left = {}
    BY <2>3 DEF AnswerFavourites
  <2>5. QED
    BY <2>4 DEF CopyInv, CopiedOrLeft, CopyOf
<1>2. QED
  BY <1>1, TypeInvariant, CopyInvariant, PTL DEF Spec, FavouritesCopied
===========================================================================
