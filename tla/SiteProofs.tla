---------------------------- MODULE SiteProofs ----------------------------
(***************************************************************************)
(* Theorems about Site.  Every behaviour of the site is a behaviour of the *)
(* catalogue and one of the listings, so what is proved of the components  *)
(* holds here too.                                                         *)
(***************************************************************************)
EXTENDS Site, TLAPS

\* The components again, with the theorems proved about them.
CP == INSTANCE CatalogProofs WITH req <- creq
LP == INSTANCE ListingsProofs WITH req <- lreq, Properties <- 1..MaxRows, Kinds <- 1..MaxRows

LEMMA CatalogAssumptions ==
    CP!MaxRowsAssumption /\ CP!ControllersAssumption /\ CP!NoRowAssumption /\ CP!NoWorkerAssumption
BY SiteAssumption
   DEF CP!MaxRowsAssumption, CP!ControllersAssumption, CP!NoRowAssumption,
       CP!NoWorkerAssumption, C!Tables, CP!Tables

LEMMA ListingsAssumptions ==
    /\ LP!MaxListingsAssumption /\ LP!HandledAssumption /\ LP!GeocoderAssumption
    /\ LP!NoListingAssumption /\ LP!NoUserAssumption
BY SiteAssumption
   DEF LP!MaxListingsAssumption, LP!HandledAssumption, LP!GeocoderAssumption,
       LP!NoListingAssumption, LP!NoUserAssumption, L!Tables, LP!Tables,
       L!Offers, LP!Offers, L!Wanted, LP!Wanted, L!Listing, LP!Listing

\* A step of the catalogue in the site is a step of the catalogue alone.
LEMMA CatalogSteps == \A w : C!Step(w) => CP!Step(w)
BY DEF C!Step, CP!Step, C!Submit, CP!Submit, C!SubmitCreate, CP!SubmitCreate,
       C!SubmitUpdate, CP!SubmitUpdate, C!SubmitDestroy, CP!SubmitDestroy,
       C!Validate, CP!Validate, C!Insert, CP!Insert, C!Update, CP!Update,
       C!Delete, CP!Delete, C!Abort, CP!Abort, C!Resting, CP!Resting,
       C!Idle, CP!Idle, C!Ids, CP!Ids, C!TableOf, CP!TableOf, C!ModelOf, CP!ModelOf,
       C!Taken, CP!Taken, C!Writes, CP!Writes

\* A step of the listings in the site is a step of the listings alone.
LEMMA ListingsSteps ==
    /\ \A w : L!Step(w) => LP!Step(w)
    /\ \A u : L!Register(u) => LP!Register(u)
<1> USE DEF L!Offers, LP!Offers, L!Wanted, LP!Wanted, L!Tables, LP!Tables, L!Ids, LP!Ids,
            L!Listing, LP!Listing, L!Nothing, LP!Nothing, L!Fresh, LP!Fresh,
            L!Resting, LP!Resting, L!OwnedBy, LP!OwnedBy
<1>1. ASSUME NEW w, L!Submit(w) PROVE LP!Submit(w)
  BY <1>1 DEF L!Submit, LP!Submit, L!SubmitCreate, LP!SubmitCreate, L!SubmitUpdate,
              LP!SubmitUpdate, L!SubmitDestroy, LP!SubmitDestroy, L!SubmitCancel,
              LP!SubmitCancel, L!SubmitCopy, LP!SubmitCopy, L!Authenticated, LP!Authenticated
<1>2. ASSUME NEW w, L!Proceed(w) PROVE LP!Proceed(w)
  BY <1>2 DEF L!Proceed, LP!Proceed, L!Create, LP!Create, L!InsertListing, LP!InsertListing,
              L!Find, LP!Find, L!Update, LP!Update, L!Merge, LP!Merge, L!Dirty, LP!Dirty, L!Refuse, LP!Refuse,
              L!Delete, LP!Delete, L!Identify, LP!Identify, L!AddFavourite, LP!AddFavourite,
              L!SkipFavourite, LP!SkipFavourite, L!AnswerFavourites, LP!AnswerFavourites,
              L!CollectOffers, LP!CollectOffers, L!CollectWanted, LP!CollectWanted,
              L!Collect, LP!Collect, L!CommitCancel, LP!CommitCancel
<1>3. ASSUME NEW w, L!Abort(w) PROVE LP!Abort(w)
  BY <1>3 DEF L!Abort, LP!Abort
<1>4. ASSUME NEW u, L!Register(u) PROVE LP!Register(u)
  BY <1>4 DEF L!Register, LP!Register
<1>5. QED
  BY <1>1, <1>2, <1>3, <1>4 DEF L!Step, LP!Step

\* The site implements its components: restricted to the variables of either,
\* each of its behaviours is one of the component's.
THEOREM SiteImplementsComponents == Spec => CP!Spec /\ LP!Spec
<1>1. Init => CP!Init
  BY DEF Init, C!Init, CP!Init, C!Tables, CP!Tables, C!Ids, CP!Ids, C!Idle, CP!Idle
<1>2. Init => LP!Init
  BY DEF Init, L!Init, LP!Init, L!Offers, LP!Offers, L!Wanted, LP!Wanted, L!Tables, LP!Tables,
         L!Ids, LP!Ids, L!Nothing, LP!Nothing, L!Fresh, LP!Fresh
<1>3. [Next]_vars => [CP!Next]_(CP!vars)
  BY CatalogSteps DEF Next, Register, CatalogStep, ListingsStep, vars, cvars, CP!Next, CP!vars
<1>4. [Next]_vars => [LP!Next]_(LP!vars)
  BY ListingsSteps DEF Next, Register, CatalogStep, ListingsStep, vars, lvars, LP!Next, LP!vars
<1>5. QED
  BY <1>1, <1>2, <1>3, <1>4, PTL DEF Spec, CP!Spec, LP!Spec

\* The types of both components hold in the site.
LEMMA SiteTyped == Spec => [](CP!TypeOK /\ LP!TypeInv)
<1>1. CP!Spec => []CP!TypeOK
  BY CatalogAssumptions, CP!TypeCorrect
<1>2. LP!Spec => []LP!TypeInv
  BY ListingsAssumptions, LP!TypeInvariant
<1>3. QED
  BY <1>1, <1>2, SiteImplementsComponents, PTL

\* Type correctness of the whole.
THEOREM SiteTypeCorrect == Spec => []TypeOK
<1>1. CP!TypeOK /\ LP!TypeInv => TypeOK
  BY DEF TypeOK, LP!TypeInv, CP!TypeOK, C!TypeOK, CP!Tables, C!Tables, CP!Ids, C!Ids,
         CP!Request, C!Request, LP!TypeOK, L!TypeOK, L!Offers, LP!Offers, L!Wanted, LP!Wanted,
         L!Tables, LP!Tables, L!Ids, LP!Ids, L!Listing, LP!Listing, L!Request, LP!Request
<1>2. QED
  BY <1>1, SiteTyped, PTL

-----------------------------------------------------------------------------
(***************************************************************************)
(* The ids in forms, in rows selected for favourites and in listings have  *)
(* all been issued by the catalogue, and stay issued.                      *)
(***************************************************************************)
AllIssued ==
    /\ \A t \in LP!Tables, i \in LP!Ids : Listed(t, i) => Offered(t, listings[t][i])
    /\ \A w \in Workers :
          /\ lreq[w].pc \in {"creating", "editing", "found"} => Offered(lreq[w].table, lreq[w].form)
          /\ \A i \in lreq[w].left : Offered(LP!Wanted, lreq[w].products[i])

\* Ids are never taken back.
LEMMA IdsGrow ==
    ASSUME CP!TypeOK, NEW w \in Workers, CP!Step(w)
    PROVE  \A t \in CP!Tables : nextId[t] \in Nat /\ nextId'[t] \in Nat /\ nextId[t] <= nextId'[t]
<1>0. MaxRows \in Nat /\ \A t \in CP!Tables : nextId[t] \in Nat
  BY SiteAssumption DEF CP!TypeOK
<1>1. CASE UNCHANGED nextId
  BY <1>0, <1>1
<1>2. CASE CP!Insert(w)
  <2> DEFINE u == CP!TableOf(creq[w])
  <2>1. nextId' = [nextId EXCEPT ![u] = @ + 1]
    BY <1>2 DEF CP!Insert
  <2> HIDE DEF u
  <2>2. QED
    BY <1>0, <2>1 DEF CP!TypeOK
<1>3. QED
  BY <1>1, <1>2 DEF CP!Step, CP!Submit, CP!SubmitCreate, CP!SubmitUpdate, CP!SubmitDestroy,
                    CP!Validate, CP!Update, CP!Delete, CP!Abort

\* What has been issued stays issued over a step of the catalogue.
LEMMA OfferedStays ==
    ASSUME CP!TypeOK, NEW w \in Workers, CP!Step(w),
           NEW t \in LP!Tables, NEW f \in LP!Listing, Offered(t, f)
    PROVE  f.property < nextId'["properties"] /\ f.kind < nextId'[KindTable(t)]
<1>1. "properties" \in CP!Tables /\ KindTable(t) \in CP!Tables
  BY DEF CP!Tables, KindTable
<1>2. f.property \in Nat /\ f.kind \in Nat
  BY SiteAssumption DEF LP!Listing
<1>3. QED
  BY <1>1, <1>2, IdsGrow DEF Offered

\* The rows the listings' handlers write carry ids of a form or of a listing.
LEMMA ListingsKeepIssued ==
    ASSUME LP!TypeInv, AllIssued, NEW w \in Workers, LP!Step(w), UNCHANGED nextId,
           lreq'[w].pc \in {"creating", "editing"} => Offered(lreq'[w].table, lreq'[w].form)
    PROVE  AllIssued'
<1> DEFINE Rows == \A t \in LP!Tables, i \in LP!Ids :
                      listings'[t][i] # NoListing => Offered(t, listings'[t][i])
           Mine == /\ lreq'[w].pc \in {"creating", "editing", "found"}
                        => Offered(lreq'[w].table, lreq'[w].form)
                   /\ \A i \in lreq'[w].left : Offered(LP!Wanted, lreq'[w].products[i])
<1> USE DEF LP!TypeInv, LP!TypeOK
<1>0. /\ lreq[w] \in LP!Request /\ LP!Formed(lreq[w])
      /\ LP!Fresh.pc = "idle" /\ LP!Fresh.left = {}
      /\ \A v \in Workers : v # w => lreq'[v] = lreq[v]
  BY DEF LP!Fresh, LP!Step, LP!Submit, LP!SubmitCreate, LP!SubmitUpdate, LP!SubmitDestroy,
         LP!SubmitCancel, LP!SubmitCopy, LP!Proceed, LP!Create, LP!Find, LP!Update, LP!Refuse,
         LP!Delete, LP!Identify, LP!AddFavourite, LP!SkipFavourite, LP!AnswerFavourites,
         LP!CollectOffers, LP!CollectWanted, LP!Collect, LP!CommitCancel, LP!Abort
<1>1. Rows /\ Mine => AllIssued'
  BY <1>0 DEF AllIssued, Listed, Offered, KindTable
<1>2. ASSUME LP!Submit(w) PROVE Mine
  <2>1. CASE lreq'[w].left = {} /\ lreq'[w].pc # "found"
    BY <2>1
  <2>2. ASSUME NEW u \in Users, NEW S \in SUBSET LP!Ids, LP!SubmitCopy(w, u, S) PROVE Mine
    <3> DEFINE p == [i \in LP!Ids |-> IF i \in S THEN listings[LP!Wanted][i] ELSE NoListing]
    <3>1. LP!Fresh \in LP!Request
      BY ListingsAssumptions, LP!FreshFormed
    <3>2. /\ lreq'[w].pc = "identifying" /\ lreq'[w].left = S /\ lreq'[w].products = p
      BY <2>2, <3>1 DEF LP!SubmitCopy, LP!Request
    <3>3. \A i \in S : Offered(LP!Wanted, p[i])
      BY <2>2 DEF LP!SubmitCopy, AllIssued, Listed, LP!Tables
    <3>4. QED
      BY <3>2, <3>3
  <2>3. LP!Fresh \in LP!Request
    BY ListingsAssumptions, LP!FreshFormed
  <2>4. ASSUME NEW t \in Handled, NEW f \in LP!Listing,
               \/ LP!SubmitCreate(w, t, f)
               \/ \E u \in Users, i \in LP!Ids, named \in BOOLEAN : LP!SubmitUpdate(w, u, t, i, f, named)
        PROVE  lreq'[w].left = {} /\ lreq'[w].pc # "found"
    <3>1. CASE LP!SubmitCreate(w, t, f)
      <4>1. lreq'[w] = [LP!Fresh EXCEPT !.pc = "creating", !.user = f.user, !.table = t, !.form = f]
        BY <3>1 DEF LP!SubmitCreate
      <4>2. QED
        BY <1>0, <2>3, <4>1 DEF LP!Request
    <3>2. ASSUME NEW u \in Users, NEW i \in LP!Ids, NEW named \in BOOLEAN,
                 LP!SubmitUpdate(w, u, t, i, f, named)
          PROVE  lreq'[w].left = {} /\ lreq'[w].pc # "found"
      <4>1. lreq'[w] = [LP!Fresh EXCEPT !.pc = "editing", !.user = u, !.table = t,
                                       !.id = i, !.form = f, !.named = named]
        BY <3>2 DEF LP!SubmitUpdate
      <4>2. QED
        BY <1>0, <2>3, <4>1 DEF LP!Request
    <3>3. QED
      BY <2>4, <3>1, <3>2
  <2>5. ASSUME NEW u \in Users,
               \/ LP!SubmitCancel(w, u)
               \/ \E t \in Handled, i \in LP!Ids : LP!SubmitDestroy(w, u, t, i)
        PROVE  lreq'[w].left = {} /\ lreq'[w].pc # "found"
    <3>1. CASE LP!SubmitCancel(w, u)
      <4>1. lreq'[w] = [LP!Fresh EXCEPT !.pc = "cancelling", !.user = u]
        BY <3>1 DEF LP!SubmitCancel
      <4>2. QED
        BY <1>0, <2>3, <4>1 DEF LP!Request
    <3>2. ASSUME NEW t \in Handled, NEW i \in LP!Ids, LP!SubmitDestroy(w, u, t, i)
          PROVE  lreq'[w].left = {} /\ lreq'[w].pc # "found"
      <4>1. lreq'[w] = [LP!Fresh EXCEPT !.pc = "removing", !.user = u, !.table = t, !.id = i]
        BY <3>2 DEF LP!SubmitDestroy
      <4>2. QED
        BY <1>0, <2>3, <4>1 DEF LP!Request
    <3>3. QED
      BY <2>5, <3>1, <3>2
  <2>6. QED
    BY <1>2, <2>1, <2>2, <2>4, <2>5 DEF LP!Submit
<1>3. ASSUME lreq'[w].left = {}, lreq'[w].pc \in {"idle", "saved", "added"} PROVE Mine
  BY <1>3
<1>4. ASSUME lreq'[w].table = lreq[w].table, lreq'[w].form = lreq[w].form,
             lreq'[w].products = lreq[w].products, lreq'[w].left \subseteq lreq[w].left,
             lreq'[w].pc = "found" => lreq[w].pc = "editing",
             lreq'[w].pc \notin {"creating", "editing"}
      PROVE  Mine
  BY <1>4 DEF AllIssued
<1>5. ASSUME LP!Proceed(w) \/ LP!Abort(w) PROVE Mine
  <2>1. CASE lreq' = [lreq EXCEPT ![w] = LP!Fresh]
    BY <1>0, <1>3, <2>1
  <2>2. ASSUME NEW q \in {"saved", "added"}, lreq' = [lreq EXCEPT ![w] = [LP!Fresh EXCEPT !.pc = q]]
        PROVE  Mine
    <3>1. lreq'[w].left = {} /\ lreq'[w].pc = q
      BY <1>0, <2>2 DEF LP!Fresh
    <3>2. QED
      BY <1>3, <3>1
  <2>3. CASE LP!Find(w) /\ lreq' # [lreq EXCEPT ![w] = LP!Fresh]
    <3> DEFINE row == listings[lreq[w].table][lreq[w].id]
    <3>1. \/ /\ lreq[w].pc = "editing"
             /\ lreq' = [lreq EXCEPT ![w].pc = "found", ![w].found = row]
          \/ /\ lreq[w].pc = "removing"
             /\ lreq' = [lreq EXCEPT ![w].pc = "deleting"]
      BY <2>3 DEF LP!Find
    <3> HIDE DEF row
    <3>2. /\ lreq'[w].table = lreq[w].table /\ lreq'[w].form = lreq[w].form
          /\ lreq'[w].products = lreq[w].products /\ lreq'[w].left = lreq[w].left
          /\ \/ lreq[w].pc = "editing" /\ lreq'[w].pc = "found"
             \/ lreq'[w].pc = "deleting"
      BY <1>0, <3>1 DEF LP!Request
    <3>3. QED
      BY <1>4, <3>2
  <2>4. CASE LP!Identify(w) /\ lreq' # [lreq EXCEPT ![w] = LP!Fresh]
    <3> DEFINE a == [lreq[w] EXCEPT !.pc = "adding"]
    <3>1. lreq' = [lreq EXCEPT ![w] = a]
      BY <2>4 DEF LP!Identify
    <3>2. /\ a.table = lreq[w].table /\ a.form = lreq[w].form /\ a.pc = "adding"
          /\ a.products = lreq[w].products /\ a.left = lreq[w].left
      BY <1>0 DEF LP!Request
    <3> HIDE DEF a
    <3>3. lreq'[w] = a
      BY <1>0, <3>1
    <3>4. QED
      BY <1>4, <3>2, <3>3
  <2>5. ASSUME NEW i \in LP!Ids, LP!AddFavourite(w, i) \/ LP!SkipFavourite(w, i) PROVE Mine
    <3> DEFINE a == [lreq[w] EXCEPT !.left = @ \ {i}]
    <3>1. lreq' = [lreq EXCEPT ![w] = a] /\ lreq[w].pc = "adding"
      BY <2>5 DEF LP!AddFavourite, LP!SkipFavourite
    <3>2. /\ a.table = lreq[w].table /\ a.form = lreq[w].form /\ a.pc = lreq[w].pc
          /\ a.products = lreq[w].products /\ a.left = lreq[w].left \ {i}
      BY <1>0 DEF LP!Request
    <3> HIDE DEF a
    <3>3. lreq'[w] = a
      BY <1>0, <3>1
    <3>4. QED
      BY <1>4, <3>1, <3>2, <3>3
  <2>6. ASSUME NEW t \in LP!Tables, NEW from, NEW to \in {"collecting", "closing"},
               LP!Collect(w, t, from, to)
        PROVE  Mine
    BY <1>0, <1>4, <2>6 DEF LP!Collect, LP!Request
  <2>7. CASE LP!Create(w) \/ LP!Update(w) \/ LP!AnswerFavourites(w)
    BY <2>2, <2>7 DEF LP!Create, LP!Update, LP!AnswerFavourites
  <2>8. CASE LP!Refuse(w) \/ LP!Delete(w) \/ LP!CommitCancel(w) \/ LP!Abort(w)
    BY <2>1, <2>8 DEF LP!Refuse, LP!Delete, LP!CommitCancel, LP!Abort
  <2>9. QED
    BY <1>5, <2>1, <2>3, <2>4, <2>5, <2>6, <2>7, <2>8
       DEF LP!Proceed, LP!CollectOffers, LP!CollectWanted, LP!Tables
<1>6. Rows
  <2>1. ASSUME NEW s \in LP!Tables, NEW row \in LP!Listing, LP!InsertListing(s, row), Offered(s, row)
        PROVE  Rows
    BY <2>1 DEF LP!InsertListing, AllIssued, Listed
  <2>2. CASE LP!Create(w)
    <3>1. /\ lreq[w].table \in LP!Tables /\ lreq[w].form \in LP!Listing
          /\ LP!InsertListing(lreq[w].table, lreq[w].form)
      BY <1>0, <2>2 DEF LP!Create, LP!Formed, LP!Request
    <3>2. Offered(lreq[w].table, lreq[w].form)
      BY <2>2 DEF LP!Create, AllIssued
    <3>3. QED
      BY <2>1, <3>1, <3>2
  <2>3. ASSUME NEW i \in LP!Ids, LP!AddFavourite(w, i) PROVE Rows
    <3> DEFINE copy == [lreq[w].products[i] EXCEPT !.user = lreq[w].user]
    <3>1. /\ lreq[w].products[i] \in LP!Listing /\ lreq[w].user \in Users
          /\ Offered(LP!Wanted, lreq[w].products[i])
      BY <1>0, <2>3 DEF LP!AddFavourite, LP!Formed, AllIssued
    <3>2. /\ copy \in LP!Listing
          /\ copy.property = lreq[w].products[i].property
          /\ copy.kind = lreq[w].products[i].kind
      BY <3>1 DEF LP!Listing
    <3>3. LP!InsertListing(LP!Wanted, copy) /\ LP!Wanted \in LP!Tables
      BY <2>3 DEF LP!AddFavourite, LP!Tables
    <3> HIDE DEF copy
    <3>4. QED
      BY <2>1, <3>1, <3>2, <3>3 DEF Offered
  <2>4. CASE LP!Update(w)
    <3> DEFINE t   == lreq[w].table
               row == listings[t][lreq[w].id]
               m   == LP!Merge(row, lreq[w])
    <3>1. t \in LP!Tables /\ lreq[w].id \in LP!Ids /\ Offered(t, lreq[w].form)
      BY <1>0, <2>4 DEF LP!Update, LP!Formed, LP!Request, AllIssued
    <3>2. CASE row = NoListing
      BY <2>4, <3>2 DEF LP!Update, AllIssued, Listed
    <3>3. CASE row # NoListing
      <4>1. Offered(t, row)
        BY <3>1, <3>3 DEF AllIssued, Listed
      <4>2. Offered(t, m)
        BY <3>1, <4>1 DEF LP!Merge, LP!Dirty, Offered
      <4>3. listings' = [listings EXCEPT ![t][lreq[w].id] = m]
        BY <2>4, <3>3 DEF LP!Update
      <4> HIDE DEF m, t
      <4>4. QED
        BY <3>1, <4>2, <4>3 DEF AllIssued, Listed
    <3>4. QED
      BY <3>2, <3>3
  <2>5. CASE LP!Delete(w)
    BY <2>5 DEF LP!Delete, AllIssued, Listed
  <2>6. CASE LP!CommitCancel(w)
    BY <2>6 DEF LP!CommitCancel, AllIssued, Listed
  <2>7. CASE UNCHANGED listings
    BY <2>7 DEF AllIssued, Listed
  <2>8. QED
    BY <2>2, <2>3, <2>4, <2>5, <2>6, <2>7
       DEF LP!Step, LP!Submit, LP!SubmitCreate, LP!SubmitUpdate, LP!SubmitDestroy,
           LP!SubmitCancel, LP!SubmitCopy, LP!Proceed, LP!Find, LP!Refuse, LP!Identify,
           LP!SkipFavourite, LP!AnswerFavourites, LP!CollectOffers, LP!CollectWanted,
           LP!Collect, LP!Abort
<1>7. QED
  BY <1>1, <1>2, <1>5, <1>6 DEF LP!Step

\* Ownership types are never destroyed: every id issued to one is a row.
OwnershipTypesKept ==
    \A i \in CP!Ids : i < nextId["ownership_types"] => rows["ownership_types"][i] # NoRow

\* A save that has a name to store: requests that save carry a name.
Named == \A w \in Workers : creq[w].pc \in {"loaded", "validated"} => creq[w].name \in Names

RefInv == AllIssued /\ OwnershipTypesKept /\ Named

\* A step of the catalogue leaves every ownership type in place.
LEMMA CatalogKeepsOwnershipTypes ==
    ASSUME CP!TypeOK, OwnershipTypesKept, Named, NEW w \in Workers, CP!Step(w)
    PROVE  OwnershipTypesKept' /\ Named'
<1> USE DEF CP!TypeOK
<1>0. /\ creq[w] \in CP!Request /\ CP!TableOf(creq[w]) \in CP!Tables
      /\ "ownership_types" \in CP!Tables /\ MaxRows \in Nat
  BY SiteAssumption DEF CP!Request, CP!TableOf, CP!ModelOf, CP!Tables
<1>1. CASE CP!Submit(w) \/ CP!Abort(w)
  <2>1. UNCHANGED <<rows, nextId>> /\ \A v \in Workers : v # w => creq'[v] = creq[v]
    BY <1>1 DEF CP!Submit, CP!SubmitCreate, CP!SubmitUpdate, CP!SubmitDestroy, CP!Abort
  <2>2. creq'[w].pc \in {"loaded", "validated"} => creq'[w].name \in Names
    BY <1>1 DEF CP!Submit, CP!SubmitCreate, CP!SubmitUpdate, CP!SubmitDestroy, CP!Abort, CP!Idle
  <2>3. QED
    BY <2>1, <2>2 DEF OwnershipTypesKept, Named
<1>2. CASE CP!Validate(w)
  <2>1. UNCHANGED <<rows, nextId>> /\ \A v \in Workers : v # w => creq'[v] = creq[v]
    BY <1>2 DEF CP!Validate
  <2>2. creq'[w].pc = "idle" \/ (creq'[w].name = creq[w].name /\ creq[w].pc = "loaded")
    <3>1. CASE creq' = [creq EXCEPT ![w] = CP!Idle]
      BY <3>1 DEF CP!Idle
    <3>2. CASE creq' = [creq EXCEPT ![w].pc = "validated"]
      BY <1>0, <1>2, <3>2 DEF CP!Request, CP!Validate
    <3>3. QED
      BY <1>2, <3>1, <3>2 DEF CP!Validate
  <2>3. QED
    BY <2>1, <2>2 DEF OwnershipTypesKept, Named
<1>3. CASE CP!Insert(w)
  <2> DEFINE t == CP!TableOf(creq[w])
  <2>1. /\ rows' = [rows EXCEPT ![t][nextId[t]] = creq[w].name]
        /\ nextId' = [nextId EXCEPT ![t] = @ + 1]
        /\ creq[w].name \in Names
    BY <1>3 DEF CP!Insert, Named
  <2>2. t \in CP!Tables
    BY <1>0
  <2> HIDE DEF t
  <2>3. creq[w].name # NoRow
    BY <2>1, SiteAssumption
  <2>4. OwnershipTypesKept'
    <3> SUFFICES ASSUME NEW i \in CP!Ids, i < nextId'["ownership_types"]
                 PROVE  rows'["ownership_types"][i] # NoRow
      BY DEF OwnershipTypesKept
    <3>1. CASE t = "ownership_types" /\ i = nextId[t]
      BY <2>1, <2>2, <2>3, <3>1
    <3>2. CASE ~(t = "ownership_types" /\ i = nextId[t])
      <4>1. rows'["ownership_types"][i] = rows["ownership_types"][i]
        BY <1>0, <2>1, <2>2, <3>2
      <4>2. nextId["ownership_types"] \in Nat /\ i \in Nat
        BY <1>0 DEF CP!Ids
      <4>3. i < nextId["ownership_types"]
        <5>1. CASE t = "ownership_types"
          <6>1. nextId'["ownership_types"] = nextId["ownership_types"] + 1
            BY <1>0, <2>1, <5>1
          <6>2. i # nextId["ownership_types"]
            BY <3>2, <5>1
          <6>3. \A a, b \in Nat : a < b + 1 /\ a # b => a < b
            OBVIOUS
          <6>4. i < nextId["ownership_types"] + 1
            BY <6>1
          <6>5. QED
            BY <4>2, <6>2, <6>3, <6>4
        <5>2. CASE t # "ownership_types"
          BY <1>0, <2>1, <5>2
        <5>3. QED
          BY <5>1, <5>2
      <4>4. QED
        BY <4>1, <4>3 DEF OwnershipTypesKept
    <3>3. QED
      BY <3>1, <3>2
  <2>5. Named'
    BY <1>0, <1>3 DEF CP!Insert, Named, CP!Request
  <2>6. QED
    BY <2>4, <2>5
<1>4. CASE CP!Update(w)
  <2>1. Named'
    BY <1>0, <1>4 DEF CP!Update, Named, CP!Request
  <2>2. UNCHANGED nextId /\ creq[w].id # 0 /\ creq[w].pc = "validated"
    BY <1>4 DEF CP!Update
  <2>3. CP!TableOf(creq[w]) # "ownership_types"
    BY <2>2 DEF CP!TableOf, CP!ModelOf
  <2>4. \A i \in CP!Ids : rows'["ownership_types"][i] = rows["ownership_types"][i]
    BY <1>0, <1>4, <2>3 DEF CP!Update
  <2>5. QED
    BY <2>1, <2>2, <2>4 DEF OwnershipTypesKept
<1>5. CASE CP!Delete(w)
  <2>1. UNCHANGED nextId /\ Named'
    BY <1>5 DEF CP!Delete, Named, CP!Idle
  <2>2. rows' = [rows EXCEPT ![CP!TableOf(creq[w])][creq[w].id] = NoRow]
    BY <1>5 DEF CP!Delete
  <2>3. CP!TableOf(creq[w]) # "ownership_types" \/ creq[w].id = 0
    BY DEF CP!TableOf, CP!ModelOf
  <2>4. \A i \in CP!Ids : i # 0
    BY <1>0 DEF CP!Ids
  <2>5. \A i \in CP!Ids : rows'["ownership_types"][i] = rows["ownership_types"][i]
    BY <1>0, <2>2, <2>3, <2>4
  <2>6. QED
    BY <2>1, <2>5 DEF OwnershipTypesKept
<1>6. QED
  BY <1>1, <1>2, <1>3, <1>4, <1>5 DEF CP!Step

\* The ids that forms and listings carry have been issued, and ownership types
\* stay: the invariant behind what a listing's references resolve to.
LEMMA ReferencesIssued == Spec => []RefInv
<1>1. Init => RefInv
  BY LP!FreshFormed, ListingsAssumptions
     DEF Init, C!Init, L!Init, L!Nothing, L!Fresh, C!Idle, RefInv, AllIssued, OwnershipTypesKept,
         Named, Listed, L!Tables, LP!Tables, L!Offers, LP!Offers, L!Wanted, LP!Wanted,
         L!Ids, LP!Ids, C!Tables, CP!Tables, C!Ids, CP!Ids
<1>2. CP!TypeOK /\ LP!TypeInv /\ RefInv /\ [Next]_vars => RefInv'
  <2> SUFFICES ASSUME CP!TypeOK, LP!TypeInv, RefInv, [Next]_vars PROVE RefInv'
    OBVIOUS
  <2>1. ASSUME NEW w \in Workers, CatalogStep(w) PROVE RefInv'
    <3>1. CP!Step(w) /\ UNCHANGED lvars
      BY <2>1, CatalogSteps DEF CatalogStep
    <3>2. ASSUME NEW t \in LP!Tables, NEW f \in LP!Listing, Offered(t, f)
          PROVE  Offered(t, f)'
      BY <3>1, <3>2, OfferedStays DEF Offered, KindTable
    <3>3. \A t \in LP!Tables, i \in LP!Ids : Listed(t, i) => listings[t][i] \in LP!Listing
      BY DEF Listed, LP!TypeInv, LP!TypeOK
    <3>4. \A v \in Workers :
            /\ lreq[v].table \in LP!Tables
            /\ lreq[v].pc \in {"creating", "editing", "found"} => lreq[v].form \in LP!Listing
            /\ \A i \in lreq[v].left : lreq[v].products[i] \in LP!Listing
      BY DEF LP!TypeInv, LP!TypeOK, LP!Formed, LP!Request
    <3>5. LP!Wanted \in LP!Tables
      BY DEF LP!Tables
    <3>6. AllIssued'
      BY <3>1, <3>2, <3>3, <3>4, <3>5 DEF RefInv, AllIssued, Listed, lvars, Offered
    <3>7. QED
      BY <3>1, <3>6, CatalogKeepsOwnershipTypes DEF RefInv
  <2>2. ASSUME NEW w \in Workers, ListingsStep(w) PROVE RefInv'
    <3>1. /\ LP!Step(w) /\ UNCHANGED cvars
          /\ lreq'[w].pc \in {"creating", "editing"} => Offered(lreq'[w].table, lreq'[w].form)
      BY <2>2, ListingsSteps DEF ListingsStep
    <3>2. AllIssued'
      BY <3>1, ListingsKeepIssued DEF RefInv, cvars
    <3>3. QED
      BY <3>1, <3>2 DEF RefInv, cvars, OwnershipTypesKept, Named
  <2>3. ASSUME NEW u \in Users, Register(u) PROVE RefInv'
    BY <2>3 DEF Register, L!Register, cvars, RefInv, AllIssued, Listed, Offered,
                OwnershipTypesKept, Named
  <2>4. CASE UNCHANGED vars
    BY <2>4 DEF vars, cvars, lvars, RefInv, AllIssued, Listed, Offered, OwnershipTypesKept, Named
  <2>5. QED
    BY <2>1, <2>2, <2>3, <2>4 DEF Next
<1>3. QED
  BY <1>1, <1>2, SiteTyped, PTL DEF Spec

\* The ownership type of every offer exists, with any number of processes and
\* however late its form was posted.
THEOREM OwnershipTypesAlwaysResolve == Spec => []OwnershipTypesResolve
<1>1. LP!TypeInv /\ RefInv => OwnershipTypesResolve
  <2> SUFFICES ASSUME LP!TypeInv, RefInv, NEW i \in LP!Ids, Listed(LP!Offers, i)
               PROVE  rows["ownership_types"][listings[LP!Offers][i].kind] # NoRow
    BY DEF OwnershipTypesResolve, L!Ids, LP!Ids, L!Offers, LP!Offers
  <2>1. LP!Offers \in LP!Tables
    BY DEF LP!Tables
  <2>2. listings[LP!Offers][i].kind \in CP!Ids
    BY <2>1 DEF LP!TypeInv, LP!TypeOK, Listed, LP!Listing, CP!Ids
  <2>3. listings[LP!Offers][i].kind < nextId["ownership_types"]
    BY <2>1 DEF RefInv, AllIssued, Offered, KindTable, L!Offers, LP!Offers
  <2>4. QED
    BY <2>2, <2>3 DEF RefInv, OwnershipTypesKept
<1>2. QED
  BY <1>1, SiteTyped, ReferencesIssued, PTL

\* A listing whose property is gone never comes to name another property.
THEOREM BrokenReferencesStayBroken == Spec => BrokenStaysBroken
<1>1. CP!Spec => CP!NoResurrection
  BY CatalogAssumptions, CP!DestroyedStaysDestroyed
<1>2. LP!TypeInv /\ RefInv /\ [Next]_vars
        /\ [\A t \in CP!Tables, i \in CP!Ids :
              i < nextId[t] /\ rows[t][i] = NoRow => rows'[t][i] = NoRow]_(CP!vars)
        => \A t \in L!Tables, i \in L!Ids :
             (Listed(t, i) /\ PropertyGone(t, i) /\ listings'[t][i] = listings[t][i])
                => PropertyGone(t, i)'
  <2> SUFFICES ASSUME LP!TypeInv, RefInv,
                      [\A t \in CP!Tables, i \in CP!Ids :
                         i < nextId[t] /\ rows[t][i] = NoRow => rows'[t][i] = NoRow]_(CP!vars),
                      NEW t \in LP!Tables, NEW i \in LP!Ids, Listed(t, i), PropertyGone(t, i),
                      listings'[t][i] = listings[t][i]
               PROVE  rows'["properties"][listings[t][i].property] = NoRow
    BY DEF PropertyGone, L!Tables, LP!Tables, L!Ids, LP!Ids, L!Offers, LP!Offers, L!Wanted, LP!Wanted
  <2>1. listings[t][i].property \in CP!Ids /\ listings[t][i].property < nextId["properties"]
    BY DEF LP!TypeInv, LP!TypeOK, Listed, LP!Listing, CP!Ids, RefInv, AllIssued, Offered
  <2>2. "properties" \in CP!Tables
    BY DEF CP!Tables
  <2>3. QED
    BY <2>1, <2>2 DEF PropertyGone, CP!vars
<1>3. QED
  BY <1>1, <1>2, SiteTyped, ReferencesIssued, SiteImplementsComponents, PTL
     DEF Spec, BrokenStaysBroken, CP!NoResurrection
===========================================================================
