--------------------------- MODULE CatalogProofs ---------------------------
(***************************************************************************)
(* Theorems about Catalog, for every set of processes, controllers and     *)
(* names, every folding of case and every bound.                           *)
(***************************************************************************)
EXTENDS Catalog, TLAPS

USE MaxRowsAssumption, ControllersAssumption, NoRowAssumption, NoWorkerAssumption

\* Type correctness: every handler keeps the tables and the requests in the
\* shape the rest of the module relies on.
THEOREM TypeCorrect == Spec => []TypeOK
<1>1. Init => TypeOK
  BY DEF Init, TypeOK, Idle, Request, Tables, Ids
<1>2. TypeOK /\ [Next]_vars => TypeOK'
  <2> SUFFICES ASSUME TypeOK, [Next]_vars PROVE TypeOK'
    OBVIOUS
  <2> USE DEF TypeOK, Tables, Ids
  <2>1. ASSUME NEW w \in Workers, NEW c \in Controllers, NEW n \in Names,
               SubmitCreate(w, c, n)
        PROVE  TypeOK'
    BY <2>1 DEF SubmitCreate, Request
  <2>2. ASSUME NEW w \in Workers, NEW c \in Controllers, NEW i \in Ids, NEW n \in Names,
               SubmitUpdate(w, c, i, n)
        PROVE  TypeOK'
    <3>1. rows[ModelOf(c, i)][i] \in Names \cup {NoRow}
      BY DEF ModelOf
    <3>2. QED
      BY <2>2, <3>1 DEF SubmitUpdate, Request
  <2>3. ASSUME NEW w \in Workers, NEW c \in Controllers, NEW i \in Ids,
               SubmitDestroy(w, c, i)
        PROVE  TypeOK'
    <3>1. rows[ModelOf(c, i)][i] \in Names \cup {NoRow}
      BY DEF ModelOf
    <3>2. QED
      BY <2>3, <3>1 DEF SubmitDestroy, Request
  <2>4. ASSUME NEW w \in Workers, Validate(w) PROVE TypeOK'
    <3>1. req[w] \in Request
      OBVIOUS
    <3>2. Idle \in Request
      BY DEF Idle, Request
    <3>3. [req[w] EXCEPT !.pc = "validated"] \in Request
      BY <3>1 DEF Request
    <3>4. req' \in [Workers -> Request]
      BY <2>4, <3>2, <3>3 DEF Validate
    <3>5. QED
      BY <2>4, <3>4 DEF Validate
  <2>5. ASSUME NEW w \in Workers, Insert(w) PROVE TypeOK'
    <3> DEFINE t == TableOf(req[w])
    <3>1. req[w] \in Request
      OBVIOUS
    <3>2. t \in Tables /\ req[w].name \in Names \cup {NoRow}
      BY <3>1 DEF TableOf, ModelOf, Request
    <3>3. [req[w] EXCEPT !.pc = "saved"] \in Request
      BY <3>1 DEF Request
    <3>4. req' \in [Workers -> Request]
      BY <2>5, <3>3 DEF Insert
    <3> HIDE DEF t
    <3>5. /\ rows' = [rows EXCEPT ![t][nextId[t]] = req[w].name]
          /\ author' = [author EXCEPT ![t][nextId[t]] = w]
          /\ nextId' = [nextId EXCEPT ![t] = @ + 1]
          /\ nextId[t] \in Ids
      BY <2>5 DEF Insert, t
    <3>6. rows' \in [Tables -> [Ids -> Names \cup {NoRow}]]
      BY <3>2, <3>5
    <3>7. author' \in [Tables -> [Ids -> Workers \cup {NoWorker}]]
      BY <3>2, <3>5
    <3>8. nextId' \in [Tables -> 1..(MaxRows + 1)]
      <4>1. nextId[t] + 1 \in 1..(MaxRows + 1)
        BY <3>5
      <4>2. QED
        BY <3>2, <3>5, <4>1
    <3>9. QED
      BY <3>4, <3>6, <3>7, <3>8
  <2>6. ASSUME NEW w \in Workers, Update(w) PROVE TypeOK'
    <3> DEFINE t == TableOf(req[w])
    <3>1. req[w] \in Request
      OBVIOUS
    <3>2. t \in Tables /\ req[w].name \in Names \cup {NoRow} /\ req[w].id \in 0..MaxRows
      BY <3>1 DEF TableOf, ModelOf, Request
    <3>3. [req[w] EXCEPT !.pc = "saved"] \in Request
      BY <3>1 DEF Request
    <3>4. req' \in [Workers -> Request]
      BY <2>6, <3>3 DEF Update
    <3> HIDE DEF t
    <3>5. rows' \in [Tables -> [Ids -> Names \cup {NoRow}]]
      BY <2>6, <3>2 DEF Update, t
    <3>6. author' \in [Tables -> [Ids -> Workers \cup {NoWorker}]]
      BY <2>6, <3>2 DEF Update, t
    <3>7. QED
      BY <2>6, <3>4, <3>5, <3>6 DEF Update
  <2>7. ASSUME NEW w \in Workers, Delete(w) PROVE TypeOK'
    <3> DEFINE t == TableOf(req[w])
    <3>1. req[w] \in Request
      OBVIOUS
    <3>2. t \in Tables
      BY <3>1 DEF TableOf, ModelOf, Request
    <3>3. Idle \in Request
      BY DEF Idle, Request
    <3> HIDE DEF t
    <3>4. /\ rows' = [rows EXCEPT ![t][req[w].id] = NoRow]
          /\ req' = [req EXCEPT ![w] = Idle]
          /\ UNCHANGED <<nextId, author>>
      BY <2>7 DEF Delete, t
    <3>5. QED
      BY <3>2, <3>3, <3>4
  <2>8. ASSUME NEW w \in Workers, Abort(w) PROVE TypeOK'
    BY <2>8 DEF Abort, Request, Idle
  <2>9. CASE UNCHANGED vars
    BY <2>9 DEF vars
  <2>10. QED
    BY <2>1, <2>2, <2>3, <2>4, <2>5, <2>6, <2>7, <2>8, <2>9 DEF Next, Step, Submit
<1>3. QED
  BY <1>1, <1>2, PTL DEF Spec

-----------------------------------------------------------------------------
(***************************************************************************)
(* DistinctAuthors is not inductive: it must also say what the SELECT of a *)
(* validated request has established, and what no later step undoes.  Rows *)
(* with the requested name may appear after the SELECT, but only by the    *)
(* hand of another process.                                                *)
(***************************************************************************)
ValidatedAgainstOwn ==
    \A w \in Workers : req[w].pc = "validated" =>
        \A j \in Ids \ {req[w].id} :
            /\ rows[TableOf(req[w])][j] # NoRow
            /\ Lower[rows[TableOf(req[w])][j]] = Lower[req[w].name]
            => author[TableOf(req[w])][j] # w

AuthorInv == TypeOK /\ DistinctAuthors /\ ValidatedAgainstOwn

\* Row i of table t is written by process w with the name it validated.
WriteRow(w, t, i) ==
    /\ rows' = [rows EXCEPT ![t][i] = req[w].name]
    /\ author' = [author EXCEPT ![t][i] = w]
    /\ req' = [req EXCEPT ![w].pc = "saved"]

\* An INSERT writes the next row of the request's table.
LEMMA InsertWrites ==
    ASSUME NEW w \in Workers, Insert(w)
    PROVE  /\ nextId[TableOf(req[w])] \in Ids
           /\ WriteRow(w, TableOf(req[w]), nextId[TableOf(req[w])])
BY DEF Insert, WriteRow

\* An UPDATE writes the row the request names, or no row.
LEMMA UpdateWrites ==
    ASSUME TypeOK, NEW w \in Workers, Update(w)
    PROVE  /\ req[w].id \in Ids
           /\ \/ WriteRow(w, TableOf(req[w]), req[w].id)
              \/ UNCHANGED <<rows, author>> /\ req' = [req EXCEPT ![w].pc = "saved"]
<1>1. req[w].id \in Ids
  BY DEF Update, TypeOK, Request, Ids
<1>2. CASE Writes(w)
  BY <1>1, <1>2 DEF Update, WriteRow
<1>3. CASE ~Writes(w)
  BY <1>1, <1>3 DEF Update
<1>4. QED
  BY <1>2, <1>3

\* The INSERT or UPDATE of a validated request keeps the invariant: a row
\* that duplicates the new one was not written by the process that writes.
LEMMA WriteKeepsAuthors ==
    ASSUME AuthorInv, NEW w \in Workers, NEW i \in Ids,
           req[w].pc = "validated", req[w].id \in {0, i},
           WriteRow(w, TableOf(req[w]), i)
    PROVE  DistinctAuthors' /\ ValidatedAgainstOwn'
<1> DEFINE t == TableOf(req[w])
<1>1. t \in Tables /\ \A v \in Workers : TableOf(req[v]) \in Tables
  BY DEF AuthorInv, TypeOK, Request, TableOf, ModelOf, Tables
<1>2. \A u \in Tables, j \in Ids :
        /\ rows'[u][j] = IF u = t /\ j = i THEN req[w].name ELSE rows[u][j]
        /\ author'[u][j] = IF u = t /\ j = i THEN w ELSE author[u][j]
  BY <1>1 DEF AuthorInv, TypeOK, WriteRow
<1>3. \A v \in Workers : v # w => req'[v] = req[v]
  BY DEF AuthorInv, TypeOK, WriteRow
<1>4. req'[w].pc = "saved"
  BY DEF AuthorInv, TypeOK, WriteRow, Request
<1>5. \A j \in Ids \ {i} :
        rows[t][j] # NoRow /\ Lower[rows[t][j]] = Lower[req[w].name] => author[t][j] # w
  BY DEF AuthorInv, ValidatedAgainstOwn, Ids
<1> HIDE DEF t
<1>6. DistinctAuthors'
  BY <1>1, <1>2, <1>5 DEF AuthorInv, DistinctAuthors, SameName
<1>7. ValidatedAgainstOwn'
  <2> SUFFICES ASSUME NEW v \in Workers, req'[v].pc = "validated",
                      NEW j \in Ids \ {req'[v].id},
                      rows'[TableOf(req'[v])][j] # NoRow,
                      Lower[rows'[TableOf(req'[v])][j]] = Lower[req'[v].name]
               PROVE  author'[TableOf(req'[v])][j] # v
    BY DEF ValidatedAgainstOwn, TableOf
  <2>1. v # w /\ req'[v] = req[v]
    BY <1>3, <1>4
  <2>2. QED
    BY <1>1, <1>2, <2>1 DEF AuthorInv, ValidatedAgainstOwn
<1>8. QED
  BY <1>6, <1>7

\* The strengthened invariant holds of every behaviour of the catalogue.
LEMMA AuthorInvariant == Spec => []AuthorInv
<1>1. Init => AuthorInv
  BY DEF Init, AuthorInv, TypeOK, DistinctAuthors, SameName, ValidatedAgainstOwn,
         Idle, Request, Tables, Ids
<1>2. AuthorInv /\ TypeOK' /\ [Next]_vars => AuthorInv'
  <2> SUFFICES ASSUME AuthorInv, TypeOK', [Next]_vars
               PROVE  DistinctAuthors' /\ ValidatedAgainstOwn'
    BY DEF AuthorInv
  <2> USE DEF AuthorInv, TypeOK
  <2>1. ASSUME NEW w \in Workers, Submit(w) \/ Abort(w)
        PROVE  DistinctAuthors' /\ ValidatedAgainstOwn'
    <3>1. UNCHANGED <<rows, author>>
      BY <2>1 DEF Submit, SubmitCreate, SubmitUpdate, SubmitDestroy, Abort
    <3>2. \A v \in Workers : v # w => req'[v] = req[v]
      BY <2>1 DEF Submit, SubmitCreate, SubmitUpdate, SubmitDestroy, Abort
    <3>3. req'[w].pc # "validated"
      BY <2>1 DEF Submit, SubmitCreate, SubmitUpdate, SubmitDestroy, Abort, Idle
    <3>4. DistinctAuthors'
      BY <3>1 DEF DistinctAuthors, SameName
    <3>5. ValidatedAgainstOwn'
      BY <3>1, <3>2, <3>3 DEF ValidatedAgainstOwn, TableOf
    <3>6. QED
      BY <3>4, <3>5
  <2>2. ASSUME NEW w \in Workers, Validate(w)
        PROVE  DistinctAuthors' /\ ValidatedAgainstOwn'
    <3>1. UNCHANGED <<rows, author>>
      BY <2>2 DEF Validate
    <3>2. \A v \in Workers : v # w => req'[v] = req[v]
      BY <2>2 DEF Validate
    <3>3. \/ req'[w] = Idle
          \/ ~Taken(req[w]) /\ req'[w] = [req[w] EXCEPT !.pc = "validated"]
      BY <2>2 DEF Validate
    <3>4. req'[w].pc = "validated" =>
            ~Taken(req[w]) /\ TableOf(req'[w]) = TableOf(req[w])
              /\ req'[w].id = req[w].id /\ req'[w].name = req[w].name
      <4>1. CASE req'[w] = Idle
        BY <4>1 DEF Idle
      <4>2. CASE ~Taken(req[w]) /\ req'[w] = [req[w] EXCEPT !.pc = "validated"]
        <5>1. /\ req'[w].ctl = req[w].ctl
              /\ req'[w].id = req[w].id
              /\ req'[w].name = req[w].name
          BY <4>2 DEF Request
        <5>2. QED
          BY <4>2, <5>1 DEF TableOf
      <4>3. QED
        BY <3>3, <4>1, <4>2
    <3>5. DistinctAuthors'
      BY <3>1 DEF DistinctAuthors, SameName
    <3>6. ValidatedAgainstOwn'
      BY <3>1, <3>2, <3>4 DEF ValidatedAgainstOwn, Taken, TableOf
    <3>7. QED
      BY <3>5, <3>6
  <2>3. ASSUME NEW w \in Workers, Insert(w)
        PROVE  DistinctAuthors' /\ ValidatedAgainstOwn'
    BY <2>3, InsertWrites, WriteKeepsAuthors DEF Insert
  <2>4. ASSUME NEW w \in Workers, Update(w)
        PROVE  DistinctAuthors' /\ ValidatedAgainstOwn'
    <3>1. CASE WriteRow(w, TableOf(req[w]), req[w].id)
      BY <2>4, <3>1, UpdateWrites, WriteKeepsAuthors DEF Update
    <3>2. CASE UNCHANGED <<rows, author>> /\ req' = [req EXCEPT ![w].pc = "saved"]
      <4>1. req'[w].pc = "saved" /\ \A v \in Workers : v # w => req'[v] = req[v]
        BY <3>2 DEF Request
      <4>2. DistinctAuthors'
        BY <3>2 DEF DistinctAuthors, SameName
      <4>3. ValidatedAgainstOwn'
        BY <3>2, <4>1 DEF ValidatedAgainstOwn, TableOf
      <4>4. QED
        BY <4>2, <4>3
    <3>3. QED
      BY <2>4, <3>1, <3>2, UpdateWrites
  <2>5. ASSUME NEW w \in Workers, Delete(w)
        PROVE  DistinctAuthors' /\ ValidatedAgainstOwn'
    <3>1. req'[w].pc = "idle" /\ \A v \in Workers : v # w => req'[v] = req[v]
      BY <2>5 DEF Delete, Idle
    <3>2. \A u \in Tables, j \in Ids : rows'[u][j] # NoRow => rows'[u][j] = rows[u][j]
      BY <2>5 DEF Delete
    <3>3. UNCHANGED author
      BY <2>5 DEF Delete
    <3>4. DistinctAuthors'
      BY <3>2, <3>3 DEF DistinctAuthors, SameName
    <3>5. \A v \in Workers : TableOf(req[v]) \in Tables
      BY DEF Request, TableOf, ModelOf, Tables
    <3>6. ValidatedAgainstOwn'
      <4>1. ASSUME NEW v \in Workers, req'[v].pc = "validated", NEW j \in Ids \ {req'[v].id},
                   rows'[TableOf(req'[v])][j] # NoRow,
                   Lower[rows'[TableOf(req'[v])][j]] = Lower[req'[v].name]
            PROVE  author'[TableOf(req'[v])][j] # v
        <5>1. req'[v] = req[v]
          BY <3>1, <4>1
        <5>2. rows'[TableOf(req[v])][j] = rows[TableOf(req[v])][j]
          BY <3>2, <3>5, <4>1, <5>1
        <5>3. QED
          BY <3>3, <4>1, <5>1, <5>2 DEF ValidatedAgainstOwn
      <4>2. QED
        BY <4>1 DEF ValidatedAgainstOwn, TableOf
    <3>7. QED
      BY <3>4, <3>6
  <2>6. CASE UNCHANGED vars
    BY <2>6 DEF vars, DistinctAuthors, SameName, ValidatedAgainstOwn, TableOf
  <2>7. QED
    BY <2>1, <2>2, <2>3, <2>4, <2>5, <2>6 DEF Next, Step
<1>3. QED
  BY <1>1, <1>2, TypeCorrect, PTL DEF Spec

\* With any number of processes, two rows of a table that hold the same name
\* in any case were written by different processes.
THEOREM DuplicatesHaveDistinctAuthors == Spec => []DistinctAuthors
<1>1. AuthorInv => DistinctAuthors
  BY DEF AuthorInv
<1>2. QED
  BY <1>1, AuthorInvariant, PTL

-----------------------------------------------------------------------------
\* A destroyed row never comes back, whatever the other processes are doing
\* to it: no UPDATE and no INSERT writes an issued id that is empty.
THEOREM DestroyedStaysDestroyed == Spec => NoResurrection
<1>1. TypeOK /\ [Next]_vars =>
        \A t \in Tables, i \in Ids :
          i < nextId[t] /\ rows[t][i] = NoRow => rows'[t][i] = NoRow
  <2> SUFFICES ASSUME TypeOK, [Next]_vars, NEW t \in Tables, NEW i \in Ids,
                      i < nextId[t], rows[t][i] = NoRow
               PROVE  rows'[t][i] = NoRow
    OBVIOUS
  <2> USE DEF TypeOK
  <2>1. CASE UNCHANGED rows
    BY <2>1
  <2>2. ASSUME NEW w \in Workers, Insert(w) PROVE rows'[t][i] = NoRow
    <3> DEFINE u == TableOf(req[w])
    <3>1. u \in Tables
      BY DEF Request, TableOf, ModelOf, Tables
    <3> HIDE DEF u
    <3>2. rows' = [rows EXCEPT ![u][nextId[u]] = req[w].name]
      BY <2>2 DEF Insert, u
    <3>3. ~(u = t /\ nextId[u] = i)
      BY DEF Ids
    <3>4. QED
      BY <3>1, <3>2, <3>3
  <2>3. ASSUME NEW w \in Workers, Update(w) PROVE rows'[t][i] = NoRow
    <3> DEFINE u == TableOf(req[w])
    <3>1. u \in Tables
      BY DEF Request, TableOf, ModelOf, Tables
    <3> HIDE DEF u
    <3>2. \/ UNCHANGED rows
          \/ rows[u][req[w].id] # NoRow /\ rows' = [rows EXCEPT ![u][req[w].id] = req[w].name]
      BY <2>3 DEF Update, Writes, u
    <3>3. QED
      BY <3>1, <3>2
  <2>4. ASSUME NEW w \in Workers, Delete(w) PROVE rows'[t][i] = NoRow
    BY <2>4 DEF Delete
  <2>5. QED
    BY <2>1, <2>2, <2>3, <2>4
       DEF Next, Step, Submit, SubmitCreate, SubmitUpdate, SubmitDestroy, Validate, Abort, vars
<1>2. QED
  BY <1>1, TypeCorrect, PTL DEF Spec, NoResurrection

-----------------------------------------------------------------------------
(***************************************************************************)
(* A single process.  Its requests do not interleave, so what the find and *)
(* the SELECT returned still holds when the row is written.                *)
(***************************************************************************)
OneProcess == \A v, w \in Workers : v = w

LiveAuthored ==
    \A t \in Tables, i \in Ids : rows[t][i] # NoRow => author[t][i] \in Workers

FoundStillThere ==
    \A w \in Workers : req[w].pc \in {"loaded", "validated"} =>
        /\ req[w].name \in Names
        /\ req[w].id # 0 => /\ rows[TableOf(req[w])][req[w].id] = req[w].loaded
                            /\ req[w].loaded # NoRow

SoloInv == AuthorInv /\ LiveAuthored /\ FoundStillThere

\* With a single process the strengthened invariant holds: the author of
\* every row is that process and the record it found is unchanged.
LEMMA SoloInvariant == ASSUME OneProcess PROVE Spec => []SoloInv
<1> DEFINE Solo == LiveAuthored /\ FoundStillThere
<1>1. Init => Solo
  BY DEF Init, LiveAuthored, FoundStillThere, Idle, Tables, Ids
<1>2. TypeOK /\ Solo /\ [Next]_vars => Solo'
  <2> SUFFICES ASSUME TypeOK, Solo, [Next]_vars PROVE Solo'
    OBVIOUS
  <2> USE DEF TypeOK
  <2>0. \A w \in Workers : TableOf(req[w]) \in Tables
    BY DEF Request, TableOf, ModelOf, Tables
  <2>1. ASSUME NEW w \in Workers, Submit(w) PROVE Solo'
    <3>1. UNCHANGED <<rows, author>>
      BY <2>1 DEF Submit, SubmitCreate, SubmitUpdate, SubmitDestroy
    <3>2. FoundStillThere'
      BY <2>1, <3>1, OneProcess
         DEF Submit, SubmitCreate, SubmitUpdate, SubmitDestroy, FoundStillThere, TableOf, OneProcess
    <3>3. QED
      BY <3>1, <3>2 DEF LiveAuthored
  <2>2. ASSUME NEW w \in Workers, Validate(w) PROVE Solo'
    <3>1. UNCHANGED <<rows, author>>
      BY <2>2 DEF Validate
    <3>2. req[w].pc = "loaded"
      BY <2>2 DEF Validate
    <3>3. CASE req' = [req EXCEPT ![w] = Idle]
      BY <3>1, <3>3, OneProcess DEF LiveAuthored, FoundStillThere, OneProcess, Idle
    <3>4. CASE req' = [req EXCEPT ![w].pc = "validated"]
      <4>1. /\ req'[w].ctl = req[w].ctl
            /\ req'[w].id = req[w].id
            /\ req'[w].name = req[w].name
            /\ req'[w].loaded = req[w].loaded
        BY <3>4 DEF Request
      <4>2. FoundStillThere'
        BY <3>1, <3>2, <4>1, OneProcess DEF FoundStillThere, OneProcess, TableOf
      <4>3. QED
        BY <3>1, <4>2 DEF LiveAuthored
    <3>5. QED
      BY <2>2, <3>3, <3>4 DEF Validate
  <2>3. ASSUME NEW w \in Workers, Insert(w) \/ Update(w) PROVE Solo'
    <3>1. req'[w].pc = "saved"
      BY <2>3 DEF Insert, Update, Request
    <3>2. FoundStillThere'
      BY <3>1, OneProcess DEF FoundStillThere, OneProcess
    <3>3. \/ UNCHANGED <<rows, author>>
          \/ \E i \in Ids : WriteRow(w, TableOf(req[w]), i)
      BY <2>3, InsertWrites, UpdateWrites
    <3>4. LiveAuthored'
      <4>1. CASE UNCHANGED <<rows, author>>
        BY <4>1 DEF LiveAuthored
      <4>2. ASSUME NEW i \in Ids, WriteRow(w, TableOf(req[w]), i) PROVE LiveAuthored'
        <5>1. TableOf(req[w]) \in Tables
          BY <2>0
        <5>2. \A t \in Tables, j \in Ids :
                author'[t][j] = w \/ (rows'[t][j] = rows[t][j] /\ author'[t][j] = author[t][j])
          BY <4>2, <5>1 DEF WriteRow
        <5>3. QED
          BY <5>2 DEF LiveAuthored
      <4>3. QED
        BY <3>3, <4>1, <4>2
    <3>5. QED
      BY <3>2, <3>4
  <2>4. ASSUME NEW w \in Workers, Delete(w) \/ Abort(w) PROVE Solo'
    <3>1. req'[w] = Idle
      BY <2>4 DEF Delete, Abort
    <3>2. FoundStillThere'
      BY <3>1, OneProcess DEF FoundStillThere, OneProcess, Idle
    <3>3. UNCHANGED author /\ \A t \in Tables, i \in Ids : rows'[t][i] # NoRow => rows'[t][i] = rows[t][i]
      <4>1. CASE Delete(w)
        <5>1. /\ UNCHANGED author
              /\ rows' = [rows EXCEPT ![TableOf(req[w])][req[w].id] = NoRow]
          BY <4>1 DEF Delete
        <5>2. QED
          BY <2>0, <5>1
      <4>2. CASE Abort(w)
        BY <4>2 DEF Abort
      <4>3. QED
        BY <2>4, <4>1, <4>2
    <3>4. QED
      BY <3>2, <3>3 DEF LiveAuthored
  <2>5. CASE UNCHANGED vars
    BY <2>5 DEF vars, LiveAuthored, FoundStillThere, TableOf
  <2>6. QED
    BY <2>1, <2>2, <2>3, <2>4, <2>5 DEF Next, Step
<1> HIDE DEF Solo
<1>3. Spec => []Solo
  BY <1>1, <1>2, TypeCorrect, PTL DEF Spec
<1>4. AuthorInv /\ Solo => SoloInv
  BY DEF Solo, SoloInv
<1>5. QED
  BY <1>3, <1>4, AuthorInvariant, PTL

\* The names of a table are unique, in any case, with a single process.
THEOREM OneProcessUniqueNames == ASSUME OneProcess PROVE Spec => []UniqueNames
<1>1. SoloInv => UniqueNames
  BY OneProcess DEF SoloInv, AuthorInv, DistinctAuthors, LiveAuthored, UniqueNames,
                    SameName, OneProcess
<1>2. QED
  BY <1>1, SoloInvariant, PTL

\* With a single process an update answered with success has stored the name.
THEOREM OneProcessUpdateTakesEffect == ASSUME OneProcess PROVE Spec => UpdateTakesEffect
<1>1. SoloInv /\ [Next]_vars =>
        \A w \in Workers :
          req[w].pc = "validated" /\ req[w].id # 0 /\ req'[w].pc = "saved"
            => rows'[TableOf(req[w])][req[w].id] = req[w].name
  <2> SUFFICES ASSUME SoloInv, [Next]_vars, NEW w \in Workers,
                      req[w].pc = "validated", req[w].id # 0, req'[w].pc = "saved"
               PROVE  rows'[TableOf(req[w])][req[w].id] = req[w].name
    OBVIOUS
  <2> USE DEF SoloInv, AuthorInv, TypeOK
  <2>1. Update(w)
    <3>1. req' # req
      OBVIOUS
    <3>2. PICK v \in Workers : Step(v)
      BY <3>1 DEF Next, vars
    <3>3. Step(w)
      BY <3>2, OneProcess DEF OneProcess
    <3>4. QED
      BY <3>3 DEF Step, Submit, SubmitCreate, SubmitUpdate, SubmitDestroy, Resting,
                  Validate, Insert, Delete, Abort, Idle
  <2>2. TableOf(req[w]) \in Tables /\ req[w].id \in Ids
    BY DEF Request, TableOf, ModelOf, Tables, Ids
  <2>3. rows[TableOf(req[w])][req[w].id] = req[w].loaded /\ req[w].loaded # NoRow
    BY DEF FoundStillThere
  <2>4. QED
    BY <2>1, <2>2, <2>3 DEF Update, Writes
<1>2. QED
  BY <1>1, SoloInvariant, PTL DEF Spec, UpdateTakesEffect

\* With a single process the handlers implement the atomic registry: a save
\* is one Claim or Rename, a destroy one Release, every other step a stutter.
THEOREM OneProcessImplementsRegistry == ASSUME OneProcess PROVE Spec => ImplementsRegistry
<1>1. Init => Registry!Init
  BY DEF Init, Registry!Init, Tables, Ids, Registry!Tables, Registry!Ids
<1>2. SoloInv /\ [Next]_vars => [Registry!Next]_<<rows, nextId>>
  <2> SUFFICES ASSUME SoloInv, [Next]_vars PROVE Registry!Next \/ UNCHANGED <<rows, nextId>>
    OBVIOUS
  <2> USE DEF SoloInv, AuthorInv, TypeOK
  <2>1. Registry!Tables = Tables /\ Registry!Ids = Ids
    BY DEF Registry!Tables, Tables, Registry!Ids, Ids
  <2>2. \A w \in Workers : TableOf(req[w]) \in Tables
    BY DEF Request, TableOf, ModelOf, Tables
  <2>3. ASSUME NEW w \in Workers, req[w].pc = "validated"
        PROVE  Registry!FreeFor(TableOf(req[w]), req[w].id, req[w].name)
    BY <2>1, <2>2, <2>3, OneProcess
       DEF Registry!FreeFor, ValidatedAgainstOwn, LiveAuthored, OneProcess
  <2>4. ASSUME NEW w \in Workers, Insert(w) PROVE Registry!Next
    <3>1. req[w].name \in Names
      BY <2>4 DEF Insert, FoundStillThere
    <3>2. Registry!Claim(TableOf(req[w]), req[w].name)
      BY <2>1, <2>3, <2>4 DEF Insert, Registry!Claim
    <3>3. QED
      BY <2>1, <2>2, <3>1, <3>2 DEF Registry!Next
  <2>5. ASSUME NEW w \in Workers, Update(w), ~UNCHANGED rows PROVE Registry!Next
    <3>1. req[w].name \in Names /\ req[w].id \in Ids
      BY <2>5, UpdateWrites DEF Update, FoundStillThere
    <3>2. Writes(w)
      BY <2>5 DEF Update
    <3>3. Registry!Rename(TableOf(req[w]), req[w].id, req[w].name)
      BY <2>3, <2>5, <3>2 DEF Update, Writes, Registry!Rename
    <3>4. QED
      BY <2>1, <2>2, <3>1, <3>3 DEF Registry!Next
  <2>6. ASSUME NEW w \in Workers, Delete(w), ~UNCHANGED rows PROVE Registry!Next
    <3> DEFINE t == TableOf(req[w])
    <3>1. t \in Tables
      BY <2>2
    <3> HIDE DEF t
    <3>2. rows' = [rows EXCEPT ![t][req[w].id] = NoRow] /\ UNCHANGED nextId
      BY <2>6 DEF Delete, t
    <3>3. req[w].id \in Ids
      BY <2>6, <3>1, <3>2
    <3>4. rows[t][req[w].id] # NoRow
      BY <2>6, <3>1, <3>2, <3>3
    <3>5. Registry!Release(t, req[w].id)
      BY <3>2, <3>4 DEF Registry!Release
    <3>6. QED
      BY <2>1, <3>1, <3>3, <3>5 DEF Registry!Next
  <2>7. ASSUME NEW w \in Workers, Submit(w) \/ Validate(w) \/ Abort(w)
        PROVE  UNCHANGED <<rows, nextId>>
    BY <2>7 DEF Submit, SubmitCreate, SubmitUpdate, SubmitDestroy, Validate, Abort
  <2>8. CASE UNCHANGED vars
    BY <2>8 DEF vars
  <2>9. ASSUME NEW w \in Workers, Update(w) \/ Delete(w) PROVE UNCHANGED nextId
    BY <2>9 DEF Update, Delete
  <2>10. QED
    BY <2>4, <2>5, <2>6, <2>7, <2>8, <2>9 DEF Next, Step
<1>3. QED
  BY <1>1, <1>2, SoloInvariant, PTL DEF Spec, ImplementsRegistry, Registry!Spec, Registry!vars
=============================================================================
