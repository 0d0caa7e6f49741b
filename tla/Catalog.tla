----------------------------- MODULE Catalog ------------------------------
(***************************************************************************)
(* The administrators' catalogue: the tables properties, ownership_types   *)
(* and looking_fors, and the create, update and destroy handlers of their  *)
(* three controllers.                                                      *)
(*                                                                         *)
(* A server process runs one request at a time; several processes share    *)
(* the database and interleave between statements, each of which sees what *)
(* is committed (READ COMMITTED).  A save is a transaction of two          *)
(* statements: the SELECT of validates_uniqueness_of, then the INSERT or   *)
(* UPDATE.  No unique index stands behind the validation.                  *)
(***************************************************************************)
EXTENDS Naturals

CONSTANTS
    Workers,      \* server processes
    Controllers,  \* the admin controllers that receive requests
    Names,        \* the texts an administrator can type
    Lower,        \* Lower[n]: the name n in lower case
    MaxRows,      \* bound: how many rows a table issues
    NoRow,        \* stands for a row, or a name, that is not there
    NoWorker      \* the author of a row never written

VARIABLES
    rows,         \* rows[t][i]: the name in row i of table t, or NoRow
    nextId,       \* nextId[t]: the id the next row of table t gets
    req,          \* req[w]: the request process w is handling
    author        \* history: author[t][i], the process that wrote rows[t][i]

vars == <<rows, nextId, req, author>>

Tables == {"properties", "ownership_types", "looking_fors"}
Ids    == 1..MaxRows

ASSUME MaxRowsAssumption     == MaxRows \in Nat
ASSUME ControllersAssumption == Controllers \subseteq Tables
ASSUME NoRowAssumption       == NoRow \notin Names
ASSUME NoWorkerAssumption    == NoWorker \notin Workers

\* id = 0: the record is new.  loaded: the name the find returned.
Request ==
    [pc     : {"idle", "loaded", "validated", "saved", "removing"},
     ctl    : Tables,
     id     : 0..MaxRows,
     name   : Names \cup {NoRow},
     loaded : Names \cup {NoRow}]

Idle == [pc |-> "idle", ctl |-> "properties", id |-> 0, name |-> NoRow, loaded |-> NoRow]

\* The process can take a request: it has answered the last one.
Resting(w) == req[w].pc \in {"idle", "saved"}

\* Mutant of ModelOf: update and destroy are given the controller's own
\* model, and nothing looks at the listings that use the row.
OwnModel(ctl, id) == ctl

\* The table behind a controller.  OwnershipTypesController's update and
\* destroy look the record up in Property; create uses OwnershipType.
ModelOf(ctl, id) ==
    IF ctl = "ownership_types" /\ id # 0 THEN "properties" ELSE ctl

TableOf(r) == ModelOf(r.ctl, r.id)

\* Mutant of Taken: the validation without :case_sensitive => false.
TakenExactCase(r) == \E j \in Ids \ {r.id} : rows[TableOf(r)][j] = r.name

\* What the SELECT of the uniqueness validation finds: another row, than the
\* one being saved, with the same name in lower case.
Taken(r) ==
    \E j \in Ids \ {r.id} :
        /\ rows[TableOf(r)][j] # NoRow
        /\ Lower[rows[TableOf(r)][j]] = Lower[r.name]

Init ==
    /\ rows = [t \in Tables |-> [i \in Ids |-> NoRow]]
    /\ nextId = [t \in Tables |-> 1]
    /\ req = [w \in Workers |-> Idle]
    /\ author = [t \in Tables |-> [i \in Ids |-> NoWorker]]

-----------------------------------------------------------------------------
\* A request names a row by the id in its path: one that the controller's
\* pages have shown, so an id its table has issued, perhaps destroyed since.

SubmitCreate(w, c, n) ==
    /\ Resting(w)
    /\ req' = [req EXCEPT ![w] =
                 [pc |-> "loaded", ctl |-> c, id |-> 0, name |-> n, loaded |-> NoRow]]
    /\ UNCHANGED <<rows, nextId, author>>

\* find answers 404, and nothing changes, when the row is not there.
SubmitUpdate(w, c, i, n) ==
    /\ Resting(w)
    /\ i < nextId[c]
    /\ rows[ModelOf(c, i)][i] # NoRow
    /\ req' = [req EXCEPT ![w] =
                 [pc |-> "loaded", ctl |-> c, id |-> i, name |-> n,
                  loaded |-> rows[ModelOf(c, i)][i]]]
    /\ UNCHANGED <<rows, nextId, author>>

SubmitDestroy(w, c, i) ==
    /\ Resting(w)
    /\ i < nextId[c]
    /\ rows[ModelOf(c, i)][i] # NoRow
    /\ req' = [req EXCEPT ![w] =
                 [pc |-> "removing", ctl |-> c, id |-> i, name |-> NoRow,
                  loaded |-> rows[ModelOf(c, i)][i]]]
    /\ UNCHANGED <<rows, nextId, author>>

\* The validation's SELECT.  A taken name renders the form again.
Validate(w) ==
    /\ req[w].pc = "loaded"
    /\ \/ Taken(req[w]) /\ req' = [req EXCEPT ![w] = Idle]
       \/ ~Taken(req[w]) /\ req' = [req EXCEPT ![w].pc = "validated"]
    /\ UNCHANGED <<rows, nextId, author>>

\* Mutant of Insert: a row gets the id after the last one now in the table.
InsertAfterLast(w) ==
    LET t == TableOf(req[w]) IN
    /\ req[w].pc = "validated" /\ req[w].id = 0
    /\ \E i \in Ids :
          /\ \A j \in i..MaxRows : rows[t][j] = NoRow
          /\ \A k \in 1..(i - 1) : \E j \in k..MaxRows : rows[t][j] # NoRow
          /\ rows' = [rows EXCEPT ![t][i] = req[w].name]
          /\ author' = [author EXCEPT ![t][i] = w]
          /\ nextId' = [nextId EXCEPT ![t] = i + 1]
    /\ req' = [req EXCEPT ![w].pc = "saved"]

Insert(w) ==
    LET t == TableOf(req[w]) IN
    /\ req[w].pc = "validated" /\ req[w].id = 0
    /\ nextId[t] \in Ids
    /\ rows' = [rows EXCEPT ![t][nextId[t]] = req[w].name]
    /\ author' = [author EXCEPT ![t][nextId[t]] = w]
    /\ nextId' = [nextId EXCEPT ![t] = @ + 1]
    /\ req' = [req EXCEPT ![w].pc = "saved"]

\* Mutants of Writes: the row is written back though it was deleted; a name
\* that differs in case alone counts as unchanged.
WritesBack(w)    == req[w].name # req[w].loaded
WritesNewName(w) ==
    /\ Lower[req[w].name] # Lower[req[w].loaded]
    /\ rows[TableOf(req[w])][req[w].id] # NoRow

\* UPDATE ... WHERE id = ?, sent only if the name differs from the loaded
\* one.  It matches no row if the row is gone; save returns true all the same.
Writes(w) ==
    /\ req[w].name # req[w].loaded
    /\ rows[TableOf(req[w])][req[w].id] # NoRow

Update(w) ==
    LET t == TableOf(req[w])
        i == req[w].id
    IN
    /\ req[w].pc = "validated" /\ i # 0
    /\ rows' = IF Writes(w) THEN [rows EXCEPT ![t][i] = req[w].name] ELSE rows
    /\ author' = IF Writes(w) THEN [author EXCEPT ![t][i] = w] ELSE author
    /\ req' = [req EXCEPT ![w].pc = "saved"]
    /\ UNCHANGED nextId

Delete(w) ==
    /\ req[w].pc = "removing"
    /\ rows' = [rows EXCEPT ![TableOf(req[w])][req[w].id] = NoRow]
    /\ req' = [req EXCEPT ![w] = Idle]
    /\ UNCHANGED <<nextId, author>>

\* An exception or the death of the process: the transaction is rolled back.
Abort(w) ==
    /\ ~Resting(w)
    /\ req' = [req EXCEPT ![w] = Idle]
    /\ UNCHANGED <<rows, nextId, author>>

Submit(w) ==
    \E c \in Controllers :
        \/ \E n \in Names : SubmitCreate(w, c, n)
        \/ \E i \in Ids, n \in Names : SubmitUpdate(w, c, i, n)
        \/ \E i \in Ids : SubmitDestroy(w, c, i)

Step(w) == Submit(w) \/ Validate(w) \/ Insert(w) \/ Update(w) \/ Delete(w) \/ Abort(w)

Next == \E w \in Workers : Step(w)

Spec == Init /\ [][Next]_vars

-----------------------------------------------------------------------------
\* Type invariant: the shape of the tables and of the requests.  A row that
\* was never issued is empty, and an issued id is below nextId.
TypeOK ==
    /\ rows \in [Tables -> [Ids -> Names \cup {NoRow}]]
    /\ nextId \in [Tables -> 1..(MaxRows + 1)]
    /\ req \in [Workers -> Request]
    /\ author \in [Tables -> [Ids -> Workers \cup {NoWorker}]]

SameName(t, i, j) ==
    /\ rows[t][i] # NoRow /\ rows[t][j] # NoRow
    /\ Lower[rows[t][i]] = Lower[rows[t][j]]

\* validates_uniqueness_of :name, :case_sensitive => false: no two rows of a
\* table hold the same name, in any case.  True of a single process only.
UniqueNames ==
    \A t \in Tables : \A i, j \in Ids : SameName(t, i, j) => i = j

\* What the validation does guarantee with any number of processes: two rows
\* with the same name were written by different processes.  A process never
\* duplicates a name it wrote itself; only a SELECT of one process between
\* another's SELECT and its INSERT or UPDATE can let a duplicate in.
DistinctAuthors ==
    \A t \in Tables : \A i, j \in Ids :
        SameName(t, i, j) /\ i # j => author[t][i] # author[t][j]

\* A destroyed row never comes back: an UPDATE that was under way when the
\* row was deleted matches nothing, and ids are not issued twice.
NoResurrection ==
    [][\A t \in Tables, i \in Ids :
          (i < nextId[t] /\ rows[t][i] = NoRow) => rows'[t][i] = NoRow]_vars

\* "Property Updated Successfully.": when an update is answered with success
\* the row holds the name that was typed.  True of a single process only.
UpdateTakesEffect ==
    [][\A w \in Workers :
          (req[w].pc = "validated" /\ req[w].id # 0 /\ req'[w].pc = "saved")
             => rows'[TableOf(req[w])][req[w].id] = req[w].name]_vars

\* A request to one of the controllers changes that controller's table and
\* no other: the Edit and Destroy links of each list act on the listed row.
OwnTableOnly ==
    [][\A w \in Workers, t \in Tables :
          (req'[w] # req[w] /\ rows'[t] # rows[t]) => t = req[w].ctl]_vars

\* The catalogue refines the atomic registry of names (one process only).
Registry == INSTANCE NameRegistry
ImplementsRegistry == Registry!Spec
===========================================================================
