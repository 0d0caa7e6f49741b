--------------------------- MODULE NameRegistry ---------------------------
(***************************************************************************)
(* What the administrators' catalogue promises: three tables of names, in  *)
(* each of which a name is claimed at most once whatever its case.  Every  *)
(* operation is one atomic step here.  Catalog.tla describes how the       *)
(* application does it in several database statements, and refines this    *)
(* module as long as one server process handles the requests.              *)
(***************************************************************************)
EXTENDS Naturals

CONSTANTS
    Names,      \* the texts an administrator can type
    Lower,      \* Lower[n]: the name n in lower case
    MaxRows,    \* bound: how many rows a table issues
    NoRow       \* stands for a row that is not there

VARIABLES
    rows,       \* rows[t][i]: the name in row i of table t, or NoRow
    nextId      \* nextId[t]: the id the next row of table t gets

vars == <<rows, nextId>>

Tables == {"properties", "ownership_types", "looking_fors"}
Ids    == 1..MaxRows

\* A name is free for row i when no other row of the table holds it, in any case.
FreeFor(t, i, n) ==
    \A j \in Ids \ {i} : rows[t][j] # NoRow => Lower[rows[t][j]] # Lower[n]

Init ==
    /\ rows = [t \in Tables |-> [i \in Ids |-> NoRow]]
    /\ nextId = [t \in Tables |-> 1]

Claim(t, n) ==
    /\ nextId[t] \in Ids
    /\ FreeFor(t, 0, n)
    /\ rows' = [rows EXCEPT ![t][nextId[t]] = n]
    /\ nextId' = [nextId EXCEPT ![t] = @ + 1]

Rename(t, i, n) ==
    /\ rows[t][i] # NoRow
    /\ FreeFor(t, i, n)
    /\ rows' = [rows EXCEPT ![t][i] = n]
    /\ UNCHANGED nextId

Release(t, i) ==
    /\ rows[t][i] # NoRow
    /\ rows' = [rows EXCEPT ![t][i] = NoRow]
    /\ UNCHANGED nextId

Next ==
    \E t \in Tables :
        \/ \E n \in Names : Claim(t, n)
        \/ \E i \in Ids, n \in Names : Rename(t, i, n)
        \/ \E i \in Ids : Release(t, i)

Spec == Init /\ [][Next]_vars
===========================================================================
