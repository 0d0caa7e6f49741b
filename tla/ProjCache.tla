----------------------------- MODULE ProjCache -----------------------------
(***************************************************************************)
(* The cache of PROJ.4 projections that one transform() call site keeps    *)
(* for the length of a query, and the backend's hash table through which   *)
(* the projections are freed when the query's memory goes away.            *)
(*                                                                         *)
(* Each projection has a memory context of its own, which stands for it    *)
(* here: PJHash maps the context to the projection, told by its SRID.      *)
(***************************************************************************)
EXTENDS Naturals

CONSTANTS
    Srids,       \* spatial reference systems a geometry or a call can name
    Known,       \* those with a row in spatial_ref_sys that PROJ.4 parses
    Unknown,     \* -1: no SRID, an empty slot, no projection
    Items,       \* PROJ4_CACHE_ITEMS
    MaxContexts  \* bound: how many contexts live at once in a query

ASSUME SridsAssumption == Known \subseteq Srids /\ Unknown \notin Srids
ASSUME ItemsAssumption == Items \in Nat /\ Items >= 2 /\ MaxContexts \in Nat

VARIABLES
    slot,        \* slot[i]: PROJ4SRSCache[i]
    count,       \* PROJ4SRSCacheCount
    pjHash,      \* pjHash[c]: the projection of context c, Unknown if none
    call         \* the transform() being executed

vars == <<slot, count, pjHash, call>>

Slots    == 0..Items - 1
Contexts == 1..MaxContexts

\* mcxt is 0 when there is none.  out and in are the two projections a call
\* has taken: pointers into contexts, which nothing keeps alive for it.
Slot == [srid : Srids \cup {Unknown}, mcxt : 0..MaxContexts]
Call == [pc : {"idle", "output", "input", "transform"},
         from : Srids \cup {Unknown}, to : Srids \cup {Unknown},
         out : 0..MaxContexts, in : 0..MaxContexts]

Empty == [srid |-> Unknown, mcxt |-> 0]
Idle  == [pc |-> "idle", from |-> Unknown, to |-> Unknown, out |-> 0, in |-> 0]

Init ==
    /\ slot = [i \in Slots |-> Empty]
    /\ count = 0
    /\ pjHash = [c \in Contexts |-> Unknown]
    /\ call = Idle

Live == {c \in Contexts : pjHash[c] # Unknown}

IsInPROJ4SRSCache(s) == \E i \in Slots : slot[i].srid = s

GetProjectionFromPROJ4SRSCache(sl, s) ==
    sl[CHOOSE i \in Slots : sl[i].srid = s /\ \A j \in Slots : sl[j].srid = s => i <= j].mcxt

\* Deleting a context runs PROJ4SRSCacheDelete on it, which empties its entry.
DeleteContexts(h, C) == [c \in Contexts |-> IF c \in C THEN Unknown ELSE h[c]]

\* DeleteFromPROJ4SRSCache: every slot with this SRID.
ClearedSlots(sl, s)    == [i \in Slots |-> IF sl[i].srid = s THEN Empty ELSE sl[i]]
ClearedContexts(sl, s) == {sl[i].mcxt : i \in {j \in Slots : sl[j].srid = s}}

\* Mutant of Victim: the other half of the transformation may be chosen.
AnyVictim(other) == 0

\* The slot to give up when the cache is full: the first without other.
Victim(other) ==
    CHOOSE i \in Slots : /\ slot[i].srid # other
                         /\ \A j \in Slots : slot[j].srid # other => i <= j

\* Mutant of Add: a fresh context is not entered into the hash table.
AddUnhashed(s, other) ==
    /\ s \in Known /\ count < Items
    /\ \E c \in Contexts : /\ pjHash[c] = Unknown
                           /\ slot' = [slot EXCEPT ![count] = [srid |-> s, mcxt |-> c]]
    /\ count' = count + 1
    /\ UNCHANGED pjHash

\* AddToPROJ4SRSCache.  Only a full cache gives up a slot in order; once the
\* count has wrapped, the slot at it is overwritten and its context lives on.
Add(s, other) ==
    LET full    == count = Items
        at      == IF full THEN Victim(other) ELSE count
        cleared == IF full THEN ClearedSlots(slot, slot[at].srid) ELSE slot
        freed   == IF full THEN ClearedContexts(slot, slot[at].srid) ELSE {}
        hash    == DeleteContexts(pjHash, freed)
    IN  /\ s \in Known
        /\ \E c \in Contexts :
              /\ hash[c] = Unknown
              /\ \A d \in Contexts : hash[d] = Unknown => c <= d
              /\ pjHash' = [hash EXCEPT ![c] = s]
              /\ slot' = [cleared EXCEPT ![at] = [srid |-> s, mcxt |-> c]]
        /\ count' = at + 1

Ensure(s, other) ==
    \/ IsInPROJ4SRSCache(s) /\ UNCHANGED <<slot, count, pjHash>>
    \/ ~IsInPROJ4SRSCache(s) /\ Add(s, other)

\* transform(geom, to).  Unknown SRIDs are refused, equal ones change nothing.
Transform(from, to) ==
    /\ call.pc = "idle"
    /\ Unknown \notin {from, to}
    /\ from # to
    /\ call' = [Idle EXCEPT !.pc = "output", !.from = from, !.to = to]
    /\ UNCHANGED <<slot, count, pjHash>>

TakeOutput ==
    /\ call.pc = "output"
    /\ Ensure(call.to, call.from)
    /\ call' = [call EXCEPT !.pc = "input",
                            !.out = GetProjectionFromPROJ4SRSCache(slot', call.to)]

TakeInput ==
    /\ call.pc = "input"
    /\ Ensure(call.from, call.to)
    /\ call' = [call EXCEPT !.pc = "transform",
                            !.in = GetProjectionFromPROJ4SRSCache(slot', call.from)]

\* lwgeom_transform_recursive on the points, then the box and the new SRID.
Return ==
    /\ call.pc = "transform"
    /\ call' = Idle
    /\ UNCHANGED <<slot, count, pjHash>>

\* The query ends, or elog(ERROR) ends it, after any of the steps: its memory
\* context is deleted, and with it each child context that is in the table.
EndQuery ==
    /\ slot' = [i \in Slots |-> Empty]
    /\ count' = 0
    /\ pjHash' = DeleteContexts(pjHash, Live)
    /\ call' = Idle

Next ==
    \/ \E f, t \in Srids : Transform(f, t)
    \/ TakeOutput \/ TakeInput \/ Return
    \/ EndQuery

Spec == Init /\ [][Next]_vars

-----------------------------------------------------------------------------
TypeOK ==
    /\ slot \in [Slots -> Slot]
    /\ count \in 0..Items
    /\ pjHash \in [Contexts -> Srids \cup {Unknown}]
    /\ call \in Call

\* The points are transformed between the two systems the call names, by
\* projections that have not been freed: adding the second projection never
\* frees the first, whatever was evicted or overwritten before.
TransformsBetweenItsSystems ==
    /\ call.pc \in {"input", "transform"} => call.out \in Live /\ pjHash[call.out] = call.to
    /\ call.pc = "transform" => call.in \in Live /\ pjHash[call.in] = call.from

\* Every slot in use points to a context in the table that holds its SRID, and
\* no SRID has two slots: no cached projection is stale, freed, or missed when
\* the query ends.
SlotsAreBacked ==
    \A i, j \in Slots :
        /\ slot[i].srid # Unknown => slot[i].mcxt \in Live /\ pjHash[slot[i].mcxt] = slot[i].srid
        /\ slot[i].srid = slot[j].srid /\ slot[i].srid # Unknown => i = j
=============================================================================
