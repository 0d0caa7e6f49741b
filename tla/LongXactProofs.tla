--------------------------- MODULE LongXactProofs ---------------------------
(***************************************************************************)
(* Theorems about LongXact, for any number of connections, rows and codes, *)
(* and any bounds on the clock and on transactions.                        *)
(***************************************************************************)
EXTENDS LongXact, TLAPS

USE BoundAssumption

-----------------------------------------------------------------------------
(* What a call does to its transaction, field by field. *)

TypeInv == TypeOK /\ \A s \in Sessions : txn[s].open => txn[s].xid \in Xid

\* The calls of session s change its transaction alone; nobody's locks go.
Frame(s) ==
    /\ UNCHANGED <<clock, schema, ddl, locks, temp, xids>>
    /\ txn' \in [Sessions -> Txn]
    /\ \A t \in Sessions \ {s} : txn'[t] = txn[t]
    /\ txn[s].open /\ txn'[s].open
    /\ txn'[s].xid = txn[s].xid /\ txn'[s].now = txn[s].now
    /\ txn'[s].base = txn[s].base /\ txn'[s].met = txn[s].met
    /\ txn[s].del \subseteq txn'[s].del

\* Codes are added under the transaction's own number.
Brings(s) ==
    /\ txn[s].keys \subseteq txn'[s].keys
    /\ \A k \in txn'[s].keys \ txn[s].keys : \E a \in Auths : k = <<txn[s].xid, a>>

\* A lock is taken on a row that no lock the transaction leaves is on.
Locks(s) ==
    \/ txn'[s].ins \subseteq txn[s].ins
    \/ \E new \in Lock :
          /\ new.by = txn[s].xid /\ new.saw = OpenXids \ {txn[s].xid}
          /\ txn'[s].ins \subseteq txn[s].ins \cup {new}
          /\ \A l \in (txn'[s].ins \ {new}) \cup (locks \ txn'[s].del) : l.row # new.row

\* A row is written with the trigger's leave.
Writes(s) ==
    \/ txn'[s].wrote = txn[s].wrote
    \/ /\ txn'[s].ins = txn[s].ins /\ txn'[s].del = txn[s].del
       /\ txn'[s].keys = txn[s].keys
       /\ \E r \in Rows : Authorized(s, r) /\ txn'[s].wrote = txn[s].wrote \cup {r}

\* An error other than a refusal of the trigger names no row.
Refuses(s) ==
    \A r \in Rows : txn'[s].error = r => r = txn[s].error \/ Refusable(s, r)

Effect(s) == Frame(s) /\ Brings(s) /\ Locks(s) /\ Writes(s) /\ Refuses(s)

LEMMA IdleType == Idle \in Txn
  BY DEF Idle, Txn, Time, Xid

LEMMA OpenXidsType == TypeInv => OpenXids \subseteq Xid
  BY DEF TypeInv, OpenXids, Open

LEMMA VisibleType ==
    ASSUME TypeInv, NEW s \in Sessions
    PROVE  Visible(s) \subseteq Lock
  BY DEF TypeInv, TypeOK, Visible, Txn

\* The record that takes a transaction's place decides the effect.
LEMMA PlaceEffect ==
    ASSUME TypeInv, NEW s \in Sessions, CanCall(s), NEW q \in Txn,
           txn' = [txn EXCEPT ![s] = q],
           UNCHANGED <<clock, schema, ddl, locks, temp, xids>>,
           q.open = txn[s].open, q.xid = txn[s].xid, q.now = txn[s].now,
           q.base = txn[s].base, q.met = txn[s].met, txn[s].del \subseteq q.del
    PROVE  Frame(s) /\ txn'[s] = q
  <1>1. txn \in [Sessions -> Txn]
    BY DEF TypeInv, TypeOK
  <1>. QED
    BY <1>1 DEF Frame, CanCall

LEMMA FailEffect ==
    ASSUME TypeInv, NEW s \in Sessions, CanCall(s), NEW e \in Rows \cup {"call"},
           Fail(s, e), e \in Rows => Refusable(s, e),
           UNCHANGED <<clock, schema, ddl, locks, temp, xids>>
    PROVE  Effect(s)
  <1>. DEFINE q == [txn[s] EXCEPT !.error = e]
  <1>1. txn[s] \in Txn
    BY DEF TypeInv, TypeOK
  <1>2. /\ q \in Txn
        /\ q.open = txn[s].open /\ q.xid = txn[s].xid /\ q.now = txn[s].now /\ q.base = txn[s].base
        /\ q.met = txn[s].met /\ q.del = txn[s].del /\ q.keys = txn[s].keys /\ q.ins = txn[s].ins
        /\ q.wrote = txn[s].wrote /\ q.busy = txn[s].busy /\ q.error = e
    BY <1>1 DEF Txn
  <1>3. txn' = [txn EXCEPT ![s] = q]
    BY DEF Fail
  <1>. HIDE DEF q
  <1>4. Frame(s) /\ txn'[s] = q
    BY <1>2, <1>3, PlaceEffect
  <1>. QED
    BY <1>2, <1>4 DEF Effect, Brings, Locks, Writes, Refuses

\* A DELETE of locks, field by field.
LEMMA DeleteFields ==
    ASSUME TypeInv, NEW s \in Sessions, NEW d
    PROVE  LET q == Delete(s, d) IN
           /\ q \in Txn
           /\ q.open = txn[s].open /\ q.xid = txn[s].xid /\ q.now = txn[s].now /\ q.base = txn[s].base
           /\ q.met = txn[s].met /\ q.del = txn[s].del \cup (d \cap locks) /\ q.keys = txn[s].keys
           /\ q.ins = txn[s].ins \ d /\ q.wrote = txn[s].wrote /\ q.busy = TRUE /\ q.error = txn[s].error
  <1>1. txn[s] \in Txn /\ locks \subseteq Lock
    BY DEF TypeInv, TypeOK
  <1>2. txn[s].del \cup (d \cap locks) \in SUBSET Lock /\ txn[s].ins \ d \in SUBSET Lock
    BY <1>1 DEF Txn
  <1>. QED
    BY <1>1, <1>2 DEF Delete, Txn

LEMMA UnlockEffect ==
    ASSUME TypeInv, NEW s \in Sessions, NEW a \in Auths, UnlockRows(s, a)
    PROVE  Effect(s)
  <1>. CanCall(s) /\ UNCHANGED <<clock, schema, ddl, locks, temp, xids>>
    BY DEF UnlockRows
  <1>1. CASE Unusable
    BY <1>1, FailEffect, NilAssumption DEF UnlockRows
  <1>2. CASE ~Unusable
    <2>. DEFINE mine == {l \in Visible(s) : l.auth = a}
                q    == Delete(s, mine)
    <2>1. txn' = [txn EXCEPT ![s] = q]
      BY <1>2 DEF UnlockRows
    <2>. HIDE DEF mine
    <2>2. /\ q \in Txn
          /\ q.open = txn[s].open /\ q.xid = txn[s].xid /\ q.now = txn[s].now /\ q.base = txn[s].base
          /\ q.met = txn[s].met /\ q.del = txn[s].del \cup (mine \cap locks) /\ q.keys = txn[s].keys
          /\ q.ins = txn[s].ins \ mine /\ q.wrote = txn[s].wrote /\ q.busy = TRUE /\ q.error = txn[s].error
      BY DeleteFields
    <2>. HIDE DEF q
    <2>3. Frame(s) /\ txn'[s] = q
      BY <2>1, <2>2, PlaceEffect
    <2>. QED
      BY <2>2, <2>3 DEF Effect, Brings, Locks, Writes, Refuses
  <1>. QED
    BY <1>1, <1>2

\* LockRow deletes what has expired and takes a lock only where none is left.
LEMMA LockEffect ==
    ASSUME TypeInv, NEW s \in Sessions, NEW r \in Rows, NEW a \in Auths, NEW term \in Terms,
           LockRow(s, r, a, term)
    PROVE  Effect(s)
  <1>. CanCall(s) /\ UNCHANGED <<clock, schema, ddl, locks, temp, xids>>
    BY DEF LockRow
  <1>1. CASE Unusable
    BY <1>1, FailEffect, NilAssumption DEF LockRow
  <1>2. CASE ~Unusable
    <2>. DEFINE new == [row |-> r, auth |-> a, expires |-> txn[s].now + term,
                        by |-> txn[s].xid, saw |-> OpenXids \ {txn[s].xid}]
                ins == IF Held(s, r) THEN {} ELSE {new}
                d   == Delete(s, Expired(s))
                q   == [d EXCEPT !.ins = @ \cup ins]
    <2>1. txn' = [txn EXCEPT ![s] = q] /\ txn[s].now + term \in Time
      BY <1>2 DEF LockRow
    <2>2. new \in Lock
      BY <2>1, OpenXidsType DEF Lock, TypeInv, CanCall
    <2>3. new.row = r /\ new.by = txn[s].xid /\ new.saw = OpenXids \ {txn[s].xid}
      OBVIOUS
    <2>. HIDE DEF new
    <2>4. ins \in SUBSET Lock
      BY <2>2
    <2>5. /\ d \in Txn
          /\ d.open = txn[s].open /\ d.xid = txn[s].xid /\ d.now = txn[s].now /\ d.base = txn[s].base
          /\ d.met = txn[s].met /\ d.del = txn[s].del \cup (Expired(s) \cap locks) /\ d.keys = txn[s].keys
          /\ d.ins = txn[s].ins \ Expired(s) /\ d.wrote = txn[s].wrote /\ d.busy = TRUE
          /\ d.error = txn[s].error
      BY DeleteFields
    <2>. HIDE DEF d, ins
    <2>6. /\ d.ins \cup ins \in SUBSET Lock
          /\ q \in Txn
          /\ q.open = d.open /\ q.xid = d.xid /\ q.now = d.now /\ q.base = d.base /\ q.met = d.met
          /\ q.del = d.del /\ q.keys = d.keys /\ q.ins = d.ins \cup ins /\ q.wrote = d.wrote
          /\ q.busy = d.busy /\ q.error = d.error
      <3>1. d.ins \cup ins \in SUBSET Lock
        BY <2>4, <2>5 DEF Txn
      <3>. QED
        BY <2>5, <3>1 DEF Txn
    <2>. HIDE DEF q
    <2>7. Frame(s) /\ txn'[s] = q
      <3>1. /\ q.open = txn[s].open /\ q.xid = txn[s].xid /\ q.now = txn[s].now
            /\ q.base = txn[s].base /\ q.met = txn[s].met /\ txn[s].del \subseteq q.del /\ q \in Txn
        BY <2>5, <2>6
      <3>. QED
        BY <2>1, <3>1, PlaceEffect
    <2>8. Locks(s)
      <3>1. CASE Held(s, r)
        BY <2>5, <2>6, <2>7, <3>1 DEF Locks, ins
      <3>2. CASE ~Held(s, r)
        <4>1. \A l \in (txn[s].ins \ Expired(s)) \cup (locks \ q.del) : l.row # r
          BY <2>5, <2>6, <3>2 DEF Held, Visible
        <4>2. txn'[s].ins = (txn[s].ins \ Expired(s)) \cup {new}
          BY <2>5, <2>6, <2>7, <3>2 DEF ins
        <4>. QED
          BY <2>2, <2>3, <2>7, <4>1, <4>2 DEF Locks
      <3>. QED
        BY <3>1, <3>2
    <2>. QED
      BY <2>5, <2>6, <2>7, <2>8 DEF Effect, Brings, Writes, Refuses
  <1>. QED
    BY <1>1, <1>2

LEMMA AuthEffect ==
    ASSUME TypeInv, NEW s \in Sessions, NEW a \in Auths, AddAuth(s, a)
    PROVE  Effect(s)
  <1>. CanCall(s) /\ UNCHANGED <<clock, schema, ddl, locks, temp, xids>>
    BY DEF AddAuth
  <1>1. CASE Fail(s, "call")
    BY <1>1, FailEffect, NilAssumption
  <1>2. CASE ~Fail(s, "call")
    <2>. DEFINE made == txn[s].made \/ ~SomeTempTable(s)
                keys == txn[s].keys \cup {<<txn[s].xid, a>>}
                q    == [txn[s] EXCEPT !.made = made, !.keys = keys]
    <2>1. txn[s] \in Txn /\ txn[s].xid \in Xid /\ txn \in [Sessions -> Txn]
      BY DEF TypeInv, TypeOK, CanCall
    <2>2. made \in BOOLEAN /\ keys \in SUBSET (Xid \X Auths)
      BY <2>1 DEF Txn
    <2>3. txn' = [txn EXCEPT ![s] = q]
      BY <1>2, <2>1 DEF AddAuth
    <2>. HIDE DEF made
    <2>4. /\ q \in Txn
          /\ q.open = txn[s].open /\ q.xid = txn[s].xid /\ q.now = txn[s].now /\ q.base = txn[s].base
          /\ q.met = txn[s].met /\ q.del = txn[s].del /\ q.keys = keys /\ q.ins = txn[s].ins
          /\ q.wrote = txn[s].wrote /\ q.busy = txn[s].busy /\ q.error = txn[s].error
      BY <2>1, <2>2 DEF Txn
    <2>. HIDE DEF q
    <2>5. Frame(s) /\ txn'[s] = q
      BY <2>3, <2>4, PlaceEffect
    <2>. QED
      BY <2>4, <2>5 DEF Effect, Brings, Locks, Writes, Refuses
  <1>. QED
    BY <1>1, <1>2

LEMMA WriteEffect ==
    ASSUME TypeInv, NEW s \in Sessions, NEW r \in Rows, Write(s, r)
    PROVE  Effect(s)
  <1>. CanCall(s) /\ UNCHANGED <<clock, schema, ddl, locks, temp, xids>>
    BY DEF Write
  <1>1. CASE Refusable(s, r) /\ Fail(s, r)
    BY <1>1, FailEffect
  <1>2. CASE Authorized(s, r) /\ txn' = [txn EXCEPT ![s].wrote = @ \cup {r}, ![s].busy = @ \/ schema.trigger]
    <2>. DEFINE busy == txn[s].busy \/ schema.trigger
                q    == [txn[s] EXCEPT !.wrote = txn[s].wrote \cup {r}, !.busy = busy]
    <2>1. txn[s] \in Txn /\ txn \in [Sessions -> Txn] /\ busy \in BOOLEAN
      BY DEF TypeInv, TypeOK, Txn, Schema
    <2>2. txn' = [txn EXCEPT ![s] = q]
      BY <1>2, <2>1
    <2>. HIDE DEF busy
    <2>3. /\ q \in Txn
          /\ q.open = txn[s].open /\ q.xid = txn[s].xid /\ q.now = txn[s].now /\ q.base = txn[s].base
          /\ q.met = txn[s].met /\ q.del = txn[s].del /\ q.keys = txn[s].keys /\ q.ins = txn[s].ins
          /\ q.wrote = txn[s].wrote \cup {r} /\ q.busy = busy /\ q.error = txn[s].error
      BY <2>1 DEF Txn
    <2>. HIDE DEF q
    <2>4. Frame(s) /\ txn'[s] = q
      BY <2>2, <2>3, PlaceEffect
    <2>. QED
      BY <1>2, <2>3, <2>4 DEF Effect, Brings, Locks, Writes, Refuses
  <1>. QED
    BY <1>1, <1>2 DEF Write

LEMMA CallEffect ==
    ASSUME TypeInv, NEW s \in Sessions, Call(s)
    PROVE  Effect(s)
  BY UnlockEffect, LockEffect, AuthEffect, WriteEffect DEF Call

\* A transaction begins with nothing but the time, its number and the locks.
Begins(s) ==
    /\ UNCHANGED <<clock, schema, ddl, locks, temp>>
    /\ xids' = xids + 1 /\ xids' \in Xid
    /\ txn' \in [Sessions -> Txn]
    /\ \A t \in Sessions \ {s} : txn'[t] = txn[t]
    /\ txn'[s].open /\ txn'[s].xid = xids + 1 /\ txn'[s].error = Nil
    /\ txn'[s].ins = {} /\ txn'[s].keys = {} /\ txn'[s].wrote = {}
    /\ txn'[s].base = locks /\ txn'[s].met = locks

LEMMA BeginEffect ==
    ASSUME TypeInv, NEW s \in Sessions, Begin(s)
    PROVE  Begins(s)
  <1>. DEFINE q == [Idle EXCEPT !.open = TRUE, !.xid = xids + 1,
                                !.now = clock, !.base = locks, !.met = locks]
  <1>1. /\ txn \in [Sessions -> Txn] /\ locks \in SUBSET Lock /\ clock \in Time /\ xids + 1 \in Xid
        /\ txn' = [txn EXCEPT ![s] = q]
    BY DEF TypeInv, TypeOK, Begin, Xid
  <1>2. /\ q.open /\ q.xid = xids + 1 /\ q.error = Nil /\ q.ins = {} /\ q.keys = {} /\ q.wrote = {}
        /\ q.base = locks /\ q.met = locks
    BY DEF Idle
  <1>3. q \in Txn
    <2>1. xids + 1 \in 0..MaxXid
      BY <1>1 DEF Xid
    <2>. QED
      BY <1>1, <2>1, IdleType DEF Txn
  <1>. HIDE DEF q
  <1>. QED
    BY <1>1, <1>2, <1>3 DEF Begins, Begin

\* A commit publishes what the transaction sees; the others meet it.
Commits(s) ==
    /\ UNCHANGED <<clock, schema, ddl, xids>>
    /\ locks' = Visible(s)
    /\ temp' \in [Sessions -> Temp]
    /\ temp'[s].keys = temp[s].keys \cup txn[s].keys
    /\ \A t \in Sessions \ {s} : temp'[t] = temp[t]
    /\ txn' \in [Sessions -> Txn]
    /\ txn[s].open /\ txn'[s] = Idle
    /\ \A t \in Sessions \ {s} :
          /\ txn[t].open => /\ txn'[t].open /\ txn'[t].xid = txn[t].xid /\ txn'[t].now = txn[t].now
                            /\ txn'[t].ins = txn[t].ins /\ txn'[t].del = txn[t].del
                            /\ txn'[t].keys = txn[t].keys /\ txn'[t].wrote = txn[t].wrote
                            /\ txn'[t].busy = txn[t].busy /\ txn'[t].base = txn[t].base
                            /\ txn'[t].met = txn[t].met \cup Visible(s)
                            /\ txn'[t].error = txn[t].error
          /\ ~txn[t].open => txn'[t] = txn[t]

LEMMA CommitEffect ==
    ASSUME TypeInv, NEW s \in Sessions, Commit(s)
    PROVE  Commits(s)
  <1>1. txn \in [Sessions -> Txn] /\ Visible(s) \in SUBSET Lock /\ temp \in [Sessions -> Temp]
    BY VisibleType DEF TypeInv, TypeOK
  <1>2. /\ txn'[s] = Idle
        /\ \A t \in Sessions \ {s} :
              txn'[t] = IF txn[t].open THEN [txn[t] EXCEPT !.met = @ \cup Visible(s)] ELSE txn[t]
        /\ txn' = [t \in Sessions |-> txn'[t]]
    BY DEF Commit
  <1>3. ASSUME NEW t \in Sessions \ {s}, txn[t].open
        PROVE  /\ txn'[t] \in Txn
               /\ txn'[t].open /\ txn'[t].xid = txn[t].xid /\ txn'[t].now = txn[t].now
               /\ txn'[t].ins = txn[t].ins /\ txn'[t].del = txn[t].del
               /\ txn'[t].keys = txn[t].keys /\ txn'[t].wrote = txn[t].wrote
               /\ txn'[t].busy = txn[t].busy /\ txn'[t].base = txn[t].base
               /\ txn'[t].met = txn[t].met \cup Visible(s)
               /\ txn'[t].error = txn[t].error
    <2>1. txn[t] \in Txn /\ txn[t].met \cup Visible(s) \in SUBSET Lock
      BY <1>1 DEF Txn
    <2>2. txn'[t] = [txn[t] EXCEPT !.met = @ \cup Visible(s)]
      BY <1>2, <1>3
    <2>. QED
      BY <1>3, <2>1, <2>2 DEF Txn
  <1>4. txn' \in [Sessions -> Txn]
    BY <1>1, <1>2, <1>3, IdleType
  <1>5. /\ temp' \in [Sessions -> Temp] /\ temp'[s].keys = temp[s].keys \cup txn[s].keys
        /\ \A t \in Sessions \ {s} : temp'[t] = temp[t]
    <2>1. temp[s] \in Temp /\ txn[s].made \in BOOLEAN /\ txn[s].keys \subseteq Xid \X Auths
      BY <1>1 DEF Txn
    <2>2. temp' = [temp EXCEPT ![s] = [temp[s] EXCEPT !.exists = @ \/ txn[s].made,
                                                      !.keys = @ \cup txn[s].keys]]
      BY <1>1, <2>1 DEF Commit, Temp
    <2>. DEFINE q == [temp[s] EXCEPT !.exists = @ \/ txn[s].made, !.keys = @ \cup txn[s].keys]
    <2>3. q \in Temp /\ q.keys = temp[s].keys \cup txn[s].keys
      BY <2>1 DEF Temp
    <2>. QED
      BY <1>1, <2>2, <2>3
  <1>. QED
    BY <1>2, <1>3, <1>4, <1>5 DEF Commits, Commit, CanCall

\* A rollback, or the end of a connection, leaves nothing of a transaction.
Ends(s) ==
    /\ UNCHANGED <<clock, schema, ddl, locks, xids>>
    /\ temp' \in [Sessions -> Temp]
    /\ \A t \in Sessions : temp'[t].keys \subseteq temp[t].keys
    /\ txn' \in [Sessions -> Txn]
    /\ txn'[s] = Idle
    /\ \A t \in Sessions \ {s} : txn'[t] = txn[t]

LEMMA EndEffect ==
    ASSUME TypeInv, NEW s \in Sessions, Rollback(s) \/ Disconnect(s)
    PROVE  Ends(s)
  <1>1. txn \in [Sessions -> Txn] /\ temp \in [Sessions -> Temp]
    BY DEF TypeInv, TypeOK
  <1>. DEFINE none == [exists |-> FALSE, keys |-> {}]
  <1>2. none \in Temp /\ none.keys = {}
    BY DEF Temp
  <1>3. \/ temp' = temp
        \/ temp' = [temp EXCEPT ![s] = none]
    BY DEF Rollback, Disconnect
  <1>. HIDE DEF none
  <1>4. /\ temp' \in [Sessions -> Temp]
        /\ \A t \in Sessions : temp'[t].keys \subseteq temp[t].keys
    BY <1>1, <1>2, <1>3
  <1>. QED
    BY <1>1, <1>4, IdleType DEF Ends, Rollback, Disconnect

\* The steps of the calls that change the schema: a trigger comes when no
\* open transaction has written, and locks go all at once.
Alters ==
    /\ UNCHANGED <<clock, temp, txn, xids>>
    /\ schema' \in Schema
    /\ ddl' \in Calls
    /\ locks' = locks \/ locks' = {}
    /\ schema'.trigger => schema.trigger \/ NoWriters

\* As long as no disabling has been under way with another of the calls, what
\* each has read is still so.
Undisturbed ==
    ~ddl.mixed =>
       /\ schema.trigger \/ schema.view => schema.table
       /\ ddl.check # "no" \/ ddl.enable = "seen" => schema.table
       /\ ddl.disable # "no" => ddl.check = "no" /\ ddl.enable = "no"
       /\ ddl.disable = "none" => ~schema.trigger

AltersSchema ==
    \/ EnableLongTransactions \/ EnableCommits
    \/ CheckAuth \/ CheckAuthCommits
    \/ DisableLongTransactions \/ DisableCommits
    \/ \E k \in {"enable", "check", "disable"} : CallDies(k)

\* Where a call stands after a step of it, and whether it was disturbed.
LEMMA StageEnable ==
    ASSUME TypeInv, NEW v \in {"no", "seen", "made"}, Stage("enable", v)
    PROVE  /\ ddl' \in Calls
           /\ ddl'.enable = v /\ ddl'.check = ddl.check /\ ddl'.disable = ddl.disable
           /\ ddl'.mixed <=> ddl.mixed \/ (ddl.disable # "no" /\ (v # "no" \/ ddl.check # "no"))
  BY DEF TypeInv, TypeOK, Stage, Calls

LEMMA StageCheck ==
    ASSUME TypeInv, NEW v \in {"no", "tested"}, Stage("check", v)
    PROVE  /\ ddl' \in Calls
           /\ ddl'.enable = ddl.enable /\ ddl'.check = v /\ ddl'.disable = ddl.disable
           /\ ddl'.mixed <=> ddl.mixed \/ (ddl.disable # "no" /\ (ddl.enable # "no" \/ v # "no"))
  BY DEF TypeInv, TypeOK, Stage, Calls

LEMMA StageDisable ==
    ASSUME TypeInv, NEW v \in {"no", "dropped", "none"}, Stage("disable", v)
    PROVE  /\ ddl' \in Calls
           /\ ddl'.enable = ddl.enable /\ ddl'.check = ddl.check /\ ddl'.disable = v
           /\ ddl'.mixed <=> ddl.mixed \/ (v # "no" /\ (ddl.enable # "no" \/ ddl.check # "no"))
  BY DEF TypeInv, TypeOK, Stage, Calls

LEMMA AlterEffect ==
    ASSUME TypeInv, Undisturbed, AltersSchema
    PROVE  Alters /\ Undisturbed'
  <1>. schema \in Schema
    BY DEF TypeInv, TypeOK
  <1>1. CASE EnableLongTransactions
    BY <1>1, StageEnable DEF EnableLongTransactions, Alters, Undisturbed
  <1>2. CASE EnableCommits
    <2>. DEFINE b == schema.table \/ ddl.enable = "made"
                q == [schema EXCEPT !.table = b, !.view = TRUE]
    <2>1. schema' = q /\ b \in BOOLEAN /\ Stage("enable", "no")
      BY <1>2 DEF EnableCommits, Schema
    <2>2. b <=> schema.table \/ ddl.enable = "made"
      OBVIOUS
    <2>. HIDE DEF b
    <2>3. q \in Schema /\ q.table = b /\ q.view = TRUE /\ q.trigger = schema.trigger
      BY <2>1 DEF Schema
    <2>. HIDE DEF q
    <2>4. UNCHANGED <<clock, locks, temp, txn, xids>> /\ ddl.enable # "no" /\ ddl.enable \in {"no", "seen", "made"}
      BY <1>2 DEF EnableCommits, TypeInv, TypeOK, Calls
    <2>5. Alters
      BY <2>1, <2>3, <2>4, StageEnable DEF Alters
    <2>6. Undisturbed'
      BY <2>1, <2>2, <2>3, <2>4, StageEnable DEF Undisturbed
    <2>. QED
      BY <2>5, <2>6
  <1>3. CASE CheckAuth
    BY <1>3, StageCheck DEF CheckAuth, LongTransactionsEnabled, Alters, Undisturbed
  <1>4. CASE CheckAuthCommits
    BY <1>4, StageCheck DEF CheckAuthCommits, Alters, Undisturbed, Schema
  <1>5. CASE DisableLongTransactions
    BY <1>5, StageDisable DEF DisableLongTransactions, Alters, Undisturbed
  <1>6. CASE DisableCommits
    <2>. DEFINE b == schema.trigger /\ ddl.disable # "dropped"
                q == [table |-> FALSE, view |-> FALSE, trigger |-> b]
    <2>1. schema' = q /\ b \in BOOLEAN /\ Stage("disable", "no")
      BY <1>6 DEF DisableCommits, Schema
    <2>2. b <=> schema.trigger /\ ddl.disable # "dropped"
      OBVIOUS
    <2>. HIDE DEF b
    <2>3. q \in Schema /\ q.table = FALSE /\ q.view = FALSE /\ q.trigger = b
      BY <2>1 DEF Schema
    <2>. HIDE DEF q
    <2>4. /\ UNCHANGED <<clock, temp, txn, xids>> /\ locks' = {}
          /\ ddl.disable # "no" /\ ddl.disable \in {"no", "dropped", "none"}
      BY <1>6 DEF DisableCommits, TypeInv, TypeOK, Calls
    <2>5. Alters
      BY <2>1, <2>2, <2>3, <2>4, StageDisable DEF Alters
    <2>6. Undisturbed'
      BY <2>1, <2>2, <2>3, <2>4, StageDisable DEF Undisturbed
    <2>. QED
      BY <2>5, <2>6
  <1>7. ASSUME NEW k \in {"enable", "check", "disable"}, CallDies(k)
        PROVE  Alters /\ Undisturbed'
    BY <1>7, StageEnable, StageCheck, StageDisable DEF CallDies, Alters, Undisturbed
  <1>. QED
    BY <1>1, <1>2, <1>3, <1>4, <1>5, <1>6, <1>7 DEF AltersSchema

-----------------------------------------------------------------------------
(* The invariant. *)

\* Numbers are given once, and what is not open has nothing.
Numbered ==
    \A s \in Sessions :
       /\ txn[s].open => txn[s].xid \in 1..xids
       /\ ~txn[s].open => txn[s] = Idle
       /\ \A t \in Sessions : txn[s].open /\ txn[t].open /\ txn[s].xid = txn[t].xid => s = t

\* A lock bears the number of the transaction that took it, and those of the
\* transactions that were open; a committed one bears no open one's.
LocksOwned ==
    /\ \A s \in Sessions : \A l \in txn[s].ins : l.by = txn[s].xid /\ l.saw \subseteq 1..xids
    /\ \A l \in locks :
          /\ l.by \in 1..xids /\ l.saw \subseteq 1..xids
          /\ \A s \in Sessions : txn[s].open => l.by # txn[s].xid

Overlap(l, m) == l.by \in m.saw \/ m.by \in l.saw

\* Of two locks on a row, in whatever transaction, one saw the other's.
Overlapping ==
    /\ DuplicatesOverlap
    /\ \A s \in Sessions : \A l \in txn[s].ins :
          /\ \A m \in locks \ txn[s].del : l.row = m.row /\ l # m => Overlap(l, m)
          /\ \A m \in txn[s].ins : l.row = m.row => l = m
          /\ \A t \in Sessions \ {s} : \A m \in txn[t].ins : Overlap(l, m)

\* What was locked when a transaction began was locked by none that it met, nor
\* did its lock see it.
BaseOwned ==
    \A s \in Sessions : \A l \in txn[s].base :
       /\ l.by \in 1..xids
       /\ \A t \in Sessions : txn[t].open => l.by # txn[t].xid
       /\ txn[s].xid \notin l.saw
       /\ \A m \in txn[s].ins : l.by \notin m.saw

\* The codes in a session's table are those of its earlier transactions.
KeysOwned ==
    \A s \in Sessions :
       /\ \A k \in temp[s].keys : k[1] \in 1..xids /\ (txn[s].open => k[1] # txn[s].xid)
       /\ \A k \in txn[s].keys : k[1] = txn[s].xid

LocksMet == \A s \in Sessions : txn[s].open => locks \subseteq txn[s].met

\* What a transaction wrote under a lock that was there before it and still is,
\* it wrote with a code.
WrittenByCode ==
    schema.trigger =>
       \A s \in Sessions : \A l \in (locks \cap txn[s].base) \ txn[s].del :
          l.row \in txn[s].wrote /\ l.expires >= txn[s].now =>
             \E m \in txn[s].met : m.row = l.row /\ <<txn[s].xid, m.auth>> \in txn[s].keys

IInv ==
    /\ TypeInv /\ Numbered /\ LocksOwned /\ Overlapping /\ BaseOwned /\ KeysOwned
    /\ LocksMet /\ Undisturbed /\ WrittenByCode

LEMMA InvInit == Init => IInv
  <1>. SUFFICES ASSUME Init PROVE IInv
    OBVIOUS
  <1>1. TypeInv
    BY IdleType DEF Init, TypeInv, TypeOK, Time, Schema, Calls, Temp, Idle
  <1>2. \A s \in Sessions : txn[s] = Idle /\ temp[s].keys = {}
    BY DEF Init
  <1>3. Numbered /\ LocksOwned /\ Overlapping /\ BaseOwned /\ KeysOwned /\ LocksMet
    BY <1>2 DEF Init, Idle, Numbered, LocksOwned, Overlapping, DuplicatesOverlap, BaseOwned, KeysOwned,
                LocksMet
  <1>4. Undisturbed /\ WrittenByCode
    BY DEF Init, Undisturbed, WrittenByCode
  <1>. QED
    BY <1>1, <1>3, <1>4 DEF IInv

\* Only an open transaction has taken locks.
LEMMA TakerIsOpen ==
    ASSUME Numbered, NEW s \in Sessions, txn[s].ins # {}
    PROVE  txn[s].open /\ txn[s].xid \in OpenXids
  BY DEF Numbered, Idle, OpenXids, Open

-----------------------------------------------------------------------------
(* The calls keep the invariant. *)

LEMMA OverlappingCall ==
    ASSUME IInv, NEW s \in Sessions, Effect(s)
    PROVE  Overlapping'
  <1>. Frame(s) /\ Numbered /\ LocksOwned /\ Overlapping
    BY DEF IInv, Effect
  <1>1. DuplicatesOverlap'
    BY DEF Overlapping, DuplicatesOverlap, Frame
  <1>2. CASE txn'[s].ins \subseteq txn[s].ins
    BY <1>1, <1>2 DEF Overlapping, Overlap, Frame
  <1>3. ASSUME NEW new \in Lock,
               new.by = txn[s].xid, new.saw = OpenXids \ {txn[s].xid},
               txn'[s].ins \subseteq txn[s].ins \cup {new},
               \A l \in (txn'[s].ins \ {new}) \cup (locks \ txn'[s].del) : l.row # new.row
        PROVE  Overlapping'
    <2>1. ASSUME NEW t \in Sessions \ {s}, NEW m \in txn[t].ins
          PROVE  Overlap(new, m) /\ Overlap(m, new)
      <3>1. m.by = txn[t].xid /\ txn[t].open /\ txn[t].xid \in OpenXids
        BY <2>1, TakerIsOpen DEF LocksOwned
      <3>2. txn[t].xid # txn[s].xid
        BY <3>1 DEF Numbered, Frame
      <3>. QED
        BY <1>3, <3>1, <3>2 DEF Overlap
    <2>2. ASSUME NEW t \in Sessions, NEW l \in txn'[t].ins, NEW m \in locks \ txn'[t].del,
                 l.row = m.row, l # m
          PROVE  Overlap(l, m)
      BY <1>3, <2>2 DEF Overlapping, Frame
    <2>3. ASSUME NEW t \in Sessions, NEW l \in txn'[t].ins, NEW m \in txn'[t].ins, l.row = m.row
          PROVE  l = m
      BY <1>3, <2>3 DEF Overlapping, Frame
    <2>4. ASSUME NEW t \in Sessions, NEW u \in Sessions \ {t}, NEW l \in txn'[t].ins, NEW m \in txn'[u].ins
          PROVE  Overlap(l, m)
      <3>1. CASE l \in txn[t].ins /\ m \in txn[u].ins
        BY <3>1 DEF Overlapping
      <3>2. CASE l \notin txn[t].ins
        <4>1. t = s /\ l = new /\ txn'[u] = txn[u]
          BY <1>3, <2>4, <3>2 DEF Frame
        <4>. QED
          BY <2>1, <2>4, <4>1
      <3>3. CASE m \notin txn[u].ins
        <4>1. u = s /\ m = new /\ txn'[t] = txn[t]
          BY <1>3, <2>4, <3>3 DEF Frame
        <4>. QED
          BY <2>1, <2>4, <4>1
      <3>. QED
        BY <3>1, <3>2, <3>3
    <2>. QED
      BY <1>1, <2>2, <2>3, <2>4 DEF Overlapping, Overlap, Frame
  <1>. QED
    BY <1>2, <1>3 DEF Effect, Locks

LEMMA BaseOwnedCall ==
    ASSUME IInv, NEW s \in Sessions, Effect(s)
    PROVE  BaseOwned'
  <1>. Frame(s) /\ BaseOwned
    BY DEF IInv, Effect
  <1>1. ASSUME NEW t \in Sessions, NEW l \in txn'[t].base
        PROVE  /\ l \in txn[t].base
               /\ l.by \in 1..xids' /\ txn'[t].xid \notin l.saw
               /\ \A u \in Sessions : txn'[u].open => l.by # txn'[u].xid
    BY <1>1 DEF BaseOwned, Frame
  <1>2. ASSUME NEW t \in Sessions, NEW l \in txn[t].base, NEW m \in txn'[t].ins
        PROVE  l.by \notin m.saw
    <2>1. CASE m \in txn[t].ins
      BY <2>1 DEF BaseOwned
    <2>2. CASE m \notin txn[t].ins
      <3>1. m.saw \subseteq OpenXids
        BY <1>2, <2>2 DEF Effect, Locks, Frame
      <3>2. l.by \notin OpenXids
        BY DEF BaseOwned, OpenXids, Open
      <3>. QED
        BY <3>1, <3>2
    <2>. QED
      BY <2>1, <2>2
  <1>. QED
    BY <1>1, <1>2 DEF BaseOwned

\* The one step that grants a write: the trigger found a lock with a code of
\* this transaction, and it is one that the transaction met.
LEMMA WrittenByCodeCall ==
    ASSUME IInv, NEW s \in Sessions, Effect(s)
    PROVE  WrittenByCode'
  <1>. Frame(s) /\ IInv
    BY DEF Effect
  <1>1. ASSUME schema.trigger, NEW t \in Sessions, NEW l \in (locks \cap txn'[t].base) \ txn'[t].del,
               l.row \in txn'[t].wrote, l.expires >= txn'[t].now
        PROVE  \E m \in txn'[t].met : m.row = l.row /\ <<txn'[t].xid, m.auth>> \in txn'[t].keys
    <2>1. /\ l \in (locks \cap txn[t].base) \ txn[t].del /\ l.expires >= txn[t].now
          /\ txn'[t].met = txn[t].met /\ txn'[t].xid = txn[t].xid
          /\ txn[t].keys \subseteq txn'[t].keys
      BY <1>1 DEF Effect, Frame, Brings
    <2>2. CASE l.row \in txn[t].wrote
      BY <1>1, <2>1, <2>2 DEF IInv, WrittenByCode
    <2>3. CASE l.row \notin txn[t].wrote
      <3>1. t = s /\ Authorized(s, l.row) /\ txn'[s].keys = txn[s].keys
        BY <1>1, <2>3 DEF Effect, Frame, Writes
      <3>2. l \in LiveOn(s, l.row)
        BY <2>1, <3>1 DEF LiveOn, Visible
      <3>3. PICK m \in LiveOn(s, l.row) : HasKey(s, m.auth)
        BY <1>1, <3>1, <3>2 DEF Authorized
      <3>4. m.row = l.row /\ (m \in locks \/ m \in txn[s].ins)
        BY <3>3 DEF LiveOn, Visible
      <3>5. m \in locks
        <4>. SUFFICES ASSUME m \in txn[s].ins PROVE FALSE
          BY <3>4
        <4>1. m.by = txn[s].xid /\ l.by # txn[s].xid /\ txn[s].xid \notin l.saw /\ l.by \notin m.saw
          BY <2>1, <3>1 DEF IInv, LocksOwned, BaseOwned, Frame
        <4>2. Overlap(m, l)
          BY <2>1, <3>1, <3>4, <4>1 DEF IInv, Overlapping
        <4>. QED
          BY <4>1, <4>2 DEF Overlap
      <3>6. m \in txn[s].met
        BY <3>5 DEF IInv, LocksMet, Frame
      <3>7. <<txn[s].xid, m.auth>> \in txn[s].keys
        BY <3>3 DEF HasKey, IInv, KeysOwned, Frame
      <3>. QED
        BY <2>1, <3>1, <3>4, <3>6, <3>7
    <2>. QED
      BY <2>2, <2>3
  <1>. QED
    BY <1>1 DEF WrittenByCode, Frame

LEMMA InvCall ==
    ASSUME IInv, NEW s \in Sessions, Effect(s)
    PROVE  IInv'
  <1>. Frame(s) /\ IInv
    BY DEF Effect
  <1>1. TypeInv'
    BY DEF IInv, TypeInv, TypeOK, Frame
  <1>2. Numbered'
    BY DEF IInv, Numbered, Frame
  <1>3. LocksOwned'
    <2>1. OpenXids \subseteq 1..xids
      BY DEF IInv, Numbered, OpenXids, Open
    <2>2. \A l \in txn'[s].ins : l.by = txn[s].xid /\ l.saw \subseteq 1..xids
      BY <2>1 DEF IInv, LocksOwned, Effect, Locks
    <2>. QED
      BY <2>2 DEF IInv, LocksOwned, Frame
  <1>4. KeysOwned'
    <2>1. \A k \in txn'[s].keys : k[1] = txn[s].xid
      BY DEF IInv, KeysOwned, Effect, Brings
    <2>. QED
      BY <2>1 DEF IInv, KeysOwned, Frame
  <1>5. LocksMet' /\ Undisturbed'
    BY DEF IInv, LocksMet, Undisturbed, Frame
  <1>. QED
    BY <1>1, <1>2, <1>3, <1>4, <1>5, OverlappingCall, BaseOwnedCall, WrittenByCodeCall DEF IInv

-----------------------------------------------------------------------------
(* So do the steps of the server. *)

LEMMA InvBegin ==
    ASSUME IInv, NEW s \in Sessions, Begin(s)
    PROVE  IInv'
  <1>a. ~txn[s].open
    BY DEF Begin
  <1>b. txn[s] = Idle
    BY <1>a DEF IInv, Numbered
  <1>c. xids \in Nat
    BY BoundAssumption DEF IInv, TypeInv, TypeOK
  <1>d. Begins(s)
    BY BeginEffect DEF IInv, TypeInv
  <1>. Begins(s) /\ ~txn[s].open /\ txn[s] = Idle /\ xids \in Nat
    BY <1>a, <1>b, <1>c, <1>d
  <1>1. TypeInv'
    BY DEF IInv, TypeInv, TypeOK, Begins, Xid
  <1>2. Numbered'
    BY DEF IInv, Numbered, Begins
  <1>3. LocksOwned' /\ KeysOwned'
    BY DEF IInv, LocksOwned, KeysOwned, Begins
  <1>4. Overlapping'
    BY DEF IInv, Overlapping, DuplicatesOverlap, Overlap, Begins
  <1>5. BaseOwned'
    BY DEF IInv, BaseOwned, LocksOwned, Begins
  <1>6. LocksMet' /\ Undisturbed'
    BY DEF IInv, LocksMet, Undisturbed, Begins
  <1>7. WrittenByCode'
    BY DEF IInv, WrittenByCode, Begins
  <1>. QED
    BY <1>1, <1>2, <1>3, <1>4, <1>5, <1>6, <1>7 DEF IInv

LEMMA InvCommit ==
    ASSUME IInv, NEW s \in Sessions, Commit(s)
    PROVE  IInv'
  <1>. Commits(s) /\ IInv /\ locks' = (locks \ txn[s].del) \cup txn[s].ins
    BY CommitEffect DEF IInv, Commits, Visible
  <1>1. ASSUME NEW t \in Sessions \ {s}, txn'[t].open \/ txn'[t].ins # {} \/ txn'[t].wrote # {}
        PROVE  txn[t].open
    BY <1>1 DEF IInv, Numbered, Commits, Idle
  <1>2. TypeInv'
    <2>1. locks' \subseteq Lock
      BY VisibleType DEF IInv, TypeInv, Commits
    <2>2. TypeOK'
      BY <2>1 DEF IInv, TypeInv, TypeOK, Commits
    <2>3. ASSUME NEW t \in Sessions, txn'[t].open
          PROVE  txn'[t].xid \in Xid
      BY <1>1, <2>3 DEF IInv, TypeInv, Commits, Idle
    <2>. QED
      BY <2>2, <2>3 DEF TypeInv, Xid
  <1>3. Numbered'
    BY <1>1 DEF IInv, Numbered, Commits, Idle
  <1>4. LocksOwned'
    <2>1. \A t \in Sessions : \A l \in txn'[t].ins : l.by = txn'[t].xid /\ l.saw \subseteq 1..xids
      BY <1>1 DEF IInv, LocksOwned, Commits, Idle
    <2>2. ASSUME NEW l \in txn[s].ins
          PROVE  /\ l.by \in 1..xids /\ l.saw \subseteq 1..xids
                 /\ \A t \in Sessions : txn'[t].open => l.by # txn'[t].xid
      BY <1>1 DEF IInv, LocksOwned, Numbered, Commits, Idle
    <2>3. ASSUME NEW l \in locks, NEW t \in Sessions, txn'[t].open
          PROVE  l.by # txn'[t].xid
      BY <1>1, <2>3 DEF IInv, LocksOwned, Commits, Idle
    <2>. QED
      BY <2>1, <2>2, <2>3 DEF IInv, LocksOwned, Commits
  <1>5. Overlapping'
    <2>1. DuplicatesOverlap'
      BY DEF IInv, Overlapping, DuplicatesOverlap, Overlap
    <2>2. ASSUME NEW t \in Sessions, NEW l \in txn'[t].ins
          PROVE  t # s /\ txn[t].open /\ txn'[t].ins = txn[t].ins /\ txn'[t].del = txn[t].del
      BY <1>1, <2>2 DEF Commits, Idle
    <2>3. ASSUME NEW t \in Sessions, NEW l \in txn'[t].ins, NEW m \in locks' \ txn'[t].del,
                 l.row = m.row, l # m
          PROVE  Overlap(l, m)
      BY <2>2, <2>3 DEF IInv, Overlapping
    <2>4. ASSUME NEW t \in Sessions, NEW l \in txn'[t].ins, NEW m \in txn'[t].ins, l.row = m.row
          PROVE  l = m
      BY <2>2, <2>4 DEF IInv, Overlapping
    <2>5. ASSUME NEW t \in Sessions, NEW u \in Sessions \ {t}, NEW l \in txn'[t].ins, NEW m \in txn'[u].ins
          PROVE  Overlap(l, m)
      BY <2>2, <2>5 DEF IInv, Overlapping
    <2>. QED
      BY <2>1, <2>3, <2>4, <2>5 DEF Overlapping, Overlap
  <1>6. BaseOwned'
    <2>1. ASSUME NEW t \in Sessions, NEW l \in txn'[t].base
          PROVE  /\ l \in txn[t].base /\ txn'[t].xid = txn[t].xid /\ txn'[t].ins = txn[t].ins
                 /\ \A u \in Sessions : txn'[u].open => txn[u].open /\ txn'[u].xid = txn[u].xid
      BY <1>1, <2>1 DEF IInv, Numbered, Commits, Idle
    <2>. QED
      BY <2>1 DEF IInv, BaseOwned, Commits
  <1>7. KeysOwned'
    <2>1. ASSUME NEW t \in Sessions, NEW k \in temp'[t].keys
          PROVE  k[1] \in 1..xids /\ (txn'[t].open => k[1] # txn'[t].xid)
      BY <1>1, <2>1 DEF IInv, KeysOwned, Numbered, Commits, Idle
    <2>2. ASSUME NEW t \in Sessions, NEW k \in txn'[t].keys
          PROVE  k[1] = txn'[t].xid
      BY <2>2 DEF IInv, KeysOwned, Numbered, Commits, Idle
    <2>. QED
      BY <2>1, <2>2 DEF KeysOwned, Commits
  <1>8. LocksMet' /\ Undisturbed'
    BY <1>1 DEF IInv, LocksMet, Undisturbed, Commits, Idle
  <1>9. WrittenByCode'
    <2>1. ASSUME schema.trigger, NEW t \in Sessions, NEW l \in (locks' \cap txn'[t].base) \ txn'[t].del,
                 l.row \in txn'[t].wrote, l.expires >= txn'[t].now
          PROVE  \E m \in txn'[t].met : m.row = l.row /\ <<txn'[t].xid, m.auth>> \in txn'[t].keys
      <3>1. t # s /\ txn[t].open
        BY <1>1, <2>1 DEF Commits, Idle
      <3>2. l \in txn[t].base /\ l \notin txn[t].del /\ l.row \in txn[t].wrote /\ l.expires >= txn[t].now
        BY <2>1, <3>1 DEF Commits
      <3>3. l \notin txn[s].ins
        BY <3>2 DEF IInv, BaseOwned, LocksOwned, Commits
      <3>4. l \in locks
        BY <3>3
      <3>5. PICK m \in txn[t].met : m.row = l.row /\ <<txn[t].xid, m.auth>> \in txn[t].keys
        BY <2>1, <3>2, <3>4 DEF IInv, WrittenByCode
      <3>. QED
        BY <3>1, <3>5 DEF Commits
    <2>. QED
      BY <2>1 DEF WrittenByCode, Commits
  <1>. QED
    BY <1>2, <1>3, <1>4, <1>5, <1>6, <1>7, <1>8, <1>9 DEF IInv

LEMMA InvEnd ==
    ASSUME IInv, NEW s \in Sessions, Rollback(s) \/ Disconnect(s)
    PROVE  IInv'
  <1>. Ends(s) /\ IInv
    BY EndEffect DEF IInv
  <1>1. TypeInv'
    BY DEF IInv, TypeInv, TypeOK, Ends, Idle
  <1>2. Numbered'
    BY DEF IInv, Numbered, Ends, Idle
  <1>3. LocksOwned' /\ KeysOwned'
    BY DEF IInv, LocksOwned, KeysOwned, Ends, Idle
  <1>4. Overlapping'
    BY DEF IInv, Overlapping, DuplicatesOverlap, Overlap, Ends, Idle
  <1>5. BaseOwned'
    BY DEF IInv, BaseOwned, Ends, Idle
  <1>6. LocksMet' /\ Undisturbed'
    BY DEF IInv, LocksMet, Undisturbed, Ends, Idle
  <1>7. WrittenByCode'
    <2>1. ASSUME NEW t \in Sessions, NEW r \in txn'[t].wrote
          PROVE  t # s /\ txn'[t] = txn[t]
      BY <2>1 DEF Ends, Idle
    <2>2. UNCHANGED <<schema, locks>>
      BY DEF Ends
    <2>. QED
      BY <2>1, <2>2 DEF IInv, WrittenByCode
  <1>. QED
    BY <1>1, <1>2, <1>3, <1>4, <1>5, <1>6, <1>7 DEF IInv

\* A trigger comes when nobody has written; locks go all at once.
LEMMA InvAlter ==
    ASSUME IInv, AltersSchema
    PROVE  IInv'
  <1>. Alters /\ IInv /\ Undisturbed'
    BY AlterEffect DEF IInv
  <1>1. locks' \subseteq locks
    BY DEF Alters
  <1>2. TypeInv' /\ Numbered'
    BY <1>1 DEF IInv, TypeInv, TypeOK, Numbered, Alters
  <1>3. LocksOwned' /\ KeysOwned' /\ BaseOwned'
    BY <1>1 DEF IInv, LocksOwned, KeysOwned, BaseOwned, Alters
  <1>4. Overlapping'
    BY <1>1 DEF IInv, Overlapping, DuplicatesOverlap, Overlap, Alters
  <1>5. LocksMet' /\ Undisturbed'
    BY <1>1 DEF IInv, LocksMet, Alters
  <1>6. WrittenByCode'
    <2>1. CASE schema.trigger
      BY <1>1, <2>1 DEF IInv, WrittenByCode, Alters
    <2>2. CASE ~schema.trigger
      <3>1. ASSUME schema'.trigger, NEW t \in Sessions
            PROVE  txn[t].wrote = {}
        BY <2>2, <3>1 DEF IInv, Alters, NoWriters, Open, Numbered, Idle
      <3>. QED
        BY <3>1 DEF WrittenByCode, Alters
    <2>. QED
      BY <2>1, <2>2
  <1>. QED
    BY <1>2, <1>3, <1>4, <1>5, <1>6 DEF IInv

LEMMA InvTick ==
    ASSUME IInv, Tick \/ UNCHANGED vars
    PROVE  IInv'
  <1>. UNCHANGED <<schema, ddl, locks, temp, txn, xids>> /\ clock' \in Time /\ IInv
    BY DEF Tick, vars, IInv, TypeInv, TypeOK, Time
  <1>1. TypeInv' /\ Numbered' /\ LocksOwned' /\ KeysOwned' /\ BaseOwned'
    BY DEF IInv, TypeInv, TypeOK, Numbered, LocksOwned, KeysOwned, BaseOwned
  <1>2. Overlapping' /\ LocksMet' /\ Undisturbed' /\ WrittenByCode'
    BY DEF IInv, Overlapping, DuplicatesOverlap, Overlap, LocksMet, Undisturbed, WrittenByCode
  <1>. QED
    BY <1>1, <1>2 DEF IInv

LEMMA InvNext == IInv /\ [Next]_vars => IInv'
  <1>. SUFFICES ASSUME IInv, [Next]_vars PROVE IInv'
    OBVIOUS
  <1>1. ASSUME NEW s \in Sessions, Call(s) PROVE IInv'
    BY <1>1, CallEffect, InvCall DEF IInv
  <1>. QED
    BY <1>1, InvTick, InvBegin, InvCommit, InvEnd, InvAlter DEF Next, AltersSchema

LEMMA Invariant == Spec => []IInv
  BY InvInit, InvNext, PTL DEF Spec

-----------------------------------------------------------------------------
\* The tables, the transactions and the clock keep their types.
THEOREM LockTypesCorrect == Spec => []TypeOK
  <1>1. IInv => TypeOK
    BY DEF IInv, TypeInv
  <1>. QED
    BY <1>1, Invariant, PTL

\* LockRow, without a constraint behind it, gives one row two locks only to
\* transactions that were open together, however many there are.
THEOREM DuplicatesAlwaysOverlap == Spec => []DuplicatesOverlap
  <1>1. IInv => DuplicatesOverlap
    BY DEF IInv, Overlapping
  <1>. QED
    BY <1>1, Invariant, PTL

\* check_authorization: what is committed under a lock that was there before
\* was written with a code of a lock on the row, given in that transaction.
THEOREM CommittedWritesRespectLocks == Spec => WritesRespectLocks
  <1>. DEFINE Respects ==
                \A s \in Sessions, l \in locks \cap locks' :
                   /\ CanCall(s) /\ ~txn'[s].open /\ locks' = Visible(s) /\ temp'[s].exists = OwnTempTable(s)
                   /\ l \in txn[s].base /\ l.row \in txn[s].wrote
                   /\ l.expires >= txn[s].now /\ schema.trigger
                   => \E m \in txn[s].met : m.row = l.row /\ <<txn[s].xid, m.auth>> \in txn[s].keys
  <1>1. IInv => Respects
    <2>. SUFFICES ASSUME IInv, NEW s \in Sessions, NEW l \in locks \cap locks',
                         txn[s].open, locks' = Visible(s), l \in txn[s].base, l.row \in txn[s].wrote,
                         l.expires >= txn[s].now, schema.trigger
                  PROVE  \E m \in txn[s].met : m.row = l.row /\ <<txn[s].xid, m.auth>> \in txn[s].keys
      BY DEF CanCall
    <2>1. l \notin txn[s].ins
      BY DEF IInv, BaseOwned, LocksOwned
    <2>2. l \notin txn[s].del
      BY <2>1 DEF Visible
    <2>. QED
      BY <2>2 DEF IInv, WrittenByCode
  <1>. QED
    BY <1>1, Invariant, PTL DEF WritesRespectLocks

\* The trigger refuses the write of a locked row only, whatever the order of
\* the calls that come and go one after the other: it outlives the table only
\* after DisableLongTransactions was under way together with another of them.
THEOREM OnlyLocksRefuse == Spec => RefusedOnlyIfLocked
  <1>. DEFINE Refused == \A s \in Sessions, r \in Rows :
                            txn'[s].error = r /\ txn[s].error # r
                               => LiveOn(s, r) # {} \/ (ddl.mixed /\ ~schema.table)
  <1>1. IInv /\ [Next]_vars => [Refused]_vars
    <2>. SUFFICES ASSUME IInv, Next, NEW s \in Sessions, NEW r \in Rows,
                         txn'[s].error = r, txn[s].error # r
                  PROVE  LiveOn(s, r) # {} \/ (ddl.mixed /\ ~schema.table)
      OBVIOUS
    <2>1. r # Nil /\ Idle.error = Nil
      BY NilAssumption DEF Idle
    <2>2. ASSUME NEW t \in Sessions, Effect(t)
          PROVE  LiveOn(s, r) # {} \/ (ddl.mixed /\ ~schema.table)
      <3>1. t = s /\ Refusable(s, r)
        BY <2>2 DEF Effect, Frame, Refuses
      <3>. QED
        BY <3>1 DEF Refusable, IInv, Undisturbed
    <2>3. ASSUME NEW t \in Sessions, Begin(t) PROVE FALSE
      <3>1. Begins(t)
        BY <2>3, BeginEffect DEF IInv
      <3>. QED
        BY <2>1, <3>1 DEF Begins
    <2>4. ASSUME NEW t \in Sessions, Commit(t) PROVE FALSE
      <3>1. Commits(t)
        BY <2>4, CommitEffect DEF IInv
      <3>. QED
        BY <2>1, <3>1 DEF Commits
    <2>5. ASSUME NEW t \in Sessions, Rollback(t) \/ Disconnect(t) PROVE FALSE
      <3>1. Ends(t)
        BY <2>5, EndEffect DEF IInv
      <3>. QED
        BY <2>1, <3>1 DEF Ends
    <2>6. ~Tick /\ ~AltersSchema
      <3>1. AltersSchema => txn' = txn
        BY AlterEffect DEF IInv, Alters
      <3>. QED
        BY <3>1 DEF Tick
    <2>7. ASSUME NEW t \in Sessions, Call(t)
          PROVE  LiveOn(s, r) # {} \/ (ddl.mixed /\ ~schema.table)
      BY <2>2, <2>7, CallEffect DEF IInv
    <2>. QED
      BY <2>3, <2>4, <2>5, <2>6, <2>7 DEF Next, AltersSchema
  <1>. QED
    BY <1>1, Invariant, PTL DEF Spec, RefusedOnlyIfLocked
=============================================================================
