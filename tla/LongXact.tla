------------------------------ MODULE LongXact ------------------------------
(***************************************************************************)
(* PostGIS's long transactions: advisory locks on rows, kept in a table,   *)
(* that outlive the transaction taking them, and the trigger that refuses  *)
(* the update of a locked row by a transaction without its authorization.  *)
(*                                                                         *)
(* Transactions are READ COMMITTED: each call reads what was committed     *)
(* before it and what its own transaction did.  now() is the time at which *)
(* a transaction began.  A call that raises leaves its transaction failed  *)
(* until it is rolled back.                                                *)
(***************************************************************************)
EXTENDS Naturals, FiniteSets

CONSTANTS
    Sessions,    \* database connections
    Rows,        \* rows of the user table that CheckAuth protects
    Auths,       \* authorization codes
    Terms,       \* how long LockRow is asked to hold a row
    Nil,         \* a transaction without an error
    MaxTime,     \* bound: the last instant the clock reaches
    MaxXid       \* bound: how many transactions begin

ASSUME NilAssumption   == Nil \notin Rows \cup {"call"} /\ "call" \notin Rows
ASSUME BoundAssumption == Terms \subseteq Nat /\ MaxTime \in Nat /\ MaxXid \in Nat

VARIABLES
    clock,       \* the wall clock
    schema,      \* which of the table, the view and the trigger exist, as committed
    ddl,         \* the calls under way that change the schema
    locks,       \* authorization_table, as committed
    temp,        \* temp[s]: session s's temp_lock_have_table, as committed
    txn,         \* txn[s]: the transaction of session s
    xids         \* how many transactions have begun

vars == <<clock, schema, ddl, locks, temp, txn, xids>>

Time == 0..MaxTime
Xid  == 1..MaxXid

\* by and saw are history: the inserting transaction, and those open then.
Lock == [row : Rows, auth : Auths, expires : Time, by : Xid, saw : SUBSET Xid]

Schema == [table : BOOLEAN, view : BOOLEAN, trigger : BOOLEAN]

\* enable: whether the call saw the table or made it.  disable: whether it
\* dropped the trigger or found none.  mixed is history, see Stage.
Calls == [enable : {"no", "seen", "made"}, check : {"no", "tested"},
          disable : {"no", "dropped", "none"}, mixed : BOOLEAN]

\* A session's own temporary table, and the rows put into it.
Temp == [exists : BOOLEAN, keys : SUBSET (Xid \X Auths)]

\* error: Nil, the row whose write was refused, or "call" for another error.
\* base and met are history: the locks committed when the transaction began,
\* and those committed at any time since.
Txn == [open  : BOOLEAN, xid : 0..MaxXid, now : Time, error : Rows \cup {Nil, "call"},
        ins   : SUBSET Lock, del : SUBSET Lock, made : BOOLEAN, keys : SUBSET (Xid \X Auths),
        wrote : SUBSET Rows, busy : BOOLEAN, base : SUBSET Lock, met : SUBSET Lock]

Idle == [open  |-> FALSE, xid |-> 0, now |-> 0, error |-> Nil,
         ins   |-> {}, del |-> {}, made |-> FALSE, keys |-> {},
         wrote |-> {}, busy |-> FALSE, base |-> {}, met |-> {}]

Init ==
    /\ clock = 0
    /\ schema = [table |-> FALSE, view |-> FALSE, trigger |-> FALSE]
    /\ ddl = [enable |-> "no", check |-> "no", disable |-> "no", mixed |-> FALSE]
    /\ locks = {}
    /\ temp = [s \in Sessions |-> [exists |-> FALSE, keys |-> {}]]
    /\ txn = [s \in Sessions |-> Idle]
    /\ xids = 0

Visible(s)  == (locks \ txn[s].del) \cup txn[s].ins
Open        == {s \in Sessions : txn[s].open}
OpenXids    == {txn[s].xid : s \in Open}
CanCall(s)  == txn[s].open /\ txn[s].error = Nil
Fail(s, e)  == txn' = [txn EXCEPT ![s].error = e]

Tick ==
    /\ clock < MaxTime
    /\ clock' = clock + 1
    /\ UNCHANGED <<schema, ddl, locks, temp, txn, xids>>

Begin(s) ==
    /\ ~txn[s].open
    /\ xids < MaxXid
    /\ xids' = xids + 1
    /\ txn' = [txn EXCEPT ![s] = [Idle EXCEPT !.open = TRUE, !.xid = xids + 1,
                                              !.now = clock, !.base = locks, !.met = locks]]
    /\ UNCHANGED <<clock, schema, ddl, locks, temp>>

Commit(s) ==
    /\ CanCall(s)
    /\ locks' = Visible(s)
    /\ temp' = [temp EXCEPT ![s].exists = @ \/ txn[s].made,
                            ![s].keys = @ \cup txn[s].keys]
    /\ txn' = [t \in Sessions |->
                 IF t = s THEN Idle
                 ELSE IF txn[t].open THEN [txn[t] EXCEPT !.met = @ \cup Visible(s)]
                 ELSE txn[t]]
    /\ UNCHANGED <<clock, schema, ddl, xids>>

Rollback(s) ==
    /\ txn[s].open
    /\ txn' = [txn EXCEPT ![s] = Idle]
    /\ UNCHANGED <<clock, schema, ddl, locks, temp, xids>>

\* The connection is lost: the transaction rolls back, the temporary table goes.
Disconnect(s) ==
    /\ txn' = [txn EXCEPT ![s] = Idle]
    /\ temp' = [temp EXCEPT ![s] = [exists |-> FALSE, keys |-> {}]]
    /\ UNCHANGED <<clock, schema, ddl, locks, xids>>

-----------------------------------------------------------------------------
LongTransactionsEnabled == schema.view

\* A DELETE waits for another open transaction that deletes the same locks.
CanDelete(s, d) == \A t \in Open \ {s} : txn[t].del \cap d = {}

Delete(s, d) ==
    [txn[s] EXCEPT !.del = @ \cup (d \cap locks), !.ins = @ \ d, !.busy = TRUE]

\* The function raises, or finds no table of locks though there is the view.
Unusable == ~(LongTransactionsEnabled /\ schema.table)

UnlockRows(s, a) ==
    /\ CanCall(s)
    /\ \/ Unusable /\ Fail(s, "call")
       \/ /\ ~Unusable
          /\ LET mine == {l \in Visible(s) : l.auth = a}
             IN  /\ CanDelete(s, mine)
                 /\ txn' = [txn EXCEPT ![s] = Delete(s, mine)]
    /\ UNCHANGED <<clock, schema, ddl, locks, temp, xids>>

Expired(s) == {l \in Visible(s) : l.expires < txn[s].now}

\* Mutant of Held: the loop looks only at the caller's own locks.
HeldByMe(s, r) == \E l \in txn[s].ins \ Expired(s) : l.row = r

\* Whether the row is held, by anyone: then LockRow inserts nothing.
Held(s, r) == \E l \in Visible(s) \ Expired(s) : l.row = r

LockRow(s, r, a, term) ==
    /\ CanCall(s)
    /\ \/ Unusable /\ Fail(s, "call")
       \/ /\ ~Unusable
          /\ CanDelete(s, Expired(s))
          /\ txn[s].now + term \in Time
          /\ LET new == [row |-> r, auth |-> a, expires |-> txn[s].now + term,
                         by |-> txn[s].xid, saw |-> OpenXids \ {txn[s].xid}]
                 ins == IF Held(s, r) THEN {} ELSE {new}
             IN  txn' = [txn EXCEPT ![s] = [Delete(s, Expired(s)) EXCEPT !.ins = @ \cup ins]]
    /\ UNCHANGED <<clock, schema, ddl, locks, temp, xids>>

\* pg_class shows every session's committed tables, a temporary one included.
SomeTempTable(s) == txn[s].made \/ \E t \in Sessions : temp[t].exists
OwnTempTable(s)  == txn[s].made \/ temp[s].exists

AddAuth(s, a) ==
    /\ CanCall(s)
    /\ \/ /\ SomeTempTable(s) /\ ~OwnTempTable(s)
          /\ Fail(s, "call")
       \/ /\ SomeTempTable(s) => OwnTempTable(s)
          /\ txn' = [txn EXCEPT ![s].made = @ \/ ~SomeTempTable(s),
                                ![s].keys = @ \cup {<<txn[s].xid, a>>}]
    /\ UNCHANGED <<clock, schema, ddl, locks, temp, xids>>

-----------------------------------------------------------------------------
\* Live locks on a row, as the trigger's query finds them; it reads the first.
LiveOn(s, r) == {l \in Visible(s) : l.row = r /\ l.expires >= txn[s].now}

\* Mutant of HasKey: the code counts whatever transaction brought it.
HasAnyKey(s, a) == \E x \in Xid : <<x, a>> \in temp[s].keys \cup txn[s].keys

\* xideq(transid, getTransactionID())
HasKey(s, a) == <<txn[s].xid, a>> \in temp[s].keys \cup txn[s].keys

\* Whether check_authorization lets the write pass.  Another session's table
\* makes the last query fail: the write is refused as well.
Authorized(s, r) ==
    \/ ~schema.trigger
    \/ /\ schema.table
       /\ \/ LiveOn(s, r) = {}
          \/ \E l \in LiveOn(s, r) : OwnTempTable(s) /\ HasKey(s, l.auth)

\* With duplicates the first row found may be another's: refused as well.
Refusable(s, r) ==
    /\ schema.trigger
    /\ \/ ~schema.table
       \/ \E l \in LiveOn(s, r) : ~(OwnTempTable(s) /\ HasKey(s, l.auth))

\* UPDATE or DELETE of a row of the user table.  The trigger reads the table of
\* locks; a trigger being dropped is waited for.
Write(s, r) ==
    /\ CanCall(s)
    /\ ddl.disable # "dropped"
    /\ \A t \in Open \ {s} : r \notin txn[t].wrote
    /\ \/ /\ Authorized(s, r)
          /\ txn' = [txn EXCEPT ![s].wrote = @ \cup {r}, ![s].busy = @ \/ schema.trigger]
       \/ /\ Refusable(s, r)
          /\ Fail(s, r)
    /\ UNCHANGED <<clock, schema, ddl, locks, temp, xids>>

-----------------------------------------------------------------------------
\* The three functions below run as transactions of their own, one call of each
\* at a time.  A step ends where another session can come between: a statement
\* sees what is committed when it starts, and what it makes is seen at the end.
\* DROP TABLE waits for the transactions that used the table of locks, CREATE
\* and DROP TRIGGER for those that wrote rows of the user table.
Quiet     == \A s \in Open : ~txn[s].busy
NoWriters == \A s \in Open : txn[s].wrote = {}

\* The call of kind k goes on with stage v; the history tells if a disabling
\* ever was under way together with one of the others.
Stage(k, v) ==
    LET d == [ddl EXCEPT ![k] = v] IN
    ddl' = [d EXCEPT !.mixed = @ \/ (d.disable # "no" /\ (d.enable # "no" \/ d.check # "no"))]

\* EnableLongTransactions looks for the table, and makes it if there is none.
EnableLongTransactions ==
    /\ ddl.enable = "no"
    /\ Stage("enable", IF schema.table THEN "seen" ELSE "made")
    /\ UNCHANGED <<clock, schema, locks, temp, txn, xids>>

\* It looks for the view, makes it if there is none, and is committed.
EnableCommits ==
    /\ ddl.enable # "no"
    /\ schema' = [schema EXCEPT !.table = @ \/ ddl.enable = "made", !.view = TRUE]
    /\ Stage("enable", "no")
    /\ UNCHANGED <<clock, locks, temp, txn, xids>>

\* CheckAuth tests LongTransactionsEnabled.
CheckAuth ==
    /\ ddl.check = "no"
    /\ LongTransactionsEnabled
    /\ Stage("check", "tested")
    /\ UNCHANGED <<clock, schema, locks, temp, txn, xids>>

\* It creates the trigger, which no one sees before it is committed.  A second
\* trigger of the same name is an error; one being dropped is waited for.
CheckAuthCommits ==
    /\ ddl.check = "tested"
    /\ NoWriters
    /\ ddl.disable # "dropped"
    /\ ~schema.trigger
    /\ schema' = [schema EXCEPT !.trigger = TRUE]
    /\ Stage("check", "no")
    /\ UNCHANGED <<clock, locks, temp, txn, xids>>

\* Mutant of DisableLongTransactions: the triggers stay behind.
DisableKeepingTriggers ==
    /\ ddl.disable = "no"
    /\ Stage("disable", "none")
    /\ UNCHANGED <<clock, schema, locks, temp, txn, xids>>

\* DisableLongTransactions scans for triggers, and drops those that are there.
DisableLongTransactions ==
    /\ ddl.disable = "no"
    /\ schema.trigger => NoWriters
    /\ Stage("disable", IF schema.trigger THEN "dropped" ELSE "none")
    /\ UNCHANGED <<clock, schema, locks, temp, txn, xids>>

\* It drops the table and the view, and is committed.
DisableCommits ==
    /\ ddl.disable # "no"
    /\ Quiet
    /\ schema' = [table |-> FALSE, view |-> FALSE,
                  trigger |-> schema.trigger /\ ddl.disable # "dropped"]
    /\ locks' = {}
    /\ Stage("disable", "no")
    /\ UNCHANGED <<clock, temp, txn, xids>>

\* One of these calls raises, is a victim of a deadlock, or loses its connection.
CallDies(k) ==
    /\ ddl[k] # "no"
    /\ Stage(k, "no")
    /\ UNCHANGED <<clock, schema, locks, temp, txn, xids>>

Call(s) ==
    \/ \E a \in Auths : UnlockRows(s, a)
    \/ \E r \in Rows, a \in Auths, e \in Terms : LockRow(s, r, a, e)
    \/ \E a \in Auths : AddAuth(s, a)
    \/ \E r \in Rows : Write(s, r)

Next ==
    \/ Tick
    \/ \E s \in Sessions : Begin(s) \/ Commit(s) \/ Rollback(s) \/ Disconnect(s) \/ Call(s)
    \/ EnableLongTransactions \/ EnableCommits
    \/ CheckAuth \/ CheckAuthCommits
    \/ DisableLongTransactions \/ DisableCommits
    \/ \E k \in {"enable", "check", "disable"} : CallDies(k)

Spec == Init /\ [][Next]_vars

-----------------------------------------------------------------------------
TypeOK ==
    /\ clock \in Time
    /\ schema \in Schema
    /\ ddl \in Calls
    /\ locks \subseteq Lock
    /\ temp \in [Sessions -> Temp]
    /\ txn \in [Sessions -> Txn]
    /\ xids \in 0..MaxXid

\* LockRow has no unique constraint behind it, so two codes can hold one row;
\* but only if the transactions that took the two locks were open together:
\* a row whose lock was committed is never granted again while it is held.
DuplicatesOverlap ==
    \A l, m \in locks :
        l.row = m.row /\ l # m => l.by \in m.saw \/ m.by \in l.saw

\* What check_authorization is for: a committed write of a row that was locked
\* before its transaction began, and still is, was made with the code of a
\* lock on that row, passed to AddAuth in that very transaction.
WritesRespectLocks ==
    [][\A s \in Sessions, l \in locks \cap locks' :
          /\ CanCall(s) /\ ~txn'[s].open /\ locks' = Visible(s) /\ temp'[s].exists = OwnTempTable(s)
          /\ l \in txn[s].base /\ l.row \in txn[s].wrote
          /\ l.expires >= txn[s].now /\ schema.trigger
          => \E m \in txn[s].met : m.row = l.row /\ <<txn[s].xid, m.auth>> \in txn[s].keys]_vars

\* A write is refused only because of a lock, unless DisableLongTransactions
\* has overlapped a CheckAuth or an EnableLongTransactions.  CheckAuth tests
\* whether long transactions are enabled before it creates its trigger, and
\* the scan for triggers sees the committed ones; so after an overlap a trigger
\* may be left without the table it reads, and refuses every row of its table.
\* Calls that come one after the other, in any order, never leave one.
RefusedOnlyIfLocked ==
    [][\A s \in Sessions, r \in Rows :
          txn'[s].error = r /\ txn[s].error # r
             => LiveOn(s, r) # {} \/ (ddl.mixed /\ ~schema.table)]_vars

\* The same without the exception.  Not true.
LocksAloneRefuse ==
    [][\A s \in Sessions, r \in Rows :
          txn'[s].error = r /\ txn[s].error # r => LiveOn(s, r) # {}]_vars
=============================================================================
