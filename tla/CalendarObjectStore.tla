------------------------- MODULE CalendarObjectStore -------------------------
(***************************************************************************)
(* CalendarObject.setComponent / updateDatabase (sql.py) run by several   *)
(* concurrent transactions against the CALENDAR_OBJECT and TIME_RANGE     *)
(* tables (TRANSPARENCY rows travel with their TIME_RANGE row).           *)
(*                                                                         *)
(* The database is PostgreSQL at READ COMMITTED, the transaction manager *)
(* the code runs under: a statement sees what was committed when it      *)
(* started plus its own transaction's writes; an UPDATE or DELETE of a   *)
(* row another open transaction has written waits until that one ends, *)
(* then skips the row if it is gone; an INSERT on a unique key another   *)
(* open transaction has written waits likewise, and fails if the key    *)
(* then exists.  Every execSQL is a point where another transaction may  *)
(* run, so each statement of updateDatabase is its own step.             *)
(***************************************************************************)
EXTENDS CalendarIndexing, Sequences

CONSTANTS
    Txns,            \* transaction handles (model values)
    Names,           \* calendar object resource names in one calendar
    Comps,           \* components a client may store
    MaxDay,          \* the last day the model lets "today" reach
    ExpandOffsets,   \* expand_until - today, for a re-index request
    MaxTxnRuns,      \* transactions each handle may run
    MaxOps           \* updateDatabase calls per transaction

VARIABLES
    objects,     \* committed CALENDAR_OBJECT rows: [Names -> record or NoValue]
    timeRange,   \* committed TIME_RANGE rows (with their TRANSPARENCY rows)
    today,       \* datetime.date.today()
    tstate,      \* per handle: "idle", "open", or "failed" (a statement erred)
    runs,        \* per handle: transactions begun so far
    migrating,   \* per handle: self._txn._migrating
    ops,         \* per handle: updateDatabase calls in this transaction
    pendObj,     \* per handle: CALENDAR_OBJECT rows it wrote, not committed
    pendIns,     \* per handle: TIME_RANGE rows it inserted, not committed
    pendDel,     \* per handle: committed TIME_RANGE rows it deleted (locked)
    op,          \* per handle: the updateDatabase call in progress, or NoValue
    objText      \* per handle: each CalendarObject's _objectText, or None

vars == <<objects, timeRange, today, tstate, runs, migrating, ops,
          pendObj, pendIns, pendDel, op, objText>>

(***************************************************************************)
(* What a statement of transaction t sees.                                *)
(***************************************************************************)
Active(u) == tstate[u] # "idle"

VisibleObject(t, n) ==
    IF pendObj[t][n] # NoValue THEN pendObj[t][n] ELSE objects[n]

VisibleRows(t) == (timeRange \ pendDel[t]) \cup pendIns[t]

\* Another open transaction holds the CALENDAR_OBJECT row (or unique key) n.
RowLockedByOther(t, n) == \E u \in Txns \ {t} : Active(u) /\ pendObj[u][n] # NoValue

\* Another open transaction has deleted one of these committed rows.
RowsLockedByOther(t, rows) ==
    \E u \in Txns \ {t} : Active(u) /\ rows \cap pendDel[u] # {}

(***************************************************************************)
(* The statements of updateDatabase after the expansion, in code order:  *)
(* the CALENDAR_OBJECT insert or update, then (update only) the DELETE   *)
(* from TIME_RANGE, which reads its rows when it starts ("scan") and     *)
(* removes them once no other transaction holds them ("delete"), then    *)
(* the TIME_RANGE/TRANSPARENCY inserts.                                  *)
(***************************************************************************)
InsertSteps == <<"record", "insert">>

\* A variant of UpdateSteps that wipes the time ranges before it updates
\* the CALENDAR_OBJECT row.
UpdateStepsSwapped == <<"scan", "delete", "record", "insert">>

UpdateSteps == <<"record", "scan", "delete", "insert">>

Steps(inserting) == IF inserting THEN InsertSteps ELSE UpdateSteps

AtStep(t, s) == op[t] # NoValue /\ Steps(op[t].inserting)[op[t].pc] = s

\* Move to the next statement, or finish the call after the last one.
Advance(t) ==
    IF op[t].pc = Len(Steps(op[t].inserting))
    THEN /\ op' = [op EXCEPT ![t] = NoValue]
         /\ ops' = [ops EXCEPT ![t] = @ + 1]
    ELSE /\ op' = [op EXCEPT ![t].pc = @ + 1]
         /\ UNCHANGED ops

\* The identity of one updateDatabase call, standing for the INSTANCE_IDs
\* and MODIFIED stamp its rows get.
CallId(t) == <<t, runs[t], ops[t]>>

(***************************************************************************)
(* Transactions.                                                          *)
(***************************************************************************)
Begin(t) ==
    /\ tstate[t] = "idle"
    /\ runs[t] < MaxTxnRuns
    /\ tstate' = [tstate EXCEPT ![t] = "open"]
    /\ runs' = [runs EXCEPT ![t] = @ + 1]
    /\ \E m \in BOOLEAN : migrating' = [migrating EXCEPT ![t] = m]
    /\ ops' = [ops EXCEPT ![t] = 0]
    /\ UNCHANGED <<objects, timeRange, today, pendObj, pendIns, pendDel, op, objText>>

Commit(t) ==
    /\ tstate[t] = "open"
    /\ op[t] = NoValue
    /\ objects' = [n \in Names |-> VisibleObject(t, n)]
    /\ timeRange' = VisibleRows(t)
    /\ tstate' = [tstate EXCEPT ![t] = "idle"]
    /\ pendObj' = [pendObj EXCEPT ![t] = [n \in Names |-> NoValue]]
    /\ pendIns' = [pendIns EXCEPT ![t] = {}]
    /\ pendDel' = [pendDel EXCEPT ![t] = {}]
    /\ objText' = [objText EXCEPT ![t] = [n \in Names |-> NoValue]]
    /\ UNCHANGED <<today, runs, migrating, ops, op>>

\* Rollback, at any statement boundary: the caller gives up after an error
\* or a statement fails (PostgreSQL's deadlock detector included).
Abort(t) ==
    /\ Active(t)
    /\ tstate' = [tstate EXCEPT ![t] = "idle"]
    /\ pendObj' = [pendObj EXCEPT ![t] = [n \in Names |-> NoValue]]
    /\ pendIns' = [pendIns EXCEPT ![t] = {}]
    /\ pendDel' = [pendDel EXCEPT ![t] = {}]
    /\ op' = [op EXCEPT ![t] = NoValue]
    /\ objText' = [objText EXCEPT ![t] = [n \in Names |-> NoValue]]
    /\ UNCHANGED <<objects, timeRange, today, runs, migrating, ops>>

NextDay ==
    /\ today < MaxDay
    /\ today' = today + 1
    /\ UNCHANGED <<objects, timeRange, tstate, runs, migrating, ops,
                   pendObj, pendIns, pendDel, op, objText>>

(***************************************************************************)
(* updateDatabase(component, expand_until, reCreate): the expansion runs *)
(* first and raises (IndexedSearchException, or the re-raised            *)
(* InvalidOverriddenInstanceError) before any statement has run; the     *)
(* exception reaches the caller, whose transaction stays open.  A call   *)
(* that expands starts on its statements.  It inserts when the object    *)
(* does not exist yet (createCalendarObjectWithName) and updates         *)
(* otherwise.                                                             *)
(***************************************************************************)
UpdateDatabase(t, n, c, put, expand_until, reCreate) ==
    LET res == ExpandForIndex(c, today, expand_until, reCreate, migrating[t])
    IN
    /\ tstate[t] = "open"
    /\ op[t] = NoValue
    /\ ops[t] < MaxOps
    /\ \/ /\ res.status # "ok"
          /\ ops' = [ops EXCEPT ![t] = @ + 1]
          /\ UNCHANGED <<op, objText>>
       \/ /\ res.status = "ok"
          /\ objText' = [objText EXCEPT ![t][n] = [comp |-> c, put |-> put]]
          /\ op' = [op EXCEPT ![t] =
                      [pc |-> 1, name |-> n, comp |-> c, put |-> put,
                       inserting |-> VisibleObject(t, n) = NoValue,
                       instances |-> res.instances, snap |-> {}]]
          /\ UNCHANGED ops
    /\ UNCHANGED <<objects, timeRange, today, tstate, runs, migrating,
                   pendObj, pendIns, pendDel>>

\* setComponent(component, inserting): a client stores a new text.  The
\* ghost "put" names the client call whose text a row carries.
SetComponent(t, n, c) == UpdateDatabase(t, n, c, CallId(t), NoValue, FALSE)

(***************************************************************************)
(* text(): the cached _objectText if there is one, else select            *)
(* ICALENDAR_TEXT (the row must exist: [0][0]) and cache it.             *)
(***************************************************************************)
TextOf(t, n) ==
    IF objText[t][n] # NoValue THEN objText[t][n]
    ELSE [comp |-> VisibleObject(t, n).comp, put |-> VisibleObject(t, n).put]

text(t, n) ==
    /\ tstate[t] = "open"
    /\ op[t] = NoValue
    /\ objText[t][n] = NoValue
    /\ VisibleObject(t, n) # NoValue
    /\ objText' = [objText EXCEPT ![t][n] = TextOf(t, n)]
    /\ UNCHANGED <<objects, timeRange, today, tstate, runs, migrating, ops,
                   pendObj, pendIns, pendDel, op>>

\* The index re-expands a stored object further into the future:
\* updateDatabase(self.component(), expand_until, reCreate=True), where
\* component() parses text().
ReIndex(t, n, k) ==
    /\ objText[t][n] # NoValue \/ VisibleObject(t, n) # NoValue
    /\ UpdateDatabase(t, n, TextOf(t, n).comp, TextOf(t, n).put, today + k, TRUE)

\* insert into CALENDAR_OBJECT ... / update CALENDAR_OBJECT set ... .  An
\* insert whose name was committed meanwhile violates the unique key and
\* leaves the transaction able only to roll back.
WriteRecord(t) ==
    LET n == op[t].name
        row == [comp |-> op[t].comp, recmax |-> RecurrenceMax(op[t].instances),
                by |-> CallId(t), put |-> op[t].put]
    IN
    /\ AtStep(t, "record")
    /\ ~RowLockedByOther(t, n)
    /\ \/ /\ op[t].inserting /\ objects[n] # NoValue
          /\ tstate' = [tstate EXCEPT ![t] = "failed"]
          /\ op' = [op EXCEPT ![t] = NoValue]
          /\ UNCHANGED <<pendObj, ops>>
       \/ /\ ~(op[t].inserting /\ objects[n] # NoValue)
          /\ pendObj' = [pendObj EXCEPT ![t][n] = row]
          /\ Advance(t)
          /\ UNCHANGED tstate
    /\ UNCHANGED <<objects, timeRange, today, runs, migrating, pendIns, pendDel, objText>>

\* A variant of ScanTimeRange whose DELETE lost its WHERE clause.
ScanTimeRangeAllObjects(t) ==
    /\ AtStep(t, "scan")
    /\ op' = [op EXCEPT ![t].snap = VisibleRows(t), ![t].pc = @ + 1]
    /\ UNCHANGED <<objects, timeRange, today, tstate, runs, migrating, ops,
                   pendObj, pendIns, pendDel, objText>>

\* delete from TIME_RANGE where CALENDAR_OBJECT_RESOURCE_ID = %s: the rows
\* the statement's snapshot shows ...
ScanTimeRange(t) ==
    /\ AtStep(t, "scan")
    /\ op' = [op EXCEPT ![t].snap = {r \in VisibleRows(t) : r.obj = op[t].name},
                        ![t].pc = @ + 1]
    /\ UNCHANGED <<objects, timeRange, today, tstate, runs, migrating, ops,
                   pendObj, pendIns, pendDel, objText>>

\* ... are deleted once no other open transaction holds them; those that
\* were deleted by a transaction that committed meanwhile are skipped.
DeleteTimeRange(t) ==
    LET gone == op[t].snap \cap timeRange
    IN
    /\ AtStep(t, "delete")
    /\ ~RowsLockedByOther(t, gone)
    /\ pendDel' = [pendDel EXCEPT ![t] = @ \cup gone]
    /\ pendIns' = [pendIns EXCEPT ![t] = @ \ op[t].snap]
    /\ Advance(t)
    /\ UNCHANGED <<objects, timeRange, today, tstate, runs, migrating, pendObj, objText>>

\* The loop of insert into TIME_RANGE / insert into TRANSPARENCY statements
\* over the instances, then the sentinel row for an unbounded series.
InsertTimeRanges(t) ==
    /\ AtStep(t, "insert")
    /\ pendIns' = [pendIns EXCEPT ![t] = @ \cup
                     TimeRangeRows(op[t].comp, op[t].instances, op[t].name, CallId(t))]
    /\ Advance(t)
    /\ UNCHANGED <<objects, timeRange, today, tstate, runs, migrating,
                   pendObj, pendDel, objText>>

(***************************************************************************)
(* PostgreSQL's deadlock detector: when two transactions each wait for a *)
(* row lock the other holds, the statement of one of them fails, and its *)
(* transaction can then only roll back.                                  *)
(***************************************************************************)
WaitsFor(t, u) ==
    /\ Active(u)
    /\ \/ AtStep(t, "record") /\ pendObj[u][op[t].name] # NoValue
       \/ AtStep(t, "delete") /\ op[t].snap \cap timeRange \cap pendDel[u] # {}

DeadlockDetected(t) ==
    /\ tstate[t] = "open"
    /\ \E u \in Txns \ {t} : WaitsFor(t, u) /\ WaitsFor(u, t)
    /\ tstate' = [tstate EXCEPT ![t] = "failed"]
    /\ op' = [op EXCEPT ![t] = NoValue]
    /\ UNCHANGED <<objects, timeRange, today, runs, migrating, ops,
                   pendObj, pendIns, pendDel, objText>>

Init ==
    /\ objects = [n \in Names |-> NoValue]
    /\ timeRange = {}
    /\ today = 0
    /\ tstate = [t \in Txns |-> "idle"]
    /\ runs = [t \in Txns |-> 0]
    /\ migrating = [t \in Txns |-> FALSE]
    /\ ops = [t \in Txns |-> 0]
    /\ pendObj = [t \in Txns |-> [n \in Names |-> NoValue]]
    /\ pendIns = [t \in Txns |-> {}]
    /\ pendDel = [t \in Txns |-> {}]
    /\ op = [t \in Txns |-> NoValue]
    /\ objText = [t \in Txns |-> [n \in Names |-> NoValue]]

Next ==
    \/ NextDay
    \/ \E t \in Txns :
          \/ Begin(t) \/ Commit(t) \/ Abort(t)
          \/ \E n \in Names, c \in Comps : SetComponent(t, n, c)
          \/ \E n \in Names, k \in ExpandOffsets : ReIndex(t, n, k)
          \/ \E n \in Names : text(t, n)
          \/ WriteRecord(t) \/ ScanTimeRange(t) \/ DeleteTimeRange(t)
          \/ InsertTimeRanges(t) \/ DeadlockDetected(t)

Spec == Init /\ [][Next]_vars

-----------------------------------------------------------------------------
CallIds == Txns \X Nat \X Nat

Record == [comp : Comps, recmax : Nat \cup {NoValue}, by : CallIds, put : CallIds]

\* Every variable has its type; in particular every committed TIME_RANGE
\* row carries one of the five free/busy codes the index defines.
TypeOK ==
    /\ objects \in [Names -> Record \cup {NoValue}]
    /\ \A r \in timeRange : r.obj \in Names /\ r.fbtype \in 0..4
    /\ today \in 0..MaxDay
    /\ tstate \in [Txns -> {"idle", "open", "failed"}]
    /\ runs \in [Txns -> 0..MaxTxnRuns]
    /\ ops \in [Txns -> 0..MaxOps]
    /\ pendObj \in [Txns -> [Names -> Record \cup {NoValue}]]
    /\ \A t \in Txns : pendDel[t] \subseteq timeRange
    /\ \A t \in Txns : op[t] # NoValue => op[t].pc \in 1..Len(Steps(op[t].inserting))
    /\ objText \in [Txns -> [Names -> [comp : Comps, put : CallIds] \cup {NoValue}]]

\* The rows the committed index holds for object n.
IndexOf(n) == {r \in timeRange : r.obj = n}

(***************************************************************************)
(* Rebuild, never patch: whatever upserts of an object interleave, commit *)
(* or roll back, the committed TIME_RANGE rows of every stored object are *)
(* exactly the rows one updateDatabase call derived from the committed    *)
(* text, cut at the committed RECURRANCE_MAX, and written by the call    *)
(* that wrote that CALENDAR_OBJECT row: no stale, duplicated or missing   *)
(* instance, no second sentinel.                                          *)
(***************************************************************************)
IndexMatchesRecord ==
    \A n \in Names :
        objects[n] # NoValue =>
            IndexOf(n) = TimeRangeRows(objects[n].comp,
                                       ExpandedBelow(objects[n].comp, objects[n].recmax),
                                       n, objects[n].by)

(***************************************************************************)
(* A committed text is only ever replaced by a newer client text: when a *)
(* commit changes a stored CALENDAR_OBJECT row, the text it now holds is *)
(* the one it held before (a re-index) or one a setComponent of the      *)
(* committing transaction wrote; never an older text that a re-index     *)
(* read before a concurrent setComponent committed, and then wrote back. *)
(***************************************************************************)
SameTxn(id1, id2) == id1[1] = id2[1] /\ id1[2] = id2[2]

TextNeverReverts ==
    [][\A n \in Names :
          (objects[n] # NoValue /\ objects'[n] # objects[n]) =>
              \/ objects'[n].put = objects[n].put
              \/ SameTxn(objects'[n].put, objects'[n].by)]_objects

(***************************************************************************)
(* The statement-level upserts implement the atomic store: seen through *)
(* the committed tables, every step is either no change or one atomic   *)
(* Upsert of the objects a transaction wrote, whatever the interleaving *)
(* of the statements of concurrent transactions.                         *)
(***************************************************************************)
\* The refinement mapping: a resource of the abstract store is the
\* committed CALENDAR_OBJECT row of that name with the committed TIME_RANGE
\* rows whose CALENDAR_OBJECT_RESOURCE_ID is that object.
Resource(n) == [rec |-> objects[n], rows |-> IndexOf(n)]

Atomic == INSTANCE CalendarObjectAtomic
              WITH resources <- [n \in Names |-> Resource(n)]

AtomicUpserts == Atomic!Spec

(***************************************************************************)
(* What text() returns is what the database holds for the caller: while  *)
(* a transaction is open (no statement of it has failed) and no          *)
(* updateDatabase call is half done, an object's cached _objectText is  *)
(* the text a select in that transaction would return (spec section 6,  *)
(* readText).  text() fills the cache at sql.py:431-432 and updateDatabase *)
(* at sql.py:278; neither is ever refreshed from the database.          *)
(***************************************************************************)
CachedTextIsStored ==
    \A t \in Txns, n \in Names :
        (tstate[t] = "open" /\ op[t] = NoValue /\ objText[t][n] # NoValue) =>
            /\ VisibleObject(t, n) # NoValue
            /\ objText[t][n].put = VisibleObject(t, n).put

=============================================================================
