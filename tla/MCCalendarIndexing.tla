------------------------- MODULE MCCalendarIndexing -------------------------
(***************************************************************************)
(* Checks the pure indexing operators of CalendarIndexing over every      *)
(* component shape the bounds allow: each state is one call of            *)
(* updateDatabase's indexing half (component, today, expand_until,        *)
(* reCreate, migrating), and Next moves to any other call.                *)
(***************************************************************************)
EXTENDS CalendarIndexing

CONSTANTS
    Days,        \* the days "today" may be
    Times,       \* the start days occurrences may have
    FBChoices    \* what getFBType() may return

VARIABLES comp, today, expandUntil, reCreate, migrating

vars == <<comp, today, expandUntil, reCreate, migrating>>

\* Component shapes a parsed iCalendar object can have: an unbounded series
\* has a master RRULE; without a master there is a set of overridden
\* instances (each with a RECURRENCE-ID, so isRecurring holds); a single
\* non-recurring event has one occurrence.
Components ==
    { c \in [master : BOOLEAN, recurring : BOOLEAN, unbounded : BOOLEAN,
             occ : SUBSET Times, invalid : BOOLEAN, fbtype : FBChoices,
             transp : {FALSE}, floating : {FALSE},
             peruser : {{}}] :
        /\ c.unbounded => c.master /\ c.recurring
        /\ ~c.master => c.recurring /\ c.occ # {}
        /\ ~c.recurring => Cardinality(c.occ) = 1 /\ ~c.invalid
        /\ c.invalid => c.recurring }

ExpandUntils == {NoValue} \cup {d + k : d \in Days, k \in 0..MaximumExpansion + 1}

Input ==
    /\ comp \in Components
    /\ today \in Days
    /\ expandUntil \in {NoValue} \cup {today + k : k \in 0..MaximumExpansion + 1}
    /\ reCreate \in BOOLEAN
    /\ migrating \in BOOLEAN

Init == Input

\* The next call of updateDatabase differs from this one in one argument.
NewComponent ==
    /\ comp' \in Components
    /\ UNCHANGED <<today, expandUntil, reCreate, migrating>>

NewDay ==
    /\ today' \in Days
    /\ expandUntil' \in {NoValue} \cup {today' + k : k \in 0..MaximumExpansion + 1}
    /\ UNCHANGED <<comp, reCreate, migrating>>

NewFlags ==
    /\ reCreate' \in BOOLEAN
    /\ migrating' \in BOOLEAN
    /\ UNCHANGED <<comp, today, expandUntil>>

Next == NewComponent \/ NewDay \/ NewFlags

Spec == Init /\ [][Next]_vars

Outcome == ExpandForIndex(comp, today, expandUntil, reCreate, migrating)
Rows    == TimeRangeRows(comp, Outcome.instances, "obj", "upsert")
RecMax  == RecurrenceMax(Outcome.instances)

(***************************************************************************)
(* The index written by a successful updateDatabase answers range queries *)
(* correctly below RECURRANCE_MAX: a day before RECURRANCE_MAX (every day *)
(* when it is None) starts a TIME_RANGE row exactly when the component    *)
(* has an occurrence that day, and an unbounded series has exactly one   *)
(* sentinel row, with free/busy code UNKNOWN, and other series none.      *)
(***************************************************************************)
IndexDescribesSeries ==
    Outcome.status = "ok" =>
        /\ \A t \in Times :
              (RecMax = NoValue \/ t < RecMax) =>
                  ((\E r \in Rows : r.start = t) <=> t \in comp.occ)
        /\ LET sentinels == {r \in Rows : r.start = FarFuture /\ r.fbtype = 0}
           IN  IF comp.unbounded THEN Cardinality(sentinels) = 1
                                 ELSE sentinels = {}

(***************************************************************************)
(* The horizon policy of spec section 4.2, stated in the spec's terms and *)
(* not through the code's condition: a component that has a master and  *)
(* recurs, boundedly or not ("bounded-but-large or unbounded"), is       *)
(* expanded against a horizon, so it never gets a non-sentinel row at or *)
(* past today + maximum_future_expansion_duration; a caller asking for   *)
(* exactly that horizon is served, and one asking for a day more gets    *)
(* IndexedSearchException (section 7).  The comment at sql.py:253-255    *)
(* says a bounded series is indexed in full; code that followed it       *)
(* (IndexesEverythingWhenBounded) breaks this property.                  *)
(***************************************************************************)
ExpandedAgainstHorizon == comp.master /\ (comp.recurring \/ comp.unbounded)

LastOccurrence(S) == CHOOSE t \in S : \A u \in S : u <= t

RecurMaxIsLastInstance ==
    (/\ Outcome.status = "ok" /\ comp.master /\ comp.recurring
     /\ ~comp.unbounded /\ comp.occ # {}
     /\ \A t \in comp.occ : t < today + DefaultExpansion)
        => RecMax = LastOccurrence(comp.occ)

=============================================================================
