-------------------------- MODULE CalendarIndexing --------------------------
(***************************************************************************)
(* The pure part of CalendarObject.updateDatabase in                       *)
(* txdav/caldav/datastore/sql.py: the free/busy code tables, the choice   *)
(* of expansion horizon, the recurrence expansion it asks for, and the    *)
(* TIME_RANGE rows (with their TRANSPARENCY rows) it derives from the     *)
(* expanded instances, including the sentinel row of an unbounded series. *)
(*                                                                         *)
(* Time is a whole number of days.  FarFuture stands for the instant      *)
(* 2100-01-01 00:00 UTC that the code uses both as the "index everything" *)
(* horizon and as the start of the sentinel row.                          *)
(***************************************************************************)
EXTENDS Integers, FiniteSets, TLC

CONSTANTS
    FarFuture,            \* datetime(2100, 1, 1, 0, 0, 0, tzinfo=utc)
    DefaultExpansion,     \* default_future_expansion_duration (365 days)
    MaximumExpansion,     \* maximum_future_expansion_duration (5 * 365 days)
    Users,                \* user ids that may carry per-user transparency
    NoValue               \* Python None

ASSUME /\ DefaultExpansion \in Nat /\ MaximumExpansion \in Nat
       /\ DefaultExpansion <= MaximumExpansion
       /\ FarFuture \in Nat

(***************************************************************************)
(* A parsed calendar component, as far as updateDatabase looks at it.     *)
(*   master    : masterComponent() is not None                            *)
(*   recurring : isRecurring()                                             *)
(*   unbounded : isRecurringUnbounded(); the series goes on past every    *)
(*               horizon, beyond the listed occurrences                   *)
(*   occ       : start days of the occurrences (overrides included)       *)
(*   invalid   : an overridden instance does not match the series, so    *)
(*               expansion raises InvalidOverriddenInstanceError unless  *)
(*               invalid instances are ignored                            *)
(*   fbtype    : what getFBType() returns (may be a symbol not in the    *)
(*               table)                                                   *)
(*   transp    : the TRANSP property is TRANSPARENT                       *)
(*   floating  : the start carries no time zone                           *)
(*   peruser   : per-user TRANSP overrides, as [rid, user, transp]; rid  *)
(*               NoValue is the series-level override                     *)
(***************************************************************************)

FBSymbols == {"UNKNOWN", "FREE", "BUSY", "BUSY-UNAVAILABLE", "BUSY-TENTATIVE"}

\* icalfbtype_to_indexfbtype: the symbolic free/busy type to its index code.
icalfbtype_to_indexfbtype ==
    ("UNKNOWN" :> 0) @@ ("FREE" :> 1) @@ ("BUSY" :> 2)
        @@ ("BUSY-UNAVAILABLE" :> 3) @@ ("BUSY-TENTATIVE" :> 4)

\* indexfbtype_to_icalfbtype: an index code to its one-letter display form.
indexfbtype_to_icalfbtype ==
    (0 :> "?") @@ (1 :> "F") @@ (2 :> "B") @@ (3 :> "U") @@ (4 :> "T")

\* A variant of IndexFBType without the default: .get(fbtype) is None
\* for a symbol the table does not know.
IndexFBTypeUnmapped(sym) ==
    IF sym \in DOMAIN icalfbtype_to_indexfbtype
    THEN icalfbtype_to_indexfbtype[sym] ELSE NoValue

\* icalfbtype_to_indexfbtype.get(fbtype, icalfbtype_to_indexfbtype["FREE"]):
\* a symbol the table does not know is indexed as FREE.
IndexFBType(sym) ==
    IF sym \in DOMAIN icalfbtype_to_indexfbtype
    THEN icalfbtype_to_indexfbtype[sym]
    ELSE icalfbtype_to_indexfbtype["FREE"]

IndexesEverything(c) == ~c.master \/ (~c.recurring /\ ~c.unbounded)

ExpansionHorizon(c, today, expand_until) ==
    IF IndexesEverything(c) THEN FarFuture
    ELSE IF expand_until # NoValue THEN expand_until
    ELSE today + DefaultExpansion

\* The check that raises IndexedSearchException; it is only made on the
\* branch that does not index everything.
HorizonTooFar(h, today) == h > today + MaximumExpansion

HorizonExceeded(c, today, expand_until) ==
    /\ ~IndexesEverything(c)
    /\ HorizonTooFar(ExpansionHorizon(c, today, expand_until), today)

(***************************************************************************)
(* component.expandTimeRanges(limit, ignoreInvalidInstances): the         *)
(* instances that start before the limit, and the limit itself as        *)
(* instances.limit when the expansion was cut short by it (None when the  *)
(* whole set was expanded).  Supplied by the iCalendar library.          *)
(***************************************************************************)
ExpandTimeRanges(c, limit, ignoreInvalid) ==
    IF c.invalid /\ ~ignoreInvalid
    THEN [ok |-> FALSE, instances |-> {}, limit |-> NoValue]
    ELSE [ok |-> TRUE,
          instances |-> {t \in c.occ : t < limit},
          limit |-> IF c.unbounded \/ \E t \in c.occ : t >= limit
                    THEN limit ELSE NoValue]

\* A variant of RecurrenceMax that never records the expansion limit.
RecurrenceMaxAlwaysNone(instances) == NoValue

\* normalizeForIndex(instances.limit) if instances.limit else None: the
\* RECURRANCE_MAX column.
RecurrenceMax(instances) ==
    IF instances.limit # NoValue THEN instances.limit ELSE NoValue

\* component.perUserTransparency(rid): the (user, transparent) pairs that
\* apply to the instance with that recurrence id.
PerUserTransparency(c, rid) ==
    {<<p.user, p.transp>> : p \in {q \in c.peruser : q.rid = rid}}

(***************************************************************************)
(* The rows the loop over the instances inserts into TIME_RANGE (and      *)
(* TRANSPARENCY, folded into the row as peruser), plus the sentinel row   *)
(* for an unbounded series.  Every row carries the object it belongs to   *)
(* and the upsert that wrote it (by), which stands for its INSTANCE_ID.   *)
(***************************************************************************)
InstanceRow(c, name, start, by) ==
    [obj |-> name, start |-> start, floating |-> c.floating,
     fbtype |-> IndexFBType(c.fbtype), transparent |-> c.transp,
     peruser |-> PerUserTransparency(c, start), by |-> by]

SentinelRow(c, name, by) ==
    [obj |-> name, start |-> FarFuture, floating |-> FALSE,
     fbtype |-> icalfbtype_to_indexfbtype["UNKNOWN"], transparent |-> TRUE,
     peruser |-> PerUserTransparency(c, NoValue), by |-> by]

NeedsSentinel(c) == c.unbounded

TimeRangeRows(c, instances, name, by) ==
    {InstanceRow(c, name, s, by) : s \in instances.instances}
    \cup (IF NeedsSentinel(c) THEN {SentinelRow(c, name, by)} ELSE {})

(***************************************************************************)
(* The first half of updateDatabase, before any SQL runs: choose the      *)
(* horizon (raising IndexedSearchException past the cap), expand, and on  *)
(* InvalidOverriddenInstanceError expand again ignoring invalid instances *)
(* when the transaction is migrating, or re-raise.                        *)
(***************************************************************************)
ExpandForIndex(c, today, expand_until, reCreate, migrating) ==
    LET h     == ExpansionHorizon(c, today, expand_until)
        first == ExpandTimeRanges(c, h, reCreate)
    IN  IF HorizonExceeded(c, today, expand_until)
        THEN [status |-> "IndexedSearchException", instances |-> first]
        ELSE IF first.ok
        THEN [status |-> "ok", instances |-> first]
        ELSE IF migrating
        THEN [status |-> "ok", instances |-> ExpandTimeRanges(c, h, TRUE)]
        ELSE [status |-> "InvalidOverriddenInstanceError", instances |-> first]

\* The instances a stored RECURRANCE_MAX says were expanded: all of them
\* when it is None, else those that start before it.
ExpandedBelow(c, recmax) ==
    [instances |-> {s \in c.occ : recmax = NoValue \/ s < recmax}, limit |-> recmax]

=============================================================================
