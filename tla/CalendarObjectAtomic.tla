------------------------ MODULE CalendarObjectAtomic ------------------------
(***************************************************************************)
(* What the object persistence component promises (spec 4.4): a stored   *)
(* calendar object's record and its time-range index change together,   *)
(* in one step, and the index of an object is always rebuilt from that  *)
(* object's record alone.  Several objects may be upserted in one step  *)
(* (one transaction), and no other object's rows are touched.           *)
(*                                                                         *)
(* A record is [comp, recmax, by, put]: the stored component, its        *)
(* RECURRANCE_MAX, the call that wrote the row and the client call whose *)
(* text it holds.  The index rows of a record are those of the instances *)
(* its RECURRANCE_MAX says were expanded.                                *)
(***************************************************************************)
EXTENDS CalendarIndexing

CONSTANTS
    Names,     \* calendar object resource names
    Comps      \* components a client may store

\* Each resource as the spec sees it: its record (or NoValue) together
\* with the index rows that belong to it.
VARIABLE resources

StoredIndex(n, rec) ==
    TimeRangeRows(rec.comp, ExpandedBelow(rec.comp, rec.recmax), n, rec.by)

Init == resources = [n \in Names |-> [rec |-> NoValue, rows |-> {}]]

\* The resources in N get new records, each with exactly the rows its
\* new record describes; every other resource is left as it was.
Upsert(N) ==
    /\ DOMAIN resources' = Names
    /\ \A n \in N :
          /\ resources'[n].rec # NoValue
          /\ resources'[n].rec.comp \in Comps
          /\ resources'[n].rows = StoredIndex(n, resources'[n].rec)
    /\ \A n \in Names \ N : resources'[n] = resources[n]

Next == \E N \in SUBSET Names : N # {} /\ Upsert(N)

Spec == Init /\ [][Next]_resources

=============================================================================
