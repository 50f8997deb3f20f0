----------------------- MODULE MCCalendarObjectStore -----------------------
(***************************************************************************)
(* Two transaction handles storing and re-indexing one calendar object.   *)
(* The components: a daily series with no end (sentinel row, per-user    *)
(* series transparency) and a bounded series that runs past the default *)
(* horizon, has an invalid override and an unlisted free/busy type.      *)
(***************************************************************************)
EXTENDS CalendarObjectStore

CONSTANTS u1

Daily ==
    [master |-> TRUE, recurring |-> TRUE, unbounded |-> TRUE, occ |-> {0, 1, 2},
     invalid |-> FALSE, fbtype |-> "BUSY", transp |-> FALSE, floating |-> FALSE,
     peruser |-> {[rid |-> NoValue, user |-> u1, transp |-> TRUE]}]

Bounded ==
    [master |-> TRUE, recurring |-> TRUE, unbounded |-> FALSE, occ |-> {1, 3},
     invalid |-> TRUE, fbtype |-> "X-UNLISTED", transp |-> TRUE, floating |-> TRUE,
     peruser |-> {}]

MCComps == {Daily, Bounded}

=============================================================================
