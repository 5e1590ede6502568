-------------------------- MODULE MCEventTimeline --------------------------
(* EventTimeline with a handful of events: two that may be appended, one    *)
(* under an id already in use, one from the wrong source, one without type. *)
EXTENDS EventTimeline, TLC

CONSTANTS r1, r2, r3

Event(id, type, source) == [id |-> id, type |-> type, source |-> source]

AllEvents ==
    {Event("e1", "score", "scorekeeper"),
     Event("e1", "status", "timekeeper"),
     Event("e2", "score", "consensus"),
     Event("e3", "correction", "consensus"),
     Event("e4", NoType, "judge")}

\* One event and its duplicates are enough for the race.
OneEvent == {Event("e1", "score", "scorekeeper")}

RequestSymmetry == Permutations({r1, r2, r3})
=============================================================================
