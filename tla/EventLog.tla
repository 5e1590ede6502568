------------------------------ MODULE EventLog ------------------------------
(***************************************************************************)
(* What a game's log promises to its readers, however the appends are      *)
(* retried, duplicated or raced: events are only ever added at the end,    *)
(* one at a time, each under an id of its own and from a source that may   *)
(* append it.                                                              *)
(***************************************************************************)
EXTENDS GameEvents, Sequences, Integers

VARIABLE log

Holds(id) == \E i \in 1 .. Len(log) : log[i].id = id

Init == log = << >>

Add(e) ==
    /\ IsWellFormed(e)
    /\ IsAuthorized(e)
    /\ ~Holds(e.id)
    /\ log' = Append(log, e)

Next == \E e \in Events : Add(e)

Spec == Init /\ [][Next]_log
=============================================================================
