---------------------------- MODULE MCLiveBoard ----------------------------
(* LiveBoard with one console that can have two reads under way and a board *)
(* with one.                                                                *)
EXTENDS LiveBoard

CONSTANTS c1, b1, l1, l2

TwoForConsole == [p \in {c1, b1} |-> IF p = c1 THEN {l1, l2} ELSE {l1}]
=============================================================================
