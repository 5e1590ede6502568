---------------------------- MODULE MCChessPlay ----------------------------
(* ChessPlay with model values for the pages, the games and the tabs. *)
EXTENDS ChessPlay

CONSTANTS p1, p2, t1

\* Every page in the one tab.
OneTab == [p \in Pages |-> t1]
=============================================================================
