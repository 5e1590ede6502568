---------------------------- MODULE MCChessGame ----------------------------
(* ChessGame on a clock of a few milliseconds; the values are in the cfg. *)
EXTENDS ChessGame
=============================================================================
