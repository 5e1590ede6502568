--------------------------- MODULE ChessOutcome ---------------------------
(***************************************************************************)
(* What a chess game promises, whatever its clock and its scoresheet do:   *)
(* White and Black alternate; the game is decided once, by a mate, a draw, *)
(* a flag or a resignation; the loser is the side that was mated, that ran *)
(* out of time or that resigned; and nothing happens to it afterwards.     *)
(***************************************************************************)
EXTENDS Integers

VARIABLES
    plies,      \* number of half-moves played
    ending,     \* "none" while undecided, else how the game was decided
    resigner,   \* the player who resigned the undecided game, or "none"
    out,        \* the sides that have no time left
    verdict     \* "*" while undecided, else the PGN result

vars == <<plies, ending, resigner, out, verdict>>

Side == IF plies % 2 = 0 THEN "w" ELSE "b"

Other(c) == IF c = "w" THEN "b" ELSE "w"

WinOf(c) == IF c = "w" THEN "1-0" ELSE "0-1"

Init ==
    /\ plies = 0
    /\ ending = "none"
    /\ resigner = "none"
    /\ out = {}
    /\ verdict = "*"

\* A half-move: the game goes on, the mover mates, or the game is drawn.
Play ==
    /\ ending = "none"
    /\ plies' = plies + 1
    /\ \/ ending' = "none" /\ verdict' = "*"
       \/ ending' = "checkmate" /\ verdict' = WinOf(Side)
       \/ ending' \in {"stalemate", "draw"} /\ verdict' = "1/2-1/2"
    /\ UNCHANGED <<resigner, out>>

\* The side to move, and only that side, runs out of time, and loses.
FlagFalls ==
    /\ ending = "none"
    /\ out' = {Side}
    /\ ending' = "flag"
    /\ verdict' = WinOf(Other(Side))
    /\ UNCHANGED <<plies, resigner>>

\* Either player may resign, on either player's turn, and loses.
Resign(c) ==
    /\ ending = "none"
    /\ resigner' = c
    /\ ending' = "resignation"
    /\ verdict' = WinOf(Other(c))
    /\ UNCHANGED <<plies, out>>

Next == Play \/ FlagFalls \/ \E c \in {"w", "b"} : Resign(c)

Spec == Init /\ [][Next]_vars
=============================================================================
