---------------------------- MODULE ChessMatch ----------------------------
(***************************************************************************)
(* One chess game: chess/chess-match.ts (class ChessMatch), as operators   *)
(* on a match record that holds the clock, the scoresheet and the ending.  *)
(*                                                                         *)
(* The rules of chess are chess.js's, outside the repository.  What the    *)
(* match sees of them is kept: whether a move is accepted, whose turn it   *)
(* is, and whether the position is a checkmate, a stalemate or a draw.     *)
(***************************************************************************)
EXTENDS ChessClock, Sequences

\* What chess.js says of a position: `open', or one of the three endings.
BoardStatus == {"open", "checkmate", "stalemate", "draw"}

\* What an attempted move gives: chess.js throws, or the new position's status.
Attempt == BoardStatus \cup {"illegal"}

\* The clock reading recorded in an untimed game: clockMsAfterMove undefined.
NoTime == -1

MoveRecord == [color : Color, clockMs : Nat \cup {NoTime}, number : Nat]

EndReason == {"none", "checkmate", "stalemate", "draw", "resignation", "flag"}

Verdict == {"*", "1-0", "0-1", "1/2-1/2"}

MatchType ==
    [clock      : ClockType,
     board      : BoardStatus,
     moves      : Seq(MoveRecord),
     endReason  : EndReason,
     resignedBy : Color \cup {NoSide}]

NewMatch(timed) ==
    [clock      |-> IF timed THEN NewClock ELSE NoClock,
     board      |-> "open",
     moves      |-> << >>,
     endReason  |-> "none",
     resignedBy |-> NoSide]

MatchStart(m) == [m EXCEPT !.clock = ClockStart(@, "w")]

\* chess.js's side to move.
Turn(m) == IF Len(m.moves) % 2 = 0 THEN "w" ELSE "b"

IsOver(m) == m.endReason # "none" \/ m.board # "open"

\* endReasonValue(): the recorded reason, or else the one the position shows.
EndReasonValue(m) ==
    IF m.endReason # "none" THEN m.endReason
    ELSE IF m.board # "open" THEN m.board
    ELSE "none"

WinFor(c) == IF c = "w" THEN "1-0" ELSE "0-1"

\* A faulty result: a resignation is scored for the player who resigned.
ResultForResigner(m) ==
    LET reason == EndReasonValue(m)
    IN  CASE reason = "flag" ->
                 (IF m.clock.flagged = NoSide THEN "*" ELSE WinFor(Opponent(m.clock.flagged)))
          [] reason = "resignation" -> WinFor(IF m.resignedBy = "b" THEN "b" ELSE "w")
          [] reason = "checkmate"   -> WinFor(Opponent(Turn(m)))
          [] reason \in {"stalemate", "draw"} -> "1/2-1/2"
          [] OTHER -> "*"

\* result()
Result(m) ==
    LET reason == EndReasonValue(m)
    IN  CASE reason = "flag" ->
                 (IF m.clock.flagged = NoSide THEN "*" ELSE WinFor(Opponent(m.clock.flagged)))
          [] reason = "resignation" -> WinFor(IF m.resignedBy = "w" THEN "b" ELSE "w")
          [] reason = "checkmate"   -> WinFor(Opponent(Turn(m)))
          [] reason \in {"stalemate", "draw"} -> "1/2-1/2"
          [] OTHER -> "*"

\* A faulty tick: the fallen flag is not recorded as the end of the game.
MatchTickForgetsFlag(m, delta) ==
    IF IsOver(m) THEN m ELSE [m EXCEPT !.clock = ClockTick(@, delta)]

MatchTick(m, delta) ==
    IF IsOver(m)
    THEN m
    ELSE LET clock == ClockTick(m.clock, delta)
         IN  [m EXCEPT !.clock = clock,
                       !.endReason = IF IsFlagged(clock) THEN "flag" ELSE @]

\* A faulty reading: the two arms of the colour test swapped.
ClockReadingOfOpponent(k, mover) ==
    IF k.status = "none" THEN NoTime ELSE k.ms[Opponent(mover)]

\* The clock reading written on the scoresheet for the side that just moved.
ClockReading(k, mover) == IF k.status = "none" THEN NoTime ELSE k.ms[mover]

\* A faulty ending: a move that ends the game leaves the clock running.
ClockAfterMoveNeverPaused(k, attempt) == ClockSwitchTurn(k)

\* The clock passes to the other side, and stops if the move ended the game.
ClockAfterMove(k, attempt) ==
    IF attempt = "open" THEN ClockSwitchTurn(k) ELSE ClockPause(ClockSwitchTurn(k))

\* The line a move adds to the scoresheet.
SheetEntry(m, clock) ==
    [color   |-> Turn(m),
     clockMs |-> ClockReading(clock, Turn(m)),
     number  |-> (Len(m.moves) \div 2) + 1]

\* move(): `attempt' is what chess.js makes of it.
MatchMove(m, attempt) ==
    IF IsOver(m) \/ attempt = "illegal"
    THEN m
    ELSE LET clock == ClockAfterMove(m.clock, attempt)
         IN  [m EXCEPT !.clock     = clock,
                       !.board     = attempt,
                       !.endReason = IF attempt = "open" THEN @ ELSE attempt,
                       !.moves     = Append(@, SheetEntry(m, clock))]

MatchResign(m, color) ==
    IF IsOver(m)
    THEN m
    ELSE [m EXCEPT !.endReason  = "resignation",
                   !.resignedBy = color,
                   !.clock      = ClockPause(@)]
=============================================================================
