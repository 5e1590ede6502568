----------------------------- MODULE ChessGame -----------------------------
(***************************************************************************)
(* A live chess game as its page drives it: the players move and resign,   *)
(* time passes, and an interval timer reports the time passed since its    *)
(* last run to the match (chess/chess-play-page.component.ts,              *)
(* startTicking).  The timer reports in steps of up to TickMs, so a move   *)
(* can fall between two reports.                                           *)
(***************************************************************************)
EXTENDS ChessMatch

CONSTANTS
    TickMs,       \* the longest time between two runs of the interval
    MaxPlies,     \* bound: half-moves in a game
    MaxElapsed    \* bound: milliseconds of play

ASSUME HostAssumption ==
    /\ TickMs \in Nat \ {0}
    /\ MaxPlies \in Nat
    /\ MaxElapsed \in Nat

VARIABLES
    match,      \* the ChessMatch
    unticked,   \* performance.now() - lastTickAt
    wall,       \* history: milliseconds each side really spent on its turns
    gaveUp      \* history: who tapped Resign while the game was undecided

vars == <<match, unticked, wall, gaveUp>>

Timed == match.clock.status # "none"

\* load(), live branch: a new match, its clock started, the interval armed.
Init ==
    /\ \E timed \in BOOLEAN : match = MatchStart(NewMatch(timed))
    /\ unticked = 0
    /\ wall = [c \in Color |-> 0]
    /\ gaveUp = NoSide

\* A millisecond passes on the turn of the side to move.
Elapse ==
    /\ ~IsOver(match)
    /\ unticked < TickMs
    /\ wall["w"] + wall["b"] < MaxElapsed
    /\ unticked' = unticked + 1
    /\ wall' = [wall EXCEPT ![Turn(match)] = @ + 1]
    /\ UNCHANGED <<match, gaveUp>>

\* The interval runs; finalize() clears it once the match is over.
Tick ==
    /\ ~IsOver(match)
    /\ unticked > 0
    /\ match' = MatchTick(match, unticked)
    /\ unticked' = 0
    /\ UNCHANGED <<wall, gaveUp>>

\* onBoardMoved(), or the engine's reply: `lastTickAt' is left alone.
Move ==
    /\ Len(match.moves) < MaxPlies
    /\ \E attempt \in Attempt : match' = MatchMove(match, attempt)
    /\ UNCHANGED <<unticked, wall, gaveUp>>

\* Either player's Resign button; gaveUp keeps who tapped it, not what match made of it.
Resign ==
    /\ \E c \in Color :
          /\ match' = MatchResign(match, c)
          /\ gaveUp' = IF IsOver(match) THEN gaveUp ELSE c
    /\ UNCHANGED <<unticked, wall>>

Next == Elapse \/ Tick \/ Move \/ Resign

Spec == Init /\ [][Next]_vars

\* Time passes and the interval keeps running; nobody has to move or resign.
FairSpec == Spec /\ WF_vars(Elapse) /\ WF_vars(Tick)

-----------------------------------------------------------------------------
\* The types of the match, the timer and the history.
TypeOK ==
    /\ match \in MatchType
    /\ unticked \in 0 .. TickMs
    /\ wall \in [Color -> Nat]
    /\ gaveUp \in Color \cup {NoSide}

MovesBy(c) ==
    IF c = "w" THEN (Len(match.moves) + 1) \div 2 ELSE Len(match.moves) \div 2

\* The milliseconds taken off a side's clock so far.
Charged(c) == BaseMs + IncrementMs * MovesBy(c) - match.clock.ms[c]

\* The clock and the board agree on whose turn it is: the running or stopped
\* clock is that of the side chess.js says is to move, and only that side's
\* flag can have fallen (chess-clock.ts `active' against chess.js `turn()').
ClockFollowsBoard ==
    Timed =>
        /\ match.clock.active = Turn(match)
        /\ IsFlagged(match.clock) =>
              /\ match.clock.flagged = Turn(match)
              /\ match.clock.ms[Turn(match)] = 0

\* However the game ended, its clock is not left running, and a fallen flag
\* is the reason of the ending it caused (chess-match.ts tick, move, resign).
ClockStopsAtEnd ==
    /\ IsOver(match) => match.clock.status # "running"
    /\ IsFlagged(match.clock) <=> match.endReason = "flag"
    /\ match.clock.status = "paused" => IsOver(match)

\* A side is charged for its own time and, at most, for one timer interval of
\* each opponent's move: lastTickAt is not reset by a move, so the part of the
\* interval before it is charged to the side that moves next.
ChargedForOwnTime ==
    Timed => \A c \in Color :
        Charged(c) <= wall[c] + TickMs * MovesBy(Opponent(c))

\* The delay allowances granted so far: one each to start with, one per move.
Allowances == DelayMs * (Len(match.moves) + 2)

\* No time is charged twice and, but for the delay allowances, none
\* is lost, unless a flag cut the last report short.
NoTimeLost ==
    Timed =>
        LET charged == Charged("w") + Charged("b") + unticked
            spent   == wall["w"] + wall["b"]
        IN  /\ charged <= spent
            /\ IsFlagged(match.clock) \/ spent <= charged + Allowances

\* The scoresheet reads as a scoresheet: colours alternate from White, moves
\* are numbered in pairs, a side's reading grows from one of its moves to the
\* next by no more than one increment (the %clk annotations of the PGN), and the
\* last reading is still what the clock of the side not to move shows.
ScoresheetReads ==
    LET sheet == match.moves
    IN  /\ \A i \in 1 .. Len(sheet) :
              /\ sheet[i].color = (IF i % 2 = 1 THEN "w" ELSE "b")
              /\ sheet[i].number = (i + 1) \div 2
              /\ i + 2 <= Len(sheet) =>
                    sheet[i + 2].clockMs <= sheet[i].clockMs + IncrementMs
        /\ Timed /\ sheet # << >> =>
              sheet[Len(sheet)].clockMs = match.clock.ms[Opponent(Turn(match))]

\* A timed game is never left undecided: when the players stop moving, the flag
\* of the side to move falls (flag-fall-ends-game), as long as time is reported.
TimedGameIsDecided == Timed ~> IsOver(match)

\* The sides whose clock shows no time left.
OutOfTime == {c \in Color : Timed /\ match.clock.ms[c] = 0}

Outcome == INSTANCE ChessOutcome
             WITH plies <- Len(match.moves), ending <- EndReasonValue(match),
                  resigner <- gaveUp, out <- OutOfTime, verdict <- Result(match)

\* The game keeps the promise of ChessOutcome: it is decided once, and lost by
\* the side that was mated, by the side to move when its time ran out, or by the
\* player who tapped Resign (result, tick, move, resign of chess-match.ts).
OutcomeDecidedOnce == Outcome!Spec
=============================================================================
