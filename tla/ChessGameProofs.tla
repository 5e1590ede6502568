-------------------------- MODULE ChessGameProofs --------------------------
(***************************************************************************)
(* Proofs about ChessGame, for every time control, timer interval and      *)
(* bound.                                                                  *)
(***************************************************************************)
EXTENDS ChessGame, ChessMatchProofs

LEMMA InitType == Init => TypeOK
<1> SUFFICES ASSUME Init PROVE TypeOK
  OBVIOUS
<1>1. match \in MatchType
  BY NewMatchType DEF Init
<1> QED
  BY <1>1, HostAssumption DEF Init, TypeOK

LEMMA NextType == TypeOK /\ [Next]_vars => TypeOK'
<1> SUFFICES ASSUME TypeOK, [Next]_vars PROVE TypeOK'
  OBVIOUS
<1> USE DEF TypeOK
<1>1. Turn(match) \in Color
  BY DEF Turn, Color
<1>2. CASE Elapse
  <2>1. unticked + 1 \in 0 .. TickMs
    BY <1>2, HostAssumption DEF Elapse
  <2>2. wall' \in [Color -> Nat]
    BY <1>1, <1>2 DEF Elapse
  <2> QED
    BY <1>2, <2>1, <2>2 DEF Elapse
<1>3. CASE Tick
  BY <1>3, MatchTickType, HostAssumption DEF Tick
<1>4. CASE Move
  BY <1>4, MatchMoveType DEF Move
<1>5. CASE Resign
  BY <1>5, MatchResignType DEF Resign
<1>6. CASE UNCHANGED vars
  BY <1>6 DEF vars
<1> QED
  BY <1>2, <1>3, <1>4, <1>5, <1>6 DEF Next

\* The match, the timer and the history keep their types.
THEOREM TypeCorrect == Spec => []TypeOK
<1> QED
  BY InitType, NextType, PTL DEF Spec

-----------------------------------------------------------------------------
(* What ClockFollowsBoard and ClockStopsAtEnd rest on: the clock of a live  *)
(* game has been started, and the recorded ending is that of the position.  *)
EndingRecorded ==
    /\ match.clock.status # "idle"
    /\ match.board # "open" => match.endReason = match.board
    /\ match.endReason \in {"checkmate", "stalemate", "draw"} => match.board = match.endReason

ClockInv == ClockFollowsBoard /\ ClockStopsAtEnd /\ EndingRecorded

LEMMA InitClockInv == Init => ClockInv
<1> SUFFICES ASSUME Init PROVE ClockInv
  OBVIOUS
<1>1. PICK timed \in BOOLEAN : match = MatchStart(NewMatch(timed))
  BY DEF Init
<1>2. /\ match.board = "open" /\ match.endReason = "none" /\ match.moves = << >>
      /\ match.clock = IF timed THEN ClockStart(NewClock, "w") ELSE ClockStart(NoClock, "w")
  BY <1>1 DEF MatchStart, NewMatch
<1>3. /\ ClockStart(NewClock, "w").active = "w"
      /\ ClockStart(NewClock, "w").status = "running"
      /\ ClockStart(NoClock, "w").status = "none"
  BY DEF ClockStart, NewClock, NoClock
<1>4. Turn(match) = "w"
  BY <1>2 DEF Turn
<1> QED
  BY <1>2, <1>3, <1>4 DEF ClockInv, ClockFollowsBoard, ClockStopsAtEnd, EndingRecorded,
                          IsOver, IsFlagged, Timed

\* In a live game the clock is absent, or running for the side to move.
LEMMA LiveClock ==
    ASSUME TypeOK, ClockInv, ~IsOver(match)
    PROVE  /\ match.endReason = "none" /\ match.board = "open"
           /\ Timed => match.clock.status = "running" /\ match.clock.active = Turn(match)
BY DEF TypeOK, MatchType, ClockType, ClockStatus, ClockInv, ClockFollowsBoard,
       ClockStopsAtEnd, EndingRecorded, IsOver, IsFlagged, Timed

\* A move or a resignation that changes the match is made in a live game.
LEMMA MoveCases ==
    ASSUME Move
    PROVE  \/ match' = match
           \/ ~IsOver(match) /\ \E attempt \in BoardStatus : match' = MatchMove(match, attempt)
BY DEF Move, Attempt, MatchMove

LEMMA ResignCases ==
    ASSUME Resign
    PROVE  \/ match' = match
           \/ ~IsOver(match) /\ \E c \in Color : match' = MatchResign(match, c)
BY DEF Resign, MatchResign

LEMMA NextClockInv == TypeOK /\ ClockInv /\ [Next]_vars => ClockInv'
<1> SUFFICES ASSUME TypeOK, ClockInv, [Next]_vars PROVE ClockInv'
  OBVIOUS
<1> USE DEF ClockFollowsBoard, ClockStopsAtEnd, EndingRecorded, IsFlagged
<1>0. match \in MatchType /\ match.clock \in ClockType /\ Turn(match) \in Color
  BY TurnIsColor DEF TypeOK, MatchType
<1>1. ASSUME match' = match PROVE ClockInv'
  BY <1>1 DEF ClockInv, Turn, IsOver, Timed
<1>2. CASE Tick
  <2>1. ~IsOver(match) /\ unticked \in Nat /\ unticked > 0 /\ match' = MatchTick(match, unticked)
    BY <1>2, HostAssumption DEF Tick, TypeOK
  <2>2. /\ match'.clock = ClockTick(match.clock, unticked)
        /\ match'.board = match.board /\ Turn(match') = Turn(match)
        /\ match'.endReason = IF IsFlagged(match'.clock) THEN "flag" ELSE match.endReason
    BY <1>0, <2>1, MatchTickFacts
  <2>3. match.endReason = "none" /\ match.board = "open"
    BY <2>1, LiveClock
  <2>4. CASE match.clock.status = "none"
    <3>1. match'.clock = match.clock
      BY <2>2, <2>4, UntimedClock
    <3> QED
      BY <2>2, <2>3, <2>4, <3>1 DEF ClockInv, IsOver, Timed
  <2>5. CASE match.clock.status # "none"
    <3>1. match.clock.status = "running" /\ match.clock.active = Turn(match)
      BY <2>1, <2>5, LiveClock DEF Timed
    <3>2. /\ match'.clock.active = Turn(match)
          /\ \/ /\ match'.clock.status = "flagged"
                /\ match'.clock.flagged = Turn(match)
                /\ match'.clock.ms[Turn(match)] = 0
             \/ match'.clock.status = "running"
      BY <1>0, <2>1, <2>2, <3>1, ClockTickFacts
    <3> QED
      BY <2>2, <2>3, <3>2 DEF ClockInv, IsOver, Timed
  <2> QED
    BY <2>4, <2>5
<1>3. CASE Move
  <2> SUFFICES ASSUME ~IsOver(match), NEW attempt \in BoardStatus,
                      match' = MatchMove(match, attempt)
               PROVE  ClockInv'
    BY <1>1, <1>3, MoveCases
  <2>1. /\ match'.clock = ClockAfterMove(match.clock, attempt)
        /\ match'.board = attempt /\ Turn(match') = Opponent(Turn(match))
        /\ match'.endReason = IF attempt = "open" THEN match.endReason ELSE attempt
    BY <1>0, MatchMoveFacts
  <2>2. match.endReason = "none" /\ attempt # "none" /\ attempt # "flag"
    BY LiveClock DEF BoardStatus
  <2>3. CASE match.clock.status = "none"
    <3>1. match'.clock = match.clock
      BY <2>1, <2>3, UntimedClock
    <3> QED
      BY <2>1, <2>2, <2>3, <3>1 DEF ClockInv, IsOver, Timed
  <2>4. CASE match.clock.status # "none"
    <3>1. match.clock.status = "running" /\ match.clock.active = Turn(match)
      BY <2>4, LiveClock DEF Timed
    <3>2. /\ match'.clock.active = Opponent(Turn(match))
          /\ match'.clock.status = IF attempt = "open" THEN "running" ELSE "paused"
      BY <1>0, <2>1, <3>1, ClockAfterMoveFacts
    <3> QED
      BY <2>1, <2>2, <3>2 DEF ClockInv, IsOver, Timed
  <2> QED
    BY <2>3, <2>4
<1>4. CASE Resign
  <2> SUFFICES ASSUME ~IsOver(match), NEW c \in Color, match' = MatchResign(match, c)
               PROVE  ClockInv'
    BY <1>1, <1>4, ResignCases
  <2>1. /\ match'.clock = ClockPause(match.clock)
        /\ match'.board = match.board /\ Turn(match') = Turn(match)
        /\ match'.endReason = "resignation"
    BY <1>0, MatchResignFacts
  <2>2. match.board = "open" /\ (Timed => match.clock.status = "running"
                                          /\ match.clock.active = Turn(match))
    BY LiveClock
  <2>3. /\ match'.clock.active = match.clock.active
        /\ match'.clock.status = IF match.clock.status = "running" THEN "paused"
                                 ELSE match.clock.status
    BY <1>0, <2>1, ClockPauseFacts
  <2> QED
    BY <2>1, <2>2, <2>3 DEF ClockInv, IsOver, Timed
<1>5. CASE Elapse
  BY <1>1, <1>5 DEF Elapse
<1>6. CASE UNCHANGED vars
  BY <1>1, <1>6 DEF vars
<1> QED
  BY <1>2, <1>3, <1>4, <1>5, <1>6 DEF Next

\* The inductive invariant of match and clock: in a live timed game the clock of
\* the side to move runs, and every ending is on record (chess-match.ts).
THEOREM ClockInvariant == Spec => [](TypeOK /\ ClockInv)
<1>1. Init => TypeOK /\ ClockInv
  BY InitType, InitClockInv
<1>2. TypeOK /\ ClockInv /\ [Next]_vars => (TypeOK /\ ClockInv)'
  BY NextType, NextClockInv
<1> QED
  BY <1>1, <1>2, PTL DEF Spec

\* The clock that runs, and the flag that fell, are those of the side to move.
THEOREM ClockFollowsBoardHolds == Spec => []ClockFollowsBoard
<1>1. TypeOK /\ ClockInv => ClockFollowsBoard
  BY DEF ClockInv
<1> QED
  BY <1>1, ClockInvariant, PTL

\* No ending leaves the clock running, and a fallen flag is the ending it caused.
THEOREM ClockStopsAtEndHolds == Spec => []ClockStopsAtEnd
<1>1. TypeOK /\ ClockInv => ClockStopsAtEnd
  BY DEF ClockInv
<1> QED
  BY <1>1, ClockInvariant, PTL

-----------------------------------------------------------------------------
\* The account of the time: how each step changes what the sides were charged.

LEMMA Distribute ==
    ASSUME NEW x \in Nat, NEW y \in Nat
    PROVE  x * y \in Nat /\ x * (y + 1) = x * y + x
OBVIOUS

LEMMA MovesByType ==
    ASSUME TypeOK, NEW c \in Color
    PROVE  MovesBy(c) \in Nat
<1>1. Len(match.moves) \in Nat
  BY DEF TypeOK, MatchType
<1> QED
  BY <1>1, Halves DEF MovesBy

LEMMA ChargedType ==
    ASSUME TypeOK, NEW c \in Color
    PROVE  Charged(c) \in Int
<1>1. MovesBy(c) \in Nat /\ BaseMs \in Nat /\ IncrementMs \in Nat
  BY MovesByType, TimeControlAssumption
<1>2. match.clock.ms[c] \in Nat
  BY DEF TypeOK, MatchType, ClockType
<1>3. IncrementMs * MovesBy(c) \in Nat
  BY <1>1, Distribute
<1> QED
  BY <1>1, <1>2, <1>3 DEF Charged

\* An accepted move adds one to the moves of the side that was to move.
LEMMA MovesByStep ==
    ASSUME TypeOK, Len(match'.moves) = Len(match.moves) + 1, NEW c \in Color
    PROVE  MovesBy(c)' = IF c = Turn(match) THEN MovesBy(c) + 1 ELSE MovesBy(c)
<1>1. PICK k \in Nat : k = Len(match.moves)
  BY DEF TypeOK, MatchType
<1>2. Len(match'.moves) = k + 1
  BY <1>1
<1>3. CASE k % 2 = 0
  <2>1. (k + 1) \div 2 = k \div 2 /\ (k + 1 + 1) \div 2 = (k \div 2) + 1
    BY <1>3
  <2> QED
    BY <1>1, <1>2, <1>3, <2>1 DEF MovesBy, Turn, Color
<1>4. CASE k % 2 # 0
  <2>1. (k + 1) \div 2 = (k \div 2) + 1 /\ (k + 1 + 1) \div 2 = (k + 1) \div 2
    BY <1>4
  <2> QED
    BY <1>1, <1>2, <1>4, <2>1 DEF MovesBy, Turn, Color
<1> QED
  BY <1>3, <1>4

\* A report charges the side to move, and it alone, for at most what it reports.
LEMMA ChargedByTick ==
    ASSUME TypeOK, ClockInv, Tick, Timed, NEW c, c = Turn(match)
    PROVE  /\ Charged(Opponent(c))' = Charged(Opponent(c))
           /\ Charged(c)' \in Int
           /\ Charged(c) <= Charged(c)' /\ Charged(c)' <= Charged(c) + unticked
           /\ \/ match'.clock.status = "flagged"
              \/ /\ match'.clock.status = "running"
                 /\ Charged(c)' + match.clock.delay[c] =
                        Charged(c) + match'.clock.delay[c] + unticked
                 /\ match'.clock.delay[Opponent(c)] = match.clock.delay[Opponent(c)]
           /\ match'.moves = match.moves /\ Turn(match') = Turn(match)
           /\ Timed'
<1>1. /\ ~IsOver(match) /\ unticked \in Nat /\ unticked > 0
      /\ match' = MatchTick(match, unticked)
  BY HostAssumption DEF Tick, TypeOK
<1>2. /\ match \in MatchType /\ match.clock \in ClockType
      /\ c \in Color /\ Opponent(c) \in Color
  BY TurnIsColor, OpponentFacts DEF TypeOK, MatchType
<1>3. /\ match'.clock = ClockTick(match.clock, unticked)
      /\ match'.moves = match.moves /\ Turn(match') = Turn(match)
  BY <1>1, <1>2, MatchTickFacts
<1>4. match.clock.status = "running" /\ match.clock.active = c
  BY <1>1, LiveClock
<1>5. /\ match'.clock.ms[Opponent(c)] = match.clock.ms[Opponent(c)]
      /\ match'.clock.delay[Opponent(c)] = match.clock.delay[Opponent(c)]
      /\ match'.clock.ms[c] <= match.clock.ms[c]
      /\ match.clock.ms[c] <= match'.clock.ms[c] + unticked
      /\ \/ match'.clock.status = "flagged"
         \/ /\ match'.clock.status = "running"
            /\ match.clock.ms[c] + match.clock.delay[c] =
                   match'.clock.ms[c] + match'.clock.delay[c] + unticked
  BY <1>1, <1>2, <1>3, <1>4, ClockTickFacts
<1>6. \A d \in Color : MovesBy(d)' = MovesBy(d)
  BY <1>3 DEF MovesBy
<1>7. match'.clock \in ClockType
  BY <1>1, <1>2, <1>3, ClockTickType
<1>8. \A d \in Color : /\ match.clock.ms[d] \in Nat /\ match'.clock.ms[d] \in Nat
                       /\ match.clock.delay[d] \in Nat /\ match'.clock.delay[d] \in Nat
  BY <1>2, <1>7 DEF ClockType
<1>9. \A d \in Color : Charged(d)' = Charged(d) + match.clock.ms[d] - match'.clock.ms[d]
  <2> TAKE d \in Color
  <2>1. PICK p \in Nat : p = IncrementMs * MovesBy(d)
    BY MovesByType, Distribute, TimeControlAssumption
  <2>2. Charged(d) = BaseMs + (p - match.clock.ms[d])
    BY <2>1 DEF Charged
  <2>3. Charged(d)' = BaseMs + (p - match'.clock.ms[d])
    BY <1>6, <2>1 DEF Charged
  <2> QED
    BY <1>8, <2>2, <2>3, TimeControlAssumption
<1>10. Charged(c) \in Int /\ Charged(Opponent(c)) \in Int
  BY <1>2, ChargedType
<1>11. Timed'
  BY <1>5 DEF Timed
<1> QED
  BY <1>1, <1>2, <1>3, <1>5, <1>8, <1>9, <1>10, <1>11

\* A move charges nobody: what the mover gains is the increment of that move.
LEMMA ChargedByMove ==
    ASSUME TypeOK, ClockInv, ~IsOver(match), Timed,
           NEW attempt \in BoardStatus, match' = MatchMove(match, attempt),
           NEW c, c = Turn(match)
    PROVE  /\ \A d \in Color : Charged(d)' = Charged(d)
           /\ MovesBy(c)' = MovesBy(c) + 1
           /\ MovesBy(Opponent(c))' = MovesBy(Opponent(c))
           /\ Len(match'.moves) = Len(match.moves) + 1
           /\ match'.clock.delay[c] = match.clock.delay[c]
           /\ match'.clock.delay[Opponent(c)] = DelayMs
           /\ match'.clock.ms[c] = match.clock.ms[c] + IncrementMs
           /\ match'.clock.ms[Opponent(c)] = match.clock.ms[Opponent(c)]
           /\ Turn(match') = Opponent(c)
           /\ Timed' /\ ~IsFlagged(match.clock)
<1>1. /\ match \in MatchType /\ match.clock \in ClockType
      /\ c \in Color /\ Opponent(c) \in Color /\ Opponent(c) # c
      /\ Color = {c, Opponent(c)}
  BY TurnIsColor, OpponentFacts DEF TypeOK, MatchType
<1>2. /\ match'.clock = ClockAfterMove(match.clock, attempt)
      /\ Len(match'.moves) = Len(match.moves) + 1
      /\ Turn(match') = Opponent(c)
  BY <1>1, MatchMoveFacts
<1>3. match.clock.status = "running" /\ match.clock.active = c
  BY LiveClock
<1>4. /\ match'.clock.ms[c] = match.clock.ms[c] + IncrementMs
      /\ match'.clock.ms[Opponent(c)] = match.clock.ms[Opponent(c)]
      /\ match'.clock.delay[c] = match.clock.delay[c]
      /\ match'.clock.delay[Opponent(c)] = DelayMs
      /\ match'.clock.status = IF attempt = "open" THEN "running" ELSE "paused"
  BY <1>1, <1>2, <1>3, ClockAfterMoveFacts
<1>5. /\ MovesBy(c)' = MovesBy(c) + 1
      /\ MovesBy(Opponent(c))' = MovesBy(Opponent(c))
  BY <1>1, <1>2, MovesByStep
<1>6. match.clock.ms[c] \in Nat
  BY <1>1 DEF ClockType
<1>7. Charged(c)' = Charged(c)
  <2>1. PICK p \in Nat : p = IncrementMs * MovesBy(c)
    BY <1>1, MovesByType, Distribute, TimeControlAssumption
  <2>2. Charged(c) = BaseMs + (p - match.clock.ms[c])
    BY <2>1 DEF Charged
  <2>3. IncrementMs * MovesBy(c)' = p + IncrementMs
    BY <1>1, <1>5, <2>1, MovesByType, Distribute, TimeControlAssumption
  <2>4. Charged(c)' = BaseMs + ((p + IncrementMs) - (match.clock.ms[c] + IncrementMs))
    BY <1>4, <2>3 DEF Charged
  <2> QED
    BY <1>6, <2>2, <2>4, TimeControlAssumption
<1>8. Charged(Opponent(c))' = Charged(Opponent(c))
  BY <1>4, <1>5 DEF Charged
<1>9. Timed' /\ ~IsFlagged(match.clock)
  BY <1>3, <1>4 DEF Timed, IsFlagged
<1> QED
  BY <1>1, <1>2, <1>4, <1>5, <1>7, <1>8, <1>9

\* The other steps charge nobody either.
LEMMA ChargedOtherwise ==
    ASSUME TypeOK, \/ match' = match
                   \/ ~IsOver(match) /\ \E c \in Color : match' = MatchResign(match, c)
    PROVE  /\ \A d \in Color : Charged(d)' = Charged(d) /\ MovesBy(d)' = MovesBy(d)
           /\ match'.clock.ms = match.clock.ms /\ match'.clock.delay = match.clock.delay
           /\ match'.moves = match.moves /\ Turn(match') = Turn(match)
           /\ Timed' = Timed /\ IsFlagged(match.clock)' = IsFlagged(match.clock)
<1>1. match \in MatchType /\ match.clock \in ClockType
  BY DEF TypeOK, MatchType
<1>2. /\ match'.clock.ms = match.clock.ms /\ match'.clock.delay = match.clock.delay
      /\ match'.moves = match.moves /\ Turn(match') = Turn(match)
      /\ \/ match'.clock.status = match.clock.status
         \/ match.clock.status = "running" /\ match'.clock.status = "paused"
  <2>1. CASE match' = match
    BY <2>1
  <2>2. CASE ~IsOver(match) /\ \E c \in Color : match' = MatchResign(match, c)
    <3>1. match'.clock = ClockPause(match.clock)
          /\ match'.moves = match.moves /\ Turn(match') = Turn(match)
      BY <1>1, <2>2, MatchResignFacts
    <3> QED
      BY <1>1, <3>1, ClockPauseFacts
  <2> QED
    BY <2>1, <2>2
<1>3. \A d \in Color : MovesBy(d)' = MovesBy(d)
  BY <1>2 DEF MovesBy
<1>4. \A d \in Color : Charged(d)' = Charged(d)
  BY <1>2, <1>3 DEF Charged
<1>5. Timed' = Timed /\ IsFlagged(match.clock)' = IsFlagged(match.clock)
  BY <1>2 DEF Timed, IsFlagged
<1> QED
  BY <1>2, <1>3, <1>4, <1>5

\* A game without a clock stays so.
LEMMA TickUntimed ==
    ASSUME TypeOK, Tick, ~Timed
    PROVE  ~Timed'
<1>1. /\ ~IsOver(match) /\ unticked \in Nat /\ match' = MatchTick(match, unticked)
      /\ match \in MatchType
  BY HostAssumption DEF Tick, TypeOK
<1>2. match'.clock = ClockTick(match.clock, unticked)
  BY <1>1, MatchTickFacts
<1> QED
  BY <1>2, UntimedClock DEF Timed

LEMMA MoveUntimed ==
    ASSUME TypeOK, ~IsOver(match), Timed',
           NEW attempt \in BoardStatus, match' = MatchMove(match, attempt)
    PROVE  Timed
<1>1. match'.clock = ClockAfterMove(match.clock, attempt)
  BY MatchMoveFacts DEF TypeOK
<1> QED
  BY <1>1, UntimedClock DEF Timed

-----------------------------------------------------------------------------
(* ChargedForOwnTime is not inductive: what the next report will charge has  *)
(* to be counted, and it is charged to the side then to move.                *)
Due(c) == IF c = Turn(match) THEN unticked ELSE 0

OwnTimeInv ==
    Timed => \A c \in Color :
        Charged(c) + Due(c) <= wall[c] + TickMs * MovesBy(Opponent(c))

LEMMA InitOwnTime == Init => OwnTimeInv
<1> SUFFICES ASSUME Init, NEW c \in Color
             PROVE  Charged(c) + Due(c) <= wall[c] + TickMs * MovesBy(Opponent(c))
  BY DEF OwnTimeInv
<1>1. PICK timed \in BOOLEAN : match = MatchStart(NewMatch(timed))
  BY DEF Init
<1>2. match.moves = << >>
  BY <1>1 DEF MatchStart, NewMatch
<1>3. match.clock.ms[c] = BaseMs
  BY <1>1 DEF MatchStart, NewMatch, ClockStart, NewClock, NoClock
<1>4. MovesBy(c) = 0 /\ MovesBy(Opponent(c)) = 0
  BY <1>2 DEF MovesBy
<1>5. wall[c] = 0 /\ Due(c) = 0
  BY DEF Init, Due
<1> QED
  BY <1>3, <1>4, <1>5, TimeControlAssumption, HostAssumption DEF Charged

LEMMA NextOwnTime ==
    TypeOK /\ ClockInv /\ OwnTimeInv /\ [Next]_vars => OwnTimeInv'
<1> SUFFICES ASSUME TypeOK, ClockInv, OwnTimeInv, [Next]_vars, Timed'
             PROVE  OwnTimeInv'
  BY DEF OwnTimeInv
<1>0. PICK t \in Color, o \in Color : t = Turn(match) /\ o = Opponent(t)
  BY TurnIsColor, OpponentFacts
<1>1. /\ t = Turn(match) /\ o = Opponent(t)
      /\ t # o /\ Opponent(o) = t /\ Color = {t, o}
  BY <1>0, OpponentFacts
<1>2. /\ Charged(t) \in Int /\ Charged(o) \in Int
      /\ wall[t] \in Nat /\ wall[o] \in Nat /\ unticked \in Nat /\ unticked <= TickMs
      /\ TickMs \in Nat
      /\ TickMs * MovesBy(t) \in Nat /\ TickMs * MovesBy(o) \in Nat
  BY <1>1, ChargedType, MovesByType, Distribute, HostAssumption DEF TypeOK
<1>3. ASSUME Timed
      PROVE  /\ Charged(t) + unticked <= wall[t] + TickMs * MovesBy(o)
             /\ Charged(o) <= wall[o] + TickMs * MovesBy(t)
  BY <1>1, <1>2, <1>3 DEF OwnTimeInv, Due
<1>4. CASE Elapse
  <2>1. match' = match
    BY <1>4 DEF Elapse
  <2>2. /\ Charged(t)' = Charged(t) /\ Charged(o)' = Charged(o)
        /\ MovesBy(t)' = MovesBy(t) /\ MovesBy(o)' = MovesBy(o)
        /\ Timed
    BY <2>1 DEF Charged, MovesBy, Timed
  <2>3. wall'[t] = wall[t] + 1 /\ wall'[o] = wall[o] /\ unticked' = unticked + 1
    BY <1>1, <1>4 DEF Elapse, TypeOK
  <2> QED
    BY <1>1, <1>2, <1>3, <2>1, <2>2, <2>3 DEF OwnTimeInv, Due
<1>5. CASE Tick
  <2>1. CASE Timed
    <3>1. /\ Charged(o)' = Charged(o) /\ Charged(t)' \in Int
          /\ Charged(t) <= Charged(t)' /\ Charged(t)' <= Charged(t) + unticked
          /\ match'.moves = match.moves /\ Turn(match') = t
      BY <1>1, <1>5, <2>1, ChargedByTick
    <3>2. wall' = wall /\ unticked' = 0
      BY <1>5 DEF Tick
    <3>3. MovesBy(t)' = MovesBy(t) /\ MovesBy(o)' = MovesBy(o)
      BY <3>1 DEF MovesBy
    <3> QED
      BY <1>1, <1>2, <1>3, <2>1, <3>1, <3>2, <3>3 DEF OwnTimeInv, Due
  <2>2. CASE ~Timed
    BY <1>5, <2>2, TickUntimed
  <2> QED
    BY <2>1, <2>2
<1>6. ASSUME NEW attempt \in BoardStatus, ~IsOver(match), match' = MatchMove(match, attempt),
             UNCHANGED <<unticked, wall>>
      PROVE  OwnTimeInv'
  <2>1. Timed
    BY <1>6, MoveUntimed
  <2>2. /\ Charged(t)' = Charged(t) /\ Charged(o)' = Charged(o)
        /\ MovesBy(t)' = MovesBy(t) + 1 /\ MovesBy(o)' = MovesBy(o)
        /\ Turn(match') = o
    BY <1>1, <1>6, <2>1, ChargedByMove
  <2>3. TickMs * MovesBy(t)' = TickMs * MovesBy(t) + TickMs
    BY <1>1, <1>2, <2>2, MovesByType, Distribute
  <2> QED
    BY <1>1, <1>2, <1>3, <1>6, <2>1, <2>2, <2>3 DEF OwnTimeInv, Due
<1>7. ASSUME \/ match' = match
             \/ ~IsOver(match) /\ \E c \in Color : match' = MatchResign(match, c),
             UNCHANGED <<unticked, wall>>
      PROVE  OwnTimeInv'
  <2>1. /\ Charged(t)' = Charged(t) /\ Charged(o)' = Charged(o)
        /\ MovesBy(t)' = MovesBy(t) /\ MovesBy(o)' = MovesBy(o)
        /\ Turn(match') = t /\ Timed
    BY <1>1, <1>7, ChargedOtherwise
  <2> QED
    BY <1>1, <1>2, <1>3, <1>7, <2>1 DEF OwnTimeInv, Due
<1>8. CASE Move
  BY <1>6, <1>7, <1>8, MoveCases DEF Move
<1>9. CASE Resign
  BY <1>7, <1>9, ResignCases DEF Resign
<1>10. CASE UNCHANGED vars
  BY <1>7, <1>10 DEF vars
<1> QED
  BY <1>4, <1>5, <1>8, <1>9, <1>10 DEF Next

\* No side is charged for more than its own time and, for each of the opponent's
\* moves, the rest of one timer interval (chess-play-page startTicking).
THEOREM ChargedForOwnTimeHolds == Spec => []ChargedForOwnTime
<1>1. Init => TypeOK /\ ClockInv /\ OwnTimeInv
  BY InitType, InitClockInv, InitOwnTime
<1>2. TypeOK /\ ClockInv /\ OwnTimeInv /\ [Next]_vars => (TypeOK /\ ClockInv /\ OwnTimeInv)'
  BY NextType, NextClockInv, NextOwnTime
<1>3. TypeOK /\ ClockInv /\ OwnTimeInv => ChargedForOwnTime
  <2> SUFFICES ASSUME TypeOK, OwnTimeInv, Timed, NEW c \in Color
               PROVE  Charged(c) <= wall[c] + TickMs * MovesBy(Opponent(c))
    BY DEF ChargedForOwnTime
  <2>1. Charged(c) + Due(c) <= wall[c] + TickMs * MovesBy(Opponent(c))
    BY DEF OwnTimeInv
  <2>2. TickMs * MovesBy(Opponent(c)) \in Nat
    BY OpponentFacts, MovesByType, Distribute, HostAssumption
  <2>3. Charged(c) \in Int /\ Due(c) \in Nat /\ wall[c] \in Nat
    BY ChargedType, HostAssumption DEF Due, TypeOK
  <2> QED
    BY <2>1, <2>2, <2>3
<1> QED
  BY <1>1, <1>2, <1>3, PTL DEF Spec

-----------------------------------------------------------------------------
(* NoTimeLost is not inductive either: what is left of the allowances the    *)
(* sides hold is time that can still pass without being charged.             *)
TimeInv ==
    Timed =>
        LET charged == Charged("w") + Charged("b") + unticked
            spent   == wall["w"] + wall["b"]
            delay   == match.clock.delay["w"] + match.clock.delay["b"]
        IN  /\ charged <= spent
            /\ \/ IsFlagged(match.clock)
               \/ spent + delay <= charged + Allowances

LEMMA InitTime == Init => TimeInv
<1> SUFFICES ASSUME Init PROVE TimeInv
  OBVIOUS
<1>1. PICK timed \in BOOLEAN : match = MatchStart(NewMatch(timed))
  BY DEF Init
<1>2. match.moves = << >>
  BY <1>1 DEF MatchStart, NewMatch
<1>3. \A c \in Color : match.clock.ms[c] = BaseMs /\ match.clock.delay[c] = DelayMs
  BY <1>1 DEF MatchStart, NewMatch, ClockStart, NewClock, NoClock
<1>4. \A c \in Color : MovesBy(c) = 0
  BY <1>2 DEF MovesBy
<1>5. \A c \in Color : Charged(c) = 0
  BY <1>3, <1>4, TimeControlAssumption DEF Charged
<1>6. "w" \in Color /\ "b" \in Color /\ wall["w"] = 0 /\ wall["b"] = 0 /\ unticked = 0
  BY DEF Color, Init
<1>7. Allowances = DelayMs + DelayMs
  BY <1>2, TimeControlAssumption DEF Allowances
<1> QED
  BY <1>3, <1>5, <1>6, <1>7, TimeControlAssumption DEF TimeInv

LEMMA TickKeepsType ==
    ASSUME TypeOK, Tick
    PROVE  match'.clock \in ClockType
<1>1. match' = MatchTick(match, unticked) /\ unticked \in Nat
  BY HostAssumption DEF Tick, TypeOK
<1>2. match' \in MatchType
  BY <1>1, MatchTickType DEF TypeOK
<1> QED
  BY <1>2 DEF MatchType

LEMMA HistoryType ==
    ASSUME TypeOK
    PROVE  /\ unticked \in Nat
           /\ \A c \in Color : wall[c] \in Nat /\ match.clock.delay[c] \in Nat
BY HostAssumption DEF TypeOK, MatchType, ClockType

LEMMA AllowancesType ==
    ASSUME TypeOK
    PROVE  Allowances \in Nat
<1>1. Len(match.moves) + 2 \in Nat
  BY DEF TypeOK, MatchType
<1> QED
  BY <1>1, Distribute, TimeControlAssumption DEF Allowances

LEMMA AllowancesStep ==
    ASSUME TypeOK, Len(match'.moves) = Len(match.moves) + 1
    PROVE  Allowances' = Allowances + DelayMs
<1>1. PICK n \in Nat : n = Len(match.moves) + 2
  BY DEF TypeOK, MatchType
<1>2. Len(match'.moves) + 2 = n + 1
  BY <1>1 DEF TypeOK, MatchType
<1> QED
  BY <1>1, <1>2, Distribute, TimeControlAssumption DEF Allowances

LEMMA NextTime == TypeOK /\ ClockInv /\ TimeInv /\ [Next]_vars => TimeInv'
<1> SUFFICES ASSUME TypeOK, ClockInv, TimeInv, [Next]_vars, Timed'
             PROVE  TimeInv'
  BY DEF TimeInv
<1>0. PICK t \in Color, o \in Color : t = Turn(match) /\ o = Opponent(t)
  BY TurnIsColor, OpponentFacts
<1>1. /\ t = Turn(match) /\ o = Opponent(t)
      /\ t # o /\ Opponent(o) = t /\ Color = {t, o}
      /\ (t = "w" /\ o = "b") \/ (t = "b" /\ o = "w")
  BY <1>0, OpponentFacts DEF Color, Opponent
<1>2. /\ Charged(t) \in Int /\ Charged(o) \in Int
      /\ wall[t] \in Nat /\ wall[o] \in Nat /\ unticked \in Nat
      /\ match.clock.delay[t] \in Nat /\ match.clock.delay[o] \in Nat
      /\ Allowances \in Nat /\ DelayMs \in Nat
  BY <1>1, ChargedType, AllowancesType, HistoryType, TimeControlAssumption
<1>4. ASSUME Timed
      PROVE  /\ Charged(t) + Charged(o) + unticked <= wall[t] + wall[o]
             /\ \/ IsFlagged(match.clock)
                \/ wall[t] + wall[o] + match.clock.delay[t] + match.clock.delay[o] <=
                       Charged(t) + Charged(o) + unticked + Allowances
  BY <1>1, <1>2, <1>4 DEF TimeInv
\* TimeInv' from the same sums in the next state.
<1>5. ASSUME Allowances' \in Nat,
             /\ Charged(t)' \in Int /\ Charged(o)' \in Int
             /\ wall'[t] \in Nat /\ wall'[o] \in Nat /\ unticked' \in Nat
             /\ match'.clock.delay[t] \in Nat /\ match'.clock.delay[o] \in Nat,
             Charged(t)' + Charged(o)' + unticked' <= wall'[t] + wall'[o],
             \/ IsFlagged(match'.clock)
             \/ wall'[t] + wall'[o] + match'.clock.delay[t] + match'.clock.delay[o] <=
                    Charged(t)' + Charged(o)' + unticked' + Allowances'
      PROVE  TimeInv'
  BY <1>1, <1>5 DEF TimeInv
<1>6. CASE Elapse
  <2>1. match' = match
    BY <1>6 DEF Elapse
  <2>2. Charged(t)' = Charged(t) /\ Charged(o)' = Charged(o) /\ Timed
        /\ Allowances' = Allowances
    BY <2>1 DEF Charged, MovesBy, Timed, Allowances
  <2>3. wall'[t] = wall[t] + 1 /\ wall'[o] = wall[o] /\ unticked' = unticked + 1
    BY <1>1, <1>6 DEF Elapse, TypeOK
  <2> QED
    BY <1>2, <1>4, <1>5, <2>1, <2>2, <2>3
<1>7. CASE Tick
  <2>1. Timed
    BY <1>7, TickUntimed
  <2>2. /\ Charged(o)' = Charged(o) /\ Charged(t)' \in Int
        /\ Charged(t) <= Charged(t)' /\ Charged(t)' <= Charged(t) + unticked
        /\ \/ match'.clock.status = "flagged"
           \/ /\ Charged(t)' + match.clock.delay[t] =
                     Charged(t) + match'.clock.delay[t] + unticked
              /\ match'.clock.delay[o] = match.clock.delay[o]
        /\ match'.moves = match.moves
    BY <1>1, <1>7, <2>1, ChargedByTick
  <2>3. Allowances' = Allowances
    BY <2>2 DEF Allowances
  <2>4. wall' = wall /\ unticked' = 0
    BY <1>7 DEF Tick
  <2>5. match'.clock.delay[t] \in Nat /\ match'.clock.delay[o] \in Nat
    BY <1>1, <1>7, TickKeepsType DEF ClockType
  <2>6. ~IsFlagged(match.clock)
    BY <1>7, LiveClock DEF Tick, IsFlagged, Timed
  <2> QED
    BY <1>2, <1>4, <1>5, <2>1, <2>2, <2>4, <2>5, <2>6, <2>3 DEF IsFlagged
<1>8. ASSUME NEW attempt \in BoardStatus, ~IsOver(match), match' = MatchMove(match, attempt),
             UNCHANGED <<unticked, wall>>
      PROVE  TimeInv'
  <2>1. Timed
    BY <1>8, MoveUntimed
  <2>2. /\ Charged(t)' = Charged(t) /\ Charged(o)' = Charged(o)
        /\ Len(match'.moves) = Len(match.moves) + 1
        /\ match'.clock.delay[t] = match.clock.delay[t]
        /\ match'.clock.delay[o] = DelayMs
        /\ ~IsFlagged(match.clock)
    BY <1>1, <1>8, <2>1, ChargedByMove
  <2>3. Allowances' = Allowances + DelayMs
    BY <2>2, AllowancesStep
  <2>4. unticked' = unticked /\ wall' = wall
    BY <1>8
  <2>5. Charged(t)' + Charged(o)' + unticked' <= wall'[t] + wall'[o]
    BY <1>4, <2>1, <2>2, <2>4
  <2>6. wall'[t] + wall'[o] + match'.clock.delay[t] + match'.clock.delay[o] <=
            Charged(t)' + Charged(o)' + unticked' + Allowances'
    <3>1. wall[t] + wall[o] + match.clock.delay[t] + match.clock.delay[o] <=
              Charged(t) + Charged(o) + unticked + Allowances
      BY <1>4, <2>1, <2>2
    <3>2. wall[t] + wall[o] + match.clock.delay[t] + DelayMs <=
              Charged(t) + Charged(o) + unticked + (Allowances + DelayMs)
      BY <1>2, <3>1
    <3> QED
      BY <2>2, <2>3, <2>4, <3>2
  <2> QED
    BY <1>2, <1>5, <2>2, <2>3, <2>4, <2>5, <2>6
<1>9. ASSUME \/ match' = match
             \/ ~IsOver(match) /\ \E c \in Color : match' = MatchResign(match, c),
             UNCHANGED <<unticked, wall>>
      PROVE  TimeInv'
  <2>1. /\ Charged(t)' = Charged(t) /\ Charged(o)' = Charged(o)
        /\ match'.clock.delay = match.clock.delay /\ match'.moves = match.moves
        /\ Timed /\ IsFlagged(match'.clock) = IsFlagged(match.clock)
    BY <1>1, <1>9, ChargedOtherwise
  <2>2. Allowances' = Allowances
    BY <2>1 DEF Allowances
  <2> QED
    BY <1>2, <1>4, <1>5, <1>9, <2>1, <2>2
<1>10. CASE Move
  BY <1>8, <1>9, <1>10, MoveCases DEF Move
<1>11. CASE Resign
  BY <1>9, <1>11, ResignCases DEF Resign
<1>12. CASE UNCHANGED vars
  BY <1>9, <1>12 DEF vars
<1> QED
  BY <1>6, <1>7, <1>10, <1>11, <1>12 DEF Next

\* Time is charged once, and none is lost but for the allowances.
THEOREM NoTimeLostHolds == Spec => []NoTimeLost
<1>1. Init => TypeOK /\ ClockInv /\ TimeInv
  BY InitType, InitClockInv, InitTime
<1>2. TypeOK /\ ClockInv /\ TimeInv /\ [Next]_vars => (TypeOK /\ ClockInv /\ TimeInv)'
  BY NextType, NextClockInv, NextTime
<1>3. TypeOK /\ ClockInv /\ TimeInv => NoTimeLost
  <2> SUFFICES ASSUME TypeOK, TimeInv, Timed PROVE NoTimeLost
    BY DEF NoTimeLost
  <2>1. "w" \in Color /\ "b" \in Color
    BY DEF Color
  <2>2. /\ Charged("w") \in Int /\ Charged("b") \in Int /\ unticked \in Nat
        /\ wall["w"] \in Nat /\ wall["b"] \in Nat
        /\ match.clock.delay["w"] \in Nat /\ match.clock.delay["b"] \in Nat
        /\ Allowances \in Nat
    BY <2>1, ChargedType, AllowancesType, HistoryType
  <2> QED
    BY <2>2 DEF TimeInv, NoTimeLost
<1> QED
  BY <1>1, <1>2, <1>3, PTL DEF Spec

-----------------------------------------------------------------------------
\* The result of a match: undecided while it is live, then what its ending says.
LEMMA ResultFacts ==
    ASSUME NEW m, m.endReason \in EndReason,
           m.board # "open" => m.endReason = m.board
    PROVE  /\ m.endReason = "none" => Result(m) = "*"
           /\ m.endReason = "flag" /\ m.clock.flagged \in Color =>
                  Result(m) = WinFor(Opponent(m.clock.flagged))
           /\ m.endReason = "resignation" /\ m.resignedBy \in Color =>
                  Result(m) = WinFor(Opponent(m.resignedBy))
           /\ m.endReason = "checkmate" => Result(m) = WinFor(Opponent(Turn(m)))
           /\ m.endReason \in {"stalemate", "draw"} => Result(m) = "1/2-1/2"
<1>1. EndReasonValue(m) = m.endReason
  BY DEF EndReasonValue
<1>2. CASE m.endReason = "none"
  BY <1>1, <1>2 DEF Result
<1>3. CASE m.endReason = "flag"
  BY <1>1, <1>3, OpponentFacts DEF Result
<1>4. CASE m.endReason = "resignation"
  BY <1>1, <1>4 DEF Result, Opponent, Color
<1>5. CASE m.endReason = "checkmate"
  BY <1>1, <1>5 DEF Result
<1>6. CASE m.endReason \in {"stalemate", "draw"}
  BY <1>1, <1>6 DEF Result
<1> QED
  BY <1>2, <1>3, <1>4, <1>5, <1>6 DEF EndReason

\* The sides of ChessOutcome are those of the match, and so is its ending.
LEMMA OutcomeSides ==
    ASSUME TypeOK
    PROVE  /\ Outcome!Side = Turn(match)
           /\ \A c \in Color : /\ Outcome!Other(c) = Opponent(c)
                               /\ Outcome!WinOf(c) = WinFor(c)
BY DEF Outcome!Side, Turn, Outcome!Other, Opponent, Outcome!WinOf, WinFor

LEMMA EndingIsRecorded ==
    ASSUME NEW m, m.endReason \in EndReason, m.board # "open" => m.endReason = m.board
    PROVE  EndReasonValue(m) = m.endReason
BY DEF EndReasonValue

(* That the side out of time is the flagged one is not in ClockInv: it needs *)
(* that no side's time reaches zero any other way than by its flag falling.  *)
HasTime ==
    Timed => \A c \in Color :
        \/ match.clock.ms[c] > 0
        \/ IsFlagged(match.clock) /\ c = Turn(match)

LEMMA InitHasTime == Init => HasTime
<1> SUFFICES ASSUME Init, NEW c \in Color PROVE match.clock.ms[c] > 0
  BY DEF HasTime
<1>1. PICK timed \in BOOLEAN : match = MatchStart(NewMatch(timed))
  BY DEF Init
<1>2. match.clock.ms[c] = BaseMs
  BY <1>1 DEF MatchStart, NewMatch, ClockStart, NewClock, NoClock
<1> QED
  BY <1>2, TimeControlAssumption

LEMMA NextHasTime == TypeOK /\ ClockInv /\ HasTime /\ [Next]_vars => HasTime'
<1> SUFFICES ASSUME TypeOK, ClockInv, HasTime, [Next]_vars, Timed'
             PROVE  HasTime'
  BY DEF HasTime
<1>0. PICK t \in Color, o \in Color : t = Turn(match) /\ o = Opponent(t)
  BY TurnIsColor, OpponentFacts
<1>1. /\ t = Turn(match) /\ o = Opponent(t)
      /\ t # o /\ Opponent(o) = t /\ Color = {t, o}
      /\ match \in MatchType /\ match.clock \in ClockType
      /\ match.clock.ms[t] \in Nat /\ match.clock.ms[o] \in Nat
  BY <1>0, OpponentFacts DEF TypeOK, MatchType, ClockType
<1>2. ASSUME \/ match' = match
             \/ ~IsOver(match) /\ \E c \in Color : match' = MatchResign(match, c)
      PROVE  HasTime'
  BY <1>2, ChargedOtherwise DEF HasTime
<1>3. CASE Tick
  <2>1. Timed
    BY <1>3, TickUntimed
  <2>2. /\ ~IsOver(match) /\ unticked \in Nat /\ unticked > 0
        /\ match' = MatchTick(match, unticked)
    BY <1>3, HistoryType DEF Tick
  <2>3. match'.clock = ClockTick(match.clock, unticked) /\ Turn(match') = t
    BY <1>1, <2>2, MatchTickFacts
  <2>4. match.clock.status = "running" /\ match.clock.active = t
    BY <1>1, <2>1, <2>2, LiveClock
  <2>5. match.clock.ms[t] > 0 /\ match.clock.ms[o] > 0
    BY <1>1, <2>1, <2>4 DEF HasTime, IsFlagged
  <2>6. /\ match'.clock.ms[o] = match.clock.ms[o]
        /\ \/ match'.clock.status = "flagged"
           \/ match'.clock.ms[t] > 0
    BY <1>1, <2>2, <2>3, <2>4, <2>5, ClockTickFacts
  <2> QED
    BY <1>1, <2>3, <2>5, <2>6 DEF HasTime, IsFlagged
<1>4. ASSUME NEW attempt \in BoardStatus, ~IsOver(match), match' = MatchMove(match, attempt)
      PROVE  HasTime'
  <2>1. Timed
    BY <1>4, MoveUntimed
  <2>2. /\ match'.clock.ms[t] = match.clock.ms[t] + IncrementMs
        /\ match'.clock.ms[o] = match.clock.ms[o]
        /\ ~IsFlagged(match.clock)
    BY <1>1, <1>4, <2>1, ChargedByMove
  <2>3. match.clock.ms[t] > 0 /\ match.clock.ms[o] > 0
    BY <1>1, <2>1, <2>2 DEF HasTime
  <2>4. match'.clock.ms[t] > 0 /\ match'.clock.ms[o] > 0
    BY <1>1, <2>2, <2>3, TimeControlAssumption
  <2> QED
    BY <1>1, <2>4 DEF HasTime
<1>5. CASE Move
  BY <1>2, <1>4, <1>5, MoveCases
<1>6. CASE Resign
  BY <1>2, <1>6, ResignCases
<1>7. CASE Elapse
  BY <1>2, <1>7 DEF Elapse
<1>8. CASE UNCHANGED vars
  BY <1>2, <1>8 DEF vars
<1> QED
  BY <1>3, <1>5, <1>6, <1>7, <1>8 DEF Next

OutcomeInv == TypeOK /\ ClockInv /\ HasTime

\* The only side ever out of time is the side to move whose flag has fallen.
LEMMA OutOfTimeFacts ==
    ASSUME OutcomeInv
    PROVE  OutOfTime = IF Timed /\ IsFlagged(match.clock) THEN {Turn(match)} ELSE {}
<1>1. \A c \in Color : match.clock.ms[c] \in Nat
  BY DEF OutcomeInv, TypeOK, MatchType, ClockType
<1>2. Turn(match) \in Color
  BY TurnIsColor
<1>3. Timed /\ IsFlagged(match.clock) => match.clock.ms[Turn(match)] = 0
  BY DEF OutcomeInv, ClockInv, ClockFollowsBoard
<1> QED
  BY <1>1, <1>2, <1>3 DEF OutcomeInv, HasTime, OutOfTime

LEMMA InitOutcome == Init => Outcome!Init
<1> SUFFICES ASSUME Init PROVE Outcome!Init
  OBVIOUS
<1>1. PICK timed \in BOOLEAN : match = MatchStart(NewMatch(timed))
  BY DEF Init
<1>2. match.moves = << >> /\ match.endReason = "none" /\ match.board = "open"
  BY <1>1 DEF MatchStart, NewMatch
<1>3. Result(match) = "*" /\ EndReasonValue(match) = "none"
  BY <1>2, ResultFacts, EndingIsRecorded DEF EndReason
<1>4. OutcomeInv
  BY InitType, InitClockInv, InitHasTime DEF OutcomeInv
<1>5. ~(Timed /\ IsFlagged(match.clock))
  BY <1>1 DEF MatchStart, NewMatch, ClockStart, NewClock, NoClock, IsFlagged
<1>6. OutOfTime = {}
  BY <1>4, <1>5, OutOfTimeFacts
<1> QED
  BY <1>2, <1>3, <1>6 DEF Init, Outcome!Init, NoSide

LEMMA NextOutcome ==
    OutcomeInv /\ OutcomeInv' /\ [Next]_vars => [Outcome!Next]_Outcome!vars
<1> SUFFICES ASSUME OutcomeInv, OutcomeInv', [Next]_vars
             PROVE  [Outcome!Next]_Outcome!vars
  OBVIOUS
<1> USE DEF OutcomeInv
<1>0. PICK t \in Color : t = Turn(match)
  BY TurnIsColor
<1>1. /\ match \in MatchType /\ match' \in MatchType /\ t = Turn(match)
      /\ Outcome!Side = t /\ Opponent(t) \in Color /\ Opponent(Opponent(t)) = t
  BY <1>0, OutcomeSides, OpponentFacts DEF TypeOK
<1>2. /\ \A c \in Color : Outcome!Other(c) = Opponent(c) /\ Outcome!WinOf(c) = WinFor(c)
  BY OutcomeSides
<1>3. /\ match.endReason \in EndReason /\ match'.endReason \in EndReason
      /\ match.board # "open" => match.endReason = match.board
      /\ match'.board # "open" => match'.endReason = match'.board
      /\ EndReasonValue(match) = match.endReason
      /\ EndReasonValue(match') = match'.endReason
  <2>1. /\ match.endReason \in EndReason /\ match'.endReason \in EndReason
        /\ match.board # "open" => match.endReason = match.board
        /\ match'.board # "open" => match'.endReason = match'.board
    BY <1>1 DEF MatchType, ClockInv, EndingRecorded
  <2> QED
    BY <2>1, EndingIsRecorded
<1>4. ASSUME ~IsOver(match)
      PROVE  Result(match) = "*" /\ OutOfTime = {}
  <2>1. Result(match) = "*"
    BY <1>3, <1>4, LiveClock, ResultFacts
  <2>2. ~(Timed /\ IsFlagged(match.clock))
    BY <1>4, LiveClock DEF IsFlagged
  <2> QED
    BY <2>1, <2>2, OutOfTimeFacts
<1>out. OutOfTime' = IF Timed' /\ IsFlagged(match'.clock) THEN {Turn(match')} ELSE {}
  <2>1. ASSUME OutcomeInv' PROVE \A c \in Color : match'.clock.ms[c] \in Nat
    BY <2>1 DEF TypeOK, MatchType, ClockType
  <2>2. Turn(match') \in Color
    BY TurnIsColor
  <2>3. Timed' /\ IsFlagged(match'.clock) => match'.clock.ms[Turn(match')] = 0
    BY DEF ClockInv, ClockFollowsBoard, Timed
  <2> QED
    BY <2>1, <2>2, <2>3 DEF HasTime, OutOfTime, Timed
<1>5. ASSUME match' = match, gaveUp' = gaveUp PROVE UNCHANGED Outcome!vars
  BY <1>5 DEF Outcome!vars, OutOfTime, Timed
<1>6. CASE Tick
  <2>0. match' = MatchTick(match, unticked) /\ ~IsOver(match) /\ unticked \in Nat
        /\ gaveUp' = gaveUp
    BY <1>6, HistoryType DEF Tick
  <2>1. /\ match'.moves = match.moves /\ Turn(match') = t
        /\ match'.endReason = IF IsFlagged(match'.clock) THEN "flag" ELSE match.endReason
        /\ match.endReason = "none" /\ Result(match) = "*" /\ OutOfTime = {}
    BY <1>1, <1>4, <2>0, MatchTickFacts, LiveClock
  <2>2. CASE IsFlagged(match'.clock)
    <3>1. match'.clock.flagged = t /\ Timed'
      BY <2>1, <2>2 DEF ClockInv, ClockFollowsBoard, Timed, IsFlagged
    <3>2. Result(match') = WinFor(Opponent(t)) /\ OutOfTime' = {t}
      BY <1>0, <1>3, <1>out, <2>1, <2>2, <3>1, ResultFacts
    <3>3. Outcome!FlagFalls
      BY <1>0, <1>1, <1>2, <1>3, <2>0, <2>1, <2>2, <3>2 DEF Outcome!FlagFalls
    <3> QED
      BY <3>3 DEF Outcome!Next
  <2>3. CASE ~IsFlagged(match'.clock)
    <3>1. Result(match') = "*" /\ OutOfTime' = {}
      BY <1>3, <1>out, <2>1, <2>3, ResultFacts
    <3> QED
      BY <1>3, <2>0, <2>1, <2>3, <3>1 DEF Outcome!vars
  <2> QED
    BY <2>2, <2>3
<1>7. ASSUME NEW attempt \in BoardStatus, ~IsOver(match), match' = MatchMove(match, attempt),
             gaveUp' = gaveUp
      PROVE  Outcome!Play
  <2>1. /\ match'.endReason = IF attempt = "open" THEN match.endReason ELSE attempt
        /\ match.endReason = "none" /\ Result(match) = "*" /\ OutOfTime = {}
        /\ Len(match'.moves) = Len(match.moves) + 1
        /\ Turn(match') = Opponent(t)
    BY <1>1, <1>4, <1>7, MatchMoveFacts, LiveClock
  <2>2. \/ match'.endReason = "none" /\ Result(match') = "*"
        \/ match'.endReason = "checkmate" /\ Result(match') = WinFor(t)
        \/ match'.endReason \in {"stalemate", "draw"} /\ Result(match') = "1/2-1/2"
    <3>1. CASE attempt = "open"
      BY <1>3, <2>1, <3>1, ResultFacts
    <3>2. CASE attempt = "checkmate"
      BY <1>1, <1>3, <2>1, <3>2, ResultFacts
    <3>3. CASE attempt \in {"stalemate", "draw"}
      BY <1>3, <2>1, <3>3, ResultFacts
    <3> QED
      BY <1>7, <3>1, <3>2, <3>3 DEF BoardStatus
  <2>3. match'.endReason # "flag"
    BY <2>2
  <2>4. OutOfTime' = {}
    BY <1>out, <2>3 DEF ClockInv, ClockStopsAtEnd
  <2> QED
    BY <1>0, <1>1, <1>2, <1>3, <1>7, <2>1, <2>2, <2>4 DEF Outcome!Play
<1>8. ASSUME NEW c \in Color, ~IsOver(match), match' = MatchResign(match, c), gaveUp' = c
      PROVE  Outcome!Resign(c)
  <2>1. /\ match'.endReason = "resignation" /\ match'.resignedBy = c
        /\ match'.moves = match.moves /\ match.endReason = "none"
        /\ Result(match) = "*" /\ OutOfTime = {}
    BY <1>1, <1>4, <1>8, MatchResignFacts, LiveClock
  <2>2. Result(match') = WinFor(Opponent(c))
    BY <1>3, <2>1, ResultFacts
  <2>3. OutOfTime' = {}
    BY <1>out, <2>1 DEF ClockInv, ClockStopsAtEnd
  <2> QED
    BY <1>2, <1>3, <1>8, <2>1, <2>2, <2>3, OpponentFacts DEF Outcome!Resign
<1>9. CASE Move
  <2>1. gaveUp' = gaveUp
    BY <1>9 DEF Move
  <2> QED
    BY <1>5, <1>7, <1>9, <2>1, MoveCases DEF Outcome!Next
<1>10. CASE Resign
  <2>1. \/ match' = match /\ gaveUp' = gaveUp
        \/ ~IsOver(match) /\ \E c \in Color : match' = MatchResign(match, c) /\ gaveUp' = c
    BY <1>10 DEF Resign, MatchResign
  <2> QED
    BY <1>5, <1>8, <2>1 DEF Outcome!Next, Color
<1>11. CASE Elapse
  BY <1>5, <1>11 DEF Elapse
<1>12. CASE UNCHANGED vars
  BY <1>5, <1>12 DEF vars
<1> QED
  BY <1>6, <1>9, <1>10, <1>11, <1>12 DEF Next

\* A chess game keeps the promise of ChessOutcome: it is decided once, and lost by
\* the side that was mated, that ran out of time on its turn, or that resigned.
THEOREM OutcomeRefined == Spec => OutcomeDecidedOnce
<1>1. Init => OutcomeInv
  BY InitType, InitClockInv, InitHasTime DEF OutcomeInv
<1>2. OutcomeInv /\ [Next]_vars => OutcomeInv'
  BY NextType, NextClockInv, NextHasTime DEF OutcomeInv
<1>3. Init => Outcome!Init
  BY InitOutcome
<1>4. OutcomeInv /\ OutcomeInv' /\ [Next]_vars => [Outcome!Next]_Outcome!vars
  BY NextOutcome
<1> QED
  BY <1>1, <1>2, <1>3, <1>4, PTL DEF Spec, OutcomeDecidedOnce, Outcome!Spec

-----------------------------------------------------------------------------
(* ScoresheetReads is not inductive: the clock of the side to move bounds    *)
(* the reading its next move will add.                                       *)
LinesRead ==
    \A i \in 1 .. Len(match.moves) :
        /\ match.moves[i].color = (IF i % 2 = 1 THEN "w" ELSE "b")
        /\ match.moves[i].number = (i + 1) \div 2
        /\ ~Timed => match.moves[i].clockMs = NoTime

ReadingsGrow ==
    \A i \in 1 .. Len(match.moves) - 2 :
        match.moves[i + 2].clockMs <= match.moves[i].clockMs + IncrementMs

LastReading ==
    Timed /\ Len(match.moves) >= 1 =>
        match.moves[Len(match.moves)].clockMs = match.clock.ms[Opponent(Turn(match))]

MoverBound ==
    Timed /\ Len(match.moves) >= 2 =>
        match.clock.ms[Turn(match)] <= match.moves[Len(match.moves) - 1].clockMs

ReadingsAgree == LinesRead /\ ReadingsGrow /\ LastReading /\ MoverBound

LEMMA InitReadings == Init => ReadingsAgree
<1> SUFFICES ASSUME Init PROVE ReadingsAgree
  OBVIOUS
<1>1. match.moves = << >>
  BY DEF Init, MatchStart, NewMatch
<1>2. Len(match.moves) = 0
  BY <1>1
<1> QED
  BY <1>2 DEF ReadingsAgree, LinesRead, ReadingsGrow, LastReading, MoverBound

LEMMA SheetType ==
    ASSUME TypeOK
    PROVE  /\ match.moves \in Seq(MoveRecord) /\ Len(match.moves) \in Nat
           /\ \A i \in 1 .. Len(match.moves) : match.moves[i].clockMs \in Int
<1>1. match.moves \in Seq(MoveRecord)
  BY DEF TypeOK, MatchType
<1>2. ASSUME NEW i \in 1 .. Len(match.moves) PROVE match.moves[i].clockMs \in Int
  <2>1. match.moves[i] \in MoveRecord
    BY <1>1, <1>2
  <2> QED
    BY <2>1 DEF MoveRecord, NoTime
<1> QED
  BY <1>1, <1>2

\* The parity and the number of the next line of a scoresheet of n lines.
LEMMA NextLine ==
    ASSUME NEW n \in Nat
    PROVE  /\ (IF n % 2 = 0 THEN "w" ELSE "b") = (IF (n + 1) % 2 = 1 THEN "w" ELSE "b")
           /\ (n \div 2) + 1 = (n + 1 + 1) \div 2
<1>1. CASE n % 2 = 0
  BY <1>1
<1>2. CASE n % 2 # 0
  BY <1>2
<1> QED
  BY <1>1, <1>2

LEMMA NextReadings ==
    TypeOK /\ ClockInv /\ ReadingsAgree /\ [Next]_vars => ReadingsAgree'
<1> SUFFICES ASSUME TypeOK, ClockInv, ReadingsAgree, [Next]_vars
             PROVE  ReadingsAgree'
  OBVIOUS
<1>0. PICK t \in Color, o \in Color : t = Turn(match) /\ o = Opponent(t)
  BY TurnIsColor, OpponentFacts
<1>1. PICK n \in Nat : n = Len(match.moves)
  BY DEF TypeOK, MatchType
<1>2. /\ match \in MatchType /\ match.moves \in Seq(MoveRecord)
      /\ match.clock.ms[t] \in Nat /\ match.clock.ms[o] \in Nat
      /\ t = Turn(match) /\ o = Opponent(t) /\ Opponent(o) = t
  BY <1>0, OpponentFacts DEF TypeOK, MatchType, ClockType
<1>3. ASSUME match'.moves = match.moves, Turn(match') = t, Timed' <=> Timed,
             Timed => /\ match'.clock.ms[o] = match.clock.ms[o]
                      /\ match'.clock.ms[t] \in Nat
                      /\ match'.clock.ms[t] <= match.clock.ms[t]
      PROVE  ReadingsAgree'
  <2>1. \A i \in 1 .. n : match.moves[i].clockMs \in Int
    BY <1>1, SheetType
  <2>2. ASSUME Timed, n >= 2 PROVE match'.clock.ms[t] <= match.moves[n - 1].clockMs
    <3>1. match.clock.ms[t] <= match.moves[n - 1].clockMs
      BY <1>0, <1>1, <2>2 DEF ReadingsAgree, MoverBound
    <3>2. match.moves[n - 1].clockMs \in Int
      BY <2>1, <2>2
    <3> QED
      BY <1>2, <1>3, <2>2, <3>1, <3>2
  <2> QED
    BY <1>0, <1>1, <1>3, <2>2
       DEF ReadingsAgree, LinesRead, ReadingsGrow, LastReading, MoverBound
<1>4. ASSUME \/ match' = match
             \/ ~IsOver(match) /\ \E c \in Color : match' = MatchResign(match, c)
      PROVE  ReadingsAgree'
  BY <1>2, <1>3, <1>4, ChargedOtherwise
<1>5. CASE Tick
  <2>1. /\ ~IsOver(match) /\ unticked \in Nat /\ unticked > 0
        /\ match' = MatchTick(match, unticked)
    BY <1>5, HistoryType DEF Tick
  <2>2. /\ match'.clock = ClockTick(match.clock, unticked)
        /\ match'.moves = match.moves /\ Turn(match') = t
    BY <1>2, <2>1, MatchTickFacts
  <2>3. CASE Timed
    <3>1. match.clock.status = "running" /\ match.clock.active = t
      BY <1>0, <2>1, <2>3, LiveClock
    <3>2. /\ match'.clock.ms[o] = match.clock.ms[o]
          /\ match'.clock.ms[t] <= match.clock.ms[t]
          /\ match'.clock.status # "none"
      BY <1>0, <2>1, <2>2, <3>1, ClockTickFacts DEF TypeOK, MatchType
    <3>3. match'.clock.ms[t] \in Nat
      BY <1>0, <1>5, TickKeepsType DEF ClockType
    <3> QED
      BY <1>3, <2>2, <2>3, <3>2, <3>3 DEF Timed
  <2>4. CASE ~Timed
    BY <1>3, <1>5, <2>2, <2>4, TickUntimed
  <2> QED
    BY <2>3, <2>4
<1>6. ASSUME NEW attempt \in BoardStatus, ~IsOver(match), match' = MatchMove(match, attempt)
      PROVE  ReadingsAgree'
  <2> DEFINE e == SheetEntry(match, match'.clock)
  <2>1. /\ match'.clock = ClockAfterMove(match.clock, attempt)
        /\ match'.moves = Append(match.moves, e) /\ Turn(match') = o
    BY <1>0, <1>2, <1>6, MatchMoveFacts
  <2>2. match'.clock \in ClockType
    BY <1>2, <1>6, <2>1, ClockAfterMoveType DEF MatchType
  <2>3. e \in MoveRecord
    BY <1>2, <2>2, SheetEntryType
  <2>4. /\ e.color = (IF (n + 1) % 2 = 1 THEN "w" ELSE "b")
        /\ e.number = (n + 1 + 1) \div 2
        /\ e.clockMs = ClockReading(match'.clock, t)
    BY <1>0, <1>1, NextLine DEF SheetEntry, Turn
  <2> HIDE DEF e
  <2>5. /\ Len(match'.moves) = n + 1
        /\ \A i \in 1 .. n : match'.moves[i] = match.moves[i]
        /\ match'.moves[n + 1] = e
    BY <1>1, <1>2, <2>1, <2>3
  <2>6. LinesRead'
    <3> SUFFICES ASSUME NEW i \in 1 .. n + 1
                 PROVE  /\ match'.moves[i].color = (IF i % 2 = 1 THEN "w" ELSE "b")
                        /\ match'.moves[i].number = (i + 1) \div 2
                        /\ ~Timed' => match'.moves[i].clockMs = NoTime
      BY <2>5 DEF LinesRead
    <3>1. CASE i = n + 1
      BY <2>4, <2>5, <3>1 DEF ClockReading, Timed
    <3>2. CASE i # n + 1
      <4>1. i \in 1 .. n /\ match'.moves[i] = match.moves[i]
        BY <2>5, <3>2
      <4>2. ~Timed' => ~Timed
        BY <1>2, <1>6, <2>1, ChargedByMove DEF Timed
      <4> QED
        BY <1>1, <4>1, <4>2 DEF ReadingsAgree, LinesRead
    <3> QED
      BY <3>1, <3>2
  <2>7. CASE Timed
    <3>1. /\ match'.clock.ms[t] = match.clock.ms[t] + IncrementMs
          /\ match'.clock.ms[o] = match.clock.ms[o]
          /\ Timed'
      BY <1>0, <1>6, <2>7, ChargedByMove
    <3>2. e.clockMs = match.clock.ms[t] + IncrementMs
      BY <2>4, <3>1 DEF ClockReading, Timed
    <3>3. \A i \in 1 .. n : match.moves[i].clockMs \in Int
      BY <1>1, SheetType
    <3>4. ASSUME n >= 2 PROVE e.clockMs <= match.moves[n - 1].clockMs + IncrementMs
      <4>1. match.clock.ms[t] <= match.moves[n - 1].clockMs
        BY <1>0, <1>1, <2>7, <3>4 DEF ReadingsAgree, MoverBound
      <4>2. match.moves[n - 1].clockMs \in Int
        BY <3>3, <3>4
      <4> QED
        BY <1>2, <3>2, <4>1, <4>2, TimeControlAssumption
    <3>5. n >= 1 => match.moves[n].clockMs = match'.clock.ms[o]
      BY <1>0, <1>1, <2>7, <3>1 DEF ReadingsAgree, LastReading
    <3>6. e.clockMs = match'.clock.ms[t]
      BY <3>1, <3>2
    <3>7. ReadingsGrow'
      <4> SUFFICES ASSUME NEW i \in 1 .. n - 1
                   PROVE  match'.moves[i + 2].clockMs <= match'.moves[i].clockMs + IncrementMs
        BY <2>5 DEF ReadingsGrow
      <4>1. CASE i = n - 1
        BY <2>5, <3>4, <4>1
      <4>2. CASE i # n - 1
        <5>1. i \in 1 .. n - 2
          BY <4>2
        <5>2. match.moves[i + 2].clockMs <= match.moves[i].clockMs + IncrementMs
          BY <1>1, <5>1 DEF ReadingsAgree, ReadingsGrow
        <5>3. i \in 1 .. n /\ i + 2 \in 1 .. n
          BY <5>1
        <5> QED
          BY <2>5, <5>2, <5>3
      <4> QED
        BY <4>1, <4>2
    <3>8. LastReading'
      BY <1>2, <2>1, <2>5, <3>6 DEF LastReading
    <3>9. MoverBound'
      <4> SUFFICES ASSUME n >= 1
                   PROVE  match'.clock.ms[o] <= match'.moves[n].clockMs
        BY <2>1, <2>5 DEF MoverBound
      <4>1. match'.moves[n].clockMs = match'.clock.ms[o]
        BY <2>5, <3>5
      <4> QED
        BY <1>2, <3>1, <4>1
    <3> QED
      BY <2>6, <3>1, <3>7, <3>8, <3>9 DEF ReadingsAgree
  <2>8. CASE ~Timed
    <3>1. ~Timed'
      BY <1>6, <2>8, MoveUntimed
    <3>2. ReadingsGrow'
      <4>1. \A i \in 1 .. n + 1 : match'.moves[i].clockMs = NoTime
        BY <2>5, <2>6, <3>1 DEF LinesRead
      <4> SUFFICES ASSUME NEW i \in 1 .. n - 1
                   PROVE  match'.moves[i + 2].clockMs <= match'.moves[i].clockMs + IncrementMs
        BY <2>5 DEF ReadingsGrow
      <4>2. match'.moves[i + 2].clockMs = NoTime /\ match'.moves[i].clockMs = NoTime
        BY <4>1
      <4> QED
        BY <4>2, TimeControlAssumption DEF NoTime
    <3> QED
      BY <2>6, <3>1, <3>2 DEF ReadingsAgree, LastReading, MoverBound
  <2> QED
    BY <2>7, <2>8
<1>7. CASE Move
  BY <1>4, <1>6, <1>7, MoveCases
<1>8. CASE Resign
  BY <1>4, <1>8, ResignCases
<1>9. CASE Elapse
  BY <1>4, <1>9 DEF Elapse
<1>10. CASE UNCHANGED vars
  BY <1>4, <1>10 DEF vars
<1> QED
  BY <1>5, <1>7, <1>8, <1>9, <1>10 DEF Next

\* The scoresheet reads as one, whatever the clock does between its lines.
THEOREM ScoresheetReadsHolds == Spec => []ScoresheetReads
<1>1. Init => TypeOK /\ ClockInv /\ ReadingsAgree
  BY InitType, InitClockInv, InitReadings
<1>2. TypeOK /\ ClockInv /\ ReadingsAgree /\ [Next]_vars =>
          (TypeOK /\ ClockInv /\ ReadingsAgree)'
  BY NextType, NextClockInv, NextReadings
<1>3. TypeOK /\ ReadingsAgree => ScoresheetReads
  <2> SUFFICES ASSUME TypeOK, ReadingsAgree PROVE ScoresheetReads
    OBVIOUS
  <2>1. match.moves \in Seq(MoveRecord)
    BY DEF TypeOK, MatchType
  <2>2. PICK n \in Nat : n = Len(match.moves)
    BY <2>1
  <2>3. match.moves # << >> => n >= 1
    BY <2>1, <2>2
  <2> QED
    BY <2>2, <2>3
       DEF ReadingsAgree, LinesRead, ReadingsGrow, LastReading, ScoresheetReads
<1> QED
  BY <1>1, <1>2, <1>3, PTL DEF Spec
=============================================================================
