-------------------------- MODULE ChessMatchProofs --------------------------
(***************************************************************************)
(* What the operations of the clock and the match return, for every time   *)
(* control: what the proofs about a game and about the play pages rest on. *)
(***************************************************************************)
EXTENDS ChessMatch, TLAPS

\* Half-moves, and the moves each side has made of them.
LEMMA Halves ==
    ASSUME NEW n \in Nat
    PROVE  /\ n \div 2 \in Nat /\ (n + 1) \div 2 \in Nat
           /\ n % 2 = 0 => (n + 1) \div 2 = n \div 2 /\ (n + 2) \div 2 = (n \div 2) + 1
                           /\ (n + 1) % 2 = 1
           /\ n % 2 # 0 => (n + 1) \div 2 = (n \div 2) + 1 /\ (n + 2) \div 2 = (n + 1) \div 2
                           /\ (n + 1) % 2 = 0 /\ n % 2 = 1
OBVIOUS

LEMMA NewMatchType ==
    ASSUME NEW timed \in BOOLEAN
    PROVE  MatchStart(NewMatch(timed)) \in MatchType
<1> USE TimeControlAssumption
<1>1. NewClock \in ClockType /\ NoClock \in ClockType
  BY DEF NewClock, NoClock, ClockType, Color, NoSide, ClockStatus
<1>2. NewMatch(timed) \in MatchType
  BY <1>1 DEF NewMatch, MatchType, BoardStatus, EndReason, NoSide
<1>3. ASSUME NEW k \in ClockType PROVE ClockStart(k, "w") \in ClockType
  BY <1>3 DEF ClockStart, ClockType, ClockStatus, Color
<1> QED
  BY <1>2, <1>3 DEF MatchStart, MatchType

LEMMA ClockTickType ==
    ASSUME NEW k \in ClockType, NEW delta \in Nat
    PROVE  ClockTick(k, delta) \in ClockType
<1> SUFFICES ASSUME k.status = "running", k.active # NoSide, delta > 0
             PROVE  ClockTick(k, delta) \in ClockType
  BY DEF ClockTick
<1> DEFINE side == k.active
           left == Chargeable(k, delta)
<1>1. side \in Color /\ k.delay[side] \in Nat /\ k.ms[side] \in Nat
  BY DEF ClockType
<1>2. left \in Nat /\ k.delay[side] - LesserOf(k.delay[side], delta) \in Nat
  BY <1>1 DEF Chargeable, LesserOf
<1>3. (IF k.ms[side] > left THEN k.ms[side] - left ELSE 0) \in Nat
  BY <1>1, <1>2
<1> HIDE DEF left
<1> QED
  BY <1>1, <1>2, <1>3 DEF ClockTick, ClockType, ClockStatus, left

\* What one report of elapsed time does to a running clock.
LEMMA ClockTickFacts ==
    ASSUME NEW k \in ClockType, NEW delta \in Nat,
           k.status = "running", k.active \in Color, delta > 0,
           NEW c, c = k.active,
           NEW t, t = ClockTick(k, delta)
    PROVE  /\ t.active = c
           /\ t.ms[Opponent(c)] = k.ms[Opponent(c)]
           /\ t.delay[Opponent(c)] = k.delay[Opponent(c)]
           /\ t.ms[c] <= k.ms[c] /\ k.ms[c] <= t.ms[c] + delta
           /\ \/ /\ t.status = "flagged" /\ t.flagged = c /\ t.ms[c] = 0
              \/ /\ t.status = "running" /\ t.flagged = k.flagged
                 /\ k.ms[c] + k.delay[c] = t.ms[c] + t.delay[c] + delta
                 /\ k.ms[c] > 0 => t.ms[c] > 0
<1> DEFINE left == Chargeable(k, delta)
           ms   == IF k.ms[c] > left THEN k.ms[c] - left ELSE 0
           used == LesserOf(k.delay[c], delta)
<1>1. c \in Color /\ Opponent(c) \in Color /\ Opponent(c) # c
  BY DEF Color, Opponent
<1>2. k.ms \in [Color -> Nat] /\ k.delay \in [Color -> Nat]
  BY DEF ClockType
<1>3. left \in Nat /\ used \in Nat /\ left + used = delta /\ ms \in Nat
  BY <1>1, <1>2 DEF Chargeable, LesserOf
<1>4. /\ t.active = c
      /\ t.ms = [k.ms EXCEPT ![c] = ms]
      /\ t.delay = [k.delay EXCEPT ![c] = @ - used]
      /\ t.status = IF left > 0 /\ ms = 0 THEN "flagged" ELSE k.status
      /\ t.flagged = IF left > 0 /\ ms = 0 THEN c ELSE k.flagged
  <2>1. c # NoSide /\ ~(delta <= 0)
    BY <1>1 DEF Color, NoSide
  <2> HIDE DEF left, ms, used
  <2> QED
    BY <1>1, <2>1 DEF ClockTick, ClockType, left, ms, used
<1>5. /\ t.ms[c] = ms /\ t.delay[c] = k.delay[c] - used
      /\ t.ms[Opponent(c)] = k.ms[Opponent(c)]
      /\ t.delay[Opponent(c)] = k.delay[Opponent(c)]
  BY <1>1, <1>2, <1>4
<1>6. k.ms[c] \in Nat /\ k.delay[c] \in Nat
  BY <1>1, <1>2
<1>7. ms <= k.ms[c] /\ k.ms[c] <= ms + left
  BY <1>3, <1>6
<1>8. ~(left > 0 /\ ms = 0) => k.ms[c] = ms + left
  BY <1>3, <1>6
<1> HIDE DEF left, ms, used
<1>9. CASE left > 0 /\ ms = 0
  BY <1>3, <1>4, <1>5, <1>6, <1>7, <1>9
<1>10. CASE ~(left > 0 /\ ms = 0)
  BY <1>3, <1>4, <1>5, <1>6, <1>7, <1>8, <1>10
<1> QED
  BY <1>9, <1>10

LEMMA ClockSwitchTurnType ==
    ASSUME NEW k \in ClockType
    PROVE  ClockSwitchTurn(k) \in ClockType
<1> SUFFICES ASSUME k.status = "running", k.active \in Color
             PROVE  ClockSwitchTurn(k) \in ClockType
  BY DEF ClockSwitchTurn, ClockType, NoSide
<1>1. k.ms[k.active] + IncrementMs \in Nat /\ DelayMs \in Nat
  BY TimeControlAssumption DEF ClockType
<1>2. Opponent(k.active) \in Color
  BY DEF Opponent, Color
<1> QED
  BY <1>1, <1>2 DEF ClockSwitchTurn, ClockType

LEMMA ClockPauseType ==
    ASSUME NEW k \in ClockType
    PROVE  ClockPause(k) \in ClockType
BY DEF ClockPause, ClockType, ClockStatus

LEMMA ClockAfterMoveType ==
    ASSUME NEW k \in ClockType, NEW attempt \in BoardStatus
    PROVE  ClockAfterMove(k, attempt) \in ClockType
BY ClockSwitchTurnType, ClockPauseType DEF ClockAfterMove

\* What an accepted move does to a running clock.
LEMMA ClockAfterMoveFacts ==
    ASSUME NEW k \in ClockType, NEW attempt \in BoardStatus,
           k.status = "running", k.active \in Color,
           NEW c, c = k.active,
           NEW t, t = ClockAfterMove(k, attempt)
    PROVE  /\ t.active = Opponent(c)
           /\ t.ms[c] = k.ms[c] + IncrementMs
           /\ t.ms[Opponent(c)] = k.ms[Opponent(c)]
           /\ t.delay[c] = k.delay[c]
           /\ t.delay[Opponent(c)] = DelayMs
           /\ t.flagged = k.flagged
           /\ t.status = IF attempt = "open" THEN "running" ELSE "paused"
<1> USE TimeControlAssumption
<1>1. c \in Color /\ Opponent(c) \in Color /\ Opponent(c) # c /\ c # NoSide
  BY DEF Color, Opponent, NoSide
<1>2. k.ms \in [Color -> Nat] /\ k.delay \in [Color -> Nat]
  BY DEF ClockType
<1> DEFINE s == ClockSwitchTurn(k)
<1>3. /\ s.active = Opponent(c) /\ s.status = "running" /\ s.flagged = k.flagged
      /\ s.ms = [k.ms EXCEPT ![c] = @ + IncrementMs]
      /\ s.delay = [k.delay EXCEPT ![Opponent(c)] = DelayMs]
  BY <1>1 DEF ClockSwitchTurn, ClockType
<1>4. /\ t.active = s.active /\ t.flagged = s.flagged /\ t.ms = s.ms /\ t.delay = s.delay
      /\ t.status = IF attempt = "open" THEN "running" ELSE "paused"
  <2>1. s \in ClockType
    BY ClockSwitchTurnType
  <2> HIDE DEF s
  <2>2. t = IF attempt = "open" THEN s ELSE ClockPause(s)
    BY DEF ClockAfterMove, s
  <2> QED
    BY <1>3, <2>1, <2>2 DEF ClockPause, ClockType
<1> HIDE DEF s
<1> QED
  BY <1>1, <1>2, <1>3, <1>4

LEMMA MatchTickType ==
    ASSUME NEW m \in MatchType, NEW delta \in Nat
    PROVE  MatchTick(m, delta) \in MatchType
<1>1. m.clock \in ClockType
  BY DEF MatchType
<1>2. ClockTick(m.clock, delta) \in ClockType
  BY <1>1, ClockTickType
<1> QED
  BY <1>2 DEF MatchTick, MatchType, EndReason

LEMMA SheetEntryType ==
    ASSUME NEW m \in MatchType, NEW clock \in ClockType
    PROVE  SheetEntry(m, clock) \in MoveRecord
<1>1. (Len(m.moves) \div 2) + 1 \in Nat
  BY Halves DEF MatchType
<1>2. Turn(m) \in Color
  BY DEF Turn, Color
<1>3. ClockReading(clock, Turn(m)) \in Nat \cup {NoTime}
  BY <1>2 DEF ClockReading, ClockType
<1> QED
  BY <1>1, <1>2, <1>3 DEF SheetEntry, MoveRecord

LEMMA MatchMoveType ==
    ASSUME NEW m \in MatchType, NEW attempt \in Attempt
    PROVE  MatchMove(m, attempt) \in MatchType
<1> SUFFICES ASSUME attempt # "illegal", ~IsOver(m)
             PROVE  MatchMove(m, attempt) \in MatchType
  BY DEF MatchMove
<1> DEFINE clock == ClockAfterMove(m.clock, attempt)
           entry == SheetEntry(m, clock)
<1>1. attempt \in BoardStatus /\ (attempt = "open" \/ attempt \in EndReason)
  BY DEF Attempt, BoardStatus, EndReason
<1>2. m.clock \in ClockType /\ m.moves \in Seq(MoveRecord)
  BY DEF MatchType
<1>3. clock \in ClockType
  BY <1>1, <1>2, ClockAfterMoveType
<1>4. entry \in MoveRecord
  BY <1>3, SheetEntryType
<1>5. MatchMove(m, attempt) =
          [m EXCEPT !.clock     = clock,
                    !.board     = attempt,
                    !.endReason = IF attempt = "open" THEN @ ELSE attempt,
                    !.moves     = Append(m.moves, entry)]
  BY DEF MatchMove
<1> HIDE DEF clock, entry
<1>6. Append(m.moves, entry) \in Seq(MoveRecord)
  BY <1>2, <1>4
<1> QED
  BY <1>1, <1>3, <1>5, <1>6 DEF MatchType

LEMMA MatchResignType ==
    ASSUME NEW m \in MatchType, NEW c \in Color
    PROVE  MatchResign(m, c) \in MatchType
<1>1. ClockPause(m.clock) \in ClockType
  BY ClockPauseType DEF MatchType
<1> QED
  BY <1>1 DEF MatchResign, MatchType, EndReason

-----------------------------------------------------------------------------
\* The fields of the match after each operation on a match that is not over.

LEMMA MatchTickFacts ==
    ASSUME NEW m \in MatchType, NEW delta \in Nat, ~IsOver(m),
           NEW n, n = MatchTick(m, delta)
    PROVE  /\ n.clock = ClockTick(m.clock, delta)
           /\ n.board = m.board /\ n.moves = m.moves /\ n.resignedBy = m.resignedBy
           /\ n.endReason = IF IsFlagged(n.clock) THEN "flag" ELSE m.endReason
           /\ Turn(n) = Turn(m)
BY DEF MatchTick, MatchType, Turn

LEMMA TurnPasses ==
    ASSUME NEW m, NEW n, Len(m.moves) \in Nat, Len(n.moves) = Len(m.moves) + 1
    PROVE  Turn(n) = Opponent(Turn(m))
<1>1. PICK k \in Nat : k = Len(m.moves)
  OBVIOUS
<1>2. Len(n.moves) = k + 1
  BY <1>1
<1>3. CASE k % 2 = 0
  <2>1. (k + 1) % 2 # 0
    BY <1>3
  <2> QED
    BY <1>1, <1>2, <1>3, <2>1 DEF Turn, Opponent
<1>4. CASE k % 2 # 0
  <2>1. (k + 1) % 2 = 0
    BY <1>4
  <2> QED
    BY <1>1, <1>2, <1>4, <2>1 DEF Turn, Opponent
<1> QED
  BY <1>3, <1>4

LEMMA MatchMoveFacts ==
    ASSUME NEW m \in MatchType, NEW attempt \in BoardStatus, ~IsOver(m),
           NEW n, n = MatchMove(m, attempt)
    PROVE  /\ n.clock = ClockAfterMove(m.clock, attempt)
           /\ n.board = attempt /\ n.resignedBy = m.resignedBy
           /\ n.endReason = IF attempt = "open" THEN m.endReason ELSE attempt
           /\ n.moves = Append(m.moves, SheetEntry(m, n.clock))
           /\ Len(n.moves) = Len(m.moves) + 1
           /\ Turn(n) = Opponent(Turn(m))
<1> DEFINE clock == ClockAfterMove(m.clock, attempt)
           entry == SheetEntry(m, clock)
<1>1. n = [m EXCEPT !.clock     = clock,
                    !.board     = attempt,
                    !.endReason = IF attempt = "open" THEN @ ELSE attempt,
                    !.moves     = Append(@, entry)]
  <2>1. attempt # "illegal"
    BY DEF BoardStatus
  <2> QED
    BY <2>1 DEF MatchMove
<1> HIDE DEF clock, entry
<1>2. /\ n.clock = clock /\ n.board = attempt /\ n.resignedBy = m.resignedBy
      /\ n.endReason = IF attempt = "open" THEN m.endReason ELSE attempt
      /\ n.moves = Append(m.moves, entry)
  BY <1>1 DEF MatchType
<1>3. m.moves \in Seq(MoveRecord)
  BY DEF MatchType
<1>4. Len(n.moves) = Len(m.moves) + 1 /\ Len(m.moves) \in Nat
  BY <1>2, <1>3
<1>5. Turn(n) = Opponent(Turn(m))
  BY <1>4, TurnPasses
<1> QED
  BY <1>2, <1>4, <1>5 DEF clock, entry

LEMMA MatchResignFacts ==
    ASSUME NEW m \in MatchType, NEW c \in Color, ~IsOver(m),
           NEW n, n = MatchResign(m, c)
    PROVE  /\ n.clock = ClockPause(m.clock)
           /\ n.board = m.board /\ n.moves = m.moves /\ n.resignedBy = c
           /\ n.endReason = "resignation"
           /\ Turn(n) = Turn(m)
BY DEF MatchResign, MatchType, Turn

LEMMA ClockPauseFacts ==
    ASSUME NEW k \in ClockType
    PROVE  /\ ClockPause(k).ms = k.ms /\ ClockPause(k).delay = k.delay
           /\ ClockPause(k).active = k.active /\ ClockPause(k).flagged = k.flagged
           /\ ClockPause(k).status = IF k.status = "running" THEN "paused" ELSE k.status
BY DEF ClockPause, ClockType

\* Nothing happens to the clock an untimed match does not have.
LEMMA UntimedClock ==
    ASSUME NEW k, k.status = "none"
    PROVE  /\ \A delta : ClockTick(k, delta) = k
           /\ \A attempt : ClockAfterMove(k, attempt) = k
           /\ ClockPause(k) = k
BY DEF ClockTick, ClockAfterMove, ClockSwitchTurn, ClockPause

LEMMA OpponentFacts ==
    ASSUME NEW c \in Color
    PROVE  /\ Opponent(c) \in Color /\ Opponent(c) # c /\ c # NoSide
           /\ Opponent(Opponent(c)) = c /\ Color = {c, Opponent(c)}
BY DEF Color, Opponent, NoSide

LEMMA TurnIsColor == ASSUME NEW m PROVE Turn(m) \in Color
BY DEF Turn, Color
=============================================================================
