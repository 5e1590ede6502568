---------------------------- MODULE ChessClock ----------------------------
(***************************************************************************)
(* The chess clock of chess/chess-clock.ts (class ChessClockEngine), as    *)
(* operators on a clock record, one per public method.  The clock is pure: *)
(* it never reads the time, its host feeds it the elapsed milliseconds.    *)
(* Milliseconds are integers here; the code's are JavaScript numbers.      *)
(***************************************************************************)
EXTENDS Integers

CONSTANTS
    BaseMs,        \* ChessTimeControl.baseMs
    IncrementMs,   \* ChessTimeControl.incrementMs
    DelayMs        \* ChessTimeControl.delayMs, 0 where the preset has none

ASSUME TimeControlAssumption ==
    /\ BaseMs \in Nat \ {0}
    /\ IncrementMs \in Nat
    /\ DelayMs \in Nat

Color == {"w", "b"}

Opponent(c) == IF c = "w" THEN "b" ELSE "w"

\* "none" is the status of the clock of an untimed match, whose clock is null.
ClockStatus == {"none", "idle", "running", "paused", "flagged"}

\* `NoSide' stands for the code's null in `active' and `flaggedSide'.
NoSide == "none"

ClockType ==
    [ms      : [Color -> Nat],
     delay   : [Color -> Nat],
     active  : Color \cup {NoSide},
     status  : ClockStatus,
     flagged : Color \cup {NoSide}]

NewClock ==
    [ms      |-> [c \in Color |-> BaseMs],
     delay   |-> [c \in Color |-> DelayMs],
     active  |-> NoSide,
     status  |-> "idle",
     flagged |-> NoSide]

\* `clock === null': every `this.clock?.method()' on it is a no-op, as every
\* operation below is on a status that is none of its own.
NoClock == [NewClock EXCEPT !.status = "none"]

ClockStart(k, first) ==
    IF k.status = "idle"
    THEN [k EXCEPT !.active = first, !.status = "running"]
    ELSE k

LesserOf(x, y) == IF x < y THEN x ELSE y

\* What is left of an elapsed delta once the side's delay allowance is used up.
Chargeable(k, delta) == delta - LesserOf(k.delay[k.active], delta)

\* A faulty tick: the main budget goes below zero before the flag is looked at.
ClockTickUnclamped(k, delta) ==
    IF k.status # "running" \/ k.active = NoSide \/ delta <= 0
    THEN k
    ELSE LET side == k.active
             left == Chargeable(k, delta)
         IN  [k EXCEPT !.delay[side] = @ - LesserOf(@, delta),
                       !.ms[side]    = @ - left,
                       !.status      = IF k.ms[side] < left THEN "flagged" ELSE @,
                       !.flagged     = IF k.ms[side] < left THEN side ELSE @]

\* A faulty tick: the allowance is granted again at each report, never used up.
ClockTickKeepsDelay(k, delta) ==
    IF k.status # "running" \/ k.active = NoSide \/ delta <= 0
    THEN k
    ELSE LET side == k.active
             left == Chargeable(k, delta)
             ms   == IF k.ms[side] > left THEN k.ms[side] - left ELSE 0
         IN  [k EXCEPT !.ms[side] = ms,
                       !.status   = IF left > 0 /\ ms = 0 THEN "flagged" ELSE @,
                       !.flagged  = IF left > 0 /\ ms = 0 THEN side ELSE @]

ClockTick(k, delta) ==
    IF k.status # "running" \/ k.active = NoSide \/ delta <= 0
    THEN k
    ELSE LET side   == k.active
             left   == Chargeable(k, delta)
             ms     == IF k.ms[side] > left THEN k.ms[side] - left ELSE 0
             fallen == left > 0 /\ ms = 0
         IN  [k EXCEPT !.delay[side] = @ - LesserOf(@, delta),
                       !.ms[side]    = ms,
                       !.status      = IF fallen THEN "flagged" ELSE @,
                       !.flagged     = IF fallen THEN side ELSE @]

\* A faulty switch: credits the increment and forgets to hand the clock over.
ClockSwitchTurnKeepsSide(k) ==
    IF k.status # "running" \/ k.active = NoSide
    THEN k
    ELSE [k EXCEPT !.ms[k.active] = @ + IncrementMs, !.delay[k.active] = DelayMs]

ClockSwitchTurn(k) ==
    IF k.status # "running" \/ k.active = NoSide
    THEN k
    ELSE LET next == Opponent(k.active)
         IN  [k EXCEPT !.ms[k.active] = @ + IncrementMs,
                       !.delay[next]  = DelayMs,
                       !.active       = next]

ClockPause(k) == IF k.status = "running" THEN [k EXCEPT !.status = "paused"] ELSE k

IsFlagged(k) == k.status = "flagged"
=============================================================================
