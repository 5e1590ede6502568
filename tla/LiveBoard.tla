----------------------------- MODULE LiveBoard -----------------------------
(***************************************************************************)
(* The pages of a live game: operators' consoles                           *)
(* (game/console/console-page.component.ts) that append events, and boards *)
(* (game/scoreboard, game/recap) that only read.  Every page reads the     *)
(* folded state again every two seconds, whether or not its earlier reads  *)
(* have been answered, and a console after each append it knows of.        *)
(*                                                                         *)
(* To the server an append is what EventTimeline implements: one step of   *)
(* EventLog.  As the log only grows, the state that answers a read is the  *)
(* fold of a prefix of it, and a page is on some prefix.                   *)
(***************************************************************************)
EXTENDS Integers, Sequences, FiniteSets, SequencesExt

CONSTANTS
    Consoles,
    Boards,
    Types,          \* the types of the events that are dispatched
    Lanes,          \* the reads that each page can have under way at once
    MaxClicks,      \* bound on the uses of each console
    MaxTime         \* bound on the consoles' clocks

ASSUME LiveBoardAssumption ==
    /\ MaxClicks \in Nat
    /\ MaxTime \in Nat

VARIABLES
    log,        \* the game's events, as the server stored them
    sent,       \* events on their way to the server
    answered,   \* stored events whose answers are on their way back
    clicks,     \* how often each console was used
    time,       \* each console's own clock at its last click (Date.now)
    reads,      \* each page's reads of the state
    shown       \* the length of the prefix that each page shows

vars == <<log, sent, answered, clicks, time, reads, shown>>

Pages == Consoles \cup Boards

\* The source under which a console sends an event.
SourceFor(type) ==
    CASE type \in {"score", "team-foul", "substitution"}                 -> "scorekeeper"
      [] type \in {"clock", "period", "possession", "timeout", "status"} -> "timekeeper"
      [] OTHER                                                           -> "judge"

Ids == 1 .. MaxClicks * Cardinality(Consoles)

Event == [id : Ids, type : Types, source : {SourceFor(type) : type \in Types},
          by : Consoles, no : 1 .. MaxClicks, stamp : 1 .. MaxTime]

EventLogOf == INSTANCE EventLog WITH Events <- Event, NoID <- 0, NoType <- ""

UsedIds == {e.id : e \in sent \cup answered \cup Range(log)}

\* A read is under way, or its answer is, with the prefix it was given.  A read
\* that follows an append is for the events of that console up to no.
NoRead == [stage |-> "none", no |-> 0, upto |-> 0]
Asked(no) == [stage |-> "asked", no |-> no, upto |-> 0]
Read == [stage : {"none", "asked", "served"}, no : 0 .. MaxClicks, upto : Nat]

Init ==
    /\ log = << >> /\ sent = {} /\ answered = {}
    /\ clicks = [c \in Consoles |-> 0]
    /\ time = [c \in Consoles |-> 0]
    /\ reads = [p \in Pages |-> [l \in Lanes[p] |-> NoRead]]
    /\ shown = [p \in Pages |-> 0]

SetRead(p, l, read) == reads' = [reads EXCEPT ![p][l] = read]

\* A fresh random id, the idempotency key (newEventID).
NewEventIDs == Ids \ UsedIds

\* A faulty buildEvent: the time is taken once, when the page opens.
StampOfPageLoad(now) == 1

\* The wall clock of the console's own device.
StampOf(now) == now

\* A faulty console: what was sent is shown before the server has it.
ShownOnClickAtOnce(c) == [shown EXCEPT ![c] = @ + 1]

\* A click alone changes no board.
ShownOnClick(c) == shown

\* A control is used: buildEvent stamps the event with the console's own clock.
Click(c) ==
    \E type \in Types, id \in NewEventIDs, now \in time[c] + 1 .. MaxTime :
        /\ clicks[c] < MaxClicks
        /\ clicks' = [clicks EXCEPT ![c] = @ + 1]
        /\ time' = [time EXCEPT ![c] = now]
        /\ sent' = sent \cup {[id |-> id, type |-> type, source |-> SourceFor(type),
                               by |-> c, no |-> clicks[c] + 1, stamp |-> StampOf(now)]}
        /\ shown' = ShownOnClick(c)
        /\ UNCHANGED <<log, answered, reads>>

\* The server stores an event.
Store(e) ==
    /\ EventLogOf!Add(e)
    /\ sent' = sent \ {e}
    /\ answered' = answered \cup {e}
    /\ UNCHANGED <<clicks, time, reads, shown>>

\* A faulty append: tried once more, built anew.
SentAfterRetry(e) ==
    (sent \ {e}) \cup {[e EXCEPT !.id = CHOOSE id \in Ids : id \notin UsedIds \/ Ids \subseteq UsedIds]}

\* A failed append is not tried again: only a missing session is, before anything
\* was sent (appendEvent).
SentAfterFailure(e) == sent \ {e}

\* The append fails, on the way there, at the server or on the way back: the
\* promise rejects and there is no refresh.
AppendFails(e) ==
    /\ sent' = SentAfterFailure(e)
    /\ answered' = answered \ {e}
    /\ UNCHANGED <<log, clicks, time, reads, shown>>

\* A faulty dispatch: the append is not awaited.
NotAwaited(e) == e \in sent \cup answered

Awaited(e) == e \in answered

\* The append is answered and the console reads the state again (dispatch).
AppendAnswered(e, l) ==
    /\ Awaited(e)
    /\ reads[e.by][l] = NoRead
    /\ answered' = answered \ {e}
    /\ SetRead(e.by, l, Asked(e.no))
    /\ UNCHANGED <<log, sent, clicks, time, shown>>

\* The two-second timer, and the page's first read.
Poll(p, l) ==
    /\ reads[p][l] = NoRead
    /\ SetRead(p, l, Asked(0))
    /\ UNCHANGED <<log, sent, answered, clicks, time, shown>>

\* The server folds the log it has.
ServeRead(p, l) ==
    /\ reads[p][l].stage = "asked"
    /\ SetRead(p, l, [reads[p][l] EXCEPT !.stage = "served", !.upto = Len(log)])
    /\ UNCHANGED <<log, sent, answered, clicks, time, shown>>

\* A faulty page: the first answer is kept.
ShowsFirst(p, upto) == [shown EXCEPT ![p] = IF @ = 0 THEN upto ELSE @]

Shows(p, upto) == [shown EXCEPT ![p] = upto]

\* A read's answer arrives, in whatever order, and is shown.
Refresh(p, l) ==
    /\ reads[p][l].stage = "served"
    /\ shown' = Shows(p, reads[p][l].upto)
    /\ SetRead(p, l, NoRead)
    /\ UNCHANGED <<log, sent, answered, clicks, time>>

\* A read fails and is forgotten.
ReadFails(p, l) ==
    /\ reads[p][l] # NoRead
    /\ SetRead(p, l, NoRead)
    /\ UNCHANGED <<log, sent, answered, clicks, time, shown>>

Next ==
    \/ \E c \in Consoles : Click(c)
    \/ \E e \in sent : Store(e)
    \/ \E e \in sent \cup answered : AppendFails(e)
    \/ \E e \in sent \cup answered : \E l \in Lanes[e.by] : AppendAnswered(e, l)
    \/ \E p \in Pages : \E l \in Lanes[p] :
          Poll(p, l) \/ ServeRead(p, l) \/ Refresh(p, l) \/ ReadFails(p, l)

\* The timer keeps running, and not every read fails.
Fairness ==
    \A p \in Pages :
        /\ WF_vars(\E l \in Lanes[p] : Poll(p, l))
        /\ SF_vars(\E l \in Lanes[p] : ServeRead(p, l))
        /\ SF_vars(\E l \in Lanes[p] : Refresh(p, l))

Spec == Init /\ [][Next]_vars
FairSpec == Spec /\ Fairness

-----------------------------------------------------------------------------
\* The order in which the state is folded (et.Order).
Before(e, f) == e.stamp < f.stamp \/ (e.stamp = f.stamp /\ e.id < f.id)

TypeOK ==
    /\ log \in Seq(Event)
    /\ sent \in SUBSET Event
    /\ answered \in SUBSET Range(log)
    /\ clicks \in [Consoles -> 0 .. MaxClicks]
    /\ time \in [Consoles -> 0 .. MaxTime]
    /\ reads = [p \in Pages |-> reads[p]]
    /\ \A p \in Pages : reads[p] \in [Lanes[p] -> Read]
    /\ shown \in [Pages -> 0 .. Len(log)]

\* A click counts once at most, and two clicks are two events.
ClickCountsOnce ==
    \A i, j \in DOMAIN log :
        log[i].id = log[j].id \/ (log[i].by = log[j].by /\ log[i].no = log[j].no) => i = j

\* The fold takes an operator's events in the order in which they were made,
\* whatever order their requests arrived in (game-state.ts buildEvent).
OwnClicksInOrder ==
    \A i, j \in DOMAIN log :
        log[i].by = log[j].by /\ log[i].no < log[j].no => Before(log[i], log[j])

\* The refresh after an append shows what was appended (dispatch).
RefreshShowsOwnAppend ==
    [][\A c \in Consoles : \A l \in Lanes[c] :
          Refresh(c, l) /\ reads[c][l].no > 0 =>
              \E i \in 1 .. shown'[c] : log[i].by = c /\ log[i].no = reads[c][l].no]_vars

\* Every page comes to show the whole game, and stays there once it is over.
EveryPageCatchesUp == \A p \in Pages : <>[](shown[p] = Len(log))
=============================================================================
