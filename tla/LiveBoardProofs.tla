--------------------------- MODULE LiveBoardProofs ---------------------------
(***************************************************************************)
(* Proofs about the live pages, for any consoles, boards and lanes, and    *)
(* any number of clicks.                                                   *)
(*                                                                         *)
(* The invariant BoardInv follows an event from its click: sent or stored, *)
(* it is the only one under its id and of its click, and the stamps of a   *)
(* console's events are in the order of its clicks.  Of a read it says     *)
(* that it cannot be ahead of the log, and that one that follows an append *)
(* is for a log that has the event.                                        *)
(***************************************************************************)
EXTENDS LiveBoard, TLAPS

\* Events that were sent and are not lost.
Known == sent \cup Range(log)

OneEventPerClick ==
    \A e, f \in Known : e.id = f.id \/ (e.by = f.by /\ e.no = f.no) => e = f

\* An event is of a click that was made, and not from the future.
FromPastClicks ==
    \A e \in Known : e.no <= clicks[e.by] /\ e.stamp <= time[e.by]

StampsFollowClicks ==
    \A e, f \in Known : e.by = f.by /\ e.no < f.no => e.stamp < f.stamp

\* The log has no id twice.
OneEntryPerId ==
    \A i, j \in DOMAIN log : log[i].id = log[j].id => i = j

ReadsBehindLog ==
    \A p \in Pages : \A l \in Lanes[p] : reads[p][l].upto <= Len(log)

\* The prefix that a read is given, or will be.
PrefixOf(read) == IF read.stage = "served" THEN read.upto ELSE Len(log)

HasClick(c, no, upto) == \E i \in 1 .. upto : log[i].by = c /\ log[i].no = no

ReadsHaveAppend ==
    \A c \in Consoles : \A l \in Lanes[c] :
        reads[c][l].no > 0 => HasClick(c, reads[c][l].no, PrefixOf(reads[c][l]))

BoardInv ==
    /\ TypeOK
    /\ OneEventPerClick
    /\ FromPastClicks
    /\ StampsFollowClicks
    /\ OneEntryPerId
    /\ ReadsBehindLog
    /\ ReadsHaveAppend

-----------------------------------------------------------------------------
LEMMA NoReadType == NoRead \in Read
BY LiveBoardAssumption DEF NoRead, Read

\* A page's read is changed, all others are not.
LEMMA ReadSet ==
    ASSUME TypeOK, NEW p \in Pages, NEW l \in Lanes[p], NEW read \in Read, SetRead(p, l, read)
    PROVE  /\ \A q \in Pages : reads'[q] \in [Lanes[q] -> Read]
           /\ reads'[p][l] = read
           /\ \A q \in Pages : \A k \in Lanes[q] :
                 (q = p /\ k = l) \/ reads'[q][k] = reads[q][k]
BY DEF TypeOK, SetRead

\* The log stays, or grows by one event, under an id that it did not have.
LEMMA StoreAppends ==
    ASSUME TypeOK, NEW e \in sent, Store(e)
    PROVE  /\ log' = Append(log, e)
           /\ log' \in Seq(Event)
           /\ Len(log') = Len(log) + 1
           /\ \A i \in 1 .. Len(log) : log'[i] = log[i] /\ log[i].id # e.id
           /\ log'[Len(log')] = e
           /\ Range(log') = Range(log) \cup {e}
<1>1. log \in Seq(Event) /\ e \in Event
  BY DEF TypeOK
<1>2. log' = Append(log, e) /\ \A i \in 1 .. Len(log) : log[i].id # e.id
  BY DEF Store, EventLogOf!Add, EventLogOf!Holds
<1> QED
  BY <1>1, <1>2 DEF Range

-----------------------------------------------------------------------------
(***************************************************************************)
(* Types.                                                                  *)
(***************************************************************************)

LEMMA InitialTypes == Init => TypeOK
<1> SUFFICES ASSUME Init PROVE TypeOK
  OBVIOUS
<1>1. reads = [p \in Pages |-> reads[p]] /\ \A p \in Pages : reads[p] \in [Lanes[p] -> Read]
  BY NoReadType DEF Init
<1>2. log \in Seq(Event) /\ Len(log) = 0
  BY DEF Init
<1> QED
  BY <1>1, <1>2, LiveBoardAssumption DEF Init, TypeOK

LEMMA ClickTypes ==
    ASSUME TypeOK, NEW c \in Consoles, Click(c)
    PROVE  TypeOK'
<1> USE LiveBoardAssumption
<1>1. PICK type \in Types, id \in NewEventIDs, now \in time[c] + 1 .. MaxTime :
        /\ clicks[c] < MaxClicks
        /\ clicks' = [clicks EXCEPT ![c] = @ + 1]
        /\ time' = [time EXCEPT ![c] = now]
        /\ sent' = sent \cup {[id |-> id, type |-> type, source |-> SourceFor(type),
                               by |-> c, no |-> clicks[c] + 1, stamp |-> now]}
        /\ UNCHANGED <<log, answered, reads, shown>>
  BY DEF Click, StampOf, ShownOnClick
<1>2. clicks[c] \in 0 .. MaxClicks /\ time[c] \in 0 .. MaxTime
  BY DEF TypeOK
<1>3. clicks[c] + 1 \in 1 .. MaxClicks /\ now \in 1 .. MaxTime
  BY <1>1, <1>2
<1>4. clicks' \in [Consoles -> 0 .. MaxClicks] /\ time' \in [Consoles -> 0 .. MaxTime]
  BY <1>1, <1>3 DEF TypeOK
<1>5. sent' \in SUBSET Event
  BY <1>1, <1>3 DEF TypeOK, Event, NewEventIDs
<1> QED
  BY <1>1, <1>4, <1>5 DEF TypeOK

LEMMA StoreTypes ==
    ASSUME TypeOK, NEW e \in sent, Store(e)
    PROVE  TypeOK'
<1>1. sent' \in SUBSET Event /\ UNCHANGED <<clicks, time, reads, shown>> /\ answered' = answered \cup {e}
  BY DEF TypeOK, Store
<1>2. answered' \in SUBSET Range(log')
  BY <1>1, StoreAppends DEF TypeOK
<1>3. shown' \in [Pages -> 0 .. Len(log')]
  BY <1>1, StoreAppends DEF TypeOK
<1> QED
  BY <1>1, <1>2, <1>3, StoreAppends DEF TypeOK

\* The steps of a read.
ReadStep(p, l) == Poll(p, l) \/ ServeRead(p, l) \/ Refresh(p, l) \/ ReadFails(p, l)

\* What a step does to the read it is about.
LEMMA ReadChange ==
    ASSUME TypeOK, NEW p \in Pages, NEW l \in Lanes[p], ReadStep(p, l)
    PROVE  \E read \in Read :
              /\ SetRead(p, l, read)
              /\ \/ read \in {NoRead, Asked(0)}
                 \/ /\ ServeRead(p, l)
                    /\ read = [reads[p][l] EXCEPT !.stage = "served", !.upto = Len(log)]
<1>1. reads[p][l] \in Read /\ Len(log) \in Nat
  BY DEF TypeOK
<1>2. Asked(0) \in Read
  BY LiveBoardAssumption DEF Asked, Read
<1>3. CASE ServeRead(p, l)
  BY <1>1, <1>3 DEF ServeRead, Read
<1>4. CASE Poll(p, l) \/ Refresh(p, l) \/ ReadFails(p, l)
  BY <1>2, <1>4, NoReadType DEF Poll, Refresh, ReadFails
<1> QED
  BY <1>3, <1>4 DEF ReadStep

LEMMA ReadTypes ==
    ASSUME TypeOK, ReadsBehindLog, NEW p \in Pages, NEW l \in Lanes[p], ReadStep(p, l)
    PROVE  TypeOK'
<1>1. PICK read \in Read : SetRead(p, l, read)
  BY ReadChange
<1>2. reads' = [q \in Pages |-> reads'[q]] /\ \A q \in Pages : reads'[q] \in [Lanes[q] -> Read]
  BY <1>1, ReadSet DEF SetRead, TypeOK
<1>3. UNCHANGED <<log, sent, answered, clicks, time>>
  BY DEF ReadStep, Poll, ServeRead, Refresh, ReadFails
<1>4. reads[p][l].upto \in 0 .. Len(log)
  BY DEF TypeOK, Read, ReadsBehindLog
<1>5. shown' \in [Pages -> 0 .. Len(log)]
  BY <1>4 DEF TypeOK, ReadStep, Poll, ServeRead, Refresh, ReadFails, Shows
<1> QED
  BY <1>2, <1>3, <1>5 DEF TypeOK

LEMMA AnswerTypes ==
    ASSUME TypeOK, NEW e \in sent \cup answered, NEW l \in Lanes[e.by], AppendAnswered(e, l)
    PROVE  TypeOK' /\ e.by \in Consoles /\ Asked(e.no) \in Read
<1>1. e \in Event
  BY DEF TypeOK, Range
<1>2. e.by \in Consoles /\ e.by \in Pages /\ Asked(e.no) \in Read
  BY <1>1, LiveBoardAssumption DEF Event, Pages, Asked, Read
<1>3. reads' = [q \in Pages |-> reads'[q]] /\ \A q \in Pages : reads'[q] \in [Lanes[q] -> Read]
  BY <1>2, ReadSet DEF AppendAnswered, SetRead, TypeOK
<1> QED
  BY <1>2, <1>3 DEF TypeOK, AppendAnswered

LEMMA TypesKept ==
    ASSUME BoardInv, [Next]_vars
    PROVE  TypeOK'
<1> USE DEF BoardInv
<1>1. ASSUME NEW c \in Consoles, Click(c) PROVE TypeOK'
  BY <1>1, ClickTypes
<1>2. ASSUME NEW e \in sent, Store(e) PROVE TypeOK'
  BY <1>2, StoreTypes
<1>3. ASSUME NEW e \in sent \cup answered, AppendFails(e) PROVE TypeOK'
  BY <1>3 DEF AppendFails, SentAfterFailure, TypeOK
<1>4. ASSUME NEW e \in sent \cup answered, NEW l \in Lanes[e.by], AppendAnswered(e, l) PROVE TypeOK'
  BY <1>4, AnswerTypes
<1>5. ASSUME NEW p \in Pages, NEW l \in Lanes[p], ReadStep(p, l) PROVE TypeOK'
  BY <1>5, ReadTypes
<1>6. CASE UNCHANGED vars
  BY <1>6 DEF vars, TypeOK
<1> QED
  BY <1>1, <1>2, <1>3, <1>4, <1>5, <1>6 DEF Next, ReadStep

-----------------------------------------------------------------------------
(***************************************************************************)
(* Events.                                                                 *)
(***************************************************************************)

EventsInv == OneEventPerClick /\ FromPastClicks /\ StampsFollowClicks /\ OneEntryPerId

\* What only loses events, or moves them from the way to the log, disturbs nothing.
LEMMA FewerKnown ==
    ASSUME EventsInv, Known' \subseteq Known, UNCHANGED <<clicks, time>>, OneEntryPerId'
    PROVE  EventsInv'
BY DEF EventsInv, OneEventPerClick, FromPastClicks, StampsFollowClicks

LEMMA KnownAreEvents ==
    ASSUME TypeOK
    PROVE  \A e \in Known : e \in Event
BY DEF TypeOK, Known, Range

LEMMA ClickEvents ==
    ASSUME BoardInv, NEW c \in Consoles, Click(c)
    PROVE  EventsInv'
<1> USE LiveBoardAssumption DEF BoardInv
<1>1. PICK type \in Types, id \in NewEventIDs, now \in time[c] + 1 .. MaxTime :
        /\ clicks' = [clicks EXCEPT ![c] = @ + 1]
        /\ time' = [time EXCEPT ![c] = now]
        /\ sent' = sent \cup {[id |-> id, type |-> type, source |-> SourceFor(type),
                               by |-> c, no |-> clicks[c] + 1, stamp |-> now]}
        /\ UNCHANGED log
  BY DEF Click, StampOf
<1> DEFINE new == [id |-> id, type |-> type, source |-> SourceFor(type),
                   by |-> c, no |-> clicks[c] + 1, stamp |-> now]
<1>2. Known' = Known \cup {new}
  BY <1>1 DEF Known
<1>3. clicks \in [Consoles -> Int] /\ time \in [Consoles -> Int] /\ now \in Int
  BY <1>1 DEF TypeOK
<1>4. \A e \in Known : e.by \in Consoles /\ e.no \in Int /\ e.stamp \in Int
  BY KnownAreEvents DEF Event
<1>5. \A e \in Known : e.id # id
  BY DEF NewEventIDs, UsedIds, Known
<1>6. \A e \in Known : e.by = c => e.no < new.no /\ e.stamp < new.stamp
  BY <1>1, <1>3, <1>4 DEF FromPastClicks
<1>7. OneEventPerClick'
  BY <1>2, <1>4, <1>5, <1>6 DEF OneEventPerClick
<1>8. FromPastClicks'
  <2> SUFFICES ASSUME NEW e \in Known' PROVE e.no <= clicks'[e.by] /\ e.stamp <= time'[e.by]
    BY DEF FromPastClicks
  <2>1. CASE e = new
    BY <1>1, <1>3, <2>1
  <2>2. CASE e \in Known
    BY <1>1, <1>3, <1>4, <2>2 DEF FromPastClicks
  <2> QED
    BY <1>2, <2>1, <2>2
<1>9. StampsFollowClicks'
  <2> SUFFICES ASSUME NEW e \in Known', NEW f \in Known', e.by = f.by, e.no < f.no
               PROVE  e.stamp < f.stamp
    BY DEF StampsFollowClicks
  <2>1. CASE e \in Known /\ f \in Known
    BY <2>1 DEF StampsFollowClicks
  <2>2. CASE f = new /\ e \in Known
    BY <1>6, <2>2
  <2>3. CASE e = new
    <3>1. f.no <= new.no /\ new.no \in Int /\ f.no \in Int
      BY <1>2, <1>3, <1>4, <1>6, <2>3
    <3> QED
      BY <2>3, <3>1
  <2> QED
    BY <1>2, <2>1, <2>2, <2>3
<1>10. OneEntryPerId'
  BY <1>1 DEF OneEntryPerId
<1> QED
  BY <1>7, <1>8, <1>9, <1>10 DEF EventsInv

LEMMA StoreEvents ==
    ASSUME BoardInv, NEW e \in sent, Store(e)
    PROVE  EventsInv'
<1> USE DEF BoardInv
<1>1. sent' = sent \ {e} /\ UNCHANGED <<clicks, time>>
  BY DEF Store
<1>2. Known' \subseteq Known
  BY <1>1, StoreAppends DEF Known
<1>3. DOMAIN log' = 1 .. Len(log) + 1 /\ DOMAIN log = 1 .. Len(log) /\ Len(log) \in Nat
  BY StoreAppends DEF TypeOK
<1>4. OneEntryPerId'
  <2> SUFFICES ASSUME NEW i \in DOMAIN log', NEW j \in DOMAIN log', log'[i].id = log'[j].id
               PROVE  i = j
    BY DEF OneEntryPerId
  <2>1. CASE i \in 1 .. Len(log) /\ j \in 1 .. Len(log)
    BY <1>3, <2>1, StoreAppends DEF OneEntryPerId
  <2>2. CASE i = Len(log) + 1 \/ j = Len(log) + 1
    BY <1>3, <2>2, StoreAppends
  <2> QED
    BY <1>3, <2>1, <2>2
<1> QED
  BY <1>1, <1>2, <1>4, FewerKnown DEF EventsInv

LEMMA EventsKept ==
    ASSUME BoardInv, [Next]_vars
    PROVE  EventsInv'
<1>1. ASSUME NEW c \in Consoles, Click(c) PROVE EventsInv'
  BY <1>1, ClickEvents
<1>2. ASSUME NEW e \in sent, Store(e) PROVE EventsInv'
  BY <1>2, StoreEvents
<1>3. ASSUME NEW e \in sent \cup answered, AppendFails(e) PROVE EventsInv'
  <2>1. Known' \subseteq Known /\ UNCHANGED <<log, clicks, time>>
    BY <1>3 DEF AppendFails, SentAfterFailure, Known
  <2> QED
    BY <2>1, FewerKnown DEF BoardInv, EventsInv, OneEntryPerId
<1>4. ASSUME UNCHANGED <<log, sent, clicks, time>> PROVE EventsInv'
  BY <1>4, FewerKnown DEF BoardInv, EventsInv, OneEntryPerId, Known
<1> QED
  BY <1>1, <1>2, <1>3, <1>4
     DEF Next, vars, AppendAnswered, Poll, ServeRead, Refresh, ReadFails

-----------------------------------------------------------------------------
(***************************************************************************)
(* Reads.                                                                  *)
(***************************************************************************)

ReadsInv == ReadsBehindLog /\ ReadsHaveAppend

\* What a console has in a prefix it has in a longer one, and as the log grows.
LEMMA PrefixGrows ==
    ASSUME TypeOK, ReadsInv, UNCHANGED reads, Len(log') \in Nat, Len(log) <= Len(log'),
           \A i \in 1 .. Len(log) : log'[i] = log[i]
    PROVE  ReadsInv'
<1>1. Len(log) \in Nat /\ \A p \in Pages : \A l \in Lanes[p] : reads[p][l] \in Read
  BY DEF TypeOK
<1>2. ReadsBehindLog'
  BY <1>1 DEF ReadsInv, ReadsBehindLog, Read
<1>3. ReadsHaveAppend'
  <2> SUFFICES ASSUME NEW c \in Consoles, NEW l \in Lanes[c], reads[c][l].no > 0
               PROVE  HasClick(c, reads[c][l].no, PrefixOf(reads[c][l]))'
    BY DEF ReadsHaveAppend
  <2>1. reads[c][l].upto \in Nat /\ reads[c][l].upto <= Len(log)
    BY <1>1 DEF Pages, ReadsInv, ReadsBehindLog, Read
  <2>2. PrefixOf(reads[c][l]) \in 0 .. Len(log) /\ PrefixOf(reads[c][l]) <= PrefixOf(reads[c][l])'
    BY <1>1, <2>1 DEF PrefixOf
  <2>3. PICK i \in 1 .. PrefixOf(reads[c][l]) : log[i].by = c /\ log[i].no = reads[c][l].no
    BY DEF ReadsInv, ReadsHaveAppend, HasClick
  <2>4. i \in 1 .. Len(log) /\ i \in 1 .. PrefixOf(reads[c][l])'
    BY <2>2, <2>3, <1>1, <2>1 DEF PrefixOf
  <2> QED
    BY <2>3, <2>4 DEF HasClick
<1> QED
  BY <1>2, <1>3 DEF ReadsInv

\* One read changes, to one that is right about the log.
LEMMA OneReadChanges ==
    ASSUME TypeOK, ReadsInv, NEW p \in Pages, NEW l \in Lanes[p], NEW read \in Read,
           SetRead(p, l, read), UNCHANGED log,
           read.upto <= Len(log),
           p \in Consoles /\ read.no > 0 => HasClick(p, read.no, PrefixOf(read))
    PROVE  ReadsInv'
<1>1. ReadsBehindLog'
  BY ReadSet DEF ReadsInv, ReadsBehindLog
<1>2. ReadsHaveAppend'
  <2> SUFFICES ASSUME NEW c \in Consoles, NEW k \in Lanes[c], reads'[c][k].no > 0
               PROVE  HasClick(c, reads'[c][k].no, PrefixOf(reads'[c][k]))
    BY DEF ReadsHaveAppend, HasClick, PrefixOf
  <2>1. CASE c = p /\ k = l
    BY <2>1, ReadSet
  <2>2. CASE reads'[c][k] = reads[c][k]
    BY <2>2 DEF ReadsInv, ReadsHaveAppend
  <2> QED
    BY <2>1, <2>2, ReadSet DEF Pages
<1> QED
  BY <1>1, <1>2 DEF ReadsInv

LEMMA ReadReads ==
    ASSUME BoardInv, NEW p \in Pages, NEW l \in Lanes[p], ReadStep(p, l)
    PROVE  ReadsInv'
<1> USE DEF BoardInv
<1>1. PICK read \in Read :
        /\ SetRead(p, l, read)
        /\ \/ read \in {NoRead, Asked(0)}
           \/ /\ ServeRead(p, l)
              /\ read = [reads[p][l] EXCEPT !.stage = "served", !.upto = Len(log)]
  BY ReadChange
<1>2. UNCHANGED log /\ Len(log) \in Nat /\ reads[p][l] \in Read
  BY DEF ReadStep, Poll, ServeRead, Refresh, ReadFails, TypeOK
<1>3. CASE read \in {NoRead, Asked(0)}
  <2>1. read.upto <= Len(log) /\ ~(read.no > 0)
    BY <1>2, <1>3 DEF NoRead, Asked
  <2> QED
    BY <1>1, <1>2, <2>1, OneReadChanges DEF ReadsInv
<1>4. CASE ServeRead(p, l) /\ read = [reads[p][l] EXCEPT !.stage = "served", !.upto = Len(log)]
  <2>1. reads[p][l].stage = "asked"
    BY <1>4 DEF ServeRead
  <2>2. read.upto = Len(log) /\ read.no = reads[p][l].no /\ PrefixOf(read) = Len(log)
    BY <1>2, <1>4 DEF Read, PrefixOf
  <2>3. p \in Consoles /\ read.no > 0 => HasClick(p, read.no, PrefixOf(read))
    BY <2>1, <2>2 DEF ReadsHaveAppend, PrefixOf
  <2> QED
    BY <1>1, <1>2, <2>2, <2>3, OneReadChanges DEF ReadsInv
<1> QED
  BY <1>1, <1>3, <1>4

LEMMA AnswerReads ==
    ASSUME BoardInv, NEW e \in sent \cup answered, NEW l \in Lanes[e.by], AppendAnswered(e, l)
    PROVE  ReadsInv'
<1> USE DEF BoardInv
<1>1. e.by \in Consoles /\ e.by \in Pages /\ Asked(e.no) \in Read
  BY AnswerTypes DEF Pages
<1>2. SetRead(e.by, l, Asked(e.no)) /\ UNCHANGED log /\ e \in Range(log) /\ Len(log) \in Nat
  BY DEF AppendAnswered, Awaited, TypeOK
<1>3. HasClick(e.by, e.no, PrefixOf(Asked(e.no)))
  <2>1. PICK i \in DOMAIN log : log[i] = e
    BY <1>2 DEF Range
  <2>2. i \in 1 .. Len(log) /\ PrefixOf(Asked(e.no)) = Len(log)
    BY <2>1 DEF TypeOK, PrefixOf, Asked
  <2> QED
    BY <2>1, <2>2 DEF HasClick
<1>4. Asked(e.no).upto <= Len(log) /\ Asked(e.no).no = e.no
  BY <1>2 DEF Asked
<1> QED
  BY <1>1, <1>2, <1>3, <1>4, OneReadChanges DEF ReadsInv

LEMMA ReadsKept ==
    ASSUME BoardInv, [Next]_vars
    PROVE  ReadsInv'
<1> USE DEF BoardInv
<1>1. Len(log) \in Nat
  BY DEF TypeOK
<1>2. ASSUME UNCHANGED <<log, reads>> PROVE ReadsInv'
  BY <1>1, <1>2, PrefixGrows DEF ReadsInv
<1>3. ASSUME NEW e \in sent, Store(e) PROVE ReadsInv'
  <2>1. UNCHANGED reads
    BY <1>3 DEF Store
  <2> QED
    BY <1>1, <1>3, <2>1, StoreAppends, PrefixGrows DEF ReadsInv
<1>4. ASSUME NEW e \in sent \cup answered, NEW l \in Lanes[e.by], AppendAnswered(e, l) PROVE ReadsInv'
  BY <1>4, AnswerReads
<1>5. ASSUME NEW p \in Pages, NEW l \in Lanes[p], ReadStep(p, l) PROVE ReadsInv'
  BY <1>5, ReadReads
<1> QED
  BY <1>2, <1>3, <1>4, <1>5 DEF Next, vars, Click, AppendFails, ReadStep

-----------------------------------------------------------------------------
(***************************************************************************)
(* Theorems.                                                               *)
(***************************************************************************)

LEMMA InitialBoard == Init => BoardInv
<1> SUFFICES ASSUME Init PROVE BoardInv
  OBVIOUS
<1>1. TypeOK /\ Len(log) = 0 /\ Known = {}
  BY InitialTypes DEF Init, Known, Range
<1>2. EventsInv
  BY <1>1 DEF Init, EventsInv, OneEventPerClick, FromPastClicks, StampsFollowClicks, OneEntryPerId
<1>3. ReadsInv
  BY <1>1 DEF Init, ReadsInv, ReadsBehindLog, ReadsHaveAppend, NoRead, Pages
<1> QED
  BY <1>1, <1>2, <1>3 DEF BoardInv, EventsInv, ReadsInv

\* The invariant holds: what is sent and stored stems from one click each, in order,
\* and no page is ahead of the log.
THEOREM BoardInvariant == Spec => []BoardInv
<1>1. Init => BoardInv
  BY InitialBoard
<1>2. BoardInv /\ [Next]_vars => BoardInv'
  BY TypesKept, EventsKept, ReadsKept DEF BoardInv, EventsInv, ReadsInv
<1> QED
  BY <1>1, <1>2, PTL DEF Spec

\* Log, clicks, reads and pages keep their types; no page shows what is not stored.
THEOREM TypeCorrect == Spec => []TypeOK
BY BoardInvariant, PTL DEF BoardInv

\* A click counts once at most, and two clicks are two events (buildEvent, appendEvent).
THEOREM ClickCountsOnceHolds == Spec => []ClickCountsOnce
<1>1. BoardInv => ClickCountsOnce
  <2> SUFFICES ASSUME BoardInv, NEW i \in DOMAIN log, NEW j \in DOMAIN log,
                      log[i].id = log[j].id \/ (log[i].by = log[j].by /\ log[i].no = log[j].no)
               PROVE  i = j
    BY DEF ClickCountsOnce
  <2>1. log[i] \in Known /\ log[j] \in Known
    BY DEF Known, Range
  <2>2. log[i].id = log[j].id
    BY <2>1 DEF BoardInv, OneEventPerClick
  <2> QED
    BY <2>2 DEF BoardInv, OneEntryPerId
<1> QED
  BY <1>1, BoardInvariant, PTL

\* The fold takes an operator's events in the order in which they were made.
THEOREM OwnClicksInOrderHolds == Spec => []OwnClicksInOrder
<1>1. BoardInv => OwnClicksInOrder
  BY DEF BoardInv, OwnClicksInOrder, StampsFollowClicks, Before, Known, Range
<1> QED
  BY <1>1, BoardInvariant, PTL

\* The refresh after an append shows what was appended (dispatch).
THEOREM RefreshShowsOwnAppendHolds == Spec => RefreshShowsOwnAppend
<1> DEFINE Own ==
      \A c \in Consoles : \A l \in Lanes[c] :
          Refresh(c, l) /\ reads[c][l].no > 0 =>
              \E i \in 1 .. shown'[c] : log[i].by = c /\ log[i].no = reads[c][l].no
<1>1. BoardInv /\ [Next]_vars => [Own]_vars
  <2> SUFFICES ASSUME BoardInv, NEW c \in Consoles, NEW l \in Lanes[c],
                      Refresh(c, l), reads[c][l].no > 0
               PROVE  \E i \in 1 .. shown'[c] : log[i].by = c /\ log[i].no = reads[c][l].no
    OBVIOUS
  <2>1. shown'[c] = reads[c][l].upto /\ reads[c][l].stage = "served"
    BY DEF Refresh, Shows, BoardInv, TypeOK, Pages
  <2> QED
    BY <2>1 DEF BoardInv, ReadsHaveAppend, PrefixOf, HasClick
<1> QED
  BY <1>1, BoardInvariant, PTL DEF Spec, RefreshShowsOwnAppend

=============================================================================
