---------------------------- MODULE InvitesProofs ----------------------------
(***************************************************************************)
(* Proofs about organized games, for any parents, links and budgets.       *)
(*                                                                         *)
(* The invariant InvitesInv says of each call under way what its answer    *)
(* may be relied on for: one that adds a kid, whose kid the last of the    *)
(* roster is; one that answers for a kid just added, that the kid is on    *)
(* the roster; one that reads the roster, whom it has.  As the roster and  *)
(* the stored answers only grow, what is right about a call stays so.      *)
(*                                                                         *)
(* RsvpInv is about the parents' pages on top of that: which call a page   *)
(* waits for, what a confirmation rests on, and how the clicks, the kids   *)
(* on their way and the kids on the roster add up.                         *)
(***************************************************************************)
EXTENDS Invites, FiniteSetTheorems, TLAPS

Entry(id, parent) == [playerId |-> id, addedBy |-> parent]

\* The players that the backend has.
Listed == Range(invite.roster)

RecordRight ==
    /\ invite = [roster |-> invite.roster, responses |-> invite.responses]
    /\ invite.roster \in Seq([playerId : Nat, addedBy : Clients])

IsCall(c) ==
    /\ c = [from |-> c.from, no |-> c.no, op |-> c.op, id |-> c.id, status |-> c.status,
            walkIn |-> c.walkIn, uid |-> c.uid, stage |-> c.stage, doc |-> c.doc]
    /\ c.from \in Clients /\ c.no \in Int /\ c.walkIn \in BOOLEAN

\* The answer to adding a kid ends with the kid.
AddRight(c) ==
    c.op = "add" /\ c.stage = "answered" =>
        /\ Last(c.doc.roster) \in Listed
        /\ Last(c.doc.roster).addedBy = c.from

\* The organizer's read has whom the organizer had been told of.
ReadRight(c) ==
    c.op = "read" /\ c.stage = "answered" /\ c.from = Coach =>
        \A a \in rosterPage.added : c.no <= a.no => a.id \in Ids(c.doc.roster)

\* Calls are numbered downwards, by the budget left.
Right(c) ==
    /\ IsCall(c)
    /\ c.no > budget[c.from]
    /\ c.stage = "stored" => c.op = "rsvp" /\ c.uid \in answered
    /\ c.walkIn => Entry(c.id, c.from) \in Listed
    /\ AddRight(c)
    /\ ReadRight(c)

CallsRight == \A c \in calls : Right(c)

OwnKids ==
    \A id \in DOMAIN invite.responses :
        invite.responses[id].walkIn => Entry(id, invite.responses[id].by) \in Listed

AddedRight ==
    /\ rosterPage = [loading |-> rosterPage.loading, doc |-> rosterPage.doc,
                     draft |-> rosterPage.draft, added |-> rosterPage.added]
    /\ \A a \in rosterPage.added : a.no \in Int /\ \E player \in Listed : player.playerId = a.id

InvitesInv ==
    /\ RecordRight
    /\ budget \in [Clients -> Int]
    /\ CallsRight
    /\ OwnKids
    /\ IndexedHaveAnswered
    /\ AddedRight

-----------------------------------------------------------------------------
LEMMA IdsOfListed ==
    ASSUME NEW g
    PROVE  Ids(g.roster) = {player.playerId : player \in Range(g.roster)}
BY DEF Ids, Range

\* A call that was just sent is right, once it is paid for.
LEMMA SentRight ==
    ASSUME budget \in [Clients -> Int], NEW q \in Clients, NEW op, NEW id, NEW status,
           NEW walkIn \in BOOLEAN, NEW uid, Pays(q),
           NEW c, c = Call(q, op, id, status, walkIn, uid),
           walkIn => Entry(id, q) \in Listed'
    PROVE  Right(c)'
<1>1. /\ IsCall(c) /\ c.from = q /\ c.no = budget[q] /\ c.id = id
      /\ c.walkIn = walkIn /\ c.stage = "sent"
  BY DEF Call, IsCall
<1>2. budget'[q] = budget[q] - 1 /\ budget[q] \in Int
  BY DEF Pays
<1>3. c.no > budget'[c.from]
  BY <1>1, <1>2
<1>4. c.walkIn => Entry(c.id, c.from) \in Listed'
  BY <1>1
<1> QED
  BY <1>1, <1>3, <1>4 DEF Right, AddRight, ReadRight, IsCall

LEMMA PaidLess ==
    ASSUME budget \in [Clients -> Int], NEW q \in Clients, Pays(q)
    PROVE  budget' \in [Clients -> Int] /\ \A r \in Clients : budget'[r] <= budget[r]
BY DEF Pays

\* What a step must not do, for a call that it leaves alone to stay right.
Keeps ==
    /\ Listed \subseteq Listed'
    /\ answered \subseteq answered'
    /\ \A q \in Clients : budget'[q] <= budget[q]

LEMMA StaysRight ==
    ASSUME budget \in [Clients -> Int], budget' \in [Clients -> Int], Keeps,
           NEW c, Right(c),
           rosterPage'.added \subseteq rosterPage.added
    PROVE  Right(c)'
<1>1. c.no > budget'[c.from]
  BY DEF Keeps, Right, IsCall
<1>2. IsCall(c) /\ AddRight(c)' /\ ReadRight(c)'
  BY DEF Keeps, Right, AddRight, ReadRight
<1>3. (c.stage = "stored" => c.op = "rsvp" /\ c.uid \in answered') /\ (c.walkIn => Entry(c.id, c.from) \in Listed')
  BY DEF Keeps, Right
<1> QED
  BY <1>1, <1>2, <1>3 DEF Right, IsCall

Staged(c, stage, doc) == [c EXCEPT !.stage = stage, !.doc = doc]

\* A call that changes its stage keeps everything else but the answer.
LEMMA StageSet ==
    ASSUME NEW c, IsCall(c), NEW stage, NEW doc, NEW d, d = Staged(c, stage, doc)
    PROVE  /\ IsCall(d) /\ d.stage = stage /\ d.doc = doc
           /\ d.from = c.from /\ d.no = c.no /\ d.op = c.op /\ d.id = c.id
           /\ d.walkIn = c.walkIn /\ d.uid = c.uid
<1>1. PICK from, no, op, id, status, walkIn, uid, oldStage, oldDoc :
        /\ c = [from |-> from, no |-> no, op |-> op, id |-> id, status |-> status,
                walkIn |-> walkIn, uid |-> uid, stage |-> oldStage, doc |-> oldDoc]
        /\ from \in Clients /\ no \in Int /\ walkIn \in BOOLEAN
  BY DEF IsCall
<1>2. d = [from |-> from, no |-> no, op |-> op, id |-> id, status |-> status,
           walkIn |-> walkIn, uid |-> uid, stage |-> stage, doc |-> doc]
  <2> DEFINE half == [from |-> from, no |-> no, op |-> op, id |-> id, status |-> status,
                      walkIn |-> walkIn, uid |-> uid, stage |-> stage, doc |-> oldDoc]
  <2>1. [c EXCEPT !.stage = stage] = half
    BY <1>1
  <2>2. [half EXCEPT !.doc = doc]
          = [from |-> from, no |-> no, op |-> op, id |-> id, status |-> status,
             walkIn |-> walkIn, uid |-> uid, stage |-> stage, doc |-> doc]
    OBVIOUS
  <2>3. d = [[c EXCEPT !.stage = stage] EXCEPT !.doc = doc]
    BY DEF Staged
  <2> QED
    BY <2>1, <2>2, <2>3
<1> QED
  BY <1>1, <1>2 DEF IsCall

\* When the backend is done with a call, only that call changes.
LEMMA BecomesOne ==
    ASSUME NEW c, NEW stage, NEW doc, Becomes(c, stage, doc), NEW d \in calls'
    PROVE  d \in calls \/ d = Staged(c, stage, doc)
BY Zenon DEF Becomes, Staged
-----------------------------------------------------------------------------
(***************************************************************************)
(* The backend.                                                            *)
(***************************************************************************)

LEMMA BecomesRight ==
    ASSUME InvitesInv, UNCHANGED <<budget, rosterPage>>, Keeps,
           NEW c \in calls, NEW stage, NEW doc, Becomes(c, stage, doc),
           stage = "stored" => c.op = "rsvp" /\ c.uid \in answered',
           c.op = "add" /\ stage = "answered" =>
               Last(doc.roster) \in Listed' /\ Last(doc.roster).addedBy = c.from,
           c.op = "read" /\ stage = "answered" /\ c.from = Coach =>
               \A a \in rosterPage.added : c.no <= a.no => a.id \in Ids(doc.roster)
    PROVE  CallsRight'
<1> SUFFICES ASSUME NEW d \in calls' PROVE Right(d)'
  BY DEF CallsRight
<1>1. Right(c) /\ IsCall(c) /\ budget \in [Clients -> Int] /\ budget' \in [Clients -> Int]
  BY DEF InvitesInv, CallsRight, Right
<1>2. CASE d \in calls
  BY <1>1, <1>2, StaysRight DEF InvitesInv, CallsRight
<1>3. CASE d = Staged(c, stage, doc)
  <2>1. /\ IsCall(d) /\ d.stage = stage /\ d.doc = doc
        /\ d.from = c.from /\ d.no = c.no /\ d.op = c.op /\ d.id = c.id
        /\ d.walkIn = c.walkIn /\ d.uid = c.uid
    BY <1>1, <1>3, StageSet
  <2>2. (d.walkIn => Entry(d.id, d.from) \in Listed') /\ d.no > budget'[d.from]
    BY <1>1, <2>1 DEF Right, Keeps
  <2>3. AddRight(d)' /\ ReadRight(d)'
    BY <2>1 DEF AddRight, ReadRight
  <2> QED
    BY <2>1, <2>2, <2>3 DEF Right, IsCall
<1> QED
  BY <1>2, <1>3, BecomesOne

\* What is right about the record and the organizer's page stays so while players are
\* only added and no answer is stored.
LEMMA RecordKept ==
    ASSUME InvitesInv, Keeps, UNCHANGED rosterPage, invite'.responses = invite.responses
    PROVE  OwnKids' /\ AddedRight'
<1>1. OwnKids'
  BY DEF InvitesInv, OwnKids, Keeps
<1>2. AddedRight'
  BY DEF InvitesInv, AddedRight, Keeps
<1> QED
  BY <1>1, <1>2

LEMMA ServeReadKept ==
    ASSUME InvitesInv, NEW c \in calls, ServeRead(c), UNCHANGED <<budget, rosterPage>>
    PROVE  InvitesInv'
<1>1. /\ c.op = "read" /\ Becomes(c, "answered", invite)
      /\ UNCHANGED <<invite, indexed, answered>>
  BY DEF ServeRead, StoredFor
<1>2. Keeps
  BY <1>1 DEF Keeps, Listed, InvitesInv
<1>3. \A a \in rosterPage.added : a.id \in Ids(invite.roster)
  BY IdsOfListed DEF InvitesInv, AddedRight, Listed
<1>4. CallsRight'
  BY <1>1, <1>2, <1>3, BecomesRight
<1>5. OwnKids' /\ AddedRight'
  BY <1>1, <1>2, RecordKept
<1> QED
  BY <1>1, <1>4, <1>5 DEF InvitesInv, RecordRight, IndexedHaveAnswered

\* A player is added at the end of the roster.
LEMMA PlayerListed ==
    ASSUME RecordRight, NEW player \in [playerId : Nat, addedBy : Clients],
           invite' = WithPlayer(invite, player)
    PROVE  /\ RecordRight'
           /\ Listed' = Listed \cup {player}
           /\ Last(invite'.roster) = player
           /\ invite'.responses = invite.responses
<1>1. invite' = [roster |-> Append(invite.roster, player), responses |-> invite.responses]
  BY DEF RecordRight, WithPlayer
<1>2. invite'.roster = Append(invite.roster, player) /\ invite'.responses = invite.responses
  BY <1>1
<1> QED
  BY <1>1, <1>2 DEF RecordRight, Listed, Range, Last

LEMMA ServeAddKept ==
    ASSUME InvitesInv, NEW c \in calls, ServeAdd(c), UNCHANGED <<budget, rosterPage>>
    PROVE  InvitesInv'
<1> DEFINE player == [playerId |-> NewPlayerId(invite), addedBy |-> c.from]
<1>1. /\ c.op = "add" /\ invite' = WithPlayer(invite, player)
      /\ Becomes(c, "answered", invite')
      /\ UNCHANGED <<indexed, answered>>
  BY DEF ServeAdd
<1>2. player \in [playerId : Nat, addedBy : Clients]
  BY DEF InvitesInv, RecordRight, CallsRight, Right, IsCall, NewPlayerId
<1>3. /\ RecordRight'
      /\ Listed' = Listed \cup {player}
      /\ Last(invite'.roster) = player
      /\ invite'.responses = invite.responses
  BY <1>1, <1>2, PlayerListed DEF InvitesInv
<1>4. Keeps
  BY <1>1, <1>3 DEF Keeps, InvitesInv
<1>5. CallsRight'
  BY <1>1, <1>3, <1>4, BecomesRight
<1>6. OwnKids' /\ AddedRight'
  BY <1>3, <1>4, RecordKept
<1> QED
  BY <1>1, <1>3, <1>5, <1>6 DEF InvitesInv, IndexedHaveAnswered

\* An answer is stored for a player, in place of the last one.
LEMMA AnswerStored ==
    ASSUME RecordRight, NEW id, NEW rsvp, invite' = WithRsvp(invite, id, rsvp)
    PROVE  /\ RecordRight'
           /\ Listed' = Listed
           /\ DOMAIN invite'.responses = DOMAIN invite.responses \cup {id}
           /\ \A k \in DOMAIN invite'.responses :
                 invite'.responses[k] = IF k = id THEN rsvp ELSE invite.responses[k]
<1> DEFINE Answered == [k \in DOMAIN invite.responses \cup {id} |->
                            IF k = id THEN rsvp ELSE invite.responses[k]]
<1>1. invite' = [roster |-> invite.roster, responses |-> Answered]
  BY DEF RecordRight, WithRsvp
<1>2. invite'.roster = invite.roster /\ invite'.responses = Answered
  BY <1>1
<1> QED
  BY <1>1, <1>2 DEF RecordRight, Listed

LEMMA ServeRsvpKept ==
    ASSUME InvitesInv, NEW c \in calls, ServeRsvp(c), UNCHANGED <<budget, rosterPage>>
    PROVE  InvitesInv'
<1>1. c.op = "rsvp" /\ indexed' = indexed /\ Right(c) /\ c.walkIn \in BOOLEAN
  BY DEF ServeRsvp, RsvpOf, IndexedWithRecord, InvitesInv, CallsRight, Right, IsCall
<1>2. CASE Acceptable(c)
  <2> DEFINE rsvp == [status |-> c.status, by |-> c.from, walkIn |-> c.walkIn]
             stage == IF c.uid = Anonymous THEN "answered" ELSE "stored"
  <2>1. /\ invite' = WithRsvp(invite, c.id, rsvp)
        /\ answered' = answered \cup {c.uid}
        /\ Becomes(c, stage, invite')
    BY <1>2 DEF ServeRsvp, RsvpOf
  <2>2. /\ RecordRight' /\ Listed' = Listed
        /\ DOMAIN invite'.responses = DOMAIN invite.responses \cup {c.id}
        /\ \A k \in DOMAIN invite'.responses :
              invite'.responses[k] = IF k = c.id THEN rsvp ELSE invite.responses[k]
    BY <2>1, AnswerStored DEF InvitesInv
  <2>3. Keeps
    BY <2>1, <2>2 DEF Keeps, InvitesInv
  <2>4. CallsRight'
    BY <1>1, <2>1, <2>3, BecomesRight
  <2>5. OwnKids'
    <3> SUFFICES ASSUME NEW k \in DOMAIN invite'.responses, invite'.responses[k].walkIn
                 PROVE  Entry(k, invite'.responses[k].by) \in Listed'
      BY DEF OwnKids
    <3>1. CASE k = c.id
      <4>1. invite'.responses[k] = rsvp
        BY <2>2, <3>1
      <4>2. c.walkIn
        BY <4>1
      <4> QED
        BY <1>1, <2>2, <3>1, <4>1, <4>2 DEF Right
    <3>2. CASE k # c.id
      BY <2>2, <3>2 DEF InvitesInv, OwnKids
    <3> QED
      BY <3>1, <3>2
  <2>6. AddedRight'
    BY <2>2 DEF InvitesInv, AddedRight
  <2> QED
    BY <1>1, <2>1, <2>2, <2>4, <2>5, <2>6 DEF InvitesInv, IndexedHaveAnswered
<1>3. CASE ~Acceptable(c)
  <2>1. Becomes(c, "failed", NoDoc) /\ UNCHANGED <<invite, answered>>
    BY <1>3 DEF ServeRsvp, RsvpOf
  <2>2. Keeps
    BY <2>1 DEF Keeps, Listed, InvitesInv
  <2>3. CallsRight'
    BY <2>1, <2>2, BecomesRight
  <2>4. OwnKids' /\ AddedRight'
    BY <2>1, <2>2, RecordKept
  <2> QED
    BY <1>1, <2>1, <2>3, <2>4 DEF InvitesInv, RecordRight, IndexedHaveAnswered
<1> QED
  BY <1>2, <1>3

LEMMA ServeIndexKept ==
    ASSUME InvitesInv, NEW c \in calls, ServeIndex(c), UNCHANGED <<budget, rosterPage>>
    PROVE  InvitesInv'
<1>1. c.stage = "stored" /\ Right(c) /\ UNCHANGED <<invite, answered>> /\ Becomes(c, "answered", c.doc)
  BY DEF ServeIndex, InvitesInv, CallsRight
<1>2. Keeps
  BY <1>1 DEF Keeps, Listed, InvitesInv
<1>3. c.op = "rsvp" /\ c.uid \in answered
  BY <1>1 DEF Right
<1>4. CallsRight'
  BY <1>1, <1>2, <1>3, BecomesRight
<1>5. OwnKids' /\ AddedRight'
  BY <1>1, <1>2, RecordKept
<1>6. IndexedHaveAnswered'
  BY <1>1, <1>3 DEF ServeIndex, InvitesInv, IndexedHaveAnswered
<1> QED
  BY <1>1, <1>4, <1>5, <1>6 DEF InvitesInv, RecordRight

LEMMA LoseKept ==
    ASSUME InvitesInv, NEW c \in calls, Lose(c), UNCHANGED <<budget, rosterPage>>
    PROVE  InvitesInv'
<1>1. Becomes(c, "failed", NoDoc) /\ UNCHANGED <<invite, indexed, answered>>
  BY DEF Lose
<1>2. Keeps
  BY <1>1 DEF Keeps, Listed, InvitesInv
<1>3. CallsRight'
  BY <1>1, <1>2, BecomesRight
<1>4. OwnKids' /\ AddedRight'
  BY <1>1, <1>2, RecordKept
<1> QED
  BY <1>1, <1>3, <1>4 DEF InvitesInv, RecordRight, IndexedHaveAnswered
-----------------------------------------------------------------------------
(***************************************************************************)
(* The pages.                                                              *)
(***************************************************************************)

\* A step of a page changes nothing that the backend has: it is enough that the
\* calls it sends are right.
LEMMA PageStepKept ==
    ASSUME InvitesInv, UNCHANGED <<invite, indexed, answered>>,
           budget' \in [Clients -> Int], \A q \in Clients : budget'[q] <= budget[q],
           rosterPage'.added \subseteq rosterPage.added, AddedRight',
           \A d \in calls' : d \in calls \/ Right(d)'
    PROVE  InvitesInv'
<1>1. Keeps
  BY DEF Keeps, Listed
<1>2. CallsRight'
  <2> SUFFICES ASSUME NEW d \in calls' PROVE Right(d)'
    BY DEF CallsRight
  <2>1. CASE d \in calls
    BY <1>1, <2>1, StaysRight DEF InvitesInv, CallsRight
  <2> QED
    BY <2>1
<1>3. OwnKids'
  BY <1>1 DEF OwnKids, Keeps, InvitesInv
<1> QED
  BY <1>2, <1>3 DEF InvitesInv, RecordRight, IndexedHaveAnswered

\* The calls that change nothing but the pages.
LEMMA NothingSentKept ==
    ASSUME InvitesInv, UNCHANGED <<invite, indexed, answered, budget, rosterPage>>,
           calls' \subseteq calls
    PROVE  InvitesInv'
<1>1. AddedRight' /\ budget' \in [Clients -> Int] /\ \A q \in Clients : budget'[q] <= budget[q]
  BY DEF InvitesInv, AddedRight, Listed
<1> QED
  BY <1>1, PageStepKept

LEMMA PaidKept ==
    ASSUME InvitesInv, UNCHANGED <<invite, indexed, answered>>, NEW q \in Clients, Pays(q),
           NEW op, NEW id, NEW status, NEW walkIn \in BOOLEAN, NEW uid,
           walkIn => Entry(id, q) \in Listed,
           calls' \subseteq calls \cup {Call(q, op, id, status, walkIn, uid)},
           rosterPage'.added \subseteq rosterPage.added, AddedRight'
    PROVE  InvitesInv'
<1>1. budget \in [Clients -> Int]
  BY DEF InvitesInv
<1>2. budget' \in [Clients -> Int] /\ \A r \in Clients : budget'[r] <= budget[r]
  BY <1>1, PaidLess
<1>3. Listed' = Listed
  BY DEF Listed
<1>4. ASSUME NEW d, d = Call(q, op, id, status, walkIn, uid) PROVE Right(d)'
  BY <1>1, <1>3, <1>4, SentRight
<1>5. \A d \in calls' : d \in calls \/ Right(d)'
  BY <1>4
<1> QED
  BY <1>2, <1>5, PageStepKept

LEMMA ParentSendsKept ==
    ASSUME InvitesInv, NEW p \in Parents,
           Open(p) \/ SubmitForListed(p) \/ SubmitForNew(p),
           UNCHANGED <<invite, indexed, rosterPage, answered>>
    PROVE  InvitesInv'
<1>1. AddedRight' /\ p \in Clients
  BY DEF InvitesInv, AddedRight, Listed, Clients
<1>2. CASE Open(p)
  <2>1. Pays(p) /\ calls' \subseteq calls \cup {Call(p, "read", NoPlayer, "going", FALSE, Anonymous)}
    BY <1>2 DEF Open, ReadOf
  <2> QED
    BY <1>1, <2>1, PaidKept
<1>3. CASE SubmitForListed(p)
  <2>1. PICK uid :
          /\ Pays(p)
          /\ calls' \subseteq calls \cup
                {Call(p, "rsvp", rsvpPage[p].selected, rsvpPage[p].status, FALSE, uid)}
    BY <1>3 DEF SubmitForListed, Sends
  <2> QED
    BY <1>1, <2>1, PaidKept
<1>4. CASE SubmitForNew(p)
  <2>1. Pays(p) /\ calls' \subseteq calls \cup {Call(p, "add", NoPlayer, "going", FALSE, Anonymous)}
    BY <1>4 DEF SubmitForNew, Sends, AddOf
  <2> QED
    BY <1>1, <2>1, PaidKept
<1> QED
  BY <1>2, <1>3, <1>4

LEMMA ElementsOfSeq ==
    ASSUME NEW S, NEW s \in Seq(S)
    PROVE  Range(s) \subseteq S
BY DEF Range

\* The kid that was added is this parent's: the answer that follows is about it.
LEMMA AddedKept ==
    ASSUME InvitesInv, NEW p \in Parents, NEW c \in calls, Added(p, c),
           UNCHANGED <<invite, indexed, rosterPage, answered>>
    PROVE  InvitesInv'
<1>1. PICK uid :
        /\ c.from = p /\ c.op = "add" /\ c.stage = "answered" /\ Pays(p)
        /\ calls' \subseteq calls \cup
              {Call(p, "rsvp", AddedPlayer(c.doc), rsvpPage[p].status, TRUE, uid)}
  BY DEF Added, Awaits
<1>2. Last(c.doc.roster) \in Listed /\ Last(c.doc.roster).addedBy = p
  BY <1>1 DEF InvitesInv, CallsRight, Right, AddRight
<1>3. Listed \subseteq [playerId : Nat, addedBy : Clients]
  <2>1. invite.roster \in Seq([playerId : Nat, addedBy : Clients])
    BY DEF InvitesInv, RecordRight
  <2> QED
    BY <2>1, ElementsOfSeq DEF Listed
<1>4. Entry(AddedPlayer(c.doc), p) \in Listed
  BY <1>2, <1>3 DEF Entry, AddedPlayer
<1>5. AddedRight' /\ p \in Clients
  BY DEF InvitesInv, AddedRight, Listed, Clients
<1> QED
  BY <1>1, <1>4, <1>5, PaidKept

LEMMA RsvpPageKept ==
    ASSUME InvitesInv, RsvpPage
    PROVE  InvitesInv'
<1> USE DEF RsvpPage
<1>1. PICK p \in Parents :
        \/ Open(p) \/ PickDifferentKid(p) \/ AddMyKid(p)
        \/ SubmitForListed(p) \/ SubmitForNew(p)
        \/ \E id \in Ids(invite.roster) : Select(p, id)
        \/ \E status \in Answers : ChooseStatus(p, status)
        \/ \E c \in calls : Arrives(p, c)
  OBVIOUS
<1>2. CASE Open(p) \/ SubmitForListed(p) \/ SubmitForNew(p)
  BY <1>2, ParentSendsKept
<1>3. CASE \/ PickDifferentKid(p) \/ AddMyKid(p)
           \/ \E id \in Ids(invite.roster) : Select(p, id)
           \/ \E status \in Answers : ChooseStatus(p, status)
  <2>1. UNCHANGED <<calls, budget>>
    BY <1>3 DEF PickDifferentKid, AddMyKid, Select, ChooseStatus
  <2> QED
    BY <2>1, NothingSentKept
<1>4. CASE \E c \in calls : Arrives(p, c)
  <2>1. PICK c \in calls : Arrives(p, c)
    BY <1>4
  <2>2. CASE Added(p, c)
    BY <2>2, AddedKept
  <2>3. CASE Loaded(p, c) \/ Confirm(p, c) \/ SubmitFails(p, c)
    <3>1. calls' \subseteq calls /\ UNCHANGED budget
      BY <2>3 DEF Loaded, Confirm, SubmitFails
    <3> QED
      BY <3>1, NothingSentKept
  <2> QED
    BY <2>1, <2>2, <2>3 DEF Arrives
<1> QED
  BY <1>1, <1>2, <1>3, <1>4
-----------------------------------------------------------------------------
LEMMA OrganizerSendsKept ==
    ASSUME InvitesInv, OpenRoster \/ Refresh \/ AddPlayer, UNCHANGED <<invite, indexed, answered>>
    PROVE  InvitesInv'
<1>1. Coach \in Clients /\ Listed' = Listed
  BY DEF Clients, Listed
<1>2. PICK op : Pays(Coach) /\ calls' \subseteq calls \cup {Call(Coach, op, NoPlayer, "going", FALSE, Anonymous)}
  BY DEF OpenRoster, Refresh, AddPlayer, Sends, ReadOf, AddOf
<1>3. rosterPage'.added \subseteq rosterPage.added /\ AddedRight'
  <2>1. CASE OpenRoster
    BY <2>1 DEF OpenRoster, AddedRight
  <2>2. CASE Refresh
    <3>1. rosterPage' = [rosterPage EXCEPT !.loading = TRUE]
      BY <2>2 DEF Refresh
    <3> QED
      BY <1>1, <3>1 DEF InvitesInv, AddedRight
  <2>3. CASE AddPlayer
    BY <1>1, <2>3 DEF AddPlayer, InvitesInv, AddedRight
  <2> QED
    BY <2>1, <2>2, <2>3
<1> QED
  BY <1>1, <1>2, <1>3, PaidKept

\* The organizer is told of a player when every read under way was sent before, and
\* the one that is sent now has it.
LEMMA PlayerAddedKept ==
    ASSUME InvitesInv, NEW c \in calls, c.from = Coach, PlayerAdded(c),
           UNCHANGED <<invite, indexed, answered>>
    PROVE  InvitesInv'
<1> DEFINE told == [id |-> Last(c.doc.roster).playerId, no |-> budget[Coach]]
<1>1. /\ c.op = "add" /\ c.stage = "answered" /\ Pays(Coach)
      /\ calls' = (calls \ {c}) \cup {Call(Coach, "read", NoPlayer, "going", FALSE, Anonymous)}
      /\ rosterPage' = [rosterPage EXCEPT !.draft = FALSE, !.loading = TRUE,
                            !.added = rosterPage.added \cup {told}]
  BY DEF PlayerAdded, ReadOf
<1>2. budget \in [Clients -> Int] /\ Coach \in Clients /\ Listed' = Listed
  BY DEF InvitesInv, Clients, Listed
<1>3. budget' \in [Clients -> Int] /\ \A q \in Clients : budget'[q] <= budget[q]
  BY <1>1, <1>2, PaidLess
<1>4. rosterPage' = [loading |-> TRUE, doc |-> rosterPage.doc, draft |-> FALSE,
                     added |-> rosterPage.added \cup {told}]
  BY <1>1 DEF InvitesInv, AddedRight
<1>5. rosterPage'.added = rosterPage.added \cup {told}
  BY <1>4
<1>6. Last(c.doc.roster) \in Listed
  BY <1>1 DEF InvitesInv, CallsRight, Right, AddRight
<1>7. AddedRight'
  <2>1. \A a \in rosterPage'.added : a.no \in Int /\ \E player \in Listed : player.playerId = a.id
    BY <1>2, <1>5, <1>6 DEF InvitesInv, AddedRight
  <2> QED
    BY <1>2, <1>4, <2>1 DEF AddedRight
<1>8. CallsRight'
  <2> SUFFICES ASSUME NEW d \in calls' PROVE Right(d)'
    BY DEF CallsRight
  <2>1. CASE d = Call(Coach, "read", NoPlayer, "going", FALSE, Anonymous)
    BY <1>1, <1>2, <2>1, SentRight
  <2>2. CASE d \in calls
    <3>1. Right(d) /\ IsCall(d)
      BY <2>2 DEF InvitesInv, CallsRight, Right
    <3>2. d.no > budget'[d.from]
      BY <1>2, <1>3, <3>1 DEF Right, IsCall
    <3>3. ReadRight(d)'
      <4> SUFFICES ASSUME d.op = "read", d.stage = "answered", d.from = Coach,
                          NEW a \in rosterPage'.added, d.no <= a.no
                   PROVE  a.id \in Ids(d.doc.roster)
        BY DEF ReadRight
      <4>1. a # told
        BY <1>2, <3>1 DEF Right, IsCall
      <4> QED
        BY <1>5, <3>1, <4>1 DEF Right, ReadRight
    <3> QED
      BY <1>2, <3>1, <3>2, <3>3 DEF Right, AddRight
  <2> QED
    BY <1>1, <2>1, <2>2
<1> QED
  BY <1>2, <1>3, <1>7, <1>8 DEF InvitesInv, RecordRight, OwnKids, IndexedHaveAnswered

LEMMA RosterPageKept ==
    ASSUME InvitesInv, RosterPage
    PROVE  InvitesInv'
<1>1. UNCHANGED <<invite, indexed, answered>>
  BY DEF RosterPage
<1>2. CASE OpenRoster \/ Refresh \/ AddPlayer
  BY <1>1, <1>2, OrganizerSendsKept
<1>3. CASE TypePlayer \/ \E c \in calls : AddPlayerFails(c) \/ RosterRead(c)
  <2>1. Listed' = Listed
    BY <1>1 DEF Listed
  <2>2. calls' \subseteq calls /\ UNCHANGED budget
    BY <1>3 DEF TypePlayer, AddPlayerFails, RosterRead
  <2>3. rosterPage'.added \subseteq rosterPage.added /\ AddedRight'
    <3>1. CASE TypePlayer
      BY <2>1, <3>1 DEF TypePlayer, InvitesInv, AddedRight
    <3>2. CASE \E c \in calls : AddPlayerFails(c)
      BY <2>1, <3>2 DEF AddPlayerFails, InvitesInv, AddedRight
    <3>3. CASE \E c \in calls : RosterRead(c)
      <4>1. PICK c \in calls : rosterPage' = [rosterPage EXCEPT !.doc = c.doc, !.loading = FALSE]
        BY <3>3 DEF RosterRead
      <4> QED
        BY <2>1, <4>1 DEF InvitesInv, AddedRight
    <3> QED
      BY <1>3, <3>1, <3>2, <3>3
  <2>4. budget' \in [Clients -> Int] /\ \A q \in Clients : budget'[q] <= budget[q]
    BY <2>2 DEF InvitesInv
  <2> QED
    BY <1>1, <2>2, <2>3, <2>4, PageStepKept
<1>4. CASE \E c \in calls : c.from = Coach /\ PlayerAdded(c)
  BY <1>1, <1>4, PlayerAddedKept
<1> QED
  BY <1>2, <1>3, <1>4 DEF RosterPage, RosterArrives

-----------------------------------------------------------------------------
LEMMA BackendKept ==
    ASSUME InvitesInv, Backend
    PROVE  InvitesInv'
<1>1. PICK c \in calls : ServeRead(c) \/ ServeAdd(c) \/ ServeRsvp(c) \/ ServeIndex(c) \/ Lose(c)
  BY DEF Backend
<1>2. UNCHANGED <<budget, rosterPage>>
  BY DEF Backend
<1> QED
  BY <1>1, <1>2, ServeReadKept, ServeAddKept, ServeRsvpKept, ServeIndexKept, LoseKept

LEMMA InitRight ==
    ASSUME Init
    PROVE  InvitesInv
<1>1. invite = [roster |-> [i \in 1 .. InitialRoster |-> [playerId |-> i, addedBy |-> Coach]],
                responses |-> << >>]
  BY DEF Init, NewInvite
<1>2. RecordRight
  <2>1. /\ invite.roster = [i \in 1 .. InitialRoster |-> [playerId |-> i, addedBy |-> Coach]]
        /\ invite.responses = << >>
    BY <1>1
  <2>2. invite.roster \in Seq([playerId : Nat, addedBy : Clients])
    BY <2>1, InviteAssumption DEF Clients
  <2> QED
    BY <1>1, <2>1, <2>2 DEF RecordRight
<1>3. OwnKids
  BY <1>1 DEF OwnKids
<1>4. budget \in [Clients -> Int]
  BY InviteAssumption DEF Init
<1> QED
  BY <1>2, <1>3, <1>4 DEF Init, InvitesInv, CallsRight, IndexedHaveAnswered, AddedRight

\* What InvitesInv says of the calls, of the record and of the organizer's page holds
\* in every state, whoever opens which link and whichever calls are lost.
THEOREM InvitesInvariant == Spec => []InvitesInv
<1>1. Init => InvitesInv
  BY InitRight
<1>2. InvitesInv /\ [Next]_vars => InvitesInv'
  <2> SUFFICES ASSUME InvitesInv, [Next]_vars PROVE InvitesInv'
    OBVIOUS
  <2>1. CASE Backend
    BY <2>1, BackendKept
  <2>2. CASE RsvpPage
    BY <2>2, RsvpPageKept
  <2>3. CASE RosterPage
    BY <2>3, RosterPageKept
  <2>4. CASE UNCHANGED vars
    BY <2>4, NothingSentKept DEF vars
  <2> QED
    BY <2>1, <2>2, <2>3, <2>4 DEF Next
<1> QED
  BY <1>1, <1>2, PTL DEF Spec

\* An account is in a game's index only if its answer was stored: the index is written
\* by a transaction of its own, after the record's, and a crash in between leaves it out.
THEOREM IndexedHaveAnsweredHolds == Spec => []IndexedHaveAnswered
<1>1. InvitesInv => IndexedHaveAnswered
  BY DEF InvitesInv
<1> QED
  BY <1>1, InvitesInvariant, PTL

\* The answer of a parent who added a kid is about the kid that this parent added,
\* whoever else adds kids at the same time.
THEOREM AnswerGoesToOwnKidHolds == Spec => []AnswerGoesToOwnKid
<1>1. InvitesInv => AnswerGoesToOwnKid
  BY DEF InvitesInv, OwnKids, AnswerGoesToOwnKid, Listed, Range, Entry
<1> QED
  BY <1>1, InvitesInvariant, PTL

\* A refresh of the roster has every player that the organizer had been told of when it
\* was sent, however the calls overlap.
THEOREM RefreshHasWhatWasAddedHolds == Spec => []RefreshHasWhatWasAdded
<1>1. InvitesInv => RefreshHasWhatWasAdded
  BY DEF InvitesInv, CallsRight, Right, ReadRight, RefreshHasWhatWasAdded
<1> QED
  BY <1>1, InvitesInvariant, PTL

-----------------------------------------------------------------------------
(***************************************************************************)
(* The parents' pages.                                                     *)
(***************************************************************************)

PlayerIds == Nat \cup {NoPlayer} \cup {Target[p] : p \in Parents}

Player == [playerId : Nat, addedBy : Clients]

Responses == UNION {[S -> Rsvp] : S \in SUBSET Nat}

\* The players are numbered from one on, and the answers are for players.
Record == {g \in [roster : Seq(Player), responses : Responses] :
              /\ \A i \in DOMAIN g.roster : g.roster[i].playerId = i
              /\ DOMAIN g.responses \subseteq DOMAIN g.roster}

CallType == [from : Clients, no : Int, op : {"read", "add", "rsvp"}, id : PlayerIds,
             status : RsvpStatuses, walkIn : BOOLEAN, uid : Parents \cup {Anonymous},
             stage : {"sent", "stored", "answered", "failed"}, doc : Record \cup {NoDoc}]

PageType == [open : BOOLEAN, loading : BOOLEAN, doc : Record \cup {NoDoc}, selected : PlayerIds,
             addingNew : BOOLEAN, status : RsvpStatuses, submitting : BOOLEAN,
             awaits : SUBSET Int, confirmed : BOOLEAN]

CallsTyped == IsFiniteSet(calls) /\ calls \subseteq CallType

Typed ==
    /\ invite \in Record
    /\ indexed \subseteq Parents
    /\ CallsTyped
    /\ budget \in [Clients -> Nat]
    /\ rsvpPage \in [Parents -> PageType]
    /\ rosterPage.doc \in Record \cup {NoDoc}
    /\ setbacks \in [Parents -> Nat]

\* A page waits for one answer at most: to the read that it loads with, or to one of the
\* calls of a click.
PageRight(page) ==
    /\ \A m, n \in page.awaits : m = n
    /\ page.awaits # {} => page.loading \/ page.submitting
    /\ page.loading => ~page.submitting /\ ~page.confirmed
    /\ page.submitting => ~page.confirmed
    /\ page.submitting \/ page.confirmed => page.open

PagesRight == \A p \in Parents : PageRight(rsvpPage[p])

\* The call that a page waits for is under way.
AwaitsRight ==
    \A p \in Parents :
        /\ \A no \in rsvpPage[p].awaits : \E c \in calls : c.from = p /\ c.no = no
        /\ \A c \in calls : Awaits(p, c) => (c.op = "read" <=> rsvpPage[p].loading)

AnsweredBy(doc, id, p) == id \in DOMAIN doc.responses /\ doc.responses[id].by = p

\* The answer to an answer is the record with it, and it stays answered.
AnswerRight(c) ==
    /\ c.op = "rsvp" => c.from \in Parents
    /\ c.op = "rsvp" /\ c.stage \in {"stored", "answered"} =>
           AnsweredBy(c.doc, c.id, c.from) /\ c.id \in DOMAIN invite.responses
    /\ c.stage = "stored" => c.op = "rsvp" /\ c.uid # Anonymous

AnswersRight == \A c \in calls : AnswerRight(c)

ConfirmedRight ==
    \A p \in Parents : rsvpPage[p].confirmed =>
        /\ rsvpPage[p].selected \in DOMAIN invite.responses
        /\ AnsweredBy(rsvpPage[p].doc, rsvpPage[p].selected, p)

AddsOf(q) == {c \in calls : c.from = q /\ c.op = "add"}

\* The call that follows each add is paid for.
AddsPaid == \A q \in Clients : Cardinality(AddsOf(q)) <= budget[q]

EntriesOf(p) == {i \in DOMAIN invite.roster : invite.roster[i].addedBy = p}

SentAddsOf(p) == {c \in calls : c.from = p /\ c.op = "add" /\ c.stage = "sent"}

\* What a page's click stands for, from the click to its failure or to the next time
\* that the link is opened.
Tries(page) == IF page.submitting \/ page.confirmed THEN 1 ELSE 0

\* Every entry that a parent added, or is about to, is one click's.
TriesRight ==
    \A p \in Parents :
        Cardinality(EntriesOf(p)) + Cardinality(SentAddsOf(p)) <= setbacks[p] + Tries(rsvpPage[p])

RsvpInv ==
    /\ Typed
    /\ PagesRight
    /\ AwaitsRight
    /\ AnswersRight
    /\ ConfirmedRight
    /\ AddsPaid
    /\ TriesRight

-----------------------------------------------------------------------------
(***************************************************************************)
(* Counting.                                                               *)
(***************************************************************************)

LEMMA CardSubset ==
    ASSUME NEW S, IsFiniteSet(S), NEW T, T \subseteq S
    PROVE  /\ IsFiniteSet(T) /\ Cardinality(T) \in Nat /\ Cardinality(S) \in Nat
           /\ Cardinality(T) <= Cardinality(S)
BY FS_Subset, FS_CardinalityType

LEMMA CardPlus ==
    ASSUME NEW S, IsFiniteSet(S), NEW x, NEW T, T \subseteq S \cup {x}
    PROVE  /\ IsFiniteSet(T) /\ Cardinality(T) \in Nat /\ Cardinality(S) \in Nat
           /\ Cardinality(T) <= Cardinality(S) + 1
<1>1. /\ IsFiniteSet(S \cup {x})
      /\ Cardinality(S \cup {x}) = Cardinality(S) \/ Cardinality(S \cup {x}) = Cardinality(S) + 1
  BY FS_AddElement
<1>2. Cardinality(S) \in Nat
  BY FS_CardinalityType
<1>3. IsFiniteSet(T) /\ Cardinality(T) \in Nat /\ Cardinality(T) <= Cardinality(S \cup {x})
  BY <1>1, CardSubset
<1> QED
  BY <1>1, <1>2, <1>3

LEMMA CardMinus ==
    ASSUME NEW S, IsFiniteSet(S), NEW x \in S, NEW T, T \subseteq S \ {x}
    PROVE  /\ IsFiniteSet(T) /\ Cardinality(T) \in Nat /\ Cardinality(S) \in Nat
           /\ Cardinality(T) + 1 <= Cardinality(S)
<1>1. IsFiniteSet(S \ {x}) /\ Cardinality(S \ {x}) = Cardinality(S) - 1
  BY FS_RemoveElement
<1>2. Cardinality(S) \in Nat
  BY FS_CardinalityType
<1>3. IsFiniteSet(T) /\ Cardinality(T) \in Nat /\ Cardinality(T) <= Cardinality(S \ {x})
  BY <1>1, CardSubset
<1> QED
  BY <1>1, <1>2, <1>3

LEMMA CardSwap ==
    ASSUME NEW S, IsFiniteSet(S), NEW x \in S, NEW y, NEW T, T \subseteq (S \ {x}) \cup {y}
    PROVE  Cardinality(T) <= Cardinality(S)
<1> DEFINE R == S \ {x}
<1>1. /\ IsFiniteSet(R) /\ Cardinality(R) \in Nat /\ Cardinality(S) \in Nat
      /\ Cardinality(R) + 1 <= Cardinality(S)
  BY CardMinus
<1>2. T \subseteq R \cup {y}
  OBVIOUS
<1> HIDE DEF R
<1>3. Cardinality(T) \in Nat /\ Cardinality(T) <= Cardinality(R) + 1
  BY <1>1, <1>2, CardPlus
<1> QED
  BY <1>1, <1>3

-----------------------------------------------------------------------------
(***************************************************************************)
(* The record.                                                             *)
(***************************************************************************)

LEMMA RecordFacts ==
    ASSUME NEW g \in Record
    PROVE  /\ g.roster \in Seq(Player)
           /\ DOMAIN g.roster = 1 .. Len(g.roster)
           /\ Len(g.roster) \in Nat
           /\ \A i \in DOMAIN g.roster : g.roster[i] \in Player /\ g.roster[i].playerId = i
           /\ DOMAIN g.responses \subseteq DOMAIN g.roster
           /\ \A id \in DOMAIN g.responses : g.responses[id] \in Rsvp
           /\ IsFiniteSet(DOMAIN g.roster)
<1>1. /\ g.roster \in Seq(Player) /\ g.responses \in Responses
      /\ \A i \in DOMAIN g.roster : g.roster[i].playerId = i
      /\ DOMAIN g.responses \subseteq DOMAIN g.roster
  BY DEF Record
<1>2. \A id \in DOMAIN g.responses : g.responses[id] \in Rsvp
  BY <1>1 DEF Responses
<1>3. DOMAIN g.roster = 1 .. Len(g.roster) /\ Len(g.roster) \in Nat
  BY <1>1
<1>4. IsFiniteSet(1 .. Len(g.roster))
  BY <1>3, FS_Interval
<1> QED
  BY <1>1, <1>2, <1>3, <1>4

LEMMA RecordIds ==
    ASSUME NEW g \in Record
    PROVE  Ids(g.roster) = DOMAIN g.roster
BY RecordFacts DEF Ids

LEMMA RecordIsInvite ==
    ASSUME NEW g \in Record
    PROVE  IsInvite(g)
<1>1. Ids(g.roster) = 1 .. Len(g.roster)
  BY RecordFacts, RecordIds
<1>2. \A i \in DOMAIN g.roster : g.roster[i].addedBy \in Clients
  BY RecordFacts DEF Player
<1> QED
  BY <1>1, <1>2, RecordFacts DEF IsInvite

LEMMA WithPlayerRecord ==
    ASSUME NEW g \in Record, NEW q \in Clients,
           NEW h, h = WithPlayer(g, [playerId |-> NewPlayerId(g), addedBy |-> q])
    PROVE  /\ h \in Record
           /\ h.responses = g.responses
           /\ h.roster = Append(g.roster, [playerId |-> NewPlayerId(g), addedBy |-> q])
<1> DEFINE player == [playerId |-> NewPlayerId(g), addedBy |-> q]
<1>1. /\ g.roster \in Seq(Player) /\ Len(g.roster) \in Nat
      /\ \A i \in DOMAIN g.roster : g.roster[i].playerId = i
      /\ DOMAIN g.responses \subseteq DOMAIN g.roster
  BY RecordFacts
<1>2. player \in Player /\ player.playerId = Len(g.roster) + 1
  BY <1>1 DEF Player, NewPlayerId
<1>3. h = [roster |-> Append(g.roster, player), responses |-> g.responses]
  BY DEF WithPlayer, Record
<1>4. h.roster = Append(g.roster, player) /\ h.responses = g.responses
  BY <1>3
<1> HIDE DEF player
<1>5. Append(g.roster, player) \in Seq(Player)
  BY <1>1, <1>2
<1>6. \A i \in DOMAIN h.roster : h.roster[i].playerId = i
  BY <1>1, <1>2, <1>4
<1>7. DOMAIN g.roster \subseteq DOMAIN h.roster
  BY <1>1, <1>2, <1>4
<1>8. g.responses \in Responses
  BY DEF Record
<1>9. h \in [roster : Seq(Player), responses : Responses]
  BY <1>3, <1>5, <1>8
<1> QED
  BY <1>1, <1>4, <1>6, <1>7, <1>9 DEF Record, player

LEMMA WithRsvpRecord ==
    ASSUME NEW g \in Record, NEW id \in Ids(g.roster), NEW rsvp \in Rsvp,
           NEW h, h = WithRsvp(g, id, rsvp)
    PROVE  /\ h \in Record
           /\ h.roster = g.roster
           /\ DOMAIN h.responses = DOMAIN g.responses \cup {id}
           /\ h.responses[id] = rsvp
<1> DEFINE Answered == [k \in DOMAIN g.responses \cup {id} |-> IF k = id THEN rsvp ELSE g.responses[k]]
<1>1. h = [roster |-> g.roster, responses |-> Answered]
  BY DEF WithRsvp, Record
<1>2. h.roster = g.roster /\ h.responses = Answered
  BY <1>1
<1>3. /\ id \in DOMAIN g.roster /\ DOMAIN g.responses \subseteq DOMAIN g.roster
      /\ DOMAIN g.roster \subseteq Nat /\ g.roster \in Seq(Player)
      /\ \A k \in DOMAIN g.responses : g.responses[k] \in Rsvp
      /\ \A i \in DOMAIN g.roster : g.roster[i].playerId = i
  BY RecordFacts, RecordIds
<1>4. Answered \in [DOMAIN g.responses \cup {id} -> Rsvp]
  BY <1>3
<1>5. DOMAIN g.responses \cup {id} \in SUBSET Nat
  BY <1>3
<1>6. Answered \in Responses
  BY <1>4, <1>5 DEF Responses
<1>7. h \in [roster : Seq(Player), responses : Responses]
  BY <1>1, <1>3, <1>6
<1>8. DOMAIN h.responses = DOMAIN g.responses \cup {id} /\ h.responses[id] = rsvp
  BY <1>2
<1> QED
  BY <1>2, <1>3, <1>7, <1>8 DEF Record

-----------------------------------------------------------------------------
(***************************************************************************)
(* The backend answers a call, or it is lost.                              *)
(***************************************************************************)

\* What the backend does to the record and to the call.
Answering(c, stage, doc) ==
    /\ Becomes(c, stage, doc)
    /\ stage \in {"stored", "answered", "failed"}
    /\ doc \in Record \cup {NoDoc}
    /\ invite' \in Record
    /\ indexed' \subseteq Parents
    /\ DOMAIN invite.responses \subseteq DOMAIN invite'.responses
    /\ c.op = "rsvp" /\ stage # "failed" =>
           AnsweredBy(doc, c.id, c.from) /\ c.id \in DOMAIN invite'.responses
    /\ stage = "stored" => c.op = "rsvp" /\ c.uid # Anonymous
    /\ \/ invite'.roster = invite.roster
       \/ /\ c.op = "add" /\ c.stage = "sent"
          /\ \E player \in Player : player.addedBy = c.from /\ invite'.roster = Append(invite.roster, player)

LEMMA StagedCall ==
    ASSUME NEW c \in CallType, NEW stage \in {"stored", "answered", "failed"},
           NEW doc \in Record \cup {NoDoc}
    PROVE  LET d == Staged(c, stage, doc) IN
           /\ d \in CallType /\ d.stage = stage /\ d.doc = doc
           /\ d.from = c.from /\ d.no = c.no /\ d.op = c.op /\ d.id = c.id
           /\ d.walkIn = c.walkIn /\ d.uid = c.uid
BY DEF Staged, CallType

LEMMA BecomesFrom ==
    ASSUME NEW c, NEW stage, NEW doc, Becomes(c, stage, doc)
    PROVE  /\ calls \ {c} \subseteq calls'
           /\ calls' \subseteq (calls \ {c}) \cup {Staged(c, stage, doc)}
           /\ c.from \in Parents /\ Awaits(c.from, c) => Staged(c, stage, doc) \in calls'
BY Zenon DEF Becomes, Staged

LEMMA AnsweringTyped ==
    ASSUME Typed, NEW c \in calls, NEW stage, NEW doc, Answering(c, stage, doc),
           UNCHANGED <<budget, rsvpPage, rosterPage, setbacks>>
    PROVE  Typed'
<1> DEFINE d == Staged(c, stage, doc)
<1>1. c \in CallType
  BY DEF Typed, CallsTyped
<1>2. d \in CallType
  <2>1. stage \in {"stored", "answered", "failed"} /\ doc \in Record \cup {NoDoc}
    BY DEF Answering
  <2> QED
    BY <1>1, <2>1, StagedCall
<1>3. calls' \subseteq (calls \ {c}) \cup {d}
  BY BecomesFrom DEF Answering
<1> HIDE DEF d
<1>4. calls' \subseteq calls \cup {d} /\ IsFiniteSet(calls)
  BY <1>3 DEF Typed, CallsTyped
<1>5. IsFiniteSet(calls')
  BY <1>4, CardPlus
<1>6. CallsTyped'
  BY <1>2, <1>4, <1>5 DEF Typed, CallsTyped
<1> QED
  BY <1>6 DEF Typed, Answering

LEMMA AnsweringAwaits ==
    ASSUME Typed, AwaitsRight, NEW c \in calls, NEW stage, NEW doc, Answering(c, stage, doc),
           UNCHANGED <<budget, rsvpPage, rosterPage, setbacks>>
    PROVE  AwaitsRight'
<1> DEFINE d == Staged(c, stage, doc)
<1>1. c \in CallType
  BY DEF Typed, CallsTyped
<1>2. d.from = c.from /\ d.no = c.no /\ d.op = c.op
  <2>1. stage \in {"stored", "answered", "failed"} /\ doc \in Record \cup {NoDoc}
    BY DEF Answering
  <2> QED
    BY <1>1, <2>1, StagedCall
<1>3. /\ calls \ {c} \subseteq calls' /\ calls' \subseteq (calls \ {c}) \cup {d}
      /\ c.from \in Parents /\ Awaits(c.from, c) => d \in calls'
  BY BecomesFrom DEF Answering
<1> HIDE DEF d
<1> SUFFICES ASSUME NEW p \in Parents
             PROVE  /\ \A no \in rsvpPage[p].awaits : \E b \in calls' : b.from = p /\ b.no = no
                    /\ \A b \in calls' : Awaits(p, b) => (b.op = "read" <=> rsvpPage[p].loading)
  BY DEF AwaitsRight, Awaits
<1>4. ASSUME NEW no \in rsvpPage[p].awaits PROVE \E b \in calls' : b.from = p /\ b.no = no
  <2>1. PICK b \in calls : b.from = p /\ b.no = no
    BY <1>4 DEF AwaitsRight
  <2>2. CASE b # c
    BY <1>3, <2>1, <2>2
  <2>3. CASE b = c
    <3>1. Awaits(c.from, c) /\ c.from = p
      BY <1>4, <2>1, <2>3 DEF Awaits
    <3> QED
      BY <1>2, <1>3, <2>1, <2>3, <3>1
  <2> QED
    BY <2>2, <2>3
<1>5. ASSUME NEW b \in calls', Awaits(p, b) PROVE b.op = "read" <=> rsvpPage[p].loading
  <2>1. CASE b \in calls
    BY <1>5, <2>1 DEF AwaitsRight
  <2>2. CASE b = d
    <3>1. Awaits(p, c)
      BY <1>2, <1>5, <2>2 DEF Awaits
    <3>2. c.op = "read" <=> rsvpPage[p].loading
      BY <3>1 DEF AwaitsRight
    <3> QED
      BY <1>2, <2>2, <3>2
  <2> QED
    BY <1>3, <2>1, <2>2
<1> QED
  BY <1>4, <1>5

LEMMA AnsweringAnswers ==
    ASSUME Typed, AnswersRight, ConfirmedRight, NEW c \in calls, NEW stage, NEW doc,
           Answering(c, stage, doc), UNCHANGED <<budget, rsvpPage, rosterPage, setbacks>>
    PROVE  AnswersRight' /\ ConfirmedRight'
<1> DEFINE d == Staged(c, stage, doc)
<1>1. c \in CallType
  BY DEF Typed, CallsTyped
<1>2. /\ d.from = c.from /\ d.op = c.op /\ d.id = c.id /\ d.uid = c.uid
      /\ d.stage = stage /\ d.doc = doc
  <2>1. stage \in {"stored", "answered", "failed"} /\ doc \in Record \cup {NoDoc}
    BY DEF Answering
  <2> QED
    BY <1>1, <2>1, StagedCall
<1>3. calls' \subseteq (calls \ {c}) \cup {d}
  BY BecomesFrom DEF Answering
<1> HIDE DEF d
<1>4. ASSUME NEW b \in calls' PROVE AnswerRight(b)'
  <2>1. CASE b \in calls
    <3>1. AnswerRight(b)
      BY <2>1 DEF AnswersRight
    <3> QED
      BY <3>1 DEF AnswerRight, Answering
  <2>2. CASE b = d
    <3>1. AnswerRight(c)
      BY DEF AnswersRight
    <3> QED
      BY <1>2, <2>2, <3>1 DEF AnswerRight, Answering
  <2> QED
    BY <1>3, <1>4, <2>1, <2>2
<1>5. ConfirmedRight'
  BY DEF ConfirmedRight, Answering
<1> QED
  BY <1>4, <1>5 DEF AnswersRight

LEMMA AnsweringPaid ==
    ASSUME Typed, AddsPaid, NEW c \in calls, NEW stage, NEW doc, Answering(c, stage, doc),
           UNCHANGED <<budget, rsvpPage, rosterPage, setbacks>>
    PROVE  AddsPaid'
<1> DEFINE d == Staged(c, stage, doc)
<1>1. c \in CallType /\ IsFiniteSet(calls)
  BY DEF Typed, CallsTyped
<1>2. d.from = c.from /\ d.op = c.op
  <2>1. stage \in {"stored", "answered", "failed"} /\ doc \in Record \cup {NoDoc}
    BY DEF Answering
  <2> QED
    BY <1>1, <2>1, StagedCall
<1>3. calls' \subseteq (calls \ {c}) \cup {d}
  BY BecomesFrom DEF Answering
<1> HIDE DEF d
<1> SUFFICES ASSUME NEW q \in Clients PROVE Cardinality(AddsOf(q)') <= budget[q]
  BY DEF AddsPaid
<1>4. /\ IsFiniteSet(AddsOf(q)) /\ Cardinality(AddsOf(q)) \in Nat
      /\ Cardinality(AddsOf(q)) <= budget[q] /\ budget[q] \in Nat
  <2>1. AddsOf(q) \subseteq calls
    BY DEF AddsOf
  <2> QED
    BY <1>1, <2>1, CardSubset DEF AddsPaid, Typed
<1>5. Cardinality(AddsOf(q)') <= Cardinality(AddsOf(q)) /\ Cardinality(AddsOf(q)') \in Nat
  <2>1. CASE c \in AddsOf(q)
    <3>1. AddsOf(q)' \subseteq (AddsOf(q) \ {c}) \cup {d}
      BY <1>3 DEF AddsOf
    <3>2. AddsOf(q)' \subseteq AddsOf(q) \cup {d}
      BY <3>1
    <3> QED
      BY <1>4, <2>1, <3>1, <3>2, CardSwap, CardPlus
  <2>2. CASE c \notin AddsOf(q)
    <3>1. AddsOf(q)' \subseteq AddsOf(q)
      BY <1>2, <1>3, <2>2 DEF AddsOf
    <3> QED
      BY <1>4, <3>1, CardSubset
  <2> QED
    BY <2>1, <2>2
<1> QED
  BY <1>4, <1>5

LEMMA EntriesFinite ==
    ASSUME Typed, NEW p
    PROVE  /\ IsFiniteSet(EntriesOf(p)) /\ Cardinality(EntriesOf(p)) \in Nat
           /\ IsFiniteSet(SentAddsOf(p)) /\ Cardinality(SentAddsOf(p)) \in Nat
<1>1. IsFiniteSet(calls) /\ IsFiniteSet(DOMAIN invite.roster)
  BY RecordFacts DEF Typed, CallsTyped
<1>2. EntriesOf(p) \subseteq DOMAIN invite.roster /\ SentAddsOf(p) \subseteq calls
  BY DEF EntriesOf, SentAddsOf
<1> QED
  BY <1>1, <1>2, CardSubset

\* The kid of an add that is served is on the roster instead of on its way.
LEMMA AnsweringTries ==
    ASSUME Typed, TriesRight, NEW c \in calls, NEW stage, NEW doc, Answering(c, stage, doc),
           UNCHANGED <<budget, rsvpPage, rosterPage, setbacks>>
    PROVE  TriesRight'
<1> DEFINE d == Staged(c, stage, doc)
<1>1. c \in CallType /\ IsFiniteSet(calls)
  BY DEF Typed, CallsTyped
<1>2. d.stage # "sent"
  <2>1. stage \in {"stored", "answered", "failed"} /\ doc \in Record \cup {NoDoc}
    BY DEF Answering
  <2> QED
    BY <1>1, <2>1, StagedCall
<1>3. calls' \subseteq (calls \ {c}) \cup {d}
  BY BecomesFrom DEF Answering
<1> HIDE DEF d
<1> SUFFICES ASSUME NEW p \in Parents
             PROVE  Cardinality(EntriesOf(p)') + Cardinality(SentAddsOf(p)')
                        <= setbacks[p] + Tries(rsvpPage[p])
  BY DEF TriesRight
<1>4. /\ IsFiniteSet(EntriesOf(p)) /\ Cardinality(EntriesOf(p)) \in Nat
      /\ IsFiniteSet(SentAddsOf(p)) /\ Cardinality(SentAddsOf(p)) \in Nat
  BY EntriesFinite
<1>5. SentAddsOf(p)' \subseteq SentAddsOf(p) \ {c}
  BY <1>2, <1>3 DEF SentAddsOf
<1>6. Cardinality(SentAddsOf(p)') <= Cardinality(SentAddsOf(p)) /\ Cardinality(SentAddsOf(p)') \in Nat
  BY <1>4, <1>5, CardSubset
<1>7. setbacks[p] \in Nat /\ Tries(rsvpPage[p]) \in Nat
  BY DEF Typed, Tries
<1>8. Cardinality(EntriesOf(p)) + Cardinality(SentAddsOf(p)) <= setbacks[p] + Tries(rsvpPage[p])
  BY DEF TriesRight
<1>9. CASE EntriesOf(p)' \subseteq EntriesOf(p)
  <2>1. Cardinality(EntriesOf(p)') <= Cardinality(EntriesOf(p)) /\ Cardinality(EntriesOf(p)') \in Nat
    BY <1>4, <1>9, CardSubset
  <2> QED
    BY <1>4, <1>6, <1>7, <1>8, <2>1
<1>10. CASE ~(EntriesOf(p)' \subseteq EntriesOf(p))
  <2>1. /\ invite.roster \in Seq(Player)
        /\ invite'.roster # invite.roster
    BY <1>10, RecordFacts DEF EntriesOf, Typed
  <2>2. PICK player \in Player :
          /\ c.op = "add" /\ c.stage = "sent"
          /\ player.addedBy = c.from /\ invite'.roster = Append(invite.roster, player)
    BY <2>1 DEF Answering
  <2>3. EntriesOf(p)' \subseteq EntriesOf(p) \cup {Len(invite.roster) + 1}
    BY <2>1, <2>2 DEF EntriesOf
  <2>4. c.from = p
    BY <1>10, <2>1, <2>2 DEF EntriesOf
  <2>5. c \in SentAddsOf(p)
    BY <2>2, <2>4 DEF SentAddsOf
  <2>6. Cardinality(EntriesOf(p)') <= Cardinality(EntriesOf(p)) + 1 /\ Cardinality(EntriesOf(p)') \in Nat
    BY <1>4, <2>3, CardPlus
  <2>7. Cardinality(SentAddsOf(p)') + 1 <= Cardinality(SentAddsOf(p))
    BY <1>4, <1>5, <2>5, CardMinus
  <2> QED
    BY <1>4, <1>6, <1>7, <1>8, <2>6, <2>7
<1> QED
  BY <1>9, <1>10

LEMMA AnsweringKept ==
    ASSUME RsvpInv, NEW c \in calls, NEW stage, NEW doc, Answering(c, stage, doc),
           UNCHANGED <<budget, rsvpPage, rosterPage, setbacks>>
    PROVE  RsvpInv'
<1>1. Typed /\ PagesRight /\ AwaitsRight /\ AnswersRight /\ ConfirmedRight /\ AddsPaid /\ TriesRight
  BY DEF RsvpInv
<1>2. Typed'
  BY <1>1, AnsweringTyped
<1>3. PagesRight'
  BY <1>1 DEF PagesRight, PageRight
<1>4. AwaitsRight'
  BY <1>1, AnsweringAwaits
<1>5. AnswersRight' /\ ConfirmedRight'
  BY <1>1, AnsweringAnswers
<1>6. AddsPaid'
  BY <1>1, AnsweringPaid
<1>7. TriesRight'
  BY <1>1, AnsweringTries
<1> QED
  BY <1>2, <1>3, <1>4, <1>5, <1>6, <1>7 DEF RsvpInv

LEMMA BackendKeepsRsvp ==
    ASSUME RsvpInv, Backend
    PROVE  RsvpInv'
<1> USE DEF Backend
<1>1. PICK c \in calls : ServeRead(c) \/ ServeAdd(c) \/ ServeRsvp(c) \/ ServeIndex(c) \/ Lose(c)
  OBVIOUS
<1>2. UNCHANGED <<budget, rsvpPage, rosterPage, setbacks>>
  OBVIOUS
<1>3. /\ invite \in Record /\ c \in CallType /\ AnswerRight(c) /\ indexed \subseteq Parents
  BY DEF RsvpInv, Typed, CallsTyped, AnswersRight
<1>4. CASE ServeRead(c)
  <2>1. Answering(c, "answered", invite)
    BY <1>3, <1>4 DEF ServeRead, StoredFor, Answering
  <2> QED
    BY <1>2, <2>1, AnsweringKept
<1>5. CASE ServeAdd(c)
  <2> DEFINE player == [playerId |-> NewPlayerId(invite), addedBy |-> c.from]
  <2>1. /\ c.op = "add" /\ c.stage = "sent" /\ invite' = WithPlayer(invite, player)
        /\ Becomes(c, "answered", invite') /\ indexed' = indexed
    BY <1>5 DEF ServeAdd
  <2>2. c.from \in Clients /\ NewPlayerId(invite) \in Nat
    BY <1>3, RecordFacts DEF CallType, NewPlayerId
  <2>3. /\ invite' \in Record /\ invite'.responses = invite.responses
        /\ invite'.roster = Append(invite.roster, player)
    BY <1>3, <2>1, <2>2, WithPlayerRecord
  <2>4. player \in Player /\ player.addedBy = c.from
    BY <2>2 DEF Player
  <2>5. \E x \in Player : x.addedBy = c.from /\ invite'.roster = Append(invite.roster, x)
    BY <2>3, <2>4
  <2>6. Answering(c, "answered", invite')
    BY <1>3, <2>1, <2>3, <2>5 DEF Answering
  <2> QED
    BY <1>2, <2>6, AnsweringKept
<1>6. CASE ServeRsvp(c)
  <2>1. c.op = "rsvp" /\ indexed' = indexed /\ c.from \in Parents
    BY <1>3, <1>6 DEF ServeRsvp, IndexedWithRecord, AnswerRight
  <2>2. CASE Acceptable(c)
    <3> DEFINE rsvp == [status |-> c.status, by |-> c.from, walkIn |-> c.walkIn]
               stage == IF c.uid = Anonymous THEN "answered" ELSE "stored"
    <3>1. invite' = WithRsvp(invite, c.id, rsvp) /\ Becomes(c, stage, invite')
      BY <1>6, <2>2 DEF ServeRsvp, RsvpOf
    <3>2. c.id \in Ids(invite.roster) /\ rsvp \in Rsvp
      BY <1>3, <2>1, <2>2 DEF Acceptable, OnRoster, CallType, Rsvp
    <3>3. /\ invite' \in Record /\ invite'.roster = invite.roster
          /\ DOMAIN invite'.responses = DOMAIN invite.responses \cup {c.id}
          /\ invite'.responses[c.id] = rsvp
      BY <1>3, <3>1, <3>2, WithRsvpRecord
    <3>4. AnsweredBy(invite', c.id, c.from)
      BY <3>3 DEF AnsweredBy
    <3>5. stage \in {"stored", "answered", "failed"} /\ (stage = "stored" => c.uid # Anonymous)
      OBVIOUS
    <3> HIDE DEF stage
    <3>6. Answering(c, stage, invite')
      BY <1>3, <2>1, <3>1, <3>3, <3>4, <3>5 DEF Answering
    <3> QED
      BY <1>2, <3>6, AnsweringKept
  <2>3. CASE ~Acceptable(c)
    <3>1. Becomes(c, "failed", NoDoc) /\ UNCHANGED invite
      BY <1>6, <2>3 DEF ServeRsvp
    <3>2. Answering(c, "failed", NoDoc)
      BY <1>3, <2>1, <3>1 DEF Answering
    <3> QED
      BY <1>2, <3>2, AnsweringKept
  <2> QED
    BY <2>2, <2>3
<1>7. CASE ServeIndex(c)
  <2>1. /\ c.stage = "stored" /\ Becomes(c, "answered", c.doc) /\ UNCHANGED invite
        /\ indexed' \subseteq indexed \cup {c.uid}
    BY <1>7 DEF ServeIndex
  <2>2. c.doc \in Record \cup {NoDoc} /\ c.uid \in Parents
    BY <1>3, <2>1 DEF CallType, AnswerRight
  <2>3. Answering(c, "answered", c.doc)
    BY <1>3, <2>1, <2>2 DEF Answering, AnswerRight
  <2> QED
    BY <1>2, <2>3, AnsweringKept
<1>8. CASE Lose(c)
  <2>1. Becomes(c, "failed", NoDoc) /\ UNCHANGED <<invite, indexed>>
    BY <1>8 DEF Lose
  <2>2. Answering(c, "failed", NoDoc)
    BY <1>3, <2>1 DEF Answering
  <2> QED
    BY <1>2, <2>2, AnsweringKept
<1> QED
  BY <1>1, <1>4, <1>5, <1>6, <1>7, <1>8

-----------------------------------------------------------------------------
(***************************************************************************)
(* Paying for calls.                                                       *)
(***************************************************************************)

LEMMA AddsFinite ==
    ASSUME Typed, AddsPaid, NEW q \in Clients
    PROVE  /\ IsFiniteSet(AddsOf(q)) /\ Cardinality(AddsOf(q)) \in Nat
           /\ Cardinality(AddsOf(q)) <= budget[q] /\ budget[q] \in Nat
<1>1. AddsOf(q) \subseteq calls /\ IsFiniteSet(calls)
  BY DEF AddsOf, Typed, CallsTyped
<1> QED
  BY <1>1, CardSubset DEF AddsPaid, Typed

LEMMA NothingPaid ==
    ASSUME Typed, AddsPaid, calls' \subseteq calls, budget' = budget
    PROVE  AddsPaid' /\ budget' \in [Clients -> Nat]
<1> SUFFICES ASSUME NEW q \in Clients PROVE Cardinality(AddsOf(q)') <= budget[q]
  BY DEF AddsPaid, Typed
<1>1. /\ IsFiniteSet(AddsOf(q)) /\ Cardinality(AddsOf(q)) \in Nat
      /\ Cardinality(AddsOf(q)) <= budget[q] /\ budget[q] \in Nat
  BY AddsFinite
<1>2. AddsOf(q)' \subseteq AddsOf(q)
  BY DEF AddsOf
<1>3. Cardinality(AddsOf(q)') <= Cardinality(AddsOf(q)) /\ Cardinality(AddsOf(q)') \in Nat
  BY <1>1, <1>2, CardSubset
<1> QED
  BY <1>1, <1>3

\* The calls of one page are counted apart from the others'.
LEMMA PaidApart ==
    ASSUME Typed, AddsPaid, NEW q \in Clients, Pays(q), budget[q] > 0,
           NEW x, x.from = q, calls' \subseteq calls \cup {x},
           Cardinality(AddsOf(q)') <= budget[q] - 1
    PROVE  AddsPaid' /\ budget' \in [Clients -> Nat]
<1>1. budget' \in [Clients -> Nat] /\ budget'[q] = budget[q] - 1
  BY DEF Typed, Pays
<1>2. ASSUME NEW r \in Clients, r # q PROVE Cardinality(AddsOf(r)') <= budget'[r]
  <2>1. /\ IsFiniteSet(AddsOf(r)) /\ Cardinality(AddsOf(r)) \in Nat
        /\ Cardinality(AddsOf(r)) <= budget[r] /\ budget[r] \in Nat
    BY AddsFinite
  <2>2. AddsOf(r)' \subseteq AddsOf(r)
    BY <1>2 DEF AddsOf
  <2>3. Cardinality(AddsOf(r)') <= Cardinality(AddsOf(r)) /\ Cardinality(AddsOf(r)') \in Nat
    BY <2>1, <2>2, CardSubset
  <2>4. budget'[r] = budget[r]
    BY <1>2 DEF Typed, Pays
  <2> QED
    BY <2>1, <2>3, <2>4
<1> QED
  BY <1>1, <1>2 DEF AddsPaid

LEMMA OnePaid ==
    ASSUME Typed, AddsPaid, NEW q \in Clients, Pays(q), MayCall(q, 1),
           NEW x, x.from = q, x.op # "add", calls' \subseteq calls \cup {x}
    PROVE  AddsPaid' /\ budget' \in [Clients -> Nat]
<1>1. /\ IsFiniteSet(AddsOf(q)) /\ Cardinality(AddsOf(q)) \in Nat /\ budget[q] \in Nat
  BY AddsFinite
<1>2. 1 + Cardinality(AddsOf(q)) <= budget[q]
  BY DEF MayCall, AddsOf
<1>3. AddsOf(q)' \subseteq AddsOf(q)
  BY DEF AddsOf
<1>4. Cardinality(AddsOf(q)') <= Cardinality(AddsOf(q)) /\ Cardinality(AddsOf(q)') \in Nat
  BY <1>1, <1>3, CardSubset
<1>5. budget[q] > 0 /\ Cardinality(AddsOf(q)') <= budget[q] - 1
  BY <1>1, <1>2, <1>4
<1> QED
  BY <1>5, PaidApart

LEMMA TwoPaid ==
    ASSUME Typed, AddsPaid, NEW q \in Clients, Pays(q), MayCall(q, 2),
           NEW x, x.from = q, calls' \subseteq calls \cup {x}
    PROVE  AddsPaid' /\ budget' \in [Clients -> Nat]
<1>1. /\ IsFiniteSet(AddsOf(q)) /\ Cardinality(AddsOf(q)) \in Nat /\ budget[q] \in Nat
  BY AddsFinite
<1>2. 2 + Cardinality(AddsOf(q)) <= budget[q]
  BY DEF MayCall, AddsOf
<1>3. AddsOf(q)' \subseteq AddsOf(q) \cup {x}
  BY DEF AddsOf
<1>4. Cardinality(AddsOf(q)') <= Cardinality(AddsOf(q)) + 1 /\ Cardinality(AddsOf(q)') \in Nat
  BY <1>1, <1>3, CardPlus
<1>5. budget[q] > 0 /\ Cardinality(AddsOf(q)') <= budget[q] - 1
  BY <1>1, <1>2, <1>4
<1> QED
  BY <1>5, PaidApart

\* The call that follows an add was paid for with it.
LEMMA FollowingPaid ==
    ASSUME Typed, AddsPaid, NEW q \in Clients, Pays(q), NEW c \in calls, c.from = q, c.op = "add",
           NEW x, x.from = q, x.op # "add", calls' \subseteq (calls \ {c}) \cup {x}
    PROVE  AddsPaid' /\ budget' \in [Clients -> Nat]
<1>1. /\ IsFiniteSet(AddsOf(q)) /\ Cardinality(AddsOf(q)) \in Nat
      /\ Cardinality(AddsOf(q)) <= budget[q] /\ budget[q] \in Nat
  BY AddsFinite
<1>2. c \in AddsOf(q) /\ AddsOf(q)' \subseteq AddsOf(q) \ {c}
  BY DEF AddsOf
<1>3. Cardinality(AddsOf(q)') + 1 <= Cardinality(AddsOf(q)) /\ Cardinality(AddsOf(q)') \in Nat
  BY <1>1, <1>2, CardMinus
<1>4. budget[q] > 0 /\ Cardinality(AddsOf(q)') <= budget[q] - 1
  BY <1>1, <1>3
<1> QED
  BY <1>4, PaidApart

LEMMA CallTyped ==
    ASSUME budget \in [Clients -> Nat], NEW q \in Clients, NEW op \in {"read", "add", "rsvp"},
           NEW id \in PlayerIds, NEW status \in RsvpStatuses, NEW walkIn \in BOOLEAN,
           NEW uid \in Parents \cup {Anonymous}
    PROVE  LET x == Call(q, op, id, status, walkIn, uid) IN
           /\ x \in CallType /\ x.from = q /\ x.no = budget[q] /\ x.op = op /\ x.stage = "sent"
BY DEF Call, CallType

LEMMA ReadOrAddTyped ==
    ASSUME budget \in [Clients -> Nat], NEW q \in Clients
    PROVE  /\ ReadOf(q) \in CallType /\ ReadOf(q).from = q /\ ReadOf(q).no = budget[q]
           /\ ReadOf(q).op = "read" /\ ReadOf(q).stage = "sent"
           /\ AddOf(q) \in CallType /\ AddOf(q).from = q /\ AddOf(q).no = budget[q]
           /\ AddOf(q).op = "add" /\ AddOf(q).stage = "sent"
BY DEF Call, CallType, ReadOf, AddOf, PlayerIds, RsvpStatuses

\* Calls are numbered downwards: one that is sent now is under a number of its own.
NumbersRight == \A c \in calls : c.no > budget[c.from]

-----------------------------------------------------------------------------
(***************************************************************************)
(* A parent's page.                                                        *)
(***************************************************************************)

\* What a step of a parent's page does to the calls, to what the page waits for and to
\* what it shows.
PageStep(p) ==
    /\ UNCHANGED <<invite, indexed, rosterPage>>
    /\ budget' \in [Clients -> Nat] /\ AddsPaid'
    /\ rsvpPage' \in [Parents -> PageType] /\ setbacks' \in [Parents -> Nat]
    /\ \A q \in Parents \ {p} : rsvpPage'[q] = rsvpPage[q] /\ setbacks'[q] = setbacks[q]
    /\ PageRight(rsvpPage'[p])
    /\ \A d \in calls : d.from # p => d \in calls'
    /\ \E x \in CallType : /\ calls' \subseteq calls \cup {x}
                           /\ x \notin calls => x.from = p /\ x.stage = "sent"
    /\ \A no \in rsvpPage'[p].awaits : \E d \in calls' : d.from = p /\ d.no = no
    /\ \A d \in calls' : d.from = p /\ d.no \in rsvpPage'[p].awaits =>
           (d.op = "read" <=> rsvpPage'[p].loading)
    /\ rsvpPage'[p].confirmed =>
           /\ rsvpPage'[p].selected \in DOMAIN invite.responses
           /\ AnsweredBy(rsvpPage'[p].doc, rsvpPage'[p].selected, p)
    /\ Cardinality(EntriesOf(p)) + Cardinality(SentAddsOf(p)') <= setbacks'[p] + Tries(rsvpPage'[p])

LEMMA PageStepRight ==
    ASSUME RsvpInv, NEW p \in Parents, PageStep(p)
    PROVE  RsvpInv'
<1>1. Typed /\ PagesRight /\ AwaitsRight /\ AnswersRight /\ ConfirmedRight /\ AddsPaid /\ TriesRight
  BY DEF RsvpInv
<1>2. UNCHANGED <<invite, indexed, rosterPage>> /\ AddsPaid' /\ budget' \in [Clients -> Nat]
  BY DEF PageStep
<1>3. PICK x \in CallType : /\ calls' \subseteq calls \cup {x}
                            /\ x \notin calls => x.from = p /\ x.stage = "sent"
  BY DEF PageStep
<1>4. /\ rsvpPage' \in [Parents -> PageType] /\ setbacks' \in [Parents -> Nat]
      /\ \A q \in Parents \ {p} : rsvpPage'[q] = rsvpPage[q] /\ setbacks'[q] = setbacks[q]
      /\ \A d \in calls : d.from # p => d \in calls'
  BY DEF PageStep
<1>5. CallsTyped'
  <2>1. IsFiniteSet(calls) /\ calls \subseteq CallType
    BY <1>1 DEF Typed, CallsTyped
  <2>2. IsFiniteSet(calls')
    BY <1>3, <2>1, CardPlus
  <2> QED
    BY <1>3, <2>1, <2>2 DEF CallsTyped
<1>6. Typed'
  BY <1>1, <1>2, <1>4, <1>5 DEF Typed
<1>7. PagesRight'
  BY <1>1, <1>4 DEF PagesRight, PageStep
<1>8. AwaitsRight'
  <2> SUFFICES ASSUME NEW q \in Parents
               PROVE  /\ \A no \in rsvpPage'[q].awaits : \E d \in calls' : d.from = q /\ d.no = no
                      /\ \A d \in calls' : d.from = q /\ d.no \in rsvpPage'[q].awaits =>
                             (d.op = "read" <=> rsvpPage'[q].loading)
    BY DEF AwaitsRight, Awaits
  <2>1. CASE q = p
    BY <2>1 DEF PageStep
  <2>2. CASE q # p
    <3>1. rsvpPage'[q] = rsvpPage[q]
      BY <1>4, <2>2
    <3>2. /\ \A no \in rsvpPage[q].awaits : \E d \in calls : d.from = q /\ d.no = no
          /\ \A d \in calls : d.from = q /\ d.no \in rsvpPage[q].awaits =>
                 (d.op = "read" <=> rsvpPage[q].loading)
      BY <1>1 DEF AwaitsRight, Awaits
    <3>3. \A d \in calls' : d.from = q => d \in calls
      BY <1>3, <2>2
    <3> QED
      BY <1>4, <2>2, <3>1, <3>2, <3>3
  <2> QED
    BY <2>1, <2>2
<1>9. AnswersRight'
  <2> SUFFICES ASSUME NEW d \in calls' PROVE AnswerRight(d)'
    BY DEF AnswersRight
  <2>1. CASE d \in calls
    BY <1>1, <1>2, <2>1 DEF AnswersRight, AnswerRight
  <2>2. CASE d = x /\ x \notin calls
    BY <1>3, <2>2 DEF AnswerRight
  <2> QED
    BY <1>3, <2>1, <2>2
<1>10. ConfirmedRight'
  <2> SUFFICES ASSUME NEW q \in Parents, rsvpPage'[q].confirmed
               PROVE  /\ rsvpPage'[q].selected \in DOMAIN invite.responses
                      /\ AnsweredBy(rsvpPage'[q].doc, rsvpPage'[q].selected, q)
    BY <1>2 DEF ConfirmedRight
  <2>1. CASE q = p
    BY <2>1 DEF PageStep
  <2>2. CASE q # p
    BY <1>1, <1>4, <2>2 DEF ConfirmedRight
  <2> QED
    BY <2>1, <2>2
<1>11. TriesRight'
  <2> SUFFICES ASSUME NEW q \in Parents
               PROVE  Cardinality(EntriesOf(q)) + Cardinality(SentAddsOf(q)')
                          <= setbacks'[q] + Tries(rsvpPage'[q])
    <3>1. \A q \in Parents : EntriesOf(q)' = EntriesOf(q)
      BY <1>2 DEF EntriesOf
    <3> QED
      BY <3>1 DEF TriesRight
  <2>1. CASE q = p
    BY <2>1 DEF PageStep
  <2>2. CASE q # p
    <3>1. SentAddsOf(q)' \subseteq SentAddsOf(q)
      BY <1>3, <2>2 DEF SentAddsOf
    <3>2. /\ IsFiniteSet(SentAddsOf(q)) /\ Cardinality(SentAddsOf(q)) \in Nat
          /\ Cardinality(EntriesOf(q)) \in Nat
      BY <1>1, EntriesFinite
    <3>3. Cardinality(SentAddsOf(q)') <= Cardinality(SentAddsOf(q)) /\ Cardinality(SentAddsOf(q)') \in Nat
      BY <3>1, <3>2, CardSubset
    <3>4. rsvpPage'[q] = rsvpPage[q] /\ setbacks'[q] = setbacks[q]
      BY <1>4, <2>2
    <3>5. Cardinality(EntriesOf(q)) + Cardinality(SentAddsOf(q)) <= setbacks[q] + Tries(rsvpPage[q])
      BY <1>1 DEF TriesRight
    <3>6. setbacks[q] \in Nat /\ Tries(rsvpPage[q]) \in Nat
      BY <1>1 DEF Typed, Tries
    <3> QED
      BY <3>2, <3>3, <3>4, <3>5, <3>6
  <2> QED
    BY <2>1, <2>2
<1> QED
  BY <1>2, <1>6, <1>7, <1>8, <1>9, <1>10, <1>11 DEF RsvpInv

\* A step that sends nothing and leaves the clicks alone.
LEMMA QuietStep ==
    ASSUME RsvpInv, NEW p \in Parents, UNCHANGED <<invite, indexed, rosterPage, budget>>,
           calls' \subseteq calls, \A d \in calls : d.from # p => d \in calls',
           rsvpPage' \in [Parents -> PageType], setbacks' \in [Parents -> Nat],
           \A q \in Parents \ {p} : rsvpPage'[q] = rsvpPage[q] /\ setbacks'[q] = setbacks[q],
           PageRight(rsvpPage'[p]),
           \A no \in rsvpPage'[p].awaits : \E d \in calls' : d.from = p /\ d.no = no,
           \A d \in calls' : d.from = p /\ d.no \in rsvpPage'[p].awaits =>
               (d.op = "read" <=> rsvpPage'[p].loading),
           rsvpPage'[p].confirmed =>
               /\ rsvpPage'[p].selected \in DOMAIN invite.responses
               /\ AnsweredBy(rsvpPage'[p].doc, rsvpPage'[p].selected, p),
           setbacks[p] + Tries(rsvpPage[p]) <= setbacks'[p] + Tries(rsvpPage'[p])
    PROVE  RsvpInv'
<1>1. Typed /\ AddsPaid /\ TriesRight /\ p \in Clients
  BY DEF RsvpInv, Clients
<1>2. budget' \in [Clients -> Nat] /\ AddsPaid'
  BY <1>1, NothingPaid
<1>3. \E x \in CallType : /\ calls' \subseteq calls \cup {x}
                          /\ x \notin calls => x.from = p /\ x.stage = "sent"
  BY <1>1, ReadOrAddTyped DEF Typed
<1>4. Cardinality(EntriesOf(p)) + Cardinality(SentAddsOf(p)') <= setbacks'[p] + Tries(rsvpPage'[p])
  <2>1. SentAddsOf(p)' \subseteq SentAddsOf(p)
    BY DEF SentAddsOf
  <2>2. /\ IsFiniteSet(SentAddsOf(p)) /\ Cardinality(SentAddsOf(p)) \in Nat
        /\ Cardinality(EntriesOf(p)) \in Nat
    BY <1>1, EntriesFinite
  <2>3. Cardinality(SentAddsOf(p)') <= Cardinality(SentAddsOf(p)) /\ Cardinality(SentAddsOf(p)') \in Nat
    BY <2>1, <2>2, CardSubset
  <2>4. Cardinality(EntriesOf(p)) + Cardinality(SentAddsOf(p)) <= setbacks[p] + Tries(rsvpPage[p])
    BY <1>1 DEF TriesRight
  <2>5. /\ setbacks[p] \in Nat /\ setbacks'[p] \in Nat
        /\ Tries(rsvpPage[p]) \in Nat /\ Tries(rsvpPage'[p]) \in Nat
    BY <1>1 DEF Typed, Tries
  <2> QED
    BY <2>2, <2>3, <2>4, <2>5
<1>5. PageStep(p)
  BY <1>2, <1>3, <1>4 DEF PageStep
<1> QED
  BY <1>5, PageStepRight

LEMMA PageFacts ==
    ASSUME RsvpInv, NEW p \in Parents
    PROVE  /\ rsvpPage \in [Parents -> PageType] /\ setbacks \in [Parents -> Nat]
           /\ rsvpPage[p] \in PageType /\ PageRight(rsvpPage[p])
           /\ \A no \in rsvpPage[p].awaits : \E d \in calls : d.from = p /\ d.no = no
           /\ \A d \in calls : d.from = p /\ d.no \in rsvpPage[p].awaits =>
                  (d.op = "read" <=> rsvpPage[p].loading)
           /\ rsvpPage[p].confirmed =>
                  /\ rsvpPage[p].selected \in DOMAIN invite.responses
                  /\ AnsweredBy(rsvpPage[p].doc, rsvpPage[p].selected, p)
           /\ setbacks[p] \in Nat
BY DEF RsvpInv, Typed, PagesRight, AwaitsRight, Awaits, ConfirmedRight

\* What a parent picks on the form is no click yet.
LEMMA FormStep ==
    ASSUME RsvpInv, NEW p \in Parents, UNCHANGED <<invite, indexed, rosterPage, calls, budget, setbacks>>,
           ShowsForm(p), rsvpPage' \in [Parents -> PageType],
           \A q \in Parents \ {p} : rsvpPage'[q] = rsvpPage[q],
           /\ rsvpPage'[p].open = rsvpPage[p].open /\ rsvpPage'[p].loading = rsvpPage[p].loading
           /\ rsvpPage'[p].submitting = rsvpPage[p].submitting
           /\ rsvpPage'[p].awaits = rsvpPage[p].awaits
           /\ rsvpPage'[p].confirmed = rsvpPage[p].confirmed
    PROVE  RsvpInv'
<1>1. /\ PageRight(rsvpPage[p]) /\ setbacks \in [Parents -> Nat] /\ setbacks[p] \in Nat
      /\ \A no \in rsvpPage[p].awaits : \E d \in calls : d.from = p /\ d.no = no
      /\ \A d \in calls : d.from = p /\ d.no \in rsvpPage[p].awaits =>
             (d.op = "read" <=> rsvpPage[p].loading)
  BY PageFacts
<1>2. ~rsvpPage'[p].confirmed
  BY DEF ShowsForm
<1>3. PageRight(rsvpPage'[p])
  BY <1>1 DEF PageRight
<1>4. /\ \A no \in rsvpPage'[p].awaits : \E d \in calls' : d.from = p /\ d.no = no
      /\ \A d \in calls' : d.from = p /\ d.no \in rsvpPage'[p].awaits =>
             (d.op = "read" <=> rsvpPage'[p].loading)
  BY <1>1
<1>5. setbacks[p] + Tries(rsvpPage[p]) <= setbacks'[p] + Tries(rsvpPage'[p])
  BY <1>1 DEF Tries
<1> QED
  BY <1>1, <1>2, <1>3, <1>4, <1>5, QuietStep

LEMMA PickingRight ==
    ASSUME RsvpInv, NEW p \in Parents, UNCHANGED <<invite, indexed, rosterPage>>,
           \/ PickDifferentKid(p) \/ AddMyKid(p)
           \/ \E id \in Ids(invite.roster) : Select(p, id)
           \/ \E status \in Answers : ChooseStatus(p, status)
    PROVE  RsvpInv'
<1>1. rsvpPage \in [Parents -> PageType] /\ invite \in Record
  BY PageFacts DEF RsvpInv, Typed
<1>2. ShowsForm(p) /\ UNCHANGED <<calls, budget, setbacks>>
  BY DEF PickDifferentKid, AddMyKid, Select, ChooseStatus
<1> DEFINE Picked ==
             /\ rsvpPage' \in [Parents -> PageType]
             /\ \A q \in Parents \ {p} : rsvpPage'[q] = rsvpPage[q]
             /\ rsvpPage'[p].open = rsvpPage[p].open /\ rsvpPage'[p].loading = rsvpPage[p].loading
             /\ rsvpPage'[p].submitting = rsvpPage[p].submitting
             /\ rsvpPage'[p].awaits = rsvpPage[p].awaits
             /\ rsvpPage'[p].confirmed = rsvpPage[p].confirmed
<1>3. CASE PickDifferentKid(p)
  <2>1. rsvpPage' = [rsvpPage EXCEPT ![p].selected = NoPlayer] /\ NoPlayer \in PlayerIds
    BY <1>3 DEF PickDifferentKid, PlayerIds
  <2> QED
    BY <1>1, <1>2, <2>1, FormStep DEF PageType
<1>4. CASE AddMyKid(p)
  <2>1. rsvpPage' = [rsvpPage EXCEPT ![p].addingNew = TRUE]
    BY <1>4 DEF AddMyKid
  <2> QED
    BY <1>1, <1>2, <2>1, FormStep DEF PageType
<1>5. CASE \E id \in Ids(invite.roster) : Select(p, id)
  <2>1. PICK id \in Ids(invite.roster) :
          rsvpPage' = [rsvpPage EXCEPT ![p].selected = id, ![p].addingNew = FALSE]
    BY <1>5 DEF Select
  <2>2. id \in PlayerIds
    BY <1>1, RecordIds, RecordFacts DEF PlayerIds
  <2>3. Picked
    BY <1>1, <2>1, <2>2 DEF PageType
  <2> QED
    BY <1>2, <2>3, FormStep
<1>6. CASE \E status \in Answers : ChooseStatus(p, status)
  <2>1. PICK status \in RsvpStatuses : rsvpPage' = [rsvpPage EXCEPT ![p].status = status]
    BY <1>6, InviteAssumption DEF ChooseStatus
  <2> QED
    BY <1>1, <1>2, <2>1, FormStep DEF PageType
<1> QED
  BY <1>3, <1>4, <1>5, <1>6

\* A failed click is one setback more.
LEMMA SubmitFailsRight ==
    ASSUME RsvpInv, NEW p \in Parents, NEW c \in calls, SubmitFails(p, c),
           UNCHANGED <<invite, indexed, rosterPage>>
    PROVE  RsvpInv'
<1>1. /\ rsvpPage \in [Parents -> PageType] /\ setbacks \in [Parents -> Nat]
      /\ rsvpPage[p] \in PageType /\ PageRight(rsvpPage[p]) /\ setbacks[p] \in Nat
      /\ \A d \in calls : d.from = p /\ d.no \in rsvpPage[p].awaits =>
             (d.op = "read" <=> rsvpPage[p].loading)
  BY PageFacts
<1>2. /\ c.from = p /\ c.no \in rsvpPage[p].awaits /\ c.op # "read"
      /\ calls' = calls \ {c} /\ UNCHANGED budget
      /\ rsvpPage' = [rsvpPage EXCEPT ![p].submitting = FALSE, ![p].awaits = rsvpPage[p].awaits \ {c.no}]
      /\ setbacks' = [setbacks EXCEPT ![p] = setbacks[p] + 1]
  BY DEF SubmitFails, Awaits, SubmittingAfterFailure
<1>3. rsvpPage[p].submitting /\ ~rsvpPage[p].loading /\ ~rsvpPage[p].confirmed
  BY <1>1, <1>2 DEF PageRight
<1>4. /\ rsvpPage' \in [Parents -> PageType]
      /\ \A q \in Parents \ {p} : rsvpPage'[q] = rsvpPage[q]
      /\ rsvpPage'[p].awaits = {} /\ ~rsvpPage'[p].loading
      /\ ~rsvpPage'[p].submitting /\ ~rsvpPage'[p].confirmed
  <2>1. rsvpPage[p].awaits \ {c.no} = {}
    BY <1>1, <1>2 DEF PageRight
  <2> QED
    BY <1>1, <1>2, <1>3, <2>1 DEF PageType
<1>5. PageRight(rsvpPage'[p])
  BY <1>4 DEF PageRight
<1>6. /\ setbacks' \in [Parents -> Nat] /\ setbacks'[p] = setbacks[p] + 1
      /\ \A q \in Parents \ {p} : setbacks'[q] = setbacks[q]
  BY <1>1, <1>2
<1>7. setbacks[p] + Tries(rsvpPage[p]) <= setbacks'[p] + Tries(rsvpPage'[p])
  BY <1>1, <1>3, <1>4, <1>6 DEF Tries
<1>8. calls' \subseteq calls /\ \A d \in calls : d.from # p => d \in calls'
  BY <1>2
<1> QED
  BY <1>2, <1>4, <1>5, <1>6, <1>7, <1>8, QuietStep

LEMMA LoadedRight ==
    ASSUME RsvpInv, NEW p \in Parents, NEW c \in calls, Loaded(p, c),
           UNCHANGED <<invite, indexed, rosterPage>>
    PROVE  RsvpInv'
<1>1. /\ rsvpPage \in [Parents -> PageType] /\ setbacks \in [Parents -> Nat]
      /\ rsvpPage[p] \in PageType /\ PageRight(rsvpPage[p]) /\ setbacks[p] \in Nat
      /\ \A d \in calls : d.from = p /\ d.no \in rsvpPage[p].awaits =>
             (d.op = "read" <=> rsvpPage[p].loading)
  BY PageFacts
<1> DEFINE shown == IF c.stage = "answered" THEN Target[p] ELSE rsvpPage[p].selected
<1>2. /\ c.from = p /\ c.no \in rsvpPage[p].awaits /\ c.op = "read"
      /\ calls' = calls \ {c} /\ UNCHANGED <<budget, setbacks>>
      /\ rsvpPage' = [rsvpPage EXCEPT ![p].doc = c.doc, ![p].loading = FALSE,
                          ![p].awaits = rsvpPage[p].awaits \ {c.no}, ![p].selected = shown]
  BY DEF Loaded, Awaits
<1>3. rsvpPage[p].loading /\ ~rsvpPage[p].submitting /\ ~rsvpPage[p].confirmed
  BY <1>1, <1>2 DEF PageRight
<1>4. c.doc \in Record \cup {NoDoc} /\ shown \in PlayerIds
  BY <1>1 DEF RsvpInv, Typed, CallsTyped, CallType, PageType, PlayerIds
<1> HIDE DEF shown
<1>5. /\ rsvpPage' \in [Parents -> PageType]
      /\ \A q \in Parents \ {p} : rsvpPage'[q] = rsvpPage[q]
      /\ rsvpPage'[p].awaits = {} /\ ~rsvpPage'[p].loading
      /\ ~rsvpPage'[p].submitting /\ ~rsvpPage'[p].confirmed
  <2>1. rsvpPage[p].awaits \ {c.no} = {}
    BY <1>1, <1>2 DEF PageRight
  <2> QED
    BY <1>1, <1>2, <1>3, <1>4, <2>1 DEF PageType
<1>6. PageRight(rsvpPage'[p])
  BY <1>5 DEF PageRight
<1>7. setbacks[p] + Tries(rsvpPage[p]) <= setbacks'[p] + Tries(rsvpPage'[p])
  BY <1>1, <1>2, <1>3, <1>5 DEF Tries
<1>8. calls' \subseteq calls /\ \A d \in calls : d.from # p => d \in calls'
  BY <1>2
<1> QED
  BY <1>1, <1>2, <1>5, <1>6, <1>7, <1>8, QuietStep

\* What is confirmed was answered, and stays so.
LEMMA ConfirmRight ==
    ASSUME RsvpInv, NEW p \in Parents, NEW c \in calls, Confirm(p, c),
           UNCHANGED <<invite, indexed, rosterPage>>
    PROVE  RsvpInv'
<1>1. /\ rsvpPage \in [Parents -> PageType] /\ setbacks \in [Parents -> Nat]
      /\ rsvpPage[p] \in PageType /\ PageRight(rsvpPage[p]) /\ setbacks[p] \in Nat
      /\ \A d \in calls : d.from = p /\ d.no \in rsvpPage[p].awaits =>
             (d.op = "read" <=> rsvpPage[p].loading)
  BY PageFacts
<1>2. /\ c.from = p /\ c.no \in rsvpPage[p].awaits /\ c.op = "rsvp" /\ c.stage = "answered"
      /\ calls' = calls \ {c} /\ UNCHANGED <<budget, setbacks>>
      /\ rsvpPage' = [rsvpPage EXCEPT ![p].doc = c.doc, ![p].selected = c.id, ![p].confirmed = TRUE,
                          ![p].submitting = FALSE, ![p].awaits = rsvpPage[p].awaits \ {c.no}]
  BY DEF Confirm, ConfirmedFor, Awaits
<1>3. rsvpPage[p].submitting /\ ~rsvpPage[p].loading /\ rsvpPage[p].open
  BY <1>1, <1>2 DEF PageRight
<1>4. c.doc \in Record \cup {NoDoc} /\ c.id \in PlayerIds
  BY DEF RsvpInv, Typed, CallsTyped, CallType
<1>5. /\ rsvpPage' \in [Parents -> PageType]
      /\ \A q \in Parents \ {p} : rsvpPage'[q] = rsvpPage[q]
      /\ rsvpPage'[p].awaits = {} /\ ~rsvpPage'[p].loading /\ rsvpPage'[p].open
      /\ ~rsvpPage'[p].submitting /\ rsvpPage'[p].confirmed
      /\ rsvpPage'[p].doc = c.doc /\ rsvpPage'[p].selected = c.id
  <2>1. rsvpPage[p].awaits \ {c.no} = {}
    BY <1>1, <1>2 DEF PageRight
  <2> QED
    BY <1>1, <1>2, <1>3, <1>4, <2>1 DEF PageType
<1>6. PageRight(rsvpPage'[p])
  BY <1>5 DEF PageRight
<1>7. setbacks[p] + Tries(rsvpPage[p]) <= setbacks'[p] + Tries(rsvpPage'[p])
  BY <1>1, <1>2, <1>3, <1>5 DEF Tries
<1>8. calls' \subseteq calls /\ \A d \in calls : d.from # p => d \in calls'
  BY <1>2
<1>9. AnsweredBy(c.doc, c.id, p) /\ c.id \in DOMAIN invite.responses
  BY <1>2 DEF RsvpInv, AnswersRight, AnswerRight
<1>10. /\ rsvpPage'[p].selected \in DOMAIN invite.responses
       /\ AnsweredBy(rsvpPage'[p].doc, rsvpPage'[p].selected, p)
  BY <1>5, <1>9
<1> QED
  BY <1>1, <1>2, <1>5, <1>6, <1>7, <1>8, <1>10, QuietStep

\* A step that sends a call: the page waits for its answer, and for no other's.
LEMMA SendingStep ==
    ASSUME RsvpInv, NumbersRight, NEW p \in Parents, UNCHANGED <<invite, indexed, rosterPage>>,
           NEW x \in CallType, x.from = p, x.no = budget[p], x.stage = "sent",
           calls' \subseteq calls \cup {x}, x \in calls', \A d \in calls : d.from # p => d \in calls',
           budget' \in [Clients -> Nat], AddsPaid',
           rsvpPage' \in [Parents -> PageType], setbacks' \in [Parents -> Nat],
           \A q \in Parents \ {p} : rsvpPage'[q] = rsvpPage[q] /\ setbacks'[q] = setbacks[q],
           PageRight(rsvpPage'[p]), rsvpPage'[p].awaits = {budget[p]}, ~rsvpPage'[p].confirmed,
           x.op = "read" <=> rsvpPage'[p].loading,
           Cardinality(EntriesOf(p)) + Cardinality(SentAddsOf(p)') <= setbacks'[p] + Tries(rsvpPage'[p])
    PROVE  RsvpInv'
<1>1. \E y \in CallType : /\ calls' \subseteq calls \cup {y}
                          /\ y \notin calls => y.from = p /\ y.stage = "sent"
  OBVIOUS
<1>2. \A no \in rsvpPage'[p].awaits : \E d \in calls' : d.from = p /\ d.no = no
  OBVIOUS
<1>3. ASSUME NEW d \in calls', d.from = p, d.no \in rsvpPage'[p].awaits
      PROVE  d.op = "read" <=> rsvpPage'[p].loading
  <2>1. budget[p] \in Nat /\ d.no = budget[p]
    BY <1>3 DEF RsvpInv, Typed, Clients
  <2>2. d \notin calls
    BY <1>3, <2>1 DEF NumbersRight
  <2> QED
    BY <1>3, <2>2
<1>4. PageStep(p)
  BY <1>1, <1>2, <1>3 DEF PageStep
<1> QED
  BY <1>4, PageStepRight

\* The adds that are on their way, when none is sent.
LEMMA NoAddSent ==
    ASSUME RsvpInv, NEW p \in Parents, NEW x, x.op # "add", calls' \subseteq calls \cup {x},
           NEW n \in Nat, setbacks[p] + Tries(rsvpPage[p]) <= n
    PROVE  Cardinality(EntriesOf(p)) + Cardinality(SentAddsOf(p)') <= n
<1>1. SentAddsOf(p)' \subseteq SentAddsOf(p)
  BY DEF SentAddsOf
<1>2. /\ IsFiniteSet(SentAddsOf(p)) /\ Cardinality(SentAddsOf(p)) \in Nat
      /\ Cardinality(EntriesOf(p)) \in Nat
  BY EntriesFinite DEF RsvpInv
<1>3. Cardinality(SentAddsOf(p)') <= Cardinality(SentAddsOf(p)) /\ Cardinality(SentAddsOf(p)') \in Nat
  BY <1>1, <1>2, CardSubset
<1>4. Cardinality(EntriesOf(p)) + Cardinality(SentAddsOf(p)) <= setbacks[p] + Tries(rsvpPage[p])
  BY DEF RsvpInv, TriesRight
<1>5. setbacks[p] \in Nat /\ Tries(rsvpPage[p]) \in Nat
  BY DEF RsvpInv, Typed, Tries
<1> QED
  BY <1>2, <1>3, <1>4, <1>5

LEMMA OpenRight ==
    ASSUME RsvpInv, NumbersRight, NEW p \in Parents, Open(p),
           UNCHANGED <<invite, indexed, rosterPage>>
    PROVE  RsvpInv'
<1>1. /\ rsvpPage \in [Parents -> PageType] /\ setbacks \in [Parents -> Nat]
      /\ rsvpPage[p] \in PageType /\ PageRight(rsvpPage[p]) /\ setbacks[p] \in Nat
  BY PageFacts
<1>2. p \in Clients /\ budget \in [Clients -> Nat] /\ budget[p] \in Nat /\ Typed /\ AddsPaid
  BY DEF RsvpInv, Typed, Clients
<1>3. /\ ReadOf(p) \in CallType /\ ReadOf(p).from = p /\ ReadOf(p).no = budget[p]
      /\ ReadOf(p).op = "read" /\ ReadOf(p).stage = "sent"
  BY <1>2, ReadOrAddTyped
<1> DEFINE page == [ClosedPage EXCEPT !.open = TRUE, !.loading = TRUE, !.awaits = {budget[p]}]
<1>4. /\ page \in PageType /\ page.open /\ page.loading /\ page.awaits = {budget[p]}
      /\ ~page.submitting /\ ~page.confirmed
  <2>1. page = [open |-> TRUE, loading |-> TRUE, doc |-> NoDoc, selected |-> NoPlayer,
                addingNew |-> FALSE, status |-> "going", submitting |-> FALSE,
                awaits |-> {budget[p]}, confirmed |-> FALSE]
    <3>1. PICK closed : closed = ClosedPage
      OBVIOUS
    <3>2. closed = [open |-> FALSE, loading |-> FALSE, doc |-> NoDoc, selected |-> NoPlayer,
                    addingNew |-> FALSE, status |-> "going", submitting |-> FALSE,
                    awaits |-> {}, confirmed |-> FALSE]
      BY <3>1 DEF ClosedPage
    <3>3. PICK opened : opened = [closed EXCEPT !.open = TRUE]
      OBVIOUS
    <3>4. PICK spinning : spinning = [opened EXCEPT !.loading = TRUE]
      OBVIOUS
    <3>5. page = [spinning EXCEPT !.awaits = {budget[p]}]
      BY Zenon, <3>1, <3>3, <3>4
    <3>6. opened = [open |-> TRUE, loading |-> FALSE, doc |-> NoDoc, selected |-> NoPlayer,
                    addingNew |-> FALSE, status |-> "going", submitting |-> FALSE,
                    awaits |-> {}, confirmed |-> FALSE]
      BY <3>2, <3>3
    <3>7. spinning = [open |-> TRUE, loading |-> TRUE, doc |-> NoDoc, selected |-> NoPlayer,
                      addingNew |-> FALSE, status |-> "going", submitting |-> FALSE,
                      awaits |-> {}, confirmed |-> FALSE]
      BY <3>4, <3>6
    <3> HIDE DEF page
    <3> QED
      BY <3>5, <3>7
  <2> HIDE DEF page
  <2>2. {budget[p]} \in SUBSET Int /\ NoPlayer \in PlayerIds /\ "going" \in RsvpStatuses
    BY <1>2 DEF PlayerIds, RsvpStatuses
  <2> QED
    BY <2>1, <2>2 DEF PageType
<1>5. /\ calls' = {c \in calls : c.from # p \/ c.stage \notin {"answered", "failed"}} \cup {ReadOf(p)}
      /\ rsvpPage' = [rsvpPage EXCEPT ![p] = page]
      /\ setbacks' = IF rsvpPage[p].open THEN [setbacks EXCEPT ![p] = setbacks[p] + 1] ELSE setbacks
      /\ MayCall(p, 1) /\ Pays(p)
  BY DEF Open
<1> HIDE DEF page
<1>6. /\ rsvpPage' \in [Parents -> PageType] /\ rsvpPage'[p] = page
      /\ \A q \in Parents \ {p} : rsvpPage'[q] = rsvpPage[q]
  BY <1>1, <1>4, <1>5
<1>7. /\ setbacks' \in [Parents -> Nat]
      /\ \A q \in Parents \ {p} : setbacks'[q] = setbacks[q]
      /\ setbacks'[p] = IF rsvpPage[p].open THEN setbacks[p] + 1 ELSE setbacks[p]
  BY <1>1, <1>5
<1>8. AddsPaid' /\ budget' \in [Clients -> Nat]
  <2>1. calls' \subseteq calls \cup {ReadOf(p)} /\ ReadOf(p).op # "add"
    BY <1>3, <1>5
  <2> QED
    BY <1>2, <1>3, <1>5, <2>1, OnePaid
<1>9. Tries(page) = 0 /\ setbacks[p] + Tries(rsvpPage[p]) <= setbacks'[p]
  BY <1>1, <1>4, <1>7 DEF Tries, PageRight
<1>10. Cardinality(EntriesOf(p)) + Cardinality(SentAddsOf(p)') <= setbacks'[p]
  <2>1. calls' \subseteq calls \cup {ReadOf(p)} /\ ReadOf(p).op # "add" /\ setbacks'[p] \in Nat
    BY <1>3, <1>5, <1>7
  <2> QED
    BY <1>9, <2>1, NoAddSent
<1>11. Cardinality(EntriesOf(p)) + Cardinality(SentAddsOf(p)') <= setbacks'[p] + Tries(rsvpPage'[p])
  BY <1>6, <1>7, <1>9, <1>10
<1>12. PageRight(rsvpPage'[p]) /\ rsvpPage'[p].awaits = {budget[p]} /\ ~rsvpPage'[p].confirmed /\ rsvpPage'[p].loading
  BY <1>4, <1>6 DEF PageRight
<1>13. /\ calls' \subseteq calls \cup {ReadOf(p)} /\ ReadOf(p) \in calls'
       /\ \A d \in calls : d.from # p => d \in calls'
  BY <1>5
<1> QED
  BY <1>3, <1>6, <1>7, <1>8, <1>11, <1>12, <1>13, SendingStep

\* A page that waits for nothing, and then for one call of a click.
LEMMA Clicked ==
    ASSUME RsvpInv, NEW p \in Parents, MaySubmit(p),
           rsvpPage' = [rsvpPage EXCEPT ![p].submitting = TRUE,
                                        ![p].awaits = rsvpPage[p].awaits \cup {budget[p]}]
    PROVE  /\ rsvpPage' \in [Parents -> PageType]
           /\ \A q \in Parents \ {p} : rsvpPage'[q] = rsvpPage[q]
           /\ PageRight(rsvpPage'[p]) /\ rsvpPage'[p].awaits = {budget[p]}
           /\ ~rsvpPage'[p].confirmed /\ ~rsvpPage'[p].loading
           /\ Tries(rsvpPage[p]) = 0 /\ Tries(rsvpPage'[p]) = 1
<1>1. rsvpPage \in [Parents -> PageType] /\ rsvpPage[p] \in PageType /\ PageRight(rsvpPage[p])
  BY PageFacts
<1>2. rsvpPage[p].open /\ ~rsvpPage[p].loading /\ ~rsvpPage[p].confirmed /\ ~rsvpPage[p].submitting
  BY DEF MaySubmit, ShowsForm, Shows
<1>3. rsvpPage[p].awaits \cup {budget[p]} = {budget[p]} /\ budget[p] \in Int
  BY <1>1, <1>2 DEF PageRight, RsvpInv, Typed, Clients
<1>4. /\ rsvpPage' \in [Parents -> PageType]
      /\ \A q \in Parents \ {p} : rsvpPage'[q] = rsvpPage[q]
      /\ rsvpPage'[p].awaits = {budget[p]} /\ rsvpPage'[p].open
      /\ ~rsvpPage'[p].confirmed /\ ~rsvpPage'[p].loading /\ rsvpPage'[p].submitting
  BY <1>1, <1>2, <1>3 DEF PageType
<1> QED
  BY <1>2, <1>4 DEF PageRight, Tries

LEMMA SubmitForListedRight ==
    ASSUME RsvpInv, NumbersRight, NEW p \in Parents, SubmitForListed(p),
           UNCHANGED <<invite, indexed, rosterPage>>
    PROVE  RsvpInv'
<1>1. PICK uid \in Sessions(p) :
        /\ MaySubmit(p) /\ MayCall(p, 1)
        /\ Sends(p, Call(p, "rsvp", rsvpPage[p].selected, rsvpPage[p].status, FALSE, uid))
        /\ rsvpPage' = [rsvpPage EXCEPT ![p].submitting = TRUE,
                                        ![p].awaits = rsvpPage[p].awaits \cup {budget[p]}]
        /\ UNCHANGED setbacks
  BY DEF SubmitForListed
<1>2. /\ rsvpPage[p] \in PageType /\ setbacks \in [Parents -> Nat] /\ setbacks[p] \in Nat
      /\ p \in Clients /\ budget \in [Clients -> Nat] /\ Typed /\ AddsPaid
  BY PageFacts DEF RsvpInv, Typed, Clients
<1> DEFINE x == Call(p, "rsvp", rsvpPage[p].selected, rsvpPage[p].status, FALSE, uid)
<1>3. /\ x \in CallType /\ x.from = p /\ x.no = budget[p] /\ x.op = "rsvp" /\ x.stage = "sent"
  <2>1. rsvpPage[p].selected \in PlayerIds /\ rsvpPage[p].status \in RsvpStatuses
    BY <1>2 DEF PageType
  <2>2. uid \in Parents \cup {Anonymous}
    BY DEF Sessions
  <2> QED
    BY <1>2, <2>1, <2>2 DEF Call, CallType
<1>4. calls' = calls \cup {x} /\ Pays(p)
  BY <1>1 DEF Sends
<1> HIDE DEF x
<1>5. /\ rsvpPage' \in [Parents -> PageType]
      /\ \A q \in Parents \ {p} : rsvpPage'[q] = rsvpPage[q]
      /\ PageRight(rsvpPage'[p]) /\ rsvpPage'[p].awaits = {budget[p]}
      /\ ~rsvpPage'[p].confirmed /\ ~rsvpPage'[p].loading
      /\ Tries(rsvpPage[p]) = 0 /\ Tries(rsvpPage'[p]) = 1
  BY <1>1, Clicked
<1>6. calls' \subseteq calls \cup {x} /\ x \in calls' /\ \A d \in calls : d.from # p => d \in calls'
  BY <1>4
<1>7. x.op # "add" /\ x.op # "read"
  BY <1>3
<1>8. AddsPaid' /\ budget' \in [Clients -> Nat]
  BY <1>1, <1>2, <1>3, <1>4, <1>6, <1>7, OnePaid
<1>9. setbacks[p] + 1 \in Nat /\ setbacks[p] + Tries(rsvpPage[p]) <= setbacks[p] + 1
  BY <1>2, <1>5
<1>10. Cardinality(EntriesOf(p)) + Cardinality(SentAddsOf(p)') <= setbacks[p] + 1
  BY <1>6, <1>7, <1>9, NoAddSent
<1>11. Cardinality(EntriesOf(p)) + Cardinality(SentAddsOf(p)') <= setbacks'[p] + Tries(rsvpPage'[p])
  BY <1>1, <1>5, <1>10
<1> QED
  BY <1>1, <1>2, <1>3, <1>5, <1>6, <1>7, <1>8, <1>11, SendingStep

\* A click that adds a kid is one try more.
LEMMA SubmitForNewRight ==
    ASSUME RsvpInv, NumbersRight, NEW p \in Parents, SubmitForNew(p),
           UNCHANGED <<invite, indexed, rosterPage>>
    PROVE  RsvpInv'
<1>1. /\ MaySubmit(p) /\ MayCall(p, 2)
      /\ calls' = calls \cup {AddOf(p)} /\ Pays(p)
      /\ rsvpPage' = [rsvpPage EXCEPT ![p].submitting = TRUE,
                                      ![p].awaits = rsvpPage[p].awaits \cup {budget[p]}]
      /\ UNCHANGED setbacks
  BY DEF SubmitForNew, Sends
<1>2. /\ setbacks \in [Parents -> Nat] /\ setbacks[p] \in Nat
      /\ p \in Clients /\ budget \in [Clients -> Nat] /\ Typed /\ AddsPaid /\ TriesRight
  BY PageFacts DEF RsvpInv, Typed, Clients
<1>3. /\ AddOf(p) \in CallType /\ AddOf(p).from = p /\ AddOf(p).no = budget[p]
      /\ AddOf(p).op = "add" /\ AddOf(p).stage = "sent"
  BY <1>2, ReadOrAddTyped
<1>4. /\ rsvpPage' \in [Parents -> PageType]
      /\ \A q \in Parents \ {p} : rsvpPage'[q] = rsvpPage[q]
      /\ PageRight(rsvpPage'[p]) /\ rsvpPage'[p].awaits = {budget[p]}
      /\ ~rsvpPage'[p].confirmed /\ ~rsvpPage'[p].loading
      /\ Tries(rsvpPage[p]) = 0 /\ Tries(rsvpPage'[p]) = 1
  BY <1>1, Clicked
<1>5. /\ calls' \subseteq calls \cup {AddOf(p)} /\ AddOf(p) \in calls'
      /\ \A d \in calls : d.from # p => d \in calls'
  BY <1>1
<1>6. AddsPaid' /\ budget' \in [Clients -> Nat]
  BY <1>1, <1>2, <1>3, <1>5, TwoPaid
<1>7. Cardinality(EntriesOf(p)) + Cardinality(SentAddsOf(p)') <= setbacks'[p] + Tries(rsvpPage'[p])
  <2>1. SentAddsOf(p)' \subseteq SentAddsOf(p) \cup {AddOf(p)}
    BY <1>5 DEF SentAddsOf
  <2>2. /\ IsFiniteSet(SentAddsOf(p)) /\ Cardinality(SentAddsOf(p)) \in Nat
        /\ Cardinality(EntriesOf(p)) \in Nat
    BY <1>2, EntriesFinite
  <2>3. /\ Cardinality(SentAddsOf(p)') <= Cardinality(SentAddsOf(p)) + 1
        /\ Cardinality(SentAddsOf(p)') \in Nat
    BY <2>1, <2>2, CardPlus
  <2>4. Cardinality(EntriesOf(p)) + Cardinality(SentAddsOf(p)) <= setbacks[p] + Tries(rsvpPage[p])
    BY <1>2 DEF TriesRight
  <2> QED
    BY <1>1, <1>2, <1>4, <2>2, <2>3, <2>4
<1>8. AddOf(p).op # "read"
  BY <1>3
<1> QED
  BY <1>1, <1>2, <1>3, <1>4, <1>5, <1>6, <1>7, <1>8, SendingStep

\* The kid was added: the call that answers for it takes the place of the one that
\* added it.
LEMMA AddedRsvp ==
    ASSUME InvitesInv, RsvpInv, NumbersRight, NEW p \in Parents, NEW c \in calls, Added(p, c),
           UNCHANGED <<invite, indexed, rosterPage>>
    PROVE  RsvpInv'
<1>1. PICK uid \in Sessions(p) :
        /\ c.from = p /\ c.no \in rsvpPage[p].awaits /\ c.op = "add" /\ c.stage = "answered"
        /\ calls' = (calls \ {c}) \cup
              {Call(p, "rsvp", AddedPlayer(c.doc), rsvpPage[p].status, TRUE, uid)}
        /\ Pays(p)
        /\ rsvpPage' = [rsvpPage EXCEPT ![p].doc = c.doc,
                            ![p].awaits = (rsvpPage[p].awaits \ {c.no}) \cup {budget[p]}]
        /\ UNCHANGED setbacks
  BY DEF Added, Awaits
<1>2. /\ rsvpPage \in [Parents -> PageType] /\ setbacks \in [Parents -> Nat]
      /\ rsvpPage[p] \in PageType /\ PageRight(rsvpPage[p]) /\ setbacks[p] \in Nat
      /\ \A d \in calls : d.from = p /\ d.no \in rsvpPage[p].awaits =>
             (d.op = "read" <=> rsvpPage[p].loading)
      /\ p \in Clients /\ budget \in [Clients -> Nat] /\ budget[p] \in Nat /\ Typed /\ AddsPaid
  BY PageFacts DEF RsvpInv, Typed, Clients
<1>3. rsvpPage[p].submitting /\ ~rsvpPage[p].loading /\ ~rsvpPage[p].confirmed /\ rsvpPage[p].open
  BY <1>1, <1>2 DEF PageRight
<1>4. AddedPlayer(c.doc) \in PlayerIds
  <2>1. Last(c.doc.roster) \in Range(invite.roster)
    BY <1>1 DEF InvitesInv, CallsRight, Right, AddRight, Listed
  <2>2. invite.roster \in Seq(Player)
    BY <1>2, RecordFacts DEF Typed
  <2>3. Last(c.doc.roster) \in Player
    BY <2>1, <2>2, ElementsOfSeq
  <2> QED
    BY <2>3 DEF AddedPlayer, Player, PlayerIds
<1> DEFINE x == Call(p, "rsvp", AddedPlayer(c.doc), rsvpPage[p].status, TRUE, uid)
<1>5. /\ x \in CallType /\ x.from = p /\ x.no = budget[p] /\ x.op = "rsvp" /\ x.stage = "sent"
  <2>1. rsvpPage[p].status \in RsvpStatuses
    BY <1>2 DEF PageType
  <2>2. uid \in Parents \cup {Anonymous}
    BY DEF Sessions
  <2> QED
    BY <1>2, <1>4, <2>1, <2>2 DEF Call, CallType
<1>6. calls' = (calls \ {c}) \cup {x}
  BY <1>1
<1> HIDE DEF x
<1>7. /\ rsvpPage' \in [Parents -> PageType]
      /\ \A q \in Parents \ {p} : rsvpPage'[q] = rsvpPage[q]
      /\ rsvpPage'[p].awaits = {budget[p]} /\ rsvpPage'[p].open /\ ~rsvpPage'[p].loading
      /\ ~rsvpPage'[p].confirmed /\ rsvpPage'[p].submitting
  <2>1. (rsvpPage[p].awaits \ {c.no}) \cup {budget[p]} = {budget[p]}
    BY <1>1, <1>2 DEF PageRight
  <2>2. c.doc \in Record \cup {NoDoc} /\ {budget[p]} \in SUBSET Int
    BY <1>2 DEF Typed, CallsTyped, CallType
  <2> QED
    BY <1>1, <1>2, <1>3, <2>1, <2>2 DEF PageType
<1>8. PageRight(rsvpPage'[p])
  BY <1>7 DEF PageRight
<1>9. /\ calls' \subseteq calls \cup {x} /\ x \in calls' /\ \A d \in calls : d.from # p => d \in calls'
      /\ x.op # "add" /\ x.op # "read"
  BY <1>1, <1>5, <1>6
<1>10. AddsPaid' /\ budget' \in [Clients -> Nat]
  BY <1>1, <1>2, <1>5, <1>6, <1>9, FollowingPaid
<1>11. Tries(rsvpPage[p]) = 1 /\ Tries(rsvpPage'[p]) = 1
  BY <1>3, <1>7 DEF Tries
<1>12. Cardinality(EntriesOf(p)) + Cardinality(SentAddsOf(p)') <= setbacks[p] + 1
  <2>1. setbacks[p] + 1 \in Nat /\ setbacks[p] + Tries(rsvpPage[p]) <= setbacks[p] + 1
    BY <1>2, <1>11
  <2> QED
    BY <1>9, <2>1, NoAddSent
<1>13. Cardinality(EntriesOf(p)) + Cardinality(SentAddsOf(p)') <= setbacks'[p] + Tries(rsvpPage'[p])
  BY <1>1, <1>11, <1>12
<1> QED
  BY <1>1, <1>2, <1>5, <1>7, <1>8, <1>9, <1>10, <1>13, SendingStep

LEMMA NumbersOfCalls ==
    ASSUME InvitesInv
    PROVE  NumbersRight
BY DEF InvitesInv, CallsRight, Right, NumbersRight

LEMMA RsvpPageKeepsRsvp ==
    ASSUME InvitesInv, RsvpInv, RsvpPage
    PROVE  RsvpInv'
<1>1. PICK p \in Parents :
        \/ Open(p) \/ PickDifferentKid(p) \/ AddMyKid(p)
        \/ SubmitForListed(p) \/ SubmitForNew(p)
        \/ \E id \in Ids(invite.roster) : Select(p, id)
        \/ \E status \in Answers : ChooseStatus(p, status)
        \/ \E c \in calls : Arrives(p, c)
  BY DEF RsvpPage
<1>2. UNCHANGED <<invite, indexed, rosterPage>> /\ NumbersRight
  BY NumbersOfCalls DEF RsvpPage
<1>3. CASE \E c \in calls : Arrives(p, c)
  BY <1>2, <1>3, LoadedRight, AddedRsvp, ConfirmRight, SubmitFailsRight DEF Arrives
<1> QED
  BY <1>1, <1>2, <1>3, OpenRight, PickingRight, SubmitForListedRight, SubmitForNewRight

-----------------------------------------------------------------------------
(***************************************************************************)
(* The organizer's page.                                                   *)
(***************************************************************************)

\* The organizer's steps leave the parents' calls alone.
LEMMA OrganizerStep ==
    ASSUME RsvpInv, UNCHANGED <<invite, indexed, rsvpPage, setbacks>>,
           budget' \in [Clients -> Nat], AddsPaid', rosterPage'.doc \in Record \cup {NoDoc},
           \A d \in calls : d.from # Coach => d \in calls',
           NEW x \in CallType, x.from = Coach, x.op # "rsvp", x.stage = "sent", calls' \subseteq calls \cup {x}
    PROVE  RsvpInv'
<1>1. Typed /\ PagesRight /\ AwaitsRight /\ AnswersRight /\ ConfirmedRight /\ TriesRight
  BY DEF RsvpInv
<1>2. CallsTyped'
  <2>1. IsFiniteSet(calls) /\ calls \subseteq CallType
    BY <1>1 DEF Typed, CallsTyped
  <2>2. IsFiniteSet(calls')
    BY <2>1, CardPlus
  <2> QED
    BY <2>1, <2>2 DEF CallsTyped
<1>3. Typed' /\ PagesRight' /\ ConfirmedRight'
  BY <1>1, <1>2 DEF Typed, PagesRight, ConfirmedRight
<1>4. \A d : d.from \in Parents => (d \in calls' <=> d \in calls)
  BY InviteAssumption
<1>5. AwaitsRight'
  <2> SUFFICES ASSUME NEW p \in Parents
               PROVE  /\ \A no \in rsvpPage[p].awaits : \E d \in calls' : d.from = p /\ d.no = no
                      /\ \A d \in calls' : d.from = p /\ d.no \in rsvpPage[p].awaits =>
                             (d.op = "read" <=> rsvpPage[p].loading)
    BY DEF AwaitsRight, Awaits
  <2>1. /\ \A no \in rsvpPage[p].awaits : \E d \in calls : d.from = p /\ d.no = no
        /\ \A d \in calls : d.from = p /\ d.no \in rsvpPage[p].awaits =>
               (d.op = "read" <=> rsvpPage[p].loading)
    BY PageFacts
  <2> QED
    BY <1>4, <2>1
<1>6. AnswersRight'
  <2> SUFFICES ASSUME NEW d \in calls' PROVE AnswerRight(d)'
    BY DEF AnswersRight
  <2>1. CASE d \in calls
    BY <1>1, <2>1 DEF AnswersRight, AnswerRight
  <2>2. CASE d = x
    BY <2>2 DEF AnswerRight
  <2> QED
    BY <2>1, <2>2
<1>7. TriesRight'
  <2>1. ASSUME NEW p \in Parents PROVE EntriesOf(p)' = EntriesOf(p) /\ SentAddsOf(p)' = SentAddsOf(p)
    BY <1>4, <2>1 DEF EntriesOf, SentAddsOf
  <2> QED
    BY <1>1, <2>1 DEF TriesRight
<1> QED
  BY <1>3, <1>5, <1>6, <1>7 DEF RsvpInv

LEMMA RosterPageKeepsRsvp ==
    ASSUME InvitesInv, RsvpInv, RosterPage
    PROVE  RsvpInv'
<1>1. /\ UNCHANGED <<invite, indexed, rsvpPage, setbacks>> /\ Coach \in Clients
      /\ Typed /\ AddsPaid /\ budget \in [Clients -> Nat]
      /\ rosterPage.doc \in Record \cup {NoDoc}
  BY DEF RosterPage, RsvpInv, Typed, Clients
<1>2. rosterPage = [loading |-> rosterPage.loading, doc |-> rosterPage.doc,
                    draft |-> rosterPage.draft, added |-> rosterPage.added]
  BY DEF InvitesInv, AddedRight
<1>3. /\ ReadOf(Coach) \in CallType /\ ReadOf(Coach).from = Coach
      /\ ReadOf(Coach).op = "read" /\ ReadOf(Coach).stage = "sent"
      /\ AddOf(Coach) \in CallType /\ AddOf(Coach).from = Coach
      /\ AddOf(Coach).op = "add" /\ AddOf(Coach).stage = "sent"
  BY <1>1, ReadOrAddTyped
<1>4. PICK read \in CallType : read = ReadOf(Coach) /\ read.from = Coach /\ read.op = "read" /\ read.stage = "sent"
  BY <1>3
<1>5. PICK add \in CallType : add = AddOf(Coach) /\ add.from = Coach /\ add.op = "add" /\ add.stage = "sent"
  BY <1>3
<1>6. ASSUME OpenRoster \/ Refresh PROVE RsvpInv'
  <2>1. MayCall(Coach, 1) /\ calls' = calls \cup {read} /\ Pays(Coach)
    BY <1>4, <1>6 DEF OpenRoster, Refresh, Sends
  <2>2. rosterPage'.doc \in Record \cup {NoDoc}
    <3>1. CASE OpenRoster
      BY <3>1 DEF OpenRoster
    <3>2. CASE Refresh
      <4>1. rosterPage' = [rosterPage EXCEPT !.loading = TRUE]
        BY <3>2 DEF Refresh
      <4> QED
        BY <1>1, <1>2, <4>1
    <3> QED
      BY <1>6, <3>1, <3>2
  <2>3. calls' \subseteq calls \cup {read} /\ \A d \in calls : d.from # Coach => d \in calls'
    BY <2>1
  <2>4. AddsPaid' /\ budget' \in [Clients -> Nat]
    BY <1>1, <1>4, <2>1, <2>3, OnePaid
  <2>5. read.op # "rsvp"
    BY <1>4
  <2> QED
    BY <1>1, <1>4, <2>2, <2>3, <2>4, <2>5, OrganizerStep
<1>7. ASSUME TypePlayer PROVE RsvpInv'
  <2>1. rosterPage' = [rosterPage EXCEPT !.draft = TRUE] /\ UNCHANGED <<calls, budget>>
    BY <1>7 DEF TypePlayer
  <2>2. rosterPage'.doc \in Record \cup {NoDoc}
    BY <1>1, <1>2, <2>1
  <2>3. AddsPaid' /\ budget' \in [Clients -> Nat]
    BY <1>1, <2>1, NothingPaid
  <2>4. /\ calls' \subseteq calls \cup {read} /\ (\A d \in calls : d.from # Coach => d \in calls')
        /\ read.op # "rsvp"
    BY <1>4, <2>1
  <2> QED
    BY <1>1, <1>4, <2>2, <2>3, <2>4, OrganizerStep
<1>8. ASSUME AddPlayer PROVE RsvpInv'
  <2>1. MayCall(Coach, 2) /\ calls' = calls \cup {add} /\ Pays(Coach) /\ UNCHANGED rosterPage
    BY <1>5, <1>8 DEF AddPlayer, Sends
  <2>2. /\ calls' \subseteq calls \cup {add} /\ (\A d \in calls : d.from # Coach => d \in calls')
        /\ add.op # "rsvp"
    BY <1>5, <2>1
  <2>3. AddsPaid' /\ budget' \in [Clients -> Nat]
    BY <1>1, <1>5, <2>1, <2>2, TwoPaid
  <2> QED
    BY <1>1, <1>5, <2>1, <2>2, <2>3, OrganizerStep
<1>9. ASSUME NEW c \in calls, c.from = Coach, PlayerAdded(c) PROVE RsvpInv'
  <2>1. PICK told : rosterPage' = [rosterPage EXCEPT !.draft = FALSE, !.loading = TRUE, !.added = told]
    BY <1>9 DEF PlayerAdded
  <2>2. rosterPage'.doc = rosterPage.doc
    BY <1>2, <2>1
  <2>3. calls' = (calls \ {c}) \cup {read} /\ Pays(Coach) /\ c.op = "add"
    BY <1>4, <1>9 DEF PlayerAdded
  <2>4. /\ calls' \subseteq calls \cup {read} /\ (\A d \in calls : d.from # Coach => d \in calls')
        /\ read.op # "rsvp" /\ read.op # "add"
    BY <1>4, <1>9, <2>3
  <2>5. AddsPaid' /\ budget' \in [Clients -> Nat]
    BY <1>1, <1>4, <1>9, <2>3, <2>4, FollowingPaid
  <2> QED
    BY <1>1, <1>4, <2>2, <2>4, <2>5, OrganizerStep
<1>10. ASSUME NEW c \in calls, c.from = Coach, AddPlayerFails(c) \/ RosterRead(c) PROVE RsvpInv'
  <2>1. calls' = calls \ {c} /\ UNCHANGED budget
    BY <1>10 DEF AddPlayerFails, RosterRead
  <2>2. rosterPage'.doc \in Record \cup {NoDoc}
    <3>1. CASE AddPlayerFails(c)
      BY <1>1, <3>1 DEF AddPlayerFails
    <3>2. CASE RosterRead(c)
      <4>1. rosterPage' = [rosterPage EXCEPT !.doc = c.doc, !.loading = FALSE]
        BY <3>2 DEF RosterRead
      <4>2. c.doc \in Record \cup {NoDoc}
        BY <1>1 DEF Typed, CallsTyped, CallType
      <4> QED
        BY <1>2, <4>1, <4>2
    <3> QED
      BY <1>10, <3>1, <3>2
  <2>3. calls' \subseteq calls
    BY <2>1
  <2>4. AddsPaid' /\ budget' \in [Clients -> Nat]
    BY <1>1, <2>1, <2>3, NothingPaid
  <2>5. /\ calls' \subseteq calls \cup {read} /\ (\A d \in calls : d.from # Coach => d \in calls')
        /\ read.op # "rsvp"
    BY <1>4, <1>10, <2>1
  <2> QED
    BY <1>1, <1>4, <2>2, <2>4, <2>5, OrganizerStep
<1> QED
  BY <1>6, <1>7, <1>8, <1>9, <1>10 DEF RosterPage, RosterArrives

-----------------------------------------------------------------------------
LEMMA RsvpUnchanged ==
    ASSUME RsvpInv, UNCHANGED vars
    PROVE  RsvpInv'
<1> USE DEF vars
<1>1. Typed' /\ PagesRight' /\ AwaitsRight' /\ AnswersRight'
  BY DEF RsvpInv, Typed, CallsTyped, PagesRight, AwaitsRight, Awaits, AnswersRight, AnswerRight
<1>2. ConfirmedRight' /\ AddsPaid' /\ TriesRight'
  BY DEF RsvpInv, ConfirmedRight, AddsPaid, AddsOf, TriesRight, EntriesOf, SentAddsOf
<1> QED
  BY <1>1, <1>2 DEF RsvpInv

LEMMA RsvpInit ==
    ASSUME Init
    PROVE  RsvpInv
<1>1. /\ invite = NewInvite /\ indexed = {} /\ calls = {}
      /\ rsvpPage = [p \in Parents |-> ClosedPage]
      /\ rosterPage = [loading |-> FALSE, doc |-> NoDoc, draft |-> FALSE, added |-> {}]
      /\ setbacks = [p \in Parents |-> 0]
      /\ budget \in [Clients -> Nat]
  BY InviteAssumption DEF Init
<1>2. /\ invite.roster = [i \in 1 .. InitialRoster |-> [playerId |-> i, addedBy |-> Coach]]
      /\ invite.responses = << >>
      /\ invite = [roster |-> invite.roster, responses |-> invite.responses]
  BY <1>1 DEF NewInvite
<1>3. invite \in Record
  <2>1. invite.roster \in Seq(Player)
    <3>1. invite.roster \in [1 .. InitialRoster -> Player]
      BY <1>2, InviteAssumption DEF Player, Clients
    <3> QED
      BY <3>1, InviteAssumption
  <2>2. invite.responses \in [{} -> Rsvp]
    BY <1>2
  <2>3. invite.responses \in Responses
    BY <2>2 DEF Responses
  <2>4. invite \in [roster : Seq(Player), responses : Responses]
    BY <1>2, <2>1, <2>3
  <2>5. \A i \in DOMAIN invite.roster : invite.roster[i].playerId = i
    BY <1>2, InviteAssumption
  <2>6. DOMAIN invite.responses \subseteq DOMAIN invite.roster
    BY <1>2
  <2> QED
    BY <2>4, <2>5, <2>6 DEF Record
<1>4. IsFiniteSet({}) /\ Cardinality({}) = 0
  BY FS_EmptySet
<1>5. ClosedPage \in PageType
  BY DEF ClosedPage, PageType, PlayerIds, RsvpStatuses
<1>6. /\ ClosedPage.awaits = {} /\ ~ClosedPage.loading /\ ~ClosedPage.submitting /\ ~ClosedPage.confirmed
  BY DEF ClosedPage
<1>7. Typed
  BY <1>1, <1>3, <1>4, <1>5 DEF Typed, CallsTyped
<1>8. PagesRight /\ AwaitsRight /\ AnswersRight /\ ConfirmedRight
  BY <1>1, <1>6 DEF PagesRight, PageRight, AwaitsRight, AnswersRight, ConfirmedRight
<1>9. AddsPaid
  <2>1. \A q \in Clients : AddsOf(q) = {}
    BY <1>1 DEF AddsOf
  <2> QED
    BY <1>1, <1>4, <2>1 DEF AddsPaid
<1>10. TriesRight
  <2>1. ASSUME NEW p \in Parents PROVE EntriesOf(p) = {} /\ SentAddsOf(p) = {}
    BY <1>1, <1>2, <2>1, InviteAssumption DEF EntriesOf, SentAddsOf
  <2>2. \A p \in Parents : setbacks[p] = 0 /\ Tries(rsvpPage[p]) = 0
    BY <1>1, <1>6 DEF Tries
  <2> QED
    BY <1>4, <2>1, <2>2 DEF TriesRight
<1> QED
  BY <1>7, <1>8, <1>9, <1>10 DEF RsvpInv

\* What RsvpInv says of the record, of the calls under way and of the parents' pages holds
\* in every state, whichever calls are lost and whoever clicks how often.
THEOREM RsvpInvariant == Spec => []RsvpInv
<1>1. Init => RsvpInv
  BY RsvpInit
<1>2. InvitesInv /\ RsvpInv /\ [Next]_vars => RsvpInv'
  <2> SUFFICES ASSUME InvitesInv, RsvpInv, [Next]_vars PROVE RsvpInv'
    OBVIOUS
  <2> QED
    BY BackendKeepsRsvp, RsvpPageKeepsRsvp, RosterPageKeepsRsvp, RsvpUnchanged DEF Next
<1> QED
  BY <1>1, <1>2, InvitesInvariant, PTL DEF Spec

\* The record and its copies are well formed, and no page waits for a call that is not
\* under way.
THEOREM TypeCorrect == Spec => []TypeOK
<1>1. RsvpInv => TypeOK
  <2> SUFFICES ASSUME RsvpInv PROVE TypeOK
    OBVIOUS
  <2>1. Typed
    BY DEF RsvpInv
  <2>2. \A c \in calls : c.doc = NoDoc \/ IsInvite(c.doc)
    BY <2>1, RecordIsInvite DEF Typed, CallsTyped, CallType
  <2>3. ASSUME NEW p \in Parents
        PROVE  /\ rsvpPage[p].doc = NoDoc \/ IsInvite(rsvpPage[p].doc)
               /\ \A no \in rsvpPage[p].awaits : \E c \in calls : c.from = p /\ c.no = no
    <3>1. /\ rsvpPage[p] \in PageType
          /\ \A no \in rsvpPage[p].awaits : \E c \in calls : c.from = p /\ c.no = no
      BY <2>3, PageFacts
    <3>2. rsvpPage[p].doc \in Record \cup {NoDoc}
      BY <3>1 DEF PageType
    <3> QED
      BY <3>1, <3>2, RecordIsInvite
  <2>4. IsInvite(invite) /\ (rosterPage.doc = NoDoc \/ IsInvite(rosterPage.doc))
    BY <2>1, RecordIsInvite DEF Typed
  <2> QED
    BY <2>1, <2>2, <2>3, <2>4 DEF TypeOK, Typed
<1> QED
  BY <1>1, RsvpInvariant, PTL

\* A parent's kid is on the roster once, but for the clicks that failed or were given up.
THEOREM OneEntryPerTryHolds == Spec => []OneEntryPerTry
<1>1. RsvpInv => OneEntryPerTry
  <2> SUFFICES ASSUME RsvpInv, NEW p \in Parents
               PROVE  Cardinality(EntriesOf(p)) <= 1 + setbacks[p]
    BY DEF OneEntryPerTry, EntriesOf
  <2>1. Cardinality(EntriesOf(p)) \in Nat /\ Cardinality(SentAddsOf(p)) \in Nat
    BY EntriesFinite DEF RsvpInv
  <2>2. Cardinality(EntriesOf(p)) + Cardinality(SentAddsOf(p)) <= setbacks[p] + Tries(rsvpPage[p])
    BY DEF RsvpInv, TriesRight
  <2>3. setbacks[p] \in Nat /\ Tries(rsvpPage[p]) \in {0, 1}
    BY DEF RsvpInv, Typed, Tries
  <2> QED
    BY <2>1, <2>2, <2>3
<1> QED
  BY <1>1, RsvpInvariant, PTL

\* The row of a player is shown once, in the group of the answer that is stored for it.
LEMMA RowInGroup ==
    ASSUME NEW g \in Record, NEW id \in DOMAIN g.responses,
           NEW status \in RsvpStatuses \cup {"no-reply"}
    PROVE  Cardinality({i \in Groups(g)[status] : g.roster[i].playerId = id})
               = IF status = g.responses[id].status THEN 1 ELSE 0
<1>1. /\ id \in DOMAIN g.roster /\ \A i \in DOMAIN g.roster : g.roster[i].playerId = i
  BY RecordFacts
<1> DEFINE Rows == {i \in Groups(g)[status] : g.roster[i].playerId = id}
<1>2. Groups(g)[status] = {i \in DOMAIN g.roster : DisplayStatus(g, g.roster[i].playerId) = status}
  BY DEF Groups, Group
<1>3. DisplayStatus(g, id) = g.responses[id].status
  BY DEF DisplayStatus
<1>4. Rows = {i \in {id} : g.responses[id].status = status}
  BY <1>1, <1>2, <1>3
<1>5. CASE status = g.responses[id].status
  <2>1. Rows = {id}
    BY <1>4, <1>5
  <2> QED
    BY <1>5, <2>1, FS_Singleton
<1>6. CASE status # g.responses[id].status
  <2>1. Rows = {}
    BY <1>4, <1>6
  <2> QED
    BY <1>6, <2>1, FS_EmptySet
<1> QED
  BY <1>5, <1>6

\* Players whose stored answer is "going" are counted.
LEMMA GoingCounted ==
    ASSUME NEW g \in Record, NEW going,
           \A id \in going : id \in DOMAIN g.responses /\ g.responses[id].status = "going"
    PROVE  GoingCount(g) >= Cardinality(going)
<1>1. /\ IsFiniteSet(DOMAIN g.roster) /\ DOMAIN g.responses \subseteq DOMAIN g.roster
      /\ \A i \in DOMAIN g.roster : g.roster[i].playerId = i
  BY RecordFacts
<1>2. Group(g, "going") \subseteq DOMAIN g.roster
  BY DEF Group
<1>3. IsFiniteSet(Group(g, "going"))
  BY <1>1, <1>2, CardSubset
<1>4. going \subseteq Group(g, "going")
  BY <1>1 DEF Group, DisplayStatus
<1>5. Cardinality(going) <= Cardinality(Group(g, "going"))
      /\ Cardinality(going) \in Nat /\ Cardinality(Group(g, "going")) \in Nat
  BY <1>3, <1>4, CardSubset
<1> QED
  BY <1>5 DEF GoingCount

\* A parent who reads the confirmation has answered for the kid it names: the page's copy
\* has this parent's answer, the roster page shows the kid once, under what is stored for
\* it, and all those who are told so and are going are counted.
THEOREM ConfirmedIsStoredHolds == Spec => []ConfirmedIsStored
<1>1. RsvpInv => ConfirmedIsStored
  <2> SUFFICES ASSUME RsvpInv, NEW p \in Parents, rsvpPage[p].confirmed
               PROVE  LET id == rsvpPage[p].selected
                          GoingPages == {q \in Parents :
                                            /\ rsvpPage[q].confirmed
                                            /\ rsvpPage[q].selected \in DOMAIN invite.responses
                                            /\ invite.responses[rsvpPage[q].selected].status = "going"}
                      IN  /\ id \in DOMAIN invite.responses
                          /\ id \in DOMAIN rsvpPage[p].doc.responses
                          /\ rsvpPage[p].doc.responses[id].by = p
                          /\ \A status \in DOMAIN Groups(invite) :
                                Cardinality({i \in Groups(invite)[status] :
                                                 invite.roster[i].playerId = id})
                                    = IF status = invite.responses[id].status THEN 1 ELSE 0
                          /\ GoingCount(invite) >= Cardinality({rsvpPage[q].selected : q \in GoingPages})
    BY DEF ConfirmedIsStored
  <2> DEFINE id == rsvpPage[p].selected
             GoingPages == {q \in Parents :
                               /\ rsvpPage[q].confirmed
                               /\ rsvpPage[q].selected \in DOMAIN invite.responses
                               /\ invite.responses[rsvpPage[q].selected].status = "going"}
             going == {rsvpPage[q].selected : q \in GoingPages}
  <2>1. /\ id \in DOMAIN invite.responses
        /\ id \in DOMAIN rsvpPage[p].doc.responses
        /\ rsvpPage[p].doc.responses[id].by = p
    BY DEF RsvpInv, ConfirmedRight, AnsweredBy
  <2>2. invite \in Record
    BY DEF RsvpInv, Typed
  <2>3. DOMAIN Groups(invite) = RsvpStatuses \cup {"no-reply"}
    BY DEF Groups
  <2>4. \A status \in DOMAIN Groups(invite) :
           Cardinality({i \in Groups(invite)[status] : invite.roster[i].playerId = id})
               = IF status = invite.responses[id].status THEN 1 ELSE 0
    BY <2>1, <2>2, <2>3, RowInGroup
  <2>5. \A k \in going : k \in DOMAIN invite.responses /\ invite.responses[k].status = "going"
    OBVIOUS
  <2> HIDE DEF going
  <2>6. GoingCount(invite) >= Cardinality(going)
    BY <2>2, <2>5, GoingCounted
  <2> QED
    BY <2>1, <2>4, <2>6 DEF going
<1> QED
  BY <1>1, RsvpInvariant, PTL
=============================================================================
