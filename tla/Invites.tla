------------------------------ MODULE Invites ------------------------------
(***************************************************************************)
(* An organized game, whose organizer watches the roster fill on one page  *)
(* (game-invites/roster-page.component.ts) while parents answer through    *)
(* their invite links on others (rsvp-page.component.ts), over a network   *)
(* that loses requests and answers.  The backend (game_invite_service.go,  *)
(* game_invite.go) stores the record and, in a transaction of its own, an  *)
(* index of the accounts that answered.                                    *)
(*                                                                         *)
(* A parent whose kid is not listed adds it and answers in one click, but  *)
(* in two calls.  The name typed is left out: a click with a blank name,   *)
(* or with no kid picked, changes nothing but the message shown.           *)
(***************************************************************************)
EXTENDS InviteRecord, SequencesExt

CONSTANTS
    Parents,
    Coach,
    SignedIn,       \* the parents with an account's session
    Anonymous,      \* no account
    NoDoc,
    NoPlayer,
    InitialRoster,  \* how many players the organizer listed on creating the game
    Target,         \* the player whom each parent's link names, or NoPlayer
    Answers,        \* the statuses that the parents choose from
    Budgets         \* how many calls each page may make: one of these is chosen

VARIABLES
    invite,     \* the stored record
    indexed,    \* accounts in the participant index
    calls,      \* calls under way
    budget,     \* how many calls each page may still make
    rsvpPage,   \* the parents' pages
    rosterPage, \* the organizer's page
    answered,   \* history: the accounts whose answers were stored
    setbacks    \* history: how often a parent's click was given up or failed

vars == <<invite, indexed, calls, budget, rsvpPage, rosterPage, answered, setbacks>>

Clients == Parents \cup {Coach}

ASSUME InviteAssumption ==
    /\ Coach \notin Parents
    /\ SignedIn \subseteq Parents /\ Anonymous \notin Parents
    /\ InitialRoster \in Nat
    /\ Answers \subseteq RsvpStatuses
    /\ Budgets \subseteq [Clients -> Nat]

NewInvite == [roster |-> [i \in 1 .. InitialRoster |-> [playerId |-> i, addedBy |-> Coach]],
              responses |-> << >>]

ClosedPage == [open |-> FALSE, loading |-> FALSE, doc |-> NoDoc, selected |-> NoPlayer,
               addingNew |-> FALSE, status |-> "going", submitting |-> FALSE,
               awaits |-> {}, confirmed |-> FALSE]

\* A call is numbered by the budget that it is paid from.
Call(q, op, id, status, walkIn, uid) ==
    [from |-> q, no |-> budget[q], op |-> op, id |-> id, status |-> status,
     walkIn |-> walkIn, uid |-> uid, stage |-> "sent", doc |-> NoDoc]

ReadOf(q) == Call(q, "read", NoPlayer, "going", FALSE, Anonymous)
AddOf(q) == Call(q, "add", NoPlayer, "going", FALSE, Anonymous)

\* A signed-in parent's answer carries the account, unless the session is gone
\* (submitRsvpByToken posts anonymously then).
Sessions(p) == {Anonymous} \cup ({p} \cap SignedIn)

Init ==
    /\ invite = NewInvite
    /\ indexed = {}
    /\ calls = {}
    /\ budget \in Budgets
    /\ rsvpPage = [p \in Parents |-> ClosedPage]
    /\ rosterPage = [loading |-> FALSE, doc |-> NoDoc, draft |-> FALSE, added |-> {}]
    /\ answered = {}
    /\ setbacks = [p \in Parents |-> 0]

\* A page may make n calls more, besides the one that follows each add under way.
MayCall(q, n) ==
    n + Cardinality({c \in calls : c.from = q /\ c.op = "add"}) <= budget[q]

Pays(q) == budget' = [budget EXCEPT ![q] = @ - 1]

Sends(q, call) ==
    /\ calls' = calls \cup {call}
    /\ Pays(q)

(***************************************************************************)
(* The backend.                                                            *)
(***************************************************************************)

Awaits(p, c) == c.from = p /\ c.no \in rsvpPage[p].awaits

\* A call whose answer nobody waits for any more is gone when it is answered.
Becomes(c, stage, doc) ==
    calls' = (calls \ {c}) \cup
             (IF stage = "stored" \/ c.from = Coach \/ Awaits(c.from, c)
              THEN {[c EXCEPT !.stage = stage, !.doc = doc]} ELSE {})

\* A faulty GetGameInvite: what was read last is served again.
CachedFor(c) == IF rosterPage.doc # NoDoc THEN rosterPage.doc ELSE invite

\* GetGameInvite, by the game's id or by a link's token.
StoredFor(c) == invite

ServeRead(c) ==
    /\ c.stage = "sent" /\ c.op = "read"
    /\ Becomes(c, "answered", StoredFor(c))
    /\ UNCHANGED <<invite, indexed, answered>>

\* The answer is the record as this transaction left it.
ServeAdd(c) ==
    /\ c.stage = "sent" /\ c.op = "add"
    /\ invite' = WithPlayer(invite, [playerId |-> NewPlayerId(invite), addedBy |-> c.from])
    /\ Becomes(c, "answered", invite')
    /\ UNCHANGED <<indexed, answered>>

\* ErrInvalidGameInvite and ErrPlayerNotFound.
Acceptable(c) == c.status \in RsvpStatuses /\ OnRoster(invite, c.id)

\* A faulty order: the index is written first, and the record after it.
IndexedFirst(c) == indexed \cup ({c.uid} \ {Anonymous})

\* The record's transaction leaves the index alone.
IndexedWithRecord(c) == indexed

\* The answer is the parent's who gave it, not the player's whom it is for.
RsvpOf(c) == [status |-> c.status, by |-> c.from, walkIn |-> c.walkIn]

\* The answer is stored; the index of a signed-in parent's games is next.
ServeRsvp(c) ==
    /\ c.stage = "sent" /\ c.op = "rsvp"
    /\ indexed' = IndexedWithRecord(c)
    /\ IF Acceptable(c)
       THEN /\ invite' = WithRsvp(invite, c.id, RsvpOf(c))
            /\ answered' = answered \cup {c.uid}
            /\ Becomes(c, IF c.uid = Anonymous THEN "answered" ELSE "stored", invite')
       ELSE /\ Becomes(c, "failed", NoDoc)
            /\ UNCHANGED <<invite, answered>>

\* PutGameInviteParticipant is best effort: its error is dropped.
ServeIndex(c) ==
    /\ c.stage = "stored"
    /\ indexed' \in {indexed, indexed \cup {c.uid}}
    /\ Becomes(c, "answered", c.doc)
    /\ UNCHANGED <<invite, answered>>

\* A request or an answer is lost, or the server stops at any point in between.
Lose(c) ==
    /\ c.stage # "failed"
    /\ Becomes(c, "failed", NoDoc)
    /\ UNCHANGED <<invite, indexed, answered>>

Backend ==
    /\ \E c \in calls : ServeRead(c) \/ ServeAdd(c) \/ ServeRsvp(c) \/ ServeIndex(c) \/ Lose(c)
    /\ UNCHANGED <<budget, rsvpPage, rosterPage, setbacks>>

(***************************************************************************)
(* A parent's page.                                                        *)
(***************************************************************************)

Shows(p) == rsvpPage[p].open /\ ~rsvpPage[p].loading /\ rsvpPage[p].doc # NoDoc

\* The form, until the confirmation replaces it.  Only the button that sends it
\* is disabled while it is being sent.
ShowsForm(p) == Shows(p) /\ ~rsvpPage[p].confirmed

\* The link is opened, for the first time or again: then nobody waits any more for
\* the answers to the calls of the page as it was.
Open(p) ==
    /\ MayCall(p, 1)
    /\ calls' = {c \in calls : c.from # p \/ c.stage \notin {"answered", "failed"}} \cup {ReadOf(p)}
    /\ Pays(p)
    /\ rsvpPage' = [rsvpPage EXCEPT ![p] = [ClosedPage EXCEPT !.open = TRUE, !.loading = TRUE,
                                                              !.awaits = {budget[p]}]]
    /\ setbacks' = IF rsvpPage[p].open THEN [setbacks EXCEPT ![p] = @ + 1] ELSE setbacks

Select(p, id) ==
    /\ ShowsForm(p)
    /\ rsvpPage[p].selected = NoPlayer \/ rsvpPage[p].addingNew
    /\ id \in Ids(rsvpPage[p].doc.roster)
    /\ rsvpPage' = [rsvpPage EXCEPT ![p].selected = id, ![p].addingNew = FALSE]
    /\ UNCHANGED <<calls, budget, setbacks>>

PickDifferentKid(p) ==
    /\ ShowsForm(p)
    /\ rsvpPage[p].selected # NoPlayer /\ ~rsvpPage[p].addingNew
    /\ rsvpPage' = [rsvpPage EXCEPT ![p].selected = NoPlayer]
    /\ UNCHANGED <<calls, budget, setbacks>>

AddMyKid(p) ==
    /\ ShowsForm(p)
    /\ rsvpPage[p].selected = NoPlayer
    /\ rsvpPage' = [rsvpPage EXCEPT ![p].addingNew = TRUE]
    /\ UNCHANGED <<calls, budget, setbacks>>

ChooseStatus(p, status) ==
    /\ ShowsForm(p)
    /\ rsvpPage' = [rsvpPage EXCEPT ![p].status = status]
    /\ UNCHANGED <<calls, budget, setbacks>>

\* A faulty submit: no early return while a click is being sent.
MaySubmitAgain(p) == ShowsForm(p)

MaySubmit(p) == ShowsForm(p) /\ ~rsvpPage[p].submitting

\* A click on a kid of the roster, or on the targeted one.
SubmitForListed(p) ==
    \E uid \in Sessions(p) :
        /\ MaySubmit(p) /\ MayCall(p, 1)
        /\ ~rsvpPage[p].addingNew /\ rsvpPage[p].selected # NoPlayer
        /\ Sends(p, Call(p, "rsvp", rsvpPage[p].selected, rsvpPage[p].status, FALSE, uid))
        /\ rsvpPage' = [rsvpPage EXCEPT ![p].submitting = TRUE, ![p].awaits = @ \cup {budget[p]}]
        /\ UNCHANGED setbacks

\* A click for a kid not listed: the kid is added first.
SubmitForNew(p) ==
    /\ MaySubmit(p) /\ MayCall(p, 2)
    /\ rsvpPage[p].addingNew
    /\ Sends(p, AddOf(p))
    /\ rsvpPage' = [rsvpPage EXCEPT ![p].submitting = TRUE, ![p].awaits = @ \cup {budget[p]}]
    /\ UNCHANGED setbacks

Loaded(p, c) ==
    /\ Awaits(p, c) /\ c.op = "read" /\ c.stage \in {"answered", "failed"}
    /\ calls' = calls \ {c}
    /\ rsvpPage' = [rsvpPage EXCEPT ![p].doc = c.doc, ![p].loading = FALSE,
                        ![p].awaits = @ \ {c.no},
                        ![p].selected = IF c.stage = "answered" THEN Target[p] ELSE @]
    /\ UNCHANGED <<budget, setbacks>>

\* A faulty submit: the first player of the roster is taken for the new one.
FirstOfRoster(doc) == doc.roster[1].playerId

\* The new player is the last of the roster in the answer.
AddedPlayer(doc) == Last(doc.roster).playerId

\* The kid is on the roster: the answer is sent for it, with the status chosen by now.
Added(p, c) ==
    \E uid \in Sessions(p) :
        /\ Awaits(p, c) /\ c.op = "add" /\ c.stage = "answered"
        /\ calls' = (calls \ {c}) \cup {Call(p, "rsvp", AddedPlayer(c.doc), rsvpPage[p].status, TRUE, uid)}
        /\ Pays(p)
        /\ rsvpPage' = [rsvpPage EXCEPT ![p].doc = c.doc,
                            ![p].awaits = (@ \ {c.no}) \cup {budget[p]}]
        /\ UNCHANGED setbacks

\* A faulty confirmation: what was selected is left as it is.
ConfirmedForSelected(p, c) == rsvpPage[p].selected

ConfirmedFor(p, c) == c.id

Confirm(p, c) ==
    /\ Awaits(p, c) /\ c.op = "rsvp" /\ c.stage = "answered"
    /\ calls' = calls \ {c}
    /\ rsvpPage' = [rsvpPage EXCEPT ![p].doc = c.doc, ![p].selected = ConfirmedFor(p, c),
                        ![p].confirmed = TRUE, ![p].submitting = FALSE, ![p].awaits = @ \ {c.no}]
    /\ UNCHANGED <<budget, setbacks>>

\* A faulty submit: without the finally, an error leaves the button disabled.
SubmittingAfterError(p) == rsvpPage[p].submitting

SubmittingAfterFailure(p) == FALSE

\* Either call failed.  What was picked stays, and so does the kid that was added.
SubmitFails(p, c) ==
    /\ Awaits(p, c) /\ c.op # "read" /\ c.stage = "failed"
    /\ calls' = calls \ {c}
    /\ rsvpPage' = [rsvpPage EXCEPT ![p].submitting = SubmittingAfterFailure(p), ![p].awaits = @ \ {c.no}]
    /\ setbacks' = [setbacks EXCEPT ![p] = @ + 1]
    /\ UNCHANGED budget

Arrives(p, c) == Loaded(p, c) \/ Added(p, c) \/ Confirm(p, c) \/ SubmitFails(p, c)

RsvpPage ==
    /\ \E p \in Parents :
          \/ Open(p) \/ PickDifferentKid(p) \/ AddMyKid(p)
          \/ SubmitForListed(p) \/ SubmitForNew(p)
          \/ \E id \in Ids(invite.roster) : Select(p, id)
          \/ \E status \in Answers : ChooseStatus(p, status)
          \/ \E c \in calls : Arrives(p, c)
    /\ UNCHANGED <<invite, indexed, rosterPage, answered>>

(***************************************************************************)
(* The organizer's page.                                                   *)
(***************************************************************************)

ShowsRoster == ~rosterPage.loading /\ rosterPage.doc # NoDoc

OpenRoster ==
    /\ ~rosterPage.loading /\ MayCall(Coach, 1)
    /\ rosterPage.doc = NoDoc /\ ~\E c \in calls : c.from = Coach
    /\ Sends(Coach, ReadOf(Coach))
    /\ rosterPage' = [loading |-> TRUE, doc |-> NoDoc, draft |-> FALSE, added |-> {}]

\* The refresh button.  The page shows nothing but a spinner until the answer.
Refresh ==
    /\ ShowsRoster /\ MayCall(Coach, 1)
    /\ Sends(Coach, ReadOf(Coach))
    /\ rosterPage' = [rosterPage EXCEPT !.loading = TRUE]

\* The name of a player is typed.
TypePlayer ==
    /\ ShowsRoster
    /\ rosterPage' = [rosterPage EXCEPT !.draft = TRUE]
    /\ UNCHANGED <<calls, budget>>

\* The form stays as it is until the answer, and so does the button: a second tap
\* adds the same name again.
AddPlayer ==
    /\ ShowsRoster /\ rosterPage.draft /\ MayCall(Coach, 2)
    /\ Sends(Coach, AddOf(Coach))
    /\ UNCHANGED rosterPage

\* The form is cleared, whatever was typed since, and the roster read again.
PlayerAdded(c) ==
    /\ c.op = "add" /\ c.stage = "answered"
    /\ calls' = (calls \ {c}) \cup {ReadOf(Coach)}
    /\ Pays(Coach)
    /\ rosterPage' = [rosterPage EXCEPT !.draft = FALSE, !.loading = TRUE,
                          !.added = @ \cup {[id |-> Last(c.doc.roster).playerId, no |-> budget[Coach]]}]

AddPlayerFails(c) ==
    /\ c.op = "add" /\ c.stage = "failed"
    /\ calls' = calls \ {c}
    /\ UNCHANGED <<budget, rosterPage>>

\* The answers to overlapping reads are shown in the order they arrive in; a
\* failed read shows the game as not found.
RosterRead(c) ==
    /\ c.op = "read" /\ c.stage \in {"answered", "failed"}
    /\ calls' = calls \ {c}
    /\ rosterPage' = [rosterPage EXCEPT !.doc = c.doc, !.loading = FALSE]
    /\ UNCHANGED budget

RosterArrives(c) == c.from = Coach /\ (PlayerAdded(c) \/ AddPlayerFails(c) \/ RosterRead(c))

RosterPage ==
    /\ OpenRoster \/ Refresh \/ TypePlayer \/ AddPlayer \/ \E c \in calls : RosterArrives(c)
    /\ UNCHANGED <<invite, indexed, rsvpPage, answered, setbacks>>

Next == Backend \/ RsvpPage \/ RosterPage

Spec == Init /\ [][Next]_vars

(***************************************************************************)
(* Every call is served or fails, and the pages take the answers.  Nobody  *)
(* is assumed to click.                                                    *)
(***************************************************************************)
Served ==
    /\ \E c \in calls : ServeRead(c) \/ ServeAdd(c) \/ ServeRsvp(c) \/ ServeIndex(c)
    /\ UNCHANGED <<budget, rsvpPage, rosterPage, setbacks>>

Received ==
    \/ /\ \E c \in calls : RosterArrives(c)
       /\ UNCHANGED <<invite, indexed, rsvpPage, answered, setbacks>>
    \/ /\ \E c \in calls, p \in Parents : Arrives(p, c)
       /\ UNCHANGED <<invite, indexed, rosterPage, answered>>

FairSpec == Spec /\ WF_vars(Served) /\ WF_vars(Received)

(***************************************************************************)
(* Properties.                                                             *)
(***************************************************************************)

Rsvp == [status : RsvpStatuses, by : Parents, walkIn : BOOLEAN]

IsInvite(g) ==
    /\ Ids(g.roster) = 1 .. Len(g.roster)
    /\ \A i \in DOMAIN g.roster : g.roster[i].addedBy \in Clients
    /\ \A id \in DOMAIN g.responses : g.responses[id] \in Rsvp

\* The record and its copies are well formed, with no player's id used twice, and
\* no page waits for a call that is not under way.
TypeOK ==
    /\ IsInvite(invite)
    /\ indexed \subseteq Parents
    /\ \A c \in calls : c.doc = NoDoc \/ IsInvite(c.doc)
    /\ budget \in [Clients -> Nat]
    /\ setbacks \in [Parents -> Nat]
    /\ \A p \in Parents :
          /\ rsvpPage[p].doc = NoDoc \/ IsInvite(rsvpPage[p].doc)
          /\ \A no \in rsvpPage[p].awaits : \E c \in calls : c.from = p /\ c.no = no
    /\ rosterPage.doc = NoDoc \/ IsInvite(rosterPage.doc)

\* The answer of a parent who added a kid is about that kid, whoever else adds
\* kids at the same time: submit takes the last player of the answer for its own
\* (rsvp-page.component.ts:398).
AnswerGoesToOwnKid ==
    \A id \in DOMAIN invite.responses :
        invite.responses[id].walkIn =>
            \E i \in DOMAIN invite.roster :
                invite.roster[i] = [playerId |-> id, addedBy |-> invite.responses[id].by]

\* A parent who reads the confirmation has answered for the kid it names: the page's
\* copy has this parent's answer, the roster page shows the kid once in the group of
\* the answer that is stored for it now, and all those who are told so and are going
\* are counted.
ConfirmedIsStored ==
    \A p \in Parents : rsvpPage[p].confirmed =>
        LET id == rsvpPage[p].selected
            GoingPages == {q \in Parents : /\ rsvpPage[q].confirmed
                                           /\ rsvpPage[q].selected \in DOMAIN invite.responses
                                           /\ invite.responses[rsvpPage[q].selected].status = "going"}
        IN
        /\ id \in DOMAIN invite.responses
        /\ id \in DOMAIN rsvpPage[p].doc.responses
        /\ rsvpPage[p].doc.responses[id].by = p
        /\ \A status \in DOMAIN Groups(invite) :
              Cardinality({i \in Groups(invite)[status] : invite.roster[i].playerId = id})
                  = IF status = invite.responses[id].status THEN 1 ELSE 0
        /\ GoingCount(invite) >= Cardinality({rsvpPage[q].selected : q \in GoingPages})

\* A parent's kid is on the roster once, but for clicks that failed or were given
\* up: those, and nothing else, can leave an entry behind that a retry repeats.
OneEntryPerTry ==
    \A p \in Parents :
        Cardinality({i \in DOMAIN invite.roster : invite.roster[i].addedBy = p}) <= 1 + setbacks[p]

\* A game is listed among those an account is invited to only if the account's
\* answer was stored, although the index is written apart from the record.
IndexedHaveAnswered == indexed \subseteq answered

\* The answer to a refresh has every player that the organizer had been told was
\* added when the refresh was sent.
RefreshHasWhatWasAdded ==
    \A c \in calls : c.from = Coach /\ c.op = "read" /\ c.stage = "answered" =>
        \A a \in rosterPage.added : c.no <= a.no => a.id \in Ids(c.doc.roster)

\* The button that was clicked is enabled again or gone, and the roster's spinner
\* goes away.
EveryPageSettles ==
    /\ \A p \in Parents : rsvpPage[p].submitting ~> ~rsvpPage[p].submitting
    /\ rosterPage.loading ~> ~rosterPage.loading

\* The confirmation says "You're in for" the kid with the status that was sent
\* (rsvp-page.component.ts:229).
ConfirmedAsSent ==
    \A p \in Parents : rsvpPage[p].confirmed =>
        rsvpPage[p].doc.responses[rsvpPage[p].selected].status = rsvpPage[p].status
=============================================================================
