---------------------------- MODULE GameRecords ----------------------------
(***************************************************************************)
(* The backend's records besides the event log: games (game.go), organized *)
(* games and who takes part in them (game_invite.go), and who follows what *)
(* (follow.go), with the endpoints that the app's pages call (handlers.go, *)
(* service.go, game_invite_service.go).                                    *)
(*                                                                         *)
(* A call is served one transaction at a time.  Its caller may get no      *)
(* answer although it was served, or give up while it is being served.     *)
(* Names, colours, teams and whatever else is set once are one value       *)
(* ("about"); a blank one stands for a required name left blank.           *)
(***************************************************************************)
EXTENDS Integers, Sequences, FiniteSets

CONSTANTS
    Users,      \* accounts
    Nobody,     \* no account
    Tabs,       \* browser tabs, the callers
    Inputs      \* what can be typed or picked in a field

VARIABLES
    games,          \* /ext/gameboard/games, by id
    rosters,        \* /ext/gameboard/gameInvites, by id
    participants,   \* /ext/gameboard/gameInviteParticipants: account and organized game
    follows,        \* /ext/gameboard/follows: account and target
    calls           \* calls under way

backend == <<games, rosters, participants, follows, calls>>

Blank == ""
Texts == Inputs \cup {Blank}

\* A schedule is a date with a time; zero milliseconds stand for none.
Unset == <<Blank, Blank>>
Schedules == {Unset} \cup (Inputs \X Inputs)

\* "tap" is a history field: the tab's call that asked for the record.
Games == [createdBy : Users, about : Inputs, schedule : Schedules, location : Texts,
          tap : Tabs \X Nat]

Rosters == [organizer : Users, about : Inputs, schedule : Schedules, rows : Seq(Inputs),
            tap : Tabs \X Nat]

\* What stands for a field that a request leaves out.
Omitted == "omitted"
NoSchedule == <<Omitted, Omitted>>

ASSUME RecordsAssumption ==
    /\ Nobody \notin Users
    /\ Blank \notin Inputs /\ Omitted \notin Inputs

EmptyBody == [target |-> 0, about |-> Blank, schedule |-> Unset, location |-> Blank, rows |-> << >>]

Unanswered == [status |-> "none", id |-> 0, schedule |-> Unset, location |-> Blank, listed |-> << >>]

Replied(status) == [Unanswered EXCEPT !.status = status]

Writes == {"createGame", "updateGame", "createGameInvite", "follow"}

Ops == Writes \cup {"getGame", "listMyGameInvites"}

Bodies == [target : Nat, about : Texts, schedule : Schedules \cup {NoSchedule},
           location : Texts \cup {Omitted}, rows : Seq(Inputs)]

Stages == {"sent", "read", "answered", "landing"}

Statuses == {"none", "ok", "failed", "forbidden"}

\* Answers and calls, given what lists are answered.
Replies(lists) ==
    [status : Statuses, id : Nat, schedule : Schedules, location : Texts, listed : lists]

Calls(lists) ==
    [from : Tabs, no : Nat, op : Ops, user : Users \cup {Nobody}, body : Bodies, stage : Stages,
     heard : BOOLEAN, reply : Replies(lists)]

RecordsInit(someGames, someRosters) ==
    /\ games = someGames
    /\ rosters = someRosters
    /\ participants = {}
    /\ follows = {}
    /\ calls = {}

(***************************************************************************)
(* The answer goes to the caller, unless it waits no more.                 *)
(***************************************************************************)
Answers(c, reply) ==
    calls' = (calls \ {c}) \cup
             (IF c.heard THEN {[c EXCEPT !.stage = "answered", !.reply = reply]} ELSE {})

Refuses(c, status) == Answers(c, Replied(status)) /\ UNCHANGED <<games, rosters, participants, follows>>

\* requireUser, of every endpoint that writes in a user's name or lists the user's own.
Authenticated(c) == c.user # Nobody

(***************************************************************************)
(* Games.                                                                  *)
(***************************************************************************)

\* The organizer is the account of the request's token.
NewGameRecord(c) ==
    [createdBy |-> c.user, about |-> c.body.about, schedule |-> c.body.schedule,
     location |-> Blank, tap |-> <<c.from, c.no>>]

ServeCreateGame(c) ==
    /\ c.op = "createGame" /\ c.stage = "sent"
    /\ IF Authenticated(c) /\ c.body.about # Blank
       THEN /\ games' = Append(games, NewGameRecord(c))
            /\ Answers(c, [Replied("ok") EXCEPT !.id = Len(games')])
            /\ UNCHANGED <<rosters, participants, follows>>
       ELSE Refuses(c, "failed")

Settings(g) == [Replied("ok") EXCEPT !.schedule = g.schedule, !.location = g.location]

\* Public: no account is needed to read a game.
ServeGetGame(c) ==
    /\ c.op = "getGame" /\ c.stage = "sent"
    /\ IF c.body.target \in DOMAIN games
       THEN /\ Answers(c, Settings(games[c.body.target]))
            /\ UNCHANGED <<games, rosters, participants, follows>>
       ELSE Refuses(c, "failed")

MayEdit(c) == Authenticated(c) /\ games[c.body.target].createdBy = c.user

\* UpdateGameSettings reads and checks in one transaction ...
ServeUpdateRead(c) ==
    /\ c.op = "updateGame" /\ c.stage = "sent"
    /\ IF c.body.target \notin DOMAIN games THEN Refuses(c, "failed")
       ELSE IF ~MayEdit(c) THEN Refuses(c, IF Authenticated(c) THEN "forbidden" ELSE "failed")
       ELSE /\ calls' = (calls \ {c}) \cup
                        {[c EXCEPT !.stage = "read", !.reply = Settings(games[c.body.target])]}
            /\ UNCHANGED <<games, rosters, participants, follows>>

\* A field that was left out keeps the value that was read.
Given(asked, omitted, read) == IF asked = omitted THEN read ELSE asked

\* ... and overwrites the record in another, with what it read then.
ServeUpdateWrite(c) ==
    /\ c.op = "updateGame" /\ c.stage = "read"
    /\ LET g == [games[c.body.target] EXCEPT
                    !.schedule = Given(c.body.schedule, NoSchedule, c.reply.schedule),
                    !.location = Given(c.body.location, Omitted, c.reply.location)]
       IN  /\ games' = [games EXCEPT ![c.body.target] = g]
           /\ Answers(c, Settings(g))
    /\ UNCHANGED <<rosters, participants, follows>>

(***************************************************************************)
(* Organized games.                                                        *)
(***************************************************************************)

\* The organizer is the account of the request's token here too.
NewRosterRecord(c) ==
    [organizer |-> c.user, about |-> c.body.about, schedule |-> c.body.schedule,
     rows |-> c.body.rows, tap |-> <<c.from, c.no>>]

ServeCreateRoster(c) ==
    /\ c.op = "createGameInvite" /\ c.stage = "sent"
    /\ IF Authenticated(c) /\ c.body.about # Blank
       THEN /\ rosters' = Append(rosters, NewRosterRecord(c))
            /\ Answers(c, [Replied("ok") EXCEPT !.id = Len(rosters')])
            /\ UNCHANGED <<games, participants, follows>>
       ELSE Refuses(c, "failed")

\* What an answer to an invite leaves behind (see Invites): the account takes part.
TakePart(u, i) ==
    /\ participants' = participants \cup {<<u, i>>}
    /\ UNCHANGED <<games, rosters, follows, calls>>

\* The ids in ascending order stand for the order in which a query returns them.
Sorted(ids) == SelectSeq([i \in 1 .. Len(rosters) |-> i], LAMBDA i : i \in ids)

OrganizedBy(u) == Sorted({i \in DOMAIN rosters : rosters[i].organizer = u})

TakenPartBy(u) == Sorted({i \in DOMAIN rosters : <<u, i>> \in participants})

\* MyGameInvites asks for the games that the caller organizes ...
ServeListOrganized(c) ==
    /\ c.op = "listMyGameInvites" /\ c.stage = "sent"
    /\ IF Authenticated(c)
       THEN /\ calls' = (calls \ {c}) \cup
                        {[c EXCEPT !.stage = "read", !.reply.listed = OrganizedBy(c.user)]}
            /\ UNCHANGED <<games, rosters, participants, follows>>
       ELSE Refuses(c, "failed")

Among(ids, i) == \E k \in DOMAIN ids : ids[k] = i

\* The organized games first, and the others that are not among them.
Deduplicated(organized, invited) ==
    organized \o SelectSeq(invited, LAMBDA i : ~Among(organized, i))

\* ... and then for those that it takes part in.
ServeListInvited(c) ==
    /\ c.op = "listMyGameInvites" /\ c.stage = "read"
    /\ Answers(c, [Replied("ok") EXCEPT
                       !.listed = Deduplicated(c.reply.listed, TakenPartBy(c.user))])
    /\ UNCHANGED <<games, rosters, participants, follows>>

(***************************************************************************)
(* Follows.                                                                *)
(***************************************************************************)

\* A faulty followKey: the target alone is the key.
FollowsByTarget(c) == {f \in follows : f[2] # c.body.target} \cup {<<c.user, c.body.target>>}

\* Keyed by account and target: following twice is following once.
WithFollow(c) == follows \cup {<<c.user, c.body.target>>}

ServeFollow(c) ==
    /\ c.op = "follow" /\ c.stage = "sent"
    /\ IF Authenticated(c)
       THEN /\ follows' = WithFollow(c)
            /\ Answers(c, Replied("ok"))
            /\ UNCHANGED <<games, rosters, participants>>
       ELSE Refuses(c, "failed")

Serve(c) ==
    \/ ServeCreateGame(c) \/ ServeGetGame(c) \/ ServeUpdateRead(c) \/ ServeUpdateWrite(c)
    \/ ServeCreateRoster(c) \/ ServeListOrganized(c) \/ ServeListInvited(c) \/ ServeFollow(c)

(***************************************************************************)
(* What can go wrong on the way.                                           *)
(***************************************************************************)

\* The request or the answer is lost, or the server stops between transactions.
Lose(c) ==
    /\ c.reply.status # "failed" /\ c.stage \in {"sent", "read", "answered"}
    /\ Answers(c, Replied("failed"))
    /\ UNCHANGED <<games, rosters, participants, follows>>

\* The caller hears of a failure while the call is still being served.
GiveUp(c) ==
    /\ c.heard /\ c.stage \in {"sent", "read"} /\ c.op \in Writes
    /\ calls' = (calls \ {c}) \cup
                {[c EXCEPT !.heard = FALSE], [c EXCEPT !.stage = "answered", !.reply = Replied("failed")]}
    /\ UNCHANGED <<games, rosters, participants, follows>>
=============================================================================
