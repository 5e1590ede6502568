---------------------------- MODULE InviteRecord ----------------------------
(***************************************************************************)
(* The record of an organized game (backend/gameboard/game_invite.go): its *)
(* roster and the answers given for it, and how the pages count them       *)
(* (game-invites/roster-fill.ts).  Sport, team, venue and schedule are set *)
(* once and left out.                                                      *)
(*                                                                         *)
(* A player of the roster is an id with whoever added it; an answer has    *)
(* its status, the parent who gave it, and whether it was given together   *)
(* with adding the player.                                                 *)
(***************************************************************************)
EXTENDS Integers, Sequences, FiniteSets

RsvpStatuses == {"going", "maybe", "out"}

Ids(roster) == {roster[i].playerId : i \in DOMAIN roster}

\* A faulty newGameID: ids are taken from the length of the list seen last.
ReusedId(g) == Len(g.roster)

\* A fresh id for a roster player (newGameID).
NewPlayerId(g) == Len(g.roster) + 1

\* AddRosterPlayer: read, append, write, in one transaction.
WithPlayer(g, player) == [g EXCEPT !.roster = Append(@, player)]

\* The roster is searched for the player whom the answer is about.
OnRoster(g, id) == id \in Ids(g.roster)

\* SubmitRsvp: the map key is the player, so an answer replaces the last one.
WithRsvp(g, id, rsvp) ==
    [g EXCEPT !.responses = [k \in DOMAIN g.responses \cup {id} |->
                                IF k = id THEN rsvp ELSE g.responses[k]]]

\* "no-reply" is derived, never stored.
DisplayStatus(g, id) == IF id \in DOMAIN g.responses THEN g.responses[id].status ELSE "no-reply"

\* The rows of one group of the roster (computeRosterFill).
Group(g, status) ==
    {i \in DOMAIN g.roster : DisplayStatus(g, g.roster[i].playerId) = status}

\* What the roster page shows under each heading.
Groups(g) == [status \in RsvpStatuses \cup {"no-reply"} |-> Group(g, status)]

GoingCount(g) == Cardinality(Group(g, "going"))
=============================================================================
