------------------------------ MODULE MyLists ------------------------------
(***************************************************************************)
(* What an account finds again: the games it created, watched in the       *)
(* database (my/games/my-games-page.component.ts), the games it organizes  *)
(* or takes part in, asked of the backend                                  *)
(* (game-invites/game-invites-list-page.component.ts), and following a     *)
(* team from its scoreboard (game/scoreboard/scoreboard-page.component.ts).*)
(***************************************************************************)
EXTENDS Browser

CONSTANT Targets    \* what can be followed, by number

ASSUME MyListsAssumption == Targets \subseteq Nat

VARIABLES
    myGames,    \* the page of created games in each tab
    myRosters,  \* the page of organized games in each tab
    board       \* the scoreboard in each tab, as far as following goes

myListsVars == <<myGames, myRosters, board>>

ClosedMyGames == [alive |-> FALSE, watches |-> {}, loading |-> TRUE, shown |-> {}]

ClosedMyRosters == [alive |-> FALSE, loading |-> TRUE, error |-> FALSE, shown |-> << >>]

ClosedBoard == [alive |-> FALSE, status |-> "", user |-> Nobody, target |-> 0]

MyListsInit ==
    /\ myGames = [t \in Tabs |-> ClosedMyGames]
    /\ myRosters = [t \in Tabs |-> ClosedMyRosters]
    /\ board = [t \in Tabs |-> ClosedBoard]

(***************************************************************************)
(* Created games: a query that is watched for as long as its account is    *)
(* signed in.                                                              *)
(***************************************************************************)

\* A faulty mergeMap: the query of the account before is watched on.
WatchesToo(pg, u) == IF u = Nobody THEN pg.watches ELSE pg.watches \cup {u}

\* switchMap: the query of the account before is dropped.
Watches(pg, u) == IF u = Nobody THEN {} ELSE {u}

\* The page follows the account: at once for nobody, with the first answer otherwise.
MyGamesFor(pg, u) ==
    IF ~pg.alive THEN pg
    ELSE IF u = Nobody THEN [pg EXCEPT !.watches = Watches(pg, u), !.loading = FALSE, !.shown = {}]
    ELSE [pg EXCEPT !.watches = Watches(pg, u)]

ShowMyGames(t) ==
    /\ view' = [view EXCEPT ![t] = "myGames"]
    /\ myGames' = IF myGames[t].alive THEN myGames
                  ELSE [myGames EXCEPT ![t] = MyGamesFor([ClosedMyGames EXCEPT !.alive = TRUE], Account(t))]
    /\ UNCHANGED <<auth, session, plan, taps, calls, myRosters, board>>

CreatedBy(u) == {i \in DOMAIN games : games[i].createdBy = u}

\* The database sends the result of a query that is watched.
Snapshot(t, u) ==
    /\ u \in myGames[t].watches
    /\ myGames[t].loading \/ myGames[t].shown # CreatedBy(u)
    /\ myGames' = [myGames EXCEPT ![t].loading = FALSE, ![t].shown = CreatedBy(u)]
    /\ UNCHANGED <<auth, session, view, plan, taps, calls, myRosters, board>>

(***************************************************************************)
(* Organized games: asked for once whenever somebody signs in where nobody *)
(* was, and again on retry.  An answer is shown whoever is signed in when  *)
(* it comes.                                                               *)
(***************************************************************************)

MyRostersFor(pg, u) ==
    IF ~pg.alive THEN pg
    ELSE IF u = Nobody THEN [pg EXCEPT !.loading = FALSE, !.error = FALSE, !.shown = << >>]
    ELSE [pg EXCEPT !.loading = TRUE, !.error = FALSE]

\* The page only follows whether anybody is signed in, not who.
Asks(t, u) == myRosters[t].alive /\ Account(t) = Nobody /\ u # Nobody

MyRostersThen(t, u) ==
    IF (Account(t) = Nobody) = (u = Nobody) THEN myRosters[t] ELSE MyRostersFor(myRosters[t], u)

ShowMyRosters(t) ==
    /\ view' = [view EXCEPT ![t] = "rosters"]
    /\ IF myRosters[t].alive THEN UNCHANGED <<myRosters, plan, calls>>
       ELSE /\ myRosters' = [myRosters EXCEPT ![t] =
                   MyRostersFor([ClosedMyRosters EXCEPT !.alive = TRUE], Account(t))]
            /\ IF Account(t) = Nobody THEN UNCHANGED <<plan, calls>>
               ELSE CallFrom(t, "listMyGameInvites", EmptyBody)
    /\ UNCHANGED <<auth, session, taps, myGames, board>>

SignInFromRosters(t) ==
    /\ Shows(t, "rosters") /\ Account(t) = Nobody
    /\ view' = [view EXCEPT ![t] = "loginForRosters"]
    /\ UNCHANGED <<auth, session, plan, taps, calls, myGames, myRosters, board>>

\* Offered in place of the list when it could not be read.
Retry(t) ==
    /\ Shows(t, "rosters") /\ Account(t) # Nobody
    /\ myRosters[t].error /\ ~myRosters[t].loading
    /\ CallFrom(t, "listMyGameInvites", EmptyBody)
    /\ myRosters' = [myRosters EXCEPT ![t] = MyRostersFor(@, Account(t))]
    /\ UNCHANGED <<auth, session, view, taps, myGames, board>>

RostersListed(t, c) ==
    /\ Good(t, c, "listMyGameInvites")
    /\ Takes(c)
    /\ myRosters' = [myRosters EXCEPT ![t].shown = c.reply.listed, ![t].loading = FALSE]
    /\ UNCHANGED <<auth, session, view, plan, taps, myGames, board>>

RostersNotListed(t, c) ==
    /\ Bad(t, c, "listMyGameInvites")
    /\ Takes(c)
    /\ myRosters' = [myRosters EXCEPT ![t].error = TRUE, ![t].loading = FALSE]
    /\ UNCHANGED <<auth, session, view, plan, taps, myGames, board>>

(***************************************************************************)
(* Following.                                                              *)
(***************************************************************************)

ShowBoard(t, target) ==
    /\ ~board[t].alive
    /\ view' = [view EXCEPT ![t] = "board"]
    /\ board' = [board EXCEPT ![t] = [ClosedBoard EXCEPT !.alive = TRUE, !.target = target]]
    /\ UNCHANGED <<auth, session, plan, taps, calls, myGames, myRosters>>

\* The button stays as it is while a call is under way.
Follow(t) ==
    /\ Shows(t, "board") /\ Account(t) # Nobody
    /\ CallFrom(t, "follow", [EmptyBody EXCEPT !.target = board[t].target])
    /\ UNCHANGED <<auth, session, view, taps, myGames, myRosters, board>>

\* The call is refused before it is sent.
FollowSignedOut(t) ==
    /\ Shows(t, "board") /\ Account(t) = Nobody
    /\ board' = [board EXCEPT ![t].status = "account required"]
    /\ UNCHANGED <<auth, session, view, plan, taps, calls, myGames, myRosters>>

Following(t, c) ==
    /\ Good(t, c, "follow")
    /\ Takes(c)
    /\ board' = [board EXCEPT ![t].status = "following", ![t].user = c.user]
    /\ UNCHANGED <<auth, session, view, plan, taps, myGames, myRosters>>

\* Every error reads the same.
NotFollowing(t, c) ==
    /\ Bad(t, c, "follow")
    /\ Takes(c)
    /\ board' = [board EXCEPT ![t].status = "account required"]
    /\ UNCHANGED <<auth, session, view, plan, taps, myGames, myRosters>>

MyListsUser(t) ==
    \/ SignInFromRosters(t) \/ Retry(t)
    \/ Follow(t) \/ FollowSignedOut(t)

MyListsReceive(t) ==
    \E c \in calls : RostersListed(t, c) \/ RostersNotListed(t, c)
                     \/ Following(t, c) \/ NotFollowing(t, c)
=============================================================================
