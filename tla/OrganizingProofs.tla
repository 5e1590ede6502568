--------------------------- MODULE OrganizingProofs ---------------------------
(***************************************************************************)
(* Proofs about how games are found again, about the drafts of games and   *)
(* of organized games, about the settings of games, and about what the     *)
(* pages tell of what was created, saved and followed, for any accounts,   *)
(* tabs, browsers and plans.  Each of the four parts has an invariant of   *)
(* its own: OwnInv, NewGameInv with OrganizeInv, SettingsInv, ReportedInv. *)
(*                                                                         *)
(* The invariant OwnInv says of each page of created games that it watches *)
(* no account's games but those of who is signed in, and shows nothing to  *)
(* nobody.                                                                 *)
(***************************************************************************)
EXTENDS Organizing, SequenceTheorems, TLAPS

\* Of whatever members.
IsSeq(s) == \E S : s \in Seq(S)

IsGame(g) ==
    g = [createdBy |-> g.createdBy, about |-> g.about, schedule |-> g.schedule,
         location |-> g.location, tap |-> g.tap]

GamesRight ==
    /\ IsSeq(games)
    /\ \A i \in DOMAIN games : IsGame(games[i])

IsMyGames(pg) ==
    pg = [alive |-> pg.alive, watches |-> pg.watches, loading |-> pg.loading, shown |-> pg.shown]

\* A page is right about who is signed in, u.
PageRight(pg, u) ==
    /\ IsMyGames(pg)
    /\ ~pg.alive => pg = ClosedMyGames
    /\ pg.watches \subseteq {u} \ {Nobody}
    /\ u = Nobody => pg.shown = {}

OwnInv ==
    /\ myGames = [t \in Tabs |-> myGames[t]]
    /\ session = [t \in Tabs |-> session[t]]
    /\ \A t \in Tabs : PageRight(myGames[t], Account(t))

\* What a page lists from now on: what it did, nothing, or the games of who is signed in.
ListsOwn(new, old, u) == new.shown \in {old.shown, {}, CreatedBy(u)}

-----------------------------------------------------------------------------
(***************************************************************************)
(* The games.                                                              *)
(***************************************************************************)

\* No game is lost, and each stays its organizer's.
GamesGrow ==
    /\ DOMAIN games \subseteq DOMAIN games'
    /\ \A i \in DOMAIN games : games'[i].createdBy = games[i].createdBy

LEMMA SeqAppended ==
    ASSUME NEW s, IsSeq(s), NEW e
    PROVE  /\ IsSeq(Append(s, e))
           /\ DOMAIN Append(s, e) = DOMAIN s \cup {Len(s) + 1}
           /\ \A i \in DOMAIN s : Append(s, e)[i] = s[i]
           /\ Append(s, e)[Len(s) + 1] = e
           /\ Len(s) + 1 \notin DOMAIN s
<1>1. PICK S : s \in Seq(S)
  BY DEF IsSeq
<1>2. s \in Seq(S \cup {e}) /\ e \in S \cup {e}
  BY <1>1
<1>3. Append(s, e) \in Seq(S \cup {e})
  BY <1>2
<1> QED
  BY <1>2, <1>3 DEF IsSeq

LEMMA SeqReplaced ==
    ASSUME NEW s, IsSeq(s), NEW k, NEW e
    PROVE  /\ IsSeq([s EXCEPT ![k] = e])
           /\ DOMAIN [s EXCEPT ![k] = e] = DOMAIN s
           /\ \A i \in DOMAIN s : [s EXCEPT ![k] = e][i] = IF i = k THEN e ELSE s[i]
<1>1. PICK S : s \in Seq(S)
  BY DEF IsSeq
<1>2. [s EXCEPT ![k] = e] \in Seq(S \cup {e})
  <2>1. s \in Seq(S \cup {e}) /\ e \in S \cup {e}
    BY <1>1
  <2>2. CASE k \in 1 .. Len(s)
    BY <2>1, <2>2, ExceptSeq
  <2>3. CASE k \notin DOMAIN s
    <3>1. [s EXCEPT ![k] = e] = s
      BY <1>1, <2>3
    <3> QED
      BY <2>1, <3>1
  <2> QED
    BY <1>1, <2>2, <2>3
<1>3. /\ DOMAIN [s EXCEPT ![k] = e] = DOMAIN s
      /\ \A i \in DOMAIN s : [s EXCEPT ![k] = e][i] = IF i = k THEN e ELSE s[i]
  OBVIOUS
<1> QED
  BY <1>2, <1>3 DEF IsSeq

\* A game whose settings are replaced.
LEMMA GameReplaced ==
    ASSUME NEW old, IsGame(old), NEW schedule, NEW location
    PROVE  [old EXCEPT !.schedule = schedule, !.location = location]
               = [createdBy |-> old.createdBy, about |-> old.about, schedule |-> schedule,
                  location |-> location, tap |-> old.tap]
<1>1. PICK createdBy, about, schedule0, location0, tap :
        old = [createdBy |-> createdBy, about |-> about, schedule |-> schedule0,
               location |-> location0, tap |-> tap]
  BY DEF IsGame
<1> DEFINE half == [createdBy |-> createdBy, about |-> about, schedule |-> schedule,
                    location |-> location0, tap |-> tap]
<1>2. [old EXCEPT !.schedule = schedule] = half
  BY <1>1
<1>3. [half EXCEPT !.location = location]
        = [createdBy |-> createdBy, about |-> about, schedule |-> schedule,
           location |-> location, tap |-> tap]
  OBVIOUS
<1>4. [old EXCEPT !.schedule = schedule, !.location = location]
        = [[old EXCEPT !.schedule = schedule] EXCEPT !.location = location]
  OBVIOUS
<1> QED
  BY <1>1, <1>2, <1>3, <1>4

\* Games are changed by two transactions only.
LEMMA GamesSteps ==
    ASSUME [Next]_vars
    PROVE  \/ UNCHANGED games
           \/ \E c \in calls : ServeCreateGame(c) /\ games' = Append(games, NewGameRecord(c))
           \/ \E c \in calls : ServeUpdateWrite(c)
<1>1. CASE Serving
  <2>1. PICK c \in calls : Serve(c)
    BY <1>1 DEF Serving
  <2>2. CASE ServeCreateGame(c)
    BY <2>2 DEF ServeCreateGame, Refuses
  <2>3. CASE ServeUpdateWrite(c)
    BY <2>3
  <2>4. CASE ServeGetGame(c)
    BY <2>4 DEF ServeGetGame, Refuses
  <2>5. CASE ServeUpdateRead(c)
    BY <2>5 DEF ServeUpdateRead, Refuses
  <2>6. CASE ServeCreateRoster(c)
    BY <2>6 DEF ServeCreateRoster, NewRosterRecord, Refuses
  <2>7. CASE ServeListOrganized(c)
    BY <2>7 DEF ServeListOrganized, Refuses
  <2>8. CASE ServeListInvited(c)
    BY <2>8 DEF ServeListInvited
  <2>9. CASE ServeFollow(c)
    BY <2>9 DEF ServeFollow, Refuses
  <2> QED
    BY <2>1, <2>2, <2>3, <2>4, <2>5, <2>6, <2>7, <2>8, <2>9 DEF Serve
<1>2. CASE Failing
  BY <1>2 DEF Failing, Lose, GiveUp
<1>3. CASE TakingPart
  BY <1>3 DEF TakingPart, TakePart
<1>4. CASE Using \/ Going \/ Receiving \/ Watching
  BY <1>4 DEF Using, Going, Receiving, Watching
<1>5. CASE UNCHANGED vars
  BY <1>5 DEF vars, backend
<1> QED
  BY <1>1, <1>2, <1>3, <1>4, <1>5 DEF Next

LEMMA GamesKept ==
    ASSUME GamesRight, [Next]_vars
    PROVE  GamesRight' /\ GamesGrow
<1>1. CASE UNCHANGED games
  BY <1>1 DEF GamesRight, GamesGrow
<1>2. CASE \E c \in calls : ServeCreateGame(c) /\ games' = Append(games, NewGameRecord(c))
  <2>1. PICK c \in calls : games' = Append(games, NewGameRecord(c))
    BY <1>2
  <2>2. IsGame(NewGameRecord(c))
    BY DEF IsGame, NewGameRecord
  <2> QED
    BY <2>1, <2>2, SeqAppended DEF GamesRight, GamesGrow
<1>3. CASE \E c \in calls : ServeUpdateWrite(c)
  <2>1. PICK c \in calls : ServeUpdateWrite(c)
    BY <1>3
  <2> DEFINE k == c.body.target
             old == games[k]
             g == [old EXCEPT !.schedule = Given(c.body.schedule, NoSchedule, c.reply.schedule),
                              !.location = Given(c.body.location, Omitted, c.reply.location)]
  <2>2. games' = [games EXCEPT ![k] = g]
    BY <2>1 DEF ServeUpdateWrite
  <2>3. ASSUME k \in DOMAIN games
        PROVE  g = [createdBy |-> old.createdBy, about |-> old.about,
                    schedule |-> Given(c.body.schedule, NoSchedule, c.reply.schedule),
                    location |-> Given(c.body.location, Omitted, c.reply.location), tap |-> old.tap]
    <3>1. IsGame(old)
      BY <2>3 DEF GamesRight
    <3> QED
      BY <3>1, GameReplaced
  <2>4. k \in DOMAIN games => IsGame(g) /\ g.createdBy = old.createdBy
    BY <2>3 DEF IsGame
  <2> HIDE DEF g
  <2> QED
    BY <2>2, <2>4, SeqReplaced DEF GamesRight, GamesGrow
<1> QED
  BY <1>1, <1>2, <1>3, GamesSteps
-----------------------------------------------------------------------------
(***************************************************************************)
(* The page of created games.                                              *)
(***************************************************************************)

LEMMA UsingKeepsSession ==
    ASSUME Using
    PROVE  UNCHANGED <<session, myGames>>
<1>1. PICK t \in Tabs :
        \/ NewGameUser(t) /\ UNCHANGED <<organizeVars, settings, myListsVars>>
        \/ OrganizeUser(t) /\ UNCHANGED <<newGameVars, settings, myListsVars>>
        \/ SettingsUser(t) /\ UNCHANGED <<newGameVars, organizeVars, myListsVars>>
        \/ MyListsUser(t)
  BY DEF Using
<1>2. CASE NewGameUser(t) /\ UNCHANGED <<organizeVars, settings, myListsVars>>
  BY <1>2 DEF NewGameUser, EditNewGame, SignInFromNewGame, CreateNewGameSignedOut, CreateNewGame, myListsVars
<1>3. CASE OrganizeUser(t) /\ UNCHANGED <<newGameVars, settings, myListsVars>>
  BY <1>3 DEF OrganizeUser, EditOrganize, TypeRow, AddRow, RemoveRow, Enters, SignInFromOrganize,
              OrganizeSignedOut, Organize, myListsVars
<1>4. CASE SettingsUser(t) /\ UNCHANGED <<newGameVars, organizeVars, myListsVars>>
  BY <1>4 DEF SettingsUser, OpenSettings, EditSettings, SaveSettings, SaveSettingsSignedOut, myListsVars
<1>5. CASE MyListsUser(t)
  BY <1>5 DEF MyListsUser, SignInFromRosters, Retry, Follow, FollowSignedOut
<1> QED
  BY <1>1, <1>2, <1>3, <1>4, <1>5

LEMMA ReceivingKeepsSession ==
    ASSUME Receiving
    PROVE  UNCHANGED <<session, myGames>>
<1>1. PICK t \in Tabs :
        \/ /\ \E c \in calls : NewGameCreated(t, c) \/ NewGameFails(t, c)
           /\ UNCHANGED <<organizeVars, settings, myListsVars>>
        \/ \E c \in calls : Land(t, c)
        \/ /\ \E c \in calls : Organized(t, c) \/ OrganizeFails(t, c)
           /\ UNCHANGED <<newGameVars, settings, myListsVars>>
        \/ /\ \E c \in calls : SettingsReceive(t, c)
           /\ UNCHANGED <<newGameVars, organizeVars, myListsVars>>
        \/ MyListsReceive(t)
  BY DEF Receiving
<1>2. CASE /\ \E c \in calls : NewGameCreated(t, c) \/ NewGameFails(t, c)
           /\ UNCHANGED <<organizeVars, settings, myListsVars>>
  BY <1>2 DEF NewGameCreated, NewGameFails, myListsVars
<1>3. CASE \E c \in calls : Land(t, c)
  BY <1>3 DEF Land, myListsVars
<1>4. CASE /\ \E c \in calls : Organized(t, c) \/ OrganizeFails(t, c)
           /\ UNCHANGED <<newGameVars, settings, myListsVars>>
  BY <1>4 DEF Organized, OrganizeFails, myListsVars
<1>5. CASE /\ \E c \in calls : SettingsReceive(t, c)
           /\ UNCHANGED <<newGameVars, organizeVars, myListsVars>>
  BY <1>5 DEF SettingsReceive, SettingsLoaded, SettingsNotLoaded, SettingsSaved, SettingsNotSaved, myListsVars
<1>6. CASE MyListsReceive(t)
  BY <1>6 DEF MyListsReceive, RostersListed, RostersNotListed, Following, NotFollowing
<1> QED
  BY <1>1, <1>2, <1>3, <1>4, <1>5, <1>6

\* The page is shown, updated or gone, or the account changes.
LEMMA MyGamesSteps ==
    ASSUME [Next]_vars
    PROVE  \/ UNCHANGED <<session, myGames>>
           \/ /\ UNCHANGED session
              /\ \E t \in Tabs :
                    \/ ShowMyGames(t)
                    \/ \E u \in Users : Snapshot(t, u)
                    \/ Close(t) /\ myGames' = [myGames EXCEPT ![t] = ClosedMyGames]
           \/ \E t \in Tabs : \E u : Session(t, u)
           \/ \E t \in Tabs : \E u : /\ Reload(t) /\ session' = [session EXCEPT ![t] = u]
                                     /\ myGames' = [myGames EXCEPT ![t] = ClosedMyGames]
<1>1. CASE Serving \/ Failing \/ TakingPart \/ UNCHANGED vars
  BY <1>1 DEF Serving, Failing, TakingPart, vars, client, pages, myListsVars
<1>2. CASE Using
  BY <1>2, UsingKeepsSession
<1>3. CASE Receiving
  BY <1>3, ReceivingKeepsSession
<1>4. CASE Watching
  BY <1>4 DEF Watching, Snapshot
<1>5. CASE Going
  <2>1. CASE \E t \in Tabs : Visit(t)
    BY <2>1 DEF Visit, ShowMyRosters, ShowBoard, ShowMyGames, myListsVars
  <2>2. CASE \E t \in Tabs : Close(t)
    BY <2>2 DEF Close
  <2>3. CASE \E t \in Tabs : Reload(t)
    BY <2>3 DEF Reload
  <2>4. CASE \E t \in Tabs : Return(t)
    BY <2>4 DEF Return, ShowMyRosters, myListsVars
  <2>5. CASE \E t \in Tabs, u \in Users : SignIn(t, u)
    BY <2>5 DEF SignIn
  <2>6. CASE \E t \in Tabs : SignOut(t) \/ Learn(t)
    BY <2>6 DEF SignOut, Learn
  <2> QED
    BY <1>5, <2>1, <2>2, <2>3, <2>4, <2>5, <2>6 DEF Going
<1> QED
  BY <1>1, <1>2, <1>3, <1>4, <1>5 DEF Next

\* A page that watches other accounts, and one that starts over.
LEMMA MyGamesReplaced ==
    ASSUME NEW pg, IsMyGames(pg), NEW w, NEW l, NEW s
    PROVE  /\ [pg EXCEPT !.watches = w]
                  = [alive |-> pg.alive, watches |-> w, loading |-> pg.loading, shown |-> pg.shown]
           /\ [pg EXCEPT !.watches = w, !.loading = l, !.shown = s]
                  = [alive |-> pg.alive, watches |-> w, loading |-> l, shown |-> s]
<1>1. PICK alive, watches, loading, shown :
        pg = [alive |-> alive, watches |-> watches, loading |-> loading, shown |-> shown]
  BY DEF IsMyGames
<1> DEFINE p1 == [alive |-> alive, watches |-> w, loading |-> loading, shown |-> shown]
           p2 == [alive |-> alive, watches |-> w, loading |-> l, shown |-> shown]
<1>2. [pg EXCEPT !.watches = w] = p1
  BY <1>1
<1>3. [p1 EXCEPT !.loading = l] = p2
  OBVIOUS
<1>4. [p2 EXCEPT !.shown = s] = [alive |-> alive, watches |-> w, loading |-> l, shown |-> s]
  OBVIOUS
<1>5. [pg EXCEPT !.watches = w, !.loading = l, !.shown = s]
        = [[[pg EXCEPT !.watches = w] EXCEPT !.loading = l] EXCEPT !.shown = s]
  OBVIOUS
<1> QED
  BY <1>1, <1>2, <1>3, <1>4, <1>5

LEMMA MyGamesUpdated ==
    ASSUME NEW pg, IsMyGames(pg), NEW l, NEW s
    PROVE  [pg EXCEPT !.loading = l, !.shown = s]
               = [alive |-> pg.alive, watches |-> pg.watches, loading |-> l, shown |-> s]
<1>1. PICK alive, watches, loading, shown :
        pg = [alive |-> alive, watches |-> watches, loading |-> loading, shown |-> shown]
  BY DEF IsMyGames
<1> DEFINE p1 == [alive |-> alive, watches |-> watches, loading |-> l, shown |-> shown]
<1>2. [pg EXCEPT !.loading = l] = p1
  BY <1>1
<1>3. [p1 EXCEPT !.shown = s] = [alive |-> alive, watches |-> watches, loading |-> l, shown |-> s]
  OBVIOUS
<1>4. [pg EXCEPT !.loading = l, !.shown = s] = [[pg EXCEPT !.loading = l] EXCEPT !.shown = s]
  OBVIOUS
<1> QED
  BY <1>1, <1>2, <1>3, <1>4

LEMMA MyGamesOpened ==
    ASSUME NEW pg, IsMyGames(pg), NEW a
    PROVE  [pg EXCEPT !.alive = a]
               = [alive |-> a, watches |-> pg.watches, loading |-> pg.loading, shown |-> pg.shown]
<1>1. PICK alive, watches, loading, shown :
        pg = [alive |-> alive, watches |-> watches, loading |-> loading, shown |-> shown]
  BY DEF IsMyGames
<1> QED
  BY <1>1

LEMMA ClosedPageRight == ASSUME NEW u PROVE PageRight(ClosedMyGames, u)
BY DEF PageRight, IsMyGames, ClosedMyGames

\* The account changes.
LEMMA MyGamesForRight ==
    ASSUME NEW pg, NEW old, PageRight(pg, old), NEW u
    PROVE  /\ PageRight(MyGamesFor(pg, u), u)
           /\ MyGamesFor(pg, u).shown \in {pg.shown, {}}
<1>1. CASE ~pg.alive
  <2>1. MyGamesFor(pg, u) = ClosedMyGames
    BY <1>1 DEF MyGamesFor, PageRight
  <2> QED
    BY <2>1, ClosedPageRight DEF ClosedMyGames
<1>2. CASE pg.alive /\ u = Nobody
  <2>1. MyGamesFor(pg, u) = [pg EXCEPT !.watches = {}, !.loading = FALSE, !.shown = {}]
    BY <1>2 DEF MyGamesFor, Watches
  <2>2. MyGamesFor(pg, u) = [alive |-> pg.alive, watches |-> {}, loading |-> FALSE, shown |-> {}]
    BY <2>1, MyGamesReplaced DEF PageRight
  <2> QED
    BY <1>2, <2>2 DEF PageRight, IsMyGames
<1>3. CASE pg.alive /\ u # Nobody
  <2>1. MyGamesFor(pg, u) = [pg EXCEPT !.watches = {u}]
    BY <1>3 DEF MyGamesFor, Watches
  <2>2. MyGamesFor(pg, u) = [alive |-> pg.alive, watches |-> {u}, loading |-> pg.loading, shown |-> pg.shown]
    BY <2>1, MyGamesReplaced DEF PageRight
  <2> QED
    BY <1>3, <2>2 DEF PageRight, IsMyGames
<1> QED
  BY <1>1, <1>2, <1>3

\* The database sends the games of who is signed in.
LEMMA SnapshotRight ==
    ASSUME NEW pg, NEW u, PageRight(pg, u), NEW v \in pg.watches
    PROVE  /\ PageRight([pg EXCEPT !.loading = FALSE, !.shown = CreatedBy(v)], u)
           /\ [pg EXCEPT !.loading = FALSE, !.shown = CreatedBy(v)].shown = CreatedBy(u)
<1> DEFINE new == [pg EXCEPT !.loading = FALSE, !.shown = CreatedBy(v)]
<1>1. v = u /\ u # Nobody
  BY DEF PageRight
<1>2. pg.alive
  BY DEF PageRight, ClosedMyGames
<1>3. new = [alive |-> pg.alive, watches |-> pg.watches, loading |-> FALSE, shown |-> CreatedBy(v)]
  <2>1. IsMyGames(pg)
    BY DEF PageRight
  <2> QED
    BY <2>1, MyGamesUpdated
<1> HIDE DEF new
<1>4. IsMyGames(new) /\ new.alive /\ new.watches = pg.watches /\ new.shown = CreatedBy(v)
  BY <1>2, <1>3 DEF IsMyGames
<1>5. PageRight(new, u) /\ new.shown = CreatedBy(u)
  BY <1>1, <1>4 DEF PageRight
<1> QED
  BY <1>5 DEF new

LEMMA OpenedRight ==
    ASSUME NEW u
    PROVE  /\ PageRight(MyGamesFor([ClosedMyGames EXCEPT !.alive = TRUE], u), u)
           /\ MyGamesFor([ClosedMyGames EXCEPT !.alive = TRUE], u).shown = {}
<1> DEFINE new == [ClosedMyGames EXCEPT !.alive = TRUE]
<1>1. new = [alive |-> TRUE, watches |-> {}, loading |-> TRUE, shown |-> {}]
  <2>1. IsMyGames(ClosedMyGames)
    BY DEF IsMyGames, ClosedMyGames
  <2>2. ClosedMyGames.watches = {} /\ ClosedMyGames.loading = TRUE /\ ClosedMyGames.shown = {}
    BY DEF ClosedMyGames
  <2> QED
    BY <2>1, <2>2, MyGamesOpened
<1>2. PageRight(new, Nobody) /\ new.shown = {}
  BY <1>1 DEF PageRight, IsMyGames
<1> QED
  BY <1>2, MyGamesForRight

LEMMA OwnInvKept ==
    ASSUME OwnInv, [Next]_vars
    PROVE  OwnInv' /\ \A q \in Tabs : ListsOwn(myGames'[q], myGames[q], session'[q])
<1> DEFINE Kept == OwnInv' /\ \A q \in Tabs : ListsOwn(myGames'[q], myGames[q], session'[q])
<1>1. CASE UNCHANGED <<session, myGames>>
  BY <1>1 DEF OwnInv, Account, ListsOwn
\* One tab's page, or account, or both change.
<1>2. ASSUME NEW t \in Tabs, NEW u, NEW new,
             (session' = session /\ u = session[t]) \/ session' = [session EXCEPT ![t] = u],
             myGames' = [myGames EXCEPT ![t] = new],
             PageRight(new, u), ListsOwn(new, myGames[t], u)
      PROVE  Kept
  <2>1. /\ myGames' = [q \in Tabs |-> myGames'[q]]
        /\ session' = [q \in Tabs |-> session'[q]]
    BY <1>2 DEF OwnInv
  <2>2. ASSUME NEW q \in Tabs
        PROVE  PageRight(myGames'[q], session'[q]) /\ ListsOwn(myGames'[q], myGames[q], session'[q])
    <3>1. CASE q = t
      <4>1. session'[q] = u /\ myGames'[q] = new
        BY <1>2, <3>1 DEF OwnInv
      <4> QED
        BY <1>2, <3>1, <4>1
    <3>2. CASE q # t
      <4>1. session'[q] = session[q] /\ myGames'[q] = myGames[q]
        BY <1>2, <3>2 DEF OwnInv
      <4> QED
        BY <4>1 DEF OwnInv, Account, ListsOwn
    <3> QED
      BY <3>1, <3>2
  <2>3. \A q \in Tabs : PageRight(myGames[q], Account(q))'
    BY <2>2 DEF Account, PageRight
  <2> QED
    BY <2>1, <2>2, <2>3 DEF OwnInv
<1> HIDE DEF Kept
<1>3. ASSUME UNCHANGED session, NEW t \in Tabs, ShowMyGames(t)
      PROVE  Kept
  <2>1. CASE myGames[t].alive
    BY <1>1, <1>3, <2>1 DEF ShowMyGames, Kept
  <2>2. CASE ~myGames[t].alive
    <3> DEFINE new == MyGamesFor([ClosedMyGames EXCEPT !.alive = TRUE], Account(t))
    <3>1. myGames' = [myGames EXCEPT ![t] = new]
      BY <1>3, <2>2 DEF ShowMyGames
    <3>2. PageRight(new, Account(t)) /\ ListsOwn(new, myGames[t], Account(t))
      BY OpenedRight DEF ListsOwn
    <3> HIDE DEF new
    <3> QED
      BY <1>2, <1>3, <3>1, <3>2 DEF Account
  <2> QED
    BY <2>1, <2>2
<1>4. ASSUME UNCHANGED session, NEW t \in Tabs, NEW u \in Users, Snapshot(t, u)
      PROVE  Kept
  <2> DEFINE new == [myGames[t] EXCEPT !.loading = FALSE, !.shown = CreatedBy(u)]
  <2>1. /\ u \in myGames[t].watches
        /\ myGames' = [myGames EXCEPT ![t].loading = FALSE, ![t].shown = CreatedBy(u)]
    BY <1>4 DEF Snapshot
  <2>2. myGames' = [myGames EXCEPT ![t] = new]
    BY <2>1, Zenon DEF OwnInv
  <2>3. PageRight(myGames[t], Account(t))
    BY DEF OwnInv
  <2>4. PageRight(new, Account(t)) /\ ListsOwn(new, myGames[t], Account(t))
    BY <2>1, <2>3, SnapshotRight DEF ListsOwn
  <2> HIDE DEF new
  <2> QED
    BY <1>2, <1>4, <2>2, <2>4 DEF Account
<1>5. ASSUME NEW t \in Tabs, NEW u, Session(t, u)
      PROVE  Kept
  <2> DEFINE new == MyGamesFor(myGames[t], u)
  <2>1. session' = [session EXCEPT ![t] = u] /\ myGames' = [myGames EXCEPT ![t] = new]
    BY <1>5 DEF Session
  <2>2. PageRight(myGames[t], Account(t))
    BY DEF OwnInv
  <2>3. PageRight(new, u) /\ ListsOwn(new, myGames[t], u)
    BY <2>2, MyGamesForRight DEF ListsOwn
  <2> HIDE DEF new
  <2> QED
    BY <1>2, <2>1, <2>3
<1>6. \A t \in Tabs : \A u : PageRight(ClosedMyGames, u) /\ ListsOwn(ClosedMyGames, myGames[t], u)
  BY ClosedPageRight DEF ListsOwn, ClosedMyGames
<1>7. ASSUME NEW t \in Tabs, NEW u, (session' = session /\ u = session[t]) \/ session' = [session EXCEPT ![t] = u],
             myGames' = [myGames EXCEPT ![t] = ClosedMyGames]
      PROVE  Kept
  BY <1>2, <1>6, <1>7
<1> QED
  BY <1>1, <1>3, <1>4, <1>5, <1>7, MyGamesSteps DEF Kept

\* Whatever comes into the list of created games is of the account signed in then: however
\* late the database sends what a tab watches, and whichever tab the account was changed in.
THEOREM OwnGamesShownHolds == Spec => OwnGamesShown
<1>1. Init => OwnInv
  <2> SUFFICES ASSUME Init PROVE OwnInv
    OBVIOUS
  <2>1. PICK s \in Scenarios :
          BrowserInit(s.auth, s.plan, FormerTaps(s.games)) /\ MyListsInit
    BY DEF Init
  <2>2. session = [t \in Tabs |-> session[t]]
    BY <2>1 DEF BrowserInit
  <2>3. myGames = [t \in Tabs |-> ClosedMyGames]
    BY <2>1 DEF MyListsInit
  <2> QED
    BY <2>2, <2>3, ClosedPageRight DEF OwnInv
<1>2. OwnInv /\ [Next]_vars => OwnInv'
  BY OwnInvKept
<1> DEFINE Shows1 ==
      \A t \in Tabs :
          /\ myGames'[t].shown # myGames[t].shown =>
                \A i \in myGames'[t].shown : games[i].createdBy = session'[t]
          /\ session'[t] = Nobody => myGames'[t].shown = {}
<1>3. OwnInv /\ [Next]_vars => [Shows1]_vars
  <2> SUFFICES ASSUME OwnInv, [Next]_vars PROVE Shows1
    OBVIOUS
  <2>1. OwnInv' /\ \A q \in Tabs : ListsOwn(myGames'[q], myGames[q], session'[q])
    BY OwnInvKept
  <2>2. ASSUME NEW t \in Tabs, myGames'[t].shown # myGames[t].shown, NEW i \in myGames'[t].shown
        PROVE  games[i].createdBy = session'[t]
    BY <2>1, <2>2 DEF ListsOwn, CreatedBy
  <2>3. ASSUME NEW t \in Tabs, session'[t] = Nobody
        PROVE  myGames'[t].shown = {}
    BY <2>1, <2>3 DEF OwnInv, PageRight, Account
  <2> QED
    BY <2>2, <2>3
<1> QED
  BY <1>1, <1>2, <1>3, PTL DEF Spec, OwnGamesShown

-----------------------------------------------------------------------------
(***************************************************************************)
(* Drafts.  The invariant NewGameInv, and OrganizeInv for the other page,  *)
(* says that what a browser has under the draft's key restores to what was *)
(* entered there last and not created since, whatever tab it was entered   *)
(* in, unless a game that was created from other input dropped it.         *)
(***************************************************************************)

NewGameInputs == [form : NewGameForms, lost : BOOLEAN]

\* What is left of the input.
FormLeft(e) == IF e.lost THEN BlankNewGame ELSE e.form

IsNewGame(pg) ==
    /\ pg = [alive |-> pg.alive, form |-> pg.form, submitting |-> pg.submitting,
             awaits |-> pg.awaits, told |-> pg.told]
    /\ pg.form \in NewGameForms

NewGamePages ==
    /\ newGame = [t \in Tabs |-> newGame[t]]
    /\ \A t \in Tabs : IsNewGame(newGame[t])

NewGameDrafts ==
    /\ newGameDraft \in [Devices -> NewGameForms \cup {NoDraft}]
    /\ newGameEntered \in [Devices -> NewGameInputs]
    /\ \A d \in Devices : Restored(newGameDraft[d]) = FormLeft(newGameEntered[d])

NewGameInv == NewGamePages /\ NewGameDrafts

NewGameKeepsInput ==
    \A t \in Tabs :
        newGame'[t].alive /\ ~newGame[t].alive =>
            newGame'[t].form = FormLeft(newGameEntered[DeviceOf[t]])

-----------------------------------------------------------------------------
(***************************************************************************)
(* The new-game page.                                                      *)
(***************************************************************************)

\* What may be left of a page without its starting anew.
Later(pg, old) == IsNewGame(pg) /\ (pg.alive => old.alive)

LEMMA ClosedIsNewGame == IsNewGame(ClosedNewGame) /\ ~ClosedNewGame.alive
BY DEF IsNewGame, ClosedNewGame, BlankNewGame, NewGameForms, Texts

\* One field of a page changes.
LEMMA NewGameFieldSet ==
    ASSUME NEW pg, IsNewGame(pg), NEW x
    PROVE  /\ IsNewGame([pg EXCEPT !.submitting = x]) /\ [pg EXCEPT !.submitting = x].alive = pg.alive
           /\ IsNewGame([pg EXCEPT !.awaits = x]) /\ [pg EXCEPT !.awaits = x].alive = pg.alive
           /\ IsNewGame([pg EXCEPT !.told = x]) /\ [pg EXCEPT !.told = x].alive = pg.alive
           /\ IsNewGame([pg EXCEPT !.alive = x])
           /\ x \in NewGameForms =>
                 /\ IsNewGame([pg EXCEPT !.form = x]) /\ [pg EXCEPT !.form = x].alive = pg.alive
                 /\ [pg EXCEPT !.form = x].form = x
<1>1. PICK alive, form, submitting, awaits, told :
        /\ pg = [alive |-> alive, form |-> form, submitting |-> submitting,
                 awaits |-> awaits, told |-> told]
        /\ form \in NewGameForms
  BY DEF IsNewGame
<1>2. /\ [pg EXCEPT !.alive = x] = [alive |-> x, form |-> form, submitting |-> submitting,
                                    awaits |-> awaits, told |-> told]
      /\ [pg EXCEPT !.submitting = x] = [alive |-> alive, form |-> form, submitting |-> x,
                                         awaits |-> awaits, told |-> told]
      /\ [pg EXCEPT !.awaits = x] = [alive |-> alive, form |-> form, submitting |-> submitting,
                                     awaits |-> x, told |-> told]
      /\ [pg EXCEPT !.told = x] = [alive |-> alive, form |-> form, submitting |-> submitting,
                                   awaits |-> awaits, told |-> x]
      /\ [pg EXCEPT !.form = x] = [alive |-> alive, form |-> x, submitting |-> submitting,
                                   awaits |-> awaits, told |-> told]
  BY <1>1
<1> QED
  BY <1>1, <1>2 DEF IsNewGame

LEMMA OpenedIsNewGame ==
    ASSUME NEW form \in NewGameForms
    PROVE  /\ IsNewGame([ClosedNewGame EXCEPT !.alive = TRUE, !.form = form])
           /\ [ClosedNewGame EXCEPT !.alive = TRUE, !.form = form].form = form
<1>1. PICK half : half = [ClosedNewGame EXCEPT !.alive = TRUE]
  OBVIOUS
<1>2. IsNewGame(half)
  BY <1>1, ClosedIsNewGame, NewGameFieldSet
<1>3. [ClosedNewGame EXCEPT !.alive = TRUE, !.form = form] = [half EXCEPT !.form = form]
  BY <1>1
<1>4. IsNewGame([half EXCEPT !.form = form]) /\ [half EXCEPT !.form = form].form = form
  BY <1>2, NewGameFieldSet
<1> QED
  BY <1>3, <1>4

LEMMA LaterFieldSet ==
    ASSUME NEW pg, NEW old, Later(pg, old), NEW x
    PROVE  /\ Later([pg EXCEPT !.submitting = x], old)
           /\ Later([pg EXCEPT !.awaits = x], old)
           /\ Later([pg EXCEPT !.told = x], old)
BY NewGameFieldSet DEF Later

LEMMA NoLongerSubmittingLater ==
    ASSUME NEW pg, IsNewGame(pg), NEW c
    PROVE  Later(NoLongerSubmitting(pg, c), pg)
BY NewGameFieldSet DEF Later, NoLongerSubmitting

\* A step that leaves the draft alone, and no page starts anew.
Stays ==
    /\ UNCHANGED <<newGameDraft, newGameEntered>>
    /\ \/ UNCHANGED newGame
       \/ \E t \in Tabs : \E pg : newGame' = [newGame EXCEPT ![t] = pg] /\ Later(pg, newGame[t])

LEMMA StaysKept ==
    ASSUME NewGameInv, Stays
    PROVE  NewGameInv' /\ NewGameKeepsInput
<1>1. NewGameDrafts'
  BY DEF NewGameInv, NewGameDrafts, Stays
<1>2. CASE UNCHANGED newGame
  BY <1>1, <1>2 DEF NewGameInv, NewGamePages, NewGameKeepsInput
<1>3. CASE \E t \in Tabs : \E pg : newGame' = [newGame EXCEPT ![t] = pg] /\ Later(pg, newGame[t])
  <2>0. PICK t \in Tabs : \E pg : newGame' = [newGame EXCEPT ![t] = pg] /\ Later(pg, newGame[t])
    BY <1>3
  <2>1. PICK pg : newGame' = [newGame EXCEPT ![t] = pg] /\ Later(pg, newGame[t])
    BY <2>0
  <2>2. newGame' = [q \in Tabs |-> newGame'[q]]
    BY <2>1 DEF NewGameInv, NewGamePages
  <2>3. \A q \in Tabs : newGame'[q] = IF q = t THEN pg ELSE newGame[q]
    BY <2>1 DEF NewGameInv, NewGamePages
  <2> QED
    BY <1>1, <2>1, <2>2, <2>3 DEF NewGameInv, NewGamePages, NewGameKeepsInput, Later
<1> QED
  BY <1>2, <1>3 DEF Stays

LEMMA RestoredIsForm ==
    ASSUME NEW draft \in NewGameForms \cup {NoDraft}
    PROVE  /\ Restored(draft) \in NewGameForms
           /\ draft # NoDraft => Restored(draft) = draft
           /\ Restored(NoDraft) = BlankNewGame
BY DEF Restored, BlankNewGame, NewGameForms, Texts

\* The draft of one browser changes, and what was entered there with it.
LEMMA DraftReplaced ==
    ASSUME NewGameDrafts, NEW d \in Devices, NEW draft \in NewGameForms \cup {NoDraft},
           NEW e \in NewGameInputs, Restored(draft) = FormLeft(e),
           newGameDraft' = [newGameDraft EXCEPT ![d] = draft],
           newGameEntered' = [newGameEntered EXCEPT ![d] = e]
    PROVE  NewGameDrafts'
BY DEF NewGameDrafts

LEMMA ShowNewGameKept ==
    ASSUME NewGameInv, NEW t \in Tabs, ShowNewGame(t)
    PROVE  NewGameInv' /\ NewGameKeepsInput
<1>1. CASE newGame[t].alive
  <2>1. Stays
    BY <1>1 DEF ShowNewGame, Stays
  <2> QED
    BY <2>1, StaysKept
<1>2. CASE ~newGame[t].alive
  <2> DEFINE d == DeviceOf[t]
             form == Restored(newGameDraft[d])
             pg == [ClosedNewGame EXCEPT !.alive = TRUE, !.form = form]
  <2>1. /\ newGame' = [newGame EXCEPT ![t] = pg]
        /\ newGameDraft' = [newGameDraft EXCEPT ![d] = form]
        /\ newGameEntered' = newGameEntered
    BY <1>2 DEF ShowNewGame
  <2>2. /\ d \in Devices /\ form \in NewGameForms
        /\ newGameEntered[d] \in NewGameInputs /\ FormLeft(newGameEntered[d]) = form
    BY BrowserAssumption, RestoredIsForm DEF NewGameInv, NewGameDrafts
  <2>3. Restored(form) = form
    BY <2>2, RestoredIsForm, OrganizingAssumption
  <2>4. newGameEntered' = [newGameEntered EXCEPT ![d] = newGameEntered[d]]
    BY <2>1, <2>2 DEF NewGameInv, NewGameDrafts
  <2>5. NewGameDrafts'
    BY <2>1, <2>2, <2>3, <2>4, DraftReplaced DEF NewGameInv
  <2>6. pg.form = form /\ IsNewGame(pg)
    <3> HIDE DEF form
    <3> QED
      BY <2>2, OpenedIsNewGame
  <2> HIDE DEF pg
  <2>7. /\ newGame' = [q \in Tabs |-> newGame'[q]]
        /\ \A q \in Tabs : newGame'[q] = IF q = t THEN pg ELSE newGame[q]
    BY <2>1 DEF NewGameInv, NewGamePages
  <2> QED
    BY <2>2, <2>5, <2>6, <2>7 DEF NewGameInv, NewGamePages, NewGameKeepsInput
<1> QED
  BY <1>1, <1>2

LEMMA EditNewGameKept ==
    ASSUME NewGameInv, NEW t \in Tabs, NEW f \in NewGameFields, NEW v \in Texts, EditNewGame(t, f, v)
    PROVE  NewGameInv' /\ NewGameKeepsInput
<1> DEFINE d == DeviceOf[t]
           form == [newGame[t].form EXCEPT ![f] = v]
           pg == [newGame[t] EXCEPT !.form = form]
<1>1. IsNewGame(newGame[t]) /\ newGame[t].form \in NewGameForms
  BY DEF NewGameInv, NewGamePages, IsNewGame
<1>2. form \in NewGameForms
  BY <1>1 DEF NewGameForms
<1> HIDE DEF form
<1>3. IsNewGame(pg) /\ pg.alive = newGame[t].alive /\ pg.form = form
  BY <1>1, <1>2, NewGameFieldSet
<1>4. newGame' = [newGame EXCEPT ![t] = pg]
  BY Zenon DEF EditNewGame, form
<1> HIDE DEF pg
<1>5. /\ newGame' = [q \in Tabs |-> newGame'[q]]
      /\ \A q \in Tabs : newGame'[q] = IF q = t THEN pg ELSE newGame[q]
  BY <1>4 DEF NewGameInv, NewGamePages
<1>6. /\ newGameDraft' = [newGameDraft EXCEPT ![d] = form]
      /\ newGameEntered' = [newGameEntered EXCEPT ![d] = [form |-> form, lost |-> FALSE]]
  BY <1>3, <1>5 DEF EditNewGame
<1>7. /\ d \in Devices /\ Restored(form) = form
      /\ [form |-> form, lost |-> FALSE] \in NewGameInputs /\ FormLeft([form |-> form, lost |-> FALSE]) = form
  BY <1>2, BrowserAssumption, RestoredIsForm, OrganizingAssumption DEF NewGameInputs, FormLeft
<1>8. NewGameDrafts'
  BY <1>2, <1>6, <1>7, DraftReplaced DEF NewGameInv
<1> QED
  BY <1>3, <1>5, <1>8 DEF NewGameInv, NewGamePages, NewGameKeepsInput

LEMMA NewGameCreatedKept ==
    ASSUME NewGameInv, NEW t \in Tabs, NEW c, NewGameCreated(t, c)
    PROVE  NewGameInv' /\ NewGameKeepsInput
<1> DEFINE d == DeviceOf[t]
           told == IF newGame[t].awaits = c.no THEN "created" ELSE newGame[t].told
           pg == [newGame[t] EXCEPT !.told = told]
<1>1. IsNewGame(newGame[t])
  BY DEF NewGameInv, NewGamePages
<1>2. IsNewGame(pg) /\ pg.alive = newGame[t].alive
  <2> HIDE DEF told
  <2> QED
    BY <1>1, NewGameFieldSet
<1>3. newGame' = [newGame EXCEPT ![t] = pg]
  BY Zenon DEF NewGameCreated
<1> HIDE DEF pg
<1>4. /\ newGame' = [q \in Tabs |-> newGame'[q]]
      /\ \A q \in Tabs : newGame'[q] = IF q = t THEN pg ELSE newGame[q]
  BY <1>3 DEF NewGameInv, NewGamePages
<1>5. PICK e : e = IF WasTapped(t, c.no, newGameEntered[d].form) THEN [form |-> BlankNewGame, lost |-> FALSE]
                   ELSE [newGameEntered[d] EXCEPT !.lost = TRUE]
  OBVIOUS
<1>6. /\ newGameDraft' = [newGameDraft EXCEPT ![d] = NoDraft]
      /\ newGameEntered' = [newGameEntered EXCEPT ![d] = e]
  BY <1>5, Zenon DEF NewGameCreated
<1>7. d \in Devices /\ Restored(NoDraft) = BlankNewGame /\ BlankNewGame \in NewGameForms
  BY BrowserAssumption, RestoredIsForm
<1>8. e \in NewGameInputs /\ FormLeft(e) = BlankNewGame
  <2>1. newGameEntered[d] \in NewGameInputs
    BY <1>7 DEF NewGameInv, NewGameDrafts
  <2> QED
    BY <1>5, <1>7, <2>1 DEF NewGameInputs, FormLeft
<1>9. NewGameDrafts'
  BY <1>6, <1>7, <1>8, DraftReplaced DEF NewGameInv
<1> QED
  BY <1>2, <1>4, <1>9 DEF NewGameInv, NewGamePages, NewGameKeepsInput

\* The page is shown, edited, or its game created; nothing else touches the draft or
\* starts a page anew.
LEMMA NewGameSteps ==
    ASSUME NewGameInv, [Next]_vars
    PROVE  \/ Stays
           \/ \E t \in Tabs : ShowNewGame(t)
           \/ \E t \in Tabs, f \in NewGameFields, v \in Texts : EditNewGame(t, f, v)
           \/ \E t \in Tabs, c \in calls : NewGameCreated(t, c)
<1>1. ASSUME NEW t \in Tabs PROVE IsNewGame(newGame[t])
  BY DEF NewGameInv, NewGamePages
<1>2. ASSUME UNCHANGED newGameVars PROVE Stays
  BY <1>2 DEF newGameVars, Stays
<1>3. ASSUME NEW t \in Tabs, UNCHANGED <<newGameDraft, newGameEntered>>,
             newGame' = [newGame EXCEPT ![t] = ClosedNewGame]
      PROVE  Stays
  BY <1>3, ClosedIsNewGame DEF Stays, Later
<1>4. CASE Serving \/ Failing \/ TakingPart \/ Watching \/ UNCHANGED vars
  BY <1>2, <1>4 DEF Serving, Failing, TakingPart, Watching, vars, pages
<1>5. CASE Using
  <2>1. PICK t \in Tabs : NewGameUser(t) \/ UNCHANGED newGameVars
    BY <1>5 DEF Using
  <2>2. CASE SignInFromNewGame(t) \/ CreateNewGameSignedOut(t) \/ UNCHANGED newGameVars
    BY <1>2, <2>2 DEF SignInFromNewGame, CreateNewGameSignedOut, newGameVars
  <2>3. CASE CreateNewGame(t)
    <3>1. PICK half : half = [newGame[t] EXCEPT !.submitting = TRUE]
      OBVIOUS
    <3>2. PICK sent : sent = [half EXCEPT !.awaits = plan[t].calls]
      OBVIOUS
    <3>3. PICK pg : pg = [sent EXCEPT !.told = "nothing"]
      OBVIOUS
    <3>4. Later(pg, newGame[t])
      <4>1. Later(newGame[t], newGame[t])
        BY <1>1 DEF Later
      <4>2. Later(half, newGame[t])
        BY <3>1, <4>1, LaterFieldSet
      <4>3. Later(sent, newGame[t])
        BY <3>2, <4>2, LaterFieldSet
      <4> QED
        BY <3>3, <4>3, LaterFieldSet
    <3>5. newGame' = [newGame EXCEPT ![t] = pg]
      BY <2>3, <3>1, <3>2, <3>3, Zenon DEF CreateNewGame
    <3> QED
      BY <2>3, <3>4, <3>5 DEF CreateNewGame, Stays
  <2> QED
    BY <2>1, <2>2, <2>3 DEF NewGameUser
<1>6. CASE Receiving
  <2>1. PICK t \in Tabs, c \in calls :
          \/ NewGameCreated(t, c) \/ NewGameFails(t, c) \/ NewGameLeft(t, c) \/ UNCHANGED newGameVars
    BY <1>6 DEF Receiving, Land, MyListsReceive
  <2>2. CASE NewGameFails(t, c)
    <3>1. PICK half : half = NoLongerSubmitting(newGame[t], c)
      OBVIOUS
    <3>2. PICK told : told = IF newGame[t].awaits = c.no THEN "failed" ELSE newGame[t].told
      OBVIOUS
    <3>3. PICK pg : pg = [half EXCEPT !.told = told]
      OBVIOUS
    <3>4. Later(pg, newGame[t])
      <4>1. Later(half, newGame[t])
        BY <1>1, <3>1, NoLongerSubmittingLater
      <4> QED
        BY <3>3, <4>1, LaterFieldSet
    <3>5. newGame' = [newGame EXCEPT ![t] = pg]
      BY <2>2, <3>1, <3>2, <3>3, Zenon DEF NewGameFails
    <3> QED
      BY <2>2, <3>4, <3>5 DEF NewGameFails, Stays
  <2>3. CASE NewGameLeft(t, c)
    <3>1. newGame' = [newGame EXCEPT ![t] = NoLongerSubmitting(newGame[t], c)]
      BY <2>3 DEF NewGameLeft
    <3> QED
      BY <1>1, <2>3, <3>1, NoLongerSubmittingLater DEF NewGameLeft, Stays
  <2> QED
    BY <1>2, <2>1, <2>2, <2>3
<1>7. CASE Going
  <2>1. CASE \E t \in Tabs : Visit(t) \/ Return(t)
    BY <1>2, <2>1 DEF Visit, Return
  <2>2. CASE \E t \in Tabs : Close(t)
    <3>1. PICK t \in Tabs : Close(t)
      BY <2>2
    <3>2. UNCHANGED newGame \/ newGame' = [newGame EXCEPT ![t] = ClosedNewGame]
      BY <3>1 DEF Close
    <3>3. UNCHANGED <<newGameDraft, newGameEntered>>
      BY <3>1 DEF Close
    <3> QED
      BY <1>3, <3>2, <3>3 DEF Stays
  <2>3. CASE \E t \in Tabs : Reload(t)
    BY <1>3, <2>3 DEF Reload
  <2>4. CASE \/ \E t \in Tabs, u \in Users : SignIn(t, u)
             \/ \E t \in Tabs : SignOut(t) \/ Learn(t)
    BY <1>2, <2>4 DEF SignIn, SignOut, Learn, Session
  <2> QED
    BY <1>7, <2>1, <2>2, <2>3, <2>4 DEF Going
<1> QED
  BY <1>4, <1>5, <1>6, <1>7 DEF Next

LEMMA NewGameKept ==
    ASSUME NewGameInv, [Next]_vars
    PROVE  NewGameInv' /\ NewGameKeepsInput
BY NewGameSteps, StaysKept, ShowNewGameKept, EditNewGameKept, NewGameCreatedKept
-----------------------------------------------------------------------------
(***************************************************************************)
(* The organize-game page.                                                 *)
(***************************************************************************)

OrganizeInputs == [entered : OrganizeForms, lost : BOOLEAN]

\* What is left of the input.
EntriesLeft(e) == IF e.lost THEN BlankOrganize ELSE Drafted(e.entered)

IsOrganize(pg) ==
    /\ pg = [alive |-> pg.alive, entered |-> pg.entered, typed |-> pg.typed,
             submitting |-> pg.submitting, awaits |-> pg.awaits, told |-> pg.told]
    /\ pg.entered \in OrganizeForms
    /\ pg.typed \in Texts

OrganizePages ==
    /\ organize = [t \in Tabs |-> organize[t]]
    /\ \A t \in Tabs : IsOrganize(organize[t])

OrganizeDrafts ==
    /\ organizeDraft \in [Devices -> OrganizeForms \cup {NoDraft}]
    /\ organizeEntered \in [Devices -> OrganizeInputs]
    /\ \A d \in Devices : Resumed(organizeDraft[d]) = EntriesLeft(organizeEntered[d])

OrganizeInv == OrganizePages /\ OrganizeDrafts

OrganizeKeepsInput ==
    \A t \in Tabs :
        organize'[t].alive /\ ~organize[t].alive =>
            organize'[t].entered = EntriesLeft(organizeEntered[DeviceOf[t]])

\* What may be left of this page without its starting anew.
LaterPage(pg, old) == IsOrganize(pg) /\ (pg.alive => old.alive)

LEMMA BlankOrganizeIsForm ==
    BlankOrganize \in OrganizeForms /\ Drafted(BlankOrganize) = BlankOrganize
<1>1. BlankOrganize \in OrganizeForms
  BY DEF BlankOrganize, OrganizeForms, Texts
<1>2. BlankOrganize.form = [f \in OrganizeFields |-> Blank] /\ BlankOrganize.rows = << >>
  BY DEF BlankOrganize
<1>3. [BlankOrganize.form EXCEPT !["weekly"] = Blank] = BlankOrganize.form
  BY <1>2 DEF OrganizeFields
<1>4. [BlankOrganize EXCEPT !.form["weekly"] = Blank] = BlankOrganize
  BY <1>1, <1>3 DEF OrganizeForms
<1> QED
  BY <1>1, <1>4 DEF Drafted

\* A draft is what the page shows, but for what is hidden; and is its own draft.
LEMMA DraftedIsForm ==
    ASSUME NEW entered \in OrganizeForms
    PROVE  Drafted(entered) \in OrganizeForms /\ Drafted(Drafted(entered)) = Drafted(entered)
<1>1. CASE entered.form["repeats"] # Blank
  BY <1>1 DEF Drafted
<1>2. CASE entered.form["repeats"] = Blank
  <2> DEFINE form == [entered.form EXCEPT !["weekly"] = Blank]
             new == [form |-> form, rows |-> entered.rows]
  <2>1. entered.form \in [OrganizeFields -> Texts] /\ entered.rows \in Seq(Inputs)
    BY DEF OrganizeForms
  <2>2. /\ form \in [OrganizeFields -> Texts] /\ form["repeats"] = Blank
        /\ form["weekly"] = Blank
    BY <1>2, <2>1 DEF OrganizeFields, Texts
  <2>3. [form EXCEPT !["weekly"] = Blank] = form
    BY <2>2
  <2>4. Drafted(entered) = new
    BY <1>2 DEF Drafted, OrganizeForms
  <2>5. new \in OrganizeForms
    BY <2>1, <2>2 DEF OrganizeForms
  <2>6. new.form = form
    OBVIOUS
  <2>7. [new EXCEPT !.form["weekly"] = Blank] = new
    BY <2>3
  <2>8. Drafted(new) = new
    BY <2>2, <2>6, <2>7 DEF Drafted
  <2> QED
    BY <2>4, <2>5, <2>8
<1> QED
  BY <1>1, <1>2

LEMMA EntriesLeftIsForm ==
    ASSUME NEW e \in OrganizeInputs
    PROVE  EntriesLeft(e) \in OrganizeForms /\ Drafted(EntriesLeft(e)) = EntriesLeft(e)
<1>1. e.entered \in OrganizeForms
  BY DEF OrganizeInputs
<1> QED
  BY <1>1, DraftedIsForm, BlankOrganizeIsForm DEF EntriesLeft

LEMMA ResumedIsForm ==
    ASSUME NEW draft \in OrganizeForms \cup {NoDraft}
    PROVE  /\ Resumed(draft) \in OrganizeForms
           /\ draft # NoDraft => Resumed(draft) = draft
           /\ Resumed(NoDraft) = BlankOrganize
BY BlankOrganizeIsForm DEF Resumed

LEMMA ClosedIsOrganize ==
    IsOrganize(ClosedOrganize) /\ ~ClosedOrganize.alive /\ ClosedOrganize.entered = BlankOrganize
BY BlankOrganizeIsForm DEF IsOrganize, ClosedOrganize, Texts

LEMMA OrganizeFieldSet ==
    ASSUME NEW pg, IsOrganize(pg), NEW x
    PROVE  /\ IsOrganize([pg EXCEPT !.alive = x])
           /\ IsOrganize([pg EXCEPT !.submitting = x]) /\ [pg EXCEPT !.submitting = x].alive = pg.alive
           /\ IsOrganize([pg EXCEPT !.awaits = x]) /\ [pg EXCEPT !.awaits = x].alive = pg.alive
           /\ IsOrganize([pg EXCEPT !.told = x]) /\ [pg EXCEPT !.told = x].alive = pg.alive
           /\ x \in Texts =>
                 IsOrganize([pg EXCEPT !.typed = x]) /\ [pg EXCEPT !.typed = x].alive = pg.alive
           /\ x \in OrganizeForms =>
                 /\ IsOrganize([pg EXCEPT !.entered = x]) /\ [pg EXCEPT !.entered = x].alive = pg.alive
                 /\ [pg EXCEPT !.entered = x].entered = x
<1>1. PICK alive, entered, typed, submitting, awaits, told :
        /\ pg = [alive |-> alive, entered |-> entered, typed |-> typed, submitting |-> submitting,
                 awaits |-> awaits, told |-> told]
        /\ entered \in OrganizeForms /\ typed \in Texts
  BY DEF IsOrganize
<1>2. /\ [pg EXCEPT !.alive = x] = [alive |-> x, entered |-> entered, typed |-> typed,
             submitting |-> submitting, awaits |-> awaits, told |-> told]
      /\ [pg EXCEPT !.submitting = x] = [alive |-> alive, entered |-> entered, typed |-> typed,
             submitting |-> x, awaits |-> awaits, told |-> told]
      /\ [pg EXCEPT !.awaits = x] = [alive |-> alive, entered |-> entered, typed |-> typed,
             submitting |-> submitting, awaits |-> x, told |-> told]
      /\ [pg EXCEPT !.told = x] = [alive |-> alive, entered |-> entered, typed |-> typed,
             submitting |-> submitting, awaits |-> awaits, told |-> x]
      /\ [pg EXCEPT !.typed = x] = [alive |-> alive, entered |-> entered, typed |-> x,
             submitting |-> submitting, awaits |-> awaits, told |-> told]
      /\ [pg EXCEPT !.entered = x] = [alive |-> alive, entered |-> x, typed |-> typed,
             submitting |-> submitting, awaits |-> awaits, told |-> told]
  BY <1>1
<1> QED
  BY <1>1, <1>2 DEF IsOrganize

LEMMA LaterPageFieldSet ==
    ASSUME NEW pg, NEW old, LaterPage(pg, old), NEW x
    PROVE  /\ LaterPage([pg EXCEPT !.submitting = x], old)
           /\ LaterPage([pg EXCEPT !.awaits = x], old)
           /\ LaterPage([pg EXCEPT !.told = x], old)
           /\ x \in Texts => LaterPage([pg EXCEPT !.typed = x], old)
           /\ x \in OrganizeForms => LaterPage([pg EXCEPT !.entered = x], old)
<1>1. IsOrganize(pg) /\ (pg.alive => old.alive)
  BY DEF LaterPage
<1>2. LaterPage([pg EXCEPT !.submitting = x], old)
  <2> PICK q : q = [pg EXCEPT !.submitting = x]
    OBVIOUS
  <2>1. IsOrganize(q) /\ q.alive = pg.alive
    BY <1>1, OrganizeFieldSet
  <2> QED
    BY <1>1, <2>1 DEF LaterPage
<1>3. LaterPage([pg EXCEPT !.awaits = x], old)
  <2> PICK q : q = [pg EXCEPT !.awaits = x]
    OBVIOUS
  <2>1. IsOrganize(q) /\ q.alive = pg.alive
    BY <1>1, OrganizeFieldSet
  <2> QED
    BY <1>1, <2>1 DEF LaterPage
<1>4. LaterPage([pg EXCEPT !.told = x], old)
  <2> PICK q : q = [pg EXCEPT !.told = x]
    OBVIOUS
  <2>1. IsOrganize(q) /\ q.alive = pg.alive
    BY <1>1, OrganizeFieldSet
  <2> QED
    BY <1>1, <2>1 DEF LaterPage
<1>5. ASSUME x \in Texts PROVE LaterPage([pg EXCEPT !.typed = x], old)
  <2> PICK q : q = [pg EXCEPT !.typed = x]
    OBVIOUS
  <2>1. IsOrganize(q) /\ q.alive = pg.alive
    BY <1>1, <1>5, OrganizeFieldSet
  <2> QED
    BY <1>1, <2>1 DEF LaterPage
<1>6. ASSUME x \in OrganizeForms PROVE LaterPage([pg EXCEPT !.entered = x], old)
  <2> PICK q : q = [pg EXCEPT !.entered = x]
    OBVIOUS
  <2>1. IsOrganize(q) /\ q.alive = pg.alive
    BY <1>1, <1>6, OrganizeFieldSet
  <2> QED
    BY <1>1, <2>1 DEF LaterPage
<1> QED
  BY <1>2, <1>3, <1>4, <1>5, <1>6

LEMMA OpenedIsOrganize ==
    ASSUME NEW entered \in OrganizeForms
    PROVE  /\ IsOrganize([ClosedOrganize EXCEPT !.alive = TRUE, !.entered = entered])
           /\ [ClosedOrganize EXCEPT !.alive = TRUE, !.entered = entered].entered = entered
<1>1. PICK half : half = [ClosedOrganize EXCEPT !.alive = TRUE]
  OBVIOUS
<1>2. IsOrganize(half)
  BY <1>1, ClosedIsOrganize, OrganizeFieldSet
<1>3. [ClosedOrganize EXCEPT !.alive = TRUE, !.entered = entered] = [half EXCEPT !.entered = entered]
  BY <1>1
<1>4. IsOrganize([half EXCEPT !.entered = entered]) /\ [half EXCEPT !.entered = entered].entered = entered
  BY <1>2, OrganizeFieldSet
<1> QED
  BY <1>3, <1>4

\* A step that leaves the draft alone, and no page starts anew.
StaysPage ==
    /\ UNCHANGED <<organizeDraft, organizeEntered>>
    /\ \/ UNCHANGED organize
       \/ \E t \in Tabs : \E pg : organize' = [organize EXCEPT ![t] = pg] /\ LaterPage(pg, organize[t])

\* One page moves on, without starting anew.
LEMMA PagesMoveOn ==
    ASSUME OrganizePages, NEW t \in Tabs, NEW pg, organize' = [organize EXCEPT ![t] = pg],
           LaterPage(pg, organize[t])
    PROVE  OrganizePages' /\ OrganizeKeepsInput
<1>1. /\ organize' = [q \in Tabs |-> organize'[q]]
      /\ \A q \in Tabs : organize'[q] = IF q = t THEN pg ELSE organize[q]
  BY DEF OrganizePages
<1> QED
  BY <1>1 DEF OrganizePages, OrganizeKeepsInput, LaterPage

LEMMA StaysPageKept ==
    ASSUME OrganizeInv, StaysPage
    PROVE  OrganizeInv' /\ OrganizeKeepsInput
<1>1. OrganizeDrafts'
  BY DEF OrganizeInv, OrganizeDrafts, StaysPage
<1>2. CASE UNCHANGED organize
  BY <1>1, <1>2 DEF OrganizeInv, OrganizePages, OrganizeKeepsInput
<1>3. CASE \E t \in Tabs : \E pg : organize' = [organize EXCEPT ![t] = pg] /\ LaterPage(pg, organize[t])
  BY <1>1, <1>3, PagesMoveOn DEF OrganizeInv
<1> QED
  BY <1>2, <1>3 DEF StaysPage

LEMMA OrganizeDraftReplaced ==
    ASSUME OrganizeDrafts, NEW d \in Devices, NEW draft \in OrganizeForms \cup {NoDraft},
           NEW e \in OrganizeInputs, Resumed(draft) = EntriesLeft(e),
           organizeDraft' = [organizeDraft EXCEPT ![d] = draft],
           organizeEntered' = [organizeEntered EXCEPT ![d] = e]
    PROVE  OrganizeDrafts'
BY DEF OrganizeDrafts

LEMMA ShowOrganizeKept ==
    ASSUME OrganizeInv, NEW t \in Tabs, ShowOrganize(t)
    PROVE  OrganizeInv' /\ OrganizeKeepsInput
<1>1. CASE organize[t].alive
  <2>1. StaysPage
    BY <1>1 DEF ShowOrganize, StaysPage
  <2> QED
    BY <2>1, StaysPageKept
<1>2. CASE ~organize[t].alive
  <2> DEFINE d == DeviceOf[t]
             entered == Resumed(organizeDraft[d])
             pg == [ClosedOrganize EXCEPT !.alive = TRUE, !.entered = entered]
  <2>1. /\ organize' = [organize EXCEPT ![t] = pg]
        /\ organizeDraft' = [organizeDraft EXCEPT ![d] = Drafted(entered)]
        /\ organizeEntered' = organizeEntered
    BY <1>2 DEF ShowOrganize
  <2>2. /\ d \in Devices
        /\ organizeEntered[d] \in OrganizeInputs /\ entered = EntriesLeft(organizeEntered[d])
    BY BrowserAssumption DEF OrganizeInv, OrganizeDrafts
  <2>3. entered \in OrganizeForms /\ Drafted(entered) = entered
    BY <2>2, EntriesLeftIsForm
  <2>4. organizeEntered' = [organizeEntered EXCEPT ![d] = organizeEntered[d]]
    BY <2>1, <2>2 DEF OrganizeInv, OrganizeDrafts
  <2>5. Resumed(entered) = entered
    BY <2>3, ResumedIsForm, OrganizingAssumption
  <2>6. OrganizeDrafts'
    BY <2>1, <2>2, <2>3, <2>4, <2>5, OrganizeDraftReplaced DEF OrganizeInv
  <2>7. pg.entered = entered /\ IsOrganize(pg)
    <3> HIDE DEF entered
    <3> QED
      BY <2>3, OpenedIsOrganize
  <2> HIDE DEF pg
  <2>8. /\ organize' = [q \in Tabs |-> organize'[q]]
        /\ \A q \in Tabs : organize'[q] = IF q = t THEN pg ELSE organize[q]
    BY <2>1 DEF OrganizeInv, OrganizePages
  <2> QED
    BY <2>2, <2>6, <2>7, <2>8 DEF OrganizeInv, OrganizePages, OrganizeKeepsInput
<1> QED
  BY <1>1, <1>2

\* The form is changed: the draft is, too.
LEMMA EntersKept ==
    ASSUME OrganizeInv, NEW t \in Tabs, NEW pg, LaterPage(pg, organize[t]), Enters(t, pg)
    PROVE  OrganizeInv' /\ OrganizeKeepsInput
<1> DEFINE d == DeviceOf[t]
           draft == Drafted(pg.entered)
           e == [entered |-> pg.entered, lost |-> FALSE]
<1>1. /\ organizeDraft' = [organizeDraft EXCEPT ![d] = draft]
      /\ organizeEntered' = [organizeEntered EXCEPT ![d] = e]
      /\ organize' = [organize EXCEPT ![t] = pg]
  BY DEF Enters
<1>2. pg.entered \in OrganizeForms
  BY DEF LaterPage, IsOrganize
<1>3. e \in OrganizeInputs /\ EntriesLeft(e) = draft
  BY <1>2 DEF OrganizeInputs, EntriesLeft
<1>4. draft \in OrganizeForms
  BY <1>2, DraftedIsForm
<1> HIDE DEF draft, e
<1>5. Resumed(draft) = draft /\ d \in Devices
  BY <1>4, BrowserAssumption, OrganizingAssumption, ResumedIsForm
<1>6. OrganizeDrafts'
  BY <1>1, <1>3, <1>4, <1>5, OrganizeDraftReplaced DEF OrganizeInv
<1> QED
  BY <1>1, <1>6, PagesMoveOn DEF OrganizeInv

LEMMA WithoutRow ==
    ASSUME NEW rows \in Seq(Inputs), NEW i \in DOMAIN rows
    PROVE  Without(rows, i) \in Seq(Inputs)
<1>1. i \in 1 .. Len(rows) /\ Len(rows) \in Nat
  OBVIOUS
<1>2. \A j \in 1 .. i - 1 : rows[j] \in Inputs
  BY <1>1
<1>3. SubSeq(rows, 1, i - 1) \in Seq(Inputs)
  BY <1>1, <1>2, SubSeqProperties
<1>4. \A j \in i + 1 .. Len(rows) : rows[j] \in Inputs
  BY <1>1
<1>5. SubSeq(rows, i + 1, Len(rows)) \in Seq(Inputs)
  BY <1>1, <1>4, SubSeqProperties
<1> QED
  BY <1>3, <1>5, ConcatProperties DEF Without

LEMMA EditsKept ==
    ASSUME OrganizeInv, NEW t \in Tabs,
           \/ \E f \in OrganizeFields, v \in Texts : EditOrganize(t, f, v)
           \/ AddRow(t)
           \/ \E i \in 1 .. MaxRows : RemoveRow(t, i)
    PROVE  OrganizeInv' /\ OrganizeKeepsInput
<1> DEFINE old == organize[t].entered
<1>1. /\ LaterPage(organize[t], organize[t]) /\ organize[t].typed \in Texts
      /\ old \in OrganizeForms /\ old.form \in [OrganizeFields -> Texts] /\ old.rows \in Seq(Inputs)
  BY DEF OrganizeInv, OrganizePages, IsOrganize, LaterPage, OrganizeForms
<1>2. ASSUME NEW f \in OrganizeFields, NEW v \in Texts, EditOrganize(t, f, v)
      PROVE  OrganizeInv' /\ OrganizeKeepsInput
  <2>1. PICK entered : entered = [old EXCEPT !.form[f] = v]
    OBVIOUS
  <2>2. entered \in OrganizeForms
    BY <1>1, <2>1 DEF OrganizeForms
  <2>3. PICK pg : pg = [organize[t] EXCEPT !.entered = entered]
    OBVIOUS
  <2>4. LaterPage(pg, organize[t])
    BY <1>1, <2>2, <2>3, LaterPageFieldSet
  <2>5. Enters(t, pg)
    BY <1>2, <2>1, <2>3, Zenon DEF EditOrganize
  <2> QED
    BY <2>4, <2>5, EntersKept
<1>3. ASSUME AddRow(t)
      PROVE  OrganizeInv' /\ OrganizeKeepsInput
  <2>1. PICK entered : entered = [old EXCEPT !.rows = Append(old.rows, organize[t].typed)]
    OBVIOUS
  <2>2. entered \in OrganizeForms
    <3>1. organize[t].typed \in Inputs
      BY <1>1, <1>3 DEF AddRow, Texts
    <3>2. Append(old.rows, organize[t].typed) \in Seq(Inputs)
      BY <1>1, <3>1, AppendProperties
    <3> QED
      BY <1>1, <2>1, <3>2 DEF OrganizeForms
  <2>3. PICK half : half = [organize[t] EXCEPT !.entered = entered]
    OBVIOUS
  <2>4. PICK pg : pg = [half EXCEPT !.typed = Blank]
    OBVIOUS
  <2>5. LaterPage(pg, organize[t])
    <3>1. LaterPage(half, organize[t])
      BY <1>1, <2>2, <2>3, LaterPageFieldSet
    <3> QED
      BY <2>4, <3>1, LaterPageFieldSet DEF Texts
  <2>6. Enters(t, pg)
    BY <1>3, <2>1, <2>3, <2>4, Zenon DEF AddRow
  <2> QED
    BY <2>5, <2>6, EntersKept
<1>4. ASSUME NEW i, RemoveRow(t, i)
      PROVE  OrganizeInv' /\ OrganizeKeepsInput
  <2>1. PICK entered : entered = [old EXCEPT !.rows = Without(old.rows, i)]
    OBVIOUS
  <2>2. entered \in OrganizeForms
    <3>1. Without(old.rows, i) \in Seq(Inputs)
      BY <1>1, <1>4, WithoutRow DEF RemoveRow
    <3> QED
      BY <1>1, <2>1, <3>1 DEF OrganizeForms
  <2>3. PICK pg : pg = [organize[t] EXCEPT !.entered = entered]
    OBVIOUS
  <2>4. LaterPage(pg, organize[t])
    BY <1>1, <2>2, <2>3, LaterPageFieldSet
  <2>5. Enters(t, pg)
    BY <1>4, <2>1, <2>3, Zenon DEF RemoveRow
  <2> QED
    BY <2>4, <2>5, EntersKept
<1> QED
  BY <1>2, <1>3, <1>4

LEMMA OrganizedKept ==
    ASSUME OrganizeInv, NEW t \in Tabs, NEW c, Organized(t, c)
    PROVE  OrganizeInv' /\ OrganizeKeepsInput
<1> DEFINE old == organize[t]
<1>1. LaterPage(old, old)
  BY DEF OrganizeInv, OrganizePages, LaterPage
<1>2. PICK gone : gone = [ClosedOrganize EXCEPT !.awaits = c.no, !.told = "created"]
  OBVIOUS
<1>3. PICK left : left = [old EXCEPT !.submitting = FALSE, !.told = "created"]
  OBVIOUS
<1>4. LaterPage(gone, old)
  <2>1. LaterPage(ClosedOrganize, old)
    BY ClosedIsOrganize DEF LaterPage
  <2>2. PICK half : half = [ClosedOrganize EXCEPT !.awaits = c.no]
    OBVIOUS
  <2>3. gone = [half EXCEPT !.told = "created"]
    BY <1>2, <2>2, Zenon
  <2>4. LaterPage(half, old)
    BY <2>1, <2>2, LaterPageFieldSet
  <2> QED
    BY <2>3, <2>4, LaterPageFieldSet
<1>5. LaterPage(left, old)
  <2>1. PICK half : half = [old EXCEPT !.submitting = FALSE]
    OBVIOUS
  <2>2. left = [half EXCEPT !.told = "created"]
    BY <1>3, <2>1, Zenon
  <2>3. LaterPage(half, old)
    BY <1>1, <2>1, LaterPageFieldSet
  <2> QED
    BY <2>2, <2>3, LaterPageFieldSet
<1>6. PICK pg : pg = IF Shows(t, "organize") THEN gone ELSE IF old.awaits = c.no THEN left ELSE old
  OBVIOUS
<1>7. organize' = [organize EXCEPT ![t] = pg]
  BY <1>2, <1>3, <1>6, Zenon DEF Organized
<1>8. LaterPage(pg, old)
  BY <1>1, <1>4, <1>5, <1>6
<1>9. OrganizeDrafts'
  <2> DEFINE d == DeviceOf[t]
  <2>1. PICK e : e = IF WasTapped(t, c.no, organizeEntered[d].entered)
                     THEN [entered |-> BlankOrganize, lost |-> FALSE]
                     ELSE [organizeEntered[d] EXCEPT !.lost = TRUE]
    OBVIOUS
  <2>2. /\ organizeDraft' = [organizeDraft EXCEPT ![d] = NoDraft]
        /\ organizeEntered' = [organizeEntered EXCEPT ![d] = e]
    BY <2>1, Zenon DEF Organized
  <2>3. /\ d \in Devices /\ Resumed(NoDraft) = BlankOrganize
        /\ BlankOrganize \in OrganizeForms /\ Drafted(BlankOrganize) = BlankOrganize
    BY BrowserAssumption, ResumedIsForm, BlankOrganizeIsForm
  <2>4. e \in OrganizeInputs /\ EntriesLeft(e) = BlankOrganize
    <3>1. organizeEntered[d] \in OrganizeInputs
      BY <2>3 DEF OrganizeInv, OrganizeDrafts
    <3>2. CASE WasTapped(t, c.no, organizeEntered[d].entered)
      BY <2>1, <2>3, <3>2 DEF OrganizeInputs, EntriesLeft, Texts
    <3>3. CASE ~WasTapped(t, c.no, organizeEntered[d].entered)
      BY <2>1, <3>1, <3>3 DEF OrganizeInputs, EntriesLeft
    <3> QED
      BY <3>2, <3>3
  <2> QED
    BY <2>2, <2>3, <2>4, OrganizeDraftReplaced DEF OrganizeInv
<1> QED
  BY <1>7, <1>8, <1>9, PagesMoveOn DEF OrganizeInv

LEMMA OrganizeSteps ==
    ASSUME OrganizeInv, [Next]_vars
    PROVE  \/ StaysPage
           \/ \E t \in Tabs : ShowOrganize(t)
           \/ \E t \in Tabs :
                 \/ \E f \in OrganizeFields, v \in Texts : EditOrganize(t, f, v)
                 \/ AddRow(t)
                 \/ \E i \in 1 .. MaxRows : RemoveRow(t, i)
           \/ \E t \in Tabs, c \in calls : Organized(t, c)
<1>1. ASSUME NEW t \in Tabs PROVE LaterPage(organize[t], organize[t])
  BY DEF OrganizeInv, OrganizePages, LaterPage
<1>2. ASSUME UNCHANGED organizeVars PROVE StaysPage
  BY <1>2 DEF organizeVars, StaysPage
<1>3. ASSUME NEW t \in Tabs, UNCHANGED <<organizeDraft, organizeEntered>>,
             organize' = [organize EXCEPT ![t] = ClosedOrganize]
      PROVE  StaysPage
  BY <1>3, ClosedIsOrganize DEF StaysPage, LaterPage
<1>4. CASE Serving \/ Failing \/ TakingPart \/ Watching \/ UNCHANGED vars
  BY <1>2, <1>4 DEF Serving, Failing, TakingPart, Watching, vars, pages
<1>5. CASE Using
  <2>1. PICK t \in Tabs : OrganizeUser(t) \/ UNCHANGED organizeVars
    BY <1>5 DEF Using
  <2>2. CASE SignInFromOrganize(t) \/ OrganizeSignedOut(t) \/ UNCHANGED organizeVars
    BY <1>2, <2>2 DEF SignInFromOrganize, OrganizeSignedOut, organizeVars
  <2>3. CASE Organize(t)
    <3>1. PICK half : half = [organize[t] EXCEPT !.submitting = TRUE]
      OBVIOUS
    <3>2. PICK sent : sent = [half EXCEPT !.awaits = plan[t].calls]
      OBVIOUS
    <3>3. PICK pg : pg = [sent EXCEPT !.told = "nothing"]
      OBVIOUS
    <3>4. LaterPage(half, organize[t])
      BY <1>1, <3>1, LaterPageFieldSet
    <3>5. LaterPage(sent, organize[t])
      BY <3>2, <3>4, LaterPageFieldSet
    <3>6. LaterPage(pg, organize[t])
      BY <3>3, <3>5, LaterPageFieldSet
    <3>7. organize' = [organize EXCEPT ![t] = pg]
      BY <2>3, <3>1, <3>2, <3>3, Zenon DEF Organize
    <3> QED
      BY <2>3, <3>6, <3>7 DEF Organize, StaysPage
  <2>4. CASE \E v \in Texts : TypeRow(t, v)
    <3>1. PICK v \in Texts : TypeRow(t, v)
      BY <2>4
    <3>2. PICK pg : pg = [organize[t] EXCEPT !.typed = v]
      OBVIOUS
    <3>3. LaterPage(pg, organize[t])
      BY <1>1, <3>2, LaterPageFieldSet
    <3>4. organize' = [organize EXCEPT ![t] = pg]
      BY <3>1, <3>2, Zenon DEF TypeRow
    <3> QED
      BY <3>1, <3>3, <3>4, BrowserAssumption DEF TypeRow, StaysPage
  <2> QED
    BY <2>1, <2>2, <2>3, <2>4 DEF OrganizeUser
<1>6. CASE Receiving
  <2>1. PICK t \in Tabs, c \in calls :
          Organized(t, c) \/ OrganizeFails(t, c) \/ UNCHANGED organizeVars
    BY <1>6 DEF Receiving, Land, MyListsReceive
  <2>2. CASE OrganizeFails(t, c)
    <3>1. PICK half : half = [organize[t] EXCEPT !.submitting = FALSE]
      OBVIOUS
    <3>2. PICK left : left = [half EXCEPT !.told = "failed"]
      OBVIOUS
    <3>3. PICK pg : pg = IF organize[t].awaits = c.no THEN left ELSE organize[t]
      OBVIOUS
    <3>4. LaterPage(half, organize[t])
      BY <1>1, <3>1, LaterPageFieldSet
    <3>5. LaterPage(left, organize[t])
      BY <3>2, <3>4, LaterPageFieldSet
    <3>6. LaterPage(pg, organize[t])
      BY <1>1, <3>3, <3>5
    <3>7. organize' = [organize EXCEPT ![t] = pg]
      BY <2>2, <3>1, <3>2, <3>3, Zenon DEF OrganizeFails
    <3> QED
      BY <2>2, <3>6, <3>7 DEF OrganizeFails, StaysPage
  <2> QED
    BY <1>2, <2>1, <2>2
<1>7. CASE Going
  <2>1. CASE \E t \in Tabs : Visit(t) \/ Return(t)
    BY <1>2, <2>1 DEF Visit, Return
  <2>2. CASE \E t \in Tabs : Close(t)
    <3>1. PICK t \in Tabs : Close(t)
      BY <2>2
    <3>2. UNCHANGED organize \/ organize' = [organize EXCEPT ![t] = ClosedOrganize]
      BY <3>1 DEF Close
    <3>3. UNCHANGED <<organizeDraft, organizeEntered>>
      BY <3>1 DEF Close
    <3> QED
      BY <1>3, <3>2, <3>3 DEF StaysPage
  <2>3. CASE \E t \in Tabs : Reload(t)
    BY <1>3, <2>3 DEF Reload
  <2>4. CASE \/ \E t \in Tabs, u \in Users : SignIn(t, u)
             \/ \E t \in Tabs : SignOut(t) \/ Learn(t)
    BY <1>2, <2>4 DEF SignIn, SignOut, Learn, Session
  <2> QED
    BY <1>7, <2>1, <2>2, <2>3, <2>4 DEF Going
<1> QED
  BY <1>4, <1>5, <1>6, <1>7 DEF Next

LEMMA OrganizeKept ==
    ASSUME OrganizeInv, [Next]_vars
    PROVE  OrganizeInv' /\ OrganizeKeepsInput
BY OrganizeSteps, StaysPageKept, ShowOrganizeKept, EditsKept, OrganizedKept

-----------------------------------------------------------------------------
LEMMA DraftsRight ==
    ASSUME Init
    PROVE  NewGameInv /\ OrganizeInv
<1>1. PICK s \in Scenarios : NewGameInit(s.newGame) /\ OrganizeInit(s.organize)
  BY DEF Init
<1>2. /\ s.newGame \in NewGameForms \cup {NoDraft}
      /\ s.organize # NoDraft => s.organize \in OrganizeForms /\ Drafted(s.organize) = s.organize
  BY OrganizingAssumption
<1>3. Restored(s.newGame) \in NewGameForms
  BY <1>2, RestoredIsForm
<1>4. /\ s.organize \in OrganizeForms \cup {NoDraft}
      /\ Resumed(s.organize) \in OrganizeForms /\ Drafted(Resumed(s.organize)) = Resumed(s.organize)
  BY <1>2, ResumedIsForm, BlankOrganizeIsForm DEF Resumed
<1>5. NewGameInv
  BY <1>1, <1>2, <1>3, ClosedIsNewGame
     DEF NewGameInit, NewGameInv, NewGamePages, NewGameDrafts, NewGameInputs, FormLeft
<1>6. OrganizeInv
  BY <1>1, <1>4, ClosedIsOrganize
     DEF OrganizeInit, OrganizeInv, OrganizePages, OrganizeDrafts, OrganizeInputs, EntriesLeft, Texts
<1> QED
  BY <1>5, <1>6

\* In every state a browser's drafts restore to what was entered there last and not created
\* since, or to nothing where a game created from other input dropped the draft.
THEOREM DraftsInvariant == Spec => [](NewGameInv /\ OrganizeInv)
<1>1. Init => NewGameInv /\ OrganizeInv
  BY DraftsRight
<1>2. NewGameInv /\ OrganizeInv /\ [Next]_vars => (NewGameInv /\ OrganizeInv)'
  BY NewGameKept, OrganizeKept
<1> QED
  BY <1>1, <1>2, PTL DEF Spec

LEMMA DraftedAsLeft ==
    ASSUME NEW e \in OrganizeInputs
    PROVE  AsLeft(EntriesLeft(e), IF e.lost THEN BlankOrganize ELSE e.entered)
<1>1. CASE e.lost
  BY <1>1 DEF EntriesLeft, AsLeft
<1>2. CASE ~e.lost
  <2>1. e.entered \in OrganizeForms /\ EntriesLeft(e) = Drafted(e.entered)
    BY <1>2 DEF OrganizeInputs, EntriesLeft
  <2>2. CASE e.entered.form["repeats"] # Blank
    BY <1>2, <2>1, <2>2 DEF Drafted, AsLeft
  <2>3. CASE e.entered.form["repeats"] = Blank
    <3>1. PICK form \in [OrganizeFields -> Texts], rows \in Seq(Inputs) : e.entered = [form |-> form, rows |-> rows]
      BY <2>1 DEF OrganizeForms
    <3>2. EntriesLeft(e) = [form |-> [form EXCEPT !["weekly"] = Blank], rows |-> rows]
      BY <2>1, <2>3, <3>1 DEF Drafted
    <3> QED
      BY <1>2, <2>3, <3>1, <3>2 DEF AsLeft
  <2> QED
    BY <2>2, <2>3
<1> QED
  BY <1>1, <1>2

\* What is entered anonymously survives the detour through the login page, a reload
\* and a failed attempt to create: a page that starts anew shows what was entered last
\* in this browser, in whatever tab, and not created since.  It is lost, and the page
\* blank, only where a game was created from other input.
THEOREM RoundTripKeepsInputHolds == Spec => RoundTripKeepsInput
<1> DEFINE Anew ==
      \A t \in Tabs :
          LET game == newGameEntered[DeviceOf[t]]
              organized == organizeEntered[DeviceOf[t]]
          IN  /\ newGame'[t].alive /\ ~newGame[t].alive =>
                    newGame'[t].form = IF game.lost THEN BlankNewGame ELSE game.form
              /\ organize'[t].alive /\ ~organize[t].alive =>
                    AsLeft(organize'[t].entered, IF organized.lost THEN BlankOrganize ELSE organized.entered)
<1>1. NewGameInv /\ OrganizeInv /\ [Next]_vars => [Anew]_vars
  <2> SUFFICES ASSUME NewGameInv, OrganizeInv, [Next]_vars, NEW t \in Tabs
               PROVE  LET game == newGameEntered[DeviceOf[t]]
                          organized == organizeEntered[DeviceOf[t]]
                      IN  /\ newGame'[t].alive /\ ~newGame[t].alive =>
                                newGame'[t].form = IF game.lost THEN BlankNewGame ELSE game.form
                          /\ organize'[t].alive /\ ~organize[t].alive =>
                                AsLeft(organize'[t].entered,
                                       IF organized.lost THEN BlankOrganize ELSE organized.entered)
    OBVIOUS
  <2>1. NewGameKeepsInput /\ OrganizeKeepsInput
    BY NewGameKept, OrganizeKept
  <2>2. organizeEntered[DeviceOf[t]] \in OrganizeInputs
    BY BrowserAssumption DEF OrganizeInv, OrganizeDrafts
  <2> QED
    BY <2>1, <2>2, DraftedAsLeft DEF NewGameKeepsInput, OrganizeKeepsInput, FormLeft
<1> QED
  BY <1>1, DraftsInvariant, PTL DEF Spec, RoundTripKeepsInput

-----------------------------------------------------------------------------
(***************************************************************************)
(* The settings of games.  They come from calls, and those from taps: the  *)
(* invariant SettingsInv says of each call under way that changes a game   *)
(* which tap it is of, and of one that has been checked that its account   *)
(* is the game's organizer.                                                *)
(***************************************************************************)
IsTap(tap) ==
    tap = [from |-> tap.from, no |-> tap.no, op |-> tap.op, user |-> tap.user, form |-> tap.form,
           shown |-> tap.shown, over |-> tap.over]

IsReply(r) ==
    /\ r = [status |-> r.status, id |-> r.id, schedule |-> r.schedule, location |-> r.location,
            listed |-> r.listed]
    /\ r.schedule \in Schedules /\ r.location \in Texts

IsCall(c) ==
    /\ c = [from |-> c.from, no |-> c.no, op |-> c.op, user |-> c.user, body |-> c.body,
            stage |-> c.stage, heard |-> c.heard, reply |-> c.reply]
    /\ IsReply(c.reply)

IsSettings(pg) ==
    /\ pg = [alive |-> pg.alive, game |-> pg.game, form |-> pg.form, notFound |-> pg.notFound,
             submitting |-> pg.submitting, loads |-> pg.loads, awaits |-> pg.awaits, told |-> pg.told]
    /\ pg.form \in [SettingsFields -> Texts]

\* The tap that a call is of.
Tapped(c) ==
    \E tap \in taps : /\ tap.from = c.from /\ tap.no = c.no /\ tap.op = c.op
                      /\ tap.user = c.user /\ tap.shown = c.body

CreateRight(c) ==
    c.op = "createGame" /\ c.stage = "sent" =>
        Tapped(c) /\ c.body.schedule \in Schedules /\ c.body.location = Blank

UpdateRight(c) ==
    c.op = "updateGame" /\ c.stage \in {"sent", "read"} =>
        Tapped(c) /\ c.body.schedule \in Schedules /\ c.body.location \in Texts

\* The organizer was checked, and a game stays its organizer's.
CheckRight(c) ==
    c.op = "updateGame" /\ c.stage = "read" =>
        c.body.target \in DOMAIN games /\ games[c.body.target].createdBy = c.user

CallRight(c) == IsCall(c) /\ CreateRight(c) /\ UpdateRight(c) /\ CheckRight(c)

FromOneForm(i) ==
    \E tap \in taps :
        /\ tap.user = games[i].createdBy
        /\ tap.shown.schedule = games[i].schedule
        /\ tap.shown.location = games[i].location
        /\ \/ tap.op = "updateGame" /\ tap.shown.target = i
           \/ tap.op = "createGame" /\ <<tap.from, tap.no>> = games[i].tap

GamesTyped ==
    \A i \in DOMAIN games : games[i].schedule \in Schedules /\ games[i].location \in Texts

SettingsPages ==
    /\ settings = [t \in Tabs |-> settings[t]]
    /\ \A t \in Tabs : IsSettings(settings[t])

SettingsInv ==
    /\ GamesRight /\ GamesTyped
    /\ \A tap \in taps : IsTap(tap)
    /\ \A c \in calls : CallRight(c)
    /\ SettingsPages
    /\ SettingsFromOneForm

-----------------------------------------------------------------------------
(***************************************************************************)
(* Taps are never forgotten.                                               *)
(***************************************************************************)

TapsGrow ==
    \A tap \in taps : \E later \in taps' :
        /\ later.from = tap.from /\ later.no = tap.no /\ later.op = tap.op
        /\ later.user = tap.user /\ later.form = tap.form /\ later.shown = tap.shown

LEMMA TapOver ==
    ASSUME NEW tap, IsTap(tap), NEW later, later = [tap EXCEPT !.over = TRUE]
    PROVE  /\ IsTap(later)
           /\ later.from = tap.from /\ later.no = tap.no /\ later.op = tap.op
           /\ later.user = tap.user /\ later.form = tap.form /\ later.shown = tap.shown
<1>1. PICK from, no, op, user, form, shown, over :
        tap = [from |-> from, no |-> no, op |-> op, user |-> user, form |-> form, shown |-> shown,
               over |-> over]
  BY DEF IsTap
<1>2. later = [from |-> from, no |-> no, op |-> op, user |-> user, form |-> form, shown |-> shown,
               over |-> TRUE]
  BY <1>1
<1> QED
  BY <1>1, <1>2 DEF IsTap

\* Whichever taps come to their end.
LEMMA TapsOver ==
    ASSUME \A tap \in taps : IsTap(tap),
           \A later \in taps' : \E tap \in taps : later = tap \/ later = [tap EXCEPT !.over = TRUE],
           \A tap \in taps : tap \in taps' \/ [tap EXCEPT !.over = TRUE] \in taps'
    PROVE  TapsGrow /\ \A tap \in taps' : IsTap(tap)
<1>1. \A tap \in taps' : IsTap(tap)
  BY TapOver
<1>2. ASSUME NEW tap \in taps
      PROVE  \E later \in taps' :
                /\ later.from = tap.from /\ later.no = tap.no /\ later.op = tap.op
                /\ later.user = tap.user /\ later.form = tap.form /\ later.shown = tap.shown
  <2>1. PICK later : later = [tap EXCEPT !.over = TRUE]
    OBVIOUS
  <2>2. /\ later.from = tap.from /\ later.no = tap.no /\ later.op = tap.op
        /\ later.user = tap.user /\ later.form = tap.form /\ later.shown = tap.shown
    BY <1>2, <2>1, TapOver
  <2> QED
    BY <1>2, <2>1, <2>2
<1> QED
  BY <1>1, <1>2 DEF TapsGrow

LEMMA OverTaps ==
    ASSUME \A tap \in taps : IsTap(tap), NEW t, NEW nos, taps' = Over(t, nos)
    PROVE  TapsGrow /\ \A tap \in taps' : IsTap(tap)
<1>1. /\ \A later \in taps' : \E tap \in taps : later = tap \/ later = [tap EXCEPT !.over = TRUE]
      /\ \A tap \in taps : tap \in taps' \/ [tap EXCEPT !.over = TRUE] \in taps'
  BY DEF Over
<1> QED
  BY <1>1, TapsOver

\* A tap that was made is remembered from then on.
LEMMA TapsAdded ==
    ASSUME \A tap \in taps : IsTap(tap), NEW new, IsTap(new), taps' = taps \cup {new}
    PROVE  TapsGrow /\ \A tap \in taps' : IsTap(tap)
BY DEF TapsGrow

LEMMA TapsKept ==
    ASSUME \A tap \in taps : IsTap(tap), [Next]_vars
    PROVE  TapsGrow /\ \A tap \in taps' : IsTap(tap)
<1>1. ASSUME UNCHANGED taps PROVE TapsGrow /\ \A tap \in taps' : IsTap(tap)
  BY <1>1 DEF TapsGrow
<1>2. ASSUME NEW t, NEW op, NEW form, NEW body, TapOn(t, op, form, body)
      PROVE  TapsGrow /\ \A tap \in taps' : IsTap(tap)
  <2>1. PICK new : new = [from |-> t, no |-> plan[t].calls, op |-> op, user |-> Account(t),
                          form |-> form, shown |-> body, over |-> FALSE]
    OBVIOUS
  <2>2. IsTap(new)
    BY <2>1 DEF IsTap
  <2> QED
    BY <1>2, <2>1, <2>2, TapsAdded DEF TapOn
<1>3. CASE Serving \/ Failing \/ TakingPart \/ UNCHANGED vars
  BY <1>1, <1>3 DEF Serving, Failing, TakingPart, vars, client
<1>4. CASE Watching
  BY <1>1, <1>4 DEF Watching, Snapshot
<1>5. CASE Using
  <2>1. PICK t \in Tabs : NewGameUser(t) \/ OrganizeUser(t) \/ SettingsUser(t) \/ MyListsUser(t)
    BY <1>5 DEF Using
  <2>2. CASE NewGameUser(t)
    BY <1>1, <1>2, <2>2 DEF NewGameUser, EditNewGame, SignInFromNewGame, CreateNewGameSignedOut,
                            CreateNewGame, TapFrom
  <2>3. CASE OrganizeUser(t)
    BY <1>1, <1>2, <2>3 DEF OrganizeUser, EditOrganize, TypeRow, AddRow, RemoveRow, Enters,
                            SignInFromOrganize, OrganizeSignedOut, Organize, TapFrom
  <2>4. CASE SettingsUser(t)
    BY <1>1, <1>2, <2>4 DEF SettingsUser, OpenSettings, EditSettings, SaveSettings, SaveSettingsSignedOut
  <2>5. CASE MyListsUser(t)
    BY <1>1, <2>5 DEF MyListsUser, SignInFromRosters, Retry, Follow, FollowSignedOut
  <2> QED
    BY <2>1, <2>2, <2>3, <2>4, <2>5
<1>6. CASE Going
  <2>1. CASE \E t \in Tabs : Visit(t) \/ Return(t)
    BY <1>1, <2>1 DEF Visit, Return, ShowMyGames, ShowMyRosters, ShowBoard
  <2>2. CASE \E t \in Tabs : Close(t)
    <3>1. PICK t, nos : taps' = Over(t, nos)
      BY <2>2 DEF Close
    <3> QED
      BY <3>1, OverTaps
  <2>3. CASE \E t \in Tabs : Reload(t)
    <3>1. PICK t \in Tabs : taps' = {IF tap.from = t THEN [tap EXCEPT !.over = TRUE] ELSE tap : tap \in taps}
      BY <2>3 DEF Reload
    <3>2. /\ \A later \in taps' : \E tap \in taps : later = tap \/ later = [tap EXCEPT !.over = TRUE]
          /\ \A tap \in taps : tap \in taps' \/ [tap EXCEPT !.over = TRUE] \in taps'
      BY <3>1
    <3> QED
      BY <3>2, TapsOver
  <2>4. CASE \/ \E t \in Tabs, u \in Users : SignIn(t, u)
             \/ \E t \in Tabs : SignOut(t) \/ Learn(t)
    BY <1>1, <2>4 DEF SignIn, SignOut, Learn, Session
  <2> QED
    BY <1>6, <2>1, <2>2, <2>3, <2>4 DEF Going
<1>7. CASE Receiving
  <2>1. PICK t \in Tabs, c \in calls :
          \/ NewGameCreated(t, c) \/ NewGameFails(t, c) \/ Land(t, c) \/ Organized(t, c)
          \/ OrganizeFails(t, c) \/ SettingsReceive(t, c) \/ MyListsReceive(t)
    BY <1>7 DEF Receiving, MyListsReceive
  <2>2. CASE NewGameCreated(t, c) \/ NewGameFails(t, c) \/ Organized(t, c) \/ OrganizeFails(t, c)
    <3>1. \E nos : taps' = Over(t, nos)
      BY <2>2 DEF NewGameCreated, NewGameFails, Organized, OrganizeFails
    <3> QED
      BY <3>1, OverTaps
  <2>3. CASE Land(t, c) \/ SettingsReceive(t, c) \/ MyListsReceive(t)
    BY <1>1, <2>3 DEF Land, SettingsReceive, SettingsLoaded, SettingsNotLoaded, SettingsSaved,
                      SettingsNotSaved, MyListsReceive, RostersListed, RostersNotListed, Following, NotFollowing
  <2> QED
    BY <2>1, <2>2, <2>3
<1> QED
  BY <1>3, <1>4, <1>5, <1>6, <1>7 DEF Next

-----------------------------------------------------------------------------
(***************************************************************************)
(* The settings page.                                                      *)
(***************************************************************************)

LEMMA ClosedIsSettings == IsSettings(ClosedSettings)
BY DEF IsSettings, ClosedSettings, Texts

LEMMA SettingsFieldSet ==
    ASSUME NEW pg, IsSettings(pg), NEW x
    PROVE  /\ IsSettings([pg EXCEPT !.alive = x])
           /\ IsSettings([pg EXCEPT !.game = x])
           /\ IsSettings([pg EXCEPT !.notFound = x])
           /\ IsSettings([pg EXCEPT !.submitting = x])
           /\ IsSettings([pg EXCEPT !.loads = x])
           /\ IsSettings([pg EXCEPT !.awaits = x])
           /\ IsSettings([pg EXCEPT !.told = x])
           /\ x \in [SettingsFields -> Texts] => IsSettings([pg EXCEPT !.form = x])
<1>1. PICK alive, game, form, notFound, submitting, loads, awaits, told :
        /\ pg = [alive |-> alive, game |-> game, form |-> form, notFound |-> notFound,
                 submitting |-> submitting, loads |-> loads, awaits |-> awaits, told |-> told]
        /\ form \in [SettingsFields -> Texts]
  BY DEF IsSettings
<1>2. /\ [pg EXCEPT !.alive = x] = [alive |-> x, game |-> game, form |-> form, notFound |-> notFound,
             submitting |-> submitting, loads |-> loads, awaits |-> awaits, told |-> told]
      /\ [pg EXCEPT !.game = x] = [alive |-> alive, game |-> x, form |-> form, notFound |-> notFound,
             submitting |-> submitting, loads |-> loads, awaits |-> awaits, told |-> told]
      /\ [pg EXCEPT !.form = x] = [alive |-> alive, game |-> game, form |-> x, notFound |-> notFound,
             submitting |-> submitting, loads |-> loads, awaits |-> awaits, told |-> told]
      /\ [pg EXCEPT !.notFound = x] = [alive |-> alive, game |-> game, form |-> form, notFound |-> x,
             submitting |-> submitting, loads |-> loads, awaits |-> awaits, told |-> told]
      /\ [pg EXCEPT !.submitting = x] = [alive |-> alive, game |-> game, form |-> form, notFound |-> notFound,
             submitting |-> x, loads |-> loads, awaits |-> awaits, told |-> told]
      /\ [pg EXCEPT !.loads = x] = [alive |-> alive, game |-> game, form |-> form, notFound |-> notFound,
             submitting |-> submitting, loads |-> x, awaits |-> awaits, told |-> told]
      /\ [pg EXCEPT !.awaits = x] = [alive |-> alive, game |-> game, form |-> form, notFound |-> notFound,
             submitting |-> submitting, loads |-> loads, awaits |-> x, told |-> told]
      /\ [pg EXCEPT !.told = x] = [alive |-> alive, game |-> game, form |-> form, notFound |-> notFound,
             submitting |-> submitting, loads |-> loads, awaits |-> awaits, told |-> x]
  BY <1>1
<1> QED
  BY <1>1, <1>2 DEF IsSettings

LEMMA PageChanged ==
    ASSUME SettingsPages, NEW t, NEW pg, IsSettings(pg), settings' = [settings EXCEPT ![t] = pg]
    PROVE  SettingsPages'
BY DEF SettingsPages

LEMMA SettingsOpenedKept ==
    ASSUME SettingsPages, NEW t, NEW id, NEW no, settings' = SettingsOpened(t, id, no)
    PROVE  SettingsPages'
<1>1. PICK p1 : p1 = [ClosedSettings EXCEPT !.alive = TRUE]
  OBVIOUS
<1>2. PICK p2 : p2 = [p1 EXCEPT !.game = id]
  OBVIOUS
<1>3. PICK p3 : p3 = [p2 EXCEPT !.loads = no]
  OBVIOUS
<1>4. settings' = [settings EXCEPT ![t] = p3]
  BY <1>1, <1>2, <1>3, Zenon DEF SettingsOpened
<1>5. IsSettings(p1)
  BY <1>1, ClosedIsSettings, SettingsFieldSet
<1>6. IsSettings(p2)
  BY <1>2, <1>5, SettingsFieldSet
<1>7. IsSettings(p3)
  BY <1>3, <1>6, SettingsFieldSet
<1> QED
  BY <1>4, <1>7, PageChanged

LEMMA ScheduleParts ==
    ASSUME NEW s \in Schedules
    PROVE  s[1] \in Texts /\ s[2] \in Texts
BY DEF Schedules, Unset, Texts

LEMMA SettingsUserKept ==
    ASSUME SettingsPages, NEW t \in Tabs, SettingsUser(t)
    PROVE  SettingsPages'
<1>1. IsSettings(settings[t])
  BY DEF SettingsPages
<1>2. CASE \E id \in DOMAIN games : OpenSettings(t, id)
  BY <1>2, SettingsOpenedKept DEF OpenSettings
<1>3. CASE \E f \in SettingsFields, v \in Texts : EditSettings(t, f, v)
  <2>1. PICK f \in SettingsFields, v \in Texts : EditSettings(t, f, v)
    BY <1>3
  <2>2. PICK form : form = [settings[t].form EXCEPT ![f] = v]
    OBVIOUS
  <2>3. PICK pg : pg = [settings[t] EXCEPT !.form = form]
    OBVIOUS
  <2>4. form \in [SettingsFields -> Texts]
    BY <1>1, <2>2 DEF IsSettings
  <2>5. IsSettings(pg)
    BY <1>1, <2>3, <2>4, SettingsFieldSet
  <2>6. settings' = [settings EXCEPT ![t] = pg]
    BY <2>1, <2>2, <2>3, Zenon DEF EditSettings
  <2> QED
    BY <2>5, <2>6, PageChanged
<1>4. CASE SaveSettings(t)
  <2>1. PICK half : half = [settings[t] EXCEPT !.submitting = TRUE]
    OBVIOUS
  <2>2. PICK sent : sent = [half EXCEPT !.awaits = plan[t].calls]
    OBVIOUS
  <2>3. PICK pg : pg = [sent EXCEPT !.told = "nothing"]
    OBVIOUS
  <2>4. IsSettings(half)
    BY <1>1, <2>1, SettingsFieldSet
  <2>5. IsSettings(sent)
    BY <2>2, <2>4, SettingsFieldSet
  <2>6. IsSettings(pg)
    BY <2>3, <2>5, SettingsFieldSet
  <2>7. settings' = [settings EXCEPT ![t] = pg]
    BY <1>4, <2>1, <2>2, <2>3, Zenon DEF SaveSettings
  <2> QED
    BY <2>6, <2>7, PageChanged
<1>5. CASE SaveSettingsSignedOut(t)
  <2>1. PICK pg : pg = [settings[t] EXCEPT !.told = "failed"]
    OBVIOUS
  <2>2. IsSettings(pg)
    BY <1>1, <2>1, SettingsFieldSet
  <2>3. settings' = [settings EXCEPT ![t] = pg]
    BY <1>5, <2>1, Zenon DEF SaveSettingsSignedOut
  <2> QED
    BY <2>2, <2>3, PageChanged
<1> QED
  BY <1>2, <1>3, <1>4, <1>5 DEF SettingsUser

LEMMA SettingsReceiveKept ==
    ASSUME SettingsPages, NEW t \in Tabs, NEW c, IsCall(c), SettingsReceive(t, c)
    PROVE  SettingsPages'
<1>1. IsSettings(settings[t])
  BY DEF SettingsPages
<1>2. CASE SettingsLoaded(t, c)
  <2>1. PICK form : form = [f \in SettingsFields |->
                              CASE f = "date" -> c.reply.schedule[1]
                                [] f = "time" -> c.reply.schedule[2]
                                [] f = "location" -> c.reply.location]
    OBVIOUS
  <2>2. form \in [SettingsFields -> Texts]
    <3>1. c.reply.schedule \in Schedules /\ c.reply.location \in Texts
      BY DEF IsCall, IsReply
    <3> QED
      BY <2>1, <3>1, ScheduleParts DEF SettingsFields
  <2>3. PICK half : half = [settings[t] EXCEPT !.notFound = FALSE]
    OBVIOUS
  <2>4. PICK pg : pg = [half EXCEPT !.form = form]
    OBVIOUS
  <2>5. IsSettings(half)
    BY <1>1, <2>3, SettingsFieldSet
  <2>6. IsSettings(pg)
    BY <2>2, <2>4, <2>5, SettingsFieldSet
  <2>7. settings' = [settings EXCEPT ![t] = pg]
    BY <1>2, <2>1, <2>3, <2>4, Zenon DEF SettingsLoaded
  <2> QED
    BY <2>6, <2>7, PageChanged
<1>3. CASE SettingsNotLoaded(t, c)
  <2>1. PICK pg : pg = [settings[t] EXCEPT !.notFound = TRUE]
    OBVIOUS
  <2>2. IsSettings(pg)
    BY <1>1, <2>1, SettingsFieldSet
  <2>3. settings' = [settings EXCEPT ![t] = pg]
    BY <1>3, <2>1, Zenon DEF SettingsNotLoaded
  <2> QED
    BY <2>2, <2>3, PageChanged
<1>4. CASE SettingsSaved(t, c) \/ SettingsNotSaved(t, c)
  <2>1. PICK told : settings' = [settings EXCEPT ![t].submitting = FALSE, ![t].told = told]
    BY <1>4 DEF SettingsSaved, SettingsNotSaved
  <2>2. PICK half : half = [settings[t] EXCEPT !.submitting = FALSE]
    OBVIOUS
  <2>3. PICK pg : pg = [half EXCEPT !.told = told]
    OBVIOUS
  <2>4. IsSettings(half)
    BY <1>1, <2>2, SettingsFieldSet
  <2>5. IsSettings(pg)
    BY <2>3, <2>4, SettingsFieldSet
  <2>6. settings' = [settings EXCEPT ![t] = pg]
    BY <2>1, <2>2, <2>3, Zenon
  <2> QED
    BY <2>5, <2>6, PageChanged
<1> QED
  BY <1>2, <1>3, <1>4 DEF SettingsReceive

LEMMA SettingsPagesKept ==
    ASSUME SettingsPages, \A c \in calls : IsCall(c), [Next]_vars
    PROVE  SettingsPages'
<1>1. ASSUME UNCHANGED settings PROVE SettingsPages'
  BY <1>1 DEF SettingsPages
<1>2. CASE Serving \/ Failing \/ TakingPart \/ Watching \/ UNCHANGED vars
  BY <1>1, <1>2 DEF Serving, Failing, TakingPart, Watching, vars, pages
<1>3. CASE Using
  BY <1>1, <1>3, SettingsUserKept DEF Using
<1>4. CASE Going
  <2>1. CASE \E t \in Tabs : Visit(t) \/ Return(t)
    BY <1>1, <2>1 DEF Visit, Return
  <2>2. CASE \E t \in Tabs : Close(t) \/ Reload(t)
    <3>1. PICK t \in Tabs : UNCHANGED settings \/ settings' = [settings EXCEPT ![t] = ClosedSettings]
      BY <2>2 DEF Close, Reload
    <3> QED
      BY <1>1, <3>1, ClosedIsSettings, PageChanged
  <2>3. CASE \/ \E t \in Tabs, u \in Users : SignIn(t, u)
             \/ \E t \in Tabs : SignOut(t) \/ Learn(t)
    BY <1>1, <2>3 DEF SignIn, SignOut, Learn, Session
  <2> QED
    BY <1>4, <2>1, <2>2, <2>3 DEF Going
<1>5. CASE Receiving
  <2>1. PICK t \in Tabs, c \in calls : UNCHANGED settings \/ Land(t, c) \/ SettingsReceive(t, c)
    BY <1>5 DEF Receiving, MyListsReceive
  <2>2. CASE Land(t, c)
    BY <1>1, <2>2, SettingsOpenedKept DEF Land
  <2> QED
    BY <1>1, <2>1, <2>2, SettingsReceiveKept
<1> QED
  BY <1>2, <1>3, <1>4, <1>5 DEF Next
-----------------------------------------------------------------------------
(***************************************************************************)
(* Calls.                                                                  *)
(***************************************************************************)

LEMMA ReplyFieldSet ==
    ASSUME NEW r, IsReply(r), NEW x
    PROVE  /\ IsReply([r EXCEPT !.status = x])
           /\ IsReply([r EXCEPT !.id = x])
           /\ IsReply([r EXCEPT !.listed = x])
           /\ x \in Schedules => IsReply([r EXCEPT !.schedule = x])
           /\ x \in Texts => IsReply([r EXCEPT !.location = x])
<1>1. PICK status, id, schedule, location, listed :
        /\ r = [status |-> status, id |-> id, schedule |-> schedule, location |-> location,
                listed |-> listed]
        /\ schedule \in Schedules /\ location \in Texts
  BY DEF IsReply
<1>2. /\ [r EXCEPT !.status = x] = [status |-> x, id |-> id, schedule |-> schedule,
                                    location |-> location, listed |-> listed]
      /\ [r EXCEPT !.id = x] = [status |-> status, id |-> x, schedule |-> schedule,
                                location |-> location, listed |-> listed]
      /\ [r EXCEPT !.listed = x] = [status |-> status, id |-> id, schedule |-> schedule,
                                    location |-> location, listed |-> x]
      /\ [r EXCEPT !.schedule = x] = [status |-> status, id |-> id, schedule |-> x,
                                      location |-> location, listed |-> listed]
      /\ [r EXCEPT !.location = x] = [status |-> status, id |-> id, schedule |-> schedule,
                                      location |-> x, listed |-> listed]
  BY <1>1
<1> QED
  BY <1>1, <1>2 DEF IsReply

LEMMA UnansweredIsReply == IsReply(Unanswered)
BY DEF IsReply, Unanswered, Schedules, Unset, Texts

LEMMA RepliedIsReply == ASSUME NEW status PROVE IsReply(Replied(status))
BY UnansweredIsReply, ReplyFieldSet DEF Replied

LEMMA SettingsIsReply ==
    ASSUME NEW g, g.schedule \in Schedules, g.location \in Texts
    PROVE  IsReply(Settings(g))
<1>1. PICK half : half = [Replied("ok") EXCEPT !.schedule = g.schedule]
  OBVIOUS
<1>2. PICK location : location = g.location
  OBVIOUS
<1>3. PICK r : r = [half EXCEPT !.location = location]
  OBVIOUS
<1>4. Settings(g) = r
  BY <1>1, <1>2, <1>3, Zenon DEF Settings
<1>5. IsReply(half)
  BY <1>1, RepliedIsReply, ReplyFieldSet
<1>6. IsReply(r)
  BY <1>2, <1>3, <1>5, ReplyFieldSet
<1> QED
  BY <1>4, <1>6

Same(d, c) ==
    d.from = c.from /\ d.no = c.no /\ d.op = c.op /\ d.user = c.user /\ d.body = c.body

LEMMA CallFieldSet ==
    ASSUME NEW c, IsCall(c), NEW x
    PROVE  /\ IsCall([c EXCEPT !.stage = x]) /\ Same([c EXCEPT !.stage = x], c)
           /\ [c EXCEPT !.stage = x].stage = x /\ [c EXCEPT !.stage = x].reply = c.reply
           /\ IsCall([c EXCEPT !.heard = x]) /\ Same([c EXCEPT !.heard = x], c)
           /\ [c EXCEPT !.heard = x].stage = c.stage
           /\ IsReply(x) => /\ IsCall([c EXCEPT !.reply = x]) /\ Same([c EXCEPT !.reply = x], c)
                            /\ [c EXCEPT !.reply = x].stage = c.stage
<1>1. PICK from, no, op, user, body, stage, heard, reply :
        /\ c = [from |-> from, no |-> no, op |-> op, user |-> user, body |-> body, stage |-> stage,
                heard |-> heard, reply |-> reply]
        /\ IsReply(reply)
  BY DEF IsCall
<1>2. /\ [c EXCEPT !.stage = x] = [from |-> from, no |-> no, op |-> op, user |-> user, body |-> body,
                                   stage |-> x, heard |-> heard, reply |-> reply]
      /\ [c EXCEPT !.heard = x] = [from |-> from, no |-> no, op |-> op, user |-> user, body |-> body,
                                   stage |-> stage, heard |-> x, reply |-> reply]
      /\ [c EXCEPT !.reply = x] = [from |-> from, no |-> no, op |-> op, user |-> user, body |-> body,
                                   stage |-> stage, heard |-> heard, reply |-> x]
  BY <1>1
<1> QED
  BY <1>1, <1>2 DEF IsCall, Same

\* A call that has moved on, but not to a stage in which it may change a game.
Derived(d, c) ==
    /\ IsCall(d) /\ Same(d, c)
    /\ d.stage \in {"answered", "landing"} \/ d.stage = c.stage
       \/ c.op \notin {"createGame", "updateGame"}

LEMMA DerivedRight ==
    ASSUME NEW c, CallRight(c), NEW d, Derived(d, c), TapsGrow, GamesGrow
    PROVE  CallRight(d)'
<1>1. Tapped(c) => Tapped(d)'
  BY DEF Tapped, TapsGrow, Derived, Same
<1>2. CreateRight(d)'
  BY <1>1 DEF CallRight, CreateRight, Derived, Same
<1>3. UpdateRight(d)'
  BY <1>1 DEF CallRight, UpdateRight, Derived, Same
<1>4. CheckRight(d)'
  BY DEF CallRight, CheckRight, Derived, Same, GamesGrow
<1> QED
  BY <1>2, <1>3, <1>4 DEF CallRight, Derived

CallsFollow == \A d \in calls' : (\E c \in calls : Derived(d, c)) \/ CallRight(d)'

LEMMA SameCall == ASSUME NEW c, IsCall(c) PROVE Derived(c, c)
BY DEF Derived, Same

LEMMA FewerCalls ==
    ASSUME \A c \in calls : IsCall(c), calls' \subseteq calls
    PROVE  CallsFollow
BY SameCall DEF CallsFollow

\* One call moves on.
LEMMA OneDerived ==
    ASSUME \A c \in calls : IsCall(c), NEW c \in calls, NEW new, Derived(new, c) \/ CallRight(new)',
           calls' \subseteq calls \cup {new}
    PROVE  CallsFollow
BY SameCall DEF CallsFollow

LEMMA AnswersFollow ==
    ASSUME \A c \in calls : IsCall(c), NEW c \in calls, NEW r, IsReply(r), Answers(c, r)
    PROVE  CallsFollow
<1>1. PICK half : half = [c EXCEPT !.stage = "answered"]
  OBVIOUS
<1>2. PICK new : new = [half EXCEPT !.reply = r]
  OBVIOUS
<1>3. new = [c EXCEPT !.stage = "answered", !.reply = r]
  BY <1>1, <1>2, Zenon
<1>4. IsCall(half) /\ Same(half, c) /\ half.stage = "answered"
  BY <1>1, CallFieldSet
<1>5. Derived(new, c)
  <2>1. IsCall(new) /\ Same(new, half) /\ new.stage = half.stage
    BY <1>2, <1>4, CallFieldSet
  <2> QED
    BY <1>4, <2>1 DEF Derived, Same
<1>6. calls' \subseteq calls \cup {new}
  BY <1>3, Zenon DEF Answers
<1> QED
  BY <1>5, <1>6, OneDerived

LEMMA UnheardFollow ==
    ASSUME \A c \in calls : IsCall(c), NEW cs, cs \subseteq calls, calls' = Unheard(cs)
    PROVE  CallsFollow
<1> SUFFICES ASSUME NEW d \in calls'
             PROVE  \E c \in calls : Derived(d, c)
  BY DEF CallsFollow
<1>1. CASE d \in calls
  BY <1>1, SameCall
<1>2. CASE \E c \in cs : d = [c EXCEPT !.heard = FALSE]
  <2>1. PICK c \in cs : d = [c EXCEPT !.heard = FALSE]
    BY <1>2
  <2>2. c \in calls /\ IsCall(c)
    OBVIOUS
  <2>3. IsCall(d) /\ Same(d, c) /\ d.stage = c.stage
    BY <2>1, <2>2, CallFieldSet
  <2> QED
    BY <2>2, <2>3 DEF Derived
<1> QED
  BY <1>1, <1>2 DEF Unheard

\* A call that changes no game may be sent at any time.
LEMMA SentFollow ==
    ASSUME \A c \in calls : IsCall(c), NEW t, NEW op, NEW u, NEW body,
           op \notin {"createGame", "updateGame"}, NEW new, new = CallOf(t, op, u, body),
           calls' \subseteq calls \cup {new}
    PROVE  CallsFollow
<1>1. IsCall(new) /\ new.op = op
  BY UnansweredIsReply DEF CallOf, IsCall
<1>2. CallRight(new)'
  BY <1>1 DEF CallRight, CreateRight, UpdateRight, CheckRight
<1> QED
  BY <1>2, SameCall DEF CallsFollow

LEMMA RefusesFollow ==
    ASSUME \A c \in calls : IsCall(c), NEW c \in calls, NEW status, Refuses(c, status)
    PROVE  CallsFollow
BY AnswersFollow, RepliedIsReply DEF Refuses

\* The first transaction of UpdateGameSettings checks who the organizer is.
LEMMA ReadFollows ==
    ASSUME SettingsInv, NEW c \in calls, ServeUpdateRead(c), UNCHANGED taps
    PROVE  CallsFollow
<1>1. CallRight(c) /\ \A d \in calls : IsCall(d)
  BY DEF SettingsInv, CallRight
<1>2. CASE c.body.target \in DOMAIN games /\ MayEdit(c)
  <2>1. PICK reply : reply = Settings(games[c.body.target])
    OBVIOUS
  <2>2. IsReply(reply)
    BY <1>2, <2>1, SettingsIsReply DEF SettingsInv, GamesTyped
  <2>3. PICK half : half = [c EXCEPT !.stage = "read"]
    OBVIOUS
  <2>4. PICK new : new = [half EXCEPT !.reply = reply]
    OBVIOUS
  <2>5. /\ calls' = (calls \ {c}) \cup {[c EXCEPT !.stage = "read", !.reply = Settings(games[c.body.target])]}
        /\ UNCHANGED games /\ c.op = "updateGame" /\ c.stage = "sent"
        /\ games[c.body.target].createdBy = c.user
    BY <1>2 DEF ServeUpdateRead, MayEdit
  <2>6. new = [c EXCEPT !.stage = "read", !.reply = Settings(games[c.body.target])]
    BY <2>1, <2>3, <2>4, Zenon
  <2>7. IsCall(half) /\ Same(half, c) /\ half.stage = "read"
    BY <1>1, <2>3, CallFieldSet DEF CallRight
  <2>8. IsCall(new) /\ Same(new, half) /\ new.stage = half.stage
    BY <2>2, <2>4, <2>7, CallFieldSet
  <2>9. Tapped(c) /\ c.body.schedule \in Schedules /\ c.body.location \in Texts
    BY <1>1, <2>5 DEF CallRight, UpdateRight
  <2>10. CallRight(new)'
    BY <1>2, <2>5, <2>7, <2>8, <2>9
       DEF CallRight, CreateRight, UpdateRight, CheckRight, Tapped, Same
  <2>11. calls' \subseteq calls \cup {new}
    BY <2>5, <2>6
  <2> QED
    BY <1>1, <2>10, <2>11, OneDerived
<1>3. CASE ~(c.body.target \in DOMAIN games /\ MayEdit(c))
  BY <1>1, <1>3, RefusesFollow DEF ServeUpdateRead
<1> QED
  BY <1>2, <1>3

LEMMA ServingFollows ==
    ASSUME SettingsInv, Serving
    PROVE  CallsFollow
<1>1. PICK c \in calls : Serve(c) /\ UNCHANGED taps
  BY DEF Serving, client
<1>2. /\ \A d \in calls : IsCall(d)
      /\ CallRight(c)
  BY DEF SettingsInv, CallRight
<1>3. CASE ServeCreateGame(c)
  <2>1. CASE \E reply : reply = [Replied("ok") EXCEPT !.id = Len(games')] /\ Answers(c, reply)
    <3>1. PICK id : id = Len(games')
      OBVIOUS
    <3>2. PICK ok : ok = Replied("ok")
      OBVIOUS
    <3>3. PICK reply : reply = [ok EXCEPT !.id = id] /\ Answers(c, reply)
      BY <2>1, <3>1, <3>2
    <3>4. IsReply(reply)
      BY <3>2, <3>3, RepliedIsReply, ReplyFieldSet
    <3> QED
      BY <1>2, <3>3, <3>4, AnswersFollow
  <2> QED
    BY <1>2, <1>3, <2>1, RefusesFollow DEF ServeCreateGame
<1>4. CASE ServeGetGame(c)
  <2>1. CASE c.body.target \in DOMAIN games
    <3>1. IsReply(Settings(games[c.body.target]))
      BY <2>1, SettingsIsReply DEF SettingsInv, GamesTyped
    <3> QED
      BY <1>2, <1>4, <2>1, <3>1, AnswersFollow DEF ServeGetGame
  <2>2. CASE c.body.target \notin DOMAIN games
    BY <1>2, <1>4, <2>2, RefusesFollow DEF ServeGetGame
  <2> QED
    BY <2>1, <2>2
<1>5. CASE ServeUpdateRead(c)
  BY <1>1, <1>5, ReadFollows
<1>6. CASE ServeUpdateWrite(c)
  <2> DEFINE k == c.body.target
             g == [games[k] EXCEPT !.schedule = Given(c.body.schedule, NoSchedule, c.reply.schedule),
                                   !.location = Given(c.body.location, Omitted, c.reply.location)]
  <2>1. k \in DOMAIN games /\ Answers(c, Settings(g))
    BY <1>2, <1>6 DEF ServeUpdateWrite, CallRight, CheckRight
  <2>2. g = [createdBy |-> games[k].createdBy, about |-> games[k].about,
             schedule |-> Given(c.body.schedule, NoSchedule, c.reply.schedule),
             location |-> Given(c.body.location, Omitted, c.reply.location), tap |-> games[k].tap]
    BY <2>1, GameReplaced DEF SettingsInv, GamesRight
  <2>3. /\ Given(c.body.schedule, NoSchedule, c.reply.schedule) \in Schedules
        /\ Given(c.body.location, Omitted, c.reply.location) \in Texts
    BY <1>2, <1>6 DEF ServeUpdateWrite, CallRight, UpdateRight, IsCall, IsReply, Given
  <2> HIDE DEF g
  <2>4. g.schedule \in Schedules /\ g.location \in Texts
    BY <2>2, <2>3
  <2>5. IsReply(Settings(g))
    BY <2>4, SettingsIsReply
  <2> QED
    BY <1>2, <2>1, <2>5, AnswersFollow
<1>7. CASE ServeCreateRoster(c)
  <2>1. CASE \E reply : reply = [Replied("ok") EXCEPT !.id = Len(rosters')] /\ Answers(c, reply)
    <3>1. PICK id : id = Len(rosters')
      OBVIOUS
    <3>2. PICK ok : ok = Replied("ok")
      OBVIOUS
    <3>3. PICK reply : reply = [ok EXCEPT !.id = id] /\ Answers(c, reply)
      BY <2>1, <3>1, <3>2
    <3>4. IsReply(reply)
      BY <3>2, <3>3, RepliedIsReply, ReplyFieldSet
    <3> QED
      BY <1>2, <3>3, <3>4, AnswersFollow
  <2> QED
    BY <1>2, <1>7, <2>1, RefusesFollow DEF ServeCreateRoster, NewRosterRecord
<1>8. CASE ServeListOrganized(c)
  <2>1. CASE Authenticated(c)
    <3>1. PICK listed : listed = OrganizedBy(c.user)
      OBVIOUS
    <3>2. PICK reply : reply = [c.reply EXCEPT !.listed = listed]
      OBVIOUS
    <3>3. PICK half : half = [c EXCEPT !.stage = "read"]
      OBVIOUS
    <3>4. PICK new : new = [half EXCEPT !.reply = reply]
      OBVIOUS
    <3>5. IsReply(reply)
      BY <1>2, <3>2, ReplyFieldSet DEF IsCall
    <3>6. IsCall(half) /\ Same(half, c) /\ half.reply = c.reply
      BY <1>2, <3>3, CallFieldSet
    <3>7. IsCall(new) /\ Same(new, half)
      BY <3>4, <3>5, <3>6, CallFieldSet
    <3>8. Derived(new, c)
      BY <1>8, <3>6, <3>7 DEF ServeListOrganized, Derived, Same
    <3>9. [c EXCEPT !.stage = "read", !.reply.listed = OrganizedBy(c.user)] = new
      BY <3>1, <3>2, <3>3, <3>4, <3>6
    <3>10. calls' \subseteq calls \cup {new}
      BY <1>8, <2>1, <3>9 DEF ServeListOrganized
    <3> QED
      BY <1>2, <3>8, <3>10, OneDerived
  <2>2. CASE ~Authenticated(c)
    BY <1>2, <1>8, <2>2, RefusesFollow DEF ServeListOrganized
  <2> QED
    BY <2>1, <2>2
<1>9. CASE ServeListInvited(c)
  <2>1. PICK listed : listed = Deduplicated(c.reply.listed, TakenPartBy(c.user))
    OBVIOUS
  <2>2. PICK ok : ok = Replied("ok")
    OBVIOUS
  <2>3. PICK reply : reply = [ok EXCEPT !.listed = listed]
    OBVIOUS
  <2>4. IsReply(reply)
    BY <2>2, <2>3, RepliedIsReply, ReplyFieldSet
  <2>5. Answers(c, reply)
    BY <1>9, <2>1, <2>2, <2>3, Zenon DEF ServeListInvited
  <2> QED
    BY <1>2, <2>4, <2>5, AnswersFollow
<1>10. CASE ServeFollow(c)
  BY <1>2, <1>10, AnswersFollow, RepliedIsReply, RefusesFollow DEF ServeFollow
<1> QED
  BY <1>1, <1>3, <1>4, <1>5, <1>6, <1>7, <1>8, <1>9, <1>10 DEF Serve

\* Failures and what the caller then hears.
LEMMA FailingFollows ==
    ASSUME \A c \in calls : IsCall(c), Failing
    PROVE  CallsFollow
<1>1. PICK c \in calls : Lose(c) \/ GiveUp(c)
  BY DEF Failing
<1>2. IsReply(Replied("failed"))
  BY RepliedIsReply
<1>3. CASE Lose(c)
  BY <1>2, <1>3, AnswersFollow DEF Lose
<1>4. CASE GiveUp(c)
  <2>1. PICK reply : reply = Replied("failed")
    OBVIOUS
  <2>2. PICK unheard : unheard = [c EXCEPT !.heard = FALSE]
    OBVIOUS
  <2>3. PICK half : half = [c EXCEPT !.stage = "answered"]
    OBVIOUS
  <2>4. PICK answered : answered = [half EXCEPT !.reply = reply]
    OBVIOUS
  <2>5. IsCall(unheard) /\ Same(unheard, c) /\ unheard.stage = c.stage
    BY <2>2, CallFieldSet
  <2>6. IsCall(half) /\ Same(half, c) /\ half.stage = "answered"
    BY <2>3, CallFieldSet
  <2>7. IsCall(answered) /\ Same(answered, half) /\ answered.stage = half.stage
    BY <1>2, <2>1, <2>4, <2>6, CallFieldSet
  <2>8. Derived(unheard, c) /\ Derived(answered, c)
    BY <2>5, <2>6, <2>7 DEF Derived, Same
  <2>9. answered = [c EXCEPT !.stage = "answered", !.reply = Replied("failed")]
    BY <2>1, <2>3, <2>4, Zenon
  <2>10. calls' \subseteq calls \cup {unheard, answered}
    BY <1>4, <2>2, <2>9, Zenon DEF GiveUp
  <2> QED
    BY <2>8, <2>10, SameCall DEF CallsFollow
<1> QED
  BY <1>1, <1>3, <1>4

-----------------------------------------------------------------------------
(***************************************************************************)
(* Calls that a page makes.                                                *)
(***************************************************************************)

LEMMA CallMade ==
    ASSUME NEW t, NEW op, NEW u, NEW body, NEW new, new = CallOf(t, op, u, body)
    PROVE  /\ IsCall(new)
           /\ new.from = t /\ new.no = plan[t].calls /\ new.op = op /\ new.user = u
           /\ new.body = body /\ new.stage = "sent"
BY UnansweredIsReply DEF CallOf, IsCall

\* A schedule from two fields of a form.
LEMMA ScheduleTyped ==
    ASSUME NEW date \in Texts, NEW time \in Texts
    PROVE  ScheduleOf(date, time) \in Schedules
BY DEF ScheduleOf, Schedules, Texts

LEMMA CreateNewGameFollows ==
    ASSUME NewGameInv, \A c \in calls : IsCall(c), NEW t \in Tabs, CreateNewGame(t)
    PROVE  CallsFollow
<1> DEFINE form == newGame[t].form
<1>1. form \in [NewGameFields -> Texts]
  BY DEF NewGameInv, NewGamePages, IsNewGame, NewGameForms
<1>2. PICK schedule : schedule = ScheduleOf(form["date"], form["time"])
  OBVIOUS
<1>3. schedule \in Schedules
  BY <1>1, <1>2, ScheduleTyped DEF NewGameFields
<1>4. PICK body : body = NewGameBody(form)
  OBVIOUS
<1>5. body.schedule = schedule /\ body.location = Blank
  <2>1. PICK about : about = form["names"]
    OBVIOUS
  <2>2. body = [EmptyBody EXCEPT !.about = about, !.schedule = schedule]
    BY <1>2, <1>4, <2>1, Zenon DEF NewGameBody
  <2> QED
    BY <2>2 DEF EmptyBody
<1>6. PICK new : new = CallOf(t, "createGame", Account(t), body)
  OBVIOUS
<1>7. PICK tap : tap = [from |-> t, no |-> plan[t].calls, op |-> "createGame", user |-> Account(t),
                        form |-> form, shown |-> body, over |-> FALSE]
  OBVIOUS
<1>8. calls' = calls \cup {new} /\ taps' = taps \cup {tap}
  BY <1>4, <1>6, <1>7, Zenon DEF CreateNewGame, TapFrom, CallFrom, TapOn
<1>9. /\ IsCall(new)
      /\ new.from = t /\ new.no = plan[t].calls /\ new.op = "createGame" /\ new.user = Account(t)
      /\ new.body = body /\ new.stage = "sent"
  BY <1>6, CallMade
<1>10. Tapped(new)'
  BY <1>7, <1>8, <1>9 DEF Tapped
<1>11. CallRight(new)'
  BY <1>3, <1>5, <1>9, <1>10 DEF CallRight, CreateRight, UpdateRight, CheckRight
<1> QED
  BY <1>8, <1>11, SameCall DEF CallsFollow

LEMMA SaveSettingsFollows ==
    ASSUME SettingsPages, \A c \in calls : IsCall(c), NEW t \in Tabs, SaveSettings(t)
    PROVE  CallsFollow
<1> DEFINE form == settings[t].form
<1>1. form \in [SettingsFields -> Texts]
  BY DEF SettingsPages, IsSettings
<1>2. PICK schedule : schedule = ScheduleOf(form["date"], form["time"])
  OBVIOUS
<1>3. schedule \in Schedules
  BY <1>1, <1>2, ScheduleTyped DEF SettingsFields
<1>4. PICK location : location = form["location"]
  OBVIOUS
<1>5. location \in Texts
  BY <1>1, <1>4 DEF SettingsFields
<1>6. PICK body : body = Shown(t)
  OBVIOUS
<1>7. body.schedule = schedule /\ body.location = location
  <2>1. PICK target : target = settings[t].game
    OBVIOUS
  <2>2. body = [EmptyBody EXCEPT !.target = target, !.location = location, !.schedule = schedule]
    BY <1>2, <1>4, <1>6, <2>1, Zenon DEF Shown
  <2> QED
    BY <2>2 DEF EmptyBody
<1>8. PICK new : new = CallOf(t, "updateGame", Account(t), body)
  OBVIOUS
<1>9. PICK tap : tap = [from |-> t, no |-> plan[t].calls, op |-> "updateGame", user |-> Account(t),
                        form |-> form, shown |-> body, over |-> FALSE]
  OBVIOUS
<1>10. calls' = calls \cup {new} /\ taps' = taps \cup {tap}
  BY <1>6, <1>8, <1>9, Zenon DEF SaveSettings, SaveBody, CallFrom, TapOn
<1>11. /\ IsCall(new)
       /\ new.from = t /\ new.no = plan[t].calls /\ new.op = "updateGame" /\ new.user = Account(t)
       /\ new.body = body /\ new.stage = "sent"
  BY <1>8, CallMade
<1>12. Tapped(new)'
  BY <1>9, <1>10, <1>11 DEF Tapped
<1>13. CallRight(new)'
  BY <1>3, <1>5, <1>7, <1>11, <1>12 DEF CallRight, CreateRight, UpdateRight, CheckRight
<1> QED
  BY <1>10, <1>13, SameCall DEF CallsFollow

\* What else the user does sends nothing, or what changes no game.
LEMMA CallFromFollows ==
    ASSUME \A c \in calls : IsCall(c), NEW t, NEW op, op \notin {"createGame", "updateGame"},
           NEW body, CallFrom(t, op, body)
    PROVE  CallsFollow
BY SentFollow DEF CallFrom

LEMMA UsingFollows ==
    ASSUME NewGameInv, SettingsInv, Using
    PROVE  CallsFollow
<1>1. \A c \in calls : IsCall(c)
  BY DEF SettingsInv, CallRight
<1>2. ASSUME UNCHANGED calls PROVE CallsFollow
  BY <1>1, <1>2, FewerCalls
<1>3. PICK t \in Tabs : NewGameUser(t) \/ OrganizeUser(t) \/ SettingsUser(t) \/ MyListsUser(t)
  BY DEF Using
<1>4. CASE NewGameUser(t)
  BY <1>1, <1>2, <1>4, CreateNewGameFollows
     DEF NewGameUser, EditNewGame, SignInFromNewGame, CreateNewGameSignedOut
<1>5. CASE OrganizeUser(t)
  BY <1>1, <1>2, <1>5, CallFromFollows
     DEF OrganizeUser, EditOrganize, TypeRow, AddRow, RemoveRow, Enters, SignInFromOrganize,
         OrganizeSignedOut, Organize, TapFrom
<1>6. CASE SettingsUser(t)
  BY <1>1, <1>2, <1>6, SaveSettingsFollows, CallFromFollows
     DEF SettingsInv, SettingsUser, OpenSettings, EditSettings, SaveSettingsSignedOut
<1>7. CASE MyListsUser(t)
  BY <1>1, <1>2, <1>7, CallFromFollows
     DEF MyListsUser, SignInFromRosters, Retry, Follow, FollowSignedOut
<1> QED
  BY <1>3, <1>4, <1>5, <1>6, <1>7

LEMMA GoingFollows ==
    ASSUME \A c \in calls : IsCall(c), Going
    PROVE  CallsFollow
<1>1. ASSUME UNCHANGED calls PROVE CallsFollow
  BY <1>1, FewerCalls
<1>2. CASE \E t \in Tabs : Visit(t) \/ Return(t)
  BY <1>1, <1>2, CallFromFollows DEF Visit, Return, ShowMyGames, ShowMyRosters, ShowBoard
<1>3. CASE \E t \in Tabs : Close(t) \/ Reload(t)
  <2>1. PICK cs : cs \subseteq calls /\ calls' = Unheard(cs)
    <3>1. CASE \E t \in Tabs : Close(t)
      BY <3>1 DEF Close, OwnCalls
    <3>2. CASE \E t \in Tabs : Reload(t)
      BY <3>2 DEF Reload
    <3> QED
      BY <1>3, <3>1, <3>2
  <2> QED
    BY <2>1, UnheardFollow
<1>4. ASSUME NEW t, NEW u, Session(t, u) PROVE CallsFollow
  <2>1. ASSUME NEW new \in calls', new \notin calls PROVE CallRight(new)'
    <3>1. new = CallOf(t, "listMyGameInvites", u, EmptyBody)
      BY <1>4, <2>1, Zenon DEF Session
    <3>2. IsCall(new) /\ new.op = "listMyGameInvites"
      BY <3>1, CallMade
    <3> QED
      BY <3>2 DEF CallRight, CreateRight, UpdateRight, CheckRight
  <2> QED
    BY <2>1, SameCall DEF CallsFollow
<1>5. CASE \/ \E t \in Tabs, u \in Users : SignIn(t, u)
           \/ \E t \in Tabs : SignOut(t) \/ Learn(t)
  BY <1>4, <1>5 DEF SignIn, SignOut, Learn
<1> QED
  BY <1>2, <1>3, <1>5 DEF Going

LEMMA ReceivingFollows ==
    ASSUME \A c \in calls : IsCall(c), Receiving
    PROVE  CallsFollow
<1>1. PICK t \in Tabs, c \in calls :
        \/ NewGameCreated(t, c) \/ NewGameFails(t, c) \/ Land(t, c) \/ Organized(t, c)
        \/ OrganizeFails(t, c) \/ SettingsReceive(t, c) \/ MyListsReceive(t)
  BY DEF Receiving, MyListsReceive
<1>2. ASSUME NEW d, Takes(d) PROVE CallsFollow
  BY <1>2, FewerCalls DEF Takes
<1>3. CASE NewGameCreated(t, c)
  <2>1. PICK new : new = [c EXCEPT !.stage = "landing"]
    OBVIOUS
  <2>2. Derived(new, c)
    BY <2>1, CallFieldSet DEF Derived
  <2>3. calls' \subseteq calls \cup {new}
    BY <1>3, <2>1, Zenon DEF NewGameCreated
  <2> QED
    BY <2>2, <2>3, OneDerived
<1>4. CASE Land(t, c)
  <2>1. CASE Takes(c)
    BY <1>2, <2>1
  <2>2. CASE ~Takes(c)
    <3>1. PICK body : body = [EmptyBody EXCEPT !.target = c.reply.id]
      OBVIOUS
    <3>2. PICK new : new = CallOf(t, "getGame", Account(t), body)
      OBVIOUS
    <3>3. calls' \subseteq calls \cup {new}
      BY <1>4, <2>2, <3>1, <3>2, Zenon DEF Land
    <3> QED
      BY <3>2, <3>3, SentFollow
  <2> QED
    BY <2>1, <2>2
<1>5. CASE \/ NewGameFails(t, c) \/ Organized(t, c) \/ OrganizeFails(t, c)
           \/ SettingsReceive(t, c) \/ MyListsReceive(t)
  BY <1>2, <1>5
     DEF NewGameFails, Organized, OrganizeFails, SettingsReceive, SettingsLoaded, SettingsNotLoaded,
         SettingsSaved, SettingsNotSaved, MyListsReceive, RostersListed, RostersNotListed, Following,
         NotFollowing
<1> QED
  BY <1>1, <1>3, <1>4, <1>5

LEMMA CallsKept ==
    ASSUME NewGameInv, SettingsInv, TapsGrow, GamesGrow, [Next]_vars
    PROVE  \A d \in calls' : CallRight(d)'
<1>1. \A c \in calls : IsCall(c) /\ CallRight(c)
  BY DEF SettingsInv, CallRight
<1>2. CASE TakingPart \/ Watching \/ UNCHANGED vars
  <2>1. UNCHANGED calls
    BY <1>2 DEF TakingPart, TakePart, Watching, Snapshot, vars, backend
  <2> QED
    BY <1>1, <2>1, SameCall, DerivedRight
<1>3. CallsFollow \/ TakingPart \/ Watching \/ UNCHANGED vars
  BY <1>1, ServingFollows, FailingFollows, UsingFollows, GoingFollows, ReceivingFollows DEF Next
<1> QED
  BY <1>1, <1>2, <1>3, DerivedRight DEF CallsFollow

-----------------------------------------------------------------------------
(***************************************************************************)
(* Games.                                                                  *)
(***************************************************************************)

\* A game that is as it was still stems from the same tap.
LEMMA OldGameKept ==
    ASSUME NEW i \in DOMAIN games, FromOneForm(i), TapsGrow, games'[i] = games[i]
    PROVE  FromOneForm(i)'
BY DEF FromOneForm, TapsGrow

GameFollows(i) ==
    FromOneForm(i)' /\ games'[i].schedule \in Schedules /\ games'[i].location \in Texts

LEMMA CreatedFollows ==
    ASSUME SettingsInv, TapsGrow, NEW c \in calls, ServeCreateGame(c),
           games' = Append(games, NewGameRecord(c))
    PROVE  \A i \in DOMAIN games' : GameFollows(i)
<1>0. PICK last : last = Len(games) + 1
  OBVIOUS
<1>1. /\ DOMAIN games' = DOMAIN games \cup {last}
      /\ \A i \in DOMAIN games : games'[i] = games[i]
      /\ games'[last] = NewGameRecord(c)
  BY <1>0, SeqAppended DEF SettingsInv, GamesRight
<1>2. ASSUME NEW i \in DOMAIN games PROVE GameFollows(i)
  <2>1. FromOneForm(i) /\ games[i].schedule \in Schedules /\ games[i].location \in Texts
    BY DEF SettingsInv, SettingsFromOneForm, FromOneForm, GamesTyped
  <2> QED
    BY <1>1, <2>1, OldGameKept DEF GameFollows
<1>3. GameFollows(last)
  <2>2. Tapped(c) /\ c.body.schedule \in Schedules /\ c.body.location = Blank /\ c.op = "createGame"
    BY DEF ServeCreateGame, SettingsInv, CallRight, CreateRight
  <2>3. PICK tap \in taps' : /\ tap.from = c.from /\ tap.no = c.no /\ tap.op = c.op
                             /\ tap.user = c.user /\ tap.shown = c.body
    BY <2>2 DEF Tapped, TapsGrow
  <2>4. /\ games'[last].createdBy = c.user /\ games'[last].schedule = c.body.schedule
        /\ games'[last].location = Blank /\ games'[last].tap = <<c.from, c.no>>
    BY <1>1 DEF NewGameRecord
  <2>5. FromOneForm(last)'
    BY <2>2, <2>3, <2>4 DEF FromOneForm
  <2> QED
    BY <2>2, <2>4, <2>5 DEF GameFollows, Texts
<1> QED
  BY <1>1, <1>2, <1>3

\* Both fields of the form were sent, so both are stored.
LEMMA UpdatedFollows ==
    ASSUME SettingsInv, TapsGrow, NEW c \in calls, ServeUpdateWrite(c)
    PROVE  \A i \in DOMAIN games' : GameFollows(i)
<1>1. PICK k : k = c.body.target
  OBVIOUS
<1>2. /\ CallRight(c) /\ c.op = "updateGame" /\ c.stage = "read"
  BY DEF ServeUpdateWrite, SettingsInv
<1>3. /\ Tapped(c) /\ c.body.schedule \in Schedules /\ c.body.location \in Texts
      /\ k \in DOMAIN games /\ games[k].createdBy = c.user
  BY <1>1, <1>2 DEF CallRight, UpdateRight, CheckRight
<1>4. /\ Given(c.body.schedule, NoSchedule, c.reply.schedule) = c.body.schedule
      /\ Given(c.body.location, Omitted, c.reply.location) = c.body.location
  <2>1. c.body.location # Omitted
    BY <1>3, RecordsAssumption DEF Texts, Blank, Omitted
  <2>2. c.body.schedule # NoSchedule
    <3>1. \A one \in Inputs \cup {Blank} : one # Omitted
      BY RecordsAssumption DEF Blank, Omitted
    <3>2. PICK date, time : c.body.schedule = <<date, time>> /\ date \in Inputs \cup {Blank}
      BY <1>3 DEF Schedules, Unset
    <3> QED
      BY <3>1, <3>2 DEF NoSchedule
  <2> QED
    BY <2>1, <2>2 DEF Given
<1>5. PICK g : /\ g = [games[k] EXCEPT !.schedule = Given(c.body.schedule, NoSchedule, c.reply.schedule),
                                       !.location = Given(c.body.location, Omitted, c.reply.location)]
               /\ games' = [games EXCEPT ![k] = g]
  BY <1>1 DEF ServeUpdateWrite
<1>6. /\ g.createdBy = c.user /\ g.schedule = c.body.schedule /\ g.location = c.body.location
  <2>1. IsGame(games[k])
    BY <1>3 DEF SettingsInv, GamesRight
  <2>2. g = [games[k] EXCEPT !.schedule = c.body.schedule, !.location = c.body.location]
    BY <1>4, <1>5
  <2>3. g = [createdBy |-> games[k].createdBy, about |-> games[k].about,
             schedule |-> c.body.schedule, location |-> c.body.location, tap |-> games[k].tap]
    BY <2>1, <2>2, GameReplaced
  <2> QED
    BY <1>3, <2>3
<1>7. /\ DOMAIN games' = DOMAIN games
      /\ \A i \in DOMAIN games : games'[i] = IF i = k THEN g ELSE games[i]
  BY <1>5, SeqReplaced DEF SettingsInv, GamesRight
<1>8. ASSUME NEW i \in DOMAIN games, i # k PROVE GameFollows(i)
  <2>1. FromOneForm(i) /\ games[i].schedule \in Schedules /\ games[i].location \in Texts
    BY DEF SettingsInv, SettingsFromOneForm, FromOneForm, GamesTyped
  <2> QED
    BY <1>7, <1>8, <2>1, OldGameKept DEF GameFollows
<1>9. GameFollows(k)
  <2>1. PICK tap \in taps' : /\ tap.from = c.from /\ tap.no = c.no /\ tap.op = c.op
                             /\ tap.user = c.user /\ tap.shown = c.body
    BY <1>3 DEF Tapped, TapsGrow
  <2>2. games'[k] = g
    BY <1>3, <1>7
  <2>3. FromOneForm(k)'
    BY <1>1, <1>2, <1>6, <2>1, <2>2 DEF FromOneForm
  <2> QED
    BY <1>3, <1>6, <2>2, <2>3 DEF GameFollows
<1> QED
  BY <1>7, <1>8, <1>9

LEMMA GamesFollow ==
    ASSUME SettingsInv, TapsGrow, [Next]_vars
    PROVE  GamesTyped' /\ SettingsFromOneForm'
<1>1. \A i \in DOMAIN games' : GameFollows(i)
  <2>1. CASE UNCHANGED games
    <3>1. ASSUME NEW i \in DOMAIN games PROVE GameFollows(i)
      <4>1. FromOneForm(i) /\ games[i].schedule \in Schedules /\ games[i].location \in Texts
        BY DEF SettingsInv, SettingsFromOneForm, FromOneForm, GamesTyped
      <4> QED
        BY <2>1, <4>1, OldGameKept DEF GameFollows
    <3> QED
      BY <2>1, <3>1
  <2> QED
    BY <2>1, GamesSteps, CreatedFollows, UpdatedFollows
<1> QED
  BY <1>1 DEF GameFollows, GamesTyped, SettingsFromOneForm, FromOneForm

-----------------------------------------------------------------------------
(***************************************************************************)
(* All together.                                                           *)
(***************************************************************************)

LEMMA SettingsKept ==
    ASSUME NewGameInv, SettingsInv, [Next]_vars
    PROVE  SettingsInv'
<1>1. GamesRight' /\ GamesGrow
  BY GamesKept DEF SettingsInv
<1>2. TapsGrow /\ \A tap \in taps' : IsTap(tap)
  BY TapsKept DEF SettingsInv
<1>3. \A c \in calls' : CallRight(c)'
  BY <1>1, <1>2, CallsKept
<1>4. SettingsPages'
  <2>1. \A c \in calls : IsCall(c)
    BY DEF SettingsInv, CallRight
  <2> QED
    BY <2>1, SettingsPagesKept DEF SettingsInv
<1>5. GamesTyped' /\ SettingsFromOneForm'
  BY <1>2, GamesFollow
<1> QED
  BY <1>1, <1>2, <1>3, <1>4, <1>5 DEF SettingsInv

LEMMA SettingsBegin ==
    ASSUME Init
    PROVE  SettingsInv
<1>1. PICK s \in Scenarios : /\ RecordsInit(s.games, s.rosters)
                             /\ BrowserInit(s.auth, s.plan, FormerTaps(s.games))
                             /\ SettingsInit
  BY DEF Init
<1>2. games \in Seq(Games)
  BY <1>1, OrganizingAssumption DEF RecordsInit
<1>3. GamesRight /\ GamesTyped
  <2>1. \A i \in DOMAIN games : games[i] \in Games
    BY <1>2
  <2> QED
    BY <1>2, <2>1 DEF GamesRight, GamesTyped, IsSeq, IsGame, Games
<1>4. ASSUME NEW i \in DOMAIN games
      PROVE  [EmptyBody EXCEPT !.about = games[i].about, !.schedule = games[i].schedule,
                               !.location = games[i].location]
                 = [target |-> 0, about |-> games[i].about, schedule |-> games[i].schedule,
                    location |-> games[i].location, rows |-> << >>]
  <2>1. PICK about, schedule, location :
          about = games[i].about /\ schedule = games[i].schedule /\ location = games[i].location
    OBVIOUS
  <2>2. PICK first : first = [EmptyBody EXCEPT !.about = about]
    OBVIOUS
  <2>3. PICK half : half = [first EXCEPT !.schedule = schedule]
    OBVIOUS
  <2>4. first = [target |-> 0, about |-> about, schedule |-> Unset, location |-> Blank, rows |-> << >>]
    BY <2>2 DEF EmptyBody
  <2>5. half = [target |-> 0, about |-> about, schedule |-> schedule, location |-> Blank, rows |-> << >>]
    BY <2>3, <2>4
  <2>6. [half EXCEPT !.location = location]
            = [target |-> 0, about |-> about, schedule |-> schedule, location |-> location,
               rows |-> << >>]
    BY <2>5
  <2> QED
    BY <2>1, <2>2, <2>3, <2>6, Zenon
<1>5. taps = {[from |-> games[i].tap[1], no |-> games[i].tap[2], op |-> "createGame",
               user |-> games[i].createdBy, form |-> FormerForm(games[i]), over |-> TRUE,
               shown |-> [target |-> 0, about |-> games[i].about, schedule |-> games[i].schedule,
                          location |-> games[i].location, rows |-> << >>]]
               : i \in DOMAIN games}
  <2>1. taps = FormerTaps(games)
    BY <1>1 DEF BrowserInit, RecordsInit
  <2> QED
    BY <1>4, <2>1 DEF FormerTaps
<1>6. \A tap \in taps : IsTap(tap)
  BY <1>5 DEF IsTap
<1>7. SettingsFromOneForm
  <2>1. SUFFICES ASSUME NEW i \in DOMAIN games PROVE FromOneForm(i)
    BY DEF SettingsFromOneForm, FromOneForm
  <2>2. games[i] \in Games
    BY <1>2
  <2>3. games[i].tap = <<games[i].tap[1], games[i].tap[2]>>
    BY <2>2 DEF Games
  <2>4. PICK tap :
          tap = [from |-> games[i].tap[1], no |-> games[i].tap[2], op |-> "createGame",
                 user |-> games[i].createdBy, form |-> FormerForm(games[i]), over |-> TRUE,
                 shown |-> [target |-> 0, about |-> games[i].about, schedule |-> games[i].schedule,
                            location |-> games[i].location, rows |-> << >>]]
    OBVIOUS
  <2>5. tap \in taps
    BY <1>5, <2>4
  <2> QED
    BY <2>3, <2>4, <2>5 DEF FromOneForm
<1>8. SettingsPages
  BY <1>1, ClosedIsSettings DEF SettingsInit, SettingsPages
<1>9. calls = {}
  BY <1>1 DEF RecordsInit
<1> QED
  BY <1>3, <1>6, <1>7, <1>8, <1>9 DEF SettingsInv

\* Every call that may change a game is of a tap, and was checked before it does.
THEOREM SettingsInvariant == Spec => [](NewGameInv /\ SettingsInv)
<1>1. Init => NewGameInv /\ SettingsInv
  BY SettingsBegin, DraftsRight
<1>2. NewGameInv /\ SettingsInv /\ [Next]_vars => (NewGameInv /\ SettingsInv)'
  BY SettingsKept, NewGameKept
<1> QED
  BY <1>1, <1>2, PTL DEF Spec

\* Whoever saves from however many tabs and whatever is lost on the way, a game's
\* schedule and location are together those of one tap, of the game's organizer
\* (UpdateGameSettings' check and write in two transactions, save() of the page).
THEOREM SettingsFromOneFormHolds == Spec => []SettingsFromOneForm
<1>1. NewGameInv /\ SettingsInv => SettingsFromOneForm
  BY DEF SettingsInv
<1> QED
  BY <1>1, SettingsInvariant, PTL
-----------------------------------------------------------------------------
(***************************************************************************)
(* What the pages tell.                                                    *)
(*                                                                         *)
(* What is recorded, what a page waits for and what it tells are kept      *)
(* together by the taps.  The invariant ReportedInv says, besides the      *)
(* types of everything, that                                               *)
(*   - each call that a tap made is of a tap in the history (CallFine),    *)
(*     and no two calls of one tap are both still to be served (SentOnce): *)
(*     a tap makes at most one record;                                     *)
(*   - what was sent for a tap is what its form held (TapsFine), and each  *)
(*     record was asked for by a tap of its organizer's, whose form held   *)
(*     what the record says (RecordsFine), and no two records by the same; *)
(*   - a tap that is not over is awaited by its page, which is busy        *)
(*     (Waiting);                                                          *)
(*   - an answer of success was given to a call whose effect is there      *)
(*     still (CallFine, Done), so what a page tells of it is so            *)
(*     (ToldFine);                                                         *)
(*   - settings are of a game that is there (SettingsFound).               *)
(* The number of a tap is what was left of its tab's budget, which only    *)
(* shrinks: the numbers of all that there is are greater, so a new tap's   *)
(* is new.                                                                 *)
(***************************************************************************)

\* With what outcome told.
Outcomes == Statuses \cup {"nothing", "created", "saved"}

\* What the pages ask, with every field; "ids" are the lists that were ever sent.
SentBodies ==
    [target : Nat, about : Texts, schedule : Schedules, location : Texts, rows : Seq(Inputs)]

CallsOf(ids) ==
    [from : Tabs, no : Nat, op : Ops, user : Users \cup {Nobody}, body : SentBodies,
     stage : Stages, heard : BOOLEAN, reply : Replies(ids)]

\* What is remembered of a tap.
Forms == NewGameForms \cup OrganizeForms \cup [SettingsFields -> Texts]

Taps ==
    [from : Tabs, no : Nat, op : Ops, user : Users, form : Forms, shown : SentBodies, over : BOOLEAN]

\* What the pages show and wait for.
NewGames ==
    [alive : BOOLEAN, form : NewGameForms, submitting : BOOLEAN, awaits : Nat, told : Outcomes]

Organizes ==
    [alive : BOOLEAN, entered : OrganizeForms, typed : Texts, submitting : BOOLEAN, awaits : Nat, told : Outcomes]

SettingsForms == [SettingsFields -> Texts]

SettingsPagesSet ==
    [alive : BOOLEAN, game : Nat, form : SettingsForms, notFound : BOOLEAN, submitting : BOOLEAN,
     loads : Nat, awaits : Nat, told : Outcomes]

Boards == [alive : BOOLEAN, status : {"", "following", "account required"}, user : Users \cup {Nobody}, target : {0} \cup Targets]

\* The types of what there is, by who keeps it.  A page in view is alive.
RecordsTyped ==
    /\ games \in Seq(Games)
    /\ rosters \in Seq(Rosters)
    /\ participants \subseteq Users \X DOMAIN rosters
    /\ follows \subseteq Users \X Targets

BrowsersTyped ==
    /\ auth \in [Devices -> Users \cup {Nobody}]
    /\ session \in [Tabs -> Users \cup {Nobody}]
    /\ view \in [Tabs -> Views \cup LoginViews \cup {"elsewhere"}]
    /\ plan \in [Tabs -> TabPlans]

NewGameTyped ==
    /\ newGame \in [Tabs -> NewGames]
    /\ newGameDraft \in [Devices -> NewGameForms \cup {NoDraft}]
    /\ \A t \in Tabs : Shows(t, "newGame") => newGame[t].alive

OrganizeTyped ==
    /\ organize \in [Tabs -> Organizes]
    /\ organizeDraft \in [Devices -> OrganizeForms \cup {NoDraft}]
    /\ \A t \in Tabs : Shows(t, "organize") => organize[t].alive

SettingsTyped == settings \in [Tabs -> SettingsPagesSet]

SettingsInView == \A t \in Tabs : Shows(t, "settings") => settings[t].alive

BoardTyped ==
    /\ board \in [Tabs -> Boards]
    /\ \A t \in Tabs : /\ board[t].alive => board[t].target \in Targets
                       /\ Shows(t, "board") => board[t].alive

CallsTyped(ids) == calls \subseteq CallsOf(ids)

TapsTyped == taps \subseteq Taps

PagesTyped == NewGameTyped /\ OrganizeTyped /\ SettingsTyped /\ SettingsInView /\ BoardTyped

WellTyped ==
    /\ RecordsTyped /\ BrowsersTyped /\ PagesTyped /\ TapsTyped
    /\ \E ids : << >> \in ids /\ CallsTyped(ids)

-----------------------------------------------------------------------------
\* A call is of a tap of its tab and number, and asks for what the tap's page showed.
TapOf(c) ==
    \E tap \in taps : /\ tap.from = c.from /\ tap.no = c.no /\ tap.op = c.op
                      /\ tap.user = c.user /\ tap.shown = c.body

\* The record that the call's tap asks for is there.
Recorded(c) ==
    \/ c.op = "createGame" /\ \E i \in DOMAIN games : games[i].tap = <<c.from, c.no>>
    \/ c.op = "createGameInvite" /\ \E i \in DOMAIN rosters : rosters[i].tap = <<c.from, c.no>>

\* What an answer of success says: the effect is there.
Done(c) ==
    /\ c.op \in {"createGame", "createGameInvite"} => Recorded(c)
    /\ c.op = "createGame" => c.reply.id \in DOMAIN games
    /\ c.op = "updateGame" =>
          \E tap \in taps : /\ tap.from = c.from /\ tap.no = c.no /\ tap.op = c.op
                            /\ tap.shown = c.body
                            /\ tap.shown.target \in DOMAIN games /\ Saved(tap)
    /\ c.op = "follow" => <<c.user, c.body.target>> \in follows

\* Only the creation of a game takes its page elsewhere afterwards, with its tap over.
CallFine(c) ==
    /\ c.no > plan[c.from].calls
    /\ c.op \in {"createGame", "createGameInvite", "updateGame"} => TapOf(c)
    /\ c.stage = "sent" => ~Recorded(c)
    /\ c.stage = "answered" /\ c.reply.status = "ok" => Done(c)
    /\ c.stage = "landing" =>
          /\ c.op = "createGame" /\ c.reply.id \in DOMAIN games
          /\ \A tap \in taps : tap.from = c.from /\ tap.no = c.no => tap.over
    /\ c.op = "follow" => c.body.target \in Targets
    /\ c.op = "follow" /\ c.heard => board[c.from].alive /\ board[c.from].target = c.body.target
    /\ c.op = "updateGame" /\ c.stage = "read" => c.body.target \in DOMAIN games

\* No two calls of one tap are still to be served.
SentOnce ==
    \A c, d \in calls :
        c.stage = "sent" /\ d.stage = "sent" /\ c.from = d.from /\ c.no = d.no => c = d

\* What was sent for a tap is what its form held.
FromForm(tap) ==
    /\ tap.op = "createGame" =>
          /\ tap.shown.about = tap.form["names"]
          /\ StartsAt(tap.form, tap.shown.schedule)
    /\ tap.op = "createGameInvite" =>
          /\ tap.shown.about = tap.form.form["team"]
          /\ tap.shown.rows = tap.form.rows
          /\ StartsAt(tap.form.form, tap.shown.schedule)

\* A tap's number is one that its tab will not give again, and of one tap.
TapsFine ==
    /\ \A tap \in taps : tap.no > plan[tap.from].calls /\ FromForm(tap)
    /\ \A one, other \in taps :
          one.from = other.from /\ one.no = other.no =>
             one.op = other.op /\ one.user = other.user /\ one.form = other.form /\ one.shown = other.shown

\* A page waits, busy, for each of its taps that is not over.
Waiting ==
    \A tap \in taps : ~tap.over =>
        /\ tap.op = "createGame" =>
              /\ newGame[tap.from].alive /\ newGame[tap.from].submitting
              /\ newGame[tap.from].awaits = tap.no
        /\ tap.op = "createGameInvite" =>
              /\ organize[tap.from].alive /\ organize[tap.from].submitting
              /\ organize[tap.from].awaits = tap.no

\* A tap asked for the record, with what the record says but for settings saved since.
GameAsked(i) ==
    \E tap \in taps :
        /\ tap.op = "createGame" /\ <<tap.from, tap.no>> = games[i].tap
        /\ tap.user = games[i].createdBy /\ tap.form["names"] = games[i].about
        /\ StartsAt(tap.form, games[i].schedule) \/ SettingsTapped(i)

RosterAsked(i) ==
    \E tap \in taps :
        /\ tap.op = "createGameInvite" /\ <<tap.from, tap.no>> = rosters[i].tap
        /\ tap.user = rosters[i].organizer /\ tap.form.form["team"] = rosters[i].about
        /\ tap.form.rows = rosters[i].rows
        /\ StartsAt(tap.form.form, rosters[i].schedule)

\* The roster of a game that was there from the start is of no tap (0).
RecordsFine ==
    /\ \A i \in DOMAIN games :
          /\ GameAsked(i)
          /\ games[i].tap[2] > plan[games[i].tap[1]].calls
          /\ \A j \in DOMAIN games : games[i].tap = games[j].tap => i = j
    /\ \A i \in DOMAIN rosters : rosters[i].tap[2] # 0 =>
          /\ RosterAsked(i)
          /\ rosters[i].tap[2] > plan[rosters[i].tap[1]].calls
          /\ \A j \in DOMAIN rosters : rosters[i].tap = rosters[j].tap => i = j

\* What is told is so, in the terms that steps keep.
ToldFine ==
    \A t \in Tabs :
        /\ newGame[t].told = "created" =>
              \E i \in DOMAIN games : games[i].tap = <<t, newGame[t].awaits>>
        /\ organize[t].told = "created" =>
              \E i \in DOMAIN rosters : rosters[i].tap = <<t, organize[t].awaits>>
        /\ settings[t].told = "saved" =>
              \E tap \in taps : /\ tap.op = "updateGame" /\ tap.shown.target = settings[t].game
                                /\ tap.from = t /\ tap.no = settings[t].awaits
                                /\ tap.shown.target \in DOMAIN games /\ Saved(tap)
        /\ \A tap \in taps :
              tap.op = "updateGame" /\ tap.from = t /\ tap.no = settings[t].awaits
                  => tap.shown.target = settings[t].game
        /\ board[t].status = "following" => <<board[t].user, board[t].target>> \in follows

\* Settings are of a game that is there.
SettingsFound == \A t \in Tabs : settings[t].alive => settings[t].game \in DOMAIN games

ReportedInv ==
    /\ WellTyped
    /\ \A c \in calls : CallFine(c)
    /\ SentOnce /\ TapsFine /\ Waiting /\ RecordsFine /\ ToldFine /\ SettingsFound
-----------------------------------------------------------------------------
(***************************************************************************)
(* Pages stay well formed.                                                 *)
(***************************************************************************)

LEMMA UnansweredTyped ==
    ASSUME NEW ids, << >> \in ids, NEW status \in Statuses
    PROVE  Replied(status) \in Replies(ids)
BY DEF Replied, Unanswered, Replies, Schedules, Unset, Texts

LEMMA EmptyBodyTyped == EmptyBody \in SentBodies
BY DEF EmptyBody, SentBodies, Schedules, Unset, Texts

LEMMA TargetBody ==
    ASSUME NEW target \in Nat
    PROVE  /\ [EmptyBody EXCEPT !.target = target] \in SentBodies
           /\ [EmptyBody EXCEPT !.target = target].target = target
BY EmptyBodyTyped DEF SentBodies

LEMMA NewGameBodyTyped ==
    ASSUME NEW form \in NewGameForms
    PROVE  /\ NewGameBody(form) \in SentBodies
           /\ NewGameBody(form).about = form["names"]
           /\ NewGameBody(form).schedule = ScheduleOf(form["date"], form["time"])
<1>1. PICK body : body = [EmptyBody EXCEPT !.about = form["names"]]
  OBVIOUS
<1>2. PICK schedule : schedule = ScheduleOf(form["date"], form["time"])
  OBVIOUS
<1>3. form["names"] \in Texts /\ form["date"] \in Texts /\ form["time"] \in Texts
  BY DEF NewGameForms, NewGameFields
<1>4. schedule \in Schedules
  BY <1>2, <1>3, ScheduleTyped
<1>5. body \in SentBodies /\ body.about = form["names"]
  BY <1>1, <1>3, EmptyBodyTyped DEF SentBodies
<1>6. PICK sent : sent = [body EXCEPT !.schedule = schedule]
  OBVIOUS
<1>7. sent \in SentBodies /\ sent.about = form["names"] /\ sent.schedule = schedule
  BY <1>4, <1>5, <1>6 DEF SentBodies
<1>8. NewGameBody(form) = sent
  BY <1>1, <1>2, <1>6, Zenon DEF NewGameBody
<1> QED
  BY <1>2, <1>7, <1>8

LEMMA OrganizeBodyTyped ==
    ASSUME NEW entered \in OrganizeForms
    PROVE  /\ OrganizeBody(entered) \in SentBodies
           /\ OrganizeBody(entered).about = entered.form["team"]
           /\ OrganizeBody(entered).rows = entered.rows
           /\ OrganizeBody(entered).schedule = ScheduleOf(entered.form["date"], entered.form["time"])
<1>1. PICK about : about = entered.form["team"]
  OBVIOUS
<1>2. PICK rows : rows = entered.rows
  OBVIOUS
<1>3. PICK schedule : schedule = ScheduleOf(entered.form["date"], entered.form["time"])
  OBVIOUS
<1>4. /\ entered.form["team"] \in Texts /\ entered.form["date"] \in Texts
      /\ entered.form["time"] \in Texts /\ rows \in Seq(Inputs)
  BY <1>2 DEF OrganizeForms, OrganizeFields
<1>5. schedule \in Schedules
  BY <1>3, <1>4, ScheduleTyped
<1>6. PICK sent : sent = [EmptyBody EXCEPT !.about = about, !.rows = rows, !.schedule = schedule]
  OBVIOUS
<1>7. /\ sent \in SentBodies
      /\ sent.about = about /\ sent.rows = rows /\ sent.schedule = schedule
  BY <1>1, <1>4, <1>5, <1>6, EmptyBodyTyped DEF SentBodies
<1>8. OrganizeBody(entered) = sent
  BY <1>1, <1>2, <1>3, <1>6, Zenon DEF OrganizeBody
<1> QED
  BY <1>1, <1>2, <1>3, <1>7, <1>8

LEMMA ShownTyped ==
    ASSUME SettingsTyped, NEW t \in Tabs
    PROVE  Shown(t) \in SentBodies /\ Shown(t).target = settings[t].game
<1>1. PICK target : target = settings[t].game
  OBVIOUS
<1>2. PICK location : location = settings[t].form["location"]
  OBVIOUS
<1>3. PICK schedule : schedule = ScheduleOf(settings[t].form["date"], settings[t].form["time"])
  OBVIOUS
<1>4. /\ target \in Nat /\ settings[t].form \in SettingsForms
  BY <1>1 DEF SettingsTyped, SettingsPagesSet
<1>5. /\ location \in Texts /\ schedule \in Schedules
  BY <1>2, <1>3, <1>4, ScheduleTyped DEF SettingsForms, SettingsFields
<1>6. PICK body : body = [EmptyBody EXCEPT !.target = target, !.location = location, !.schedule = schedule]
  OBVIOUS
<1>7. body \in SentBodies /\ body.target = target
  BY <1>4, <1>5, <1>6, EmptyBodyTyped DEF SentBodies
<1>8. Shown(t) = body
  BY <1>1, <1>2, <1>3, <1>6, Zenon DEF Shown
<1> QED
  BY <1>1, <1>7, <1>8

LEMMA ClosedPagesTyped ==
    /\ ClosedNewGame \in NewGames
    /\ ClosedOrganize \in Organizes
    /\ ClosedSettings \in SettingsPagesSet
    /\ ClosedBoard \in Boards
<1>1. ClosedNewGame \in NewGames
  BY DEF ClosedNewGame, NewGames, BlankNewGame, NewGameForms, Texts, Outcomes
<1>2. ClosedOrganize \in Organizes
  BY DEF ClosedOrganize, Organizes, BlankOrganize, OrganizeForms, Texts, Outcomes
<1>3. ClosedSettings \in SettingsPagesSet
  BY DEF ClosedSettings, SettingsPagesSet, SettingsForms, Texts, Outcomes
<1>4. ClosedBoard \in Boards
  BY DEF ClosedBoard, Boards
<1> QED
  BY <1>1, <1>2, <1>3, <1>4

LEMMA NewGameTypedKept ==
    ASSUME WellTyped, [Next]_vars
    PROVE  /\ newGame' \in [Tabs -> NewGames]
           /\ newGameDraft' \in [Devices -> NewGameForms \cup {NoDraft}]
<1>1. /\ newGame \in [Tabs -> NewGames]
      /\ newGameDraft \in [Devices -> NewGameForms \cup {NoDraft}]
      /\ plan \in [Tabs -> TabPlans]
  BY DEF WellTyped, PagesTyped, NewGameTyped, BrowsersTyped
<1>2. ASSUME UNCHANGED newGameVars
      PROVE  /\ newGame' \in [Tabs -> NewGames]
             /\ newGameDraft' \in [Devices -> NewGameForms \cup {NoDraft}]
  BY <1>1, <1>2 DEF newGameVars
<1>3. CASE Serving \/ Failing \/ TakingPart \/ Watching \/ UNCHANGED vars
  BY <1>2, <1>3 DEF Serving, Failing, TakingPart, Watching, vars, pages
<1>4. CASE Using
  <2>1. PICK t \in Tabs : NewGameUser(t) \/ UNCHANGED newGameVars
    BY <1>4 DEF Using
  <2>2. CASE \E f \in NewGameFields, v \in Texts : EditNewGame(t, f, v)
    <3>1. PICK f \in NewGameFields, v \in Texts : EditNewGame(t, f, v)
      BY <2>2
    <3>2. newGame[t].form \in NewGameForms
      BY <1>1 DEF NewGames
    <3>3. PICK form : form = [newGame[t].form EXCEPT ![f] = v]
      OBVIOUS
    <3>4. form \in NewGameForms
      BY <3>2, <3>3 DEF NewGameForms
    <3>5. newGame' = [newGame EXCEPT ![t].form = form]
      BY <3>1, <3>3, Zenon DEF EditNewGame
    <3>6. newGame' \in [Tabs -> NewGames] /\ newGame'[t].form \in NewGameForms
      BY <1>1, <3>4, <3>5 DEF NewGames
    <3>7. newGameDraft' = [newGameDraft EXCEPT ![DeviceOf[t]] = newGame'[t].form]
      BY <3>1 DEF EditNewGame
    <3> QED
      BY <1>1, <3>6, <3>7
  <2>3. CASE SignInFromNewGame(t) \/ CreateNewGameSignedOut(t) \/ UNCHANGED newGameVars
    BY <1>2, <2>3 DEF SignInFromNewGame, CreateNewGameSignedOut, newGameVars
  <2>4. CASE CreateNewGame(t)
    <3>1. PICK no : no = plan[t].calls
      OBVIOUS
    <3>2. PICK pg : pg = [newGame[t] EXCEPT !.submitting = TRUE, !.awaits = no, !.told = "nothing"]
      OBVIOUS
    <3>3. pg \in NewGames
      <4>1. no \in Nat
        BY <1>1, <3>1 DEF TabPlans
      <4>2. newGame[t] \in NewGames
        BY <1>1
      <4> QED
        BY <3>2, <4>1, <4>2 DEF NewGames, Outcomes
    <3>4. newGame' = [newGame EXCEPT ![t] = pg] /\ UNCHANGED newGameDraft
      BY <2>4, <3>1, <3>2, Zenon DEF CreateNewGame
    <3> QED
      BY <1>1, <3>3, <3>4
  <2> QED
    BY <2>1, <2>2, <2>3, <2>4 DEF NewGameUser
<1>5. CASE Receiving
  <2>1. PICK t \in Tabs, c \in calls :
          \/ UNCHANGED newGameVars
          \/ NewGameCreated(t, c) \/ NewGameFails(t, c) \/ NewGameLeft(t, c)
    BY <1>5 DEF Receiving, Land, MyListsReceive
  <2>2. CASE NewGameCreated(t, c)
    <3>1. PICK told : told = IF newGame[t].awaits = c.no THEN "created" ELSE newGame[t].told
      OBVIOUS
    <3>2. told \in Outcomes
      BY <1>1, <3>1 DEF NewGames, Outcomes
    <3>3. newGame' = [newGame EXCEPT ![t].told = told]
      BY <2>2, <3>1 DEF NewGameCreated
    <3>4. newGameDraft' = [newGameDraft EXCEPT ![DeviceOf[t]] = NoDraft]
      BY <2>2 DEF NewGameCreated
    <3> QED
      BY <1>1, <3>2, <3>3, <3>4 DEF NewGames
  <2>3. NoLongerSubmitting(newGame[t], c) \in NewGames
    BY <1>1 DEF NoLongerSubmitting, NewGames
  <2>4. CASE NewGameLeft(t, c)
    <3>1. newGame' = [newGame EXCEPT ![t] = NoLongerSubmitting(newGame[t], c)] /\ UNCHANGED newGameDraft
      BY <2>4 DEF NewGameLeft
    <3> QED
      BY <1>1, <2>3, <3>1
  <2>5. CASE NewGameFails(t, c)
    <3>1. PICK pg : pg = NoLongerSubmitting(newGame[t], c)
      OBVIOUS
    <3>2. PICK told : told = IF newGame[t].awaits = c.no THEN "failed" ELSE newGame[t].told
      OBVIOUS
    <3>3. told \in Outcomes
      BY <1>1, <3>2 DEF NewGames, Outcomes, Statuses
    <3>4. newGame' = [newGame EXCEPT ![t] = [pg EXCEPT !.told = told]] /\ UNCHANGED newGameDraft
      BY <2>5, <3>1, <3>2, Zenon DEF NewGameFails
    <3>5. [pg EXCEPT !.told = told] \in NewGames
      BY <2>3, <3>1, <3>3 DEF NewGames
    <3> QED
      BY <1>1, <3>4, <3>5
  <2> QED
    BY <1>2, <2>1, <2>2, <2>4, <2>5
<1>6. CASE Going
  <2>1. ASSUME NEW t \in Tabs, ShowNewGame(t)
        PROVE  /\ newGame' \in [Tabs -> NewGames]
               /\ newGameDraft' \in [Devices -> NewGameForms \cup {NoDraft}]
    <3>1. CASE newGame[t].alive
      BY <1>1, <2>1, <3>1 DEF ShowNewGame
    <3>2. CASE ~newGame[t].alive
      <4>1. PICK form : form = Restored(newGameDraft[DeviceOf[t]])
        OBVIOUS
      <4>2. newGameDraft[DeviceOf[t]] \in NewGameForms \cup {NoDraft}
        BY <1>1, BrowserAssumption
      <4>3. form \in NewGameForms
        BY <4>1, <4>2 DEF Restored, BlankNewGame, NewGameForms, Texts
      <4>4. PICK closed : closed = ClosedNewGame
        OBVIOUS
      <4>5. [closed EXCEPT !.alive = TRUE, !.form = form] \in NewGames
        BY <4>3, <4>4, ClosedPagesTyped DEF NewGames
      <4>6. /\ newGame' = [newGame EXCEPT ![t] = [closed EXCEPT !.alive = TRUE, !.form = form]]
            /\ newGameDraft' = [newGameDraft EXCEPT ![DeviceOf[t]] = form]
        BY <2>1, <3>2, <4>1, <4>4, Zenon DEF ShowNewGame
      <4> QED
        BY <1>1, <4>3, <4>5, <4>6
    <3> QED
      BY <3>1, <3>2
  <2>2. CASE \E t \in Tabs : Visit(t) \/ Return(t)
    BY <1>2, <2>1, <2>2 DEF Visit, Return
  <2>3. CASE \E t \in Tabs : Close(t) \/ Reload(t)
    <3>1. PICK t \in Tabs : \/ UNCHANGED newGame
                            \/ newGame' = [newGame EXCEPT ![t] = ClosedNewGame]
      BY <2>3 DEF Close, Reload
    <3>2. UNCHANGED newGameDraft
      BY <2>3 DEF Close, Reload
    <3> QED
      BY <1>1, <3>1, <3>2, ClosedPagesTyped
  <2>4. CASE \/ \E t \in Tabs, u \in Users : SignIn(t, u)
             \/ \E t \in Tabs : SignOut(t) \/ Learn(t)
    BY <1>2, <2>4 DEF SignIn, SignOut, Learn, Session
  <2> QED
    BY <1>6, <2>1, <2>2, <2>3, <2>4 DEF Going
<1> QED
  BY <1>3, <1>4, <1>5, <1>6 DEF Next

LEMMA SettingsTypedKept ==
    ASSUME WellTyped, [Next]_vars
    PROVE  SettingsTyped'
<1>1. settings \in [Tabs -> SettingsPagesSet] /\ plan \in [Tabs -> TabPlans]
  BY DEF WellTyped, PagesTyped, SettingsTyped, BrowsersTyped
<1>2. PICK ids : calls \subseteq CallsOf(ids)
  BY DEF WellTyped, CallsTyped
<1>3. ASSUME UNCHANGED settings PROVE SettingsTyped'
  BY <1>1, <1>3 DEF SettingsTyped
<1>4. ASSUME NEW t \in Tabs, NEW id \in Nat, settings' = SettingsOpened(t, id, plan[t].calls)
      PROVE  SettingsTyped'
  <2>1. PICK closed : closed = ClosedSettings
    OBVIOUS
  <2>2. PICK no : no = plan[t].calls
    OBVIOUS
  <2>3. no \in Nat
    BY <1>1, <2>2 DEF TabPlans
  <2>4. [closed EXCEPT !.alive = TRUE, !.game = id, !.loads = no] \in SettingsPagesSet
    BY <2>1, <2>3, ClosedPagesTyped DEF SettingsPagesSet
  <2>5. settings' = [settings EXCEPT ![t] = [closed EXCEPT !.alive = TRUE, !.game = id, !.loads = no]]
    BY <1>4, <2>1, <2>2, Zenon DEF SettingsOpened
  <2> QED
    BY <1>1, <2>4, <2>5 DEF SettingsTyped
<1>5. CASE Serving \/ Failing \/ TakingPart \/ Watching \/ UNCHANGED vars
  BY <1>3, <1>5 DEF Serving, Failing, TakingPart, Watching, vars, pages
<1>6. CASE Using
  <2>1. PICK t \in Tabs : SettingsUser(t) \/ UNCHANGED settings
    BY <1>6 DEF Using
  <2>2. CASE \E id \in DOMAIN games : OpenSettings(t, id)
    <3>1. DOMAIN games \subseteq Nat
      BY DEF WellTyped, RecordsTyped
    <3> QED
      BY <1>4, <2>2, <3>1 DEF OpenSettings
  <2>3. CASE \E f \in SettingsFields, v \in Texts : EditSettings(t, f, v)
    <3>1. PICK f \in SettingsFields, v \in Texts : EditSettings(t, f, v)
      BY <2>3
    <3>2. PICK form : form = [settings[t].form EXCEPT ![f] = v]
      OBVIOUS
    <3>3. form \in SettingsForms
      BY <1>1, <3>2 DEF SettingsPagesSet, SettingsForms
    <3>4. settings' = [settings EXCEPT ![t].form = form]
      BY <3>1, <3>2, Zenon DEF EditSettings
    <3> QED
      BY <1>1, <3>3, <3>4 DEF SettingsTyped, SettingsPagesSet
  <2>4. CASE SaveSettings(t)
    <3>1. PICK no : no = plan[t].calls
      OBVIOUS
    <3>2. PICK pg : pg = [settings[t] EXCEPT !.submitting = TRUE, !.awaits = no, !.told = "nothing"]
      OBVIOUS
    <3>3. pg \in SettingsPagesSet
      <4>1. no \in Nat
        BY <1>1, <3>1 DEF TabPlans
      <4>2. settings[t] \in SettingsPagesSet
        BY <1>1
      <4> QED
        BY <3>2, <4>1, <4>2 DEF SettingsPagesSet, Outcomes
    <3>4. settings' = [settings EXCEPT ![t] = pg]
      BY <2>4, <3>1, <3>2, Zenon DEF SaveSettings
    <3> QED
      BY <1>1, <3>3, <3>4 DEF SettingsTyped
  <2>5. CASE SaveSettingsSignedOut(t)
    BY <1>1, <2>5 DEF SaveSettingsSignedOut, SettingsTyped, SettingsPagesSet, Outcomes, Statuses
  <2> QED
    BY <1>3, <2>1, <2>2, <2>3, <2>4, <2>5 DEF SettingsUser
<1>7. CASE Receiving
  <2>1. PICK t \in Tabs, c \in calls : UNCHANGED settings \/ Land(t, c) \/ SettingsReceive(t, c)
    BY <1>7 DEF Receiving, MyListsReceive
  <2>2. c \in CallsOf(ids)
    BY <1>2
  <2>3. CASE Land(t, c)
    <3>1. c.reply.id \in Nat
      BY <2>2 DEF CallsOf, Replies
    <3> QED
      BY <1>3, <1>4, <2>3, <3>1 DEF Land
  <2>4. CASE SettingsLoaded(t, c)
    <3>1. PICK form : form = [f \in SettingsFields |->
                                CASE f = "date" -> c.reply.schedule[1]
                                  [] f = "time" -> c.reply.schedule[2]
                                  [] f = "location" -> c.reply.location]
      OBVIOUS
    <3>2. form \in SettingsForms
      <4>1. c.reply.schedule \in Schedules /\ c.reply.location \in Texts
        BY <2>2 DEF CallsOf, Replies
      <4>2. c.reply.schedule[1] \in Texts /\ c.reply.schedule[2] \in Texts
        BY <4>1, ScheduleParts
      <4> QED
        BY <3>1, <4>1, <4>2 DEF SettingsForms, SettingsFields
    <3>3. settings' = [settings EXCEPT ![t].notFound = FALSE, ![t].form = form]
      BY <2>4, <3>1, Zenon DEF SettingsLoaded
    <3> QED
      BY <1>1, <3>2, <3>3 DEF SettingsTyped, SettingsPagesSet
  <2>5. CASE SettingsNotLoaded(t, c)
    BY <1>1, <2>5 DEF SettingsNotLoaded, SettingsTyped, SettingsPagesSet
  <2>6. CASE SettingsSaved(t, c)
    BY <1>1, <2>6 DEF SettingsSaved, SettingsTyped, SettingsPagesSet, Outcomes
  <2>7. CASE SettingsNotSaved(t, c)
    <3>1. c.reply.status \in Outcomes
      BY <2>2 DEF CallsOf, Replies, Outcomes
    <3>2. settings' = [settings EXCEPT ![t].submitting = FALSE, ![t].told = c.reply.status]
      BY <2>7 DEF SettingsNotSaved
    <3> QED
      BY <1>1, <3>1, <3>2 DEF SettingsTyped, SettingsPagesSet
  <2> QED
    BY <1>3, <2>1, <2>3, <2>4, <2>5, <2>6, <2>7 DEF SettingsReceive
<1>8. CASE Going
  <2>1. CASE \E t \in Tabs : Visit(t) \/ Return(t)
    BY <1>3, <2>1 DEF Visit, Return
  <2>2. CASE \E t \in Tabs : Close(t) \/ Reload(t)
    <3>1. PICK t \in Tabs : UNCHANGED settings \/ settings' = [settings EXCEPT ![t] = ClosedSettings]
      BY <2>2 DEF Close, Reload
    <3> QED
      BY <1>1, <3>1, ClosedPagesTyped DEF SettingsTyped
  <2>3. CASE \/ \E t \in Tabs, u \in Users : SignIn(t, u)
             \/ \E t \in Tabs : SignOut(t) \/ Learn(t)
    BY <1>3, <2>3 DEF SignIn, SignOut, Learn, Session
  <2> QED
    BY <1>8, <2>1, <2>2, <2>3 DEF Going
<1> QED
  BY <1>5, <1>6, <1>7, <1>8 DEF Next

LEMMA RowRemoved ==
    ASSUME NEW rows \in Seq(Inputs), NEW i \in DOMAIN rows
    PROVE  Without(rows, i) \in Seq(Inputs)
<1>1. i \in 1 .. Len(rows) /\ Len(rows) \in Nat
  OBVIOUS
<1>2. \A j \in 1 .. i - 1 : rows[j] \in Inputs
  BY <1>1
<1>3. SubSeq(rows, 1, i - 1) \in Seq(Inputs)
  BY <1>1, <1>2, SubSeqProperties
<1>4. \A j \in i + 1 .. Len(rows) : rows[j] \in Inputs
  BY <1>1
<1>5. SubSeq(rows, i + 1, Len(rows)) \in Seq(Inputs)
  BY <1>1, <1>4, SubSeqProperties
<1> QED
  BY <1>3, <1>5, ConcatProperties DEF Without

LEMMA DraftedTyped ==
    ASSUME NEW entered \in OrganizeForms
    PROVE  Drafted(entered) \in OrganizeForms
<1>1. CASE entered.form["repeats"] # Blank
  BY <1>1 DEF Drafted
<1>2. CASE entered.form["repeats"] = Blank
  <2>1. PICK form : form = [entered.form EXCEPT !["weekly"] = Blank]
    OBVIOUS
  <2>2. form \in [OrganizeFields -> Texts]
    BY <2>1 DEF OrganizeForms, Texts
  <2>3. [entered EXCEPT !.form = form] \in OrganizeForms
    BY <2>2 DEF OrganizeForms
  <2>4. Drafted(entered) = [entered EXCEPT !.form = form]
    BY <1>2, <2>1, Zenon DEF Drafted
  <2> QED
    BY <2>3, <2>4
<1> QED
  BY <1>1, <1>2

LEMMA OrganizeTypedKept ==
    ASSUME WellTyped, [Next]_vars
    PROVE  /\ organize' \in [Tabs -> Organizes]
           /\ organizeDraft' \in [Devices -> OrganizeForms \cup {NoDraft}]
<1>1. /\ organize \in [Tabs -> Organizes]
      /\ organizeDraft \in [Devices -> OrganizeForms \cup {NoDraft}]
      /\ plan \in [Tabs -> TabPlans]
  BY DEF WellTyped, PagesTyped, OrganizeTyped, BrowsersTyped
<1> DEFINE Goal == /\ organize' \in [Tabs -> Organizes]
                   /\ organizeDraft' \in [Devices -> OrganizeForms \cup {NoDraft}]
<1>2. ASSUME UNCHANGED organizeVars PROVE Goal
  BY <1>1, <1>2 DEF organizeVars
<1>3. ASSUME NEW t \in Tabs, NEW pg \in Organizes, organize' = [organize EXCEPT ![t] = pg]
      PROVE  organize' \in [Tabs -> Organizes]
  BY <1>1, <1>3
<1>4. ASSUME NEW t \in Tabs, NEW pg \in Organizes, Enters(t, pg)
      PROVE  Goal
  <2>1. pg.entered \in OrganizeForms
    BY DEF Organizes
  <2>2. Drafted(pg.entered) \in OrganizeForms
    BY <2>1, DraftedTyped
  <2>3. /\ organize' = [organize EXCEPT ![t] = pg]
        /\ organizeDraft' = [organizeDraft EXCEPT ![DeviceOf[t]] = Drafted(pg.entered)]
    BY <1>4 DEF Enters
  <2> QED
    BY <1>1, <2>2, <2>3
<1> HIDE DEF Goal
<1>5. ASSUME Serving \/ Failing \/ TakingPart \/ Watching \/ UNCHANGED vars PROVE Goal
  BY <1>2, <1>5 DEF Serving, Failing, TakingPart, Watching, vars, pages
<1>6. ASSUME Using PROVE Goal
  <2>1. PICK t \in Tabs : OrganizeUser(t) \/ UNCHANGED organizeVars
    BY <1>6 DEF Using
  <2>2. organize[t] \in Organizes
    BY <1>1
  <2>3. organize[t].entered \in OrganizeForms
    BY <2>2 DEF Organizes
  <2>4. CASE \E f \in OrganizeFields, v \in Texts : EditOrganize(t, f, v)
    <3>1. PICK f \in OrganizeFields, v \in Texts : EditOrganize(t, f, v)
      BY <2>4
    <3>2. PICK form : form = [organize[t].entered.form EXCEPT ![f] = v]
      OBVIOUS
    <3>3. form \in [OrganizeFields -> Texts]
      BY <2>3, <3>2 DEF OrganizeForms
    <3>4. PICK entered : entered = [organize[t].entered EXCEPT !.form = form]
      OBVIOUS
    <3>5. entered \in OrganizeForms
      BY <2>3, <3>3, <3>4 DEF OrganizeForms
    <3>6. PICK pg : pg = [organize[t] EXCEPT !.entered = entered]
      OBVIOUS
    <3>7. pg \in Organizes
      BY <2>2, <3>5, <3>6 DEF Organizes
    <3>8. Enters(t, pg)
      BY <3>1, <3>2, <3>4, <3>6, Zenon DEF EditOrganize
    <3> QED
      BY <1>4, <3>7, <3>8
  <2>5. CASE \E v \in Texts : TypeRow(t, v)
    <3>1. PICK v \in Texts : TypeRow(t, v)
      BY <2>5
    <3>2. PICK pg : pg = [organize[t] EXCEPT !.typed = v]
      OBVIOUS
    <3>3. pg \in Organizes
      BY <2>2, <3>2 DEF Organizes
    <3>4. organize' = [organize EXCEPT ![t] = pg] /\ UNCHANGED organizeDraft
      BY <3>1, <3>2, Zenon DEF TypeRow
    <3> QED
      BY <1>1, <1>3, <3>3, <3>4 DEF Goal
  <2>6. CASE AddRow(t)
    <3>1. organize[t].typed \in Inputs
      BY <2>2, <2>6 DEF AddRow, Organizes, Texts
    <3>2. PICK rows : rows = Append(organize[t].entered.rows, organize[t].typed)
      OBVIOUS
    <3>3. rows \in Seq(Inputs)
      <4>1. organize[t].entered.rows \in Seq(Inputs)
        BY <2>3 DEF OrganizeForms
      <4> QED
        BY <3>1, <3>2, <4>1
    <3>4. PICK entered : entered = [organize[t].entered EXCEPT !.rows = rows]
      OBVIOUS
    <3>5. entered \in OrganizeForms
      BY <2>3, <3>3, <3>4 DEF OrganizeForms
    <3>6. PICK pg : pg = [organize[t] EXCEPT !.entered = entered, !.typed = Blank]
      OBVIOUS
    <3>7. pg \in Organizes
      BY <2>2, <3>5, <3>6 DEF Organizes, Texts
    <3>8. Enters(t, pg)
      BY <2>6, <3>2, <3>4, <3>6, Zenon DEF AddRow
    <3> QED
      BY <1>4, <3>7, <3>8
  <2>7. CASE \E i \in 1 .. MaxRows : RemoveRow(t, i)
    <3>1. PICK i \in 1 .. MaxRows : RemoveRow(t, i)
      BY <2>7
    <3>2. PICK rows : rows = Without(organize[t].entered.rows, i)
      OBVIOUS
    <3>3. rows \in Seq(Inputs)
      <4>1. organize[t].entered.rows \in Seq(Inputs) /\ i \in DOMAIN organize[t].entered.rows
        BY <2>3, <3>1 DEF OrganizeForms, RemoveRow
      <4> QED
        BY <3>2, <4>1, RowRemoved
    <3>4. PICK entered : entered = [organize[t].entered EXCEPT !.rows = rows]
      OBVIOUS
    <3>5. entered \in OrganizeForms
      BY <2>3, <3>3, <3>4 DEF OrganizeForms
    <3>6. PICK pg : pg = [organize[t] EXCEPT !.entered = entered]
      OBVIOUS
    <3>7. pg \in Organizes
      BY <2>2, <3>5, <3>6 DEF Organizes
    <3>8. Enters(t, pg)
      BY <3>1, <3>2, <3>4, <3>6, Zenon DEF RemoveRow
    <3> QED
      BY <1>4, <3>7, <3>8
  <2>8. CASE SignInFromOrganize(t) \/ OrganizeSignedOut(t) \/ UNCHANGED organizeVars
    BY <1>2, <2>8 DEF SignInFromOrganize, OrganizeSignedOut, organizeVars
  <2>9. CASE Organize(t)
    <3>1. PICK no : no = plan[t].calls
      OBVIOUS
    <3>2. PICK pg : pg = [organize[t] EXCEPT !.submitting = TRUE, !.awaits = no, !.told = "nothing"]
      OBVIOUS
    <3>3. pg \in Organizes
      <4>1. no \in Nat
        BY <1>1, <3>1 DEF TabPlans
      <4> QED
        BY <2>2, <3>2, <4>1 DEF Organizes, Outcomes
    <3>4. organize' = [organize EXCEPT ![t] = pg] /\ UNCHANGED organizeDraft
      BY <2>9, <3>1, <3>2, Zenon DEF Organize
    <3> QED
      BY <1>1, <1>3, <3>3, <3>4 DEF Goal
  <2> QED
    BY <2>1, <2>4, <2>5, <2>6, <2>7, <2>8, <2>9 DEF OrganizeUser
<1>7. ASSUME Receiving PROVE Goal
  <2>1. PICK t \in Tabs, c \in calls :
          UNCHANGED organizeVars \/ Organized(t, c) \/ OrganizeFails(t, c)
    BY <1>7 DEF Receiving, Land, MyListsReceive
  <2>2. c.no \in Nat
    BY DEF WellTyped, CallsTyped, CallsOf
  <2>3. organize[t] \in Organizes
    BY <1>1
  <2>4. CASE Organized(t, c)
    <3>1. PICK closed : closed = ClosedOrganize
      OBVIOUS
    <3>2. PICK gone : gone = [closed EXCEPT !.awaits = c.no, !.told = "created"]
      OBVIOUS
    <3>3. PICK below : below = [organize[t] EXCEPT !.submitting = FALSE, !.told = "created"]
      OBVIOUS
    <3>4. gone \in Organizes /\ below \in Organizes
      BY <2>2, <2>3, <3>1, <3>2, <3>3, ClosedPagesTyped DEF Organizes, Outcomes
    <3>5. PICK pg : pg = IF Shows(t, "organize") THEN gone
                         ELSE IF organize[t].awaits = c.no THEN below ELSE organize[t]
      OBVIOUS
    <3>6. pg \in Organizes
      BY <2>3, <3>4, <3>5
    <3>7. organize' = [organize EXCEPT ![t] = pg]
      BY <2>4, <3>1, <3>2, <3>3, <3>5, Zenon DEF Organized
    <3>8. organizeDraft' = [organizeDraft EXCEPT ![DeviceOf[t]] = NoDraft]
      BY <2>4 DEF Organized
    <3> QED
      BY <1>1, <1>3, <3>6, <3>7, <3>8 DEF Goal
  <2>5. CASE OrganizeFails(t, c)
    <3>1. PICK left : left = [organize[t] EXCEPT !.submitting = FALSE, !.told = "failed"]
      OBVIOUS
    <3>2. left \in Organizes
      BY <2>3, <3>1 DEF Organizes, Outcomes, Statuses
    <3>3. PICK pg : pg = IF organize[t].awaits = c.no THEN left ELSE organize[t]
      OBVIOUS
    <3>4. pg \in Organizes
      BY <2>3, <3>2, <3>3
    <3>5. organize' = [organize EXCEPT ![t] = pg] /\ UNCHANGED organizeDraft
      BY <2>5, <3>1, <3>3, Zenon DEF OrganizeFails
    <3> QED
      BY <1>1, <1>3, <3>4, <3>5 DEF Goal
  <2> QED
    BY <1>2, <2>1, <2>4, <2>5
<1>8. ASSUME Going PROVE Goal
  <2>1. ASSUME NEW t \in Tabs, ShowOrganize(t) PROVE Goal
    <3>1. CASE organize[t].alive
      BY <1>1, <2>1, <3>1 DEF ShowOrganize, Goal
    <3>2. CASE ~organize[t].alive
      <4>1. PICK entered : entered = Resumed(organizeDraft[DeviceOf[t]])
        OBVIOUS
      <4>2. organizeDraft[DeviceOf[t]] \in OrganizeForms \cup {NoDraft}
        BY <1>1, BrowserAssumption
      <4>3. entered \in OrganizeForms
        BY <4>1, <4>2 DEF Resumed, BlankOrganize, OrganizeForms, Texts
      <4>4. PICK closed : closed = ClosedOrganize
        OBVIOUS
      <4>5. [closed EXCEPT !.alive = TRUE, !.entered = entered] \in Organizes
        BY <4>3, <4>4, ClosedPagesTyped DEF Organizes
      <4>6. /\ organize' = [organize EXCEPT ![t] = [closed EXCEPT !.alive = TRUE, !.entered = entered]]
            /\ organizeDraft' = [organizeDraft EXCEPT ![DeviceOf[t]] = Drafted(entered)]
        BY <2>1, <3>2, <4>1, <4>4, Zenon DEF ShowOrganize
      <4>7. Drafted(entered) \in OrganizeForms
        BY <4>3, DraftedTyped
      <4> QED
        BY <1>1, <4>5, <4>6, <4>7 DEF Goal
    <3> QED
      BY <3>1, <3>2
  <2>2. CASE \E t \in Tabs : Visit(t) \/ Return(t)
    BY <1>2, <2>1, <2>2 DEF Visit, Return
  <2>3. CASE \E t \in Tabs : Close(t) \/ Reload(t)
    <3>1. PICK t \in Tabs : \/ UNCHANGED organize
                            \/ organize' = [organize EXCEPT ![t] = ClosedOrganize]
      BY <2>3 DEF Close, Reload
    <3>2. UNCHANGED organizeDraft
      BY <2>3 DEF Close, Reload
    <3> QED
      BY <1>1, <3>1, <3>2, ClosedPagesTyped DEF Goal
  <2>4. CASE \/ \E t \in Tabs, u \in Users : SignIn(t, u)
             \/ \E t \in Tabs : SignOut(t) \/ Learn(t)
    BY <1>2, <2>4 DEF SignIn, SignOut, Learn, Session
  <2> QED
    BY <1>8, <2>1, <2>2, <2>3, <2>4 DEF Going
<1> QED
  BY <1>5, <1>6, <1>7, <1>8 DEF Next, Goal

-----------------------------------------------------------------------------
(***************************************************************************)
(* Budgets, sessions and views.                                            *)
(***************************************************************************)

\* No tab's budget ever grows, and what is sent is paid for.
PlanStep == \A t \in Tabs : plan'[t].calls <= plan[t].calls

Paid(t) == plan'[t].calls < plan[t].calls

LEMMA CallPaid ==
    ASSUME BrowsersTyped, NEW t \in Tabs, MayCall(t), plan' = [plan EXCEPT ![t].calls = @ - 1]
    PROVE  plan' \in [Tabs -> TabPlans] /\ PlanStep /\ Paid(t) /\ plan[t].calls \in Nat \ {0}
<1>1. plan \in [Tabs -> TabPlans]
  BY DEF BrowsersTyped
<1>2. plan[t].calls \in Nat \ {0}
  BY <1>1 DEF TabPlans, MayCall
<1>3. plan' \in [Tabs -> TabPlans]
  BY <1>1, <1>2 DEF TabPlans
<1>4. \A p \in Tabs : plan'[p].calls = IF p = t THEN plan[t].calls - 1 ELSE plan[p].calls
  BY <1>1 DEF TabPlans
<1>5. \A p \in Tabs : plan[p].calls \in Nat
  BY <1>1 DEF TabPlans
<1> QED
  BY <1>2, <1>3, <1>4, <1>5 DEF PlanStep, Paid

LEMMA EditPaid ==
    ASSUME BrowsersTyped, NEW t \in Tabs, Edits(t)
    PROVE  plan' \in [Tabs -> TabPlans] /\ PlanStep
<1>1. plan \in [Tabs -> TabPlans]
  BY DEF BrowsersTyped
<1>2. plan[t].edits \in Nat \ {0}
  BY <1>1 DEF TabPlans, Edits
<1>3. plan' \in [Tabs -> TabPlans]
  BY <1>1, <1>2 DEF TabPlans, Edits
<1>4. \A p \in Tabs : plan'[p].calls = plan[p].calls
  BY <1>1 DEF TabPlans, Edits
<1>5. \A p \in Tabs : plan[p].calls \in Nat
  BY <1>1 DEF TabPlans
<1> QED
  BY <1>3, <1>4, <1>5 DEF PlanStep

LEMMA PlanSame ==
    ASSUME BrowsersTyped, UNCHANGED plan
    PROVE  plan' \in [Tabs -> TabPlans] /\ PlanStep
BY DEF BrowsersTyped, PlanStep, TabPlans

LEMMA SessionPaid ==
    ASSUME BrowsersTyped, NEW t \in Tabs, NEW u, Session(t, u)
    PROVE  /\ plan' \in [Tabs -> TabPlans] /\ PlanStep
           /\ Asks(t, u) => Paid(t) /\ plan[t].calls \in Nat \ {0}
<1>1. CASE Asks(t, u)
  BY <1>1, CallPaid DEF Session
<1>2. CASE ~Asks(t, u)
  BY <1>2, PlanSame DEF Session
<1> QED
  BY <1>1, <1>2

LEMMA PlanKept ==
    ASSUME BrowsersTyped, [Next]_vars
    PROVE  plan' \in [Tabs -> TabPlans] /\ PlanStep
<1> DEFINE Goal == plan' \in [Tabs -> TabPlans] /\ PlanStep
<1>1. ASSUME UNCHANGED plan PROVE Goal
  BY <1>1, PlanSame
<1>2. ASSUME NEW t \in Tabs, NEW op, NEW body, CallFrom(t, op, body) PROVE Goal
  BY <1>2, CallPaid DEF CallFrom
<1>3. ASSUME NEW t \in Tabs, Edits(t) PROVE Goal
  BY <1>3, EditPaid
<1> HIDE DEF Goal
<1>4. ASSUME Serving \/ Failing \/ TakingPart \/ Watching \/ UNCHANGED vars PROVE Goal
  BY <1>1, <1>4 DEF Serving, Failing, TakingPart, Watching, Snapshot, vars, client
<1>5. ASSUME Using PROVE Goal
  <2>1. PICK t \in Tabs : NewGameUser(t) \/ OrganizeUser(t) \/ SettingsUser(t) \/ MyListsUser(t)
    BY <1>5 DEF Using
  <2>2. CASE NewGameUser(t)
    BY <1>1, <1>2, <1>3, <2>2 DEF NewGameUser, EditNewGame, SignInFromNewGame, CreateNewGameSignedOut,
                                  CreateNewGame, TapFrom
  <2>3. CASE OrganizeUser(t)
    BY <1>1, <1>2, <1>3, <2>3 DEF OrganizeUser, EditOrganize, TypeRow, AddRow, RemoveRow, Enters,
                                  SignInFromOrganize, OrganizeSignedOut, Organize, TapFrom
  <2>4. CASE SettingsUser(t)
    BY <1>1, <1>2, <1>3, <2>4 DEF SettingsUser, OpenSettings, EditSettings, SaveSettings,
                                  SaveSettingsSignedOut
  <2>5. CASE MyListsUser(t)
    BY <1>1, <1>2, <2>5 DEF MyListsUser, SignInFromRosters, Retry, Follow, FollowSignedOut
  <2> QED
    BY <2>1, <2>2, <2>3, <2>4, <2>5
<1>6. ASSUME Receiving PROVE Goal
  <2>1. PICK t \in Tabs, c \in calls :
          \/ NewGameCreated(t, c) \/ NewGameFails(t, c) \/ Land(t, c) \/ Organized(t, c)
          \/ OrganizeFails(t, c) \/ SettingsReceive(t, c) \/ MyListsReceive(t)
    BY <1>6 DEF Receiving, MyListsReceive
  <2>2. CASE Land(t, c)
    <3>1. UNCHANGED plan \/ (MayCall(t) /\ plan' = [plan EXCEPT ![t].calls = @ - 1])
      BY <2>2 DEF Land
    <3> QED
      BY <1>1, <3>1, CallPaid DEF Goal
  <2> QED
    BY <1>1, <2>1, <2>2 DEF NewGameCreated, NewGameFails, Organized, OrganizeFails, SettingsReceive,
         SettingsLoaded, SettingsNotLoaded, SettingsSaved, SettingsNotSaved, MyListsReceive,
         RostersListed, RostersNotListed, Following, NotFollowing
<1>7. ASSUME Going PROVE Goal
  <2>1. CASE \E t \in Tabs : Visit(t) \/ Return(t)
    BY <1>1, <1>2, <2>1 DEF Visit, Return, ShowMyGames, ShowMyRosters, ShowBoard
  <2>2. CASE \E t \in Tabs : Close(t) \/ Reload(t)
    BY <1>1, <2>2 DEF Close, Reload
  <2>3. CASE \E t \in Tabs, u \in Users : SignIn(t, u)
    BY <2>3, SessionPaid DEF SignIn, Goal
  <2>4. CASE \E t \in Tabs : SignOut(t) \/ Learn(t)
    BY <2>4, SessionPaid DEF SignOut, Learn, Goal
  <2> QED
    BY <1>7, <2>1, <2>2, <2>3, <2>4 DEF Going
<1> QED
  BY <1>4, <1>5, <1>6, <1>7 DEF Next, Goal

LEMMA SessionTypedKept ==
    ASSUME WellTyped, [Next]_vars
    PROVE  /\ auth' \in [Devices -> Users \cup {Nobody}]
           /\ session' \in [Tabs -> Users \cup {Nobody}]
<1>1. /\ auth \in [Devices -> Users \cup {Nobody}]
      /\ session \in [Tabs -> Users \cup {Nobody}]
  BY DEF WellTyped, BrowsersTyped
<1> DEFINE Goal == /\ auth' \in [Devices -> Users \cup {Nobody}]
                   /\ session' \in [Tabs -> Users \cup {Nobody}]
<1>2. ASSUME UNCHANGED <<auth, session>> PROVE Goal
  BY <1>1, <1>2
<1> HIDE DEF Goal
<1>3. ASSUME NEW t \in Tabs, NEW u \in Users \cup {Nobody},
             UNCHANGED auth \/ auth' = [auth EXCEPT ![DeviceOf[t]] = u],
             UNCHANGED session \/ session' = [session EXCEPT ![t] = u]
      PROVE  Goal
  BY <1>1, <1>3, BrowserAssumption DEF Goal
<1>4. ASSUME Serving \/ Failing \/ TakingPart \/ Watching \/ UNCHANGED vars PROVE Goal
  BY <1>2, <1>4 DEF Serving, Failing, TakingPart, Watching, Snapshot, vars, client
<1>5. ASSUME Using PROVE Goal
  <2>1. PICK t \in Tabs : NewGameUser(t) \/ OrganizeUser(t) \/ SettingsUser(t) \/ MyListsUser(t)
    BY <1>5 DEF Using
  <2>2. CASE NewGameUser(t)
    BY <1>2, <2>2 DEF NewGameUser, EditNewGame, SignInFromNewGame, CreateNewGameSignedOut, CreateNewGame
  <2>3. CASE OrganizeUser(t)
    BY <1>2, <2>3 DEF OrganizeUser, EditOrganize, TypeRow, AddRow, RemoveRow, Enters,
                      SignInFromOrganize, OrganizeSignedOut, Organize
  <2>4. CASE SettingsUser(t)
    BY <1>2, <2>4 DEF SettingsUser, OpenSettings, EditSettings, SaveSettings, SaveSettingsSignedOut
  <2>5. CASE MyListsUser(t)
    BY <1>2, <2>5 DEF MyListsUser, SignInFromRosters, Retry, Follow, FollowSignedOut
  <2> QED
    BY <2>1, <2>2, <2>3, <2>4, <2>5
<1>6. ASSUME Receiving PROVE Goal
  <2>1. PICK t \in Tabs, c \in calls :
          \/ NewGameCreated(t, c) \/ NewGameFails(t, c) \/ Land(t, c) \/ Organized(t, c)
          \/ OrganizeFails(t, c) \/ SettingsReceive(t, c) \/ MyListsReceive(t)
    BY <1>6 DEF Receiving, MyListsReceive
  <2> QED
    BY <1>2, <2>1 DEF NewGameCreated, NewGameFails, Land, Organized, OrganizeFails, SettingsReceive,
         SettingsLoaded, SettingsNotLoaded, SettingsSaved, SettingsNotSaved, MyListsReceive,
         RostersListed, RostersNotListed, Following, NotFollowing
<1>7. ASSUME Going PROVE Goal
  <2>1. CASE \E t \in Tabs : Visit(t) \/ Return(t) \/ Close(t)
    BY <1>2, <2>1 DEF Visit, Return, ShowMyGames, ShowMyRosters, ShowBoard, Close
  <2>2. ASSUME NEW t \in Tabs, Reload(t) \/ Learn(t) PROVE Goal
    <3>1. PICK u \in Users \cup {Nobody} : u = auth[DeviceOf[t]]
      BY <1>1, BrowserAssumption
    <3>2. UNCHANGED auth /\ session' = [session EXCEPT ![t] = u]
      BY <2>2, <3>1 DEF Reload, Learn, Session
    <3> QED
      BY <1>3, <3>2
  <2>3. ASSUME NEW t \in Tabs, NEW u \in Users, SignIn(t, u) PROVE Goal
    BY <1>3, <2>3 DEF SignIn, Session
  <2>4. ASSUME NEW t \in Tabs, SignOut(t) PROVE Goal
    BY <1>3, <2>4 DEF SignOut, Session
  <2> QED
    BY <1>7, <2>1, <2>2, <2>3, <2>4 DEF Going
<1> QED
  BY <1>4, <1>5, <1>6, <1>7 DEF Next, Goal

AllViews == Views \cup LoginViews \cup {"elsewhere"}


\* A page comes into view.
OpensSettings(t) == \E id \in Nat : settings' = SettingsOpened(t, id, plan[t].calls)

Opens(t, v) ==
    \/ v = "newGame" /\ ShowNewGame(t)
    \/ v = "organize" /\ ShowOrganize(t)
    \/ v = "settings" /\ OpensSettings(t)
    \/ v = "myGames" /\ ShowMyGames(t)
    \/ v = "rosters" /\ ShowMyRosters(t)
    \/ v = "board" /\ \E target \in Targets : ShowBoard(t, target)

LEMMA ViewKept ==
    ASSUME WellTyped, [Next]_vars
    PROVE  /\ view' \in [Tabs -> AllViews]
           /\ \A t \in Tabs : view'[t] \in Views => view'[t] = view[t] \/ Opens(t, view'[t])
<1>1. view \in [Tabs -> AllViews]
  BY DEF WellTyped, BrowsersTyped, AllViews
<1> DEFINE Goal ==
      /\ view' \in [Tabs -> AllViews]
      /\ \A t \in Tabs : view'[t] \in Views => view'[t] = view[t] \/ Opens(t, view'[t])
<1>2. ASSUME UNCHANGED view PROVE Goal
  BY <1>1, <1>2
<1>3. ASSUME NEW t \in Tabs, NEW v \in AllViews \ Views, view' = [view EXCEPT ![t] = v]
      PROVE  Goal
  BY <1>1, <1>3
<1>4. ASSUME NEW t \in Tabs, NEW v \in Views, view' = [view EXCEPT ![t] = v], Opens(t, v)
      PROVE  Goal
  BY <1>1, <1>4 DEF AllViews
<1> HIDE DEF Goal
<1>5. ASSUME NEW t \in Tabs, ShowNewGame(t) \/ ShowOrganize(t) \/ ShowMyGames(t) \/ ShowMyRosters(t)
      PROVE  Goal
  BY <1>4, <1>5 DEF ShowNewGame, ShowOrganize, ShowMyGames, ShowMyRosters, Opens, Views
<1>6. ASSUME NEW t \in Tabs, NEW target \in Targets, ShowBoard(t, target) PROVE Goal
  <2>1. view' = [view EXCEPT ![t] = "board"] /\ Opens(t, "board")
    BY <1>6 DEF ShowBoard, Opens
  <2> QED
    BY <1>4, <2>1 DEF Views
<1>7. ASSUME NEW t \in Tabs, view' = [view EXCEPT ![t] = "settings"], OpensSettings(t) PROVE Goal
  BY <1>4, <1>7 DEF Opens, Views
<1>8. {"elsewhere", "loginForNewGame", "loginForOrganize", "loginForRosters"} \subseteq AllViews \ Views
  BY DEF AllViews, Views, LoginViews
<1>9. ASSUME Serving \/ Failing \/ TakingPart \/ Watching \/ UNCHANGED vars PROVE Goal
  BY <1>2, <1>9 DEF Serving, Failing, TakingPart, Watching, Snapshot, vars, client
<1>10. ASSUME Using PROVE Goal
  <2>1. PICK t \in Tabs : NewGameUser(t) \/ OrganizeUser(t) \/ SettingsUser(t) \/ MyListsUser(t)
    BY <1>10 DEF Using
  <2>2. CASE NewGameUser(t)
    BY <1>2, <1>3, <1>8, <2>2 DEF NewGameUser, EditNewGame, SignInFromNewGame, CreateNewGameSignedOut,
                                  CreateNewGame
  <2>3. CASE OrganizeUser(t)
    BY <1>2, <1>3, <1>8, <2>3 DEF OrganizeUser, EditOrganize, TypeRow, AddRow, RemoveRow, Enters,
                                  SignInFromOrganize, OrganizeSignedOut, Organize
  <2>4. CASE SettingsUser(t)
    <3>1. CASE \E id \in DOMAIN games : OpenSettings(t, id)
      <4>1. DOMAIN games \subseteq Nat
        BY DEF WellTyped, RecordsTyped
      <4> QED
        BY <1>7, <3>1, <4>1 DEF OpenSettings, OpensSettings
    <3> QED
      BY <1>2, <2>4, <3>1 DEF SettingsUser, EditSettings, SaveSettings, SaveSettingsSignedOut
  <2>5. CASE MyListsUser(t)
    BY <1>2, <1>3, <1>8, <2>5 DEF MyListsUser, SignInFromRosters, Retry, Follow, FollowSignedOut
  <2> QED
    BY <2>1, <2>2, <2>3, <2>4, <2>5
<1>11. ASSUME Receiving PROVE Goal
  <2>1. PICK t \in Tabs, c \in calls :
          \/ NewGameCreated(t, c) \/ NewGameFails(t, c) \/ Land(t, c) \/ Organized(t, c)
          \/ OrganizeFails(t, c) \/ SettingsReceive(t, c) \/ MyListsReceive(t)
    BY <1>11 DEF Receiving, MyListsReceive
  <2>2. CASE Land(t, c) \/ Organized(t, c)
    <3>1. c.reply.id \in Nat
      BY DEF WellTyped, CallsTyped, CallsOf, Replies
    <3> QED
      BY <1>3, <1>7, <1>8, <2>2, <3>1 DEF Land, Organized, OpensSettings
  <2> QED
    BY <1>2, <2>1, <2>2 DEF NewGameCreated, NewGameFails, OrganizeFails, SettingsReceive,
         SettingsLoaded, SettingsNotLoaded, SettingsSaved, SettingsNotSaved, MyListsReceive,
         RostersListed, RostersNotListed, Following, NotFollowing
<1>12. ASSUME Going PROVE Goal
  <2>1. CASE \E t \in Tabs : Visit(t)
    BY <1>5, <1>6, <2>1 DEF Visit
  <2>2. CASE \E t \in Tabs : Return(t)
    BY <1>5, <2>2 DEF Return
  <2>3. CASE \E t \in Tabs : Close(t)
    BY <1>3, <1>8, <2>3 DEF Close
  <2>4. CASE \E t \in Tabs : Reload(t)
    <3>1. PICK t \in Tabs : view' = [view EXCEPT ![t] = IF @ \in LoginViews THEN @ ELSE "elsewhere"]
      BY <2>4 DEF Reload
    <3>2. CASE view[t] \in LoginViews
      <4>1. view' = view
        BY <1>1, <3>1, <3>2
      <4> QED
        BY <1>2, <4>1
    <3>3. CASE view[t] \notin LoginViews
      <4>1. view' = [view EXCEPT ![t] = "elsewhere"]
        BY <3>1, <3>3
      <4> QED
        BY <1>3, <1>8, <4>1
    <3> QED
      BY <3>2, <3>3
  <2>5. CASE \/ \E t \in Tabs, u \in Users : SignIn(t, u)
             \/ \E t \in Tabs : SignOut(t) \/ Learn(t)
    BY <1>2, <2>5 DEF SignIn, SignOut, Learn, Session
  <2> QED
    BY <1>12, <2>1, <2>2, <2>3, <2>4, <2>5 DEF Going
<1> QED
  BY <1>9, <1>10, <1>11, <1>12 DEF Next, Goal

-----------------------------------------------------------------------------
(***************************************************************************)
(* What can become of a page, as far as its taps are concerned.            *)
(***************************************************************************)

SameNewGame(p) ==
    /\ newGame'[p].alive = newGame[p].alive
    /\ newGame'[p].submitting = newGame[p].submitting
    /\ newGame'[p].awaits = newGame[p].awaits
    /\ newGame'[p].told = newGame[p].told

NewGameTaps(p) ==
    /\ CreateNewGame(p) /\ ~newGame[p].submitting
    /\ newGame'[p].alive = newGame[p].alive
    /\ newGame'[p].submitting
    /\ newGame'[p].awaits = plan[p].calls
    /\ newGame'[p].told = "nothing"

NewGameTells(p, c) ==
    /\ NewGameCreated(p, c)
    /\ newGame'[p].alive = newGame[p].alive
    /\ newGame'[p].submitting = newGame[p].submitting
    /\ newGame'[p].awaits = newGame[p].awaits
    /\ newGame'[p].told = IF newGame[p].awaits = c.no THEN "created" ELSE newGame[p].told

NewGameEnds(p, c) ==
    /\ NewGameFails(p, c) \/ Land(p, c)
    /\ newGame'[p].alive = newGame[p].alive
    /\ newGame'[p].submitting = (newGame[p].submitting /\ newGame[p].awaits # c.no)
    /\ newGame'[p].awaits = newGame[p].awaits
    /\ newGame'[p].told = newGame[p].told \/ newGame'[p].told # "created"

NewGameCloses(p) ==
    /\ (Close(p) /\ Shows(p, "newGame")) \/ Reload(p)
    /\ newGame'[p] = ClosedNewGame

NewGameOpens(p) ==
    /\ ShowNewGame(p) /\ ~newGame[p].alive
    /\ newGame'[p].alive /\ ~newGame'[p].submitting /\ newGame'[p].told = "nothing"

NewGameMoves(p) ==
    \/ SameNewGame(p) \/ NewGameTaps(p) \/ NewGameCloses(p) \/ NewGameOpens(p)
    \/ \E c \in calls : NewGameTells(p, c) \/ NewGameEnds(p, c)

LEMMA NewGameCases ==
    ASSUME WellTyped, [Next]_vars, NEW p \in Tabs
    PROVE  NewGameMoves(p)
<1>1. newGame \in [Tabs -> NewGames]
  BY DEF WellTyped, PagesTyped, NewGameTyped
<1>2. ASSUME newGame'[p] = newGame[p] PROVE NewGameMoves(p)
  BY <1>2 DEF NewGameMoves, SameNewGame
<1>3. ASSUME UNCHANGED newGameVars PROVE NewGameMoves(p)
  BY <1>2, <1>3 DEF newGameVars
<1>4. ASSUME NEW t \in Tabs, t # p, NEW pg, newGame' = [newGame EXCEPT ![t] = pg]
      PROVE  NewGameMoves(p)
  BY <1>1, <1>2, <1>4
<1>5. CASE Serving \/ Failing \/ TakingPart \/ Watching \/ UNCHANGED vars
  BY <1>3, <1>5 DEF Serving, Failing, TakingPart, Watching, vars, pages
<1>6. CASE Using
  <2>1. PICK t \in Tabs : NewGameUser(t) \/ UNCHANGED newGameVars
    BY <1>6 DEF Using
  <2>2. CASE \E f \in NewGameFields, v \in Texts : EditNewGame(t, f, v)
    <3>1. PICK form : newGame' = [newGame EXCEPT ![t].form = form]
      BY <2>2 DEF EditNewGame
    <3> QED
      BY <1>1, <3>1 DEF NewGames, NewGameMoves, SameNewGame
  <2>3. CASE SignInFromNewGame(t) \/ CreateNewGameSignedOut(t) \/ UNCHANGED newGameVars
    BY <1>2, <2>3 DEF SignInFromNewGame, CreateNewGameSignedOut, newGameVars
  <2>4. CASE CreateNewGame(t)
    <3>1. PICK no : no = plan[t].calls
      OBVIOUS
    <3>2. PICK pg : pg = [newGame[t] EXCEPT !.submitting = TRUE, !.awaits = no, !.told = "nothing"]
      OBVIOUS
    <3>3. newGame' = [newGame EXCEPT ![t] = pg]
      BY <2>4, <3>1, <3>2, Zenon DEF CreateNewGame
    <3>4. CASE t = p
      <4>1. newGame[t] \in NewGames
        BY <1>1
      <4>2. pg.alive = newGame[t].alive /\ pg.submitting /\ pg.awaits = no /\ pg.told = "nothing"
        BY <3>2, <4>1 DEF NewGames
      <4>3. newGame'[t] = pg
        BY <1>1, <3>3
      <4>4. ~newGame[t].submitting
        BY <2>4 DEF CreateNewGame, MayCreateNewGame
      <4> QED
        BY <2>4, <3>1, <3>4, <4>2, <4>3, <4>4 DEF NewGameMoves, NewGameTaps
    <3> QED
      BY <1>4, <3>3, <3>4
  <2> QED
    BY <1>2, <2>1, <2>2, <2>3, <2>4 DEF NewGameUser
<1>7. CASE Receiving
  <2>1. PICK t \in Tabs, c \in calls :
          \/ UNCHANGED newGameVars
          \/ NewGameCreated(t, c) \/ NewGameFails(t, c) \/ Land(t, c)
    BY <1>7 DEF Receiving, MyListsReceive
  <2>2. newGame[t] \in NewGames
    BY <1>1
  <2>3. CASE NewGameCreated(t, c)
    <3>1. PICK told : told = IF newGame[t].awaits = c.no THEN "created" ELSE newGame[t].told
      OBVIOUS
    <3>2. PICK pg : pg = [newGame[t] EXCEPT !.told = told]
      OBVIOUS
    <3>3. newGame' = [newGame EXCEPT ![t] = pg]
      <4>1. newGame' = [newGame EXCEPT ![t].told = told]
        BY <2>3, <3>1 DEF NewGameCreated
      <4> QED
        BY <3>2, <4>1, Zenon
    <3>4. CASE t = p
      <4>1. newGame'[t] = pg
        BY <1>1, <3>3
      <4>2. NewGameTells(p, c)
        BY <2>2, <2>3, <3>1, <3>2, <3>4, <4>1 DEF NewGameTells, NewGames
      <4> QED
        BY <4>2 DEF NewGameMoves
    <3> QED
      BY <1>4, <3>3, <3>4
  <2>4. PICK left : left = NoLongerSubmitting(newGame[t], c)
    OBVIOUS
  <2>5. /\ left \in NewGames /\ left.alive = newGame[t].alive /\ left.awaits = newGame[t].awaits
        /\ left.submitting = (newGame[t].submitting /\ newGame[t].awaits # c.no)
        /\ left.told = newGame[t].told
    BY <2>2, <2>4 DEF NoLongerSubmitting, NewGames
  <2>6. CASE Land(t, c)
    <3>1. newGame' = [newGame EXCEPT ![t] = left]
      BY <2>4, <2>6 DEF Land, NewGameLeft
    <3>2. CASE t = p
      <4>1. newGame'[t] = left
        BY <1>1, <3>1
      <4>2. NewGameEnds(p, c)
        BY <2>5, <2>6, <3>2, <4>1 DEF NewGameEnds
      <4> QED
        BY <4>2 DEF NewGameMoves
    <3> QED
      BY <1>4, <3>1, <3>2
  <2>7. CASE NewGameFails(t, c)
    <3>1. PICK told : told = IF newGame[t].awaits = c.no THEN "failed" ELSE newGame[t].told
      OBVIOUS
    <3>2. PICK pg : pg = [left EXCEPT !.told = told]
      OBVIOUS
    <3>3. newGame' = [newGame EXCEPT ![t] = pg]
      BY <2>4, <2>7, <3>1, <3>2, Zenon DEF NewGameFails
    <3>4. CASE t = p
      <4>1. newGame'[t] = pg
        BY <1>1, <3>3
      <4>2. told = newGame[t].told \/ told # "created"
        BY <3>1
      <4>3. pg.alive = left.alive /\ pg.submitting = left.submitting /\ pg.awaits = left.awaits /\ pg.told = told
        BY <2>5, <3>2 DEF NewGames
      <4>4. NewGameEnds(p, c)
        BY <2>5, <2>7, <3>4, <4>1, <4>2, <4>3 DEF NewGameEnds
      <4> QED
        BY <4>4 DEF NewGameMoves
    <3> QED
      BY <1>4, <3>3, <3>4
  <2> QED
    BY <1>3, <2>1, <2>3, <2>6, <2>7
<1>8. CASE Going
  <2>1. ASSUME NEW t \in Tabs, ShowNewGame(t) PROVE NewGameMoves(p)
    <3>1. CASE newGame[t].alive
      BY <1>2, <2>1, <3>1 DEF ShowNewGame
    <3>2. CASE ~newGame[t].alive
      <4>1. PICK form : form = Restored(newGameDraft[DeviceOf[t]])
        OBVIOUS
      <4>2. PICK closed : closed = ClosedNewGame
        OBVIOUS
      <4>3. PICK pg : pg = [closed EXCEPT !.alive = TRUE, !.form = form]
        OBVIOUS
      <4>4. newGame' = [newGame EXCEPT ![t] = pg]
        BY <2>1, <3>2, <4>1, <4>2, <4>3, Zenon DEF ShowNewGame
      <4>5. CASE t = p
        <5>1. newGame'[t] = pg
          BY <1>1, <4>4
        <5>2. pg.alive /\ ~pg.submitting /\ pg.told = "nothing"
          BY <4>2, <4>3 DEF ClosedNewGame
        <5> QED
          BY <2>1, <3>2, <4>5, <5>1, <5>2 DEF NewGameMoves, NewGameOpens
      <4> QED
        BY <1>4, <4>4, <4>5
    <3> QED
      BY <3>1, <3>2
  <2>2. CASE \E t \in Tabs : Visit(t) \/ Return(t)
    BY <1>3, <2>1, <2>2 DEF Visit, Return
  <2>3. CASE \E t \in Tabs : Close(t) \/ Reload(t)
    <3>1. PICK t \in Tabs : Close(t) \/ Reload(t)
      BY <2>3
    <3>2. \/ UNCHANGED newGame
          \/ /\ newGame' = [newGame EXCEPT ![t] = ClosedNewGame]
             /\ (Close(t) /\ Shows(t, "newGame")) \/ Reload(t)
      BY <3>1 DEF Close, Reload
    <3>3. CASE t = p
      BY <1>1, <1>2, <3>2, <3>3 DEF NewGameMoves, NewGameCloses
    <3> QED
      BY <1>2, <1>4, <3>2, <3>3
  <2>4. CASE \/ \E t \in Tabs, u \in Users : SignIn(t, u)
             \/ \E t \in Tabs : SignOut(t) \/ Learn(t)
    BY <1>3, <2>4 DEF SignIn, SignOut, Learn, Session
  <2> QED
    BY <1>8, <2>1, <2>2, <2>3, <2>4 DEF Going
<1> QED
  BY <1>5, <1>6, <1>7, <1>8 DEF Next

SameOrganize(p) ==
    /\ organize'[p].alive = organize[p].alive
    /\ organize'[p].submitting = organize[p].submitting
    /\ organize'[p].awaits = organize[p].awaits
    /\ organize'[p].told = organize[p].told

OrganizeTaps(p) ==
    /\ Organize(p) /\ ~organize[p].submitting
    /\ organize'[p].alive = organize[p].alive
    /\ organize'[p].submitting
    /\ organize'[p].awaits = plan[p].calls
    /\ organize'[p].told = "nothing"

\* The page is replaced, or was below and stays as it is but for its own game.
OrganizeTells(p, c) ==
    /\ Organized(p, c)
    /\ \/ Shows(p, "organize") /\ organize'[p].awaits = c.no
       \/ /\ ~Shows(p, "organize")
          /\ organize'[p].alive = organize[p].alive
          /\ organize'[p].submitting = (organize[p].submitting /\ organize[p].awaits # c.no)
          /\ organize'[p].awaits = organize[p].awaits
          /\ organize'[p].told = organize[p].told \/ organize[p].awaits = c.no

OrganizeEnds(p, c) ==
    /\ OrganizeFails(p, c)
    /\ organize'[p].alive = organize[p].alive
    /\ organize'[p].submitting = (organize[p].submitting /\ organize[p].awaits # c.no)
    /\ organize'[p].awaits = organize[p].awaits
    /\ organize'[p].told = organize[p].told \/ organize'[p].told # "created"

OrganizeCloses(p) ==
    /\ (Close(p) /\ Shows(p, "organize")) \/ Reload(p)
    /\ organize'[p] = ClosedOrganize

OrganizeOpens(p) ==
    /\ ShowOrganize(p) /\ ~organize[p].alive
    /\ organize'[p].alive /\ ~organize'[p].submitting /\ organize'[p].told = "nothing"

OrganizeMoves(p) ==
    \/ SameOrganize(p) \/ OrganizeTaps(p) \/ OrganizeCloses(p) \/ OrganizeOpens(p)
    \/ \E c \in calls : OrganizeTells(p, c) \/ OrganizeEnds(p, c)

LEMMA OrganizeCases ==
    ASSUME WellTyped, [Next]_vars, NEW p \in Tabs
    PROVE  OrganizeMoves(p)
<1>1. organize \in [Tabs -> Organizes]
  BY DEF WellTyped, PagesTyped, OrganizeTyped
<1>2. ASSUME organize'[p] = organize[p] PROVE OrganizeMoves(p)
  BY <1>2 DEF OrganizeMoves, SameOrganize
<1>3. ASSUME UNCHANGED organizeVars PROVE OrganizeMoves(p)
  BY <1>2, <1>3 DEF organizeVars
<1>4. ASSUME NEW t \in Tabs, t # p, NEW pg, organize' = [organize EXCEPT ![t] = pg]
      PROVE  OrganizeMoves(p)
  BY <1>1, <1>2, <1>4
<1>5. ASSUME NEW t \in Tabs, NEW pg, organize' = [organize EXCEPT ![t] = pg],
             pg.alive = organize[t].alive, pg.submitting = organize[t].submitting,
             pg.awaits = organize[t].awaits, pg.told = organize[t].told
      PROVE  OrganizeMoves(p)
  <2>1. CASE t = p
    BY <1>1, <1>5, <2>1 DEF OrganizeMoves, SameOrganize
  <2> QED
    BY <1>4, <1>5, <2>1
<1>6. CASE Serving \/ Failing \/ TakingPart \/ Watching \/ UNCHANGED vars
  BY <1>3, <1>6 DEF Serving, Failing, TakingPart, Watching, vars, pages
<1>7. CASE Using
  <2>1. PICK t \in Tabs : OrganizeUser(t) \/ UNCHANGED organizeVars
    BY <1>7 DEF Using
  <2>2. organize[t] \in Organizes
    BY <1>1
  <2>3. ASSUME NEW entered, NEW typed, NEW half, half = [organize[t] EXCEPT !.entered = entered],
               organize' = [organize EXCEPT ![t] = half]
               \/ organize' = [organize EXCEPT ![t] = [half EXCEPT !.typed = typed]]
        PROVE  OrganizeMoves(p)
    <3>1. PICK pg : /\ organize' = [organize EXCEPT ![t] = pg]
                    /\ pg = half \/ pg = [half EXCEPT !.typed = typed]
      BY <2>3
    <3>2. /\ pg.alive = organize[t].alive /\ pg.submitting = organize[t].submitting
          /\ pg.awaits = organize[t].awaits /\ pg.told = organize[t].told
      BY <2>2, <2>3, <3>1 DEF Organizes
    <3> QED
      BY <1>5, <3>1, <3>2
  <2>4. CASE \E f \in OrganizeFields, v \in Texts : EditOrganize(t, f, v)
    <3>1. PICK f \in OrganizeFields, v \in Texts : EditOrganize(t, f, v)
      BY <2>4
    <3>2. PICK form : form = [organize[t].entered.form EXCEPT ![f] = v]
      OBVIOUS
    <3>3. PICK entered : entered = [organize[t].entered EXCEPT !.form = form]
      OBVIOUS
    <3>4. PICK half : half = [organize[t] EXCEPT !.entered = entered]
      OBVIOUS
    <3>5. organize' = [organize EXCEPT ![t] = half]
      BY <3>1, <3>2, <3>3, <3>4, Zenon DEF EditOrganize, Enters
    <3> QED
      BY <2>3, <3>4, <3>5
  <2>5. CASE \E v \in Texts : TypeRow(t, v)
    <3>1. PICK v \in Texts : TypeRow(t, v)
      BY <2>5
    <3>2. PICK pg : pg = [organize[t] EXCEPT !.typed = v]
      OBVIOUS
    <3>3. organize' = [organize EXCEPT ![t] = pg]
      BY <3>1, <3>2, Zenon DEF TypeRow
    <3>4. /\ pg.alive = organize[t].alive /\ pg.submitting = organize[t].submitting
          /\ pg.awaits = organize[t].awaits /\ pg.told = organize[t].told
      BY <2>2, <3>2 DEF Organizes
    <3> QED
      BY <1>5, <3>3, <3>4
  <2>6. CASE AddRow(t)
    <3>1. PICK rows : rows = Append(organize[t].entered.rows, organize[t].typed)
      OBVIOUS
    <3>2. PICK entered : entered = [organize[t].entered EXCEPT !.rows = rows]
      OBVIOUS
    <3>3. PICK half : half = [organize[t] EXCEPT !.entered = entered]
      OBVIOUS
    <3>4. organize' = [organize EXCEPT ![t] = [half EXCEPT !.typed = Blank]]
      BY <2>6, <3>1, <3>2, <3>3, Zenon DEF AddRow, Enters
    <3> QED
      BY <2>3, <3>3, <3>4
  <2>7. CASE \E i \in 1 .. MaxRows : RemoveRow(t, i)
    <3>1. PICK i \in 1 .. MaxRows : RemoveRow(t, i)
      BY <2>7
    <3>2. PICK rows : rows = Without(organize[t].entered.rows, i)
      OBVIOUS
    <3>3. PICK entered : entered = [organize[t].entered EXCEPT !.rows = rows]
      OBVIOUS
    <3>4. PICK half : half = [organize[t] EXCEPT !.entered = entered]
      OBVIOUS
    <3>5. organize' = [organize EXCEPT ![t] = half]
      BY <3>1, <3>2, <3>3, <3>4, Zenon DEF RemoveRow, Enters
    <3> QED
      BY <2>3, <3>4, <3>5
  <2>8. CASE SignInFromOrganize(t) \/ OrganizeSignedOut(t) \/ UNCHANGED organizeVars
    BY <1>2, <2>8 DEF SignInFromOrganize, OrganizeSignedOut, organizeVars
  <2>9. CASE Organize(t)
    <3>1. PICK no : no = plan[t].calls
      OBVIOUS
    <3>2. PICK pg : pg = [organize[t] EXCEPT !.submitting = TRUE, !.awaits = no, !.told = "nothing"]
      OBVIOUS
    <3>3. organize' = [organize EXCEPT ![t] = pg]
      BY <2>9, <3>1, <3>2, Zenon DEF Organize
    <3>4. CASE t = p
      <4>1. pg.alive = organize[t].alive /\ pg.submitting /\ pg.awaits = no /\ pg.told = "nothing"
        BY <2>2, <3>2 DEF Organizes
      <4>2. organize'[t] = pg
        BY <1>1, <3>3
      <4>3. ~organize[t].submitting
        BY <2>9 DEF Organize, MayOrganize
      <4> QED
        BY <2>9, <3>1, <3>4, <4>1, <4>2, <4>3 DEF OrganizeMoves, OrganizeTaps
    <3> QED
      BY <1>4, <3>3, <3>4
  <2> QED
    BY <2>1, <2>4, <2>5, <2>6, <2>7, <2>8, <2>9 DEF OrganizeUser
<1>8. CASE Receiving
  <2>1. PICK t \in Tabs, c \in calls :
          UNCHANGED organizeVars \/ Organized(t, c) \/ OrganizeFails(t, c)
    BY <1>8 DEF Receiving, Land, MyListsReceive
  <2>2. organize[t] \in Organizes
    BY <1>1
  <2>3. CASE Organized(t, c)
    <3>1. PICK closed : closed = ClosedOrganize
      OBVIOUS
    <3>2. PICK gone : gone = [closed EXCEPT !.awaits = c.no, !.told = "created"]
      OBVIOUS
    <3>3. PICK below : below = [organize[t] EXCEPT !.submitting = FALSE, !.told = "created"]
      OBVIOUS
    <3>4. PICK pg : pg = IF Shows(t, "organize") THEN gone
                         ELSE IF organize[t].awaits = c.no THEN below ELSE organize[t]
      OBVIOUS
    <3>5. organize' = [organize EXCEPT ![t] = pg]
      BY <2>3, <3>1, <3>2, <3>3, <3>4, Zenon DEF Organized
    <3>6. CASE t = p
      <4>1. organize'[t] = pg
        BY <1>1, <3>5
      <4>2. CASE Shows(t, "organize")
        <5>1. gone.awaits = c.no
          BY <3>1, <3>2, ClosedPagesTyped DEF Organizes
        <5>2. OrganizeTells(p, c)
          BY <2>3, <3>4, <3>6, <4>1, <4>2, <5>1 DEF OrganizeTells
        <5> QED
          BY <5>2 DEF OrganizeMoves
      <4>3. CASE ~Shows(t, "organize")
        <5>1. /\ below.alive = organize[t].alive /\ below.submitting = FALSE
              /\ below.awaits = organize[t].awaits
          BY <2>2, <3>3 DEF Organizes
        <5>2. organize[t].submitting \in BOOLEAN
          BY <2>2 DEF Organizes
        <5>3. OrganizeTells(p, c)
          BY <2>3, <3>4, <3>6, <4>1, <4>3, <5>1, <5>2 DEF OrganizeTells
        <5> QED
          BY <5>3 DEF OrganizeMoves
      <4> QED
        BY <4>2, <4>3
    <3> QED
      BY <1>4, <3>5, <3>6
  <2>4. CASE OrganizeFails(t, c)
    <3>1. PICK left : left = [organize[t] EXCEPT !.submitting = FALSE, !.told = "failed"]
      OBVIOUS
    <3>2. PICK pg : pg = IF organize[t].awaits = c.no THEN left ELSE organize[t]
      OBVIOUS
    <3>3. organize' = [organize EXCEPT ![t] = pg]
      BY <2>4, <3>1, <3>2, Zenon DEF OrganizeFails
    <3>4. CASE t = p
      <4>1. organize'[t] = pg
        BY <1>1, <3>3
      <4>2. /\ left.alive = organize[t].alive /\ left.submitting = FALSE
            /\ left.awaits = organize[t].awaits /\ left.told = "failed"
        BY <2>2, <3>1 DEF Organizes
      <4>3. organize[t].submitting \in BOOLEAN
        BY <2>2 DEF Organizes
      <4>4. OrganizeEnds(p, c)
        BY <2>4, <3>2, <3>4, <4>1, <4>2, <4>3 DEF OrganizeEnds
      <4> QED
        BY <4>4 DEF OrganizeMoves
    <3> QED
      BY <1>4, <3>3, <3>4
  <2> QED
    BY <1>3, <2>1, <2>3, <2>4
<1>9. CASE Going
  <2>1. ASSUME NEW t \in Tabs, ShowOrganize(t) PROVE OrganizeMoves(p)
    <3>1. CASE organize[t].alive
      BY <1>2, <2>1, <3>1 DEF ShowOrganize
    <3>2. CASE ~organize[t].alive
      <4>1. PICK entered : entered = Resumed(organizeDraft[DeviceOf[t]])
        OBVIOUS
      <4>2. PICK closed : closed = ClosedOrganize
        OBVIOUS
      <4>3. PICK pg : pg = [closed EXCEPT !.alive = TRUE, !.entered = entered]
        OBVIOUS
      <4>4. organize' = [organize EXCEPT ![t] = pg]
        BY <2>1, <3>2, <4>1, <4>2, <4>3, Zenon DEF ShowOrganize
      <4>5. CASE t = p
        <5>1. organize'[t] = pg
          BY <1>1, <4>4
        <5>2. pg.alive /\ ~pg.submitting /\ pg.told = "nothing"
          BY <4>2, <4>3 DEF ClosedOrganize
        <5> QED
          BY <2>1, <3>2, <4>5, <5>1, <5>2 DEF OrganizeMoves, OrganizeOpens
      <4> QED
        BY <1>4, <4>4, <4>5
    <3> QED
      BY <3>1, <3>2
  <2>2. CASE \E t \in Tabs : Visit(t) \/ Return(t)
    BY <1>3, <2>1, <2>2 DEF Visit, Return
  <2>3. CASE \E t \in Tabs : Close(t) \/ Reload(t)
    <3>1. PICK t \in Tabs : Close(t) \/ Reload(t)
      BY <2>3
    <3>2. \/ UNCHANGED organize
          \/ /\ organize' = [organize EXCEPT ![t] = ClosedOrganize]
             /\ (Close(t) /\ Shows(t, "organize")) \/ Reload(t)
      BY <3>1 DEF Close, Reload
    <3>3. CASE t = p
      BY <1>1, <1>2, <3>2, <3>3 DEF OrganizeMoves, OrganizeCloses
    <3> QED
      BY <1>2, <1>4, <3>2, <3>3
  <2>4. CASE \/ \E t \in Tabs, u \in Users : SignIn(t, u)
             \/ \E t \in Tabs : SignOut(t) \/ Learn(t)
    BY <1>3, <2>4 DEF SignIn, SignOut, Learn, Session
  <2> QED
    BY <1>9, <2>1, <2>2, <2>3, <2>4 DEF Going
<1> QED
  BY <1>6, <1>7, <1>8, <1>9 DEF Next

\* What is shown and awaited stays; a failure may be told.
SameSettings(p) ==
    /\ settings'[p].alive = settings[p].alive
    /\ settings'[p].game = settings[p].game
    /\ settings'[p].awaits = settings[p].awaits
    /\ settings'[p].told = settings[p].told \/ settings'[p].told # "saved"

SettingsTaps(p) ==
    /\ SaveSettings(p)
    /\ settings'[p].alive = settings[p].alive
    /\ settings'[p].game = settings[p].game
    /\ settings'[p].awaits = plan[p].calls
    /\ settings'[p].told = "nothing"

SettingsTells(p, c) ==
    /\ SettingsSaved(p, c)
    /\ settings'[p].alive = settings[p].alive
    /\ settings'[p].game = settings[p].game
    /\ settings'[p].awaits = settings[p].awaits

\* The page is opened, for a game that was there or that was created, or closed.
SettingsOpens(p) ==
    /\ settings'[p].alive
    /\ \/ settings'[p].game \in DOMAIN games
       \/ \E c \in calls : Land(p, c) /\ settings'[p].game = c.reply.id

SettingsCloses(p) == ~settings'[p].alive /\ (Close(p) \/ Reload(p))

SettingsAnew(p) ==
    /\ settings'[p].awaits = 0 /\ settings'[p].told = "nothing"
    /\ SettingsOpens(p) \/ SettingsCloses(p)

SettingsMoves(p) ==
    \/ SameSettings(p) \/ SettingsTaps(p) \/ SettingsAnew(p)
    \/ \E c \in calls : SettingsTells(p, c)

LEMMA SettingsCases ==
    ASSUME WellTyped, [Next]_vars, NEW p \in Tabs
    PROVE  SettingsMoves(p)
<1>1. settings \in [Tabs -> SettingsPagesSet]
  BY DEF WellTyped, PagesTyped, SettingsTyped
<1>2. PICK ids : calls \subseteq CallsOf(ids)
  BY DEF WellTyped, CallsTyped
<1>3. ASSUME settings'[p] = settings[p] PROVE SettingsMoves(p)
  BY <1>3 DEF SettingsMoves, SameSettings
<1>4. ASSUME NEW t \in Tabs, t # p, NEW pg, settings' = [settings EXCEPT ![t] = pg]
      PROVE  SettingsMoves(p)
  BY <1>1, <1>3, <1>4
<1>5. ASSUME NEW t \in Tabs, NEW pg, settings' = [settings EXCEPT ![t] = pg],
             pg.alive = settings[t].alive, pg.game = settings[t].game, pg.awaits = settings[t].awaits,
             pg.told = settings[t].told \/ pg.told # "saved"
      PROVE  SettingsMoves(p)
  <2>1. CASE t = p
    BY <1>1, <1>5, <2>1 DEF SettingsMoves, SameSettings
  <2> QED
    BY <1>4, <1>5, <2>1
<1>6. ASSUME NEW t \in Tabs, NEW id, NEW no, settings' = SettingsOpened(t, id, no),
             id \in DOMAIN games \/ \E c \in calls : Land(t, c) /\ id = c.reply.id
      PROVE  SettingsMoves(p)
  <2>1. PICK closed : closed = ClosedSettings
    OBVIOUS
  <2>2. PICK pg : pg = [closed EXCEPT !.alive = TRUE, !.game = id, !.loads = no]
    OBVIOUS
  <2>3. settings' = [settings EXCEPT ![t] = pg]
    BY <1>6, <2>1, <2>2, Zenon DEF SettingsOpened
  <2>4. pg.awaits = 0 /\ pg.told = "nothing" /\ pg.alive /\ pg.game = id
    BY <2>1, <2>2 DEF ClosedSettings
  <2>5. CASE t = p
    <3>1. settings'[p] = pg
      BY <1>1, <2>3, <2>5
    <3> QED
      BY <1>6, <2>4, <2>5, <3>1 DEF SettingsMoves, SettingsAnew, SettingsOpens
  <2> QED
    BY <1>4, <2>3, <2>5
<1>7. CASE Serving \/ Failing \/ TakingPart \/ Watching \/ UNCHANGED vars
  BY <1>3, <1>7 DEF Serving, Failing, TakingPart, Watching, vars, pages
<1>8. CASE Using
  <2>1. PICK t \in Tabs : SettingsUser(t) \/ UNCHANGED settings
    BY <1>8 DEF Using
  <2>2. settings[t] \in SettingsPagesSet
    BY <1>1
  <2>3. CASE \E id \in DOMAIN games : OpenSettings(t, id)
    BY <1>6, <2>3 DEF OpenSettings
  <2>4. CASE \E f \in SettingsFields, v \in Texts : EditSettings(t, f, v)
    <3>1. PICK f \in SettingsFields, v \in Texts : EditSettings(t, f, v)
      BY <2>4
    <3>2. PICK form : form = [settings[t].form EXCEPT ![f] = v]
      OBVIOUS
    <3>3. PICK pg : pg = [settings[t] EXCEPT !.form = form]
      OBVIOUS
    <3>4. settings' = [settings EXCEPT ![t] = pg]
      BY <3>1, <3>2, <3>3, Zenon DEF EditSettings
    <3>5. /\ pg.alive = settings[t].alive /\ pg.game = settings[t].game
          /\ pg.awaits = settings[t].awaits /\ pg.told = settings[t].told
      BY <2>2, <3>3 DEF SettingsPagesSet
    <3> QED
      BY <1>5, <3>4, <3>5
  <2>5. CASE SaveSettings(t)
    <3>1. PICK no : no = plan[t].calls
      OBVIOUS
    <3>2. PICK pg : pg = [settings[t] EXCEPT !.submitting = TRUE, !.awaits = no, !.told = "nothing"]
      OBVIOUS
    <3>3. settings' = [settings EXCEPT ![t] = pg]
      BY <2>5, <3>1, <3>2, Zenon DEF SaveSettings
    <3>4. /\ pg.alive = settings[t].alive /\ pg.game = settings[t].game
          /\ pg.awaits = no /\ pg.told = "nothing"
      BY <2>2, <3>2 DEF SettingsPagesSet
    <3>5. CASE t = p
      BY <1>1, <2>5, <3>1, <3>3, <3>4, <3>5 DEF SettingsMoves, SettingsTaps
    <3> QED
      BY <1>4, <3>3, <3>5
  <2>6. CASE SaveSettingsSignedOut(t)
    <3>1. PICK pg : pg = [settings[t] EXCEPT !.told = "failed"]
      OBVIOUS
    <3>2. settings' = [settings EXCEPT ![t] = pg]
      BY <2>6, <3>1, Zenon DEF SaveSettingsSignedOut
    <3>3. /\ pg.alive = settings[t].alive /\ pg.game = settings[t].game
          /\ pg.awaits = settings[t].awaits /\ pg.told = "failed"
      BY <2>2, <3>1 DEF SettingsPagesSet
    <3> QED
      BY <1>5, <3>2, <3>3
  <2> QED
    BY <1>3, <2>1, <2>3, <2>4, <2>5, <2>6 DEF SettingsUser
<1>9. CASE Receiving
  <2>1. PICK t \in Tabs, c \in calls : UNCHANGED settings \/ Land(t, c) \/ SettingsReceive(t, c)
    BY <1>9 DEF Receiving, MyListsReceive
  <2>2. c \in CallsOf(ids) /\ settings[t] \in SettingsPagesSet
    BY <1>1, <1>2
  <2>3. CASE Land(t, c)
    BY <1>3, <1>6, <2>3 DEF Land
  <2>4. CASE SettingsLoaded(t, c)
    <3>1. PICK form : form = [f \in SettingsFields |->
                                CASE f = "date" -> c.reply.schedule[1]
                                  [] f = "time" -> c.reply.schedule[2]
                                  [] f = "location" -> c.reply.location]
      OBVIOUS
    <3>2. PICK pg : pg = [settings[t] EXCEPT !.notFound = FALSE, !.form = form]
      OBVIOUS
    <3>3. settings' = [settings EXCEPT ![t] = pg]
      BY <2>4, <3>1, <3>2, Zenon DEF SettingsLoaded
    <3>4. /\ pg.alive = settings[t].alive /\ pg.game = settings[t].game
          /\ pg.awaits = settings[t].awaits /\ pg.told = settings[t].told
      BY <2>2, <3>2 DEF SettingsPagesSet
    <3> QED
      BY <1>5, <3>3, <3>4
  <2>5. CASE SettingsNotLoaded(t, c)
    <3>1. PICK pg : pg = [settings[t] EXCEPT !.notFound = TRUE]
      OBVIOUS
    <3>2. settings' = [settings EXCEPT ![t] = pg]
      BY <2>5, <3>1, Zenon DEF SettingsNotLoaded
    <3>3. /\ pg.alive = settings[t].alive /\ pg.game = settings[t].game
          /\ pg.awaits = settings[t].awaits /\ pg.told = settings[t].told
      BY <2>2, <3>1 DEF SettingsPagesSet
    <3> QED
      BY <1>5, <3>2, <3>3
  <2>6. CASE SettingsSaved(t, c)
    <3>1. PICK pg : pg = [settings[t] EXCEPT !.submitting = FALSE, !.told = "saved"]
      OBVIOUS
    <3>2. settings' = [settings EXCEPT ![t] = pg]
      BY <2>6, <3>1, Zenon DEF SettingsSaved
    <3>3. /\ pg.alive = settings[t].alive /\ pg.game = settings[t].game
          /\ pg.awaits = settings[t].awaits
      BY <2>2, <3>1 DEF SettingsPagesSet
    <3>4. CASE t = p
      BY <1>1, <2>6, <3>2, <3>3, <3>4 DEF SettingsMoves, SettingsTells
    <3> QED
      BY <1>4, <3>2, <3>4
  <2>7. CASE SettingsNotSaved(t, c)
    <3>1. PICK status : status = c.reply.status
      OBVIOUS
    <3>2. status # "saved"
      BY <2>2, <3>1 DEF CallsOf, Replies, Statuses
    <3>3. PICK pg : pg = [settings[t] EXCEPT !.submitting = FALSE, !.told = status]
      OBVIOUS
    <3>4. settings' = [settings EXCEPT ![t] = pg]
      BY <2>7, <3>1, <3>3, Zenon DEF SettingsNotSaved
    <3>5. /\ pg.alive = settings[t].alive /\ pg.game = settings[t].game
          /\ pg.awaits = settings[t].awaits /\ pg.told = status
      BY <2>2, <3>3 DEF SettingsPagesSet
    <3> QED
      BY <1>5, <3>2, <3>4, <3>5
  <2> QED
    BY <1>3, <2>1, <2>3, <2>4, <2>5, <2>6, <2>7 DEF SettingsReceive
<1>10. CASE Going
  <2>1. CASE \E t \in Tabs : Visit(t) \/ Return(t)
    BY <1>3, <2>1 DEF Visit, Return
  <2>2. CASE \E t \in Tabs : Close(t) \/ Reload(t)
    <3>1. PICK t \in Tabs : /\ Close(t) \/ Reload(t)
                            /\ UNCHANGED settings \/ settings' = [settings EXCEPT ![t] = ClosedSettings]
      BY <2>2 DEF Close, Reload
    <3>2. ClosedSettings.awaits = 0 /\ ClosedSettings.told = "nothing" /\ ~ClosedSettings.alive
      BY DEF ClosedSettings
    <3>3. CASE t = p
      BY <1>1, <1>3, <3>1, <3>2, <3>3 DEF SettingsMoves, SettingsAnew, SettingsCloses
    <3> QED
      BY <1>3, <1>4, <3>1, <3>3
  <2>3. CASE \/ \E t \in Tabs, u \in Users : SignIn(t, u)
             \/ \E t \in Tabs : SignOut(t) \/ Learn(t)
    BY <1>3, <2>3 DEF SignIn, SignOut, Learn, Session
  <2> QED
    BY <1>10, <2>1, <2>2, <2>3 DEF Going
<1> QED
  BY <1>7, <1>8, <1>9, <1>10 DEF Next

SameBoard(p) ==
    /\ board'[p].alive = board[p].alive
    /\ board'[p].target = board[p].target
    /\ \/ board'[p].status = board[p].status /\ board'[p].user = board[p].user
       \/ board'[p].status # "following"

BoardTells(p, c) ==
    /\ Following(p, c)
    /\ board'[p].alive = board[p].alive
    /\ board'[p].target = board[p].target
    /\ board'[p].user = c.user

BoardCloses(p) ==
    /\ (Close(p) /\ Shows(p, "board")) \/ Reload(p)
    /\ ~board'[p].alive /\ board'[p].status # "following"

BoardOpens(p) ==
    /\ ~board[p].alive
    /\ board'[p].alive /\ board'[p].target \in Targets /\ board'[p].status # "following"

BoardMoves(p) ==
    \/ SameBoard(p) \/ BoardCloses(p) \/ BoardOpens(p)
    \/ \E c \in calls : BoardTells(p, c)

LEMMA BoardCases ==
    ASSUME WellTyped, [Next]_vars
    PROVE  board' \in [Tabs -> Boards] /\ \A p \in Tabs : BoardMoves(p)
<1> DEFINE Goal == board' \in [Tabs -> Boards] /\ \A p \in Tabs : BoardMoves(p)
<1>1. board \in [Tabs -> Boards]
  BY DEF WellTyped, PagesTyped, BoardTyped
<1>2. PICK ids : calls \subseteq CallsOf(ids)
  BY DEF WellTyped, CallsTyped
<1>3. ASSUME UNCHANGED board PROVE Goal
  BY <1>1, <1>3 DEF BoardMoves, SameBoard
<1>4. ASSUME NEW t \in Tabs, NEW pg \in Boards, board' = [board EXCEPT ![t] = pg],
             board'[t] = pg => BoardMoves(t)
      PROVE  Goal
  <2>1. board' \in [Tabs -> Boards] /\ board'[t] = pg
    BY <1>1, <1>4
  <2>2. ASSUME NEW p \in Tabs, p # t PROVE BoardMoves(p)
    BY <1>1, <1>4, <2>2 DEF BoardMoves, SameBoard
  <2> QED
    BY <1>4, <2>1, <2>2
<1>5. ASSUME NEW t \in Tabs, board' = [board EXCEPT ![t].status = "account required"] PROVE Goal
  <2>1. board[t] \in Boards
    BY <1>1
  <2>2. PICK pg : pg = [board[t] EXCEPT !.status = "account required"]
    OBVIOUS
  <2>3. /\ pg \in Boards /\ pg.alive = board[t].alive /\ pg.target = board[t].target
        /\ pg.status # "following"
    BY <2>1, <2>2 DEF Boards
  <2>4. board' = [board EXCEPT ![t] = pg]
    BY <1>5, <2>2, Zenon
  <2>5. board'[t] = pg => BoardMoves(t)
    BY <2>3 DEF BoardMoves, SameBoard
  <2> QED
    BY <1>4, <2>3, <2>4, <2>5
<1> HIDE DEF Goal
<1>6. ASSUME Serving \/ Failing \/ TakingPart \/ Watching \/ UNCHANGED vars PROVE Goal
  BY <1>3, <1>6 DEF Serving, Failing, TakingPart, Watching, Snapshot, vars, pages, myListsVars
<1>7. ASSUME Using PROVE Goal
  <2>1. PICK t \in Tabs : MyListsUser(t) \/ UNCHANGED board
    BY <1>7 DEF Using, myListsVars
  <2> QED
    BY <1>3, <1>5, <2>1 DEF MyListsUser, SignInFromRosters, Retry, Follow, FollowSignedOut
<1>8. ASSUME Receiving PROVE Goal
  <2>1. PICK t \in Tabs, c \in calls :
          \/ UNCHANGED board \/ RostersListed(t, c) \/ RostersNotListed(t, c)
          \/ Following(t, c) \/ NotFollowing(t, c)
    BY <1>8 DEF Receiving, MyListsReceive, Land, myListsVars
  <2>2. CASE UNCHANGED board \/ RostersListed(t, c) \/ RostersNotListed(t, c)
    BY <1>3, <2>2 DEF RostersListed, RostersNotListed
  <2>3. CASE NotFollowing(t, c)
    BY <1>5, <2>3 DEF NotFollowing
  <2>4. CASE Following(t, c)
    <3>1. board[t] \in Boards /\ c.user \in Users \cup {Nobody}
      BY <1>1, <1>2 DEF CallsOf
    <3>2. PICK pg : pg = [board[t] EXCEPT !.status = "following", !.user = c.user]
      OBVIOUS
    <3>3. /\ pg \in Boards /\ pg.alive = board[t].alive /\ pg.target = board[t].target
          /\ pg.user = c.user
      BY <3>1, <3>2 DEF Boards
    <3>4. board' = [board EXCEPT ![t] = pg]
      BY <2>4, <3>2, Zenon DEF Following
    <3>5. board'[t] = pg => BoardMoves(t)
      <4>1. ASSUME board'[t] = pg PROVE BoardTells(t, c)
        BY <2>4, <3>3, <4>1 DEF BoardTells
      <4> QED
        BY <4>1 DEF BoardMoves
    <3> QED
      BY <1>4, <3>3, <3>4, <3>5
  <2> QED
    BY <2>1, <2>2, <2>3, <2>4
<1>9. ASSUME Going PROVE Goal
  <2>1. ASSUME NEW t \in Tabs, NEW target \in Targets, ShowBoard(t, target) PROVE Goal
    <3>1. PICK closed : closed = ClosedBoard
      OBVIOUS
    <3>2. PICK pg : pg = [closed EXCEPT !.alive = TRUE, !.target = target]
      OBVIOUS
    <3>3. pg \in Boards /\ pg.alive /\ pg.target = target /\ pg.status # "following"
      BY <3>1, <3>2 DEF Boards, ClosedBoard
    <3>4. board' = [board EXCEPT ![t] = pg] /\ ~board[t].alive
      BY <2>1, <3>1, <3>2, Zenon DEF ShowBoard
    <3>5. board'[t] = pg => BoardMoves(t)
      BY <3>3, <3>4 DEF BoardMoves, BoardOpens
    <3> QED
      BY <1>4, <3>3, <3>4, <3>5
  <2>2. CASE \E t \in Tabs : Visit(t) \/ Return(t)
    BY <1>3, <2>1, <2>2 DEF Visit, Return, ShowMyGames, ShowMyRosters, myListsVars
  <2>3. CASE \E t \in Tabs : Close(t) \/ Reload(t)
    <3>1. PICK t \in Tabs : Close(t) \/ Reload(t)
      BY <2>3
    <3>2. \/ UNCHANGED board
          \/ /\ board' = [board EXCEPT ![t] = ClosedBoard]
             /\ (Close(t) /\ Shows(t, "board")) \/ Reload(t)
      BY <3>1 DEF Close, Reload
    <3>3. CASE UNCHANGED board
      BY <1>3, <3>3
    <3>4. CASE /\ board' = [board EXCEPT ![t] = ClosedBoard]
               /\ (Close(t) /\ Shows(t, "board")) \/ Reload(t)
      <4>1. ClosedBoard \in Boards /\ ~ClosedBoard.alive /\ ClosedBoard.status # "following"
        BY ClosedPagesTyped DEF ClosedBoard
      <4>2. board'[t] = ClosedBoard => BoardMoves(t)
        BY <3>4, <4>1 DEF BoardMoves, BoardCloses
      <4> QED
        BY <1>4, <3>4, <4>1, <4>2
    <3> QED
      BY <3>2, <3>3, <3>4
  <2>4. CASE \/ \E t \in Tabs, u \in Users : SignIn(t, u)
             \/ \E t \in Tabs : SignOut(t) \/ Learn(t)
    BY <1>3, <2>4 DEF SignIn, SignOut, Learn, Session
  <2> QED
    BY <1>9, <2>1, <2>2, <2>3, <2>4 DEF Going
<1> QED
  BY <1>6, <1>7, <1>8, <1>9 DEF Next, Goal

LEMMA PagesTypedKept ==
    ASSUME WellTyped, [Next]_vars
    PROVE  PagesTyped'
<1>1. /\ newGame' \in [Tabs -> NewGames]
      /\ newGameDraft' \in [Devices -> NewGameForms \cup {NoDraft}]
  BY NewGameTypedKept
<1>2. /\ organize' \in [Tabs -> Organizes]
      /\ organizeDraft' \in [Devices -> OrganizeForms \cup {NoDraft}]
  BY OrganizeTypedKept
<1>3. SettingsTyped'
  BY SettingsTypedKept
<1>4. board' \in [Tabs -> Boards] /\ \A p \in Tabs : BoardMoves(p)
  BY BoardCases
<1>5. ASSUME NEW t \in Tabs
      PROVE  /\ view'[t] = "newGame" => view[t] = "newGame" \/ ShowNewGame(t)
             /\ view'[t] = "organize" => view[t] = "organize" \/ ShowOrganize(t)
             /\ view'[t] = "settings" => view[t] = "settings" \/ OpensSettings(t)
             /\ view'[t] = "board" => view[t] = "board" \/ \E target \in Targets : ShowBoard(t, target)
  BY ViewKept DEF Opens, Views
<1>6. ASSUME NEW t \in Tabs
      PROVE  /\ view[t] = "newGame" => newGame[t].alive
             /\ view[t] = "organize" => organize[t].alive
             /\ view[t] = "settings" => settings[t].alive
             /\ view[t] = "board" => board[t].alive
             /\ board[t].alive => board[t].target \in Targets
             /\ view[t] \in AllViews
  BY DEF WellTyped, PagesTyped, NewGameTyped, OrganizeTyped, SettingsInView, BoardTyped, Shows,
         BrowsersTyped, AllViews
<1>7. view \in [Tabs -> AllViews]
  BY DEF WellTyped, BrowsersTyped, AllViews
<1>8. ASSUME NEW t \in Tabs, Close(t) \/ Reload(t)
      PROVE  view'[t] \notin Views
  <2>1. CASE Close(t)
    BY <1>7, <2>1 DEF Close, Views
  <2>2. CASE Reload(t)
    BY <1>7, <2>2 DEF Reload, LoginViews, Views
  <2> QED
    BY <1>8, <2>1, <2>2
<1>9. ASSUME NEW t \in Tabs, view'[t] = "newGame" PROVE newGame'[t].alive
  <2>1. NewGameMoves(t)
    BY NewGameCases
  <2>2. ~(Close(t) \/ Reload(t))
    BY <1>8, <1>9 DEF Views
  <2>3. newGame[t].alive \/ NewGameOpens(t)
    <3>1. ASSUME ShowNewGame(t), ~newGame[t].alive PROVE newGame'[t].alive
      <4>1. PICK form : form = Restored(newGameDraft[DeviceOf[t]])
        OBVIOUS
      <4>2. PICK closed : closed = ClosedNewGame
        OBVIOUS
      <4>3. PICK pg : pg = [closed EXCEPT !.alive = TRUE, !.form = form]
        OBVIOUS
      <4>4. newGame' = [newGame EXCEPT ![t] = pg]
        BY <3>1, <4>1, <4>2, <4>3, Zenon DEF ShowNewGame
      <4>5. pg.alive
        BY <4>2, <4>3 DEF ClosedNewGame
      <4>6. newGame \in [Tabs -> NewGames]
        BY DEF WellTyped, PagesTyped, NewGameTyped
      <4> QED
        BY <4>4, <4>5, <4>6
    <3> QED
      BY <1>5, <1>6, <1>9, <2>1, <2>2, <3>1
         DEF NewGameMoves, SameNewGame, NewGameTaps, NewGameCloses, NewGameTells, NewGameEnds
  <2> QED
    BY <2>1, <2>2, <2>3 DEF NewGameMoves, SameNewGame, NewGameTaps, NewGameCloses, NewGameOpens,
         NewGameTells, NewGameEnds
<1>10. ASSUME NEW t \in Tabs, view'[t] = "organize" PROVE organize'[t].alive
  <2>1. OrganizeMoves(t)
    BY OrganizeCases
  <2>2. ~(Close(t) \/ Reload(t))
    BY <1>8, <1>10 DEF Views
  <2>3. ASSUME NEW c \in calls PROVE ~Organized(t, c)
    BY <1>7, <1>10, <2>3 DEF Organized
  <2>4. ASSUME ShowOrganize(t), ~organize[t].alive PROVE organize'[t].alive
    <3>1. PICK entered : entered = Resumed(organizeDraft[DeviceOf[t]])
      OBVIOUS
    <3>2. PICK closed : closed = ClosedOrganize
      OBVIOUS
    <3>3. PICK pg : pg = [closed EXCEPT !.alive = TRUE, !.entered = entered]
      OBVIOUS
    <3>4. organize' = [organize EXCEPT ![t] = pg]
      BY <2>4, <3>1, <3>2, <3>3, Zenon DEF ShowOrganize
    <3>5. pg.alive
      BY <3>2, <3>3 DEF ClosedOrganize
    <3>6. organize \in [Tabs -> Organizes]
      BY DEF WellTyped, PagesTyped, OrganizeTyped
    <3> QED
      BY <3>4, <3>5, <3>6
  <2> QED
    BY <1>5, <1>6, <1>10, <2>1, <2>2, <2>3, <2>4
       DEF OrganizeMoves, SameOrganize, OrganizeTaps, OrganizeCloses, OrganizeOpens, OrganizeTells,
           OrganizeEnds
<1>11. ASSUME NEW t \in Tabs, view'[t] = "board" PROVE board'[t].alive
  <2>1. BoardMoves(t)
    BY <1>4
  <2>2. ~(Close(t) \/ Reload(t))
    BY <1>8, <1>11 DEF Views
  <2>3. ASSUME NEW target \in Targets, ShowBoard(t, target) PROVE board'[t].alive
    <3>1. PICK closed : closed = ClosedBoard
      OBVIOUS
    <3>2. PICK pg : pg = [closed EXCEPT !.alive = TRUE, !.target = target]
      OBVIOUS
    <3>3. board' = [board EXCEPT ![t] = pg]
      BY <2>3, <3>1, <3>2, Zenon DEF ShowBoard
    <3>4. pg.alive
      BY <3>1, <3>2 DEF ClosedBoard
    <3>5. board \in [Tabs -> Boards]
      BY DEF WellTyped, PagesTyped, BoardTyped
    <3> QED
      BY <3>3, <3>4, <3>5
  <2> QED
    BY <1>5, <1>6, <1>11, <2>1, <2>2, <2>3
       DEF BoardMoves, SameBoard, BoardCloses, BoardOpens, BoardTells
<1>12. ASSUME NEW t \in Tabs, board'[t].alive PROVE board'[t].target \in Targets
  BY <1>4, <1>6, <1>12 DEF BoardMoves, SameBoard, BoardCloses, BoardOpens, BoardTells
<1>13. ASSUME NEW t \in Tabs, view'[t] = "settings" PROVE settings'[t].alive
  <2>1. SettingsMoves(t)
    BY SettingsCases
  <2>2. ~(Close(t) \/ Reload(t))
    BY <1>8, <1>13 DEF Views
  <2>3. ASSUME OpensSettings(t) PROVE settings'[t].alive
    <3>1. PICK id, no : settings' = SettingsOpened(t, id, no)
      BY <2>3 DEF OpensSettings
    <3>2. PICK closed : closed = ClosedSettings
      OBVIOUS
    <3>3. PICK pg : pg = [closed EXCEPT !.alive = TRUE, !.game = id, !.loads = no]
      OBVIOUS
    <3>4. settings' = [settings EXCEPT ![t] = pg]
      BY <3>1, <3>2, <3>3, Zenon DEF SettingsOpened
    <3>5. pg.alive
      BY <3>2, <3>3 DEF ClosedSettings
    <3>6. settings \in [Tabs -> SettingsPagesSet]
      BY DEF WellTyped, PagesTyped, SettingsTyped
    <3> QED
      BY <3>4, <3>5, <3>6
  <2>4. settings[t].alive => settings'[t].alive
    BY <2>1, <2>2 DEF SettingsMoves, SameSettings, SettingsTaps, SettingsTells, SettingsAnew,
                      SettingsOpens, SettingsCloses
  <2> QED
    BY <1>5, <1>6, <1>13, <2>3, <2>4
<1> QED
  BY <1>1, <1>2, <1>3, <1>4, <1>9, <1>10, <1>11, <1>12, <1>13
     DEF PagesTyped, NewGameTyped, OrganizeTyped, SettingsInView, BoardTyped, Shows

-----------------------------------------------------------------------------
(***************************************************************************)
(* Taps, and who waits for them.                                           *)
(***************************************************************************)

SameTap(later, tap) ==
    /\ later.from = tap.from /\ later.no = tap.no /\ later.op = tap.op
    /\ later.user = tap.user /\ later.form = tap.form /\ later.shown = tap.shown

\* A tap that is made is awaited by its page.
NewTap(new) ==
    /\ new \in Taps /\ FromForm(new)
    /\ new.no = plan[new.from].calls /\ Paid(new.from)
    /\ new.op = "createGame" => NewGameTaps(new.from)
    /\ new.op = "createGameInvite" => OrganizeTaps(new.from)
    /\ new.op = "updateGame" =>
          /\ settings'[new.from].awaits = new.no
          /\ settings'[new.from].game = new.shown.target

TapsStep ==
    \/ \A later \in taps' : \E tap \in taps : SameTap(later, tap) /\ (tap.over => later.over) /\ later \in Taps
    \/ \E new : taps' = taps \cup {new} /\ NewTap(new)

LEMMA OneTapOver ==
    ASSUME NEW tap \in Taps
    PROVE  /\ [tap EXCEPT !.over = TRUE] \in Taps
           /\ SameTap([tap EXCEPT !.over = TRUE], tap)
           /\ [tap EXCEPT !.over = TRUE].over
BY DEF Taps, SameTap

LEMMA EndedTaps ==
    ASSUME TapsTyped,
           \A later \in taps' : \E tap \in taps : later = tap \/ later = [tap EXCEPT !.over = TRUE]
    PROVE  TapsStep
<1>1. ASSUME NEW later \in taps'
      PROVE  \E tap \in taps : SameTap(later, tap) /\ (tap.over => later.over) /\ later \in Taps
  <2>1. PICK tap \in taps : later = tap \/ later = [tap EXCEPT !.over = TRUE]
    OBVIOUS
  <2>2. tap \in Taps
    BY DEF TapsTyped
  <2>3. SameTap(later, tap) /\ (tap.over => later.over) /\ later \in Taps
    BY <2>1, <2>2, OneTapOver DEF SameTap
  <2> QED
    BY <2>3
<1> QED
  BY <1>1 DEF TapsStep

\* The taps that are over: those of these numbers, and no other comes back.
LEMMA OverEnds ==
    ASSUME TapsTyped, NEW t, NEW nos, taps' = Over(t, nos)
    PROVE  /\ TapsStep
           /\ \A later \in taps' : ~later.over => later.from # t \/ later.no \notin nos
<1>1. \A later \in taps' : \E tap \in taps : later = tap \/ later = [tap EXCEPT !.over = TRUE]
  BY DEF Over
<1>2. ASSUME NEW later \in taps', ~later.over PROVE later.from # t \/ later.no \notin nos
  <2>1. PICK tap \in taps :
          later = IF tap.from = t /\ tap.no \in nos THEN [tap EXCEPT !.over = TRUE] ELSE tap
    BY DEF Over
  <2>2. tap \in Taps
    BY DEF TapsTyped
  <2> QED
    BY <1>2, <2>1, <2>2, OneTapOver
<1> QED
  BY <1>1, <1>2, EndedTaps

LEMMA ReloadEnds ==
    ASSUME TapsTyped, NEW t \in Tabs, Reload(t)
    PROVE  TapsStep /\ \A later \in taps' : ~later.over => later.from # t
<1>1. taps' = {IF tap.from = t THEN [tap EXCEPT !.over = TRUE] ELSE tap : tap \in taps}
  BY DEF Reload
<1>2. \A later \in taps' : \E tap \in taps : later = tap \/ later = [tap EXCEPT !.over = TRUE]
  BY <1>1
<1>3. ASSUME NEW later \in taps', ~later.over PROVE later.from # t
  <2>1. PICK tap \in taps : later = IF tap.from = t THEN [tap EXCEPT !.over = TRUE] ELSE tap
    BY <1>1
  <2>2. tap \in Taps
    BY DEF TapsTyped
  <2> QED
    BY <1>3, <2>1, <2>2, OneTapOver
<1> QED
  BY <1>2, <1>3, EndedTaps

\* A tap is sent and remembered.
LEMMA AccountTyped ==
    ASSUME BrowsersTyped, NEW t \in Tabs
    PROVE  Account(t) \in Users \cup {Nobody}
BY DEF BrowsersTyped, Account

LEMMA ScheduleStarts ==
    ASSUME NEW form
    PROVE  StartsAt(form, ScheduleOf(form["date"], form["time"]))
BY DEF StartsAt, ScheduleOf

TapOfPage(t, op, form, shown) ==
    [from |-> t, no |-> plan[t].calls, op |-> op, user |-> Account(t), form |-> form, shown |-> shown,
     over |-> FALSE]

LEMMA TapMade ==
    ASSUME BrowsersTyped, NEW t \in Tabs, NEW op \in Ops, NEW form \in Forms, NEW shown \in SentBodies,
           Account(t) # Nobody
    PROVE  /\ TapOfPage(t, op, form, shown) \in Taps
           /\ TapOfPage(t, op, form, shown).from = t
           /\ TapOfPage(t, op, form, shown).no = plan[t].calls
           /\ TapOfPage(t, op, form, shown).op = op
           /\ TapOfPage(t, op, form, shown).user = Account(t)
           /\ TapOfPage(t, op, form, shown).form = form
           /\ TapOfPage(t, op, form, shown).shown = shown
<1>1. plan[t].calls \in Nat
  BY DEF BrowsersTyped, TabPlans
<1>2. Account(t) \in Users
  BY AccountTyped
<1> QED
  BY <1>1, <1>2 DEF Taps, TapOfPage

LEMMA TapsMoveOn ==
    ASSUME WellTyped, [Next]_vars
    PROVE  TapsStep
<1>1. TapsTyped /\ BrowsersTyped /\ PagesTyped
  BY DEF WellTyped
<1>2. ASSUME UNCHANGED taps PROVE TapsStep
  BY <1>1, <1>2, EndedTaps
<1>3. ASSUME NEW t, NEW nos, taps' = Over(t, nos) PROVE TapsStep
  BY <1>1, <1>3, OverEnds
<1>4. CASE Serving \/ Failing \/ TakingPart \/ Watching \/ UNCHANGED vars
  BY <1>2, <1>4 DEF Serving, Failing, TakingPart, Watching, Snapshot, vars, client
<1>5. CASE Using
  <2>1. PICK t \in Tabs : NewGameUser(t) \/ OrganizeUser(t) \/ SettingsUser(t) \/ MyListsUser(t)
    BY <1>5 DEF Using
  <2>2. CASE CreateNewGame(t)
    <3>1. PICK form, shown : form = newGame[t].form /\ shown = NewGameBody(form)
      OBVIOUS
    <3>2. /\ form \in Forms /\ shown \in SentBodies
          /\ shown.about = form["names"] /\ StartsAt(form, shown.schedule)
      BY <1>1, <3>1, NewGameBodyTyped, ScheduleStarts DEF PagesTyped, NewGameTyped, NewGames, Forms
    <3>3. PICK new : new = TapOfPage(t, "createGame", form, shown)
      OBVIOUS
    <3>4. /\ taps' = taps \cup {new} /\ Account(t) # Nobody
          /\ MayCall(t) /\ plan' = [plan EXCEPT ![t].calls = @ - 1]
      BY <2>2, <3>1, <3>3, Zenon DEF CreateNewGame, TapFrom, TapOn, CallFrom, TapOfPage
    <3>5. /\ new \in Taps /\ new.from = t /\ new.no = plan[t].calls /\ new.op = "createGame" /\ Paid(t)
          /\ new.form = form /\ new.shown = shown
      <4>1. MayCall(t) /\ plan' = [plan EXCEPT ![t].calls = @ - 1] /\ Account(t) # Nobody /\ BrowsersTyped
        BY <1>1, <3>4
      <4>2. "createGame" \in Ops
        BY DEF Ops, Writes
      <4>3. Paid(t)
        BY <4>1, CallPaid
      <4> QED
        BY <3>2, <3>3, <4>1, <4>2, <4>3, TapMade
    <3>6. NewGameTaps(t)
      <4>1. newGame[t] \in NewGames /\ newGame \in [Tabs -> NewGames]
        BY <1>1 DEF PagesTyped, NewGameTyped
      <4>2. PICK no : no = plan[t].calls
        OBVIOUS
      <4>3. PICK pg : pg = [newGame[t] EXCEPT !.submitting = TRUE, !.awaits = no, !.told = "nothing"]
        OBVIOUS
      <4>4. newGame' = [newGame EXCEPT ![t] = pg]
        BY <2>2, <4>2, <4>3, Zenon DEF CreateNewGame
      <4>5. pg.alive = newGame[t].alive /\ pg.submitting /\ pg.awaits = no /\ pg.told = "nothing"
        BY <4>1, <4>3 DEF NewGames
      <4>6. ~newGame[t].submitting
        BY <2>2 DEF CreateNewGame, MayCreateNewGame
      <4> QED
        BY <2>2, <4>1, <4>2, <4>4, <4>5, <4>6 DEF NewGameTaps
    <3>7. NewTap(new)
      BY <3>2, <3>5, <3>6 DEF NewTap, FromForm
    <3> QED
      BY <3>4, <3>7 DEF TapsStep
  <2>3. CASE Organize(t)
    <3>1. PICK entered, shown : entered = organize[t].entered /\ shown = OrganizeBody(entered)
      OBVIOUS
    <3>2. /\ entered \in Forms /\ shown \in SentBodies
          /\ shown.about = entered.form["team"] /\ shown.rows = entered.rows
          /\ StartsAt(entered.form, shown.schedule)
      BY <1>1, <3>1, OrganizeBodyTyped, ScheduleStarts DEF PagesTyped, OrganizeTyped, Organizes, Forms
    <3>3. PICK new : new = TapOfPage(t, "createGameInvite", entered, shown)
      OBVIOUS
    <3>4. /\ taps' = taps \cup {new} /\ Account(t) # Nobody
          /\ MayCall(t) /\ plan' = [plan EXCEPT ![t].calls = @ - 1]
      BY <2>3, <3>1, <3>3, Zenon DEF Organize, TapFrom, TapOn, CallFrom, TapOfPage
    <3>5. /\ new \in Taps /\ new.from = t /\ new.no = plan[t].calls /\ new.op = "createGameInvite" /\ Paid(t)
          /\ new.form = entered /\ new.shown = shown
      <4>1. MayCall(t) /\ plan' = [plan EXCEPT ![t].calls = @ - 1] /\ Account(t) # Nobody /\ BrowsersTyped
        BY <1>1, <3>4
      <4>2. "createGameInvite" \in Ops
        BY DEF Ops, Writes
      <4>3. Paid(t)
        BY <4>1, CallPaid
      <4> QED
        BY <3>2, <3>3, <4>1, <4>2, <4>3, TapMade
    <3>6. OrganizeTaps(t)
      <4>1. organize[t] \in Organizes /\ organize \in [Tabs -> Organizes]
        BY <1>1 DEF PagesTyped, OrganizeTyped
      <4>2. PICK no : no = plan[t].calls
        OBVIOUS
      <4>3. PICK pg : pg = [organize[t] EXCEPT !.submitting = TRUE, !.awaits = no, !.told = "nothing"]
        OBVIOUS
      <4>4. organize' = [organize EXCEPT ![t] = pg]
        BY <2>3, <4>2, <4>3, Zenon DEF Organize
      <4>5. pg.alive = organize[t].alive /\ pg.submitting /\ pg.awaits = no /\ pg.told = "nothing"
        BY <4>1, <4>3 DEF Organizes
      <4>6. ~organize[t].submitting
        BY <2>3 DEF Organize, MayOrganize
      <4> QED
        BY <2>3, <4>1, <4>2, <4>4, <4>5, <4>6 DEF OrganizeTaps
    <3>7. NewTap(new)
      BY <3>2, <3>5, <3>6 DEF NewTap, FromForm
    <3> QED
      BY <3>4, <3>7 DEF TapsStep
  <2>4. CASE SaveSettings(t)
    <3>1. PICK form, shown : form = settings[t].form /\ shown = Shown(t)
      OBVIOUS
    <3>2. form \in Forms /\ shown \in SentBodies /\ shown.target = settings[t].game
      BY <1>1, <3>1, ShownTyped DEF PagesTyped, SettingsTyped, SettingsPagesSet, SettingsForms, Forms
    <3>3. PICK new : new = TapOfPage(t, "updateGame", form, shown)
      OBVIOUS
    <3>4. /\ taps' = taps \cup {new} /\ Account(t) # Nobody
          /\ MayCall(t) /\ plan' = [plan EXCEPT ![t].calls = @ - 1]
      BY <2>4, <3>1, <3>3, Zenon DEF SaveSettings, CallFrom, TapOn, TapOfPage
    <3>5. /\ new \in Taps /\ new.from = t /\ new.no = plan[t].calls /\ new.op = "updateGame" /\ Paid(t)
          /\ new.shown = shown
      <4>1. MayCall(t) /\ plan' = [plan EXCEPT ![t].calls = @ - 1] /\ Account(t) # Nobody /\ BrowsersTyped
        BY <1>1, <3>4
      <4>2. "updateGame" \in Ops
        BY DEF Ops, Writes
      <4>3. Paid(t)
        BY <4>1, CallPaid
      <4> QED
        BY <3>2, <3>3, <4>1, <4>2, <4>3, TapMade
    <3>6. settings'[t].awaits = plan[t].calls /\ settings'[t].game = settings[t].game
      <4>1. settings[t] \in SettingsPagesSet /\ settings \in [Tabs -> SettingsPagesSet]
        BY <1>1 DEF PagesTyped, SettingsTyped
      <4>2. PICK no : no = plan[t].calls
        OBVIOUS
      <4>3. PICK pg : pg = [settings[t] EXCEPT !.submitting = TRUE, !.awaits = no, !.told = "nothing"]
        OBVIOUS
      <4>4. settings' = [settings EXCEPT ![t] = pg]
        BY <2>4, <4>2, <4>3, Zenon DEF SaveSettings
      <4>5. pg.game = settings[t].game /\ pg.awaits = no
        BY <4>1, <4>3 DEF SettingsPagesSet
      <4> QED
        BY <4>1, <4>2, <4>4, <4>5
    <3>7. NewTap(new)
      BY <3>2, <3>5, <3>6 DEF NewTap, FromForm
    <3> QED
      BY <3>4, <3>7 DEF TapsStep
  <2>5. CASE UNCHANGED taps
    BY <1>2, <2>5
  <2>6. CreateNewGame(t) \/ Organize(t) \/ SaveSettings(t) \/ UNCHANGED taps
    BY <2>1 DEF NewGameUser, EditNewGame, SignInFromNewGame, CreateNewGameSignedOut,
         OrganizeUser, EditOrganize, TypeRow, AddRow, RemoveRow, Enters, SignInFromOrganize,
         OrganizeSignedOut, SettingsUser, OpenSettings, EditSettings, SaveSettingsSignedOut,
         MyListsUser, SignInFromRosters, Retry, Follow, FollowSignedOut
  <2> QED
    BY <2>2, <2>3, <2>4, <2>5, <2>6
<1>6. CASE Going
  <2>1. CASE \E t \in Tabs : Visit(t) \/ Return(t)
    BY <1>2, <2>1 DEF Visit, Return, ShowMyGames, ShowMyRosters, ShowBoard
  <2>2. CASE \E t \in Tabs : Close(t)
    BY <1>3, <2>2 DEF Close
  <2>3. CASE \E t \in Tabs : Reload(t)
    BY <1>1, <2>3, ReloadEnds
  <2>4. CASE \/ \E t \in Tabs, u \in Users : SignIn(t, u)
             \/ \E t \in Tabs : SignOut(t) \/ Learn(t)
    BY <1>2, <2>4 DEF SignIn, SignOut, Learn, Session
  <2> QED
    BY <1>6, <2>1, <2>2, <2>3, <2>4 DEF Going
<1>7. CASE Receiving
  <2>1. PICK t \in Tabs, c \in calls :
          \/ NewGameCreated(t, c) \/ NewGameFails(t, c) \/ Land(t, c) \/ Organized(t, c)
          \/ OrganizeFails(t, c) \/ SettingsReceive(t, c) \/ MyListsReceive(t)
    BY <1>7 DEF Receiving, MyListsReceive
  <2> QED
    BY <1>2, <1>3, <2>1 DEF NewGameCreated, NewGameFails, Organized, OrganizeFails, Land,
         SettingsReceive, SettingsLoaded, SettingsNotLoaded, SettingsSaved, SettingsNotSaved,
         MyListsReceive, RostersListed, RostersNotListed, Following, NotFollowing
<1> QED
  BY <1>4, <1>5, <1>6, <1>7 DEF Next

LEMMA TapsTypedKept ==
    ASSUME TapsTyped, TapsStep
    PROVE  TapsTyped'
BY DEF TapsTyped, TapsStep, NewTap

LEMMA TapsFineKept ==
    ASSUME WellTyped, TapsFine, TapsStep, PlanStep, plan' \in [Tabs -> TabPlans]
    PROVE  TapsFine'
<1>1. /\ \A tap \in taps : tap.no > plan[tap.from].calls /\ FromForm(tap)
      /\ \A one, other \in taps :
            one.from = other.from /\ one.no = other.no =>
               one.op = other.op /\ one.user = other.user /\ one.form = other.form /\ one.shown = other.shown
  BY DEF TapsFine
<1>2. ASSUME NEW tap \in taps PROVE tap.no \in Nat /\ tap.from \in Tabs
  BY DEF WellTyped, TapsTyped, Taps
<1>3. ASSUME NEW t \in Tabs
      PROVE  plan[t].calls \in Nat /\ plan'[t].calls \in Nat /\ plan'[t].calls <= plan[t].calls
  BY DEF WellTyped, BrowsersTyped, TabPlans, PlanStep
<1>5. CASE \A later \in taps' : \E tap \in taps : SameTap(later, tap)
  <2>1. ASSUME NEW later \in taps' PROVE later.no > plan'[later.from].calls /\ FromForm(later)
    <3>1. PICK tap \in taps : SameTap(later, tap)
      BY <1>5
    <3>2. later.no > plan'[later.from].calls
      BY <1>1, <1>2, <1>3, <3>1 DEF SameTap
    <3>3. FromForm(later)
      BY <1>1, <3>1, Zenon DEF SameTap, FromForm
    <3> QED
      BY <3>2, <3>3
  <2>2. ASSUME NEW one \in taps', NEW other \in taps', one.from = other.from, one.no = other.no
        PROVE  one.op = other.op /\ one.user = other.user /\ one.form = other.form /\ one.shown = other.shown
    <3>1. PICK one0 \in taps : SameTap(one, one0)
      BY <1>5
    <3>2. PICK other0 \in taps : SameTap(other, other0)
      BY <1>5
    <3> QED
      BY <1>1, <2>2, <3>1, <3>2 DEF SameTap
  <2> QED
    BY <2>1, <2>2 DEF TapsFine
<1>6. CASE \E new : taps' = taps \cup {new} /\ NewTap(new)
  <2>1. PICK new : taps' = taps \cup {new} /\ NewTap(new)
    BY <1>6
  <2>2. new.from \in Tabs /\ new.no = plan[new.from].calls /\ plan'[new.from].calls < plan[new.from].calls
    BY <2>1 DEF NewTap, Taps, Paid
  <2>3. ASSUME NEW tap \in taps PROVE tap.no > plan'[tap.from].calls
    BY <1>1, <1>2, <1>3
  <2>4. ASSUME NEW tap \in taps PROVE ~(tap.from = new.from /\ tap.no = new.no)
    BY <1>1, <1>2, <1>3, <2>2
  <2>5. new.no > plan'[new.from].calls
    BY <1>3, <2>2
  <2> QED
    BY <1>1, <2>1, <2>3, <2>4, <2>5 DEF TapsFine, NewTap
<1> QED
  BY <1>5, <1>6 DEF TapsStep

\* A tap that a page waits for is one that its page waits for still, or over with it.
LEMMA WaitingKept ==
    ASSUME WellTyped, \A c \in calls : CallFine(c), Waiting, [Next]_vars
    PROVE  Waiting'
<1>1. TapsTyped /\ TapsStep
  BY TapsMoveOn DEF WellTyped
<1>2. SUFFICES ASSUME NEW later \in taps', ~later.over
               PROVE  /\ later.op = "createGame" =>
                            /\ newGame'[later.from].alive /\ newGame'[later.from].submitting
                            /\ newGame'[later.from].awaits = later.no
                      /\ later.op = "createGameInvite" =>
                            /\ organize'[later.from].alive /\ organize'[later.from].submitting
                            /\ organize'[later.from].awaits = later.no
  BY Zenon DEF Waiting
<1> DEFINE Goal == /\ later.op = "createGame" =>
                            /\ newGame'[later.from].alive /\ newGame'[later.from].submitting
                            /\ newGame'[later.from].awaits = later.no
                   /\ later.op = "createGameInvite" =>
                            /\ organize'[later.from].alive /\ organize'[later.from].submitting
                            /\ organize'[later.from].awaits = later.no
<1>3. ASSUME NEW t, NEW nos, taps' = Over(t, nos) PROVE later.from # t \/ later.no \notin nos
  BY <1>1, <1>2, <1>3, OverEnds
<1>4. ASSUME NEW t \in Tabs, Reload(t) PROVE later.from # t
  BY <1>1, <1>2, <1>4, ReloadEnds
<1>5. ASSUME NEW tap \in taps, SameTap(later, tap), tap.over => later.over PROVE Goal
  <2>1. /\ ~tap.over /\ later.from = tap.from /\ later.no = tap.no /\ later.op = tap.op
        /\ tap.from \in Tabs
    BY <1>1, <1>2, <1>5 DEF SameTap, TapsTyped, Taps
  <2>2. PICK p \in Tabs : p = tap.from
    BY <2>1
  <2>3. ASSUME tap.op = "createGame"
        PROVE  newGame'[p].alive /\ newGame'[p].submitting /\ newGame'[p].awaits = tap.no
    <3>1. newGame[p].alive /\ newGame[p].submitting /\ newGame[p].awaits = tap.no
      BY <2>1, <2>2, <2>3 DEF Waiting
    <3>2. NewGameMoves(p)
      BY NewGameCases
    <3>3. CASE SameNewGame(p)
      BY <3>1, <3>3 DEF SameNewGame
    <3>4. CASE NewGameTaps(p) \/ NewGameOpens(p)
      BY <3>1, <3>4 DEF NewGameTaps, NewGameOpens
    <3>5. CASE NewGameCloses(p)
      <4>1. ~Reload(p)
        BY <1>4, <2>1, <2>2
      <4>2. Close(p) /\ Shows(p, "newGame")
        BY <3>5, <4>1 DEF NewGameCloses
      <4>3. taps' = Over(p, {newGame[p].awaits})
        BY <4>2 DEF Close
      <4> QED
        BY <1>3, <2>1, <2>2, <3>1, <4>3
    <3>6. CASE \E c \in calls : NewGameTells(p, c)
      BY <3>1, <3>6 DEF NewGameTells
    <3>7. CASE \E c \in calls : NewGameEnds(p, c)
      <4>1. PICK c \in calls : NewGameEnds(p, c)
        BY <3>7
      <4>2. ASSUME newGame[p].awaits = c.no PROVE FALSE
        <5>1. CASE NewGameFails(p, c)
          <6>1. taps' = Over(p, {c.no})
            BY <5>1 DEF NewGameFails
          <6> QED
            BY <1>3, <2>1, <2>2, <3>1, <4>2, <6>1
        <5>2. CASE Land(p, c)
          <6>1. c.stage = "landing" /\ c.from = p
            BY <5>2 DEF Land, NewGameLeft
          <6>2. tap.over
            BY <2>1, <2>2, <3>1, <4>2, <6>1 DEF CallFine
          <6> QED
            BY <2>1, <6>2
        <5> QED
          BY <4>1, <5>1, <5>2 DEF NewGameEnds
      <4> QED
        BY <3>1, <4>1, <4>2 DEF NewGameEnds
    <3> QED
      BY <3>2, <3>3, <3>4, <3>5, <3>6, <3>7 DEF NewGameMoves
  <2>4. ASSUME tap.op = "createGameInvite"
        PROVE  organize'[p].alive /\ organize'[p].submitting /\ organize'[p].awaits = tap.no
    <3>1. organize[p].alive /\ organize[p].submitting /\ organize[p].awaits = tap.no
      BY <2>1, <2>2, <2>4 DEF Waiting
    <3>2. OrganizeMoves(p)
      BY OrganizeCases
    <3>3. CASE SameOrganize(p)
      BY <3>1, <3>3 DEF SameOrganize
    <3>4. CASE OrganizeTaps(p) \/ OrganizeOpens(p)
      BY <3>1, <3>4 DEF OrganizeTaps, OrganizeOpens
    <3>5. CASE OrganizeCloses(p)
      <4>1. ~Reload(p)
        BY <1>4, <2>1, <2>2
      <4>2. Close(p) /\ Shows(p, "organize")
        BY <3>5, <4>1 DEF OrganizeCloses
      <4>3. taps' = Over(p, {organize[p].awaits})
        BY <4>2 DEF Close, Shows
      <4> QED
        BY <1>3, <2>1, <2>2, <3>1, <4>3
    <3>6. CASE \E c \in calls : OrganizeTells(p, c)
      <4>1. PICK c \in calls : OrganizeTells(p, c)
        BY <3>6
      <4>2. taps' = Over(p, {c.no} \cup (IF Shows(p, "organize") THEN {organize[p].awaits} ELSE {}))
        BY <4>1 DEF OrganizeTells, Organized
      <4>3. ~Shows(p, "organize") /\ organize[p].awaits # c.no
        BY <1>3, <2>1, <2>2, <3>1, <4>2
      <4> QED
        BY <3>1, <4>1, <4>3 DEF OrganizeTells
    <3>7. CASE \E c \in calls : OrganizeEnds(p, c)
      <4>1. PICK c \in calls : OrganizeEnds(p, c)
        BY <3>7
      <4>2. taps' = Over(p, {c.no})
        BY <4>1 DEF OrganizeEnds, OrganizeFails
      <4>3. organize[p].awaits # c.no
        BY <1>3, <2>1, <2>2, <3>1, <4>2
      <4> QED
        BY <3>1, <4>1, <4>3 DEF OrganizeEnds
    <3> QED
      BY <3>2, <3>3, <3>4, <3>5, <3>6, <3>7 DEF OrganizeMoves
  <2> QED
    BY <2>1, <2>2, <2>3, <2>4
<1>6. ASSUME NewTap(later) PROVE Goal
  <2>1. ASSUME later.op = "createGame"
        PROVE  /\ newGame'[later.from].alive /\ newGame'[later.from].submitting
               /\ newGame'[later.from].awaits = later.no
    <3>1. /\ NewGameTaps(later.from) /\ later.no = plan[later.from].calls /\ later.from \in Tabs
      BY <1>6, <2>1 DEF NewTap, Taps
    <3>2. newGame[later.from].alive
      BY <3>1 DEF NewGameTaps, CreateNewGame, MayCreateNewGame, ShowsStepTwo, WellTyped, PagesTyped,
                  NewGameTyped
    <3> QED
      BY <3>1, <3>2 DEF NewGameTaps
  <2>2. ASSUME later.op = "createGameInvite"
        PROVE  /\ organize'[later.from].alive /\ organize'[later.from].submitting
               /\ organize'[later.from].awaits = later.no
    <3>1. /\ OrganizeTaps(later.from) /\ later.no = plan[later.from].calls /\ later.from \in Tabs
      BY <1>6, <2>2 DEF NewTap, Taps
    <3>2. organize[later.from].alive
      BY <3>1 DEF OrganizeTaps, Organize, MayOrganize, WellTyped, PagesTyped, OrganizeTyped
    <3> QED
      BY <3>1, <3>2 DEF OrganizeTaps
  <2> QED
    BY <2>1, <2>2
<1>7. \/ \E tap \in taps : SameTap(later, tap) /\ (tap.over => later.over)
      \/ NewTap(later)
  BY <1>1, <1>2 DEF TapsStep, SameTap
<1> QED
  BY <1>5, <1>6, <1>7

-----------------------------------------------------------------------------
(***************************************************************************)
(* Records, and the calls that leave them.                                 *)
(***************************************************************************)

GameAdded(c) ==
    \E last :
        /\ last \notin DOMAIN games /\ DOMAIN games' = DOMAIN games \cup {last}
        /\ \A i \in DOMAIN games : games'[i] = games[i]
        /\ games'[last] = NewGameRecord(c)
        /\ c.op = "createGame" /\ c.stage = "sent"

GameUpdated(c) ==
    /\ c.op = "updateGame" /\ c.body.target \in DOMAIN games
    /\ DOMAIN games' = DOMAIN games
    /\ \A i \in DOMAIN games : /\ games'[i].tap = games[i].tap /\ games'[i].about = games[i].about
                               /\ games'[i].createdBy = games[i].createdBy
                               /\ i # c.body.target => games'[i] = games[i]
    /\ games'[c.body.target].schedule = c.body.schedule
    /\ games'[c.body.target].location = c.body.location

NoLongerSent(c) == \A d \in calls' : d.stage = "sent" => d.from # c.from \/ d.no # c.no

GamesMove ==
    UNCHANGED games \/ \E c \in calls : (GameAdded(c) /\ NoLongerSent(c)) \/ GameUpdated(c)

RosterAdded(c) ==
    \E last :
        /\ last \notin DOMAIN rosters /\ DOMAIN rosters' = DOMAIN rosters \cup {last}
        /\ \A i \in DOMAIN rosters : rosters'[i] = rosters[i]
        /\ rosters'[last] = NewRosterRecord(c)
        /\ c.op = "createGameInvite" /\ c.stage = "sent"

RostersMove == UNCHANGED rosters \/ \E c \in calls : RosterAdded(c) /\ NoLongerSent(c)

LEMMA ServedOnce ==
    ASSUME SentOnce, NEW ids, calls \subseteq CallsOf(ids), NEW c \in calls, c.stage = "sent",
           NEW reply, Answers(c, reply)
    PROVE  NoLongerSent(c)
<1>1. PICK a : a = [c EXCEPT !.stage = "answered", !.reply = reply]
  OBVIOUS
<1>2. a.stage = "answered"
  <2>1. c \in CallsOf(ids)
    OBVIOUS
  <2> QED
    BY <1>1, <2>1 DEF CallsOf
<1>3. calls' \subseteq (calls \ {c}) \cup {a}
  BY <1>1, Zenon DEF Answers
<1> QED
  BY <1>2, <1>3 DEF SentOnce, NoLongerSent

LEMMA CreateMoves ==
    ASSUME RecordsTyped, NEW ids, NEW c \in calls, c \in CallsOf(ids), ServeCreateGame(c)
    PROVE  /\ games' \in Seq(Games)
           /\ UNCHANGED games \/ GameAdded(c)
           /\ Authenticated(c) /\ c.body.about # Blank =>
                 Len(games') \in DOMAIN games' /\ games'[Len(games')].tap = <<c.from, c.no>>
<1>1. games \in Seq(Games)
  BY DEF RecordsTyped
<1>2. CASE Authenticated(c) /\ c.body.about # Blank
  <2>1. PICK g : g = NewGameRecord(c)
    OBVIOUS
  <2>2. g \in Games
    <3>1. c.user \in Users /\ c.body.about \in Inputs /\ c.body.schedule \in Schedules
      BY <1>2 DEF Authenticated, CallsOf, SentBodies, Texts
    <3>2. c.from \in Tabs /\ c.no \in Nat
      BY DEF CallsOf
    <3>3. Blank \in Texts
      BY DEF Texts
    <3> QED
      BY <2>1, <3>1, <3>2, <3>3 DEF NewGameRecord, Games
  <2>3. games' = Append(games, g) /\ c.op = "createGame" /\ c.stage = "sent"
    BY <1>2, <2>1 DEF ServeCreateGame
  <2>4. games' \in Seq(Games)
    BY <1>1, <2>2, <2>3
  <2>5. PICK last : last = Len(games) + 1
    OBVIOUS
  <2>6. /\ last \notin DOMAIN games /\ DOMAIN games' = DOMAIN games \cup {last}
        /\ \A i \in DOMAIN games : games'[i] = games[i]
        /\ games'[last] = g
    BY <1>1, <2>3, <2>5, SeqAppended DEF IsSeq
  <2>7. GameAdded(c)
    BY <2>1, <2>3, <2>6 DEF GameAdded
  <2>8. g.tap = <<c.from, c.no>>
    BY <2>1 DEF NewGameRecord
  <2>9. Len(games') = last
    BY <1>1, <2>3, <2>5
  <2> QED
    BY <2>4, <2>6, <2>7, <2>8, <2>9
<1>3. CASE ~(Authenticated(c) /\ c.body.about # Blank)
  BY <1>1, <1>3 DEF ServeCreateGame, Refuses
<1> QED
  BY <1>2, <1>3

LEMMA UpdateMoves ==
    ASSUME RecordsTyped, NEW ids, NEW c \in calls, c \in CallsOf(ids), CallFine(c), ServeUpdateWrite(c)
    PROVE  games' \in Seq(Games) /\ GameUpdated(c)
<1>1. games \in Seq(Games)
  BY DEF RecordsTyped
<1>2. PICK k : k = c.body.target
  OBVIOUS
<1>3. c.op = "updateGame" /\ c.stage = "read" /\ k \in DOMAIN games
  BY <1>2 DEF ServeUpdateWrite, CallFine
<1>4. PICK schedule : schedule = Given(c.body.schedule, NoSchedule, c.reply.schedule)
  OBVIOUS
<1>5. PICK location : location = Given(c.body.location, Omitted, c.reply.location)
  OBVIOUS
<1>6. PICK g : g = [games[k] EXCEPT !.schedule = schedule, !.location = location]
  OBVIOUS
<1>7. games' = [games EXCEPT ![k] = g]
  BY <1>2, <1>4, <1>5, <1>6, Zenon DEF ServeUpdateWrite
<1>8. c.body.schedule \in Schedules /\ c.body.location \in Texts
  BY DEF CallsOf, SentBodies
<1>9. schedule = c.body.schedule /\ location = c.body.location
  <2>1. Omitted \notin Texts
    BY RecordsAssumption DEF Texts, Blank, Omitted
  <2>2. c.body.schedule \in Texts \X Texts
    BY <1>8 DEF Schedules, Unset, Texts
  <2>3. c.body.schedule # NoSchedule
    BY <2>1, <2>2 DEF NoSchedule
  <2> QED
    BY <1>4, <1>5, <1>8, <2>1, <2>3 DEF Given
<1>10. games[k] \in Games
  BY <1>1, <1>3
<1>11. /\ g \in Games /\ g.tap = games[k].tap /\ g.about = games[k].about /\ g.createdBy = games[k].createdBy
       /\ g.schedule = schedule /\ g.location = location
  BY <1>6, <1>8, <1>9, <1>10 DEF Games
<1>12. games' \in Seq(Games)
  BY <1>1, <1>3, <1>7, <1>11, ExceptSeq
<1>13. /\ DOMAIN games' = DOMAIN games
       /\ \A i \in DOMAIN games : games'[i] = IF i = k THEN g ELSE games[i]
  BY <1>1, <1>7
<1> QED
  BY <1>2, <1>3, <1>9, <1>11, <1>12, <1>13 DEF GameUpdated

LEMMA CreateRosterMoves ==
    ASSUME RecordsTyped, NEW ids, NEW c \in calls, c \in CallsOf(ids), ServeCreateRoster(c)
    PROVE  /\ rosters' \in Seq(Rosters)
           /\ UNCHANGED rosters \/ RosterAdded(c)
           /\ Authenticated(c) /\ c.body.about # Blank =>
                 \E i \in DOMAIN rosters' : rosters'[i].tap = <<c.from, c.no>>
<1>1. rosters \in Seq(Rosters)
  BY DEF RecordsTyped
<1>2. CASE Authenticated(c) /\ c.body.about # Blank
  <2>1. PICK g : g = NewRosterRecord(c)
    OBVIOUS
  <2>2. g \in Rosters
    <3>1. c.user \in Users /\ c.body.about \in Inputs /\ c.body.schedule \in Schedules /\ c.body.rows \in Seq(Inputs)
      BY <1>2 DEF Authenticated, CallsOf, SentBodies, Texts
    <3>2. c.from \in Tabs /\ c.no \in Nat
      BY DEF CallsOf
    <3> QED
      BY <2>1, <3>1, <3>2 DEF NewRosterRecord, Rosters
  <2>3. rosters' = Append(rosters, g) /\ c.op = "createGameInvite" /\ c.stage = "sent"
    BY <1>2, <2>1 DEF ServeCreateRoster
  <2>4. rosters' \in Seq(Rosters)
    BY <1>1, <2>2, <2>3
  <2>5. PICK last : last = Len(rosters) + 1
    OBVIOUS
  <2>6. /\ last \notin DOMAIN rosters /\ DOMAIN rosters' = DOMAIN rosters \cup {last}
        /\ \A i \in DOMAIN rosters : rosters'[i] = rosters[i]
        /\ rosters'[last] = g
    BY <1>1, <2>3, <2>5, SeqAppended DEF IsSeq
  <2>7. RosterAdded(c)
    BY <2>1, <2>3, <2>6 DEF RosterAdded
  <2>8. g.tap = <<c.from, c.no>>
    BY <2>1 DEF NewRosterRecord
  <2> QED
    BY <2>4, <2>6, <2>7, <2>8
<1>3. CASE ~(Authenticated(c) /\ c.body.about # Blank)
  BY <1>1, <1>3 DEF ServeCreateRoster, Refuses
<1> QED
  BY <1>2, <1>3

LEMMA RecordsMoveOn ==
    ASSUME WellTyped, \A c \in calls : CallFine(c), SentOnce, [Next]_vars
    PROVE  RecordsTyped' /\ GamesMove /\ RostersMove /\ follows \subseteq follows'
<1> DEFINE Goal == RecordsTyped' /\ GamesMove /\ RostersMove /\ follows \subseteq follows'
<1>1. RecordsTyped
  BY DEF WellTyped
<1>2. PICK ids : calls \subseteq CallsOf(ids)
  BY DEF WellTyped, CallsTyped
<1>3. ASSUME UNCHANGED <<games, rosters, participants, follows>> PROVE Goal
  BY <1>1, <1>3 DEF RecordsTyped, GamesMove, RostersMove
<1>4. ASSUME NEW c \in calls, ServeCreateGame(c) PROVE Goal
  <2>1. games' \in Seq(Games) /\ (UNCHANGED games \/ GameAdded(c))
    BY <1>1, <1>2, <1>4, CreateMoves
  <2>2. UNCHANGED <<rosters, participants, follows>>
    BY <1>4 DEF ServeCreateGame, Refuses
  <2>3. NoLongerSent(c)
    <3>1. c.stage = "sent" /\ \E reply : Answers(c, reply)
      BY <1>4, Zenon DEF ServeCreateGame, Refuses
    <3> QED
      BY <1>2, <3>1, ServedOnce
  <2> QED
    BY <1>1, <2>1, <2>2, <2>3 DEF RecordsTyped, GamesMove, RostersMove
<1>5. ASSUME NEW c \in calls, ServeUpdateWrite(c) PROVE Goal
  <2>1. games' \in Seq(Games) /\ GameUpdated(c)
    BY <1>1, <1>2, <1>5, UpdateMoves
  <2>2. UNCHANGED <<rosters, participants, follows>>
    BY <1>5 DEF ServeUpdateWrite
  <2> QED
    BY <1>1, <2>1, <2>2 DEF RecordsTyped, GamesMove, RostersMove
<1>6. ASSUME NEW c \in calls, ServeCreateRoster(c) PROVE Goal
  <2>1. rosters' \in Seq(Rosters) /\ (UNCHANGED rosters \/ RosterAdded(c))
    BY <1>1, <1>2, <1>6, CreateRosterMoves
  <2>2. UNCHANGED <<games, participants, follows>>
    BY <1>6 DEF ServeCreateRoster, Refuses
  <2>5. NoLongerSent(c)
    <3>1. c.stage = "sent" /\ \E reply : Answers(c, reply)
      BY <1>6, Zenon DEF ServeCreateRoster, Refuses
    <3> QED
      BY <1>2, <3>1, ServedOnce
  <2>3. DOMAIN rosters \subseteq DOMAIN rosters'
    BY <2>1 DEF RosterAdded
  <2>4. participants' \subseteq Users \X DOMAIN rosters'
    BY <1>1, <2>2, <2>3 DEF RecordsTyped
  <2> QED
    BY <1>1, <2>1, <2>2, <2>4, <2>5 DEF RecordsTyped, GamesMove, RostersMove
<1>7. ASSUME NEW c \in calls, ServeFollow(c) PROVE Goal
  <2>1. CASE Authenticated(c)
    <3>1. c.user \in Users /\ c.body.target \in Targets
      BY <1>2, <1>7, <2>1 DEF ServeFollow, CallsOf, Authenticated, CallFine
    <3>2. follows' = follows \cup {<<c.user, c.body.target>>} /\ UNCHANGED <<games, rosters, participants>>
      BY <1>7, <2>1 DEF ServeFollow, WithFollow
    <3> QED
      BY <1>1, <3>1, <3>2 DEF RecordsTyped, GamesMove, RostersMove
  <2>2. CASE ~Authenticated(c)
    BY <1>3, <1>7, <2>2 DEF ServeFollow, Refuses
  <2> QED
    BY <2>1, <2>2
<1> HIDE DEF Goal
<1>8. ASSUME Serving PROVE Goal
  <2>1. PICK c \in calls : Serve(c)
    BY <1>8 DEF Serving
  <2>2. CASE ServeGetGame(c) \/ ServeUpdateRead(c) \/ ServeListOrganized(c) \/ ServeListInvited(c)
    BY <1>3, <2>2 DEF ServeGetGame, ServeUpdateRead, ServeListOrganized, ServeListInvited, Refuses
  <2> QED
    BY <1>4, <1>5, <1>6, <1>7, <2>1, <2>2 DEF Serve
<1>9. ASSUME TakingPart PROVE Goal
  <2>1. PICK u \in Users, i \in DOMAIN rosters : TakePart(u, i)
    BY <1>9 DEF TakingPart
  <2>2. participants' = participants \cup {<<u, i>>} /\ UNCHANGED <<games, rosters, follows>>
    BY <2>1 DEF TakePart
  <2> QED
    BY <1>1, <2>2 DEF Goal, RecordsTyped, GamesMove, RostersMove
<1>10. ASSUME Failing \/ Using \/ Going \/ Receiving \/ Watching \/ UNCHANGED vars PROVE Goal
  <2>1. CASE Failing
    BY <1>3, <2>1 DEF Failing, Lose, GiveUp
  <2>2. CASE Using \/ Going \/ Receiving \/ Watching \/ UNCHANGED vars
    BY <1>3, <2>2 DEF Using, Going, Receiving, Watching, vars, backend
  <2> QED
    BY <1>10, <2>1, <2>2
<1> QED
  BY <1>8, <1>9, <1>10 DEF Next, Goal

-----------------------------------------------------------------------------
(***************************************************************************)
(* Calls.                                                                  *)
(***************************************************************************)

\* What an "ok" means.
Served(c, reply) ==
    /\ c.op = "createGame" => reply.id \in DOMAIN games' /\ games'[reply.id].tap = <<c.from, c.no>>
    /\ c.op = "createGameInvite" => \E i \in DOMAIN rosters' : rosters'[i].tap = <<c.from, c.no>>
    /\ c.op = "updateGame" =>
          /\ c.body.target \in DOMAIN games'
          /\ games'[c.body.target].schedule = c.body.schedule
          /\ games'[c.body.target].location = c.body.location
    /\ c.op = "follow" => <<c.user, c.body.target>> \in follows'

\* A call moves on to its next stage ...
Moves(d, c) ==
    /\ Same(d, c) /\ (d.heard => c.heard)
    /\ \/ d.stage = "read" /\ (c.op = "updateGame" => c.body.target \in DOMAIN games)
       \/ d.stage = "answered" /\ (d.reply.status = "ok" => Served(c, d.reply))
       \/ /\ d.stage = "landing" /\ c.op = "createGame" /\ d.reply = c.reply
          /\ c.stage = "answered" /\ c.reply.status = "ok"
          /\ \A tap \in taps' : tap.from = c.from /\ tap.no = c.no => tap.over

\* ... or nobody waits for it any more ...
Unhears(d, c) ==
    Same(d, c) /\ ~d.heard /\ d.stage = c.stage /\ d.reply = c.reply

\* ... or is sent, with a tap or from the scoreboard shown.
Fresh(d) ==
    /\ d.stage = "sent" /\ d.no = plan[d.from].calls /\ Paid(d.from)
    /\ d.op \in {"createGame", "createGameInvite", "updateGame"} =>
          \E tap \in taps' : /\ tap.from = d.from /\ tap.no = d.no /\ tap.op = d.op
                             /\ tap.user = d.user /\ tap.shown = d.body
    /\ d.op = "follow" =>
          /\ board[d.from].alive /\ board' = board
          /\ d.body.target = board[d.from].target

CallsStep(ids) ==
    /\ calls' \subseteq CallsOf(ids)
    /\ \A d \in calls' : \/ d \in calls \/ Fresh(d)
                         \/ \E c \in calls \ calls' : Unhears(d, c)
                         \/ \E c \in calls : Moves(d, c)
    /\ \A d, e \in calls' : Fresh(d) /\ Fresh(e) /\ d.from = e.from => d = e
    /\ \A d, e \in calls' : \A c \in calls : Unhears(d, c) /\ Unhears(e, c) => d = e

\* All the calls there are, of these types and paid for.
CallsRight(ids) ==
    /\ << >> \in ids /\ BrowsersTyped
    /\ \A c \in calls : c \in CallsOf(ids) /\ CallFine(c)

LEMMA OldNotFresh ==
    ASSUME NEW ids, CallsRight(ids), NEW c \in calls, NEW d, Same(d, c)
    PROVE  ~Fresh(d)
<1>1. c.no > plan[c.from].calls /\ c.from \in Tabs /\ c.no \in Nat
  BY DEF CallsRight, CallFine, CallsOf
<1>2. plan[c.from].calls \in Nat
  BY <1>1 DEF CallsRight, BrowsersTyped, TabPlans
<1> QED
  BY <1>1, <1>2 DEF Fresh, Same

\* A call is its fields.
LEMMA CallIsItsFields ==
    ASSUME NEW ids, NEW d \in CallsOf(ids), NEW e \in CallsOf(ids), Same(d, e), d.stage = e.stage,
           d.heard = e.heard, d.reply = e.reply
    PROVE  d = e
BY DEF CallsOf, Same

LEMMA UnhearsOnce ==
    ASSUME NEW ids, NEW d \in CallsOf(ids), NEW e \in CallsOf(ids), NEW c, Unhears(d, c), Unhears(e, c)
    PROVE  d = e
<1>1. Same(d, e) /\ d.stage = e.stage /\ d.reply = e.reply
  BY DEF Unhears, Same
<1>2. d.heard = e.heard
  BY DEF Unhears, CallsOf
<1> QED
  BY <1>1, <1>2, CallIsItsFields

LEMMA CallsStepFrom ==
    ASSUME NEW ids, calls' \subseteq CallsOf(ids),
           \A d \in calls' : \/ d \in calls \/ Fresh(d)
                             \/ \E c \in calls \ calls' : Unhears(d, c)
                             \/ \E c \in calls : Moves(d, c),
           \A d, e \in calls' : Fresh(d) /\ Fresh(e) /\ d.from = e.from => d = e
    PROVE  CallsStep(ids)
<1>1. \A d, e \in calls' : \A c \in calls : Unhears(d, c) /\ Unhears(e, c) => d = e
  BY UnhearsOnce
<1> QED
  BY <1>1, Zenon DEF CallsStep

LEMMA FewerStep ==
    ASSUME NEW ids, CallsRight(ids), calls' \subseteq calls
    PROVE  CallsStep(ids)
<1>1. calls' \subseteq CallsOf(ids)
  BY DEF CallsRight
<1>2. \A d \in calls' : ~Fresh(d)
  BY OldNotFresh DEF Same
<1> QED
  BY <1>1, <1>2, CallsStepFrom

LEMMA OneStep ==
    ASSUME NEW ids, CallsRight(ids), NEW c \in calls, NEW more, ids \subseteq more,
           NEW d \in CallsOf(more), Moves(d, c), calls' \subseteq calls \cup {d}
    PROVE  CallsStep(more)
<1>1. calls' \subseteq CallsOf(more)
  <2>1. CallsOf(ids) \subseteq CallsOf(more)
    BY DEF CallsOf, Replies
  <2> QED
    BY <2>1 DEF CallsRight
<1>2. \A e \in calls' : ~Fresh(e)
  BY OldNotFresh DEF Same, Moves
<1> QED
  BY <1>1, <1>2, CallsStepFrom

LEMMA SentStep ==
    ASSUME NEW ids, CallsRight(ids), NEW d \in CallsOf(ids), Fresh(d), calls' \subseteq calls \cup {d}
    PROVE  CallsStep(ids)
<1>1. calls' \subseteq CallsOf(ids)
  BY DEF CallsRight
<1>2. \A e \in calls : ~Fresh(e)
  BY OldNotFresh DEF Same
<1> QED
  BY <1>1, <1>2, CallsStepFrom

LEMMA UnheardTyped ==
    ASSUME NEW ids, NEW c \in CallsOf(ids)
    PROVE  /\ [c EXCEPT !.heard = FALSE] \in CallsOf(ids)
           /\ Unhears([c EXCEPT !.heard = FALSE], c)
           /\ ~c.heard => [c EXCEPT !.heard = FALSE] = c
<1>1. /\ [c EXCEPT !.heard = FALSE] \in CallsOf(ids)
      /\ Unhears([c EXCEPT !.heard = FALSE], c)
  BY DEF CallsOf, Unhears, Same
<1>2. ASSUME ~c.heard PROVE [c EXCEPT !.heard = FALSE] = c
  <2>1. c.heard = FALSE
    BY <1>2 DEF CallsOf
  <2> QED
    BY <2>1 DEF CallsOf
<1> QED
  BY <1>1, <1>2

LEMMA UnheardStep ==
    ASSUME NEW ids, CallsRight(ids), NEW cs \in SUBSET calls, calls' = Unheard(cs)
    PROVE  CallsStep(ids) /\ \A d \in calls' : d \in calls \ cs \/ ~d.heard
<1>1. ASSUME NEW d \in calls'
      PROVE  \/ d \in calls \ cs
             \/ \E c \in cs : d = [c EXCEPT !.heard = FALSE]
  BY DEF Unheard
<1>2. \A c \in cs : c \in calls /\ c \in CallsOf(ids)
  BY DEF CallsRight
<1>0. ASSUME NEW d \in calls'
      PROVE  /\ d \in CallsOf(ids) /\ (d \in cs => ~d.heard)
             /\ \E c \in calls : Same(d, c)
  <2>1. CASE d \in calls \ cs
    BY <2>1 DEF CallsRight, Same
  <2>2. CASE \E c \in cs : d = [c EXCEPT !.heard = FALSE]
    <3>1. PICK c \in cs : d = [c EXCEPT !.heard = FALSE]
      BY <2>2
    <3>2. d \in CallsOf(ids) /\ Unhears(d, c)
      BY <1>2, <3>1, UnheardTyped
    <3> QED
      BY <1>2, <3>2 DEF Unhears
  <2> QED
    BY <1>1, <2>1, <2>2
<1>3. \A d \in calls' : d \in CallsOf(ids) /\ ~Fresh(d)
  BY <1>0, OldNotFresh
<1>4. ASSUME NEW d \in calls', d \in cs PROVE ~d.heard
  BY <1>0, <1>4
<1>5. ASSUME NEW d \in calls'
      PROVE  d \in calls \/ \E c \in calls \ calls' : Unhears(d, c)
  <2>1. CASE d \in calls \ cs
    BY <2>1
  <2>2. CASE \E c \in cs : d = [c EXCEPT !.heard = FALSE]
    <3>1. PICK c \in cs : d = [c EXCEPT !.heard = FALSE]
      BY <2>2
    <3>2. CASE c.heard
      BY <1>2, <1>4, <3>1, <3>2, UnheardTyped
    <3>3. CASE ~c.heard
      BY <1>2, <3>1, <3>3, UnheardTyped
    <3> QED
      BY <3>2, <3>3
  <2> QED
    BY <1>1, <2>1, <2>2
<1>6. calls' \subseteq CallsOf(ids)
  BY <1>3
<1>7. CallsStep(ids)
  BY <1>3, <1>5, <1>6, CallsStepFrom
<1>8. ASSUME NEW d \in calls' PROVE d \in calls \ cs \/ ~d.heard
  <2>1. CASE d \in calls \ cs
    BY <2>1
  <2>2. CASE \E c \in cs : d = [c EXCEPT !.heard = FALSE]
    BY <1>2, <2>2, UnheardTyped DEF Unhears
  <2> QED
    BY <1>1, <2>1, <2>2
<1> QED
  BY <1>7, <1>8

Answered(c, reply) == [c EXCEPT !.stage = "answered", !.reply = reply]

LEMMA AnsweredTyped ==
    ASSUME NEW ids, NEW more, ids \subseteq more, NEW c \in CallsOf(ids), NEW reply \in Replies(more)
    PROVE  /\ Answered(c, reply) \in CallsOf(more)
           /\ Same(Answered(c, reply), c)
           /\ Answered(c, reply).stage = "answered"
           /\ Answered(c, reply).heard = c.heard
           /\ Answered(c, reply).reply = reply
BY DEF CallsOf, Stages, Same, Answered

LEMMA AnswersStep ==
    ASSUME NEW ids, CallsRight(ids), NEW c \in calls, NEW more, ids \subseteq more,
           NEW reply \in Replies(more), Answers(c, reply), reply.status = "ok" => Served(c, reply)
    PROVE  CallsStep(more)
<1>1. PICK d : d = Answered(c, reply)
  OBVIOUS
<1>2. c \in CallsOf(ids)
  BY DEF CallsRight
<1>3. d \in CallsOf(more) /\ Same(d, c) /\ d.stage = "answered" /\ d.heard = c.heard /\ d.reply = reply
  BY <1>1, <1>2, AnsweredTyped
<1>4. Moves(d, c)
  BY <1>3 DEF Moves
<1>5. calls' \subseteq calls \cup {d}
  BY <1>1, Zenon DEF Answers, Answered
<1>6. d \in CallsOf(more)
  BY <1>3
<1> QED
  BY <1>4, <1>5, <1>6, OneStep, Zenon

LEMMA RepliedTyped ==
    ASSUME NEW ids, << >> \in ids
    PROVE  /\ Replied("ok") \in Replies(ids) /\ Replied("failed") \in Replies(ids)
           /\ Replied("forbidden") \in Replies(ids)
           /\ Replied("failed").status # "ok" /\ Replied("forbidden").status # "ok"
BY UnansweredTyped DEF Statuses, Replied, Unanswered

LEMMA RefusesStep ==
    ASSUME NEW ids, CallsRight(ids), NEW c \in calls,
           NEW status \in {"failed", "forbidden"}, Answers(c, Replied(status))
    PROVE  CallsStep(ids)
<1>1. Replied(status) \in Replies(ids) /\ Replied(status).status # "ok"
  BY RepliedTyped DEF CallsRight
<1> QED
  BY <1>1, AnswersStep

LEMMA SettingsTypedReply ==
    ASSUME NEW ids, << >> \in ids, NEW g \in Games
    PROVE  Settings(g) \in Replies(ids)
<1>1. PICK ok : ok = Replied("ok")
  OBVIOUS
<1>2. PICK schedule : schedule = g.schedule
  OBVIOUS
<1>3. PICK location : location = g.location
  OBVIOUS
<1>4. schedule \in Schedules /\ location \in Texts
  BY <1>2, <1>3 DEF Games
<1>5. [ok EXCEPT !.schedule = schedule, !.location = location] \in Replies(ids)
  BY <1>1, <1>4, RepliedTyped DEF Replies
<1> QED
  BY <1>1, <1>2, <1>3, <1>5, Zenon DEF Settings

LEMMA NumberedReply ==
    ASSUME NEW ids, << >> \in ids, NEW n \in Nat
    PROVE  [Replied("ok") EXCEPT !.id = n] \in Replies(ids)
BY RepliedTyped DEF Replies

LEMMA ListedReply ==
    ASSUME NEW ids, << >> \in ids, NEW listed \in ids
    PROVE  [Replied("ok") EXCEPT !.listed = listed] \in Replies(ids)
BY RepliedTyped DEF Replies

LEMMA GiveUpStep ==
    ASSUME NEW ids, CallsRight(ids), NEW c \in calls, GiveUp(c)
    PROVE  CallsStep(ids)
<1>1. c \in CallsOf(ids) /\ << >> \in ids
  BY DEF CallsRight
<1>2. PICK reply : reply = Replied("failed")
  OBVIOUS
<1>3. reply \in Replies(ids) /\ reply.status # "ok"
  BY <1>1, <1>2, RepliedTyped
<1>4. PICK a : a = Answered(c, reply)
  OBVIOUS
<1>5. a \in CallsOf(ids) /\ Same(a, c) /\ a.stage = "answered" /\ a.heard = c.heard /\ a.reply = reply
  BY <1>1, <1>3, <1>4, AnsweredTyped
<1>6. PICK u : u = [c EXCEPT !.heard = FALSE]
  OBVIOUS
<1>7. u \in CallsOf(ids) /\ Unhears(u, c)
  BY <1>1, <1>6, UnheardTyped
<1>8. calls' = (calls \ {c}) \cup {u, a} /\ c.heard /\ c.stage \in {"sent", "read"}
  BY <1>2, <1>4, <1>6, Zenon DEF GiveUp, Answered
<1>9. c \notin calls'
  BY <1>5, <1>7, <1>8 DEF Unhears
<1>10. Moves(a, c)
  BY <1>3, <1>5 DEF Moves
<1>11. calls' \subseteq CallsOf(ids)
  BY <1>5, <1>7, <1>8 DEF CallsRight
<1>12. ASSUME NEW d \in calls' PROVE ~Fresh(d)
  <2>1. Same(u, c)
    BY <1>7 DEF Unhears
  <2>2. \/ d \in calls
        \/ Same(d, c)
    BY <1>5, <1>8, <2>1
  <2>3. CASE d \in calls
    <3>1. Same(d, d)
      BY DEF Same
    <3> QED
      BY <2>3, <3>1, OldNotFresh
  <2>4. CASE Same(d, c)
    BY <2>4, OldNotFresh
  <2> QED
    BY <2>2, <2>3, <2>4
<1>13. \A d \in calls' : \/ d \in calls
                         \/ \E e \in calls \ calls' : Unhears(d, e)
                         \/ \E e \in calls : Moves(d, e)
  BY <1>7, <1>8, <1>9, <1>10
<1> QED
  BY <1>11, <1>12, <1>13, CallsStepFrom

LEMMA CallOfTyped ==
    ASSUME NEW ids, << >> \in ids, BrowsersTyped, NEW t \in Tabs, NEW op \in Ops,
           NEW user \in Users \cup {Nobody}, NEW body \in SentBodies
    PROVE  /\ CallOf(t, op, user, body) \in CallsOf(ids)
           /\ CallOf(t, op, user, body).from = t /\ CallOf(t, op, user, body).no = plan[t].calls
           /\ CallOf(t, op, user, body).op = op /\ CallOf(t, op, user, body).user = user
           /\ CallOf(t, op, user, body).body = body /\ CallOf(t, op, user, body).stage = "sent"
           /\ CallOf(t, op, user, body).heard
<1>1. plan[t].calls \in Nat
  BY DEF BrowsersTyped, TabPlans
<1>2. Unanswered \in Replies(ids)
  <2>1. Replied("none") = Unanswered
    BY DEF Replied, Unanswered
  <2> QED
    BY <2>1, UnansweredTyped DEF Statuses
<1> QED
  BY <1>1, <1>2 DEF CallOf, CallsOf, Stages

\* A call that needs no tap.
LEMMA PlainStep ==
    ASSUME NEW ids, CallsRight(ids), NEW t \in Tabs, NEW op \in Ops,
           op \notin {"createGame", "createGameInvite", "updateGame", "follow"},
           NEW user \in Users \cup {Nobody}, NEW body \in SentBodies, Paid(t),
           calls' \subseteq calls \cup {CallOf(t, op, user, body)}
    PROVE  CallsStep(ids)
<1>1. PICK d : d = CallOf(t, op, user, body)
  OBVIOUS
<1>2. << >> \in ids /\ BrowsersTyped
  BY DEF CallsRight
<1>3. d \in CallsOf(ids) /\ d.from = t /\ d.no = plan[t].calls /\ d.op = op /\ d.stage = "sent"
  BY <1>1, <1>2, CallOfTyped
<1>4. Fresh(d)
  BY <1>3 DEF Fresh
<1> QED
  BY <1>1, <1>3, <1>4, SentStep

LEMMA SessionStep ==
    ASSUME NEW ids, CallsRight(ids), NEW t \in Tabs, NEW u \in Users \cup {Nobody}, Session(t, u)
    PROVE  CallsStep(ids)
<1>1. BrowsersTyped
  BY DEF CallsRight
<1>2. CASE Asks(t, u)
  <2>1. PICK op \in Ops : op = "listMyGameInvites"
    BY DEF Ops
  <2>2. /\ calls' = calls \cup {CallOf(t, op, u, EmptyBody)}
        /\ MayCall(t) /\ plan' = [plan EXCEPT ![t].calls = @ - 1]
    BY <1>2, <2>1, Zenon DEF Session
  <2>3. Paid(t)
    BY <1>1, <2>2, CallPaid
  <2>4. /\ op \notin {"createGame", "createGameInvite", "updateGame", "follow"}
        /\ calls' \subseteq calls \cup {CallOf(t, op, u, EmptyBody)}
    BY <2>1, <2>2
  <2> QED
    BY <2>3, <2>4, EmptyBodyTyped, PlainStep
<1>3. CASE ~Asks(t, u)
  <2>1. calls' \subseteq calls
    BY <1>3 DEF Session
  <2> QED
    BY <2>1, FewerStep
<1> QED
  BY <1>2, <1>3

Read(c, reply) == [c EXCEPT !.stage = "read", !.reply = reply]

LEMMA ReadStep ==
    ASSUME NEW ids, CallsRight(ids), NEW c \in calls, NEW more, ids \subseteq more,
           NEW reply \in Replies(more), calls' = (calls \ {c}) \cup {Read(c, reply)},
           c.op = "updateGame" => c.body.target \in DOMAIN games
    PROVE  CallsStep(more)
<1>1. PICK d : d = Read(c, reply)
  OBVIOUS
<1>2. c \in CallsOf(ids)
  BY DEF CallsRight
<1>3. d \in CallsOf(more) /\ Same(d, c) /\ d.stage = "read" /\ d.heard = c.heard
  BY <1>1, <1>2 DEF CallsOf, Stages, Same, Read
<1>4. Moves(d, c)
  BY <1>3 DEF Moves
<1>5. calls' \subseteq calls \cup {d} /\ d \in CallsOf(more)
  BY <1>1, <1>3
<1> QED
  BY <1>4, <1>5, OneStep

LEMMA ServedStep ==
    ASSUME NEW ids, CallsRight(ids), RecordsTyped, NEW c \in calls,
           \/ ServeCreateGame(c) \/ ServeGetGame(c) \/ ServeUpdateRead(c) \/ ServeUpdateWrite(c)
           \/ ServeCreateRoster(c) \/ ServeFollow(c)
    PROVE  CallsStep(ids)
<1>1. c \in CallsOf(ids) /\ CallFine(c) /\ << >> \in ids /\ ids \subseteq ids
  BY DEF CallsRight
<1>2. games \in Seq(Games)
  BY DEF RecordsTyped
<1>3. ASSUME NEW status \in {"failed", "forbidden"}, Refuses(c, status) PROVE CallsStep(ids)
  <2>1. Answers(c, Replied(status))
    BY <1>3 DEF Refuses
  <2> QED
    BY <2>1, RefusesStep
<1>4. CASE ServeCreateGame(c)
  <2>1. CASE Authenticated(c) /\ c.body.about # Blank
    <3>1. c.op = "createGame"
      BY <1>4 DEF ServeCreateGame
    <3>2. PICK n : n = Len(games')
      OBVIOUS
    <3>3. games' \in Seq(Games) /\ n \in DOMAIN games' /\ games'[n].tap = <<c.from, c.no>>
      BY <1>1, <1>4, <2>1, <3>2, CreateMoves
    <3>4. PICK reply : reply = [Replied("ok") EXCEPT !.id = n]
      OBVIOUS
    <3>5. reply \in Replies(ids) /\ reply.id = n
      BY <1>1, <3>2, <3>3, <3>4, NumberedReply
    <3>6. Answers(c, reply)
      BY <1>4, <2>1, <3>2, <3>4, Zenon DEF ServeCreateGame
    <3>7. Served(c, reply)
      BY <3>1, <3>3, <3>5 DEF Served
    <3> QED
      BY <1>1, <3>5, <3>6, <3>7, AnswersStep
  <2>2. CASE ~(Authenticated(c) /\ c.body.about # Blank)
    BY <1>3, <1>4, <2>2 DEF ServeCreateGame
  <2> QED
    BY <2>1, <2>2
<1>5. CASE ServeGetGame(c)
  <2>1. CASE c.body.target \in DOMAIN games
    <3>1. PICK reply : reply = Settings(games[c.body.target])
      OBVIOUS
    <3>2. reply \in Replies(ids)
      BY <1>1, <1>2, <2>1, <3>1, SettingsTypedReply
    <3>3. Answers(c, reply) /\ Served(c, reply)
      BY <1>5, <2>1, <3>1 DEF ServeGetGame, Served
    <3> QED
      BY <1>1, <3>2, <3>3, AnswersStep
  <2>2. CASE c.body.target \notin DOMAIN games
    BY <1>3, <1>5, <2>2 DEF ServeGetGame
  <2> QED
    BY <2>1, <2>2
<1>6. CASE ServeUpdateRead(c)
  <2>1. CASE c.body.target \in DOMAIN games /\ MayEdit(c)
    <3>1. PICK reply : reply = Settings(games[c.body.target])
      OBVIOUS
    <3>2. reply \in Replies(ids)
      BY <1>1, <1>2, <2>1, <3>1, SettingsTypedReply
    <3>3. calls' = (calls \ {c}) \cup {Read(c, reply)}
      BY <1>6, <2>1, <3>1, Zenon DEF ServeUpdateRead, Read
    <3> QED
      BY <1>1, <2>1, <3>2, <3>3, ReadStep
  <2>2. CASE ~(c.body.target \in DOMAIN games /\ MayEdit(c))
    BY <1>3, <1>6, <2>2 DEF ServeUpdateRead
  <2> QED
    BY <2>1, <2>2
<1>7. CASE ServeUpdateWrite(c)
  <2>1. PICK k : k = c.body.target
    OBVIOUS
  <2>2. PICK g : g = [games[k] EXCEPT !.schedule = Given(c.body.schedule, NoSchedule, c.reply.schedule),
                                      !.location = Given(c.body.location, Omitted, c.reply.location)]
    OBVIOUS
  <2>3. games' = [games EXCEPT ![k] = g] /\ Answers(c, Settings(g)) /\ c.op = "updateGame"
    BY <1>7, <2>1, <2>2, Zenon DEF ServeUpdateWrite
  <2>4. games' \in Seq(Games) /\ GameUpdated(c)
    BY <1>1, <1>7, UpdateMoves
  <2>5. k \in DOMAIN games /\ k \in DOMAIN games'
    BY <2>1, <2>4 DEF GameUpdated
  <2>6. g \in Games
    BY <2>3, <2>4, <2>5
  <2>8. PICK reply : reply = Settings(g)
    OBVIOUS
  <2>7. Served(c, reply)
    BY <2>1, <2>3, <2>4, <2>5 DEF Served, GameUpdated
  <2>9. reply \in Replies(ids) /\ Answers(c, reply)
    BY <1>1, <2>3, <2>6, <2>8, SettingsTypedReply
  <2> QED
    BY <1>1, <2>7, <2>9, AnswersStep
<1>8. CASE ServeCreateRoster(c)
  <2>1. CASE Authenticated(c) /\ c.body.about # Blank
    <3>1. c.op = "createGameInvite"
      BY <1>8 DEF ServeCreateRoster
    <3>2. PICK n : n = Len(rosters')
      OBVIOUS
    <3>8. /\ rosters' \in Seq(Rosters)
          /\ \E i \in DOMAIN rosters' : rosters'[i].tap = <<c.from, c.no>>
      BY <1>1, <1>8, <2>1, CreateRosterMoves
    <3>3. n \in Nat
      BY <3>2, <3>8
    <3>4. PICK reply : reply = [Replied("ok") EXCEPT !.id = n]
      OBVIOUS
    <3>5. reply \in Replies(ids)
      BY <1>1, <3>3, <3>4, NumberedReply
    <3>6. Answers(c, reply)
      BY <1>8, <2>1, <3>2, <3>4, Zenon DEF ServeCreateRoster
    <3>7. Served(c, reply)
      BY <3>1, <3>8 DEF Served
    <3> QED
      BY <1>1, <3>5, <3>6, <3>7, AnswersStep
  <2>2. CASE ~(Authenticated(c) /\ c.body.about # Blank)
    BY <1>3, <1>8, <2>2 DEF ServeCreateRoster
  <2> QED
    BY <2>1, <2>2
<1>9. CASE ServeFollow(c)
  <2>1. CASE Authenticated(c)
    <3>1. Answers(c, Replied("ok")) /\ c.op = "follow" /\ follows' = WithFollow(c)
      BY <1>9, <2>1 DEF ServeFollow
    <3>3. PICK reply : reply = Replied("ok")
      OBVIOUS
    <3>2. Served(c, reply)
      BY <3>1 DEF Served, WithFollow
    <3>4. reply \in Replies(ids) /\ Answers(c, reply)
      BY <1>1, <3>1, <3>3, RepliedTyped
    <3> QED
      BY <1>1, <3>2, <3>4, AnswersStep
  <2>2. CASE ~Authenticated(c)
    BY <1>3, <1>9, <2>2 DEF ServeFollow
  <2> QED
    BY <2>1, <2>2
<1> QED
  BY <1>4, <1>5, <1>6, <1>7, <1>8, <1>9

\* The lists that are sent are added to those that were.
LEMMA ListingStep ==
    ASSUME NEW ids, CallsRight(ids), NEW c \in calls, ServeListOrganized(c) \/ ServeListInvited(c)
    PROVE  \E more : << >> \in more /\ CallsStep(more)
<1>1. c \in CallsOf(ids) /\ << >> \in ids
  BY DEF CallsRight
<1>2. CASE ServeListOrganized(c)
  <2>1. CASE Authenticated(c)
    <3>1. PICK listed : listed = OrganizedBy(c.user)
      OBVIOUS
    <3>2. PICK more : more = ids \cup {listed}
      OBVIOUS
    <3>3. PICK reply : reply = [c.reply EXCEPT !.listed = listed]
      OBVIOUS
    <3>4. reply \in Replies(more)
      <4>1. c.reply \in Replies(ids)
        BY <1>1 DEF CallsOf
      <4> QED
        BY <3>2, <3>3, <4>1 DEF Replies
    <3>5. calls' = (calls \ {c}) \cup {[c EXCEPT !.stage = "read", !.reply.listed = listed]}
      BY <1>2, <2>1, <3>1, Zenon DEF ServeListOrganized
    <3>6. [c EXCEPT !.stage = "read", !.reply.listed = listed] = Read(c, reply)
      BY <1>1, <3>3 DEF CallsOf, Read
    <3>7. calls' = (calls \ {c}) \cup {Read(c, reply)}
      BY <3>5, <3>6, Zenon
    <3>8. c.op # "updateGame" /\ ids \subseteq more /\ << >> \in more
      BY <1>1, <1>2, <3>2 DEF ServeListOrganized
    <3>9. CallsStep(more)
      BY <3>4, <3>7, <3>8, ReadStep
    <3> QED
      BY <3>8, <3>9
  <2>2. CASE ~Authenticated(c)
    <3>1. Answers(c, Replied("failed"))
      BY <1>2, <2>2 DEF ServeListOrganized, Refuses
    <3> QED
      BY <1>1, <3>1, RefusesStep
  <2> QED
    BY <2>1, <2>2
<1>3. CASE ServeListInvited(c)
  <2>1. PICK listed : listed = Deduplicated(c.reply.listed, TakenPartBy(c.user))
    OBVIOUS
  <2>2. PICK more : more = ids \cup {listed}
    OBVIOUS
  <2>3. << >> \in more /\ listed \in more /\ ids \subseteq more
    BY <1>1, <2>2
  <2>4. PICK reply : reply = [Replied("ok") EXCEPT !.listed = listed]
    OBVIOUS
  <2>5. reply \in Replies(more)
    BY <2>3, <2>4, ListedReply
  <2>6. Answers(c, reply)
    BY <1>3, <2>1, <2>4, Zenon DEF ServeListInvited
  <2>7. Served(c, reply)
    BY <1>3 DEF ServeListInvited, Served
  <2>8. CallsStep(more)
    BY <2>3, <2>5, <2>6, <2>7, AnswersStep
  <2> QED
    BY <2>3, <2>8
<1> QED
  BY <1>2, <1>3

\* A call that a tap sends.
LEMMA TappedStep ==
    ASSUME NEW ids, CallsRight(ids), NEW t \in Tabs, NEW op \in Ops, op # "follow", NEW form \in Forms,
           NEW shown \in SentBodies, Account(t) # Nobody, Paid(t), TapOfPage(t, op, form, shown) \in taps',
           calls' = calls \cup {CallOf(t, op, Account(t), shown)}
    PROVE  CallsStep(ids)
<1>1. << >> \in ids /\ BrowsersTyped
  BY DEF CallsRight
<1>2. PICK user : user = Account(t)
  OBVIOUS
<1>3. user \in Users \cup {Nobody}
  BY <1>1, <1>2, AccountTyped
<1>4. PICK d : d = CallOf(t, op, user, shown)
  OBVIOUS
<1>5. /\ d \in CallsOf(ids) /\ d.from = t /\ d.no = plan[t].calls /\ d.op = op /\ d.stage = "sent"
      /\ d.user = user /\ d.body = shown
  BY <1>1, <1>3, <1>4, CallOfTyped
<1>6. PICK tap : tap = TapOfPage(t, op, form, shown)
  OBVIOUS
<1>7. tap.from = t /\ tap.no = plan[t].calls /\ tap.op = op /\ tap.user = user /\ tap.shown = shown
  BY <1>1, <1>2, <1>6, TapMade
<1>8. Fresh(d)
  BY <1>5, <1>6, <1>7 DEF Fresh
<1>9. calls' \subseteq calls \cup {d}
  BY <1>2, <1>4
<1> QED
  BY <1>5, <1>8, <1>9, SentStep

LEMMA UsingStep ==
    ASSUME NEW ids, CallsRight(ids), RecordsTyped, PagesTyped, Using
    PROVE  CallsStep(ids)
<1>1. << >> \in ids /\ BrowsersTyped
  BY DEF CallsRight
<1>2. ASSUME UNCHANGED calls PROVE CallsStep(ids)
  BY <1>2, FewerStep
<1>3. PICK t \in Tabs : NewGameUser(t) \/ OrganizeUser(t) \/ SettingsUser(t) \/ MyListsUser(t)
  BY DEF Using
<1>4. CASE CreateNewGame(t)
  <2>1. PICK form, shown : form = newGame[t].form /\ shown = NewGameBody(form)
    OBVIOUS
  <2>2. form \in Forms /\ shown \in SentBodies
    BY <2>1, NewGameBodyTyped DEF PagesTyped, NewGameTyped, NewGames, Forms
  <2>3. PICK op \in Ops : op = "createGame"
    BY DEF Ops, Writes
  <2>4. /\ TapOfPage(t, op, form, shown) \in taps' /\ Account(t) # Nobody
        /\ calls' = calls \cup {CallOf(t, op, Account(t), shown)}
        /\ MayCall(t) /\ plan' = [plan EXCEPT ![t].calls = @ - 1]
    BY <1>4, <2>1, <2>3, Zenon DEF CreateNewGame, TapFrom, TapOn, CallFrom, TapOfPage
  <2>5. Paid(t)
    BY <1>1, <2>4, CallPaid
  <2>6. op # "follow"
    BY <2>3
  <2> QED
    BY <2>2, <2>4, <2>5, <2>6, TappedStep
<1>5. CASE Organize(t)
  <2>1. PICK form, shown : form = organize[t].entered /\ shown = OrganizeBody(form)
    OBVIOUS
  <2>2. form \in Forms /\ shown \in SentBodies
    BY <2>1, OrganizeBodyTyped DEF PagesTyped, OrganizeTyped, Organizes, Forms
  <2>3. PICK op \in Ops : op = "createGameInvite"
    BY DEF Ops, Writes
  <2>4. /\ TapOfPage(t, op, form, shown) \in taps' /\ Account(t) # Nobody
        /\ calls' = calls \cup {CallOf(t, op, Account(t), shown)}
        /\ MayCall(t) /\ plan' = [plan EXCEPT ![t].calls = @ - 1]
    BY <1>5, <2>1, <2>3, Zenon DEF Organize, TapFrom, TapOn, CallFrom, TapOfPage
  <2>5. Paid(t)
    BY <1>1, <2>4, CallPaid
  <2>6. op # "follow"
    BY <2>3
  <2> QED
    BY <2>2, <2>4, <2>5, <2>6, TappedStep
<1>6. CASE SaveSettings(t)
  <2>1. PICK form, shown : form = settings[t].form /\ shown = Shown(t)
    OBVIOUS
  <2>2. form \in Forms /\ shown \in SentBodies
    BY <2>1, ShownTyped DEF PagesTyped, SettingsTyped, SettingsPagesSet, SettingsForms, Forms
  <2>3. PICK op \in Ops : op = "updateGame"
    BY DEF Ops, Writes
  <2>4. /\ TapOfPage(t, op, form, shown) \in taps' /\ Account(t) # Nobody
        /\ calls' = calls \cup {CallOf(t, op, Account(t), shown)}
        /\ MayCall(t) /\ plan' = [plan EXCEPT ![t].calls = @ - 1]
    BY <1>6, <2>1, <2>3, Zenon DEF SaveSettings, SaveBody, TapOn, CallFrom, TapOfPage
  <2>5. Paid(t)
    BY <1>1, <2>4, CallPaid
  <2>6. op # "follow"
    BY <2>3
  <2> QED
    BY <2>2, <2>4, <2>5, <2>6, TappedStep
<1>7. CASE \E id \in DOMAIN games : OpenSettings(t, id)
  <2>1. PICK id \in DOMAIN games : OpenSettings(t, id)
    BY <1>7
  <2>2. id \in Nat
    BY <2>1 DEF RecordsTyped
  <2>3. PICK body : body = [EmptyBody EXCEPT !.target = id]
    OBVIOUS
  <2>4. body \in SentBodies
    BY <2>2, <2>3, TargetBody
  <2>5. PICK op \in Ops : op = "getGame"
    BY DEF Ops, Writes
  <2>6. PICK user : user = Account(t)
    OBVIOUS
  <2>7. user \in Users \cup {Nobody}
    BY <1>1, <2>6, AccountTyped
  <2>8. /\ calls' = calls \cup {CallOf(t, op, user, body)}
        /\ MayCall(t) /\ plan' = [plan EXCEPT ![t].calls = @ - 1]
    BY <2>1, <2>3, <2>5, <2>6, Zenon DEF OpenSettings, CallFrom
  <2>9. Paid(t)
    BY <1>1, <2>8, CallPaid
  <2>10. /\ op \notin {"createGame", "createGameInvite", "updateGame", "follow"}
         /\ calls' \subseteq calls \cup {CallOf(t, op, user, body)}
    BY <2>5, <2>8
  <2> QED
    BY <2>4, <2>7, <2>9, <2>10, PlainStep
<1>8. CASE Retry(t)
  <2>1. PICK op \in Ops : op = "listMyGameInvites"
    BY DEF Ops, Writes
  <2>2. PICK user : user = Account(t)
    OBVIOUS
  <2>3. user \in Users \cup {Nobody} /\ EmptyBody \in SentBodies
    BY <1>1, <2>2, AccountTyped, EmptyBodyTyped
  <2>4. /\ calls' = calls \cup {CallOf(t, op, user, EmptyBody)}
        /\ MayCall(t) /\ plan' = [plan EXCEPT ![t].calls = @ - 1]
    BY <1>8, <2>1, <2>2, Zenon DEF Retry, CallFrom
  <2>5. Paid(t)
    BY <1>1, <2>4, CallPaid
  <2>6. /\ op \notin {"createGame", "createGameInvite", "updateGame", "follow"}
        /\ calls' \subseteq calls \cup {CallOf(t, op, user, EmptyBody)}
    BY <2>1, <2>4
  <2> QED
    BY <2>3, <2>5, <2>6, PlainStep
<1>9. CASE Follow(t)
  <2>1. board[t].alive /\ board[t].target \in Targets
    BY <1>9 DEF Follow, PagesTyped, BoardTyped
  <2>2. PICK target \in Nat : target = board[t].target
    BY <2>1, MyListsAssumption
  <2>3. PICK body : body = [EmptyBody EXCEPT !.target = target]
    OBVIOUS
  <2>4. body \in SentBodies /\ body.target = target
    BY <2>3, TargetBody
  <2>5. PICK op \in Ops : op = "follow"
    BY DEF Ops, Writes
  <2>6. PICK user : user = Account(t)
    OBVIOUS
  <2>7. user \in Users \cup {Nobody}
    BY <1>1, <2>6, AccountTyped
  <2>8. PICK d : d = CallOf(t, op, user, body)
    OBVIOUS
  <2>9. /\ d \in CallsOf(ids) /\ d.from = t /\ d.no = plan[t].calls /\ d.op = op /\ d.stage = "sent"
        /\ d.body = body
    BY <1>1, <2>4, <2>7, <2>8, CallOfTyped
  <2>10. /\ calls' = calls \cup {d} /\ UNCHANGED board
         /\ MayCall(t) /\ plan' = [plan EXCEPT ![t].calls = @ - 1]
    BY <1>9, <2>2, <2>3, <2>5, <2>6, <2>8, Zenon DEF Follow, CallFrom
  <2>11. Paid(t)
    BY <1>1, <2>10, CallPaid
  <2>12. Fresh(d)
    BY <2>1, <2>2, <2>4, <2>5, <2>9, <2>10, <2>11 DEF Fresh
  <2>13. calls' \subseteq calls \cup {d}
    BY <2>10
  <2> QED
    BY <2>9, <2>12, <2>13, SentStep
<1>10. CASE \/ \E f \in NewGameFields, v \in Texts : EditNewGame(t, f, v)
            \/ SignInFromNewGame(t) \/ CreateNewGameSignedOut(t)
            \/ \E f \in OrganizeFields, v \in Texts : EditOrganize(t, f, v)
            \/ \E v \in Texts : TypeRow(t, v)
            \/ AddRow(t) \/ \E i \in 1 .. MaxRows : RemoveRow(t, i)
            \/ SignInFromOrganize(t) \/ OrganizeSignedOut(t)
            \/ \E f \in SettingsFields, v \in Texts : EditSettings(t, f, v)
            \/ SaveSettingsSignedOut(t) \/ SignInFromRosters(t) \/ FollowSignedOut(t)
  BY <1>2, <1>10 DEF EditNewGame, SignInFromNewGame, CreateNewGameSignedOut, EditOrganize, Enters, TypeRow,
     AddRow, RemoveRow, SignInFromOrganize, OrganizeSignedOut, EditSettings, SaveSettingsSignedOut,
     SignInFromRosters, FollowSignedOut
<1> QED
  BY <1>3, <1>4, <1>5, <1>6, <1>7, <1>8, <1>9, <1>10 DEF NewGameUser, OrganizeUser, SettingsUser, MyListsUser

LEMMA GoingStep ==
    ASSUME NEW ids, CallsRight(ids), Going
    PROVE  CallsStep(ids)
<1>1. << >> \in ids /\ BrowsersTyped
  BY DEF CallsRight
<1>2. ASSUME UNCHANGED calls PROVE CallsStep(ids)
  BY <1>2, FewerStep
<1>3. ASSUME NEW t \in Tabs, ShowMyRosters(t) PROVE CallsStep(ids)
  <2>1. CASE myRosters[t].alive \/ Account(t) = Nobody
    BY <1>2, <1>3, <2>1 DEF ShowMyRosters
  <2>2. CASE ~(myRosters[t].alive \/ Account(t) = Nobody)
    <3>1. PICK op \in Ops : op = "listMyGameInvites"
      BY DEF Ops, Writes
    <3>2. PICK user : user = Account(t)
      OBVIOUS
    <3>3. user \in Users \cup {Nobody} /\ EmptyBody \in SentBodies
      BY <1>1, <3>2, AccountTyped, EmptyBodyTyped
    <3>4. /\ calls' = calls \cup {CallOf(t, op, user, EmptyBody)}
          /\ MayCall(t) /\ plan' = [plan EXCEPT ![t].calls = @ - 1]
      BY <1>3, <2>2, <3>1, <3>2, Zenon DEF ShowMyRosters, CallFrom
    <3>5. Paid(t)
      BY <1>1, <3>4, CallPaid
    <3>6. /\ op \notin {"createGame", "createGameInvite", "updateGame", "follow"}
          /\ calls' \subseteq calls \cup {CallOf(t, op, user, EmptyBody)}
      BY <3>1, <3>4
    <3> QED
      BY <3>3, <3>5, <3>6, PlainStep
  <2> QED
    BY <2>1, <2>2
<1>4. CASE \E t \in Tabs : Visit(t) \/ Return(t)
  BY <1>2, <1>3, <1>4 DEF Visit, Return, ShowMyGames, ShowBoard
<1>5. CASE \E t \in Tabs : Close(t)
  <2>1. PICK t \in Tabs : Close(t)
    BY <1>5
  <2>2. PICK cs \in SUBSET calls : calls' = Unheard(cs)
    BY <2>1 DEF Close, OwnCalls
  <2> QED
    BY <2>2, UnheardStep
<1>6. CASE \E t \in Tabs : Reload(t)
  <2>1. PICK cs \in SUBSET calls : calls' = Unheard(cs)
    BY <1>6 DEF Reload
  <2> QED
    BY <2>1, UnheardStep
<1>7. ASSUME NEW t \in Tabs, NEW u \in Users \cup {Nobody}, Session(t, u)
      PROVE  CallsStep(ids)
  BY <1>7, SessionStep
<1>8. CASE \E t \in Tabs, u \in Users : SignIn(t, u)
  BY <1>7, <1>8 DEF SignIn
<1>9. CASE \E t \in Tabs : SignOut(t) \/ Learn(t)
  <2>1. \A t \in Tabs : auth[DeviceOf[t]] \in Users \cup {Nobody}
    BY <1>1, BrowserAssumption DEF BrowsersTyped
  <2> QED
    BY <1>7, <1>9, <2>1 DEF SignOut, Learn
<1> QED
  BY <1>4, <1>5, <1>6, <1>8, <1>9 DEF Going

LEMMA ReceivingStep ==
    ASSUME NEW ids, CallsRight(ids), TapsTyped, Receiving
    PROVE  CallsStep(ids)
<1>1. << >> \in ids /\ BrowsersTyped
  BY DEF CallsRight
<1>2. ASSUME calls' \subseteq calls PROVE CallsStep(ids)
  BY <1>2, FewerStep
<1>3. PICK t \in Tabs, c \in calls :
        \/ NewGameCreated(t, c) \/ NewGameFails(t, c) \/ Land(t, c) \/ Organized(t, c)
        \/ OrganizeFails(t, c) \/ SettingsReceive(t, c)
        \/ RostersListed(t, c) \/ RostersNotListed(t, c) \/ Following(t, c) \/ NotFollowing(t, c)
  BY DEF Receiving, MyListsReceive
<1>4. c \in CallsOf(ids)
  BY DEF CallsRight
<1>5. CASE NewGameCreated(t, c)
  <2>1. PICK d : d = [c EXCEPT !.stage = "landing"]
    OBVIOUS
  <2>2. d \in CallsOf(ids) /\ Same(d, c) /\ d.stage = "landing" /\ d.heard = c.heard
    BY <1>4, <2>1 DEF CallsOf, Stages, Same
  <2>8. d.reply = c.reply
    BY <1>4, <2>1 DEF CallsOf
  <2>3. /\ calls' = (calls \ {c}) \cup {d} /\ taps' = Over(t, {c.no})
        /\ c.op = "createGame" /\ c.from = t /\ c.stage = "answered" /\ c.reply.status = "ok"
    BY <1>5, <2>1, Zenon DEF NewGameCreated, Good
  <2>4. taps' \subseteq Taps /\ \A later \in taps' : ~later.over => later.from # t \/ later.no \notin {c.no}
    <3>1. TapsStep /\ \A later \in taps' : ~later.over => later.from # t \/ later.no \notin {c.no}
      BY <2>3, OverEnds
    <3>2. TapsTyped'
      BY <3>1, TapsTypedKept
    <3> QED
      BY <3>1, <3>2 DEF TapsTyped
  <2>5. \A tap \in taps' : tap.from = c.from /\ tap.no = c.no => tap.over
    BY <2>3, <2>4
  <2>6. Moves(d, c)
    BY <2>2, <2>3, <2>5, <2>8 DEF Moves
  <2>7. calls' \subseteq calls \cup {d} /\ ids \subseteq ids /\ d \in CallsOf(ids)
    BY <2>2, <2>3
  <2> QED
    BY <2>6, <2>7, OneStep
<1>6. CASE Land(t, c)
  <2>1. CASE Account(t) # Nobody /\ MayCall(t)
    <3>1. c.reply.id \in Nat
      BY <1>4 DEF CallsOf, Replies
    <3>2. PICK target \in Nat : target = c.reply.id
      BY <3>1
    <3>3. PICK body : body = [EmptyBody EXCEPT !.target = target]
      OBVIOUS
    <3>4. body \in SentBodies
      BY <3>3, TargetBody
    <3>5. PICK op \in Ops : op = "getGame"
      BY DEF Ops, Writes
    <3>6. PICK user : user = Account(t)
      OBVIOUS
    <3>7. user \in Users \cup {Nobody}
      BY <1>1, <3>6, AccountTyped
    <3>8. /\ calls' = (calls \ {c}) \cup {CallOf(t, op, user, body)}
          /\ plan' = [plan EXCEPT ![t].calls = @ - 1]
      BY <1>6, <2>1, <3>2, <3>3, <3>5, <3>6, Zenon DEF Land
    <3>9. Paid(t)
      BY <1>1, <2>1, <3>8, CallPaid
    <3>10. /\ op \notin {"createGame", "createGameInvite", "updateGame", "follow"}
           /\ calls' \subseteq calls \cup {CallOf(t, op, user, body)}
      BY <3>5, <3>8
    <3> QED
      BY <3>4, <3>7, <3>9, <3>10, PlainStep
  <2>2. CASE ~(Account(t) # Nobody /\ MayCall(t))
    BY <1>2, <1>6, <2>2 DEF Land, Takes
  <2> QED
    BY <2>1, <2>2
<1>7. CASE \/ NewGameFails(t, c) \/ Organized(t, c) \/ OrganizeFails(t, c) \/ SettingsReceive(t, c)
           \/ RostersListed(t, c) \/ RostersNotListed(t, c) \/ Following(t, c) \/ NotFollowing(t, c)
  BY <1>2, <1>7 DEF NewGameFails, Organized, OrganizeFails, SettingsReceive, SettingsLoaded, SettingsNotLoaded,
     SettingsSaved, SettingsNotSaved, RostersListed, RostersNotListed, Following, NotFollowing, Takes
<1> QED
  BY <1>3, <1>5, <1>6, <1>7

LEMMA CallsMoveOn ==
    ASSUME WellTyped, \A c \in calls : CallFine(c), [Next]_vars
    PROVE  \E ids : << >> \in ids /\ CallsStep(ids)
<1>1. PICK ids : << >> \in ids /\ CallsTyped(ids)
  BY DEF WellTyped
<1>2. CallsRight(ids)
  BY <1>1 DEF CallsRight, CallsTyped, WellTyped
<1>3. ASSUME CallsStep(ids) PROVE \E more : << >> \in more /\ CallsStep(more)
  BY <1>1, <1>3
<1>4. RecordsTyped /\ PagesTyped /\ TapsTyped
  BY DEF WellTyped
<1>5. CASE Serving
  <2>1. PICK c \in calls : Serve(c)
    BY <1>5 DEF Serving
  <2>2. CASE ServeListOrganized(c) \/ ServeListInvited(c)
    BY <1>2, <2>2, ListingStep
  <2>3. CASE \/ ServeCreateGame(c) \/ ServeGetGame(c) \/ ServeUpdateRead(c) \/ ServeUpdateWrite(c)
             \/ ServeCreateRoster(c) \/ ServeFollow(c)
    <3>1. CallsStep(ids)
      BY <1>2, <1>4, <2>3, ServedStep
    <3> QED
      BY <1>3, <3>1
  <2> QED
    BY <2>1, <2>2, <2>3 DEF Serve
<1>6. CASE Failing
  <2>1. PICK c \in calls : Lose(c) \/ GiveUp(c)
    BY <1>6 DEF Failing
  <2>2. CASE Lose(c)
    <3>1. Answers(c, Replied("failed"))
      BY <2>2 DEF Lose
    <3>2. CallsStep(ids)
      BY <1>2, <3>1, RefusesStep
    <3> QED
      BY <1>3, <3>2
  <2>3. CASE GiveUp(c)
    <3>1. CallsStep(ids)
      BY <1>2, <2>3, GiveUpStep
    <3> QED
      BY <1>3, <3>1
  <2> QED
    BY <2>1, <2>2, <2>3
<1>7. CASE Using
  <2>1. CallsStep(ids)
    BY <1>2, <1>4, <1>7, UsingStep
  <2> QED
    BY <1>3, <2>1
<1>8. CASE Going
  <2>1. CallsStep(ids)
    BY <1>2, <1>8, GoingStep
  <2> QED
    BY <1>3, <2>1
<1>9. CASE Receiving
  <2>1. CallsStep(ids)
    BY <1>2, <1>4, <1>9, ReceivingStep
  <2> QED
    BY <1>3, <2>1
<1>10. CASE TakingPart \/ Watching \/ UNCHANGED vars
  <2>1. UNCHANGED calls
    BY <1>10 DEF TakingPart, TakePart, Watching, Snapshot, vars, backend
  <2>2. CallsStep(ids)
    BY <1>2, <2>1, FewerStep
  <2> QED
    BY <1>3, <2>2
<1> QED
  BY <1>5, <1>6, <1>7, <1>8, <1>9, <1>10 DEF Next

\* Nobody waits for a follow of a scoreboard that is closed.
LEMMA FollowsUnheard ==
    ASSUME NEW ids, CallsRight(ids), NEW p \in Tabs, BoardCloses(p)
    PROVE  \A d \in calls' : d.from = p /\ d.op = "follow" => ~d.heard
<1>1. CASE Close(p) /\ Shows(p, "board")
  <2>1. PICK cs \in SUBSET calls : calls' = Unheard(cs) /\ cs = {c \in calls : c.from = p /\ c.op \in {"follow"}}
    BY <1>1 DEF Close, OwnCalls, Shows
  <2>2. \A d \in calls' : d \in calls \ cs \/ ~d.heard
    BY <2>1, UnheardStep
  <2> QED
    BY <2>1, <2>2
<1>2. CASE Reload(p)
  <2>1. PICK cs \in SUBSET calls : calls' = Unheard(cs) /\ cs = {c \in calls : c.from = p}
    BY <1>2 DEF Reload
  <2>2. \A d \in calls' : d \in calls \ cs \/ ~d.heard
    BY <2>1, UnheardStep
  <2> QED
    BY <2>1, <2>2
<1> QED
  BY <1>1, <1>2 DEF BoardCloses

-----------------------------------------------------------------------------
(***************************************************************************)
(* What is recorded stays so.                                              *)
(***************************************************************************)

\* What a step does to the history and the records.
HistoryStep ==
    /\ TapsStep /\ TapsGrow /\ TapsTyped'
    /\ PlanStep /\ plan' \in [Tabs -> TabPlans]
    /\ RecordsTyped' /\ GamesMove /\ RostersMove /\ follows \subseteq follows'

LEMMA HistoryMovesOn ==
    ASSUME ReportedInv, [Next]_vars
    PROVE  HistoryStep
<1>1. WellTyped /\ TapsTyped /\ BrowsersTyped /\ SentOnce /\ \A c \in calls : CallFine(c)
  BY DEF ReportedInv, WellTyped
<1>2. TapsStep
  BY <1>1, TapsMoveOn
<1>3. TapsTyped'
  BY <1>1, <1>2, TapsTypedKept
<1>4. TapsGrow
  <2>1. \A tap \in taps : IsTap(tap)
    BY <1>1 DEF TapsTyped, Taps, IsTap
  <2> QED
    BY <2>1, TapsKept
<1>5. PlanStep /\ plan' \in [Tabs -> TabPlans]
  BY <1>1, PlanKept
<1>6. RecordsTyped' /\ GamesMove /\ RostersMove /\ follows \subseteq follows'
  BY <1>1, RecordsMoveOn
<1> QED
  BY <1>2, <1>3, <1>4, <1>5, <1>6 DEF HistoryStep

LEMMA GamesStay ==
    ASSUME HistoryStep
    PROVE  DOMAIN games \subseteq DOMAIN games'
BY DEF HistoryStep, GamesMove, GameAdded, GameUpdated

LEMMA TapOfStays ==
    ASSUME TapsGrow, NEW c, TapOf(c)
    PROVE  TapOf(c)'
BY DEF TapsGrow, TapOf

LEMMA RecordedStays ==
    ASSUME HistoryStep, NEW c, Recorded(c)
    PROVE  Recorded(c)'
<1>1. ASSUME NEW i \in DOMAIN games PROVE i \in DOMAIN games' /\ games'[i].tap = games[i].tap
  BY DEF HistoryStep, GamesMove, GameAdded, GameUpdated
<1>2. ASSUME NEW i \in DOMAIN rosters PROVE i \in DOMAIN rosters' /\ rosters'[i].tap = rosters[i].tap
  BY DEF HistoryStep, RostersMove, RosterAdded
<1> QED
  BY <1>1, <1>2 DEF Recorded

\* Only by the call itself, which is no longer to be served then.
LEMMA RecordedByServing ==
    ASSUME HistoryStep, NEW d, Recorded(d)'
    PROVE  \/ Recorded(d)
           \/ \E c \in calls : c.stage = "sent" /\ NoLongerSent(c) /\ <<c.from, c.no>> = <<d.from, d.no>>
<1>1. CASE d.op = "createGame" /\ \E i \in DOMAIN games' : games'[i].tap = <<d.from, d.no>>
  <2>1. PICK i \in DOMAIN games' : games'[i].tap = <<d.from, d.no>>
    BY <1>1
  <2>2. CASE i \in DOMAIN games /\ games'[i].tap = games[i].tap
    BY <1>1, <2>1, <2>2 DEF Recorded
  <2>3. CASE ~(i \in DOMAIN games /\ games'[i].tap = games[i].tap)
    <3>1. PICK c \in calls : GameAdded(c) /\ NoLongerSent(c)
      BY <2>1, <2>3 DEF HistoryStep, GamesMove, GameUpdated
    <3>2. c.stage = "sent" /\ games'[i] = NewGameRecord(c)
      BY <2>1, <2>3, <3>1 DEF GameAdded
    <3>3. games'[i].tap = <<c.from, c.no>>
      BY <3>2 DEF NewGameRecord
    <3> QED
      BY <2>1, <3>1, <3>2, <3>3
  <2> QED
    BY <2>2, <2>3
<1>2. CASE d.op = "createGameInvite" /\ \E i \in DOMAIN rosters' : rosters'[i].tap = <<d.from, d.no>>
  <2>1. PICK i \in DOMAIN rosters' : rosters'[i].tap = <<d.from, d.no>>
    BY <1>2
  <2>2. CASE i \in DOMAIN rosters /\ rosters'[i].tap = rosters[i].tap
    BY <1>2, <2>1, <2>2 DEF Recorded
  <2>3. CASE ~(i \in DOMAIN rosters /\ rosters'[i].tap = rosters[i].tap)
    <3>1. PICK c \in calls : RosterAdded(c) /\ NoLongerSent(c)
      BY <2>1, <2>3 DEF HistoryStep, RostersMove
    <3>2. c.stage = "sent" /\ rosters'[i] = NewRosterRecord(c)
      BY <2>1, <2>3, <3>1 DEF RosterAdded
    <3>3. rosters'[i].tap = <<c.from, c.no>>
      BY <3>2 DEF NewRosterRecord
    <3> QED
      BY <2>1, <3>1, <3>2, <3>3
  <2> QED
    BY <2>2, <2>3
<1> QED
  BY <1>1, <1>2 DEF Recorded

\* Settings that were saved are the game's until another tap on Save replaces them.
LEMMA SavedStays ==
    ASSUME HistoryStep, \A c \in calls : CallFine(c), TapsFine, NEW tap \in taps, tap.op = "updateGame",
           tap.shown.target \in DOMAIN games, Saved(tap)
    PROVE  \E later \in taps' : SameTap(later, tap) /\ later.shown.target \in DOMAIN games' /\ Saved(later)'
<1>1. PICK later \in taps' : SameTap(later, tap)
  BY DEF HistoryStep, TapsGrow, SameTap
<1>2. PICK k : k = tap.shown.target
  OBVIOUS
<1>3. k \in DOMAIN games /\ k \in DOMAIN games' /\ later.shown = tap.shown /\ later.shown.target = k
  BY <1>1, <1>2 DEF HistoryStep, GamesMove, GameAdded, GameUpdated, SameTap
<1>4. ASSUME NEW other \in taps, other.op = "updateGame", other.shown.target = k,
             other.from # tap.from \/ other.no # tap.no
      PROVE  Saved(later)'
  <2>1. PICK next \in taps' : SameTap(next, other)
    BY DEF HistoryStep, TapsGrow, SameTap
  <2>2. /\ next.op = "updateGame" /\ next.shown.target = later.shown.target
        /\ <<next.from, next.no>> # <<later.from, later.no>>
    BY <1>1, <1>3, <1>4, <2>1 DEF SameTap
  <2> QED
    BY <2>2 DEF Saved
<1>5. ASSUME games'[k].schedule = games[k].schedule, games'[k].location = games[k].location
      PROVE  Saved(later)'
  <2>1. CASE /\ tap.shown.schedule = games[k].schedule
             /\ tap.shown.location = games[k].location
    BY <1>3, <1>5, <2>1 DEF Saved
  <2>2. CASE \E other \in taps : /\ other.op = "updateGame" /\ other.shown.target = k
                                 /\ <<other.from, other.no>> # <<tap.from, tap.no>>
    BY <1>4, <2>2
  <2> QED
    BY <1>2, <2>1, <2>2 DEF Saved
<1>6. ASSUME \E c \in calls : GameUpdated(c) /\ c.body.target = k
      PROVE  Saved(later)'
  <2>1. PICK c \in calls : GameUpdated(c) /\ c.body.target = k
    BY <1>6
  <2>2. c.op = "updateGame" /\ games'[k].schedule = c.body.schedule /\ games'[k].location = c.body.location
    BY <2>1 DEF GameUpdated
  <2>3. PICK other \in taps : other.from = c.from /\ other.no = c.no /\ other.op = c.op /\ other.shown = c.body
    BY <2>2 DEF CallFine, TapOf
  <2>4. CASE other.from = tap.from /\ other.no = tap.no
    <3>1. tap.shown = c.body
      BY <2>3, <2>4 DEF TapsFine
    <3>2. /\ later.shown.schedule = games'[later.shown.target].schedule
          /\ later.shown.location = games'[later.shown.target].location
      BY <1>3, <2>2, <3>1
    <3> QED
      BY <3>2 DEF Saved
  <2>5. CASE other.from # tap.from \/ other.no # tap.no
    BY <1>4, <2>1, <2>2, <2>3, <2>5
  <2> QED
    BY <2>4, <2>5
<1>7. \/ games'[k] = games[k]
      \/ \E c \in calls : GameUpdated(c) /\ c.body.target = k
  BY <1>3 DEF HistoryStep, GamesMove, GameAdded, GameUpdated
<1>8. Saved(later)'
  BY <1>5, <1>6, <1>7
<1> QED
  BY <1>1, <1>3, <1>8

LEMMA DoneStays ==
    ASSUME HistoryStep, \A c \in calls : CallFine(c), TapsFine, NEW c, Done(c)
    PROVE  Done(c)'
<1>1. c.op \in {"createGame", "createGameInvite"} => Recorded(c)'
  BY RecordedStays DEF Done
<1>2. ASSUME c.op = "updateGame"
      PROVE  \E tap \in taps' : /\ tap.from = c.from /\ tap.no = c.no /\ tap.op = c.op
                                /\ tap.shown = c.body
                                /\ tap.shown.target \in DOMAIN games' /\ Saved(tap)'
  <2>1. PICK tap \in taps : /\ tap.from = c.from /\ tap.no = c.no /\ tap.op = c.op /\ tap.shown = c.body
                            /\ tap.shown.target \in DOMAIN games /\ Saved(tap)
    BY <1>2 DEF Done
  <2>2. tap.op = "updateGame"
    BY <1>2, <2>1
  <2>3. PICK later \in taps' : SameTap(later, tap) /\ later.shown.target \in DOMAIN games' /\ Saved(later)'
    BY <2>1, <2>2, SavedStays
  <2> QED
    BY <2>1, <2>3 DEF SameTap
<1>3. c.op = "follow" => <<c.user, c.body.target>> \in follows'
  BY DEF Done, HistoryStep
<1>4. c.op = "createGame" => c.reply.id \in DOMAIN games'
  BY GamesStay DEF Done
<1> QED
  BY <1>1, <1>2, <1>3, <1>4 DEF Done

-----------------------------------------------------------------------------
(***************************************************************************)
(* A call, on its way, is of a tap, and what it answers is so.             *)
(***************************************************************************)

LEMMA NumberStays ==
    ASSUME BrowsersTyped, PlanStep, plan' \in [Tabs -> TabPlans], NEW t \in Tabs, NEW no \in Nat,
           no > plan[t].calls
    PROVE  no > plan'[t].calls
<1>1. plan[t].calls \in Nat /\ plan'[t].calls \in Nat /\ plan'[t].calls <= plan[t].calls
  BY DEF BrowsersTyped, PlanStep, TabPlans
<1> QED
  BY <1>1

LEMMA FreshNumber ==
    ASSUME BrowsersTyped, plan' \in [Tabs -> TabPlans], NEW d, d.from \in Tabs, Fresh(d)
    PROVE  d.no \in Nat \ {0} /\ d.no > plan'[d.from].calls
<1>1. plan[d.from].calls \in Nat /\ plan'[d.from].calls \in Nat
  BY DEF BrowsersTyped, TabPlans
<1> QED
  BY <1>1 DEF Fresh, Paid

\* Nothing is recorded yet of a call that has just been sent.
LEMMA FreshNotRecorded ==
    ASSUME ReportedInv, HistoryStep, NEW d, d.from \in Tabs, Fresh(d)
    PROVE  ~Recorded(d)'
<1>1. BrowsersTyped /\ RecordsTyped /\ RecordsFine /\ plan' \in [Tabs -> TabPlans]
  BY DEF ReportedInv, WellTyped, HistoryStep
<1>2. d.no = plan[d.from].calls /\ d.no \in Nat \ {0}
  BY <1>1, FreshNumber DEF Fresh
<1>3. ~Recorded(d)
  <2>1. ASSUME NEW i \in DOMAIN games PROVE games[i].tap # <<d.from, d.no>>
    <3>1. games[i].tap[2] > plan[games[i].tap[1]].calls
      BY <1>1 DEF RecordsFine
    <3>2. ASSUME games[i].tap = <<d.from, d.no>> PROVE FALSE
      BY <1>2, <3>1, <3>2
    <3> QED
      BY <3>2
  <2>2. ASSUME NEW i \in DOMAIN rosters PROVE rosters[i].tap # <<d.from, d.no>>
    <3>1. rosters[i].tap[2] # 0 => rosters[i].tap[2] > plan[rosters[i].tap[1]].calls
      BY <1>1 DEF RecordsFine
    <3>2. ASSUME rosters[i].tap = <<d.from, d.no>> PROVE FALSE
      BY <1>2, <3>1, <3>2
    <3> QED
      BY <3>2
  <2> QED
    BY <2>1, <2>2 DEF Recorded
<1>4. ASSUME NEW c \in calls PROVE <<c.from, c.no>> # <<d.from, d.no>>
  <2>1. c.no > plan[c.from].calls
    BY DEF ReportedInv, CallFine
  <2>2. ASSUME c.from = d.from, c.no = d.no PROVE FALSE
    BY <1>2, <2>1, <2>2
  <2> QED
    BY <2>2
<1> QED
  BY <1>3, <1>4, RecordedByServing

\* A call of a tap that is over stays so.
LEMMA OverStays ==
    ASSUME ReportedInv, HistoryStep, NEW c \in calls,
           \A tap \in taps : tap.from = c.from /\ tap.no = c.no => tap.over
    PROVE  \A tap \in taps' : tap.from = c.from /\ tap.no = c.no => tap.over
<1>1. c.no > plan[c.from].calls /\ c.from \in Tabs /\ c.no \in Nat
  BY DEF ReportedInv, WellTyped, CallsTyped, CallsOf, CallFine
<1>2. plan[c.from].calls \in Nat
  BY <1>1 DEF ReportedInv, WellTyped, BrowsersTyped, TabPlans
<1>3. CASE \A later \in taps' : \E tap \in taps : SameTap(later, tap) /\ (tap.over => later.over)
  BY <1>3 DEF SameTap
<1>4. CASE \E new : taps' = taps \cup {new} /\ NewTap(new)
  <2>1. PICK new : taps' = taps \cup {new} /\ NewTap(new)
    BY <1>4
  <2>2. ~(new.from = c.from /\ new.no = c.no)
    BY <1>1, <1>2, <2>1 DEF NewTap
  <2> QED
    BY <2>1, <2>2
<1> QED
  BY <1>3, <1>4 DEF HistoryStep, TapsStep

\* What the fields that a call keeps say of it.
LEMMA CallStays ==
    ASSUME ReportedInv, HistoryStep, NEW c \in calls, NEW d, Same(d, c)
    PROVE  /\ d.no > plan'[d.from].calls
           /\ d.op \in {"createGame", "createGameInvite", "updateGame"} => TapOf(d)'
           /\ c.stage = "answered" /\ c.reply.status = "ok" /\ d.reply = c.reply => Done(d)'
           /\ c.stage = "landing" =>
                 /\ d.op = "createGame" /\ c.reply.id \in DOMAIN games'
                 /\ \A tap \in taps' : tap.from = d.from /\ tap.no = d.no => tap.over
           /\ d.op = "follow" => d.body.target \in Targets
           /\ d.op = "updateGame" /\ c.stage = "read" => d.body.target \in DOMAIN games'
<1>1. CallFine(c) /\ c.from \in Tabs /\ c.no \in Nat
  BY DEF ReportedInv, WellTyped, CallsTyped, CallsOf
<1>2. d.from = c.from /\ d.no = c.no /\ d.op = c.op /\ d.user = c.user /\ d.body = c.body
  BY DEF Same
<1>3. d.no > plan'[d.from].calls
  BY <1>1, <1>2, NumberStays DEF CallFine, ReportedInv, WellTyped, HistoryStep
<1>4. ASSUME d.op \in {"createGame", "createGameInvite", "updateGame"} PROVE TapOf(d)'
  <2>1. TapOf(d)
    BY <1>1, <1>2, <1>4 DEF CallFine, TapOf
  <2> QED
    BY <2>1, TapOfStays DEF HistoryStep
<1>5. ASSUME c.stage = "answered", c.reply.status = "ok", d.reply = c.reply PROVE Done(d)'
  <2>1. Done(d)
    BY <1>1, <1>2, <1>5 DEF CallFine, Done, Recorded
  <2> QED
    BY <2>1, DoneStays DEF ReportedInv
<1>6. ASSUME c.stage = "landing"
      PROVE  /\ d.op = "createGame" /\ c.reply.id \in DOMAIN games'
             /\ \A tap \in taps' : tap.from = d.from /\ tap.no = d.no => tap.over
  <2>1. /\ c.op = "createGame" /\ c.reply.id \in DOMAIN games
        /\ \A tap \in taps : tap.from = c.from /\ tap.no = c.no => tap.over
    BY <1>1, <1>6 DEF CallFine
  <2>2. \A tap \in taps' : tap.from = c.from /\ tap.no = c.no => tap.over
    BY <2>1, OverStays
  <2> QED
    BY <1>2, <2>1, <2>2, GamesStay
<1>7. d.op = "follow" => d.body.target \in Targets
  BY <1>1, <1>2 DEF CallFine
<1>8. ASSUME d.op = "updateGame", c.stage = "read" PROVE d.body.target \in DOMAIN games'
  <2>1. DOMAIN games \subseteq DOMAIN games'
    BY GamesStay
  <2> QED
    BY <1>1, <1>2, <1>8, <2>1 DEF CallFine
<1> QED
  BY <1>3, <1>4, <1>5, <1>6, <1>7, <1>8

\* The scoreboard that a follow was sent from is shown for as long as anybody waits for it.
LEMMA BoardStays ==
    ASSUME ReportedInv, [Next]_vars, NEW c \in calls, NEW d \in calls', Same(d, c), d.op = "follow", d.heard,
           c.heard
    PROVE  board'[d.from].alive /\ board'[d.from].target = d.body.target
<1>1. d.from = c.from /\ d.op = c.op /\ d.body = c.body /\ c.from \in Tabs /\ CallFine(c) /\ WellTyped
  BY DEF Same, ReportedInv, WellTyped, CallsTyped, CallsOf
<1>2. board[c.from].alive /\ board[c.from].target = c.body.target
  BY <1>1 DEF CallFine
<1>3. BoardMoves(c.from)
  BY <1>1, BoardCases
<1>4. PICK ids : CallsRight(ids)
  BY DEF ReportedInv, WellTyped, CallsTyped, CallsRight
<1>5. PICK p \in Tabs : p = c.from
  BY <1>1
<1>6. ~BoardCloses(p)
  BY <1>1, <1>4, <1>5, FollowsUnheard
<1> QED
  BY <1>1, <1>2, <1>3, <1>5, <1>6 DEF BoardMoves, SameBoard, BoardTells, BoardOpens

LEMMA UpdateDone ==
    ASSUME NEW c, TapOf(c)', Served(c, c.reply), c.op = "updateGame"
    PROVE  Done(c)'
<1>1. PICK tap \in taps' : tap.from = c.from /\ tap.no = c.no /\ tap.op = c.op /\ tap.shown = c.body
  BY DEF TapOf
<1>2. /\ tap.shown.target \in DOMAIN games'
      /\ tap.shown.schedule = games'[tap.shown.target].schedule
      /\ tap.shown.location = games'[tap.shown.target].location
  BY <1>1 DEF Served
<1>3. Saved(tap)'
  BY <1>2 DEF Saved
<1> QED
  BY <1>1, <1>2, <1>3 DEF Done

LEMMA ServedDone ==
    ASSUME NEW c, c.op = "updateGame" => TapOf(c)', Served(c, c.reply)
    PROVE  Done(c)'
<1>1. CASE c.op = "updateGame"
  BY <1>1, UpdateDone
<1>2. CASE c.op # "updateGame"
  BY <1>2 DEF Served, Done, Recorded
<1> QED
  BY <1>1, <1>2

LEMMA CallsFineKept ==
    ASSUME ReportedInv, [Next]_vars, HistoryStep, NEW ids, CallsStep(ids), NEW d \in calls'
    PROVE  CallFine(d)'
<1>1. d \in CallsOf(ids) /\ d.from \in Tabs /\ d.no \in Nat
  BY DEF CallsStep, CallsOf
<1>2. /\ BrowsersTyped /\ WellTyped /\ plan' \in [Tabs -> TabPlans]
      /\ \A c \in calls : CallFine(c)
  BY DEF ReportedInv, WellTyped, HistoryStep
<1>3. CASE d \in calls
  <2>1. Same(d, d)
    BY DEF Same
  <2>2. ASSUME d.stage = "sent" PROVE ~Recorded(d)'
    <3>1. ~Recorded(d)
      BY <1>2, <1>3, <2>2 DEF CallFine
    <3> QED
      BY <2>2, <3>1, RecordedByServing DEF NoLongerSent
  <2>3. ASSUME d.op = "follow", d.heard PROVE board'[d.from].alive /\ board'[d.from].target = d.body.target
    BY <1>3, <2>1, <2>3, BoardStays
  <2> QED
    BY <1>3, <2>1, <2>2, <2>3, CallStays DEF CallFine
<1>4. CASE Fresh(d)
  <2>1. d.no > plan'[d.from].calls
    BY <1>1, <1>2, <1>4, FreshNumber
  <2>2. d.op \in {"createGame", "createGameInvite", "updateGame"} => TapOf(d)'
    BY <1>4 DEF Fresh, TapOf
  <2>3. ~Recorded(d)'
    BY <1>1, <1>4, FreshNotRecorded
  <2>4. d.op = "follow" => /\ d.body.target \in Targets
                           /\ board'[d.from].alive /\ board'[d.from].target = d.body.target
    BY <1>1, <1>2, <1>4 DEF Fresh, WellTyped, PagesTyped, BoardTyped
  <2>5. d.stage = "sent"
    BY <1>4 DEF Fresh
  <2> QED
    BY <2>1, <2>2, <2>3, <2>4, <2>5 DEF CallFine
<1>5. CASE \E c \in calls : Unhears(d, c)
  <2>1. PICK c \in calls : Unhears(d, c)
    BY <1>5
  <2>2. Same(d, c) /\ ~d.heard /\ d.stage = c.stage /\ d.reply = c.reply
    BY <2>1 DEF Unhears
  <2>3. ASSUME d.stage = "sent" PROVE ~Recorded(d)'
    <3>1. ~Recorded(d)
      BY <1>2, <2>2, <2>3 DEF CallFine, Recorded, Same
    <3> QED
      BY <2>3, <3>1, RecordedByServing DEF NoLongerSent
  <2> QED
    BY <2>2, <2>3, CallStays DEF CallFine
<1>6. CASE \E c \in calls : Moves(d, c)
  <2>1. PICK c \in calls : Moves(d, c)
    BY <1>6
  <2>2. Same(d, c) /\ (d.heard => c.heard)
    BY <2>1 DEF Moves
  <2>3. /\ d.no > plan'[d.from].calls
        /\ d.op \in {"createGame", "createGameInvite", "updateGame"} => TapOf(d)'
        /\ d.op = "follow" => d.body.target \in Targets
    BY <2>2, CallStays
  <2>4. d.stage # "sent"
    BY <2>1 DEF Moves
  <2>5. ASSUME d.stage = "answered", d.reply.status = "ok" PROVE Done(d)'
    <3>1. Served(d, d.reply)
      BY <2>1, <2>2, <2>5 DEF Moves, Served, Same
    <3> QED
      BY <2>3, <3>1, ServedDone
  <2>6. ASSUME d.stage = "landing"
        PROVE  /\ d.op = "createGame" /\ d.reply.id \in DOMAIN games'
               /\ \A tap \in taps' : tap.from = d.from /\ tap.no = d.no => tap.over
    <3>1. /\ d.op = "createGame" /\ c.op = "createGame" /\ d.reply = c.reply
          /\ c.stage = "answered" /\ c.reply.status = "ok"
          /\ \A tap \in taps' : tap.from = d.from /\ tap.no = d.no => tap.over
      BY <2>1, <2>6 DEF Moves, Same
    <3>2. c.reply.id \in DOMAIN games
      BY <1>2, <3>1 DEF CallFine, Done
    <3> QED
      BY <3>1, <3>2, GamesStay
  <2>7. ASSUME d.op = "follow", d.heard PROVE board'[d.from].alive /\ board'[d.from].target = d.body.target
    BY <2>2, <2>7, BoardStays
  <2>8. ASSUME d.op = "updateGame", d.stage = "read" PROVE d.body.target \in DOMAIN games'
    <3>1. DOMAIN games \subseteq DOMAIN games'
      BY GamesStay
    <3> QED
      BY <2>1, <2>8, <3>1 DEF Moves, Same
  <2> QED
    BY <2>3, <2>4, <2>5, <2>6, <2>7, <2>8 DEF CallFine
<1> QED
  BY <1>3, <1>4, <1>5, <1>6 DEF CallsStep

\* No two calls that are still to be served are of the same tap.
LEMMA SentOnceKept ==
    ASSUME ReportedInv, NEW ids, CallsStep(ids)
    PROVE  SentOnce'
<1>1. SentOnce /\ \A c \in calls : CallFine(c)
  BY DEF ReportedInv
<1>2. PICK old : CallsRight(old)
  BY DEF ReportedInv, WellTyped, CallsTyped, CallsRight
<1>3. SUFFICES ASSUME NEW d \in calls', NEW e \in calls', d.stage = "sent", e.stage = "sent",
                      d.from = e.from, d.no = e.no
               PROVE  d = e
  BY DEF SentOnce
<1>4. ASSUME NEW f \in calls', f.stage = "sent"
      PROVE  \/ f \in calls
             \/ Fresh(f)
             \/ \E c \in calls \ calls' : Unhears(f, c)
  BY <1>4 DEF CallsStep, Moves
<1>5. ASSUME NEW f \in calls', Fresh(f), NEW c \in calls PROVE f.from # c.from \/ f.no # c.no
  <2>1. c.no > plan[c.from].calls /\ c.from \in Tabs /\ c.no \in Nat
    BY <1>1, <1>2 DEF CallsRight, CallFine, CallsOf
  <2>2. plan[c.from].calls \in Nat
    BY <1>2, <2>1 DEF CallsRight, BrowsersTyped, TabPlans
  <2> QED
    BY <1>5, <2>1, <2>2 DEF Fresh
<1>6. CASE Fresh(d) /\ Fresh(e)
  BY <1>3, <1>6 DEF CallsStep
<1>7. CASE ~(Fresh(d) /\ Fresh(e))
  <2>1. \A f \in calls' : \A c : Unhears(f, c) => f.from = c.from /\ f.no = c.no /\ f.stage = c.stage
    BY DEF Unhears, Same
  <2>2. ~Fresh(d) /\ ~Fresh(e)
    BY <1>3, <1>4, <1>5, <1>7, <2>1
  <2>3. CASE d \in calls /\ e \in calls
    BY <1>1, <1>3, <2>3 DEF SentOnce
  <2>4. CASE d \in calls /\ \E c \in calls \ calls' : Unhears(e, c)
    BY <1>1, <1>3, <2>1, <2>4 DEF SentOnce
  <2>5. CASE e \in calls /\ \E c \in calls \ calls' : Unhears(d, c)
    BY <1>1, <1>3, <2>1, <2>5 DEF SentOnce
  <2>6. CASE (\E c \in calls \ calls' : Unhears(d, c)) /\ (\E c \in calls \ calls' : Unhears(e, c))
    <3>1. PICK c \in calls : Unhears(d, c)
      BY <2>6
    <3>2. PICK f \in calls : Unhears(e, f)
      BY <2>6
    <3>3. c = f
      BY <1>1, <1>3, <2>1, <3>1, <3>2 DEF SentOnce
    <3> QED
      BY <3>1, <3>2, <3>3 DEF CallsStep
  <2> QED
    BY <1>3, <1>4, <2>2, <2>3, <2>4, <2>5, <2>6
<1> QED
  BY <1>6, <1>7

-----------------------------------------------------------------------------
(***************************************************************************)
(* A record is of one tap, and what a page tells is so.                    *)
(***************************************************************************)

\* A tap on Save is remembered.
LEMMA SettingsTappedStays ==
    ASSUME TapsGrow, NEW i, SettingsTapped(i)
    PROVE  SettingsTapped(i)'
BY DEF TapsGrow, SettingsTapped

LEMMA GameAskedStays ==
    ASSUME TapsGrow, NEW i, GameAsked(i), games'[i].tap = games[i].tap,
           games'[i].createdBy = games[i].createdBy, games'[i].about = games[i].about,
           games'[i].schedule = games[i].schedule \/ SettingsTapped(i)
    PROVE  GameAsked(i)'
<1>1. PICK tap \in taps :
        /\ tap.op = "createGame" /\ <<tap.from, tap.no>> = games[i].tap
        /\ tap.user = games[i].createdBy /\ tap.form["names"] = games[i].about
        /\ StartsAt(tap.form, games[i].schedule) \/ SettingsTapped(i)
  BY DEF GameAsked
<1>2. PICK later \in taps' :
        /\ later.from = tap.from /\ later.no = tap.no /\ later.op = tap.op
        /\ later.user = tap.user /\ later.form = tap.form /\ later.shown = tap.shown
  BY DEF TapsGrow
<1>3. StartsAt(later.form, games'[i].schedule) \/ SettingsTapped(i)'
  <2>1. CASE SettingsTapped(i)
    BY <2>1, SettingsTappedStays
  <2>2. CASE ~SettingsTapped(i)
    BY <1>1, <1>2, <2>2 DEF StartsAt
  <2> QED
    BY <2>1, <2>2
<1> QED
  BY <1>1, <1>2, <1>3 DEF GameAsked

LEMMA RosterAskedStays ==
    ASSUME TapsGrow, NEW i, RosterAsked(i), rosters'[i] = rosters[i]
    PROVE  RosterAsked(i)'
<1>1. PICK tap \in taps :
        /\ tap.op = "createGameInvite" /\ <<tap.from, tap.no>> = rosters[i].tap
        /\ tap.user = rosters[i].organizer /\ tap.form.form["team"] = rosters[i].about
        /\ tap.form.rows = rosters[i].rows
        /\ StartsAt(tap.form.form, rosters[i].schedule)
  BY DEF RosterAsked
<1>2. PICK later \in taps' :
        /\ later.from = tap.from /\ later.no = tap.no /\ later.op = tap.op
        /\ later.user = tap.user /\ later.form = tap.form /\ later.shown = tap.shown
  BY DEF TapsGrow
<1> QED
  BY <1>1, <1>2 DEF RosterAsked

\* A call that creates says what its tap's form did.
LEMMA CreateAsks ==
    ASSUME ReportedInv, TapsGrow, NEW c \in calls, c.op = "createGame", NEW i, games'[i] = NewGameRecord(c)
    PROVE  GameAsked(i)'
<1>1. TapOf(c) /\ TapsFine
  BY DEF ReportedInv, CallFine
<1>2. PICK tap \in taps :
        /\ tap.from = c.from /\ tap.no = c.no /\ tap.op = c.op
        /\ tap.user = c.user /\ tap.shown = c.body /\ FromForm(tap)
  BY <1>1 DEF TapOf, TapsFine
<1>3. PICK later \in taps' :
        /\ later.from = tap.from /\ later.no = tap.no /\ later.op = tap.op
        /\ later.user = tap.user /\ later.form = tap.form /\ later.shown = tap.shown
  BY DEF TapsGrow
<1>4. /\ games'[i].tap = <<c.from, c.no>> /\ games'[i].createdBy = c.user
      /\ games'[i].about = c.body.about /\ games'[i].schedule = c.body.schedule
  BY DEF NewGameRecord
<1>5. later.form["names"] = c.body.about /\ StartsAt(later.form, c.body.schedule)
  BY <1>2, <1>3 DEF FromForm
<1> QED
  BY <1>2, <1>3, <1>4, <1>5 DEF GameAsked

LEMMA OrganizeAsks ==
    ASSUME ReportedInv, TapsGrow, NEW c \in calls, c.op = "createGameInvite", NEW i,
           rosters'[i] = NewRosterRecord(c)
    PROVE  RosterAsked(i)'
<1>1. TapOf(c) /\ TapsFine
  BY DEF ReportedInv, CallFine
<1>2. PICK tap \in taps :
        /\ tap.from = c.from /\ tap.no = c.no /\ tap.op = c.op
        /\ tap.user = c.user /\ tap.shown = c.body /\ FromForm(tap)
  BY <1>1 DEF TapOf, TapsFine
<1>3. PICK later \in taps' :
        /\ later.from = tap.from /\ later.no = tap.no /\ later.op = tap.op
        /\ later.user = tap.user /\ later.form = tap.form /\ later.shown = tap.shown
  BY DEF TapsGrow
<1>4. /\ rosters'[i].tap = <<c.from, c.no>> /\ rosters'[i].organizer = c.user
      /\ rosters'[i].about = c.body.about /\ rosters'[i].schedule = c.body.schedule
      /\ rosters'[i].rows = c.body.rows
  BY DEF NewRosterRecord
<1>5. /\ later.form.form["team"] = c.body.about /\ later.form.rows = c.body.rows
      /\ StartsAt(later.form.form, c.body.schedule)
  BY <1>2, <1>3 DEF FromForm
<1> QED
  BY <1>2, <1>3, <1>4, <1>5 DEF RosterAsked

GameFine(i) ==
    /\ GameAsked(i)
    /\ games[i].tap[2] > plan[games[i].tap[1]].calls
    /\ \A j \in DOMAIN games : games[i].tap = games[j].tap => i = j

RosterFine(i) ==
    /\ RosterAsked(i)
    /\ rosters[i].tap[2] > plan[rosters[i].tap[1]].calls
    /\ \A j \in DOMAIN rosters : rosters[i].tap = rosters[j].tap => i = j

LEMMA GamesFineKept ==
    ASSUME ReportedInv, HistoryStep
    PROVE  \A i \in DOMAIN games' : GameFine(i)'
<1>1. \A i \in DOMAIN games : GameFine(i)
  BY DEF ReportedInv, RecordsFine, GameFine
<1>2. BrowsersTyped /\ RecordsTyped /\ TapsGrow /\ PlanStep /\ plan' \in [Tabs -> TabPlans]
  BY DEF ReportedInv, WellTyped, HistoryStep
<1>3. ASSUME NEW i \in DOMAIN games, i \in DOMAIN games', games'[i].tap = games[i].tap,
             games'[i].createdBy = games[i].createdBy, games'[i].about = games[i].about,
             games'[i].schedule = games[i].schedule \/ SettingsTapped(i)
      PROVE  /\ GameAsked(i)'
             /\ games'[i].tap[2] > plan'[games'[i].tap[1]].calls
  <2>1. GameAsked(i) /\ games[i].tap[2] > plan[games[i].tap[1]].calls
    BY <1>1 DEF GameFine
  <2>2. games[i].tap[1] \in Tabs /\ games[i].tap[2] \in Nat
    <3>1. games \in Seq(Games)
      BY <1>2 DEF RecordsTyped
    <3>2. games[i] \in Games
      BY <3>1
    <3>3. games[i].tap \in Tabs \X Nat
      BY <3>2 DEF Games
    <3> QED
      BY <3>3
  <2>3. GameAsked(i)'
    BY <1>2, <1>3, <2>1, GameAskedStays
  <2>4. games'[i].tap[2] > plan'[games'[i].tap[1]].calls
    <3>1. PICK t \in Tabs : t = games[i].tap[1]
      BY <2>2
    <3>2. PICK no \in Nat : no = games[i].tap[2]
      BY <2>2
    <3>3. no > plan'[t].calls
      BY <1>2, <2>1, <3>1, <3>2, NumberStays
    <3> QED
      BY <1>3, <3>1, <3>2, <3>3
  <2> QED
    BY <2>3, <2>4
<1>4. CASE /\ DOMAIN games' = DOMAIN games
           /\ \A i \in DOMAIN games :
                 /\ games'[i].tap = games[i].tap /\ games'[i].about = games[i].about
                 /\ games'[i].createdBy = games[i].createdBy
                 /\ games'[i].schedule = games[i].schedule \/ SettingsTapped(i)
  <2>1. ASSUME NEW i \in DOMAIN games', NEW j \in DOMAIN games', games'[i].tap = games'[j].tap PROVE i = j
    BY <1>1, <1>4, <2>1 DEF GameFine
  <2> QED
    BY <1>3, <1>4, <2>1 DEF GameFine
<1>5. CASE \E c \in calls : GameAdded(c)
  <2>1. PICK c \in calls : GameAdded(c)
    BY <1>5
  <2>2. PICK last :
          /\ last \notin DOMAIN games /\ DOMAIN games' = DOMAIN games \cup {last}
          /\ \A i \in DOMAIN games : games'[i] = games[i]
          /\ games'[last] = NewGameRecord(c)
          /\ c.op = "createGame" /\ c.stage = "sent"
    BY <2>1 DEF GameAdded
  <2>3. CallFine(c) /\ c.from \in Tabs /\ c.no \in Nat
    BY DEF ReportedInv, WellTyped, CallsTyped, CallsOf
  <2>4. games'[last].tap = <<c.from, c.no>>
    BY <2>2 DEF NewGameRecord
  <2>5. GameAsked(last)'
    BY <1>2, <2>2, CreateAsks
  <2>6. games'[last].tap[2] > plan'[games'[last].tap[1]].calls
    BY <1>2, <2>3, <2>4, NumberStays DEF CallFine
  <2>7. \A j \in DOMAIN games : games[j].tap # <<c.from, c.no>>
    BY <2>2, <2>3 DEF CallFine, Recorded
  <2>8. ASSUME NEW i \in DOMAIN games', NEW j \in DOMAIN games', games'[i].tap = games'[j].tap PROVE i = j
    <3>1. CASE i \in DOMAIN games /\ j \in DOMAIN games
      BY <1>1, <2>2, <2>8, <3>1 DEF GameFine
    <3>2. CASE i = last \/ j = last
      BY <2>2, <2>4, <2>7, <2>8, <3>2
    <3> QED
      BY <2>2, <3>1, <3>2
  <2>9. ASSUME NEW i \in DOMAIN games'
        PROVE  GameAsked(i)' /\ games'[i].tap[2] > plan'[games'[i].tap[1]].calls
    <3>1. CASE i \in DOMAIN games
      BY <1>3, <2>2, <3>1
    <3>2. CASE i = last
      BY <2>5, <2>6, <3>2
    <3> QED
      BY <2>2, <3>1, <3>2
  <2> QED
    BY <2>8, <2>9 DEF GameFine
<1>6. ASSUME NEW c \in calls, GameUpdated(c)
      PROVE  /\ DOMAIN games' = DOMAIN games
             /\ \A i \in DOMAIN games :
                   /\ games'[i].tap = games[i].tap /\ games'[i].about = games[i].about
                   /\ games'[i].createdBy = games[i].createdBy
                   /\ games'[i].schedule = games[i].schedule \/ SettingsTapped(i)
  <2>1. SettingsTapped(c.body.target)
    BY <1>6 DEF GameUpdated, ReportedInv, CallFine, TapOf, SettingsTapped
  <2> QED
    BY <1>6, <2>1 DEF GameUpdated
<1> QED
  BY <1>4, <1>5, <1>6 DEF HistoryStep, GamesMove

LEMMA RostersFineKept ==
    ASSUME ReportedInv, HistoryStep
    PROVE  \A i \in DOMAIN rosters' : rosters'[i].tap[2] # 0 => RosterFine(i)'
<1>1. \A i \in DOMAIN rosters : rosters[i].tap[2] # 0 => RosterFine(i)
  BY DEF ReportedInv, RecordsFine, RosterFine
<1>2. BrowsersTyped /\ RecordsTyped /\ TapsGrow /\ PlanStep /\ plan' \in [Tabs -> TabPlans]
  BY DEF ReportedInv, WellTyped, HistoryStep
<1>3. ASSUME NEW i \in DOMAIN rosters, i \in DOMAIN rosters', rosters'[i] = rosters[i], rosters[i].tap[2] # 0
      PROVE  /\ RosterAsked(i)'
             /\ rosters'[i].tap[2] > plan'[rosters'[i].tap[1]].calls
  <2>1. RosterAsked(i) /\ rosters[i].tap[2] > plan[rosters[i].tap[1]].calls
    BY <1>1, <1>3 DEF RosterFine
  <2>2. rosters[i].tap[1] \in Tabs /\ rosters[i].tap[2] \in Nat
    <3>1. rosters \in Seq(Rosters)
      BY <1>2 DEF RecordsTyped
    <3>2. rosters[i] \in Rosters
      BY <3>1
    <3>3. rosters[i].tap \in Tabs \X Nat
      BY <3>2 DEF Rosters
    <3> QED
      BY <3>3
  <2>3. RosterAsked(i)'
    BY <1>2, <1>3, <2>1, RosterAskedStays
  <2>4. rosters'[i].tap[2] > plan'[rosters'[i].tap[1]].calls
    <3>1. PICK t \in Tabs : t = rosters[i].tap[1]
      BY <2>2
    <3>2. PICK no \in Nat : no = rosters[i].tap[2]
      BY <2>2
    <3>3. no > plan'[t].calls
      BY <1>2, <2>1, <3>1, <3>2, NumberStays
    <3> QED
      BY <1>3, <3>1, <3>2, <3>3
  <2> QED
    BY <2>3, <2>4
<1>4. CASE UNCHANGED rosters
  <2>1. ASSUME NEW i \in DOMAIN rosters', NEW j \in DOMAIN rosters', rosters'[i].tap[2] # 0,
               rosters'[i].tap = rosters'[j].tap
        PROVE  i = j
    BY <1>1, <1>4, <2>1 DEF RosterFine
  <2> QED
    BY <1>3, <1>4, <2>1 DEF RosterFine
<1>5. CASE \E c \in calls : RosterAdded(c)
  <2>1. PICK c \in calls : RosterAdded(c)
    BY <1>5
  <2>2. PICK last :
          /\ last \notin DOMAIN rosters /\ DOMAIN rosters' = DOMAIN rosters \cup {last}
          /\ \A i \in DOMAIN rosters : rosters'[i] = rosters[i]
          /\ rosters'[last] = NewRosterRecord(c)
          /\ c.op = "createGameInvite" /\ c.stage = "sent"
    BY <2>1 DEF RosterAdded
  <2>3. CallFine(c) /\ c.from \in Tabs /\ c.no \in Nat
    BY DEF ReportedInv, WellTyped, CallsTyped, CallsOf
  <2>4. rosters'[last].tap = <<c.from, c.no>>
    BY <2>2 DEF NewRosterRecord
  <2>5. RosterAsked(last)'
    BY <1>2, <2>2, OrganizeAsks
  <2>6. rosters'[last].tap[2] > plan'[rosters'[last].tap[1]].calls
    BY <1>2, <2>3, <2>4, NumberStays DEF CallFine
  <2>7. \A j \in DOMAIN rosters : rosters[j].tap # <<c.from, c.no>>
    BY <2>2, <2>3 DEF CallFine, Recorded
  <2>8. ASSUME NEW i \in DOMAIN rosters', NEW j \in DOMAIN rosters', rosters'[i].tap[2] # 0,
               rosters'[i].tap = rosters'[j].tap
        PROVE  i = j
    <3>1. CASE i \in DOMAIN rosters /\ j \in DOMAIN rosters
      BY <1>1, <2>2, <2>8, <3>1 DEF RosterFine
    <3>2. CASE i = last \/ j = last
      BY <2>2, <2>4, <2>7, <2>8, <3>2
    <3> QED
      BY <2>2, <3>1, <3>2
  <2>9. ASSUME NEW i \in DOMAIN rosters', rosters'[i].tap[2] # 0
        PROVE  RosterAsked(i)' /\ rosters'[i].tap[2] > plan'[rosters'[i].tap[1]].calls
    <3>1. CASE i \in DOMAIN rosters
      BY <1>3, <2>2, <2>9, <3>1
    <3>2. CASE i = last
      BY <2>5, <2>6, <3>2
    <3> QED
      BY <2>2, <3>1, <3>2
  <2> QED
    BY <2>8, <2>9 DEF RosterFine
<1> QED
  BY <1>4, <1>5 DEF HistoryStep, RostersMove

LEMMA RecordsFineKept ==
    ASSUME ReportedInv, HistoryStep
    PROVE  RecordsFine'
BY GamesFineKept, RostersFineKept DEF RecordsFine, GameFine, RosterFine

LEMMA NewGameToldKept ==
    ASSUME ReportedInv, HistoryStep, [Next]_vars, NEW t \in Tabs, newGame'[t].told = "created"
    PROVE  \E i \in DOMAIN games' : games'[i].tap = <<t, newGame'[t].awaits>>
<1>1. ASSUME NEW i \in DOMAIN games PROVE i \in DOMAIN games' /\ games'[i].tap = games[i].tap
  BY DEF HistoryStep, GamesMove, GameAdded, GameUpdated
<1>2. NewGameMoves(t)
  BY NewGameCases DEF ReportedInv
<1>3. CASE newGame[t].told = "created" /\ newGame'[t].awaits = newGame[t].awaits
  <2>1. ToldFine
    BY DEF ReportedInv
  <2>2. PICK i \in DOMAIN games : games[i].tap = <<t, newGame[t].awaits>>
    BY <1>3, <2>1, Zenon DEF ToldFine
  <2> QED
    BY <1>1, <1>3, <2>2
<1>4. CASE \E c \in calls : NewGameTells(t, c)
  <2>1. PICK c \in calls : NewGameTells(t, c)
    BY <1>4
  <2>2. CASE newGame[t].awaits = c.no
    <3>1. Recorded(c) /\ c.op = "createGame" /\ c.from = t
      BY <2>1 DEF NewGameTells, NewGameCreated, Good, ReportedInv, CallFine, Done
    <3>2. PICK i \in DOMAIN games : games[i].tap = <<c.from, c.no>>
      BY <3>1 DEF Recorded
    <3> QED
      BY <1>1, <2>1, <2>2, <3>1, <3>2 DEF NewGameTells
  <2>3. CASE newGame[t].awaits # c.no
    BY <1>3, <2>1, <2>3 DEF NewGameTells
  <2> QED
    BY <2>2, <2>3
<1> QED
  BY <1>2, <1>3, <1>4 DEF NewGameMoves, SameNewGame, NewGameTaps, NewGameCloses, NewGameOpens, NewGameEnds,
     ClosedNewGame

LEMMA OrganizeToldKept ==
    ASSUME ReportedInv, HistoryStep, [Next]_vars, NEW t \in Tabs, organize'[t].told = "created"
    PROVE  \E i \in DOMAIN rosters' : rosters'[i].tap = <<t, organize'[t].awaits>>
<1>1. ASSUME NEW i \in DOMAIN rosters PROVE i \in DOMAIN rosters' /\ rosters'[i].tap = rosters[i].tap
  BY DEF HistoryStep, RostersMove, RosterAdded
<1>2. OrganizeMoves(t)
  BY OrganizeCases DEF ReportedInv
<1>3. CASE organize[t].told = "created" /\ organize'[t].awaits = organize[t].awaits
  <2>1. ToldFine
    BY DEF ReportedInv
  <2>2. PICK i \in DOMAIN rosters : rosters[i].tap = <<t, organize[t].awaits>>
    BY <1>3, <2>1, Zenon DEF ToldFine
  <2> QED
    BY <1>1, <1>3, <2>2
<1>4. CASE \E c \in calls : OrganizeTells(t, c)
  <2>1. PICK c \in calls : OrganizeTells(t, c)
    BY <1>4
  <2>2. CASE organize'[t].awaits = c.no
    <3>1. Recorded(c) /\ c.op = "createGameInvite" /\ c.from = t
      BY <2>1 DEF OrganizeTells, Organized, Good, ReportedInv, CallFine, Done
    <3>2. PICK i \in DOMAIN rosters : rosters[i].tap = <<c.from, c.no>>
      BY <3>1 DEF Recorded
    <3> QED
      BY <1>1, <2>2, <3>1, <3>2
  <2>3. CASE organize'[t].awaits # c.no
    BY <1>3, <2>1, <2>3 DEF OrganizeTells
  <2> QED
    BY <2>2, <2>3
<1> QED
  BY <1>2, <1>3, <1>4 DEF OrganizeMoves, SameOrganize, OrganizeTaps, OrganizeCloses, OrganizeOpens, OrganizeEnds,
     ClosedOrganize

LEMMA SettingsToldKept ==
    ASSUME ReportedInv, HistoryStep, [Next]_vars, NEW t \in Tabs, settings'[t].told = "saved"
    PROVE  \E tap \in taps' : /\ tap.op = "updateGame" /\ tap.shown.target = settings'[t].game
                              /\ tap.from = t /\ tap.no = settings'[t].awaits
                              /\ tap.shown.target \in DOMAIN games' /\ Saved(tap)'
<1>1. /\ TapsFine /\ WellTyped /\ \A c \in calls : CallFine(c)
  BY DEF ReportedInv
<1>2. SettingsMoves(t)
  BY <1>1, SettingsCases
<1>3. ASSUME NEW tap \in taps, tap.op = "updateGame", tap.shown.target = settings'[t].game,
             tap.from = t, tap.no = settings'[t].awaits, tap.shown.target \in DOMAIN games, Saved(tap)
      PROVE  \E later \in taps' : /\ later.op = "updateGame" /\ later.shown.target = settings'[t].game
                                  /\ later.from = t /\ later.no = settings'[t].awaits
                                  /\ later.shown.target \in DOMAIN games' /\ Saved(later)'
  <2>1. PICK later \in taps' : SameTap(later, tap) /\ later.shown.target \in DOMAIN games' /\ Saved(later)'
    BY <1>1, <1>3, SavedStays
  <2> QED
    BY <1>3, <2>1 DEF SameTap
<1>4. CASE settings[t].told = "saved" /\ SameSettings(t)
  <2>1. PICK tap \in taps : /\ tap.op = "updateGame" /\ tap.shown.target = settings[t].game
                            /\ tap.from = t /\ tap.no = settings[t].awaits
                            /\ tap.shown.target \in DOMAIN games /\ Saved(tap)
    BY <1>4 DEF ReportedInv, ToldFine
  <2> QED
    BY <1>3, <1>4, <2>1 DEF SameSettings
<1>5. CASE \E c \in calls : SettingsTells(t, c)
  <2>1. PICK c \in calls : SettingsTells(t, c)
    BY <1>5
  <2>2. c.op = "updateGame" /\ c.from = t /\ c.no = settings[t].awaits /\ Done(c)
    BY <1>1, <2>1 DEF SettingsTells, SettingsSaved, Good, Saves, CallFine
  <2>3. PICK tap \in taps : /\ tap.from = c.from /\ tap.no = c.no /\ tap.op = c.op
                            /\ tap.shown = c.body /\ tap.shown.target \in DOMAIN games /\ Saved(tap)
    BY <2>2 DEF Done
  <2>4. tap.shown.target = settings[t].game
    <3>1. ToldFine
      BY DEF ReportedInv
    <3>2. \A one \in taps :
            one.op = "updateGame" /\ one.from = t /\ one.no = settings[t].awaits
                => one.shown.target = settings[t].game
      BY <3>1, Zenon DEF ToldFine
    <3> QED
      BY <2>2, <2>3, <3>2
  <2> QED
    BY <1>3, <2>1, <2>2, <2>3, <2>4 DEF SettingsTells
<1> QED
  BY <1>2, <1>4, <1>5 DEF SettingsMoves, SameSettings, SettingsTaps, SettingsAnew

LEMMA AwaitedSettings ==
    ASSUME ReportedInv, HistoryStep, [Next]_vars, NEW t \in Tabs, NEW tap \in taps',
           tap.op = "updateGame", tap.from = t, tap.no = settings'[t].awaits
    PROVE  tap.shown.target = settings'[t].game
<1>1. SettingsMoves(t) /\ plan[t].calls \in Nat
  BY SettingsCases DEF ReportedInv, WellTyped, BrowsersTyped, TabPlans
<1>2. CASE NewTap(tap)
  BY <1>2 DEF NewTap
<1>3. CASE \E old \in taps : SameTap(tap, old)
  <2>1. PICK old \in taps : SameTap(tap, old)
    BY <1>3
  <2>2. old.op = "updateGame" /\ old.from = t /\ old.no = settings'[t].awaits /\ old.shown = tap.shown
    BY <2>1 DEF SameTap
  <2>3. old.no > plan[t].calls /\ old.no \in Nat
    BY <2>2 DEF ReportedInv, TapsFine, WellTyped, TapsTyped, Taps
  <2>4. settings'[t].awaits # 0 /\ settings'[t].awaits # plan[t].calls
    BY <1>1, <2>2, <2>3
  <2>5. settings'[t].awaits = settings[t].awaits /\ settings'[t].game = settings[t].game
    BY <1>1, <2>4 DEF SettingsMoves, SameSettings, SettingsTaps, SettingsAnew, SettingsTells
  <2> QED
    BY <2>2, <2>5 DEF ReportedInv, ToldFine
<1>4. NewTap(tap) \/ \E old \in taps : SameTap(tap, old)
  BY DEF HistoryStep, TapsStep, SameTap
<1> QED
  BY <1>2, <1>3, <1>4

LEMMA FollowToldKept ==
    ASSUME ReportedInv, HistoryStep, [Next]_vars, NEW t \in Tabs, board'[t].status = "following"
    PROVE  <<board'[t].user, board'[t].target>> \in follows'
<1>1. BoardMoves(t) /\ follows \subseteq follows'
  BY BoardCases DEF ReportedInv, HistoryStep
<1>2. CASE SameBoard(t)
  BY <1>1, <1>2 DEF SameBoard, ReportedInv, ToldFine
<1>3. CASE \E c \in calls : BoardTells(t, c)
  <2>1. PICK c \in calls : BoardTells(t, c)
    BY <1>3
  <2>2. c.op = "follow" /\ c.from = t /\ c.heard /\ Done(c) /\ CallFine(c)
    BY <2>1 DEF BoardTells, Following, Good, ReportedInv, CallFine
  <2>3. <<c.user, c.body.target>> \in follows /\ board[t].target = c.body.target
    BY <2>2 DEF Done, CallFine
  <2> QED
    BY <1>1, <2>1, <2>3 DEF BoardTells
<1> QED
  BY <1>1, <1>2, <1>3 DEF BoardMoves, BoardCloses, BoardOpens

LEMMA ToldFineKept ==
    ASSUME ReportedInv, HistoryStep, [Next]_vars
    PROVE  ToldFine'
BY NewGameToldKept, OrganizeToldKept, SettingsToldKept, AwaitedSettings, FollowToldKept DEF ToldFine

LEMMA SettingsFoundKept ==
    ASSUME ReportedInv, HistoryStep, [Next]_vars
    PROVE  SettingsFound'
<1>1. SUFFICES ASSUME NEW t \in Tabs, settings'[t].alive PROVE settings'[t].game \in DOMAIN games'
  BY DEF SettingsFound
<1>2. SettingsMoves(t)
  BY SettingsCases DEF ReportedInv
<1>3. CASE settings[t].alive /\ settings'[t].game = settings[t].game
  BY <1>3, GamesStay DEF ReportedInv, SettingsFound
<1>4. CASE SettingsOpens(t)
  <2>1. CASE settings'[t].game \in DOMAIN games
    BY <2>1, GamesStay
  <2>2. CASE \E c \in calls : Land(t, c) /\ settings'[t].game = c.reply.id
    <3>1. PICK c \in calls : Land(t, c) /\ settings'[t].game = c.reply.id
      BY <2>2
    <3>2. c.stage = "landing"
      BY <3>1 DEF Land, NewGameLeft
    <3>3. c.reply.id \in DOMAIN games
      BY <3>2 DEF ReportedInv, CallFine
    <3> QED
      BY <3>1, <3>3, GamesStay
  <2> QED
    BY <1>4, <2>1, <2>2 DEF SettingsOpens
<1> QED
  BY <1>1, <1>2, <1>3, <1>4
     DEF SettingsMoves, SameSettings, SettingsTaps, SettingsTells, SettingsAnew, SettingsCloses

-----------------------------------------------------------------------------
(***************************************************************************)
(* In the beginning.                                                       *)
(***************************************************************************)

FormerTap(g) ==
    [from |-> g.tap[1], no |-> g.tap[2], op |-> "createGame", user |-> g.createdBy,
     form |-> FormerForm(g), over |-> TRUE,
     shown |-> [EmptyBody EXCEPT !.about = g.about, !.schedule = g.schedule, !.location = g.location]]

LEMMA FormerFormTyped ==
    ASSUME NEW g \in Games
    PROVE  /\ FormerForm(g) \in NewGameForms
           /\ FormerForm(g)["names"] = g.about
           /\ StartsAt(FormerForm(g), g.schedule)
<1>1. PICK names, date, time : names = g.about /\ date = g.schedule[1] /\ time = g.schedule[2]
  OBVIOUS
<1>2. g.about \in Inputs /\ g.schedule \in Schedules
  BY DEF Games
<1>3. /\ names \in Texts /\ date \in Texts /\ time \in Texts
      /\ g.schedule = <<date, time>> /\ (g.schedule = Unset \/ (date # Blank /\ time # Blank))
  <2>1. CASE g.schedule = Unset
    <3>1. date = Blank /\ time = Blank
      BY <1>1, <2>1 DEF Unset
    <3>2. names \in Texts
      BY <1>1, <1>2 DEF Texts
    <3>3. g.schedule = <<date, time>>
      BY <2>1, <3>1, Zenon DEF Unset
    <3>4. Blank \in Texts
      BY DEF Texts
    <3> QED
      BY <2>1, <3>1, <3>2, <3>3, <3>4, Zenon
  <2>2. CASE g.schedule \in Inputs \X Inputs
    <3>1. PICK one \in Inputs, other \in Inputs : g.schedule = <<one, other>>
      BY <2>2
    <3>2. date = one /\ time = other
      BY <1>1, <3>1
    <3>3. names \in Texts
      BY <1>1, <1>2 DEF Texts
    <3> QED
      BY <3>1, <3>2, <3>3, RecordsAssumption DEF Texts
  <2> QED
    BY <1>2, <2>1, <2>2 DEF Schedules
<1>4. PICK form : form = [BlankNewGame EXCEPT !["names"] = names, !["date"] = date, !["time"] = time]
  OBVIOUS
<1>5. form \in NewGameForms /\ form["names"] = names /\ form["date"] = date /\ form["time"] = time
  BY <1>3, <1>4 DEF BlankNewGame, NewGameForms, NewGameFields, Texts
<1>6. StartsAt(form, g.schedule)
  BY <1>3, <1>5 DEF StartsAt, Unset
<1>7. FormerForm(g) = form
  BY <1>1, <1>4, Zenon DEF FormerForm
<1> QED
  BY <1>1, <1>5, <1>6, <1>7

LEMMA FormerTapTyped ==
    ASSUME NEW g \in Games
    PROVE  /\ FormerTap(g) \in Taps
           /\ FormerTap(g).from = g.tap[1] /\ FormerTap(g).no = g.tap[2]
           /\ FormerTap(g).op = "createGame" /\ FormerTap(g).over
           /\ FormerTap(g).user = g.createdBy
           /\ FormerTap(g).form["names"] = g.about
           /\ StartsAt(FormerTap(g).form, g.schedule)
           /\ FromForm(FormerTap(g))
<1>1. PICK body : body = [EmptyBody EXCEPT !.about = g.about, !.schedule = g.schedule, !.location = g.location]
  OBVIOUS
<1>2. /\ g.about \in Texts /\ g.schedule \in Schedules /\ g.location \in Texts
      /\ g.createdBy \in Users /\ g.tap \in Tabs \X Nat
  BY DEF Games, Texts
<1>3. body \in SentBodies /\ body.about = g.about /\ body.schedule = g.schedule
  BY <1>1, <1>2, EmptyBodyTyped DEF SentBodies
<1>4. PICK from \in Tabs, no \in Nat, user \in Users : from = g.tap[1] /\ no = g.tap[2] /\ user = g.createdBy
  BY <1>2
<1>5. PICK form \in Forms :
        form = FormerForm(g) /\ form["names"] = g.about /\ StartsAt(form, g.schedule)
  BY FormerFormTyped DEF Forms
<1>6. FormerTap(g) =
        [from |-> from, no |-> no, op |-> "createGame", user |-> user, form |-> form, over |-> TRUE,
         shown |-> body]
  BY <1>1, <1>4, <1>5 DEF FormerTap
<1>7. PICK tap : tap = FormerTap(g)
  OBVIOUS
<1>8. /\ tap \in Taps /\ tap.from = from /\ tap.no = no /\ tap.op = "createGame" /\ tap.over
      /\ tap.user = user /\ tap.form = form /\ tap.shown = body
  BY <1>3, <1>6, <1>7 DEF Taps, Ops, Writes
<1>9. FromForm(tap)
  BY <1>3, <1>5, <1>8 DEF FromForm
<1> QED
  BY <1>4, <1>5, <1>7, <1>8, <1>9

LEMMA ReportedBegin ==
    ASSUME Init
    PROVE  ReportedInv
<1>1. PICK s \in Scenarios :
        /\ RecordsInit(s.games, s.rosters)
        /\ BrowserInit(s.auth, s.plan, FormerTaps(s.games))
        /\ NewGameInit(s.newGame)
        /\ OrganizeInit(s.organize)
        /\ SettingsInit
        /\ MyListsInit
  BY DEF Init
<1>2. /\ games = s.games /\ rosters = s.rosters /\ participants = {} /\ follows = {} /\ calls = {}
  BY <1>1 DEF RecordsInit
<1>3. /\ auth = s.auth /\ session = [t \in Tabs |-> s.auth[DeviceOf[t]]]
      /\ view = [t \in Tabs |-> "elsewhere"] /\ plan = s.plan
      /\ taps = {FormerTap(games[i]) : i \in DOMAIN games}
  BY <1>1, <1>2 DEF BrowserInit, FormerTap, FormerTaps
<1>4. /\ plan \in [Tabs -> TabPlans] /\ auth \in [Devices -> Users \cup {Nobody}]
      /\ session \in [Tabs -> Users \cup {Nobody}]
      /\ games \in Seq(Games) /\ rosters \in Seq(Rosters)
  BY <1>2, <1>3, OrganizingAssumption, BrowserAssumption
<1>5. \A i \in DOMAIN games :
          /\ games[i].tap[2] > plan[games[i].tap[1]].calls
          /\ \A j \in DOMAIN games : games[i].tap = games[j].tap => i = j
  BY <1>2, <1>3, OrganizingAssumption
<1>6. \A i \in DOMAIN rosters : rosters[i].tap[2] = 0
  BY <1>2, OrganizingAssumption
<1>7. /\ s.newGame \in NewGameForms \cup {NoDraft}
      /\ s.organize \in OrganizeForms \cup {NoDraft}
  BY OrganizingAssumption DEF NewGameForms, OrganizeForms
<1>8. /\ newGame = [t \in Tabs |-> ClosedNewGame] /\ newGameDraft = [d \in Devices |-> s.newGame]
      /\ organize = [t \in Tabs |-> ClosedOrganize] /\ organizeDraft = [d \in Devices |-> s.organize]
      /\ settings = [t \in Tabs |-> ClosedSettings] /\ board = [t \in Tabs |-> ClosedBoard]
  BY <1>1 DEF NewGameInit, OrganizeInit, SettingsInit, MyListsInit
<1>9. ASSUME NEW i \in DOMAIN games
      PROVE  /\ games[i] \in Games /\ FormerTap(games[i]) \in taps
             /\ FormerTap(games[i]) \in Taps
             /\ FormerTap(games[i]).from = games[i].tap[1] /\ FormerTap(games[i]).no = games[i].tap[2]
             /\ FormerTap(games[i]).op = "createGame" /\ FormerTap(games[i]).over
             /\ FormerTap(games[i]).user = games[i].createdBy
             /\ FormerTap(games[i]).form["names"] = games[i].about
             /\ StartsAt(FormerTap(games[i]).form, games[i].schedule)
             /\ FromForm(FormerTap(games[i]))
  <2>1. games[i] \in Games
    BY <1>4
  <2> QED
    BY <1>3, <2>1, FormerTapTyped
<1>10. RecordsTyped
  BY <1>2, <1>4 DEF RecordsTyped
<1>11. BrowsersTyped
  BY <1>3, <1>4 DEF BrowsersTyped
<1>12. PagesTyped
  <2>1. NewGameTyped
    BY <1>3, <1>7, <1>8, ClosedPagesTyped DEF NewGameTyped, Shows
  <2>2. OrganizeTyped
    BY <1>3, <1>7, <1>8, ClosedPagesTyped DEF OrganizeTyped, Shows
  <2>3. SettingsTyped
    BY <1>8, ClosedPagesTyped DEF SettingsTyped
  <2>4. BoardTyped
    BY <1>3, <1>8, ClosedPagesTyped DEF BoardTyped, Shows, ClosedBoard
  <2>5. SettingsInView
    BY <1>3 DEF SettingsInView, Shows
  <2> QED
    BY <2>1, <2>2, <2>3, <2>4, <2>5 DEF PagesTyped
<1>13. TapsTyped
  BY <1>3, <1>9 DEF TapsTyped
<1>14. \E ids : << >> \in ids /\ CallsTyped(ids)
  <2>1. << >> \in {<< >>} /\ CallsTyped({<< >>})
    BY <1>2 DEF CallsTyped
  <2> QED
    BY <2>1
<1>15. WellTyped
  BY <1>10, <1>11, <1>12, <1>13, <1>14 DEF WellTyped
<1>16. (\A c \in calls : CallFine(c)) /\ SentOnce
  BY <1>2 DEF SentOnce
<1>17. TapsFine
  <2>1. ASSUME NEW tap \in taps PROVE tap.no > plan[tap.from].calls /\ FromForm(tap)
    BY <1>3, <1>5, <1>9
  <2>2. ASSUME NEW one \in taps, NEW other \in taps, one.from = other.from, one.no = other.no
        PROVE  one = other
    <3>1. PICK i \in DOMAIN games : one = FormerTap(games[i])
      BY <1>3
    <3>2. PICK j \in DOMAIN games : other = FormerTap(games[j])
      BY <1>3
    <3>3. games[i].tap \in Tabs \X Nat /\ games[j].tap \in Tabs \X Nat
      BY <1>9 DEF Games
    <3>4. games[i].tap[1] = games[j].tap[1] /\ games[i].tap[2] = games[j].tap[2]
      BY <1>9, <2>2, <3>1, <3>2
    <3>5. games[i].tap = games[j].tap
      BY <3>3, <3>4
    <3> QED
      BY <1>5, <3>1, <3>2, <3>5
  <2> QED
    BY <2>1, <2>2 DEF TapsFine
<1>18. Waiting
  BY <1>3, <1>9 DEF Waiting
<1>19. RecordsFine
  <2>1. ASSUME NEW i \in DOMAIN games PROVE GameAsked(i)
    <3>1. PICK tap \in taps : tap = FormerTap(games[i])
      BY <1>9
    <3>2. games[i].tap \in Tabs \X Nat
      BY <1>9 DEF Games
    <3>3. /\ tap.op = "createGame" /\ <<tap.from, tap.no>> = games[i].tap
          /\ tap.user = games[i].createdBy /\ tap.form["names"] = games[i].about
          /\ StartsAt(tap.form, games[i].schedule)
      BY <1>9, <3>1, <3>2
    <3> QED
      BY <3>3 DEF GameAsked
  <2> QED
    BY <1>5, <1>6, <2>1 DEF RecordsFine
<1>20. ToldFine
  <2>1. \A tap \in taps : tap.op = "createGame"
    BY <1>3, <1>9
  <2>2. ASSUME NEW t \in Tabs
        PROVE  /\ newGame[t].told = "nothing" /\ organize[t].told = "nothing"
               /\ settings[t].told = "nothing" /\ board[t].status = ""
    BY <1>8 DEF ClosedNewGame, ClosedOrganize, ClosedSettings, ClosedBoard
  <2> QED
    BY <2>1, <2>2 DEF ToldFine
<1>21. SettingsFound
  BY <1>8 DEF SettingsFound, ClosedSettings
<1> QED
  BY <1>15, <1>16, <1>17, <1>18, <1>19, <1>20, <1>21 DEF ReportedInv

-----------------------------------------------------------------------------
(***************************************************************************)
(* The theorems.                                                           *)
(***************************************************************************)

LEMMA ReportedInvKept ==
    ASSUME ReportedInv, [Next]_vars
    PROVE  ReportedInv'
<1>1. WellTyped /\ TapsFine /\ Waiting /\ \A c \in calls : CallFine(c)
  BY DEF ReportedInv
<1>2. HistoryStep
  BY HistoryMovesOn
<1>3. PICK ids : << >> \in ids /\ CallsStep(ids)
  BY <1>1, CallsMoveOn
<1>4. WellTyped'
  <2>1. RecordsTyped' /\ TapsTyped' /\ plan' \in [Tabs -> TabPlans]
    BY <1>2 DEF HistoryStep
  <2>2. BrowsersTyped'
    BY <1>1, <2>1, SessionTypedKept, ViewKept DEF BrowsersTyped, AllViews
  <2>3. PagesTyped'
    BY <1>1, PagesTypedKept
  <2>4. << >> \in ids /\ CallsTyped(ids)'
    BY <1>3 DEF CallsTyped, CallsStep
  <2> QED
    BY <2>1, <2>2, <2>3, <2>4 DEF WellTyped
<1>5. \A c \in calls' : CallFine(c)'
  BY <1>2, <1>3, CallsFineKept
<1>6. SentOnce'
  BY <1>3, SentOnceKept
<1>7. TapsFine'
  BY <1>1, <1>2, TapsFineKept DEF HistoryStep
<1>8. Waiting'
  BY <1>1, WaitingKept
<1>9. RecordsFine' /\ ToldFine' /\ SettingsFound'
  BY <1>2, RecordsFineKept, ToldFineKept, SettingsFoundKept
<1> QED
  BY <1>4, <1>5, <1>6, <1>7, <1>8, <1>9 DEF ReportedInv

\* What is recorded was asked for by one tap, each call under way is of its tap, and
\* whatever a page tells was so when it was told and is so still.
THEOREM ReportedInvariant == Spec => []ReportedInv
<1>1. Init => ReportedInv
  BY ReportedBegin
<1>2. ReportedInv /\ [Next]_vars => ReportedInv'
  BY ReportedInvKept
<1> QED
  BY <1>1, <1>2, PTL DEF Spec

-----------------------------------------------------------------------------
(***************************************************************************)
(* The pages of lists: one that is in view is alive.                       *)
(***************************************************************************)

IsMyRosters(pg) ==
    pg = [alive |-> pg.alive, loading |-> pg.loading, error |-> pg.error, shown |-> pg.shown]

GamesPages ==
    /\ myGames = [t \in Tabs |-> myGames[t]]
    /\ \A t \in Tabs : IsMyGames(myGames[t])

RosterPages ==
    /\ myRosters = [t \in Tabs |-> myRosters[t]]
    /\ \A t \in Tabs : IsMyRosters(myRosters[t])

ListsInView ==
    \A t \in Tabs : /\ Shows(t, "myGames") => myGames[t].alive
                    /\ Shows(t, "rosters") => myRosters[t].alive

ListsShaped == GamesPages /\ RosterPages /\ ListsInView

\* A page is gone only when it is closed, or its tab reloaded.
StaysAlive(pg, new, t) == pg.alive => new.alive \/ Close(t) \/ Reload(t)

LEMMA MyGamesAlive ==
    ASSUME NEW pg, IsMyGames(pg), NEW u
    PROVE  IsMyGames(MyGamesFor(pg, u)) /\ MyGamesFor(pg, u).alive = pg.alive
<1>1. CASE ~pg.alive
  BY <1>1 DEF MyGamesFor
<1>2. CASE pg.alive /\ u = Nobody
  <2>1. MyGamesFor(pg, u) = [pg EXCEPT !.watches = {}, !.loading = FALSE, !.shown = {}]
    BY <1>2 DEF MyGamesFor, Watches
  <2>2. MyGamesFor(pg, u) = [alive |-> pg.alive, watches |-> {}, loading |-> FALSE, shown |-> {}]
    BY <2>1, MyGamesReplaced
  <2> QED
    BY <2>2 DEF IsMyGames
<1>3. CASE pg.alive /\ u # Nobody
  <2>1. MyGamesFor(pg, u) = [pg EXCEPT !.watches = {u}]
    BY <1>3 DEF MyGamesFor, Watches
  <2>2. MyGamesFor(pg, u) = [alive |-> pg.alive, watches |-> {u}, loading |-> pg.loading, shown |-> pg.shown]
    BY <2>1, MyGamesReplaced
  <2> QED
    BY <2>2 DEF IsMyGames
<1> QED
  BY <1>1, <1>2, <1>3

LEMMA OpenedGamesAlive ==
    ASSUME NEW u
    PROVE  /\ IsMyGames(MyGamesFor([ClosedMyGames EXCEPT !.alive = TRUE], u))
           /\ MyGamesFor([ClosedMyGames EXCEPT !.alive = TRUE], u).alive
<1>1. PICK pg : pg = [ClosedMyGames EXCEPT !.alive = TRUE]
  OBVIOUS
<1>2. IsMyGames(ClosedMyGames)
  BY DEF IsMyGames, ClosedMyGames
<1>3. pg = [alive |-> TRUE, watches |-> ClosedMyGames.watches, loading |-> ClosedMyGames.loading,
            shown |-> ClosedMyGames.shown]
  BY <1>1, <1>2, MyGamesOpened
<1>4. IsMyGames(pg) /\ pg.alive
  BY <1>3 DEF IsMyGames
<1>5. IsMyGames(MyGamesFor(pg, u)) /\ MyGamesFor(pg, u).alive
  BY <1>4, MyGamesAlive
<1> QED
  BY <1>1, <1>5

LEMMA GamesPagesKept ==
    ASSUME GamesPages, [Next]_vars
    PROVE  /\ GamesPages'
           /\ \A t \in Tabs : StaysAlive(myGames[t], myGames'[t], t)
           /\ \A t \in Tabs : ShowMyGames(t) => myGames'[t].alive
<1> DEFINE Goal == GamesPages' /\ \A t \in Tabs : StaysAlive(myGames[t], myGames'[t], t)
<1>1. ASSUME UNCHANGED myGames PROVE Goal
  BY <1>1 DEF GamesPages, StaysAlive
<1>2. ASSUME NEW t \in Tabs, NEW new, myGames' = [myGames EXCEPT ![t] = new],
             IsMyGames(new), StaysAlive(myGames[t], new, t)
      PROVE  Goal
  <2>1. myGames' = [q \in Tabs |-> myGames'[q]]
    BY <1>2 DEF GamesPages
  <2>2. ASSUME NEW q \in Tabs PROVE IsMyGames(myGames'[q]) /\ StaysAlive(myGames[q], myGames'[q], q)
    <3>1. CASE q = t
      <4>1. myGames'[q] = new
        BY <1>2, <3>1 DEF GamesPages
      <4> QED
        BY <1>2, <3>1, <4>1
    <3>2. CASE q # t
      <4>1. myGames'[q] = myGames[q]
        BY <1>2, <3>2 DEF GamesPages
      <4> QED
        BY <4>1 DEF GamesPages, StaysAlive
    <3> QED
      BY <3>1, <3>2
  <2>3. \A q \in Tabs : IsMyGames(myGames[q])'
    BY <2>2 DEF IsMyGames
  <2> QED
    BY <2>1, <2>2, <2>3 DEF GamesPages
<1> HIDE DEF Goal
<1>3. ASSUME NEW t \in Tabs, ShowMyGames(t) PROVE Goal /\ myGames'[t].alive
  <2>1. CASE myGames[t].alive
    <3>1. UNCHANGED myGames
      BY <1>3, <2>1 DEF ShowMyGames
    <3> QED
      BY <1>1, <2>1, <3>1 DEF Goal
  <2>2. CASE ~myGames[t].alive
    <3>1. PICK new : new = MyGamesFor([ClosedMyGames EXCEPT !.alive = TRUE], Account(t))
      OBVIOUS
    <3>2. myGames' = [myGames EXCEPT ![t] = new]
      BY <1>3, <2>2, <3>1 DEF ShowMyGames
    <3>3. IsMyGames(new) /\ new.alive
      BY <3>1, OpenedGamesAlive
    <3>4. myGames'[t] = new
      BY <3>2 DEF GamesPages
    <3> QED
      BY <1>2, <3>2, <3>3, <3>4 DEF StaysAlive
  <2> QED
    BY <2>1, <2>2
<1>4. ASSUME NEW t \in Tabs, NEW u \in Users, Snapshot(t, u) PROVE Goal
  <2>1. PICK shown : shown = CreatedBy(u)
    OBVIOUS
  <2>2. PICK new : new = [myGames[t] EXCEPT !.loading = FALSE, !.shown = shown]
    OBVIOUS
  <2>3. myGames' = [myGames EXCEPT ![t] = new]
    BY <1>4, <2>1, <2>2, Zenon DEF GamesPages, Snapshot
  <2>4. IsMyGames(myGames[t])
    BY DEF GamesPages
  <2>5. new = [alive |-> myGames[t].alive, watches |-> myGames[t].watches, loading |-> FALSE, shown |-> shown]
    BY <2>2, <2>4, MyGamesUpdated
  <2>6. IsMyGames(new) /\ new.alive = myGames[t].alive
    BY <2>5 DEF IsMyGames
  <2> QED
    BY <1>2, <2>3, <2>6 DEF StaysAlive
<1>5. ASSUME NEW t \in Tabs, NEW u, Session(t, u) PROVE Goal
  <2>1. PICK new : new = MyGamesFor(myGames[t], u)
    OBVIOUS
  <2>2. myGames' = [myGames EXCEPT ![t] = new]
    BY <1>5, <2>1 DEF Session
  <2>3. IsMyGames(new) /\ new.alive = myGames[t].alive
    BY <2>1, MyGamesAlive DEF GamesPages
  <2> QED
    BY <1>2, <2>2, <2>3 DEF StaysAlive
<1>6. ASSUME NEW t \in Tabs, Close(t) \/ Reload(t), myGames' = [myGames EXCEPT ![t] = ClosedMyGames]
      PROVE  Goal
  <2>1. IsMyGames(ClosedMyGames)
    BY DEF IsMyGames, ClosedMyGames
  <2> QED
    BY <1>2, <1>6, <2>1 DEF StaysAlive
<1>7. Goal
  BY <1>1, <1>3, <1>4, <1>5, <1>6, MyGamesSteps DEF Goal
<1> QED
  BY <1>3, <1>7 DEF Goal

\* The page is shown, asks, hears, follows who is signed in, or is gone.
LEMMA MyRostersSteps ==
    ASSUME [Next]_vars
    PROVE  \/ UNCHANGED myRosters
           \/ \E t \in Tabs :
                 \/ ShowMyRosters(t) \/ Retry(t)
                 \/ \E c \in calls : RostersListed(t, c) \/ RostersNotListed(t, c)
                 \/ \E u : Session(t, u)
                 \/ /\ Close(t) \/ Reload(t)
                    /\ myRosters' = [myRosters EXCEPT ![t] = ClosedMyRosters]
<1>1. CASE Serving \/ Failing \/ TakingPart \/ Watching \/ UNCHANGED vars
  BY <1>1 DEF Serving, Failing, TakingPart, Watching, Snapshot, vars, pages, myListsVars
<1>2. CASE Using
  <2>1. PICK t \in Tabs :
          \/ NewGameUser(t) /\ UNCHANGED <<organizeVars, settings, myListsVars>>
          \/ OrganizeUser(t) /\ UNCHANGED <<newGameVars, settings, myListsVars>>
          \/ SettingsUser(t) /\ UNCHANGED <<newGameVars, organizeVars, myListsVars>>
          \/ MyListsUser(t)
    BY <1>2 DEF Using
  <2> QED
    BY <2>1 DEF myListsVars, MyListsUser, SignInFromRosters, Follow, FollowSignedOut
<1>3. CASE Receiving
  <2>1. PICK t \in Tabs : UNCHANGED myListsVars \/ (\E c \in calls : Land(t, c)) \/ MyListsReceive(t)
    BY <1>3 DEF Receiving
  <2> QED
    BY <2>1 DEF myListsVars, Land, MyListsReceive, Following, NotFollowing
<1>4. CASE Going
  <2>1. CASE \E t \in Tabs : Visit(t)
    BY <2>1 DEF Visit, ShowMyGames, ShowBoard, myListsVars
  <2>2. CASE \E t \in Tabs : Close(t)
    BY <2>2 DEF Close
  <2>3. CASE \E t \in Tabs : Reload(t)
    BY <2>3 DEF Reload
  <2>4. CASE \E t \in Tabs : Return(t)
    BY <2>4 DEF Return, myListsVars
  <2>5. CASE \E t \in Tabs, u \in Users : SignIn(t, u)
    BY <2>5 DEF SignIn
  <2>6. CASE \E t \in Tabs : SignOut(t) \/ Learn(t)
    BY <2>6 DEF SignOut, Learn
  <2> QED
    BY <1>4, <2>1, <2>2, <2>3, <2>4, <2>5, <2>6 DEF Going
<1> QED
  BY <1>1, <1>2, <1>3, <1>4 DEF Next

LEMMA MyRostersFieldSet ==
    ASSUME NEW pg, IsMyRosters(pg), NEW a, NEW l, NEW e, NEW s
    PROVE  /\ [pg EXCEPT !.alive = a] = [alive |-> a, loading |-> pg.loading, error |-> pg.error, shown |-> pg.shown]
           /\ [pg EXCEPT !.loading = l] = [alive |-> pg.alive, loading |-> l, error |-> pg.error, shown |-> pg.shown]
           /\ [pg EXCEPT !.error = e] = [alive |-> pg.alive, loading |-> pg.loading, error |-> e, shown |-> pg.shown]
           /\ [pg EXCEPT !.shown = s] = [alive |-> pg.alive, loading |-> pg.loading, error |-> pg.error, shown |-> s]
<1>1. PICK alive, loading, error, shown :
        pg = [alive |-> alive, loading |-> loading, error |-> error, shown |-> shown]
  BY DEF IsMyRosters
<1> QED
  BY <1>1

\* A page that has changed any of the rest.
LEMMA MyRostersChanged ==
    ASSUME NEW pg, IsMyRosters(pg), NEW l, NEW e, NEW s
    PROVE  /\ IsMyRosters([pg EXCEPT !.loading = l, !.error = e])
           /\ [pg EXCEPT !.loading = l, !.error = e].alive = pg.alive
           /\ IsMyRosters([pg EXCEPT !.loading = l, !.error = e, !.shown = s])
           /\ [pg EXCEPT !.loading = l, !.error = e, !.shown = s].alive = pg.alive
           /\ IsMyRosters([pg EXCEPT !.shown = s, !.loading = l])
           /\ [pg EXCEPT !.shown = s, !.loading = l].alive = pg.alive
           /\ IsMyRosters([pg EXCEPT !.error = e, !.loading = l])
           /\ [pg EXCEPT !.error = e, !.loading = l].alive = pg.alive
<1> DEFINE Kept(n) == IsMyRosters(n) /\ n.alive = pg.alive
<1>1. \A n : Kept(n) => Kept([n EXCEPT !.loading = l]) /\ Kept([n EXCEPT !.error = e]) /\ Kept([n EXCEPT !.shown = s])
  BY MyRostersFieldSet DEF IsMyRosters
<1>2. Kept(pg)
  OBVIOUS
<1> HIDE DEF Kept
<1>3. PICK one, other, three :
        one = [pg EXCEPT !.loading = l] /\ other = [one EXCEPT !.error = e] /\ three = [other EXCEPT !.shown = s]
  OBVIOUS
<1>4. PICK four, five : four = [pg EXCEPT !.shown = s] /\ five = [four EXCEPT !.loading = l]
  OBVIOUS
<1>5. PICK six, seven : six = [pg EXCEPT !.error = e] /\ seven = [six EXCEPT !.loading = l]
  OBVIOUS
<1>6. Kept(other) /\ Kept(three) /\ Kept(five) /\ Kept(seven)
  BY <1>1, <1>2, <1>3, <1>4, <1>5, Zenon
<1>7. /\ other = [pg EXCEPT !.loading = l, !.error = e]
      /\ three = [pg EXCEPT !.loading = l, !.error = e, !.shown = s]
      /\ five = [pg EXCEPT !.shown = s, !.loading = l]
      /\ seven = [pg EXCEPT !.error = e, !.loading = l]
  BY <1>3, <1>4, <1>5, Zenon
<1> QED
  BY <1>6, <1>7, Zenon DEF Kept

LEMMA MyRostersAlive ==
    ASSUME NEW pg, IsMyRosters(pg), NEW u
    PROVE  IsMyRosters(MyRostersFor(pg, u)) /\ MyRostersFor(pg, u).alive = pg.alive
<1>1. CASE ~pg.alive
  BY <1>1 DEF MyRostersFor
<1>2. CASE pg.alive
  <2>1. PICK off, calm, empty :
          /\ off = [pg EXCEPT !.loading = FALSE] /\ calm = [off EXCEPT !.error = FALSE]
          /\ empty = [calm EXCEPT !.shown = << >>]
    OBVIOUS
  <2>2. PICK on, asking : on = [pg EXCEPT !.loading = TRUE] /\ asking = [on EXCEPT !.error = FALSE]
    OBVIOUS
  <2>3. IsMyRosters(off) /\ off.alive = pg.alive
    BY <2>1, MyRostersFieldSet DEF IsMyRosters
  <2>4. IsMyRosters(calm) /\ calm.alive = pg.alive
    BY <2>1, <2>3, MyRostersFieldSet DEF IsMyRosters
  <2>5. IsMyRosters(empty) /\ empty.alive = pg.alive
    BY <2>1, <2>4, MyRostersFieldSet DEF IsMyRosters
  <2>6. IsMyRosters(on) /\ on.alive = pg.alive
    BY <2>2, MyRostersFieldSet DEF IsMyRosters
  <2>7. IsMyRosters(asking) /\ asking.alive = pg.alive
    BY <2>2, <2>6, MyRostersFieldSet DEF IsMyRosters
  <2>8. MyRostersFor(pg, u) = empty \/ MyRostersFor(pg, u) = asking
    BY <1>2, <2>1, <2>2, Zenon DEF MyRostersFor
  <2> QED
    BY <2>5, <2>7, <2>8
<1> QED
  BY <1>1, <1>2

LEMMA OpenedRostersAlive ==
    ASSUME NEW u
    PROVE  /\ IsMyRosters(MyRostersFor([ClosedMyRosters EXCEPT !.alive = TRUE], u))
           /\ MyRostersFor([ClosedMyRosters EXCEPT !.alive = TRUE], u).alive
<1>1. PICK pg : pg = [ClosedMyRosters EXCEPT !.alive = TRUE]
  OBVIOUS
<1>2. IsMyRosters(ClosedMyRosters)
  BY DEF IsMyRosters, ClosedMyRosters
<1>3. IsMyRosters(pg) /\ pg.alive
  BY <1>1, <1>2, MyRostersFieldSet DEF IsMyRosters
<1>4. IsMyRosters(MyRostersFor(pg, u)) /\ MyRostersFor(pg, u).alive
  BY <1>3, MyRostersAlive
<1> QED
  BY <1>1, <1>4

LEMMA RosterPagesKept ==
    ASSUME RosterPages, [Next]_vars
    PROVE  /\ RosterPages'
           /\ \A t \in Tabs : StaysAlive(myRosters[t], myRosters'[t], t)
           /\ \A t \in Tabs : ShowMyRosters(t) => myRosters'[t].alive
<1> DEFINE Goal == RosterPages' /\ \A t \in Tabs : StaysAlive(myRosters[t], myRosters'[t], t)
<1>1. ASSUME UNCHANGED myRosters PROVE Goal
  BY <1>1 DEF RosterPages, StaysAlive
<1>2. ASSUME NEW t \in Tabs, NEW new, myRosters' = [myRosters EXCEPT ![t] = new],
             IsMyRosters(new), StaysAlive(myRosters[t], new, t)
      PROVE  Goal
  <2>1. myRosters' = [q \in Tabs |-> myRosters'[q]]
    BY <1>2 DEF RosterPages
  <2>2. ASSUME NEW q \in Tabs
        PROVE  IsMyRosters(myRosters'[q]) /\ StaysAlive(myRosters[q], myRosters'[q], q)
    <3>1. CASE q = t
      <4>1. myRosters'[q] = new
        BY <1>2, <3>1 DEF RosterPages
      <4> QED
        BY <1>2, <3>1, <4>1
    <3>2. CASE q # t
      <4>1. myRosters'[q] = myRosters[q]
        BY <1>2, <3>2 DEF RosterPages
      <4> QED
        BY <4>1 DEF RosterPages, StaysAlive
    <3> QED
      BY <3>1, <3>2
  <2>3. \A q \in Tabs : IsMyRosters(myRosters[q])'
    BY <2>2 DEF IsMyRosters
  <2> QED
    BY <2>1, <2>2, <2>3 DEF RosterPages
\* One tab's page becomes another, alive if it was.
<1>3. ASSUME NEW t \in Tabs, NEW new, myRosters' = [myRosters EXCEPT ![t] = new],
             IsMyRosters(new), new.alive = myRosters[t].alive
      PROVE  Goal
  BY <1>2, <1>3 DEF StaysAlive
<1> HIDE DEF Goal
<1>4. ASSUME NEW t \in Tabs, ShowMyRosters(t) PROVE Goal /\ myRosters'[t].alive
  <2>1. CASE myRosters[t].alive
    <3>1. UNCHANGED myRosters
      BY <1>4, <2>1 DEF ShowMyRosters
    <3> QED
      BY <1>1, <2>1, <3>1 DEF Goal
  <2>2. CASE ~myRosters[t].alive
    <3>1. PICK new : new = MyRostersFor([ClosedMyRosters EXCEPT !.alive = TRUE], Account(t))
      OBVIOUS
    <3>2. myRosters' = [myRosters EXCEPT ![t] = new]
      BY <1>4, <2>2, <3>1 DEF ShowMyRosters
    <3>3. IsMyRosters(new) /\ new.alive
      BY <3>1, OpenedRostersAlive
    <3>4. myRosters'[t] = new
      BY <3>2 DEF RosterPages
    <3> QED
      BY <1>2, <3>2, <3>3, <3>4 DEF StaysAlive
  <2> QED
    BY <2>1, <2>2
<1>5. ASSUME NEW t \in Tabs, Retry(t) PROVE Goal
  <2>1. PICK new : new = MyRostersFor(myRosters[t], Account(t))
    OBVIOUS
  <2>2. myRosters' = [myRosters EXCEPT ![t] = new]
    BY <1>5, <2>1, Zenon DEF RosterPages, Retry
  <2>3. IsMyRosters(new) /\ new.alive = myRosters[t].alive
    BY <2>1, MyRostersAlive DEF RosterPages
  <2> QED
    BY <1>3, <2>2, <2>3
<1>6. ASSUME NEW t \in Tabs, NEW c \in calls, RostersListed(t, c) \/ RostersNotListed(t, c) PROVE Goal
  <2>1. PICK one, other : /\ one = [myRosters[t] EXCEPT !.shown = c.reply.listed, !.loading = FALSE]
                          /\ other = [myRosters[t] EXCEPT !.error = TRUE, !.loading = FALSE]
    OBVIOUS
  <2>2. PICK new \in {one, other} : myRosters' = [myRosters EXCEPT ![t] = new]
    <3>1. CASE RostersListed(t, c)
      BY <2>1, <3>1, Zenon DEF RosterPages, RostersListed
    <3>2. CASE RostersNotListed(t, c)
      BY <2>1, <3>2, Zenon DEF RosterPages, RostersNotListed
    <3> QED
      BY <1>6, <3>1, <3>2
  <2>3. IsMyRosters(myRosters[t])
    BY DEF RosterPages
  <2>4. /\ IsMyRosters(one) /\ one.alive = myRosters[t].alive
        /\ IsMyRosters(other) /\ other.alive = myRosters[t].alive
    BY <2>1, <2>3, MyRostersChanged, Zenon
  <2> QED
    BY <1>3, <2>2, <2>4
<1>7. ASSUME NEW t \in Tabs, NEW u, Session(t, u) PROVE Goal
  <2>1. PICK new : new = MyRostersThen(t, u)
    OBVIOUS
  <2>2. myRosters' = [myRosters EXCEPT ![t] = new]
    BY <1>7, <2>1 DEF Session
  <2>3. IsMyRosters(new) /\ new.alive = myRosters[t].alive
    BY <2>1, MyRostersAlive DEF RosterPages, MyRostersThen
  <2> QED
    BY <1>3, <2>2, <2>3
<1>8. ASSUME NEW t \in Tabs, Close(t) \/ Reload(t), myRosters' = [myRosters EXCEPT ![t] = ClosedMyRosters]
      PROVE  Goal
  <2>1. IsMyRosters(ClosedMyRosters)
    BY DEF IsMyRosters, ClosedMyRosters
  <2> QED
    BY <1>2, <1>8, <2>1 DEF StaysAlive
<1>9. Goal
  <2>1. CASE UNCHANGED myRosters
    BY <1>1, <2>1 DEF Goal
  <2> QED
    BY <1>4, <1>5, <1>6, <1>7, <1>8, <2>1, MyRostersSteps
<1> QED
  BY <1>4, <1>9 DEF Goal

LEMMA ListsShapedKept ==
    ASSUME WellTyped, ListsShaped, [Next]_vars
    PROVE  ListsShaped'
<1>1. view \in [Tabs -> AllViews]
  BY DEF WellTyped, BrowsersTyped, AllViews
<1>2. ASSUME NEW t \in Tabs, Close(t) \/ Reload(t) PROVE view'[t] \notin Views
  <2>1. CASE Close(t)
    BY <1>1, <2>1 DEF Close, Views
  <2>2. CASE Reload(t)
    BY <1>1, <2>2 DEF Reload, Views, LoginViews
  <2> QED
    BY <1>2, <2>1, <2>2
<1>3. ASSUME NEW t \in Tabs, view'[t] = "myGames" PROVE myGames'[t].alive
  <2>1. view[t] = "myGames" \/ ShowMyGames(t)
    BY <1>3, ViewKept DEF Opens, Views
  <2>2. ~(Close(t) \/ Reload(t))
    BY <1>2, <1>3 DEF Views
  <2> QED
    BY <2>1, <2>2, GamesPagesKept DEF ListsShaped, ListsInView, Shows, StaysAlive
<1>4. ASSUME NEW t \in Tabs, view'[t] = "rosters" PROVE myRosters'[t].alive
  <2>1. view[t] = "rosters" \/ ShowMyRosters(t)
    BY <1>4, ViewKept DEF Opens, Views
  <2>2. ~(Close(t) \/ Reload(t))
    BY <1>2, <1>4 DEF Views
  <2> QED
    BY <2>1, <2>2, RosterPagesKept DEF ListsShaped, ListsInView, Shows, StaysAlive
<1> QED
  BY <1>3, <1>4, GamesPagesKept, RosterPagesKept DEF ListsShaped, ListsInView, Shows

LEMMA ListsShapedInvariant == Spec => []ListsShaped
<1>1. ASSUME Init PROVE ListsShaped
  <2>1. PICK s \in Scenarios : BrowserInit(s.auth, s.plan, FormerTaps(s.games)) /\ MyListsInit
    BY <1>1 DEF Init
  <2>2. /\ view = [t \in Tabs |-> "elsewhere"]
        /\ myGames = [t \in Tabs |-> ClosedMyGames] /\ myRosters = [t \in Tabs |-> ClosedMyRosters]
    BY <2>1 DEF BrowserInit, MyListsInit
  <2>3. IsMyGames(ClosedMyGames) /\ IsMyRosters(ClosedMyRosters)
    BY DEF IsMyGames, IsMyRosters, ClosedMyGames, ClosedMyRosters
  <2> QED
    BY <2>2, <2>3 DEF ListsShaped, GamesPages, RosterPages, ListsInView, Shows
<1>2. ReportedInv /\ ListsShaped /\ [Next]_vars => ListsShaped'
  BY ListsShapedKept DEF ReportedInv
<1> QED
  BY <1>1, <1>2, ReportedInvariant, PTL DEF Spec

-----------------------------------------------------------------------------
(***************************************************************************)
(* What follows from it.                                                   *)
(***************************************************************************)

\* Whatever is tapped, lost or closed: records, calls, drafts and pages are well formed, and
\* the page that a tab shows is alive, settings of a game that is there.
THEOREM TypeCorrect == Spec => []TypeOK
<1>1. ASSUME ReportedInv, ListsShaped PROVE TypeOK
  <2>1. RecordsTyped /\ BrowsersTyped /\ PagesTyped
    BY <1>1 DEF ReportedInv, WellTyped
  <2>2. ASSUME NEW t \in Tabs
        PROVE  /\ newGame[t].form \in NewGameForms
               /\ organize[t].entered \in OrganizeForms
               /\ settings[t].form \in [SettingsFields -> Texts]
    <3>1. newGame[t] \in NewGames /\ organize[t] \in Organizes /\ settings[t] \in SettingsPagesSet
      BY <2>1 DEF PagesTyped, NewGameTyped, OrganizeTyped, SettingsTyped
    <3> QED
      BY <3>1 DEF NewGames, Organizes, SettingsPagesSet, SettingsForms
  <2>3. ASSUME NEW t \in Tabs
        PROVE  /\ Shows(t, "newGame") => newGame[t].alive
               /\ Shows(t, "organize") => organize[t].alive
               /\ Shows(t, "settings") => settings[t].alive /\ settings[t].game \in DOMAIN games
               /\ Shows(t, "myGames") => myGames[t].alive
               /\ Shows(t, "rosters") => myRosters[t].alive
               /\ Shows(t, "board") => board[t].alive
    BY <1>1, <2>1 DEF PagesTyped, NewGameTyped, OrganizeTyped, SettingsInView, BoardTyped, ReportedInv,
                      SettingsFound, ListsShaped, ListsInView, Shows
  <2>4. ASSUME NEW c \in calls PROVE c \in Calls({c.reply.listed})
    <3>1. PICK ids : CallsTyped(ids)
      BY <1>1 DEF ReportedInv, WellTyped
    <3>2. c \in CallsOf(ids)
      BY <3>1 DEF CallsTyped
    <3>3. SentBodies \subseteq Bodies
      BY DEF SentBodies, Bodies
    <3>4. c.reply \in Replies({c.reply.listed})
      BY <3>2 DEF CallsOf, Replies
    <3> QED
      BY <3>2, <3>3, <3>4 DEF CallsOf, Calls
  <2>5. /\ newGameDraft \in [Devices -> NewGameForms \cup {NoDraft}]
        /\ organizeDraft \in [Devices -> OrganizeForms \cup {NoDraft}]
    BY <2>1 DEF PagesTyped, NewGameTyped, OrganizeTyped
  <2> QED
    BY <2>1, <2>2, <2>3, <2>4, <2>5 DEF TypeOK, RecordsTyped, BrowsersTyped
<1> QED
  BY <1>1, ReportedInvariant, ListsShapedInvariant, PTL

\* No game and no organized game comes of anything but one tap on Create: its organizer is
\* the account that tapped, it says what the form showed then, and the page that was tapped
\* is busy with it, unless the outcome was shown or the page is gone.
THEOREM GamesAreReportedHolds == Spec => []GamesAreReported
<1>1. ASSUME ReportedInv PROVE GamesAreReported
  <2>1. Waiting /\ RecordsFine
    BY <1>1 DEF ReportedInv
  <2>2. ASSUME NEW i \in DOMAIN games PROVE \E tap \in taps : GameReported(i, tap)
    <3>1. PICK tap \in taps :
            /\ tap.op = "createGame" /\ <<tap.from, tap.no>> = games[i].tap
            /\ tap.user = games[i].createdBy /\ tap.form["names"] = games[i].about
            /\ StartsAt(tap.form, games[i].schedule) \/ SettingsTapped(i)
      BY <2>1 DEF RecordsFine, GameAsked
    <3>2. ~tap.over => newGame[tap.from].awaits = tap.no /\ newGame[tap.from].submitting
      BY <2>1, <3>1 DEF Waiting
    <3> QED
      BY <3>1, <3>2 DEF GameReported
  <2>3. ASSUME NEW i \in DOMAIN rosters, rosters[i].tap[2] # 0
        PROVE  \E tap \in taps : RosterReported(i, tap)
    <3>1. PICK tap \in taps :
            /\ tap.op = "createGameInvite" /\ <<tap.from, tap.no>> = rosters[i].tap
            /\ tap.user = rosters[i].organizer /\ tap.form.form["team"] = rosters[i].about
            /\ tap.form.rows = rosters[i].rows
            /\ StartsAt(tap.form.form, rosters[i].schedule)
      BY <2>1, <2>3 DEF RecordsFine, RosterAsked
    <3>2. ~tap.over => organize[tap.from].awaits = tap.no /\ organize[tap.from].submitting
      BY <2>1, <3>1 DEF Waiting
    <3> QED
      BY <3>1, <3>2 DEF RosterReported
  <2> QED
    BY <2>1, <2>2, <2>3 DEF GamesAreReported, RecordsFine
<1> QED
  BY <1>1, ReportedInvariant, PTL

\* A page that tells of a success tells the truth, and goes on doing so: the game is
\* there, the settings are the game's until another tap on Save, the follower follows.
THEOREM WhatIsToldIsSoHolds == Spec => []WhatIsToldIsSo
<1>1. ReportedInv => WhatIsToldIsSo
  BY DEF ReportedInv, ToldFine, WhatIsToldIsSo
<1> QED
  BY <1>1, ReportedInvariant, PTL
=============================================================================
