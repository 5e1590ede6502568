----------------------------- MODULE Organizing -----------------------------
(***************************************************************************)
(* How games come to be and are found again: the pages that draft, create, *)
(* set up and list games, in the tabs of one or more browsers, and the     *)
(* backend's records, over a network that loses requests and answers.      *)
(* Signing in and out, reloading and going from page to page may happen at *)
(* any time.                                                               *)
(***************************************************************************)
EXTENDS NewGame, OrganizeGame, GameSettings, MyLists

CONSTANT Scenarios  \* bounds: the plans to run, each with what there is to begin with

pages == <<newGameVars, organizeVars, settings, myListsVars>>

vars == <<backend, client, pages>>

ASSUME OrganizingAssumption ==
    /\ MaxRows \in Nat
    /\ NoDraft \notin NewGameForms \cup OrganizeForms
    /\ \A s \in Scenarios :
          /\ s.plan \in [Tabs -> TabPlans]
          /\ s.auth \in [Devices -> Users \cup {Nobody}]
          /\ s.games \in Seq(Games) /\ s.rosters \in Seq(Rosters)
          \* games from before stem from a tap each, numbered above every budget
          /\ \A i \in DOMAIN s.games :
                /\ s.games[i].tap[2] > s.plan[s.games[i].tap[1]].calls
                /\ \A j \in DOMAIN s.games : s.games[i].tap = s.games[j].tap => i = j
          /\ \A i \in DOMAIN s.rosters : s.rosters[i].tap[2] = 0   \* of no known tap
          /\ s.newGame \in NewGameForms \cup {NoDraft}
          /\ \/ s.organize = NoDraft
             \/ /\ s.organize \in OrganizeForms
                /\ Drafted(s.organize) = s.organize  \* as the page saved it

Init ==
    \E s \in Scenarios :
        /\ RecordsInit(s.games, s.rosters)
        /\ BrowserInit(s.auth, s.plan, FormerTaps(s.games))
        /\ NewGameInit(s.newGame)
        /\ OrganizeInit(s.organize)
        /\ SettingsInit
        /\ MyListsInit

(***************************************************************************)
(* Going from page to page.                                                *)
(***************************************************************************)

\* From the menu, a link or the address bar.
Visit(t) ==
    \/ /\ "newGame" \in plan[t].views /\ ~Shows(t, "newGame")
       /\ ShowNewGame(t)
       /\ UNCHANGED <<auth, session, plan, taps, calls, organizeVars, settings, myListsVars>>
    \/ /\ "organize" \in plan[t].views /\ ~Shows(t, "organize")
       /\ ShowOrganize(t)
       /\ UNCHANGED <<auth, session, plan, taps, calls, newGameVars, settings, myListsVars>>
    \/ /\ "myGames" \in plan[t].views /\ ~Shows(t, "myGames")
       /\ Account(t) # Nobody    \* the route is guarded
       /\ ShowMyGames(t)
       /\ UNCHANGED <<newGameVars, organizeVars, settings>>
    \/ /\ "rosters" \in plan[t].views /\ ~Shows(t, "rosters")
       /\ ShowMyRosters(t)
       /\ UNCHANGED <<newGameVars, organizeVars, settings>>
    \/ /\ "board" \in plan[t].views
       /\ \E target \in Targets : ShowBoard(t, target)
       /\ UNCHANGED <<newGameVars, organizeVars, settings>>

\* The new game's settings, after it was created; the route's guard sends who has
\* signed out meanwhile elsewhere.
Land(t, c) ==
    /\ NewGameLeft(t, c)
    /\ IF Account(t) # Nobody /\ MayCall(t)
       THEN /\ calls' = (calls \ {c}) \cup
                        {CallOf(t, "getGame", Account(t), [EmptyBody EXCEPT !.target = c.reply.id])}
            /\ plan' = [plan EXCEPT ![t].calls = @ - 1]
            /\ view' = [view EXCEPT ![t] = "settings"]
            /\ settings' = SettingsOpened(t, c.reply.id, plan[t].calls)
       ELSE /\ Takes(c)
            /\ view' = [view EXCEPT ![t] = "elsewhere"]
            /\ UNCHANGED <<plan, settings>>
    /\ UNCHANGED <<auth, session, taps, organizeVars, myListsVars>>

\* Calls whose answers would only be shown by the page that made them.
OwnCalls(t, ops) == {c \in calls : c.from = t /\ c.op \in ops}

\* Back: the page shown is destroyed.  What create() does with its answer it does
\* even so.
Close(t) ==
    /\ view[t] \in Views
    /\ view' = [view EXCEPT ![t] = "elsewhere"]
    /\ newGame' = IF Shows(t, "newGame") THEN [newGame EXCEPT ![t] = ClosedNewGame] ELSE newGame
    /\ organize' = IF Shows(t, "organize") THEN [organize EXCEPT ![t] = ClosedOrganize] ELSE organize
    /\ settings' = IF Shows(t, "settings") THEN [settings EXCEPT ![t] = ClosedSettings] ELSE settings
    /\ myGames' = IF Shows(t, "myGames") THEN [myGames EXCEPT ![t] = ClosedMyGames] ELSE myGames
    /\ myRosters' = IF Shows(t, "rosters") THEN [myRosters EXCEPT ![t] = ClosedMyRosters] ELSE myRosters
    /\ board' = IF Shows(t, "board") THEN [board EXCEPT ![t] = ClosedBoard] ELSE board
    /\ taps' = LET awaits == IF Shows(t, "newGame") THEN newGame[t].awaits
                         ELSE IF Shows(t, "organize") THEN organize[t].awaits ELSE 0
              IN  Over(t, {awaits})
    /\ calls' = Unheard(OwnCalls(t, CASE Shows(t, "settings") -> {"getGame", "updateGame"}
                                      [] Shows(t, "rosters") -> {"listMyGameInvites"}
                                      [] Shows(t, "board") -> {"follow"}
                                      [] OTHER -> {}))
    /\ UNCHANGED <<auth, session, plan, newGameDraft, newGameEntered, organizeDraft, organizeEntered>>

\* The tab is reloaded, as it is by a sign-in that redirects: all its pages are gone,
\* and whatever they were waiting for; who is signed in is read again.
Reload(t) ==
    /\ plan[t].reloads
    /\ newGame' = [newGame EXCEPT ![t] = ClosedNewGame]
    /\ organize' = [organize EXCEPT ![t] = ClosedOrganize]
    /\ settings' = [settings EXCEPT ![t] = ClosedSettings]
    /\ myGames' = [myGames EXCEPT ![t] = ClosedMyGames]
    /\ myRosters' = [myRosters EXCEPT ![t] = ClosedMyRosters]
    /\ board' = [board EXCEPT ![t] = ClosedBoard]
    /\ view' = [view EXCEPT ![t] = IF @ \in LoginViews THEN @ ELSE "elsewhere"]
    /\ taps' = {IF tap.from = t THEN [tap EXCEPT !.over = TRUE] ELSE tap : tap \in taps}
    /\ calls' = Unheard({c \in calls : c.from = t})
    /\ session' = [session EXCEPT ![t] = auth[DeviceOf[t]]]
    /\ UNCHANGED <<auth, plan, newGameDraft, newGameEntered, organizeDraft, organizeEntered>>

(***************************************************************************)
(* Signing in and out.  A browser has one account for all its tabs.        *)
(***************************************************************************)

\* The tab takes this account for signed in, and the lists on its pages follow.
Session(t, u) ==
    /\ session' = [session EXCEPT ![t] = u]
    /\ myGames' = [myGames EXCEPT ![t] = MyGamesFor(@, u)]
    /\ myRosters' = [myRosters EXCEPT ![t] = MyRostersThen(t, u)]
    /\ IF Asks(t, u)
       THEN /\ MayCall(t)
            /\ calls' = calls \cup {CallOf(t, "listMyGameInvites", u, EmptyBody)}
            /\ plan' = [plan EXCEPT ![t].calls = @ - 1]
       ELSE UNCHANGED <<calls, plan>>
    /\ UNCHANGED <<view, taps, board, newGameVars, organizeVars, settings>>

\* The login page is open to who is signed in, too: an account may follow another.
SignIn(t, u) ==
    /\ view[t] \in LoginViews /\ u \in plan[t].users \ {Account(t)}
    /\ auth' = [auth EXCEPT ![DeviceOf[t]] = u]
    /\ Session(t, u)

SignOut(t) ==
    /\ Account(t) # Nobody /\ plan[t].users # {}
    /\ auth' = [auth EXCEPT ![DeviceOf[t]] = Nobody]
    /\ Session(t, Nobody)

\* The other tabs of the browser hear of it later, and maybe not of every change.
Learn(t) ==
    /\ auth[DeviceOf[t]] # Account(t)
    /\ Session(t, auth[DeviceOf[t]])
    /\ UNCHANGED auth

\* The login page returns to the page that it was reached from, signed in or not.
Return(t) ==
    \/ /\ Shows(t, "loginForNewGame") /\ ShowNewGame(t)
       /\ UNCHANGED <<auth, session, plan, taps, calls, organizeVars, settings, myListsVars>>
    \/ /\ Shows(t, "loginForOrganize") /\ ShowOrganize(t)
       /\ UNCHANGED <<auth, session, plan, taps, calls, newGameVars, settings, myListsVars>>
    \/ /\ Shows(t, "loginForRosters") /\ ShowMyRosters(t)
       /\ UNCHANGED <<newGameVars, organizeVars, settings>>

(***************************************************************************)
(* All together.                                                           *)
(***************************************************************************)

Serving ==
    /\ \E c \in calls : Serve(c)
    /\ UNCHANGED <<client, pages>>

Failing ==
    /\ \E c \in calls : Lose(c) \/ GiveUp(c)
    /\ UNCHANGED <<client, pages>>

TakingPart ==
    /\ \E u \in Users, i \in DOMAIN rosters : TakePart(u, i)
    /\ UNCHANGED <<client, pages>>

\* What the user does on the page shown.
Using ==
    /\ \E t \in Tabs :
          \/ NewGameUser(t) /\ UNCHANGED <<organizeVars, settings, myListsVars>>
          \/ OrganizeUser(t) /\ UNCHANGED <<newGameVars, settings, myListsVars>>
          \/ /\ SettingsUser(t) /\ "settings" \in plan[t].views
             /\ UNCHANGED <<newGameVars, organizeVars, myListsVars>>
          \/ MyListsUser(t) /\ UNCHANGED <<newGameVars, organizeVars, settings>>
    /\ UNCHANGED <<games, rosters, participants, follows>>

Going ==
    /\ \/ \E t \in Tabs : Visit(t) \/ Close(t) \/ Reload(t) \/ Return(t)
       \/ \E t \in Tabs, u \in Users : SignIn(t, u)
       \/ \E t \in Tabs : SignOut(t) \/ Learn(t)
    /\ UNCHANGED <<games, rosters, participants, follows>>

\* What the pages do with answers.
Receiving ==
    /\ \E t \in Tabs :
          \/ /\ \E c \in calls : NewGameCreated(t, c) \/ NewGameFails(t, c)
             /\ UNCHANGED <<organizeVars, settings, myListsVars>>
          \/ \E c \in calls : Land(t, c)
          \/ /\ \E c \in calls : Organized(t, c) \/ OrganizeFails(t, c)
             /\ UNCHANGED <<newGameVars, settings, myListsVars>>
          \/ /\ \E c \in calls : SettingsReceive(t, c)
             /\ UNCHANGED <<newGameVars, organizeVars, myListsVars>>
          \/ MyListsReceive(t) /\ UNCHANGED <<newGameVars, organizeVars, settings>>
    /\ UNCHANGED <<games, rosters, participants, follows>>

\* The database keeps the watched queries up to date.
Watching ==
    /\ \E t \in Tabs, u \in Users : Snapshot(t, u)
    /\ UNCHANGED <<games, rosters, participants, follows, newGameVars, organizeVars, settings>>

Next == Serving \/ Failing \/ TakingPart \/ Using \/ Going \/ Receiving \/ Watching

Spec == Init /\ [][Next]_vars

\* Calls are served or fail, and the pages take the answers.  Nobody is assumed to
\* tap anything.
FairSpec == Spec /\ WF_vars(Serving) /\ WF_vars(Receiving) /\ WF_vars(Watching)

(***************************************************************************)
(* Properties.                                                             *)
(***************************************************************************)

\* Every record, call, draft and page is well formed, and the page that a tab shows is
\* alive.
TypeOK ==
    /\ games \in Seq(Games)
    /\ rosters \in Seq(Rosters)
    /\ participants \subseteq Users \X DOMAIN rosters
    /\ follows \subseteq Users \X Targets
    /\ \A c \in calls : c \in Calls({c.reply.listed})
    /\ auth \in [Devices -> Users \cup {Nobody}]
    /\ session \in [Tabs -> Users \cup {Nobody}]
    /\ view \in [Tabs -> Views \cup LoginViews \cup {"elsewhere"}]
    /\ plan \in [Tabs -> TabPlans]
    /\ newGameDraft \in [Devices -> NewGameForms \cup {NoDraft}]
    /\ organizeDraft \in [Devices -> OrganizeForms \cup {NoDraft}]
    /\ \A t \in Tabs :
          /\ newGame[t].form \in NewGameForms
          /\ organize[t].entered \in OrganizeForms
          /\ settings[t].form \in [SettingsFields -> Texts]
          /\ Shows(t, "newGame") => newGame[t].alive
          /\ Shows(t, "organize") => organize[t].alive
          /\ Shows(t, "settings") => settings[t].alive /\ settings[t].game \in DOMAIN games
          /\ Shows(t, "myGames") => myGames[t].alive
          /\ Shows(t, "rosters") => myRosters[t].alive
          /\ Shows(t, "board") => board[t].alive

\* Nobody finds a game of theirs that they did not ask for: a game stems from one tap on
\* Create, no two from the same; the account that tapped is its organizer; it is called
\* what the form showed then and starts when the form said, if date and time were both
\* filled in and its settings were not saved since.  The outcome of that tap was shown,
\* or the page is gone, or still there and busy with it.
StartsAt(form, schedule) ==
    \/ form["date"] # Blank /\ form["time"] # Blank /\ schedule = <<form["date"], form["time"]>>
    \/ (form["date"] = Blank \/ form["time"] = Blank) /\ schedule = Unset

SettingsTapped(i) == \E tap \in taps : tap.op = "updateGame" /\ tap.shown.target = i

GameReported(i, tap) ==
    /\ tap.op = "createGame" /\ <<tap.from, tap.no>> = games[i].tap
    /\ tap.user = games[i].createdBy
    /\ tap.form["names"] = games[i].about
    /\ StartsAt(tap.form, games[i].schedule) \/ SettingsTapped(i)
    /\ ~tap.over => newGame[tap.from].awaits = tap.no /\ newGame[tap.from].submitting

\* An organized game has the roster that was shown, besides.
RosterReported(i, tap) ==
    /\ tap.op = "createGameInvite" /\ <<tap.from, tap.no>> = rosters[i].tap
    /\ tap.user = rosters[i].organizer
    /\ tap.form.form["team"] = rosters[i].about
    /\ tap.form.rows = rosters[i].rows
    /\ StartsAt(tap.form.form, rosters[i].schedule)
    /\ ~tap.over => organize[tap.from].awaits = tap.no /\ organize[tap.from].submitting

GamesAreReported ==
    /\ \A i \in DOMAIN games :
          /\ \E tap \in taps : GameReported(i, tap)
          /\ \A j \in DOMAIN games : games[i].tap = games[j].tap => i = j
    /\ \A i \in DOMAIN rosters :
          rosters[i].tap[2] # 0 =>
             /\ \E tap \in taps : RosterReported(i, tap)
             /\ \A j \in DOMAIN rosters : rosters[i].tap = rosters[j].tap => i = j

\* Entered otherwise than when the game is to be repeated, which is not saved then.
AsLeft(shown, entered) ==
    /\ shown.rows = entered.rows
    /\ \A f \in OrganizeFields :
          \/ shown.form[f] = entered.form[f]
          \/ f = "weekly" /\ entered.form["repeats"] = Blank /\ shown.form[f] = Blank

\* What is entered anonymously survives the detour through the login page, a reload
\* and a failed attempt to create: a page that starts anew shows exactly what was
\* entered last in this browser, in whatever tab, and not created since.  The one thing
\* that loses it is a game created from other input (see DraftKept).  A player's row that
\* is typed but not added yet is no part of the draft (the effect does not read it), and
\* so no part of what is said here.
RoundTripKeepsInput ==
    [][\A t \in Tabs :
          LET game == newGameEntered[DeviceOf[t]]
              organized == organizeEntered[DeviceOf[t]]
          IN  /\ newGame'[t].alive /\ ~newGame[t].alive =>
                    newGame'[t].form = IF game.lost THEN BlankNewGame ELSE game.form
              /\ organize'[t].alive /\ ~organize[t].alive =>
                    AsLeft(organize'[t].entered, IF organized.lost THEN BlankOrganize ELSE organized.entered)]_vars

\* spec/features/anon-first-new-game/README.md, of the draft of a new game: changes to its
\* fields are persisted, and the form is rehydrated so that the user resumes where they
\* left off.
DraftKept ==
    [][\A t \in Tabs :
          newGame'[t].alive /\ ~newGame[t].alive =>
             newGame'[t].form = newGameEntered[DeviceOf[t]].form]_vars

\* A game's settings are those it was created with, or those that its organizer's
\* form showed at one tap on Save: never a mix of two, and never anybody else's.
SettingsFromOneForm ==
    \A i \in DOMAIN games :
        \E tap \in taps :
            /\ tap.user = games[i].createdBy
            /\ tap.shown.schedule = games[i].schedule
            /\ tap.shown.location = games[i].location
            /\ \/ tap.op = "updateGame" /\ tap.shown.target = i
               \/ tap.op = "createGame" /\ <<tap.from, tap.no>> = games[i].tap

\* Whatever comes into the list of created games was created by the account that is
\* signed in then, through every change of account and however late an answer comes; and
\* nothing is listed for nobody.  (That the list of the account before is replaced in the
\* end is part of EveryTapSettles.)
OwnGamesShown ==
    [][\A t \in Tabs :
          /\ myGames'[t].shown # myGames[t].shown =>
                \A i \in myGames'[t].shown : games[i].createdBy = session'[t]
          /\ session'[t] = Nobody => myGames'[t].shown = {}]_vars

\* The settings that a tap on Save showed are the game's, or another tap's may have
\* replaced them.
Saved(tap) ==
    \/ /\ tap.shown.schedule = games[tap.shown.target].schedule
       /\ tap.shown.location = games[tap.shown.target].location
    \/ \E other \in taps : /\ other.op = "updateGame" /\ other.shown.target = tap.shown.target
                           /\ <<other.from, other.no>> # <<tap.from, tap.no>>

\* A success that is shown is one: the game of that tap is there, the settings were
\* saved and stay so until another tap on Save, the follower is recorded.
WhatIsToldIsSo ==
    \A t \in Tabs :
        /\ newGame[t].told = "created" =>
              \E i \in DOMAIN games : games[i].tap = <<t, newGame[t].awaits>>
        /\ organize[t].told = "created" =>
              \E i \in DOMAIN rosters : rosters[i].tap = <<t, organize[t].awaits>>
        /\ settings[t].told = "saved" =>
              \E tap \in taps : /\ tap.op = "updateGame" /\ tap.shown.target = settings[t].game
                                /\ tap.from = t /\ tap.no = settings[t].awaits
                                /\ Saved(tap)
        /\ board[t].status = "following" => <<board[t].user, board[t].target>> \in follows

\* Every tap on Create or Save comes to an end, and so does the loading of a list, and a
\* list of created games comes to be that of the account that is signed in: as the calls
\* are bounded, there is always a later state in which no page waits.
AtRest ==
    \A t \in Tabs :
        /\ ~newGame[t].submitting /\ ~organize[t].submitting /\ ~settings[t].submitting
        /\ myRosters[t].alive => ~myRosters[t].loading
        /\ myGames[t].alive => ~myGames[t].loading /\ myGames[t].shown = CreatedBy(Account(t))

EveryTapSettles == []<>AtRest
=============================================================================
