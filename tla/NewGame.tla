------------------------------ MODULE NewGame ------------------------------
(***************************************************************************)
(* The new-game page (new-game/new-game-page.component.ts) and its draft   *)
(* (new-game-draft.ts): a form that anybody may fill in, saved on every    *)
(* change under one key of the browser, and a button that creates the game *)
(* for who is signed in and sends others through the login page first.     *)
(* The two team names and colours are one field; the venue and the         *)
(* competition, which only the draft has, are left out.                    *)
(***************************************************************************)
EXTENDS Browser

VARIABLES
    newGame,        \* the page in each tab
    newGameDraft,   \* localStorage, in each browser
    newGameEntered  \* history: what was entered last in each browser and not created since, and
                    \* whether it was lost: a create dropped the draft that held it

newGameVars == <<newGame, newGameDraft, newGameEntered>>

NewGameFields == {"sport", "names", "date", "time", "roles"}

NewGameForms == [NewGameFields -> Texts]

BlankNewGame == [f \in NewGameFields |-> Blank]

ClosedNewGame ==
    [alive |-> FALSE, form |-> BlankNewGame, submitting |-> FALSE, awaits |-> 0, told |-> "nothing"]

\* A faulty constructor: the roles of the draft are not restored.
RestoredWithoutRoles(draft) ==
    IF draft = NoDraft THEN BlankNewGame ELSE [draft EXCEPT !["roles"] = Blank]

Restored(draft) == IF draft = NoDraft THEN BlankNewGame ELSE draft

NewGameInit(someDraft) ==
    /\ newGame = [t \in Tabs |-> ClosedNewGame]
    /\ newGameDraft = [d \in Devices |-> someDraft]
    /\ newGameEntered = [d \in Devices |-> [form |-> Restored(someDraft), lost |-> FALSE]]

\* The page is shown: as it was left, or anew from the draft.  The effect that saves
\* the form runs once on opening, too.
ShowNewGame(t) ==
    /\ view' = [view EXCEPT ![t] = "newGame"]
    /\ IF newGame[t].alive THEN UNCHANGED <<newGame, newGameDraft>>
       ELSE LET form == Restored(newGameDraft[DeviceOf[t]])
            IN  /\ newGame' = [newGame EXCEPT ![t] = [ClosedNewGame EXCEPT !.alive = TRUE, !.form = form]]
                /\ newGameDraft' = [newGameDraft EXCEPT ![DeviceOf[t]] = form]
    /\ UNCHANGED newGameEntered

\* The form is hidden until a sport is picked.
ShowsStepTwo(t) == Shows(t, "newGame") /\ newGame[t].form["sport"] # Blank

\* A field is changed, even while a game is being created, and the draft with it.
EditNewGame(t, f, v) ==
    /\ IF f = "sport" THEN Shows(t, "newGame") /\ v # Blank ELSE ShowsStepTwo(t)
    /\ newGame[t].form[f] # v
    /\ Edits(t)
    /\ newGame' = [newGame EXCEPT ![t].form[f] = v]
    /\ newGameDraft' = [newGameDraft EXCEPT ![DeviceOf[t]] = newGame'[t].form]
    /\ newGameEntered' = [newGameEntered EXCEPT ![DeviceOf[t]] = [form |-> newGame'[t].form, lost |-> FALSE]]
    /\ UNCHANGED <<auth, session, view, taps, calls>>

\* Offered beside the form while nobody is signed in.
SignInFromNewGame(t) ==
    /\ ShowsStepTwo(t) /\ Account(t) = Nobody
    /\ view' = [view EXCEPT ![t] = "loginForNewGame"]
    /\ UNCHANGED <<auth, session, plan, taps, calls, newGame, newGameDraft, newGameEntered>>

CanCreate(form) == form["names"] # Blank /\ form["roles"] # Blank

NewGameBody(form) ==
    [EmptyBody EXCEPT !.about = form["names"], !.schedule = ScheduleOf(form["date"], form["time"])]

\* A faulty create(): no early return while a game is being created.
MayCreateAgain(t) == ShowsStepTwo(t) /\ CanCreate(newGame[t].form)

\* A tap with a required field left blank changes nothing but the errors shown.
MayCreateNewGame(t) ==
    ShowsStepTwo(t) /\ ~newGame[t].submitting /\ CanCreate(newGame[t].form)

\* Nobody is signed in: nothing is sent.
CreateNewGameSignedOut(t) ==
    /\ MayCreateNewGame(t) /\ Account(t) = Nobody
    /\ view' = [view EXCEPT ![t] = "loginForNewGame"]
    /\ UNCHANGED <<auth, session, plan, taps, calls, newGame, newGameDraft, newGameEntered>>

CreateNewGame(t) ==
    /\ MayCreateNewGame(t) /\ Account(t) # Nobody
    /\ TapFrom(t, "createGame", newGame[t].form, NewGameBody(newGame[t].form))
    /\ newGame' = [newGame EXCEPT ![t].submitting = TRUE, ![t].awaits = plan[t].calls, ![t].told = "nothing"]
    /\ UNCHANGED <<auth, session, view, newGameDraft, newGameEntered>>

\* The game is there: the draft is dropped, whoever has changed it since, and a
\* message shown before the page is left.
NewGameCreated(t, c) ==
    /\ Good(t, c, "createGame")
    /\ calls' = (calls \ {c}) \cup {[c EXCEPT !.stage = "landing"]}
    /\ newGameDraft' = [newGameDraft EXCEPT ![DeviceOf[t]] = NoDraft]
    /\ newGameEntered' = [newGameEntered EXCEPT ![DeviceOf[t]] =
                             IF WasTapped(t, c.no, @.form) THEN [form |-> BlankNewGame, lost |-> FALSE]
                             ELSE [@ EXCEPT !.lost = TRUE]]
    /\ newGame' = [newGame EXCEPT ![t].told = IF newGame[t].awaits = c.no THEN "created" ELSE @]
    /\ taps' = Over(t, {c.no})
    /\ UNCHANGED <<auth, session, view, plan>>

\* A faulty create(): without the finally, an error leaves the spinner on.
StillSubmitting(pg, c) == pg

\* finally: of the page that asked, if it is still there.
NoLongerSubmitting(pg, c) == IF pg.awaits = c.no THEN [pg EXCEPT !.submitting = FALSE] ELSE pg

\* The page moves on to the new game's settings (see Organizing), and stays below.
NewGameLeft(t, c) ==
    /\ c.from = t /\ c.op = "createGame" /\ c.stage = "landing" /\ c.heard
    /\ newGame' = [newGame EXCEPT ![t] = NoLongerSubmitting(@, c)]
    /\ UNCHANGED <<newGameDraft, newGameEntered>>

\* The call failed; or the message or the move to the settings did, when the game
\* is there already.  The draft is kept, or dropped, accordingly.
NewGameFails(t, c) ==
    /\ \/ Bad(t, c, "createGame")
       \/ c.from = t /\ c.op = "createGame" /\ c.stage = "landing" /\ c.heard
    /\ Takes(c)
    /\ newGame' = [newGame EXCEPT ![t] =
                      [NoLongerSubmitting(newGame[t], c) EXCEPT
                          !.told = IF newGame[t].awaits = c.no THEN "failed" ELSE newGame[t].told]]
    /\ taps' = Over(t, {c.no})
    /\ UNCHANGED <<auth, session, view, plan, newGameDraft, newGameEntered>>

\* Games from before stem from taps, too.
FormerForm(g) ==
    [BlankNewGame EXCEPT !["names"] = g.about, !["date"] = g.schedule[1], !["time"] = g.schedule[2]]

FormerTaps(someGames) ==
    {[from |-> someGames[i].tap[1], no |-> someGames[i].tap[2], op |-> "createGame",
      user |-> someGames[i].createdBy, form |-> FormerForm(someGames[i]), over |-> TRUE,
      shown |-> [EmptyBody EXCEPT !.about = someGames[i].about,
                    !.schedule = someGames[i].schedule, !.location = someGames[i].location]]
      : i \in DOMAIN someGames}

NewGameUser(t) ==
    \/ \E f \in NewGameFields, v \in Texts : EditNewGame(t, f, v)
    \/ SignInFromNewGame(t) \/ CreateNewGameSignedOut(t) \/ CreateNewGame(t)
=============================================================================
