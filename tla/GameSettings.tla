---------------------------- MODULE GameSettings ----------------------------
(***************************************************************************)
(* The settings page of a game                                             *)
(* (game/settings/game-settings-page.component.ts): the organizer's form   *)
(* for the schedule and the location.  It can be typed into and saved      *)
(* before the game is read, and is saved as a whole.                       *)
(***************************************************************************)
EXTENDS Browser

VARIABLE settings   \* the page in each tab

SettingsFields == {"date", "time", "location"}

ClosedSettings ==
    [alive |-> FALSE, game |-> 0, form |-> [f \in SettingsFields |-> Blank],
     notFound |-> FALSE, submitting |-> FALSE, loads |-> 0, awaits |-> 0, told |-> "nothing"]

SettingsInit == settings = [t \in Tabs |-> ClosedSettings]

\* The page is opened for a game, and asks for it.
SettingsOpened(t, id, no) ==
    [settings EXCEPT ![t] = [ClosedSettings EXCEPT !.alive = TRUE, !.game = id, !.loads = no]]

\* The route is guarded: somebody is signed in.
OpenSettings(t, id) ==
    /\ ~settings[t].alive /\ id \in DOMAIN games
    /\ Account(t) # Nobody
    /\ CallFrom(t, "getGame", [EmptyBody EXCEPT !.target = id])
    /\ view' = [view EXCEPT ![t] = "settings"]
    /\ settings' = SettingsOpened(t, id, plan[t].calls)
    /\ UNCHANGED <<auth, session, taps>>

ShowsSettings(t) == Shows(t, "settings") /\ ~settings[t].notFound

EditSettings(t, f, v) ==
    /\ ShowsSettings(t)
    /\ settings[t].form[f] # v
    /\ Edits(t)
    /\ settings' = [settings EXCEPT ![t].form[f] = v]
    /\ UNCHANGED <<auth, session, view, taps, calls>>

Loads(t, c) == c.op = "getGame" /\ c.no = settings[t].loads

\* What was read replaces what was typed meanwhile.
SettingsLoaded(t, c) ==
    /\ Good(t, c, "getGame") /\ Loads(t, c)
    /\ Takes(c)
    /\ settings' = [settings EXCEPT ![t].notFound = FALSE,
                       ![t].form = [f \in SettingsFields |->
                           CASE f = "date" -> c.reply.schedule[1]
                             [] f = "time" -> c.reply.schedule[2]
                             [] f = "location" -> c.reply.location]]
    /\ UNCHANGED <<auth, session, view, plan, taps>>

SettingsNotLoaded(t, c) ==
    /\ Bad(t, c, "getGame") /\ Loads(t, c)
    /\ Takes(c)
    /\ settings' = [settings EXCEPT ![t].notFound = TRUE]
    /\ UNCHANGED <<auth, session, view, plan, taps>>

Shown(t) ==
    LET form == settings[t].form
    IN  [EmptyBody EXCEPT !.target = settings[t].game, !.location = form["location"],
                          !.schedule = ScheduleOf(form["date"], form["time"])]

\* A faulty save(): a field left blank is not sent.
WithoutBlanks(t) ==
    [Shown(t) EXCEPT !.location = IF @ = Blank THEN Omitted ELSE @,
                     !.schedule = IF @ = Unset THEN NoSchedule ELSE @]

\* Both fields are sent, whatever they hold.
SaveBody(t) == Shown(t)

MaySave(t) == ShowsSettings(t) /\ ~settings[t].submitting

SaveSettings(t) ==
    /\ MaySave(t) /\ Account(t) # Nobody
    /\ CallFrom(t, "updateGame", SaveBody(t))
    /\ TapOn(t, "updateGame", settings[t].form, Shown(t))
    /\ settings' = [settings EXCEPT ![t].submitting = TRUE, ![t].awaits = plan[t].calls, ![t].told = "nothing"]
    /\ UNCHANGED <<auth, session, view>>

\* The session is gone: the call is refused before it is sent.
SaveSettingsSignedOut(t) ==
    /\ MaySave(t) /\ Account(t) = Nobody
    /\ settings' = [settings EXCEPT ![t].told = "failed"]
    /\ UNCHANGED <<auth, session, view, plan, taps, calls>>

Saves(t, c) == c.op = "updateGame" /\ c.no = settings[t].awaits

SettingsSaved(t, c) ==
    /\ Good(t, c, "updateGame") /\ Saves(t, c)
    /\ Takes(c)
    /\ settings' = [settings EXCEPT ![t].submitting = FALSE, ![t].told = "saved"]
    /\ UNCHANGED <<auth, session, view, plan, taps>>

\* Only the organizer can edit; or something else went wrong.
SettingsNotSaved(t, c) ==
    /\ Bad(t, c, "updateGame") /\ Saves(t, c)
    /\ Takes(c)
    /\ settings' = [settings EXCEPT ![t].submitting = FALSE, ![t].told = c.reply.status]
    /\ UNCHANGED <<auth, session, view, plan, taps>>

SettingsUser(t) ==
    \/ \E id \in DOMAIN games : OpenSettings(t, id)
    \/ \E f \in SettingsFields, v \in Texts : EditSettings(t, f, v)
    \/ SaveSettings(t) \/ SaveSettingsSignedOut(t)

SettingsReceive(t, c) ==
    SettingsLoaded(t, c) \/ SettingsNotLoaded(t, c) \/ SettingsSaved(t, c) \/ SettingsNotSaved(t, c)
=============================================================================
