---------------------------- MODULE OrganizeGame ----------------------------
(***************************************************************************)
(* The organize-game page (game-invites/organize-game-page.component.ts)   *)
(* and its draft (organize-game-draft.ts).  It works as the new-game page  *)
(* does, with a roster of players who are typed and then added, a weekly   *)
(* repetition whose fields are shown only when it is switched on, and no   *)
(* way back to the page once the game is there.                            *)
(***************************************************************************)
EXTENDS Browser

CONSTANT MaxRows    \* bound: rows of a roster

VARIABLES
    organize,       \* the page in each tab
    organizeDraft,  \* localStorage, in each browser
    organizeEntered \* history: what was entered last in each browser and not created since, and
                    \* whether it was lost

organizeVars == <<organize, organizeDraft, organizeEntered>>

OrganizeFields == {"team", "date", "time", "repeats", "weekly"}

OrganizeForms == [form : [OrganizeFields -> Texts], rows : Seq(Inputs)]

BlankOrganize == [form |-> [f \in OrganizeFields |-> Blank], rows |-> << >>]

\* "typed" is the row that has not been added to the roster.
ClosedOrganize ==
    [alive |-> FALSE, entered |-> BlankOrganize, typed |-> Blank, submitting |-> FALSE,
     awaits |-> 0, told |-> "nothing"]

Resumed(draft) == IF draft = NoDraft THEN BlankOrganize ELSE draft

OrganizeInit(someDraft) ==
    /\ organize = [t \in Tabs |-> ClosedOrganize]
    /\ organizeDraft = [d \in Devices |-> someDraft]
    /\ organizeEntered = [d \in Devices |-> [entered |-> Resumed(someDraft), lost |-> FALSE]]

\* When a game repeats is saved, and sent, only if it does; the draft read back has
\* the default then.
Drafted(entered) ==
    IF entered.form["repeats"] = Blank THEN [entered EXCEPT !.form["weekly"] = Blank] ELSE entered

ShowOrganize(t) ==
    /\ view' = [view EXCEPT ![t] = "organize"]
    /\ IF organize[t].alive THEN UNCHANGED <<organize, organizeDraft>>
       ELSE LET entered == Resumed(organizeDraft[DeviceOf[t]])
            IN  /\ organize' = [organize EXCEPT ![t] =
                                   [ClosedOrganize EXCEPT !.alive = TRUE, !.entered = entered]]
                /\ organizeDraft' = [organizeDraft EXCEPT ![DeviceOf[t]] = Drafted(entered)]
    /\ UNCHANGED organizeEntered

\* Whatever of the form changes, the draft does; a row that is being typed does not count.
Enters(t, pg) ==
    /\ Shows(t, "organize")
    /\ pg.entered # organize[t].entered
    /\ Edits(t)
    /\ organize' = [organize EXCEPT ![t] = pg]
    /\ organizeDraft' = [organizeDraft EXCEPT ![DeviceOf[t]] = Drafted(pg.entered)]
    /\ organizeEntered' = [organizeEntered EXCEPT ![DeviceOf[t]] =
                              [entered |-> pg.entered, lost |-> FALSE]]
    /\ UNCHANGED <<auth, session, view, taps, calls>>

EditOrganize(t, f, v) ==
    /\ f = "weekly" => organize[t].entered.form["repeats"] # Blank
    /\ Enters(t, [organize[t] EXCEPT !.entered.form[f] = v])

TypeRow(t, v) ==
    /\ Shows(t, "organize") /\ organize[t].typed # v
    /\ Edits(t)
    /\ organize' = [organize EXCEPT ![t].typed = v]
    /\ UNCHANGED <<auth, session, view, taps, calls, organizeDraft, organizeEntered>>

AddRow(t) ==
    /\ organize[t].typed # Blank /\ Len(organize[t].entered.rows) < MaxRows
    /\ Enters(t, [organize[t] EXCEPT !.entered.rows = Append(@, organize[t].typed), !.typed = Blank])

Without(rows, i) == SubSeq(rows, 1, i - 1) \o SubSeq(rows, i + 1, Len(rows))

RemoveRow(t, i) ==
    /\ i \in DOMAIN organize[t].entered.rows
    /\ Enters(t, [organize[t] EXCEPT !.entered.rows = Without(@, i)])

SignInFromOrganize(t) ==
    /\ Shows(t, "organize") /\ Account(t) = Nobody
    /\ view' = [view EXCEPT ![t] = "loginForOrganize"]
    /\ UNCHANGED <<auth, session, plan, taps, calls, organize, organizeDraft, organizeEntered>>

CanOrganize(form) == form["team"] # Blank /\ form["date"] # Blank /\ form["time"] # Blank

OrganizeBody(entered) ==
    [EmptyBody EXCEPT !.about = entered.form["team"], !.rows = entered.rows,
                      !.schedule = ScheduleOf(entered.form["date"], entered.form["time"])]

\* The button is disabled while a game is being created.
MayOrganize(t) ==
    Shows(t, "organize") /\ ~organize[t].submitting /\ CanOrganize(organize[t].entered.form)

OrganizeSignedOut(t) ==
    /\ MayOrganize(t) /\ Account(t) = Nobody
    /\ view' = [view EXCEPT ![t] = "loginForOrganize"]
    /\ UNCHANGED <<auth, session, plan, taps, calls, organize, organizeDraft, organizeEntered>>

Organize(t) ==
    /\ MayOrganize(t) /\ Account(t) # Nobody
    /\ TapFrom(t, "createGameInvite", organize[t].entered, OrganizeBody(organize[t].entered))
    /\ organize' = [organize EXCEPT ![t].submitting = TRUE, ![t].awaits = plan[t].calls, ![t].told = "nothing"]
    /\ UNCHANGED <<auth, session, view, organizeDraft, organizeEntered>>

\* The draft is dropped and the game's roster page takes the page's place.
Organized(t, c) ==
    /\ Good(t, c, "createGameInvite")
    /\ Takes(c)
    /\ organizeDraft' = [organizeDraft EXCEPT ![DeviceOf[t]] = NoDraft]
    /\ organizeEntered' = [organizeEntered EXCEPT ![DeviceOf[t]] =
                              IF WasTapped(t, c.no, @.entered)
                              THEN [entered |-> BlankOrganize, lost |-> FALSE]
                              ELSE [@ EXCEPT !.lost = TRUE]]
    /\ organize' = [organize EXCEPT ![t] =
                       IF Shows(t, "organize") THEN [ClosedOrganize EXCEPT !.awaits = c.no, !.told = "created"]
                       ELSE IF @.awaits = c.no THEN [@ EXCEPT !.submitting = FALSE, !.told = "created"]
                       ELSE @]
    /\ view' = [view EXCEPT ![t] = "elsewhere"]
    /\ taps' = Over(t, {c.no} \cup (IF Shows(t, "organize") THEN {organize[t].awaits} ELSE {}))
    /\ UNCHANGED <<auth, session, plan>>

\* The call failed; the draft is kept.
OrganizeFails(t, c) ==
    /\ Bad(t, c, "createGameInvite")
    /\ Takes(c)
    /\ organize' = [organize EXCEPT ![t] =
                       IF @.awaits = c.no THEN [@ EXCEPT !.submitting = FALSE, !.told = "failed"] ELSE @]
    /\ taps' = Over(t, {c.no})
    /\ UNCHANGED <<auth, session, view, plan, organizeDraft, organizeEntered>>

OrganizeUser(t) ==
    \/ \E f \in OrganizeFields, v \in Texts : EditOrganize(t, f, v)
    \/ \E v \in Texts : TypeRow(t, v)
    \/ AddRow(t)
    \/ \E i \in 1 .. MaxRows : RemoveRow(t, i)
    \/ SignInFromOrganize(t) \/ OrganizeSignedOut(t) \/ Organize(t)
=============================================================================
