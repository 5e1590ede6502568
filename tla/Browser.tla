------------------------------ MODULE Browser ------------------------------
(***************************************************************************)
(* What the app's pages have in common: the tabs they are shown in, the    *)
(* account signed in, and how a page calls the backend (SneatApiService).  *)
(*                                                                         *)
(* The outlet keeps a page alive while another is shown over it: a page    *)
(* that is shown again is as it was left, one that was closed starts anew. *)
(* A tab shows one page of each kind at most.                              *)
(***************************************************************************)
EXTENDS GameRecords

CONSTANTS
    Devices,    \* browsers: one localStorage and one stored account each
    DeviceOf,   \* the browser of each tab
    NoDraft     \* nothing under a draft's key

VARIABLES
    auth,       \* the account that each browser has stored
    session,    \* the account that is signed in as far as each tab knows
    view,       \* the page each tab shows
    plan,       \* bounds: how many calls and edits each tab may make still, on which pages,
                \* and who may sign in there (nobody: not out either), and whether it is reloaded
    taps        \* history: what was tapped, by whom, with what in the form and what was sent
                \* for it, and whether it is over

client == <<auth, session, view, plan, taps>>

LoginViews == {"loginForNewGame", "loginForOrganize", "loginForRosters"}

Views == {"newGame", "organize", "settings", "myGames", "rosters", "board"}

TabPlans ==
    [calls : Nat, edits : Nat, views : SUBSET Views, users : SUBSET Users, reloads : BOOLEAN]

ASSUME BrowserAssumption == DeviceOf \in [Tabs -> Devices]

Account(t) == session[t]

Shows(t, v) == view[t] = v

MayCall(t) == plan[t].calls > 0

\* A call is numbered by the budget that it is paid from.
CallOf(t, op, user, body) ==
    [from |-> t, no |-> plan[t].calls, op |-> op, user |-> user, body |-> body,
     stage |-> "sent", heard |-> TRUE, reply |-> Unanswered]

CallFrom(t, op, body) ==
    /\ MayCall(t)
    /\ calls' = calls \cup {CallOf(t, op, Account(t), body)}
    /\ plan' = [plan EXCEPT ![t].calls = @ - 1]

\* A tap that is sent is remembered.
TapOn(t, op, form, shown) ==
    taps' = taps \cup {[from |-> t, no |-> plan[t].calls, op |-> op, user |-> Account(t), form |-> form,
                        shown |-> shown, over |-> FALSE]}

TapFrom(t, op, form, body) == CallFrom(t, op, body) /\ TapOn(t, op, form, body)

\* The form was this at this tap.
WasTapped(t, no, form) == \E tap \in taps : tap.from = t /\ tap.no = no /\ tap.form = form

Edits(t) ==
    /\ plan[t].edits > 0
    /\ plan' = [plan EXCEPT ![t].edits = @ - 1]

\* The answer to a call of this tab, good or bad.
Good(t, c, op) == c.from = t /\ c.op = op /\ c.stage = "answered" /\ c.heard /\ c.reply.status = "ok"

Bad(t, c, op) == c.from = t /\ c.op = op /\ c.stage = "answered" /\ c.heard /\ c.reply.status # "ok"

Takes(c) == calls' = calls \ {c}

\* Calls whose answers nobody waits for any more: those that write are served even so.
Unheard(cs) ==
    (calls \ cs) \cup {[c EXCEPT !.heard = FALSE] :
                          c \in {d \in cs : d.op \in Writes /\ d.stage \in {"sent", "read"}}}

\* The outcome of these taps was shown, or their page is gone.
Over(t, nos) ==
    {IF tap.from = t /\ tap.no \in nos THEN [tap EXCEPT !.over = TRUE] ELSE tap : tap \in taps}

\* A faulty page: a date without a time is sent as a schedule.
HalfSchedule(date, time) == IF date # Blank THEN <<date, time>> ELSE Unset

\* Date and time of a form as a schedule.
ScheduleOf(date, time) == IF date # Blank /\ time # Blank THEN <<date, time>> ELSE Unset

BrowserInit(someAuth, somePlan, someTaps) ==
    /\ auth = someAuth
    /\ session = [t \in Tabs |-> someAuth[DeviceOf[t]]]
    /\ view = [t \in Tabs |-> "elsewhere"]
    /\ plan = somePlan
    /\ taps = someTaps
=============================================================================
