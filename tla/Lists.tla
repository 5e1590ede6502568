-------------------------------- MODULE Lists --------------------------------
(***************************************************************************)
(* The lists of a space: the overview, the side menu and, on top of them,  *)
(* the page of one of the lists, which share what is stored, with other    *)
(* members of the space at work on the same lists and a network that loses *)
(* requests and answers.                                                   *)
(***************************************************************************)
EXTENDS ListPage, SpaceMenu, AppState

CONSTANT Scenarios  \* bounds: what the user is at, with what budget, from what lists

VARIABLE used       \* what the user is at: using the overview, one thing of a list's page, or
                    \* changing the look of both

Uses == {"overview", "adding", "marking", "clearing", "sorting", "look"}

vars == <<store, list, emojis, overview, menu, remembered, used>>

\* An item that is added has an id that none has had, and each list is stored once.  (An
\* id is three random characters, and checked only against the items that the page has;
\* that no two meet is assumed.)  Where rows are sorted, at most one goes meanwhile: a
\* row put back beyond the end would leave holes in the page's array.
ASSUME ListsAssumption ==
    /\ ThisList \in Kept
    /\ \A s \in Scenarios :
          /\ s.used \subseteq Uses /\ s.budget \in Budgets
          /\ s.items \in Seq(Items) /\ s.lists \subseteq Listed
          /\ \A k \in DOMAIN s.items : s.items[k].id > s.budget.ids
          /\ \A l, m \in s.lists : l.id = m.id => l = m
          /\ "sorting" \in s.used => s.budget.elsewhere <= 1 /\ s.used \cap {"adding", "clearing"} = {}

Init ==
    \E s \in Scenarios :
        /\ used = s.used
        /\ StoreInit(s.items, s.lists, s.budget)
        /\ ListInit
        /\ OverviewInit
        /\ MenuInit
        /\ AppStateInit

(***************************************************************************)
(* Steps.                                                                  *)
(***************************************************************************)

views == <<list, emojis, overview, menu, remembered>>

Serving == (\E c \in calls : ServeItems(c) \/ ServeDeleteList(c)) /\ UNCHANGED <<views, used>>

Failing == (\E c \in calls : Lose(c)) /\ UNCHANGED <<views, used>>

Others == (ElsewhereItems \/ ElsewhereLists) /\ UNCHANGED <<views, used>>

Using ==
    /\ \/ ListUser(used) /\ UNCHANGED overview
       \/ "overview" \in used /\ OverviewUser /\ UNCHANGED <<list, emojis>>
    /\ UNCHANGED <<menu, remembered, used>>

ChangingTheLook == "look" \in used /\ AppStateUser /\ UNCHANGED <<store, list, emojis, overview, menu, used>>

Closing ==
    /\ \E s \in list.swiping : SwipeClosed(s)
    /\ UNCHANGED <<emojis, overview, menu, remembered, used>>

Detecting == EmojisLoaded /\ UNCHANGED <<overview, menu, remembered, used>>

Receiving ==
    /\ \/ \E c \in calls : ListReceive(c) /\ UNCHANGED overview
       \/ \E c \in calls : (Removed(c) \/ NotRemoved(c)) /\ UNCHANGED list
       \/ Unheard /\ UNCHANGED <<list, overview>>
    /\ UNCHANGED <<emojis, menu, remembered, used>>

\* The database sends what is watched.
Watching ==
    /\ \/ \E v \in DOMAIN items : SetList(v) /\ UNCHANGED <<overview, menu>>
       \/ \E v \in DOMAIN lists : SpaceChanged(v) /\ UNCHANGED <<list, menu>>
       \/ \E v \in DOMAIN lists : MenuChanged(v) /\ UNCHANGED <<list, overview>>
    /\ UNCHANGED <<emojis, remembered, used>>

Next ==
    \/ Serving \/ Failing \/ Others \/ Using \/ ChangingTheLook
    \/ Closing \/ Detecting \/ Receiving \/ Watching

Spec == Init /\ [][Next]_vars

\* Calls are served or fail, the emojis load or do not, sliding items close, and the pages
\* take answers and what is watched.  Nobody is assumed to tap anything.
FairSpec ==
    /\ Spec
    /\ WF_vars(Serving \/ Failing) /\ WF_vars(Closing) /\ WF_vars(Detecting)
    /\ WF_vars(Receiving) /\ WF_vars(Watching)

(***************************************************************************)
(* Properties.                                                             *)
(***************************************************************************)

\* What is stored, under way and shown is well formed.
TypeOK ==
    /\ items \in Seq(Seq(Items))
    /\ lists \in Seq(SUBSET Listed)
    /\ budget \in Budgets /\ calls \subseteq Calls
    /\ list.all \in Seq(Rows) /\ list.shown \in Seq(Rows) /\ list.adding \in Seq(Rows)
    /\ emojis \in EmojiStages /\ list.detecting \in Seq(Nat)
    /\ list.filter \in Filters /\ list.seen \in 0 .. Len(items)
    /\ list.swiping \subseteq Swipes /\ list.busy \cup list.stuck \subseteq ItemIds
    /\ overview.seen \in 0 .. Len(lists)
    /\ menu.shown \subseteq ListIds /\ menu.seen \in 0 .. Len(lists)
    /\ appState \in [Tabs -> AppStates] /\ saved \in AppStates
    /\ overview.alive => BuiltIn \cup DOMAIN overview.shown \subseteq ListIds

\* As long as the call that adds an item is not answered, the item is never shown twice,
\* whichever of its answer and the versions of the list comes first; it is shown, under
\* every filter, as long as no version comes; and where all are shown, it is there as soon
\* as a version has it.  (Between the two it is gone: any version that comes drops the
\* rows that are being added, be the item in it or not.)
AddingShownOnce ==
    \A c \in {d \in calls : d.op = "create" /\ d.heard} :
        \A id \in c.ids :
            LET times == Cardinality({k \in DOMAIN list.shown : list.shown[k].id = id})
            IN  /\ times <= 1
                /\ list.seen = c.gen => times = 1
                /\ list.filter = "all" /\ list.seen # 0 /\ Has(items[list.seen], id) => times = 1

\* What the user changed on the page does not outlive what it was changed to: when
\* nothing is under way, and no row is left over from a call that failed or from a
\* move, the list's page shows what is stored, however the answers of the page's calls
\* interleaved with the changes of other members.  So does the overview, unless it
\* passed over a change that was not its own or heard that a removal failed; and then
\* the menu leads to no list that the overview does not have, but for the built-in ones.
\* A tab shows the look that is saved, unless it was left behind.
LeftOver(row) == row.mark \in {"adding", "changing", "moving", "moved"}

Briefs(rows) == [k \in DOMAIN rows |-> [id |-> rows[k].id, done |-> rows[k].done]]

QuietPagesAreTrue ==
    calls = {} =>
        /\ \A t \in Tabs \ behind : appState[t] = saved
        /\ list.alive /\ list.seen = Len(items)
              /\ ~(\E k \in DOMAIN list.all : LeftOver(list.all[k]))
              /\ ~(\E k \in DOMAIN list.shown : LeftOver(list.shown[k]))
           => Briefs(list.shown) = Passing(list.filter, Current)
        /\ overview.alive /\ overview.seen = Len(lists) /\ ~overview.missed
           => /\ TrueTo(overview.shown, CurrentLists)
              /\ menu.seen = Len(lists) => menu.shown \subseteq DOMAIN overview.shown \cup BuiltIn

\* No item is left waiting for an emoji or "being added", no swipe without effect and no
\* button disabled for ever: whatever is lost, there is always a later state in which the
\* page waits for nothing.  The one thing that may stay disabled is the checkbox of a row
\* whose change failed (only success enables it again).
NothingHangs ==
    []<>(/\ ~list.performing /\ list.adding = << >> /\ list.detecting = << >>
         /\ list.swiping = {} /\ list.busy \subseteq list.stuck)
=============================================================================
