------------------------------ MODULE ListsPage ------------------------------
(***************************************************************************)
(* The overview of a space's lists (pages/lists/lists-page.component.ts):  *)
(* those that every space of its kind has built in, shown at once, and     *)
(* those of the space's document, merged into them when it arrives.  The   *)
(* groups of lists are made anew each time, and a removal only changes the *)
(* group that it was started in.                                           *)
(***************************************************************************)
EXTENDS ListStore

CONSTANTS
    BuiltIn,    \* the lists that the space has in any case
    Kept        \* those that ListService.deleteList refuses to delete

VARIABLE overview   \* the page

ASSUME ListsPageAssumption == BuiltIn \subseteq ListIds /\ Kept \subseteq ListIds

\* "missed" is history: what is shown is known not to be what is stored.
ClosedOverview == [alive |-> FALSE, shown |-> << >>, reordered |-> FALSE, gen |-> 0, seen |-> 0, missed |-> FALSE]

OverviewInit == overview = ClosedOverview

\* A built-in list has no count.
Seeded == [l \in BuiltIn |-> 0]

Ids(listed) == {l.id : l \in listed}

\* updateListsFromSpace, of the built-in lists and then of those of the document: a
\* list that is there already takes the document's count.
Merged(listed) ==
    [l \in BuiltIn \cup Ids(listed) |->
        IF l \in Ids(listed) THEN (CHOOSE m \in listed : m.id = l).count ELSE Seeded[l]]

\* What the page shows is what is stored, and what is built in.
TrueTo(shown, listed) ==
    /\ \A l \in listed : l.id \in DOMAIN shown /\ shown[l.id] = l.count
    /\ DOMAIN shown \subseteq Ids(listed) \cup BuiltIn

Without(shown, ids) == [l \in DOMAIN shown \ ids |-> shown[l]]

\* The lists that will go from the groups shown.
Leave(cs) == {c.list : c \in {d \in cs : d.op = "deleteList" /\ d.heard /\ d.gen = overview.gen}}

OpenOverview ==
    /\ ~overview.alive /\ budget.opens > 0
    /\ overview' = [ClosedOverview EXCEPT !.alive = TRUE, !.shown = Seeded]
    /\ budget' = [budget EXCEPT !.opens = @ - 1]
    /\ UNCHANGED <<items, lists, calls>>

CloseOverview ==
    /\ overview.alive
    /\ overview' = ClosedOverview
    /\ calls' = {IF c.op = "deleteList" THEN [c EXCEPT !.heard = FALSE] ELSE c : c \in calls}
    /\ UNCHANGED <<items, lists, budget>>

\* onSpaceDboChanged: the first change after a removal was started is passed over, as
\* if it could only be that removal.
SpaceChanged(v) ==
    /\ overview.alive /\ v \in overview.seen + 1 .. Len(lists)
    /\ overview' =
          IF overview.reordered
          THEN [overview EXCEPT !.reordered = FALSE, !.seen = v,
                                !.missed = ~TrueTo(Without(overview.shown, Leave(calls)), lists[v])]
          ELSE [overview EXCEPT !.shown = Merged(lists[v]), !.gen = @ + 1, !.seen = v, !.missed = FALSE]
    /\ UNCHANGED store

\* By ListService.deleteList, before any call is made.
Refused(l) == l \in Kept

\* What was noted of a removal that is refused stays.
RemoveList(l) ==
    /\ overview.alive /\ l \in DOMAIN overview.shown
    /\ overview' = [overview EXCEPT !.reordered = TRUE]
    /\ IF Refused(l)
       THEN UNCHANGED store
       ELSE /\ MayCall
            /\ calls' = calls \cup {[NewCall("deleteList", {}) EXCEPT !.list = l, !.gen = overview.gen]}
            /\ budget' = Spent
            /\ UNCHANGED <<items, lists>>

\* The list goes from the group it was removed from, shown still or not.
Removed(c) ==
    /\ c \in calls /\ c.op = "deleteList" /\ c.stage = "done" /\ c.heard
    /\ overview' = IF c.gen = overview.gen THEN [overview EXCEPT !.shown = Without(@, {c.list})] ELSE overview
    /\ calls' = calls \ {c}
    /\ UNCHANGED <<items, lists, budget>>

NotRemoved(c) ==
    /\ c \in calls /\ c.op = "deleteList" /\ c.stage = "failed" /\ c.heard
    /\ overview' = [overview EXCEPT !.missed = TRUE]
    /\ calls' = calls \ {c}
    /\ UNCHANGED <<items, lists, budget>>

OverviewUser == OpenOverview \/ CloseOverview \/ \E l \in ListIds : RemoveList(l)
=============================================================================
