------------------------------ MODULE ListPage ------------------------------
(***************************************************************************)
(* A list's page (pages/list/list-page.component.ts) with its rows         *)
(* (list-item.component.ts) and the field for a new item                   *)
(* (new-list-item.component.ts).  The page shows three things at once: the *)
(* last version of the list that it was sent, what the user changed on it  *)
(* since, and what is being added.                                         *)
(*                                                                         *)
(* A row is marked by what put it there, and by the call that it was put   *)
(* there for: the page finds a row again by the identity of the object,    *)
(* and every change makes a new one.                                       *)
(***************************************************************************)
EXTENDS ListStore

VARIABLES
    list,       \* the page
    emojis      \* the app's emojis (EmojisLoaderService), loaded once

EmojiStages == {"unloaded", "loading", "loaded"}

Marks == {"stored", "adding", "changing", "changed", "moving", "moved"}

Rows == [id : ItemIds, done : BOOLEAN, mark : Marks, no : Nat]

\* A row that was swiped, to be marked when the sliding item has closed, and the version
\* that it was of.
Swipes == [row : Rows, done : BOOLEAN, no : Nat, seen : Nat]

Filters == {"all", "active", "completed"}

\* A faulty setList: the items are taken as they are, without a state of their rows.
StoredBare(rows) == rows

Stored(rows) == [k \in DOMAIN rows |-> [id |-> rows[k].id, done |-> rows[k].done, mark |-> "stored", no |-> 0]]

\* The first filtering, of a page that has no items yet, picks "active".  "busy" are the
\* rows whose checkbox is disabled, and "stuck" those that a failed call left so (history).
OpenedList ==
    [alive |-> TRUE, filter |-> "active", all |-> << >>, shown |-> << >>, adding |-> << >>,
     typed |-> FALSE, detecting |-> << >>, performing |-> FALSE, swiping |-> {}, busy |-> {},
     stuck |-> {}, seen |-> 0]

ClosedList == [OpenedList EXCEPT !.alive = FALSE]

ListInit == list = ClosedList /\ emojis = "unloaded"

Passes(filter, row) ==
    \/ filter = "all"
    \/ filter = "completed" /\ row.done
    \/ filter = "active" /\ ~row.done

Passing(filter, rows) == RowsAt(rows, {k \in DOMAIN rows : Passes(filter, rows[k])})

Filtered(pg) == Passing(pg.filter, pg.all) \o pg.adding

\* applyFilter: a row that is filtered out is destroyed, and with it its checkbox and
\* what it was swiped for, which has nobody left to tell of the change.
ApplyFilter(pg) ==
    LET shown == Filtered(pg)
    IN  [pg EXCEPT !.shown = shown, !.busy = {id \in @ : Has(shown, id)},
                   !.stuck = {id \in @ : Has(shown, id)},
                   !.swiping = {s \in @ : Has(shown, s.row.id)}]

\* The calls of rows that are destroyed go on without them.
Leaving(cs, pg) ==
    {IF c.op = "setIsDone" /\ \E id \in c.ids : ~Has(pg.shown, id) THEN [c EXCEPT !.here = FALSE] ELSE c
     : c \in cs}

\* The page goes on as pg, and the calls as cs.
Goes(pg, cs) == list' = pg /\ calls' = Leaving(cs, list')

\* The same, of rows filtered anew.
Shows(pg, cs) == \E page \in {pg} : Goes(ApplyFilter(page), cs)

OpenList ==
    /\ ~list.alive /\ budget.opens > 0
    /\ list' = OpenedList
    /\ budget' = [budget EXCEPT !.opens = @ - 1]
    /\ UNCHANGED <<items, lists, calls>>

\* Whatever is under way is served even so.
CloseList ==
    /\ list.alive
    /\ list' = ClosedList
    /\ calls' = {IF c.op = "deleteList" THEN c ELSE [c EXCEPT !.heard = FALSE] : c \in calls}
    /\ UNCHANGED <<items, lists, budget>>

\* A faulty setList: an item that is being added stays until it is stored.
StillAdding(pg, rows) == RowsAt(pg.adding, {k \in DOMAIN pg.adding : ~Has(rows, pg.adding[k].id)})

\* What is shown already needs no adding.
AddingBeyond(pg, rows) == RowsAt(pg.adding, {k \in DOMAIN pg.adding : ~Has(pg.shown, pg.adding[k].id)})

\* A version of the list arrives: it takes the place of whatever the page had.
SetList(v) ==
    /\ list.alive /\ v \in list.seen + 1 .. Len(items)
    /\ LET adding == AddingBeyond(list, items[v])
       IN  Shows([list EXCEPT !.seen = v, !.adding = adding, !.all = Stored(items[v]) \o adding], calls)
    /\ UNCHANGED <<items, lists, budget>>

Filter(f) ==
    /\ list.alive /\ list.filter # f
    /\ Shows([list EXCEPT !.filter = f], calls)
    /\ UNCHANGED <<items, lists, budget>>

(***************************************************************************)
(* Adding.                                                                 *)
(***************************************************************************)

Type ==
    /\ list.alive /\ ~list.typed /\ budget.ids > 0
    /\ list' = [list EXCEPT !.typed = TRUE]
    /\ UNCHANGED <<store, emojis>>

\* The field is emptied, the rows shown, and the items sent.
CreateListItems(ids) ==
    LET rows == [k \in DOMAIN ids |-> [id |-> ids[k], done |-> FALSE, mark |-> "adding", no |-> 0]]
    IN  Shows([list EXCEPT !.detecting = << >>, !.typed = FALSE, !.adding = @ \o rows],
              calls \cup {[NewCall("create", {id}) EXCEPT !.no = 0, !.gen = list.seen,
                                                              !.done = list.filter = "completed"]
                          : id \in Range(ids)})

\* The first item needs the emojis loaded; any item added before they are waits too,
\* and its title stays in the field meanwhile, and can be added again.
Add ==
    /\ list.alive /\ list.typed /\ budget.ids > 0 /\ MayCall
    /\ IF emojis = "loaded"
       THEN CreateListItems(<<budget.ids>>) /\ UNCHANGED emojis
       ELSE /\ list' = [list EXCEPT !.detecting = Append(@, budget.ids)]
            /\ emojis' = "loading"
            /\ UNCHANGED calls
    /\ budget' = [Spent EXCEPT !.ids = @ - 1]
    /\ UNCHANGED <<items, lists>>

\* Loaded, or not to be had: all that waited goes on, unless its page is gone.
EmojisLoaded ==
    /\ emojis = "loading"
    /\ emojis' = "loaded"
    /\ IF list.detecting = << >> THEN UNCHANGED <<list, calls>> ELSE CreateListItems(list.detecting)
    /\ UNCHANGED <<items, lists, budget>>

Answered(c, op, stage) == c \in calls /\ c.op = op /\ c.stage = stage /\ c.heard

NotAdding(pg, c) == [pg EXCEPT !.adding = RowsAt(@, {k \in DOMAIN @ : @[k].id \notin c.ids})]

\* The field is emptied again, whatever was typed meanwhile, unless the answer reports
\* no success; the row goes, to come back as a stored one.
Added(c) ==
    /\ Answered(c, "create", "done")
    /\ \E typed \in {FALSE, list.typed} :
          Shows(NotAdding([list EXCEPT !.typed = typed], c), calls \ {c})
    /\ UNCHANGED <<items, lists, budget>>

\* The row stays on the page until it is filtered the next time.
FailedToAdd(c) ==
    /\ Answered(c, "create", "failed")
    /\ list' = NotAdding(list, c)
    /\ calls' = calls \ {c}
    /\ UNCHANGED <<items, lists, budget>>

(***************************************************************************)
(* Marking as done or active.                                              *)
(***************************************************************************)

\* A faulty itemChanged: the row is found by its id.
ItemChangedById(all, old, new) == [k \in DOMAIN all |-> IF all[k].id = old.id THEN new ELSE all[k]]

\* itemChanged: nothing happens when the row has been replaced since.
ItemChanged(all, old, new) == [k \in DOMAIN all |-> IF all[k] = old THEN new ELSE all[k]]

Changing(row, done, no) == [row EXCEPT !.done = done, !.mark = "changing", !.no = no]

\* performSetIsDone: the row shows the change at once, and its checkbox is disabled.
PerformSetIsDone(pg, row, changed, done, no) ==
    LET page == IF changed = pg.all THEN pg ELSE ApplyFilter([pg EXCEPT !.all = changed])
    IN  Goes([page EXCEPT !.busy = IF Has(page.shown, row.id) THEN @ \cup {row.id} ELSE @],
             calls \cup {[NewCall("setIsDone", {row.id}) EXCEPT !.done = done, !.no = no]})

\* By the checkbox, unless it is disabled.
Check(k) ==
    /\ list.alive /\ k \in DOMAIN list.shown /\ list.shown[k].id \notin list.busy /\ MayCall
    /\ LET row == list.shown[k]
       IN  PerformSetIsDone(list, row, ItemChanged(list.all, row, Changing(row, ~row.done, budget.calls)),
                            ~row.done, budget.calls)
    /\ budget' = Spent
    /\ UNCHANGED <<items, lists>>

\* By a swipe, disabled or not: its button offers the other state, and swiping all the
\* way is always for "not done".  The sliding item has to close first.
Swipe(k, done) ==
    /\ list.alive /\ k \in DOMAIN list.shown /\ (done => ~list.shown[k].done) /\ MayCall
    /\ list' = [list EXCEPT !.swiping = @ \cup {[row |-> list.shown[k], done |-> done,
                                                 no |-> budget.calls, seen |-> list.seen]}]
    /\ budget' = Spent
    /\ UNCHANGED <<items, lists, calls>>

\* The row is the one that was swiped, though another version may have replaced it.
SwipeClosed(s) ==
    /\ s \in list.swiping
    /\ PerformSetIsDone([list EXCEPT !.swiping = @ \ {s}], s.row,
                        IF s.seen = list.seen THEN ItemChanged(list.all, s.row, Changing(s.row, s.done, s.no))
                        ELSE list.all,
                        s.done, s.no)
    /\ UNCHANGED <<items, lists, budget>>

\* The row's call is over: it spins no more, if it is still there and the same.
IsDoneSet(c) ==
    /\ Answered(c, "setIsDone", "done")
    /\ LET old == [id |-> CHOOSE id \in c.ids : TRUE, done |-> c.done, mark |-> "changing", no |-> c.no]
           changed == ItemChanged(list.all, old, [old EXCEPT !.mark = "changed"])
       IN  IF c.here
           THEN Shows([list EXCEPT !.all = changed, !.busy = @ \ c.ids, !.stuck = @ \ c.ids], calls \ {c})
           ELSE list' = list /\ calls' = calls \ {c}
    /\ UNCHANGED <<items, lists, budget>>

\* The row stays as it was changed, and its checkbox disabled.
IsDoneNotSet(c) ==
    /\ Answered(c, "setIsDone", "failed")
    /\ list' = IF c.here THEN [list EXCEPT !.stuck = @ \cup (c.ids \cap list.busy)] ELSE list
    /\ calls' = calls \ {c}
    /\ UNCHANGED <<items, lists, budget>>

(***************************************************************************)
(* Reactivating and deleting.                                              *)
(***************************************************************************)

Done(rows) == {row.id : row \in {rows[k] : k \in {j \in DOMAIN rows : rows[j].done}}}

ReactivateCompleted ==
    /\ list.alive /\ ~list.performing /\ Done(list.all) # {} /\ MayCall
    /\ list' = [list EXCEPT !.performing = TRUE]
    /\ calls' = calls \cup {NewCall("reactivate", Done(list.all))}
    /\ budget' = Spent
    /\ UNCHANGED <<items, lists>>

\* A faulty error handler: the buttons stay disabled.
StillPerforming(c) == [list EXCEPT !.performing = c.stage = "failed"]

\* Whether it succeeded or not.
NoLongerPerforming(c) == [list EXCEPT !.performing = FALSE]

Reactivated(c) ==
    /\ Answered(c, "reactivate", "done") \/ Answered(c, "reactivate", "failed")
    /\ list' = NoLongerPerforming(c)
    /\ calls' = calls \ {c}
    /\ UNCHANGED <<items, lists, budget>>

Deletes(ids) ==
    /\ ids # {} /\ MayCall
    /\ calls' = calls \cup {NewCall("delete", ids)}
    /\ budget' = Spent
    /\ UNCHANGED <<list, items, lists>>

\* By a swipe, or the button of a row that can be sorted.
DeleteRow(k) == list.alive /\ k \in DOMAIN list.shown /\ Deletes({list.shown[k].id})

DeleteCompleted == list.alive /\ list.filter # "active" /\ ~list.performing /\ Deletes(Done(list.all))

DeleteAll ==
    /\ list.alive /\ list.filter = "all" /\ ~list.performing
    /\ Deletes({list.all[k].id : k \in DOMAIN list.all})

\* The rows stay until the list arrives without them.
Deleted(c) ==
    /\ Answered(c, "delete", "done") \/ Answered(c, "delete", "failed")
    /\ calls' = calls \ {c}
    /\ UNCHANGED <<list, items, lists, budget>>

(***************************************************************************)
(* Reordering.                                                             *)
(***************************************************************************)

Moving(row) == [row EXCEPT !.mark = "moving", !.no = budget.calls]

\* All rows must be shown; one that is being added cannot be dragged.
Reorder(from, to) ==
    /\ list.alive /\ list.filter = "all" /\ MayCall
    /\ from \in DOMAIN list.all /\ to \in DOMAIN list.shown /\ from # to
    /\ LET row == list.all[from]
           all == Moved([list.all EXCEPT ![from] = Moving(row)], from, to)
       IN  Shows([list EXCEPT !.all = all],
                 calls \cup {[NewCall("reorder", {row.id}) EXCEPT !.done = row.done, !.from = from, !.to = to]})
    /\ budget' = Spent
    /\ UNCHANGED <<items, lists>>

\* The row is put where it was dragged from, over whatever is there now, or at the end
\* if nothing is (one row may have gone since, see ListsAssumption); what is shown does
\* not follow.
Reordered(c) ==
    /\ Answered(c, "reorder", "done")
    /\ LET row == [id |-> CHOOSE id \in c.ids : TRUE, done |-> c.done, mark |-> "moved", no |-> c.no]
       IN  list' = [list EXCEPT !.all = IF c.from \in DOMAIN @ THEN [@ EXCEPT ![c.from] = row]
                                        ELSE Append(@, row)]
    /\ calls' = calls \ {c}
    /\ UNCHANGED <<items, lists, budget>>

\* The row stays where it was dragged to.
NotReordered(c) ==
    /\ Answered(c, "reorder", "failed")
    /\ calls' = calls \ {c}
    /\ UNCHANGED <<list, items, lists, budget>>

(***************************************************************************)
(* The page's steps.                                                       *)
(***************************************************************************)

\* Each is for one of the things a user may be at.
ListUser(at) ==
    \/ "adding" \in at /\ (Type \/ Add)
    \/ /\ \/ OpenList \/ CloseList
          \/ \E f \in Filters : Filter(f)
          \/ "marking" \in at /\ \E k \in DOMAIN list.shown : Check(k)
          \/ "marking" \in at /\ \E k \in DOMAIN list.shown, done \in BOOLEAN : Swipe(k, done)
          \/ "clearing" \in at /\ (ReactivateCompleted \/ DeleteCompleted \/ DeleteAll)
          \/ "clearing" \in at /\ \E k \in DOMAIN list.shown : DeleteRow(k)
          \/ "sorting" \in at /\ \E from, to \in DOMAIN list.shown : Reorder(from, to)
       /\ UNCHANGED emojis

ListReceive(c) ==
    \/ Added(c) \/ FailedToAdd(c) \/ IsDoneSet(c) \/ IsDoneNotSet(c)
    \/ Reactivated(c) \/ Deleted(c) \/ Reordered(c) \/ NotReordered(c)
=============================================================================
