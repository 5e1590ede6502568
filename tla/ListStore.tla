------------------------------ MODULE ListStore ------------------------------
(***************************************************************************)
(* What the lists extension keeps outside this repository, as the calls of *)
(* libs/extensions/gameboard/internal list.service.ts use it: a list's     *)
(* document with its items, and the space's document with its lists and    *)
(* how many items each has.  Both are watched: whoever watches is sent the *)
(* versions in order, and may miss any but the last.                       *)
(***************************************************************************)
EXTENDS Integers, Sequences, FiniteSets, SequencesExt

CONSTANTS
    ListIds,    \* what a list can be
    ThisList    \* the one whose page is modelled

VARIABLES
    items,      \* the versions of the list's document: its items, in order
    lists,      \* the versions of the space's document: its lists
    calls,      \* calls under way
    budget      \* bounds: calls, changes of items and of lists from elsewhere, items to add, pages to open

store == <<items, lists, calls, budget>>

ItemIds == Nat \ {0}

Items == [id : ItemIds, done : BOOLEAN]
Listed == [id : ListIds, count : Nat]

Budgets == [calls : Nat, elsewhere : Nat, lists : Nat, ids : Nat, opens : Nat]

ASSUME StoreAssumption == ThisList \in ListIds

\* A call: what it asks for, about which items or list, with what values, and for
\* whom: the generation of what the overview showed or the version that the list's page
\* had, and whether the page, and for a row the row, is still there to hear.
Calls ==
    [no : Nat, op : {"create", "setIsDone", "reactivate", "delete", "reorder", "deleteList"},
     ids : SUBSET ItemIds, list : ListIds, done : BOOLEAN, from : Nat, to : Nat, gen : Nat,
     stage : {"sent", "done", "failed"}, heard : BOOLEAN, here : BOOLEAN]

NewCall(op, ids) ==
    [no |-> budget.calls, op |-> op, ids |-> ids, list |-> ThisList, done |-> FALSE, from |-> 0,
     to |-> 0, gen |-> 0, stage |-> "sent", heard |-> TRUE, here |-> TRUE]

MayCall == budget.calls > 0

Spent == [budget EXCEPT !.calls = @ - 1]

StoreInit(someItems, someLists, someBudget) ==
    /\ items = << someItems >>
    /\ lists = << someLists >>
    /\ calls = {}
    /\ budget = someBudget

Current == Last(items)
CurrentLists == Last(lists)

Write(rows) == items' = Append(items, rows)
WriteLists(listed) == lists' = Append(lists, listed)

Has(rows, id) == \E k \in DOMAIN rows : rows[k].id = id

\* The rows at some places, in order.
RowsAt(rows, places) ==
    LET upTo[n \in 0 .. Len(rows)] ==
            IF n = 0 THEN << >>
            ELSE IF n \in places THEN Append(upTo[n - 1], rows[n]) ELSE upTo[n - 1]
    IN  upTo[Len(rows)]

\* Moving a row to an index, or to the end if that is beyond it.
Moved(rows, from, to) ==
    InsertAt(RemoveAt(rows, from), IF to > Len(rows) THEN Len(rows) ELSE to, rows[from])

\* What a call does to the items; ids that are not there (any more) are passed over.
Effect(c, rows) ==
    CASE c.op = "create" -> rows \o [k \in 1 .. 1 |-> [id |-> CHOOSE id \in c.ids : TRUE, done |-> c.done]]
      [] c.op \in {"setIsDone", "reactivate"} -> [k \in DOMAIN rows |-> IF rows[k].id \in c.ids
                                                     THEN [rows[k] EXCEPT !.done = c.done] ELSE rows[k]]
      [] c.op = "delete" -> RowsAt(rows, {k \in DOMAIN rows : rows[k].id \notin c.ids})
      [] c.op = "reorder" -> IF \E k \in DOMAIN rows : rows[k].id \in c.ids
                             THEN Moved(rows, CHOOSE k \in DOMAIN rows : rows[k].id \in c.ids, c.to)
                             ELSE rows

\* The space's document counts the items of its lists.
Counted(rows) ==
    {IF l.id = ThisList THEN [l EXCEPT !.count = Len(rows)] ELSE l : l \in CurrentLists}

Served(c) == calls' = (calls \ {c}) \cup {[c EXCEPT !.stage = "done"]}

ServeItems(c) ==
    /\ c.stage = "sent" /\ c.op # "deleteList"
    /\ LET rows == Effect(c, Current)
       IN  /\ Write(rows)
           /\ IF Counted(rows) = CurrentLists THEN UNCHANGED lists ELSE WriteLists(Counted(rows))
    /\ Served(c)
    /\ UNCHANGED budget

ServeDeleteList(c) ==
    /\ c.stage = "sent" /\ c.op = "deleteList"
    /\ WriteLists({l \in CurrentLists : l.id # c.list})
    /\ Served(c)
    /\ UNCHANGED <<items, budget>>

\* The request or the answer is lost.
Lose(c) ==
    /\ c.stage \in {"sent", "done"}
    /\ calls' = (calls \ {c}) \cup {[c EXCEPT !.stage = "failed"]}
    /\ UNCHANGED <<items, lists, budget>>

\* Other members of the space work on the same list.
ElsewhereItems ==
    /\ budget.elsewhere > 0
    /\ budget' = [budget EXCEPT !.elsewhere = @ - 1]
    /\ \E k \in DOMAIN Current : Write([Current EXCEPT ![k].done = ~@]) \/ Write(RemoveAt(Current, k))
    /\ UNCHANGED <<lists, calls>>

\* They add lists and delete them.
ElsewhereLists ==
    /\ budget.lists > 0
    /\ budget' = [budget EXCEPT !.lists = @ - 1]
    /\ \E l \in ListIds \ {ThisList} :
          IF l \in {other.id : other \in CurrentLists}
          THEN WriteLists({other \in CurrentLists : other.id # l})
          ELSE WriteLists(CurrentLists \cup {[id |-> l, count |-> 1]})
    /\ UNCHANGED <<items, calls>>

\* An answer that nobody hears.
Unheard ==
    /\ \E c \in calls : c.stage # "sent" /\ ~c.heard /\ calls' = calls \ {c}
    /\ UNCHANGED <<items, lists, budget>>
=============================================================================
