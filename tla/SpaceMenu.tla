------------------------------ MODULE SpaceMenu ------------------------------
(***************************************************************************)
(* The side menu of a space (gameboard-space-menu.component.ts), which     *)
(* lists the space's lists besides the overview and is always there.       *)
(***************************************************************************)
EXTENDS ListsPage

CONSTANT GroupOf    \* the group that each list is in, by its type

VARIABLE menu       \* the menu

ASSUME MenuAssumption == DOMAIN GroupOf = ListIds

\* The built-in lists are shown as soon as the kind of space is known.
MenuInit == menu = [shown |-> BuiltIn, seen |-> 0]

\* What the document has of a group that is built in is left out.
Mirrored(listed) ==
    BuiltIn \cup {l \in Ids(listed) : \A b \in BuiltIn : GroupOf[b] # GroupOf[l]}

MenuChanged(v) ==
    /\ v \in menu.seen + 1 .. Len(lists)
    /\ menu' = [shown |-> Mirrored(lists[v]), seen |-> v]
    /\ UNCHANGED store
=============================================================================
