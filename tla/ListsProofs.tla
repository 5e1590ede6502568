------------------------------ MODULE ListsProofs ------------------------------
(***************************************************************************)
(* Proofs about the lists of a space, for any lists, tabs and groups, any  *)
(* items to begin with and any budgets of calls and changes.               *)
(*                                                                         *)
(* AddingInv follows the id of an item that is added: no other item has    *)
(* it, and it waits for an emoji, is being added or is one of the list's.  *)
(* WaitInv follows the calls that add items as long as they are awaited:   *)
(* one adds an item, it is in no version before it is served and in none   *)
(* twice, and what the page shows of it is the row that is being added or  *)
(* the row of a version.                                                   *)
(* ListInv says what the marks of the rows are worth: a row is shown as    *)
(* being added while a call adds it, and on a page that has the last       *)
(* version no row is a change that succeeded, for that made a version.     *)
(* OverviewInv says that an overview that has the last version shows its   *)
(* lists, and besides them only those that are about to go.                *)
(***************************************************************************)
EXTENDS Lists, SequenceTheorems, FiniteSetTheorems, WellFoundedInduction, TLAPS

\* What the pages and the menu are.
ListPages ==
    [alive : BOOLEAN, filter : Filters, all : Seq(Rows), shown : Seq(Rows), adding : Seq(Rows),
     typed : BOOLEAN, detecting : Seq(ItemIds), performing : BOOLEAN, swiping : SUBSET Swipes,
     busy : SUBSET ItemIds, stuck : SUBSET ItemIds, seen : Nat]

CountsShown == UNION {[ids -> Nat] : ids \in SUBSET ListIds}

Overviews ==
    [alive : BOOLEAN, shown : CountsShown, reordered : BOOLEAN, gen : Nat, seen : Nat, missed : BOOLEAN]

\* A call of an item names it; one that moves an item has places.
CallRight(c) ==
    /\ c.op \in {"create", "setIsDone", "reorder"} => \E id \in c.ids : c.ids = {id}
    /\ c.op = "reorder" => c.from # 0 /\ c.to # 0

CallsTyped(cs) == cs \subseteq Calls /\ \A c \in cs : CallRight(c)

StoreTyped ==
    /\ items \in Seq(Seq(Items)) /\ items # << >>
    /\ lists \in Seq(SUBSET Listed) /\ lists # << >>
    /\ budget \in Budgets
    /\ CallsTyped(calls)

ListTyped == list \in ListPages /\ list.seen <= Len(items) /\ emojis \in EmojiStages

OverviewTyped == overview \in Overviews /\ overview.seen <= Len(lists)

MenuTyped == menu \in [shown : SUBSET ListIds, seen : Nat] /\ menu.seen <= Len(lists)

LookTyped == appState \in [Tabs -> AppStates] /\ saved \in AppStates /\ behind \subseteq Tabs

WellTyped == StoreTyped /\ ListTyped /\ OverviewTyped /\ MenuTyped /\ LookTyped

-----------------------------------------------------------------------------
\* The ids of rows.
IdsOf(rows) == {rows[k].id : k \in DOMAIN rows}

\* No two rows are the item's.
OnceIn(rows, id) == \A j, k \in DOMAIN rows : rows[j].id = id /\ rows[k].id = id => j = k

\* The items of the versions of a list, and those that calls add or move.
Had(versions) == UNION {IdsOf(versions[v]) : v \in DOMAIN versions}

Sent(cs) == UNION {c.ids : c \in {d \in cs : d.op \in {"create", "reorder"}}}

Dragged(cs) == UNION {c.ids : c \in {d \in cs : d.op = "reorder"}}

\* The items that there are, or that a call knows of, or the page has had from the list.
Known == Had(items) \cup IdsOf(list.all) \cup Sent(calls)

\* An item is added once: its id is none that was given out before, and it waits for an
\* emoji, is being added, or is one of the list's.
Apart ==
    /\ \A id \in Known \cup IdsOf(list.adding) \cup Range(list.detecting) : id > budget.ids
    /\ Known \cap Range(list.detecting) = {}
    /\ IdsOf(list.adding) \cap Range(list.detecting) = {}
    /\ IdsOf(list.adding) \cap (IdsOf(list.all) \cup Dragged(calls)) = {}
    /\ \A j, k \in DOMAIN list.adding : list.adding[j].id = list.adding[k].id => j = k
    /\ \A j, k \in DOMAIN list.detecting : list.detecting[j] = list.detecting[k] => j = k

\* What is being added is shown once.
AddingShown ==
    \A a \in DOMAIN list.adding : Cardinality({k \in DOMAIN list.shown : list.shown[k].id = list.adding[a].id}) = 1

AddingInv == Apart /\ AddingShown

\* Every row that is being added is so by a call that the page hears.
AddedBy(row) ==
    row.mark = "adding" /\ \E c \in calls : c.op = "create" /\ c.heard /\ row.id \in c.ids

AllAdded == \A k \in DOMAIN list.adding : AddedBy(list.adding[k])

SomeLeft(rows) == \E k \in DOMAIN rows : LeftOver(rows[k])

\* The page has the last version of the list.
UpToDate == list.alive /\ list.seen = Len(items)

\* The numbers of calls that mark rows, and of those that their rows hear the success of.
Numbers(cs) == {c.no : c \in {d \in cs : d.op = "setIsDone"}}

Successes(cs) == {c.no : c \in {d \in cs : d.op = "setIsDone" /\ d.stage = "done" /\ d.heard}}

\* No call, and no swipe that is to make one, has the number of another or of the next.
Numbered ==
    /\ \A no \in Numbers(calls) : no > budget.calls
    /\ \A s \in list.swiping : s.no > budget.calls /\ s.no \notin Numbers(calls)
    /\ \A s, t \in list.swiping : s.no = t.no => s = t

\* A change that has succeeded made a version of the list.  So it is not shown as a change
\* by a page that has the last one; and all that is stored there is that version.
RowsTrue ==
    UpToDate =>
        /\ \A k \in DOMAIN list.all : list.all[k].mark # "changed"
        /\ \A k \in DOMAIN list.all : list.all[k].mark = "changing" => list.all[k].no \notin Successes(calls)
        /\ (\A k \in DOMAIN list.all : list.all[k].mark = "stored") => Briefs(list.all) = Current

\* What is shown is what passes the filter, or some row of it is left over.
ShownTrue == list.alive => list.shown = Filtered(list) \/ SomeLeft(list.shown) \/ SomeLeft(list.all)

ListInv == AllAdded /\ Numbered /\ RowsTrue /\ ShownTrue

\* No list is in a version of the space's document twice.
OneEach(listed) == \A l, m \in listed : l.id = m.id => l = m

EachOnce == \A v \in DOMAIN lists : OneEach(lists[v])

\* The calls that the overview waits for, and the lists that go from the groups it shows
\* when they are answered.
Removals(cs) == {c \in cs : c.op = "deleteList" /\ c.heard}

Going(cs, gen) == {c.list : c \in {d \in Removals(cs) : d.gen = gen}}

RemovalsRight == \A c \in Removals(calls) : overview.alive /\ c.gen <= overview.gen

\* An overview that has the last version, and passed over none that it should not have,
\* shows its lists, and others only if they are about to go.
OverviewTrue ==
    overview.alive /\ overview.seen = Len(lists) /\ ~overview.missed =>
        /\ \A l \in CurrentLists : l.id \in DOMAIN overview.shown /\ overview.shown[l.id] = l.count
        /\ DOMAIN overview.shown \subseteq Ids(CurrentLists) \cup BuiltIn \cup Going(calls, overview.gen)
        /\ \A c \in Removals(calls) : c.stage = "done" /\ c.gen = overview.gen => c.list \notin Ids(CurrentLists)

MenuTrue == menu.seen # 0 => menu.shown = Mirrored(lists[menu.seen])

OverviewInv == EachOnce /\ RemovalsRight /\ OverviewTrue /\ MenuTrue

LookInv == \A t \in Tabs \ behind : appState[t] = saved

-----------------------------------------------------------------------------
(***************************************************************************)
(* Some rows of a sequence.                                                *)
(***************************************************************************)

\* What holds of 0 and of n + 1 if of n: the least number of which it does not hold.
LEMMA LeastOf ==
    ASSUME NEW T \in SUBSET Nat, T # {}
    PROVE  \E least \in T : \A m \in Nat : m < least => m \notin T
<1>1. PICK before : before = OpToRel(<, Nat)
  OBVIOUS
<1>2. \A a, b \in Nat : <<a, b>> \in before <=> a < b
  BY <1>1 DEF OpToRel
<1>3. PICK least \in T : \A r \in T : ~ (<<r, least>> \in before)
  BY <1>1, NatLessThanWellFounded, WFMin
<1> QED
  BY <1>2, <1>3

\* f counts up the rows at the places, from none of them to n of them.
Picked(f, rows, places, n) ==
    f = [m \in 0 .. n |-> IF m = 0 THEN << >>
                          ELSE IF m \in places THEN Append(f[m - 1], rows[m]) ELSE f[m - 1]]

LEMMA PickedExists ==
    ASSUME NEW rows, NEW places, NEW n \in Nat
    PROVE  \E f : Picked(f, rows, places, n)
<1> DEFINE T == {m \in Nat : ~ \E f : Picked(f, rows, places, m)}
<1>1. ASSUME T # {} PROVE FALSE
  <2>1. PICK m \in T : \A k \in Nat : k < m => k \notin T
    BY <1>1, LeastOf
  <2>2. m # 0
    <3>1. PICK f : f = [k \in 0 .. 0 |-> << >>]
      OBVIOUS
    <3>2. Picked(f, rows, places, 0)
      BY <3>1 DEF Picked
    <3> QED
      BY <2>1, <3>2
  <2>3. m \in Nat /\ m - 1 \in Nat /\ m - 1 < m
    BY <2>1, <2>2
  <2>4. PICK f : Picked(f, rows, places, m - 1)
    BY <2>1, <2>3
  <2>5. PICK g : g = [k \in 0 .. m |-> IF k < m THEN f[k]
                        ELSE IF k \in places THEN Append(f[k - 1], rows[k]) ELSE f[k - 1]]
    OBVIOUS
  <2>6. ASSUME NEW k \in 0 .. m
        PROVE  g[k] = IF k = 0 THEN << >>
                      ELSE IF k \in places THEN Append(g[k - 1], rows[k]) ELSE g[k - 1]
    <3>1. k # 0 => g[k - 1] = f[k - 1]
      BY <2>3, <2>5
    <3>2. CASE k < m
      <4>1. k \in 0 .. m - 1 /\ g[k] = f[k]
        BY <2>3, <2>5, <3>2
      <4>2. f[k] = IF k = 0 THEN << >>
                   ELSE IF k \in places THEN Append(f[k - 1], rows[k]) ELSE f[k - 1]
        BY <2>4, <4>1 DEF Picked
      <4> QED
        BY <3>1, <4>1, <4>2
    <3>3. CASE k = m
      BY <2>2, <2>5, <3>1, <3>3
    <3> QED
      BY <2>3, <3>2, <3>3
  <2>7. g = [k \in 0 .. m |-> g[k]]
    BY <2>5
  <2>8. Picked(g, rows, places, m)
    BY <2>6, <2>7 DEF Picked
  <2> QED
    BY <2>1, <2>8
<1> QED
  BY <1>1

LEMMA RowsAtPicked ==
    ASSUME NEW rows, Len(rows) \in Nat, NEW places
    PROVE  \E f : Picked(f, rows, places, Len(rows)) /\ RowsAt(rows, places) = f[Len(rows)]
<1> DEFINE upTo[n \in 0 .. Len(rows)] ==
            IF n = 0 THEN << >>
            ELSE IF n \in places THEN Append(upTo[n - 1], rows[n]) ELSE upTo[n - 1]
<1>1. RowsAt(rows, places) = upTo[Len(rows)]
  BY DEF RowsAt
<1>2. PICK f : Picked(f, rows, places, Len(rows))
  BY PickedExists
<1>3. Picked(upTo, rows, places, Len(rows))
  BY <1>2 DEF Picked
<1> QED
  BY <1>1, <1>3

\* Which rows they are, in order.
Ordered(g, n, places, m) ==
    /\ g \in [1 .. n -> 1 .. m]
    /\ \A k \in 1 .. n : g[k] \in places
    /\ \A k, l \in 1 .. n : k < l => g[k] < g[l]

LEMMA PickedOrdered ==
    ASSUME NEW S, NEW rows \in Seq(S), NEW places, NEW f, Picked(f, rows, places, Len(rows)),
           NEW m \in 0 .. Len(rows)
    PROVE  /\ f[m] \in Seq(S)
           /\ \E g : Ordered(g, Len(f[m]), places, m) /\ \A k \in 1 .. Len(f[m]) : f[m][k] = rows[g[k]]
<1> DEFINE Good(n) ==
        /\ f[n] \in Seq(S)
        /\ \E g : Ordered(g, Len(f[n]), places, n) /\ \A k \in 1 .. Len(f[n]) : f[n][k] = rows[g[k]]
           T == {n \in 0 .. Len(rows) : ~ Good(n)}
<1>0. Len(rows) \in Nat
  OBVIOUS
<1>1. ASSUME T # {} PROVE FALSE
  <2>0. T \in SUBSET Nat
    BY <1>0
  <2>1. PICK n \in T : \A k \in Nat : k < n => k \notin T
    BY <1>1, <2>0, LeastOf
  <2>2. n \in 0 .. Len(rows) /\ ~ Good(n)
    BY <2>1
  <2> HIDE DEF T
  <2>3. f[n] = IF n = 0 THEN << >> ELSE IF n \in places THEN Append(f[n - 1], rows[n]) ELSE f[n - 1]
    BY <1>0, <2>2 DEF Picked
  <2>4. CASE n = 0
    <3>1. f[n] = << >>
      BY <2>3, <2>4
    <3>2. f[n] \in Seq(S) /\ Len(f[n]) = 0
      BY <3>1
    <3>3. PICK g : g = [k \in 1 .. 0 |-> 0]
      OBVIOUS
    <3>4. Ordered(g, 0, places, n)
      BY <3>3 DEF Ordered
    <3>5. \A k \in 1 .. 0 : f[n][k] = rows[g[k]]
      OBVIOUS
    <3> QED
      BY <2>2, <3>2, <3>4, <3>5
  <2>5. CASE n # 0
    <3>1. n - 1 \in Nat /\ n - 1 < n /\ n - 1 \in 0 .. Len(rows) /\ n \in 1 .. Len(rows)
      BY <1>0, <2>2, <2>5
    <3>2. Good(n - 1)
      BY <2>1, <3>1 DEF T
    <3>3. PICK g : Ordered(g, Len(f[n - 1]), places, n - 1)
                   /\ \A k \in 1 .. Len(f[n - 1]) : f[n - 1][k] = rows[g[k]]
      BY <3>2
    <3>4. PICK old : old = f[n - 1]
      OBVIOUS
    <3>5. old \in Seq(S) /\ Len(old) \in Nat
      BY <3>2, <3>4
    <3>6. CASE n \notin places
      <4>1. f[n] = old
        BY <2>3, <2>5, <3>4, <3>6
      <4>2. Ordered(g, Len(old), places, n)
        BY <3>1, <3>3, <3>4, <3>5 DEF Ordered
      <4> QED
        BY <2>2, <3>3, <3>4, <3>5, <4>1, <4>2
    <3>7. CASE n \in places
      <4>1. f[n] = Append(old, rows[n]) /\ rows[n] \in S
        BY <2>3, <2>5, <3>1, <3>4, <3>7
      <4>2. /\ f[n] \in Seq(S) /\ Len(f[n]) = Len(old) + 1
            /\ \A k \in 1 .. Len(old) : f[n][k] = old[k]
            /\ f[n][Len(old) + 1] = rows[n]
        BY <3>5, <4>1
      <4>3. PICK h : h = [k \in 1 .. Len(old) + 1 |-> IF k <= Len(old) THEN g[k] ELSE n]
        OBVIOUS
      <4>4. /\ \A k \in 1 .. Len(old) : h[k] = g[k] /\ g[k] \in 1 .. n - 1 /\ g[k] \in places
            /\ h[Len(old) + 1] = n
            /\ \A k, l \in 1 .. Len(old) : k < l => g[k] < g[l]
        <5>1. /\ g \in [1 .. Len(old) -> 1 .. n - 1]
              /\ \A k \in 1 .. Len(old) : g[k] \in places
              /\ \A k, l \in 1 .. Len(old) : k < l => g[k] < g[l]
          BY <3>3, <3>4 DEF Ordered
        <5>2. \A k \in 1 .. Len(old) : k \in 1 .. Len(old) + 1 /\ k <= Len(old) /\ h[k] = g[k]
          BY <3>5, <4>3
        <5>3. Len(old) + 1 \in 1 .. Len(old) + 1 /\ ~ (Len(old) + 1 <= Len(old))
          BY <3>5
        <5>4. h[Len(old) + 1] = n
          BY <4>3, <5>3
        <5> QED
          BY <5>1, <5>2, <5>4
      <4>5. h \in [1 .. Len(old) + 1 -> 1 .. n]
        <5>1. ASSUME NEW k \in 1 .. Len(old) + 1 PROVE h[k] \in 1 .. n
          <6>1. k \in 1 .. Len(old) \/ k = Len(old) + 1
            BY <3>5
          <6>2. n \in Nat /\ n >= 1 /\ n \in 1 .. n
            BY <3>1
          <6>3. \A j \in 1 .. n - 1 : j \in 1 .. n
            BY <6>2
          <6> QED
            BY <4>4, <6>1, <6>2, <6>3
        <5> QED
          BY <4>3, <5>1
      <4>6. ASSUME NEW k \in 1 .. Len(old) + 1 PROVE h[k] \in places /\ f[n][k] = rows[h[k]]
        <5>1. k \in 1 .. Len(old) \/ k = Len(old) + 1
          BY <3>5
        <5> QED
          BY <3>3, <3>4, <3>7, <4>2, <4>4, <5>1
      <4>7. ASSUME NEW k \in 1 .. Len(old) + 1, NEW l \in 1 .. Len(old) + 1, k < l PROVE h[k] < h[l]
        <5>1. k \in 1 .. Len(old) /\ (l \in 1 .. Len(old) \/ l = Len(old) + 1)
          BY <3>5, <4>7
        <5> QED
          BY <3>1, <4>4, <4>7, <5>1
      <4>8. Ordered(h, Len(f[n]), places, n)
        BY <4>2, <4>5, <4>6, <4>7 DEF Ordered
      <4> QED
        BY <2>2, <4>2, <4>6, <4>8
    <3> QED
      BY <3>6, <3>7
  <2> QED
    BY <2>4, <2>5
<1> QED
  BY <1>1

LEMMA PickedAll ==
    ASSUME NEW S, NEW rows \in Seq(S), NEW places, NEW f, Picked(f, rows, places, Len(rows)),
           NEW m \in 0 .. Len(rows)
    PROVE  \A k \in 1 .. m : k \in places => \E j \in DOMAIN f[m] : f[m][j] = rows[k]
<1> DEFINE Good(n) == \A k \in 1 .. n : k \in places => \E j \in DOMAIN f[n] : f[n][j] = rows[k]
           T == {n \in 0 .. Len(rows) : ~ Good(n)}
<1>0. Len(rows) \in Nat
  OBVIOUS
<1>1. ASSUME T # {} PROVE FALSE
  <2>0. T \in SUBSET Nat
    BY <1>0
  <2>1. PICK n \in T : \A k \in Nat : k < n => k \notin T
    BY <1>1, <2>0, LeastOf
  <2>2. n \in 0 .. Len(rows) /\ ~ Good(n)
    BY <2>1
  <2> HIDE DEF T
  <2>3. f[n] = IF n = 0 THEN << >> ELSE IF n \in places THEN Append(f[n - 1], rows[n]) ELSE f[n - 1]
    BY <1>0, <2>2 DEF Picked
  <2>4. n # 0
    BY <2>2
  <2>5. n - 1 \in Nat /\ n - 1 < n /\ n - 1 \in 0 .. Len(rows) /\ n \in 1 .. Len(rows)
    BY <1>0, <2>2, <2>4
  <2>6. Good(n - 1)
    BY <2>1, <2>5 DEF T
  <2>7. PICK old : old = f[n - 1]
    OBVIOUS
  <2>8. old \in Seq(S)
    BY <2>5, <2>7, PickedOrdered
  <2>9. \A k \in 1 .. n - 1 : k \in places => \E j \in DOMAIN old : old[j] = rows[k]
    BY <2>6, <2>7
  <2>10. CASE n \notin places
    <3>1. f[n] = old
      BY <2>3, <2>4, <2>7, <2>10
    <3>2. \A k \in 1 .. n : k \in places => k \in 1 .. n - 1
      BY <2>5, <2>10
    <3> QED
      BY <2>2, <2>9, <3>1, <3>2
  <2>11. CASE n \in places
    <3>1. f[n] = Append(old, rows[n]) /\ rows[n] \in S
      BY <2>3, <2>4, <2>5, <2>7, <2>11
    <3>2. /\ \A j \in DOMAIN old : j \in DOMAIN f[n] /\ f[n][j] = old[j]
          /\ Len(old) + 1 \in DOMAIN f[n] /\ f[n][Len(old) + 1] = rows[n]
      BY <2>8, <3>1
    <3>3. ASSUME NEW k \in 1 .. n, k \in places PROVE \E j \in DOMAIN f[n] : f[n][j] = rows[k]
      <4>1. k = n \/ k \in 1 .. n - 1
        BY <2>5
      <4> QED
        BY <2>9, <3>2, <3>3, <4>1
    <3> QED
      BY <2>2, <3>3
  <2> QED
    BY <2>10, <2>11
<1> QED
  BY <1>1

\* The rows at some places are rows, each from its own place.
LEMMA RowsAtOrdered ==
    ASSUME NEW S, NEW rows \in Seq(S), NEW places
    PROVE  /\ RowsAt(rows, places) \in Seq(S)
           /\ \E g : /\ Ordered(g, Len(RowsAt(rows, places)), places, Len(rows))
                     /\ \A k \in DOMAIN RowsAt(rows, places) : RowsAt(rows, places)[k] = rows[g[k]]
<1>1. Len(rows) \in Nat
  OBVIOUS
<1>2. PICK f : Picked(f, rows, places, Len(rows)) /\ RowsAt(rows, places) = f[Len(rows)]
  BY <1>1, RowsAtPicked
<1>3. Len(rows) \in 0 .. Len(rows)
  BY <1>1
<1>4. /\ f[Len(rows)] \in Seq(S)
      /\ \E g : /\ Ordered(g, Len(f[Len(rows)]), places, Len(rows))
                /\ \A k \in 1 .. Len(f[Len(rows)]) : f[Len(rows)][k] = rows[g[k]]
  BY <1>2, <1>3, PickedOrdered
<1> QED
  BY <1>2, <1>4

LEMMA RowsAtRows ==
    ASSUME NEW S, NEW rows \in Seq(S), NEW places
    PROVE  /\ RowsAt(rows, places) \in Seq(S)
           /\ \A k \in DOMAIN RowsAt(rows, places) :
                 \E i \in DOMAIN rows : i \in places /\ RowsAt(rows, places)[k] = rows[i]
           /\ \A k, l \in DOMAIN RowsAt(rows, places) : k # l =>
                 \E i, j \in DOMAIN rows : i # j /\ RowsAt(rows, places)[k] = rows[i]
                                           /\ RowsAt(rows, places)[l] = rows[j]
<1>1. PICK at : at = RowsAt(rows, places)
  OBVIOUS
<1>2. PICK g : Ordered(g, Len(at), places, Len(rows)) /\ \A k \in DOMAIN at : at[k] = rows[g[k]]
  BY <1>1, RowsAtOrdered
<1>3. at \in Seq(S) /\ DOMAIN at = 1 .. Len(at) /\ DOMAIN rows = 1 .. Len(rows)
  BY <1>1, RowsAtOrdered
<1>4. /\ \A k \in DOMAIN at : g[k] \in DOMAIN rows /\ g[k] \in places
      /\ \A k, l \in DOMAIN at : k < l => g[k] < g[l]
  BY <1>2, <1>3 DEF Ordered
<1>5. \A k, l \in DOMAIN at : k # l => g[k] # g[l]
  <2> SUFFICES ASSUME NEW k \in DOMAIN at, NEW l \in DOMAIN at, k # l PROVE g[k] # g[l]
    OBVIOUS
  <2>1. (k < l \/ l < k) /\ g[k] \in Nat /\ g[l] \in Nat
    BY <1>3, <1>4
  <2> QED
    BY <1>4, <2>1
<1> QED
  BY <1>1, <1>2, <1>3, <1>4, <1>5

\* And all that are at those places.
LEMMA RowsAtAll ==
    ASSUME NEW S, NEW rows \in Seq(S), NEW places
    PROVE  \A k \in DOMAIN rows : k \in places =>
              \E j \in DOMAIN RowsAt(rows, places) : RowsAt(rows, places)[j] = rows[k]
<1>1. Len(rows) \in Nat /\ DOMAIN rows = 1 .. Len(rows)
  OBVIOUS
<1>2. PICK f : Picked(f, rows, places, Len(rows)) /\ RowsAt(rows, places) = f[Len(rows)]
  BY <1>1, RowsAtPicked
<1>3. Len(rows) \in 0 .. Len(rows)
  BY <1>1
<1>4. \A k \in 1 .. Len(rows) : k \in places => \E j \in DOMAIN f[Len(rows)] : f[Len(rows)][j] = rows[k]
  BY <1>2, <1>3, PickedAll
<1> QED
  BY <1>1, <1>2, <1>4

LEMMA RowsAtNone ==
    ASSUME NEW places
    PROVE  RowsAt(<< >>, places) = << >>
<1>1. << >> \in Seq({})
  OBVIOUS
<1>2. RowsAt(<< >>, places) \in Seq({})
  BY <1>1, RowsAtRows
<1> QED
  BY <1>2

\* What is kept of rows may be taken before or after some of them are.
LEMMA BriefsOfRowsAt ==
    ASSUME NEW S, NEW rows \in Seq(S), NEW places
    PROVE  Briefs(RowsAt(rows, places)) = RowsAt(Briefs(rows), places)
<1>0. /\ Len(rows) \in Nat /\ DOMAIN rows = 1 .. Len(rows)
      /\ Briefs(rows) = [k \in 1 .. Len(rows) |-> [id |-> rows[k].id, done |-> rows[k].done]]
  BY DEF Briefs
<1>1. PICK briefs : briefs = Briefs(rows)
  OBVIOUS
<1>2. PICK B : B = {[id |-> rows[k].id, done |-> rows[k].done] : k \in 1 .. Len(rows)}
  OBVIOUS
<1>3. briefs \in Seq(B) /\ Len(briefs) = Len(rows)
      /\ \A k \in 1 .. Len(rows) : briefs[k] = [id |-> rows[k].id, done |-> rows[k].done]
  BY <1>0, <1>1, <1>2
<1>4. PICK f : Picked(f, rows, places, Len(rows)) /\ RowsAt(rows, places) = f[Len(rows)]
  BY <1>0, RowsAtPicked
<1>5. PICK g : Picked(g, briefs, places, Len(rows)) /\ RowsAt(briefs, places) = g[Len(rows)]
  <2>1. Len(briefs) \in Nat
    BY <1>0, <1>3
  <2> QED
    BY <1>3, <2>1, RowsAtPicked
<1> DEFINE T == {n \in 0 .. Len(rows) : Briefs(f[n]) # g[n]}
<1>6. ASSUME T # {} PROVE FALSE
  <2>0. T \in SUBSET Nat
    BY <1>0
  <2>1. PICK n \in T : \A k \in Nat : k < n => k \notin T
    BY <1>6, <2>0, LeastOf
  <2>2. n \in 0 .. Len(rows) /\ Briefs(f[n]) # g[n]
    BY <2>1
  <2> HIDE DEF T
  <2>3. /\ f[n] = IF n = 0 THEN << >> ELSE IF n \in places THEN Append(f[n - 1], rows[n]) ELSE f[n - 1]
        /\ g[n] = IF n = 0 THEN << >> ELSE IF n \in places THEN Append(g[n - 1], briefs[n]) ELSE g[n - 1]
    BY <1>0, <1>4, <1>5, <2>2 DEF Picked
  <2>4. CASE n = 0
    <3>1. f[n] = << >> /\ g[n] = << >>
      BY <2>3, <2>4
    <3>2. Briefs(<< >>) = << >>
      BY DEF Briefs
    <3> QED
      BY <2>2, <3>1, <3>2
  <2>5. CASE n # 0
    <3>1. n - 1 \in Nat /\ n - 1 < n /\ n - 1 \in 0 .. Len(rows) /\ n \in 1 .. Len(rows)
      BY <1>0, <2>2, <2>5
    <3>2. Briefs(f[n - 1]) = g[n - 1]
      BY <2>1, <3>1 DEF T
    <3>3. PICK old : old = f[n - 1]
      OBVIOUS
    <3>4. old \in Seq(S) /\ Len(old) \in Nat
      BY <1>4, <3>1, <3>3, PickedOrdered
    <3>5. CASE n \notin places
      BY <2>2, <2>3, <2>5, <3>2, <3>5
    <3>6. CASE n \in places
      <4>1. f[n] = Append(old, rows[n]) /\ g[n] = Append(Briefs(old), briefs[n])
        BY <2>3, <2>5, <3>2, <3>3, <3>6
      <4>2. PICK new : new = Append(old, rows[n])
        OBVIOUS
      <4>3. /\ DOMAIN new = 1 .. Len(old) + 1
            /\ \A k \in 1 .. Len(old) : new[k] = old[k]
            /\ new[Len(old) + 1] = rows[n]
        BY <3>1, <3>4, <4>2
      <4>4. Briefs(old) = [k \in 1 .. Len(old) |-> [id |-> old[k].id, done |-> old[k].done]]
        BY <3>4 DEF Briefs
      <4>5. PICK bold : bold = Briefs(old)
        OBVIOUS
      <4>6. PICK both : both = Append(bold, briefs[n])
        OBVIOUS
      <4>7. bold \in Seq(B) /\ Len(bold) = Len(old) /\ briefs[n] \in B
        <5>1. bold \in Seq(B)
          <6>1. g[n - 1] \in Seq(B)
            BY <1>3, <1>5, <3>1, PickedOrdered
          <6> QED
            BY <3>2, <3>3, <4>5, <6>1
        <5> QED
          BY <1>3, <3>1, <3>4, <4>4, <4>5, <5>1
      <4>8. /\ both \in Seq(B) /\ Len(both) = Len(old) + 1
            /\ \A k \in 1 .. Len(old) : both[k] = bold[k]
            /\ both[Len(old) + 1] = briefs[n]
        BY <3>4, <4>6, <4>7
      <4>9. Briefs(new) = [k \in 1 .. Len(old) + 1 |-> [id |-> new[k].id, done |-> new[k].done]]
        BY <4>3 DEF Briefs
      <4>10. PICK news : news = Briefs(new)
        OBVIOUS
      <4>11. ASSUME NEW k \in 1 .. Len(old) + 1
             PROVE  news[k] = both[k]
        <5>1. news[k] = [id |-> new[k].id, done |-> new[k].done]
          BY <4>9, <4>10
        <5>2. k \in 1 .. Len(old) \/ k = Len(old) + 1
          BY <3>4
        <5>3. CASE k \in 1 .. Len(old)
          BY <4>3, <4>4, <4>5, <4>8, <5>1, <5>3
        <5>4. CASE k = Len(old) + 1
          BY <1>3, <3>1, <4>3, <4>8, <5>1, <5>4
        <5> QED
          BY <5>2, <5>3, <5>4
      <4>12. both = [k \in 1 .. Len(old) + 1 |-> both[k]]
        BY <4>8, LenProperties
      <4>13. news = [k \in 1 .. Len(old) + 1 |-> news[k]]
        BY <4>9, <4>10
      <4>14. news = both
        BY <4>11, <4>12, <4>13
      <4> QED
        BY <2>2, <4>1, <4>2, <4>5, <4>6, <4>10, <4>14
    <3> QED
      BY <3>5, <3>6
  <2> QED
    BY <2>4, <2>5
<1>7. Len(rows) \in 0 .. Len(rows)
  BY <1>0
<1>8. Briefs(f[Len(rows)]) = g[Len(rows)]
  BY <1>6, <1>7
<1> QED
  BY <1>1, <1>4, <1>5, <1>8

-----------------------------------------------------------------------------
(***************************************************************************)
(* Rows that are moved.                                                    *)
(***************************************************************************)

LEMMA Slice ==
    ASSUME NEW S, NEW s \in Seq(S), NEW i \in Nat \ {0}, NEW j \in Nat, j <= Len(s)
    PROVE  /\ SubSeq(s, i, j) \in Seq(S)
           /\ i <= j + 1 => Len(SubSeq(s, i, j)) = j - i + 1
           /\ \A k \in 1 .. j - i + 1 : SubSeq(s, i, j)[k] = s[i + k - 1]
<1>1. i \in Int /\ j \in Int /\ Len(s) \in Nat
  OBVIOUS
<1>2. \A k \in i .. j : s[k] \in S
  BY <1>1
<1>3. /\ SubSeq(s, i, j) \in Seq(S)
      /\ Len(SubSeq(s, i, j)) = IF i <= j THEN j - i + 1 ELSE 0
      /\ \A k \in 1 .. j - i + 1 : SubSeq(s, i, j)[k] = s[i + k - 1]
  BY <1>1, <1>2, SubSeqProperties
<1> QED
  BY <1>3

\* All but one of the rows.
LEMMA RemovedRows ==
    ASSUME NEW S, NEW rows \in Seq(S), NEW from \in DOMAIN rows, NEW rest, rest = RemoveAt(rows, from)
    PROVE  /\ rest \in Seq(S) /\ Len(rest) = Len(rows) - 1
           /\ \A k \in DOMAIN rest : \E i \in DOMAIN rows : rest[k] = rows[i]
           /\ \A k, l \in DOMAIN rest : k # l =>
                 \E i, j \in DOMAIN rows : i # j /\ rest[k] = rows[i] /\ rest[l] = rows[j]
<1>1. PICK n : n = Len(rows)
  OBVIOUS
<1>2. n \in Nat /\ from \in 1 .. n /\ n >= 1 /\ DOMAIN rows = 1 .. n
  BY <1>1
<1>3. PICK head : head = SubSeq(rows, 1, from - 1)
  OBVIOUS
<1>4. PICK tail : tail = SubSeq(rows, from + 1, n)
  OBVIOUS
<1>5. /\ head \in Seq(S) /\ Len(head) = from - 1
      /\ \A k \in 1 .. from - 1 : head[k] = rows[k]
  <2>1. from - 1 \in Nat /\ from - 1 <= Len(rows) /\ 1 \in Nat \ {0} /\ 1 <= (from - 1) + 1
    BY <1>1, <1>2
  <2>2. /\ head \in Seq(S) /\ Len(head) = from - 1 - 1 + 1
        /\ \A k \in 1 .. from - 1 - 1 + 1 : head[k] = rows[1 + k - 1]
    BY <1>3, <2>1, Slice
  <2> QED
    BY <1>2, <2>2
<1>6. /\ tail \in Seq(S) /\ Len(tail) = n - from
      /\ \A k \in 1 .. n - from : tail[k] = rows[from + k]
  <2>1. from + 1 \in Nat \ {0} /\ n \in Nat /\ n <= Len(rows) /\ from + 1 <= n + 1
    BY <1>1, <1>2
  <2>2. /\ tail \in Seq(S) /\ Len(tail) = n - (from + 1) + 1
        /\ \A k \in 1 .. n - (from + 1) + 1 : tail[k] = rows[from + 1 + k - 1]
    BY <1>4, <2>1, Slice
  <2> QED
    BY <1>2, <2>2
<1>8. rest = head \o tail
  BY <1>1, <1>3, <1>4 DEF RemoveAt
<1>9. /\ rest \in Seq(S) /\ Len(rest) = n - 1
      /\ \A k \in 1 .. n - 1 : rest[k] = IF k <= from - 1 THEN head[k] ELSE tail[k - (from - 1)]
  <2>1. /\ rest \in Seq(S) /\ Len(rest) = Len(head) + Len(tail)
        /\ \A k \in 1 .. Len(head) + Len(tail) :
              rest[k] = IF k <= Len(head) THEN head[k] ELSE tail[k - Len(head)]
    BY <1>5, <1>6, <1>8, ConcatProperties
  <2>2. Len(head) + Len(tail) = n - 1
    BY <1>2, <1>5, <1>6
  <2> QED
    BY <1>5, <2>1, <2>2
<1>10. ASSUME NEW k \in 1 .. n - 1
       PROVE  \E i \in 1 .. n : rest[k] = rows[i] /\ i = IF k <= from - 1 THEN k ELSE k + 1
  <2>1. CASE k <= from - 1
    <3>1. k \in 1 .. n
      BY <1>2
    <3> QED
      BY <1>2, <1>5, <1>9, <2>1, <3>1
  <2>2. CASE ~ (k <= from - 1)
    <3>1. k - (from - 1) \in 1 .. n - from /\ from + (k - (from - 1)) = k + 1 /\ k + 1 \in 1 .. n
      BY <1>2, <2>2
    <3> QED
      BY <1>6, <1>9, <2>2, <3>1
  <2> QED
    BY <2>1, <2>2
<1>11. DOMAIN rest = 1 .. n - 1
  BY <1>9
<1>12. ASSUME NEW k \in 1 .. n - 1, NEW l \in 1 .. n - 1, k # l
       PROVE  \E i, j \in 1 .. n : i # j /\ rest[k] = rows[i] /\ rest[l] = rows[j]
  <2>1. PICK i \in 1 .. n : rest[k] = rows[i] /\ i = IF k <= from - 1 THEN k ELSE k + 1
    BY <1>10
  <2>2. PICK j \in 1 .. n : rest[l] = rows[j] /\ j = IF l <= from - 1 THEN l ELSE l + 1
    BY <1>10
  <2>3. i # j
    BY <1>2, <1>12, <2>1, <2>2
  <2> QED
    BY <2>1, <2>2, <2>3
<1> QED
  BY <1>1, <1>2, <1>9, <1>10, <1>11, <1>12

\* The rows are those that there were, the moved one among them.
LEMMA MovedRows ==
    ASSUME NEW S, NEW rows \in Seq(S), NEW from \in DOMAIN rows, NEW to \in Nat \ {0},
           NEW moved, moved = Moved(rows, from, to)
    PROVE  /\ moved \in Seq(S) /\ Len(moved) = Len(rows)
           /\ \A k \in DOMAIN moved : \E i \in DOMAIN rows : moved[k] = rows[i]
           /\ \E k \in DOMAIN moved : moved[k] = rows[from]
<1>1. PICK n : n = Len(rows)
  OBVIOUS
<1>2. n \in Nat /\ from \in 1 .. n /\ n >= 1 /\ DOMAIN rows = 1 .. n
  BY <1>1
<1>3. PICK at : at = IF to > n THEN n ELSE to
  OBVIOUS
<1>4. at \in 1 .. n
  BY <1>2, <1>3
<1>5. PICK rest : rest = RemoveAt(rows, from)
  OBVIOUS
<1>6. /\ rest \in Seq(S) /\ Len(rest) = n - 1
      /\ \A k \in 1 .. n - 1 : \E i \in 1 .. n : rest[k] = rows[i]
  <2>1. /\ rest \in Seq(S) /\ Len(rest) = n - 1
        /\ \A k \in DOMAIN rest : \E i \in DOMAIN rows : rest[k] = rows[i]
    <3>1. rows \in Seq(S) /\ from \in DOMAIN rows /\ rest = RemoveAt(rows, from)
      BY <1>5
    <3>2. rest \in Seq(S)
      BY <3>1, RemovedRows
    <3>3. Len(rest) = Len(rows) - 1
      BY <3>1, RemovedRows
    <3>4. \A k \in DOMAIN rest : \E i \in DOMAIN rows : rest[k] = rows[i]
      BY <3>1, RemovedRows
    <3> QED
      BY <1>1, <3>2, <3>3, <3>4
  <2> QED
    BY <1>2, <2>1
<1>7. moved = Moved(rows, from, to)
  OBVIOUS
<1>8. PICK head : head = SubSeq(rest, 1, at - 1)
  OBVIOUS
<1>9. PICK tail : tail = SubSeq(rest, at, n - 1)
  OBVIOUS
<1>10. PICK one : one = << rows[from] >>
  OBVIOUS
<1>11. moved = (head \o one) \o tail
  BY <1>1, <1>3, <1>5, <1>6, <1>7, <1>8, <1>9, <1>10 DEF Moved, InsertAt
<1>12. one \in Seq(S) /\ Len(one) = 1 /\ one[1] = rows[from]
  BY <1>2, <1>10
<1>13. head \in Seq(S) /\ Len(head) = at - 1 /\ \A k \in 1 .. at - 1 : head[k] = rest[k]
  <2>1. at - 1 \in Nat /\ at - 1 <= Len(rest) /\ 1 \in Nat \ {0} /\ 1 <= (at - 1) + 1
    BY <1>2, <1>4, <1>6
  <2>2. /\ head \in Seq(S) /\ Len(head) = at - 1 - 1 + 1
        /\ \A k \in 1 .. at - 1 - 1 + 1 : head[k] = rest[1 + k - 1]
    BY <1>6, <1>8, <2>1, Slice
  <2> QED
    BY <1>4, <2>2
<1>14. tail \in Seq(S) /\ Len(tail) = n - at /\ \A k \in 1 .. n - at : tail[k] = rest[at + k - 1]
  <2>1. at \in Nat \ {0} /\ n - 1 \in Nat /\ n - 1 <= Len(rest) /\ at <= (n - 1) + 1
    BY <1>2, <1>4, <1>6
  <2>2. /\ tail \in Seq(S) /\ Len(tail) = n - 1 - at + 1
        /\ \A k \in 1 .. n - 1 - at + 1 : tail[k] = rest[at + k - 1]
    BY <1>6, <1>9, <2>1, Slice
  <2> QED
    BY <1>2, <1>4, <2>2
<1>15. PICK most : most = head \o one
  OBVIOUS
<1>16. /\ most \in Seq(S) /\ Len(most) = at
       /\ \A k \in 1 .. at : most[k] = IF k <= at - 1 THEN head[k] ELSE one[k - (at - 1)]
  <2>1. /\ most \in Seq(S) /\ Len(most) = Len(head) + Len(one)
        /\ \A k \in 1 .. Len(head) + Len(one) :
              most[k] = IF k <= Len(head) THEN head[k] ELSE one[k - Len(head)]
    BY <1>12, <1>13, <1>15, ConcatProperties
  <2>2. Len(head) + Len(one) = at
    BY <1>4, <1>12, <1>13
  <2> QED
    BY <1>13, <2>1, <2>2
<1>17. /\ moved \in Seq(S) /\ Len(moved) = n
       /\ \A k \in 1 .. n : moved[k] = IF k <= at THEN most[k] ELSE tail[k - at]
  <2>1. /\ moved \in Seq(S) /\ Len(moved) = Len(most) + Len(tail)
        /\ \A k \in 1 .. Len(most) + Len(tail) :
              moved[k] = IF k <= Len(most) THEN most[k] ELSE tail[k - Len(most)]
    <3>1. most \in Seq(S) /\ tail \in Seq(S) /\ moved = most \o tail
      BY <1>11, <1>14, <1>15, <1>16
    <3> QED
      BY <3>1, ConcatProperties
  <2>2. Len(most) + Len(tail) = n
    BY <1>2, <1>4, <1>14, <1>16
  <2> QED
    BY <1>16, <2>1, <2>2
<1>18. ASSUME NEW k \in 1 .. n PROVE \E i \in 1 .. n : moved[k] = rows[i]
  <2>1. CASE k <= at - 1
    <3>1. k \in 1 .. at - 1 /\ k \in 1 .. at /\ k \in 1 .. n - 1 /\ k <= at
      BY <1>2, <1>4, <2>1
    <3>2. moved[k] = rest[k]
      BY <1>13, <1>16, <1>17, <2>1, <3>1
    <3> QED
      BY <1>6, <3>1, <3>2
  <2>2. CASE k = at
    <3>1. ~ (at <= at - 1) /\ at - (at - 1) = 1 /\ at <= at /\ at \in 1 .. at
      BY <1>4
    <3> QED
      BY <1>2, <1>12, <1>16, <1>17, <2>2, <3>1
  <2>3. CASE k > at
    <3>1. k - at \in 1 .. n - at /\ at + (k - at) - 1 = k - 1 /\ k - 1 \in 1 .. n - 1 /\ ~ (k <= at)
      BY <1>2, <1>4, <2>3
    <3>2. moved[k] = rest[k - 1]
      BY <1>14, <1>17, <3>1
    <3> QED
      BY <1>6, <3>1, <3>2
  <2>4. k <= at - 1 \/ k = at \/ k > at
    BY <1>4
  <2> QED
    BY <2>1, <2>2, <2>3, <2>4
<1>19. at \in 1 .. n /\ moved[at] = rows[from]
  <2>1. ~ (at <= at - 1) /\ at - (at - 1) = 1 /\ at <= at /\ at \in 1 .. at
    BY <1>4
  <2> QED
    BY <1>4, <1>12, <1>16, <1>17, <2>1
<1>20. DOMAIN moved = 1 .. n
  BY <1>17
<1> QED
  <2>1. moved \in Seq(S) /\ (\A k \in DOMAIN moved : \E i \in DOMAIN rows : moved[k] = rows[i])
    BY <1>2, <1>17, <1>18, <1>20
  <2>2. \E k \in DOMAIN moved : moved[k] = rows[from]
    BY <1>19, <1>20
  <2> QED
    BY <1>1, <1>17, <2>1, <2>2

-----------------------------------------------------------------------------
(***************************************************************************)
(* What is stored stays well formed.                                       *)
(***************************************************************************)

LEMMA Appended ==
    ASSUME NEW S, NEW s \in Seq(S), NEW x \in S
    PROVE  /\ Append(s, x) \in Seq(S) /\ Append(s, x) # << >>
           /\ Len(Append(s, x)) = Len(s) + 1 /\ Last(Append(s, x)) = x
           /\ DOMAIN Append(s, x) = DOMAIN s \cup {Len(s) + 1}
           /\ \A k \in DOMAIN s : Append(s, x)[k] = s[k]
           /\ Append(s, x)[Len(s) + 1] = x
<1>1. PICK t : t = Append(s, x)
  OBVIOUS
<1>2. /\ t \in Seq(S) /\ Len(t) = Len(s) + 1 /\ t[Len(s) + 1] = x
      /\ \A k \in 1 .. Len(s) : t[k] = s[k]
  BY <1>1
<1>3. Len(s) \in Nat /\ DOMAIN s = 1 .. Len(s) /\ DOMAIN t = 1 .. Len(s) + 1
  BY <1>2
<1>4. t # << >>
  BY <1>2, <1>3
<1>5. Last(t) = x
  BY <1>2 DEF Last
<1>6. DOMAIN t = DOMAIN s \cup {Len(s) + 1}
  BY <1>3
<1> QED
  BY <1>1, <1>2, <1>3, <1>4, <1>5, <1>6

LEMMA Joined ==
    ASSUME NEW S, NEW s \in Seq(S), NEW t \in Seq(S), NEW u, u = s \o t
    PROVE  /\ u \in Seq(S) /\ Len(u) = Len(s) + Len(t)
           /\ \A k \in DOMAIN s : k \in DOMAIN u /\ u[k] = s[k]
           /\ \A k \in DOMAIN t : Len(s) + k \in DOMAIN u /\ u[Len(s) + k] = t[k]
           /\ \A k \in DOMAIN u : k \in DOMAIN s \/ (k - Len(s) \in DOMAIN t /\ u[k] = t[k - Len(s)])
<1>1. Len(s) \in Nat /\ Len(t) \in Nat /\ DOMAIN s = 1 .. Len(s) /\ DOMAIN t = 1 .. Len(t)
  OBVIOUS
<1>2. s \o t \in Seq(S)
  OBVIOUS
<1>3. Len(s \o t) = Len(s) + Len(t)
  OBVIOUS
<1>4. \A k \in 1 .. Len(s) + Len(t) : (s \o t)[k] = IF k <= Len(s) THEN s[k] ELSE t[k - Len(s)]
  BY ConcatProperties
<1>5. DOMAIN u = 1 .. Len(s) + Len(t)
  BY <1>2, <1>3
<1>6. ASSUME NEW k \in DOMAIN s PROVE k \in DOMAIN u /\ u[k] = s[k]
  BY <1>1, <1>4, <1>5
<1>7. ASSUME NEW k \in DOMAIN t PROVE Len(s) + k \in DOMAIN u /\ u[Len(s) + k] = t[k]
  <2>1. Len(s) + k \in 1 .. Len(s) + Len(t) /\ ~ (Len(s) + k <= Len(s)) /\ Len(s) + k - Len(s) = k
    BY <1>1
  <2>2. (s \o t)[Len(s) + k] = t[Len(s) + k - Len(s)]
    BY <1>4, <2>1
  <2> QED
    BY <1>5, <2>1, <2>2
<1>8. ASSUME NEW k \in DOMAIN u PROVE k \in DOMAIN s \/ (k - Len(s) \in DOMAIN t /\ u[k] = t[k - Len(s)])
  <2>1. CASE k <= Len(s)
    BY <1>1, <1>5, <2>1
  <2>2. CASE ~ (k <= Len(s))
    <3>1. k - Len(s) \in DOMAIN t
      BY <1>1, <1>5, <2>2
    <3> QED
      BY <1>4, <1>5, <2>2, <3>1
  <2> QED
    BY <2>1, <2>2
<1> QED
  BY <1>2, <1>3, <1>6, <1>7, <1>8

LEMMA LastOf ==
    ASSUME NEW S, NEW s \in Seq(S), s # << >>
    PROVE  /\ Last(s) \in S /\ Last(s) = s[Len(s)] /\ Len(s) \in DOMAIN s /\ Len(s) \in Nat \ {0}
<1>1. Len(s) \in Nat \ {0}
  BY EmptySeq
<1>2. Len(s) \in DOMAIN s
  BY <1>1
<1> QED
  BY <1>1, <1>2 DEF Last

LEMMA CurrentTyped ==
    ASSUME StoreTyped
    PROVE  /\ Current \in Seq(Items) /\ Current = items[Len(items)] /\ Len(items) \in DOMAIN items
           /\ CurrentLists \in SUBSET Listed /\ CurrentLists = lists[Len(lists)]
           /\ Len(lists) \in DOMAIN lists /\ Len(items) \in Nat \ {0} /\ Len(lists) \in Nat \ {0}
BY LastOf DEF StoreTyped, Current, CurrentLists

\* The items that a call leaves are of those that there were, and the one that it creates.
LEMMA EffectTyped ==
    ASSUME NEW c \in Calls, CallRight(c), NEW rows \in Seq(Items)
    PROVE  /\ Effect(c, rows) \in Seq(Items) \/ c.op = "deleteList"
           /\ c.op # "deleteList" =>
                \A k \in DOMAIN Effect(c, rows) :
                  \/ \E i \in DOMAIN rows : Effect(c, rows)[k].id = rows[i].id
                  \/ c.op = "create" /\ Effect(c, rows)[k].id \in c.ids
<1>1. PICK made : made = Effect(c, rows)
  OBVIOUS
<1>2. c.done \in BOOLEAN /\ c.ids \in SUBSET ItemIds /\ c.from \in Nat /\ c.to \in Nat
      /\ c.op \in {"create", "setIsDone", "reactivate", "delete", "reorder", "deleteList"}
  BY DEF Calls
<1>3. DOMAIN rows = 1 .. Len(rows) /\ Len(rows) \in Nat
  OBVIOUS
<1>4. CASE c.op = "create"
  <2>1. PICK id : id = (CHOOSE i \in c.ids : TRUE)
    OBVIOUS
  <2>2. id \in c.ids /\ id \in ItemIds
    BY <1>2, <1>4, <2>1 DEF CallRight
  <2>3. PICK new : new = [k \in 1 .. 1 |-> [id |-> id, done |-> c.done]]
    OBVIOUS
  <2>4. new \in Seq(Items) /\ Len(new) = 1 /\ new[1].id = id
    <3>1. [id |-> id, done |-> c.done] \in Items
      BY <1>2, <2>2 DEF Items, ItemIds
    <3> QED
      BY <2>3, <3>1
  <2>5. made = rows \o new
    BY <1>1, <1>4, <2>1, <2>3 DEF Effect
  <2>6. made \in Seq(Items) /\ (\A k \in DOMAIN rows : made[k] = rows[k])
    <3>1. new \in Seq(Items) /\ made = rows \o new
      BY <2>4, <2>5
    <3>2. made \in Seq(Items)
      BY <3>1, Joined
    <3>3. \A k \in DOMAIN rows : k \in DOMAIN made /\ made[k] = rows[k]
      BY <3>1, Joined
    <3> QED
      BY <3>2, <3>3
  <2>7. ASSUME NEW k \in DOMAIN made
        PROVE  (\E i \in DOMAIN rows : made[k].id = rows[i].id) \/ made[k].id \in c.ids
    <3>1. new \in Seq(Items) /\ made = rows \o new
      BY <2>4, <2>5
    <3>2. \A j \in DOMAIN made : j \in DOMAIN rows \/ (j - Len(rows) \in DOMAIN new /\ made[j] = new[j - Len(rows)])
      BY <3>1, Joined
    <3>3. CASE k \in DOMAIN rows
      <4>1. made[k] = rows[k]
        BY <2>6, <3>3
      <4> QED
        BY <3>3, <4>1
    <3>4. CASE k - Len(rows) \in DOMAIN new /\ made[k] = new[k - Len(rows)]
      <4>1. k - Len(rows) = 1
        BY <2>4, <3>4
      <4> QED
        BY <2>2, <2>4, <3>4, <4>1
    <3> QED
      BY <3>2, <3>3, <3>4
  <2> QED
    BY <1>1, <1>4, <2>6, <2>7
<1>5. CASE c.op \in {"setIsDone", "reactivate"}
  <2>1. made = [k \in DOMAIN rows |-> IF rows[k].id \in c.ids THEN [rows[k] EXCEPT !.done = c.done] ELSE rows[k]]
    BY <1>1, <1>5 DEF Effect
  <2>2. ASSUME NEW k \in DOMAIN rows
        PROVE  made[k] \in Items /\ made[k].id = rows[k].id
    <3>1. rows[k] \in Items
      BY <1>3
    <3>2. [rows[k] EXCEPT !.done = c.done] \in Items /\ [rows[k] EXCEPT !.done = c.done].id = rows[k].id
      BY <1>2, <3>1 DEF Items
    <3> QED
      BY <2>1, <3>1, <3>2
  <2>3. made \in Seq(Items) /\ DOMAIN made = DOMAIN rows
    BY <1>3, <2>1, <2>2
  <2> QED
    BY <1>1, <1>5, <2>2, <2>3
<1>6. CASE c.op = "delete"
  <2>1. PICK kept : kept = {k \in DOMAIN rows : rows[k].id \notin c.ids}
    OBVIOUS
  <2>2. made = RowsAt(rows, kept)
    BY <1>1, <1>6, <2>1 DEF Effect
  <2>3. made \in Seq(Items) /\ \A k \in DOMAIN made : \E i \in DOMAIN rows : made[k] = rows[i]
    BY <2>2, RowsAtRows
  <2> QED
    BY <1>1, <1>6, <2>3
<1>7. CASE c.op = "reorder"
  <2>1. CASE \E k \in DOMAIN rows : rows[k].id \in c.ids
    <3>1. PICK from : from = (CHOOSE k \in DOMAIN rows : rows[k].id \in c.ids)
      OBVIOUS
    <3>2. from \in DOMAIN rows
      BY <2>1, <3>1
    <3>6. c.to \in Nat \ {0}
      BY <1>2, <1>7 DEF CallRight
    <3>7. rows \in Seq(Items)
      OBVIOUS
    <3>3. made = Moved(rows, from, c.to)
      BY <1>1, <1>7, <2>1, <3>1 DEF Effect
    <3>8. made \in Seq(Items)
      BY <3>2, <3>3, <3>6, <3>7, MovedRows
    <3>5. \A k \in DOMAIN made : \E i \in DOMAIN rows : made[k] = rows[i]
      BY <3>2, <3>3, <3>6, <3>7, MovedRows
    <3> QED
      BY <1>1, <1>7, <3>8, <3>5
  <2>2. CASE ~ \E k \in DOMAIN rows : rows[k].id \in c.ids
    <3>1. made = rows
      BY <1>1, <1>7, <2>2 DEF Effect
    <3> QED
      BY <1>1, <1>7, <3>1
  <2> QED
    BY <2>1, <2>2
<1>8. CASE c.op = "deleteList"
  BY <1>8
<1> QED
  BY <1>2, <1>4, <1>5, <1>6, <1>7, <1>8

\* What was there once is so still, and what is created is, if it was not there: no call
\* but one that moves a row takes it from its place.
LEMMA EffectOnce ==
    ASSUME NEW c \in Calls, CallRight(c), NEW rows \in Seq(Items), NEW id, OnceIn(rows, id),
           c.op \in {"create", "setIsDone", "reactivate", "delete"},
           c.op = "create" /\ id \in c.ids => id \notin IdsOf(rows)
    PROVE  OnceIn(Effect(c, rows), id)
<1>1. PICK made : made = Effect(c, rows)
  OBVIOUS
<1>2. DOMAIN rows = 1 .. Len(rows) /\ Len(rows) \in Nat /\ c.done \in BOOLEAN
  BY DEF Calls
<1>3. CASE c.op = "create"
  <2>1. PICK new : new = [k \in 1 .. 1 |-> [id |-> CHOOSE i \in c.ids : TRUE, done |-> c.done]]
    OBVIOUS
  <2>2. made = rows \o new
    BY <1>1, <1>3, <2>1 DEF Effect
  <2>3. new \in Seq(Items) /\ Len(new) = 1 /\ new[1].id \in c.ids /\ DOMAIN new = {1}
    <3>1. [id |-> CHOOSE i \in c.ids : TRUE, done |-> c.done] \in Items /\ (CHOOSE i \in c.ids : TRUE) \in c.ids
      BY <1>2, <1>3 DEF Items, Calls, CallRight
    <3> QED
      BY <2>1, <3>1
  <2>0. new \in Seq(Items) /\ made = rows \o new
    BY <2>2, <2>3
  <2>4. \A k \in DOMAIN rows : made[k] = rows[k]
    BY <2>0, Joined
  <2>5. \A k \in DOMAIN made : k \in DOMAIN rows \/ (k - Len(rows) \in DOMAIN new /\ made[k] = new[k - Len(rows)])
    BY <2>0, Joined
  <2>6. made \in Seq(Items)
    BY <2>0, Joined
  <2>7. ASSUME NEW k \in DOMAIN made PROVE k \in DOMAIN rows \/ (k = Len(rows) + 1 /\ made[k].id \in c.ids)
    <3>1. k \in Int
      BY <2>6
    <3>2. CASE k - Len(rows) \in DOMAIN new /\ made[k] = new[k - Len(rows)]
      <4>1. k - Len(rows) = 1
        BY <2>3, <3>2
      <4>2. k = Len(rows) + 1
        BY <1>2, <3>1, <4>1
      <4> QED
        BY <2>3, <3>2, <4>1, <4>2
    <3> QED
      BY <2>5, <3>2
  <2>8. c.ids = {new[1].id}
    BY <1>3, <2>3 DEF CallRight
  <2>9. ASSUME NEW j \in DOMAIN made, NEW k \in DOMAIN made, made[j].id = id, made[k].id = id PROVE j = k
    <3>1. CASE j \in DOMAIN rows /\ k \in DOMAIN rows
      BY <2>4, <2>9, <3>1 DEF OnceIn
    <3>2. ASSUME NEW l \in DOMAIN rows, made[l].id = id, id \in c.ids PROVE FALSE
      BY <1>3, <2>4, <3>2 DEF IdsOf
    <3> QED
      BY <2>7, <2>9, <3>1, <3>2
  <2> QED
    BY <1>1, <2>9 DEF OnceIn
<1>4. CASE c.op \in {"setIsDone", "reactivate"}
  <2>1. made = [k \in DOMAIN rows |-> IF rows[k].id \in c.ids THEN [rows[k] EXCEPT !.done = c.done] ELSE rows[k]]
    BY <1>1, <1>4 DEF Effect
  <2>2. ASSUME NEW k \in DOMAIN rows PROVE made[k].id = rows[k].id
    <3>1. rows[k] \in Items
      BY <1>2
    <3>2. [rows[k] EXCEPT !.done = c.done].id = rows[k].id
      BY <3>1 DEF Items
    <3> QED
      BY <2>1, <3>2
  <2> QED
    BY <1>1, <2>1, <2>2 DEF OnceIn
<1>5. CASE c.op = "delete"
  <2>1. PICK kept : kept = {k \in DOMAIN rows : rows[k].id \notin c.ids}
    OBVIOUS
  <2>2. made = RowsAt(rows, kept)
    BY <1>1, <1>5, <2>1 DEF Effect
  <2>3. \A k, l \in DOMAIN made : k # l => \E i, j \in DOMAIN rows : i # j /\ made[k] = rows[i] /\ made[l] = rows[j]
    BY <2>2, RowsAtRows
  <2> QED
    BY <1>1, <2>3 DEF OnceIn
<1> QED
  BY <1>3, <1>4, <1>5

LEMMA CountedTyped ==
    ASSUME NEW rows \in Seq(Items), CurrentLists \in SUBSET Listed
    PROVE  /\ Counted(rows) \in SUBSET Listed
           /\ OneEach(CurrentLists) => OneEach(Counted(rows))
<1>1. Len(rows) \in Nat
  OBVIOUS
<1>2. ASSUME NEW l \in CurrentLists
      PROVE  /\ (IF l.id = ThisList THEN [l EXCEPT !.count = Len(rows)] ELSE l) \in Listed
             /\ (IF l.id = ThisList THEN [l EXCEPT !.count = Len(rows)] ELSE l).id = l.id
  BY <1>1 DEF Listed
<1>3. Counted(rows) \in SUBSET Listed
  BY <1>2 DEF Counted
<1>4. ASSUME OneEach(CurrentLists), NEW a \in Counted(rows), NEW b \in Counted(rows), a.id = b.id PROVE a = b
  <2>1. PICK l \in CurrentLists : a = IF l.id = ThisList THEN [l EXCEPT !.count = Len(rows)] ELSE l
    BY DEF Counted
  <2>2. PICK m \in CurrentLists : b = IF m.id = ThisList THEN [m EXCEPT !.count = Len(rows)] ELSE m
    BY DEF Counted
  <2>3. l.id = m.id
    BY <1>2, <1>4, <2>1, <2>2
  <2> QED
    BY <1>4, <2>1, <2>2, <2>3 DEF OneEach
<1> QED
  BY <1>3, <1>4 DEF OneEach

-----------------------------------------------------------------------------
(***************************************************************************)
(* Calls go on as what they were.                                          *)
(***************************************************************************)

Same(d, c) ==
    /\ d.no = c.no /\ d.op = c.op /\ d.ids = c.ids /\ d.list = c.list /\ d.done = c.done
    /\ d.from = c.from /\ d.to = c.to /\ d.gen = c.gen

LEMMA SameRight ==
    ASSUME NEW c, NEW d, CallRight(c), Same(d, c)
    PROVE  CallRight(d)
BY DEF CallRight, Same

LEMMA MadeCall ==
    ASSUME StoreTyped, NEW op \in {"create", "setIsDone", "reactivate", "delete", "reorder", "deleteList"},
           NEW ids \in SUBSET ItemIds, NEW c, c = NewCall(op, ids)
    PROVE  /\ c \in Calls /\ c.no = budget.calls /\ c.op = op /\ c.ids = ids /\ c.list = ThisList /\ ~c.done
           /\ c.from = 0 /\ c.to = 0 /\ c.gen = 0 /\ c.stage = "sent" /\ c.heard /\ c.here
<1>1. budget.calls \in Nat
  BY DEF StoreTyped, Budgets
<1>2. c \in Calls
  BY <1>1, StoreAssumption DEF NewCall, Calls
<1> QED
  BY <1>2 DEF NewCall

LEMMA SpentTyped ==
    ASSUME StoreTyped, MayCall
    PROVE  Spent \in Budgets /\ Spent.calls = budget.calls - 1 /\ Spent.ids = budget.ids
<1>1. budget \in Budgets /\ budget.calls \in Nat \ {0}
  BY DEF StoreTyped, MayCall, Budgets
<1>2. budget.calls - 1 \in Nat
  BY <1>1
<1> QED
  BY <1>1, <1>2 DEF Spent, Budgets

\* Calls go on, some of them without their row: those that mark one.
Follow(ds, cs) ==
    /\ \A c : c.op # "setIsDone" => (c \in ds <=> c \in cs)
    /\ \A d \in ds : \E c \in cs : Same(d, c) /\ d.stage = c.stage /\ d.heard = c.heard

LEMMA LeavingSame ==
    ASSUME NEW cs, CallsTyped(cs), NEW pg, NEW ds, ds = Leaving(cs, pg)
    PROVE  CallsTyped(ds) /\ Follow(ds, cs)
<1> DEFINE left(c) == IF c.op = "setIsDone" /\ \E id \in c.ids : ~Has(pg.shown, id) THEN [c EXCEPT !.here = FALSE] ELSE c
<1>1. ds = {left(c) : c \in cs}
  BY DEF Leaving
<1>2. ASSUME NEW c \in cs
      PROVE  /\ left(c) \in Calls /\ Same(left(c), c) /\ left(c).stage = c.stage /\ left(c).heard = c.heard
             /\ c.op # "setIsDone" => left(c) = c
  <2>1. c \in Calls
    BY DEF CallsTyped
  <2>2. PICK gone : gone = [c EXCEPT !.here = FALSE]
    OBVIOUS
  <2>3. gone \in Calls /\ Same(gone, c) /\ gone.stage = c.stage /\ gone.heard = c.heard
    BY <2>1, <2>2 DEF Calls, Same
  <2>4. (left(c) = gone /\ c.op = "setIsDone") \/ left(c) = c
    BY <2>2
  <2> QED
    BY <2>1, <2>3, <2>4 DEF Same
<1> HIDE DEF left
<1>3. \A d \in ds : d \in Calls /\ \E c \in cs : Same(d, c) /\ d.stage = c.stage /\ d.heard = c.heard
  BY <1>1, <1>2
<1>4. ASSUME NEW d \in ds PROVE CallRight(d)
  <2>1. PICK c \in cs : Same(d, c)
    BY <1>3
  <2>2. CallRight(c)
    BY DEF CallsTyped
  <2> QED
    BY <2>1, <2>2, SameRight
<1>5. ASSUME NEW c, c.op # "setIsDone" PROVE c \in ds <=> c \in cs
  <2>1. ASSUME c \in cs PROVE c \in ds
    BY <1>1, <1>2, <1>5, <2>1
  <2>2. ASSUME c \in ds PROVE c \in cs
    <3>1. PICK old \in cs : c = left(old)
      BY <1>1, <2>2
    <3>2. old.op # "setIsDone"
      BY <1>2, <1>5, <3>1 DEF Same
    <3> QED
      BY <1>2, <3>1, <3>2
  <2> QED
    BY <2>1, <2>2
<1> QED
  BY <1>3, <1>4, <1>5 DEF CallsTyped, Follow

\* A call served, or lost.
Staged(c, stage, ds) ==
    /\ \A d \in ds : d \in calls \/ (Same(d, c) /\ d.stage = stage /\ d.heard = c.heard)
    /\ \A d \in calls : d = c \/ d \in ds
    /\ \E d \in ds : Same(d, c) /\ d.stage = stage /\ d.heard = c.heard /\ ds = (calls \ {c}) \cup {d}

LEMMA StagedSame ==
    ASSUME CallsTyped(calls), NEW c \in calls, NEW stage \in {"done", "failed"},
           NEW ds, ds = (calls \ {c}) \cup {[c EXCEPT !.stage = stage]}
    PROVE  CallsTyped(ds) /\ Staged(c, stage, ds)
<1>1. c \in Calls /\ CallRight(c)
  BY DEF CallsTyped
<1>2. PICK staged : staged = [c EXCEPT !.stage = stage]
  OBVIOUS
<1>3. staged \in Calls /\ Same(staged, c) /\ staged.stage = stage /\ staged.heard = c.heard
  BY <1>1, <1>2 DEF Calls, Same
<1>4. CallRight(staged)
  BY <1>1, <1>3, SameRight
<1>5. ds = (calls \ {c}) \cup {staged}
  BY <1>2
<1>6. CallsTyped(ds)
  BY <1>3, <1>4, <1>5 DEF CallsTyped
<1> QED
  BY <1>3, <1>5, <1>6 DEF Staged

\* Calls that are not heard any more.
Deafened(deaf, ds) ==
    /\ \A d \in ds : \E c \in calls : /\ Same(d, c) /\ d.stage = c.stage
                                      /\ (c \in deaf /\ ~d.heard) \/ (c \notin deaf /\ d = c)
    /\ \A c \in calls : c \notin deaf => c \in ds

LEMMA UnheardSame ==
    ASSUME CallsTyped(calls), NEW deaf, NEW ds,
           ds = {IF c \in deaf THEN [c EXCEPT !.heard = FALSE] ELSE c : c \in calls}
    PROVE  CallsTyped(ds) /\ Deafened(deaf, ds)
<1> DEFINE left(c) == IF c \in deaf THEN [c EXCEPT !.heard = FALSE] ELSE c
<1>1. ds = {left(c) : c \in calls}
  OBVIOUS
<1>2. ASSUME NEW c \in calls
      PROVE  /\ left(c) \in Calls /\ Same(left(c), c) /\ left(c).stage = c.stage
             /\ ((c \in deaf /\ ~left(c).heard) \/ (c \notin deaf /\ left(c) = c))
  <2>1. c \in Calls
    BY DEF CallsTyped
  <2>2. PICK gone : gone = [c EXCEPT !.heard = FALSE]
    OBVIOUS
  <2>3. gone \in Calls /\ Same(gone, c) /\ gone.stage = c.stage /\ ~gone.heard
    BY <2>1, <2>2 DEF Calls, Same
  <2>4. (left(c) = gone /\ c \in deaf) \/ (left(c) = c /\ c \notin deaf)
    BY <2>2
  <2> QED
    BY <2>1, <2>3, <2>4 DEF Same
<1> HIDE DEF left
<1>3. \A d \in ds : d \in Calls /\ \E c \in calls : Same(d, c) /\ d.stage = c.stage
                                             /\ ((c \in deaf /\ ~d.heard) \/ (c \notin deaf /\ d = c))
  BY <1>1, <1>2
<1>4. ASSUME NEW d \in ds PROVE CallRight(d)
  <2>1. PICK c \in calls : Same(d, c)
    BY <1>3
  <2>2. CallRight(c)
    BY DEF CallsTyped
  <2> QED
    BY <2>1, <2>2, SameRight
<1>5. \A c \in calls : c \notin deaf => c \in ds
  BY <1>1, <1>2
<1> QED
  BY <1>3, <1>4, <1>5 DEF CallsTyped, Deafened

-----------------------------------------------------------------------------
(***************************************************************************)
(* What each step does to the list's page.                                 *)
(***************************************************************************)

LEMMA PassingRows ==
    ASSUME NEW S, NEW filter, NEW rows \in Seq(S), NEW passing, passing = Passing(filter, rows)
    PROVE  /\ passing \in Seq(S)
           /\ \A k \in DOMAIN passing : \E i \in DOMAIN rows : passing[k] = rows[i]
<1>1. PICK places : places = {k \in DOMAIN rows : Passes(filter, rows[k])}
  OBVIOUS
<1>2. passing = RowsAt(rows, places)
  BY <1>1 DEF Passing
<1>3. rows \in Seq(S)
  OBVIOUS
<1>4. RowsAt(rows, places) \in Seq(S)
  BY <1>3, RowsAtRows
<1>5. \A k \in DOMAIN RowsAt(rows, places) :
         \E i \in DOMAIN rows : i \in places /\ RowsAt(rows, places)[k] = rows[i]
  BY <1>3, RowsAtRows
<1> QED
  BY <1>2, <1>4, <1>5

\* All that a page has but what is shown of it, and which of its rows are busy or swiped.
AsPage(new, pg) ==
    /\ new.alive = pg.alive /\ new.filter = pg.filter /\ new.all = pg.all /\ new.adding = pg.adding
    /\ new.typed = pg.typed /\ new.detecting = pg.detecting /\ new.performing = pg.performing
    /\ new.seen = pg.seen /\ new.swiping \subseteq pg.swiping

LEMMA PageFields ==
    ASSUME NEW pg \in ListPages
    PROVE  /\ pg.alive \in BOOLEAN /\ pg.filter \in Filters /\ pg.all \in Seq(Rows) /\ pg.shown \in Seq(Rows)
           /\ pg.adding \in Seq(Rows) /\ pg.typed \in BOOLEAN /\ pg.detecting \in Seq(ItemIds)
           /\ pg.performing \in BOOLEAN /\ pg.swiping \in SUBSET Swipes /\ pg.busy \in SUBSET ItemIds
           /\ pg.stuck \in SUBSET ItemIds /\ pg.seen \in Nat
BY DEF ListPages

LEMMA FilteredRows ==
    ASSUME NEW pg \in ListPages, NEW shown, shown = Filtered(pg)
    PROVE  shown \in Seq(Rows)
<1>1. pg.all \in Seq(Rows) /\ pg.adding \in Seq(Rows)
  BY PageFields
<1>2. PICK passing : passing = Passing(pg.filter, pg.all)
  OBVIOUS
<1>3. passing \in Seq(Rows)
  BY <1>1, <1>2, PassingRows
<1>4. shown = passing \o pg.adding
  BY <1>2 DEF Filtered
<1> QED
  BY <1>1, <1>3, <1>4, Joined

LEMMA Applied ==
    ASSUME NEW pg \in ListPages, NEW new, new = ApplyFilter(pg)
    PROVE  new \in ListPages /\ AsPage(new, pg) /\ new.shown = Filtered(pg) /\ new.shown = Filtered(new)
<1>1. PICK shown : shown = Filtered(pg)
  OBVIOUS
<1>2. shown \in Seq(Rows)
  BY <1>1, FilteredRows
<1>3. PICK busy, stuck, swiping :
         /\ busy = {id \in pg.busy : Has(shown, id)} /\ stuck = {id \in pg.stuck : Has(shown, id)}
         /\ swiping = {s \in pg.swiping : Has(shown, s.row.id)}
  OBVIOUS
<1>4. busy \in SUBSET ItemIds /\ stuck \in SUBSET ItemIds /\ swiping \subseteq pg.swiping
      /\ swiping \in SUBSET Swipes
  BY <1>3, PageFields
<1>5. new = [pg EXCEPT !.shown = shown, !.busy = busy, !.stuck = stuck, !.swiping = swiping]
  BY <1>1, <1>3 DEF ApplyFilter
<1>6. new \in ListPages
  BY <1>2, <1>4, <1>5 DEF ListPages
<1>7. AsPage(new, pg) /\ new.shown = shown
  BY <1>4, <1>5 DEF ListPages, AsPage
<1>8. Filtered(new) = Filtered(pg)
  BY <1>7 DEF AsPage, Filtered
<1> QED
  BY <1>1, <1>6, <1>7, <1>8

\* What a step that filters the rows anew leaves.
Anew(pg, cs) ==
    /\ list' \in ListPages /\ AsPage(list', pg) /\ list'.shown = Filtered(list')
    /\ CallsTyped(calls') /\ Follow(calls', cs)

LEMMA Shown ==
    ASSUME NEW pg \in ListPages, NEW cs, CallsTyped(cs), Shows(pg, cs)
    PROVE  Anew(pg, cs)
<1>1. Goes(ApplyFilter(pg), cs)
  BY DEF Shows
<1>2. list' = ApplyFilter(pg) /\ calls' = Leaving(cs, list')
  BY <1>1 DEF Goes
<1>3. pg \in ListPages /\ list' = ApplyFilter(pg)
  BY <1>2
<1>4. list' \in ListPages /\ AsPage(list', pg) /\ list'.shown = Filtered(list')
  BY <1>3, Applied
<1>5. CallsTyped(calls') /\ Follow(calls', cs)
  BY <1>2, LeavingSame
<1> QED
  BY <1>4, <1>5 DEF Anew

LEMMA StoredRows ==
    ASSUME NEW rows \in Seq(Items), NEW stored, stored = Stored(rows)
    PROVE  /\ stored \in Seq(Rows) /\ Len(stored) = Len(rows) /\ DOMAIN stored = DOMAIN rows
           /\ \A k \in DOMAIN rows : stored[k].id = rows[k].id /\ stored[k].done = rows[k].done
                                     /\ stored[k].mark = "stored"
<1>1. ASSUME NEW k \in DOMAIN rows
      PROVE  [id |-> rows[k].id, done |-> rows[k].done, mark |-> "stored", no |-> 0] \in Rows
  <2>1. rows[k] \in Items
    OBVIOUS
  <2> QED
    BY <2>1 DEF Items, Rows, Marks
<1>2. stored = [k \in 1 .. Len(rows) |-> [id |-> rows[k].id, done |-> rows[k].done, mark |-> "stored", no |-> 0]]
  BY DEF Stored
<1> QED
  BY <1>1, <1>2

LEMMA AddingLeft ==
    ASSUME NEW rows \in Seq(Rows), NEW places, NEW left, left = RowsAt(rows, places)
    PROVE  /\ left \in Seq(Rows)
           /\ \A k \in DOMAIN left : \E i \in DOMAIN rows : i \in places /\ left[k] = rows[i]
           /\ \A k, l \in DOMAIN left : k # l =>
                 \E i, j \in DOMAIN rows : i # j /\ left[k] = rows[i] /\ left[l] = rows[j]
BY RowsAtRows

LEMMA SetListDoes ==
    ASSUME StoreTyped, ListTyped, NEW v, SetList(v)
    PROVE  \E pg \in ListPages :
              /\ Anew(pg, calls)
              /\ list.alive /\ v \in 1 .. Len(items) /\ pg.seen = v /\ pg.swiping = list.swiping
              /\ pg.alive /\ pg.filter = list.filter /\ pg.detecting = list.detecting
              /\ pg.adding = AddingBeyond(list, items[v]) /\ pg.all = Stored(items[v]) \o pg.adding
<1>1. list.alive /\ v \in list.seen + 1 .. Len(items) /\ list \in ListPages /\ items \in Seq(Seq(Items))
      /\ CallsTyped(calls)
  BY DEF SetList, StoreTyped, ListTyped
<1>2. v \in 1 .. Len(items) /\ v \in Nat /\ list.adding \in Seq(Rows)
  BY <1>1, PageFields
<1>3. items[v] \in Seq(Items)
  BY <1>1, <1>2
<1>4. PICK adding : adding = AddingBeyond(list, items[v])
  OBVIOUS
<1>5. adding \in Seq(Rows)
  BY <1>2, <1>4, AddingLeft DEF AddingBeyond
<1>6. PICK stored : stored = Stored(items[v])
  OBVIOUS
<1>7. stored \in Seq(Rows)
  BY <1>3, <1>6, StoredRows
<1>8. PICK all : all = stored \o adding
  OBVIOUS
<1>9. all \in Seq(Rows)
  BY <1>5, <1>7, <1>8, Joined
<1>10. PICK pg : pg = [list EXCEPT !.seen = v, !.adding = adding, !.all = all]
  OBVIOUS
<1>11. pg \in ListPages
  BY <1>1, <1>2, <1>5, <1>9, <1>10 DEF ListPages
<1>12. Shows(pg, calls)
  BY <1>4, <1>6, <1>8, <1>10 DEF SetList
<1>13. Anew(pg, calls)
  BY <1>1, <1>11, <1>12, Shown
<1>14. /\ pg.seen = v /\ pg.alive /\ pg.filter = list.filter /\ pg.detecting = list.detecting
       /\ pg.swiping = list.swiping
       /\ pg.adding = adding /\ pg.all = all
  BY <1>1, <1>10 DEF ListPages
<1> QED
  BY <1>1, <1>2, <1>4, <1>6, <1>8, <1>11, <1>13, <1>14

LEMMA FilterDoes ==
    ASSUME StoreTyped, ListTyped, NEW f \in Filters, Filter(f)
    PROVE  \E pg \in ListPages :
              /\ Anew(pg, calls) /\ list.alive /\ pg.alive /\ pg.filter = f
              /\ pg.all = list.all /\ pg.adding = list.adding /\ pg.detecting = list.detecting
              /\ pg.seen = list.seen /\ pg.swiping \subseteq list.swiping
<1>1. list.alive /\ list \in ListPages /\ CallsTyped(calls)
  BY DEF Filter, StoreTyped, ListTyped
<1>2. PICK pg : pg = [list EXCEPT !.filter = f]
  OBVIOUS
<1>3. pg \in ListPages
  BY <1>1, <1>2 DEF ListPages
<1>4. Shows(pg, calls)
  BY <1>2 DEF Filter
<1>5. Anew(pg, calls)
  BY <1>1, <1>3, <1>4, Shown
<1>6. pg.alive /\ pg.filter = f /\ pg.all = list.all /\ pg.adding = list.adding
      /\ pg.detecting = list.detecting /\ pg.seen = list.seen /\ pg.swiping \subseteq list.swiping
  BY <1>1, <1>2 DEF ListPages
<1> QED
  BY <1>1, <1>3, <1>5, <1>6

\* The rows, and the calls, that items are added by.
AddingRow(row, id) == row.id = id /\ row.mark = "adding" /\ row \in Rows

AddingRows(rows, ids) == Len(rows) = Len(ids) /\ \A k \in DOMAIN ids : AddingRow(rows[k], ids[k])

NewlyAdded(c, ids) ==
    /\ c.op = "create" /\ c.heard /\ c.stage = "sent" /\ c.gen = list.seen
    /\ \E k \in DOMAIN ids : c.ids = {ids[k]}

AddingCalls(cs, ids) ==
    /\ CallsTyped(cs) /\ calls \subseteq cs
    /\ \A c \in cs : c \in calls \/ NewlyAdded(c, ids)
    /\ \A c, d \in cs : c \notin calls /\ d \notin calls /\ c.ids = d.ids => c = d
    /\ \A k \in DOMAIN ids : \E c \in cs : c.op = "create" /\ c.heard /\ c.ids = {ids[k]}

LEMMA CreateListItemsDoes ==
    ASSUME StoreTyped, ListTyped, NEW ids \in Seq(ItemIds), CreateListItems(ids)
    PROVE  \E pg \in ListPages, cs \in SUBSET Calls, rows \in Seq(Rows) :
              /\ Anew(pg, cs) /\ AddingRows(rows, ids) /\ AddingCalls(cs, ids)
              /\ pg.alive = list.alive /\ pg.filter = list.filter /\ pg.all = list.all
              /\ pg.adding = list.adding \o rows /\ pg.detecting = << >> /\ pg.seen = list.seen
                 /\ pg.swiping \subseteq list.swiping
<1>1. list \in ListPages /\ CallsTyped(calls)
  BY DEF StoreTyped, ListTyped
<1>2. DOMAIN ids = 1 .. Len(ids) /\ Len(ids) \in Nat /\ \A k \in DOMAIN ids : ids[k] \in ItemIds
  OBVIOUS
<1>3. PICK rows : rows = [k \in DOMAIN ids |-> [id |-> ids[k], done |-> FALSE, mark |-> "adding", no |-> 0]]
  OBVIOUS
<1>4. \A k \in DOMAIN ids : AddingRow(rows[k], ids[k])
  BY <1>2, <1>3 DEF AddingRow, Rows, Marks, ItemIds
<1>5. rows \in Seq(Rows) /\ Len(rows) = Len(ids)
  BY <1>2, <1>3, <1>4 DEF AddingRow
<1>6. PICK done : done = (list.filter = "completed") /\ done \in BOOLEAN
  OBVIOUS
<1> DEFINE made(id) == [NewCall("create", {id}) EXCEPT !.no = 0, !.gen = list.seen, !.done = done]
<1>7. ASSUME NEW id \in ItemIds
      PROVE  /\ made(id) \in Calls /\ CallRight(made(id))
             /\ made(id).op = "create" /\ made(id).heard /\ made(id).ids = {id}
             /\ made(id).stage = "sent" /\ made(id).gen = list.seen
  <2>1. PICK op \in {"create", "setIsDone", "reactivate", "delete", "reorder", "deleteList"} : op = "create"
    OBVIOUS
  <2>2. PICK c : c = NewCall(op, {id})
    OBVIOUS
  <2>3. c \in Calls /\ c.op = op /\ c.ids = {id} /\ c.heard /\ c.stage = "sent"
    <3>1. {id} \in SUBSET ItemIds
      OBVIOUS
    <3> QED
      BY <2>2, <3>1, MadeCall
  <2>4. made(id) = [c EXCEPT !.no = 0, !.gen = list.seen, !.done = done]
    BY <2>1, <2>2
  <2>5. list.seen \in Nat
    BY <1>1, PageFields
  <2>6. made(id) \in Calls /\ made(id).op = op /\ made(id).ids = {id} /\ made(id).heard
        /\ made(id).stage = "sent" /\ made(id).gen = list.seen
    BY <1>6, <2>3, <2>4, <2>5 DEF Calls
  <2>7. CallRight(made(id))
    BY <2>1, <2>6 DEF CallRight
  <2> QED
    BY <2>1, <2>6, <2>7
<1>8. PICK cs : cs = calls \cup {made(id) : id \in Range(ids)}
  OBVIOUS
<1>9. Range(ids) = {ids[k] : k \in DOMAIN ids}
  BY DEF Range
<1>10. PICK pg : pg = [list EXCEPT !.detecting = << >>, !.typed = FALSE, !.adding = @ \o rows]
  OBVIOUS
<1>11. Shows(pg, cs)
  BY <1>3, <1>6, <1>8, <1>10 DEF CreateListItems
<1> HIDE DEF made
<1>12. CallsTyped(cs)
  BY <1>1, <1>2, <1>7, <1>8, <1>9 DEF CallsTyped
<1>13. PICK adding : adding = list.adding \o rows
  OBVIOUS
<1>14. adding \in Seq(Rows)
  <2>1. list.adding \in Seq(Rows)
    BY <1>1, PageFields
  <2> QED
    BY <1>5, <1>13, <2>1, Joined
<1>15. << >> \in Seq(ItemIds)
  OBVIOUS
<1>16. pg = [list EXCEPT !.detecting = << >>, !.typed = FALSE, !.adding = adding]
  BY <1>10, <1>13
<1>17. pg \in ListPages
  BY <1>1, <1>14, <1>15, <1>16 DEF ListPages
<1>18. /\ pg.alive = list.alive /\ pg.filter = list.filter /\ pg.all = list.all
       /\ pg.adding = adding /\ pg.detecting = << >> /\ pg.seen = list.seen
          /\ pg.swiping \subseteq list.swiping
  BY <1>1, <1>16 DEF ListPages
<1>19. Anew(pg, cs)
  BY <1>11, <1>12, <1>17, Shown
<1>20. /\ \A c \in cs : c \in calls \/ NewlyAdded(c, ids)
       /\ \A c, d \in cs : c \notin calls /\ d \notin calls /\ c.ids = d.ids => c = d
  <2>1. \A c \in cs : c \in calls \/ \E k \in DOMAIN ids : c = made(ids[k])
    BY <1>8, <1>9
  <2>2. \A k \in DOMAIN ids : NewlyAdded(made(ids[k]), ids)
    BY <1>2, <1>7 DEF NewlyAdded
  <2>3. ASSUME NEW c \in cs, NEW d \in cs, c \notin calls, d \notin calls, c.ids = d.ids
        PROVE  c = d
    <3>1. PICK k \in DOMAIN ids, l \in DOMAIN ids : c = made(ids[k]) /\ d = made(ids[l])
      BY <2>1, <2>3
    <3>2. {ids[k]} = {ids[l]}
      BY <1>2, <1>7, <2>3, <3>1
    <3> QED
      BY <3>1, <3>2
  <2> QED
    BY <2>1, <2>2, <2>3
<1>21. \A k \in DOMAIN ids : \E c \in cs : c.op = "create" /\ c.heard /\ c.ids = {ids[k]}
  <2>1. ASSUME NEW k \in DOMAIN ids PROVE made(ids[k]) \in cs
    BY <1>8, <1>9
  <2> QED
    BY <1>2, <1>7, <2>1
<1>22. AddingRows(rows, ids) /\ AddingCalls(cs, ids) /\ cs \in SUBSET Calls
  BY <1>4, <1>5, <1>8, <1>12, <1>20, <1>21 DEF AddingRows, AddingCalls, CallsTyped
<1> QED
  BY <1>5, <1>13, <1>17, <1>18, <1>19, <1>22

\* The rows that go on being added when a call is over.
StayAdding(left, rows, c) ==
    \E places : /\ left = RowsAt(rows, places)
                /\ \A k \in places : k \in DOMAIN rows /\ rows[k].id \notin c.ids
                /\ \A k \in DOMAIN rows : rows[k].id \notin c.ids => k \in places

LEMMA NotAddingDoes ==
    ASSUME NEW pg \in ListPages, NEW c, NEW new, new = NotAdding(pg, c)
    PROVE  /\ new \in ListPages
           /\ new.alive = pg.alive /\ new.filter = pg.filter /\ new.all = pg.all /\ new.shown = pg.shown
           /\ new.detecting = pg.detecting /\ new.seen = pg.seen /\ new.swiping \subseteq pg.swiping
           /\ StayAdding(new.adding, pg.adding, c)
<1>1. PICK places : places = {k \in DOMAIN pg.adding : pg.adding[k].id \notin c.ids}
  OBVIOUS
<1>2. PICK adding : adding = RowsAt(pg.adding, places)
  OBVIOUS
<1>3. adding \in Seq(Rows)
  <2>1. pg.adding \in Seq(Rows)
    BY PageFields
  <2> QED
    BY <1>2, <2>1, AddingLeft
<1>4. new = [pg EXCEPT !.adding = adding]
  BY <1>1, <1>2 DEF NotAdding
<1>5. new \in ListPages
  BY <1>3, <1>4 DEF ListPages
<1>6. /\ new.alive = pg.alive /\ new.filter = pg.filter /\ new.all = pg.all /\ new.shown = pg.shown
      /\ new.detecting = pg.detecting /\ new.seen = pg.seen
         /\ new.swiping \subseteq pg.swiping /\ new.adding = adding
  BY <1>4 DEF ListPages
<1>7. /\ \A k \in places : k \in DOMAIN pg.adding /\ pg.adding[k].id \notin c.ids
      /\ \A k \in DOMAIN pg.adding : pg.adding[k].id \notin c.ids => k \in places
  BY <1>1
<1>8. StayAdding(adding, pg.adding, c)
  BY <1>2, <1>7 DEF StayAdding
<1> QED
  BY <1>5, <1>6, <1>8

LEMMA AddedDoes ==
    ASSUME StoreTyped, ListTyped, NEW c, Added(c)
    PROVE  \E pg \in ListPages :
              /\ Anew(pg, calls \ {c}) /\ CallsTyped(calls \ {c})
              /\ pg.alive = list.alive /\ pg.filter = list.filter /\ pg.all = list.all
              /\ pg.detecting = list.detecting /\ pg.seen = list.seen
                 /\ pg.swiping \subseteq list.swiping
              /\ StayAdding(pg.adding, list.adding, c)
<1>1. list \in ListPages /\ CallsTyped(calls)
  BY DEF StoreTyped, ListTyped
<1>2. CallsTyped(calls \ {c})
  BY <1>1 DEF CallsTyped
<1>3. PICK typed \in {FALSE, list.typed} : Shows(NotAdding([list EXCEPT !.typed = typed], c), calls \ {c})
  BY DEF Added
<1>4. PICK half : half = [list EXCEPT !.typed = typed]
  OBVIOUS
<1>5. typed \in BOOLEAN
  BY <1>1, <1>3, PageFields
<1>6. half \in ListPages
  BY <1>1, <1>4, <1>5 DEF ListPages
<1>7. /\ half.alive = list.alive /\ half.filter = list.filter /\ half.all = list.all
      /\ half.detecting = list.detecting /\ half.seen = list.seen
         /\ half.swiping \subseteq list.swiping /\ half.adding = list.adding
  BY <1>1, <1>4 DEF ListPages
<1>8. PICK pg : pg = NotAdding(half, c)
  OBVIOUS
<1>9. half \in ListPages /\ pg = NotAdding(half, c)
  BY <1>6, <1>8
<1>12. pg \in ListPages
  BY <1>9, NotAddingDoes
<1>13. /\ pg.alive = half.alive /\ pg.filter = half.filter /\ pg.all = half.all
       /\ pg.detecting = half.detecting /\ pg.seen = half.seen /\ pg.swiping \subseteq half.swiping
  BY <1>9, NotAddingDoes
<1>14. StayAdding(pg.adding, half.adding, c)
  BY <1>9, NotAddingDoes
<1>10. Shows(pg, calls \ {c})
  BY <1>3, <1>4, <1>8
<1>11. Anew(pg, calls \ {c})
  BY <1>2, <1>10, <1>12, Shown
<1> QED
  BY <1>2, <1>7, <1>11, <1>12, <1>13, <1>14

\* The page keeps its version, its filter and what is being added to it.
Keeps == 
    /\ list'.alive = list.alive /\ list'.filter = list.filter /\ list'.adding = list.adding
    /\ list'.detecting = list.detecting /\ list'.seen = list.seen

\* No more rows are swiped.
Swiped == list'.swiping \subseteq list.swiping

LEMMA TypeDoes ==
    ASSUME ListTyped, Type
    PROVE  list' \in ListPages /\ Keeps /\ Swiped /\ list'.all = list.all /\ list'.shown = list.shown
<1>1. list \in ListPages /\ list' = [list EXCEPT !.typed = TRUE]
  BY DEF ListTyped, Type
<1> QED
  BY <1>1 DEF ListPages, Keeps, Swiped

LEMMA AddWaitsDoes ==
    ASSUME StoreTyped, ListTyped, Add, emojis # "loaded"
    PROVE  /\ list' \in ListPages /\ calls' = calls /\ budget.ids \in Nat \ {0}
           /\ list'.alive = list.alive /\ list'.filter = list.filter /\ list'.adding = list.adding
           /\ list'.all = list.all /\ list'.shown = list.shown /\ list'.seen = list.seen
              /\ list'.swiping \subseteq list.swiping
           /\ list'.detecting = Append(list.detecting, budget.ids)
<1>1. list \in ListPages /\ budget.ids \in Nat \ {0} /\ calls' = calls
  BY DEF ListTyped, StoreTyped, Add, Budgets
<1>2. PICK detecting : detecting = Append(list.detecting, budget.ids)
  OBVIOUS
<1>3. detecting \in Seq(ItemIds)
  <2>1. list.detecting \in Seq(ItemIds) /\ budget.ids \in ItemIds
    BY <1>1, PageFields DEF ItemIds
  <2> QED
    BY <1>2, <2>1
<1>4. list' = [list EXCEPT !.detecting = detecting]
  BY <1>2 DEF Add
<1> QED
  BY <1>1, <1>2, <1>3, <1>4 DEF ListPages

LEMMA FailedToAddDoes ==
    ASSUME StoreTyped, ListTyped, NEW c, FailedToAdd(c)
    PROVE  /\ list' \in ListPages /\ CallsTyped(calls') /\ calls' = calls \ {c}
           /\ list'.alive = list.alive /\ list'.filter = list.filter /\ list'.all = list.all
           /\ list'.shown = list.shown /\ list'.detecting = list.detecting /\ list'.seen = list.seen
              /\ list'.swiping \subseteq list.swiping
           /\ StayAdding(list'.adding, list.adding, c)
<1>1. list \in ListPages /\ CallsTyped(calls) /\ list' = NotAdding(list, c) /\ calls' = calls \ {c}
  BY DEF StoreTyped, ListTyped, FailedToAdd
<1>2. CallsTyped(calls')
  BY <1>1 DEF CallsTyped
<1>3. list' \in ListPages
  BY <1>1, NotAddingDoes
<1>4. /\ list'.alive = list.alive /\ list'.filter = list.filter /\ list'.all = list.all
      /\ list'.shown = list.shown /\ list'.detecting = list.detecting /\ list'.seen = list.seen
         /\ list'.swiping \subseteq list.swiping
  BY <1>1, NotAddingDoes
<1>5. StayAdding(list'.adding, list.adding, c)
  BY <1>1, NotAddingDoes
<1> QED
  BY <1>1, <1>2, <1>3, <1>4, <1>5

LEMMA ItemChangedRows ==
    ASSUME NEW rows \in Seq(Rows), NEW old, NEW new \in Rows, NEW changed, changed = ItemChanged(rows, old, new)
    PROVE  /\ changed \in Seq(Rows) /\ DOMAIN changed = DOMAIN rows /\ Len(changed) = Len(rows)
           /\ \A k \in DOMAIN rows : changed[k] = IF rows[k] = old THEN new ELSE rows[k]
<1>1. changed = [k \in 1 .. Len(rows) |-> IF rows[k] = old THEN new ELSE rows[k]]
  BY DEF ItemChanged
<1>2. \A k \in 1 .. Len(rows) : rows[k] \in Rows
  OBVIOUS
<1> QED
  BY <1>1, <1>2

\* A row is marked, by a call of that number: if it is still there, the rows are filtered
\* anew.
MarksRow(row, new, c, no) ==
    /\ list' \in ListPages /\ CallsTyped(calls') /\ Follow(calls', calls \cup {c}) /\ Keeps /\ Swiped
    /\ c.op = "setIsDone" /\ c.no = no /\ c.stage = "sent"
    /\ new.id = row.id /\ new.mark = "changing" /\ new.no = no
    /\ list'.all = list.all \/ list'.all = ItemChanged(list.all, row, new)
    /\ (list'.all = list.all /\ list'.shown = list.shown) \/ list'.shown = Filtered(list')

LEMMA PerformSetIsDoneDoes ==
    ASSUME StoreTyped, ListTyped, NEW page \in ListPages, AsPage(page, list), page.shown = list.shown,
           NEW row \in Rows, NEW done \in BOOLEAN, NEW no \in Nat, NEW new, new = Changing(row, done, no),
           NEW changed, changed = list.all \/ changed = ItemChanged(list.all, row, new),
           PerformSetIsDone(page, row, changed, done, no)
    PROVE  /\ new \in Rows /\ \E c \in Calls : MarksRow(row, new, c, no)
           /\ list'.swiping \subseteq page.swiping
<1>1. list \in ListPages /\ CallsTyped(calls)
  BY DEF StoreTyped, ListTyped
<1>2. list.all \in Seq(Rows) /\ page.all = list.all
  BY <1>1, PageFields DEF AsPage
<1>3. new \in Rows /\ new.id = row.id /\ new.mark = "changing" /\ new.no = no
  BY DEF Changing, Rows, Marks
<1>4. changed \in Seq(Rows)
  BY <1>2, <1>3, ItemChangedRows
<1>5. PICK half : half = [page EXCEPT !.all = changed]
  OBVIOUS
<1>6. /\ half \in ListPages /\ half.all = changed /\ half.alive = page.alive /\ half.filter = page.filter
      /\ half.adding = page.adding /\ half.detecting = page.detecting /\ half.seen = page.seen
      /\ half.swiping = page.swiping
  BY <1>4, <1>5 DEF ListPages
<1>7. PICK pg : pg = IF changed = page.all THEN page ELSE ApplyFilter(half)
  OBVIOUS
<1>8. /\ pg \in ListPages /\ pg.all = changed /\ pg.alive = page.alive /\ pg.filter = page.filter
      /\ pg.adding = page.adding /\ pg.detecting = page.detecting /\ pg.seen = page.seen
      /\ pg.swiping \subseteq page.swiping
      /\ (pg.all = list.all /\ pg.shown = list.shown) \/ pg.shown = Filtered(pg)
  <2>1. CASE changed = page.all
    BY <1>2, <1>7, <2>1
  <2>2. CASE changed # page.all
    <3>1. half \in ListPages /\ pg = ApplyFilter(half)
      BY <1>6, <1>7, <2>2
    <3>2. pg \in ListPages /\ AsPage(pg, half) /\ pg.shown = Filtered(pg)
      BY <3>1, Applied
    <3> QED
      BY <1>6, <3>2 DEF AsPage
  <2> QED
    BY <2>1, <2>2
<1>9. PICK busy : busy = IF Has(pg.shown, row.id) THEN pg.busy \cup {row.id} ELSE pg.busy
  OBVIOUS
<1>10. busy \in SUBSET ItemIds
  BY <1>8, <1>9, PageFields DEF Rows
<1>11. PICK op \in {"create", "setIsDone", "reactivate", "delete", "reorder", "deleteList"} : op = "setIsDone"
  OBVIOUS
<1>12. PICK plain : plain = NewCall(op, {row.id})
  OBVIOUS
<1>13. {row.id} \in SUBSET ItemIds
  BY DEF Rows
<1>14. plain \in Calls /\ plain.op = op /\ plain.stage = "sent" /\ plain.ids = {row.id}
  BY <1>12, <1>13, MadeCall
<1>15. PICK c : c = [plain EXCEPT !.done = done, !.no = no]
  OBVIOUS
<1>16. c \in Calls /\ c.op = op /\ c.no = no /\ c.stage = "sent" /\ c.ids = {row.id}
  BY <1>14, <1>15 DEF Calls
<1>17. CallRight(c)
  BY <1>11, <1>16 DEF CallRight
<1>18. CallsTyped(calls \cup {c})
  BY <1>1, <1>16, <1>17 DEF CallsTyped
<1>19. list' = [pg EXCEPT !.busy = busy] /\ calls' = Leaving(calls \cup {c}, list')
  <2>1. Goes([pg EXCEPT !.busy = IF Has(pg.shown, row.id) THEN @ \cup {row.id} ELSE @], calls \cup {c})
    BY <1>5, <1>7, <1>11, <1>12, <1>15 DEF PerformSetIsDone
  <2>2. [pg EXCEPT !.busy = IF Has(pg.shown, row.id) THEN @ \cup {row.id} ELSE @] = [pg EXCEPT !.busy = busy]
    BY <1>9
  <2> QED
    BY <2>1, <2>2 DEF Goes
<1>20. /\ list' \in ListPages /\ list'.all = pg.all /\ list'.alive = pg.alive /\ list'.filter = pg.filter
       /\ list'.adding = pg.adding /\ list'.detecting = pg.detecting /\ list'.seen = pg.seen
       /\ list'.swiping = pg.swiping /\ list'.shown = pg.shown
  BY <1>8, <1>10, <1>19 DEF ListPages
<1>21. Filtered(list') = Filtered(pg)
  BY <1>20 DEF Filtered
<1>22. CallsTyped(calls') /\ Follow(calls', calls \cup {c})
  BY <1>18, <1>19, LeavingSame
<1>23. Keeps /\ Swiped
  BY <1>8, <1>20 DEF Keeps, Swiped, AsPage
<1>24. list'.all = list.all \/ list'.all = ItemChanged(list.all, row, new)
  BY <1>8, <1>20
<1>25. (list'.all = list.all /\ list'.shown = list.shown) \/ list'.shown = Filtered(list')
  BY <1>8, <1>20, <1>21
<1>26. MarksRow(row, new, c, no)
  BY <1>3, <1>11, <1>16, <1>20, <1>22, <1>23, <1>24, <1>25 DEF MarksRow
<1> QED
  BY <1>3, <1>8, <1>16, <1>20, <1>26

LEMMA CheckDoes ==
    ASSUME StoreTyped, ListTyped, NEW k \in DOMAIN list.shown, Check(k)
    PROVE  \E row \in Rows, new \in Rows, c \in Calls : MarksRow(row, new, c, budget.calls)
<1>1. list \in ListPages /\ budget.calls \in Nat
  BY DEF StoreTyped, ListTyped, Budgets
<1>2. list.shown \in Seq(Rows)
  BY <1>1, PageFields
<1>3. PICK row : row = list.shown[k]
  OBVIOUS
<1>4. row \in Rows
  BY <1>2, <1>3
<1>5. PICK done \in BOOLEAN : done = ~row.done
  OBVIOUS
<1>6. PICK new : new = Changing(row, done, budget.calls)
  OBVIOUS
<1>7. PICK changed : changed = ItemChanged(list.all, row, new)
  OBVIOUS
<1>8. PerformSetIsDone(list, row, changed, done, budget.calls)
  BY <1>3, <1>5, <1>6, <1>7 DEF Check
<1>9. AsPage(list, list)
  BY DEF AsPage
<1>10. new \in Rows /\ \E c \in Calls : MarksRow(row, new, c, budget.calls)
  BY <1>1, <1>4, <1>6, <1>7, <1>8, <1>9, PerformSetIsDoneDoes
<1> QED
  BY <1>4, <1>10

LEMMA SwipeClosedDoes ==
    ASSUME StoreTyped, ListTyped, NEW s, SwipeClosed(s)
    PROVE  /\ s \in list.swiping /\ s.no \in Nat /\ list'.swiping \subseteq list.swiping \ {s}
           /\ \E row \in Rows, new \in Rows, c \in Calls : MarksRow(row, new, c, s.no)
<1>1. list \in ListPages /\ s \in list.swiping
  BY DEF ListTyped, SwipeClosed
<1>2. list.swiping \in SUBSET Swipes
  BY <1>1, PageFields
<1>3. s.row \in Rows /\ s.done \in BOOLEAN /\ s.no \in Nat
  BY <1>1, <1>2 DEF Swipes
<1>4. PICK swiping : swiping = list.swiping \ {s}
  OBVIOUS
<1>5. PICK page : page = [list EXCEPT !.swiping = swiping]
  OBVIOUS
<1>6. page \in ListPages /\ AsPage(page, list) /\ page.shown = list.shown /\ page.swiping = swiping
  BY <1>1, <1>2, <1>4, <1>5 DEF ListPages, AsPage
<1>7. PICK new : new = Changing(s.row, s.done, s.no)
  OBVIOUS
<1>8. PICK changed : changed = IF s.seen = list.seen THEN ItemChanged(list.all, s.row, new) ELSE list.all
  OBVIOUS
<1>9. PerformSetIsDone(page, s.row, changed, s.done, s.no)
  BY <1>4, <1>5, <1>7, <1>8 DEF SwipeClosed
<1>10. changed = list.all \/ changed = ItemChanged(list.all, s.row, new)
  BY <1>8
<1>11. /\ new \in Rows /\ \E c \in Calls : MarksRow(s.row, new, c, s.no)
       /\ list'.swiping \subseteq page.swiping
  BY <1>3, <1>6, <1>7, <1>9, <1>10, PerformSetIsDoneDoes
<1> QED
  BY <1>1, <1>3, <1>4, <1>6, <1>11

\* A row is marked at once, by the next call, or when what was swiped has closed.
Marking == (\E k \in DOMAIN list.shown : Check(k)) \/ (\E s \in list.swiping : SwipeClosed(s))

MarkedBy(no) ==
    \/ no = budget.calls /\ budget'.calls = budget.calls - 1
    \/ /\ budget'.calls = budget.calls
       /\ \E s \in list.swiping : s.no = no /\ list'.swiping \subseteq list.swiping \ {s}

LEMMA MarkingDoes ==
    ASSUME StoreTyped, ListTyped, Marking
    PROVE  /\ UNCHANGED <<items, lists>> /\ budget' \in Budgets /\ budget'.ids = budget.ids
           /\ \E no \in Nat, row \in Rows, new \in Rows, c \in Calls : MarksRow(row, new, c, no) /\ MarkedBy(no)
<1>1. budget \in Budgets /\ budget.calls \in Nat
  BY DEF StoreTyped, Budgets
<1>2. ASSUME NEW k \in DOMAIN list.shown, Check(k)
      PROVE  /\ UNCHANGED <<items, lists>> /\ budget' \in Budgets /\ budget'.ids = budget.ids
             /\ \E row \in Rows, new \in Rows, c \in Calls : MarksRow(row, new, c, budget.calls)
             /\ MarkedBy(budget.calls)
  <2>1. UNCHANGED <<items, lists>> /\ MayCall /\ budget' = Spent
    BY <1>2 DEF Check
  <2>2. budget' \in Budgets /\ budget'.ids = budget.ids /\ budget'.calls = budget.calls - 1
    BY <2>1, SpentTyped
  <2> QED
    BY <1>2, <2>1, <2>2, CheckDoes DEF MarkedBy
<1>3. ASSUME NEW s \in list.swiping, SwipeClosed(s)
      PROVE  /\ UNCHANGED <<items, lists, budget>> /\ s.no \in Nat
             /\ \E row \in Rows, new \in Rows, c \in Calls : MarksRow(row, new, c, s.no)
             /\ MarkedBy(s.no)
  <2>1. UNCHANGED <<items, lists, budget>>
    BY <1>3 DEF SwipeClosed
  <2>2. /\ s.no \in Nat /\ list'.swiping \subseteq list.swiping \ {s}
        /\ \E row \in Rows, new \in Rows, c \in Calls : MarksRow(row, new, c, s.no)
    BY <1>3, SwipeClosedDoes
  <2> QED
    BY <2>1, <2>2 DEF MarkedBy
<1>4. CASE \E k \in DOMAIN list.shown : Check(k)
  BY <1>1, <1>2, <1>4
<1>5. CASE \E s \in list.swiping : SwipeClosed(s)
  BY <1>1, <1>3, <1>5
<1> QED
  BY <1>4, <1>5 DEF Marking

LEMMA SwipeDoes ==
    ASSUME StoreTyped, ListTyped, NEW k \in DOMAIN list.shown, NEW done \in BOOLEAN, Swipe(k, done)
    PROVE  /\ list' \in ListPages /\ calls' = calls /\ budget.calls \in Nat /\ Keeps
           /\ list'.all = list.all /\ list'.shown = list.shown
           /\ \E s \in Swipes : s.no = budget.calls /\ list'.swiping = list.swiping \cup {s}
<1>1. list \in ListPages /\ budget.calls \in Nat /\ calls' = calls
  BY DEF StoreTyped, ListTyped, Budgets, Swipe
<1>2. list.shown[k] \in Rows /\ list.seen \in Nat /\ list.swiping \in SUBSET Swipes
  BY <1>1, PageFields
<1>3. PICK s : s = [row |-> list.shown[k], done |-> done, no |-> budget.calls, seen |-> list.seen]
  OBVIOUS
<1>4. s \in Swipes /\ s.no = budget.calls
  BY <1>1, <1>2, <1>3 DEF Swipes
<1>5. PICK swiping : swiping = list.swiping \cup {s}
  OBVIOUS
<1>6. list' = [list EXCEPT !.swiping = swiping]
  BY <1>3, <1>5 DEF Swipe
<1>7. swiping \in SUBSET Swipes
  BY <1>2, <1>4, <1>5
<1> QED
  BY <1>1, <1>4, <1>5, <1>6, <1>7 DEF ListPages, Keeps

LEMMA FollowSelf ==
    ASSUME NEW cs
    PROVE  Follow(cs, cs)
BY DEF Follow, Same

\* A row that was marked is found again, or is not.
MarkedRow(old, new, c) ==
    /\ old.mark = "changing" /\ old.no = c.no /\ new.id = old.id /\ new.mark = "changed"
    /\ list'.all = ItemChanged(list.all, old, new) /\ list'.shown = Filtered(list')

LEMMA IsDoneSetDoes ==
    ASSUME StoreTyped, ListTyped, NEW c, IsDoneSet(c)
    PROVE  /\ list' \in ListPages /\ CallsTyped(calls') /\ Follow(calls', calls \ {c}) /\ Keeps /\ Swiped
           /\ list' = list \/ \E old \in Rows, new \in Rows : MarkedRow(old, new, c)
<1>1. list \in ListPages /\ CallsTyped(calls) /\ c \in calls /\ c.op = "setIsDone"
  BY DEF StoreTyped, ListTyped, IsDoneSet, Answered
<1>2. CallsTyped(calls \ {c}) /\ c \in Calls /\ CallRight(c)
  BY <1>1 DEF CallsTyped
<1>3. PICK id : id = (CHOOSE i \in c.ids : TRUE)
  OBVIOUS
<1>4. id \in ItemIds
  BY <1>1, <1>2, <1>3 DEF CallRight, Calls
<1>5. PICK old : old = [id |-> id, done |-> c.done, mark |-> "changing", no |-> c.no]
  OBVIOUS
<1>6. PICK new : new = [old EXCEPT !.mark = "changed"]
  OBVIOUS
<1>7. old \in Rows /\ new \in Rows /\ old.mark = "changing" /\ old.no = c.no /\ new.id = old.id /\ new.mark = "changed"
  BY <1>2, <1>4, <1>5, <1>6 DEF Rows, Marks, Calls, ItemIds
<1>8. CASE c.here
  <2>1. list.all \in Seq(Rows) /\ list.busy \in SUBSET ItemIds /\ list.stuck \in SUBSET ItemIds
    BY <1>1, PageFields
  <2>2. PICK changed : changed = ItemChanged(list.all, old, new)
    OBVIOUS
  <2>3. changed \in Seq(Rows)
    BY <1>7, <2>1, <2>2, ItemChangedRows
  <2>4. PICK busy, stuck : busy = list.busy \ c.ids /\ stuck = list.stuck \ c.ids
    OBVIOUS
  <2>5. PICK pg : pg = [list EXCEPT !.all = changed, !.busy = busy, !.stuck = stuck]
    OBVIOUS
  <2>6. /\ pg \in ListPages /\ pg.all = changed /\ pg.alive = list.alive /\ pg.filter = list.filter
        /\ pg.adding = list.adding /\ pg.detecting = list.detecting /\ pg.seen = list.seen
           /\ pg.swiping \subseteq list.swiping
    BY <1>1, <2>1, <2>3, <2>4, <2>5 DEF ListPages
  <2>7. Shows(pg, calls \ {c})
    <3>1. pg = [list EXCEPT !.all = changed, !.busy = @ \ c.ids, !.stuck = @ \ c.ids]
      BY <2>4, <2>5
    <3> QED
      BY <1>3, <1>5, <1>6, <1>8, <2>2, <3>1 DEF IsDoneSet
  <2>8. Anew(pg, calls \ {c})
    BY <1>2, <2>6, <2>7, Shown
  <2>9. list' \in ListPages /\ CallsTyped(calls') /\ Follow(calls', calls \ {c})
    BY <2>8 DEF Anew
  <2>10. Keeps /\ Swiped /\ list'.all = changed /\ list'.shown = Filtered(list')
    BY <2>6, <2>8 DEF Anew, AsPage, Keeps, Swiped
  <2>11. MarkedRow(old, new, c)
    BY <1>7, <2>2, <2>10 DEF MarkedRow
  <2> QED
    BY <1>7, <2>9, <2>10, <2>11
<1>9. CASE ~c.here
  <2>1. list' = list /\ calls' = calls \ {c}
    BY <1>9 DEF IsDoneSet
  <2>2. Follow(calls', calls \ {c})
    BY <2>1, FollowSelf
  <2> QED
    BY <1>1, <1>2, <2>1, <2>2 DEF Keeps, Swiped
<1> QED
  BY <1>8, <1>9

\* A row is dragged.
MovesRow(from, c) ==
    /\ list' \in ListPages /\ CallsTyped(calls') /\ Follow(calls', calls \cup {c}) /\ Keeps /\ Swiped
    /\ list'.shown = Filtered(list') /\ c.op = "reorder" /\ c.ids = {list.all[from].id}
    /\ \A k \in DOMAIN list'.all : \E i \in DOMAIN list.all : list'.all[k].id = list.all[i].id
    /\ \A k \in DOMAIN list'.all : list'.all[k].mark = "moving" \/ \E i \in DOMAIN list.all : list'.all[k] = list.all[i]
    /\ \E k \in DOMAIN list'.all : list'.all[k].mark = "moving"

LEMMA ReorderDoes ==
    ASSUME StoreTyped, ListTyped, NEW from, NEW to, Reorder(from, to)
    PROVE  from \in DOMAIN list.all /\ \E c \in Calls : MovesRow(from, c)
<1>1. list \in ListPages /\ CallsTyped(calls) /\ budget.calls \in Nat /\ from \in DOMAIN list.all
      /\ to \in DOMAIN list.shown
  BY DEF StoreTyped, ListTyped, Budgets, Reorder
<1>2. list.all \in Seq(Rows) /\ list.shown \in Seq(Rows)
  BY <1>1, PageFields
<1>3. to \in Nat \ {0} /\ from \in Nat \ {0} /\ DOMAIN list.all = 1 .. Len(list.all)
  BY <1>1, <1>2
<1>4. PICK row : row = list.all[from]
  OBVIOUS
<1>5. row \in Rows
  BY <1>1, <1>2, <1>4
<1>6. PICK new : new = Moving(row)
  OBVIOUS
<1>7. new \in Rows /\ new.id = row.id /\ new.mark = "moving"
  BY <1>1, <1>5, <1>6 DEF Moving, Rows, Marks
<1>8. PICK marked : marked = [list.all EXCEPT ![from] = new]
  OBVIOUS
<1>9. /\ marked \in Seq(Rows) /\ DOMAIN marked = DOMAIN list.all /\ marked[from] = new
      /\ \A k \in DOMAIN list.all : k # from => marked[k] = list.all[k]
  BY <1>1, <1>2, <1>7, <1>8
<1>10. \A k \in DOMAIN marked : marked[k].id = list.all[k].id
  BY <1>4, <1>7, <1>9
<1>11. PICK all : all = Moved(marked, from, to)
  OBVIOUS
<1>12. marked \in Seq(Rows) /\ from \in DOMAIN marked /\ to \in Nat \ {0} /\ all = Moved(marked, from, to)
  BY <1>1, <1>3, <1>9, <1>11
<1>13. all \in Seq(Rows)
  BY <1>12, MovedRows
<1>14. \A k \in DOMAIN all : \E i \in DOMAIN marked : all[k] = marked[i]
  BY <1>12, MovedRows
<1>15. \E k \in DOMAIN all : all[k] = marked[from]
  BY <1>12, MovedRows
<1>16. PICK pg : pg = [list EXCEPT !.all = all]
  OBVIOUS
<1>17. /\ pg \in ListPages /\ pg.all = all /\ pg.alive = list.alive /\ pg.filter = list.filter
       /\ pg.adding = list.adding /\ pg.detecting = list.detecting /\ pg.seen = list.seen
          /\ pg.swiping \subseteq list.swiping
  BY <1>1, <1>13, <1>16 DEF ListPages
<1>18. PICK op \in {"create", "setIsDone", "reactivate", "delete", "reorder", "deleteList"} : op = "reorder"
  OBVIOUS
<1>19. PICK plain : plain = NewCall(op, {row.id})
  OBVIOUS
<1>20. {row.id} \in SUBSET ItemIds /\ row.done \in BOOLEAN
  BY <1>5 DEF Rows, ItemIds
<1>21. plain \in Calls /\ plain.op = op /\ plain.ids = {row.id}
  BY <1>19, <1>20, MadeCall
<1>22. PICK c : c = [plain EXCEPT !.done = row.done, !.from = from, !.to = to]
  OBVIOUS
<1>23. c \in Calls /\ c.op = op /\ c.ids = {row.id} /\ c.from = from /\ c.to = to
  BY <1>3, <1>20, <1>21, <1>22 DEF Calls
<1>24. CallRight(c)
  BY <1>3, <1>18, <1>23 DEF CallRight
<1>25. CallsTyped(calls \cup {c})
  BY <1>1, <1>23, <1>24 DEF CallsTyped
<1>26. Shows(pg, calls \cup {c})
  BY <1>4, <1>6, <1>8, <1>11, <1>16, <1>18, <1>19, <1>22 DEF Reorder
<1>27. Anew(pg, calls \cup {c})
  BY <1>17, <1>25, <1>26, Shown
<1>28. list' \in ListPages /\ CallsTyped(calls') /\ Follow(calls', calls \cup {c}) /\ list'.shown = Filtered(list')
  BY <1>27 DEF Anew
<1>29. Keeps /\ Swiped /\ list'.all = all
  BY <1>17, <1>27 DEF Anew, AsPage, Keeps, Swiped
<1>30. \A k \in DOMAIN all : \E i \in DOMAIN list.all : all[k].id = list.all[i].id
  BY <1>9, <1>10, <1>14
<1>31. \E k \in DOMAIN all : all[k].mark = "moving"
  BY <1>7, <1>9, <1>15
<1>33. \A k \in DOMAIN marked : marked[k].mark = "moving" \/ marked[k] = list.all[k]
  BY <1>7, <1>9
<1>34. \A k \in DOMAIN all : all[k].mark = "moving" \/ \E i \in DOMAIN list.all : all[k] = list.all[i]
  BY <1>9, <1>14, <1>33
<1>32. MovesRow(from, c)
  BY <1>4, <1>18, <1>23, <1>28, <1>29, <1>30, <1>31, <1>34 DEF MovesRow
<1> QED
  BY <1>1, <1>23, <1>32

\* A dragged row is put where it came from, or at the end.
LEMMA ReorderedDoes ==
    ASSUME StoreTyped, ListTyped, NEW c, Reordered(c)
    PROVE  /\ list' \in ListPages /\ CallsTyped(calls') /\ calls' = calls \ {c} /\ Keeps /\ Swiped
           /\ c \in calls /\ c.op = "reorder" /\ list'.shown = list.shown
           /\ \A k \in DOMAIN list'.all : (list'.all[k].id \in c.ids /\ list'.all[k].mark = "moved")
                                          \/ (k \in DOMAIN list.all /\ list'.all[k] = list.all[k])
           /\ \E k \in DOMAIN list'.all : list'.all[k].mark = "moved"
<1>1. list \in ListPages /\ CallsTyped(calls) /\ c \in calls /\ c.op = "reorder" /\ calls' = calls \ {c}
  BY DEF StoreTyped, ListTyped, Reordered, Answered
<1>2. CallsTyped(calls \ {c}) /\ c \in Calls /\ CallRight(c)
  BY <1>1 DEF CallsTyped
<1>3. PICK id : id = (CHOOSE i \in c.ids : TRUE)
  OBVIOUS
<1>4. id \in ItemIds /\ id \in c.ids
  BY <1>1, <1>2, <1>3 DEF CallRight, Calls
<1>5. PICK row : row = [id |-> id, done |-> c.done, mark |-> "moved", no |-> c.no]
  OBVIOUS
<1>6. row \in Rows /\ row.id = id /\ row.mark = "moved"
  BY <1>2, <1>4, <1>5 DEF Rows, Marks, Calls, ItemIds
<1>7. list.all \in Seq(Rows) /\ DOMAIN list.all = 1 .. Len(list.all) /\ Len(list.all) \in Nat
  BY <1>1, PageFields
<1>8. PICK all : all = IF c.from \in DOMAIN list.all THEN [list.all EXCEPT ![c.from] = row] ELSE Append(list.all, row)
  OBVIOUS
<1>9. /\ all \in Seq(Rows)
      /\ \A k \in DOMAIN all : all[k] = row \/ (k \in DOMAIN list.all /\ all[k] = list.all[k])
      /\ \E k \in DOMAIN all : all[k] = row
  <2>1. CASE c.from \in DOMAIN list.all
    <3>1. all = [list.all EXCEPT ![c.from] = row]
      BY <1>8, <2>1
    <3> QED
      BY <1>6, <1>7, <2>1, <3>1
  <2>2. CASE c.from \notin DOMAIN list.all
    <3>1. all = Append(list.all, row)
      BY <1>8, <2>2
    <3>2. /\ all \in Seq(Rows) /\ DOMAIN all = DOMAIN list.all \cup {Len(list.all) + 1}
          /\ \A k \in DOMAIN list.all : all[k] = list.all[k]
          /\ all[Len(list.all) + 1] = row
      BY <1>6, <1>7, <3>1, Appended
    <3> QED
      BY <3>2
  <2> QED
    BY <2>1, <2>2
<1>10. list' = [list EXCEPT !.all = all]
  BY <1>3, <1>5, <1>8 DEF Reordered
<1>11. list' \in ListPages /\ Keeps /\ Swiped /\ list'.all = all /\ list'.shown = list.shown
  BY <1>1, <1>9, <1>10 DEF ListPages, Keeps, Swiped
<1>12. \A k \in DOMAIN all : (all[k].id \in c.ids /\ all[k].mark = "moved") \/ (k \in DOMAIN list.all /\ all[k] = list.all[k])
  BY <1>4, <1>6, <1>9
<1>13. \E k \in DOMAIN all : all[k].mark = "moved"
  BY <1>6, <1>9
<1> QED
  BY <1>1, <1>2, <1>11, <1>12, <1>13

-----------------------------------------------------------------------------
(***************************************************************************)
(* Steps that leave the list, and what its page shows, as they are.        *)
(***************************************************************************)

\* No call that adds an item is new, but for one that takes the place of the same, served
\* or lost.
Reissued(ds, cs) ==
    \/ \A d \in ds : d.op = "create" => d \in cs
    \/ \E c \in cs, e \in ds : /\ Same(e, c) /\ e.heard = c.heard /\ e.stage # "sent"
                            /\ \A d \in ds : d.op = "create" => d = e \/ (d \in cs /\ d # c)

CallsQuiet ==
    /\ Reissued(calls', calls)
    /\ \A d \in calls' : d.op \in {"reactivate", "delete", "deleteList"}
                         \/ \E c \in calls : /\ Same(d, c) /\ (d.stage = "done" => c.stage = "done")
                                             /\ (d.heard => c.heard)
    /\ \A c \in calls : c.op = "create" /\ c.heard => \E d \in calls' : Same(d, c) /\ d.heard

Quietly ==
    /\ items' = items /\ lists' \in Seq(SUBSET Listed) /\ lists' # << >> /\ emojis' = emojis
    /\ budget' \in Budgets /\ budget'.ids = budget.ids /\ budget'.calls <= budget.calls
    /\ list' \in ListPages /\ Keeps /\ Swiped /\ list'.all = list.all /\ list'.shown = list.shown
    /\ CallsTyped(calls') /\ CallsQuiet

LEMMA SameSelf == ASSUME NEW c PROVE Same(c, c)
BY DEF Same

\* Calls are dropped that are not heard, or not for items that are added.
LEMMA Dropping ==
    ASSUME CallsTyped(calls), calls' \subseteq calls, \A c \in calls : c.op = "create" /\ c.heard => c \in calls'
    PROVE  CallsTyped(calls') /\ CallsQuiet
BY SameSelf DEF CallsTyped, CallsQuiet, Reissued

\* A call is made that is not about a row.
LEMMA Calling ==
    ASSUME CallsTyped(calls), NEW c \in Calls, c.op \in {"reactivate", "delete", "deleteList"},
           calls' = calls \cup {c}
    PROVE  CallsTyped(calls') /\ CallsQuiet
<1>1. CallRight(c)
  BY DEF CallRight
<1>2. CallsTyped(calls')
  BY <1>1 DEF CallsTyped
<1> QED
  BY <1>2, SameSelf DEF CallsQuiet, Reissued

\* What a step leaves alone.
LEMMA Still ==
    ASSUME StoreTyped, ListTyped, UNCHANGED <<items, lists, emojis, list, budget>>, CallsTyped(calls'), CallsQuiet
    PROVE  Quietly
<1>1. budget \in Budgets /\ budget.calls \in Nat /\ lists \in Seq(SUBSET Listed) /\ lists # << >> /\ list \in ListPages
  BY DEF StoreTyped, ListTyped, Budgets
<1> QED
  BY <1>1 DEF Quietly, Keeps, Swiped

LEMMA UnchangedQuiet ==
    ASSUME StoreTyped, ListTyped, UNCHANGED <<items, lists, emojis, list, budget, calls>>
    PROVE  Quietly
<1>1. CallsTyped(calls)
  BY DEF StoreTyped
<1>2. CallsTyped(calls') /\ CallsQuiet
  BY <1>1, Dropping
<1> QED
  BY <1>2, Still

LEMMA ServeDeleteListQuiet ==
    ASSUME StoreTyped, ListTyped, NEW c \in calls, ServeDeleteList(c), UNCHANGED <<list, emojis>>
    PROVE  Quietly
<1>1. /\ CallsTyped(calls) /\ budget \in Budgets /\ budget.calls \in Nat /\ list \in ListPages
      /\ lists \in Seq(SUBSET Listed) /\ CurrentLists \in SUBSET Listed
  BY CurrentTyped DEF StoreTyped, ListTyped, Budgets
<1>2. PICK stage \in {"done", "failed"} : stage = "done"
  OBVIOUS
<1>3. c.op = "deleteList" /\ calls' = (calls \ {c}) \cup {[c EXCEPT !.stage = stage]}
  BY <1>2 DEF ServeDeleteList, Served
<1>4. CallsTyped(calls')
  BY <1>1, <1>3, StagedSame
<1>5. Staged(c, stage, calls')
  BY <1>1, <1>3, StagedSame
<1>6. /\ \A d \in calls' : d \in calls \/ (Same(d, c) /\ d.stage = stage /\ d.heard = c.heard)
      /\ \A d \in calls : d = c \/ d \in calls'
  BY <1>5 DEF Staged
<1>7. CallsQuiet
  <2>1. ASSUME NEW d \in calls'
        PROVE  d.op \in {"reactivate", "delete", "deleteList"}
                \/ \E b \in calls : Same(d, b) /\ (d.stage = "done" => b.stage = "done") /\ (d.heard => b.heard)
    BY <1>3, <1>6, SameSelf DEF Same
  <2>2. ASSUME NEW b \in calls, b.op = "create", b.heard PROVE \E d \in calls' : Same(d, b) /\ d.heard
    BY <1>3, <1>6, <2>2, SameSelf
  <2>3. Reissued(calls', calls)
    BY <1>3, <1>6 DEF Same, Reissued
  <2> QED
    BY <2>1, <2>2, <2>3 DEF CallsQuiet
<1>8. PICK left : left = {l \in CurrentLists : l.id # c.list}
  OBVIOUS
<1>9. lists' \in Seq(SUBSET Listed) /\ lists' # << >>
  <2>1. left \in SUBSET Listed /\ lists' = Append(lists, left)
    BY <1>1, <1>8 DEF ServeDeleteList, WriteLists
  <2> QED
    BY <1>1, <2>1
<1>10. items' = items /\ budget' = budget
  BY DEF ServeDeleteList
<1> QED
  BY <1>1, <1>4, <1>7, <1>9, <1>10 DEF Quietly, Keeps, Swiped

LEMMA LoseQuiet ==
    ASSUME StoreTyped, ListTyped, NEW c \in calls, Lose(c), UNCHANGED <<list, emojis>>
    PROVE  Quietly
<1>1. CallsTyped(calls)
  BY DEF StoreTyped
<1>2. PICK stage \in {"done", "failed"} : stage = "failed"
  OBVIOUS
<1>3. calls' = (calls \ {c}) \cup {[c EXCEPT !.stage = stage]}
  BY <1>2 DEF Lose
<1>4. CallsTyped(calls')
  BY <1>1, <1>3, StagedSame
<1>5. Staged(c, stage, calls')
  BY <1>1, <1>3, StagedSame
<1>8. CallsQuiet
  <2>1. ASSUME NEW d \in calls'
        PROVE  \E b \in calls : Same(d, b) /\ (d.stage = "done" => b.stage = "done") /\ (d.heard => b.heard)
    BY <1>2, <1>5, SameSelf DEF Staged
  <2>2. ASSUME NEW b \in calls, b.op = "create", b.heard PROVE \E d \in calls' : Same(d, b) /\ d.heard
    BY <1>5, <2>2, SameSelf DEF Staged
  <2>3. Reissued(calls', calls)
    BY <1>2, <1>5 DEF Staged, Reissued
  <2> QED
    BY <2>1, <2>2, <2>3 DEF CallsQuiet
<1> QED
  BY <1>4, <1>8, Still DEF Lose

LEMMA ElsewhereListsQuiet ==
    ASSUME StoreTyped, ListTyped, ElsewhereLists, UNCHANGED <<list, emojis>>
    PROVE  Quietly
<1>1. /\ CallsTyped(calls) /\ budget \in Budgets /\ budget.calls \in Nat /\ budget.lists \in Nat /\ list \in ListPages
      /\ lists \in Seq(SUBSET Listed) /\ CurrentLists \in SUBSET Listed
  BY CurrentTyped DEF StoreTyped, ListTyped, Budgets
<1>2. budget' = [budget EXCEPT !.lists = @ - 1] /\ budget.lists - 1 \in Nat /\ items' = items /\ calls' = calls
  BY <1>1 DEF ElsewhereLists
<1>3. budget' \in Budgets /\ budget'.ids = budget.ids /\ budget'.calls <= budget.calls
  BY <1>1, <1>2 DEF Budgets
<1>4. PICK left \in SUBSET Listed : lists' = Append(lists, left)
  <2>1. PICK l \in ListIds : \/ WriteLists({other \in CurrentLists : other.id # l})
                             \/ WriteLists(CurrentLists \cup {[id |-> l, count |-> 1]})
    BY DEF ElsewhereLists
  <2>2. {other \in CurrentLists : other.id # l} \in SUBSET Listed
    BY <1>1
  <2>3. CurrentLists \cup {[id |-> l, count |-> 1]} \in SUBSET Listed
    BY <1>1 DEF Listed
  <2> QED
    BY <2>1, <2>2, <2>3 DEF WriteLists
<1>5. lists' \in Seq(SUBSET Listed) /\ lists' # << >>
  BY <1>1, <1>4
<1>6. CallsTyped(calls') /\ CallsQuiet
  BY <1>1, <1>2, Dropping
<1> QED
  BY <1>1, <1>2, <1>3, <1>5, <1>6 DEF Quietly, Keeps, Swiped

LEMMA UnheardQuiet ==
    ASSUME StoreTyped, ListTyped, Unheard, UNCHANGED <<list, emojis>>
    PROVE  Quietly
<1>1. CallsTyped(calls)
  BY DEF StoreTyped
<1>2. PICK c \in calls : ~c.heard /\ calls' = calls \ {c}
  BY DEF Unheard
<1>3. CallsTyped(calls') /\ CallsQuiet
  BY <1>1, <1>2, Dropping
<1> QED
  BY <1>3, Still DEF Unheard

LEMMA TypeQuiet ==
    ASSUME StoreTyped, ListTyped, Type
    PROVE  Quietly
<1>1. /\ CallsTyped(calls) /\ budget \in Budgets /\ budget.calls \in Nat
      /\ lists \in Seq(SUBSET Listed) /\ lists # << >>
  BY DEF StoreTyped, Budgets
<1>2. UNCHANGED <<items, lists, calls, budget, emojis>>
  BY DEF Type, store
<1>3. CallsTyped(calls') /\ CallsQuiet
  BY <1>1, <1>2, Dropping
<1> QED
  BY <1>1, <1>2, <1>3, TypeDoes DEF Quietly

LEMMA ReactivateQuiet ==
    ASSUME StoreTyped, ListTyped, ReactivateCompleted, UNCHANGED emojis
    PROVE  Quietly
<1>1. /\ CallsTyped(calls) /\ lists \in Seq(SUBSET Listed) /\ lists # << >> /\ list \in ListPages
      /\ budget.calls \in Nat
  BY DEF StoreTyped, ListTyped, Budgets
<1>2. MayCall /\ budget' = Spent /\ list' = [list EXCEPT !.performing = TRUE] /\ items' = items /\ lists' = lists
  BY DEF ReactivateCompleted
<1>3. budget' \in Budgets /\ budget'.ids = budget.ids /\ budget'.calls <= budget.calls
  BY <1>1, <1>2, SpentTyped
<1>4. list' \in ListPages /\ Keeps /\ Swiped /\ list'.all = list.all /\ list'.shown = list.shown
  BY <1>1, <1>2 DEF ListPages, Keeps, Swiped
<1>5. Done(list.all) \in SUBSET ItemIds
  <2>1. list.all \in Seq(Rows)
    BY <1>1, PageFields
  <2>2. \A k \in DOMAIN list.all : list.all[k] \in Rows
    BY <2>1
  <2> QED
    BY <2>2 DEF Done, Rows, ItemIds
<1>6. PICK op \in {"create", "setIsDone", "reactivate", "delete", "reorder", "deleteList"} : op = "reactivate"
  OBVIOUS
<1>7. PICK c : c = NewCall(op, Done(list.all))
  OBVIOUS
<1>8. c \in Calls /\ c.op = op
  BY <1>5, <1>7, MadeCall
<1>9. calls' = calls \cup {c}
  BY <1>6, <1>7 DEF ReactivateCompleted
<1>10. CallsTyped(calls') /\ CallsQuiet
  BY <1>1, <1>6, <1>8, <1>9, Calling
<1> QED
  BY <1>1, <1>2, <1>3, <1>4, <1>10 DEF Quietly

LEMMA DeletesQuiet ==
    ASSUME StoreTyped, ListTyped, NEW ids \in SUBSET ItemIds, Deletes(ids), UNCHANGED emojis
    PROVE  Quietly
<1>1. /\ CallsTyped(calls) /\ lists \in Seq(SUBSET Listed) /\ lists # << >> /\ list \in ListPages
      /\ budget.calls \in Nat
  BY DEF StoreTyped, ListTyped, Budgets
<1>2. MayCall /\ budget' = Spent /\ list' = list /\ items' = items /\ lists' = lists
  BY DEF Deletes
<1>3. budget' \in Budgets /\ budget'.ids = budget.ids /\ budget'.calls <= budget.calls
  BY <1>1, <1>2, SpentTyped
<1>4. PICK op \in {"create", "setIsDone", "reactivate", "delete", "reorder", "deleteList"} : op = "delete"
  OBVIOUS
<1>5. PICK c : c = NewCall(op, ids)
  OBVIOUS
<1>6. c \in Calls /\ c.op = op
  BY <1>5, MadeCall
<1>7. calls' = calls \cup {c}
  BY <1>4, <1>5 DEF Deletes
<1>8. CallsTyped(calls') /\ CallsQuiet
  BY <1>1, <1>4, <1>6, <1>7, Calling
<1> QED
  BY <1>1, <1>2, <1>3, <1>8 DEF Quietly, Keeps, Swiped

LEMMA AnswerQuiet ==
    ASSUME StoreTyped, ListTyped, NEW c, UNCHANGED emojis,
           IsDoneNotSet(c) \/ Reactivated(c) \/ Deleted(c) \/ NotReordered(c)
    PROVE  Quietly
<1>1. /\ CallsTyped(calls) /\ budget \in Budgets /\ budget.calls \in Nat /\ list \in ListPages
      /\ lists \in Seq(SUBSET Listed) /\ lists # << >>
  BY DEF StoreTyped, ListTyped, Budgets
<1>2. c \in calls /\ c.op # "create" /\ calls' = calls \ {c} /\ UNCHANGED <<items, lists, budget>>
  BY DEF IsDoneNotSet, Reactivated, Deleted, NotReordered, Answered
<1>3. PICK stuck : stuck = list.stuck \cup (c.ids \cap list.busy)
  OBVIOUS
<1>4. \/ list' = list \/ list' = [list EXCEPT !.performing = FALSE]
      \/ list' = [list EXCEPT !.stuck = stuck]
  BY <1>3 DEF IsDoneNotSet, Reactivated, Deleted, NotReordered, NoLongerPerforming
<1>5. stuck \in SUBSET ItemIds
  BY <1>1, <1>3, PageFields
<1>6. list' \in ListPages /\ Keeps /\ Swiped /\ list'.all = list.all /\ list'.shown = list.shown
  BY <1>1, <1>4, <1>5 DEF ListPages, Keeps, Swiped
<1>7. CallsTyped(calls') /\ CallsQuiet
  BY <1>1, <1>2, Dropping
<1> QED
  BY <1>1, <1>2, <1>6, <1>7 DEF Quietly

LEMMA OpenOverviewQuiet ==
    ASSUME StoreTyped, ListTyped, OpenOverview, UNCHANGED <<list, emojis>>
    PROVE  Quietly
<1>1. /\ CallsTyped(calls) /\ budget \in Budgets /\ budget.calls \in Nat /\ budget.opens \in Nat
      /\ list \in ListPages /\ lists \in Seq(SUBSET Listed) /\ lists # << >>
  BY DEF StoreTyped, ListTyped, Budgets
<1>2. budget' = [budget EXCEPT !.opens = @ - 1] /\ budget.opens - 1 \in Nat /\ UNCHANGED <<items, lists, calls>>
  BY <1>1 DEF OpenOverview
<1>3. budget' \in Budgets /\ budget'.ids = budget.ids /\ budget'.calls <= budget.calls
  BY <1>1, <1>2 DEF Budgets
<1>4. CallsTyped(calls') /\ CallsQuiet
  BY <1>1, <1>2, Dropping
<1> QED
  BY <1>1, <1>2, <1>3, <1>4 DEF Quietly, Keeps, Swiped

LEMMA CloseOverviewQuiet ==
    ASSUME StoreTyped, ListTyped, CloseOverview, UNCHANGED <<list, emojis>>
    PROVE  Quietly
<1>1. CallsTyped(calls)
  BY DEF StoreTyped
<1>2. PICK deaf : deaf = {c \in calls : c.op = "deleteList"}
  OBVIOUS
<1>3. calls' = {IF c \in deaf THEN [c EXCEPT !.heard = FALSE] ELSE c : c \in calls}
  BY <1>2 DEF CloseOverview
<1>4. CallsTyped(calls') /\ Deafened(deaf, calls')
  BY <1>1, <1>3, UnheardSame
<1>5. CallsQuiet
  BY <1>2, <1>4, SameSelf DEF CallsQuiet, Deafened, Reissued, Same
<1> QED
  BY <1>4, <1>5, Still DEF CloseOverview

LEMMA RemoveListQuiet ==
    ASSUME StoreTyped, ListTyped, OverviewTyped, NEW l \in ListIds, RemoveList(l), UNCHANGED <<list, emojis>>
    PROVE  Quietly
<1>1. CASE Refused(l)
  <2>1. UNCHANGED <<items, lists, emojis, list, budget, calls>>
    BY <1>1 DEF RemoveList, store
  <2> QED
    BY <2>1, UnchangedQuiet
<1>2. CASE ~Refused(l)
  <2>1. /\ CallsTyped(calls) /\ lists \in Seq(SUBSET Listed) /\ lists # << >> /\ list \in ListPages
        /\ budget.calls \in Nat /\ overview.gen \in Nat
    BY DEF StoreTyped, ListTyped, OverviewTyped, Overviews, Budgets
  <2>2. MayCall /\ budget' = Spent /\ items' = items /\ lists' = lists
    BY <1>2 DEF RemoveList
  <2>3. budget' \in Budgets /\ budget'.ids = budget.ids /\ budget'.calls <= budget.calls
    BY <2>1, <2>2, SpentTyped
  <2>4. PICK op \in {"create", "setIsDone", "reactivate", "delete", "reorder", "deleteList"} : op = "deleteList"
    OBVIOUS
  <2>5. PICK plain : plain = NewCall(op, {})
    OBVIOUS
  <2>6. plain \in Calls /\ plain.op = op
    BY <2>5, MadeCall
  <2>7. PICK c : c = [plain EXCEPT !.list = l, !.gen = overview.gen]
    OBVIOUS
  <2>8. c \in Calls /\ c.op = op
    BY <2>1, <2>6, <2>7 DEF Calls
  <2>9. calls' = calls \cup {c}
    BY <1>2, <2>4, <2>5, <2>7 DEF RemoveList
  <2>10. CallsTyped(calls') /\ CallsQuiet
    BY <2>1, <2>4, <2>8, <2>9, Calling
  <2> QED
    BY <2>1, <2>2, <2>3, <2>10 DEF Quietly, Keeps, Swiped
<1> QED
  BY <1>1, <1>2

LEMMA RemovedQuiet ==
    ASSUME StoreTyped, ListTyped, NEW c, Removed(c) \/ NotRemoved(c), UNCHANGED <<list, emojis>>
    PROVE  Quietly
<1>1. CallsTyped(calls)
  BY DEF StoreTyped
<1>2. c \in calls /\ c.op # "create" /\ calls' = calls \ {c} /\ UNCHANGED <<items, lists, budget>>
  BY DEF Removed, NotRemoved
<1>3. CallsTyped(calls') /\ CallsQuiet
  BY <1>1, <1>2, Dropping
<1> QED
  BY <1>2, <1>3, Still

-----------------------------------------------------------------------------
\* The steps that do change the list, or what its page shows.
Loudly ==
    \/ (\E c \in calls : ServeItems(c)) /\ UNCHANGED <<list, emojis>>
    \/ ElsewhereItems /\ UNCHANGED <<list, emojis>>
    \/ (OpenList \/ CloseList) /\ UNCHANGED emojis
    \/ (\E f \in Filters : Filter(f)) /\ UNCHANGED emojis
    \/ "adding" \in used /\ Add
    \/ EmojisLoaded
    \/ Marking /\ UNCHANGED emojis
    \/ (\E k \in DOMAIN list.shown, done \in BOOLEAN : Swipe(k, done)) /\ UNCHANGED emojis
    \/ "sorting" \in used /\ (\E from, to \in DOMAIN list.shown : Reorder(from, to)) /\ UNCHANGED emojis
    \/ (\E c \in calls : Added(c) \/ FailedToAdd(c) \/ IsDoneSet(c) \/ Reordered(c)) /\ UNCHANGED emojis
    \/ (\E v \in DOMAIN items : SetList(v)) /\ UNCHANGED emojis

LEMMA UserSteps ==
    ASSUME StoreTyped, ListTyped, ListUser(used)
    PROVE  Quietly \/ Loudly
<1>1. list \in ListPages
  BY DEF ListTyped
<1>2. list.all \in Seq(Rows) /\ list.shown \in Seq(Rows)
  BY <1>1, PageFields
<1>3. Done(list.all) \in SUBSET ItemIds /\ {list.all[k].id : k \in DOMAIN list.all} \in SUBSET ItemIds
  <2>1. \A k \in DOMAIN list.all : list.all[k] \in Rows
    BY <1>2
  <2> QED
    BY <2>1 DEF Done, Rows, ItemIds
<1>4. CASE Type
  BY <1>4, TypeQuiet
<1>5. CASE "adding" \in used /\ Add
  BY <1>5 DEF Loudly
<1>6. CASE ReactivateCompleted /\ UNCHANGED emojis
  BY <1>6, ReactivateQuiet
<1>7. CASE (DeleteCompleted \/ DeleteAll) /\ UNCHANGED emojis
  BY <1>3, <1>7, DeletesQuiet DEF DeleteCompleted, DeleteAll
<1>8. ASSUME NEW k \in DOMAIN list.shown, DeleteRow(k), UNCHANGED emojis PROVE Quietly
  <2>1. list.shown[k] \in Rows
    BY <1>2
  <2>2. PICK ids : ids = {list.shown[k].id}
    OBVIOUS
  <2>3. ids \in SUBSET ItemIds /\ Deletes(ids)
    BY <1>8, <2>1, <2>2 DEF DeleteRow, Rows, ItemIds
  <2> QED
    BY <1>8, <2>3, DeletesQuiet
<1>9. CASE (OpenList \/ CloseList) /\ UNCHANGED emojis
  BY <1>9 DEF Loudly
<1>10. CASE (\E f \in Filters : Filter(f)) /\ UNCHANGED emojis
  BY <1>10 DEF Loudly
<1>11. CASE /\ \/ \E k \in DOMAIN list.shown : Check(k)
                \/ \E j \in DOMAIN list.shown, done \in BOOLEAN : Swipe(j, done)
             /\ UNCHANGED emojis
  BY <1>11 DEF Loudly, Marking
<1>12. CASE "sorting" \in used /\ (\E from, to \in DOMAIN list.shown : Reorder(from, to)) /\ UNCHANGED emojis
  BY <1>12 DEF Loudly
<1> QED
  BY <1>4, <1>5, <1>6, <1>7, <1>8, <1>9, <1>10, <1>11, <1>12 DEF ListUser

LEMMA Steps ==
    ASSUME StoreTyped, ListTyped, OverviewTyped, [Next]_vars
    PROVE  Quietly \/ Loudly
<1>1. CASE Serving
  <2>1. PICK c \in calls : ServeItems(c) \/ ServeDeleteList(c)
    BY <1>1 DEF Serving
  <2>2. UNCHANGED <<list, emojis>>
    BY <1>1 DEF Serving, views
  <2> QED
    BY <2>1, <2>2, ServeDeleteListQuiet DEF Loudly
<1>2. CASE Failing
  <2>1. PICK c \in calls : Lose(c)
    BY <1>2 DEF Failing
  <2>2. UNCHANGED <<list, emojis>>
    BY <1>2 DEF Failing, views
  <2> QED
    BY <2>1, <2>2, LoseQuiet
<1>3. CASE Others
  <2>1. UNCHANGED <<list, emojis>>
    BY <1>3 DEF Others, views
  <2> QED
    BY <1>3, <2>1, ElsewhereListsQuiet DEF Others, Loudly
<1>4. CASE Using
  <2>1. CASE ListUser(used)
    BY <2>1, UserSteps
  <2>2. CASE OverviewUser /\ UNCHANGED <<list, emojis>>
    <3>1. CASE OpenOverview \/ CloseOverview
      BY <2>2, <3>1, OpenOverviewQuiet, CloseOverviewQuiet
    <3>2. CASE \E l \in ListIds : RemoveList(l)
      BY <2>2, <3>2, RemoveListQuiet
    <3> QED
      BY <2>2, <3>1, <3>2 DEF OverviewUser
  <2> QED
    BY <1>4, <2>1, <2>2 DEF Using
<1>5. CASE ChangingTheLook
  <2>1. UNCHANGED <<items, lists, emojis, list, budget, calls>>
    BY <1>5 DEF ChangingTheLook, store
  <2> QED
    BY <2>1, UnchangedQuiet
<1>6. CASE Detecting
  BY <1>6 DEF Detecting, Loudly
<1>7. CASE Receiving
  <2>1. UNCHANGED emojis
    BY <1>7 DEF Receiving
  <2>2. ASSUME NEW c \in calls, ListReceive(c) PROVE Quietly \/ Loudly
    <3>1. CASE IsDoneNotSet(c) \/ Reactivated(c) \/ Deleted(c) \/ NotReordered(c)
      BY <2>1, <3>1, AnswerQuiet
    <3>2. CASE Added(c) \/ FailedToAdd(c) \/ IsDoneSet(c) \/ Reordered(c)
      BY <2>1, <3>2 DEF Loudly
    <3> QED
      BY <2>2, <3>1, <3>2 DEF ListReceive
  <2>3. CASE (\E c \in calls : Removed(c) \/ NotRemoved(c)) /\ UNCHANGED list
    BY <2>1, <2>3, RemovedQuiet
  <2>4. CASE Unheard /\ UNCHANGED <<list, overview>>
    BY <2>1, <2>4, UnheardQuiet
  <2> QED
    BY <1>7, <2>2, <2>3, <2>4 DEF Receiving
<1>8. CASE Watching
  <2>1. UNCHANGED emojis
    BY <1>8 DEF Watching
  <2>2. CASE \E v \in DOMAIN items : SetList(v)
    BY <2>1, <2>2 DEF Loudly
  <2>3. CASE (\E v \in DOMAIN lists : SpaceChanged(v)) /\ UNCHANGED <<list, menu>>
    <3>1. UNCHANGED <<items, lists, emojis, list, budget, calls>>
      BY <2>1, <2>3 DEF SpaceChanged, store
    <3> QED
      BY <3>1, UnchangedQuiet
  <2>4. CASE (\E v \in DOMAIN lists : MenuChanged(v)) /\ UNCHANGED <<list, overview>>
    <3>1. UNCHANGED <<items, lists, emojis, list, budget, calls>>
      BY <2>1, <2>4 DEF MenuChanged, store
    <3> QED
      BY <3>1, UnchangedQuiet
  <2> QED
    BY <1>8, <2>2, <2>3, <2>4 DEF Watching
<1>9. CASE UNCHANGED vars
  <2>1. UNCHANGED <<items, lists, emojis, list, budget, calls>>
    BY <1>9 DEF vars, store
  <2> QED
    BY <2>1, UnchangedQuiet
<1>10. CASE Closing
  BY <1>10 DEF Closing, Loudly, Marking
<1> QED
  BY <1>1, <1>2, <1>3, <1>4, <1>5, <1>6, <1>7, <1>8, <1>9, <1>10 DEF Next

-----------------------------------------------------------------------------
(***************************************************************************)
(* Types are kept.                                                         *)
(***************************************************************************)

\* The rows of a new version of the list are of those of the last, and of the item created.
RowsOf(rows, ids) ==
    \A k \in DOMAIN rows : (\E i \in DOMAIN Current : rows[k].id = Current[i].id) \/ rows[k].id \in ids

\* None of them is there twice that was not before.
OnceStill(rows, ids) ==
    \A id : OnceIn(Current, id) /\ (id \in ids => id \notin IdsOf(Current)) => OnceIn(rows, id)

LEMMA ServeItemsDoes ==
    ASSUME StoreTyped, NEW c \in calls, ServeItems(c)
    PROVE  /\ \E rows \in Seq(Items) : /\ items' = Append(items, rows)
                                       /\ RowsOf(rows, IF c.op = "create" THEN c.ids ELSE {})
                                       /\ c.op = "reorder" \/ OnceStill(rows, IF c.op = "create" THEN c.ids ELSE {})
           /\ lists' \in Seq(SUBSET Listed) /\ lists' # << >> /\ Len(lists) <= Len(lists')
           /\ CallsTyped(calls') /\ Staged(c, "done", calls') /\ budget' = budget /\ c.op # "deleteList"
<1>1. CallsTyped(calls) /\ c \in Calls /\ CallRight(c) /\ c.op # "deleteList"
      /\ items \in Seq(Seq(Items)) /\ lists \in Seq(SUBSET Listed) /\ lists # << >>
  BY DEF StoreTyped, CallsTyped, ServeItems
<1>2. Current \in Seq(Items) /\ CurrentLists \in SUBSET Listed
  BY CurrentTyped
<1>3. PICK rows : rows = Effect(c, Current)
  OBVIOUS
<1>11. c.op = "reorder" \/ OnceStill(rows, IF c.op = "create" THEN c.ids ELSE {})
  <2>1. ASSUME c.op # "reorder", NEW id, OnceIn(Current, id),
               id \in (IF c.op = "create" THEN c.ids ELSE {}) => id \notin IdsOf(Current)
        PROVE  OnceIn(rows, id)
    <3>1. c.op \in {"create", "setIsDone", "reactivate", "delete"}
      BY <1>1, <2>1 DEF Calls
    <3>2. c.op = "create" /\ id \in c.ids => id \notin IdsOf(Current)
      BY <2>1
    <3> QED
      BY <1>1, <1>2, <1>3, <2>1, <3>1, <3>2, EffectOnce
  <2> QED
    BY <2>1 DEF OnceStill
<1>4. rows \in Seq(Items) /\ RowsOf(rows, IF c.op = "create" THEN c.ids ELSE {})
  <2>1. Effect(c, Current) \in Seq(Items) \/ c.op = "deleteList"
    BY <1>1, <1>2, EffectTyped
  <2>2. c.op # "deleteList" =>
          \A k \in DOMAIN Effect(c, Current) :
             \/ \E i \in DOMAIN Current : Effect(c, Current)[k].id = Current[i].id
             \/ c.op = "create" /\ Effect(c, Current)[k].id \in c.ids
    BY <1>1, <1>2, EffectTyped
  <2> QED
    BY <1>1, <1>3, <2>1, <2>2 DEF RowsOf
<1>5. items' = Append(items, rows) /\ (lists' = lists \/ lists' = Append(lists, Counted(rows))) /\ budget' = budget
  BY <1>3 DEF ServeItems, Write, WriteLists
<1>6. Counted(rows) \in SUBSET Listed
  BY <1>2, <1>4, CountedTyped
<1>7. lists' \in Seq(SUBSET Listed) /\ lists' # << >> /\ Len(lists) <= Len(lists')
  <2>1. CASE lists' = lists
    BY <1>1, <2>1
  <2>2. CASE lists' = Append(lists, Counted(rows))
    BY <1>1, <1>6, <2>2
  <2> QED
    BY <1>5, <2>1, <2>2
<1>8. PICK stage \in {"done", "failed"} : stage = "done"
  OBVIOUS
<1>9. calls' = (calls \ {c}) \cup {[c EXCEPT !.stage = stage]}
  BY <1>8 DEF ServeItems, Served
<1>10. CallsTyped(calls') /\ Staged(c, stage, calls')
  BY <1>1, <1>9, StagedSame
<1> QED
  BY <1>1, <1>4, <1>5, <1>7, <1>8, <1>10, <1>11

LEMMA ElsewhereItemsDoes ==
    ASSUME StoreTyped, ElsewhereItems
    PROVE  /\ \E rows \in Seq(Items) : items' = Append(items, rows) /\ RowsOf(rows, {}) /\ OnceStill(rows, {})
           /\ lists' = lists /\ calls' = calls
           /\ budget' \in Budgets /\ budget'.ids = budget.ids /\ budget'.calls = budget.calls
<1>1. budget \in Budgets /\ budget.elsewhere \in Nat \ {0} /\ lists' = lists /\ calls' = calls
      /\ budget' = [budget EXCEPT !.elsewhere = @ - 1]
  BY DEF StoreTyped, Budgets, ElsewhereItems
<1>2. budget.elsewhere - 1 \in Nat
  BY <1>1
<1>3. budget' \in Budgets /\ budget'.ids = budget.ids /\ budget'.calls = budget.calls
  BY <1>1, <1>2 DEF Budgets
<1>4. Current \in Seq(Items)
  BY CurrentTyped
<1>5. PICK k \in DOMAIN Current : Write([Current EXCEPT ![k].done = ~@]) \/ Write(RemoveAt(Current, k))
  BY DEF ElsewhereItems
<1>6. CASE Write([Current EXCEPT ![k].done = ~@])
  <2>1. Current[k] \in Items
    BY <1>4, <1>5
  <2>2. PICK row : row = [Current[k] EXCEPT !.done = ~@]
    OBVIOUS
  <2>3. row \in Items /\ row.id = Current[k].id
    BY <2>1, <2>2 DEF Items
  <2>4. PICK rows : rows = [Current EXCEPT ![k] = row]
    OBVIOUS
  <2>5. rows \in Seq(Items) /\ DOMAIN rows = DOMAIN Current
        /\ \A i \in DOMAIN Current : rows[i] = IF i = k THEN row ELSE Current[i]
    BY <1>4, <1>5, <2>3, <2>4
  <2>6. RowsOf(rows, {})
    BY <2>3, <2>5 DEF RowsOf
  <2>7. items' = Append(items, rows)
    BY <1>6, <2>2, <2>4 DEF Write
  <2>8. \A i \in DOMAIN Current : rows[i].id = Current[i].id
    BY <2>3, <2>5
  <2>9. OnceStill(rows, {})
    BY <2>5, <2>8 DEF OnceStill, OnceIn
  <2> QED
    BY <1>1, <1>3, <2>5, <2>6, <2>7, <2>9
<1>7. CASE Write(RemoveAt(Current, k))
  <2>1. PICK rows : rows = RemoveAt(Current, k)
    OBVIOUS
  <2>2. Current \in Seq(Items) /\ k \in DOMAIN Current /\ rows = RemoveAt(Current, k)
    BY <1>4, <1>5, <2>1
  <2>3. rows \in Seq(Items)
    BY <2>2, RemovedRows
  <2>4. \A j \in DOMAIN rows : \E i \in DOMAIN Current : rows[j] = Current[i]
    BY <2>2, RemovedRows
  <2>5. RowsOf(rows, {})
    BY <2>4 DEF RowsOf
  <2>6. \A j, l \in DOMAIN rows : j # l =>
           \E i, m \in DOMAIN Current : i # m /\ rows[j] = Current[i] /\ rows[l] = Current[m]
    BY <2>2, RemovedRows
  <2>7. OnceStill(rows, {})
    BY <2>6 DEF OnceStill, OnceIn
  <2> QED
    BY <1>1, <1>3, <1>7, <2>1, <2>3, <2>5, <2>7 DEF Write
<1> QED
  BY <1>5, <1>6, <1>7

LEMMA OpenedPage == OpenedList \in ListPages /\ ClosedList \in ListPages /\ ClosedList.alive = FALSE
<1>1. << >> \in Seq(Rows) /\ << >> \in Seq(ItemIds)
  OBVIOUS
<1>2. OpenedList \in ListPages
  BY <1>1 DEF OpenedList, ListPages, Filters
<1> QED
  BY <1>2 DEF ClosedList, ListPages

LEMMA OpenListDoes ==
    ASSUME StoreTyped, ListTyped, OpenList
    PROVE  /\ list' \in ListPages /\ list' = OpenedList /\ UNCHANGED <<items, lists, calls>>
           /\ budget' \in Budgets /\ budget'.ids = budget.ids /\ budget'.calls = budget.calls
<1>1. budget \in Budgets /\ budget.opens \in Nat \ {0} /\ budget' = [budget EXCEPT !.opens = @ - 1]
      /\ list' = OpenedList /\ UNCHANGED <<items, lists, calls>>
  BY DEF StoreTyped, Budgets, OpenList
<1>2. budget.opens - 1 \in Nat
  BY <1>1
<1> QED
  BY <1>1, <1>2, OpenedPage DEF Budgets

LEMMA CloseListDoes ==
    ASSUME StoreTyped, ListTyped, CloseList
    PROVE  /\ list' \in ListPages /\ list' = ClosedList /\ UNCHANGED <<items, lists, budget>>
           /\ CallsTyped(calls') /\ \E deaf : Deafened(deaf, calls') /\ \A c \in calls : c.op = "deleteList" => c \notin deaf
<1>1. CallsTyped(calls) /\ list' = ClosedList /\ UNCHANGED <<items, lists, budget>>
  BY DEF StoreTyped, CloseList
<1>2. PICK deaf : deaf = {c \in calls : c.op # "deleteList"}
  OBVIOUS
<1>3. calls' = {IF c \in deaf THEN [c EXCEPT !.heard = FALSE] ELSE c : c \in calls}
  BY <1>2 DEF CloseList
<1>4. CallsTyped(calls') /\ Deafened(deaf, calls')
  BY <1>1, <1>3, UnheardSame
<1> QED
  BY <1>1, <1>2, <1>4, OpenedPage

LEMMA AnewTyped ==
    ASSUME StoreTyped, ListTyped, NEW pg \in ListPages, NEW cs, Anew(pg, cs), pg.seen <= Len(items),
           UNCHANGED <<items, lists>>, budget' \in Budgets, emojis' \in EmojiStages
    PROVE  StoreTyped' /\ ListTyped'
BY DEF Anew, AsPage, StoreTyped, ListTyped

\* What adds items: at once, or when the emojis are there.
LEMMA AddDoes ==
    ASSUME StoreTyped, ListTyped, Add
    PROVE  /\ UNCHANGED <<items, lists>> /\ budget.ids \in Nat \ {0}
           /\ budget' \in Budgets /\ budget'.ids = budget.ids - 1 /\ budget'.calls = budget.calls - 1
           /\ emojis' \in EmojiStages /\ list.alive
           /\ emojis = "loaded" => CreateListItems(<<budget.ids>>)
<1>1. budget \in Budgets /\ budget.ids \in Nat \ {0} /\ MayCall /\ emojis \in EmojiStages
  BY DEF StoreTyped, ListTyped, Budgets, Add
<1>2. Spent \in Budgets /\ Spent.calls = budget.calls - 1 /\ Spent.ids = budget.ids
  BY <1>1, SpentTyped
<1>3. budget' = [Spent EXCEPT !.ids = @ - 1] /\ budget.ids - 1 \in Nat
  BY <1>1 DEF Add
<1>4. budget' \in Budgets /\ budget'.ids = budget.ids - 1 /\ budget'.calls = budget.calls - 1
  BY <1>1, <1>2, <1>3 DEF Budgets
<1> QED
  BY <1>1, <1>4 DEF Add, EmojiStages

LEMMA EmojisLoadedDoes ==
    ASSUME StoreTyped, ListTyped, EmojisLoaded
    PROVE  /\ UNCHANGED <<items, lists, budget>> /\ emojis' \in EmojiStages
           /\ (UNCHANGED <<list, calls>> \/ CreateListItems(list.detecting))
           /\ list.detecting \in Seq(ItemIds)
BY PageFields DEF ListTyped, EmojisLoaded, EmojiStages

LEMMA LoudTyped ==
    ASSUME StoreTyped, ListTyped, Loudly
    PROVE  StoreTyped' /\ ListTyped'
<1>1. /\ items \in Seq(Seq(Items)) /\ items # << >> /\ lists \in Seq(SUBSET Listed) /\ lists # << >>
      /\ budget \in Budgets /\ CallsTyped(calls)
      /\ list \in ListPages /\ list.seen \in Nat /\ list.seen <= Len(items) /\ emojis \in EmojiStages
  BY PageFields DEF StoreTyped, ListTyped
<1>2. ASSUME NEW rows \in Seq(Items), items' = Append(items, rows), UNCHANGED <<list, emojis>>
      PROVE  items' \in Seq(Seq(Items)) /\ items' # << >> /\ ListTyped'
  <2>1. items' \in Seq(Seq(Items)) /\ Len(items') = Len(items) + 1
    BY <1>1, <1>2, Appended
  <2>2. items' # << >> /\ Len(items) <= Len(items')
    BY <1>1, <2>1
  <2>3. list' = list /\ emojis' = emojis /\ Len(items) \in Nat /\ Len(items') \in Nat
    BY <1>1, <1>2, <2>1
  <2>4. list'.seen <= Len(items')
    BY <1>1, <2>2, <2>3
  <2> QED
    BY <1>1, <2>1, <2>2, <2>3, <2>4 DEF ListTyped
<1>3. ASSUME NEW c \in calls, ServeItems(c), UNCHANGED <<list, emojis>> PROVE StoreTyped' /\ ListTyped'
  <2>1. /\ lists' \in Seq(SUBSET Listed) /\ lists' # << >> /\ CallsTyped(calls') /\ budget' = budget
        /\ \E rows \in Seq(Items) : items' = Append(items, rows)
    BY <1>3, ServeItemsDoes
  <2> QED
    BY <1>1, <1>2, <1>3, <2>1 DEF StoreTyped
<1>4. CASE ElsewhereItems /\ UNCHANGED <<list, emojis>>
  <2>1. /\ lists' = lists /\ calls' = calls /\ budget' \in Budgets
        /\ \E rows \in Seq(Items) : items' = Append(items, rows)
    BY <1>4, ElsewhereItemsDoes
  <2> QED
    BY <1>1, <1>2, <1>4, <2>1 DEF StoreTyped
<1>5. CASE OpenList /\ UNCHANGED emojis
  <2>1. list' \in ListPages /\ list'.seen = 0 /\ UNCHANGED <<items, lists, calls>> /\ budget' \in Budgets
    BY <1>5, OpenListDoes DEF OpenedList
  <2> QED
    BY <1>1, <1>5, <2>1 DEF StoreTyped, ListTyped
<1>6. CASE CloseList /\ UNCHANGED emojis
  <2>1. list' \in ListPages /\ list'.seen = 0 /\ UNCHANGED <<items, lists, budget>> /\ CallsTyped(calls')
    BY <1>6, CloseListDoes DEF ClosedList, OpenedList
  <2> QED
    BY <1>1, <1>6, <2>1 DEF StoreTyped, ListTyped
<1>7. ASSUME NEW f \in Filters, Filter(f), UNCHANGED emojis PROVE StoreTyped' /\ ListTyped'
  <2>1. PICK pg \in ListPages : Anew(pg, calls) /\ pg.seen = list.seen
         /\ pg.swiping \subseteq list.swiping
    BY <1>7, FilterDoes
  <2>2. UNCHANGED <<items, lists, budget>>
    BY <1>7 DEF Filter
  <2> QED
    BY <1>1, <1>7, <2>1, <2>2, AnewTyped
<1>8. ASSUME NEW ids \in Seq(ItemIds), CreateListItems(ids), UNCHANGED <<items, lists>>, budget' \in Budgets,
             emojis' \in EmojiStages
      PROVE  StoreTyped' /\ ListTyped'
  <2>1. PICK pg \in ListPages, cs \in SUBSET Calls : Anew(pg, cs) /\ pg.seen = list.seen
         /\ pg.swiping \subseteq list.swiping
    BY <1>8, CreateListItemsDoes
  <2> QED
    BY <1>1, <1>8, <2>1, AnewTyped
<1>9. CASE Add
  <2>1. /\ UNCHANGED <<items, lists>> /\ budget.ids \in Nat \ {0} /\ budget' \in Budgets /\ emojis' \in EmojiStages
        /\ emojis = "loaded" => CreateListItems(<<budget.ids>>)
    BY <1>9, AddDoes
  <2>2. CASE emojis = "loaded"
    <3>1. <<budget.ids>> \in Seq(ItemIds)
      BY <2>1 DEF ItemIds
    <3> QED
      BY <1>8, <2>1, <2>2, <3>1
  <2>3. CASE emojis # "loaded"
    <3>1. list' \in ListPages /\ calls' = calls /\ list'.seen = list.seen
           /\ list'.swiping \subseteq list.swiping
      BY <1>9, <2>3, AddWaitsDoes
    <3> QED
      BY <1>1, <2>1, <3>1 DEF StoreTyped, ListTyped
  <2> QED
    BY <2>2, <2>3
<1>10. CASE EmojisLoaded
  <2>1. /\ UNCHANGED <<items, lists, budget>> /\ emojis' \in EmojiStages /\ list.detecting \in Seq(ItemIds)
        /\ (UNCHANGED <<list, calls>> \/ CreateListItems(list.detecting))
    BY <1>10, EmojisLoadedDoes
  <2>2. CASE UNCHANGED <<list, calls>>
    BY <1>1, <2>1, <2>2 DEF StoreTyped, ListTyped
  <2>3. CASE CreateListItems(list.detecting)
    BY <1>1, <1>8, <2>1, <2>3
  <2> QED
    BY <2>1, <2>2, <2>3
<1>11. CASE Marking /\ UNCHANGED emojis
  <2>1. UNCHANGED <<items, lists>> /\ budget' \in Budgets
    BY <1>11, MarkingDoes
  <2>2. PICK no \in Nat, row \in Rows, new \in Rows, c \in Calls : MarksRow(row, new, c, no)
    BY <1>11, MarkingDoes
  <2>3. list' \in ListPages /\ CallsTyped(calls') /\ Keeps
    BY <2>2 DEF MarksRow
  <2> QED
    BY <1>1, <1>11, <2>1, <2>3 DEF StoreTyped, ListTyped, Keeps
<1>18. ASSUME NEW k \in DOMAIN list.shown, NEW done \in BOOLEAN, Swipe(k, done), UNCHANGED emojis
       PROVE  StoreTyped' /\ ListTyped'
  <2>1. list' \in ListPages /\ calls' = calls /\ list'.seen = list.seen
    BY <1>18, SwipeDoes DEF Keeps
  <2>2. UNCHANGED <<items, lists>> /\ MayCall /\ budget' = Spent
    BY <1>18 DEF Swipe
  <2>3. budget' \in Budgets
    BY <2>2, SpentTyped
  <2> QED
    BY <1>1, <1>18, <2>1, <2>2, <2>3 DEF StoreTyped, ListTyped
<1>12. ASSUME NEW from \in DOMAIN list.shown, NEW to \in DOMAIN list.shown, Reorder(from, to), UNCHANGED emojis
       PROVE  StoreTyped' /\ ListTyped'
  <2>1. list' \in ListPages /\ CallsTyped(calls') /\ Keeps
    BY <1>12, ReorderDoes DEF MovesRow
  <2>2. UNCHANGED <<items, lists>> /\ MayCall /\ budget' = Spent
    BY <1>12 DEF Reorder
  <2>3. budget' \in Budgets
    BY <2>2, SpentTyped
  <2> QED
    BY <1>1, <1>12, <2>1, <2>2, <2>3 DEF StoreTyped, ListTyped, Keeps
<1>13. ASSUME NEW c, Added(c), UNCHANGED emojis PROVE StoreTyped' /\ ListTyped'
  <2>1. PICK pg \in ListPages : Anew(pg, calls \ {c}) /\ pg.seen = list.seen
         /\ pg.swiping \subseteq list.swiping
    BY <1>13, AddedDoes
  <2>2. UNCHANGED <<items, lists, budget>>
    BY <1>13 DEF Added
  <2> QED
    BY <1>1, <1>13, <2>1, <2>2, AnewTyped
<1>14. ASSUME NEW c, FailedToAdd(c), UNCHANGED emojis PROVE StoreTyped' /\ ListTyped'
  <2>1. list' \in ListPages /\ CallsTyped(calls') /\ list'.seen = list.seen
         /\ list'.swiping \subseteq list.swiping
    BY <1>14, FailedToAddDoes
  <2>2. UNCHANGED <<items, lists, budget>>
    BY <1>14 DEF FailedToAdd
  <2> QED
    BY <1>1, <1>14, <2>1, <2>2 DEF StoreTyped, ListTyped
<1>15. ASSUME NEW c, IsDoneSet(c), UNCHANGED emojis PROVE StoreTyped' /\ ListTyped'
  <2>1. list' \in ListPages /\ CallsTyped(calls') /\ Keeps
    BY <1>15, IsDoneSetDoes
  <2>2. UNCHANGED <<items, lists, budget>>
    BY <1>15 DEF IsDoneSet
  <2> QED
    BY <1>1, <1>15, <2>1, <2>2 DEF StoreTyped, ListTyped, Keeps
<1>16. ASSUME NEW c, Reordered(c), UNCHANGED emojis PROVE StoreTyped' /\ ListTyped'
  <2>1. list' \in ListPages /\ CallsTyped(calls') /\ Keeps
    BY <1>16, ReorderedDoes
  <2>2. UNCHANGED <<items, lists, budget>>
    BY <1>16 DEF Reordered
  <2> QED
    BY <1>1, <1>16, <2>1, <2>2 DEF StoreTyped, ListTyped, Keeps
<1>17. ASSUME NEW v, SetList(v), UNCHANGED emojis PROVE StoreTyped' /\ ListTyped'
  <2>1. PICK pg \in ListPages : Anew(pg, calls) /\ v \in 1 .. Len(items) /\ pg.seen = v
    BY <1>17, SetListDoes
  <2>2. UNCHANGED <<items, lists, budget>>
    BY <1>17 DEF SetList
  <2> QED
    BY <1>1, <1>17, <2>1, <2>2, AnewTyped
<1> QED
  BY <1>3, <1>4, <1>5, <1>6, <1>7, <1>9, <1>10, <1>11, <1>12, <1>13, <1>14, <1>15, <1>16, <1>17, <1>18
  DEF Loudly

LEMMA PageTypedStep ==
    ASSUME StoreTyped, ListTyped, OverviewTyped, [Next]_vars
    PROVE  StoreTyped' /\ ListTyped'
<1>1. CASE Quietly
  <2>1. items \in Seq(Seq(Items)) /\ items # << >> /\ list.seen <= Len(items) /\ emojis \in EmojiStages
    BY DEF StoreTyped, ListTyped
  <2> QED
    BY <1>1, <2>1 DEF Quietly, Keeps, StoreTyped, ListTyped
<1> QED
  BY <1>1, Steps, LoudTyped

-----------------------------------------------------------------------------
(***************************************************************************)
(* The types of the overview, the menu and the look.                       *)
(***************************************************************************)

LEMMA CountsTyped ==
    ASSUME NEW ids \in SUBSET ListIds, NEW f \in [ids -> Nat]
    PROVE  f \in CountsShown /\ DOMAIN f = ids
BY DEF CountsShown

LEMMA SeededTyped == Seeded \in CountsShown /\ DOMAIN Seeded = BuiltIn
<1>1. Seeded \in [BuiltIn -> Nat] /\ BuiltIn \in SUBSET ListIds
  BY ListsPageAssumption DEF Seeded
<1> QED
  BY <1>1, CountsTyped

LEMMA MergedTyped ==
    ASSUME NEW listed \in SUBSET Listed
    PROVE  /\ Merged(listed) \in CountsShown /\ DOMAIN Merged(listed) = BuiltIn \cup Ids(listed)
           /\ Ids(listed) \subseteq ListIds
           /\ OneEach(listed) => \A l \in listed : Merged(listed)[l.id] = l.count
<1>1. Ids(listed) \in SUBSET ListIds
  BY DEF Ids, Listed
<1>2. PICK ids : ids = BuiltIn \cup Ids(listed)
  OBVIOUS
<1>3. ids \in SUBSET ListIds
  BY <1>1, <1>2, ListsPageAssumption
<1>4. Merged(listed) = [l \in ids |-> IF l \in Ids(listed) THEN (CHOOSE m \in listed : m.id = l).count ELSE Seeded[l]]
  BY <1>2 DEF Merged
<1>5. ASSUME NEW l \in Ids(listed)
      PROVE  (CHOOSE m \in listed : m.id = l) \in listed /\ (CHOOSE m \in listed : m.id = l).id = l
  BY DEF Ids
<1>6. \A l \in Ids(listed) : (CHOOSE m \in listed : m.id = l).count \in Nat
  BY <1>5 DEF Listed
<1>7. \A l \in ids : l \notin Ids(listed) => Seeded[l] \in Nat
  BY <1>2 DEF Seeded
<1>8. Merged(listed) \in [ids -> Nat]
  BY <1>4, <1>6, <1>7
<1>9. ASSUME OneEach(listed), NEW l \in listed PROVE Merged(listed)[l.id] = l.count
  <2>1. l.id \in Ids(listed) /\ l.id \in ids
    BY <1>2 DEF Ids
  <2>2. (CHOOSE m \in listed : m.id = l.id) = l
    BY <1>5, <1>9, <2>1 DEF OneEach
  <2> QED
    BY <1>4, <2>1, <2>2
<1> QED
  BY <1>1, <1>2, <1>3, <1>8, <1>9, CountsTyped

LEMMA WithoutTyped ==
    ASSUME NEW shown \in CountsShown, NEW ids
    PROVE  /\ Without(shown, ids) \in CountsShown /\ DOMAIN Without(shown, ids) = DOMAIN shown \ ids
           /\ \A l \in DOMAIN shown \ ids : Without(shown, ids)[l] = shown[l]
<1>1. PICK S \in SUBSET ListIds : shown \in [S -> Nat]
  BY DEF CountsShown
<1>2. S \ ids \in SUBSET ListIds /\ DOMAIN shown = S
  BY <1>1
<1>3. Without(shown, ids) \in [S \ ids -> Nat]
  BY <1>1, <1>2 DEF Without
<1>4. Without(shown, ids) \in CountsShown
  BY <1>2, <1>3, CountsTyped
<1> QED
  BY <1>2, <1>4 DEF Without

LEMMA ClosedOverviewTyped == ClosedOverview \in Overviews
<1>1. << >> \in CountsShown
  <2>1. << >> \in [{} -> Nat]
    OBVIOUS
  <2> QED
    BY <2>1 DEF CountsShown
<1> QED
  BY <1>1 DEF ClosedOverview, Overviews

\* Versions of the space's document are only added.
LEMMA ListsGrow ==
    ASSUME StoreTyped, [Next]_vars
    PROVE  \/ lists' = lists
           \/ /\ lists' \in Seq(SUBSET Listed) /\ Len(lists') = Len(lists) + 1
              /\ \A v \in DOMAIN lists : v \in DOMAIN lists' /\ lists'[v] = lists[v]
              /\ CurrentLists' = lists'[Len(lists')]
              /\ OneEach(CurrentLists) => OneEach(lists'[Len(lists')])
              /\ UNCHANGED <<list, overview, menu>>
<1>1. lists \in Seq(SUBSET Listed) /\ CurrentLists \in SUBSET Listed /\ Current \in Seq(Items)
  BY CurrentTyped DEF StoreTyped
<1>2. ASSUME NEW left \in SUBSET Listed, lists' = Append(lists, left), OneEach(CurrentLists) => OneEach(left)
      PROVE  /\ lists' \in Seq(SUBSET Listed) /\ Len(lists') = Len(lists) + 1
             /\ \A v \in DOMAIN lists : v \in DOMAIN lists' /\ lists'[v] = lists[v]
             /\ CurrentLists' = lists'[Len(lists')]
             /\ OneEach(CurrentLists) => OneEach(lists'[Len(lists')])
  <2>1. /\ lists' \in Seq(SUBSET Listed) /\ Len(lists') = Len(lists) + 1
        /\ DOMAIN lists' = DOMAIN lists \cup {Len(lists) + 1}
        /\ \A v \in DOMAIN lists : lists'[v] = lists[v]
        /\ lists'[Len(lists) + 1] = left
    BY <1>1, <1>2, Appended
  <2>2. CurrentLists' = lists'[Len(lists')]
    BY DEF CurrentLists, Last
  <2>3. lists'[Len(lists')] = left
    BY <2>1
  <2> QED
    BY <1>2, <2>1, <2>2, <2>3
<1>3. CASE Serving
  <2>1. UNCHANGED <<list, overview, menu>>
    BY <1>3 DEF Serving, views
  <2>2. PICK c \in calls : ServeItems(c) \/ ServeDeleteList(c)
    BY <1>3 DEF Serving
  <2>3. CASE ServeDeleteList(c)
    <3>1. PICK left : left = {l \in CurrentLists : l.id # c.list}
      OBVIOUS
    <3>2. left \in SUBSET Listed /\ lists' = Append(lists, left)
      BY <1>1, <2>3, <3>1 DEF ServeDeleteList, WriteLists
    <3>3. OneEach(CurrentLists) => OneEach(left)
      BY <3>1 DEF OneEach
    <3> QED
      BY <1>2, <2>1, <3>2, <3>3
  <2>4. CASE ServeItems(c)
    <3>1. PICK rows : rows = Effect(c, Current)
      OBVIOUS
    <3>2. c \in Calls /\ CallRight(c) /\ c.op # "deleteList"
      BY <2>4 DEF StoreTyped, CallsTyped, ServeItems
    <3>3. Effect(c, Current) \in Seq(Items) \/ c.op = "deleteList"
      BY <1>1, <3>2, EffectTyped
    <3>4. rows \in Seq(Items)
      BY <3>1, <3>2, <3>3
    <3>5. Counted(rows) \in SUBSET Listed /\ (OneEach(CurrentLists) => OneEach(Counted(rows)))
      BY <1>1, <3>4, CountedTyped
    <3>6. lists' = lists \/ lists' = Append(lists, Counted(rows))
      BY <2>4, <3>1 DEF ServeItems, WriteLists
    <3> QED
      BY <1>2, <2>1, <3>5, <3>6
  <2> QED
    BY <2>2, <2>3, <2>4
<1>4. CASE Failing
  BY <1>4 DEF Failing, Lose
<1>5. CASE Others
  <2>1. UNCHANGED <<list, overview, menu>>
    BY <1>5 DEF Others, views
  <2>2. CASE ElsewhereItems
    BY <2>2 DEF ElsewhereItems
  <2>3. CASE ElsewhereLists
    <3>1. PICK l \in ListIds : IF l \in {other.id : other \in CurrentLists}
                               THEN WriteLists({other \in CurrentLists : other.id # l})
                               ELSE WriteLists(CurrentLists \cup {[id |-> l, count |-> 1]})
      BY <2>3 DEF ElsewhereLists
    <3>2. CASE l \in {other.id : other \in CurrentLists}
      <4>1. PICK left : left = {other \in CurrentLists : other.id # l}
        OBVIOUS
      <4>2. left \in SUBSET Listed /\ (OneEach(CurrentLists) => OneEach(left))
        BY <1>1, <4>1 DEF OneEach
      <4>3. lists' = Append(lists, left)
        BY <3>1, <3>2, <4>1 DEF WriteLists
      <4> QED
        BY <1>2, <2>1, <4>2, <4>3
    <3>3. CASE l \notin {other.id : other \in CurrentLists}
      <4>1. PICK left : left = CurrentLists \cup {[id |-> l, count |-> 1]}
        OBVIOUS
      <4>2. PICK new : new = [id |-> l, count |-> 1]
        OBVIOUS
      <4>3. new \in Listed /\ new.id = l /\ left = CurrentLists \cup {new}
        BY <4>1, <4>2 DEF Listed
      <4>4. left \in SUBSET Listed
        BY <1>1, <4>3
      <4>5. OneEach(CurrentLists) => OneEach(left)
        BY <3>3, <4>3 DEF OneEach
      <4>6. lists' = Append(lists, left)
        BY <3>1, <3>3, <4>1 DEF WriteLists
      <4> QED
        BY <1>2, <2>1, <4>4, <4>5, <4>6
    <3> QED
      BY <3>2, <3>3
  <2> QED
    BY <1>5, <2>2, <2>3 DEF Others
<1>6. CASE Using
  <2>1. CASE ListUser(used)
    BY <2>1 DEF ListUser, Type, Add, store, OpenList, CloseList, Filter, Check, Swipe, ReactivateCompleted,
                DeleteCompleted, DeleteAll, DeleteRow, Deletes, Reorder
  <2>2. CASE OverviewUser
    BY <2>2 DEF OverviewUser, OpenOverview, CloseOverview, RemoveList, store
  <2> QED
    BY <1>6, <2>1, <2>2 DEF Using
<1>7. CASE ChangingTheLook
  BY <1>7 DEF ChangingTheLook, store
<1>8. CASE Detecting
  BY <1>8 DEF Detecting, EmojisLoaded
<1>9. CASE Receiving
  BY <1>9 DEF Receiving, ListReceive, Added, FailedToAdd, IsDoneSet, IsDoneNotSet, Reactivated, Deleted,
              Reordered, NotReordered, Removed, NotRemoved, Unheard
<1>10. CASE Watching
  BY <1>10 DEF Watching, SetList, SpaceChanged, MenuChanged, store
<1>11. CASE Closing
  BY <1>11 DEF Closing, SwipeClosed
<1>12. CASE UNCHANGED vars
  BY <1>12 DEF vars, store
<1> QED
  BY <1>3, <1>4, <1>5, <1>6, <1>7, <1>8, <1>9, <1>10, <1>11, <1>12 DEF Next

\* What each of the other views can do.
LEMMA OverviewSteps ==
    ASSUME [Next]_vars
    PROVE  /\ \/ overview' = overview \/ OpenOverview \/ CloseOverview
              \/ \E l \in ListIds : RemoveList(l)
              \/ \E c \in calls : Removed(c) \/ NotRemoved(c)
              \/ \E v \in DOMAIN lists : SpaceChanged(v)
           /\ menu' = menu \/ \E v \in DOMAIN lists : MenuChanged(v)
           /\ UNCHANGED remembered \/ AppStateUser
<1>1. CASE Serving \/ Failing \/ Others
  BY <1>1 DEF Serving, Failing, Others, views
<1>2. CASE Using
  BY <1>2 DEF Using, OverviewUser
<1>3. CASE ChangingTheLook
  BY <1>3 DEF ChangingTheLook
<1>4. CASE Closing \/ Detecting
  BY <1>4 DEF Closing, Detecting
<1>5. CASE Receiving
  BY <1>5 DEF Receiving
<1>6. CASE Watching
  BY <1>6 DEF Watching
<1>7. CASE UNCHANGED vars
  BY <1>7 DEF vars
<1> QED
  BY <1>1, <1>2, <1>3, <1>4, <1>5, <1>6, <1>7 DEF Next

LEMMA OverviewFields ==
    ASSUME overview \in Overviews
    PROVE  /\ overview.alive \in BOOLEAN /\ overview.shown \in CountsShown /\ overview.reordered \in BOOLEAN
           /\ overview.gen \in Nat /\ overview.seen \in Nat /\ overview.missed \in BOOLEAN
BY DEF Overviews

LEMMA OpenOverviewDoes ==
    ASSUME OpenOverview
    PROVE  /\ overview' \in Overviews /\ overview'.alive /\ overview'.shown = Seeded /\ overview'.seen = 0
           /\ overview'.gen = 0 /\ ~overview.alive
<1>1. overview' = [ClosedOverview EXCEPT !.alive = TRUE, !.shown = Seeded] /\ ~overview.alive
  BY DEF OpenOverview
<1> QED
  BY <1>1, ClosedOverviewTyped, SeededTyped DEF ClosedOverview, Overviews

LEMMA RemovedDoes ==
    ASSUME overview \in Overviews, NEW c, Removed(c) \/ NotRemoved(c)
    PROVE  /\ overview' \in Overviews /\ overview'.alive = overview.alive /\ overview'.gen = overview.gen
           /\ overview'.seen = overview.seen /\ c \in calls /\ c.op = "deleteList" /\ calls' = calls \ {c}
           /\ NotRemoved(c) => overview'.missed
           /\ Removed(c) /\ c.gen = overview.gen => overview'.shown = Without(overview.shown, {c.list})
           /\ Removed(c) /\ c.gen # overview.gen => overview'.shown = overview.shown
           /\ Removed(c) => overview'.missed = overview.missed /\ c.stage = "done" /\ c.heard
<1>1. c \in calls /\ c.op = "deleteList" /\ calls' = calls \ {c}
  BY DEF Removed, NotRemoved
<1>2. CASE Removed(c) /\ c.gen = overview.gen
  <2>1. PICK shown : shown = Without(overview.shown, {c.list})
    OBVIOUS
  <2>2. shown \in CountsShown
    BY <2>1, OverviewFields, WithoutTyped
  <2>3. overview' = [overview EXCEPT !.shown = shown] /\ c.stage = "done" /\ c.heard /\ ~NotRemoved(c)
    BY <1>2, <2>1 DEF Removed, NotRemoved
  <2> QED
    BY <1>1, <1>2, <2>1, <2>2, <2>3 DEF Overviews
<1>3. CASE Removed(c) /\ c.gen # overview.gen
  <2>1. overview' = overview /\ c.stage = "done" /\ c.heard /\ ~NotRemoved(c)
    BY <1>3 DEF Removed, NotRemoved
  <2> QED
    BY <1>1, <1>3, <2>1
<1>4. CASE NotRemoved(c)
  <2>1. overview' = [overview EXCEPT !.missed = TRUE] /\ ~Removed(c)
    BY <1>4 DEF Removed, NotRemoved
  <2> QED
    BY <1>1, <1>4, <2>1 DEF Overviews
<1> QED
  BY <1>2, <1>3, <1>4

LEMMA SpaceChangedDoes ==
    ASSUME StoreTyped, OverviewTyped, NEW v, SpaceChanged(v)
    PROVE  /\ overview' \in Overviews /\ overview.alive /\ overview'.alive /\ overview'.seen = v
           /\ v \in 1 .. Len(lists) /\ UNCHANGED store /\ overview.gen <= overview'.gen
           /\ \/ /\ overview'.shown = overview.shown /\ overview'.gen = overview.gen
                 /\ overview'.missed \/ TrueTo(Without(overview.shown, Leave(calls)), lists[v])
              \/ overview'.shown = Merged(lists[v]) /\ overview'.gen = overview.gen + 1
<1>1. /\ overview \in Overviews /\ overview.seen \in Nat /\ overview.gen \in Nat /\ overview.alive
      /\ lists \in Seq(SUBSET Listed) /\ v \in overview.seen + 1 .. Len(lists) /\ UNCHANGED store
  BY OverviewFields DEF OverviewTyped, StoreTyped, SpaceChanged
<1>2. v \in 1 .. Len(lists) /\ v \in Nat
  BY <1>1
<1>3. lists[v] \in SUBSET Listed
  BY <1>1, <1>2
<1>4. CASE overview.reordered
  <2>1. PICK missed \in BOOLEAN : missed = ~TrueTo(Without(overview.shown, Leave(calls)), lists[v])
    OBVIOUS
  <2>2. overview' = [overview EXCEPT !.reordered = FALSE, !.seen = v, !.missed = missed]
    BY <1>4, <2>1 DEF SpaceChanged
  <2>3. /\ overview' \in Overviews /\ overview'.alive = overview.alive /\ overview'.seen = v
        /\ overview'.shown = overview.shown /\ overview'.gen = overview.gen /\ overview'.missed = missed
    BY <1>1, <1>2, <2>1, <2>2 DEF Overviews
  <2>4. overview'.missed \/ TrueTo(Without(overview.shown, Leave(calls)), lists[v])
    BY <2>1, <2>3, Zenon
  <2>5. overview.gen <= overview'.gen
    BY <1>1, <2>3
  <2> QED
    BY <1>1, <1>2, <2>3, <2>4, <2>5, Zenon
<1>5. CASE ~overview.reordered
  <2>1. PICK shown : shown = Merged(lists[v])
    OBVIOUS
  <2>2. shown \in CountsShown
    BY <1>3, <2>1, MergedTyped
  <2>6. PICK gen \in Nat : gen = overview.gen + 1
    BY <1>1
  <2>7. overview' = [overview EXCEPT !.shown = shown, !.gen = @ + 1, !.seen = v, !.missed = FALSE]
    BY <1>5, <2>1 DEF SpaceChanged
  <2>3. overview' = [overview EXCEPT !.shown = shown, !.gen = gen, !.seen = v, !.missed = FALSE]
    BY <2>6, <2>7
  <2>4. /\ overview' \in Overviews /\ overview'.alive = overview.alive /\ overview'.seen = v
        /\ overview'.shown = shown /\ overview'.gen = gen
    BY <1>1, <1>2, <2>2, <2>3 DEF Overviews
  <2>5. overview.gen <= overview'.gen
    BY <1>1, <2>4, <2>6
  <2> QED
    BY <1>1, <1>2, <2>1, <2>4, <2>5, <2>6, Zenon
<1> QED
  BY <1>4, <1>5

LEMMA OverviewTypedStep ==
    ASSUME StoreTyped, OverviewTyped, [Next]_vars
    PROVE  OverviewTyped'
<1>1. /\ overview \in Overviews /\ overview.seen <= Len(lists) /\ overview.seen \in Nat
      /\ lists \in Seq(SUBSET Listed) /\ Len(lists) \in Nat
  BY OverviewFields DEF OverviewTyped, StoreTyped
<1>2. Len(lists') \in Nat /\ Len(lists) <= Len(lists')
  BY <1>1, ListsGrow
<1>3. CASE overview' = overview
  BY <1>1, <1>2, <1>3 DEF OverviewTyped
<1>4. CASE OpenOverview
  BY <1>2, <1>4, OpenOverviewDoes DEF OverviewTyped
<1>5. CASE CloseOverview
  <2>1. overview' = ClosedOverview
    BY <1>5 DEF CloseOverview
  <2> QED
    BY <1>2, <2>1, ClosedOverviewTyped DEF OverviewTyped, ClosedOverview
<1>6. ASSUME NEW l \in ListIds, RemoveList(l) PROVE OverviewTyped'
  <2>1. overview' = [overview EXCEPT !.reordered = TRUE]
    BY <1>6 DEF RemoveList
  <2>2. overview' \in Overviews /\ overview'.seen = overview.seen
    BY <1>1, <2>1 DEF Overviews
  <2> QED
    BY <1>1, <1>2, <2>2 DEF OverviewTyped
<1>7. ASSUME NEW c \in calls, Removed(c) \/ NotRemoved(c) PROVE OverviewTyped'
  <2>1. overview' \in Overviews /\ overview'.seen = overview.seen
    BY <1>1, <1>7, RemovedDoes
  <2> QED
    BY <1>1, <1>2, <2>1 DEF OverviewTyped
<1>8. ASSUME NEW v \in DOMAIN lists, SpaceChanged(v) PROVE OverviewTyped'
  <2>1. overview' \in Overviews /\ overview'.seen = v /\ v \in 1 .. Len(lists)
    BY <1>8, SpaceChangedDoes
  <2> QED
    BY <1>1, <1>2, <2>1 DEF OverviewTyped
<1> QED
  BY <1>3, <1>4, <1>5, <1>6, <1>7, <1>8, OverviewSteps

LEMMA MirroredTyped ==
    ASSUME NEW listed \in SUBSET Listed
    PROVE  Mirrored(listed) \in SUBSET ListIds /\ Mirrored(listed) \subseteq BuiltIn \cup Ids(listed)
BY MergedTyped, ListsPageAssumption DEF Mirrored

LEMMA MenuTypedStep ==
    ASSUME StoreTyped, MenuTyped, [Next]_vars
    PROVE  MenuTyped'
<1>1. /\ menu \in [shown : SUBSET ListIds, seen : Nat] /\ menu.seen <= Len(lists)
      /\ lists \in Seq(SUBSET Listed) /\ Len(lists) \in Nat
  BY DEF MenuTyped, StoreTyped
<1>2. Len(lists') \in Nat /\ Len(lists) <= Len(lists')
  BY <1>1, ListsGrow
<1>3. CASE menu' = menu
  BY <1>1, <1>2, <1>3 DEF MenuTyped
<1>4. ASSUME NEW v \in DOMAIN lists, MenuChanged(v) PROVE MenuTyped'
  <2>1. v \in 1 .. Len(lists) /\ lists[v] \in SUBSET Listed
    BY <1>1
  <2>2. menu' = [shown |-> Mirrored(lists[v]), seen |-> v]
    BY <1>4 DEF MenuChanged
  <2>3. Mirrored(lists[v]) \in SUBSET ListIds
    BY <2>1, MirroredTyped
  <2> QED
    BY <1>2, <2>1, <2>2, <2>3 DEF MenuTyped
<1> QED
  BY <1>3, <1>4, OverviewSteps

LEMMA ToggledTyped ==
    ASSUME appState \in [Tabs -> AppStates], NEW t \in Tabs, NEW title \in Titles
    PROVE  Toggled(t, title) \in AppStates
<1>1. PICK s \in AppStates : s = appState[t]
  OBVIOUS
<1>2. PICK groups : groups = IF title \in s.collapsedGroups THEN s.collapsedGroups \ {title}
                             ELSE s.collapsedGroups \cup {title}
  OBVIOUS
<1>3. groups \in SUBSET Titles
  BY <1>2 DEF AppStates
<1>4. Toggled(t, title) = [s EXCEPT !.collapsedGroups = groups]
  BY <1>1, <1>2 DEF Toggled
<1> QED
  BY <1>3, <1>4 DEF AppStates

LEMMA SavedTyped ==
    ASSUME LookTyped, NEW t \in Tabs, NEW s \in AppStates, SaveAppState(t, s)
    PROVE  LookTyped' /\ (LookInv => LookInv')
BY DEF LookTyped, SaveAppState, LookInv

LEMMA LookStep ==
    ASSUME LookTyped, [Next]_vars
    PROVE  LookTyped' /\ (LookInv => LookInv')
<1>1. appState \in [Tabs -> AppStates] /\ saved \in AppStates /\ behind \subseteq Tabs
  BY DEF LookTyped
<1>2. CASE UNCHANGED remembered
  BY <1>1, <1>2 DEF remembered, LookTyped, LookInv
<1>3. ASSUME NEW t \in Tabs, NEW title \in Titles, ClickGroup(t, title)
      PROVE  LookTyped' /\ (LookInv => LookInv')
  BY <1>1, <1>3, ToggledTyped, SavedTyped DEF ClickGroup
<1>4. ASSUME NEW t \in Tabs, NEW title \in Titles, ClickGroupUnsaved(t, title)
      PROVE  LookTyped' /\ (LookInv => LookInv')
  <2>1. PICK s \in AppStates : s = Toggled(t, title)
    BY <1>1, ToggledTyped
  <2>2. appState' = [appState EXCEPT ![t] = s] /\ behind' = behind \cup {t} /\ saved' = saved
    BY <1>4, <2>1 DEF ClickGroupUnsaved
  <2> QED
    BY <1>1, <2>2 DEF LookTyped, LookInv
<1>5. ASSUME NEW t \in Tabs, ClickShowWatchedMovies(t)
      PROVE  LookTyped' /\ (LookInv => LookInv')
  <2>1. PICK s : s = [appState[t] EXCEPT !.showWatched = ~@]
    OBVIOUS
  <2>2. s \in AppStates
    <3>1. PICK old \in AppStates : old = appState[t]
      BY <1>1
    <3>2. s = [old EXCEPT !.showWatched = ~old.showWatched]
      BY <2>1, <3>1
    <3> QED
      BY <3>2 DEF AppStates
  <2> QED
    BY <1>5, <2>1, <2>2, SavedTyped DEF ClickShowWatchedMovies
<1>6. ASSUME NEW t \in Tabs, LoadAppState(t)
      PROVE  LookTyped' /\ (LookInv => LookInv')
  BY <1>1, <1>6 DEF LoadAppState, LookTyped, LookInv
<1> QED
  BY <1>2, <1>3, <1>4, <1>5, <1>6, OverviewSteps DEF AppStateUser

-----------------------------------------------------------------------------
LEMMA InitTyped ==
    ASSUME Init
    PROVE  WellTyped
<1>1. PICK s \in Scenarios : StoreInit(s.items, s.lists, s.budget)
  BY DEF Init
<1>2. s.budget \in Budgets /\ s.items \in Seq(Items) /\ s.lists \in SUBSET Listed
  BY ListsAssumption
<1>3. items = << s.items >> /\ lists = << s.lists >> /\ calls = {} /\ budget = s.budget
  BY <1>1 DEF StoreInit
<1>4. items \in Seq(Seq(Items)) /\ Len(items) = 1 /\ items # << >>
  BY <1>2, <1>3
<1>5. lists \in Seq(SUBSET Listed) /\ Len(lists) = 1 /\ lists # << >>
  BY <1>2, <1>3
<1>6. StoreTyped
  BY <1>2, <1>3, <1>4, <1>5 DEF StoreTyped, CallsTyped
<1>7. list = ClosedList /\ emojis = "unloaded"
  BY DEF Init, ListInit
<1>8. ListTyped
  BY <1>4, <1>7, OpenedPage DEF ListTyped, EmojiStages, ClosedList, OpenedList
<1>9. OverviewTyped
  BY <1>5, ClosedOverviewTyped DEF Init, OverviewInit, ClosedOverview, OverviewTyped
<1>10. MenuTyped
  BY <1>5, ListsPageAssumption DEF Init, MenuInit, MenuTyped
<1>11. LookTyped
  BY DEF Init, AppStateInit, LookTyped, NewAppState, AppStates
<1> QED
  BY <1>6, <1>8, <1>9, <1>10, <1>11 DEF WellTyped

LEMMA TypedStep ==
    ASSUME WellTyped, [Next]_vars
    PROVE  WellTyped'
BY PageTypedStep, OverviewTypedStep, MenuTypedStep, LookStep DEF WellTyped

LEMMA TypedOK ==
    ASSUME WellTyped
    PROVE  TypeOK
<1>1. /\ items \in Seq(Seq(Items)) /\ lists \in Seq(SUBSET Listed) /\ budget \in Budgets
      /\ list \in ListPages /\ list.seen <= Len(items) /\ emojis \in EmojiStages
      /\ overview \in Overviews /\ overview.seen <= Len(lists)
      /\ menu \in [shown : SUBSET ListIds, seen : Nat] /\ menu.seen <= Len(lists)
      /\ appState \in [Tabs -> AppStates] /\ saved \in AppStates /\ calls \subseteq Calls
  BY DEF WellTyped, StoreTyped, ListTyped, OverviewTyped, MenuTyped, LookTyped, CallsTyped
<1>2. /\ list.all \in Seq(Rows) /\ list.shown \in Seq(Rows) /\ list.adding \in Seq(Rows)
      /\ list.filter \in Filters /\ list.seen \in Nat /\ list.detecting \in Seq(ItemIds)
      /\ list.swiping \subseteq Swipes /\ list.busy \cup list.stuck \subseteq ItemIds
  BY <1>1, PageFields
<1>3. list.detecting \in Seq(Nat)
  <2>1. \A k \in 1 .. Len(list.detecting) : list.detecting[k] \in Nat
    BY <1>2 DEF ItemIds
  <2>2. Len(list.detecting) \in Nat /\ list.detecting = [k \in 1 .. Len(list.detecting) |-> list.detecting[k]]
    BY <1>2
  <2> QED
    BY <2>1, <2>2
<1>4. overview.seen \in Nat /\ overview.shown \in CountsShown
  BY <1>1, OverviewFields
<1>5. DOMAIN overview.shown \subseteq ListIds
  BY <1>4 DEF CountsShown
<1> QED
  BY <1>1, <1>2, <1>3, <1>4, <1>5, ListsPageAssumption DEF TypeOK

\* What is stored, under way and shown is well formed in every state.
THEOREM TypeCorrect == Spec => []TypeOK
<1>1. Init => WellTyped
  BY InitTyped
<1>2. WellTyped /\ [Next]_vars => WellTyped'
  BY TypedStep
<1>3. WellTyped => TypeOK
  BY TypedOK
<1> QED
  BY <1>1, <1>2, <1>3, PTL DEF Spec

-----------------------------------------------------------------------------
(***************************************************************************)
(* What is being added is shown once.                                      *)
(***************************************************************************)

\* Calls that add or move items are some of those that there were.
CallsFrom(ds, cs) ==
    \A d \in ds : d.op \in {"create", "reorder"} => \E c \in cs : c.op = d.op /\ c.ids = d.ids

LEMMA FromSent ==
    ASSUME NEW ds, NEW cs, CallsFrom(ds, cs)
    PROVE  Sent(ds) \subseteq Sent(cs) /\ Dragged(ds) \subseteq Dragged(cs)
<1>1. ASSUME NEW id \in Sent(ds) PROVE id \in Sent(cs)
  <2>1. PICK d \in ds : d.op \in {"create", "reorder"} /\ id \in d.ids
    BY DEF Sent
  <2>2. PICK c \in cs : c.op = d.op /\ c.ids = d.ids
    BY <2>1 DEF CallsFrom
  <2> QED
    BY <2>1, <2>2 DEF Sent
<1>2. ASSUME NEW id \in Dragged(ds) PROVE id \in Dragged(cs)
  <2>1. PICK d \in ds : d.op = "reorder" /\ id \in d.ids
    BY DEF Dragged
  <2>2. PICK c \in cs : c.op = d.op /\ c.ids = d.ids
    BY <2>1 DEF CallsFrom
  <2> QED
    BY <2>1, <2>2 DEF Dragged
<1> QED
  BY <1>1, <1>2

LEMMA DraggedSent == ASSUME NEW cs PROVE Dragged(cs) \subseteq Sent(cs)
BY DEF Dragged, Sent

LEMMA FollowFrom ==
    ASSUME NEW ds, NEW cs, Follow(ds, cs)
    PROVE  CallsFrom(ds, cs)
BY DEF Follow, Same, CallsFrom

LEMMA QuietFrom ==
    ASSUME CallsQuiet
    PROVE  CallsFrom(calls', calls)
<1>1. ASSUME NEW d \in calls', d.op \in {"create", "reorder"} PROVE \E c \in calls : c.op = d.op /\ c.ids = d.ids
  <2>1. PICK c \in calls : Same(d, c)
    BY <1>1 DEF CallsQuiet
  <2> QED
    BY <2>1 DEF Same
<1> QED
  BY <1>1 DEF CallsFrom

LEMMA IdOf ==
    ASSUME NEW rows, NEW k \in DOMAIN rows
    PROVE  rows[k].id \in IdsOf(rows)
BY DEF IdsOf

LEMMA NoIds == IdsOf(<< >>) = {} /\ Range(<< >>) = {}
BY DEF IdsOf, Range

\* What is left of what is being added is as it was.
LEMMA StayApart ==
    ASSUME NEW rows \in Seq(Rows), NEW c, NEW left, StayAdding(left, rows, c),
           \A j, k \in DOMAIN rows : rows[j].id = rows[k].id => j = k
    PROVE  /\ \A k \in DOMAIN left : \E i \in DOMAIN rows : left[k] = rows[i] /\ rows[i].id \notin c.ids
           /\ \A j, k \in DOMAIN left : left[j].id = left[k].id => j = k
           /\ IdsOf(left) \subseteq IdsOf(rows)
<1>1. PICK places : left = RowsAt(rows, places) /\ \A k \in places : k \in DOMAIN rows /\ rows[k].id \notin c.ids
  BY DEF StayAdding
<1>2. rows \in Seq(Rows) /\ left = RowsAt(rows, places)
  BY <1>1
<1>3. \A k \in DOMAIN left : \E i \in DOMAIN rows : i \in places /\ left[k] = rows[i]
  BY <1>2, AddingLeft
<1>4. \A k, l \in DOMAIN left : k # l => \E i, j \in DOMAIN rows : i # j /\ left[k] = rows[i] /\ left[l] = rows[j]
  BY <1>2, AddingLeft
<1>5. \A k \in DOMAIN left : \E i \in DOMAIN rows : left[k] = rows[i] /\ rows[i].id \notin c.ids
  BY <1>1, <1>3
<1>6. ASSUME NEW j \in DOMAIN left, NEW k \in DOMAIN left, left[j].id = left[k].id, j # k PROVE FALSE
  <2>1. PICK a \in DOMAIN rows, b \in DOMAIN rows : a # b /\ left[j] = rows[a] /\ left[k] = rows[b]
    BY <1>4, <1>6
  <2> QED
    BY <1>6, <2>1
<1>7. IdsOf(left) \subseteq IdsOf(rows)
  BY <1>5 DEF IdsOf
<1> QED
  BY <1>5, <1>6, <1>7

\* Rows that are filtered anew, with distinct ones being added, show each of these once.
LEMMA FilteredOnce ==
    ASSUME NEW pg \in ListPages, NEW shown, shown = Filtered(pg), NEW a \in DOMAIN pg.adding,
           \A j, k \in DOMAIN pg.adding : pg.adding[j].id = pg.adding[k].id => j = k,
           IdsOf(pg.adding) \cap IdsOf(pg.all) = {}
    PROVE  Cardinality({k \in DOMAIN shown : shown[k].id = pg.adding[a].id}) = 1
<1>1. pg.all \in Seq(Rows) /\ pg.adding \in Seq(Rows)
  BY PageFields
<1>2. PICK passing : passing = Passing(pg.filter, pg.all)
  OBVIOUS
<1>3. passing \in Seq(Rows)
  BY <1>1, <1>2, PassingRows
<1>4. \A k \in DOMAIN passing : \E i \in DOMAIN pg.all : passing[k] = pg.all[i]
  BY <1>1, <1>2, PassingRows
<1>5. shown = passing \o pg.adding
  BY <1>2 DEF Filtered
<1>6. \A k \in DOMAIN passing : k \in DOMAIN shown /\ shown[k] = passing[k]
  BY <1>1, <1>3, <1>5, Joined
<1>7. \A k \in DOMAIN pg.adding : Len(passing) + k \in DOMAIN shown /\ shown[Len(passing) + k] = pg.adding[k]
  BY <1>1, <1>3, <1>5, Joined
<1>8. \A k \in DOMAIN shown : k \in DOMAIN passing
         \/ (k - Len(passing) \in DOMAIN pg.adding /\ shown[k] = pg.adding[k - Len(passing)])
  BY <1>1, <1>3, <1>5, Joined
<1>9. Len(passing) \in Nat /\ a \in Nat
  BY <1>1, <1>3
<1>10. ASSUME NEW k \in DOMAIN shown, shown[k].id = pg.adding[a].id PROVE k = Len(passing) + a
  <2>1. CASE k \in DOMAIN passing
    <3>1. PICK i \in DOMAIN pg.all : passing[k] = pg.all[i]
      BY <1>4, <2>1
    <3>2. pg.all[i].id = pg.adding[a].id
      BY <1>6, <1>10, <2>1, <3>1
    <3>3. pg.all[i].id \in IdsOf(pg.all) /\ pg.adding[a].id \in IdsOf(pg.adding)
      BY IdOf
    <3> QED
      BY <3>2, <3>3
  <2>2. CASE k - Len(passing) \in DOMAIN pg.adding /\ shown[k] = pg.adding[k - Len(passing)]
    <3>1. k - Len(passing) = a
      BY <1>10, <2>2
    <3>2. k \in Int
      <4>1. shown \in Seq(Rows)
        BY <1>1, <1>3, <1>5, Joined
      <4> QED
        BY <4>1
    <3> QED
      BY <1>9, <3>1, <3>2
  <2> QED
    BY <1>8, <2>1, <2>2
<1>11. {k \in DOMAIN shown : shown[k].id = pg.adding[a].id} = {Len(passing) + a}
  BY <1>7, <1>10
<1> QED
  BY <1>11, FS_Singleton

\* The page shows each item that is being added once.
OncePage(pg) ==
    \A a \in DOMAIN pg.adding : Cardinality({k \in DOMAIN pg.shown : pg.shown[k].id = pg.adding[a].id}) = 1

LEMMA OnceIs == AddingShown <=> OncePage(list)
BY DEF AddingShown, OncePage

LEMMA OnceNext == AddingShown' <=> OncePage(list')
BY DEF AddingShown, OncePage

\* A step that gives out no id keeps them apart.
LEMMA ApartStep ==
    ASSUME Apart, budget'.ids = budget.ids, IdsOf(list'.adding) \subseteq IdsOf(list.adding),
           \A j, k \in DOMAIN list'.adding : list'.adding[j].id = list'.adding[k].id => j = k,
           list'.detecting = list.detecting \/ list'.detecting = << >>,
           Had(items') \subseteq Known, IdsOf(list'.all) \subseteq Known, Sent(calls') \subseteq Known,
           IdsOf(list'.adding) \cap (IdsOf(list'.all) \cup Dragged(calls')) = {}
    PROVE  Apart'
<1>1. Known' \subseteq Known
  BY DEF Known
<1>2. Range(list'.detecting) \subseteq Range(list.detecting)
      /\ \A j, k \in DOMAIN list'.detecting : list'.detecting[j] = list'.detecting[k] => j = k
  <2>1. CASE list'.detecting = list.detecting
    BY <2>1 DEF Apart
  <2>2. CASE list'.detecting = << >>
    BY <2>2, NoIds
  <2> QED
    BY <2>1, <2>2
<1> QED
  BY <1>1, <1>2 DEF Apart

LEMMA KnownTyped ==
    ASSUME StoreTyped, ListTyped
    PROVE  Known \cup IdsOf(list.adding) \subseteq ItemIds
<1>1. /\ items \in Seq(Seq(Items)) /\ CallsTyped(calls) /\ list.all \in Seq(Rows) /\ list.adding \in Seq(Rows)
  BY PageFields DEF StoreTyped, ListTyped
<1>2. ASSUME NEW rows \in Seq(Rows) PROVE IdsOf(rows) \subseteq ItemIds
  <2>1. \A k \in DOMAIN rows : rows[k] \in Rows
    OBVIOUS
  <2> QED
    BY <2>1 DEF IdsOf, Rows, ItemIds
<1>3. ASSUME NEW v \in DOMAIN items PROVE IdsOf(items[v]) \subseteq ItemIds
  <2>1. items[v] \in Seq(Items)
    BY <1>1
  <2>2. \A k \in DOMAIN items[v] : items[v][k] \in Items
    BY <2>1
  <2> QED
    BY <2>2 DEF IdsOf, Items, ItemIds
<1>4. Had(items) \subseteq ItemIds
  BY <1>3 DEF Had
<1>5. Sent(calls) \subseteq ItemIds
  BY <1>1 DEF CallsTyped, Calls, Sent
<1> QED
  BY <1>1, <1>2, <1>4, <1>5 DEF Known

LEMMA KnownHas ==
    /\ Had(items) \subseteq Known /\ IdsOf(list.all) \subseteq Known /\ Sent(calls) \subseteq Known
    /\ Dragged(calls) \subseteq Known
BY DraggedSent DEF Known

\* A step that adds nothing to the page, and nothing is over that it adds.
LEMMA KeepsApart ==
    ASSUME Apart, budget'.ids = budget.ids, Keeps,
           Had(items') \subseteq Known, Sent(calls') \subseteq Known,
           IdsOf(list'.all) \subseteq IdsOf(list.all) \cup Dragged(calls),
           Dragged(calls') \subseteq IdsOf(list.all) \cup Dragged(calls)
    PROVE  Apart'
<1>1. IdsOf(list.adding) \cap (IdsOf(list.all) \cup Dragged(calls)) = {}
  BY DEF Apart
<1>2. IdsOf(list'.adding) \cap (IdsOf(list'.all) \cup Dragged(calls')) = {}
  BY <1>1 DEF Keeps
<1>3. \A j, k \in DOMAIN list'.adding : list'.adding[j].id = list'.adding[k].id => j = k
  BY DEF Apart, Keeps
<1>4. IdsOf(list'.all) \subseteq Known
  BY KnownHas
<1>5. IdsOf(list'.adding) \subseteq IdsOf(list.adding) /\ (list'.detecting = list.detecting \/ list'.detecting = << >>)
  BY DEF Keeps
<1> QED
  BY <1>2, <1>3, <1>4, <1>5, ApartStep

\* The rows that are added are shown still, or anew.
LEMMA ShownStill ==
    ASSUME AddingShown, list'.shown = list.shown,
           \A a \in DOMAIN list'.adding : \E b \in DOMAIN list.adding : list'.adding[a].id = list.adding[b].id
    PROVE  AddingShown'
<1>1. ASSUME NEW a \in DOMAIN list'.adding
      PROVE  Cardinality({k \in DOMAIN list'.shown : list'.shown[k].id = list'.adding[a].id}) = 1
  <2>1. PICK b \in DOMAIN list.adding : list'.adding[a].id = list.adding[b].id
    OBVIOUS
  <2>2. Cardinality({k \in DOMAIN list.shown : list.shown[k].id = list.adding[b].id}) = 1
    BY DEF AddingShown
  <2> QED
    BY <2>1, <2>2
<1> QED
  BY <1>1, OnceNext DEF OncePage

LEMMA ShownAnew ==
    ASSUME Apart', list' \in ListPages, list'.shown = Filtered(list')
    PROVE  AddingShown'
<1>1. /\ \A j, k \in DOMAIN list'.adding : list'.adding[j].id = list'.adding[k].id => j = k
      /\ IdsOf(list'.adding) \cap IdsOf(list'.all) = {}
  BY DEF Apart
<1>2. \A a \in DOMAIN list'.adding :
         Cardinality({k \in DOMAIN list'.shown : list'.shown[k].id = list'.adding[a].id}) = 1
  BY <1>1, FilteredOnce
<1> QED
  BY <1>2, OnceNext DEF OncePage

LEMMA KeepsOnce ==
    ASSUME AddingShown, Apart', Keeps, list' \in ListPages,
           list'.shown = list.shown \/ list'.shown = Filtered(list')
    PROVE  AddingShown'
<1>1. CASE list'.shown = list.shown
  <2>1. \A a \in DOMAIN list'.adding : \E b \in DOMAIN list.adding : list'.adding[a].id = list.adding[b].id
    BY DEF Keeps
  <2> QED
    BY <1>1, <2>1, ShownStill
<1> QED
  BY <1>1, ShownAnew

LEMMA HadMore ==
    ASSUME StoreTyped, NEW rows \in Seq(Items), items' = Append(items, rows), NEW ids, RowsOf(rows, ids)
    PROVE  Had(items') \subseteq Had(items) \cup ids
<1>1. items \in Seq(Seq(Items)) /\ Current = items[Len(items)] /\ Len(items) \in DOMAIN items
  BY CurrentTyped DEF StoreTyped
<1>2. /\ DOMAIN items' = DOMAIN items \cup {Len(items) + 1}
      /\ \A v \in DOMAIN items : items'[v] = items[v]
      /\ items'[Len(items) + 1] = rows
  BY <1>1, Appended
<1>3. IdsOf(Current) \subseteq Had(items)
  BY <1>1 DEF Had
<1>4. IdsOf(rows) \subseteq IdsOf(Current) \cup ids
  BY DEF RowsOf, IdsOf
<1>5. ASSUME NEW v \in DOMAIN items' PROVE IdsOf(items'[v]) \subseteq Had(items) \cup ids
  <2>1. CASE v \in DOMAIN items
    BY <1>2, <2>1 DEF Had
  <2>2. CASE v = Len(items) + 1
    BY <1>2, <1>3, <1>4, <2>2
  <2> QED
    BY <1>2, <2>1, <2>2
<1> QED
  BY <1>5 DEF Had

\* The items that a page begins to add are new to it and to the list.
LEMMA AddsApart ==
    ASSUME StoreTyped, ListTyped, Apart, NEW ids \in Seq(ItemIds), CreateListItems(ids), items' = items,
           budget'.ids <= budget.ids, budget.ids \in Nat, budget'.ids \in Nat,
           \A id \in Range(ids) : id > budget'.ids,
           Range(ids) \cap (Known \cup IdsOf(list.adding)) = {},
           \A j, k \in DOMAIN ids : ids[j] = ids[k] => j = k
    PROVE  AddingInv'
<1>1. PICK pg \in ListPages, cs \in SUBSET Calls, rows \in Seq(Rows) :
         /\ Anew(pg, cs) /\ AddingRows(rows, ids) /\ AddingCalls(cs, ids)
         /\ pg.alive = list.alive /\ pg.filter = list.filter /\ pg.all = list.all
         /\ pg.adding = list.adding \o rows /\ pg.detecting = << >> /\ pg.seen = list.seen
            /\ pg.swiping \subseteq list.swiping
  BY CreateListItemsDoes
<1>2. /\ list' \in ListPages /\ list'.shown = Filtered(list') /\ Follow(calls', cs)
      /\ list'.all = list.all /\ list'.adding = list.adding \o rows /\ list'.detecting = << >>
  BY <1>1 DEF Anew, AsPage
<1>3. list.adding \in Seq(Rows) /\ DOMAIN ids = 1 .. Len(ids) /\ Len(ids) \in Nat
  BY PageFields DEF ListTyped
<1>4. DOMAIN rows = DOMAIN ids /\ \A k \in DOMAIN rows : rows[k].id = ids[k]
  BY <1>1, <1>3 DEF AddingRows, AddingRow
<1>5. PICK adding : adding = list.adding \o rows
  OBVIOUS
<1>6. \A k \in DOMAIN list.adding : k \in DOMAIN adding /\ adding[k] = list.adding[k]
  BY <1>1, <1>3, <1>5, Joined
<1>7. \A k \in DOMAIN adding : k \in DOMAIN list.adding
         \/ (k - Len(list.adding) \in DOMAIN rows /\ adding[k] = rows[k - Len(list.adding)])
  BY <1>1, <1>3, <1>5, Joined
<1>8. adding \in Seq(Rows)
  BY <1>1, <1>3, <1>5, Joined
<1>9. ASSUME NEW k \in DOMAIN adding
      PROVE  \/ k \in DOMAIN list.adding /\ adding[k].id = list.adding[k].id /\ adding[k].id \in IdsOf(list.adding)
             \/ /\ k - Len(list.adding) \in DOMAIN ids /\ adding[k].id = ids[k - Len(list.adding)]
                /\ adding[k].id \in Range(ids)
  <2>1. CASE k \in DOMAIN list.adding
    BY <1>6, <2>1 DEF IdsOf
  <2>2. CASE k - Len(list.adding) \in DOMAIN rows /\ adding[k] = rows[k - Len(list.adding)]
    BY <1>4, <2>2 DEF Range
  <2> QED
    BY <1>7, <2>1, <2>2
<1>10. IdsOf(adding) \subseteq IdsOf(list.adding) \cup Range(ids)
  BY <1>9 DEF IdsOf
<1>11. ASSUME NEW j \in DOMAIN adding, NEW k \in DOMAIN adding, adding[j].id = adding[k].id PROVE j = k
  <2>1. Len(list.adding) \in Int /\ j \in Int /\ k \in Int
    BY <1>3, <1>8
  <2>2. CASE j \in DOMAIN list.adding /\ k \in DOMAIN list.adding
    BY <1>6, <1>11, <2>2 DEF Apart
  <2>3. CASE /\ j - Len(list.adding) \in DOMAIN ids /\ adding[j].id = ids[j - Len(list.adding)]
             /\ k - Len(list.adding) \in DOMAIN ids /\ adding[k].id = ids[k - Len(list.adding)]
    <3>1. j - Len(list.adding) = k - Len(list.adding)
      BY <1>11, <2>3
    <3> QED
      BY <2>1, <3>1
  <2> QED
    BY <1>9, <1>11, <2>2, <2>3
<1>12. Sent(calls') \subseteq Sent(calls) \cup Range(ids) /\ Dragged(calls') \subseteq Dragged(calls)
  <2>1. CallsFrom(calls', cs)
    BY <1>2, FollowFrom
  <2>2. Sent(calls') \subseteq Sent(cs) /\ Dragged(calls') \subseteq Dragged(cs)
    BY <2>1, FromSent
  <2>3. Sent(cs) \subseteq Sent(calls) \cup Range(ids)
    BY <1>1 DEF AddingCalls, NewlyAdded, Sent, Range
  <2>4. Dragged(cs) \subseteq Dragged(calls)
    BY <1>1 DEF AddingCalls, NewlyAdded, Dragged
  <2> QED
    BY <2>2, <2>3, <2>4
<1>13. Known' \subseteq Known \cup Range(ids)
  BY <1>2, <1>12, KnownHas DEF Known
<1>14. Range(list'.detecting) = {} /\ DOMAIN list'.detecting = {}
  BY <1>2, NoIds
<1>15. ASSUME NEW id \in Known' \cup IdsOf(list'.adding) \cup Range(list'.detecting) PROVE id > budget'.ids
  <2>1. id \in Range(ids) \/ id \in Known \cup IdsOf(list.adding)
    BY <1>2, <1>5, <1>10, <1>13, <1>14
  <2>2. CASE id \in Known \cup IdsOf(list.adding)
    <3>1. id > budget.ids
      BY <2>2 DEF Apart
    <3>2. id \in Int
      <4>1. Known \cup IdsOf(list.adding) \subseteq ItemIds
        BY KnownTyped
      <4> QED
        BY <2>2, <4>1 DEF ItemIds
    <3> QED
      BY <3>1, <3>2
  <2> QED
    BY <2>1, <2>2
<1>16. IdsOf(list'.adding) \cap (IdsOf(list'.all) \cup Dragged(calls')) = {}
  <2>1. IdsOf(list.adding) \cap (IdsOf(list.all) \cup Dragged(calls)) = {}
    BY DEF Apart
  <2> QED
    BY <1>2, <1>5, <1>10, <1>12, <2>1, KnownHas
<1>17. Apart'
  BY <1>2, <1>5, <1>11, <1>14, <1>15, <1>16 DEF Apart
<1> QED
  BY <1>2, <1>17, ShownAnew DEF AddingInv

LEMMA ItemChangedIds ==
    ASSUME NEW rows \in Seq(Rows), NEW old \in Rows, NEW new \in Rows, old.id = new.id
    PROVE  IdsOf(ItemChanged(rows, old, new)) \subseteq IdsOf(rows)
<1>1. PICK changed : changed = ItemChanged(rows, old, new)
  OBVIOUS
<1>2. DOMAIN changed = DOMAIN rows /\ \A k \in DOMAIN rows : changed[k] = IF rows[k] = old THEN new ELSE rows[k]
  BY <1>1, ItemChangedRows
<1>3. \A k \in DOMAIN rows : changed[k].id = rows[k].id
  BY <1>2
<1> QED
  BY <1>1, <1>2, <1>3 DEF IdsOf

LEMMA QuietAdding ==
    ASSUME StoreTyped, ListTyped, AddingInv, Quietly
    PROVE  AddingInv'
<1>1. /\ items' = items /\ budget'.ids = budget.ids /\ list' \in ListPages /\ Keeps
      /\ list'.all = list.all /\ list'.shown = list.shown /\ CallsQuiet
  BY DEF Quietly
<1>2. Sent(calls') \subseteq Sent(calls) /\ Dragged(calls') \subseteq Dragged(calls)
  BY <1>1, QuietFrom, FromSent
<1>3. Had(items') \subseteq Known /\ Sent(calls') \subseteq Known
  BY <1>1, <1>2, KnownHas
<1>4. Apart'
  BY <1>1, <1>2, <1>3, KeepsApart DEF AddingInv
<1> QED
  BY <1>1, <1>4, KeepsOnce DEF AddingInv

\* New versions of the list.
LEMMA ItemsAdding ==
    ASSUME StoreTyped, ListTyped, AddingInv, UNCHANGED list, budget'.ids = budget.ids,
           NEW rows \in Seq(Items), items' = Append(items, rows), NEW ids, RowsOf(rows, ids),
           ids \subseteq Known, CallsFrom(calls', calls)
    PROVE  AddingInv'
<1>1. Had(items') \subseteq Had(items) \cup ids
  BY HadMore
<1>2. Sent(calls') \subseteq Sent(calls) /\ Dragged(calls') \subseteq Dragged(calls)
  BY FromSent
<1>3. Had(items') \subseteq Known /\ Sent(calls') \subseteq Known
  BY <1>1, <1>2, KnownHas
<1>4. Keeps /\ list'.all = list.all /\ list' \in ListPages /\ list'.shown = list.shown
  BY DEF Keeps, ListTyped
<1>5. Apart'
  BY <1>2, <1>3, <1>4, KeepsApart DEF AddingInv
<1> QED
  BY <1>4, <1>5, KeepsOnce DEF AddingInv

LEMMA EmptyAdding ==
    ASSUME AddingInv, budget'.ids = budget.ids, items' = items, CallsFrom(calls', calls),
           list'.adding = << >>, list'.detecting = << >>, list'.all = << >>
    PROVE  AddingInv'
<1>1. Sent(calls') \subseteq Sent(calls)
  BY FromSent
<1>2. Had(items') \subseteq Known /\ Sent(calls') \subseteq Known
  BY <1>1, KnownHas
<1>3. IdsOf(list'.adding) = {} /\ IdsOf(list'.all) = {} /\ DOMAIN list'.adding = {}
  BY NoIds
<1>4. Apart'
  BY <1>2, <1>3, ApartStep DEF AddingInv
<1> QED
  BY <1>3, <1>4, OnceNext DEF AddingInv, OncePage

\* A version of the list takes the place of what is being added, all of which is shown.
LEMMA SetListAdding ==
    ASSUME StoreTyped, ListTyped, AddingInv, NEW v, SetList(v)
    PROVE  /\ AddingInv'
           /\ \E pg \in ListPages : /\ Anew(pg, calls) /\ list.alive /\ v \in 1 .. Len(items) /\ pg.seen = v
                                    /\ pg.alive /\ pg.adding = << >> /\ pg.all = Stored(items[v])
                                    /\ pg.swiping = list.swiping
<1>1. PICK pg \in ListPages :
         /\ Anew(pg, calls) /\ list.alive /\ v \in 1 .. Len(items) /\ pg.seen = v
         /\ pg.alive /\ pg.filter = list.filter /\ pg.detecting = list.detecting
         /\ pg.swiping = list.swiping
         /\ pg.adding = AddingBeyond(list, items[v]) /\ pg.all = Stored(items[v]) \o pg.adding
  BY SetListDoes
<1>2. list.adding \in Seq(Rows) /\ items \in Seq(Seq(Items)) /\ items' = items /\ budget' = budget
  BY PageFields DEF ListTyped, StoreTyped, SetList
<1>3. PICK places : places = {k \in DOMAIN list.adding : ~Has(list.shown, list.adding[k].id)}
  OBVIOUS
<1>4. ASSUME NEW k \in places PROVE FALSE
  <2>1. k \in DOMAIN list.adding /\ ~Has(list.shown, list.adding[k].id)
    BY <1>3
  <2>4. PICK once : once = {j \in DOMAIN list.shown : list.shown[j].id = list.adding[k].id}
    OBVIOUS
  <2>2. Cardinality(once) = 1
    BY <2>1, <2>4 DEF AddingInv, AddingShown
  <2>3. once = {}
    BY <2>1, <2>4 DEF Has
  <2>5. Cardinality({}) = 0
    BY FS_EmptySet
  <2> QED
    BY <2>2, <2>3, <2>5
<1>5. PICK adding : adding = RowsAt(list.adding, places)
  OBVIOUS
<1>6. /\ adding \in Seq(Rows)
      /\ \A k \in DOMAIN adding : \E i \in DOMAIN list.adding : i \in places /\ adding[k] = list.adding[i]
  BY <1>2, <1>5, AddingLeft
<1>7. adding = << >>
  <2>1. DOMAIN adding = {}
    BY <1>4, <1>6
  <2> QED
    BY <1>6, <2>1
<1>8. pg.adding = << >>
  BY <1>1, <1>3, <1>5, <1>7 DEF AddingBeyond
<1>9. items[v] \in Seq(Items)
  BY <1>1, <1>2
<1>10. Stored(items[v]) \in Seq(Rows) /\ DOMAIN Stored(items[v]) = DOMAIN items[v]
       /\ \A k \in DOMAIN items[v] : Stored(items[v])[k].id = items[v][k].id
  BY <1>9, StoredRows
<1>11. pg.all = Stored(items[v])
  BY <1>1, <1>8, <1>10
<1>12. /\ list' \in ListPages /\ list'.shown = Filtered(list') /\ Follow(calls', calls)
       /\ list'.adding = << >> /\ list'.detecting = list.detecting /\ list'.all = Stored(items[v])
  BY <1>1, <1>8, <1>11 DEF Anew, AsPage
<1>13. IdsOf(list'.all) \subseteq Had(items)
  <2>1. IdsOf(Stored(items[v])) \subseteq IdsOf(items[v])
    BY <1>10 DEF IdsOf
  <2>2. v \in DOMAIN items
    BY <1>1, <1>2
  <2> QED
    BY <1>12, <2>1, <2>2 DEF Had
<1>14. Sent(calls') \subseteq Sent(calls)
  BY <1>12, FollowFrom, FromSent
<1>15. Apart'
  <2>1. IdsOf(list'.adding) = {} /\ DOMAIN list'.adding = {}
    BY <1>12, NoIds
  <2>2. Had(items') \subseteq Known /\ IdsOf(list'.all) \subseteq Known /\ Sent(calls') \subseteq Known
    BY <1>2, <1>13, <1>14, KnownHas
  <2> QED
    BY <1>2, <1>12, <2>1, <2>2, ApartStep DEF AddingInv
<1>16. AddingInv'
  BY <1>12, <1>15, ShownAnew DEF AddingInv
<1> QED
  BY <1>1, <1>8, <1>11, <1>16

\* Some of the items are not being added any more.
LEMMA StayAddingInv ==
    ASSUME ListTyped, AddingInv, NEW c, StayAdding(list'.adding, list.adding, c), list' \in ListPages,
           items' = items, budget'.ids = budget.ids, CallsFrom(calls', calls),
           list'.all = list.all, list'.detecting = list.detecting,
           list'.shown = list.shown \/ list'.shown = Filtered(list')
    PROVE  AddingInv'
<1>1. list.adding \in Seq(Rows)
  BY PageFields DEF ListTyped
<1>2. \A j, k \in DOMAIN list.adding : list.adding[j].id = list.adding[k].id => j = k
  BY DEF AddingInv, Apart
<1>3. \A k \in DOMAIN list'.adding : \E i \in DOMAIN list.adding : list'.adding[k] = list.adding[i] /\ list.adding[i].id \notin c.ids
  BY <1>1, <1>2, StayApart
<1>4. \A j, k \in DOMAIN list'.adding : list'.adding[j].id = list'.adding[k].id => j = k
  BY <1>1, <1>2, StayApart
<1>5. IdsOf(list'.adding) \subseteq IdsOf(list.adding)
  BY <1>1, <1>2, StayApart
<1>6. Sent(calls') \subseteq Sent(calls) /\ Dragged(calls') \subseteq Dragged(calls)
  BY FromSent
<1>7. IdsOf(list'.adding) \cap (IdsOf(list'.all) \cup Dragged(calls')) = {}
  BY <1>5, <1>6 DEF AddingInv, Apart
<1>8. Had(items') \subseteq Known /\ IdsOf(list'.all) \subseteq Known /\ Sent(calls') \subseteq Known
  BY <1>6, KnownHas
<1>9. Apart'
  BY <1>4, <1>5, <1>7, <1>8, ApartStep DEF AddingInv
<1>10. CASE list'.shown = list.shown
  <2>1. \A a \in DOMAIN list'.adding : \E b \in DOMAIN list.adding : list'.adding[a].id = list.adding[b].id
    BY <1>3
  <2> QED
    BY <1>9, <1>10, <2>1, ShownStill DEF AddingInv
<1>11. CASE list'.shown = Filtered(list')
  BY <1>9, <1>11, ShownAnew DEF AddingInv
<1> QED
  BY <1>10, <1>11

LEMMA AddingStep ==
    ASSUME StoreTyped, ListTyped, OverviewTyped, AddingInv, [Next]_vars
    PROVE  AddingInv'
<1>1. /\ CallsTyped(calls) /\ list \in ListPages /\ list.all \in Seq(Rows) /\ list.detecting \in Seq(ItemIds)
      /\ Apart
  BY PageFields DEF StoreTyped, ListTyped, AddingInv
<1>2. ASSUME NEW c \in calls, ServeItems(c), UNCHANGED <<list, emojis>> PROVE AddingInv'
  <2>1. PICK rows \in Seq(Items) : items' = Append(items, rows) /\ RowsOf(rows, IF c.op = "create" THEN c.ids ELSE {})
    BY <1>2, ServeItemsDoes
  <2>2. Staged(c, "done", calls') /\ budget' = budget
    BY <1>2, ServeItemsDoes
  <2>3. CallsFrom(calls', calls)
    BY <2>2 DEF Staged, Same, CallsFrom
  <2>4. PICK ids : ids = IF c.op = "create" THEN c.ids ELSE {}
    OBVIOUS
  <2>5. ids \subseteq Known
    BY <2>4 DEF Known, Sent
  <2>6. UNCHANGED list /\ budget'.ids = budget.ids /\ RowsOf(rows, ids)
    BY <1>2, <2>1, <2>2, <2>4
  <2> QED
    BY <2>1, <2>3, <2>5, <2>6, ItemsAdding
<1>3. CASE ElsewhereItems /\ UNCHANGED <<list, emojis>>
  <2>1. PICK rows \in Seq(Items) : items' = Append(items, rows) /\ RowsOf(rows, {})
    BY <1>3, ElsewhereItemsDoes
  <2>2. calls' = calls /\ budget'.ids = budget.ids
    BY <1>3, ElsewhereItemsDoes
  <2>3. CallsFrom(calls', calls)
    BY <2>2 DEF CallsFrom
  <2>4. PICK ids : ids = {}
    OBVIOUS
  <2>5. UNCHANGED list /\ RowsOf(rows, ids) /\ ids \subseteq Known
    BY <1>3, <2>1, <2>4
  <2> QED
    BY <2>1, <2>2, <2>3, <2>5, ItemsAdding
<1>4. CASE OpenList
  <2>1. list' = OpenedList /\ items' = items /\ calls' = calls /\ budget'.ids = budget.ids
    BY <1>4, OpenListDoes
  <2>2. CallsFrom(calls', calls)
    BY <2>1 DEF CallsFrom
  <2>3. list'.adding = << >> /\ list'.detecting = << >> /\ list'.all = << >>
    BY <2>1 DEF OpenedList
  <2> QED
    BY <2>1, <2>2, <2>3, EmptyAdding
<1>5. CASE CloseList
  <2>1. list' = ClosedList /\ items' = items /\ budget' = budget
    BY <1>5, CloseListDoes
  <2>2. CallsFrom(calls', calls)
    <3>1. PICK deaf : Deafened(deaf, calls')
      BY <1>5, CloseListDoes
    <3> QED
      BY <3>1 DEF Deafened, Same, CallsFrom
  <2>3. list'.adding = << >> /\ list'.detecting = << >> /\ list'.all = << >>
    BY <2>1 DEF OpenedList, ClosedList
  <2> QED
    BY <2>1, <2>2, <2>3, EmptyAdding
<1>6. ASSUME NEW f \in Filters, Filter(f) PROVE AddingInv'
  <2>1. PICK pg \in ListPages :
          /\ Anew(pg, calls) /\ list.alive /\ pg.alive /\ pg.filter = f
          /\ pg.all = list.all /\ pg.adding = list.adding /\ pg.detecting = list.detecting /\ pg.seen = list.seen
             /\ pg.swiping \subseteq list.swiping
    BY <1>6, FilterDoes
  <2>2. /\ list' \in ListPages /\ list'.shown = Filtered(list') /\ Follow(calls', calls)
        /\ list'.all = list.all /\ list'.adding = list.adding /\ list'.detecting = list.detecting
    BY <2>1 DEF Anew, AsPage
  <2>3. Sent(calls') \subseteq Sent(calls) /\ Dragged(calls') \subseteq Dragged(calls)
    BY <2>2, FollowFrom, FromSent
  <2>4. items' = items /\ budget' = budget
    BY <1>6 DEF Filter
  <2>5. Had(items') \subseteq Known /\ IdsOf(list'.all) \subseteq Known /\ Sent(calls') \subseteq Known
    BY <2>2, <2>3, <2>4, KnownHas
  <2>6. IdsOf(list'.adding) \cap (IdsOf(list'.all) \cup Dragged(calls')) = {}
    BY <1>1, <2>2, <2>3 DEF Apart
  <2>7. \A j, k \in DOMAIN list'.adding : list'.adding[j].id = list'.adding[k].id => j = k
    BY <1>1, <2>2 DEF Apart
  <2>8. Apart'
    BY <1>1, <2>2, <2>4, <2>5, <2>6, <2>7, ApartStep
  <2> QED
    BY <2>2, <2>8, ShownAnew DEF AddingInv
<1>7. CASE Add
  <2>1. /\ items' = items /\ budget.ids \in Nat \ {0} /\ budget'.ids = budget.ids - 1
        /\ emojis = "loaded" => CreateListItems(<<budget.ids>>)
    BY <1>7, AddDoes
  <2>2. budget.ids \in Nat /\ budget'.ids \in Nat /\ budget'.ids <= budget.ids /\ budget.ids > budget'.ids
    BY <2>1
  <2>3. \A id \in Known \cup IdsOf(list.adding) \cup Range(list.detecting) : id # budget.ids /\ id > budget'.ids
    <3>1. Range(list.detecting) \subseteq ItemIds
      BY <1>1 DEF Range
    <3>2. Known \cup IdsOf(list.adding) \subseteq ItemIds
      BY KnownTyped
    <3>3. ASSUME NEW id \in Known \cup IdsOf(list.adding) \cup Range(list.detecting)
          PROVE  id # budget.ids /\ id > budget'.ids
      <4>1. id > budget.ids
        BY <1>1 DEF Apart
      <4>2. id \in Nat
        BY <3>1, <3>2 DEF ItemIds
      <4> QED
        BY <2>2, <4>1, <4>2
    <3> QED
      BY <3>3
  <2>4. CASE emojis = "loaded"
    <3>1. PICK ids : ids = <<budget.ids>>
      OBVIOUS
    <3>2. ids \in Seq(ItemIds) /\ DOMAIN ids = {1} /\ ids[1] = budget.ids
      BY <2>1, <3>1 DEF ItemIds
    <3>3. Range(ids) = {budget.ids}
      BY <3>2 DEF Range
    <3>4. CreateListItems(ids)
      BY <2>1, <2>4, <3>1
    <3>5. \A id \in Range(ids) : id > budget'.ids
      BY <2>2, <3>3
    <3>6. Range(ids) \cap (Known \cup IdsOf(list.adding)) = {}
      BY <2>3, <3>3
    <3>7. \A j, k \in DOMAIN ids : ids[j] = ids[k] => j = k
      BY <3>2
    <3> QED
      BY <1>1, <2>1, <2>2, <3>2, <3>4, <3>5, <3>6, <3>7, AddsApart
  <2>5. CASE emojis # "loaded"
    <3>1. /\ calls' = calls /\ list'.adding = list.adding /\ list'.all = list.all /\ list'.shown = list.shown
          /\ list'.detecting = Append(list.detecting, budget.ids)
      BY <1>7, <2>5, AddWaitsDoes
    <3>2. budget.ids \in ItemIds
      BY <2>1 DEF ItemIds
    <3>3. /\ DOMAIN list'.detecting = DOMAIN list.detecting \cup {Len(list.detecting) + 1}
          /\ \A k \in DOMAIN list.detecting : list'.detecting[k] = list.detecting[k]
          /\ list'.detecting[Len(list.detecting) + 1] = budget.ids
      BY <1>1, <3>1, <3>2, Appended
    <3>4. Range(list'.detecting) = Range(list.detecting) \cup {budget.ids}
      BY <3>3 DEF Range
    <3>5. Known' = Known
      BY <2>1, <3>1 DEF Known
    <3>6. \A id \in Known' \cup IdsOf(list'.adding) \cup Range(list'.detecting) : id > budget'.ids
      BY <2>2, <2>3, <3>1, <3>4, <3>5
    <3>7. Known' \cap Range(list'.detecting) = {} /\ IdsOf(list'.adding) \cap Range(list'.detecting) = {}
      BY <1>1, <2>3, <3>1, <3>4, <3>5 DEF Apart
    <3>8. ASSUME NEW j \in DOMAIN list'.detecting, NEW k \in DOMAIN list'.detecting,
                 list'.detecting[j] = list'.detecting[k]
          PROVE  j = k
      <4>1. \A i \in DOMAIN list.detecting : list.detecting[i] # budget.ids
        BY <2>3 DEF Range
      <4>2. CASE j \in DOMAIN list.detecting /\ k \in DOMAIN list.detecting
        BY <1>1, <3>3, <3>8, <4>2 DEF Apart
      <4>3. CASE j = Len(list.detecting) + 1 /\ k \in DOMAIN list.detecting
        BY <3>3, <3>8, <4>1, <4>3
      <4>4. CASE k = Len(list.detecting) + 1 /\ j \in DOMAIN list.detecting
        BY <3>3, <3>8, <4>1, <4>4
      <4> QED
        BY <3>3, <4>2, <4>3, <4>4
    <3>9. /\ IdsOf(list'.adding) \cap (IdsOf(list'.all) \cup Dragged(calls')) = {}
          /\ \A j, k \in DOMAIN list'.adding : list'.adding[j].id = list'.adding[k].id => j = k
      BY <1>1, <3>1 DEF Apart
    <3>10. Apart'
      BY <3>6, <3>7, <3>8, <3>9 DEF Apart
    <3>11. \A a \in DOMAIN list'.adding : \E b \in DOMAIN list.adding : list'.adding[a].id = list.adding[b].id
      BY <3>1
    <3> QED
      BY <3>1, <3>10, <3>11, ShownStill DEF AddingInv
  <2> QED
    BY <2>4, <2>5
<1>8. CASE EmojisLoaded
  <2>1. /\ items' = items /\ budget' = budget
        /\ (UNCHANGED <<list, calls>> \/ CreateListItems(list.detecting))
    BY <1>8, EmojisLoadedDoes
  <2>2. CASE UNCHANGED <<list, calls>>
    <3>1. UNCHANGED <<items, list, calls, budget>>
      BY <2>1, <2>2
    <3> QED
      BY <3>1 DEF AddingInv, Apart, Known, AddingShown
  <2>3. CASE CreateListItems(list.detecting)
    <3>1. budget.ids \in Nat /\ budget'.ids \in Nat /\ budget'.ids <= budget.ids
      BY <2>1 DEF StoreTyped, Budgets
    <3>2. \A id \in Range(list.detecting) : id > budget'.ids
      BY <1>1, <2>1 DEF Apart
    <3>3. Range(list.detecting) \cap (Known \cup IdsOf(list.adding)) = {}
      BY <1>1 DEF Apart
    <3>4. \A j, k \in DOMAIN list.detecting : list.detecting[j] = list.detecting[k] => j = k
      BY <1>1 DEF Apart
    <3> QED
      BY <1>1, <2>1, <2>3, <3>1, <3>2, <3>3, <3>4, AddsApart
  <2> QED
    BY <2>1, <2>2, <2>3
<1>9. CASE Marking
  <2>1. PICK no \in Nat, row \in Rows, new \in Rows, c \in Calls : MarksRow(row, new, c, no)
    BY <1>9, MarkingDoes
  <2>2. /\ list' \in ListPages /\ Follow(calls', calls \cup {c}) /\ Keeps /\ c.op = "setIsDone" /\ new.id = row.id
        /\ list'.all = list.all \/ list'.all = ItemChanged(list.all, row, new)
        /\ list'.shown = list.shown \/ list'.shown = Filtered(list')
    BY <2>1 DEF MarksRow
  <2>3. IdsOf(list'.all) \subseteq IdsOf(list.all)
    BY <1>1, <2>2, ItemChangedIds
  <2>4. Sent(calls') \subseteq Sent(calls \cup {c}) /\ Dragged(calls') \subseteq Dragged(calls \cup {c})
    BY <2>2, FollowFrom, FromSent
  <2>5. Sent(calls') \subseteq Sent(calls) /\ Dragged(calls') \subseteq Dragged(calls)
    BY <2>2, <2>4 DEF Sent, Dragged
  <2>6. items' = items /\ budget'.ids = budget.ids
    BY <1>9, MarkingDoes
  <2>7. Apart'
    BY <1>1, <2>2, <2>3, <2>5, <2>6, KnownHas, KeepsApart
  <2> QED
    BY <2>2, <2>7, KeepsOnce DEF AddingInv
<1>16. ASSUME NEW k \in DOMAIN list.shown, NEW done \in BOOLEAN, Swipe(k, done) PROVE AddingInv'
  <2>1. list' \in ListPages /\ calls' = calls /\ Keeps /\ list'.all = list.all /\ list'.shown = list.shown
    BY <1>16, SwipeDoes
  <2>2. items' = items /\ budget'.ids = budget.ids
    BY <1>16, SpentTyped DEF Swipe
  <2>3. Apart'
    BY <1>1, <2>1, <2>2, KnownHas, KeepsApart
  <2> QED
    BY <2>1, <2>3, KeepsOnce DEF AddingInv
<1>10. ASSUME NEW from \in DOMAIN list.shown, NEW to \in DOMAIN list.shown, Reorder(from, to) PROVE AddingInv'
  <2>1. from \in DOMAIN list.all /\ \E c \in Calls : MovesRow(from, c)
    BY <1>10, ReorderDoes
  <2>2. PICK c \in Calls : MovesRow(from, c)
    BY <2>1
  <2>3. /\ list' \in ListPages /\ Follow(calls', calls \cup {c}) /\ Keeps /\ list'.shown = Filtered(list')
        /\ c.ids = {list.all[from].id}
        /\ \A k \in DOMAIN list'.all : \E i \in DOMAIN list.all : list'.all[k].id = list.all[i].id
    BY <2>2 DEF MovesRow
  <2>4. IdsOf(list'.all) \subseteq IdsOf(list.all)
    BY <2>3 DEF IdsOf
  <2>5. c.ids \subseteq IdsOf(list.all)
    BY <2>1, <2>3 DEF IdsOf
  <2>6. Sent(calls') \subseteq Sent(calls \cup {c}) /\ Dragged(calls') \subseteq Dragged(calls \cup {c})
    BY <2>3, FollowFrom, FromSent
  <2>7. Sent(calls') \subseteq Sent(calls) \cup IdsOf(list.all) /\ Dragged(calls') \subseteq Dragged(calls) \cup IdsOf(list.all)
    BY <2>5, <2>6 DEF Sent, Dragged
  <2>8. items' = items /\ budget'.ids = budget.ids
    BY <1>10, SpentTyped DEF Reorder
  <2>9. Apart'
    BY <1>1, <2>3, <2>4, <2>7, <2>8, KnownHas, KeepsApart
  <2> QED
    BY <2>3, <2>9, KeepsOnce DEF AddingInv
<1>11. ASSUME NEW c \in calls, Added(c) PROVE AddingInv'
  <2>1. PICK pg \in ListPages :
          /\ Anew(pg, calls \ {c}) /\ pg.all = list.all /\ pg.detecting = list.detecting
          /\ StayAdding(pg.adding, list.adding, c)
    BY <1>11, AddedDoes
  <2>2. /\ list' \in ListPages /\ list'.shown = Filtered(list') /\ Follow(calls', calls \ {c})
        /\ list'.all = list.all /\ list'.detecting = list.detecting /\ StayAdding(list'.adding, list.adding, c)
    BY <2>1 DEF Anew, AsPage
  <2>3. CallsFrom(calls', calls)
    BY <2>2, FollowFrom DEF CallsFrom
  <2>4. items' = items /\ budget'.ids = budget.ids
    BY <1>11 DEF Added
  <2> QED
    BY <2>2, <2>3, <2>4, StayAddingInv
<1>12. ASSUME NEW c \in calls, FailedToAdd(c) PROVE AddingInv'
  <2>1. /\ list' \in ListPages /\ list'.shown = list.shown /\ calls' = calls \ {c}
        /\ list'.all = list.all /\ list'.detecting = list.detecting /\ StayAdding(list'.adding, list.adding, c)
    BY <1>12, FailedToAddDoes
  <2>2. CallsFrom(calls', calls)
    BY <2>1 DEF CallsFrom
  <2>3. items' = items /\ budget'.ids = budget.ids
    BY <1>12 DEF FailedToAdd
  <2> QED
    BY <2>1, <2>2, <2>3, StayAddingInv
<1>13. ASSUME NEW c \in calls, IsDoneSet(c) PROVE AddingInv'
  <2>1. list' \in ListPages /\ Follow(calls', calls \ {c}) /\ Keeps
        /\ (list' = list \/ \E old \in Rows, new \in Rows : MarkedRow(old, new, c))
    BY <1>13, IsDoneSetDoes
  <2>2. IdsOf(list'.all) \subseteq IdsOf(list.all) /\ (list'.shown = list.shown \/ list'.shown = Filtered(list'))
    <3>1. CASE list' = list
      BY <3>1
    <3>2. ASSUME NEW old \in Rows, NEW new \in Rows, MarkedRow(old, new, c)
          PROVE  IdsOf(list'.all) \subseteq IdsOf(list.all) /\ list'.shown = Filtered(list')
      BY <1>1, <3>2, ItemChangedIds DEF MarkedRow
    <3> QED
      BY <2>1, <3>1, <3>2
  <2>3. CallsFrom(calls', calls)
    BY <2>1, FollowFrom DEF CallsFrom
  <2>4. Sent(calls') \subseteq Sent(calls) /\ Dragged(calls') \subseteq Dragged(calls)
    BY <2>3, FromSent
  <2>5. items' = items /\ budget'.ids = budget.ids
    BY <1>13 DEF IsDoneSet
  <2>6. Apart'
    BY <1>1, <2>1, <2>2, <2>4, <2>5, KnownHas, KeepsApart
  <2> QED
    BY <2>1, <2>2, <2>6, KeepsOnce DEF AddingInv
<1>14. ASSUME NEW c \in calls, Reordered(c) PROVE AddingInv'
  <2>1. /\ list' \in ListPages /\ calls' = calls \ {c} /\ Keeps /\ c.op = "reorder" /\ list'.shown = list.shown
        /\ \A k \in DOMAIN list'.all : list'.all[k].id \in c.ids
                                       \/ (k \in DOMAIN list.all /\ list'.all[k] = list.all[k])
    BY <1>14, ReorderedDoes
  <2>2. c.ids \subseteq Dragged(calls)
    BY <2>1 DEF Dragged
  <2>3. IdsOf(list'.all) \subseteq IdsOf(list.all) \cup Dragged(calls)
    BY <2>1, <2>2 DEF IdsOf
  <2>4. Sent(calls') \subseteq Sent(calls) /\ Dragged(calls') \subseteq Dragged(calls)
    BY <2>1 DEF Sent, Dragged
  <2>5. items' = items /\ budget'.ids = budget.ids
    BY <1>14 DEF Reordered
  <2>6. Apart'
    BY <1>1, <2>1, <2>3, <2>4, <2>5, KnownHas, KeepsApart
  <2> QED
    BY <2>1, <2>6, KeepsOnce DEF AddingInv
<1>15. CASE Quietly
  BY <1>15, QuietAdding
<1> QED
  BY <1>2, <1>3, <1>4, <1>5, <1>6, <1>7, <1>8, <1>9, <1>10, <1>11, <1>12, <1>13, <1>14, <1>15, <1>16,
     Steps, SetListAdding DEF Loudly

LEMMA AddingStart ==
    ASSUME Init
    PROVE  AddingInv
<1>1. PICK s \in Scenarios : StoreInit(s.items, s.lists, s.budget)
  BY DEF Init
<1>2. items = << s.items >> /\ calls = {} /\ budget = s.budget /\ list = ClosedList
  BY <1>1 DEF StoreInit, Init, ListInit
<1>3. \A k \in DOMAIN s.items : s.items[k].id > s.budget.ids
  BY ListsAssumption
<1>4. list.adding = << >> /\ list.detecting = << >> /\ list.all = << >>
  BY <1>2 DEF ClosedList, OpenedList
<1>5. IdsOf(list.adding) = {} /\ Range(list.detecting) = {} /\ IdsOf(list.all) = {}
      /\ DOMAIN list.adding = {} /\ DOMAIN list.detecting = {}
  BY <1>4, NoIds
<1>6. Had(items) = IdsOf(s.items)
  <2>1. DOMAIN items = {1} /\ items[1] = s.items
    BY <1>2
  <2> QED
    BY <2>1 DEF Had
<1>7. Sent(calls) = {} /\ Dragged(calls) = {}
  BY <1>2 DEF Sent, Dragged
<1>8. Known = IdsOf(s.items)
  BY <1>5, <1>6, <1>7 DEF Known
<1>9. \A id \in Known : id > budget.ids
  BY <1>2, <1>3, <1>8 DEF IdsOf
<1>10. Apart
  BY <1>5, <1>9 DEF Apart
<1> QED
  BY <1>5, <1>10 DEF AddingInv, AddingShown

-----------------------------------------------------------------------------
(***************************************************************************)
(* An item whose call is awaited.                                          *)
(***************************************************************************)

\* The calls that the page waits for to add items.
Awaited(cs) == {c \in cs : c.op = "create" /\ c.heard}

\* Nothing is added or moved that the user is not at, and nobody is at both.
UsedInv ==
    /\ "sorting" \in used => "adding" \notin used
    /\ "adding" \notin used => list.detecting = << >> /\ \A c \in calls : c.op # "create"
    /\ "sorting" \notin used => \A c \in calls : c.op # "reorder"

\* No two calls add the same item.
OneCall(cs) == \A c \in Awaited(cs), d \in cs : d.op = "create" /\ c.ids \cap d.ids # {} => c = d

\* What a page shows of an item that it waits for since it had some version: the row that
\* is being added, as long as it has the same, and the row of a version that has the item.
OnPage(id, since, pg, versions) ==
    /\ OnceIn(pg.all, id) /\ OnceIn(pg.shown, id)
    /\ since <= pg.seen /\ (since = pg.seen => id \in IdsOf(pg.adding))
    /\ pg.seen # 0 /\ Has(versions[pg.seen], id) => Has(pg.all, id)
    /\ pg.filter = "all" /\ Has(pg.all, id) => Has(pg.shown, id)

AddedOnce(cs, pg, versions) ==
    \A c \in Awaited(cs) : \A id \in c.ids :
        /\ \A v \in DOMAIN versions : OnceIn(versions[v], id)
        /\ c.stage = "sent" => id \notin Had(versions)
        /\ OnPage(id, c.gen, pg, versions)

WaitsOpen(cs, pg) == pg.detecting # << >> \/ Awaited(cs) # {} => pg.alive

AwaitedInv == OneCall(calls) /\ AddedOnce(calls, list, items) /\ WaitsOpen(calls, list)

LEMMA AwaitedNext ==
    ASSUME OneCall(calls'), AddedOnce(calls', list', items'), WaitsOpen(calls', list')
    PROVE  AwaitedInv'
BY DEF AwaitedInv

LEMMA OnceAt ==
    ASSUME NEW rows \in Seq(Rows), NEW places, NEW left, left = RowsAt(rows, places), NEW id, OnceIn(rows, id)
    PROVE  OnceIn(left, id) /\ \A k \in DOMAIN left : left[k].id \in IdsOf(rows)
<1>1. \A k \in DOMAIN left : \E i \in DOMAIN rows : i \in places /\ left[k] = rows[i]
  BY AddingLeft
<1>2. \A k, l \in DOMAIN left : k # l => \E i, j \in DOMAIN rows : i # j /\ left[k] = rows[i] /\ left[l] = rows[j]
  BY AddingLeft
<1>3. OnceIn(left, id)
  BY <1>2 DEF OnceIn
<1> QED
  BY <1>1, <1>3 DEF IdsOf

\* Rows that are filtered anew show an item once that is once in the list and in what is
\* being added, and do not leave it out where all are shown.
LEMMA FilteredHas ==
    ASSUME NEW pg \in ListPages, NEW shown, shown = Filtered(pg), NEW id, OnceIn(pg.all, id),
           \A j, k \in DOMAIN pg.adding : pg.adding[j].id = pg.adding[k].id => j = k,
           IdsOf(pg.adding) \cap IdsOf(pg.all) = {}
    PROVE  /\ OnceIn(shown, id)
           /\ pg.filter = "all" /\ Has(pg.all, id) => Has(shown, id)
<1>1. pg.all \in Seq(Rows) /\ pg.adding \in Seq(Rows)
  BY PageFields
<1>2. PICK places : places = {k \in DOMAIN pg.all : Passes(pg.filter, pg.all[k])}
  OBVIOUS
<1>3. PICK passing : passing = RowsAt(pg.all, places)
  OBVIOUS
<1>4. passing \in Seq(Rows) /\ shown = passing \o pg.adding
  <2>1. passing \in Seq(Rows)
    BY <1>1, <1>3, RowsAtRows
  <2>2. passing = Passing(pg.filter, pg.all)
    BY <1>2, <1>3 DEF Passing
  <2>3. shown = passing \o pg.adding
    BY <2>2 DEF Filtered
  <2> QED
    BY <2>1, <2>3
<1>5. OnceIn(passing, id) /\ \A k \in DOMAIN passing : passing[k].id \in IdsOf(pg.all)
  BY <1>1, <1>3, OnceAt
<1>6. \A k \in DOMAIN pg.all : k \in places => \E j \in DOMAIN passing : passing[j] = pg.all[k]
  BY <1>1, <1>3, RowsAtAll
<1>7. \A k \in DOMAIN passing : k \in DOMAIN shown /\ shown[k] = passing[k]
  BY <1>1, <1>4, Joined
<1>8. \A k \in DOMAIN shown : k \in DOMAIN passing
         \/ (k - Len(passing) \in DOMAIN pg.adding /\ shown[k] = pg.adding[k - Len(passing)])
  BY <1>1, <1>4, Joined
<1>9. shown \in Seq(Rows)
  BY <1>1, <1>4, Joined
<1>10. ASSUME NEW j \in DOMAIN shown, NEW k \in DOMAIN shown, shown[j].id = id, shown[k].id = id PROVE j = k
  <2>1. j \in Int /\ k \in Int /\ Len(passing) \in Int
    BY <1>4, <1>9
  <2>2. ASSUME NEW l \in DOMAIN passing, passing[l].id = id PROVE id \in IdsOf(pg.all)
    BY <1>5, <2>2
  <2>3. ASSUME NEW l, l - Len(passing) \in DOMAIN pg.adding, pg.adding[l - Len(passing)].id = id
        PROVE  id \in IdsOf(pg.adding)
    BY <2>3 DEF IdsOf
  <2>4. CASE j \in DOMAIN passing /\ k \in DOMAIN passing
    <3>1. passing[j].id = id /\ passing[k].id = id
      BY <1>7, <1>10, <2>4
    <3> QED
      BY <1>5, <2>4, <3>1 DEF OnceIn
  <2>5. CASE j \in DOMAIN passing /\ k \notin DOMAIN passing
    BY <1>7, <1>8, <1>10, <2>2, <2>3, <2>5
  <2>6. CASE j \notin DOMAIN passing /\ k \in DOMAIN passing
    BY <1>7, <1>8, <1>10, <2>2, <2>3, <2>6
  <2>7. CASE j \notin DOMAIN passing /\ k \notin DOMAIN passing
    <3>1. j - Len(passing) = k - Len(passing)
      BY <1>8, <1>10, <2>7
    <3> QED
      BY <2>1, <3>1
  <2> QED
    BY <2>4, <2>5, <2>6, <2>7
<1>11. ASSUME pg.filter = "all", Has(pg.all, id) PROVE Has(shown, id)
  <2>1. PICK k \in DOMAIN pg.all : pg.all[k].id = id
    BY <1>11 DEF Has
  <2>2. k \in places
    BY <1>2, <1>11 DEF Passes
  <2>3. PICK j \in DOMAIN passing : passing[j] = pg.all[k]
    BY <1>6, <2>2
  <2> QED
    BY <1>7, <2>1, <2>3 DEF Has
<1> QED
  BY <1>10, <1>11 DEF OnceIn

\* A call that is awaited was so before, or is of another stage than it was.
LEMMA ReissuedAwaited ==
    ASSUME OneCall(calls), Reissued(calls', calls)
    PROVE  /\ OneCall(calls')
           /\ \A d \in Awaited(calls') : \E c \in Awaited(calls) :
                 d.ids = c.ids /\ d.gen = c.gen /\ (d.stage = "sent" => c.stage = "sent")
<1>1. CASE \A d \in calls' : d.op = "create" => d \in calls
  BY <1>1 DEF OneCall, Awaited
<1>2. ASSUME NEW c \in calls, NEW e \in calls', Same(e, c), e.heard = c.heard, e.stage # "sent",
             \A d \in calls' : d.op = "create" => d = e \/ (d \in calls /\ d # c)
      PROVE  /\ OneCall(calls')
             /\ \A d \in Awaited(calls') : \E b \in Awaited(calls) :
                   d.ids = b.ids /\ d.gen = b.gen /\ (d.stage = "sent" => b.stage = "sent")
  <2>1. e.op = c.op /\ e.ids = c.ids /\ e.gen = c.gen
    BY <1>2 DEF Same
  <2>2. ASSUME NEW a \in Awaited(calls'), NEW d \in calls', d.op = "create", a.ids \cap d.ids # {} PROVE a = d
    <3>1. a \in calls' /\ a.op = "create" /\ a.heard
      BY DEF Awaited
    <3>2. CASE a = e /\ d # e
      BY <1>2, <2>1, <2>2, <3>1, <3>2 DEF OneCall, Awaited
    <3>3. CASE a # e /\ d = e
      BY <1>2, <2>1, <2>2, <3>1, <3>3 DEF OneCall, Awaited
    <3>4. CASE a # e /\ d # e
      BY <1>2, <2>2, <3>1, <3>4 DEF OneCall, Awaited
    <3> QED
      BY <3>2, <3>3, <3>4
  <2>3. ASSUME NEW d \in Awaited(calls')
        PROVE  \E b \in Awaited(calls) : d.ids = b.ids /\ d.gen = b.gen /\ (d.stage = "sent" => b.stage = "sent")
    <3>1. d \in calls' /\ d.op = "create" /\ d.heard
      BY DEF Awaited
    <3>2. CASE d = e
      <4>1. c \in Awaited(calls)
        BY <1>2, <2>1, <3>1, <3>2 DEF Awaited
      <4> QED
        BY <1>2, <2>1, <3>2, <4>1
    <3>3. CASE d # e
      BY <1>2, <3>1, <3>3 DEF Awaited
    <3> QED
      BY <3>2, <3>3
  <2> QED
    BY <2>2, <2>3 DEF OneCall
<1> QED
  BY <1>1, <1>2 DEF Reissued

\* Calls that go on, or are over, or mark or move rows, are no others that add items.
LEMMA FollowReissued ==
    ASSUME NEW cs, Follow(calls', cs), \A c \in cs : c.op = "create" => c \in calls
    PROVE  Reissued(calls', calls)
BY DEF Follow, Reissued

\* The rows are of the items that they were of.
SameIds(all) == DOMAIN list'.all = DOMAIN all /\ \A k \in DOMAIN all : list'.all[k].id = all[k].id

\* A step of the page that keeps its version, its items and what it waits for.
LEMMA PageAwaited ==
    ASSUME AwaitedInv, Apart', items' = items, list' \in ListPages, Reissued(calls', calls), SameIds(list.all),
           list'.alive = list.alive, list'.seen = list.seen,
           list'.detecting = list.detecting \/ list'.detecting = << >>,
           \A c \in Awaited(calls') : \A id \in c.ids : id \in IdsOf(list.adding) => id \in IdsOf(list'.adding),
           (list'.shown = list.shown /\ list'.filter = list.filter) \/ list'.shown = Filtered(list')
    PROVE  AwaitedInv'
<1>1. OneCall(calls')
  BY ReissuedAwaited DEF AwaitedInv
<1>2. \A d \in Awaited(calls') : \E c \in Awaited(calls) :
         d.ids = c.ids /\ d.gen = c.gen /\ (d.stage = "sent" => c.stage = "sent")
  BY ReissuedAwaited DEF AwaitedInv
<1>3. /\ \A j, k \in DOMAIN list'.adding : list'.adding[j].id = list'.adding[k].id => j = k
      /\ IdsOf(list'.adding) \cap IdsOf(list'.all) = {}
  BY DEF Apart
<1>4. ASSUME NEW d \in Awaited(calls'), NEW id \in d.ids
      PROVE  /\ \A v \in DOMAIN items' : OnceIn(items'[v], id)
             /\ d.stage = "sent" => id \notin Had(items')
             /\ OnPage(id, d.gen, list', items')
  <2>1. PICK c \in Awaited(calls) : d.ids = c.ids /\ d.gen = c.gen /\ (d.stage = "sent" => c.stage = "sent")
    BY <1>2
  <2>2. /\ \A v \in DOMAIN items : OnceIn(items[v], id)
        /\ c.stage = "sent" => id \notin Had(items)
        /\ OnPage(id, c.gen, list, items)
    BY <2>1 DEF AwaitedInv, AddedOnce
  <2>3. OnceIn(list'.all, id) /\ (Has(list'.all, id) <=> Has(list.all, id))
    BY <2>2 DEF OnPage, OnceIn, Has, SameIds
  <2>4. OnceIn(list'.shown, id) /\ (list'.filter = "all" /\ Has(list'.all, id) => Has(list'.shown, id))
    <3>1. CASE list'.shown = list.shown /\ list'.filter = list.filter
      BY <2>2, <2>3, <3>1 DEF OnPage
    <3>2. CASE list'.shown = Filtered(list')
      BY <1>3, <2>3, <3>2, FilteredHas
    <3> QED
      BY <3>1, <3>2
  <2>5. d.gen <= list'.seen /\ (d.gen = list'.seen => id \in IdsOf(list'.adding))
    BY <2>1, <2>2 DEF OnPage
  <2>6. list'.seen # 0 /\ Has(items'[list'.seen], id) => Has(list'.all, id)
    BY <2>2, <2>3 DEF OnPage
  <2>7. OnPage(id, d.gen, list', items')
    BY <2>3, <2>4, <2>5, <2>6 DEF OnPage
  <2> QED
    BY <2>1, <2>2, <2>7
<1>5. AddedOnce(calls', list', items')
  BY <1>4 DEF AddedOnce
<1>6. WaitsOpen(calls', list')
  BY <1>2 DEF AwaitedInv, WaitsOpen
<1> QED
  BY <1>1, <1>5, <1>6, AwaitedNext

\* A new version of the list: no item is twice in it that a call has still to add, or added.
LEMMA ItemsAwaited ==
    ASSUME StoreTyped, ListTyped, AwaitedInv, UNCHANGED list, OneCall(calls'),
           NEW rows \in Seq(Items), items' = Append(items, rows), NEW ids, RowsOf(rows, ids), OnceStill(rows, ids),
           \A d \in Awaited(calls') : \E c \in Awaited(calls) :
               /\ d.ids = c.ids /\ d.gen = c.gen /\ (d.stage = "sent" => c.stage = "sent")
               /\ d.ids \cap ids # {} => c.stage = "sent" /\ d.stage # "sent"
    PROVE  AwaitedInv'
<1>1. /\ items \in Seq(Seq(Items)) /\ Current = items[Len(items)] /\ Len(items) \in DOMAIN items
      /\ list.seen \in Nat /\ list.seen <= Len(items) /\ Len(items) \in Nat
  BY CurrentTyped, PageFields DEF StoreTyped, ListTyped
<1>2. /\ DOMAIN items' = DOMAIN items \cup {Len(items) + 1}
      /\ \A v \in DOMAIN items : items'[v] = items[v]
      /\ items'[Len(items) + 1] = rows
  BY <1>1, Appended
<1>3. Had(items') \subseteq Had(items) \cup ids
  BY HadMore
<1>4. list.seen # 0 => items'[list.seen] = items[list.seen]
  BY <1>1, <1>2
<1>5. ASSUME NEW d \in Awaited(calls'), NEW id \in d.ids
      PROVE  /\ \A v \in DOMAIN items' : OnceIn(items'[v], id)
             /\ d.stage = "sent" => id \notin Had(items')
             /\ OnPage(id, d.gen, list', items')
  <2>1. PICK c \in Awaited(calls) : /\ d.ids = c.ids /\ d.gen = c.gen /\ (d.stage = "sent" => c.stage = "sent")
                                    /\ d.ids \cap ids # {} => c.stage = "sent" /\ d.stage # "sent"
    OBVIOUS
  <2>2. /\ \A v \in DOMAIN items : OnceIn(items[v], id)
        /\ c.stage = "sent" => id \notin Had(items)
        /\ OnPage(id, c.gen, list, items)
    BY <2>1 DEF AwaitedInv, AddedOnce
  <2>3. id \in ids => id \notin IdsOf(Current)
    BY <1>1, <2>1, <2>2 DEF Had
  <2>4. OnceIn(Current, id)
    BY <1>1, <2>2
  <2>5. OnceIn(rows, id)
    BY <2>3, <2>4 DEF OnceStill
  <2>6. \A v \in DOMAIN items' : OnceIn(items'[v], id)
    BY <1>2, <2>2, <2>5
  <2>7. d.stage = "sent" => id \notin Had(items')
    BY <1>3, <2>1, <2>2
  <2>8. OnPage(id, d.gen, list', items')
    BY <1>4, <2>1, <2>2 DEF OnPage
  <2> QED
    BY <2>6, <2>7, <2>8
<1>6. AddedOnce(calls', list', items')
  BY <1>5 DEF AddedOnce
<1>7. WaitsOpen(calls', list')
  BY DEF AwaitedInv, WaitsOpen
<1> QED
  BY <1>6, <1>7, AwaitedNext

\* A step that adds and moves nothing leaves what the user is at.
LEMMA UsedKept ==
    ASSUME UsedInv, used' = used, CallsFrom(calls', calls),
           list'.detecting = list.detecting \/ list'.detecting = << >>
    PROVE  UsedInv'
<1>1. ASSUME "adding" \notin used, NEW d \in calls' PROVE d.op # "create"
  BY <1>1 DEF UsedInv, CallsFrom
<1>2. ASSUME "sorting" \notin used, NEW d \in calls' PROVE d.op # "reorder"
  BY <1>2 DEF UsedInv, CallsFrom
<1> QED
  BY <1>1, <1>2 DEF UsedInv

LEMMA UsedStays ==
    ASSUME [Next]_vars
    PROVE  used' = used
BY DEF Next, vars, Serving, Failing, Others, Using, ChangingTheLook, Closing, Detecting, Receiving, Watching

\* An item that is being added cannot be one that is dragged: nobody is at both.
LEMMA AwaitedAtAdding ==
    ASSUME UsedInv, NEW c \in calls, c.op = "create" 
    PROVE  "adding" \in used /\ "sorting" \notin used /\ \A d \in calls : d.op # "reorder"
BY DEF UsedInv

LEMMA AddsUsed ==
    ASSUME StoreTyped, ListTyped, UsedInv, used' = used, NEW ids \in Seq(ItemIds), CreateListItems(ids),
           ids # << >> => "adding" \in used
    PROVE  UsedInv'
<1>1. PICK pg \in ListPages, cs \in SUBSET Calls :
         Anew(pg, cs) /\ AddingCalls(cs, ids) /\ pg.detecting = << >>
  BY CreateListItemsDoes
<1>2. Follow(calls', cs) /\ list'.detecting = << >>
  BY <1>1 DEF Anew, AsPage
<1>3. ASSUME NEW d \in calls', d.op \in {"create", "reorder"}
      PROVE  d \in calls \/ (d.op = "create" /\ "adding" \in used)
  <2>1. d \in cs
    BY <1>2, <1>3 DEF Follow
  <2>2. CASE NewlyAdded(d, ids)
    <3>1. ids # << >>
      BY <2>2 DEF NewlyAdded
    <3> QED
      BY <2>2, <3>1 DEF NewlyAdded
  <2> QED
    BY <1>1, <2>1, <2>2 DEF AddingCalls
<1> QED
  BY <1>2, <1>3 DEF UsedInv

\* The items that a page begins to add are in no version of the list, and shown as being
\* added to the version that it has.
LEMMA AddsAwaited ==
    ASSUME StoreTyped, ListTyped, AwaitedInv, Apart', NEW ids \in Seq(ItemIds), CreateListItems(ids),
           items' = items, ids # << >> => list.alive, Range(ids) \cap Known = {},
           \A j, k \in DOMAIN ids : ids[j] = ids[k] => j = k
    PROVE  AwaitedInv'
<1>1. PICK pg \in ListPages, cs \in SUBSET Calls, rows \in Seq(Rows) :
         /\ Anew(pg, cs) /\ AddingRows(rows, ids) /\ AddingCalls(cs, ids)
         /\ pg.alive = list.alive /\ pg.filter = list.filter /\ pg.all = list.all
         /\ pg.adding = list.adding \o rows /\ pg.detecting = << >> /\ pg.seen = list.seen
  BY CreateListItemsDoes
<1>2. /\ list' \in ListPages /\ list'.shown = Filtered(list') /\ Follow(calls', cs) /\ list'.alive = list.alive
      /\ list'.filter = list.filter /\ list'.all = list.all /\ list'.adding = list.adding \o rows
      /\ list'.detecting = << >> /\ list'.seen = list.seen
  BY <1>1 DEF Anew, AsPage
<1>3. list.adding \in Seq(Rows) /\ DOMAIN ids = 1 .. Len(ids) /\ Len(ids) \in Nat /\ list.seen \in Nat
  BY PageFields DEF ListTyped
<1>4. DOMAIN rows = DOMAIN ids /\ \A k \in DOMAIN rows : rows[k].id = ids[k]
  BY <1>1, <1>3 DEF AddingRows, AddingRow
<1>5. IdsOf(list.adding) \cup Range(ids) \subseteq IdsOf(list'.adding)
  <2>1. \A k \in DOMAIN list.adding : k \in DOMAIN list'.adding /\ list'.adding[k] = list.adding[k]
    BY <1>2, <1>3, Joined
  <2>2. \A k \in DOMAIN rows : /\ Len(list.adding) + k \in DOMAIN list'.adding
                               /\ list'.adding[Len(list.adding) + k] = rows[k]
    BY <1>2, <1>3, Joined
  <2>3. ASSUME NEW k \in DOMAIN ids PROVE ids[k] \in IdsOf(list'.adding)
    BY <1>4, <2>2 DEF IdsOf
  <2>4. ASSUME NEW k \in DOMAIN list.adding PROVE list.adding[k].id \in IdsOf(list'.adding)
    BY <2>1 DEF IdsOf
  <2> QED
    BY <2>3, <2>4 DEF IdsOf, Range
<1>6. /\ \A j, k \in DOMAIN list'.adding : list'.adding[j].id = list'.adding[k].id => j = k
      /\ IdsOf(list'.adding) \cap IdsOf(list'.all) = {}
  BY DEF Apart
<1>7. ASSUME NEW d \in calls', d.op = "create"
      PROVE  d \in calls \/ (d \in cs /\ d \notin calls /\ NewlyAdded(d, ids))
  BY <1>1, <1>2, <1>7 DEF Follow, AddingCalls
<1>8. ASSUME NEW d, NewlyAdded(d, ids), NEW id \in d.ids PROVE d.ids = {id} /\ id \in Range(ids) /\ id \notin Known
  BY <1>8 DEF NewlyAdded, Range
<1>9. ASSUME NEW d \in calls, d.op = "create", NEW id \in d.ids PROVE id \in Known
  BY <1>9 DEF Known, Sent
<1>10. OneCall(calls')
  <2>1. ASSUME NEW c \in Awaited(calls'), NEW d \in calls', d.op = "create", NEW id \in c.ids \cap d.ids PROVE c = d
    <3>1. c \in calls' /\ c.op = "create" /\ c.heard
      BY DEF Awaited
    <3>2. CASE c \in calls /\ d \in calls
      BY <2>1, <3>1, <3>2 DEF AwaitedInv, OneCall, Awaited
    <3>3. CASE NewlyAdded(c, ids) /\ NewlyAdded(d, ids) /\ c \in cs \ calls /\ d \in cs \ calls
      <4>1. c.ids = {id} /\ d.ids = {id}
        BY <1>8, <3>3
      <4> QED
        BY <1>1, <3>3, <4>1 DEF AddingCalls
    <3> QED
      BY <1>7, <1>8, <1>9, <2>1, <3>1, <3>2, <3>3
  <2> QED
    BY <2>1 DEF OneCall
<1>11. ASSUME NEW d \in Awaited(calls'), NEW id \in d.ids
       PROVE  /\ \A v \in DOMAIN items' : OnceIn(items'[v], id)
              /\ d.stage = "sent" => id \notin Had(items')
              /\ OnPage(id, d.gen, list', items')
  <2>1. d \in calls' /\ d.op = "create" /\ d.heard
    BY DEF Awaited
  <2>2. CASE d \in calls
    <3>1. /\ \A v \in DOMAIN items : OnceIn(items[v], id)
          /\ d.stage = "sent" => id \notin Had(items)
          /\ OnPage(id, d.gen, list, items)
      BY <2>1, <2>2 DEF AwaitedInv, AddedOnce, Awaited
    <3>2. OnceIn(list'.all, id)
      BY <1>2, <3>1 DEF OnPage
    <3>3. OnceIn(list'.shown, id) /\ (list'.filter = "all" /\ Has(list'.all, id) => Has(list'.shown, id))
      BY <1>2, <1>6, <3>2, FilteredHas
    <3>4. OnPage(id, d.gen, list', items')
      BY <1>2, <1>5, <3>1, <3>3 DEF OnPage
    <3> QED
      BY <3>1, <3>4
  <2>3. CASE NewlyAdded(d, ids)
    <3>1. id \in Range(ids) /\ id \notin Known /\ d.gen = list.seen
      BY <1>8, <2>3 DEF NewlyAdded
    <3>2. id \notin Had(items) /\ id \notin IdsOf(list.all)
      BY <3>1, KnownHas
    <3>3. \A v \in DOMAIN items : id \notin IdsOf(items[v])
      BY <3>2 DEF Had
    <3>4. \A v \in DOMAIN items : OnceIn(items[v], id) /\ ~Has(items[v], id)
      BY <3>3 DEF IdsOf, OnceIn, Has
    <3>5. OnceIn(list'.all, id) /\ ~Has(list'.all, id)
      BY <1>2, <3>2 DEF IdsOf, OnceIn, Has
    <3>6. OnceIn(list'.shown, id)
      BY <1>2, <1>6, <3>5, FilteredHas
    <3>7. list'.seen # 0 => list'.seen \in DOMAIN items
      BY <1>2, <1>3 DEF ListTyped, StoreTyped
    <3>8. OnPage(id, d.gen, list', items')
      BY <1>2, <1>3, <1>5, <3>1, <3>4, <3>5, <3>6, <3>7 DEF OnPage
    <3> QED
      BY <3>2, <3>4, <3>8
  <2> QED
    BY <1>7, <2>1, <2>2, <2>3
<1>12. AddedOnce(calls', list', items')
  BY <1>11 DEF AddedOnce
<1>13. WaitsOpen(calls', list')
  <2>1. ASSUME NEW d \in Awaited(calls') PROVE list.alive
    <3>1. CASE d \in calls
      BY <2>1, <3>1 DEF Awaited, AwaitedInv, WaitsOpen
    <3>2. CASE NewlyAdded(d, ids)
      <4>1. ids # << >>
        BY <3>2 DEF NewlyAdded
      <4> QED
        BY <4>1
    <3> QED
      BY <1>7, <3>1, <3>2 DEF Awaited
  <2> QED
    BY <1>2, <2>1 DEF WaitsOpen
<1> QED
  BY <1>10, <1>12, <1>13, AwaitedNext

\* What one step does to what the user is at and to what the page waits for.
WaitInv == UsedInv /\ AwaitedInv

\* A version of the list takes the place of what the page had: the items in it are there.
LEMMA SetListAwaited ==
    ASSUME StoreTyped, ListTyped, AddingInv, AwaitedInv, NEW v, SetList(v)
    PROVE  AwaitedInv' /\ CallsFrom(calls', calls) /\ list'.detecting = list.detecting
<1>1. PICK pg \in ListPages : /\ Anew(pg, calls) /\ list.alive /\ v \in 1 .. Len(items) /\ pg.seen = v
                              /\ pg.alive /\ pg.adding = << >> /\ pg.all = Stored(items[v])
  BY SetListAdding
<1>2. PICK old \in ListPages : Anew(old, calls) /\ old.detecting = list.detecting
  BY SetListDoes
<1>3. /\ list' \in ListPages /\ list'.shown = Filtered(list') /\ Follow(calls', calls) /\ list'.alive
      /\ list'.all = Stored(items[v]) /\ list'.adding = << >> /\ list'.seen = v
  BY <1>1 DEF Anew, AsPage
<1>4. list'.detecting = list.detecting
  BY <1>2 DEF Anew, AsPage
<1>5. items' = items /\ items \in Seq(Seq(Items)) /\ v > list.seen /\ list.seen \in Nat /\ v \in Nat \ {0}
  BY <1>1, PageFields DEF SetList, StoreTyped, ListTyped
<1>6. Reissued(calls', calls) /\ CallsFrom(calls', calls)
  BY <1>3, FollowReissued, FollowFrom
<1>7. OneCall(calls')
  BY <1>6, ReissuedAwaited DEF AwaitedInv
<1>8. \A d \in Awaited(calls') : \E c \in Awaited(calls) :
         d.ids = c.ids /\ d.gen = c.gen /\ (d.stage = "sent" => c.stage = "sent")
  BY <1>6, ReissuedAwaited DEF AwaitedInv
<1>9. items[v] \in Seq(Items) /\ v \in DOMAIN items
  BY <1>1, <1>5
<1>10. DOMAIN list'.all = DOMAIN items[v] /\ \A k \in DOMAIN items[v] : list'.all[k].id = items[v][k].id
  BY <1>3, <1>9, StoredRows
<1>11. /\ \A j, k \in DOMAIN list'.adding : list'.adding[j].id = list'.adding[k].id => j = k
       /\ IdsOf(list'.adding) \cap IdsOf(list'.all) = {}
  BY <1>3, NoIds
<1>12. ASSUME NEW d \in Awaited(calls'), NEW id \in d.ids
       PROVE  /\ \A w \in DOMAIN items' : OnceIn(items'[w], id)
              /\ d.stage = "sent" => id \notin Had(items')
              /\ OnPage(id, d.gen, list', items')
  <2>1. PICK c \in Awaited(calls) : d.ids = c.ids /\ d.gen = c.gen /\ (d.stage = "sent" => c.stage = "sent")
    BY <1>8
  <2>2. /\ \A w \in DOMAIN items : OnceIn(items[w], id)
        /\ c.stage = "sent" => id \notin Had(items)
        /\ c.gen <= list.seen
    BY <2>1 DEF AwaitedInv, AddedOnce, OnPage
  <2>3. c.gen \in Nat
    BY DEF Awaited, StoreTyped, CallsTyped, Calls
  <2>4. OnceIn(list'.all, id) /\ (Has(items[v], id) => Has(list'.all, id))
    BY <1>9, <1>10, <2>2 DEF OnceIn, Has
  <2>5. OnceIn(list'.shown, id) /\ (list'.filter = "all" /\ Has(list'.all, id) => Has(list'.shown, id))
    BY <1>3, <1>11, <2>4, FilteredHas
  <2>6. d.gen <= list'.seen /\ d.gen # list'.seen
    BY <1>3, <1>5, <2>1, <2>2, <2>3
  <2>7. OnPage(id, d.gen, list', items')
    BY <1>3, <1>5, <2>4, <2>5, <2>6 DEF OnPage
  <2> QED
    BY <1>5, <2>1, <2>2, <2>7
<1>13. AddedOnce(calls', list', items')
  BY <1>12 DEF AddedOnce
<1>14. AwaitedInv'
  BY <1>3, <1>7, <1>13, AwaitedNext DEF WaitsOpen
<1> QED
  BY <1>4, <1>6, <1>14

\* A page that is opened or closed waits for nothing.
LEMMA NoneAwaited ==
    ASSUME list'.detecting = << >>, Awaited(calls') = {}
    PROVE  AwaitedInv'
<1>1. OneCall(calls') /\ AddedOnce(calls', list', items') /\ WaitsOpen(calls', list')
  BY DEF OneCall, AddedOnce, WaitsOpen
<1> QED
  BY <1>1, AwaitedNext

LEMMA OpenCloseWait ==
    ASSUME StoreTyped, ListTyped, WaitInv, used' = used, OpenList \/ CloseList
    PROVE  WaitInv'
<1>1. CASE OpenList
  <2>1. list' = OpenedList /\ calls' = calls /\ ~list.alive
    BY <1>1, OpenListDoes DEF OpenList
  <2>2. list'.detecting = << >>
    BY <2>1 DEF OpenedList
  <2>3. Awaited(calls') = {}
    BY <2>1 DEF WaitInv, AwaitedInv, WaitsOpen
  <2>4. CallsFrom(calls', calls)
    BY <2>1 DEF CallsFrom
  <2> QED
    BY <2>2, <2>3, <2>4, NoneAwaited, UsedKept DEF WaitInv
<1>2. CASE CloseList
  <2>1. list' = ClosedList
    BY <1>2, CloseListDoes
  <2>2. list'.detecting = << >>
    BY <2>1 DEF ClosedList, OpenedList
  <2>3. ASSUME NEW d \in calls', d.op = "create" PROVE ~d.heard
    <3>1. calls' = {IF c.op = "deleteList" THEN c ELSE [c EXCEPT !.heard = FALSE] : c \in calls}
      BY <1>2 DEF CloseList
    <3>2. PICK c \in calls : d = IF c.op = "deleteList" THEN c ELSE [c EXCEPT !.heard = FALSE]
      BY <2>3, <3>1
    <3>3. c \in Calls
      BY DEF StoreTyped, CallsTyped
    <3>4. d = [c EXCEPT !.heard = FALSE]
      BY <2>3, <3>2
    <3> QED
      BY <3>3, <3>4 DEF Calls
  <2>4. Awaited(calls') = {}
    BY <2>3 DEF Awaited
  <2>5. CallsFrom(calls', calls)
    <3>1. PICK deaf : Deafened(deaf, calls')
      BY <1>2, CloseListDoes
    <3> QED
      BY <3>1 DEF Deafened, Same, CallsFrom
  <2> QED
    BY <2>2, <2>4, <2>5, NoneAwaited, UsedKept DEF WaitInv
<1> QED
  BY <1>1, <1>2

\* Versions of the list come of calls and from other members; no call moves a row that
\* the page waits for.
LEMMA ItemsWait ==
    ASSUME StoreTyped, ListTyped, WaitInv, used' = used, UNCHANGED list,
           ElsewhereItems \/ \E c \in calls : ServeItems(c)
    PROVE  WaitInv'
<1>1. CASE ElsewhereItems
  <2>1. PICK rows \in Seq(Items) : items' = Append(items, rows) /\ RowsOf(rows, {}) /\ OnceStill(rows, {})
    BY <1>1, ElsewhereItemsDoes
  <2>2. calls' = calls
    BY <1>1, ElsewhereItemsDoes
  <2>3. CallsFrom(calls', calls)
    BY <2>2 DEF CallsFrom
  <2>4. PICK ids : ids = {}
    OBVIOUS
  <2>5. RowsOf(rows, ids) /\ OnceStill(rows, ids) /\ OneCall(calls')
    BY <2>1, <2>2, <2>4 DEF WaitInv, AwaitedInv
  <2>6. \A d \in Awaited(calls') : \E c \in Awaited(calls) :
          /\ d.ids = c.ids /\ d.gen = c.gen /\ (d.stage = "sent" => c.stage = "sent")
          /\ d.ids \cap ids # {} => c.stage = "sent" /\ d.stage # "sent"
    BY <2>2, <2>4
  <2>7. AwaitedInv'
    BY <2>1, <2>5, <2>6, ItemsAwaited DEF WaitInv
  <2> QED
    BY <2>3, <2>7, UsedKept DEF WaitInv
<1>2. ASSUME NEW c \in calls, ServeItems(c) PROVE WaitInv'
  <2>1. PICK ids : ids = IF c.op = "create" THEN c.ids ELSE {}
    OBVIOUS
  <2>2. PICK rows \in Seq(Items) : /\ items' = Append(items, rows) /\ RowsOf(rows, ids)
                                   /\ c.op = "reorder" \/ OnceStill(rows, ids)
    BY <1>2, <2>1, ServeItemsDoes
  <2>3. Staged(c, "done", calls') /\ c.stage = "sent"
    BY <1>2, ServeItemsDoes DEF ServeItems
  <2>4. CallsFrom(calls', calls)
    BY <2>3 DEF Staged, Same, CallsFrom
  <2>5. UsedInv'
    BY <2>4, UsedKept DEF WaitInv
  <2>6. PICK e \in calls' : Same(e, c) /\ e.stage = "done" /\ e.heard = c.heard /\ calls' = (calls \ {c}) \cup {e}
    BY <2>3 DEF Staged
  <2>7. Reissued(calls', calls)
    BY <2>6 DEF Reissued
  <2>8. OneCall(calls')
    BY <2>7, ReissuedAwaited DEF WaitInv, AwaitedInv
  <2>9. CASE c.op = "reorder"
    <3>1. ASSUME NEW d \in Awaited(calls') PROVE FALSE
      <4>1. PICK b \in Awaited(calls) : TRUE
        BY <2>7, ReissuedAwaited DEF WaitInv, AwaitedInv
      <4> QED
        BY <2>9, <4>1, AwaitedAtAdding DEF Awaited, WaitInv
    <3>2. AddedOnce(calls', list', items')
      BY <3>1 DEF AddedOnce
    <3>3. WaitsOpen(calls', list')
      BY <3>1 DEF WaitInv, AwaitedInv, WaitsOpen
    <3> QED
      BY <2>5, <2>8, <3>2, <3>3, AwaitedNext DEF WaitInv
  <2>10. CASE OnceStill(rows, ids)
    <3>1. ASSUME NEW d \in Awaited(calls')
          PROVE  \E b \in Awaited(calls) :
                    /\ d.ids = b.ids /\ d.gen = b.gen /\ (d.stage = "sent" => b.stage = "sent")
                    /\ d.ids \cap ids # {} => b.stage = "sent" /\ d.stage # "sent"
      <4>1. CASE d = e
        <5>1. c \in Awaited(calls)
          BY <2>6, <4>1 DEF Awaited, Same
        <5> QED
          BY <2>3, <2>6, <4>1, <5>1 DEF Same
      <4>2. CASE d \in calls /\ d # c
        <5>1. d \in Awaited(calls)
          BY <4>2 DEF Awaited
        <5>2. d.ids \cap ids = {}
          BY <2>1, <4>2, <5>1 DEF WaitInv, AwaitedInv, OneCall
        <5> QED
          BY <5>1, <5>2
      <4> QED
        BY <2>6, <4>1, <4>2 DEF Awaited
    <3>2. AwaitedInv'
      BY <2>2, <2>8, <2>10, <3>1, ItemsAwaited DEF WaitInv
    <3> QED
      BY <2>5, <3>2 DEF WaitInv
  <2> QED
    BY <2>2, <2>9, <2>10
<1> QED
  BY <1>1, <1>2

\* What is being added stays so, if its call goes on.
LEMMA StayIds ==
    ASSUME NEW rows \in Seq(Rows), NEW c, NEW left, StayAdding(left, rows, c),
           NEW id \in IdsOf(rows), id \notin c.ids
    PROVE  id \in IdsOf(left)
<1>1. PICK places : /\ left = RowsAt(rows, places)
                    /\ \A k \in DOMAIN rows : rows[k].id \notin c.ids => k \in places
  BY DEF StayAdding
<1>2. PICK k \in DOMAIN rows : rows[k].id = id
  BY DEF IdsOf
<1>3. PICK j \in DOMAIN RowsAt(rows, places) : RowsAt(rows, places)[j] = rows[k]
  BY <1>1, <1>2, RowsAtAll
<1> QED
  BY <1>1, <1>2, <1>3 DEF IdsOf

\* An item added, or failed to be: those that are awaited still are others.
LEMMA AddedWait ==
    ASSUME StoreTyped, ListTyped, WaitInv, Apart', used' = used, NEW c \in calls, Added(c) \/ FailedToAdd(c)
    PROVE  WaitInv'
<1>1. c.op = "create" /\ c.heard /\ items' = items
  BY DEF Added, FailedToAdd, Answered
<1>2. /\ list' \in ListPages /\ Follow(calls', calls \ {c}) /\ list'.all = list.all /\ list'.alive = list.alive
      /\ list'.seen = list.seen /\ list'.detecting = list.detecting /\ list'.filter = list.filter
      /\ list'.shown = list.shown \/ list'.shown = Filtered(list')
      /\ StayAdding(list'.adding, list.adding, c)
  <2>1. CASE Added(c)
    <3>1. PICK pg \in ListPages :
            /\ Anew(pg, calls \ {c}) /\ pg.alive = list.alive /\ pg.filter = list.filter /\ pg.all = list.all
            /\ pg.detecting = list.detecting /\ pg.seen = list.seen /\ StayAdding(pg.adding, list.adding, c)
      BY <2>1, AddedDoes
    <3> QED
      BY <3>1 DEF Anew, AsPage
  <2>2. CASE FailedToAdd(c)
    <3>1. /\ list' \in ListPages /\ calls' = calls \ {c} /\ list'.alive = list.alive /\ list'.filter = list.filter
          /\ list'.all = list.all /\ list'.shown = list.shown /\ list'.detecting = list.detecting
          /\ list'.seen = list.seen /\ StayAdding(list'.adding, list.adding, c)
      BY <2>2, FailedToAddDoes
    <3> QED
      BY <3>1, FollowSelf
  <2> QED
    BY <2>1, <2>2
<1>3. Reissued(calls', calls) /\ CallsFrom(calls', calls)
  <2>1. Reissued(calls', calls)
    BY <1>2, FollowReissued
  <2>2. CallsFrom(calls', calls)
    BY <1>2, FollowFrom DEF CallsFrom
  <2> QED
    BY <2>1, <2>2
<1>4. ASSUME NEW d \in Awaited(calls'), NEW id \in d.ids, id \in IdsOf(list.adding) PROVE id \in IdsOf(list'.adding)
  <2>1. d \in calls /\ d # c /\ d.op = "create"
    BY <1>2 DEF Follow, Awaited
  <2>2. id \notin c.ids
    BY <1>1, <2>1 DEF WaitInv, AwaitedInv, OneCall, Awaited
  <2>3. list.adding \in Seq(Rows)
    BY PageFields DEF ListTyped
  <2> QED
    BY <1>2, <1>4, <2>2, <2>3, StayIds
<1>5. SameIds(list.all)
  BY <1>2 DEF SameIds
<1>6. AwaitedInv'
  BY <1>1, <1>2, <1>3, <1>4, <1>5, PageAwaited DEF WaitInv
<1> QED
  BY <1>2, <1>3, <1>6, UsedKept DEF WaitInv

\* A step that keeps what is being added, and of which items the rows are.
LEMMA KeepsWait ==
    ASSUME WaitInv, Apart', used' = used, items' = items, list' \in ListPages, Keeps, SameIds(list.all),
           Reissued(calls', calls), CallsFrom(calls', calls),
           list'.shown = list.shown \/ list'.shown = Filtered(list')
    PROVE  WaitInv'
<1>1. AwaitedInv'
  BY PageAwaited DEF WaitInv, Keeps
<1> QED
  BY <1>1, UsedKept DEF WaitInv, Keeps

LEMMA ChangedIds ==
    ASSUME NEW rows \in Seq(Rows), NEW old \in Rows, NEW new \in Rows, old.id = new.id,
           list'.all = ItemChanged(rows, old, new)
    PROVE  SameIds(rows)
<1>1. /\ DOMAIN list'.all = DOMAIN rows
      /\ \A k \in DOMAIN rows : list'.all[k] = IF rows[k] = old THEN new ELSE rows[k]
  BY ItemChangedRows
<1> QED
  BY <1>1 DEF SameIds

LEMMA AddWait ==
    ASSUME StoreTyped, ListTyped, AddingInv, WaitInv, AddingInv', used' = used,
           ("adding" \in used /\ Add) \/ EmojisLoaded
    PROVE  WaitInv'
<1>1. list \in ListPages /\ Apart /\ Apart'
  BY DEF ListTyped, AddingInv
<1>2. CASE "adding" \in used /\ Add /\ emojis = "loaded"
  <2>1. /\ items' = items /\ budget.ids \in Nat \ {0} /\ list.alive
        /\ CreateListItems(<<budget.ids>>)
    BY <1>2, AddDoes
  <2>2. PICK ids : ids = <<budget.ids>>
    OBVIOUS
  <2>3. ids \in Seq(ItemIds) /\ DOMAIN ids = {1} /\ ids[1] = budget.ids
    BY <2>1, <2>2 DEF ItemIds
  <2>4. CreateListItems(ids)
    BY <2>1, <2>2
  <2>5. Range(ids) \cap Known = {}
    <3>1. budget.ids \notin Known
      <4>1. \A id \in Known : id > budget.ids
        BY <1>1 DEF Apart
      <4>2. budget.ids \in Nat /\ ~ (budget.ids > budget.ids)
        BY <2>1
      <4> QED
        BY <4>1, <4>2
    <3> QED
      BY <2>3, <3>1 DEF Range
  <2>6. \A j, k \in DOMAIN ids : ids[j] = ids[k] => j = k
    BY <2>3
  <2>7. AwaitedInv'
    BY <1>1, <2>1, <2>3, <2>4, <2>5, <2>6, AddsAwaited DEF WaitInv
  <2>8. UsedInv'
    BY <1>2, <2>3, <2>4, AddsUsed DEF WaitInv
  <2> QED
    BY <2>7, <2>8 DEF WaitInv
<1>3. CASE "adding" \in used /\ Add /\ emojis # "loaded"
  <2>1. /\ list' \in ListPages /\ calls' = calls /\ list'.alive = list.alive /\ list'.filter = list.filter
        /\ list'.adding = list.adding /\ list'.all = list.all /\ list'.shown = list.shown /\ list'.seen = list.seen
    BY <1>3, AddWaitsDoes
  <2>2. items' = items /\ list.alive
    BY <1>3, AddDoes
  <2>3. OneCall(calls') /\ AddedOnce(calls', list', items') /\ WaitsOpen(calls', list')
    BY <2>1, <2>2 DEF WaitInv, AwaitedInv, AddedOnce, OnPage, WaitsOpen
  <2>4. AwaitedInv'
    BY <2>3, AwaitedNext
  <2>5. UsedInv'
    BY <1>3, <2>1 DEF WaitInv, UsedInv
  <2> QED
    BY <2>4, <2>5 DEF WaitInv
<1>4. CASE EmojisLoaded
  <2>1. /\ items' = items /\ (UNCHANGED <<list, calls>> \/ CreateListItems(list.detecting))
        /\ list.detecting \in Seq(ItemIds)
    BY <1>4, EmojisLoadedDoes
  <2>2. CASE UNCHANGED <<list, calls>>
    <3>1. CallsFrom(calls', calls) /\ list'.detecting = list.detecting
      BY <2>2 DEF CallsFrom
    <3>2. OneCall(calls') /\ AddedOnce(calls', list', items') /\ WaitsOpen(calls', list')
      BY <2>1, <2>2 DEF WaitInv, AwaitedInv
    <3> QED
      BY <3>1, <3>2, UsedKept, AwaitedNext DEF WaitInv
  <2>3. CASE CreateListItems(list.detecting)
    <3>1. list.detecting # << >> => list.alive /\ "adding" \in used
      BY DEF WaitInv, AwaitedInv, WaitsOpen, UsedInv
    <3>2. Range(list.detecting) \cap Known = {}
      BY <1>1 DEF Apart
    <3>3. \A j, k \in DOMAIN list.detecting : list.detecting[j] = list.detecting[k] => j = k
      BY <1>1 DEF Apart
    <3>4. AwaitedInv'
      BY <1>1, <2>1, <2>3, <3>1, <3>2, <3>3, AddsAwaited DEF WaitInv
    <3>5. UsedInv'
      BY <2>1, <2>3, <3>1, AddsUsed DEF WaitInv
    <3> QED
      BY <3>4, <3>5 DEF WaitInv
  <2> QED
    BY <2>1, <2>2, <2>3
<1> QED
  BY <1>2, <1>3, <1>4

LEMMA WaitStep ==
    ASSUME WellTyped, AddingInv, WaitInv, [Next]_vars
    PROVE  WaitInv'
<1>1. StoreTyped /\ ListTyped /\ OverviewTyped /\ list \in ListPages /\ list.all \in Seq(Rows)
  BY PageFields DEF WellTyped, ListTyped
<1>2. AddingInv' /\ Apart' /\ used' = used
  BY <1>1, AddingStep, UsedStays DEF AddingInv
<1>3. CASE Quietly
  <2>1. /\ items' = items /\ list' \in ListPages /\ Keeps /\ list'.all = list.all /\ list'.shown = list.shown
        /\ Reissued(calls', calls) /\ CallsFrom(calls', calls)
    BY <1>3, QuietFrom DEF Quietly, CallsQuiet
  <2>2. SameIds(list.all)
    BY <2>1 DEF SameIds
  <2> QED
    BY <1>2, <2>1, <2>2, KeepsWait
<1>4. CASE (ElsewhereItems \/ \E c \in calls : ServeItems(c)) /\ UNCHANGED list
  BY <1>1, <1>2, <1>4, ItemsWait
<1>5. CASE OpenList \/ CloseList
  BY <1>1, <1>2, <1>5, OpenCloseWait
<1>6. ASSUME NEW f \in Filters, Filter(f) PROVE WaitInv'
  <2>1. PICK pg \in ListPages :
          /\ Anew(pg, calls) /\ list.alive /\ pg.alive
          /\ pg.all = list.all /\ pg.adding = list.adding /\ pg.detecting = list.detecting /\ pg.seen = list.seen
    BY <1>1, <1>6, FilterDoes
  <2>2. /\ list' \in ListPages /\ list'.shown = Filtered(list') /\ Follow(calls', calls) /\ list'.alive = list.alive
        /\ list'.all = list.all /\ list'.adding = list.adding /\ list'.detecting = list.detecting
        /\ list'.seen = list.seen
    BY <2>1 DEF Anew, AsPage
  <2>3. Reissued(calls', calls) /\ CallsFrom(calls', calls)
    BY <2>2, FollowReissued, FollowFrom
  <2>4. items' = items /\ SameIds(list.all)
    BY <1>6, <2>2 DEF Filter, SameIds
  <2>5. AwaitedInv'
    BY <1>2, <2>2, <2>3, <2>4, PageAwaited DEF WaitInv
  <2> QED
    BY <1>2, <2>2, <2>3, <2>5, UsedKept DEF WaitInv
<1>7. CASE ("adding" \in used /\ Add) \/ EmojisLoaded
  BY <1>1, <1>2, <1>7, AddWait
<1>8. CASE Marking
  <2>1. PICK no \in Nat, row \in Rows, new \in Rows, c \in Calls : MarksRow(row, new, c, no)
    BY <1>1, <1>8, MarkingDoes
  <2>2. /\ list' \in ListPages /\ Follow(calls', calls \cup {c}) /\ Keeps /\ c.op = "setIsDone" /\ new.id = row.id
        /\ list'.all = list.all \/ list'.all = ItemChanged(list.all, row, new)
        /\ list'.shown = list.shown \/ list'.shown = Filtered(list')
    BY <2>1 DEF MarksRow
  <2>3. Reissued(calls', calls)
    BY <2>2, FollowReissued
  <2>4. CallsFrom(calls', calls)
    <3>1. CallsFrom(calls', calls \cup {c})
      BY <2>2, FollowFrom
    <3> QED
      BY <2>2, <3>1 DEF CallsFrom
  <2>5. SameIds(list.all)
    <3>1. CASE list'.all = list.all
      BY <3>1 DEF SameIds
    <3>2. CASE list'.all = ItemChanged(list.all, row, new)
      BY <1>1, <2>2, <3>2, ChangedIds
    <3> QED
      BY <2>2, <3>1, <3>2
  <2>6. items' = items
    BY <1>1, <1>8, MarkingDoes
  <2> QED
    BY <1>2, <2>2, <2>3, <2>4, <2>5, <2>6, KeepsWait
<1>9. ASSUME NEW k \in DOMAIN list.shown, NEW done \in BOOLEAN, Swipe(k, done) PROVE WaitInv'
  <2>1. list' \in ListPages /\ calls' = calls /\ Keeps /\ list'.all = list.all /\ list'.shown = list.shown
    BY <1>1, <1>9, SwipeDoes
  <2>2. items' = items /\ SameIds(list.all) /\ Reissued(calls', calls) /\ CallsFrom(calls', calls)
    BY <1>9, <2>1 DEF Swipe, SameIds, Reissued, CallsFrom
  <2> QED
    BY <1>2, <2>1, <2>2, KeepsWait
<1>10. ASSUME NEW c \in calls, Added(c) \/ FailedToAdd(c) PROVE WaitInv'
  BY <1>1, <1>2, <1>10, AddedWait
<1>11. ASSUME NEW c \in calls, IsDoneSet(c) PROVE WaitInv'
  <2>1. list' \in ListPages /\ Follow(calls', calls \ {c}) /\ Keeps
        /\ (list' = list \/ \E old \in Rows, new \in Rows : MarkedRow(old, new, c))
    BY <1>1, <1>11, IsDoneSetDoes
  <2>2. SameIds(list.all) /\ (list'.shown = list.shown \/ list'.shown = Filtered(list'))
    <3>1. CASE list' = list
      BY <3>1 DEF SameIds
    <3>2. ASSUME NEW old \in Rows, NEW new \in Rows, MarkedRow(old, new, c)
          PROVE  SameIds(list.all) /\ list'.shown = Filtered(list')
      BY <1>1, <3>2, ChangedIds DEF MarkedRow
    <3> QED
      BY <2>1, <3>1, <3>2
  <2>3. Reissued(calls', calls)
    BY <2>1, FollowReissued
  <2>4. CallsFrom(calls', calls)
    BY <2>1, FollowFrom DEF CallsFrom
  <2>5. items' = items
    BY <1>11 DEF IsDoneSet
  <2> QED
    BY <1>2, <2>1, <2>2, <2>3, <2>4, <2>5, KeepsWait
<1>12. ASSUME "sorting" \in used, NEW from \in DOMAIN list.shown, NEW to \in DOMAIN list.shown, Reorder(from, to)
       PROVE  WaitInv'
  <2>1. PICK c \in Calls : MovesRow(from, c)
    BY <1>1, <1>12, ReorderDoes
  <2>2. Follow(calls', calls \cup {c}) /\ Keeps /\ c.op = "reorder"
    BY <2>1 DEF MovesRow
  <2>3. "adding" \notin used /\ list.detecting = << >> /\ \A d \in calls : d.op # "create"
    BY <1>12 DEF WaitInv, UsedInv
  <2>4. \A d \in calls' : d.op # "create"
    BY <2>2, <2>3 DEF Follow
  <2>5. Awaited(calls') = {} /\ list'.detecting = << >>
    BY <2>2, <2>3, <2>4 DEF Awaited, Keeps
  <2>6. UsedInv'
    BY <1>2, <1>12, <2>3, <2>4, <2>5 DEF UsedInv
  <2> QED
    BY <2>5, <2>6, NoneAwaited DEF WaitInv
<1>13. ASSUME NEW c \in calls, Reordered(c) PROVE WaitInv'
  <2>1. calls' = calls \ {c} /\ Keeps /\ c.op = "reorder"
    BY <1>1, <1>13, ReorderedDoes
  <2>2. "adding" \notin used /\ list.detecting = << >> /\ \A d \in calls : d.op # "create"
    BY <2>1 DEF WaitInv, UsedInv
  <2>3. Awaited(calls') = {} /\ list'.detecting = << >> /\ CallsFrom(calls', calls)
    BY <2>1, <2>2 DEF Awaited, Keeps, CallsFrom
  <2> QED
    BY <1>2, <2>3, NoneAwaited, UsedKept DEF WaitInv
<1>14. ASSUME NEW v \in DOMAIN items, SetList(v) PROVE WaitInv'
  BY <1>1, <1>2, <1>14, SetListAwaited, UsedKept DEF WaitInv
<1>15. Quietly \/ Loudly
  BY <1>1, Steps
<1> QED
  BY <1>3, <1>4, <1>5, <1>6, <1>7, <1>8, <1>9, <1>10, <1>11, <1>12, <1>13, <1>14, <1>15 DEF Loudly

LEMMA WaitStart ==
    ASSUME Init
    PROVE  WaitInv
<1>1. PICK s \in Scenarios : used = s.used
  BY DEF Init
<1>2. calls = {} /\ list.detecting = << >>
  BY DEF Init, StoreInit, ListInit, ClosedList, OpenedList
<1>3. UsedInv
  BY <1>1, <1>2, ListsAssumption DEF UsedInv
<1>4. AwaitedInv
  BY <1>2 DEF AwaitedInv, OneCall, AddedOnce, WaitsOpen, Awaited
<1> QED
  BY <1>3, <1>4 DEF WaitInv

\* How often rows are of an item that is there at most once.
LEMMA TimesShown ==
    ASSUME NEW rows, NEW id, OnceIn(rows, id)
    PROVE  /\ Cardinality({k \in DOMAIN rows : rows[k].id = id}) <= 1
           /\ Has(rows, id) => Cardinality({k \in DOMAIN rows : rows[k].id = id}) = 1
<1>1. CASE Has(rows, id)
  <2>1. PICK k \in DOMAIN rows : rows[k].id = id
    BY <1>1 DEF Has
  <2>2. {j \in DOMAIN rows : rows[j].id = id} = {k}
    BY <2>1 DEF OnceIn
  <2> QED
    BY <2>2, FS_Singleton
<1>2. CASE ~Has(rows, id)
  <2>1. {j \in DOMAIN rows : rows[j].id = id} = {}
    BY <1>2 DEF Has
  <2> QED
    BY <1>2, <2>1, FS_EmptySet
<1> QED
  BY <1>1, <1>2

LEMMA AwaitedShown ==
    ASSUME AddingInv, AwaitedInv
    PROVE  AddingShownOnce
<1>1. ASSUME NEW c \in calls, c.op = "create", c.heard, NEW id \in c.ids, NEW times,
             times = Cardinality({k \in DOMAIN list.shown : list.shown[k].id = id})
      PROVE  /\ times <= 1
             /\ list.seen = c.gen => times = 1
             /\ list.filter = "all" /\ list.seen # 0 /\ Has(items[list.seen], id) => times = 1
  <2>1. OnPage(id, c.gen, list, items)
    BY <1>1 DEF AwaitedInv, AddedOnce, Awaited
  <2>2. times <= 1 /\ (Has(list.shown, id) => times = 1)
    BY <1>1, <2>1, TimesShown DEF OnPage
  <2>3. ASSUME list.seen = c.gen PROVE times = 1
    <3>1. PICK a \in DOMAIN list.adding : list.adding[a].id = id
      BY <2>1, <2>3 DEF OnPage, IdsOf
    <3> QED
      BY <1>1, <3>1 DEF AddingInv, AddingShown
  <2>4. ASSUME list.filter = "all", list.seen # 0, Has(items[list.seen], id) PROVE times = 1
    BY <2>1, <2>2, <2>4 DEF OnPage
  <2> QED
    BY <2>2, <2>3, <2>4
<1> QED
  BY <1>1 DEF AddingShownOnce

\* An item whose call is awaited is never shown twice; it is shown as being added until a
\* version of the list comes, and, where all are shown, as soon as a version has it.
THEOREM AddingShownOnceHolds == Spec => []AddingShownOnce
<1>1. Init => WellTyped /\ AddingInv /\ WaitInv
  BY InitTyped, AddingStart, WaitStart
<1>2. WellTyped /\ AddingInv /\ WaitInv /\ [Next]_vars => (WellTyped /\ AddingInv /\ WaitInv)'
  BY TypedStep, AddingStep, WaitStep DEF WellTyped
<1>3. AddingInv /\ WaitInv => AddingShownOnce
  BY AwaitedShown DEF WaitInv
<1> QED
  BY <1>1, <1>2, <1>3, PTL DEF Spec

-----------------------------------------------------------------------------
(***************************************************************************)
(* A quiet page of a list shows what is stored.                            *)
(***************************************************************************)

\* Items that calls add are added by calls still.
StaysAdded(ds, cs) == \A c \in cs : c.op = "create" /\ c.heard => \E d \in ds : Same(d, c) /\ d.heard

\* No row is marked by a call that did not mark it before.
MarkersFrom(ds, cs) == Numbers(ds) \subseteq Numbers(cs) /\ Successes(ds) \subseteq Successes(cs)

LEMMA QuietMarkers ==
    ASSUME CallsQuiet
    PROVE  StaysAdded(calls', calls) /\ MarkersFrom(calls', calls)
<1>1. StaysAdded(calls', calls)
  BY DEF CallsQuiet, StaysAdded
<1>2. ASSUME NEW d \in calls', d.op = "setIsDone"
      PROVE  \E c \in calls : c.op = "setIsDone" /\ c.no = d.no /\ (d.stage = "done" => c.stage = "done")
                              /\ (d.heard => c.heard)
  <2>1. PICK c \in calls : Same(d, c) /\ (d.stage = "done" => c.stage = "done") /\ (d.heard => c.heard)
    BY <1>2 DEF CallsQuiet
  <2> QED
    BY <1>2, <2>1 DEF Same
<1>3. Numbers(calls') \subseteq Numbers(calls)
  <2>1. ASSUME NEW no \in Numbers(calls') PROVE no \in Numbers(calls)
    <3>1. PICK d \in calls' : d.op = "setIsDone" /\ no = d.no
      BY DEF Numbers
    <3>2. PICK c \in calls : c.op = "setIsDone" /\ c.no = d.no
      BY <1>2, <3>1
    <3> QED
      BY <3>1, <3>2 DEF Numbers
  <2> QED
    BY <2>1
<1>4. Successes(calls') \subseteq Successes(calls)
  <2>1. ASSUME NEW no \in Successes(calls') PROVE no \in Successes(calls)
    <3>1. PICK d \in calls' : d.op = "setIsDone" /\ d.stage = "done" /\ d.heard /\ no = d.no
      BY DEF Successes
    <3>2. PICK c \in calls : c.op = "setIsDone" /\ c.no = d.no /\ c.stage = "done" /\ c.heard
      BY <1>2, <3>1
    <3> QED
      BY <3>1, <3>2 DEF Successes
  <2> QED
    BY <2>1
<1> QED
  BY <1>1, <1>3, <1>4 DEF MarkersFrom

LEMMA FollowMarkers ==
    ASSUME NEW ds, NEW cs, Follow(ds, cs)
    PROVE  StaysAdded(ds, cs) /\ MarkersFrom(ds, cs)
<1>1. StaysAdded(ds, cs)
  BY SameSelf DEF Follow, StaysAdded
<1>2. ASSUME NEW d \in ds, d.op = "setIsDone"
      PROVE  \E c \in cs : c.op = "setIsDone" /\ c.no = d.no /\ c.stage = d.stage /\ c.heard = d.heard
  BY <1>2 DEF Follow, Same
<1>3. Numbers(ds) \subseteq Numbers(cs)
  <2>1. ASSUME NEW no \in Numbers(ds) PROVE no \in Numbers(cs)
    <3>1. PICK d \in ds : d.op = "setIsDone" /\ no = d.no
      BY DEF Numbers
    <3>2. PICK c \in cs : c.op = "setIsDone" /\ c.no = d.no
      BY <1>2, <3>1
    <3> QED
      BY <3>1, <3>2 DEF Numbers
  <2> QED
    BY <2>1
<1>4. Successes(ds) \subseteq Successes(cs)
  <2>1. ASSUME NEW no \in Successes(ds) PROVE no \in Successes(cs)
    <3>1. PICK d \in ds : d.op = "setIsDone" /\ d.stage = "done" /\ d.heard /\ no = d.no
      BY DEF Successes
    <3>2. PICK c \in cs : c.op = "setIsDone" /\ c.no = d.no /\ c.stage = d.stage /\ c.heard = d.heard
      BY <1>2, <3>1
    <3> QED
      BY <3>1, <3>2 DEF Successes
  <2> QED
    BY <2>1
<1> QED
  BY <1>1, <1>3, <1>4 DEF MarkersFrom

\* Calls that mark rows have numbers, and only those that have succeeded have successes.
LEMMA NumbersTyped ==
    ASSUME NEW cs, CallsTyped(cs)
    PROVE  Numbers(cs) \subseteq Nat /\ Successes(cs) \subseteq Numbers(cs)
BY DEF CallsTyped, Calls, Numbers, Successes

LEMMA KeepsNumbered ==
    ASSUME StoreTyped, ListTyped, Numbered, Numbers(calls') \subseteq Numbers(calls),
           budget'.calls <= budget.calls, budget' \in Budgets, list'.swiping \subseteq list.swiping
    PROVE  Numbered'
<1>1. Numbers(calls) \subseteq Nat /\ budget.calls \in Nat /\ budget'.calls \in Nat
  BY NumbersTyped DEF StoreTyped, Budgets
<1>2. \A no \in Numbers(calls') : no > budget'.calls
  BY <1>1 DEF Numbered
<1>3. \A s \in list.swiping : s.no \in Nat
  BY PageFields DEF ListTyped, Swipes
<1>4. \A s \in list'.swiping : s.no > budget'.calls /\ s.no \notin Numbers(calls')
  BY <1>1, <1>3 DEF Numbered
<1>5. \A s, t \in list'.swiping : s.no = t.no => s = t
  BY DEF Numbered
<1> QED
  BY <1>2, <1>4, <1>5 DEF Numbered

LEMMA KeepsAdded ==
    ASSUME AllAdded, StaysAdded(calls', calls),
           \A k \in DOMAIN list'.adding : \E i \in DOMAIN list.adding : list'.adding[k] = list.adding[i]
    PROVE  AllAdded'
<1>1. ASSUME NEW k \in DOMAIN list'.adding
      PROVE  list'.adding[k].mark = "adding"
             /\ \E d \in calls' : d.op = "create" /\ d.heard /\ list'.adding[k].id \in d.ids
  <2>1. PICK i \in DOMAIN list.adding : list'.adding[k] = list.adding[i]
    OBVIOUS
  <2>2. AddedBy(list.adding[i])
    BY DEF AllAdded
  <2>3. PICK c \in calls : c.op = "create" /\ c.heard /\ list.adding[i].id \in c.ids
    BY <2>2 DEF AddedBy
  <2>4. PICK d \in calls' : Same(d, c) /\ d.heard
    BY <2>3 DEF StaysAdded
  <2> QED
    BY <2>1, <2>2, <2>3, <2>4 DEF AddedBy, Same
<1> QED
  BY <1>1 DEF AllAdded, AddedBy

\* Rows of the page are marked, or as they were.
RowsMarked ==
    /\ \A k \in DOMAIN list'.all :
          \/ list'.all[k].mark \in {"moving", "moved"}
          \/ list'.all[k].mark = "changing" /\ list'.all[k].no \notin Successes(calls)
          \/ \E i \in DOMAIN list.all : list'.all[k] = list.all[i]
    /\ list'.all = list.all \/ \E k \in DOMAIN list'.all : list'.all[k].mark # "stored"

LEMMA KeepsTrue ==
    ASSUME StoreTyped, RowsTrue, list'.alive = list.alive, list'.seen = list.seen, items' = items,
           Successes(calls') \subseteq Successes(calls), RowsMarked
    PROVE  RowsTrue'
<1>1. CASE ~UpToDate
  BY <1>1 DEF RowsTrue, UpToDate
<1>2. CASE UpToDate
  <2>2. /\ \A k \in DOMAIN list.all : list.all[k].mark # "changed"
        /\ \A k \in DOMAIN list.all : list.all[k].mark = "changing" => list.all[k].no \notin Successes(calls)
        /\ (\A k \in DOMAIN list.all : list.all[k].mark = "stored") => Briefs(list.all) = Current
    BY <1>2 DEF RowsTrue
  <2>3. ASSUME NEW k \in DOMAIN list'.all
        PROVE  /\ list'.all[k].mark # "changed"
               /\ list'.all[k].mark = "changing" => list'.all[k].no \notin Successes(calls')
    BY <2>2 DEF RowsMarked
  <2>4. ASSUME \A k \in DOMAIN list'.all : list'.all[k].mark = "stored"
        PROVE  Briefs(list'.all) = Last(items')
    <3>1. list'.all = list.all
      BY <2>4 DEF RowsMarked
    <3>2. Briefs(list.all) = Current
      BY <2>2, <2>4, <3>1
    <3> QED
      BY <3>1, <3>2 DEF Current
  <2> QED
    BY <2>3, <2>4 DEF RowsTrue, Current
<1> QED
  BY <1>1, <1>2

\* A page that has no rows, or not the last version.
LEMMA NotUpToDate ==
    ASSUME ~ (list'.alive /\ list'.seen = Len(items'))
    PROVE  RowsTrue'
BY DEF RowsTrue, UpToDate

LEMMA KeepsShown ==
    ASSUME ShownTrue, list'.alive = list.alive,
           \/ ~list.alive
           \/ list'.shown = Filtered(list')
           \/ SomeLeft(list'.all) \/ SomeLeft(list'.shown)
           \/ /\ list'.shown = list.shown /\ list'.all = list.all /\ list'.adding = list.adding
              /\ list'.filter = list.filter
    PROVE  ShownTrue'
<1>1. CASE ~list.alive \/ list'.shown = Filtered(list') \/ SomeLeft(list'.all) \/ SomeLeft(list'.shown)
  BY <1>1 DEF ShownTrue
<1>2. CASE list'.shown = list.shown /\ list'.all = list.all /\ list'.adding = list.adding /\ list'.filter = list.filter
  <2>1. Filtered(list') = Filtered(list)
    BY <1>2 DEF Filtered
  <2> QED
    BY <1>2, <2>1 DEF ShownTrue
<1> QED
  BY <1>1, <1>2

\* A step after which the page is alive as before, with the same version of the list.
LEMMA KeepsList ==
    ASSUME StoreTyped, ListInv, list'.alive = list.alive, list'.seen = list.seen, items' = items,
           AllAdded', Numbered', Successes(calls') \subseteq Successes(calls),
           RowsMarked \/ ~UpToDate,
           \/ ~list.alive
           \/ list'.shown = Filtered(list')
           \/ SomeLeft(list'.all) \/ SomeLeft(list'.shown)
           \/ /\ list'.shown = list.shown /\ list'.all = list.all /\ list'.adding = list.adding
              /\ list'.filter = list.filter
    PROVE  ListInv'
<1>1. AllAdded /\ Numbered /\ RowsTrue /\ ShownTrue
  BY DEF ListInv
<1>2. RowsTrue'
  <2>1. CASE RowsMarked
    BY <1>1, <2>1, KeepsTrue
  <2>2. CASE ~UpToDate
    BY <2>2, NotUpToDate DEF UpToDate
  <2> QED
    BY <2>1, <2>2
<1>3. ShownTrue'
  BY <1>1, KeepsShown
<1> QED
  BY <1>2, <1>3 DEF ListInv

LEMMA SameRowsMarked == ASSUME list'.all = list.all PROVE RowsMarked
BY DEF RowsMarked

LEMMA QuietList ==
    ASSUME StoreTyped, ListTyped, ListInv, Quietly
    PROVE  ListInv'
<1>1. /\ items' = items /\ budget' \in Budgets /\ budget'.calls <= budget.calls
      /\ list'.alive = list.alive /\ list'.seen = list.seen
         /\ list'.swiping \subseteq list.swiping /\ list'.adding = list.adding
      /\ list'.filter = list.filter /\ list'.all = list.all /\ list'.shown = list.shown /\ CallsQuiet
  BY DEF Quietly, Keeps, Swiped
<1>2. StaysAdded(calls', calls) /\ MarkersFrom(calls', calls)
  BY <1>1, QuietMarkers
<1>3. AllAdded'
  BY <1>1, <1>2, KeepsAdded DEF ListInv
<1>4. RowsMarked
  BY <1>1, SameRowsMarked
<1>5. Numbered' /\ Successes(calls') \subseteq Successes(calls)
  BY <1>1, <1>2, KeepsNumbered DEF MarkersFrom, ListInv
<1> QED
  BY <1>1, <1>3, <1>4, <1>5, KeepsList

\* The list has a version that the page has not.
LEMMA ItemsList ==
    ASSUME StoreTyped, ListTyped, ListInv, UNCHANGED list, budget' \in Budgets, budget'.calls <= budget.calls,
           NEW rows \in Seq(Items), items' = Append(items, rows), StaysAdded(calls', calls),
           Numbers(calls') \subseteq Numbers(calls)
    PROVE  ListInv'
<1>1. AllAdded /\ Numbered /\ ShownTrue
  BY DEF ListInv
<1>2. AllAdded'
  BY <1>1, KeepsAdded
<1>3. Numbered'
  BY <1>1, KeepsNumbered
<1>4. ShownTrue'
  BY <1>1, KeepsShown
<1>5. list.seen \in Nat /\ list.seen <= Len(items) /\ Len(items) \in Nat /\ Len(items') = Len(items) + 1
  BY PageFields DEF ListTyped, StoreTyped
<1>6. list.seen # Len(items')
  BY <1>5
<1>7. RowsTrue'
  BY <1>6, NotUpToDate
<1> QED
  BY <1>2, <1>3, <1>4, <1>7 DEF ListInv

\* A version of the list takes the place of the rows.
LEMMA SetListList ==
    ASSUME StoreTyped, ListTyped, AddingInv, ListInv, NEW v, SetList(v)
    PROVE  ListInv'
<1>1. PICK pg \in ListPages :
         /\ Anew(pg, calls) /\ list.alive /\ v \in 1 .. Len(items) /\ pg.seen = v
         /\ pg.alive /\ pg.adding = << >> /\ pg.all = Stored(items[v]) /\ pg.swiping = list.swiping
  BY SetListAdding
<1>2. /\ list' \in ListPages /\ list'.shown = Filtered(list') /\ Follow(calls', calls)
      /\ list'.swiping \subseteq list.swiping
      /\ list'.alive /\ list'.adding = << >> /\ list'.all = Stored(items[v]) /\ list'.seen = v
  BY <1>1 DEF Anew, AsPage
<1>3. items \in Seq(Seq(Items)) /\ items' = items /\ budget' = budget /\ budget \in Budgets /\ budget.calls \in Nat
  BY DEF StoreTyped, SetList, Budgets
<1>4. Numbers(calls') \subseteq Numbers(calls)
  BY <1>2, FollowMarkers DEF MarkersFrom
<1>5. Numbered'
  BY <1>2, <1>3, <1>4, KeepsNumbered DEF ListInv
<1>6. AllAdded'
  <2>1. DOMAIN list'.adding = {}
    BY <1>2
  <2> QED
    BY <2>1 DEF AllAdded
<1>7. ShownTrue'
  BY <1>2 DEF ShownTrue
<1>8. PICK rows \in Seq(Items) : rows = items[v]
  BY <1>1, <1>3
<1>9. /\ DOMAIN list'.all = DOMAIN rows /\ list'.all = Stored(rows)
      /\ \A k \in DOMAIN rows : list'.all[k].id = rows[k].id /\ list'.all[k].done = rows[k].done
                                /\ list'.all[k].mark = "stored"
  BY <1>2, <1>8, StoredRows
<1>10. ASSUME UpToDate' PROVE Briefs(list'.all) = Last(items')
  <2>1. v = Len(items) /\ Last(items') = rows
    BY <1>2, <1>3, <1>8, <1>10 DEF UpToDate, Last
  <2>2. ASSUME NEW k \in DOMAIN rows PROVE rows[k] = [id |-> rows[k].id, done |-> rows[k].done]
    <3>1. rows[k] \in Items
      BY <1>8
    <3> QED
      BY <3>1 DEF Items
  <2>3. Briefs(list'.all) = [k \in DOMAIN rows |-> [id |-> rows[k].id, done |-> rows[k].done]]
    BY <1>9 DEF Briefs
  <2>4. rows = [k \in DOMAIN rows |-> rows[k]]
    BY <1>8
  <2>5. Briefs(list'.all) = rows
    BY <2>2, <2>3, <2>4
  <2> QED
    BY <2>1, <2>5
<1>11. RowsTrue'
  BY <1>9, <1>10 DEF RowsTrue, Current
<1> QED
  BY <1>5, <1>6, <1>7, <1>11 DEF ListInv

\* A call that marks no row is made.
LEMMA OneMore ==
    ASSUME NEW ds, NEW c, c.op # "setIsDone", Follow(ds, calls \cup {c})
    PROVE  StaysAdded(ds, calls) /\ MarkersFrom(ds, calls)
<1>1. StaysAdded(ds, calls \cup {c}) /\ MarkersFrom(ds, calls \cup {c})
  BY FollowMarkers
<1>2. StaysAdded(ds, calls)
  BY <1>1 DEF StaysAdded
<1>3. Numbers(calls \cup {c}) \subseteq Numbers(calls) /\ Successes(calls \cup {c}) \subseteq Successes(calls)
  BY DEF Numbers, Successes
<1> QED
  BY <1>1, <1>2, <1>3 DEF MarkersFrom

\* One is over.
LEMMA OneLess ==
    ASSUME NEW ds, NEW c, Follow(ds, calls \ {c})
    PROVE  /\ MarkersFrom(ds, calls)
           /\ \A d \in calls : d # c /\ d.op = "create" /\ d.heard => d \in ds
           /\ c.op # "create" => StaysAdded(ds, calls)
<1>1. MarkersFrom(ds, calls \ {c})
  BY FollowMarkers
<1>2. Numbers(calls \ {c}) \subseteq Numbers(calls) /\ Successes(calls \ {c}) \subseteq Successes(calls)
  BY DEF Numbers, Successes
<1>3. \A d \in calls : d # c /\ d.op = "create" /\ d.heard => d \in ds
  BY DEF Follow
<1>4. c.op # "create" => StaysAdded(ds, calls)
  BY <1>3, SameSelf DEF StaysAdded
<1> QED
  BY <1>1, <1>2, <1>3, <1>4 DEF MarkersFrom

\* What is being added still is so by other calls than the one that is over.
LEMMA StillAdded ==
    ASSUME ListTyped, AddingInv, AllAdded, NEW c, StayAdding(list'.adding, list.adding, c), Follow(calls', calls \ {c})
    PROVE  AllAdded'
<1>1. list.adding \in Seq(Rows) /\ \A j, k \in DOMAIN list.adding : list.adding[j].id = list.adding[k].id => j = k
  BY PageFields DEF ListTyped, AddingInv, Apart
<1>2. \A k \in DOMAIN list'.adding :
         \E i \in DOMAIN list.adding : list'.adding[k] = list.adding[i] /\ list.adding[i].id \notin c.ids
  BY <1>1, StayApart
<1>3. ASSUME NEW k \in DOMAIN list'.adding
      PROVE  list'.adding[k].mark = "adding"
             /\ \E d \in calls' : d.op = "create" /\ d.heard /\ list'.adding[k].id \in d.ids
  <2>1. PICK i \in DOMAIN list.adding : list'.adding[k] = list.adding[i] /\ list.adding[i].id \notin c.ids
    BY <1>2
  <2>2. AddedBy(list.adding[i])
    BY DEF AllAdded
  <2>3. PICK d \in calls : d.op = "create" /\ d.heard /\ list.adding[i].id \in d.ids
    BY <2>2 DEF AddedBy
  <2>4. d \in calls'
    BY <2>1, <2>3, OneLess
  <2> QED
    BY <2>1, <2>2, <2>3, <2>4 DEF AddedBy
<1> QED
  BY <1>3 DEF AllAdded, AddedBy

LEMMA AddedList ==
    ASSUME StoreTyped, ListTyped, AddingInv, ListInv, NEW c, Added(c)
    PROVE  ListInv'
<1>1. PICK pg \in ListPages :
        /\ Anew(pg, calls \ {c}) /\ pg.alive = list.alive /\ pg.all = list.all /\ pg.seen = list.seen
           /\ pg.swiping \subseteq list.swiping
        /\ StayAdding(pg.adding, list.adding, c)
  BY AddedDoes
<1>2. /\ list'.shown = Filtered(list') /\ Follow(calls', calls \ {c}) /\ list'.alive = list.alive
      /\ list'.all = list.all /\ list'.seen = list.seen
         /\ list'.swiping \subseteq list.swiping /\ StayAdding(list'.adding, list.adding, c)
  BY <1>1 DEF Anew, AsPage
<1>3. items' = items /\ budget' = budget /\ budget \in Budgets /\ budget.calls \in Nat
  BY DEF StoreTyped, Added, Budgets
<1>4. AllAdded'
  BY <1>2, StillAdded DEF ListInv
<1>5. Numbers(calls') \subseteq Numbers(calls) /\ Successes(calls') \subseteq Successes(calls)
  BY <1>2, OneLess DEF MarkersFrom
<1>6. Numbered'
  BY <1>2, <1>3, <1>5, KeepsNumbered DEF ListInv
<1>7. RowsMarked
  BY <1>2, SameRowsMarked
<1> QED
  BY <1>2, <1>3, <1>4, <1>5, <1>6, <1>7, KeepsList

LEMMA FailedToAddList ==
    ASSUME StoreTyped, ListTyped, AddingInv, ListInv, NEW c, FailedToAdd(c)
    PROVE  ListInv'
<1>1. /\ calls' = calls \ {c} /\ list'.alive = list.alive /\ list'.filter = list.filter /\ list'.all = list.all
      /\ list'.shown = list.shown /\ list'.seen = list.seen /\ list'.swiping \subseteq list.swiping
      /\ StayAdding(list'.adding, list.adding, c)
  BY FailedToAddDoes
<1>2. Follow(calls', calls \ {c})
  BY <1>1, FollowSelf
<1>3. items' = items /\ budget' = budget /\ budget \in Budgets /\ budget.calls \in Nat
  BY DEF StoreTyped, FailedToAdd, Budgets
<1>4. AllAdded'
  BY <1>1, <1>2, StillAdded DEF ListInv
<1>5. Numbers(calls') \subseteq Numbers(calls) /\ Successes(calls') \subseteq Successes(calls)
  BY <1>2, OneLess DEF MarkersFrom
<1>6. Numbered'
  BY <1>1, <1>3, <1>5, KeepsNumbered DEF ListInv
<1>7. RowsMarked
  BY <1>1, SameRowsMarked
<1>8. list \in ListPages /\ list.all \in Seq(Rows) /\ list.adding \in Seq(Rows)
  BY PageFields DEF ListTyped
<1>9. CASE list.adding = << >>
  <2>1. PICK places : list'.adding = RowsAt(list.adding, places)
    BY <1>1 DEF StayAdding
  <2>2. list'.adding = list.adding
    BY <1>9, <2>1, RowsAtNone
  <2> QED
    BY <1>1, <1>3, <1>4, <1>5, <1>6, <1>7, <2>2, KeepsList
<1>10. CASE list.adding # << >> /\ list.alive
  <2>1. 1 \in DOMAIN list.adding
    BY <1>8, <1>10
  <2>2. list.adding[1].mark = "adding"
    BY <2>1 DEF ListInv, AllAdded, AddedBy
  <2>3. PICK passing : passing = Passing(list.filter, list.all)
    OBVIOUS
  <2>4. passing \in Seq(Rows)
    BY <1>8, <2>3, PassingRows
  <2>5. PICK filtered : filtered = passing \o list.adding
    OBVIOUS
  <2>6. \A k \in DOMAIN list.adding : Len(passing) + k \in DOMAIN filtered /\ filtered[Len(passing) + k] = list.adding[k]
    BY <1>8, <2>4, <2>5, Joined
  <2>7. SomeLeft(filtered)
    BY <2>1, <2>2, <2>6 DEF SomeLeft, LeftOver
  <2>8. Filtered(list) = filtered
    BY <2>3, <2>5 DEF Filtered
  <2>9. list.shown = filtered \/ SomeLeft(list.shown) \/ SomeLeft(list.all)
    BY <1>10, <2>8 DEF ListInv, ShownTrue
  <2>10. SomeLeft(list'.shown) \/ SomeLeft(list'.all)
    BY <1>1, <2>7, <2>9
  <2> QED
    BY <1>1, <1>3, <1>4, <1>5, <1>6, <1>7, <2>10, KeepsList
<1>11. CASE ~list.alive
  BY <1>1, <1>3, <1>4, <1>5, <1>6, <1>7, <1>11, KeepsList
<1> QED
  BY <1>9, <1>10, <1>11

LEMMA FilterList ==
    ASSUME StoreTyped, ListTyped, ListInv, NEW f \in Filters, Filter(f)
    PROVE  ListInv'
<1>1. PICK pg \in ListPages : /\ Anew(pg, calls) /\ list.alive /\ pg.alive /\ pg.all = list.all
                              /\ pg.adding = list.adding /\ pg.seen = list.seen
                                 /\ pg.swiping \subseteq list.swiping
  BY FilterDoes
<1>2. /\ list'.shown = Filtered(list') /\ Follow(calls', calls) /\ list'.alive = list.alive
      /\ list'.all = list.all /\ list'.seen = list.seen
         /\ list'.swiping \subseteq list.swiping /\ list'.adding = list.adding
  BY <1>1 DEF Anew, AsPage, ListPages
<1>3. items' = items /\ budget' = budget /\ budget \in Budgets /\ budget.calls \in Nat
  BY DEF StoreTyped, Filter, Budgets
<1>4. StaysAdded(calls', calls) /\ MarkersFrom(calls', calls)
  BY <1>2, FollowMarkers
<1>5. AllAdded'
  BY <1>2, <1>4, KeepsAdded DEF ListInv
<1>6. Numbers(calls') \subseteq Numbers(calls) /\ Successes(calls') \subseteq Successes(calls)
  BY <1>4 DEF MarkersFrom
<1>7. Numbered'
  BY <1>2, <1>3, <1>6, KeepsNumbered DEF ListInv
<1>8. RowsMarked
  BY <1>2, SameRowsMarked
<1> QED
  BY <1>2, <1>3, <1>5, <1>6, <1>7, <1>8, KeepsList

\* Rows are changed, or all are as they were.
LEMMA ChangedRows ==
    ASSUME NEW rows \in Seq(Rows), NEW old \in Rows, NEW new \in Rows, NEW changed,
           changed = ItemChanged(rows, old, new)
    PROVE  /\ \A k \in DOMAIN changed : changed[k] = new \/ \E i \in DOMAIN rows : changed[k] = rows[i]
           /\ changed = rows \/ \E k \in DOMAIN changed : changed[k] = new /\ rows[k] = old /\ k \in DOMAIN rows
<1>1. /\ changed \in Seq(Rows) /\ DOMAIN changed = DOMAIN rows /\ Len(changed) = Len(rows)
      /\ \A k \in DOMAIN rows : changed[k] = IF rows[k] = old THEN new ELSE rows[k]
  BY ItemChangedRows
<1>2. CASE \E k \in DOMAIN rows : rows[k] = old
  BY <1>1, <1>2
<1>3. CASE ~ \E k \in DOMAIN rows : rows[k] = old
  <2>1. \A k \in DOMAIN rows : changed[k] = rows[k]
    BY <1>1, <1>3
  <2>2. changed = [k \in DOMAIN rows |-> changed[k]] /\ rows = [k \in DOMAIN rows |-> rows[k]]
    BY <1>1
  <2>3. changed = rows
    BY <2>1, <2>2
  <2> QED
    BY <1>1, <2>3
<1> QED
  BY <1>2, <1>3

LEMMA MarkingList ==
    ASSUME StoreTyped, ListTyped, ListInv, Marking
    PROVE  ListInv'
<1>1. PICK no \in Nat, row \in Rows, new \in Rows, c \in Calls : MarksRow(row, new, c, no) /\ MarkedBy(no)
  BY MarkingDoes
<1>2. /\ Follow(calls', calls \cup {c}) /\ c.op = "setIsDone" /\ c.no = no /\ c.stage = "sent"
      /\ new.mark = "changing" /\ new.no = no
      /\ list'.all = list.all \/ list'.all = ItemChanged(list.all, row, new)
      /\ (list'.all = list.all /\ list'.shown = list.shown) \/ list'.shown = Filtered(list')
      /\ list'.alive = list.alive /\ list'.filter = list.filter /\ list'.adding = list.adding
      /\ list'.seen = list.seen /\ list'.swiping \subseteq list.swiping
  BY <1>1 DEF MarksRow, Keeps, Swiped
<1>3. list.all \in Seq(Rows) /\ \A s \in list.swiping : s.no \in Nat
  BY PageFields DEF ListTyped, Swipes
<1>4. items' = items
  BY MarkingDoes
<1>5. budget.calls \in Nat
  BY DEF StoreTyped, Budgets
<1>6. StaysAdded(calls', calls \cup {c}) /\ MarkersFrom(calls', calls \cup {c})
  BY <1>2, FollowMarkers
<1>7. StaysAdded(calls', calls)
  BY <1>6 DEF StaysAdded
<1>8. AllAdded'
  BY <1>2, <1>7, KeepsAdded DEF ListInv
<1>9. Numbers(calls \cup {c}) = Numbers(calls) \cup {no} /\ Successes(calls \cup {c}) = Successes(calls)
  BY <1>2 DEF Numbers, Successes
<1>10. Successes(calls') \subseteq Successes(calls) /\ Numbers(calls') \subseteq Numbers(calls) \cup {no}
  BY <1>6, <1>9 DEF MarkersFrom
<1>11. Numbers(calls) \subseteq Nat /\ Successes(calls) \subseteq Numbers(calls)
  BY NumbersTyped DEF StoreTyped
<1>12. /\ \A n \in Numbers(calls) : n > budget.calls
       /\ \A s \in list.swiping : s.no > budget.calls /\ s.no \notin Numbers(calls)
       /\ \A s, t \in list.swiping : s.no = t.no => s = t
  BY DEF ListInv, Numbered
<1>13. Numbered' /\ no \notin Numbers(calls)
  <2>1. CASE no = budget.calls /\ budget'.calls = budget.calls - 1
    <3>1. \A n \in Numbers(calls') : n > budget'.calls
      BY <1>5, <1>10, <1>11, <1>12, <2>1
    <3>2. \A s \in list'.swiping : s.no > budget'.calls /\ s.no # no
      BY <1>2, <1>3, <1>5, <1>12, <2>1
    <3>3. no \notin Numbers(calls)
      BY <1>5, <1>12, <2>1
    <3> QED
      BY <1>2, <1>10, <1>12, <3>1, <3>2, <3>3 DEF Numbered
  <2>2. ASSUME budget'.calls = budget.calls, NEW s \in list.swiping, s.no = no, list'.swiping \subseteq list.swiping \ {s}
        PROVE  Numbered' /\ no \notin Numbers(calls)
    <3>1. \A n \in Numbers(calls') : n > budget'.calls
      BY <1>10, <1>12, <2>2
    <3>2. \A r \in list'.swiping : r.no > budget'.calls /\ r.no # no
      BY <1>12, <2>2
    <3> QED
      BY <1>2, <1>10, <1>12, <2>2, <3>1, <3>2 DEF Numbered
  <2> QED
    BY <1>1, <2>1, <2>2 DEF MarkedBy
<1>14. RowsMarked
  <2>1. CASE list'.all = list.all
    BY <2>1, SameRowsMarked
  <2>2. CASE list'.all = ItemChanged(list.all, row, new)
    <3>1. /\ \A i \in DOMAIN list'.all : list'.all[i] = new \/ \E j \in DOMAIN list.all : list'.all[i] = list.all[j]
          /\ list'.all = list.all \/ \E i \in DOMAIN list'.all : list'.all[i] = new /\ list.all[i] = row /\ i \in DOMAIN list.all
      BY <1>3, <2>2, ChangedRows
    <3> QED
      BY <1>2, <1>11, <1>13, <3>1 DEF RowsMarked
  <2> QED
    BY <1>2, <2>1, <2>2
<1> QED
  BY <1>2, <1>4, <1>8, <1>10, <1>13, <1>14, KeepsList

LEMMA SwipeList ==
    ASSUME StoreTyped, ListTyped, ListInv, NEW k \in DOMAIN list.shown, NEW done \in BOOLEAN, Swipe(k, done)
    PROVE  ListInv'
<1>1. /\ calls' = calls /\ budget.calls \in Nat /\ list'.all = list.all /\ list'.shown = list.shown
      /\ list'.alive = list.alive /\ list'.filter = list.filter /\ list'.adding = list.adding
      /\ list'.seen = list.seen
  BY SwipeDoes DEF Keeps
<1>2. PICK s \in Swipes : s.no = budget.calls /\ list'.swiping = list.swiping \cup {s}
  BY SwipeDoes
<1>3. items' = items /\ MayCall /\ budget' = Spent
  BY DEF Swipe
<1>4. budget'.calls = budget.calls - 1
  BY <1>3, SpentTyped DEF StoreTyped
<1>5. (\A t \in list.swiping : t.no \in Nat) /\ Numbers(calls) \subseteq Nat
  BY PageFields, NumbersTyped DEF ListTyped, Swipes, StoreTyped
<1>6. /\ \A n \in Numbers(calls) : n > budget.calls
      /\ \A t \in list.swiping : t.no > budget.calls /\ t.no \notin Numbers(calls)
      /\ \A r, t \in list.swiping : r.no = t.no => r = t
  BY DEF ListInv, Numbered
<1>7. \A n \in Numbers(calls') : n > budget'.calls
  BY <1>1, <1>4, <1>5, <1>6
<1>8. \A t \in list'.swiping : t.no > budget'.calls /\ t.no \notin Numbers(calls')
  BY <1>1, <1>2, <1>4, <1>5, <1>6
<1>9. \A r, t \in list'.swiping : r.no = t.no => r = t
  BY <1>1, <1>2, <1>5, <1>6
<1>10. Numbered'
  BY <1>7, <1>8, <1>9 DEF Numbered
<1>11. StaysAdded(calls', calls)
  BY <1>1, SameSelf DEF StaysAdded
<1>12. AllAdded'
  BY <1>1, <1>11, KeepsAdded DEF ListInv
<1>13. RowsMarked
  BY <1>1, SameRowsMarked
<1> QED
  BY <1>1, <1>3, <1>10, <1>12, <1>13, KeepsList

LEMMA IsDoneSetList ==
    ASSUME StoreTyped, ListTyped, ListInv, NEW c, IsDoneSet(c)
    PROVE  ListInv'
<1>1. /\ Follow(calls', calls \ {c}) /\ list'.alive = list.alive /\ list'.filter = list.filter
      /\ list'.adding = list.adding /\ list'.seen = list.seen
         /\ list'.swiping \subseteq list.swiping
      /\ list' = list \/ \E old \in Rows, new \in Rows : MarkedRow(old, new, c)
  BY IsDoneSetDoes DEF Keeps, Swiped
<1>2. c \in calls /\ c.op = "setIsDone" /\ c.stage = "done" /\ c.heard /\ items' = items /\ budget' = budget
      /\ budget \in Budgets /\ budget.calls \in Nat
  BY DEF IsDoneSet, Answered, StoreTyped, Budgets
<1>3. list.all \in Seq(Rows)
  BY PageFields DEF ListTyped
<1>4. StaysAdded(calls', calls) /\ MarkersFrom(calls', calls)
  BY <1>1, <1>2, OneLess
<1>5. AllAdded'
  BY <1>1, <1>4, KeepsAdded DEF ListInv
<1>6. Numbers(calls') \subseteq Numbers(calls) /\ Successes(calls') \subseteq Successes(calls)
  BY <1>4 DEF MarkersFrom
<1>7. Numbered'
  BY <1>1, <1>2, <1>6, KeepsNumbered DEF ListInv
<1>8. c.no \in Successes(calls)
  BY <1>2 DEF Successes
<1>9. CASE list' = list
  <2>1. RowsMarked
    BY <1>9, SameRowsMarked
  <2>2. list'.shown = list.shown /\ list'.all = list.all
    BY <1>9
  <2> QED
    BY <1>1, <1>2, <1>5, <1>6, <1>7, <2>1, <2>2, KeepsList
<1>10. ASSUME NEW old \in Rows, NEW new \in Rows, MarkedRow(old, new, c) PROVE ListInv'
  <2>1. old.mark = "changing" /\ old.no = c.no /\ list'.all = ItemChanged(list.all, old, new) /\ list'.shown = Filtered(list')
    BY <1>10 DEF MarkedRow
  <2>2. UpToDate => \A k \in DOMAIN list.all : list.all[k] # old
    BY <1>8, <2>1 DEF ListInv, RowsTrue
  <2>3. list'.all = list.all \/ \E k \in DOMAIN list'.all : list'.all[k] = new /\ list.all[k] = old /\ k \in DOMAIN list.all
    BY <1>3, <2>1, ChangedRows
  <2>4. RowsMarked \/ ~UpToDate
    BY <2>2, <2>3, SameRowsMarked
  <2> QED
    BY <1>1, <1>2, <1>5, <1>6, <1>7, <2>1, <2>4, KeepsList
<1> QED
  BY <1>1, <1>9, <1>10

LEMMA ReorderList ==
    ASSUME StoreTyped, ListTyped, ListInv, NEW from, NEW to, Reorder(from, to)
    PROVE  ListInv'
<1>1. PICK c \in Calls : MovesRow(from, c)
  BY ReorderDoes
<1>2. /\ Follow(calls', calls \cup {c}) /\ c.op = "reorder" /\ list'.shown = Filtered(list')
      /\ \A k \in DOMAIN list'.all : list'.all[k].mark = "moving" \/ \E i \in DOMAIN list.all : list'.all[k] = list.all[i]
      /\ \E k \in DOMAIN list'.all : list'.all[k].mark = "moving"
      /\ list'.alive = list.alive /\ list'.adding = list.adding /\ list'.seen = list.seen
         /\ list'.swiping \subseteq list.swiping
  BY <1>1 DEF MovesRow, Keeps, Swiped
<1>3. items' = items /\ MayCall /\ budget' = Spent
  BY DEF Reorder
<1>4. budget.calls \in Nat /\ budget' \in Budgets /\ budget'.calls = budget.calls - 1
  BY <1>3, SpentTyped DEF StoreTyped, Budgets
<1>5. StaysAdded(calls', calls) /\ MarkersFrom(calls', calls)
  BY <1>2, OneMore
<1>6. AllAdded'
  BY <1>2, <1>5, KeepsAdded DEF ListInv
<1>7. Numbers(calls') \subseteq Numbers(calls) /\ Successes(calls') \subseteq Successes(calls)
  BY <1>5 DEF MarkersFrom
<1>8. budget'.calls <= budget.calls
  BY <1>4
<1>9. Numbered'
  BY <1>2, <1>4, <1>7, <1>8, KeepsNumbered DEF ListInv
<1>10. RowsMarked
  BY <1>2 DEF RowsMarked
<1> QED
  BY <1>2, <1>3, <1>6, <1>7, <1>9, <1>10, KeepsList

LEMMA ReorderedList ==
    ASSUME StoreTyped, ListTyped, ListInv, NEW c, Reordered(c)
    PROVE  ListInv'
<1>1. /\ calls' = calls \ {c} /\ c.op = "reorder"
      /\ list'.alive = list.alive /\ list'.adding = list.adding /\ list'.seen = list.seen
         /\ list'.swiping \subseteq list.swiping
      /\ \A k \in DOMAIN list'.all : (list'.all[k].id \in c.ids /\ list'.all[k].mark = "moved")
                                     \/ (k \in DOMAIN list.all /\ list'.all[k] = list.all[k])
      /\ \E k \in DOMAIN list'.all : list'.all[k].mark = "moved"
  BY ReorderedDoes DEF Keeps, Swiped
<1>2. items' = items /\ budget' = budget /\ budget \in Budgets /\ budget.calls \in Nat
  BY DEF StoreTyped, Reordered, Budgets
<1>3. Follow(calls', calls \ {c})
  BY <1>1, FollowSelf
<1>4. StaysAdded(calls', calls) /\ MarkersFrom(calls', calls)
  BY <1>1, <1>3, OneLess
<1>5. AllAdded'
  BY <1>1, <1>4, KeepsAdded DEF ListInv
<1>6. Numbers(calls') \subseteq Numbers(calls) /\ Successes(calls') \subseteq Successes(calls)
  BY <1>4 DEF MarkersFrom
<1>7. Numbered'
  <2>1. list'.swiping \subseteq list.swiping /\ budget' \in Budgets /\ budget'.calls <= budget.calls
    BY <1>1, <1>2
  <2> QED
    BY <1>6, <2>1, KeepsNumbered DEF ListInv
<1>8. RowsMarked
  <2>1. \A k \in DOMAIN list'.all : list'.all[k].mark = "moved" \/ \E i \in DOMAIN list.all : list'.all[k] = list.all[i]
    BY <1>1
  <2>2. \E k \in DOMAIN list'.all : list'.all[k].mark # "stored"
    BY <1>1
  <2> QED
    BY <2>1, <2>2 DEF RowsMarked
<1>9. SomeLeft(list'.all)
  BY <1>1 DEF SomeLeft, LeftOver
<1> QED
  BY <1>1, <1>2, <1>5, <1>6, <1>7, <1>8, <1>9, KeepsList

\* Items are added to the rows shown, each by a call.
LEMMA CreateListItemsList ==
    ASSUME StoreTyped, ListTyped, ListInv, NEW ids \in Seq(ItemIds), CreateListItems(ids), items' = items,
           budget' \in Budgets, budget'.calls <= budget.calls
    PROVE  ListInv'
<1>1. PICK pg \in ListPages, cs \in SUBSET Calls, rows \in Seq(Rows) :
         /\ Anew(pg, cs) /\ AddingRows(rows, ids) /\ AddingCalls(cs, ids) /\ pg.alive = list.alive
         /\ pg.all = list.all /\ pg.adding = list.adding \o rows /\ pg.seen = list.seen
            /\ pg.swiping \subseteq list.swiping
  BY CreateListItemsDoes
<1>2. /\ list'.shown = Filtered(list') /\ Follow(calls', cs) /\ list'.alive = list.alive
      /\ list'.all = list.all /\ list'.adding = list.adding \o rows /\ list'.seen = list.seen
         /\ list'.swiping \subseteq list.swiping
  BY <1>1 DEF Anew, AsPage
<1>3. /\ calls \subseteq cs
      /\ \A c \in cs : c \in calls \/ (c.op = "create" /\ c.heard /\ \E k \in DOMAIN ids : c.ids = {ids[k]})
      /\ \A k \in DOMAIN ids : \E c \in cs : c.op = "create" /\ c.heard /\ c.ids = {ids[k]}
  BY <1>1 DEF AddingCalls, NewlyAdded
<1>4. StaysAdded(calls', cs) /\ MarkersFrom(calls', cs)
  BY <1>2, FollowMarkers
<1>5. Numbers(cs) \subseteq Numbers(calls) /\ Successes(cs) \subseteq Successes(calls)
  BY <1>3 DEF Numbers, Successes
<1>6. Numbers(calls') \subseteq Numbers(calls) /\ Successes(calls') \subseteq Successes(calls)
  BY <1>4, <1>5 DEF MarkersFrom
<1>7. Numbered'
  BY <1>2, <1>6, KeepsNumbered DEF ListInv
<1>8. list.adding \in Seq(Rows) /\ ids \in Seq(ItemIds) /\ DOMAIN ids = 1 .. Len(ids) /\ DOMAIN rows = 1 .. Len(rows)
  BY PageFields DEF ListTyped
<1>9. ASSUME NEW row, row.mark = "adding", \E c \in cs : c.op = "create" /\ c.heard /\ row.id \in c.ids
      PROVE  AddedBy(row)'
  <2>1. PICK c \in cs : c.op = "create" /\ c.heard /\ row.id \in c.ids
    BY <1>9
  <2>2. PICK d \in calls' : Same(d, c) /\ d.heard
    BY <1>4, <2>1 DEF StaysAdded
  <2> QED
    BY <1>9, <2>1, <2>2 DEF AddedBy, Same
<1>10. \A k \in DOMAIN list.adding : \E row : row = list.adding[k] /\ AddedBy(row)'
  <2>1. ASSUME NEW k \in DOMAIN list.adding PROVE \E row : row = list.adding[k] /\ AddedBy(row)'
    <3>1. PICK row : row = list.adding[k]
      OBVIOUS
    <3>2. AddedBy(row)
      BY <3>1 DEF ListInv, AllAdded
    <3>3. row.mark = "adding" /\ \E c \in cs : c.op = "create" /\ c.heard /\ row.id \in c.ids
      BY <1>3, <3>2 DEF AddedBy
    <3>4. AddedBy(row)'
      BY <1>9, <3>3
    <3> QED
      BY <3>1, <3>4
  <2> QED
    BY <2>1
<1>11. \A k \in DOMAIN rows : \E row : row = rows[k] /\ AddedBy(row)'
  <2>1. ASSUME NEW k \in DOMAIN rows PROVE \E row : row = rows[k] /\ AddedBy(row)'
    <3>1. PICK row : row = rows[k]
      OBVIOUS
    <3>2. k \in DOMAIN ids /\ AddingRow(row, ids[k])
      BY <1>1, <1>8, <3>1 DEF AddingRows
    <3>3. row.mark = "adding" /\ \E c \in cs : c.op = "create" /\ c.heard /\ row.id \in c.ids
      BY <1>3, <3>2 DEF AddingRow
    <3>4. AddedBy(row)'
      BY <1>9, <3>3
    <3> QED
      BY <3>1, <3>4
  <2> QED
    BY <2>1
<1>12. PICK adding : adding = list.adding \o rows
  OBVIOUS
<1>13. /\ \A k \in DOMAIN list.adding : k \in DOMAIN adding /\ adding[k] = list.adding[k]
       /\ \A k \in DOMAIN adding : k \in DOMAIN list.adding
                                   \/ (k - Len(list.adding) \in DOMAIN rows /\ adding[k] = rows[k - Len(list.adding)])
  BY <1>8, <1>12, Joined
<1>14. ASSUME NEW k \in DOMAIN adding PROVE \E row : row = adding[k] /\ AddedBy(row)'
  <2>1. CASE k \in DOMAIN list.adding
    BY <1>10, <1>13, <2>1
  <2>2. CASE k - Len(list.adding) \in DOMAIN rows /\ adding[k] = rows[k - Len(list.adding)]
    BY <1>11, <2>2
  <2> QED
    BY <1>13, <2>1, <2>2
<1>15. AllAdded'
  <2>1. list'.adding = adding
    BY <1>2, <1>12
  <2>2. ASSUME NEW k \in DOMAIN list'.adding
        PROVE  list'.adding[k].mark = "adding"
               /\ \E d \in calls' : d.op = "create" /\ d.heard /\ list'.adding[k].id \in d.ids
    <3>1. PICK row : row = adding[k] /\ AddedBy(row)'
      BY <1>14, <2>1
    <3> QED
      BY <2>1, <3>1 DEF AddedBy
  <2> QED
    BY <2>2 DEF AllAdded, AddedBy
<1>16. RowsMarked
  BY <1>2, SameRowsMarked
<1> QED
  BY <1>2, <1>6, <1>7, <1>15, <1>16, KeepsList

LEMMA AddList ==
    ASSUME StoreTyped, ListTyped, ListInv, Add
    PROVE  ListInv'
<1>1. /\ items' = items /\ budget.ids \in Nat \ {0} /\ budget' \in Budgets /\ budget'.calls = budget.calls - 1
      /\ emojis = "loaded" => CreateListItems(<<budget.ids>>)
  BY AddDoes
<1>2. budget.calls \in Nat /\ budget'.calls <= budget.calls
  BY <1>1 DEF StoreTyped, Budgets
<1>3. CASE emojis = "loaded"
  <2>1. PICK ids : ids = <<budget.ids>>
    OBVIOUS
  <2>2. ids \in Seq(ItemIds)
    BY <1>1, <2>1 DEF ItemIds
  <2>3. CreateListItems(ids)
    BY <1>1, <1>3, <2>1
  <2> QED
    BY <1>1, <1>2, <2>2, <2>3, CreateListItemsList
<1>4. CASE emojis # "loaded"
  <2>1. /\ calls' = calls /\ list'.alive = list.alive /\ list'.filter = list.filter /\ list'.adding = list.adding
        /\ list'.all = list.all /\ list'.shown = list.shown /\ list'.seen = list.seen
           /\ list'.swiping \subseteq list.swiping
    BY <1>4, AddWaitsDoes
  <2>2. StaysAdded(calls', calls) /\ Numbers(calls') \subseteq Numbers(calls) /\ Successes(calls') \subseteq Successes(calls)
    BY <2>1, SameSelf DEF StaysAdded
  <2>3. AllAdded'
    BY <2>1, <2>2, KeepsAdded DEF ListInv
  <2>4. Numbered'
    BY <1>1, <1>2, <2>1, <2>2, KeepsNumbered DEF ListInv
  <2>5. RowsMarked
    BY <2>1, SameRowsMarked
  <2> QED
    BY <1>1, <2>1, <2>2, <2>3, <2>4, <2>5, KeepsList
<1> QED
  BY <1>3, <1>4

\* The page is opened, or closed.
LEMMA EmptyList ==
    ASSUME StoreTyped, ListTyped, ListInv, list'.adding = << >>, list'.swiping = {}, list'.alive => list'.seen = 0 /\ list'.shown = Filtered(list'),
           items' = items, budget' \in Budgets, budget'.calls <= budget.calls, Numbers(calls') \subseteq Numbers(calls)
    PROVE  ListInv'
<1>1. AllAdded'
  <2>1. DOMAIN list'.adding = {}
    OBVIOUS
  <2> QED
    BY <2>1 DEF AllAdded
<1>2. Numbered'
  BY KeepsNumbered DEF ListInv
<1>3. Len(items') # 0
  BY CurrentTyped
<1>4. RowsTrue'
  BY <1>3, NotUpToDate
<1>5. ShownTrue'
  BY DEF ShownTrue
<1> QED
  BY <1>1, <1>2, <1>4, <1>5 DEF ListInv

LEMMA OpenCloseList ==
    ASSUME StoreTyped, ListTyped, ListInv, OpenList \/ CloseList
    PROVE  ListInv'
<1>1. CASE OpenList
  <2>1. list' = OpenedList /\ items' = items /\ calls' = calls /\ budget' \in Budgets /\ budget'.calls = budget.calls
    BY <1>1, OpenListDoes
  <2>2. list'.adding = << >> /\ list'.all = << >> /\ list'.shown = << >> /\ list'.seen = 0 /\ list'.swiping = {}
    BY <2>1 DEF OpenedList
  <2>3. Filtered(list') = << >>
    <3>1. PICK places : places = {k \in DOMAIN list'.all : Passes(list'.filter, list'.all[k])}
      OBVIOUS
    <3>2. RowsAt(<< >>, places) = << >>
      BY RowsAtNone
    <3>3. Passing(list'.filter, list'.all) = << >>
      BY <2>2, <3>1, <3>2 DEF Passing
    <3> QED
      BY <2>2, <3>3 DEF Filtered
  <2>4. budget.calls \in Nat /\ budget'.calls <= budget.calls
    BY <2>1 DEF StoreTyped, Budgets
  <2> QED
    BY <2>1, <2>2, <2>3, <2>4, EmptyList
<1>2. CASE CloseList
  <2>1. list' = ClosedList /\ items' = items /\ budget' = budget
    BY <1>2, CloseListDoes
  <2>2. list'.adding = << >> /\ ~list'.alive /\ list'.swiping = {}
    BY <2>1, OpenedPage DEF ClosedList, OpenedList
  <2>3. PICK deaf : Deafened(deaf, calls')
    BY <1>2, CloseListDoes
  <2>4. Numbers(calls') \subseteq Numbers(calls)
    <3>1. ASSUME NEW no \in Numbers(calls') PROVE no \in Numbers(calls)
      <4>1. PICK d \in calls' : d.op = "setIsDone" /\ no = d.no
        BY DEF Numbers
      <4>2. PICK c \in calls : Same(d, c)
        BY <2>3 DEF Deafened
      <4> QED
        BY <4>1, <4>2 DEF Same, Numbers
    <3> QED
      BY <3>1
  <2>5. budget' \in Budgets /\ budget'.calls <= budget.calls
    BY <2>1 DEF StoreTyped, Budgets
  <2> QED
    BY <2>1, <2>2, <2>4, <2>5, EmptyList
<1> QED
  BY <1>1, <1>2

LEMMA ListStep ==
    ASSUME StoreTyped, ListTyped, OverviewTyped, AddingInv, ListInv, [Next]_vars
    PROVE  ListInv'
<1>1. budget \in Budgets /\ budget.calls \in Nat
  BY DEF StoreTyped, Budgets
<1>2. ASSUME NEW c \in calls, ServeItems(c), UNCHANGED <<list, emojis>> PROVE ListInv'
  <2>1. PICK rows \in Seq(Items) : items' = Append(items, rows)
    BY <1>2, ServeItemsDoes
  <2>2. Staged(c, "done", calls') /\ budget' = budget
    BY <1>2, ServeItemsDoes
  <2>3. StaysAdded(calls', calls)
    BY <2>2, SameSelf DEF Staged, StaysAdded
  <2>4. Numbers(calls') \subseteq Numbers(calls)
    <3>1. \A d \in calls' : d \in calls \/ Same(d, c)
      BY <2>2 DEF Staged
    <3> QED
      BY <3>1 DEF Same, Numbers
  <2>5. UNCHANGED list /\ budget' \in Budgets /\ budget'.calls <= budget.calls
    BY <1>1, <1>2, <2>2
  <2> QED
    BY <2>1, <2>3, <2>4, <2>5, ItemsList
<1>3. CASE ElsewhereItems /\ UNCHANGED <<list, emojis>>
  <2>1. PICK rows \in Seq(Items) : items' = Append(items, rows)
    BY <1>3, ElsewhereItemsDoes
  <2>2. calls' = calls /\ budget' \in Budgets /\ UNCHANGED list /\ budget'.calls = budget.calls
    BY <1>3, ElsewhereItemsDoes
  <2>4. budget'.calls <= budget.calls
    BY <1>1, <2>2
  <2>3. StaysAdded(calls', calls) /\ Numbers(calls') \subseteq Numbers(calls)
    BY <2>2, SameSelf DEF StaysAdded
  <2> QED
    BY <2>1, <2>2, <2>3, <2>4, ItemsList
<1>4. CASE EmojisLoaded
  <2>1. /\ items' = items /\ budget' = budget /\ list.detecting \in Seq(ItemIds)
        /\ (UNCHANGED <<list, calls>> \/ CreateListItems(list.detecting))
    BY <1>4, EmojisLoadedDoes
  <2>2. CASE UNCHANGED <<list, calls>>
    <3>1. UNCHANGED <<items, list, calls, budget>>
      BY <2>1, <2>2
    <3> QED
      BY <3>1 DEF ListInv, AllAdded, AddedBy, Numbered, RowsTrue, UpToDate, Current, ShownTrue
  <2>3. CASE CreateListItems(list.detecting)
    <3>1. budget' \in Budgets /\ budget'.calls <= budget.calls
      BY <1>1, <2>1
    <3> QED
      BY <2>1, <2>3, <3>1, CreateListItemsList
  <2> QED
    BY <2>1, <2>2, <2>3
<1> QED
  BY <1>2, <1>3, <1>4, Steps, QuietList, OpenCloseList, FilterList, AddList, MarkingList, SwipeList, ReorderList,
     AddedList, FailedToAddList, IsDoneSetList, ReorderedList, SetListList DEF Loudly

LEMMA ListStart ==
    ASSUME Init
    PROVE  ListInv
<1>1. PICK s \in Scenarios : StoreInit(s.items, s.lists, s.budget)
  BY DEF Init
<1>2. calls = {} /\ list = ClosedList
  BY <1>1 DEF StoreInit, Init, ListInit
<1>3. list.adding = << >> /\ ~list.alive /\ list.swiping = {}
  BY <1>2, OpenedPage DEF ClosedList, OpenedList
<1>4. DOMAIN list.adding = {}
  BY <1>3
<1>5. Numbers(calls) = {}
  BY <1>2 DEF Numbers
<1> QED
  BY <1>3, <1>4, <1>5 DEF ListInv, AllAdded, Numbered, RowsTrue, UpToDate, ShownTrue

-----------------------------------------------------------------------------
(***************************************************************************)
(* A quiet overview shows the lists that there are.                        *)
(***************************************************************************)

LEMMA LeaveGoing == ASSUME NEW cs PROVE Leave(cs) = Going(cs, overview.gen)
BY DEF Leave, Going, Removals

\* Steps of the list's page: what they do to calls that delete a list is nothing.
LEMMA FollowRemovals ==
    ASSUME NEW ds, NEW cs, Follow(ds, cs)
    PROVE  Removals(ds) = Removals(cs)
BY DEF Follow, Removals

LEMMA CallsMade ==
    ASSUME NEW cs, NEW more, \A c \in more : c.op # "deleteList"
    PROVE  Removals(cs \cup more) = Removals(cs)
BY DEF Removals

LEMMA CallsOver ==
    ASSUME NEW cs, NEW c, c.op # "deleteList" \/ ~c.heard
    PROVE  Removals(cs \ {c}) = Removals(cs)
BY DEF Removals

LEMMA NewCallOp == ASSUME NEW op, NEW ids PROVE NewCall(op, ids).op = op
BY DEF NewCall

LEMMA CreateRemovals ==
    ASSUME StoreTyped, ListTyped, NEW ids \in Seq(ItemIds), CreateListItems(ids)
    PROVE  Removals(calls') = Removals(calls)
<1>1. PICK pg \in ListPages, cs \in SUBSET Calls : Anew(pg, cs) /\ AddingCalls(cs, ids)
  BY CreateListItemsDoes
<1>2. Removals(calls') = Removals(cs)
  BY <1>1, FollowRemovals DEF Anew
<1>3. Removals(cs) = Removals(calls)
  BY <1>1 DEF AddingCalls, NewlyAdded, Removals
<1> QED
  BY <1>2, <1>3

LEMMA MarkingRemovals ==
    ASSUME StoreTyped, ListTyped, Marking
    PROVE  Removals(calls') = Removals(calls)
<1>1. PICK no \in Nat, row \in Rows, new \in Rows, c \in Calls : MarksRow(row, new, c, no)
  BY MarkingDoes
<1>2. Removals(calls') = Removals(calls \cup {c})
  BY <1>1, FollowRemovals DEF MarksRow
<1>3. \A d \in {c} : d.op # "deleteList"
  BY <1>1 DEF MarksRow
<1> QED
  BY <1>2, <1>3, CallsMade

LEMMA UserRemovals ==
    ASSUME StoreTyped, ListTyped, ListUser(used)
    PROVE  Removals(calls') = Removals(calls)
<1>1. CASE Type
  BY <1>1 DEF Type, store
<1>2. ASSUME NEW ids \in Seq(ItemIds), CreateListItems(ids) PROVE Removals(calls') = Removals(calls)
  BY <1>2, CreateRemovals
<1>3. CASE Add
  <2>1. budget.ids \in Nat \ {0} /\ (emojis = "loaded" => CreateListItems(<<budget.ids>>))
    BY <1>3, AddDoes
  <2>2. CASE emojis = "loaded"
    <3>1. <<budget.ids>> \in Seq(ItemIds)
      BY <2>1 DEF ItemIds
    <3> QED
      BY <1>2, <2>1, <2>2, <3>1
  <2>3. CASE emojis # "loaded"
    BY <1>3, <2>3, AddWaitsDoes
  <2> QED
    BY <2>2, <2>3
<1>4. CASE OpenList
  BY <1>4 DEF OpenList
<1>5. CASE CloseList
  <2>1. PICK deaf : Deafened(deaf, calls') /\ \A c \in calls : c.op = "deleteList" => c \notin deaf
    BY <1>5, CloseListDoes
  <2>2. ASSUME NEW d \in Removals(calls') PROVE d \in Removals(calls)
    <3>1. PICK c \in calls : Same(d, c) /\ ((c \in deaf /\ ~d.heard) \/ (c \notin deaf /\ d = c))
      BY <2>1 DEF Deafened, Removals
    <3> QED
      BY <2>1, <3>1 DEF Removals
  <2>3. ASSUME NEW c \in Removals(calls) PROVE c \in Removals(calls')
    BY <2>1 DEF Deafened, Removals
  <2> QED
    BY <2>2, <2>3
<1>6. ASSUME NEW f \in Filters, Filter(f) PROVE Removals(calls') = Removals(calls)
  BY <1>6, FilterDoes, FollowRemovals DEF Anew
<1>7. CASE \/ \E k \in DOMAIN list.shown : Check(k)
            \/ \E j \in DOMAIN list.shown, done \in BOOLEAN : Swipe(j, done)
  BY <1>7, MarkingRemovals DEF Marking, Swipe
<1>8. CASE ReactivateCompleted
  <2>1. PICK c : c = NewCall("reactivate", Done(list.all))
    OBVIOUS
  <2>2. calls' = calls \cup {c} /\ c.op = "reactivate"
    BY <1>8, <2>1, NewCallOp DEF ReactivateCompleted
  <2>3. \A d \in {c} : d.op # "deleteList"
    BY <2>2
  <2> QED
    BY <2>2, <2>3, CallsMade
<1>9. ASSUME NEW ids, Deletes(ids) PROVE Removals(calls') = Removals(calls)
  <2>1. PICK c : c = NewCall("delete", ids)
    OBVIOUS
  <2>2. calls' = calls \cup {c} /\ c.op = "delete"
    BY <1>9, <2>1, NewCallOp DEF Deletes
  <2>3. \A d \in {c} : d.op # "deleteList"
    BY <2>2
  <2> QED
    BY <2>2, <2>3, CallsMade
<1>10. CASE DeleteCompleted
  BY <1>9, <1>10 DEF DeleteCompleted
<1>11. CASE DeleteAll
  BY <1>9, <1>11 DEF DeleteAll
<1>12. ASSUME NEW k \in DOMAIN list.shown, DeleteRow(k) PROVE Removals(calls') = Removals(calls)
  BY <1>9, <1>12 DEF DeleteRow
<1>13. ASSUME NEW from, NEW to, Reorder(from, to) PROVE Removals(calls') = Removals(calls)
  <2>1. PICK c \in Calls : MovesRow(from, c)
    BY <1>13, ReorderDoes
  <2>2. Removals(calls') = Removals(calls \cup {c})
    BY <2>1, FollowRemovals DEF MovesRow
  <2>3. \A d \in {c} : d.op # "deleteList"
    BY <2>1 DEF MovesRow
  <2> QED
    BY <2>2, <2>3, CallsMade
<1> QED
  BY <1>1, <1>3, <1>4, <1>5, <1>6, <1>7, <1>8, <1>10, <1>11, <1>12, <1>13 DEF ListUser

LEMMA ReceiveRemovals ==
    ASSUME StoreTyped, ListTyped, NEW c \in calls, ListReceive(c)
    PROVE  Removals(calls') = Removals(calls)
<1>1. c.op # "deleteList"
  BY DEF ListReceive, Added, FailedToAdd, IsDoneSet, IsDoneNotSet, Reactivated, Deleted, Reordered, NotReordered, Answered
<1>2. Removals(calls \ {c}) = Removals(calls)
  BY <1>1, CallsOver
<1>3. CASE Added(c)
  BY <1>2, <1>3, AddedDoes, FollowRemovals DEF Anew
<1>4. CASE IsDoneSet(c)
  BY <1>2, <1>4, IsDoneSetDoes, FollowRemovals
<1>5. CASE FailedToAdd(c) \/ IsDoneNotSet(c) \/ Reactivated(c) \/ Deleted(c) \/ Reordered(c) \/ NotReordered(c)
  BY <1>2, <1>5 DEF FailedToAdd, IsDoneNotSet, Reactivated, Deleted, Reordered, NotReordered
<1> QED
  BY <1>3, <1>4, <1>5 DEF ListReceive

LEMMA RemovalSteps ==
    ASSUME StoreTyped, ListTyped, [Next]_vars
    PROVE  \/ overview' = overview /\ Removals(calls') = Removals(calls)
           \/ overview' = overview /\ \E c \in calls : ServeDeleteList(c) \/ Lose(c)
           \/ OpenOverview \/ CloseOverview
           \/ \E l \in ListIds : RemoveList(l)
           \/ \E c \in calls : Removed(c) \/ NotRemoved(c)
           \/ \E v \in DOMAIN lists : SpaceChanged(v)
<1>1. CASE Serving
  <2>1. overview' = overview /\ \E c \in calls : ServeItems(c) \/ ServeDeleteList(c)
    BY <1>1 DEF Serving, views
  <2>2. ASSUME NEW c \in calls, ServeItems(c) PROVE Removals(calls') = Removals(calls)
    <3>1. Staged(c, "done", calls') /\ c.op # "deleteList"
      BY <2>2, ServeItemsDoes
    <3> QED
      BY <3>1 DEF Staged, Same, Removals
  <2> QED
    BY <2>1, <2>2
<1>2. CASE Failing
  BY <1>2 DEF Failing, views
<1>3. CASE Others
  BY <1>3 DEF Others, views, ElsewhereItems, ElsewhereLists
<1>4. CASE Using
  <2>1. CASE ListUser(used) /\ UNCHANGED overview
    BY <2>1, UserRemovals
  <2>2. CASE OverviewUser
    BY <2>2 DEF OverviewUser
  <2> QED
    BY <1>4, <2>1, <2>2 DEF Using
<1>5. CASE ChangingTheLook
  BY <1>5 DEF ChangingTheLook, store
<1>6. CASE Detecting
  <2>1. EmojisLoaded /\ overview' = overview
    BY <1>6 DEF Detecting
  <2>2. (UNCHANGED <<list, calls>> \/ CreateListItems(list.detecting)) /\ list.detecting \in Seq(ItemIds)
    BY <2>1, EmojisLoadedDoes
  <2>3. calls' = calls \/ Removals(calls') = Removals(calls)
    BY <2>2, CreateRemovals
  <2> QED
    BY <2>1, <2>3
<1>7. CASE Receiving
  <2>1. ASSUME NEW c \in calls, ListReceive(c), UNCHANGED overview
        PROVE  overview' = overview /\ Removals(calls') = Removals(calls)
    BY <2>1, ReceiveRemovals
  <2>2. ASSUME Unheard, UNCHANGED overview
        PROVE  overview' = overview /\ Removals(calls') = Removals(calls)
    <3>1. PICK c \in calls : ~c.heard /\ calls' = calls \ {c}
      BY <2>2 DEF Unheard
    <3> QED
      BY <2>2, <3>1, CallsOver
  <2> QED
    BY <1>7, <2>1, <2>2 DEF Receiving
<1>8. CASE Watching
  <2>1. ASSUME NEW v, SetList(v), UNCHANGED overview
        PROVE  overview' = overview /\ Removals(calls') = Removals(calls)
    <3>1. \E pg \in ListPages : Anew(pg, calls)
      BY <2>1, SetListDoes
    <3> QED
      BY <2>1, <3>1, FollowRemovals DEF Anew
  <2>2. ASSUME NEW v, MenuChanged(v), UNCHANGED overview
        PROVE  overview' = overview /\ Removals(calls') = Removals(calls)
    BY <2>2 DEF MenuChanged, store
  <2> QED
    BY <1>8, <2>1, <2>2 DEF Watching
<1>9. CASE UNCHANGED vars
  BY <1>9 DEF vars, store
<1>10. CASE Closing
  BY <1>10, MarkingRemovals DEF Closing, Marking
<1> QED
  BY <1>1, <1>2, <1>3, <1>4, <1>5, <1>6, <1>7, <1>8, <1>9, <1>10 DEF Next

\* No list is stored twice.
LEMMA EachOnceStep ==
    ASSUME StoreTyped, EachOnce, [Next]_vars
    PROVE  EachOnce'
<1>1. CASE lists' = lists
  BY <1>1 DEF EachOnce
<1>2. CASE lists' # lists
  <2>1. /\ lists' \in Seq(SUBSET Listed) /\ Len(lists') = Len(lists) + 1
        /\ \A v \in DOMAIN lists : v \in DOMAIN lists' /\ lists'[v] = lists[v]
        /\ OneEach(CurrentLists) => OneEach(lists'[Len(lists')])
    BY <1>2, ListsGrow
  <2>2. CurrentLists = lists[Len(lists)] /\ Len(lists) \in DOMAIN lists
    BY CurrentTyped
  <2>3. OneEach(lists'[Len(lists')])
    BY <2>1, <2>2 DEF EachOnce
  <2>4. ASSUME NEW v \in DOMAIN lists' PROVE OneEach(lists'[v])
    <3>1. lists \in Seq(SUBSET Listed)
      BY DEF StoreTyped
    <3>2. v \in DOMAIN lists \/ v = Len(lists')
      BY <2>1, <3>1
    <3> QED
      BY <2>1, <2>3, <3>2 DEF EachOnce
  <2> QED
    BY <2>4 DEF EachOnce
<1> QED
  BY <1>1, <1>2

\* The menu shows the version that it has.
LEMMA MenuTrueStep ==
    ASSUME StoreTyped, MenuTyped, MenuTrue, [Next]_vars
    PROVE  MenuTrue'
<1>1. menu' = menu \/ \E v \in DOMAIN lists : MenuChanged(v)
  BY OverviewSteps
<1>2. ASSUME NEW v \in DOMAIN lists, MenuChanged(v) PROVE MenuTrue'
  <2>1. lists' = lists /\ menu' = [shown |-> Mirrored(lists[v]), seen |-> v]
    BY <1>2 DEF MenuChanged, store
  <2>2. menu'.shown = Mirrored(lists'[menu'.seen])
    BY <2>1
  <2> QED
    BY <2>2 DEF MenuTrue, Mirrored
<1>3. ASSUME menu' = menu PROVE MenuTrue'
  <2>1. CASE menu.seen = 0
    BY <1>3, <2>1 DEF MenuTrue
  <2>2. CASE menu.seen # 0
    <3>1. menu.seen \in DOMAIN lists
      BY <2>2 DEF MenuTyped, StoreTyped
    <3>2. lists'[menu.seen] = lists[menu.seen]
      BY <3>1, ListsGrow
    <3>3. menu.shown = Mirrored(lists[menu.seen])
      BY <2>2 DEF MenuTrue
    <3> QED
      BY <1>3, <3>2, <3>3 DEF MenuTrue, Mirrored
  <2> QED
    BY <2>1, <2>2
<1> QED
  BY <1>1, <1>2, <1>3

\* The calls of removals are some that there were, no more of them have succeeded, and
\* as many lists will go.
RemovalsFrom(ds, cs) == \A d \in Removals(ds) : \E c \in Removals(cs) : d.list = c.list /\ d.gen = c.gen

NoneMore(ds, cs) ==
    \A d \in Removals(ds) :
        d.stage = "done" => \E c \in Removals(cs) : d.list = c.list /\ d.gen = c.gen /\ c.stage = "done"

LEMMA KeepsRight ==
    ASSUME RemovalsRight, overview'.alive = overview.alive, overview'.gen = overview.gen, RemovalsFrom(calls', calls)
    PROVE  RemovalsRight'
BY DEF RemovalsRight, RemovalsFrom

LEMMA KeepsOverview ==
    ASSUME OverviewTrue, lists' = lists, NoneMore(calls', calls),
           overview'.alive = overview.alive, overview'.shown = overview.shown, overview'.gen = overview.gen,
           overview'.seen = overview.seen, overview'.missed = overview.missed,
           Going(calls, overview.gen) \subseteq Going(calls', overview.gen)
    PROVE  OverviewTrue'
<1>1. SUFFICES ASSUME overview.alive, overview.seen = Len(lists), ~overview.missed
               PROVE  /\ \A l \in CurrentLists' : l.id \in DOMAIN overview.shown /\ overview.shown[l.id] = l.count
                      /\ DOMAIN overview.shown \subseteq Ids(CurrentLists') \cup BuiltIn \cup Going(calls', overview.gen)
                      /\ \A c \in Removals(calls') : c.stage = "done" /\ c.gen = overview.gen
                                                     => c.list \notin Ids(CurrentLists')
  BY DEF OverviewTrue, Ids
<1>2. CurrentLists' = CurrentLists
  BY DEF CurrentLists
<1>3. /\ \A l \in CurrentLists : l.id \in DOMAIN overview.shown /\ overview.shown[l.id] = l.count
      /\ DOMAIN overview.shown \subseteq Ids(CurrentLists) \cup BuiltIn \cup Going(calls, overview.gen)
      /\ \A c \in Removals(calls) : c.stage = "done" /\ c.gen = overview.gen => c.list \notin Ids(CurrentLists)
  BY <1>1 DEF OverviewTrue
<1>4. ASSUME NEW c \in Removals(calls'), c.stage = "done", c.gen = overview.gen PROVE c.list \notin Ids(CurrentLists')
  BY <1>2, <1>3, <1>4 DEF NoneMore
<1> QED
  BY <1>2, <1>3, <1>4

\* An overview that is closed, or has not the last version, promises nothing.
LEMMA NotLast ==
    ASSUME ~ (overview'.alive /\ overview'.seen = Len(lists') /\ ~overview'.missed)
    PROVE  OverviewTrue'
BY DEF OverviewTrue

LEMMA SameRemovals ==
    ASSUME StoreTyped, OverviewTyped, RemovalsRight, OverviewTrue, overview' = overview, [Next]_vars,
           Removals(calls') = Removals(calls)
    PROVE  RemovalsRight' /\ OverviewTrue'
<1>1. RemovalsFrom(calls', calls) /\ NoneMore(calls', calls)
      /\ Going(calls, overview.gen) \subseteq Going(calls', overview.gen)
  BY DEF RemovalsFrom, NoneMore, Going
<1>2. CASE lists' = lists
  BY <1>1, <1>2, KeepsRight, KeepsOverview
<1>3. CASE lists' # lists
  <2>1. Len(lists') = Len(lists) + 1
    BY <1>3, ListsGrow
  <2>2. overview.seen <= Len(lists) /\ overview.seen \in Nat /\ Len(lists) \in Nat
    BY OverviewFields DEF OverviewTyped, StoreTyped
  <2>3. overview'.seen # Len(lists')
    BY <2>1, <2>2
  <2> QED
    BY <1>1, <2>3, KeepsRight, NotLast
<1> QED
  BY <1>2, <1>3

LEMMA ServedRemovals ==
    ASSUME StoreTyped, ListTyped, OverviewTyped, RemovalsRight, OverviewTrue, overview' = overview, [Next]_vars,
           NEW c \in calls, ServeDeleteList(c)
    PROVE  RemovalsRight' /\ OverviewTrue'
<1>1. calls' = (calls \ {c}) \cup {[c EXCEPT !.stage = "done"]} /\ CallsTyped(calls)
  BY DEF ServeDeleteList, Served, StoreTyped
<1>2. Staged(c, "done", calls')
  BY <1>1, StagedSame
<1>3. RemovalsFrom(calls', calls)
  BY <1>2 DEF Staged, Same, Removals, RemovalsFrom
<1>4. lists \in Seq(SUBSET Listed) /\ CurrentLists \in SUBSET Listed
  BY CurrentTyped DEF StoreTyped
<1>5. PICK left : left = {l \in CurrentLists : l.id # c.list}
  OBVIOUS
<1>6. lists' = Append(lists, left) /\ left \in SUBSET Listed
  BY <1>4, <1>5 DEF ServeDeleteList, WriteLists
<1>7. Len(lists') = Len(lists) + 1
  BY <1>4, <1>6
<1>8. overview.seen <= Len(lists) /\ overview.seen \in Nat /\ Len(lists) \in Nat
  BY OverviewFields DEF OverviewTyped, StoreTyped
<1>9. overview'.seen # Len(lists')
  BY <1>7, <1>8
<1> QED
  BY <1>3, <1>9, KeepsRight, NotLast

LEMMA LostRemovals ==
    ASSUME StoreTyped, RemovalsRight, OverviewTrue, overview' = overview, NEW c \in calls, Lose(c)
    PROVE  RemovalsRight' /\ OverviewTrue'
<1>1. calls' = (calls \ {c}) \cup {[c EXCEPT !.stage = "failed"]} /\ CallsTyped(calls) /\ lists' = lists
  BY DEF Lose, StoreTyped
<1>2. Staged(c, "failed", calls')
  BY <1>1, StagedSame
<1>3. RemovalsFrom(calls', calls) /\ NoneMore(calls', calls)
  BY <1>2 DEF Staged, Same, Removals, RemovalsFrom, NoneMore
<1>4. ASSUME NEW b \in Removals(calls) PROVE \E d \in Removals(calls') : d.list = b.list /\ d.gen = b.gen
  BY <1>2 DEF Staged, Same, Removals
<1>5. Going(calls, overview.gen) \subseteq Going(calls', overview.gen)
  BY <1>4 DEF Going
<1> QED
  BY <1>1, <1>3, <1>5, KeepsRight, KeepsOverview

LEMMA OpenedRemovals ==
    ASSUME StoreTyped, RemovalsRight, OpenOverview
    PROVE  RemovalsRight' /\ OverviewTrue'
<1>1. overview'.seen = 0 /\ ~overview.alive /\ calls' = calls /\ lists' = lists
  BY OpenOverviewDoes DEF OpenOverview
<1>2. Removals(calls') = {}
  BY <1>1 DEF RemovalsRight
<1>3. Len(lists) \in Nat \ {0}
  BY CurrentTyped
<1>4. overview'.seen # Len(lists')
  BY <1>1, <1>3
<1> QED
  BY <1>2, <1>4, NotLast DEF RemovalsRight

LEMMA ClosedRemovals ==
    ASSUME StoreTyped, CloseOverview
    PROVE  RemovalsRight' /\ OverviewTrue'
<1>1. overview' = ClosedOverview /\ CallsTyped(calls)
  BY DEF CloseOverview, StoreTyped
<1>2. PICK deaf : deaf = {c \in calls : c.op = "deleteList"}
  OBVIOUS
<1>3. calls' = {IF c \in deaf THEN [c EXCEPT !.heard = FALSE] ELSE c : c \in calls}
  BY <1>2 DEF CloseOverview
<1>4. Deafened(deaf, calls')
  BY <1>1, <1>3, UnheardSame
<1>5. Removals(calls') = {}
  BY <1>2, <1>4 DEF Deafened, Same, Removals
<1>6. ~overview'.alive
  BY <1>1 DEF ClosedOverview
<1> QED
  BY <1>5, <1>6, NotLast DEF RemovalsRight

LEMMA RemoveListRemovals ==
    ASSUME StoreTyped, OverviewTyped, RemovalsRight, OverviewTrue, NEW l \in ListIds, RemoveList(l)
    PROVE  RemovalsRight' /\ OverviewTrue'
<1>1. overview \in Overviews /\ overview.gen \in Nat /\ overview.alive
  BY OverviewFields DEF OverviewTyped, RemoveList
<1>2. overview' = [overview EXCEPT !.reordered = TRUE]
  BY DEF RemoveList
<1>3. /\ overview'.alive = overview.alive /\ overview'.shown = overview.shown /\ overview'.gen = overview.gen
      /\ overview'.seen = overview.seen /\ overview'.missed = overview.missed
  BY <1>1, <1>2 DEF Overviews
<1>4. CASE Refused(l)
  <2>1. calls' = calls /\ lists' = lists
    BY <1>4 DEF RemoveList, store
  <2>2. RemovalsFrom(calls', calls) /\ NoneMore(calls', calls)
        /\ Going(calls, overview.gen) \subseteq Going(calls', overview.gen)
    BY <2>1 DEF RemovalsFrom, NoneMore
  <2> QED
    BY <1>3, <2>1, <2>2, KeepsRight, KeepsOverview
<1>5. CASE ~Refused(l)
  <2>1. PICK op \in {"create", "setIsDone", "reactivate", "delete", "reorder", "deleteList"} : op = "deleteList"
    OBVIOUS
  <2>2. PICK plain : plain = NewCall(op, {})
    OBVIOUS
  <2>3. plain \in Calls /\ plain.op = op /\ plain.stage = "sent" /\ plain.heard
    BY <2>2, MadeCall
  <2>4. PICK gen \in Nat : gen = overview.gen
    BY <1>1
  <2>5. PICK c : c = [plain EXCEPT !.list = l, !.gen = gen]
    OBVIOUS
  <2>6. c.op = "deleteList" /\ c.heard /\ c.stage = "sent" /\ c.gen = overview.gen
    BY <2>1, <2>3, <2>4, <2>5 DEF Calls
  <2>7. calls' = calls \cup {c} /\ lists' = lists
    BY <1>5, <2>1, <2>2, <2>4, <2>5 DEF RemoveList
  <2>8. \A d \in Removals(calls') : d = c \/ d \in Removals(calls)
    BY <2>7 DEF Removals
  <2>9. RemovalsRight'
    BY <1>1, <1>3, <2>6, <2>8 DEF RemovalsRight
  <2>10. NoneMore(calls', calls)
    BY <2>6, <2>8 DEF NoneMore
  <2>11. Going(calls, overview.gen) \subseteq Going(calls', overview.gen)
    BY <2>7 DEF Going, Removals
  <2> QED
    BY <1>3, <2>7, <2>9, <2>10, <2>11, KeepsOverview
<1> QED
  BY <1>4, <1>5

LEMMA RemovedRemovals ==
    ASSUME StoreTyped, OverviewTyped, RemovalsRight, OverviewTrue, NEW c, Removed(c) \/ NotRemoved(c)
    PROVE  RemovalsRight' /\ OverviewTrue'
<1>1. overview \in Overviews /\ overview.shown \in CountsShown /\ lists' = lists
  BY OverviewFields DEF OverviewTyped, Removed, NotRemoved
<1>2. /\ overview'.alive = overview.alive /\ overview'.gen = overview.gen /\ overview'.seen = overview.seen
      /\ c \in calls /\ c.op = "deleteList" /\ calls' = calls \ {c}
  BY <1>1, RemovedDoes
<1>3. Removals(calls') = Removals(calls) \ {c}
  BY <1>2 DEF Removals
<1>4. RemovalsFrom(calls', calls) /\ NoneMore(calls', calls)
  BY <1>3 DEF RemovalsFrom, NoneMore
<1>5. RemovalsRight'
  BY <1>2, <1>4, KeepsRight
<1>6. CASE NotRemoved(c)
  <2>1. overview'.missed
    BY <1>1, <1>6, RemovedDoes
  <2> QED
    BY <1>5, <2>1, NotLast
<1>7. CASE Removed(c) /\ c.gen # overview.gen
  <2>1. overview'.shown = overview.shown /\ overview'.missed = overview.missed
    BY <1>1, <1>7, RemovedDoes
  <2>2. Going(calls, overview.gen) \subseteq Going(calls', overview.gen)
    BY <1>3, <1>7 DEF Going
  <2> QED
    BY <1>1, <1>2, <1>4, <1>5, <2>1, <2>2, KeepsOverview
<1>8. CASE Removed(c) /\ c.gen = overview.gen
  <2>1. /\ overview'.shown = Without(overview.shown, {c.list}) /\ overview'.missed = overview.missed
        /\ c.stage = "done" /\ c.heard
    BY <1>1, <1>8, RemovedDoes
  <2>2. /\ DOMAIN overview'.shown = DOMAIN overview.shown \ {c.list}
        /\ \A l \in DOMAIN overview.shown \ {c.list} : overview'.shown[l] = overview.shown[l]
    <3>1. PICK shown \in CountsShown : shown = overview.shown
      BY <1>1
    <3>2. PICK ids : ids = {c.list}
      OBVIOUS
    <3>3. overview'.shown = Without(shown, ids)
      BY <2>1, <3>1, <3>2
    <3> QED
      BY <3>1, <3>2, <3>3, WithoutTyped
  <2>3. SUFFICES ASSUME overview.alive, overview.seen = Len(lists), ~overview.missed
                 PROVE  OverviewTrue'
    BY <1>1, <1>2, <1>5, <2>1, NotLast
  <2>4. CurrentLists' = CurrentLists
    BY <1>1 DEF CurrentLists
  <2>5. /\ \A l \in CurrentLists : l.id \in DOMAIN overview.shown /\ overview.shown[l.id] = l.count
        /\ DOMAIN overview.shown \subseteq Ids(CurrentLists) \cup BuiltIn \cup Going(calls, overview.gen)
        /\ \A b \in Removals(calls) : b.stage = "done" /\ b.gen = overview.gen => b.list \notin Ids(CurrentLists)
    BY <2>3 DEF OverviewTrue
  <2>6. c.list \notin Ids(CurrentLists)
    BY <1>2, <1>8, <2>1, <2>5 DEF Removals
  <2>7. ASSUME NEW l \in CurrentLists
        PROVE  l.id \in DOMAIN overview'.shown /\ overview'.shown[l.id] = l.count
    <3>1. l.id # c.list
      BY <2>6 DEF Ids
    <3> QED
      BY <2>2, <2>5, <3>1
  <2>8. Going(calls, overview.gen) \subseteq Going(calls', overview.gen) \cup {c.list}
    BY <1>3 DEF Going
  <2>9. DOMAIN overview'.shown \subseteq Ids(CurrentLists) \cup BuiltIn \cup Going(calls', overview'.gen)
    BY <1>2, <2>2, <2>5, <2>8
  <2>10. \A b \in Removals(calls') : b.stage = "done" /\ b.gen = overview'.gen => b.list \notin Ids(CurrentLists)
    BY <1>2, <1>3, <2>5
  <2> QED
    BY <2>4, <2>7, <2>9, <2>10 DEF OverviewTrue, Ids
<1> QED
  BY <1>5, <1>6, <1>7, <1>8

LEMMA ChangedRemovals ==
    ASSUME StoreTyped, OverviewTyped, EachOnce, RemovalsRight, OverviewTrue, NEW v \in DOMAIN lists, SpaceChanged(v)
    PROVE  RemovalsRight' /\ OverviewTrue'
<1>1. /\ overview'.seen = v /\ overview.alive /\ overview'.alive /\ UNCHANGED store
      /\ \/ /\ overview'.shown = overview.shown /\ overview'.gen = overview.gen
            /\ overview'.missed \/ TrueTo(Without(overview.shown, Leave(calls)), lists[v])
         \/ overview'.shown = Merged(lists[v]) /\ overview'.gen = overview.gen + 1
  BY SpaceChangedDoes
<1>2. lists' = lists /\ calls' = calls
  BY <1>1 DEF store
<1>3. \A c \in Removals(calls) : c.gen \in Nat
  BY DEF StoreTyped, CallsTyped, Calls, Removals
<1>4. overview \in Overviews /\ overview.gen \in Nat /\ overview.shown \in CountsShown
  BY OverviewFields DEF OverviewTyped
<1>5. RemovalsRight'
  BY <1>1, <1>2, <1>3, <1>4 DEF RemovalsRight
<1>6. CurrentLists' = CurrentLists /\ CurrentLists = lists[Len(lists)] /\ CurrentLists \in SUBSET Listed
  BY <1>2, CurrentTyped DEF CurrentLists
<1>7. SUFFICES ASSUME v = Len(lists), ~overview'.missed
               PROVE  OverviewTrue'
  BY <1>1, <1>2, <1>5, NotLast
<1>8. lists[v] = CurrentLists
  BY <1>6, <1>7
<1>9. CASE overview'.shown = overview.shown /\ overview'.gen = overview.gen
           /\ TrueTo(Without(overview.shown, Leave(calls)), lists[v])
  <2>1. PICK kept : kept = Without(overview.shown, Leave(calls))
    OBVIOUS
  <2>2. PICK going : going = Going(calls, overview.gen) /\ going = Leave(calls)
    BY LeaveGoing
  <2>3. /\ DOMAIN kept = DOMAIN overview.shown \ going
        /\ \A l \in DOMAIN overview.shown \ going : kept[l] = overview.shown[l]
    <3>1. PICK shown \in CountsShown : shown = overview.shown
      BY <1>4
    <3>2. kept = Without(shown, going)
      BY <2>1, <2>2, <3>1
    <3>3. /\ DOMAIN kept = DOMAIN shown \ going
          /\ \A l \in DOMAIN shown \ going : kept[l] = shown[l]
      BY <3>2, WithoutTyped
    <3> QED
      BY <3>1, <3>3
  <2>4. /\ \A l \in CurrentLists : l.id \in DOMAIN kept /\ kept[l.id] = l.count
        /\ DOMAIN kept \subseteq Ids(CurrentLists) \cup BuiltIn
    BY <1>8, <1>9, <2>1 DEF TrueTo
  <2>5. \A l \in CurrentLists : l.id \in DOMAIN overview'.shown /\ overview'.shown[l.id] = l.count
    BY <1>9, <2>3, <2>4
  <2>6. DOMAIN overview'.shown \subseteq Ids(CurrentLists) \cup BuiltIn \cup Going(calls', overview'.gen)
    BY <1>2, <1>9, <2>2, <2>3, <2>4
  <2>7. ASSUME NEW c \in Removals(calls'), c.gen = overview'.gen PROVE c.list \notin Ids(CurrentLists)
    <3>1. c.list \in going
      BY <1>2, <1>9, <2>2, <2>7 DEF Going
    <3> QED
      BY <2>3, <2>4, <3>1 DEF Ids
  <2> QED
    BY <1>6, <2>5, <2>6, <2>7 DEF OverviewTrue, Ids
<1>10. CASE overview'.shown = Merged(lists[v]) /\ overview'.gen = overview.gen + 1
  <2>1. OneEach(CurrentLists)
    BY <1>8 DEF EachOnce
  <2>2. DOMAIN overview'.shown = BuiltIn \cup Ids(CurrentLists)
        /\ \A l \in CurrentLists : overview'.shown[l.id] = l.count
    BY <1>6, <1>8, <1>10, <2>1, MergedTyped
  <2>3. \A l \in CurrentLists : l.id \in DOMAIN overview'.shown
    BY <2>2 DEF Ids
  <2>4. \A c \in Removals(calls') : c.gen # overview'.gen
    BY <1>2, <1>3, <1>4, <1>10 DEF RemovalsRight
  <2> QED
    BY <1>6, <2>2, <2>3, <2>4 DEF OverviewTrue, Ids
<1> QED
  BY <1>1, <1>7, <1>9, <1>10

LEMMA OverviewStep ==
    ASSUME StoreTyped, ListTyped, OverviewTyped, MenuTyped, OverviewInv, [Next]_vars
    PROVE  OverviewInv'
<1>1. EachOnce /\ RemovalsRight /\ OverviewTrue /\ MenuTrue
  BY DEF OverviewInv
<1>2. EachOnce' /\ MenuTrue'
  BY <1>1, EachOnceStep, MenuTrueStep
<1>3. RemovalsRight' /\ OverviewTrue'
  BY <1>1, RemovalSteps, SameRemovals, ServedRemovals, LostRemovals, OpenedRemovals, ClosedRemovals,
     RemoveListRemovals, RemovedRemovals, ChangedRemovals
<1> QED
  BY <1>2, <1>3 DEF OverviewInv

LEMMA OverviewStart ==
    ASSUME Init
    PROVE  OverviewInv /\ LookInv
<1>1. PICK s \in Scenarios : StoreInit(s.items, s.lists, s.budget)
  BY DEF Init
<1>2. lists = << s.lists >> /\ calls = {} /\ OneEach(s.lists)
  BY <1>1, ListsAssumption DEF StoreInit, OneEach
<1>3. EachOnce
  BY <1>2 DEF EachOnce
<1>4. Removals(calls) = {}
  BY <1>2 DEF Removals
<1>5. ~overview.alive /\ menu.seen = 0
  BY DEF Init, OverviewInit, ClosedOverview, MenuInit
<1>6. LookInv
  BY DEF Init, AppStateInit, LookInv
<1> QED
  BY <1>3, <1>4, <1>5, <1>6 DEF OverviewInv, RemovalsRight, OverviewTrue, MenuTrue

\* A page of which nothing is left over shows what passes the filter of what is stored.
LEMMA QuietListShows ==
    ASSUME StoreTyped, ListTyped, ListInv, calls = {}, list.alive, list.seen = Len(items),
           ~SomeLeft(list.all), ~SomeLeft(list.shown)
    PROVE  Briefs(list.shown) = Passing(list.filter, Current)
<1>1. list \in ListPages /\ list.all \in Seq(Rows) /\ list.adding \in Seq(Rows)
  BY PageFields DEF ListTyped
<1>2. list.adding = << >>
  <2>1. \A k \in DOMAIN list.adding : FALSE
    BY DEF ListInv, AllAdded, AddedBy
  <2>2. PICK adding \in Seq(Rows) : adding = list.adding
    BY <1>1
  <2>3. 1 \notin DOMAIN adding
    BY <2>1, <2>2
  <2>4. Len(adding) = 0
    BY <2>2, <2>3
  <2> QED
    BY <2>2, <2>4
<1>3. list.shown = Passing(list.filter, list.all)
  <2>1. PICK passing : passing = Passing(list.filter, list.all)
    OBVIOUS
  <2>2. passing \in Seq(Rows)
    BY <1>1, <2>1, PassingRows
  <2>3. list.shown = passing \o << >>
    BY <1>2, <2>1 DEF ListInv, ShownTrue, Filtered
  <2> QED
    BY <2>1, <2>2, <2>3
<1>4. \A k \in DOMAIN list.all : list.all[k].mark = "stored"
  <2>1. \A k \in DOMAIN list.all : list.all[k].mark # "changed"
    BY DEF ListInv, RowsTrue, UpToDate
  <2>2. \A k \in DOMAIN list.all : list.all[k].mark \in Marks
    <3>1. PICK rows \in Seq(Rows) : rows = list.all
      BY <1>1
    <3>2. \A k \in DOMAIN rows : rows[k] \in Rows
      BY <3>1
    <3> QED
      BY <3>1, <3>2 DEF Rows
  <2> QED
    BY <2>1, <2>2 DEF SomeLeft, LeftOver, Marks
<1>5. Briefs(list.all) = Current
  BY <1>4 DEF ListInv, RowsTrue, UpToDate
<1>6. PICK places : places = {k \in DOMAIN list.all : Passes(list.filter, list.all[k])}
  OBVIOUS
<1>7. places = {k \in DOMAIN Current : Passes(list.filter, Current[k])}
  <2>1. DOMAIN Current = DOMAIN list.all /\ \A k \in DOMAIN list.all : Current[k].done = list.all[k].done
    BY <1>5 DEF Briefs
  <2> QED
    BY <1>6, <2>1 DEF Passes
<1>8. Briefs(RowsAt(list.all, places)) = RowsAt(Briefs(list.all), places)
  BY <1>1, BriefsOfRowsAt
<1> QED
  BY <1>3, <1>5, <1>6, <1>7, <1>8 DEF Passing

LEMMA QuietOverview ==
    ASSUME StoreTyped, OverviewInv, calls = {}, overview.alive, overview.seen = Len(lists), ~overview.missed
    PROVE  /\ TrueTo(overview.shown, CurrentLists)
           /\ menu.seen = Len(lists) => menu.shown \subseteq DOMAIN overview.shown \cup BuiltIn
<1>1. Going(calls, overview.gen) = {}
  BY DEF Going, Removals
<1>2. /\ \A l \in CurrentLists : l.id \in DOMAIN overview.shown /\ overview.shown[l.id] = l.count
      /\ DOMAIN overview.shown \subseteq Ids(CurrentLists) \cup BuiltIn
  BY <1>1 DEF OverviewInv, OverviewTrue
<1>3. CurrentLists \in SUBSET Listed /\ CurrentLists = lists[Len(lists)] /\ Len(lists) # 0
  BY CurrentTyped
<1>4. ASSUME menu.seen = Len(lists) PROVE menu.shown \subseteq DOMAIN overview.shown \cup BuiltIn
  <2>1. menu.shown = Mirrored(CurrentLists)
    BY <1>3, <1>4 DEF OverviewInv, MenuTrue
  <2>2. Mirrored(CurrentLists) \subseteq BuiltIn \cup Ids(CurrentLists)
    BY <1>3, MirroredTyped
  <2>3. Ids(CurrentLists) \subseteq DOMAIN overview.shown
    BY <1>2 DEF Ids
  <2> QED
    BY <2>1, <2>2, <2>3
<1> QED
  BY <1>2, <1>4 DEF TrueTo

LEMMA QuietIsTrue ==
    ASSUME WellTyped, ListInv, OverviewInv, LookInv
    PROVE  QuietPagesAreTrue
<1> SUFFICES ASSUME calls = {}
             PROVE  /\ \A t \in Tabs \ behind : appState[t] = saved
                    /\ list.alive /\ list.seen = Len(items)
                          /\ ~(\E k \in DOMAIN list.all : LeftOver(list.all[k]))
                          /\ ~(\E k \in DOMAIN list.shown : LeftOver(list.shown[k]))
                       => Briefs(list.shown) = Passing(list.filter, Current)
                    /\ overview.alive /\ overview.seen = Len(lists) /\ ~overview.missed
                       => /\ TrueTo(overview.shown, CurrentLists)
                          /\ menu.seen = Len(lists) => menu.shown \subseteq DOMAIN overview.shown \cup BuiltIn
  BY DEF QuietPagesAreTrue
<1>1. StoreTyped /\ ListTyped
  BY DEF WellTyped
<1>2. \A t \in Tabs \ behind : appState[t] = saved
  BY DEF LookInv
<1>3. ASSUME list.alive, list.seen = Len(items), ~(\E k \in DOMAIN list.all : LeftOver(list.all[k])),
             ~(\E k \in DOMAIN list.shown : LeftOver(list.shown[k]))
      PROVE  Briefs(list.shown) = Passing(list.filter, Current)
  <2>1. ~SomeLeft(list.all) /\ ~SomeLeft(list.shown)
    BY <1>3 DEF SomeLeft
  <2> QED
    BY <1>1, <1>3, <2>1, QuietListShows
<1>4. ASSUME overview.alive, overview.seen = Len(lists), ~overview.missed
      PROVE  /\ TrueTo(overview.shown, CurrentLists)
             /\ menu.seen = Len(lists) => menu.shown \subseteq DOMAIN overview.shown \cup BuiltIn
  BY <1>1, <1>4, QuietOverview
<1> QED
  BY <1>2, <1>3, <1>4

\* All that is to be relied on: types, ids given out once, items whose calls are awaited,
\* rows and what they are marked with, lists shown and those about to go, and the look of
\* each tab.
ListsInv == WellTyped /\ AddingInv /\ WaitInv /\ ListInv /\ OverviewInv /\ LookInv

LEMMA ListsStep ==
    ASSUME ListsInv, [Next]_vars
    PROVE  ListsInv'
<1>1. WellTyped /\ AddingInv /\ WaitInv /\ ListInv /\ OverviewInv /\ LookInv
  BY DEF ListsInv
<1>2. StoreTyped /\ ListTyped /\ OverviewTyped /\ MenuTyped /\ LookTyped
  BY <1>1 DEF WellTyped
<1>3. WellTyped'
  BY <1>1, TypedStep
<1>4. AddingInv' /\ WaitInv' /\ ListInv'
  BY <1>1, <1>2, AddingStep, WaitStep, ListStep
<1>5. OverviewInv' /\ LookInv'
  BY <1>1, <1>2, OverviewStep, LookStep
<1> QED
  BY <1>3, <1>4, <1>5 DEF ListsInv

\* The lists' pages, the menu and the look keep ListsInv through calls lost and answered
\* in any order, and whatever other members do to the same lists.
THEOREM ListsInvariant == Spec => []ListsInv
<1>1. Init => ListsInv
  BY InitTyped, AddingStart, WaitStart, ListStart, OverviewStart DEF ListsInv
<1>2. ListsInv /\ [Next]_vars => ListsInv'
  BY ListsStep
<1> QED
  BY <1>1, <1>2, PTL DEF Spec

\* When nothing is under way, a page of a list from which nothing is left over shows what
\* is stored, and so does an overview that missed nothing, with the menu; and a tab that
\* was not left behind has the look that is saved.
THEOREM QuietPagesAreTrueHolds == Spec => []QuietPagesAreTrue
<1>1. ListsInv => QuietPagesAreTrue
  BY QuietIsTrue DEF ListsInv
<1> QED
  BY ListsInvariant, <1>1, PTL
=============================================================================
