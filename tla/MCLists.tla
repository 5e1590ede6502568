------------------------------- MODULE MCLists -------------------------------
EXTENDS Lists

CONSTANTS groceries, chores, party, trip

\* A list of a group that is built in, and one of a group that is not.
MCGroupOf == (groceries :> "buy") @@ (chores :> "do") @@ (party :> "buy") @@ (trip :> "watch")

TwoRows == <<[id |-> 11, done |-> FALSE], [id |-> 12, done |-> TRUE]>>
OneRow == <<[id |-> 11, done |-> FALSE]>>

Persisted == {[id |-> groceries, count |-> 1], [id |-> chores, count |-> 1]}

Budget(calls_, elsewhere_, lists_, ids_, opens_) ==
    [calls |-> calls_, elsewhere |-> elsewhere_, lists |-> lists_, ids |-> ids_, opens |-> opens_]

MCScenarios ==
    {[used |-> {"adding"}, items |-> OneRow, lists |-> {}, budget |-> Budget(2, 1, 0, 2, 1)],
     [used |-> {"adding", "clearing"}, items |-> OneRow, lists |-> {}, budget |-> Budget(2, 0, 0, 1, 2)],
     [used |-> {"marking"}, items |-> OneRow, lists |-> {}, budget |-> Budget(2, 1, 0, 0, 1)],
     [used |-> {"marking", "clearing"}, items |-> TwoRows, lists |-> {}, budget |-> Budget(2, 0, 0, 0, 1)],
     [used |-> {"marking", "sorting"}, items |-> TwoRows, lists |-> {}, budget |-> Budget(2, 0, 0, 0, 1)],
     [used |-> {"sorting"}, items |-> TwoRows, lists |-> {}, budget |-> Budget(1, 1, 0, 0, 1)],
     [used |-> {"overview"}, items |-> << >>, lists |-> Persisted, budget |-> Budget(2, 0, 1, 0, 1)],
     [used |-> {"overview", "adding"}, items |-> OneRow, lists |-> {[id |-> groceries, count |-> 1]},
      budget |-> Budget(1, 0, 0, 1, 2)],
     [used |-> {"look"}, items |-> << >>, lists |-> {}, budget |-> Budget(0, 0, 0, 0, 0)]}
=============================================================================
