----------------------------- MODULE MCOrganizing -----------------------------
EXTENDS Organizing

CONSTANTS u1, u2, t1, t2, t3, d1, d2

MCTabs == {t1, t2, t3}
MCDeviceOf == [t \in MCTabs |-> IF t = t3 THEN d2 ELSE d1]

Typed == [f \in NewGameFields |-> IF f \in {"sport", "names", "roles", "date"} THEN "a" ELSE Blank]
TypedOrganize ==
    [form |-> [f \in OrganizeFields |-> IF f \in {"team", "date"} THEN "a" ELSE Blank],
     rows |-> <<"a">>]

\* What was there before, from taps above every budget.
Game(u, no) ==
    [createdBy |-> u, about |-> "a", schedule |-> <<"a", "a">>, location |-> Blank, tap |-> <<t1, no>>]
Roster(u) == [organizer |-> u, about |-> "a", schedule |-> Unset, rows |-> << >>, tap |-> <<t1, 0>>]

Idle == [calls |-> 0, edits |-> 0, views |-> {}, users |-> {}, reloads |-> FALSE]
For(someTabs, calls_, edits_, views_, users_) ==
    [t \in MCTabs |-> IF t \in someTabs
                      THEN [calls |-> calls_, edits |-> edits_, views |-> views_, users |-> users_,
                            reloads |-> users_ # {}]
                      ELSE Idle]
Everywhere(u) == [d \in {d1, d2} |-> u]

Nothing == [plan |-> For({}, 0, 0, {}, {}), auth |-> Everywhere(Nobody), games |-> << >>,
            rosters |-> << >>, newGame |-> NoDraft, organize |-> NoDraft]

\* A game from the first field on, with the detour through login.
FirstGame == [Nothing EXCEPT !.plan = For({t1}, 2, 3, {"newGame"}, {u1})]

\* A draft from before, and a second try.
SecondTry == [Nothing EXCEPT !.plan = For({t1}, 2, 1, {"newGame"}, {u1}), !.newGame = Typed]

\* Two tabs of one browser with one draft.
TwoTabs == [Nothing EXCEPT !.plan = [For({t1, t2}, 1, 0, {"newGame"}, {}) EXCEPT ![t2].edits = 1],
                           !.auth = Everywhere(u1), !.newGame = Typed]

\* An organized game, with the detour through login.
Weekly == [Nothing EXCEPT !.plan = For({t1}, 1, 3, {"organize"}, {u1}), !.organize = TypedOrganize]

\* Back while a game is being created, and once more.
OrganizeTwice == [Nothing EXCEPT !.plan = For({t1}, 2, 1, {"organize"}, {}), !.auth = Everywhere(u1),
                                 !.organize = TypedOrganize]

\* The organizer on two devices.
TwoDevices == [Nothing EXCEPT !.plan = [For({t1, t3}, 2, 0, {"settings"}, {}) EXCEPT ![t1].edits = 1], !.auth = Everywhere(u1),
                              !.games = <<Game(u1, 100)>>]

\* Settings of a game of somebody else's.
Stranger == [Nothing EXCEPT !.plan = For({t1}, 3, 1, {"settings"}, {u1}), !.auth = Everywhere(u2),
                            !.games = <<Game(u1, 100)>>]

\* Lists while signing out and in as somebody else.
Lists == [Nothing EXCEPT !.plan = For({t1}, 2, 0, {"myGames", "rosters"}, {u1}), !.auth = Everywhere(u2),
                         !.games = <<Game(u1, 100), Game(u2, 101)>>, !.rosters = <<Roster(u1)>>]

\* The account changed in another tab, for that of somebody else even.
Shared == [Nothing EXCEPT !.plan = [For({t1}, 2, 0, {"myGames", "rosters"}, {}) EXCEPT
                                        ![t2] = [Idle EXCEPT !.users = {u2}, !.views = {"rosters"}]],
                          !.auth = Everywhere(u1),
                          !.games = <<Game(u1, 100), Game(u2, 101)>>, !.rosters = <<Roster(u1)>>]

\* Two followers.
Followers == [Nothing EXCEPT !.plan = [For({t1, t3}, 2, 0, {"board"}, {}) EXCEPT ![t1].users = {u1}],
                             !.auth = [d \in {d1, d2} |-> IF d = d1 THEN u1 ELSE u2]]

MCSecondTry == {SecondTry}

MCScenarios ==
    {FirstGame, SecondTry, TwoTabs, Weekly, OrganizeTwice, TwoDevices, Stranger, Lists, Shared, Followers}
=============================================================================
