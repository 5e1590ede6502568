# GameBoard: models, checks and proofs

TLA+ models of GameBoard.live: the chess part that runs in the browser, the
event timeline of the backend, the live pages between them, how games are
drafted, created, set up and found again, the invites to an organized game, and
the lists of a space. TLC checks the models on small instances, and TLAPS proves
the theorems for every value of the constants.

    tlc -config MCChessGame.cfg MCChessGame      # one run; the table below names all
    tlapm ChessGameProofs.tla                    # one proof module
    tlapm EventTimelineProofs.tla                # and ChessMatchProofs, ChessPlayProofs, LiveBoardProofs,
                                                 # InvitesProofs, OrganizingProofs, ListsProofs

`PROJECT.json` holds the same information in a form for tools: which lines each
definition translates, which faulty variant breaks each property, which hazards
of the code each property is about.

## The system

GameBoard is an Angular/Ionic application (`src/frontend`), a Go backend
(`src/backend`) and static landing pages. `A/` below stands for
`src/frontend/apps/gameboard-app/src/app/`, `B/` for `src/backend/gameboard/` and
`L/` for `src/frontend/libs/extensions/gameboard/shared/src/lib/`.

| Component | State | Operations | Interacts with |
|---|---|---|---|
| Chess clock, `A/chess/chess-clock.ts` | time and delay left of each side, side to charge, status | start, tick, switchTurn, pause | called by the match only; never reads the time itself |
| Chess match, `A/chess/chess-match.ts` | board (chess.js), scoresheet, end reason, clock | start, tick, move, resign | called by the play page |
| Play page, `A/chess/chess-play-page.component.ts` | match, its copy of the saved game, interval, view mode, `computerThinking` | load, tick, human move, engine reply, resign, resign from the recap, rematch, leave | saves to the game store, asks the engine service; several pages live at once in the outlet's stack |
| Game store and hub, `A/chess/chess-game-store.ts`, `chess-hub-page.component.ts` | saved games in localStorage | save, get, list; start | shared by all pages and tabs |
| Engine service, `A/chess/stockfish.service.ts` | one worker per tab, its readiness | bestMove, terminate | shared by all pages of a tab; answers through a callback |
| Event timeline, `B/authority.go`, `service.go`, `store_dalgo.go`, `handlers.go` | one log document per game | append, list, state | a database transaction around each append |
| Live pages, `A/game/console`, `scoreboard`, `recap`, `A/game.service.ts` | the state shown | dispatch (append, then read), two-second poll | the timeline's endpoints, over the network |
| Game records and settings, `B/game.go`, `service.go`, `A/game/settings` | one document per game | create, read, update settings | form page; two transactions in one update |
| Follows, `B/follow.go` | one document per user and target | follow, list | scoreboard page |
| Game invites, `B/game_invite*.go`, `A/game-invites` | invite, roster, RSVPs, participants | create, add player, RSVP by token, list | pages of organizer, parent and player; token links |
| New game and drafts, `A/new-game`, `organize-game-draft.ts` | a draft in localStorage | restore, auto-save, detour to login, create | game and invite services |
| My games, `A/my/games`, and the list of organized games, `A/game-invites/game-invites-list-page.component.ts` | what the account signed in has | watch; ask and retry | the database; the invites' endpoints |
| Lists extension, `L/pages` | a list's rows and those being added; the overview's groups | add, mark, clear, sort, filter; remove | a list service and watched documents outside the repository; other members |
| Space menu, `L/space-menu` | the lists it leads to | follow the space | the watched document of the space |
| Remembered look, `L/services/gameboard-app-state.service.ts` | collapsed groups, watched movies shown | change, save | localStorage, shared by tabs, read at the start only |

What is hard in it:

* *interleavings in one page*: moves, interval ticks, resignations and engine
  answers, in any order;
* *sharing*: pages of a tab share one engine worker, pages and tabs share the
  saved games, requests share the log document;
* *the network*: calls and reads lost, late, repeated or overtaken;
* *identity*: accounts change while pages are open and answers are under way;
* *reloads*: a page or tab can go at any point, and comes back from what it saved;
* *retries below the code*: the database runs a transaction body again.

What makes each component correct is stated by the properties below; the
hazards that no property covers yet are listed in `PROJECT.json` with the reason.

## Modules

    ChessClock <- ChessMatch <- ChessGame <- ChessGameProofs
                      ^             |  implements ChessOutcome
                      +------- ChessPlay <- ChessPlayProofs
                      +------- ChessMatchProofs <- ChessGameProofs, ChessPlayProofs
    GameEvents <- EventLog <------- EventTimeline <- EventTimelineProofs
                      ^   implements
                      +------- LiveBoard (an append is one step of EventLog) <- LiveBoardProofs
    InviteRecord <- Invites <- InvitesProofs
    GameRecords <- Browser <- NewGame, OrganizeGame, GameSettings, MyLists <- Organizing
    Organizing <- OrganizingProofs
    ListStore <- ListPage, ListsPage <- SpaceMenu
                 ListPage, SpaceMenu, AppState <- Lists <- ListsProofs

**`ChessClock`** has the clock as a record and one operator per method. `resume()`
has no caller and is left out. A clock with status "none" stands for the match
without a clock.

**`ChessMatch`** has the match as a record. chess.js is external: a move attempt
leads to one of `illegal`, `open`, `checkmate`, `stalemate`, `draw`, so every
board the program can meet is some sequence of choices. Move text and PGN are
left out, the reading of the clock on the scoresheet is not.

**`ChessGame`** is a live game under the page's interval: `Elapse` is the time
passing on the turn of the side to move, `Tick` the interval, which reports what
has passed since its last run, `Move` and `Resign` the players. `wall` is a
history variable, the time each side really spent.

**`ChessOutcome`** is what a game promises: plies are added in turn, and a verdict
is given once, by one of three steps that each say who may lose: a move that mates
or draws, the flag of the side to move, or a player who taps Resign. `ChessGame`
implements it with its moves, end reason and `result()`, the sides whose clock shows no
time left, and who tapped Resign (`gaveUp`, history); a flag credited to the wrong side, or
a resignation to the one who resigned, is no step of it.

**`ChessPlay`** has several instances of the play page. Each is opened once for
one game, may be covered by another page (the outlet keeps it alive, its interval
runs on), and is destroyed by going back; then the engine request it waits for
remains (an `orphan`). `store` is localStorage, `stack` the outlet, `engine` the
service of each tab with the requests that wait for `uciok`, those that listen for
a `bestmove` line and the searches posted. `BestMove` gives the line to *every*
listener, as the code does; whether a move found for one position is legal in
another is left open, unless the positions are the same. Reloading a tab destroys
its pages and its worker at any point. `shared` is a history variable: games that
two instances could write at the same time. `FormChoices` is what the hub's form
can ask for.

**`GameEvents`, `EventLog`, `EventTimeline`**: the authority matrix; what the log
promises (events only added at the end, one at a time, no id twice, authorized
sources only); and the append endpoint. A request goes through the handler's and
service's checks (`Validate`), the transaction body (`RunBody`), and the commit.
The database is external: it commits a body's write if the document did not
change since the body read it (`Commit`), runs the body again otherwise, up to
`MaxAttempts` times (`Conflict`), and may fail with the commit made or not
(`Fail`, `Abandon`). The Go variable `added` is modelled as it is: declared
outside the body, never reset. Retries and duplicate deliveries are requests
with the same event.

**`LiveBoard`** has consoles and boards. As the log only grows, the state that
answers a read is the fold of a prefix, and a page is at some prefix (`shown`).
A page's reads overlap, because the poll does not wait for the answer to the last
one; `Lanes` bounds how many. `Store` is one step of `EventLog`, which
`EventTimeline` shows an append to be. A failed append (request lost, refused or
answered with an error, answer lost) ends in a rejected promise and no refresh.
The fold itself, `et.Fold` of gameboard-ext, is outside the repository: only the
order it takes the events in (stamp, then id) is used.

**`InviteRecord`, `Invites`**: an organized game with its roster and answers, the
pages of parents (`rsvpPage`) and of the organizer (`rosterPage`), and the calls
between them and the backend. A call is `sent`, then served in one transaction
and `answered`, or `failed`; the RSVP of a signed-in parent is `stored` before the
participant index is written, in a transaction of its own that may fail unseen.
`Lose` stands for a request or an answer lost and for a server that stops, at any
of these points. A page's `submit` goes on when the answer to its first call
comes: `Added` sends the RSVP with the status that is chosen *then*. The form
stays usable meanwhile, as it does in the page. `Open` is the link opened, or
opened again at any time; the calls of the page as it was go on without anybody
waiting for them. A link names a player of the roster, none, or one who is on no
roster. Typed names are left out, and so are the tokens' encoding and leaving the
page inside the application, where `submit` would go on unseen. `added`,
`answered` and `setbacks` are history.

**`GameRecords`** has the backend's records of games, organized games,
participants and follows, and the calls to them. A call is served one transaction
at a time: `ServeUpdateRead` and `ServeUpdateWrite` are the two of
`UpdateGameSettings`, `ServeListOrganized` and `ServeListInvited` the two queries
of `MyGameInvites`. `Lose` is a lost request or answer, `GiveUp` a failure that
the caller hears of while the call is still being served.

**`Browser`** has what tabs share: the account stored (`auth`) and the drafts of a
browser are one for all its tabs, the page shown is one per tab, and so is the
account that a tab knows of (`session`), which follows the stored one later
(`Learn`). An account may follow another without a sign-out between. **`NewGame`** and
**`OrganizeGame`** are the two pages that draft a game (restore, save on every
change, detour through login, create, clear), **`GameSettings`** the organizer's
form, **`MyLists`** the watched list of created games, the list of organized games
asked for once, and following from a scoreboard. **`Organizing`** puts them
together with going from page to page, reloading, and signing in and out at any
time. Names, colours and the other texts that are set once are one value; what
tells the properties apart is whether a field is blank. `taps` is history: who
tapped Create or Save, what the form showed then and what was sent. So are
`newGameEntered` and `organizeEntered`: what was entered last in a browser. It is
blank again only when exactly that was created; a create that drops the draft with
other input marks it `lost`.

**`ListStore`** has the documents that the list service writes and the pages
watch, as sequences of versions: a watcher is at one version and may go to any
later one, and need not see those between. The endpoints are outside the
repository; `Effect` is what their requests say. **`ListPage`** is one list's page
with its rows (each an object of its own: `mark` tells what the user set off on
it), the filter, the rows being added, and the emojis, which load once and after
which an item is sent. A row is marked by its checkbox (`Check`) or by a swipe, which
takes the row (`Swipe`), waits for the sliding item to close and sends then
(`SwipeClosed`), whatever version of the list has come meanwhile. `busy` are the rows
whose checkbox is disabled, `stuck` (history) those that a failed change left so. **`ListsPage`** is the overview, **`SpaceMenu`** the side
menu, **`AppState`** the look that the tabs of a browser keep in localStorage and
read only at their start. **`Lists`** puts them together with other members of the
space (`ElsewhereItems`, `ElsewhereLists`).

## Runs

| Run | Instance | Properties | What it shows |
|---|---|---|---|
| `chess_match` | one game, clock 3 ms + 1 ms, delay 1 ms, interval up to 2 ms, 3 half-moves, 16 ms; timed and untimed | `TypeOK`, `ClockFollowsBoard`, `ClockStopsAtEnd`, `ChargedForOwnTime`, `NoTimeLost`, `ScoresheetReads`, `TimedGameIsDecided`, `OutcomeDecidedOnce` | time is charged to whom it should be, endings are unique, the scoresheet agrees with the clock |
| `chess_play` | two pages of one tab, two games, moves up to two half-moves by a human | `TypeOK`, `PageFollowsMatch`, `BoardIsSaved`, `SavedGameGrows`, `EachSideMovesForItself`, `EngineAnswersAlone` | pages, saved games and late engine answers agree through leaving, reloading, resigning and rematch; who has the tab to itself gets the engine's move |
| `chess_engine_shared` | two pages, two games | `EngineAnswers` is violated | see Findings, 2 |
| `chess_result_shown` | one page, one game | `ResultIsShown` is violated | see Findings, 1 |
| `event_timeline` | three requests, five events (two under one id, one from a wrong source, one without a type), two attempts | `TypeOK`, `RepliesHonest`, `LogKeepsPromise` | the log implements `EventLog` and callers are told what is so |
| `event_applied_once` | three requests with one event | `AppliedOnce` is violated | see Findings, 3 |
| `live_board` | a console with two reads under way and a board with one, two clicks | `TypeOK`, `ClickCountsOnce`, `OwnClicksInOrder`, `RefreshShowsOwnAppend`, `EveryPageCatchesUp` | what a slow and lossy network cannot break |
| `invites` | two parents and the organizer, one player listed, one link for no player of the roster; the calls shared out in four ways | `TypeOK`, `AnswerGoesToOwnKid`, `ConfirmedIsStored`, `OneEntryPerTry`, `IndexedHaveAnswered`, `RefreshHasWhatWasAdded`, `EveryPageSettles` | answers are about the right kid and counted once, and what retries can leave behind is exactly what failed |
| `rsvp_confirmation` | one parent | `ConfirmedAsSent` is violated | see Findings, 4 |
| `organizing` | three tabs of two browsers, two accounts; ten scenarios | `TypeOK`, `GamesAreReported`, `SettingsFromOneForm`, `OwnGamesShown`, `WhatIsToldIsSo`, `RoundTripKeepsInput`, `EveryTapSettles` | input survives the detour through login until a game is created, one tap makes one game, of the account that tapped and with what the form showed, settings are never a mix, what a page tells is so, and the list of created games takes in no other account's |
| `draft_kept` | the scenario of a second try | `DraftKept` is violated | see Findings, 5 |
| `lists` | a list's page, the overview and the menu of four lists, two tabs; nine scenarios | `TypeOK`, `AddingShownOnce`, `QuietPagesAreTrue`, `NothingHangs` | what the pages change before they are answered agrees with what is stored once all is answered |

*Bounds.* In `chess_match` the clock is so short that every position relative to
its end occurs: a delay used up in the middle of a report, a flag in the first or
last millisecond of a report, an increment after either. Three half-moves let both
sides move and one move again. Two pages are the smallest number that share, and
two games separate sharing the engine from sharing a saved game. Three requests
are one more than a race needs: one can conflict with each of the others, and with
two attempts it can succeed after a conflict or give up. Two clicks are the
smallest number that can overtake each other. In `invites` the calls are shared
out (`FourInterplays`) so that two parents answer at once, one parent can fail in
the second call and try again, a parent and the organizer add kids at the same
time, and the organizer has two adds and their reads under way. In `organizing` and
`lists` a scenario says what there is to begin with, which pages are used and how
many calls and changes are made; each is the smallest in which one kind of trouble
can happen, and with all of them at once the state space would be out of reach.
For `organizing`: a game from the first field on with a sign-in between; a draft
from before and a second try; two tabs with one draft; an organized game with a
sign-in between, and one made twice; the organizer's form on two devices; a
stranger's; the lists while accounts change, in the same tab and in another; two
followers. For `lists`: adding while another member
does, adding and clearing, marking while another member does, marking with
clearing or sorting, sorting while another member does, removing lists while
another member does, going between overview and page, and two tabs changing the
look. In the scenarios that sort, nothing is added or cleared and at most one change
comes from elsewhere: `reorder()` writes the row back at the index it was dragged
from, and where two rows have gone meanwhile that leaves a hole in the page's array,
on which the filter throws. `CHECK_DEADLOCK FALSE` is set where
a decided game or answered requests leave nothing to do.

*Fairness.* `ChessGame`: time passes and the browser runs the interval; nobody is
assumed to move. `ChessPlay`: the worker, once started, loads, and answers a
position it was given; users are not fair. `LiveBoard`: the poll timer runs
(weak), and of reads tried again for ever some are answered (strong: a page that
never gets an answer learns nothing, whatever the code does). `Invites`,
`Organizing`, `Lists`: calls are served or fail, pages take the answers, and the
database sends what is watched (weak), because requests time out and the browser
runs the callbacks it has; in `Lists` the emojis load or fail to, too, and a swiped
row closes (its `close()` is an animation that ends). Nobody is
assumed to click. `EventTimeline` has safety properties only.

*Symmetry* is used for the requests of `EventTimeline`, which has no liveness
property.

## Findings

1. **The result is not shown when the game ends while the engine thinks**
   (`chess_result_shown`). `finalize()` terminates the worker
   (`A/chess/chess-play-page.component.ts:568`); the promise of `bestMove()` never
   settles, `computerThinking` stays true and the status line, which looks at it
   first, says for ever that Stockfish is thinking. The buttons to resign are
   offered during that time, and the human's opponent can lose on time then, too.
   The chess-mvp feature says "When a game ends (...), the result is displayed"
   (`src/spec/features/chess-mvp/README.md:62`).
2. **Pages that share the engine can lose its answer** (`chess_engine_shared`):
   `A/chess/stockfish.service.ts:49` resolves every listener with the next
   `bestmove` line; a page drops a reply that is illegal on its board, and
   `terminate()` ends other pages' requests. `src/spec/features/chess-mvp/README.md:110`:
   "Then Black (Stockfish) automatically makes a legal reply without further user
   action." `EngineAnswersAlone` (run `chess_play`) says that a page
   that has the tab to itself is answered.
3. **A rerun transaction reports what it did not do** (`event_applied_once`):
   `added` in `B/store_dalgo.go:78` survives from a body that did not commit into
   its rerun, which finds the event stored by a duplicate, and the caller is told
   201 "appended". `B/store.go:19` says that such an append "reports added=false".
   The log itself is right (`LogKeepsPromise`).
4. **The confirmation names a status that was not sent** (`rsvp_confirmation`):
   `A/game-invites/rsvp-page.component.ts:230` shows `status()` as it is when the
   answer arrives, and the chips that change it stay enabled while the answer is
   being sent. The kid that the confirmation names is right (`ConfirmedIsStored`).
5. **A created game takes newer input with it** (`draft_kept`): `create()` drops the
   browser's one draft when the answer comes (`A/new-game/new-game-page.component.ts:509`),
   whatever was saved into it since the tap. A field changed while the call is under
   way, or in another tab, is gone when the form is opened again; the
   anon-first-new-game feature says that changes are "persisted to `localStorage` as a
   single most-recent draft", from which the user "resumes where they left off"
   (`src/spec/features/anon-first-new-game/README.md:34`, `:38`). Nothing else loses
   what was saved (`RoundTripKeepsInput`).

What the models show besides, without a document that says otherwise or of less
weight than the above:

* the order of the log is the consoles' clocks': `A/game/game-state.ts:144` stamps with
  the console's `Date.now()`, so an event made when another console's is already stored
  can be stamped earlier than it, and is folded before it, where the event-timeline
  feature speaks of a "server-assigned" timestamp
  (`src/spec/features/sports/gameboard-live/event-timeline/README.md:75`). What the
  client's stamp does give is `OwnClicksInOrder`: one operator's events are folded in the
  order made, however their requests arrive, as long as the console's clock advances
  between clicks;
* the three fields of the next player on the organize page
  (`A/game-invites/organize-game-page.component.ts:398-400`) are not among those that
  the effect saves, so a row that was typed but not added does not survive the sign-in,
  although the page's comment says that "every field is drafted" (lines 66-68);
  `RoundTripKeepsInput` is about what is saved, without that row;
* the answer that lists the organized games is shown whoever is signed in when it comes
  (`A/game-invites/game-invites-list-page.component.ts:191`), which can be another account
  than the one that it was asked for; the list of created games, which switches its
  query, is right (`OwnGamesShown`);
* an RSVP that fails after the kid was added leaves the kid on the roster, and the
  retry adds it again (`OneEntryPerTry` is tight); the organizer's page can show
  the older of two overlapping reads last;
* the menu's comment says that it mirrors the lists page, but it drops the
  persisted lists of the built-in groups, which the overview keeps;
* the completion of a reorder overwrites the row at the old index, whichever it is
  by then (`L/pages/list/list-page.component.ts:336`);
* an item that is being added is shown until a version of the list comes, and again
  when one has it: any version drops the rows that are being added
  (`L/pages/list/list-page.component.ts:228`), also one that does not have the item yet;
* the checkbox of a row whose change failed stays disabled
  (`L/pages/list/list-item/list-item.component.ts:208`): only success enables it again;
* when one account directly follows another, as it may from another tab, the list of
  organized games asks for nothing and stays that of the account before.

## Proofs

`ChessMatchProofs` has the lemmas about the operations of clock and match that the
proofs about a game and about the pages share.

`ChessGameProofs`, for every base time, increment, delay, interval and bound:

* `ClockInvariant`: `TypeOK` with `ClockFollowsBoard`, `ClockStopsAtEnd` and
  `EndingRecorded`. The last says that the end reason, the state of the board and
  the state of the clock agree; without it, a paused clock says nothing about why
  the game ended, and the invariant is not inductive.
* `ChargedForOwnTimeHolds` and `NoTimeLostHolds`. The time charged changes in
  `Tick` and in `Move`, where the increment and the count of moves cancel out
  (`ChargedByTick`, `ChargedByMove`). The inductive invariants add what is still
  to be charged: the part of the interval that has passed (`unticked`) and whom it
  will be charged to, and the delay left.
* `ScoresheetReadsHolds`: the readings of the lines already written, the relation
  of the last two to the clock now, and a bound on the clock of the mover.
* `OutcomeRefined`: every step of `ChessGame` is one of `ChessOutcome`, which say who
  may lose by it, or leaves what it speaks of alone. It needs of the clock that
  it runs for the side to move, and that nobody is out of time before the flag falls.

`ChessPlayProofs`, for any pages, tabs, games and time controls: the invariant
`PlayInv` adds three things to what is to be shown. A game that two pages hold is
known to be shared (`SharedKnown`): so a page that is alone with its game is the
only one to write it, also when one answer of the engine makes several pages write.
What a page holds is stored (`HeldIsStored`): so a new game is no page's. And whoever
waits for the engine plays against it, in that tab, and is not over (`AwaitedRight`):
because the end of a game against the engine frees it, no late answer finds a page
that is gone for good or a game that is decided. From it follow `PlayTypeCorrect`, `PageFollowsMatchHolds`
and `BoardIsSavedHolds`. `TurnInv` adds three more: what a recap shows of a game that
nobody shares is what is saved (`RecapIsSaved`), a page that waits for the engine is
thinking and it is the engine's turn (`AskedRight`), so its board takes no move from the
human meanwhile, and nobody waits for a worker that runs (`EnginesRight`). From it follow the action properties `SavedGameGrowsHolds`, also when one answer makes several pages
move, and `EachSideMovesForItselfHolds`. That the last of the answered pages is the one whose
document stays needs a greatest element of a set of indices (`MaxIsMember`).

`EventTimelineProofs`, for any events, requests and number of attempts: the
invariant `LogInv` says that a request in the transaction has passed the checks,
and that when its commit will not conflict, the body's answer (`writes`) is about
the log as it is (`BodyUpToDate`). From it follow `RepliesHonestHolds`,
`EveryEventWasSentHolds` (every stored event was brought by a signed-in request; no
run checks it, the theorem does) and `LogRefined`, which says that the endpoint
implements `EventLog`. `OnceInv` adds what is reported to it: no id is in the log
twice (`EachIdOnceHolds`), and a body that runs for the first time reports what it
does. So of two requests told that they appended one event, one had its body run
again (`AppliedOnceUnlessRerunHolds`), and where no body is run again,
`AppliedOnce` holds (`AppliedOnceWithoutReruns`): the rerun is the only way to
Finding 3.

`LiveBoardProofs`, for any consoles, boards, lanes and number of clicks: the
invariant `BoardInv` follows an event from its click (it is the only one of its
click and under its id, whether on its way or stored, and its stamp is no later than
its console's clock), and says that a read which follows an append is for a log that
has the event. `TypeCorrect`, `ClickCountsOnceHolds` and `OwnClicksInOrderHolds`
follow from it, and so does the action property `RefreshShowsOwnAppendHolds`.

`InvitesProofs`, for any parents, links and budgets: the invariant `InvitesInv` says
of each call under way what its answer may be relied on for: one that adds a kid,
that the last of the roster it is answered with is the caller's kid; one that answers
for a kid just added, that the kid is on the roster; the organizer's read, whom it
has. A call stays right because the roster and the answers only grow (`Keeps`,
`StaysRight`). From it follow `AnswerGoesToOwnKidHolds`, `IndexedHaveAnsweredHolds`
and `RefreshHasWhatWasAddedHolds`. `RsvpInv` is about the parents' pages on top of it:
which call a page waits for (`AwaitsRight`), that a confirmation rests on an answer
stored for the kid it names (`ConfirmedRight`), and that a parent's kids on the roster
with those whose call is still to be served are no more than the parent's setbacks and
the try at hand (`TriesRight`). From it follow `TypeCorrect`, `ConfirmedIsStoredHolds`
and `OneEntryPerTryHolds`.

`OrganizingProofs`, for any accounts, browsers, tabs, games and plans:

* `OwnGamesShownHolds`: a page watches nobody's games but those of the account that
  its tab has signed in, also after a direct change of account, and a game never
  changes hands (`OwnInv`); so a snapshot, however late, is of the right account.
* `RoundTripKeepsInputHolds`: the draft of a browser restores to what was entered
  there last, unless that is what was created or was lost to a create of something
  else (`DraftsInvariant`). That needs the drafts to be well formed; a page's own
  input is what was entered in *its* tab only, which may be older than the draft.
* `SettingsFromOneFormHolds`: calls come from taps, so each call that may change a
  game has the body that its tap showed, and one past the first transaction of
  `UpdateGameSettings` was checked to be the organizer's (`SettingsInv`). The check
  still holds at the write, in the second transaction, because games are never
  deleted and never change hands; without that, the property would be false. That
  both fields are sent (`SaveBody`) is why what was read before is never written back.
* `GamesAreReportedHolds`, `WhatIsToldIsSoHolds` and `TypeCorrect`: a call has the
  number, the account and what the form showed of the tap that made it, and leaves a
  record under it only when it is served (`CallFine`); a record has the same of its
  tap, and no two are of one (`RecordsFine`); and the page whose tap
  is not over is there and waits for that number (`Waiting`); so what a page tells of a
  game created, an organized game, settings or a follow is of the tap it waited for
  (`ToldFine`). All of it is `ReportedInv`. It was not inductive at first: in the model
  a page that replaced another left the other's tap open. Now the tap that a page waits
  for ends with the page, as in the code, where the component is destroyed.

`ListsProofs`, for any lists, tabs, groups, items and budgets: `ListsInv` has five
parts besides the types.

* `AddingInv` follows the id of an item that is added, which no other item has: it
  waits for an emoji, is being added or is one of the list's, and never two of these
  on a page.
* `WaitInv` is about the calls that add an item and are awaited: each adds one, no two
  the same, which is in no version before the call is served and in none twice; as long
  as the page has the version it had at the tap, the row being added is shown.
  With `AddingInv`, and that filtering keeps each row once, it gives
  `AddingShownOnceHolds`.
* `ListInv` says what the marks of the rows are worth. A row is shown as being added
  while a call adds it. On a page that has the last version no row is a change that
  succeeded, because that made a version; so if all rows are stored ones, they are
  that version (`RowsTrue`), and what is shown passes the filter or has a row left
  over (`ShownTrue`).
* `OverviewInv`: an overview that has the last version, and passed over none that
  was not its own, shows its lists, and others only if they are about to go
  (`OverviewTrue`). A removal that is done has made a version without the list, and
  no removal is for a generation of groups that is yet to come (`RemovalsRight`):
  hence one that is answered late takes nothing from the groups shown now.
* `LookInv`: a tab that was not left behind has the look that is saved.

With no call under way `ListInv`, `OverviewInv` and `LookInv` give
`QuietPagesAreTrueHolds`. What `RowsAt`
picks, and in which order, is proved by a least counterexample (`LeastOf`), as
induction over sequences is out of the prover's reach; so is that the picked rows of
a list of briefs are the briefs of the picked rows (`BriefsOfRowsAt`).

The assumptions are those of the modules (`TimeControlAssumption`, `PlayAssumption`,
`DocAssumption`, `HostAssumption`, `EventAssumption`, `DatabaseAssumption`, `LiveBoardAssumption`,
`InviteAssumption`, `RecordsAssumption`, `BrowserAssumption`,
`OrganizingAssumption`, `StoreAssumption`, `ListsPageAssumption`, `MenuAssumption`,
`ListsAssumption`), which TLC evaluates in the runs. Of these, some only keep
values apart that are apart in the code (a field left out and a field left blank, no
draft and a draft, no saved game and a saved game), `OrganizingAssumption` says that a draft
that is there to begin with is one that the page saved, and `ListsAssumption` that the ids of
the items to be added are none that the list has to begin with, that the space's
document has each list once, and what is sorted meanwhile (see Bounds).

Every invariant and every action property that a run finds to hold is the property of a
theorem. Only model-checked is liveness (`TimedGameIsDecided`, `EngineAnswers`,
`EngineAnswersAlone`, `EveryPageCatchesUp`, `EveryPageSettles`, `EveryTapSettles`,
`NothingHangs`), which needs fairness and ENABLED; and the five runs that find a
violation are counterexamples, which need no proof.

## Plan

Written so far, in this order: the chess modules, the event timeline, `LiveBoard`,
the invites, `Organizing`, `Lists`; then the proofs, of each safety property. What is
left:

1. shorter proofs where a lemma serves several actions: the steps of `Organizing` that
   leave a part's variables alone are treated part by part;
2. theorems that say, of the other findings, what they take, as
   `AppliedOnceWithoutReruns` does of Finding 3.

## Not modelled

The scoreboard's rendering, the PGN's text, the landing pages, configuration and
wiring of the daemon, and Firestore rules. Clearing the browser's storage while
pages are open is not modelled, nor is the opening of one page for several games in
turn. Saving a chess game is assumed to succeed: were the storage full, `writeAll`
(`A/chess/chess-game-store.ts:86`) would throw out of `persist()`, the move would be on the
board but not saved, and the engine would not be asked. In `LiveBoard` pages are not
left, and a console's clock is assumed to advance between two clicks and not to be set
back, which `Date.now()` does not guarantee. The fold of events and what its box score
shows are gameboard-ext's. `chess-clock.ts` `resume()` and the deletion of saved
games have no caller.

Of the lists: the dialog that creates a list (it is given no type of list and never
creates one), the inline form of the overview (it is never shown), copying and
renaming, and changing to another space. The ids of new items, three random characters
each, are assumed never to meet; the code checks them only against the items that are
loaded (`L/pages/list/new-list-item/new-list-item.component.ts:69`). A list that is kept by the space is not
deleted with its last row (`Kept`), so the document under the page stays.
