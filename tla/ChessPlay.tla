----------------------------- MODULE ChessPlay -----------------------------
(***************************************************************************)
(* The chess pages at work: play pages (chess-play-page.component.ts) in   *)
(* one or more browser tabs, the saved games they share                    *)
(* (chess-game-store.ts, localStorage) and, in each tab, the one engine    *)
(* service (stockfish.service.ts) all its pages ask for moves.             *)
(*                                                                         *)
(* A page is an instance of the play page component: it is opened once,    *)
(* for one game.  The app's outlet keeps the pages below the visible one   *)
(* alive, so a covered page keeps ticking; going back destroys the page,   *)
(* but not the engine request it is waiting for.                           *)
(***************************************************************************)
EXTENDS ChessMatch, SequencesExt

CONSTANTS
    Pages,       \* play page instances
    Games,       \* game ids
    Tabs,        \* browser tabs
    TabOf,       \* the tab each page instance lives in
    NoGame,      \* the game of a page not opened yet
    NoDoc,       \* what getChessGame returns for an unknown id: null
    Positions,   \* bound: what a move can lead to, of BoardStatus
    MaxPlies     \* bound: half-moves a human adds to

ASSUME PlayAssumption ==
    /\ TabOf \in [Pages -> Tabs]
    /\ NoGame \notin Games
    /\ Positions \subseteq BoardStatus
    /\ MaxPlies \in Nat

VARIABLES
    store,     \* localStorage: the saved game of each id
    page,      \* each page instance
    stack,     \* each tab's stack of open pages, the visible one last
    engine,    \* each tab's StockfishService
    shared     \* history: games that two page instances held at the same time

vars == <<store, page, stack, engine, shared>>

-----------------------------------------------------------------------------
\* The saved game.  `human' is the human's colour in a vs-computer game.

Human == Color \cup {NoSide}

DocType ==
    [human     : Human,
     timed     : BOOLEAN,
     moves     : Seq(MoveRecord),
     status    : {"in-progress", "complete"},
     result    : Verdict,
     endReason : EndReason]

ASSUME DocAssumption == NoDoc \notin DocType

NewDoc(human, timed) ==
    [human |-> human, timed |-> timed, moves |-> << >>,
     status |-> "in-progress", result |-> "*", endReason |-> "none"]

Swapped(human) == IF human = NoSide THEN NoSide ELSE Opponent(human)

\* The doc persist() writes: the page's doc overlaid with the match.
DocOf(doc, match) ==
    [doc EXCEPT !.moves     = match.moves,
                !.status    = IF IsOver(match) THEN "complete" ELSE "in-progress",
                !.result    = Result(match),
                !.endReason = EndReasonValue(match)]

-----------------------------------------------------------------------------
\* The page.  An `orphan' was destroyed while it waited for the engine.

NoMatch == NewMatch(FALSE)

PageType ==
    [state    : {"new", "open", "orphan", "dead"},
     game     : Games \cup {NoGame},
     view     : {"live", "recap", "missing"},
     match    : MatchType,
     doc      : DocType \cup {NoDoc},
     isOver   : BOOLEAN,
     thinking : BOOLEAN,
     ticking  : BOOLEAN]

FreshPage ==
    [state |-> "new", game |-> NoGame, view |-> "live", match |-> NoMatch,
     doc |-> NoDoc, isOver |-> FALSE, thinking |-> FALSE, ticking |-> FALSE]

\* What is left of a page that was destroyed with nothing outstanding: nothing.
DeadPage == [FreshPage EXCEPT !.state = "dead"]

IsVsComputer(pg) == pg.doc # NoDoc /\ pg.doc.human # NoSide

\* maybeTriggerComputerMove()'s three early returns.
EngineToMove(pg) ==
    /\ pg.view = "live"
    /\ IsVsComputer(pg)
    /\ Turn(pg.match) # pg.doc.human
    /\ ~IsOver(pg.match)

\* A faulty load(): any unfinished game goes live again, on an empty board.
LoadedResumes(g) ==
    LET doc  == store[g]
        pg   == [FreshPage EXCEPT !.state = "open", !.game = g, !.doc = doc]
    IN  IF doc = NoDoc THEN [pg EXCEPT !.view = "missing"]
        ELSE IF doc.status = "in-progress"
        THEN [pg EXCEPT !.match = MatchStart(NewMatch(doc.timed)), !.ticking = TRUE]
        ELSE [pg EXCEPT !.view = "recap", !.isOver = TRUE]

\* load(): an unstarted game goes live, any other saved game is a read-only recap.
Loaded(g) ==
    LET doc  == store[g]
        pg   == [FreshPage EXCEPT !.state = "open", !.game = g, !.doc = doc]
        live == [pg EXCEPT !.match = MatchStart(NewMatch(doc.timed)), !.ticking = TRUE]
    IN  IF doc = NoDoc THEN [pg EXCEPT !.view = "missing"]
        ELSE IF doc.moves = << >> /\ doc.status = "in-progress"
        THEN [live EXCEPT !.thinking = EngineToMove(live)]
        ELSE [pg EXCEPT !.view = "recap", !.isOver = (doc.status = "complete")]

\* persist().  The document is stored by the step that calls it: localStorage is assumed
\* to take it.  (Were it full, the exception would leave the move on the board, unsaved,
\* and the engine not asked.)
Persisted(pg) == [pg EXCEPT !.doc = DocOf(@, pg.match)]

\* A faulty finalize(): the interval is not cleared.
FinalizedStillTicking(pg) == [Persisted(pg) EXCEPT !.isOver = TRUE]

\* finalize()
Finalized(pg) == [Persisted(pg) EXCEPT !.ticking = FALSE, !.isOver = TRUE]

\* A faulty variant: the game is only saved when it ends.
MovedSavedAtEnd(pg) == IF IsOver(pg.match) THEN Finalized(pg) ELSE pg

\* What follows an accepted move: persist(), and finalize() if it ended the game.
Moved(pg) == IF IsOver(pg.match) THEN Finalized(pg) ELSE Persisted(pg)

-----------------------------------------------------------------------------
\* The engine service of a tab.  Requests wait for the worker's `uciok', then
\* listen for a `bestmove'; the worker searches the posted positions in turn.

EngineType ==
    [worker    : {"off", "booting", "ready"},
     waiting   : Seq(Pages),
     listening : Seq(Pages),
     searches  : Seq(Pages)]

IdleEngine == [worker |-> "off", waiting |-> << >>, listening |-> << >>, searches |-> << >>]

\* A faulty bestMove(): the position is posted, the `go' command is not.
AskedWithoutGo(e, p) ==
    IF e.worker = "ready"
    THEN [e EXCEPT !.listening = Append(@, p)]
    ELSE [e EXCEPT !.worker = "booting", !.waiting = Append(@, p)]

\* bestMove(), up to the point where it waits.
Asked(e, p) ==
    IF e.worker = "ready"
    THEN [e EXCEPT !.listening = Append(@, p), !.searches = Append(@, p)]
    ELSE [e EXCEPT !.worker = "booting", !.waiting = Append(@, p)]

AskedIf(thinking, e, p) == IF thinking THEN Asked(e, p) ELSE e

\* finalize() frees the engine of a vs-computer game: whatever any page of the
\* tab was waiting for is never answered.
FreedIf(pg, e) == IF IsOver(pg.match) /\ IsVsComputer(pg) THEN IdleEngine ELSE e

Outstanding(p) ==
    LET e == engine[TabOf[p]]
    IN  p \in Range(e.waiting) \cup Range(e.listening)

-----------------------------------------------------------------------------
Init ==
    /\ store = [g \in Games |-> NoDoc]
    /\ page = [p \in Pages |-> FreshPage]
    /\ stack = [t \in Tabs |-> << >>]
    /\ engine = [t \in Tabs |-> IdleEngine]
    /\ shared = {}

\* What the hub's form can be set to: a side against the engine, or two players; a
\* clock or none.
FormChoices == [human : Human, timed : BOOLEAN]

\* The hub's start(): the game is saved, the play page is opened from its id.
StartGame(g) ==
    /\ store[g] = NoDoc
    /\ \E form \in FormChoices :
          store' = [store EXCEPT ![g] = NewDoc(form.human, form.timed)]
    /\ UNCHANGED <<page, stack, engine, shared>>

\* q can still write g, now or once the engine answers it.
Holds(q, g) == page[q].game = g /\ page[q].state \in {"open", "orphan"}

\* Navigation to /chess/play/g.  A page of the tab's stack with that address
\* would be shown again instead of a new one being made.
OpenPage(p, g) ==
    LET t  == TabOf[p]
        pg == Loaded(g)
    IN  /\ page[p].state = "new"
        /\ \A q \in Range(stack[t]) : page[q].game # g
        /\ page' = [page EXCEPT ![p] = pg]
        /\ stack' = [stack EXCEPT ![t] = Append(@, p)]
        /\ engine' = [engine EXCEPT ![t] = AskedIf(pg.thinking, @, p)]
        /\ shared' = IF \E q \in Pages : Holds(q, g) THEN shared \cup {g} ELSE shared
        /\ UNCHANGED store

\* Back: the visible page is destroyed and its interval cleared (onDestroy).
LeavePage(t) ==
    /\ stack[t] # << >>
    /\ LET p == Last(stack[t])
       IN  page' = [page EXCEPT ![p] =
              IF Outstanding(p)
              THEN [@ EXCEPT !.state = "orphan", !.ticking = FALSE]
              ELSE DeadPage]
    /\ stack' = [stack EXCEPT ![t] = Front(@)]
    /\ UNCHANGED <<store, engine, shared>>

\* The tab is reloaded or closed: its pages, requests and worker are gone.
ReloadTab(t) ==
    /\ page' = [p \in Pages |->
          IF TabOf[p] = t /\ page[p].state # "new" THEN DeadPage ELSE page[p]]
    /\ stack' = [stack EXCEPT ![t] = << >>]
    /\ engine' = [engine EXCEPT ![t] = IdleEngine]
    /\ UNCHANGED <<store, shared>>

\* The interval runs, in a visible or a covered page.
TickPage(p) ==
    LET t      == TabOf[p]
        ticked == [page[p] EXCEPT !.match = MatchTick(@, 1)]
    IN  /\ page[p].state = "open"
        /\ page[p].ticking
        /\ IF IsOver(ticked.match)
           THEN /\ page' = [page EXCEPT ![p] = Finalized(ticked)]
                /\ store' = [store EXCEPT ![page[p].game] = Finalized(ticked).doc]
           ELSE /\ page' = [page EXCEPT ![p] = ticked]
                /\ UNCHANGED store
        /\ engine' = [engine EXCEPT ![t] = FreedIf(ticked, @)]
        /\ UNCHANGED <<stack, shared>>

Visible(p) == stack[TabOf[p]] # << >> /\ Last(stack[TabOf[p]]) = p

\* A faulty guard: any drop on an idle board is a move, whoever's turn it is.
MayMoveOnAnyTurn(pg) == pg.view = "live" /\ ~pg.isOver /\ ~pg.thinking

\* The board takes a move unless the view is read-only, the game is over or the
\* engine is thinking; in a vs-computer game only on the human's turn.
MayMove(pg) ==
    /\ pg.view = "live"
    /\ ~pg.isOver
    /\ ~pg.thinking
    /\ IsVsComputer(pg) => Turn(pg.match) = pg.doc.human

\* onBoardMoved()
HumanMove(p) ==
    LET t == TabOf[p]
    IN  /\ Visible(p)
        /\ MayMove(page[p])
        /\ Len(page[p].match.moves) < MaxPlies
        /\ \E attempt \in Positions :
              LET moved == Moved([page[p] EXCEPT !.match = MatchMove(@, attempt)])
                  asks  == EngineToMove(moved)
              IN  /\ page' = [page EXCEPT ![p] = [moved EXCEPT !.thinking = asks]]
                  /\ store' = [store EXCEPT ![page[p].game] = moved.doc]
                  /\ engine' = [engine EXCEPT ![t] = AskedIf(asks, FreedIf(moved, @), p)]
        /\ UNCHANGED <<stack, shared>>

\* resign() in a live game; offered while the engine thinks, too.
ResignLive(p, c) ==
    LET t        == TabOf[p]
        resigned == Finalized([page[p] EXCEPT !.match = MatchResign(@, c)])
    IN  /\ Visible(p)
        /\ page[p].view = "live"
        /\ ~page[p].isOver
        /\ page' = [page EXCEPT ![p] = resigned]
        /\ store' = [store EXCEPT ![page[p].game] = resigned.doc]
        /\ engine' = [engine EXCEPT ![t] = FreedIf(resigned, @)]
        /\ UNCHANGED <<stack, shared>>

\* resignFromRecap(): the doc the page loaded is completed and saved.
ResignFromRecap(p, c) ==
    LET doc == [page[p].doc EXCEPT !.status = "complete",
                                   !.result = WinFor(Opponent(c)),
                                   !.endReason = "resignation"]
    IN  /\ Visible(p)
        /\ page[p].view = "recap"
        /\ ~page[p].isOver
        /\ page[p].doc.status = "in-progress"
        /\ page' = [page EXCEPT ![p].doc = doc, ![p].isOver = TRUE]
        /\ store' = [store EXCEPT ![page[p].game] = doc]
        /\ UNCHANGED <<stack, engine, shared>>

\* rematch(): a new game with the sides swapped, its page in the place of p.
Rematch(p, q, g) ==
    LET t == TabOf[p]
    IN  /\ Visible(p)
        /\ page[p].view # "missing"
        /\ page[p].isOver
        /\ page[q].state = "new"
        /\ TabOf[q] = t
        /\ store[g] = NoDoc
        /\ LET doc  == NewDoc(Swapped(page[p].doc.human), page[p].doc.timed)
               pg   == [FreshPage EXCEPT !.state = "open", !.game = g, !.doc = doc,
                                         !.match = MatchStart(NewMatch(doc.timed)),
                                         !.ticking = TRUE]
               asks == EngineToMove(pg)
           IN  /\ store' = [store EXCEPT ![g] = doc]
               /\ page' = [page EXCEPT ![p] = DeadPage, ![q] = [pg EXCEPT !.thinking = asks]]
               /\ stack' = [stack EXCEPT ![t] = Append(Front(@), q)]
               /\ engine' = [engine EXCEPT ![t] = AskedIf(asks, @, q)]
        /\ UNCHANGED shared

\* The worker answers `uciok': every waiting request posts its position.
WorkerReady(t) ==
    /\ engine[t].worker = "booting"
    /\ engine' = [engine EXCEPT
          ![t] = [worker |-> "ready", waiting |-> << >>,
                  listening |-> @.waiting, searches |-> @.waiting]]
    /\ UNCHANGED <<store, page, stack, shared>>

\* Whether a move found for q's position is legal in p's without further ado.
SamePosition(p, q) ==
    \/ p = q
    \/ page[p].game = page[q].game /\ page[p].match.moves = << >> /\ page[q].match.moves = << >>

\* bestMove().then(): the page stops waiting and plays the move if it is legal.
Answered(pg, attempt) ==
    LET played == [pg EXCEPT !.thinking = FALSE, !.match = MatchMove(@, attempt)]
    IN  IF IsOver(pg.match) \/ attempt = "illegal"
        THEN [pg EXCEPT !.thinking = FALSE]
        ELSE Moved(played)

\* The pages that a `bestmove' line reaches, each with what it makes of the reply.
AnsweredPages(listening, reply) == [p \in Range(listening) |-> Answered(page[p], reply[p])]

PlayedBy(answered) == {p \in DOMAIN answered : answered[p].match # page[p].match}

\* Each page that played saves its game: the last to save a game is the one that counts.
LastToSave(g, listening, played) ==
    SelectLastInSeq(listening, LAMBDA p : p \in played /\ page[p].game = g)

SavedBy(answered, listening) ==
    LET last == [g \in Games |-> LastToSave(g, listening, PlayedBy(answered))]
    IN  [g \in Games |-> IF last[g] = 0 THEN store[g] ELSE answered[listening[last[g]]].doc]

\* The engine after it answered; a game that ended by the reply freed it.
EngineAfter(e, answered) ==
    IF \E p \in PlayedBy(answered) : IsOver(answered[p].match)
    THEN IdleEngine
    ELSE [e EXCEPT !.listening = << >>, !.searches = Tail(@)]

\* The worker finishes the oldest search.  Its `bestmove' line reaches every
\* listener of the tab, whichever position it was found for.
BestMove(t) ==
    LET e == engine[t]
    IN  /\ e.searches # << >>
        /\ \E reply \in [Range(e.listening) -> Positions \cup {"illegal"}] :
              LET answered == AnsweredPages(e.listening, reply)
              IN  /\ \A p \in DOMAIN reply :
                        SamePosition(p, Head(e.searches)) => reply[p] # "illegal"
                  /\ page' = [p \in Pages |->
                        IF p \in DOMAIN reply THEN answered[p] ELSE page[p]]
                  /\ store' = SavedBy(answered, e.listening)
                  /\ engine' = [engine EXCEPT ![t] = EngineAfter(e, answered)]
        /\ UNCHANGED <<stack, shared>>

EngineStep(t) == WorkerReady(t) \/ BestMove(t)

Next ==
    \/ \E g \in Games : StartGame(g)
    \/ \E p \in Pages, g \in Games : OpenPage(p, g)
    \/ \E t \in Tabs : LeavePage(t)
    \/ \E t \in Tabs : ReloadTab(t)
    \/ \E p \in Pages : TickPage(p)
    \/ \E p \in Pages : HumanMove(p)
    \/ \E p \in Pages, c \in Color : ResignLive(p, c)
    \/ \E p \in Pages, c \in Color : ResignFromRecap(p, c)
    \/ \E p, q \in Pages, g \in Games : Rematch(p, q, g)
    \/ \E t \in Tabs : EngineStep(t)

Spec == Init /\ [][Next]_vars

\* A worker that was started loads, and one that was given a position answers.
FairSpec == Spec /\ \A t \in Tabs : WF_vars(EngineStep(t))

-----------------------------------------------------------------------------
TypeOK ==
    /\ store \in [Games -> DocType \cup {NoDoc}]
    /\ page \in [Pages -> PageType]
    /\ stack \in [Tabs -> Seq(Pages)]
    /\ engine \in [Tabs -> EngineType]
    /\ shared \subseteq Games

\* The page follows its match: it offers Rematch exactly when the game is over,
\* and its interval runs only in an open page with a game to time, so no timer
\* outlives the page or the game (stopTicking in finalize, load and onDestroy).
PageFollowsMatch ==
    \A p \in Pages :
        /\ page[p].ticking =>
              page[p].state = "open" /\ page[p].view = "live" /\ ~IsOver(page[p].match)
        /\ page[p].state = "open" /\ page[p].view = "live" =>
              page[p].isOver = IsOver(page[p].match)
        /\ page[p].state = "open" /\ page[p].view = "recap" =>
              page[p].isOver = (page[p].doc.status = "complete")

\* What the only live page of a game shows is what a reload would find: every
\* accepted move and the ending are saved in the step that made them.
BoardIsSaved ==
    \A p \in Pages :
        /\ page[p].state \in {"open", "orphan"}
        /\ page[p].view = "live"
        /\ page[p].game \notin shared
        => store[page[p].game] = DocOf(page[p].doc, page[p].match)

\* A saved game never rewinds: while two page instances never held it at once, its moves
\* only grow, a decided game is never written again and never undecided, even
\* through a reload, a resignation from the recap or a late engine reply.
SavedGameGrows ==
    [][\A g \in Games :
          store[g] # NoDoc /\ g \notin shared =>
              /\ store'[g] # NoDoc
              /\ IsPrefix(store[g].moves, store'[g].moves)
              /\ store[g].status = "complete" => store'[g] = store[g]]_vars

\* Each side moves for itself: a move on the engine's turn is an answer to the
\* page's own request, and an answer never plays a move on the human's turn.
EachSideMovesForItself ==
    [][\A p \in Pages :
          IsVsComputer(page[p]) /\ Len(page'[p].match.moves) > Len(page[p].match.moves) =>
              (Turn(page[p].match) # page[p].doc.human <=>
                   p \in Range(engine[TabOf[p]].listening))]_vars

\* It is the engine's turn in a game an open page plays.
EngineOwes(p) == page[p].state = "open" /\ EngineToMove(page[p])

\* The engine answers: whenever it is its turn it moves without further user
\* action, unless the game ends or the page is left first (computer-replies-
\* after-human-move).  It does for a page that has the tab to itself.
EngineAnswers == \A p \in Pages : EngineOwes(p) ~> ~EngineOwes(p)

\* A page that has the tab's engine to itself is always answered: the only play
\* page ever opened in its tab gets a move whenever it is the engine's turn.
EngineAnswersAlone ==
    \A p \in Pages :
        [](\A q \in Pages \ {p} : TabOf[q] = TabOf[p] => page[q].state = "new")
            => (EngineOwes(p) ~> ~EngineOwes(p))

\* A game that has ended shows its result: the status line stops saying that
\* the engine thinks, unless the page is left (result-and-rematch).
ResultIsShown ==
    \A p \in Pages :
        page[p].state = "open" /\ page[p].isOver
            ~> page[p].state # "open" \/ ~page[p].thinking
=============================================================================
