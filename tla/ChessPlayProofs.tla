-------------------------- MODULE ChessPlayProofs --------------------------
(***************************************************************************)
(* Proofs about the chess pages, for any pages, tabs, games and time       *)
(* controls.                                                               *)
(*                                                                         *)
(* The invariant PlayInv adds to what is to be shown: a game that is held  *)
(* by two pages is known to be shared; what a page holds is stored; and a  *)
(* page that waits for the engine plays against it, and is not over: whose *)
(* game ends frees the engine, so no answer comes to a page that has gone. *)
(* TurnInv adds whose turn it is: a move that waits for the engine was     *)
(* asked for at a turn of the engine's side, of the game as it stands, so  *)
(* saved games only grow and each side moves for itself.                   *)
(***************************************************************************)
EXTENDS ChessPlay, ChessMatchProofs, SequenceTheorems, WellFoundedInduction

\* A saved game that goes on has no ending.
DocRight(doc) == doc.status = "in-progress" => doc.result = "*" /\ doc.endReason = "none"

\* A page with a game, which it may write.
Plays(pg) == pg.state \in {"open", "orphan"} /\ pg.view # "missing"

PageRight(pg) ==
    /\ pg.ticking => pg.state = "open" /\ pg.view = "live" /\ ~IsOver(pg.match)
    /\ pg.state = "open" /\ pg.view = "live" => pg.isOver = IsOver(pg.match)
    /\ pg.state = "open" /\ pg.view = "recap" => pg.isOver = (pg.doc.status = "complete")
    /\ Plays(pg) => pg.doc \in DocType /\ pg.game \in Games

PagesRight == \A p \in Pages : PageRight(page[p])

StoreRight == \A g \in Games : store[g] # NoDoc => DocRight(store[g])

StacksRight ==
    \A t \in Tabs :
        /\ \A i \in DOMAIN stack[t] : page[stack[t][i]].state = "open" /\ TabOf[stack[t][i]] = t
        /\ \A i, j \in DOMAIN stack[t] : stack[t][i] = stack[t][j] => i = j

\* Pages that the engine will answer.
AwaitedOf(e) == Range(e.waiting) \cup Range(e.listening)

Waits(pg) == Plays(pg) /\ pg.view = "live" /\ IsVsComputer(pg) /\ ~IsOver(pg.match)

AwaitedRight ==
    \A t \in Tabs : \A p \in AwaitedOf(engine[t]) : TabOf[p] = t /\ Waits(page[p])

SharedKnown ==
    \A p, q \in Pages :
        p # q /\ Plays(page[p]) /\ Plays(page[q]) /\ page[p].game = page[q].game
            => page[p].game \in shared

HeldIsStored == \A p \in Pages : Plays(page[p]) => store[page[p].game] # NoDoc

PlayInv ==
    /\ TypeOK /\ PagesRight /\ StoreRight /\ StacksRight /\ AwaitedRight
    /\ SharedKnown /\ HeldIsStored
    /\ BoardIsSaved

-----------------------------------------------------------------------------
(***************************************************************************)
(* Documents.                                                              *)
(***************************************************************************)

LEMMA ResultType ==
    ASSUME NEW m \in MatchType
    PROVE  /\ Result(m) \in Verdict /\ EndReasonValue(m) \in EndReason
           /\ ~IsOver(m) => Result(m) = "*" /\ EndReasonValue(m) = "none"
<1>1. EndReasonValue(m) \in EndReason
  BY DEF EndReasonValue, MatchType, BoardStatus, EndReason
<1>2. ~IsOver(m) => EndReasonValue(m) = "none"
  BY DEF EndReasonValue, IsOver
<1>3. ASSUME NEW c PROVE WinFor(c) \in Verdict
  BY DEF WinFor, Verdict
<1>4. PICK reason : reason = EndReasonValue(m)
  OBVIOUS
<1>5. Result(m) \in Verdict
  BY <1>1, <1>3, <1>4 DEF Result, Verdict, EndReason
<1>6. reason = "none" => Result(m) = "*"
  BY <1>4 DEF Result
<1> QED
  BY <1>1, <1>2, <1>4, <1>5, <1>6

LEMMA DocOfType ==
    ASSUME NEW doc \in DocType, NEW m \in MatchType, NEW new, new = DocOf(doc, m)
    PROVE  /\ new \in DocType
           /\ new.human = doc.human /\ new.timed = doc.timed /\ new.moves = m.moves
           /\ new.status = IF IsOver(m) THEN "complete" ELSE "in-progress"
           /\ new.result = Result(m) /\ new.endReason = EndReasonValue(m)
           /\ DocRight(new)
<1>1. Result(m) \in Verdict /\ EndReasonValue(m) \in EndReason /\ m.moves \in Seq(MoveRecord)
  BY ResultType DEF MatchType
<1>2. /\ new \in DocType
      /\ new.human = doc.human /\ new.timed = doc.timed /\ new.moves = m.moves
      /\ new.status = IF IsOver(m) THEN "complete" ELSE "in-progress"
      /\ new.result = Result(m) /\ new.endReason = EndReasonValue(m)
  BY <1>1 DEF DocOf, DocType
<1> QED
  BY <1>2, ResultType DEF DocRight

\* A document is its fields.
LEMMA DocEqual ==
    ASSUME NEW d \in DocType, NEW e \in DocType,
           d.human = e.human, d.timed = e.timed, d.moves = e.moves, d.status = e.status,
           d.result = e.result, d.endReason = e.endReason
    PROVE  d = e
BY DEF DocType

\* Saving again changes nothing.
LEMMA DocOfAgain ==
    ASSUME NEW doc \in DocType, NEW m \in MatchType
    PROVE  DocOf(DocOf(doc, m), m) = DocOf(doc, m)
<1>1. PICK new : new = DocOf(doc, m)
  OBVIOUS
<1>2. PICK again : again = DocOf(new, m)
  OBVIOUS
<1>3. new \in DocType
  BY <1>1, DocOfType
<1>4. again = new
  <2>1. /\ new.moves = m.moves /\ new.status = IF IsOver(m) THEN "complete" ELSE "in-progress"
        /\ new.result = Result(m) /\ new.endReason = EndReasonValue(m)
    BY <1>1, DocOfType
  <2>2. /\ again \in DocType /\ again.human = new.human /\ again.timed = new.timed
        /\ again.moves = m.moves /\ again.status = IF IsOver(m) THEN "complete" ELSE "in-progress"
        /\ again.result = Result(m) /\ again.endReason = EndReasonValue(m)
    BY <1>2, <1>3, DocOfType
  <2> QED
    BY <1>3, <2>1, <2>2, DocEqual
<1> QED
  BY <1>1, <1>2, <1>4

\* While nothing ends, only the moves of a match are saved.
LEMMA DocOfLive ==
    ASSUME NEW doc \in DocType, NEW m \in MatchType, NEW n \in MatchType,
           ~IsOver(m), ~IsOver(n), m.moves = n.moves
    PROVE  DocOf(doc, m) = DocOf(doc, n)
<1>1. PICK d : d = DocOf(doc, m)
  OBVIOUS
<1>2. PICK e : e = DocOf(doc, n)
  OBVIOUS
<1>3. d \in DocType /\ e \in DocType
  BY <1>1, <1>2, DocOfType
<1>4. /\ d.human = doc.human /\ d.timed = doc.timed /\ d.moves = m.moves /\ d.status = "in-progress"
      /\ d.result = "*" /\ d.endReason = "none"
  BY <1>1, DocOfType, ResultType
<1>5. /\ e.human = doc.human /\ e.timed = doc.timed /\ e.moves = m.moves /\ e.status = "in-progress"
      /\ e.result = "*" /\ e.endReason = "none"
  BY <1>2, DocOfType, ResultType
<1>6. d = e
  BY <1>3, <1>4, <1>5, DocEqual
<1> QED
  BY <1>1, <1>2, <1>6

LEMMA NewDocType ==
    ASSUME NEW human \in Human, NEW timed \in BOOLEAN, NEW doc, doc = NewDoc(human, timed)
    PROVE  /\ doc \in DocType /\ DocRight(doc) /\ doc.human = human /\ doc.timed = timed
           /\ doc.moves = << >> /\ doc.status = "in-progress"
BY DEF NewDoc, DocType, Verdict, EndReason, DocRight

-----------------------------------------------------------------------------
(***************************************************************************)
(* Pages.                                                                  *)
(***************************************************************************)

LEMMA PersistedFacts ==
    ASSUME NEW pg \in PageType, pg.doc \in DocType, NEW new, new = Persisted(pg)
    PROVE  /\ new \in PageType /\ new.doc = DocOf(pg.doc, pg.match) /\ new.doc \in DocType
           /\ new.state = pg.state /\ new.game = pg.game /\ new.view = pg.view
           /\ new.match = pg.match /\ new.isOver = pg.isOver /\ new.thinking = pg.thinking
           /\ new.ticking = pg.ticking
<1>1. pg.match \in MatchType
  BY DEF PageType
<1>2. PICK doc : doc = DocOf(pg.doc, pg.match)
  OBVIOUS
<1>3. doc \in DocType
  BY <1>1, <1>2, DocOfType
<1>4. new = [pg EXCEPT !.doc = doc]
  BY <1>2, Zenon DEF Persisted
<1> QED
  BY <1>2, <1>3, <1>4 DEF PageType

LEMMA FinalizedFacts ==
    ASSUME NEW pg \in PageType, pg.doc \in DocType, NEW new, new = Finalized(pg)
    PROVE  /\ new \in PageType /\ new.doc = DocOf(pg.doc, pg.match) /\ new.doc \in DocType
           /\ new.state = pg.state /\ new.game = pg.game /\ new.view = pg.view
           /\ new.match = pg.match /\ new.isOver = TRUE /\ new.thinking = pg.thinking
           /\ new.ticking = FALSE
<1>1. PICK half : half = Persisted(pg)
  OBVIOUS
<1>2. new = [half EXCEPT !.ticking = FALSE, !.isOver = TRUE]
  BY <1>1 DEF Finalized
<1>3. /\ half \in PageType /\ half.doc = DocOf(pg.doc, pg.match) /\ half.doc \in DocType
      /\ half.state = pg.state /\ half.game = pg.game /\ half.view = pg.view
      /\ half.match = pg.match /\ half.thinking = pg.thinking
  BY <1>1, PersistedFacts
<1> QED
  BY <1>2, <1>3 DEF PageType

LEMMA MovedFacts ==
    ASSUME NEW pg \in PageType, pg.doc \in DocType, NEW new, new = Moved(pg)
    PROVE  /\ new \in PageType /\ new.doc = DocOf(pg.doc, pg.match) /\ new.doc \in DocType
           /\ new.state = pg.state /\ new.game = pg.game /\ new.view = pg.view
           /\ new.match = pg.match /\ new.thinking = pg.thinking
           /\ IsOver(pg.match) => new.isOver = TRUE /\ new.ticking = FALSE
           /\ ~IsOver(pg.match) => new.isOver = pg.isOver /\ new.ticking = pg.ticking
<1>1. CASE IsOver(pg.match)
  <2>1. new = Finalized(pg)
    BY <1>1 DEF Moved
  <2> QED
    BY <1>1, <2>1, FinalizedFacts
<1>2. CASE ~IsOver(pg.match)
  <2>1. new = Persisted(pg)
    BY <1>2 DEF Moved
  <2> QED
    BY <1>2, <2>1, PersistedFacts
<1> QED
  BY <1>1, <1>2

LEMMA FreshFacts ==
    /\ FreshPage \in PageType /\ DeadPage \in PageType
    /\ FreshPage.state = "new" /\ FreshPage.ticking = FALSE
    /\ DeadPage.state = "dead" /\ DeadPage.ticking = FALSE
<1>1. NoMatch \in MatchType
  <2>1. NewClock \in ClockType /\ NoClock \in ClockType
    BY TimeControlAssumption DEF NewClock, NoClock, ClockType, Color, NoSide, ClockStatus
  <2> QED
    BY <2>1 DEF NoMatch, NewMatch, MatchType, BoardStatus, EndReason, NoSide
<1>2. /\ FreshPage \in PageType /\ FreshPage.state = "new" /\ FreshPage.ticking = FALSE
  BY <1>1 DEF FreshPage, PageType
<1> QED
  BY <1>2 DEF DeadPage, PageType

\* A match that was just started.
LEMMA StartedFacts ==
    ASSUME NEW timed \in BOOLEAN, NEW m, m = MatchStart(NewMatch(timed))
    PROVE  m \in MatchType /\ ~IsOver(m) /\ m.moves = << >>
<1>1. m \in MatchType
  BY NewMatchType
<1>2. m.board = "open" /\ m.endReason = "none" /\ m.moves = << >>
  BY DEF MatchStart, NewMatch
<1> QED
  BY <1>1, <1>2 DEF IsOver

\* A page opened for a new game.
NewPage(g, doc, m) ==
    [FreshPage EXCEPT !.state = "open", !.game = g, !.doc = doc, !.match = m, !.ticking = TRUE]

IsNewPage(pg, g, doc, m) ==
    /\ pg \in PageType /\ pg.state = "open" /\ pg.game = g /\ pg.doc = doc
    /\ pg.view = "live" /\ pg.match = m /\ pg.isOver = FALSE /\ pg.ticking = TRUE

LEMMA LivePageFacts ==
    ASSUME NEW g \in Games, NEW doc \in DocType, NEW m \in MatchType
    PROVE  IsNewPage(NewPage(g, doc, m), g, doc, m)
<1>1. /\ FreshPage \in PageType /\ FreshPage.view = "live" /\ FreshPage.isOver = FALSE
  BY FreshFacts DEF FreshPage
<1> QED
  BY <1>1 DEF PageType, NewPage, IsNewPage

-----------------------------------------------------------------------------
(***************************************************************************)
(* The engine.                                                             *)
(***************************************************************************)

LEMMA RangeOfAppend ==
    ASSUME NEW S, NEW s \in Seq(S), NEW e \in S
    PROVE  Range(Append(s, e)) \subseteq Range(s) \cup {e}
BY DEF Range

LEMMA AskedFacts ==
    ASSUME NEW e \in EngineType, NEW p \in Pages
    PROVE  Asked(e, p) \in EngineType /\ AwaitedOf(Asked(e, p)) \subseteq AwaitedOf(e) \cup {p}
<1>1. e.waiting \in Seq(Pages) /\ e.listening \in Seq(Pages) /\ e.searches \in Seq(Pages)
  BY DEF EngineType
<1>2. /\ Append(e.waiting, p) \in Seq(Pages) /\ Append(e.listening, p) \in Seq(Pages)
      /\ Append(e.searches, p) \in Seq(Pages)
  BY <1>1
<1>3. /\ Range(Append(e.waiting, p)) \subseteq Range(e.waiting) \cup {p}
      /\ Range(Append(e.listening, p)) \subseteq Range(e.listening) \cup {p}
  BY <1>1, RangeOfAppend
<1>4. PICK waiting : waiting = Append(e.waiting, p)
  OBVIOUS
<1>5. PICK listening : listening = Append(e.listening, p)
  OBVIOUS
<1>6. PICK searches : searches = Append(e.searches, p)
  OBVIOUS
<1>7. CASE e.worker = "ready"
  <2>1. Asked(e, p) = [e EXCEPT !.listening = listening, !.searches = searches]
    BY <1>5, <1>6, <1>7 DEF Asked
  <2> QED
    BY <1>2, <1>3, <1>5, <1>6, <2>1 DEF EngineType, AwaitedOf
<1>8. CASE e.worker # "ready"
  <2>1. Asked(e, p) = [e EXCEPT !.worker = "booting", !.waiting = waiting]
    BY <1>4, <1>8 DEF Asked
  <2> QED
    BY <1>2, <1>3, <1>4, <2>1 DEF EngineType, AwaitedOf
<1> QED
  BY <1>7, <1>8

LEMMA IdleFacts == IdleEngine \in EngineType /\ AwaitedOf(IdleEngine) = {}
BY DEF IdleEngine, EngineType, AwaitedOf, Range

LEMMA FreedFacts ==
    ASSUME NEW pg, NEW e \in EngineType
    PROVE  /\ FreedIf(pg, e) \in EngineType /\ AwaitedOf(FreedIf(pg, e)) \subseteq AwaitedOf(e)
           /\ IsOver(pg.match) /\ IsVsComputer(pg) => AwaitedOf(FreedIf(pg, e)) = {}
BY IdleFacts DEF FreedIf

LEMMA AskedIfFacts ==
    ASSUME NEW asks, NEW e \in EngineType, NEW p \in Pages
    PROVE  /\ AskedIf(asks, e, p) \in EngineType
           /\ AwaitedOf(AskedIf(asks, e, p)) \subseteq AwaitedOf(e) \cup {p}
           /\ ~asks => AwaitedOf(AskedIf(asks, e, p)) = AwaitedOf(e)
BY AskedFacts DEF AskedIf

-----------------------------------------------------------------------------
(***************************************************************************)
(* What a step keeps of the invariant, by what it changes.                 *)
(***************************************************************************)

LEMMA StackPages ==
    ASSUME TypeOK
    PROVE  \A t \in Tabs : \A i \in DOMAIN stack[t] : stack[t][i] \in Pages
BY DEF TypeOK

\* Pages stay where they are, with the games they have.
LEMMA SteadyKept ==
    ASSUME TypeOK, PagesRight, StacksRight, SharedKnown, HeldIsStored,
           page' \in [Pages -> PageType],
           \A q \in Pages : /\ page'[q].state = page[q].state /\ page'[q].game = page[q].game
                            /\ page'[q].view = page[q].view,
           stack' = stack, shared' = shared,
           \A g \in Games : store[g] # NoDoc => store'[g] # NoDoc
    PROVE  StacksRight' /\ SharedKnown' /\ HeldIsStored'
<1>1. StacksRight'
  BY StackPages DEF StacksRight
<1>2. \A q \in Pages : Plays(page'[q]) <=> Plays(page[q])
  BY DEF Plays
<1>3. SharedKnown'
  BY <1>2 DEF SharedKnown
<1>4. HeldIsStored'
  BY <1>2 DEF HeldIsStored, PagesRight, PageRight
<1> QED
  BY <1>1, <1>3, <1>4

\* Nobody else holds the game of a page, unless it is known to be shared.
LEMMA SoleHolder ==
    ASSUME SharedKnown, NEW p \in Pages, NEW q \in Pages, p # q,
           Plays(page[p]), Plays(page[q]), page[p].game \notin shared
    PROVE  page[p].game # page[q].game
BY DEF SharedKnown

\* A page with a game changes, and the game is saved.
LEMMA PlayerKept ==
    ASSUME PlayInv, NEW p \in Pages, Plays(page[p]),
           NEW new \in PageType, PageRight(new),
           new.state = page[p].state, new.game = page[p].game, new.view = page[p].view,
           page' = [page EXCEPT ![p] = new],
           stack' = stack, shared' = shared,
           NEW doc \in DocType, DocRight(doc),
           store' = [store EXCEPT ![page[p].game] = doc],
           page[p].game \notin shared /\ new.view = "live" => doc = DocOf(new.doc, new.match)
    PROVE  /\ store' \in [Games -> DocType \cup {NoDoc}] /\ page' \in [Pages -> PageType]
           /\ stack' \in [Tabs -> Seq(Pages)] /\ shared' \subseteq Games
           /\ PagesRight' /\ StoreRight' /\ StacksRight' /\ SharedKnown' /\ HeldIsStored'
           /\ BoardIsSaved'
<1> USE DEF PlayInv
<1>1. page[p].game \in Games
  BY DEF PagesRight, PageRight
<1>2. /\ store' \in [Games -> DocType \cup {NoDoc}] /\ page' \in [Pages -> PageType]
      /\ stack' \in [Tabs -> Seq(Pages)] /\ shared' \subseteq Games
  BY <1>1 DEF TypeOK
<1>3. /\ page'[p] = new
      /\ \A q \in Pages \ {p} : page'[q] = page[q]
      /\ store'[page[p].game] = doc
      /\ \A g \in Games \ {page[p].game} : store'[g] = store[g]
  BY <1>1 DEF TypeOK
<1>4. PagesRight'
  BY <1>3 DEF PagesRight
<1>5. StoreRight'
  BY <1>3 DEF StoreRight
<1>6. StacksRight' /\ SharedKnown' /\ HeldIsStored'
  <2>1. \A g \in Games : store[g] # NoDoc => store'[g] # NoDoc
    BY <1>3, DocAssumption
  <2>2. \A q \in Pages : /\ page'[q].state = page[q].state /\ page'[q].game = page[q].game
                         /\ page'[q].view = page[q].view
    BY <1>3
  <2> QED
    BY <1>2, <2>1, <2>2, SteadyKept
<1>7. BoardIsSaved'
  <2> SUFFICES ASSUME NEW q \in Pages, page'[q].state \in {"open", "orphan"},
                      page'[q].view = "live", page'[q].game \notin shared'
               PROVE  store'[page'[q].game] = DocOf(page'[q].doc, page'[q].match)
    BY DEF BoardIsSaved
  <2>1. CASE q = p
    BY <1>3, <2>1
  <2>2. CASE q # p
    <3>1. page'[q] = page[q] /\ Plays(page[q]) /\ page[q].game \in Games
      BY <1>3, <2>2 DEF Plays, PagesRight, PageRight
    <3>2. page[q].game # page[p].game
      BY <2>2, <3>1, SoleHolder
    <3>3. store'[page[q].game] = store[page[q].game]
      BY <1>3, <3>1, <3>2
    <3> QED
      BY <3>1, <3>3 DEF BoardIsSaved
  <2> QED
    BY <2>1, <2>2
<1> QED
  BY <1>2, <1>4, <1>5, <1>6, <1>7

\* A page changes, and its tab's engine.
LEMMA EngineKept ==
    ASSUME PlayInv, NEW p \in Pages, NEW new,
           page' = [page EXCEPT ![p] = new],
           NEW e \in EngineType,
           engine' = [engine EXCEPT ![TabOf[p]] = e],
           AwaitedOf(e) \subseteq AwaitedOf(engine[TabOf[p]]) \cup {p},
           p \in AwaitedOf(e) => Waits(new)
    PROVE  engine' \in [Tabs -> EngineType] /\ AwaitedRight'
<1> USE DEF PlayInv
<1>1. TabOf[p] \in Tabs
  BY PlayAssumption
<1>2. engine' \in [Tabs -> EngineType]
  BY <1>1 DEF TypeOK
<1>3. /\ engine'[TabOf[p]] = e
      /\ \A t \in Tabs \ {TabOf[p]} : engine'[t] = engine[t]
      /\ page'[p] = new /\ \A q \in Pages \ {p} : page'[q] = page[q]
  BY <1>1 DEF TypeOK
<1>4. ASSUME NEW t \in Tabs, NEW q \in AwaitedOf(engine'[t])
      PROVE  TabOf[q] = t /\ Waits(page'[q])
  <2>1. q \in Pages
    BY <1>2 DEF AwaitedOf, EngineType, Range
  <2>2. CASE q = p
    <3>1. t = TabOf[p]
      BY <1>3, <2>2, <1>4 DEF AwaitedRight
    <3> QED
      BY <1>3, <1>4, <2>2, <3>1
  <2>3. CASE q # p
    <3>1. q \in AwaitedOf(engine[t])
      BY <1>3, <1>4, <2>3
    <3> QED
      BY <1>3, <2>1, <2>3, <3>1 DEF AwaitedRight
  <2> QED
    BY <2>2, <2>3
<1>5. AwaitedRight'
  <2> SUFFICES ASSUME NEW t \in Tabs, NEW q \in AwaitedOf(engine[t])'
               PROVE  TabOf[q] = t /\ Waits(page[q])'
    BY DEF AwaitedRight
  <2>1. q \in AwaitedOf(engine'[t])
    BY DEF AwaitedOf
  <2> QED
    BY <1>4, <2>1 DEF Waits, Plays, IsVsComputer
<1> QED
  BY <1>2, <1>5

-----------------------------------------------------------------------------
(***************************************************************************)
(* One page's game goes on or ends.                                        *)
(***************************************************************************)

LEMMA WithMatchFacts ==
    ASSUME NEW pg \in PageType, NEW m \in MatchType, NEW new, new = [pg EXCEPT !.match = m]
    PROVE  /\ new \in PageType /\ new.match = m /\ new.doc = pg.doc
           /\ new.state = pg.state /\ new.game = pg.game /\ new.view = pg.view
           /\ new.isOver = pg.isOver /\ new.thinking = pg.thinking /\ new.ticking = pg.ticking
BY DEF PageType

LEMMA LiveFacts ==
    ASSUME PlayInv, NEW p \in Pages, page[p].state = "open", page[p].view = "live"
    PROVE  /\ page[p] \in PageType /\ page[p].match \in MatchType /\ Plays(page[p])
           /\ page[p].doc \in DocType /\ page[p].doc # NoDoc
           /\ page[p].game \in Games /\ page[p].isOver = IsOver(page[p].match)
           /\ store[page[p].game] \in DocType /\ DocRight(store[page[p].game])
           /\ TabOf[p] \in Tabs /\ engine[TabOf[p]] \in EngineType
<1> USE DEF PlayInv
<1>1. page[p] \in PageType /\ page[p].match \in MatchType /\ Plays(page[p])
  BY DEF TypeOK, PageType, Plays
<1>2. /\ page[p].doc \in DocType /\ page[p].game \in Games
      /\ page[p].isOver = IsOver(page[p].match)
  BY <1>1 DEF PagesRight, PageRight
<1>3. store[page[p].game] \in DocType /\ DocRight(store[page[p].game])
  BY <1>1, <1>2 DEF HeldIsStored, StoreRight, TypeOK
<1>4. TabOf[p] \in Tabs /\ engine[TabOf[p]] \in EngineType
  BY PlayAssumption DEF TypeOK
<1> QED
  BY <1>1, <1>2, <1>3, <1>4, DocAssumption

\* A page that the engine answers after freeing plays on against it.
LEMMA StillAwaited ==
    ASSUME PlayInv, NEW p \in Pages, page[p].doc \in DocType, NEW new \in PageType, new.doc \in DocType,
           new.doc.human = page[p].doc.human,
           NEW e \in EngineType, e = FreedIf(new, engine[TabOf[p]]), p \in AwaitedOf(e)
    PROVE  IsVsComputer(new) /\ ~IsOver(new.match) /\ Waits(page[p])
<1> USE DEF PlayInv
<1>1. TabOf[p] \in Tabs /\ engine[TabOf[p]] \in EngineType
  BY PlayAssumption DEF TypeOK
<1>2. p \in AwaitedOf(engine[TabOf[p]])
  BY <1>1, FreedFacts
<1>3. Waits(page[p])
  BY <1>1, <1>2 DEF AwaitedRight
<1>4. IsVsComputer(new)
  BY <1>3, DocAssumption DEF Waits, IsVsComputer
<1> QED
  BY <1>1, <1>3, <1>4, FreedFacts

\* What a move, a resignation or a flag leaves of a live page, and of what is saved.
LEMMA PlayedKept ==
    ASSUME PlayInv, NEW p \in Pages, page[p].state = "open", page[p].view = "live",
           NEW m \in MatchType, NEW new \in PageType,
           new.state = "open", new.view = "live", new.game = page[p].game,
           new.match = m, new.doc = DocOf(page[p].doc, m), new.isOver = IsOver(m),
           new.ticking => ~IsOver(m),
           page' = [page EXCEPT ![p] = new],
           store' = [store EXCEPT ![page[p].game] = new.doc],
           stack' = stack, shared' = shared,
           NEW e \in EngineType, engine' = [engine EXCEPT ![TabOf[p]] = e],
           AwaitedOf(e) \subseteq AwaitedOf(engine[TabOf[p]]) \cup {p},
           p \in AwaitedOf(e) => IsVsComputer(new) /\ ~IsOver(m)
    PROVE  PlayInv'
<1>1. /\ page[p] \in PageType /\ Plays(page[p]) /\ page[p].doc \in DocType
      /\ page[p].game \in Games
  BY LiveFacts
<1>2. new.doc \in DocType /\ DocRight(new.doc)
  BY <1>1, DocOfType
<1>3. new.doc = DocOf(new.doc, new.match)
  BY <1>1, DocOfAgain
<1>4. PageRight(new)
  BY <1>1, <1>2 DEF PageRight, Plays
<1>5. Waits(new) \/ p \notin AwaitedOf(e)
  BY DEF Waits, Plays
<1>6. /\ store' \in [Games -> DocType \cup {NoDoc}] /\ page' \in [Pages -> PageType]
      /\ stack' \in [Tabs -> Seq(Pages)] /\ shared' \subseteq Games
      /\ PagesRight' /\ StoreRight' /\ StacksRight' /\ SharedKnown' /\ HeldIsStored'
      /\ BoardIsSaved'
  BY <1>1, <1>2, <1>3, <1>4, PlayerKept
<1>7. engine' \in [Tabs -> EngineType] /\ AwaitedRight'
  BY <1>5, EngineKept
<1> QED
  BY <1>6, <1>7 DEF PlayInv, TypeOK

LEMMA TickPageKept ==
    ASSUME PlayInv, NEW p \in Pages, TickPage(p)
    PROVE  PlayInv'
<1>1. page[p].state = "open" /\ page[p].ticking
  BY DEF TickPage
<1>2. page[p].view = "live" /\ ~IsOver(page[p].match)
  BY <1>1 DEF PlayInv, PagesRight, PageRight
<1>3. /\ page[p] \in PageType /\ page[p].match \in MatchType /\ Plays(page[p])
      /\ page[p].doc \in DocType /\ page[p].doc # NoDoc
      /\ page[p].game \in Games /\ page[p].isOver = IsOver(page[p].match)
      /\ store[page[p].game] \in DocType /\ DocRight(store[page[p].game])
      /\ TabOf[p] \in Tabs /\ engine[TabOf[p]] \in EngineType
  BY <1>1, <1>2, LiveFacts
<1>4. PICK m : m = MatchTick(page[p].match, 1)
  OBVIOUS
<1>5. m \in MatchType
  BY <1>3, <1>4, MatchTickType
<1>6. m.moves = page[p].match.moves
  BY <1>2, <1>3, <1>4, MatchTickFacts
<1>7. PICK ticked : ticked = [page[p] EXCEPT !.match = m]
  OBVIOUS
<1>8. /\ ticked \in PageType /\ ticked.match = m /\ ticked.doc = page[p].doc
      /\ ticked.state = page[p].state /\ ticked.game = page[p].game /\ ticked.view = page[p].view
      /\ ticked.isOver = page[p].isOver /\ ticked.ticking = page[p].ticking
  BY <1>3, <1>5, <1>7, WithMatchFacts
<1>9. PICK e : e = FreedIf(ticked, engine[TabOf[p]])
  OBVIOUS
<1>10. /\ IF IsOver(ticked.match)
          THEN /\ page' = [page EXCEPT ![p] = Finalized(ticked)]
               /\ store' = [store EXCEPT ![page[p].game] = Finalized(ticked).doc]
          ELSE page' = [page EXCEPT ![p] = ticked] /\ store' = store
       /\ engine' = [engine EXCEPT ![TabOf[p]] = e]
       /\ stack' = stack /\ shared' = shared
  BY <1>4, <1>7, <1>9, Zenon DEF TickPage
<1>11. e \in EngineType /\ AwaitedOf(e) \subseteq AwaitedOf(engine[TabOf[p]]) \cup {p}
  BY <1>3, <1>9, FreedFacts
<1>12. p \in AwaitedOf(e) => IsVsComputer(ticked) /\ ~IsOver(m)
  BY <1>3, <1>8, <1>9, <1>11, StillAwaited
<1>13. CASE IsOver(m)
  <2>1. PICK new : new = Finalized(ticked)
    OBVIOUS
  <2>2. /\ new \in PageType /\ new.doc = DocOf(page[p].doc, m)
        /\ new.state = "open" /\ new.game = page[p].game /\ new.view = "live"
        /\ new.match = m /\ new.isOver = TRUE /\ new.ticking = FALSE
    <3>1. /\ ticked.doc \in DocType /\ ticked.match = m
          /\ ticked.state = "open" /\ ticked.game = page[p].game /\ ticked.view = "live"
      BY <1>1, <1>2, <1>3, <1>8
    <3>2. /\ new \in PageType /\ new.doc = DocOf(ticked.doc, ticked.match)
          /\ new.state = ticked.state /\ new.game = ticked.game /\ new.view = ticked.view
          /\ new.match = ticked.match /\ new.isOver = TRUE /\ new.ticking = FALSE
      BY <1>8, <2>1, <3>1, FinalizedFacts
    <3> QED
      BY <1>8, <2>1, <3>1, <3>2
  <2>3. page' = [page EXCEPT ![p] = new] /\ store' = [store EXCEPT ![page[p].game] = new.doc]
    BY <1>8, <1>10, <1>13, <2>1
  <2> QED
    BY <1>1, <1>2, <1>5, <1>10, <1>11, <1>12, <1>13, <2>2, <2>3, PlayedKept
<1>14. CASE ~IsOver(m)
  <2>1. page' = [page EXCEPT ![p] = ticked] /\ store' = store
    BY <1>8, <1>10, <1>14
  <2>2. PICK doc : doc = store[page[p].game]
    OBVIOUS
  <2>3. store' = [store EXCEPT ![page[p].game] = doc]
    BY <1>3, <2>1, <2>2 DEF PlayInv, TypeOK
  <2>4. page[p].game \notin shared => doc = DocOf(ticked.doc, ticked.match)
    <3>1. page[p].game \notin shared => doc = DocOf(page[p].doc, page[p].match)
      BY <1>1, <1>2, <2>2 DEF PlayInv, BoardIsSaved
    <3>2. DocOf(page[p].doc, page[p].match) = DocOf(page[p].doc, m)
      BY <1>2, <1>3, <1>5, <1>6, <1>14, DocOfLive
    <3> QED
      BY <1>8, <3>1, <3>2
  <2>5. PageRight(ticked)
    <3>1. /\ ticked.state = "open" /\ ticked.view = "live" /\ ticked.isOver = FALSE
          /\ ticked.match = m /\ ticked.doc \in DocType /\ ticked.game \in Games
      BY <1>1, <1>2, <1>3, <1>8
    <3>2. IsOver(ticked.match) = FALSE
      BY <1>14, <3>1
    <3> QED
      BY <3>1, <3>2 DEF PageRight
  <2>6. /\ store' \in [Games -> DocType \cup {NoDoc}] /\ page' \in [Pages -> PageType]
        /\ stack' \in [Tabs -> Seq(Pages)] /\ shared' \subseteq Games
        /\ PagesRight' /\ StoreRight' /\ StacksRight' /\ SharedKnown' /\ HeldIsStored'
        /\ BoardIsSaved'
    BY <1>3, <1>8, <1>10, <2>1, <2>2, <2>3, <2>4, <2>5, PlayerKept
  <2>7. p \in AwaitedOf(e) => Waits(ticked)
    BY <1>1, <1>2, <1>8, <1>12 DEF Waits, Plays
  <2>8. engine' \in [Tabs -> EngineType] /\ AwaitedRight'
    BY <1>10, <1>11, <2>1, <2>7, EngineKept
  <2> QED
    BY <2>6, <2>8 DEF PlayInv, TypeOK
<1> QED
  BY <1>13, <1>14

\* The page on top of a tab's stack is open there.
LEMMA VisiblePage ==
    ASSUME TypeOK, StacksRight, NEW t \in Tabs, stack[t] # << >>, NEW p, p = Last(stack[t])
    PROVE  /\ p \in Pages /\ page[p].state = "open" /\ TabOf[p] = t
           /\ Len(stack[t]) \in DOMAIN stack[t] /\ p = stack[t][Len(stack[t])]
<1>1. stack[t] \in Seq(Pages)
  BY DEF TypeOK
<1>2. Len(stack[t]) \in DOMAIN stack[t] /\ p = stack[t][Len(stack[t])]
  BY <1>1 DEF Last
<1> QED
  BY <1>1, <1>2, StackPages DEF StacksRight

LEMMA VisibleIsOpen ==
    ASSUME PlayInv, NEW p \in Pages, Visible(p)
    PROVE  page[p].state = "open"
<1>1. TabOf[p] \in Tabs
  BY PlayAssumption
<1> QED
  BY <1>1, VisiblePage DEF Visible, PlayInv

LEMMA HumanMoveKept ==
    ASSUME PlayInv, NEW p \in Pages, HumanMove(p)
    PROVE  PlayInv'
<1>1. page[p].state = "open" /\ page[p].view = "live" /\ ~page[p].isOver
  BY VisibleIsOpen DEF HumanMove, MayMove
<1>2. /\ page[p] \in PageType /\ page[p].match \in MatchType
      /\ page[p].doc \in DocType
      /\ page[p].game \in Games /\ page[p].isOver = IsOver(page[p].match)
      /\ TabOf[p] \in Tabs /\ engine[TabOf[p]] \in EngineType
  BY <1>1, LiveFacts
<1>3. PICK attempt \in Positions :
        LET moved == Moved([page[p] EXCEPT !.match = MatchMove(page[p].match, attempt)])
            asks  == EngineToMove(moved)
        IN  /\ page' = [page EXCEPT ![p] = [moved EXCEPT !.thinking = asks]]
            /\ store' = [store EXCEPT ![page[p].game] = moved.doc]
            /\ engine' = [engine EXCEPT ![TabOf[p]] =
                              AskedIf(asks, FreedIf(moved, engine[TabOf[p]]), p)]
  BY Zenon DEF HumanMove
<1>4. stack' = stack /\ shared' = shared
  BY DEF HumanMove
<1>5. PICK m : m = MatchMove(page[p].match, attempt)
  OBVIOUS
<1>6. m \in MatchType
  BY <1>2, <1>5, MatchMoveType, PlayAssumption DEF Attempt
<1>7. PICK changed : changed = [page[p] EXCEPT !.match = m]
  OBVIOUS
<1>8. /\ changed \in PageType /\ changed.match = m /\ changed.doc = page[p].doc
      /\ changed.state = page[p].state /\ changed.game = page[p].game /\ changed.view = page[p].view
      /\ changed.isOver = page[p].isOver /\ changed.ticking = page[p].ticking
  BY <1>2, <1>6, <1>7, WithMatchFacts
<1>9. PICK moved : moved = Moved(changed)
  OBVIOUS
<1>10. /\ moved \in PageType /\ moved.doc = DocOf(changed.doc, changed.match) /\ moved.doc \in DocType
       /\ moved.state = changed.state /\ moved.game = changed.game /\ moved.view = changed.view
       /\ moved.match = changed.match
       /\ IsOver(changed.match) => moved.isOver = TRUE /\ moved.ticking = FALSE
       /\ ~IsOver(changed.match) => moved.isOver = changed.isOver /\ moved.ticking = changed.ticking
  <2>1. changed.doc \in DocType
    BY <1>2, <1>8
  <2>2. changed \in PageType
    BY <1>8
  <2> QED
    BY <1>9, <2>1, <2>2, MovedFacts
<1>11. PICK asks : asks = EngineToMove(moved)
  OBVIOUS
<1>12. asks \in BOOLEAN
  BY <1>11 DEF EngineToMove
<1>13. PICK freed : freed = FreedIf(moved, engine[TabOf[p]])
  OBVIOUS
<1>14. PICK e : e = AskedIf(asks, freed, p)
  OBVIOUS
<1>15. PICK new : new = [moved EXCEPT !.thinking = asks]
  OBVIOUS
<1>16. /\ page' = [page EXCEPT ![p] = new]
       /\ store' = [store EXCEPT ![page[p].game] = moved.doc]
       /\ engine' = [engine EXCEPT ![TabOf[p]] = e]
  BY <1>3, <1>5, <1>7, <1>9, <1>11, <1>13, <1>14, <1>15, Zenon
<1>17. /\ new \in PageType /\ new.doc = moved.doc /\ new.state = moved.state /\ new.game = moved.game
       /\ new.view = moved.view /\ new.match = moved.match /\ new.isOver = moved.isOver
       /\ new.ticking = moved.ticking
  BY <1>10, <1>12, <1>15 DEF PageType
<1>18. /\ new.state = "open" /\ new.view = "live" /\ new.game = page[p].game
       /\ new.match = m /\ new.doc = DocOf(page[p].doc, m) /\ moved.match = m
  BY <1>1, <1>8, <1>10, <1>17
<1>19. new.isOver = IsOver(m) /\ (new.ticking => ~IsOver(m))
  <2>1. CASE IsOver(m)
    BY <1>8, <1>10, <1>17, <2>1 DEF IsOver
  <2>2. CASE ~IsOver(m)
    <3>1. changed.isOver = FALSE
      BY <1>1, <1>2, <1>8 DEF PageType
    <3>2. IsOver(m) = FALSE
      BY <2>2 DEF IsOver
    <3>3. new.isOver = FALSE
      BY <1>8, <1>10, <1>17, <2>2, <3>1
    <3> QED
      BY <3>2, <3>3
  <2> QED
    BY <2>1, <2>2
<1>20. /\ freed \in EngineType /\ AwaitedOf(freed) \subseteq AwaitedOf(engine[TabOf[p]])
  BY <1>2, <1>13, FreedFacts
<1>21. /\ e \in EngineType /\ AwaitedOf(e) \subseteq AwaitedOf(freed) \cup {p}
       /\ ~asks => AwaitedOf(e) = AwaitedOf(freed)
  BY <1>14, <1>20, AskedIfFacts
<1>22. p \in AwaitedOf(e) => IsVsComputer(moved) /\ ~IsOver(m)
  <2>1. CASE asks
    BY <1>11, <1>18, <2>1 DEF EngineToMove
  <2>2. CASE ~asks
    <3>1. moved.doc.human = page[p].doc.human
      BY <1>2, <1>6, <1>8, <1>10, DocOfType
    <3> QED
      BY <1>2, <1>10, <1>13, <1>18, <1>20, <1>21, <2>2, <3>1, StillAwaited
  <2> QED
    BY <2>1, <2>2
<1>23. p \in AwaitedOf(e) => IsVsComputer(new) /\ ~IsOver(m)
  BY <1>17, <1>22 DEF IsVsComputer
<1> QED
  BY <1>1, <1>4, <1>6, <1>16, <1>17, <1>18, <1>19, <1>20, <1>21, <1>23, PlayedKept

LEMMA ResignLiveKept ==
    ASSUME PlayInv, NEW p \in Pages, NEW c \in Color, ResignLive(p, c)
    PROVE  PlayInv'
<1>1. page[p].state = "open" /\ page[p].view = "live" /\ ~page[p].isOver
  BY VisibleIsOpen DEF ResignLive
<1>2. /\ page[p] \in PageType /\ page[p].match \in MatchType
      /\ page[p].doc \in DocType
      /\ page[p].game \in Games /\ page[p].isOver = IsOver(page[p].match)
      /\ TabOf[p] \in Tabs /\ engine[TabOf[p]] \in EngineType
  BY <1>1, LiveFacts
<1>3. PICK m : m = MatchResign(page[p].match, c)
  OBVIOUS
<1>4. m \in MatchType
  BY <1>2, <1>3, MatchResignType
<1>5. IsOver(m)
  BY <1>1, <1>2, <1>3, MatchResignFacts DEF IsOver
<1>6. PICK changed : changed = [page[p] EXCEPT !.match = m]
  OBVIOUS
<1>7. /\ changed \in PageType /\ changed.match = m /\ changed.doc = page[p].doc
      /\ changed.state = page[p].state /\ changed.game = page[p].game /\ changed.view = page[p].view
  BY <1>2, <1>4, <1>6, WithMatchFacts
<1>8. PICK new : new = Finalized(changed)
  OBVIOUS
<1>9. /\ new \in PageType /\ new.doc = DocOf(changed.doc, changed.match) /\ new.doc \in DocType
      /\ new.state = changed.state /\ new.game = changed.game /\ new.view = changed.view
      /\ new.match = changed.match /\ new.isOver = TRUE /\ new.ticking = FALSE
  BY <1>2, <1>7, <1>8, FinalizedFacts
<1>10. PICK e : e = FreedIf(new, engine[TabOf[p]])
  OBVIOUS
<1>11. /\ page' = [page EXCEPT ![p] = new]
       /\ store' = [store EXCEPT ![page[p].game] = new.doc]
       /\ engine' = [engine EXCEPT ![TabOf[p]] = e]
       /\ stack' = stack /\ shared' = shared
  BY <1>3, <1>6, <1>8, <1>10, Zenon DEF ResignLive
<1>12. e \in EngineType /\ AwaitedOf(e) \subseteq AwaitedOf(engine[TabOf[p]]) \cup {p}
  BY <1>2, <1>10, FreedFacts
<1>13. p \in AwaitedOf(e) => IsVsComputer(new) /\ ~IsOver(m)
  <2>1. new.doc.human = page[p].doc.human
    BY <1>2, <1>4, <1>7, <1>9, DocOfType
  <2> QED
    BY <1>2, <1>7, <1>9, <1>10, <1>12, <2>1, StillAwaited
<1>14. new.isOver = IsOver(m) /\ (new.ticking => ~IsOver(m))
  BY <1>5, <1>9 DEF IsOver
<1>15. /\ new.state = "open" /\ new.view = "live" /\ new.game = page[p].game
       /\ new.match = m /\ new.doc = DocOf(page[p].doc, m)
  BY <1>1, <1>7, <1>9
<1> QED
  BY <1>1, <1>4, <1>9, <1>11, <1>12, <1>13, <1>14, <1>15, PlayedKept

LEMMA ResignFromRecapKept ==
    ASSUME PlayInv, NEW p \in Pages, NEW c \in Color, ResignFromRecap(p, c)
    PROVE  PlayInv'
<1> USE DEF PlayInv
<1>1. page[p].state = "open" /\ page[p].view = "recap"
  BY VisibleIsOpen DEF ResignFromRecap
<1>2. page[p] \in PageType /\ Plays(page[p])
  BY <1>1 DEF TypeOK, Plays
<1>3. page[p].doc \in DocType /\ page[p].game \in Games
  BY <1>2 DEF PagesRight, PageRight
<1>4. WinFor(Opponent(c)) \in Verdict
  BY DEF WinFor, Verdict
<1>5. PICK verdict : verdict = WinFor(Opponent(c))
  OBVIOUS
<1>6. PICK doc : doc = [page[p].doc EXCEPT !.status = "complete", !.result = verdict,
                                           !.endReason = "resignation"]
  OBVIOUS
<1>7. doc \in DocType /\ doc.human = page[p].doc.human /\ doc.status = "complete"
  BY <1>3, <1>4, <1>5, <1>6 DEF DocType, EndReason
<1>8. PICK new : new = [page[p] EXCEPT !.doc = doc, !.isOver = TRUE]
  OBVIOUS
<1>9. /\ page' = [page EXCEPT ![p].doc = doc, ![p].isOver = TRUE]
      /\ store' = [store EXCEPT ![page[p].game] = doc]
      /\ stack' = stack /\ shared' = shared /\ engine' = engine
  BY <1>5, <1>6, Zenon DEF ResignFromRecap
<1>10. page' = [page EXCEPT ![p] = new]
  BY <1>2, <1>8, <1>9 DEF TypeOK
<1>11. /\ new \in PageType /\ new.doc = doc /\ new.isOver = TRUE
       /\ new.state = page[p].state /\ new.game = page[p].game /\ new.view = page[p].view
       /\ new.ticking = page[p].ticking
  BY <1>2, <1>7, <1>8 DEF PageType
<1>12. page[p].ticking = FALSE
  BY <1>1, <1>2 DEF PagesRight, PageRight, PageType
<1>13. PageRight(new)
  BY <1>1, <1>3, <1>7, <1>11, <1>12 DEF PageRight
<1>14. DocRight(doc)
  BY <1>7 DEF DocRight
<1>15. /\ store' \in [Games -> DocType \cup {NoDoc}] /\ page' \in [Pages -> PageType]
       /\ stack' \in [Tabs -> Seq(Pages)] /\ shared' \subseteq Games
       /\ PagesRight' /\ StoreRight' /\ StacksRight' /\ SharedKnown' /\ HeldIsStored'
       /\ BoardIsSaved'
  BY <1>1, <1>2, <1>7, <1>9, <1>10, <1>11, <1>13, <1>14, PlayerKept
<1>16. PICK e : e = engine[TabOf[p]]
  OBVIOUS
<1>17. e \in EngineType /\ engine' = [engine EXCEPT ![TabOf[p]] = e]
  BY <1>9, <1>16, PlayAssumption DEF TypeOK
<1>18. p \notin AwaitedOf(e)
  BY <1>1, <1>16, PlayAssumption DEF AwaitedRight, Waits
<1>19. engine' \in [Tabs -> EngineType] /\ AwaitedRight'
  BY <1>10, <1>16, <1>17, <1>18, EngineKept
<1> QED
  BY <1>15, <1>19 DEF TypeOK

-----------------------------------------------------------------------------
(***************************************************************************)
(* Games and pages come and go.                                            *)
(***************************************************************************)

LEMMA StartGameKept ==
    ASSUME PlayInv, NEW g \in Games, StartGame(g)
    PROVE  PlayInv'
<1> USE DEF PlayInv
<1>1. PICK form \in FormChoices : store' = [store EXCEPT ![g] = NewDoc(form.human, form.timed)]
  BY DEF StartGame
<1>2. PICK doc : doc = NewDoc(form.human, form.timed)
  OBVIOUS
<1>3. doc \in DocType /\ DocRight(doc)
  BY <1>2, NewDocType DEF FormChoices
<1>4. /\ page' = page /\ stack' = stack /\ engine' = engine /\ shared' = shared
      /\ store[g] = NoDoc
  BY DEF StartGame
<1>5. store' \in [Games -> DocType \cup {NoDoc}]
  BY <1>1, <1>2, <1>3 DEF TypeOK
<1>6. store'[g] = doc /\ \A h \in Games \ {g} : store'[h] = store[h]
  BY <1>1, <1>2 DEF TypeOK
<1>7. TypeOK'
  BY <1>4, <1>5 DEF TypeOK
<1>8. PagesRight' /\ StacksRight' /\ AwaitedRight' /\ SharedKnown'
  BY <1>4 DEF PagesRight, StacksRight, AwaitedRight, SharedKnown
<1>9. StoreRight'
  BY <1>3, <1>6 DEF StoreRight
<1>10. ASSUME NEW q \in Pages, Plays(page[q])
       PROVE  page[q].game \in Games /\ page[q].game # g
  BY <1>4, <1>10 DEF HeldIsStored, PagesRight, PageRight
<1>11. HeldIsStored'
  <2> SUFFICES ASSUME NEW q \in Pages, Plays(page'[q])
               PROVE  store'[page'[q].game] # NoDoc
    BY DEF HeldIsStored, Plays
  <2> QED
    BY <1>4, <1>6, <1>10 DEF HeldIsStored
<1>12. BoardIsSaved'
  <2> SUFFICES ASSUME NEW q \in Pages, page[q].state \in {"open", "orphan"},
                      page[q].view = "live", page[q].game \notin shared
               PROVE  store'[page[q].game] = DocOf(page[q].doc, page[q].match)
    BY <1>4 DEF BoardIsSaved
  <2>1. Plays(page[q])
    BY DEF Plays
  <2> QED
    BY <1>6, <1>10, <2>1 DEF BoardIsSaved
<1> QED
  BY <1>7, <1>8, <1>9, <1>11, <1>12

LEMMA WorkerReadyKept ==
    ASSUME PlayInv, NEW t \in Tabs, WorkerReady(t)
    PROVE  PlayInv'
<1> USE DEF PlayInv
<1>1. /\ page' = page /\ stack' = stack /\ store' = store /\ shared' = shared
      /\ engine' = [engine EXCEPT ![t] =
             [worker |-> "ready", waiting |-> << >>,
              listening |-> engine[t].waiting, searches |-> engine[t].waiting]]
  BY Zenon DEF WorkerReady
<1>2. PICK waiting : waiting = engine[t].waiting
  OBVIOUS
<1>3. PICK e : e = [worker |-> "ready", waiting |-> << >>, listening |-> waiting, searches |-> waiting]
  OBVIOUS
<1>4. engine[t] \in EngineType /\ waiting \in Seq(Pages)
  BY <1>2 DEF TypeOK, EngineType
<1>5. e \in EngineType
  BY <1>3, <1>4 DEF EngineType
<1>6. AwaitedOf(e) \subseteq AwaitedOf(engine[t])
  BY <1>2, <1>3 DEF AwaitedOf, Range
<1>7. engine' = [engine EXCEPT ![t] = e]
  BY <1>1, <1>2, <1>3
<1>8. engine' \in [Tabs -> EngineType]
  BY <1>5, <1>7 DEF TypeOK
<1>9. TypeOK'
  BY <1>1, <1>8 DEF TypeOK
<1>10. /\ PagesRight' /\ StacksRight' /\ StoreRight' /\ SharedKnown' /\ HeldIsStored'
       /\ BoardIsSaved'
  BY <1>1 DEF PagesRight, PageRight, StacksRight, StoreRight, SharedKnown, HeldIsStored,
              BoardIsSaved
<1>11. \A u \in Tabs : AwaitedOf(engine'[u]) \subseteq AwaitedOf(engine[u])
  BY <1>6, <1>7 DEF TypeOK
<1>12. AwaitedRight'
  <2> SUFFICES ASSUME NEW u \in Tabs, NEW q \in AwaitedOf(engine'[u])
               PROVE  TabOf[q] = u /\ Waits(page[q])
    BY <1>1 DEF AwaitedRight, AwaitedOf
  <2> QED
    BY <1>11 DEF AwaitedRight
<1> QED
  BY <1>9, <1>10, <1>12

LEMMA FrontFacts ==
    ASSUME NEW S, NEW s \in Seq(S), s # << >>
    PROVE  /\ Front(s) \in Seq(S) /\ Len(Front(s)) = Len(s) - 1
           /\ \A i \in 1 .. Len(s) - 1 : Front(s)[i] = s[i]
<1>1. Len(s) \in Nat /\ Len(s) > 0 /\ \A i \in 1 .. Len(s) - 1 : s[i] \in S
  BY EmptySeq
<1>2. PICK n : n = Len(s) - 1
  OBVIOUS
<1>3. n \in Nat /\ \A i \in 1 .. n : s[i] \in S
  BY <1>1, <1>2
<1>4. PICK front : front = SubSeq(s, 1, n)
  OBVIOUS
<1>5. front \in Seq(S) /\ Len(front) = n /\ \A i \in 1 .. n : front[i] = s[i]
  BY <1>3, <1>4, SubSeqProperties
<1>6. Front(s) = front
  BY <1>2, <1>4 DEF Front
<1> QED
  BY <1>2, <1>5, <1>6

\* What is below the page on top of a stack.
IsBelow(rest, p, t) ==
    /\ rest \in Seq(Pages)
    /\ \A i \in DOMAIN rest : /\ rest[i] \in Pages /\ rest[i] # p
                              /\ page[rest[i]].state = "open" /\ TabOf[rest[i]] = t
    /\ \A i, j \in DOMAIN rest : rest[i] = rest[j] => i = j

LEMMA PoppedFacts ==
    ASSUME TypeOK, StacksRight, NEW t \in Tabs, stack[t] # << >>, NEW p, p = Last(stack[t]),
           NEW rest, rest = Front(stack[t])
    PROVE  IsBelow(rest, p, t)
<1>1. stack[t] \in Seq(Pages)
  BY DEF TypeOK
<1>2. /\ rest \in Seq(Pages) /\ Len(rest) = Len(stack[t]) - 1
      /\ \A i \in 1 .. Len(stack[t]) - 1 : rest[i] = stack[t][i]
  BY <1>1, FrontFacts
<1>3. \A i \in DOMAIN rest : i \in DOMAIN stack[t] /\ i # Len(stack[t]) /\ rest[i] = stack[t][i]
  BY <1>1, <1>2
<1>4. p = stack[t][Len(stack[t])] /\ Len(stack[t]) \in DOMAIN stack[t]
  BY VisiblePage
<1>5. \A i \in DOMAIN rest : /\ rest[i] \in Pages /\ rest[i] # p
                             /\ page[rest[i]].state = "open" /\ TabOf[rest[i]] = t
  BY <1>3, <1>4, StackPages DEF StacksRight
<1>6. \A i, j \in DOMAIN rest : rest[i] = rest[j] => i = j
  BY <1>3 DEF StacksRight
<1> QED
  BY <1>2, <1>5, <1>6 DEF IsBelow

LEMMA LeavePageKept ==
    ASSUME PlayInv, NEW t \in Tabs, LeavePage(t)
    PROVE  PlayInv'
<1> USE DEF PlayInv
<1>1. stack[t] # << >>
  BY DEF LeavePage
<1>2. PICK p : p = Last(stack[t])
  OBVIOUS
<1>3. p \in Pages /\ page[p].state = "open" /\ TabOf[p] = t /\ page[p] \in PageType
  BY <1>1, <1>2, VisiblePage DEF TypeOK
<1>4. PICK orphan : orphan = [page[p] EXCEPT !.state = "orphan", !.ticking = FALSE]
  OBVIOUS
<1>5. PICK new : new = IF Outstanding(p) THEN orphan ELSE DeadPage
  OBVIOUS
<1>6. PICK rest : rest = Front(stack[t])
  OBVIOUS
<1>7. /\ page' = [page EXCEPT ![p] = new] /\ stack' = [stack EXCEPT ![t] = rest]
      /\ store' = store /\ engine' = engine /\ shared' = shared
  BY <1>2, <1>4, <1>5, <1>6, Zenon DEF LeavePage
<1>8. /\ orphan \in PageType /\ orphan.state = "orphan" /\ orphan.ticking = FALSE
      /\ orphan.game = page[p].game /\ orphan.view = page[p].view /\ orphan.doc = page[p].doc
      /\ orphan.match = page[p].match
  BY <1>3, <1>4 DEF PageType
<1>9. /\ new \in PageType /\ new.ticking = FALSE /\ new.state \in {"orphan", "dead"}
      /\ new.state = "orphan" => new = orphan
      /\ Outstanding(p) => new = orphan
  BY <1>5, <1>8, FreshFacts
<1>10. Plays(new) => new = orphan /\ Plays(page[p])
  BY <1>3, <1>8, <1>9 DEF Plays
<1>11. PageRight(new)
  <2>1. Plays(new) => new.doc \in DocType /\ new.game \in Games
    BY <1>3, <1>8, <1>10 DEF PagesRight, PageRight
  <2> QED
    BY <1>9, <2>1 DEF PageRight
<1>12. /\ page'[p] = new /\ \A q \in Pages \ {p} : page'[q] = page[q]
       /\ stack'[t] = rest /\ \A u \in Tabs \ {t} : stack'[u] = stack[u]
  BY <1>3, <1>7 DEF TypeOK
<1>13. IsBelow(rest, p, t)
  BY <1>1, <1>2, <1>6, PoppedFacts
<1>14. TypeOK'
  BY <1>3, <1>7, <1>9, <1>13 DEF TypeOK, IsBelow
<1>15. PagesRight' /\ StoreRight'
  BY <1>7, <1>11, <1>12 DEF PagesRight, StoreRight
<1>16. StacksRight'
  <2> SUFFICES ASSUME NEW u \in Tabs
               PROVE  /\ \A i \in DOMAIN stack'[u] : /\ page'[stack'[u][i]].state = "open"
                                                     /\ TabOf[stack'[u][i]] = u
                      /\ \A i, j \in DOMAIN stack'[u] : stack'[u][i] = stack'[u][j] => i = j
    BY DEF StacksRight
  <2>1. CASE u = t
    BY <1>12, <1>13, <2>1 DEF IsBelow
  <2>2. CASE u # t
    BY <1>3, <1>12, <2>2, StackPages DEF StacksRight
  <2> QED
    BY <2>1, <2>2
<1>17. \A q \in Pages : Plays(page'[q]) =>
           /\ Plays(page[q]) /\ page'[q].game = page[q].game /\ page'[q].view = page[q].view
           /\ page'[q].doc = page[q].doc /\ page'[q].match = page[q].match
  BY <1>8, <1>10, <1>12
<1>18. SharedKnown' /\ HeldIsStored'
  <2>1. SharedKnown'
    BY <1>7, <1>17 DEF SharedKnown
  <2>2. HeldIsStored'
    BY <1>7, <1>17 DEF HeldIsStored
  <2> QED
    BY <2>1, <2>2
<1>19. BoardIsSaved'
  <2> SUFFICES ASSUME NEW q \in Pages, page'[q].state \in {"open", "orphan"},
                      page'[q].view = "live", page'[q].game \notin shared
               PROVE  store[page'[q].game] = DocOf(page'[q].doc, page'[q].match)
    BY <1>7 DEF BoardIsSaved
  <2>1. Plays(page'[q])
    BY DEF Plays
  <2> QED
    BY <1>17, <2>1 DEF BoardIsSaved, Plays
<1>20. AwaitedRight'
  <2> SUFFICES ASSUME NEW u \in Tabs, NEW q \in AwaitedOf(engine[u])
               PROVE  TabOf[q] = u /\ Waits(page'[q])
    BY <1>7 DEF AwaitedRight
  <2>1. TabOf[q] = u /\ Waits(page[q])
    BY DEF AwaitedRight
  <2>2. q \in Pages
    BY DEF AwaitedOf, TypeOK, EngineType, Range
  <2>3. CASE q = p
    <3>1. new = orphan
      BY <1>3, <1>9, <2>1, <2>3 DEF Outstanding, AwaitedOf
    <3> QED
      BY <1>8, <1>12, <2>1, <2>3, <3>1 DEF Waits, Plays, IsVsComputer
  <2>4. CASE q # p
    BY <1>12, <2>1, <2>2, <2>4
  <2> QED
    BY <2>3, <2>4
<1> QED
  BY <1>14, <1>15, <1>16, <1>18, <1>19, <1>20

LEMMA ReloadTabKept ==
    ASSUME PlayInv, NEW t \in Tabs, ReloadTab(t)
    PROVE  PlayInv'
<1> USE DEF PlayInv
<1>1. /\ page' = [q \in Pages |-> IF TabOf[q] = t /\ page[q].state # "new" THEN DeadPage ELSE page[q]]
      /\ stack' = [stack EXCEPT ![t] = << >>]
      /\ engine' = [engine EXCEPT ![t] = IdleEngine]
      /\ store' = store /\ shared' = shared
  BY DEF ReloadTab
<1>2. /\ DeadPage \in PageType /\ DeadPage.state = "dead" /\ DeadPage.ticking = FALSE
      /\ IdleEngine \in EngineType /\ AwaitedOf(IdleEngine) = {}
  BY FreshFacts, IdleFacts
<1>3. TypeOK'
  BY <1>1, <1>2 DEF TypeOK
<1>4. PageRight(DeadPage) /\ ~Plays(DeadPage)
  BY <1>2 DEF PageRight, Plays
<1>5. \A q \in Pages : \/ page'[q] = DeadPage
                       \/ page'[q] = page[q] /\ (TabOf[q] # t \/ page[q].state = "new")
  BY <1>1
<1>6. \A q \in Pages : TabOf[q] # t => page'[q] = page[q]
  BY <1>1
<1>7. PagesRight' /\ StoreRight'
  BY <1>1, <1>4, <1>5 DEF PagesRight, StoreRight
<1>8. /\ stack'[t] = << >> /\ \A u \in Tabs \ {t} : stack'[u] = stack[u]
      /\ engine'[t] = IdleEngine /\ \A u \in Tabs \ {t} : engine'[u] = engine[u]
  BY <1>1 DEF TypeOK
<1>9. StacksRight'
  <2> SUFFICES ASSUME NEW u \in Tabs
               PROVE  /\ \A i \in DOMAIN stack'[u] : /\ page'[stack'[u][i]].state = "open"
                                                     /\ TabOf[stack'[u][i]] = u
                      /\ \A i, j \in DOMAIN stack'[u] : stack'[u][i] = stack'[u][j] => i = j
    BY DEF StacksRight
  <2>1. CASE u = t
    BY <1>8, <2>1
  <2>2. CASE u # t
    BY <1>6, <1>8, <2>2, StackPages DEF StacksRight
  <2> QED
    BY <2>1, <2>2
<1>10. \A q \in Pages : Plays(page'[q]) => page'[q] = page[q]
  BY <1>4, <1>5
<1>11. SharedKnown'
  BY <1>1, <1>10 DEF SharedKnown
<1>12. HeldIsStored'
  BY <1>1, <1>10 DEF HeldIsStored
<1>13. BoardIsSaved'
  <2> SUFFICES ASSUME NEW q \in Pages, page'[q].state \in {"open", "orphan"},
                      page'[q].view = "live", page'[q].game \notin shared
               PROVE  store[page'[q].game] = DocOf(page'[q].doc, page'[q].match)
    BY <1>1 DEF BoardIsSaved
  <2>1. page'[q] = page[q]
    BY <1>10 DEF Plays
  <2> QED
    BY <2>1 DEF BoardIsSaved
<1>14. AwaitedRight'
  <2> SUFFICES ASSUME NEW u \in Tabs, NEW q \in AwaitedOf(engine'[u])
               PROVE  TabOf[q] = u /\ Waits(page'[q])
    BY DEF AwaitedRight, AwaitedOf
  <2>1. u # t
    BY <1>2, <1>8
  <2>2. TabOf[q] = u /\ Waits(page[q])
    BY <1>8, <2>1 DEF AwaitedRight
  <2>3. q \in Pages
    BY <1>8, <2>1 DEF AwaitedOf, TypeOK, EngineType, Range
  <2> QED
    BY <1>6, <2>1, <2>2, <2>3
<1> QED
  BY <1>3, <1>7, <1>9, <1>11, <1>12, <1>13, <1>14

LEMMA LoadedFacts ==
    ASSUME PlayInv, NEW g \in Games, NEW pg, pg = Loaded(g)
    PROVE  /\ pg \in PageType /\ pg.state = "open" /\ pg.game = g /\ PageRight(pg)
           /\ Plays(pg) => store[g] # NoDoc
           /\ pg.view = "live" => store[g] = DocOf(pg.doc, pg.match)
           /\ pg.thinking => Waits(pg)
<1> USE DEF PlayInv
<1>1. PICK doc : doc = store[g]
  OBVIOUS
<1>2. doc \in DocType \cup {NoDoc}
  BY <1>1 DEF TypeOK
<1>3. PICK base : base = [FreshPage EXCEPT !.state = "open", !.game = g, !.doc = doc]
  OBVIOUS
<1>4. /\ base \in PageType /\ base.state = "open" /\ base.game = g /\ base.doc = doc
      /\ base.ticking = FALSE /\ base.thinking = FALSE
  BY <1>2, <1>3, FreshFacts DEF FreshPage, PageType
<1>5. CASE doc = NoDoc
  <2>1. pg = [base EXCEPT !.view = "missing"]
    BY <1>1, <1>3, <1>5, Zenon DEF Loaded
  <2>2. /\ pg \in PageType /\ pg.state = "open" /\ pg.game = g /\ pg.view = "missing"
        /\ pg.ticking = FALSE /\ pg.thinking = FALSE
    BY <1>4, <2>1 DEF PageType
  <2> QED
    BY <2>2 DEF PageRight, Plays
<1>6. CASE doc # NoDoc /\ doc.moves = << >> /\ doc.status = "in-progress"
  <2>1. doc \in DocType /\ DocRight(doc) /\ doc.timed \in BOOLEAN
    BY <1>1, <1>2, <1>6 DEF StoreRight, DocType
  <2>2. PICK m : m = MatchStart(NewMatch(doc.timed))
    OBVIOUS
  <2>3. PICK live : live = NewPage(g, doc, m)
    OBVIOUS
  <2>14. m \in MatchType /\ ~IsOver(m) /\ m.moves = << >>
    BY <2>1, <2>2, StartedFacts
  <2>4. /\ live \in PageType /\ live.state = "open" /\ live.game = g /\ live.doc = doc
        /\ live.view = "live" /\ live.match = m /\ live.isOver = FALSE /\ live.ticking = TRUE
    <3>1. IsNewPage(NewPage(g, doc, m), g, doc, m)
      BY <2>1, <2>14, LivePageFacts
    <3> QED
      BY <2>3, <3>1 DEF IsNewPage
  <2>5. live = [base EXCEPT !.match = m, !.ticking = TRUE]
    BY <1>3, <2>3, FreshFacts DEF PageType, NewPage
  <2>6. PICK thinking : thinking = EngineToMove(live)
    OBVIOUS
  <2>7. thinking \in BOOLEAN
    BY <2>6 DEF EngineToMove
  <2>8. pg = [live EXCEPT !.thinking = thinking]
    BY <1>1, <1>3, <1>6, <2>2, <2>5, <2>6, Zenon DEF Loaded
  <2>9. /\ pg \in PageType /\ pg.state = "open" /\ pg.game = g /\ pg.doc = doc
        /\ pg.view = "live" /\ pg.match = m /\ pg.isOver = FALSE
        /\ pg.ticking = TRUE /\ pg.thinking = thinking
    BY <2>4, <2>7, <2>8 DEF PageType
  <2>10. IsOver(m) = FALSE
    BY <2>14 DEF IsOver
  <2>11. PageRight(pg)
    BY <2>1, <2>9, <2>10 DEF PageRight
  <2>12. store[g] = DocOf(pg.doc, pg.match)
    <3>1. PICK saved : saved = DocOf(doc, m)
      OBVIOUS
    <3>2. /\ saved \in DocType
          /\ saved.human = doc.human /\ saved.timed = doc.timed /\ saved.moves = << >>
          /\ saved.status = "in-progress" /\ saved.result = "*" /\ saved.endReason = "none"
      BY <2>1, <2>14, <3>1, DocOfType, ResultType
    <3>3. saved = doc
      BY <1>6, <2>1, <3>2, DocEqual DEF DocRight
    <3> QED
      BY <1>1, <2>9, <3>1, <3>3
  <2>13. pg.thinking => Waits(pg)
    <3>1. thinking => IsVsComputer(live)
      BY <2>6 DEF EngineToMove
    <3> QED
      BY <2>4, <2>9, <2>10, <3>1 DEF Waits, Plays, IsVsComputer
  <2> QED
    BY <1>1, <1>6, <2>9, <2>11, <2>12, <2>13
<1>7. CASE doc # NoDoc /\ ~(doc.moves = << >> /\ doc.status = "in-progress")
  <2>1. PICK over : over = (doc.status = "complete")
    OBVIOUS
  <2>2. pg = [base EXCEPT !.view = "recap", !.isOver = over]
    BY <1>1, <1>3, <1>7, <2>1, Zenon DEF Loaded
  <2>3. over \in BOOLEAN /\ doc \in DocType
    BY <1>2, <1>7, <2>1
  <2>4. /\ pg \in PageType /\ pg.state = "open" /\ pg.game = g /\ pg.view = "recap"
        /\ pg.doc = doc /\ pg.isOver = over /\ pg.ticking = FALSE /\ pg.thinking = FALSE
    BY <1>4, <2>2, <2>3 DEF PageType
  <2> QED
    BY <1>1, <1>7, <2>1, <2>3, <2>4 DEF PageRight
<1> QED
  BY <1>5, <1>6, <1>7

\* A page put on top of a stack.
IsStack(s, q, p, t) ==
    /\ s \in Seq(Pages)
    /\ \A i \in DOMAIN s : \/ s[i] = q
                           \/ /\ s[i] \in Pages /\ s[i] # p /\ s[i] # q
                              /\ page[s[i]].state = "open" /\ TabOf[s[i]] = t
    /\ \A i, j \in DOMAIN s : s[i] = s[j] => i = j

LEMMA PushedFacts ==
    ASSUME NEW rest, NEW p, NEW t, IsBelow(rest, p, t),
           NEW q \in Pages, page[q].state = "new", NEW s, s = Append(rest, q)
    PROVE  IsStack(s, q, p, t)
<1>1. rest \in Seq(Pages) /\ \A i \in DOMAIN rest : rest[i] # q
  BY DEF IsBelow
<1>2. s \in Seq(Pages) /\ Len(s) = Len(rest) + 1
  BY <1>1
<1>3. \A i \in DOMAIN s : \/ i = Len(rest) + 1 /\ s[i] = q
                          \/ i \in DOMAIN rest /\ s[i] = rest[i]
  BY <1>1, <1>2
<1>4. \A i \in DOMAIN s : \/ s[i] = q
                          \/ /\ s[i] \in Pages /\ s[i] # p /\ s[i] # q
                             /\ page[s[i]].state = "open" /\ TabOf[s[i]] = t
  BY <1>1, <1>3 DEF IsBelow
<1>5. \A i, j \in DOMAIN s : s[i] = s[j] => i = j
  BY <1>1, <1>3 DEF IsBelow
<1> QED
  BY <1>2, <1>4, <1>5 DEF IsStack

LEMMA OpenPageKept ==
    ASSUME PlayInv, NEW p \in Pages, NEW g \in Games, OpenPage(p, g)
    PROVE  PlayInv'
<1> USE DEF PlayInv
<1>1. PICK t : t = TabOf[p]
  OBVIOUS
<1>2. t \in Tabs /\ engine[t] \in EngineType /\ page[p].state = "new"
  BY <1>1, PlayAssumption DEF TypeOK, OpenPage
<1>3. PICK pg : pg = Loaded(g)
  OBVIOUS
<1>18. PICK asks : asks = pg.thinking
  OBVIOUS
<1>19. PICK old : old = engine[t]
  OBVIOUS
<1>4. PICK e : e = AskedIf(asks, old, p)
  OBVIOUS
<1>5. PICK s : s = Append(stack[t], p)
  OBVIOUS
<1>6. /\ page' = [page EXCEPT ![p] = pg] /\ stack' = [stack EXCEPT ![t] = s]
      /\ engine' = [engine EXCEPT ![t] = e] /\ store' = store
      /\ shared' = IF \E q \in Pages : Holds(q, g) THEN shared \cup {g} ELSE shared
  BY <1>1, <1>3, <1>4, <1>5, <1>18, <1>19, Zenon DEF OpenPage
<1>7. /\ pg \in PageType /\ pg.state = "open" /\ pg.game = g /\ PageRight(pg)
      /\ Plays(pg) => store[g] # NoDoc
      /\ pg.view = "live" => store[g] = DocOf(pg.doc, pg.match)
      /\ pg.thinking => Waits(pg)
  BY <1>3, LoadedFacts
<1>8. page'[p] = pg /\ \A q \in Pages \ {p} : page'[q] = page[q]
  BY <1>6 DEF TypeOK
<1>9. IsStack(s, p, p, t)
  <2>1. IsBelow(stack[t], p, t)
    BY <1>2, StackPages DEF IsBelow, StacksRight, TypeOK
  <2> QED
    BY <1>2, <1>5, <2>1, PushedFacts
<1>10. engine' \in [Tabs -> EngineType] /\ AwaitedRight'
  <2>1. /\ e \in EngineType /\ AwaitedOf(e) \subseteq AwaitedOf(old) \cup {p}
        /\ ~asks => AwaitedOf(e) = AwaitedOf(old)
    BY <1>2, <1>4, <1>19, AskedIfFacts
  <2>2. p \notin AwaitedOf(engine[t])
    BY <1>2 DEF AwaitedRight, Waits, Plays
  <2>3. p \in AwaitedOf(e) => Waits(pg)
    BY <1>7, <1>18, <1>19, <2>1, <2>2
  <2> QED
    BY <1>1, <1>6, <1>19, <2>1, <2>3, EngineKept
<1>11. shared \subseteq shared' /\ shared' \subseteq Games
  BY <1>6 DEF TypeOK
<1>12. TypeOK'
  BY <1>6, <1>7, <1>9, <1>10, <1>11 DEF TypeOK, IsStack
<1>13. PagesRight' /\ StoreRight'
  BY <1>6, <1>7, <1>8 DEF PagesRight, StoreRight
<1>14. StacksRight'
  <2> SUFFICES ASSUME NEW u \in Tabs
               PROVE  /\ \A i \in DOMAIN stack'[u] : /\ page'[stack'[u][i]].state = "open"
                                                     /\ TabOf[stack'[u][i]] = u
                      /\ \A i, j \in DOMAIN stack'[u] : stack'[u][i] = stack'[u][j] => i = j
    BY DEF StacksRight
  <2>1. stack'[t] = s /\ \A v \in Tabs \ {t} : stack'[v] = stack[v]
    BY <1>2, <1>6 DEF TypeOK
  <2>2. CASE u = t
    BY <1>1, <1>7, <1>8, <1>9, <2>1, <2>2 DEF IsStack
  <2>3. CASE u # t
    BY <1>2, <1>8, <2>1, <2>3, StackPages DEF StacksRight
  <2> QED
    BY <2>2, <2>3
<1>15. SharedKnown'
  <2> SUFFICES ASSUME NEW q \in Pages, NEW r \in Pages, q # r, Plays(page'[q]), Plays(page'[r]),
                      page'[q].game = page'[r].game
               PROVE  page'[q].game \in shared'
    BY DEF SharedKnown, Plays
  <2>1. CASE q # p /\ r # p
    BY <1>8, <1>11, <2>1 DEF SharedKnown
  <2>2. CASE q = p
    BY <1>6, <1>7, <1>8, <2>2 DEF Holds, Plays
  <2>3. CASE r = p
    BY <1>6, <1>7, <1>8, <2>3 DEF Holds, Plays
  <2> QED
    BY <2>1, <2>2, <2>3
<1>16. HeldIsStored'
  <2> SUFFICES ASSUME NEW q \in Pages, Plays(page'[q])
               PROVE  store[page'[q].game] # NoDoc
    BY <1>6 DEF HeldIsStored, Plays
  <2> QED
    BY <1>7, <1>8 DEF HeldIsStored
<1>17. BoardIsSaved'
  <2> SUFFICES ASSUME NEW q \in Pages, page'[q].state \in {"open", "orphan"},
                      page'[q].view = "live", page'[q].game \notin shared'
               PROVE  store[page'[q].game] = DocOf(page'[q].doc, page'[q].match)
    BY <1>6 DEF BoardIsSaved
  <2> QED
    BY <1>7, <1>8, <1>11 DEF BoardIsSaved
<1> QED
  BY <1>10, <1>12, <1>13, <1>14, <1>15, <1>16, <1>17

LEMMA RematchKept ==
    ASSUME PlayInv, NEW p \in Pages, NEW q \in Pages, NEW g \in Games, Rematch(p, q, g)
    PROVE  PlayInv'
<1> USE DEF PlayInv
<1>1. PICK t : t = TabOf[p]
  OBVIOUS
<1>2. PICK old : old = engine[t]
  OBVIOUS
<1>3. /\ t \in Tabs /\ old \in EngineType /\ stack[t] # << >> /\ p = Last(stack[t])
      /\ page[p].state = "open" /\ page[p].view # "missing" /\ page[p].isOver
      /\ page[q].state = "new" /\ TabOf[q] = t /\ store[g] = NoDoc /\ p # q
  BY <1>1, <1>2, VisibleIsOpen, PlayAssumption DEF TypeOK, Rematch, Visible
<1>4. Plays(page[p]) /\ page[p].doc \in DocType
  BY <1>3 DEF PagesRight, PageRight, Plays
<1>5. PICK human : human = Swapped(page[p].doc.human)
  OBVIOUS
<1>6. PICK timed : timed = page[p].doc.timed
  OBVIOUS
<1>7. human \in Human /\ timed \in BOOLEAN
  BY <1>4, <1>5, <1>6 DEF Swapped, Human, DocType, Opponent, Color
<1>8. PICK doc : doc = NewDoc(human, timed)
  OBVIOUS
<1>9. /\ doc \in DocType /\ DocRight(doc) /\ doc.timed = timed
      /\ doc.moves = << >> /\ doc.status = "in-progress"
  BY <1>7, <1>8, NewDocType
<1>10. PICK m : m = MatchStart(NewMatch(timed))
  OBVIOUS
<1>11. m \in MatchType /\ ~IsOver(m) /\ m.moves = << >>
  BY <1>7, <1>10, StartedFacts
<1>12. PICK pg : pg = NewPage(g, doc, m)
  OBVIOUS
<1>13. IsNewPage(pg, g, doc, m)
  BY <1>9, <1>11, <1>12, LivePageFacts
<1>14. PICK asks : asks = EngineToMove(pg)
  OBVIOUS
<1>15. PICK new : new = [pg EXCEPT !.thinking = asks]
  OBVIOUS
<1>16. PICK rest : rest = Front(stack[t])
  OBVIOUS
<1>17. PICK s : s = Append(rest, q)
  OBVIOUS
<1>18. PICK e : e = AskedIf(asks, old, q)
  OBVIOUS
<1>19. pg = [FreshPage EXCEPT !.state = "open", !.game = g, !.doc = doc,
                              !.match = MatchStart(NewMatch(doc.timed)), !.ticking = TRUE]
  <2>1. MatchStart(NewMatch(doc.timed)) = m
    BY <1>9, <1>10, Zenon
  <2> QED
    BY <1>12, <2>1, Zenon DEF NewPage
<1>20. /\ page' = [page EXCEPT ![p] = DeadPage, ![q] = new]
       /\ stack' = [stack EXCEPT ![t] = s]
       /\ engine' = [engine EXCEPT ![t] = e]
       /\ store' = [store EXCEPT ![g] = doc]
       /\ shared' = shared
  <2>1. NewDoc(Swapped(page[p].doc.human), page[p].doc.timed) = doc
    BY <1>5, <1>6, <1>8, Zenon
  <2> QED
    BY <1>1, <1>2, <1>14, <1>15, <1>16, <1>17, <1>18, <1>19, <2>1, Zenon DEF Rematch
<1>21. /\ new \in PageType /\ new.state = "open" /\ new.game = g /\ new.doc = doc
       /\ new.view = "live" /\ new.match = m /\ new.isOver = FALSE /\ new.ticking = TRUE
  <2>1. asks \in BOOLEAN
    BY <1>14 DEF EngineToMove
  <2> QED
    BY <1>13, <1>15, <2>1 DEF IsNewPage, PageType
<1>22. IsOver(m) = FALSE
  BY <1>11 DEF IsOver
<1>23. PageRight(new)
  BY <1>9, <1>21, <1>22 DEF PageRight
<1>24. DeadPage \in PageType /\ DeadPage.state = "dead" /\ DeadPage.ticking = FALSE
  BY FreshFacts
<1>25. PageRight(DeadPage) /\ ~Plays(DeadPage)
  BY <1>24 DEF PageRight, Plays
<1>26. /\ page'[p] = DeadPage /\ page'[q] = new /\ \A r \in Pages \ {p, q} : page'[r] = page[r]
       /\ stack'[t] = s /\ \A u \in Tabs \ {t} : stack'[u] = stack[u]
       /\ engine'[t] = e /\ \A u \in Tabs \ {t} : engine'[u] = engine[u]
       /\ store'[g] = doc /\ \A h \in Games \ {g} : store'[h] = store[h]
  BY <1>3, <1>20 DEF TypeOK
<1>27. IsStack(s, q, p, t)
  <2>1. IsBelow(rest, p, t)
    BY <1>3, <1>16, PoppedFacts
  <2> QED
    BY <1>3, <1>17, <2>1, PushedFacts
<1>28. /\ e \in EngineType /\ AwaitedOf(e) \subseteq AwaitedOf(old) \cup {q}
       /\ ~asks => AwaitedOf(e) = AwaitedOf(old)
  <2>1. old \in EngineType
    BY <1>3
  <2>2. Asked(old, q) \in EngineType /\ AwaitedOf(Asked(old, q)) \subseteq AwaitedOf(old) \cup {q}
    BY <2>1, AskedFacts
  <2>3. CASE asks
    BY <1>18, <2>2, <2>3 DEF AskedIf
  <2>4. CASE ~asks
    BY <1>18, <2>1, <2>4 DEF AskedIf
  <2> QED
    BY <2>3, <2>4
<1>29. TypeOK'
  BY <1>3, <1>9, <1>20, <1>21, <1>24, <1>27, <1>28 DEF TypeOK, IsStack
<1>30. PagesRight' /\ StoreRight'
  BY <1>9, <1>23, <1>25, <1>26 DEF PagesRight, StoreRight
<1>31. StacksRight'
  <2> SUFFICES ASSUME NEW u \in Tabs
               PROVE  /\ \A i \in DOMAIN stack'[u] : /\ page'[stack'[u][i]].state = "open"
                                                     /\ TabOf[stack'[u][i]] = u
                      /\ \A i, j \in DOMAIN stack'[u] : stack'[u][i] = stack'[u][j] => i = j
    BY DEF StacksRight
  <2>1. CASE u = t
    BY <1>3, <1>21, <1>26, <1>27, <2>1 DEF IsStack
  <2>2. CASE u # t
    BY <1>1, <1>3, <1>26, <2>2, StackPages DEF StacksRight
  <2> QED
    BY <2>1, <2>2
<1>32. \A r \in Pages : Plays(page'[r]) =>
           \/ r = q
           \/ /\ r \in Pages \ {p, q} /\ page'[r] = page[r] /\ Plays(page[r])
              /\ page[r].game \in Games /\ page[r].game # g
  <2> SUFFICES ASSUME NEW r \in Pages, Plays(page'[r]), r # q
               PROVE  /\ r \in Pages \ {p, q} /\ page'[r] = page[r] /\ Plays(page[r])
                      /\ page[r].game \in Games /\ page[r].game # g
    BY Zenon
  <2>1. r # p
    BY <1>25, <1>26
  <2>2. page'[r] = page[r] /\ Plays(page[r])
    BY <1>26, <2>1
  <2>3. page[r].game \in Games /\ store[page[r].game] # NoDoc
    BY <2>2 DEF PagesRight, PageRight, HeldIsStored
  <2> QED
    BY <1>3, <2>1, <2>2, <2>3
<1>33. SharedKnown'
  <2> SUFFICES ASSUME NEW r \in Pages, NEW u \in Pages, r # u, Plays(page'[r]), Plays(page'[u]),
                      page'[r].game = page'[u].game
               PROVE  page'[r].game \in shared
    BY <1>20 DEF SharedKnown, Plays
  <2>1. r # q /\ u # q
    BY <1>21, <1>26, <1>32
  <2> QED
    BY <1>32, <2>1 DEF SharedKnown
<1>34. HeldIsStored'
  <2> SUFFICES ASSUME NEW r \in Pages, Plays(page'[r])
               PROVE  store'[page'[r].game] # NoDoc
    BY DEF HeldIsStored, Plays
  <2>1. CASE r = q
    BY <1>9, <1>21, <1>26, <2>1, DocAssumption
  <2>2. CASE r # q
    BY <1>26, <1>32, <2>2 DEF HeldIsStored
  <2> QED
    BY <2>1, <2>2
<1>35. doc = DocOf(doc, m)
  <2>1. PICK saved : saved = DocOf(doc, m)
    OBVIOUS
  <2>2. /\ saved \in DocType
        /\ saved.human = doc.human /\ saved.timed = doc.timed /\ saved.moves = << >>
        /\ saved.status = "in-progress" /\ saved.result = "*" /\ saved.endReason = "none"
    BY <1>9, <1>11, <2>1, DocOfType, ResultType
  <2>3. saved = doc
    BY <1>9, <2>2, DocEqual DEF DocRight
  <2> QED
    BY <2>1, <2>3
<1>36. BoardIsSaved'
  <2> SUFFICES ASSUME NEW r \in Pages, page'[r].state \in {"open", "orphan"},
                      page'[r].view = "live", page'[r].game \notin shared
               PROVE  store'[page'[r].game] = DocOf(page'[r].doc, page'[r].match)
    BY <1>20 DEF BoardIsSaved
  <2>1. CASE r = q
    BY <1>21, <1>26, <1>35, <2>1
  <2>2. CASE r # q
    <3>1. page'[r] = page[r] /\ store'[page[r].game] = store[page[r].game]
      BY <1>26, <1>32, <2>2 DEF Plays
    <3> QED
      BY <3>1 DEF BoardIsSaved
  <2> QED
    BY <2>1, <2>2
<1>37. AwaitedRight'
  <2> SUFFICES ASSUME NEW u \in Tabs, NEW r \in AwaitedOf(engine'[u])
               PROVE  TabOf[r] = u /\ Waits(page'[r])
    BY DEF AwaitedRight, AwaitedOf
  <2>1. r \in AwaitedOf(engine[u]) \/ (u = t /\ r = q)
    BY <1>2, <1>26, <1>28
  <2>2. CASE r \in AwaitedOf(engine[u])
    <3>1. TabOf[r] = u /\ Waits(page[r])
      BY <2>2 DEF AwaitedRight
    <3>2. r \in Pages
      BY <2>2 DEF AwaitedOf, TypeOK, EngineType, Range
    <3>3. r # q
      BY <1>3, <3>1 DEF Waits, Plays
    <3>4. r # p
      BY <1>3, <3>1 DEF Waits, PagesRight, PageRight
    <3> QED
      BY <1>26, <3>1, <3>2, <3>3, <3>4
  <2>3. CASE u = t /\ r = q /\ r \notin AwaitedOf(engine[u])
    <3>1. asks
      BY <1>2, <1>26, <1>28, <2>3
    <3>2. IsVsComputer(pg)
      BY <1>14, <3>1 DEF EngineToMove
    <3>3. IsVsComputer(new)
      BY <1>13, <1>21, <3>2 DEF IsVsComputer, IsNewPage
    <3> QED
      BY <1>3, <1>11, <1>21, <1>26, <2>3, <3>3 DEF Waits, Plays
  <2> QED
    BY <2>1, <2>2, <2>3
<1> QED
  BY <1>29, <1>30, <1>31, <1>33, <1>34, <1>36, <1>37

-----------------------------------------------------------------------------
(***************************************************************************)
(* The engine answers.                                                     *)
(***************************************************************************)

LEMMA MaxIsMember ==
    ASSUME NEW n \in Nat, NEW S \in SUBSET (1 .. n), S # {}
    PROVE  Max(S) \in S
<1>1. PICK rest : rest = {n - x : x \in S}
  OBVIOUS
<1>2. rest \in SUBSET Nat /\ rest # {}
  <2>1. \A x \in S : x \in Int /\ n - x \in Nat
    OBVIOUS
  <2>2. \A r \in rest : r \in Nat
    BY <1>1, <2>1
  <2>3. PICK x : x \in S
    OBVIOUS
  <2>4. n - x \in rest
    BY <1>1, <2>3
  <2> QED
    BY <2>2, <2>4
<1>3. PICK before : before = OpToRel(<, Nat)
  OBVIOUS
<1>4. \A a, b \in Nat : <<a, b>> \in before <=> a < b
  BY <1>3 DEF OpToRel
<1>5. PICK least \in rest : \A r \in rest : ~ (<<r, least>> \in before)
  BY <1>2, <1>3, NatLessThanWellFounded, WFMin
<1>6. PICK x \in S : least = n - x
  BY <1>1, <1>5
<1>7. \A y \in S : x >= y
  <2> SUFFICES ASSUME NEW y \in S PROVE x >= y
    OBVIOUS
  <2>1. n - y \in rest
    BY <1>1
  <2>2. ~ (n - y < n - x)
    BY <1>2, <1>4, <1>5, <1>6, <2>1
  <2> QED
    BY <2>2
<1> QED
  BY <1>7 DEF Max

LEMMA AnsweredFacts ==
    ASSUME NEW pg \in PageType, pg.doc \in DocType, PageRight(pg), Waits(pg),
           NEW attempt \in Positions \cup {"illegal"},
           NEW new, new = Answered(pg, attempt)
    PROVE  /\ new \in PageType /\ PageRight(new) /\ new.doc \in DocType
           /\ new.state = pg.state /\ new.game = pg.game /\ new.view = pg.view
           /\ new.doc.human = pg.doc.human
           /\ \/ new.doc = pg.doc /\ new.match = pg.match
              \/ new.doc = DocOf(pg.doc, new.match)
           /\ ~IsOver(new.match) => Waits(new)
<1>1. /\ Plays(pg) /\ pg.view = "live" /\ IsVsComputer(pg) /\ ~IsOver(pg.match)
      /\ pg.match \in MatchType /\ pg.game \in Games
  BY DEF Waits, PageRight, PageType
<1>2. IsOver(pg.match) = FALSE
  BY <1>1 DEF IsOver
<1>3. CASE attempt = "illegal"
  <2>1. new = [pg EXCEPT !.thinking = FALSE]
    BY <1>3, Zenon DEF Answered
  <2>2. /\ new \in PageType /\ new.doc = pg.doc /\ new.match = pg.match
        /\ new.state = pg.state /\ new.game = pg.game /\ new.view = pg.view
        /\ new.ticking = pg.ticking /\ new.isOver = pg.isOver
    BY <2>1 DEF PageType
  <2>3. PageRight(new) /\ Waits(new)
    BY <1>1, <2>2 DEF PageRight, Waits, Plays, IsVsComputer
  <2> QED
    BY <2>2, <2>3
<1>4. CASE attempt # "illegal"
  <2>1. PICK m : m = MatchMove(pg.match, attempt)
    OBVIOUS
  <2>2. m \in MatchType
    BY <1>1, <2>1, MatchMoveType, PlayAssumption DEF Attempt
  <2>3. PICK played : played = [pg EXCEPT !.thinking = FALSE, !.match = m]
    OBVIOUS
  <2>4. new = Moved(played)
    BY <1>1, <1>4, <2>1, <2>3, Zenon DEF Answered
  <2>5. /\ played \in PageType /\ played.doc = pg.doc /\ played.match = m
        /\ played.state = pg.state /\ played.game = pg.game /\ played.view = pg.view
        /\ played.ticking = pg.ticking /\ played.isOver = pg.isOver
    BY <2>2, <2>3 DEF PageType
  <2>6. played.doc \in DocType
    BY <2>5
  <2>7. /\ new \in PageType /\ new.doc = DocOf(played.doc, played.match) /\ new.doc \in DocType
        /\ new.state = played.state /\ new.game = played.game /\ new.view = played.view
        /\ new.match = played.match
        /\ IsOver(played.match) => new.isOver = TRUE /\ new.ticking = FALSE
        /\ ~IsOver(played.match) => new.isOver = played.isOver /\ new.ticking = played.ticking
    BY <2>4, <2>5, <2>6, MovedFacts
  <2>8. /\ new.doc = DocOf(pg.doc, new.match) /\ new.match = m
        /\ new.state = pg.state /\ new.game = pg.game /\ new.view = pg.view
    BY <2>5, <2>7
  <2>9. new.doc.human = pg.doc.human
    BY <2>2, <2>8, DocOfType
  <2>10. PageRight(new)
    <3>1. CASE IsOver(m)
      <4>1. IsOver(new.match) = TRUE
        BY <2>8, <3>1 DEF IsOver
      <4>2. new.isOver = TRUE /\ new.ticking = FALSE
        BY <2>5, <2>7, <3>1
      <4> QED
        BY <1>1, <2>7, <2>8, <4>1, <4>2 DEF PageRight
    <3>2. CASE ~IsOver(m)
      <4>1. IsOver(new.match) = FALSE
        BY <2>8, <3>2 DEF IsOver
      <4>2. new.isOver = pg.isOver /\ new.ticking = pg.ticking
        BY <2>5, <2>7, <3>2
      <4> QED
        BY <1>1, <1>2, <2>7, <2>8, <4>1, <4>2 DEF PageRight
    <3> QED
      BY <3>1, <3>2
  <2>11. ~IsOver(new.match) => Waits(new)
    <3>1. new.doc # NoDoc
      BY <2>7, DocAssumption
    <3> QED
      BY <1>1, <2>8, <2>9, <3>1 DEF Waits, Plays, IsVsComputer
  <2> QED
    BY <2>7, <2>8, <2>9, <2>10, <2>11
<1> QED
  BY <1>3, <1>4

\* Which page's document is saved, when the engine's answer is played.
LEMMA WriterFacts ==
    ASSUME NEW s \in Seq(Pages), NEW played, NEW g,
           NEW w, w = LastToSave(g, s, played)
    PROVE  \/ w = 0 /\ \A p \in Range(s) : p \in played => page[p].game # g
           \/ w # 0 /\ w \in 1 .. Len(s) /\ s[w] \in played /\ page[s[w]].game = g
<1>1. PICK ws : ws = {i \in 1 .. Len(s) : s[i] \in played /\ page[s[i]].game = g}
  OBVIOUS
<1>2. w = IF ws # {} THEN Max(ws) ELSE 0
  BY <1>1, Zenon DEF LastToSave, SelectLastInSeq
<1>3. CASE ws = {}
  BY <1>1, <1>2, <1>3 DEF Range
<1>4. CASE ws # {}
  <2>1. Len(s) \in Nat /\ ws \in SUBSET (1 .. Len(s))
    BY <1>1
  <2>2. Max(ws) \in ws
    BY <1>4, <2>1, MaxIsMember
  <2>3. w \in ws
    BY <1>2, <1>4, <2>2
  <2> QED
    BY <1>1, <2>1, <2>3
<1> QED
  BY <1>3, <1>4

\* A game keeps its saved document, or gets that of a page that played it.
LEMMA SavedFacts ==
    ASSUME NEW s \in Seq(Pages), NEW answered, NEW played, played = PlayedBy(answered),
           NEW saved, saved = SavedBy(answered, s)
    PROVE  /\ DOMAIN saved = Games
           /\ \A g \in Games :
                \/ saved[g] = store[g] /\ \A p \in Range(s) : p \in played => page[p].game # g
                \/ \E p \in played : page[p].game = g /\ saved[g] = answered[p].doc
<1>1. saved = [g \in Games |-> IF LastToSave(g, s, played) = 0 THEN store[g]
                               ELSE answered[s[LastToSave(g, s, played)]].doc]
  <2>1. PICK last : last = [g \in Games |-> LastToSave(g, s, played)]
    OBVIOUS
  <2>2. saved = [g \in Games |-> IF last[g] = 0 THEN store[g] ELSE answered[s[last[g]]].doc]
    BY <2>1, Zenon DEF SavedBy
  <2>3. \A g \in Games : last[g] = LastToSave(g, s, played)
    BY <2>1
  <2> QED
    BY <2>2, <2>3
<1>2. DOMAIN saved = Games
  BY <1>1
<1>3. ASSUME NEW g \in Games
      PROVE  \/ saved[g] = store[g] /\ \A p \in Range(s) : p \in played => page[p].game # g
             \/ \E p \in played : page[p].game = g /\ saved[g] = answered[p].doc
  <2>1. PICK w : w = LastToSave(g, s, played)
    OBVIOUS
  <2>2. saved[g] = IF w = 0 THEN store[g] ELSE answered[s[w]].doc
    BY <1>1, <2>1
  <2>3. \/ w = 0 /\ \A p \in Range(s) : p \in played => page[p].game # g
        \/ w # 0 /\ s[w] \in played /\ page[s[w]].game = g
    BY <2>1, WriterFacts
  <2> QED
    BY <2>2, <2>3
<1> QED
  BY <1>2, <1>3

LEMMA BestMoveKept ==
    ASSUME PlayInv, NEW t \in Tabs, BestMove(t)
    PROVE  PlayInv'
<1> USE DEF PlayInv
<1>1. PICK e : e = engine[t]
  OBVIOUS
<1>2. PICK listening : listening = e.listening
  OBVIOUS
<1>3. /\ e \in EngineType /\ listening \in Seq(Pages) /\ e.searches \in Seq(Pages)
      /\ e.searches # << >>
  BY <1>1, <1>2 DEF TypeOK, EngineType, BestMove
<1>4. PICK asked : asked = Range(listening)
  OBVIOUS
<1>5. asked \subseteq Pages /\ asked \subseteq AwaitedOf(e)
  BY <1>2, <1>3, <1>4 DEF Range, AwaitedOf
<1>6. \A p \in asked : /\ TabOf[p] = t /\ Waits(page[p]) /\ page[p] \in PageType
                       /\ PageRight(page[p]) /\ page[p].doc \in DocType /\ page[p].game \in Games
                       /\ Plays(page[p])
  BY <1>1, <1>5 DEF AwaitedRight, Waits, TypeOK, PagesRight, PageRight
<1>7. PICK reply \in [asked -> Positions \cup {"illegal"}] :
        /\ page' = [p \in Pages |->
               IF p \in DOMAIN reply THEN AnsweredPages(listening, reply)[p] ELSE page[p]]
        /\ store' = SavedBy(AnsweredPages(listening, reply), listening)
        /\ engine' = [engine EXCEPT ![t] = EngineAfter(e, AnsweredPages(listening, reply))]
        /\ stack' = stack /\ shared' = shared
  BY <1>1, <1>2, <1>4, Zenon DEF BestMove
<1>8. PICK answered : answered = AnsweredPages(listening, reply)
  OBVIOUS
<1>9. PICK played : played = PlayedBy(answered)
  OBVIOUS
<1>10. PICK after : after = EngineAfter(e, answered)
  OBVIOUS
<1>11. /\ \A p \in asked : page'[p] = answered[p]
       /\ \A p \in Pages \ asked : page'[p] = page[p]
       /\ DOMAIN answered = asked /\ \A p \in asked : answered[p] = Answered(page[p], reply[p])
       /\ DOMAIN page' = Pages
  <2>1. answered = [p \in asked |-> Answered(page[p], reply[p])]
    BY <1>4, <1>8, Zenon DEF AnsweredPages
  <2>2. page' = [p \in Pages |-> IF p \in asked THEN answered[p] ELSE page[p]]
    BY <1>7, <1>8
  <2> QED
    BY <1>5, <2>1, <2>2
<1>12. played = {p \in asked : answered[p].match # page[p].match}
  BY <1>9, <1>11, Zenon DEF PlayedBy
<1>13. \A p \in asked :
         /\ answered[p] \in PageType /\ PageRight(answered[p]) /\ answered[p].doc \in DocType
         /\ answered[p].state = page[p].state /\ answered[p].game = page[p].game
         /\ answered[p].view = page[p].view
         /\ answered[p].doc.human = page[p].doc.human
         /\ \/ answered[p].doc = page[p].doc /\ answered[p].match = page[p].match
            \/ answered[p].doc = DocOf(page[p].doc, answered[p].match)
         /\ ~IsOver(answered[p].match) => Waits(answered[p])
  <2> SUFFICES ASSUME NEW p \in asked, NEW new, new = answered[p], NEW pg, pg = page[p]
               PROVE  /\ new \in PageType /\ PageRight(new) /\ new.doc \in DocType
                      /\ new.state = pg.state /\ new.game = pg.game /\ new.view = pg.view
                      /\ new.doc.human = pg.doc.human
                      /\ \/ new.doc = pg.doc /\ new.match = pg.match
                         \/ new.doc = DocOf(pg.doc, new.match)
                      /\ ~IsOver(new.match) => Waits(new)
    OBVIOUS
  <2>1. PICK attempt : attempt = reply[p]
    OBVIOUS
  <2>2. attempt \in Positions \cup {"illegal"} /\ new = Answered(pg, attempt)
    BY <1>7, <1>11, <2>1
  <2>3. pg \in PageType /\ pg.doc \in DocType /\ PageRight(pg) /\ Waits(pg)
    BY <1>6
  <2> QED
    BY <2>2, <2>3, AnsweredFacts
<1>14. \A q \in Pages : /\ page'[q] \in PageType /\ page'[q].state = page[q].state
                        /\ page'[q].game = page[q].game /\ page'[q].view = page[q].view
  BY <1>11, <1>13 DEF TypeOK
<1>15. /\ DOMAIN store' = Games
       /\ \A g \in Games :
            \/ store'[g] = store[g] /\ \A p \in asked : p \in played => page[p].game # g
            \/ \E p \in played : page[p].game = g /\ store'[g] = answered[p].doc
  <2>1. PICK saved : saved = SavedBy(answered, listening)
    OBVIOUS
  <2>2. store' = saved
    BY <1>7, <1>8, <2>1
  <2> QED
    BY <1>3, <1>4, <1>9, <2>1, <2>2, SavedFacts
<1>16. \A p \in played : /\ p \in asked /\ answered[p].doc \in DocType
                         /\ answered[p].doc = DocOf(page[p].doc, answered[p].match)
                         /\ DocRight(answered[p].doc)
  <2> SUFFICES ASSUME NEW p \in played, NEW doc, doc = answered[p].doc,
                      NEW m, m = answered[p].match
               PROVE  /\ p \in asked /\ doc \in DocType /\ doc = DocOf(page[p].doc, m)
                      /\ DocRight(doc)
    OBVIOUS
  <2>1. p \in asked /\ doc \in DocType /\ doc = DocOf(page[p].doc, m) /\ m \in MatchType
    BY <1>12, <1>13 DEF PageType
  <2>2. page[p].doc \in DocType
    BY <1>6, <2>1
  <2> QED
    BY <2>1, <2>2, DocOfType
<1>17. /\ store' \in [Games -> DocType \cup {NoDoc}]
       /\ \A g \in Games : store[g] # NoDoc => store'[g] # NoDoc
  <2>1. \A g \in Games : /\ store'[g] \in DocType \cup {NoDoc}
                         /\ store[g] # NoDoc => store'[g] # NoDoc
    BY <1>15, <1>16, DocAssumption DEF TypeOK
  <2>2. store' = [g \in Games |-> store'[g]]
    <3>1. PICK saved : saved = SavedBy(answered, listening)
      OBVIOUS
    <3>2. saved = [g \in Games |-> saved[g]]
      BY <3>1 DEF SavedBy
    <3> QED
      BY <1>7, <1>8, <3>1, <3>2
  <2> QED
    BY <2>1, <2>2
<1>18. after \in EngineType /\ engine' = [engine EXCEPT ![t] = after]
  <2>1. [e EXCEPT !.listening = << >>, !.searches = Tail(e.searches)] \in EngineType
    <3>1. PICK searches : searches = Tail(e.searches)
      OBVIOUS
    <3>2. searches \in Seq(Pages)
      BY <1>3, <3>1
    <3>3. PICK none : none = << >>
      OBVIOUS
    <3>5. none \in Seq(Pages)
      BY <3>3
    <3>4. [e EXCEPT !.listening = none, !.searches = searches] \in EngineType
      BY <1>3, <3>2, <3>5 DEF EngineType
    <3> QED
      BY <3>1, <3>3, <3>4
  <2>2. after = IF \E p \in played : IsOver(answered[p].match) THEN IdleEngine
                ELSE [e EXCEPT !.listening = << >>, !.searches = Tail(e.searches)]
    BY <1>9, <1>10, Zenon DEF EngineAfter
  <2>3. after \in EngineType
    BY <2>1, <2>2, IdleFacts
  <2> QED
    BY <1>7, <1>8, <1>10, <2>3
<1>19. page' \in [Pages -> PageType]
  <2>1. page' = [p \in Pages |-> page'[p]]
    BY <1>7
  <2> QED
    BY <1>14, <2>1
<1>20. TypeOK'
  BY <1>7, <1>17, <1>18, <1>19 DEF TypeOK
<1>21. PagesRight'
  BY <1>5, <1>11, <1>13 DEF PagesRight
<1>22. StoreRight'
  BY <1>15, <1>16 DEF StoreRight
<1>23. StacksRight' /\ SharedKnown' /\ HeldIsStored'
  BY <1>7, <1>14, <1>17, <1>19, SteadyKept
<1>24. AwaitedRight'
  <2> SUFFICES ASSUME NEW u \in Tabs, NEW q \in AwaitedOf(engine'[u])
               PROVE  TabOf[q] = u /\ Waits(page'[q])
    BY DEF AwaitedRight, AwaitedOf
  <2>1. engine'[t] = after /\ \A v \in Tabs \ {t} : engine'[v] = engine[v]
    BY <1>18 DEF TypeOK
  <2>2. CASE u # t
    <3>1. q \in AwaitedOf(engine[u])
      BY <2>1, <2>2
    <3>2. TabOf[q] = u /\ Waits(page[q])
      BY <3>1 DEF AwaitedRight
    <3>3. q \in Pages
      BY <3>1 DEF AwaitedOf, TypeOK, EngineType, Range
    <3> QED
      BY <1>6, <1>11, <2>2, <3>2, <3>3
  <2>3. CASE u = t
    <3>1. after # IdleEngine
      BY <2>1, <2>3, IdleFacts
    <3>2. /\ after = [e EXCEPT !.listening = << >>, !.searches = Tail(e.searches)]
          /\ \A p \in played : ~IsOver(answered[p].match)
      BY <1>9, <1>10, <3>1, Zenon DEF EngineAfter
    <3>3. AwaitedOf(after) \subseteq AwaitedOf(e)
      <4>1. PICK searches : searches = Tail(e.searches)
        OBVIOUS
      <4>2. after = [e EXCEPT !.listening = << >>, !.searches = searches]
        BY <3>2, <4>1
      <4>3. after.waiting = e.waiting /\ after.listening = << >>
        BY <1>3, <4>2 DEF EngineType
      <4> QED
        BY <4>3 DEF AwaitedOf, Range
    <3>4. TabOf[q] = t /\ Waits(page[q]) /\ q \in Pages
      <4>1. q \in AwaitedOf(engine[t])
        BY <1>1, <2>1, <2>3, <3>3
      <4>2. q \in Pages
        BY <4>1 DEF AwaitedOf, TypeOK, EngineType, Range
      <4> QED
        BY <4>1, <4>2 DEF AwaitedRight
    <3>5. CASE q \in asked
      <4>1. ~IsOver(answered[q].match)
        BY <1>12, <3>2, <3>4, <3>5 DEF Waits
      <4> QED
        BY <1>11, <1>13, <2>3, <3>4, <3>5, <4>1
    <3>6. CASE q \notin asked
      BY <1>11, <2>3, <3>4, <3>6
    <3> QED
      BY <3>5, <3>6
  <2> QED
    BY <2>2, <2>3
<1>25. BoardIsSaved'
  <2> SUFFICES ASSUME NEW q \in Pages, page'[q].state \in {"open", "orphan"},
                      page'[q].view = "live", page'[q].game \notin shared
               PROVE  store'[page'[q].game] = DocOf(page'[q].doc, page'[q].match)
    BY <1>7 DEF BoardIsSaved
  <2>1. PICK g : g = page[q].game
    OBVIOUS
  <2>2. /\ page'[q].game = g /\ g \notin shared /\ Plays(page[q]) /\ g \in Games
        /\ page[q].view = "live" /\ page[q].doc \in DocType
    BY <1>14, <2>1 DEF Plays, PagesRight, PageRight
  <2>3. store[g] = DocOf(page[q].doc, page[q].match)
    BY <1>14, <2>1, <2>2 DEF BoardIsSaved
  <2>4. \A r \in played : page[r].game = g => r = q
    <3>1. \A r \in played : r \in Pages /\ Plays(page[r])
      BY <1>5, <1>6, <1>16
    <3> QED
      BY <2>1, <2>2, <3>1, SoleHolder
  <2>5. \/ store'[g] = store[g] /\ q \notin played
        \/ q \in played /\ store'[g] = answered[q].doc
    <3>1. CASE store'[g] = store[g] /\ \A p \in asked : p \in played => page[p].game # g
      BY <1>16, <2>1, <3>1
    <3>2. CASE \E p \in played : page[p].game = g /\ store'[g] = answered[p].doc
      BY <2>4, <3>2
    <3> QED
      BY <1>15, <2>2, <3>1, <3>2
  <2>6. CASE q \notin asked
    <3>1. page'[q] = page[q] /\ store'[g] = store[g]
      BY <1>11, <1>16, <2>5, <2>6
    <3> QED
      BY <2>2, <2>3, <3>1
  <2>7. CASE q \in asked
    <3>1. PICK m : m = answered[q].match
      OBVIOUS
    <3>2. /\ page'[q] = answered[q] /\ page'[q].match = m /\ m \in MatchType
          /\ \/ answered[q].doc = page[q].doc /\ m = page[q].match
             \/ answered[q].doc = DocOf(page[q].doc, m)
      BY <1>11, <1>13, <2>7, <3>1 DEF PageType
    <3>3. DocOf(DocOf(page[q].doc, m), m) = DocOf(page[q].doc, m)
      BY <2>2, <3>2, DocOfAgain
    <3>4. DocOf(answered[q].doc, m) = DocOf(page[q].doc, m)
      BY <3>2, <3>3, Zenon
    <3>5. store'[g] = DocOf(page[q].doc, m)
      <4>1. CASE q \in played
        BY <1>16, <2>5, <3>1, <4>1
      <4>2. CASE q \notin played
        <5>1. m = page[q].match
          BY <1>12, <2>7, <3>1, <4>2
        <5>2. store'[g] = store[g]
          BY <2>5, <4>2
        <5> QED
          BY <2>3, <5>1, <5>2
      <4> QED
        BY <4>1, <4>2
    <3> QED
      BY <2>2, <3>2, <3>4, <3>5
  <2> QED
    BY <2>6, <2>7
<1> QED
  BY <1>20, <1>21, <1>22, <1>23, <1>24, <1>25

-----------------------------------------------------------------------------
(***************************************************************************)
(* The invariant, and what it shows.                                       *)
(***************************************************************************)

LEMMA PlayInit ==
    ASSUME Init
    PROVE  PlayInv
<1>1. /\ store = [g \in Games |-> NoDoc] /\ page = [p \in Pages |-> FreshPage]
      /\ stack = [t \in Tabs |-> << >>] /\ engine = [t \in Tabs |-> IdleEngine] /\ shared = {}
  BY DEF Init
<1>2. FreshPage \in PageType /\ FreshPage.state = "new" /\ FreshPage.ticking = FALSE
  BY FreshFacts
<1>3. IdleEngine \in EngineType /\ AwaitedOf(IdleEngine) = {}
  BY IdleFacts
<1>4. PageRight(FreshPage) /\ ~Plays(FreshPage)
  BY <1>2 DEF PageRight, Plays
<1>5. TypeOK
  BY <1>1, <1>2, <1>3 DEF TypeOK
<1>6. \A p \in Pages : page[p] = FreshPage
  BY <1>1
<1>7. PagesRight /\ SharedKnown /\ HeldIsStored
  BY <1>4, <1>6 DEF PagesRight, SharedKnown, HeldIsStored
<1>8. StoreRight /\ StacksRight
  BY <1>1 DEF StoreRight, StacksRight
<1>9. AwaitedRight
  BY <1>1, <1>3 DEF AwaitedRight
<1>10. BoardIsSaved
  BY <1>2, <1>6 DEF BoardIsSaved
<1> QED
  BY <1>5, <1>7, <1>8, <1>9, <1>10 DEF PlayInv

LEMMA PlayNext ==
    ASSUME PlayInv, [Next]_vars
    PROVE  PlayInv'
<1>1. CASE UNCHANGED vars
  BY <1>1 DEF vars, PlayInv, TypeOK, PagesRight, StoreRight, StacksRight, AwaitedRight,
              SharedKnown, HeldIsStored, BoardIsSaved, AwaitedOf, Range
<1>2. CASE \E g \in Games : StartGame(g)
  BY <1>2, StartGameKept
<1>3. CASE \E p \in Pages, g \in Games : OpenPage(p, g)
  BY <1>3, OpenPageKept
<1>4. CASE \E t \in Tabs : LeavePage(t)
  BY <1>4, LeavePageKept
<1>5. CASE \E t \in Tabs : ReloadTab(t)
  BY <1>5, ReloadTabKept
<1>6. CASE \E p \in Pages : TickPage(p)
  BY <1>6, TickPageKept
<1>7. CASE \E p \in Pages : HumanMove(p)
  BY <1>7, HumanMoveKept
<1>8. CASE \E p \in Pages, c \in Color : ResignLive(p, c)
  BY <1>8, ResignLiveKept
<1>9. CASE \E p \in Pages, c \in Color : ResignFromRecap(p, c)
  BY <1>9, ResignFromRecapKept
<1>10. CASE \E p, q \in Pages, g \in Games : Rematch(p, q, g)
  BY <1>10, RematchKept
<1>11. CASE \E t \in Tabs : EngineStep(t)
  BY <1>11, WorkerReadyKept, BestMoveKept DEF EngineStep
<1> QED
  BY <1>1, <1>2, <1>3, <1>4, <1>5, <1>6, <1>7, <1>8, <1>9, <1>10, <1>11 DEF Next

\* Whatever the pages, tabs and games: what a page shows, what is saved and what the
\* engine was asked fit together after any handler of the chess pages.
THEOREM PlayInvariant == Spec => []PlayInv
<1>1. Init => PlayInv
  BY PlayInit
<1>2. PlayInv /\ [Next]_vars => PlayInv'
  BY PlayNext
<1> QED
  BY <1>1, <1>2, PTL DEF Spec

\* The chess pages keep the types of their state: saved documents, pages, stacks,
\* engine requests.
THEOREM PlayTypeCorrect == Spec => []TypeOK
<1>1. PlayInv => TypeOK
  BY DEF PlayInv
<1> QED
  BY <1>1, PlayInvariant, PTL

\* No timer outlives its page or its game, and Rematch is offered exactly when the
\* game is over (finalize, load, onDestroy of chess-play-page.component.ts).
THEOREM PageFollowsMatchHolds == Spec => []PageFollowsMatch
<1>1. PlayInv => PageFollowsMatch
  BY DEF PlayInv, PagesRight, PageRight, PageFollowsMatch
<1> QED
  BY <1>1, PlayInvariant, PTL

\* What the only live page of a game shows is what a reload would find: persist() has
\* run in the step of every move and of every ending.
THEOREM BoardIsSavedHolds == Spec => []BoardIsSaved
<1>1. PlayInv => BoardIsSaved
  BY DEF PlayInv
<1> QED
  BY <1>1, PlayInvariant, PTL

-----------------------------------------------------------------------------
(***************************************************************************)
(* What a step may never do.  Two facts more than PlayInv are needed: a    *)
(* recap shows what is saved, so resigning from it loses no move; and who  *)
(* waits for the engine is thinking, on the engine's turn, so the board    *)
(* takes no move from the human until the answer has come.                 *)
(***************************************************************************)

RecapIsSaved ==
    \A p \in Pages :
        Plays(page[p]) /\ page[p].view = "recap" /\ page[p].game \notin shared
            => store[page[p].game] = page[p].doc

\* It is the turn of the engine, and the page has asked it.
OnTurn(pg) == pg.thinking /\ Turn(pg.match) # pg.doc.human

AskedRight == \A t \in Tabs : \A p \in AwaitedOf(engine[t]) : OnTurn(page[p])

\* A worker that runs lets nobody wait for it, one that does not has been told nothing.
WorkerRight(e) ==
    /\ e.worker = "ready" => e.waiting = << >>
    /\ e.worker # "ready" => e.listening = << >> /\ e.searches = << >>

EnginesRight == \A t \in Tabs : WorkerRight(engine[t])

TurnInv == PlayInv /\ RecapIsSaved /\ AskedRight /\ EnginesRight

\* What one step makes of a saved game.
Grown(old, new) == IsPrefix(old.moves, new.moves) /\ (old.status = "complete" => new = old)

GamesGrow ==
    \A g \in Games :
        store[g] # NoDoc /\ g \notin shared => store'[g] # NoDoc /\ Grown(store[g], store'[g])

\* What one step does to a page's moves.
Moves(p) == IsVsComputer(page[p]) /\ Len(page'[p].match.moves) > Len(page[p].match.moves)

SidesMove ==
    \A p \in Pages :
        Moves(p) => (Turn(page[p].match) # page[p].doc.human <=>
                         p \in Range(engine[TabOf[p]].listening))

LEMMA PrefixFacts ==
    ASSUME NEW S, NEW s \in Seq(S)
    PROVE  /\ IsPrefix(s, s) /\ IsPrefix(<< >>, s)
           /\ \A x \in S : IsPrefix(s, Append(s, x))
<1>1. IsPrefix(s, s)
  BY DEF IsPrefix
<1>2. IsPrefix(<< >>, s)
  BY DEF IsPrefix
<1>3. ASSUME NEW x \in S PROVE IsPrefix(s, Append(s, x))
  <2>1. Append(s, x) \in Seq(S) /\ Len(Append(s, x)) = Len(s) + 1
    OBVIOUS
  <2>2. SubSeq(Append(s, x), 1, Len(s)) = SubSeq(s, 1, Len(s))
    BY <2>1
  <2> QED
    BY <2>1, <2>2 DEF IsPrefix
<1> QED
  BY <1>1, <1>2, <1>3

\* A saved game that is not touched.
LEMMA SameGrows ==
    ASSUME TypeOK, store' = store
    PROVE  GamesGrow
<1> SUFFICES ASSUME NEW g \in Games, store[g] # NoDoc
             PROVE  store'[g] # NoDoc /\ Grown(store[g], store'[g])
  BY DEF GamesGrow
<1>1. store[g].moves \in Seq(MoveRecord)
  BY DEF TypeOK, DocType
<1> QED
  BY <1>1, PrefixFacts DEF Grown

\* A new game is saved, under an id that had none.
LEMMA NewGameGrows ==
    ASSUME TypeOK, NEW g \in Games, store[g] = NoDoc, NEW doc, store' = [store EXCEPT ![g] = doc]
    PROVE  GamesGrow
<1> SUFFICES ASSUME NEW h \in Games, store[h] # NoDoc
             PROVE  store'[h] # NoDoc /\ Grown(store[h], store'[h])
  BY DEF GamesGrow
<1>1. h # g /\ store'[h] = store[h]
  BY DEF TypeOK
<1>2. store[h].moves \in Seq(MoveRecord)
  BY DEF TypeOK, DocType
<1> QED
  BY <1>1, <1>2, PrefixFacts DEF Grown

\* A live page plays on, or ends its game.
LEMMA LivePageGrows ==
    ASSUME PlayInv, PlayInv', RecapIsSaved, NEW p \in Pages,
           page[p].state = "open", page[p].view = "live", ~IsOver(page[p].match),
           page'[p].state = "open", page'[p].view = "live", page'[p].game = page[p].game,
           IsPrefix(page[p].match.moves, page'[p].match.moves),
           \A q \in Pages \ {p} : page'[q] = page[q],
           \A g \in Games \ {page[p].game} : store'[g] = store[g],
           shared' = shared
    PROVE  RecapIsSaved' /\ GamesGrow
<1> DEFINE g == page[p].game
<1>1. g \in Games /\ Plays(page[p]) /\ page[p].doc \in DocType /\ page[p].match \in MatchType
  BY LiveFacts
<1>2. page'[p].doc \in DocType /\ page'[p].match \in MatchType
  BY <1>1 DEF PlayInv, PagesRight, PageRight, Plays, TypeOK, PageType
<1>3. RecapIsSaved'
  <2> SUFFICES ASSUME NEW q \in Pages, Plays(page'[q]), page'[q].view = "recap",
                      page'[q].game \notin shared
               PROVE  store'[page'[q].game] = page'[q].doc
    BY DEF RecapIsSaved, Plays
  <2>1. q # p /\ page'[q] = page[q]
    OBVIOUS
  <2>2. page[q].game \in Games
    BY <2>1 DEF PlayInv, PagesRight, PageRight
  <2>3. page[q].game # g
    BY <1>1, <2>1, SoleHolder DEF PlayInv
  <2> QED
    BY <2>1, <2>2, <2>3 DEF RecapIsSaved
<1>4. GamesGrow
  <2> SUFFICES ASSUME NEW h \in Games, store[h] # NoDoc, h \notin shared
               PROVE  store'[h] # NoDoc /\ Grown(store[h], store'[h])
    BY DEF GamesGrow
  <2>1. store[h] \in DocType /\ store[h].moves \in Seq(MoveRecord)
    BY DEF PlayInv, TypeOK, DocType
  <2>2. CASE h # g
    BY <2>1, <2>2, PrefixFacts DEF Grown
  <2>3. CASE h = g
    <3>1. store[h] = DocOf(page[p].doc, page[p].match)
      BY <2>3 DEF PlayInv, BoardIsSaved
    <3>2. store'[h] = DocOf(page'[p].doc, page'[p].match)
      BY <2>3 DEF PlayInv, BoardIsSaved
    <3>3. store[h].moves = page[p].match.moves /\ store[h].status = "in-progress"
      BY <1>1, <3>1, DocOfType
    <3>4. store'[h].moves = page'[p].match.moves /\ store'[h] \in DocType
      BY <1>2, <3>2, DocOfType
    <3> QED
      BY <3>3, <3>4, DocAssumption DEF Grown
  <2> QED
    BY <2>2, <2>3
<1> QED
  BY <1>3, <1>4

\* No page makes a move.
LEMMA NobodyMoves ==
    ASSUME TypeOK, \A p \in Pages : \/ page'[p].match.moves = page[p].match.moves
                                    \/ page'[p].match.moves = << >>
    PROVE  SidesMove
<1> SUFFICES ASSUME NEW p \in Pages PROVE ~Moves(p)
  BY DEF SidesMove
<1>1. page[p].match.moves \in Seq(MoveRecord)
  BY DEF TypeOK, PageType, MatchType
<1> QED
  BY <1>1 DEF Moves

\* One page, or none, is told to the engine of its tab.
LEMMA AskedKept ==
    ASSUME PlayInv, AskedRight, EnginesRight, NEW p \in Pages, NEW new,
           page' = [page EXCEPT ![p] = new],
           NEW e \in EngineType, WorkerRight(e),
           engine' = [engine EXCEPT ![TabOf[p]] = e],
           AwaitedOf(e) \subseteq AwaitedOf(engine[TabOf[p]]) \cup {p},
           p \in AwaitedOf(e) => OnTurn(new)
    PROVE  AskedRight' /\ EnginesRight'
<1> USE DEF PlayInv
<1>1. TabOf[p] \in Tabs
  BY PlayAssumption
<1>2. /\ engine'[TabOf[p]] = e
      /\ \A t \in Tabs \ {TabOf[p]} : engine'[t] = engine[t]
      /\ page'[p] = new /\ \A q \in Pages \ {p} : page'[q] = page[q]
  BY <1>1 DEF TypeOK
<1>3. ASSUME NEW t \in Tabs, NEW q \in AwaitedOf(engine'[t])
      PROVE  OnTurn(page'[q])
  <2>1. engine'[t] \in EngineType
    BY <1>2 DEF TypeOK
  <2>2. q \in Pages
    BY <1>3, <2>1 DEF AwaitedOf, EngineType, Range
  <2>3. CASE q = p
    <3>1. t = TabOf[p]
      BY <1>2, <2>3, <1>3 DEF AwaitedRight
    <3> QED
      BY <1>2, <1>3, <2>3, <3>1
  <2>4. CASE q # p
    <3>1. q \in AwaitedOf(engine[t])
      BY <1>2, <1>3, <2>4
    <3> QED
      BY <1>2, <2>2, <2>4, <3>1 DEF AskedRight
  <2> QED
    BY <2>3, <2>4
<1>4. AskedRight'
  <2> SUFFICES ASSUME NEW t \in Tabs, NEW q \in AwaitedOf(engine[t])'
               PROVE  OnTurn(page[q])'
    BY DEF AskedRight
  <2>1. q \in AwaitedOf(engine'[t])
    BY DEF AwaitedOf
  <2> QED
    BY <1>3, <2>1 DEF OnTurn
<1>5. EnginesRight'
  BY <1>2 DEF EnginesRight, WorkerRight
<1> QED
  BY <1>4, <1>5

LEMMA IdleWorker == WorkerRight(IdleEngine)
BY DEF WorkerRight, IdleEngine

LEMMA FreedWorker ==
    ASSUME NEW pg, NEW e, WorkerRight(e)
    PROVE  WorkerRight(FreedIf(pg, e))
BY IdleWorker DEF FreedIf

LEMMA AskedWorker ==
    ASSUME NEW asks, NEW e \in EngineType, WorkerRight(e), NEW p
    PROVE  WorkerRight(AskedIf(asks, e, p))
<1>1. PICK waiting : waiting = Append(e.waiting, p)
  OBVIOUS
<1>2. PICK listening : listening = Append(e.listening, p)
  OBVIOUS
<1>3. PICK searches : searches = Append(e.searches, p)
  OBVIOUS
<1>4. CASE e.worker = "ready"
  <2>1. Asked(e, p) = [e EXCEPT !.listening = listening, !.searches = searches]
    BY <1>2, <1>3, <1>4 DEF Asked
  <2> QED
    BY <1>4, <2>1 DEF WorkerRight, EngineType, AskedIf
<1>5. CASE e.worker # "ready"
  <2>1. Asked(e, p) = [e EXCEPT !.worker = "booting", !.waiting = waiting]
    BY <1>1, <1>5 DEF Asked
  <2> QED
    BY <1>5, <2>1 DEF WorkerRight, EngineType, AskedIf
<1> QED
  BY <1>4, <1>5

\* Nothing is asked, nothing answered, and who waits stays as it is.
LEMMA QuietAsked ==
    ASSUME PlayInv, AskedRight, EnginesRight, engine' = engine,
           \A t \in Tabs : \A q \in AwaitedOf(engine[t]) : OnTurn(page[q]) => OnTurn(page'[q])
    PROVE  AskedRight' /\ EnginesRight'
<1>1. AskedRight'
  <2> SUFFICES ASSUME NEW t \in Tabs, NEW q \in AwaitedOf(engine[t])
               PROVE  OnTurn(page'[q])
    BY DEF AskedRight, OnTurn
  <2> QED
    BY DEF AskedRight
<1>2. EnginesRight'
  BY DEF EnginesRight, WorkerRight
<1> QED
  BY <1>1, <1>2

\* The recaps that are left are as they were, and so is the store.
LEMMA QuietRecaps ==
    ASSUME PlayInv, RecapIsSaved, store' = store, shared' = shared,
           \A q \in Pages : Plays(page'[q]) =>
               /\ Plays(page[q]) /\ page'[q].game = page[q].game /\ page'[q].view = page[q].view
               /\ page'[q].doc = page[q].doc
    PROVE  RecapIsSaved'
<1> SUFFICES ASSUME NEW q \in Pages, Plays(page'[q]), page'[q].view = "recap",
                    page'[q].game \notin shared
             PROVE  store[page'[q].game] = page'[q].doc
  BY DEF RecapIsSaved, Plays
<1> QED
  BY DEF RecapIsSaved

\* All that a step shows.
StepRight == RecapIsSaved' /\ AskedRight' /\ EnginesRight' /\ GamesGrow /\ SidesMove

\* A live page that was given another match, and perhaps saved it.
LEMMA PlayedOn ==
    ASSUME NEW pg \in PageType, pg.doc \in DocType, NEW m \in MatchType,
           NEW changed, changed = [pg EXCEPT !.match = m],
           NEW new, new = changed \/ new = Finalized(changed) \/ new = Moved(changed)
    PROVE  /\ new \in PageType /\ new.state = pg.state /\ new.game = pg.game /\ new.view = pg.view
           /\ new.match = m /\ new.thinking = pg.thinking /\ new.doc.human = pg.doc.human
<1>1. /\ changed \in PageType /\ changed.match = m /\ changed.doc = pg.doc
      /\ changed.state = pg.state /\ changed.game = pg.game /\ changed.view = pg.view
      /\ changed.thinking = pg.thinking
  BY WithMatchFacts
<1>2. changed.doc \in DocType
  BY <1>1
<1>3. DocOf(changed.doc, changed.match).human = pg.doc.human
  <2>1. PICK doc : doc = DocOf(pg.doc, m)
    OBVIOUS
  <2>2. doc.human = pg.doc.human
    BY <2>1, DocOfType
  <2> QED
    BY <1>1, <2>1, <2>2
<1>4. CASE new = changed
  BY <1>1, <1>4
<1>5. CASE new = Finalized(changed)
  <2>1. /\ new \in PageType /\ new.doc = DocOf(changed.doc, changed.match)
        /\ new.state = changed.state /\ new.game = changed.game /\ new.view = changed.view
        /\ new.match = changed.match /\ new.thinking = changed.thinking
    BY <1>1, <1>2, <1>5, FinalizedFacts
  <2> QED
    BY <1>1, <1>3, <2>1
<1>6. CASE new = Moved(changed)
  <2>1. /\ new \in PageType /\ new.doc = DocOf(changed.doc, changed.match)
        /\ new.state = changed.state /\ new.game = changed.game /\ new.view = changed.view
        /\ new.match = changed.match /\ new.thinking = changed.thinking
    BY <1>1, <1>2, <1>6, MovedFacts
  <2> QED
    BY <1>1, <1>3, <2>1
<1> QED
  BY <1>4, <1>5, <1>6

\* A step of one live page, and what it has to keep to.
LEMMA LivePageSteps ==
    ASSUME TurnInv, PlayInv', NEW p \in Pages,
           page[p].state = "open", page[p].view = "live", ~IsOver(page[p].match),
           NEW new \in PageType, page' = [page EXCEPT ![p] = new],
           new.state = "open", new.view = "live", new.game = page[p].game,
           IsPrefix(page[p].match.moves, new.match.moves),
           \/ new.match.moves = page[p].match.moves
           \/ IsVsComputer(page[p]) => /\ Turn(page[p].match) = page[p].doc.human
                                       /\ p \notin Range(engine[TabOf[p]].listening),
           NEW doc, store' = store \/ store' = [store EXCEPT ![page[p].game] = doc],
           shared' = shared,
           NEW e \in EngineType, WorkerRight(e),
           engine' = [engine EXCEPT ![TabOf[p]] = e],
           AwaitedOf(e) \subseteq AwaitedOf(engine[TabOf[p]]) \cup {p},
           p \in AwaitedOf(e) => OnTurn(new)
    PROVE  StepRight
<1> USE DEF TurnInv
<1>1. page'[p] = new /\ \A q \in Pages \ {p} : page'[q] = page[q]
  BY DEF PlayInv, TypeOK
<1>2. \A g \in Games \ {page[p].game} : store'[g] = store[g]
  BY DEF PlayInv, TypeOK
<1>3. RecapIsSaved' /\ GamesGrow
  BY <1>1, <1>2, LivePageGrows
<1>4. AskedRight' /\ EnginesRight'
  BY AskedKept
<1>5. SidesMove
  <2> SUFFICES ASSUME NEW q \in Pages, Moves(q)
               PROVE  Turn(page[q].match) # page[q].doc.human
                          <=> q \in Range(engine[TabOf[q]].listening)
    BY DEF SidesMove
  <2>1. page[q].match.moves \in Seq(MoveRecord)
    BY DEF PlayInv, TypeOK, PageType, MatchType
  <2>2. page'[q].match.moves # page[q].match.moves
    BY <2>1 DEF Moves
  <2>3. q = p
    BY <1>1, <2>2
  <2> QED
    BY <1>1, <2>2, <2>3 DEF Moves
<1> QED
  BY <1>3, <1>4, <1>5 DEF StepRight

LEMMA TickPageSteps ==
    ASSUME TurnInv, PlayInv', NEW p \in Pages, TickPage(p)
    PROVE  StepRight
<1> USE DEF TurnInv
<1>1. page[p].state = "open" /\ page[p].ticking
  BY DEF TickPage
<1>2. page[p].view = "live" /\ ~IsOver(page[p].match)
  BY <1>1 DEF PlayInv, PagesRight, PageRight
<1>3. /\ page[p] \in PageType /\ page[p].match \in MatchType /\ page[p].doc \in DocType
      /\ TabOf[p] \in Tabs /\ engine[TabOf[p]] \in EngineType
  BY <1>1, <1>2, LiveFacts
<1>4. PICK m : m = MatchTick(page[p].match, 1)
  OBVIOUS
<1>5. m \in MatchType
  BY <1>3, <1>4, MatchTickType
<1>6. m.moves = page[p].match.moves /\ Turn(m) = Turn(page[p].match)
  BY <1>2, <1>3, <1>4, MatchTickFacts
<1>7. PICK ticked : ticked = [page[p] EXCEPT !.match = m]
  OBVIOUS
<1>8. PICK new : new = IF IsOver(ticked.match) THEN Finalized(ticked) ELSE ticked
  OBVIOUS
<1>9. PICK e : e = FreedIf(ticked, engine[TabOf[p]])
  OBVIOUS
<1>10. PICK doc : doc = Finalized(ticked).doc
  OBVIOUS
<1>11. /\ page' = [page EXCEPT ![p] = new]
       /\ store' = store \/ store' = [store EXCEPT ![page[p].game] = doc]
       /\ engine' = [engine EXCEPT ![TabOf[p]] = e]
       /\ shared' = shared
  BY <1>4, <1>7, <1>8, <1>9, <1>10, Zenon DEF TickPage
<1>12. /\ new \in PageType /\ new.state = page[p].state /\ new.game = page[p].game
       /\ new.view = page[p].view /\ new.match = m /\ new.thinking = page[p].thinking
       /\ new.doc.human = page[p].doc.human
  BY <1>3, <1>5, <1>7, <1>8, PlayedOn
<1>13. e \in EngineType /\ AwaitedOf(e) \subseteq AwaitedOf(engine[TabOf[p]])
  BY <1>3, <1>9, FreedFacts
<1>14. WorkerRight(e)
  BY <1>3, <1>9, FreedWorker DEF EnginesRight
<1>15. p \in AwaitedOf(e) => OnTurn(new)
  BY <1>3, <1>6, <1>12, <1>13 DEF AskedRight, OnTurn
<1>16. IsPrefix(page[p].match.moves, new.match.moves) /\ new.match.moves = page[p].match.moves
  BY <1>3, <1>6, <1>12, PrefixFacts DEF MatchType
<1>17. new.state = "open" /\ new.view = "live"
  BY <1>1, <1>2, <1>12
<1> QED
  BY <1>1, <1>2, <1>11, <1>12, <1>13, <1>14, <1>15, <1>16, <1>17, LivePageSteps

LEMMA ResignLiveSteps ==
    ASSUME TurnInv, PlayInv', NEW p \in Pages, NEW c \in Color, ResignLive(p, c)
    PROVE  StepRight
<1> USE DEF TurnInv
<1>1. page[p].state = "open" /\ page[p].view = "live" /\ ~page[p].isOver
  BY VisibleIsOpen DEF ResignLive
<1>2. /\ page[p] \in PageType /\ page[p].match \in MatchType /\ page[p].doc \in DocType
      /\ page[p].isOver = IsOver(page[p].match)
      /\ TabOf[p] \in Tabs /\ engine[TabOf[p]] \in EngineType
  BY <1>1, LiveFacts
<1>3. PICK m : m = MatchResign(page[p].match, c)
  OBVIOUS
<1>4. m \in MatchType
  BY <1>2, <1>3, MatchResignType
<1>5. m.moves = page[p].match.moves /\ Turn(m) = Turn(page[p].match)
  BY <1>1, <1>2, <1>3, MatchResignFacts
<1>6. PICK changed : changed = [page[p] EXCEPT !.match = m]
  OBVIOUS
<1>7. PICK new : new = Finalized(changed)
  OBVIOUS
<1>8. PICK e : e = FreedIf(new, engine[TabOf[p]])
  OBVIOUS
<1>9. PICK doc : doc = new.doc
  OBVIOUS
<1>10. /\ page' = [page EXCEPT ![p] = new]
       /\ store' = [store EXCEPT ![page[p].game] = doc]
       /\ engine' = [engine EXCEPT ![TabOf[p]] = e]
       /\ shared' = shared
  BY <1>3, <1>6, <1>7, <1>8, <1>9, Zenon DEF ResignLive
<1>11. /\ new \in PageType /\ new.state = page[p].state /\ new.game = page[p].game
       /\ new.view = page[p].view /\ new.match = m /\ new.thinking = page[p].thinking
       /\ new.doc.human = page[p].doc.human
  BY <1>2, <1>4, <1>6, <1>7, PlayedOn
<1>12. e \in EngineType /\ AwaitedOf(e) \subseteq AwaitedOf(engine[TabOf[p]])
  BY <1>2, <1>8, FreedFacts
<1>13. WorkerRight(e)
  BY <1>2, <1>8, FreedWorker DEF EnginesRight
<1>14. p \in AwaitedOf(e) => OnTurn(new)
  BY <1>2, <1>5, <1>11, <1>12 DEF AskedRight, OnTurn
<1>15. IsPrefix(page[p].match.moves, new.match.moves) /\ new.match.moves = page[p].match.moves
  BY <1>2, <1>5, <1>11, PrefixFacts DEF MatchType
<1>16. new.state = "open" /\ new.view = "live" /\ ~IsOver(page[p].match)
  BY <1>1, <1>2, <1>11
<1> QED
  BY <1>1, <1>10, <1>11, <1>12, <1>13, <1>14, <1>15, <1>16, LivePageSteps

LEMMA HumanMoveSteps ==
    ASSUME TurnInv, PlayInv', NEW p \in Pages, HumanMove(p)
    PROVE  StepRight
<1> USE DEF TurnInv
<1>1. /\ page[p].state = "open" /\ page[p].view = "live" /\ ~page[p].isOver /\ ~page[p].thinking
      /\ IsVsComputer(page[p]) => Turn(page[p].match) = page[p].doc.human
  BY VisibleIsOpen DEF HumanMove, MayMove
<1>2. /\ page[p] \in PageType /\ page[p].match \in MatchType /\ page[p].doc \in DocType
      /\ page[p].isOver = IsOver(page[p].match)
      /\ TabOf[p] \in Tabs /\ engine[TabOf[p]] \in EngineType
  BY <1>1, LiveFacts
<1>3. PICK attempt \in Positions :
        LET moved == Moved([page[p] EXCEPT !.match = MatchMove(page[p].match, attempt)])
            asks  == EngineToMove(moved)
        IN  /\ page' = [page EXCEPT ![p] = [moved EXCEPT !.thinking = asks]]
            /\ store' = [store EXCEPT ![page[p].game] = moved.doc]
            /\ engine' = [engine EXCEPT ![TabOf[p]] =
                              AskedIf(asks, FreedIf(moved, engine[TabOf[p]]), p)]
  BY Zenon DEF HumanMove
<1>4. PICK m : m = MatchMove(page[p].match, attempt)
  OBVIOUS
<1>5. attempt \in BoardStatus /\ m \in MatchType
  BY <1>2, <1>4, MatchMoveType, PlayAssumption DEF Attempt
<1>6. IsPrefix(page[p].match.moves, m.moves)
  <2>1. PICK entry : entry = SheetEntry(page[p].match, m.clock)
    OBVIOUS
  <2>2. m.moves = Append(page[p].match.moves, entry)
    BY <1>1, <1>2, <1>4, <1>5, <2>1, MatchMoveFacts
  <2>3. entry \in MoveRecord /\ page[p].match.moves \in Seq(MoveRecord)
    BY <1>2, <1>5, <2>1, SheetEntryType DEF MatchType
  <2> QED
    BY <2>2, <2>3, PrefixFacts
<1>7. PICK changed : changed = [page[p] EXCEPT !.match = m]
  OBVIOUS
<1>8. PICK moved : moved = Moved(changed)
  OBVIOUS
<1>9. /\ moved \in PageType /\ moved.state = page[p].state /\ moved.game = page[p].game
      /\ moved.view = page[p].view /\ moved.match = m
  BY <1>2, <1>5, <1>7, <1>8, PlayedOn
<1>10. PICK asks : asks = EngineToMove(moved)
  OBVIOUS
<1>11. asks \in BOOLEAN
  BY <1>10 DEF EngineToMove
<1>12. PICK freed : freed = FreedIf(moved, engine[TabOf[p]])
  OBVIOUS
<1>13. PICK e : e = AskedIf(asks, freed, p)
  OBVIOUS
<1>14. PICK new : new = [moved EXCEPT !.thinking = asks]
  OBVIOUS
<1>15. PICK doc : doc = moved.doc
  OBVIOUS
<1>16. /\ page' = [page EXCEPT ![p] = new]
       /\ store' = [store EXCEPT ![page[p].game] = doc]
       /\ engine' = [engine EXCEPT ![TabOf[p]] = e]
       /\ shared' = shared
  BY <1>3, <1>4, <1>7, <1>8, <1>10, <1>12, <1>13, <1>14, <1>15, Zenon DEF HumanMove
<1>17. /\ new \in PageType /\ new.state = "open" /\ new.view = "live"
       /\ new.game = page[p].game /\ new.match = m /\ new.doc = moved.doc /\ new.thinking = asks
  BY <1>1, <1>9, <1>11, <1>14 DEF PageType
<1>18. p \notin AwaitedOf(engine[TabOf[p]])
  BY <1>1, <1>2 DEF AskedRight, OnTurn
<1>19. freed \in EngineType /\ AwaitedOf(freed) \subseteq AwaitedOf(engine[TabOf[p]]) /\ WorkerRight(freed)
  BY <1>2, <1>12, FreedFacts, FreedWorker DEF EnginesRight
<1>20. /\ e \in EngineType /\ AwaitedOf(e) \subseteq AwaitedOf(freed) \cup {p}
       /\ ~asks => AwaitedOf(e) = AwaitedOf(freed)
       /\ WorkerRight(e)
  <2>1. WorkerRight(e)
    BY <1>13, <1>19, AskedWorker
  <2>2. freed \in EngineType
    BY <1>19
  <2>3. CASE asks
    <3>1. e = Asked(freed, p)
      BY <1>13, <2>3 DEF AskedIf
    <3> QED
      BY <2>1, <2>2, <2>3, <3>1, AskedFacts
  <2>4. CASE ~asks
    <3>1. e = freed
      BY <1>13, <2>4 DEF AskedIf
    <3> QED
      BY <2>1, <2>2, <3>1
  <2> QED
    BY <2>3, <2>4
<1>21. p \in AwaitedOf(e) => OnTurn(new)
  <2>1. CASE asks
    BY <1>9, <1>10, <1>17, <2>1 DEF EngineToMove, OnTurn
  <2>2. CASE ~asks
    BY <1>18, <1>19, <1>20, <2>2
  <2> QED
    BY <2>1, <2>2
<1>22. p \notin Range(engine[TabOf[p]].listening)
  BY <1>18 DEF AwaitedOf
<1>23. AwaitedOf(e) \subseteq AwaitedOf(engine[TabOf[p]]) \cup {p}
  BY <1>19, <1>20
<1>24. IsPrefix(page[p].match.moves, new.match.moves) /\ ~IsOver(page[p].match)
  BY <1>1, <1>2, <1>6, <1>17
<1> QED
  BY <1>1, <1>16, <1>17, <1>20, <1>21, <1>22, <1>23, <1>24, LivePageSteps

LEMMA ResignFromRecapSteps ==
    ASSUME TurnInv, PlayInv', NEW p \in Pages, NEW c \in Color, ResignFromRecap(p, c)
    PROVE  StepRight
<1> USE DEF TurnInv
<1>1. page[p].state = "open" /\ page[p].view = "recap" /\ page[p].doc.status = "in-progress"
  BY VisibleIsOpen DEF ResignFromRecap
<1>2. page[p] \in PageType /\ Plays(page[p])
  BY <1>1 DEF PlayInv, TypeOK, Plays
<1>3. page[p].doc \in DocType /\ page[p].game \in Games
  BY <1>2 DEF PlayInv, PagesRight, PageRight
<1>4. PICK verdict : verdict = WinFor(Opponent(c))
  OBVIOUS
<1>5. PICK doc : doc = [page[p].doc EXCEPT !.status = "complete", !.result = verdict,
                                           !.endReason = "resignation"]
  OBVIOUS
<1>6. doc \in DocType /\ doc.moves = page[p].doc.moves
  BY <1>3, <1>4, <1>5 DEF DocType, EndReason, WinFor, Verdict
<1>7. PICK new : new = [page[p] EXCEPT !.doc = doc, !.isOver = TRUE]
  OBVIOUS
<1>8. /\ page' = [page EXCEPT ![p].doc = doc, ![p].isOver = TRUE]
      /\ store' = [store EXCEPT ![page[p].game] = doc]
      /\ shared' = shared /\ engine' = engine
  BY <1>4, <1>5, Zenon DEF ResignFromRecap
<1>9. page' = [page EXCEPT ![p] = new]
  BY <1>2, <1>7, <1>8 DEF PlayInv, TypeOK
<1>10. /\ new.doc = doc /\ new.match = page[p].match /\ new.game = page[p].game
       /\ new.thinking = page[p].thinking
  BY <1>2, <1>6, <1>7 DEF PageType
<1>11. /\ page'[p] = new /\ \A q \in Pages \ {p} : page'[q] = page[q]
       /\ store'[page[p].game] = doc
       /\ \A g \in Games \ {page[p].game} : store'[g] = store[g]
  BY <1>3, <1>8, <1>9 DEF PlayInv, TypeOK
<1>12. RecapIsSaved'
  <2> SUFFICES ASSUME NEW q \in Pages, Plays(page'[q]), page'[q].view = "recap",
                      page'[q].game \notin shared
               PROVE  store'[page'[q].game] = page'[q].doc
    BY <1>8 DEF RecapIsSaved, Plays
  <2>1. CASE q = p
    BY <1>10, <1>11, <2>1
  <2>2. CASE q # p
    <3>1. page'[q] = page[q] /\ Plays(page[q]) /\ page[q].game \in Games
      BY <1>11, <2>2 DEF PlayInv, PagesRight, PageRight
    <3>2. page[q].game # page[p].game
      BY <1>2, <2>2, <3>1, SoleHolder DEF PlayInv
    <3> QED
      BY <1>11, <3>1, <3>2 DEF RecapIsSaved
  <2> QED
    BY <2>1, <2>2
<1>13. GamesGrow
  <2> SUFFICES ASSUME NEW h \in Games, store[h] # NoDoc, h \notin shared
               PROVE  store'[h] # NoDoc /\ Grown(store[h], store'[h])
    BY DEF GamesGrow
  <2>1. store[h].moves \in Seq(MoveRecord)
    BY DEF PlayInv, TypeOK, DocType
  <2>2. CASE h # page[p].game
    BY <1>11, <2>1, <2>2, PrefixFacts DEF Grown
  <2>3. CASE h = page[p].game
    <3>1. store[h] = page[p].doc
      BY <1>1, <1>2, <2>3 DEF RecapIsSaved
    <3>2. store'[h] = doc
      BY <1>11, <2>3
    <3> QED
      BY <1>1, <1>6, <2>1, <3>1, <3>2, PrefixFacts, DocAssumption DEF Grown
  <2> QED
    BY <2>2, <2>3
<1>14. \A q \in Pages : page'[q].match = page[q].match
  BY <1>10, <1>11
<1>15. SidesMove
  BY <1>14, NobodyMoves DEF PlayInv
<1>16. p \notin AwaitedOf(engine[TabOf[p]])
  BY <1>1, PlayAssumption DEF PlayInv, AwaitedRight, Waits
<1>17. AskedRight' /\ EnginesRight'
  <2> SUFFICES ASSUME NEW t \in Tabs, NEW q \in AwaitedOf(engine[t]), OnTurn(page[q])
               PROVE  OnTurn(page'[q])
    BY <1>8, QuietAsked
  <2>1. q \in Pages
    BY DEF PlayInv, AwaitedOf, TypeOK, EngineType, Range
  <2>2. q # p
    BY <1>16 DEF PlayInv, AwaitedRight
  <2> QED
    BY <1>11, <2>1, <2>2
<1> QED
  BY <1>12, <1>13, <1>15, <1>17 DEF StepRight

LEMMA StartGameSteps ==
    ASSUME TurnInv, NEW g \in Games, StartGame(g)
    PROVE  StepRight
<1> USE DEF TurnInv
<1>1. PICK form \in FormChoices : store' = [store EXCEPT ![g] = NewDoc(form.human, form.timed)]
  BY DEF StartGame
<1>2. page' = page /\ engine' = engine /\ shared' = shared /\ store[g] = NoDoc
  BY DEF StartGame
<1>3. GamesGrow
  BY <1>1, <1>2, NewGameGrows DEF PlayInv
<1>4. SidesMove
  BY <1>2, NobodyMoves DEF PlayInv
<1>5. AskedRight' /\ EnginesRight'
  BY <1>2, QuietAsked
<1>6. RecapIsSaved'
  <2> SUFFICES ASSUME NEW q \in Pages, Plays(page[q]), page[q].view = "recap",
                      page[q].game \notin shared
               PROVE  store'[page[q].game] = page[q].doc
    BY <1>2 DEF RecapIsSaved, Plays
  <2>1. page[q].game # g /\ page[q].game \in Games
    BY <1>2 DEF PlayInv, HeldIsStored, PagesRight, PageRight
  <2>2. store'[page[q].game] = store[page[q].game]
    BY <1>1, <2>1 DEF PlayInv, TypeOK
  <2> QED
    BY <2>2 DEF RecapIsSaved
<1> QED
  BY <1>3, <1>4, <1>5, <1>6 DEF StepRight

LEMMA WorkerReadySteps ==
    ASSUME TurnInv, NEW t \in Tabs, WorkerReady(t)
    PROVE  StepRight
<1> USE DEF TurnInv
<1>1. /\ page' = page /\ store' = store /\ shared' = shared
      /\ engine' = [engine EXCEPT ![t] =
             [worker |-> "ready", waiting |-> << >>,
              listening |-> engine[t].waiting, searches |-> engine[t].waiting]]
  BY Zenon DEF WorkerReady
<1>2. PICK waiting : waiting = engine[t].waiting
  OBVIOUS
<1>3. PICK e : e = [worker |-> "ready", waiting |-> << >>, listening |-> waiting, searches |-> waiting]
  OBVIOUS
<1>4. AwaitedOf(e) \subseteq AwaitedOf(engine[t]) /\ WorkerRight(e)
  BY <1>2, <1>3 DEF AwaitedOf, Range, WorkerRight
<1>5. engine'[t] = e /\ \A u \in Tabs \ {t} : engine'[u] = engine[u]
  BY <1>1, <1>2, <1>3 DEF PlayInv, TypeOK
<1>6. AskedRight'
  <2> SUFFICES ASSUME NEW u \in Tabs, NEW q \in AwaitedOf(engine'[u])
               PROVE  OnTurn(page[q])
    BY <1>1 DEF AskedRight, OnTurn, AwaitedOf
  <2> QED
    BY <1>4, <1>5 DEF AskedRight
<1>7. EnginesRight'
  BY <1>4, <1>5 DEF EnginesRight, WorkerRight
<1>8. RecapIsSaved'
  BY <1>1, QuietRecaps
<1>9. GamesGrow /\ SidesMove
  BY <1>1, SameGrows, NobodyMoves DEF PlayInv
<1> QED
  BY <1>6, <1>7, <1>8, <1>9 DEF StepRight

LEMMA LeavePageSteps ==
    ASSUME TurnInv, NEW t \in Tabs, LeavePage(t)
    PROVE  StepRight
<1> USE DEF TurnInv
<1>1. stack[t] # << >>
  BY DEF LeavePage
<1>2. PICK p : p = Last(stack[t])
  OBVIOUS
<1>3. p \in Pages /\ page[p].state = "open" /\ TabOf[p] = t /\ page[p] \in PageType
  BY <1>1, <1>2, VisiblePage DEF PlayInv, TypeOK
<1>4. PICK orphan : orphan = [page[p] EXCEPT !.state = "orphan", !.ticking = FALSE]
  OBVIOUS
<1>5. PICK new : new = IF Outstanding(p) THEN orphan ELSE DeadPage
  OBVIOUS
<1>6. /\ page' = [page EXCEPT ![p] = new]
      /\ store' = store /\ engine' = engine /\ shared' = shared
  BY <1>2, <1>4, <1>5, Zenon DEF LeavePage
<1>7. /\ orphan.game = page[p].game /\ orphan.view = page[p].view /\ orphan.doc = page[p].doc
      /\ orphan.match = page[p].match /\ orphan.thinking = page[p].thinking
  BY <1>3, <1>4 DEF PageType
<1>8. ~Plays(DeadPage) /\ DeadPage.match.moves = << >>
  BY FreshFacts DEF Plays, DeadPage, FreshPage, NoMatch, NewMatch
<1>9. page'[p] = new /\ \A q \in Pages \ {p} : page'[q] = page[q]
  BY <1>3, <1>6 DEF PlayInv, TypeOK
<1>10. \A q \in Pages : Plays(page'[q]) =>
           /\ Plays(page[q]) /\ page'[q].game = page[q].game /\ page'[q].view = page[q].view
           /\ page'[q].doc = page[q].doc
  BY <1>3, <1>5, <1>7, <1>8, <1>9 DEF Plays
<1>11. RecapIsSaved'
  BY <1>6, <1>10, QuietRecaps
<1>12. \A q \in Pages : \/ page'[q].match.moves = page[q].match.moves
                        \/ page'[q].match.moves = << >>
  BY <1>5, <1>7, <1>8, <1>9
<1>13. GamesGrow /\ SidesMove
  BY <1>6, <1>12, SameGrows, NobodyMoves DEF PlayInv
<1>14. AskedRight' /\ EnginesRight'
  <2> SUFFICES ASSUME NEW u \in Tabs, NEW q \in AwaitedOf(engine[u]), OnTurn(page[q])
               PROVE  OnTurn(page'[q])
    BY <1>6, QuietAsked
  <2>1. q \in Pages /\ TabOf[q] = u
    BY DEF PlayInv, AwaitedRight, AwaitedOf, TypeOK, EngineType, Range
  <2>2. CASE q = p
    <3>1. new = orphan
      BY <1>3, <1>5, <2>1, <2>2 DEF Outstanding, AwaitedOf
    <3> QED
      BY <1>7, <1>9, <2>2, <3>1 DEF OnTurn
  <2>3. CASE q # p
    BY <1>9, <2>1, <2>3
  <2> QED
    BY <2>2, <2>3
<1> QED
  BY <1>11, <1>13, <1>14 DEF StepRight

LEMMA ReloadTabSteps ==
    ASSUME TurnInv, NEW t \in Tabs, ReloadTab(t)
    PROVE  StepRight
<1> USE DEF TurnInv
<1>1. /\ page' = [q \in Pages |-> IF TabOf[q] = t /\ page[q].state # "new" THEN DeadPage ELSE page[q]]
      /\ engine' = [engine EXCEPT ![t] = IdleEngine]
      /\ store' = store /\ shared' = shared
  BY DEF ReloadTab
<1>2. ~Plays(DeadPage) /\ DeadPage.match.moves = << >>
  BY FreshFacts DEF Plays, DeadPage, FreshPage, NoMatch, NewMatch
<1>3. \A q \in Pages : page'[q] = DeadPage \/ page'[q] = page[q]
  BY <1>1
<1>4. \A q \in Pages : TabOf[q] # t => page'[q] = page[q]
  BY <1>1
<1>5. engine'[t] = IdleEngine /\ \A u \in Tabs \ {t} : engine'[u] = engine[u]
  BY <1>1 DEF PlayInv, TypeOK
<1>6. \A q \in Pages : Plays(page'[q]) => page'[q] = page[q]
  BY <1>2, <1>3
<1>7. RecapIsSaved'
  BY <1>1, <1>6, QuietRecaps
<1>8. \A q \in Pages : \/ page'[q].match.moves = page[q].match.moves
                       \/ page'[q].match.moves = << >>
  BY <1>2, <1>3
<1>9. GamesGrow /\ SidesMove
  BY <1>1, <1>8, SameGrows, NobodyMoves DEF PlayInv
<1>10. AskedRight'
  <2> SUFFICES ASSUME NEW u \in Tabs, NEW q \in AwaitedOf(engine'[u])
               PROVE  OnTurn(page'[q])
    BY DEF AskedRight, AwaitedOf, OnTurn
  <2>1. u # t
    BY <1>5, IdleFacts
  <2>2. q \in AwaitedOf(engine[u])
    BY <1>5, <2>1
  <2>3. q \in Pages /\ TabOf[q] = u
    BY <2>2 DEF PlayInv, AwaitedRight, AwaitedOf, TypeOK, EngineType, Range
  <2> QED
    BY <1>4, <2>1, <2>2, <2>3 DEF AskedRight
<1>11. EnginesRight'
  BY <1>5, IdleWorker DEF EnginesRight, WorkerRight
<1> QED
  BY <1>7, <1>9, <1>10, <1>11 DEF StepRight

LEMMA LoadedTurn ==
    ASSUME PlayInv, NEW g \in Games, NEW pg, pg = Loaded(g)
    PROVE  /\ pg.view = "recap" => pg.doc = store[g]
           /\ pg.thinking => OnTurn(pg)
           /\ pg.match.moves = << >>
<1> USE DEF PlayInv
<1>1. PICK doc : doc = store[g]
  OBVIOUS
<1>2. doc \in DocType \cup {NoDoc}
  BY <1>1 DEF TypeOK
<1>3. PICK base : base = [FreshPage EXCEPT !.state = "open", !.game = g, !.doc = doc]
  OBVIOUS
<1>4. NoMatch.moves = << >>
  BY DEF NoMatch, NewMatch
<1>5. /\ base \in PageType /\ base.doc = doc /\ base.view = "live"
      /\ base.thinking = FALSE /\ base.match.moves = << >>
  BY <1>2, <1>3, <1>4, FreshFacts DEF FreshPage, PageType
<1>6. CASE doc = NoDoc
  <2>1. pg = [base EXCEPT !.view = "missing"]
    BY <1>1, <1>3, <1>6, Zenon DEF Loaded
  <2> QED
    BY <1>5, <2>1 DEF PageType
<1>7. CASE doc # NoDoc /\ doc.moves = << >> /\ doc.status = "in-progress"
  <2>1. doc.timed \in BOOLEAN
    BY <1>1, <1>2, <1>7 DEF DocType
  <2>2. PICK m : m = MatchStart(NewMatch(doc.timed))
    OBVIOUS
  <2>3. m \in MatchType /\ m.moves = << >>
    BY <2>1, <2>2, StartedFacts
  <2>4. PICK live : live = [base EXCEPT !.match = m, !.ticking = TRUE]
    OBVIOUS
  <2>5. PICK thinking : thinking = EngineToMove(live)
    OBVIOUS
  <2>6. pg = [live EXCEPT !.thinking = thinking]
    BY <1>1, <1>3, <1>7, <2>2, <2>4, <2>5, Zenon DEF Loaded
  <2>7. thinking \in BOOLEAN /\ (thinking => Turn(live.match) # live.doc.human)
    BY <2>5 DEF EngineToMove
  <2>8. live \in PageType /\ live.match = m /\ live.view = "live"
    BY <1>5, <2>3, <2>4 DEF PageType
  <2>9. /\ pg.view = "live" /\ pg.match = m /\ pg.thinking = thinking /\ pg.match = live.match
        /\ pg.doc = live.doc
    BY <2>6, <2>7, <2>8 DEF PageType
  <2> QED
    BY <2>3, <2>7, <2>9 DEF OnTurn
<1>8. CASE doc # NoDoc /\ ~(doc.moves = << >> /\ doc.status = "in-progress")
  <2>1. PICK over : over = (doc.status = "complete")
    OBVIOUS
  <2>2. pg = [base EXCEPT !.view = "recap", !.isOver = over]
    BY <1>1, <1>3, <1>8, <2>1, Zenon DEF Loaded
  <2>3. pg.doc = doc /\ pg.thinking = FALSE /\ pg.match.moves = << >>
    BY <1>5, <2>2 DEF PageType
  <2> QED
    BY <1>1, <2>3
<1> QED
  BY <1>6, <1>7, <1>8

LEMMA OpenPageSteps ==
    ASSUME TurnInv, NEW p \in Pages, NEW g \in Games, OpenPage(p, g)
    PROVE  StepRight
<1> USE DEF TurnInv
<1>1. PICK t : t = TabOf[p]
  OBVIOUS
<1>2. t \in Tabs /\ engine[t] \in EngineType /\ page[p].state = "new"
  BY <1>1, PlayAssumption DEF PlayInv, TypeOK, OpenPage
<1>3. PICK pg : pg = Loaded(g)
  OBVIOUS
<1>4. PICK asks : asks = pg.thinking
  OBVIOUS
<1>5. PICK old : old = engine[t]
  OBVIOUS
<1>6. PICK e : e = AskedIf(asks, old, p)
  OBVIOUS
<1>7. /\ page' = [page EXCEPT ![p] = pg]
      /\ engine' = [engine EXCEPT ![t] = e] /\ store' = store
      /\ shared \subseteq shared'
  BY <1>1, <1>3, <1>4, <1>5, <1>6, Zenon DEF OpenPage
<1>8. pg.game = g /\ (pg.view = "recap" => pg.doc = store[g])
      /\ (pg.thinking => OnTurn(pg)) /\ pg.match.moves = << >>
  BY <1>3, LoadedFacts, LoadedTurn
<1>9. page'[p] = pg /\ \A q \in Pages \ {p} : page'[q] = page[q]
  BY <1>7 DEF PlayInv, TypeOK
<1>10. RecapIsSaved'
  <2> SUFFICES ASSUME NEW q \in Pages, Plays(page'[q]), page'[q].view = "recap",
                      page'[q].game \notin shared'
               PROVE  store[page'[q].game] = page'[q].doc
    BY <1>7 DEF RecapIsSaved, Plays
  <2>1. CASE q = p
    BY <1>8, <1>9, <2>1
  <2>2. CASE q # p
    BY <1>7, <1>9, <2>2 DEF RecapIsSaved
  <2> QED
    BY <2>1, <2>2
<1>11. GamesGrow
  BY <1>7, SameGrows DEF PlayInv
<1>12. \A q \in Pages : \/ page'[q].match.moves = page[q].match.moves
                        \/ page'[q].match.moves = << >>
  BY <1>8, <1>9
<1>13. SidesMove
  BY <1>12, NobodyMoves DEF PlayInv
<1>14. AskedRight' /\ EnginesRight'
  <2>1. old \in EngineType /\ WorkerRight(old)
    BY <1>2, <1>5 DEF EnginesRight
  <2>2. /\ e \in EngineType /\ AwaitedOf(e) \subseteq AwaitedOf(old) \cup {p}
        /\ ~asks => AwaitedOf(e) = AwaitedOf(old)
    BY <1>6, <2>1, AskedIfFacts
  <2>3. WorkerRight(e)
    BY <1>6, <2>1, AskedWorker
  <2>4. p \notin AwaitedOf(old)
    BY <1>2, <1>5 DEF PlayInv, AwaitedRight, Waits, Plays
  <2>5. p \in AwaitedOf(e) => OnTurn(pg)
    <3>1. CASE asks
      BY <1>4, <1>8, <3>1
    <3>2. CASE ~asks
      BY <2>2, <2>4, <3>2
    <3> QED
      BY <3>1, <3>2
  <2> QED
    BY <1>1, <1>5, <1>7, <2>2, <2>3, <2>5, AskedKept
<1> QED
  BY <1>10, <1>11, <1>13, <1>14 DEF StepRight

LEMMA RematchSteps ==
    ASSUME TurnInv, NEW p \in Pages, NEW q \in Pages, NEW g \in Games, Rematch(p, q, g)
    PROVE  StepRight
<1> USE DEF TurnInv
<1>1. PICK t : t = TabOf[p]
  OBVIOUS
<1>2. PICK old : old = engine[t]
  OBVIOUS
<1>3. /\ t \in Tabs /\ old \in EngineType /\ WorkerRight(old)
      /\ page[p].state = "open" /\ page[p].view # "missing" /\ page[p].isOver
      /\ page[q].state = "new" /\ TabOf[q] = t /\ store[g] = NoDoc /\ p # q
  BY <1>1, <1>2, VisibleIsOpen, PlayAssumption DEF PlayInv, TypeOK, Rematch, EnginesRight
<1>4. Plays(page[p]) /\ page[p].doc \in DocType
  BY <1>3 DEF PlayInv, PagesRight, PageRight, Plays
<1>5. PICK human : human = Swapped(page[p].doc.human)
  OBVIOUS
<1>6. PICK timed : timed = page[p].doc.timed
  OBVIOUS
<1>7. human \in Human /\ timed \in BOOLEAN
  BY <1>4, <1>5, <1>6 DEF Swapped, Human, DocType, Opponent, Color
<1>8. PICK doc : doc = NewDoc(human, timed)
  OBVIOUS
<1>9. doc \in DocType /\ doc.timed = timed
  BY <1>7, <1>8, NewDocType
<1>10. PICK m : m = MatchStart(NewMatch(timed))
  OBVIOUS
<1>11. m \in MatchType /\ ~IsOver(m) /\ m.moves = << >>
  BY <1>7, <1>10, StartedFacts
<1>12. PICK pg : pg = NewPage(g, doc, m)
  OBVIOUS
<1>13. IsNewPage(pg, g, doc, m)
  BY <1>9, <1>11, <1>12, LivePageFacts
<1>14. PICK asks : asks = EngineToMove(pg)
  OBVIOUS
<1>15. PICK new : new = [pg EXCEPT !.thinking = asks]
  OBVIOUS
<1>16. PICK e : e = AskedIf(asks, old, q)
  OBVIOUS
<1>17. pg = [FreshPage EXCEPT !.state = "open", !.game = g, !.doc = doc,
                              !.match = MatchStart(NewMatch(doc.timed)), !.ticking = TRUE]
  <2>1. MatchStart(NewMatch(doc.timed)) = m
    BY <1>9, <1>10, Zenon
  <2> QED
    BY <1>12, <2>1, Zenon DEF NewPage
<1>18. /\ page' = [page EXCEPT ![p] = DeadPage, ![q] = new]
       /\ engine' = [engine EXCEPT ![t] = e]
       /\ store' = [store EXCEPT ![g] = doc]
       /\ shared' = shared
  <2>1. NewDoc(Swapped(page[p].doc.human), page[p].doc.timed) = doc
    BY <1>5, <1>6, <1>8, Zenon
  <2> QED
    BY <1>1, <1>2, <1>14, <1>15, <1>16, <1>17, <2>1, Zenon DEF Rematch
<1>19. new.view = "live" /\ new.match = m /\ new.thinking = asks /\ new.doc = doc
  <2>1. asks \in BOOLEAN
    BY <1>14 DEF EngineToMove
  <2> QED
    BY <1>13, <1>15, <2>1 DEF IsNewPage, PageType
<1>20. ~Plays(DeadPage) /\ DeadPage.match.moves = << >>
  BY FreshFacts DEF Plays, DeadPage, FreshPage, NoMatch, NewMatch
<1>21. /\ page'[p] = DeadPage /\ page'[q] = new
       /\ \A r \in Pages \ {p, q} : page'[r] = page[r]
  BY <1>3, <1>18 DEF PlayInv, TypeOK
<1>22. GamesGrow
  BY <1>3, <1>18, NewGameGrows DEF PlayInv
<1>23. SidesMove
  <2>1. \A r \in Pages : \/ page'[r].match.moves = page[r].match.moves
                         \/ page'[r].match.moves = << >>
    BY <1>11, <1>19, <1>20, <1>21
  <2> QED
    BY <2>1, NobodyMoves DEF PlayInv
<1>24. RecapIsSaved'
  <2> SUFFICES ASSUME NEW r \in Pages, Plays(page'[r]), page'[r].view = "recap",
                      page'[r].game \notin shared
               PROVE  store'[page'[r].game] = page'[r].doc
    BY <1>18 DEF RecapIsSaved, Plays
  <2>1. r # p /\ r # q /\ page'[r] = page[r]
    BY <1>19, <1>20, <1>21
  <2>2. page[r].game # g /\ page[r].game \in Games
    BY <1>3, <2>1 DEF PlayInv, HeldIsStored, PagesRight, PageRight
  <2>3. store'[page[r].game] = store[page[r].game]
    BY <1>18, <2>2 DEF PlayInv, TypeOK
  <2> QED
    BY <2>1, <2>3 DEF RecapIsSaved
<1>25. q \in AwaitedOf(e) => OnTurn(new)
  <2>1. CASE asks
    <3>1. Turn(pg.match) # pg.doc.human
      BY <1>14, <2>1 DEF EngineToMove
    <3> QED
      BY <1>13, <1>19, <2>1, <3>1 DEF OnTurn, IsNewPage
  <2>2. CASE ~asks
    <3>1. AwaitedOf(e) = AwaitedOf(old)
      BY <1>3, <1>16, <2>2, AskedIfFacts
    <3>2. q \notin AwaitedOf(old)
      BY <1>2, <1>3 DEF PlayInv, AwaitedRight, Waits, Plays
    <3> QED
      BY <3>1, <3>2
  <2> QED
    BY <2>1, <2>2
<1>26. e \in EngineType /\ AwaitedOf(e) \subseteq AwaitedOf(old) \cup {q}
  BY <1>3, <1>16, AskedIfFacts
<1>27. engine'[t] = e /\ \A u \in Tabs \ {t} : engine'[u] = engine[u]
  BY <1>3, <1>18 DEF PlayInv, TypeOK
<1>28. p \notin AwaitedOf(old)
  <2>1. ~Waits(page[p])
    <3>1. page[p].view = "live" => IsOver(page[p].match)
      BY <1>3 DEF PlayInv, PagesRight, PageRight
    <3> QED
      BY <3>1 DEF Waits
  <2> QED
    BY <1>2, <1>3, <2>1 DEF PlayInv, AwaitedRight
<1>29. AskedRight'
  <2> SUFFICES ASSUME NEW u \in Tabs, NEW r \in AwaitedOf(engine'[u])
               PROVE  OnTurn(page'[r])
    BY DEF AskedRight, AwaitedOf, OnTurn
  <2>1. CASE u = t /\ r = q
    BY <1>21, <1>25, <1>27, <2>1
  <2>2. CASE ~(u = t /\ r = q)
    <3>1. r \in AwaitedOf(engine[u])
      BY <1>2, <1>26, <1>27, <2>2
    <3>2. r \in Pages /\ TabOf[r] = u /\ Waits(page[r])
      <4>1. TabOf[r] = u /\ Waits(page[r])
        BY <3>1 DEF PlayInv, AwaitedRight
      <4>2. r \in Pages
        BY <3>1 DEF PlayInv, AwaitedOf, TypeOK, EngineType, Range
      <4> QED
        BY <4>1, <4>2
    <3>3. r # q
      BY <1>3, <3>2 DEF Waits, Plays
    <3>4. r # p
      BY <1>1, <1>2, <1>28, <3>1, <3>2
    <3> QED
      BY <1>21, <3>1, <3>2, <3>3, <3>4 DEF AskedRight
  <2> QED
    BY <2>1, <2>2
<1>30. EnginesRight'
  <2>1. WorkerRight(e)
    BY <1>3, <1>16, AskedWorker
  <2> QED
    BY <1>27, <2>1 DEF EnginesRight, WorkerRight
<1> QED
  BY <1>22, <1>23, <1>24, <1>29, <1>30 DEF StepRight

\* A page that was answered plays one move, or none.
LEMMA AnsweredMoves ==
    ASSUME NEW pg \in PageType, ~IsOver(pg.match), pg.doc \in DocType,
           NEW attempt \in Positions \cup {"illegal"},
           NEW new, new = Answered(pg, attempt)
    PROVE  IsPrefix(pg.match.moves, new.match.moves)
<1>1. pg.match \in MatchType /\ pg.match.moves \in Seq(MoveRecord)
  BY DEF PageType, MatchType
<1>2. CASE attempt = "illegal"
  <2>1. new = [pg EXCEPT !.thinking = FALSE]
    BY <1>2, Zenon DEF Answered
  <2>2. new.match = pg.match
    BY <2>1 DEF PageType
  <2> QED
    BY <1>1, <2>2, PrefixFacts
<1>3. CASE attempt # "illegal"
  <2>1. PICK m : m = MatchMove(pg.match, attempt)
    OBVIOUS
  <2>2. attempt \in BoardStatus /\ m \in MatchType
    BY <1>1, <1>3, <2>1, MatchMoveType, PlayAssumption DEF Attempt
  <2>3. PICK played : played = [pg EXCEPT !.thinking = FALSE, !.match = m]
    OBVIOUS
  <2>4. new = Moved(played)
    BY <1>3, <2>1, <2>3, Zenon DEF Answered
  <2>5. played \in PageType /\ played.doc = pg.doc /\ played.match = m
    BY <2>2, <2>3 DEF PageType
  <2>6. played.doc \in DocType
    BY <2>5
  <2>7. new.match = m
    BY <2>4, <2>5, <2>6, MovedFacts
  <2>8. PICK entry : entry = SheetEntry(pg.match, m.clock)
    OBVIOUS
  <2>9. m.moves = Append(pg.match.moves, entry)
    BY <1>1, <2>1, <2>2, <2>8, MatchMoveFacts
  <2>10. entry \in MoveRecord
    BY <1>1, <2>2, <2>8, SheetEntryType DEF MatchType
  <2> QED
    BY <1>1, <2>7, <2>9, <2>10, PrefixFacts
<1> QED
  BY <1>2, <1>3

LEMMA BestMoveSteps ==
    ASSUME TurnInv, PlayInv', NEW t \in Tabs, BestMove(t)
    PROVE  StepRight
<1> USE DEF TurnInv
<1>1. PICK e : e = engine[t]
  OBVIOUS
<1>2. PICK listening : listening = e.listening
  OBVIOUS
<1>3. /\ e \in EngineType /\ listening \in Seq(Pages) /\ e.searches # << >>
  BY <1>1, <1>2 DEF PlayInv, TypeOK, EngineType, BestMove
<1>4. PICK asked : asked = Range(listening)
  OBVIOUS
<1>5. asked \subseteq Pages
  BY <1>3, <1>4 DEF Range
<1>6. e.worker = "ready" /\ e.waiting = << >> /\ AwaitedOf(e) = asked
  <2>1. e.worker = "ready" /\ e.waiting = << >>
    BY <1>1, <1>3 DEF EnginesRight, WorkerRight
  <2> QED
    BY <1>2, <1>4, <2>1 DEF AwaitedOf, Range
<1>7. \A p \in asked : TabOf[p] = t /\ Waits(page[p]) /\ OnTurn(page[p])
  BY <1>1, <1>6 DEF PlayInv, AwaitedRight, AskedRight
<1>8. \A p \in asked : /\ page[p] \in PageType /\ PageRight(page[p]) /\ page[p].doc \in DocType
                       /\ Plays(page[p]) /\ page[p].view = "live" /\ ~IsOver(page[p].match)
  BY <1>5, <1>7 DEF PlayInv, Waits, TypeOK, PagesRight, PageRight
<1>9. PICK reply \in [asked -> Positions \cup {"illegal"}] :
        /\ page' = [p \in Pages |->
               IF p \in DOMAIN reply THEN AnsweredPages(listening, reply)[p] ELSE page[p]]
        /\ store' = SavedBy(AnsweredPages(listening, reply), listening)
        /\ engine' = [engine EXCEPT ![t] = EngineAfter(e, AnsweredPages(listening, reply))]
        /\ shared' = shared
  BY <1>1, <1>2, <1>4, Zenon DEF BestMove
<1>10. PICK answered : answered = AnsweredPages(listening, reply)
  OBVIOUS
<1>11. PICK played : played = PlayedBy(answered)
  OBVIOUS
<1>12. PICK after : after = EngineAfter(e, answered)
  OBVIOUS
<1>13. /\ \A p \in asked : page'[p] = answered[p] /\ answered[p] = Answered(page[p], reply[p])
       /\ \A p \in Pages \ asked : page'[p] = page[p]
       /\ DOMAIN answered = asked
  <2>1. answered = [p \in asked |-> Answered(page[p], reply[p])]
    BY <1>4, <1>10, Zenon DEF AnsweredPages
  <2>2. page' = [p \in Pages |-> IF p \in asked THEN answered[p] ELSE page[p]]
    BY <1>9, <1>10
  <2> QED
    BY <1>5, <2>1, <2>2
<1>14. played \subseteq asked
  BY <1>11, <1>13, Zenon DEF PlayedBy
<1>15. \A p \in asked :
         /\ page'[p].state = page[p].state /\ page'[p].game = page[p].game
         /\ page'[p].view = "live"
         /\ IsPrefix(page[p].match.moves, page'[p].match.moves)
  <2> SUFFICES ASSUME NEW p \in asked, NEW new, new = page'[p], NEW pg, pg = page[p]
               PROVE  /\ new.state = pg.state /\ new.game = pg.game /\ new.view = "live"
                      /\ IsPrefix(pg.match.moves, new.match.moves)
    OBVIOUS
  <2>1. PICK attempt : attempt = reply[p]
    OBVIOUS
  <2>2. attempt \in Positions \cup {"illegal"} /\ new = Answered(pg, attempt)
    BY <1>9, <1>13, <2>1
  <2>3. /\ pg \in PageType /\ pg.doc \in DocType /\ PageRight(pg) /\ Waits(pg)
        /\ pg.view = "live" /\ ~IsOver(pg.match)
    BY <1>7, <1>8
  <2>4. new.state = pg.state /\ new.game = pg.game /\ new.view = pg.view
    BY <2>2, <2>3, AnsweredFacts
  <2>5. IsPrefix(pg.match.moves, new.match.moves)
    BY <2>2, <2>3, AnsweredMoves
  <2> QED
    BY <2>3, <2>4, <2>5
<1>16. \A g \in Games : \/ store'[g] = store[g]
                        \/ \E p \in played : page[p].game = g
  <2>1. PICK saved : saved = SavedBy(answered, listening)
    OBVIOUS
  <2>2. store' = saved
    BY <1>9, <1>10, <2>1
  <2> QED
    BY <1>3, <1>11, <2>1, <2>2, SavedFacts
<1>17. RecapIsSaved'
  <2> SUFFICES ASSUME NEW q \in Pages, Plays(page'[q]), page'[q].view = "recap",
                      page'[q].game \notin shared
               PROVE  store'[page'[q].game] = page'[q].doc
    BY <1>9 DEF RecapIsSaved, Plays
  <2>1. q \notin asked /\ page'[q] = page[q]
    BY <1>13, <1>15
  <2>2. page[q].game \in Games
    BY <2>1 DEF PlayInv, PagesRight, PageRight
  <2>3. ASSUME NEW p \in played, page[p].game = page[q].game PROVE FALSE
    <3>1. p \in asked /\ p \in Pages /\ p # q
      BY <1>5, <1>14, <2>1
    <3>2. Plays(page[p]) /\ Plays(page[q])
      BY <1>8, <2>1, <3>1
    <3> QED
      BY <2>1, <2>3, <3>1, <3>2, SoleHolder DEF PlayInv
  <2>4. store'[page[q].game] = store[page[q].game]
    BY <1>16, <2>2, <2>3
  <2> QED
    BY <2>1, <2>4 DEF RecapIsSaved
<1>18. GamesGrow
  <2> SUFFICES ASSUME NEW g \in Games, store[g] # NoDoc, g \notin shared
               PROVE  store'[g] # NoDoc /\ Grown(store[g], store'[g])
    BY DEF GamesGrow
  <2>1. store[g] \in DocType /\ store[g].moves \in Seq(MoveRecord)
    BY DEF PlayInv, TypeOK, DocType
  <2>2. CASE store'[g] = store[g]
    BY <2>1, <2>2, PrefixFacts DEF Grown
  <2>3. ASSUME NEW p \in played, page[p].game = g
        PROVE  store'[g] # NoDoc /\ Grown(store[g], store'[g])
    <3>1. /\ p \in Pages /\ p \in asked /\ page[p].match \in MatchType /\ page[p].doc \in DocType
          /\ page[p].state \in {"open", "orphan"} /\ page[p].view = "live"
          /\ ~IsOver(page[p].match)
      BY <1>5, <1>8, <1>14 DEF Plays, PageType
    <3>2. store[g] = DocOf(page[p].doc, page[p].match)
      BY <2>3, <3>1 DEF PlayInv, BoardIsSaved
    <3>3. store[g].moves = page[p].match.moves /\ store[g].status = "in-progress"
      BY <3>1, <3>2, DocOfType
    <3>4. /\ page'[p].state \in {"open", "orphan"} /\ page'[p].view = "live"
          /\ page'[p].game = g
      BY <1>15, <2>3, <3>1
    <3>5. store'[g] = DocOf(page'[p].doc, page'[p].match)
      BY <1>9, <3>1, <3>4 DEF PlayInv, BoardIsSaved
    <3>6. page'[p].doc \in DocType /\ page'[p].match \in MatchType
      BY <3>1, <3>4 DEF PlayInv, PagesRight, PageRight, Plays, TypeOK, PageType
    <3>7. store'[g].moves = page'[p].match.moves /\ store'[g] \in DocType
      BY <3>5, <3>6, DocOfType
    <3> QED
      BY <1>15, <3>1, <3>3, <3>7, DocAssumption DEF Grown
  <2> QED
    BY <1>16, <2>2, <2>3
<1>19. SidesMove
  <2> SUFFICES ASSUME NEW q \in Pages, Moves(q)
               PROVE  Turn(page[q].match) # page[q].doc.human
                          <=> q \in Range(engine[TabOf[q]].listening)
    BY DEF SidesMove
  <2>1. page[q].match.moves \in Seq(MoveRecord)
    BY DEF PlayInv, TypeOK, PageType, MatchType
  <2>2. page'[q] # page[q]
    BY <2>1 DEF Moves
  <2>3. q \in asked
    BY <1>13, <2>2
  <2> QED
    BY <1>1, <1>2, <1>4, <1>7, <2>3 DEF OnTurn
<1>20. AwaitedOf(after) = {} /\ WorkerRight(after)
  <2>1. PICK rest : rest = Tail(e.searches)
    OBVIOUS
  <2>2. after = IdleEngine \/ after = [e EXCEPT !.listening = << >>, !.searches = rest]
    BY <1>12, <2>1, Zenon DEF EngineAfter
  <2>3. CASE after = IdleEngine
    BY <2>3, IdleFacts, IdleWorker
  <2>4. CASE after = [e EXCEPT !.listening = << >>, !.searches = rest]
    <3>1. after.worker = "ready" /\ after.waiting = << >> /\ after.listening = << >>
      BY <1>3, <1>6, <2>4 DEF EngineType
    <3> QED
      BY <3>1 DEF AwaitedOf, Range, WorkerRight
  <2> QED
    BY <2>2, <2>3, <2>4
<1>21. engine'[t] = after /\ \A u \in Tabs \ {t} : engine'[u] = engine[u]
  BY <1>9, <1>10, <1>12 DEF PlayInv, TypeOK
<1>22. AskedRight'
  <2> SUFFICES ASSUME NEW u \in Tabs, NEW r \in AwaitedOf(engine'[u])
               PROVE  OnTurn(page'[r])
    BY DEF AskedRight, AwaitedOf, OnTurn
  <2>1. u # t /\ r \in AwaitedOf(engine[u])
    BY <1>20, <1>21
  <2>2. TabOf[r] = u
    BY <2>1 DEF PlayInv, AwaitedRight
  <2>3. r \in Pages
    BY <2>1 DEF PlayInv, AwaitedOf, TypeOK, EngineType, Range
  <2>4. page'[r] = page[r]
    BY <1>7, <1>13, <2>1, <2>2, <2>3
  <2> QED
    BY <2>1, <2>4 DEF AskedRight
<1>23. EnginesRight'
  BY <1>20, <1>21 DEF EnginesRight, WorkerRight
<1> QED
  BY <1>17, <1>18, <1>19, <1>22, <1>23 DEF StepRight

LEMMA TurnInit ==
    ASSUME Init
    PROVE  TurnInv
<1>1. /\ page = [p \in Pages |-> FreshPage] /\ engine = [t \in Tabs |-> IdleEngine]
  BY DEF Init
<1>2. \A p \in Pages : ~Plays(page[p])
  BY <1>1, FreshFacts DEF Plays
<1>3. RecapIsSaved
  BY <1>2 DEF RecapIsSaved
<1>4. AskedRight /\ EnginesRight
  BY <1>1, IdleFacts, IdleWorker DEF AskedRight, EnginesRight
<1> QED
  BY <1>3, <1>4, PlayInit DEF TurnInv

LEMMA TurnNext ==
    ASSUME TurnInv, [Next]_vars
    PROVE  TurnInv' /\ StepRight
<1>1. PlayInv'
  BY PlayNext DEF TurnInv
<1>2. CASE UNCHANGED vars
  <2>1. page' = page /\ store' = store /\ engine' = engine /\ shared' = shared
    BY <1>2 DEF vars
  <2>2. RecapIsSaved'
    BY <2>1, QuietRecaps DEF TurnInv
  <2>3. AskedRight' /\ EnginesRight'
    BY <2>1, QuietAsked DEF TurnInv
  <2>4. GamesGrow /\ SidesMove
    BY <2>1, SameGrows, NobodyMoves DEF TurnInv, PlayInv
  <2> QED
    BY <1>1, <2>2, <2>3, <2>4 DEF TurnInv, StepRight
<1>3. ASSUME Next PROVE StepRight
  <2>1. CASE \E g \in Games : StartGame(g)
    BY <2>1, StartGameSteps
  <2>2. CASE \E p \in Pages, g \in Games : OpenPage(p, g)
    BY <2>2, OpenPageSteps
  <2>3. CASE \E t \in Tabs : LeavePage(t)
    BY <2>3, LeavePageSteps
  <2>4. CASE \E t \in Tabs : ReloadTab(t)
    BY <2>4, ReloadTabSteps
  <2>5. CASE \E p \in Pages : TickPage(p)
    BY <1>1, <2>5, TickPageSteps
  <2>6. CASE \E p \in Pages : HumanMove(p)
    BY <1>1, <2>6, HumanMoveSteps
  <2>7. CASE \E p \in Pages, c \in Color : ResignLive(p, c)
    BY <1>1, <2>7, ResignLiveSteps
  <2>8. CASE \E p \in Pages, c \in Color : ResignFromRecap(p, c)
    BY <1>1, <2>8, ResignFromRecapSteps
  <2>9. CASE \E p, q \in Pages, g \in Games : Rematch(p, q, g)
    BY <2>9, RematchSteps
  <2>10. CASE \E t \in Tabs : EngineStep(t)
    BY <1>1, <2>10, WorkerReadySteps, BestMoveSteps DEF EngineStep
  <2> QED
    BY <1>3, <2>1, <2>2, <2>3, <2>4, <2>5, <2>6, <2>7, <2>8, <2>9, <2>10 DEF Next
<1> QED
  BY <1>1, <1>2, <1>3 DEF TurnInv, StepRight

\* Whatever the pages, tabs and games: a recap shows what is saved, and who waits for
\* the engine is thinking, on the engine's turn.
THEOREM TurnInvariant == Spec => []TurnInv
<1>1. Init => TurnInv
  BY TurnInit
<1>2. TurnInv /\ [Next]_vars => TurnInv'
  BY TurnNext
<1> QED
  BY <1>1, <1>2, PTL DEF Spec

\* A saved game never rewinds, while no two page instances hold it at once: its moves
\* only grow and a decided game is never written again (persist, finalize,
\* resignFromRecap of chess-play-page.component.ts).
THEOREM SavedGameGrowsHolds == Spec => SavedGameGrows
<1>1. TurnInv /\ [Next]_vars =>
        [\A g \in Games :
            store[g] # NoDoc /\ g \notin shared =>
                /\ store'[g] # NoDoc
                /\ IsPrefix(store[g].moves, store'[g].moves)
                /\ store[g].status = "complete" => store'[g] = store[g]]_vars
  BY TurnNext DEF StepRight, GamesGrow, Grown
<1> QED
  BY <1>1, TurnInvariant, PTL DEF Spec, SavedGameGrows

\* Each side moves for itself: the engine's answer is played on the engine's turn only,
\* and the human's move on the human's (onBoardMoved, maybeTriggerComputerMove).
THEOREM EachSideMovesForItselfHolds == Spec => EachSideMovesForItself
<1>1. TurnInv /\ [Next]_vars =>
        [\A p \in Pages :
            IsVsComputer(page[p]) /\ Len(page'[p].match.moves) > Len(page[p].match.moves) =>
                (Turn(page[p].match) # page[p].doc.human <=>
                     p \in Range(engine[TabOf[p]].listening))]_vars
  BY TurnNext DEF StepRight, SidesMove, Moves
<1> QED
  BY <1>1, TurnInvariant, PTL DEF Spec, EachSideMovesForItself
=============================================================================
