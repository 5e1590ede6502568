--------------------------- MODULE EventTimeline ---------------------------
(***************************************************************************)
(* The append endpoint of the GameBoard backend, for one game: requests    *)
(* through the handler (backend/gameboard/handlers.go), the service        *)
(* (service.go) and the store's read-write transaction (store_dalgo.go).   *)
(*                                                                         *)
(* The database is outside the repository: a transaction body reads one    *)
(* document, its write is committed only if the document did not change,   *)
(* and on a conflict the body is run again, a bounded number of times.     *)
(* Requests with the same event are its retries and duplicates.            *)
(***************************************************************************)
EXTENDS GameEvents, Sequences, Integers

CONSTANTS
    Requests,       \* HTTP requests to append
    MaxAttempts     \* how often the database runs one transaction's body

ASSUME DatabaseAssumption == MaxAttempts \in Nat \ {0}

VARIABLES
    log,      \* the game's event-log document
    req       \* each request on its way through the backend

vars == <<log, req>>

Rejection == {"unauthenticated", "bad_request", "invalid_event", "unauthorized_source"}

Reply == {"appended", "already-processed", "internal"} \cup Rejection

\* Nothing came back, or not yet.
NoReply == "none"

RequestType ==
    [pc       : {"idle", "received", "txn", "commit", "done"},
     event    : Events,
     user     : BOOLEAN,                     \* requireUser found a user
     decodes  : BOOLEAN,                     \* the body is an event
     snap     : Nat,                         \* length of the log the body read
     writes   : BOOLEAN,                     \* the body called tx.Set
     added    : BOOLEAN,                     \* Append's variable, set by the body
     attempts : 0 .. MaxAttempts - 1,        \* reruns of the body so far
     reply    : Reply \cup {NoReply}]

Init ==
    /\ log = << >>
    /\ req \in [Requests -> [pc : {"idle"}, event : Events, user : BOOLEAN,
                             decodes : BOOLEAN, snap : {0}, writes : {FALSE}, added : {FALSE},
                             attempts : {0}, reply : {NoReply}]]

Stored(id) == \E i \in 1 .. Len(log) : log[i].id = id

\* The request arrives: a first call, a retry or a duplicate delivery.
Receive(r) ==
    /\ req[r].pc = "idle"
    /\ req' = [req EXCEPT ![r].pc = "received"]
    /\ UNCHANGED log

\* The handler's and the service's checks, in their order.
Verdict(q) ==
    IF ~q.user THEN "unauthenticated"
    ELSE IF ~q.decodes THEN "bad_request"
    ELSE IF ~IsWellFormed(q.event) THEN "invalid_event"
    ELSE IF ~IsAuthorized(q.event) THEN "unauthorized_source"
    ELSE NoReply

Validate(r) ==
    /\ req[r].pc = "received"
    /\ req' = [req EXCEPT ![r].pc    = IF Verdict(req[r]) = NoReply THEN "txn" ELSE "done",
                          ![r].reply = Verdict(req[r])]
    /\ UNCHANGED log

\* A faulty body: the log is not searched for the event id.
BodyAlwaysWrites(r) ==
    [req[r] EXCEPT !.pc = "commit", !.snap = Len(log), !.writes = TRUE, !.added = TRUE]

\* The transaction body: `added' is set when it writes and never reset.
Body(r) ==
    [req[r] EXCEPT !.pc     = "commit",
                   !.snap   = Len(log),
                   !.writes = ~Stored(req[r].event.id),
                   !.added  = @ \/ ~Stored(req[r].event.id)]

RunBody(r) ==
    /\ req[r].pc = "txn"
    /\ req' = [req EXCEPT ![r] = Body(r)]
    /\ UNCHANGED log

ReplyFor(added) == IF added THEN "appended" ELSE "already-processed"

Finished(q, reply) == [q EXCEPT !.pc = "done", !.reply = reply]

\* The document as written: what the body read, and the event (tx.Set).
Written(q) == Append(SubSeq(log, 1, q.snap), q.event)

\* A faulty store: what the body read is not compared at commit.
NeverConflicts(q) == FALSE

\* The document changed since the body read it.
Conflicts(q) == Len(log) # q.snap

\* The transaction commits and the handler replies.
Commit(r) ==
    /\ req[r].pc = "commit"
    /\ ~Conflicts(req[r])
    /\ log' = IF req[r].writes THEN Written(req[r]) ELSE log
    /\ req' = [req EXCEPT ![r] = Finished(@, ReplyFor(@.added))]

\* A faulty database: one rerun too many.
RerunTooOften(q) ==
    IF q.attempts < MaxAttempts
    THEN [q EXCEPT !.pc = "txn", !.attempts = @ + 1]
    ELSE Finished(q, "internal")

\* The transaction's body is run again, or given up.
Rerun(q) ==
    IF q.attempts + 1 < MaxAttempts
    THEN [q EXCEPT !.pc = "txn", !.attempts = @ + 1]
    ELSE Finished(q, "internal")

\* The transaction is aborted.
Conflict(r) ==
    /\ req[r].pc = "commit"
    /\ Conflicts(req[r])
    /\ req' = [req EXCEPT ![r] = Rerun(@)]
    /\ UNCHANGED log

\* Cut off, the commit of the body's write may have been made all the same.
LogIfCutOff(r) ==
    IF req[r].pc = "commit" /\ req[r].writes /\ ~Conflicts(req[r])
    THEN {log, Written(req[r])}
    ELSE {log}

\* The database fails, and the handler says so.
Fail(r) ==
    /\ req[r].pc \in {"txn", "commit"}
    /\ log' \in LogIfCutOff(r)
    /\ req' = [req EXCEPT ![r] = Finished(@, "internal")]

\* The server stops, or the caller hangs up: no reply reaches it.
Abandon(r) ==
    /\ req[r].pc \in {"received", "txn", "commit"}
    /\ log' \in LogIfCutOff(r)
    /\ req' = [req EXCEPT ![r] = Finished(@, NoReply)]

Next ==
    \E r \in Requests :
        \/ Receive(r) \/ Validate(r) \/ RunBody(r) \/ Commit(r)
        \/ Conflict(r) \/ Fail(r) \/ Abandon(r)

Spec == Init /\ [][Next]_vars

-----------------------------------------------------------------------------
TypeOK ==
    /\ log \in Seq(Events)
    /\ req \in [Requests -> RequestType]

\* What the caller was told is so: an event it was told is stored, now or
\* before, is in the log under its id; one it was refused for its source is not
\* in the log (handlers.go append, service.go Append).
RepliesHonest ==
    \A r \in Requests :
        /\ req[r].reply \in {"appended", "already-processed"} => Stored(req[r].event.id)
        /\ req[r].reply \in {"invalid_event", "unauthorized_source"} =>
              \A i \in 1 .. Len(log) : log[i] # req[r].event

\* No anonymous writes: every stored event was brought by a signed-in request,
\* whichever of its retries or duplicates stored it (handlers.go append).
EveryEventWasSent ==
    \A i \in 1 .. Len(log) : \E r \in Requests :
        /\ req[r].event = log[i]
        /\ req[r].user
        /\ req[r].pc = "done"

\* Of the requests that bring the same event, one at the most is told that it
\* appended it (store.go EventStore: "reports added=false").
AppliedOnce ==
    \A q, r \in Requests :
        /\ q # r
        /\ req[q].reply = "appended"
        /\ req[r].reply = "appended"
        => req[q].event.id # req[r].event.id

EventLogOf == INSTANCE EventLog

\* The log keeps the promise of EventLog, whatever races for it.
LogKeepsPromise == EventLogOf!Spec
=============================================================================
