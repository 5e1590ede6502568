------------------------- MODULE EventTimelineProofs -------------------------
(***************************************************************************)
(* Proofs about the append endpoint, for any events, any number of         *)
(* requests and any number of reruns.                                      *)
(*                                                                         *)
(* The invariant LogInv says where a request stands: past the checks it    *)
(* carries an event that may be appended, and when its commit will not     *)
(* conflict, the body's answer is about the log as it is.                  *)
(***************************************************************************)
EXTENDS EventTimeline, TLAPS

\* Requests in the transaction have passed the checks.
ChecksPassed ==
    \A r \in Requests :
        req[r].pc \in {"txn", "commit"} =>
            req[r].user /\ IsWellFormed(req[r].event) /\ IsAuthorized(req[r].event)

\* What the body decided holds unless the commit conflicts.
BodyUpToDate ==
    \A r \in Requests :
        req[r].pc = "commit" =>
            /\ req[r].snap <= Len(log)
            /\ req[r].snap = Len(log) => (req[r].writes <=> ~Stored(req[r].event.id))

\* A refusal is for a reason.
RefusedRightly ==
    \A r \in Requests :
        /\ req[r].reply = "invalid_event" => ~IsWellFormed(req[r].event)
        /\ req[r].reply = "unauthorized_source" => ~IsAuthorized(req[r].event)

\* Whoever was told that it is stored can find it.
ToldStored ==
    \A r \in Requests :
        req[r].reply \in {"appended", "already-processed"} => Stored(req[r].event.id)

LogAcceptable ==
    \A i \in 1 .. Len(log) : IsWellFormed(log[i]) /\ IsAuthorized(log[i])

LogInv ==
    /\ TypeOK
    /\ ChecksPassed
    /\ BodyUpToDate
    /\ RefusedRightly
    /\ ToldStored
    /\ LogAcceptable
    /\ EveryEventWasSent

-----------------------------------------------------------------------------
\* A request's write, when its commit does not conflict.
Writes(r) ==
    /\ req[r].pc = "commit"
    /\ req[r].writes
    /\ req[r].snap = Len(log)
    /\ log' = Append(log, req[r].event)

LEMMA WrittenAppends ==
    ASSUME TypeOK, NEW r \in Requests, ~Conflicts(req[r])
    PROVE  /\ req[r].snap = Len(log)
           /\ Written(req[r]) = Append(log, req[r].event)
<1>1. log \in Seq(Events) /\ req[r] \in RequestType
  BY DEF TypeOK
<1>2. req[r].snap = Len(log)
  BY <1>1 DEF Conflicts, RequestType
<1>3. SubSeq(log, 1, Len(log)) = log
  BY <1>1
<1> QED
  BY <1>2, <1>3 DEF Written

\* The log stays, or one request writes its event at the end.
LEMMA LogStep ==
    ASSUME TypeOK, Next
    PROVE  log' = log \/ \E r \in Requests : Writes(r)
<1> PICK r \in Requests :
        \/ Receive(r) \/ Validate(r) \/ RunBody(r) \/ Commit(r)
        \/ Conflict(r) \/ Fail(r) \/ Abandon(r)
  BY DEF Next
<1>1. CASE Receive(r) \/ Validate(r) \/ RunBody(r) \/ Conflict(r)
  BY <1>1 DEF Receive, Validate, RunBody, Conflict
<1>2. CASE Commit(r)
  BY <1>2, WrittenAppends DEF Commit, Writes
<1>3. CASE Fail(r) \/ Abandon(r)
  <2>1. log' \in LogIfCutOff(r)
    BY <1>3 DEF Fail, Abandon
  <2> QED
    BY <2>1, WrittenAppends DEF LogIfCutOff, Writes
<1> QED
  BY <1>1, <1>2, <1>3

\* Nothing is ever lost from the log.
LEMMA StoredForGood ==
    ASSUME TypeOK, log' = log \/ \E r \in Requests : Writes(r)
    PROVE  /\ Len(log) <= Len(log')
           /\ log' = log \/ Len(log') = Len(log) + 1
           /\ \A i \in 1 .. Len(log) : log'[i] = log[i]
           /\ \A id : Stored(id) => Stored(id)'
<1>1. log \in Seq(Events)
  BY DEF TypeOK
<1>2. CASE log' = log
  BY <1>1, <1>2 DEF Stored
<1>3. CASE \E r \in Requests : Writes(r)
  <2>1. PICK r \in Requests : Writes(r)
    BY <1>3
  <2>2. req[r].event \in Events
    BY DEF TypeOK, RequestType
  <2>3. log' = Append(log, req[r].event)
    BY <2>1 DEF Writes
  <2>4. /\ Len(log') = Len(log) + 1
        /\ \A i \in 1 .. Len(log) : log'[i] = log[i]
    BY <1>1, <2>2, <2>3
  <2>5. Len(log) \in Nat
    BY <1>1
  <2>6. ASSUME NEW id, Stored(id) PROVE Stored(id)'
    BY <2>4, <2>5, <2>6 DEF Stored
  <2> QED
    BY <2>4, <2>5, <2>6
<1> QED
  BY <1>2, <1>3

-----------------------------------------------------------------------------
LEMMA InitInv == Init => LogInv
<1> SUFFICES ASSUME Init PROVE LogInv
  OBVIOUS
<1>1. TypeOK
  <2>1. 0 \in Nat /\ 0 \in 0 .. MaxAttempts - 1
    BY DatabaseAssumption
  <2>2. \A r \in Requests : req[r] \in RequestType
    BY <2>1 DEF Init, RequestType, NoReply
  <2> QED
    BY <2>2 DEF Init, TypeOK
<1>2. Len(log) = 0
  BY DEF Init
<1>3. \A r \in Requests : req[r].pc = "idle" /\ req[r].reply = NoReply
  BY DEF Init
<1> QED
  BY <1>1, <1>2, <1>3 DEF LogInv, ChecksPassed, BodyUpToDate, RefusedRightly, ToldStored,
     LogAcceptable, EveryEventWasSent, NoReply

\* A refusal is one of the checks' replies.
LEMMA VerdictType ==
    ASSUME NEW q
    PROVE  Verdict(q) \in Rejection \cup {NoReply}
BY DEF Verdict, Rejection, NoReply

\* No step changes what a request carries.
LEMMA StepType ==
    ASSUME LogInv, NEW r \in Requests,
           \/ Receive(r) \/ Validate(r) \/ RunBody(r) \/ Commit(r)
           \/ Conflict(r) \/ Fail(r) \/ Abandon(r)
    PROVE  /\ TypeOK'
           /\ \A q \in Requests : q # r => req'[q] = req[q]
           /\ req'[r].event = req[r].event /\ req'[r].user = req[r].user
<1> USE DatabaseAssumption
<1>1. log \in Seq(Events) /\ req \in [Requests -> RequestType] /\ req[r] \in RequestType
  BY DEF LogInv, TypeOK
<1>2. log' \in Seq(Events)
  <2>1. log' = log \/ \E q \in Requests : Writes(q)
    BY LogStep DEF LogInv, Next
  <2>2. ASSUME NEW q \in Requests, Writes(q) PROVE log' \in Seq(Events)
    <3>1. req[q].event \in Events /\ log' = Append(log, req[q].event)
      BY <1>1, <2>2 DEF Writes, RequestType
    <3> QED
      BY <1>1, <3>1
  <2> QED
    BY <1>1, <2>1, <2>2
<1>3. \E q \in RequestType :
         /\ req' = [req EXCEPT ![r] = q]
         /\ q.event = req[r].event /\ q.user = req[r].user
  <2>1. CASE Receive(r)
    <3> DEFINE q == [req[r] EXCEPT !.pc = "received"]
    <3>1. req' = [req EXCEPT ![r] = q]
      BY <1>1, <2>1 DEF Receive
    <3>2. q \in RequestType /\ q.event = req[r].event /\ q.user = req[r].user
      BY <1>1 DEF RequestType
    <3> QED
      BY <3>1, <3>2
  <2>2. CASE Validate(r)
    <3>1. Verdict(req[r]) \in Reply \cup {NoReply}
      BY VerdictType DEF Reply
    <3> DEFINE v == Verdict(req[r])
               q == [req[r] EXCEPT !.pc = IF v = NoReply THEN "txn" ELSE "done", !.reply = v]
    <3>2. req' = [req EXCEPT ![r] = q]
      BY <1>1, <2>2 DEF Validate
    <3> HIDE DEF v
    <3>3. q \in RequestType /\ q.event = req[r].event /\ q.user = req[r].user
      BY <1>1, <3>1 DEF RequestType, v
    <3> QED
      BY <3>2, <3>3
  <2>3. CASE RunBody(r)
    <3>1. PICK w \in BOOLEAN, a \in BOOLEAN, n \in Nat :
             Body(r) = [req[r] EXCEPT !.pc = "commit", !.snap = n, !.writes = w, !.added = a]
      <4>1. Len(log) \in Nat
        BY <1>1
      <4>2. (~Stored(req[r].event.id)) \in BOOLEAN
            /\ (req[r].added \/ ~Stored(req[r].event.id)) \in BOOLEAN
        OBVIOUS
      <4> QED
        BY <4>1, <4>2, Zenon DEF Body
    <3>2. Body(r) \in RequestType /\ Body(r).event = req[r].event /\ Body(r).user = req[r].user
      BY <1>1, <3>1 DEF RequestType
    <3> QED
      BY <3>2, <2>3 DEF RunBody
  <2>4. ASSUME NEW reply \in Reply \cup {NoReply}
        PROVE  LET q == Finished(req[r], reply)
               IN  q \in RequestType /\ q.event = req[r].event /\ q.user = req[r].user
    BY <1>1, <2>4 DEF Finished, RequestType
  <2>5. CASE Commit(r) \/ Fail(r) \/ Abandon(r)
    <3>1. \E reply \in Reply \cup {NoReply} : req' = [req EXCEPT ![r] = Finished(req[r], reply)]
      BY <1>1, <2>5 DEF Commit, Fail, Abandon, ReplyFor, Reply
    <3> QED
      BY <2>4, <3>1
  <2>6. CASE Conflict(r)
    <3>1. Rerun(req[r]) \in RequestType /\ Rerun(req[r]).event = req[r].event
          /\ Rerun(req[r]).user = req[r].user
      <4>1. CASE req[r].attempts + 1 < MaxAttempts
        <5>1. PICK n \in 0 .. MaxAttempts - 1 :
                 Rerun(req[r]) = [req[r] EXCEPT !.pc = "txn", !.attempts = n]
          <6>1. req[r].attempts + 1 \in 0 .. MaxAttempts - 1
            BY <1>1, <4>1 DEF RequestType
          <6> QED
            BY <4>1, <6>1 DEF Rerun
        <5> QED
          BY <1>1, <5>1 DEF RequestType
      <4>2. CASE ~(req[r].attempts + 1 < MaxAttempts)
        BY <2>4, <4>2 DEF Rerun, Reply
      <4> QED
        BY <4>1, <4>2
    <3> QED
      BY <1>1, <3>1, <2>6 DEF Conflict
  <2> QED
    BY <2>1, <2>2, <2>3, <2>5, <2>6
<1> QED
  BY <1>1, <1>2, <1>3 DEF TypeOK

-----------------------------------------------------------------------------
\* What one request's step does to it, and to the log.
LEMMA StepFacts ==
    ASSUME LogInv, NEW r \in Requests,
           \/ Receive(r) \/ Validate(r) \/ RunBody(r) \/ Commit(r)
           \/ Conflict(r) \/ Fail(r) \/ Abandon(r)
    PROVE  /\ req[r].pc # "done"
           /\ log' # log => Writes(r) /\ req'[r].pc = "done"
           /\ req'[r].pc \in {"txn", "commit"} =>
                 Verdict(req[r]) = NoReply \/ req[r].pc \in {"txn", "commit"}
           /\ req'[r].pc = "commit" =>
                 /\ log' = log
                 /\ req'[r].snap = Len(log)
                 /\ req'[r].writes <=> ~Stored(req[r].event.id)
           /\ req'[r].reply \in {"invalid_event", "unauthorized_source"} =>
                 req'[r].reply = Verdict(req[r]) \/ req'[r].reply = req[r].reply
           /\ req'[r].reply \in {"appended", "already-processed"} =>
                 \/ req'[r].reply = req[r].reply
                 \/ req[r].pc = "commit" /\ req[r].snap = Len(log) /\
                    IF req[r].writes THEN Writes(r) ELSE log' = log
<1>1. req \in [Requests -> RequestType] /\ req[r] \in RequestType
  BY DEF LogInv, TypeOK
<1>2. CASE Receive(r)
  BY <1>1, <1>2 DEF Receive, RequestType
<1>3. CASE Validate(r)
  <2>1. req[r].pc = "received" /\ log' = log
    BY <1>3 DEF Validate
  <2>2. req'[r].pc \in {"txn", "done"} /\ req'[r].reply = Verdict(req[r])
        /\ (req'[r].pc = "txn" => Verdict(req[r]) = NoReply)
    <3> DEFINE v == Verdict(req[r])
    <3>1. req' = [req EXCEPT ![r] = [req[r] EXCEPT
                     !.pc = IF v = NoReply THEN "txn" ELSE "done", !.reply = v]]
      BY <1>1, <1>3 DEF Validate
    <3> HIDE DEF v
    <3>2. /\ req'[r].pc = IF v = NoReply THEN "txn" ELSE "done"
          /\ req'[r].reply = v
      BY <1>1, <3>1 DEF RequestType
    <3> QED
      BY <3>2 DEF v
  <2>3. Verdict(req[r]) \notin {"appended", "already-processed"}
    BY VerdictType DEF Rejection, NoReply
  <2> QED
    BY <2>1, <2>2, <2>3
<1>4. CASE RunBody(r)
  <2>1. req[r].pc = "txn" /\ log' = log /\ req'[r] = Body(r)
    BY <1>1, <1>4 DEF RunBody
  <2>2. Body(r).snap = Len(log) /\ Body(r).reply = req[r].reply
    BY <1>1 DEF Body, RequestType
  <2>3. Body(r).writes = ~Stored(req[r].event.id)
    <3>1. PICK w \in BOOLEAN : w = ~Stored(req[r].event.id)
      OBVIOUS
    <3>2. PICK a : a = (req[r].added \/ ~Stored(req[r].event.id))
      OBVIOUS
    <3>3. Body(r) = [req[r] EXCEPT !.pc = "commit", !.snap = Len(log),
                                   !.writes = w, !.added = a]
      BY <3>1, <3>2, Zenon DEF Body
    <3>4. Body(r).writes = w
      BY <1>1, <3>3 DEF RequestType
    <3> QED
      BY <3>1, <3>4
  <2> QED
    BY <2>1, <2>2, <2>3
<1>5. CASE Commit(r)
  <2>1. req[r].pc = "commit" /\ ~Conflicts(req[r])
    BY <1>5 DEF Commit
  <2>2. req[r].snap = Len(log) /\ Written(req[r]) = Append(log, req[r].event)
    BY <2>1, WrittenAppends DEF LogInv
  <2>3. IF req[r].writes THEN Writes(r) ELSE log' = log
    BY <1>5, <2>1, <2>2 DEF Commit, Writes
  <2>4. req'[r].pc = "done" /\ req'[r].reply \in {"appended", "already-processed"}
    BY <1>1, <1>5 DEF Commit, Finished, ReplyFor, RequestType
  <2> QED
    BY <2>1, <2>2, <2>3, <2>4
<1>6. CASE Conflict(r)
  <2>1. req[r].pc = "commit" /\ req'[r] = Rerun(req[r]) /\ log' = log
    BY <1>1, <1>6 DEF Conflict
  <2>2. \/ Rerun(req[r]).pc = "txn" /\ Rerun(req[r]).reply = req[r].reply
        \/ Rerun(req[r]).pc = "done" /\ Rerun(req[r]).reply = "internal"
    BY <1>1 DEF Rerun, Finished, RequestType
  <2> QED
    BY <2>1, <2>2
<1>7. CASE Fail(r) \/ Abandon(r)
  <2>1. req'[r].pc = "done" /\ req'[r].reply \in {"internal", NoReply}
    <3>1. ASSUME NEW reply, req' = [req EXCEPT ![r] = Finished(req[r], reply)]
          PROVE  req'[r].pc = "done" /\ req'[r].reply = reply
      BY <1>1, <3>1 DEF Finished, RequestType
    <3>2. \E reply \in {"internal", NoReply} : req' = [req EXCEPT ![r] = Finished(req[r], reply)]
      BY <1>7 DEF Fail, Abandon
    <3> QED
      BY <3>1, <3>2
  <2>2. req[r].pc # "done"
    BY <1>7 DEF Fail, Abandon
  <2>3. log' = log \/ Writes(r)
    <3>1. log' \in LogIfCutOff(r)
      BY <1>7 DEF Fail, Abandon
    <3> QED
      BY <3>1, WrittenAppends DEF LogIfCutOff, Writes, LogInv
  <2> QED
    BY <2>1, <2>2, <2>3 DEF NoReply
<1> QED
  BY <1>2, <1>3, <1>4, <1>5, <1>6, <1>7

LEMMA VerdictFacts ==
    ASSUME NEW q
    PROVE  /\ Verdict(q) = NoReply => q.user /\ IsWellFormed(q.event) /\ IsAuthorized(q.event)
           /\ Verdict(q) = "invalid_event" => ~IsWellFormed(q.event)
           /\ Verdict(q) = "unauthorized_source" => ~IsAuthorized(q.event)
BY DEF Verdict, NoReply

\* The invariant is inductive.
LEMMA StepInv == LogInv /\ Next => LogInv'
<1> SUFFICES ASSUME LogInv, Next PROVE LogInv'
  OBVIOUS
<1> PICK r \in Requests :
        \/ Receive(r) \/ Validate(r) \/ RunBody(r) \/ Commit(r)
        \/ Conflict(r) \/ Fail(r) \/ Abandon(r)
  BY DEF Next
<1>type. TypeOK /\ log \in Seq(Events) /\ Len(log) \in Nat
  BY DEF LogInv, TypeOK
<1>step. log' = log \/ \E q \in Requests : Writes(q)
  BY <1>type, LogStep
<1>grows. /\ Len(log) <= Len(log')
          /\ log' = log \/ Len(log') = Len(log) + 1
          /\ \A i \in 1 .. Len(log) : log'[i] = log[i]
          /\ \A id : Stored(id) => Stored(id)'
  BY <1>type, <1>step, StoredForGood
<1>same. /\ \A q \in Requests : q # r => req'[q] = req[q]
         /\ \A q \in Requests : req'[q].event = req[q].event /\ req'[q].user = req[q].user
  BY StepType
<1>1. TypeOK'
  BY StepType
<1>2. ChecksPassed'
  BY <1>same, StepFacts, VerdictFacts DEF LogInv, ChecksPassed
<1>3. BodyUpToDate'
  <2> SUFFICES ASSUME NEW q \in Requests, req'[q].pc = "commit",
                      NEW id, id = req[q].event.id
               PROVE  /\ req'[q].snap <= Len(log')
                      /\ req'[q].snap = Len(log') => (req'[q].writes <=> ~Stored(id)')
    BY <1>same DEF BodyUpToDate
  <2>1. CASE q = r
    <3>1. log' = log /\ req'[r].snap = Len(log) /\ (req'[r].writes <=> ~Stored(id))
      BY <2>1, StepFacts
    <3>2. Stored(id)' <=> Stored(id)
      BY <3>1 DEF Stored
    <3> QED
      BY <1>type, <2>1, <3>1, <3>2
  <2>2. CASE q # r
    <3>1. req'[q] = req[q] /\ req[q].pc = "commit" /\ req[q].snap \in Nat
      BY <1>type, <1>same, <2>2 DEF TypeOK, RequestType
    <3>2. req[q].snap <= Len(log)
          /\ (req[q].snap = Len(log) => (req[q].writes <=> ~Stored(id)))
      BY <3>1 DEF LogInv, BodyUpToDate
    <3>3. CASE log' = log
      <4>1. Stored(id)' <=> Stored(id)
        BY <3>3 DEF Stored
      <4> QED
        BY <3>1, <3>2, <3>3, <4>1
    <3>4. CASE Len(log') = Len(log) + 1
      BY <1>type, <3>1, <3>2, <3>4
    <3> QED
      BY <1>grows, <3>3, <3>4
  <2> QED
    BY <2>1, <2>2
<1>4. RefusedRightly'
  BY <1>same, StepFacts, VerdictFacts DEF LogInv, RefusedRightly
<1>5. ToldStored'
  <2> SUFFICES ASSUME NEW q \in Requests, req'[q].reply \in {"appended", "already-processed"},
                      NEW id, id = req[q].event.id
               PROVE  Stored(id)'
    BY <1>same DEF ToldStored
  <2>1. CASE req'[q].reply = req[q].reply
    BY <1>grows, <2>1 DEF LogInv, ToldStored
  <2>2. CASE req'[q].reply # req[q].reply
    <3>1. q = r
      BY <1>same, <2>2
    <3>2. req[r].pc = "commit" /\ req[r].snap = Len(log)
          /\ IF req[r].writes THEN Writes(r) ELSE log' = log
      BY <2>2, <3>1, StepFacts
    <3>3. CASE req[r].writes
      <4>1. log' = Append(log, req[r].event) /\ req[r].event \in Events
        BY <1>type, <3>2, <3>3 DEF Writes, TypeOK, RequestType
      <4>2. Len(log) + 1 \in 1 .. Len(log') /\ log'[Len(log) + 1] = req[r].event
        BY <1>type, <4>1
      <4> QED
        BY <3>1, <4>2 DEF Stored
    <3>4. CASE ~req[r].writes
      BY <1>grows, <3>1, <3>2, <3>4 DEF LogInv, BodyUpToDate
    <3> QED
      BY <3>3, <3>4
  <2> QED
    BY <2>1, <2>2
<1>entries. ASSUME NEW i \in 1 .. Len(log')
            PROVE  \/ i \in 1 .. Len(log) /\ log'[i] = log[i]
                   \/ req[r].pc = "commit" /\ req'[r].pc = "done" /\ log'[i] = req[r].event
  <2>1. CASE log' = log
    BY <2>1
  <2>2. CASE Writes(r) /\ req'[r].pc = "done"
    <3>1. log' = Append(log, req[r].event) /\ req[r].event \in Events /\ req[r].pc = "commit"
      BY <1>type, <2>2 DEF Writes, TypeOK, RequestType
    <3> QED
      BY <1>type, <2>2, <3>1
  <2> QED
    BY <2>1, <2>2, StepFacts
<1>6. LogAcceptable'
  BY <1>entries DEF LogInv, LogAcceptable, ChecksPassed
<1>7. EveryEventWasSent'
  <2> SUFFICES ASSUME NEW i \in 1 .. Len(log')
               PROVE  \E q \in Requests :
                         /\ req'[q].event = log'[i]
                         /\ req'[q].user
                         /\ req'[q].pc = "done"
    BY DEF EveryEventWasSent
  <2>1. CASE i \in 1 .. Len(log) /\ log'[i] = log[i]
    <3>1. PICK q \in Requests : req[q].event = log[i] /\ req[q].user /\ req[q].pc = "done"
      BY <2>1 DEF LogInv, EveryEventWasSent
    <3>2. q # r
      BY <3>1, StepFacts
    <3> QED
      BY <1>same, <2>1, <3>1, <3>2
  <2>2. CASE req[r].pc = "commit" /\ req'[r].pc = "done" /\ log'[i] = req[r].event
    BY <1>same, <2>2 DEF LogInv, ChecksPassed
  <2> QED
    BY <1>entries, <2>1, <2>2
<1> QED
  BY <1>1, <1>2, <1>3, <1>4, <1>5, <1>6, <1>7 DEF LogInv

-----------------------------------------------------------------------------
LEMMA Invariance == Spec => []LogInv
<1>1. LogInv /\ UNCHANGED vars => LogInv'
  <2> SUFFICES ASSUME LogInv, UNCHANGED vars PROVE LogInv'
    OBVIOUS
  <2> USE DEF vars
  <2>1. TypeOK'
    BY DEF LogInv, TypeOK
  <2>2. \A id : Stored(id)' <=> Stored(id)
    BY DEF Stored
  <2>3. BodyUpToDate' /\ ToldStored'
    BY <2>2 DEF LogInv, BodyUpToDate, ToldStored, Stored
  <2> QED
    BY <2>1, <2>3 DEF LogInv, ChecksPassed, RefusedRightly, LogAcceptable, EveryEventWasSent
<1> QED
  BY InitInv, StepInv, <1>1, PTL DEF Spec

\* Types: the log is a sequence of events, and no transaction's body is run
\* more often than the database allows (store_dalgo.go Append).
THEOREM TypeCorrect == Spec => []TypeOK
BY Invariance, PTL DEF LogInv

\* However requests race, are retried, duplicated or cut off, what a caller was
\* told is so (handlers.go append, service.go Append, store_dalgo.go Append).
THEOREM RepliesHonestHolds == Spec => []RepliesHonest
<1>1. LogInv => RepliesHonest
  <2> SUFFICES ASSUME LogInv, NEW r \in Requests
               PROVE  /\ req[r].reply \in {"appended", "already-processed"} =>
                            Stored(req[r].event.id)
                      /\ req[r].reply \in {"invalid_event", "unauthorized_source"} =>
                            \A i \in 1 .. Len(log) : log[i] # req[r].event
    BY DEF RepliesHonest
  <2> QED
    BY DEF LogInv, ToldStored, RefusedRightly, LogAcceptable
<1> QED
  BY Invariance, <1>1, PTL

\* No event is in the log that no signed-in request brought (handlers.go append).
THEOREM EveryEventWasSentHolds == Spec => []EveryEventWasSent
BY Invariance, PTL DEF LogInv

\* The endpoint implements the abstract log: append-only, one event at a time,
\* no id twice, nothing from a source without the authority.
THEOREM LogRefined == Spec => LogKeepsPromise
<1>1. Init => EventLogOf!Init
  BY DEF Init, EventLogOf!Init
<1>2. LogInv /\ [Next]_vars => [EventLogOf!Next]_log
  <2> SUFFICES ASSUME LogInv, Next, log' # log
               PROVE  EventLogOf!Next
    BY DEF vars
  <2>1. PICK r \in Requests : Writes(r)
    BY LogStep DEF LogInv
  <2>2. req[r].event \in Events
    BY DEF LogInv, TypeOK, RequestType
  <2>3. IsWellFormed(req[r].event) /\ IsAuthorized(req[r].event)
    BY <2>1 DEF Writes, LogInv, ChecksPassed
  <2>4. ~Stored(req[r].event.id)
    BY <2>1 DEF Writes, LogInv, BodyUpToDate
  <2>5. EventLogOf!Add(req[r].event)
    BY <2>1, <2>3, <2>4
       DEF EventLogOf!Add, EventLogOf!Holds, Stored, Writes, IsWellFormed, IsAuthorized,
           Authorized, PlayTypes, TableTypes, JudgeTypes, EventLogOf!IsWellFormed,
           EventLogOf!IsAuthorized, EventLogOf!Authorized, EventLogOf!PlayTypes,
           EventLogOf!TableTypes, EventLogOf!JudgeTypes
  <2> QED
    BY <2>2, <2>5 DEF EventLogOf!Next
<1> QED
  BY Invariance, <1>1, <1>2, PTL DEF Spec, LogKeepsPromise, EventLogOf!Spec

-----------------------------------------------------------------------------
\* No id is in the log twice.
EachIdOnce == \A i, j \in 1 .. Len(log) : log[i].id = log[j].id => i = j

\* Of two requests told that they appended an event, under one id, one had its body run
\* again.
AppliedOnceUnlessRerun ==
    \A q, r \in Requests :
        /\ q # r
        /\ req[q].reply = "appended"
        /\ req[r].reply = "appended"
        /\ req[q].event.id = req[r].event.id
        => req[q].attempts # 0 \/ req[r].attempts # 0

\* A body that runs for the first time reports what it does.
FirstRunHonest ==
    \A r \in Requests :
        req[r].attempts = 0 =>
            /\ req[r].pc \in {"idle", "received", "txn"} => ~req[r].added
            /\ req[r].pc = "commit" => (req[r].added <=> req[r].writes)

\* Nobody is told before the end.
NotToldYet == \A r \in Requests : req[r].pc # "done" => req[r].reply # "appended"

OnceInv == EachIdOnce /\ AppliedOnceUnlessRerun /\ FirstRunHonest /\ NotToldYet

LEMMA InitOnce == Init => OnceInv
<1> SUFFICES ASSUME Init PROVE OnceInv
  OBVIOUS
<1>1. Len(log) = 0
  BY DEF Init
<1>2. \A r \in Requests : req[r].pc = "idle" /\ req[r].reply = NoReply /\ ~req[r].added
  BY DEF Init
<1> QED
  BY <1>1, <1>2 DEF OnceInv, EachIdOnce, AppliedOnceUnlessRerun, FirstRunHonest, NotToldYet, NoReply

\* What a request's step does to what will be reported.
LEMMA RunFacts ==
    ASSUME LogInv, NEW r \in Requests,
           \/ Receive(r) \/ Validate(r) \/ RunBody(r) \/ Commit(r)
           \/ Conflict(r) \/ Fail(r) \/ Abandon(r)
    PROVE  /\ req'[r].attempts = 0 =>
                 /\ req[r].attempts = 0
                 /\ \/ req'[r].pc = "done"
                    \/ /\ req'[r].pc \in {"received", "txn"} /\ req[r].pc \in {"idle", "received"}
                       /\ req'[r].added = req[r].added
                    \/ /\ req'[r].pc = "commit" /\ req[r].pc = "txn"
                       /\ req'[r].added <=> req[r].added \/ req'[r].writes
           /\ req'[r].reply = "appended" =>
                 \/ req'[r].reply = req[r].reply
                 \/ /\ req'[r].pc = "done" /\ req[r].pc = "commit" /\ req[r].added /\ req[r].snap = Len(log)
                    /\ req'[r].attempts = req[r].attempts
<1>1. req \in [Requests -> RequestType] /\ req[r] \in RequestType
  BY DEF LogInv, TypeOK
<1>2. CASE Receive(r)
  BY <1>1, <1>2 DEF Receive, RequestType
<1>3. CASE Validate(r)
  <2>1. PICK v : v = Verdict(req[r])
    OBVIOUS
  <2>2. v # "appended"
    BY <2>1, VerdictType DEF Rejection, NoReply
  <2>3. PICK pc \in {"txn", "done"} : pc = IF v = NoReply THEN "txn" ELSE "done"
    OBVIOUS
  <2>4. req' = [req EXCEPT ![r].pc = pc, ![r].reply = v] /\ req[r].pc = "received"
    BY <1>3, <2>1, <2>3 DEF Validate
  <2>5. req'[r] = [req[r] EXCEPT !.pc = pc, !.reply = v]
    BY <1>1, <2>4
  <2>6. /\ req'[r].pc = pc /\ req'[r].reply = v /\ req'[r].added = req[r].added
        /\ req'[r].attempts = req[r].attempts
    BY <1>1, <2>5 DEF RequestType
  <2> QED
    BY <2>2, <2>3, <2>4, <2>6
<1>4. CASE RunBody(r)
  <2>1. PICK w \in BOOLEAN : w <=> ~Stored(req[r].event.id)
    OBVIOUS
  <2>2. PICK a \in BOOLEAN : a <=> req[r].added \/ w
    OBVIOUS
  <2>3. w = (~Stored(req[r].event.id)) /\ a = (req[r].added \/ ~Stored(req[r].event.id))
    BY <2>1, <2>2
  <2>4. Body(r) = [req[r] EXCEPT !.pc = "commit", !.snap = Len(log), !.writes = w, !.added = a]
    BY <2>3, Zenon DEF Body
  <2>5. req'[r] = Body(r) /\ req[r].pc = "txn"
    BY <1>1, <1>4 DEF RunBody
  <2>6. /\ req'[r].pc = "commit" /\ req'[r].writes = w /\ req'[r].added = a
        /\ req'[r].attempts = req[r].attempts /\ req'[r].reply = req[r].reply
    BY <1>1, <2>4, <2>5 DEF RequestType
  <2> QED
    BY <2>2, <2>5, <2>6
<1>5. ASSUME NEW reply, req' = [req EXCEPT ![r] = Finished(req[r], reply)]
      PROVE  req'[r].pc = "done" /\ req'[r].reply = reply /\ req'[r].attempts = req[r].attempts
  BY <1>1, <1>5 DEF Finished, RequestType
<1>6. CASE Commit(r)
  <2>1. req' = [req EXCEPT ![r] = Finished(req[r], ReplyFor(req[r].added))]
        /\ req[r].pc = "commit" /\ ~Conflicts(req[r])
    BY <1>1, <1>6 DEF Commit
  <2>2. /\ req'[r].pc = "done" /\ req'[r].reply = ReplyFor(req[r].added)
        /\ req'[r].attempts = req[r].attempts
    BY <1>5, <2>1
  <2>3. req[r].snap = Len(log)
    BY <2>1, WrittenAppends DEF LogInv
  <2>4. req'[r].reply = "appended" => req[r].added
    BY <2>2 DEF ReplyFor
  <2> QED
    BY <2>1, <2>2, <2>3, <2>4
<1>7. CASE Conflict(r)
  <2>1. req'[r] = Rerun(req[r])
    BY <1>1, <1>7 DEF Conflict
  <2>2. CASE req[r].attempts + 1 < MaxAttempts
    <3>1. PICK n \in Nat : n = req[r].attempts + 1
      BY <1>1, DatabaseAssumption DEF RequestType
    <3>2. req'[r] = [req[r] EXCEPT !.pc = "txn", !.attempts = n]
      BY <2>1, <2>2, <3>1 DEF Rerun
    <3>3. req'[r].attempts = n /\ req'[r].reply = req[r].reply
      BY <1>1, <3>2 DEF RequestType
    <3>4. n # 0
      BY <1>1, <3>1, DatabaseAssumption DEF RequestType
    <3> QED
      BY <3>3, <3>4
  <2>3. CASE ~(req[r].attempts + 1 < MaxAttempts)
    BY <1>1, <2>1, <2>3 DEF Rerun, Finished, RequestType
  <2> QED
    BY <2>2, <2>3
<1>8. CASE Fail(r) \/ Abandon(r)
  <2>1. PICK reply \in {"internal", NoReply} : req' = [req EXCEPT ![r] = Finished(req[r], reply)]
    BY <1>1, <1>8 DEF Fail, Abandon
  <2>2. req'[r].pc = "done" /\ req'[r].reply = reply /\ req'[r].attempts = req[r].attempts
    BY <1>5, <2>1
  <2> QED
    BY <2>1, <2>2 DEF NoReply
<1> QED
  BY <1>2, <1>3, <1>4, <1>6, <1>7, <1>8

LEMMA StepOnce ==
    ASSUME LogInv, OnceInv, Next
    PROVE  OnceInv'
<1> PICK r \in Requests :
        \/ Receive(r) \/ Validate(r) \/ RunBody(r) \/ Commit(r)
        \/ Conflict(r) \/ Fail(r) \/ Abandon(r)
  BY DEF Next
<1>type. TypeOK /\ log \in Seq(Events) /\ Len(log) \in Nat
  BY DEF LogInv, TypeOK
<1>same. /\ \A q \in Requests : q # r => req'[q] = req[q]
         /\ \A q \in Requests : req'[q].event = req[q].event
  BY StepType
<1>told. req[r].reply # "appended"
  BY StepFacts DEF OnceInv, NotToldYet
<1>1. EachIdOnce'
  <2>1. CASE log' = log
    BY <2>1 DEF OnceInv, EachIdOnce
  <2>2. CASE log' # log
    <3>1. PICK q \in Requests : Writes(q)
      BY <1>type, <2>2, LogStep
    <3>2. PICK e \in Events : e = req[q].event
      BY <1>type DEF TypeOK, RequestType
    <3>3. log' = Append(log, e) /\ ~Stored(e.id)
      BY <3>1, <3>2 DEF Writes, LogInv, BodyUpToDate
    <3>4. \A i \in 1 .. Len(log) : log[i].id # e.id
      BY <3>3 DEF Stored
    <3>5. /\ Len(log') = Len(log) + 1 /\ log'[Len(log) + 1] = e
          /\ \A i \in 1 .. Len(log) : log'[i] = log[i]
      BY <1>type, <3>2, <3>3
    <3>6. \A i \in 1 .. Len(log') : i \in 1 .. Len(log) \/ i = Len(log) + 1
      BY <1>type, <3>5
    <3> QED
      BY <3>4, <3>5, <3>6 DEF OnceInv, EachIdOnce
  <2> QED
    BY <2>1, <2>2
<1>2. FirstRunHonest'
  <2> SUFFICES ASSUME NEW q \in Requests, req'[q].attempts = 0
               PROVE  /\ req'[q].pc \in {"idle", "received", "txn"} => ~req'[q].added
                      /\ req'[q].pc = "commit" => (req'[q].added <=> req'[q].writes)
    BY DEF FirstRunHonest
  <2>1. CASE q # r
    BY <1>same, <2>1 DEF OnceInv, FirstRunHonest
  <2>2. CASE q = r
    <3>1. req[r].attempts = 0 /\ (req[r].pc \in {"idle", "received", "txn"} => ~req[r].added)
      BY <2>2, RunFacts DEF OnceInv, FirstRunHonest
    <3> QED
      BY <2>2, <3>1, RunFacts
  <2> QED
    BY <2>1, <2>2
<1>3. NotToldYet'
  <2> SUFFICES ASSUME NEW q \in Requests, req'[q].reply = "appended"
               PROVE  req'[q].pc = "done"
    BY DEF NotToldYet
  <2>1. CASE q # r
    BY <1>same, <2>1 DEF OnceInv, NotToldYet
  <2>2. CASE q = r
    BY <1>told, <2>2, RunFacts
  <2> QED
    BY <2>1, <2>2
<1>4. ASSUME NEW q \in Requests, q # r, req[q].reply = "appended", req'[r].reply = "appended",
             req[q].event.id = req[r].event.id
      PROVE  req'[r].attempts # 0
  <2>1. Stored(req[q].event.id)
    BY <1>4 DEF LogInv, ToldStored
  <2>2. /\ req[r].pc = "commit" /\ req[r].added /\ req[r].snap = Len(log)
        /\ req'[r].attempts = req[r].attempts
    BY <1>told, <1>4, RunFacts
  <2>3. req[r].writes <=> ~Stored(req[r].event.id)
    BY <2>2 DEF LogInv, BodyUpToDate
  <2>4. ~req[r].writes
    BY <1>4, <2>1, <2>3
  <2> QED
    BY <2>2, <2>4 DEF OnceInv, FirstRunHonest
<1>5. AppliedOnceUnlessRerun'
  <2> SUFFICES ASSUME NEW q \in Requests, NEW p \in Requests, q # p, req'[q].reply = "appended",
                      req'[p].reply = "appended", req'[q].event.id = req'[p].event.id
               PROVE  req'[q].attempts # 0 \/ req'[p].attempts # 0
    BY DEF AppliedOnceUnlessRerun
  <2>1. req[q].event.id = req[p].event.id
    BY <1>same
  <2>2. CASE q # r /\ p # r
    BY <1>same, <2>1, <2>2 DEF OnceInv, AppliedOnceUnlessRerun
  <2>3. CASE q = r
    BY <1>same, <1>4, <2>1, <2>3
  <2>4. CASE p = r
    BY <1>same, <1>4, <2>1, <2>4
  <2> QED
    BY <2>2, <2>3, <2>4
<1> QED
  BY <1>1, <1>2, <1>3, <1>5 DEF OnceInv

LEMMA Once == Spec => []OnceInv
<1>1. OnceInv /\ UNCHANGED vars => OnceInv'
  BY DEF vars, OnceInv, EachIdOnce, AppliedOnceUnlessRerun, FirstRunHonest, NotToldYet
<1>2. LogInv /\ OnceInv /\ [Next]_vars => OnceInv'
  BY <1>1, StepOnce
<1> QED
  BY Invariance, InitOnce, <1>2, PTL DEF Spec

\* However often an event is sent, and whatever becomes of the requests, it is in the log
\* once (store_dalgo.go Append).
THEOREM EachIdOnceHolds == Spec => []EachIdOnce
BY Once, PTL DEF OnceInv

\* That more than one request is told that it appended an event takes a body that is run
\* again, and reports what its first run would have done (store_dalgo.go Append).
THEOREM AppliedOnceUnlessRerunHolds == Spec => []AppliedOnceUnlessRerun
BY Once, PTL DEF OnceInv

\* So where the database never runs a body again, each event is reported as appended once.
THEOREM AppliedOnceWithoutReruns == MaxAttempts = 1 => (Spec => []AppliedOnce)
<1>1. TypeOK /\ MaxAttempts = 1 => \A r \in Requests : req[r].attempts = 0
  <2> SUFFICES ASSUME TypeOK, MaxAttempts = 1, NEW r \in Requests PROVE req[r].attempts = 0
    OBVIOUS
  <2>1. req[r].attempts \in 0 .. MaxAttempts - 1
    BY DEF TypeOK, RequestType
  <2> QED
    BY <2>1
<1>2. TypeOK /\ MaxAttempts = 1 /\ AppliedOnceUnlessRerun => AppliedOnce
  BY <1>1 DEF AppliedOnceUnlessRerun, AppliedOnce
<1> SUFFICES ASSUME MaxAttempts = 1 PROVE Spec => []AppliedOnce
  OBVIOUS
<1>3. TypeOK /\ AppliedOnceUnlessRerun => AppliedOnce
  BY <1>2
<1> QED
  BY TypeCorrect, AppliedOnceUnlessRerunHolds, <1>3, PTL
=============================================================================
