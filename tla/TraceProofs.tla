------------------------------ MODULE TraceProofs ------------------------------
(***************************************************************************)
(* What is promised of a trace, for any number of traces, workers and      *)
(* clients: of its way through the queue to its evaluation                 *)
(* (EvaluationQueue), and of its row, which clients send, read, label,     *)
(* list and replay (TraceApi).                                             *)
(***************************************************************************)
EXTENDS EvaluationQueue, TraceApi, SequenceTheorems, FiniteSetTheorems,
        WellFoundedInduction, TLAPS

\* What a worker that runs the pipeline stands on: it has the trace to itself,
\* and nobody changes its committed status.
Claimed ==
    \A w \in Workers :
        /\ phase[w] # "idle" => job[w] \in Traces
        /\ phase[w] = "running" => status[job[w]] = "pending"
        /\ phase[w] = "failing" => request[job[w]] = "committed"

\* A trace exists from its request's commit on, and its evaluation settles it.
Consistent ==
    \A t \in Traces :
        /\ request[t] # "committed" => status[t] = "none"
        /\ t \in evaluated => status[t] \in Settled
        /\ status[t] = "completed" => t \in evaluated

ClaimInv == TypeOK /\ Claimed /\ Consistent /\ OneEvaluator

LEMMA BecomeType ==
    ASSUME TypeOK, NEW w \in Workers, NEW p \in {"idle", "popped", "running", "failing"},
           Become(w, p)
    PROVE  /\ phase' \in [Workers -> {"idle", "popped", "running", "failing"}]
           /\ job' \in [Workers -> Traces \cup {NoTrace}]
           /\ phase'[w] = p
           /\ p # "idle" => job'[w] = job[w]
           /\ \A v \in Workers \ {w} : phase'[v] = phase[v] /\ job'[v] = job[v]
BY DEF TypeOK, Become

\* Steps that leave the requests, the statuses and the workers alone.
LEMMA Frame ==
    ASSUME ClaimInv, UNCHANGED <<request, status, evaluated, phase, job>>
    PROVE  (Claimed /\ Consistent /\ OneEvaluator)'
BY DEF ClaimInv, Claimed, Consistent, OneEvaluator, Holders

\* A worker leaves its phase for one in which it holds no row.
LEMMA Released ==
    ASSUME ClaimInv, NEW w \in Workers, NEW p \in {"idle", "failing"}, Become(w, p),
           phase[w] # "idle", p = "failing" => phase[w] = "running",
           UNCHANGED request, Consistent', \A v \in Workers \ {w} :
              phase[v] = "running" => status'[job[v]] = status[job[v]]
    PROVE  (Claimed /\ OneEvaluator)'
<1>1. /\ phase'[w] = p
      /\ p # "idle" => job'[w] = job[w]
      /\ \A v \in Workers \ {w} : phase'[v] = phase[v] /\ job'[v] = job[v]
  BY BecomeType DEF ClaimInv
<1>2. Claimed'
  <2>1. p = "failing" => request[job[w]] = "committed"
    BY DEF ClaimInv, Claimed, Consistent
  <2>2. QED
    BY <1>1, <2>1 DEF ClaimInv, Claimed
<1>3. OneEvaluator'
  BY <1>1 DEF ClaimInv, OneEvaluator, Holders
<1>4. QED
  BY <1>2, <1>3

\* TypeOK, and with it the two halves of the invariant, for every step.
LEMMA TypeStep == ClaimInv /\ [QueueNext]_queueVars => TypeOK'
<1> SUFFICES ASSUME ClaimInv, [QueueNext]_queueVars PROVE TypeOK'
  OBVIOUS
<1>1. CASE UNCHANGED queueVars
  BY <1>1 DEF queueVars, ClaimInv, TypeOK
<1>2. ASSUME NEW t \in Traces, Request(t) PROVE TypeOK'
  <2>1. CASE Send(t)
    <3>1. queue' \in Seq(Traces)
      <4>1. queue \in Seq(Traces)
        BY DEF ClaimInv, TypeOK
      <4>2. CASE Push(t)
        BY <4>1, <4>2 DEF Push
      <4>3. CASE UNCHANGED queue
        BY <4>1, <4>3
      <4>4. QED
        BY <2>1, <4>2, <4>3 DEF Send
    <3>3. faults' \in 0..MaxFaults
      BY <2>1, QueueAssumption DEF Send, Fault, ClaimInv, TypeOK
    <3>2. QED
      BY <2>1, <3>1, <3>3 DEF Send, traceVars, workerVars, recoveryVars, ClaimInv, TypeOK
  <2>2. CASE CommitRequest(t)
    BY <2>2 DEF CommitRequest, workerVars, recoveryVars, ClaimInv, TypeOK
  <2>3. CASE AbortRequest(t)
    BY <2>3, QueueAssumption DEF AbortRequest, Fault, traceVars, workerVars, recoveryVars,
       ClaimInv, TypeOK
  <2>4. CASE Age(t)
    BY <2>4, QueueAssumption DEF Age, Young, traceVars, workerVars, recoveryVars, ClaimInv, TypeOK
  <2>5. QED
    BY <1>2, <2>1, <2>2, <2>3, <2>4 DEF Request
<1>3. ASSUME NEW w \in Workers, Consumer(w) PROVE TypeOK'
  <2>1. CASE Pop(w)
    <3>1. Head(queue) \in Traces /\ Tail(queue) \in Seq(Traces)
      BY <2>1 DEF Pop, ClaimInv, TypeOK
    <3>2. QED
      BY <2>1, <3>1 DEF Pop, requestVars, traceVars, recoveryVars, ClaimInv, TypeOK
  <2>2. CASE Claim(w)
    BY <2>2, BecomeType DEF Claim, requestVars, traceVars, recoveryVars, ClaimInv, TypeOK
  <2>3. CASE Skip(w)
    BY <2>3, BecomeType DEF Skip, requestVars, traceVars, recoveryVars, ClaimInv, TypeOK
  <2>4. ASSUME phase[w] = "running", Publish(job[w])
        PROVE  /\ status' \in [Traces -> {"none", "pending", "evaluating"} \cup Settled]
               /\ evaluated' \in SUBSET Traces
    BY <2>4 DEF Publish, ClaimInv, Claimed, TypeOK, Settled
  <2>5. CASE Complete(w)
    BY <2>4, <2>5, BecomeType DEF Complete, requestVars, recoveryVars, ClaimInv, TypeOK
  <2>6. CASE CompleteUnacknowledged(w)
    <3>1. faults' \in 0..MaxFaults
      BY <2>6, QueueAssumption DEF CompleteUnacknowledged, Fault, ClaimInv, TypeOK
    <3>2. QED
      BY <2>4, <2>6, <3>1, BecomeType
         DEF CompleteUnacknowledged, requestVars, recoveryVars, ClaimInv, TypeOK
  <2>7. CASE RunFails(w)
    BY <2>7, BecomeType DEF RunFails, requestVars, traceVars, recoveryVars, ClaimInv, TypeOK
  <2>8. CASE MarkFailed(w)
    <3>1. status' \in [Traces -> {"none", "pending", "evaluating"} \cup Settled]
      BY <2>8 DEF MarkFailed, ClaimInv, TypeOK, Settled
    <3>2. QED
      BY <2>8, <3>1, BecomeType DEF MarkFailed, requestVars, recoveryVars, ClaimInv, TypeOK
  <2>9. CASE Crash(w)
    <3>1. faults' \in 0..MaxFaults
      BY <2>9, QueueAssumption DEF Crash, Fault, ClaimInv, TypeOK
    <3>2. QED
      BY <2>9, <3>1, BecomeType DEF Crash, requestVars, traceVars, recoveryVars, ClaimInv, TypeOK
  <2>10. QED
    BY <1>3, <2>1, <2>2, <2>3, <2>5, <2>6, <2>7, <2>8, <2>9 DEF Consumer, Settle
<1>4. CASE Recovery
  <2>1. CASE RecoverStart
    BY <2>1 DEF RecoverStart, Stuck, Finished, requestVars, workerVars, ClaimInv, TypeOK, Settled
  <2>2. ASSUME NEW t \in Traces, RecoverPush(t) PROVE TypeOK'
    BY <2>2 DEF RecoverPush, Push, requestVars, traceVars, workerVars, ClaimInv, TypeOK
  <2>3. CASE RecoverCount
    BY <2>3 DEF RecoverCount, requestVars, traceVars, workerVars, ClaimInv, TypeOK
  <2>4. CASE RecoverSelect
    BY <2>4 DEF RecoverSelect, Orphaned, requestVars, traceVars, workerVars, ClaimInv, TypeOK
  <2>5. CASE RecoverEnd
    BY <2>5 DEF RecoverEnd, requestVars, traceVars, workerVars, ClaimInv, TypeOK
  <2>6. CASE RecoverFail
    BY <2>6, QueueAssumption DEF RecoverFail, Fault, requestVars, traceVars, workerVars,
       ClaimInv, TypeOK
  <2>7. QED
    BY <1>4, <2>1, <2>2, <2>3, <2>4, <2>5, <2>6 DEF Recovery
<1>5. CASE LoseQueue
  BY <1>5, QueueAssumption DEF LoseQueue, Fault, requestVars, traceVars, workerVars,
     recoveryVars, ClaimInv, TypeOK
<1>6. QED
  BY <1>1, <1>2, <1>3, <1>4, <1>5 DEF QueueNext

\* A step keeps the claims exclusive and the statuses consistent.
LEMMA ClaimStep == ClaimInv /\ [QueueNext]_queueVars => (Claimed /\ Consistent /\ OneEvaluator)'
<1> SUFFICES ASSUME ClaimInv, [QueueNext]_queueVars PROVE (Claimed /\ Consistent /\ OneEvaluator)'
  OBVIOUS
<1>1. CASE UNCHANGED <<request, status, evaluated, phase, job>>
  BY <1>1, Frame
<1>2. ASSUME NEW t \in Traces, Request(t)
      PROVE  (Claimed /\ Consistent /\ OneEvaluator)'
  <2>1. CASE CommitRequest(t)
    <3>1. request[t] = "sent" /\ status[t] = "none"
      BY <2>1 DEF CommitRequest, ClaimInv, Consistent
    <3>2. \A w \in Workers : phase[w] = "running" => job[w] # t
      BY <3>1 DEF ClaimInv, Claimed
    <3>3. Claimed'
      BY <2>1, <3>2 DEF CommitRequest, workerVars, ClaimInv, Claimed, TypeOK
    <3>4. Consistent'
      BY <2>1, <3>1 DEF CommitRequest, ClaimInv, Consistent, TypeOK, Settled
    <3>5. OneEvaluator'
      BY <2>1 DEF CommitRequest, workerVars, ClaimInv, OneEvaluator, Holders
    <3>6. QED
      BY <3>3, <3>4, <3>5
  <2>2. CASE Send(t) \/ AbortRequest(t) \/ Age(t)
    <3>1. UNCHANGED <<status, evaluated, phase, job>>
      BY <2>2 DEF Send, AbortRequest, Age, traceVars, workerVars
    <3>2. \A s \in Traces : request'[s] = "committed" <=> request[s] = "committed"
      BY <2>2 DEF Send, AbortRequest, Age, ClaimInv, TypeOK
    <3>3. Claimed' /\ OneEvaluator'
      BY <3>1, <3>2 DEF ClaimInv, Claimed, OneEvaluator, Holders
    <3>4. Consistent'
      BY <3>1, <3>2 DEF ClaimInv, Consistent
    <3>5. QED
      BY <3>3, <3>4
  <2>3. QED
    BY <1>2, <2>1, <2>2 DEF Request
<1>3. ASSUME NEW w \in Workers, Consumer(w)
      PROVE  (Claimed /\ Consistent /\ OneEvaluator)'
  <2> DEFINE t == job[w]
  <2>1. CASE Pop(w)
    <3>1. Head(queue) \in Traces
      BY <2>1 DEF Pop, ClaimInv, TypeOK
    <3>2. /\ phase'[w] = "popped" /\ job'[w] = Head(queue)
          /\ \A v \in Workers \ {w} : phase'[v] = phase[v] /\ job'[v] = job[v]
      BY <2>1 DEF Pop, ClaimInv, TypeOK
    <3>3. Claimed' /\ OneEvaluator' /\ Consistent'
      BY <2>1, <3>1, <3>2 DEF Pop, requestVars, traceVars, ClaimInv, Claimed, Consistent,
         OneEvaluator, Holders
    <3>4. QED
      BY <3>3
  <2>2. CASE Claim(w)
    <3>1. Holders(t) = {} /\ status[t] = "pending" /\ t \in Traces
      BY <2>2 DEF Claim, Claimable, ClaimInv, Claimed
    <3>2. /\ phase'[w] = "running" /\ job'[w] = t
          /\ \A v \in Workers \ {w} : phase'[v] = phase[v] /\ job'[v] = job[v]
      BY <2>2, BecomeType DEF Claim, ClaimInv
    <3>3. UNCHANGED <<request, status, evaluated>>
      BY <2>2 DEF Claim, requestVars, traceVars
    <3>4. Claimed' /\ Consistent'
      BY <3>1, <3>2, <3>3 DEF ClaimInv, Claimed, Consistent
    <3>5. OneEvaluator'
      BY <3>1, <3>2 DEF ClaimInv, OneEvaluator, Holders
    <3>6. QED
      BY <3>4, <3>5
  <2>3. CASE Skip(w) \/ RunFails(w) \/ Crash(w)
    <3>1. UNCHANGED <<request, status, evaluated>> /\ phase[w] # "idle"
      BY <2>3 DEF Skip, RunFails, Crash, requestVars, traceVars
    <3>2. PICK p \in {"idle", "failing"} :
            Become(w, p) /\ (p = "failing" => phase[w] = "running")
      BY <2>3 DEF Skip, RunFails, Crash
    <3>3. Consistent'
      BY <3>1 DEF ClaimInv, Consistent
    <3>4. QED
      BY <3>1, <3>2, <3>3, Released
  <2>4. CASE Complete(w) \/ CompleteUnacknowledged(w)
    <3>1. /\ request' = request /\ phase[w] = "running"
          /\ status' = [status EXCEPT ![t] = "completed"]
          /\ evaluated' = evaluated \cup {t}
      BY <2>4 DEF Complete, CompleteUnacknowledged, Publish, requestVars
    <3>2. PICK p \in {"idle", "failing"} : Become(w, p)
      BY <2>4 DEF Complete, CompleteUnacknowledged
    <3>3. t \in Traces /\ request[t] = "committed"
      BY <3>1 DEF ClaimInv, Claimed, Consistent
    <3>4. Consistent'
      BY <3>1, <3>3 DEF ClaimInv, Consistent, TypeOK, Settled
    <3>5. \A v \in Workers \ {w} :
            phase[v] = "running" => status'[job[v]] = status[job[v]]
      BY <3>1, <3>3 DEF ClaimInv, OneEvaluator, Holders, TypeOK, Claimed
    <3>6. QED
      BY <3>1, <3>2, <3>4, <3>5, Released
  <2>5. CASE MarkFailed(w)
    <3>1. /\ request' = request /\ evaluated' = evaluated
          /\ phase[w] = "failing" /\ Holders(t) = {} /\ Become(w, "idle")
          /\ status' = [status EXCEPT ![t] = "failed"]
      BY <2>5 DEF MarkFailed, requestVars
    <3>2. t \in Traces
      BY <3>1 DEF ClaimInv, Claimed
    <3>3. request[t] = "committed"
      BY <3>1, <3>2 DEF ClaimInv, Claimed
    <3>4. Consistent'
      BY <3>1, <3>2, <3>3 DEF ClaimInv, Consistent, TypeOK, Settled
    <3>5. \A v \in Workers \ {w} :
            phase[v] = "running" => status'[job[v]] = status[job[v]]
      BY <3>1 DEF Holders, ClaimInv, TypeOK, Claimed
    <3>6. QED
      BY <3>1, <3>4, <3>5, Released
  <2>6. QED
    BY <1>3, <2>1, <2>2, <2>3, <2>4, <2>5 DEF Consumer, Settle
<1>4. CASE Recovery
  <2>1. CASE RecoverStart
    <3>1. UNCHANGED <<request, evaluated, phase, job>>
      BY <2>1 DEF RecoverStart, requestVars, workerVars
    <3>2. \A s \in Traces : s \notin Finished \cup Stuck => status'[s] = status[s]
      BY <2>1 DEF RecoverStart
    <3>3. Claimed'
      <4>1. \A v \in Workers : phase[v] = "running" => job[v] \notin Finished \cup Stuck
        BY <2>1 DEF RecoverStart, Holders, ClaimInv, Claimed
      <4>2. QED
        BY <3>1, <3>2, <4>1 DEF ClaimInv, Claimed
    <3>4. Consistent'
      BY <2>1, <3>1 DEF RecoverStart, Finished, Stuck, ClaimInv, Consistent, Settled
    <3>5. OneEvaluator'
      BY <3>1 DEF ClaimInv, OneEvaluator, Holders
    <3>6. QED
      BY <3>3, <3>4, <3>5
  <2>2. CASE ~RecoverStart
    BY <1>4, <2>2, Frame DEF Recovery, RecoverPush, RecoverCount, RecoverSelect, RecoverEnd,
       RecoverFail, requestVars, traceVars, workerVars
  <2>3. QED
    BY <2>1, <2>2
<1>5. CASE LoseQueue
  BY <1>5, Frame DEF LoseQueue, requestVars, traceVars, workerVars
<1>6. CASE UNCHANGED queueVars
  BY <1>6, Frame DEF queueVars
<1>7. QED
  BY <1>2, <1>3, <1>4, <1>5, <1>6 DEF QueueNext

\* ClaimInv is inductive.
LEMMA Inductive == QueueSpec => []ClaimInv
<1>1. QueueInit => ClaimInv
  <2>1. QueueInit => TypeOK
    BY QueueAssumption DEF QueueInit, TypeOK
  <2>2. QueueInit => Claimed /\ Consistent /\ OneEvaluator
    BY DEF QueueInit, Claimed, Consistent, OneEvaluator, Holders
  <2>3. QED
    BY <2>1, <2>2 DEF ClaimInv
<1>2. ClaimInv /\ [QueueNext]_queueVars => ClaimInv'
  BY TypeStep, ClaimStep DEF ClaimInv
<1>3. QED
  BY <1>1, <1>2, PTL DEF QueueSpec

\* Every variable keeps its type (worker/tasks/evaluate.py and
\* worker/tasks/evaluation_recovery.py).
THEOREM TypeCorrect == QueueSpec => []TypeOK
<1>1. ClaimInv => TypeOK
  BY DEF ClaimInv
<1>2. QED
  BY <1>1, Inductive, PTL

\* Whatever is delivered twice, one worker at a time evaluates a trace
\* (worker/tasks/evaluate.py:38-45).
THEOREM EvaluatesExclusively == QueueSpec => []OneEvaluator
<1>1. ClaimInv => OneEvaluator
  BY DEF ClaimInv
<1>2. QED
  BY <1>1, Inductive, PTL

\* A trace with an evaluation is never evaluated again: its status has settled,
\* and only a pending trace is claimed (worker/tasks/evaluation_recovery.py:9-11).
THEOREM NeverTwice == QueueSpec => []NeverEvaluatedTwice
<1>1. ClaimInv => NeverEvaluatedTwice
  <2> SUFFICES ASSUME ClaimInv, NEW t \in evaluated, NEW w \in Holders(t) PROVE FALSE
    BY DEF NeverEvaluatedTwice
  <2>1. t \in Traces /\ status[t] \in Settled
    BY DEF ClaimInv, TypeOK, Consistent
  <2>2. status[t] = "pending"
    BY DEF ClaimInv, Claimed, Holders
  <2>3. QED
    BY <2>1, <2>2 DEF Settled
<1>2. QED
  BY <1>1, Inductive, PTL

\* A completed trace has its evaluation (evaluation/pipeline.py:96-153 and the
\* status commit in one transaction).
THEOREM CompletedHasEvaluation == QueueSpec => []CompletedIsEvaluated
<1>1. ClaimInv => CompletedIsEvaluated
  BY DEF ClaimInv, Consistent, CompletedIsEvaluated
<1>2. QED
  BY <1>1, Inductive, PTL

\* A settled trace is never handed back to the workers
\* (worker/tasks/evaluation_recovery.py:54-77).
THEOREM StaysSettled == QueueSpec => SettledForGood
<1>1. ClaimInv /\ [QueueNext]_queueVars =>
        [\A t \in Traces : status[t] \in Settled => status'[t] \in Settled]_queueVars
  <2> SUFFICES ASSUME ClaimInv, QueueNext, NEW t \in Traces, status[t] \in Settled
               PROVE  status'[t] \in Settled
    OBVIOUS
  <2>1. CASE status' = status
    BY <2>1
  <2>2. ASSUME NEW s \in Traces, CommitRequest(s) PROVE status'[t] \in Settled
    <3>1. status[s] = "none"
      BY <2>2 DEF CommitRequest, ClaimInv, Consistent
    <3>2. QED
      BY <2>2, <3>1 DEF CommitRequest, ClaimInv, TypeOK, Settled
  <2>3. ASSUME NEW w \in Workers, Publish(job[w]) PROVE status'[t] \in Settled
    BY <2>3 DEF Publish, ClaimInv, TypeOK, Settled
  <2>4. ASSUME NEW w \in Workers, MarkFailed(w) PROVE status'[t] \in Settled
    BY <2>4 DEF MarkFailed, ClaimInv, TypeOK, Settled
  <2>5. CASE RecoverStart
    BY <2>5 DEF RecoverStart, Stuck, Settled
  <2>6. \/ status' = status \/ RecoverStart
        \/ \E s \in Traces : CommitRequest(s)
        \/ \E w \in Workers : Publish(job[w]) \/ MarkFailed(w)
    BY DEF QueueNext, Request, Send, AbortRequest, Age, Consumer, Pop, Claim, Skip, Settle,
       Complete, CompleteUnacknowledged, RunFails, Crash, Recovery, RecoverPush,
       RecoverCount, RecoverSelect, RecoverEnd, RecoverFail, LoseQueue, traceVars
  <2>7. QED
    BY <2>1, <2>2, <2>3, <2>4, <2>5, <2>6
<1>2. QED
  BY <1>1, Inductive, PTL DEF QueueSpec, SettledForGood

------------------------------------------------------------------------------
(* The queue *)

Waiting(t) == \E i \in DOMAIN queue : queue[i] = t

\* Only a request that has committed gets old, and none is queued before it is made.
RequestsFirst ==
    \A t \in Traces :
        /\ request[t] # "committed" => age[t] = 0
        /\ request[t] = "new" => ~Waiting(t)

\* Nobody ever sees a claim, so there is nothing to hand back; and what the pass
\* pushes, no one else does: it found nothing queued, and is of old traces.
RecoveryOwns ==
    /\ \A t \in Traces : status[t] # "evaluating"
    /\ \A t \in aged : request[t] = "committed"
    /\ batch \subseteq aged
    /\ recovery # "orphans" => batch = {}
    /\ recovery = "counted" => \A t \in aged : ~Waiting(t)
    /\ \A t \in batch : ~Waiting(t)

QueueInv == RequestsFirst /\ RecoveryOwns /\ QueuedOnce

LEMMA Pushed ==
    ASSUME TypeOK, NEW t \in Traces, Push(t)
    PROVE  /\ \A s \in Traces : Waiting(s)' <=> Waiting(s) \/ s = t
           /\ QueuedOnce /\ ~Waiting(t) => QueuedOnce'
<1>1. /\ queue \in Seq(Traces) /\ Len(queue) \in Nat /\ DOMAIN queue = 1..Len(queue)
      /\ DOMAIN queue' = 1..(Len(queue) + 1) /\ queue'[Len(queue) + 1] = t
      /\ \A i \in 1..Len(queue) : queue'[i] = queue[i]
  BY DEF TypeOK, Push
<1>2. \A s \in Traces : Waiting(s)' <=> Waiting(s) \/ s = t
  BY <1>1 DEF Waiting
<1>3. ASSUME QueuedOnce, ~Waiting(t) PROVE QueuedOnce'
  <2> SUFFICES ASSUME NEW i \in DOMAIN queue', NEW j \in DOMAIN queue', queue'[i] = queue'[j]
               PROVE  i = j
    BY DEF QueuedOnce
  <2>1. QED
    BY <1>1, <1>3 DEF QueuedOnce, Waiting
<1>4. QED
  BY <1>2, <1>3

LEMMA Popped ==
    ASSUME TypeOK, queue # <<>>, queue' = Tail(queue)
    PROVE  /\ \A s : Waiting(s)' => Waiting(s)
           /\ QueuedOnce => QueuedOnce'
<1>1. /\ queue \in Seq(Traces) /\ Len(queue) \in Nat \ {0} /\ DOMAIN queue = 1..Len(queue)
      /\ DOMAIN queue' = 1..(Len(queue) - 1)
      /\ \A i \in 1..(Len(queue) - 1) : queue'[i] = queue[i + 1]
  BY DEF TypeOK
<1>2. \A i \in DOMAIN queue' : i + 1 \in DOMAIN queue /\ i \in Nat
  BY <1>1
<1>3. \A s : Waiting(s)' => Waiting(s)
  BY <1>1, <1>2 DEF Waiting
<1>4. QueuedOnce => QueuedOnce'
  <2> SUFFICES ASSUME QueuedOnce, NEW i \in DOMAIN queue', NEW j \in DOMAIN queue',
                      queue'[i] = queue'[j]
               PROVE  i = j
    BY DEF QueuedOnce
  <2>1. i + 1 = j + 1
    BY <1>1, <1>2 DEF QueuedOnce
  <2>2. QED
    BY <1>2, <2>1
<1>5. QED
  BY <1>3, <1>4

LEMMA NothingStuck ==
    ASSUME QueueInv
    PROVE  Stuck = {}
BY DEF QueueInv, RecoveryOwns, Stuck

\* No status a step writes is 'evaluating'.
LEMMA NoClaimShows == ClaimInv /\ QueueInv /\ [QueueNext]_queueVars => \A t \in Traces : status'[t] # "evaluating"
<1> SUFFICES ASSUME ClaimInv, QueueInv, [QueueNext]_queueVars, NEW t \in Traces PROVE status'[t] # "evaluating"
  OBVIOUS
<1>1. status[t] # "evaluating"
  BY DEF QueueInv, RecoveryOwns
<1>2. CASE status' = status
  BY <1>1, <1>2
<1>3. ASSUME NEW s \in Traces, CommitRequest(s) PROVE status'[t] # "evaluating"
  BY <1>1, <1>3 DEF CommitRequest, ClaimInv, TypeOK
<1>4. ASSUME NEW w \in Workers, Publish(job[w]) \/ MarkFailed(w) PROVE status'[t] # "evaluating"
  BY <1>1, <1>4 DEF Publish, MarkFailed, ClaimInv, TypeOK
<1>5. CASE RecoverStart
  BY <1>1, <1>5 DEF RecoverStart
<1>6. \/ status' = status \/ RecoverStart
      \/ \E s \in Traces : CommitRequest(s)
      \/ \E w \in Workers : Publish(job[w]) \/ MarkFailed(w)
  BY DEF QueueNext, Request, Send, AbortRequest, Age, Consumer, Pop, Claim, Skip, Settle,
     Complete, CompleteUnacknowledged, RunFails, Crash, Recovery, RecoverPush,
     RecoverCount, RecoverSelect, RecoverEnd, RecoverFail, LoseQueue, traceVars, queueVars
<1>7. QED
  BY <1>2, <1>3, <1>4, <1>5, <1>6

\* Steps that neither queue a job nor move the recovery pass, nor make a request new.
LEMMA QueueFrame ==
    ASSUME ClaimInv, QueueInv, [QueueNext]_queueVars, UNCHANGED <<recovery, aged, batch>>,
           queue' \in {queue, <<>>},
           \A t \in Traces : /\ request'[t] = "new" => request[t] = "new"
                             /\ request[t] = "committed" => request'[t] = "committed"
                             /\ request'[t] # "committed" =>
                                  request[t] # "committed" /\ age'[t] = age[t]
    PROVE  QueueInv'
<1>1. \A t : Waiting(t)' => Waiting(t)
  BY DEF Waiting
<1>2. QueuedOnce'
  BY DEF QueueInv, QueuedOnce
<1>3. RequestsFirst'
  BY <1>1 DEF QueueInv, RequestsFirst
<1>4. RecoveryOwns'
  BY <1>1, NoClaimShows DEF QueueInv, RecoveryOwns, ClaimInv, TypeOK
<1>5. QED
  BY <1>2, <1>3, <1>4 DEF QueueInv

LEMMA QueueStep == ClaimInv /\ QueueInv /\ [QueueNext]_queueVars => QueueInv'
<1> SUFFICES ASSUME ClaimInv, QueueInv, [QueueNext]_queueVars PROVE QueueInv'
  OBVIOUS
<1>0. \A t \in Traces : status'[t] # "evaluating"
  BY NoClaimShows
<1>1. ASSUME NEW t \in Traces, Request(t) PROVE QueueInv'
  <2>1. CASE Send(t)
    <3>1. /\ request[t] = "new" /\ request' = [request EXCEPT ![t] = "sent"]
          /\ Push(t) \/ UNCHANGED queue
          /\ UNCHANGED <<age, recovery, aged, batch>>
      BY <2>1 DEF Send, recoveryVars
    <3>2. CASE UNCHANGED queue
      BY <3>1, <3>2, QueueFrame DEF ClaimInv, TypeOK
    <3>3. CASE Push(t)
      <4>1. ~Waiting(t) /\ t \notin aged
        BY <3>1 DEF QueueInv, RequestsFirst, RecoveryOwns
      <4>2. \A s \in Traces : Waiting(s)' <=> Waiting(s) \/ s = t
        BY <3>3, Pushed DEF ClaimInv
      <4>3. QueuedOnce'
        BY <3>3, <4>1, Pushed DEF ClaimInv, QueueInv
      <4>4. RequestsFirst'
        BY <3>1, <4>2 DEF QueueInv, RequestsFirst, ClaimInv, TypeOK
      <4>5. RecoveryOwns'
        BY <1>0, <3>1, <4>1, <4>2 DEF QueueInv, RecoveryOwns, ClaimInv, TypeOK
      <4>6. QED
        BY <4>3, <4>4, <4>5 DEF QueueInv
    <3>4. QED
      BY <3>1, <3>2, <3>3
  <2>2. CASE CommitRequest(t) \/ AbortRequest(t)
    BY <2>2, QueueFrame DEF CommitRequest, AbortRequest, recoveryVars, ClaimInv, TypeOK
  <2>3. CASE Age(t)
    BY <2>3, QueueFrame DEF Age, recoveryVars, ClaimInv, TypeOK
  <2>4. QED
    BY <1>1, <2>1, <2>2, <2>3 DEF Request
<1>2. ASSUME NEW w \in Workers, Consumer(w) PROVE QueueInv'
  <2>1. CASE Pop(w)
    <3>1. UNCHANGED <<request, age, recovery, aged, batch>>
      BY <2>1 DEF Pop, requestVars, recoveryVars
    <3>2. (\A s : Waiting(s)' => Waiting(s)) /\ QueuedOnce'
      BY <2>1, Popped DEF Pop, ClaimInv, QueueInv
    <3>3. RequestsFirst'
      BY <3>1, <3>2 DEF QueueInv, RequestsFirst
    <3>4. RecoveryOwns'
      BY <1>0, <3>1, <3>2 DEF QueueInv, RecoveryOwns
    <3>5. QED
      BY <3>2, <3>3, <3>4 DEF QueueInv
  <2>2. CASE ~Pop(w)
    <3>1. UNCHANGED <<request, age, recovery, aged, batch, queue>>
      BY <1>2, <2>2 DEF Consumer, Claim, Skip, Settle, Complete, CompleteUnacknowledged,
         RunFails, MarkFailed, Crash, requestVars, recoveryVars
    <3>2. QED
      BY <3>1, QueueFrame
  <2>3. QED
    BY <2>1, <2>2
<1>3. CASE Recovery
  <2>0. CASE UNCHANGED <<request, age, queue>> /\ RequestsFirst' /\ QueuedOnce'
             /\ ~(\E t \in Traces : RecoverPush(t))
    <3>1. \A t : Waiting(t)' <=> Waiting(t)
      BY <2>0 DEF Waiting
    <3>2. CASE RecoverStart
      <4>1. batch' = {} /\ recovery' = "requeue"
        BY <3>2, NothingStuck DEF RecoverStart
      <4>2. \A t \in aged' : request[t] = "committed"
        BY <3>2, QueueAssumption DEF RecoverStart, QueueInv, RequestsFirst
      <4>3. RecoveryOwns'
        BY <1>0, <2>0, <4>1, <4>2 DEF RecoveryOwns
      <4>4. QED
        BY <2>0, <4>3 DEF QueueInv
    <3>3. CASE RecoverCount
      <4>1. queue = <<>> => \A t : ~Waiting(t)
        BY DEF Waiting
      <4>2. RecoveryOwns'
        BY <1>0, <2>0, <3>1, <3>3, <4>1 DEF RecoverCount, TrustsQueue, QueueInv, RecoveryOwns
      <4>3. QED
        BY <2>0, <4>2 DEF QueueInv
    <3>4. CASE RecoverSelect
      <4>1. batch' \subseteq aged /\ aged' = aged /\ recovery' = "orphans"
        BY <3>4 DEF RecoverSelect, Orphaned
      <4>2. \A t \in aged : ~Waiting(t)
        BY <3>4 DEF RecoverSelect, QueueInv, RecoveryOwns
      <4>3. RecoveryOwns'
        BY <1>0, <2>0, <3>1, <4>1, <4>2 DEF QueueInv, RecoveryOwns
      <4>4. QED
        BY <2>0, <4>3 DEF QueueInv
    <3>5. CASE RecoverEnd \/ RecoverFail
      <4>1. batch' = {} /\ aged' = aged /\ recovery' = "idle"
        BY <3>5 DEF RecoverEnd, RecoverFail
      <4>2. RecoveryOwns'
        BY <1>0, <2>0, <4>1 DEF QueueInv, RecoveryOwns
      <4>3. QED
        BY <2>0, <4>2 DEF QueueInv
    <3>6. QED
      BY <1>3, <2>0, <3>2, <3>3, <3>4, <3>5 DEF Recovery
  <2>1. ASSUME NEW t \in Traces, RecoverPush(t) PROVE QueueInv'
    <3>1. /\ t \in batch /\ Push(t) /\ batch' = batch \ {t}
          /\ UNCHANGED <<request, age, recovery, aged>>
      BY <2>1 DEF RecoverPush, requestVars
    <3>2. recovery = "orphans" /\ ~Waiting(t) /\ request[t] = "committed"
      BY <3>1 DEF QueueInv, RecoveryOwns
    <3>3. \A s \in Traces : Waiting(s)' <=> Waiting(s) \/ s = t
      BY <3>1, Pushed DEF ClaimInv
    <3>4. QueuedOnce'
      BY <3>1, <3>2, Pushed DEF ClaimInv, QueueInv
    <3>5. RequestsFirst'
      BY <3>1, <3>2, <3>3 DEF QueueInv, RequestsFirst
    <3>6. RecoveryOwns'
      BY <1>0, <3>1, <3>2, <3>3 DEF QueueInv, RecoveryOwns, ClaimInv, TypeOK
    <3>7. QED
      BY <3>4, <3>5, <3>6 DEF QueueInv
  <2>2. CASE ~(\E t \in Traces : RecoverPush(t))
    <3>1. UNCHANGED <<request, age, queue>>
      BY <1>3, <2>2 DEF Recovery, RecoverStart, RecoverCount, RecoverSelect, RecoverEnd,
         RecoverFail, requestVars
    <3>2. RequestsFirst' /\ QueuedOnce'
      BY <3>1 DEF QueueInv, RequestsFirst, QueuedOnce, Waiting
    <3>3. QED
      BY <2>0, <2>2, <3>1, <3>2
  <2>3. QED
    BY <2>1, <2>2
<1>4. CASE LoseQueue
  BY <1>4, QueueFrame DEF LoseQueue, requestVars, recoveryVars
<1>5. CASE UNCHANGED queueVars
  BY <1>5, QueueFrame DEF queueVars
<1>6. QED
  BY <1>1, <1>2, <1>3, <1>4, <1>5 DEF QueueNext

\* However recovery, requests and restarts of Redis interleave, a job is in the queue
\* once: the pass pushes what is old and pending, and only if it has found the queue
\* empty (worker/tasks/evaluation_recovery.py:84-107).
THEOREM JobsAreQueuedOnce == QueueSpec => []QueuedOnce
<1>1. QueueInit => QueueInv
  BY DEF QueueInit, QueueInv, RequestsFirst, RecoveryOwns, QueuedOnce, Waiting
<1>2. ClaimInv /\ QueueInv /\ [QueueNext]_queueVars => QueueInv'
  BY QueueStep
<1>3. QueueInv => QueuedOnce
  BY DEF QueueInv
<1>4. QED
  BY <1>1, <1>2, <1>3, Inductive, PTL DEF QueueSpec

-----------------------------------------------------------------------------
(***************************************************************************)
(* The traces API                                                          *)
(***************************************************************************)

\* A row has these columns.
Whole(row) ==
    /\ row = [stored |-> TRUE, app |-> row.app, content |-> row.content,
              verdict |-> row.verdict, tags |-> row.tags, arm |-> row.arm,
              replayOf |-> row.replayOf]
    /\ row.stored

\* What the row of t says of executions: its arm is its own, and its original, if
\* any, is stored and another trace of the same application and contents.
Linked(t, row) ==
    /\ row.arm \in {NoId, t}
    /\ row.replayOf # NoId =>
         /\ row.replayOf \in Stored /\ row.replayOf # t
         /\ traces[row.replayOf].app = row.app
         /\ traces[row.replayOf].content = row.content

RowsOK ==
    /\ traces = [t \in Ids |-> traces[t]]
    /\ \A t \in Stored : Whole(traces[t]) /\ Linked(t, traces[t])

\* A new row, not committed yet.
NewOK(q) ==
    /\ q.id \in Ids \ Stored
    /\ Whole(q.row) /\ Linked(q.id, q.row)
    /\ InScope(q.scope, q.row.app)
    /\ q.row.verdict = NoVerdict /\ q.row.tags = {}

LabelOK(q) ==
    /\ q.id \in Stored
    /\ q.op \in {"feedback", "tags"}
    /\ q.op = "feedback" => q.new \in Verdicts
    /\ q.op = "tags" => q.new \in TagSets

\* What a replay has read of its original is what is stored, but for its labels.
ReplayOK(q) ==
    /\ q.id \in Stored
    /\ q.original.app = traces[q.id].app /\ q.original.content = traces[q.id].content
    /\ InScope(q.scope, q.original.app)

RequestOK(q) ==
    /\ q.step \in {"idle", "insert", "inserted", "label", "generate"}
    /\ q.step = "insert" => q.id \in Ids /\ InScope(q.scope, q.app)
    /\ q.step = "inserted" => NewOK(q)
    /\ q.step = "label" => LabelOK(q)
    /\ q.step = "generate" => ReplayOK(q)

\* The unique index: one transaction has inserted an id.
Exclusive ==
    \A r, s \in Requests :
        req[r].step = "inserted" /\ req[s].step = "inserted" /\ req[r].id = req[s].id => r = s

RequestsOK ==
    /\ req = [r \in Requests |-> req[r]]
    /\ \A r \in Requests : RequestOK(req[r])
    /\ Exclusive

Inv == RowsOK /\ RequestsOK /\ AnswersAgree /\ LabelsAreWhole

-----------------------------------------------------------------------------
(* Lemmas *)

\* No step takes a trace away, or gives it other contents.
Grows ==
    \A t \in Stored : /\ t \in Stored'
                      /\ traces'[t].app = traces[t].app
                      /\ traces'[t].content = traces[t].content

LEMMA LinkedStays ==
  ASSUME NEW t, NEW row, Linked(t, row), Grows
  PROVE  Linked(t, row)'
  BY DEF Linked, Grows

\* A request that does nothing is not troubled, unless the id it has inserted is
\* stored by another one.
LEMMA RequestStays ==
  ASSUME NEW q, RequestOK(q), Grows, q.step = "inserted" => q.id \notin Stored'
  PROVE  RequestOK(q)'
<1>1. CASE q.step = "inserted"
  <2>1. NewOK(q)'
    BY <1>1, LinkedStays DEF RequestOK, NewOK
  <2>2. QED
    BY <1>1, <2>1 DEF RequestOK
<1>2. CASE q.step # "inserted"
  BY <1>2 DEF RequestOK, LabelOK, ReplayOK, Grows
<1>3. QED
  BY <1>1, <1>2

\* What a scope holds may be told to it.
LEMMA TellKeeps ==
  ASSUME Inv, NEW scope, NEW ts \in SUBSET Ids, Tell(scope, ts, traces'), Grows,
         \A t \in ts : t \in Stored' /\ InScope(scope, traces'[t].app)
  PROVE  AnswersAgree'
<1>1. \A t \in Ids : told[t] \subseteq IF t \in Stored THEN {<< traces[t].app, traces[t].content >>}
                                      ELSE {}
  BY DEF Inv, AnswersAgree
<1>2. \A t \in Ids : told'[t] = IF t \in ts
                                THEN told[t] \cup {<< traces'[t].app, traces'[t].content >>}
                                ELSE told[t]
  BY DEF Tell
<1>3. strayed' = {}
  BY DEF Tell, Inv, AnswersAgree
<1>4. ASSUME NEW t \in Ids
      PROVE  told'[t] \subseteq IF t \in Stored' THEN {<< traces'[t].app, traces'[t].content >>}
                                ELSE {}
  <2>1. CASE t \in Stored
    BY <1>1, <1>2, <2>1 DEF Grows
  <2>2. CASE t \notin Stored
    BY <1>1, <1>2, <2>2
  <2>3. QED
    BY <2>1, <2>2
<1>5. QED
  BY <1>3, <1>4 DEF AnswersAgree

LEMMA SilenceKeeps ==
  ASSUME Inv, UNCHANGED << told, strayed >>, Grows
  PROVE  AnswersAgree'
<1>1. \A t \in Ids : told[t] \subseteq IF t \in Stored THEN {<< traces[t].app, traces[t].content >>}
                                      ELSE {}
  BY DEF Inv, AnswersAgree
<1>2. ASSUME NEW t \in Ids
      PROVE  told'[t] \subseteq IF t \in Stored' THEN {<< traces'[t].app, traces'[t].content >>}
                                ELSE {}
  BY <1>1 DEF Grows
<1>3. QED
  BY <1>2 DEF Inv, AnswersAgree

\* A step that leaves the traces alone.
LEMMA SameTraces ==
  ASSUME Inv, UNCHANGED << traces, crossed >>
  PROVE  RowsOK' /\ LabelsAreWhole' /\ Grows /\ Stored' = Stored
<1>1. Stored' = Stored
  BY DEF Stored
<1>2. Grows
  BY <1>1 DEF Grows
<1>3. LabelsAreWhole'
  BY <1>1 DEF Inv, LabelsAreWhole
<1>4. ASSUME NEW t \in Stored PROVE Whole(traces[t])' /\ Linked(t, traces[t])'
  BY <1>1 DEF Inv, RowsOK, Whole, Linked
<1>5. (traces = [t \in Ids |-> traces[t]])'
  BY DEF Inv, RowsOK
<1>6. QED
  BY <1>1, <1>2, <1>3, <1>4, <1>5 DEF RowsOK

\* One that changes one request only.
LEMMA OneRequest ==
  ASSUME Inv, NEW r \in Requests, NEW q, req' = [req EXCEPT ![r] = q], UNCHANGED << traces, crossed >>,
         RequestOK(q),
         q.step = "inserted" =>
           \A s \in Requests \ {r} : ~(req[s].step = "inserted" /\ req[s].id = q.id)
  PROVE  RowsOK' /\ RequestsOK' /\ LabelsAreWhole' /\ Grows
<1>1. req'[r] = q /\ \A s \in Requests \ {r} : req'[s] = req[s]
  BY DEF Inv, RequestsOK
<1>2. req' = [s \in Requests |-> req'[s]]
  BY DEF Inv, RequestsOK
<1>3. RowsOK' /\ LabelsAreWhole' /\ Grows /\ Stored' = Stored
  BY SameTraces
<1>4. ASSUME NEW s \in Requests PROVE RequestOK(req[s])'
  <2>1. PICK p : p = req'[s]
    OBVIOUS
  <2>2. RequestOK(p)
    BY <1>1, <2>1 DEF Inv, RequestsOK
  <2>3. p.step = "inserted" => p.id \notin Stored'
    BY <1>3, <2>2 DEF RequestOK, NewOK
  <2>4. RequestOK(p)'
    BY <1>3, <2>2, <2>3, RequestStays
  <2>5. QED
    BY <2>1, <2>4 DEF RequestOK, NewOK, LabelOK, ReplayOK, Linked
<1>5. Exclusive'
  BY <1>1 DEF Inv, RequestsOK, Exclusive
<1>6. RequestsOK'
  BY <1>2, <1>4, <1>5 DEF RequestsOK
<1>7. QED
  BY <1>3, <1>6

\* The end of one.
LEMMA Ends ==
  ASSUME Inv, NEW r \in Requests, End(r), Grows,
         \A s \in Requests \ {r} : req[s].step = "inserted" => req[s].id \notin Stored'
  PROVE  RequestsOK'
<1>1. req'[r] = Idle /\ \A s \in Requests \ {r} : req'[s] = req[s]
  BY DEF Inv, RequestsOK, End
<1>2. req' = [s \in Requests |-> req'[s]]
  BY DEF Inv, RequestsOK, End
<1>3. Exclusive'
  BY <1>1 DEF Inv, RequestsOK, Exclusive, Idle
<1>4. ASSUME NEW s \in Requests PROVE RequestOK(req[s])'
  <2>1. CASE s = r
    BY <1>1, <2>1 DEF RequestOK, Idle
  <2>2. CASE s # r
    <3>1. RequestOK(req[s]) /\ (req[s].step = "inserted" => req[s].id \notin Stored')
      BY <2>2 DEF Inv, RequestsOK
    <3>2. PICK p : p = req[s]
      OBVIOUS
    <3>3. RequestOK(p)'
      BY <3>1, <3>2, RequestStays
    <3>4. p = req'[s]
      BY <1>1, <2>2, <3>2
    <3>5. QED
      BY <3>3, <3>4 DEF RequestOK, NewOK, LabelOK, ReplayOK, Linked
  <2>3. QED
    BY <2>1, <2>2
<1>5. QED
  BY <1>2, <1>3, <1>4 DEF RequestsOK

\* Steps of the requests alone, which tell nothing.
LEMMA Quietly ==
  ASSUME Inv, NEW r \in Requests, NEW q, req' = [req EXCEPT ![r] = q],
         UNCHANGED << traces, crossed, told, strayed >>, RequestOK(q),
         q.step = "inserted" =>
           \A s \in Requests \ {r} : ~(req[s].step = "inserted" /\ req[s].id = q.id)
  PROVE  Inv'
<1>1. RowsOK' /\ RequestsOK' /\ LabelsAreWhole' /\ Grows
  BY OneRequest
<1>2. AnswersAgree'
  BY <1>1, SilenceKeeps
<1>3. QED
  BY <1>1, <1>2 DEF Inv

LEMMA IdleIsOK == RequestOK(Idle) /\ Idle.step # "inserted"
  BY DEF RequestOK, Idle

\* Steps of readers.
LEMMA Reading ==
  ASSUME Inv, UNCHANGED << traces, req, crossed >>
  PROVE  RowsOK' /\ RequestsOK' /\ LabelsAreWhole' /\ Grows
<1>1. RowsOK' /\ LabelsAreWhole' /\ Grows /\ Stored' = Stored
  BY SameTraces
<1>2. ASSUME NEW s \in Requests PROVE RequestOK(req[s])'
  <2>1. RequestOK(req[s])
    BY DEF Inv, RequestsOK
  <2>2. QED
    BY <1>1, <2>1 DEF RequestOK, NewOK, LabelOK, ReplayOK, Linked
<1>3. Exclusive' /\ (req = [r \in Requests |-> req[r]])'
  BY DEF Inv, RequestsOK, Exclusive
<1>4. QED
  BY <1>1, <1>2, <1>3 DEF RequestsOK

LEMMA ReadingTells ==
  ASSUME Inv, UNCHANGED << traces, req, crossed >>,
         NEW scope, NEW ts \in SUBSET Visible(scope), Tell(scope, ts, traces)
  PROVE  Inv'
<1>1. RowsOK' /\ RequestsOK' /\ LabelsAreWhole' /\ Grows
  BY Reading
<1>2. Tell(scope, ts, traces')
  BY DEF Tell
<1>3. \A t \in ts : t \in Stored' /\ InScope(scope, traces'[t].app)
  BY <1>1 DEF Visible, Grows
<1>4. ts \in SUBSET Ids
  BY DEF Visible, Stored
<1>5. AnswersAgree'
  BY <1>1, <1>2, <1>3, <1>4, TellKeeps
<1>6. QED
  BY <1>1, <1>5 DEF Inv

LEMMA ReadingSilently ==
  ASSUME Inv, UNCHANGED << traces, req, crossed, told, strayed >>
  PROVE  Inv'
<1>1. RowsOK' /\ RequestsOK' /\ LabelsAreWhole' /\ Grows
  BY Reading
<1>2. AnswersAgree'
  BY <1>1, SilenceKeeps
<1>3. QED
  BY <1>1, <1>2 DEF Inv

-----------------------------------------------------------------------------
(* Ingestion *)

LEMMA InitInv == Init => Inv
<1>1. Init => Stored = {}
  BY DEF Init, Stored, NoRow
<1>2. Init => RowsOK /\ AnswersAgree /\ LabelsAreWhole
  BY <1>1 DEF Init, RowsOK, AnswersAgree, LabelsAreWhole
<1>3. Init => RequestsOK
  BY IdleIsOK DEF Init, RequestsOK, Exclusive
<1>4. QED
  BY <1>2, <1>3 DEF Inv

LEMMA ResubmitKeeps ==
  ASSUME Inv, NEW r \in Requests, Resubmit(r)
  PROVE  Inv'
<1>1. PICK scope \in Scopes, app \in Apps, t \in Stored :
        InScope(scope, app) /\ SameOwner(traces[t], app) /\ Tell(scope, {t}, traces)
  BY DEF Resubmit
<1>2. {t} \in SUBSET Visible(scope)
  BY <1>1 DEF Visible, SameOwner
<1>3. UNCHANGED << traces, req, crossed >>
  BY DEF Resubmit
<1>4. QED
  BY <1>1, <1>2, <1>3, ReadingTells

LEMMA IngestKeeps ==
  ASSUME Inv, NEW r \in Requests, Ingest(r)
  PROVE  Inv'
<1>1. PICK scope \in Scopes, app \in Apps, t \in Ids \ Stored, content \in Contents :
        /\ InScope(scope, app)
        /\ Begin(r, [op |-> "ingest", step |-> "insert", scope |-> scope, id |-> t,
                     app |-> app, content |-> content])
  BY DEF Ingest
<1> DEFINE q == [op |-> "ingest", step |-> "insert", scope |-> scope, id |-> t,
                 app |-> app, content |-> content]
<1>2. req' = [req EXCEPT ![r] = q]
  BY <1>1 DEF Begin
<1>3. RequestOK(q) /\ q.step # "inserted"
  BY <1>1 DEF RequestOK
<1>4. UNCHANGED << traces, crossed, told, strayed >>
  BY DEF Ingest
<1> HIDE DEF q
<1>5. QED
  BY <1>2, <1>3, <1>4, Quietly

LEMMA InsertKeeps ==
  ASSUME Inv, NEW r \in Requests, Insert(r)
  PROVE  Inv'
<1>1. RequestOK(req[r]) /\ req[r].step = "insert"
  BY DEF Insert, Inv, RequestsOK
<1>2. UNCHANGED << traces, crossed, told, strayed >>
  BY DEF Insert
<1>3. CASE Taken(req[r].id)
  <2>1. req' = [req EXCEPT ![r] = Idle]
    BY <1>3 DEF Insert, End
  <2>2. QED
    BY <1>2, <2>1, IdleIsOK, Quietly
<1>4. CASE ~Taken(req[r].id)
  <2> DEFINE q == [op |-> "ingest", step |-> "inserted", id |-> req[r].id,
                   scope |-> req[r].scope, row |-> NewTrace(req[r].app, req[r].content, NoId, NoId)]
  <2>1. req' = [req EXCEPT ![r] = q]
    BY <1>4 DEF Insert
  <2>2. Whole(q.row) /\ Linked(q.id, q.row) /\ q.row.verdict = NoVerdict
        /\ q.row.tags = {} /\ q.row.app = req[r].app
    BY DEF Whole, Linked, NewTrace
  <2>3. q.step = "inserted" /\ q.id = req[r].id /\ q.scope = req[r].scope
    OBVIOUS
  <2>4. q.id \in Ids \ Stored /\ InScope(q.scope, q.row.app)
    BY <1>1, <1>4, <2>2, <2>3 DEF RequestOK, Taken
  <2>5. \A s \in Requests \ {r} : ~(req[s].step = "inserted" /\ req[s].id = q.id)
    BY <2>3 DEF Insert, Inserting
  <2> HIDE DEF q
  <2>6. RequestOK(q)
    BY <2>2, <2>3, <2>4 DEF RequestOK, NewOK
  <2>7. QED
    BY <1>2, <2>1, <2>5, <2>6, Quietly
<1>5. QED
  BY <1>3, <1>4

LEMMA StoreKeeps ==
  ASSUME Inv, NEW r \in Requests, Store(r)
  PROVE  Inv'
<1> DEFINE u == req[r].id
           row == req[r].row
<1>1. NewOK(req[r]) /\ req[r].step = "inserted"
  BY DEF Store, Inv, RequestsOK, RequestOK
<1>2. u \in Ids \ Stored /\ Whole(row) /\ Linked(u, row)
      /\ row.verdict = NoVerdict /\ row.tags = {} /\ InScope(req[r].scope, row.app)
  BY <1>1 DEF NewOK
<1>3. traces' = [traces EXCEPT ![u] = row]
  BY DEF Store
<1> HIDE DEF u, row
<1>4. traces'[u] = row /\ \A t \in Ids \ {u} : traces'[t] = traces[t]
  BY <1>2, <1>3 DEF Inv, RowsOK
<1>5. Stored' = Stored \cup {u}
  BY <1>2, <1>4 DEF Stored, Whole
<1>6. Grows
  BY <1>2, <1>4, <1>5 DEF Grows, Stored
<1>7. RowsOK'
  <2>1. (traces = [t \in Ids |-> traces[t]])'
    BY <1>3 DEF Inv, RowsOK
  <2>2. ASSUME NEW t \in Stored' PROVE (Whole(traces[t]) /\ Linked(t, traces[t]))'
    <3>1. PICK p : p = traces'[t]
      OBVIOUS
    <3>2. Whole(p) /\ Linked(t, p)
      BY <1>2, <1>4, <1>5, <3>1 DEF Inv, RowsOK, Stored
    <3>3. Linked(t, p)'
      BY <1>6, <3>2, LinkedStays
    <3>4. QED
      BY <3>1, <3>2, <3>3 DEF Whole, Linked
  <2>3. QED
    BY <2>1, <2>2 DEF RowsOK
<1>8. RequestsOK'
  <2>1. End(r)
    BY DEF Store
  <2>2. \A s \in Requests \ {r} : req[s].step = "inserted" => req[s].id \notin Stored'
    BY <1>1, <1>5 DEF Inv, RequestsOK, RequestOK, NewOK, Exclusive, u
  <2>3. QED
    BY <1>6, <2>1, <2>2, Ends
<1>9. LabelsAreWhole'
  BY <1>2, <1>4, <1>5 DEF Store, Inv, LabelsAreWhole, Stored
<1>10. AnswersAgree'
  <2>1. Tell(req[r].scope, {u}, traces')
    BY DEF Store, u
  <2>2. \A t \in {u} : t \in Stored' /\ InScope(req[r].scope, traces'[t].app)
    BY <1>2, <1>4, <1>5
  <2>3. {u} \in SUBSET Ids
    BY <1>2
  <2>4. QED
    BY <1>6, <2>1, <2>2, <2>3, TellKeeps
<1>11. QED
  BY <1>7, <1>8, <1>9, <1>10 DEF Inv

-----------------------------------------------------------------------------
(* Labels *)

LEMMA LabelKeeps ==
  ASSUME Inv, NEW r \in Requests, Label(r)
  PROVE  Inv'
<1>1. UNCHANGED << traces, crossed, told, strayed >>
  BY DEF Label
<1>2. PICK t \in Stored :
        \/ \E v \in Verdicts :
              Begin(r, [op |-> "feedback", step |-> "label", id |-> t, new |-> v,
                        read |-> traces[t].verdict])
        \/ \E tags \in TagSets :
              Begin(r, [op |-> "tags", step |-> "label", id |-> t, new |-> tags,
                        read |-> traces[t].tags])
  BY DEF Label, Visible
<1>3. ASSUME NEW v \in Verdicts,
             Begin(r, [op |-> "feedback", step |-> "label", id |-> t, new |-> v,
                       read |-> traces[t].verdict])
      PROVE  Inv'
  <2> DEFINE q == [op |-> "feedback", step |-> "label", id |-> t, new |-> v,
                   read |-> traces[t].verdict]
  <2>1. req' = [req EXCEPT ![r] = q]
    BY <1>3 DEF Begin
  <2>2. RequestOK(q) /\ q.step # "inserted"
    BY DEF RequestOK, LabelOK
  <2> HIDE DEF q
  <2>3. QED
    BY <1>1, <2>1, <2>2, Quietly
<1>4. ASSUME NEW tags \in TagSets,
             Begin(r, [op |-> "tags", step |-> "label", id |-> t, new |-> tags,
                       read |-> traces[t].tags])
      PROVE  Inv'
  <2> DEFINE q == [op |-> "tags", step |-> "label", id |-> t, new |-> tags,
                   read |-> traces[t].tags]
  <2>1. req' = [req EXCEPT ![r] = q]
    BY <1>4 DEF Begin
  <2>2. RequestOK(q) /\ q.step # "inserted"
    BY DEF RequestOK, LabelOK
  <2> HIDE DEF q
  <2>3. QED
    BY <1>1, <2>1, <2>2, Quietly
<1>5. QED
  BY <1>2, <1>3, <1>4

\* What a new verdict and new tags leave of a row.
SameButLabels(row, old) ==
    /\ Whole(row) /\ row.app = old.app /\ row.content = old.content
    /\ row.arm = old.arm /\ row.replayOf = old.replayOf

LEMMA NewVerdict ==
  ASSUME NEW old, Whole(old), NEW v
  PROVE  /\ SameButLabels([old EXCEPT !.verdict = v], old)
         /\ [old EXCEPT !.verdict = v].verdict = v
         /\ [old EXCEPT !.verdict = v].tags = old.tags
<1>1. PICK new : new = [old EXCEPT !.verdict = v]
  OBVIOUS
<1>2. new = [stored |-> TRUE, app |-> old.app, content |-> old.content,
              verdict |-> v, tags |-> old.tags,
              arm |-> old.arm, replayOf |-> old.replayOf]
  BY <1>1 DEF Whole
<1>3. SameButLabels(new, old) /\ new.verdict = v /\ new.tags = old.tags
  BY <1>2 DEF Whole, SameButLabels
<1>4. QED
  BY <1>1, <1>3

LEMMA NewTags ==
  ASSUME NEW old, Whole(old), NEW v
  PROVE  /\ SameButLabels([old EXCEPT !.tags = v], old)
         /\ [old EXCEPT !.tags = v].tags = v
         /\ [old EXCEPT !.tags = v].verdict = old.verdict
<1>1. PICK new : new = [old EXCEPT !.tags = v]
  OBVIOUS
<1>2. new = [stored |-> TRUE, app |-> old.app, content |-> old.content,
              verdict |-> old.verdict, tags |-> v,
              arm |-> old.arm, replayOf |-> old.replayOf]
  BY <1>1 DEF Whole
<1>3. SameButLabels(new, old) /\ new.tags = v /\ new.verdict = old.verdict
  BY <1>2 DEF Whole, SameButLabels
<1>4. QED
  BY <1>1, <1>3

\* A row that changes in its labels only.
LEMMA Relabelled ==
  ASSUME Inv, NEW t \in Stored, NEW row, traces' = [traces EXCEPT ![t] = row],
         SameButLabels(row, traces[t])
  PROVE  /\ Grows /\ Stored' = Stored /\ RowsOK'
         /\ traces'[t] = row /\ \A s \in Ids \ {t} : traces'[s] = traces[s]
<1>1. traces'[t] = row /\ \A s \in Ids \ {t} : traces'[s] = traces[s]
  BY DEF Inv, RowsOK, Stored
<1>2. Stored' = Stored
  BY <1>1 DEF Stored, Whole, SameButLabels
<1>3. Grows
  BY <1>1, <1>2 DEF Grows, Stored, SameButLabels
<1>4. (traces = [s \in Ids |-> traces[s]])'
  BY DEF Inv, RowsOK
<1>5. ASSUME NEW s \in Stored' PROVE (Whole(traces[s]) /\ Linked(s, traces[s]))'
  <2>1. PICK p : p = traces'[s]
    OBVIOUS
  <2>2. Whole(traces[s]) /\ Linked(s, traces[s]) /\ s \in Ids
    BY <1>2 DEF Inv, RowsOK, Stored
  <2>3. Whole(p)
    BY <1>1, <2>1, <2>2 DEF SameButLabels
  <2>4. Linked(s, p)
    BY <1>1, <2>1, <2>2 DEF Linked, SameButLabels
  <2>5. Linked(s, p)'
    BY <1>3, <2>4, LinkedStays
  <2>6. QED
    BY <2>1, <2>3, <2>5 DEF Whole, Linked
<1>6. QED
  BY <1>1, <1>2, <1>3, <1>4, <1>5 DEF RowsOK

\* Whoever ends a request about a trace that is stored troubles no other.
LEMMA LabelEnds ==
  ASSUME Inv, NEW r \in Requests, End(r), Grows, Stored' = Stored
  PROVE  RequestsOK'
<1>1. \A s \in Requests \ {r} : req[s].step = "inserted" => req[s].id \notin Stored'
  BY DEF Inv, RequestsOK, RequestOK, NewOK
<1>2. QED
  BY <1>1, Ends

LEMMA CorrectionIsWhole ==
  ASSUME NEW v \in Verdicts, NEW read
  PROVE  Corrected(read, read, v) = v
  BY TraceAssumption DEF Corrected

LEMMA ReviewKeeps ==
  ASSUME Inv, NEW r \in Requests, Review(r)
  PROVE  Inv'
<1> DEFINE t == req[r].id
           stored == traces[t].verdict
           first == req[r].read = NoVerdict
<1>1. t \in Stored /\ req[r].new \in Verdicts
  BY DEF Review, Inv, RequestsOK, RequestOK, LabelOK
<1>2. End(r) /\ UNCHANGED << told, strayed >>
  BY DEF Review
<1>3. CASE first /\ stored # NoVerdict
  <2>1. UNCHANGED << traces, crossed >>
    BY <1>3 DEF Review
  <2>2. req' = [req EXCEPT ![r] = Idle]
    BY <1>2 DEF End
  <2>3. QED
    BY <1>2, <2>1, <2>2, IdleIsOK, Quietly
<1>4. CASE ~(first /\ stored # NoVerdict)
  <2> DEFINE v == IF first THEN req[r].new ELSE Corrected(stored, req[r].read, req[r].new)
             row == [traces[t] EXCEPT !.verdict = v]
  <2>1. /\ traces' = [traces EXCEPT ![t] = row]
        /\ crossed' = IF req[r].read # stored THEN crossed \cup {t} ELSE crossed
    BY <1>4 DEF Review
  <2>2. Whole(traces[t])
    BY <1>1 DEF Inv, RowsOK
  <2>3. SameButLabels(row, traces[t]) /\ row.verdict = v /\ row.tags = traces[t].tags
    <3> HIDE DEF v
    <3>1. QED
      BY <2>2, NewVerdict
  <2>4. req[r].read = stored => v \in Verdicts
    BY <1>1, CorrectionIsWhole
  <2> HIDE DEF row, v
  <2>5. /\ Grows /\ Stored' = Stored /\ RowsOK'
        /\ traces'[t] = row /\ \A s \in Ids \ {t} : traces'[s] = traces[s]
    BY <1>1, <2>1, <2>3, Relabelled
  <2>6. LabelsAreWhole'
    <3>1. t \notin crossed' => v \in Verdicts
      BY <2>1, <2>4
    <3>2. crossed \subseteq crossed'
      BY <2>1
    <3>3. QED
      BY <1>1, <2>3, <2>5, <3>1, <3>2 DEF Inv, LabelsAreWhole, Stored
  <2>7. RequestsOK'
    BY <1>2, <2>5, LabelEnds
  <2>8. AnswersAgree'
    BY <1>2, <2>5, SilenceKeeps
  <2>9. QED
    BY <2>5, <2>6, <2>7, <2>8 DEF Inv
<1>5. QED
  BY <1>3, <1>4

LEMMA TagKeeps ==
  ASSUME Inv, NEW r \in Requests, Tag(r)
  PROVE  Inv'
<1> DEFINE t == req[r].id
           tags == IF req[r].new = req[r].read THEN traces[t].tags ELSE req[r].new
           row == [traces[t] EXCEPT !.tags = tags]
<1>1. t \in Stored /\ req[r].new \in TagSets
  BY DEF Tag, Inv, RequestsOK, RequestOK, LabelOK
<1>2. End(r) /\ UNCHANGED << told, strayed, crossed >>
  BY DEF Tag
<1>3. traces' = [traces EXCEPT ![t] = row]
  BY DEF Tag
<1>4. Whole(traces[t]) /\ traces[t].tags \in TagSets \cup {{}}
  BY <1>1 DEF Inv, RowsOK, LabelsAreWhole
<1>5. tags \in TagSets \cup {{}}
  BY <1>1, <1>4
<1>6. /\ SameButLabels(row, traces[t])
      /\ row.verdict = traces[t].verdict /\ row.tags = tags
  <2> HIDE DEF tags
  <2>1. QED
    BY <1>4, NewTags
<1> HIDE DEF row, tags
<1>7. /\ Grows /\ Stored' = Stored /\ RowsOK'
      /\ traces'[t] = row /\ \A s \in Ids \ {t} : traces'[s] = traces[s]
  BY <1>1, <1>3, <1>6, Relabelled
<1>8. LabelsAreWhole'
  BY <1>1, <1>2, <1>5, <1>6, <1>7 DEF Inv, LabelsAreWhole, Stored
<1>9. RequestsOK'
  BY <1>2, <1>7, LabelEnds
<1>10. AnswersAgree'
  BY <1>2, <1>7, SilenceKeeps
<1>11. QED
  BY <1>7, <1>8, <1>9, <1>10 DEF Inv

-----------------------------------------------------------------------------
(* Replays, failures and readers *)

LEMMA ReplayKeeps ==
  ASSUME Inv, NEW r \in Requests, Replay(r)
  PROVE  Inv'
<1>1. PICK scope \in Scopes : \E t \in Visible(scope) :
        Begin(r, [op |-> "replay", step |-> "generate", scope |-> scope, id |-> t,
                  original |-> traces[t]])
  BY DEF Replay
<1>2. PICK t \in Visible(scope) :
        Begin(r, [op |-> "replay", step |-> "generate", scope |-> scope, id |-> t,
                  original |-> traces[t]])
  BY <1>1
<1> DEFINE q == [op |-> "replay", step |-> "generate", scope |-> scope, id |-> t,
                 original |-> traces[t]]
<1>3. req' = [req EXCEPT ![r] = q]
  BY <1>2 DEF Begin
<1>4. RequestOK(q) /\ q.step # "inserted"
  BY DEF RequestOK, ReplayOK, Visible
<1>5. UNCHANGED << traces, crossed, told, strayed >>
  BY DEF Replay
<1> HIDE DEF q
<1>6. QED
  BY <1>3, <1>4, <1>5, Quietly

LEMMA GenerateKeeps ==
  ASSUME Inv, NEW r \in Requests, Generate(r)
  PROVE  Inv'
<1>1. ReplayOK(req[r])
  BY DEF Generate, Inv, RequestsOK, RequestOK
<1>2. UNCHANGED << traces, crossed, told, strayed >>
  BY DEF Generate
<1> DEFINE Row(new, inRollout) ==
             NewTrace(req[r].original.app, req[r].original.content,
                      IF inRollout THEN new ELSE InheritedArm(req[r].original), req[r].id)
           Replayed(new, inRollout) ==
             [op |-> "replay", step |-> "inserted", scope |-> req[r].scope, id |-> new,
              row |-> Row(new, inRollout)]
<1>3. PICK new \in Ids \ Stored, inRollout \in BOOLEAN :
        /\ Inserting(new) = {}
        /\ req' = [req EXCEPT ![r] = Replayed(new, inRollout)]
  BY DEF Generate
<1> DEFINE row == Row(new, inRollout)
           q == Replayed(new, inRollout)
<1>4. row = [stored |-> TRUE, app |-> req[r].original.app, content |-> req[r].original.content,
             verdict |-> NoVerdict, tags |-> {},
             arm |-> IF inRollout THEN new ELSE InheritedArm(req[r].original),
             replayOf |-> req[r].id]
  BY DEF NewTrace
<1>5. q.step = "inserted" /\ q.id = new /\ q.scope = req[r].scope /\ q.row = row
  OBVIOUS
<1>6. req' = [req EXCEPT ![r] = q]
  BY <1>3
<1> HIDE DEF row, q, Row, Replayed
<1>7. /\ row.app = req[r].original.app /\ row.content = req[r].original.content
      /\ row.verdict = NoVerdict /\ row.tags = {} /\ row.arm \in {NoId, new}
      /\ row.replayOf = req[r].id
  BY <1>4 DEF InheritedArm
<1>8. Whole(row)
  BY <1>4 DEF Whole
<1>9. Linked(new, row)
  BY <1>1, <1>3, <1>7 DEF Linked, ReplayOK
<1>10. RequestOK(q)
  BY <1>1, <1>3, <1>5, <1>7, <1>8, <1>9 DEF RequestOK, NewOK, ReplayOK
<1>11. \A s \in Requests \ {r} : ~(req[s].step = "inserted" /\ req[s].id = q.id)
  BY <1>3, <1>5 DEF Inserting
<1>12. QED
  BY <1>2, <1>6, <1>10, <1>11, Quietly

LEMMA AbortKeeps ==
  ASSUME Inv, NEW r \in Requests, Abort(r)
  PROVE  Inv'
<1>1. UNCHANGED << traces, crossed, told, strayed >> /\ req' = [req EXCEPT ![r] = Idle]
  BY DEF Abort, End
<1>2. QED
  BY <1>1, IdleIsOK, Quietly

LEMMA GetKeeps ==
  ASSUME Inv, NEW scope, Get(scope)
  PROVE  Inv'
<1>1. PICK t \in Visible(scope) : Tell(scope, {t}, traces)
  BY DEF Get
<1>2. UNCHANGED << traces, req, crossed >>
  BY DEF Get
<1>3. QED
  BY <1>1, <1>2, ReadingTells

LEMMA ExportKeeps ==
  ASSUME Inv, NEW scope, Export(scope)
  PROVE  Inv'
<1>1. PICK filter \in Filters : Tell(scope, Cut(Found(scope, filter), ExportCap, 0), traces)
  BY DEF Export
<1>2. Cut(Found(scope, filter), ExportCap, 0) \in SUBSET Visible(scope)
  BY DEF Cut, Found
<1>3. UNCHANGED << traces, req, crossed >>
  BY DEF Export
<1>4. QED
  BY <1>1, <1>2, <1>3, ReadingTells

LEMMA PagesKeep ==
  ASSUME Inv, StartWalk \/ NextPage
  PROVE  Inv'
<1>1. UNCHANGED << traces, req, crossed, told, strayed >>
  BY DEF StartWalk, NextPage
<1>2. QED
  BY <1>1, ReadingSilently

LEMMA NextKeeps ==
  ASSUME Inv, [Next]_vars
  PROVE  Inv'
<1>1. ASSUME NEW r \in Requests,
             \/ Resubmit(r) \/ Ingest(r) \/ Insert(r) \/ Store(r)
             \/ Label(r) \/ Review(r) \/ Tag(r)
             \/ Replay(r) \/ Generate(r) \/ Abort(r)
      PROVE  Inv'
  BY <1>1, ResubmitKeeps, IngestKeeps, InsertKeeps, StoreKeeps, LabelKeeps, ReviewKeeps,
     TagKeeps, ReplayKeeps, GenerateKeeps, AbortKeeps
<1>2. ASSUME NEW scope \in Scopes, Get(scope) \/ Export(scope)
      PROVE  Inv'
  BY <1>2, GetKeeps, ExportKeeps
<1>3. CASE UNCHANGED vars
  BY <1>3, ReadingSilently DEF vars
<1>4. QED
  BY <1>1, <1>2, <1>3, PagesKeep DEF Next

THEOREM Invariant == Spec => []Inv
<1>1. Init => Inv
  BY InitInv
<1>2. Inv /\ [Next]_vars => Inv'
  BY NextKeeps
<1>3. QED
  BY <1>1, <1>2, PTL DEF Spec

-----------------------------------------------------------------------------
(* Places in a list *)

\* In o, no id comes twice.
Distinct(o) == \A i, j \in DOMAIN o : o[i] = o[j] => i = j

\* u was inserted after t.
Follows(o, t, u) == \E i, j \in DOMAIN o : i < j /\ o[i] = t /\ o[j] = u

\* What a list of ids shows before t.
Before(o, t, ids) == { u \in ids : Follows(o, t, u) }

LEMMA Smallest ==
  ASSUME NEW P \in SUBSET Nat, P # {}
  PROVE  \E n \in P : \A m \in P : n <= m
<1>1. PICK n \in P : \A m \in P : ~(<< m, n >> \in OpToRel(<, Nat))
  BY WFMin, NatLessThanWellFounded
<1>2. \A m \in P : ~(m < n)
  BY <1>1 DEF OpToRel
<1>3. QED
  BY <1>2

LEMMA Largest ==
  ASSUME NEW n \in Nat, NEW P \in SUBSET 1..n, P # {}
  PROVE  \E i \in P : \A j \in P : j <= i
<1> DEFINE Q == { k \in Nat : n - k \in P }
<1>1. PICK p \in P : TRUE
  OBVIOUS
<1>2. n - p \in Q
  BY <1>1
<1>3. PICK k \in Q : \A m \in Q : k <= m
  <2> HIDE DEF Q
  <2>1. Q \in SUBSET Nat /\ Q # {}
    BY <1>2 DEF Q
  <2>2. QED
    BY <2>1, Smallest
<1>4. ASSUME NEW j \in P PROVE j <= n - k
  <2>1. n - j \in Q
    OBVIOUS
  <2>2. k <= n - j
    BY <1>3, <2>1
  <2>3. j \in Nat /\ k \in Nat
    OBVIOUS
  <2>4. QED
    BY <2>2, <2>3
<1>5. QED
  BY <1>3, <1>4

LEMMA BeforeIsFinite ==
  ASSUME NEW o \in Seq(Ids), NEW t, NEW ids
  PROVE  IsFiniteSet(Before(o, t, ids)) /\ Cardinality(Before(o, t, ids)) \in Nat
<1> DEFINE range == { o[i] : i \in 1..Len(o) }
<1>1. IsFiniteSet(1..Len(o)) /\ o \in [1..Len(o) -> Ids]
  BY FS_Interval, LenProperties
<1>2. IsFiniteSet(range)
  <2>1. o \in Surjection(1..Len(o), range)
    BY <1>1 DEF Surjection
  <2> HIDE DEF range
  <2>2. QED
    BY <1>1, <2>1, FS_Surjection
<1>3. Before(o, t, ids) \subseteq range
  BY LenProperties DEF Before, Follows
<1> HIDE DEF range
<1>4. QED
  BY <1>2, <1>3, FS_Subset, FS_CardinalityType

\* Whatever more a list shows, and however it changes, as long as it keeps the
\* order: nothing moves to the front.
LEMMA MovesBack ==
  ASSUME NEW o \in Seq(Ids), NEW p \in Seq(Ids), NEW t, NEW old, NEW new, old \subseteq new,
         \A u \in old : Follows(o, t, u) => Follows(p, t, u)
  PROVE  Cardinality(Before(o, t, old)) <= Cardinality(Before(p, t, new))
<1>1. Before(o, t, old) \in SUBSET Before(p, t, new)
  BY DEF Before
<1>2. QED
  BY <1>1, BeforeIsFinite, FS_Subset

\* The next place towards the front is taken.
LEMMA NextInFront ==
  ASSUME NEW o \in Seq(Ids), Distinct(o), NEW ids, NEW i \in DOMAIN o, o[i] \in ids,
         Cardinality(Before(o, o[i], ids)) # 0
  PROVE  \E j \in DOMAIN o : /\ i < j /\ o[j] \in ids
                             /\ Cardinality(Before(o, o[i], ids))
                                  = Cardinality(Before(o, o[j], ids)) + 1
<1> DEFINE P == { j \in DOMAIN o : i < j /\ o[j] \in ids }
<1>1. DOMAIN o = 1..Len(o) /\ Len(o) \in Nat
  BY LenProperties
<1>2. P # {}
  <2>1. Before(o, o[i], ids) # {}
    BY FS_EmptySet
  <2>2. PICK u \in ids : Follows(o, o[i], u)
    BY <2>1 DEF Before
  <2>3. QED
    BY <1>1, <2>2 DEF Follows, Distinct
<1>3. PICK j \in P : \A k \in P : j <= k
  <2>1. P \in SUBSET Nat
    BY <1>1
  <2> HIDE DEF P
  <2>2. QED
    BY <1>2, <2>1, Smallest
<1>4. Before(o, o[i], ids) = Before(o, o[j], ids) \cup {o[j]}
  <2>1. ASSUME NEW u \in ids, Follows(o, o[i], u), u # o[j] PROVE Follows(o, o[j], u)
    <3>1. PICK k \in DOMAIN o : i < k /\ o[k] = u
      BY <2>1 DEF Follows, Distinct
    <3>2. j < k
      BY <1>1, <1>3, <2>1, <3>1
    <3>3. QED
      BY <1>1, <1>3, <3>1, <3>2 DEF Follows
  <2>2. ASSUME NEW u \in ids, Follows(o, o[j], u) PROVE Follows(o, o[i], u)
    <3>1. PICK k \in DOMAIN o : j < k /\ o[k] = u
      BY <2>2, <1>3 DEF Follows, Distinct
    <3>2. i < k
      BY <1>1, <1>3, <3>1
    <3>3. QED
      BY <1>1, <3>1, <3>2 DEF Follows
  <2>3. Follows(o, o[i], o[j]) /\ o[j] \in ids
    BY <1>1, <1>3 DEF Follows
  <2>4. QED
    BY <2>1, <2>2, <2>3 DEF Before
<1>5. o[j] \notin Before(o, o[j], ids)
  BY <1>1 DEF Before, Follows, Distinct
<1>6. Cardinality(Before(o, o[i], ids)) = Cardinality(Before(o, o[j], ids)) + 1
  BY <1>4, <1>5, BeforeIsFinite, FS_AddElement
<1>7. QED
  BY <1>3, <1>6

\* A list has no gaps: if something is behind a place, something is at it.
LEMMA NoGap ==
  ASSUME NEW o \in Seq(Ids), Distinct(o), NEW ids, NEW t \in ids,
         \E i \in DOMAIN o : o[i] = t,
         NEW k \in Nat, k <= Cardinality(Before(o, t, ids))
  PROVE  \E u \in ids : Cardinality(Before(o, u, ids)) = k
<1> DEFINE P == { i \in DOMAIN o : o[i] \in ids /\ k <= Cardinality(Before(o, o[i], ids)) }
<1>1. DOMAIN o = 1..Len(o) /\ Len(o) \in Nat
  BY LenProperties
<1>2. P # {}
  OBVIOUS
<1>3. PICK i \in P : \A j \in P : j <= i
  <2>1. P \in SUBSET 1..Len(o)
    BY <1>1
  <2> HIDE DEF P
  <2>2. QED
    BY <1>1, <1>2, <2>1, Largest
<1>4. Cardinality(Before(o, o[i], ids)) \in Nat
  BY BeforeIsFinite
<1>5. CASE Cardinality(Before(o, o[i], ids)) = k
  BY <1>3, <1>5
<1>6. CASE Cardinality(Before(o, o[i], ids)) # k
  <2>1. PICK j \in DOMAIN o : /\ i < j /\ o[j] \in ids
                              /\ Cardinality(Before(o, o[i], ids))
                                   = Cardinality(Before(o, o[j], ids)) + 1
    BY <1>3, <1>4, <1>6, NextInFront
  <2>2. Cardinality(Before(o, o[j], ids)) \in Nat
    BY BeforeIsFinite
  <2>3. j \in P
    BY <1>3, <1>4, <1>6, <2>1, <2>2
  <2>4. QED
    BY <1>1, <1>3, <2>1, <2>3
<1>7. QED
  BY <1>5, <1>6

\* New ids come last,
LEMMA Appended ==
  ASSUME NEW o \in Seq(Ids), Distinct(o), NEW new \in Ids, \A i \in DOMAIN o : o[i] # new
  PROVE  LET p == Append(o, new) IN
         /\ p \in Seq(Ids) /\ Distinct(p)
         /\ \A t : (\E i \in DOMAIN p : p[i] = t) <=> t = new \/ (\E i \in DOMAIN o : o[i] = t)
         /\ \A t, u : Follows(o, t, u) => Follows(p, t, u)
<1> DEFINE p == Append(o, new)
<1>1. p \in Seq(Ids) /\ Len(p) = Len(o) + 1 /\ DOMAIN p = 1..(Len(o) + 1)
  BY AppendProperties, LenProperties
<1>2. \A i \in 1..Len(o) : p[i] = o[i]
  BY AppendProperties
<1>3. p[Len(o) + 1] = new
  BY AppendProperties
<1>4. DOMAIN o = 1..Len(o) /\ Len(o) \in Nat
  BY LenProperties
<1> HIDE DEF p
<1>5. Distinct(p)
  BY <1>1, <1>2, <1>3, <1>4 DEF Distinct
<1>6. \A t : (\E i \in DOMAIN p : p[i] = t) <=> t = new \/ (\E i \in DOMAIN o : o[i] = t)
  BY <1>1, <1>2, <1>3, <1>4
<1>7. \A t, u : Follows(o, t, u) => Follows(p, t, u)
  BY <1>1, <1>2, <1>4 DEF Follows
<1>8. QED
  BY <1>1, <1>5, <1>6, <1>7 DEF p

\* and who leaves keeps the others in order.
LEMMA TakenOut ==
  ASSUME NEW o \in Seq(Ids), Distinct(o), NEW i \in DOMAIN o
  PROVE  LET p == RemoveAt(o, i) IN
         /\ p \in Seq(Ids) /\ Distinct(p)
         /\ \A t : (\E j \in DOMAIN p : p[j] = t) <=> t # o[i] /\ (\E j \in DOMAIN o : o[j] = t)
         /\ \A t, u : t # o[i] /\ u # o[i] /\ Follows(o, t, u) => Follows(p, t, u)
<1> DEFINE p == RemoveAt(o, i)
           a == SubSeq(o, 1, i - 1)
           b == SubSeq(o, i + 1, Len(o))
<1>1. DOMAIN o = 1..Len(o) /\ Len(o) \in Nat /\ \A j \in 1..Len(o) : o[j] \in Ids
  BY LenProperties
<1>2. a \in Seq(Ids) /\ Len(a) = i - 1 /\ \A j \in 1..(i - 1) : a[j] = o[j]
  BY <1>1, SubSeqProperties
<1>3. b \in Seq(Ids) /\ Len(b) = Len(o) - i /\ \A j \in 1..(Len(o) - i) : b[j] = o[i + j]
  <2>1. \A j \in (i + 1)..Len(o) : o[j] \in Ids
    BY <1>1
  <2>2. /\ b \in Seq(Ids)
        /\ Len(b) = IF i + 1 <= Len(o) THEN Len(o) - (i + 1) + 1 ELSE 0
        /\ \A j \in 1..(Len(o) - (i + 1) + 1) : b[j] = o[(i + 1) + j - 1]
    BY <1>1, <2>1, SubSeqProperties
  <2> HIDE DEF a, b, p
  <2>3. i \in Int /\ i <= Len(o) /\ Len(o) - (i + 1) + 1 = Len(o) - i
    BY <1>1
  <2>4. Len(b) = Len(o) - i
    BY <1>1, <2>2, <2>3
  <2>5. ASSUME NEW j \in 1..(Len(o) - i) PROVE b[j] = o[i + j]
    <3>1. j \in 1..(Len(o) - (i + 1) + 1) /\ (i + 1) + j - 1 = i + j
      BY <1>1, <2>3
    <3>2. QED
      BY <2>2, <3>1
  <2>6. QED
    BY <2>2, <2>4, <2>5
<1>4. p = a \o b
  BY DEF RemoveAt
<1> HIDE DEF p, a, b
<1>5. /\ p \in Seq(Ids) /\ Len(p) = Len(a) + Len(b)
      /\ \A j \in 1..(Len(a) + Len(b)) : p[j] = IF j <= Len(a) THEN a[j] ELSE b[j - Len(a)]
  BY <1>2, <1>3, <1>4, ConcatProperties
<1>6. /\ p \in Seq(Ids) /\ DOMAIN p = 1..(Len(o) - 1)
      /\ \A j \in 1..(Len(o) - 1) : p[j] = IF j < i THEN o[j] ELSE o[j + 1]
  <2>1. Len(p) = Len(o) - 1 /\ DOMAIN p = 1..(Len(o) - 1)
    BY <1>1, <1>2, <1>3, <1>5, LenProperties
  <2>2. ASSUME NEW j \in 1..(Len(o) - 1) PROVE p[j] = IF j < i THEN o[j] ELSE o[j + 1]
    <3>1. CASE j < i
      BY <1>1, <1>2, <1>3, <1>5, <3>1
    <3>2. CASE j >= i
      <4>1. j - (i - 1) \in 1..(Len(o) - i) /\ i + (j - (i - 1)) = j + 1
        BY <1>1, <3>2
      <4>2. p[j] = b[j - (i - 1)]
        BY <1>1, <1>2, <1>3, <1>5, <3>2
      <4>3. QED
        BY <1>1, <1>3, <3>2, <4>1, <4>2
    <3>3. QED
      BY <1>1, <3>1, <3>2
  <2>3. QED
    BY <1>5, <2>1, <2>2
<1>7. Distinct(p)
  BY <1>1, <1>6 DEF Distinct
<1>8. \A t : (\E j \in DOMAIN p : p[j] = t) <=> t # o[i] /\ (\E j \in DOMAIN o : o[j] = t)
  <2>1. ASSUME NEW j \in DOMAIN p
        PROVE  p[j] # o[i] /\ \E k \in DOMAIN o : o[k] = p[j]
    BY <1>1, <1>6 DEF Distinct
  <2>2. ASSUME NEW j \in DOMAIN o, o[j] # o[i]
        PROVE  \E k \in DOMAIN p : p[k] = o[j]
    <3>1. CASE j < i
      BY <1>1, <1>6, <3>1
    <3>2. CASE j > i
      <4>1. j - 1 \in DOMAIN p /\ p[j - 1] = o[j]
        BY <1>1, <1>6, <3>2
      <4>2. QED
        BY <4>1
    <3>3. QED
      BY <1>1, <2>2, <3>1, <3>2
  <2>3. QED
    BY <2>1, <2>2
<1>9. ASSUME NEW t, NEW u, t # o[i], u # o[i], Follows(o, t, u) PROVE Follows(p, t, u)
  <2>1. PICK j \in DOMAIN o, k \in DOMAIN o : j < k /\ o[j] = t /\ o[k] = u
    BY <1>9 DEF Follows
  <2> DEFINE At(n) == IF n < i THEN n ELSE n - 1
  <2>2. j # i /\ k # i
    BY <1>9, <2>1
  <2>3. At(j) \in DOMAIN p /\ At(k) \in DOMAIN p /\ At(j) < At(k)
    BY <1>1, <1>6, <2>1, <2>2
  <2>4. p[At(j)] = t
    BY <1>1, <1>6, <2>1, <2>2
  <2>5. p[At(k)] = u
    BY <1>1, <1>6, <2>1, <2>2
  <2> HIDE DEF At
  <2>6. QED
    BY <2>3, <2>4, <2>5 DEF Follows
<1>10. QED
  BY <1>6, <1>7, <1>8, <1>9 DEF p

-----------------------------------------------------------------------------
(* Pages *)

Pending == { t \in Ids : Inserting(t) # {} }

\* The list holds what is stored or inserted, each id once.
OrderOK ==
    /\ order \in Seq(Ids)
    /\ Distinct(order)
    /\ \A t : (\E i \in DOMAIN order : order[i] = t) <=> t \in Stored \cup Pending

\* What the walk w has not seen of the list found is still ahead of it.
OnCourse(w, o, found) ==
    /\ w.offset \in Nat
    /\ w.start \subseteq found
    /\ \A t \in w.start \ w.seen : w.offset <= Cardinality(Before(o, t, found))

WalkOK ==
    /\ walk.step \in {"idle", "walking", "done"}
    /\ walk.step = "walking" =>
         /\ walk = [step |-> "walking", scope |-> walk.scope, filter |-> walk.filter,
                    offset |-> walk.offset, seen |-> walk.seen, start |-> walk.start]
         /\ walk.filter \in Filters
         /\ OnCourse(walk, order, Found(walk.scope, walk.filter))
    /\ walk.step = "done" => walk.start \subseteq walk.seen

PagesInv == Inv /\ OrderOK /\ WalkOK

\* The stored traces keep their order.
KeepsOrder == \A t, u \in Stored : Follows(order, t, u) => Follows(order', t, u)

LEMMA StepGrows ==
  ASSUME Inv, Next
  PROVE  Grows
<1>1. CASE UNCHANGED traces
  BY <1>1 DEF Grows, Stored
<1>2. ASSUME NEW r \in Requests, Store(r) PROVE Grows
  <2>1. req[r].id \notin Stored /\ traces' = [traces EXCEPT ![req[r].id] = req[r].row]
    BY <1>2 DEF Store, Inv, RequestsOK, RequestOK, NewOK
  <2>2. \A t \in Stored : traces'[t] = traces[t]
    BY <2>1 DEF Inv, RowsOK, Stored
  <2>3. QED
    BY <2>2 DEF Grows, Stored
<1>3. ASSUME NEW r \in Requests, NEW row, req[r].id \in Stored,
             traces' = [traces EXCEPT ![req[r].id] = row], SameButLabels(row, traces[req[r].id])
      PROVE  Grows
  BY <1>3, Relabelled
<1>4. ASSUME NEW r \in Requests, Review(r), traces' # traces PROVE Grows
  <2> DEFINE v == IF req[r].read = NoVerdict THEN req[r].new
                  ELSE Corrected(traces[req[r].id].verdict, req[r].read, req[r].new)
  <2>1. req[r].id \in Stored /\ Whole(traces[req[r].id])
    BY <1>4 DEF Review, Inv, RequestsOK, RequestOK, LabelOK, RowsOK
  <2>2. traces' = [traces EXCEPT ![req[r].id] = [traces[req[r].id] EXCEPT !.verdict = v]]
    BY <1>4 DEF Review
  <2> HIDE DEF v
  <2>3. QED
    BY <1>3, <2>1, <2>2, NewVerdict
<1>5. ASSUME NEW r \in Requests, Tag(r) PROVE Grows
  <2> DEFINE v == IF req[r].new = req[r].read THEN traces[req[r].id].tags ELSE req[r].new
  <2>1. req[r].id \in Stored /\ Whole(traces[req[r].id])
    BY <1>5 DEF Tag, Inv, RequestsOK, RequestOK, LabelOK, RowsOK
  <2>2. traces' = [traces EXCEPT ![req[r].id] = [traces[req[r].id] EXCEPT !.tags = v]]
    BY <1>5 DEF Tag
  <2> HIDE DEF v
  <2>3. QED
    BY <1>3, <2>1, <2>2, NewTags
<1>6. QED
  BY <1>1, <1>2, <1>4, <1>5
     DEF Next, Resubmit, Ingest, Insert, Label, Replay, Generate, Abort, Get, Export,
         StartWalk, NextPage

LEMMA OrderStays ==
  ASSUME Inv, OrderOK, UNCHANGED order, Stored' \cup Pending' = Stored \cup Pending
  PROVE  OrderOK' /\ KeepsOrder
  BY DEF OrderOK, KeepsOrder

LEMMA NewestIsLast ==
  ASSUME Inv, OrderOK, NEW new \in Ids \ (Stored \cup Pending), order' = Append(order, new),
         Stored' \cup Pending' = Stored \cup Pending \cup {new}
  PROVE  OrderOK' /\ KeepsOrder
<1>1. \A i \in DOMAIN order : order[i] # new
  BY DEF OrderOK
<1>2. order \in Seq(Ids) /\ Distinct(order)
  BY DEF OrderOK
<1>3. /\ order' \in Seq(Ids) /\ Distinct(order')
      /\ \A t : (\E i \in DOMAIN order' : order'[i] = t)
                  <=> t = new \/ (\E i \in DOMAIN order : order[i] = t)
      /\ \A t, u : Follows(order, t, u) => Follows(order', t, u)
  BY <1>1, <1>2, Appended
<1>4. OrderOK'
  BY <1>3 DEF OrderOK, Distinct
<1>5. QED
  BY <1>3, <1>4 DEF KeepsOrder

\* What a request that goes from one step to another does to the unique index.
LEMMA PendingMoves ==
  ASSUME Inv, NEW r \in Requests, NEW q, req' = [req EXCEPT ![r] = q]
  PROVE  /\ req[r].step # "inserted" /\ q.step # "inserted" => Pending' = Pending
         /\ req[r].step # "inserted" /\ q.step = "inserted" /\ q.id \in Ids
              => Pending' = Pending \cup {q.id}
         /\ req[r].step = "inserted" /\ q.step # "inserted"
              => Pending' = Pending \ {req[r].id} /\ req[r].id \in Pending
<1>1. req'[r] = q /\ \A s \in Requests \ {r} : req'[s] = req[s]
  BY DEF Inv, RequestsOK
<1>2. req[r].step = "inserted" => req[r].id \in Ids
  BY DEF Inv, RequestsOK, RequestOK, NewOK
<1>3. \A s \in Requests \ {r} :
        ~(req[r].step = "inserted" /\ req[s].step = "inserted" /\ req[s].id = req[r].id)
  BY DEF Inv, RequestsOK, Exclusive
<1>4. CASE req[r].step # "inserted" /\ q.step # "inserted"
  BY <1>1, <1>4 DEF Pending, Inserting
<1>5. CASE req[r].step # "inserted" /\ q.step = "inserted"
  BY <1>1, <1>5 DEF Pending, Inserting
<1>6. CASE req[r].step = "inserted" /\ q.step # "inserted"
  BY <1>1, <1>2, <1>3, <1>6 DEF Pending, Inserting
<1>7. QED
  BY <1>4, <1>5, <1>6

\* A step of a request that inserts nothing.
LEMMA QuietInOrder ==
  ASSUME Inv, OrderOK, UNCHANGED << order >>, Stored' = Stored, NEW r \in Requests,
         req[r].step # "inserted", NEW q, req' = [req EXCEPT ![r] = q], q.step # "inserted"
  PROVE  OrderOK' /\ KeepsOrder
<1>1. Pending' = Pending
  BY PendingMoves
<1>2. QED
  BY <1>1, OrderStays

LEMMA OrderInsert ==
  ASSUME Inv, OrderOK, NEW r \in Requests, Insert(r)
  PROVE  OrderOK' /\ KeepsOrder
<1>1. req[r].step = "insert" /\ Inserting(req[r].id) = {} /\ req[r].id \in Ids
  BY DEF Insert, Inv, RequestsOK, RequestOK
<1>2. Stored' = Stored
  BY DEF Insert, Stored
<1>3. CASE Taken(req[r].id)
  <2>1. req' = [req EXCEPT ![r] = Idle] /\ UNCHANGED order
    BY <1>3 DEF Insert, End
  <2>2. QED
    BY <1>1, <1>2, <2>1, IdleIsOK, QuietInOrder
<1>4. CASE ~Taken(req[r].id)
  <2> DEFINE q == [op |-> "ingest", step |-> "inserted", id |-> req[r].id,
                   scope |-> req[r].scope, row |-> NewTrace(req[r].app, req[r].content, NoId, NoId)]
  <2>1. req' = [req EXCEPT ![r] = q] /\ order' = Append(order, req[r].id)
    BY <1>4 DEF Insert
  <2>2. q.step = "inserted" /\ q.id = req[r].id
    OBVIOUS
  <2>3. req[r].id \in Ids \ (Stored \cup Pending)
    BY <1>1, <1>4 DEF Taken, Pending
  <2> HIDE DEF q
  <2>4. Pending' = Pending \cup {req[r].id}
    BY <1>1, <2>1, <2>2, PendingMoves
  <2>5. QED
    BY <1>2, <2>1, <2>3, <2>4, NewestIsLast
<1>5. QED
  BY <1>3, <1>4

LEMMA OrderGenerate ==
  ASSUME Inv, OrderOK, NEW r \in Requests, Generate(r)
  PROVE  OrderOK' /\ KeepsOrder
<1>1. req[r].step = "generate" /\ Stored' = Stored
  BY DEF Generate, Stored
<1> DEFINE Replayed(new, inRollout) ==
             [op |-> "replay", step |-> "inserted", scope |-> req[r].scope, id |-> new,
              row |-> NewTrace(req[r].original.app, req[r].original.content,
                               IF inRollout THEN new ELSE InheritedArm(req[r].original),
                               req[r].id)]
<1>2. PICK new \in Ids \ Stored, inRollout \in BOOLEAN :
        /\ Inserting(new) = {}
        /\ order' = Append(order, new)
        /\ req' = [req EXCEPT ![r] = Replayed(new, inRollout)]
  BY DEF Generate
<1> DEFINE q == Replayed(new, inRollout)
<1>3. req' = [req EXCEPT ![r] = q] /\ q.step = "inserted" /\ q.id = new
  BY <1>2
<1> HIDE DEF q
<1>4. Pending' = Pending \cup {new}
  BY <1>1, <1>2, <1>3, PendingMoves
<1>5. new \in Ids \ (Stored \cup Pending)
  BY <1>2 DEF Pending
<1>6. QED
  BY <1>1, <1>2, <1>4, <1>5, NewestIsLast

LEMMA OrderStore ==
  ASSUME Inv, OrderOK, NEW r \in Requests, Store(r)
  PROVE  OrderOK' /\ KeepsOrder
<1>1. req[r].step = "inserted" /\ NewOK(req[r])
  BY DEF Store, Inv, RequestsOK, RequestOK
<1>2. req[r].id \in Ids /\ req[r].row.stored
  BY <1>1 DEF NewOK, Whole
<1>3. Stored' = Stored \cup {req[r].id}
  BY <1>2 DEF Store, Stored, Inv, RowsOK
<1>4. Pending' = Pending \ {req[r].id} /\ req[r].id \in Pending
  <2>1. req' = [req EXCEPT ![r] = Idle]
    BY DEF Store, End
  <2>2. QED
    BY <1>1, <2>1, IdleIsOK, PendingMoves
<1>5. QED
  BY <1>3, <1>4, OrderStays DEF Store

LEMMA OrderAbort ==
  ASSUME Inv, OrderOK, NEW r \in Requests, Abort(r)
  PROVE  OrderOK' /\ KeepsOrder
<1>1. Stored' = Stored /\ req' = [req EXCEPT ![r] = Idle]
  BY DEF Abort, End, Stored
<1>2. CASE req[r].step # "inserted"
  BY <1>1, <1>2, IdleIsOK, QuietInOrder DEF Abort
<1>3. CASE req[r].step = "inserted"
  <2>1. PICK i \in DOMAIN order : order[i] = req[r].id /\ order' = RemoveAt(order, i)
    BY <1>3 DEF Abort
  <2>2. order \in Seq(Ids) /\ Distinct(order)
    BY DEF OrderOK
  <2>3. /\ order' \in Seq(Ids) /\ Distinct(order')
        /\ \A t : (\E j \in DOMAIN order' : order'[j] = t)
                    <=> t # req[r].id /\ (\E j \in DOMAIN order : order[j] = t)
        /\ \A t, u : t # req[r].id /\ u # req[r].id /\ Follows(order, t, u)
                       => Follows(order', t, u)
    <3>1. /\ order' \in Seq(Ids) /\ Distinct(order')
          /\ \A t : (\E j \in DOMAIN order' : order'[j] = t)
                      <=> t # order[i] /\ (\E j \in DOMAIN order : order[j] = t)
          /\ \A t, u : t # order[i] /\ u # order[i] /\ Follows(order, t, u)
                         => Follows(order', t, u)
      <4> DEFINE p == RemoveAt(order, i)
      <4>1. p \in Seq(Ids) /\ Distinct(p)
        BY <2>2, TakenOut
      <4>2. \A t : (\E j \in DOMAIN p : p[j] = t)
                     <=> t # order[i] /\ (\E j \in DOMAIN order : order[j] = t)
        BY <2>2, TakenOut
      <4>3. \A t, u : t # order[i] /\ u # order[i] /\ Follows(order, t, u) => Follows(p, t, u)
        BY <2>2, TakenOut
      <4>4. order' = p
        BY <2>1
      <4> HIDE DEF p
      <4>5. QED
        BY <4>1, <4>2, <4>3, <4>4
    <3>2. QED
      BY <2>1, <3>1
  <2>4. Pending' = Pending \ {req[r].id} /\ req[r].id \notin Stored
    <3>1. Pending' = Pending \ {req[r].id}
      BY <1>1, <1>3, IdleIsOK, PendingMoves
    <3>2. QED
      BY <1>3, <3>1 DEF Inv, RequestsOK, RequestOK, NewOK
  <2>5. OrderOK'
    BY <1>1, <2>3, <2>4 DEF OrderOK, Distinct
  <2>6. QED
    BY <2>3, <2>4, <2>5 DEF KeepsOrder
<1>4. QED
  BY <1>2, <1>3

LEMMA OrderStep ==
  ASSUME Inv, OrderOK, Next
  PROVE  OrderOK' /\ KeepsOrder
<1>1. ASSUME NEW r \in Requests, Ingest(r) \/ Label(r) \/ Replay(r)
      PROVE  OrderOK' /\ KeepsOrder
  <2>1. UNCHANGED << order >> /\ Stored' = Stored
    BY <1>1 DEF Ingest, Label, Replay, Stored
  <2>2. \E q : q.step # "inserted" /\ Begin(r, q)
    BY <1>1 DEF Ingest, Label, Replay
  <2>3. PICK q : q.step # "inserted" /\ Begin(r, q)
    BY <2>2
  <2>4. req[r].step # "inserted" /\ req' = [req EXCEPT ![r] = q]
    BY <2>3 DEF Begin
  <2>5. QED
    BY <2>1, <2>3, <2>4, QuietInOrder
<1>2. ASSUME NEW r \in Requests, Review(r) \/ Tag(r)
      PROVE  OrderOK' /\ KeepsOrder
  <2>1. UNCHANGED << order >> /\ req[r].step # "inserted" /\ req' = [req EXCEPT ![r] = Idle]
    BY <1>2 DEF Review, Tag, End
  <2>2. Stored' = Stored
    <3>1. Stored \subseteq Stored'
      BY StepGrows DEF Grows
    <3>2. req[r].id \in Stored
      BY <1>2 DEF Review, Tag, Inv, RequestsOK, RequestOK, LabelOK
    <3>3. \A t \in Ids \ {req[r].id} : traces'[t] = traces[t]
      BY <1>2 DEF Review, Tag, Inv, RowsOK
    <3>4. QED
      BY <3>1, <3>2, <3>3 DEF Stored
  <2>3. QED
    BY <2>1, <2>2, IdleIsOK, QuietInOrder
<1>3. ASSUME UNCHANGED << traces, order, req >>
      PROVE  OrderOK' /\ KeepsOrder
  <2>1. Stored' \cup Pending' = Stored \cup Pending
    BY <1>3 DEF Stored, Pending, Inserting
  <2>2. QED
    BY <1>3, <2>1, OrderStays
<1>4. QED
  BY <1>1, <1>2, <1>3, OrderInsert, OrderStore, OrderGenerate, OrderAbort
     DEF Next, Resubmit, Get, Export, StartWalk, NextPage

\* No list is filtered by a tag.
NoTagFilters == \A tags \in TagSets : Filters \cap tags = {}

\* A list that is filtered by what does not change loses nothing.
LEMMA FoundGrows ==
  ASSUME NoTagFilters, Inv, Inv', Grows, NEW scope, NEW filter \in Filters
  PROVE  Found(scope, filter) \subseteq Found(scope, filter)'
<1>1. \A t \in Stored : filter \notin traces[t].tags
  BY DEF NoTagFilters, Inv, LabelsAreWhole
<1>2. \A t \in Found(scope, filter) :
        /\ t \in Stored' /\ InScope(scope, traces'[t].app)
        /\ filter = NoFilter \/ filter = traces'[t].app
  BY <1>1 DEF Found, Visible, Matches, Grows
<1>3. QED
  BY <1>2 DEF Found, Visible, Matches

LEMMA WalkWaits ==
  ASSUME NoTagFilters, PagesInv, Inv', OrderOK', Grows, KeepsOrder, UNCHANGED walk
  PROVE  WalkOK'
<1>1. CASE walk.step # "walking"
  BY <1>1 DEF PagesInv, WalkOK
<1>2. CASE walk.step = "walking"
  <2> DEFINE old == Found(walk.scope, walk.filter)
             new == Found(walk.scope, walk.filter)'
  <2>1. walk.filter \in Filters /\ OnCourse(walk, order, old)
    BY <1>2 DEF PagesInv, WalkOK
  <2>2. PICK filter \in Filters : filter = walk.filter
    BY <2>1
  <2>3. \A s : Found(s, filter) \subseteq Found(s, filter)'
    BY FoundGrows DEF PagesInv
  <2>4. old \subseteq new
    BY <2>2, <2>3 DEF Found, Visible, Matches
  <2>5. order \in Seq(Ids) /\ order' \in Seq(Ids) /\ old \subseteq Stored
    BY DEF PagesInv, OrderOK, Found, Visible
  <2> HIDE DEF old, new
  <2>6. ASSUME NEW t \in walk.start \ walk.seen
        PROVE  walk.offset <= Cardinality(Before(order', t, new))
    <3>1. t \in old /\ walk.offset <= Cardinality(Before(order, t, old)) /\ walk.offset \in Nat
      BY <2>1 DEF OnCourse
    <3>2. \A u \in old : Follows(order, t, u) => Follows(order', t, u)
      BY <2>5, <3>1 DEF KeepsOrder
    <3>3. Cardinality(Before(order, t, old)) <= Cardinality(Before(order', t, new))
      BY <2>4, <2>5, <3>2, MovesBack
    <3>4. /\ Cardinality(Before(order, t, old)) \in Nat
          /\ Cardinality(Before(order', t, new)) \in Nat
      BY <2>5, BeforeIsFinite
    <3>5. QED
      BY <3>1, <3>3, <3>4
  <2>7. OnCourse(walk, order', new)
    BY <2>1, <2>4, <2>6 DEF OnCourse
  <2>8. OnCourse(walk, order, Found(walk.scope, walk.filter))'
    BY <2>7 DEF new
  <2>9. QED
    BY <1>2, <2>8 DEF PagesInv, WalkOK
<1>3. QED
  BY <1>1, <1>2

LEMMA WalkStarts ==
  ASSUME PagesInv, StartWalk
  PROVE  WalkOK'
<1>1. PICK scope \in Scopes, filter \in Filters :
        walk' = [step |-> "walking", scope |-> scope, filter |-> filter, offset |-> 0,
                 seen |-> {}, start |-> Found(scope, filter)]
  BY DEF StartWalk
<1>2. /\ walk'.step = "walking" /\ walk'.scope = scope /\ walk'.filter = filter
      /\ walk'.offset = 0 /\ walk'.start = Found(scope, filter) /\ walk'.seen = {}
      /\ walk' = [step |-> "walking", scope |-> walk'.scope, filter |-> walk'.filter,
                  offset |-> walk'.offset, seen |-> walk'.seen, start |-> walk'.start]
  BY <1>1
<1>3. Found(scope, filter)' = Found(scope, filter) /\ order' \in Seq(Ids)
  BY DEF StartWalk, Found, Visible, Stored, Matches, PagesInv, OrderOK
<1>4. \A t : Cardinality(Before(order', t, Found(scope, filter))) \in Nat
  BY <1>3, BeforeIsFinite
<1>5. OnCourse(walk', order', Found(scope, filter))
  BY <1>2, <1>4 DEF OnCourse
<1>6. OnCourse(walk, order, Found(walk.scope, walk.filter))'
  BY <1>2, <1>3, <1>5 DEF Found, Visible, Matches
<1>7. QED
  BY <1>2, <1>6 DEF WalkOK

LEMMA WalkGoesOn ==
  ASSUME PagesInv, NextPage
  PROVE  WalkOK'
<1> DEFINE found == Found(walk.scope, walk.filter)
           page == Page(walk.scope, walk.filter, walk.offset)
<1>1. /\ walk.step = "walking" /\ walk.filter \in Filters
      /\ walk = [step |-> "walking", scope |-> walk.scope, filter |-> walk.filter,
                 offset |-> walk.offset, seen |-> walk.seen, start |-> walk.start]
      /\ OnCourse(walk, order, found)
  BY DEF NextPage, PagesInv, WalkOK
<1>2. /\ order \in Seq(Ids) /\ Distinct(order) /\ PageSize \in Nat \ {0}
      /\ \A t \in found : \E i \in DOMAIN order : order[i] = t
  BY TraceAssumption DEF PagesInv, OrderOK, Found, Visible
<1>3. \A t : t \in page <=> t \in found /\ Cardinality(Before(order, t, found))
                                             \in walk.offset..(walk.offset + PageSize - 1)
  BY DEF Page, Cut, Newer, Before, Follows
<1>4. CASE page = {}
  <2>1. walk' = [walk EXCEPT !.step = "done"]
    BY <1>4 DEF NextPage
  <2>2. walk'.step = "done" /\ walk'.start = walk.start /\ walk'.seen = walk.seen
    BY <1>1, <2>1
  <2> HIDE DEF found, page
  <2>3. ASSUME NEW t \in walk.start \ walk.seen PROVE FALSE
    <3>1. t \in found /\ walk.offset \in Nat
          /\ walk.offset <= Cardinality(Before(order, t, found))
      BY <1>1 DEF OnCourse
    <3>2. PICK u \in found : Cardinality(Before(order, u, found)) = walk.offset
      BY <1>2, <3>1, NoGap
    <3>3. walk.offset \in walk.offset..(walk.offset + PageSize - 1)
      BY <1>2, <3>1
    <3>4. u \in page
      BY <1>3, <3>2, <3>3
    <3>5. QED
      BY <1>4, <3>4
  <2>4. QED
    BY <2>2, <2>3 DEF WalkOK
<1>5. CASE page # {}
  <2>1. walk' = [walk EXCEPT !.offset = @ + PageSize, !.seen = @ \cup page]
    BY <1>5 DEF NextPage
  <2>2. /\ walk' = [step |-> "walking", scope |-> walk.scope, filter |-> walk.filter,
                    offset |-> walk.offset + PageSize, seen |-> walk.seen \cup page,
                    start |-> walk.start]
    <3> HIDE DEF page
    <3>1. QED
      BY <1>1, <2>1
  <2>3. order' = order /\ found' = found
    <3>1. walk'.scope = walk.scope /\ walk'.filter = walk.filter
      BY <2>2
    <3>2. QED
      BY <3>1 DEF NextPage, Found, Visible, Stored, Matches
  <2> HIDE DEF found, page
  <2>4. /\ walk'.step = "walking" /\ walk'.scope = walk.scope /\ walk'.filter = walk.filter
        /\ walk'.offset = walk.offset + PageSize /\ walk'.seen = walk.seen \cup page
        /\ walk'.start = walk.start
        /\ walk' = [step |-> "walking", scope |-> walk'.scope, filter |-> walk'.filter,
                    offset |-> walk'.offset, seen |-> walk'.seen, start |-> walk'.start]
    BY <2>2
  <2>5. ASSUME NEW t \in walk.start \ (walk.seen \cup page)
        PROVE  walk.offset + PageSize <= Cardinality(Before(order, t, found))
    <3>1. t \in found /\ walk.offset \in Nat
          /\ walk.offset <= Cardinality(Before(order, t, found))
      BY <1>1 DEF OnCourse
    <3>2. Cardinality(Before(order, t, found)) \in Nat
      BY <1>2, BeforeIsFinite
    <3>3. Cardinality(Before(order, t, found)) \notin walk.offset..(walk.offset + PageSize - 1)
      BY <1>3, <3>1
    <3>4. QED
      BY <1>2, <3>1, <3>2, <3>3
  <2>6. OnCourse(walk', order', found)
    BY <1>1, <1>2, <2>3, <2>4, <2>5 DEF OnCourse
  <2>7. OnCourse(walk, order, Found(walk.scope, walk.filter))'
    BY <2>3, <2>6 DEF found
  <2>8. QED
    BY <1>1, <2>4, <2>7 DEF WalkOK
<1>6. QED
  BY <1>4, <1>5

LEMMA PagesStep ==
  ASSUME NoTagFilters, PagesInv, [Next]_vars
  PROVE  PagesInv'
<1>1. Inv'
  BY NextKeeps DEF PagesInv
<1>2. CASE UNCHANGED vars
  BY <1>1, <1>2 DEF PagesInv, vars, OrderOK, WalkOK, Pending, Inserting, Stored, Found,
                    Visible, Matches
<1>3. CASE Next
  <2>1. Grows /\ OrderOK' /\ KeepsOrder
    BY <1>3, StepGrows, OrderStep DEF PagesInv
  <2>2. CASE UNCHANGED walk
    BY <1>1, <2>1, <2>2, WalkWaits DEF PagesInv
  <2>3. CASE StartWalk \/ NextPage
    BY <1>1, <2>1, <2>3, WalkStarts, WalkGoesOn DEF PagesInv
  <2>4. UNCHANGED walk \/ StartWalk \/ NextPage
    BY <1>3 DEF Next, Resubmit, Ingest, Insert, Store, Label, Review, Tag, Replay, Generate,
                Abort, Get, Export
  <2>5. QED
    BY <1>1, <2>1, <2>2, <2>3, <2>4 DEF PagesInv
<1>4. QED
  BY <1>2, <1>3

LEMMA PagesInit == Init => PagesInv
<1>1. Init => Stored = {} /\ Pending = {}
  BY IdleIsOK DEF Init, Stored, NoRow, Pending, Inserting
<1>2. Init => OrderOK
  BY <1>1, EmptySeq DEF Init, OrderOK, Distinct
<1>3. Init => WalkOK
  BY DEF Init, WalkOK, Idle
<1>4. QED
  BY <1>2, <1>3, InitInv DEF PagesInv

-----------------------------------------------------------------------------
(* Theorems *)

\* Whoever sends a trace, sends it again or reads it is told the same of an id, and
\* never one outside the scope of the key (traces.py:158-186, 74-81): for any
\* number of clients at once.  The unique index is what the argument rests on: no
\* two transactions hold an id, and an answer comes after the commit.
THEOREM AnswersAlwaysAgree == Spec => []AnswersAgree
<1>1. Inv => AnswersAgree
  BY DEF Inv
<1>2. QED
  BY <1>1, Invariant, PTL

\* A trace is labelled with what reviewers submitted, its verdict unless two
\* requests wrote it at once (traces.py:386-430).
THEOREM LabelsStayWhole == Spec => []LabelsAreWhole
<1>1. Inv => LabelsAreWhole
  BY DEF Inv
<1>2. QED
  BY <1>1, Invariant, PTL

\* Replays, and replays of replays to any depth, stay with the application and the
\* prompt of their original and have no arm but their own (traces.py:433-480).
THEOREM ReplaysStayTheirOwn == Spec => []ReplayIsItsOwn
<1>1. Inv => ReplayIsItsOwn
  BY DEF Inv, RowsOK, Linked, ReplayIsItsOwn, Stored
<1>2. QED
  BY <1>1, Invariant, PTL

\* A client that turns the pages of a list to its end has been shown all that was
\* there when it began, whatever is stored, labelled and rolled back meanwhile
\* (traces.py:261-301): unless the list is filtered by tags, from which a trace can be
\* dropped (TraceApiRetagged.cfg).  The OFFSET is right because a new trace comes first
\* in the list and moves the others back.
THEOREM PagesAreComplete ==
    ASSUME NoTagFilters
    PROVE  Spec => []PagesSkipNothing
<1>1. Init => PagesInv
  BY PagesInit
<1>2. PagesInv /\ [Next]_vars => PagesInv'
  BY PagesStep
<1>3. PagesInv => PagesSkipNothing
  BY DEF PagesInv, WalkOK, PagesSkipNothing
<1>4. QED
  BY <1>1, <1>2, <1>3, PTL DEF Spec

================================================================================
