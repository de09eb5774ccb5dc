---------------------------- MODULE EvaluationQueue ----------------------------
(***************************************************************************)
(* Asynchronous evaluation in SentinelLLM: requests persist a trace and    *)
(* push its job on a Redis list, workers pop jobs, claim the trace and run *)
(* the evaluation pipeline, and a periodic pass recovers the jobs that the *)
(* queue lost (core/queue.py, worker/tasks/evaluate.py,                    *)
(* worker/tasks/evaluation_recovery.py).                                   *)
(*                                                                         *)
(* status and evaluated are what Postgres has committed.  A claim is an    *)
(* UPDATE in the transaction that ends with the evaluation: nobody sees    *)
(* its 'evaluating', but its row lock makes every other UPDATE of the      *)
(* trace wait.  Holders(t) are the workers inside such a transaction.      *)
(***************************************************************************)
EXTENDS Integers, Sequences

CONSTANTS
    Traces,         \* traces to evaluate (evaluate = true, status = 'ok')
    Workers,        \* evaluation consumers, one per worker process
    NoTrace,        \* no job in hand
    StuckAfter,     \* STUCK_EVALUATING_AFTER
    OrphanedAfter,  \* ORPHANED_PENDING_AFTER
    MaxFaults       \* bound on crashes, lost calls and lost queues

ASSUME QueueAssumption ==
    /\ NoTrace \notin Traces
    /\ StuckAfter \in Nat \ {0}
    /\ OrphanedAfter \in Nat
    /\ StuckAfter <= OrphanedAfter
    /\ MaxFaults \in Nat

Settled == {"completed", "failed"}

VARIABLES
    request,    \* per trace: where the transaction that creates it is
    status,     \* evaluation_status, as committed
    evaluated,  \* traces with a committed row in evaluations
    age,        \* time since created_at, capped at OrphanedAfter
    queue,      \* the Redis list, next job first
    phase, job, \* per worker: what it is doing, and for which trace
    recovery,   \* where the recovery pass is
    aged,       \* the traces old enough to be orphans when the pass began
    batch,      \* the traces the pass has still to push
    faults

queueVars == << request, status, evaluated, age, queue, phase, job, recovery, aged,
           batch, faults >>
requestVars == << request, age >>
traceVars == << status, evaluated >>
workerVars == << phase, job >>
recoveryVars == << recovery, aged, batch >>

TypeOK ==
    /\ request \in [Traces -> {"new", "sent", "committed", "aborted"}]
    /\ status \in [Traces -> {"none", "pending", "evaluating"} \cup Settled]
    /\ evaluated \in SUBSET Traces
    /\ age \in [Traces -> 0..OrphanedAfter]
    /\ queue \in Seq(Traces)
    /\ phase \in [Workers -> {"idle", "popped", "running", "failing"}]
    /\ job \in [Workers -> Traces \cup {NoTrace}]
    /\ recovery \in {"idle", "requeue", "counted", "orphans"}
    /\ aged \in SUBSET Traces
    /\ batch \in SUBSET Traces
    /\ faults \in 0..MaxFaults

QueueInit ==
    /\ request = [t \in Traces |-> "new"]
    /\ status = [t \in Traces |-> "none"]
    /\ evaluated = {}
    /\ age = [t \in Traces |-> 0]
    /\ queue = <<>>
    /\ phase = [w \in Workers |-> "idle"]
    /\ job = [w \in Workers |-> NoTrace]
    /\ recovery = "idle"
    /\ aged = {}
    /\ batch = {}
    /\ faults = 0

Fault == faults < MaxFaults /\ faults' = faults + 1

Holders(t) == { w \in Workers : phase[w] = "running" /\ job[w] = t }

Push(t) == queue' = Append(queue, t)

------------------------------------------------------------------------------
(* The request that creates a trace: generate(), POST /traces *)

\* The trace is flushed and its job pushed, before the transaction commits.
\* An error of the push is swallowed.
Send(t) ==
    /\ request[t] = "new"
    /\ request' = [request EXCEPT ![t] = "sent"]
    /\ \/ Push(t) /\ UNCHANGED faults
       \/ Fault /\ UNCHANGED queue
    /\ UNCHANGED <<traceVars, age, workerVars, recoveryVars>>

CommitRequest(t) ==
    /\ request[t] = "sent"
    /\ request' = [request EXCEPT ![t] = "committed"]
    /\ status' = [status EXCEPT ![t] = "pending"]
    /\ UNCHANGED <<evaluated, age, queue, workerVars, recoveryVars, faults>>

\* The request dies after its push: the job is left without a trace.
AbortRequest(t) ==
    /\ request[t] = "sent"
    /\ Fault
    /\ request' = [request EXCEPT ![t] = "aborted"]
    /\ UNCHANGED <<traceVars, age, queue, workerVars, recoveryVars>>

Young(t) == age[t] < OrphanedAfter

\* A request ends long before its trace is old enough to be recovered.
Age(t) ==
    /\ request[t] = "committed"
    /\ Young(t)
    /\ age' = [age EXCEPT ![t] = @ + 1]
    /\ UNCHANGED <<request, traceVars, queue, workerVars, recoveryVars, faults>>

\* Redis restarts with nothing persisted.
LoseQueue ==
    /\ queue # <<>>
    /\ Fault
    /\ queue' = <<>>
    /\ UNCHANGED <<requestVars, traceVars, workerVars, recoveryVars>>

------------------------------------------------------------------------------
(* The consumer *)

Become(w, p) ==
    /\ phase' = [phase EXCEPT ![w] = p]
    /\ job' = [job EXCEPT ![w] = IF p = "idle" THEN NoTrace ELSE @]

\* BRPOP: from here on the job exists nowhere but in the worker.
Pop(w) ==
    /\ phase[w] = "idle"
    /\ queue # <<>>
    /\ phase' = [phase EXCEPT ![w] = "popped"]
    /\ job' = [job EXCEPT ![w] = Head(queue)]
    /\ queue' = Tail(queue)
    /\ UNCHANGED <<requestVars, traceVars, recoveryVars, faults>>

\* Mutant: a failed evaluation is claimed again.
ClaimableRetryMutant(t) == Holders(t) = {} /\ status[t] \in {"pending", "failed"}

\* UPDATE ... SET 'evaluating' WHERE 'pending', once nobody holds the row.
Claimable(t) == Holders(t) = {} /\ status[t] = "pending"

Claim(w) ==
    /\ phase[w] = "popped"
    /\ Claimable(job[w])
    /\ Become(w, "running")
    /\ UNCHANGED <<requestVars, traceVars, queue, recoveryVars, faults>>

\* No row is pending, perhaps because the request has not committed: skip.
Skip(w) ==
    /\ phase[w] = "popped"
    /\ Holders(job[w]) = {}
    /\ ~Claimable(job[w])
    /\ Become(w, "idle")
    /\ UNCHANGED <<requestVars, traceVars, queue, recoveryVars, faults>>

Publish(t) ==
    /\ status' = [status EXCEPT ![t] = "completed"]
    /\ evaluated' = evaluated \cup {t}

\* The evaluation and the 'completed' status commit together.
Complete(w) ==
    /\ phase[w] = "running"
    /\ Publish(job[w])
    /\ Become(w, "idle")
    /\ UNCHANGED <<requestVars, queue, recoveryVars, faults>>

\* The commit succeeds and its answer is lost: an exception all the same.
CompleteUnacknowledged(w) ==
    /\ phase[w] = "running"
    /\ Fault
    /\ Publish(job[w])
    /\ Become(w, "failing")
    /\ UNCHANGED <<requestVars, queue, recoveryVars>>

\* The pipeline raises: the claim is rolled back.
RunFails(w) ==
    /\ phase[w] = "running"
    /\ Become(w, "failing")
    /\ UNCHANGED <<requestVars, traceVars, queue, recoveryVars, faults>>

\* In a second transaction, whatever happened to the trace in between.
MarkFailed(w) ==
    /\ phase[w] = "failing"
    /\ Holders(job[w]) = {}
    /\ status' = [status EXCEPT ![job[w]] = "failed"]
    /\ Become(w, "idle")
    /\ UNCHANGED <<requestVars, evaluated, queue, recoveryVars, faults>>

\* The worker dies, or its session does: the job in hand is lost.
Crash(w) ==
    /\ phase[w] # "idle"
    /\ Fault
    /\ Become(w, "idle")
    /\ UNCHANGED <<requestVars, traceVars, queue, recoveryVars>>

------------------------------------------------------------------------------
(* The recovery pass, one at a time (core/locks.py) *)

\* Mutant: the pass forgets the has_evaluation condition.
FinishedMutant == { t \in Traces :
    /\ status[t] \in {"pending", "evaluating"}
    /\ age[t] >= StuckAfter }

\* The job wrote its result and died before flipping the status.
Finished == { t \in Traces :
    /\ status[t] \in {"pending", "evaluating"}
    /\ t \in evaluated
    /\ age[t] >= StuckAfter }

\* Mutant: everything old that is not completed is handed to the queue again.
StuckMutant == { t \in Traces :
    /\ status[t] \notin {"none", "completed"}
    /\ t \notin evaluated
    /\ age[t] >= StuckAfter }

\* Claimed by a worker that never came back.
Stuck == { t \in Traces :
    /\ status[t] = "evaluating"
    /\ t \notin evaluated
    /\ age[t] >= StuckAfter }

\* Steps 1 and 2 up to their commit; the pass reads the clock once, here.
RecoverStart ==
    /\ recovery = "idle"
    /\ \A t \in Finished \cup Stuck : Holders(t) = {}
    /\ status' = [t \in Traces |-> IF t \in Finished THEN "completed"
                                   ELSE IF t \in Stuck THEN "pending"
                                   ELSE status[t]]
    /\ aged' = { t \in Traces : age[t] >= OrphanedAfter }
    /\ batch' = Stuck
    /\ recovery' = "requeue"
    /\ UNCHANGED <<requestVars, evaluated, queue, workerVars, faults>>

RecoverPush(t) ==
    /\ recovery \in {"requeue", "orphans"}
    /\ t \in batch
    /\ Push(t)
    /\ batch' = batch \ {t}
    /\ UNCHANGED <<requestVars, traceVars, workerVars, recovery, aged, faults>>

\* Mutant: a backlog does not stop the pass.
TrustsQueueMutant == TRUE

\* queue_depth() == 0
TrustsQueue == queue = <<>>

RecoverCount ==
    /\ recovery = "requeue"
    /\ batch = {}
    /\ recovery' = IF TrustsQueue THEN "counted" ELSE "idle"
    /\ UNCHANGED <<requestVars, traceVars, queue, workerVars, aged, batch, faults>>

\* Mutant: only claimed traces can have lost their job.
OrphanedMutant == { t \in Traces :
    /\ status[t] = "evaluating"
    /\ t \notin evaluated
    /\ t \in aged }

\* Pending for so long, with nothing queued: never enqueued, or lost.
Orphaned == { t \in Traces :
    /\ status[t] = "pending"
    /\ t \notin evaluated
    /\ t \in aged }

RecoverSelect ==
    /\ recovery = "counted"
    /\ batch' = Orphaned
    /\ recovery' = "orphans"
    /\ UNCHANGED <<requestVars, traceVars, queue, workerVars, aged, faults>>

RecoverEnd ==
    /\ recovery = "orphans"
    /\ batch = {}
    /\ recovery' = "idle"
    /\ UNCHANGED <<requestVars, traceVars, queue, workerVars, aged, batch, faults>>

\* Redis or the database fails under the pass, or its replica dies.
RecoverFail ==
    /\ recovery # "idle"
    /\ Fault
    /\ recovery' = "idle"
    /\ batch' = {}
    /\ UNCHANGED <<requestVars, traceVars, queue, workerVars, aged>>

------------------------------------------------------------------------------
Request(t) == Send(t) \/ CommitRequest(t) \/ AbortRequest(t) \/ Age(t)

Settle(w) == Complete(w) \/ CompleteUnacknowledged(w) \/ RunFails(w)

Consumer(w) ==
    Pop(w) \/ Claim(w) \/ Skip(w) \/ Settle(w) \/ MarkFailed(w) \/ Crash(w)

Recovery ==
    \/ RecoverStart
    \/ \E t \in Traces : RecoverPush(t)
    \/ RecoverCount
    \/ RecoverSelect
    \/ RecoverEnd
    \/ RecoverFail

QueueNext ==
    \/ \E t \in Traces : Request(t)
    \/ \E w \in Workers : Consumer(w)
    \/ Recovery
    \/ LoseQueue

QueueSpec == QueueInit /\ [][QueueNext]_queueVars

\* Consumers and the recovery loop run for ever, time passes, an evaluation
\* ends, and Postgres grants a row lock to whoever waits for it
\* (worker/main.py:44-69, worker/periodic.py:73-86).
Fairness ==
    /\ \A t \in Traces : WF_queueVars(Age(t))
    /\ \A w \in Workers :
         /\ WF_queueVars(Pop(w))
         /\ SF_queueVars(Claim(w))
         /\ SF_queueVars(Skip(w))
         /\ WF_queueVars(Settle(w))
         /\ SF_queueVars(MarkFailed(w))
    /\ WF_queueVars(RecoverStart)
    /\ \A t \in Traces : WF_queueVars(RecoverPush(t))
    /\ WF_queueVars(RecoverCount)
    /\ WF_queueVars(RecoverSelect)
    /\ WF_queueVars(RecoverEnd)

FairQueueSpec == QueueSpec /\ Fairness

------------------------------------------------------------------------------
(* Properties *)

\* However often a job is delivered, one worker at a time evaluates its trace
\* (worker/tasks/evaluate.py:4-7).
OneEvaluator == \A t \in Traces : \A v, w \in Holders(t) : v = w

\* A trace that has its evaluation is never evaluated again: the judge is paid
\* once (worker/tasks/evaluation_recovery.py:9-11, "never a duplicate result").
NeverEvaluatedTwice == \A t \in evaluated : Holders(t) = {}

\* Nothing is called completed without its evaluation, which is what quality
\* metrics and rollouts read.
CompletedIsEvaluated == \A t \in Traces : status[t] = "completed" => t \in evaluated

\* Recovery never piles up jobs: a trace waits in the queue at most once.
QueuedOnce ==
    \A i, j \in DOMAIN queue : queue[i] = queue[j] => i = j

\* A settled trace is never handed back to the workers.
SettledForGood ==
    [][\A t \in Traces : status[t] \in Settled => status'[t] \in Settled]_queueVars

\* A trace that has its evaluation is called completed.
EvaluatedIsCompleted == \A t \in evaluated : status[t] = "completed"

\* Every committed trace is evaluated or marked failed in the end, although
\* pushes are swallowed, jobs are popped before their trace is committed,
\* workers crash and Redis forgets (worker/tasks/evaluation_recovery.py:3-7).
Settles == \A t \in Traces : request[t] = "committed" ~> status[t] \in Settled

==============================================================================
