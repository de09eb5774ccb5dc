----------------------------- MODULE ModelRollout -----------------------------
(***************************************************************************)
(* Model canary rollouts of SentinelLLM: the worker replicas' periodic     *)
(* pass (worker/tasks/rollout.py) against the operators' endpoints         *)
(* (api/routers/rollouts.py) and the traffic that is their evidence.       *)
(*                                                                         *)
(* The database is Postgres at READ COMMITTED.  rows is the committed      *)
(* table; draft[p][r] is the version of row r in the open transaction of   *)
(* process p: what it read when it selected the row, with what it has      *)
(* written since.  A commit publishes p's versions, whatever became of the *)
(* rows meanwhile: only the row locks keep another commit from being lost. *)
(*                                                                         *)
(* A rollout's evidence is a history field: the challenger traces its      *)
(* committed decisions were based on.  since stands for                    *)
(* `last_evaluated_at or created_at`, the cursor of the evidence window.   *)
(* Every rollout compares the same two models, named by their arms.        *)
(***************************************************************************)
EXTENDS RolloutPolicy, FiniteSets, FiniteSetsExt

CONSTANTS
    Apps, Traces, Replicas, Operators,
    NoOne,          \* no lock holder
    NoApp,          \* no application
    MaxRollouts,    \* bound on the rollouts ever created
    InitialPcts, StepPct, MaxPct,
    Guard,          \* the rollouts' guard rails, a member of Guards
    Scores,         \* the scores an evaluation may give
    Failed,         \* the outcome of a request that failed
    Unscored,       \* the outcome of an answer no evaluation has scored yet
    PinnedArms,     \* the arms clients name themselves (preferred_model,
                    \* experiments, ingested traces)
    Grace,          \* _EVALUATION_GRACE
    CommitLag,      \* how long a trace may stay uncommitted after its stamp
    MaxTime,        \* bound on the clock
    MaxFaults       \* bound on crashes, failures and lost connections

ASSUME RolloutAssumption ==
    /\ MaxRollouts \in Nat
    /\ MaxPct \in Nat \ {0}
    /\ StepPct \in Nat \ {0}
    /\ InitialPcts \subseteq 0..MaxPct
    /\ Guard \in Guards
    /\ Scores \subseteq 0..Scale
    /\ Failed \notin Scores \cup {Unscored}
    /\ Unscored \notin Scores
    /\ Grace \in Nat
    /\ CommitLag \in Nat
    /\ MaxTime \in Nat
    /\ MaxFaults \in Nat
    /\ NoOne \notin Replicas \cup Operators
    /\ Replicas \cap Operators = {}
    /\ NoApp \notin Apps
    /\ IsFiniteSet(Traces)

Arms == {"challenger", "incumbent"}
Rollouts == 1..MaxRollouts          \* in order of creation
Active == {"running", "paused"}
Terminal == {"promoted", "rolled_back"}
Owners == Replicas \cup Operators

Row == [ stage : Active \cup Terminal \cup {"none"}, app : Apps \cup {NoApp},
         traffic : 0..MaxPct, created : 0..MaxTime, since : 0..MaxTime,
         initial : 0..MaxPct, evidence : SUBSET Traces ]

NoRow == [ stage |-> "none", app |-> NoApp, traffic |-> 0, created |-> 0,
           since |-> 0, initial |-> 0, evidence |-> {} ]

Trace == [ app : Apps \cup {NoApp}, arm : Arms, at : 0..MaxTime,
           state : {"none", "flushed", "committed"},
           outcome : {Failed, Unscored} \cup Scores ]

NoTrace == [ app |-> NoApp, arm |-> "incumbent", at |-> 0,
             state |-> "none", outcome |-> Unscored ]

VARIABLES
    now,        \* the clock every process stamps with
    rows,       \* model_rollouts, as committed
    draft,      \* per process: its transaction's versions (NoRow: not selected)
    lock,       \* holder of each row's lock
    leader,     \* holder of the advisory lock of the "rollout" loop
    todo,       \* per replica: rows of its pass not decided yet
    creating,   \* per operator: application it checked and will insert for
    down,       \* arms whose model is flagged down
    traces,
    announced,  \* rollouts whose rollback was sent to the alert webhook
    faults

vars == << now, rows, draft, lock, leader, todo, creating, down, traces,
           announced, faults >>
tableVars == << rows, draft, lock, announced >>

TypeOK ==
    /\ now \in 0..MaxTime
    /\ rows \in [Rollouts -> Row]
    /\ draft \in [Owners -> [Rollouts -> Row]]
    /\ lock \in [Rollouts -> Owners \cup {NoOne}]
    /\ leader \in Replicas \cup {NoOne}
    /\ todo \in [Replicas -> SUBSET Rollouts]
    /\ creating \in [Operators -> Apps \cup {NoApp}]
    /\ down \in SUBSET Arms
    /\ traces \in [Traces -> Trace]
    /\ announced \in SUBSET Rollouts
    /\ faults \in 0..MaxFaults

Init ==
    /\ now = 0
    /\ rows = [r \in Rollouts |-> NoRow]
    /\ draft = [p \in Owners |-> [r \in Rollouts |-> NoRow]]
    /\ lock = [r \in Rollouts |-> NoOne]
    /\ leader = NoOne
    /\ todo = [w \in Replicas |-> {}]
    /\ creating = [o \in Operators |-> NoApp]
    /\ down = {}
    /\ traces = [t \in Traces |-> NoTrace]
    /\ announced = {}
    /\ faults = 0

------------------------------------------------------------------------------
(* Transactions on rows *)

Held(p) == { r \in Rollouts : draft[p][r] # NoRow }

\* p's transaction ends: its row locks are released.
Close(p) ==
    /\ draft' = [draft EXCEPT ![p] = [r \in Rollouts |-> NoRow]]
    /\ lock' = [r \in Rollouts |-> IF lock[r] = p THEN NoOne ELSE lock[r]]

Commit(p) ==
    /\ rows' = [r \in Rollouts |-> IF r \in Held(p) THEN draft[p][r] ELSE rows[r]]
    /\ Close(p)
    /\ UNCHANGED announced

Abort(p) ==
    /\ Close(p)
    /\ UNCHANGED <<rows, announced>>

Fault == faults < MaxFaults /\ faults' = faults + 1

------------------------------------------------------------------------------
(* Traffic *)

\* get_active_rollout: an application's newest rollout, whatever its stage.
OfApp(a) == { r \in Rollouts : rows[r].stage # "none" /\ rows[r].app = a }
IsLatest(r, a) == r \in OfApp(a) /\ \A q \in OfApp(a) : q <= r

\* The arms a request that names no model may be sent to.
RoutedArms(a) ==
    { arm \in Arms :
        \A r \in OfApp(a) : IsLatest(r, a) =>
            IF arm = "challenger" THEN rows[r].traffic > 0
                                  ELSE rows[r].traffic < 100 }

\* generate() answers, or fails to, and flushes the trace: created_at is
\* stamped now, but nobody else sees the trace before its commit.
Serve(t, a, arm) ==
    /\ traces[t] = NoTrace
    /\ arm \in RoutedArms(a) \cup PinnedArms
    /\ \E outcome \in {Failed, Unscored} :
         traces' = [traces EXCEPT ![t] =
                      [ app |-> a, arm |-> arm, at |-> now,
                        state |-> "flushed", outcome |-> outcome ]]
    /\ UNCHANGED <<now, tableVars, leader, todo, creating, down, faults>>

CommitTrace(t) ==
    /\ traces[t].state = "flushed"
    /\ traces' = [traces EXCEPT ![t].state = "committed"]
    /\ UNCHANGED <<now, tableVars, leader, todo, creating, down, faults>>

\* The evaluation worker commits a score, at any later time.
Score(t) ==
    /\ traces[t].state = "committed"
    /\ traces[t].outcome = Unscored
    /\ \E q \in Scores : traces' = [traces EXCEPT ![t].outcome = q]
    /\ UNCHANGED <<now, tableVars, leader, todo, creating, down, faults>>

\* The health monitor or an operator flags a model down, or up again.
Flag(arm) ==
    /\ down' = IF arm \in down THEN down \ {arm} ELSE down \cup {arm}
    /\ UNCHANGED <<now, tableVars, leader, todo, creating, traces, faults>>

\* Time passes; no trace stays flushed for longer than CommitLag.
Tick ==
    /\ now < MaxTime
    /\ \A t \in Traces : traces[t].state = "flushed" => now < traces[t].at + CommitLag
    /\ now' = now + 1
    /\ UNCHANGED <<tableVars, leader, todo, creating, down, traces, faults>>

------------------------------------------------------------------------------
(* The evidence window *)

\* Mutant: the lower bound of the window is inclusive.
InWindowMutant(a, arm, since, until) ==
    { t \in Traces :
        /\ traces[t].state = "committed"
        /\ traces[t].app = a
        /\ traces[t].arm = arm
        /\ traces[t].at >= since
        /\ traces[t].at <= until }

\* load_arm_window: committed traces of one arm with since < created_at <= until.
InWindow(a, arm, since, until) ==
    { t \in Traces :
        /\ traces[t].state = "committed"
        /\ traces[t].app = a
        /\ traces[t].arm = arm
        /\ traces[t].at > since
        /\ traces[t].at <= until }

Evaluated(T) == { t \in T : traces[t].outcome \in Scores }

Window(T) ==
    [ requests |-> Cardinality(T),
      errors |-> Cardinality({ t \in T : traces[t].outcome = Failed }),
      evaluated |-> Cardinality(Evaluated(T)),
      quality |-> MapThenSumSet(LAMBDA t : traces[t].outcome, Evaluated(T)) ]

Until == now - Grace
Challengers(row) == InWindow(row.app, "challenger", row.since, Until)
Incumbents(row) == InWindow(row.app, "incumbent", row.since, Until)

\* until > since and request_count >= min_sample_size
EnoughEvidence(row) ==
    /\ Until > row.since
    /\ Cardinality(Challengers(row)) >= Guard.minSampleSize

Verdict(row) == JudgeChallenger(Window(Challengers(row)), Window(Incumbents(row)), Guard)

------------------------------------------------------------------------------
(* The periodic pass of a replica *)

\* Mutant: the pass selects its rows without locking.
LockableLockedMutant == { r \in Rollouts : rows[r].stage = "running" }

\* SELECT ... WHERE stage = 'running' FOR UPDATE SKIP LOCKED
Lockable == { r \in Rollouts : rows[r].stage = "running" /\ lock[r] = NoOne }

\* run_once takes the loop's advisory lock, or skips the pass; the pass locks
\* the running rows that nobody holds.  A pass with no row has no effect.
PassStart(w) ==
    /\ leader = NoOne
    /\ Held(w) = {}
    /\ Lockable # {}
    /\ leader' = w
    /\ lock' = [r \in Rollouts |-> IF r \in Lockable THEN w ELSE lock[r]]
    /\ draft' = [draft EXCEPT ![w] =
                   [r \in Rollouts |-> IF r \in Lockable THEN rows[r] ELSE NoRow]]
    /\ todo' = [todo EXCEPT ![w] = Lockable]
    /\ UNCHANGED <<now, rows, creating, down, traces, announced, faults>>

Decided(w, r) ==
    /\ todo' = [todo EXCEPT ![w] = @ \ {r}]
    /\ UNCHANGED <<now, rows, lock, leader, creating, down, traces, faults>>

\* Mutant: the health rollback forgets its alert.
DecideUnhealthyMutant(w, r) ==
    /\ r \in todo[w]
    /\ down # {}
    /\ draft' = [draft EXCEPT ![w][r] = [@ EXCEPT !.stage = "rolled_back",
                                                  !.traffic = 0, !.since = now]]
    /\ UNCHANGED announced
    /\ Decided(w, r)

\* Either arm's model is flagged down: roll back at once, without evidence.
\* The webhook is called before the transaction commits.
DecideUnhealthy(w, r) ==
    /\ r \in todo[w]
    /\ down # {}
    /\ draft' = [draft EXCEPT ![w][r] = [@ EXCEPT !.stage = "rolled_back",
                                                  !.traffic = 0, !.since = now]]
    /\ announced' = announced \cup {r}
    /\ Decided(w, r)

\* Mutant: a thin window is discarded.
DecideLaterMutant(w, r) ==
    /\ r \in todo[w]
    /\ down = {}
    /\ ~EnoughEvidence(draft[w][r])
    /\ draft' = [draft EXCEPT ![w][r].since = IF Until > @ THEN Until ELSE @]
    /\ UNCHANGED announced
    /\ Decided(w, r)

\* Too little evidence: the cursor stays where it is.
DecideLater(w, r) ==
    /\ r \in todo[w]
    /\ down = {}
    /\ ~EnoughEvidence(draft[w][r])
    /\ UNCHANGED <<draft, announced>>
    /\ Decided(w, r)

\* A gate is violated: roll back and alert.
DecideRollback(w, r) ==
    LET row == draft[w][r]
    IN  /\ r \in todo[w]
        /\ down = {}
        /\ EnoughEvidence(row)
        /\ Verdict(row) # "none"
        /\ draft' = [draft EXCEPT ![w][r] =
                       [row EXCEPT !.stage = "rolled_back", !.traffic = 0,
                                   !.since = Until,
                                   !.evidence = row.evidence \cup Challengers(row)]]
        /\ announced' = announced \cup {r}
        /\ Decided(w, r)

\* Healthy: step traffic up, and promote on reaching the ceiling.
DecideAdvance(w, r) ==
    LET row == draft[w][r]
        next == NextTraffic(row.traffic, StepPct, MaxPct)
    IN  /\ r \in todo[w]
        /\ down = {}
        /\ EnoughEvidence(row)
        /\ Verdict(row) = "none"
        /\ draft' = [draft EXCEPT ![w][r] =
                       [row EXCEPT !.stage = IF next.promoted THEN "promoted" ELSE row.stage,
                                   !.traffic = next.traffic, !.since = Until,
                                   !.evidence = row.evidence \cup Challengers(row)]]
        /\ UNCHANGED announced
        /\ Decided(w, r)

\* Mutant: the session-level lock is stranded on its connection.
FreeLeaderMutant(w) == leader' = leader

FreeLeader(w) == leader' = IF leader = w THEN NoOne ELSE leader

PassCommit(w) ==
    /\ Held(w) # {}
    /\ todo[w] = {}
    /\ Commit(w)
    /\ FreeLeader(w)
    /\ UNCHANGED <<now, todo, creating, down, traces, faults>>

\* The replica dies, or its pass raises: the session rolls back, and both
\* kinds of lock go with their connections.
PassFail(w) ==
    /\ Held(w) # {}
    /\ Fault
    /\ Abort(w)
    /\ FreeLeader(w)
    /\ todo' = [todo EXCEPT ![w] = {}]
    /\ UNCHANGED <<now, creating, down, traces>>

\* The dedicated connection of the advisory lock dies under a running pass.
LeaderLost(w) ==
    /\ leader = w
    /\ Fault
    /\ leader' = NoOne
    /\ UNCHANGED <<now, tableVars, todo, creating, down, traces>>

------------------------------------------------------------------------------
(* The operators' endpoints *)

Idle(o) == Held(o) = {} /\ creating[o] = NoApp

\* Get the row FOR UPDATE, check its stage, write; the commit comes later.
Write(o, r, new) ==
    /\ Idle(o)
    /\ lock[r] = NoOne
    /\ lock' = [lock EXCEPT ![r] = o]
    /\ draft' = [draft EXCEPT ![o][r] = new]
    /\ UNCHANGED <<now, rows, leader, todo, creating, down, traces, announced, faults>>

Pause(o, r) ==
    /\ rows[r].stage = "running"
    /\ Write(o, r, [rows[r] EXCEPT !.stage = "paused"])

Resume(o, r) ==
    /\ rows[r].stage = "paused"
    /\ Write(o, r, [rows[r] EXCEPT !.stage = "running"])

Promote(o, r) ==
    /\ rows[r].stage \in Active
    /\ Write(o, r, [rows[r] EXCEPT !.stage = "promoted", !.traffic = MaxPct,
                                   !.since = now])

Rollback(o, r) ==
    /\ rows[r].stage \in Active
    /\ Write(o, r, [rows[r] EXCEPT !.stage = "rolled_back", !.traffic = 0,
                                   !.since = now])

OperatorCommit(o) ==
    /\ Held(o) # {}
    /\ Commit(o)
    /\ UNCHANGED <<now, leader, todo, creating, down, traces, faults>>

OperatorFail(o) ==
    /\ Held(o) # {}
    /\ Fault
    /\ Abort(o)
    /\ UNCHANGED <<now, leader, todo, creating, down, traces>>

\* create_rollout's friendly checks: the challenger is not down, and the
\* application's newest rollout is not active.
CreateCheck(o, a) ==
    /\ Idle(o)
    /\ "challenger" \notin down
    /\ \A r \in OfApp(a) : IsLatest(r, a) => rows[r].stage \notin Active
    /\ creating' = [creating EXCEPT ![o] = a]
    /\ UNCHANGED <<now, tableVars, leader, todo, down, traces, faults>>

ActiveFor(a) == { r \in Rollouts : rows[r].stage \in Active /\ rows[r].app = a }

\* Mutant: no unique index, only create_rollout's own check.
IndexAdmitsMutant(a) == TRUE

\* uq_model_rollouts_one_active_per_app
IndexAdmits(a) == ActiveFor(a) = {}

\* The insert, under the partial unique index on active rollouts.
CreateInsert(o, r) ==
    LET a == creating[o]
    IN  /\ a # NoApp
        /\ IndexAdmits(a)
        /\ rows[r] = NoRow
        /\ \A q \in 1..(r - 1) : rows[q] # NoRow
        /\ \E pct \in InitialPcts :
             LET row == [ stage |-> "running", app |-> a, traffic |-> pct,
                          created |-> now, since |-> now, initial |-> pct,
                          evidence |-> {} ]
             IN  rows' = [rows EXCEPT ![r] = row]
        /\ creating' = [creating EXCEPT ![o] = NoApp]
        /\ UNCHANGED <<now, draft, lock, leader, todo, down, traces, announced, faults>>

\* The index refuses the insert: 409.  A row whose holder is ending it makes
\* the insert wait for that transaction instead.
CreateConflict(o) ==
    /\ creating[o] # NoApp
    /\ \E r \in ActiveFor(creating[o]) : \A p \in Owners :
         r \in Held(p) => draft[p][r].stage \in Active
    /\ creating' = [creating EXCEPT ![o] = NoApp]
    /\ UNCHANGED <<now, tableVars, leader, todo, down, traces, faults>>

------------------------------------------------------------------------------
Decide(w, r) ==
    \/ DecideUnhealthy(w, r)
    \/ DecideLater(w, r)
    \/ DecideRollback(w, r)
    \/ DecideAdvance(w, r)

Pass(w) ==
    \/ PassStart(w)
    \/ \E r \in Rollouts : Decide(w, r)
    \/ PassCommit(w)
    \/ PassFail(w)
    \/ LeaderLost(w)

Operator(o) ==
    \/ \E r \in Rollouts : Pause(o, r) \/ Resume(o, r) \/ Promote(o, r) \/ Rollback(o, r)
    \/ OperatorCommit(o)
    \/ OperatorFail(o)
    \/ \E a \in Apps : CreateCheck(o, a)
    \/ \E r \in Rollouts : CreateInsert(o, r)
    \/ CreateConflict(o)

Traffic ==
    \/ \E t \in Traces, a \in Apps, arm \in Arms : Serve(t, a, arm)
    \/ \E t \in Traces : CommitTrace(t) \/ Score(t)
    \/ \E arm \in Arms : Flag(arm)

Next ==
    \/ \E w \in Replicas : Pass(w)
    \/ \E o \in Operators : Operator(o)
    \/ Traffic
    \/ Tick

Spec == Init /\ [][Next]_vars

\* Every replica runs its loop for ever, a pass it started goes on to its
\* commit, and a request's transaction ends (worker/periodic.py, get_db).
Fairness ==
    /\ WF_vars(\E w \in Replicas : PassStart(w))
    /\ \A w \in Replicas :
         /\ \A r \in Rollouts : WF_vars(Decide(w, r))
         /\ WF_vars(PassCommit(w))
    /\ \A o \in Operators : WF_vars(OperatorCommit(o))

FairSpec == Spec /\ Fairness

------------------------------------------------------------------------------
(* Properties *)

\* An active rollout is the one get_active_rollout returns, so it routes its
\* application's traffic: creates race, and only the partial unique index
\* keeps a second active rollout from hiding the first (services/rollouts.py).
ServedRollout ==
    \A r \in Rollouts : rows[r].stage \in Active => IsLatest(r, rows[r].app)

\* The challenger's traffic never outruns its evidence: every step up took
\* min_sample_size challenger requests that no earlier step had counted, however
\* passes of several replicas, crashes, lost locks and operators interleave
\* (core/locks.py: two replicas would double-step a rollout).
TrafficBacked ==
    \A r \in Rollouts :
        rows[r].stage \in Active =>
            rows[r].traffic <= rows[r].initial
              + StepPct * (Cardinality(rows[r].evidence) \div Guard.minSampleSize)

\* The cursor never passes a challenger request unseen: one created after the
\* rollout and no later than its cursor was part of a decision
\* (worker/tasks/rollout.py:13-16, it doesn't discard thin windows).
NoEvidenceSkipped ==
    \A r \in Rollouts, t \in Traces :
        /\ rows[r].stage \in Active
        /\ traces[t].state = "committed"
        /\ traces[t].app = rows[r].app
        /\ traces[t].arm = "challenger"
        /\ traces[t].at > rows[r].created
        /\ traces[t].at <= rows[r].since
        => t \in rows[r].evidence

\* A rollback that a pass commits has been sent to the alert webhook.
AutoRollbackAnnounced ==
    [][\A w \in Replicas, r \in Rollouts :
         /\ PassCommit(w)
         /\ r \in Held(w)
         /\ rows[r].stage = "running"
         /\ rows'[r].stage = "rolled_back"
         => r \in announced]_vars

\* The committed table moves as RolloutLifecycle says: no decision of an
\* operator is overwritten by a pass or another operator, and terminal
\* rollouts stay as they are.
Entry(row) == [ stage |-> row.stage, key |-> row.app, traffic |-> row.traffic ]
Table == [r \in Rollouts |-> Entry(rows[r])]
Lifecycle == INSTANCE RolloutLifecycle WITH Keys <- Apps, table <- Table
LifecycleSpec == Lifecycle!Spec

\* A transaction selected its rows under their locks, and they are still active
\* in the committed table, one lifecycle move from its version of them.
OneMove(old, new) ==
    Entry(new) = Entry(old) \/ Lifecycle!Move(Entry(old), Entry(new))

HeldIsLocked ==
    \A p \in Owners, r \in Rollouts : r \in Held(p) <=> lock[r] = p

DraftIsOneMove ==
    \A p \in Owners, r \in Rollouts : r \in Held(p) =>
        rows[r].stage \in Active /\ OneMove(rows[r], draft[p][r])

TodoIsFresh ==
    \A w \in Replicas, r \in Rollouts : r \in todo[w] =>
        /\ r \in Held(w)
        /\ draft[w][r] = rows[r]
        /\ rows[r].stage = "running"

CreatedInOrder ==
    \A r \in Rollouts :
        /\ rows[r].stage = "none" <=> rows[r] = NoRow
        /\ rows[r] # NoRow => \A q \in 1..(r - 1) : rows[q] # NoRow

\* No transaction works on a row another one has changed since: what a pass or
\* an operator decides is decided on the row as it is when it commits
\* (worker/tasks/rollout.py:85-89, api/routers/rollouts.py:76-85).
Isolation ==
    /\ HeldIsLocked
    /\ DraftIsOneMove
    /\ TodoIsFresh
    /\ CreatedInOrder
    /\ ServedRollout

\* A running rollout with the evidence for a decision, or with a model down,
\* gets its decision (or is paused or ended by an operator), whatever replicas
\* crash and connections break on the way.
Ready(r) ==
    /\ rows[r].stage = "running"
    /\ down # {} \/ EnoughEvidence(rows[r])

ReadyIsDecided == \A r \in Rollouts : Ready(r) ~> ~Ready(r)

==============================================================================
