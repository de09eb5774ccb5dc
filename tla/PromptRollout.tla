---------------------------- MODULE PromptRollout ----------------------------
(***************************************************************************)
(* Canary rollouts of a prompt version (services/prompt_rollouts.py,       *)
(* worker/tasks/prompt_rollout.py, api/routers/prompt_rollouts.py), for    *)
(* one application and one prompt, above the registry of its versions.     *)
(*                                                                         *)
(* The evidence and the verdict on it are those of model rollouts          *)
(* (ModelRollout, RolloutPolicy); here a verdict is any of its three       *)
(* outcomes.  What prompt rollouts add is the gate on the status of the    *)
(* challenger version, which registry requests change under a pass that    *)
(* has read it and under a create that has checked it.                     *)
(***************************************************************************)
EXTENDS PromptRegistry, RolloutPolicy

CONSTANTS
    MaxRollouts,    \* bound on rollouts
    InitialPct, StepPct, MaxPct

ASSUME RolloutAssumption ==
    /\ MaxRollouts \in Nat
    /\ InitialPct \in 0..MaxPct
    /\ StepPct \in 1..100
    /\ MaxPct \in 1..100

VARIABLES
    rollouts,   \* the rows of prompt_rollouts, oldest first
    creating,   \* per client: the arms of a checked, not yet inserted rollout
    pass        \* the evaluation pass of the worker that has the lock

rolloutVars == << rollouts, creating, pass >>
vars == << registryVars, rolloutVars >>

Active == {"running", "paused"}
Arms == { a \in [incumbent : Versions, challenger : Versions] :
            a.incumbent # a.challenger }
NoArms == [incumbent |-> 0, challenger |-> 0]
Stages == Active \cup {"promoted", "rolled_back"}

\* A row of prompt_rollouts.  Its guard rails are in the verdict.
Row == [arms : Arms, stage : Stages, traffic : 0..MaxPct]

NoPass == [step |-> "idle", row |-> 0, decision |-> "none"]
Decisions == {"none", "rollback", "advance"}

TypeOK ==
    /\ RegistryTypeOK
    /\ rollouts \in Seq(Row)
    /\ Len(rollouts) <= MaxRollouts
    /\ creating \in [Clients -> Arms \cup {NoArms}]
    /\ pass \in [step : {"idle", "gate", "judge", "commit"}, row : 0..MaxRollouts,
                 decision : Decisions]

Init ==
    /\ RegistryInit
    /\ rollouts = <<>>
    /\ creating = [c \in Clients |-> NoArms]
    /\ pass = NoPass

------------------------------------------------------------------------------
(* POST /prompt-rollouts *)

\* Mutant: a paused rollout is not in the way of a new one.
InTheWayMutant(row) == row.stage = "running"

InTheWay(row) == row.stage \in Active

\* Both versions exist, the challenger is not deprecated, and the latest
\* rollout has ended.
CreateCheck(c, arms) ==
    /\ creating[c] = NoArms
    /\ Len(rollouts) < MaxRollouts
    /\ {arms.incumbent, arms.challenger} \subseteq Existing
    /\ status[arms.challenger] # "deprecated"
    /\ rollouts # <<>> => rollouts[Len(rollouts)].stage \notin Active
    /\ creating' = [creating EXCEPT ![c] = arms]
    /\ UNCHANGED <<registryVars, rollouts, pass>>

\* uq_prompt_rollouts_one_active
IndexAdmits == \A i \in DOMAIN rollouts : ~InTheWay(rollouts[i])

CreateCommit(c) ==
    /\ creating[c] # NoArms
    /\ Len(rollouts) < MaxRollouts
    /\ IndexAdmits
    /\ rollouts' = Append(rollouts, [arms |-> creating[c], stage |-> "running",
                                     traffic |-> InitialPct])
    /\ creating' = [creating EXCEPT ![c] = NoArms]
    /\ UNCHANGED <<registryVars, pass>>

\* A conflict on the index (409), or any other failure of the request.
CreateFail(c) ==
    /\ creating[c] # NoArms
    /\ creating' = [creating EXCEPT ![c] = NoArms]
    /\ UNCHANGED <<registryVars, rollouts, pass>>

------------------------------------------------------------------------------
(* What /generate serves a request that names the prompt and no version *)

\* The latest rollout decides, whatever its stage, by a draw against its traffic.
Drawn(row) ==
    { v \in {row.arms.challenger} : row.traffic > 0 }
    \cup { v \in {row.arms.incumbent} : row.traffic < 100 }

\* A version that is asked for, or else the newest in production, if any.
Resolved(asked) ==
    IF asked # {} THEN asked \cap Existing
    ELSE { v \in Production : \A w \in Production : w <= v }

\* The versions such a request may be answered by; for none of them it is a 404.
Served == Resolved(IF rollouts = <<>> THEN {} ELSE Drawn(rollouts[Len(rollouts)]))

------------------------------------------------------------------------------
(* Operators: a FOR UPDATE read of the row, its check, its write *)

Unlocked(i) == pass.row # i

Operate(i, stages, stage, traffic) ==
    /\ Unlocked(i)
    /\ rollouts[i].stage \in stages
    /\ rollouts' = [rollouts EXCEPT ![i].stage = stage, ![i].traffic = traffic]
    /\ UNCHANGED <<registryVars, creating, pass>>

Pause(i) == Operate(i, {"running"}, "paused", rollouts[i].traffic)
Resume(i) == Operate(i, {"paused"}, "running", rollouts[i].traffic)
Settle(i) == Operate(i, Active, "promoted", MaxPct)
Rollback(i) == Operate(i, Active, "rolled_back", 0)

------------------------------------------------------------------------------
(* evaluate_prompt_rollouts *)

\* SELECT ... FOR UPDATE of the running rows: there is at most one.
PassStart ==
    /\ pass = NoPass
    /\ \E i \in DOMAIN rollouts :
         /\ rollouts[i].stage = "running"
         /\ pass' = [NoPass EXCEPT !.step = "gate", !.row = i]
    /\ UNCHANGED <<registryVars, rollouts, creating>>

\* Mutant: the gate is behind the evidence.
GateFailsMutant(v) == FALSE

\* The challenger version was deprecated: nothing else matters.
GateFails(v) == status[v] = "deprecated"

PassGate ==
    /\ pass.step = "gate"
    /\ pass' = IF GateFails(rollouts[pass.row].arms.challenger)
               THEN [pass EXCEPT !.step = "commit", !.decision = "rollback"]
               ELSE [pass EXCEPT !.step = "judge"]
    /\ UNCHANGED <<registryVars, rollouts, creating>>

\* Not enough evidence, a violated guard rail, or none.
PassJudge(decision) ==
    /\ pass.step = "judge"
    /\ pass' = [pass EXCEPT !.step = "commit", !.decision = decision]
    /\ UNCHANGED <<registryVars, rollouts, creating>>

Judge == \E decision \in Decisions : PassJudge(decision)

RolledBack(row) == [row EXCEPT !.stage = "rolled_back", !.traffic = 0]

Advanced(row) ==
    LET next == NextTraffic(row.traffic, StepPct, MaxPct)
    IN  [row EXCEPT !.traffic = next.traffic,
                    !.stage = IF next.promoted THEN "promoted" ELSE @]

PassCommit ==
    /\ pass.step = "commit"
    /\ rollouts' = [rollouts EXCEPT ![pass.row] =
          CASE pass.decision = "none"     -> @
            [] pass.decision = "rollback" -> RolledBack(@)
            [] pass.decision = "advance"  -> Advanced(@)]
    /\ pass' = NoPass
    /\ UNCHANGED <<registryVars, creating>>

\* The worker or its database session dies: nothing of the pass remains.
PassFail ==
    /\ pass # NoPass
    /\ pass' = NoPass
    /\ UNCHANGED <<registryVars, rollouts, creating>>

------------------------------------------------------------------------------
Registry == RegistryNext /\ UNCHANGED rolloutVars

CreateRollout(c) ==
    \/ \E arms \in Arms : CreateCheck(c, arms)
    \/ CreateCommit(c)
    \/ CreateFail(c)

Operator(i) == Pause(i) \/ Resume(i) \/ Settle(i) \/ Rollback(i)

PassStep ==
    \/ PassStart
    \/ PassGate
    \/ Judge
    \/ PassCommit

Next ==
    \/ Registry
    \/ \E c \in Clients : CreateRollout(c)
    \/ \E i \in DOMAIN rollouts : Operator(i)
    \/ PassStep
    \/ PassFail

Spec == Init /\ [][Next]_vars

\* The worker's loop runs for ever and does not fail for ever
\* (worker/periodic.py:73-86).
Fairness ==
    /\ WF_vars(PassStart)
    /\ SF_vars(PassGate)
    /\ SF_vars(Judge)
    /\ SF_vars(PassCommit)

FairSpec == Spec /\ Fairness

------------------------------------------------------------------------------
(* Properties *)

\* The rollout that is judged is the one that decides what is served: only the
\* newest can be active (get_latest_prompt_rollout), a request is never turned
\* away for want of a version while there is one, and a challenger that was
\* rolled back is served to nobody, before the next rollout
\* (services/prompt_rollouts.py:30-49, db/models.py:454-457).
RolloutDecides ==
    /\ \A i \in DOMAIN rollouts : rollouts[i].stage \in Active => i = Len(rollouts)
    /\ rollouts # <<>> =>
         LET latest == rollouts[Len(rollouts)]
         IN  /\ Served # {} /\ Served \subseteq {latest.arms.incumbent, latest.arms.challenger}
             /\ latest.stage = "rolled_back" => Served = {latest.arms.incumbent}

\* "promoted" pins the challenger (db/models.py:455-457).  It does not where max_pct
\* is below 100: the incumbent keeps the rest.
PromotedIsPinned ==
    rollouts # <<>> /\ rollouts[Len(rollouts)].stage = "promoted" =>
        Served = {rollouts[Len(rollouts)].arms.challenger}

Stale(i, v) ==
    /\ i \in DOMAIN rollouts
    /\ rollouts[i].stage = "running"
    /\ rollouts[i].arms.challenger = v
    /\ status[v] = "deprecated"

\* A deprecated challenger stops being rolled out, with or without evidence
\* (worker/tasks/prompt_rollout.py:9-11).
DeprecatedGoes ==
    \A i \in 1..MaxRollouts, v \in Versions : Stale(i, v) ~> ~Stale(i, v)

\* No pass promotes a challenger that has been deprecated by then.
DeprecatedNeverWins ==
    [][\A i \in DOMAIN rollouts :
         PassCommit /\ rollouts'[i].stage = "promoted" /\ rollouts[i].stage # "promoted"
            => status[rollouts[i].arms.challenger] # "deprecated"]_vars

==============================================================================
