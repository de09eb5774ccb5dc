--------------------------- MODULE RolloutLifecycle ---------------------------
(***************************************************************************)
(* What a progressive rollout promises, with no replicas, transactions,    *)
(* locks or evidence: the table of rollouts as committed, and the moves    *)
(* one row may make.  A key is what at most one rollout may be active for: *)
(* the application of a model canary, the (application, prompt) pair of a  *)
(* prompt canary (db/models.py, the two partial unique indexes).           *)
(***************************************************************************)
EXTENDS Integers

CONSTANTS
    Keys,
    MaxRollouts,    \* bound on the rollouts ever created
    InitialPcts, StepPct, MaxPct

VARIABLE table      \* the rollouts in order of creation

Rollouts == 1..MaxRollouts

Active == {"running", "paused"}

None(r) == table[r].stage = "none"

ActiveFor(k) == { r \in Rollouts : table[r].stage \in Active /\ table[r].key = k }

Init == \A r \in Rollouts : None(r)

\* A rollout starts running when no rollout of its key is active.
Create(r, k) ==
    /\ None(r)
    /\ \A q \in 1..(r - 1) : ~None(q)
    /\ ActiveFor(k) = {}
    /\ \E pct \in InitialPcts :
         table' = [table EXCEPT ![r] =
                     [stage |-> "running", key |-> k, traffic |-> pct]]

Ended(old, stage, traffic) == [stage |-> stage, key |-> old.key, traffic |-> traffic]

\* One step of evidence: up by StepPct, and promoted on reaching the ceiling.
Advance(old, new) ==
    /\ old.stage = "running"
    /\ \/ /\ old.traffic + StepPct < MaxPct
          /\ new = [old EXCEPT !.traffic = @ + StepPct]
       \/ /\ old.traffic + StepPct >= MaxPct
          /\ new = Ended(old, "promoted", MaxPct)

Promote(old, new) ==
    /\ old.stage \in Active
    /\ new = Ended(old, "promoted", MaxPct)

Rollback(old, new) ==
    /\ old.stage \in Active
    /\ new = Ended(old, "rolled_back", 0)

Pause(old, new) ==
    /\ old.stage = "running"
    /\ new = [old EXCEPT !.stage = "paused"]

Resume(old, new) ==
    /\ old.stage = "paused"
    /\ new = [old EXCEPT !.stage = "running"]

Move(old, new) ==
    \/ Advance(old, new)
    \/ Promote(old, new)
    \/ Rollback(old, new)
    \/ Pause(old, new)
    \/ Resume(old, new)

\* One transaction moves any number of rollouts, each by one move.
MoveSome ==
    /\ table' = [r \in Rollouts |-> table'[r]]
    /\ \A r \in Rollouts : table'[r] = table[r] \/ Move(table[r], table'[r])

Next == MoveSome \/ \E r \in Rollouts, k \in Keys : Create(r, k)

Spec == Init /\ [][Next]_table

==============================================================================
