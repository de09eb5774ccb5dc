------------------------------ MODULE Detection -------------------------------
(***************************************************************************)
(* The two loops of the worker that raise flags about what the traces      *)
(* show: alerts (worker/tasks/alerting.py), for a rule or the budget of an *)
(* application, and regressions (worker/tasks/regression.py), for a metric *)
(* of an application.                                                      *)
(*                                                                         *)
(* Both read their evidence in several statements, check that no flag for  *)
(* the same subject is younger than the dedupe window, insert, and commit  *)
(* once.  A loop's advisory lock keeps the passes of other replicas away,  *)
(* as long as its connection lasts.  The loops share nothing, so that a    *)
(* behaviour follows one of them.                                          *)
(***************************************************************************)
EXTENDS Integers, FiniteSetsExt

CONSTANTS
    Replicas,
    NoOne,
    Rules,          \* rules with a row in alert_rules
    Apps,           \* applications, which may have a budget
    Metrics,        \* what regressions are looked for in
    Rising,         \* those of them of which more is worse
    MaxTraces,
    Evaluations,    \* what an evaluation may find: per metric, its score
    Size,           \* _WINDOW_SIZE
    MinTraces,      \* the fewest traces a window is judged by
    ThresholdPct,   \* regression_threshold_pct, as each replica was started with
    Floor,          \* _ZERO_BASELINE_FLOOR
    Dedupe,         \* _DEDUPE_WINDOW
    MaxChanges,     \* bound on changes of rules, budgets and traffic
    MaxTime,        \* bound on the clock
    MaxFaults       \* bound on failed passes, lost locks and overwritten statuses

ASSUME DetectionAssumption ==
    /\ NoOne \notin Replicas
    /\ Rules \cap Apps = {} /\ (Rules \cup Apps) \cap Metrics = {}
    /\ Rising \subseteq Metrics
    /\ Evaluations \subseteq [Metrics -> Nat]
    /\ MaxTraces \in Nat
    /\ Size \in Nat \ {0} /\ MinTraces \in 1..Size
    /\ ThresholdPct \in [Replicas -> Nat] /\ Floor \in Nat \ {0}
    /\ Dedupe \in Nat
    /\ MaxChanges \in Nat /\ MaxTime \in Nat /\ MaxFaults \in Nat

Loops == {"alerting", "regression"}
Traces == 1..MaxTraces          \* in the order of created_at
Subjects == Rules \cup Apps \cup Metrics
MaxDelta == 1000                \* _MAX_DELTA_PCT

VARIABLES
    loop,       \* the loop that is followed
    now,
    disabled,   \* the rules that an operator turned off; one without a row is on
    budgeted,   \* the applications with a budget
    breaching,  \* the rules and applications beyond their threshold
    scores,     \* per trace with an evaluation: its scores
    failed,     \* the evaluated traces whose status was overwritten
    lock,       \* who holds the loop's advisory lock
    pass,
    flags,      \* the rows of alerts or regressions
    announced,  \* the alerts the webhook was called with
    changes,
    faults,
    lost        \* the lock was lost under a pass (history)

evidence == << disabled, budgeted, breaching, scores, failed, changes >>
vars == << loop, now, evidence, lock, pass, flags, announced, faults, lost >>

Steps == {"idle", "rules", "values", "judge", "apps", "current", "previous", "metrics"}

\* armed, over: of rules and applications, as read.  seen, known: the completed and
\* the evaluated traces when the current window was read (history).
NoPass ==
    [ step |-> "idle", todo |-> {}, armed |-> {}, over |-> {},
      seen |-> {}, known |-> {}, current |-> {}, previous |-> {}, drafts |-> {} ]

\* after: the faults there had been by then (history).
Flag == [subject : Subjects, at : 0..MaxTime, by : Replicas, after : 0..MaxFaults]
Pass ==
    [ step : Steps, todo : SUBSET Subjects, armed : SUBSET Subjects, over : SUBSET Subjects,
      seen : SUBSET Traces, known : SUBSET Traces,
      current : SUBSET Traces, previous : SUBSET Traces, drafts : SUBSET Flag ]

NoScores == [m \in Metrics |-> -1]
Evaluated == { t \in Traces : scores[t] # NoScores }
Completed == Evaluated \ failed

TypeOK ==
    /\ loop \in Loops
    /\ now \in 0..MaxTime
    /\ disabled \subseteq Rules
    /\ budgeted \subseteq Apps
    /\ breaching \subseteq Rules \cup Apps
    /\ scores \in [Traces -> Evaluations \cup {NoScores}]
    /\ failed \subseteq Evaluated
    /\ lock \in Replicas \cup {NoOne}
    /\ pass \in [Replicas -> Pass]
    /\ flags \subseteq Flag
    /\ announced \subseteq Flag
    /\ changes \in 0..MaxChanges
    /\ faults \in 0..MaxFaults
    /\ lost \in BOOLEAN

Init ==
    /\ loop \in Loops
    /\ now = 0
    /\ disabled = {} /\ budgeted = {} /\ breaching = {}
    /\ scores = [t \in Traces |-> NoScores] /\ failed = {}
    /\ lock = NoOne
    /\ pass = [w \in Replicas |-> NoPass]
    /\ flags = {} /\ announced = {}
    /\ changes = 0 /\ faults = 0 /\ lost = FALSE

------------------------------------------------------------------------------
(* Passes *)

Begin(w) ==
    /\ pass[w] = NoPass
    /\ lock = NoOne
    /\ lock' = w
    /\ pass' = [pass EXCEPT ![w].step = IF loop = "alerting" THEN "rules" ELSE "current"]
    /\ UNCHANGED <<loop, now, evidence, flags, announced, faults, lost>>

Move(w, p) ==
    /\ pass' = [pass EXCEPT ![w] = p]
    /\ UNCHANGED <<loop, now, lock, flags, faults, lost>>

\* Rules that have no row yet get one (ensure_default_alert_rules).
ReadRules(w) ==
    /\ pass[w].step = "rules"
    /\ Move(w, [pass[w] EXCEPT !.step = "values", !.armed = Rules \ disabled])
    /\ UNCHANGED <<evidence, announced>>

\* The traffic of the last hour, the spend of the last day.
ReadValues(w) ==
    /\ pass[w].step = "values"
    /\ Move(w, [pass[w] EXCEPT !.step = "judge", !.over = breaching, !.todo = Rules])
    /\ UNCHANGED <<evidence, announced>>

\* _evaluate_application_budgets, after the rules.
ReadApps(w) ==
    /\ pass[w].step = "judge" /\ pass[w].todo = {}
    /\ Move(w, [pass[w] EXCEPT !.step = "apps", !.armed = budgeted, !.todo = Apps])
    /\ UNCHANGED <<evidence, announced>>

\* Completed traces, the newest first.
RankOf(t) == Cardinality({ u \in Completed : u > t })
Window(offset) == { t \in Completed : RankOf(t) \in offset..(offset + Size - 1) }

ReadCurrent(w) ==
    /\ pass[w].step = "current"
    /\ Move(w, [pass[w] EXCEPT !.step = "previous", !.current = Window(0),
                               !.seen = Completed, !.known = Evaluated])
    /\ UNCHANGED <<evidence, announced>>

\* Mutant: one trace between the windows belongs to neither.
OffsetMutant == Size + 1

Offset == Size

ReadPrevious(w) ==
    /\ pass[w].step = "previous"
    /\ LET previous == Window(Offset)
           enough == /\ Cardinality(pass[w].current) >= MinTraces
                     /\ Cardinality(previous) >= MinTraces
       IN  Move(w, [pass[w] EXCEPT !.step = "metrics", !.previous = previous,
                                   !.todo = IF enough THEN Metrics ELSE {}])
    /\ UNCHANGED <<evidence, announced>>

------------------------------------------------------------------------------
(* The judgement on one subject *)

Total(m, traces) == MapThenSumSet(LAMBDA t : scores[t][m], traces)

\* More of a rising metric is worse: by at least so many percent of what it was, or
\* of the floor from zero, the change capped.  There is nothing to fall from at zero.
\* Averages are cross-multiplied.
Declined(pct, m, current, previous) ==
    LET was == Total(m, previous) * Cardinality(current)
        is  == Total(m, current) * Cardinality(previous)
        floor == Floor * Cardinality(current) * Cardinality(previous)
        Exceeds(rise, base) == 100 * rise >= pct * base
    IN  \/ /\ m \in Rising /\ pct <= MaxDelta
           /\ \/ was = 0 /\ is >= floor /\ Exceeds(is, floor)
              \/ was > 0 /\ Exceeds(is - was, was)
        \/ m \notin Rising /\ was > 0 /\ Exceeds(was - is, was)

Bad(w, s) ==
    IF s \in Metrics THEN Declined(ThresholdPct[w], s, pass[w].current, pass[w].previous)
                     ELSE s \in pass[w].armed \cap pass[w].over

\* Mutant: a flag that is exactly as old as the window does not count.
RecentMutant(flag) == flag.at > now - Dedupe

\* Mutant: once flagged, never again.
RecentForEverMutant(flag) == TRUE

Recent(flag) == flag.at >= now - Dedupe

\* Committed flags, and those of the own session.
Flagged(w, s) == \E flag \in flags \cup pass[w].drafts : flag.subject = s /\ Recent(flag)

\* Rules and metrics are gone through in the order they are listed in.
First(todo) == CHOOSE s \in todo : TRUE

Judging(w, s) ==
    /\ pass[w].step \in {"judge", "apps", "metrics"}
    /\ s \in pass[w].todo
    /\ s \notin Apps => s = First(pass[w].todo)

Dismiss(w, s) ==
    /\ Judging(w, s)
    /\ ~Bad(w, s) \/ Flagged(w, s)
    /\ Move(w, [pass[w] EXCEPT !.todo = @ \ {s}])
    /\ UNCHANGED <<evidence, announced>>

\* An alert is sent to the webhook before its row is committed.
Raise(w, s) ==
    /\ Judging(w, s)
    /\ Bad(w, s) /\ ~Flagged(w, s)
    /\ LET flag == [subject |-> s, at |-> now, by |-> w, after |-> faults]
       IN  /\ Move(w, [pass[w] EXCEPT !.todo = @ \ {s}, !.drafts = @ \cup {flag}])
           /\ announced' = IF loop = "alerting" THEN announced \cup {flag} ELSE announced
    /\ UNCHANGED evidence

End(w) ==
    /\ pass' = [pass EXCEPT ![w] = NoPass]
    /\ lock' = IF lock = w THEN NoOne ELSE lock
    /\ UNCHANGED <<loop, now, evidence, announced, lost>>

Commit(w) ==
    /\ pass[w].step \in {"apps", "metrics"} /\ pass[w].todo = {}
    /\ End(w)
    /\ flags' = flags \cup pass[w].drafts
    /\ UNCHANGED faults

------------------------------------------------------------------------------
(* Faults, and the rest of the system *)

Fault == faults < MaxFaults /\ faults' = faults + 1

\* The pass fails or its replica dies: its session is rolled back.
Fail(w) ==
    /\ Fault
    /\ pass[w] # NoPass
    /\ End(w)
    /\ UNCHANGED flags

\* The connection of the advisory lock breaks, and the pass goes on.
LoseLock(w) ==
    /\ Fault
    /\ lock = w
    /\ lock' = NoOne
    /\ lost' = TRUE
    /\ UNCHANGED <<loop, now, evidence, pass, flags, announced>>

Environment ==
    UNCHANGED <<loop, now, lock, pass, flags, announced, faults, lost>>

Change == Environment /\ changes < MaxChanges /\ changes' = changes + 1

\* PATCH /alerts/rules/{rule}
SetRule(r) ==
    /\ loop = "alerting"
    /\ Change
    /\ disabled' \in { disabled \ {r}, disabled \cup {r} }
    /\ UNCHANGED <<budgeted, breaching, scores, failed>>

SetBudget(a) ==
    /\ loop = "alerting"
    /\ Change
    /\ budgeted' \in { budgeted \ {a}, budgeted \cup {a} }
    /\ UNCHANGED <<disabled, breaching, scores, failed>>

\* Traffic, spend or a threshold changes.
Breach(s) ==
    /\ loop = "alerting"
    /\ Change
    /\ breaching' \in { breaching \ {s}, breaching \cup {s} }
    /\ UNCHANGED <<disabled, budgeted, scores, failed>>

\* Evaluations complete in any order.
Complete(t) ==
    /\ loop = "regression"
    /\ Environment
    /\ t \notin Evaluated
    /\ \E e \in Evaluations : scores' = [scores EXCEPT ![t] = e]
    /\ UNCHANGED <<disabled, budgeted, breaching, failed, changes>>

\* A consumer that failed writes its status over another's (EvaluationQueue, Failed);
\* the evaluation stays.
Overwrite(t) ==
    /\ loop = "regression"
    /\ Fault
    /\ t \in Completed
    /\ failed' = failed \cup {t}
    /\ UNCHANGED <<loop, now, disabled, budgeted, breaching, scores, changes>>
    /\ UNCHANGED <<lock, pass, flags, announced, lost>>

Tick ==
    /\ now < MaxTime
    /\ now' = now + 1
    /\ UNCHANGED <<loop, evidence, lock, pass, flags, announced, faults, lost>>

PassStep(w) ==
    \/ ReadRules(w) \/ ReadValues(w) \/ ReadApps(w)
    \/ ReadCurrent(w) \/ ReadPrevious(w)
    \/ \E s \in Subjects : Dismiss(w, s) \/ Raise(w, s)
    \/ Commit(w)

Next ==
    \/ \E w \in Replicas : Begin(w) \/ PassStep(w) \/ Fail(w) \/ LoseLock(w)
    \/ \E r \in Rules : SetRule(r)
    \/ \E a \in Apps : SetBudget(a)
    \/ \E s \in Rules \cup Apps : Breach(s)
    \/ \E t \in Traces : Complete(t) \/ Overwrite(t)
    \/ Tick

Spec == Init /\ [][Next]_vars

\* run_periodic begins a pass again and again, and whatever a pass awaits comes.
Fairness ==
    /\ WF_vars(\E w \in Replicas : Begin(w))
    /\ \A w \in Replicas : WF_vars(PassStep(w))

FairSpec == Spec /\ Fairness

------------------------------------------------------------------------------
(* Properties *)

\* A persistent breach does not spam (alerting.py:1-3).  Unless the advisory lock was
\* lost, for dedupe is a check before an insert (docs/design-decisions.md:293-295), no
\* subject has two rows within the dedupe window, neither by overlapping passes nor by
\* one that was cut short.  The webhook is called before the commit: receivers are
\* told again within the window, but only of an alert that its pass failed to record.
OncePerWindow ==
    LET Repeats(f, g) == /\ f # g /\ f.subject = g.subject
                         /\ f.at - g.at <= Dedupe /\ g.at - f.at <= Dedupe
    IN  ~lost =>
          /\ \A f, g \in flags : ~Repeats(f, g)
          /\ \A f, g \in announced : Repeats(f, g) =>
                /\ f.after # g.after
                /\ f.after < g.after => f \notin flags

\* Between the two windows a regression is judged by no trace is left out, but for as
\* many as lost their status after the first read; and none that was completed by the
\* first read is in both without another that was evaluated since (regression.py:1-3,
\* "the window immediately before it").
WindowsAdjoin ==
    \A w \in Replicas :
        LET p == pass[w]
            LeftOut == { t \in p.seen \cap Completed :
                           /\ \A u \in p.current : t < u
                           /\ \E u \in p.previous : u < t
                           /\ t \notin p.previous }
        IN  p.step = "metrics" /\ Cardinality(p.current) = Size =>
              /\ Cardinality(LeftOut) <= Cardinality(p.seen \ Completed)
              /\ Cardinality(p.current \cap p.previous)
                   <= Cardinality(Evaluated \ p.known)

\* Whatever is flagged as a regression, some trace of the current window is worse than
\* one of the window before, by the threshold of the replica that flagged it; where
\* the window before is all zero, by the floor.  With a threshold of zero, which
\* config.py:47 allows, that may be no worse.
DeclineIsReal ==
    \A w \in Replicas : \A f \in pass[w].drafts :
        LET m == f.subject
            p == pass[w]
            Worse(t, u) == IF m \in Rising THEN scores[t][m] - scores[u][m]
                                           ELSE scores[u][m] - scores[t][m]
        IN  m \in Metrics =>
              \E t \in p.current, u \in p.previous :
                  /\ 100 * Worse(t, u) >= ThresholdPct[w] * scores[u][m]
                  /\ ThresholdPct[w] > 0 => Worse(t, u) > 0
                  /\ (\A v \in p.previous : scores[v][m] = 0) =>
                       m \in Rising /\ Worse(t, u) >= Floor

\* A regression compares two windows that adjoin, and reports one that is there.
RegressionIsJudgedFairly == WindowsAdjoin /\ DeclineIsReal

Persists(s) ==
    /\ s \in breaching
    /\ s \in (Rules \ disabled) \cup budgeted

\* A breach that persists is on the list of recent alerts, again once its last
\* alert is out of the dedupe window, although passes fail and locks are lost.
BreachIsRaised ==
    \A s \in Rules \cup Apps :
        <>[]Persists(s) => []<>(\E f \in flags : f.subject = s /\ f.at >= now - Dedupe)

\* An alert the webhook was called with is on record by the time nobody is at work.
NothingRetracted == (\A w \in Replicas : pass[w] = NoPass) => announced = flags

==============================================================================
