------------------------------ MODULE ModelHealth ------------------------------
(***************************************************************************)
(* The health of the models SentinelLLM routes to: a periodic pass flips   *)
(* models between healthy, degraded and down by their error rate over a    *)
(* trailing window (worker/tasks/model_health.py), operators override it   *)
(* (PATCH /models/{id}), and the router leaves out what is down            *)
(* (services/generation.py).                                               *)
(*                                                                         *)
(* The pass and a PATCH are READ COMMITTED transactions of an ORM: each    *)
(* reads a row, locks nothing, and at its commit writes only the columns   *)
(* it set to another value than it read.                                   *)
(***************************************************************************)
EXTENDS Integers

CONSTANTS
    Models,
    Operators,
    NoModel,
    Preferred,      \* models that callers name themselves, past the router
    MinSample,      \* _MIN_SAMPLE
    MaxSample       \* bound on the requests a window holds

\* Of the constants; assumed by the module that instantiates this one.
HealthAssumption ==
    /\ NoModel \notin Models
    /\ Preferred \subseteq Models
    /\ MinSample \in Nat \ {0}
    /\ MaxSample \in Nat

Health == {"healthy", "degraded", "down"}
Tallies == { w \in [requests : 0..MaxSample, errors : 0..MaxSample] :
              w.errors <= w.requests }
Empty == [requests |-> 0, errors |-> 0]

VARIABLES
    status, auto,   \* per model: status and status_auto, as committed
    window,         \* per model: its evidence in the trailing window
    pass,           \* the open pass: its step and what it has read
    patch           \* per operator: the open PATCH

vars == << status, auto, window, pass, patch >>

\* A PATCH sets the status, status_auto, or both.
Payloads == [status : Health \cup {"unset"}, auto : BOOLEAN]

NoPass == [step |-> "idle",
           evidence |-> [m \in Models |-> Empty],
           rows |-> {},
           read |-> [m \in Models |-> "healthy"]]
NoPatch == [model |-> NoModel, read |-> "healthy", readAuto |-> FALSE,
            payload |-> [status |-> "unset", auto |-> FALSE]]

TypeOK ==
    /\ status \in [Models -> Health]
    /\ auto \in [Models -> BOOLEAN]
    /\ window \in [Models -> Tallies]
    /\ pass \in [step : {"idle", "evidence", "rows"},
                 evidence : [Models -> Tallies],
                 rows : SUBSET Models, read : [Models -> Health]]
    /\ patch \in [Operators -> [model : Models \cup {NoModel}, read : Health,
                                readAuto : BOOLEAN, payload : Payloads]]

Init ==
    /\ status = [m \in Models |-> "healthy"]
    /\ auto = [m \in Models |-> TRUE]
    /\ window = [m \in Models |-> Empty]
    /\ pass = NoPass
    /\ patch = [o \in Operators |-> NoPatch]

------------------------------------------------------------------------------
(* Traffic *)

Routable(m) == status[m] # "down" \/ m \in Preferred

Counted(w, failed) ==
    [requests |-> w.requests + 1, errors |-> IF failed THEN w.errors + 1 ELSE w.errors]

\* A request tries m, and m answers or fails (the trace it serves, or an entry
\* of failed_attempts).
Call(m, failed) ==
    /\ Routable(m)
    /\ window[m].requests < MaxSample
    /\ window' = [window EXCEPT ![m] = Counted(@, failed)]
    /\ UNCHANGED <<status, auto, pass, patch>>

\* The oldest piece of evidence leaves the window, a failure or not.
Forget(m, failed) ==
    /\ IF failed THEN window[m].errors > 0 ELSE window[m].errors < window[m].requests
    /\ window' = [window EXCEPT ![m] =
          [requests |-> @.requests - 1,
           errors |-> IF failed THEN @.errors - 1 ELSE @.errors]]
    /\ UNCHANGED <<status, auto, pass, patch>>

------------------------------------------------------------------------------
(* evaluate_model_health *)

\* Mutant: with no evidence, a model stays as it is.
HalfOpenMutant(current) == current

\* Down and without evidence: let fresh traffic decide.
HalfOpen(current) == IF current = "down" THEN "degraded" ELSE current

Judgeable(w) == w.requests >= MinSample

\* _DOWN_ERROR_RATE = 0.5, _DEGRADED_ERROR_RATE = 0.2
Judged(w) ==
    IF 10 * w.errors >= 5 * w.requests THEN "down"
    ELSE IF 10 * w.errors >= 2 * w.requests THEN "degraded"
    ELSE "healthy"

NewStatus(w, current) == IF Judgeable(w) THEN Judged(w) ELSE HalfOpen(current)

PassEvidence ==
    /\ pass.step = "idle"
    /\ pass' = [NoPass EXCEPT !.step = "evidence", !.evidence = window]
    /\ UNCHANGED <<status, auto, window, patch>>

\* Mutant: every model is managed.
AutoManagedMutant == Models

AutoManaged == { m \in Models : auto[m] }

PassRows ==
    /\ pass.step = "evidence"
    /\ pass' = [pass EXCEPT !.step = "rows", !.rows = AutoManaged, !.read = status]
    /\ UNCHANGED <<status, auto, window, patch>>

\* The rows whose status the pass sets to another value than it read.
SetByPass(m) ==
    m \in pass.rows /\ NewStatus(pass.evidence[m], pass.read[m]) # pass.read[m]

PassCommit ==
    /\ pass.step = "rows"
    /\ status' = [m \in Models |->
           IF SetByPass(m) THEN NewStatus(pass.evidence[m], pass.read[m])
           ELSE status[m]]
    /\ pass' = NoPass
    /\ UNCHANGED <<auto, window, patch>>

\* The worker or its session dies.
PassFail ==
    /\ pass # NoPass
    /\ pass' = NoPass
    /\ UNCHANGED <<status, auto, window, patch>>

------------------------------------------------------------------------------
(* update_model *)

PatchRead(o, m, payload) ==
    /\ patch[o] = NoPatch
    /\ patch' = [patch EXCEPT ![o] =
          [model |-> m, read |-> status[m], readAuto |-> auto[m],
           payload |-> payload]]
    /\ UNCHANGED <<status, auto, window, pass>>

Asks(p) == p.payload.status # "unset"

\* A bare status is an override: the payload's auto is then FALSE.
PatchCommit(o) ==
    LET p == patch[o] IN
    /\ p # NoPatch
    /\ status' = [status EXCEPT ![p.model] =
          IF Asks(p) /\ p.payload.status # p.read THEN p.payload.status ELSE @]
    /\ auto' = [auto EXCEPT ![p.model] =
          IF p.payload.auto # p.readAuto THEN p.payload.auto ELSE @]
    /\ patch' = [patch EXCEPT ![o] = NoPatch]
    /\ UNCHANGED <<window, pass>>

PatchFail(o) ==
    /\ patch[o] # NoPatch
    /\ patch' = [patch EXCEPT ![o] = NoPatch]
    /\ UNCHANGED <<status, auto, window, pass>>

------------------------------------------------------------------------------
Traffic(m) == \E failed \in BOOLEAN : Call(m, failed) \/ Forget(m, failed)

Pass == PassEvidence \/ PassRows \/ PassCommit

Operator(o) ==
    \/ \E m \in Models, payload \in Payloads : PatchRead(o, m, payload)
    \/ PatchCommit(o)
    \/ PatchFail(o)

Next ==
    \/ \E m \in Models : Traffic(m)
    \/ Pass
    \/ PassFail
    \/ \E o \in Operators : Operator(o)

Spec == Init /\ [][Next]_vars

\* Time passes, and the worker's loop runs for ever and does not fail for ever
\* (worker/periodic.py:73-86).
Fairness ==
    /\ \A m \in Models : WF_vars(\E failed \in BOOLEAN : Forget(m, failed))
    /\ WF_vars(PassEvidence)
    /\ SF_vars(PassRows)
    /\ SF_vars(PassCommit)

FairSpec == Spec /\ Fairness

------------------------------------------------------------------------------
(* Properties *)

\* A model that is down, and left to the pass, is tried again in the end
\* (model_health.py:15-17): it does not wait for an operator.
DownIsRetried ==
    \A m \in Models \ Preferred :
        auto[m] /\ status[m] = "down" ~> ~auto[m] \/ status[m] # "down"

\* An operator's call is never overridden by a pass.
NeverOverridden ==
    [][\A m \in Models : PassCommit /\ ~auto[m] => status'[m] = status[m]]_vars

\* The status a PATCH answers with is the status the model has.
PatchTakesEffect ==
    [][\A o \in Operators :
         PatchCommit(o) /\ Asks(patch[o])
            => status'[patch[o].model] = patch[o].payload.status]_vars

==============================================================================
