------------------------------- MODULE MCHealth -------------------------------
(***************************************************************************)
(* What keeps a model out of routing, and lets it in again: its status in  *)
(* the registry (ModelHealth), and what the router infers from its recent  *)
(* traces (Routing, which lets the first change at any time).  A behaviour *)
(* is one of the two; the variables of the other stay as they are.         *)
(***************************************************************************)
EXTENDS Integers, Sequences

CONSTANTS
    Parts,                                                  \* what to run
    Fleet, Operators, NoModel, Named, MinSample, MaxSample,
    Models, Profiles, Preferred, Prompts, Scale, Rounding, Scores, Latencies, NoScore, Weights,
    Depth, MinSamples, Hour

VARIABLES
    part,
    status, auto, window, pass, patch,
    called,     \* per model: the status its last PATCH has left, for all a pass may do
    late,       \* models PATCHed since the open pass has read its rows
    registry, history, chain

registryVars == << status, auto, window, pass, patch, called, late >>
routerVars == << registry, history, chain >>
healthVars == << part, registryVars, routerVars >>

H == INSTANCE ModelHealth WITH Models <- Fleet, Preferred <- Named
R == INSTANCE Routing WITH Window <- Depth

ASSUME HealthAssumption == H!HealthAssumption /\ R!RoutingAssumption

------------------------------------------------------------------------------
(* Behaviours *)

HealthInit ==
    /\ part \in Parts
    /\ IF part = "registry" THEN H!Init /\ called = status /\ late = {}
       ELSE /\ status = <<>> /\ auto = <<>> /\ window = <<>> /\ pass = <<>> /\ patch = <<>>
            /\ called = <<>> /\ late = <<>>
    /\ IF part = "router" THEN R!Init
       ELSE registry = <<>> /\ history = <<>> /\ chain = <<>>

\* An operator's PATCH of m commits.
Patched(m) == \E o \in Operators : patch[o].model = m /\ H!PatchCommit(o)

\* A pass may undo a call that was made after it had read the row.
CallsKept ==
    /\ called' = [m \in Fleet |->
           IF Patched(m) \/ (m \in late /\ H!PassCommit) THEN status'[m] ELSE called[m]]
    /\ late' = { m \in Fleet : /\ pass.step = "rows" /\ pass'.step = "rows"
                               /\ m \in late \/ Patched(m) }

InRegistry(A) == part = "registry" /\ A /\ CallsKept /\ UNCHANGED << part, routerVars >>
InRouter(A) == part = "router" /\ A /\ UNCHANGED << part, registryVars >>

HealthNext == InRegistry(H!Next) \/ InRouter(R!Next)

HealthSpec == HealthInit /\ [][HealthNext]_healthVars

\* That of the two modules, for the part that runs.
HealthFairness ==
    /\ \A m \in Fleet :
         WF_healthVars(InRegistry(\E failed \in BOOLEAN : H!Forget(m, failed)))
    /\ WF_healthVars(InRegistry(H!PassEvidence))
    /\ SF_healthVars(InRegistry(H!PassRows))
    /\ SF_healthVars(InRegistry(H!PassCommit))
    /\ WF_healthVars(InRouter(R!Tick))

FairHealthSpec == HealthSpec /\ HealthFairness

------------------------------------------------------------------------------
(* Inputs for TLC *)

\* Two models of one price and quality; the second is listed as the slower one.
TwoAlike ==
    [m \in Models |-> [ quality |-> Scale, latency |-> m + 1, price |-> 1, window |-> 1000,
                        status |-> "healthy" ]]

\* A plain question, and a risky one that asks for reasons.
PlainAndRisky ==
    { [ words |-> 10, cue |-> risky, parts |-> FALSE, context |-> 0, high |-> risky,
        override |-> FALSE ] : risky \in BOOLEAN }

\* The defaults of core/config.py, in percent.
DefaultWeights == [quality |-> 35, cost |-> 35, latency |-> 15, risk |-> 15]

------------------------------------------------------------------------------
(* Properties: those of the modules, of the part that runs *)

\* What an operator has made of a model stands while the model is pinned, through every
\* pass, crash and overlapping PATCH; only the one pass that had read the model's row
\* before the PATCH was committed may write over it (worker/tasks/model_health.py:9-11,
\* 74-77, 103-104).
PinsStand == part = "registry" => \A m \in Fleet : ~auto[m] => status[m] = called[m]

\* No model is tried before one that beats it on every count, but for what rounding
\* hides (Routing).
NeverDominated ==
    [][part = "router" => \A p \in Prompts : R!RoutedWell(p)]_healthVars

\* Nobody has to bring a model back: one that the pass has marked down and still
\* manages, or one that its recent traces speak against, is tried again in the end
\* (worker/tasks/model_health.py:15-17, routing/stats.py:18-21).
OutageEnds ==
    /\ \A m \in Fleet \ Named :
         part = "registry" /\ auto[m] /\ status[m] = "down"
            ~> part = "registry" /\ (~auto[m] \/ status[m] # "down")
    /\ \A m \in Models \ Preferred :
         part = "router" /\ R!Inferred(m) = "down"
            ~> part = "router" /\ R!Inferred(m) # "down"

==============================================================================
