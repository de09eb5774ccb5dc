--------------------------- MODULE MCPromptRollout ---------------------------
(***************************************************************************)
(* Small instances of PromptRollout for TLC.  One run looks at two of them *)
(* ("scenes"): the registry alone, from nothing, with its experiments; and *)
(* rollouts above a registry that has its versions.                        *)
(***************************************************************************)
EXTENDS PromptRollout

\* Somebody has made an experiment.
ASSUME SceneAssumption == MaxExperiments > 0 /\ Clients # {}

VARIABLES
    scene,      \* "registry" or "rollouts": chosen at the start
    doomed,     \* rollouts whose challenger was deprecated while no pass was
                \* behind its gate, and has stayed so
    labelled,   \* versions that a PATCH or a create put in production, and no
                \* promotion since
    scanned,    \* per client: what was in production when its promotion looked
    excused     \* pairs <<u, v>> in production: v came while u was there (or u
                \* later), and not by a promotion that had found u

mcVars == << vars, scene, doomed, labelled, scanned, excused >>

RegistryScene ==
    /\ scene = "registry"
    /\ RegistryInit

\* The first version passed an experiment and is in production.
RolloutScene ==
    /\ scene = "rollouts"
    /\ status = [v \in Versions |-> IF v = 1 THEN "production" ELSE "testing"]
    /\ author = [v \in Versions |-> CHOOSE c \in Clients : TRUE]
    /\ experiments = << [version |-> 1, passed |-> TRUE] >>
    /\ request = [c \in Clients |-> None]

MCInit ==
    /\ RegistryScene \/ RolloutScene
    /\ rollouts = <<>>
    /\ creating = [c \in Clients |-> NoArms]
    /\ pass = NoPass
    /\ doomed = {}
    /\ labelled = {}
    /\ scanned = [c \in Clients |-> {}]
    /\ excused = {}

\* Bounds of a scene: no rollouts in one; no other experiment, and no PATCH to
\* production, in the other.
InScene ==
    /\ scene = "registry" => creating' = creating
    /\ scene = "rollouts" =>
         /\ experiments' = experiments
         /\ \A c \in Clients :
              request'[c].op = "relabel" => request'[c].to # "production"

IsStale(i) == Stale(i, rollouts[i].arms.challenger)

\* A promotion of v commits: v is in production by it from now on, whatever it was.
Promotes(c, v) == PromoteWrite(c) /\ request[c].version = v
Promoting(v) == \E c \in Clients : Promotes(c, v)

Arrives(v) == v \in Production' \ Production /\ ~Promoting(v)

Excusing(u, v) ==
    \/ <<u, v>> \in excused /\ ~Promoting(u) /\ ~Promoting(v)
    \/ Arrives(v)
    \/ \E c \in Clients : Promotes(c, v) /\ u \notin scanned[c]

Histories ==
    /\ labelled' = { v \in Production' : Arrives(v) \/ (v \in labelled /\ ~Promoting(v)) }
    /\ scanned' = [c \in Clients |->
           IF request'[c].op # "promote" THEN {}
           ELSE IF request[c].op = "gated" THEN Production ELSE scanned[c]]
    /\ excused' = { p \in Production' \X Production' : p[1] # p[2] /\ Excusing(p[1], p[2]) }

MCNext ==
    /\ Next
    /\ InScene
    /\ UNCHANGED scene
    /\ doomed' = { i \in DOMAIN rollouts :
                      IsStale(i)' /\ (i \in doomed \/ pass'.step \in {"idle", "gate"}) }
    /\ Histories

MCSpec == MCInit /\ [][MCNext]_mcVars

MCFairSpec == MCSpec /\ Fairness

\* A version is in production because somebody labelled it so or because an experiment
\* of it passed, and two are there together only if the later one was labelled so or
\* was promoted by somebody who had looked for others before the earlier one arrived:
\* a promotion leaves none of those it found (services/prompts.py:3-12,
\* promote_prompt_version), however promotions, relabellings and runs overlap.
ProductionIsEarned ==
    /\ \A v \in Production : v \in labelled \/ \E i \in RunsOf(v) : experiments[i].passed
    /\ \A u, v \in Production : u # v => <<u, v>> \in excused \/ <<v, u>> \in excused

\* A challenger that is deprecated before a pass has looked at it is given no more
\* traffic by that pass or a later one, unless it is reinstated
\* (worker/tasks/prompt_rollout.py:87-107): only the pass that is already behind its
\* gate can still advance it.
DoomedGainNothing ==
    [][\A i \in doomed : PassCommit => rollouts'[i].traffic <= rollouts[i].traffic]_mcVars

\* A challenger that is deprecated stops being rolled out, with or without
\* evidence (worker/tasks/prompt_rollout.py:9-11), and until then gets no more traffic.
DeprecatedIsPulled == DeprecatedGoes /\ DoomedGainNothing

==============================================================================
