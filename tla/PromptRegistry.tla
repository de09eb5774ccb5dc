---------------------------- MODULE PromptRegistry ----------------------------
(***************************************************************************)
(* The versions of one prompt in SentinelLLM's registry: how a version is  *)
(* numbered, tested by experiments, promoted to production by the          *)
(* evidence-gated path and relabelled by a plain PATCH                     *)
(* (services/prompts.py, api/routers/prompts.py, services/experiments.py). *)
(*                                                                         *)
(* A request is a READ COMMITTED transaction: it reads in one or two       *)
(* statements, nothing locks what it read, and its writes take effect when *)
(* it commits.  request[c] is what the open request of client c has read.  *)
(***************************************************************************)
EXTENDS Integers, Sequences, FiniteSetsExt

CONSTANTS
    Clients,        \* concurrent writers
    Promoters,      \* those of them that promote versions
    NoOne,          \* the author of a version that does not exist
    MaxVersion,     \* bound on versions
    MaxExperiments, \* bound on experiment runs
    Relabels        \* statuses a PATCH may set

Statuses == {"draft", "testing", "production", "deprecated"}

ASSUME RegistryAssumption ==
    /\ MaxVersion \in Nat \ {0}
    /\ MaxExperiments \in Nat
    /\ Relabels \subseteq Statuses
    /\ Promoters \subseteq Clients
    /\ NoOne \notin Clients

Versions == 1..MaxVersion

VARIABLES
    status,         \* per version; "absent" if it does not exist
    author,         \* who wrote the template of a version
    experiments,    \* the rows of experiments, oldest first
    request         \* per client: the open request

registryVars == << status, author, experiments, request >>

None == [op |-> "none"]

Requests ==
    {None} \cup [op : {"create"}, version : Versions]
           \cup [op : {"relabel"}, version : Versions, read : Statuses, to : Statuses]
           \cup [op : {"gated"}, version : Versions, read : Statuses]
           \cup [op : {"promote"}, version : Versions, read : Statuses,
                 demoted : SUBSET Versions]

RegistryTypeOK ==
    /\ status \in [Versions -> Statuses \cup {"absent"}]
    /\ author \in [Versions -> Clients \cup {NoOne}]
    /\ experiments \in Seq([version : Versions, passed : BOOLEAN])
    /\ Len(experiments) <= MaxExperiments
    /\ request \in [Clients -> Requests]

RegistryInit ==
    /\ status = [v \in Versions |-> "absent"]
    /\ author = [v \in Versions |-> NoOne]
    /\ experiments = <<>>
    /\ request = [c \in Clients |-> None]

Existing == { v \in Versions : status[v] # "absent" }
Production == { v \in Versions : status[v] = "production" }

Open(c, r) == request[c] = None /\ request' = [request EXCEPT ![c] = r]
Close(c) == request' = [request EXCEPT ![c] = None]

------------------------------------------------------------------------------
(* POST /prompts: the next number, kept unique by uq_prompt_id_version *)

\* (max(version) or 0) + 1
NextVersion == Max({0} \cup Existing) + 1

Free(v) == v \notin Existing

CreateRead(c) ==
    /\ Existing # Versions
    /\ Open(c, [op |-> "create", version |-> NextVersion])
    /\ UNCHANGED <<status, author, experiments>>

CreateInsert(c, s) ==
    /\ request[c].op = "create"
    /\ Free(request[c].version)
    /\ status' = [status EXCEPT ![request[c].version] = s]
    /\ author' = [author EXCEPT ![request[c].version] = c]
    /\ Close(c)
    /\ UNCHANGED experiments

\* IntegrityError: 409
CreateConflict(c) ==
    /\ request[c].op = "create"
    /\ ~Free(request[c].version)
    /\ Close(c)
    /\ UNCHANGED <<status, author, experiments>>

------------------------------------------------------------------------------
(* PATCH /prompts/{id}/versions/{v}: the ungated path *)

RelabelRead(c, v, s) ==
    /\ v \in Existing
    /\ Open(c, [op |-> "relabel", version |-> v, read |-> status[v], to |-> s])
    /\ UNCHANGED <<status, author, experiments>>

\* An attribute set to the value that was read is no change: no UPDATE.
RelabelWrite(c) ==
    /\ request[c].op = "relabel"
    /\ LET r == request[c]
       IN  status' = [status EXCEPT ![r.version] = IF r.read = r.to THEN @ ELSE r.to]
    /\ Close(c)
    /\ UNCHANGED <<author, experiments>>

------------------------------------------------------------------------------
(* Experiments and the promotion they gate *)

\* A run commits all at once, at its end.
RunExperiment(v, passed) ==
    /\ Len(experiments) < MaxExperiments
    /\ v \in Existing
    /\ experiments' = Append(experiments, [version |-> v, passed |-> passed])
    /\ UNCHANGED <<status, author, request>>

RunsOf(v) == { i \in DOMAIN experiments : experiments[i].version = v }

\* The latest run of the version exists and passed.
Gate(v) ==
    \E i \in RunsOf(v) :
        /\ \A j \in RunsOf(v) : j <= i
        /\ experiments[i].passed

PromoteRead(c, v) ==
    /\ v \in Existing
    /\ Gate(v)
    /\ Open(c, [op |-> "gated", version |-> v, read |-> status[v]])
    /\ UNCHANGED <<status, author, experiments>>

\* PromotionGateError (400): nothing changes.
PromoteRefused(c, v) ==
    /\ request[c] = None
    /\ v \in Existing
    /\ ~Gate(v)
    /\ UNCHANGED registryVars

\* Mutant: only the versions before the promoted one are looked for.
OthersInProductionMutant(v) == { u \in Production : u < v }

OthersInProduction(v) == Production \ {v}

PromoteScan(c) ==
    /\ request[c].op = "gated"
    /\ request' = [request EXCEPT ![c] =
          [op |-> "promote", version |-> @.version, read |-> @.read,
           demoted |-> OthersInProduction(@.version)]]
    /\ UNCHANGED <<status, author, experiments>>

\* A target read as production is not written again.
Promoted(r) == IF r.read = "production" THEN {} ELSE {r.version}

PromoteWrite(c) ==
    /\ request[c].op = "promote"
    /\ status' = [v \in Versions |->
           IF v \in request[c].demoted THEN "deprecated"
           ELSE IF v \in Promoted(request[c]) THEN "production"
           ELSE status[v]]
    /\ Close(c)
    /\ UNCHANGED <<author, experiments>>

------------------------------------------------------------------------------
\* A request that fails before its commit is rolled back.
Abandon(c) ==
    /\ request[c] # None
    /\ Close(c)
    /\ UNCHANGED <<status, author, experiments>>

Create(c) ==
    \/ CreateRead(c)
    \/ \E s \in {"draft"} \cup Relabels : CreateInsert(c, s)
    \/ CreateConflict(c)

Relabel(c) ==
    \/ \E v \in Versions, s \in Relabels : RelabelRead(c, v, s)
    \/ RelabelWrite(c)

Promote(c) ==
    \/ \E v \in Versions : PromoteRead(c, v) \/ PromoteRefused(c, v)
    \/ PromoteScan(c)
    \/ PromoteWrite(c)

RegistryNext ==
    \/ \E c \in Clients : Create(c) \/ Relabel(c) \/ Abandon(c)
    \/ \E c \in Promoters : Promote(c)
    \/ \E v \in Versions, passed \in BOOLEAN : RunExperiment(v, passed)

RegistrySpec == RegistryInit /\ [][RegistryNext]_registryVars

------------------------------------------------------------------------------
(* A property that the code does not have *)

\* Only one production version at a time (services/prompts.py:7-8): two promotions
\* that overlap leave two (MCPromptRollout says what holds instead).
OneProduction == \A u, v \in Production : u = v

==============================================================================
