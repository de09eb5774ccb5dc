------------------------- MODULE PromptRolloutProofs -------------------------
(***************************************************************************)
(* What PromptRegistry and PromptRollout guarantee for every number of     *)
(* clients, versions, experiments and rollouts.                            *)
(***************************************************************************)
EXTENDS MCPromptRollout, SequenceTheorems, WellFoundedInduction, TLAPS

------------------------------------------------------------------------------
(* Numbering: the next version is the least that does not exist *)

\* A non-empty set of numbers has a least one.
LEMMA LeastNumber ==
    ASSUME NEW T, T \subseteq Nat, T # {}
    PROVE  \E x \in T : \A y \in T : x <= y
<1>1. PICK x \in T : \A y \in T : ~(<<y, x>> \in OpToRel(<, Nat))
  BY WFMin, NatLessThanWellFounded
<1>2. \A y \in T : ~(y < x)
  BY <1>1 DEF OpToRel
<1>3. QED
  BY <1>2

LEMMA MaxOfInterval ==
    ASSUME NEW n \in Nat
    PROVE  Max({0} \cup 1..n) = n
BY DEF Max

------------------------------------------------------------------------------
(* The registry *)

\* What a request has read is still there: a create all versions below its own,
\* the others the versions they are about.
Grounded(r) ==
    /\ r.op = "create" => 1..(r.version - 1) \subseteq Existing
    /\ r.op \in {"relabel", "gated", "promote"} => r.version \in Existing
    /\ r.op = "promote" => r.demoted \subseteq Existing

\* Versions are numbered without gaps.
Numbered ==
    /\ \A v \in Existing : 1..v \subseteq Existing
    /\ \A c \in Clients : Grounded(request[c])

RegistryInv == RegistryTypeOK /\ Numbered

LEMMA VersionBound == MaxVersion \in Nat /\ \A v \in Versions : v \in Nat /\ v >= 1
BY RegistryAssumption DEF Versions

\* NextVersion is a version nobody has, and the least one.
LEMMA NextIsFree ==
    ASSUME Numbered, Existing # Versions
    PROVE  /\ NextVersion \in Versions \ Existing
           /\ 1..(NextVersion - 1) \subseteq Existing
<1>1. Existing \subseteq Versions
  BY DEF Existing
<1>2. PICK m \in Versions \ Existing : \A v \in Versions \ Existing : m <= v
  BY <1>1, LeastNumber, VersionBound
<1>3. m - 1 \in Nat /\ m \in Nat /\ 1..(m - 1) \subseteq Existing
  <2>1. \A v \in 1..(m - 1) : v \in Versions /\ ~(m <= v)
    BY <1>2, VersionBound DEF Versions
  <2>2. QED
    BY <1>2, <2>1, VersionBound
<1>4. Existing \subseteq 1..(m - 1)
  <2> SUFFICES ASSUME NEW v \in Existing, ~(v < m) PROVE FALSE
    BY <1>1, <1>2, VersionBound DEF Versions
  <2>1. m \in 1..v
    BY <1>1, <1>2, VersionBound
  <2>2. QED
    BY <1>2, <2>1 DEF Numbered
<1>5. {0} \cup Existing = {0} \cup 1..(m - 1)
  BY <1>3, <1>4
<1>6. NextVersion = m
  BY <1>3, <1>5, MaxOfInterval DEF NextVersion
<1>7. QED
  BY <1>2, <1>3, <1>6

\* What a request record holds, by its kind.
LEMMA RequestFields ==
    ASSUME RegistryTypeOK, NEW c \in Clients
    PROVE  LET r == request[c]
           IN  /\ r.op \in {"none", "create", "relabel", "gated", "promote"}
               /\ r.op = "none" => r = None
               /\ r.op # "none" => r.version \in Versions
               /\ r.op = "relabel" => r.read \in Statuses /\ r.to \in Statuses
               /\ r.op \in {"gated", "promote"} => r.read \in Statuses
               /\ r.op = "promote" => r.demoted \subseteq Versions
<1>1. request[c] \in Requests
  BY DEF RegistryTypeOK
<1>2. QED
  BY <1>1 DEF Requests, None

LEMMA OpenRequest ==
    ASSUME RegistryTypeOK, NEW c \in Clients, NEW r \in Requests,
           request' = [request EXCEPT ![c] = r]
    PROVE  /\ request' \in [Clients -> Requests]
           /\ \A d \in Clients : request'[d] = IF d = c THEN r ELSE request[d]
BY DEF RegistryTypeOK

LEMMA CloseRequest ==
    ASSUME RegistryTypeOK, NEW c \in Clients, Close(c)
    PROVE  /\ request' \in [Clients -> Requests]
           /\ \A d \in Clients : request'[d] = IF d = c THEN None ELSE request[d]
<1>1. None \in Requests
  BY DEF Requests
<1>2. QED
  BY <1>1, OpenRequest DEF Close

\* A status once given is never taken away.
LEMMA StatusStep ==
    ASSUME RegistryTypeOK, NEW new \in Statuses, NEW v \in Versions,
           status' = [status EXCEPT ![v] = new]
    PROVE  /\ status' \in [Versions -> Statuses \cup {"absent"}]
           /\ Existing' = Existing \cup {v}
           /\ Production' \subseteq Production \cup { w \in {v} : new = "production" }
<1>1. status' \in [Versions -> Statuses \cup {"absent"}]
      /\ \A w \in Versions : status'[w] = IF w = v THEN new ELSE status[w]
  BY DEF RegistryTypeOK
<1>2. new # "absent"
  BY DEF Statuses
<1>3. QED
  BY <1>1, <1>2 DEF Existing, Production

LEMMA ExperimentStep ==
    ASSUME RegistryTypeOK, NEW v \in Versions, NEW passed \in BOOLEAN, RunExperiment(v, passed)
    PROVE  /\ experiments' \in Seq([version : Versions, passed : BOOLEAN])
           /\ Len(experiments') <= MaxExperiments
           /\ \A w : RunsOf(w) \subseteq RunsOf(w)'
           /\ \A i \in DOMAIN experiments : experiments'[i] = experiments[i]
<1>1. [version |-> v, passed |-> passed] \in [version : Versions, passed : BOOLEAN]
  OBVIOUS
<1>2. experiments' = Append(experiments, [version |-> v, passed |-> passed])
      /\ Len(experiments) < MaxExperiments
  BY DEF RunExperiment
<1>3. experiments \in Seq([version : Versions, passed : BOOLEAN])
  BY DEF RegistryTypeOK
<1>4. /\ experiments' \in Seq([version : Versions, passed : BOOLEAN])
      /\ Len(experiments') = Len(experiments) + 1
      /\ \A i \in 1..Len(experiments) : experiments'[i] = experiments[i]
  BY <1>1, <1>2, <1>3
<1>5. DOMAIN experiments = 1..Len(experiments) /\ DOMAIN experiments' = 1..Len(experiments')
  BY <1>3, <1>4
<1>6. Len(experiments) \in Nat
  BY <1>3
<1>7. QED
  BY <1>2, <1>4, <1>5, <1>6, RegistryAssumption DEF RunsOf

\* Numbered survives whenever versions are only added in order.
LEMMA NumberedKept ==
    ASSUME Numbered, Existing \subseteq Existing',
           \A v \in Existing' \ Existing : 1..(v - 1) \subseteq Existing',
           \A c \in Clients : Grounded(request'[c])
    PROVE  Numbered'
<1>1. ASSUME NEW v \in Existing' PROVE 1..v \subseteq Existing'
  <2>1. CASE v \in Existing
    BY <2>1 DEF Numbered
  <2>2. CASE v \notin Existing
    <3>1. v \in Nat /\ 1..(v - 1) \subseteq Existing'
      BY <2>2, VersionBound DEF Existing
    <3>2. QED
      BY <3>1, <1>1
  <2>3. QED
    BY <2>1, <2>2
<1>2. ASSUME NEW c \in Clients PROVE Grounded(request[c])'
  <2>1. Grounded(request'[c])
    OBVIOUS
  <2>2. QED
    BY <2>1 DEF Grounded
<1>3. QED
  BY <1>1, <1>2 DEF Numbered

LEMMA NoneGrounded == Grounded(None)
BY DEF Grounded, None

\* A step of one client that writes statuses of versions that exist, or the next
\* one, and opens a grounded request or closes its own.
LEMMA ClientStep ==
    ASSUME RegistryInv, NEW c \in Clients, NEW r \in Requests, Grounded(r),
           request' = [request EXCEPT ![c] = r],
           status' \in [Versions -> Statuses \cup {"absent"}],
           author' \in [Versions -> Clients \cup {NoOne}],
           experiments' = experiments,
           Existing \subseteq Existing',
           \A v \in Existing' \ Existing : 1..(v - 1) \subseteq Existing'
    PROVE  RegistryInv' /\ Existing \subseteq Existing'
<1>1. RegistryTypeOK /\ Numbered
  BY DEF RegistryInv
<1>2. /\ request' \in [Clients -> Requests]
      /\ \A d \in Clients : request'[d] = IF d = c THEN r ELSE request[d]
  BY <1>1, OpenRequest
<1>3. RegistryTypeOK'
  BY <1>1, <1>2 DEF RegistryTypeOK
<1>4. \A d \in Clients : Grounded(request'[d])
  BY <1>1, <1>2 DEF Numbered
<1>5. QED
  BY <1>1, <1>3, <1>4, NumberedKept DEF RegistryInv

\* Every step of the registry keeps types and numbering, and takes no version away.
LEMMA RegistryStep ==
    ASSUME RegistryInv, [RegistryNext]_registryVars
    PROVE  RegistryInv' /\ Existing \subseteq Existing'
<1> DEFINE Goal == RegistryInv' /\ Existing \subseteq Existing'
<1>1. RegistryTypeOK /\ Numbered
  BY DEF RegistryInv
<1>2. CASE UNCHANGED registryVars
  BY <1>1, <1>2 DEF registryVars, RegistryInv, RegistryTypeOK, Numbered, Grounded, Existing
<1>3. /\ status \in [Versions -> Statuses \cup {"absent"}]
      /\ author \in [Versions -> Clients \cup {NoOne}]
      /\ None \in Requests /\ Grounded(None)
  BY <1>1, NoneGrounded DEF RegistryTypeOK, Requests
<1>4. ASSUME NEW c \in Clients, NEW r \in Requests, Grounded(r),
             request' = [request EXCEPT ![c] = r],
             UNCHANGED <<status, author, experiments>>
      PROVE  Goal
  <2>1. Existing' = Existing
    BY <1>4 DEF Existing
  <2>2. QED
    BY <1>3, <1>4, <2>1, ClientStep
<1>5. ASSUME NEW c \in Clients, Create(c) PROVE Goal
  <2>1. CASE CreateRead(c)
    <3>1. NextVersion \in Versions /\ 1..(NextVersion - 1) \subseteq Existing
      BY <1>1, <2>1, NextIsFree DEF CreateRead
    <3>2. PICK r : r = [op |-> "create", version |-> NextVersion]
      OBVIOUS
    <3>3. r \in Requests
      BY <3>1, <3>2 DEF Requests
    <3>4. Grounded(r)
      BY <3>1, <3>2 DEF Grounded
    <3>5. QED
      BY <1>4, <2>1, <3>2, <3>3, <3>4 DEF CreateRead, Open
  <2>2. ASSUME NEW s \in {"draft"} \cup Relabels, CreateInsert(c, s) PROVE Goal
    <3>1. s \in Statuses
      BY RegistryAssumption DEF Statuses
    <3>2. PICK v : v = request[c].version
      OBVIOUS
    <3>3. v \in Versions /\ 1..(v - 1) \subseteq Existing
      BY <1>1, <2>2, <3>2, RequestFields DEF CreateInsert, Numbered, Grounded
    <3>4. status' = [status EXCEPT ![v] = s]
      BY <2>2, <3>2 DEF CreateInsert
    <3>5. /\ status' \in [Versions -> Statuses \cup {"absent"}]
          /\ Existing' = Existing \cup {v}
      BY <1>1, <3>1, <3>3, <3>4, StatusStep
    <3>6. author' \in [Versions -> Clients \cup {NoOne}]
      BY <1>3, <2>2 DEF CreateInsert
    <3>7. QED
      BY <1>3, <2>2, <3>3, <3>5, <3>6, ClientStep DEF CreateInsert, Close
  <2>3. CASE CreateConflict(c)
    BY <1>3, <1>4, <2>3 DEF CreateConflict, Close
  <2>4. QED
    BY <1>5, <2>1, <2>2, <2>3 DEF Create
<1>6. ASSUME NEW c \in Clients, Relabel(c) PROVE Goal
  <2>1. ASSUME NEW v \in Versions, NEW s \in Relabels, RelabelRead(c, v, s) PROVE Goal
    <3>1. PICK r : r = [op |-> "relabel", version |-> v, read |-> status[v], to |-> s]
      OBVIOUS
    <3>2. status[v] \in Statuses /\ s \in Statuses /\ v \in Existing
      BY <1>3, <2>1, RegistryAssumption DEF RelabelRead, Existing
    <3>3. r \in Requests /\ Grounded(r)
      BY <3>1, <3>2 DEF Requests, Grounded
    <3>4. QED
      BY <1>4, <2>1, <3>1, <3>3 DEF RelabelRead, Open
  <2>2. CASE RelabelWrite(c)
    <3>1. PICK r : r = request[c]
      OBVIOUS
    <3>2. r.version \in Existing /\ r.version \in Versions /\ r.to \in Statuses
      BY <1>1, <2>2, <3>1, RequestFields DEF RelabelWrite, Numbered, Grounded
    <3>3. \/ status' = [status EXCEPT ![r.version] = r.to]
          \/ status' = status
      BY <1>3, <2>2, <3>1, <3>2 DEF RelabelWrite
    <3>4. /\ status' \in [Versions -> Statuses \cup {"absent"}]
          /\ Existing' = Existing
      <4>1. CASE status' = status
        BY <1>3, <4>1 DEF Existing
      <4>2. CASE status' = [status EXCEPT ![r.version] = r.to]
        <5>1. /\ status' \in [Versions -> Statuses \cup {"absent"}]
              /\ Existing' = Existing \cup {r.version}
          BY <1>1, <3>2, <4>2, StatusStep
        <5>2. QED
          BY <3>2, <5>1
      <4>3. QED
        BY <3>3, <4>1, <4>2
    <3>5. QED
      BY <1>3, <2>2, <3>4, ClientStep DEF RelabelWrite, Close
  <2>3. QED
    BY <1>6, <2>1, <2>2 DEF Relabel
<1>7. ASSUME NEW c \in Clients, Promote(c) PROVE Goal
  <2>1. ASSUME NEW v \in Versions, PromoteRead(c, v) PROVE Goal
    <3>1. PICK r : r = [op |-> "gated", version |-> v, read |-> status[v]]
      OBVIOUS
    <3>2. status[v] \in Statuses /\ v \in Existing
      BY <1>3, <2>1 DEF PromoteRead, Existing
    <3>3. r \in Requests /\ Grounded(r)
      BY <3>1, <3>2 DEF Requests, Grounded
    <3>4. QED
      BY <1>4, <2>1, <3>1, <3>3 DEF PromoteRead, Open
  <2>2. ASSUME NEW v \in Versions, PromoteRefused(c, v) PROVE Goal
    BY <1>2, <2>2 DEF PromoteRefused
  <2>3. CASE PromoteScan(c)
    <3>1. PICK old : old = request[c]
      OBVIOUS
    <3>2. PICK r : r = [op |-> "promote", version |-> old.version, read |-> old.read,
                        demoted |-> OthersInProduction(old.version)]
      OBVIOUS
    <3>3. /\ old.version \in Versions /\ old.read \in Statuses /\ old.version \in Existing
      BY <1>1, <2>3, <3>1, RequestFields DEF PromoteScan, Numbered, Grounded
    <3>4. OthersInProduction(old.version) \subseteq Existing
      BY DEF OthersInProduction, Production, Existing
    <3>5. r \in Requests
      BY <3>2, <3>3, <3>4 DEF Requests, Existing
    <3>6. Grounded(r)
      BY <3>2, <3>3, <3>4 DEF Grounded
    <3>7. QED
      BY <1>4, <2>3, <3>1, <3>2, <3>5, <3>6 DEF PromoteScan
  <2>4. CASE PromoteWrite(c)
    <3>1. /\ request[c].demoted \subseteq Existing
          /\ Promoted(request[c]) \subseteq Existing
      BY <1>1, <2>4 DEF PromoteWrite, Promoted, Numbered, Grounded
    <3>2. /\ status' \in [Versions -> Statuses \cup {"absent"}]
          /\ Existing' = Existing
      BY <1>3, <2>4, <3>1 DEF PromoteWrite, Existing, Statuses
    <3>3. QED
      BY <1>3, <2>4, <3>2, ClientStep DEF PromoteWrite, Close
  <2>5. QED
    BY <1>7, <2>1, <2>2, <2>3, <2>4 DEF Promote
<1>8. ASSUME NEW c \in Clients, Abandon(c) PROVE Goal
  BY <1>3, <1>4, <1>8 DEF Abandon, Close
<1>9. ASSUME NEW v \in Versions, NEW passed \in BOOLEAN, RunExperiment(v, passed) PROVE Goal
  <2>1. /\ experiments' \in Seq([version : Versions, passed : BOOLEAN])
        /\ Len(experiments') <= MaxExperiments
    BY <1>1, <1>9, ExperimentStep
  <2>2. UNCHANGED <<status, author, request>>
    BY <1>9 DEF RunExperiment
  <2>3. QED
    BY <1>1, <2>1, <2>2 DEF RegistryInv, RegistryTypeOK, Numbered, Grounded, Existing
<1>10. QED
  BY <1>2, <1>5, <1>6, <1>7, <1>8, <1>9, RegistryAssumption DEF RegistryNext

LEMMA RegistryStart == RegistryInit => RegistryInv
<1> SUFFICES ASSUME RegistryInit PROVE RegistryInv
  OBVIOUS
<1>1. status \in [Versions -> Statuses \cup {"absent"}] /\ Existing = {}
  BY DEF RegistryInit, Existing
<1>2. author \in [Versions -> Clients \cup {NoOne}]
  BY DEF RegistryInit
<1>3. experiments \in Seq([version : Versions, passed : BOOLEAN]) /\ Len(experiments) = 0
  BY DEF RegistryInit
<1>4. request \in [Clients -> Requests] /\ \A c \in Clients : request[c] = None
  BY DEF RegistryInit, Requests
<1>5. QED
  BY <1>1, <1>2, <1>3, <1>4, NoneGrounded, RegistryAssumption
     DEF RegistryInv, RegistryTypeOK, Numbered

------------------------------------------------------------------------------
(* What production serves *)

Tested(v) == \E i \in RunsOf(v) : experiments[i].passed

LEMMA TestedKept ==
    ASSUME RegistryInv, [RegistryNext]_registryVars, NEW v, Tested(v)
    PROVE  Tested(v)'
<1>1. CASE experiments' = experiments
  BY <1>1 DEF Tested, RunsOf
<1>2. ASSUME NEW w \in Versions, NEW passed \in BOOLEAN, RunExperiment(w, passed)
      PROVE  Tested(v)'
  <2>1. PICK i \in RunsOf(v) : experiments[i].passed
    BY DEF Tested
  <2>2. i \in RunsOf(v)' /\ experiments'[i] = experiments[i]
    BY <1>2, <2>1, ExperimentStep DEF RegistryInv, RunsOf
  <2>3. QED
    BY <2>1, <2>2 DEF Tested
<1>3. QED
  BY <1>1, <1>2 DEF RegistryNext, registryVars, Create, CreateRead, CreateInsert,
     CreateConflict, Relabel, RelabelRead, RelabelWrite, Promote, PromoteRead,
     PromoteRefused, PromoteScan, PromoteWrite, Abandon

\* The request of a client stays, ends or begins, has passed the gate, or has looked
\* for what is in production.
LEMMA RequestMoves ==
    ASSUME RegistryInv, [RegistryNext]_registryVars, NEW c \in Clients
    PROVE  \/ request'[c] = request[c]
           \/ request'[c].op \in {"none", "create", "relabel"}
           \/ request'[c].op = "gated" /\ Gate(request'[c].version)
           \/ /\ request[c].op = "gated" /\ request'[c].op = "promote"
              /\ request'[c].version = request[c].version
              /\ request'[c].demoted = Production \ {request[c].version}
<1> DEFINE Goal == \/ request'[c] = request[c]
                   \/ request'[c].op \in {"none", "create", "relabel"}
                   \/ request'[c].op = "gated" /\ Gate(request'[c].version)
                   \/ /\ request[c].op = "gated" /\ request'[c].op = "promote"
                      /\ request'[c].version = request[c].version
                      /\ request'[c].demoted = Production \ {request[c].version}
<1>1. request \in [Clients -> Requests] /\ None.op = "none"
  BY DEF RegistryInv, RegistryTypeOK, None
<1>2. ASSUME UNCHANGED request PROVE Goal
  BY <1>2
<1>3. ASSUME NEW d \in Clients, NEW r, request' = [request EXCEPT ![d] = r],
             r.op \in {"none", "create", "relabel"}
      PROVE  Goal
  BY <1>1, <1>3
<1>4. ASSUME NEW d \in Clients, Close(d) PROVE Goal
  BY <1>1, <1>3, <1>4 DEF Close
<1>5. ASSUME NEW d \in Clients, Create(d) PROVE Goal
  BY <1>3, <1>4, <1>5 DEF Create, CreateRead, CreateInsert, CreateConflict, Open
<1>6. ASSUME NEW d \in Clients, Relabel(d) PROVE Goal
  BY <1>3, <1>4, <1>6 DEF Relabel, RelabelRead, RelabelWrite, Open
<1>7. ASSUME NEW d \in Promoters, Promote(d) PROVE Goal
  <2>0. d \in Clients
    BY RegistryAssumption
  <2>1. ASSUME NEW v \in Versions, PromoteRead(d, v) PROVE Goal
    BY <1>1, <2>0, <2>1 DEF PromoteRead, Open
  <2>2. ASSUME NEW v \in Versions, PromoteRefused(d, v) PROVE Goal
    BY <1>2, <2>2 DEF PromoteRefused, registryVars
  <2>3. CASE PromoteScan(d)
    BY <1>1, <2>0, <2>3 DEF PromoteScan, OthersInProduction
  <2>4. CASE PromoteWrite(d)
    BY <1>4, <2>0, <2>4 DEF PromoteWrite
  <2>5. QED
    BY <1>7, <2>1, <2>2, <2>3, <2>4 DEF Promote
<1>8. ASSUME NEW d \in Clients, Abandon(d) PROVE Goal
  BY <1>4, <1>8 DEF Abandon
<1>9. QED
  BY <1>2, <1>5, <1>6, <1>7, <1>8 DEF RegistryNext, RunExperiment, registryVars

\* A rollout takes versions from the registry and changes nothing in it.
LEMMA StepsOfRegistry == Next => [RegistryNext]_registryVars
<1>1. ASSUME UNCHANGED registryVars PROVE [RegistryNext]_registryVars
  BY <1>1
<1>2. CASE Registry
  BY <1>2 DEF Registry
<1>3. CASE (\E c \in Clients : CreateRollout(c)) \/ PassStep \/ PassFail
  BY <1>1, <1>3 DEF CreateRollout, CreateCheck, CreateCommit, CreateFail, PassStep,
     PassStart, PassGate, Judge, PassJudge, PassCommit, PassFail
<1>4. CASE \E i \in DOMAIN rollouts : Operator(i)
  BY <1>1, <1>4 DEF Operator, Pause, Resume, Settle, Rollback, Operate
<1>5. QED
  BY <1>2, <1>3, <1>4 DEF Next

LEMMA NumberedStep == RegistryInv /\ [Next]_vars => RegistryInv'
<1>1. CASE UNCHANGED vars
  BY <1>1, RegistryStep DEF vars
<1>2. QED
  BY <1>1, StepsOfRegistry, RegistryStep

LEMMA KeepsRegistry == Spec => []RegistryInv
<1>1. Init => RegistryInv
  BY RegistryStart DEF Init
<1>2. QED
  BY <1>1, NumberedStep, PTL DEF Spec

------------------------------------------------------------------------------
(* The rollouts *)

RolloutTypes ==
    /\ rollouts \in Seq(Row)
    /\ Len(rollouts) <= MaxRollouts
    /\ creating \in [Clients -> Arms \cup {NoArms}]
    /\ pass \in [step : {"idle", "gate", "judge", "commit"}, row : 0..MaxRollouts,
                 decision : Decisions]

Exist(arms) == {arms.incumbent, arms.challenger} \subseteq Existing

\* Only the newest rollout is active, each has versions that exist, and one that is
\* rolled back has no traffic; a pass works on a running rollout, which its row
\* lock keeps as it is.
Governed ==
    /\ \A i \in DOMAIN rollouts :
         /\ Exist(rollouts[i].arms)
         /\ rollouts[i].stage \in Active => i = Len(rollouts)
         /\ rollouts[i].stage = "rolled_back" => rollouts[i].traffic = 0
    /\ \A c \in Clients : creating[c] # NoArms => Exist(creating[c])
    /\ pass.step = "idle" => pass = NoPass
    /\ pass.step # "idle" =>
         pass.row \in DOMAIN rollouts /\ rollouts[pass.row].stage = "running"

RolloutInv == RegistryTypeOK /\ RolloutTypes /\ Governed

LEMMA RolloutBounds ==
    /\ MaxRollouts \in Nat /\ MaxPct \in Nat /\ StepPct \in Nat
    /\ InitialPct \in 0..MaxPct
BY RolloutAssumption

LEMMA RolloutFields ==
    ASSUME RolloutTypes, NEW i \in DOMAIN rollouts
    PROVE  /\ i \in 1..Len(rollouts) /\ i \in 1..MaxRollouts
           /\ rollouts[i] \in Row
           /\ rollouts[i].arms \in Arms /\ rollouts[i].stage \in Stages
           /\ rollouts[i].traffic \in 0..MaxPct
<1>1. rollouts \in Seq(Row) /\ Len(rollouts) \in Nat /\ DOMAIN rollouts = 1..Len(rollouts)
  BY DEF RolloutTypes
<1>2. i \in 1..Len(rollouts) /\ rollouts[i] \in Row
  BY <1>1
<1>3. QED
  BY <1>1, <1>2, RolloutBounds DEF RolloutTypes, Row

LEMMA ArmsExistStill ==
    ASSUME NEW arms, Exist(arms), Existing \subseteq Existing'
    PROVE  Exist(arms)'
BY DEF Exist

\* A new version of one row: nobody else's pass is on it unless it stays running.
LEMMA RowWritten ==
    ASSUME RolloutInv, NEW i \in DOMAIN rollouts, NEW stage \in Stages,
           NEW traffic \in 0..MaxPct,
           rollouts' = [rollouts EXCEPT ![i] =
                          [rollouts[i] EXCEPT !.stage = stage, !.traffic = traffic]],
           stage \in Active => rollouts[i].stage \in Active,
           stage = "rolled_back" => traffic = 0,
           UNCHANGED <<registryVars, creating>>,
           (pass' = pass /\ pass.row # i) \/ pass' = NoPass
    PROVE  RolloutInv'
<1> DEFINE new == [rollouts[i] EXCEPT !.stage = stage, !.traffic = traffic]
<1>1. RegistryTypeOK' /\ Existing' = Existing
  BY DEF RolloutInv, RegistryTypeOK, registryVars, Existing
<1>2. /\ rollouts[i] \in Row /\ i \in 1..Len(rollouts) /\ rollouts \in Seq(Row)
      /\ DOMAIN rollouts = 1..Len(rollouts)
  BY RolloutFields DEF RolloutInv, RolloutTypes
<1>3. new \in Row
  BY <1>2 DEF Row
<1>4. new.stage = stage /\ new.traffic = traffic /\ new.arms = rollouts[i].arms
  BY <1>2 DEF Row
<1>5. rollouts' = [rollouts EXCEPT ![i] = new]
  OBVIOUS
<1> HIDE DEF new
<1>6. /\ rollouts' \in Seq(Row) /\ Len(rollouts') = Len(rollouts)
      /\ \A j \in 1..Len(rollouts) : rollouts'[j] = IF j = i THEN new ELSE rollouts[j]
  BY <1>2, <1>3, <1>5, ExceptSeq
<1>7. DOMAIN rollouts' = DOMAIN rollouts
  BY <1>2, <1>6
<1>8. NoPass \in [step : {"idle", "gate", "judge", "commit"}, row : 0..MaxRollouts,
                  decision : Decisions] /\ NoPass.step = "idle"
  BY RolloutBounds DEF NoPass, Decisions
<1>9. RolloutTypes'
  BY <1>6, <1>8 DEF RolloutInv, RolloutTypes
<1>10. ASSUME NEW j \in DOMAIN rollouts'
       PROVE  /\ Exist(rollouts[j].arms)'
              /\ rollouts'[j].stage \in Active => j = Len(rollouts')
              /\ rollouts'[j].stage = "rolled_back" => rollouts'[j].traffic = 0
  <2>1. /\ Exist(rollouts[j].arms)
        /\ rollouts[j].stage \in Active => j = Len(rollouts)
        /\ rollouts[j].stage = "rolled_back" => rollouts[j].traffic = 0
    BY <1>7 DEF RolloutInv, Governed
  <2>2. rollouts'[j].arms = rollouts[j].arms
    BY <1>2, <1>4, <1>6, <1>7
  <2>3. Exist(rollouts[j].arms)'
    BY <1>1, <2>1, <2>2 DEF Exist
  <2>4. QED
    BY <1>2, <1>4, <1>6, <1>7, <2>1, <2>3
<1>11. \A c \in Clients : creating'[c] # NoArms => Exist(creating[c])'
  BY <1>1 DEF RolloutInv, Governed, Exist
<1>12. /\ pass'.step = "idle" => pass' = NoPass
       /\ pass'.step # "idle" =>
            pass'.row \in DOMAIN rollouts' /\ rollouts'[pass'.row].stage = "running"
  BY <1>2, <1>6, <1>7, <1>8 DEF RolloutInv, Governed
<1>13. QED
  BY <1>1, <1>9, <1>10, <1>11, <1>12 DEF RolloutInv, Governed

LEMMA CreateGoverned ==
    ASSUME RolloutInv, NEW c \in Clients, CreateRollout(c)
    PROVE  RolloutInv'
<1>1. /\ registryVars' = registryVars /\ pass' = pass
  BY DEF CreateRollout, CreateCheck, CreateCommit, CreateFail
<1>2. RegistryTypeOK' /\ Existing' = Existing
  BY <1>1 DEF RolloutInv, RegistryTypeOK, registryVars, Existing
<1>3. ASSUME NEW i \in DOMAIN rollouts
      PROVE  /\ Exist(rollouts[i].arms)
             /\ rollouts[i].stage \in Active => i = Len(rollouts)
             /\ rollouts[i].stage = "rolled_back" => rollouts[i].traffic = 0
  BY DEF RolloutInv, Governed
<1>4. /\ \A d \in Clients : creating[d] # NoArms => Exist(creating[d])
      /\ creating \in [Clients -> Arms \cup {NoArms}]
      /\ rollouts \in Seq(Row) /\ DOMAIN rollouts = 1..Len(rollouts)
  BY DEF RolloutInv, Governed, RolloutTypes
<1>5. ASSUME NEW arms \in Arms \cup {NoArms}, arms # NoArms => Exist(arms),
             creating' = [creating EXCEPT ![c] = arms]
      PROVE  /\ creating' \in [Clients -> Arms \cup {NoArms}]
             /\ \A d \in Clients : creating'[d] # NoArms => Exist(creating[d])'
  BY <1>2, <1>4, <1>5 DEF Exist
<1>6. CASE rollouts' = rollouts
  <2>1. PICK arms \in Arms \cup {NoArms} : /\ arms # NoArms => Exist(arms)
                                           /\ creating' = [creating EXCEPT ![c] = arms]
    <3>1. CASE \E arms \in Arms : CreateCheck(c, arms)
      BY <3>1 DEF CreateCheck, Exist
    <3>2. CASE creating' = [creating EXCEPT ![c] = NoArms]
      BY <3>2
    <3>3. QED
      BY <3>1, <3>2 DEF CreateRollout, CreateCommit, CreateFail
  <2>2. RolloutTypes'
    BY <1>1, <1>5, <1>6, <2>1 DEF RolloutInv, RolloutTypes
  <2>3. ASSUME NEW i \in DOMAIN rollouts'
        PROVE  /\ Exist(rollouts[i].arms)'
               /\ rollouts'[i].stage \in Active => i = Len(rollouts')
               /\ rollouts'[i].stage = "rolled_back" => rollouts'[i].traffic = 0
    <3>1. i \in DOMAIN rollouts
      BY <1>6
    <3>2. /\ Exist(rollouts[i].arms)
          /\ rollouts[i].stage \in Active => i = Len(rollouts)
          /\ rollouts[i].stage = "rolled_back" => rollouts[i].traffic = 0
      BY <1>3, <3>1
    <3>3. Exist(rollouts[i].arms)'
      BY <1>2, <1>6, <3>2 DEF Exist
    <3>4. QED
      BY <1>6, <3>2, <3>3
  <2>4. \A d \in Clients : creating'[d] # NoArms => Exist(creating[d])'
    BY <1>5, <2>1
  <2>5. /\ pass'.step = "idle" => pass' = NoPass
        /\ pass'.step # "idle" =>
             pass'.row \in DOMAIN rollouts' /\ rollouts'[pass'.row].stage = "running"
    BY <1>1, <1>6 DEF RolloutInv, Governed
  <2>6. QED
    BY <1>2, <2>2, <2>3, <2>4, <2>5 DEF RolloutInv, Governed
<1>7. CASE CreateCommit(c)
  <2> DEFINE row == [arms |-> creating[c], stage |-> "running", traffic |-> InitialPct]
  <2>1. creating[c] \in Arms /\ Exist(creating[c])
    BY <1>4, <1>7 DEF CreateCommit
  <2>2. row \in Row /\ row.arms = creating[c] /\ row.stage = "running"
    BY <2>1, RolloutBounds DEF Row, Stages, Active
  <2>3. rollouts' = Append(rollouts, row) /\ Len(rollouts) < MaxRollouts
    BY <1>7 DEF CreateCommit
  <2> HIDE DEF row
  <2>4. /\ rollouts' \in Seq(Row) /\ Len(rollouts') = Len(rollouts) + 1
        /\ \A i \in 1..Len(rollouts) : rollouts'[i] = rollouts[i]
        /\ rollouts'[Len(rollouts) + 1] = row
    BY <1>4, <2>2, <2>3, AppendProperties
  <2>5. DOMAIN rollouts' = 1..Len(rollouts') /\ Len(rollouts) \in Nat
    BY <1>4, <2>4
  <2>6. \A i \in DOMAIN rollouts : rollouts[i].stage \notin Active
    BY <1>7 DEF CreateCommit, IndexAdmits, InTheWay
  <2>7. ASSUME NEW i \in DOMAIN rollouts'
        PROVE  /\ Exist(rollouts[i].arms)'
               /\ rollouts'[i].stage \in Active => i = Len(rollouts')
               /\ rollouts'[i].stage = "rolled_back" => rollouts'[i].traffic = 0
    <3>1. CASE i \in 1..Len(rollouts)
      <4>1. rollouts'[i] = rollouts[i] /\ i \in DOMAIN rollouts
        BY <1>4, <2>4, <3>1
      <4>2. /\ Exist(rollouts[i].arms)
            /\ rollouts[i].stage = "rolled_back" => rollouts[i].traffic = 0
        BY <1>3, <4>1
      <4>3. Exist(rollouts[i].arms)'
        BY <1>2, <4>1, <4>2 DEF Exist
      <4>4. rollouts'[i].stage \notin Active
        BY <2>6, <4>1
      <4>5. QED
        BY <4>1, <4>2, <4>3, <4>4
    <3>2. CASE i = Len(rollouts) + 1
      <4>1. rollouts'[i].arms = creating[c] /\ rollouts'[i].stage = "running"
        BY <2>2, <2>4, <3>2
      <4>2. Exist(rollouts[i].arms)'
        BY <1>2, <2>1, <4>1 DEF Exist
      <4>3. QED
        BY <2>4, <3>2, <4>1, <4>2
    <3>3. QED
      BY <2>4, <2>5, <3>1, <3>2
  <2>8. /\ creating' \in [Clients -> Arms \cup {NoArms}]
        /\ \A d \in Clients : creating'[d] # NoArms => Exist(creating[d])'
    <3>1. creating' = [creating EXCEPT ![c] = NoArms]
      BY <1>7 DEF CreateCommit
    <3>2. QED
      BY <1>5, <3>1
  <2>9. /\ pass'.step = "idle" => pass' = NoPass
        /\ pass'.step # "idle" =>
             pass'.row \in DOMAIN rollouts' /\ rollouts'[pass'.row].stage = "running"
    <3>1. pass.step = "idle" /\ pass = NoPass
      BY <2>6 DEF RolloutInv, Governed, Active
    <3>2. QED
      BY <1>1, <3>1
  <2>10. RolloutTypes'
    BY <1>1, <2>3, <2>4, <2>5, <2>8, RolloutBounds DEF RolloutInv, RolloutTypes
  <2>11. QED
    BY <1>2, <2>7, <2>8, <2>9, <2>10 DEF RolloutInv, Governed
<1>8. QED
  BY <1>6, <1>7 DEF CreateRollout, CreateCheck, CreateFail

\* Operators write only rows that no pass has locked.
LEMMA OperatorGoverned ==
    ASSUME RolloutInv, NEW i \in DOMAIN rollouts, Operator(i)
    PROVE  RolloutInv'
<1>1. /\ rollouts[i].traffic \in 0..MaxPct /\ rollouts[i].stage \in Stages
      /\ 0 \in 0..MaxPct /\ MaxPct \in 0..MaxPct
  BY RolloutFields, RolloutBounds DEF RolloutInv
<1>2. rollouts[i].stage \in Active /\ pass.row # i
      /\ pass' = pass /\ UNCHANGED <<registryVars, creating>>
  BY DEF Operator, Pause, Resume, Settle, Rollback, Operate, Unlocked, Active
<1>3. PICK stage \in Stages, traffic \in 0..MaxPct :
        /\ rollouts' = [rollouts EXCEPT ![i].stage = stage, ![i].traffic = traffic]
        /\ stage = "rolled_back" => traffic = 0
  <2>1. CASE Pause(i) \/ Resume(i)
    <3>1. PICK stage \in Active :
            rollouts' = [rollouts EXCEPT ![i].stage = stage,
                                         ![i].traffic = rollouts[i].traffic]
      BY <2>1 DEF Pause, Resume, Operate, Active
    <3>2. QED
      BY <1>1, <3>1 DEF Stages, Active
  <2>2. CASE Settle(i)
    <3>1. rollouts' = [rollouts EXCEPT ![i].stage = "promoted", ![i].traffic = MaxPct]
      BY <2>2 DEF Settle, Operate
    <3>2. "promoted" \in Stages /\ "promoted" # "rolled_back"
      BY DEF Stages
    <3>3. QED
      BY <1>1, <3>1, <3>2, Zenon
  <2>3. CASE Rollback(i)
    <3>1. rollouts' = [rollouts EXCEPT ![i].stage = "rolled_back", ![i].traffic = 0]
      BY <2>3 DEF Rollback, Operate
    <3>2. QED
      BY <1>1, <3>1 DEF Stages
  <2>4. QED
    BY <2>1, <2>2, <2>3 DEF Operator
<1>4. rollouts' = [rollouts EXCEPT ![i] =
                     [rollouts[i] EXCEPT !.stage = stage, !.traffic = traffic]]
  BY <1>3
<1>5. QED
  BY <1>2, <1>3, <1>4, RowWritten

LEMMA PassGoverned ==
    ASSUME RolloutInv, PassStep \/ PassFail
    PROVE  RolloutInv'
<1> DEFINE Passes == [step : {"idle", "gate", "judge", "commit"}, row : 0..MaxRollouts,
                      decision : Decisions]
<1>1. NoPass \in Passes /\ NoPass.step = "idle" /\ pass \in Passes
  BY RolloutBounds DEF NoPass, Decisions, RolloutInv, RolloutTypes
<1>2. ASSUME UNCHANGED <<registryVars, rollouts, creating>>, pass' \in Passes,
             \/ pass' = NoPass
             \/ /\ pass'.step # "idle" /\ pass'.row \in DOMAIN rollouts
                /\ rollouts[pass'.row].stage = "running"
      PROVE  RolloutInv'
  <2>1. RegistryTypeOK' /\ Existing' = Existing
    BY <1>2 DEF RolloutInv, RegistryTypeOK, registryVars, Existing
  <2>2. RolloutTypes'
    BY <1>2 DEF RolloutInv, RolloutTypes
  <2>3. ASSUME NEW i \in DOMAIN rollouts'
        PROVE  /\ Exist(rollouts[i].arms)'
               /\ rollouts'[i].stage \in Active => i = Len(rollouts')
               /\ rollouts'[i].stage = "rolled_back" => rollouts'[i].traffic = 0
    <3>1. i \in DOMAIN rollouts
      BY <1>2
    <3>2. /\ Exist(rollouts[i].arms)
          /\ rollouts[i].stage \in Active => i = Len(rollouts)
          /\ rollouts[i].stage = "rolled_back" => rollouts[i].traffic = 0
      BY <3>1 DEF RolloutInv, Governed
    <3>3. Exist(rollouts[i].arms)'
      BY <1>2, <2>1, <3>2 DEF Exist
    <3>4. QED
      BY <1>2, <3>2, <3>3
  <2>4. \A c \in Clients : creating'[c] # NoArms => Exist(creating[c])'
    BY <1>2, <2>1 DEF RolloutInv, Governed, Exist
  <2>5. /\ pass'.step = "idle" => pass' = NoPass
        /\ pass'.step # "idle" =>
             pass'.row \in DOMAIN rollouts' /\ rollouts'[pass'.row].stage = "running"
    BY <1>1, <1>2
  <2>6. QED
    BY <2>1, <2>2, <2>3, <2>4, <2>5 DEF RolloutInv, Governed
<1>3. pass.step # "idle" => /\ pass.row \in DOMAIN rollouts
                            /\ rollouts[pass.row].stage = "running"
  BY DEF RolloutInv, Governed
<1>4. CASE PassStart
  <2>1. PICK i \in DOMAIN rollouts : /\ rollouts[i].stage = "running"
                                     /\ pass' = [NoPass EXCEPT !.step = "gate", !.row = i]
    BY <1>4 DEF PassStart
  <2>2. i \in 1..MaxRollouts
    BY RolloutFields DEF RolloutInv
  <2>3. pass' \in Passes /\ pass'.step = "gate" /\ pass'.row = i
    <3>1. pass' = [step |-> "gate", row |-> i, decision |-> "none"]
      BY <2>1 DEF NoPass
    <3>2. "none" \in Decisions /\ i \in 0..MaxRollouts
      BY <2>2, RolloutBounds DEF Decisions
    <3>3. QED
      BY <3>1, <3>2
  <2>4. QED
    BY <1>2, <1>4, <2>1, <2>3 DEF PassStart
<1>5. CASE PassGate
  <2>1. pass' \in Passes /\ pass'.step # "idle" /\ pass'.row = pass.row
    BY <1>1, <1>5 DEF PassGate, Decisions
  <2>2. QED
    BY <1>2, <1>3, <1>5, <2>1 DEF PassGate
<1>6. ASSUME NEW decision \in Decisions, PassJudge(decision) PROVE RolloutInv'
  <2>1. pass' \in Passes /\ pass'.step # "idle" /\ pass'.row = pass.row
    BY <1>1, <1>6 DEF PassJudge
  <2>2. QED
    BY <1>2, <1>3, <1>6, <2>1 DEF PassJudge
<1>7. CASE PassCommit
  <2>1. PICK i \in DOMAIN rollouts : i = pass.row
    BY <1>3, <1>7 DEF PassCommit
  <2>2. /\ rollouts[i].stage = "running" /\ rollouts[i] \in Row
        /\ rollouts[i].traffic \in 0..MaxPct /\ 0 \in 0..MaxPct
    BY <1>3, <1>7, <2>1, RolloutFields, RolloutBounds DEF PassCommit, RolloutInv
  <2>3. pass' = NoPass /\ UNCHANGED <<registryVars, creating>>
    BY <1>7 DEF PassCommit
  <2>4. CASE pass.decision = "none"
    <3>1. rollouts' = [rollouts EXCEPT ![i] = rollouts[i]]
      BY <1>7, <2>1, <2>4 DEF PassCommit
    <3>2. rollouts' = rollouts
      BY <3>1 DEF RolloutInv, RolloutTypes
    <3>3. QED
      BY <1>1, <1>2, <2>3, <3>2
  <2>5. CASE pass.decision = "rollback"
    <3>1. rollouts' = [rollouts EXCEPT ![i] =
                         [rollouts[i] EXCEPT !.stage = "rolled_back", !.traffic = 0]]
      BY <1>7, <2>1, <2>5 DEF PassCommit, RolledBack
    <3>2. QED
      BY <2>2, <2>3, <3>1, RowWritten DEF Stages, Active
  <2>6. CASE pass.decision = "advance"
    <3> DEFINE next == NextTraffic(rollouts[i].traffic, StepPct, MaxPct)
               stage == IF next.promoted THEN "promoted" ELSE rollouts[i].stage
    <3>1. next.traffic \in 0..MaxPct
      BY <2>2, RolloutBounds DEF NextTraffic
    <3>2. rollouts' = [rollouts EXCEPT ![i] = Advanced(rollouts[i])]
      BY <1>7, <2>1, <2>6 DEF PassCommit
    <3>3. Advanced(rollouts[i]) =
            [rollouts[i] EXCEPT !.traffic = next.traffic, !.stage = stage]
      BY <2>2 DEF Advanced, Row
    <3>4. stage \in {"running", "promoted"}
      BY <2>2
    <3> HIDE DEF next, stage
    <3>5. [rollouts[i] EXCEPT !.traffic = next.traffic, !.stage = stage]
            = [rollouts[i] EXCEPT !.stage = stage, !.traffic = next.traffic]
      BY <2>2 DEF Row
    <3>6. QED
      BY <2>2, <2>3, <3>1, <3>2, <3>3, <3>4, <3>5, RowWritten DEF Stages, Active
  <2>7. QED
    BY <1>1, <2>4, <2>5, <2>6 DEF Decisions
<1>8. CASE PassFail
  BY <1>1, <1>2, <1>8 DEF PassFail
<1>9. QED
  BY <1>4, <1>5, <1>6, <1>7, <1>8 DEF PassStep, Judge

\* The registry under the rollouts: the versions they compare stay.
LEMMA RegistryGoverned ==
    ASSUME RolloutInv, RegistryTypeOK', Existing \subseteq Existing', UNCHANGED rolloutVars
    PROVE  RolloutInv'
<1>1. rollouts' = rollouts /\ creating' = creating /\ pass' = pass
  BY DEF rolloutVars
<1>2. RolloutTypes'
  BY <1>1 DEF RolloutInv, RolloutTypes
<1>3. ASSUME NEW i \in DOMAIN rollouts'
      PROVE  /\ Exist(rollouts[i].arms)'
             /\ rollouts'[i].stage \in Active => i = Len(rollouts')
             /\ rollouts'[i].stage = "rolled_back" => rollouts'[i].traffic = 0
  <2>1. /\ Exist(rollouts[i].arms)
        /\ rollouts[i].stage \in Active => i = Len(rollouts)
        /\ rollouts[i].stage = "rolled_back" => rollouts[i].traffic = 0
    BY <1>1 DEF RolloutInv, Governed
  <2>2. Exist(rollouts[i].arms)'
    BY <1>1, <2>1 DEF Exist
  <2>3. QED
    BY <1>1, <2>1, <2>2
<1>4. ASSUME NEW c \in Clients, creating'[c] # NoArms PROVE Exist(creating[c])'
  <2>1. Exist(creating[c])
    BY <1>1, <1>4 DEF RolloutInv, Governed
  <2>2. QED
    BY <1>1, <2>1 DEF Exist
<1>5. /\ pass'.step = "idle" => pass' = NoPass
      /\ pass'.step # "idle" =>
           pass'.row \in DOMAIN rollouts' /\ rollouts'[pass'.row].stage = "running"
  BY <1>1 DEF RolloutInv, Governed
<1>6. QED
  BY <1>2, <1>3, <1>4, <1>5 DEF RolloutInv, Governed

LEMMA RolloutStep == RegistryInv /\ RolloutInv /\ [Next]_vars => RolloutInv'
<1> SUFFICES ASSUME RegistryInv, RolloutInv, [Next]_vars PROVE RolloutInv'
  OBVIOUS
<1>1. CASE Registry \/ UNCHANGED vars
  <2>1. [RegistryNext]_registryVars /\ UNCHANGED rolloutVars
    BY <1>1 DEF Registry, vars
  <2>2. QED
    BY <2>1, RegistryStep, RegistryGoverned DEF RegistryInv
<1>2. ASSUME NEW c \in Clients, CreateRollout(c) PROVE RolloutInv'
  BY <1>2, CreateGoverned
<1>3. ASSUME NEW i \in DOMAIN rollouts, Operator(i) PROVE RolloutInv'
  BY <1>3, OperatorGoverned
<1>4. CASE PassStep \/ PassFail
  BY <1>4, PassGoverned
<1>5. QED
  BY <1>1, <1>2, <1>3, <1>4 DEF Next

LEMMA RolloutInvariant == Spec => []RolloutInv
<1>1. Init => RolloutInv
  <2> SUFFICES ASSUME Init PROVE RolloutInv
    OBVIOUS
  <2>1. RegistryTypeOK
    BY RegistryStart DEF Init, RegistryInv
  <2>2. rollouts \in Seq(Row) /\ Len(rollouts) = 0 /\ DOMAIN rollouts = {}
    BY DEF Init
  <2>3. /\ pass = NoPass /\ NoPass.step = "idle"
        /\ pass \in [step : {"idle", "gate", "judge", "commit"}, row : 0..MaxRollouts,
                     decision : Decisions]
    BY RolloutBounds DEF Init, NoPass, Decisions
  <2>4. /\ creating \in [Clients -> Arms \cup {NoArms}]
        /\ \A c \in Clients : creating[c] = NoArms
    BY DEF Init
  <2>5. QED
    BY <2>1, <2>2, <2>3, <2>4, RolloutBounds DEF RolloutInv, RolloutTypes, Governed
<1>2. QED
  BY <1>1, RolloutStep, KeepsRegistry, PTL DEF Spec

\* TypeOK is an invariant of the rollouts above their registry.
THEOREM TypeCorrect == Spec => []TypeOK
<1>1. RolloutInv => TypeOK
  BY DEF RolloutInv, RolloutTypes, TypeOK
<1>2. QED
  BY <1>1, RolloutInvariant, PTL

\* RolloutDecides is an invariant: the active rollout is the newest, a request
\* that names no version is always served one of its two versions, and after a
\* rollback the incumbent's, whatever creates race, operators and passes write and
\* the registry relabels (services/prompt_rollouts.py:30-49, db/models.py:454-457).
THEOREM DecidesWhatIsServed == Spec => []RolloutDecides
<1>1. RolloutInv => RolloutDecides
  <2> SUFFICES ASSUME RolloutInv PROVE RolloutDecides
    OBVIOUS
  <2>1. \A i \in DOMAIN rollouts : rollouts[i].stage \in Active => i = Len(rollouts)
    BY DEF RolloutInv, Governed
  <2>2. ASSUME rollouts # <<>>
        PROVE  LET latest == rollouts[Len(rollouts)]
               IN  /\ Served # {}
                   /\ Served \subseteq {latest.arms.incumbent, latest.arms.challenger}
                   /\ latest.stage = "rolled_back" => Served = {latest.arms.incumbent}
    <3>1. PICK i \in DOMAIN rollouts : i = Len(rollouts)
      BY <2>2 DEF RolloutInv, RolloutTypes
    <3> DEFINE row == rollouts[i]
    <3>2. /\ row.traffic \in 0..MaxPct /\ Exist(row.arms)
          /\ row.stage = "rolled_back" => row.traffic = 0
      BY RolloutFields DEF RolloutInv, Governed
    <3>3. /\ Drawn(row) \subseteq {row.arms.incumbent, row.arms.challenger}
          /\ Drawn(row) # {}
          /\ row.traffic = 0 => Drawn(row) = {row.arms.incumbent}
      BY <3>2, RolloutAssumption DEF Drawn
    <3>4. Served = Drawn(row)
      BY <2>2, <3>1, <3>2, <3>3 DEF Served, Resolved, Exist
    <3> HIDE DEF row
    <3>5. QED
      BY <3>1, <3>2, <3>3, <3>4 DEF row
  <2>3. QED
    BY <2>1, <2>2 DEF RolloutDecides
<1>2. QED
  BY <1>1, RolloutInvariant, PTL

------------------------------------------------------------------------------
(* The gate *)

\* A doomed rollout has not got past the gate: a pass that works on it will look at
\* its challenger, or has found it deprecated.
Gated ==
    \A i \in doomed :
      /\ IsStale(i)
      /\ pass.step # "idle" /\ pass.row = i =>
           \/ pass.step = "gate"
           \/ pass.step = "commit" /\ pass.decision = "rollback"

LEMMA SceneStart == MCInit => RegistryInv /\ RolloutInv /\ Gated
<1> SUFFICES ASSUME MCInit PROVE RegistryInv /\ RolloutInv /\ Gated
  OBVIOUS
<1>1. RegistryInv
  <2>1. CASE RegistryScene
    BY <2>1, RegistryStart DEF RegistryScene
  <2>2. CASE RolloutScene
    <3>1. Existing = Versions /\ \A v \in Versions : 1..v \subseteq Versions
      BY <2>2, VersionBound DEF RolloutScene, Existing, Versions
    <3>2. status \in [Versions -> Statuses \cup {"absent"}]
      BY <2>2 DEF RolloutScene, Statuses
    <3>3. author \in [Versions -> Clients \cup {NoOne}]
      BY <2>2, SceneAssumption DEF RolloutScene
    <3>4. /\ experiments \in Seq([version : Versions, passed : BOOLEAN])
          /\ Len(experiments) <= MaxExperiments
      BY <2>2, SceneAssumption, RegistryAssumption DEF RolloutScene, Versions
    <3>5. request \in [Clients -> Requests] /\ \A c \in Clients : request[c] = None
      BY <2>2 DEF RolloutScene, Requests
    <3>6. QED
      BY <3>1, <3>2, <3>3, <3>4, <3>5, NoneGrounded DEF RegistryInv, RegistryTypeOK, Numbered
  <2>3. QED
    BY <2>1, <2>2 DEF MCInit
<1>2. rollouts \in Seq(Row) /\ Len(rollouts) = 0 /\ DOMAIN rollouts = {}
  BY DEF MCInit
<1>3. /\ pass = NoPass /\ NoPass.step = "idle"
      /\ pass \in [step : {"idle", "gate", "judge", "commit"}, row : 0..MaxRollouts,
                   decision : Decisions]
  BY RolloutBounds DEF MCInit, NoPass, Decisions
<1>4. /\ creating \in [Clients -> Arms \cup {NoArms}]
      /\ \A c \in Clients : creating[c] = NoArms
  BY DEF MCInit
<1>5. RolloutInv
  BY <1>1, <1>2, <1>3, <1>4, RolloutBounds
     DEF RegistryInv, RolloutInv, RolloutTypes, Governed
<1>6. Gated
  BY DEF MCInit, Gated
<1>7. QED
  BY <1>1, <1>5, <1>6

LEMMA GatedStep ==
    ASSUME RolloutInv, RolloutInv', Gated, [MCNext]_mcVars
    PROVE  Gated'
<1>1. CASE UNCHANGED mcVars
  <2>1. UNCHANGED << doomed, rollouts, pass, status >>
    BY <1>1 DEF mcVars, vars, registryVars, rolloutVars
  <2>2. QED
    BY <2>1 DEF Gated, IsStale, Stale
<1>2. CASE MCNext
  <2> SUFFICES ASSUME NEW i \in doomed'
               PROVE  /\ IsStale(i)'
                      /\ pass'.step # "idle" /\ pass'.row = i =>
                           \/ pass'.step = "gate"
                           \/ pass'.step = "commit" /\ pass'.decision = "rollback"
    BY DEF Gated
  <2>1. IsStale(i)' /\ (i \in doomed \/ pass'.step \in {"idle", "gate"}) /\ Next
    BY <1>2 DEF MCNext
  <2> SUFFICES ASSUME i \in doomed, pass'.step \notin {"idle", "gate"}, pass'.row = i
               PROVE  pass'.step = "commit" /\ pass'.decision = "rollback"
    BY <2>1
  <2>2. /\ i \in DOMAIN rollouts /\ status[rollouts[i].arms.challenger] = "deprecated"
        /\ pass.step # "idle" /\ pass.row = i =>
             \/ pass.step = "gate"
             \/ pass.step = "commit" /\ pass.decision = "rollback"
    BY DEF Gated, IsStale, Stale
  <2>3. pass \in [step : {"idle", "gate", "judge", "commit"}, row : 0..MaxRollouts,
                  decision : Decisions] /\ NoPass.step = "idle"
    BY DEF RolloutInv, RolloutTypes, NoPass
  <2>4. CASE UNCHANGED pass
    BY <2>2, <2>4
  <2>5. CASE PassGate
    <3>1. pass.row = i /\ GateFails(rollouts[i].arms.challenger)
      BY <2>2, <2>3, <2>5 DEF PassGate, GateFails
    <3>2. pass' = [pass EXCEPT !.step = "commit", !.decision = "rollback"]
      BY <2>5, <3>1 DEF PassGate
    <3>3. QED
      BY <2>3, <3>2
  <2>6. ASSUME NEW decision \in Decisions, PassJudge(decision) PROVE FALSE
    BY <2>2, <2>3, <2>6 DEF PassJudge
  <2>7. CASE PassStart
    BY <2>7 DEF PassStart, NoPass
  <2>8. CASE PassCommit \/ PassFail
    BY <2>3, <2>8 DEF PassCommit, PassFail
  <2>9. CASE Registry
    BY <2>4, <2>9 DEF Registry, rolloutVars
  <2>10. CASE \E c \in Clients : CreateRollout(c)
    BY <2>4, <2>10 DEF CreateRollout, CreateCheck, CreateCommit, CreateFail
  <2>11. CASE \E j \in DOMAIN rollouts : Operator(j)
    BY <2>4, <2>11 DEF Operator, Pause, Resume, Settle, Rollback, Operate
  <2>12. QED
    BY <2>1, <2>5, <2>6, <2>7, <2>8, <2>9, <2>10, <2>11 DEF Next, PassStep, Judge
<1>3. QED
  BY <1>1, <1>2

LEMMA ScenesInvariant == MCSpec => [](RegistryInv /\ RolloutInv /\ Gated)
<1>1. RegistryInv /\ RolloutInv /\ Gated /\ [MCNext]_mcVars
        => RegistryInv' /\ RolloutInv' /\ Gated'
  <2> SUFFICES ASSUME RegistryInv, RolloutInv, Gated, [MCNext]_mcVars
               PROVE  RegistryInv' /\ RolloutInv' /\ Gated'
    OBVIOUS
  <2>1. [Next]_vars
    BY DEF MCNext, mcVars
  <2>2. RegistryInv' /\ RolloutInv'
    BY <2>1, NumberedStep, RolloutStep
  <2>3. QED
    BY <2>2, GatedStep
<1>2. QED
  BY <1>1, SceneStart, PTL DEF MCSpec

\* DoomedGainNothing holds of every step: once the challenger of a rollout has been
\* deprecated while no pass was behind its gate, no pass gives it more traffic, whatever
\* relabels, operators and failures come in between (worker/tasks/prompt_rollout.py:87-107).
THEOREM NothingForTheDoomed == MCSpec => DoomedGainNothing
<1>1. RolloutInv /\ Gated /\ [MCNext]_mcVars
        => [\A i \in doomed : PassCommit => rollouts'[i].traffic <= rollouts[i].traffic]_mcVars
  <2> SUFFICES ASSUME RolloutInv, Gated, NEW i \in doomed, PassCommit
               PROVE  rollouts'[i].traffic <= rollouts[i].traffic
    OBVIOUS
  <2>1. i \in DOMAIN rollouts
    BY DEF Gated, IsStale, Stale
  <2>2. rollouts[i].traffic \in Nat /\ rollouts[i] \in Row /\ rollouts \in Seq(Row)
    BY <2>1, RolloutFields, RolloutBounds DEF RolloutInv, RolloutTypes
  <2>3. CASE pass.row = i
    <3>1. pass.decision = "rollback"
      BY <2>3 DEF Gated, PassCommit
    <3>2. rollouts' = [rollouts EXCEPT ![i] = RolledBack(rollouts[i])]
      BY <2>3, <3>1 DEF PassCommit
    <3>3. RolledBack(rollouts[i]).traffic = 0
      BY <2>2 DEF RolledBack, Row
    <3>4. QED
      BY <2>1, <2>2, <3>2, <3>3
  <2>4. CASE pass.row # i
    <3>1. rollouts'[i] = rollouts[i]
      BY <2>1, <2>2, <2>4 DEF PassCommit
    <3>2. QED
      BY <2>2, <3>1
  <2>5. QED
    BY <2>3, <2>4
<1>2. QED
  BY <1>1, ScenesInvariant, PTL DEF MCSpec, DoomedGainNothing

------------------------------------------------------------------------------
(* Evidence *)

\* A promotion is of a version that has passed, and demotes what it found.
Earning(c) ==
    /\ request[c].op \in {"gated", "promote"} => Tested(request[c].version)
    /\ request[c].op = "promote" =>
         scanned[c] \subseteq request[c].demoted \cup {request[c].version}

\* One of two versions in production is excused for the other.
Paired(u, v) == <<u, v>> \in excused \/ <<v, u>> \in excused

Earned ==
    /\ \A v \in Production : v \in labelled \/ Tested(v)
    /\ \A u, v \in Production : u # v => Paired(u, v)
    /\ \A c \in Clients : Earning(c)

LEMMA EarnedStart == MCInit => Earned
<1> SUFFICES ASSUME MCInit PROVE Earned
  OBVIOUS
<1>1. \A c \in Clients : request[c].op = "none"
  BY DEF MCInit, RegistryScene, RolloutScene, RegistryInit, None
<1>2. \A v \in Production : v = 1 /\ Tested(v)
  <2>1. CASE RegistryScene
    BY <2>1 DEF RegistryScene, RegistryInit, Production
  <2>2. CASE RolloutScene
    <3>1. \A v \in Production : v = 1
      BY <2>2 DEF RolloutScene, Production
    <3>2. Tested(1)
      BY <2>2 DEF RolloutScene, Tested, RunsOf
    <3>3. QED
      BY <3>1, <3>2
  <2>3. QED
    BY <2>1, <2>2 DEF MCInit
<1>3. QED
  BY <1>1, <1>2 DEF Earned, Earning

\* A promotion leaves none of the versions it found beside its own.
LEMMA FoundIsGone ==
    ASSUME NEW c \in Clients, NEW v, Promotes(c, v), Earning(c),
           NEW u \in Production', u # v
    PROVE  u \notin scanned[c]
<1>1. u \in Versions /\ status'[u] = "production"
  BY DEF Production
<1>2. u \in scanned[c] => u \in request[c].demoted
  BY DEF Promotes, PromoteWrite, Earning
<1>3. u \in request[c].demoted => status'[u] = "deprecated"
  BY <1>1 DEF Promotes, PromoteWrite
<1>4. QED
  BY <1>1, <1>2, <1>3

LEMMA PairedStep ==
    ASSUME Earned, Histories, NEW u \in Production', NEW v \in Production', u # v
    PROVE  Paired(u, v)'
<1>1. ASSUME NEW x \in Production', NEW y \in Production', x # y, Excusing(x, y)
      PROVE  <<x, y>> \in excused'
  BY <1>1 DEF Histories
<1>2. ASSUME NEW x \in Production', NEW y \in Production', x # y,
             Arrives(y) \/ Promoting(y)
      PROVE  <<x, y>> \in excused'
  <2>1. ASSUME NEW c \in Clients, Promotes(c, y) PROVE x \notin scanned[c]
    BY <1>2, <2>1, FoundIsGone DEF Earned
  <2>2. Excusing(x, y)
    BY <1>2, <2>1 DEF Excusing, Promoting
  <2>3. QED
    BY <1>1, <1>2, <2>2
<1>3. CASE Arrives(v) \/ Promoting(v)
  BY <1>2, <1>3 DEF Paired
<1>4. CASE Arrives(u) \/ Promoting(u)
  BY <1>2, <1>4 DEF Paired
<1>5. CASE ~(Arrives(v) \/ Promoting(v) \/ Arrives(u) \/ Promoting(u))
  <2>1. u \in Production /\ v \in Production
    BY <1>5 DEF Arrives
  <2>2. Excusing(u, v) \/ Excusing(v, u)
    BY <1>5, <2>1 DEF Earned, Paired, Excusing
  <2>3. QED
    BY <1>1, <2>2 DEF Paired
<1>6. QED
  BY <1>3, <1>4, <1>5

LEMMA EarnedStep ==
    ASSUME RegistryInv, Earned, [MCNext]_mcVars
    PROVE  Earned'
<1>1. CASE UNCHANGED mcVars
  <2>1. UNCHANGED << status, experiments, request, labelled, scanned, excused >>
    BY <1>1 DEF mcVars, vars, registryVars
  <2>2. QED
    BY <2>1 DEF Earned, Earning, Paired, Production, Tested, RunsOf
<1>2. CASE MCNext
  <2>1. Histories /\ [RegistryNext]_registryVars
    BY <1>2, StepsOfRegistry DEF MCNext
  <2>2. ASSUME NEW v, Tested(v) PROVE Tested(v)'
    BY <2>1, <2>2, TestedKept
  <2>3. ASSUME NEW v \in Production' PROVE (v \in labelled \/ Tested(v))'
    <3>1. CASE Promoting(v)
      <4>1. PICK c \in Clients : Promotes(c, v)
        BY <3>1 DEF Promoting
      <4>2. Tested(v)
        BY <4>1 DEF Promotes, PromoteWrite, Earned, Earning
      <4>3. QED
        BY <2>2, <4>2
    <3>2. CASE ~Promoting(v) /\ (v \notin Production \/ v \in labelled)
      BY <2>1, <3>2 DEF Histories, Arrives
    <3>3. CASE v \in Production /\ v \notin labelled
      BY <2>2, <3>3 DEF Earned
    <3>4. QED
      BY <3>1, <3>2, <3>3
  <2>4. ASSUME NEW c \in Clients PROVE Earning(c)'
    <3>1. PICK old : old = request[c]
      OBVIOUS
    <3>2. PICK new : new = request'[c]
      OBVIOUS
    <3>3. \/ new = old
          \/ new.op \in {"none", "create", "relabel"}
          \/ new.op = "gated" /\ Gate(new.version)
          \/ /\ old.op = "gated" /\ new.op = "promote" /\ new.version = old.version
             /\ new.demoted = Production \ {old.version}
      BY <2>1, <3>1, <3>2, RequestMoves
    <3>4. /\ old.op \in {"gated", "promote"} => Tested(old.version)
          /\ old.op = "promote" => scanned[c] \subseteq old.demoted \cup {old.version}
      BY <3>1 DEF Earned, Earning
    <3>5. new.op \in {"gated", "promote"} => Tested(new.version)
      BY <3>3, <3>4 DEF Gate, Tested
    <3>6. new.op \in {"gated", "promote"} => Tested(new.version)'
      BY <2>2, <3>5
    <3>7. scanned'[c] = IF new.op # "promote" THEN {}
                        ELSE IF old.op = "gated" THEN Production ELSE scanned[c]
      BY <2>1, <3>1, <3>2 DEF Histories
    <3>8. new.op = "promote" => scanned'[c] \subseteq new.demoted \cup {new.version}
      BY <3>3, <3>4, <3>7
    <3>9. QED
      BY <3>2, <3>6, <3>8 DEF Earning, Tested, RunsOf
  <2>5. \A u, v \in Production' : u # v => Paired(u, v)'
    BY <2>1, PairedStep
  <2>6. QED
    BY <2>3, <2>4, <2>5 DEF Earned
<1>3. QED
  BY <1>1, <1>2

\* ProductionIsEarned is an invariant for any number of clients that promote, label,
\* register and run experiments at once: a version is in production by its label or by
\* an experiment it passed, and a second one is there beside it only by a label, or by
\* a promotion that had looked before the other arrived (services/prompts.py:3-12,
\* promote_prompt_version).
THEOREM ProductionEarned == MCSpec => []ProductionIsEarned
<1>1. RegistryInv /\ Earned /\ [MCNext]_mcVars => Earned'
  BY EarnedStep
<1>2. Earned => ProductionIsEarned
  BY DEF Earned, Paired, Tested, ProductionIsEarned
<1>3. QED
  BY <1>1, <1>2, EarnedStart, ScenesInvariant, PTL DEF MCSpec

==============================================================================
