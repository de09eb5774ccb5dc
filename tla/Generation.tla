------------------------------ MODULE Generation ------------------------------
(***************************************************************************)
(* Requests of one application to /generate (services/generation.py): which *)
(* models a request is sent to, the semantic cache between them            *)
(* (caching/semantic_cache.py), and the trace that is evidence for         *)
(* rollouts and model health.                                              *)
(*                                                                         *)
(* A request is one transaction.  What it reads, it reads statement by     *)
(* statement, while operators and workers change the models' status and    *)
(* the rollout, and others store, hit and prune entries of the cache.      *)
(* Admission is BudgetGuard; retries and fallback are FallbackChain.       *)
(***************************************************************************)
EXTENDS Integers, Sequences, FiniteSets

CONSTANTS
    Requests,
    Models,
    NoModel,
    Price,          \* per model: blended price
    Fallbacks,      \* the fallback lists a caller may send
    Questions,      \* question and context; equal ones are similar enough
    NoRequest,
    TTL,            \* cache_ttl_seconds, positive
    MaxChanges,     \* bound on changes of rollouts and statuses
    MaxTime         \* bound on the clock

ASSUME GenerationAssumption ==
    /\ IsFiniteSet(Models)
    /\ NoModel \notin Models
    /\ NoRequest \notin Requests
    /\ Price \in [Models -> Nat]
    /\ Fallbacks \subseteq Seq(Models)
    /\ TTL \in Nat \ {0}
    /\ MaxChanges \in Nat
    /\ MaxTime \in Nat

VARIABLES
    now,
    changes,    \* how many of MaxChanges were made
    up,         \* the models that are not "down"
    rollout,    \* the application's latest rollout
    cached,     \* per request: the entry it stored in the cache
    requests

vars == << now, changes, up, rollout, cached, requests >>

Arms == {"incumbent", "challenger"}

\* arms: those a rollout routes to; none without a rollout.
Rollout == [incumbent : Models, challenger : Models, arms : (SUBSET Arms) \ {{}}]
NoRollout == [incumbent |-> NoModel, challenger |-> NoModel, arms |-> {}]

\* model: part of the key.  by: who gave the answer (a history field).
NoEntry == [model |-> NoModel, by |-> NoModel, question |-> NoModel, created |-> 0, hits |-> 0]

Steps == {"new", "over", "within", "unrouted", "chosen", "hit", "missed", "answered",
          "error", "unroutable", "lost", "done"}

\* What decides on the chain.
Choices == {"none", "budget", "pin", "rollout", "router"}

\* entry, count: of a hit, what was found and the count to write.  routed: the
\* rollout the chain was taken from.  by: who gave the answer that is returned.
NewRequest ==
    [ step |-> "new", pin |-> NoModel, fallbacks |-> <<>>, question |-> NoModel,
      choice |-> "none", arm |-> "none", routed |-> NoRollout, chain |-> <<>>,
      entry |-> NoRequest, created |-> 0, count |-> 0, model |-> NoModel, by |-> NoModel ]

\* What is left of a request that is over: what its trace says.
Over(req, step) ==
    [NewRequest EXCEPT !.step = step, !.arm = req.arm, !.routed = req.routed,
                       !.model = req.model, !.by = req.by]

Entry == [model : Models, by : Models, question : Questions \cup {NoModel},
          created : Nat, hits : Nat]

Request ==
    [ step : Steps, pin : Models \cup {NoModel}, fallbacks : Seq(Models),
      question : Questions \cup {NoModel}, choice : Choices, arm : Arms \cup {"none"},
      routed : Rollout \cup {NoRollout}, chain : Seq(Models),
      entry : Requests \cup {NoRequest}, created : Nat, count : Nat,
      model : Models \cup {NoModel}, by : Models \cup {NoModel} ]

TypeOK ==
    /\ now \in Nat
    /\ changes \in 0..MaxChanges
    /\ up \in SUBSET Models
    /\ rollout \in Rollout \cup {NoRollout}
    /\ cached \in [Requests -> Entry \cup {NoEntry}]
    /\ requests \in [Requests -> Request]

Init ==
    /\ now = 0
    /\ changes = 0
    /\ up = Models
    /\ rollout = NoRollout
    /\ cached = [q \in Requests |-> NoEntry]
    /\ requests = [q \in Requests |-> NewRequest]

\* Any order of a set of models.
Orders(models) ==
    { o \in [1..Cardinality(models) -> models] : \A i, j \in DOMAIN o : o[i] = o[j] => i = j }

Become(q, req) ==
    /\ requests' = [requests EXCEPT ![q] = req]
    /\ UNCHANGED <<now, changes, up, rollout>>

------------------------------------------------------------------------------
(* Which models *)

Admit(q) ==
    /\ requests[q].step = "new"
    /\ \E step \in {"over", "within"}, question \in Questions,
          pin \in Models \cup {NoModel}, fallbacks \in Fallbacks :
         Become(q, [requests[q] EXCEPT !.step = step, !.question = question, !.pin = pin,
                        !.fallbacks = IF pin = NoModel THEN <<>> ELSE fallbacks])
    /\ UNCHANGED cached

\* To the cheapest model that is up, unless the request is pinned to one as cheap.
Moved(req, m) ==
    /\ \A n \in up : Price[m] <= Price[n]
    /\ req.pin \in up => Price[m] < Price[req.pin]

Downgrade(q) ==
    LET req == requests[q]
    IN  /\ req.step = "over"
        /\ \/ \E m \in up :
                /\ Moved(req, m)
                /\ Become(q, [req EXCEPT !.step = "chosen", !.choice = "budget",
                                         !.chain = <<m>>])
           \/ /\ \A m \in up : ~Moved(req, m)
              /\ Become(q, [req EXCEPT !.step = "within"])
        /\ UNCHANGED cached

Pinned(q) ==
    LET req == requests[q]
    IN  /\ req.step = "within"
        /\ req.pin # NoModel
        /\ Become(q, [req EXCEPT !.step = "chosen", !.choice = "pin", !.fallbacks = <<>>,
                                  !.chain = <<req.pin>> \o req.fallbacks])
        /\ UNCHANGED cached

\* Mutant: the caller's fallbacks, or the other arm, behind the arm's model.
ArmChainMutant(arm) == << rollout[arm], rollout.incumbent >>

ArmChain(arm) == << rollout[arm] >>

FollowRollout(q) ==
    LET req == requests[q]
    IN  /\ req.step = "within"
        /\ req.pin = NoModel
        /\ \/ /\ rollout = NoRollout
              /\ Become(q, [req EXCEPT !.step = "unrouted"])
           \/ \E arm \in rollout.arms :
                Become(q, [req EXCEPT !.step = "chosen", !.choice = "rollout", !.arm = arm,
                                      !.routed = rollout, !.chain = ArmChain(arm)])
        /\ UNCHANGED cached

\* The models that are up, without those the router excludes, in the order of
\* their scores.
Route(q) ==
    LET req == requests[q]
    IN  /\ req.step = "unrouted"
        /\ \/ \E eligible \in (SUBSET up) \ {{}} : \E order \in Orders(eligible) :
                Become(q, [req EXCEPT !.step = "chosen", !.choice = "router", !.chain = order])
           \/ Become(q, Over(req, "unroutable"))
        /\ UNCHANGED cached

------------------------------------------------------------------------------
(* The semantic cache *)

\* The model the answer is looked up for.
First(req) == Head(req.chain)

Replayable(entry) == entry.created >= now - TTL

Candidates(req) ==
    { e \in Requests : /\ cached[e] # NoEntry
                       /\ cached[e].model = First(req)
                       /\ cached[e].question = req.question
                       /\ Replayable(cached[e]) }

\* A miss is also: too little alike, or the cache is not asked for.
Lookup(q) ==
    LET req == requests[q]
    IN  /\ req.step = "chosen"
        /\ \/ \E e \in Candidates(req) :
                Become(q, [req EXCEPT !.step = "hit", !.entry = e, !.created = cached[e].created,
                                      !.count = cached[e].hits + 1])
           \/ Become(q, [req EXCEPT !.step = "missed"])
        /\ UNCHANGED cached

\* The count's UPDATE holds the entry's row until the request commits.
Held(e) == \E q \in Requests : requests[q].step = "answered" /\ requests[q].entry = e

\* It fails if the row was deleted since it was found (StaleDataError).
CountHit(q) ==
    LET req == requests[q]
    IN  /\ req.step = "hit"
        /\ ~Held(req.entry)
        /\ Become(q, IF cached[req.entry] = NoEntry
                     THEN [NewRequest EXCEPT !.step = "lost", !.created = req.created]
                     ELSE [req EXCEPT !.step = "answered", !.model = First(req),
                                      !.by = cached[req.entry].by])
        /\ UNCHANGED cached

\* Mutant: the boundary belongs to the expired ones.
ExpiredMutant(entry) == entry.created <= now - TTL

Expired(entry) == entry.created < now - TTL

\* prune_expired_entries waits for the rows that are held.
Prune ==
    LET old == { e \in Requests : cached[e] # NoEntry /\ Expired(cached[e]) }
    IN  /\ old # {}
        /\ \A e \in old : ~Held(e)
        /\ cached' = [e \in Requests |-> IF e \in old THEN NoEntry ELSE cached[e]]
        /\ UNCHANGED <<now, changes, up, rollout, requests>>

------------------------------------------------------------------------------
(* The answer, and what is left of it *)

\* complete_with_fallback: any model of the chain answers, or none.
Call(q) ==
    LET req == requests[q]
    IN  /\ req.step = "missed"
        /\ \/ \E i \in DOMAIN req.chain :
                Become(q, [req EXCEPT !.step = "answered", !.model = req.chain[i],
                                      !.by = req.chain[i], !.created = now])
           \/ Become(q, [req EXCEPT !.step = "error", !.model = First(req)])
        /\ UNCHANGED cached

\* Mutant: under the model that was asked first.
StoredUnderMutant(req) == First(req)

StoredUnder(req) == req.model

\* The commit of the trace, with the count of a hit or with a new entry.
Record(q) ==
    LET req == requests[q]
    IN  /\ req.step \in {"answered", "error"}
        /\ Become(q, Over(req, "done"))
        /\ \/ /\ req.step = "error"
              /\ UNCHANGED cached
           \/ /\ req.step = "answered" /\ req.entry # NoRequest
              /\ cached' = [cached EXCEPT ![req.entry].hits = req.count]
           \/ /\ req.step = "answered" /\ req.entry = NoRequest
              /\ \/ UNCHANGED cached    \* the request does not use the cache
                 \/ cached' = [cached EXCEPT ![q] =
                      [model |-> StoredUnder(req), by |-> req.by, question |-> req.question,
                       created |-> req.created, hits |-> 0]]

------------------------------------------------------------------------------
(* The rest of the system *)

Change ==
    /\ changes < MaxChanges
    /\ changes' = changes + 1
    /\ UNCHANGED <<now, cached, requests>>

ChangeStatus ==
    /\ Change
    /\ \E m \in Models : up' = (up \ {m}) \cup ({m} \ up)
    /\ UNCHANGED rollout

ChangeRollout ==
    /\ Change
    /\ rollout' \in { r \in Rollout : r.incumbent # r.challenger }
    /\ UNCHANGED up

Tick ==
    /\ now < MaxTime
    /\ now' = now + 1
    /\ UNCHANGED <<changes, up, rollout, cached, requests>>

Serve(q) ==
    \/ Admit(q) \/ Downgrade(q) \/ Pinned(q) \/ FollowRollout(q) \/ Route(q)
    \/ Lookup(q) \/ CountHit(q) \/ Call(q) \/ Record(q)

Next ==
    \/ \E q \in Requests : Serve(q)
    \/ Prune
    \/ ChangeStatus
    \/ ChangeRollout
    \/ Tick

Spec == Init /\ [][Next]_vars

------------------------------------------------------------------------------
(* Properties *)

\* The model a trace names is the one that gave its answer, although answers are
\* replayed from the cache and fallbacks answer for others (generation.py:414,
\* 469): quality and cost are attributed to who earned them.
AnswerIsOwn ==
    \A q \in Requests : requests[q].by # NoModel => requests[q].model = requests[q].by

\* What a trace tells about an arm of a rollout, success or failure, its model
\* did: nobody answers in its place (generation.py:306-309).
ArmEvidence ==
    \A q \in Requests :
        LET req == requests[q]
        IN  req.step = "done" /\ req.arm # "none" =>
              /\ req.model = req.routed[req.arm]
              /\ req.by \in {NoModel, req.routed[req.arm]}

\* A request that found an answer loses it to the TTL only, never to a prune that
\* disagrees with lookups about what has expired (semantic_cache.py:127-150).
LostToExpiryOnly ==
    \A q \in Requests : requests[q].step = "lost" => requests[q].created < now - TTL

\* An over-budget request is never moved to a dearer model (generation.py:283).
NeverDearer ==
    \A q \in Requests :
        LET req == requests[q]
        IN  req.choice = "budget" /\ req.pin # NoModel /\ req.model # NoModel =>
              Price[req.model] <= Price[req.pin]

\* Every replayed answer is counted: an entry's count never lags behind the
\* traces that were answered from it and are recorded when nobody holds it.
NoHitIsLost ==
    [][\A q, e \in Requests :
         /\ requests[q].step = "answered" /\ requests[q].entry = e
         /\ requests'[q].step = "done"
         => cached'[e].hits = cached[e].hits + 1]_vars

==============================================================================
