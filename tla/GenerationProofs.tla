--------------------------- MODULE GenerationProofs ----------------------------
(***************************************************************************)
(* Theorems about Generation: its types, whose answer a trace shows, what  *)
(* it tells about the arm of a rollout, and what a prune may take.         *)
(***************************************************************************)
EXTENDS Generation, FiniteSetTheorems, TLAPS

Chained == {"chosen", "hit", "missed", "answered", "error"}

\* A request that follows a rollout has one model to go to.
ArmOK(req) ==
    /\ req.step \in Chained \cup {"done"}
    /\ req.step \in Chained => req.chain = << req.routed[req.arm] >>
    /\ req.step \in {"answered", "error", "done"} => req.model = req.routed[req.arm]

RequestOK(req) ==
    /\ req.step \in Chained => req.chain # <<>>
    /\ req.step \notin {"answered", "done"} => req.by = NoModel
    /\ req.step = "answered" => req.model \in Models /\ req.by = req.model
    /\ req.by # NoModel => req.model = req.by
    /\ req.step \notin {"hit", "answered"} => req.entry = NoRequest
    /\ req.arm # "none" => ArmOK(req)

EntryOK(e) ==
    cached[e] # NoEntry => /\ requests[e].step = "done"
                           /\ cached[e].by = cached[e].model

\* What a request does about the entry it found: the entry is still as it was
\* found, or expired since; nobody takes it away once the hit is counted.
HitOK(req) ==
    /\ req.step = "hit" =>
         /\ req.entry \in Requests
         /\ requests[req.entry].step = "done"
         /\ cached[req.entry] = NoEntry => req.created < now - TTL
         /\ cached[req.entry] # NoEntry => /\ cached[req.entry].model = Head(req.chain)
                                           /\ cached[req.entry].created = req.created
    /\ req.step = "lost" => req.created < now - TTL
    /\ req.step = "answered" /\ req.entry # NoRequest => cached[req.entry] # NoEntry

Inv ==
    /\ TypeOK
    /\ \A q \in Requests : RequestOK(requests[q])
    /\ \A e \in Requests : EntryOK(e)
    /\ \A q \in Requests : HitOK(requests[q])

------------------------------------------------------------------------------
(* Lemmas *)

LEMMA Numbers == TTL \in Nat /\ MaxTime \in Nat /\ MaxChanges \in Nat
  BY GenerationAssumption

LEMMA NoModelType == NoModel \notin Models /\ NoRequest \notin Requests
  BY GenerationAssumption

LEMMA NewRequestType == NewRequest \in Request
  BY DEF NewRequest, Request, Steps, Choices, Arms

LEMMA OverType ==
  ASSUME NEW req \in Request, NEW step \in Steps
  PROVE  Over(req, step) \in Request
  BY NewRequestType DEF Over, Request

LEMMA ChosenType ==
  ASSUME NEW req \in Request, NEW choice \in Choices, NEW chain \in Seq(Models)
  PROVE  [req EXCEPT !.step = "chosen", !.choice = choice, !.chain = chain] \in Request
  BY DEF Request, Steps

LEMMA ChosenByPinType ==
  ASSUME NEW req \in Request, NEW list \in Seq(Models), NEW chain \in Seq(Models)
  PROVE  [req EXCEPT !.step = "chosen", !.choice = "pin", !.fallbacks = list,
                     !.chain = chain] \in Request
  BY DEF Request, Steps, Choices

LEMMA ChosenByRolloutType ==
  ASSUME NEW req \in Request, NEW arm \in Arms, rollout \in Rollout, NEW chain \in Seq(Models)
  PROVE  [req EXCEPT !.step = "chosen", !.choice = "rollout", !.arm = arm,
                     !.routed = rollout, !.chain = chain] \in Request
  BY DEF Request, Steps, Choices

LEMMA NoEntryModel == \A e \in Entry : e # NoEntry
  BY NoModelType DEF Entry, NoEntry

\* The router's order is a chain.
LEMMA OrderIsChain ==
  ASSUME NEW models \in SUBSET Models, models # {}, NEW order \in Orders(models)
  PROVE  order \in Seq(Models) /\ order # <<>>
<1>1. IsFiniteSet(models)
  BY GenerationAssumption, FS_Subset
<1>2. Cardinality(models) \in Nat /\ Cardinality(models) # 0
  BY <1>1, FS_CardinalityType, FS_EmptySet
<1>3. order \in [1..Cardinality(models) -> Models]
  BY DEF Orders
<1>4. order \in Seq(Models)
  BY <1>2, <1>3
<1>5. Len(order) = Cardinality(models)
  BY <1>2, <1>3
<1>6. QED
  BY <1>2, <1>4, <1>5

\* A step of one request that leaves the cache alone.
LEMMA Local ==
  ASSUME Inv, NEW q \in Requests, NEW req \in Request, Become(q, req), UNCHANGED cached,
         requests[q].step # "done", RequestOK(req), HitOK(req)
  PROVE  Inv'
<1>1. TypeOK'
  BY DEF Inv, TypeOK, Become
<1>2. requests'[q] = req /\ \A p \in Requests \ {q} : requests'[p] = requests[p]
  BY DEF Inv, TypeOK, Become
<1>3. \A p \in Requests : RequestOK(requests'[p])
  BY <1>2 DEF Inv
<1>4. \A e \in Requests : EntryOK(e)'
  BY <1>2 DEF Inv, EntryOK
<1>5. \A p \in Requests : requests[p].step = "done" => requests'[p].step = "done"
  BY <1>2
<1>6. ASSUME NEW r \in Request, HitOK(r) PROVE HitOK(r)'
  BY <1>5, <1>6 DEF HitOK, Become
<1>7. \A p \in Requests : HitOK(requests[p])' \/ p = q
  <2> SUFFICES ASSUME NEW p \in Requests, p # q PROVE HitOK(requests[p])'
    OBVIOUS
  <2>1. requests'[p] = requests[p] /\ requests[p] \in Request /\ HitOK(requests[p])
    BY <1>2 DEF Inv, TypeOK
  <2>2. QED
    BY <2>1, <1>5 DEF HitOK, Become
<1>8. HitOK(requests[q])'
  BY <1>2, <1>5 DEF HitOK, Become
<1>9. QED
  BY <1>1, <1>3, <1>4, <1>7, <1>8 DEF Inv

------------------------------------------------------------------------------
(* One lemma per action *)

\* What the invariant says of one request.
LEMMA Known ==
  ASSUME Inv, NEW q \in Requests
  PROVE  requests[q] \in Request /\ RequestOK(requests[q]) /\ HitOK(requests[q])
  BY DEF Inv, TypeOK

LEMMA NoChainYet ==
  ASSUME Inv, NEW q \in Requests, requests[q].step \in {"new", "over", "within", "unrouted"}
  PROVE  requests[q].arm = "none" /\ requests[q].by = NoModel /\ requests[q].entry = NoRequest
  BY Known DEF RequestOK, ArmOK, Chained

LEMMA AdmitKeeps ==
  ASSUME Inv, NEW q \in Requests, Admit(q)
  PROVE  Inv'
<1>1. PICK step \in {"over", "within"}, question \in Questions, pin \in Models \cup {NoModel},
           fallbacks \in Fallbacks :
        Become(q, [requests[q] EXCEPT !.step = step, !.question = question, !.pin = pin,
                       !.fallbacks = IF pin = NoModel THEN <<>> ELSE fallbacks])
  BY DEF Admit
<1> DEFINE list == IF pin = NoModel THEN <<>> ELSE fallbacks
           req == [requests[q] EXCEPT !.step = step, !.question = question, !.pin = pin,
                       !.fallbacks = list]
<1>2. list \in Seq(Models)
  BY GenerationAssumption
<1> HIDE DEF list
<1>3. req \in Request /\ req.step = step /\ req.arm = requests[q].arm /\ req.by = requests[q].by
      /\ req.entry = requests[q].entry
  BY Known, <1>2 DEF Request, Steps
<1>4. RequestOK(req) /\ HitOK(req)
  BY <1>3, NoChainYet DEF Admit, RequestOK, HitOK, Chained
<1>5. Become(q, req) /\ requests[q].step # "done" /\ UNCHANGED cached
  BY <1>1 DEF Admit, list
<1> HIDE DEF req
<1>6. QED
  BY <1>3, <1>4, <1>5, Local

LEMMA DowngradeKeeps ==
  ASSUME Inv, NEW q \in Requests, Downgrade(q)
  PROVE  Inv'
<1> DEFINE to(m) == [requests[q] EXCEPT !.step = "chosen", !.choice = "budget", !.chain = <<m>>]
           stay == [requests[q] EXCEPT !.step = "within"]
<1>1. requests[q].step = "over" /\ UNCHANGED cached
  BY DEF Downgrade
<1>2. ASSUME NEW m \in Models, Become(q, to(m)) PROVE Inv'
  <2> DEFINE chain == <<m>>
  <2>a. chain \in Seq(Models) /\ chain # <<>>
    OBVIOUS
  <2> HIDE DEF chain
  <2>b. to(m) \in Request
    BY Known, <2>a, ChosenType DEF Choices, chain
  <2>1. /\ to(m) \in Request /\ to(m).step = "chosen" /\ to(m).chain = chain
        /\ to(m).arm = requests[q].arm /\ to(m).by = requests[q].by
        /\ to(m).entry = requests[q].entry
    BY Known, <2>b DEF Request, chain
  <2>2. RequestOK(to(m)) /\ HitOK(to(m))
    BY <1>1, <2>1, <2>a, NoChainYet DEF RequestOK, HitOK, Chained
  <2> HIDE DEF to
  <2>3. QED
    BY <1>1, <1>2, <2>1, <2>2, Local
<1>3. ASSUME Become(q, stay) PROVE Inv'
  <2>1. /\ stay \in Request /\ stay.step = "within"
        /\ stay.arm = requests[q].arm /\ stay.by = requests[q].by /\ stay.entry = requests[q].entry
    BY Known DEF Request, Steps
  <2>2. RequestOK(stay) /\ HitOK(stay)
    BY <1>1, <2>1, NoChainYet DEF RequestOK, HitOK, Chained
  <2> HIDE DEF stay
  <2>3. QED
    BY <1>1, <1>3, <2>1, <2>2, Local
<1>4. up \subseteq Models
  BY DEF Inv, TypeOK
<1>5. QED
  BY <1>2, <1>3, <1>4 DEF Downgrade

LEMMA PinnedKeeps ==
  ASSUME Inv, NEW q \in Requests, Pinned(q)
  PROVE  Inv'
<1> DEFINE chain == <<requests[q].pin>> \o requests[q].fallbacks
           req == [requests[q] EXCEPT !.step = "chosen", !.choice = "pin", !.fallbacks = <<>>,
                                      !.chain = chain]
<1>1. requests[q].step = "within" /\ Become(q, req) /\ UNCHANGED cached
  BY DEF Pinned
<1>2. requests[q].pin \in Models /\ requests[q].fallbacks \in Seq(Models)
  BY Known DEF Pinned, Request
<1>3. chain \in Seq(Models) /\ chain # <<>>
  BY <1>2
<1> HIDE DEF chain
<1> DEFINE nothing == <<>>
<1>a. nothing \in Seq(Models)
  OBVIOUS
<1> HIDE DEF nothing
<1>b. req \in Request
  BY Known, <1>3, <1>a, ChosenByPinType DEF nothing
<1>4. /\ req \in Request /\ req.step = "chosen" /\ req.chain = chain
      /\ req.arm = requests[q].arm /\ req.by = requests[q].by /\ req.entry = requests[q].entry
  BY Known, <1>b DEF Request
<1>5. RequestOK(req) /\ HitOK(req)
  BY <1>1, <1>3, <1>4, NoChainYet DEF RequestOK, HitOK, Chained
<1> HIDE DEF req
<1>6. QED
  BY <1>1, <1>4, <1>5, Local

LEMMA FollowRolloutKeeps ==
  ASSUME Inv, NEW q \in Requests, FollowRollout(q)
  PROVE  Inv'
<1> DEFINE none == [requests[q] EXCEPT !.step = "unrouted"]
           to(arm) == [requests[q] EXCEPT !.step = "chosen", !.choice = "rollout", !.arm = arm,
                                          !.routed = rollout, !.chain = ArmChain(arm)]
<1>1. requests[q].step = "within" /\ UNCHANGED cached
  BY DEF FollowRollout
<1>2. ASSUME Become(q, none) PROVE Inv'
  <2>1. /\ none \in Request /\ none.step = "unrouted"
        /\ none.arm = requests[q].arm /\ none.by = requests[q].by /\ none.entry = requests[q].entry
    BY Known DEF Request, Steps
  <2>2. RequestOK(none) /\ HitOK(none)
    BY <1>1, <2>1, NoChainYet DEF RequestOK, HitOK, Chained
  <2> HIDE DEF none
  <2>3. QED
    BY <1>1, <1>2, <2>1, <2>2, Local
<1>3. ASSUME NEW arm \in rollout.arms, Become(q, to(arm)) PROVE Inv'
  <2>1. rollout \in Rollout /\ arm \in Arms
    BY DEF Inv, TypeOK, Rollout, NoRollout
  <2>2. rollout[arm] \in Models
    BY <2>1 DEF Rollout, Arms
  <2>3. ArmChain(arm) = << rollout[arm] >> /\ ArmChain(arm) \in Seq(Models)
        /\ ArmChain(arm) # <<>>
    BY <2>2 DEF ArmChain
  <2>4. /\ to(arm).step = "chosen" /\ to(arm).chain = ArmChain(arm) /\ to(arm).arm = arm
        /\ to(arm).routed = rollout /\ to(arm).by = requests[q].by
        /\ to(arm).entry = requests[q].entry
    BY Known DEF Request
  <2>5. to(arm) \in Request
    BY Known, <2>1, <2>3, ChosenByRolloutType
  <2>6. RequestOK(to(arm)) /\ HitOK(to(arm))
    BY <1>1, <2>3, <2>4, NoChainYet DEF RequestOK, ArmOK, HitOK, Chained
  <2> HIDE DEF to
  <2>7. QED
    BY <1>1, <1>3, <2>5, <2>6, Local
<1>4. QED
  BY <1>2, <1>3 DEF FollowRollout

LEMMA RouteKeeps ==
  ASSUME Inv, NEW q \in Requests, Route(q)
  PROVE  Inv'
<1> DEFINE to(order) == [requests[q] EXCEPT !.step = "chosen", !.choice = "router",
                                            !.chain = order]
           none == Over(requests[q], "unroutable")
<1>1. requests[q].step = "unrouted" /\ UNCHANGED cached
  BY DEF Route
<1>2. ASSUME NEW eligible \in (SUBSET up) \ {{}}, NEW order \in Orders(eligible),
             Become(q, to(order))
      PROVE  Inv'
  <2>1. order \in Seq(Models) /\ order # <<>>
    <3>1. eligible \in SUBSET Models /\ eligible # {}
      BY DEF Inv, TypeOK
    <3>2. QED
      BY <3>1, OrderIsChain
  <2>2. to(order) \in Request
    BY Known, <2>1, ChosenType DEF Choices
  <2>3. /\ to(order).step = "chosen" /\ to(order).chain = order
        /\ to(order).arm = requests[q].arm /\ to(order).by = requests[q].by
        /\ to(order).entry = requests[q].entry
    BY Known DEF Request
  <2>4. RequestOK(to(order)) /\ HitOK(to(order))
    BY <1>1, <2>1, <2>3, NoChainYet DEF RequestOK, HitOK, Chained
  <2> HIDE DEF to
  <2>5. QED
    BY <1>1, <1>2, <2>2, <2>4, Local
<1>3. ASSUME Become(q, none) PROVE Inv'
  <2>1. none \in Request
    BY Known, OverType DEF Steps
  <2>2. none.step = "unroutable" /\ none.arm = requests[q].arm /\ none.by = requests[q].by
        /\ none.entry = NoRequest
    BY DEF Over, NewRequest
  <2>3. RequestOK(none) /\ HitOK(none)
    BY <1>1, <2>2, NoChainYet DEF RequestOK, HitOK, Chained
  <2> HIDE DEF none
  <2>4. QED
    BY <1>1, <1>3, <2>1, <2>3, Local
<1>4. QED
  BY <1>2, <1>3 DEF Route

LEMMA LookupKeeps ==
  ASSUME Inv, NEW q \in Requests, Lookup(q)
  PROVE  Inv'
<1> DEFINE hit(e) == [requests[q] EXCEPT !.step = "hit", !.entry = e,
                                         !.created = cached[e].created,
                                         !.count = cached[e].hits + 1]
           miss == [requests[q] EXCEPT !.step = "missed"]
<1>1. requests[q].step = "chosen" /\ UNCHANGED cached
  BY DEF Lookup
<1>2. RequestOK(requests[q]) /\ requests[q] \in Request
  BY Known
<1>3. ASSUME NEW e \in Candidates(requests[q]), Become(q, hit(e)) PROVE Inv'
  <2>1. /\ e \in Requests /\ cached[e] # NoEntry
        /\ cached[e].model = Head(requests[q].chain)
    BY DEF Candidates, First
  <2>2. cached[e].created \in Nat /\ cached[e].hits + 1 \in Nat
    <3>1. cached[e] \in Entry
      BY <2>1 DEF Inv, TypeOK
    <3>2. QED
      BY <3>1 DEF Entry
  <2>3. requests[e].step = "done"
    BY <2>1 DEF Inv, EntryOK
  <2>4. hit(e) \in Request
    BY <1>2, <2>1, <2>2 DEF Request, Steps
  <2>5. /\ hit(e).step = "hit" /\ hit(e).entry = e /\ hit(e).created = cached[e].created
        /\ hit(e).chain = requests[q].chain /\ hit(e).arm = requests[q].arm
        /\ hit(e).routed = requests[q].routed /\ hit(e).by = requests[q].by
    BY <1>2 DEF Request
  <2>6. RequestOK(hit(e))
    BY <1>1, <1>2, <2>5 DEF RequestOK, ArmOK, Chained
  <2>7. HitOK(hit(e))
    BY <2>1, <2>3, <2>5 DEF HitOK
  <2> HIDE DEF hit
  <2>8. QED
    BY <1>1, <1>3, <2>4, <2>6, <2>7, Local
<1>4. ASSUME Become(q, miss) PROVE Inv'
  <2>1. miss \in Request
    BY <1>2 DEF Request, Steps
  <2>2. /\ miss.step = "missed" /\ miss.chain = requests[q].chain
        /\ miss.arm = requests[q].arm /\ miss.routed = requests[q].routed
        /\ miss.by = requests[q].by /\ miss.entry = requests[q].entry
    BY <1>2 DEF Request
  <2>3. RequestOK(miss) /\ HitOK(miss)
    BY <1>1, <1>2, <2>2 DEF RequestOK, ArmOK, HitOK, Chained
  <2> HIDE DEF miss
  <2>4. QED
    BY <1>1, <1>4, <2>1, <2>3, Local
<1>5. QED
  BY <1>3, <1>4 DEF Lookup

LEMMA FirstType ==
  ASSUME NEW req \in Request, req.chain # <<>>
  PROVE  Head(req.chain) \in Models
<1>1. req.chain \in Seq(Models)
  BY DEF Request
<1>2. QED
  BY <1>1

LEMMA CountHitKeeps ==
  ASSUME Inv, NEW q \in Requests, CountHit(q)
  PROVE  Inv'
<1> DEFINE lost == [NewRequest EXCEPT !.step = "lost", !.created = requests[q].created]
           first == First(requests[q])
           by == cached[requests[q].entry].by
           answered == [requests[q] EXCEPT !.step = "answered", !.model = first, !.by = by]
<1>1. /\ requests[q].step = "hit" /\ UNCHANGED cached
      /\ Become(q, IF cached[requests[q].entry] = NoEntry THEN lost ELSE answered)
  BY DEF CountHit
<1>2. RequestOK(requests[q]) /\ HitOK(requests[q]) /\ requests[q] \in Request
  BY Known
<1>3. first = Head(requests[q].chain) /\ first \in Models
  BY <1>1, <1>2, FirstType DEF First, RequestOK, Chained
<1>4. CASE cached[requests[q].entry] = NoEntry
  <2>1. lost \in Request /\ lost.step = "lost" /\ lost.created = requests[q].created
        /\ lost.arm = "none" /\ lost.by = NoModel /\ lost.entry = NoRequest
    <3>1. requests[q].created \in Nat
      BY <1>2 DEF Request
    <3>2. QED
      BY <3>1, NewRequestType DEF Request, Steps, NewRequest
  <2>2. RequestOK(lost) /\ HitOK(lost)
    BY <1>1, <1>2, <1>4, <2>1 DEF RequestOK, HitOK, Chained
  <2> HIDE DEF lost, answered
  <2>3. QED
    BY <1>1, <1>4, <2>1, <2>2, Local
<1>5. CASE cached[requests[q].entry] # NoEntry
  <2>1. /\ requests[q].entry \in Requests
        /\ cached[requests[q].entry].model = first
    BY <1>1, <1>2, <1>3, <1>5 DEF HitOK
  <2>2. by = first
    BY <1>5, <2>1 DEF Inv, EntryOK
  <2> HIDE DEF first, by
  <2>3. answered \in Request
    BY <1>2, <1>3, <2>2 DEF Request, Steps
  <2>4. /\ answered.step = "answered" /\ answered.model = first /\ answered.by = first
        /\ answered.chain = requests[q].chain /\ answered.arm = requests[q].arm
        /\ answered.routed = requests[q].routed /\ answered.entry = requests[q].entry
    BY <1>2, <2>2 DEF Request
  <2>5. requests[q].arm # "none" => first = requests[q].routed[requests[q].arm]
    BY <1>1, <1>2, <1>3 DEF RequestOK, ArmOK, Chained
  <2>6. RequestOK(answered)
    BY <1>1, <1>2, <1>3, <2>4, <2>5, NoModelType DEF RequestOK, ArmOK, Chained
  <2>7. HitOK(answered)
    BY <1>5, <2>4 DEF HitOK
  <2> HIDE DEF lost, answered
  <2>8. QED
    BY <1>1, <1>5, <2>3, <2>6, <2>7, Local
<1>6. QED
  BY <1>4, <1>5

LEMMA CallKeeps ==
  ASSUME Inv, NEW q \in Requests, Call(q)
  PROVE  Inv'
<1> DEFINE to(m) == [requests[q] EXCEPT !.step = "answered", !.model = m, !.by = m,
                                        !.created = now]
           first == First(requests[q])
           error == [requests[q] EXCEPT !.step = "error", !.model = first]
<1>1. requests[q].step = "missed" /\ UNCHANGED cached
  BY DEF Call
<1>2. RequestOK(requests[q]) /\ requests[q] \in Request /\ now \in Nat
  BY Known DEF Inv, TypeOK
<1>3. requests[q].chain \in Seq(Models) /\ requests[q].chain # <<>>
  BY <1>1, <1>2 DEF Request, RequestOK, Chained
<1>4. first = Head(requests[q].chain) /\ first \in Models
  BY <1>2, <1>3, FirstType DEF First
<1>5. requests[q].arm # "none" =>
        requests[q].chain = << requests[q].routed[requests[q].arm] >>
  BY <1>1, <1>2 DEF RequestOK, ArmOK, Chained
<1>6. ASSUME NEW i \in DOMAIN requests[q].chain, Become(q, to(requests[q].chain[i])) PROVE Inv'
  <2> DEFINE m == requests[q].chain[i]
  <2>1. m \in Models
    BY <1>3
  <2>2. requests[q].arm # "none" => m = requests[q].routed[requests[q].arm]
    BY <1>5
  <2>3. HitOK(requests[q]) /\ requests[q].entry \in Requests \cup {NoRequest}
    BY <1>2, Known DEF Request
  <2> HIDE DEF m
  <2>4. to(m) \in Request
    BY <1>2, <2>1 DEF Request, Steps
  <2>5. /\ to(m).step = "answered" /\ to(m).model = m /\ to(m).by = m
        /\ to(m).chain = requests[q].chain /\ to(m).arm = requests[q].arm
        /\ to(m).routed = requests[q].routed /\ to(m).entry = requests[q].entry
    BY <1>2 DEF Request
  <2>6. RequestOK(to(m))
    BY <1>3, <1>5, <2>1, <2>2, <2>5 DEF RequestOK, ArmOK, Chained
  <2>7. requests[q].entry = NoRequest
    BY <1>1, Known DEF RequestOK
  <2>8. HitOK(to(m))
    BY <2>5, <2>7 DEF HitOK
  <2>9. Become(q, to(m))
    BY <1>6 DEF m
  <2> HIDE DEF to
  <2>10. QED
    BY <1>1, <2>4, <2>6, <2>8, <2>9, Local
<1>7. ASSUME Become(q, error) PROVE Inv'
  <2>1. requests[q].arm # "none" => first = requests[q].routed[requests[q].arm]
    BY <1>4, <1>5
  <2>2. requests[q].by = NoModel /\ requests[q].entry = NoRequest
    BY <1>1, <1>2 DEF RequestOK
  <2> HIDE DEF first
  <2>3. error \in Request
    BY <1>2, <1>4 DEF Request, Steps
  <2>4. /\ error.step = "error" /\ error.model = first /\ error.by = requests[q].by
        /\ error.entry = requests[q].entry
        /\ error.chain = requests[q].chain /\ error.arm = requests[q].arm
        /\ error.routed = requests[q].routed
    BY <1>2 DEF Request
  <2>5. RequestOK(error) /\ HitOK(error)
    BY <1>3, <1>5, <2>1, <2>2, <2>4 DEF RequestOK, ArmOK, HitOK, Chained
  <2> HIDE DEF error
  <2>6. QED
    BY <1>1, <1>7, <2>3, <2>5, Local
<1>8. QED
  BY <1>6, <1>7 DEF Call

\* The commit is the only step of a request that writes to the cache.
LEMMA RecordKeeps ==
  ASSUME Inv, NEW q \in Requests, Record(q)
  PROVE  Inv'
<1> DEFINE over == Over(requests[q], "done")
           hit == [cached[requests[q].entry] EXCEPT !.hits = requests[q].count]
           entry == [model |-> StoredUnder(requests[q]), by |-> requests[q].by,
                     question |-> requests[q].question, created |-> requests[q].created,
                     hits |-> 0]
<1>1. requests[q].step \in {"answered", "error"} /\ Become(q, over)
  BY DEF Record
<1>2. RequestOK(requests[q]) /\ HitOK(requests[q]) /\ requests[q] \in Request
  BY Known
<1>3. over \in Request
  BY <1>2, OverType DEF Steps
<1>4. /\ over.step = "done" /\ over.arm = requests[q].arm /\ over.routed = requests[q].routed
      /\ over.model = requests[q].model /\ over.by = requests[q].by /\ over.entry = NoRequest
  BY DEF Over, NewRequest
<1>5. RequestOK(over)
  BY <1>1, <1>2, <1>4 DEF RequestOK, ArmOK, Chained
<1>6. CASE UNCHANGED cached
  <2>1. HitOK(over)
    BY <1>4 DEF HitOK
  <2> HIDE DEF over
  <2>2. QED
    BY <1>1, <1>3, <1>5, <1>6, <2>1, Local
<1>7. ASSUME NEW e \in Requests, NEW new \in Entry, new.by = new.model,
             cached' = [cached EXCEPT ![e] = new],
             \/ e = q
             \/ /\ cached[e] # NoEntry
                /\ new.model = cached[e].model
                /\ new.created = cached[e].created
      PROVE  Inv'
  <2> HIDE DEF over
  <2>1. requests' = [requests EXCEPT ![q] = over] /\ now' = now
    BY <1>1 DEF Become
  <2>2. TypeOK'
    BY <1>1, <1>3, <1>7 DEF Inv, TypeOK, Become
  <2>3. requests'[q] = over /\ \A p \in Requests \ {q} : requests'[p] = requests[p]
    BY <2>1 DEF Inv, TypeOK
  <2>4. cached'[e] = new /\ \A f \in Requests \ {e} : cached'[f] = cached[f]
    BY <1>7 DEF Inv, TypeOK
  <2>5. \A p \in Requests : RequestOK(requests'[p])
    BY <1>5, <2>3 DEF Inv
  <2>6. new # NoEntry
    BY NoEntryModel
  <2>7. requests'[e].step = "done"
    BY <1>4, <1>7, <2>3 DEF Inv, EntryOK
  <2>8. \A f \in Requests : EntryOK(f)'
    <3> SUFFICES ASSUME NEW f \in Requests PROVE EntryOK(f)'
      OBVIOUS
    <3>1. CASE f = e
      BY <1>7, <2>4, <2>7, <3>1 DEF EntryOK
    <3>2. CASE f # e
      BY <1>4, <2>3, <2>4, <3>2 DEF Inv, EntryOK
    <3>3. QED
      BY <3>1, <3>2
  <2>9. \A p \in Requests : HitOK(requests[p])'
    <3> SUFFICES ASSUME NEW p \in Requests PROVE HitOK(requests[p])'
      OBVIOUS
    <3>1. CASE p = q
      BY <1>4, <2>3, <3>1 DEF HitOK
    <3>2. CASE p # q
      <4>1. requests'[p] = requests[p] /\ requests[p] \in Request /\ HitOK(requests[p])
        BY <2>3, <3>2, Known
      <4>2. CASE requests[p].step = "hit"
        <5>1. /\ requests[p].entry \in Requests
              /\ requests[requests[p].entry].step = "done"
          BY <4>1, <4>2 DEF HitOK
        <5>2. requests[p].entry # q
          BY <1>1, <5>1
        <5>3. requests'[requests[p].entry].step = "done"
          BY <2>3, <5>1, <5>2
        <5>4. CASE requests[p].entry = e
          BY <1>7, <2>1, <2>4, <2>6, <4>1, <4>2, <5>1, <5>2, <5>3, <5>4 DEF HitOK
        <5>5. CASE requests[p].entry # e
          BY <2>1, <2>4, <4>1, <4>2, <5>1, <5>3, <5>5 DEF HitOK
        <5>6. QED
          BY <5>4, <5>5
      <4>3. CASE requests[p].step = "answered" /\ requests[p].entry # NoRequest
        <5>1. requests[p].entry \in Requests /\ cached[requests[p].entry] # NoEntry
          BY <4>1, <4>3 DEF HitOK, Request
        <5>2. cached'[requests[p].entry] # NoEntry
          BY <2>4, <2>6, <5>1
        <5>3. QED
          BY <4>1, <4>3, <5>2 DEF HitOK
      <4>4. CASE /\ requests[p].step # "hit"
                 /\ ~(requests[p].step = "answered" /\ requests[p].entry # NoRequest)
        BY <2>1, <4>1, <4>4 DEF HitOK
      <4>5. QED
        BY <4>2, <4>3, <4>4
    <3>3. QED
      BY <3>1, <3>2
  <2>10. QED
    BY <2>2, <2>5, <2>8, <2>9 DEF Inv
<1>8. CASE /\ requests[q].step = "answered" /\ requests[q].entry # NoRequest
           /\ cached' = [cached EXCEPT ![requests[q].entry].hits = requests[q].count]
  <2>1. requests[q].entry \in Requests /\ cached[requests[q].entry] # NoEntry
    BY <1>2, <1>8 DEF HitOK, Request
  <2>2. /\ cached[requests[q].entry] \in Entry
        /\ cached[requests[q].entry].by = cached[requests[q].entry].model
    BY <2>1 DEF Inv, TypeOK, EntryOK
  <2>3. /\ hit \in Entry /\ hit.model = cached[requests[q].entry].model
        /\ hit.by = cached[requests[q].entry].by
        /\ hit.created = cached[requests[q].entry].created
    BY <1>2, <2>2 DEF Entry, Request
  <2>4. cached' = [cached EXCEPT ![requests[q].entry] = hit]
    BY <1>8, <2>1 DEF Inv, TypeOK
  <2> HIDE DEF hit
  <2>5. QED
    BY <1>7, <2>1, <2>2, <2>3, <2>4
<1>9. CASE /\ requests[q].step = "answered"
           /\ cached' = [cached EXCEPT ![q] = entry]
  <2>1. requests[q].model \in Models /\ requests[q].by = requests[q].model
    BY <1>2, <1>9 DEF RequestOK
  <2>2. entry \in Entry /\ entry.by = entry.model
    BY <1>2, <2>1 DEF Entry, Request, StoredUnder
  <2> HIDE DEF entry
  <2>3. QED
    BY <1>7, <1>9, <2>2
<1>10. QED
  BY <1>6, <1>8, <1>9 DEF Record

LEMMA PruneKeeps ==
  ASSUME Inv, Prune
  PROVE  Inv'
<1> DEFINE old == { e \in Requests : cached[e] # NoEntry /\ Expired(cached[e]) }
<1>1. /\ \A e \in old : ~Held(e)
      /\ cached' = [e \in Requests |-> IF e \in old THEN NoEntry ELSE cached[e]]
      /\ UNCHANGED <<now, changes, up, rollout, requests>>
  BY DEF Prune
<1>2. \A e \in Requests : cached'[e] = IF e \in old THEN NoEntry ELSE cached[e]
  BY <1>1
<1>3. \A e \in old : cached[e] # NoEntry /\ cached[e].created < now - TTL
  BY DEF Expired
<1> HIDE DEF old
<1>4. TypeOK'
  BY <1>1 DEF Inv, TypeOK
<1>5. \A q \in Requests : RequestOK(requests'[q])
  BY <1>1 DEF Inv
<1>6. \A e \in Requests : EntryOK(e)'
  BY <1>1, <1>2 DEF Inv, EntryOK
<1>7. \A q \in Requests : HitOK(requests[q])'
  <2> SUFFICES ASSUME NEW q \in Requests PROVE HitOK(requests[q])'
    OBVIOUS
  <2>1. HitOK(requests[q]) /\ requests[q] \in Request
    BY Known
  <2>2. CASE requests[q].step = "hit"
    BY <1>1, <1>2, <1>3, <2>1, <2>2 DEF HitOK
  <2>3. CASE requests[q].step = "answered" /\ requests[q].entry # NoRequest
    <3>1. requests[q].entry \in Requests /\ cached[requests[q].entry] # NoEntry
      BY <2>1, <2>3 DEF HitOK, Request
    <3>2. requests[q].entry \notin old
      BY <1>1, <2>3 DEF Held
    <3>3. QED
      BY <1>1, <1>2, <2>3, <3>1, <3>2 DEF HitOK
  <2>4. CASE /\ requests[q].step # "hit"
             /\ ~(requests[q].step = "answered" /\ requests[q].entry # NoRequest)
    BY <1>1, <2>1, <2>4 DEF HitOK
  <2>5. QED
    BY <2>2, <2>3, <2>4
<1>8. QED
  BY <1>4, <1>5, <1>6, <1>7 DEF Inv

LEMMA ChangeKeeps ==
  ASSUME Inv, Change, up' \in SUBSET Models, rollout' \in Rollout \cup {NoRollout}
  PROVE  Inv'
<1>1. TypeOK'
  BY Numbers DEF Inv, TypeOK, Change
<1>2. \A e \in Requests : EntryOK(e)'
  BY DEF Inv, EntryOK, Change
<1>3. \A q \in Requests : RequestOK(requests'[q]) /\ HitOK(requests[q])'
  BY DEF Inv, HitOK, Change
<1>4. QED
  BY <1>1, <1>2, <1>3 DEF Inv

LEMMA TickKeeps ==
  ASSUME Inv, Tick
  PROVE  Inv'
<1>1. now \in Nat /\ now' = now + 1 /\ UNCHANGED <<changes, up, rollout, cached, requests>>
  BY DEF Inv, TypeOK, Tick
<1>2. TypeOK'
  BY <1>1 DEF Inv, TypeOK
<1>3. \A e \in Requests : EntryOK(e)'
  BY <1>1 DEF Inv, EntryOK
<1>4. \A q \in Requests : HitOK(requests[q])'
  <2> SUFFICES ASSUME NEW q \in Requests PROVE HitOK(requests[q])'
    OBVIOUS
  <2>1. requests[q].created \in Nat /\ HitOK(requests[q])
    BY Known DEF Request
  <2>2. requests[q].created < now - TTL => requests[q].created < now' - TTL
    BY <1>1, <2>1, Numbers
  <2>3. QED
    BY <1>1, <2>1, <2>2 DEF HitOK
<1>5. QED
  BY <1>1, <1>2, <1>3, <1>4 DEF Inv

LEMMA Initially == Init => Inv
<1> SUFFICES ASSUME Init PROVE Inv
  OBVIOUS
<1>1. \A q \in Requests : requests[q] = NewRequest
  BY DEF Init
<1>2. TypeOK
  BY NewRequestType, Numbers DEF Init, TypeOK
<1>3. /\ NewRequest.step = "new" /\ NewRequest.by = NoModel /\ NewRequest.arm = "none"
      /\ NewRequest.entry = NoRequest
  BY DEF NewRequest
<1>4. RequestOK(NewRequest) /\ HitOK(NewRequest)
  BY <1>3 DEF RequestOK, HitOK, Chained
<1>5. \A e \in Requests : EntryOK(e)
  BY DEF Init, EntryOK
<1>6. QED
  BY <1>1, <1>2, <1>4, <1>5 DEF Inv

LEMMA Step == Inv /\ [Next]_vars => Inv'
<1> SUFFICES ASSUME Inv, [Next]_vars PROVE Inv'
  OBVIOUS
<1>1. ASSUME NEW q \in Requests, Serve(q) PROVE Inv'
  BY <1>1, AdmitKeeps, DowngradeKeeps, PinnedKeeps, FollowRolloutKeeps, RouteKeeps,
     LookupKeeps, CountHitKeeps, CallKeeps, RecordKeeps DEF Serve
<1>2. CASE Prune
  BY <1>2, PruneKeeps
<1>3. CASE ChangeStatus
  <2>1. up' \in SUBSET Models /\ rollout' \in Rollout \cup {NoRollout}
    BY <1>3 DEF ChangeStatus, Inv, TypeOK
  <2>2. QED
    BY <1>3, <2>1, ChangeKeeps DEF ChangeStatus
<1>4. CASE ChangeRollout
  <2>1. up' \in SUBSET Models /\ rollout' \in Rollout \cup {NoRollout}
    BY <1>4 DEF ChangeRollout, Inv, TypeOK
  <2>2. QED
    BY <1>4, <2>1, ChangeKeeps DEF ChangeRollout
<1>5. CASE Tick
  BY <1>5, TickKeeps
<1>6. CASE UNCHANGED vars
  BY <1>6 DEF vars, Inv, TypeOK, EntryOK, HitOK
<1>7. QED
  BY <1>1, <1>2, <1>3, <1>4, <1>5, <1>6 DEF Next

LEMMA Inductive == Spec => []Inv
  BY Initially, Step, PTL DEF Spec

------------------------------------------------------------------------------
(* Theorems *)

\* Every state is well typed, for any requests, models and questions.
THEOREM TypeCorrect == Spec => []TypeOK
<1>1. Inv => TypeOK
  BY DEF Inv
<1>2. QED
  BY <1>1, Inductive, PTL

\* Whoever a trace names gave the answer, for any chains and whatever the cache
\* holds (services/generation.py:414, semantic_cache.py:98-118).
THEOREM OwnAnswers == Spec => []AnswerIsOwn
<1>1. Inv => AnswerIsOwn
  BY DEF Inv, RequestOK, AnswerIsOwn
<1>2. QED
  BY <1>1, Inductive, PTL

\* The evidence about the arms of a rollout is about the models of its arms
\* (services/generation.py:305-308).
THEOREM HonestArms == Spec => []ArmEvidence
<1>1. Inv => ArmEvidence
  <2> SUFFICES ASSUME Inv, NEW q \in Requests, requests[q].step = "done",
                      requests[q].arm # "none"
               PROVE  /\ requests[q].model = requests[q].routed[requests[q].arm]
                      /\ requests[q].by \in {NoModel, requests[q].routed[requests[q].arm]}
    BY DEF ArmEvidence
  <2>1. RequestOK(requests[q])
    BY Known
  <2>2. QED
    BY <2>1 DEF RequestOK, ArmOK
<1>2. QED
  BY <1>1, Inductive, PTL

\* A prune takes from a lookup only what has expired since
\* (semantic_cache.py:127-150).
THEOREM LostOnlyToExpiry == Spec => []LostToExpiryOnly
<1>1. Inv => LostToExpiryOnly
  BY Known DEF Inv, HitOK, LostToExpiryOnly
<1>2. QED
  BY <1>1, Inductive, PTL

==============================================================================
