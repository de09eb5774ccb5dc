--------------------------- MODULE AdmissionProofs ---------------------------
(***************************************************************************)
(* Theorems about what is let through: requests by the budget, for every   *)
(* number of requests, replicas and rules and every time to live           *)
(* (BudgetGuard), and models by the health pass and the router, for every  *)
(* registry and every course of traffic (MCHealth).                        *)
(***************************************************************************)
EXTENDS BudgetGuard, MCHealth, SumTheorems, SequenceTheorems, FiniteSetTheorems,
        WellFoundedInduction, TLAPS

------------------------------------------------------------------------------
(* What the application spent *)

CostOf(rs) == [q \in Requests |-> rs[q].cost]
TotalOf(rs, these) == MapThenSumSet(LAMBDA q : rs[q].cost, these)

\* The traces of a span of time, and what they cost.
Traces(rs, first, last) ==
    { q \in Requests : rs[q].step = "done" /\ rs[q].at \in first..last }
Ledger(rs, first, last) == Sum(CostOf(rs), Traces(rs, first, last))

Request == [ step : Steps, kind : {"generate", "status"}, replica : Replicas, name : Names,
             arrived : Nat, asked : Nat, consulted : Nat, decided : Nat, at : Nat,
             cost : Nat, rule : Rules \cup {Unset}, spent : Nat, outcome : Outcomes ]

LEMMA TotalIsSum ==
    ASSUME NEW rs, NEW S \in SUBSET Requests
    PROVE  TotalOf(rs, S) = Sum(CostOf(rs), S)
<1>1. IsFiniteSet(S)
  BY FS_Subset, BudgetAssumption
<1>. DEFINE Adds(g) == g = [s \in SUBSET S |-> IF s = {} THEN 0
                                             ELSE rs[Some(s)].cost + g[s \ {Some(s)}]]
            h == CHOOSE g : Adds(g)
<1>2. \A s \in SUBSET S : s # {} => rs[Some(s)].cost = CostOf(rs)[Some(s)]
  BY SomeIn DEF CostOf
<1>3. ASSUME NEW g PROVE Adds(g) <=> SumsUp(g, CostOf(rs), S)
  BY <1>2 DEF SumsUp
<1>4. TotalOf(rs, S) = h[S]
  BY DEF TotalOf, MapThenSumSet, MapThenFoldSet, Some
<1>. HIDE DEF Adds
<1>5. \E g : Adds(g)
  BY <1>1, <1>3, SumsExist
<1>6. Adds(h)
  BY <1>5
<1>. HIDE DEF h
<1>7. QED
  BY <1>1, <1>3, <1>4, <1>6, SumIsFold

\* The operators of the model are these.
LEMMA SpentIsLedger ==
    ASSUME NEW first, NEW last
    PROVE  SpentBetween(first, last) = Ledger(requests, first, last)
<1>1. SpentBetween(first, last) = TotalOf(requests, Traces(requests, first, last))
  BY DEF SpentBetween, Total, TotalOf, Traces
<1>2. QED
  BY <1>1, TotalIsSum DEF Ledger, Traces

LEMMA SpentIsSum ==
    ASSUME NEW asked
    PROVE  Spent(asked) = Sum(CostOf(requests), { q \in Requests : Counted(q, asked) })
<1>1. Spent(asked) = TotalOf(requests, { q \in Requests : Counted(q, asked) })
  BY DEF Spent, Total, TotalOf
<1>2. QED
  BY <1>1, TotalIsSum

LEMMA LedgerType ==
    ASSUME NEW rs \in [Requests -> Request], NEW first, NEW last
    PROVE  Ledger(rs, first, last) \in Nat
<1>1. IsFiniteSet(Traces(rs, first, last))
  BY FS_Subset, BudgetAssumption DEF Traces
<1>2. \A q \in Traces(rs, first, last) : CostOf(rs)[q] \in Nat
  BY DEF Traces, CostOf, Request
<1>3. QED
  BY <1>1, <1>2, SumType DEF Ledger

\* A longer span, or more traces, cost no less.
LEMMA LedgerGrows ==
    ASSUME NEW rs \in [Requests -> Request], NEW first \in Int, NEW last \in Int,
           NEW ts \in [Requests -> Request], NEW from \in Int, NEW to \in Int,
           \A q \in Requests :
              rs[q].step = "done" /\ rs[q].at \in first..last =>
                \/ rs[q].cost = 0
                \/ ts[q].step = "done" /\ ts[q].at \in from..to /\ rs[q].cost = ts[q].cost
    PROVE  Ledger(rs, first, last) <= Ledger(ts, from, to)
<1>. DEFINE S == Traces(rs, first, last)
            T == Traces(ts, from, to)
            f == CostOf(rs)
            g == CostOf(ts)
<1>1. IsFiniteSet(S) /\ IsFiniteSet(T)
  BY FS_Subset, BudgetAssumption DEF Traces
<1>2. (\A q \in S : f[q] \in Nat) /\ (\A q \in T : g[q] \in Nat)
  BY DEF Traces, CostOf, Request
<1>3. \A q \in S : f[q] = 0 \/ (q \in T /\ f[q] <= g[q])
  <2> SUFFICES ASSUME NEW q \in S PROVE f[q] = 0 \/ (q \in T /\ f[q] <= g[q])
    OBVIOUS
  <2>1. q \in Requests /\ rs[q].step = "done" /\ rs[q].at \in first..last
    BY DEF Traces
  <2>2. f[q] = rs[q].cost /\ g[q] = ts[q].cost
    BY <2>1 DEF CostOf
  <2>3. CASE rs[q].cost = 0
    BY <2>2, <2>3
  <2>4. CASE ts[q].step = "done" /\ ts[q].at \in from..to /\ rs[q].cost = ts[q].cost
    <3>1. q \in T /\ f[q] = g[q] /\ f[q] \in Nat
      BY <1>2, <2>1, <2>2, <2>4 DEF Traces
    <3>2. QED
      BY <3>1
  <2>5. QED
    BY <2>1, <2>3, <2>4
<1>4. Sum(f, S) <= Sum(g, T)
  <2>. HIDE DEF S, T, f, g
  <2>1. QED
    BY <1>1, <1>2, <1>3, SumGrows
<1>5. QED
  BY <1>4 DEF Ledger

LEMMA LongerSpan ==
    ASSUME NEW rs \in [Requests -> Request], NEW first \in Int, NEW last \in Int,
           NEW from \in Int, NEW to \in Int, from <= first, last <= to
    PROVE  Ledger(rs, first, last) <= Ledger(rs, from, to)
<1>1. \A q \in Requests : rs[q].at \in Nat
  BY DEF Request
<1>2. \A q \in Requests :
        rs[q].step = "done" /\ rs[q].at \in first..last =>
           \/ rs[q].cost = 0
           \/ rs[q].step = "done" /\ rs[q].at \in from..to /\ rs[q].cost = rs[q].cost
  BY <1>1
<1>3. QED
  BY <1>2, LedgerGrows

\* Traces are only ever added, at the time t or free of charge.
Accrues(rs, ts, t) ==
    \A q \in Requests :
       /\ rs[q].step = "done" => ts[q] = rs[q]
       /\ ts[q].step = "done" /\ rs[q].step # "done" => ts[q].cost = 0 \/ ts[q].at = t

LEMMA LedgerStep ==
    ASSUME NEW rs \in [Requests -> Request], NEW ts \in [Requests -> Request],
           NEW t \in Nat, Accrues(rs, ts, t),
           NEW first \in Int, NEW last \in Int
    PROVE  /\ \A to \in Int : to >= last => Ledger(rs, first, last) <= Ledger(ts, first, to)
           /\ last < t => Ledger(ts, first, last) = Ledger(rs, first, last)
<1>0. \A q \in Requests : rs[q] \in Request /\ ts[q] \in Request
  OBVIOUS
<1>1. ASSUME NEW to \in Int, to >= last
      PROVE  Ledger(rs, first, last) <= Ledger(ts, first, to)
  <2>1. \A q \in Requests : rs[q].step = "done" /\ rs[q].at \in first..last =>
          ts[q].step = "done" /\ ts[q].at \in first..to /\ rs[q].cost = ts[q].cost
    BY <1>0, <1>1 DEF Accrues, Request
  <2>2. QED
    BY <2>1, LedgerGrows
<1>2. ASSUME last < t
      PROVE  Ledger(ts, first, last) <= Ledger(rs, first, last)
  <2>1. \A q \in Requests : ts[q].step = "done" /\ ts[q].at \in first..last =>
          \/ ts[q].cost = 0
          \/ rs[q].step = "done" /\ rs[q].at \in first..last /\ rs[q].cost = ts[q].cost
    BY <1>0, <1>2 DEF Accrues, Request
  <2>2. QED
    BY <2>1, LedgerGrows
<1>3. Ledger(rs, first, last) \in Nat /\ Ledger(ts, first, last) \in Nat
  BY LedgerType
<1>4. QED
  BY <1>1, <1>2, <1>3

------------------------------------------------------------------------------
(* The inductive invariant *)

\* spent answers the query asked at that time: it is no less than what had been
\* spent by then, and no more than what has been spent at time t.
KnownSpend(asked, spent, rs, t) ==
    /\ asked <= t
    /\ Ledger(rs, asked - Window, asked - 1) <= spent
    /\ spent <= Ledger(rs, asked - Window, t)

\* The rule was the application's at some time between from and to.
InForce(rls, rule, from, to) ==
    \E i \in DOMAIN rls :
       /\ rls[i].rule = rule
       /\ rls[i].at <= to
       /\ i < Len(rls) => rls[i + 1].at >= from

\* The steps of a request are in order, none of them later than t.
Timely(req, t) ==
    /\ req.arrived <= t
    /\ req.asked <= t
    /\ req.consulted <= t
    /\ req.decided <= t
    /\ req.step \in {"lookup", "found"} => req.arrived <= req.asked
    /\ req.step \in {"sum", "summed"} /\ req.kind = "generate" =>
         req.asked = req.consulted /\ Enforced(req.rule)
    /\ req.outcome # "none" => req.consulted <= req.decided
    /\ req.outcome \in {"within", "downgraded", "refused"} => Enforced(req.rule)
    /\ req.step \in {"new", "lookup", "found", "sum", "summed", "done"} => req.outcome = "none"
    /\ req.kind # "generate" => req.step \in {"sum", "summed"}
    /\ req.step = "done" => req.at <= t

\* What a request has been told of the spend, and what was decided on it.
SpendSound(req, rs, t) ==
    /\ req.step = "summed" => KnownSpend(req.asked, req.spent, rs, t)
    /\ req.outcome = "within" =>
         Ledger(rs, req.decided - Window, req.consulted - TTL) < req.rule.budget
    /\ req.outcome \in {"refused", "downgraded"} =>
         Ledger(rs, req.consulted - TTL + 1 - Window, req.decided) >= req.rule.budget

\* The rule a request has been told.
RuleSound(req, rls, t) ==
    /\ req.step = "found" => InForce(rls, req.rule, req.asked, t)
    /\ req.kind = "generate" /\ (req.step \in {"sum", "summed"} \/ req.outcome # "none") =>
         InForce(rls, req.rule, req.arrived - TTL + 1, req.consulted)

Sound(req, rs, rls, t) == Timely(req, t) /\ SpendSound(req, rs, t) /\ RuleSound(req, rls, t)

\* A cached spend, or rule, answers a query made a time to live before it expires.
SpendCached(entry, rs, t) ==
    entry.expires # 0 => KnownSpend(entry.expires - TTL, entry.spent, rs, t)
RuleCached(entry, rls, t) ==
    entry.expires # 0 => entry.expires - TTL <= t /\ InForce(rls, entry.rule, entry.expires - TTL, t)

TypeInv == TypeOK /\ requests \in [Requests -> Request]

BudgetInv ==
    /\ TypeInv
    /\ rules # <<>> /\ \A i \in DOMAIN rules : rules[i].at <= now
    /\ \A q \in Requests : Sound(requests[q], requests, rules, now)
    /\ \A r \in Replicas : SpendCached(spends[r], requests, now)
    /\ \A r \in Replicas, n \in Names : RuleCached(registrations[r][n], rules, now)

LEMMA NewRequestType ==
    ASSUME NEW r \in Replicas, NEW n \in Names
    PROVE  /\ NewRequest(r, n) \in Request
           /\ NewRequest(r, n).step = "new" /\ NewRequest(r, n).outcome = "none"
           /\ NewRequest(r, n).kind = "generate"
           /\ NewRequest(r, n).arrived = 0 /\ NewRequest(r, n).asked = 0
           /\ NewRequest(r, n).consulted = 0 /\ NewRequest(r, n).decided = 0
BY DEF NewRequest, Request, Steps, Outcomes, Unset

\* What is left of a request that is over: a record like a new one.
LEMMA RecordedType ==
    ASSUME NEW req \in Request
    PROVE  \E old \in Request :
              /\ \A at, cost : Recorded(req, at, cost) =
                               [old EXCEPT !.step = "done", !.at = at, !.cost = cost]
              /\ old.outcome = "none" /\ old.kind = "generate"
              /\ old.arrived = 0 /\ old.asked = 0 /\ old.consulted = 0 /\ old.decided = 0
<1>. DEFINE old == NewRequest(req.replica, req.name)
<1>1. old \in Request /\ old.outcome = "none" /\ old.kind = "generate"
      /\ old.arrived = 0 /\ old.asked = 0 /\ old.consulted = 0 /\ old.decided = 0
  BY NewRequestType DEF Request
<1>2. ASSUME NEW at, NEW cost
      PROVE  Recorded(req, at, cost) = [old EXCEPT !.step = "done", !.at = at, !.cost = cost]
  BY DEF Recorded
<1>. HIDE DEF old
<1>3. QED
  BY <1>1, <1>2

\* A request that is over, or has not begun, is sound.
LEMMA Idle ==
    ASSUME NEW req \in Request, req.step \in {"new", "done"}, req.outcome = "none",
           req.kind = "generate", req.arrived = 0, req.asked = 0, req.consulted = 0,
           req.decided = 0, NEW t \in Nat, req.step = "done" => req.at <= t, NEW rs, NEW rls
    PROVE  Sound(req, rs, rls, t)
BY DEF Sound, Timely, SpendSound, RuleSound

LEMMA InitInv == Init => BudgetInv
<1> SUFFICES ASSUME Init PROVE BudgetInv
  OBVIOUS
<1>1. PICK rule \in Rules \cup {Unset} : rules = << [at |-> 0, rule |-> rule] >>
  BY DEF Init
<1>2. now = 0 /\ TTL \in Nat /\ MaxTime \in Nat
  BY BudgetAssumption DEF Init
<1>3. \A q \in Requests : \E r \in Replicas, n \in Names : requests[q] = NewRequest(r, n)
  BY DEF Init
<1>4. requests \in [Requests -> Request]
  <2>1. { NewRequest(r, n) : r \in Replicas, n \in Names } \subseteq Request
    BY NewRequestType
  <2>2. requests \in [Requests -> { NewRequest(r, n) : r \in Replicas, n \in Names }]
    BY DEF Init
  <2>3. QED
    BY <2>1, <2>2
<1>5. TypeOK
  <2>1. rules \in Seq([at : 0..MaxTime, rule : Rules \cup {Unset}])
    BY <1>1, <1>2
  <2>2. /\ registrations \in
             [Replicas -> [Names -> [expires : 0..(MaxTime + TTL), rule : Rules \cup {Unset}]]]
        /\ spends \in [Replicas -> [expires : 0..(MaxTime + TTL), spent : Nat]]
    BY <1>2 DEF Init
  <2>3. QED
    BY <1>2, <1>4, <2>1, <2>2 DEF TypeOK, Request
<1>6. ASSUME NEW q \in Requests PROVE Sound(requests[q], requests, rules, now)
  <2>1. PICK r \in Replicas, n \in Names : requests[q] = NewRequest(r, n)
    BY <1>3
  <2>2. QED
    BY <1>2, <2>1, NewRequestType, Idle
<1>7. /\ rules # <<>> /\ \A i \in DOMAIN rules : rules[i].at <= now
      /\ \A r \in Replicas : SpendCached(spends[r], requests, now)
      /\ \A r \in Replicas, n \in Names : RuleCached(registrations[r][n], rules, now)
  BY <1>1, <1>2 DEF Init, SpendCached, RuleCached
<1>8. QED
  BY <1>4, <1>5, <1>6, <1>7 DEF BudgetInv, TypeInv

------------------------------------------------------------------------------
(* What other steps leave as it is *)

History == Seq([at : 0..MaxTime, rule : Rules \cup {Unset}])

\* Rules are only ever added, at the time t.
Governs(rls, new, t) ==
    \/ new = rls
    \/ \E rule \in Rules : new = Append(rls, [at |-> t, rule |-> rule])

LEMMA InForceKept ==
    ASSUME NEW rls \in History, NEW new, NEW t \in Nat, Governs(rls, new, t), NEW rule, NEW from \in Int, from <= t,
           NEW to \in Int, NEW later \in Int, to <= later, InForce(rls, rule, from, to)
    PROVE  InForce(new, rule, from, later)
<1>1. PICK i \in DOMAIN rls : /\ rls[i].rule = rule /\ rls[i].at <= to
                              /\ i < Len(rls) => rls[i + 1].at >= from
  BY DEF InForce
<1>2. rls[i].at \in Int /\ rls[i].at <= later
  <2>1. rls[i] \in [at : 0..MaxTime, rule : Rules \cup {Unset}]
    <3>1. i \in 1..Len(rls) /\ rls \in Seq([at : 0..MaxTime, rule : Rules \cup {Unset}])
      BY DEF History
    <3>2. QED
      BY <3>1, ElementOfSeq
  <2>2. rls[i].at \in Int
    BY <2>1, BudgetAssumption
  <2>3. QED
    BY <1>1, <2>2
<1>3. CASE new = rls
  BY <1>1, <1>2, <1>3 DEF InForce
<1>4. ASSUME NEW r, new = Append(rls, [at |-> t, rule |-> r])
      PROVE  InForce(new, rule, from, later)
  <2>1. Len(new) = Len(rls) + 1 /\ DOMAIN new = 1..(Len(rls) + 1) /\ i \in 1..Len(rls)
    BY <1>4 DEF History
  <2>2. new[i] = rls[i]
    BY <1>4, <2>1 DEF History
  <2>3. i < Len(rls) => new[i + 1] = rls[i + 1]
    BY <1>4, <2>1 DEF History
  <2>4. i = Len(rls) => new[i + 1].at = t
    BY <1>4, <2>1 DEF History
  <2>5. new[i + 1].at >= from
    BY <1>1, <2>1, <2>3, <2>4
  <2>6. QED
    BY <1>1, <1>2, <2>1, <2>2, <2>5 DEF InForce
<1>5. QED
  BY <1>3, <1>4 DEF Governs

LEMMA SpendKept ==
    ASSUME NEW rs \in [Requests -> Request], NEW ts \in [Requests -> Request],
           NEW t \in Nat, NEW u \in Nat, t <= u, Accrues(rs, ts, t),
           NEW asked \in Int, NEW spent \in Nat, KnownSpend(asked, spent, rs, t)
    PROVE  KnownSpend(asked, spent, ts, u)
<1>. DEFINE first == asked - Window
            last == asked - 1
<1>1. Window \in Nat /\ first \in Int /\ last \in Int /\ last < t
  BY BudgetAssumption DEF KnownSpend
<1>. HIDE DEF first, last
<1>2. Ledger(ts, first, last) = Ledger(rs, first, last)
  BY <1>1, LedgerStep
<1>3. Ledger(rs, first, t) <= Ledger(ts, first, u)
  BY <1>1, LedgerStep
<1>4. Ledger(rs, first, t) \in Nat /\ Ledger(ts, first, u) \in Nat
  BY LedgerType
<1>. USE DEF first, last
<1>5. QED
  BY <1>2, <1>3, <1>4 DEF KnownSpend

LEMMA SoundKept ==
    ASSUME NEW rs \in [Requests -> Request], NEW ts \in [Requests -> Request],
           NEW t \in Nat, NEW u \in Nat, t <= u, Accrues(rs, ts, t),
           NEW rls \in History, NEW new,
           Governs(rls, new, t), NEW req \in Request, Sound(req, rs, rls, t)
    PROVE  Sound(req, ts, new, u)
<1>1. /\ TTL \in Nat \ {0} /\ Window \in Nat
      /\ req.asked \in Nat /\ req.spent \in Nat /\ req.consulted \in Nat
      /\ req.decided \in Nat /\ req.arrived \in Nat /\ req.at \in Nat
  BY BudgetAssumption DEF Request
<1>2. Timely(req, t) /\ SpendSound(req, rs, t) /\ RuleSound(req, rls, t)
  BY DEF Sound
<1>3. Timely(req, u)
  BY <1>1, <1>2 DEF Timely
<1>4. SpendSound(req, ts, u)
  <2>1. req.step = "summed" => KnownSpend(req.asked, req.spent, ts, u)
    BY <1>1, <1>2, SpendKept DEF SpendSound
  <2>2. ASSUME req.outcome = "within"
        PROVE  Ledger(ts, req.decided - Window, req.consulted - TTL) < req.rule.budget
    <3>. DEFINE first == req.decided - Window
                last == req.consulted - TTL
    <3>1. first \in Int /\ last \in Int /\ last < t
      BY <1>1, <1>2 DEF Timely
    <3>2. Ledger(rs, first, last) < req.rule.budget
      BY <1>2, <2>2 DEF SpendSound
    <3>. HIDE DEF first, last
    <3>3. Ledger(ts, first, last) = Ledger(rs, first, last)
      BY <3>1, LedgerStep
    <3>. USE DEF first, last
    <3>4. QED
      BY <3>2, <3>3
  <2>3. ASSUME req.outcome \in {"refused", "downgraded"}
        PROVE  Ledger(ts, req.consulted - TTL + 1 - Window, req.decided) >= req.rule.budget
    <3>. DEFINE first == req.consulted - TTL + 1 - Window
    <3>1. first \in Int /\ req.rule.budget \in Nat
      <4>1. Enforced(req.rule) /\ req.rule \in Rules \cup {Unset}
        BY <1>2, <2>3 DEF Timely, Request
      <4>2. QED
        BY <1>1, <4>1, BudgetAssumption DEF Enforced, Unset
    <3>2. Ledger(rs, first, req.decided) >= req.rule.budget
      BY <1>2, <2>3 DEF SpendSound
    <3>. HIDE DEF first
    <3>3. Ledger(rs, first, req.decided) <= Ledger(ts, first, req.decided)
      BY <1>1, <3>1, LedgerStep
    <3>4. Ledger(rs, first, req.decided) \in Nat /\ Ledger(ts, first, req.decided) \in Nat
      BY LedgerType
    <3>5. Ledger(ts, first, req.decided) >= req.rule.budget
      BY <3>1, <3>2, <3>3, <3>4
    <3>. USE DEF first
    <3>6. QED
      BY <3>5
  <2>4. QED
    BY <2>1, <2>2, <2>3 DEF SpendSound
<1>5. RuleSound(req, new, u)
  <2>1. ASSUME req.step = "found" PROVE InForce(new, req.rule, req.asked, u)
    <3>1. InForce(rls, req.rule, req.asked, t) /\ req.asked <= t
      BY <1>2, <2>1 DEF RuleSound, Timely
    <3>2. req.asked \in Int /\ t \in Int /\ u \in Int
      BY <1>1
    <3>3. QED
      BY <3>1, <3>2, InForceKept
  <2>2. req.arrived - TTL + 1 \in Int /\ req.arrived - TTL + 1 <= t
    BY <1>1, <1>2 DEF Timely
  <2>3. ASSUME req.kind = "generate", req.step \in {"sum", "summed"} \/ req.outcome # "none"
        PROVE  InForce(new, req.rule, req.arrived - TTL + 1, req.consulted)
    <3>. DEFINE from == req.arrived - TTL + 1
    <3>1. InForce(rls, req.rule, from, req.consulted)
      BY <1>2, <2>3 DEF RuleSound
    <3>2. from \in Int /\ from <= t /\ req.consulted \in Int /\ req.consulted <= req.consulted
      BY <1>1, <2>2
    <3>. HIDE DEF from
    <3>3. InForce(new, req.rule, from, req.consulted)
      BY <3>1, <3>2, InForceKept
    <3>. USE DEF from
    <3>4. QED
      BY <3>3
  <2>4. QED
    BY <2>1, <2>3 DEF RuleSound
<1>6. QED
  BY <1>3, <1>4, <1>5 DEF Sound

LEMMA CachedKept ==
    ASSUME NEW rs \in [Requests -> Request], NEW ts \in [Requests -> Request],
           NEW t \in Nat, NEW u \in Nat, t <= u, Accrues(rs, ts, t),
           NEW rls \in History, NEW new,
           Governs(rls, new, t)
    PROVE  /\ \A entry \in [expires : 0..(MaxTime + TTL), spent : Nat] :
                SpendCached(entry, rs, t) => SpendCached(entry, ts, u)
           /\ \A entry \in [expires : 0..(MaxTime + TTL), rule : Rules \cup {Unset}] :
                RuleCached(entry, rls, t) => RuleCached(entry, new, u)
<1>1. TTL \in Nat /\ MaxTime \in Nat
  BY BudgetAssumption
<1>2. ASSUME NEW entry \in [expires : 0..(MaxTime + TTL), spent : Nat],
             SpendCached(entry, rs, t), entry.expires # 0
      PROVE  KnownSpend(entry.expires - TTL, entry.spent, ts, u)
  <2>1. entry.expires - TTL \in Int /\ entry.spent \in Nat
    BY <1>1, <1>2
  <2>2. KnownSpend(entry.expires - TTL, entry.spent, rs, t)
    BY <1>2 DEF SpendCached
  <2>3. QED
    BY <2>1, <2>2, SpendKept
<1>3. ASSUME NEW entry \in [expires : 0..(MaxTime + TTL), rule : Rules \cup {Unset}],
             RuleCached(entry, rls, t), entry.expires # 0
      PROVE  /\ entry.expires - TTL <= u
             /\ InForce(new, entry.rule, entry.expires - TTL, u)
  <2>1. entry.expires - TTL \in Int
    BY <1>1, <1>3
  <2>2. entry.expires - TTL <= t /\ InForce(rls, entry.rule, entry.expires - TTL, t)
    BY <1>3 DEF RuleCached
  <2>3. InForce(new, entry.rule, entry.expires - TTL, u)
    <3>. DEFINE from == entry.expires - TTL
    <3>1. from \in Int /\ from <= t /\ InForce(rls, entry.rule, from, t) /\ t \in Int /\ u \in Int
      BY <2>1, <2>2
    <3>. HIDE DEF from
    <3>2. InForce(new, entry.rule, from, u)
      BY <3>1, InForceKept
    <3>. USE DEF from
    <3>3. QED
      BY <3>2
  <2>4. QED
    BY <2>1, <2>2, <2>3
<1>4. QED
  BY <1>2, <1>3 DEF SpendCached, RuleCached

------------------------------------------------------------------------------
(* The decisions *)

\* What a known spend says of the budget is true of the spend at the time it was
\* consulted, give or take a time to live.
LEMMA Judgement ==
    ASSUME NEW rs \in [Requests -> Request], NEW t \in Nat, NEW asked \in Int,
           NEW spent \in Nat, KnownSpend(asked, spent, rs, t),
           NEW consulted \in Nat, consulted - TTL < asked, NEW budget \in Nat
    PROVE  /\ spent < budget => Ledger(rs, t - Window, consulted - TTL) < budget
           /\ spent >= budget => Ledger(rs, consulted - TTL + 1 - Window, t) >= budget
<1>. DEFINE a == t - Window
            b == consulted - TTL
            c == asked - Window
            d == asked - 1
            e == consulted - TTL + 1 - Window
<1>1. TTL \in Nat /\ Window \in Nat /\ asked <= t
  BY BudgetAssumption DEF KnownSpend
<1>2. /\ a \in Int /\ b \in Int /\ c \in Int /\ d \in Int /\ e \in Int /\ t \in Int
      /\ c <= a /\ b <= d /\ e <= c
  BY <1>1
<1>3. Ledger(rs, c, d) <= spent /\ spent <= Ledger(rs, c, t)
  BY DEF KnownSpend
<1>. HIDE DEF a, b, c, d, e
<1>4. Ledger(rs, a, b) <= Ledger(rs, c, d) /\ Ledger(rs, c, t) <= Ledger(rs, e, t)
  BY <1>2, LongerSpan
<1>5. /\ Ledger(rs, a, b) \in Nat /\ Ledger(rs, c, d) \in Nat
      /\ Ledger(rs, c, t) \in Nat /\ Ledger(rs, e, t) \in Nat
  BY LedgerType
<1>6. /\ spent < budget => Ledger(rs, a, b) < budget
      /\ spent >= budget => Ledger(rs, e, t) >= budget
  BY <1>3, <1>4, <1>5
<1>. USE DEF a, b, e
<1>7. QED
  BY <1>6

\* With a rule that governs a request it is decided, or asks for the spend.
LEMMA RegisteredSound ==
    ASSUME BudgetInv, NEW req \in Request, req.kind = "generate", Timely(req, now),
           req.outcome = "none", NEW rule \in Rules \cup {Unset},
           InForce(rules, rule, req.arrived - TTL + 1, now),
           NEW new, new = Registered(req, rule)
    PROVE  /\ new \in Request /\ new.step # "done"
           /\ Sound(new, requests, rules, now)
<1>. DEFINE known == [req EXCEPT !.rule = rule, !.consulted = now]
            spend == spends[req.replica]
<1>1. /\ now \in Nat /\ TTL \in Nat \ {0} /\ Window \in Nat
      /\ requests \in [Requests -> Request]
  <2>1. now \in 0..MaxTime /\ requests \in [Requests -> Request]
    BY DEF BudgetInv, TypeInv, TypeOK
  <2>2. QED
    BY <2>1, BudgetAssumption
<1>2. /\ known \in Request /\ known.rule = rule /\ known.consulted = now
      /\ known.kind = "generate" /\ known.arrived = req.arrived
      /\ known.replica = req.replica /\ known.arrived \in Nat /\ req.replica \in Replicas
      /\ known.outcome = "none" /\ known.decided = req.decided /\ req.decided <= now
      /\ req.arrived <= now /\ known.decided \in Nat
  <2>1. req.arrived <= now /\ req.decided <= now
    BY DEF Timely
  <2>2. QED
    BY <1>1, <2>1 DEF Request
<1>0. spend.expires \in Nat /\ spend.spent \in Nat
  <2>1. spends \in [Replicas -> [expires : 0..(MaxTime + TTL), spent : Nat]]
    BY DEF BudgetInv, TypeInv, TypeOK
  <2>2. MaxTime + TTL \in Nat
    BY BudgetAssumption
  <2>3. QED
    BY <1>2, <2>1, <2>2
<1>. HIDE DEF known
<1>3. ASSUME NEW outcome \in Outcomes \ {"none"}, new = Decided(known, outcome)
      PROVE  /\ new \in Request /\ new.step \in {"refused", "admitted"}
             /\ new.outcome = outcome /\ new.kind = "generate" /\ new.decided = now
             /\ new.rule = rule /\ new.consulted = now /\ new.asked = 0
             /\ new.arrived = req.arrived
  <2>1. PICK step \in {"refused", "admitted"} :
          new = [known EXCEPT !.step = step, !.outcome = outcome, !.decided = now,
                              !.asked = 0, !.spent = 0]
    BY <1>3 DEF Decided
  <2>2. /\ new.step = step /\ new.outcome = outcome /\ new.kind = known.kind
        /\ new.decided = now /\ new.rule = known.rule /\ new.consulted = known.consulted
        /\ new.asked = 0 /\ new.arrived = known.arrived
    BY <1>2, <2>1 DEF Request
  <2>3. new \in Request
    <3>1. step \in Steps /\ outcome \in Outcomes /\ now \in Nat /\ 0 \in Nat
      BY <1>1 DEF Steps
    <3>2. QED
      BY <1>2, <2>1, <3>1 DEF Request
  <2>4. QED
    BY <1>2, <2>2, <2>3
<1>4. CASE ~Enforced(rule)
  <2>1. new = Decided(known, "free")
    BY <1>4 DEF Registered, known
  <2>2. /\ new \in Request /\ new.step \in {"refused", "admitted"}
        /\ new.outcome = "free" /\ new.kind = "generate" /\ new.decided = now
        /\ new.rule = rule /\ new.consulted = now /\ new.asked = 0
        /\ new.arrived = req.arrived
    BY <1>3, <2>1 DEF Outcomes
  <2>3. Timely(new, now)
    BY <1>1, <1>2, <2>2 DEF Timely
  <2>4. SpendSound(new, requests, now)
    BY <2>2 DEF SpendSound
  <2>5. RuleSound(new, rules, now)
    BY <2>2 DEF RuleSound
  <2>6. QED
    BY <2>2, <2>3, <2>4, <2>5 DEF Sound
<1>5. CASE Enforced(rule) /\ Fresh(spend)
  <2>. DEFINE outcome == Decision(rule, spend.spent)
  <2>1. new = Decided(known, outcome)
    BY <1>5 DEF Registered, known
  <2>2. outcome \in {"within", "refused", "downgraded"} /\ rule.budget \in Nat
        /\ (outcome = "within" => spend.spent < rule.budget)
        /\ (outcome # "within" => spend.spent >= rule.budget)
    BY <1>0, <1>5, BudgetAssumption DEF Decision, Enforced, Unset
  <2>. HIDE DEF outcome
  <2>3. /\ new \in Request /\ new.step \in {"refused", "admitted"}
        /\ new.outcome = outcome /\ new.kind = "generate" /\ new.decided = now
        /\ new.rule = rule /\ new.consulted = now /\ new.asked = 0
        /\ new.arrived = req.arrived
    BY <1>3, <2>1, <2>2 DEF Outcomes
  <2>4. Timely(new, now)
    BY <1>1, <1>2, <1>5, <2>2, <2>3 DEF Timely
  <2>. DEFINE asked == spend.expires - TTL
  <2>5. asked \in Int /\ asked <= now /\ now - TTL < asked
        /\ KnownSpend(asked, spend.spent, requests, now)
    <3>1. spend.expires > now
      BY <1>5 DEF Fresh
    <3>2. spend.expires # 0 /\ SpendCached(spend, requests, now)
      BY <1>0, <1>1, <1>2, <3>1 DEF BudgetInv
    <3>3. QED
      BY <1>0, <1>1, <3>1, <3>2 DEF SpendCached, KnownSpend
  <2>. HIDE DEF asked
  <2>6. /\ outcome = "within" => Ledger(requests, now - Window, now - TTL) < rule.budget
        /\ outcome # "within" => Ledger(requests, now - TTL + 1 - Window, now) >= rule.budget
    BY <1>0, <1>1, <2>2, <2>5, Judgement
  <2>7. SpendSound(new, requests, now)
    BY <2>2, <2>3, <2>6 DEF SpendSound
  <2>8. RuleSound(new, rules, now)
    BY <2>3 DEF RuleSound
  <2>9. QED
    BY <2>3, <2>4, <2>7, <2>8 DEF Sound
<1>6. CASE Enforced(rule) /\ ~Fresh(spend)
  <2>1. new = [known EXCEPT !.step = "sum", !.asked = now]
    BY <1>6 DEF Registered, known
  <2>2. /\ new \in Request /\ new.step = "sum" /\ new.asked = now /\ new.rule = rule
        /\ new.consulted = now /\ new.kind = "generate" /\ new.arrived = req.arrived
        /\ new.outcome = known.outcome /\ new.decided = known.decided
    BY <1>1, <1>2, <2>1 DEF Request, Steps
  <2>3. Timely(new, now)
    BY <1>1, <1>2, <1>6, <2>2 DEF Timely
  <2>4. SpendSound(new, requests, now)
    BY <1>2, <2>2 DEF SpendSound
  <2>5. RuleSound(new, rules, now)
    BY <1>2, <2>2 DEF RuleSound
  <2>6. QED
    BY <2>2, <2>3, <2>4, <2>5 DEF Sound
<1>7. QED
  BY <1>4, <1>5, <1>6

------------------------------------------------------------------------------
(* The steps *)

\* A step of one request keeps the invariant if what it leaves is sound.
LEMMA RequestStep ==
    ASSUME BudgetInv, UNCHANGED << now, rules >>,
           NEW q \in Requests, requests[q].step # "done",
           NEW new \in Request, requests' = [requests EXCEPT ![q] = new],
           new.step = "done" => new.cost = 0 \/ new.at = now,
           Sound(new, requests, rules, now),
           registrations' \in
             [Replicas -> [Names -> [expires : 0..(MaxTime + TTL), rule : Rules \cup {Unset}]]],
           spends' \in [Replicas -> [expires : 0..(MaxTime + TTL), spent : Nat]],
           \A r \in Replicas : SpendCached(spends'[r], requests, now),
           \A r \in Replicas, n \in Names : RuleCached(registrations'[r][n], rules, now)
    PROVE  BudgetInv'
<1>1. /\ requests \in [Requests -> Request] /\ rules \in History /\ now \in 0..MaxTime
      /\ now \in Nat /\ now <= now
  BY BudgetAssumption DEF BudgetInv, TypeInv, TypeOK, History
<1>2. requests' \in [Requests -> Request] /\ requests'[q] = new
      /\ \A p \in Requests : p # q => requests'[p] = requests[p]
  BY <1>1
<1>3. Accrues(requests, requests', now) /\ Governs(rules, rules, now)
  BY <1>2 DEF Accrues, Governs
<1>4. TypeInv'
  <2>1. \A p \in Requests : /\ requests'[p].step \in Steps /\ requests'[p].outcome \in Outcomes
                            /\ requests'[p].rule \in Rules \cup {Unset}
    BY <1>2 DEF Request
  <2>2. QED
    BY <1>1, <1>2, <2>1 DEF TypeInv, TypeOK, History
<1>5. \A p \in Requests : Sound(requests'[p], requests, rules, now)
  BY <1>2 DEF BudgetInv
<1>6. \A p \in Requests : Sound(requests'[p], requests', rules, now)
  <2> SUFFICES ASSUME NEW p \in Requests PROVE Sound(requests'[p], requests', rules, now)
    OBVIOUS
  <2>1. requests'[p] \in Request /\ Sound(requests'[p], requests, rules, now)
    BY <1>2, <1>5
  <2>2. QED
    BY <1>1, <1>2, <1>3, <2>1, SoundKept
<1>7. \A r \in Replicas : SpendCached(spends'[r], requests', now)
  BY <1>1, <1>2, <1>3, CachedKept
<1>8. (rules # <<>> /\ \A i \in DOMAIN rules : rules[i].at <= now)'
  BY DEF BudgetInv
<1>9. QED
  BY <1>4, <1>6, <1>7, <1>8 DEF BudgetInv

\* So does a change of the rule, or of the time.
LEMMA OtherStep ==
    ASSUME BudgetInv, UNCHANGED << registrations, spends, requests >>,
           now' \in 0..MaxTime, now <= now', rules' \in History, Governs(rules, rules', now)
    PROVE  BudgetInv'
<1>1. /\ requests \in [Requests -> Request] /\ rules \in History /\ now \in Nat
      /\ now' \in Nat
  BY BudgetAssumption DEF BudgetInv, TypeInv, TypeOK, History
<1>2. Accrues(requests, requests, now)
  BY DEF Accrues
<1>3. TypeInv'
  BY DEF BudgetInv, TypeInv, TypeOK, History
<1>4. \A q \in Requests : Sound(requests[q], requests, rules', now')
  <2> SUFFICES ASSUME NEW q \in Requests PROVE Sound(requests[q], requests, rules', now')
    OBVIOUS
  <2>1. requests[q] \in Request /\ Sound(requests[q], requests, rules, now)
    BY <1>1 DEF BudgetInv
  <2>2. QED
    BY <1>1, <1>2, <2>1, SoundKept
<1>5. /\ \A r \in Replicas : SpendCached(spends[r], requests, now')
      /\ \A r \in Replicas, n \in Names : RuleCached(registrations[r][n], rules', now')
  <2>1. /\ spends \in [Replicas -> [expires : 0..(MaxTime + TTL), spent : Nat]]
        /\ registrations \in
             [Replicas -> [Names -> [expires : 0..(MaxTime + TTL), rule : Rules \cup {Unset}]]]
    BY DEF BudgetInv, TypeInv, TypeOK
  <2>2. /\ \A r \in Replicas : SpendCached(spends[r], requests, now)
        /\ \A r \in Replicas, n \in Names : RuleCached(registrations[r][n], rules, now)
    BY DEF BudgetInv
  <2>3. /\ \A entry \in [expires : 0..(MaxTime + TTL), spent : Nat] :
             SpendCached(entry, requests, now) => SpendCached(entry, requests, now')
        /\ \A entry \in [expires : 0..(MaxTime + TTL), rule : Rules \cup {Unset}] :
             RuleCached(entry, rules, now) => RuleCached(entry, rules', now')
    BY <1>1, <1>2, CachedKept
  <2>4. \A r \in Replicas : spends[r] \in [expires : 0..(MaxTime + TTL), spent : Nat]
    BY <2>1
  <2>5. \A r \in Replicas, n \in Names :
          registrations[r][n] \in [expires : 0..(MaxTime + TTL), rule : Rules \cup {Unset}]
    BY <2>1
  <2>6. QED
    BY <2>2, <2>3, <2>4, <2>5
<1>6. rules' # <<>> /\ \A i \in DOMAIN rules' : rules'[i].at <= now'
  <2>1. \A i \in DOMAIN rules : rules[i].at \in Int /\ rules[i].at <= now
    <3> SUFFICES ASSUME NEW i \in 1..Len(rules) PROVE rules[i].at \in Int /\ rules[i].at <= now
      BY <1>1 DEF History
    <3>1. rules[i] \in [at : 0..MaxTime, rule : Rules \cup {Unset}]
      BY <1>1, ElementOfSeq DEF History
    <3>2. QED
      BY <1>1, <3>1, BudgetAssumption DEF BudgetInv, History
  <2>2. CASE rules' = rules
    BY <1>1, <2>1, <2>2 DEF BudgetInv
  <2>3. ASSUME NEW rule, rules' = Append(rules, [at |-> now, rule |-> rule])
        PROVE  rules' # <<>> /\ \A i \in DOMAIN rules' : rules'[i].at <= now'
    <3>1. Len(rules') = Len(rules) + 1 /\ DOMAIN rules' = 1..(Len(rules) + 1)
          /\ Len(rules) \in Nat
      BY <1>1, <2>3 DEF History
    <3>2. rules'[Len(rules) + 1].at = now
      BY <1>1, <2>3 DEF History
    <3>3. \A i \in 1..Len(rules) : rules'[i] = rules[i]
      BY <1>1, <2>3 DEF History
    <3>4. DOMAIN rules = 1..Len(rules)
      BY <1>1 DEF History
    <3>5. QED
      BY <1>1, <2>1, <3>1, <3>2, <3>3, <3>4
  <2>4. QED
    BY <2>2, <2>3 DEF Governs
<1>7. QED
  BY <1>3, <1>4, <1>5, <1>6 DEF BudgetInv

\* What the invariant says of one request, and of the caches.
LEMMA InvFacts ==
    ASSUME BudgetInv, NEW q \in Requests
    PROVE  /\ requests[q] \in Request /\ requests[q].replica \in Replicas
           /\ requests[q].name \in Names /\ requests[q].rule \in Rules \cup {Unset}
           /\ requests[q].asked \in Nat /\ requests[q].arrived \in Nat
           /\ requests[q].consulted \in Nat /\ requests[q].spent \in Nat
           /\ Timely(requests[q], now)
           /\ SpendSound(requests[q], requests, now)
           /\ RuleSound(requests[q], rules, now)
           /\ now \in Nat /\ TTL \in Nat \ {0} /\ Window \in Nat /\ MaxTime \in Nat
           /\ now \in 0..MaxTime /\ rules \in History /\ requests \in [Requests -> Request]
           /\ registrations \in
                [Replicas -> [Names -> [expires : 0..(MaxTime + TTL), rule : Rules \cup {Unset}]]]
           /\ spends \in [Replicas -> [expires : 0..(MaxTime + TTL), spent : Nat]]
           /\ \A r \in Replicas : SpendCached(spends[r], requests, now)
           /\ \A r \in Replicas, n \in Names : RuleCached(registrations[r][n], rules, now)
<1>1. /\ requests \in [Requests -> Request] /\ now \in 0..MaxTime /\ rules \in History
      /\ registrations \in
           [Replicas -> [Names -> [expires : 0..(MaxTime + TTL), rule : Rules \cup {Unset}]]]
      /\ spends \in [Replicas -> [expires : 0..(MaxTime + TTL), spent : Nat]]
  BY DEF BudgetInv, TypeInv, TypeOK, History
<1>2. requests[q] \in Request
  BY <1>1
<1>3. Sound(requests[q], requests, rules, now)
  BY DEF BudgetInv
<1>4. now \in Nat /\ TTL \in Nat \ {0} /\ Window \in Nat /\ MaxTime \in Nat
  BY <1>1, BudgetAssumption
<1>5. /\ \A r \in Replicas : SpendCached(spends[r], requests, now)
      /\ \A r \in Replicas, n \in Names : RuleCached(registrations[r][n], rules, now)
  BY DEF BudgetInv
<1>6. /\ requests[q].replica \in Replicas
      /\ requests[q].name \in Names /\ requests[q].rule \in Rules \cup {Unset}
      /\ requests[q].asked \in Nat /\ requests[q].arrived \in Nat
      /\ requests[q].consulted \in Nat /\ requests[q].spent \in Nat
  BY <1>2 DEF Request
<1>7. QED
  BY <1>1, <1>2, <1>3, <1>4, <1>5, <1>6 DEF Sound

\* A rule in force since some time is in force since any earlier time.
LEMMA InForceEarlier ==
    ASSUME NEW rule, NEW from \in Int, NEW earlier \in Int, earlier <= from, NEW to,
           rules \in History, InForce(rules, rule, from, to)
    PROVE  InForce(rules, rule, earlier, to)
<1>1. PICK i \in DOMAIN rules : /\ rules[i].rule = rule /\ rules[i].at <= to
                                /\ i < Len(rules) => rules[i + 1].at >= from
  BY DEF InForce
<1>2. i < Len(rules) => rules[i + 1].at \in Int
  <2> SUFFICES ASSUME i < Len(rules) PROVE rules[i + 1].at \in Int
    OBVIOUS
  <2>1. i + 1 \in 1..Len(rules)
    BY DEF History
  <2>2. rules[i + 1] \in [at : 0..MaxTime, rule : Rules \cup {Unset}]
    BY <2>1, ElementOfSeq DEF History
  <2>3. QED
    BY <2>2, BudgetAssumption
<1>3. QED
  BY <1>1, <1>2 DEF InForce

LEMMA ArriveStep ==
    ASSUME BudgetInv, NEW q \in Requests, Arrive(q)
    PROVE  BudgetInv'
<1>. DEFINE req == [requests[q] EXCEPT !.arrived = now]
            entry == registrations[req.replica][req.name]
            new == IF Fresh(entry) THEN Registered(req, entry.rule)
                   ELSE [req EXCEPT !.step = "lookup", !.asked = now]
<1>1. /\ requests[q].step = "new" /\ requests' = [requests EXCEPT ![q] = new]
      /\ UNCHANGED << now, rules, registrations, spends >>
  BY DEF Arrive
<1>2. /\ now \in Nat /\ TTL \in Nat \ {0} /\ requests[q].outcome = "none"
      /\ requests[q].kind = "generate"
  BY <1>1, InvFacts DEF Timely
<1>3. /\ req \in Request /\ req.arrived = now /\ req.kind = "generate"
      /\ req.outcome = "none" /\ req.step = "new" /\ Timely(req, now)
      /\ req.replica \in Replicas /\ req.name \in Names
  <2>1. req \in Request
    BY <1>2, InvFacts DEF Request
  <2>2. /\ req.arrived = now /\ req.kind = "generate" /\ req.outcome = "none"
        /\ req.step = "new" /\ req.asked = requests[q].asked
        /\ req.consulted = requests[q].consulted /\ req.decided = requests[q].decided
    BY <1>1, <1>2, InvFacts DEF Request
  <2>. HIDE DEF req
  <2>3. Timely(req, now)
    BY <1>2, <2>2, InvFacts DEF Timely
  <2>4. QED
    BY <2>1, <2>2, <2>3 DEF Request
<1>. HIDE DEF req
<1>4. new \in Request /\ new.step # "done" /\ Sound(new, requests, rules, now)
  <2>1. CASE Fresh(entry)
    <3>1. entry \in [expires : 0..(MaxTime + TTL), rule : Rules \cup {Unset}]
          /\ RuleCached(entry, rules, now)
      BY <1>3, InvFacts
    <3>2. entry.expires \in Nat /\ entry.rule \in Rules \cup {Unset} /\ entry.expires > now
      BY <2>1, <3>1, BudgetAssumption DEF Fresh
    <3>. HIDE DEF entry
    <3>3. InForce(rules, entry.rule, entry.expires - TTL, now)
      BY <1>2, <3>1, <3>2 DEF RuleCached
    <3>. DEFINE from == entry.expires - TTL
                earlier == req.arrived - TTL + 1
    <3>4. from \in Int /\ earlier \in Int /\ earlier <= from
      BY <1>2, <1>3, <3>2
    <3>5. InForce(rules, entry.rule, from, now) /\ rules \in History
      BY <3>3, InvFacts
    <3>. HIDE DEF from, earlier
    <3>6. InForce(rules, entry.rule, earlier, now)
      BY <3>4, <3>5, InForceEarlier
    <3>. USE DEF earlier
    <3>7. new = Registered(req, entry.rule)
      BY <2>1
    <3>. HIDE DEF new
    <3>8. QED
      BY <1>3, <3>2, <3>6, <3>7, RegisteredSound
  <2>2. CASE ~Fresh(entry)
    <3>1. new = [req EXCEPT !.step = "lookup", !.asked = now]
      BY <2>2
    <3>. HIDE DEF new
    <3>2. /\ new.step = "lookup" /\ new.asked = now /\ new.outcome = "none"
          /\ new.kind = "generate" /\ new.arrived = now
          /\ new.consulted = req.consulted /\ new.decided = req.decided
      BY <1>3, <3>1 DEF Request
    <3>3. new \in Request
      BY <1>2, <1>3, <3>1 DEF Request, Steps
    <3>4. Timely(new, now) /\ SpendSound(new, requests, now) /\ RuleSound(new, rules, now)
      BY <1>2, <1>3, <3>2 DEF Timely, SpendSound, RuleSound
    <3>5. QED
      BY <3>2, <3>3, <3>4 DEF Sound
  <2>3. QED
    BY <2>1, <2>2
<1>. HIDE DEF new
<1>5. QED
  BY <1>1, <1>4, InvFacts, RequestStep

LEMMA QueryRuleStep ==
    ASSUME BudgetInv, NEW q \in Requests, QueryRule(q)
    PROVE  BudgetInv'
<1>. DEFINE req == requests[q]
            new == [req EXCEPT !.step = "found", !.rule = Rule]
<1>1. /\ req.step = "lookup" /\ requests' = [requests EXCEPT ![q] = new]
      /\ UNCHANGED << now, rules, registrations, spends >>
  BY DEF QueryRule
<1>2. /\ req \in Request /\ now \in Nat /\ rules \in History /\ Timely(req, now)
      /\ req.outcome = "none"
  BY <1>1, InvFacts DEF Timely
<1>3. Rule \in Rules \cup {Unset} /\ InForce(rules, Rule, req.asked, now)
  <2>1. Len(rules) \in DOMAIN rules /\ Len(rules) \in 1..Len(rules)
    BY <1>2, EmptySeq DEF BudgetInv, History
  <2>2. rules[Len(rules)] \in [at : 0..MaxTime, rule : Rules \cup {Unset}]
    BY <1>2, <2>1, ElementOfSeq DEF History
  <2>3. rules[Len(rules)].at <= now
    BY <2>1 DEF BudgetInv
  <2>4. ~(Len(rules) < Len(rules))
    BY <2>1
  <2>5. QED
    BY <2>1, <2>2, <2>3, <2>4 DEF Rule, InForce
<1>. HIDE DEF req
<1>4. /\ new \in Request /\ new.step = "found" /\ new.rule = Rule
      /\ new.outcome = "none" /\ new.asked = req.asked /\ new.arrived = req.arrived
      /\ new.consulted = req.consulted /\ new.decided = req.decided /\ new.kind = req.kind
  BY <1>2, <1>3 DEF Request, Steps
<1>. HIDE DEF new
<1>5. Timely(new, now) /\ SpendSound(new, requests, now) /\ RuleSound(new, rules, now)
  BY <1>1, <1>2, <1>3, <1>4 DEF Timely, SpendSound, RuleSound
<1>6. requests[q].step # "done"
  BY <1>1 DEF req
<1>7. Sound(new, requests, rules, now)
  BY <1>5 DEF Sound
<1>8. QED
  BY <1>1, <1>4, <1>6, <1>7, InvFacts, RequestStep

LEMMA KeepRuleStep ==
    ASSUME BudgetInv, NEW q \in Requests, KeepRule(q)
    PROVE  BudgetInv'
<1>. DEFINE req == requests[q]
            new == Registered(req, req.rule)
            entry == [expires |-> Expiry(req.asked), rule |-> req.rule]
<1>1. /\ req.step = "found" /\ requests' = [requests EXCEPT ![q] = new]
      /\ registrations' = [registrations EXCEPT ![req.replica][req.name] = entry]
      /\ UNCHANGED << now, rules, spends >>
  BY DEF KeepRule
<1>2. /\ req \in Request /\ now \in Nat /\ rules \in History /\ Timely(req, now)
      /\ req.outcome = "none" /\ req.kind = "generate" /\ req.arrived <= req.asked
      /\ req.asked <= now /\ req.asked \in Nat /\ req.arrived \in Nat
      /\ req.rule \in Rules \cup {Unset} /\ TTL \in Nat \ {0}
      /\ InForce(rules, req.rule, req.asked, now)
      /\ req.replica \in Replicas /\ req.name \in Names
  BY <1>1, InvFacts DEF Timely, RuleSound
<1>. HIDE DEF req
<1>3. InForce(rules, req.rule, req.arrived - TTL + 1, now)
  <2>. DEFINE earlier == req.arrived - TTL + 1
  <2>1. earlier \in Int /\ earlier <= req.asked /\ req.asked \in Int
    BY <1>2
  <2>. HIDE DEF earlier
  <2>2. InForce(rules, req.rule, earlier, now)
    BY <1>2, <2>1, InForceEarlier
  <2>. USE DEF earlier
  <2>3. QED
    BY <2>2
<1>4. /\ new \in Request /\ new.step # "done" /\ Sound(new, requests, rules, now)
  <2>. HIDE DEF new
  <2>1. new = Registered(req, req.rule)
    BY DEF new
  <2>2. QED
    BY <1>2, <1>3, <2>1, RegisteredSound
<1>5. /\ entry \in [expires : 0..(MaxTime + TTL), rule : Rules \cup {Unset}]
      /\ RuleCached(entry, rules, now)
  <2>1. req.asked + TTL \in 0..(MaxTime + TTL) /\ (req.asked + TTL) - TTL = req.asked
    BY <1>2, InvFacts
  <2>2. QED
    BY <1>2, <2>1 DEF RuleCached, Expiry
<1>. HIDE DEF entry, new
<1>6. /\ registrations' \in
           [Replicas -> [Names -> [expires : 0..(MaxTime + TTL), rule : Rules \cup {Unset}]]]
      /\ \A r \in Replicas, n \in Names : RuleCached(registrations'[r][n], rules, now)
  <2>1. /\ registrations \in
             [Replicas -> [Names -> [expires : 0..(MaxTime + TTL), rule : Rules \cup {Unset}]]]
        /\ \A r \in Replicas, n \in Names : RuleCached(registrations[r][n], rules, now)
    BY InvFacts
  <2>2. \A r \in Replicas, n \in Names :
          registrations'[r][n] = IF r = req.replica /\ n = req.name THEN entry
                                 ELSE registrations[r][n]
    BY <1>1, <1>2, <2>1
  <2>3. registrations' \in
          [Replicas -> [Names -> [expires : 0..(MaxTime + TTL), rule : Rules \cup {Unset}]]]
    BY <1>1, <1>2, <1>5, <2>1
  <2>4. QED
    BY <1>5, <2>1, <2>2, <2>3
<1>7. requests[q].step # "done"
  BY <1>1 DEF req
<1>8. QED
  BY <1>1, <1>4, <1>6, <1>7, InvFacts, RequestStep

\* A query answers what was spent by the time it was asked, and no more than
\* was spent by the time it is executed.
LEMMA QueryAnswers ==
    ASSUME BudgetInv, NEW asked \in Nat, asked <= now
    PROVE  Spent(asked) \in Nat /\ KnownSpend(asked, Spent(asked), requests, now)
<1>. DEFINE S == { q \in Requests : Counted(q, asked) }
            f == CostOf(requests)
<1>1. /\ requests \in [Requests -> Request] /\ Window \in Nat /\ now \in Nat
      /\ \A q \in Requests : requests[q].at \in Nat
  BY BudgetAssumption DEF BudgetInv, TypeInv, TypeOK, Request
<1>2. Spent(asked) = Sum(f, S)
  BY SpentIsSum
<1>3. IsFiniteSet(S) /\ (\A q \in Requests : f[q] \in Nat)
  BY <1>1, FS_Subset, BudgetAssumption DEF CostOf, Request
<1>4. Sum(f, S) \in Nat
  <2>. HIDE DEF f
  <2>1. QED
    BY <1>3, SumType
<1>5. ASSUME NEW last \in Int
      PROVE  IsFiniteSet(Traces(requests, asked - Window, last))
  BY FS_Subset, BudgetAssumption DEF Traces
<1>6. Ledger(requests, asked - Window, asked - 1) <= Sum(f, S)
  <2>. DEFINE T == Traces(requests, asked - Window, asked - 1)
  <2>1. T \subseteq S
    BY <1>1 DEF Traces, Counted
  <2>2. IsFiniteSet(T)
    BY <1>5
  <2>. HIDE DEF f, T
  <2>3. \A q \in T : f[q] = 0 \/ (q \in S /\ f[q] <= f[q])
    BY <1>3, <2>1
  <2>4. (\A q \in S : f[q] \in Nat) /\ (\A q \in T : f[q] \in Nat)
    BY <1>3, <2>1
  <2>. HIDE DEF S
  <2>5. Sum(f, T) <= Sum(f, S)
    BY <1>3, <2>2, <2>3, <2>4, SumGrows
  <2>. USE DEF f, T
  <2>6. QED
    BY <2>5 DEF Ledger
<1>7. Sum(f, S) <= Ledger(requests, asked - Window, now)
  <2>. DEFINE T == Traces(requests, asked - Window, now)
  <2>1. S \subseteq T
    <3> SUFFICES ASSUME NEW q \in S PROVE q \in T
      OBVIOUS
    <3>1. q \in Requests /\ requests[q].step = "done" /\ requests[q].at >= asked - Window
      BY DEF Counted
    <3>2. requests[q].at <= now
      BY <3>1 DEF BudgetInv, Sound, Timely
    <3>3. QED
      BY <1>1, <3>1, <3>2 DEF Traces
  <2>2. IsFiniteSet(T) /\ T \subseteq Requests
    BY <1>1, <1>5 DEF Traces
  <2>. HIDE DEF f, T
  <2>3. \A q \in S : f[q] = 0 \/ (q \in T /\ f[q] <= f[q])
    BY <1>3, <2>1
  <2>4. (\A q \in S : f[q] \in Nat) /\ (\A q \in T : f[q] \in Nat)
    BY <1>3, <2>2
  <2>. HIDE DEF S
  <2>5. Sum(f, S) <= Sum(f, T)
    BY <1>3, <2>2, <2>3, <2>4, SumGrows
  <2>. USE DEF f, T
  <2>6. QED
    BY <2>5 DEF Ledger
<1>8. QED
  BY <1>2, <1>4, <1>6, <1>7 DEF KnownSpend

LEMMA QuerySpendStep ==
    ASSUME BudgetInv, NEW q \in Requests, QuerySpend(q)
    PROVE  BudgetInv'
<1>. DEFINE req == requests[q]
            spent == Spent(req.asked)
            new == [req EXCEPT !.step = "summed", !.spent = spent]
<1>1. /\ req.step = "sum" /\ requests' = [requests EXCEPT ![q] = new]
      /\ UNCHANGED << now, rules, registrations, spends >>
  BY DEF QuerySpend
<1>2. /\ req \in Request /\ Timely(req, now) /\ RuleSound(req, rules, now)
      /\ req.asked \in Nat /\ req.asked <= now /\ req.outcome = "none"
  BY <1>1, InvFacts DEF Timely
<1>3. spent \in Nat /\ KnownSpend(req.asked, spent, requests, now)
  BY <1>2, QueryAnswers
<1>. HIDE DEF req, spent
<1>4. /\ new \in Request /\ new.step = "summed" /\ new.spent = spent
      /\ new.outcome = req.outcome /\ new.asked = req.asked /\ new.arrived = req.arrived
      /\ new.consulted = req.consulted /\ new.decided = req.decided /\ new.kind = req.kind
      /\ new.rule = req.rule
  BY <1>2, <1>3 DEF Request, Steps
<1>. HIDE DEF new
<1>5. Timely(new, now) /\ SpendSound(new, requests, now) /\ RuleSound(new, rules, now)
  BY <1>1, <1>2, <1>3, <1>4 DEF Timely, SpendSound, RuleSound
<1>6. requests[q].step # "done"
  BY <1>1 DEF req
<1>7. Sound(new, requests, rules, now)
  BY <1>5 DEF Sound
<1>8. QED
  BY <1>1, <1>4, <1>6, <1>7, InvFacts, RequestStep

LEMMA KeepSpendStep ==
    ASSUME BudgetInv, NEW q \in Requests, KeepSpend(q)
    PROVE  BudgetInv'
<1>. DEFINE req == requests[q]
            outcome == Decision(req.rule, req.spent)
            new == IF req.kind = "status" THEN Recorded(req, 0, 0) ELSE Decided(req, outcome)
            entry == [expires |-> Expiry(req.asked), spent |-> req.spent]
<1>1. /\ req.step = "summed" /\ requests' = [requests EXCEPT ![q] = new]
      /\ spends' = [spends EXCEPT ![req.replica] = entry]
      /\ UNCHANGED << now, rules, registrations >>
  BY DEF KeepSpend
<1>2. /\ req \in Request /\ Timely(req, now) /\ RuleSound(req, rules, now)
      /\ req.asked \in Nat /\ req.asked <= now /\ req.outcome = "none" /\ now \in Nat
      /\ req.spent \in Nat /\ KnownSpend(req.asked, req.spent, requests, now)
      /\ TTL \in Nat \ {0} /\ req.replica \in Replicas /\ requests \in [Requests -> Request]
      /\ req.rule \in Rules \cup {Unset} /\ req.arrived \in Nat /\ req.consulted \in Nat
  BY <1>1, InvFacts DEF Timely, SpendSound
<1>. HIDE DEF req
<1>3. /\ new \in Request /\ (new.step = "done" => new.cost = 0 \/ new.at = now)
      /\ Sound(new, requests, rules, now)
  <2>1. CASE req.kind = "status"
    <3>1. /\ new \in Request /\ new.step = "done" /\ new.outcome = "none"
          /\ new.kind = "generate" /\ new.at = 0 /\ new.cost = 0
          /\ new.arrived = 0 /\ new.asked = 0 /\ new.consulted = 0 /\ new.decided = 0
      <4>1. PICK old \in Request :
              /\ \A at, cost : Recorded(req, at, cost) =
                               [old EXCEPT !.step = "done", !.at = at, !.cost = cost]
              /\ old.outcome = "none" /\ old.kind = "generate"
              /\ old.arrived = 0 /\ old.asked = 0 /\ old.consulted = 0 /\ old.decided = 0
        BY <1>2, RecordedType
      <4>2. new = [old EXCEPT !.step = "done", !.at = 0, !.cost = 0]
        <5>1. Recorded(req, 0, 0) = [old EXCEPT !.step = "done", !.at = 0, !.cost = 0]
          BY <4>1, Zenon
        <5>2. QED
          BY <2>1, <5>1
      <4>. HIDE DEF new
      <4>3. QED
        BY <4>1, <4>2 DEF Request, Steps
    <3>. HIDE DEF new
    <3>2. QED
      BY <1>2, <3>1, Idle
  <2>2. CASE req.kind = "generate"
    <3>1. /\ req.asked = req.consulted /\ Enforced(req.rule)
          /\ InForce(rules, req.rule, req.arrived - TTL + 1, req.consulted)
          /\ req.arrived <= now
      BY <1>1, <1>2, <2>2 DEF Timely, RuleSound
    <3>2. outcome \in {"within", "refused", "downgraded"} /\ req.rule.budget \in Nat
          /\ (outcome = "within" => req.spent < req.rule.budget)
          /\ (outcome # "within" => req.spent >= req.rule.budget)
      BY <1>2, <3>1, BudgetAssumption DEF Decision, Enforced, Unset
    <3>3. new = Decided(req, outcome)
      BY <2>2
    <3>. HIDE DEF outcome, new
    <3>4. PICK step \in {"refused", "admitted"} :
            new = [req EXCEPT !.step = step, !.outcome = outcome, !.decided = now,
                              !.asked = 0, !.spent = 0]
      BY <3>3 DEF Decided
    <3>5. /\ new.step = step /\ new.outcome = outcome /\ new.kind = "generate"
          /\ new.decided = now /\ new.rule = req.rule /\ new.consulted = req.consulted
          /\ new.asked = 0 /\ new.arrived = req.arrived
      BY <1>2, <2>2, <3>4 DEF Request
    <3>6. new \in Request
      <4>1. step \in Steps /\ outcome \in Outcomes /\ now \in Nat /\ 0 \in Nat
        BY <1>2, <3>2 DEF Steps, Outcomes
      <4>2. QED
        BY <1>2, <3>4, <4>1 DEF Request
    <3>7. Timely(new, now)
      BY <1>2, <3>1, <3>2, <3>5 DEF Timely
    <3>8. /\ outcome = "within" =>
               Ledger(requests, now - Window, req.consulted - TTL) < req.rule.budget
          /\ outcome # "within" =>
               Ledger(requests, req.consulted - TTL + 1 - Window, now) >= req.rule.budget
      <4>1. req.asked \in Int /\ req.consulted - TTL < req.asked
        BY <1>2, <3>1
      <4>2. QED
        BY <1>2, <3>2, <4>1, Judgement
    <3>9. SpendSound(new, requests, now)
      BY <3>2, <3>5, <3>8 DEF SpendSound
    <3>10. RuleSound(new, rules, now)
      BY <3>1, <3>5 DEF RuleSound
    <3>11. QED
      BY <3>5, <3>6, <3>7, <3>9, <3>10 DEF Sound
  <2>3. QED
    BY <1>2, <2>1, <2>2 DEF Request
<1>4. /\ entry \in [expires : 0..(MaxTime + TTL), spent : Nat]
      /\ SpendCached(entry, requests, now)
  <2>1. req.asked + TTL \in 0..(MaxTime + TTL) /\ (req.asked + TTL) - TTL = req.asked
    BY <1>2, InvFacts
  <2>2. QED
    BY <1>2, <2>1 DEF SpendCached, Expiry
<1>. HIDE DEF entry, new
<1>5. /\ spends' \in [Replicas -> [expires : 0..(MaxTime + TTL), spent : Nat]]
      /\ \A r \in Replicas : SpendCached(spends'[r], requests, now)
  <2>1. /\ spends \in [Replicas -> [expires : 0..(MaxTime + TTL), spent : Nat]]
        /\ \A r \in Replicas : SpendCached(spends[r], requests, now)
    BY InvFacts
  <2>2. \A r \in Replicas : spends'[r] = IF r = req.replica THEN entry ELSE spends[r]
    BY <1>1, <1>2, <2>1
  <2>3. spends' \in [Replicas -> [expires : 0..(MaxTime + TTL), spent : Nat]]
    BY <1>1, <1>2, <1>4, <2>1
  <2>4. QED
    BY <1>4, <2>1, <2>2, <2>3
<1>6. requests[q].step # "done"
  BY <1>1 DEF req
<1>7. QED
  BY <1>1, <1>3, <1>5, <1>6, InvFacts, RequestStep

LEMMA AnswerStep ==
    ASSUME BudgetInv, NEW q \in Requests, Answer(q)
    PROVE  BudgetInv'
<1>1. PICK cost \in Costs : requests' = [requests EXCEPT ![q] = Recorded(@, now, cost)]
  BY DEF Answer
<1>. DEFINE new == Recorded(requests[q], now, cost)
<1>2. /\ requests' = [requests EXCEPT ![q] = new] /\ requests[q].step # "done"
      /\ UNCHANGED << now, rules, registrations, spends >>
  BY <1>1 DEF Answer
<1>3. now \in Nat /\ cost \in Nat /\ requests[q] \in Request
  BY BudgetAssumption, InvFacts
<1>4. /\ new \in Request /\ new.step = "done" /\ new.outcome = "none"
      /\ new.kind = "generate" /\ new.at = now
      /\ new.arrived = 0 /\ new.asked = 0 /\ new.consulted = 0 /\ new.decided = 0
  <2>1. PICK old \in Request :
              /\ \A t, c : Recorded(requests[q], t, c) =
                             [old EXCEPT !.step = "done", !.at = t, !.cost = c]
              /\ old.outcome = "none" /\ old.kind = "generate"
              /\ old.arrived = 0 /\ old.asked = 0 /\ old.consulted = 0 /\ old.decided = 0
    BY <1>3, RecordedType
  <2>2. new = [old EXCEPT !.step = "done", !.at = now, !.cost = cost]
    BY <2>1
  <2>. HIDE DEF new
  <2>3. QED
    BY <1>3, <2>1, <2>2 DEF Request, Steps
<1>. HIDE DEF new
<1>5. Sound(new, requests, rules, now)
  BY <1>3, <1>4, Idle
<1>6. QED
  BY <1>2, <1>4, <1>5, InvFacts, RequestStep

LEMMA AskStatusStep ==
    ASSUME BudgetInv, NEW q \in Requests, AskStatus(q)
    PROVE  BudgetInv'
<1>. DEFINE req == requests[q]
            new == [req EXCEPT !.step = "sum", !.kind = "status", !.asked = now]
<1>1. /\ req.step = "new" /\ requests' = [requests EXCEPT ![q] = new]
      /\ UNCHANGED << now, rules, registrations, spends >>
  BY DEF AskStatus
<1>2. /\ req \in Request /\ Timely(req, now) /\ now \in Nat /\ req.outcome = "none"
  BY <1>1, InvFacts DEF Timely
<1>. HIDE DEF req
<1>3. /\ new \in Request /\ new.step = "sum" /\ new.kind = "status"
      /\ new.outcome = "none" /\ new.asked = now /\ new.arrived = req.arrived
      /\ new.consulted = req.consulted /\ new.decided = req.decided
  BY <1>2 DEF Request, Steps
<1>. HIDE DEF new
<1>4. Timely(new, now) /\ SpendSound(new, requests, now) /\ RuleSound(new, rules, now)
  BY <1>2, <1>3 DEF Timely, SpendSound, RuleSound
<1>5. requests[q].step # "done"
  BY <1>1 DEF req
<1>6. Sound(new, requests, rules, now)
  BY <1>4 DEF Sound
<1>7. QED
  BY <1>1, <1>3, <1>5, <1>6, InvFacts, RequestStep

LEMMA SetRuleStep ==
    ASSUME BudgetInv, NEW rule \in Rules, SetRule(rule)
    PROVE  BudgetInv'
<1>1. /\ rules \in History /\ now \in 0..MaxTime /\ now \in Nat
  BY BudgetAssumption DEF BudgetInv, TypeInv, TypeOK, History
<1>2. /\ rules' = Append(rules, [at |-> now, rule |-> rule])
      /\ UNCHANGED << now, registrations, spends, requests >>
  BY DEF SetRule
<1>3. rules' \in History /\ Governs(rules, rules', now)
  BY <1>1, <1>2, AppendProperties DEF History, Governs
<1>4. QED
  BY <1>1, <1>2, <1>3, OtherStep

LEMMA TickStep ==
    ASSUME BudgetInv, Tick
    PROVE  BudgetInv'
<1>1. /\ rules \in History /\ now \in 0..MaxTime /\ MaxTime \in Nat
  BY BudgetAssumption DEF BudgetInv, TypeInv, TypeOK, History
<1>2. /\ now' \in 0..MaxTime /\ now <= now' /\ rules' = rules
      /\ UNCHANGED << registrations, spends, requests >>
  BY <1>1 DEF Tick
<1>3. QED
  BY <1>1, <1>2, OtherStep DEF Governs

LEMMA NextInv == BudgetInv /\ [Next]_vars => BudgetInv'
<1> SUFFICES ASSUME BudgetInv, [Next]_vars PROVE BudgetInv'
  OBVIOUS
<1>1. ASSUME NEW q \in Requests, Admission(q) PROVE BudgetInv'
  BY <1>1, ArriveStep, QueryRuleStep, KeepRuleStep, QuerySpendStep, KeepSpendStep
  DEF Admission
<1>2. ASSUME NEW q \in Requests, Answer(q) PROVE BudgetInv'
  BY <1>2, AnswerStep
<1>3. ASSUME NEW q \in Requests, AskStatus(q) PROVE BudgetInv'
  BY <1>3, AskStatusStep
<1>4. ASSUME NEW rule \in Rules, SetRule(rule) PROVE BudgetInv'
  BY <1>4, SetRuleStep
<1>5. CASE Tick
  BY <1>5, TickStep
<1>6. CASE UNCHANGED vars
  <2>1. UNCHANGED << now, rules, registrations, spends, requests >>
    BY <1>6 DEF vars
  <2>2. now \in 0..MaxTime /\ now <= now /\ rules \in History
    BY BudgetAssumption DEF BudgetInv, TypeInv, TypeOK, History
  <2>3. QED
    BY <2>1, <2>2, OtherStep DEF Governs
<1>7. QED
  BY <1>1, <1>2, <1>3, <1>4, <1>5, <1>6 DEF Next

LEMMA BudgetInvariant == Spec => []BudgetInv
BY InitInv, NextInv, PTL DEF Spec

------------------------------------------------------------------------------
(* Results *)

\* A budget is overshot by no more than what is spent in one time to live, and
\* nobody is refused or downgraded but for money that was spent, however the
\* queries and the fillings of the caches interleave (services/budget.py:9-17).
THEOREM OvershootIsBounded == Spec => []SpendIsRespected
<1>1. BudgetInv => SpendIsRespected
  <2> SUFFICES ASSUME BudgetInv PROVE SpendIsRespected
    OBVIOUS
  <2>1. \A q \in Requests : SpendSound(requests[q], requests, now)
    BY DEF BudgetInv, Sound
  <2>2. OvershootBounded
    BY <2>1, SpentIsLedger DEF OvershootBounded, SpendSound
  <2>3. RefusedForCause
    BY <2>1, SpentIsLedger DEF RefusedForCause, SpendSound
  <2>4. QED
    BY <2>2, <2>3 DEF SpendIsRespected
<1>2. QED
  BY <1>1, BudgetInvariant, PTL

\* The rule a request is judged by was the application's within the last time to
\* live (services/budget.py:9-17).
THEOREM RulesTakeEffect == Spec => []RuleInForce
<1>1. BudgetInv => RuleInForce
  <2> SUFFICES ASSUME BudgetInv, NEW q \in Requests, requests[q].outcome # "none"
               PROVE  \E i \in DOMAIN rules :
                         /\ rules[i].rule = requests[q].rule
                         /\ rules[i].at <= requests[q].decided
                         /\ i < Len(rules) => rules[i + 1].at > requests[q].arrived - TTL
    BY DEF RuleInForce
  <2>. DEFINE req == requests[q]
              from == req.arrived - TTL + 1
  <2>1. /\ req \in Request /\ Timely(req, now) /\ RuleSound(req, rules, now)
        /\ TTL \in Nat /\ rules \in History
    BY InvFacts
  <2>2. /\ req.arrived \in Nat /\ req.consulted \in Nat /\ req.decided \in Nat
        /\ req.consulted <= req.decided /\ req.kind = "generate"
    BY <2>1 DEF Timely, Request
  <2>3. InForce(rules, req.rule, from, req.consulted)
    BY <2>1, <2>2 DEF RuleSound
  <2>4. PICK i \in DOMAIN rules : /\ rules[i].rule = req.rule
                                  /\ rules[i].at <= req.consulted
                                  /\ i < Len(rules) => rules[i + 1].at >= from
    BY <2>3 DEF InForce
  <2>5. \A j \in 1..Len(rules) : rules[j].at \in Nat
    <3> SUFFICES ASSUME NEW j \in 1..Len(rules) PROVE rules[j].at \in Nat
      OBVIOUS
    <3>1. rules[j] \in [at : 0..MaxTime, rule : Rules \cup {Unset}]
      BY <2>1, ElementOfSeq DEF History
    <3>2. QED
      BY <3>1, BudgetAssumption
  <2>6. i \in 1..Len(rules) /\ (i < Len(rules) => i + 1 \in 1..Len(rules))
    BY <2>1, <2>4 DEF History
  <2>7. rules[i].at <= req.decided
    BY <2>2, <2>4, <2>5, <2>6
  <2>8. i < Len(rules) => rules[i + 1].at > req.arrived - TTL
    BY <2>1, <2>2, <2>4, <2>5, <2>6
  <2>9. QED
    BY <2>4, <2>7, <2>8
<1>2. QED
  BY <1>1, BudgetInvariant, PTL


------------------------------------------------------------------------------
(* The health pass *)

\* A model that is pinned, but listed by the open pass, was PATCHed since.
Listed ==
    /\ pass.step # "rows" => pass.rows = {}
    /\ \A m \in pass.rows : auto[m] \/ m \in late

RegistryInv == part = "registry" => H!TypeOK /\ Listed /\ PinsStand

LEMMA RegistryInit == HealthInit => RegistryInv
<1> SUFFICES ASSUME HealthInit, part = "registry" PROVE H!TypeOK /\ Listed /\ PinsStand
  BY DEF RegistryInv
<1>1. H!Init /\ called = status /\ MinSample \in Nat /\ MaxSample \in Nat
  BY HealthAssumption DEF HealthInit, H!HealthAssumption
<1>2. H!Empty \in H!Tallies
  BY <1>1 DEF H!Empty, H!Tallies
<1>3. H!NoPass \in [step : {"idle", "evidence", "rows"}, evidence : [Fleet -> H!Tallies],
                    rows : SUBSET Fleet, read : [Fleet -> H!Health]]
      /\ H!NoPass.rows = {}
  BY <1>2 DEF H!NoPass, H!Health
<1>4. H!NoPatch \in [model : Fleet \cup {NoModel}, read : H!Health, readAuto : BOOLEAN,
                     payload : H!Payloads]
  BY DEF H!NoPatch, H!Payloads, H!Health
<1>5. H!TypeOK
  BY <1>1, <1>2, <1>3, <1>4 DEF H!Init, H!TypeOK, H!Health
<1>6. Listed /\ PinsStand
  BY <1>1, <1>3 DEF H!Init, Listed, PinsStand
<1>7. QED
  BY <1>5, <1>6

LEMMA RegistryType == H!TypeOK /\ H!Next => H!TypeOK'
<1> SUFFICES ASSUME H!TypeOK, H!Next PROVE H!TypeOK'
  OBVIOUS
<1>1. H!TypeOK /\ MaxSample \in Nat
  BY HealthAssumption DEF H!HealthAssumption
<1>2. H!Empty \in H!Tallies
  BY <1>1 DEF H!Empty, H!Tallies
<1>3. ASSUME NEW m \in Fleet, H!Traffic(m) PROVE H!TypeOK'
  <2>1. window[m] \in H!Tallies
    BY <1>1 DEF H!TypeOK
  <2>2. PICK w \in H!Tallies : window' = [window EXCEPT ![m] = w]
    <3>1. PICK failed \in BOOLEAN : H!Call(m, failed) \/ H!Forget(m, failed)
      BY <1>3 DEF H!Traffic
    <3>2. CASE H!Call(m, failed)
      <4>1. H!Counted(window[m], failed) \in H!Tallies
        BY <1>1, <2>1, <3>2 DEF H!Call, H!Counted, H!Tallies
      <4>2. QED
        BY <3>2, <4>1 DEF H!Call
    <3>3. CASE H!Forget(m, failed)
      <4>1. [requests |-> window[m].requests - 1,
             errors |-> IF failed THEN window[m].errors - 1 ELSE window[m].errors] \in H!Tallies
        BY <1>1, <2>1, <3>3 DEF H!Forget, H!Tallies
      <4>2. QED
        BY <3>3, <4>1 DEF H!Forget
    <3>4. QED
      BY <3>1, <3>2, <3>3
  <2>3. window' \in [Fleet -> H!Tallies]
    BY <1>1, <2>2 DEF H!TypeOK
  <2>4. UNCHANGED << status, auto, pass, patch >>
    BY <1>3 DEF H!Traffic, H!Call, H!Forget
  <2>5. QED
    BY <1>1, <2>3, <2>4 DEF H!TypeOK
<1>4. CASE H!PassEvidence
  <2>1. pass' = [step |-> "evidence", evidence |-> window, rows |-> {},
                 read |-> [m \in Fleet |-> "healthy"]]
    BY <1>4 DEF H!PassEvidence, H!NoPass
  <2>2. UNCHANGED << status, auto, window, patch >> /\ window \in [Fleet -> H!Tallies]
    BY <1>1, <1>4 DEF H!PassEvidence, H!TypeOK
  <2>3. pass' \in [step : {"idle", "evidence", "rows"}, evidence : [Fleet -> H!Tallies],
                  rows : SUBSET Fleet, read : [Fleet -> H!Health]]
    BY <2>1, <2>2 DEF H!Health
  <2>4. QED
    BY <1>1, <2>2, <2>3 DEF H!TypeOK
<1>5. CASE H!PassRows
  <2>1. pass' = [step |-> "rows", evidence |-> pass.evidence, rows |-> H!AutoManaged,
                 read |-> status]
    BY <1>1, <1>5 DEF H!PassRows, H!TypeOK
  <2>2. H!AutoManaged = { m \in Fleet : auto[m] }
    BY DEF H!AutoManaged
  <2>3. /\ UNCHANGED << status, auto, window, patch >>
        /\ status \in [Fleet -> H!Health] /\ pass.evidence \in [Fleet -> H!Tallies]
    BY <1>1, <1>5 DEF H!PassRows, H!TypeOK
  <2>4. pass' \in [step : {"idle", "evidence", "rows"}, evidence : [Fleet -> H!Tallies],
                  rows : SUBSET Fleet, read : [Fleet -> H!Health]]
    BY <2>1, <2>2, <2>3
  <2>5. QED
    BY <1>1, <2>3, <2>4 DEF H!TypeOK
<1>6. ASSUME pass' = H!NoPass, UNCHANGED << auto, window, patch >>,
             status' \in [Fleet -> H!Health]
      PROVE  H!TypeOK'
  BY <1>1, <1>2, <1>6 DEF H!TypeOK, H!NoPass, H!Health
<1>7. CASE H!PassCommit
  <2>1. ASSUME NEW m \in Fleet
        PROVE  H!NewStatus(pass.evidence[m], pass.read[m]) \in H!Health
    BY <1>1 DEF H!NewStatus, H!Judged, H!HalfOpen, H!Health, H!TypeOK
  <2>2. status' \in [Fleet -> H!Health]
    BY <1>1, <1>7, <2>1 DEF H!PassCommit, H!TypeOK
  <2>3. QED
    BY <1>6, <1>7, <2>2 DEF H!PassCommit
<1>8. CASE H!PassFail
  BY <1>1, <1>6, <1>8 DEF H!PassFail, H!TypeOK
<1>9. ASSUME NEW o \in Operators, H!Operator(o) PROVE H!TypeOK'
  <2>1. H!NoPatch \in [model : Fleet \cup {NoModel}, read : H!Health, readAuto : BOOLEAN,
                       payload : H!Payloads]
    BY DEF H!NoPatch, H!Payloads, H!Health
  <2>2. ASSUME NEW m \in Fleet, NEW payload \in H!Payloads, H!PatchRead(o, m, payload)
        PROVE  H!TypeOK'
    BY <1>1, <2>2 DEF H!PatchRead, H!TypeOK
  <2>3. CASE H!PatchCommit(o)
    <3>1. patch[o].payload \in H!Payloads
      BY <1>1 DEF H!TypeOK
    <3>2. status' \in [Fleet -> H!Health] /\ auto' \in [Fleet -> BOOLEAN]
      BY <1>1, <2>3, <3>1 DEF H!PatchCommit, H!TypeOK, H!Asks, H!Payloads, H!Health
    <3>3. QED
      BY <1>1, <2>1, <2>3, <3>2 DEF H!PatchCommit, H!TypeOK
  <2>4. CASE H!PatchFail(o)
    BY <1>1, <2>1, <2>4 DEF H!PatchFail, H!TypeOK
  <2>5. QED
    BY <1>9, <2>2, <2>3, <2>4 DEF H!Operator
<1>10. QED
  BY <1>1, <1>3, <1>4, <1>5, <1>7, <1>8, <1>9 DEF H!Next, H!Pass

\* What a step makes of a model that is not PATCHed in it.
LEMMA Untouched ==
    ASSUME H!TypeOK, H!Next, NEW m \in Fleet, ~Patched(m)
    PROVE  /\ auto'[m] = auto[m]
           /\ status'[m] = status[m] \/ (H!PassCommit /\ m \in pass.rows)
<1>1. \/ UNCHANGED << status, auto >>
      \/ H!PassCommit
      \/ \E o \in Operators : H!PatchCommit(o)
  BY DEF H!Next, H!Traffic, H!Call, H!Forget, H!Pass, H!PassEvidence, H!PassRows, H!PassFail,
         H!Operator, H!PatchRead, H!PatchFail
<1>2. CASE H!PassCommit
  BY <1>2 DEF H!PassCommit, H!SetByPass
<1>3. ASSUME NEW o \in Operators, H!PatchCommit(o)
      PROVE  auto'[m] = auto[m] /\ status'[m] = status[m]
  <2>1. patch[o].model # m
    BY <1>3 DEF Patched
  <2>2. status \in [Fleet -> H!Health] /\ auto \in [Fleet -> BOOLEAN]
    BY DEF H!TypeOK
  <2>3. QED
    BY <1>3, <2>1, <2>2 DEF H!PatchCommit
<1>4. QED
  BY <1>1, <1>2, <1>3

\* A pass is where it was, has just listed what is managed, or lists nothing.
LEMMA PassMoves ==
    ASSUME H!TypeOK, H!Next
    PROVE  \/ UNCHANGED pass
           \/ /\ pass'.step = "rows" /\ UNCHANGED auto
              /\ \A m \in pass'.rows : auto[m]
           \/ pass'.step # "rows" /\ pass'.rows = {}
<1>1. CASE H!PassRows
  <2>1. pass' = [step |-> "rows", evidence |-> pass.evidence, rows |-> H!AutoManaged,
                 read |-> status]
    BY <1>1 DEF H!PassRows, H!TypeOK
  <2>2. QED
    BY <1>1, <2>1 DEF H!PassRows, H!AutoManaged
<1>2. CASE H!PassEvidence
  <2>1. pass' = [step |-> "evidence", evidence |-> window, rows |-> {},
                 read |-> [m \in Fleet |-> "healthy"]]
    BY <1>2 DEF H!PassEvidence, H!NoPass
  <2>2. QED
    BY <2>1
<1>3. CASE H!PassCommit \/ H!PassFail
  BY <1>3 DEF H!PassCommit, H!PassFail, H!NoPass
<1>4. CASE (\E m \in Fleet : H!Traffic(m)) \/ (\E o \in Operators : H!Operator(o))
  BY <1>4 DEF H!Traffic, H!Call, H!Forget, H!Operator, H!PatchRead, H!PatchCommit, H!PatchFail
<1>5. QED
  BY <1>1, <1>2, <1>3, <1>4 DEF H!Next, H!Pass

LEMMA RegistryStep == RegistryInv /\ [HealthNext]_healthVars => RegistryInv'
<1> SUFFICES ASSUME RegistryInv, [HealthNext]_healthVars, part' = "registry"
             PROVE  H!TypeOK' /\ Listed' /\ PinsStand'
  BY DEF RegistryInv
<1>1. CASE UNCHANGED healthVars
  BY <1>1 DEF RegistryInv, healthVars, registryVars, H!TypeOK, Listed, PinsStand
<1>2. CASE HealthNext
  <2>1. part = "registry" /\ H!Next /\ CallsKept
    BY <1>2 DEF HealthNext, InRegistry, InRouter
  <2>2. H!TypeOK /\ Listed /\ PinsStand
    BY <2>1 DEF RegistryInv
  <2>3. H!TypeOK'
    BY <2>1, <2>2, RegistryType
  <2>4. ASSUME NEW m \in Fleet, UNCHANGED pass, pass.step = "rows", m \in pass.rows
        PROVE  auto'[m] \/ m \in late'
    <3>1. m \in late \/ Patched(m) => m \in late'
      BY <2>1, <2>4 DEF CallsKept
    <3>2. CASE ~Patched(m)
      BY <2>1, <2>2, <2>4, <3>1, <3>2, Untouched DEF Listed
    <3>3. QED
      BY <3>1, <3>2
  <2>5. Listed'
    <3>1. pass.rows \subseteq Fleet
      BY <2>2 DEF H!TypeOK
    <3>2. QED
      BY <2>1, <2>2, <2>4, <3>1, PassMoves DEF Listed
  <2>6. ASSUME NEW m \in Fleet, ~auto'[m] PROVE status'[m] = called'[m]
    <3>1. called'[m] = IF Patched(m) \/ (m \in late /\ H!PassCommit) THEN status'[m] ELSE called[m]
      BY <2>1 DEF CallsKept
    <3>2. CASE ~Patched(m) /\ ~(m \in late /\ H!PassCommit)
      <4>1. auto'[m] = auto[m] /\ (status'[m] = status[m] \/ (H!PassCommit /\ m \in pass.rows))
        BY <2>1, <2>2, <3>2, Untouched
      <4>2. status'[m] = status[m]
        BY <2>2, <2>6, <3>2, <4>1 DEF Listed
      <4>3. status[m] = called[m]
        BY <2>1, <2>2, <2>6, <4>1 DEF PinsStand
      <4>4. QED
        BY <3>1, <3>2, <4>2, <4>3
    <3>3. QED
      BY <3>1, <3>2
  <2>7. PinsStand'
    BY <2>6 DEF PinsStand
  <2>8. QED
    BY <2>3, <2>5, <2>7
<1>3. QED
  BY <1>1, <1>2

\* No pass writes over an operator's call that it could have known of.
THEOREM PinsAreRespected == HealthSpec => []PinsStand
<1>1. RegistryInv => PinsStand
  BY DEF RegistryInv, PinsStand
<1>2. QED
  BY <1>1, RegistryInit, RegistryStep, PTL DEF HealthSpec

------------------------------------------------------------------------------
(* Ranks: every place has one *)

\* m comes before n: by falling value, then in the order of listing.
Ahead(f, m, n) == f[m] > f[n] \/ (f[m] = f[n] /\ m < n)
Leading(f, S, m) == { n \in S : Ahead(f, n, m) }
PlaceIn(f, S, m) == Cardinality(Leading(f, S, m)) + 1

LEMMA LeadingFinite ==
    ASSUME NEW S, IsFiniteSet(S), NEW f, NEW m
    PROVE  /\ Leading(f, S, m) \subseteq S /\ IsFiniteSet(Leading(f, S, m))
           /\ Cardinality(Leading(f, S, m)) \in Nat
<1>1. Leading(f, S, m) \subseteq S
  BY DEF Leading
<1>2. IsFiniteSet(Leading(f, S, m))
  BY <1>1, FS_Subset
<1>3. QED
  BY <1>1, <1>2, FS_CardinalityType

\* Who comes earlier has a lower place.
LEMMA PlacesFall ==
    ASSUME NEW S, IsFiniteSet(S), NEW f, \A x \in S : x \in Nat /\ f[x] \in Int,
           NEW m \in S, NEW n \in S, Ahead(f, m, n)
    PROVE  PlaceIn(f, S, m) < PlaceIn(f, S, n)
<1>1. /\ Leading(f, S, m) \subseteq Leading(f, S, n)
      /\ m \in Leading(f, S, n) /\ m \notin Leading(f, S, m)
  BY DEF Leading, Ahead
<1>2. Leading(f, S, m) # Leading(f, S, n) /\ Leading(f, S, m) \in SUBSET Leading(f, S, n)
  BY <1>1
<1>3. IsFiniteSet(Leading(f, S, n))
  BY LeadingFinite
<1>4. /\ Cardinality(Leading(f, S, m)) <= Cardinality(Leading(f, S, n))
      /\ Cardinality(Leading(f, S, m)) # Cardinality(Leading(f, S, n))
  BY <1>2, <1>3, FS_Subset
<1>5. /\ Cardinality(Leading(f, S, m)) \in Nat /\ Cardinality(Leading(f, S, n)) \in Nat
  BY LeadingFinite
<1>6. QED
  BY <1>4, <1>5 DEF PlaceIn

LEMMA EveryPlaceIsTaken ==
    ASSUME NEW S, IsFiniteSet(S), NEW f, \A x \in S : x \in Nat /\ f[x] \in Int
    PROVE  /\ \A m \in S : PlaceIn(f, S, m) \in 1..Cardinality(S)
           /\ \A i \in 1..Cardinality(S) : \E m \in S : PlaceIn(f, S, m) = i
           /\ \A m \in S, n \in S : PlaceIn(f, S, m) = PlaceIn(f, S, n) => m = n
<1> DEFINE place == [m \in S |-> PlaceIn(f, S, m)]
<1>1. ASSUME NEW m \in S PROVE PlaceIn(f, S, m) \in 1..Cardinality(S)
  <2>1. m \notin Leading(f, S, m) /\ Leading(f, S, m) \subseteq S
    BY DEF Leading, Ahead
  <2>2. Leading(f, S, m) # S /\ Leading(f, S, m) \in SUBSET S
    BY <2>1
  <2>3. /\ Cardinality(Leading(f, S, m)) <= Cardinality(S)
        /\ Cardinality(Leading(f, S, m)) # Cardinality(S)
    BY <2>2, FS_Subset
  <2>4. Cardinality(S) \in Nat
    BY FS_CardinalityType
  <2>5. QED
    BY <2>3, <2>4, LeadingFinite DEF PlaceIn
<1>2. ASSUME NEW m \in S, NEW n \in S, PlaceIn(f, S, m) = PlaceIn(f, S, n) PROVE m = n
  <2>1. m = n \/ Ahead(f, m, n) \/ Ahead(f, n, m)
    BY DEF Ahead
  <2>2. PlaceIn(f, S, m) \in Int
    <3>1. Cardinality(S) \in Nat
      BY FS_CardinalityType
    <3>2. QED
      BY <1>1, <3>1
  <2>3. QED
    BY <1>2, <2>1, <2>2, PlacesFall
<1>3. Cardinality(S) \in Nat
  BY FS_CardinalityType
<1>4. place \in Injection(S, 1..Cardinality(S))
  BY <1>1, <1>2 DEF Injection, IsInjective
<1>5. IsFiniteSet(1..Cardinality(S)) /\ Cardinality(1..Cardinality(S)) = Cardinality(S)
  BY <1>3, FS_Interval
<1>6. place \in Surjection(S, 1..Cardinality(S))
  <2> HIDE DEF place
  <2>1. QED
    BY <1>4, <1>5, FS_Injection
<1>7. \A i \in 1..Cardinality(S) : \E m \in S : place[m] = i
  BY <1>6 DEF Surjection
<1>8. QED
  BY <1>1, <1>2, <1>7

------------------------------------------------------------------------------
(* What the router weighs *)

RouterInv == part = "router" => R!TypeOK /\ history \in [Models -> Seq(R!Sample)]

LEMMA RouterConstants ==
    /\ IsFiniteSet(Models) /\ \A m \in Models : m \in Nat
    /\ Profiles \in [Models -> R!Profile] /\ Prompts \subseteq R!Prompt
    /\ Scale \in Nat /\ Scale > 0 /\ Scores \subseteq 0..Scale /\ NoScore \notin Scores
    /\ Rounding \in Nat \ {0}
    /\ Latencies \subseteq Nat /\ Weights \in [R!WeightNames -> Nat]
    /\ Depth \in Nat \ {0} /\ MinSamples \in Nat \ {0} /\ Hour \in Nat \ {0}
BY HealthAssumption DEF R!RoutingAssumption, R!IsFiniteSet, IsFiniteSet

LEMMA CountOf == ASSUME NEW S PROVE R!Cardinality(S) = Cardinality(S)
BY DEF R!Cardinality, Cardinality

LEMMA Greater == ASSUME NEW a \in Int, NEW b \in Int PROVE R!Max({a, b}) = IF a >= b THEN a ELSE b
<1>1. \E x \in {a, b} : \A y \in {a, b} : x >= y
  <2>1. CASE a >= b
    BY <2>1
  <2>2. CASE b >= a
    BY <2>2
  <2>3. QED
    BY <2>1, <2>2
<1>2. R!Max({a, b}) \in {a, b} /\ \A y \in {a, b} : R!Max({a, b}) >= y
  BY <1>1 DEF R!Max
<1>3. QED
  BY <1>2

LEMMA Lesser == ASSUME NEW a \in Int, NEW b \in Int PROVE R!Min({a, b}) = IF a <= b THEN a ELSE b
<1>1. \E x \in {a, b} : \A y \in {a, b} : x <= y
  <2>1. CASE a <= b
    BY <2>1
  <2>2. CASE b <= a
    BY <2>2
  <2>3. QED
    BY <2>1, <2>2
<1>2. R!Min({a, b}) \in {a, b} /\ \A y \in {a, b} : R!Min({a, b}) <= y
  BY <1>1 DEF R!Min
<1>3. QED
  BY <1>2

\* Sums over the traces of a model.
LEMMA SumOfType ==
    ASSUME NEW m, NEW field, NEW I, IsFiniteSet(I), \A i \in I : history[m][i][field] \in Nat
    PROVE  R!SumOf(m, I, field) \in Nat
<1>. DEFINE f == [i \in I |-> history[m][i][field]]
            Adds(g) == g = [s \in SUBSET I |-> IF s = {} THEN 0
                              ELSE history[m][Some(s)][field] + g[s \ {Some(s)}]]
            h == CHOOSE g : Adds(g)
<1>1. \A s \in SUBSET I : s # {} => history[m][Some(s)][field] = f[Some(s)]
  BY SomeIn
<1>2. ASSUME NEW g PROVE Adds(g) <=> SumsUp(g, f, I)
  <2> HIDE DEF f
  <2>1. QED
    BY <1>1 DEF SumsUp
<1>3. R!SumOf(m, I, field) = h[I]
  BY DEF R!SumOf, R!MapThenSumSet, R!MapThenFoldSet, Some
<1>4. \A i \in I : f[i] \in Nat
  OBVIOUS
<1>. HIDE DEF Adds, f
<1>5. \E g : Adds(g)
  BY <1>2, SumsExist
<1>6. Adds(h)
  BY <1>5
<1>. HIDE DEF h
<1>7. R!SumOf(m, I, field) = Sum(f, I)
  BY <1>2, <1>3, <1>6, SumIsFold
<1>8. QED
  BY <1>4, <1>7, SumType

LEMMA RouterValues ==
    ASSUME RouterInv, part = "router", NEW m \in Models
    PROVE  /\ R!Quality(m) \in Nat /\ R!Price(m) \in Nat /\ R!Latency(m) \in Nat
           /\ R!Status(m) = "down" \/ registry[m] # "down"
<1>1. history[m] \in Seq(R!Sample) /\ Profiles[m] \in R!Profile
  BY RouterConstants DEF RouterInv
<1>2. /\ DOMAIN history[m] = 1..Len(history[m]) /\ Len(history[m]) \in Nat
      /\ \A i \in DOMAIN history[m] : history[m][i] \in R!Sample
  BY <1>1
<1>3. IsFiniteSet(DOMAIN history[m])
  BY <1>2, FS_Interval
<1>4. Profiles[m].quality \in Nat /\ R!Price(m) \in Nat /\ Profiles[m].latency \in Nat
  BY <1>1, RouterConstants DEF R!Profile, R!Price
<1>5. R!Latency(m) \in Nat
  <2>1. \A i \in DOMAIN history[m] : history[m][i]["latency"] \in Nat
    BY <1>2, RouterConstants DEF R!Sample
  <2>2. R!SumOf(m, DOMAIN history[m], "latency") \in Nat
    BY <1>3, <2>1, SumOfType
  <2>3. PICK s \in Nat : s = R!SumOf(m, DOMAIN history[m], "latency")
    BY <2>2
  <2>4. Len(history[m]) # 0 => R!Rounded(s, Len(history[m])) \in Nat
    <3>1. Len(history[m]) # 0 => 2 * Len(history[m]) \in Nat \ {0} /\ 2 * s + Len(history[m]) \in Nat
      BY <1>2, <2>3
    <3>2. QED
      BY <3>1, Quotient DEF R!Rounded
  <2>5. QED
    BY <1>4, <2>3, <2>4 DEF R!Latency, R!Count
<1>6. R!Quality(m) \in Nat
  <2> DEFINE I == { i \in DOMAIN history[m] : history[m][i].quality # NoScore }
             full == 4 * MinSamples
             trust == R!Min({full, Len(history[m])})
             n == R!Cardinality(I)
  <2>1. I \subseteq DOMAIN history[m]
    OBVIOUS
  <2>2. IsFiniteSet(I)
    BY <1>3, <2>1, FS_Subset
  <2>3. n \in Nat
    BY <2>2, FS_CardinalityType, CountOf
  <2>4. \A i \in I : history[m][i]["quality"] \in Nat
    <3>1. \A s \in R!Sample : s.quality \in Scores \cup {NoScore} /\ s["quality"] = s.quality
      BY DEF R!Sample
    <3>2. \A x \in Scores : x \in Nat
      BY RouterConstants
    <3>3. QED
      BY <1>2, <3>1, <3>2
  <2>5. R!SumOf(m, I, "quality") \in Nat
    <3> HIDE DEF I
    <3>1. QED
      BY <2>2, <2>4, SumOfType
  <2>6. full \in Nat \ {0} /\ MinSamples \in Nat
    BY RouterConstants
  <2>7. trust \in Nat /\ trust <= full
    <3> HIDE DEF full
    <3>1. QED
      BY <1>2, <2>6, Lesser
  <2>8. R!Quality(m) =
          IF n = 0 \/ Len(history[m]) < MinSamples THEN Profiles[m].quality
          ELSE R!Rounded(R!SumOf(m, I, "quality") * trust
                           + Profiles[m].quality * (full - trust) * n, full * n)
    BY DEF R!Quality, R!Samples, R!Count
  <2> HIDE DEF I, full, trust, n
  <2>9. /\ R!SumOf(m, I, "quality") * trust \in Nat
        /\ Profiles[m].quality * (full - trust) * n \in Nat
    <3>1. full - trust \in Nat
      BY <2>6, <2>7
    <3>2. Profiles[m].quality * (full - trust) \in Nat
      BY <1>4, <3>1
    <3>3. QED
      BY <2>3, <2>5, <2>7, <3>2
  <2>10. n # 0 => full * n \in Nat \ {0}
    BY <2>3, <2>6
  <2>11. n # 0 => R!Rounded(R!SumOf(m, I, "quality") * trust
                               + Profiles[m].quality * (full - trust) * n, full * n) \in Nat
    <3>1. PICK a \in Nat :
            a = R!SumOf(m, I, "quality") * trust + Profiles[m].quality * (full - trust) * n
      BY <2>9
    <3>2. PICK b : b = full * n
      OBVIOUS
    <3>3. n # 0 => 2 * b \in Nat \ {0} /\ 2 * a + b \in Nat
      BY <2>10, <3>2
    <3>4. n # 0 => R!Rounded(a, b) \in Nat
      BY <3>3, Quotient DEF R!Rounded
    <3>5. QED
      BY <3>1, <3>2, <3>4
  <2>12. QED
    BY <1>4, <2>8, <2>11
<1>7. R!Status(m) = "down" \/ registry[m] # "down"
  BY DEF R!Status
<1>8. QED
  BY <1>4, <1>5, <1>6, <1>7

------------------------------------------------------------------------------
(* The score of a model *)

LEMMA IntQuotient ==
    ASSUME NEW a \in Int, NEW n \in Nat \ {0}
    PROVE  a \div n \in Int /\ n * (a \div n) <= a /\ a < n * (a \div n) + n
<1>1. a = n * (a \div n) + (a % n) /\ a % n \in 0..(n - 1)
  OBVIOUS
<1>2. a \div n \in Int
  OBVIOUS
<1>3. QED
  BY <1>1, <1>2

\* Rounding keeps the order of two values, strictly if they are a unit apart.
LEMMA RoundedOrder ==
    ASSUME NEW a \in Int, NEW b \in Int, NEW n \in Nat \ {0}
    PROVE  /\ R!Rounded(a, n) \in Int
           /\ a <= b => R!Rounded(a, n) <= R!Rounded(b, n)
           /\ a + n <= b => R!Rounded(a, n) < R!Rounded(b, n)
<1>1. /\ 2 * n \in Nat \ {0} /\ 2 * a + n \in Int /\ 2 * b + n \in Int
  OBVIOUS
<1>2. PICK x \in Int, y \in Int :
        /\ x = R!Rounded(a, n) /\ (2 * n) * x <= 2 * a + n /\ 2 * a + n < (2 * n) * x + 2 * n
        /\ y = R!Rounded(b, n) /\ (2 * n) * y <= 2 * b + n /\ 2 * b + n < (2 * n) * y + 2 * n
  BY <1>1, IntQuotient DEF R!Rounded
<1>3. ASSUME a <= b, y < x PROVE FALSE
  <2>1. (y + 1) * (2 * n) <= x * (2 * n)
    BY <1>1, <1>3, Times
  <2>2. (y + 1) * (2 * n) = (2 * n) * y + 2 * n /\ x * (2 * n) = (2 * n) * x
    OBVIOUS
  <2>3. PICK u \in Int, v \in Int : u = (2 * n) * x /\ v = (2 * n) * y
    OBVIOUS
  <2>4. QED
    BY <1>2, <1>3, <2>1, <2>2, <2>3
<1>4. ASSUME a + n <= b, y <= x PROVE FALSE
  <2>1. y * (2 * n) <= x * (2 * n)
    BY <1>1, <1>4, Times
  <2>2. y * (2 * n) = (2 * n) * y /\ x * (2 * n) = (2 * n) * x
    OBVIOUS
  <2>3. PICK u \in Int, v \in Int : u = (2 * n) * x /\ v = (2 * n) * y
    OBVIOUS
  <2>4. QED
    BY <1>2, <1>4, <2>1, <2>2, <2>3
<1>5. QED
  BY <1>2, <1>3, <1>4

\* What is good about a model counts for it, the rest against it.
Weigh(quality, price, latency, risk, costs, delays) ==
    100 * Weights.quality * quality * costs * delays
    - 100 * Scale * Weights.cost * price * delays
    - 100 * Scale * Weights.latency * latency * costs
    - Scale * Weights.risk * risk * costs * delays

LEMMA WeightsAre ==
    /\ Weights.quality \in Nat /\ Weights.cost \in Nat
    /\ Weights.latency \in Nat /\ Weights.risk \in Nat
BY RouterConstants DEF R!WeightNames

LEMMA WeighType ==
    ASSUME NEW quality \in Int, NEW price \in Int, NEW latency \in Int, NEW risk \in Int,
           NEW costs \in Int, NEW delays \in Int
    PROVE  Weigh(quality, price, latency, risk, costs, delays) \in Int
BY WeightsAre, RouterConstants DEF Weigh

\* The difference of two scores, from the differences of the two models.
Gain(quality, price, latency, risk, costs, delays) ==
    100 * Weights.quality * quality * costs * delays
    + 100 * Scale * Weights.cost * price * delays
    + 100 * Scale * Weights.latency * latency * costs
    + Scale * Weights.risk * risk * costs * delays

\* Each of the four differences counts some fixed number of times.
FixedTimes(kq, kc, kl, kr, costs, delays) ==
    \A a, b, d, e \in Int :
       /\ Weigh(a, b, d, e, costs, delays) = a * kq - b * kc - d * kl - e * kr
       /\ Gain(a, b, d, e, costs, delays) = a * kq + b * kc + d * kl + e * kr

LEMMA Coefficients ==
    ASSUME NEW costs \in Nat, NEW delays \in Nat
    PROVE  \E kq, kc, kl, kr \in Nat : FixedTimes(kq, kc, kl, kr, costs, delays)
<1>1. PICK wq \in Nat, wc \in Nat, wl \in Nat, wr \in Nat :
        wq = Weights.quality /\ wc = Weights.cost /\ wl = Weights.latency /\ wr = Weights.risk
  BY WeightsAre
<1>2. Scale \in Nat
  BY RouterConstants
<1>3. PICK kq \in Nat, kc \in Nat, kl \in Nat, kr \in Nat :
        /\ kq = 100 * wq * (costs * delays) /\ kc = 100 * wc * (Scale * delays)
        /\ kl = 100 * wl * (Scale * costs) /\ kr = wr * (Scale * (costs * delays))
  <2>1. costs * delays \in Nat /\ Scale * delays \in Nat /\ Scale * costs \in Nat
    BY <1>2
  <2>2. Scale * (costs * delays) \in Nat /\ 100 * wq \in Nat /\ 100 * wc \in Nat /\ 100 * wl \in Nat
    BY <1>2, <2>1
  <2>3. /\ 100 * wq * (costs * delays) \in Nat /\ 100 * wc * (Scale * delays) \in Nat
        /\ 100 * wl * (Scale * costs) \in Nat /\ wr * (Scale * (costs * delays)) \in Nat
    BY <2>1, <2>2
  <2>4. QED
    BY <2>3
<1>4. ASSUME NEW a \in Int, NEW b \in Int, NEW d \in Int, NEW e \in Int
      PROVE  /\ Weigh(a, b, d, e, costs, delays) = a * kq - b * kc - d * kl - e * kr
             /\ Gain(a, b, d, e, costs, delays) = a * kq + b * kc + d * kl + e * kr
  <2>1. 100 * wq * a * costs * delays = a * kq
    BY <1>1, <1>3
  <2>2. 100 * Scale * wc * b * delays = b * kc
    BY <1>1, <1>2, <1>3
  <2>3. 100 * Scale * wl * d * costs = d * kl
    BY <1>1, <1>2, <1>3
  <2>4. Scale * wr * e * costs * delays = e * kr
    BY <1>1, <1>2, <1>3
  <2>5. QED
    BY <1>1, <2>1, <2>2, <2>3, <2>4 DEF Weigh, Gain
<1>5. FixedTimes(kq, kc, kl, kr, costs, delays)
  BY <1>4 DEF FixedTimes
<1>6. QED
  BY <1>3, <1>5

LEMMA Apart ==
    ASSUME NEW a \in Int, NEW b \in Int, NEW k \in Nat, a <= b
    PROVE  \E d \in Nat : d = (b - a) * k /\ b * k = a * k + d
<1>1. PICK d \in Nat : d = b - a
  OBVIOUS
<1>2. d * k \in Nat
  OBVIOUS
<1>3. b * k = a * k + (b - a) * k
  OBVIOUS
<1>4. QED
  BY <1>1, <1>2, <1>3

LEMMA RiskIs ==
    ASSUME NEW p, NEW m
    PROVE  /\ R!Risk(p) \in {10, 85, 90} /\ R!ModelRisk(p, m) \in Nat
           /\ R!Ailing(m) => R!ModelRisk(p, m) > R!Risk(p)
           /\ ~R!Ailing(m) => R!ModelRisk(p, m) = R!Risk(p)
<1>1. R!Risk(p) \in {10, 85, 90}
  BY DEF R!Risk
<1>2. PICK half \in {15, 127, 135} : half = (3 * R!Risk(p)) \div 2 /\ half > R!Risk(p)
  BY <1>1
<1>3. R!Min({100, half}) = IF 100 <= half THEN 100 ELSE half
  BY Lesser
<1>4. R!ModelRisk(p, m) = IF R!Ailing(m) THEN R!Min({100, half}) ELSE R!Risk(p)
  BY <1>2 DEF R!ModelRisk, R!Ailing
<1>5. QED
  BY <1>1, <1>2, <1>3, <1>4

\* By how much a degraded model is riskier than one that is not.
Spared(p, m, n) ==
    IF R!Ailing(n) /\ ~R!Ailing(m) THEN R!Min({100 - R!Risk(p), R!Risk(p) \div 2}) ELSE 0

LEMMA RiskOrder ==
    ASSUME NEW p, NEW m, NEW n, R!Ailing(m) => R!Ailing(n)
    PROVE  /\ R!ModelRisk(p, m) <= R!ModelRisk(p, n)
           /\ R!ModelRisk(p, n) - R!ModelRisk(p, m) = Spared(p, m, n)
<1>1. R!Ailing(m) /\ R!Ailing(n) => R!ModelRisk(p, m) = R!ModelRisk(p, n)
  BY DEF R!ModelRisk, R!Ailing
<1>2. CASE R!Ailing(n) /\ ~R!Ailing(m)
  <2>1. PICK risk \in {10, 85, 90} : risk = R!Risk(p)
    BY RiskIs
  <2>2. R!Min({100, (3 * risk) \div 2}) = IF 100 <= (3 * risk) \div 2 THEN 100 ELSE (3 * risk) \div 2
    BY <2>1, Lesser
  <2>3. R!Min({100 - risk, risk \div 2}) = IF 100 - risk <= risk \div 2 THEN 100 - risk ELSE risk \div 2
    BY <2>1, Lesser
  <2>4. R!ModelRisk(p, m) = risk /\ R!ModelRisk(p, n) = R!Min({100, (3 * risk) \div 2})
    BY <1>2, <2>1 DEF R!ModelRisk, R!Ailing
  <2>5. Spared(p, m, n) = R!Min({100 - risk, risk \div 2})
    BY <1>2, <2>1 DEF Spared
  <2>6. QED
    BY <2>1, <2>2, <2>3, <2>4, <2>5
<1>3. QED
  BY <1>1, <1>2, RiskIs DEF Spared

LEMMA FloorIs ==
    ASSUME NEW p
    PROVE  /\ R!Floor(p) \in Nat /\ R!Floor(p) <= 100
           /\ (p.high = TRUE \/ p.override = TRUE) => R!Floor(p) >= 85
<1>1. PICK a \in {0, 45, 80} : a = R!ComplexityFloor[R!Complexity(p)]
  BY DEF R!ComplexityFloor, R!Complexity
<1>2. PICK b \in {0, 85} : b = IF R!Risk(p) >= 80 THEN 85 ELSE 0
  BY RiskIs
<1>3. R!Floor(p) = IF a >= b THEN a ELSE b
  BY <1>1, <1>2, Greater DEF R!Floor
<1>4. p.high = TRUE \/ p.override = TRUE => b = 85
  BY <1>2 DEF R!Risk
<1>5. QED
  BY <1>1, <1>2, <1>3, <1>4

\* The spread of finitely many numbers, and what the least of them is.
LEMMA SpreadIs ==
    ASSUME NEW S, IsFiniteSet(S), S \subseteq Nat, S # {}
    PROVE  R!Max(S) \in Nat /\ R!Min(S) \in Nat /\ R!Max(S) >= R!Min(S)
<1>1. \E x \in S : \A y \in S : x >= y
  BY Greatest
<1>2. \E x \in S : \A y \in S : x <= y
  BY Extremes
<1>3. R!Max(S) \in S /\ (\A y \in S : R!Max(S) >= y) /\ R!Min(S) \in S /\ (\A y \in S : R!Min(S) <= y)
  BY <1>1, <1>2 DEF R!Max, R!Min
<1>4. QED
  BY <1>3

\* The values of a measure of the candidates.
LEMMA ValuesAre ==
    ASSUME NEW S, IsFiniteSet(S), S # {}, NEW f, \A x \in S : f[x] \in Nat
    PROVE  LET V == { f[x] : x \in S }
           IN  IsFiniteSet(V) /\ V \subseteq Nat /\ V # {}
<1> DEFINE V == { f[x] : x \in S }
           g == [x \in S |-> f[x]]
<1>1. g \in Surjection(S, V)
  BY DEF Surjection
<1>2. IsFiniteSet(V)
  <2> HIDE DEF V, g
  <2>1. QED
    BY <1>1, FS_Surjection
<1>3. QED
  BY <1>2

LEMMA CandidatesAre == R!Candidates \subseteq Models /\ IsFiniteSet(R!Candidates)
<1>1. R!Candidates \subseteq Models
  BY DEF R!Candidates
<1>2. QED
  BY <1>1, RouterConstants, FS_Subset

\* How far the candidates are apart, and how far one is above the least.
PriceSpan == R!Spread(R!Price)
DelaySpan == R!Spread(R!Latency)
Dearer(m) == R!Above(R!Price, m)
Slower(m) == R!Above(R!Latency, m)

LEMMA PriceSpread ==
    ASSUME RouterInv, part = "router", NEW m \in R!Candidates
    PROVE  PriceSpan \in Nat \ {0} /\ Dearer(m) \in Int
           /\ \E low \in Nat : \A n \in Models : Dearer(n) = R!Price(n) - low
<1>1. PICK f : f = [n \in Models |-> R!Price(n)]
  OBVIOUS
<1>2. \A n \in R!Candidates : f[n] \in Nat /\ f[n] = R!Price(n)
  BY <1>1, CandidatesAre, RouterValues
<1>3. PICK S : S = { f[n] : n \in R!Candidates }
  OBVIOUS
<1>4. IsFiniteSet(S) /\ S \subseteq Nat /\ S # {}
  BY <1>2, <1>3, CandidatesAre, ValuesAre
<1>5. R!Max(S) \in Nat /\ R!Min(S) \in Nat /\ R!Max(S) >= R!Min(S)
  BY <1>4, SpreadIs
<1>6. S = { R!Price(n) : n \in R!Candidates }
  BY <1>2, <1>3
<1>7. PriceSpan = IF R!Max(S) - R!Min(S) = 0 THEN 1 ELSE R!Max(S) - R!Min(S)
  BY <1>6 DEF PriceSpan, R!Spread
<1>8. \A n : Dearer(n) = R!Price(n) - R!Min(S)
  BY <1>6 DEF Dearer, R!Above
<1>9. R!Price(m) \in Nat
  BY CandidatesAre, RouterValues
<1>10. QED
  BY <1>5, <1>7, <1>8, <1>9

LEMMA LatencySpread ==
    ASSUME RouterInv, part = "router", NEW m \in R!Candidates
    PROVE  DelaySpan \in Nat \ {0} /\ Slower(m) \in Int
           /\ \E low \in Nat : \A n \in Models : Slower(n) = R!Latency(n) - low
<1>1. PICK f : f = [n \in Models |-> R!Latency(n)]
  OBVIOUS
<1>2. \A n \in R!Candidates : f[n] \in Nat /\ f[n] = R!Latency(n)
  BY <1>1, CandidatesAre, RouterValues
<1>3. PICK S : S = { f[n] : n \in R!Candidates }
  OBVIOUS
<1>4. IsFiniteSet(S) /\ S \subseteq Nat /\ S # {}
  BY <1>2, <1>3, CandidatesAre, ValuesAre
<1>5. R!Max(S) \in Nat /\ R!Min(S) \in Nat /\ R!Max(S) >= R!Min(S)
  BY <1>4, SpreadIs
<1>6. S = { R!Latency(n) : n \in R!Candidates }
  BY <1>2, <1>3
<1>7. DelaySpan = IF R!Max(S) - R!Min(S) = 0 THEN 1 ELSE R!Max(S) - R!Min(S)
  BY <1>6 DEF DelaySpan, R!Spread
<1>8. \A n : Slower(n) = R!Latency(n) - R!Min(S)
  BY <1>6 DEF Slower, R!Above
<1>9. R!Latency(m) \in Nat
  BY CandidatesAre, RouterValues
<1>10. QED
  BY <1>5, <1>7, <1>8, <1>9

LEMMA ScoreIs ==
    ASSUME NEW p, NEW m
    PROVE  R!Score(p, m) = Weigh(R!Quality(m), Dearer(m), Slower(m),
                                 R!ModelRisk(p, m), PriceSpan, DelaySpan)
BY DEF R!Score, Weigh, PriceSpan, DelaySpan, Dearer, Slower

LEMMA ScoreType ==
    ASSUME RouterInv, part = "router", NEW p, NEW m \in R!Candidates
    PROVE  R!Score(p, m) \in Int
<1>1. /\ R!Quality(m) \in Int /\ R!ModelRisk(p, m) \in Int
      /\ PriceSpan \in Int /\ DelaySpan \in Int
      /\ Dearer(m) \in Int /\ Slower(m) \in Int
  BY CandidatesAre, RouterValues, RiskIs, PriceSpread, LatencySpread
<1>2. QED
  BY <1>1, ScoreIs, WeighType

LEMMA WholeType ==
    ASSUME RouterInv, part = "router", R!Candidates # {}
    PROVE  R!Whole \in Nat \ {0}
<1>1. PICK costs \in Nat \ {0}, delays \in Nat \ {0} : costs = PriceSpan /\ delays = DelaySpan
  BY PriceSpread, LatencySpread
<1>2. ASSUME NEW a \in Nat \ {0}, NEW b \in Nat \ {0} PROVE a * b \in Nat \ {0}
  BY <1>2
<1>3. Scale \in Nat \ {0}
  BY RouterConstants
<1>4. 10000 * Scale \in Nat \ {0}
  BY <1>3
<1>5. 10000 * Scale * costs * delays \in Nat \ {0}
  BY <1>2, <1>4
<1>6. QED
  BY <1>1, <1>5 DEF R!Whole, PriceSpan, DelaySpan

LEMMA RoutingScoreType ==
    ASSUME RouterInv, part = "router", NEW p, NEW m \in R!Candidates
    PROVE  R!RoutingScore(p, m) \in Int
<1>1. Rounding * R!Score(p, m) \in Int /\ R!Whole \in Nat \ {0}
  BY ScoreType, WholeType, RouterConstants
<1>2. QED
  BY <1>1, RoundedOrder DEF R!RoutingScore

LEMMA EdgeIs ==
    ASSUME NEW p, NEW m, NEW n
    PROVE  R!Edge(p, m, n) = Gain(R!Quality(m) - R!Quality(n), R!Price(n) - R!Price(m),
                                  R!Latency(n) - R!Latency(m), Spared(p, m, n),
                                  PriceSpan, DelaySpan)
BY DEF Gain, R!Edge, Spared, PriceSpan, DelaySpan

\* What domination is worth is the difference of the scores.
LEMMA DominationScores ==
    ASSUME RouterInv, part = "router",
           NEW p, NEW m \in R!Candidates, NEW n \in R!Candidates, R!Dominates(m, n)
    PROVE  R!Edge(p, m, n) \in Nat /\ R!Score(p, m) = R!Score(p, n) + R!Edge(p, m, n)
<1>1. m \in Models /\ n \in Models
  BY CandidatesAre
<1>2. /\ R!Quality(m) \in Int /\ R!Quality(n) \in Int /\ R!Price(m) \in Int /\ R!Price(n) \in Int
      /\ R!Latency(m) \in Int /\ R!Latency(n) \in Int
      /\ R!ModelRisk(p, m) \in Int /\ R!ModelRisk(p, n) \in Int
  BY <1>1, RouterValues, RiskIs
<1>3. PICK low \in Nat : \A x \in Models : Dearer(x) = R!Price(x) - low
  BY PriceSpread
<1>4. PICK least \in Nat : \A x \in Models : Slower(x) = R!Latency(x) - least
  BY LatencySpread
<1>5. /\ Dearer(m) \in Int /\ Dearer(n) \in Int
      /\ Slower(m) \in Int /\ Slower(n) \in Int
      /\ PriceSpan \in Nat \ {0} /\ DelaySpan \in Nat \ {0}
  BY PriceSpread, LatencySpread
<1>6. /\ R!ModelRisk(p, m) <= R!ModelRisk(p, n)
      /\ R!ModelRisk(p, n) - R!ModelRisk(p, m) = Spared(p, m, n)
  <2>1. R!Ailing(m) => R!Ailing(n)
    BY DEF R!Dominates
  <2>2. QED
    BY <2>1, RiskOrder
<1>7. /\ R!Quality(m) >= R!Quality(n)
      /\ Dearer(m) <= Dearer(n) /\ Dearer(n) - Dearer(m) = R!Price(n) - R!Price(m)
      /\ Slower(m) <= Slower(n) /\ Slower(n) - Slower(m) = R!Latency(n) - R!Latency(m)
  BY <1>1, <1>2, <1>3, <1>4 DEF R!Dominates
<1>8. PICK gain : gain = Gain(R!Quality(m) - R!Quality(n), Dearer(n) - Dearer(m),
                              Slower(n) - Slower(m), R!ModelRisk(p, n) - R!ModelRisk(p, m),
                              PriceSpan, DelaySpan)
  OBVIOUS
<1>9. gain = R!Edge(p, m, n)
  BY <1>6, <1>7, <1>8, EdgeIs
<1>10. gain \in Nat /\ R!Score(p, m) = R!Score(p, n) + gain
  <2>1. PICK q1 \in Int, q2 \in Int, c1 \in Int, c2 \in Int, l1 \in Int, l2 \in Int,
             r1 \in Int, r2 \in Int, costs \in Nat \ {0}, delays \in Nat \ {0} :
          /\ q1 = R!Quality(m) /\ c1 = Dearer(m) /\ l1 = Slower(m) /\ r1 = R!ModelRisk(p, m)
          /\ q2 = R!Quality(n) /\ c2 = Dearer(n) /\ l2 = Slower(n) /\ r2 = R!ModelRisk(p, n)
          /\ costs = PriceSpan /\ delays = DelaySpan
    BY <1>2, <1>5
  <2>2. /\ {q1, q2, c1, c2, l1, l2, r1, r2} \subseteq Int /\ {costs, delays} \subseteq Nat \ {0}
        /\ q1 >= q2 /\ c1 <= c2 /\ l1 <= l2 /\ r1 <= r2
    BY <1>6, <1>7, <2>1
  <2>3. gain = Gain(q1 - q2, c2 - c1, l2 - l1, r2 - r1, costs, delays)
    BY <1>8, <2>1
  <2>4. PICK kq \in Nat, kc \in Nat, kl \in Nat, kr \in Nat :
          FixedTimes(kq, kc, kl, kr, costs, delays)
    BY <2>2, Coefficients
  <2>5. PICK gq \in Nat, gc \in Nat, gl \in Nat, gr \in Nat :
          /\ gq = (q1 - q2) * kq /\ q1 * kq = q2 * kq + gq
          /\ gc = (c2 - c1) * kc /\ c2 * kc = c1 * kc + gc
          /\ gl = (l2 - l1) * kl /\ l2 * kl = l1 * kl + gl
          /\ gr = (r2 - r1) * kr /\ r2 * kr = r1 * kr + gr
    BY <2>2, <2>4, Apart
  <2>6. gain = gq + gc + gl + gr
    <3>1. PICK dq \in Int, dc \in Int, dl \in Int, dr \in Int :
            dq = q1 - q2 /\ dc = c2 - c1 /\ dl = l2 - l1 /\ dr = r2 - r1
      OBVIOUS
    <3>2. gain = dq * kq + dc * kc + dl * kl + dr * kr
      BY <2>3, <2>4, <3>1 DEF FixedTimes
    <3>3. QED
      BY <2>5, <3>1, <3>2
  <2>7. PICK u1 \in Int, u2 \in Int, v1 \in Int, v2 \in Int, x1 \in Int, x2 \in Int,
             y1 \in Int, y2 \in Int :
          /\ u1 = q1 * kq /\ u2 = q2 * kq /\ v1 = c1 * kc /\ v2 = c2 * kc
          /\ x1 = l1 * kl /\ x2 = l2 * kl /\ y1 = r1 * kr /\ y2 = r2 * kr
    OBVIOUS
  <2>8. /\ R!Score(p, m) = u1 - v1 - x1 - y1
        /\ R!Score(p, n) = u2 - v2 - x2 - y2
    <3>1. /\ Weigh(q1, c1, l1, r1, costs, delays) = u1 - v1 - x1 - y1
          /\ Weigh(q2, c2, l2, r2, costs, delays) = u2 - v2 - x2 - y2
      BY <2>2, <2>4, <2>7 DEF FixedTimes
    <3>2. QED
      BY <2>1, <3>1, ScoreIs
  <2>9. u1 = u2 + gq /\ v2 = v1 + gc /\ x2 = x1 + gl /\ y2 = y1 + gr
    BY <2>5, <2>7
  <2>10. QED
    BY <2>6, <2>8, <2>9
<1>11. QED
  BY <1>9, <1>10

\* So it shows in the rounded scores, unless it is less than a unit.
LEMMA DominationRanks ==
    ASSUME RouterInv, part = "router",
           NEW p, NEW m \in R!Candidates, NEW n \in R!Candidates, R!Dominates(m, n)
    PROVE  /\ R!RoutingScore(p, n) <= R!RoutingScore(p, m)
           /\ ~R!Negligible(p, m, n) => R!RoutingScore(p, n) < R!RoutingScore(p, m)
<1>1. PICK e \in Nat, a \in Int, b \in Int :
        e = R!Edge(p, m, n) /\ a = R!Score(p, n) /\ b = R!Score(p, m) /\ b = a + e
  BY DominationScores, ScoreType
<1>2. PICK whole \in Nat \ {0} : whole = R!Whole
  BY WholeType
<1>3. Rounding \in Nat
  BY RouterConstants
<1>4. PICK ra \in Int, rb \in Int, re \in Nat :
        ra = Rounding * a /\ rb = Rounding * b /\ re = Rounding * e /\ rb = ra + re
  <2>1. Rounding * (a + e) = Rounding * a + Rounding * e
    BY <1>3
  <2>2. Rounding * a \in Int /\ Rounding * e \in Nat
    BY <1>3
  <2>3. QED
    BY <1>1, <2>1, <2>2
<1>5. R!RoutingScore(p, n) = R!Rounded(ra, whole) /\ R!RoutingScore(p, m) = R!Rounded(rb, whole)
  BY <1>1, <1>2, <1>4 DEF R!RoutingScore
<1>6. ~R!Negligible(p, m, n) => ra + whole <= rb
  BY <1>1, <1>2, <1>4 DEF R!Negligible
<1>7. QED
  BY <1>4, <1>5, <1>6, RoundedOrder

------------------------------------------------------------------------------
(* The chain that a request is to try *)

\* Every model that is eligible has its place in the chain, by its score.
LEMMA RankedIs ==
    ASSUME RouterInv, part = "router", NEW p
    PROVE  /\ R!Ranked(p) \in Seq(Models)
           /\ Len(R!Ranked(p)) = Cardinality(R!Eligible(p))
           /\ \A i \in DOMAIN R!Ranked(p) : R!Ranked(p)[i] \in R!Eligible(p)
           /\ \A m \in R!Eligible(p) : \E i \in DOMAIN R!Ranked(p) : R!Ranked(p)[i] = m
           /\ \A m \in R!Eligible(p), i \in DOMAIN R!Ranked(p) :
                R!Before(p, m, R!Ranked(p)[i]) => \E j \in 1..i - 1 : R!Ranked(p)[j] = m
<1>1. PICK S : S = R!Eligible(p)
  OBVIOUS
<1>2. S \subseteq R!Candidates
  BY <1>1 DEF R!Eligible
<1>3. IsFiniteSet(S) /\ Cardinality(S) \in Nat
  BY <1>2, CandidatesAre, FS_Subset, FS_CardinalityType
<1>4. PICK f : f = [m \in S |-> R!RoutingScore(p, m)]
  OBVIOUS
<1>5. \A x \in S : x \in Nat /\ f[x] \in Int /\ f[x] = R!RoutingScore(p, x)
  BY <1>2, <1>4, CandidatesAre, RoutingScoreType, RouterConstants
<1>6. ASSUME NEW m \in S
      PROVE  R!Cardinality({ n \in R!Eligible(p) : R!Before(p, n, m) }) + 1 = PlaceIn(f, S, m)
  <2>1. { n \in R!Eligible(p) : R!Before(p, n, m) } = Leading(f, S, m)
    BY <1>1, <1>5 DEF R!Before, Leading, Ahead
  <2>2. QED
    BY <2>1, CountOf DEF PlaceIn
<1>7. /\ \A m \in S : PlaceIn(f, S, m) \in 1..Cardinality(S)
      /\ \A i \in 1..Cardinality(S) : \E m \in S : PlaceIn(f, S, m) = i
      /\ \A m \in S, n \in S : PlaceIn(f, S, m) = PlaceIn(f, S, n) => m = n
  BY <1>3, <1>5, EveryPlaceIsTaken
<1>8. R!Ranked(p) = [i \in 1..Cardinality(S) |-> CHOOSE m \in S : PlaceIn(f, S, m) = i]
  <2>1. R!Ranked(p) =
          [i \in 1..R!Cardinality(R!Eligible(p)) |-> CHOOSE m \in R!Eligible(p) :
             R!Cardinality({ n \in R!Eligible(p) : R!Before(p, n, m) }) + 1 = i]
    BY DEF R!Ranked
  <2>2. ASSUME NEW i
        PROVE  (CHOOSE m \in R!Eligible(p) :
                  R!Cardinality({ n \in R!Eligible(p) : R!Before(p, n, m) }) + 1 = i)
               = CHOOSE m \in S : PlaceIn(f, S, m) = i
    BY <1>1, <1>6
  <2>3. R!Cardinality(R!Eligible(p)) = Cardinality(S)
    BY <1>1, CountOf
  <2>4. QED
    BY <2>1, <2>2, <2>3
<1>9. PICK c : c = R!Ranked(p)
  OBVIOUS
<1>10. /\ DOMAIN c = 1..Cardinality(S)
       /\ \A i \in 1..Cardinality(S) : c[i] \in S /\ PlaceIn(f, S, c[i]) = i
  BY <1>7, <1>8, <1>9
<1>11. c \in Seq(Models) /\ Len(c) = Cardinality(S)
  <2>1. c = [i \in 1..Cardinality(S) |-> c[i]]
    BY <1>8, <1>9
  <2>2. c \in [1..Cardinality(S) -> Models]
    BY <1>2, <1>10, <2>1, CandidatesAre
  <2>3. QED
    BY <1>3, <2>2, SeqDef
<1>12. \A m \in S : \E i \in DOMAIN c : c[i] = m
  <2> SUFFICES ASSUME NEW m \in S PROVE \E i \in DOMAIN c : c[i] = m
    OBVIOUS
  <2>1. PICK i \in 1..Cardinality(S) : i = PlaceIn(f, S, m)
    BY <1>7
  <2>2. c[i] = m
    BY <1>7, <1>10, <2>1
  <2>3. QED
    BY <1>10, <2>2
<1>13. ASSUME NEW m \in S, NEW i \in DOMAIN c, R!Before(p, m, c[i])
       PROVE  \E j \in 1..i - 1 : c[j] = m
  <2>1. PICK n \in S : n = c[i] /\ PlaceIn(f, S, n) = i /\ i \in Nat
    BY <1>10
  <2>2. Ahead(f, m, n)
    BY <1>5, <1>13, <2>1 DEF R!Before, Ahead
  <2>3. PICK j \in 1..Cardinality(S) : j = PlaceIn(f, S, m)
    BY <1>7
  <2>4. j < i
    BY <1>3, <1>5, <2>1, <2>2, <2>3, PlacesFall
  <2>5. c[j] = m
    BY <1>7, <1>10, <2>3
  <2>6. QED
    BY <2>1, <2>3, <2>4, <2>5
<1>14. QED
  BY <1>1, <1>9, <1>10, <1>11, <1>12, <1>13

\* What the chain of a request holds is good enough for it, and the best comes first.
LEMMA RouteIsWell ==
    ASSUME RouterInv, part = "router", NEW p \in Prompts
    PROVE  R!RoutedWell(p)
<1> SUFFICES ASSUME R!Route(p)
             PROVE  /\ \A m \in Models, i \in DOMAIN chain' :
                         R!Dominates(m, chain'[i]) =>
                           \/ R!Status(m) = "down" \/ R!Tokens(p) > Profiles[m].window
                           \/ \E j \in 1..i - 1 : chain'[j] = m
                           \/ chain'[i] < m /\ R!Negligible(p, m, chain'[i])
                    /\ p.high \/ p.override =>
                         \A i \in DOMAIN chain' : 100 * R!Quality(chain'[i]) >= 85 * Scale
                    /\ \A m \in Models :
                         R!Status(m) # "down" /\ R!Tokens(p) <= Profiles[m].window
                           /\ R!Quality(m) = Scale
                           => \E i \in DOMAIN chain' : chain'[i] = m
  BY DEF R!RoutedWell
<1>1. chain' = R!Ranked(p) /\ R!Eligible(p) # {}
  BY DEF R!Route
<1>2. p \in R!Prompt /\ Scale \in Nat
  BY RouterConstants
<1>3. /\ R!Tokens(p) \in Int
      /\ \A m \in Models : Profiles[m].window \in Nat
  <2>1. p.words \in Nat /\ p.context \in Nat
    BY <1>2 DEF R!Prompt
  <2>2. R!Tokens(p) \in Int
    BY <2>1 DEF R!Tokens
  <2>3. QED
    BY <2>2, RouterConstants DEF R!Profile
<1>4. PICK floor \in Nat : floor = R!Floor(p) /\ floor <= 100
                           /\ (p.high = TRUE \/ p.override = TRUE => floor >= 85)
  BY FloorIs
<1>5. R!Eligible(p) \subseteq R!Candidates /\ R!Candidates \subseteq Models
  BY CandidatesAre DEF R!Eligible
<1>6. \A m \in R!Eligible(p) : 100 * R!Quality(m) >= floor * Scale
  BY <1>4 DEF R!Eligible
<1>7. ASSUME NEW m \in Models, R!Status(m) # "down", ~(R!Tokens(p) > Profiles[m].window),
             100 * R!Quality(m) >= floor * Scale
      PROVE  m \in R!Eligible(p)
  <2>1. registry[m] # "down"
    BY <1>7, RouterValues
  <2>2. R!Tokens(p) <= Profiles[m].window
    BY <1>3, <1>7
  <2>3. QED
    BY <1>4, <1>7, <2>1, <2>2 DEF R!Eligible, R!Candidates
<1>8. ASSUME NEW m \in Models, NEW i \in DOMAIN chain', R!Dominates(m, chain'[i])
      PROVE  \/ R!Status(m) = "down" \/ R!Tokens(p) > Profiles[m].window
             \/ \E j \in 1..i - 1 : chain'[j] = m
             \/ chain'[i] < m /\ R!Negligible(p, m, chain'[i])
  <2> SUFFICES ASSUME R!Status(m) # "down", ~(R!Tokens(p) > Profiles[m].window),
                      ~\E j \in 1..i - 1 : chain'[j] = m
               PROVE  chain'[i] < m /\ R!Negligible(p, m, chain'[i])
    OBVIOUS
  <2>1. PICK h \in R!Eligible(p) : h = chain'[i]
    BY <1>1, RankedIs
  <2>2. R!Dominates(m, h)
    BY <1>8, <2>1
  <2>3. R!Quality(m) >= R!Quality(h) /\ R!Quality(m) \in Nat /\ R!Quality(h) \in Nat
    BY <1>5, <2>2, RouterValues DEF R!Dominates
  <2>4. 100 * R!Quality(m) >= floor * Scale
    <3>1. PICK bar \in Int : bar = floor * Scale
      BY <1>2
    <3>2. QED
      BY <1>6, <2>3, <3>1
  <2>5. m \in R!Eligible(p)
    BY <1>7, <2>4
  <2>6. ~R!Before(p, m, h)
    BY <1>1, <2>1, <2>5, RankedIs
  <2>7. /\ R!RoutingScore(p, h) <= R!RoutingScore(p, m)
        /\ ~R!Negligible(p, m, h) => R!RoutingScore(p, h) < R!RoutingScore(p, m)
        /\ R!RoutingScore(p, h) \in Int /\ R!RoutingScore(p, m) \in Int
    BY <1>5, <2>2, <2>5, DominationRanks, RoutingScoreType
  <2>8. m \in Nat /\ h \in Nat /\ m # h
    <3>1. R!Price(m) \in Nat /\ R!Latency(m) \in Nat
      BY RouterValues
    <3>2. m # h
      BY <2>2, <2>3, <3>1 DEF R!Dominates
    <3>3. QED
      BY <1>5, <3>2, RouterConstants
  <2>9. QED
    BY <2>1, <2>6, <2>7, <2>8 DEF R!Before
<1>9. ASSUME p.high \/ p.override, NEW i \in DOMAIN chain'
      PROVE  100 * R!Quality(chain'[i]) >= 85 * Scale
  <2>1. p.high \in BOOLEAN /\ p.override \in BOOLEAN
    BY <1>2 DEF R!Prompt
  <2>2. floor >= 85
    BY <1>4, <1>9, <2>1
  <2>3. chain'[i] \in R!Eligible(p)
    BY <1>1, <1>9, RankedIs
  <2>4. PICK q \in Nat : q = R!Quality(chain'[i]) /\ 100 * q >= floor * Scale
    BY <1>5, <1>6, <2>3, RouterValues
  <2>5. floor * Scale >= 85 * Scale
    BY <1>2, <2>2, Times
  <2>6. QED
    BY <1>2, <2>4, <2>5
<1>10. ASSUME NEW m \in Models, R!Status(m) # "down", R!Tokens(p) <= Profiles[m].window,
              R!Quality(m) = Scale
       PROVE  \E i \in DOMAIN chain' : chain'[i] = m
  <2>1. 100 * Scale >= floor * Scale
    BY <1>2, <1>4, Times
  <2>2. m \in R!Eligible(p)
    BY <1>3, <1>7, <1>10, <2>1
  <2>3. QED
    BY <1>1, <2>2, RankedIs
<1>11. QED
  BY <1>8, <1>9, <1>10

------------------------------------------------------------------------------
(* The router's state *)

\* The histories, one of them with a new first entry, and no longer than the window.
LEMMA HistoryType ==
    ASSUME history \in [Models -> Seq(R!Sample)], NEW m \in Models, NEW s \in R!Sample,
           \A x \in Models : Len(history[x]) <= Depth, R!Recorded(m, s)
    PROVE  /\ history' \in [Models -> Seq(R!Sample)]
           /\ \A x \in Models : Len(history'[x]) <= Depth
<1>1. PICK h \in Seq(R!Sample) : h = history[m]
  OBVIOUS
<1>2. Len(h) \in Nat /\ Depth \in Nat
  BY RouterConstants
<1>3. <<s>> \o h \in Seq(R!Sample) /\ Len(<<s>> \o h) = Len(h) + 1
  BY ConcatProperties
<1>4. PICK n \in Nat : n = R!Min({Depth, Len(h) + 1}) /\ n <= Depth /\ n <= Len(h) + 1
  BY <1>2, Lesser
<1>5. PICK t : t = SubSeq(<<s>> \o h, 1, n)
  OBVIOUS
<1>6. t \in Seq(R!Sample) /\ Len(t) = n
  <2>1. PICK longer \in Seq(R!Sample) : longer = <<s>> \o h /\ Len(longer) = Len(h) + 1
    BY <1>3
  <2>2. \A i \in 1..n : longer[i] \in R!Sample
    BY <1>2, <1>4, <2>1
  <2>3. /\ SubSeq(longer, 1, n) \in Seq(R!Sample)
        /\ Len(SubSeq(longer, 1, n)) = IF 1 <= n THEN n - 1 + 1 ELSE 0
    BY <2>2, SubSeqProperties
  <2>4. t = SubSeq(longer, 1, n)
    BY <1>5, <2>1
  <2>5. t \in Seq(R!Sample) /\ Len(t) = IF 1 <= n THEN n - 1 + 1 ELSE 0
    BY <2>3, <2>4, Zenon
  <2>6. QED
    BY <2>5
<1>7. history' = [history EXCEPT ![m] = t]
  BY <1>1, <1>4, <1>5 DEF R!Recorded
<1>8. QED
  BY <1>4, <1>6, <1>7

\* A trace with an evaluation, or an hour older.
LEMMA EvaluatedType ==
    ASSUME RouterInv, part = "router", NEW m \in Models, NEW score \in Scores,
           NEW i \in DOMAIN history[m], R!Evaluate(m, i, score)
    PROVE  /\ history' \in [Models -> Seq(R!Sample)]
           /\ \A x \in Models : Len(history'[x]) <= Depth
<1>1. /\ history \in [Models -> Seq(R!Sample)]
      /\ \A x \in Models : Len(history[x]) <= Depth
  BY DEF RouterInv, R!TypeOK
<1>2. PICK h \in Seq(R!Sample) : h = history[m] /\ Len(h) <= Depth
  BY <1>1
<1>3. i \in 1..Len(h) /\ h[i] \in R!Sample
  BY <1>2
<1>4. PICK s \in R!Sample : s = [h[i] EXCEPT !.quality = score]
  BY <1>3 DEF R!Sample
<1>5. PICK t : t = [h EXCEPT ![i] = s]
  OBVIOUS
<1>6. t \in Seq(R!Sample) /\ Len(t) = Len(h)
  BY <1>3, <1>5
<1>7. history' = [history EXCEPT ![m] = t]
  BY <1>1, <1>2, <1>3, <1>4, <1>5 DEF R!Evaluate
<1>8. QED
  BY <1>1, <1>2, <1>6, <1>7

LEMMA AgedType ==
    ASSUME RouterInv, part = "router", R!Tick
    PROVE  /\ history' \in [Models -> Seq(R!Sample)]
           /\ \A x \in Models : Len(history'[x]) <= Depth
<1>1. /\ history \in [Models -> Seq(R!Sample)]
      /\ \A x \in Models : Len(history[x]) <= Depth
  BY DEF RouterInv, R!TypeOK
<1>2. ASSUME NEW s \in R!Sample PROVE R!Older(s) \in R!Sample
  <2>1. s.age \in Nat /\ Hour \in Nat
    BY RouterConstants DEF R!Sample
  <2>2. PICK age \in 0..Hour + 1 : age = R!Min({Hour + 1, s.age + 1})
    BY <2>1, Lesser
  <2>3. R!Older(s) = [s EXCEPT !.age = age]
    BY <2>2 DEF R!Older
  <2>4. QED
    BY <2>3 DEF R!Sample
<1>3. ASSUME NEW m \in Models
      PROVE  history'[m] \in Seq(R!Sample) /\ Len(history'[m]) <= Depth
  <2>1. PICK h \in Seq(R!Sample) : h = history[m] /\ Len(h) <= Depth
    BY <1>1
  <2>2. history'[m] = [i \in DOMAIN h |-> R!Older(h[i])]
    BY <2>1 DEF R!Tick
  <2>3. DOMAIN h = 1..Len(h) /\ Len(h) \in Nat /\ \A i \in DOMAIN h : h[i] \in R!Sample
    BY <2>1
  <2>4. history'[m] \in [1..Len(h) -> R!Sample]
    BY <1>2, <2>2, <2>3
  <2>5. history'[m] \in Seq(R!Sample)
    BY <2>3, <2>4, SeqDef
  <2>6. Len(history'[m]) = Len(h)
    BY <2>3, <2>4, <2>5
  <2>7. QED
    BY <2>1, <2>5, <2>6
<1>4. DOMAIN history' = Models /\ history' = [m \in Models |-> history'[m]]
  BY DEF R!Tick
<1>5. QED
  BY <1>3, <1>4

LEMMA RouterInit == HealthInit => RouterInv
<1> SUFFICES ASSUME HealthInit, part = "router"
             PROVE  R!TypeOK /\ history \in [Models -> Seq(R!Sample)]
  BY DEF RouterInv
<1>1. R!Init
  BY DEF HealthInit
<1>2. registry \in [Models -> R!Health]
  BY <1>1, RouterConstants DEF R!Init, R!Profile
<1>3. /\ history \in [Models -> Seq(R!Sample)] /\ chain \in Seq(Models)
      /\ \A m \in Models : Len(history[m]) <= Depth
  BY <1>1, RouterConstants DEF R!Init
<1>4. QED
  BY <1>2, <1>3 DEF R!TypeOK

LEMMA RouterStep == RouterInv /\ [HealthNext]_healthVars => RouterInv'
<1> SUFFICES ASSUME RouterInv, [HealthNext]_healthVars, part' = "router"
             PROVE  R!TypeOK' /\ (history \in [Models -> Seq(R!Sample)])'
  BY DEF RouterInv
<1>1. CASE UNCHANGED healthVars
  <2>1. R!TypeOK /\ history \in [Models -> Seq(R!Sample)] /\ UNCHANGED << registry, history, chain >>
    BY <1>1 DEF RouterInv, healthVars, routerVars
  <2>2. QED
    BY <2>1 DEF R!TypeOK
<1>2. CASE HealthNext
  <2>1. part = "router" /\ R!Next
    BY <1>2 DEF HealthNext, InRegistry, InRouter
  <2>2. /\ history \in [Models -> Seq(R!Sample)] /\ \A m \in Models : Len(history[m]) <= Depth
        /\ registry \in [Models -> R!Health] /\ chain \in Seq(Models)
    BY <2>1 DEF RouterInv, R!TypeOK
  <2>3. ASSUME history' \in [Models -> Seq(R!Sample)],
               \A m \in Models : Len(history'[m]) <= Depth,
               registry' \in [Models -> R!Health], chain' \in Seq(Models)
        PROVE  R!TypeOK' /\ (history \in [Models -> Seq(R!Sample)])'
    BY <2>3 DEF R!TypeOK
  <2>4. ASSUME NEW p \in Prompts, R!Route(p) \/ R!Refuse(p)
        PROVE  chain' \in Seq(Models) /\ UNCHANGED << registry, history >>
    BY <2>1, <2>2, <2>4, RankedIs DEF R!Route, R!Refuse, R!vars
  <2>5. ASSUME NEW ok \in BOOLEAN, NEW latency \in Latencies
        PROVE  [ok |-> ok, quality |-> NoScore, latency |-> latency, age |-> 0] \in R!Sample
    BY RouterConstants DEF R!Sample
  <2>6. ASSUME NEW latency \in Latencies, R!FailAll(latency)
        PROVE  /\ history' \in [Models -> Seq(R!Sample)] /\ chain' = <<>> /\ UNCHANGED registry
               /\ \A m \in Models : Len(history'[m]) <= Depth
    <3>1. Head(chain) \in Models
      BY <2>2, <2>6 DEF R!FailAll
    <3>2. QED
      BY <2>2, <2>5, <2>6, <3>1, HistoryType DEF R!FailAll
  <2>7. ASSUME NEW latency \in Latencies, NEW m \in Models, R!Answer(m, latency)
        PROVE  /\ history' \in [Models -> Seq(R!Sample)] /\ chain' = <<>> /\ UNCHANGED registry
               /\ \A x \in Models : Len(history'[x]) <= Depth
    BY <2>2, <2>5, <2>7, HistoryType DEF R!Answer
  <2>8. ASSUME NEW latency \in Latencies, NEW m \in Models, NEW ok \in BOOLEAN,
               R!CallByName(m, ok, latency)
        PROVE  /\ history' \in [Models -> Seq(R!Sample)] /\ UNCHANGED << registry, chain >>
               /\ \A x \in Models : Len(history'[x]) <= Depth
    BY <2>2, <2>5, <2>8, HistoryType DEF R!CallByName
  <2>9. ASSUME NEW m \in Models, NEW score \in Scores, NEW i \in DOMAIN history[m],
               R!Evaluate(m, i, score)
        PROVE  /\ history' \in [Models -> Seq(R!Sample)] /\ UNCHANGED << registry, chain >>
               /\ \A x \in Models : Len(history'[x]) <= Depth
    <3>1. UNCHANGED << registry, chain >>
      BY <2>9 DEF R!Evaluate
    <3>2. QED
      BY <2>1, <2>9, <3>1, EvaluatedType
  <2>10. ASSUME NEW m \in Models, NEW health \in R!Health, R!SetHealth(m, health)
         PROVE  registry' \in [Models -> R!Health] /\ UNCHANGED << history, chain >>
    BY <2>2, <2>10 DEF R!SetHealth
  <2>11. CASE R!Tick
    <3>1. UNCHANGED << registry, chain >>
      BY <2>11 DEF R!Tick
    <3>2. QED
      BY <2>1, <2>2, <2>3, <2>11, <3>1, AgedType
  <2>12. <<>> \in Seq(Models)
    OBVIOUS
  <2>13. QED
    BY <2>1, <2>2, <2>3, <2>4, <2>6, <2>7, <2>8, <2>9, <2>10, <2>11, <2>12 DEF R!Next
<1>3. QED
  BY <1>1, <1>2

\* Whatever the weights: no model is tried before one that beats it in everything the
\* router weighs, unless rounding to the score's last decimal hides the difference.
THEOREM NobodyIsDominated == HealthSpec => NeverDominated
<1>1. RouterInv /\ [HealthNext]_healthVars
        => [part = "router" => \A p \in Prompts : R!RoutedWell(p)]_healthVars
  BY RouteIsWell
<1>2. QED
  BY <1>1, RouterInit, RouterStep, PTL DEF HealthSpec, NeverDominated

==============================================================================
