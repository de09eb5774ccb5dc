------------------------------ MODULE BudgetGuard ------------------------------
(***************************************************************************)
(* The daily budget of one application, enforced when /generate admits a   *)
(* request (services/budget.py): every replica caches the application's    *)
(* registration, per name it is called by, and its spend over the day, for *)
(* a short time.                                                           *)
(*                                                                         *)
(* The handlers of a replica are coroutines: between two awaits one runs   *)
(* alone, and it awaits the database.  So a query and the filling of the   *)
(* cache with its result are two steps, and between them the database and  *)
(* the cache may change.                                                   *)
(***************************************************************************)
EXTENDS Integers, Sequences, FiniteSetsExt

CONSTANTS
    Replicas,
    Requests,       \* requests to /generate, or for the budget's status
    Names,          \* the application's id and its name
    NoBudget,       \* no budget is set, or there is no such application
    Rules,          \* the budgets and actions an operator may set
    Costs,          \* what a request may cost
    TTL,            \* budget_cache_seconds (0 turns the caches off)
    Window,         \* BUDGET_WINDOW
    MaxChanges,     \* bound on the changes operators make
    MaxTime         \* bound on the clock

Actions == {"alert", "downgrade", "block"}
Unset == [budget |-> NoBudget, action |-> "alert"]

ASSUME BudgetAssumption ==
    /\ IsFiniteSet(Requests)
    /\ NoBudget \notin Nat
    /\ Rules \subseteq [budget : Nat \cup {NoBudget}, action : Actions]
    /\ Costs \subseteq Nat
    /\ TTL \in Nat \ {0}
    /\ Window \in Nat
    /\ MaxChanges \in Nat
    /\ MaxTime \in Nat

VARIABLES
    now,
    rules,          \* every rule the application had, with the time it was set
    registrations,  \* per replica and name: the cached rule and its expiry
    spends,         \* per replica: the cached spend and its expiry
    requests

vars == << now, rules, registrations, spends, requests >>

Steps == {"new", "lookup", "found", "sum", "summed", "admitted", "refused", "done"}
Outcomes == {"none", "free", "within", "downgraded", "refused"}

\* asked: the time a cache was missed.  consulted: the time the spend was asked
\* for, of the cache or the database.  at, cost: those of the trace, once done.
NewRequest(r, n) ==
    [ step |-> "new", kind |-> "generate", replica |-> r, name |-> n, arrived |-> 0,
      asked |-> 0, consulted |-> 0, decided |-> 0, at |-> 0, cost |-> 0,
      rule |-> Unset, spent |-> 0, outcome |-> "none" ]

\* What is left of a request that is over: its trace.
Recorded(req, at, cost) ==
    [NewRequest(req.replica, req.name) EXCEPT !.step = "done", !.at = at, !.cost = cost]

TypeOK ==
    /\ now \in 0..MaxTime
    /\ rules \in Seq([at : 0..MaxTime, rule : Rules \cup {Unset}])
    /\ registrations \in
         [Replicas -> [Names -> [expires : 0..(MaxTime + TTL), rule : Rules \cup {Unset}]]]
    /\ spends \in [Replicas -> [expires : 0..(MaxTime + TTL), spent : Nat]]
    /\ \A q \in Requests :
         /\ requests[q].step \in Steps
         /\ requests[q].outcome \in Outcomes
         /\ requests[q].rule \in Rules \cup {Unset}

Init ==
    /\ now = 0
    /\ \E rule \in Rules \cup {Unset} : rules = << [at |-> 0, rule |-> rule] >>
    /\ registrations = [r \in Replicas |-> [n \in Names |-> [expires |-> 0, rule |-> Unset]]]
    /\ spends = [r \in Replicas |-> [expires |-> 0, spent |-> 0]]
    /\ requests \in [Requests -> { NewRequest(r, n) : r \in Replicas, n \in Names }]

------------------------------------------------------------------------------
(* What is in the database *)

Rule == rules[Len(rules)].rule

\* Mutant: only the traces recorded under one of the names.
CountedMutant(q, asked) ==
    /\ requests[q].step = "done"
    /\ requests[q].at >= asked - Window
    /\ requests[q].name = CHOOSE n \in Names : TRUE

\* Their estimated_cost, added up.
Total(these) == MapThenSumSet(LAMBDA q : requests[q].cost, these)

\* Traces of the last day, under the application's id or name.  The day ends when
\* the query is made, whenever it is executed.
Counted(q, asked) ==
    /\ requests[q].step = "done"
    /\ requests[q].at >= asked - Window

Spent(asked) == Total({ q \in Requests : Counted(q, asked) })

------------------------------------------------------------------------------
(* enforced_budget *)

Fresh(entry) == entry.expires > now

\* Mutant: the entry's time to live begins when it is written.
ExpiryMutant(asked) == now + TTL

\* It begins before the query that fills it.
Expiry(asked) == asked + TTL

Enforced(rule) == rule.budget # NoBudget /\ rule.action # "alert"

\* exceeded, and what generate() makes of it.
Decision(rule, spent) ==
    CASE spent < rule.budget         -> "within"
      [] spent >= rule.budget /\ rule.action = "block"
                                     -> "refused"
      [] OTHER                       -> "downgraded"

Decided(req, outcome) ==
    [req EXCEPT !.step = IF outcome = "refused" THEN "refused" ELSE "admitted",
                !.outcome = outcome, !.decided = now, !.asked = 0, !.spent = 0]

\* With the rule at hand: nothing to enforce, or compare with the spend.
Registered(req, rule) ==
    LET known == [req EXCEPT !.rule = rule, !.consulted = now]
        spend == spends[req.replica]
    IN  CASE ~Enforced(rule) -> Decided(known, "free")
          [] Enforced(rule) /\ Fresh(spend)
                             -> Decided(known, Decision(rule, spend.spent))
          [] OTHER           -> [known EXCEPT !.step = "sum", !.asked = now]

Arrive(q) ==
    LET req == [requests[q] EXCEPT !.arrived = now]
        entry == registrations[req.replica][req.name]
    IN  /\ req.step = "new"
        /\ requests' = [requests EXCEPT ![q] =
             IF Fresh(entry) THEN Registered(req, entry.rule)
                             ELSE [req EXCEPT !.step = "lookup", !.asked = now]]
        /\ UNCHANGED <<now, rules, registrations, spends>>

QueryRule(q) ==
    /\ requests[q].step = "lookup"
    /\ requests' = [requests EXCEPT ![q].step = "found", ![q].rule = Rule]
    /\ UNCHANGED <<now, rules, registrations, spends>>

\* The entry of the cache, and on to the spend without another await.
KeepRule(q) ==
    LET req == requests[q]
    IN  /\ req.step = "found"
        /\ registrations' = [registrations EXCEPT ![req.replica][req.name] =
             [expires |-> Expiry(req.asked), rule |-> req.rule]]
        /\ requests' = [requests EXCEPT ![q] = Registered(req, req.rule)]
        /\ UNCHANGED <<now, rules, spends>>

QuerySpend(q) ==
    /\ requests[q].step = "sum"
    /\ requests' = [requests EXCEPT ![q].step = "summed",
                                   ![q].spent = Spent(requests[q].asked)]
    /\ UNCHANGED <<now, rules, registrations, spends>>

KeepSpend(q) ==
    LET req == requests[q]
    IN  /\ req.step = "summed"
        /\ spends' = [spends EXCEPT ![req.replica] =
             [expires |-> Expiry(req.asked), spent |-> req.spent]]
        /\ requests' = [requests EXCEPT ![q] =
             IF req.kind = "status" THEN Recorded(req, 0, 0)
             ELSE Decided(req, Decision(req.rule, req.spent))]
        /\ UNCHANGED <<now, rules, registrations>>

------------------------------------------------------------------------------
(* The rest of the system *)

\* The request is answered and its trace committed.
Answer(q) ==
    /\ requests[q].step = "admitted"
    /\ \E cost \in Costs : requests' = [requests EXCEPT ![q] = Recorded(@, now, cost)]
    /\ UNCHANGED <<now, rules, registrations, spends>>

\* GET /applications/{id}/budget asks the database, and refreshes the cache.
AskStatus(q) ==
    /\ requests[q].step = "new"
    /\ requests' = [requests EXCEPT ![q].step = "sum", ![q].kind = "status", ![q].asked = now]
    /\ UNCHANGED <<now, rules, registrations, spends>>

\* PATCH /applications/{id}
SetRule(rule) ==
    /\ Len(rules) <= MaxChanges
    /\ rule # Rule
    /\ rules' = Append(rules, [at |-> now, rule |-> rule])
    /\ UNCHANGED <<now, registrations, spends, requests>>

Tick ==
    /\ now < MaxTime
    /\ now' = now + 1
    /\ UNCHANGED <<rules, registrations, spends, requests>>

Admission(q) == Arrive(q) \/ QueryRule(q) \/ KeepRule(q) \/ QuerySpend(q) \/ KeepSpend(q)

Next ==
    \/ \E q \in Requests : Admission(q) \/ Answer(q) \/ AskStatus(q)
    \/ \E rule \in Rules : SetRule(rule)
    \/ Tick

Spec == Init /\ [][Next]_vars

------------------------------------------------------------------------------
(* Properties *)

SpentBetween(first, last) ==
    Total({ q \in Requests : requests[q].step = "done" /\ requests[q].at \in first..last })

\* A budget is overshot by no more than what is spent in one time to live of the
\* caches, however its replicas' queries and cache fills interleave: what was
\* spent by then is within the budget of a request that is admitted
\* (services/budget.py:13-17).
OvershootBounded ==
    \A q \in Requests :
        LET req == requests[q]
        IN  req.outcome = "within" =>
              SpentBetween(req.decided - Window, req.consulted - TTL) < req.rule.budget

\* A request is refused or downgraded for money that was spent within the day, or
\* within a time to live more than a day (budget.py:9-11).
RefusedForCause ==
    \A q \in Requests :
        LET req == requests[q]
        IN  req.outcome \in {"refused", "downgraded"} =>
              SpentBetween(req.consulted - TTL + 1 - Window, req.decided) >= req.rule.budget

\* What the guard decides is about what was spent, both ways.
SpendIsRespected == OvershootBounded /\ RefusedForCause

\* The rule a request is judged by was the application's within the last time to
\* live, so a budget that is set, raised or dropped takes effect by then.
RuleInForce ==
    \A q \in Requests :
        LET req == requests[q]
        IN  req.outcome # "none" =>
              \E i \in DOMAIN rules :
                 /\ rules[i].rule = req.rule
                 /\ rules[i].at <= req.decided
                 /\ i < Len(rules) => rules[i + 1].at > req.arrived - TTL

==============================================================================
