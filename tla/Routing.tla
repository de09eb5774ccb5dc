------------------------------- MODULE Routing -------------------------------
(***************************************************************************)
(* The router (routing/router.py, complexity.py) and the statistics it     *)
(* routes by (routing/stats.py): what recent traces say of a model, in     *)
(* addition to its status in the registry, decides whether it is eligible  *)
(* and how it scores, and where a request goes decides which traces there  *)
(* are.                                                                    *)
(***************************************************************************)
EXTENDS Integers, Sequences, FiniteSetsExt

CONSTANTS
    Models,         \* the candidates, 1..n, in the order they are listed
    Profiles,       \* their registry rows: quality_tier, latency prior, blended
                    \* price, context window, status at the start
    Preferred,      \* models that callers name themselves, past the router
    Prompts,        \* prompts as the classifiers see them
    Scale,          \* a quality of 1; predictions are rounded to whole numbers
    Rounding,       \* a score of 1, rounded (10000: four decimals)
    Scores,         \* overall qualities
    Latencies,
    NoScore,
    Weights,        \* the four router weights, in percent
    Window,         \* traces a model is judged by (200)
    MinSamples,     \* _MIN_SAMPLES_FOR_TRUST
    Hour            \* _HEALTH_WINDOW, in ticks

Health == {"healthy", "degraded", "down"}
Profile == [quality : 0..Scale, latency : Nat, price : Nat, window : Nat, status : Health]
Prompt == [words : Nat, cue : BOOLEAN, parts : BOOLEAN, context : Nat, high : BOOLEAN,
           override : BOOLEAN]
WeightNames == {"quality", "cost", "latency", "risk"}

\* Of the constants; assumed by the module that instantiates this one.
RoutingAssumption ==
    /\ Models \subseteq Nat \ {0} /\ IsFiniteSet(Models)
    /\ Profiles \in [Models -> Profile]
    /\ Preferred \subseteq Models
    /\ Prompts \subseteq Prompt
    /\ {Scale, Rounding} \subseteq Nat \ {0}
    /\ Scores \subseteq 0..Scale /\ NoScore \notin Scores
    /\ Latencies \subseteq Nat
    /\ Weights \in [WeightNames -> Nat]
    /\ {Window, MinSamples, Hour} \subseteq Nat \ {0}

VARIABLES
    registry,   \* per model: its status, as ModelHealth keeps it
    history,    \* per model: its traces, newest first
    chain       \* the models a request is about to try, in order

vars == << registry, history, chain >>

\* age: in ticks; an hour and everything older are alike.
Sample == [ok : BOOLEAN, quality : Scores \cup {NoScore}, latency : Latencies, age : 0..Hour + 1]

TypeOK ==
    /\ registry \in [Models -> Health]
    /\ \A m \in Models : history[m] \in Seq(Sample) /\ Len(history[m]) <= Window
    /\ chain \in Seq(Models)

Init ==
    /\ registry = [m \in Models |-> Profiles[m].status]
    /\ history = [m \in Models |-> <<>>]
    /\ chain = <<>>

------------------------------------------------------------------------------
(* complexity.py *)

Complexity(p) ==
    IF p.words > 120 \/ (p.cue /\ p.words > 25) \/ p.context > 6000 THEN "complex"
    ELSE IF p.words > 30 \/ p.cue \/ p.parts \/ p.context > 1500 THEN "medium"
    ELSE "simple"

\* In percent.  A caller may declare a request risky.
Risk(p) == IF p.override THEN 90 ELSE IF p.high THEN 85 ELSE 10

ComplexityFloor == [simple |-> 0, medium |-> 45, complex |-> 80]

Floor(p) == Max({ComplexityFloor[Complexity(p)], IF Risk(p) >= 80 THEN 85 ELSE 0})

\* int(1.4 tokens per word)
Tokens(p) == (14 * (p.words + p.context)) \div 10

------------------------------------------------------------------------------
(* DBModelStatsProvider *)

Samples(m, Is(_)) == { i \in DOMAIN history[m] : Is(history[m][i]) }

Count(m) == Len(history[m])
SumOf(m, I, field) == MapThenSumSet(LAMBDA i : history[m][i][field], I)

\* a / b to the nearest whole number.
Rounded(a, b) == (2 * a + b) \div (2 * b)

\* The observed quality gains trust with the number of traces, up to four times
\* the minimum.
Quality(m) ==
    LET prior == Profiles[m].quality
        scored == Samples(m, LAMBDA s : s.quality # NoScore)
        n == Cardinality(scored)
        full == 4 * MinSamples
        trust == Min({full, Count(m)})
    IN  IF n = 0 \/ Count(m) < MinSamples THEN prior
        ELSE Rounded(SumOf(m, scored, "quality") * trust + prior * (full - trust) * n, full * n)

Latency(m) ==
    IF Count(m) = 0 THEN Profiles[m].latency
    ELSE Rounded(SumOf(m, DOMAIN history[m], "latency"), Count(m))

\* The traces of the last hour.
Recent(m) == Samples(m, LAMBDA s : s.age <= Hour)

\* Fewer than half of the recent requests succeeded: down; fewer than 85 percent:
\* degraded.  Too few requests say nothing.
Inferred(m) ==
    LET n == Cardinality(Recent(m))
        ok == Cardinality({ i \in Recent(m) : history[m][i].ok })
    IN  IF n < MinSamples THEN "healthy"
        ELSE IF 2 * ok < n THEN "down"
        ELSE IF 100 * ok < 85 * n THEN "degraded"
        ELSE "healthy"

Status(m) ==
    IF Inferred(m) = "down" THEN "down"
    ELSE IF Inferred(m) = "degraded" /\ registry[m] = "healthy" THEN "degraded"
    ELSE registry[m]

------------------------------------------------------------------------------
(* Router.route *)

\* _load_candidates: what the registry does not hold for down.
Candidates == { m \in Models : registry[m] # "down" }

Eligible(p) ==
    { m \in Candidates : /\ Status(m) # "down"
                         /\ Tokens(p) <= Profiles[m].window
                         /\ 100 * Quality(m) >= Floor(p) * Scale }

Price(m) == Profiles[m].price

\* The spread of a value over all candidates, the excluded ones too; or 1.
Spread(Value(_)) ==
    LET values == { Value(m) : m \in Candidates }
        range == Max(values) - Min(values)
    IN  IF range = 0 THEN 1 ELSE range

Above(Value(_), m) == Value(m) - Min({ Value(n) : n \in Candidates })

\* Mutant: a degraded model is as good as a healthy one.
ModelRiskMutant(p, m) == Risk(p)

\* In percent, one and a half times for a degraded model, at most 100.
ModelRisk(p, m) ==
    IF Status(m) = "degraded" THEN Min({100, (3 * Risk(p)) \div 2}) ELSE Risk(p)

\* The weighted sum, and the same of a score of 1: times the two spreads, Scale,
\* and 100 for the weights and for the risk.
Score(p, m) ==
    LET costs == Spread(Price)
        delays == Spread(Latency)
    IN  100 * Weights.quality * Quality(m) * costs * delays
        - 100 * Scale * Weights.cost * Above(Price, m) * delays
        - 100 * Scale * Weights.latency * Above(Latency, m) * costs
        - Scale * Weights.risk * ModelRisk(p, m) * costs * delays

Whole == 10000 * Scale * Spread(Price) * Spread(Latency)

RoutingScore(p, m) == Rounded(Rounding * Score(p, m), Whole)

\* By falling score, in the order of listing where they are equal.
Before(p, m, n) ==
    \/ RoutingScore(p, m) > RoutingScore(p, n)
    \/ RoutingScore(p, m) = RoutingScore(p, n) /\ m < n

Ranked(p) ==
    LET Rank(m) == Cardinality({ n \in Eligible(p) : Before(p, n, m) }) + 1
    IN  [i \in 1..Cardinality(Eligible(p)) |-> CHOOSE m \in Eligible(p) : Rank(m) = i]

Route(p) ==
    /\ chain = <<>>
    /\ Eligible(p) # {}
    /\ chain' = Ranked(p)
    /\ UNCHANGED <<registry, history>>

\* NoHealthyCandidateError: the request fails and leaves no trace.
Refuse(p) ==
    /\ chain = <<>>
    /\ Eligible(p) = {}
    /\ UNCHANGED vars

------------------------------------------------------------------------------
(* Traffic *)

Recorded(m, sample) ==
    history' = [history EXCEPT ![m] = SubSeq(<<sample>> \o @, 1, Min({Window, Len(@) + 1}))]

\* The trace of a request names the model that answered.
Answer(m, latency) ==
    /\ \E i \in DOMAIN chain : chain[i] = m
    /\ Recorded(m, [ok |-> TRUE, quality |-> NoScore, latency |-> latency, age |-> 0])
    /\ chain' = <<>>
    /\ UNCHANGED registry

\* Or its first choice, when all of them failed.
FailAll(latency) ==
    /\ chain # <<>>
    /\ Recorded(Head(chain), [ok |-> FALSE, quality |-> NoScore, latency |-> latency, age |-> 0])
    /\ chain' = <<>>
    /\ UNCHANGED registry

\* A request that names its model.
CallByName(m, ok, latency) ==
    /\ m \in Preferred
    /\ Recorded(m, [ok |-> ok, quality |-> NoScore, latency |-> latency, age |-> 0])
    /\ UNCHANGED <<registry, chain>>

\* An answer is evaluated later.
Evaluate(m, i, score) ==
    /\ history[m][i].ok
    /\ history[m][i].quality = NoScore
    /\ history' = [history EXCEPT ![m][i].quality = score]
    /\ UNCHANGED <<registry, chain>>

\* ModelHealth's pass, or an operator.
SetHealth(m, status) ==
    /\ registry[m] # status
    /\ registry' = [registry EXCEPT ![m] = status]
    /\ UNCHANGED <<history, chain>>

Older(sample) == [sample EXCEPT !.age = Min({Hour + 1, @ + 1})]

Tick ==
    /\ \E m \in Models : \E i \in DOMAIN history[m] : history[m][i].age <= Hour
    /\ history' = [m \in Models |-> [i \in DOMAIN history[m] |-> Older(history[m][i])]]
    /\ UNCHANGED <<registry, chain>>

------------------------------------------------------------------------------
Next ==
    \/ \E p \in Prompts : Route(p) \/ Refuse(p)
    \/ \E latency \in Latencies :
         \/ FailAll(latency)
         \/ \E m \in Models : Answer(m, latency) \/ \E ok \in BOOLEAN : CallByName(m, ok, latency)
    \/ \E m \in Models, score \in Scores : \E i \in DOMAIN history[m] : Evaluate(m, i, score)
    \/ \E m \in Models, status \in Health : SetHealth(m, status)
    \/ Tick

Spec == Init /\ [][Next]_vars

\* Time passes.
Fairness == WF_vars(Tick)

------------------------------------------------------------------------------
(* Properties *)

Ailing(m) == Status(m) = "degraded"

\* m is at least as good as n in all the router weighs, and cheaper, better, faster
\* or healthier in something.
Dominates(m, n) ==
    /\ Quality(m) >= Quality(n) /\ Price(m) <= Price(n) /\ Latency(m) <= Latency(n)
    /\ Ailing(m) => Ailing(n)
    /\ \/ Quality(m) > Quality(n) \/ Price(m) < Price(n) \/ Latency(m) < Latency(n)
       \/ Ailing(n) /\ ~Ailing(m)

\* What that is worth, by the weights: the difference of two scores of the size of
\* Whole, reckoned from the differences of the two models.
Edge(p, m, n) ==
    LET costs == Spread(Price)
        delays == Spread(Latency)
        spared == IF Ailing(n) /\ ~Ailing(m) THEN Min({100 - Risk(p), Risk(p) \div 2}) ELSE 0
    IN  100 * Weights.quality * (Quality(m) - Quality(n)) * costs * delays
        + 100 * Scale * Weights.cost * (Price(n) - Price(m)) * delays
        + 100 * Scale * Weights.latency * (Latency(n) - Latency(m)) * costs
        + Scale * Weights.risk * spared * costs * delays

\* The difference is lost in rounding.
Negligible(p, m, n) == Rounding * Edge(p, m, n) < Whole

\* A model that may serve a request is tried before every model that it beats on
\* every count, unless that one is listed earlier and the weighted difference is less
\* than one unit of the score's last decimal; a risky request is only given to models
\* that are good enough for it, whatever its task; and no perfect model is left out
\* for any task (router.py:86-205, complexity.py:57-67).
RoutedWell(p) ==
    chain = <<>> /\ chain' # <<>> /\ Route(p) =>
        /\ \A m \in Models, i \in DOMAIN chain' :
             Dominates(m, chain'[i]) =>
               \/ Status(m) = "down" \/ Tokens(p) > Profiles[m].window
               \/ \E j \in 1..i - 1 : chain'[j] = m
               \/ chain'[i] < m /\ Negligible(p, m, chain'[i])
        /\ p.high \/ p.override =>
             \A i \in DOMAIN chain' : 100 * Quality(chain'[i]) >= 85 * Scale
        /\ \A m \in Models :
             Status(m) # "down" /\ Tokens(p) <= Profiles[m].window /\ Quality(m) = Scale
               => \E i \in DOMAIN chain' : chain'[i] = m

NeverDominated == [][\A p \in Prompts : RoutedWell(p)]_vars

\* A model that its recent traces have taken out of routing is let in again, if
\* nobody calls it by name: judged by what is recent, it is not excluded for good
\* (routing/stats.py:18-21).
OutageEnds ==
    \A m \in Models \ Preferred : Inferred(m) = "down" ~> Inferred(m) # "down"

==============================================================================
