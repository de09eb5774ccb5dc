---------------------------- MODULE JudgementProofs ----------------------------
(***************************************************************************)
(* Theorems about what is made of answers and of traffic: the parts of     *)
(* MCSequential, for every input, and the two loops of Detection, that     *)
(* they record nothing twice in a window and judge a regression fairly.    *)
(***************************************************************************)
EXTENDS Detection, MCSequential, SumTheorems, SequenceTheorems, FiniteSetTheorems, TLAPS

------------------------------------------------------------------------------
(* The evaluation of an answer *)

LEMMA AnswerConstants ==
    /\ Scale \in Nat \ {0} /\ MaxAttempts \in Nat \ {0}
    /\ Marks \subseteq 0..Scale /\ Judged \subseteq BOOLEAN
    /\ \A a \in Answers : a \in E!AnswerRecord /\ (a.blank => Len(a.sentences) = 1)
BY SequentialAssumption DEF E!EvaluatorAssumption

LEMMA MaxOfTwo == ASSUME NEW a \in Int, NEW b \in Int PROVE E!Max({a, b}) = IF a >= b THEN a ELSE b
<1>1. E!Max({a, b}) \in {a, b} /\ \A y \in {a, b} : E!Max({a, b}) >= y
  <2>1. \E x \in {a, b} : \A y \in {a, b} : x >= y
    <3>1. CASE a >= b
      BY <3>1
    <3>2. CASE b >= a
      BY <3>2
    <3>3. QED
      BY <3>1, <3>2
  <2>2. QED
    BY <2>1 DEF E!Max
<1>2. QED
  BY <1>1

LEMMA MinOfTwo == ASSUME NEW a \in Int, NEW b \in Int PROVE E!Min({a, b}) = IF a <= b THEN a ELSE b
<1>1. E!Min({a, b}) \in {a, b} /\ \A y \in {a, b} : E!Min({a, b}) <= y
  <2>1. \E x \in {a, b} : \A y \in {a, b} : x <= y
    <3>1. CASE a <= b
      BY <3>1
    <3>2. CASE b <= a
      BY <3>2
    <3>3. QED
      BY <3>1, <3>2
  <2>2. QED
    BY <2>1 DEF E!Min
<1>2. QED
  BY <1>1

LEMMA ClampType == ASSUME NEW x \in Int PROVE E!Clamp(x) \in 0..Scale
<1>1. PICK y \in Nat : y = E!Max({0, x})
  BY MaxOfTwo
<1>2. Scale \in Nat
  BY AnswerConstants
<1>3. E!Clamp(x) = E!Min({Scale, y})
  BY <1>1 DEF E!Clamp
<1>4. E!Min({Scale, y}) = IF Scale <= y THEN Scale ELSE y
  BY <1>1, <1>2, MinOfTwo
<1>5. QED
  BY <1>1, <1>2, <1>3, <1>4

\* What the evaluators see of the sentences of an answer.
SupportOf(a) == E!Total(LAMBDA i : E!Clamp(a.sentences[i].whole), Len(a.sentences))

UnsupportedOf(a, sentence) ==
    LET best == E!Clamp(sentence.best)
    IN  IF ~a.grounded THEN Scale \div 2
        ELSE IF E!Reaches(best, 1, 60) THEN 0
        ELSE IF E!Reaches(best, 1, 30) THEN Scale \div 2
        ELSE Scale
ClaimsOf(a) == E!Total(LAMBDA i : UnsupportedOf(a, a.sentences[i]), Len(a.sentences))
HallucinationOf(a) == IF a.blank THEN 0 ELSE ClaimsOf(a) \div Len(a.sentences)

LEMMA SupportIsSum ==
  ASSUME NEW a, Len(a.sentences) \in Nat
  PROVE  LET n == Len(a.sentences)
         IN  SupportOf(a) = Sum([i \in 1..n |-> E!Clamp(a.sentences[i].whole)], 1..n)
<1> DEFINE n == Len(a.sentences)
           f == [i \in 1..n |-> E!Clamp(a.sentences[i].whole)]
           Adds(g) == g = [s \in SUBSET (1..n) |->
                             IF s = {} THEN 0
                             ELSE E!Clamp(a.sentences[Some(s)].whole) + g[s \ {Some(s)}]]
           h == CHOOSE g : Adds(g)
<1>1. IsFiniteSet(1..n)
  BY FS_Interval
<1>2. \A s \in SUBSET (1..n) : s # {} => E!Clamp(a.sentences[Some(s)].whole) = f[Some(s)]
  BY SomeIn
<1>3. ASSUME NEW g PROVE Adds(g) <=> SumsUp(g, f, 1..n)
  BY <1>2 DEF SumsUp
<1>4. SupportOf(a) = h[1..n]
  BY DEF SupportOf, E!Total, E!MapThenSumSet, E!MapThenFoldSet, Some
<1> HIDE DEF Adds, f
<1>5. \E g : Adds(g)
  BY <1>1, <1>3, SumsExist
<1>6. Adds(h)
  BY <1>5
<1> HIDE DEF h
<1>7. SupportOf(a) = Sum(f, 1..n)
  BY <1>1, <1>3, <1>4, <1>6, SumIsFold
<1>8. QED
  BY <1>7 DEF f

LEMMA ClaimsAreSum ==
  ASSUME NEW a, Len(a.sentences) \in Nat
  PROVE  LET n == Len(a.sentences)
         IN  ClaimsOf(a) = Sum([i \in 1..n |-> UnsupportedOf(a, a.sentences[i])], 1..n)
<1> DEFINE n == Len(a.sentences)
           f == [i \in 1..n |-> UnsupportedOf(a, a.sentences[i])]
           Adds(g) == g = [s \in SUBSET (1..n) |->
                             IF s = {} THEN 0
                             ELSE UnsupportedOf(a, a.sentences[Some(s)]) + g[s \ {Some(s)}]]
           h == CHOOSE g : Adds(g)
<1>1. IsFiniteSet(1..n)
  BY FS_Interval
<1>2. \A s \in SUBSET (1..n) : s # {} => UnsupportedOf(a, a.sentences[Some(s)]) = f[Some(s)]
  BY SomeIn
<1>3. ASSUME NEW g PROVE Adds(g) <=> SumsUp(g, f, 1..n)
  BY <1>2 DEF SumsUp
<1>4. ClaimsOf(a) = h[1..n]
  BY DEF ClaimsOf, E!Total, E!MapThenSumSet, E!MapThenFoldSet, Some
<1> HIDE DEF Adds, f
<1>5. \E g : Adds(g)
  BY <1>1, <1>3, SumsExist
<1>6. Adds(h)
  BY <1>5
<1> HIDE DEF h
<1>7. ClaimsOf(a) = Sum(f, 1..n)
  BY <1>1, <1>3, <1>4, <1>6, SumIsFold
<1>8. QED
  BY <1>7 DEF f

LEMMA HallucinationIs == E!Hallucination = HallucinationOf(answer)
BY DEF E!Hallucination, HallucinationOf, ClaimsOf, E!Unsupported, UnsupportedOf

LEMMA SentencesOf ==
  ASSUME NEW a \in Answers
  PROVE  /\ Len(a.sentences) \in Nat \ {0}
         /\ \A i \in 1..Len(a.sentences) : a.sentences[i].whole \in Int /\ a.sentences[i].best \in Int
<1>1. a.sentences \in Seq([whole : E!Similarity, best : E!Similarity]) /\ a.sentences # <<>>
  BY AnswerConstants DEF E!AnswerRecord
<1>2. E!Similarity \subseteq Int
  BY AnswerConstants DEF E!Similarity
<1> HIDE DEF E!Similarity
<1>3. PICK s \in Seq([whole : E!Similarity, best : E!Similarity]) : s = a.sentences
  BY <1>1
<1>4. Len(s) \in Nat \ {0}
  BY <1>1, <1>3, EmptySeq
<1>5. \A i \in 1..Len(s) : s[i] \in [whole : E!Similarity, best : E!Similarity]
  BY <1>4, ElementOfSeq
<1>6. QED
  BY <1>2, <1>3, <1>4, <1>5

\* An average of n values between two bounds is between them.
LEMMA AverageBetween ==
  ASSUME NEW n \in Nat \ {0}, NEW f, NEW low \in Nat, NEW high \in Nat,
         \A i \in 1..n : f[i] \in Nat /\ low <= f[i] /\ f[i] <= high
  PROVE  Sum(f, 1..n) \div n \in low..high
<1>1. IsFiniteSet(1..n) /\ Cardinality(1..n) = n
  BY FS_Interval
<1>2. PICK s \in Nat : s = Sum(f, 1..n)
  BY <1>1, SumType
<1>3. low * n <= s /\ s <= high * n
  BY <1>1, <1>2, SumBetween
<1>4. PICK q \in Nat : q = s \div n /\ low <= q /\ q <= high
  BY <1>2, <1>3, Quotient
<1>5. QED
  BY <1>2, <1>4

LEMMA Halves == Scale \div 2 \in 0..Scale /\ 2 * (Scale \div 2) <= Scale /\ Scale <= 2 * (Scale \div 2) + 1
BY AnswerConstants

LEMMA HallucinationType ==
  ASSUME NEW a \in Answers
  PROVE  /\ HallucinationOf(a) \in 0..Scale
         /\ ~a.blank /\ ~a.grounded => HallucinationOf(a) = Scale \div 2
<1>1. /\ Len(a.sentences) \in Nat \ {0}
      /\ \A i \in 1..Len(a.sentences) : a.sentences[i].best \in Int
  BY SentencesOf
<1>2. PICK n \in Nat \ {0} : n = Len(a.sentences)
  BY <1>1
<1>3. PICK f : f = [i \in 1..n |-> UnsupportedOf(a, a.sentences[i])]
  OBVIOUS
<1>4. \A i \in 1..n : f[i] \in {0, Scale \div 2, Scale} /\ (~a.grounded => f[i] = Scale \div 2)
  BY <1>3 DEF UnsupportedOf
<1>5. ClaimsOf(a) = Sum(f, 1..n)
  BY <1>2, <1>3, ClaimsAreSum
<1>6. Sum(f, 1..n) \div n \in 0..Scale
  <2>1. \A i \in 1..n : f[i] \in Nat /\ 0 <= f[i] /\ f[i] <= Scale
    BY <1>4, Halves, AnswerConstants
  <2>2. 0 \in Nat /\ Scale \in Nat
    BY AnswerConstants
  <2>3. QED
    BY <2>1, <2>2, AverageBetween
<1>7. ~a.grounded => Sum(f, 1..n) \div n = Scale \div 2
  <2>1. PICK h \in Nat : h = Scale \div 2
    BY Halves
  <2>2. ASSUME ~a.grounded PROVE \A i \in 1..n : f[i] \in Nat /\ h <= f[i] /\ f[i] <= h
    BY <1>4, <2>1, <2>2
  <2>3. ASSUME ~a.grounded PROVE Sum(f, 1..n) \div n = h
    <3>1. Sum(f, 1..n) \div n \in h..h
      BY <2>1, <2>2, <2>3, AverageBetween
    <3>2. QED
      BY <2>1, <3>1
  <2>4. QED
    BY <2>1, <2>3
<1>8. QED
  BY <1>2, <1>5, <1>6, <1>7, AnswerConstants DEF HallucinationOf

MetricNames ==
    {"relevance", "faithfulness", "context_utilization", "retrieval_quality", "safety",
     "prompt_injection_risk", "latency", "cost_efficiency"}

\* The metrics of an answer that its quality is made of.
MetricsOK(a, m) ==
    /\ m["relevance"].score \in 0..Scale
    /\ m["faithfulness"].score \in 0..Scale
    /\ ~a.grounded => m["faithfulness"].score = Scale \div 2
    /\ m["safety"].score = IF a.blocked THEN 0 ELSE Scale
    /\ m["prompt_injection_risk"].score \in {0, Scale}

LEMMA Deterministic ==
  ASSUME answer \in Answers
  PROVE  MetricsOK(answer, E!DeterministicMetrics) /\ DOMAIN E!DeterministicMetrics = MetricNames
<1>1. E!Relevance.score \in 0..Scale
  <2>1. answer.asked \in Int
    BY AnswerConstants DEF E!AnswerRecord, E!Similarity
  <2>2. PICK c \in 0..Scale : c = E!Clamp(answer.asked)
    BY <2>1, ClampType
  <2>3. c \div 1 = c
    BY AnswerConstants
  <2>4. QED
    BY <2>2, <2>3, AnswerConstants DEF E!Relevance, E!Average, E!Metric
<1>2. E!Faithfulness.score \in 0..Scale /\ (~answer.grounded => E!Faithfulness.score = Scale \div 2)
  <2>1. CASE ~answer.grounded
    BY <2>1, Halves DEF E!Faithfulness, E!NotApplicable, E!Metric
  <2>2. CASE answer.grounded
    <3>1. E!Faithfulness.score = SupportOf(answer) \div Len(answer.sentences)
      BY <2>2 DEF E!Faithfulness, E!Average, E!Metric, SupportOf
    <3>2. PICK n \in Nat \ {0} : n = Len(answer.sentences)
      BY SentencesOf
    <3>3. PICK f : f = [i \in 1..n |-> E!Clamp(answer.sentences[i].whole)]
      OBVIOUS
    <3>4. \A i \in 1..n : f[i] \in 0..Scale
      BY <3>2, <3>3, SentencesOf, ClampType
    <3>5. SupportOf(answer) = Sum(f, 1..n)
      BY <3>2, <3>3, SupportIsSum
    <3>6. \A i \in 1..n : f[i] \in Nat /\ 0 <= f[i] /\ f[i] <= Scale
      BY <3>4, AnswerConstants
    <3>7. 0 \in Nat /\ Scale \in Nat
      BY AnswerConstants
    <3>8. Sum(f, 1..n) \div n \in 0..Scale
      BY <3>2, <3>6, <3>7, AverageBetween
    <3>9. QED
      BY <2>2, <3>1, <3>2, <3>5, <3>8
  <2>3. QED
    BY <2>1, <2>2
<1>3. E!Safety.score = IF answer.blocked THEN 0 ELSE Scale
  BY DEF E!Safety, E!Metric
<1>4. E!PromptInjection.score \in {0, Scale}
  BY DEF E!PromptInjection, E!Metric
<1>5. /\ E!DeterministicMetrics["relevance"] = E!Relevance
      /\ E!DeterministicMetrics["faithfulness"] = E!Faithfulness
      /\ E!DeterministicMetrics["safety"] = E!Safety
      /\ E!DeterministicMetrics["prompt_injection_risk"] = E!PromptInjection
      /\ DOMAIN E!DeterministicMetrics = MetricNames
  BY DEF E!DeterministicMetrics, MetricNames
<1>6. QED
  BY <1>1, <1>2, <1>3, <1>4, <1>5 DEF MetricsOK

FallbackOf(a) == E!Average(E!Clamp(a.plain), 1, 60)

\* A verdict comes last, or nothing more could be gained.
Concluded(a, m, rs) ==
    LET last == rs[Len(rs)]
    IN  /\ DOMAIN m = MetricNames \cup {"judge_quality"}
        /\ Len(rs) > 0
        /\ \A i \in 1..Len(rs) : i < Len(rs) => rs[i].kind # "verdict"
        /\ IF last.kind = "verdict" THEN m["judge_quality"] = E!Average(last.score, 1, 60)
           ELSE /\ m["judge_quality"] = FallbackOf(a)
                /\ Len(rs) = MaxAttempts \/ last.kind = "fatal"

Reported(m) == "judge_quality" \in DOMAIN m
WeightOf(m) == IF Reported(m) THEN 100 ELSE 65
WeighedSum(m) ==
    30 * m["relevance"].score + 35 * m["faithfulness"].score
        + (IF Reported(m) THEN 35 * m["judge_quality"].score ELSE 0)
PenaltyOf(a, m) == 4 * HallucinationOf(a) + 3 * m["prompt_injection_risk"].score
OverallFrom(W, sum, P) == E!Min({Scale, E!Max({0, 10 * sum - W * P}) \div (10 * W)})
OverallOf(a, m) ==
    IF a.blocked THEN 0 ELSE OverallFrom(WeightOf(m), WeighedSum(m), PenaltyOf(a, m))

EvaluationInv ==
    part = "answer" =>
        /\ answer \in Answers /\ judged \in Judged
        /\ stage \in {"metrics", "judge", "claims", "done", "failed"}
        /\ replies \in Seq(E!Replies) /\ Len(replies) <= MaxAttempts
        /\ stage = "metrics" => replies = <<>>
        /\ stage \in {"judge", "claims", "done"} => MetricsOK(answer, metrics)
        /\ stage = "judge" =>
              /\ judged /\ DOMAIN metrics = MetricNames /\ Len(replies) < MaxAttempts
              /\ \A i \in 1..Len(replies) : replies[i].kind # "verdict"
        /\ stage \in {"claims", "done"} =>
              IF judged THEN Concluded(answer, metrics, replies)
              ELSE DOMAIN metrics = MetricNames
        /\ stage = "done" => overall = OverallOf(answer, metrics)

------------------------------------------------------------------------------
(* What the scores are weighed into *)

Weighable == {"relevance", "faithfulness", "judge_quality"}

\* The scores of the evaluators that have run are known.
Known(m) ==
    /\ DOMAIN m \in {MetricNames, MetricNames \cup {"judge_quality"}}
    /\ \A n \in Weighable \cap DOMAIN m : m[n].score \in 0..Scale

LEMMA FewAreFinite ==
  ASSUME NEW a, NEW b, NEW c
  PROVE  IsFiniteSet({a, b, c}) /\ IsFiniteSet({a, b})
<1>1. {a, b, c} = ({a} \cup {b}) \cup {c} /\ {a, b} = {a} \cup {b} /\ IsFiniteSet({a})
  BY FS_Singleton
<1>2. QED
  BY <1>1, FS_AddElement

LEMMA WeighedIs ==
  ASSUME Known(metrics)
  PROVE  /\ E!Weighed = IF Reported(metrics) THEN {"relevance", "faithfulness", "judge_quality"}
                        ELSE {"relevance", "faithfulness"}
         /\ IsFiniteSet(E!Weighed)
<1>1. E!Weighed = IF Reported(metrics) THEN {"relevance", "faithfulness", "judge_quality"}
                  ELSE {"relevance", "faithfulness"}
  BY DEF E!Weighed, E!Weights, Known, MetricNames, Reported, Weighable
<1>2. QED
  BY <1>1, FewAreFinite

LEMMA MarksAdd ==
  ASSUME NEW f, f["relevance"] \in Nat, f["faithfulness"] \in Nat
  PROVE  /\ Sum(f, {"relevance", "faithfulness"}) = f["relevance"] + f["faithfulness"]
         /\ f["judge_quality"] \in Nat =>
              Sum(f, {"relevance", "faithfulness", "judge_quality"})
                = f["relevance"] + f["faithfulness"] + f["judge_quality"]
<1>1. PICK a, b, c : a = "relevance" /\ b = "faithfulness" /\ c = "judge_quality"
  OBVIOUS
<1>2. a # b /\ a # c /\ b # c /\ f[a] \in Nat /\ f[b] \in Nat
  BY <1>1
<1>3. Sum(f, {a, b}) = f[a] + f[b]
  BY <1>2, SumTwo
<1>4. ASSUME f[c] \in Nat PROVE Sum(f, {a, b, c}) = f[a] + f[b] + f[c]
  <2>1. a # b /\ a # c /\ b # c
    BY <1>1
  <2>2. f[a] \in Nat /\ f[b] \in Nat /\ f[c] \in Nat
    BY <1>2, <1>4
  <2>3. IsFiniteSet({a, b, c}) /\ {a, b, c} \ {a} = {b, c}
    BY <1>2, FewAreFinite
  <2>4. Sum(f, {a, b, c}) = f[a] + Sum(f, {b, c})
    BY <2>2, <2>3, SumRemove
  <2>5. Sum(f, {b, c}) = f[b] + f[c]
    BY <2>1, <2>2, SumTwo
  <2>6. QED
    BY <2>2, <2>4, <2>5
<1>5. QED
  BY <1>1, <1>3, <1>4

LEMMA WeightTotalIs == ASSUME Known(metrics) PROVE E!WeightTotal = WeightOf(metrics)
<1> DEFINE W == E!Weighed
           f == E!Weights
           Adds(g) == g = [s \in SUBSET W |->
                             IF s = {} THEN 0 ELSE E!Weights[Some(s)] + g[s \ {Some(s)}]]
           h == CHOOSE g : Adds(g)
<1>1. IsFiniteSet(W)
  BY WeighedIs
<1>2. ASSUME NEW g PROVE Adds(g) <=> SumsUp(g, f, W)
  BY DEF SumsUp
<1>3. E!WeightTotal = h[W]
  BY DEF E!WeightTotal, E!MapThenSumSet, E!MapThenFoldSet, Some
<1>4. f["relevance"] = 30 /\ f["faithfulness"] = 35 /\ f["judge_quality"] = 35
  BY DEF E!Weights
<1>5. W = IF Reported(metrics) THEN {"relevance", "faithfulness", "judge_quality"}
          ELSE {"relevance", "faithfulness"}
  BY WeighedIs
<1> HIDE DEF Adds, f, W
<1>6. \E g : Adds(g)
  BY <1>1, <1>2, SumsExist
<1>7. Adds(h)
  BY <1>6
<1> HIDE DEF h
<1>8. E!WeightTotal = Sum(f, W)
  BY <1>1, <1>2, <1>3, <1>7, SumIsFold
<1>9. Sum(f, W) = IF Reported(metrics) THEN 100 ELSE 65
  <2>1. Sum(f, {"relevance", "faithfulness", "judge_quality"}) = 30 + 35 + 35
    BY <1>4, MarksAdd
  <2>2. Sum(f, {"relevance", "faithfulness"}) = 30 + 35
    BY <1>4, MarksAdd
  <2>3. QED
    BY <1>5, <2>1, <2>2
<1>10. QED
  BY <1>8, <1>9 DEF WeightOf

\* The sum that Aggregate starts from.
LEMMA WeighedSumIs ==
  ASSUME Known(metrics)
  PROVE  E!MapThenSumSet(LAMBDA n : E!Weights[n] * metrics[n].score, E!Weighed)
            = WeighedSum(metrics)
<1> DEFINE W == E!Weighed
           total == E!MapThenSumSet(LAMBDA n : E!Weights[n] * metrics[n].score, W)
           f == [n \in W |-> E!Weights[n] * metrics[n].score]
           Adds(g) == g = [s \in SUBSET W |->
                             IF s = {} THEN 0
                             ELSE E!Weights[Some(s)] * metrics[Some(s)].score + g[s \ {Some(s)}]]
           h == CHOOSE g : Adds(g)
<1>1. IsFiniteSet(W)
  BY WeighedIs
<1>2. \A s \in SUBSET W : s # {} => E!Weights[Some(s)] * metrics[Some(s)].score = f[Some(s)]
  BY SomeIn
<1>3. ASSUME NEW g PROVE Adds(g) <=> SumsUp(g, f, W)
  BY <1>2 DEF SumsUp
<1>4. total = h[W]
  BY DEF E!MapThenSumSet, E!MapThenFoldSet, Some
<1>5. W = IF Reported(metrics) THEN {"relevance", "faithfulness", "judge_quality"}
          ELSE {"relevance", "faithfulness"}
  BY WeighedIs
<1>6. /\ f["relevance"] = 30 * metrics["relevance"].score
      /\ f["faithfulness"] = 35 * metrics["faithfulness"].score
      /\ Reported(metrics) => f["judge_quality"] = 35 * metrics["judge_quality"].score
  BY <1>5 DEF E!Weights
<1>7. /\ metrics["relevance"].score \in Nat /\ metrics["faithfulness"].score \in Nat
      /\ Reported(metrics) => metrics["judge_quality"].score \in Nat
  BY DEF Known, Weighable, MetricNames, Reported
<1> HIDE DEF Adds, f, W, total
<1>8. \E g : Adds(g)
  BY <1>1, <1>3, SumsExist
<1>9. Adds(h)
  BY <1>8
<1> HIDE DEF h
<1>10. total = Sum(f, W)
  BY <1>1, <1>3, <1>4, <1>9, SumIsFold
<1>11. f["relevance"] \in Nat /\ f["faithfulness"] \in Nat
       /\ (Reported(metrics) => f["judge_quality"] \in Nat)
  BY <1>6, <1>7
<1>12. ASSUME Reported(metrics) PROVE total = WeighedSum(metrics)
  <2>1. Sum(f, {"relevance", "faithfulness", "judge_quality"})
          = f["relevance"] + f["faithfulness"] + f["judge_quality"]
    BY <1>11, <1>12, MarksAdd
  <2>2. Sum(f, W) = WeighedSum(metrics)
    BY <1>5, <1>6, <1>12, <2>1 DEF WeighedSum
  <2>3. QED
    BY <1>10, <2>2
<1>13. ASSUME ~Reported(metrics) PROVE total = WeighedSum(metrics)
  <2>1. Sum(f, {"relevance", "faithfulness"}) = f["relevance"] + f["faithfulness"]
    BY <1>11, MarksAdd
  <2>2. Sum(f, W) = WeighedSum(metrics)
    BY <1>5, <1>6, <1>7, <1>13, <2>1 DEF WeighedSum
  <2>3. QED
    BY <1>10, <2>2
<1>14. QED
  BY <1>12, <1>13 DEF total, W

\* What was multiplied by the scale is divided by it again.
LEMMA OutOfScale == ASSUME NEW s \in Nat PROVE (s * Scale) \div Scale = s /\ (s * 0) \div Scale = 0
<1>1. Scale \in Nat \ {0}
  BY AnswerConstants
<1>2. PICK n \in Nat \ {0} : n = Scale
  BY <1>1
<1>3. s * n \in Nat
  BY OnceMore
<1>4. (s * n) \div n \in Nat /\ (s * n) \div n <= s /\ s <= (s * n) \div n
  BY <1>3, Quotient
<1>5. s * 0 = 0 /\ 0 \div n = 0
  <2>1. 0 \div n \in Nat /\ 0 \div n <= 0
    <3>1. 0 <= 0 * n /\ 0 \in Nat
      OBVIOUS
    <3>2. QED
      BY <3>1, Quotient
  <2>2. QED
    BY <2>1
<1>6. QED
  BY <1>2, <1>4, <1>5

LEMMA AggregateIs ==
  ASSUME answer \in Answers, MetricsOK(answer, metrics), Known(metrics)
  PROVE  E!Aggregate = OverallOf(answer, metrics)
<1>1. PICK sum \in Nat : sum = WeighedSum(metrics)
  <2>1. /\ metrics["relevance"].score \in Nat /\ metrics["faithfulness"].score \in Nat
        /\ Reported(metrics) => metrics["judge_quality"].score \in Nat
    BY DEF Known, Weighable, MetricNames, Reported
  <2>2. QED
    BY <2>1 DEF WeighedSum
<1>2. PICK W \in {65, 100} : W = WeightOf(metrics)
  BY DEF WeightOf
<1>3. PICK P \in Nat : P = PenaltyOf(answer, metrics)
  <2>1. HallucinationOf(answer) \in Nat
    BY HallucinationType, AnswerConstants
  <2>2. metrics["prompt_injection_risk"].score \in Nat
    BY AnswerConstants DEF MetricsOK
  <2>3. QED
    BY <2>1, <2>2 DEF PenaltyOf
<1>4. E!Penalty = P
  BY <1>3, HallucinationIs DEF E!Penalty, PenaltyOf
<1>5. PICK ten \in Nat : ten = 10 * sum
  OBVIOUS
<1>6. PICK safe \in Nat : safe = (ten * metrics["safety"].score) \div Scale
                          /\ safe = IF answer.blocked THEN 0 ELSE ten
  <2>1. metrics["safety"].score = IF answer.blocked THEN 0 ELSE Scale
    BY DEF MetricsOK
  <2>2. (ten * Scale) \div Scale = ten /\ (ten * 0) \div Scale = 0
    BY OutOfScale
  <2>3. QED
    BY <2>1, <2>2
<1>7. E!Aggregate = E!Min({Scale, E!Max({0, safe - W * P}) \div (10 * W)})
  BY <1>1, <1>2, <1>4, <1>5, <1>6, WeightTotalIs, WeighedSumIs DEF E!Aggregate
<1>8. CASE answer.blocked
  <2>1. E!Max({0, safe - W * P}) = 0
    <3>1. PICK d \in Int : d = safe - W * P /\ d <= 0
      BY <1>2, <1>6, <1>8
    <3>2. E!Max({0, d}) = 0
      BY <3>1, MaxOfTwo
    <3>3. QED
      BY <3>1, <3>2
  <2>2. 0 \div (10 * W) = 0
    BY <1>2
  <2>3. E!Min({Scale, 0}) = 0
    BY AnswerConstants, MinOfTwo
  <2>4. QED
    BY <1>7, <1>8, <2>1, <2>2, <2>3 DEF OverallOf
<1>9. CASE ~answer.blocked
  BY <1>1, <1>2, <1>3, <1>5, <1>6, <1>7, <1>9 DEF OverallOf, OverallFrom
<1>10. QED
  BY <1>8, <1>9

------------------------------------------------------------------------------
(* The evaluation keeps its invariant *)

LEMMA AverageOfOne ==
  ASSUME NEW x \in Nat, NEW pct
  PROVE  E!Average(x, 1, pct).score = x
<1>1. x \div 1 = x
  OBVIOUS
<1>2. QED
  BY <1>1 DEF E!Average, E!Metric

LEMMA FallbackType == ASSUME NEW a \in Answers PROVE FallbackOf(a).score \in 0..Scale
<1>1. a.plain \in Int
  BY AnswerConstants DEF E!AnswerRecord, E!Similarity
<1>2. PICK c \in 0..Scale : c = E!Clamp(a.plain)
  BY <1>1, ClampType
<1>3. c \in Nat
  BY AnswerConstants
<1>4. E!Average(c, 1, 60).score = c
  BY <1>3, AverageOfOne
<1>5. QED
  BY <1>2, <1>4 DEF FallbackOf

LEMMA RepliesType ==
  ASSUME NEW r \in E!Replies
  PROVE  /\ r.kind \in {"verdict", "malformed", "retryable", "fatal"}
         /\ r.kind = "verdict" => r.score \in 0..Scale /\ E!Average(r.score, 1, 60).score = r.score
<1>1. r \in [kind : {"verdict"}, score : Marks] \/ r \in [kind : {"malformed", "retryable", "fatal"}, score : {0}]
  BY DEF E!Replies
<1>2. CASE r \in [kind : {"verdict"}, score : Marks]
  <2>1. r.kind = "verdict" /\ r.score \in Marks
    BY <1>2
  <2>2. r.score \in 0..Scale
    BY <2>1, AnswerConstants
  <2>3. r.score \in Nat
    BY <2>2, AnswerConstants
  <2>4. E!Average(r.score, 1, 60).score = r.score
    BY <2>3, AverageOfOne
  <2>5. QED
    BY <2>1, <2>2, <2>4
<1>3. CASE r \in [kind : {"malformed", "retryable", "fatal"}, score : {0}]
  BY <1>3
<1>4. QED
  BY <1>1, <1>2, <1>3

LEMMA LastReply ==
  ASSUME NEW rs \in Seq(E!Replies), Len(rs) > 0
  PROVE  rs[Len(rs)] \in E!Replies
<1>1. Len(rs) \in 1..Len(rs)
  OBVIOUS
<1>2. QED
  BY <1>1, ElementOfSeq

LEMMA EvaluatedIsKnown ==
  ASSUME NEW a \in Answers, NEW m, MetricsOK(a, m)
  PROVE  /\ DOMAIN m = MetricNames => Known(m)
         /\ \A rs \in Seq(E!Replies) : Concluded(a, m, rs) => Known(m)
<1>1. DOMAIN m = MetricNames => Known(m)
  BY DEF Known, MetricsOK, MetricNames, Weighable
<1>2. ASSUME NEW rs \in Seq(E!Replies), Concluded(a, m, rs)
      PROVE  Known(m)
  <2>1. DOMAIN m = MetricNames \cup {"judge_quality"} /\ Len(rs) > 0
    BY <1>2 DEF Concluded
  <2>2. PICK last \in E!Replies : last = rs[Len(rs)]
    BY <2>1, LastReply
  <2>3. m["judge_quality"].score \in 0..Scale
    <3>1. IF last.kind = "verdict" THEN m["judge_quality"] = E!Average(last.score, 1, 60)
          ELSE m["judge_quality"] = FallbackOf(a)
      BY <1>2, <2>2 DEF Concluded
    <3>2. QED
      BY <3>1, RepliesType, FallbackType
  <2>4. QED
    BY <2>1, <2>3 DEF Known, MetricsOK, Weighable
<1>3. QED
  BY <1>1, <1>2

LEMMA EvaluationStarts == SequentialInit => EvaluationInv
<1> SUFFICES ASSUME SequentialInit, part = "answer" PROVE EvaluationInv
  BY DEF EvaluationInv
<1>1. E!Init
  BY DEF SequentialInit
<1>2. Len(replies) = 0 /\ replies \in Seq(E!Replies) /\ 0 <= MaxAttempts
  BY <1>1, EmptySeq, AnswerConstants DEF E!Init
<1>3. QED
  BY <1>1, <1>2 DEF E!Init, EvaluationInv

LEMMA ReplyIsAppended ==
  ASSUME NEW rs \in Seq(E!Replies), NEW r \in E!Replies
  PROVE  /\ Append(rs, r) \in Seq(E!Replies)
         /\ Len(Append(rs, r)) = Len(rs) + 1 /\ Len(rs) \in Nat
         /\ Append(rs, r)[Len(rs) + 1] = r
         /\ \A i \in 1..Len(rs) : Append(rs, r)[i] = rs[i]
OBVIOUS

\* The metrics once the judge has left its mark.
Marked(m, mark) ==
    [n \in DOMAIN m \cup {"judge_quality"} |-> IF n = "judge_quality" THEN mark ELSE m[n]]

\* The last step of the judge, of its data alone.
LEMMA JudgeStep ==
  ASSUME NEW a \in Answers, NEW m, MetricsOK(a, m), DOMAIN m = MetricNames,
         NEW rs \in Seq(E!Replies), \A i \in 1..Len(rs) : rs[i].kind # "verdict",
         NEW r \in E!Replies, NEW mark,
         IF r.kind = "verdict" THEN mark = E!Average(r.score, 1, 60)
         ELSE mark = FallbackOf(a) /\ (Len(Append(rs, r)) = MaxAttempts \/ r.kind = "fatal")
  PROVE  MetricsOK(a, Marked(m, mark)) /\ Concluded(a, Marked(m, mark), Append(rs, r))
<1>1. MetricsOK(a, Marked(m, mark))
  BY DEF MetricsOK, MetricNames, Marked
<1>2. PICK rs1 : rs1 = Append(rs, r)
  OBVIOUS
<1>3. /\ Len(rs1) = Len(rs) + 1 /\ Len(rs) \in Nat /\ rs1[Len(rs1)] = r
      /\ \A i \in 1..Len(rs) : rs1[i] = rs[i]
  BY <1>2, ReplyIsAppended
<1>4. \A i \in 1..Len(rs1) : i < Len(rs1) => rs1[i].kind # "verdict"
  BY <1>3
<1>5. PICK m1 : m1 = Marked(m, mark)
  OBVIOUS
<1>6. DOMAIN m1 = MetricNames \cup {"judge_quality"} /\ m1["judge_quality"] = mark
  BY <1>5 DEF Marked
<1>7. Concluded(a, m1, rs1)
  BY <1>2, <1>3, <1>4, <1>6 DEF Concluded
<1>8. QED
  BY <1>1, <1>2, <1>5, <1>7

LEMMA EvaluationStep == EvaluationInv /\ [SequentialNext]_sequentialVars => EvaluationInv'
<1> SUFFICES ASSUME EvaluationInv, [SequentialNext]_sequentialVars, part' = "answer"
             PROVE  EvaluationInv'
  BY DEF EvaluationInv
<1>1. CASE Evaluation
  <2>1. part = "answer" /\ E!Next
    BY <1>1 DEF Evaluation
  <2>2. CASE E!RunEvaluators
    <3>1. /\ stage = "metrics" /\ replies = <<>> /\ answer \in Answers /\ judged \in Judged
          /\ replies \in Seq(E!Replies) /\ Len(replies) = 0 /\ 0 < MaxAttempts
      BY <2>1, <2>2, AnswerConstants DEF EvaluationInv, E!RunEvaluators
    <3>2. MetricsOK(answer, metrics') /\ DOMAIN metrics' = MetricNames
      BY <2>2, <3>1, Deterministic DEF E!RunEvaluators
    <3>3. /\ stage' = IF judged THEN "judge" ELSE "claims"
          /\ answer' = answer /\ judged' = judged /\ replies' = replies
      BY <2>2 DEF E!RunEvaluators
    <3>4. judged \in BOOLEAN
      BY <3>1, AnswerConstants
    <3>5. /\ Len(replies') = 0 /\ replies' \in Seq(E!Replies)
          /\ \A i \in 1..Len(replies') : replies'[i].kind # "verdict"
      BY <3>1, <3>3
    <3>6. CASE judged
      <4>1. stage' = "judge" /\ judged' /\ Len(replies') < MaxAttempts
        BY <3>1, <3>3, <3>5, <3>6
      <4>2. answer' \in Answers /\ judged' \in Judged /\ MetricsOK(answer', metrics')
        BY <3>1, <3>2, <3>3
      <4>3. Len(replies') <= MaxAttempts
        BY <3>1, <3>5, AnswerConstants
      <4>4. stage' \notin {"metrics", "claims", "done"}
        BY <4>1
      <4>5. QED
        BY <3>2, <3>5, <4>1, <4>2, <4>3, <4>4 DEF EvaluationInv
    <3>7. CASE ~judged
      BY <3>1, <3>2, <3>3, <3>5, <3>7, AnswerConstants DEF EvaluationInv
    <3>8. QED
      BY <3>6, <3>7
  <2>3. ASSUME NEW reply \in E!Replies, E!AskJudge(reply) PROVE EvaluationInv'
    <3>1. /\ stage = "judge" /\ answer \in Answers /\ judged \in Judged /\ judged
          /\ replies \in Seq(E!Replies) /\ Len(replies) < MaxAttempts
          /\ MetricsOK(answer, metrics) /\ DOMAIN metrics = MetricNames
          /\ \A i \in 1..Len(replies) : replies[i].kind # "verdict"
      BY <2>1, <2>3 DEF EvaluationInv, E!AskJudge
    <3>2. /\ replies' = Append(replies, reply)
          /\ answer' = answer /\ judged' = judged /\ overall' = overall
      BY <2>3 DEF E!AskJudge
    <3>3. /\ replies' \in Seq(E!Replies) /\ Len(replies') = Len(replies) + 1
          /\ Len(replies) \in Nat /\ replies'[Len(replies) + 1] = reply
          /\ \A i \in 1..Len(replies) : replies'[i] = replies[i]
      BY <3>1, <3>2, ReplyIsAppended
    <3>4. Len(replies') <= MaxAttempts
      BY <3>1, <3>3, AnswerConstants
    <3>5. CASE /\ reply.kind # "verdict" /\ E!WorthAnother(reply)
               /\ Len(replies') < MaxAttempts
      <4>1. metrics' = metrics /\ stage' = "judge"
        BY <2>3, <3>1, <3>5 DEF E!AskJudge
      <4>2. \A i \in 1..Len(replies') : replies'[i].kind # "verdict"
        BY <3>1, <3>3, <3>5
      <4>3. QED
        BY <3>1, <3>2, <3>3, <3>4, <3>5, <4>1, <4>2 DEF EvaluationInv
    <3>6. CASE ~(/\ reply.kind # "verdict" /\ E!WorthAnother(reply)
                 /\ Len(replies') < MaxAttempts)
      <4>1. stage' = "claims"
        BY <2>3, <3>6 DEF E!AskJudge
      <4>2. PICK mark :
              /\ metrics' = [n \in DOMAIN metrics \cup {"judge_quality"} |->
                               IF n = "judge_quality" THEN mark ELSE metrics[n]]
              /\ IF reply.kind = "verdict" THEN mark = E!Average(reply.score, 1, 60)
                 ELSE mark = FallbackOf(answer)
        BY <2>3, <3>6 DEF E!AskJudge, E!Adds, E!Fallback, FallbackOf
      <4>3. reply.kind # "verdict" => Len(replies') = MaxAttempts \/ reply.kind = "fatal"
        BY <3>3, <3>4, <3>6, RepliesType, AnswerConstants DEF E!WorthAnother
      <4>4. MetricsOK(answer, metrics') /\ Concluded(answer, metrics', replies')
        <5>1. metrics' = Marked(metrics, mark)
          BY <4>2 DEF Marked
        <5>2. IF reply.kind = "verdict" THEN mark = E!Average(reply.score, 1, 60)
              ELSE /\ mark = FallbackOf(answer)
                   /\ Len(Append(replies, reply)) = MaxAttempts \/ reply.kind = "fatal"
          BY <3>2, <4>2, <4>3
        <5>3. /\ MetricsOK(answer, Marked(metrics, mark))
              /\ Concluded(answer, Marked(metrics, mark), Append(replies, reply))
          BY <3>1, <5>2, JudgeStep
        <5>4. QED
          BY <3>2, <5>1, <5>3
      <4>5. QED
        BY <3>1, <3>2, <3>3, <3>4, <4>1, <4>4 DEF EvaluationInv
    <3>7. QED
      BY <3>5, <3>6
  <2>4. CASE E!CheckClaims
    <3>1. /\ stage = "claims" /\ answer \in Answers /\ judged \in Judged
          /\ replies \in Seq(E!Replies) /\ Len(replies) <= MaxAttempts
          /\ MetricsOK(answer, metrics)
          /\ IF judged THEN Concluded(answer, metrics, replies)
             ELSE DOMAIN metrics = MetricNames
      BY <2>1, <2>4 DEF EvaluationInv, E!CheckClaims
    <3>2. Known(metrics)
      BY <3>1, EvaluatedIsKnown
    <3>3. overall' = OverallOf(answer, metrics)
      BY <2>4, <3>1, <3>2, AggregateIs DEF E!CheckClaims
    <3>4. /\ stage' = "done" /\ answer' = answer /\ judged' = judged
          /\ metrics' = metrics /\ replies' = replies
      BY <2>4 DEF E!CheckClaims
    <3>5. QED
      BY <3>1, <3>3, <3>4 DEF EvaluationInv
  <2>5. CASE E!Fail
    BY <2>1, <2>5 DEF EvaluationInv, E!Fail
  <2>6. QED
    BY <2>1, <2>2, <2>3, <2>4, <2>5 DEF E!Next
<1>2. CASE ~Evaluation
  <2>1. part = "answer" /\ UNCHANGED << answer, judged, stage, metrics, replies, overall >>
    BY <1>2 DEF SequentialNext, Verdict, Request, Experiments, Corpora, sequentialVars, answerVars
  <2>2. QED
    BY <2>1 DEF EvaluationInv
<1>3. QED
  BY <1>1, <1>2

LEMMA EvaluationInvariant == SequentialSpec => []EvaluationInv
<1>1. QED
  BY EvaluationStarts, EvaluationStep, PTL DEF SequentialSpec

------------------------------------------------------------------------------
(* What the judge leaves *)

LEMMA JudgeRulesHold == EvaluationInv => JudgeRules
<1> SUFFICES ASSUME EvaluationInv, part = "answer" PROVE E!JudgeRules
  BY DEF JudgeRules
<1>1. answer \in Answers /\ replies \in Seq(E!Replies) /\ Len(replies) <= MaxAttempts
  BY DEF EvaluationInv
<1>2. ASSUME stage \in {"claims", "done"}, judged
      PROVE  /\ "judge_quality" \in DOMAIN metrics
             /\ IF \E i \in DOMAIN replies : replies[i].kind = "verdict"
                THEN E!Last.kind = "verdict" /\ metrics["judge_quality"].score = E!Last.score
                ELSE /\ Len(replies) = MaxAttempts \/ E!Last.kind = "fatal"
                     /\ metrics["judge_quality"] = E!Fallback
  <2>1. Concluded(answer, metrics, replies)
    BY <1>2 DEF EvaluationInv
  <2>2. Len(replies) > 0 /\ Len(replies) \in Nat /\ DOMAIN replies = 1..Len(replies)
    BY <1>1, <2>1, LenProperties DEF Concluded
  <2>3. E!Last = replies[Len(replies)]
    BY DEF E!Last
  <2>4. PICK last \in E!Replies : last = E!Last
    BY <1>1, <2>2, <2>3, LastReply
  <2>5. "judge_quality" \in DOMAIN metrics
    BY <2>1 DEF Concluded
  <2>6. CASE last.kind = "verdict"
    <3>1. metrics["judge_quality"] = E!Average(last.score, 1, 60)
      BY <2>1, <2>3, <2>4, <2>6 DEF Concluded
    <3>2. metrics["judge_quality"].score = last.score
      BY <2>6, <3>1, RepliesType
    <3>3. \E i \in DOMAIN replies : replies[i].kind = "verdict"
      BY <2>2, <2>3, <2>4, <2>6
    <3>4. QED
      BY <2>4, <2>5, <2>6, <3>2, <3>3
  <2>7. CASE last.kind # "verdict"
    <3>1. /\ metrics["judge_quality"] = FallbackOf(answer)
          /\ Len(replies) = MaxAttempts \/ last.kind = "fatal"
      BY <2>1, <2>3, <2>4, <2>7 DEF Concluded
    <3>2. ASSUME NEW i \in DOMAIN replies, replies[i].kind = "verdict"
          PROVE  FALSE
      <4>1. i \in 1..Len(replies) /\ i # Len(replies)
        BY <2>2, <2>3, <2>4, <2>7, <3>2
      <4>2. i < Len(replies)
        BY <2>2, <4>1
      <4>3. QED
        BY <2>1, <3>2, <4>1, <4>2 DEF Concluded
    <3>3. E!Fallback = FallbackOf(answer)
      BY DEF E!Fallback, FallbackOf
    <3>4. QED
      BY <2>4, <2>5, <3>1, <3>2, <3>3
  <2>8. QED
    BY <2>6, <2>7
<1>3. QED
  BY <1>1, <1>2 DEF E!JudgeRules

\* For every answer, every judge and every number of attempts: a judge that is
\* configured leaves a verdict, its own if one came, the fallback only when the
\* attempts are used up or no more can be gained (judge.py).
THEOREM JudgeKeepsItsRules == SequentialSpec => []JudgeRules
BY EvaluationInvariant, JudgeRulesHold, PTL

------------------------------------------------------------------------------
(* What the overall quality is worth *)

\* From the weighed sum of scores between low and high, and the penalty.
LEMMA Weighing ==
  ASSUME NEW W, W = 65 \/ W = 100, NEW sum \in Nat, NEW P \in Nat
  PROVE  /\ OverallFrom(W, sum, P) \in 0..Scale
         /\ \A high \in Nat : sum <= W * high =>
               10 * OverallFrom(W, sum, P) <= E!Max({0, 10 * high - P})
         /\ \A low \in Nat : W * low <= sum /\ low <= Scale =>
               10 * (OverallFrom(W, sum, P) + 1) > 10 * low - P
         /\ \/ 10 * W * OverallFrom(W, sum, P) <= 10 * sum - W * P
            \/ OverallFrom(W, sum, P) = 0
<1> DEFINE o == OverallFrom(W, sum, P)
<1>1. PICK d \in Int : d = 10 * sum - W * P
  <2>1. W = 65 \/ W = 100
    OBVIOUS
  <2>2. 10 * sum - W * P \in Int
    BY <2>1
  <2>3. QED
    BY <2>2
<1>2. PICK m \in Nat : m = E!Max({0, d}) /\ m = IF 0 >= d THEN 0 ELSE d
  BY MaxOfTwo
<1>3. PICK n \in {650, 1000} : n = 10 * W
  OBVIOUS
<1>4. PICK q \in Nat : q = m \div n /\ n * q <= m /\ m < n * q + n
  <2>1. n \in Nat \ {0}
    OBVIOUS
  <2>2. m \div n \in Nat /\ n * (m \div n) <= m /\ m < n * (m \div n) + n
    BY <2>1, Quotient
  <2>3. QED
    BY <2>2
<1>5. Scale \in Nat
  BY AnswerConstants
<1>6. o = IF Scale <= q THEN Scale ELSE q
  <2>1. o = E!Min({Scale, q})
    BY <1>1, <1>2, <1>3, <1>4 DEF OverallFrom
  <2>2. E!Min({Scale, q}) = IF Scale <= q THEN Scale ELSE q
    BY <1>5, MinOfTwo
  <2>3. QED
    BY <2>1, <2>2
<1> HIDE DEF o
<1>7. PICK p \in Nat : p = o /\ p <= q /\ p <= Scale /\ (p = q \/ p = Scale)
  BY <1>4, <1>5, <1>6
<1>8. o \in 0..Scale
  BY <1>5, <1>7
<1>9. ASSUME NEW high \in Nat, sum <= W * high
      PROVE  10 * o <= E!Max({0, 10 * high - P})
  <2>1. 10 * high - P \in Int
    OBVIOUS
  <2>2. E!Max({0, 10 * high - P}) = IF 0 >= 10 * high - P THEN 0 ELSE 10 * high - P
    BY <2>1, MaxOfTwo
  <2>3. CASE W = 65
    BY <1>1, <1>2, <1>3, <1>4, <1>7, <1>9, <2>2, <2>3
  <2>4. CASE W = 100
    BY <1>1, <1>2, <1>3, <1>4, <1>7, <1>9, <2>2, <2>4
  <2>5. QED
    BY <2>3, <2>4
<1>10. ASSUME NEW low \in Nat, W * low <= sum, low <= Scale
       PROVE  10 * (o + 1) > 10 * low - P
  <2>1. CASE W = 65
    BY <1>1, <1>2, <1>3, <1>4, <1>5, <1>7, <1>10, <2>1
  <2>2. CASE W = 100
    BY <1>1, <1>2, <1>3, <1>4, <1>5, <1>7, <1>10, <2>2
  <2>3. QED
    BY <2>1, <2>2
<1>11. 10 * W * o <= 10 * sum - W * P \/ o = 0
  <2>1. CASE W = 65
    BY <1>1, <1>2, <1>3, <1>4, <1>7, <2>1
  <2>2. CASE W = 100
    BY <1>1, <1>2, <1>3, <1>4, <1>7, <2>2
  <2>3. QED
    BY <2>1, <2>2
<1>12. QED
  BY <1>8, <1>9, <1>10, <1>11 DEF o

LEMMA MarksHaveBounds ==
  ASSUME Known(metrics)
  PROVE  LET marks == { metrics[n].score : n \in E!Weighed }
         IN  /\ E!Min(marks) \in 0..Scale /\ E!Max(marks) \in 0..Scale
             /\ WeightOf(metrics) * E!Min(marks) <= WeighedSum(metrics)
             /\ WeighedSum(metrics) <= WeightOf(metrics) * E!Max(marks)
<1> DEFINE marks == { metrics[n].score : n \in E!Weighed }
<1>1. PICK r, f, j : /\ r = metrics["relevance"].score /\ f = metrics["faithfulness"].score
                     /\ j = metrics["judge_quality"].score
  OBVIOUS
<1>2. r \in 0..Scale /\ f \in 0..Scale /\ (Reported(metrics) => j \in 0..Scale)
  BY <1>1 DEF Known, Weighable, MetricNames, Reported
<1>3. marks = IF Reported(metrics) THEN {r, f, j} ELSE {r, f}
  BY <1>1, WeighedIs
<1> HIDE DEF marks
<1>4. marks \subseteq Nat /\ marks \subseteq 0..Scale /\ marks # {} /\ IsFiniteSet(marks)
  <2>1. CASE Reported(metrics)
    <3>1. IsFiniteSet(marks)
      BY <1>3, <2>1, FewAreFinite
    <3>2. QED
      BY <1>2, <1>3, <2>1, <3>1, AnswerConstants
  <2>2. CASE ~Reported(metrics)
    <3>1. IsFiniteSet(marks)
      BY <1>3, <2>2, FewAreFinite
    <3>2. QED
      BY <1>2, <1>3, <2>2, <3>1, AnswerConstants
  <2>3. QED
    BY <2>1, <2>2
<1>5. PICK low \in marks, high \in marks : \A x \in marks : low <= x /\ x <= high
  BY <1>4, Extremes
<1>6. PICK least \in 0..Scale, most \in 0..Scale :
        least = E!Min(marks) /\ most = E!Max(marks)
        /\ \A x \in marks : least <= x /\ x <= most
  <2>1. E!Min(marks) \in marks /\ \A x \in marks : E!Min(marks) <= x
    BY <1>5 DEF E!Min
  <2>2. E!Max(marks) \in marks /\ \A x \in marks : E!Max(marks) >= x
    <3>1. \E x \in marks : \A y \in marks : x >= y
      BY <1>4, <1>5
    <3>2. QED
      BY <3>1 DEF E!Max
  <2>3. \A x \in marks : x <= E!Max(marks)
    BY <1>4, <2>2
  <2>4. QED
    BY <1>4, <2>1, <2>2, <2>3
<1>7. /\ WeightOf(metrics) * least <= WeighedSum(metrics)
      /\ WeighedSum(metrics) <= WeightOf(metrics) * most
  <2>1. CASE Reported(metrics)
    <3>1. WeighedSum(metrics) = 30 * r + 35 * f + 35 * j /\ WeightOf(metrics) = 100
      BY <1>1, <2>1 DEF WeighedSum, WeightOf
    <3>2. least <= r /\ least <= f /\ least <= j /\ r <= most /\ f <= most /\ j <= most
      BY <1>3, <1>6, <2>1
    <3>3. QED
      BY <1>2, <2>1, <3>1, <3>2, AnswerConstants
  <2>2. CASE ~Reported(metrics)
    <3>1. WeighedSum(metrics) = 30 * r + 35 * f /\ WeightOf(metrics) = 65
      BY <1>1, <1>2, <2>2, AnswerConstants DEF WeighedSum, WeightOf
    <3>2. least <= r /\ least <= f /\ r <= most /\ f <= most
      BY <1>3, <1>6, <2>2
    <3>3. QED
      BY <1>2, <3>1, <3>2, AnswerConstants
  <2>3. QED
    BY <2>1, <2>2
<1>8. QED
  BY <1>6, <1>7 DEF marks

\* Without a context, half of the weight of faithfulness and of the claims is gone.
LEMMA Groundless ==
  ASSUME NEW a \in Answers, NEW m, MetricsOK(a, m), Known(m),
         ~a.grounded, ~a.blank, NEW o \in Nat,
         10 * WeightOf(m) * o <= 10 * WeighedSum(m) - WeightOf(m) * PenaltyOf(a, m) \/ o = 0
  PROVE  1000 * o <= 625 * Scale
<1>1. PICK s \in Nat, h \in Nat : s = Scale /\ h = Scale \div 2 /\ 2 * h <= s /\ s <= 2 * h + 1
  BY Halves, AnswerConstants
<1>2. PICK r \in Nat, i \in Nat : /\ r = m["relevance"].score /\ r <= s
                                  /\ i = m["prompt_injection_risk"].score
  BY <1>1, AnswerConstants DEF MetricsOK
<1>3. m["faithfulness"].score = h /\ HallucinationOf(a) = h
  BY <1>1, HallucinationType DEF MetricsOK
<1>4. PICK P \in Nat : P = PenaltyOf(a, m) /\ P = 4 * h + 3 * i
  BY <1>2, <1>3 DEF PenaltyOf
<1>5. CASE Reported(m)
  <2>1. PICK j \in Nat : j = m["judge_quality"].score /\ j <= s
    BY <1>1, <1>5, AnswerConstants DEF Known, Reported, Weighable
  <2>2. WeighedSum(m) = 30 * r + 35 * h + 35 * j /\ WeightOf(m) = 100
    BY <1>2, <1>3, <1>5, <2>1 DEF WeighedSum, WeightOf
  <2>3. 1000 * o <= 10 * (30 * r + 35 * h + 35 * j) - 100 * P \/ o = 0
    BY <1>4, <2>2
  <2>4. 1000 * o <= 650 * s - 50 * h \/ o = 0
    BY <1>2, <1>4, <2>1, <2>3
  <2>5. QED
    BY <1>1, <2>4
<1>6. CASE ~Reported(m)
  <2>1. WeighedSum(m) = 30 * r + 35 * h /\ WeightOf(m) = 65
    BY <1>2, <1>3, <1>6 DEF WeighedSum, WeightOf
  <2>2. 650 * o <= 10 * (30 * r + 35 * h) - 65 * P \/ o = 0
    BY <1>4, <2>1
  <2>3. 650 * o <= 300 * s + 90 * h \/ o = 0
    BY <1>2, <1>4, <2>2
  <2>4. QED
    BY <1>1, <2>3
<1>7. QED
  BY <1>5, <1>6

LEMMA QualityIsEarnedHolds == EvaluationInv => QualityIsEarned
<1> SUFFICES ASSUME EvaluationInv, part = "answer", stage = "done"
             PROVE  LET marks == { metrics[n].score : n \in E!Weighed }
                    IN  /\ overall \in 0..Scale
                        /\ answer.blocked => overall = 0
                        /\ 10 * overall <= E!Max({0, 10 * E!Max(marks) - E!Penalty})
                        /\ ~answer.blocked => 10 * (overall + 1) > 10 * E!Min(marks) - E!Penalty
                        /\ ~answer.grounded /\ ~answer.blank => 1000 * overall <= 625 * Scale
  BY DEF QualityIsEarned, E!QualityIsEarned
<1> DEFINE marks == { metrics[n].score : n \in E!Weighed }
<1>1. /\ answer \in Answers /\ replies \in Seq(E!Replies) /\ MetricsOK(answer, metrics)
      /\ IF judged THEN Concluded(answer, metrics, replies) ELSE DOMAIN metrics = MetricNames
      /\ overall = OverallOf(answer, metrics)
  BY DEF EvaluationInv
<1>2. Known(metrics)
  BY <1>1, EvaluatedIsKnown
<1>3. PICK low \in 0..Scale, high \in 0..Scale :
        /\ low = E!Min(marks) /\ high = E!Max(marks)
        /\ WeightOf(metrics) * low <= WeighedSum(metrics)
        /\ WeighedSum(metrics) <= WeightOf(metrics) * high
  BY <1>2, MarksHaveBounds
<1> HIDE DEF marks
<1>4. PICK P \in Nat : P = PenaltyOf(answer, metrics)
  <2>1. HallucinationOf(answer) \in Nat
    BY <1>1, HallucinationType, AnswerConstants
  <2>2. metrics["prompt_injection_risk"].score \in Nat
    BY <1>1, AnswerConstants DEF MetricsOK
  <2>3. QED
    BY <2>1, <2>2 DEF PenaltyOf
<1>5. E!Penalty = P
  BY <1>4, HallucinationIs DEF E!Penalty, PenaltyOf
<1>6. PICK W \in {65, 100} : W = WeightOf(metrics)
  BY DEF WeightOf
<1>7. PICK sum \in Nat : sum = WeighedSum(metrics)
  <2>1. /\ metrics["relevance"].score \in Nat /\ metrics["faithfulness"].score \in Nat
        /\ Reported(metrics) => metrics["judge_quality"].score \in Nat
    BY <1>2 DEF Known, Weighable, MetricNames, Reported
  <2>2. QED
    BY <2>1 DEF WeighedSum
<1>8. Scale \in Nat /\ low \in Nat /\ high \in Nat /\ low <= Scale
  BY AnswerConstants
<1>9. CASE answer.blocked
  <2>1. overall = 0
    BY <1>1, <1>9 DEF OverallOf
  <2>2. 0 <= E!Max({0, 10 * high - P})
    <3>1. 10 * high - P \in Int
      BY <1>8
    <3>2. E!Max({0, 10 * high - P}) = IF 0 >= 10 * high - P THEN 0 ELSE 10 * high - P
      BY <3>1, MaxOfTwo
    <3>3. QED
      BY <3>1, <3>2
  <2>3. QED
    BY <1>3, <1>5, <1>8, <1>9, <2>1, <2>2 DEF marks
<1>10. CASE ~answer.blocked
  <2>1. PICK o : o = OverallFrom(W, sum, P)
    OBVIOUS
  <2>2. /\ o \in 0..Scale
        /\ 10 * o <= E!Max({0, 10 * high - P})
        /\ 10 * (o + 1) > 10 * low - P
        /\ 10 * W * o <= 10 * sum - W * P \/ o = 0
    <3>1. W * low <= sum /\ sum <= W * high
      BY <1>3, <1>6, <1>7
    <3>2. low \in Nat /\ high \in Nat /\ low <= Scale
      BY <1>8
    <3>3. QED
      BY <1>6, <2>1, <3>1, <3>2, Weighing
  <2>3. overall = o
    BY <1>1, <1>4, <1>6, <1>7, <1>10, <2>1 DEF OverallOf
  <2>4. ~answer.grounded /\ ~answer.blank => 1000 * o <= 625 * Scale
    <3>1. o \in Nat
      BY <1>8, <2>2
    <3>2. 10 * WeightOf(metrics) * o
            <= 10 * WeighedSum(metrics) - WeightOf(metrics) * PenaltyOf(answer, metrics) \/ o = 0
      BY <1>4, <1>6, <1>7, <2>2
    <3>3. QED
      BY <1>1, <1>2, <3>1, <3>2, Groundless
  <2>5. QED
    BY <1>3, <1>5, <1>10, <2>2, <2>3, <2>4 DEF marks
<1>11. QED
  BY <1>9, <1>10

\* For every answer, every scale and every judge: before the penalties the overall
\* quality is between the lowest and the highest of its weighed scores, blocked
\* content is worth nothing, and an answer without a context stays below 0.625
\* (pipeline.py).
THEOREM QualityIsAlwaysEarned == SequentialSpec => []QualityIsEarned
BY EvaluationInvariant, QualityIsEarnedHolds, PTL

------------------------------------------------------------------------------
(* Experiments *)

LEMMA ExperimentConstants ==
    Scale \in Nat \ {0} /\ SampleSizes \subseteq Nat /\ Outcomes \subseteq X!OutcomeRecord /\ Threshold \in 0..Scale
BY SequentialAssumption DEF X!ExperimentAssumption

\* The requests of a run that passed, and what they make of its row.
PassingIn(ts) == { i \in DOMAIN ts : ts[i].ok /\ ts[i].quality >= Threshold }
RateOf(ts) == X!Rounded(Scale * Cardinality(PassingIn(ts)), Len(ts))

ExperimentInv ==
    part = "experiment" =>
        /\ size \in [Runs -> SampleSizes]
        /\ traces \in [Runs -> Seq(Outcomes)]
        /\ progress \in [Runs -> {"generating", "evaluating", "done", "refused", "lost"}]
        /\ DOMAIN rows = Runs
        /\ \A r \in Runs :
              /\ progress[r] = "generating" => Len(traces[r]) < size[r]
              /\ progress[r] \in {"evaluating", "done"} => Len(traces[r]) = size[r] /\ size[r] > 0
              /\ progress[r] = "done" => rows[r].pass_rate = RateOf(traces[r])
              /\ progress[r] # "done" => rows[r] = X!NoRow

LEMMA ExperimentStarts == SequentialInit => ExperimentInv
<1> SUFFICES ASSUME SequentialInit, part = "experiment" PROVE ExperimentInv
  BY DEF ExperimentInv
<1>1. X!Init
  BY DEF SequentialInit
<1>2. /\ size \in [Runs -> SampleSizes] /\ traces = [r \in Runs |-> <<>>]
      /\ progress = [r \in Runs |-> IF size[r] = 0 THEN "refused" ELSE "generating"]
      /\ rows = [r \in Runs |-> X!NoRow]
  BY <1>1 DEF X!Init
<1>3. <<>> \in Seq(Outcomes) /\ Len(<<>>) = 0
  BY EmptySeq
<1>4. traces \in [Runs -> Seq(Outcomes)] /\ \A r \in Runs : Len(traces[r]) = 0
  BY <1>2, <1>3
<1>5. \A r \in Runs : size[r] \in Nat
  BY <1>2, ExperimentConstants
<1>6. QED
  BY <1>2, <1>4, <1>5 DEF ExperimentInv

\* The sizes that Experiment reckons with.
LEMMA SameCardinality == ASSUME NEW S PROVE X!Cardinality(S) = Cardinality(S)
BY DEF X!Cardinality, Cardinality

LEMMA RowRate == ASSUME NEW r PROVE X!Row(r).pass_rate = RateOf(traces[r])
<1>1. X!Passing(r) = PassingIn(traces[r])
  BY DEF X!Passing, X!Answered, PassingIn
<1>2. X!Requests(r) = Len(traces[r])
  BY DEF X!Requests
<1>3. QED
  BY <1>1, <1>2, SameCardinality DEF X!Row, RateOf

LEMMA ExperimentStep == ExperimentInv /\ [SequentialNext]_sequentialVars => ExperimentInv'
<1> SUFFICES ASSUME ExperimentInv, [SequentialNext]_sequentialVars, part' = "experiment"
             PROVE  ExperimentInv'
  BY DEF ExperimentInv
<1>1. CASE Experiments
  <2>1. part = "experiment" /\ X!Next
    BY <1>1 DEF Experiments
  <2>2. /\ size \in [Runs -> SampleSizes] /\ traces \in [Runs -> Seq(Outcomes)]
        /\ progress \in [Runs -> {"generating", "evaluating", "done", "refused", "lost"}]
        /\ DOMAIN rows = Runs
        /\ \A r \in Runs :
              /\ progress[r] = "generating" => Len(traces[r]) < size[r]
              /\ progress[r] \in {"evaluating", "done"} => Len(traces[r]) = size[r] /\ size[r] > 0
              /\ progress[r] = "done" => rows[r].pass_rate = RateOf(traces[r])
              /\ progress[r] # "done" => rows[r] = X!NoRow
    BY <2>1 DEF ExperimentInv
  <2>3. PICK r \in Runs :
          (\E outcome \in Outcomes : X!Generate(r, outcome)) \/ X!Evaluate(r) \/ X!Lose(r) \/ X!Finish(r)
    BY <2>1 DEF X!Next
  <2>4. size[r] \in Nat /\ traces[r] \in Seq(Outcomes) /\ Len(traces[r]) \in Nat
    BY <2>2, ExperimentConstants, LenProperties
  <2>5. ASSUME NEW outcome \in Outcomes, X!Generate(r, outcome)
        PROVE  ExperimentInv'
    <3>1. /\ progress[r] = "generating" /\ size' = size /\ rows' = rows
          /\ traces' = [traces EXCEPT ![r] = Append(traces[r], outcome)]
          /\ progress' = [progress EXCEPT ![r] =
                            IF Len(traces'[r]) = size[r] THEN "evaluating" ELSE progress[r]]
      BY <2>5 DEF X!Generate
    <3>2. /\ Append(traces[r], outcome) \in Seq(Outcomes)
          /\ Len(Append(traces[r], outcome)) = Len(traces[r]) + 1
      BY <2>4, AppendProperties
    <3>3. /\ traces' \in [Runs -> Seq(Outcomes)]
          /\ progress' \in [Runs -> {"generating", "evaluating", "done", "refused", "lost"}]
      BY <2>2, <3>1, <3>2
    <3>4. ASSUME NEW s \in Runs
          PROVE  /\ progress'[s] = "generating" => Len(traces'[s]) < size'[s]
                 /\ progress'[s] \in {"evaluating", "done"} =>
                      Len(traces'[s]) = size'[s] /\ size'[s] > 0
                 /\ progress'[s] = "done" => rows'[s].pass_rate = RateOf(traces'[s])
                 /\ progress'[s] # "done" => rows'[s] = X!NoRow
      <4>1. CASE s # r
        BY <2>2, <3>1, <4>1
      <4>2. CASE s = r
        <5>1. Len(traces'[r]) = Len(traces[r]) + 1 /\ Len(traces[r]) < size[r]
          BY <2>2, <3>1, <3>2
        <5>2. progress'[r] = IF Len(traces'[r]) = size[r] THEN "evaluating" ELSE "generating"
          BY <2>2, <3>1
        <5>3. QED
          BY <2>2, <2>4, <3>1, <4>2, <5>1, <5>2
      <4>3. QED
        BY <4>1, <4>2
    <3>5. QED
      BY <2>2, <3>1, <3>3, <3>4 DEF ExperimentInv
  <2>6. CASE X!Evaluate(r)
    BY <2>1, <2>2, <2>6 DEF ExperimentInv, X!Evaluate
  <2>7. CASE X!Lose(r)
    <3>1. /\ progress[r] \in {"generating", "evaluating"} /\ size' = size /\ rows' = rows
          /\ progress' = [progress EXCEPT ![r] = "lost"]
          /\ traces' = [traces EXCEPT ![r] = <<>>]
      BY <2>7 DEF X!Lose
    <3>2. <<>> \in Seq(Outcomes)
      BY EmptySeq
    <3>3. \A s \in Runs : s # r => progress'[s] = progress[s] /\ traces'[s] = traces[s]
      BY <2>2, <3>1
    <3>4. progress'[r] = "lost" /\ rows'[r] = X!NoRow
      BY <2>2, <3>1
    <3>5. QED
      BY <2>2, <3>1, <3>2, <3>3, <3>4 DEF ExperimentInv
  <2>8. CASE X!Finish(r)
    <3>1. /\ progress[r] = "evaluating" /\ size' = size /\ traces' = traces
          /\ rows' = [rows EXCEPT ![r] = X!Row(r)]
          /\ progress' = [progress EXCEPT ![r] = "done"]
      BY <2>8 DEF X!Finish
    <3>2. rows'[r].pass_rate = RateOf(traces[r])
      BY <2>2, <3>1, RowRate
    <3>3. \A s \in Runs : s # r => progress'[s] = progress[s] /\ rows'[s] = rows[s]
      BY <2>2, <3>1
    <3>4. progress'[r] = "done" /\ DOMAIN rows' = Runs
      BY <2>2, <3>1
    <3>5. QED
      BY <2>2, <3>1, <3>2, <3>3, <3>4 DEF ExperimentInv
  <2>9. QED
    BY <2>3, <2>5, <2>6, <2>7, <2>8
<1>2. CASE ~Experiments
  <2>1. part = "experiment" /\ UNCHANGED << size, traces, evaluated, progress, rows >>
    BY <1>2 DEF SequentialNext, Verdict, Request, Evaluation, Corpora, sequentialVars, experimentVars
  <2>2. QED
    BY <2>1 DEF ExperimentInv
<1>3. QED
  BY <1>1, <1>2

LEMMA ExperimentInvariant == SequentialSpec => []ExperimentInv
<1>1. QED
  BY ExperimentStarts, ExperimentStep, PTL DEF SequentialSpec

\* Rounding is to the nearest, and keeps the order.
LEMMA RoundedIs ==
  ASSUME NEW x \in Nat, NEW n \in Nat \ {0}
  PROVE  /\ X!Rounded(x, n) \in Nat
         /\ 2 * (X!Rounded(x, n) * n) <= 2 * x + n /\ 2 * x <= 2 * (X!Rounded(x, n) * n) + n
<1>1. PICK a \in Nat, d \in Nat \ {0} : a = 2 * x + n /\ d = 2 * n
  OBVIOUS
<1>2. PICK q \in Nat : q = a \div d /\ d * q <= a /\ a < d * q + d
  BY Quotient
<1>3. X!Rounded(x, n) = q
  BY <1>1, <1>2 DEF X!Rounded
<1>4. d * q = 2 * (q * n)
  BY <1>1
<1>5. PICK y \in Nat : y = q * n
  OBVIOUS
<1>6. 2 * y <= 2 * x + n /\ 2 * x + n < 2 * y + 2 * n
  BY <1>1, <1>2, <1>4, <1>5
<1>7. 2 * y <= 2 * x + n /\ 2 * x <= 2 * y + n
  BY <1>5, <1>6
<1>8. QED
  BY <1>3, <1>5, <1>7

LEMMA RoundedOrders ==
  ASSUME NEW x \in Nat, NEW y \in Nat, NEW n \in Nat \ {0}, x <= y
  PROVE  X!Rounded(x, n) <= X!Rounded(y, n)
<1>1. PICK a \in Nat, b \in Nat, d \in Nat \ {0} :
        a = 2 * x + n /\ b = 2 * y + n /\ d = 2 * n /\ a <= b
  OBVIOUS
<1>2. PICK q \in Nat : q = a \div d /\ d * q <= a
  BY Quotient
<1>3. q * d <= b
  BY <1>1, <1>2
<1>4. q <= b \div d
  BY <1>3, Quotient
<1>5. QED
  BY <1>1, <1>2, <1>4 DEF X!Rounded

\* Of n requests, those that passed and those that did not.
LEMMA RateIsEarned ==
  ASSUME NEW ts \in Seq(Outcomes), NEW n \in Nat \ {0}, Len(ts) = n
  PROVE  LET bad == { i \in 1..n : ~ts[i].ok \/ ts[i].quality < Threshold }
         IN  /\ 2 * (RateOf(ts) * n) <= 2 * (Scale * (n - Cardinality(bad))) + n
             /\ 2 * (Scale * (n - Cardinality(bad))) <= 2 * (RateOf(ts) * n) + n
<1> DEFINE bad == { i \in 1..n : ~ts[i].ok \/ ts[i].quality < Threshold }
           good == PassingIn(ts)
<1>1. DOMAIN ts = 1..n /\ \A i \in 1..n : ts[i] \in Outcomes
  BY LenProperties, ElementOfSeq
<1>2. \A i \in 1..n : ts[i].quality \in Int
  BY <1>1, ExperimentConstants DEF X!OutcomeRecord
<1>3. Threshold \in Int /\ Scale \in Nat \ {0}
  BY ExperimentConstants
<1>4. good = (1..n) \ bad /\ bad \subseteq 1..n
  BY <1>1, <1>2, <1>3 DEF PassingIn
<1> HIDE DEF bad, good
<1>5. IsFiniteSet(1..n) /\ Cardinality(1..n) = n
  BY FS_Interval
<1>6. IsFiniteSet(bad) /\ IsFiniteSet(good)
  BY <1>4, <1>5, FS_Subset
<1>7. PICK b \in Nat, c \in Nat : b = Cardinality(bad) /\ c = Cardinality(good) /\ c = n - b
  <2>1. Cardinality(bad) \in Nat /\ Cardinality(good) \in Nat
    BY <1>6, FS_CardinalityType
  <2>2. Cardinality((1..n) \ bad) = Cardinality(1..n) - Cardinality((1..n) \cap bad)
    BY <1>5, FS_Difference
  <2>3. (1..n) \cap bad = bad
    BY <1>4
  <2>4. QED
    BY <1>4, <1>5, <2>1, <2>2, <2>3
<1>8. Scale * c \in Nat
  BY <1>3
<1>9. RateOf(ts) = X!Rounded(Scale * c, n)
  BY <1>7 DEF RateOf, good
<1>10. /\ 2 * (RateOf(ts) * n) <= 2 * (Scale * c) + n
       /\ 2 * (Scale * c) <= 2 * (RateOf(ts) * n) + n
  BY <1>8, <1>9, RoundedIs
<1>11. c = n - Cardinality(bad)
  BY <1>7
<1>12. QED
  BY <1>10, <1>11 DEF bad

\* No worse on any request, no lower a rate.
LEMMA RatesOrder ==
  ASSUME NEW ts \in Seq(Outcomes), NEW us \in Seq(Outcomes), NEW n \in Nat \ {0},
         Len(ts) = n, Len(us) = n, \A i \in 1..n : X!NoWorse(ts[i], us[i])
  PROVE  RateOf(ts) \in Nat /\ RateOf(us) \in Nat /\ RateOf(us) <= RateOf(ts)
<1>1. /\ DOMAIN ts = 1..n /\ DOMAIN us = 1..n
      /\ \A i \in 1..n : ts[i] \in Outcomes /\ us[i] \in Outcomes
  BY LenProperties, ElementOfSeq
<1>2. \A i \in 1..n : ts[i].quality \in Int /\ us[i].quality \in Int
  <2>1. \A u \in Outcomes : u.quality \in Int
    BY ExperimentConstants DEF X!OutcomeRecord
  <2>2. QED
    BY <1>1, <2>1
<1>3. Threshold \in Int /\ Scale \in Nat
  BY ExperimentConstants
<1>4. PassingIn(us) \subseteq PassingIn(ts) /\ PassingIn(ts) \subseteq 1..n
  BY <1>1, <1>2, <1>3 DEF PassingIn, X!NoWorse
<1>5. IsFiniteSet(PassingIn(ts)) /\ IsFiniteSet(PassingIn(us))
  BY <1>4, FS_Interval, FS_Subset
<1>6. PICK c \in Nat, d \in Nat :
        c = Cardinality(PassingIn(ts)) /\ d = Cardinality(PassingIn(us)) /\ d <= c
  BY <1>4, <1>5, FS_CardinalityType, FS_Subset
<1>7. PICK a \in Nat, b \in Nat : a = Scale * c /\ b = Scale * d /\ b <= a
  <2>1. Scale * c \in Nat /\ Scale * d \in Nat /\ Scale * d <= Scale * c
    BY <1>3, <1>6, Times
  <2>2. QED
    BY <2>1
<1>8. RateOf(ts) = X!Rounded(a, n) /\ RateOf(us) = X!Rounded(b, n)
  BY <1>6, <1>7 DEF RateOf
<1>9. X!Rounded(b, n) <= X!Rounded(a, n) /\ X!Rounded(a, n) \in Nat /\ X!Rounded(b, n) \in Nat
  BY <1>7, RoundedIs, RoundedOrders
<1>10. QED
  BY <1>8, <1>9

LEMMA PassRateIsEarnedHolds == ExperimentInv => PassRateIsEarned
<1> SUFFICES ASSUME ExperimentInv, part = "experiment" PROVE X!PassRateIsEarned
  BY DEF PassRateIsEarned
<1>1. /\ size \in [Runs -> SampleSizes] /\ traces \in [Runs -> Seq(Outcomes)]
      /\ \A r \in Runs :
            /\ progress[r] \in {"evaluating", "done"} => Len(traces[r]) = size[r] /\ size[r] > 0
            /\ progress[r] = "done" => rows[r].pass_rate = RateOf(traces[r])
            /\ progress[r] # "done" => rows[r] = X!NoRow
  BY DEF ExperimentInv
<1>2. \A r \in X!Committed :
        /\ r \in Runs /\ traces[r] \in Seq(Outcomes) /\ size[r] \in Nat \ {0}
        /\ Len(traces[r]) = size[r] /\ rows[r].pass_rate = RateOf(traces[r])
  <2> SUFFICES ASSUME NEW r \in X!Committed
               PROVE  /\ r \in Runs /\ traces[r] \in Seq(Outcomes) /\ size[r] \in Nat \ {0}
                      /\ Len(traces[r]) = size[r] /\ rows[r].pass_rate = RateOf(traces[r])
    OBVIOUS
  <2>1. r \in Runs /\ progress[r] = "done"
    BY DEF X!Committed
  <2>2. size[r] \in Nat
    BY <1>1, <2>1, ExperimentConstants
  <2>3. QED
    BY <1>1, <2>1, <2>2
<1>3. \A r \in Runs \ X!Committed : rows[r] = X!NoRow
  BY <1>1 DEF X!Committed
<1>4. ASSUME NEW r \in X!Committed
      PROVE  LET n == size[r]
                 bad == { i \in 1..n : ~traces[r][i].ok \/ traces[r][i].quality < Threshold }
                 exact == 2 * (Scale * (n - Cardinality(bad)))
                 kept == 2 * (rows[r].pass_rate * n)
             IN  kept <= exact + n /\ exact <= kept + n
  <2>1. PICK n \in Nat \ {0}, ts \in Seq(Outcomes) : n = size[r] /\ ts = traces[r] /\ Len(ts) = n
    BY <1>2
  <2> DEFINE bad == { i \in 1..n : ~ts[i].ok \/ ts[i].quality < Threshold }
  <2>2. 2 * (RateOf(ts) * n) <= 2 * (Scale * (n - Cardinality(bad))) + n
    BY <2>1, RateIsEarned
  <2>3. 2 * (Scale * (n - Cardinality(bad))) <= 2 * (RateOf(ts) * n) + n
    BY <2>1, RateIsEarned
  <2>4. rows[r].pass_rate = RateOf(ts)
    BY <1>2, <2>1
  <2>5. QED
    BY <2>1, <2>2, <2>3, <2>4
<1>5. ASSUME NEW r \in X!Committed, NEW s \in X!Committed, size[r] = size[s],
             \A i \in 1..size[r] : X!NoWorse(traces[r][i], traces[s][i])
      PROVE  X!Better(rows[r], rows[s], "pass_rate") # "b"
  <2>1. PICK n \in Nat \ {0}, ts \in Seq(Outcomes), us \in Seq(Outcomes) :
          n = size[r] /\ ts = traces[r] /\ us = traces[s] /\ Len(ts) = n /\ Len(us) = n
    BY <1>2, <1>5
  <2>2. \A i \in 1..n : X!NoWorse(ts[i], us[i])
    BY <1>5, <2>1
  <2>3. PICK p \in Nat, q \in Nat : p = RateOf(ts) /\ q = RateOf(us) /\ q <= p
    BY <2>1, <2>2, RatesOrder
  <2>4. rows[r].pass_rate = p /\ rows[s].pass_rate = q
    BY <1>2, <2>1, <2>3
  <2>5. CASE p = q
    BY <2>4, <2>5 DEF X!Better, X!HigherIsBetter
  <2>6. CASE p # q
    BY <2>3, <2>4, <2>6 DEF X!Better, X!HigherIsBetter
  <2>7. QED
    BY <2>5, <2>6
<1>6. QED
  BY <1>3, <1>4, <1>5, SameCardinality DEF X!PassRateIsEarned

\* For any number of runs over samples of any size: the rate that gates a promotion
\* is that of all requests of the run, rounded to the decimals that are kept, and a run
\* that is no worse on any request never loses to another on it
\* (services/experiments.py).
THEOREM PassRatesAreEarned == SequentialSpec => []PassRateIsEarned
BY ExperimentInvariant, PassRateIsEarnedHolds, PTL

------------------------------------------------------------------------------
(* The verdict on a rollout *)

Evidence == [failed : Nat, unscored : Nat, scored : [Scores -> Nat]]
Thresholds ==
    [ qualityFloor : GuardValues, maxQualityRegression : GuardValues,
      maxErrorRate : GuardValues, minSampleSize : MinSamples ]

VerdictInv ==
    part = "verdict" =>
        /\ seen \in [{"challenger", "incumbent"} -> Evidence]
        /\ guards \in Thresholds

LEMMA PolicyConstants ==
    /\ RateScale \in Nat \ {0} /\ Scores \subseteq 0..RateScale /\ IsFiniteSet(Scores)
    /\ Scores \subseteq Nat /\ GuardValues \subseteq Nat /\ MinSamples \subseteq Nat
<1>1. /\ RateScale \in Nat \ {0} /\ Scores \subseteq 0..RateScale
      /\ GuardValues \subseteq 0..RateScale /\ MinSamples \subseteq Nat
  BY SequentialAssumption DEF V!PolicyAssumption
<1>2. IsFiniteSet(Scores)
  <2>1. 0 \in Int /\ RateScale \in Int
    BY <1>1
  <2>2. IsFiniteSet(0..RateScale)
    BY <2>1, FS_Interval
  <2>3. QED
    BY <1>1, <2>2, FS_Subset
<1>3. QED
  BY <1>1, <1>2

LEMMA VerdictStarts == SequentialInit => VerdictInv
<1> SUFFICES ASSUME SequentialInit, part = "verdict" PROVE VerdictInv
  BY DEF VerdictInv
<1>1. V!Init
  BY DEF SequentialInit
<1>2. [q \in Scores |-> 0] \in [Scores -> Nat]
  OBVIOUS
<1>3. QED
  BY <1>1, <1>2 DEF V!Init, V!Arms, VerdictInv, Evidence, Thresholds

LEMMA VerdictStep == VerdictInv /\ [SequentialNext]_sequentialVars => VerdictInv'
<1> SUFFICES ASSUME VerdictInv, [SequentialNext]_sequentialVars, part' = "verdict"
             PROVE  VerdictInv'
  BY DEF VerdictInv
<1>1. CASE Verdict
  <2>1. part = "verdict" /\ V!Next
    BY <1>1 DEF Verdict
  <2>2. seen \in [{"challenger", "incumbent"} -> Evidence] /\ guards \in Thresholds
    BY <2>1 DEF VerdictInv
  <2>3. PICK a \in {"challenger", "incumbent"} :
          V!ObserveFailure(a) \/ V!ObserveUnscored(a) \/ \E q \in Scores : V!ObserveScored(a, q)
    BY <2>1 DEF V!Next, V!Arms
  <2>4. PICK s \in Evidence : s = seen[a]
    BY <2>2
  <2>5. s.failed \in Nat /\ s.unscored \in Nat /\ s.scored \in [Scores -> Nat]
    BY DEF Evidence
  <2>6. guards' = guards
    BY <2>3 DEF V!ObserveFailure, V!ObserveUnscored, V!ObserveScored
  <2>7. \E t \in Evidence : seen' = [seen EXCEPT ![a] = t]
    <3>1. CASE V!ObserveFailure(a)
      <4>1. [s EXCEPT !.failed = s.failed + 1] \in Evidence
        BY <2>5 DEF Evidence
      <4>2. QED
        BY <2>4, <3>1, <4>1 DEF V!ObserveFailure
    <3>2. CASE V!ObserveUnscored(a)
      <4>1. [s EXCEPT !.unscored = s.unscored + 1] \in Evidence
        BY <2>5 DEF Evidence
      <4>2. QED
        BY <2>4, <3>2, <4>1 DEF V!ObserveUnscored
    <3>3. ASSUME NEW q \in Scores, V!ObserveScored(a, q)
          PROVE  \E t \in Evidence : seen' = [seen EXCEPT ![a] = t]
      <4>1. [s.scored EXCEPT ![q] = s.scored[q] + 1] \in [Scores -> Nat]
        BY <2>5
      <4>2. [s EXCEPT !.scored = [s.scored EXCEPT ![q] = s.scored[q] + 1]] \in Evidence
        BY <4>1 DEF Evidence
      <4>3. QED
        BY <2>4, <3>3, <4>2 DEF V!ObserveScored
    <3>4. QED
      BY <2>3, <3>1, <3>2, <3>3
  <2>8. seen' \in [{"challenger", "incumbent"} -> Evidence]
    BY <2>2, <2>7
  <2>9. QED
    BY <2>2, <2>6, <2>8 DEF VerdictInv
<1>2. CASE ~Verdict
  <2>1. part = "verdict" /\ UNCHANGED << seen, guards >>
    BY <1>2 DEF SequentialNext, Request, Evaluation, Experiments, Corpora, sequentialVars, verdictVars
  <2>2. QED
    BY <2>1 DEF VerdictInv
<1>3. QED
  BY <1>1, <1>2

LEMMA VerdictInvariant == SequentialSpec => []VerdictInv
<1>1. QED
  BY VerdictStarts, VerdictStep, PTL DEF SequentialSpec

\* The evaluated requests of an arm, and the sum of their scores.
EvaluatedOf(s) == Sum(s.scored, Scores)
QualityOf(s) == Sum([q \in Scores |-> q * s.scored[q]], Scores)

LEMMA EvidenceType ==
  ASSUME NEW s \in Evidence
  PROVE  /\ s.failed \in Nat /\ s.unscored \in Nat
         /\ \A q \in Scores : q \in Nat /\ s.scored[q] \in Nat /\ q * s.scored[q] \in Nat
         /\ EvaluatedOf(s) \in Nat /\ QualityOf(s) \in Nat
<1>1. \A q \in Scores : q \in Nat /\ s.scored[q] \in Nat
  BY PolicyConstants DEF Evidence
<1>2. \A q \in Scores : q * s.scored[q] \in Nat
  BY <1>1, OnceMore
<1>3. EvaluatedOf(s) \in Nat
  BY <1>1, PolicyConstants, SumType DEF EvaluatedOf
<1>4. PICK f : f = [q \in Scores |-> q * s.scored[q]]
  OBVIOUS
<1>5. \A q \in Scores : f[q] \in Nat
  BY <1>2, <1>4
<1>6. Sum(f, Scores) \in Nat
  BY <1>5, PolicyConstants, SumType
<1>7. QED
  BY <1>1, <1>2, <1>3, <1>4, <1>6 DEF QualityOf, Evidence

LEMMA EvaluatedIs == ASSUME NEW s PROVE V!MapThenSumSet(LAMBDA q : s.scored[q], Scores) = EvaluatedOf(s)
<1> DEFINE f == s.scored
           Adds(g) == g = [u \in SUBSET Scores |->
                             IF u = {} THEN 0 ELSE s.scored[Some(u)] + g[u \ {Some(u)}]]
           h == CHOOSE g : Adds(g)
<1>1. ASSUME NEW g PROVE Adds(g) <=> SumsUp(g, f, Scores)
  BY DEF SumsUp
<1>2. V!MapThenSumSet(LAMBDA q : s.scored[q], Scores) = h[Scores]
  BY DEF V!MapThenSumSet, V!MapThenFoldSet, Some
<1> HIDE DEF Adds, f
<1>3. \E g : Adds(g)
  BY <1>1, SumsExist, PolicyConstants
<1>4. Adds(h)
  BY <1>3
<1> HIDE DEF h
<1>5. h[Scores] = Sum(f, Scores)
  BY <1>1, <1>4, SumIsFold, PolicyConstants
<1>6. QED
  BY <1>2, <1>5 DEF f, EvaluatedOf

LEMMA QualityIs ==
  ASSUME NEW s
  PROVE  V!MapThenSumSet(LAMBDA q : q * s.scored[q], Scores) = QualityOf(s)
<1> DEFINE f == [q \in Scores |-> q * s.scored[q]]
           Adds(g) == g = [u \in SUBSET Scores |->
                             IF u = {} THEN 0
                             ELSE Some(u) * s.scored[Some(u)] + g[u \ {Some(u)}]]
           h == CHOOSE g : Adds(g)
<1>1. \A u \in SUBSET Scores : u # {} => Some(u) * s.scored[Some(u)] = f[Some(u)]
  BY SomeIn
<1>2. ASSUME NEW g PROVE Adds(g) <=> SumsUp(g, f, Scores)
  BY <1>1 DEF SumsUp
<1>3. V!MapThenSumSet(LAMBDA q : q * s.scored[q], Scores) = h[Scores]
  BY DEF V!MapThenSumSet, V!MapThenFoldSet, Some
<1> HIDE DEF Adds, f
<1>4. \E g : Adds(g)
  BY <1>2, SumsExist, PolicyConstants
<1>5. Adds(h)
  BY <1>4
<1> HIDE DEF h
<1>6. h[Scores] = Sum(f, Scores)
  BY <1>2, <1>5, SumIsFold, PolicyConstants
<1>7. QED
  BY <1>3, <1>6 DEF f, QualityOf

\* The margin of an arm over the floor is a sum over its requests.
LEMMA FloorMarginIs ==
  ASSUME NEW s \in Evidence, guards \in Thresholds
  PROVE  V!FloorMargin(s) = QualityOf(s) - guards.qualityFloor * EvaluatedOf(s)
<1> DEFINE f == [q \in Scores |-> s.scored[q] * (q - guards.qualityFloor)]
           Adds(g) == g = [u \in SUBSET Scores |->
                             IF u = {} THEN 0
                             ELSE s.scored[Some(u)] * (Some(u) - guards.qualityFloor)
                                    + g[u \ {Some(u)}]]
           h == CHOOSE g : Adds(g)
<1>1. \A u \in SUBSET Scores :
        u # {} => s.scored[Some(u)] * (Some(u) - guards.qualityFloor) = f[Some(u)]
  BY SomeIn
<1>2. ASSUME NEW g PROVE Adds(g) <=> SumsUp(g, f, Scores)
  BY <1>1 DEF SumsUp
<1>3. V!FloorMargin(s) = h[Scores]
  BY DEF V!FloorMargin, V!MapThenSumSet, V!MapThenFoldSet, Some
<1>4. PICK k \in Nat : k = guards.qualityFloor
  BY PolicyConstants DEF Thresholds
<1>5. PICK t : t = [q \in Scores |-> q * s.scored[q]]
  OBVIOUS
<1>6. \A q \in Scores : f[q] = 1 * t[q] + (0 - k) * s.scored[q]
  <2>1. SUFFICES ASSUME NEW q \in Scores PROVE f[q] = 1 * t[q] + (0 - k) * s.scored[q]
    OBVIOUS
  <2>2. PICK n \in Nat, c \in Nat : n = q /\ c = s.scored[q]
    BY EvidenceType
  <2>3. c * (n - k) = 1 * (n * c) + (0 - k) * c
    OBVIOUS
  <2>4. QED
    BY <1>4, <1>5, <2>2, <2>3
<1> HIDE DEF Adds, f
<1>7. \E g : Adds(g)
  BY <1>2, SumsExist, PolicyConstants
<1>8. Adds(h)
  BY <1>7
<1> HIDE DEF h
<1>9. V!FloorMargin(s) = Sum(f, Scores)
  BY <1>2, <1>3, <1>8, SumIsFold, PolicyConstants
<1>10. \A q \in Scores : t[q] \in Int /\ s.scored[q] \in Int
  BY <1>5, EvidenceType
<1>11. PICK w : w = s.scored
  OBVIOUS
<1>12. 1 \in Int /\ 0 - k \in Int
  BY <1>4
<1>13. Sum(f, Scores) = 1 * Sum(t, Scores) + (0 - k) * Sum(w, Scores)
  <2>1. Combines(f, 1, t, 0 - k, w, Scores)
    BY <1>6, <1>10, <1>11 DEF Combines
  <2>2. QED
    BY <1>12, <2>1, PolicyConstants, SumLinear
<1>14. PICK a \in Nat, b \in Nat : a = Sum(t, Scores) /\ b = Sum(w, Scores)
                                   /\ a = QualityOf(s) /\ b = EvaluatedOf(s)
  BY <1>5, <1>11, EvidenceType DEF QualityOf, EvaluatedOf
<1>15. 1 * a + (0 - k) * b = a - k * b
  OBVIOUS
<1>16. QED
  BY <1>4, <1>9, <1>13, <1>14, <1>15

\* The margin of one arm over another, over all pairs of one score of each.
LEMMA PairMarginIs ==
  ASSUME NEW c \in Evidence, NEW i \in Evidence, guards \in Thresholds
  PROVE  V!PairMargin(c, i)
           = EvaluatedOf(i) * QualityOf(c)
               + (guards.maxQualityRegression * EvaluatedOf(i) - QualityOf(i)) * EvaluatedOf(c)
<1> DEFINE P == Scores \X Scores
           Term(p) == c.scored[p[1]] * i.scored[p[2]]
                        * (p[1] - p[2] + guards.maxQualityRegression)
           f == [p \in P |-> Term(p)]
           Adds(g) == g = [u \in SUBSET P |->
                             IF u = {} THEN 0 ELSE Term(Some(u)) + g[u \ {Some(u)}]]
           h == CHOOSE g : Adds(g)
<1>1. IsFiniteSet(P)
  BY PolicyConstants, FS_Product
<1>2. \A u \in SUBSET P : u # {} => Term(Some(u)) = f[Some(u)]
  BY SomeIn
<1>3. ASSUME NEW g PROVE Adds(g) <=> SumsUp(g, f, P)
  BY <1>2 DEF SumsUp
<1>4. V!PairMargin(c, i) = h[P]
  BY DEF V!PairMargin, V!MapThenSumSet, V!MapThenFoldSet, Some
<1>5. PICK r \in Nat : r = guards.maxQualityRegression
  BY PolicyConstants DEF Thresholds
<1>6. \A x \in Scores, y \in Scores :
        f[<< x, y >>] = c.scored[x] * i.scored[y] * (x - y + r)
  BY <1>5
<1> HIDE DEF Adds, f, P
<1>7. \E g : Adds(g)
  BY <1>1, <1>3, SumsExist
<1>8. Adds(h)
  BY <1>7
<1> HIDE DEF h
<1>9. V!PairMargin(c, i) = Sum(f, P)
  BY <1>1, <1>3, <1>4, <1>8, SumIsFold
<1>10. PICK t, u, v, w : /\ t = [q \in Scores |-> q * c.scored[q]] /\ u = c.scored
                         /\ v = [q \in Scores |-> q * i.scored[q]] /\ w = i.scored
  OBVIOUS
<1>11. /\ \A q \in Scores : q \in Nat /\ u[q] \in Nat /\ w[q] \in Nat
       /\ \A q \in Scores : t[q] = q * u[q] /\ v[q] = q * w[q] /\ t[q] \in Nat /\ v[q] \in Nat
  BY <1>10, EvidenceType
<1>12. PICK Qc \in Nat, Ec \in Nat, Qi \in Nat, Ei \in Nat :
         /\ Qc = QualityOf(c) /\ Ec = EvaluatedOf(c) /\ Qi = QualityOf(i) /\ Ei = EvaluatedOf(i)
         /\ Sum(t, Scores) = Qc /\ Sum(u, Scores) = Ec /\ Sum(v, Scores) = Qi /\ Sum(w, Scores) = Ei
  BY <1>10, EvidenceType DEF QualityOf, EvaluatedOf
\* A row: one score of the first arm against all of the second.
<1>13. ASSUME NEW x \in Scores
       PROVE  Sum([y \in Scores |-> f[<< x, y >>]], Scores) = Ei * t[x] + (r * Ei - Qi) * u[x]
  <2>1. PICK row : row = [y \in Scores |-> f[<< x, y >>]]
    OBVIOUS
  <2>2. PICK n \in Nat, m \in Nat : n = x /\ m = u[x] /\ m = c.scored[x]
    BY <1>10, <1>11
  <2>3. PICK k \in Int, l \in Int : k = m * (n + r) /\ l = 0 - m
    BY Multiples
  <2>4. \A y \in Scores : row[y] = k * w[y] + l * v[y]
    <3>1. SUFFICES ASSUME NEW y \in Scores PROVE row[y] = k * w[y] + l * v[y]
      OBVIOUS
    <3>2. PICK a \in Nat, b \in Nat : a = y /\ b = w[y] /\ b = i.scored[y] /\ v[y] = a * b
      BY <1>10, <1>11
    <3>3. row[y] = m * b * (n - a + r)
      BY <1>6, <2>1, <2>2, <3>2
    <3>4. m * b * (n - a + r) = (m * (n + r)) * b + (0 - m) * (a * b)
      OBVIOUS
    <3>5. QED
      BY <2>3, <3>2, <3>3, <3>4
  <2>5. \A y \in Scores : w[y] \in Int /\ v[y] \in Int
    BY <1>11
  <2>6. Sum(row, Scores) = k * Sum(w, Scores) + l * Sum(v, Scores)
    <3>1. Combines(row, k, w, l, v, Scores)
      BY <2>4, <2>5 DEF Combines
    <3>2. QED
      BY <3>1, PolicyConstants, SumLinear
  <2>7. k * Ei + l * Qi = Ei * (n * m) + (r * Ei - Qi) * m
    <3>1. (m * (n + r)) * Ei + (0 - m) * Qi = Ei * (n * m) + (r * Ei - Qi) * m
      OBVIOUS
    <3>2. QED
      BY <2>3, <3>1
  <2>8. t[x] = n * m /\ u[x] = m
    BY <1>11, <2>2
  <2>9. QED
    BY <1>12, <2>1, <2>6, <2>7, <2>8
<1>14. PICK g : g = [x \in Scores |-> Ei * t[x] + (r * Ei - Qi) * u[x]]
  OBVIOUS
<1>15. \A x \in Scores, y \in Scores : f[<< x, y >>] \in Int
  <2>1. SUFFICES ASSUME NEW x \in Scores, NEW y \in Scores PROVE f[<< x, y >>] \in Int
    OBVIOUS
  <2>2. PICK n \in Nat, m \in Nat, a \in Nat, b \in Nat :
          n = x /\ m = c.scored[x] /\ a = y /\ b = i.scored[y]
    BY <1>10, <1>11
  <2>3. m * b * (n - a + r) \in Int
    OBVIOUS
  <2>4. QED
    BY <1>6, <2>2, <2>3
<1>16. \A x \in Scores : g[x] = Sum([y \in Scores |-> f[<< x, y >>]], Scores)
  BY <1>13, <1>14
<1>17. Sum(f, Scores \X Scores) = Sum(g, Scores)
  <2>1. RowsAddUp(g, f, Scores, Scores)
    BY <1>15, <1>16 DEF RowsAddUp
  <2>2. QED
    BY <2>1, PolicyConstants, SumOfRows
<1>18. PICK d \in Int : d = r * Ei - Qi
  <2>1. r * Ei \in Nat
    BY OnceMore
  <2>2. QED
    BY <2>1
<1>19. \A x \in Scores : t[x] \in Int /\ u[x] \in Int /\ g[x] = Ei * t[x] + d * u[x]
  BY <1>11, <1>14, <1>18
<1>20. Ei \in Int
  OBVIOUS
<1>21. Sum(g, Scores) = Ei * Sum(t, Scores) + d * Sum(u, Scores)
  <2>1. Combines(g, Ei, t, d, u, Scores)
    BY <1>19 DEF Combines
  <2>2. QED
    BY <1>20, <2>1, PolicyConstants, SumLinear
<1>22. QED
  BY <1>5, <1>9, <1>12, <1>17, <1>18, <1>21 DEF P

\* The window of the code, and its verdict.
LEMMA EvidenceWindowIs ==
  ASSUME NEW s \in Evidence
  PROVE  /\ V!RequestsOf(s) = s.failed + s.unscored + EvaluatedOf(s)
         /\ V!WindowOf(s) = [ requests |-> s.failed + s.unscored + EvaluatedOf(s),
                              errors |-> s.failed, evaluated |-> EvaluatedOf(s),
                              quality |-> QualityOf(s) ]
BY EvaluatedIs, QualityIs DEF V!RequestsOf, V!WindowOf

LEMMA VerdictIsExactHolds == VerdictInv => VerdictIsExact
<1> SUFFICES ASSUME VerdictInv, part = "verdict" PROVE V!VerdictIsExact
  BY DEF VerdictIsExact
<1>1. guards \in Thresholds
  BY DEF VerdictInv
<1>2. PICK c \in Evidence, i \in Evidence : c = seen["challenger"] /\ i = seen["incumbent"]
  BY DEF VerdictInv
<1>3. PICK Qc \in Nat, Ec \in Nat, Qi \in Nat, Ei \in Nat :
        Qc = QualityOf(c) /\ Ec = EvaluatedOf(c) /\ Qi = QualityOf(i) /\ Ei = EvaluatedOf(i)
  BY EvidenceType
<1>4. PICK fails \in Nat, others \in Nat : fails = c.failed /\ others = c.unscored
  BY EvidenceType
<1>5. PICK floor \in Nat, drop \in Nat, rate \in Nat, least \in Nat, full \in Nat :
        /\ floor = guards.qualityFloor /\ drop = guards.maxQualityRegression
        /\ rate = guards.maxErrorRate /\ least = guards.minSampleSize /\ full = RateScale
  BY <1>1, PolicyConstants DEF Thresholds
<1>6. PICK w, x : w = V!WindowOf(c) /\ x = V!WindowOf(i)
  OBVIOUS
<1>7. /\ w.requests = fails + others + Ec /\ w.errors = fails /\ w.evaluated = Ec /\ w.quality = Qc
      /\ x.evaluated = Ei /\ x.quality = Qi
  BY <1>3, <1>4, <1>6, EvidenceWindowIs
<1>8. V!ErrorRateExceeded(w, guards) <=> V!ErrorExcess(c) > 0
  <2>1. V!ErrorExcess(c) = fails * (full - rate) - (fails + others + Ec - fails) * rate
    BY <1>3, <1>4, <1>5, EvidenceWindowIs DEF V!ErrorExcess
  <2>2. V!ErrorRateExceeded(w, guards) <=> fails * full > rate * (fails + others + Ec)
    BY <1>5, <1>7 DEF V!ErrorRateExceeded
  <2>3. fails * (full - rate) - (fails + others + Ec - fails) * rate
          = fails * full - rate * (fails + others + Ec)
    OBVIOUS
  <2>4. fails * full \in Int /\ rate * (fails + others + Ec) \in Int
    OBVIOUS
  <2>5. QED
    BY <2>1, <2>2, <2>3, <2>4
<1>9. V!ErrorExcess(c) > 0 <=> ~(V!ErrorExcess(c) <= 0)
  <2>1. V!ErrorExcess(c) = fails * (full - rate) - (fails + others + Ec - fails) * rate
    BY <1>3, <1>4, <1>5, EvidenceWindowIs DEF V!ErrorExcess
  <2>2. fails * (full - rate) - (fails + others + Ec - fails) * rate \in Int
    OBVIOUS
  <2>3. QED
    BY <2>1, <2>2
<1>10. /\ V!QualityKnown(w, guards) <=> V!Enough(c)
       /\ V!QualityKnown(x, guards) <=> V!Enough(i)
  BY <1>3, <1>7, EvaluatedIs DEF V!QualityKnown, V!Enough
<1>11. /\ V!BelowFloor(w, guards) <=> V!FloorMargin(c) < 0
       /\ V!FloorMargin(c) < 0 <=> ~(V!FloorMargin(c) >= 0)
  <2>1. V!FloorMargin(c) = Qc - floor * Ec
    BY <1>1, <1>3, <1>5, FloorMarginIs
  <2>2. V!BelowFloor(w, guards) <=> Qc < floor * Ec
    BY <1>5, <1>7 DEF V!BelowFloor
  <2>3. floor * Ec \in Nat
    BY OnceMore
  <2>4. QED
    BY <2>1, <2>2, <2>3
<1>12. V!Regressed(w, x, guards) <=> V!PairMargin(c, i) < 0
  <2>1. V!PairMargin(c, i) = Ei * Qc + (drop * Ei - Qi) * Ec
    BY <1>1, <1>3, <1>5, PairMarginIs
  <2>2. V!Regressed(w, x, guards) <=> Qc * Ei < (Qi - drop * Ei) * Ec
    BY <1>5, <1>7 DEF V!Regressed
  <2>3. Ei * Qc + (drop * Ei - Qi) * Ec = Qc * Ei - (Qi - drop * Ei) * Ec
    OBVIOUS
  <2>4. Qc * Ei \in Int /\ (Qi - drop * Ei) * Ec \in Int
    OBVIOUS
  <2>5. QED
    BY <2>1, <2>2, <2>3, <2>4
<1>13. V!Verdict = IF V!ErrorRateExceeded(w, guards) THEN "error_rate"
                   ELSE IF V!QualityKnown(w, guards) /\ V!BelowFloor(w, guards) THEN "quality_floor"
                   ELSE IF /\ V!QualityKnown(w, guards) /\ V!QualityKnown(x, guards)
                           /\ V!Regressed(w, x, guards)
                   THEN "quality_regression"
                   ELSE "none"
  BY <1>2, <1>6 DEF V!Verdict, V!JudgeChallenger
<1>14. /\ V!Verdict = "error_rate" <=> V!ErrorExcess(c) > 0
       /\ V!Verdict = "quality_floor" <=>
            V!ErrorExcess(c) <= 0 /\ V!Enough(c) /\ V!FloorMargin(c) < 0
       /\ V!Verdict = "quality_regression" <=>
            /\ V!ErrorExcess(c) <= 0
            /\ V!Enough(c)
            /\ V!FloorMargin(c) >= 0
            /\ V!Enough(i)
            /\ V!PairMargin(c, i) < 0
  BY <1>8, <1>9, <1>10, <1>11, <1>12, <1>13
<1>15. QED
  BY <1>2, <1>14 DEF V!VerdictIsExact

\* For every scale, every set of scores, every number of requests and every guard:
\* the verdict, which is reached by multiplying across, names the first gate that
\* the requests break one by one (services/rollout_policy.py).
THEOREM VerdictsAreExact == SequentialSpec => []VerdictIsExact
BY VerdictInvariant, VerdictIsExactHolds, PTL

------------------------------------------------------------------------------
(* The n-th of a set of places *)

PlaceOf(i, places) == Cardinality({ j \in places : j <= i })
Nth(places, n) == CHOOSE i \in places : PlaceOf(i, places) = n

LEMMA RankIsThere ==
  ASSUME NEW P, \A i \in P : i \in Nat, IsFiniteSet(P), NEW n \in 1..Cardinality(P)
  PROVE  \E i \in P : PlaceOf(i, P) = n
<1> DEFINE Missing == { S \in SUBSET P : n <= Cardinality(S) /\ \A i \in S : PlaceOf(i, S) # n }
<1> SUFFICES ASSUME Missing # {} PROVE FALSE
  OBVIOUS
<1>1. Missing \subseteq SUBSET P
  OBVIOUS
<1>2. PICK S \in Missing : \A T \in Missing : T \subseteq S => T = S
  <2> HIDE DEF Missing
  <2>1. QED
    BY <1>1, SmallestSet
<1>3. IsFiniteSet(S) /\ (\A i \in S : i \in Nat) /\ n <= Cardinality(S)
  BY FS_Subset
<1>4. S # {}
  BY <1>3, FS_EmptySet
<1>5. PICK last \in S : \A i \in S : i <= last
  BY <1>3, <1>4, Greatest
<1>6. /\ IsFiniteSet(S \ {last}) /\ Cardinality(S) \in Nat
      /\ Cardinality(S \ {last}) = Cardinality(S) - 1
  BY <1>3, FS_RemoveElement, FS_CardinalityType
<1>7. { j \in S : j <= last } = S
  BY <1>5
<1>8. PlaceOf(last, S) = Cardinality(S)
  BY <1>7 DEF PlaceOf
<1>9. n # Cardinality(S)
  BY <1>5, <1>8
<1>10. n <= Cardinality(S \ {last})
  BY <1>3, <1>6, <1>9
<1>11. S \ {last} \notin Missing
  BY <1>2, <1>5
<1>12. PICK i \in S \ {last} : PlaceOf(i, S \ {last}) = n
  BY <1>10, <1>11
<1>13. { j \in S \ {last} : j <= i } = { j \in S : j <= i }
  BY <1>3, <1>5, <1>12
<1>14. PlaceOf(i, S) = n
  BY <1>12, <1>13 DEF PlaceOf
<1>15. QED
  BY <1>12, <1>14

LEMMA RankBetween ==
  ASSUME NEW P, \A i \in P : i \in Nat, IsFiniteSet(P), NEW i \in P
  PROVE  PlaceOf(i, P) \in 1..Cardinality(P)
<1>1. PICK low : low = { j \in P : j <= i }
  OBVIOUS
<1>2. low \subseteq P /\ i \in low
  BY <1>1
<1>3. IsFiniteSet(low) /\ Cardinality(low) <= Cardinality(P)
  BY <1>2, FS_Subset
<1>4. Cardinality(low) \in Nat /\ Cardinality(low) # 0 /\ Cardinality(P) \in Nat
  BY <1>2, <1>3, FS_EmptySet, FS_CardinalityType
<1>5. QED
  BY <1>1, <1>3, <1>4 DEF PlaceOf

LEMMA RankOnce ==
  ASSUME NEW P, \A i \in P : i \in Nat, IsFiniteSet(P), NEW i \in P, NEW k \in P,
         PlaceOf(i, P) = PlaceOf(k, P)
  PROVE  i = k
<1>1. ASSUME NEW x \in P, NEW y \in P, x < y PROVE PlaceOf(x, P) # PlaceOf(y, P)
  <2>1. PICK low, high : low = { j \in P : j <= x } /\ high = { j \in P : j <= y }
    OBVIOUS
  <2>2. low \subseteq high /\ y \in high /\ y \notin low /\ high \subseteq P
    BY <1>1, <2>1
  <2>3. IsFiniteSet(high)
    BY <2>2, FS_Subset
  <2>4. Cardinality(low) # Cardinality(high)
    BY <2>2, <2>3, FS_Subset
  <2>5. QED
    BY <2>1, <2>4 DEF PlaceOf
<1>2. i \in Nat /\ k \in Nat
  OBVIOUS
<1>3. QED
  BY <1>1, <1>2

LEMMA NthIs ==
  ASSUME NEW P, \A i \in P : i \in Nat, IsFiniteSet(P), NEW n \in 1..Cardinality(P)
  PROVE  Nth(P, n) \in P /\ PlaceOf(Nth(P, n), P) = n
BY RankIsThere DEF Nth

LEMMA NthOfRank ==
  ASSUME NEW P, \A i \in P : i \in Nat, IsFiniteSet(P), NEW i \in P
  PROVE  Nth(P, PlaceOf(i, P)) = i
<1>1. PICK n \in 1..Cardinality(P) : n = PlaceOf(i, P)
  BY RankBetween
<1>2. Nth(P, n) \in P /\ PlaceOf(Nth(P, n), P) = n
  BY NthIs
<1>3. QED
  BY <1>1, <1>2, RankOnce

LEMMA PlacesAre ==
  ASSUME NEW n \in Nat, NEW P, P \subseteq 1..n
  PROVE  IsFiniteSet(P) /\ Cardinality(P) \in Nat /\ \A i \in P : i \in Nat /\ i \in 1..n
<1>1. IsFiniteSet(1..n)
  BY FS_Interval
<1>2. IsFiniteSet(P)
  BY <1>1, FS_Subset
<1>3. \A i \in 1..n : i \in Nat
  OBVIOUS
<1>4. QED
  BY <1>2, <1>3, FS_CardinalityType

LEMMA PickedIs ==
  ASSUME NEW s, NEW P PROVE C!Picked(s, P) = [n \in 1..Cardinality(P) |-> s[Nth(P, n)]]
BY DEF C!Picked, C!Cardinality, Cardinality, Nth, PlaceOf

\* The lines of a file that are not blank.
Full(file) == { i \in DOMAIN file.lines : file.lines[i] # "blank" }

LEMMA ParsedIs ==
  ASSUME NEW file
  PROVE  D!Parsed(file) = [n \in 1..Cardinality(Full(file)) |-> file.lines[Nth(Full(file), n)]]
BY DEF D!Parsed, D!Cardinality, Cardinality, Nth, PlaceOf, Full

\* The files that are imported make records.
LEMMA ParsedType ==
  ASSUME NEW file \in Files, D!Importable(file)
  PROVE  D!Parsed(file) \in Seq(D!Records)
<1>1. file.lines \in Seq(D!Lines)
  BY SequentialAssumption DEF D!RetrievalAssumption
<1>2. PICK P : P = Full(file)
  OBVIOUS
<1>3. DOMAIN file.lines = 1..Len(file.lines) /\ Len(file.lines) \in Nat
  BY <1>1, LenProperties
<1>4. IsFiniteSet(P) /\ \A i \in P : i \in Nat /\ i \in 1..Len(file.lines)
  <2>1. P \subseteq 1..Len(file.lines)
    BY <1>2, <1>3 DEF Full
  <2>2. QED
    BY <1>3, <2>1, PlacesAre
<1>5. ASSUME NEW i \in P PROVE file.lines[i] \in D!Records
  <2>1. file.lines[i] \in D!Lines /\ file.lines[i] # "blank"
    BY <1>1, <1>2, <1>4, ElementOfSeq DEF Full
  <2>2. file.lines[i] # "malformed"
    BY <1>2, <1>3 DEF Full, D!Importable, D!WellFormed, D!ToSet
  <2>3. QED
    BY <2>1, <2>2 DEF D!Lines, D!Records
<1>6. Cardinality(P) \in Nat
  BY <1>4, FS_CardinalityType
<1>7. \A n \in 1..Cardinality(P) : Nth(P, n) \in P
  BY <1>4, NthIs
<1>8. [n \in 1..Cardinality(P) |-> file.lines[Nth(P, n)]] \in Seq(D!Records)
  BY <1>5, <1>6, <1>7, IsASeq
<1>9. QED
  BY <1>2, <1>8, ParsedIs

------------------------------------------------------------------------------
(* Retrieval *)

\* The records of a dataset of cs, and those that have something to say; a dataset
\* that is not there has none.
LenIn(cs, d) == IF d \in DOMAIN cs THEN Len(cs[d]) ELSE 0
DocsIn(cs, d) == { x \in {d} \X Nat : x[2] \in 1..LenIn(cs, d) /\ cs[d][x[2]] = "text" }

\* The documents among its first n records.
Upto(cs, d, n) == { x \in DocsIn(cs, d) : x[2] <= n }

\* An index of d that was made when it had at least n records.
Indexed(cs, d, n, documents) ==
    n <= LenIn(cs, d) /\ Upto(cs, d, n) \subseteq documents /\ documents \subseteq DocsIn(cs, d)

Places == SUBSET (Datasets \X Nat)
Index == [key : Datasets \X Nat, documents : Places]
Lookup == [ step : {"counted", "missed", "embedding", "indexed", "done"},
            of : Datasets, question : Questions, k : TopK, count : Nat,
            found : Places, documents : Places, best : Places ]

\* What a request knows of its dataset.
Knows(cs, lookup) ==
    /\ lookup.count <= LenIn(cs, lookup.of)
    /\ lookup.found \subseteq Upto(cs, lookup.of, lookup.count)
    /\ lookup.step \in {"embedding", "indexed", "done"} =>
         Indexed(cs, lookup.of, lookup.count, lookup.documents)
    /\ lookup.step = "done" =>
         lookup.best \in D!Best(lookup.question, lookup.k, lookup.documents)

Corpus(cs) == DOMAIN cs \subseteq Datasets /\ \A d \in DOMAIN cs : cs[d] \in Seq(D!Records)
Filed(cs, s) ==
    s \in Seq(Index) /\ \A i \in 1..Len(s) : Indexed(cs, s[i].key[1], s[i].key[2], s[i].documents)

RetrievalInv ==
    part = "retrieval" =>
        /\ Corpus(corpora)
        /\ Filed(corpora, indexes) /\ Len(indexes) <= Capacity
        /\ lookups \in [Callers -> {D!Idle} \cup Lookup]
        /\ \A r \in Callers : lookups[r] # D!Idle => Knows(corpora, lookups[r])

LEMMA RetrievalConstants == TopK \subseteq Nat \ {0} /\ Capacity \in Nat \ {0}
BY SequentialAssumption DEF D!RetrievalAssumption

LEMMA RetrievalStarts == SequentialInit => RetrievalInv
<1> SUFFICES ASSUME SequentialInit, part = "retrieval" PROVE RetrievalInv
  BY DEF RetrievalInv
<1>1. /\ corpora = [d \in {} |-> << >>] /\ indexes = << >>
      /\ lookups = [r \in Callers |-> D!Idle]
  BY DEF SequentialInit, D!Init
<1>2. DOMAIN corpora = {}
  BY <1>1
<1>3. indexes \in Seq(Index) /\ Len(indexes) = 0
  BY <1>1, EmptySeq
<1>4. QED
  BY <1>1, <1>2, <1>3, RetrievalConstants DEF RetrievalInv, Corpus, Filed

LEMMA DocumentsAre == ASSUME NEW d, Corpus(corpora) PROVE D!Documents(d) = DocsIn(corpora, d)
<1>1. CASE d \in DOMAIN corpora
  <2>1. DOMAIN corpora[d] = 1..Len(corpora[d]) /\ Len(corpora[d]) \in Nat
    BY <1>1, LenProperties DEF Corpus
  <2>2. D!Documents(d) = { << d, i >> : i \in { j \in 1..Len(corpora[d]) : corpora[d][j] = "text" } }
    BY <1>1, <2>1 DEF D!Documents
  <2>3. \A i \in 1..Len(corpora[d]) : i \in Nat
    BY <2>1
  <2>4. QED
    BY <1>1, <2>2, <2>3 DEF DocsIn, LenIn
<1>2. CASE d \notin DOMAIN corpora
  <2>1. 1..0 = {}
    OBVIOUS
  <2>2. QED
    BY <1>2, <2>1 DEF D!Documents, DocsIn, LenIn
<1>3. QED
  BY <1>1, <1>2

LEMMA CorpusType ==
  ASSUME NEW cs, Corpus(cs), NEW d \in Datasets
  PROVE  /\ LenIn(cs, d) \in Nat /\ DocsIn(cs, d) \in Places /\ IsFiniteSet(DocsIn(cs, d))
         /\ Upto(cs, d, LenIn(cs, d)) = DocsIn(cs, d)
<1>1. PICK n \in Nat : n = LenIn(cs, d)
  BY LenProperties DEF LenIn, Corpus
<1>2. DocsIn(cs, d) \subseteq {d} \X (1..n)
  BY <1>1 DEF DocsIn
<1>3. IsFiniteSet({d})
  BY FS_Singleton
<1>4. IsFiniteSet(1..n)
  BY FS_Interval
<1>5. IsFiniteSet({d} \X (1..n))
  BY <1>3, <1>4, FS_Product
<1>6. IsFiniteSet(DocsIn(cs, d))
  BY <1>2, <1>5, FS_Subset
<1>7. DocsIn(cs, d) \in Places
  BY DEF DocsIn, Places
<1>8. Upto(cs, d, LenIn(cs, d)) = DocsIn(cs, d)
  BY <1>1, <1>2 DEF Upto
<1>9. QED
  BY <1>1, <1>6, <1>7, <1>8

\* Datasets appear and gain records, and keep those they have.
Grown(cs, ds) ==
    /\ Corpus(cs) /\ Corpus(ds)
    /\ \A d \in DOMAIN cs :
          /\ d \in DOMAIN ds /\ Len(cs[d]) <= Len(ds[d])
          /\ \A i \in 1..Len(cs[d]) : ds[d][i] = cs[d][i]

LEMMA GrowthKeeps ==
  ASSUME NEW cs, NEW ds, Grown(cs, ds), NEW d \in Datasets, NEW n \in Nat, n <= LenIn(cs, d)
  PROVE  /\ n <= LenIn(ds, d) /\ Upto(ds, d, n) = Upto(cs, d, n)
         /\ DocsIn(cs, d) \subseteq DocsIn(ds, d)
<1>1. PICK a \in Nat, b \in Nat : a = LenIn(cs, d) /\ b = LenIn(ds, d)
  BY CorpusType DEF Grown
<1>2. a <= b /\ \A i \in 1..a : ds[d][i] = cs[d][i]
  <2>1. CASE d \in DOMAIN cs
    BY <1>1, <2>1 DEF Grown, LenIn
  <2>2. CASE d \notin DOMAIN cs
    BY <1>1, <2>2 DEF LenIn
  <2>3. QED
    BY <2>1, <2>2
<1>3. \A x \in {d} \X Nat : x[2] \in 1..a => x[2] \in 1..b
  BY <1>2
<1>4. \A x \in {d} \X Nat : x[2] <= n /\ x[2] \in 1..b => x[2] \in 1..a
  BY <1>1
<1>5. DocsIn(cs, d) \subseteq DocsIn(ds, d)
  BY <1>1, <1>2, <1>3 DEF DocsIn
<1>6. Upto(ds, d, n) \subseteq Upto(cs, d, n)
  BY <1>1, <1>2, <1>4 DEF Upto, DocsIn
<1>7. QED
  BY <1>1, <1>2, <1>5, <1>6 DEF Upto

LEMMA GrowthFiles ==
  ASSUME NEW cs, NEW ds, Grown(cs, ds), NEW s, Filed(cs, s) PROVE Filed(ds, s)
<1>1. ASSUME NEW i \in 1..Len(s)
      PROVE  Indexed(ds, s[i].key[1], s[i].key[2], s[i].documents)
  <2>1. s[i] \in Index
    BY ElementOfSeq DEF Filed
  <2>2. PICK d \in Datasets, n \in Nat : d = s[i].key[1] /\ n = s[i].key[2]
    BY <2>1 DEF Index
  <2>3. Indexed(cs, d, n, s[i].documents)
    BY <2>2 DEF Filed
  <2>4. QED
    BY <2>2, <2>3, GrowthKeeps DEF Indexed
<1>2. QED
  BY <1>1 DEF Filed

LEMMA GrowthTells ==
  ASSUME NEW cs, NEW ds, Grown(cs, ds), NEW lookup \in Lookup, Knows(cs, lookup)
  PROVE  Knows(ds, lookup)
<1>1. PICK d \in Datasets, n \in Nat : d = lookup.of /\ n = lookup.count
  BY DEF Lookup
<1>2. /\ n <= LenIn(ds, d) /\ Upto(ds, d, n) = Upto(cs, d, n)
      /\ DocsIn(cs, d) \subseteq DocsIn(ds, d)
  BY <1>1, GrowthKeeps DEF Knows
<1>3. QED
  BY <1>1, <1>2 DEF Knows, Indexed

\* The dictionary of indexes.
LEMMA FiledOnes ==
  ASSUME NEW cs, NEW s, Filed(cs, s), NEW t \in Seq(Index),
         \A j \in 1..Len(t) : \E i \in 1..Len(s) : t[j] = s[i]
  PROVE  Filed(cs, t)
BY DEF Filed

LEMMA OneMore ==
  ASSUME NEW cs, NEW s, Filed(cs, s), NEW index \in Index,
         Indexed(cs, index.key[1], index.key[2], index.documents)
  PROVE  Filed(cs, Append(s, index)) /\ Len(Append(s, index)) = Len(s) + 1
<1>1. s \in Seq(Index) /\ Len(s) \in Nat
  BY LenProperties DEF Filed
<1>2. /\ Append(s, index) \in Seq(Index) /\ Len(Append(s, index)) = Len(s) + 1
      /\ \A i \in 1..Len(s) : Append(s, index)[i] = s[i]
      /\ Append(s, index)[Len(s) + 1] = index
  BY <1>1, AppendProperties
<1>3. \A i \in 1..Len(s) + 1 : i \in 1..Len(s) \/ i = Len(s) + 1
  BY <1>1
<1>4. QED
  BY <1>2, <1>3 DEF Filed

LEMMA OneLess ==
  ASSUME NEW cs, NEW s, Filed(cs, s), NEW i \in 1..Len(s)
  PROVE  Filed(cs, D!RemoveAt(s, i)) /\ Len(D!RemoveAt(s, i)) = Len(s) - 1
<1>1. s \in Seq(Index) /\ Len(s) \in Nat
  BY LenProperties DEF Filed
<1>2. PICK a, b : a = SubSeq(s, 1, i - 1) /\ b = SubSeq(s, i + 1, Len(s))
  OBVIOUS
<1>3. /\ a \in Seq(Index) /\ Len(a) = i - 1
      /\ \A j \in 1..Len(a) : a[j] = s[j]
  BY <1>1, <1>2
<1>4. /\ b \in Seq(Index) /\ Len(b) = Len(s) - i
      /\ \A j \in 1..Len(b) : b[j] = s[i + j]
  BY <1>1, <1>2
<1>5. PICK t : t = a \o b
  OBVIOUS
<1>6. /\ t \in Seq(Index) /\ Len(t) = Len(s) - 1
      /\ \A j \in 1..Len(t) : t[j] = IF j <= i - 1 THEN a[j] ELSE b[j - (i - 1)]
  BY <1>1, <1>3, <1>4, <1>5, ConcatProperties
<1>7. ASSUME NEW j \in 1..Len(t) PROVE \E k \in 1..Len(s) : t[j] = s[k]
  <2>1. CASE j <= i - 1
    BY <1>1, <1>3, <1>6, <2>1
  <2>2. CASE ~(j <= i - 1)
    <3>1. j - (i - 1) \in 1..Len(b)
      BY <1>1, <1>4, <1>6, <2>2
    <3>2. t[j] = s[i + (j - (i - 1))]
      BY <1>4, <1>6, <2>2, <3>1
    <3>3. i + (j - (i - 1)) \in 1..Len(s)
      BY <1>1, <1>6, <2>2
    <3>4. QED
      BY <3>2, <3>3
  <2>3. QED
    BY <2>1, <2>2
<1>8. Filed(cs, t)
  BY <1>6, <1>7, FiledOnes
<1>9. QED
  BY <1>2, <1>5, <1>6, <1>8 DEF D!RemoveAt

LEMMA OthersAreFiled ==
  ASSUME NEW cs, Filed(cs, indexes), Len(indexes) <= Capacity, NEW key
  PROVE  /\ Filed(cs, D!Others(key)) /\ Len(D!Others(key)) \in 0..Capacity
         /\ D!Held(key) # {} => Len(D!Others(key)) < Capacity
<1>1. Len(indexes) \in Nat /\ DOMAIN indexes = 1..Len(indexes) /\ Capacity \in Nat
  BY LenProperties, RetrievalConstants DEF Filed
<1>2. CASE D!Held(key) = {}
  BY <1>1, <1>2 DEF D!Others
<1>3. CASE D!Held(key) # {}
  <2>1. \E i \in DOMAIN indexes : indexes[i].key = key
    BY <1>3 DEF D!Held, D!ToSet
  <2>2. PICK i \in 1..Len(indexes) : i = CHOOSE j \in DOMAIN indexes : indexes[j].key = key
    BY <1>1, <2>1
  <2>3. D!Others(key) = D!RemoveAt(indexes, i)
    BY <1>3, <2>2 DEF D!Others
  <2>4. Filed(cs, D!Others(key)) /\ Len(D!Others(key)) = Len(indexes) - 1
    BY <2>3, OneLess
  <2>5. QED
    BY <1>1, <2>4
<1>4. QED
  BY <1>2, <1>3

LEMMA UsedIsFiled ==
  ASSUME NEW cs, Filed(cs, indexes), Len(indexes) <= Capacity, NEW key, NEW index \in D!Held(key)
  PROVE  /\ Filed(cs, D!Used(index)) /\ Len(D!Used(index)) <= Capacity
         /\ index \in Index /\ index.key = key
         /\ Indexed(cs, key[1], key[2], index.documents)
<1>1. PICK i \in 1..Len(indexes) : index = indexes[i] /\ index.key = key
  BY LenProperties DEF D!Held, D!ToSet, Filed
<1>2. index \in Index /\ Indexed(cs, index.key[1], index.key[2], index.documents)
  BY <1>1, ElementOfSeq DEF Filed
<1>3. PICK s : s = D!Others(key)
  OBVIOUS
<1>4. Filed(cs, s) /\ Len(s) \in Nat /\ Len(s) < Capacity
  BY <1>3, OthersAreFiled
<1>5. Filed(cs, Append(s, index)) /\ Len(Append(s, index)) = Len(s) + 1
  BY <1>2, <1>4, OneMore
<1>6. QED
  BY <1>1, <1>2, <1>3, <1>4, <1>5, RetrievalConstants DEF D!Used

LEMMA KeptIsFiled ==
  ASSUME NEW cs, Filed(cs, indexes), Len(indexes) <= Capacity, NEW index \in Index,
         Indexed(cs, index.key[1], index.key[2], index.documents)
  PROVE  Filed(cs, D!Kept(index)) /\ Len(D!Kept(index)) <= Capacity
<1>1. PICK all : all = Append(D!Others(index.key), index)
  OBVIOUS
<1>2. Filed(cs, all) /\ all \in Seq(Index) /\ Len(all) \in Nat
  <2>1. PICK s : s = D!Others(index.key)
    OBVIOUS
  <2>2. Filed(cs, s)
    BY <2>1, OthersAreFiled
  <2>3. Filed(cs, all)
    BY <1>1, <2>1, <2>2, OneMore
  <2>4. QED
    BY <2>3, LenProperties DEF Filed
<1>3. PICK n \in Nat : n = IF Len(all) < Capacity THEN Len(all) ELSE Capacity
  BY <1>2, RetrievalConstants
<1>4. n <= Len(all) /\ n <= Capacity
  BY <1>2, <1>3, RetrievalConstants
<1>5. PICK t : t = SubSeq(all, 1 + Len(all) - n, Len(all))
  OBVIOUS
<1>6. D!Kept(index) = t
  BY <1>1, <1>3, <1>5 DEF D!Kept
<1>7. t \in Seq(Index) /\ Len(t) = n
  BY <1>2, <1>4, <1>5
<1>8. \A j \in 1..Len(t) : t[j] = all[Len(all) - n + j] /\ Len(all) - n + j \in 1..Len(all)
  BY <1>2, <1>4, <1>5
<1>9. Filed(cs, t)
  <2>1. \A j \in 1..Len(t) : \E i \in 1..Len(all) : t[j] = all[i]
    BY <1>8
  <2>2. QED
    BY <1>2, <1>7, <2>1, FiledOnes
<1>10. QED
  BY <1>4, <1>6, <1>7, <1>9

\* The steps that change datasets.
LEMMA DatasetsGrow ==
  ASSUME Corpus(corpora), NEW d \in Datasets, NEW records \in Seq(D!Records),
         d \in DOMAIN corpora =>
           /\ Len(corpora[d]) <= Len(records)
           /\ \A i \in 1..Len(corpora[d]) : records[i] = corpora[d][i],
         corpora' = [e \in DOMAIN corpora \cup {d} |-> IF e = d THEN records ELSE corpora[e]]
  PROVE  Grown(corpora, corpora')
<1>1. DOMAIN corpora' = DOMAIN corpora \cup {d}
  OBVIOUS
<1>2. \A e \in DOMAIN corpora' : corpora'[e] = IF e = d THEN records ELSE corpora[e]
  OBVIOUS
<1>3. Corpus(corpora')
  BY <1>1, <1>2 DEF Corpus
<1>4. ASSUME NEW e \in DOMAIN corpora
      PROVE  /\ e \in DOMAIN corpora' /\ Len(corpora[e]) <= Len(corpora'[e])
             /\ \A i \in 1..Len(corpora[e]) : corpora'[e][i] = corpora[e][i]
  <2>1. Len(corpora[e]) \in Nat
    BY LenProperties DEF Corpus
  <2>2. CASE e = d
    BY <1>1, <1>2, <2>2
  <2>3. CASE e # d
    BY <1>1, <1>2, <2>1, <2>3
  <2>4. QED
    BY <2>2, <2>3
<1>5. QED
  BY <1>3, <1>4 DEF Grown

LEMMA DatasetStep ==
  ASSUME Corpus(corpora), NEW d \in Datasets,
         \/ \E records \in UNION { [1..n -> D!Records] : n \in 0..1 } : D!Create(d, records)
         \/ \E record \in D!Records : D!Grow(d, record)
         \/ \E file \in Files : D!Import(d, file)
  PROVE  Grown(corpora, corpora') /\ indexes' = indexes /\ lookups' = lookups
<1>1. ASSUME NEW records \in Seq(D!Records), D!NewDataset(d, records)
      PROVE  Grown(corpora, corpora') /\ indexes' = indexes /\ lookups' = lookups
  BY <1>1, DatasetsGrow DEF D!NewDataset
<1>2. ASSUME NEW records \in UNION { [1..n -> D!Records] : n \in 0..1 }, D!Create(d, records)
      PROVE  Grown(corpora, corpora') /\ indexes' = indexes /\ lookups' = lookups
  <2>1. records \in Seq(D!Records)
    <3>1. PICK n \in 0..1 : records \in [1..n -> D!Records]
      BY <1>2
    <3>2. n \in Nat
      OBVIOUS
    <3>3. Seq(D!Records) = UNION { [1..m -> D!Records] : m \in Nat }
      BY SeqDef
    <3>4. QED
      BY <3>1, <3>2, <3>3, Zenon
  <2>2. QED
    BY <1>1, <1>2, <2>1 DEF D!Create
<1>3. ASSUME NEW file \in Files, D!Import(d, file)
      PROVE  Grown(corpora, corpora') /\ indexes' = indexes /\ lookups' = lookups
  BY <1>1, <1>3, ParsedType DEF D!Import
<1>4. ASSUME NEW record \in D!Records, D!Grow(d, record)
      PROVE  Grown(corpora, corpora') /\ indexes' = indexes /\ lookups' = lookups
  <2>1. /\ d \in DOMAIN corpora /\ indexes' = indexes /\ lookups' = lookups
        /\ corpora' = [corpora EXCEPT ![d] = Append(corpora[d], record)]
    BY <1>4 DEF D!Grow
  <2>2. corpora[d] \in Seq(D!Records) /\ Len(corpora[d]) \in Nat
    BY <2>1, LenProperties DEF Corpus
  <2>3. PICK records \in Seq(D!Records) :
          /\ records = Append(corpora[d], record) /\ Len(corpora[d]) <= Len(records)
          /\ \A i \in 1..Len(corpora[d]) : records[i] = corpora[d][i]
    <3>1. PICK old \in Seq(D!Records) : old = corpora[d] /\ Len(old) \in Nat
      BY <2>2
    <3>2. /\ Append(old, record) \in Seq(D!Records)
          /\ Len(Append(old, record)) = Len(old) + 1
          /\ \A i \in 1..Len(old) : Append(old, record)[i] = old[i]
      BY AppendProperties
    <3>3. Len(old) <= Len(Append(old, record))
      BY <3>1, <3>2
    <3>4. QED
      BY <3>1, <3>2, <3>3
  <2>4. corpora' = [e \in DOMAIN corpora \cup {d} |-> IF e = d THEN records ELSE corpora[e]]
    <3>1. DOMAIN corpora \cup {d} = DOMAIN corpora
      BY <2>1
    <3>2. corpora' = [corpora EXCEPT ![d] = records]
      BY <2>1, <2>3
    <3>3. QED
      BY <3>1, <3>2
  <2>5. Grown(corpora, corpora')
    BY <2>3, <2>4, DatasetsGrow
  <2>6. QED
    BY <2>1, <2>5
<1>5. QED
  BY <1>2, <1>3, <1>4

LEMMA RetrievalStep == RetrievalInv /\ [SequentialNext]_sequentialVars => RetrievalInv'
<1> SUFFICES ASSUME RetrievalInv, [SequentialNext]_sequentialVars, part' = "retrieval"
             PROVE  RetrievalInv'
  BY DEF RetrievalInv
<1>1. CASE Corpora
  <2>1. part = "retrieval" /\ D!Next
    BY <1>1 DEF Corpora
  <2>2. /\ Corpus(corpora) /\ Filed(corpora, indexes) /\ Len(indexes) <= Capacity
        /\ lookups \in [Callers -> {D!Idle} \cup Lookup]
        /\ \A r \in Callers : lookups[r] # D!Idle => Knows(corpora, lookups[r])
    BY <2>1 DEF RetrievalInv
  <2>3. ASSUME NEW d \in Datasets,
               \/ \E records \in UNION { [1..n -> D!Records] : n \in 0..1 } : D!Create(d, records)
               \/ \E record \in D!Records : D!Grow(d, record)
               \/ \E file \in Files : D!Import(d, file)
        PROVE  RetrievalInv'
    <3>1. Grown(corpora, corpora') /\ indexes' = indexes /\ lookups' = lookups
      BY <2>2, <2>3, DatasetStep
    <3>2. Filed(corpora', indexes)
      BY <2>2, <3>1, GrowthFiles
    <3>3. \A r \in Callers : lookups[r] # D!Idle => Knows(corpora', lookups[r])
      BY <2>2, <3>1, GrowthTells
    <3>4. QED
      BY <2>2, <3>1, <3>2, <3>3 DEF RetrievalInv, Grown
  <2>4. ASSUME NEW r \in Callers, NEW lookup \in Lookup, Knows(corpora, lookup),
               corpora' = corpora, lookups' = [lookups EXCEPT ![r] = lookup],
               Filed(corpora, indexes'), Len(indexes') <= Capacity
        PROVE  RetrievalInv'
    BY <2>2, <2>4 DEF RetrievalInv
  <2>5. ASSUME NEW r \in Callers, NEW d \in Datasets, NEW question \in Questions, NEW k \in TopK,
               D!Count(r, d, question, k)
        PROVE  RetrievalInv'
    <3>1. PICK lookup :
            lookup = [ step |-> "counted", of |-> d, question |-> question, k |-> k,
                       count |-> IF d \in DOMAIN corpora THEN Len(corpora[d]) ELSE 0,
                       found |-> D!Documents(d), documents |-> {}, best |-> {} ]
      OBVIOUS
    <3>2. /\ corpora' = corpora /\ indexes' = indexes
          /\ lookups' = [lookups EXCEPT ![r] = lookup]
      BY <2>5, <3>1 DEF D!Count, D!Become
    <3>3. /\ lookup.step = "counted" /\ lookup.of = d /\ lookup.count = LenIn(corpora, d)
          /\ lookup.found = Upto(corpora, d, LenIn(corpora, d))
      BY <2>2, <3>1, DocumentsAre, CorpusType DEF LenIn
    <3>4. lookup \in Lookup
      <4>1. D!Documents(d) \in Places /\ {} \in Places /\ LenIn(corpora, d) \in Nat
        BY <2>2, DocumentsAre, CorpusType DEF Places
      <4>2. QED
        BY <3>1, <4>1 DEF Lookup, LenIn
    <3>5. Knows(corpora, lookup)
      <4>1. LenIn(corpora, d) \in Nat
        BY <2>2, CorpusType
      <4>2. QED
        BY <3>3, <4>1 DEF Knows
    <3>6. QED
      BY <2>2, <2>4, <3>2, <3>4, <3>5
  <2>6. ASSUME NEW r \in Callers, D!Lookup(r) \/ D!Read(r) \/ D!Put(r) \/ D!Retrieve(r)
        PROVE  RetrievalInv'
    <3>1. lookups[r] # D!Idle
      <4>1. lookups[r].step \in {"counted", "missed", "embedding", "indexed"}
        BY <2>6 DEF D!Lookup, D!Read, D!Put, D!Retrieve, D!At
      <4>2. D!Idle.step = "idle"
        BY DEF D!Idle
      <4>3. QED
        BY <4>1, <4>2
    <3>2. PICK l \in Lookup : l = lookups[r] /\ Knows(corpora, l)
      BY <2>2, <3>1
    <3>3. PICK d \in Datasets, n \in Nat : d = l.of /\ n = l.count
      BY DEF Lookup
    <3>4. Upto(corpora, d, n) \subseteq DocsIn(corpora, d) /\ D!Documents(d) = DocsIn(corpora, d)
      BY <2>2, DocumentsAre DEF Upto
    <3>5. D!Documents(d) \in Places
      BY <2>2, <3>4, CorpusType
    <3>6. PICK key \in Datasets \X Nat : key = D!Key(d, n) /\ key[1] = d /\ key[2] = n
      <4>1. PICK key : key = << d, n >>
        OBVIOUS
      <4>2. key \in Datasets \X Nat /\ key[1] = d /\ key[2] = n
        BY <4>1
      <4>3. D!Key(d, n) = key
        BY <4>1 DEF D!Key
      <4>4. QED
        BY <4>2, <4>3
    <3>7. CASE D!Lookup(r)
      <4>1. CASE lookups' = [lookups EXCEPT ![r] = [l EXCEPT !.step = "missed"]] /\ indexes' = indexes
        <5>1. PICK m : m = [l EXCEPT !.step = "missed"]
          OBVIOUS
        <5>2. m \in Lookup /\ Knows(corpora, m)
          BY <3>2, <5>1 DEF Lookup, Knows
        <5>3. QED
          BY <2>2, <2>4, <3>7, <4>1, <5>1, <5>2 DEF D!Lookup
      <4>2. ASSUME NEW index \in D!Held(key), indexes' = D!Used(index),
                   lookups' = [lookups EXCEPT ![r] =
                                 [l EXCEPT !.step = "indexed", !.documents = index.documents]]
            PROVE  RetrievalInv'
        <5>1. PICK m : m = [l EXCEPT !.step = "indexed", !.documents = index.documents]
          OBVIOUS
        <5>2. /\ Filed(corpora, D!Used(index)) /\ Len(D!Used(index)) <= Capacity
              /\ index \in Index /\ Indexed(corpora, d, n, index.documents)
          BY <2>2, <3>6, UsedIsFiled
        <5>3. m \in Lookup
          BY <5>1, <5>2 DEF Lookup, Index
        <5>4. Knows(corpora, m)
          BY <3>2, <3>3, <5>1, <5>2 DEF Knows, Lookup
        <5>5. QED
          BY <2>4, <3>7, <4>2, <5>1, <5>2, <5>3, <5>4 DEF D!Lookup
      <4>3. QED
        BY <3>2, <3>3, <3>6, <3>7, <4>1, <4>2 DEF D!Lookup, D!Become
    <3>8. CASE D!Read(r)
      <4>1. PICK m : m = [l EXCEPT !.step = "embedding", !.documents = D!Documents(d)]
        OBVIOUS
      <4>2. /\ lookups' = [lookups EXCEPT ![r] = m] /\ corpora' = corpora /\ indexes' = indexes
        BY <3>2, <3>3, <3>8, <4>1 DEF D!Read, D!Become
      <4>3. m \in Lookup
        BY <3>5, <4>1 DEF Lookup
      <4>4. Knows(corpora, m)
        BY <3>2, <3>3, <3>4, <4>1 DEF Knows, Indexed, Lookup
      <4>5. QED
        BY <2>2, <2>4, <4>2, <4>3, <4>4
    <3>9. CASE D!Put(r)
      <4>1. PICK m : m = [l EXCEPT !.step = "indexed"]
        OBVIOUS
      <4>2. PICK index : index = [key |-> key, documents |-> l.documents]
        OBVIOUS
      <4>3. /\ lookups' = [lookups EXCEPT ![r] = m] /\ corpora' = corpora
            /\ indexes' = D!Kept(index) /\ l.step = "embedding"
        BY <3>2, <3>3, <3>6, <3>9, <4>1, <4>2 DEF D!Put, D!Become, D!At
      <4>4. index \in Index /\ Indexed(corpora, index.key[1], index.key[2], index.documents)
        BY <3>2, <3>3, <3>6, <4>2, <4>3 DEF Index, Lookup, Knows
      <4>5. m \in Lookup /\ Knows(corpora, m)
        BY <3>2, <4>1, <4>3 DEF Lookup, Knows
      <4>6. Filed(corpora, D!Kept(index)) /\ Len(D!Kept(index)) <= Capacity
        BY <2>2, <4>4, KeptIsFiled
      <4>7. QED
        BY <2>4, <4>3, <4>5, <4>6
    <3>10. CASE D!Retrieve(r)
      <4>1. PICK best \in D!Best(l.question, l.k, l.documents) :
              /\ lookups' = [lookups EXCEPT ![r] = [l EXCEPT !.step = "done", !.best = best]]
              /\ corpora' = corpora /\ indexes' = indexes /\ l.step = "indexed"
        BY <3>2, <3>10 DEF D!Retrieve, D!Become, D!At
      <4>2. PICK m : m = [l EXCEPT !.step = "done", !.best = best]
        OBVIOUS
      <4>3. best \subseteq l.documents
        BY DEF D!Best
      <4>4. m \in Lookup
        BY <4>2, <4>3 DEF Lookup, Places
      <4>5. Knows(corpora, m)
        BY <3>2, <4>1, <4>2 DEF Knows, Lookup
      <4>6. QED
        BY <2>2, <2>4, <4>1, <4>2, <4>4, <4>5
    <3>11. QED
      BY <2>6, <3>7, <3>8, <3>9, <3>10
  <2>7. ASSUME NEW r \in Callers, D!End(r) PROVE RetrievalInv'
    BY <2>2, <2>7 DEF RetrievalInv, D!End, D!Become
  <2>8. QED
    BY <2>1, <2>3, <2>5, <2>6, <2>7 DEF D!Next
<1>2. CASE ~Corpora
  <2>1. part = "retrieval" /\ UNCHANGED << corpora, indexes, lookups >>
    BY <1>2 DEF SequentialNext, Verdict, Request, Evaluation, Experiments, sequentialVars, corpusVars
  <2>2. QED
    BY <2>1 DEF RetrievalInv
<1>3. QED
  BY <1>1, <1>2

LEMMA RetrievalInvariant == SequentialSpec => []RetrievalInv
<1>1. QED
  BY RetrievalStarts, RetrievalStep, PTL DEF SequentialSpec

LEMMA SameDCardinality == ASSUME NEW S PROVE D!Cardinality(S) = Cardinality(S)
BY DEF D!Cardinality, Cardinality

LEMMA RetrievalIsFreshHolds == RetrievalInv => RetrievalIsFresh
<1> SUFFICES ASSUME RetrievalInv, part = "retrieval" PROVE D!RetrievalIsFresh
  BY DEF RetrievalIsFresh
<1>1. /\ Corpus(corpora) /\ Filed(corpora, indexes) /\ Len(indexes) <= Capacity
      /\ lookups \in [Callers -> {D!Idle} \cup Lookup]
      /\ \A r \in Callers : lookups[r] # D!Idle => Knows(corpora, lookups[r])
  BY DEF RetrievalInv
<1>2. ASSUME NEW index \in D!ToSet(indexes), NEW d \in DOMAIN corpora,
             index.key = D!Key(d, Len(corpora[d]))
      PROVE  index.documents = D!Documents(d)
  <2>1. PICK i \in 1..Len(indexes) : index = indexes[i]
    BY <1>1, LenProperties DEF D!ToSet, Filed
  <2>2. Indexed(corpora, index.key[1], index.key[2], index.documents)
    BY <1>1, <2>1 DEF Filed
  <2>3. d \in Datasets /\ index.key[1] = d /\ index.key[2] = LenIn(corpora, d)
    BY <1>1, <1>2 DEF D!Key, Corpus, LenIn
  <2>4. index.documents = DocsIn(corpora, d)
    BY <1>1, <2>2, <2>3, CorpusType DEF Indexed
  <2>5. QED
    BY <1>1, <2>4, DocumentsAre
<1>3. ASSUME NEW r \in Callers, D!At(r, "done")
      PROVE  LET lookup == lookups[r]
             IN  /\ lookup.best \subseteq D!Documents(lookup.of)
                 /\ D!Cardinality(lookup.best) <= lookup.k
                 /\ \A y \in lookup.found \ lookup.best :
                      /\ D!Cardinality(lookup.best) = lookup.k
                      /\ \A x \in lookup.best :
                           Match[lookup.question][x[2]] >= Match[lookup.question][y[2]]
  <2>1. lookups[r] # D!Idle
    <3>1. D!Idle.step = "idle"
      BY DEF D!Idle
    <3>2. QED
      BY <1>3, <3>1 DEF D!At
  <2>2. PICK l \in Lookup : l = lookups[r] /\ Knows(corpora, l) /\ l.step = "done"
    BY <1>1, <1>3, <2>1 DEF D!At
  <2>3. PICK d \in Datasets, k \in Nat, docs \in Places, best \in Places :
          d = l.of /\ k = l.k /\ docs = l.documents /\ best = l.best
    BY RetrievalConstants DEF Lookup
  <2>4. /\ l.found \subseteq docs /\ docs \subseteq DocsIn(corpora, d)
        /\ best \in D!Best(l.question, k, docs)
    BY <2>2, <2>3 DEF Knows, Indexed
  <2>5. /\ best \subseteq docs
        /\ Cardinality(best) = IF Cardinality(docs) < k THEN Cardinality(docs) ELSE k
        /\ \A x \in best, y \in docs \ best :
             Match[l.question][x[2]] >= Match[l.question][y[2]]
    BY <2>4, SameDCardinality DEF D!Best
  <2>6. IsFiniteSet(docs)
    BY <1>1, <2>4, CorpusType, FS_Subset
  <2>7. Cardinality(docs) \in Nat /\ Cardinality(best) <= k
    BY <2>5, <2>6, FS_CardinalityType
  <2>8. ASSUME NEW y \in docs \ best PROVE Cardinality(best) = k
    <3>1. Cardinality(best) # Cardinality(docs)
      BY <2>5, <2>6, FS_Subset
    <3>2. QED
      BY <2>5, <3>1
  <2>9. best \subseteq D!Documents(d)
    BY <1>1, <2>4, <2>5, DocumentsAre
  <2>10. \A y \in l.found \ best :
           /\ Cardinality(best) = k
           /\ \A x \in best : Match[l.question][x[2]] >= Match[l.question][y[2]]
    BY <2>4, <2>5, <2>8
  <2>11. QED
    BY <2>2, <2>3, <2>7, <2>9, <2>10, SameDCardinality
<1>4. QED
  BY <1>1, <1>2, <1>3 DEF D!RetrievalIsFresh

\* Whatever datasets, files, questions and requests there are: what a request
\* retrieves is the best that its dataset had when it asked, and no index that is
\* still reached is out of date (retrieval/corpus_cache.py, services/generation.py).
THEOREM RetrievalStaysFresh == SequentialSpec => []RetrievalIsFresh
BY RetrievalInvariant, RetrievalIsFreshHolds, PTL

------------------------------------------------------------------------------
(* A request and its chain of models *)

\* No caller lists a model twice.  (It is a cap of attempts per place of the chain
\* that the code has: SequentialDisputed.)
Unrepeated == \A f \in Fallbacks : \A i, j \in DOMAIN f : f[i] = f[j] => i = j

\* The request got its answer.
Answered == phase = "answered" \/ (phase = "recorded" /\ trace.status = "ok")

\* The log has one entry per model that was tried, in the order of the chain.
Logged ==
    \A i \in 1..Len(log) :
        /\ log[i].model = chain[i]
        /\ log[i].attempts <= C!Budget /\ calls[chain[i]] = log[i].attempts
        /\ C!Succeeded(log[i]) <=> (Answered /\ i = at)

ChainType ==
    /\ chain \in Seq(Models) /\ at \in 1..Len(chain) /\ tries \in 0..C!Budget - 1
    /\ calls \in [Models -> Nat] /\ log \in Seq(C!Attempt)
    /\ phase \in {"trying", "answered", "failed", "recorded"}

ChainInv ==
    part = "chain" =>
        /\ ChainType
        /\ \A i, j \in 1..Len(chain) : chain[i] = chain[j] => i = j
        /\ Len(log) = IF phase = "trying" THEN at - 1 ELSE at
        /\ Logged
        /\ phase = "trying" => calls[chain[at]] = tries
        /\ \A m \in Models : (\A i \in 1..at : chain[i] # m) => calls[m] = 0
        /\ phase # "trying" /\ ~Answered => at = Len(chain)
        /\ phase = "recorded" =>
              /\ trace.status \in {"ok", "error"}
              /\ trace.model = IF trace.status = "ok" THEN chain[at] ELSE chain[1]
              /\ trace.failed = C!FailedAttempts(trace.model)

LEMMA ChainConstants ==
    Fallbacks \subseteq Seq(Models) /\ MaxRetries \in Nat /\ C!Budget \in Nat \ {0}
BY SequentialAssumption DEF C!ChainAssumption, C!Budget

LEMMA ChainStarts == ASSUME Unrepeated PROVE SequentialInit => ChainInv
<1> SUFFICES ASSUME SequentialInit, part = "chain" PROVE ChainInv
  BY DEF ChainInv
<1>1. C!Init
  BY DEF SequentialInit
<1>2. PICK m \in Models, f \in Fallbacks : chain = C!ChainOf(m, f)
  BY <1>1 DEF C!Init
<1>3. /\ at = 1 /\ tries = 0 /\ calls = [x \in Models |-> 0] /\ log = <<>>
      /\ phase = "trying"
  BY <1>1 DEF C!Init
<1>4. f \in Seq(Models) /\ DOMAIN f = 1..Len(f) /\ Len(f) \in Nat
  BY ChainConstants, LenProperties
<1>5. PICK P : P = { i \in DOMAIN f : f[i] # m }
  OBVIOUS
<1>6. IsFiniteSet(P) /\ \A i \in P : i \in Nat /\ i \in 1..Len(f) /\ f[i] # m
  <2>1. P \subseteq 1..Len(f)
    BY <1>4, <1>5
  <2>2. IsFiniteSet(P) /\ \A i \in P : i \in Nat /\ i \in 1..Len(f)
    BY <1>4, <2>1, PlacesAre
  <2>3. \A i \in P : f[i] # m
    BY <1>5
  <2>4. QED
    BY <2>2, <2>3
<1>7. PICK k \in Nat : k = Cardinality(P)
  BY <1>6, FS_CardinalityType
<1>8. \A n \in 1..k : Nth(P, n) \in P /\ PlaceOf(Nth(P, n), P) = n
  BY <1>6, <1>7, NthIs
<1>9. PICK rest : rest = [n \in 1..k |-> f[Nth(P, n)]]
  OBVIOUS
<1>10. \A n \in 1..k : rest[n] \in Models /\ rest[n] # m
  <2>1. SUFFICES ASSUME NEW n \in 1..k PROVE rest[n] \in Models /\ rest[n] # m
    OBVIOUS
  <2>2. rest[n] = f[Nth(P, n)] /\ Nth(P, n) \in P
    BY <1>8, <1>9
  <2>3. QED
    BY <1>4, <1>6, <2>2, ElementOfSeq
<1>11. rest \in Seq(Models) /\ Len(rest) = k
  <2>1. rest \in [1..k -> Models]
    BY <1>9, <1>10
  <2>2. QED
    BY <2>1, SeqDef, LenProperties
<1>12. chain = << m >> \o rest
  BY <1>2, <1>5, <1>7, <1>9, PickedIs DEF C!ChainOf
<1>13. /\ chain \in Seq(Models) /\ Len(chain) = k + 1 /\ chain[1] = m
       /\ \A i \in 2..k + 1 : chain[i] = rest[i - 1]
  BY <1>11, <1>12
<1>14. ASSUME NEW i \in 1..Len(chain), NEW j \in 1..Len(chain), chain[i] = chain[j]
       PROVE  i = j
  <2>1. CASE i = 1 /\ j = 1
    BY <2>1
  <2>2. CASE i = 1 /\ j # 1
    BY <1>10, <1>13, <1>14, <2>2
  <2>3. CASE i # 1 /\ j = 1
    BY <1>10, <1>13, <1>14, <2>3
  <2>4. CASE i # 1 /\ j # 1
    <3>1. PICK a \in 1..k, b \in 1..k : a = i - 1 /\ b = j - 1 /\ rest[a] = rest[b]
      BY <1>13, <1>14, <2>4
    <3>2. f[Nth(P, a)] = f[Nth(P, b)]
      BY <1>9, <3>1
    <3>3. Nth(P, a) \in DOMAIN f /\ Nth(P, b) \in DOMAIN f
      BY <1>4, <1>6, <1>8
    <3>4. Nth(P, a) = Nth(P, b)
      BY <3>2, <3>3 DEF Unrepeated
    <3>5. a = b
      BY <1>8, <3>4
    <3>6. QED
      BY <1>13, <3>1, <3>5
  <2>5. QED
    BY <2>1, <2>2, <2>3, <2>4
<1>15. log \in Seq(C!Attempt) /\ Len(log) = 0
  BY <1>3, EmptySeq
<1>16. ChainType
  BY <1>3, <1>13, <1>15, ChainConstants DEF ChainType
<1>17. Logged
  BY <1>15 DEF Logged
<1>18. calls[chain[at]] = tries
  BY <1>3, <1>13
<1>19. QED
  BY <1>3, <1>14, <1>15, <1>16, <1>17, <1>18 DEF ChainInv

\* What holds when a model has had its tries.
LEMMA ModelWasTried ==
  ASSUME ChainInv, part = "chain", phase = "trying",
         NEW kind \in C!Kinds \cup {"none"}, NEW n \in 0..C!Budget,
         log' = Append(log, [model |-> chain[at], kind |-> kind, attempts |-> n]),
         calls' = [calls EXCEPT ![chain[at]] = n]
  PROVE  /\ log' \in Seq(C!Attempt) /\ Len(log') = at /\ calls' \in [Models -> Nat]
         /\ \A i \in 1..at : /\ log'[i].model = chain[i] /\ log'[i].attempts <= C!Budget
                             /\ calls'[chain[i]] = log'[i].attempts
                             /\ C!Succeeded(log'[i]) <=> kind = "none" /\ i = at
         /\ \A m \in Models : (\A i \in 1..at : chain[i] # m) => calls'[m] = 0
<1>1. PICK entry : entry = [model |-> chain[at], kind |-> kind, attempts |-> n]
  OBVIOUS
<1>2. /\ chain \in Seq(Models) /\ Len(chain) \in Nat /\ at \in 1..Len(chain)
      /\ calls \in [Models -> Nat] /\ log \in Seq(C!Attempt) /\ Len(log) = at - 1
      /\ \A i, j \in 1..Len(chain) : chain[i] = chain[j] => i = j
      /\ \A m \in Models : (\A i \in 1..at : chain[i] # m) => calls[m] = 0
  BY LenProperties DEF ChainInv, ChainType
<1>3. \A i \in 1..Len(chain) : chain[i] \in Models
  BY <1>2, ElementOfSeq
<1>4. C!Budget \in Nat
  BY ChainConstants
<1>5. entry \in C!Attempt
  BY <1>1, <1>2, <1>3, <1>4 DEF C!Attempt
<1>6. /\ log' \in Seq(C!Attempt) /\ Len(log') = at /\ log'[at] = entry
      /\ \A i \in 1..Len(log) : log'[i] = log[i]
  <2>1. log' = Append(log, entry)
    BY <1>1
  <2>2. Len(log) + 1 = at
    BY <1>2
  <2>3. QED
    BY <1>2, <1>5, <2>1, <2>2, AppendProperties
<1>7. calls' \in [Models -> Nat] /\ \A m \in Models : calls'[m] = IF m = chain[at] THEN n ELSE calls[m]
  BY <1>2, <1>4
<1>8. ASSUME NEW i \in 1..at
      PROVE  /\ log'[i].model = chain[i] /\ log'[i].attempts <= C!Budget
             /\ calls'[chain[i]] = log'[i].attempts
             /\ C!Succeeded(log'[i]) <=> kind = "none" /\ i = at
  <2>1. CASE i = at
    BY <1>1, <1>2, <1>3, <1>4, <1>6, <1>7, <2>1 DEF C!Succeeded
  <2>2. CASE i # at
    <3>1. i \in 1..Len(log) /\ i \in 1..Len(chain) /\ at \in 1..Len(chain)
      BY <1>2, <2>2
    <3>2. log'[i] = log[i] /\ chain[i] # chain[at] /\ chain[i] \in Models
      BY <1>2, <1>3, <1>6, <2>2, <3>1
    <3>3. ~Answered
      BY DEF Answered
    <3>4. /\ log[i].model = chain[i] /\ log[i].attempts <= C!Budget
          /\ calls[chain[i]] = log[i].attempts /\ ~C!Succeeded(log[i])
      BY <3>1, <3>3 DEF ChainInv, Logged
    <3>5. C!Succeeded(log'[i]) <=> C!Succeeded(log[i])
      BY <3>2
    <3>6. QED
      BY <1>7, <2>2, <3>2, <3>4, <3>5
  <2>3. QED
    BY <2>1, <2>2
<1>9. \A m \in Models : (\A i \in 1..at : chain[i] # m) => calls'[m] = 0
  BY <1>2, <1>7
<1>10. QED
  BY <1>6, <1>7, <1>8, <1>9

LEMMA ModelFailed ==
  ASSUME ChainInv, part = "chain", part' = "chain", phase = "trying",
         NEW kind \in C!Kinds, NEW n \in 0..C!Budget,
         log' = Append(log, [model |-> chain[at], kind |-> kind, attempts |-> n]),
         calls' = [calls EXCEPT ![chain[at]] = n], chain' = chain, trace' = trace, C!GiveUp
  PROVE  ChainInv'
<1>1. /\ chain \in Seq(Models) /\ Len(chain) \in Nat /\ at \in 1..Len(chain)
      /\ \A i, j \in 1..Len(chain) : chain[i] = chain[j] => i = j
  BY LenProperties DEF ChainInv, ChainType
<1>2. kind # "none"
  BY DEF C!Kinds, C!Retryable
<1>3. /\ log' \in Seq(C!Attempt) /\ Len(log') = at /\ calls' \in [Models -> Nat]
      /\ \A i \in 1..at : /\ log'[i].model = chain[i] /\ log'[i].attempts <= C!Budget
                          /\ calls'[chain[i]] = log'[i].attempts
                          /\ ~C!Succeeded(log'[i])
      /\ \A m \in Models : (\A i \in 1..at : chain[i] # m) => calls'[m] = 0
  BY <1>2, ModelWasTried
<1>4. tries' = 0 /\ 0 \in 0..C!Budget - 1
  BY ChainConstants DEF C!GiveUp
<1>5. CASE at < Len(chain) /\ at' = at + 1 /\ phase' = phase
  <2>1. ~Answered'
    BY <1>5 DEF Answered
  <2>2. at' \in 1..Len(chain) /\ Len(log') = at' - 1 /\ \A i \in 1..Len(log') : i \in 1..at
    BY <1>1, <1>3, <1>5
  <2>3. Logged'
    <3>1. \A i \in 1..Len(log') : C!Succeeded(log'[i]) <=> C!Succeeded(log[i])'
      BY DEF C!Succeeded
    <3>2. QED
      BY <1>3, <2>1, <2>2, <3>1 DEF Logged, C!Budget, C!Succeeded
  <2>4. calls'[chain[at']] = 0
    <3>1. chain[at'] \in Models
      BY <1>1, <2>2, ElementOfSeq
    <3>2. \A i \in 1..at : i \in 1..Len(chain) /\ i # at'
      BY <1>1, <1>5
    <3>3. \A i \in 1..at : chain[i] # chain[at']
      BY <1>1, <2>2, <3>2
    <3>4. QED
      BY <1>3, <3>1, <3>3
  <2>5. \A m \in Models : (\A i \in 1..at' : chain[i] # m) => calls'[m] = 0
    <3>1. \A i \in 1..at : i \in 1..at'
      BY <1>1, <1>5
    <3>2. QED
      BY <1>3, <3>1
  <2>6. QED
    BY <1>1, <1>3, <1>4, <1>5, <2>1, <2>2, <2>3, <2>4, <2>5 DEF ChainInv, ChainType, C!Budget, C!Attempt
<1>6. CASE ~(at < Len(chain)) /\ at' = at /\ phase' = "failed"
  <2>1. ~Answered' /\ at = Len(chain)
    BY <1>1, <1>6 DEF Answered
  <2>2. Logged'
    BY <1>3, <1>6, <2>1 DEF Logged, C!Budget, C!Succeeded
  <2>3. QED
    BY <1>1, <1>3, <1>4, <1>6, <2>1, <2>2 DEF ChainInv, ChainType, C!Budget, C!Attempt
<1>7. QED
  BY <1>5, <1>6 DEF C!GiveUp

LEMMA ChainStep == ChainInv /\ [SequentialNext]_sequentialVars => ChainInv'
<1> SUFFICES ASSUME ChainInv, [SequentialNext]_sequentialVars, part' = "chain" PROVE ChainInv'
  BY DEF ChainInv
<1>1. CASE Request
  <2>1. part = "chain" /\ C!Next
    BY <1>1 DEF Request
  <2>2. /\ ChainType /\ Len(chain) \in Nat
        /\ \A i, j \in 1..Len(chain) : chain[i] = chain[j] => i = j
        /\ Len(log) = IF phase = "trying" THEN at - 1 ELSE at
        /\ Logged
        /\ phase = "trying" => calls[chain[at]] = tries
        /\ \A m \in Models : (\A i \in 1..at : chain[i] # m) => calls[m] = 0
        /\ phase # "trying" /\ ~Answered => at = Len(chain)
    BY <2>1, LenProperties DEF ChainInv, ChainType
  <2>3. chain[at] \in Models /\ calls[chain[at]] \in Nat
    BY <2>2, ElementOfSeq DEF ChainType
  <2>4. PICK budget \in Nat : budget = C!Budget /\ tries \in 0..budget - 1
    BY <2>2, ChainConstants DEF ChainType
  <2>5. CASE C!Unavailable
    <3>1. /\ phase = "trying" /\ chain' = chain /\ trace' = trace /\ C!GiveUp /\ calls' = calls
          /\ log' = Append(log, [model |-> chain[at], kind |-> "provider_error", attempts |-> 0])
          /\ tries = 0
      BY <2>5 DEF C!Unavailable, C!Log
    <3>2. calls' = [calls EXCEPT ![chain[at]] = 0]
      BY <2>2, <2>3, <3>1 DEF ChainType
    <3>3. "provider_error" \in C!Kinds /\ 0 \in 0..C!Budget
      BY ChainConstants DEF C!Kinds
    <3>4. QED
      BY <2>1, <3>1, <3>2, <3>3, ModelFailed
  <2>6. ASSUME NEW kind \in C!Kinds, C!Fail(kind) PROVE ChainInv'
    <3>1. /\ phase = "trying" /\ chain' = chain /\ trace' = trace /\ C!GiveUp
          /\ calls' = [calls EXCEPT ![chain[at]] = calls[chain[at]] + 1]
          /\ log' = Append(log, [model |-> chain[at], kind |-> kind, attempts |-> tries + 1])
      BY <2>6 DEF C!Fail, C!Log, C!Called
    <3>2. PICK n \in 0..C!Budget : n = tries + 1 /\ n = calls[chain[at]] + 1
      BY <2>2, <2>4, <3>1
    <3>3. QED
      BY <2>1, <3>1, <3>2, ModelFailed
  <2>7. CASE C!Answer
    <3>1. /\ phase = "trying" /\ chain' = chain /\ trace' = trace /\ at' = at /\ tries' = tries
          /\ phase' = "answered"
          /\ calls' = [calls EXCEPT ![chain[at]] = calls[chain[at]] + 1]
          /\ log' = Append(log, [model |-> chain[at], kind |-> "none", attempts |-> tries + 1])
      BY <2>7 DEF C!Answer, C!Log, C!Called
    <3>2. PICK n \in 0..C!Budget : n = tries + 1 /\ n = calls[chain[at]] + 1
      BY <2>2, <2>4, <3>1
    <3>3. /\ log' \in Seq(C!Attempt) /\ Len(log') = at /\ calls' \in [Models -> Nat]
          /\ \A i \in 1..at : /\ log'[i].model = chain[i] /\ log'[i].attempts <= C!Budget
                              /\ calls'[chain[i]] = log'[i].attempts
                              /\ C!Succeeded(log'[i]) <=> i = at
          /\ \A m \in Models : (\A i \in 1..at : chain[i] # m) => calls'[m] = 0
      BY <2>1, <3>1, <3>2, ModelWasTried
    <3>4. Answered'
      BY <3>1 DEF Answered
    <3>5. Logged'
      BY <3>1, <3>3, <3>4 DEF Logged, C!Budget, C!Succeeded
    <3>6. QED
      BY <2>1, <2>2, <3>1, <3>3, <3>4, <3>5 DEF ChainInv, ChainType, C!Budget, C!Attempt
  <2>8. ASSUME NEW kind \in C!Kinds, C!Retry(kind) PROVE ChainInv'
    <3>1. /\ phase = "trying" /\ UNCHANGED << chain, at, log, phase, trace >>
          /\ tries' = tries + 1 /\ tries + 1 < C!Budget
          /\ calls' = [calls EXCEPT ![chain[at]] = calls[chain[at]] + 1]
      BY <2>8 DEF C!Retry, C!WorthARetry, C!Called
    <3>2. /\ calls' \in [Models -> Nat] /\ calls'[chain[at]] = tries'
          /\ \A m \in Models : m # chain[at] => calls'[m] = calls[m]
      BY <2>2, <2>3, <3>1 DEF ChainType
    <3>3. tries' \in 0..C!Budget - 1
      BY <2>4, <3>1
    <3>4. \A i \in 1..Len(log) : chain[i] \in Models /\ chain[i] # chain[at]
      <4>1. SUFFICES ASSUME NEW i \in 1..Len(log) PROVE chain[i] \in Models /\ chain[i] # chain[at]
        OBVIOUS
      <4>2. i \in 1..Len(chain) /\ at \in 1..Len(chain) /\ i # at
        BY <2>2, <3>1 DEF ChainType
      <4>3. QED
        BY <2>2, <4>2, ElementOfSeq DEF ChainType
    <3>5. Logged'
      BY <2>2, <3>1, <3>2, <3>4 DEF Logged, Answered, C!Budget, C!Succeeded
    <3>6. at \in 1..at
      BY <2>2 DEF ChainType
    <3>7. QED
      BY <2>1, <2>2, <3>1, <3>2, <3>3, <3>5, <3>6 DEF ChainInv, ChainType, Answered, C!Budget, C!Attempt
  <2>9. CASE C!Record
    <3>1. /\ phase \in {"answered", "failed"} /\ phase' = "recorded"
          /\ UNCHANGED << chain, at, tries, calls, log >>
          /\ trace'.model = IF phase = "answered" THEN chain[at] ELSE chain[1]
          /\ trace'.status = IF phase = "answered" THEN "ok" ELSE "error"
          /\ trace'.failed = C!FailedAttempts(trace'.model)
      BY <2>9 DEF C!Record
    <3>2. Answered' <=> Answered
      BY <3>1 DEF Answered
    <3>3. Logged'
      BY <2>2, <3>1, <3>2 DEF Logged, C!Budget, C!Succeeded
    <3>4. trace'.failed = C!FailedAttempts(trace.model)'
      BY <3>1 DEF C!FailedAttempts, C!Picked, C!Succeeded
    <3>5. QED
      BY <2>2, <3>1, <3>2, <3>3, <3>4 DEF ChainInv, ChainType, C!Budget, C!Attempt
  <2>10. QED
    BY <2>1, <2>5, <2>6, <2>7, <2>8, <2>9 DEF C!Next
<1>2. CASE ~Request
  <2>1. part = "chain" /\ UNCHANGED << chain, at, tries, calls, log, phase, trace >>
    BY <1>2 DEF SequentialNext, Verdict, Evaluation, Experiments, Corpora, sequentialVars, chainVars
  <2>2. QED
    <3>1. C!FailedAttempts(trace.model)' = C!FailedAttempts(trace.model)
      BY <2>1 DEF C!FailedAttempts, C!Picked, C!Succeeded
    <3>2. (Answered' <=> Answered) /\ (ChainType' <=> ChainType)
      BY <2>1 DEF Answered, ChainType, C!Budget, C!Attempt
    <3>3. Logged' <=> Logged
      BY <2>1, <3>2 DEF Logged, C!Budget, C!Succeeded
    <3>4. QED
      BY <2>1, <3>1, <3>2, <3>3 DEF ChainInv
<1>3. QED
  BY <1>1, <1>2

LEMMA ChainInvariant == Unrepeated => (SequentialSpec => []ChainInv)
<1> SUFFICES ASSUME Unrepeated PROVE SequentialSpec => []ChainInv
  OBVIOUS
<1>1. QED
  BY ChainStarts, ChainStep, PTL DEF SequentialSpec

LEMMA AttemptsAre ==
  ASSUME NEW S, IsFiniteSet(S), NEW f, f = [i \in S |-> log[i].attempts]
  PROVE  C!MapThenSumSet(LAMBDA i : log[i].attempts, S) = Sum(f, S)
<1> DEFINE Adds(g) == g = [u \in SUBSET S |->
                             IF u = {} THEN 0 ELSE log[Some(u)].attempts + g[u \ {Some(u)}]]
           h == CHOOSE g : Adds(g)
<1>1. \A u \in SUBSET S : u # {} => log[Some(u)].attempts = f[Some(u)]
  BY SomeIn
<1>2. ASSUME NEW g PROVE Adds(g) <=> SumsUp(g, f, S)
  BY <1>1 DEF SumsUp
<1>3. C!MapThenSumSet(LAMBDA i : log[i].attempts, S) = h[S]
  BY DEF C!MapThenSumSet, C!MapThenFoldSet, Some
<1> HIDE DEF Adds
<1>4. \E g : Adds(g)
  BY <1>2, SumsExist
<1>5. Adds(h)
  BY <1>4
<1> HIDE DEF h
<1>6. h[S] = Sum(f, S)
  BY <1>2, <1>5, SumIsFold
<1>7. QED
  BY <1>3, <1>6

LEMMA CallsAreAccountedHolds == ChainInv => CallsAreAccounted
<1> SUFFICES ASSUME ChainInv, part = "chain"
             PROVE  C!AttemptsCapped /\ C!LogIsExact /\ C!AllWereTried
  BY DEF CallsAreAccounted
<1>1. /\ chain \in Seq(Models) /\ at \in 1..Len(chain) /\ Len(chain) \in Nat
      /\ tries \in 0..C!Budget - 1 /\ log \in Seq(C!Attempt) /\ calls \in [Models -> Nat]
      /\ \A i, j \in 1..Len(chain) : chain[i] = chain[j] => i = j
      /\ Len(log) = IF phase = "trying" THEN at - 1 ELSE at
      /\ DOMAIN log = 1..Len(log)
      /\ Logged
      /\ phase = "trying" => calls[chain[at]] = tries
      /\ \A m \in Models : (\A i \in 1..at : chain[i] # m) => calls[m] = 0
      /\ phase # "trying" /\ ~Answered => at = Len(chain)
  BY LenProperties DEF ChainInv, ChainType
<1>2. C!Budget \in Nat \ {0}
  BY ChainConstants
<1>3. \A i \in 1..Len(log) : i \in 1..at /\ i \in 1..Len(chain) /\ log[i].attempts \in Nat
  <2>1. SUFFICES ASSUME NEW i \in 1..Len(log)
                 PROVE  i \in 1..at /\ i \in 1..Len(chain) /\ log[i].attempts \in Nat
    OBVIOUS
  <2>2. log[i] \in C!Attempt
    BY <1>1, ElementOfSeq
  <2>3. QED
    BY <1>1, <2>2 DEF C!Attempt
\* A model that was not tried, the one that is, and one that was.
<1>4. ASSUME NEW m \in Models, \A i \in 1..at : chain[i] # m
      PROVE  /\ calls[m] = 0 /\ { i \in DOMAIN log : log[i].model = m } = {}
             /\ ~(phase = "trying" /\ chain[at] = m)
  BY <1>1, <1>3, <1>4 DEF Logged
<1>5. ASSUME NEW m \in Models, phase = "trying", chain[at] = m
      PROVE  calls[m] = tries /\ { i \in DOMAIN log : log[i].model = m } = {}
  <2>1. ASSUME NEW i \in DOMAIN log, log[i].model = m PROVE FALSE
    <3>1. chain[i] = chain[at] /\ i \in 1..Len(chain) /\ i # at
      BY <1>1, <1>3, <1>5, <2>1 DEF Logged
    <3>2. QED
      BY <1>1, <3>1
  <2>2. QED
    BY <1>1, <1>5, <2>1
<1>6. ASSUME NEW i \in 1..Len(log)
      PROVE  /\ calls[chain[i]] = log[i].attempts /\ log[i].attempts <= C!Budget
             /\ { j \in DOMAIN log : log[j].model = chain[i] } = {i}
             /\ ~(phase = "trying" /\ chain[at] = chain[i])
  <2>1. i \in 1..Len(chain) /\ log[i].model = chain[i]
    BY <1>1, <1>3 DEF Logged
  <2>2. ASSUME NEW j \in DOMAIN log, log[j].model = chain[i] PROVE j = i
    BY <1>1, <1>3, <2>1, <2>2 DEF Logged
  <2>3. ~(phase = "trying" /\ chain[at] = chain[i])
    BY <1>1, <2>1
  <2>4. QED
    BY <1>1, <2>1, <2>2, <2>3 DEF Logged
<1>7. ASSUME NEW m \in Models
      PROVE  \/ \A i \in 1..at : chain[i] # m
             \/ phase = "trying" /\ chain[at] = m
             \/ \E i \in 1..Len(log) : chain[i] = m
  BY <1>1
<1>8. C!AttemptsCapped
  <2>1. SUFFICES ASSUME NEW m \in Models PROVE calls[m] <= C!Budget
    BY DEF C!AttemptsCapped
  <2>2. PICK budget \in Nat \ {0} : budget = C!Budget /\ tries < budget
    BY <1>1, <1>2
  <2>3. CASE \A i \in 1..at : chain[i] # m
    BY <1>4, <2>2, <2>3
  <2>4. CASE phase = "trying" /\ chain[at] = m
    BY <1>1, <1>5, <2>2, <2>4
  <2>5. CASE \E i \in 1..Len(log) : chain[i] = m
    BY <1>6, <2>5
  <2>6. QED
    BY <1>7, <2>3, <2>4, <2>5
<1>9. C!LogIsExact
  <2>1. SUFFICES ASSUME NEW m \in Models
                 PROVE  calls[m] = C!MapThenSumSet(LAMBDA i : log[i].attempts,
                                                   { i \in DOMAIN log : log[i].model = m })
                                     + IF phase = "trying" /\ chain[at] = m THEN tries ELSE 0
    BY DEF C!LogIsExact
  <2>2. PICK S : S = { i \in DOMAIN log : log[i].model = m }
    OBVIOUS
  <2>3. PICK f : f = [i \in S |-> log[i].attempts]
    OBVIOUS
  <2>4. C!MapThenSumSet(LAMBDA i : log[i].attempts, S) = Sum(f, S)
    <3>1. S \subseteq 1..Len(log) /\ Len(log) \in Nat
      BY <1>1, <2>2
    <3>2. IsFiniteSet(S)
      BY <3>1, PlacesAre
    <3>3. QED
      BY <2>3, <3>2, AttemptsAre
  <2>5. calls[m] = Sum(f, S) + IF phase = "trying" /\ chain[at] = m THEN tries ELSE 0
    <3>1. CASE \A i \in 1..at : chain[i] # m
      <4>1. S = {} /\ calls[m] = 0 /\ ~(phase = "trying" /\ chain[at] = m)
        BY <1>4, <2>2, <3>1
      <4>2. QED
        BY <4>1, SumEmpty
    <3>2. CASE phase = "trying" /\ chain[at] = m
      <4>1. S = {} /\ calls[m] = tries /\ tries \in Int
        BY <1>1, <1>2, <1>5, <2>2, <3>2
      <4>2. QED
        BY <3>2, <4>1, SumEmpty
    <3>3. ASSUME NEW i \in 1..Len(log), chain[i] = m
          PROVE  calls[m] = Sum(f, S) + IF phase = "trying" /\ chain[at] = m THEN tries ELSE 0
      <4>1. S = {i} /\ ~(phase = "trying" /\ chain[at] = m) /\ calls[m] = log[i].attempts
        BY <1>6, <2>2, <3>3
      <4>2. f[i] = log[i].attempts /\ f[i] \in Nat
        BY <1>3, <2>3, <4>1
      <4>3. Sum(f, {i}) = f[i]
        BY <4>2, SumOne
      <4>4. QED
        BY <4>1, <4>2, <4>3
    <3>4. QED
      BY <1>7, <3>1, <3>2, <3>3
  <2>6. QED
    BY <2>2, <2>4, <2>5
<1>10. C!AllWereTried
  <2>1. SUFFICES ASSUME phase = "failed"
                 PROVE  Len(log) = Len(chain)
                          /\ \A i \in DOMAIN log : log[i].model = chain[i] /\ ~C!Succeeded(log[i])
    BY DEF C!AllWereTried
  <2>2. ~Answered
    BY <2>1 DEF Answered
  <2>3. QED
    BY <1>1, <2>1, <2>2 DEF Logged
<1>11. QED
  BY <1>8, <1>9, <1>10

LEMMA SameCCardinality == ASSUME NEW S PROVE C!Cardinality(S) = Cardinality(S)
BY DEF C!Cardinality, Cardinality

LEMMA FailuresCountOnceHolds == ChainInv => FailuresCountOnce
<1> SUFFICES ASSUME ChainInv, part = "chain", phase = "recorded", NEW m \in Models
             PROVE  /\ C!Errors(m) <= 1
                    /\ C!FailedOn(m, C!Kinds \ {"context_overflow"}) => C!Errors(m) = 1
  BY DEF FailuresCountOnce, C!FailuresCountOnce
<1>1. /\ chain \in Seq(Models) /\ at \in 1..Len(chain) /\ Len(chain) \in Nat
      /\ log \in Seq(C!Attempt) /\ Len(log) = at /\ DOMAIN log = 1..at
      /\ \A i, j \in 1..Len(chain) : chain[i] = chain[j] => i = j
      /\ \A i \in 1..at : log[i].model = chain[i] /\ (C!Succeeded(log[i]) <=> (Answered /\ i = at))
      /\ trace.status \in {"ok", "error"}
      /\ trace.model = IF trace.status = "ok" THEN chain[at] ELSE chain[1]
      /\ trace.failed = C!FailedAttempts(trace.model)
  BY LenProperties DEF ChainInv, ChainType, Logged
<1>2. PICK P : P = { i \in DOMAIN log : /\ ~C!Succeeded(log[i])
                                       /\ log[i].model # trace.model
                                       /\ log[i].kind # "context_overflow" }
  OBVIOUS
<1>3. IsFiniteSet(P) /\ \A i \in P : i \in Nat /\ i \in 1..at
  <2>1. P \subseteq 1..at
    BY <1>1, <1>2
  <2>2. at \in Nat
    BY <1>1
  <2>3. QED
    BY <2>1, <2>2, PlacesAre
<1>4. PICK k \in Nat : k = Cardinality(P)
  BY <1>3, FS_CardinalityType
<1>5. /\ \A n \in 1..k : Nth(P, n) \in P /\ PlaceOf(Nth(P, n), P) = n
      /\ \A i \in P : PlaceOf(i, P) \in 1..k /\ Nth(P, PlaceOf(i, P)) = i
  BY <1>3, <1>4, NthIs, RankBetween, NthOfRank
<1>6. trace.failed = [n \in 1..k |-> log[Nth(P, n)]]
  <2>1. trace.failed = C!Picked(log, P)
    BY <1>1, <1>2 DEF C!FailedAttempts
  <2>2. QED
    BY <1>4, <2>1, PickedIs
<1>7. PICK charged : charged = { n \in DOMAIN trace.failed : trace.failed[n].model = m }
  OBVIOUS
<1>8. C!Errors(m) = Cardinality(charged) + IF trace.model = m /\ trace.status = "error" THEN 1 ELSE 0
  BY <1>7, SameCCardinality DEF C!Errors
<1>9. \A n \in charged : n \in 1..k /\ Nth(P, n) \in P /\ log[Nth(P, n)].model = m
  BY <1>5, <1>6, <1>7
<1>10. ASSUME NEW a \in charged, NEW b \in charged PROVE a = b
  <2>1. chain[Nth(P, a)] = chain[Nth(P, b)]
    BY <1>1, <1>3, <1>9
  <2>2. Nth(P, a) \in 1..Len(chain) /\ Nth(P, b) \in 1..Len(chain)
    BY <1>1, <1>3, <1>9
  <2>3. Nth(P, a) = Nth(P, b)
    BY <1>1, <2>1, <2>2
  <2>4. QED
    BY <1>5, <1>9, <2>3
<1>11. CASE trace.model = m
  <2>1. charged = {}
    BY <1>2, <1>9, <1>11
  <2>2. C!Errors(m) = IF trace.status = "error" THEN 1 ELSE 0
    BY <1>8, <1>11, <2>1, FS_EmptySet
  <2>3. ASSUME trace.status = "ok" PROVE ~C!FailedOn(m, C!Kinds \ {"context_overflow"})
    <3>1. SUFFICES ASSUME NEW i \in DOMAIN log, log[i].model = m,
                          log[i].kind \in C!Kinds \ {"context_overflow"}
                   PROVE  FALSE
      BY DEF C!FailedOn
    <3>2. chain[i] = chain[at] /\ i \in 1..Len(chain)
      BY <1>1, <1>11, <2>3, <3>1
    <3>3. i = at
      BY <1>1, <3>2
    <3>4. C!Succeeded(log[i])
      BY <1>1, <2>3, <3>3 DEF Answered
    <3>5. QED
      BY <3>1, <3>4 DEF C!Succeeded, C!Kinds, C!Retryable
  <2>4. QED
    BY <1>1, <2>2, <2>3
<1>12. CASE trace.model # m
  <2>1. C!Errors(m) = Cardinality(charged)
    <3>1. Cardinality(charged) \in Nat
      <4>1. charged \subseteq 1..k
        BY <1>9
      <4>2. QED
        BY <4>1, PlacesAre
    <3>2. QED
      BY <1>8, <1>12, <3>1
  <2>2. CASE charged = {}
    <3>1. ASSUME NEW i \in DOMAIN log, log[i].model = m,
                 log[i].kind \in C!Kinds \ {"context_overflow"}
          PROVE  FALSE
      <4>1. i \in P
        BY <1>2, <1>12, <3>1 DEF C!Succeeded, C!Kinds, C!Retryable
      <4>2. PlaceOf(i, P) \in charged
        BY <1>5, <1>6, <1>7, <3>1, <4>1
      <4>3. QED
        BY <2>2, <4>2
    <3>2. QED
      BY <2>1, <2>2, <3>1, FS_EmptySet DEF C!FailedOn
  <2>3. CASE charged # {}
    <3>1. PICK a \in charged : charged = {a}
      BY <1>10, <2>3
    <3>2. Cardinality({a}) = 1
      BY FS_Singleton
    <3>3. QED
      BY <2>1, <3>1, <3>2
  <2>4. QED
    BY <2>2, <2>3
<1>13. QED
  BY <1>11, <1>12

\* For callers that list no model twice, with any models and any cap of attempts:
\* the log accounts for every call, no model is called beyond the cap, and a request
\* fails only when every model of its chain did (llm/resilient.py).
THEOREM CallsStayAccounted == Unrepeated => (SequentialSpec => []CallsAreAccounted)
<1> SUFFICES ASSUME Unrepeated PROVE SequentialSpec => []CallsAreAccounted
  OBVIOUS
<1>1. QED
  BY ChainInvariant, CallsAreAccountedHolds, PTL

\* For the same callers: a model that failed a request is charged with one error for
\* it, whoever answered (services/generation.py, worker/tasks/model_health.py).
THEOREM FailuresCountedOnce == Unrepeated => (SequentialSpec => []FailuresCountOnce)
<1> SUFFICES ASSUME Unrepeated PROVE SequentialSpec => []FailuresCountOnce
  OBVIOUS
<1>1. QED
  BY ChainInvariant, FailuresCountOnceHolds, PTL

------------------------------------------------------------------------------
(* Detection: what its invariant is made of *)

\* What a pass reads before it raises, and the flags it is about to commit.
Near(w) == flags \cup pass[w].drafts

\* While no lock was lost, whoever has a pass holds the lock.
PassHoldsLock == \A w \in Replicas : pass[w] # NoPass => lock = w

Past == \A w \in Replicas : \A f \in Near(w) : f.at <= now

Distant(f, g) ==
    f # g /\ f.subject = g.subject => f.at - g.at > Dedupe \/ g.at - f.at > Dedupe

Apart == \A w \in Replicas : \A f, g \in Near(w) : Distant(f, g)

\* Rows, and drafts of passes that may still commit.
Written == flags \cup UNION { pass[v].drafts : v \in Replicas }

\* What receivers were told since the last fault is still written down.
Told ==
    /\ loop = "regression" => announced = {}
    /\ \A h \in announced : h.after <= faults /\ (h.after = faults => h \in Written)

Retold ==
    \A f, g \in announced :
        \/ Distant(f, g)
        \/ f.after # g.after /\ (f.after < g.after => f \notin Written)

Inv ==
    /\ TypeOK
    /\ Past
    /\ Told
    /\ ~lost => PassHoldsLock /\ Apart /\ Retold
    /\ ~lost => \A f, g \in flags : Distant(f, g)

------------------------------------------------------------------------------
(* Lemmas *)

LEMMA Numbers == Dedupe \in Nat /\ MaxTime \in Nat /\ MaxFaults \in Nat /\ MaxChanges \in Nat
  BY DetectionAssumption

LEMMA NoOneType == NoOne \notin Replicas
  BY DetectionAssumption

LEMMA NoPassType == NoPass \in Pass
  BY DEF NoPass, Pass, Steps

LEMMA FlagType ==
  \A f \in Flag : f.at \in 0..MaxTime /\ f.subject \in Subjects /\ f.after \in 0..MaxFaults
  BY DEF Flag

LEMMA WindowType == ASSUME NEW offset PROVE Window(offset) \subseteq Traces
  BY DEF Window, Completed, Evaluated

\* What a step of a pass makes of it.
LEMMA StepType ==
  ASSUME NEW p \in Pass, NEW step \in Steps, NEW todo \in SUBSET Subjects,
         NEW armed \in SUBSET Subjects, NEW over \in SUBSET Subjects
  PROVE  /\ [p EXCEPT !.step = step, !.armed = armed] \in Pass
         /\ [p EXCEPT !.step = step, !.over = over, !.todo = todo] \in Pass
         /\ [p EXCEPT !.step = step, !.armed = armed, !.todo = todo] \in Pass
         /\ [p EXCEPT !.todo = todo] \in Pass
  BY DEF Pass

LEMMA WindowStepType ==
  ASSUME NEW p \in Pass, NEW step \in Steps, NEW todo \in SUBSET Subjects,
         NEW these \in SUBSET Traces, NEW before \in SUBSET Traces,
         NEW found \in SUBSET Traces
  PROVE  /\ [p EXCEPT !.step = step, !.current = these, !.seen = before, !.known = found]
              \in Pass
         /\ [p EXCEPT !.step = step, !.previous = these, !.todo = todo] \in Pass
  BY DEF Pass

LEMMA RaisedType ==
  ASSUME NEW p \in Pass, NEW todo \in SUBSET Subjects, NEW f \in Flag
  PROVE  /\ [p EXCEPT !.todo = todo, !.drafts = @ \cup {f}] \in Pass
         /\ [p EXCEPT !.todo = todo, !.drafts = @ \cup {f}].drafts = p.drafts \cup {f}
  BY DEF Pass

------------------------------------------------------------------------------
(* Steps *)

\* A pass that goes on without a new flag.
LEMMA Goes ==
  ASSUME Inv, NEW w \in Replicas, pass[w] # NoPass, NEW p \in Pass,
         p.drafts = pass[w].drafts, Move(w, p), UNCHANGED <<evidence, announced>>
  PROVE  Inv'
<1>1. pass'[w] = p /\ \A v \in Replicas \ {w} : pass'[v] = pass[v]
  BY DEF Inv, TypeOK, Move
<1>2. TypeOK'
  <2>1. pass' \in [Replicas -> Pass]
    BY DEF Inv, TypeOK, Move
  <2>2. QED
    BY <2>1 DEF Inv, TypeOK, Move, evidence, Evaluated
<1>3. (\A v \in Replicas : Near(v)' = Near(v)) /\ Written' = Written
  <2>1. \A v \in Replicas : pass'[v].drafts = pass[v].drafts
    BY <1>1
  <2>2. QED
    BY <2>1 DEF Near, Written, Move
<1>4. Past'
  BY <1>3 DEF Past, Inv, Move
<1>5. ~lost => PassHoldsLock'
  BY <1>1 DEF PassHoldsLock, Inv, Move
<1>6. ~lost => Apart' /\ Retold'
  BY <1>3 DEF Apart, Retold, Distant, Inv
<1>7. Told'
  BY <1>3 DEF Told, Inv, Move
<1>8. QED
  BY <1>2, <1>4, <1>5, <1>6, <1>7 DEF Inv, Move, Distant

\* A step that leaves passes, flags, lock and clock alone.
LEMMA Elsewhere ==
  ASSUME Inv, TypeOK', UNCHANGED <<loop, now, lock, pass, flags, announced, lost>>,
         faults' = faults \/ loop = "regression"
  PROVE  Inv'
<1>1. (\A v \in Replicas : Near(v)' = Near(v)) /\ Written' = Written
  BY DEF Near, Written
<1>2. Told'
  BY <1>1 DEF Told, Inv
<1>3. ~lost => Retold'
  BY <1>1 DEF Retold, Distant, Inv
<1>4. QED
  BY <1>1, <1>2, <1>3 DEF Inv, Past, Apart, PassHoldsLock, Distant

\* A pass is over; what it leaves are flags it had, or none.
LEMMA Over ==
  ASSUME Inv, TypeOK', NEW w \in Replicas, pass[w] # NoPass, End(w),
         \/ flags' = Near(w) /\ faults' = faults
         \/ flags' = flags /\ faults' = faults + 1
  PROVE  Inv'
<1>1. pass'[w] = NoPass /\ \A v \in Replicas \ {w} : pass'[v] = pass[v]
  BY DEF Inv, TypeOK, End
<1>2. Near(w)' = flags'
  BY <1>1 DEF Near, NoPass
<1>3. flags \subseteq flags' /\ flags' \subseteq Near(w)
  BY DEF Near
<1>4. Past'
  <2>1. \A v \in Replicas \ {w} : Near(v)' \subseteq Near(v) \cup Near(w)
    BY <1>1, <1>3 DEF Near
  <2>2. Near(w)' \subseteq Near(w)
    BY <1>2, <1>3
  <2>3. QED
    BY <2>1, <2>2 DEF Past, Inv, End
<1>4a. Written' \subseteq Written /\ (flags' = Near(w) => Written' = Written)
  <2>1. pass'[w].drafts = {} /\ \A v \in Replicas \ {w} : pass'[v].drafts = pass[v].drafts
    BY <1>1 DEF NoPass
  <2>2. QED
    BY <1>3, <2>1 DEF Written, Near
<1>4b. Told'
  <2>1. loop' = loop /\ announced' = announced
    BY DEF End
  <2>2. CASE flags' = Near(w) /\ faults' = faults
    BY <1>4a, <2>1, <2>2 DEF Told, Inv
  <2>3. CASE faults' = faults + 1
    <3>1. \A h \in announced : h.after <= faults /\ h.after \in Nat /\ faults \in Nat
      BY FlagType, Numbers DEF Told, Inv, TypeOK
    <3>2. \A h \in announced : h.after <= faults' /\ h.after # faults'
      BY <2>3, <3>1
    <3>3. QED
      BY <2>1, <3>2 DEF Told, Inv
  <2>4. QED
    BY <2>2, <2>3
<1>4c. ~lost => Retold'
  BY <1>4a DEF Retold, Distant, Inv, End
<1>5. ASSUME ~lost PROVE PassHoldsLock' /\ Apart' /\ \A f, g \in flags' : Distant(f, g)
  <2>1. lock = w
    BY <1>5 DEF Inv, PassHoldsLock
  <2>2. \A v \in Replicas : pass'[v] = NoPass
    BY <1>1, <1>5, <2>1 DEF Inv, PassHoldsLock
  <2>3. \A v \in Replicas : Near(v)' = flags'
    BY <2>2 DEF Near, NoPass
  <2>4. \A f, g \in Near(w) : Distant(f, g)
    BY <1>5 DEF Inv, Apart
  <2>5. QED
    BY <1>3, <2>2, <2>3, <2>4 DEF PassHoldsLock, Apart, Distant
<1>6. QED
  BY <1>4, <1>4b, <1>4c, <1>5 DEF Inv, End, Distant

LEMMA Raises ==
  ASSUME Inv, NEW w \in Replicas, NEW s \in Subjects, Raise(w, s)
  PROVE  Inv'
<1> DEFINE flag == [subject |-> s, at |-> now, by |-> w, after |-> faults]
           p == [pass[w] EXCEPT !.todo = @ \ {s}, !.drafts = @ \cup {flag}]
<1>1. flag \in Flag /\ flag.at = now /\ flag.subject = s /\ flag.after = faults
  BY Numbers DEF Inv, TypeOK, Flag
<1>2. pass[w] \in Pass /\ pass[w].todo \in SUBSET Subjects
  BY DEF Inv, TypeOK, Pass
<1>3. Move(w, p) /\ UNCHANGED evidence
  BY DEF Raise
<1>4. p \in Pass /\ p.drafts = pass[w].drafts \cup {flag}
  <2>1. pass[w].todo \ {s} \in SUBSET Subjects
    BY <1>2
  <2>2. QED
    BY <1>1, <1>2, <2>1, RaisedType
<1>5. pass'[w] = p /\ \A v \in Replicas \ {w} : pass'[v] = pass[v]
  BY <1>3, <1>4 DEF Inv, TypeOK, Move
<1>6. announced' = IF loop = "alerting" THEN announced \cup {flag} ELSE announced
  BY DEF Raise
<1>7. \A f \in Near(w) : f.subject = s => now - f.at > Dedupe
  <2>1. \A f \in Near(w) : f.subject = s => ~Recent(f)
    BY DEF Raise, Flagged, Near
  <2>2. Near(w) \subseteq Flag
    BY <1>2 DEF Near, Inv, TypeOK, Pass
  <2>3. QED
    BY <2>1, <2>2, FlagType, Numbers DEF Recent, Inv, TypeOK
<1> HIDE DEF flag, p
<1>8. TypeOK'
  <2>1. pass' \in [Replicas -> Pass]
    BY <1>3, <1>4 DEF Inv, TypeOK, Move
  <2>2. announced' \subseteq Flag
    BY <1>1, <1>6 DEF Inv, TypeOK
  <2>3. QED
    BY <1>3, <2>1, <2>2 DEF Inv, TypeOK, Move, evidence, Evaluated
<1>9. Near(w)' = Near(w) \cup {flag} /\ \A v \in Replicas \ {w} : Near(v)' = Near(v)
  BY <1>3, <1>4, <1>5 DEF Near, Move
<1>10. Past'
  <2>1. now \in Nat /\ now' = now
    BY <1>3, Numbers DEF Inv, TypeOK, Move
  <2>2. QED
    BY <1>1, <1>9, <2>1 DEF Past, Inv
<1>11. ~lost => PassHoldsLock'
  <2>1. pass[w] # NoPass
    BY DEF Raise, Judging, NoPass
  <2>2. QED
    BY <1>3, <1>5, <2>1 DEF PassHoldsLock, Inv, Move
<1>12. ASSUME ~lost PROVE Apart'
  <2>1. \A v \in Replicas \ {w} : \A f, g \in Near(v)' : Distant(f, g)
    BY <1>9, <1>12 DEF Inv, Apart
  <2>2. \A f \in Near(w) : Distant(f, flag) /\ Distant(flag, f)
    BY <1>1, <1>7 DEF Distant
  <2>3. \A f, g \in Near(w)' : Distant(f, g)
    <3>1. Distant(flag, flag)
      BY DEF Distant
    <3>2. QED
      BY <1>9, <1>12, <2>2, <3>1 DEF Inv, Apart
  <2>4. QED
    BY <2>1, <2>3 DEF Apart, Distant
<1>13. Written' = Written \cup {flag}
  <2>1. pass'[w].drafts = pass[w].drafts \cup {flag}
        /\ \A v \in Replicas \ {w} : pass'[v].drafts = pass[v].drafts
    BY <1>4, <1>5
  <2>2. QED
    BY <1>3, <2>1 DEF Written, Move
<1>14. Told'
  <2>1. faults' = faults /\ faults \in Nat /\ loop' = loop
    BY <1>3, Numbers DEF Inv, TypeOK, Move
  <2>2. \A h \in announced' : h.after <= faults' /\ (h.after = faults' => h \in Written')
    BY <1>1, <1>6, <1>13, <2>1 DEF Told, Inv
  <2>3. QED
    BY <1>6, <2>1, <2>2 DEF Told, Inv
<1>15. ASSUME ~lost PROVE Retold'
  <2>1. \A h \in announced : h \in Flag /\ h.after \in Nat /\ faults \in Nat
    BY FlagType, Numbers DEF Inv, TypeOK
  <2>2. Written = Near(w)
    <3>1. \A v \in Replicas \ {w} : pass[v] = NoPass
      <4>1. pass[w] # NoPass
        BY DEF Raise, Judging, NoPass
      <4>2. QED
        BY <1>15, <4>1 DEF Inv, PassHoldsLock
    <3>2. \A v \in Replicas \ {w} : pass[v].drafts = {}
      BY <3>1 DEF NoPass
    <3>3. QED
      BY <3>2 DEF Written, Near
  <2>3. ASSUME NEW h \in announced, ~Distant(h, flag) \/ ~Distant(flag, h)
        PROVE  h.after < flag.after /\ h \notin Written'
    <3>1. h.subject = s /\ h # flag /\ ~(now - h.at > Dedupe)
      BY <1>1, <2>3 DEF Distant
    <3>2. h \notin Written
      BY <1>7, <2>2, <3>1
    <3>3. h.after <= faults /\ h.after # faults
      BY <3>2 DEF Told, Inv
    <3>4. QED
      BY <1>1, <1>13, <2>1, <3>1, <3>2, <3>3
  <2>4. ASSUME NEW f \in announced, NEW g \in announced, ~Distant(f, g)
        PROVE  f.after # g.after /\ (f.after < g.after => f \notin Written')
    <3>1. f.after # g.after /\ (f.after < g.after => f \notin Written)
      BY <1>15, <2>4 DEF Retold, Inv
    <3>2. g.after <= faults
      BY DEF Told, Inv
    <3>3. f.after < g.after => f # flag
      BY <1>1, <2>1, <3>2
    <3>4. QED
      BY <1>13, <3>1, <3>3
  <2>5. Distant(flag, flag)
    BY DEF Distant
  <2>6. ASSUME NEW f \in announced', NEW g \in announced', ~Distant(f, g)
        PROVE  f.after # g.after /\ (f.after < g.after => f \notin Written')
    <3>1. CASE f \in announced /\ g \in announced
      BY <2>4, <2>6, <3>1
    <3>2. CASE f = flag /\ g \in announced
      BY <1>1, <2>1, <2>3, <2>6, <3>2
    <3>3. CASE f \in announced /\ g = flag
      BY <1>1, <2>1, <2>3, <2>6, <3>3
    <3>4. QED
      BY <1>6, <2>5, <2>6, <3>1, <3>2, <3>3
  <2>7. QED
    BY <2>6 DEF Retold, Distant
<1>16. QED
  BY <1>3, <1>8, <1>10, <1>11, <1>12, <1>14, <1>15 DEF Inv, Move, Distant

LEMMA Begins ==
  ASSUME Inv, NEW w \in Replicas, Begin(w)
  PROVE  Inv'
<1> DEFINE p == [NoPass EXCEPT !.step = IF loop = "alerting" THEN "rules" ELSE "current"]
<1>1. p \in Pass /\ p.drafts = {}
  BY NoPassType DEF NoPass, Pass, Steps
<1>2. pass'[w] = p /\ \A v \in Replicas \ {w} : pass'[v] = pass[v]
  BY DEF Begin, Inv, TypeOK
<1>3. pass' = [pass EXCEPT ![w] = p]
  BY DEF Begin
<1> HIDE DEF p
<1>4. TypeOK'
  <2>1. pass' \in [Replicas -> Pass]
    BY <1>1, <1>3 DEF Inv, TypeOK
  <2>2. QED
    BY <2>1 DEF Begin, Inv, TypeOK, evidence, Evaluated
<1>5. (\A v \in Replicas : Near(v)' = Near(v)) /\ Written' = Written
  <2>1. pass[w].drafts = {}
    BY DEF Begin, NoPass
  <2>2. \A v \in Replicas : pass'[v].drafts = pass[v].drafts
    BY <1>1, <1>2, <2>1
  <2>3. QED
    BY <2>2 DEF Near, Written, Begin
<1>6. Past'
  BY <1>5 DEF Past, Inv, Begin
<1>7. ~lost => PassHoldsLock'
  BY <1>2, NoOneType DEF PassHoldsLock, Inv, Begin
<1>8. (~lost => Apart' /\ Retold') /\ Told'
  BY <1>5 DEF Apart, Retold, Told, Distant, Inv, Begin
<1>9. QED
  BY <1>4, <1>6, <1>7, <1>8 DEF Inv, Begin, Distant

LEMMA PassStepKeeps ==
  ASSUME Inv, NEW w \in Replicas, PassStep(w)
  PROVE  Inv'
<1>1. pass[w] \in Pass /\ pass[w].todo \in SUBSET Subjects
      /\ Completed \in SUBSET Traces /\ Evaluated \in SUBSET Traces
  BY DEF Inv, TypeOK, Pass, Completed, Evaluated
<1>2. ASSUME pass[w].step # "idle" PROVE pass[w] # NoPass
  BY <1>2 DEF NoPass
<1>3. /\ Rules \in SUBSET Subjects /\ Apps \in SUBSET Subjects /\ {} \in SUBSET Subjects
      /\ Metrics \in SUBSET Subjects /\ Rules \ disabled \in SUBSET Subjects
  BY DEF Subjects
<1>4. breaching \in SUBSET Subjects /\ budgeted \in SUBSET Subjects
  BY DEF Inv, TypeOK, Subjects
<1>5. CASE ReadRules(w)
  <2>1. [pass[w] EXCEPT !.step = "values", !.armed = Rules \ disabled] \in Pass
    BY <1>1, <1>3, StepType DEF Steps
  <2>2. [pass[w] EXCEPT !.step = "values", !.armed = Rules \ disabled].drafts = pass[w].drafts
    BY <1>1 DEF Pass
  <2>3. QED
    BY <1>2, <1>5, <2>1, <2>2, Goes DEF ReadRules
<1>6. CASE ReadValues(w)
  <2> DEFINE p == [pass[w] EXCEPT !.step = "judge", !.over = breaching, !.todo = Rules]
  <2>1. p \in Pass
    BY <1>1, <1>3, <1>4, StepType DEF Steps
  <2>1a. p.drafts = pass[w].drafts
    BY <1>1 DEF Pass
  <2>2. Move(w, p)
    BY <1>6 DEF ReadValues
  <2> HIDE DEF p
  <2>3. QED
    BY <1>2, <1>6, <2>1, <2>1a, <2>2, Goes DEF ReadValues
<1>7. CASE ReadApps(w)
  <2> DEFINE p == [pass[w] EXCEPT !.step = "apps", !.armed = budgeted, !.todo = Apps]
  <2>1. p \in Pass
    BY <1>1, <1>3, <1>4, StepType DEF Steps
  <2>1a. p.drafts = pass[w].drafts
    BY <1>1 DEF Pass
  <2>2. Move(w, p)
    BY <1>7 DEF ReadApps
  <2> HIDE DEF p
  <2>3. QED
    BY <1>2, <1>7, <2>1, <2>1a, <2>2, Goes DEF ReadApps
<1>8. CASE ReadCurrent(w)
  <2> DEFINE p == [pass[w] EXCEPT !.step = "previous", !.current = Window(0),
                                  !.seen = Completed, !.known = Evaluated]
  <2>1. p \in Pass
    BY <1>1, <1>3, WindowType, WindowStepType DEF Steps
  <2>1a. p.drafts = pass[w].drafts
    BY <1>1 DEF Pass
  <2>2. Move(w, p)
    BY <1>8 DEF ReadCurrent
  <2> HIDE DEF p
  <2>3. QED
    BY <1>2, <1>8, <2>1, <2>1a, <2>2, Goes DEF ReadCurrent
<1>9. CASE ReadPrevious(w)
  <2>1. PICK todo \in {Metrics, {}} :
          Move(w, [pass[w] EXCEPT !.step = "metrics", !.previous = Window(Offset), !.todo = todo])
    BY <1>9 DEF ReadPrevious
  <2> DEFINE p == [pass[w] EXCEPT !.step = "metrics", !.previous = Window(Offset), !.todo = todo]
  <2>2. p \in Pass
    BY <1>1, <1>3, WindowType, WindowStepType DEF Steps
  <2>2a. p.drafts = pass[w].drafts
    BY <1>1 DEF Pass
  <2>3. Move(w, p)
    BY <2>1
  <2> HIDE DEF p
  <2>4. QED
    BY <1>2, <1>9, <2>2, <2>2a, <2>3, Goes DEF ReadPrevious
<1>10. ASSUME NEW s \in Subjects, Dismiss(w, s) PROVE Inv'
  <2> DEFINE p == [pass[w] EXCEPT !.todo = pass[w].todo \ {s}]
  <2>1. pass[w].todo \ {s} \in SUBSET Subjects
    BY <1>1
  <2>2. p \in Pass
    BY <1>1, <2>1, StepType DEF Steps
  <2>2a. p.drafts = pass[w].drafts
    BY <1>1 DEF Pass
  <2>3. Move(w, p)
    BY <1>10 DEF Dismiss
  <2> HIDE DEF p
  <2>4. QED
    BY <1>2, <1>10, <2>2, <2>2a, <2>3, Goes DEF Dismiss, Judging
<1>11. ASSUME NEW s \in Subjects, Raise(w, s) PROVE Inv'
  BY <1>11, Raises
<1>12. CASE Commit(w)
  <2>1. TypeOK'
    <3>1. pass' \in [Replicas -> Pass]
      BY <1>12, NoPassType DEF Commit, End, Inv, TypeOK
    <3>2. flags' \subseteq Flag
      BY <1>1, <1>12 DEF Commit, Inv, TypeOK, Pass
    <3>3. lock' \in Replicas \cup {NoOne}
      BY <1>12 DEF Commit, End, Inv, TypeOK
    <3>4. QED
      BY <1>12, <3>1, <3>2, <3>3 DEF Commit, End, Inv, TypeOK, evidence, Evaluated
  <2>2. QED
    BY <1>2, <1>12, <2>1, Over DEF Commit, Near
<1>13. QED
  BY <1>5, <1>6, <1>7, <1>8, <1>9, <1>10, <1>11, <1>12 DEF PassStep

------------------------------------------------------------------------------
(* The invariant *)

LEMMA Initially == Init => Inv
<1> SUFFICES ASSUME Init PROVE Inv
  OBVIOUS
<1>1. TypeOK
  <2>1. pass \in [Replicas -> Pass]
    BY NoPassType DEF Init
  <2>2. scores \in [Traces -> Evaluations \cup {NoScores}]
    BY DEF Init
  <2>2a. failed \subseteq Evaluated
    BY DEF Init
  <2>3. now \in 0..MaxTime /\ changes \in 0..MaxChanges /\ faults \in 0..MaxFaults
    BY Numbers DEF Init
  <2>4. QED
    BY <2>1, <2>2, <2>2a, <2>3 DEF Init, TypeOK
<1>2. \A w \in Replicas : Near(w) = {}
  BY DEF Init, Near, NoPass
<1>3. QED
  BY <1>1, <1>2 DEF Init, Inv, Past, Apart, PassHoldsLock, Told, Retold

LEMMA Step == Inv /\ [Next]_vars => Inv'
<1> SUFFICES ASSUME Inv, [Next]_vars PROVE Inv'
  OBVIOUS
<1>1. ASSUME NEW w \in Replicas, Begin(w) PROVE Inv'
  BY <1>1, Begins
<1>2. ASSUME NEW w \in Replicas, PassStep(w) PROVE Inv'
  BY <1>2, PassStepKeeps
<1>3. ASSUME NEW w \in Replicas, Fail(w) PROVE Inv'
  <2>1. TypeOK'
    <3>1. pass' \in [Replicas -> Pass]
      BY <1>3, NoPassType DEF Fail, End, Inv, TypeOK
    <3>2. lock' \in Replicas \cup {NoOne}
      BY <1>3 DEF Fail, End, Inv, TypeOK
    <3>3. faults' \in 0..MaxFaults
      BY <1>3, Numbers DEF Fail, Fault, Inv, TypeOK
    <3>4. QED
      BY <1>3, <3>1, <3>2, <3>3 DEF Fail, End, Inv, TypeOK, evidence, Evaluated
  <2>2. QED
    BY <1>3, <2>1, Over DEF Fail, Fault
<1>4. ASSUME NEW w \in Replicas, LoseLock(w) PROVE Inv'
  <2>1. faults' \in 0..MaxFaults
    BY <1>4, Numbers DEF LoseLock, Fault, Inv, TypeOK
  <2>2. TypeOK'
    BY <1>4, <2>1 DEF LoseLock, Inv, TypeOK, evidence, Evaluated
  <2>3. \A v \in Replicas : Near(v)' = Near(v)
    BY <1>4 DEF LoseLock, Near
  <2>4. Past'
    BY <1>4, <2>3 DEF LoseLock, Past, Inv
  <2>5. Told'
    <3>1. \A h \in announced : h.after <= faults /\ h.after \in Nat /\ faults \in Nat
      BY FlagType, Numbers DEF Told, Inv, TypeOK
    <3>2. faults' = faults + 1 /\ announced' = announced /\ loop' = loop
      BY <1>4 DEF LoseLock, Fault
    <3>3. \A h \in announced : h.after <= faults' /\ h.after # faults'
      BY <3>1, <3>2
    <3>4. QED
      BY <3>2, <3>3 DEF Told, Inv
  <2>6. QED
    BY <1>4, <2>2, <2>4, <2>5 DEF LoseLock, Inv
<1>5. ASSUME NEW r \in Rules, SetRule(r) PROVE Inv'
  <2>1. changes' \in 0..MaxChanges
    BY <1>5, Numbers DEF SetRule, Change, Inv, TypeOK
  <2>2. TypeOK'
    BY <1>5, <2>1 DEF SetRule, Change, Environment, Inv, TypeOK, Evaluated
  <2>3. QED
    BY <1>5, <2>2, Elsewhere DEF SetRule, Change, Environment
<1>6. ASSUME NEW a \in Apps, SetBudget(a) PROVE Inv'
  <2>1. changes' \in 0..MaxChanges
    BY <1>6, Numbers DEF SetBudget, Change, Inv, TypeOK
  <2>2. TypeOK'
    BY <1>6, <2>1 DEF SetBudget, Change, Environment, Inv, TypeOK, Evaluated
  <2>3. QED
    BY <1>6, <2>2, Elsewhere DEF SetBudget, Change, Environment
<1>7. ASSUME NEW s \in Rules \cup Apps, Breach(s) PROVE Inv'
  <2>1. changes' \in 0..MaxChanges
    BY <1>7, Numbers DEF Breach, Change, Inv, TypeOK
  <2>2. TypeOK'
    BY <1>7, <2>1 DEF Breach, Change, Environment, Inv, TypeOK, Evaluated
  <2>3. QED
    BY <1>7, <2>2, Elsewhere DEF Breach, Change, Environment
<1>8. ASSUME NEW t \in Traces, Complete(t) PROVE Inv'
  <2>1. scores' \in [Traces -> Evaluations \cup {NoScores}]
    BY <1>8 DEF Complete, Inv, TypeOK
  <2>2. \A u \in failed : scores'[u] = scores[u]
    BY <1>8 DEF Complete, Inv, TypeOK, Evaluated
  <2>3. failed' \subseteq Evaluated'
    BY <1>8, <2>2 DEF Complete, Inv, TypeOK, Evaluated
  <2>4. TypeOK'
    BY <1>8, <2>1, <2>3 DEF Complete, Environment, Inv, TypeOK
  <2>5. QED
    BY <1>8, <2>4, Elsewhere DEF Complete, Environment
<1>8a. ASSUME NEW t \in Traces, Overwrite(t) PROVE Inv'
  <2>1. faults' \in 0..MaxFaults
    BY <1>8a, Numbers DEF Overwrite, Fault, Inv, TypeOK
  <2>2. TypeOK'
    BY <1>8a, <2>1 DEF Overwrite, Completed, Inv, TypeOK, Evaluated
  <2>3. QED
    BY <1>8a, <2>2, Elsewhere DEF Overwrite
<1>9. ASSUME Tick PROVE Inv'
  <2>1. now \in Nat /\ now' = now + 1 /\ now' \in 0..MaxTime
    BY <1>9, Numbers DEF Tick, Inv, TypeOK
  <2>2. TypeOK'
    BY <1>9, <2>1 DEF Tick, Inv, TypeOK, evidence, Evaluated
  <2>3. \A v \in Replicas : Near(v)' = Near(v) /\ Near(v) \subseteq Flag
    BY <1>9 DEF Tick, Near, Inv, TypeOK, Pass
  <2>4. Past'
    BY <2>1, <2>3, FlagType, Numbers DEF Past, Inv
  <2>5. ~lost => PassHoldsLock' /\ Apart'
    BY <1>9, <2>3 DEF Tick, PassHoldsLock, Apart, Inv
  <2>6. Written' = Written
    BY <1>9 DEF Tick, Written
  <2>7. Told' /\ (~lost => Retold')
    BY <1>9, <2>6 DEF Tick, Told, Retold, Distant, Inv
  <2>8. QED
    BY <1>9, <2>2, <2>4, <2>5, <2>7 DEF Tick, Inv, Distant
<1>10. CASE UNCHANGED vars
  <2>1. TypeOK'
    BY <1>10 DEF vars, evidence, Inv, TypeOK, Evaluated
  <2>2. QED
    BY <1>10, <2>1, Elsewhere DEF vars
<1>11. QED
  BY <1>1, <1>2, <1>3, <1>4, <1>5, <1>6, <1>7, <1>8, <1>8a, <1>9, <1>10
     DEF Next

------------------------------------------------------------------------------
(* The windows of a regression *)

\* RankOf and Window, of any set of these.
RankIn(t, these) == Cardinality({ u \in these : u > t })
WindowIn(these, offset) == { t \in these : RankIn(t, these) \in offset..(offset + Size - 1) }

\* The current window was read of what was complete then, the one before of what was
\* complete later: what is missing there lost its status, what is new was evaluated.
WindowsOK(p, scored, gone) ==
    /\ p.step \in {"previous", "metrics"} =>
         /\ p.seen \subseteq p.known /\ p.known \subseteq scored
         /\ p.known \ p.seen \subseteq gone
         /\ p.current = WindowIn(p.seen, 0)
    /\ p.step = "metrics" =>
         \E later \in SUBSET scored :
             /\ p.seen \ later \subseteq gone /\ later \cap p.known \subseteq p.seen
             /\ p.previous = WindowIn(later, Size)

\* What is left to judge, and drafted, is of the loop that is followed.
DraftsOK(p) ==
    /\ p.step \in {"rules", "values", "current", "previous"} => p.drafts = {}
    /\ p.step \in {"judge", "apps"} =>
         /\ p.todo \cap Metrics = {}
         /\ \A f \in p.drafts : f.subject \notin Metrics
    /\ p.step = "metrics" /\ p.todo # {} =>
         Cardinality(p.current) >= MinTraces /\ Cardinality(p.previous) >= MinTraces

\* DeclineIsReal, of one pass and one subject.
Gap(m, t, u, found) ==
    IF m \in Rising THEN found[t][m] - found[u][m] ELSE found[u][m] - found[t][m]
Worse(pct, m, t, u, before, found) ==
    /\ 100 * Gap(m, t, u, found) >= pct * found[u][m]
    /\ pct > 0 => Gap(m, t, u, found) > 0
    /\ (\A v \in before : found[v][m] = 0) => m \in Rising /\ Gap(m, t, u, found) >= Floor
Declining(pct, p, found) ==
    \A f \in p.drafts : f.subject \in Metrics =>
        /\ p.step = "metrics"
        /\ \E t \in p.current, u \in p.previous :
              Worse(pct, f.subject, t, u, p.previous, found)

FairInv ==
    /\ Inv
    /\ \A w \in Replicas : /\ WindowsOK(pass[w], Evaluated, failed)
                           /\ DraftsOK(pass[w])
                           /\ Declining(ThresholdPct[w], pass[w], scores)

\* Traces are finitely many.
LEMMA Counts ==
  ASSUME NEW S, S \subseteq Traces
  PROVE  IsFiniteSet(S) /\ Cardinality(S) \in Nat /\ \A x \in S : x \in Nat
<1>1. MaxTraces \in Nat
  BY DetectionAssumption
<1>2. IsFiniteSet(1..MaxTraces)
  BY <1>1, FS_Interval
<1>3. IsFiniteSet(S)
  BY <1>2, FS_Subset DEF Traces
<1>4. QED
  BY <1>1, <1>3, FS_CardinalityType DEF Traces

LEMMA Fewer ==
  ASSUME NEW S, NEW T, S \subseteq T, T \subseteq Traces
  PROVE  Cardinality(S) <= Cardinality(T)
BY Counts, FS_Subset

\* Of two disjoint parts of a set.
LEMMA Both ==
  ASSUME NEW S, NEW T, NEW U, S \subseteq U, T \subseteq U, S \cap T = {}, U \subseteq Traces
  PROVE  Cardinality(S) + Cardinality(T) <= Cardinality(U)
<1>1. IsFiniteSet(S) /\ IsFiniteSet(T) /\ S \cup T \subseteq U
  BY Counts
<1>2. Cardinality(S \cup T) = Cardinality(S) + Cardinality(T) - Cardinality(S \cap T)
  BY <1>1, FS_Union
<1>3. Cardinality(S \cap T) = 0
  BY FS_EmptySet
<1>4. Cardinality(S) \in Nat /\ Cardinality(T) \in Nat /\ Cardinality(S \cup T) <= Cardinality(U)
  BY <1>1, Counts, Fewer
<1>5. QED
  BY <1>2, <1>3, <1>4

LEMMA Together ==
  ASSUME NEW S, NEW T, NEW U, U = S \cup T, S \cap T = {}, S \subseteq Traces, T \subseteq Traces
  PROVE  Cardinality(U) = Cardinality(S) + Cardinality(T)
<1>1. IsFiniteSet(S) /\ IsFiniteSet(T)
  BY Counts
<1>2. Cardinality(S \cup T) = Cardinality(S) + Cardinality(T) - Cardinality(S \cap T)
  BY <1>1, FS_Union
<1>3. Cardinality(S \cap T) = 0
  BY FS_EmptySet
<1>4. Cardinality(S) \in Nat /\ Cardinality(T) \in Nat
  BY Counts
<1>5. QED
  BY <1>2, <1>3, <1>4

LEMMA RankType ==
  ASSUME NEW these, these \subseteq Traces, NEW t \in these
  PROVE  RankIn(t, these) \in Nat /\ t \in Nat
BY Counts DEF RankIn

\* An older trace has a greater rank.
LEMMA RankOrder ==
  ASSUME NEW these, these \subseteq Traces, NEW t \in these, NEW u \in these, u < t
  PROVE  RankIn(t, these) + 1 <= RankIn(u, these)
<1> DEFINE S == { v \in these : v > t }
           U == { v \in these : v > u }
<1>1. t \in Nat /\ u \in Nat /\ \A v \in these : v \in Nat
  BY Counts
<1>2. S \subseteq U /\ {t} \subseteq U /\ S \cap {t} = {} /\ U \subseteq Traces
  <2>1. \A v \in these : v > t => v > u
    BY <1>1
  <2>2. t > u /\ ~(t > t)
    BY <1>1
  <2>3. QED
    BY <2>1, <2>2
<1> HIDE DEF S, U
<1>3. Cardinality(S) + Cardinality({t}) <= Cardinality(U)
  BY <1>2, Both
<1>4. Cardinality({t}) = 1
  BY FS_Singleton
<1>5. QED
  BY <1>3, <1>4 DEF RankIn, S, U

\* What is evaluated between the two reads can only push a trace of the current
\* window into the one before, and as many as there are; what loses its status can
\* only draw a trace of the one before out of it, and as many as there are.
LEMMA Adjoining ==
  ASSUME NEW later, later \subseteq Traces, NEW before, before \subseteq Traces,
         Cardinality(WindowIn(before, 0)) = Size
  PROVE  LET current == WindowIn(before, 0)
             previous == WindowIn(later, Size)
             leftOut == { t \in before \cap later : /\ \A u \in current : t < u
                                                  /\ \E u \in previous : u < t
                                                  /\ t \notin previous }
         IN  /\ Cardinality(leftOut) <= Cardinality(before \ later)
             /\ Cardinality(current \cap previous) <= Cardinality(later \ before)
<1> DEFINE current == WindowIn(before, 0)
           previous == WindowIn(later, Size)
           leftOut == { t \in before \cap later : /\ \A u \in current : t < u
                                                /\ \E u \in previous : u < t
                                                /\ t \notin previous }
           twice == current \cap previous
<1>1. Size \in Nat \ {0}
  BY DetectionAssumption
<1>2. /\ current \subseteq before /\ \A x \in current : RankIn(x, before) < Size
      /\ previous \subseteq later
      /\ \A x \in later : x \in previous <=> RankIn(x, later) \in Size..(Size + Size - 1)
  <2>1. \A x \in current : RankIn(x, before) \in 0..(0 + Size - 1)
    BY DEF WindowIn
  <2>2. QED
    BY <1>1, <2>1 DEF WindowIn
<1>3. Cardinality(current) = Size
  OBVIOUS
<1> HIDE DEF current, previous
<1>4. /\ leftOut \subseteq before \cap later
      /\ \A t \in leftOut : \A u \in current : t < u
      /\ \A t \in leftOut : RankIn(t, later) < Size
  <2>1. ASSUME NEW t \in leftOut PROVE RankIn(t, later) < Size
    <3>1. PICK u \in previous : u < t
      BY <2>1
    <3>2. t \in later /\ t \notin previous
      BY <2>1
    <3>3. RankIn(t, later) + 1 <= RankIn(u, later)
      BY <1>2, <3>1, <3>2, RankOrder
    <3>4. RankIn(t, later) \in Nat /\ RankIn(u, later) \in Nat
      BY <1>2, <3>1, <3>2, RankType
    <3>5. RankIn(u, later) \in Size..(Size + Size - 1)
          /\ RankIn(t, later) \notin Size..(Size + Size - 1)
      BY <1>2, <3>1, <3>2
    <3>6. QED
      BY <1>1, <3>3, <3>4, <3>5
  <2>2. QED
    BY <2>1
<1> HIDE DEF leftOut
<1>5. Cardinality(leftOut) <= Cardinality(before \ later)
  <2>1. leftOut \subseteq Traces /\ IsFiniteSet(leftOut) /\ Cardinality(leftOut) \in Nat
        /\ \A x \in leftOut : x \in Nat
    <3>1. leftOut \subseteq Traces
      BY <1>4
    <3>2. QED
      BY <3>1, Counts
  <2>2. Cardinality(before \ later) \in Nat
    BY Counts
  <2>3. CASE leftOut = {}
    BY <2>2, <2>3, FS_EmptySet
  <2>4. CASE leftOut # {}
    <3>1. PICK x \in leftOut : \A v \in leftOut : x <= v
      BY <2>1, <2>4, Extremes
    <3> DEFINE others == leftOut \ {x}
               stays == current \cap later
               goes == current \ later
               newer == { v \in later : v > x }
    <3>2. \A v \in later \cup current : v \in Nat
      <4>1. later \cup current \subseteq Traces
        BY <1>2
      <4>2. QED
        BY <4>1, Counts
    <3>3. IsFiniteSet(others) /\ Cardinality(others) = Cardinality(leftOut) - 1
      BY <2>1, <3>1, FS_RemoveElement
    <3>4. /\ others \subseteq newer /\ stays \subseteq newer /\ newer \subseteq Traces
          /\ others \cap stays = {}
      <4>1. \A v \in others : v > x
        BY <2>1, <3>1
      <4>2. \A v \in stays : v > x /\ v \notin leftOut
        BY <1>4, <2>1, <3>1, <3>2
      <4>3. QED
        BY <1>4, <4>1, <4>2
    <3>5. goes \subseteq before \ later /\ before \ later \subseteq Traces
          /\ stays \subseteq Traces /\ goes \subseteq Traces
          /\ current = stays \cup goes /\ stays \cap goes = {}
      BY <1>2
    <3>6. RankIn(x, later) = Cardinality(newer) /\ RankIn(x, later) < Size
      BY <1>4, <3>1 DEF RankIn
    <3> HIDE DEF others, stays, goes, newer
    <3>7. Cardinality(others) + Cardinality(stays) <= Cardinality(newer)
      BY <3>4, Both
    <3>8. Size = Cardinality(stays) + Cardinality(goes)
      BY <1>3, <3>5, Together
    <3>9. Cardinality(goes) <= Cardinality(before \ later)
      BY <3>5, Fewer
    <3>10. Cardinality(stays) \in Nat /\ Cardinality(goes) \in Nat /\ Cardinality(newer) \in Nat
      BY <3>4, <3>5, Counts
    <3>11. QED
      BY <1>1, <2>1, <2>2, <3>3, <3>6, <3>7, <3>8, <3>9, <3>10
  <2>5. QED
    BY <2>3, <2>4
<1>6. Cardinality(twice) <= Cardinality(later \ before)
  <2>1. twice \subseteq Traces /\ IsFiniteSet(twice) /\ Cardinality(twice) \in Nat
        /\ (\A x \in twice : x \in Nat) /\ twice \subseteq before /\ twice \subseteq later
    <3>1. twice \subseteq before /\ twice \subseteq later
      BY <1>2
    <3> HIDE DEF twice
    <3>2. QED
      BY <3>1, Counts
  <2>2. Cardinality(later \ before) \in Nat
    BY Counts
  <2>3. CASE twice = {}
    BY <2>2, <2>3, FS_EmptySet
  <2>4. CASE twice # {}
    <3> HIDE DEF twice
    <3>1. PICK x \in twice, y \in twice : \A v \in twice : x <= v /\ v <= y
      BY <2>1, <2>4, Extremes
    <3> DEFINE others == twice \ {x}
               newest == { v \in later : v > y }
               after == { v \in later : v > x }
               old == { v \in before \cap later : v > x }
               new == { v \in later \ before : v > x }
               ranked == { v \in before : v > x }
    <3>2. \A v \in later : v \in Nat
      BY Counts
    <3>3. IsFiniteSet(others) /\ Cardinality(others) = Cardinality(twice) - 1
      BY <2>1, <3>1, FS_RemoveElement
    <3>4. /\ others \subseteq after /\ newest \subseteq after /\ others \cap newest = {}
          /\ after \subseteq Traces
      BY <2>1, <3>1, <3>2
    <3>5. old \subseteq Traces /\ new \subseteq Traces /\ after = old \cup new /\ old \cap new = {}
          /\ new \subseteq later \ before /\ later \ before \subseteq Traces
          /\ old \subseteq ranked /\ ranked \subseteq Traces
      OBVIOUS
    <3>6. RankIn(y, later) = Cardinality(newest) /\ RankIn(x, before) = Cardinality(ranked)
      BY DEF RankIn
    <3>7. Size <= Cardinality(newest) /\ Cardinality(ranked) < Size
      <4>1. y \in previous /\ x \in current /\ y \in later
        BY <1>2, <3>1 DEF twice
      <4>2. RankIn(y, later) \in Size..(Size + Size - 1)
        BY <1>2, <4>1
      <4>3. RankIn(x, before) < Size
        BY <1>2, <4>1
      <4>4. RankIn(y, later) \in Nat
        BY <4>1, RankType
      <4>5. QED
        BY <1>1, <3>6, <4>2, <4>3, <4>4
    <3> HIDE DEF others, newest, after, old, new, ranked
    <3>8. Cardinality(others) + Cardinality(newest) <= Cardinality(after)
      BY <3>4, Both
    <3>9. Cardinality(after) = Cardinality(old) + Cardinality(new)
      BY <3>5, Together
    <3>10. Cardinality(new) <= Cardinality(later \ before) /\ Cardinality(old) <= Cardinality(ranked)
      BY <3>5, Fewer
    <3>11. /\ Cardinality(old) \in Nat /\ Cardinality(new) \in Nat
           /\ Cardinality(newest) \in Nat /\ Cardinality(ranked) \in Nat
      BY <3>4, <3>5, Counts
    <3>12. QED
      BY <1>1, <2>1, <2>2, <3>3, <3>7, <3>8, <3>9, <3>10, <3>11
  <2>5. QED
    BY <2>3, <2>4
<1> HIDE DEF twice
<1>7. Cardinality(current \cap previous) <= Cardinality(later \ before)
  BY <1>6 DEF twice
<1>8. QED
  BY <1>5, <1>7 DEF current, previous, leftOut

------------------------------------------------------------------------------
(* The judgement on a metric *)

ScoresOf(found, m) == [t \in Traces |-> found[t][m]]
TotalOf(found, m, these) == MapThenSumSet(LAMBDA t : found[t][m], these)

LEMMA TotalIsSum ==
  ASSUME NEW found, NEW m, NEW S, S \subseteq Traces
  PROVE  TotalOf(found, m, S) = Sum(ScoresOf(found, m), S)
<1>1. IsFiniteSet(S)
  BY Counts
<1>. DEFINE Adds(g) == g = [s \in SUBSET S |-> IF s = {} THEN 0
                                             ELSE found[Some(s)][m] + g[s \ {Some(s)}]]
            h == CHOOSE g : Adds(g)
<1>2. \A s \in SUBSET S : s # {} => found[Some(s)][m] = ScoresOf(found, m)[Some(s)]
  BY SomeIn DEF ScoresOf
<1>3. ASSUME NEW g PROVE Adds(g) <=> SumsUp(g, ScoresOf(found, m), S)
  BY <1>2 DEF SumsUp
<1>4. TotalOf(found, m, S) = h[S]
  BY DEF TotalOf, MapThenSumSet, MapThenFoldSet, Some
<1>. HIDE DEF Adds
<1>5. \E g : Adds(g)
  BY <1>1, <1>3, SumsExist
<1>6. Adds(h)
  BY <1>5
<1>. HIDE DEF h
<1>7. QED
  BY <1>1, <1>3, <1>4, <1>6, SumIsFold

\* Some trace of S scores no more than the average, and some no less.
LEMMA TotalWithin ==
  ASSUME NEW found, NEW m, NEW S, S \subseteq Traces, S # {}, \A t \in S : found[t][m] \in Nat
  PROVE  /\ TotalOf(found, m, S) \in Nat
         /\ \E low, high \in S : /\ found[low][m] * Cardinality(S) <= TotalOf(found, m, S)
                                 /\ TotalOf(found, m, S) <= found[high][m] * Cardinality(S)
         /\ (\A t \in S : found[t][m] = 0) => TotalOf(found, m, S) = 0
<1> DEFINE f == ScoresOf(found, m)
<1>1. IsFiniteSet(S) /\ Cardinality(S) \in Nat
  BY Counts
<1>2. \A t \in S : f[t] = found[t][m]
  BY DEF ScoresOf
<1>3. TotalOf(found, m, S) = Sum(f, S)
  BY TotalIsSum
<1> HIDE DEF f
<1>4. \A t \in S : f[t] \in Nat
  BY <1>2
<1>5. Sum(f, S) \in Nat
  BY <1>1, <1>4, SumType
<1>6. PICK low \in S, high \in S : /\ f[low] * Cardinality(S) <= Sum(f, S)
                                   /\ Sum(f, S) <= f[high] * Cardinality(S)
  BY <1>1, <1>4, AverageWithin
<1>7. ASSUME \A t \in S : found[t][m] = 0 PROVE Sum(f, S) = 0
  <2>1. f[high] = 0
    BY <1>2, <1>7
  <2>2. Sum(f, S) <= 0 * Cardinality(S)
    BY <1>6, <2>1
  <2>3. 0 * Cardinality(S) = 0
    BY <1>1
  <2>4. QED
    BY <1>5, <2>2, <2>3
<1>8. QED
  BY <1>2, <1>3, <1>5, <1>6, <1>7

\* The arithmetic of Declined, n being the product of the windows' sizes: is and was are
\* totals that n times a score bounds.
LEMMA Cancel ==
  ASSUME NEW a \in Int, NEW b \in Int, NEW n \in Nat \ {0}
  PROVE  (a * n <= b * n => a <= b) /\ (a * n < b * n => a < b)
OBVIOUS

LEMMA RiseIsThere ==
  ASSUME NEW pct \in Nat, NEW n \in Nat \ {0}, NEW was \in Nat, NEW is \in Nat,
         NEW high \in Nat, NEW low \in Nat, is <= high * n, low * n <= was,
         was > 0, 100 * (is - was) >= pct * was
  PROVE  100 * (high - low) >= pct * low /\ (pct > 0 => high - low > 0)
<1>1. pct * was \in Nat /\ high * n \in Nat /\ low * n \in Nat
  OBVIOUS
<1>2. (100 + pct) * was <= 100 * is
  <2>1. (100 + pct) * was = 100 * was + pct * was
    OBVIOUS
  <2>2. QED
    BY <1>1, <2>1
<1>3. (100 + pct) * (low * n) <= (100 + pct) * was
  <2>1. 100 + pct \in Nat
    OBVIOUS
  <2>2. QED
    BY <1>1, <2>1, Times
<1>4. ((100 + pct) * low) * n <= (100 * high) * n
  <2>1. (100 + pct) * (low * n) = ((100 + pct) * low) * n /\ (100 * high) * n = 100 * (high * n)
    OBVIOUS
  <2>2. (100 + pct) * (low * n) \in Nat /\ (100 + pct) * was \in Nat
    BY <1>1
  <2>3. QED
    BY <1>1, <1>2, <1>3, <2>1, <2>2
<1>5. (100 + pct) * low <= 100 * high
  <2>1. (100 + pct) * low \in Int /\ 100 * high \in Int
    OBVIOUS
  <2>2. QED
    BY <1>4, <2>1, Cancel
<1>6. (100 + pct) * low = 100 * low + pct * low /\ pct * low \in Nat
  OBVIOUS
<1>7. ASSUME pct > 0 PROVE high > low
  <2>1. pct * was > 0
    BY <1>7
  <2>2. is > was
    BY <1>1, <2>1
  <2>3. low * n < high * n
    BY <1>1, <2>2
  <2>4. QED
    BY <2>3, Cancel
<1>8. QED
  BY <1>5, <1>6, <1>7

LEMMA DropIsThere ==
  ASSUME NEW pct \in Nat, NEW n \in Nat \ {0}, NEW was \in Nat, NEW is \in Nat,
         NEW high \in Nat, NEW low \in Nat, low * n <= is, was <= high * n,
         was > 0, 100 * (was - is) >= pct * was
  PROVE  100 * (high - low) >= pct * high /\ (pct > 0 => high - low > 0)
<1>1. pct * was \in Nat /\ high * n \in Nat /\ low * n \in Nat
  OBVIOUS
<1>2. pct <= 100
  <2> SUFFICES ASSUME pct >= 101 PROVE FALSE
    OBVIOUS
  <2>1. 101 * was <= pct * was
    BY Times
  <2>2. QED
    BY <1>1, <2>1
<1>3. PICK rest \in Nat : rest = 100 - pct
  BY <1>2
<1>4. 100 * is <= rest * was
  <2>1. rest * was = 100 * was - pct * was
    BY <1>3
  <2>2. QED
    BY <1>1, <2>1
<1>5. rest * was <= rest * (high * n)
  BY <1>1, Times
<1>6. (100 * low) * n <= (rest * high) * n
  <2>1. (rest * high) * n = rest * (high * n) /\ (100 * low) * n = 100 * (low * n)
    OBVIOUS
  <2>2. rest * was \in Nat /\ rest * (high * n) \in Nat
    BY <1>1
  <2>3. QED
    BY <1>1, <1>4, <1>5, <2>1, <2>2
<1>7. 100 * low <= rest * high
  <2>1. 100 * low \in Int /\ rest * high \in Int
    OBVIOUS
  <2>2. QED
    BY <1>6, <2>1, Cancel
<1>8. rest * high = 100 * high - pct * high /\ pct * high \in Nat
  BY <1>3
<1>9. ASSUME pct > 0 PROVE high > low
  <2>1. pct * was > 0
    BY <1>9
  <2>2. was > is
    BY <1>1, <2>1
  <2>3. low * n < high * n
    BY <1>1, <2>2
  <2>4. QED
    BY <2>3, Cancel
<1>10. QED
  BY <1>7, <1>8, <1>9

LEMMA Products ==
  ASSUME NEW a \in Nat \ {0}, NEW b \in Nat \ {0}, NEW c \in Nat
  PROVE  /\ a * b \in Nat \ {0}
         /\ (c * a) * b = c * (a * b) /\ (c * b) * a = c * (a * b)
         /\ c * a \in Nat /\ c * b \in Nat
OBVIOUS

LEMMA DeclineShows ==
  ASSUME NEW m \in Metrics, NEW pct \in Nat, NEW S, S \subseteq Traces, NEW T, T \subseteq Traces,
         \A t \in S \cup T : scores[t][m] \in Nat,
         Cardinality(S) > 0, Cardinality(T) > 0, Declined(pct, m, S, T)
  PROVE  \E t \in S, u \in T : Worse(pct, m, t, u, T, scores)
<1> DEFINE was == Total(m, T) * Cardinality(S)
           is == Total(m, S) * Cardinality(T)
           floor == Floor * Cardinality(S) * Cardinality(T)
<1>0. \/ m \in Rising /\ was = 0 /\ is >= floor /\ 100 * is >= pct * floor
      \/ m \in Rising /\ was > 0 /\ 100 * (is - was) >= pct * was
      \/ m \notin Rising /\ was > 0 /\ 100 * (was - is) >= pct * was
  BY DEF Declined
<1>1. Total(m, S) = TotalOf(scores, m, S) /\ Total(m, T) = TotalOf(scores, m, T)
  BY DEF Total, TotalOf
<1>2. S # {} /\ T # {}
  BY FS_EmptySet
<1>3. PICK a \in Nat, b \in Nat : a = Total(m, S) /\ b = Total(m, T)
  BY <1>1, <1>2, TotalWithin
<1>4. PICK i \in Nat \ {0}, j \in Nat \ {0} : i = Cardinality(S) /\ j = Cardinality(T)
  BY Counts
<1>5. PICK low1 \in S, high1 \in S : scores[low1][m] * i <= a /\ a <= scores[high1][m] * i
  BY <1>1, <1>2, <1>3, <1>4, TotalWithin
<1>6. PICK low2 \in T, high2 \in T : scores[low2][m] * j <= b /\ b <= scores[high2][m] * j
  BY <1>1, <1>2, <1>3, <1>4, TotalWithin
<1>7. (\A t \in T : scores[t][m] = 0) => b = 0
  BY <1>1, <1>2, <1>3, TotalWithin
<1>8. /\ scores[low1][m] \in Nat /\ scores[high1][m] \in Nat
      /\ scores[low2][m] \in Nat /\ scores[high2][m] \in Nat
  OBVIOUS
<1>9. PICK n \in Nat \ {0} : n = i * j
  BY <1>4, Products
<1>10. was = b * i /\ is = a * j /\ floor = Floor * i * j
  BY <1>3, <1>4
<1> HIDE DEF was, is, floor
<1>11. was \in Nat /\ is \in Nat
  BY <1>10
<1>12. scores[low1][m] * n <= is /\ is <= scores[high1][m] * n
  <2>1. /\ (scores[low1][m] * i) * j = scores[low1][m] * n /\ scores[low1][m] * i \in Nat
        /\ (scores[high1][m] * i) * j = scores[high1][m] * n /\ scores[high1][m] * i \in Nat
    BY <1>8, <1>9, Products
  <2>2. (scores[low1][m] * i) * j <= a * j /\ a * j <= (scores[high1][m] * i) * j
    BY <1>5, <2>1, Times
  <2>3. QED
    BY <1>10, <2>1, <2>2
<1>13. scores[low2][m] * n <= was /\ was <= scores[high2][m] * n
  <2>1. /\ (scores[low2][m] * j) * i = scores[low2][m] * n /\ scores[low2][m] * j \in Nat
        /\ (scores[high2][m] * j) * i = scores[high2][m] * n /\ scores[high2][m] * j \in Nat
    BY <1>8, <1>9, Products
  <2>2. (scores[low2][m] * j) * i <= b * i /\ b * i <= (scores[high2][m] * j) * i
    BY <1>6, <2>1, Times
  <2>3. QED
    BY <1>10, <2>1, <2>2
<1>14. was > 0 => ~\A t \in T : scores[t][m] = 0
  <2>1. b = 0 => was = 0
    BY <1>4, <1>10
  <2>2. QED
    BY <1>7, <2>1
<1>15. CASE m \in Rising /\ was = 0 /\ is >= floor
  <2>1. Floor \in Nat \ {0}
    BY DetectionAssumption
  <2>2. floor = Floor * n
    BY <1>9, <1>10, <2>1, Products
  <2>3. Floor * n <= scores[high1][m] * n
    <3>1. Floor * n \in Int /\ scores[high1][m] * n \in Int
      BY <1>8, <2>1
    <3>2. QED
      BY <1>11, <1>12, <1>15, <2>2, <3>1
  <2>4. Floor <= scores[high1][m]
    BY <1>8, <2>1, <2>3, Cancel
  <2>5. scores[low2][m] = 0
    <3>1. scores[low2][m] * n <= 0 * n
      BY <1>13, <1>15
    <3>2. scores[low2][m] <= 0
      BY <1>8, <3>1, Cancel
    <3>3. QED
      BY <1>8, <3>2
  <2>6. pct * scores[low2][m] = 0 /\ Gap(m, high1, low2, scores) = scores[high1][m]
    BY <1>8, <1>15, <2>5 DEF Gap
  <2>7. Worse(pct, m, high1, low2, T, scores)
    BY <1>8, <1>15, <2>1, <2>4, <2>6 DEF Worse
  <2>8. QED
    BY <2>7
<1>16. CASE m \in Rising /\ was > 0 /\ 100 * (is - was) >= pct * was
  <2>1. /\ 100 * (scores[high1][m] - scores[low2][m]) >= pct * scores[low2][m]
        /\ pct > 0 => scores[high1][m] - scores[low2][m] > 0
    BY <1>8, <1>11, <1>12, <1>13, <1>16, RiseIsThere
  <2>2. Worse(pct, m, high1, low2, T, scores)
    BY <1>14, <1>16, <2>1 DEF Worse, Gap
  <2>3. QED
    BY <2>2
<1>17. CASE m \notin Rising /\ was > 0 /\ 100 * (was - is) >= pct * was
  <2>1. /\ 100 * (scores[high2][m] - scores[low1][m]) >= pct * scores[high2][m]
        /\ pct > 0 => scores[high2][m] - scores[low1][m] > 0
    BY <1>8, <1>11, <1>12, <1>13, <1>17, DropIsThere
  <2>2. Worse(pct, m, low1, high2, T, scores)
    BY <1>14, <1>17, <2>1 DEF Worse, Gap
  <2>3. QED
    BY <2>2
<1>18. QED
  BY <1>0, <1>15, <1>16, <1>17

------------------------------------------------------------------------------
(* What a regression is judged by stays *)

LEMMA Scored ==
  ASSUME TypeOK, NEW t \in Evaluated, NEW m \in Metrics
  PROVE  scores[t][m] \in Nat
BY DetectionAssumption DEF TypeOK, Evaluated

LEMMA WindowsWithin ==
  ASSUME NEW p, NEW scored, NEW gone, WindowsOK(p, scored, gone), p.step = "metrics"
  PROVE  p.current \subseteq scored /\ p.previous \subseteq scored
BY DEF WindowsOK, WindowIn

\* One pass goes on.
LEMMA FairMove ==
  ASSUME FairInv, Inv', NEW w \in Replicas, NEW p, pass' = [pass EXCEPT ![w] = p],
         scores' = scores, failed' = failed, WindowsOK(p, Evaluated, failed), DraftsOK(p),
         Declining(ThresholdPct[w], p, scores)
  PROVE  FairInv'
<1>1. pass'[w] = p /\ \A v \in Replicas \ {w} : pass'[v] = pass[v]
  BY DEF FairInv, Inv, TypeOK
<1>2. Evaluated' = Evaluated
  BY DEF Evaluated
<1>3. ASSUME NEW v \in Replicas
      PROVE  /\ WindowsOK(pass'[v], Evaluated', failed')
             /\ DraftsOK(pass'[v])
             /\ Declining(ThresholdPct[v], pass'[v], scores')
  <2>1. CASE v = w
    BY <1>1, <1>2, <2>1
  <2>2. CASE v # w
    BY <1>1, <1>2, <2>2 DEF FairInv
  <2>3. QED
    BY <2>1, <2>2
<1>4. QED
  BY <1>3 DEF FairInv

\* No pass goes on; evaluations complete or lose their status.
LEMMA FairElsewhere ==
  ASSUME FairInv, Inv', pass' = pass, \A t \in Evaluated : scores'[t] = scores[t],
         failed \subseteq failed'
  PROVE  FairInv'
<1>1. Evaluated \subseteq Evaluated'
  BY DEF Evaluated
<1>2. ASSUME NEW w \in Replicas
      PROVE  /\ WindowsOK(pass[w], Evaluated', failed')
             /\ DraftsOK(pass[w])
             /\ Declining(ThresholdPct[w], pass[w], scores')
  <2>1. /\ WindowsOK(pass[w], Evaluated, failed) /\ DraftsOK(pass[w])
        /\ Declining(ThresholdPct[w], pass[w], scores)
    BY DEF FairInv
  <2>2. WindowsOK(pass[w], Evaluated', failed')
    <3>1. ASSUME pass[w].step \in {"previous", "metrics"}
          PROVE  /\ pass[w].seen \subseteq pass[w].known /\ pass[w].known \subseteq Evaluated'
                 /\ pass[w].known \ pass[w].seen \subseteq failed'
                 /\ pass[w].current = WindowIn(pass[w].seen, 0)
      BY <1>1, <2>1, <3>1 DEF WindowsOK
    <3>2. ASSUME pass[w].step = "metrics"
          PROVE  \E later \in SUBSET Evaluated' :
                    /\ pass[w].seen \ later \subseteq failed'
                    /\ later \cap pass[w].known \subseteq pass[w].seen
                    /\ pass[w].previous = WindowIn(later, Size)
      <4>1. PICK later \in SUBSET Evaluated :
                    /\ pass[w].seen \ later \subseteq failed
                    /\ later \cap pass[w].known \subseteq pass[w].seen
                    /\ pass[w].previous = WindowIn(later, Size)
        BY <2>1, <3>2 DEF WindowsOK
      <4>2. later \in SUBSET Evaluated' /\ pass[w].seen \ later \subseteq failed'
        BY <1>1, <4>1
      <4>3. QED
        BY <4>1, <4>2
    <3>3. QED
      BY <3>1, <3>2 DEF WindowsOK
  <2>3. Declining(ThresholdPct[w], pass[w], scores')
    <3> SUFFICES ASSUME NEW f \in pass[w].drafts, f.subject \in Metrics
                 PROVE  /\ pass[w].step = "metrics"
                        /\ \E t \in pass[w].current, u \in pass[w].previous :
                             Worse(ThresholdPct[w], f.subject, t, u, pass[w].previous, scores')
      BY DEF Declining
    <3>1. pass[w].step = "metrics"
      BY <2>1 DEF Declining
    <3>2. PICK t \in pass[w].current, u \in pass[w].previous :
                 Worse(ThresholdPct[w], f.subject, t, u, pass[w].previous, scores)
      BY <2>1 DEF Declining
    <3>3. pass[w].current \subseteq Evaluated /\ pass[w].previous \subseteq Evaluated
      BY <2>1, <3>1, WindowsWithin
    <3>4. \A v \in pass[w].current \cup pass[w].previous : scores'[v] = scores[v]
      BY <3>3
    <3>5. Worse(ThresholdPct[w], f.subject, t, u, pass[w].previous, scores')
      BY <3>2, <3>4 DEF Worse, Gap
    <3>6. QED
      BY <3>1, <3>2, <3>5
  <2>4. QED
    BY <2>1, <2>2, <2>3
<1>3. QED
  BY <1>2 DEF FairInv

\* A pass that has not read anything.
LEMMA FairFresh ==
  ASSUME FairInv, Inv', NEW w \in Replicas, NEW step \in {"idle", "rules", "current"},
         pass' = [pass EXCEPT ![w] = [NoPass EXCEPT !.step = step]], scores' = scores,
         failed' = failed
  PROVE  FairInv'
<1>1. PICK p : p = [NoPass EXCEPT !.step = step]
  OBVIOUS
<1>2. p.step = step /\ p.drafts = {} /\ p.todo = {}
  BY <1>1 DEF NoPass
<1>3. WindowsOK(p, Evaluated, failed) /\ DraftsOK(p) /\ Declining(ThresholdPct[w], p, scores)
  BY <1>2 DEF WindowsOK, DraftsOK, Declining
<1>4. QED
  BY <1>1, <1>3, FairMove

LEMMA WindowIs == ASSUME NEW offset PROVE Window(offset) = WindowIn(Completed, offset)
BY DEF Window, WindowIn, RankOf, RankIn

LEMMA FairPass ==
  ASSUME FairInv, Inv', NEW w \in Replicas, PassStep(w)
  PROVE  FairInv'
<1>1. /\ pass[w] \in Pass /\ TypeOK
      /\ WindowsOK(pass[w], Evaluated, failed) /\ DraftsOK(pass[w]) /\ Declining(ThresholdPct[w], pass[w], scores)
  BY DEF FairInv, Inv, TypeOK
<1>2. Rules \cap Metrics = {} /\ Apps \cap Metrics = {} /\ MinTraces \in Nat \ {0}
  BY DetectionAssumption
<1>3. CASE ReadRules(w)
  <2>1. PICK p : p = [pass[w] EXCEPT !.step = "values", !.armed = Rules \ disabled]
    OBVIOUS
  <2>2. pass' = [pass EXCEPT ![w] = p] /\ scores' = scores /\ failed' = failed
    BY <1>3, <2>1 DEF ReadRules, Move, evidence
  <2>3. p.step = "values" /\ p.drafts = pass[w].drafts /\ p.drafts = {}
    BY <1>1, <1>3, <2>1 DEF Pass, ReadRules, DraftsOK
  <2>4. WindowsOK(p, Evaluated, failed) /\ DraftsOK(p) /\ Declining(ThresholdPct[w], p, scores)
    BY <2>3 DEF WindowsOK, DraftsOK, Declining
  <2>5. QED
    BY <2>2, <2>4, FairMove
<1>4. CASE ReadValues(w)
  <2>1. PICK p : p = [pass[w] EXCEPT !.step = "judge", !.over = breaching, !.todo = Rules]
    OBVIOUS
  <2>2. pass' = [pass EXCEPT ![w] = p] /\ scores' = scores /\ failed' = failed
    BY <1>4, <2>1 DEF ReadValues, Move, evidence
  <2>3. p.step = "judge" /\ p.drafts = {} /\ p.todo = Rules
    BY <1>1, <1>4, <2>1 DEF Pass, ReadValues, DraftsOK
  <2>4. WindowsOK(p, Evaluated, failed) /\ DraftsOK(p) /\ Declining(ThresholdPct[w], p, scores)
    BY <1>2, <2>3 DEF WindowsOK, DraftsOK, Declining
  <2>5. QED
    BY <2>2, <2>4, FairMove
<1>5. CASE ReadApps(w)
  <2>1. PICK p : p = [pass[w] EXCEPT !.step = "apps", !.armed = budgeted, !.todo = Apps]
    OBVIOUS
  <2>2. pass' = [pass EXCEPT ![w] = p] /\ scores' = scores /\ failed' = failed
    BY <1>5, <2>1 DEF ReadApps, Move, evidence
  <2>3. /\ p.step = "apps" /\ p.drafts = pass[w].drafts /\ p.todo = Apps
        /\ \A f \in p.drafts : f.subject \notin Metrics
    BY <1>1, <1>5, <2>1 DEF Pass, ReadApps, DraftsOK
  <2>4. WindowsOK(p, Evaluated, failed) /\ DraftsOK(p) /\ Declining(ThresholdPct[w], p, scores)
    BY <1>2, <2>3 DEF WindowsOK, DraftsOK, Declining
  <2>5. QED
    BY <2>2, <2>4, FairMove
<1>6. CASE ReadCurrent(w)
  <2>1. PICK p : p = [pass[w] EXCEPT !.step = "previous", !.current = Window(0),
                                     !.seen = Completed, !.known = Evaluated]
    OBVIOUS
  <2>2. pass' = [pass EXCEPT ![w] = p] /\ scores' = scores /\ failed' = failed
    BY <1>6, <2>1 DEF ReadCurrent, Move, evidence
  <2>3. /\ p.step = "previous" /\ p.drafts = {} /\ p.seen = Completed
        /\ p.known = Evaluated /\ p.current = WindowIn(Completed, 0)
    BY <1>1, <1>6, <2>1, WindowIs DEF Pass, ReadCurrent, DraftsOK
  <2>4. WindowsOK(p, Evaluated, failed) /\ DraftsOK(p) /\ Declining(ThresholdPct[w], p, scores)
    BY <2>3 DEF WindowsOK, DraftsOK, Declining, Completed
  <2>5. QED
    BY <2>2, <2>4, FairMove
<1>7. CASE ReadPrevious(w)
  <2> DEFINE todo == IF /\ Cardinality(pass[w].current) >= MinTraces
                        /\ Cardinality(Window(Offset)) >= MinTraces
                     THEN Metrics ELSE {}
  <2>1. PICK p : p = [pass[w] EXCEPT !.step = "metrics", !.previous = Window(Offset),
                                     !.todo = todo]
    OBVIOUS
  <2>2. pass' = [pass EXCEPT ![w] = p] /\ scores' = scores /\ failed' = failed
    BY <1>7, <2>1 DEF ReadPrevious, Move, evidence
  <2>3. /\ p.step = "metrics" /\ p.drafts = {}
        /\ p.seen = pass[w].seen /\ p.known = pass[w].known
        /\ p.current = pass[w].current /\ p.previous = Window(Offset) /\ p.todo = todo
    <3> HIDE DEF todo
    <3>1. QED
      BY <1>1, <1>7, <2>1 DEF Pass, ReadPrevious, DraftsOK
  <2>4. p.previous = WindowIn(Completed, Size)
    BY <2>3, WindowIs DEF Offset
  <2>5. DraftsOK(p)
    BY <2>3 DEF DraftsOK
  <2> HIDE DEF todo
  <2>6. WindowsOK(p, Evaluated, failed)
    <3>1. /\ p.seen \subseteq p.known /\ p.known \subseteq Evaluated
          /\ p.known \ p.seen \subseteq failed /\ p.current = WindowIn(p.seen, 0)
      BY <1>1, <1>7, <2>3 DEF WindowsOK, ReadPrevious
    <3>2. /\ p.seen \ Completed \subseteq failed /\ Completed \cap p.known \subseteq p.seen
          /\ Completed \in SUBSET Evaluated
      BY <3>1 DEF Completed
    <3>3. QED
      BY <2>3, <2>4, <3>1, <3>2 DEF WindowsOK
  <2>7. Declining(ThresholdPct[w], p, scores)
    BY <2>3 DEF Declining
  <2>8. QED
    BY <2>2, <2>5, <2>6, <2>7, FairMove
<1>8. ASSUME NEW s \in Subjects, Dismiss(w, s) PROVE FairInv'
  <2>1. PICK p : p = [pass[w] EXCEPT !.todo = pass[w].todo \ {s}]
    OBVIOUS
  <2>2. pass' = [pass EXCEPT ![w] = p] /\ scores' = scores /\ failed' = failed
    BY <1>8, <2>1 DEF Dismiss, Move, evidence
  <2>3. /\ p.step = pass[w].step /\ p.drafts = pass[w].drafts
        /\ p.seen = pass[w].seen /\ p.known = pass[w].known
        /\ p.current = pass[w].current /\ p.previous = pass[w].previous
        /\ p.todo \subseteq pass[w].todo
    BY <1>1, <2>1 DEF Pass
  <2>4. WindowsOK(p, Evaluated, failed)
    BY <1>1, <2>3 DEF WindowsOK
  <2>5. DraftsOK(p)
    BY <1>1, <2>3 DEF DraftsOK
  <2>6. Declining(ThresholdPct[w], p, scores)
    BY <1>1, <2>3 DEF Declining
  <2>7. QED
    BY <2>2, <2>4, <2>5, <2>6, FairMove
<1>9. ASSUME NEW s \in Subjects, Raise(w, s) PROVE FairInv'
  <2>1. PICK flag : flag = [subject |-> s, at |-> now, by |-> w, after |-> faults]
    OBVIOUS
  <2>2. PICK p : p = [pass[w] EXCEPT !.todo = pass[w].todo \ {s},
                                     !.drafts = pass[w].drafts \cup {flag}]
    OBVIOUS
  <2>3. pass' = [pass EXCEPT ![w] = p] /\ scores' = scores /\ failed' = failed
    BY <1>9, <2>1, <2>2 DEF Raise, Move, evidence
  <2>4. /\ p.step = pass[w].step /\ p.drafts = pass[w].drafts \cup {flag}
        /\ p.current = pass[w].current /\ p.previous = pass[w].previous
        /\ p.seen = pass[w].seen /\ p.known = pass[w].known /\ p.todo \subseteq pass[w].todo
    BY <1>1, <2>2 DEF Pass
  <2>5. flag.subject = s
    BY <2>1
  <2>6. /\ pass[w].step \in {"judge", "apps", "metrics"} /\ s \in pass[w].todo /\ Bad(w, s)
    BY <1>9 DEF Raise, Judging
  <2>7. WindowsOK(p, Evaluated, failed)
    BY <1>1, <2>4 DEF WindowsOK
  <2>8. DraftsOK(p)
    <3>1. CASE pass[w].step \in {"judge", "apps"}
      <4>1. s \notin Metrics
        BY <1>1, <2>6, <3>1 DEF DraftsOK
      <4>2. QED
        BY <1>1, <2>4, <2>5, <3>1, <4>1 DEF DraftsOK
    <3>2. CASE pass[w].step = "metrics"
      BY <1>1, <2>4, <3>2 DEF DraftsOK
    <3>3. QED
      BY <2>6, <3>1, <3>2
  <2>9. ASSUME s \in Metrics
        PROVE  /\ pass[w].step = "metrics"
               /\ \E t \in pass[w].current, u \in pass[w].previous :
                    Worse(ThresholdPct[w], s, t, u, pass[w].previous, scores)
    <3>1. pass[w].step = "metrics"
      BY <1>1, <2>6, <2>9 DEF DraftsOK
    <3>2. /\ Declined(ThresholdPct[w], s, pass[w].current, pass[w].previous)
          /\ ThresholdPct[w] \in Nat
      BY <2>6, <2>9, DetectionAssumption DEF Bad
    <3>3. pass[w].current \subseteq Evaluated /\ pass[w].previous \subseteq Evaluated
      BY <1>1, <3>1, WindowsWithin
    <3>4. Cardinality(pass[w].current) >= MinTraces /\ Cardinality(pass[w].previous) >= MinTraces
      BY <1>1, <2>6, <3>1 DEF DraftsOK
    <3>5. Evaluated \subseteq Traces
      BY DEF Evaluated
    <3>6. Cardinality(pass[w].current) > 0 /\ Cardinality(pass[w].previous) > 0
      <4>1. Cardinality(pass[w].current) \in Nat /\ Cardinality(pass[w].previous) \in Nat
        BY <3>3, <3>5, Counts
      <4>2. QED
        BY <1>2, <3>4, <4>1
    <3>7. \A t \in pass[w].current \cup pass[w].previous : scores[t][s] \in Nat
      BY <1>1, <2>9, <3>3, Scored
    <3>8. pass[w].current \subseteq Traces /\ pass[w].previous \subseteq Traces
      BY <3>3, <3>5
    <3>9. \E t \in pass[w].current, u \in pass[w].previous :
             Worse(ThresholdPct[w], s, t, u, pass[w].previous, scores)
      BY <2>9, <3>2, <3>6, <3>7, <3>8, DeclineShows
    <3>10. QED
      BY <3>1, <3>9
  <2>10. Declining(ThresholdPct[w], p, scores)
    BY <1>1, <2>4, <2>5, <2>9 DEF Declining
  <2>11. QED
    BY <2>3, <2>7, <2>8, <2>10, FairMove
<1>10. CASE Commit(w)
  <2>1. pass' = [pass EXCEPT ![w] = [NoPass EXCEPT !.step = "idle"]] /\ scores' = scores /\ failed' = failed
    BY <1>10 DEF Commit, End, NoPass, evidence
  <2>2. QED
    BY <2>1, FairFresh
<1>11. QED
  BY <1>3, <1>4, <1>5, <1>6, <1>7, <1>8, <1>9, <1>10 DEF PassStep

LEMMA FairStep == FairInv /\ [Next]_vars => FairInv'
<1> SUFFICES ASSUME FairInv, [Next]_vars PROVE FairInv'
  OBVIOUS
<1>1. Inv'
  BY Step DEF FairInv
<1>2. ASSUME NEW w \in Replicas, Begin(w) PROVE FairInv'
  <2>1. PICK step \in {"rules", "current"} : pass' = [pass EXCEPT ![w].step = step]
    BY <1>2 DEF Begin
  <2>2. pass' = [pass EXCEPT ![w] = [NoPass EXCEPT !.step = step]] /\ scores' = scores /\ failed' = failed
    BY <1>2, <2>1 DEF Begin, evidence
  <2>3. QED
    BY <1>1, <2>2, FairFresh
<1>3. ASSUME NEW w \in Replicas, Fail(w) PROVE FairInv'
  <2>1. pass' = [pass EXCEPT ![w] = [NoPass EXCEPT !.step = "idle"]] /\ scores' = scores /\ failed' = failed
    BY <1>3 DEF Fail, End, NoPass, evidence
  <2>2. QED
    BY <1>1, <2>1, FairFresh
<1>4. ASSUME NEW t \in Traces, Complete(t) PROVE FairInv'
  <2>1. pass' = pass /\ failed' = failed /\ \A u \in Evaluated : scores'[u] = scores[u]
    BY <1>4 DEF Complete, Environment, Evaluated, FairInv, Inv, TypeOK
  <2>2. QED
    BY <1>1, <2>1, FairElsewhere
<1>4a. ASSUME NEW t \in Traces, Overwrite(t) PROVE FairInv'
  <2>1. pass' = pass /\ failed \subseteq failed' /\ scores' = scores
    BY <1>4a DEF Overwrite
  <2>2. QED
    BY <1>1, <2>1, FairElsewhere
<1>5. ASSUME pass' = pass, scores' = scores, failed' = failed PROVE FairInv'
  BY <1>1, <1>5, FairElsewhere
<1>6. CASE UNCHANGED vars
  BY <1>5, <1>6 DEF vars, evidence
<1>7. ASSUME NEW w \in Replicas, LoseLock(w) PROVE FairInv'
  BY <1>5, <1>7 DEF LoseLock, evidence
<1>8. ASSUME NEW r \in Rules, SetRule(r) PROVE FairInv'
  BY <1>5, <1>8 DEF SetRule, Change, Environment
<1>9. ASSUME NEW a \in Apps, SetBudget(a) PROVE FairInv'
  BY <1>5, <1>9 DEF SetBudget, Change, Environment
<1>10. ASSUME NEW r \in Rules \cup Apps, Breach(r) PROVE FairInv'
  BY <1>5, <1>10 DEF Breach, Change, Environment
<1>11. CASE Tick
  BY <1>5, <1>11 DEF Tick, evidence
<1>12. QED
  BY <1>1, <1>2, <1>3, <1>4, <1>4a, <1>6, <1>7, <1>8, <1>9, <1>10, <1>11,
     FairPass DEF Next

LEMMA FairInitially == Init => FairInv
<1> SUFFICES ASSUME Init PROVE FairInv
  OBVIOUS
<1>1. \A w \in Replicas : pass[w].step = "idle" /\ pass[w].drafts = {} /\ pass[w].todo = {}
  BY DEF Init, NoPass
<1>2. QED
  BY <1>1, Initially DEF FairInv, WindowsOK, DraftsOK, Declining

LEMMA FairIsFair == FairInv => RegressionIsJudgedFairly
<1> SUFFICES ASSUME FairInv PROVE RegressionIsJudgedFairly
  OBVIOUS
<1>1. WindowsAdjoin
  <2> DEFINE LeftOut(p) == { t \in p.seen \cap Completed : /\ \A u \in p.current : t < u
                                                       /\ \E u \in p.previous : u < t
                                                       /\ t \notin p.previous }
  <2> SUFFICES ASSUME NEW w \in Replicas, pass[w].step = "metrics",
                      Cardinality(pass[w].current) = Size
               PROVE  /\ Cardinality(LeftOut(pass[w])) <= Cardinality(pass[w].seen \ Completed)
                      /\ Cardinality(pass[w].current \cap pass[w].previous)
                           <= Cardinality(Evaluated \ pass[w].known)
    BY DEF WindowsAdjoin
  <2>1. WindowsOK(pass[w], Evaluated, failed)
    BY DEF FairInv
  <2>2. PICK later : /\ later \subseteq Evaluated /\ pass[w].seen \ later \subseteq failed
                     /\ later \cap pass[w].known \subseteq pass[w].seen
                     /\ pass[w].previous = WindowIn(later, Size)
    BY <2>1 DEF WindowsOK
  <2>3. /\ pass[w].current = WindowIn(pass[w].seen, 0) /\ Evaluated \subseteq Traces
        /\ pass[w].seen \subseteq pass[w].known /\ pass[w].known \subseteq Evaluated
    BY <2>1 DEF WindowsOK, Evaluated
  <2>4. PICK before : before = pass[w].seen
    OBVIOUS
  <2> DEFINE current == WindowIn(before, 0)
             previous == WindowIn(later, Size)
             leftOut == { t \in before \cap later : /\ \A u \in current : t < u
                                                  /\ \E u \in previous : u < t
                                                  /\ t \notin previous }
  <2>5. later \subseteq Traces /\ before \subseteq Traces /\ Cardinality(current) = Size
    BY <2>2, <2>3, <2>4
  <2>6. /\ Cardinality(leftOut) <= Cardinality(before \ later)
        /\ Cardinality(current \cap previous) <= Cardinality(later \ before)
    BY <2>5, Adjoining
  <2>7. pass[w].current = current /\ pass[w].previous = previous
    BY <2>2, <2>3, <2>4
  <2> HIDE DEF current, previous
  <2>8. LeftOut(pass[w]) \subseteq leftOut
    BY <2>2, <2>4, <2>7 DEF Completed
  <2>9. before \ later \subseteq before \ Completed /\ later \ before \subseteq Evaluated \ pass[w].known
    BY <2>2, <2>4 DEF Completed
  <2>10. /\ leftOut \subseteq Traces /\ before \ later \subseteq Traces
         /\ before \ Completed \subseteq Traces /\ later \ before \subseteq Traces
         /\ Evaluated \ pass[w].known \subseteq Traces /\ current \cap previous \subseteq Traces
         /\ LeftOut(pass[w]) \subseteq Traces
    BY <2>3, <2>5 DEF current, WindowIn
  <2> HIDE DEF leftOut, LeftOut
  <2>11. /\ Cardinality(LeftOut(pass[w])) <= Cardinality(leftOut)
         /\ Cardinality(before \ later) <= Cardinality(before \ Completed)
         /\ Cardinality(later \ before) <= Cardinality(Evaluated \ pass[w].known)
    BY <2>8, <2>9, <2>10, Fewer
  <2>12. /\ Cardinality(LeftOut(pass[w])) \in Nat /\ Cardinality(leftOut) \in Nat
         /\ Cardinality(before \ later) \in Nat /\ Cardinality(before \ Completed) \in Nat
         /\ Cardinality(later \ before) \in Nat
         /\ Cardinality(Evaluated \ pass[w].known) \in Nat
         /\ Cardinality(current \cap previous) \in Nat
    BY <2>10, Counts
  <2>13. /\ Cardinality(LeftOut(pass[w])) <= Cardinality(before \ Completed)
         /\ Cardinality(current \cap previous) <= Cardinality(Evaluated \ pass[w].known)
    BY <2>6, <2>11, <2>12
  <2>14. QED
    BY <2>4, <2>7, <2>13
<1>2. DeclineIsReal
  BY DEF FairInv, Declining, Worse, Gap, DeclineIsReal
<1>3. QED
  BY <1>1, <1>2 DEF RegressionIsJudgedFairly

------------------------------------------------------------------------------
(* Theorems *)

\* Every state is well typed, for any replicas, rules, applications and metrics:
\* what the passes of worker/tasks/alerting.py and regression.py keep.
THEOREM TypeCorrect == Spec => []TypeOK
<1>1. Inv => TypeOK
  BY DEF Inv
<1>2. QED
  BY <1>1, Initially, Step, PTL DEF Spec

\* While the advisory lock holds, no subject has two rows within the dedupe window, and
\* receivers are told of it twice only when the pass that told them first failed before
\* its commit: whatever passes fail, and however old flags are (_already_alerted, _fire,
\* and the dedupe query of detect_regressions_for_application).
THEOREM ToldOnce == Spec => []OncePerWindow
<1>1. ASSUME Inv PROVE OncePerWindow
  <2>1. \A f \in flags \cup announced : f.at \in Int
    <3>1. flags \cup announced \subseteq Flag
      BY <1>1 DEF Inv, TypeOK
    <3>2. \A f \in Flag : f.at \in Int
      BY FlagType, Numbers
    <3>3. QED
      BY <3>1, <3>2
  <2>2. \A f, g \in flags \cup announced :
           (f # g /\ f.subject = g.subject /\ f.at - g.at <= Dedupe /\ g.at - f.at <= Dedupe)
             => ~Distant(f, g)
    BY <2>1, Numbers DEF Distant
  <2>3. ~lost => \A f, g \in flags : Distant(f, g)
    BY <1>1 DEF Inv
  <2>4. ~lost => \A f, g \in announced :
           Distant(f, g) \/ (f.after # g.after /\ (f.after < g.after => f \notin flags))
    <3>1. flags \subseteq Written
      BY DEF Written
    <3>2. QED
      BY <1>1, <3>1 DEF Inv, Retold
  <2>5. QED
    BY <2>2, <2>3, <2>4 DEF OncePerWindow
<1>2. QED
  BY <1>1, Initially, Step, PTL DEF Spec

\* A regression compares two windows that adjoin, but for what is evaluated or loses its
\* status between the two reads, and reports a decline that is there, by the threshold
\* of its replica (detect_regressions_for_application): for windows of any size, any
\* thresholds, zero and more than a hundred percent included, and any scores.
THEOREM JudgedFairly == Spec => []RegressionIsJudgedFairly
<1>1. QED
  BY FairIsFair, FairInitially, FairStep, PTL DEF Spec

==============================================================================
