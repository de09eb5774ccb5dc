------------------------------ MODULE SumTheorems ------------------------------
(***************************************************************************)
(* Sums over finite sets: what the proofs about spend, averages and rates  *)
(* need of them.                                                           *)
(***************************************************************************)
EXTENDS Integers, FiniteSetsExt, FiniteSetTheorems, WellFoundedInduction, TLAPS

------------------------------------------------------------------------------
(* Sums over a finite set *)

\* The element that a sum takes first.
Some(s) == CHOOSE x \in s : TRUE

\* g is the sum of f over every subset of S.
SumsUp(g, f, S) ==
    g = [s \in SUBSET S |-> IF s = {} THEN 0 ELSE f[Some(s)] + g[s \ {Some(s)}]]

Sum(f, S) == MapThenSumSet(LAMBDA x : f[x], S)

\* A non-empty set of finite sets has one that contains no other.
LEMMA SmallestSet ==
    ASSUME NEW S, IsFiniteSet(S), NEW T, T \subseteq SUBSET S, T # {}
    PROVE  \E s \in T : \A t \in T : t \subseteq s => t = s
<1>1. IsWellFoundedOn(StrictSubsetOrdering(S), SUBSET S)
  BY FS_StrictSubsetOrderingWellFounded, FS_FiniteSubsetsOfFinite
<1>2. PICK s \in T : \A t \in T : << t, s >> \notin StrictSubsetOrdering(S)
  BY <1>1, WFMin
<1>3. QED
  BY <1>2 DEF StrictSubsetOrdering

LEMMA SomeIn == ASSUME NEW s, s # {} PROVE Some(s) \in s
BY DEF Some

LEMMA SumsAgree ==
    ASSUME NEW f, NEW S, NEW T, IsFiniteSet(S),
           NEW g, SumsUp(g, f, S), NEW h, SumsUp(h, f, T),
           NEW s, s \subseteq S, s \subseteq T
    PROVE  g[s] = h[s]
<1>. DEFINE Bad == { t \in SUBSET (S \cap T) : g[t] # h[t] }
<1>. SUFFICES ASSUME Bad # {} PROVE FALSE
  OBVIOUS
<1>1. Bad \subseteq SUBSET S
  OBVIOUS
<1>2. PICK t \in Bad : \A u \in Bad : u \subseteq t => u = t
  <2>. HIDE DEF Bad
  <2>1. QED
    BY <1>1, SmallestSet
<1>3. /\ g[t] = IF t = {} THEN 0 ELSE f[Some(t)] + g[t \ {Some(t)}]
      /\ h[t] = IF t = {} THEN 0 ELSE f[Some(t)] + h[t \ {Some(t)}]
  BY DEF SumsUp
<1>4. t # {}
  BY <1>3
<1>5. t \ {Some(t)} \notin Bad
  BY <1>2, <1>4, SomeIn
<1>6. g[t \ {Some(t)}] = h[t \ {Some(t)}]
  BY <1>5
<1>7. QED
  BY <1>3, <1>4, <1>6

\* The recursive definition of a sum has a solution.
LEMMA SumsExist ==
    ASSUME NEW f, NEW S, IsFiniteSet(S)
    PROVE  \E g : SumsUp(g, f, S)
<1>. DEFINE Bad == { s \in SUBSET S : \A g : ~SumsUp(g, f, s) }
<1>. SUFFICES ASSUME Bad # {} PROVE FALSE
  OBVIOUS
<1>1. Bad \subseteq SUBSET S
  OBVIOUS
<1>2. PICK s \in Bad : \A t \in Bad : t \subseteq s => t = s
  <2>. HIDE DEF Bad
  <2>1. QED
    BY <1>1, SmallestSet
<1>. DEFINE G(t) == CHOOSE g : SumsUp(g, f, t)
            h == [t \in SUBSET s |-> IF t = {} THEN 0
                                     ELSE f[Some(t)] + G(t \ {Some(t)})[t \ {Some(t)}]]
<1>3. \A t \in SUBSET s : t # s => SumsUp(G(t), f, t)
  <2> SUFFICES ASSUME NEW t \in SUBSET s, t # s PROVE SumsUp(G(t), f, t)
    OBVIOUS
  <2>1. \E g : SumsUp(g, f, t)
    BY <1>2
  <2>2. QED
    BY <2>1
<1>. HIDE DEF G
<1>4. ASSUME NEW t \in SUBSET s, t # {}
      PROVE  h[t \ {Some(t)}] = G(t \ {Some(t)})[t \ {Some(t)}]
  <2>. DEFINE u == t \ {Some(t)}
  <2>1. u \subseteq s /\ u # s /\ IsFiniteSet(u)
    BY <1>4, SomeIn, FS_Subset
  <2>2. SumsUp(G(u), f, u)
    BY <1>3, <2>1
  <2>3. G(u)[u] = IF u = {} THEN 0 ELSE f[Some(u)] + G(u)[u \ {Some(u)}]
    BY <2>2 DEF SumsUp
  <2>4. CASE u = {}
    BY <2>1, <2>3, <2>4
  <2>5. CASE u # {}
    <3>. DEFINE w == u \ {Some(u)}
    <3>1. w \subseteq s /\ w # s /\ IsFiniteSet(w) /\ w \subseteq u
      BY <2>1, <2>5, SomeIn, FS_Subset
    <3>2. SumsUp(G(w), f, w)
      BY <1>3, <3>1
    <3>. HIDE DEF u, w
    <3>3. G(w)[w] = G(u)[w]
      BY <2>2, <3>1, <3>2, SumsAgree
    <3>. USE DEF u, w
    <3>4. QED
      BY <2>1, <2>3, <2>5, <3>3
  <2>6. QED
    BY <2>4, <2>5
<1>5. SumsUp(h, f, s)
  <2>1. \A t \in SUBSET s : h[t] = IF t = {} THEN 0 ELSE f[Some(t)] + h[t \ {Some(t)}]
    BY <1>4
  <2>2. h = [t \in SUBSET s |-> IF t = {} THEN 0 ELSE f[Some(t)] + h[t \ {Some(t)}]]
    BY <2>1
  <2>3. QED
    BY <2>2 DEF SumsUp
<1>6. QED
  BY <1>2, <1>5

LEMMA SumIsFold ==
    ASSUME NEW f, NEW S, IsFiniteSet(S), NEW g, SumsUp(g, f, S)
    PROVE  Sum(f, S) = g[S]
<1>. DEFINE h == CHOOSE h : SumsUp(h, f, S)
<1>1. SumsUp(h, f, S)
  BY SumsExist
<1>2. Sum(f, S) = h[S]
  BY DEF Sum, MapThenSumSet, MapThenFoldSet, SumsUp, Some
<1>. HIDE DEF h
<1>3. QED
  BY <1>1, <1>2, SumsAgree

\* A sum is nothing, or an element and the sum of the others.
LEMMA SumStep ==
    ASSUME NEW f, NEW S, IsFiniteSet(S)
    PROVE  Sum(f, S) = IF S = {} THEN 0 ELSE f[Some(S)] + Sum(f, S \ {Some(S)})
<1>1. PICK g : SumsUp(g, f, S)
  BY SumsExist
<1>2. Sum(f, S) = g[S] /\ g[S] = IF S = {} THEN 0 ELSE f[Some(S)] + g[S \ {Some(S)}]
  <2>1. Sum(f, S) = g[S]
    BY <1>1, SumIsFold
  <2>2. QED
    BY <1>1, <2>1 DEF SumsUp
<1>. DEFINE u == S \ {Some(S)}
<1>3. u \subseteq S /\ IsFiniteSet(u)
  BY FS_Subset
<1>4. PICK h : SumsUp(h, f, u)
  <2>. HIDE DEF u
  <2>1. QED
    BY <1>3, SumsExist
<1>5. Sum(f, u) = h[u] /\ g[u] = h[u]
  <2>. HIDE DEF u
  <2>1. QED
    BY <1>1, <1>3, <1>4, SumIsFold, SumsAgree
<1>6. QED
  BY <1>2, <1>5

LEMMA SumType ==
    ASSUME NEW S, IsFiniteSet(S), NEW f, \A x \in S : f[x] \in Nat
    PROVE  Sum(f, S) \in Nat
<1>. DEFINE Bad == { s \in SUBSET S : Sum(f, s) \notin Nat }
<1>. SUFFICES ASSUME Bad # {} PROVE FALSE
  OBVIOUS
<1>1. Bad \subseteq SUBSET S
  OBVIOUS
<1>2. PICK s \in Bad : \A t \in Bad : t \subseteq s => t = s
  <2>. HIDE DEF Bad
  <2>1. QED
    BY <1>1, SmallestSet
<1>3. IsFiniteSet(s)
  BY FS_Subset
<1>4. Sum(f, s) = IF s = {} THEN 0 ELSE f[Some(s)] + Sum(f, s \ {Some(s)})
  BY <1>3, SumStep
<1>5. s # {} /\ Some(s) \in s
  BY <1>4, SomeIn
<1>6. Sum(f, s \ {Some(s)}) \in Nat
  BY <1>2, <1>5
<1>7. QED
  BY <1>4, <1>5, <1>6

\* Any element may be taken first.
LEMMA SumRemove ==
    ASSUME NEW S, IsFiniteSet(S), NEW f, \A x \in S : f[x] \in Nat, NEW x \in S
    PROVE  Sum(f, S) = f[x] + Sum(f, S \ {x})
<1>. DEFINE Bad == { s \in SUBSET S : \E y \in s : Sum(f, s) # f[y] + Sum(f, s \ {y}) }
<1>. SUFFICES ASSUME Bad # {} PROVE FALSE
  OBVIOUS
<1>1. Bad \subseteq SUBSET S
  OBVIOUS
<1>2. PICK s \in Bad : \A t \in Bad : t \subseteq s => t = s
  <2>. HIDE DEF Bad
  <2>1. QED
    BY <1>1, SmallestSet
<1>3. PICK y \in s : Sum(f, s) # f[y] + Sum(f, s \ {y})
  OBVIOUS
<1>. DEFINE z == Some(s)
<1>4. z \in s
  BY SomeIn
<1>. DEFINE both == s \ {y, z}
<1>5. IsFiniteSet(s) /\ IsFiniteSet(both)
  BY FS_Subset
<1>6. Sum(f, s) = f[z] + Sum(f, s \ {z})
  BY <1>4, <1>5, SumStep
<1>7. y # z
  BY <1>3, <1>6
<1>8. /\ Sum(f, s \ {z}) = f[y] + Sum(f, (s \ {z}) \ {y})
      /\ Sum(f, s \ {y}) = f[z] + Sum(f, (s \ {y}) \ {z})
  <2>1. s \ {z} \notin Bad /\ s \ {y} \notin Bad
    BY <1>2, <1>4
  <2>2. QED
    BY <1>4, <1>7, <2>1
<1>9. (s \ {z}) \ {y} = both /\ (s \ {y}) \ {z} = both
  OBVIOUS
<1>10. Sum(f, both) \in Nat /\ f[y] \in Nat /\ f[z] \in Nat
  BY <1>4, <1>5, SumType
<1>11. Sum(f, s) = f[z] + (f[y] + Sum(f, both)) /\ Sum(f, s \ {y}) = f[z] + Sum(f, both)
  BY <1>6, <1>8, <1>9
<1>. HIDE DEF z, both
<1>12. QED
  BY <1>3, <1>10, <1>11

\* A sum grows with its set and its terms; terms that are 0 do not matter.
LEMMA SumGrows ==
    ASSUME NEW S, IsFiniteSet(S), NEW f, \A x \in S : f[x] \in Nat,
           NEW T, IsFiniteSet(T), NEW g, \A x \in T : g[x] \in Nat,
           \A x \in S : f[x] = 0 \/ (x \in T /\ f[x] <= g[x])
    PROVE  Sum(f, S) <= Sum(g, T)
<1>. DEFINE Bad == { s \in SUBSET S : \E t \in SUBSET T :
                       /\ \A x \in s : f[x] = 0 \/ (x \in t /\ f[x] <= g[x])
                       /\ ~(Sum(f, s) <= Sum(g, t)) }
<1>. SUFFICES ASSUME Bad # {} PROVE FALSE
  OBVIOUS
<1>1. Bad \subseteq SUBSET S
  OBVIOUS
<1>2. PICK s \in Bad : \A t \in Bad : t \subseteq s => t = s
  <2>. HIDE DEF Bad
  <2>1. QED
    BY <1>1, SmallestSet
<1>3. PICK t \in SUBSET T : /\ \A x \in s : f[x] = 0 \/ (x \in t /\ f[x] <= g[x])
                            /\ ~(Sum(f, s) <= Sum(g, t))
  OBVIOUS
<1>4. IsFiniteSet(s) /\ IsFiniteSet(t)
  BY FS_Subset
<1>5. Sum(g, t) \in Nat
  BY <1>4, SumType
<1>6. PICK x : x \in s
  <2>1. Sum(f, {}) = 0
    BY FS_EmptySet, SumStep
  <2>2. QED
    BY <1>3, <1>5, <2>1
<1>7. Sum(f, s) = f[x] + Sum(f, s \ {x}) /\ Sum(f, s \ {x}) \in Nat
  <2>1. IsFiniteSet(s \ {x})
    BY <1>4, FS_Subset
  <2>2. Sum(f, s) = f[x] + Sum(f, s \ {x})
    BY <1>4, <1>6, SumRemove
  <2>3. QED
    BY <2>1, <2>2, SumType
<1>8. s \ {x} \notin Bad
  BY <1>2, <1>6
<1>9. CASE f[x] = 0
  <2>1. Sum(f, s \ {x}) <= Sum(g, t)
    BY <1>3, <1>8
  <2>2. QED
    BY <1>3, <1>7, <1>9, <2>1
<1>10. CASE x \in t /\ f[x] <= g[x]
  <2>1. Sum(g, t) = g[x] + Sum(g, t \ {x}) /\ Sum(g, t \ {x}) \in Nat
    <3>1. IsFiniteSet(t \ {x})
      BY <1>4, FS_Subset
    <3>2. Sum(g, t) = g[x] + Sum(g, t \ {x})
      BY <1>4, <1>10, SumRemove
    <3>3. QED
      BY <3>1, <3>2, SumType
  <2>2. Sum(f, s \ {x}) <= Sum(g, t \ {x})
    BY <1>3, <1>8
  <2>3. f[x] \in Nat /\ g[x] \in Nat
    BY <1>6, <1>10
  <2>4. QED
    BY <1>3, <1>7, <1>10, <2>1, <2>2, <2>3
<1>11. QED
  BY <1>3, <1>6, <1>9, <1>10

------------------------------------------------------------------------------
(* Averages *)

LEMMA Times ==
    ASSUME NEW a \in Int, NEW b \in Int, NEW c \in Nat, a <= b
    PROVE  a * c <= b * c /\ c * a <= c * b
OBVIOUS

LEMMA OnceMore == ASSUME NEW a \in Nat, NEW n \in Nat PROVE a * (n + 1) = a * n + a /\ a * n \in Nat
OBVIOUS

LEMMA SumEmpty == ASSUME NEW f PROVE Sum(f, {}) = 0
BY FS_EmptySet, SumStep

LEMMA SumOne == ASSUME NEW f, NEW a, f[a] \in Nat PROVE Sum(f, {a}) = f[a]
<1>1. IsFiniteSet({a}) /\ {a} \ {a} = {}
  BY FS_Singleton
<1>2. Sum(f, {a}) = f[a] + Sum(f, {a} \ {a})
  BY <1>1, SumRemove
<1>3. QED
  BY <1>1, <1>2, SumEmpty

LEMMA SumTwo ==
    ASSUME NEW f, NEW a, NEW b, a # b, f[a] \in Nat, f[b] \in Nat
    PROVE  Sum(f, {a, b}) = f[a] + f[b]
<1>1. IsFiniteSet({b}) /\ {a, b} = {b} \cup {a} /\ {a, b} \ {a} = {b}
  BY FS_Singleton
<1>2. IsFiniteSet({a, b})
  BY <1>1, FS_AddElement
<1>3. Sum(f, {a, b}) = f[a] + Sum(f, {a, b} \ {a})
  BY <1>2, SumRemove
<1>4. QED
  BY <1>1, <1>3, SumOne

\* An average, rounded down.
LEMMA Quotient ==
    ASSUME NEW a \in Nat, NEW n \in Nat \ {0}
    PROVE  /\ a \div n \in Nat /\ n * (a \div n) <= a /\ a < n * (a \div n) + n
           /\ \A b \in Nat : (a <= b * n => a \div n <= b) /\ (b * n <= a => b <= a \div n)
<1>1. a \div n \in Nat /\ n * (a \div n) <= a /\ a < n * (a \div n) + n
  <2>1. a = n * (a \div n) + (a % n) /\ a % n \in 0..(n - 1)
    OBVIOUS
  <2>2. a \div n \in Nat
    OBVIOUS
  <2>3. QED
    BY <2>1, <2>2
<1>2. PICK q \in Nat : q = a \div n
  BY <1>1
<1>3. ASSUME NEW b \in Nat, a <= b * n, b < q PROVE FALSE
  <2>1. (b + 1) * n <= q * n /\ (b + 1) * n = b * n + n /\ b * n \in Nat /\ q * n = n * q
    BY <1>3, Times, OnceMore
  <2>2. QED
    BY <1>1, <1>2, <1>3, <2>1
<1>4. ASSUME NEW b \in Nat, b * n <= a, q < b PROVE FALSE
  <2>1. (q + 1) * n <= b * n /\ (q + 1) * n = q * n + n /\ b * n \in Nat /\ q * n = n * q
    BY <1>4, Times, OnceMore
  <2>2. QED
    BY <1>1, <1>2, <1>4, <2>1
<1>5. QED
  BY <1>1, <1>2, <1>3, <1>4

\* A sum is between its least value and its greatest, as many times as there are.
LEMMA SumBetween ==
    ASSUME NEW S, IsFiniteSet(S), NEW f, \A x \in S : f[x] \in Nat,
           NEW low \in Nat, NEW high \in Nat, \A x \in S : low <= f[x] /\ f[x] <= high
    PROVE  low * Cardinality(S) <= Sum(f, S) /\ Sum(f, S) <= high * Cardinality(S)
<1>. DEFINE Within(s) == low * Cardinality(s) <= Sum(f, s) /\ Sum(f, s) <= high * Cardinality(s)
            Bad == { s \in SUBSET S : ~Within(s) }
<1>. SUFFICES ASSUME Bad # {} PROVE FALSE
  OBVIOUS
<1>1. Bad \subseteq SUBSET S
  OBVIOUS
<1>2. PICK s \in Bad : \A t \in Bad : t \subseteq s => t = s
  <2>. HIDE DEF Bad
  <2>1. QED
    BY <1>1, SmallestSet
<1>3. IsFiniteSet(s)
  BY FS_Subset
<1>4. PICK x \in s : TRUE
  <2>1. Within({})
    BY FS_EmptySet, SumEmpty
  <2>2. QED
    BY <2>1
<1>5. /\ IsFiniteSet(s \ {x})
      /\ Cardinality(s) \in Nat /\ Cardinality(s \ {x}) \in Nat
      /\ Cardinality(s) = Cardinality(s \ {x}) + 1
  <2>1. IsFiniteSet(s \ {x}) /\ Cardinality(s \ {x}) = Cardinality(s) - 1
    BY <1>3, <1>4, FS_RemoveElement
  <2>2. Cardinality(s) \in Nat /\ Cardinality(s \ {x}) \in Nat
    BY <1>3, <2>1, FS_CardinalityType
  <2>3. QED
    BY <2>1, <2>2
<1>6. Sum(f, s) = f[x] + Sum(f, s \ {x})
  BY <1>3, <1>4, SumRemove
<1>7. Sum(f, s \ {x}) \in Nat
  BY <1>5, SumType
<1>8. Within(s \ {x})
  BY <1>2, <1>4
<1>9. low <= f[x] /\ f[x] <= high /\ f[x] \in Nat
  BY <1>4
<1>10. PICK n \in Nat : n = Cardinality(s \ {x})
  BY <1>5
<1>11. /\ low * (n + 1) = low * n + low /\ high * (n + 1) = high * n + high
       /\ low * n \in Nat /\ high * n \in Nat
  BY OnceMore
<1>12. low * n <= Sum(f, s \ {x}) /\ Sum(f, s \ {x}) <= high * n
  BY <1>8, <1>10
<1>13. low * n + low <= Sum(f, s) /\ Sum(f, s) <= high * n + high
  BY <1>6, <1>7, <1>9, <1>11, <1>12
<1>14. Cardinality(s) = n + 1
  BY <1>5, <1>10
<1>15. Within(s)
  BY <1>11, <1>13, <1>14
<1>16. QED
  BY <1>15

LEMMA Greatest ==
    ASSUME NEW S, \A x \in S : x \in Nat, IsFiniteSet(S), S # {}
    PROVE  \E high \in S : \A x \in S : x <= high
<1>. DEFINE Bad == { s \in SUBSET S : s # {} /\ \A high \in s : \E x \in s : ~(x <= high) }
<1>. SUFFICES ASSUME Bad # {} PROVE FALSE
  OBVIOUS
<1>1. Bad \subseteq SUBSET S
  OBVIOUS
<1>2. PICK s \in Bad : \A t \in Bad : t \subseteq s => t = s
  <2>. HIDE DEF Bad
  <2>1. QED
    BY <1>1, SmallestSet
<1>3. PICK x \in s : TRUE
  OBVIOUS
<1>4. s \ {x} \notin Bad
  BY <1>2, <1>3
<1>5. CASE s \ {x} = {}
  BY <1>3, <1>5
<1>6. CASE s \ {x} # {}
  <2>1. PICK high \in s \ {x} : \A y \in s \ {x} : y <= high
    BY <1>4, <1>6
  <2>2. high \in Nat /\ x \in Nat
    BY <1>3, <2>1
  <2>3. CASE x <= high
    BY <2>1, <2>3
  <2>4. CASE ~(x <= high)
    <3>1. \A y \in s : y <= x
      BY <2>1, <2>2, <2>4
    <3>2. QED
      BY <1>3, <3>1
  <2>5. QED
    BY <2>3, <2>4
<1>7. QED
  BY <1>5, <1>6

\* A finite set of numbers has a least one and a greatest.
LEMMA Extremes ==
    ASSUME NEW S, S \subseteq Nat, IsFiniteSet(S), S # {}
    PROVE  \E low, high \in S : \A x \in S : low <= x /\ x <= high
<1>1. \E low \in S : \A x \in S : low <= x
  <2>1. PICK low \in S : \A x \in S : ~(<< x, low >> \in OpToRel(<, Nat))
    BY WFMin, NatLessThanWellFounded
  <2>2. ASSUME NEW x \in S PROVE low <= x
    <3>1. ~(x < low) /\ x \in Nat /\ low \in Nat
      BY <2>1 DEF OpToRel
    <3>2. QED
      BY <3>1
  <2>3. QED
    BY <2>2
<1>2. \E high \in S : \A x \in S : x <= high
  BY Greatest
<1>3. QED
  BY <1>1, <1>2

\* An average lies between the least and the greatest of what it is of.
LEMMA AverageWithin ==
    ASSUME NEW S, IsFiniteSet(S), S # {}, NEW f, \A x \in S : f[x] \in Nat
    PROVE  \E low, high \in S : /\ f[low] * Cardinality(S) <= Sum(f, S)
                               /\ Sum(f, S) <= f[high] * Cardinality(S)
<1>. DEFINE values == { f[x] : x \in S }
            g == [x \in S |-> f[x]]
<1>1. values \in SUBSET Nat /\ values # {} /\ \A v \in values : \E x \in S : v = f[x]
  OBVIOUS
<1>2. IsFiniteSet(values)
  <2>1. g \in Surjection(S, values)
    BY DEF Surjection
  <2>. HIDE DEF g, values
  <2>2. QED
    BY <2>1, FS_Surjection
<1>3. \A x \in S : f[x] \in values
  OBVIOUS
<1>. HIDE DEF values
<1>4. PICK least \in values, most \in values : \A v \in values : least <= v /\ v <= most
  BY <1>1, <1>2, Extremes
<1>5. PICK low \in S, high \in S : f[low] = least /\ f[high] = most
  BY <1>1
<1>6. \A x \in S : least <= f[x] /\ f[x] <= most
  BY <1>3, <1>4
<1>7. least * Cardinality(S) <= Sum(f, S) /\ Sum(f, S) <= most * Cardinality(S)
  BY <1>1, <1>6, SumBetween
<1>8. QED
  BY <1>5, <1>7

------------------------------------------------------------------------------
(* Sums of integers *)

LEMMA SumInt ==
    ASSUME NEW S, IsFiniteSet(S), NEW f, \A x \in S : f[x] \in Int
    PROVE  Sum(f, S) \in Int
<1>. DEFINE Bad == { s \in SUBSET S : Sum(f, s) \notin Int }
<1>. SUFFICES ASSUME Bad # {} PROVE FALSE
  OBVIOUS
<1>1. Bad \subseteq SUBSET S
  OBVIOUS
<1>2. PICK s \in Bad : \A t \in Bad : t \subseteq s => t = s
  <2>. HIDE DEF Bad
  <2>1. QED
    BY <1>1, SmallestSet
<1>3. IsFiniteSet(s)
  BY FS_Subset
<1>4. Sum(f, s) = IF s = {} THEN 0 ELSE f[Some(s)] + Sum(f, s \ {Some(s)})
  BY <1>3, SumStep
<1>5. s # {} /\ Some(s) \in s
  BY <1>4, SomeIn
<1>6. Sum(f, s \ {Some(s)}) \in Int
  BY <1>2, <1>5
<1>7. QED
  BY <1>4, <1>5, <1>6

LEMMA SumTake ==
    ASSUME NEW S, IsFiniteSet(S), NEW f, \A x \in S : f[x] \in Int, NEW x \in S
    PROVE  Sum(f, S) = f[x] + Sum(f, S \ {x})
<1>. DEFINE Bad == { s \in SUBSET S : \E y \in s : Sum(f, s) # f[y] + Sum(f, s \ {y}) }
<1>. SUFFICES ASSUME Bad # {} PROVE FALSE
  OBVIOUS
<1>1. Bad \subseteq SUBSET S
  OBVIOUS
<1>2. PICK s \in Bad : \A t \in Bad : t \subseteq s => t = s
  <2>. HIDE DEF Bad
  <2>1. QED
    BY <1>1, SmallestSet
<1>3. PICK y \in s : Sum(f, s) # f[y] + Sum(f, s \ {y})
  OBVIOUS
<1>. DEFINE z == Some(s)
<1>4. z \in s
  BY SomeIn
<1>. DEFINE both == s \ {y, z}
<1>5. IsFiniteSet(s) /\ IsFiniteSet(both)
  BY FS_Subset
<1>6. Sum(f, s) = f[z] + Sum(f, s \ {z})
  BY <1>4, <1>5, SumStep
<1>7. y # z
  BY <1>3, <1>6
<1>8. /\ Sum(f, s \ {z}) = f[y] + Sum(f, (s \ {z}) \ {y})
      /\ Sum(f, s \ {y}) = f[z] + Sum(f, (s \ {y}) \ {z})
  <2>1. s \ {z} \notin Bad /\ s \ {y} \notin Bad
    BY <1>2, <1>4
  <2>2. QED
    BY <1>4, <1>7, <2>1
<1>9. (s \ {z}) \ {y} = both /\ (s \ {y}) \ {z} = both
  OBVIOUS
<1>10. Sum(f, both) \in Int /\ f[y] \in Int /\ f[z] \in Int
  BY <1>4, <1>5, SumInt
<1>11. Sum(f, s) = f[z] + (f[y] + Sum(f, both)) /\ Sum(f, s \ {y}) = f[z] + Sum(f, both)
  BY <1>6, <1>8, <1>9
<1>. HIDE DEF z, both
<1>12. QED
  BY <1>3, <1>10, <1>11

\* Multiples go through a sum.
LEMMA Multiples ==
    ASSUME NEW a \in Int, NEW b \in Int, NEW c \in Int
    PROVE  a * (b + c) = a * b + a * c /\ a * b \in Int
OBVIOUS

\* On S, h is k times f and l times g.
Combines(h, k, f, l, g, S) ==
    \A x \in S : f[x] \in Int /\ g[x] \in Int /\ h[x] = k * f[x] + l * g[x]

LEMMA SumLinear ==
    ASSUME NEW S, IsFiniteSet(S), NEW f, NEW g, NEW h, NEW k \in Int, NEW l \in Int,
           Combines(h, k, f, l, g, S)
    PROVE  Sum(h, S) = k * Sum(f, S) + l * Sum(g, S)
<1>. USE DEF Combines
<1>. DEFINE Bad == { s \in SUBSET S : Sum(h, s) # k * Sum(f, s) + l * Sum(g, s) }
<1>. SUFFICES ASSUME Bad # {} PROVE FALSE
  OBVIOUS
<1>1. Bad \subseteq SUBSET S
  OBVIOUS
<1>2. PICK s \in Bad : \A t \in Bad : t \subseteq s => t = s
  <2>. HIDE DEF Bad
  <2>1. QED
    BY <1>1, SmallestSet
<1>3. IsFiniteSet(s)
  BY FS_Subset
<1>4. PICK x \in s : TRUE
  <2>1. Sum(h, {}) = k * Sum(f, {}) + l * Sum(g, {})
    BY SumEmpty
  <2>2. QED
    BY <2>1
<1>. DEFINE t == s \ {x}
<1>5. IsFiniteSet(t) /\ t \subseteq S /\ t \notin Bad
  BY <1>2, <1>3, <1>4, FS_Subset
<1>6. \A y \in S : h[y] \in Int
  BY Multiples
<1>7. /\ Sum(h, s) = h[x] + Sum(h, t)
      /\ Sum(f, s) = f[x] + Sum(f, t)
      /\ Sum(g, s) = g[x] + Sum(g, t)
  BY <1>3, <1>4, <1>6, SumTake
<1>8. Sum(h, t) = k * Sum(f, t) + l * Sum(g, t)
  BY <1>5
<1>9. Sum(f, t) \in Int /\ Sum(g, t) \in Int
  <2>. HIDE DEF t
  <2>1. QED
    BY <1>5, SumInt
<1>10. h[x] = k * f[x] + l * g[x] /\ f[x] \in Int /\ g[x] \in Int
  BY <1>4
<1>11. PICK a \in Int, b \in Int, c \in Int, d \in Int :
         a = Sum(f, t) /\ b = Sum(g, t) /\ c = f[x] /\ d = g[x]
  BY <1>9, <1>10
<1>. HIDE DEF t
<1>12. /\ k * (c + a) = k * c + k * a /\ l * (d + b) = l * d + l * b
       /\ k * c \in Int /\ k * a \in Int /\ l * d \in Int /\ l * b \in Int
  BY Multiples
<1>13. Sum(h, s) = (k * c + l * d) + (k * a + l * b)
  BY <1>7, <1>8, <1>10, <1>11
<1>14. Sum(h, s) = k * Sum(f, s) + l * Sum(g, s)
  BY <1>7, <1>11, <1>12, <1>13
<1>15. QED
  BY <1>14

\* The sum over pairs, row by row.
RowsAddUp(g, f, A, B) ==
    /\ \A x \in A, y \in B : f[<< x, y >>] \in Int
    /\ \A x \in A : g[x] = Sum([y \in B |-> f[<< x, y >>]], B)

LEMMA SumOfRows ==
    ASSUME NEW A, IsFiniteSet(A), NEW B, IsFiniteSet(B), NEW f, NEW g, RowsAddUp(g, f, A, B)
    PROVE  Sum(f, A \X B) = Sum(g, A)
<1>. USE DEF RowsAddUp
<1>1. ASSUME NEW S, S \subseteq A \X B PROVE IsFiniteSet(S) /\ \A p \in S : f[p] \in Int
  <2>1. IsFiniteSet(A \X B)
    BY FS_Product
  <2>2. \A p \in A \X B : f[p] \in Int
    OBVIOUS
  <2>3. QED
    BY <1>1, <2>1, <2>2, FS_Subset
<1>2. \A x \in A : g[x] \in Int
  <2>1. SUFFICES ASSUME NEW x \in A PROVE g[x] \in Int
    OBVIOUS
  <2>2. PICK row : row = [y \in B |-> f[<< x, y >>]]
    OBVIOUS
  <2>3. \A y \in B : row[y] \in Int
    BY <2>2
  <2>4. QED
    BY <2>2, <2>3, SumInt
\* One row after another.
<1>3. ASSUME NEW T, IsFiniteSet(T), T \subseteq A \X B, NEW x \in A, NEW U \in SUBSET B,
             \A y \in U : << x, y >> \notin T
      PROVE  Sum(f, T \cup ({x} \X U)) = Sum(f, T) + Sum([y \in B |-> f[<< x, y >>]], U)
  <2> DEFINE All(u) == T \cup ({x} \X u)
  <2>1. PICK row : row = [y \in B |-> f[<< x, y >>]]
    OBVIOUS
  <2> DEFINE Bad == { u \in SUBSET U : Sum(f, All(u)) # Sum(f, T) + Sum(row, u) }
  <2>2. SUFFICES ASSUME Bad # {} PROVE FALSE
    BY <2>1
  <2>3. Bad \subseteq SUBSET U /\ IsFiniteSet(U)
    BY FS_Subset
  <2>4. PICK u \in Bad : \A t \in Bad : t \subseteq u => t = u
    <3> HIDE DEF Bad
    <3>1. QED
      BY <2>2, <2>3, SmallestSet
  <2>5. \A y \in B : row[y] = f[<< x, y >>] /\ row[y] \in Int
    BY <2>1
  <2>6. Sum(f, T) \in Int
    BY <1>1, <1>3, SumInt
  <2>7. PICK y \in u : TRUE
    <3>1. All({}) = T /\ Sum(row, {}) = 0
      BY SumEmpty
    <3>2. Sum(f, All({})) = Sum(f, T) + Sum(row, {})
      <4> HIDE DEF All
      <4>1. QED
        BY <2>6, <3>1
    <3>3. QED
      BY <3>2
  <2> DEFINE v == u \ {y}
  <2>8. v \notin Bad /\ v \subseteq U
    BY <2>4, <2>7
  <2>9. Sum(f, All(v)) = Sum(f, T) + Sum(row, v)
    BY <2>8
  <2>10. /\ All(u) \subseteq A \X B /\ << x, y >> \in All(u)
         /\ All(u) \ {<< x, y >>} = All(v)
    BY <1>3, <2>7
  <2>11. Sum(f, All(u)) = f[<< x, y >>] + Sum(f, All(v))
    <3>1. PICK S : S = All(u)
      OBVIOUS
    <3>2. IsFiniteSet(S) /\ (\A p \in S : f[p] \in Int) /\ << x, y >> \in S
      BY <1>1, <2>10, <3>1
    <3>3. Sum(f, S) = f[<< x, y >>] + Sum(f, S \ {<< x, y >>})
      BY <3>2, SumTake
    <3>4. QED
      BY <2>10, <3>1, <3>3
  <2>12. IsFiniteSet(u) /\ IsFiniteSet(v) /\ u \subseteq B
    BY <2>3, FS_Subset
  <2>13. Sum(row, u) = row[y] + Sum(row, v)
    BY <2>5, <2>7, <2>12, SumTake
  <2>14. Sum(row, v) \in Int
    <3> HIDE DEF v
    <3>1. v \subseteq B
      BY <2>8
    <3>2. QED
      BY <2>5, <2>12, <3>1, SumInt
  <2>15. row[y] = f[<< x, y >>] /\ row[y] \in Int
    BY <2>5, <2>7, <2>12
  <2>16. Sum(f, All(u)) = Sum(f, T) + Sum(row, u)
    <3> HIDE DEF All, v
    <3>1. QED
      BY <2>6, <2>9, <2>11, <2>13, <2>14, <2>15
  <2>17. QED
    BY <2>16
<1>. DEFINE Bad == { s \in SUBSET A : Sum(f, s \X B) # Sum(g, s) }
<1>4. SUFFICES ASSUME Bad # {} PROVE FALSE
  OBVIOUS
<1>5. Bad \subseteq SUBSET A
  OBVIOUS
<1>6. PICK s \in Bad : \A t \in Bad : t \subseteq s => t = s
  <2>. HIDE DEF Bad
  <2>1. QED
    BY <1>4, <1>5, SmallestSet
<1>7. PICK x \in s : TRUE
  <2>1. {} \X B = {} /\ Sum(f, {}) = 0 /\ Sum(g, {}) = 0
    BY SumEmpty
  <2>2. QED
    BY <2>1
<1>. DEFINE t == s \ {x}
<1>8. t \notin Bad /\ t \subseteq A /\ IsFiniteSet(s)
  BY <1>6, <1>7, FS_Subset
<1>9. Sum(f, t \X B) = Sum(g, t)
  BY <1>8
<1>10. /\ t \X B \subseteq A \X B /\ s \X B = (t \X B) \cup ({x} \X B)
       /\ \A y \in B : << x, y >> \notin t \X B
  BY <1>7
<1>11. Sum(f, s \X B) = Sum(f, t \X B) + g[x]
  <2>1. PICK T : T = t \X B
    OBVIOUS
  <2>2. IsFiniteSet(T) /\ T \subseteq A \X B /\ (\A y \in B : << x, y >> \notin T)
    BY <1>1, <1>10, <2>1
  <2>3. x \in A /\ B \in SUBSET B
    BY <1>7
  <2>4. Sum(f, T \cup ({x} \X B)) = Sum(f, T) + Sum([y \in B |-> f[<< x, y >>]], B)
    BY <1>3, <2>2, <2>3
  <2>5. QED
    BY <1>10, <2>1, <2>3, <2>4
<1>12. Sum(g, s) = g[x] + Sum(g, t)
  BY <1>2, <1>7, <1>8, SumTake
<1>13. Sum(g, t) \in Int /\ g[x] \in Int
  <2>1. IsFiniteSet(t)
    BY <1>8, FS_Subset
  <2>. HIDE DEF t
  <2>2. QED
    BY <1>2, <1>7, <1>8, <2>1, SumInt
<1>14. QED
  BY <1>9, <1>11, <1>12, <1>13

==============================================================================
