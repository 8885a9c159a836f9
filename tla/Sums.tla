-------------------------------- MODULE Sums --------------------------------
(***************************************************************************)
(* What the proofs need of numbers and of finite sets of them: a set of    *)
(* numbers has its least, which is induction in the form the provers can   *)
(* use; the sum over a finite set, MapThenSumSet, moves by one term as the *)
(* set does by one element; and Max is what its name says.                 *)
(***************************************************************************)
EXTENDS Integers, FiniteSets, FiniteSetsExt, FiniteSetTheorems, WellFoundedInduction, TLAPS

LEMMA LessThan == \A x, y \in Nat : <<x, y>> \in OpToRel(<, Nat) <=> x < y
BY SMT DEF OpToRel

\* A set of numbers that is not empty has its least.
LEMMA LeastOf ==
    ASSUME NEW S, S \subseteq Nat, S # {}
    PROVE  \E n \in S : \A o \in S : n <= o
<1> DEFINE less == OpToRel(<, Nat)
<1>1. IsWellFoundedOn(less, Nat)
    BY NatLessThanWellFounded
<1>2. \A x, y \in Nat : <<x, y>> \in less <=> x < y
    BY LessThan
<1> HIDE DEF less
<1>3. \E n \in S : \A o \in S : ~(<<o, n>> \in less)
    BY <1>1, WFMin
<1>4. \E n \in S : \A o \in S : ~(o < n)
    BY <1>2, <1>3, Zenon
<1>5. QED
    BY <1>4

AnyOf(s) == CHOOSE x \in s : TRUE

\* The function that a sum over S is read off.
IsSum(g, f, S) ==
    g = [s \in SUBSET S |-> IF s = {} THEN 0 ELSE f[AnyOf(s)] + g[s \ {AnyOf(s)}]]

SumOf(f, S) == MapThenSumSet(LAMBDA x : f[x], S)

LEMMA SumOfIs == \A f, S : SumOf(f, S) = (CHOOSE g : IsSum(g, f, S))[S]
BY Zenon DEF SumOf, MapThenSumSet, MapThenFoldSet, IsSum, AnyOf

LEMMA AnyOfIs == \A s : s # {} => AnyOf(s) \in s
BY DEF AnyOf

LEMMA Smaller ==
    ASSUME NEW S, IsFiniteSet(S), NEW x \in S
    PROVE  /\ IsFiniteSet(S \ {x}) /\ Cardinality(S \ {x}) \in Nat /\ Cardinality(S) \in Nat
           /\ Cardinality(S \ {x}) = Cardinality(S) - 1
BY FS_RemoveElement, FS_CardinalityType

\* Up to a size.
IsSumUpTo(g, f, S, n) ==
    g = [s \in SUBSET S |->
            IF Cardinality(s) > n THEN 0
            ELSE IF s = {} THEN 0 ELSE f[AnyOf(s)] + g[s \ {AnyOf(s)}]]

LEMMA SumExists ==
    ASSUME NEW f, NEW S, IsFiniteSet(S)
    PROVE  \E g : IsSum(g, f, S)
<1>0. \A s \in SUBSET S : IsFiniteSet(s) /\ Cardinality(s) \in Nat /\ Cardinality(s) <= Cardinality(S)
    BY FS_Subset, FS_CardinalityType
<1> DEFINE Bad == {n \in Nat : ~\E g : IsSumUpTo(g, f, S, n)}
<1>1. SUFFICES ASSUME Bad # {} PROVE FALSE
    <2>1. Cardinality(S) \in Nat
        BY FS_CardinalityType
    <2>2. PICK g : IsSumUpTo(g, f, S, Cardinality(S))
        BY <2>1, <1>1
    <2>3. \A s \in SUBSET S : ~(Cardinality(s) > Cardinality(S))
        BY <1>0, <2>1
    <2>4. IsSum(g, f, S)
        BY <2>2, <2>3, Zenon DEF IsSum, IsSumUpTo
    <2>5. QED BY <2>4
<1>2. PICK n \in Bad : \A o \in Bad : n <= o
    BY <1>1, LeastOf
<1>3. CASE n = 0
    <2> DEFINE g == [s \in SUBSET S |-> 0]
    <2>1. \A s \in SUBSET S : Cardinality(s) > 0 \/ s = {}
        BY <1>0, FS_EmptySet
    <2>2. IsSumUpTo(g, f, S, 0)
        BY <2>1 DEF IsSumUpTo
    <2>3. QED BY <1>2, <1>3, <2>2
<1>4. CASE n > 0
    <2>1. n - 1 \in Nat /\ n - 1 \notin Bad
        BY <1>2, <1>4
    <2>2. PICK g : IsSumUpTo(g, f, S, n - 1)
        BY <2>1
    <2> DEFINE h == [s \in SUBSET S |->
                        IF Cardinality(s) <= n - 1 THEN g[s]
                        ELSE IF Cardinality(s) = n THEN f[AnyOf(s)] + g[s \ {AnyOf(s)}] ELSE 0]
    <2>3. \A s \in SUBSET S :
              h[s] = IF Cardinality(s) <= n - 1 THEN g[s]
                     ELSE IF Cardinality(s) = n THEN f[AnyOf(s)] + g[s \ {AnyOf(s)}] ELSE 0
        OBVIOUS
    <2>4. h = [s \in SUBSET S |-> h[s]]
        OBVIOUS
    <2>5. \A s \in SUBSET S :
              g[s] = IF Cardinality(s) > n - 1 THEN 0
                     ELSE IF s = {} THEN 0 ELSE f[AnyOf(s)] + g[s \ {AnyOf(s)}]
        BY <2>2 DEF IsSumUpTo
    <2> HIDE DEF h
    <2>6. ASSUME NEW s \in SUBSET S
          PROVE  h[s] = IF Cardinality(s) > n THEN 0
                        ELSE IF s = {} THEN 0 ELSE f[AnyOf(s)] + h[s \ {AnyOf(s)}]
        <3>1. n \in Nat /\ IsFiniteSet(s)
            BY <1>0
        <3>2. PICK k \in Nat : k = Cardinality(s)
            BY <1>0
        <3>3. h[s] = IF k <= n - 1 THEN g[s] ELSE IF k = n THEN f[AnyOf(s)] + g[s \ {AnyOf(s)}] ELSE 0
            BY <2>3, <3>2, Zenon
        <3>4. g[s] = IF k > n - 1 THEN 0 ELSE IF s = {} THEN 0 ELSE f[AnyOf(s)] + g[s \ {AnyOf(s)}]
            BY <2>5, <3>2, Zenon
        <3>5. CASE s = {}
            <4>1. k = 0
                BY <3>2, <3>5, FS_EmptySet
            <4>2. QED BY <1>4, <3>1, <3>2, <3>3, <3>4, <3>5, <4>1
        <3>6. CASE s # {} /\ k <= n
            <4>1. PICK x \in s : x = AnyOf(s)
                BY <3>6, AnyOfIs
            <4>2. s \ {x} \in SUBSET S /\ Cardinality(s \ {x}) = k - 1
                BY <3>1, <3>2, Smaller
            <4>3. PICK t \in SUBSET S : t = s \ {x} /\ Cardinality(t) = k - 1
                BY <4>2
            <4>4. k - 1 <= n - 1
                BY <3>1, <3>6
            <4>5. h[t] = g[t]
                BY <2>3, <4>3, <4>4, Zenon
            <4>6. h[s] = f[x] + g[t]
                <5>1. k <= n - 1 => ~(k > n - 1)
                    BY <3>1
                <5>2. k <= n - 1 \/ k = n
                    BY <3>1, <3>6
                <5>3. k = n => ~(k <= n - 1)
                    BY <3>1
                <5>4. QED BY <3>3, <3>4, <3>6, <4>1, <4>3, <5>1, <5>2, <5>3, Zenon
            <4>7. ~(k > n)
                BY <3>1, <3>6
            <4>8. QED BY <3>2, <3>6, <4>1, <4>3, <4>5, <4>6, <4>7, Zenon
        <3>7. CASE k > n
            BY <3>1, <3>2, <3>3, <3>7
        <3>8. QED BY <3>1, <3>5, <3>6, <3>7
    <2>7. IsSumUpTo(h, f, S, n)
        BY <2>4, <2>6, Zenon DEF IsSumUpTo
    <2>8. QED BY <1>2, <2>7
<1>5. QED BY <1>2, <1>3, <1>4

LEMMA SumReadOff ==
    ASSUME NEW f, NEW S, IsFiniteSet(S)
    PROVE  \E g : IsSum(g, f, S) /\ SumOf(f, S) = g[S]
<1>1. \E g : IsSum(g, f, S)
    BY SumExists
<1>2. IsSum(CHOOSE g : IsSum(g, f, S), f, S)
    BY <1>1, Zenon
<1>3. QED BY <1>2, SumOfIs, Zenon

\* A sum depends on what is summed.
LEMMA SumUnique ==
    ASSUME NEW f, NEW e, NEW S, NEW T, NEW g, NEW h, IsSum(g, f, S), IsSum(h, e, T),
           NEW U \in SUBSET (S \cap T), IsFiniteSet(U), \A x \in U : f[x] = e[x]
    PROVE  g[U] = h[U]
<1> DEFINE Bad == {n \in Nat : \E s \in SUBSET U : Cardinality(s) = n /\ g[s] # h[s]}
<1>0. \A s \in SUBSET U : IsFiniteSet(s) /\ Cardinality(s) \in Nat
    BY FS_Subset, FS_CardinalityType
<1>1. SUFFICES ASSUME Bad # {} PROVE FALSE
    BY <1>0, <1>1
<1>2. PICK n \in Bad : \A o \in Bad : n <= o
    BY <1>1, LeastOf
<1>3. PICK s \in SUBSET U : Cardinality(s) = n /\ g[s] # h[s]
    BY <1>2
<1>4. /\ g[s] = IF s = {} THEN 0 ELSE f[AnyOf(s)] + g[s \ {AnyOf(s)}]
      /\ h[s] = IF s = {} THEN 0 ELSE e[AnyOf(s)] + h[s \ {AnyOf(s)}]
    <2>1. s \in SUBSET S /\ s \in SUBSET T
        BY <1>3
    <2>2. QED BY <2>1 DEF IsSum
<1>5. s # {}
    BY <1>3, <1>4
<1>6. PICK x \in s : x = AnyOf(s)
    BY <1>5, AnyOfIs
<1>7. s \ {x} \in SUBSET U /\ Cardinality(s \ {x}) = n - 1 /\ n - 1 \in Nat
    BY <1>0, <1>3, <1>6, Smaller
<1>8. g[s \ {x}] = h[s \ {x}]
    BY <1>2, <1>7
<1>9. f[x] = e[x]
    BY <1>6
<1>10. QED BY <1>3, <1>4, <1>5, <1>6, <1>8, <1>9

SplitsIn(g, f, S, V) ==
    \A s \in SUBSET S : g[s] \in V /\ \A y \in s : g[s] = f[y] + g[s \ {y}]

LEMMA SumSplits ==
    ASSUME NEW V, V = Nat \/ V = Int,
           NEW f, NEW S, NEW g, IsSum(g, f, S), IsFiniteSet(S), \A x \in S : f[x] \in V
    PROVE  SplitsIn(g, f, S, V)
<1> DEFINE Ok(s) == g[s] \in V /\ \A y \in s : g[s] = f[y] + g[s \ {y}]
           Bad == {n \in Nat : \E s \in SUBSET S : Cardinality(s) = n /\ ~Ok(s)}
<1>0. \A s \in SUBSET S : IsFiniteSet(s) /\ Cardinality(s) \in Nat
    BY FS_Subset, FS_CardinalityType
<1> HIDE DEF Ok
<1>1. SUFFICES ASSUME Bad # {} PROVE FALSE
    BY <1>0, <1>1, Zenon DEF Ok, SplitsIn
<1>2. PICK n \in Bad : \A o \in Bad : n <= o
    BY <1>1, LeastOf
<1>3. PICK s \in SUBSET S : Cardinality(s) = n /\ ~Ok(s)
    BY <1>2
<1>a. ASSUME NEW t \in SUBSET S, Cardinality(t) < n PROVE Ok(t)
    <2>1. Cardinality(t) \in Nat /\ ~(n <= Cardinality(t))
        BY <1>0, <1>2, <1>a
    <2>2. QED BY <1>2, <2>1
<1>4. \A t \in SUBSET S : g[t] = IF t = {} THEN 0 ELSE f[AnyOf(t)] + g[t \ {AnyOf(t)}]
    BY DEF IsSum
<1>5. s # {}
    <2>1. 0 \in V
        OBVIOUS
    <2> QED  BY <1>3, <1>4, <2>1 DEF Ok
<1>6. PICK x \in s : x = AnyOf(s)
    BY <1>5, AnyOfIs
<1>7. \A y \in s : s \ {y} \in SUBSET S /\ Cardinality(s \ {y}) = n - 1
    BY <1>0, <1>3, Smaller
<1>8. \A y \in s : Ok(s \ {y})
    BY <1>2, <1>7, <1>a
<1>9. g[s] = f[x] + g[s \ {x}] /\ g[s] \in V
    <2>1. g[s] = f[x] + g[s \ {x}]
        BY <1>4, <1>5, <1>6, Zenon
    <2>2. f[x] \in V /\ g[s \ {x}] \in V
        BY <1>8 DEF Ok
    <2>3. QED BY <2>1, <2>2
<1>10. ASSUME NEW y \in s PROVE g[s] = f[y] + g[s \ {y}]
    <2>1. CASE y = x
        BY <1>9, <2>1
    <2>2. CASE y # x
        <3>0. x \in s \ {y} /\ y \in s \ {x}
            BY <2>2
        <3>1. g[s \ {x}] = f[y] + g[(s \ {x}) \ {y}]
            BY <1>8, <3>0 DEF Ok
        <3>2. g[s \ {y}] = f[x] + g[(s \ {y}) \ {x}]
            BY <1>8, <3>0 DEF Ok
        <3>3. (s \ {x}) \ {y} = (s \ {y}) \ {x}
            OBVIOUS
        <3>4. f[x] \in V /\ f[y] \in V /\ g[(s \ {x}) \ {y}] \in V
            <4>1. PICK t \in SUBSET S : t = (s \ {x}) \ {y}
                OBVIOUS
            <4>2. Cardinality(t) = n - 2
                <5>1. IsFiniteSet(s \ {x}) /\ Cardinality(s \ {x}) = n - 1
                    BY <1>0, <1>7
                <5>2. PICK u \in SUBSET S : u = s \ {x}
                    OBVIOUS
                <5>3. Cardinality(u \ {y}) = Cardinality(u) - 1
                    BY <3>0, <5>1, <5>2, Smaller
                <5>4. QED BY <1>2, <4>1, <5>1, <5>2, <5>3
            <4>3. Ok(t)
                BY <1>2, <1>a, <4>2
            <4>4. QED BY <4>1, <4>3 DEF Ok
        <3>5. PICK v \in Int : v = g[(s \ {x}) \ {y}]
            BY <3>4
        <3>6. PICK a \in Int, b \in Int : a = f[x] /\ b = f[y]
            BY <3>4
        <3>7. g[s] = a + (b + v) /\ g[s \ {y}] = a + v
            BY <1>9, <3>1, <3>2, <3>3, <3>5, <3>6, Zenon
        <3>8. QED BY <3>6, <3>7
    <2>3. QED BY <2>1, <2>2
<1>11. QED BY <1>3, <1>9, <1>10 DEF Ok

\* What a sum over a finite set is: nothing over nothing, and what any one of them adds
\* to the sum of the others.
SumIsOf(f, S, V) ==
    /\ SumOf(f, S) \in V
    /\ S = {} => SumOf(f, S) = 0
    /\ \A y \in S : SumOf(f, S) = f[y] + SumOf(f, S \ {y})

LEMMA SumWithin ==
    ASSUME NEW V, V = Nat \/ V = Int, NEW f, NEW S, IsFiniteSet(S), \A x \in S : f[x] \in V
    PROVE  SumIsOf(f, S, V)
<1>1. PICK g : IsSum(g, f, S) /\ SumOf(f, S) = g[S]
    BY SumReadOff
<1>a. IsSum(g, f, S)
    BY <1>1
<1>b. \A x \in S : f[x] \in V
    OBVIOUS
<1>2. \A s \in SUBSET S : g[s] \in V /\ \A y \in s : g[s] = f[y] + g[s \ {y}]
    <2>1. SplitsIn(g, f, S, V)
        BY <1>a, <1>b, SumSplits
    <2> QED  BY <2>1 DEF SplitsIn
<1>3. S = {} => g[S] = 0
    BY <1>1 DEF IsSum
<1>4. ASSUME NEW y \in S PROVE g[S \ {y}] = SumOf(f, S \ {y})
    <2>1. IsFiniteSet(S \ {y})
        BY FS_Subset
    <2>2. PICK h : IsSum(h, f, S \ {y}) /\ SumOf(f, S \ {y}) = h[S \ {y}]
        BY <2>1, SumReadOff
    <2>3. g[S \ {y}] = h[S \ {y}]
        BY <1>1, <2>1, <2>2, SumUnique
    <2>4. QED BY <2>2, <2>3
<1>5. QED BY <1>1, <1>2, <1>3, <1>4 DEF SumIsOf

LEMMA SumOver ==
    ASSUME NEW f, NEW S, IsFiniteSet(S), \A x \in S : f[x] \in Nat
    PROVE  /\ SumOf(f, S) \in Nat
           /\ S = {} => SumOf(f, S) = 0
           /\ \A y \in S : SumOf(f, S) = f[y] + SumOf(f, S \ {y})
<1>1. SumIsOf(f, S, Nat)
    BY SumWithin
<1> QED  BY <1>1 DEF SumIsOf

LEMMA SumOverInt ==
    ASSUME NEW f, NEW S, IsFiniteSet(S), \A x \in S : f[x] \in Int
    PROVE  /\ SumOf(f, S) \in Int
           /\ S = {} => SumOf(f, S) = 0
           /\ \A y \in S : SumOf(f, S) = f[y] + SumOf(f, S \ {y})
<1>1. SumIsOf(f, S, Int)
    BY SumWithin
<1> QED  BY <1>1 DEF SumIsOf

\* A sum is the same by another name for each of its terms.
LEMMA SumRenamed ==
    ASSUME NEW f, NEW e, NEW h, NEW S, IsFiniteSet(S), \A x \in S : f[x] \in Int /\ f[x] = e[h[x]],
           \A x, y \in S : h[x] = h[y] => x = y
    PROVE  SumOf(f, S) = SumOf(e, {h[x] : x \in S})
<1> DEFINE T(s) == {h[x] : x \in s}
           Ok(s) == IsFiniteSet(T(s)) /\ SumOf(f, s) = SumOf(e, T(s))
           Bad == {n \in Nat : \E s \in SUBSET S : Cardinality(s) = n /\ ~Ok(s)}
<1>0. \A s \in SUBSET S : IsFiniteSet(s) /\ Cardinality(s) \in Nat
    BY FS_Subset, FS_CardinalityType
<1>a. Bad \subseteq Nat
    OBVIOUS
<1>s. ASSUME NEW s \in SUBSET S, NEW x \in s
      PROVE  T(s) = T(s \ {x}) \cup {h[x]} /\ h[x] \notin T(s \ {x}) /\ s \ {x} \in SUBSET S
    OBVIOUS
<1>e. Ok({})
    <2>1. T({}) = {}
        OBVIOUS
    <2>2. SumOf(f, {}) = 0 /\ SumOf(e, {}) = 0 /\ IsFiniteSet({})
        BY SumOverInt, FS_EmptySet
    <2> QED  BY <2>1, <2>2
<1>n. \A s \in SUBSET S : Cardinality(s) \in Nat /\ ~Ok(s) => Cardinality(s) \in Bad
    OBVIOUS
<1>b. \A n \in Bad : \E s \in SUBSET S : Cardinality(s) = n /\ ~Ok(s)
    OBVIOUS
<1>r. \A s \in SUBSET S : \A y \in T(s) : e[y] \in Int
    OBVIOUS
<1> HIDE DEF Bad, T
<1>1. SUFFICES ASSUME Bad # {} PROVE FALSE
    <2>1. SUFFICES ASSUME ~Ok(S) PROVE FALSE
        BY Zenon DEF T
    <2>2. Cardinality(S) \in Bad
        BY <1>0, <1>n, <2>1
    <2> QED  BY <1>1, <2>2
<1>2. PICK n \in Bad : \A o \in Bad : n <= o
    BY <1>1, <1>a, LeastOf
<1>3. PICK s \in SUBSET S : Cardinality(s) = n /\ ~Ok(s)
    BY <1>2, <1>b
<1>4. s # {}
    BY <1>3, <1>e
<1>5. PICK x \in s : TRUE
    BY <1>4
<1>6. PICK t \in SUBSET S : t = s \ {x}
    OBVIOUS
<1>7. Cardinality(t) = n - 1 /\ IsFiniteSet(t) /\ Cardinality(t) \in Nat
    BY <1>0, <1>3, <1>6, Smaller
<1>8. Ok(t)
    BY <1>2, <1>7, <1>n, <1>a
<1>9. T(s) = T(t) \cup {h[x]} /\ h[x] \notin T(t)
    BY <1>6, <1>s
<1>10. IsFiniteSet(T(s))
    BY <1>8, <1>9, FS_AddElement
<1>11. SumOf(f, s) = f[x] + SumOf(f, t)
    <2>1. IsFiniteSet(s) /\ \A y \in s : f[y] \in Int
        BY <1>0
    <2> QED  BY <1>6, <2>1, SumOverInt
<1>12. SumOf(e, T(s)) = e[h[x]] + SumOf(e, T(t))
    <2>1. T(s) \ {h[x]} = T(t) /\ h[x] \in T(s)
        BY <1>9
    <2>2. \A y \in T(s) : e[y] \in Int
        BY <1>r
    <2> QED  BY <1>10, <2>1, <2>2, SumOverInt
<1>13. f[x] = e[h[x]]
    OBVIOUS
<1>14. Ok(s)
    BY <1>8, <1>10, <1>11, <1>12, <1>13
<1> QED  BY <1>3, <1>14

LEMMA SumSame ==
    ASSUME NEW f, NEW e, NEW S, IsFiniteSet(S), \A x \in S : f[x] = e[x]
    PROVE  SumOf(f, S) = SumOf(e, S)
<1>1. PICK g : IsSum(g, f, S) /\ SumOf(f, S) = g[S]
    BY SumReadOff
<1>2. PICK h : IsSum(h, e, S) /\ SumOf(e, S) = h[S]
    BY SumReadOff
<1>3. QED BY <1>1, <1>2, SumUnique

\* A sum of so many terms, none above a bound.
LEMMA SumBounded ==
    ASSUME NEW f, NEW S, IsFiniteSet(S), NEW c \in Nat, \A x \in S : f[x] \in Nat /\ f[x] <= c
    PROVE  SumOf(f, S) <= Cardinality(S) * c
<1> DEFINE Bad == {n \in Nat : \E s \in SUBSET S : Cardinality(s) = n /\ ~(SumOf(f, s) <= n * c)}
<1>0. \A s \in SUBSET S : IsFiniteSet(s) /\ Cardinality(s) \in Nat
    BY FS_Subset, FS_CardinalityType
<1>1. SUFFICES ASSUME Bad # {} PROVE FALSE
    BY <1>0, <1>1
<1>2. PICK n \in Bad : \A o \in Bad : n <= o
    BY <1>1, LeastOf
<1>3. PICK s \in SUBSET S : Cardinality(s) = n /\ ~(SumOf(f, s) <= n * c)
    BY <1>2
<1>4. \A x \in s : f[x] \in Nat /\ f[x] <= c
    BY <1>3
<1>5. s # {}
    <2>1. ASSUME s = {} PROVE FALSE
        <3>1. n = 0 /\ SumOf(f, s) = 0
            BY <1>0, <1>3, <1>4, <2>1, FS_EmptySet, SumOver
        <3>2. QED BY <1>3, <3>1
    <2>2. QED BY <2>1
<1>6. PICK y \in s : TRUE
    BY <1>5
<1>7. s \ {y} \in SUBSET S /\ Cardinality(s \ {y}) = n - 1 /\ n - 1 \in Nat
    BY <1>0, <1>3, Smaller
<1>8. PICK m \in Nat : m = n - 1
    BY <1>7
<1>9. SumOf(f, s \ {y}) <= m * c
    <2>1. m \notin Bad
        BY <1>2, <1>8
    <2>2. QED BY <1>7, <1>8, <2>1
<1>10. SumOf(f, s \ {y}) \in Nat /\ SumOf(f, s) = f[y] + SumOf(f, s \ {y})
    <2>1. IsFiniteSet(s \ {y}) /\ \A x \in s \ {y} : f[x] \in Nat
        BY <1>0, <1>3, <1>4, <1>7
    <2>2. QED BY <1>0, <1>3, <1>4, <2>1, SumOver
<1>11. n * c = m * c + c
    <2>1. n = m + 1
        BY <1>2, <1>8
    <2>2. QED BY <2>1
<1>12. m * c \in Nat
    OBVIOUS
<1>13. QED BY <1>3, <1>4, <1>9, <1>10, <1>11, <1>12

-----------------------------------------------------------------------------
(* The largest element.                                                    *)

\* What Max returns of a set of two.
LEMMA MaxOfTwo ==
    ASSUME NEW a \in Int, NEW b \in Int
    PROVE  Max({a, b}) = IF a >= b THEN a ELSE b
<1>1. PICK m \in {a, b} : m >= a /\ m >= b
    OBVIOUS
<1>2. Max({a, b}) = CHOOSE x \in {a, b} : \A y \in {a, b} : x >= y
    BY DEF Max
<1>3. Max({a, b}) \in {a, b} /\ \A y \in {a, b} : Max({a, b}) >= y
    BY <1>1, <1>2
<1>4. QED BY <1>3

\* A finite set of numbers has a largest, and Max returns it: their sum bounds
\* them, and of the bounds the least is one of them.
LEMMA LargestOf ==
    ASSUME NEW S, IsFiniteSet(S), S # {}, S \subseteq Nat
    PROVE  Max(S) \in S /\ \A p \in S : p <= Max(S)
<1> DEFINE f == [p \in S |-> p]
           Tops == {k \in Nat : \A p \in S : p <= k}
<1>1. Tops # {}
    <2>1. PICK k \in Nat : k = SumOf(f, S)
        BY SumOver
    <2>2. ASSUME NEW p \in S PROVE p <= k
        <3>0. \A x \in S : f[x] \in Nat
            OBVIOUS
        <3>1. SumOf(f, S) = f[p] + SumOf(f, S \ {p})
            <4>. HIDE DEF f
            <4>1. QED BY <3>0, SumOver
        <3>2. SumOf(f, S \ {p}) \in Nat
            <4>1. IsFiniteSet(S \ {p}) /\ \A x \in S \ {p} : f[x] \in Nat
                BY FS_Subset
            <4>2. QED BY <4>1, SumOver
        <3>3. QED BY <2>1, <3>1, <3>2
    <2>3. QED BY <2>1, <2>2
<1>2. PICK m \in Tops : \A o \in Tops : m <= o
    BY <1>1, LeastOf
<1>3. m \in S
    <2>1. SUFFICES ASSUME m \notin S PROVE FALSE
        OBVIOUS
    <2>2. \A p \in S : p \in Nat /\ p < m
        BY <1>2, <2>1
    <2>3. m - 1 \in Nat /\ \A p \in S : p <= m - 1
        <3>1. PICK p \in S : p \in Nat /\ p < m
            BY <2>2
        <3>2. QED BY <1>2, <2>2, <3>1
    <2>4. m - 1 \in Tops
        BY <2>3
    <2>5. QED BY <1>2, <2>4
<1>4. Max(S) = CHOOSE x \in S : \A y \in S : x >= y
    BY DEF Max
<1>5. m \in S /\ \A y \in S : m >= y
    BY <1>2, <1>3
<1>6. Max(S) \in S /\ \A y \in S : Max(S) >= y
    BY <1>4, <1>5
<1>7. QED BY <1>6

\* What is added of two sets that share nothing is added of both.
SumsJoin(f, S, T) ==
    SumOf(f, S \cup T) = SumOf(f, S) + SumOf(f, T) /\ SumOf(f, S) \in Nat /\ SumOf(f, T) \in Nat

LEMMA SumJoin ==
    ASSUME NEW f, NEW S, NEW T, IsFiniteSet(S), IsFiniteSet(T), S \cap T = {},
           \A x \in S \cup T : f[x] \in Nat
    PROVE  SumsJoin(f, S, T)
<1> DEFINE Ok(t) == SumOf(f, S \cup t) = SumOf(f, S) + SumOf(f, t)
           Bad == {n \in Nat : \E t \in SUBSET T : Cardinality(t) = n /\ ~Ok(t)}
<1>1. \A t \in SUBSET T : IsFiniteSet(t) /\ Cardinality(t) \in Nat /\ IsFiniteSet(S \cup t)
    BY FS_Subset, FS_CardinalityType, FS_Union
<1>2. \A t \in SUBSET T : SumOf(f, t) \in Nat
    <2> SUFFICES ASSUME NEW t \in SUBSET T PROVE SumOf(f, t) \in Nat
        OBVIOUS
    <2> QED  BY <1>1, SumOver
<1>3. SumOf(f, S) \in Nat
    BY SumOver
<1>4. Ok(T)
    <2> SUFFICES ASSUME Bad # {} PROVE FALSE
        BY <1>1
    <2>1. PICK n \in Bad : \A o \in Bad : n <= o
        <3>1. Bad \subseteq Nat
            OBVIOUS
        <3> HIDE DEF Bad
        <3> QED  BY <3>1, LeastOf
    <2>2. PICK t \in SUBSET T : Cardinality(t) = n /\ ~Ok(t)
        OBVIOUS
    <2>3. CASE t = {}
        <3>1. SumOf(f, t) = 0
            <4>1. \A x \in t : f[x] \in Nat
                OBVIOUS
            <4> QED  BY <1>1, <2>3, <4>1, SumOver
        <3>2. S \cup t = S
            BY <2>3
        <3> QED  BY <1>3, <2>2, <3>1, <3>2
    <2>4. CASE t # {}
        <3>1. PICK x \in t : TRUE
            BY <2>4
        <3>2. PICK r \in SUBSET T : r = t \ {x}
            OBVIOUS
        <3>3. Cardinality(r) = n - 1 /\ n - 1 \in Nat /\ n \in Nat
            BY <1>1, <2>2, <3>1, <3>2, Smaller
        <3>4. Ok(r)
            <4>1. n - 1 \notin Bad
                <5> HIDE DEF Bad
                <5> QED  BY <2>1, <3>3
            <4> QED  BY <3>3, <4>1
        <3>5. SumOf(f, t) = f[x] + SumOf(f, r)
            <4>1. \A y \in t : f[y] \in Nat
                OBVIOUS
            <4> QED  BY ZenonT(30), <1>1, <3>1, <3>2, <4>1, SumOver
        <3>6. SumOf(f, S \cup t) = f[x] + SumOf(f, S \cup r)
            <4>1. PICK u : u = S \cup t
                OBVIOUS
            <4>2. u \ {x} = S \cup r /\ x \in u /\ IsFiniteSet(u) /\ \A y \in u : f[y] \in Nat
                BY <1>1, <3>1, <3>2, <4>1
            <4>3. SumOf(f, u) = f[x] + SumOf(f, u \ {x})
                BY <4>2, SumOver
            <4> QED  BY <4>1, <4>2, <4>3
        <3>7. f[x] \in Nat /\ SumOf(f, r) \in Nat
            BY <1>2, <3>1
        <3> QED  BY <1>3, <2>2, <3>4, <3>5, <3>6, <3>7
    <2> QED  BY <2>3, <2>4
<1>5. SumOf(f, T) \in Nat
    BY <1>2
<1> QED  BY <1>3, <1>4, <1>5 DEF SumsJoin

\* ... and so of any number of sets.
SumsOfParts(f, part, N) ==
    SumOf(f, UNION {part[k] : k \in 1 .. N}) = SumOf([k \in 1 .. N |-> SumOf(f, part[k])], 1 .. N)

LEMMA SumOfParts ==
    ASSUME NEW f, NEW part, NEW N \in Nat, NEW M, IsFiniteSet(M),
           \A k \in 1 .. N : part[k] \subseteq M,
           \A j, k \in 1 .. N : j # k => part[j] \cap part[k] = {},
           \A x \in M : f[x] \in Nat
    PROVE  SumsOfParts(f, part, N)
<1> DEFINE U(n) == UNION {part[k] : k \in 1 .. n}
           g == [k \in 1 .. N |-> SumOf(f, part[k])]
           Ok(n) == SumOf(f, U(n)) = SumOf(g, 1 .. n)
           Bad == {n \in Nat : n <= N /\ ~Ok(n)}
<1>1. \A n \in Nat : n <= N => U(n) \subseteq M
    OBVIOUS
<1>2. ASSUME NEW s, s \subseteq M PROVE IsFiniteSet(s) /\ SumOf(f, s) \in Nat /\ \A x \in s : f[x] \in Nat
    <2>1. IsFiniteSet(s)
        BY <1>2, FS_Subset
    <2>2. \A x \in s : f[x] \in Nat
        BY <1>2
    <2>3. SumOf(f, s) \in Nat
        BY <2>1, <2>2, SumOver
    <2> QED  BY <2>1, <2>2, <2>3
<1>3. \A k \in 1 .. N : g[k] \in Nat
    <2> SUFFICES ASSUME NEW k \in 1 .. N PROVE SumOf(f, part[k]) \in Nat
        OBVIOUS
    <2> QED  BY <1>2
<1>4. SUFFICES ASSUME Bad # {} PROVE FALSE
    <2>1. Ok(N) => SumsOfParts(f, part, N)
        BY Zenon DEF SumsOfParts
    <2>2. Bad = {} => Ok(N)
        <3>1. N \in Nat /\ N <= N
            OBVIOUS
        <3> HIDE DEF Ok
        <3> QED  BY <3>1
    <2> HIDE DEF Bad, Ok
    <2> QED  BY <2>1, <2>2
<1>5. PICK n \in Bad : \A o \in Bad : n <= o
    <2>1. Bad \subseteq Nat
        OBVIOUS
    <2> HIDE DEF Bad
    <2> QED  BY <1>4, <2>1, LeastOf
<1>6. n \in Nat /\ n <= N /\ ~Ok(n)
    OBVIOUS
<1> HIDE DEF g
<1>7. ASSUME NEW k \in Nat, k <= N
      PROVE  IsFiniteSet(1 .. k) /\ \A x \in 1 .. k : g[x] \in Nat
    <2>1. IsFiniteSet(1 .. k)
        BY FS_Interval
    <2> QED  BY <1>3, <1>7, <2>1
<1>8. CASE n = 0
    <2>1. U(0) = {} /\ 1 .. 0 = {}
        OBVIOUS
    <2>2. SumOf(f, {}) = 0
        BY FS_EmptySet, SumOver
    <2>3. SumOf(g, {}) = 0
        BY FS_EmptySet, SumOver
    <2> QED  BY <1>6, <1>8, <2>1, <2>2, <2>3
<1>9. CASE n # 0
    <2>1. n - 1 \in Nat /\ n - 1 <= N /\ n \in 1 .. N
        BY <1>6, <1>9
    <2>2. Ok(n - 1)
        <3>1. n - 1 \notin Bad
            <4> HIDE DEF Bad
            <4> QED  BY <1>5, <1>6, <2>1
        <3> QED  BY <2>1, <3>1
    <2>3. U(n) = U(n - 1) \cup part[n]
        <3>1. 1 .. n = (1 .. n - 1) \cup {n}
            BY <2>1
        <3> QED  BY <3>1
    <2>4. U(n - 1) \cap part[n] = {}
        <3>1. \A k \in 1 .. n - 1 : k \in 1 .. N /\ k # n
            BY <2>1
        <3> QED  BY <2>1, <3>1
    <2>5. PICK before : before = U(n - 1)
        OBVIOUS
    <2>6. before \subseteq M /\ part[n] \subseteq M
        BY <1>1, <2>1, <2>5
    <2>7. SumsJoin(f, before, part[n])
        <3>1. IsFiniteSet(before) /\ IsFiniteSet(part[n]) /\ before \cap part[n] = {}
            BY <1>2, <2>4, <2>5, <2>6
        <3>2. \A x \in before \cup part[n] : f[x] \in Nat
            BY <2>6
        <3> QED  BY <3>1, <3>2, SumJoin
    <2>8. SumOf(g, 1 .. n) = g[n] + SumOf(g, 1 .. n - 1)
        <3>1. (1 .. n) \ {n} = 1 .. n - 1 /\ n \in 1 .. n
            BY <2>1
        <3>2. IsFiniteSet(1 .. n) /\ \A x \in 1 .. n : g[x] \in Nat
            BY <1>6, <1>7
        <3> QED  BY <3>1, <3>2, SumOver
    <2>9. g[n] = SumOf(f, part[n])
        BY <2>1 DEF g
    <2>10. SumOf(g, 1 .. n - 1) = SumOf(f, before)
        BY <2>2, <2>5
    <2>11. SumOf(f, U(n)) = SumOf(f, before) + SumOf(f, part[n])
           /\ SumOf(f, before) \in Nat /\ SumOf(f, part[n]) \in Nat
        BY <2>3, <2>5, <2>7 DEF SumsJoin
    <2>12. SumOf(f, U(n)) = SumOf(g, 1 .. n)
        BY <2>8, <2>9, <2>10, <2>11
    <2> QED  BY <1>6, <2>12
<1> QED  BY <1>8, <1>9
=============================================================================
