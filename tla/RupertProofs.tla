---------------------------- MODULE RupertProofs ----------------------------
(***************************************************************************)
(* What holds of the passes of Rupert for any number of items, corpora,    *)
(* calls and prices: the day's meter and its ceilings, that a text is paid *)
(* for once, and that a mark passes nothing by when the corpora are read   *)
(* in order. The meter is a sum over the day's rows, so the proofs rest on *)
(* Sums.                                                                   *)
(***************************************************************************)
EXTENDS Rupert, Sums

\* What the assumptions say of the numbers.
LEMMA RupertConstants ==
    /\ Batch \in Nat \ {0} /\ DayLength \in Nat \ {0}
    /\ MaxCalls \in Nat /\ MaxSpend \in Nat /\ Backfill \in Nat /\ Horizon \in Nat
    /\ MaxFaults \in Nat /\ Prices \subseteq Nat /\ IsFiniteSet(Prices) /\ Prices # {}
    /\ InOrder \in BOOLEAN /\ Never \in Int /\ Never < 0 - Backfill /\ Never < 0
    /\ Corpora \in Seq(Names) /\ CorpusOf \in [Items -> Names] /\ IsFiniteSet(Items)
<1>1. Backfill \in Nat
    BY NumbersAssumption
<1>2. Never = 0 - 1 - Backfill
    BY <1>1 DEF Never
<1>3. Never \in Int /\ Never < 0 - Backfill /\ Never < 0
    BY <1>1, <1>2
<1>4. QED BY <1>1, <1>3, NumbersAssumption, CorporaAssumption

\* The day does not go back.
LEMMA DaysGoOn ==
    ASSUME NEW n \in Nat, NEW d \in Nat \ {0}
    PROVE  /\ n \div d \in Nat /\ (n + 1) \div d \in Nat
           /\ n \div d <= (n + 1) \div d
<1>1. /\ n \div d \in Int /\ n % d \in 0 .. d - 1 /\ n = d * (n \div d) + (n % d)
    OBVIOUS
<1>2. /\ (n + 1) \div d \in Int /\ (n + 1) % d \in 0 .. d - 1
      /\ n + 1 = d * ((n + 1) \div d) + ((n + 1) % d)
    OBVIOUS
<1>3. PICK q \in Int, r \in 0 .. d - 1 : q = n \div d /\ n = d * q + r
    BY <1>1, Zenon
<1>4. PICK p \in Int, s \in 0 .. d - 1 : p = (n + 1) \div d /\ n + 1 = d * p + s
    BY <1>2, Zenon
<1>5. ASSUME NEW k \in Nat, NEW x \in Int, NEW y \in Int, x = y - 1 - k
      PROVE  d * x <= d * y - d
    <2>1. d * x = d * y - d - d * k
        BY <1>5
    <2>2. d * k >= 0
        OBVIOUS
    <2>3. d * x \in Int /\ d * y \in Int /\ d * k \in Int
        OBVIOUS
    <2>4. QED BY <2>1, <2>2, <2>3
<1>6. q <= p
    <2>1. SUFFICES ASSUME p <= q - 1 PROVE FALSE
        OBVIOUS
    <2>2. PICK k \in Nat : p = q - 1 - k
        <3>1. q - 1 - p \in Nat /\ p = q - 1 - (q - 1 - p)
            BY <2>1
        <3>2. QED BY <3>1
    <2>3. d * p <= d * q - d
        BY <1>5, <2>2
    <2>4. d * p \in Int /\ d * q \in Int
        OBVIOUS
    <2>5. QED BY <1>3, <1>4, <2>3, <2>4
<1>7. 0 <= q /\ 0 <= p
    <2>1. \A x \in Int, y \in 0 .. d - 1 : d * x + y >= 0 => x >= 0
        <3>1. SUFFICES ASSUME NEW x \in Int, NEW y \in 0 .. d - 1, d * x + y >= 0, x <= 0 - 1
                       PROVE  FALSE
            OBVIOUS
        <3>2. PICK k \in Nat : x = 0 - 1 - k
            <4>1. 0 - 1 - x \in Nat /\ x = 0 - 1 - (0 - 1 - x)
                BY <3>1
            <4>2. QED BY <4>1
        <3>3. d * x <= d * 0 - d
            BY <1>5, <3>2
        <3>4. d * 0 = 0 /\ d * x \in Int
            OBVIOUS
        <3>5. QED BY <3>1, <3>3, <3>4
    <2>2. QED BY <1>3, <1>4, <2>1
<1>8. QED BY <1>3, <1>4, <1>6, <1>7

\* The dearest answer there is.
LEMMA DearestIs == Max(Prices) \in Prices /\ \A p \in Prices : p <= Max(Prices)
BY RupertConstants, LargestOf

-----------------------------------------------------------------------------
(* The day's rows.                                                         *)

Mentions == [state : {"absent", "decided", "crowded"}, day : Int, cost : Prices \cup {0}]

\* A cost is a number.
LEMMA CostsAre == \A row \in Mentions : row.cost \in Nat
<1>1. Prices \subseteq Nat
    BY RupertConstants
<1>2. \A row \in Mentions : row.cost \in Prices \cup {0}
    BY DEF Mentions
<1>3. \A c \in Prices \cup {0} : c \in Nat
    BY <1>1
<1>4. QED BY <1>2, <1>3, Zenon

RowsOn(m, d) == {i \in Items : m[i].day = d}
CallsOn(m, d) == Cardinality({i \in RowsOn(m, d) : m[i].state # "crowded"})
Costs(m) == [i \in Items |-> m[i].cost]
SpentOn(m, d) == SumOf(Costs(m), RowsOn(m, d))

\* The rows of a day are finitely many, and their sum a number.
LEMMA RowsAre ==
    ASSUME NEW m \in [Items -> Mentions], NEW d
    PROVE  /\ IsFiniteSet(RowsOn(m, d)) /\ RowsOn(m, d) \subseteq Items
           /\ \A x \in Items : Costs(m)[x] \in Nat /\ Costs(m)[x] = m[x].cost
           /\ CallsOn(m, d) \in Nat /\ SpentOn(m, d) \in Nat
<1>1. IsFiniteSet(RowsOn(m, d)) /\ RowsOn(m, d) \subseteq Items
    BY RupertConstants, FS_Subset DEF RowsOn
<1>2. \A x \in Items : Costs(m)[x] \in Nat /\ Costs(m)[x] = m[x].cost
    BY CostsAre DEF Costs
<1>3. CallsOn(m, d) \in Nat
    <2>1. {i \in RowsOn(m, d) : m[i].state # "crowded"} \subseteq RowsOn(m, d)
        OBVIOUS
    <2>2. QED BY <1>1, <2>1, FS_Subset, FS_CardinalityType DEF CallsOn
<1>4. SpentOn(m, d) \in Nat
    <2>1. \A x \in RowsOn(m, d) : Costs(m)[x] \in Nat
        BY <1>1, <1>2
    <2>2. QED BY <1>1, <2>1, SumOver DEF SpentOn
<1>5. QED BY <1>1, <1>2, <1>3, <1>4

\* What the meter reads is the sum.
LEMMA SpentAs ==
    ASSUME NEW m \in [Items -> Mentions], NEW d
    PROVE  MapThenSumSet(LAMBDA i : m[i].cost, RowsOn(m, d)) = SpentOn(m, d)
<1> DEFINE S == RowsOn(m, d)
           Read(g) == g = [s \in SUBSET S |->
                              IF s = {} THEN 0 ELSE m[AnyOf(s)].cost + g[s \ {AnyOf(s)}]]
<1>1. IsFiniteSet(S) /\ S \subseteq Items
    BY RowsAre
<1>2. MapThenSumSet(LAMBDA i : m[i].cost, S) = (CHOOSE g : Read(g))[S]
    BY Zenon DEF MapThenSumSet, MapThenFoldSet, AnyOf
<1> HIDE DEF S
<1>3. ASSUME NEW g
      PROVE  Read(g) <=> IsSum(g, Costs(m), S)
    <2>1. \A s \in SUBSET S : s # {} => Costs(m)[AnyOf(s)] = m[AnyOf(s)].cost
        <3>1. TAKE s \in SUBSET S
        <3>2. HAVE s # {}
        <3>3. AnyOf(s) \in Items
            BY <1>1, <3>2, AnyOfIs
        <3>4. QED BY <3>3 DEF Costs
    <2>2. [s \in SUBSET S |->
               IF s = {} THEN 0 ELSE m[AnyOf(s)].cost + g[s \ {AnyOf(s)}]]
          = [s \in SUBSET S |->
               IF s = {} THEN 0 ELSE Costs(m)[AnyOf(s)] + g[s \ {AnyOf(s)}]]
        BY <2>1
    <2>3. QED BY <2>2 DEF IsSum
<1> HIDE DEF Read
<1>4. \E g : Read(g)
    BY <1>1, <1>3, SumExists
<1>5. Read(CHOOSE g : Read(g))
    BY <1>4, Zenon
<1>6. PICK g : g = (CHOOSE o : Read(o)) /\ IsSum(g, Costs(m), S)
    BY <1>3, <1>5
<1>7. PICK h : IsSum(h, Costs(m), S) /\ SumOf(Costs(m), S) = h[S]
    BY <1>1, SumReadOff
<1>8. g[S] = h[S]
    <2>1. S \in SUBSET (S \cap S) /\ \A x \in S : Costs(m)[x] = Costs(m)[x]
        OBVIOUS
    <2>2. QED BY <1>1, <1>6, <1>7, <2>1, SumUnique
<1>9. QED BY <1>2, <1>6, <1>7, <1>8 DEF SpentOn, S

\* What a row written on the day does to its calls and its cost.
RowMoves(m, n, i, row, d) ==
    /\ CallsOn(n, d) <= CallsOn(m, d) + 1
    /\ row.state = "crowded" => CallsOn(n, d) <= CallsOn(m, d)
    /\ m[i].day # d /\ row.state # "crowded" => CallsOn(n, d) = CallsOn(m, d) + 1
    /\ m[i].day # d => CallsOn(n, d) >= CallsOn(m, d)
    /\ row.state # "crowded" => CallsOn(n, d) >= CallsOn(m, d)
    /\ CallsOn(n, d) + 1 >= CallsOn(m, d)
    /\ m[i].day = d => SpentOn(n, d) + m[i].cost = SpentOn(m, d) + row.cost
    /\ m[i].day # d => SpentOn(n, d) = SpentOn(m, d) + row.cost

\* One row written on the day: at most one call more, and its cost for what it replaces.
LEMMA AnotherRow ==
    ASSUME NEW m \in [Items -> Mentions], NEW d, NEW i \in Items, NEW row \in Mentions,
           row.day = d, NEW n, n = [m EXCEPT ![i] = row]
    PROVE  n \in [Items -> Mentions] /\ RowMoves(m, n, i, row, d)
<1>1. n \in [Items -> Mentions] /\ n[i] = row /\ \A x \in Items \ {i} : n[x] = m[x]
    OBVIOUS
<1>2. RowsOn(n, d) = RowsOn(m, d) \cup {i} /\ (i \in RowsOn(m, d) <=> m[i].day = d)
    BY <1>1 DEF RowsOn
<1> DEFINE C == {x \in RowsOn(m, d) : m[x].state # "crowded"}
           D == {x \in RowsOn(n, d) : n[x].state # "crowded"}
<1>3. IsFiniteSet(C) /\ IsFiniteSet(C \cup {i}) /\ IsFiniteSet(C \ {i})
    BY RowsAre, FS_Subset, FS_AddElement, FS_RemoveElement
<1>4. /\ D = IF row.state = "crowded" THEN C \ {i} ELSE C \cup {i}
      /\ m[i].day # d => i \notin C
    <2>1. ASSUME NEW x \in Items \ {i} PROVE x \in D <=> x \in C
        BY <1>1, <1>2, <2>1
    <2>2. i \in D <=> row.state # "crowded"
        BY <1>1, <1>2
    <2>3. C \subseteq Items /\ D \subseteq Items
        BY RowsAre, <1>2
    <2>4. m[i].day # d => i \notin C
        BY <1>2
    <2>5. QED BY <2>1, <2>2, <2>3, <2>4
<1>5. PICK c \in Nat : c = Cardinality(C)
    BY <1>3, FS_CardinalityType
<1>6. Cardinality(C \cup {i}) = (IF i \in C THEN c ELSE c + 1)
    BY <1>3, <1>5, FS_AddElement
<1>7. Cardinality(C \ {i}) = (IF i \in C THEN c - 1 ELSE c)
    BY <1>3, <1>5, FS_RemoveElement
<1>8. /\ CallsOn(m, d) = c
      /\ CallsOn(n, d) = Cardinality(IF row.state = "crowded" THEN C \ {i} ELSE C \cup {i})
    BY <1>4, <1>5 DEF CallsOn
<1>9. /\ CallsOn(n, d) <= CallsOn(m, d) + 1
      /\ row.state = "crowded" => CallsOn(n, d) <= CallsOn(m, d)
      /\ m[i].day # d /\ row.state # "crowded" => CallsOn(n, d) = CallsOn(m, d) + 1
      /\ m[i].day # d => CallsOn(n, d) >= CallsOn(m, d)
      /\ row.state # "crowded" => CallsOn(n, d) >= CallsOn(m, d)
      /\ CallsOn(n, d) + 1 >= CallsOn(m, d)
    <2> HIDE DEF C, D
    <2>1. CASE row.state = "crowded"
        BY <1>4, <1>5, <1>7, <1>8, <2>1
    <2>2. CASE row.state # "crowded"
        BY <1>4, <1>5, <1>6, <1>8, <2>2
    <2>3. QED BY <2>1, <2>2
<1>10. /\ m[i].day = d => SpentOn(n, d) + m[i].cost = SpentOn(m, d) + row.cost
       /\ m[i].day # d => SpentOn(n, d) = SpentOn(m, d) + row.cost
    <2> DEFINE S == RowsOn(m, d)
    <2>1. IsFiniteSet(S) /\ S \subseteq Items /\ IsFiniteSet(S \ {i}) /\ IsFiniteSet(S \cup {i})
        BY RowsAre, FS_Subset, FS_AddElement
    <2>2. /\ \A x \in Items : Costs(n)[x] \in Nat /\ Costs(n)[x] = n[x].cost
          /\ \A x \in Items : Costs(m)[x] \in Nat /\ Costs(m)[x] = m[x].cost
        BY <1>1, RowsAre
    <2>a. i \in S <=> m[i].day = d
        BY <1>2
    <2> HIDE DEF S
    <2>3. SumOf(Costs(n), S \cup {i}) = row.cost + SumOf(Costs(n), S \ {i})
        <3>1. (S \cup {i}) \ {i} = S \ {i} /\ \A x \in S \cup {i} : Costs(n)[x] \in Nat
            BY <2>1, <2>2
        <3> DEFINE T == S \cup {i}  f == Costs(n)
        <3>a. IsFiniteSet(T) /\ i \in T /\ \A x \in T : f[x] \in Nat
            BY <2>1, <3>1
        <3> HIDE DEF T, f
        <3>b. SumOf(f, T) = f[i] + SumOf(f, T \ {i})
            BY <3>a, SumOver
        <3>2. SumOf(Costs(n), S \cup {i}) = Costs(n)[i] + SumOf(Costs(n), (S \cup {i}) \ {i})
            BY <3>b DEF T, f
        <3>3. QED BY <1>1, <2>2, <3>1, <3>2
    <2>4. SumOf(Costs(n), S \ {i}) = SumOf(Costs(m), S \ {i})
        <3>1. \A x \in S \ {i} : Costs(n)[x] = Costs(m)[x]
            BY <1>1, <2>1, <2>2
        <3>2. QED BY <2>1, <3>1, SumSame
    <2>5. SumOf(Costs(m), S \ {i}) \in Nat
        <3>1. \A x \in S \ {i} : Costs(m)[x] \in Nat
            BY <2>1, <2>2
        <3>2. QED BY <2>1, <3>1, SumOver
    <2>6. SumOf(Costs(m), S) =
              IF i \in S THEN Costs(m)[i] + SumOf(Costs(m), S \ {i}) ELSE SumOf(Costs(m), S \ {i})
        <3>1. \A x \in S : Costs(m)[x] \in Nat
            BY <2>1, <2>2
        <3>3. CASE i \in S
            BY <2>1, <3>1, <3>3, SumOver
        <3>4. CASE i \notin S
            <4>1. S \ {i} = S
                BY <3>4
            <4>2. QED BY <3>4, <4>1
        <3>5. QED BY <3>3, <3>4
    <2>7. row.cost \in Nat /\ m[i].cost \in Nat
        BY CostsAre
    <2>8. SpentOn(m, d) = SumOf(Costs(m), S) /\ SpentOn(n, d) = SumOf(Costs(n), S \cup {i})
        BY <1>2 DEF SpentOn, S
    <2>9. Costs(m)[i] = m[i].cost
        BY <2>2
    <2>10. QED BY <2>a, <2>3, <2>4, <2>5, <2>6, <2>7, <2>8, <2>9
<1>11. RowMoves(m, n, i, row, d)
    BY <1>9, <1>10, Zenon DEF RowMoves
<1>12. QED BY <1>1, <1>11

\* Of the items in o, those whose row is of the day.
AgainOn(m, o, d) == Cardinality(o \cap RowsOn(m, d))

\* A row of the day is of an item in o.
DueAgain(m, o, i, d) == m[i].day = d => i \in o

\* One whose row is written again is of them no more.
FewerAgain(m, n, o, i, d) ==
    /\ AgainOn(m, o, d) \in Nat
    /\ m[i].day = d => AgainOn(n, o \ {i}, d) = AgainOn(m, o, d) - 1
    /\ m[i].day # d => AgainOn(n, o \ {i}, d) = AgainOn(m, o, d)

LEMMA AgainMoves ==
    ASSUME NEW m \in [Items -> Mentions], NEW d, NEW i \in Items, NEW row \in Mentions,
           row.day = d, NEW n, n = [m EXCEPT ![i] = row],
           NEW o, DueAgain(m, o, i, d)
    PROVE  FewerAgain(m, n, o, i, d)
<1>1. n[i] = row /\ \A x \in Items \ {i} : n[x] = m[x]
    OBVIOUS
<1>2. RowsOn(n, d) = RowsOn(m, d) \cup {i} /\ (i \in RowsOn(m, d) <=> m[i].day = d)
    BY <1>1 DEF RowsOn
<1>3. (o \ {i}) \cap RowsOn(n, d) = (o \cap RowsOn(m, d)) \ {i}
    BY <1>2
<1>4. IsFiniteSet(o \cap RowsOn(m, d))
    BY RowsAre, FS_Subset
<1> DEFINE T == o \cap RowsOn(m, d)
<1>5. m[i].day = d => i \in T
    BY <1>2 DEF DueAgain
<1>6. m[i].day # d => T \ {i} = T
    BY <1>2
<1>7. Cardinality(T) \in Nat /\ (i \in T => Cardinality(T \ {i}) = Cardinality(T) - 1)
    BY <1>4, FS_CardinalityType, FS_RemoveElement
<1>8. AgainOn(m, o, d) = Cardinality(T) /\ AgainOn(n, o \ {i}, d) = Cardinality(T \ {i})
    BY <1>3 DEF AgainOn
<1> HIDE DEF T
<1>9. QED BY <1>5, <1>6, <1>7, <1>8 DEF FewerAgain, DueAgain

\* A set of items is of as many of them at most, and of those of another besides.
LEMMA AgainGrows ==
    ASSUME NEW m \in [Items -> Mentions], NEW d, NEW o, NEW e \in SUBSET Items
    PROVE  /\ AgainOn(m, o, d) \in Nat /\ AgainOn(m, o \cup e, d) \in Nat /\ Cardinality(e) \in Nat
           /\ AgainOn(m, o \cup e, d) <= AgainOn(m, o, d) + Cardinality(e)
<1> DEFINE A == o \cap RowsOn(m, d)
           B == (o \cup e) \cap RowsOn(m, d)
<1>1. IsFiniteSet(A) /\ IsFiniteSet(e) /\ IsFiniteSet(B)
    BY RowsAre, RupertConstants, FS_Subset
<1>2. B \subseteq A \cup e
    OBVIOUS
<1>3. /\ IsFiniteSet(A \cup e) /\ Cardinality(A \cup e) \in Nat
      /\ Cardinality(A \cap e) \in Nat /\ Cardinality(A) \in Nat /\ Cardinality(e) \in Nat
      /\ Cardinality(A \cup e) = Cardinality(A) + Cardinality(e) - Cardinality(A \cap e)
    <2>1. IsFiniteSet(A \cap e)
        BY <1>1, FS_Subset
    <2>2. QED BY <1>1, <2>1, FS_Union, FS_CardinalityType
<1>4. Cardinality(B) \in Nat /\ Cardinality(B) <= Cardinality(A \cup e)
    BY <1>1, <1>2, <1>3, FS_Subset, FS_CardinalityType
<1>5. AgainOn(m, o, d) = Cardinality(A) /\ AgainOn(m, o \cup e, d) = Cardinality(B)
    BY DEF AgainOn
<1> HIDE DEF A, B
<1>6. QED BY <1>3, <1>4, <1>5

\* On a day that has no row yet, nothing was asked or paid for.
LEMMA NewDay ==
    ASSUME NEW m \in [Items -> Mentions], NEW d \in Int, \A i \in Items : m[i].day < d
    PROVE  CallsOn(m, d) = 0 /\ SpentOn(m, d) = 0
<1>1. RowsOn(m, d) = {}
    BY DEF RowsOn, Mentions
<1>2. {i \in RowsOn(m, d) : m[i].state # "crowded"} = {}
    BY <1>1
<1>3. SumOf(Costs(m), {}) = 0
    <2>1. IsFiniteSet({}) /\ \A x \in {} : Costs(m)[x] \in Nat
        BY FS_EmptySet
    <2>2. QED BY <2>1, SumOver
<1>4. QED BY <1>1, <1>2, <1>3, FS_EmptySet DEF CallsOn, SpentOn

\* The meter of the model is the sum over the day of the rows.
LEMMA Metered ==
    mention \in [Items -> Mentions] =>
        /\ CallsToday = CallsOn(mention, now \div DayLength)
        /\ SpentToday = SpentOn(mention, now \div DayLength)
<1> SUFFICES ASSUME mention \in [Items -> Mentions]
             PROVE  /\ CallsToday = CallsOn(mention, now \div DayLength)
                    /\ SpentToday = SpentOn(mention, now \div DayLength)
    OBVIOUS
<1>1. Today = RowsOn(mention, now \div DayLength)
    BY DEF Today, RowsOn
<1>2. SpentToday = MapThenSumSet(LAMBDA i : mention[i].cost, RowsOn(mention, now \div DayLength))
    BY <1>1 DEF SpentToday
<1>3. SpentToday = SpentOn(mention, now \div DayLength)
    BY <1>2, SpentAs
<1>4. QED BY <1>1, <1>3 DEF CallsToday, CallsOn

\* So it is after a step.
LEMMA MeteredNext ==
    mention' \in [Items -> Mentions] =>
        /\ CallsToday' = CallsOn(mention', now' \div DayLength)
        /\ SpentToday' = SpentOn(mention', now' \div DayLength)
<1>1. (mention \in [Items -> Mentions] =>
          /\ CallsToday = CallsOn(mention, now \div DayLength)
          /\ SpentToday = SpentOn(mention, now \div DayLength))'
    BY Metered, PTL
<1>2. QED BY <1>1

\* A meter moves with the rows and the day, and with nothing else.
LEMMA MetersSame ==
    ASSUME mention \in [Items -> Mentions], UNCHANGED mention,
           now' \div DayLength = now \div DayLength
    PROVE  CallsToday' = CallsToday /\ SpentToday' = SpentToday
<1>1. mention' \in [Items -> Mentions]
    OBVIOUS
<1>2. QED BY <1>1, Metered, MeteredNext

-----------------------------------------------------------------------------
(* The budgets.  What a day may come to is kept as one relation between    *)
(* numbers: its rows' calls c and cost e, whether a call is out w and what *)
(* it cost k, what the pass thinks is left b and spent l, what was really  *)
(* made m and paid p, the day's rows a that will be asked about again, and *)
(* the deaths d.                                                           *)

Top == Max(Prices)

Held(c, e, w, k, b, l, m, p, a, d, on) ==
    /\ c + w <= MaxCalls
    /\ MaxSpend > 0 => e + k < MaxSpend + Top
    /\ on => c + w + b <= MaxCalls /\ e + k <= l
    /\ m + a <= c + w + Batch * d
    /\ p + Top * a <= e + k + Top * (Batch * d)

LEMMA TopIs == Top \in Nat /\ \A row \in Mentions : row.cost <= Top /\ row.cost \in Nat
<1>1. PICK top \in Nat : top = Top /\ \A p \in Prices : p <= top
    BY DearestIs, RupertConstants DEF Top
<1>2. \A row \in Mentions : row.cost \in Prices \cup {0}
    BY DEF Mentions
<1>3. \A c \in Prices \cup {0} : c <= top
    BY <1>1, RupertConstants
<1>4. QED BY <1>1, <1>2, <1>3, CostsAre

\* A product with a larger number is as large.
LEMMA TimesMore ==
    ASSUME NEW t \in Nat, NEW x \in Nat, NEW y \in Nat, x <= y
    PROVE  t * x \in Nat /\ t * y \in Nat /\ t * x <= t * y
<1>1. PICK z \in Nat : y = x + z
    <2>1. y - x \in Nat /\ y = x + (y - x)
        OBVIOUS
    <2>2. QED BY <2>1
<1>2. t * y = t * x + t * z /\ t * z \in Nat /\ t * x \in Nat
    <2>1. t * (x + z) = t * x + t * z
        OBVIOUS
    <2>2. t * z \in Nat /\ t * x \in Nat
        OBVIOUS
    <2>3. QED BY <1>1, <2>1, <2>2
<1>3. QED BY <1>2

\* How a row moves the numbers.
Moves(c, e, w, k, a, c2, e2, w2, k2, a2) ==
    /\ c2 + w2 <= c + w /\ e2 + k2 <= e + k /\ a2 + c + w <= a + c2 + w2
    /\ Top * a2 + e + k <= Top * a + e2 + k2

\* What a row does: a call out becomes a row, a row of a text asked again is no more.
LEMMA HeldMoves ==
    ASSUME NEW c \in Nat, NEW e \in Nat, NEW w \in Nat, NEW k \in Nat, NEW a \in Nat,
           NEW c2 \in Nat, NEW e2 \in Nat, NEW w2 \in Nat, NEW k2 \in Nat, NEW a2 \in Nat,
           NEW b \in Nat, NEW l \in Nat, NEW m \in Nat, NEW p \in Nat, NEW d \in Nat, NEW on,
           Held(c, e, w, k, b, l, m, p, a, d, on),
           Moves(c, e, w, k, a, c2, e2, w2, k2, a2)
    PROVE  Held(c2, e2, w2, k2, b, l, m, p, a2, d, on)
<1>1. PICK x \in Nat, y \in Nat, z \in Nat, u \in Nat :
          x = Top * a /\ y = Top * a2 /\ z = Batch * d /\ u = Top * (Batch * d)
    <2>1. Top \in Nat /\ Batch \in Nat
        BY TopIs, RupertConstants
    <2>2. \A s, t \in Nat : s * t \in Nat
        OBVIOUS
    <2>3. Top * a \in Nat /\ Top * a2 \in Nat /\ Batch * d \in Nat /\ Top * (Batch * d) \in Nat
        BY <2>1, <2>2
    <2>4. QED BY <2>3
<1>2. MaxCalls \in Nat /\ MaxSpend \in Nat /\ Top \in Nat
    BY RupertConstants, TopIs
<1>3. /\ c2 + w2 <= MaxCalls
      /\ MaxSpend > 0 => e2 + k2 < MaxSpend + Top
      /\ on => c2 + w2 + b <= MaxCalls /\ e2 + k2 <= l
    BY <1>2 DEF Held, Moves
<1>4. m + a2 <= c2 + w2 + z
    BY <1>1 DEF Held, Moves
<1>5. p + y <= e2 + k2 + u
    BY <1>1 DEF Held, Moves
<1>6. QED BY <1>1, <1>3, <1>4, <1>5 DEF Held

\* A call: it is out, it cost what it cost, and both are taken off what is left.
LEMMA HeldAsks ==
    ASSUME NEW c \in Nat, NEW e \in Nat, NEW a \in Nat, NEW b \in Nat, NEW l \in Nat,
           NEW m \in Nat, NEW p \in Nat, NEW d \in Nat, NEW cost \in Nat,
           Held(c, e, 0, 0, b, l, m, p, a, d, TRUE), b > 0, l < MaxSpend, cost <= Top
    PROVE  Held(c, e, 1, cost, b - 1, l + cost, m + 1, p + cost, a, d, TRUE)
<1>1. PICK x \in Nat, z \in Nat, u \in Nat :
          x = Top * a /\ z = Batch * d /\ u = Top * (Batch * d)
    <2>1. Top \in Nat /\ Batch \in Nat
        BY TopIs, RupertConstants
    <2>2. \A s, t \in Nat : s * t \in Nat
        OBVIOUS
    <2>3. Top * a \in Nat /\ Batch * d \in Nat /\ Top * (Batch * d) \in Nat
        BY <2>1, <2>2
    <2>4. QED BY <2>3
<1>2. MaxCalls \in Nat /\ MaxSpend \in Nat /\ Top \in Nat
    BY RupertConstants, TopIs
<1>3. /\ c + 0 + b <= MaxCalls /\ e + 0 <= l
      /\ m + a <= c + 0 + z /\ p + x <= e + 0 + u
    BY <1>1 DEF Held
<1>4. /\ c + 1 <= MaxCalls
      /\ MaxSpend > 0 => e + cost < MaxSpend + Top
      /\ c + 1 + (b - 1) <= MaxCalls /\ e + cost <= l + cost
    BY <1>2, <1>3
<1>5. m + 1 + a <= c + 1 + z /\ p + cost + x <= e + cost + u
    BY <1>1, <1>3
<1>6. QED BY <1>1, <1>4, <1>5 DEF Held

\* A death: what was out is lost, and what was not moved over will be asked again.
LEMMA HeldDies ==
    ASSUME NEW c \in Nat, NEW e \in Nat, NEW w \in Nat, NEW k \in Nat, NEW a \in Nat,
           NEW b \in Nat, NEW l \in Nat, NEW m \in Nat, NEW p \in Nat, NEW d \in Nat, NEW on,
           Held(c, e, w, k, b, l, m, p, a, d, on),
           NEW n \in Nat, n + w <= Batch, k <= Top * w, NEW a2 \in Nat, a2 <= a + n,
           NEW b2, NEW l2
    PROVE  Held(c, e, 0, 0, b2, l2, m, p, a2, d + 1, FALSE)
<1>0. MaxCalls \in Nat /\ MaxSpend \in Nat /\ Top \in Nat /\ Batch \in Nat
    BY RupertConstants, TopIs
<1>1. PICK x \in Nat, y \in Nat, z \in Nat, u \in Nat, v \in Nat, r \in Nat, q \in Nat :
          /\ x = Top * a /\ y = Top * a2 /\ z = Batch * d /\ u = Top * (Batch * d)
          /\ v = Top * n /\ r = Top * w /\ q = Top * Batch
    <2>2. \A s, t \in Nat : s * t \in Nat
        OBVIOUS
    <2>3. /\ Top * a \in Nat /\ Top * a2 \in Nat /\ Batch * d \in Nat /\ Top * (Batch * d) \in Nat
          /\ Top * n \in Nat /\ Top * w \in Nat /\ Top * Batch \in Nat
        BY <1>0, <2>2
    <2>4. QED BY <2>3
<1>2. y <= x + v
    <2>1. a + n \in Nat /\ Top * a2 <= Top * (a + n)
        BY <1>0, TimesMore
    <2>2. Top * (a + n) = Top * a + Top * n
        BY <1>0
    <2>3. QED BY <1>1, <2>1, <2>2
<1>3. v + r <= q
    <2>1. n + w \in Nat /\ Top * (n + w) <= Top * Batch
        BY <1>0, TimesMore
    <2>2. Top * (n + w) = Top * n + Top * w
        BY <1>0
    <2>3. QED BY <1>1, <2>1, <2>2
<1>4. Batch * (d + 1) = z + Batch /\ Top * (Batch * (d + 1)) = u + q
    <2>1. Batch * (d + 1) = Batch * d + Batch
        BY <1>0
    <2>2. Top * (Batch * d + Batch) = Top * (Batch * d) + Top * Batch
        <3>1. \A s, t, o \in Nat : s * (t + o) = s * t + s * o
            OBVIOUS
        <3>2. Batch * d \in Nat
            BY <1>1
        <3>3. QED BY <1>0, <3>1, <3>2
    <2>3. QED BY <1>1, <2>1, <2>2
<1>5. /\ c + w <= MaxCalls /\ (MaxSpend > 0 => e + k < MaxSpend + Top)
      /\ m + a <= c + w + z /\ p + x <= e + k + u
    BY <1>1 DEF Held
<1>6. c + 0 <= MaxCalls /\ (MaxSpend > 0 => e + 0 < MaxSpend + Top)
    BY <1>0, <1>5
<1>7. m + a2 <= c + 0 + (z + Batch)
    BY <1>0, <1>1, <1>5
<1>8. p + y <= e + 0 + (u + q)
    BY <1>1, <1>2, <1>3, <1>5
<1>9. QED BY <1>1, <1>4, <1>6, <1>7, <1>8 DEF Held

\* Midnight: the day has nothing yet, but a call may be out.
LEMMA HeldAtMidnight ==
    ASSUME NEW c \in Nat, NEW e \in Nat, NEW w \in Nat, NEW k \in Nat, NEW a \in Nat,
           NEW b \in Nat, NEW l \in Nat, NEW m \in Nat, NEW p \in Nat, NEW d \in Nat, NEW on,
           Held(c, e, w, k, b, l, m, p, a, d, on), k <= Top
    PROVE  Held(0, 0, w, k, b, l, 0, 0, 0, 0, on)
<1>1. MaxCalls \in Nat /\ MaxSpend \in Nat /\ Top \in Nat /\ Batch \in Nat
    BY RupertConstants, TopIs
<1>2. Batch * 0 = 0 /\ Top * 0 = 0 /\ Top * (Batch * 0) = 0
    BY <1>1
<1>3. QED BY <1>1, <1>2 DEF Held

Waiting == IF answer.item = {} THEN 0 ELSE 1
Again == AgainOn(mention, orphans, now \div DayLength)

\* No row is of a day to come, and the numbers of the day are held.
Meters ==
    /\ \A i \in Items : /\ mention[i].day <= now \div DayLength
                        /\ mention[i].state = "absent" => mention[i].day = Never
    /\ Held(CallsToday, SpentToday, Waiting, answer.cost, budget, bill, made, paid, Again,
            deaths, pc = "texts")

\* A pass that has something of a corpus is on a corpus.
OnACorpus == pc \in {"texts", "mark"} => todo # <<>>

\* What a pass has written and what it has left are of one batch, and it asks of those.
Carries ==
    /\ answer.item \subseteq texts
    /\ answer.item = {} => answer = NoAnswer
    /\ done \cap texts = {}
    /\ Cardinality(done) + Cardinality(texts) <= Batch
    /\ pc \notin {"texts", "mark"} => done = {}

\* A first mark is recorded for good, what a pass holds is of the corpus it is on, and
\* what is decided has arrived.
Marked ==
    /\ \A c \in Names : progress[c] >= Never /\ (progress[c] = Never <=> since[c] = Never)
    /\ pc \in {"texts", "mark"} => progress[Head(todo)] # Never
    /\ pc # "texts" => texts = {}
    /\ \A i \in texts : CorpusOf[i] = Head(todo) /\ at[i] # Never /\ reached <= at[i]
    /\ \A i \in Items : mention[i].state # "absent" => at[i] # Never

\* What is decided is behind the mark, or behind the pass that wrote it, or was written
\* by a pass that died first.
Once ==
    \A i \in Items : mention[i].state # "absent" =>
        \/ i \in orphans
        \/ /\ i \notin texts
           /\ \/ at[i] <= progress[CorpusOf[i]]
              \/ /\ pc \in {"texts", "mark"} /\ CorpusOf[i] = Head(todo)
                 /\ at[i] <= reached /\ i \in done

BudgetInv == TypeOK /\ Meters /\ OnACorpus /\ Carries

\* The numbers a day is held by.
LEMMA MetersAre ==
    ASSUME TypeOK
    PROVE  /\ now \in Nat /\ now \div DayLength \in Nat /\ mention \in [Items -> Mentions]
           /\ CallsToday \in Nat /\ SpentToday \in Nat /\ Waiting \in Nat
           /\ answer.cost \in Nat /\ answer.cost <= Top /\ budget \in Nat /\ bill \in Nat
           /\ made \in Nat /\ paid \in Nat /\ Again \in Nat /\ deaths \in Nat
           /\ MaxCalls \in Nat /\ MaxSpend \in Nat /\ Top \in Nat /\ Batch \in Nat
           /\ {done, orphans, texts} \subseteq SUBSET Items
<1>1. /\ now \in Nat /\ mention \in [Items -> Mentions] /\ budget \in Nat /\ bill \in Nat
      /\ made \in Nat /\ paid \in Nat /\ deaths \in Nat
      /\ {done, orphans, texts} \subseteq SUBSET Items
    <2>1. /\ now \in 0 .. Horizon /\ budget \in 0 .. MaxCalls /\ bill \in Nat
          /\ mention \in [Items -> Mentions] /\ {made, paid, deaths} \subseteq Nat
          /\ {done, orphans} \subseteq SUBSET Items /\ texts \subseteq Items
        BY DEF TypeOK, Mentions
    <2>2. QED BY <2>1, RupertConstants
<1>2. PICK d \in Nat : d = now \div DayLength
    BY <1>1, RupertConstants, DaysGoOn
<1>3. CallsToday \in Nat /\ SpentToday \in Nat
    BY <1>1, <1>2, Metered, RowsAre
<1>4. Again \in Nat
    BY <1>1, AgainGrows, FS_EmptySet DEF Again
<1>5. answer.cost \in Nat /\ answer.cost <= Top
    <2>1. PICK q \in Prices \cup {0} : q = answer.cost
        BY DEF TypeOK
    <2>2. PICK top \in Nat : top = Top /\ \A p \in Prices : p <= top
        BY DearestIs, RupertConstants DEF Top
    <2>3. q \in Nat
        <3>1. Prices \subseteq Nat
            BY RupertConstants
        <3>2. QED BY <3>1
    <2>4. q = 0 \/ q <= top
        BY <2>2
    <2>5. QED BY <2>1, <2>2, <2>3, <2>4
<1>6. Waiting \in Nat
    BY DEF Waiting
<1>7. QED BY <1>1, <1>2, <1>3, <1>4, <1>5, <1>6, RupertConstants, TopIs

\* No row yet, and nothing spent.
LEMMA BudgetStarts == Init => BudgetInv
<1> SUFFICES ASSUME Init PROVE BudgetInv
    OBVIOUS
<1>0. /\ 0 \in 0 .. Horizon /\ 0 \in 0 .. MaxCalls /\ 0 \in 0 .. MaxFaults /\ Never \in Int
      /\ MaxCalls \in Nat /\ MaxSpend \in Nat /\ DayLength \in Nat \ {0} /\ Never < 0
      /\ Corpora \in Seq(Names) /\ Batch \in Nat
    BY RupertConstants
<1>1. NoMention \in Mentions /\ NoMention.day = Never
    BY <1>0 DEF NoMention, Mentions
<1>2. mention \in [Items -> Mentions] /\ \A i \in Items : mention[i].day = Never
    BY <1>1 DEF Init
<1>3. TypeOK
    <2>1. /\ now \in 0 .. Horizon /\ at \in [Items -> 0 .. Horizon \cup {Never}]
          /\ names \in [Items -> Finds] /\ progress \in [Names -> Int]
          /\ since \in [Names -> Int] /\ paused \in BOOLEAN
        BY <1>0 DEF Init, Finds
    <2>2. /\ moment \in 0 .. Horizon /\ texts \subseteq Items /\ reached \in Int
          /\ budget \in 0 .. MaxCalls /\ bill \in Nat /\ faults \in 0 .. MaxFaults
          /\ pc \in {"asleep", "corpus", "texts", "mark"}
        BY <1>0 DEF Init
    <2>3. todo \in Seq(Names)
        BY DEF Init
    <2>4. /\ answer \in [item : SUBSET Items, cost : Prices \cup {0}]
          /\ {made, paid, deaths} \subseteq Nat /\ {done, orphans} \subseteq SUBSET Items
        BY DEF Init, NoAnswer
    <2>5. QED BY <1>2, <2>1, <2>2, <2>3, <2>4 DEF TypeOK, Mentions
<1>4. now \div DayLength \in Int /\ now \div DayLength >= 0
    <2>1. \A d \in Nat \ {0} : 0 \div d = 0
        OBVIOUS
    <2>2. QED BY <1>0, <2>1 DEF Init
<1>5. \A i \in Items : mention[i].day < now \div DayLength
    BY <1>0, <1>2, <1>4
<1>6. CallsToday = 0 /\ SpentToday = 0
    BY <1>2, <1>4, <1>5, Metered, NewDay
<1>7. Again = 0
    <2>1. orphans \cap RowsOn(mention, now \div DayLength) = {}
        BY DEF Init
    <2>2. QED BY <2>1, FS_EmptySet DEF Again, AgainOn
<1>8. /\ pc = "asleep" /\ answer = NoAnswer /\ budget = 0 /\ bill = 0 /\ made = 0 /\ paid = 0
      /\ deaths = 0 /\ done = {} /\ texts = {}
    BY DEF Init
<1>9. Held(0, 0, 0, 0, 0, 0, 0, 0, 0, 0, FALSE)
    <2>1. Top \in Nat /\ Batch * 0 = 0 /\ Top * 0 = 0
        BY <1>0, TopIs
    <2>2. QED BY <1>0, <2>1 DEF Held
<1>10. Meters
    <2>1. Waiting = 0 /\ answer.cost = 0 /\ (pc = "texts") = FALSE
        BY <1>8 DEF Waiting, NoAnswer
    <2>2. \A i \in Items : /\ mention[i].day <= now \div DayLength
                           /\ mention[i].state = "absent" => mention[i].day = Never
        BY <1>0, <1>2, <1>4, <1>5
    <2>3. QED BY <1>6, <1>7, <1>8, <1>9, <2>1, <2>2 DEF Meters
<1>11. Carries
    <2>1. Cardinality({}) = 0
        BY FS_EmptySet
    <2>2. QED BY <1>0, <1>8, <2>1 DEF Carries, NoAnswer
<1>12. QED BY <1>3, <1>8, <1>10, <1>11 DEF BudgetInv, OnACorpus

\* What stays with the rows, the clock and what is out.
LEMMA MetersStay ==
    ASSUME BudgetInv, UNCHANGED <<now, mention, answer, made, paid, deaths, orphans>>,
           pc' = "texts" => pc = "texts" /\ UNCHANGED <<budget, bill>>
    PROVE  Meters'
<1>1. mention \in [Items -> Mentions]
    BY MetersAre DEF BudgetInv
<1>2. CallsToday' = CallsToday /\ SpentToday' = SpentToday
    BY <1>1, MetersSame
<1>3. Waiting' = Waiting /\ Again' = Again
    BY DEF Waiting, Again, AgainOn, RowsOn
<1>4. Held(CallsToday', SpentToday', Waiting', answer'.cost, budget', bill', made', paid',
           Again', deaths', pc' = "texts")
    BY <1>2, <1>3 DEF BudgetInv, Meters, Held
<1>5. QED BY <1>4 DEF BudgetInv, Meters

\* A row is written by the pass: a call that was out, or none.
LEMMA RowKeepsMeters ==
    ASSUME BudgetInv, Once, NEW i \in texts, NEW state \in {"decided", "crowded"},
           NEW cost \in Prices \cup {0}, SaveMention(i, state, cost), now' = now,
           UNCHANGED <<pc, budget, bill, dayVars>>, answer' = NoAnswer,
           \/ state = "crowded" /\ cost = 0 /\ answer = NoAnswer
           \/ state = "decided" /\ answer.item = {i} /\ cost = answer.cost
    PROVE  Meters' /\ mention' \in [Items -> Mentions]
<1>1. /\ now \in Nat /\ now \div DayLength \in Nat /\ mention \in [Items -> Mentions]
      /\ CallsToday \in Nat /\ SpentToday \in Nat /\ Waiting \in Nat
      /\ answer.cost \in Nat /\ answer.cost <= Top /\ budget \in Nat /\ bill \in Nat
      /\ made \in Nat /\ paid \in Nat /\ Again \in Nat /\ deaths \in Nat
      /\ MaxCalls \in Nat /\ MaxSpend \in Nat /\ Top \in Nat /\ Batch \in Nat
      /\ {done, orphans, texts} \subseteq SUBSET Items
    BY MetersAre DEF BudgetInv
<1>2. PICK d \in Nat : d = now \div DayLength
    BY <1>1
<1>3. PICK m \in [Items -> Mentions] : m = mention
    BY <1>1
<1>4. PICK row \in Mentions : row = [state |-> state, day |-> d, cost |-> cost]
    <2>1. state \in {"absent", "decided", "crowded"} /\ d \in Int
        OBVIOUS
    <2>2. [state |-> state, day |-> d, cost |-> cost] \in Mentions
        BY <2>1, Zenon DEF Mentions
    <2>3. QED BY <2>2
<1>5. PICK n : n = [m EXCEPT ![i] = row]
    OBVIOUS
<1>6. mention' = n /\ orphans' = orphans \ {i}
    BY <1>2, <1>3, <1>4, <1>5 DEF SaveMention, Row
<1>7. row.day = d /\ row.state = state /\ row.cost = cost /\ i \in Items
    BY <1>1, <1>4
<1>8. m[i].day = d => i \in orphans
    <2>1. m[i].day = d => m[i].state # "absent"
        BY <1>2, <1>3, <1>7, RupertConstants DEF BudgetInv, Meters
    <2>2. QED BY <1>3, <1>7, <2>1 DEF Once
<1>9. n \in [Items -> Mentions] /\ RowMoves(m, n, i, row, d)
    BY <1>5, <1>7, AnotherRow
<1>10. /\ AgainOn(m, orphans, d) \in Nat
       /\ m[i].day = d => AgainOn(n, orphans \ {i}, d) = AgainOn(m, orphans, d) - 1
       /\ m[i].day # d => AgainOn(n, orphans \ {i}, d) = AgainOn(m, orphans, d)
    <2>1. PICK o : o = orphans
        OBVIOUS
    <2>2. row.day = d /\ i \in Items /\ DueAgain(m, o, i, d)
        BY <1>7, <1>8, <2>1 DEF DueAgain
    <2>3. FewerAgain(m, n, o, i, d)
        BY <1>5, <2>2, AgainMoves
    <2>4. QED BY <2>1, <2>3 DEF FewerAgain
<1>11. PICK c \in Nat, c2 \in Nat, e \in Nat, e2 \in Nat :
           c = CallsOn(m, d) /\ c2 = CallsOn(n, d) /\ e = SpentOn(m, d) /\ e2 = SpentOn(n, d)
    BY <1>9, RowsAre
<1>12. PICK a \in Nat, a2 \in Nat : a = AgainOn(m, orphans, d) /\ a2 = AgainOn(n, orphans \ {i}, d)
    <2>1. AgainOn(n, orphans \ {i}, d) \in Nat
        BY <1>9, AgainGrows, FS_EmptySet
    <2>2. QED BY <1>10, <2>1
<1>13. CallsToday = c /\ SpentToday = e /\ Again = a
    BY <1>1, <1>2, <1>3, <1>11, <1>12, Metered DEF Again
<1>14. CallsToday' = c2 /\ SpentToday' = e2 /\ Again' = a2
    BY <1>2, <1>6, <1>9, <1>11, <1>12, MeteredNext DEF Again
<1>15. PICK w \in Nat, k \in Nat, old \in Nat :
           w = Waiting /\ k = answer.cost /\ old = m[i].cost /\ old <= Top
    BY <1>1, <1>7, TopIs
<1>16. \/ state = "crowded" /\ cost = 0 /\ w = 0 /\ k = 0
       \/ state = "decided" /\ cost = k /\ w = 1
    BY <1>15 DEF Waiting, NoAnswer
<1>17. Waiting' = 0 /\ answer'.cost = 0
    BY DEF Waiting, NoAnswer
<1>18. Held(c, e, w, k, budget, bill, made, paid, a, deaths, pc = "texts")
    BY <1>13, <1>15 DEF BudgetInv, Meters
<1>19. /\ state = "crowded" => c2 <= c
       /\ c2 <= c + 1 /\ c2 + 1 >= c
       /\ state # "crowded" => c2 >= c
       /\ m[i].day # d => c2 >= c /\ e2 = e + cost /\ a2 = a
       /\ m[i].day # d /\ state # "crowded" => c2 = c + 1
       /\ m[i].day = d => e2 + old = e + cost /\ a2 = a - 1
    BY <1>7, <1>9, <1>10, <1>11, <1>12, <1>15 DEF RowMoves
<1>20. cost \in Nat
    BY <1>16
<1>21. c2 + 0 <= c + w /\ e2 + 0 <= e + k /\ a2 + c + w <= a + c2 + 0
    BY <1>16, <1>19, <1>20
<1>22. Top * a2 + e + k <= Top * a + e2 + 0
    <2>1. CASE m[i].day # d
        <3>1. Top * a \in Nat
            BY <1>1
        <3>2. e2 = e + k /\ a2 = a
            BY <1>16, <1>19, <2>1
        <3>3. QED BY <3>1, <3>2
    <2>2. CASE m[i].day = d
        <3>1. Top * (a - 1) = Top * a - Top /\ Top * a \in Nat
            BY <1>1
        <3>2. e2 + old = e + k /\ a2 = a - 1
            BY <1>16, <1>19, <2>2
        <3>3. PICK x \in Nat : x = Top * a
            BY <3>1
        <3>4. Top * a2 = x - Top
            BY <3>1, <3>2, <3>3
        <3>5. QED BY <1>1, <1>15, <3>2, <3>3, <3>4
    <2>3. QED BY <2>1, <2>2
<1>23. Held(c2, e2, 0, 0, budget, bill, made, paid, a2, deaths, pc = "texts")
    <2>1. PICK on : on = (pc = "texts")
        OBVIOUS
    <2>2. Held(c, e, w, k, budget, bill, made, paid, a, deaths, on)
        BY <1>18, <2>1
    <2>3. Held(c2, e2, 0, 0, budget, bill, made, paid, a2, deaths, on)
        <3>1. PICK b \in Nat, l \in Nat, q \in Nat, p \in Nat, g \in Nat, z \in Nat :
                  b = budget /\ l = bill /\ q = made /\ p = paid /\ g = deaths /\ z = 0
            BY <1>1
        <3>2. Held(c, e, w, k, b, l, q, p, a, g, on)
            BY <2>2, <3>1
        <3>3. Moves(c, e, w, k, a, c2, e2, z, z, a2)
            BY <1>21, <1>22, <3>1 DEF Moves
        <3>5. Held(c2, e2, z, z, b, l, q, p, a2, g, on)
            BY ZenonT(30), <3>2, <3>3, HeldMoves
        <3>6. QED BY <3>1, <3>5
    <2>4. QED BY <2>1, <2>3
<1>24. \A x \in Items : /\ mention'[x].day <= d
                        /\ mention'[x].state = "absent" => mention'[x].day = Never
    <2>1. \A x \in Items : m[x].day <= d /\ (m[x].state = "absent" => m[x].day = Never)
        BY <1>2, <1>3 DEF BudgetInv, Meters
    <2>2. QED BY <1>5, <1>6, <1>7, <2>1
<1>25. QED BY <1>2, <1>6, <1>9, <1>14, <1>17, <1>23, <1>24 DEF Meters, dayVars

\* A call is made when both of the day's budgets allow it.
LEMMA AskKeepsMeters ==
    ASSUME BudgetInv, NEW i \in Items, NEW cost \in Prices \cup {0}, Asks(i, cost)
    PROVE  Meters'
<1>1. /\ mention \in [Items -> Mentions]
      /\ CallsToday \in Nat /\ SpentToday \in Nat /\ budget \in Nat /\ bill \in Nat
      /\ made \in Nat /\ paid \in Nat /\ Again \in Nat /\ deaths \in Nat
    BY MetersAre DEF BudgetInv
<1>2. /\ UNCHANGED <<now, mention, pc, deaths, orphans>> /\ pc = "texts" /\ answer = NoAnswer
      /\ budget > 0 /\ bill < MaxSpend /\ answer' = [item |-> {i}, cost |-> cost]
      /\ budget' = budget - 1 /\ bill' = bill + cost /\ made' = made + 1 /\ paid' = paid + cost
    BY DEF Asks, Turns, On, rows
<1>3. CallsToday' = CallsToday /\ SpentToday' = SpentToday
    BY <1>1, <1>2, MetersSame
<1>4. Again' = Again
    BY <1>2 DEF Again, AgainOn, RowsOn
<1>5. Waiting = 0 /\ answer.cost = 0 /\ Waiting' = 1 /\ answer'.cost = cost
    BY <1>2 DEF Waiting, NoAnswer
<1>6. cost \in Nat /\ cost <= Top
    <2>1. PICK top \in Nat : top = Top /\ \A p \in Prices : p <= top
        BY DearestIs, RupertConstants DEF Top
    <2>2. QED BY <2>1, RupertConstants
<1>7. Held(CallsToday, SpentToday, 0, 0, budget, bill, made, paid, Again, deaths, TRUE)
    BY <1>2, <1>5 DEF BudgetInv, Meters
<1>8. Held(CallsToday, SpentToday, 1, cost, budget - 1, bill + cost, made + 1, paid + cost,
           Again, deaths, TRUE)
    BY <1>1, <1>2, <1>6, <1>7, HeldAsks
<1>9. (pc' = "texts") = TRUE
    BY <1>2
<1>10. QED BY <1>2, <1>3, <1>4, <1>5, <1>8, <1>9 DEF BudgetInv, Meters

\* A pass dies: the day loses the call that was out, and gains those that are due again.
LEMMA DeathKeepsMeters ==
    ASSUME BudgetInv, Dies
    PROVE  Meters'
<1>1. /\ mention \in [Items -> Mentions]
      /\ CallsToday \in Nat /\ SpentToday \in Nat /\ budget \in Nat /\ bill \in Nat
      /\ Waiting \in Nat /\ answer.cost \in Nat /\ answer.cost <= Top /\ Top \in Nat
      /\ made \in Nat /\ paid \in Nat /\ Again \in Nat /\ deaths \in Nat
      /\ {done, orphans, texts} \subseteq SUBSET Items
    BY MetersAre DEF BudgetInv
<1>2. /\ UNCHANGED <<now, mention, made, paid>> /\ pc' = "asleep" /\ answer' = NoAnswer
      /\ deaths' = deaths + 1 /\ orphans' = orphans \cup done
    BY DEF Dies, Idle, rows
<1>3. CallsToday' = CallsToday /\ SpentToday' = SpentToday
    BY <1>1, <1>2, MetersSame
<1>4. PICK n \in Nat, t \in Nat : n = Cardinality(done) /\ t = Cardinality(texts) /\ n + t <= Batch
    <2>1. Cardinality(done) \in Nat /\ Cardinality(texts) \in Nat
        BY <1>1, RupertConstants, FS_Subset, FS_CardinalityType
    <2>2. QED BY <2>1 DEF BudgetInv, Carries
<1>5. Again' \in Nat /\ Again' <= Again + n
    <2>0. PICK d \in Nat : d = now \div DayLength
        BY MetersAre DEF BudgetInv
    <2>1. PICK m \in [Items -> Mentions] : m = mention /\ d = now \div DayLength
        BY <1>1, <2>0
    <2>2. /\ AgainOn(m, orphans \cup done, d) \in Nat
          /\ AgainOn(m, orphans \cup done, d) <= AgainOn(m, orphans, d) + Cardinality(done)
        BY <1>1, AgainGrows
    <2>3. Again' = AgainOn(m, orphans \cup done, d) /\ Again = AgainOn(m, orphans, d)
        BY <1>2, <2>1 DEF Again
    <2>4. QED BY <1>4, <2>2, <2>3
<1>6. n + Waiting <= Batch
    <2>1. CASE answer.item = {}
        BY <1>1, <1>4, <2>1, RupertConstants DEF Waiting
    <2>2. CASE answer.item # {}
        <3>1. texts # {} /\ IsFiniteSet(texts)
            BY <1>1, <2>2, RupertConstants, FS_Subset DEF BudgetInv, Carries
        <3>2. t # 0
            BY <1>4, <3>1, FS_EmptySet
        <3>3. QED BY <1>4, <2>2, <3>2, RupertConstants DEF Waiting
    <2>3. QED BY <2>1, <2>2
<1>7. answer.cost <= Top * Waiting
    <2>1. CASE answer.item = {}
        <3>1. answer.cost = 0 /\ Waiting = 0
            BY <2>1 DEF BudgetInv, Carries, NoAnswer, Waiting
        <3>2. QED BY <1>1, <3>1
    <2>2. CASE answer.item # {}
        <3>1. Waiting = 1
            BY <2>2 DEF Waiting
        <3>2. QED BY <1>1, <3>1
    <2>3. QED BY <2>1, <2>2
<1>8. Held(CallsToday, SpentToday, Waiting, answer.cost, budget, bill, made, paid, Again,
           deaths, pc = "texts")
    BY DEF BudgetInv, Meters
<1>9. Held(CallsToday, SpentToday, 0, 0, budget', bill', made, paid, Again', deaths + 1, FALSE)
    <2>1. PICK a2 \in Nat : a2 = Again'
        BY <1>5
    <2>7. PICK b2, l2, on : b2 = budget' /\ l2 = bill' /\ on = (pc = "texts")
        OBVIOUS
    <2>2. PICK w \in Nat, k \in Nat, c \in Nat, e \in Nat, a \in Nat :
              w = Waiting /\ k = answer.cost /\ c = CallsToday /\ e = SpentToday /\ a = Again
        BY <1>1
    <2>3. Held(c, e, w, k, budget, bill, made, paid, a, deaths, on)
        BY <1>8, <2>7, <2>2
    <2>4. n + w <= Batch /\ k <= Top * w /\ a2 <= a + n
        BY <1>5, <1>6, <1>7, <2>1, <2>2
    <2>5. Held(c, e, 0, 0, b2, l2, made, paid, a2, deaths + 1, FALSE)
        BY <1>1, <2>3, <2>4, HeldDies
    <2>6. QED BY <2>1, <2>7, <2>2, <2>5
<1>10. Waiting' = 0 /\ answer'.cost = 0 /\ (pc' = "texts") = FALSE
    BY <1>2 DEF Waiting, NoAnswer
<1>11. QED BY <1>2, <1>3, <1>9, <1>10 DEF BudgetInv, Meters

\* The clock may pass midnight, and the meter is the new day's.
LEMMA TimeKeepsMeters ==
    ASSUME BudgetInv, TimePasses
    PROVE  Meters'
<1>1. /\ now \in Nat /\ mention \in [Items -> Mentions]
      /\ CallsToday \in Nat /\ SpentToday \in Nat /\ budget \in Nat /\ bill \in Nat
      /\ Waiting \in Nat /\ answer.cost \in Nat /\ answer.cost <= Top /\ Top \in Nat
      /\ made \in Nat /\ paid \in Nat /\ Again \in Nat /\ deaths \in Nat
      /\ DayLength \in Nat \ {0}
    BY MetersAre, RupertConstants DEF BudgetInv
<1>2. now' = now + 1 /\ UNCHANGED <<mention, pc, budget, bill, answer, orphans>>
    BY DEF TimePasses, rows, passVars
<1>3. PICK d \in Nat, e \in Nat : d = now \div DayLength /\ e = now' \div DayLength /\ d <= e
    BY <1>1, <1>2, DaysGoOn
<1>4. \A i \in Items : /\ mention[i].day \in Int /\ mention[i].day <= d
                       /\ mention[i].state = "absent" => mention[i].day = Never
    BY <1>1, <1>3 DEF BudgetInv, Meters, Mentions
<1>5. Waiting' = Waiting
    BY <1>2 DEF Waiting
<1>6. Held(CallsToday, SpentToday, Waiting, answer.cost, budget, bill, made, paid, Again,
           deaths, pc = "texts")
    BY DEF BudgetInv, Meters
<1>7. CASE d = e
    <2>1. CallsToday' = CallsToday /\ SpentToday' = SpentToday
        BY <1>1, <1>2, <1>3, <1>7, MetersSame
    <2>2. Again' = Again
        BY <1>2, <1>3, <1>7 DEF Again, AgainOn, RowsOn
    <2>3. UNCHANGED <<made, paid, deaths>>
        BY <1>2, <1>3, <1>7 DEF TimePasses, dayVars
    <2>4. Held(CallsToday', SpentToday', Waiting', answer'.cost, budget', bill', made', paid',
               Again', deaths', pc' = "texts")
        BY <1>2, <1>5, <1>6, <2>1, <2>2, <2>3
    <2>5. QED BY <1>2, <1>3, <1>4, <1>7, <2>4 DEF Meters
<1>8. CASE d # e
    <2>1. \A i \in Items : mention[i].day < e
        BY <1>3, <1>4, <1>8
    <2>2. PICK m \in [Items -> Mentions] : m = mention
        BY <1>1
    <2>3. CallsOn(m, e) = 0 /\ SpentOn(m, e) = 0
        BY <2>1, <2>2, NewDay
    <2>4. CallsToday' = 0 /\ SpentToday' = 0
        BY <1>1, <1>2, <1>3, <2>2, <2>3, MeteredNext
    <2>5. Again' = 0
        <3>1. orphans \cap RowsOn(m, e) = {}
            BY <2>1, <2>2 DEF RowsOn, Mentions
        <3>2. Again' = Cardinality(orphans \cap RowsOn(m, e))
            BY <1>2, <1>3, <2>2 DEF Again, AgainOn, RowsOn
        <3>3. QED BY <3>1, <3>2, FS_EmptySet
    <2>6. made' = 0 /\ paid' = 0 /\ deaths' = 0
        BY <1>2, <1>3, <1>8 DEF TimePasses
    <2>7. Held(0, 0, Waiting, answer.cost, budget, bill, 0, 0, 0, 0, pc = "texts")
        <3>1. PICK on \in BOOLEAN : on = (pc = "texts")
            OBVIOUS
        <3>2. PICK w \in Nat, k \in Nat, c \in Nat, f \in Nat, a \in Nat :
                  w = Waiting /\ k = answer.cost /\ c = CallsToday /\ f = SpentToday /\ a = Again
            BY <1>1
        <3>3. Held(c, f, w, k, budget, bill, made, paid, a, deaths, on)
            BY <1>6, <3>1, <3>2
        <3>4. Held(0, 0, w, k, budget, bill, 0, 0, 0, 0, on)
            BY <1>1, <3>2, <3>3, HeldAtMidnight
        <3>5. QED BY <3>1, <3>2, <3>4
    <2>8. \A i \in Items : /\ mention'[i].day <= e
                           /\ mention'[i].state = "absent" => mention'[i].day = Never
        BY <1>2, <1>3, <1>4
    <2>9. Held(CallsToday', SpentToday', Waiting', answer'.cost, budget', bill', made', paid',
               Again', deaths', pc' = "texts")
        BY <1>2, <1>5, <2>4, <2>5, <2>6, <2>7
    <2>10. QED BY <1>3, <2>8, <2>9 DEF Meters
<1>9. QED BY <1>7, <1>8

\* A corpus is opened with what the day has left.
LEMMA BeginKeepsMeters ==
    ASSUME BudgetInv, Marked, Begin
    PROVE  /\ Meters'
           /\ pc' = "texts" => budget' \in 0 .. MaxCalls /\ bill' \in Nat
<1>1. /\ mention \in [Items -> Mentions] /\ CallsToday \in Nat /\ SpentToday \in Nat
      /\ MaxCalls \in Nat /\ answer.cost \in Nat
    BY MetersAre DEF BudgetInv
<1>2. UNCHANGED <<now, mention, answer, made, paid, deaths, orphans>> /\ pc = "corpus"
    BY DEF Begin, ghosts, dayVars
<1>3. CASE pc' = "texts"
    <2>1. budget' = MaxCalls - CallsToday /\ bill' = SpentToday
        BY <1>2, <1>3 DEF Begin, BudgetLeft, BilledBefore
    <2>2. CallsToday' = CallsToday /\ SpentToday' = SpentToday
        BY <1>1, <1>2, MetersSame
    <2>3. Waiting' = Waiting /\ Again' = Again
        BY <1>2 DEF Waiting, Again, AgainOn, RowsOn
    <2>4. Waiting = 0 /\ answer.cost = 0
        BY <1>2 DEF BudgetInv, Carries, Marked, Waiting, NoAnswer
    <2>5. Held(CallsToday, SpentToday, 0, 0, budget, bill, made, paid, Again, deaths, FALSE)
        BY <1>2, <2>4 DEF BudgetInv, Meters
    <2>6. /\ CallsToday + 0 + (MaxCalls - CallsToday) <= MaxCalls /\ SpentToday + 0 <= SpentToday
          /\ MaxCalls - CallsToday \in 0 .. MaxCalls
        <3>1. CallsToday + 0 <= MaxCalls
            BY <2>5 DEF Held
        <3>2. QED BY <1>1, <3>1
    <2>7. Held(CallsToday, SpentToday, 0, 0, budget', bill', made, paid, Again, deaths, TRUE)
        BY <2>1, <2>5, <2>6 DEF Held
    <2>8. (pc' = "texts") = TRUE
        BY <1>3
    <2>9. QED BY <1>1, <1>2, <2>1, <2>2, <2>3, <2>4, <2>6, <2>7, <2>8 DEF BudgetInv, Meters
<1>4. CASE pc' # "texts"
    BY <1>2, <1>4, MetersStay
<1>5. QED BY <1>3, <1>4

\* Of what is unread, a batch and no more is read.
LEMMA BatchesAre ==
    ASSUME NEW U \in SUBSET Items, NEW S \in Batches(U)
    PROVE  S \subseteq Items /\ IsFiniteSet(S) /\ Cardinality(S) \in Nat /\ Cardinality(S) <= Batch
<1>1. S \subseteq U /\ Cardinality(S) = Min({Batch, Cardinality(U)})
    BY DEF Batches
<1>2. IsFiniteSet(S) /\ IsFiniteSet(U)
    BY <1>1, RupertConstants, FS_Subset
<1>3. PICK u \in Nat, b \in Nat : u = Cardinality(U) /\ b = Batch
    BY <1>2, FS_CardinalityType, RupertConstants
<1>4. Min({b, u}) <= b
    <2>1. Min({b, u}) = CHOOSE x \in {b, u} : \A y \in {b, u} : x <= y
        BY DEF Min
    <2>2. \E x \in {b, u} : \A y \in {b, u} : x <= y
        OBVIOUS
    <2>3. QED BY <2>1, <2>2
<1>5. QED BY <1>1, <1>2, <1>3, <1>4, FS_CardinalityType

\* A mark is a number.
LEMMA MarkIs ==
    ASSUME TypeOK, NEW c \in Names
    PROVE  Mark(c) \in Int /\ (progress[c] = Never => Mark(c) > Never)
<1>1. moment \in Nat /\ progress[c] \in Int
    BY RupertConstants DEF TypeOK
<1>2. QED BY <1>1, RupertConstants DEF Mark

\* One text less is left, and one more written, or none.
LEMMA OneLess ==
    ASSUME TypeOK, Carries, NEW i \in texts
    PROVE  /\ Cardinality(done) + Cardinality(texts \ {i}) <= Batch
           /\ Cardinality(done \cup {i}) + Cardinality(texts \ {i}) <= Batch
<1>1. IsFiniteSet(done) /\ IsFiniteSet(texts)
    BY RupertConstants, FS_Subset DEF TypeOK
<1>2. i \notin done
    BY DEF Carries
<1>3. PICK n \in Nat, t \in Nat : n = Cardinality(done) /\ t = Cardinality(texts) /\ n + t <= Batch
    BY <1>1, FS_CardinalityType DEF Carries
<1>4. Cardinality(texts \ {i}) = t - 1
    BY <1>1, <1>3, FS_RemoveElement
<1>5. Cardinality(done \cup {i}) = n + 1
    BY <1>1, <1>2, <1>3, FS_AddElement
<1>6. Batch \in Nat
    BY RupertConstants
<1>7. QED BY <1>3, <1>4, <1>5, <1>6

\* Nothing is left, and what was written stands.
LEMMA NoneLeft ==
    ASSUME TypeOK, Carries
    PROVE  Cardinality(done) + Cardinality({}) <= Batch /\ Cardinality({}) + Cardinality({}) <= Batch
<1>1. IsFiniteSet(done) /\ IsFiniteSet(texts)
    BY RupertConstants, FS_Subset DEF TypeOK
<1>2. PICK n \in Nat, t \in Nat : n = Cardinality(done) /\ t = Cardinality(texts) /\ n + t <= Batch
    BY <1>1, FS_CardinalityType DEF Carries
<1>3. Cardinality({}) = 0
    BY FS_EmptySet
<1>4. Batch \in Nat
    BY RupertConstants
<1>5. QED BY <1>2, <1>3, <1>4

\* Every row is of a decided or a crowded text, and every mark a number.
LEMMA BudgetStep == BudgetInv /\ Marked /\ Once /\ [Next]_vars => BudgetInv'
<1> SUFFICES ASSUME BudgetInv, Marked, Once, [Next]_vars PROVE BudgetInv'
    OBVIOUS
<1>0. /\ now \in 0 .. Horizon /\ at \in [Items -> 0 .. Horizon \cup {Never}]
      /\ names \in [Items -> Finds] /\ progress \in [Names -> Int] /\ since \in [Names -> Int]
      /\ mention \in [Items -> Mentions] /\ paused \in BOOLEAN
      /\ pc \in {"asleep", "corpus", "texts", "mark"} /\ moment \in 0 .. Horizon
      /\ todo \in Seq(Names) /\ texts \subseteq Items /\ reached \in Int
      /\ budget \in 0 .. MaxCalls /\ bill \in Nat /\ faults \in 0 .. MaxFaults
    BY DEF BudgetInv, TypeOK, Mentions
<1>g. /\ answer \in [item : SUBSET Items, cost : Prices \cup {0}]
      /\ made \in Nat /\ paid \in Nat /\ deaths \in Nat
      /\ done \subseteq Items /\ orphans \subseteq Items
    BY DEF BudgetInv, TypeOK
<1>h. NoAnswer \in [item : SUBSET Items, cost : Prices \cup {0}]
    BY DEF NoAnswer
<1>a. /\ 0 \in 0 .. Horizon /\ 0 \in 0 .. MaxCalls /\ Never \in Int /\ MaxCalls \in Nat
      /\ MaxFaults \in Nat /\ Horizon \in Nat /\ Corpora \in Seq(Names)
    BY RupertConstants
<1>b. Horizon \in Nat /\ \A i \in Items : at[i] \in Int
    BY <1>0, <1>a
<1>t. TypeOK /\ Carries
    BY DEF BudgetInv
<1>n. pc # "texts" => texts = {} /\ answer = NoAnswer
    BY DEF Marked, BudgetInv, Carries
<1>1. CASE TimePasses
    <2>1. now' \in 0 .. Horizon
        BY <1>0, <1>1, <1>a DEF TimePasses
    <2>2. UNCHANGED <<at, names, progress, since, mention, paused, pc, moment, todo, texts,
                      reached, budget, bill, answer, done, orphans, faults>>
        BY <1>1 DEF TimePasses, corpusVars, rows, passVars
    <2>3. {made', paid', deaths'} \subseteq Nat
        BY <1>g, <1>1 DEF TimePasses, dayVars
    <2>4. TypeOK'
        BY <2>1, <2>2, <2>3 DEF BudgetInv, TypeOK
    <2>5. OnACorpus' /\ Carries'
        BY <2>2 DEF BudgetInv, OnACorpus, Carries
    <2>6. QED BY <1>1, <2>4, <2>5, TimeKeepsMeters DEF BudgetInv
<1>2. ASSUME NEW i \in Items, NEW t \in 0 .. now, NEW what \in Finds, Arrives(i, t, what)
      PROVE  BudgetInv'
    <2>1. /\ UNCHANGED <<now, progress, since, mention, paused, pc, moment, todo, texts,
                         reached, budget, bill, answer, made, paid, deaths, done, orphans, faults>>
          /\ at' = [at EXCEPT ![i] = t] /\ names' = [names EXCEPT ![i] = what]
        BY <1>2 DEF Arrives, rows, passVars, ghosts, dayVars
    <2>2. t \in 0 .. Horizon
        BY <1>0, <1>a
    <2>3. at' \in [Items -> 0 .. Horizon \cup {Never}] /\ names' \in [Items -> Finds]
        BY <1>0, <2>1, <2>2
    <2>4. Meters'
        BY <2>1, MetersStay
    <2>5. QED BY <2>1, <2>3, <2>4 DEF BudgetInv, TypeOK, OnACorpus, Carries
<1>3. CASE SetPaused
    <2>1. /\ UNCHANGED <<now, at, names, progress, since, mention, pc, moment, todo, texts,
                         reached, budget, bill, answer, made, paid, deaths, done, orphans, faults>>
          /\ paused' \in BOOLEAN
        BY <1>0, <1>3 DEF SetPaused, rows, passVars, corpusVars, ghosts, dayVars
    <2>2. QED BY <2>1, MetersStay DEF BudgetInv, TypeOK, OnACorpus, Carries
<1>4. CASE Wake
    <2>1. /\ UNCHANGED <<now, at, names, progress, since, mention, paused, texts,
                         reached, budget, bill, answer, made, paid, deaths, done, orphans, faults>>
          /\ pc' = "corpus" /\ pc = "asleep" /\ moment' = now /\ todo' = Corpora
        BY <1>4 DEF Wake, rows, corpusVars, ghosts, dayVars
    <2>2. Meters'
        BY <2>1, MetersStay
    <2>3. TypeOK'
        BY <1>0, <1>a, <2>1 DEF BudgetInv, TypeOK
    <2>4. OnACorpus' /\ Carries'
        BY <2>1 DEF OnACorpus, BudgetInv, Carries
    <2>5. QED BY <2>2, <2>3, <2>4 DEF BudgetInv
<1>5. CASE Begin
    <2>1. /\ UNCHANGED <<now, at, names, mention, paused, moment, answer, made, paid, deaths,
                         done, orphans, faults>>
          /\ todo # <<>> /\ pc = "corpus"
        BY <1>5 DEF Begin, corpusVars, ghosts, dayVars
    <2>2. PICK c \in Names : c = Head(todo)
        BY <1>0, <2>1
    <2>3. Mark(c) \in Int
        BY <2>2, MarkIs DEF BudgetInv
    <2>4. /\ progress' = [progress EXCEPT ![c] = Mark(c)]
          /\ since' = [since EXCEPT ![c] = IF since[c] = Never THEN Mark(c) ELSE since[c]]
        BY <1>5, <2>2 DEF Begin, RecordMark
    <2>5. progress' \in [Names -> Int] /\ since' \in [Names -> Int]
        BY <1>0, <2>3, <2>4
    <2>6. \/ todo' = Tail(todo) /\ UNCHANGED <<pc, texts, reached, budget, bill>>
          \/ /\ texts' \in Batches(Unread(c, Mark(c))) /\ reached' = Mark(c)
             /\ pc' = "texts" /\ UNCHANGED todo
        BY <1>5, <2>2 DEF Begin
    <2>7. /\ Meters'
          /\ pc' = "texts" => budget' \in 0 .. MaxCalls /\ bill' \in Nat
        BY <1>5, BeginKeepsMeters
    <2>8. todo' \in Seq(Names) /\ OnACorpus'
        <3>1. Tail(todo) \in Seq(Names)
            BY <1>0, <2>1
        <3>2. QED BY <1>0, <2>1, <2>6, <3>1 DEF OnACorpus
    <2>9. texts' \subseteq Items /\ pc' \in {"asleep", "corpus", "texts", "mark"}
          /\ reached' \in Int
        BY <1>0, <2>3, <2>6 DEF Batches, Unread
    <2>10. budget' \in 0 .. MaxCalls /\ bill' \in Nat
        BY <1>0, <2>6, <2>7
    <2>11. TypeOK'
        BY <1>0, <1>g, <2>1, <2>5, <2>8, <2>9, <2>10 DEF TypeOK, Mentions
    <2>12. Carries'
        <3>1. done = {} /\ answer = NoAnswer
            BY <1>n, <2>1 DEF BudgetInv, Carries
        <3>2. Cardinality({}) = 0 /\ Batch \in Nat
            BY FS_EmptySet, RupertConstants
        <3>3. Cardinality({}) + Cardinality(texts') <= Batch
            <4>1. CASE texts' = texts
                BY <3>1, <4>1 DEF BudgetInv, Carries
            <4>2. CASE texts' \in Batches(Unread(c, Mark(c)))
                <5>1. Unread(c, Mark(c)) \in SUBSET Items
                    BY DEF Unread
                <5>2. Cardinality(texts') \in Nat /\ Cardinality(texts') <= Batch
                    BY <4>2, <5>1, BatchesAre
                <5>3. QED BY <3>2, <5>2
            <4>3. QED BY <2>6, <4>1, <4>2
        <3>4. QED BY <2>1, <3>1, <3>3 DEF Carries, NoAnswer
    <2>13. QED BY <2>7, <2>8, <2>11, <2>12 DEF BudgetInv
<1>6. ASSUME NEW i \in Items, NamesNothing(i)
      PROVE  BudgetInv'
    <2>1. /\ UNCHANGED <<now, at, names, progress, since, mention, paused, pc, moment, todo,
                         budget, bill, answer, made, paid, deaths, done, orphans, faults>>
          /\ texts' = texts \ {i} /\ reached' = at[i] /\ i \in texts /\ answer = NoAnswer
          /\ pc = "texts"
        BY <1>6 DEF NamesNothing, Turns, On, Past, rows, corpusVars, ghosts, dayVars
    <2>2. Meters'
        BY <2>1, MetersStay
    <2>3. Carries'
        <3>1. Cardinality(done) + Cardinality(texts \ {i}) <= Batch
            BY <1>t, <2>1, OneLess
        <3>2. QED BY <1>t, <2>1, <3>1 DEF Carries, NoAnswer
    <2>4. TypeOK' /\ OnACorpus'
        BY <1>0, <1>b, <2>1 DEF BudgetInv, TypeOK, OnACorpus
    <2>5. QED BY <2>2, <2>3, <2>4 DEF BudgetInv
<1>7. ASSUME NEW i \in Items, NEW state \in {"decided", "crowded"}, NEW cost \in Prices \cup {0},
             UNCHANGED <<now, at, names, progress, since, paused, pc, moment, todo,
                         budget, bill, dayVars, faults>>,
             texts' = texts \ {i}, reached' = at[i], pc = "texts", i \in texts,
             SaveMention(i, state, cost), answer' = NoAnswer,
             \/ state = "crowded" /\ cost = 0 /\ answer = NoAnswer
             \/ state = "decided" /\ answer.item = {i} /\ cost = answer.cost
      PROVE  BudgetInv'
    <2>1. Meters' /\ mention' \in [Items -> Mentions]
        <3>1. UNCHANGED <<pc, budget, bill, dayVars>> /\ now' = now
            BY <1>7
        <3>2. QED BY <1>7, <3>1, RowKeepsMeters
    <2>2. done' = done \cup {i} /\ orphans' = orphans \ {i}
        BY <1>7 DEF SaveMention
    <2>3. Carries'
        <3>1. Cardinality(done \cup {i}) + Cardinality(texts \ {i}) <= Batch
            BY <1>t, <1>7, OneLess
        <3>2. QED BY <1>t, <1>7, <2>2, <3>1 DEF Carries, NoAnswer
    <2>4. TypeOK'
        BY <1>0, <1>b, <1>g, <1>h, <1>7, <2>1, <2>2 DEF TypeOK, Mentions, dayVars
    <2>5. OnACorpus'
        BY <1>7 DEF BudgetInv, OnACorpus
    <2>6. QED BY <2>1, <2>3, <2>4, <2>5 DEF BudgetInv
<1>8. ASSUME NEW i \in Items, NamesACrowd(i)
      PROVE  BudgetInv'
    <2>1. /\ UNCHANGED <<now, at, names, progress, since, paused, pc, moment, todo,
                         budget, bill, dayVars, faults>>
          /\ texts' = texts \ {i} /\ reached' = at[i] /\ pc = "texts" /\ i \in texts
          /\ SaveMention(i, "crowded", 0) /\ answer' = NoAnswer /\ answer = NoAnswer
        BY <1>8 DEF NamesACrowd, Past, Turns, On, corpusVars
    <2>2. QED BY <1>7, <2>1
<1>9. ASSUME NEW i \in Items, Settles(i)
      PROVE  BudgetInv'
    <2>1. /\ UNCHANGED <<now, at, names, progress, since, paused, pc, moment, todo,
                         budget, bill, dayVars, faults>>
          /\ texts' = texts \ {i} /\ reached' = at[i] /\ pc = "texts" /\ i \in texts
          /\ SaveMention(i, "decided", answer.cost) /\ answer' = NoAnswer /\ answer.item = {i}
        BY <1>9 DEF Settles, Past, On, corpusVars
    <2>2. answer.cost \in Prices \cup {0}
        BY <1>g
    <2>3. QED BY <1>7, <2>1, <2>2
<1>10. ASSUME NEW i \in Items, Stops(i)
       PROVE  BudgetInv'
    <2>1. /\ UNCHANGED <<now, at, names, progress, since, mention, paused, moment, todo,
                         reached, budget, bill, answer, made, paid, deaths, done, orphans, faults>>
          /\ texts' = {} /\ pc' = "mark" /\ pc = "texts" /\ answer = NoAnswer
        BY <1>10 DEF Stops, Turns, On, rows, corpusVars, ghosts, dayVars
    <2>2. Meters'
        BY <2>1, MetersStay
    <2>3. Carries'
        BY <1>t, <2>1, NoneLeft DEF Carries, NoAnswer
    <2>4. TypeOK' /\ OnACorpus'
        BY <1>0, <2>1 DEF BudgetInv, TypeOK, OnACorpus
    <2>5. QED BY <2>2, <2>3, <2>4 DEF BudgetInv
<1>11. ASSUME NEW i \in Items, NEW cost \in Prices \cup {0}, Asks(i, cost)
       PROVE  BudgetInv'
    <2>1. /\ UNCHANGED <<now, at, names, progress, since, mention, paused, pc, moment, todo,
                         texts, reached, deaths, done, orphans, faults>>
          /\ pc = "texts" /\ i \in texts /\ budget > 0
          /\ answer' = [item |-> {i}, cost |-> cost]
          /\ budget' = budget - 1 /\ bill' = bill + cost /\ made' = made + 1
          /\ paid' = paid + cost
        BY <1>11 DEF Asks, Turns, On, corpusVars, rows
    <2>2. Meters'
        BY <1>11, AskKeepsMeters
    <2>3. cost \in Nat
        BY RupertConstants
    <2>4. budget' \in 0 .. MaxCalls /\ bill' \in Nat /\ {made', paid'} \subseteq Nat
        BY <1>0, <1>a, <1>g, <2>1, <2>3
    <2>5. answer' \in [item : SUBSET Items, cost : Prices \cup {0}]
        BY <2>1
    <2>6. TypeOK'
        BY <2>1, <2>4, <2>5 DEF BudgetInv, TypeOK
    <2>7. Carries' /\ OnACorpus'
        BY <2>1 DEF BudgetInv, Carries, OnACorpus
    <2>8. QED BY <2>2, <2>6, <2>7 DEF BudgetInv
<1>12. CASE AllDecided
    <2>1. /\ UNCHANGED <<now, at, names, progress, since, mention, paused, moment, todo, texts,
                         reached, budget, bill, answer, made, paid, deaths, done, orphans, faults>>
          /\ pc' = "mark" /\ pc = "texts"
        BY <1>12 DEF AllDecided, rows, corpusVars, passVars, ghosts, dayVars
    <2>2. Meters'
        BY <2>1, MetersStay
    <2>3. QED BY <2>1, <2>2 DEF BudgetInv, TypeOK, OnACorpus, Carries
<1>13. CASE Advance
    <2>1. /\ UNCHANGED <<now, at, names, since, mention, paused, moment, texts, answer, made, paid,
                         deaths, orphans, faults>>
          /\ progress' = [progress EXCEPT ![Head(todo)] = Max({progress[Head(todo)], reached})]
          /\ todo' = Tail(todo) /\ pc' = "corpus" /\ pc = "mark" /\ reached' = Never
          /\ budget' = 0 /\ bill' = 0 /\ done' = {}
        BY <1>13 DEF Advance, corpusVars, dayVars
    <2>2. todo # <<>>
        BY <1>13 DEF Advance, BudgetInv, OnACorpus
    <2>3. PICK c \in Names : c = Head(todo)
        BY <1>0, <2>2
    <2>4. Max({progress[c], reached}) \in Int
        <3>1. PICK a \in Int, b \in Int : a = progress[c] /\ b = reached
            BY <1>0
        <3>2. Max({a, b}) \in Int
            BY MaxOfTwo
        <3>3. QED BY <3>1, <3>2
    <2>5. progress' \in [Names -> Int]
        BY <1>0, <2>1, <2>3, <2>4
    <2>6. Tail(todo) \in Seq(Names)
        BY <1>0, <2>2
    <2>7. Meters'
        BY <2>1, MetersStay
    <2>8. TypeOK' /\ OnACorpus'
        BY <1>0, <1>a, <1>g, <2>1, <2>5, <2>6 DEF TypeOK, Mentions, OnACorpus
    <2>9. Carries'
        BY <1>n, <1>t, <2>1, NoneLeft DEF Carries, NoAnswer
    <2>10. QED BY <2>7, <2>8, <2>9 DEF BudgetInv
<1>14. CASE Sleep
    <2>1. /\ UNCHANGED <<now, at, names, progress, since, mention, paused, made, paid, deaths,
                         done, orphans, faults>>
          /\ pc' = "asleep" /\ moment' = 0 /\ todo' = <<>> /\ texts' = {} /\ pc = "corpus"
          /\ reached' = Never /\ budget' = 0 /\ bill' = 0 /\ answer' = NoAnswer
        BY <1>14 DEF Sleep, Idle, rows, corpusVars, ghosts, dayVars
    <2>2. answer' = answer
        BY <1>n, <2>1
    <2>3. Meters'
        BY <2>1, <2>2, MetersStay
    <2>4. TypeOK' /\ OnACorpus'
        BY <1>0, <1>a, <1>g, <1>h, <2>1 DEF TypeOK, Mentions, OnACorpus
    <2>5. Carries'
        BY <1>t, <2>1, NoneLeft DEF Carries, NoAnswer
    <2>6. QED BY <2>3, <2>4, <2>5 DEF BudgetInv
<1>15. CASE Dies
    <2>1. /\ UNCHANGED <<now, at, names, progress, since, mention, paused, made, paid>>
          /\ pc' = "asleep" /\ moment' = 0 /\ todo' = <<>> /\ texts' = {}
          /\ reached' = Never /\ budget' = 0 /\ bill' = 0 /\ answer' = NoAnswer
          /\ faults < MaxFaults /\ faults' = faults + 1 /\ deaths' = deaths + 1
          /\ done' = {} /\ orphans' = orphans \cup done
        BY <1>15 DEF Dies, Idle, rows, corpusVars
    <2>2. faults' \in 0 .. MaxFaults
        BY <1>0, <1>a, <2>1
    <2>3. Meters'
        BY <1>15, DeathKeepsMeters
    <2>4. TypeOK' /\ OnACorpus'
        <3>1. orphans' \subseteq Items /\ done' \subseteq Items /\ deaths' \in Nat
            BY <1>g, <2>1
        <3>2. QED BY <1>0, <1>a, <1>g, <1>h, <2>1, <2>2, <3>1 DEF TypeOK, Mentions, OnACorpus
    <2>5. Carries'
        BY <1>t, <2>1, NoneLeft DEF Carries, NoAnswer
    <2>6. QED BY <2>3, <2>4, <2>5 DEF BudgetInv
<1>16. CASE UNCHANGED vars
    <2>1. UNCHANGED <<now, at, names, progress, since, mention, paused, pc, moment, todo, texts,
                      reached, budget, bill, answer, made, paid, deaths, done, orphans, faults>>
        BY <1>16 DEF vars, rows, corpusVars, passVars, ghosts, dayVars
    <2>2. Meters'
        BY <2>1, MetersStay
    <2>3. QED BY <2>1, <2>2 DEF BudgetInv, TypeOK, OnACorpus, Carries
<1>17. QED BY <1>1, <1>2, <1>3, <1>4, <1>5, <1>6, <1>8, <1>9, <1>10, <1>11, <1>12,
              <1>13, <1>14, <1>15, <1>16 DEF Next

-----------------------------------------------------------------------------
(* The marks.  Eight things a step does to them, and to what a pass holds. *)

Leaves ==
    UNCHANGED <<at, names, progress, since, mention, pc, todo, texts, reached, done, orphans>>

Comes(i) ==
    \E t \in 0 .. now, what \in Finds :
        /\ Arrives(i, t, what)

Passes(i) ==
    /\ On(i)
    /\ texts' = texts \ {i} /\ reached' = at[i]
    /\ \/ names[i] = "nothing" /\ UNCHANGED <<mention, done, orphans>>
       \/ /\ \E row : row.state # "absent" /\ mention' = [mention EXCEPT ![i] = row]
          /\ done' = done \cup {i} /\ orphans' = orphans \ {i}
    /\ UNCHANGED <<at, names, progress, since, pc, todo>>

Halts ==
    /\ pc = "texts" /\ pc' = "mark" /\ texts' = {}
    /\ UNCHANGED <<at, names, progress, since, mention, todo, reached, done, orphans>>

Rests ==
    /\ pc' = "asleep" /\ texts' = {} /\ reached' = Never
    /\ \/ pc = "corpus" /\ UNCHANGED <<done, orphans>>
       \/ done' = {} /\ orphans' = orphans \cup done
    /\ UNCHANGED <<at, names, progress, since, mention>>

\* Every step is of one of these kinds, as far as rows and marks go.
LEMMA StepsAre ==
    ASSUME [Next]_vars
    PROVE  \/ Leaves \/ Wake \/ Begin \/ Halts \/ Advance \/ Rests
           \/ \E i \in Items : Comes(i) \/ Passes(i)
<1>1. CASE TimePasses
    BY <1>1 DEF TimePasses, Leaves, corpusVars, rows, passVars
<1>2. ASSUME NEW i \in Items, NEW t \in 0 .. now, NEW what \in Finds, Arrives(i, t, what)
      PROVE  Comes(i)
    BY <1>2 DEF Comes
<1>3. CASE SetPaused
    BY <1>3 DEF SetPaused, Leaves, corpusVars, rows, passVars, ghosts
<1>4. ASSUME NEW i \in Items, NamesNothing(i)
      PROVE  Passes(i)
    BY <1>4 DEF NamesNothing, Turns, Passes, Past, corpusVars, rows, ghosts
<1>5. ASSUME NEW i \in Items, NamesACrowd(i)
      PROVE  Passes(i)
    <2>1. /\ mention' = [mention EXCEPT ![i] = Row("crowded", 0)]
          /\ done' = done \cup {i} /\ orphans' = orphans \ {i}
        BY <1>5 DEF NamesACrowd, SaveMention
    <2>2. Row("crowded", 0).state # "absent"
        BY DEF Row
    <2>3. /\ On(i) /\ texts' = texts \ {i} /\ reached' = at[i]
          /\ UNCHANGED <<at, names, progress, since, pc, todo>>
        BY <1>5 DEF NamesACrowd, Turns, Past, corpusVars
    <2>4. QED BY <2>1, <2>2, <2>3 DEF Passes
<1>6. ASSUME NEW i \in Items, Stops(i)
      PROVE  Halts
    BY <1>6 DEF Stops, Turns, On, Halts, corpusVars, rows, ghosts
<1>7. ASSUME NEW i \in Items, Settles(i)
      PROVE  Passes(i)
    <2>1. /\ mention' = [mention EXCEPT ![i] = Row("decided", answer.cost)]
          /\ done' = done \cup {i} /\ orphans' = orphans \ {i}
        BY <1>7 DEF Settles, SaveMention
    <2>2. Row("decided", answer.cost).state # "absent"
        BY DEF Row
    <2>3. /\ On(i) /\ texts' = texts \ {i} /\ reached' = at[i]
          /\ UNCHANGED <<at, names, progress, since, pc, todo>>
        BY <1>7 DEF Settles, Past, corpusVars
    <2>4. QED BY <2>1, <2>2, <2>3 DEF Passes
<1>8. ASSUME NEW i \in Items, NEW cost \in Prices \cup {0}, Asks(i, cost)
      PROVE  Leaves
    BY <1>8 DEF Asks, Leaves, corpusVars, rows
<1>9. CASE AllDecided
    BY <1>9 DEF AllDecided, Halts, corpusVars, rows, passVars, ghosts
<1>10. CASE Sleep
    BY <1>10 DEF Sleep, Idle, Rests, corpusVars, rows, ghosts
<1>11. CASE Dies
    BY <1>11 DEF Dies, Idle, Rests, corpusVars, rows
<1>12. CASE UNCHANGED vars
    BY <1>12 DEF vars, Leaves, corpusVars, rows, passVars, ghosts
<1>13. QED BY <1>1, <1>2, <1>3, <1>4, <1>5, <1>6, <1>7, <1>8, <1>9, <1>10, <1>11, <1>12 DEF Next

\* What the invariant says of the values in hand.
LEMMA ValuesAre ==
    ASSUME BudgetInv
    PROVE  /\ \A i \in Items : at[i] \in Int /\ CorpusOf[i] \in Names
           /\ \A c \in Names : progress[c] \in Int /\ since[c] \in Int
           /\ reached \in Int /\ texts \subseteq Items
           /\ pc \in {"texts", "mark"} => Head(todo) \in Names
           /\ mention \in [Items -> Mentions]
           /\ Never \in Int /\ Never < 0
<1>1. /\ at \in [Items -> 0 .. Horizon \cup {Never}] /\ progress \in [Names -> Int]
      /\ since \in [Names -> Int] /\ reached \in Int /\ faults \in 0 .. MaxFaults
      /\ texts \subseteq Items /\ todo \in Seq(Names) /\ mention \in [Items -> Mentions]
    BY DEF BudgetInv, TypeOK, Mentions
<1>2. /\ Horizon \in Nat /\ MaxFaults \in Nat /\ Never \in Int /\ Never < 0
      /\ CorpusOf \in [Items -> Names]
    BY RupertConstants
<1>3. \A i \in Items : at[i] \in Int /\ CorpusOf[i] \in Names
    BY <1>1, <1>2
<1>4. pc \in {"texts", "mark"} => Head(todo) \in Names
    BY <1>1 DEF BudgetInv, OnACorpus
<1>5. QED BY <1>1, <1>2, <1>3, <1>4

\* What opening a corpus does.
LEMMA Opens ==
    ASSUME BudgetInv, Marked, Begin
    PROVE  \E c \in Names :
               /\ c = Head(todo) /\ todo # <<>> /\ pc = "corpus"
               /\ progress'[c] \in Int /\ progress'[c] > Never
               /\ IF progress[c] = Never THEN since'[c] = progress'[c]
                  ELSE since'[c] = since[c] /\ progress'[c] = progress[c]
               /\ \A o \in Names \ {c} : progress'[o] = progress[o] /\ since'[o] = since[o]
               /\ UNCHANGED <<at, names, mention, done, orphans>>
               /\ \/ pc' = "corpus" /\ texts' = texts
                  \/ /\ pc' = "texts" /\ todo' = todo /\ reached' = progress'[c]
                     /\ \A i \in texts' : CorpusOf[i] = c /\ at[i] > progress'[c]
                     /\ \A i \in texts' : \A j \in Items \ texts' :
                           CorpusOf[j] = c /\ at[j] > progress'[c] => at[i] <= at[j]
<1>1. todo # <<>> /\ pc = "corpus" /\ UNCHANGED <<at, names, mention, done, orphans>>
    BY DEF Begin, corpusVars, ghosts
<1>2. PICK c \in Names : c = Head(todo)
    BY <1>1 DEF BudgetInv, TypeOK
<1>3. Mark(c) \in Int /\ (progress[c] = Never => Mark(c) > Never)
    BY MarkIs DEF BudgetInv
<1>4. progress \in [Names -> Int] /\ since \in [Names -> Int]
    BY DEF BudgetInv, TypeOK
<1>5. /\ progress' = [progress EXCEPT ![c] = Mark(c)]
      /\ since' = [since EXCEPT ![c] = IF since[c] = Never THEN Mark(c) ELSE since[c]]
    BY <1>2 DEF Begin, RecordMark
<1>6. /\ progress'[c] = Mark(c)
      /\ since'[c] = IF since[c] = Never THEN Mark(c) ELSE since[c]
      /\ \A o \in Names \ {c} : progress'[o] = progress[o] /\ since'[o] = since[o]
    BY <1>4, <1>5
<1>7. progress[c] # Never => Mark(c) = progress[c]
    BY DEF Mark
<1>8. progress[c] >= Never /\ (progress[c] = Never <=> since[c] = Never) /\ Never \in Int
      /\ progress[c] \in Int
    BY <1>4, RupertConstants DEF Marked
<1>9. Mark(c) > Never
    BY <1>3, <1>7, <1>8
<1>10. /\ progress'[c] \in Int /\ progress'[c] > Never
       /\ IF progress[c] = Never THEN since'[c] = progress'[c]
          ELSE since'[c] = since[c] /\ progress'[c] = progress[c]
    BY <1>3, <1>6, <1>7, <1>8, <1>9
<1>11. \/ pc' = "corpus" /\ texts' = texts
       \/ /\ pc' = "texts" /\ todo' = todo /\ reached' = Mark(c)
          /\ texts' \in Batches(Unread(c, Mark(c)))
    BY <1>1, <1>2 DEF Begin
<1>12. ASSUME texts' \in Batches(Unread(c, Mark(c)))
       PROVE  /\ \A i \in texts' : CorpusOf[i] = c /\ at[i] > progress'[c]
              /\ \A i \in texts' : \A j \in Items \ texts' :
                     CorpusOf[j] = c /\ at[j] > progress'[c] => at[i] <= at[j]
    <2>1. PICK S : S = texts' /\ S \subseteq Unread(c, Mark(c))
                   /\ \A i \in S, j \in Unread(c, Mark(c)) \ S : at[i] <= at[j]
        BY <1>12 DEF Batches
    <2>2. QED BY <1>6, <2>1 DEF Unread
<1>13. QED BY <1>1, <1>2, <1>6, <1>10, <1>11, <1>12

\* What moving the mark does.
LEMMA Advances ==
    ASSUME BudgetInv, Marked, Advance
    PROVE  \E c \in Names :
               /\ c = Head(todo) /\ pc = "mark" /\ pc' = "corpus" /\ texts' = texts
               /\ progress'[c] = IF progress[c] >= reached THEN progress[c] ELSE reached
               /\ \A o \in Names \ {c} : progress'[o] = progress[o]
               /\ UNCHANGED <<at, names, since, mention, orphans>> /\ done' = {}
<1>1. pc = "mark" /\ todo # <<>>
    BY DEF Advance, BudgetInv, OnACorpus
<1>2. PICK c \in Names : c = Head(todo)
    BY <1>1, ValuesAre
<1>3. progress \in [Names -> Int] /\ reached \in Int
    BY DEF BudgetInv, TypeOK
<1>4. PICK a \in Int, b \in Int : a = progress[c] /\ b = reached
    BY <1>3
<1>5. progress' = [progress EXCEPT ![c] = Max({a, b})]
    BY <1>2, <1>4 DEF Advance
<1>6. Max({a, b}) = IF a >= b THEN a ELSE b
    BY MaxOfTwo
<1>7. progress'[c] = IF progress[c] >= reached THEN progress[c] ELSE reached
    BY <1>3, <1>4, <1>5, <1>6
<1>8. \A o \in Names \ {c} : progress'[o] = progress[o]
    BY <1>3, <1>5
<1>9. QED BY <1>1, <1>2, <1>7, <1>8 DEF Advance, corpusVars

\* No row, no mark.
LEMMA MarksStart == Init => Marked /\ Once
<1> SUFFICES ASSUME Init PROVE Marked /\ Once
    OBVIOUS
<1>1. \A i \in Items : mention[i].state = "absent"
    BY DEF Init, NoMention
<1>2. Never \in Int
    BY RupertConstants
<1>3. QED BY <1>1, <1>2 DEF Init, Marked, Once

\* A mark goes forward, a row is written once.
LEMMA MarksStep ==
    ASSUME BudgetInv, Marked, Once, [Next]_vars
    PROVE  Marked' /\ Once'
<1>0. /\ \A i \in Items : at[i] \in Int /\ CorpusOf[i] \in Names
      /\ \A c \in Names : progress[c] \in Int /\ since[c] \in Int
      /\ reached \in Int /\ texts \subseteq Items
      /\ pc \in {"texts", "mark"} => Head(todo) \in Names
      /\ mention \in [Items -> Mentions]
      /\ Never \in Int /\ Never < 0
    BY ValuesAre
<1>1. CASE Leaves
    BY <1>1 DEF Leaves, Marked, Once
<1>2. CASE Wake
    <2>1. /\ UNCHANGED <<at, names, progress, since, mention, texts, reached, done, orphans>>
          /\ pc = "asleep" /\ pc' = "corpus"
        BY <1>2 DEF Wake, corpusVars, rows, ghosts
    <2>2. texts = {}
        BY <2>1 DEF Marked
    <2>3. QED BY <2>1, <2>2 DEF Marked, Once
<1>3. CASE Begin
    <2>1. PICK c \in Names :
               /\ c = Head(todo) /\ todo # <<>> /\ pc = "corpus"
               /\ progress'[c] \in Int /\ progress'[c] > Never
               /\ IF progress[c] = Never THEN since'[c] = progress'[c]
                  ELSE since'[c] = since[c] /\ progress'[c] = progress[c]
               /\ \A o \in Names \ {c} : progress'[o] = progress[o] /\ since'[o] = since[o]
               /\ UNCHANGED <<at, names, mention, done, orphans>>
               /\ \/ pc' = "corpus" /\ texts' = texts
                  \/ /\ pc' = "texts" /\ todo' = todo /\ reached' = progress'[c]
                     /\ \A i \in texts' : CorpusOf[i] = c /\ at[i] > progress'[c]
                     /\ \A i \in texts' : \A j \in Items \ texts' :
                           CorpusOf[j] = c /\ at[j] > progress'[c] => at[i] <= at[j]
        BY <1>3, Opens
    <2>2. texts = {} /\ texts' \subseteq Items
        <3>1. texts = {}
            BY <2>1 DEF Marked
        <3>2. CASE texts' = texts
            BY <1>0, <3>2, <3>1
        <3>3. CASE texts' \in Batches(Unread(c, Mark(c)))
            BY <3>1, <3>3 DEF Batches, Unread
        <3>4. QED BY <1>3, <2>1, <3>1, <3>2, <3>3 DEF Begin
    <2>3. \A o \in Names : progress'[o] >= Never /\ (progress'[o] = Never <=> since'[o] = Never)
        <3>1. TAKE o \in Names
        <3>2. CASE o = c
            BY <1>0, <2>1, <3>2 DEF Marked
        <3>3. CASE o # c
            BY <2>1, <3>3 DEF Marked
        <3>4. QED BY <3>2, <3>3
    <2>4. \A i \in texts' : CorpusOf[i] = c /\ at[i] > progress'[c] /\ at[i] # Never
        <3>1. CASE texts' = texts
            BY <2>2, <3>1
        <3>2. CASE \A i \in texts' : CorpusOf[i] = c /\ at[i] > progress'[c]
            <4>1. TAKE i \in texts'
            <4>2. at[i] \in Int
                BY <1>0, <2>2
            <4>3. QED BY <1>0, <2>1, <3>2, <4>2
        <3>3. QED BY <2>1, <3>1, <3>2
    <2>5. Marked'
        <3>1. \A i \in texts' : reached' <= at[i] /\ Head(todo') = c
            <4>1. TAKE i \in texts'
            <4>2. at[i] \in Int
                BY <1>0, <2>2
            <4>3. QED BY <2>1, <2>2, <2>4, <4>2
        <3>2. QED BY <1>0, <2>1, <2>2, <2>3, <2>4, <3>1 DEF Marked
    <2>6. Once'
        <3>1. SUFFICES ASSUME NEW i \in Items \ orphans, mention[i].state # "absent"
                       PROVE  i \notin texts' /\ at[i] <= progress'[CorpusOf[i]]
            BY <2>1 DEF Once
        <3>2. at[i] <= progress[CorpusOf[i]] /\ at[i] # Never /\ at[i] >= Never
            <4>1. at[i] <= progress[CorpusOf[i]] /\ at[i] # Never
                BY <2>1, <3>1 DEF Once, Marked
            <4>2. at[i] \in 0 .. Horizon \cup {Never}
                BY DEF BudgetInv, TypeOK
            <4>3. QED BY <1>0, <4>1, <4>2
        <3>3. at[i] <= progress'[CorpusOf[i]]
            <4>1. CASE CorpusOf[i] # c
                BY <1>0, <2>1, <3>2, <4>1
            <4>2. CASE CorpusOf[i] = c
                <5>1. progress[c] # Never
                    BY <1>0, <3>2, <4>2
                <5>2. QED BY <2>1, <3>2, <4>2, <5>1
            <4>3. QED BY <4>1, <4>2
        <3>4. i \notin texts'
            BY <1>0, <2>1, <2>4, <3>3
        <3>5. QED BY <3>3, <3>4
    <2>7. QED BY <2>5, <2>6
<1>4. CASE Halts
    BY <1>4 DEF Halts, Marked, Once
<1>5. CASE Advance
    <2>1. PICK c \in Names :
               /\ c = Head(todo) /\ pc = "mark" /\ pc' = "corpus" /\ texts' = texts
               /\ progress'[c] = IF progress[c] >= reached THEN progress[c] ELSE reached
               /\ \A o \in Names \ {c} : progress'[o] = progress[o]
               /\ UNCHANGED <<at, names, since, mention, orphans>> /\ done' = {}
        BY <1>5, Advances
    <2>2. texts = {}
        BY <2>1 DEF Marked
    <2>3. \A o \in Names : /\ progress'[o] >= progress[o] /\ progress'[o] \in Int
        BY <1>0, <2>1
    <2>4. \A o \in Names : progress'[o] >= Never /\ (progress'[o] = Never <=> since'[o] = Never)
        <3>1. TAKE o \in Names
        <3>2. progress[o] >= Never /\ (progress[o] = Never <=> since[o] = Never)
            BY DEF Marked
        <3>3. CASE o # c
            BY <2>1, <3>2, <3>3
        <3>4. CASE o = c
            <4>1. progress[c] # Never
                BY <2>1 DEF Marked
            <4>2. progress'[c] # Never
                BY <1>0, <2>3, <3>2, <3>4, <4>1
            <4>3. QED BY <1>0, <2>1, <2>3, <3>2, <3>4, <4>1, <4>2
        <3>5. QED BY <3>3, <3>4
    <2>5. Marked'
        BY <2>1, <2>2, <2>4 DEF Marked
    <2>6. Once'
        <3>1. SUFFICES ASSUME NEW i \in Items \ orphans, mention[i].state # "absent"
                       PROVE  at[i] <= progress'[CorpusOf[i]]
            BY <2>1, <2>2 DEF Once
        <3>2. CASE at[i] <= progress[CorpusOf[i]]
            BY <1>0, <2>3, <3>2
        <3>3. CASE CorpusOf[i] = c /\ at[i] <= reached
            BY <1>0, <2>1, <3>3
        <3>4. QED BY <2>1, <3>1, <3>2, <3>3 DEF Once
    <2>7. QED BY <2>5, <2>6
<1>6. CASE Rests
    <2>1. Marked'
        BY <1>6 DEF Rests, Marked
    <2>2. Once'
        <3>1. SUFFICES ASSUME NEW i \in Items \ orphans', mention[i].state # "absent"
                       PROVE  at[i] <= progress[CorpusOf[i]]
            BY <1>6 DEF Rests, Once
        <3>2. i \notin orphans /\ (pc = "corpus" \/ i \notin done)
            BY <1>6, <3>1 DEF Rests
        <3>3. QED BY <3>1, <3>2 DEF Once
    <2>3. QED BY <2>1, <2>2
<1>7. ASSUME NEW i \in Items, Comes(i)
      PROVE  Marked' /\ Once'
    <2>1. PICK t \in 0 .. now : at[i] = Never /\ at' = [at EXCEPT ![i] = t]
        BY <1>7 DEF Comes, Arrives
    <2>2. UNCHANGED <<progress, since, mention, pc, todo, texts, reached, done, orphans>>
        BY <1>7 DEF Comes, Arrives, rows, passVars, ghosts
    <2>3. i \notin texts /\ mention[i].state = "absent"
        BY <2>1 DEF Marked
    <2>4. \A j \in Items \ {i} : at'[j] = at[j]
        BY <2>1 DEF BudgetInv, TypeOK
    <2>5. Marked'
        BY <1>0, <2>2, <2>3, <2>4 DEF Marked
    <2>6. Once'
        BY <1>0, <2>2, <2>3, <2>4 DEF Once
    <2>7. QED BY <2>5, <2>6
<1>8. ASSUME NEW i \in Items, Passes(i)
      PROVE  Marked' /\ Once'
    <2>1. /\ pc = "texts" /\ i \in texts /\ \A j \in texts : at[i] <= at[j]
          /\ texts' = texts \ {i} /\ reached' = at[i]
          /\ UNCHANGED <<at, names, progress, since, pc, todo>>
          /\ \A j \in Items \ {i} : mention'[j] = mention[j]
          /\ done \subseteq done'
          /\ \A j \in Items \ {i} : j \in orphans' <=> j \in orphans
          /\ (mention'[i] = mention[i] /\ UNCHANGED <<done, orphans>>) \/ i \in done'
        BY <1>0, <1>8 DEF Passes, On
    <2>2. CorpusOf[i] = Head(todo) /\ at[i] # Never /\ reached <= at[i]
        BY <2>1 DEF Marked
    <2>3. Marked'
        BY <1>0, <2>1, <2>2 DEF Marked
    <2>4. Once'
        <3>1. SUFFICES ASSUME NEW j \in Items \ orphans', mention'[j].state # "absent"
                       PROVE  /\ j \notin texts \ {i}
                              /\ \/ at[j] <= progress[CorpusOf[j]]
                                 \/ CorpusOf[j] = Head(todo) /\ at[j] <= at[i] /\ j \in done'
            BY <2>1 DEF Once
        <3>2. CASE j = i
            <4>1. CASE i \in done'
                BY <1>0, <2>2, <3>2, <4>1
            <4>2. CASE mention'[i] = mention[i] /\ UNCHANGED <<done, orphans>>
                BY <2>1, <3>1, <3>2, <4>2 DEF Once
            <4>3. QED BY <2>1, <4>1, <4>2
        <3>3. CASE j # i
            <4>1. j \notin orphans /\ mention[j].state # "absent"
                BY <2>1, <3>1, <3>3
            <4>2. QED BY <1>0, <2>1, <2>2, <3>1, <3>3, <4>1 DEF Once
        <3>4. QED BY <3>2, <3>3
    <2>5. QED BY <2>3, <2>4
<1>9. QED BY <1>1, <1>2, <1>3, <1>4, <1>5, <1>6, <1>7, <1>8, StepsAre

\* The two invariants hold together.
LEMMA MarkInvHolds == Spec => [](BudgetInv /\ Marked /\ Once)
<1>1. Init => BudgetInv /\ Marked /\ Once
    BY BudgetStarts, MarksStart
<1>2. BudgetInv /\ Marked /\ Once /\ [Next]_vars => (BudgetInv /\ Marked /\ Once)'
    <2>1. SUFFICES ASSUME BudgetInv, Marked, Once, [Next]_vars
                   PROVE  BudgetInv' /\ Marked' /\ Once'
        OBVIOUS
    <2>2. QED BY <2>1, BudgetStep, MarksStep
<1>3. QED BY <1>1, <1>2, PTL DEF Spec

\* The variables keep to their ranges: the budget of a pass is what the day has left.
THEOREM RupertTypeCorrect == Spec => []TypeOK
<1>1. BudgetInv => TypeOK
    BY DEF BudgetInv
<1>2. QED BY <1>1, MarkInvHolds, PTL

\* Both budgets are the day's, as far as one that is read off rows can be: however many
\* items, corpora and passes, and whichever of them fall on either side of midnight, the
\* calls a day makes and what they cost pass them by no more than a batch for each pass
\* that died that day, and the cost by no more than the call that reached the ceiling.
\* (llm_calls_today, llm_spend_today, run_rupert, save_mention)
THEOREM BudgetsAreHeld == Spec => []BudgetsHold
<1>1. BudgetInv => BudgetsHold
    <2> SUFFICES ASSUME BudgetInv PROVE BudgetsHold
        OBVIOUS
    <2>1. /\ CallsToday \in Nat /\ SpentToday \in Nat /\ Waiting \in Nat /\ answer.cost \in Nat
          /\ made \in Nat /\ paid \in Nat /\ Again \in Nat /\ deaths \in Nat
          /\ MaxCalls \in Nat /\ MaxSpend \in Nat /\ Top \in Nat /\ Batch \in Nat
        BY MetersAre DEF BudgetInv
    <2>2. /\ CallsToday + Waiting <= MaxCalls
          /\ MaxSpend > 0 => SpentToday + answer.cost < MaxSpend + Top
          /\ made + Again <= CallsToday + Waiting + Batch * deaths
          /\ paid + Top * Again <= SpentToday + answer.cost + Top * (Batch * deaths)
        BY DEF BudgetInv, Meters, Held
    <2>3. PICK x \in Nat, u \in Nat, z \in Nat :
              x = Top * Again /\ z = Batch * deaths /\ u = Top * (Batch * deaths)
        <3>1. \A s, t \in Nat : s * t \in Nat
            OBVIOUS
        <3>2. Top * Again \in Nat /\ Batch * deaths \in Nat /\ Top * (Batch * deaths) \in Nat
            BY <2>1, <3>1
        <3>3. QED BY <3>2
    <2>4. (Top * Batch) * deaths = u
        <3>1. \A s, t, o \in Nat : (s * t) * o = s * (t * o)
            OBVIOUS
        <3>2. QED BY <2>1, <2>3, <3>1
    <2>5. CallsHold
        BY <2>1, <2>2, <2>3 DEF CallsHold
    <2>6. CeilingHolds
        <3>1. MaxSpend > 0 => paid < MaxSpend + Top + u
            BY <2>1, <2>2, <2>3
        <3>2. QED BY <2>4, <3>1 DEF CeilingHolds, Top
    <2>7. QED BY <2>5, <2>6 DEF BudgetsHold
<1>2. QED BY <1>1, MarkInvHolds, PTL

\* A text that has a row is written again only if the pass that wrote that row died
\* before it moved the mark over it. (save_mention, advance, unread_social)
THEOREM PaidForOnce == Spec => DecidedOnce
<1>1. ASSUME BudgetInv, Marked, Once, [Next]_vars, NEW i \in Items,
             mention[i].state # "absent", mention'[i] # mention[i] \/ i \in done' \ done
      PROVE  i \in orphans
    <2>0. mention \in [Items -> Mentions]
        BY <1>1, ValuesAre
    <2>1. ASSUME NEW j \in Items, Passes(j) PROVE i \in orphans
        <3>1. /\ j \in texts /\ \A k \in Items \ {j} : mention'[k] = mention[k]
              /\ done' \ done \subseteq {j}
            BY <2>0, <2>1 DEF Passes, On
        <3>2. j = i
            BY <1>1, <3>1
        <3>3. QED BY <1>1, <3>1, <3>2 DEF Once
    <2>2. ASSUME Leaves \/ Wake \/ Begin \/ Halts \/ Advance \/ Rests \/ \E j \in Items : Comes(j)
          PROVE  mention' = mention /\ done' \subseteq done
        BY <2>2 DEF Leaves, Wake, Begin, Halts, Advance, Rests, Comes, Arrives, rows, ghosts
    <2>3. QED BY <1>1, <2>1, <2>2, StepsAre
<1>2. BudgetInv /\ Marked /\ Once /\ [Next]_vars => [RewrittenForCause]_vars
    BY <1>1 DEF RewrittenForCause
<1>3. QED BY <1>2, MarkInvHolds, PTL DEF Spec, DecidedOnce

-----------------------------------------------------------------------------
(* Nothing is skipped, of corpora that grow at their ends.                 *)

\* No two things happen to a corpus at one instant, and a pass is as far as the mark or
\* as a text of its corpus.
InTurn ==
    /\ \A i, j \in Items : CorpusOf[i] = CorpusOf[j] /\ at[i] = at[j] => i = j \/ at[i] = Never
    /\ pc \in {"texts", "mark"} =>
          \/ reached <= progress[Head(todo)]
          \/ \E j \in Items : CorpusOf[j] = Head(todo) /\ reached = at[j]

\* It would be skipped, were the mark past it.
Read(i) == names[i] # "nothing" /\ since[CorpusOf[i]] < at[i]
Decided(i) == mention[i].state # "absent"

\* Of the corpus a pass is on, what it has passed is decided; and so is what it did not
\* read and comes before what it has still to decide.
PassedIsDecided ==
    pc \in {"texts", "mark"} =>
        \A i \in Items :
            CorpusOf[i] = Head(todo) /\ Read(i) /\ at[i] <= reached => Decided(i)
LeftIsAhead ==
    \A j \in texts : \A i \in Items \ texts :
        CorpusOf[i] = Head(todo) /\ Read(i) /\ at[i] <= at[j] => Decided(i)

SkipInv == InTurn /\ NothingSkipped /\ PassedIsDecided /\ LeftIsAhead

\* Nothing was passed.
LEMMA SkipStarts == Init => SkipInv
<1> SUFFICES ASSUME Init PROVE SkipInv
    OBVIOUS
<1>1. \A i \in Items : names[i] = "nothing" /\ at[i] = Never
    BY DEF Init
<1>2. pc = "asleep" /\ texts = {}
    BY DEF Init
<1>3. QED BY <1>1, <1>2 DEF SkipInv, InTurn, NothingSkipped, PassedIsDecided, LeftIsAhead

\* A corpus is read in its order, so what a mark passes was decided first.
LEMMA SkipStep ==
    ASSUME InOrder, BudgetInv, Marked, SkipInv, [Next]_vars, BudgetInv'
    PROVE  SkipInv'
<1>0. /\ \A i \in Items : at[i] \in Int /\ CorpusOf[i] \in Names
      /\ \A c \in Names : progress[c] \in Int /\ since[c] \in Int
      /\ reached \in Int /\ texts \subseteq Items
      /\ pc \in {"texts", "mark"} => Head(todo) \in Names
      /\ mention \in [Items -> Mentions]
      /\ Never \in Int /\ Never < 0
    BY ValuesAre
<1>a. /\ InTurn
      /\ \A i \in Items : Read(i) /\ at[i] <= progress[CorpusOf[i]] => Decided(i)
      /\ PassedIsDecided /\ LeftIsAhead
    BY DEF SkipInv, NothingSkipped, Read, Decided
<1>b. ASSUME InTurn', PassedIsDecided', LeftIsAhead',
             \A i \in Items : Read(i)' /\ at'[i] <= progress'[CorpusOf[i]] => Decided(i)'
      PROVE  SkipInv'
    BY <1>b DEF SkipInv, NothingSkipped, Read, Decided
<1>1. CASE Leaves
    <2>1. UNCHANGED <<at, names, progress, since, mention, pc, todo, texts, reached>>
        BY <1>1 DEF Leaves
    <2>2. QED BY <2>1 DEF SkipInv, InTurn, NothingSkipped, PassedIsDecided, LeftIsAhead, Read, Decided
<1>2. CASE Wake
    <2>1. /\ UNCHANGED <<at, names, progress, since, mention, texts, reached, done, orphans>>
          /\ pc = "asleep" /\ pc' = "corpus" /\ texts = {}
        BY <1>2 DEF Wake, corpusVars, rows, ghosts, Marked
    <2>2. QED BY <2>1 DEF SkipInv, InTurn, NothingSkipped, PassedIsDecided, LeftIsAhead, Read, Decided
<1>3. CASE Begin
    <2>1. PICK c \in Names :
               /\ c = Head(todo) /\ todo # <<>> /\ pc = "corpus"
               /\ progress'[c] \in Int /\ progress'[c] > Never
               /\ IF progress[c] = Never THEN since'[c] = progress'[c]
                  ELSE since'[c] = since[c] /\ progress'[c] = progress[c]
               /\ \A o \in Names \ {c} : progress'[o] = progress[o] /\ since'[o] = since[o]
               /\ UNCHANGED <<at, names, mention, done, orphans>>
               /\ \/ pc' = "corpus" /\ texts' = texts
                  \/ /\ pc' = "texts" /\ todo' = todo /\ reached' = progress'[c]
                     /\ \A i \in texts' : CorpusOf[i] = c /\ at[i] > progress'[c]
                     /\ \A i \in texts' : \A j \in Items \ texts' :
                           CorpusOf[j] = c /\ at[j] > progress'[c] => at[i] <= at[j]
        BY <1>3, Opens
    <2>2. texts = {} /\ texts' \subseteq Items
        BY <2>1, ValuesAre DEF Marked, BudgetInv, TypeOK
    <2>3. ASSUME NEW i \in Items, Read(i)', at[i] <= progress'[CorpusOf[i]]
          PROVE  Decided(i)'
        <3>1. PICK o \in Names : o = CorpusOf[i]
            BY <1>0
        <3>2. names[i] # "nothing" /\ since'[o] < at[i] /\ at[i] <= progress'[o]
            BY <2>1, <2>3, <3>1 DEF Read
        <3>3. progress'[o] = progress[o] /\ since'[o] = since[o]
            BY <1>0, <2>1, <3>1, <3>2
        <3>4. QED BY <1>a, <2>1, <3>1, <3>2, <3>3 DEF Read, Decided
    <2>4. InTurn'
        <3>1. pc' \in {"texts", "mark"} => reached' <= progress'[Head(todo')]
            BY <2>1
        <3>2. QED BY <1>a, <2>1, <3>1 DEF InTurn
    <2>5. PassedIsDecided'
        <3>1. SUFFICES ASSUME pc' = "texts", NEW i \in Items, CorpusOf[i] = c, Read(i)',
                              at[i] <= reached'
                       PROVE  Decided(i)'
            BY <2>1 DEF PassedIsDecided
        <3>2. QED BY <2>1, <2>3, <3>1
    <2>6. LeftIsAhead'
        <3>1. SUFFICES ASSUME NEW j \in texts', NEW i \in Items \ texts',
                              CorpusOf[i] = Head(todo'), Read(i)', at[i] <= at[j]
                       PROVE  Decided(i)'
            BY <2>1 DEF LeftIsAhead
        <3>2. /\ todo' = todo /\ CorpusOf[i] = c /\ CorpusOf[j] = c /\ at[j] > progress'[c]
              /\ at[i] > progress'[c] => at[j] <= at[i]
            BY <2>1, <2>2, <3>1
        <3>3. CASE at[i] <= progress'[c]
            BY <2>3, <3>1, <3>2, <3>3
        <3>4. CASE at[i] > progress'[c]
            <4>1. at[i] = at[j]
                BY <1>0, <2>2, <3>1, <3>2, <3>4
            <4>2. at[i] # Never /\ i # j
                BY <1>0, <2>1, <3>1, <3>4
            <4>3. QED BY <1>a, <2>2, <3>1, <3>2, <4>1, <4>2 DEF InTurn
        <3>5. QED BY <1>0, <2>1, <3>3, <3>4
    <2>7. QED BY <1>b, <2>1, <2>3, <2>4, <2>5, <2>6
<1>4. CASE Halts
    <2>1. /\ UNCHANGED <<at, names, progress, since, mention, todo, reached>>
          /\ pc = "texts" /\ pc' = "mark" /\ texts' = {}
        BY <1>4 DEF Halts
    <2>2. QED BY <2>1 DEF SkipInv, InTurn, NothingSkipped, PassedIsDecided, LeftIsAhead, Read, Decided
<1>5. CASE Advance
    <2>1. PICK c \in Names :
               /\ c = Head(todo) /\ pc = "mark" /\ pc' = "corpus" /\ texts' = texts
               /\ progress'[c] = IF progress[c] >= reached THEN progress[c] ELSE reached
               /\ \A o \in Names \ {c} : progress'[o] = progress[o]
               /\ UNCHANGED <<at, names, since, mention, orphans>> /\ done' = {}
        BY <1>5, Advances
    <2>2. texts = {}
        BY <2>1 DEF Marked
    <2>3. ASSUME NEW i \in Items, Read(i)', at[i] <= progress'[CorpusOf[i]]
          PROVE  Decided(i)'
        <3>1. Read(i)
            BY <2>1, <2>3 DEF Read
        <3>2. Decided(i)
            <4>1. CASE at[i] <= progress[CorpusOf[i]]
                BY <1>a, <3>1, <4>1
            <4>2. CASE CorpusOf[i] = c /\ at[i] <= reached
                BY <1>a, <2>1, <3>1, <4>2 DEF PassedIsDecided
            <4>3. QED BY <1>0, <2>1, <2>3, <4>1, <4>2
        <3>3. QED BY <2>1, <3>2 DEF Decided
    <2>4. InTurn' /\ PassedIsDecided' /\ LeftIsAhead'
        BY <1>a, <2>1, <2>2 DEF InTurn, PassedIsDecided, LeftIsAhead
    <2>5. QED BY <1>b, <2>1, <2>3, <2>4
<1>6. CASE Rests
    <2>1. UNCHANGED <<at, names, progress, since, mention>> /\ pc' = "asleep" /\ texts' = {}
        BY <1>6 DEF Rests
    <2>2. QED BY <2>1 DEF SkipInv, InTurn, NothingSkipped, PassedIsDecided, LeftIsAhead, Read, Decided
<1>7. ASSUME NEW i \in Items, Comes(i)
      PROVE  SkipInv'
    <2>1. PICK t \in 0 .. now, what \in Finds : Arrives(i, t, what)
        BY <1>7 DEF Comes
    <2>2. /\ at[i] = Never /\ at' = [at EXCEPT ![i] = t] /\ names' = [names EXCEPT ![i] = what]
          /\ progress[CorpusOf[i]] < t
          /\ \A j \in Items : CorpusOf[j] = CorpusOf[i] => at[j] < t
          /\ UNCHANGED <<progress, since, mention, pc, todo, texts, reached>>
        BY <2>1 DEF Arrives, rows, passVars
    <2>3. /\ at'[i] = t /\ \A j \in Items \ {i} : at'[j] = at[j] /\ names'[j] = names[j]
          /\ i \notin texts /\ t \in Int
        <3>1. at'[i] = t /\ \A j \in Items \ {i} : at'[j] = at[j] /\ names'[j] = names[j]
            BY <2>2 DEF BudgetInv, TypeOK
        <3>2. t \in Int
            BY DEF BudgetInv, TypeOK
        <3>3. QED BY <2>2, <3>1, <3>2 DEF Marked
    <2>4. \A j \in Items \ {i} : (Read(j)' <=> Read(j)) /\ (Decided(j)' <=> Decided(j))
        BY <2>2, <2>3 DEF Read, Decided
    <2>5. ASSUME NEW j \in Items, Read(j)', at'[j] <= progress'[CorpusOf[j]]
          PROVE  Decided(j)'
        <3>1. j # i
            BY <1>0, <2>2, <2>3, <2>5
        <3>2. QED BY <1>a, <2>2, <2>3, <2>4, <2>5, <3>1
    <2>6. InTurn'
        <3>1. \A k, j \in Items : CorpusOf[k] = CorpusOf[j] /\ at'[k] = at'[j] => k = j \/ at'[k] = Never
            <4>1. TAKE k, j \in Items
            <4>2. HAVE CorpusOf[k] = CorpusOf[j] /\ at'[k] = at'[j]
            <4>3. CASE k = i \/ j = i
                BY <1>0, <2>2, <2>3, <4>2, <4>3
            <4>4. CASE k # i /\ j # i
                BY <1>a, <2>3, <4>2, <4>4 DEF InTurn
            <4>5. QED BY <4>3, <4>4
        <3>2. ASSUME pc \in {"texts", "mark"}
              PROVE  \/ reached <= progress[Head(todo)]
                     \/ \E j \in Items : CorpusOf[j] = Head(todo) /\ reached = at'[j]
            <4>1. CASE reached <= progress[Head(todo)]
                BY <4>1
            <4>2. ASSUME NEW j \in Items, CorpusOf[j] = Head(todo), reached = at[j]
                  PROVE  reached <= progress[Head(todo)] \/ reached = at'[j]
                <5>1. CASE j = i
                    <6>1. progress[Head(todo)] >= Never
                        BY <1>0, <3>2 DEF Marked
                    <6>2. QED BY <1>0, <2>2, <3>2, <4>2, <5>1, <6>1
                <5>2. CASE j # i
                    BY <2>3, <4>2, <5>2
                <5>3. QED BY <5>1, <5>2
            <4>3. QED BY <1>a, <3>2, <4>1, <4>2 DEF InTurn
        <3>3. QED BY <2>2, <3>1, <3>2 DEF InTurn
    <2>7. PassedIsDecided'
        <3>1. SUFFICES ASSUME pc \in {"texts", "mark"}, NEW j \in Items,
                              CorpusOf[j] = Head(todo), Read(j)', at'[j] <= reached
                       PROVE  Decided(j)'
            BY <2>2 DEF PassedIsDecided
        <3>2. CASE j # i
            BY <1>a, <2>3, <2>4, <3>1, <3>2 DEF PassedIsDecided
        <3>3. CASE j = i
            <4>1. t <= reached /\ CorpusOf[i] = Head(todo)
                BY <2>3, <3>1, <3>3
            <4>2. CASE reached <= progress[Head(todo)]
                BY <1>0, <2>2, <2>3, <3>1, <4>1, <4>2
            <4>3. ASSUME NEW k \in Items, CorpusOf[k] = Head(todo), reached = at[k]
                  PROVE  FALSE
                BY <1>0, <2>2, <2>3, <4>1, <4>3
            <4>4. QED BY <1>a, <3>1, <4>2, <4>3 DEF InTurn
        <3>4. QED BY <3>2, <3>3
    <2>8. LeftIsAhead'
        <3>1. SUFFICES ASSUME NEW j \in texts, NEW k \in Items \ texts,
                              CorpusOf[k] = Head(todo), Read(k)', at'[k] <= at'[j]
                       PROVE  Decided(k)'
            BY <2>2 DEF LeftIsAhead
        <3>2. j # i /\ j \in Items /\ at'[j] = at[j] /\ CorpusOf[j] = Head(todo)
            BY <1>0, <2>3 DEF Marked
        <3>3. k # i
            BY <1>0, <2>2, <2>3, <3>1, <3>2
        <3>4. QED BY <1>a, <2>3, <2>4, <3>1, <3>2, <3>3 DEF LeftIsAhead
    <2>9. QED BY <1>b, <2>5, <2>6, <2>7, <2>8
<1>8. ASSUME NEW i \in Items, Passes(i)
      PROVE  SkipInv'
    <2>1. /\ pc = "texts" /\ i \in texts /\ \A j \in texts : at[i] <= at[j]
          /\ texts' = texts \ {i} /\ reached' = at[i]
          /\ UNCHANGED <<at, names, progress, since, pc, todo>>
          /\ \A j \in Items \ {i} : mention'[j] = mention[j]
          /\ names[i] # "nothing" => mention'[i].state # "absent"
          /\ names[i] = "nothing" => TRUE
        BY <1>0, <1>8 DEF Passes, On
    <2>2. CorpusOf[i] = Head(todo) /\ at[i] # Never
        BY <2>1 DEF Marked
    <2>3. \A j \in Items : (Read(j)' <=> Read(j)) /\ (Read(j) /\ Decided(j) => Decided(j)')
        <3>1. TAKE j \in Items
        <3>2. Read(j)' <=> Read(j)
            BY <2>1 DEF Read
        <3>3. CASE j = i
            BY <2>1, <3>2, <3>3 DEF Read, Decided
        <3>4. CASE j # i
            BY <2>1, <3>2, <3>4 DEF Decided
        <3>5. QED BY <3>2, <3>3, <3>4
    <2>4. Read(i) => Decided(i)'
        BY <2>1 DEF Read, Decided
    <2>5. InTurn'
        BY <1>a, <2>1, <2>2 DEF InTurn
    <2>6. PassedIsDecided'
        <3>1. SUFFICES ASSUME NEW j \in Items, CorpusOf[j] = Head(todo), Read(j), at[j] <= at[i]
                       PROVE  Decided(j)'
            BY <2>1, <2>3 DEF PassedIsDecided
        <3>2. CASE j = i
            BY <2>4, <3>1, <3>2
        <3>3. CASE j # i /\ j \in texts
            <4>1. at[j] = at[i]
                BY <1>0, <2>1, <3>1, <3>3
            <4>2. QED BY <1>a, <2>2, <3>1, <3>3, <4>1 DEF InTurn
        <3>4. CASE j \notin texts
            BY <1>a, <2>1, <2>3, <3>1, <3>4 DEF LeftIsAhead
        <3>5. QED BY <3>2, <3>3, <3>4
    <2>7. LeftIsAhead'
        <3>1. SUFFICES ASSUME NEW j \in texts \ {i}, NEW k \in Items \ (texts \ {i}),
                              CorpusOf[k] = Head(todo), Read(k), at[k] <= at[j]
                       PROVE  Decided(k)'
            BY <2>1, <2>3 DEF LeftIsAhead
        <3>2. CASE k = i
            BY <2>4, <3>1, <3>2
        <3>3. CASE k \notin texts
            BY <1>a, <2>3, <3>1, <3>3 DEF LeftIsAhead
        <3>4. QED BY <3>1, <3>2, <3>3
    <2>8. \A j \in Items : Read(j)' /\ at'[j] <= progress'[CorpusOf[j]] => Decided(j)'
        BY <1>a, <2>1, <2>3
    <2>9. QED BY <1>b, <2>5, <2>6, <2>7, <2>8
<1>9. QED BY <1>1, <1>2, <1>3, <1>4, <1>5, <1>6, <1>7, <1>8, StepsAre

\* A mark passes no text by that was not decided, whichever passes were throttled, ran
\* out of budget or died. (unread_social, run_rupert, advance)
THEOREM NothingIsSkipped == ASSUME InOrder PROVE Spec => []NothingSkipped
<1>1. Init => SkipInv
    BY SkipStarts
<1>2. SkipInv /\ (BudgetInv /\ Marked /\ Once) /\ (BudgetInv /\ Marked /\ Once)' /\ [Next]_vars => SkipInv'
    BY SkipStep
<1>3. SkipInv => NothingSkipped
    BY DEF SkipInv
<1>4. QED BY <1>1, <1>2, <1>3, MarkInvHolds, PTL DEF Spec
=============================================================================
