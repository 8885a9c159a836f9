----------------------------- MODULE CapsProofs -----------------------------
(***************************************************************************)
(* Caps that are read before and added to after what they cap: Magpie's    *)
(* meter, Steven's day and the day's narratives (CapsHold).  What is under *)
(* way when a cap is reached goes over it, and no more, for every number   *)
(* of threads, cap and price.  Each is one sum, of what is on the rows and *)
(* of what those who were let in may still add to them: a step raises it   *)
(* only when it reads the rows below the cap.                              *)
(***************************************************************************)
EXTENDS MCServices, SequenceTheorems, Sums
-----------------------------------------------------------------------------

\* Who adds to the rows is no longer among those who may.
LEMMA RowsAndWriters ==
    ASSUME NEW A, NEW W, NEW B, NEW V, NEW n \in Nat,
           IsFiniteSet(A), IsFiniteSet(W), Cardinality(A) + Cardinality(W) < n,
           \/ B \subseteq A /\ V \subseteq W
           \/ \E x, t : t \in W /\ B \subseteq A \cup {x} /\ V \subseteq W \ {t}
    PROVE  /\ IsFiniteSet(B) /\ IsFiniteSet(V)
           /\ Cardinality(B) + Cardinality(V) < n
<1>1. Cardinality(A) \in Nat /\ Cardinality(W) \in Nat
    BY FS_CardinalityType
<1>2. CASE B \subseteq A /\ V \subseteq W
    <2>1. /\ IsFiniteSet(B) /\ Cardinality(B) <= Cardinality(A)
          /\ IsFiniteSet(V) /\ Cardinality(V) <= Cardinality(W)
        BY <1>2, FS_Subset
    <2>2. Cardinality(B) \in Nat /\ Cardinality(V) \in Nat
        BY <2>1, FS_CardinalityType
    <2>3. QED BY <1>1, <2>1, <2>2
<1>3. CASE \E x, t : t \in W /\ B \subseteq A \cup {x} /\ V \subseteq W \ {t}
    <2>1. PICK x, t : t \in W /\ B \subseteq A \cup {x} /\ V \subseteq W \ {t}
        BY <1>3
    <2>2. IsFiniteSet(A \cup {x}) /\ Cardinality(A \cup {x}) <= Cardinality(A) + 1
        <3>1. /\ IsFiniteSet(A \cup {x})
              /\ Cardinality(A \cup {x}) = Cardinality(A)
                 \/ Cardinality(A \cup {x}) = Cardinality(A) + 1
            BY FS_AddElement
        <3>2. QED BY <1>1, <3>1
    <2>3. /\ IsFiniteSet(W \ {t}) /\ Cardinality(W \ {t}) = Cardinality(W) - 1
        BY <2>1, FS_RemoveElement
    <2>4. /\ IsFiniteSet(B) /\ Cardinality(B) <= Cardinality(A \cup {x})
          /\ IsFiniteSet(V) /\ Cardinality(V) <= Cardinality(W \ {t})
        BY <2>1, <2>2, <2>3, FS_Subset
    <2>5. /\ Cardinality(B) \in Nat /\ Cardinality(V) \in Nat
          /\ Cardinality(A \cup {x}) \in Nat /\ Cardinality(W \ {t}) \in Nat
        BY <2>2, <2>3, <2>4, FS_CardinalityType
    <2>6. QED BY <1>1, <2>2, <2>3, <2>4, <2>5
<1>4. QED BY <1>2, <1>3

\* Who reads the rows below the cap may add to them.
LEMMA BelowTheCap ==
    ASSUME NEW A, NEW V, NEW T, NEW max \in Nat, IsFiniteSet(A), Cardinality(A) < max,
           IsFiniteSet(T), V \subseteq T
    PROVE  /\ IsFiniteSet(V)
           /\ Cardinality(A) + Cardinality(V) < max + Cardinality(T)
<1>1. IsFiniteSet(V) /\ Cardinality(V) <= Cardinality(T)
    BY FS_Subset
<1>2. Cardinality(A) \in Nat /\ Cardinality(V) \in Nat /\ Cardinality(T) \in Nat
    BY <1>1, FS_CardinalityType
<1>3. QED BY <1>1, <1>2

LEMMA SomeOf ==
    ASSUME NEW T, IsFiniteSet(T), T # {}
    PROVE  Cardinality(T) \in Nat \ {0}
BY FS_CardinalityType, FS_EmptySet

-----------------------------------------------------------------------------
(* The narratives of a day (Narratives).                                   *)

Written(d) == {n \in narrative : n.day = d}
Writing(d) == {t \in Tabs : tab[t].step \in {"write", "save"} /\ tab[t].day = d}

PaidFor(P, n) == \E p \in P : p.company = n.company /\ p.day = n.day /\ ~p.empty

TabSteps == [step : {"count", "write", "save"}, company : TalkedOf, day : Int]

NarrativesInv ==
    /\ narrativeDay \in Int
    /\ tab \in [Tabs -> {TabIdle} \cup TabSteps]
    /\ IsFiniteSet(narrative)
    /\ \A d \in Int : Cardinality(Written(d)) + Cardinality(Writing(d))
                          < DailyMax + Cardinality(Tabs)
    /\ \A n, o \in narrative : n.company = o.company /\ n.day = o.day => n = o
    /\ \A n \in narrative : PaidFor(paid, n)
    /\ \A t \in Tabs : tab[t].step = "save" => PaidFor(paid, tab[t])

LEMMA NarrativesStart == NarrativesInit => NarrativesInv
<1> SUFFICES ASSUME NarrativesInit PROVE NarrativesInv
    OBVIOUS
<1>1. narrative = {} /\ \A t \in Tabs : tab[t].step = "idle"
    BY DEF NarrativesInit, TabIdle
<1>2. \A d : Written(d) = {} /\ Writing(d) = {}
    BY <1>1 DEF Written, Writing
<1>3. Cardinality({}) = 0 /\ IsFiniteSet({})
    BY FS_EmptySet
<1>4. Cardinality(Tabs) \in Nat \ {0} /\ DailyMax \in Nat
    BY NarrativesAssumption, SomeOf
<1>5. QED BY <1>1, <1>2, <1>3, <1>4 DEF NarrativesInv, NarrativesInit, TabIdle

\* A step that writes nothing and lets nobody write.
LEMMA NarrativesRest ==
    ASSUME NarrativesInv, narrative' = narrative, paid \subseteq paid', narrativeDay' \in Int,
           tab' \in [Tabs -> {TabIdle} \cup TabSteps],
           \A t \in Tabs : tab'[t].step \in {"write", "save"} =>
               tab[t].step \in {"write", "save"} /\ tab'[t].day = tab[t].day,
           \A t \in Tabs : tab'[t].step = "save" =>
               (tab[t].step = "save" /\ tab'[t] = tab[t]) \/ PaidFor(paid', tab'[t])
    PROVE  NarrativesInv'
<1>1. ASSUME NEW d \in Int
      PROVE  Cardinality(Written(d)') + Cardinality(Writing(d)') < DailyMax + Cardinality(Tabs)
    <2>1. Written(d)' = Written(d) /\ Writing(d)' \subseteq Writing(d) /\ Writing(d) \subseteq Tabs
        BY DEF Written, Writing
    <2>2. IsFiniteSet(Written(d)) /\ IsFiniteSet(Writing(d))
        BY <2>1, NarrativesAssumption, FS_Subset DEF NarrativesInv, Written
    <2>3. DailyMax + Cardinality(Tabs) \in Nat
        BY NarrativesAssumption, SomeOf
    <2>4. Cardinality(Written(d)) + Cardinality(Writing(d)) < DailyMax + Cardinality(Tabs)
        BY DEF NarrativesInv
    <2>5. QED BY <2>1, <2>2, <2>3, <2>4, RowsAndWriters
<1>2. QED BY <1>1 DEF NarrativesInv, PaidFor

LEMMA NarrativesMayWrite ==
    ASSUME NarrativesInv, NEW t \in Tabs, NEW allowed \in BOOLEAN, MayWrite(t, allowed)
    PROVE  NarrativesInv'
<1>1. tab[t] \in TabSteps /\ tab[t].step = "count"
    BY DEF NarrativesInv, MayWrite, TabIdle
<1>2. CASE NarrativesToday(t) < DailyMax /\ allowed
    <2>1. tab' = [tab EXCEPT ![t] = [tab[t] EXCEPT !.step = "write"]]
        BY <1>2 DEF MayWrite
    <2>2. [tab[t] EXCEPT !.step = "write"] \in TabSteps
        BY <1>1 DEF TabSteps
    <2>3. tab' \in [Tabs -> {TabIdle} \cup TabSteps]
        BY <2>1, <2>2 DEF NarrativesInv
    <2>4. /\ \A s \in Tabs : s # t => tab'[s] = tab[s]
          /\ tab'[t].step = "write" /\ tab'[t].day = tab[t].day
        BY <1>1, <2>1 DEF NarrativesInv, TabSteps
    <2>5. ASSUME NEW d \in Int
          PROVE  Cardinality(Written(d)') + Cardinality(Writing(d)') < DailyMax + Cardinality(Tabs)
        <3>1. Written(d)' = Written(d) /\ Writing(d)' \subseteq Tabs /\ IsFiniteSet(Written(d))
            BY FS_Subset DEF Written, Writing, MayWrite, NarrativesInv
        <3>2. CASE d = tab[t].day
            <4>1. Cardinality(Written(d)) < DailyMax
                BY <1>2, <3>2 DEF NarrativesToday, Written
            <4>2. QED BY <3>1, <4>1, NarrativesAssumption, BelowTheCap
        <3>3. CASE d # tab[t].day
            <4>1. Writing(d)' = Writing(d)
                BY <1>1, <2>4, <3>3 DEF Writing
            <4>2. QED BY <3>1, <4>1 DEF NarrativesInv
        <3>4. QED BY <3>2, <3>3
    <2>6. \A s \in Tabs : tab'[s].step = "save" => PaidFor(paid', tab'[s])
        BY <2>4 DEF MayWrite, NarrativesInv
    <2>7. QED BY <2>3, <2>5, <2>6 DEF NarrativesInv, MayWrite
<1>3. CASE ~(NarrativesToday(t) < DailyMax /\ allowed)
    <2>1. tab' = [tab EXCEPT ![t] = TabIdle]
        BY <1>3 DEF MayWrite
    <2>2. QED BY <2>1, NarrativesRest DEF NarrativesInv, MayWrite, TabIdle
<1>4. QED BY <1>2, <1>3

LEMMA NarrativesModelWrites ==
    ASSUME NarrativesInv, NEW t \in Tabs, NEW something \in BOOLEAN, ModelWrites(t, something)
    PROVE  NarrativesInv'
<1>1. tab[t] \in TabSteps /\ tab[t].step = "write"
    BY DEF NarrativesInv, ModelWrites, TabIdle
<1> DEFINE kept == [tab[t] EXCEPT !.step = "save"]
<1>2. kept \in TabSteps /\ kept.step = "save" /\ kept.day = tab[t].day
      /\ kept.company = tab[t].company
    BY <1>1 DEF TabSteps
<1>3. tab' = [tab EXCEPT ![t] = IF something THEN kept ELSE TabIdle]
    BY DEF ModelWrites
<1> DEFINE sum == [id |-> Cardinality(paid) + 1, company |-> tab[t].company,
                   day |-> tab[t].day, empty |-> ~something]
<1>4. /\ paid' = paid \cup {sum}
      /\ sum.company = tab[t].company /\ sum.day = tab[t].day /\ sum.empty = ~something
    BY DEF ModelWrites
<1> HIDE DEF kept, sum
<1>5. paid \subseteq paid' /\ (something => PaidFor(paid', kept))
    BY <1>2, <1>4 DEF PaidFor
<1>6. /\ tab' \in [Tabs -> {TabIdle} \cup TabSteps]
      /\ \A s \in Tabs : s # t => tab'[s] = tab[s]
      /\ tab'[t] = (IF something THEN kept ELSE TabIdle)
    BY <1>2, <1>3 DEF NarrativesInv
<1>7. \A s \in Tabs :
          /\ tab'[s].step \in {"write", "save"} =>
                 tab[s].step \in {"write", "save"} /\ tab'[s].day = tab[s].day
          /\ tab'[s].step = "save" =>
                 (tab[s].step = "save" /\ tab'[s] = tab[s]) \/ PaidFor(paid', tab'[s])
    BY <1>1, <1>2, <1>5, <1>6 DEF TabIdle
<1>8. narrative' = narrative /\ narrativeDay' \in Int
    BY DEF ModelWrites, NarrativesInv
<1>9. QED BY <1>5, <1>6, <1>7, <1>8, NarrativesRest

LEMMA NarrativesSaveNarrative ==
    ASSUME NarrativesInv, NEW t \in Tabs, NEW writable \in BOOLEAN, SaveNarrative(t, writable)
    PROVE  NarrativesInv'
<1>1. tab[t] \in TabSteps /\ tab[t].step = "save" /\ tab' = [tab EXCEPT ![t] = TabIdle]
    BY DEF NarrativesInv, SaveNarrative, TabIdle
<1>2. /\ tab' \in [Tabs -> {TabIdle} \cup TabSteps]
      /\ \A s \in Tabs : s # t => tab'[s] = tab[s]
      /\ tab'[t].step = "idle"
    BY <1>1 DEF NarrativesInv, TabIdle
<1>3. CASE narrative' = narrative
    BY <1>1, <1>2, <1>3, NarrativesRest DEF NarrativesInv, SaveNarrative
<1>4. CASE narrative' # narrative
    <2> DEFINE row == [company |-> tab[t].company, day |-> tab[t].day, by |-> t]
    <2>1. narrative' = narrative \cup {row} /\ Held(tab[t].company, tab[t].day) = {}
        BY <1>4 DEF SaveNarrative
    <2>2. row.company = tab[t].company /\ row.day = tab[t].day
        OBVIOUS
    <2> HIDE DEF row
    <2>3. ASSUME NEW d \in Int
          PROVE  Cardinality(Written(d)') + Cardinality(Writing(d)') < DailyMax + Cardinality(Tabs)
        <3>1. IsFiniteSet(Written(d)) /\ IsFiniteSet(Writing(d))
            BY NarrativesAssumption, FS_Subset DEF NarrativesInv, Written, Writing
        <3>2. DailyMax + Cardinality(Tabs) \in Nat
            BY NarrativesAssumption, SomeOf
        <3>3. Cardinality(Written(d)) + Cardinality(Writing(d)) < DailyMax + Cardinality(Tabs)
            BY DEF NarrativesInv
        <3>4. CASE d = tab[t].day
            <4>1. /\ t \in Writing(d) /\ Written(d)' \subseteq Written(d) \cup {row}
                  /\ Writing(d)' \subseteq Writing(d) \ {t}
                BY <1>1, <1>2, <2>1, <3>4 DEF Writing, Written
            <4>2. QED BY <3>1, <3>2, <3>3, <4>1, RowsAndWriters
        <3>5. CASE d # tab[t].day
            <4>1. Written(d)' \subseteq Written(d) /\ Writing(d)' \subseteq Writing(d)
                BY <1>2, <2>1, <2>2, <3>5 DEF Writing, Written
            <4>2. QED BY <3>1, <3>2, <3>3, <4>1, RowsAndWriters
        <3>6. QED BY <3>4, <3>5
    <2>4. IsFiniteSet(narrative')
        BY <2>1, FS_AddElement DEF NarrativesInv
    <2>5. \A n, o \in narrative' : n.company = o.company /\ n.day = o.day => n = o
        BY <2>1, <2>2 DEF NarrativesInv, Held
    <2>6. \A n \in narrative' : PaidFor(paid', n)
        BY <1>1, <2>1, <2>2 DEF NarrativesInv, PaidFor, SaveNarrative
    <2>7. \A s \in Tabs : tab'[s].step = "save" => PaidFor(paid', tab'[s])
        BY <1>2 DEF NarrativesInv, SaveNarrative
    <2>8. QED BY <1>2, <2>3, <2>4, <2>5, <2>6, <2>7 DEF NarrativesInv, SaveNarrative
<1>5. QED BY <1>3, <1>4

LEMMA NarrativesInvHolds == NarrativesSpec => []NarrativesInv
<1>1. NarrativesInv /\ [NarrativesNext]_narrativesVars => NarrativesInv'
    <2> SUFFICES ASSUME NarrativesInv, [NarrativesNext]_narrativesVars PROVE NarrativesInv'
        OBVIOUS
    <2>1. CASE NarrativeDayPasses
        BY <2>1, NarrativesRest DEF NarrativeDayPasses, NarrativesInv
    <2>2. ASSUME NEW t \in Tabs, NEW c \in TalkedOf, AsksNarrative(t, c) PROVE NarrativesInv'
        <3> DEFINE counting == [step |-> "count", company |-> c, day |-> narrativeDay]
        <3>1. counting \in TabSteps /\ counting.step = "count"
            BY DEF TabSteps, NarrativesInv
        <3>2. tab' = [tab EXCEPT ![t] = counting]
            BY <2>2 DEF AsksNarrative
        <3> HIDE DEF counting
        <3>3. QED BY <2>2, <3>1, <3>2, NarrativesRest DEF AsksNarrative, NarrativesInv
    <2>3. ASSUME NEW t \in Tabs, ModelSilent(t) PROVE NarrativesInv'
        BY <2>3, NarrativesRest DEF ModelSilent, NarrativesInv, TabIdle
    <2>4. CASE UNCHANGED narrativesVars
        BY <2>4, NarrativesRest DEF narrativesVars, NarrativesInv
    <2>5. QED
        BY <2>1, <2>2, <2>3, <2>4, NarrativesMayWrite, NarrativesModelWrites,
           NarrativesSaveNarrative DEF NarrativesNext
<1>2. QED BY NarrativesStart, <1>1, PTL DEF NarrativesSpec

LEMMA NarrativesReach == NarrativesInv => NarrativesWithinReach
<1> SUFFICES ASSUME NarrativesInv, NEW d \in 1 .. LastNarrativeDay
             PROVE  /\ Cardinality(Written(d)) < DailyMax + Cardinality(Tabs)
                    /\ \A n, o \in Written(d) : n.company = o.company => n = o
                    /\ \A n \in Written(d) : \E p \in paid :
                          p.company = n.company /\ p.day = d /\ ~p.empty
    BY DEF NarrativesWithinReach, Written
<1>1. IsFiniteSet(Written(d)) /\ IsFiniteSet(Writing(d))
    BY NarrativesAssumption, FS_Subset DEF NarrativesInv, Written, Writing
<1>2. Cardinality(Written(d)) \in Nat /\ Cardinality(Writing(d)) \in Nat
    BY <1>1, FS_CardinalityType
<1>3. Cardinality(Tabs) \in Nat /\ DailyMax \in Nat
    BY NarrativesAssumption, SomeOf
<1>4. Cardinality(Written(d)) + Cardinality(Writing(d)) < DailyMax + Cardinality(Tabs)
    BY DEF NarrativesInv
<1>5. Cardinality(Written(d)) < DailyMax + Cardinality(Tabs)
    BY <1>2, <1>3, <1>4
<1>6. QED BY <1>5 DEF NarrativesInv, Written, PaidFor

-----------------------------------------------------------------------------
(* The meter over the billed rung (Magpie).                                *)

PayingSteps == {"begin", "fetch", "settle", "put", "save", "keep"}
Fetched == {"settle", "put", "save", "keep"}

\* The attempts that are paid for, and the threads that may pay for theirs.
PaidRows == {k \in DOMAIN attempt : attempt[k].paid}
Payers == {r \in Asking : asked[r].at \in PayingSteps /\ asked[r].pays}

Kinds == {"none", "robots", "not_a_page", "failed", "article", "too_short", "paywall",
          "unchanged", "stored"}
Scrapes == [at : PayingSteps \cup {"meter"}, url : Urls, pays : BOOLEAN, capped : BOOLEAN,
            key : Nat, got : Texts \cup {Nothing}, kind : Kinds, paid : BOOLEAN]

\* A thread that scrapes has paid only if it may, and may not if it is capped.
AskedOK(q) ==
    \/ q = Free
    \/ q \in Scrapes /\ (q.paid => q.at \in Fetched /\ q.pays) /\ ~(q.pays /\ q.capped)
    \/ "at" \in DOMAIN q /\ q.at \in {"links", "stamp"}

AttemptRows ==
    [url : Urls, state : {"running", "refused", "requested"} \cup Kinds, paid : BOOLEAN,
     reason : {"unlocker_capped", "not_stored", "restarted"} \cup Kinds]

MagpieInv ==
    /\ attempt \in Seq(AttemptRows)
    /\ DOMAIN asked = Asking
    /\ \A r \in Asking : AskedOK(asked[r])
    /\ Cardinality(PaidRows) + Cardinality(Payers) < UnlockerMax + Cardinality(Asking)

LEMMA MagpieStart == MagpieInit => MagpieInv
<1> SUFFICES ASSUME MagpieInit PROVE MagpieInv
    OBVIOUS
<1>1. PaidRows = {} /\ Payers = {}
    BY DEF MagpieInit, PaidRows, Payers, Free, PayingSteps
<1>2. Cardinality({}) = 0
    BY FS_EmptySet
<1>3. Cardinality(Asking) \in Nat \ {0} /\ UnlockerMax \in Nat
    BY MagpieAssumption, SomeOf
<1>4. QED BY <1>1, <1>2, <1>3 DEF MagpieInv, MagpieInit, AskedOK

LEMMA PaidAreFinite ==
    MagpieInv => IsFiniteSet(PaidRows) /\ Cardinality(PaidRows) \in Nat
<1> SUFFICES ASSUME MagpieInv PROVE IsFiniteSet(PaidRows)
    BY FS_CardinalityType
<1>1. DOMAIN attempt = 1 .. Len(attempt) /\ Len(attempt) \in Nat
    BY DEF MagpieInv
<1>2. IsFiniteSet(DOMAIN attempt)
    BY <1>1, FS_Interval
<1>3. QED BY <1>2, FS_Subset DEF PaidRows

\* A step after which no more are paid for and may be, or one more is by a thread that
\* then no longer may.
LEMMA MagpieRest ==
    ASSUME MagpieInv, attempt' \in Seq(AttemptRows), DOMAIN asked' = Asking,
           \A r \in Asking : AskedOK(asked'[r]),
           \/ PaidRows' \subseteq PaidRows /\ Payers' \subseteq Payers
           \/ \E k, r : /\ r \in Payers /\ PaidRows' \subseteq PaidRows \cup {k}
                        /\ Payers' \subseteq Payers \ {r}
    PROVE  MagpieInv'
<1>1. IsFiniteSet(PaidRows)
    BY PaidAreFinite
<1>2. IsFiniteSet(Payers)
    BY MagpieAssumption, FS_Subset DEF Payers
<1>3. UnlockerMax + Cardinality(Asking) \in Nat
    BY MagpieAssumption, SomeOf
<1>4. Cardinality(PaidRows) + Cardinality(Payers) < UnlockerMax + Cardinality(Asking)
    BY DEF MagpieInv
<1>5. Cardinality(PaidRows') + Cardinality(Payers') < UnlockerMax + Cardinality(Asking)
    <2>1. PICK n \in Nat : n = UnlockerMax + Cardinality(Asking)
        BY <1>3
    <2>2. PICK A, W, B, V : A = PaidRows /\ W = Payers /\ B = PaidRows' /\ V = Payers'
        OBVIOUS
    <2>3. CASE B \subseteq A /\ V \subseteq W
        <3>1. Cardinality(B) + Cardinality(V) < n
            BY <1>1, <1>2, <1>4, <2>1, <2>2, <2>3, RowsAndWriters
        <3>2. QED BY <2>1, <2>2, <3>1
    <2>4. CASE \E k, r : r \in W /\ B \subseteq A \cup {k} /\ V \subseteq W \ {r}
        <3>1. IsFiniteSet(A) /\ IsFiniteSet(W) /\ Cardinality(A) + Cardinality(W) < n
            BY <1>1, <1>2, <1>4, <2>1, <2>2
        <3>2. \E x, t : t \in W /\ B \subseteq A \cup {x} /\ V \subseteq W \ {t}
            BY <2>4
        <3>3. Cardinality(B) + Cardinality(V) < n
            BY <3>1, <3>2, RowsAndWriters, Zenon
        <3>4. QED BY <2>1, <2>2, <3>3
    <2>5. QED BY <2>2, <2>3, <2>4
<1>6. QED BY <1>5 DEF MagpieInv

\* A thread that does not come to pay by its step.
LEMMA MagpieThread ==
    ASSUME MagpieInv, NEW r \in Asking, NEW q, asked' = [asked EXCEPT ![r] = q], AskedOK(q),
           attempt' \in Seq(AttemptRows), PaidRows' \subseteq PaidRows,
           q.at \in PayingSteps /\ q.pays => r \in Payers
    PROVE  MagpieInv'
<1>1. /\ DOMAIN asked' = Asking /\ asked'[r] = q
      /\ \A s \in Asking : s # r => asked'[s] = asked[s]
    BY DEF MagpieInv
<1>2. Payers' \subseteq Payers
    BY <1>1 DEF Payers
<1>3. QED BY <1>1, <1>2, MagpieRest DEF MagpieInv

\* A thread that settles the attempt it may have paid for, and answers.
LEMMA MagpieSettles ==
    ASSUME MagpieInv, NEW r \in Asking, asked[r].at \in Fetched, Answer(r),
           NEW state \in {"refused"} \cup Kinds,
           NEW reason \in {"unlocker_capped", "not_stored"} \cup Kinds,
           NEW bought \in BOOLEAN, bought => asked[r].paid,
           Settled(asked[r].key, state, reason, bought)
    PROVE  MagpieInv'
<1>1. /\ asked[r] \in Scrapes /\ asked[r].at \in PayingSteps
      /\ asked[r].paid => asked[r].pays
    BY DEF MagpieInv, AskedOK, Free, Fetched, PayingSteps
<1>2. /\ DOMAIN asked' = Asking /\ asked'[r] = Free
      /\ \A s \in Asking : s # r => asked'[s] = asked[s]
    BY DEF MagpieInv, Answer
<1>3. Payers' \subseteq Payers \ {r}
    BY <1>2 DEF Payers, Free, PayingSteps
<1> DEFINE k == asked[r].key
           row == [attempt[k] EXCEPT !.state = state, !.reason = reason, !.paid = bought]
<1>4. attempt' \in {attempt, [attempt EXCEPT ![k] = row]}
    BY DEF Settled
<1>5. k \in DOMAIN attempt => row \in AttemptRows /\ row.paid = bought
    <2>1. k \in DOMAIN attempt => attempt[k] \in AttemptRows
        BY DEF MagpieInv
    <2>2. QED BY <2>1 DEF AttemptRows
<1> HIDE DEF k, row
<1>6. attempt' \in Seq(AttemptRows) /\ PaidRows' \subseteq PaidRows \cup (IF bought THEN {k} ELSE {})
    <2>1. CASE attempt' = attempt
        BY <2>1 DEF PaidRows, MagpieInv
    <2>2. CASE attempt' = [attempt EXCEPT ![k] = row]
        <3>1. attempt' \in Seq(AttemptRows)
            <4>1. PICK n \in Nat : n = Len(attempt) /\ attempt \in [1 .. n -> AttemptRows]
                BY DEF MagpieInv
            <4>2. attempt' \in [1 .. n -> AttemptRows]
                BY <1>5, <2>2, <4>1
            <4>3. QED BY <4>2, SeqDef
        <3>2. DOMAIN attempt' = DOMAIN attempt
              /\ \A j \in DOMAIN attempt : attempt'[j] = IF j = k THEN row ELSE attempt[j]
            BY <2>2
        <3>3. QED BY <1>5, <3>1, <3>2 DEF PaidRows
    <2>3. QED BY <1>4, <2>1, <2>2
<1>7. CASE bought
    <2>1. r \in Payers
        BY <1>1, <1>7 DEF Payers
    <2>2. PaidRows' \subseteq PaidRows \cup {k}
        BY <1>6, <1>7
    <2>3. \A s \in Asking : AskedOK(asked'[s])
        BY <1>2 DEF AskedOK, MagpieInv
    <2>4. QED BY <1>2, <1>3, <1>6, <2>1, <2>2, <2>3, MagpieRest
<1>8. CASE ~bought
    <2>1. AskedOK(Free) /\ Free.at \notin PayingSteps
        BY DEF AskedOK, Free, PayingSteps
    <2>2. PaidRows' \subseteq PaidRows
        BY <1>6, <1>8
    <2>3. QED BY <1>6, <2>1, <2>2, MagpieThread DEF Answer
<1>9. QED BY <1>7, <1>8

LEMMA MagpieMeterRead ==
    ASSUME MagpieInv, NEW r \in Asking, NEW mayPay \in BOOLEAN, NEW readable \in BOOLEAN,
           MeterRead(r, mayPay, readable)
    PROVE  MagpieInv'
<1> DEFINE spent == ~readable \/ UnlockerUsedToday >= UnlockerMax
           q == [asked[r] EXCEPT !.at = "begin", !.capped = mayPay /\ spent,
                                 !.pays = mayPay /\ ~spent]
<1>1. asked[r] \in Scrapes
    BY DEF MagpieInv, AskedOK, Free, MeterRead
<1>2. asked' = [asked EXCEPT ![r] = q] /\ attempt' = attempt
    BY DEF MeterRead
<1>3. PICK b \in BOOLEAN : b = spent
    OBVIOUS
<1>4. q \in Scrapes /\ q.at = "begin" /\ q.pays = (mayPay /\ ~b) /\ ~q.paid
      /\ q.capped = (mayPay /\ b)
    <2>1. ~asked[r].paid
        BY <1>1 DEF MagpieInv, AskedOK, Free, MeterRead, Fetched
    <2>2. QED BY <1>1, <1>3, <2>1 DEF Scrapes, PayingSteps
<1>5. PaidRows' = PaidRows
    BY <1>2 DEF PaidRows
<1>6. AskedOK(q)
    BY <1>4 DEF AskedOK, Fetched
<1>7. b \/ Cardinality(PaidRows) < UnlockerMax
    <2>1. Cardinality(PaidRows) \in Nat /\ UnlockerMax \in Nat
        BY PaidAreFinite, MagpieAssumption
    <2>2. UnlockerUsedToday = Cardinality(PaidRows)
        BY DEF UnlockerUsedToday, PaidRows
    <2>3. ~b => ~(Cardinality(PaidRows) >= UnlockerMax)
        BY <1>3, <2>2, Zenon
    <2>4. QED BY <2>1, <2>3
<1> HIDE DEF q, spent
<1>8. CASE b
    BY <1>2, <1>4, <1>5, <1>6, <1>8, MagpieThread DEF MagpieInv
<1>9. CASE ~b
    <2>1. Cardinality(PaidRows) < UnlockerMax
        BY <1>7, <1>9
    <2>2. IsFiniteSet(PaidRows)
        BY PaidAreFinite
    <2>3. Payers' \subseteq Asking
        BY DEF Payers
    <2>4. Cardinality(PaidRows) + Cardinality(Payers') < UnlockerMax + Cardinality(Asking)
        BY <2>1, <2>2, <2>3, MagpieAssumption, BelowTheCap
    <2>5. QED BY <1>2, <1>5, <1>6, <2>4 DEF MagpieInv
<1>10. QED BY <1>8, <1>9

LEMMA MagpieBegin ==
    ASSUME MagpieInv, NEW r \in Asking, BeginAttempt(r)
    PROVE  MagpieInv'
<1> DEFINE row == [url |-> asked[r].url, state |-> "running", reason |-> "none", paid |-> FALSE]
           q == [asked[r] EXCEPT !.at = "fetch", !.key = Len(attempt) + 1]
<1>1. asked[r] \in Scrapes /\ asked[r].at = "begin"
    BY DEF MagpieInv, AskedOK, Free, BeginAttempt
<1>2. row \in AttemptRows /\ row.paid = FALSE
    BY <1>1 DEF AttemptRows, Scrapes, Kinds
<1>3. q \in Scrapes /\ q.at = "fetch" /\ q.pays = asked[r].pays /\ q.paid = asked[r].paid
      /\ q.capped = asked[r].capped
    <2>1. PICK n \in Nat : n = Len(attempt) + 1
        BY DEF MagpieInv
    <2>2. q = [asked[r] EXCEPT !.at = "fetch", !.key = n]
        BY <2>1
    <2>3. QED BY <1>1, <2>2 DEF Scrapes, PayingSteps
<1>4. attempt' = Append(attempt, row) /\ asked' = [asked EXCEPT ![r] = q]
    BY DEF BeginAttempt
<1> HIDE DEF row, q
<1>5. attempt' \in Seq(AttemptRows) /\ PaidRows' \subseteq PaidRows
    <2>1. /\ attempt' \in Seq(AttemptRows) /\ DOMAIN attempt = 1 .. Len(attempt)
          /\ DOMAIN attempt' = 1 .. Len(attempt) + 1 /\ Len(attempt) \in Nat
          /\ \A k \in DOMAIN attempt : attempt'[k] = attempt[k]
          /\ attempt'[Len(attempt) + 1] = row
        BY <1>2, <1>4 DEF MagpieInv
    <2>2. QED BY <1>2, <2>1 DEF PaidRows
<1>6. AskedOK(q)
    BY <1>1, <1>3 DEF AskedOK, Fetched, MagpieInv, Free
<1>7. q.pays => r \in Payers
    BY <1>1, <1>3 DEF Payers, PayingSteps
<1>8. QED BY <1>4, <1>5, <1>6, <1>7, MagpieThread

LEMMA MagpieFetched ==
    ASSUME MagpieInv, NEW r \in Asking,
           NEW kind \in {"article", "too_short", "not_a_page", "paywall"},
           NEW text \in Texts, NEW bought \in BOOLEAN, PageFetched(r, kind, text, bought)
    PROVE  MagpieInv'
<1> DEFINE q == [asked[r] EXCEPT !.at = IF kind = "article" THEN "put" ELSE "settle",
                                 !.kind = kind, !.got = text, !.paid = bought]
<1>1. asked[r] \in Scrapes /\ asked[r].at = "fetch" /\ ~(asked[r].pays /\ asked[r].capped)
    BY DEF MagpieInv, AskedOK, Free, PageFetched
<1>2. /\ q \in Scrapes /\ q.at \in Fetched /\ q.capped = asked[r].capped
      /\ q.pays = asked[r].pays /\ q.paid = bought
    BY <1>1 DEF Scrapes, Fetched, PayingSteps, Kinds
<1>3. asked' = [asked EXCEPT ![r] = q] /\ attempt' = attempt /\ (bought => asked[r].pays)
    BY DEF PageFetched
<1> HIDE DEF q
<1>4. AskedOK(q)
    BY <1>1, <1>2, <1>3 DEF AskedOK
<1>5. q.pays => r \in Payers
    BY <1>1, <1>2 DEF Payers, PayingSteps
<1>6. PaidRows' = PaidRows /\ attempt' \in Seq(AttemptRows)
    BY <1>3 DEF PaidRows, MagpieInv
<1>7. QED BY <1>3, <1>4, <1>5, <1>6, MagpieThread

\* The other steps of a thread that scrapes leave what it paid and may as they were.
LEMMA MagpieGoes ==
    ASSUME MagpieInv, NEW r \in Asking, asked[r].at \in PayingSteps, NEW q \in Scrapes,
           q.at \in Fetched, q.pays = asked[r].pays, q.paid = asked[r].paid,
           q.capped = asked[r].capped, asked' = [asked EXCEPT ![r] = q], attempt' = attempt
    PROVE  MagpieInv'
<1>1. asked[r] \in Scrapes /\ (asked[r].paid => asked[r].pays)
      /\ ~(asked[r].pays /\ asked[r].capped)
    BY DEF MagpieInv, AskedOK, Free, PayingSteps
<1>2. AskedOK(q)
    BY <1>1 DEF AskedOK
<1>3. q.pays => r \in Payers
    BY <1>1 DEF Payers
<1>4. PaidRows' = PaidRows /\ attempt' \in Seq(AttemptRows)
    BY DEF PaidRows, MagpieInv
<1>5. QED BY <1>2, <1>3, <1>4, MagpieThread

LEMMA MagpieRestart == MagpieInv /\ MagpieRestarts => MagpieInv'
<1> SUFFICES ASSUME MagpieInv, MagpieRestarts PROVE MagpieInv'
    OBVIOUS
<1>1. asked' = [r \in Asking |-> Free]
    BY DEF MagpieRestarts
<1>2. Payers' = {} /\ DOMAIN asked' = Asking /\ \A r \in Asking : AskedOK(asked'[r])
    BY <1>1 DEF Payers, Free, PayingSteps, AskedOK
<1> DEFINE row(k) == IF Unsettled(k)
                     THEN [attempt[k] EXCEPT !.state = "failed", !.reason = "restarted"]
                     ELSE attempt[k]
<1>3. ASSUME NEW k \in DOMAIN attempt
      PROVE  row(k) \in AttemptRows /\ row(k).paid = attempt[k].paid
    <2>1. attempt[k] \in AttemptRows
        BY DEF MagpieInv
    <2>2. QED BY <2>1 DEF AttemptRows, Kinds
<1>4. attempt' = attempt \/ attempt' = [k \in DOMAIN attempt |-> row(k)]
    BY DEF MagpieRestarts
<1> HIDE DEF row
<1>5. attempt' \in Seq(AttemptRows) /\ PaidRows' \subseteq PaidRows
    <2>1. CASE attempt' = attempt
        BY <2>1 DEF PaidRows, MagpieInv
    <2>2. CASE attempt' = [k \in DOMAIN attempt |-> row(k)]
        <3>1. PICK n \in Nat : DOMAIN attempt = 1 .. n
            BY DEF MagpieInv
        <3>2. attempt' \in [1 .. n -> AttemptRows]
            BY <1>3, <2>2, <3>1
        <3>3. attempt' \in Seq(AttemptRows)
            BY <3>2, SeqDef
        <3>4. QED BY <1>3, <2>2, <3>3 DEF PaidRows
    <2>3. QED BY <1>4, <2>1, <2>2
<1>6. QED BY <1>2, <1>5, MagpieRest

LEMMA MagpieInvHolds == MagpieSpec => []MagpieInv
<1>1. MagpieInv /\ [MagpieNext]_magpieVars => MagpieInv'
    <2> SUFFICES ASSUME MagpieInv, [MagpieNext]_magpieVars PROVE MagpieInv'
        OBVIOUS
    <2>0. AskedOK(Free) /\ Free.at \notin PayingSteps
        BY DEF AskedOK, Free, PayingSteps
    <2>1. ASSUME UNCHANGED <<attempt, asked>> PROVE MagpieInv'
        BY <2>1 DEF MagpieInv, PaidRows, Payers
    <2>2. ASSUME NEW r \in Asking, Answer(r), UNCHANGED attempt PROVE MagpieInv'
        <3>1. attempt' \in Seq(AttemptRows) /\ PaidRows' = PaidRows
            BY <2>2 DEF PaidRows, MagpieInv
        <3>2. QED BY <2>0, <2>2, <3>1, MagpieThread DEF Answer
    <2>3. ASSUME NEW u \in Urls, ForgetDocument(u) PROVE MagpieInv'
        BY <2>1, <2>3 DEF ForgetDocument
    <2>4. ASSUME NEW r \in Asking, NEW u \in Urls, ScrapeAsked(r, u) PROVE MagpieInv'
        <3> DEFINE q == [at |-> "meter", url |-> u, pays |-> FALSE, capped |-> FALSE, key |-> 0,
                         got |-> Nothing, kind |-> "none", paid |-> FALSE]
        <3>1. q \in Scrapes /\ q.at = "meter" /\ ~q.paid /\ ~q.pays
            BY DEF Scrapes, Kinds
        <3>2. asked' = [asked EXCEPT ![r] = q] /\ attempt' = attempt
            BY <2>4 DEF ScrapeAsked
        <3> HIDE DEF q
        <3>3. AskedOK(q) /\ q.at \notin PayingSteps
            BY <3>1 DEF AskedOK, PayingSteps
        <3>4. attempt' \in Seq(AttemptRows) /\ PaidRows' = PaidRows
            BY <3>2 DEF PaidRows, MagpieInv
        <3>5. QED BY <3>2, <3>3, <3>4, MagpieThread
    <2>5. ASSUME NEW r \in Asking, NEW u \in Urls, ExpandAsked(r, u) PROVE MagpieInv'
        <3> DEFINE q == [at |-> "links", url |-> u, key |-> document[u].id,
                         got |-> document[u].text]
        <3>1. "at" \in DOMAIN q /\ q.at = "links"
            OBVIOUS
        <3>2. asked' = [asked EXCEPT ![r] = q] /\ attempt' = attempt
            BY <2>5 DEF ExpandAsked
        <3> HIDE DEF q
        <3>3. AskedOK(q) /\ q.at \notin PayingSteps
            BY <3>1 DEF AskedOK, PayingSteps
        <3>4. attempt' \in Seq(AttemptRows) /\ PaidRows' = PaidRows
            BY <3>2 DEF PaidRows, MagpieInv
        <3>5. QED BY <3>2, <3>3, <3>4, MagpieThread
    <2>6. ASSUME NEW r \in Asking, NEW kind \in {"robots", "not_a_page", "failed"},
                 NotFetched(r, kind)
          PROVE  MagpieInv'
        <3> DEFINE q == [asked[r] EXCEPT !.at = "settle", !.kind = kind]
        <3>1. asked[r] \in Scrapes /\ asked[r].at \in PayingSteps
            BY <2>6 DEF MagpieInv, AskedOK, Free, NotFetched, PayingSteps
        <3>2. /\ q \in Scrapes /\ q.at \in Fetched
              /\ q.pays = asked[r].pays /\ q.paid = asked[r].paid
              /\ q.capped = asked[r].capped
            BY <3>1 DEF Scrapes, Fetched, PayingSteps, Kinds
        <3>3. asked' = [asked EXCEPT ![r] = q] /\ attempt' = attempt
            BY <2>6 DEF NotFetched
        <3>4. QED BY <3>1, <3>2, <3>3, MagpieGoes
    <2>7. ASSUME NEW r \in Asking, PutPayload(r) PROVE MagpieInv'
        <3> DEFINE q == [asked[r] EXCEPT !.at = "save"]
        <3>1. asked[r] \in Scrapes /\ asked[r].at \in PayingSteps
            BY <2>7 DEF MagpieInv, AskedOK, Free, PutPayload, PayingSteps
        <3>2. /\ q \in Scrapes /\ q.at \in Fetched
              /\ q.pays = asked[r].pays /\ q.paid = asked[r].paid
              /\ q.capped = asked[r].capped
            BY <3>1 DEF Scrapes, Fetched, PayingSteps, Kinds
        <3>3. asked' = [asked EXCEPT ![r] = q] /\ attempt' = attempt
            BY <2>7 DEF PutPayload, Goto
        <3>4. QED BY <3>1, <3>2, <3>3, MagpieGoes
    <2>8. ASSUME NEW r \in Asking, SaveDocument(r) PROVE MagpieInv'
        <3> PICK kind \in Kinds : asked' = [asked EXCEPT ![r].at = "keep", ![r].kind = kind]
            BY <2>8 DEF SaveDocument, Kinds
        <3> DEFINE q == [asked[r] EXCEPT !.at = "keep", !.kind = kind]
        <3>1. asked[r] \in Scrapes /\ asked[r].at \in PayingSteps
            BY <2>8 DEF MagpieInv, AskedOK, Free, SaveDocument, PayingSteps
        <3>2. /\ q \in Scrapes /\ q.at \in Fetched
              /\ q.pays = asked[r].pays /\ q.paid = asked[r].paid
              /\ q.capped = asked[r].capped
            BY <3>1 DEF Scrapes, Fetched, PayingSteps
        <3>3. asked' = [asked EXCEPT ![r] = q] /\ attempt' = attempt
            BY <2>8 DEF SaveDocument
        <3>4. QED BY <3>1, <3>2, <3>3, MagpieGoes
    <2>9. ASSUME NEW r \in Asking, SettleUnkept(r) PROVE MagpieInv'
        <3> DEFINE q == asked[r]
                   state == IF q.kind \in {"robots", "not_a_page", "paywall", "too_short"}
                            THEN "refused" ELSE "failed"
                   reason == IF q.kind = "failed" /\ q.capped THEN "unlocker_capped" ELSE q.kind
        <3>1. q \in Scrapes /\ q.at \in Fetched
            BY <2>9 DEF MagpieInv, AskedOK, Free, SettleUnkept, Fetched
        <3>2. /\ state \in {"refused"} \cup Kinds
              /\ reason \in {"unlocker_capped", "not_stored"} \cup Kinds
            BY <3>1 DEF Scrapes, Kinds
        <3>3. PICK bought \in BOOLEAN : bought = (q.kind = "too_short" /\ q.paid)
            OBVIOUS
        <3>4. Settled(q.key, state, reason, bought) /\ Answer(r) /\ (bought => q.paid)
            BY <2>9, <3>3 DEF SettleUnkept
        <3> HIDE DEF state, reason
        <3>5. QED BY <3>1, <3>2, <3>4, MagpieSettles
    <2>10. ASSUME NEW r \in Asking, SettleKept(r) PROVE MagpieInv'
        <3>1. asked[r] \in Scrapes /\ asked[r].at \in Fetched
            BY <2>10 DEF MagpieInv, AskedOK, Free, SettleKept, Fetched
        <3>2. PICK state \in Kinds, bought \in BOOLEAN :
                  state = asked[r].kind /\ bought = asked[r].paid
            BY <3>1 DEF Scrapes
        <3>3. Settled(asked[r].key, state, "none", bought) /\ Answer(r)
            BY <2>10, <3>2 DEF SettleKept
        <3>4. "none" \in Kinds
            BY DEF Kinds
        <3>5. QED BY <3>1, <3>2, <3>3, <3>4, MagpieSettles
    <2>11. ASSUME NEW r \in Asking, NotStored(r) PROVE MagpieInv'
        <3>1. asked[r].at \in Fetched /\ "failed" \in Kinds
            BY <2>11 DEF NotStored, Fetched, Kinds
        <3>2. Settled(asked[r].key, "failed", "not_stored", FALSE) /\ Answer(r)
            BY <2>11 DEF NotStored
        <3>3. QED BY <3>1, <3>2, MagpieSettles
    <2>12. ASSUME NEW r \in Asking, SaveLinks(r) PROVE MagpieInv'
        <3> DEFINE q == [asked[r] EXCEPT !.at = "stamp"]
        <3>1. "at" \in DOMAIN asked[r]
            BY <2>12 DEF MagpieInv, AskedOK, Free, SaveLinks, Scrapes
        <3>2. "at" \in DOMAIN q /\ q.at = "stamp"
            BY <3>1
        <3>3. asked' = [asked EXCEPT ![r] = q] /\ attempt' = attempt
            BY <2>12 DEF SaveLinks, Goto
        <3> HIDE DEF q
        <3>4. AskedOK(q) /\ q.at \notin PayingSteps
            BY <3>2 DEF AskedOK, PayingSteps
        <3>5. attempt' \in Seq(AttemptRows) /\ PaidRows' = PaidRows
            BY <3>3 DEF PaidRows, MagpieInv
        <3>6. QED BY <3>3, <3>4, <3>5, MagpieThread
    <2>13. ASSUME NEW r \in Asking, Stamp(r) \/ LinksLost(r) PROVE MagpieInv'
        BY <2>2, <2>13 DEF Stamp, LinksLost
    <2>14. CASE UNCHANGED magpieVars
        BY <2>1, <2>14 DEF magpieVars
    <2>15. QED
        BY <2>3, <2>4, <2>5, <2>6, <2>7, <2>8, <2>9, <2>10, <2>11, <2>12, <2>13, <2>14,
           MagpieRestart, MagpieMeterRead, MagpieBegin, MagpieFetched DEF MagpieNext
<1>2. QED BY MagpieStart, <1>1, PTL DEF MagpieSpec

\* A thread that has the attempt it makes.
Keyed(q) == q.at \in {"fetch"} \cup Fetched

\* It may pay for it, and the answer it got was the billed rung's.
PaysFor(q) ==
    /\ q.pays
    /\ IF q.at = "settle"
       THEN q.kind = "failed" \/ (q.paid /\ q.kind \in {"too_short", "not_a_page", "paywall"})
       ELSE q.paid

NoRung == {"not_a_page", "paywall", "failed", "not_stored", "restarted"}

\* The attempts that are not settled.
Open == {k \in DOMAIN attempt : Unsettled(k)}

\* Of a thread, of what is billed and of the attempts that are open.
KeyOK(q, paidFor, rows) ==
    Keyed(q) => /\ q.key \in rows
                /\ q.at = "fetch" => q.key \notin paidFor
                /\ q.at \in Fetched /\ q.key \in paidFor => PaysFor(q)

\* Its row says so of an attempt that was billed, or it is not settled, or what it
\* was settled as says no rung.
BilledRowOK(row) == row.paid \/ row.state \in {"requested", "running"} \/ row.reason \in NoRung

\* What reached the paid rung is the attempt of at most one thread, whose row or
\* whose thread says so.
BilledInv ==
    /\ billed \subseteq DOMAIN attempt
    /\ \A k \in billed : BilledRowOK(attempt[k])
    /\ \A r \in Asking : KeyOK(asked[r], billed, Open)
    /\ \A r, s \in Asking :
          Keyed(asked[r]) /\ Keyed(asked[s]) /\ asked[r].key = asked[s].key => r = s

\* A thread that goes on with its attempt, or has none.
LEMMA BilledThread ==
    ASSUME MagpieInv, BilledInv, NEW r \in Asking, NEW q, asked' = [asked EXCEPT ![r] = q],
           Keyed(q) => Keyed(asked[r]) /\ q.key = asked[r].key,
           attempt' = attempt,
           billed' = billed \/ (Keyed(asked[r]) /\ billed' = billed \cup {asked[r].key}
                                /\ ~(asked[r].at \in Fetched)),
           KeyOK(q, billed', Open)
    PROVE  BilledInv'
<1>1. asked'[r] = q /\ \A s \in Asking : s # r => asked'[s] = asked[s]
    BY DEF MagpieInv
<1>2. billed' \subseteq DOMAIN attempt /\ \A k \in billed' : BilledRowOK(attempt[k])
    <2>1. Keyed(asked[r]) => asked[r].key \in DOMAIN attempt /\ BilledRowOK(attempt[asked[r].key])
        BY DEF BilledInv, KeyOK, Open, BilledRowOK, Unsettled
    <2>2. QED BY <2>1 DEF BilledInv
<1>3. ASSUME NEW s \in Asking, s # r PROVE KeyOK(asked[s], billed', Open)
    <2>1. KeyOK(asked[s], billed, Open)
        BY DEF BilledInv
    <2>2. CASE ~Keyed(asked[s])
        BY <2>2 DEF KeyOK
    <2>3. CASE Keyed(asked[s]) /\ billed' = billed
        BY <2>1, <2>3
    <2>4. CASE Keyed(asked[s]) /\ Keyed(asked[r]) /\ billed' = billed \cup {asked[r].key}
        <3>1. asked[s].key # asked[r].key
            BY <1>3, <2>4 DEF BilledInv
        <3>2. QED BY <2>1, <2>4, <3>1 DEF KeyOK
    <2>5. QED BY <2>2, <2>3, <2>4
<1>4. Open' = Open /\ \A s \in Asking : KeyOK(asked'[s], billed', Open)
    BY <1>1, <1>3 DEF Open, Unsettled
<1>5. ASSUME NEW s \in Asking, NEW t \in Asking, Keyed(asked'[s]), Keyed(asked'[t]),
             asked'[s].key = asked'[t].key
      PROVE  s = t
    <2>1. Keyed(asked[s]) /\ asked'[s].key = asked[s].key
        BY <1>1, <1>5
    <2>2. Keyed(asked[t]) /\ asked'[t].key = asked[t].key
        BY <1>1, <1>5
    <2>3. QED BY <1>5, <2>1, <2>2 DEF BilledInv
<1>6. QED BY <1>2, <1>4, <1>5 DEF BilledInv, Keyed

\* Rows that stay as they should and threads that stay or have no attempt.
LEMMA BilledRows ==
    ASSUME BilledInv, billed' = billed, DOMAIN attempt' = DOMAIN attempt,
           \A k \in billed : BilledRowOK(attempt'[k]),
           \A s \in Asking :
              Keyed(asked'[s]) => asked'[s] = asked[s] /\ asked[s].key \in Open'
    PROVE  BilledInv'
<1>1. ASSUME NEW s \in Asking PROVE KeyOK(asked'[s], billed', Open')
    BY <1>1 DEF BilledInv, KeyOK
<1>2. ASSUME NEW s \in Asking, NEW t \in Asking, Keyed(asked'[s]), Keyed(asked'[t]),
             asked'[s].key = asked'[t].key
      PROVE  s = t
    BY <1>2 DEF BilledInv
<1>3. QED BY <1>1, <1>2 DEF BilledInv, Keyed

LEMMA BilledSettles ==
    ASSUME MagpieInv, BilledInv, NEW r \in Asking, NEW state, NEW reason, NEW bought,
           Answer(r), Settled(asked[r].key, state, reason, bought), billed' = billed,
           Keyed(asked[r]), asked[r].key \in billed => bought = TRUE \/ reason \in NoRung
    PROVE  BilledInv'
<1> DEFINE k == asked[r].key
           row == [attempt[k] EXCEPT !.state = state, !.reason = reason, !.paid = bought]
<1>1. asked'[r] = Free /\ \A s \in Asking : s # r => asked'[s] = asked[s]
    BY DEF MagpieInv, Answer
<1>2. ~Keyed(Free)
    BY DEF Keyed, Free, Fetched
<1>3. attempt' = attempt \/ attempt' = [attempt EXCEPT ![k] = row]
    BY DEF Settled
<1>4. k \in billed => row.paid = bought /\ row.reason = reason
    <2>1. k \in billed => attempt[k] \in AttemptRows
        BY DEF BilledInv, MagpieInv
    <2>2. QED BY <2>1 DEF AttemptRows
<1>5. k \in billed => BilledRowOK(row)
    BY <1>4 DEF BilledRowOK
<1> HIDE DEF row
<1>6. DOMAIN attempt' = DOMAIN attempt /\ \A j \in billed : BilledRowOK(attempt'[j])
    <2>1. \A j \in billed : j \in DOMAIN attempt /\ BilledRowOK(attempt[j])
        BY DEF BilledInv
    <2>2. CASE attempt' = attempt
        BY <2>1, <2>2
    <2>3. CASE attempt' = [attempt EXCEPT ![k] = row]
        <3>1. \A j \in DOMAIN attempt : attempt'[j] = IF j = k THEN row ELSE attempt[j]
            BY <2>3
        <3>2. QED BY <1>5, <2>1, <2>3, <3>1
    <2>4. QED BY <1>3, <2>2, <2>3
<1>7. ASSUME NEW s \in Asking, Keyed(asked'[s])
      PROVE  asked'[s] = asked[s] /\ asked[s].key \in Open'
    <2>1. s # r /\ asked'[s] = asked[s] /\ Keyed(asked[s])
        BY <1>1, <1>2, <1>7
    <2>2. asked[s].key # k /\ asked[s].key \in DOMAIN attempt /\ Unsettled(asked[s].key)
        BY <2>1 DEF BilledInv, KeyOK, Open
    <2>3. attempt'[asked[s].key] = attempt[asked[s].key]
        BY <1>3, <2>2
    <2>4. QED BY <1>6, <2>1, <2>2, <2>3 DEF Open, Unsettled
<1>8. QED BY <1>6, <1>7, BilledRows

LEMMA BilledBegin ==
    ASSUME MagpieInv, BilledInv, NEW r \in Asking, BeginAttempt(r)
    PROVE  BilledInv'
<1>1. asked[r] \in Scrapes
    BY DEF MagpieInv, AskedOK, Free, BeginAttempt
<1>2. PICK n \in Nat : n = Len(attempt) + 1
    BY DEF MagpieInv
<1> DEFINE row == [url |-> asked[r].url, state |-> "running", reason |-> "none", paid |-> FALSE]
           q == [asked[r] EXCEPT !.at = "fetch", !.key = n]
<1>3. attempt' = Append(attempt, row) /\ billed' = billed
    BY DEF BeginAttempt
<1> HIDE DEF row
<1>4. /\ DOMAIN attempt = 1 .. n - 1 /\ DOMAIN attempt' = 1 .. n
      /\ \A j \in 1 .. n - 1 : attempt'[j] = attempt[j]
    BY <1>2, <1>3 DEF MagpieInv
<1>5. q.at = "fetch" /\ q.key = n
    BY <1>1 DEF Scrapes
<1>6. asked' = [asked EXCEPT ![r] = q]
    BY <1>2 DEF BeginAttempt
<1> HIDE DEF q
<1>7. asked'[r] = q /\ \A s \in Asking : s # r => asked'[s] = asked[s]
    BY <1>6 DEF MagpieInv
<1>8. n \notin DOMAIN attempt /\ DOMAIN attempt \subseteq DOMAIN attempt'
    BY <1>4
<1>a. attempt'[n] = row /\ row.state = "running"
    BY <1>2, <1>3 DEF MagpieInv, row
<1>b. n \in Open' /\ Open \subseteq Open'
    <2>1. n \in DOMAIN attempt' /\ attempt'[n].state = "running"
        BY <1>2, <1>4, <1>a
    <2>2. \A k \in DOMAIN attempt : k \in DOMAIN attempt' /\ attempt'[k] = attempt[k]
        BY <1>4
    <2>3. QED BY <2>1, <2>2 DEF Open, Unsettled
<1>9. billed' \subseteq DOMAIN attempt' /\ n \notin billed
    BY <1>3, <1>8 DEF BilledInv
<1>10. \A k \in billed' : BilledRowOK(attempt'[k])
    BY <1>3, <1>4 DEF BilledInv
<1>11. KeyOK(q, billed', Open')
    BY <1>3, <1>5, <1>9, <1>b DEF KeyOK, Fetched
<1>12. \A s \in Asking : s # r => KeyOK(asked[s], billed', Open')
                                  /\ (Keyed(asked[s]) => asked[s].key # n)
    BY <1>3, <1>8, <1>b DEF BilledInv, KeyOK, Open
<1>13. \A s \in Asking : KeyOK(asked'[s], billed', Open')
    BY <1>7, <1>11, <1>12
<1>14. ASSUME NEW s \in Asking, NEW t \in Asking, Keyed(asked'[s]), Keyed(asked'[t]),
              asked'[s].key = asked'[t].key
       PROVE  s = t
    BY <1>5, <1>7, <1>12, <1>14 DEF BilledInv
<1>15. QED BY <1>9, <1>10, <1>13, <1>14 DEF BilledInv, Keyed

LEMMA BilledInvHolds == MagpieSpec => []BilledInv
<1>1. MagpieInit => BilledInv
    BY DEF MagpieInit, BilledInv, Free, Keyed, KeyOK, Fetched
<1>2. MagpieInv /\ BilledInv /\ [MagpieNext]_magpieVars => BilledInv'
    <2> SUFFICES ASSUME MagpieInv, BilledInv, [MagpieNext]_magpieVars PROVE BilledInv'
        OBVIOUS
    <2>1. ASSUME UNCHANGED <<attempt, billed, asked>> PROVE BilledInv'
        BY <2>1 DEF BilledInv, Open, Unsettled
    <2>2. ASSUME NEW r \in Asking, NEW q, asked' = [asked EXCEPT ![r] = q], ~Keyed(q),
                 UNCHANGED <<attempt, billed>>
          PROVE  BilledInv'
        <3>1. asked'[r] = q /\ \A s \in Asking : s # r => asked'[s] = asked[s]
            BY <2>2 DEF MagpieInv
        <3>2. \A k \in billed : BilledRowOK(attempt'[k])
            BY <2>2 DEF BilledInv
        <3>3. ASSUME NEW s \in Asking, Keyed(asked'[s])
              PROVE  asked'[s] = asked[s] /\ asked[s].key \in Open'
            <4>1. asked'[s] = asked[s] /\ asked[s].key \in Open
                BY <2>2, <3>1, <3>3 DEF BilledInv, KeyOK
            <4>2. QED BY <2>2, <4>1 DEF Open, Unsettled
        <3>4. QED BY <2>2, <3>2, <3>3, BilledRows
    <2>3. CASE MagpieRestarts
        <3>1. billed' = billed /\ asked' = [r \in Asking |-> Free]
            BY <2>3 DEF MagpieRestarts
        <3>2. \A r \in Asking : ~Keyed(asked'[r])
            BY <3>1 DEF Free, Keyed, Fetched
        <3> DEFINE row(k) == IF Unsettled(k)
                             THEN [attempt[k] EXCEPT !.state = "failed", !.reason = "restarted"]
                             ELSE attempt[k]
        <3>3. attempt' = attempt \/ attempt' = [k \in DOMAIN attempt |-> row(k)]
            BY <2>3 DEF MagpieRestarts
        <3>4. ASSUME NEW k \in billed PROVE BilledRowOK(row(k)) /\ BilledRowOK(attempt[k])
            <4>1. attempt[k] \in AttemptRows /\ BilledRowOK(attempt[k])
                BY DEF MagpieInv, BilledInv
            <4>2. QED BY <4>1 DEF AttemptRows, BilledRowOK, NoRung
        <3> HIDE DEF row
        <3>5. DOMAIN attempt' = DOMAIN attempt /\ billed \subseteq DOMAIN attempt
            BY <3>3 DEF BilledInv
        <3>6. \A k \in billed : BilledRowOK(attempt'[k])
            BY <3>3, <3>4, <3>5
        <3>7. QED BY <3>1, <3>2, <3>5, <3>6, BilledRows
    <2>4. ASSUME NEW u \in Urls, ForgetDocument(u) PROVE BilledInv'
        BY <2>1, <2>4 DEF ForgetDocument
    <2>5. ASSUME NEW r \in Asking, NEW u \in Urls, ScrapeAsked(r, u) \/ ExpandAsked(r, u)
          PROVE  BilledInv'
        <3>1. \E q : ~Keyed(q) /\ asked' = [asked EXCEPT ![r] = q]
            <4>1. CASE ScrapeAsked(r, u)
                <5>1. PICK q : q.at = "meter" /\ asked' = [asked EXCEPT ![r] = q]
                    BY <4>1 DEF ScrapeAsked
                <5>2. QED BY <5>1 DEF Keyed, Fetched
            <4>2. CASE ExpandAsked(r, u)
                <5>1. PICK q : q.at = "links" /\ asked' = [asked EXCEPT ![r] = q]
                    BY <4>2 DEF ExpandAsked
                <5>2. QED BY <5>1 DEF Keyed, Fetched
            <4>3. QED BY <2>5, <4>1, <4>2
        <3>2. UNCHANGED <<attempt, billed>>
            BY <2>5 DEF ScrapeAsked, ExpandAsked
        <3>3. QED BY <2>2, <3>1, <3>2
    <2>6. ASSUME NEW r \in Asking, NEW mayPay \in BOOLEAN, NEW readable \in BOOLEAN,
                 MeterRead(r, mayPay, readable)
          PROVE  BilledInv'
        <3>1. asked[r] \in Scrapes
            BY <2>6 DEF MagpieInv, AskedOK, Free, MeterRead
        <3>2. PICK spent : asked' = [asked EXCEPT ![r].at = "begin", ![r].capped = mayPay /\ spent,
                                                  ![r].pays = mayPay /\ ~spent]
            BY <2>6 DEF MeterRead
        <3> DEFINE q == [asked[r] EXCEPT !.at = "begin", !.capped = mayPay /\ spent,
                                         !.pays = mayPay /\ ~spent]
        <3>3. q.at = "begin"
            BY <3>1 DEF Scrapes
        <3>4. asked' = [asked EXCEPT ![r] = q]
            BY <3>2
        <3> HIDE DEF q
        <3>5. UNCHANGED <<attempt, billed>>
            BY <2>6 DEF MeterRead
        <3>6. ~Keyed(q)
            BY <3>3 DEF Keyed, Fetched
        <3>7. QED BY <2>2, <3>4, <3>5, <3>6
    <2>7. ASSUME NEW r \in Asking, BeginAttempt(r) PROVE BilledInv'
        BY <2>7, BilledBegin
    <2>8. ASSUME NEW r \in Asking, NEW kind \in {"robots", "not_a_page", "failed"},
                 NotFetched(r, kind)
          PROVE  BilledInv'
        <3> DEFINE q == [asked[r] EXCEPT !.at = "settle", !.kind = kind]
        <3>1. asked[r] \in Scrapes /\ asked[r].at = "fetch"
            BY <2>8 DEF MagpieInv, AskedOK, Free, NotFetched
        <3>2. /\ q.at = "settle" /\ q.kind = kind /\ q.pays = asked[r].pays
              /\ q.key = asked[r].key
            BY <3>1 DEF Scrapes
        <3>3. asked' = [asked EXCEPT ![r] = q] /\ attempt' = attempt
            BY <2>8 DEF NotFetched
        <3> HIDE DEF q
        <3>4. Keyed(asked[r]) /\ asked[r].at \notin Fetched /\ q.at \in Fetched
            BY <3>1, <3>2 DEF Keyed, Fetched
        <3>5. KeyOK(asked[r], billed, Open)
            BY DEF BilledInv
        <3>6. asked[r].key \in Open /\ asked[r].key \notin billed
            BY <3>1, <3>4, <3>5 DEF KeyOK
        <3>7. CASE billed' = billed
            <4>1. KeyOK(q, billed', Open)
                BY <3>2, <3>6, <3>7 DEF KeyOK
            <4>2. QED BY <3>2, <3>3, <3>4, <3>7, <4>1, BilledThread
        <3>8. CASE kind = "failed" /\ asked[r].pays /\ billed' = billed \cup {asked[r].key}
            <4>1. KeyOK(q, billed', Open)
                BY <3>2, <3>6, <3>8 DEF KeyOK, PaysFor
            <4>2. QED BY <3>2, <3>3, <3>4, <3>8, <4>1, BilledThread
        <3>9. QED BY <2>8, <3>7, <3>8 DEF NotFetched
    <2>9. ASSUME NEW r \in Asking,
                 NEW kind \in {"article", "too_short", "not_a_page", "paywall"},
                 NEW text \in Texts, NEW bought \in BOOLEAN, PageFetched(r, kind, text, bought)
          PROVE  BilledInv'
        <3> DEFINE q == [asked[r] EXCEPT !.at = IF kind = "article" THEN "put" ELSE "settle",
                                         !.kind = kind, !.got = text, !.paid = bought]
        <3>1. asked[r] \in Scrapes /\ asked[r].at = "fetch"
            BY <2>9 DEF MagpieInv, AskedOK, Free, PageFetched
        <3>2. /\ q.at = (IF kind = "article" THEN "put" ELSE "settle") /\ q.kind = kind
              /\ q.paid = bought
              /\ q.pays = asked[r].pays /\ q.key = asked[r].key
            BY <3>1 DEF Scrapes
        <3>3. /\ asked' = [asked EXCEPT ![r] = q] /\ attempt' = attempt
              /\ bought => asked[r].pays
              /\ billed' = IF bought THEN billed \cup {asked[r].key} ELSE billed
            BY <2>9 DEF PageFetched
        <3> HIDE DEF q
        <3>4. Keyed(asked[r]) /\ asked[r].at \notin Fetched /\ q.at \in Fetched
            BY <3>1, <3>2 DEF Keyed, Fetched
        <3>5. KeyOK(asked[r], billed, Open)
            BY DEF BilledInv
        <3>6. asked[r].key \in Open /\ asked[r].key \notin billed
            BY <3>1, <3>4, <3>5 DEF KeyOK
        <3>7. KeyOK(q, billed', Open)
            BY <3>2, <3>3, <3>6 DEF KeyOK, PaysFor, Fetched
        <3>8. QED BY <3>2, <3>3, <3>4, <3>7, BilledThread
    \* The steps of a thread that scrapes on, or that reads a page's links.
    <2>10. ASSUME NEW r \in Asking, PutPayload(r) \/ SaveDocument(r) PROVE BilledInv'
        <3>1. asked[r] \in Scrapes /\ asked[r].at \in {"put", "save"}
            BY <2>10 DEF MagpieInv, AskedOK, Free, PutPayload, SaveDocument
        <3>2. \E q : /\ asked' = [asked EXCEPT ![r] = q] /\ q.at \in {"save", "keep"}
                     /\ q.key = asked[r].key /\ q.paid = asked[r].paid /\ q.pays = asked[r].pays
            <4>1. CASE PutPayload(r)
                <5> DEFINE q == [asked[r] EXCEPT !.at = "save"]
                <5>1. /\ q.at \in {"save", "keep"} /\ q.key = asked[r].key
                      /\ q.paid = asked[r].paid /\ q.pays = asked[r].pays
                    BY <3>1 DEF Scrapes
                <5>2. asked' = [asked EXCEPT ![r] = q]
                    BY <4>1 DEF PutPayload, Goto
                <5>3. QED BY <5>1, <5>2
            <4>2. CASE SaveDocument(r)
                <5>1. PICK kind : asked' = [asked EXCEPT ![r].at = "keep", ![r].kind = kind]
                    BY <4>2 DEF SaveDocument
                <5> DEFINE q == [asked[r] EXCEPT !.at = "keep", !.kind = kind]
                <5>2. /\ q.at \in {"save", "keep"} /\ q.key = asked[r].key
                      /\ q.paid = asked[r].paid /\ q.pays = asked[r].pays
                    BY <3>1 DEF Scrapes
                <5>3. asked' = [asked EXCEPT ![r] = q]
                    BY <5>1
                <5>4. QED BY <5>2, <5>3
            <4>3. QED BY <2>10, <4>1, <4>2
        <3>3. PICK q : /\ asked' = [asked EXCEPT ![r] = q] /\ q.at \in {"save", "keep"}
                       /\ q.key = asked[r].key /\ q.paid = asked[r].paid /\ q.pays = asked[r].pays
            BY <3>2
        <3>4. UNCHANGED <<attempt, billed>>
            BY <2>10 DEF PutPayload, SaveDocument
        <3>5. Keyed(asked[r]) /\ asked[r].at \in Fetched /\ asked[r].at # "settle"
              /\ q.at \in Fetched /\ q.at # "fetch"
            BY <3>1, <3>3 DEF Keyed, Fetched
        <3>6. KeyOK(asked[r], billed, Open)
            BY DEF BilledInv
        <3>7. KeyOK(q, billed', Open)
            BY <3>3, <3>4, <3>5, <3>6 DEF KeyOK, PaysFor
        <3>8. QED BY <3>3, <3>4, <3>5, <3>7, BilledThread
    <2>11. ASSUME NEW r \in Asking, SaveLinks(r) PROVE BilledInv'
        <3>1. "at" \in DOMAIN asked[r]
            BY <2>11 DEF MagpieInv, AskedOK, Free, SaveLinks, Scrapes
        <3> DEFINE q == [asked[r] EXCEPT !.at = "stamp"]
        <3>2. q.at = "stamp"
            BY <3>1
        <3>3. asked' = [asked EXCEPT ![r] = q] /\ UNCHANGED <<attempt, billed>>
            BY <2>11 DEF SaveLinks, Goto
        <3> HIDE DEF q
        <3>4. ~Keyed(q)
            BY <3>2 DEF Keyed, Fetched
        <3>5. QED BY <2>2, <3>3, <3>4
    <2>12. ASSUME NEW r \in Asking, SettleUnkept(r) PROVE BilledInv'
        <3>1. asked[r] \in Scrapes /\ asked[r].at = "settle"
            BY <2>12 DEF MagpieInv, AskedOK, Free, SettleUnkept
        <3>2. PICK state :
                  Settled(asked[r].key, state,
                          IF asked[r].kind = "failed" /\ asked[r].capped
                          THEN "unlocker_capped" ELSE asked[r].kind,
                          asked[r].kind = "too_short" /\ asked[r].paid)
            BY <2>12, Zenon DEF SettleUnkept
        <3>3. Answer(r) /\ billed' = billed
            BY <2>12 DEF SettleUnkept
        <3>4. Keyed(asked[r])
            BY <3>1 DEF Keyed, Fetched
        <3>5. asked[r].key \in billed => PaysFor(asked[r])
            BY <3>1, <3>4 DEF BilledInv, KeyOK, Fetched
        <3>a. asked[r].paid \in BOOLEAN /\ (asked[r].pays => ~asked[r].capped)
            BY <3>1 DEF MagpieInv, AskedOK, Free, Scrapes
        <3>6. asked[r].key \in billed =>
                 \/ (asked[r].kind = "too_short" /\ asked[r].paid) = TRUE
                 \/ (IF asked[r].kind = "failed" /\ asked[r].capped
                     THEN "unlocker_capped" ELSE asked[r].kind) \in NoRung
            BY <3>1, <3>5, <3>a DEF PaysFor, NoRung
        <3>7. QED BY <3>2, <3>3, <3>4, <3>6, BilledSettles
    <2>13. ASSUME NEW r \in Asking, SettleKept(r) PROVE BilledInv'
        <3>1. asked[r] \in Scrapes /\ asked[r].at = "keep"
            BY <2>13 DEF MagpieInv, AskedOK, Free, SettleKept
        <3>2. /\ Settled(asked[r].key, asked[r].kind, "none", asked[r].paid)
              /\ Answer(r) /\ billed' = billed
            BY <2>13 DEF SettleKept
        <3>3. Keyed(asked[r]) /\ asked[r].paid \in BOOLEAN
            BY <3>1 DEF Keyed, Fetched, Scrapes
        <3>4. asked[r].key \in billed => asked[r].paid = TRUE
            BY <3>1, <3>3 DEF BilledInv, KeyOK, Fetched, PaysFor
        <3>5. QED BY <3>2, <3>3, <3>4, BilledSettles
    <2>14. ASSUME NEW r \in Asking, NotStored(r) PROVE BilledInv'
        <3>1. Settled(asked[r].key, "failed", "not_stored", FALSE) /\ Answer(r)
              /\ billed' = billed /\ Keyed(asked[r])
            BY <2>14 DEF NotStored, Keyed, Fetched
        <3>2. "not_stored" \in NoRung
            BY DEF NoRung
        <3>3. QED BY <3>1, <3>2, BilledSettles
    <2>15. ASSUME NEW r \in Asking, Stamp(r) \/ LinksLost(r) PROVE BilledInv'
        <3>1. Answer(r) /\ UNCHANGED <<attempt, billed>> /\ ~Keyed(Free)
            BY <2>15 DEF Stamp, LinksLost, Keyed, Free, Fetched
        <3>2. QED BY <2>2, <3>1 DEF Answer
    <2>16. CASE UNCHANGED magpieVars
        BY <2>1, <2>16 DEF magpieVars
    <2>17. QED
        BY <2>3, <2>4, <2>5, <2>6, <2>7, <2>8, <2>9, <2>10, <2>11, <2>12, <2>13, <2>14,
           <2>15, <2>16 DEF MagpieNext
<1>3. QED BY <1>1, <1>2, MagpieInvHolds, PTL DEF MagpieSpec

LEMMA MeterReach == MagpieInv /\ BilledInv => MeterOvershoot
<1> SUFFICES ASSUME MagpieInv, BilledInv PROVE MeterOvershoot
    OBVIOUS
<1> DEFINE B == {k \in billed : ~Unsaid(k)}
           K == {asked[r].key : r \in Payers}
<1>1. IsFiniteSet(PaidRows) /\ Cardinality(PaidRows) \in Nat
    BY PaidAreFinite
<1>2. IsFiniteSet(Payers)
    BY MagpieAssumption, FS_Subset DEF Payers
<1>3. Cardinality(Payers) \in Nat /\ IsFiniteSet(K) /\ Cardinality(K) <= Cardinality(Payers)
      /\ Cardinality(K) \in Nat
    <2> DEFINE f == [r \in Payers |-> asked[r].key]
    <2>1. f \in [Payers -> K] /\ \A x \in K : \E r \in Payers : f[r] = x
        OBVIOUS
    <2>2. f \in Surjection(Payers, K)
        BY <2>1 DEF Surjection
    <2> HIDE DEF K, f
    <2>3. IsFiniteSet(K) /\ Cardinality(K) <= Cardinality(Payers)
        BY <1>2, <2>2, FS_Surjection
    <2>4. QED BY <1>2, <2>3, FS_CardinalityType
<1>4. ASSUME NEW k \in B PROVE k \in PaidRows \cup K
    <2>1. k \in billed /\ k \in DOMAIN attempt /\ BilledRowOK(attempt[k]) /\ ~Unsaid(k)
        BY DEF BilledInv
    <2>2. CASE attempt[k].paid
        BY <2>1, <2>2 DEF PaidRows
    <2>3. CASE attempt[k].reason \in NoRung
        BY <2>1, <2>3 DEF Unsaid, NoRung
    <2>4. CASE Unsettled(k)
        <3>1. PICK r \in Asking :
                  asked[r].at \in {"settle", "put", "save", "keep"} /\ asked[r].key = k
            BY <2>1, <2>4 DEF Unsaid
        <3>2. asked[r].at \in Fetched /\ Keyed(asked[r]) /\ asked[r].at \in PayingSteps
            BY <3>1 DEF Keyed, Fetched, PayingSteps
        <3>3. asked[r].pays
            BY <2>1, <3>1, <3>2 DEF BilledInv, KeyOK, PaysFor
        <3>4. QED BY <3>1, <3>2, <3>3 DEF Payers
    <2>5. QED BY <2>1, <2>2, <2>3, <2>4 DEF BilledRowOK, Unsettled
<1> HIDE DEF B, K
<1>5. IsFiniteSet(PaidRows \cup K)
      /\ Cardinality(PaidRows \cup K) <= Cardinality(PaidRows) + Cardinality(K)
      /\ Cardinality(PaidRows \cup K) \in Nat
    <2>1. IsFiniteSet(PaidRows \cup K)
        BY <1>1, <1>3, FS_Union
    <2>2. Cardinality(PaidRows \cup K)
             = Cardinality(PaidRows) + Cardinality(K) - Cardinality(PaidRows \cap K)
        BY <1>1, <1>3, FS_Union
    <2>3. Cardinality(PaidRows \cap K) \in Nat
        BY <1>1, FS_Intersection, FS_CardinalityType
    <2>4. QED BY <1>1, <1>3, <2>1, <2>2, <2>3, FS_CardinalityType
<1>6. Cardinality(B) \in Nat /\ Cardinality(B) <= Cardinality(PaidRows \cup K)
    BY <1>4, <1>5, FS_Subset, FS_CardinalityType
<1>7. Cardinality(Asking) \in Nat /\ UnlockerMax \in Nat
    BY MagpieAssumption, SomeOf
<1>8. Cardinality(PaidRows) + Cardinality(Payers) < UnlockerMax + Cardinality(Asking)
    BY DEF MagpieInv
<1>9. Cardinality(B) < UnlockerMax + Cardinality(Asking)
    BY <1>1, <1>3, <1>5, <1>6, <1>7, <1>8
<1>10. QED BY <1>9 DEF MeterOvershoot, B

-----------------------------------------------------------------------------
(* What a person is charged in a day (Bot).  Two sums are kept apart: what *)
(* the provider has charged, and what the trail, the questions under way   *)
(* and the charges no row holds account for.  The first never passes the   *)
(* second, over any stretch that ends now (Accounted); so a question that  *)
(* is let in below the cap finds room for itself beside all that may still *)
(* be charged by the others (Reserved).                                    *)

\* The most one question is charged.
Fare == ToolRounds * Dearest

RowsAfter(rows, w) == {k \in DOMAIN rows : rows[k].at > w}
RowCosts(rows) == [k \in DOMAIN rows |-> rows[k].cost]
TrailAfter(rows, w) == SumOf(RowCosts(rows), RowsAfter(rows, w))

BilledAfter(b, w) == SumOf(b, {t \in DOMAIN b : t > w})

LetIn(q) == {a \in Askers : q[a].allowed}
Costs(q) == [a \in Askers |-> q[a].cost]
UnderWay(q) == SumOf(Costs(q), LetIn(q))

\* A question: what it was charged is of the rounds it has had, and none before it is
\* let in.
QuestionOK(q) ==
    /\ {"step", "surface", "allowed", "round", "cost"} \subseteq DOMAIN q
    /\ q.surface \in Surfaces /\ q.allowed \in BOOLEAN
    /\ q.round \in 0 .. ToolRounds /\ q.cost \in Nat /\ q.cost <= q.round * Dearest
    /\ q.step \in {"idle", "check", "listen", "allowed", "think", "reply"}
    /\ q.step \in {"idle", "check"} => ~q.allowed
    /\ q.step \in {"think", "reply"} => q.allowed
    /\ q.step \in {"idle", "check", "listen", "allowed"} => q.round = 0
    /\ q.step = "think" => q.round < ToolRounds

RowOK(row) ==
    /\ {"surface", "at", "cost"} \subseteq DOMAIN row
    /\ row.surface \in Surfaces /\ row.at \in Int /\ row.cost \in Nat

BotTypeOK ==
    /\ instant \in 0 .. LastInstant
    /\ \E S : trail \in Seq(S)
    /\ \A k \in DOMAIN trail : RowOK(trail[k])
    /\ DOMAIN asking = Askers
    /\ \A a \in Askers : QuestionOK(asking[a])
    /\ DOMAIN bill = 0 .. LastInstant
    /\ \A t \in 0 .. LastInstant : bill[t] \in Nat /\ (t > instant => bill[t] = 0)
    /\ missed \in Nat

Accounted(w) == BilledAfter(bill, w) <= TrailAfter(trail, w) + UnderWay(asking) + missed * Fare

Reserved ==
    BilledAfter(bill, instant - ADay) + Cardinality(LetIn(asking)) * Fare <
        DailyCap + (Cardinality(Askers) + missed) * Fare + UnderWay(asking)

BotInv == BotTypeOK /\ (\A w \in Int : Accounted(w)) /\ Reserved

LEMMA FareIs ==
    /\ Dearest \in Nat \ {0} /\ DearPrice <= Dearest /\ ToolRounds \in Nat \ {0}
    /\ Fare \in Nat /\ DailyCap \in Nat /\ ADay \in Nat /\ LastInstant \in Nat
<1>1. DearPrice \in Nat /\ ToolRounds \in Nat \ {0}
    BY BotAssumption
<1>2. Dearest = IF 1 >= DearPrice THEN 1 ELSE DearPrice
    BY <1>1, MaxOfTwo DEF Dearest
<1>3. Dearest \in Nat \ {0} /\ DearPrice <= Dearest
    BY <1>1, <1>2
<1>4. PICK m \in Nat, n \in Nat : m = ToolRounds /\ n = Dearest
    BY <1>1, <1>3
<1>5. m * n \in Nat
    OBVIOUS
<1>6. QED BY <1>1, <1>3, <1>4, <1>5, BotAssumption DEF Fare

\* So many rounds, of so much at most.
LEMMA RoundsCost ==
    ASSUME NEW n \in 0 .. ToolRounds
    PROVE  n * Dearest \in Nat /\ n * Dearest <= Fare /\ (n + 1) * Dearest = n * Dearest + Dearest
<1>1. PICK d \in Nat, r \in Nat : d = Dearest /\ r = ToolRounds
    BY FareIs
<1>2. PICK k \in Nat : r = n + k
    <2>1. r - n \in Nat /\ r = n + (r - n)
        BY <1>1
    <2>2. QED BY <2>1
<1>3. n \in Nat
    BY <1>1
<1>4. r * d = n * d + k * d /\ n * d \in Nat /\ k * d \in Nat /\ (n + 1) * d = n * d + d
    BY <1>2, <1>3
<1>5. QED BY <1>1, <1>4 DEF Fare

LEMMA MostIsTheFare ==
    ASSUME NEW q, QuestionOK(q)
    PROVE  q.cost \in Nat /\ q.cost <= Fare /\ (~q.allowed => q.cost = 0)
<1>1. PICK n \in 0 .. ToolRounds : n = q.round
    BY DEF QuestionOK
<1>2. n \in Nat /\ n * Dearest \in Nat /\ n * Dearest <= Fare
    BY <1>1, RoundsCost, FareIs
<1>3. q.cost \in Nat /\ q.cost <= n * Dearest
    BY <1>1 DEF QuestionOK
<1>4. q.cost <= Fare
    BY <1>2, <1>3, FareIs
<1>5. ASSUME ~q.allowed PROVE q.cost = 0
    <2>1. n = 0
        BY <1>1, <1>5 DEF QuestionOK
    <2>2. 0 * Dearest = 0
        BY FareIs
    <2>3. QED BY <1>3, <2>1, <2>2
<1>6. QED BY <1>3, <1>4, <1>5

-----------------------------------------------------------------------------
(* The sums, and what a step adds to each.                                 *)

\* A sum read off what was recorded.
LEMMA SumOfRows ==
    ASSUME NEW f, NEW e, NEW S, \A x \in S : f[x].cost = e[x]
    PROVE  MapThenSumSet(LAMBDA x : f[x].cost, S) = SumOf(e, S)
<1> DEFINE Read(g) == g = [s \in SUBSET S |->
                              IF s = {} THEN 0 ELSE f[AnyOf(s)].cost + g[s \ {AnyOf(s)}]]
<1>1. MapThenSumSet(LAMBDA x : f[x].cost, S) = (CHOOSE g : Read(g))[S]
    BY Zenon DEF MapThenSumSet, MapThenFoldSet, AnyOf
<1>2. ASSUME NEW g
      PROVE  Read(g) <=> IsSum(g, e, S)
    <2>1. \A s \in SUBSET S : s # {} => e[AnyOf(s)] = f[AnyOf(s)].cost
        BY AnyOfIs
    <2>2. [s \in SUBSET S |->
               IF s = {} THEN 0 ELSE f[AnyOf(s)].cost + g[s \ {AnyOf(s)}]]
          = [s \in SUBSET S |->
               IF s = {} THEN 0 ELSE e[AnyOf(s)] + g[s \ {AnyOf(s)}]]
        BY <2>1
    <2>3. QED BY <2>2 DEF IsSum
<1> HIDE DEF Read
<1>3. (CHOOSE g : Read(g)) = (CHOOSE g : IsSum(g, e, S))
    BY <1>2
<1>4. QED BY <1>1, <1>3, SumOfIs, Zenon

LEMMA RowsAfterAre ==
    ASSUME NEW rows, NEW S, rows \in Seq(S), \A k \in DOMAIN rows : RowOK(rows[k]), NEW w \in Int
    PROVE  /\ IsFiniteSet(RowsAfter(rows, w)) /\ TrailAfter(rows, w) \in Nat
           /\ \A k \in RowsAfter(rows, w) : RowCosts(rows)[k] = rows[k].cost
                                            /\ RowCosts(rows)[k] \in Nat
<1>1. DOMAIN rows = 1 .. Len(rows) /\ Len(rows) \in Nat
    OBVIOUS
<1>2. IsFiniteSet(RowsAfter(rows, w))
    <2>1. IsFiniteSet(DOMAIN rows)
        BY <1>1, FS_Interval
    <2>2. QED BY <2>1, FS_Subset DEF RowsAfter
<1>3. \A k \in RowsAfter(rows, w) : RowCosts(rows)[k] = rows[k].cost /\ RowCosts(rows)[k] \in Nat
    BY DEF RowsAfter, RowCosts, RowOK
<1>4. QED BY <1>2, <1>3, SumOver DEF TrailAfter

\* What the cap is read against is the whole of the trail's last day.
LEMMA SpentIs ==
    ASSUME BotTypeOK, NEW surface \in Surfaces
    PROVE  Spent24h(surface) = TrailAfter(trail, instant - ADay)
<1>1. PICK S : trail \in Seq(S)
    BY DEF BotTypeOK
<1>2. {k \in DOMAIN trail : trail[k].at > instant - ADay /\ trail[k].surface \in Folded(surface)}
          = RowsAfter(trail, instant - ADay)
    BY DEF BotTypeOK, RowOK, RowsAfter, Folded
<1>3. instant - ADay \in Int
    BY FareIs DEF BotTypeOK
<1>4. \A k \in RowsAfter(trail, instant - ADay) : trail[k].cost = RowCosts(trail)[k]
    BY <1>1, <1>3, RowsAfterAre DEF BotTypeOK
<1>5. MapThenSumSet(LAMBDA x : trail[x].cost, RowsAfter(trail, instant - ADay))
          = SumOf(RowCosts(trail), RowsAfter(trail, instant - ADay))
    BY <1>4, SumOfRows, Zenon
<1>6. QED BY <1>2, <1>5, Zenon DEF Spent24h, TrailAfter

RowsOK(rows) == (\E S : rows \in Seq(S)) /\ \A k \in DOMAIN rows : RowOK(rows[k])
GrowsBy(rows, row, grown) == grown = Append(rows, row)

\* A row that is written adds its cost, to what was written since any time before it.
LEMMA RowWritten ==
    ASSUME NEW rows, RowsOK(rows), NEW row, RowOK(row), NEW w \in Int,
           NEW grown, GrowsBy(rows, row, grown)
    PROVE  /\ RowsOK(grown)
           /\ TrailAfter(grown, w) = TrailAfter(rows, w) + (IF row.at > w THEN row.cost ELSE 0)
<1>0. PICK S : rows \in Seq(S)
    BY DEF RowsOK
<1>b. /\ \A k \in DOMAIN rows : RowOK(rows[k])
      /\ grown = Append(rows, row)
    BY DEF RowsOK, GrowsBy
<1> DEFINE n == Len(rows) + 1
<1>1. rows \in Seq(S \cup {row})
    BY <1>0
<1>2. grown \in Seq(S \cup {row})
    BY <1>1, <1>b
<1>3. /\ Len(rows) \in Nat /\ DOMAIN rows = 1 .. Len(rows) /\ DOMAIN grown = 1 .. n
      /\ \A k \in DOMAIN rows : grown[k] = rows[k]
      /\ grown[n] = row
    BY <1>1, <1>b
<1> HIDE DEF n
<1>a. n = Len(rows) + 1
    BY DEF n
<1>4. DOMAIN grown = DOMAIN rows \cup {n} /\ n \notin DOMAIN rows
    BY <1>3, <1>a
<1>5. \A k \in DOMAIN grown : RowOK(grown[k])
    BY <1>3, <1>4, <1>b
<1>6. /\ IsFiniteSet(RowsAfter(rows, w)) /\ TrailAfter(rows, w) \in Nat
      /\ \A k \in RowsAfter(rows, w) : RowCosts(rows)[k] = rows[k].cost
    BY <1>0, <1>b, RowsAfterAre
<1>7. /\ IsFiniteSet(RowsAfter(grown, w)) /\ TrailAfter(grown, w) \in Nat
      /\ \A k \in RowsAfter(grown, w) : RowCosts(grown)[k] = grown[k].cost
                                        /\ RowCosts(grown)[k] \in Nat
    BY <1>2, <1>5, RowsAfterAre
<1>8. \A k \in RowsAfter(rows, w) : RowCosts(grown)[k] = RowCosts(rows)[k]
    BY <1>3, <1>4 DEF RowsAfter, RowCosts
<1>9. SumOf(RowCosts(grown), RowsAfter(rows, w)) = TrailAfter(rows, w)
    BY <1>6, <1>8, SumSame DEF TrailAfter
<1>10. CASE row.at > w
    <2>1. n \in RowsAfter(grown, w) /\ RowsAfter(grown, w) \ {n} = RowsAfter(rows, w)
        BY <1>3, <1>4, <1>10 DEF RowsAfter
    <2>2. RowCosts(grown)[n] = row.cost
        BY <1>3, <1>7, <2>1
    <2>3. SumOf(RowCosts(grown), RowsAfter(grown, w))
              = RowCosts(grown)[n] + SumOf(RowCosts(grown), RowsAfter(grown, w) \ {n})
        BY <1>7, <2>1, SumOver
    <2>4. TrailAfter(grown, w) = row.cost + TrailAfter(rows, w)
        BY <1>9, <2>1, <2>2, <2>3 DEF TrailAfter
    <2>5. row.cost \in Nat
        BY DEF RowOK
    <2>6. TrailAfter(grown, w) = TrailAfter(rows, w) + row.cost
        BY <1>6, <2>4, <2>5
    <2>7. QED BY <1>2, <1>5, <1>10, <2>6 DEF RowsOK
<1>11. CASE ~(row.at > w)
    <2>1. RowsAfter(grown, w) = RowsAfter(rows, w)
        BY <1>3, <1>4, <1>11 DEF RowsAfter
    <2>2. TrailAfter(grown, w) = TrailAfter(rows, w)
        BY <1>9, <2>1 DEF TrailAfter
    <2>3. TrailAfter(grown, w) = TrailAfter(rows, w) + 0
        BY <1>6, <2>2
    <2>4. QED BY <1>2, <1>5, <1>11, <2>3 DEF RowsOK
<1>12. QED BY <1>10, <1>11

LEMMA BilledIs ==
    ASSUME NEW b, DOMAIN b = 0 .. LastInstant, \A t \in 0 .. LastInstant : b[t] \in Nat, NEW w \in Int
    PROVE  /\ IsFiniteSet({t \in DOMAIN b : t > w})
           /\ BilledAfter(b, w) \in Nat
           /\ (\A t \in 0 .. LastInstant : t > w => b[t] = 0) => BilledAfter(b, w) = 0
<1> DEFINE S == {t \in DOMAIN b : t > w}
<1>1. IsFiniteSet(S)
    <2>1. IsFiniteSet(0 .. LastInstant)
        BY FareIs, FS_Interval
    <2>2. QED BY <2>1, FS_Subset
<1>2. \A t \in S : b[t] \in Nat
    OBVIOUS
<1>3. SumOf(b, S) \in Nat
    BY <1>1, <1>2, SumOver
<1>4. ASSUME \A t \in S : b[t] = 0 PROVE SumOf(b, S) = 0
    <2>1. \A t \in S : b[t] \in Nat /\ b[t] <= 0
        BY <1>4
    <2>2. SumOf(b, S) <= Cardinality(S) * 0
        BY <1>1, <2>1, SumBounded
    <2>3. Cardinality(S) * 0 = 0
        BY <1>1, FS_CardinalityType
    <2>4. QED BY <1>3, <2>2, <2>3
<1>5. QED BY <1>1, <1>3, <1>4 DEF BilledAfter

\* A charge is of every stretch that its time is in.
LEMMA Charged ==
    ASSUME NEW b, DOMAIN b = 0 .. LastInstant, \A t \in 0 .. LastInstant : b[t] \in Nat,
           NEW now \in 0 .. LastInstant, NEW c \in Nat, NEW w \in Int
    PROVE  BilledAfter([b EXCEPT ![now] = @ + c], w)
               = BilledAfter(b, w) + (IF now > w THEN c ELSE 0)
<1> DEFINE d == [b EXCEPT ![now] = @ + c]
           S == {t \in DOMAIN b : t > w}
<1>1. /\ DOMAIN d = 0 .. LastInstant /\ d[now] = b[now] + c
      /\ \A t \in 0 .. LastInstant : t # now => d[t] = b[t]
      /\ \A t \in 0 .. LastInstant : d[t] \in Nat
    OBVIOUS
<1>2. BilledAfter([b EXCEPT ![now] = @ + c], w) = SumOf(d, S)
    BY <1>1 DEF BilledAfter
<1> HIDE DEF d
<1>3. IsFiniteSet(S) /\ SumOf(b, S) \in Nat /\ SumOf(b, S) = BilledAfter(b, w)
    BY BilledIs DEF BilledAfter
<1>4. S \subseteq 0 .. LastInstant /\ (now \in S <=> now > w)
    OBVIOUS
<1> HIDE DEF S
<1>5. CASE now > w
    <2>1. IsFiniteSet(S \ {now}) /\ \A t \in S \ {now} : b[t] \in Nat
        BY <1>3, <1>4, FS_Subset
    <2>2. SumOf(d, S \ {now}) = SumOf(b, S \ {now}) /\ SumOf(b, S \ {now}) \in Nat
        <3>1. \A t \in S \ {now} : d[t] = b[t]
            BY <1>1, <1>4
        <3>2. SumOf(d, S \ {now}) = SumOf(b, S \ {now})
            BY <2>1, <3>1, SumSame
        <3>3. SumOf(b, S \ {now}) \in Nat
            BY <2>1, SumOver
        <3>4. QED BY <3>2, <3>3
    <2>3. SumOf(d, S) = d[now] + SumOf(d, S \ {now})
        <3>1. \A t \in S : d[t] \in Nat
            BY <1>1, <1>4
        <3>2. QED BY <1>3, <1>4, <1>5, <3>1, SumOver
    <2>4. SumOf(b, S) = b[now] + SumOf(b, S \ {now})
        <3>1. \A t \in S : b[t] \in Nat
            BY <1>4
        <3>2. QED BY <1>3, <1>4, <1>5, <3>1, SumOver
    <2>5. QED BY <1>1, <1>2, <1>3, <1>5, <2>2, <2>3, <2>4
<1>6. CASE ~(now > w)
    <2>1. \A t \in S : d[t] = b[t]
        BY <1>1, <1>4, <1>6
    <2>2. SumOf(d, S) = SumOf(b, S)
        BY <1>3, <2>1, SumSame
    <2>3. QED BY <1>2, <1>3, <1>6, <2>2
<1>7. QED BY <1>5, <1>6

Own(q) == IF q.allowed THEN 1 ELSE 0

AsksOK(q) == DOMAIN q = Askers /\ \A a \in Askers : QuestionOK(q[a])
BecomesOf(old, a, q, moved) == moved = [old EXCEPT ![a] = q]

\* A question's step moves by itself what is under way.
LEMMA AskerSteps ==
    ASSUME NEW asks0, AsksOK(asks0), NEW a \in Askers, NEW q, QuestionOK(q),
           NEW moved, BecomesOf(asks0, a, q, moved)
    PROVE  /\ AsksOK(moved)
           /\ UnderWay(asks0) \in Nat /\ UnderWay(moved) \in Nat
           /\ Cardinality(LetIn(asks0)) \in Nat /\ Cardinality(LetIn(moved)) \in Nat
           /\ UnderWay(moved) + asks0[a].cost = UnderWay(asks0) + q.cost
           /\ Cardinality(LetIn(moved)) + Own(asks0[a]) = Cardinality(LetIn(asks0)) + Own(q)
<1> DEFINE others == LetIn(asks0) \ {a}
           rest == SumOf(Costs(asks0), others)
<1>0. DOMAIN asks0 = Askers /\ \A s \in Askers : QuestionOK(asks0[s])
    BY DEF AsksOK
<1>1. /\ DOMAIN moved = Askers /\ moved[a] = q
      /\ \A s \in Askers : s # a => moved[s] = asks0[s]
    BY <1>0 DEF BecomesOf
<1>2. \A s \in Askers : QuestionOK(moved[s])
    BY <1>0, <1>1
<1>3. ASSUME NEW z, DOMAIN z = Askers, \A s \in Askers : QuestionOK(z[s]),
             \A s \in Askers : s # a => z[s] = asks0[s]
      PROVE  /\ UnderWay(z) \in Nat /\ Cardinality(LetIn(z)) \in Nat
             /\ UnderWay(z) = z[a].cost + rest
             /\ Cardinality(LetIn(z)) = Own(z[a]) + Cardinality(others)
    <2>1. IsFiniteSet(LetIn(z)) /\ IsFiniteSet(others)
        BY BotAssumption, FS_Subset DEF LetIn
    <2>2. \A s \in Askers : /\ Costs(z)[s] = z[s].cost /\ Costs(z)[s] \in Nat
                            /\ Costs(asks0)[s] = asks0[s].cost
        BY <1>0, <1>3, MostIsTheFare DEF Costs
    <2>3. LetIn(z) \ {a} = others /\ others \subseteq Askers /\ LetIn(z) \subseteq Askers
        BY <1>3 DEF LetIn
    <2>4. SumOf(Costs(z), others) = rest
        <3>1. \A s \in others : Costs(z)[s] = Costs(asks0)[s]
            BY <1>3, <2>2, <2>3
        <3>2. QED BY <2>1, <3>1, SumSame
    <2>5. SumOf(Costs(z), LetIn(z)) \in Nat /\ SumOf(Costs(z), others) \in Nat
        <3>1. \A s \in LetIn(z) : Costs(z)[s] \in Nat
            BY <2>2, <2>3
        <3>2. \A s \in others : Costs(z)[s] \in Nat
            BY <2>2, <2>3
        <3>3. SumOf(Costs(z), LetIn(z)) \in Nat
            BY <2>1, <3>1, SumOver
        <3>4. SumOf(Costs(z), others) \in Nat
            BY <2>1, <3>2, SumOver
        <3>5. QED BY <3>3, <3>4
    <2>6. Cardinality(LetIn(z)) \in Nat /\ Cardinality(others) \in Nat
        BY <2>1, FS_CardinalityType
    <2>7. CASE z[a].allowed
        <3>1. a \in LetIn(z)
            BY <2>7 DEF LetIn
        <3>2. Cardinality(LetIn(z) \ {a}) = Cardinality(LetIn(z)) - 1
            BY <2>1, <3>1, FS_RemoveElement
        <3>3. SumOf(Costs(z), LetIn(z)) = Costs(z)[a] + SumOf(Costs(z), LetIn(z) \ {a})
            <4>1. \A s \in LetIn(z) : Costs(z)[s] \in Nat
                BY <2>2, <2>3
            <4>2. QED BY <2>1, <3>1, <4>1, SumOver
        <3>4. UnderWay(z) = z[a].cost + rest
            BY <2>2, <2>3, <2>4, <3>3 DEF UnderWay
        <3>a. Cardinality(others) = Cardinality(LetIn(z)) - 1
            BY <2>3, <3>2, Zenon
        <3>5. Cardinality(LetIn(z)) = 1 + Cardinality(others)
            BY <2>6, <3>a
        <3>6. QED BY <2>5, <2>6, <2>7, <3>4, <3>5 DEF Own, UnderWay
    <2>8. CASE ~z[a].allowed
        <3>1. LetIn(z) = others
            BY <2>3, <2>8 DEF LetIn
        <3>2. z[a].cost = 0
            BY <1>3, <2>8, MostIsTheFare
        <3>3. UnderWay(z) = z[a].cost + rest
            BY <2>4, <2>5, <3>1, <3>2 DEF UnderWay
        <3>4. Cardinality(LetIn(z)) = 0 + Cardinality(others)
            BY <2>6, <3>1
        <3>5. QED BY <2>5, <2>6, <2>8, <3>3, <3>4 DEF Own, UnderWay
    <2>9. QED BY <2>7, <2>8
<1> HIDE DEF others, rest
<1>4. /\ UnderWay(asks0) \in Nat /\ Cardinality(LetIn(asks0)) \in Nat
      /\ UnderWay(asks0) = asks0[a].cost + rest
      /\ Cardinality(LetIn(asks0)) = Own(asks0[a]) + Cardinality(others)
    BY <1>0, <1>3
<1>5. /\ UnderWay(moved) \in Nat /\ Cardinality(LetIn(moved)) \in Nat
      /\ UnderWay(moved) = q.cost + rest
      /\ Cardinality(LetIn(moved)) = Own(q) + Cardinality(others)
    BY <1>1, <1>2, <1>3
<1>6. asks0[a].cost \in Nat /\ q.cost \in Nat /\ Own(q) \in Nat /\ Own(asks0[a]) \in Nat
    BY <1>0, MostIsTheFare DEF Own
<1>7. UnderWay(moved) + asks0[a].cost = UnderWay(asks0) + q.cost
    <2>1. PICK x \in Nat, y \in Nat, u \in Nat, v \in Nat :
              x = asks0[a].cost /\ y = q.cost /\ u = UnderWay(asks0) /\ v = UnderWay(moved)
        BY <1>4, <1>5, <1>6
    <2>2. u - x = rest /\ v = y + (u - x)
        <3>1. rest \in Nat
            <4>1. /\ IsFiniteSet(LetIn(asks0) \ {a})
                  /\ \A s \in LetIn(asks0) \ {a} : Costs(asks0)[s] \in Nat
                BY <1>0, BotAssumption, FS_Subset, MostIsTheFare DEF LetIn, Costs
            <4>2. QED BY <4>1, SumOver DEF rest, others
        <3>2. QED BY <1>4, <1>5, <2>1, <3>1
    <2>3. QED BY <2>1, <2>2
<1>8. Cardinality(LetIn(moved)) + Own(asks0[a]) = Cardinality(LetIn(asks0)) + Own(q)
    <2>1. IsFiniteSet(others)
        BY BotAssumption, FS_Subset DEF LetIn, others
    <2>2. Cardinality(others) \in Nat
        BY <2>1, FS_CardinalityType
    <2>3. QED BY <1>4, <1>5, <1>6, <2>2
<1>9. QED BY <1>1, <1>2, <1>4, <1>5, <1>7, <1>8 DEF AsksOK

\* No more are let in than there are, and together they are charged no more than the
\* fare of each.
LEMMA LetInAre ==
    ASSUME NEW q, DOMAIN q = Askers, \A a \in Askers : QuestionOK(q[a])
    PROVE  /\ Cardinality(LetIn(q)) \in Nat /\ Cardinality(Askers) \in Nat
           /\ Cardinality(LetIn(q)) <= Cardinality(Askers)
           /\ \A a \in Askers : ~q[a].allowed => Cardinality(LetIn(q)) < Cardinality(Askers)
           /\ UnderWay(q) \in Nat /\ UnderWay(q) <= Cardinality(LetIn(q)) * Fare
<1>1. LetIn(q) \subseteq Askers /\ IsFiniteSet(Askers)
    BY BotAssumption DEF LetIn
<1>2. IsFiniteSet(LetIn(q)) /\ Cardinality(LetIn(q)) <= Cardinality(Askers)
    BY <1>1, FS_Subset
<1>3. Cardinality(LetIn(q)) \in Nat /\ Cardinality(Askers) \in Nat
    BY <1>1, <1>2, FS_CardinalityType
<1>4. ASSUME NEW a \in Askers, ~q[a].allowed PROVE Cardinality(LetIn(q)) < Cardinality(Askers)
    <2>1. LetIn(q) \subseteq Askers \ {a}
        BY <1>4 DEF LetIn
    <2>2. IsFiniteSet(Askers \ {a}) /\ Cardinality(Askers \ {a}) = Cardinality(Askers) - 1
        BY <1>1, FS_RemoveElement
    <2>3. Cardinality(LetIn(q)) <= Cardinality(Askers \ {a})
        BY <2>1, <2>2, FS_Subset
    <2>4. QED BY <1>3, <2>2, <2>3
<1>5. \A a \in LetIn(q) : Costs(q)[a] \in Nat /\ Costs(q)[a] <= Fare
    BY <1>1, MostIsTheFare DEF Costs
<1>6. UnderWay(q) \in Nat
    BY <1>2, <1>5, SumOver DEF UnderWay
<1>7. UnderWay(q) <= Cardinality(LetIn(q)) * Fare
    BY <1>2, <1>5, FareIs, SumBounded DEF UnderWay
<1>8. QED BY <1>2, <1>3, <1>4, <1>6, <1>7

-----------------------------------------------------------------------------

LEMMA BotStart == BotInit => BotInv
<1> SUFFICES ASSUME BotInit PROVE BotInv
    OBVIOUS
<1>1. /\ QuestionOK(NotAsking) /\ ~NotAsking.allowed
    <2>1. 0 * Dearest = 0
        BY FareIs
    <2>2. QED BY <2>1, FareIs DEF QuestionOK, NotAsking, Surfaces
<1>2. BotTypeOK
    <2>1. /\ DOMAIN asking = Askers /\ \A a \in Askers : QuestionOK(asking[a])
        BY <1>1 DEF BotInit
    <2>2. \E S : trail \in Seq(S)
        <3>1. trail \in Seq({})
            BY DEF BotInit
        <3>2. QED BY <3>1
    <2>3. \A k \in DOMAIN trail : RowOK(trail[k])
        BY DEF BotInit
    <2>4. /\ instant \in 0 .. LastInstant /\ DOMAIN bill = 0 .. LastInstant /\ missed \in Nat
          /\ \A t \in 0 .. LastInstant : bill[t] \in Nat /\ (t > instant => bill[t] = 0)
        BY FareIs DEF BotInit
    <2>5. QED BY <2>1, <2>2, <2>3, <2>4 DEF BotTypeOK
<1>3. LetIn(asking) = {} /\ UnderWay(asking) \in Nat
    <2>1. LetIn(asking) = {}
        BY <1>1 DEF BotInit, LetIn
    <2>2. QED BY <1>2, <2>1, LetInAre DEF BotTypeOK
<1>4. \A w \in Int : BilledAfter(bill, w) = 0
    <2>1. TAKE w \in Int
    <2>2. \A t \in 0 .. LastInstant : bill[t] = 0
        BY DEF BotInit
    <2>3. QED BY <1>2, <2>2, BilledIs DEF BotTypeOK
<1>5. missed = 0 /\ instant - ADay \in Int /\ 0 * Fare = 0 /\ Fare \in Nat
    BY FareIs DEF BotInit
<1>6. ASSUME NEW w \in Int PROVE Accounted(w)
    <2>1. TrailAfter(trail, w) \in Nat
        BY <1>2, RowsAfterAre DEF BotTypeOK
    <2>2. QED BY <1>3, <1>4, <1>5, <2>1 DEF Accounted
<1>7. Reserved
    <2>1. Cardinality(LetIn(asking)) = 0
        BY <1>3, FS_EmptySet
    <2>2. Cardinality(Askers) \in Nat \ {0} /\ DailyCap \in Nat
        BY BotAssumption, SomeOf, FareIs
    <2>3. PICK n \in Nat \ {0} : n = Cardinality(Askers)
        BY <2>2
    <2>4. (n + 0) * Fare \in Nat /\ (n + 0) * Fare >= Fare /\ Fare > 0
        <3>1. PICK d \in Nat \ {0}, r \in Nat \ {0} : d = Dearest /\ r = ToolRounds
            BY FareIs
        <3>2. r * d \in Nat \ {0}
            OBVIOUS
        <3>3. PICK f \in Nat \ {0} : f = Fare
            BY <3>1, <3>2 DEF Fare
        <3>4. PICK m \in Nat : n = m + 1
            <4>1. n - 1 \in Nat /\ n = (n - 1) + 1
                OBVIOUS
            <4>2. QED BY <4>1
        <3>5. (n + 0) * f = m * f + f /\ m * f \in Nat
            BY <3>4
        <3>6. QED BY <3>3, <3>5
    <2>5. BilledAfter(bill, instant - ADay) + 0 * Fare < DailyCap + (n + 0) * Fare + UnderWay(asking)
        BY <1>3, <1>4, <1>5, <2>2, <2>4
    <2>6. QED BY <1>5, <2>1, <2>3, <2>5 DEF Reserved
<1>8. QED BY <1>2, <1>6, <1>7 DEF BotInv

\* What the invariant says of the sums, as numbers.
LEMMA BotNumbers ==
    ASSUME BotTypeOK
    PROVE  /\ instant - ADay \in Int /\ missed \in Nat /\ missed * Fare \in Nat /\ Fare \in Nat
           /\ UnderWay(asking) \in Nat /\ Cardinality(LetIn(asking)) \in Nat
           /\ Cardinality(Askers) \in Nat
           /\ \A w \in Int : BilledAfter(bill, w) \in Nat /\ TrailAfter(trail, w) \in Nat
<1>1. instant \in Int /\ missed \in Nat /\ Fare \in Nat /\ ADay \in Nat
    BY FareIs DEF BotTypeOK
<1>2. missed * Fare \in Nat
    BY <1>1
<1>3. /\ UnderWay(asking) \in Nat /\ Cardinality(LetIn(asking)) \in Nat
      /\ Cardinality(Askers) \in Nat
    BY LetInAre DEF BotTypeOK
<1>4. \A w \in Int : BilledAfter(bill, w) \in Nat
    <2>1. TAKE w \in Int
    <2>2. QED BY BilledIs DEF BotTypeOK
<1>5. \A w \in Int : TrailAfter(trail, w) \in Nat
    <2>1. TAKE w \in Int
    <2>2. QED BY RowsAfterAre DEF BotTypeOK
<1>6. QED BY <1>1, <1>2, <1>3, <1>4, <1>5

\* So it does in a behaviour.
LEMMA AskerMoves ==
    ASSUME BotTypeOK, NEW a \in Askers, NEW q, QuestionOK(q), asking' = [asking EXCEPT ![a] = q]
    PROVE  /\ DOMAIN asking' = Askers /\ \A s \in Askers : QuestionOK(asking'[s])
           /\ UnderWay(asking') \in Nat /\ Cardinality(LetIn(asking')) \in Nat
           /\ UnderWay(asking') + asking[a].cost = UnderWay(asking) + q.cost
           /\ Cardinality(LetIn(asking')) + Own(asking[a]) = Cardinality(LetIn(asking)) + Own(q)
<1>1. AsksOK(asking) /\ BecomesOf(asking, a, q, asking')
    BY DEF BotTypeOK, AsksOK, BecomesOf
<1>2. PICK old, moved : old = asking /\ moved = asking'
    OBVIOUS
<1>3. AsksOK(old) /\ BecomesOf(old, a, q, moved)
    BY <1>1, <1>2
<1>4. /\ AsksOK(moved) /\ UnderWay(moved) \in Nat /\ Cardinality(LetIn(moved)) \in Nat
      /\ UnderWay(moved) + old[a].cost = UnderWay(old) + q.cost
      /\ Cardinality(LetIn(moved)) + Own(old[a]) = Cardinality(LetIn(old)) + Own(q)
    BY <1>3, AskerSteps
<1>5. QED BY <1>2, <1>4 DEF AsksOK

\* A step of one question that neither charges nor writes: it costs and holds no more,
\* or a charge is missed.
LEMMA BotQuiet ==
    ASSUME BotInv, NEW a \in Askers, NEW q, QuestionOK(q), asking' = [asking EXCEPT ![a] = q],
           UNCHANGED <<instant, trail, bill>>,
           \/ missed' = missed /\ asking[a].cost <= q.cost /\ (q.allowed => asking[a].allowed)
           \/ missed' = missed + 1
    PROVE  BotInv'
<1> USE DEF BotInv
<1>1. /\ DOMAIN asking' = Askers /\ \A s \in Askers : QuestionOK(asking'[s])
      /\ UnderWay(asking') \in Nat /\ Cardinality(LetIn(asking')) \in Nat
      /\ UnderWay(asking') + asking[a].cost = UnderWay(asking) + q.cost
      /\ Cardinality(LetIn(asking')) + Own(asking[a]) = Cardinality(LetIn(asking)) + Own(q)
    BY AskerMoves DEF BotInv
<1>2. BotTypeOK'
    BY <1>1 DEF BotTypeOK
<1>3. /\ asking[a].cost \in Nat /\ asking[a].cost <= Fare
      /\ (~asking[a].allowed => asking[a].cost = 0)
      /\ q.cost \in Nat /\ q.cost <= Fare /\ (~q.allowed => q.cost = 0)
    BY MostIsTheFare DEF BotTypeOK
<1>4. PICK u \in Nat, v \in Nat, m \in Nat, n \in Nat, c \in Nat, e \in Nat, f \in Nat,
           all \in Nat, x \in Nat :
          /\ u = UnderWay(asking) /\ v = UnderWay(asking')
          /\ m = Cardinality(LetIn(asking)) /\ n = Cardinality(LetIn(asking'))
          /\ c = asking[a].cost /\ e = q.cost /\ f = Fare /\ all = Cardinality(Askers)
          /\ x = missed
    BY <1>1, <1>3, BotNumbers
<1>5. PICK b0 \in {0, 1}, b1 \in {0, 1} : b0 = Own(asking[a]) /\ b1 = Own(q)
    BY DEF Own
<1>6. /\ v + c = u + e /\ n + b0 = m + b1 /\ c <= f /\ e <= f
      /\ (b0 = 0 => c = 0) /\ (b1 = 0 => e = 0)
      /\ \/ missed' = x /\ c <= e /\ b1 <= b0
         \/ missed' = x + 1
    BY <1>1, <1>3, <1>4, <1>5 DEF Own
<1>7. (x + 1) * f = x * f + f /\ x * f \in Nat /\ n * f \in Nat /\ m * f \in Nat
    OBVIOUS
<1>8. n * f + b0 * f = m * f + b1 * f
    <2>1. (n + b0) * f = n * f + b0 * f /\ (m + b1) * f = m * f + b1 * f
        OBVIOUS
    <2>2. QED BY <1>6, <2>1
<1>9. n * f + (IF b0 = 1 THEN f ELSE 0) = m * f + (IF b1 = 1 THEN f ELSE 0)
    BY <1>8
<1>10. ASSUME NEW w \in Int PROVE Accounted(w)'
    <2>1. PICK b \in Nat, t \in Nat : b = BilledAfter(bill, w) /\ t = TrailAfter(trail, w)
        BY BotNumbers
    <2>2. b <= t + u + x * f
        BY <1>4, <2>1 DEF Accounted
    <2>3. b <= t + v + missed' * f
        <3>1. CASE missed' = x /\ c <= e
            BY <1>6, <1>7, <2>2, <3>1
        <3>2. CASE missed' = x + 1
            BY <1>6, <1>7, <2>2, <3>2
        <3>3. QED BY <1>6, <3>1, <3>2
    <2>4. BilledAfter(bill', w) = b /\ TrailAfter(trail', w) = t
        BY <2>1
    <2>5. QED BY <1>4, <2>3, <2>4 DEF Accounted
<1>11. Reserved'
    <2>1. PICK b \in Nat, d \in Nat : b = BilledAfter(bill, instant - ADay) /\ d = DailyCap
        BY BotNumbers, FareIs
    <2>2. b + m * f < d + (all + x) * f + u
        BY <1>4, <2>1 DEF Reserved
    <2>3. (all + x) * f \in Nat /\ (all + (x + 1)) * f = (all + x) * f + f
        OBVIOUS
    <2>4. b + n * f < d + (all + missed') * f + v
        <3>1. CASE missed' = x /\ c <= e /\ b1 <= b0
            <4>1. n * f <= m * f
                BY <1>5, <1>7, <1>9, <3>1
            <4>2. u <= v
                BY <1>6, <3>1
            <4>3. QED BY <1>7, <2>2, <2>3, <3>1, <4>1, <4>2
        <3>2. CASE missed' = x + 1
            <4>1. (all + missed') * f = (all + x) * f + f
                BY <2>3, <3>2
            <4>2. n * f + u <= m * f + f + v
                BY <1>5, <1>6, <1>7, <1>9
            <4>3. QED BY <1>7, <2>2, <2>3, <4>1, <4>2
        <3>3. QED BY <1>6, <3>1, <3>2
    <2>5. BilledAfter(bill', instant' - ADay) = b
        BY <2>1
    <2>6. QED BY <1>4, <2>1, <2>4, <2>5 DEF Reserved
<1>12. QED BY <1>2, <1>10, <1>11

\* A question that is let in below the cap.
LEMMA BotLetsIn ==
    ASSUME BotInv, NEW a \in Askers, ~asking[a].allowed, NEW q, QuestionOK(q), q.allowed, q.cost = 0,
           asking' = [asking EXCEPT ![a] = q], UNCHANGED <<instant, trail, bill, missed>>,
           TrailAfter(trail, instant - ADay) < DailyCap
    PROVE  BotInv'
<1> USE DEF BotInv
<1>1. /\ DOMAIN asking' = Askers /\ \A s \in Askers : QuestionOK(asking'[s])
      /\ UnderWay(asking') \in Nat /\ Cardinality(LetIn(asking')) \in Nat
      /\ UnderWay(asking') + asking[a].cost = UnderWay(asking) + q.cost
      /\ Cardinality(LetIn(asking')) + Own(asking[a]) = Cardinality(LetIn(asking)) + Own(q)
    BY AskerMoves DEF BotInv
<1>2. BotTypeOK'
    BY <1>1 DEF BotTypeOK
<1>3. asking[a].cost = 0 /\ Own(asking[a]) = 0 /\ Own(q) = 1
    BY MostIsTheFare DEF BotTypeOK, Own
<1>4. UnderWay(asking') = UnderWay(asking)
      /\ Cardinality(LetIn(asking')) = Cardinality(LetIn(asking)) + 1
    BY <1>1, <1>3, BotNumbers
<1>5. ASSUME NEW w \in Int PROVE Accounted(w)'
    <2>1. BilledAfter(bill', w) = BilledAfter(bill, w) /\ TrailAfter(trail', w) = TrailAfter(trail, w)
        OBVIOUS
    <2>2. QED BY <1>4, <2>1 DEF Accounted
<1>6. Reserved'
    <2>1. PICK b \in Nat, t \in Nat, u \in Nat, x \in Nat, f \in Nat, m \in Nat, all \in Nat :
              /\ b = BilledAfter(bill, instant - ADay) /\ t = TrailAfter(trail, instant - ADay)
              /\ u = UnderWay(asking) /\ x = missed /\ f = Fare
              /\ m = Cardinality(LetIn(asking)) /\ all = Cardinality(Askers)
        BY BotNumbers
    <2>2. b <= t + u + x * f /\ t < DailyCap /\ DailyCap \in Nat
        BY <2>1, BotNumbers, FareIs DEF Accounted
    <2>3. m < all
        BY <2>1, LetInAre DEF BotTypeOK
    <2>4. PICK k \in Nat : all = (m + 1) + k
        <3>1. all - (m + 1) \in Nat /\ all = (m + 1) + (all - (m + 1))
            BY <2>3
        <3>2. QED BY <3>1
    <2>5. (all + x) * f = (m + 1) * f + k * f + x * f
        BY <2>4
    <2>6. (m + 1) * f \in Nat /\ k * f \in Nat /\ x * f \in Nat
        OBVIOUS
    <2>7. b + (m + 1) * f < DailyCap + (all + x) * f + u
        BY <2>2, <2>5, <2>6
    <2>8. BilledAfter(bill', instant' - ADay) = b
        BY <2>1
    <2>9. QED BY <1>4, <2>1, <2>7, <2>8 DEF Reserved
<1>7. QED BY <1>2, <1>5, <1>6

\* A round is charged, to a question that is let in.
LEMMA BotCharged ==
    ASSUME BotInv, NEW a \in Askers, asking[a].allowed, NEW q, QuestionOK(q), q.allowed,
           asking' = [asking EXCEPT ![a] = q], NEW cost \in Nat, q.cost = asking[a].cost + cost,
           bill' = [bill EXCEPT ![instant] = @ + cost], UNCHANGED <<instant, trail, missed>>
    PROVE  BotInv'
<1> USE DEF BotInv
<1>1. /\ DOMAIN asking' = Askers /\ \A s \in Askers : QuestionOK(asking'[s])
      /\ UnderWay(asking') \in Nat /\ Cardinality(LetIn(asking')) \in Nat
      /\ UnderWay(asking') + asking[a].cost = UnderWay(asking) + q.cost
      /\ Cardinality(LetIn(asking')) + Own(asking[a]) = Cardinality(LetIn(asking)) + Own(q)
    BY AskerMoves
<1>2. asking[a].cost \in Nat /\ Own(asking[a]) = 1 /\ Own(q) = 1
    BY MostIsTheFare DEF BotTypeOK, Own
<1>3. /\ UnderWay(asking') = UnderWay(asking) + cost
      /\ Cardinality(LetIn(asking')) = Cardinality(LetIn(asking))
    <2>1. UnderWay(asking) \in Nat /\ Cardinality(LetIn(asking)) \in Nat
        BY BotNumbers
    <2>2. PICK u \in Nat, v \in Nat, m \in Nat, n \in Nat, c \in Nat :
              /\ u = UnderWay(asking) /\ v = UnderWay(asking') /\ c = asking[a].cost
              /\ m = Cardinality(LetIn(asking)) /\ n = Cardinality(LetIn(asking'))
        BY <1>1, <1>2, <2>1
    <2>3. v + c = u + (c + cost) /\ n + 1 = m + 1
        BY <1>1, <1>2, <2>2
    <2>4. v = u + cost /\ n = m
        BY <2>3
    <2>5. QED BY <2>2, <2>4
<1>4. /\ instant \in 0 .. LastInstant /\ DOMAIN bill = 0 .. LastInstant
      /\ \A t \in 0 .. LastInstant : bill[t] \in Nat
    BY DEF BotTypeOK
<1>5. BotTypeOK'
    <2>1. /\ DOMAIN bill' = 0 .. LastInstant
          /\ \A t \in 0 .. LastInstant : bill'[t] \in Nat /\ (t > instant => bill'[t] = 0)
        BY <1>4 DEF BotTypeOK
    <2>2. QED BY <1>1, <2>1 DEF BotTypeOK
<1>6. ASSUME NEW w \in Int
      PROVE  BilledAfter(bill', w) = BilledAfter(bill, w) + (IF instant > w THEN cost ELSE 0)
    BY <1>4, Charged
<1>7. ASSUME NEW w \in Int PROVE Accounted(w)'
    <2>1. PICK b \in Nat, t \in Nat, u \in Nat, x \in Nat :
              /\ b = BilledAfter(bill, w) /\ t = TrailAfter(trail, w)
              /\ u = UnderWay(asking) /\ x = missed * Fare
        BY BotNumbers
    <2>2. b <= t + u + x
        BY <2>1 DEF Accounted
    <2>3. BilledAfter(bill', w) <= t + (u + cost) + x
        <3>1. BilledAfter(bill', w) = b + (IF instant > w THEN cost ELSE 0)
            BY <1>6, <2>1
        <3>2. b + (IF instant > w THEN cost ELSE 0) <= t + (u + cost) + x
            BY <2>2
        <3>3. QED BY <3>1, <3>2
    <2>4. missed' * Fare = x /\ TrailAfter(trail', w) = t
        BY <2>1
    <2>5. QED BY <1>3, <2>1, <2>3, <2>4 DEF Accounted
<1>8. Reserved'
    <2>1. PICK b \in Nat, u \in Nat, x \in Nat, y \in Nat, d \in Nat :
              /\ b = BilledAfter(bill, instant - ADay) /\ d = DailyCap
              /\ u = UnderWay(asking) /\ x = Cardinality(LetIn(asking)) * Fare
              /\ y = (Cardinality(Askers) + missed) * Fare
        <3>1. PICK m \in Nat, all \in Nat, f \in Nat, n \in Nat :
                  m = Cardinality(LetIn(asking)) /\ all = Cardinality(Askers) /\ f = Fare /\ n = missed
            BY BotNumbers
        <3>2. m * f \in Nat /\ (all + n) * f \in Nat
            OBVIOUS
        <3>3. QED BY <3>1, <3>2, BotNumbers, FareIs
    <2>2. b + x < d + y + u
        BY <2>1 DEF Reserved
    <2>3. BilledAfter(bill', instant - ADay) <= b + cost
          /\ BilledAfter(bill', instant - ADay) \in Nat
        <3>1. PICK w \in Int : w = instant - ADay
            BY BotNumbers
        <3>2. BilledAfter(bill', w) = b + (IF instant > w THEN cost ELSE 0)
            BY <1>6, <2>1, <3>1
        <3>3. QED BY <3>1, <3>2
    <2>4. BilledAfter(bill', instant - ADay) + x < d + y + (u + cost)
        BY <2>2, <2>3
    <2>5. BilledAfter(bill', instant' - ADay) = BilledAfter(bill', instant - ADay)
        OBVIOUS
    <2>6. QED BY <1>3, <2>1, <2>4, <2>5 DEF Reserved
<1>9. QED BY <1>5, <1>7, <1>8

\* The reply is written, with what the question was charged.
LEMMA BotWrites ==
    ASSUME BotInv, NEW a \in Askers, asking[a].allowed, NEW q, QuestionOK(q), ~q.allowed,
           asking' = [asking EXCEPT ![a] = q], NEW row, RowOK(row), row.at = instant,
           row.cost = asking[a].cost, trail' = Append(trail, row),
           UNCHANGED <<instant, bill, missed>>
    PROVE  BotInv'
<1> USE DEF BotInv
<1>1. /\ DOMAIN asking' = Askers /\ \A s \in Askers : QuestionOK(asking'[s])
      /\ UnderWay(asking') \in Nat /\ Cardinality(LetIn(asking')) \in Nat
      /\ UnderWay(asking') + asking[a].cost = UnderWay(asking) + q.cost
      /\ Cardinality(LetIn(asking')) + Own(asking[a]) = Cardinality(LetIn(asking)) + Own(q)
    BY AskerMoves
<1>2. /\ asking[a].cost \in Nat /\ asking[a].cost <= Fare /\ Own(asking[a]) = 1
      /\ q.cost = 0 /\ Own(q) = 0
    BY MostIsTheFare DEF BotTypeOK, Own
<1>3. PICK c \in Nat, v \in Nat, n \in Nat, f \in Nat :
          /\ c = asking[a].cost /\ v = UnderWay(asking') /\ n = Cardinality(LetIn(asking'))
          /\ f = Fare /\ c <= f
          /\ UnderWay(asking) = v + c /\ Cardinality(LetIn(asking)) = n + 1
    <2>1. UnderWay(asking) \in Nat /\ Cardinality(LetIn(asking)) \in Nat /\ Fare \in Nat
        BY BotNumbers
    <2>2. PICK u \in Nat, v \in Nat, m \in Nat, n \in Nat, c \in Nat, f \in Nat :
              /\ u = UnderWay(asking) /\ v = UnderWay(asking') /\ c = asking[a].cost /\ f = Fare
              /\ m = Cardinality(LetIn(asking)) /\ n = Cardinality(LetIn(asking'))
        BY <1>1, <1>2, <2>1
    <2>3. v + c = u + 0 /\ n + 1 = m + 0 /\ c <= f
        BY <1>1, <1>2, <2>2
    <2>4. u = v + c /\ m = n + 1
        BY <2>3
    <2>5. QED BY <2>2, <2>3, <2>4
<1>4. RowsOK(trail) /\ GrowsBy(trail, row, trail')
    BY DEF RowsOK, GrowsBy, BotTypeOK
<1>5. ASSUME NEW w \in Int
      PROVE  /\ RowsOK(trail')
             /\ TrailAfter(trail', w) = TrailAfter(trail, w) + (IF instant > w THEN c ELSE 0)
    <2>1. PICK old, new : old = trail /\ new = trail'
        OBVIOUS
    <2>2. RowsOK(old) /\ GrowsBy(old, row, new)
        BY <1>4, <2>1
    <2>3. /\ RowsOK(new)
          /\ TrailAfter(new, w) = TrailAfter(old, w) + (IF row.at > w THEN row.cost ELSE 0)
        BY <2>2, RowWritten
    <2>4. QED BY <1>3, <2>1, <2>3
<1>6. BotTypeOK'
    <2>1. RowsOK(trail')
        BY <1>5, BotNumbers
    <2>2. QED BY <1>1, <2>1 DEF BotTypeOK, RowsOK
<1>7. ASSUME NEW w \in Int PROVE Accounted(w)'
    <2>1. PICK b \in Nat, t \in Nat, x \in Nat :
              /\ b = BilledAfter(bill, w) /\ t = TrailAfter(trail, w) /\ x = missed * Fare
        BY BotNumbers
    <2>2. b <= t + (v + c) + x
        BY <1>3, <2>1 DEF Accounted
    <2>3. BilledAfter(bill', w) = b /\ missed' * Fare = x
        BY <2>1
    <2>4. CASE instant > w
        <3>1. TrailAfter(trail', w) = t + c
            BY <1>5, <2>1, <2>4
        <3>2. b <= (t + c) + v + x
            BY <2>2
        <3>3. QED BY <1>3, <2>3, <3>1, <3>2 DEF Accounted
    <2>5. CASE ~(instant > w)
        <3>1. TrailAfter(trail', w) = t
            BY <1>5, <2>1, <2>5
        <3>2. b = 0
            <4>1. \A t0 \in 0 .. LastInstant : t0 > w => bill[t0] = 0
                BY <2>5 DEF BotTypeOK
            <4>2. QED BY <2>1, <4>1, BilledIs DEF BotTypeOK
        <3>3. b <= t + v + x
            BY <3>2
        <3>4. QED BY <1>3, <2>3, <3>1, <3>3 DEF Accounted
    <2>6. QED BY <2>4, <2>5
<1>8. Reserved'
    <2>1. PICK b \in Nat, d \in Nat, y \in Nat :
              /\ b = BilledAfter(bill, instant - ADay) /\ d = DailyCap
              /\ y = (Cardinality(Askers) + missed) * Fare
        <3>1. PICK all \in Nat, m \in Nat : all = Cardinality(Askers) /\ m = missed
            BY BotNumbers
        <3>2. (all + m) * f \in Nat
            OBVIOUS
        <3>3. QED BY <1>3, <3>1, <3>2, BotNumbers, FareIs
    <2>2. b + (n + 1) * f < d + y + (v + c)
        BY <1>3, <2>1 DEF Reserved
    <2>3. (n + 1) * f = n * f + f /\ n * f \in Nat
        OBVIOUS
    <2>4. b + n * f < d + y + v
        <3>1. PICK x \in Nat : x = n * f
            BY <2>3
        <3>2. c <= f /\ b + (x + f) < d + y + (v + c)
            BY <1>3, <2>2, <2>3, <3>1
        <3>3. b + x < d + y + v
            BY <3>2
        <3>4. QED BY <3>1, <3>3
    <2>5. /\ BilledAfter(bill', instant' - ADay) = b
          /\ (Cardinality(Askers) + missed') * Fare = y
        BY <2>1
    <2>6. QED BY <1>3, <2>1, <2>4, <2>5 DEF Reserved
<1>9. QED BY <1>6, <1>7, <1>8

\* A row of no cost.
LEMMA BotNotes ==
    ASSUME BotInv, NEW row, RowOK(row), row.cost = 0, trail' = Append(trail, row),
           UNCHANGED <<instant, asking, bill, missed>>
    PROVE  BotInv'
<1> USE DEF BotInv
<1>1. ASSUME NEW w \in Int
      PROVE  RowsOK(trail') /\ TrailAfter(trail', w) = TrailAfter(trail, w)
    <2>1. PICK old, new : old = trail /\ new = trail'
        OBVIOUS
    <2>2. RowsOK(old) /\ GrowsBy(old, row, new)
        BY <2>1 DEF RowsOK, GrowsBy, BotTypeOK
    <2>3. /\ RowsOK(new)
          /\ TrailAfter(new, w) = TrailAfter(old, w) + (IF row.at > w THEN row.cost ELSE 0)
        BY <2>2, RowWritten
    <2>4. QED BY <2>1, <2>3, BotNumbers
<1>2. RowsOK(trail')
    BY <1>1, BotNumbers
<1>3. BotTypeOK'
    BY <1>2 DEF BotTypeOK, RowsOK
<1>4. ASSUME NEW w \in Int PROVE Accounted(w)'
    <2>1. TrailAfter(trail', w) = TrailAfter(trail, w)
        BY <1>1
    <2>2. QED BY <2>1 DEF Accounted
<1>5. Reserved'
    BY DEF Reserved
<1>6. QED BY <1>3, <1>4, <1>5

\* With time, what was charged longest ago is no longer of the day.
LEMMA BotWaits ==
    ASSUME BotInv, TimePasses
    PROVE  BotInv'
<1> USE DEF BotInv
<1>1. instant' = instant + 1 /\ instant' \in 0 .. LastInstant
    BY FareIs DEF TimePasses, BotTypeOK
<1>2. UNCHANGED <<trail, asking, bill, missed>>
    BY DEF TimePasses
<1>3. BotTypeOK'
    BY <1>1, <1>2 DEF BotTypeOK
<1>4. ASSUME NEW w \in Int PROVE Accounted(w)'
    BY <1>2 DEF Accounted
<1>5. Reserved'
    <2>1. PICK w \in Int : w = instant - ADay
        BY BotNumbers
    <2>2. instant' - ADay = w + 1
        BY <1>1, <2>1, FareIs DEF BotTypeOK
    <2>3. /\ DOMAIN bill = 0 .. LastInstant
          /\ \A t \in 0 .. LastInstant : bill[t] \in Nat
        BY DEF BotTypeOK
    <2> DEFINE S == {t \in DOMAIN bill : t > w}
               T == {t \in DOMAIN bill : t > w + 1}
    <2>4. IsFiniteSet(S) /\ SumOf(bill, S) \in Nat /\ SumOf(bill, T) \in Nat
        <3>1. IsFiniteSet(S) /\ BilledAfter(bill, w) \in Nat
            BY <2>3, BilledIs
        <3>2. BilledAfter(bill, w + 1) \in Nat
            <4>1. w + 1 \in Int
                OBVIOUS
            <4>2. QED BY <2>3, <4>1, BilledIs
        <3>3. QED BY <3>1, <3>2 DEF BilledAfter
    <2>5. SumOf(bill, T) <= SumOf(bill, S)
        <3>1. CASE w + 1 \in DOMAIN bill
            <4>1. w + 1 \in S /\ T = S \ {w + 1}
                BY <2>3, <3>1
            <4>2. \A t \in S : bill[t] \in Nat
                BY <2>3
            <4> HIDE DEF S, T
            <4>3. SumOf(bill, S) = bill[w + 1] + SumOf(bill, S \ {w + 1})
                BY <2>4, <4>1, <4>2, SumOver
            <4>4. SumOf(bill, S) = bill[w + 1] + SumOf(bill, T) /\ bill[w + 1] \in Nat
                BY <4>1, <4>2, <4>3
            <4>5. QED BY <2>4, <4>4
        <3>2. CASE w + 1 \notin DOMAIN bill
            <4>1. T = S
                BY <2>3, <3>2
            <4>2. QED BY <2>4, <4>1
        <3>3. QED BY <3>1, <3>2
    <2>6. BilledAfter(bill', instant' - ADay) <= BilledAfter(bill, instant - ADay)
        BY <1>2, <2>1, <2>2, <2>5 DEF BilledAfter
    <2>7. PICK b \in Nat, c \in Nat : b = BilledAfter(bill, instant - ADay)
                                      /\ c = BilledAfter(bill', instant' - ADay)
        BY <1>2, <2>1, <2>2, <2>4 DEF BilledAfter
    <2>8. PICK x \in Nat, y \in Nat, u \in Nat, d \in Nat :
              /\ x = Cardinality(LetIn(asking)) * Fare /\ d = DailyCap
              /\ y = (Cardinality(Askers) + missed) * Fare /\ u = UnderWay(asking)
        <3>1. PICK m \in Nat, all \in Nat, f \in Nat, n \in Nat :
                  m = Cardinality(LetIn(asking)) /\ all = Cardinality(Askers) /\ f = Fare /\ n = missed
            BY BotNumbers
        <3>2. m * f \in Nat /\ (all + n) * f \in Nat
            OBVIOUS
        <3>3. QED BY <3>1, <3>2, BotNumbers, FareIs
    <2>9. b + x < d + y + u
        BY <2>7, <2>8 DEF Reserved
    <2>10. c + x < d + y + u
        BY <2>6, <2>7, <2>9
    <2>11. QED BY <1>2, <2>7, <2>8, <2>10 DEF Reserved
<1>6. QED BY <1>3, <1>4, <1>5

LEMMA BotInvHolds == BotSpec => []BotInv
<1>1. BotInv /\ [BotNext]_botVars => BotInv'
    <2> SUFFICES ASSUME BotInv, [BotNext]_botVars PROVE BotInv'
        OBVIOUS
    <2>0. BotTypeOK
        BY DEF BotInv
    <2>a. /\ \A a \in Askers : QuestionOK(asking[a])
          /\ DOMAIN asking = Askers
        BY <2>0 DEF BotTypeOK
    <2>b. 0 * Dearest = 0 /\ 0 \in 0 .. ToolRounds
        BY FareIs
    <2>c. QuestionOK(NotAsking) /\ ~NotAsking.allowed /\ NotAsking.cost = 0
        BY <2>b DEF QuestionOK, NotAsking, Surfaces
    <2>d. ASSUME NEW a \in Askers, asking[a].step \in {"idle", "check", "listen", "allowed"}
          PROVE  asking[a].cost = 0 /\ asking[a].round = 0
        <3>1. QuestionOK(asking[a])
            BY <2>a
        <3>2. asking[a].round = 0
            BY <2>d, <3>1 DEF QuestionOK
        <3>3. asking[a].cost \in Nat /\ asking[a].cost <= 0 * Dearest
            BY <3>1, <3>2 DEF QuestionOK
        <3>4. QED BY <2>b, <3>2, <3>3
    \* A question that ends without having been charged, or whose charge no row holds.
    <2>e. ASSUME NEW a \in Askers, Ends(a), UNCHANGED <<instant, trail, bill>>,
                 \/ missed' = missed /\ asking[a].cost = 0
                 \/ missed' = missed + 1
          PROVE  BotInv'
        <3>1. asking' = [asking EXCEPT ![a] = NotAsking]
            BY <2>e DEF Ends
        <3>2. \/ /\ missed' = missed /\ asking[a].cost <= NotAsking.cost
                 /\ NotAsking.allowed => asking[a].allowed
              \/ missed' = missed + 1
            BY <2>c, <2>e
        <3>3. QED BY <2>c, <2>e, <3>1, <3>2, BotQuiet
    <2>1. ASSUME NEW a \in Askers, NEW surface \in Surfaces, NEW spoken \in BOOLEAN,
                 Asks(a, surface, spoken)
          PROVE  BotInv'
        <3> DEFINE q == [NotAsking EXCEPT !.step = "check", !.surface = surface, !.spoken = spoken,
                                          !.thread = IF surface = "web" THEN chat.thread ELSE 0,
                                          !.fresh = surface = "web" /\ ~chat.turns]
        <3>1. QuestionOK(q) /\ ~q.allowed /\ q.cost = 0
            BY <2>b DEF QuestionOK, NotAsking, Surfaces
        <3>2. asking' = [asking EXCEPT ![a] = q]
            BY <2>1 DEF Asks
        <3> HIDE DEF q
        <3>3. asking[a].cost = 0
            BY <2>1, <2>d DEF Asks, At
        <3>4. UNCHANGED <<instant, trail, bill, missed>>
            BY <2>1 DEF Asks
        <3>5. missed' = missed /\ asking[a].cost <= q.cost /\ (q.allowed => asking[a].allowed)
            BY <3>1, <3>3, <3>4
        <3>6. QED BY <3>1, <3>2, <3>4, <3>5, BotQuiet
    <2>2. ASSUME NEW a \in Askers, Checks(a) PROVE BotInv'
        <3>1. /\ QuestionOK(asking[a]) /\ asking[a].step = "check" /\ ~asking[a].allowed
              /\ asking[a].cost = 0 /\ asking[a].round = 0
              /\ UNCHANGED <<instant, trail, bill>>
            BY <2>2, <2>a, <2>d DEF Checks, At, QuestionOK
        <3> DEFINE after == IF asking[a].spoken THEN "listen" ELSE "allowed"
                   below == Spent24h(asking[a].surface) < DailyCap
                   model == IF asking[a].spoken THEN asking[a].model
                            ELSE ChosenModel(asking[a].surface)
        <3>2. after \in {"listen", "allowed"} /\ below \in BOOLEAN
            OBVIOUS
        <3>3. CASE /\ missed' = missed
                   /\ asking' = [asking EXCEPT ![a].allowed = below, ![a].model = model,
                                               ![a].step = after]
            <4> DEFINE q == [asking[a] EXCEPT !.allowed = below, !.model = model, !.step = after]
            <4>1. asking' = [asking EXCEPT ![a] = q]
                BY <3>3
            <4>2. PICK let \in BOOLEAN : let = below
                <5>1. below \in BOOLEAN
                    BY <3>2
                <5> HIDE DEF below
                <5>2. QED BY <5>1, Zenon
            <4>3. q = [asking[a] EXCEPT !.allowed = let, !.model = model, !.step = after]
                BY <4>2
            <4> HIDE DEF q, model, after, below
            <4>4. /\ DOMAIN q = DOMAIN asking[a] /\ q.allowed = let /\ q.step = after
                  /\ q.surface = asking[a].surface /\ q.round = asking[a].round
                  /\ q.cost = asking[a].cost
                BY <3>1, <4>3 DEF QuestionOK
            <4>5. QuestionOK(q)
                BY <3>1, <3>2, <4>4 DEF QuestionOK
            <4>6. CASE let
                <5>1. Spent24h(asking[a].surface) = TrailAfter(trail, instant - ADay)
                    BY <2>0, <3>1, SpentIs DEF QuestionOK
                <5>2. TrailAfter(trail, instant - ADay) < DailyCap
                    BY <4>2, <4>6, <5>1 DEF below
                <5>3. QED BY <3>1, <3>3, <4>1, <4>4, <4>5, <4>6, <5>2, BotLetsIn
            <4>7. CASE ~let
                <5>1. missed' = missed /\ asking[a].cost <= q.cost
                      /\ (q.allowed => asking[a].allowed)
                    BY <3>1, <3>3, <4>4, <4>7
                <5>2. QED BY <3>1, <4>1, <4>5, <5>1, BotQuiet
            <4>8. QED BY <4>6, <4>7
        <3>4. CASE /\ missed' = missed + 1
                   /\ asking' = [asking EXCEPT ![a].allowed = TRUE, ![a].step = after]
            <4> DEFINE q == [asking[a] EXCEPT !.allowed = TRUE, !.step = after]
            <4>1. asking' = [asking EXCEPT ![a] = q]
                BY <3>4
            <4>2. /\ DOMAIN q = DOMAIN asking[a] /\ q.allowed = TRUE /\ q.step = after
                  /\ q.surface = asking[a].surface /\ q.round = asking[a].round
                  /\ q.cost = asking[a].cost
                BY <3>1 DEF QuestionOK
            <4> HIDE DEF q, after
            <4>3. QuestionOK(q)
                BY <3>1, <3>2, <4>2 DEF QuestionOK
            <4>4. QED BY <3>1, <3>4, <4>1, <4>3, BotQuiet
        <3>5. QED BY <2>2, <3>3, <3>4 DEF Checks
    <2>3. ASSUME NEW a \in Askers, Listens(a) PROVE BotInv'
        <3>1. /\ QuestionOK(asking[a]) /\ asking[a].step = "listen" /\ asking[a].cost = 0
              /\ UNCHANGED <<instant, trail, bill, missed>>
            BY <2>3, <2>a, <2>d DEF Listens, At
        <3>2. CASE Ends(a)
            BY <2>e, <3>1, <3>2
        <3>3. CASE asking' = [asking EXCEPT ![a].model = ChosenModel(asking[a].surface),
                                            ![a].step = "allowed"]
            <4> DEFINE q == [asking[a] EXCEPT !.model = ChosenModel(asking[a].surface),
                                              !.step = "allowed"]
            <4>1. asking' = [asking EXCEPT ![a] = q]
                BY <3>3
            <4>2. /\ DOMAIN q = DOMAIN asking[a] /\ q.step = "allowed"
                  /\ q.allowed = asking[a].allowed
                  /\ q.surface = asking[a].surface /\ q.round = asking[a].round
                  /\ q.cost = asking[a].cost
                BY <3>1 DEF QuestionOK
            <4> HIDE DEF q
            <4>3. QuestionOK(q)
                BY <3>1, <4>2 DEF QuestionOK
            <4>4. missed' = missed /\ asking[a].cost <= q.cost
                  /\ (q.allowed => asking[a].allowed)
                BY <3>1, <4>2
            <4>5. QED BY <3>1, <4>1, <4>3, <4>4, BotQuiet
        <3>4. QED BY <2>3, <3>2, <3>3 DEF Listens
    <2>4. ASSUME NEW a \in Askers, Refuses(a) PROVE BotInv'
        BY <2>4, <2>d, <2>e DEF Refuses, At
    <2>5. ASSUME NEW a \in Askers, Recalls(a) PROVE BotInv'
        <3>1. /\ QuestionOK(asking[a]) /\ asking[a].step = "allowed" /\ asking[a].allowed
              /\ asking[a].cost = 0 /\ asking[a].round = 0
              /\ UNCHANGED <<instant, trail, bill, missed>>
            BY <2>5, <2>a, <2>d DEF Recalls, At
        <3>2. ASSUME NEW q, asking' = [asking EXCEPT ![a] = q],
                     DOMAIN q = DOMAIN asking[a], q.step = "think",
                     q.allowed = asking[a].allowed, q.surface = asking[a].surface,
                     q.round = asking[a].round, q.cost = asking[a].cost
              PROVE  BotInv'
            <4>1. QuestionOK(q)
                BY <3>1, <3>2, FareIs DEF QuestionOK
            <4>2. missed' = missed /\ asking[a].cost <= q.cost
                  /\ (q.allowed => asking[a].allowed)
                BY <3>1, <3>2
            <4>3. QED BY <3>1, <3>2, <4>1, <4>2, BotQuiet
        <3>3. CASE StepsTo(a, "think")
            <4> DEFINE q == [asking[a] EXCEPT !.step = "think"]
            <4>1. asking' = [asking EXCEPT ![a] = q]
                BY <3>3 DEF StepsTo
            <4>2. /\ DOMAIN q = DOMAIN asking[a] /\ q.step = "think"
                  /\ q.allowed = asking[a].allowed /\ q.surface = asking[a].surface
                  /\ q.round = asking[a].round /\ q.cost = asking[a].cost
                BY <3>1 DEF QuestionOK
            <4>3. QED BY <3>2, <4>1, <4>2
        <3> DEFINE memory == IF asking[a].fresh THEN {} ELSE RecentTurns(asking[a].surface)
        <3>4. CASE asking' = [asking EXCEPT ![a].step = "think", ![a].fresh = FALSE,
                                            ![a].spoken = FALSE, ![a].memory = memory]
            <4> HIDE DEF memory
            <4> DEFINE q == [asking[a] EXCEPT !.step = "think", !.fresh = FALSE,
                                              !.spoken = FALSE, !.memory = memory]
            <4>1. asking' = [asking EXCEPT ![a] = q]
                BY <3>4
            <4>2. /\ DOMAIN q = DOMAIN asking[a] /\ q.step = "think"
                  /\ q.allowed = asking[a].allowed /\ q.surface = asking[a].surface
                  /\ q.round = asking[a].round /\ q.cost = asking[a].cost
                BY <3>1 DEF QuestionOK
            <4>3. QED BY <3>2, <4>1, <4>2
        <3>5. QED BY <2>5, <3>3, <3>4 DEF Recalls
    <2>6. ASSUME NEW a \in Askers, Round(a) PROVE BotInv'
        <3>1. /\ QuestionOK(asking[a]) /\ asking[a].step = "think" /\ asking[a].allowed
              /\ UNCHANGED <<instant, trail, missed>>
            BY <2>6, <2>a DEF Round, At, QuestionOK
        <3>2. PICK cost \in Nat, n \in Nat :
                  /\ cost = Price(asking[a].model) /\ cost <= Dearest
                  /\ n = asking[a].round /\ n + 1 <= ToolRounds
            <4>1. Price(asking[a].model) \in Nat /\ Price(asking[a].model) <= Dearest
                BY BotAssumption, FareIs DEF Price
            <4>2. asking[a].round \in Nat /\ asking[a].round + 1 <= ToolRounds
                BY <3>1, FareIs DEF QuestionOK
            <4>3. QED BY <4>1, <4>2
        <3>3. PICK more \in BOOLEAN :
                  /\ more => n + 1 < ToolRounds
                  /\ asking' = [asking EXCEPT ![a].memory = {}, ![a].round = n + 1,
                                              ![a].cost = @ + cost,
                                              ![a].step = IF more THEN "think" ELSE "reply"]
            BY <2>6, <3>2 DEF Round
        <3> DEFINE q == [asking[a] EXCEPT !.memory = {}, !.round = n + 1, !.cost = @ + cost,
                                          !.step = IF more THEN "think" ELSE "reply"]
        <3>4. asking' = [asking EXCEPT ![a] = q]
            BY <3>3
        <3>5. /\ DOMAIN q = DOMAIN asking[a] /\ q.step = (IF more THEN "think" ELSE "reply")
              /\ q.allowed = asking[a].allowed /\ q.surface = asking[a].surface
              /\ q.round = n + 1 /\ q.cost = asking[a].cost + cost
            BY <3>1 DEF QuestionOK
        <3> HIDE DEF q
        <3>6. QuestionOK(q)
            <4>1. asking[a].cost \in Nat /\ asking[a].cost <= n * Dearest
                BY <3>1, <3>2 DEF QuestionOK
            <4>2. n * Dearest \in Nat /\ (n + 1) * Dearest = n * Dearest + Dearest
                <5>1. n \in 0 .. ToolRounds
                    BY <3>2, FareIs
                <5>2. QED BY <5>1, RoundsCost
            <4>3. q.cost \in Nat /\ q.cost <= q.round * Dearest
                <5>1. PICK x \in Nat, y \in Nat, d \in Nat :
                          x = n * Dearest /\ y = asking[a].cost /\ d = Dearest
                    BY <4>1, <4>2, FareIs
                <5>2. y + cost <= x + d
                    BY <3>2, <4>1, <5>1
                <5>3. q.cost = y + cost /\ q.round * Dearest = x + d
                    BY <3>5, <4>2, <5>1
                <5>4. QED BY <5>2, <5>3
            <4>4. q.round \in 0 .. ToolRounds /\ (more => q.round < ToolRounds)
                BY <3>2, <3>3, <3>5, FareIs
            <4>5. QED BY <3>1, <3>5, <4>3, <4>4 DEF QuestionOK
        <3>7. bill' = [bill EXCEPT ![instant] = @ + cost]
            BY <2>6, <3>2 DEF Round
        <3>8. QED BY <3>1, <3>4, <3>5, <3>6, <3>7, BotCharged
    <2>7. ASSUME NEW a \in Askers, RoundFails(a) PROVE BotInv'
        <3>1. /\ QuestionOK(asking[a]) /\ Ends(a) /\ UNCHANGED <<instant, trail, bill>>
              /\ missed' = missed + (IF asking[a].cost > 0 THEN 1 ELSE 0)
            BY <2>7, <2>a DEF RoundFails
        <3>2. asking[a].cost \in Nat /\ missed \in Nat
            BY <2>0, <3>1 DEF QuestionOK, BotTypeOK
        <3>3. \/ missed' = missed /\ asking[a].cost = 0
              \/ missed' = missed + 1
            BY <3>1, <3>2
        <3>4. QED BY <2>e, <3>1, <3>3
    <2>8. ASSUME NEW a \in Askers, Replies(a) PROVE BotInv'
        <3>1. /\ QuestionOK(asking[a]) /\ asking[a].allowed /\ Ends(a)
              /\ UNCHANGED <<instant, bill>>
            BY <2>8, <2>a DEF Replies, At, QuestionOK
        <3>2. CASE UNCHANGED trail /\ missed' = missed + 1
            BY <2>e, <3>1, <3>2
        <3> DEFINE row == [op |-> "reply", surface |-> asking[a].surface, at |-> instant,
                           cost |-> asking[a].cost, model |-> asking[a].model,
                           thread |-> asking[a].thread]
        <3>3. CASE trail' = Append(trail, row) /\ UNCHANGED missed
            <4>1. RowOK(row) /\ row.at = instant /\ row.cost = asking[a].cost
                BY <2>0, <3>1, FareIs DEF RowOK, QuestionOK, BotTypeOK
            <4> HIDE DEF row
            <4>2. asking' = [asking EXCEPT ![a] = NotAsking]
                BY <3>1 DEF Ends
            <4>3. QED BY <2>c, <3>1, <3>3, <4>1, <4>2, BotWrites
        <3>4. QED BY <2>8, <3>2, <3>3 DEF Replies
    <2>9. CASE Picks("picked")
        <3> DEFINE row == [op |-> "model", surface |-> "web", at |-> instant, cost |-> 0,
                           model |-> "picked", thread |-> 0]
        <3>1. RowOK(row) /\ row.cost = 0
            BY <2>0, FareIs DEF RowOK, Surfaces, BotTypeOK
        <3>2. trail' = Append(trail, row) /\ UNCHANGED <<instant, asking, bill, missed>>
            BY <2>9 DEF Picks
        <3> HIDE DEF row
        <3>3. QED BY <3>1, <3>2, BotNotes
    <2>10. CASE NewChat \/ UNCHANGED botVars
        <3>1. UNCHANGED <<instant, trail, asking, bill, missed>>
            BY <2>10 DEF NewChat, botVars
        <3>2. BotTypeOK'
            BY <2>0, <3>1 DEF BotTypeOK
        <3>3. ASSUME NEW w \in Int PROVE Accounted(w)'
            BY <3>1 DEF Accounted, BotInv
        <3>4. Reserved'
            BY <3>1 DEF Reserved, BotInv
        <3>5. QED BY <3>2, <3>3, <3>4 DEF BotInv
    <2>11. QED
        BY <2>1, <2>2, <2>3, <2>4, <2>5, <2>6, <2>7, <2>8, <2>9, <2>10, BotWaits DEF BotNext
<1>2. QED BY BotStart, <1>1, PTL DEF BotSpec

LEMMA CapReach == BotInv => CapPassedOnce
<1> SUFFICES ASSUME BotInv PROVE CapPassedOnce
    OBVIOUS
<1>0. BotTypeOK
    BY DEF BotInv
<1>1. PICK b \in Nat, m \in Nat, all \in Nat, f \in Nat, n \in Nat, u \in Nat, d \in Nat :
          /\ b = BilledAfter(bill, instant - ADay) /\ m = Cardinality(LetIn(asking))
          /\ all = Cardinality(Askers) /\ f = Fare /\ n = missed /\ u = UnderWay(asking)
          /\ d = DailyCap
    BY <1>0, BotNumbers, FareIs
<1>2. u <= m * f
    BY <1>0, <1>1, LetInAre DEF BotTypeOK
<1>3. b + m * f < d + (all + n) * f + u
    BY <1>1 DEF BotInv, Reserved
<1>4. m * f \in Nat /\ (all + n) * f \in Nat
    OBVIOUS
<1>5. b < d + (all + n) * f
    BY <1>2, <1>3, <1>4
<1>6. (all + n) * f = (Cardinality(Askers) + missed) * ToolRounds * Dearest
    <2>1. PICK r \in Nat, e \in Nat : r = ToolRounds /\ e = Dearest
        BY FareIs
    <2>2. (all + n) * (r * e) = ((all + n) * r) * e
        OBVIOUS
    <2>3. QED BY <1>1, <2>1, <2>2 DEF Fare
<1>7. BilledAfter(bill, instant - ADay)
          = MapThenSumSet(LAMBDA t : bill[t], {t \in DOMAIN bill : t > instant - ADay})
    BY Zenon DEF BilledAfter, SumOf
<1>8. b < DailyCap + (Cardinality(Askers) + missed) * ToolRounds * Dearest
    BY <1>1, <1>5, <1>6
<1>9. QED BY <1>1, <1>7, <1>8, Zenon DEF CapPassedOnce

-----------------------------------------------------------------------------
(* The services together.  A step of one leaves the others where they are, *)
(* so a behaviour of all of them is a behaviour of each.                   *)

LEMMA OfEach == Spec => MagpieSpec /\ BotSpec /\ NarrativesSpec
<1>1. Init => MagpieInit /\ BotInit /\ NarrativesInit
    BY DEF Init
<1>2. [Next]_servicesVars => [MagpieNext]_magpieVars
    BY DEF Next, servicesVars
<1>3. [Next]_servicesVars => [BotNext]_botVars
    BY DEF Next, servicesVars
<1>4. [Next]_servicesVars => [NarrativesNext]_narrativesVars
    BY DEF Next, servicesVars
<1>5. QED BY <1>1, <1>2, <1>3, <1>4, PTL DEF Spec, MagpieSpec, BotSpec, NarrativesSpec

\* What is paid for passes its cap by no more than what was under way when the cap was
\* reached: the fetches on Magpie's paid rung, but for those whose rows will never say
\* so, by no more than the other threads that had read the meter (run.py), what a person is charged in a day by no more than the
\* questions let in together and those the trail missed (budget.py, agent.py), and a day's
\* narratives by no more than the other tabs that had counted them (narrative.py).
THEOREM CapsAreHeld == Spec => []CapsHold
<1>1. MagpieInv /\ BilledInv /\ BotInv /\ NarrativesInv => CapsHold
    BY MeterReach, CapReach, NarrativesReach DEF CapsHold
<1>2. QED BY <1>1, OfEach, MagpieInvHolds, BilledInvHolds, BotInvHolds, NarrativesInvHolds, PTL
=============================================================================
