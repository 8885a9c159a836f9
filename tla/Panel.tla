------------------------------- MODULE Panel --------------------------------
(***************************************************************************)
(* What the dashboard shows of Rupert (rupert/panel.py, reduce.py).  The   *)
(* page is some ten queries over the same decisions, on two clocks: what   *)
(* Rupert did is by the instant he did it, what was said by the instant it *)
(* was said; and some count calendar days, some back from now.  It is read *)
(* while passes decide.                                                    *)
(***************************************************************************)
EXTENDS Integers, FiniteSets, FiniteSetsExt

CONSTANTS
    Mentions, Companies,
    ReadOrder,      \* the order the rows of mentions are read in
    ToneFloor,      \* MIN_MENTIONS
    TrimOf,         \* one in TrimOf readings is cut from each end: 1 / TRIM
    LeaderboardDays, ActivityDays, RollingDays,
    DayParts,       \* instants of a day
    LastInstant,    \* bound: instants
    SaidInstants    \* bound: those at which something is said

ASSUME PanelAssumption ==
    /\ {ToneFloor, TrimOf, LeaderboardDays, ActivityDays, RollingDays, DayParts}
          \subseteq Nat \ {0}
    /\ LastInstant \in Nat /\ SaidInstants \subseteq Nat
    /\ IsFiniteSet(Mentions) /\ IsFiniteSet(Companies) /\ Companies # {}
    /\ ReadOrder \in [Mentions -> Nat] /\ \A m, o \in Mentions : ReadOrder[m] = ReadOrder[o] => m = o
    /\ 2 < TrimOf /\ TrimOf <= ToneFloor

VARIABLES
    panelNow,       \* the database's clock
    decision        \* rupert.mention and its reading, by mention

panelVars == <<panelNow, decision>>

DayOf(t) == t \div DayParts
Today == DayOf(panelNow)

\* now() - make_interval(days => n).
Ago(n) == panelNow - n * DayParts

\* A reading as what it leans to and how much of a view it carries.
Readings == {[tone |-> -2, certainty |-> 2], [tone |-> 0, certainty |-> 0],
             [tone |-> 2, certainty |-> 1]}
Unread == [tone |-> 0, certainty |-> -1]
Undecided == [state |-> "undecided", company |-> "none", said |-> 0, observed |-> 0,
              cost |-> 0, reading |-> Unread]

PanelInit ==
    /\ panelNow = 0
    /\ decision = [m \in Mentions |-> Undecided]

-----------------------------------------------------------------------------
(* reduce.py.                                                              *)

Made == {m \in Mentions : decision[m].state # "undecided"}
Resolved == {m \in Mentions : decision[m].state = "resolved"}
ReadOf(mentions) == {m \in mentions : decision[m].reading # Unread}

\* Mutant: nothing is trimmed.
CutNothing(n) == 0

Cut(n) == n \div TrimOf

\* How many of them are no higher in tone, or as high and read no later.
ToneRank(readingOf, mentions, m) ==
    Cardinality({o \in mentions : \/ readingOf[o].tone < readingOf[m].tone
                                  \/ readingOf[o].tone = readingOf[m].tone /\ ReadOrder[o] <= ReadOrder[m]})

\* The mean of what is left when the ends are cut, weighted by certainty: as the
\* fraction of two sums.
Mood(readingOf, mentions) ==
    LET n == Cardinality(mentions)
        kept == {m \in mentions : Cut(n) < ToneRank(readingOf, mentions, m)
                                  /\ ToneRank(readingOf, mentions, m) <= n - Cut(n)}
        certainty == [m \in mentions |-> readingOf[m].certainty]
        tone == [m \in mentions |-> readingOf[m].tone]
        weighed == [m \in mentions |-> tone[m] * certainty[m]]
        weight == MapThenSumSet(LAMBDA m : certainty[m], kept)
    IN  IF n < ToneFloor THEN [tone |-> 0, of |-> 0]
        ELSE IF weight <= 0
             THEN [tone |-> MapThenSumSet(LAMBDA m : tone[m], kept), of |-> Cardinality(kept)]
             ELSE [tone |-> MapThenSumSet(LAMBDA m : weighed[m], kept), of |-> weight]

-----------------------------------------------------------------------------
(* panel.py.                                                               *)

\* By the instant of the decision: of one calendar day, and since an instant.
ObservedOn(day) == {m \in Made : DayOf(decision[m].observed) = day}
ObservedSince(t) == {m \in Made : decision[m].observed >= t}
Paying(mentions) == {m \in mentions : decision[m].state # "crowded"}
Costs == [m \in Mentions |-> decision[m].cost]
CostOf(mentions) == MapThenSumSet(LAMBDA m : Costs[m], mentions)

PanelCounts(state) == Cardinality({m \in Made : decision[m].state = state})

PanelSpend ==
    [callsToday |-> Cardinality(Paying(ObservedSince(Today * DayParts))),
     costToday |-> CostOf(ObservedSince(Today * DayParts)),
     costWindow |-> CostOf(ObservedSince(Ago(ActivityDays))),
     decisions |-> Cardinality(Paying(Made))]

\* Mutant: the window's days are those before today.
DailyBefore ==
    [k \in 1 .. ActivityDays |->
        LET there == ObservedOn(Today - ActivityDays + k - 1)
        IN  [decisions |-> Cardinality(Paying(there)), cost |-> CostOf(there),
             resolved |-> Cardinality(there \cap Resolved)]]

PanelDaily ==
    [k \in 1 .. ActivityDays |->
        LET there == ObservedOn(Today - ActivityDays + k)
        IN  [decisions |-> Cardinality(Paying(there)), cost |-> CostOf(there),
             resolved |-> Cardinality(there \cap Resolved)]]

\* By the instant of what was said.
Said(company, days) ==
    {m \in Resolved : decision[m].company = company /\ decision[m].said >= Ago(days)}

Standing(company) ==
    LET about == Said(company, LeaderboardDays)
    IN  [mentions |-> Cardinality(about), read |-> Cardinality(ReadOf(about)),
         mood |-> Mood([m \in Mentions |-> decision[m].reading], ReadOf(about))]

\* The trailing window of calendar days that ends on one.
ScoredOn(company, day) ==
    LET window == {m \in Resolved : decision[m].company = company
                                    /\ DayOf(decision[m].said) \in day - RollingDays + 1 .. day}
    IN  [mentions |-> Cardinality(window),
         tone |-> Mood([m \in Mentions |-> decision[m].reading], ReadOf(window))]

Covered ==
    LET n(c) == Cardinality(Said(c, LeaderboardDays))
    IN  [mentioned |-> Cardinality({c \in Companies : n(c) > 0}),
         scoreable |-> Cardinality({c \in Companies : n(c) >= ToneFloor})]

-----------------------------------------------------------------------------
(* External: the passes that decide, and the clock.                        *)

Decides(m, state, company, said, reading) ==
    /\ decision[m].state = "undecided"
    /\ said <= panelNow
    /\ state # "resolved" => reading = Unread /\ company = CHOOSE c \in Companies : TRUE
    /\ decision' = [decision EXCEPT ![m] =
          [state |-> state, company |-> IF state = "resolved" THEN company ELSE "none",
           said |-> said, observed |-> panelNow, cost |-> IF state = "crowded" THEN 0 ELSE 1,
           reading |-> IF state = "resolved" THEN reading ELSE Unread]]
    /\ UNCHANGED panelNow

PanelTimePasses ==
    /\ panelNow < LastInstant
    /\ panelNow' = panelNow + 1
    /\ UNCHANGED decision

PanelNext ==
    \/ \E m \in Mentions, state \in {"resolved", "none", "crowded"}, c \in Companies,
          said \in SaidInstants, reading \in Readings \cup {Unread} :
             Decides(m, state, c, said, reading)
    \/ PanelTimePasses

PanelSpec == PanelInit /\ [][PanelNext]_panelVars

-----------------------------------------------------------------------------
(* What must hold.                                                         *)

\* What is in a window that goes back from now and not in the calendar days of the
\* same number: the end of the day before the first of them.
LateObserved == {m \in ObservedOn(Today - ActivityDays) : decision[m].observed >= Ago(ActivityDays)}
LateSaid(company) ==
    {m \in Said(company, LeaderboardDays) : DayOf(decision[m].said) = Today - LeaderboardDays}

\* The figures of one page are of the same decisions: the number that stops a pass
\* is the last bar of the chart; the window's cost is what the chart adds up to, and
\* a company's line on the board its last point, but for the end of one day; and a
\* company with a tone is among those with enough said of them.
\* (spend, daily, standings, scored, covered)
PanelAgrees ==
    /\ PanelSpend.callsToday = PanelDaily[ActivityDays].decisions
    /\ LET bars == [k \in 1 .. ActivityDays |-> PanelDaily[k].cost]
       IN  PanelSpend.costWindow
              = MapThenSumSet(LAMBDA k : bars[k], 1 .. ActivityDays) + CostOf(LateObserved)
    /\ PanelCounts("resolved") + PanelCounts("none") = PanelSpend.decisions
    /\ Covered.scoreable >= Cardinality({c \in Companies : Standing(c).mood.of > 0})
    /\ LeaderboardDays = RollingDays =>
          \A c \in Companies :
             /\ Standing(c).mentions = ScoredOn(c, Today).mentions + Cardinality(LateSaid(c))
             /\ ReadOf(LateSaid(c)) = {} => Standing(c).mood = ScoredOn(c, Today).tone

\* "The single screenshot that would otherwise decide the night": the most extreme
\* reading of a company does not move its tone, however extreme it is.  (mood)
NoOnePostDecides ==
    \A c \in Companies : \A m \in ReadOf(Said(c, LeaderboardDays)) :
        LET about == ReadOf(Said(c, LeaderboardDays))
            now == [o \in Mentions |-> decision[o].reading]
            louder == [now EXCEPT ![m] = [tone |-> 9, certainty |-> 9]]
        IN  (\A o \in about \ {m} : now[o].tone < now[m].tone) =>
                Mood(louder, about) = Mood(now, about)

\* The page does not contradict itself, and no one post makes it.
PanelIsSound == PanelAgrees /\ NoOnePostDecides
=============================================================================
