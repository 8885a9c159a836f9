----------------------------- MODULE Narratives -----------------------------
(***************************************************************************)
(* The one thing the dashboard pays for about Rupert: a paragraph on a     *)
(* company, once a day (rupert/narrative.py, the handler in                *)
(* health/server.py and its queries in rupert/panel.py).  Requests are     *)
(* threads, every statement a transaction of its own, and two things stop  *)
(* a request before it is paid for: what is already written, and how much  *)
(* has been written today.  The asker's own cap is Bot's.                  *)
(***************************************************************************)
EXTENDS Integers, FiniteSets

CONSTANTS
    Tabs,               \* requests under way at once
    TalkedOf,           \* companies with something said of them
    DailyMax,           \* DAILY_MAX
    LastNarrativeDay, MaxPaid \* bounds

ASSUME NarrativesAssumption ==
    /\ IsFiniteSet(Tabs) /\ Tabs # {}
    /\ {DailyMax, LastNarrativeDay, MaxPaid} \subseteq Nat

VARIABLES
    narrativeDay,
    narrative,      \* rupert.narrative: by whom, by company and day
    tab,
    paid            \* ghost: what was paid for, by day, and whether it was kept

narrativesVars == <<narrativeDay, narrative, tab, paid>>

TabIdle == [step |-> "idle"]

NarrativesInit ==
    /\ narrativeDay = 1
    /\ narrative = {}
    /\ tab = [t \in Tabs |-> TabIdle]
    /\ paid = {}

Held(company, d) == {n \in narrative : n.company = company /\ n.day = d}

\* Mutant: the day's narratives are those of this company.
NarrativesOfOne(t) == Cardinality(Held(tab[t].company, tab[t].day))

NarrativesToday(t) == Cardinality({n \in narrative : n.day = tab[t].day})

\* What is written today already is shown, and costs nothing.
AsksNarrative(t, company) ==
    /\ tab[t] = TabIdle
    /\ Held(company, narrativeDay) = {}
    /\ tab' = [tab EXCEPT ![t] = [step |-> "count", company |-> company, day |-> narrativeDay]]
    /\ UNCHANGED <<narrativeDay, narrative, paid>>

\* Under the day's cap, and under the asker's own.
MayWrite(t, allowed) ==
    /\ tab[t].step = "count"
    /\ tab' = IF NarrativesToday(t) < DailyMax /\ allowed
              THEN [tab EXCEPT ![t].step = "write"] ELSE [tab EXCEPT ![t] = TabIdle]
    /\ UNCHANGED <<narrativeDay, narrative, paid>>

\* The model answers, or with nothing, which is paid for and is on no row.
ModelWrites(t, something) ==
    /\ tab[t].step = "write"
    /\ Cardinality(paid) < MaxPaid
    /\ paid' = paid \cup {[id |-> Cardinality(paid) + 1, company |-> tab[t].company,
                           day |-> tab[t].day, empty |-> ~something]}
    /\ tab' = IF something THEN [tab EXCEPT ![t].step = "save"]
              ELSE [tab EXCEPT ![t] = TabIdle]
    /\ UNCHANGED <<narrativeDay, narrative>>

ModelSilent(t) ==
    /\ tab[t].step = "write"
    /\ tab' = [tab EXCEPT ![t] = TabIdle]
    /\ UNCHANGED <<narrativeDay, narrative, paid>>

\* save_narrative: the first is kept, if it can be written.
SaveNarrative(t, writable) ==
    /\ tab[t].step = "save"
    /\ narrative' =
          IF ~writable \/ Held(tab[t].company, tab[t].day) # {} THEN narrative
          ELSE narrative \cup {[company |-> tab[t].company, day |-> tab[t].day, by |-> t]}
    /\ tab' = [tab EXCEPT ![t] = TabIdle]
    /\ UNCHANGED <<narrativeDay, paid>>

NarrativeDayPasses ==
    /\ narrativeDay < LastNarrativeDay
    /\ narrativeDay' = narrativeDay + 1
    /\ UNCHANGED <<narrative, tab, paid>>

NarrativesNext ==
    \/ NarrativeDayPasses
    \/ \E t \in Tabs :
          \/ \E c \in TalkedOf : AsksNarrative(t, c)
          \/ \E yes \in BOOLEAN : MayWrite(t, yes) \/ ModelWrites(t, yes) \/ SaveNarrative(t, yes)
          \/ ModelSilent(t)

NarrativesSpec == NarrativesInit /\ [][NarrativesNext]_narrativesVars

-----------------------------------------------------------------------------
(* What must hold.                                                         *)

\* The day's cap is passed by no more than the requests that had read the count
\* together, and a company has one narrative a day, one that was paid for.
\* (narratives_today, save_narrative)
NarrativesWithinReach ==
    \A d \in 1 .. LastNarrativeDay :
        LET written == {n \in narrative : n.day = d}
        IN  /\ Cardinality(written) < DailyMax + Cardinality(Tabs)
            /\ \A n, o \in written : n.company = o.company => n = o
            /\ \A n \in written : \E p \in paid :
                  p.company = n.company /\ p.day = d /\ ~p.empty
=============================================================================
