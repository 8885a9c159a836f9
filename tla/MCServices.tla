----------------------------- MODULE MCServices -----------------------------
(***************************************************************************)
(* The services that answer and what they ask with, for TLC: Magpie, the   *)
(* connector's grants, Steven, Rupert's narratives, the lanes Yahoo is     *)
(* asked by and the start of a container.  They share no table that one of *)
(* them writes and another reads, so a behaviour is of one of them: which, *)
(* is chosen at the start, and the others stay where they begin.           *)
(***************************************************************************)
EXTENDS Magpie, Connector, Bot, Narratives, Lanes, Startup, TLC

CONSTANT Services  \* which of them a run is of

VARIABLE service

servicesVars == <<service, magpieVars, connectorVars, botVars, narrativesVars, lanesVars,
                  startupVars>>

\* The threads of a service stand for each other.
Threads == Permutations(Asking)

Init ==
    /\ service \in Services
    /\ MagpieInit /\ ConnectorInit /\ BotInit /\ NarrativesInit /\ LanesInit /\ StartupInit
    /\ service # "lanes" => asker = "across"
    /\ service # "startup" => year = FirstYear

Next ==
    \/ /\ service = "magpie" /\ MagpieNext
       /\ UNCHANGED <<service, connectorVars, botVars, narrativesVars, lanesVars, startupVars>>
    \/ /\ service = "connector" /\ ConnectorNext
       /\ UNCHANGED <<service, magpieVars, botVars, narrativesVars, lanesVars, startupVars>>
    \/ /\ service = "bot" /\ BotNext
       /\ UNCHANGED <<service, magpieVars, connectorVars, narrativesVars, lanesVars,
                      startupVars>>
    \/ /\ service = "narratives" /\ NarrativesNext
       /\ UNCHANGED <<service, magpieVars, connectorVars, botVars, lanesVars, startupVars>>
    \/ /\ service = "lanes" /\ LanesNext
       /\ UNCHANGED <<service, magpieVars, connectorVars, botVars, narrativesVars,
                      startupVars>>
    \/ /\ service = "startup" /\ StartupNext
       /\ UNCHANGED <<service, magpieVars, connectorVars, botVars, narrativesVars, lanesVars>>

Spec == Init /\ [][Next]_servicesVars

\* What is paid for passes its cap by no more than what was under way when it was
\* reached: Magpie's meter, a person's day, and the day's narratives.
CapsHold == MeterOvershoot /\ CapPassedOnce /\ NarrativesWithinReach
=============================================================================
