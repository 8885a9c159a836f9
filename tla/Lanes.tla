-------------------------------- MODULE Lanes -------------------------------
(***************************************************************************)
(* How Yahoo is asked (fetch/lanes.py, universe/sources/yahoo.py,          *)
(* ingest/chart.py, timeseries.py).  A pool hands its lanes out in turn    *)
(* and passes over those on cooldown; it never waits.  A client asks for   *)
(* one symbol at a time, parks the lane that was refused and tries again   *)
(* by the next, and waits when there is nowhere fresh to ask.              *)
(*                                                                         *)
(* Lanes are numbered from 0, as the pool's tuple is.  What is answered is *)
(* left out.                                                               *)
(***************************************************************************)
EXTENDS Integers, FiniteSets

CONSTANTS
    Exits,          \* BRIGHTDATA_PROXY_IPS: how many addresses are configured
    SpareAttempts,  \* _SPARE_ATTEMPTS
    FirstBackoff,   \* backoff, in seconds
    MaxItems,       \* bound: items of a call to across
    MaxSymbols,     \* bound: symbols
    LastSecond      \* bound: the clock

ASSUME LanesAssumption ==
    /\ {Exits, MaxItems, MaxSymbols, LastSecond} \subseteq Nat
    /\ {SpareAttempts, FirstBackoff} \subseteq Nat \ {0}

VARIABLES
    second,     \* time.monotonic
    asker,      \* whose pool it is: the client that was given it, or a caller of across
    freeAt,     \* _free_at of each lane
    nextLane,   \* _next
    crumbs,     \* _crumbs: the lanes a crumb is held for
    quest,      \* the symbol being asked for, or NoQuest
    symbols,    \* how many were
    refusedBy,  \* ghost: the lanes that answered 429 in this ask
    passed,     \* ghost: the lanes that were on cooldown when one was chosen in it
    crew        \* the workers of a call to across, or NoCrew

lanesVars == <<second, asker, freeAt, nextLane, crumbs, quest, symbols, refusedBy,
               passed, crew>>

\* from_env: a lane per address, or the box's own when there is none.
LaneCount == IF Exits = 0 THEN 1 ELSE Exits
LaneIds == 0 .. LaneCount - 1
PoolUsers == {"profile", "chart", "timeseries", "across"}
NoQuest == [at |-> "idle"]
NoCrew == [at |-> "idle"]

LanesInit ==
    /\ second = 0
    /\ asker \in PoolUsers
    /\ freeAt = [l \in LaneIds |-> 0]
    /\ nextLane = 0
    /\ crumbs = {}
    /\ quest = NoQuest
    /\ symbols = 0
    /\ refusedBy = {}
    /\ passed = {}
    /\ crew = NoCrew

-----------------------------------------------------------------------------
(* The pool.                                                               *)

\* parked_for is 0.
OffCooldown(free, l) == free[l] <= second
Parked(free) == {l \in LaneIds : ~OffCooldown(free, l)}

\* How far in its turn a lane is.
Turn(l) == (l - nextLane) % LaneCount

\* acquire: the free lane whose turn is soonest, or the lane that is free soonest.
Acquired(free) ==
    IF Parked(free) = LaneIds
    THEN CHOOSE l \in LaneIds : \A m \in LaneIds :
             free[l] < free[m] \/ (free[l] = free[m] /\ l <= m)
    ELSE CHOOSE l \in LaneIds \ Parked(free) :
             \A m \in LaneIds \ Parked(free) : Turn(l) <= Turn(m)

\* acquire moves the turn on, unless there was none to have.
Acquires(free) ==
    /\ nextLane' = IF Parked(free) = LaneIds THEN nextLane
                   ELSE (Acquired(free) + 1) % LaneCount
    /\ passed' = passed \cup Parked(free)

-----------------------------------------------------------------------------
(* Asking for a symbol: profile, and fetch of the charts and the series.   *)

LaneTries == LaneCount + SpareAttempts

\* A lane is had before the first attempt, but for the series.
AsksFor ==
    /\ asker # "across" /\ quest = NoQuest
    /\ symbols < MaxSymbols
    /\ refusedBy' = {}
    /\ IF asker = "timeseries" THEN passed' = {} /\ UNCHANGED nextLane
       ELSE /\ nextLane' = IF Parked(freeAt) = LaneIds THEN nextLane
                           ELSE (Acquired(freeAt) + 1) % LaneCount
            /\ passed' = Parked(freeAt)
    /\ quest' = [at |-> "attempt", tries |-> 0, backoff |-> FirstBackoff,
               refreshed |-> FALSE, lane |-> Acquired(freeAt)]
    /\ symbols' = symbols + 1
    /\ UNCHANGED <<second, asker, freeAt, crumbs, crew>>

\* Mutant: a lane is had as if none were on cooldown.
AttemptsAtOnce ==
    /\ quest.at = "attempt"
    /\ quest.tries < LaneTries
    /\ LET lane == IF asker = "timeseries" THEN Acquired(freeAt) ELSE quest.lane
           waits == ~OffCooldown(freeAt, lane)
       IN  /\ UNCHANGED second
           /\ quest' = [quest EXCEPT !.at = "send", !.lane = lane,
                                 !.backoff = IF waits THEN 2 * @ ELSE @]
    /\ IF asker = "timeseries" THEN Acquires(freeAt) ELSE UNCHANGED <<nextLane, passed>>
    /\ UNCHANGED <<asker, freeAt, crumbs, symbols, refusedBy, crew>>

\* The head of the loop: a lane on cooldown is one that is waited for.
Attempt ==
    /\ quest.at = "attempt"
    /\ quest.tries < LaneTries
    /\ LET lane == IF asker = "timeseries" THEN Acquired(freeAt) ELSE quest.lane
           waits == ~OffCooldown(freeAt, lane)
       IN  /\ IF waits THEN second' = second + quest.backoff /\ second' <= LastSecond
              ELSE UNCHANGED second
           /\ quest' = [quest EXCEPT !.at = "send", !.lane = lane,
                                 !.backoff = IF waits THEN 2 * @ ELSE @]
    /\ IF asker = "timeseries" THEN Acquires(freeAt) ELSE UNCHANGED <<nextLane, passed>>
    /\ UNCHANGED <<asker, freeAt, crumbs, symbols, refusedBy, crew>>

Sends == quest.at = "send" /\ (asker = "profile" => quest.lane \in crumbs)

\* _crumbed: a lane's first request is preceded by its handshake, which is the end
\* of the run when it fails.
Crumb(issued) ==
    /\ quest.at = "send" /\ asker = "profile" /\ quest.lane \notin crumbs
    /\ IF issued THEN crumbs' = crumbs \cup {quest.lane} /\ UNCHANGED <<quest, symbols>>
       ELSE quest' = NoQuest /\ symbols' = MaxSymbols /\ UNCHANGED crumbs
    /\ UNCHANGED <<second, asker, freeAt, nextLane, refusedBy, passed, crew>>

\* An answer, or a failure of this symbol: the lane is whoever's turn it is next.
YahooAnswers ==
    /\ Sends
    /\ quest' = NoQuest
    /\ UNCHANGED <<second, asker, freeAt, nextLane, crumbs, symbols, refusedBy, passed, crew>>

\* 401: the lane's crumb has expired, once; it is had again by the same lane.
CrumbExpired ==
    /\ Sends /\ asker = "profile"
    /\ IF quest.refreshed THEN quest' = NoQuest /\ UNCHANGED crumbs
       ELSE /\ crumbs' = crumbs \ {quest.lane}
            /\ quest' = [quest EXCEPT !.at = "attempt", !.tries = @ + 1, !.refreshed = TRUE]
    /\ UNCHANGED <<second, asker, freeAt, nextLane, symbols, refusedBy, passed, crew>>

Park(lane, seconds) == [freeAt EXCEPT ![lane] = second + seconds]

\* 429: the lane is parked, and the next attempt leaves by another.
YahooRefuses ==
    /\ Sends
    /\ freeAt' = Park(quest.lane, quest.backoff)
    /\ refusedBy' = refusedBy \cup {quest.lane}
    /\ IF asker = "timeseries"
       THEN /\ quest' = [quest EXCEPT !.at = "attempt", !.tries = @ + 1, !.backoff = 2 * @]
            /\ UNCHANGED <<nextLane, passed>>
       ELSE /\ quest' = [quest EXCEPT !.at = "attempt", !.tries = @ + 1,
                                  !.lane = Acquired(freeAt')]
            /\ Acquires(freeAt')
    /\ UNCHANGED <<second, asker, crumbs, symbols, crew>>

\* The loop is over: None.
GivesUp ==
    /\ quest.at = "attempt"
    /\ quest.tries = LaneTries
    /\ quest' = NoQuest
    /\ UNCHANGED <<second, asker, freeAt, nextLane, crumbs, symbols, refusedBy, passed, crew>>

SecondPasses ==
    /\ second < LastSecond
    /\ second' = second + 1
    /\ UNCHANGED <<asker, freeAt, nextLane, crumbs, quest, symbols, refusedBy, passed, crew>>

-----------------------------------------------------------------------------
(* across: a worker per lane, and a stripe of the items for each.          *)

CrewStarts(items) ==
    /\ asker = "across" /\ crew.at # "running"
    /\ crew' = [at |-> "running", items |-> items, failed |-> {},
                at_item |-> [l \in LaneIds |-> l],
                results |-> [i \in 0 .. items - 1 |-> FALSE]]
    /\ UNCHANGED <<second, asker, freeAt, nextLane, crumbs, quest, symbols, refusedBy, passed>>

Working(l) == l \notin crew.failed /\ crew.at_item[l] < crew.items

\* One item of a lane's stripe, and on to the next of it.
Works(l) ==
    /\ crew.at = "running" /\ Working(l)
    /\ crew' = [crew EXCEPT !.results[crew.at_item[l]] = TRUE,
                            !.at_item[l] = @ + LaneCount]
    /\ UNCHANGED <<second, asker, freeAt, nextLane, crumbs, quest, symbols, refusedBy, passed>>

\* work raised: its lane stops, and the others go on.
WorkRaises(l) ==
    /\ crew.at = "running" /\ Working(l)
    /\ crew' = [crew EXCEPT !.failed = @ \cup {l}]
    /\ UNCHANGED <<second, asker, freeAt, nextLane, crumbs, quest, symbols, refusedBy, passed>>

\* Every worker is joined before what failed is raised, or the results given.
CrewEnds ==
    /\ crew.at = "running"
    /\ \A l \in LaneIds : ~Working(l)
    /\ crew' = [crew EXCEPT !.at = IF crew.failed = {} THEN "returned" ELSE "raised"]
    /\ UNCHANGED <<second, asker, freeAt, nextLane, crumbs, quest, symbols, refusedBy, passed>>

LanesNext ==
    \/ AsksFor \/ Attempt \/ YahooAnswers \/ CrumbExpired \/ YahooRefuses \/ GivesUp
    \/ SecondPasses
    \/ \E issued \in BOOLEAN : Crumb(issued)
    \/ \E items \in 1 .. MaxItems : CrewStarts(items)
    \/ \E l \in LaneIds : Works(l) \/ WorkRaises(l)
    \/ CrewEnds

LanesSpec == LanesInit /\ [][LanesNext]_lanesVars

-----------------------------------------------------------------------------
(* What must hold.                                                         *)

\* A lane that refused a symbol is not asked for it again on its cooldown, however
\* many refusals, waits and expired crumbs are between: "rotating" and "the wait is
\* here" do not undo each other.  (park, acquire, profile, fetch)
RefusalsAreHonoured ==
    quest.at = "send" /\ quest.lane \in refusedBy => OffCooldown(freeAt, quest.lane)

\* A symbol is given up on when every lane has refused it, or was passed over for
\* its cooldown: "a pool of four can meet a 429 on every address and still have the
\* refresh left".  (acquire, _SPARE_ATTEMPTS)
EveryLaneIsTried ==
    quest.at = "attempt" /\ quest.tries = LaneTries =>
        LaneIds \subseteq refusedBy \cup passed

\* across gives results back when every item has its own, and raises otherwise.
AcrossIsWhole ==
    crew.at = "returned" => \A i \in DOMAIN crew.results : crew.results[i]

\* Every exit is used and none is pressed.
LanesAreShared == RefusalsAreHonoured /\ EveryLaneIsTried /\ AcrossIsWhole
=============================================================================
