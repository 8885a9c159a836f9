------------------------------ MODULE Nightly ------------------------------
(***************************************************************************)
(* The scheduler of the nights (nightly/__main__.py, night.py and          *)
(* schedule.py): once a day, at an hour, it fetches prices and             *)
(* fundamentals and has the day scored, a few times if it must, and says   *)
(* so when it gives up.  It shares Scoring.tla's runs and lock with        *)
(* whoever runs `python -m screener.scoring run` by hand.                  *)
(*                                                                         *)
(* Every look at the clock is a step of its own.  The switch that turns    *)
(* the scheduler off is left out.                                          *)
(***************************************************************************)
EXTENDS Scoring

CONSTANTS
    Scheduler,  \* the runner that is the scheduler's
    Hour,       \* trigger_hour, as a time of the day
    Attempts    \* NightlyConfig.attempts

ASSUME SchedulerAssumption == Scheduler \in Runners
ASSUME NightAssumption == Hour \in 0 .. DayLength - 1 /\ Attempts \in Nat \ {0}

VARIABLES
    stage,     \* "down", "top" of the loop, "schedule", "wait", or a night's:
               \* "prices", "scoring" or "backoff"
    tonight,   \* the day of the night it is in
    attempt,
    prices,    \* what this attempt fetched: "none" or "some"
    wake,      \* when it wakes
    stopping,
    said,      \* ghost: the days it has announced as lost
    unsure,    \* ghost: the day it could not ask about on its last pass, or NoDay
    refusedBy  \* ghost: who held the lock when it was refused it, see Holder

nightVars == <<stage, tonight, attempt, prices, wake, stopping, said, unsure>>
allVars == <<vars, nightVars, refusedBy>>

NoDay == Horizon \div DayLength + 2
Scored(day) == \E k \in DOMAIN runs : runs[k] = [day |-> day, outcome |-> "ok"]

NightInit ==
    /\ Init
    /\ stage = "down"
    /\ tonight = 0
    /\ attempt = 0
    /\ prices = "none"
    /\ wake = 0
    /\ stopping = FALSE
    /\ said = {}
    /\ unsure = NoDay
    /\ refusedBy = "nobody"

\* schedule.py.
Trigger(day) == day * DayLength + Hour
IsDue(t) == t % DayLength >= Hour
NextTrigger(t) ==
    LET day == t \div DayLength
    IN  IF Trigger(day) > t THEN Trigger(day) ELSE Trigger(day + 1)

-----------------------------------------------------------------------------
(* The loop of main and _tick.                                             *)

Boot ==
    /\ stage = "down"
    /\ stage' = "top"
    /\ stopping' = FALSE
    /\ UNCHANGED <<vars, tonight, attempt, prices, wake, said, unsure, refusedBy>>

Begins(day) ==
    /\ stage' = "prices"
    /\ tonight' = day
    /\ attempt' = 1

\* The clock says no, or the database that today is scored.
NothingIsOwed ==
    /\ stage = "top"
    /\ ~stopping
    /\ ~IsDue(now) \/ Scored(Today)
    /\ stage' = "schedule"
    /\ unsure' = NoDay
    /\ UNCHANGED <<vars, tonight, attempt, prices, wake, stopping, said, refusedBy>>

NightIsOwed ==
    /\ stage = "top"
    /\ ~stopping
    /\ IsDue(now)
    /\ ~Scored(Today)
    /\ Begins(Today)
    /\ unsure' = NoDay
    /\ UNCHANGED <<vars, prices, wake, stopping, said, refusedBy>>

\* The database cannot be asked.
CannotAsk ==
    /\ stage = "top"
    /\ ~stopping
    /\ IsDue(now)
    /\ faults < MaxFaults
    /\ faults' = faults + 1
    /\ stage' = "schedule"
    /\ unsure' = Today
    /\ UNCHANGED <<now, rows, lock, runnerVars, tonight, attempt, prices, wake,
                   stopping, said, refusedBy>>

\* The clock is read again, and the next trigger is strictly after it.
Schedule ==
    /\ stage = "schedule"
    /\ IF stopping THEN stage' = "down" /\ UNCHANGED wake
       ELSE stage' = "wait" /\ wake' = NextTrigger(now)
    /\ UNCHANGED <<vars, tonight, attempt, prices, stopping, said, unsure, refusedBy>>

Wakes ==
    /\ stage = "wait"
    /\ now >= wake \/ stopping
    /\ stage' = "top"
    /\ wake' = 0
    /\ UNCHANGED <<vars, tonight, attempt, prices, stopping, said, unsure, refusedBy>>

Exits ==
    /\ stage = "top"
    /\ stopping
    /\ stage' = "down"
    /\ UNCHANGED <<vars, tonight, attempt, prices, wake, stopping, said, unsure, refusedBy>>

-----------------------------------------------------------------------------
(* run_tonight and run_night.                                              *)

Ends ==
    /\ stage' = "schedule"
    /\ tonight' = 0 /\ attempt' = 0 /\ prices' = "none" /\ refusedBy' = "nobody"

\* An attempt has failed: another, after a wait, or the night is given up.  A
\* night that is being torn down is not announced.
AttemptFails ==
    /\ IF stopping
       THEN Ends /\ UNCHANGED said
       ELSE IF attempt < Attempts
       THEN /\ stage' = "backoff"
            /\ prices' = "none"
            /\ UNCHANGED <<tonight, attempt, said, refusedBy>>
       ELSE Ends /\ said' = said \cup {tonight}
    /\ UNCHANGED <<wake, stopping, unsure>>

BackoffEnds ==
    /\ stage = "backoff"
    /\ IF stopping THEN Ends
       ELSE /\ stage' = "prices"
            /\ attempt' = attempt + 1
            /\ UNCHANGED <<tonight, prices, refusedBy>>
    /\ UNCHANGED <<vars, wake, stopping, said, unsure>>

\* No security answered, or the fetch raised.
NoPrices ==
    /\ stage = "prices"
    /\ AttemptFails
    /\ UNCHANGED vars

\* Mutant: a night whose prices wholly failed is scored.
PricesOrNot ==
    /\ stage = "prices"
    /\ Call(Scheduler, tonight)
    /\ stage' = "scoring"
    /\ UNCHANGED <<tonight, attempt, prices, wake, stopping, said, unsure, refusedBy>>

\* Some did; fundamentals follow and decide nothing, and the day is scored.
Prices ==
    /\ stage = "prices"
    /\ prices' = "some"
    /\ Call(Scheduler, tonight)
    /\ stage' = "scoring"
    /\ UNCHANGED <<tonight, attempt, wake, stopping, said, unsure, refusedBy>>

Returned(result) ==
    /\ stage = "scoring"
    /\ pc[Scheduler] = "idle"
    /\ told[Scheduler] = result

\* It has been scored, or somebody else is scoring.
NightIsDone ==
    /\ Returned("scored") \/ Returned("in progress")
    /\ Ends
    /\ UNCHANGED <<vars, wake, stopping, said, unsure>>

\* Mutant: a night with nothing to score is over and nobody is told.
NoBarsInSilence ==
    /\ Returned("no bars")
    /\ Ends
    /\ UNCHANGED <<vars, wake, stopping, said, unsure>>

NoBars ==
    /\ Returned("no bars")
    /\ Ends
    /\ said' = said \cup {tonight}
    /\ UNCHANGED <<vars, wake, stopping, unsure>>

\* Whatever else run_scoring raised is a failed attempt.
ScoringFailed ==
    /\ Returned("error") \/ Returned("covered")
    /\ AttemptFails
    /\ UNCHANGED vars

-----------------------------------------------------------------------------
(* Everybody else.                                                         *)

Stop ==
    /\ stage # "down"
    /\ ~stopping
    /\ faults < MaxFaults
    /\ faults' = faults + 1
    /\ stopping' = TRUE
    /\ UNCHANGED <<now, rows, lock, runnerVars, stage, tonight, attempt, prices,
                   wake, said, unsure, refusedBy>>

SchedulerDies ==
    /\ stage # "down"
    /\ Dies(Scheduler)
    /\ stage' = "down"
    /\ tonight' = 0 /\ attempt' = 0 /\ prices' = "none"
    /\ wake' = 0 /\ unsure' = NoDay /\ refusedBy' = "nobody"
    /\ UNCHANGED <<stopping, said>>

\* scoring/cli.py: a date, and not one that is past.
ByHand(p, day) ==
    /\ p # Scheduler
    /\ day >= Today
    /\ Call(p, day)

\* Who holds SCORING_LOCK_ID when it is refused: somebody alive at this very
\* night, somebody at another day's, or the backend of a client that is gone.
Holder ==
    IF lock = Lingering THEN "dead_backend"
    ELSE IF asOf[lock] = tonight THEN "same_night" ELSE "other_night"

\* What is Scoring's.
Underneath ==
    /\ \/ TimePasses \/ Reaped
       \/ \E p \in Runners : RunScoring(p)
       \/ \E p \in Runners \ {Scheduler} :
             Dies(p) \/ \E day \in Days : ByHand(p, day)
    /\ refusedBy' = IF told[Scheduler] # "in progress" /\ told'[Scheduler] = "in progress"
               THEN Holder ELSE refusedBy
    /\ UNCHANGED nightVars

NightNext ==
    \/ Boot \/ NothingIsOwed \/ NightIsOwed \/ CannotAsk \/ Schedule \/ Wakes
    \/ Exits
    \/ NoPrices \/ Prices \/ BackoffEnds
    \/ NightIsDone \/ NoBars \/ ScoringFailed
    \/ Stop \/ SchedulerDies
    \/ Underneath

NightSpec == NightInit /\ [][NightNext]_allVars

-----------------------------------------------------------------------------
(* What must hold.                                                         *)

\* Every variable stays in its range.
NightTypeOK ==
    /\ TypeOK
    /\ stage \in {"down", "top", "schedule", "wait", "prices", "scoring", "backoff"}
    /\ tonight \in Days
    /\ attempt \in 0 .. Attempts
    /\ prices \in {"none", "some"}
    /\ wake \in Nat
    /\ stopping \in BOOLEAN
    /\ said \subseteq Days
    /\ unsure \in Days \cup {NoDay}
    /\ refusedBy \in {"nobody", "dead_backend", "same_night", "other_night"}

InNight == stage \in {"prices", "scoring", "backoff"}

\* run_tonight takes any refusal for a run of its own night: "Another process
\* holds the lock, which means a run is working".  It is not always: the lock may
\* be another day's, or the one its own last attempt left to a dead backend.
\* Nobody is then scoring the night, and nobody is told.
MistakenForARun == refusedBy \in {"dead_backend", "other_night"}

\* A night that is begun and not torn down ends with its day scored, with a word
\* that it was lost, or while somebody alive is scoring that same day, who is
\* told how it ends: but for a lock mistaken for such a run, whatever the
\* attempts before.
NightsEnd ==
    [][(InNight /\ ~InNight' /\ stage' # "down" /\ ~stopping) =>
          \/ Scored(tonight)
          \/ tonight \in said'
          \/ refusedBy = "same_night"
          \/ MistakenForARun]_allVars

\* The scheduler opens a run only for a day whose hour has come and whose prices
\* it has just fetched, after however many restarts and attempts: it scores no
\* market that is still open, and no day from the prices of the day before.
ScoresWhatItFetched ==
    [][\A k \in DOMAIN runs' \ DOMAIN runs :
          mine'[Scheduler] = k =>
             /\ runs'[k].day = tonight
             /\ prices = "some"
             /\ now >= Trigger(tonight)]_allVars

\* A comment of _tick says of a night that could not be asked about that "is_due
\* is still true next pass": the next pass is tonight's as well.
AsksAgainTonight ==
    (stage = "top" /\ ~stopping /\ unsure # NoDay)
        => Today = unsure /\ IsDue(now)

=============================================================================
