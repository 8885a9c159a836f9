------------------------------ MODULE Scoring ------------------------------
(***************************************************************************)
(* The life of a scoring run (scoring/run.py, run_scoring).  Whoever wants *)
(* a day scored takes a session advisory lock, settles the runs that dead  *)
(* processes left, commits a row that says a run is under way, writes the  *)
(* day's scores in one transaction, and settles the row.  The row and the  *)
(* scores are two commits, and the connection, the process or its          *)
(* statements may fail between any two of them.                            *)
(*                                                                         *)
(* What is computed is left out: a run's scores are there or they are not. *)
(***************************************************************************)
EXTENDS Naturals, Sequences

CONSTANTS
    Runners,    \* processes that may score: the scheduler's and the CLI's
    Nobody,     \* the lock is free
    Lingering,  \* the lock is held by a backend whose client is gone
    DayLength,
    Horizon,    \* bound: how long it is watched
    MaxRuns,    \* bound: run rows
    MaxFaults   \* bound: lost connections, signals and dead processes

ASSUME RunnersAssumption == {Nobody, Lingering} \cap Runners = {}
ASSUME LingeringAssumption == Nobody # Lingering
ASSUME ScoringNumbers ==
    /\ DayLength \in Nat \ {0}
    /\ {Horizon, MaxRuns, MaxFaults} \subseteq Nat

VARIABLES
    now,
    runs,     \* scoring_run: the day each scores, and its outcome
    written,  \* the runs whose scores are committed
    lock,     \* who holds SCORING_LOCK_ID
    pc,       \* the statement of run_scoring each runner is at, or "idle"
    asOf,     \* the day it scores
    mine,     \* its run
    conn,     \* its connection: "none", "open", or "gone" and it does not know
    told,     \* what run_scoring returned or raised
    faults

rows == <<runs, written>>
runnerVars == <<pc, asOf, mine, conn, told>>
vars == <<now, rows, lock, runnerVars, faults>>

Today == now \div DayLength
Days == 0 .. Horizon \div DayLength + 1
Outcomes == {"running", "ok", "failed"}
Stages == {"idle", "lock", "reconcile", "open", "score", "failed", "ok", "unlock"}
Results == {"nothing", "scored", "in progress", "covered", "no bars", "error"}

Init ==
    /\ now = 0
    /\ runs = <<>>
    /\ written = {}
    /\ lock = Nobody
    /\ pc = [p \in Runners |-> "idle"]
    /\ asOf = [p \in Runners |-> 0]
    /\ mine = [p \in Runners |-> 0]
    /\ conn = [p \in Runners |-> "none"]
    /\ told = [p \in Runners |-> "nothing"]
    /\ faults = 0

TimePasses ==
    /\ now < Horizon
    /\ now' = now + 1
    /\ UNCHANGED <<rows, lock, runnerVars, faults>>

-----------------------------------------------------------------------------
(* run_scoring, a statement at a time.                                     *)

At(p, stage) == pc[p] = stage /\ conn[p] = "open"
Goto(p, stage) == pc' = [pc EXCEPT ![p] = stage]
Tell(p, result) == told' = [told EXCEPT ![p] = result]
Settle(k, outcome) == runs' = [runs EXCEPT ![k].outcome = outcome]

\* The call is over, and its connection is closed.
Returns(p, result) ==
    /\ Goto(p, "idle")
    /\ Tell(p, result)
    /\ asOf' = [asOf EXCEPT ![p] = 0]
    /\ mine' = [mine EXCEPT ![p] = 0]
    /\ conn' = [conn EXCEPT ![p] = "none"]

Call(p, day) ==
    /\ pc[p] = "idle"
    /\ Goto(p, "lock")
    /\ Tell(p, "nothing")
    /\ asOf' = [asOf EXCEPT ![p] = day]
    /\ conn' = [conn EXCEPT ![p] = "open"]
    /\ UNCHANGED <<now, rows, lock, mine, faults>>

\* Mutant: the lock is asked for and its answer ignored.
TakesLockAnyway(p) ==
    /\ At(p, "lock")
    /\ lock' = p
    /\ Goto(p, "reconcile")
    /\ UNCHANGED <<now, rows, asOf, mine, conn, told, faults>>

TakesLock(p) ==
    /\ At(p, "lock")
    /\ lock = Nobody
    /\ lock' = p
    /\ Goto(p, "reconcile")
    /\ UNCHANGED <<now, rows, asOf, mine, conn, told, faults>>

\* ScoringInProgress.
IsRefused(p) ==
    /\ At(p, "lock")
    /\ lock # Nobody
    /\ Returns(p, "in progress")
    /\ UNCHANGED <<now, rows, lock, faults>>

\* Mutant: what a dead process left is left.
ReconcileNothing(p) ==
    /\ At(p, "reconcile")
    /\ Goto(p, "open")
    /\ UNCHANGED <<now, rows, lock, asOf, mine, conn, told, faults>>

\* The lock makes a run that says it is running nobody's.
Reconcile(p) ==
    /\ At(p, "reconcile")
    /\ runs' = [k \in DOMAIN runs |->
           IF runs[k].outcome = "running"
           THEN [runs[k] EXCEPT !.outcome = "failed"] ELSE runs[k]]
    /\ Goto(p, "open")
    /\ UNCHANGED <<now, written, lock, asOf, mine, conn, told, faults>>

\* Mutant: a failed run goes on holding its date.
CoveredByAny(day) == \E k \in DOMAIN runs : runs[k].day = day

\* scoring_run_one_live_per_date: a run that has not failed holds its date.
Covered(day) ==
    \E k \in DOMAIN runs : runs[k].day = day /\ runs[k].outcome # "failed"

OpenRun(p) ==
    /\ At(p, "open")
    /\ ~Covered(asOf[p])
    /\ Len(runs) < MaxRuns
    /\ runs' = Append(runs, [day |-> asOf[p], outcome |-> "running"])
    /\ mine' = [mine EXCEPT ![p] = Len(runs) + 1]
    /\ Goto(p, "score")
    /\ UNCHANGED <<now, written, lock, asOf, conn, told, faults>>

\* ExclusionViolation, or the reference data is wrong.
OpenFails(p, result) ==
    /\ At(p, "open")
    /\ result = "error" \/ (result = "covered" /\ Covered(asOf[p]))
    /\ Tell(p, result)
    /\ Goto(p, "unlock")
    /\ UNCHANGED <<now, rows, lock, asOf, mine, conn, faults>>

\* score and the commit of its transaction.
Score(p) ==
    /\ At(p, "score")
    /\ written' = written \cup {mine[p]}
    /\ Goto(p, "ok")
    /\ UNCHANGED <<now, runs, lock, asOf, mine, conn, told, faults>>

\* Mutant: what score raised is logged and no more.
ScoreFailsQuietly(p, result) ==
    /\ At(p, "score")
    /\ result \in {"no bars", "error"}
    /\ Goto(p, "ok")
    /\ UNCHANGED <<now, rows, lock, asOf, mine, conn, told, faults>>

\* NoBarsVisible, or anything else it raises: the transaction is rolled back.
ScoreFails(p, result) ==
    /\ At(p, "score")
    /\ result \in {"no bars", "error"}
    /\ Tell(p, result)
    /\ Goto(p, "failed")
    /\ UNCHANGED <<now, rows, lock, asOf, mine, conn, faults>>

CloseFailed(p) ==
    /\ At(p, "failed")
    /\ Settle(mine[p], "failed")
    /\ Goto(p, "unlock")
    /\ UNCHANGED <<now, written, lock, asOf, mine, conn, told, faults>>

CloseOk(p) ==
    /\ At(p, "ok")
    /\ Settle(mine[p], "ok")
    /\ Tell(p, "scored")
    /\ Goto(p, "unlock")
    /\ UNCHANGED <<now, written, lock, asOf, mine, conn, faults>>

Unlock(p) ==
    /\ At(p, "unlock")
    /\ Returns(p, told[p])
    /\ lock' = Nobody
    /\ UNCHANGED <<now, rows, faults>>

-----------------------------------------------------------------------------
(* What can go wrong.                                                      *)

\* The client of a backend is gone; if it holds the lock it goes on holding it
\* until the backend is seen to be of nobody.
Abandoned(p) == IF lock = p THEN Lingering ELSE lock

LoseConnection(p) ==
    /\ conn[p] = "open"
    /\ faults < MaxFaults
    /\ faults' = faults + 1
    /\ conn' = [conn EXCEPT ![p] = "gone"]
    /\ lock' = Abandoned(p)
    /\ UNCHANGED <<now, rows, pc, asOf, mine, told>>

\* Its next statement raises, and so do those that would have cleaned up.
Raises(p) ==
    /\ conn[p] = "gone"
    /\ pc[p] # "idle"
    /\ Returns(p, "error")
    /\ UNCHANGED <<now, rows, lock, faults>>

Reaped ==
    /\ lock = Lingering
    /\ lock' = Nobody
    /\ UNCHANGED <<now, rows, runnerVars, faults>>

Dies(p) ==
    /\ faults < MaxFaults
    /\ faults' = faults + 1
    /\ Returns(p, "nothing")
    /\ lock' = Abandoned(p)
    /\ UNCHANGED <<now, rows>>

-----------------------------------------------------------------------------
RunScoring(p) ==
    \/ TakesLock(p) \/ IsRefused(p) \/ Reconcile(p)
    \/ OpenRun(p) \/ Score(p) \/ CloseFailed(p) \/ CloseOk(p) \/ Unlock(p)
    \/ \E result \in Results : OpenFails(p, result) \/ ScoreFails(p, result)
    \/ LoseConnection(p) \/ Raises(p)

Next ==
    \/ TimePasses \/ Reaped
    \/ \E p \in Runners :
          \/ \E day \in Days : Call(p, day)
          \/ RunScoring(p) \/ Dies(p)

Spec == Init /\ [][Next]_vars

-----------------------------------------------------------------------------
(* What must hold.                                                         *)

\* Every variable stays in its range.
TypeOK ==
    /\ now \in 0 .. Horizon
    /\ runs \in Seq([day : Days, outcome : Outcomes])
    /\ written \subseteq DOMAIN runs
    /\ lock \in Runners \cup {Nobody, Lingering}
    /\ pc \in [Runners -> Stages]
    /\ asOf \in [Runners -> Days]
    /\ mine \in [Runners -> Nat]
    /\ \A p \in Runners : mine[p] \in DOMAIN runs \cup {0}
    /\ conn \in [Runners -> {"none", "open", "gone"}]
    /\ told \in [Runners -> Results]
    /\ faults \in 0 .. MaxFaults

\* Once a runner has reconciled, a run that says it is running is its own:
\* "anything still 'running' belongs to nobody", and no run that is alive is
\* ever declared dead by somebody else.
HolderIsAlone ==
    \A p \in Runners, k \in DOMAIN runs :
        (lock = p /\ pc[p] \notin {"lock", "reconcile"} /\ runs[k].outcome = "running")
            => k = mine[p]

\* A run that says ok has its scores, whichever step of whoever failed: a
\* half-scored day "is worse than no day".
OkIsWritten ==
    \A k \in DOMAIN runs : runs[k].outcome = "ok" => k \in written

\* An outcome is final: a run that was declared dead does not come back to
\* close itself, and one that is done is not undone.
OutcomesAreFinal ==
    [][\A k \in DOMAIN runs : runs[k].outcome # "running" => runs'[k] = runs[k]]_vars

\* A date is refused only for a run that stands: nothing a dead or a failed run
\* left behind wedges it, as 004's constraint did.
NothingIsWedged ==
    [][\A p \in Runners :
          (told[p] # "covered" /\ told'[p] = "covered")
              => \E k \in DOMAIN runs :
                    runs[k].day = asOf[p] /\ runs[k].outcome = "ok"]_vars

=============================================================================
