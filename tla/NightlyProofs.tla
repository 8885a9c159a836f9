--------------------------- MODULE NightlyProofs ---------------------------
(***************************************************************************)
(* Proofs about Scoring for every number of runners, of runs, of days and  *)
(* of faults, and about Nightly, which adds to it, for every length of the *)
(* day, hour and number of attempts.  A night's steps leave a scoring      *)
(* run's alone, so what is proved of Scoring carries over; what is left is *)
(* that the night and the run it asked for agree.  Last, of Figures, what  *)
(* the run places a security at, what it blends of that, which periods a   *)
(* ratio is of and what a series of closes is, for every set of values,    *)
(* groups, metrics, weights, reported items, bars and actions.             *)
(***************************************************************************)
EXTENDS Nightly, Figures, Sums, SequenceTheorems, TLAPS

-----------------------------------------------------------------------------
(* The life of a run (Scoring).                                            *)

Row == [day : Days, outcome : Outcomes]

\* The stages in which the lock is held, and those in which a run is open.
Inside == {"reconcile", "open", "score", "failed", "ok", "unlock"}
WithRun == {"score", "failed", "ok"}

\* The lock is held by whoever is between its two statements, and by its
\* connection.
LockInv ==
    \A p \in Runners :
        /\ lock = p => pc[p] \in Inside /\ conn[p] = "open"
        /\ pc[p] \in Inside /\ conn[p] = "open" => lock = p

\* Whoever holds the lock and has opened a run has one that is running; before
\* it has, it has none.
MineInv ==
    \A p \in Runners :
        /\ pc[p] \in WithRun => mine[p] \in DOMAIN runs
        /\ (lock = p /\ pc[p] \in WithRun) => runs[mine[p]].outcome = "running"
        /\ pc[p] \in {"idle", "lock", "reconcile", "open"} => mine[p] = 0

\* A run is closed ok only once its scores are committed.
WrittenInv == \A p \in Runners : pc[p] = "ok" => mine[p] \in written

IInv == LockInv /\ MineInv /\ WrittenInv /\ HolderIsAlone /\ OkIsWritten

-----------------------------------------------------------------------------
USE DEF vars, rows, runnerVars

LEMMA ZeroIsADay == 0 \in Days
<1>1. Horizon \div DayLength \in Nat
  BY ScoringNumbers
<1> QED
  BY <1>1 DEF Days

\* What rewrites the rows in place is again a sequence of rows, as long.
LEMMA Rewriting ==
  ASSUME NEW S, NEW s \in Seq(S), NEW f \in [DOMAIN s -> S]
  PROVE  f \in Seq(S) /\ Len(f) = Len(s)
<1>1. DOMAIN s = 1 .. Len(s) /\ Len(s) \in Nat
  OBVIOUS
<1>2. f \in [1 .. Len(s) -> S]
  BY <1>1
<1>3. f \in Seq(S)
  BY <1>1, <1>2, SeqDef
<1> QED
  BY <1>1, <1>2, <1>3

LEMMA Elements ==
  ASSUME NEW S, NEW s \in Seq(S), NEW k \in DOMAIN s
  PROVE  s[k] \in S
  OBVIOUS

LEMMA Appending ==
  ASSUME NEW S, NEW s \in Seq(S), NEW e \in S
  PROVE  /\ Append(s, e) \in Seq(S)
         /\ Len(Append(s, e)) = Len(s) + 1
         /\ Len(s) \in Nat
         /\ DOMAIN s = 1 .. Len(s)
         /\ DOMAIN Append(s, e) = 1 .. Len(s) + 1
         /\ \A k \in DOMAIN s : Append(s, e)[k] = s[k]
         /\ Append(s, e)[Len(s) + 1] = e
  OBVIOUS

\* Every variable stays in its range (TypeOK).
LEMMA TypeInit == Init => TypeOK
<1> SUFFICES ASSUME Init PROVE TypeOK
  OBVIOUS
<1>1. runs \in Seq(Row) /\ DOMAIN runs = {}
  BY DEF Init
<1> QED
  BY <1>1, ZeroIsADay, ScoringNumbers
     DEF Init, TypeOK, Stages, Results, Row

LEMMA ReturnTypes ==
  ASSUME TypeOK, NEW p \in Runners, NEW result \in Results,
         Returns(p, result), rows' = rows
  PROVE  /\ pc' \in [Runners -> Stages]
         /\ asOf' \in [Runners -> Days]
         /\ mine' \in [Runners -> Nat]
         /\ \A q \in Runners : mine'[q] \in DOMAIN runs' \cup {0}
         /\ conn' \in [Runners -> {"none", "open", "gone"}]
         /\ told' \in [Runners -> Results]
<1> USE DEF TypeOK, Returns, Goto, Tell
<1>1. pc' \in [Runners -> Stages]
  BY DEF Stages
<1>2. asOf' \in [Runners -> Days]
  BY ZeroIsADay
<1>3. mine' \in [Runners -> Nat]
      /\ \A q \in Runners : mine'[q] \in DOMAIN runs' \cup {0}
  OBVIOUS
<1>4. told' \in [Runners -> Results]
  OBVIOUS
<1> QED
  BY <1>1, <1>2, <1>3, <1>4

LEMMA TypeStep == TypeOK /\ IInv /\ [Next]_vars => TypeOK'
<1> SUFFICES ASSUME TypeOK, MineInv, [Next]_vars PROVE TypeOK'
  BY DEF IInv
<1> USE DEF TypeOK
<1>1. CASE TimePasses
  BY <1>1, ScoringNumbers DEF TimePasses
<1>2. CASE Reaped
  BY <1>2 DEF Reaped
<1>3. ASSUME NEW p \in Runners, NEW day \in Days, Call(p, day) PROVE TypeOK'
  BY <1>3 DEF Call, Goto, Tell, Stages, Results
<1>4. ASSUME NEW p \in Runners, Dies(p) PROVE TypeOK'
  <2>1. Returns(p, "nothing") /\ rows' = rows /\ "nothing" \in Results
    BY <1>4 DEF Dies, Results
  <2>2. lock' \in Runners \cup {Nobody, Lingering} /\ faults' \in 0 .. MaxFaults
    BY <1>4, ScoringNumbers DEF Dies, Abandoned
  <2> QED
    BY <1>4, <2>1, <2>2, ReturnTypes DEF Dies
<1>5. ASSUME NEW p \in Runners, RunScoring(p) PROVE TypeOK'
  <2>1. CASE TakesLock(p)
    BY <2>1 DEF TakesLock, Goto, Stages
  <2>2. CASE IsRefused(p)
    <3>1. Returns(p, "in progress") /\ rows' = rows
          /\ "in progress" \in Results
      BY <2>2 DEF IsRefused, Results
    <3> QED
      BY <2>2, <3>1, ReturnTypes DEF IsRefused
  <2>3. CASE Reconcile(p)
    <3>1. runs \in Seq(Row)
      BY DEF Row
    <3>2. runs' \in [DOMAIN runs -> Row] /\ DOMAIN runs' = DOMAIN runs
      <4>1. \A k \in DOMAIN runs : runs[k] \in Row
        BY <3>1, Elements
      <4> QED
        BY <2>3, <4>1 DEF Reconcile, Row, Outcomes
    <3>3. runs' \in Seq(Row)
      BY <3>1, <3>2, Rewriting
    <3> QED
      BY <2>3, <3>2, <3>3 DEF Reconcile, Goto, Stages, Row
  <2>4. CASE OpenRun(p)
    <3> DEFINE e == [day |-> asOf[p], outcome |-> "running"]
    <3>1. runs \in Seq(Row) /\ e \in Row
      BY DEF Row, Outcomes
    <3>2. runs' = Append(runs, e)
      BY <2>4 DEF OpenRun
    <3>3. runs' \in Seq(Row) /\ DOMAIN runs \subseteq DOMAIN runs'
          /\ Len(runs) + 1 \in DOMAIN runs' /\ Len(runs) + 1 \in Nat
      BY <3>1, <3>2, Appending
    <3> QED
      BY <2>4, <3>3 DEF OpenRun, Goto, Stages, Row
  <2>5. CASE Score(p)
    BY <2>5 DEF Score, At, MineInv, WithRun, Goto, Stages
  <2>6. CASE CloseFailed(p) \/ CloseOk(p)
    <3>1. runs \in Seq(Row) /\ mine[p] \in DOMAIN runs
      BY <2>6 DEF CloseFailed, CloseOk, At, MineInv, WithRun, Row
    <3>2. runs' \in [DOMAIN runs -> Row] /\ DOMAIN runs' = DOMAIN runs
      <4>1. runs[mine[p]] \in Row /\ runs \in [DOMAIN runs -> Row]
        BY <3>1, Elements
      <4>2. \E outcome \in Outcomes : Settle(mine[p], outcome)
        BY <2>6 DEF CloseFailed, CloseOk, Outcomes
      <4> QED
        BY <3>1, <4>1, <4>2 DEF Settle, Row
    <3>3. runs' \in Seq(Row)
      BY <3>1, <3>2, Rewriting
    <3> QED
      BY <2>6, <3>2, <3>3
         DEF CloseFailed, CloseOk, Goto, Tell, Stages, Results, Row
  <2>7. CASE Unlock(p)
    <3>1. Returns(p, told[p]) /\ rows' = rows /\ told[p] \in Results
      BY <2>7 DEF Unlock
    <3> QED
      BY <2>7, <3>1, ReturnTypes DEF Unlock
  <2>8. ASSUME NEW result \in Results,
               OpenFails(p, result) \/ ScoreFails(p, result)
        PROVE  TypeOK'
    BY <2>8 DEF OpenFails, ScoreFails, Goto, Tell, Stages, Results
  <2>9. CASE LoseConnection(p)
    BY <2>9, ScoringNumbers DEF LoseConnection, Abandoned
  <2>10. CASE Raises(p)
    <3>1. Returns(p, "error") /\ rows' = rows /\ "error" \in Results
      BY <2>10 DEF Raises, Results
    <3> QED
      BY <2>10, <3>1, ReturnTypes DEF Raises
  <2> QED
    BY <1>5, <2>1, <2>2, <2>3, <2>4, <2>5, <2>6, <2>7, <2>8, <2>9, <2>10
       DEF RunScoring
<1>6. CASE UNCHANGED vars
  BY <1>6
<1> QED
  BY <1>1, <1>2, <1>3, <1>4, <1>5, <1>6 DEF Next

-----------------------------------------------------------------------------
(* The lock and the rows.                                                  *)

LEMMA InvInit == Init => IInv
<1> SUFFICES ASSUME Init PROVE IInv
  OBVIOUS
<1>1. \A p \in Runners : lock # p /\ pc[p] = "idle" /\ mine[p] = 0
  BY RunnersAssumption DEF Init
<1>2. DOMAIN runs = {}
  BY DEF Init
<1>3. LockInv /\ MineInv /\ WrittenInv /\ HolderIsAlone
  BY <1>1 DEF LockInv, MineInv, WrittenInv, HolderIsAlone, Inside, WithRun
<1>4. OkIsWritten
  BY <1>2 DEF OkIsWritten
<1> QED
  BY <1>3, <1>4 DEF IInv

\* A process that returns or goes, and the lock with it.
LEMMA Leaving ==
  ASSUME TypeOK, IInv, NEW p \in Runners, NEW result, Returns(p, result),
         lock' # p, \A q \in Runners \ {p} : lock' = q <=> lock = q, rows' = rows
  PROVE  IInv'
<1>1. /\ pc'[p] = "idle" /\ conn'[p] = "none" /\ mine'[p] = 0
      /\ \A q \in Runners \ {p} :
            pc'[q] = pc[q] /\ conn'[q] = conn[q] /\ mine'[q] = mine[q]
  BY DEF TypeOK, Returns, Goto
<1>2. LockInv'
  BY <1>1 DEF IInv, LockInv, Inside
<1>3. MineInv'
  BY <1>1 DEF IInv, MineInv, WithRun
<1>4. WrittenInv'
  BY <1>1 DEF IInv, WrittenInv
<1>5. HolderIsAlone'
  BY <1>1 DEF IInv, HolderIsAlone
<1>6. OkIsWritten'
  BY DEF IInv, OkIsWritten
<1> QED
  BY <1>2, <1>3, <1>4, <1>5, <1>6 DEF IInv

\* A step of the one that leaves the rows and the lock as they are.
LEMMA Moving ==
  ASSUME TypeOK, IInv, NEW p \in Runners, NEW from, NEW to,
         pc[p] = from, pc' = [pc EXCEPT ![p] = to],
         <<from, to>> \in {<<"idle", "lock">>, <<"reconcile", "open">>,
             <<"open", "unlock">>, <<"score", "failed">>},
         UNCHANGED <<rows, lock, mine>>,
         \A q \in Runners : q # p => conn'[q] = conn[q],
         conn'[p] = "open",
         from # "idle" => conn[p] = "open",
         from = "reconcile" => \A k \in DOMAIN runs : runs[k].outcome # "running"
  PROVE  IInv'
<1> USE DEF TypeOK
<1>1. pc'[p] = to /\ \A q \in Runners \ {p} : pc'[q] = pc[q]
  OBVIOUS
<1>2. LockInv'
  BY <1>1 DEF IInv, LockInv, Inside
<1>3. MineInv'
  BY <1>1 DEF IInv, MineInv, WithRun
<1>4. WrittenInv'
  BY <1>1 DEF IInv, WrittenInv
<1>5. HolderIsAlone'
  BY <1>1 DEF IInv, HolderIsAlone, LockInv, Inside
<1>6. OkIsWritten'
  BY DEF IInv, OkIsWritten
<1> QED
  BY <1>2, <1>3, <1>4, <1>5, <1>6 DEF IInv

LEMMA InvStep == TypeOK /\ IInv /\ [Next]_vars => IInv'
<1> SUFFICES ASSUME TypeOK, IInv, [Next]_vars PROVE IInv'
  OBVIOUS
<1>1. CASE TimePasses \/ UNCHANGED vars
  BY <1>1 DEF TimePasses, IInv, LockInv, MineInv, WrittenInv, HolderIsAlone,
     OkIsWritten
<1>2. CASE Reaped
  <2>1. \A q \in Runners : lock # q /\ lock' # q
    BY <1>2, RunnersAssumption DEF Reaped
  <2> QED
    BY <1>2, <2>1 DEF Reaped, IInv, LockInv, MineInv, WrittenInv,
       HolderIsAlone, OkIsWritten
<1>3. ASSUME NEW p \in Runners, NEW day \in Days, Call(p, day) PROVE IInv'
  <2>1. conn'[p] = "open" /\ \A q \in Runners : q # p => conn'[q] = conn[q]
    BY <1>3 DEF Call, TypeOK
  <2> QED
    BY <1>3, <2>1, Moving DEF Call, Goto
<1>4. ASSUME NEW p \in Runners, Dies(p) PROVE IInv'
  <2>1. lock' # p /\ \A q \in Runners \ {p} : lock' = q <=> lock = q
    BY <1>4, RunnersAssumption DEF Dies, Abandoned
  <2> QED
    BY <1>4, <2>1, Leaving DEF Dies
<1>5. ASSUME NEW p \in Runners, RunScoring(p) PROVE IInv'
  <2> USE DEF TypeOK, At, Goto
  <2>1. CASE TakesLock(p)
    <3>1. lock = Nobody /\ lock' = p /\ pc'[p] = "reconcile" /\ pc[p] = "lock"
          /\ \A q \in Runners \ {p} : pc'[q] = pc[q] /\ lock # q /\ lock' # q
      BY <2>1, RunnersAssumption DEF TakesLock
    <3>2. rows' = rows /\ mine' = mine /\ conn' = conn /\ conn[p] = "open"
      BY <2>1 DEF TakesLock
    <3>3. LockInv'
      BY <3>1, <3>2 DEF IInv, LockInv, Inside
    <3>4. MineInv' /\ WrittenInv'
      BY <3>1, <3>2 DEF IInv, MineInv, WrittenInv, WithRun
    <3>5. HolderIsAlone' /\ OkIsWritten'
      BY <3>1, <3>2 DEF IInv, HolderIsAlone, OkIsWritten
    <3> QED
      BY <3>3, <3>4, <3>5 DEF IInv
  <2>2. CASE IsRefused(p)
    <3>1. lock # p /\ lock' = lock
      BY <2>2 DEF IsRefused, IInv, LockInv, Inside
    <3> QED
      BY <2>2, <3>1, Leaving DEF IsRefused
  <2>3. CASE Reconcile(p)
    <3>1. lock = p /\ lock' = p
      BY <2>3 DEF Reconcile, IInv, LockInv, Inside
    <3>2. /\ DOMAIN runs' = DOMAIN runs
          /\ \A k \in DOMAIN runs : runs'[k].outcome # "running"
          /\ \A k \in DOMAIN runs : runs'[k].outcome = "ok" => runs[k].outcome = "ok"
      <4>1. \A k \in DOMAIN runs : runs[k] \in Row
        BY Elements DEF Row
      <4> QED
        BY <2>3, <4>1 DEF Reconcile, Row
    <3>3. pc'[p] = "open" /\ pc[p] = "reconcile"
          /\ \A q \in Runners \ {p} : pc'[q] = pc[q] /\ lock # q
      BY <2>3, <3>1 DEF Reconcile
    <3>4. UNCHANGED <<written, mine, conn>>
      BY <2>3 DEF Reconcile
    <3>5. LockInv'
      BY <3>1, <3>3, <3>4 DEF IInv, LockInv, Inside
    <3>6. MineInv' /\ WrittenInv'
      BY <3>1, <3>2, <3>3, <3>4 DEF IInv, MineInv, WrittenInv, WithRun
    <3>7. HolderIsAlone' /\ OkIsWritten'
      BY <3>2, <3>4 DEF IInv, HolderIsAlone, OkIsWritten
    <3> QED
      BY <3>5, <3>6, <3>7 DEF IInv
  <2>4. CASE OpenRun(p)
    <3> DEFINE e == [day |-> asOf[p], outcome |-> "running"]
               n == Len(runs) + 1
    <3>1. lock = p /\ lock' = p
      BY <2>4 DEF OpenRun, IInv, LockInv, Inside
    <3>2. runs' = Append(runs, e) /\ UNCHANGED <<written, conn>>
          /\ pc[p] = "open" /\ pc'[p] = "score" /\ mine'[p] = n
          /\ \A q \in Runners \ {p} : pc'[q] = pc[q] /\ mine'[q] = mine[q] /\ lock # q
      BY <2>4, <3>1 DEF OpenRun
    <3>3. /\ DOMAIN runs' = DOMAIN runs \cup {n}
          /\ \A k \in DOMAIN runs : runs'[k] = runs[k]
          /\ runs'[n].outcome = "running"
      <4>1. runs \in Seq(Row) /\ e \in Row
        BY DEF Row, Outcomes
      <4> QED
        BY <3>2, <4>1, Appending
    <3>4. \A k \in DOMAIN runs : runs[k].outcome # "running"
      <4>1. \A k \in DOMAIN runs : runs[k].outcome = "running" => k = 0
        BY <3>1, <3>2 DEF IInv, HolderIsAlone, MineInv
      <4>2. DOMAIN runs = 1 .. Len(runs) /\ Len(runs) \in Nat
        OBVIOUS
      <4> QED
        BY <4>1, <4>2
    <3>5. LockInv'
      BY <3>1, <3>2 DEF IInv, LockInv, Inside
    <3>6. MineInv'
      BY <3>1, <3>2, <3>3 DEF IInv, MineInv, WithRun
    <3>7. WrittenInv'
      BY <3>2 DEF IInv, WrittenInv
    <3>8. HolderIsAlone'
      BY <3>1, <3>2, <3>3, <3>4 DEF HolderIsAlone
    <3>9. OkIsWritten'
      BY <3>2, <3>3 DEF IInv, OkIsWritten
    <3> QED
      BY <3>5, <3>6, <3>7, <3>8, <3>9 DEF IInv
  <2>5. CASE Score(p)
    <3>1. lock = p /\ lock' = lock
      BY <2>5 DEF Score, IInv, LockInv, Inside
    <3>2. pc[p] = "score" /\ pc'[p] = "ok" /\ UNCHANGED <<runs, mine, conn>>
          /\ written \subseteq written' /\ mine[p] \in written'
          /\ \A q \in Runners \ {p} : pc'[q] = pc[q]
      BY <2>5 DEF Score
    <3>3. LockInv'
      BY <3>1, <3>2 DEF IInv, LockInv, Inside
    <3>4. MineInv' /\ WrittenInv'
      BY <3>1, <3>2 DEF IInv, MineInv, WrittenInv, WithRun
    <3>5. HolderIsAlone' /\ OkIsWritten'
      BY <3>1, <3>2 DEF IInv, HolderIsAlone, OkIsWritten
    <3> QED
      BY <3>3, <3>4, <3>5 DEF IInv
  <2>6. CASE CloseFailed(p) \/ CloseOk(p)
    <3>1. lock = p /\ lock' = lock
      BY <2>6 DEF CloseFailed, CloseOk, IInv, LockInv, Inside
    <3>2. pc[p] \in {"failed", "ok"} /\ pc'[p] = "unlock"
          /\ UNCHANGED <<written, mine, conn>>
          /\ \A q \in Runners \ {p} : pc'[q] = pc[q] /\ lock # q
      BY <2>6, <3>1 DEF CloseFailed, CloseOk
    <3>3. DOMAIN runs' = DOMAIN runs
          /\ \A k \in DOMAIN runs : k # mine[p] => runs'[k] = runs[k]
      BY <2>6 DEF CloseFailed, CloseOk, Settle
    <3>4. runs'[mine[p]].outcome # "running"
          /\ (runs'[mine[p]].outcome = "ok" => mine[p] \in written)
      <4>1. mine[p] \in DOMAIN runs /\ (pc[p] = "ok" => mine[p] \in written)
        BY <3>2 DEF IInv, MineInv, WrittenInv, WithRun
      <4>2. runs[mine[p]] \in Row
        BY <4>1, Elements DEF Row
      <4>3. CASE CloseFailed(p)
        BY <4>1, <4>2, <4>3 DEF CloseFailed, Settle, Row
      <4>4. CASE CloseOk(p)
        BY <4>1, <4>2, <4>4 DEF CloseOk, Settle, Row
      <4> QED
        BY <2>6, <4>3, <4>4
    <3>5. LockInv'
      BY <3>1, <3>2 DEF IInv, LockInv, Inside
    <3>6. MineInv' /\ WrittenInv'
      BY <3>1, <3>2, <3>3 DEF IInv, MineInv, WrittenInv, WithRun
    <3>7. HolderIsAlone'
      BY <3>1, <3>2, <3>3, <3>4 DEF IInv, HolderIsAlone
    <3>8. OkIsWritten'
      BY <3>2, <3>3, <3>4 DEF IInv, OkIsWritten
    <3> QED
      BY <3>5, <3>6, <3>7, <3>8 DEF IInv
  <2>7. CASE Unlock(p)
    <3>1. lock = p
      BY <2>7 DEF Unlock, IInv, LockInv, Inside
    <3>2. lock' # p /\ \A q \in Runners \ {p} : lock' = q <=> lock = q
      BY <2>7, <3>1, RunnersAssumption DEF Unlock
    <3> QED
      BY <2>7, <3>2, Leaving DEF Unlock
  <2>8. ASSUME NEW result \in Results,
               OpenFails(p, result) \/ ScoreFails(p, result)
        PROVE  IInv'
    BY <2>8, Moving DEF OpenFails, ScoreFails
  <2>9. CASE LoseConnection(p)
    <3>1. lock' # p /\ \A q \in Runners \ {p} : lock' = q <=> lock = q
      BY <2>9, RunnersAssumption DEF LoseConnection, Abandoned
    <3>2. UNCHANGED <<rows, mine, pc>> /\ conn'[p] = "gone"
          /\ \A q \in Runners \ {p} : conn'[q] = conn[q]
      BY <2>9 DEF LoseConnection
    <3> QED
      BY ZenonT(30), <3>1, <3>2 DEF IInv, LockInv, MineInv, WrittenInv, HolderIsAlone,
         OkIsWritten
  <2>10. CASE Raises(p)
    <3>1. lock # p /\ lock' = lock
      BY <2>10 DEF Raises, IInv, LockInv
    <3> QED
      BY <2>10, <3>1, Leaving DEF Raises
  <2> QED
    BY <1>5, <2>1, <2>2, <2>3, <2>4, <2>5, <2>6, <2>7, <2>8, <2>9, <2>10
       DEF RunScoring
<1> QED
  BY <1>1, <1>2, <1>3, <1>4, <1>5 DEF Next

-----------------------------------------------------------------------------
(* What follows from it.                                                   *)

LEMMA Invariance == Spec => [](TypeOK /\ IInv)
<1>1. Init => TypeOK /\ IInv
  BY TypeInit, InvInit
<1>2. TypeOK /\ IInv /\ [Next]_vars => (TypeOK /\ IInv)'
  BY TypeStep, InvStep
<1> QED
  BY <1>1, <1>2, PTL DEF Spec

\* Every variable of a scoring run stays in its range, however many processes
\* score and whatever fails.
THEOREM TypeCorrect == Spec => []TypeOK
  BY Invariance, PTL

\* The advisory lock is enough for reconcile: whoever is past it finds no run
\* that is still running but its own (reconcile, run_scoring).
THEOREM ReconcileIsSafe == Spec => []HolderIsAlone
<1>1. IInv => HolderIsAlone
  BY DEF IInv
<1> QED
  BY <1>1, Invariance, PTL

\* A run that says ok has its scores committed (run_scoring, close_run).
THEOREM OkRunsHaveScores == Spec => []OkIsWritten
<1>1. IInv => OkIsWritten
  BY DEF IInv
<1> QED
  BY <1>1, Invariance, PTL

LEMMA FinalStep ==
  ASSUME TypeOK, IInv, [Next]_vars, NEW k \in DOMAIN runs,
         runs[k].outcome # "running"
  PROVE  runs'[k] = runs[k]
<1>1. CASE UNCHANGED runs
  BY <1>1
<1>2. ASSUME NEW p \in Runners, Reconcile(p) PROVE runs'[k] = runs[k]
  BY <1>2 DEF Reconcile
<1>3. ASSUME NEW p \in Runners, OpenRun(p) PROVE runs'[k] = runs[k]
  <2>1. runs \in Seq(Row) /\ [day |-> asOf[p], outcome |-> "running"] \in Row
    BY DEF TypeOK, Row, Outcomes
  <2> QED
    BY <1>3, <2>1, Appending DEF OpenRun
<1>4. ASSUME NEW p \in Runners, CloseFailed(p) \/ CloseOk(p)
      PROVE  runs'[k] = runs[k]
  <2>1. lock = p /\ pc[p] \in WithRun
    BY <1>4 DEF CloseFailed, CloseOk, At, IInv, LockInv, Inside, WithRun
  <2>2. k # mine[p]
    BY <2>1 DEF IInv, MineInv
  <2> QED
    BY <1>4, <2>2 DEF CloseFailed, CloseOk, Settle, TypeOK
<1> QED
  BY <1>1, <1>2, <1>3, <1>4
     DEF Next, TimePasses, Reaped, Call, Dies, RunScoring, TakesLock, IsRefused,
         Score, Unlock, OpenFails, ScoreFails, LoseConnection, Raises

\* No step of anybody changes the row of a run that is settled: a run declared
\* dead by reconcile never comes back to close itself (reconcile, close_run).
THEOREM OutcomesStand == Spec => OutcomesAreFinal
<1>1. TypeOK /\ IInv /\ [Next]_vars
      => [\A k \in DOMAIN runs : runs[k].outcome # "running" => runs'[k] = runs[k]]_vars
  BY FinalStep
<1> QED
  BY <1>1, Invariance, PTL DEF Spec, OutcomesAreFinal

LEMMA RefusalStep ==
  ASSUME TypeOK, IInv, [Next]_vars, NEW p \in Runners,
         told[p] # "covered", told'[p] = "covered"
  PROVE  \E k \in DOMAIN runs : runs[k].day = asOf[p] /\ runs[k].outcome = "ok"
<1>1. OpenFails(p, "covered")
  <2> USE DEF TypeOK
  <2>1. ASSUME NEW q \in Runners, NEW result, Tell(q, result)
        PROVE  \/ told'[p] = told[p]
               \/ q = p /\ told'[p] = result
    BY <2>1 DEF Tell
  <2>2. ASSUME NEW q \in Runners, NEW result, Returns(q, result)
        PROVE  \/ told'[p] = told[p]
               \/ q = p /\ told'[p] = result
    BY <2>1, <2>2 DEF Returns
  <2>3. told' # told
    OBVIOUS
  <2>4. ASSUME NEW q \in Runners, Dies(q) \/ IsRefused(q) \/ Raises(q) \/ Unlock(q)
        PROVE  FALSE
    <3>1. CASE Unlock(q)
      <4>1. Returns(q, told[q])
        BY <3>1 DEF Unlock
      <4> QED
        BY <2>2, <4>1
    <3>2. CASE IsRefused(q)
      <4>1. Returns(q, "in progress")
        BY <3>2 DEF IsRefused
      <4>2. told'[p] = told[p] \/ told'[p] = "in progress"
        BY <2>2, <4>1
      <4> QED
        BY <4>2
    <3>3. CASE Dies(q)
      <4>1. Returns(q, "nothing")
        BY <3>3 DEF Dies
      <4> QED
        BY <2>2, <4>1
    <3>4. CASE Raises(q)
      <4>1. Returns(q, "error")
        BY <3>4 DEF Raises
      <4> QED
        BY <2>2, <4>1
    <3> QED
      BY <2>4, <3>1, <3>2, <3>3, <3>4
  <2>5. ASSUME NEW q \in Runners, NEW day \in Days, Call(q, day) PROVE FALSE
    BY <2>1, <2>5 DEF Call
  <2>6. ASSUME NEW q \in Runners, CloseOk(q) PROVE FALSE
    BY <2>1, <2>6 DEF CloseOk
  <2>7. ASSUME NEW q \in Runners, NEW result \in Results, ScoreFails(q, result)
        PROVE  FALSE
    BY <2>1, <2>7 DEF ScoreFails
  <2>8. ASSUME NEW q \in Runners, NEW result \in Results, OpenFails(q, result)
        PROVE  OpenFails(p, "covered")
    BY <2>1, <2>8 DEF OpenFails
  <2> QED
    BY <2>3, <2>4, <2>5, <2>6, <2>7, <2>8
       DEF Next, TimePasses, Reaped, RunScoring, TakesLock, Reconcile, OpenRun,
           Score, CloseFailed, LoseConnection
<1>2. PICK k \in DOMAIN runs : runs[k].day = asOf[p] /\ runs[k].outcome # "failed"
  BY <1>1 DEF OpenFails, Covered
<1>3. lock = p /\ pc[p] = "open" /\ mine[p] = 0
  BY <1>1 DEF OpenFails, At, IInv, LockInv, Inside, MineInv
<1>4. k # 0
  BY DEF TypeOK
<1>5. runs[k].outcome # "running"
  BY <1>3, <1>4 DEF IInv, HolderIsAlone
<1>6. runs[k] \in Row
  BY Elements DEF TypeOK, Row
<1> QED
  BY <1>2, <1>5, <1>6 DEF Row, Outcomes

\* A date is refused only for a run that stands, whatever died or failed while
\* it held the date (scoring_run_one_live_per_date and reconcile together).
THEOREM DatesAreNotWedged == Spec => NothingIsWedged
<1>1. TypeOK /\ IInv /\ [Next]_vars
      => [\A p \in Runners :
            (told[p] # "covered" /\ told'[p] = "covered")
                => \E k \in DOMAIN runs :
                      runs[k].day = asOf[p] /\ runs[k].outcome = "ok"]_vars
  BY RefusalStep
<1> QED
  BY <1>1, Invariance, PTL DEF Spec, NothingIsWedged

-----------------------------------------------------------------------------
(* The night (Nightly).                                                    *)

LEMMA DayIsPositive == DayLength \in Nat \ {0} /\ Horizon \in Nat /\ MaxFaults \in Nat
  BY ScoringNumbers

LEMMA HourIsATime == Hour \in Nat
  BY NightAssumption, DayIsPositive

LEMMA Dividing ==
  ASSUME NEW t \in Nat
  PROVE  t \div DayLength \in Nat
  BY DayIsPositive, SMTT(30)

LEMMA DividingIsMonotone ==
  ASSUME NEW t \in Nat, NEW u \in Nat, t <= u
  PROVE  t \div DayLength <= u \div DayLength
  BY DayIsPositive, SMTT(30)

\* is_due of a time is that its day's trigger has come (schedule.py).
LEMMA DueIsPastTrigger ==
  ASSUME NEW t \in Nat, IsDue(t)
  PROVE  t >= Trigger(t \div DayLength)
  BY DayIsPositive, HourIsATime, SMTT(30) DEF IsDue, Trigger

LEMMA TriggersAreTimes ==
  ASSUME NEW day \in Nat
  PROVE  Trigger(day) \in Nat
  BY DayIsPositive, HourIsATime, SMTT(30) DEF Trigger

LEMMA NextTriggerIsATime ==
  ASSUME NEW t \in Nat
  PROVE  NextTrigger(t) \in Nat
  BY Dividing, TriggersAreTimes DEF NextTrigger

LEMMA TodayIsADay == TypeOK => Today \in Days
<1> SUFFICES ASSUME TypeOK PROVE Today \in Days
  OBVIOUS
<1>1. now \in Nat /\ now <= Horizon
  BY DayIsPositive DEF TypeOK
<1>2. now \div DayLength \in Nat /\ Horizon \div DayLength \in Nat
      /\ now \div DayLength <= Horizon \div DayLength
  BY <1>1, DayIsPositive, Dividing, DividingIsMonotone
<1> QED
  BY <1>2 DEF Today, Days
-----------------------------------------------------------------------------
(* What a night's steps do to the runs.                                    *)

\* A connection that cannot be made, or a signal: the runs are as they were.
OneFault ==
    /\ faults < MaxFaults
    /\ faults' = faults + 1
    /\ UNCHANGED <<now, rows, lock, runnerVars>>

LEMMA Underlying ==
  ASSUME tonight \in Days, [NightNext]_allVars
  PROVE  [Next]_vars \/ OneFault
<1>1. CASE CannotAsk \/ Stop
  BY <1>1 DEF CannotAsk, Stop, OneFault
<1>2. CASE Prices \/ SchedulerDies
  BY <1>2, SchedulerAssumption DEF Prices, SchedulerDies, Next
<1>3. CASE Underneath
  BY <1>3 DEF Underneath, ByHand, Next
<1>4. CASE UNCHANGED allVars
  BY <1>4 DEF allVars
<1>5. CASE \/ Boot \/ NothingIsOwed \/ NightIsOwed \/ Schedule \/ Wakes \/ Exits
           \/ NoPrices \/ BackoffEnds \/ NightIsDone \/ NoBars \/ ScoringFailed
  BY <1>5 DEF Boot, NothingIsOwed, NightIsOwed, Schedule, Wakes, Exits, NoPrices,
     BackoffEnds, NightIsDone, NoBars, ScoringFailed
<1> QED
  BY <1>1, <1>2, <1>3, <1>4, <1>5 DEF NightNext

LEMMA RunsStep ==
  ASSUME TypeOK, IInv, [Next]_vars \/ OneFault
  PROVE  TypeOK' /\ IInv'
<1>1. CASE [Next]_vars
  BY <1>1, TypeStep, InvStep
<1>2. CASE OneFault
  <2>1. TypeOK'
    BY <1>2, DayIsPositive DEF OneFault, TypeOK
  <2>2. IInv'
    BY <1>2 DEF OneFault, IInv, LockInv, MineInv, WrittenInv, HolderIsAlone,
       OkIsWritten
  <2> QED
    BY <2>1, <2>2
<1> QED
  BY <1>1, <1>2

\* No run's day changes, and no run goes.
LEMMA DaysStay ==
  ASSUME TypeOK, IInv, [Next]_vars \/ OneFault, NEW k \in DOMAIN runs
  PROVE  k \in DOMAIN runs' /\ runs'[k].day = runs[k].day
<1>0. runs \in Seq(Row) /\ runs[k] \in Row
  BY Elements DEF TypeOK, Row
<1>1. CASE UNCHANGED runs
  BY <1>1
<1>2. ASSUME NEW p \in Runners, Reconcile(p)
      PROVE  k \in DOMAIN runs' /\ runs'[k].day = runs[k].day
  BY <1>0, <1>2 DEF Reconcile, Row
<1>3. ASSUME NEW p \in Runners, OpenRun(p)
      PROVE  k \in DOMAIN runs' /\ runs'[k].day = runs[k].day
  <2>1. [day |-> asOf[p], outcome |-> "running"] \in Row
    BY DEF TypeOK, Row, Outcomes
  <2>2. DOMAIN runs' = 1 .. Len(runs) + 1 /\ Len(runs) \in Nat
        /\ DOMAIN runs = 1 .. Len(runs) /\ runs'[k] = runs[k]
    BY <1>0, <1>3, <2>1, Appending DEF OpenRun
  <2> QED
    BY <2>2
<1>4. ASSUME NEW p \in Runners, CloseFailed(p) \/ CloseOk(p)
      PROVE  k \in DOMAIN runs' /\ runs'[k].day = runs[k].day
  <2>1. PICK outcome \in Outcomes : Settle(mine[p], outcome)
    BY <1>4 DEF CloseFailed, CloseOk, Outcomes
  <2> QED
    BY <1>0, <2>1 DEF Settle, Row
<1> QED
  BY <1>1, <1>2, <1>3, <1>4
     DEF OneFault, Next, TimePasses, Reaped, Call, Dies, RunScoring, TakesLock,
         IsRefused, Score, Unlock, OpenFails, ScoreFails, LoseConnection, Raises

\* A day that is scored stays scored.
LEMMA ScoredStays ==
  ASSUME TypeOK, IInv, [Next]_vars \/ OneFault, NEW day, Scored(day)
  PROVE  Scored(day)'
<1>1. PICK k \in DOMAIN runs : runs[k] = [day |-> day, outcome |-> "ok"]
  BY DEF Scored
<1>2. k \in DOMAIN runs'
  BY DaysStay
<1>3. runs'[k] = runs[k]
  BY <1>1, FinalStep DEF OneFault
<1> QED
  BY <1>1, <1>2, <1>3 DEF Scored

-----------------------------------------------------------------------------
(* The night and its run.                                                  *)

\* A runner's run is of the day it was asked to score.
DayInv == \A p \in Runners : pc[p] \in WithRun => runs[mine[p]].day = asOf[p]

\* A night is begun after its hour and scores what it fetched, its own day, and
\* is in its scoring as long as the scheduler is; another attempt is one of the
\* attempts there are.
NightInv ==
    /\ stage \in {"prices", "scoring", "backoff"} => now >= Trigger(tonight)
    /\ pc[Scheduler] # "idle" => stage = "scoring" /\ asOf[Scheduler] = tonight
    /\ stage = "scoring" => prices = "some"
    /\ stage = "backoff" => attempt < Attempts

\* What run_scoring told the night is so.
ToldInv ==
    (stage = "scoring" /\ told[Scheduler] = "scored") => Scored(tonight)

\* Who held the lock is known of a night that was refused it.
HeldInv ==
    (stage = "scoring" /\ told[Scheduler] = "in progress") => refusedBy # "nobody"

AllInv == NightTypeOK /\ IInv /\ DayInv /\ NightInv /\ ToldInv /\ HeldInv

LEMMA NightInitInv == NightInit => AllInv
<1> SUFFICES ASSUME NightInit PROVE AllInv
  OBVIOUS
<1>1. TypeOK /\ IInv /\ Init
  BY TypeInit, InvInit DEF NightInit
<1>2. Attempts \in Nat \ {0}
  BY NightAssumption
<1>3. NightTypeOK
  <2>1. 0 \in 0 .. Attempts
    BY <1>2
  <2> QED
    BY <1>1, <2>1, ZeroIsADay DEF NightInit, NightTypeOK
<1>4. DayInv /\ NightInv /\ ToldInv /\ HeldInv
  BY <1>1, SchedulerAssumption
     DEF NightInit, Init, DayInv, NightInv, ToldInv, HeldInv, WithRun
<1> QED
  BY <1>1, <1>3, <1>4 DEF AllInv

LEMMA DayStep ==
  ASSUME TypeOK, IInv, DayInv, [Next]_vars \/ OneFault
  PROVE  DayInv'
<1> SUFFICES ASSUME NEW q \in Runners, pc'[q] \in WithRun
             PROVE  runs'[mine'[q]].day = asOf'[q]
  BY DEF DayInv
<1>1. CASE OpenRun(q)
  <2>1. runs \in Seq(Row) /\ [day |-> asOf[q], outcome |-> "running"] \in Row
    BY DEF TypeOK, Row, Outcomes
  <2> QED
    BY <1>1, <2>1, Appending DEF OpenRun, TypeOK
<1>2. ASSUME ~OpenRun(q)
      PROVE  pc[q] \in WithRun /\ mine'[q] = mine[q] /\ asOf'[q] = asOf[q]
  <2> USE DEF TypeOK, WithRun, Goto, At
  <2>1. CASE OneFault \/ UNCHANGED vars \/ TimePasses \/ Reaped
    BY <2>1 DEF OneFault, TimePasses, Reaped
  <2>2. ASSUME NEW p \in Runners, NEW day \in Days, Call(p, day)
        PROVE  pc[q] \in WithRun /\ mine'[q] = mine[q] /\ asOf'[q] = asOf[q]
    BY <2>2 DEF Call
  <2>3. ASSUME NEW p \in Runners, NEW result, Returns(p, result)
        PROVE  pc[q] \in WithRun /\ mine'[q] = mine[q] /\ asOf'[q] = asOf[q]
    BY <2>3 DEF Returns
  <2>4. ASSUME NEW p \in Runners,
               Dies(p) \/ IsRefused(p) \/ Unlock(p) \/ Raises(p)
        PROVE  pc[q] \in WithRun /\ mine'[q] = mine[q] /\ asOf'[q] = asOf[q]
    BY <2>3, <2>4 DEF Dies, IsRefused, Unlock, Raises
  <2>5. ASSUME NEW p \in Runners,
               TakesLock(p) \/ Reconcile(p) \/ Score(p) \/ CloseFailed(p)
               \/ CloseOk(p) \/ LoseConnection(p)
        PROVE  pc[q] \in WithRun /\ mine'[q] = mine[q] /\ asOf'[q] = asOf[q]
    BY <2>5 DEF TakesLock, Reconcile, Score, CloseFailed, CloseOk, LoseConnection
  <2>6. ASSUME NEW p \in Runners, NEW result \in Results,
               OpenFails(p, result) \/ ScoreFails(p, result)
        PROVE  pc[q] \in WithRun /\ mine'[q] = mine[q] /\ asOf'[q] = asOf[q]
    BY <2>6 DEF OpenFails, ScoreFails
  <2>7. ASSUME NEW p \in Runners, OpenRun(p)
        PROVE  pc[q] \in WithRun /\ mine'[q] = mine[q] /\ asOf'[q] = asOf[q]
    BY <1>2, <2>7 DEF OpenRun
  <2> QED
    BY <2>1, <2>2, <2>4, <2>5, <2>6, <2>7 DEF Next, RunScoring
<1>3. CASE ~OpenRun(q)
  <2>1. mine[q] \in DOMAIN runs
    BY <1>2, <1>3 DEF IInv, MineInv
  <2> QED
    BY <1>2, <1>3, <2>1, DaysStay DEF DayInv
<1> QED
  BY <1>1, <1>3
LEMMA HeldTypeStep ==
  ASSUME NightTypeOK, [NightNext]_allVars
  PROVE  refusedBy' \in {"nobody", "dead_backend", "same_night", "other_night"}
<1> USE DEF NightTypeOK
<1>1. ASSUME Ends \/ UNCHANGED refusedBy
      PROVE  refusedBy' \in {"nobody", "dead_backend", "same_night", "other_night"}
  BY <1>1 DEF Ends
<1>2. CASE Boot \/ NothingIsOwed \/ CannotAsk \/ Wakes \/ Exits \/ Stop \/ NightIsOwed
           \/ Schedule \/ Prices \/ UNCHANGED allVars
  BY <1>1, <1>2 DEF Boot, NothingIsOwed, CannotAsk, Wakes, Exits, Stop, NightIsOwed,
     Schedule, Prices, allVars
<1>3. CASE NoPrices \/ ScoringFailed \/ BackoffEnds \/ NightIsDone \/ NoBars
  BY <1>1, <1>3 DEF NoPrices, ScoringFailed, AttemptFails, BackoffEnds, NightIsDone,
     NoBars
<1>4. CASE SchedulerDies
  BY <1>4 DEF SchedulerDies
<1>5. CASE Underneath
  BY <1>5 DEF Underneath, Holder
<1> QED
  BY <1>2, <1>3, <1>4, <1>5 DEF NightNext

LEMMA NightTypeStep ==
  ASSUME NightTypeOK, TypeOK', NightInv, [NightNext]_allVars
  PROVE  NightTypeOK'
<1>1. Today \in Days /\ 0 \in Days /\ now \in Nat
      /\ Attempts \in Nat \ {0} /\ attempt \in Nat
  BY TodayIsADay, ZeroIsADay, NightAssumption, DayIsPositive DEF NightTypeOK, TypeOK
<1> DEFINE Goes ==
      /\ stage' \in {"down", "top", "schedule", "wait", "prices", "scoring", "backoff"}
      /\ tonight' \in Days
      /\ attempt' \in 0 .. Attempts
      /\ prices' \in {"none", "some"}
      /\ wake' \in Nat
      /\ stopping' \in BOOLEAN
      /\ said' \subseteq Days
      /\ unsure' \in Days \cup {NoDay}
<1>2. SUFFICES Goes
  BY HeldTypeStep DEF NightTypeOK
<1> USE <1>1 DEF NightTypeOK
<1>3. CASE Boot \/ NothingIsOwed \/ CannotAsk \/ Wakes \/ Exits \/ Stop
  <2>1. CASE Boot \/ Exits
    BY <2>1 DEF Boot, Exits
  <2>2. CASE NothingIsOwed
    BY <2>2 DEF NothingIsOwed
  <2>3. CASE CannotAsk
    BY <2>3 DEF CannotAsk
  <2>4. CASE Wakes
    <3>1. UNCHANGED <<tonight, attempt, prices, stopping, said, unsure>>
          /\ stage' = "top" /\ wake' = 0
      BY <2>4 DEF Wakes
    <3> QED
      BY <3>1
  <2>5. CASE Stop
    <3>1. UNCHANGED <<stage, tonight, attempt, prices, wake, said, unsure>>
          /\ stopping' = TRUE
      BY <2>5 DEF Stop
    <3> QED
      BY <3>1
  <2> QED
    BY <1>3, <2>1, <2>2, <2>3, <2>4, <2>5
<1>4. CASE NightIsOwed
  BY <1>4 DEF NightIsOwed, Begins
<1>5. CASE Schedule
  <2>1. NextTrigger(now) \in Nat
    BY NextTriggerIsATime
  <2> QED
    BY <1>5, <2>1 DEF Schedule
<1>6. ASSUME AttemptFails PROVE Goes
  BY <1>6 DEF AttemptFails, Ends
<1>7. CASE NoPrices \/ ScoringFailed
  BY <1>6, <1>7 DEF NoPrices, ScoringFailed
<1>8. CASE BackoffEnds
  BY <1>8 DEF BackoffEnds, Ends, NightInv
<1>9. CASE Prices \/ NightIsDone \/ NoBars
  <2>1. CASE Prices
    BY <2>1 DEF Prices
  <2>2. CASE NightIsDone
    <3>1. UNCHANGED <<wake, stopping, said, unsure>> /\ Ends
      BY <2>2 DEF NightIsDone
    <3> QED
      BY <3>1 DEF Ends
  <2>3. CASE NoBars
    <3>1. UNCHANGED <<wake, stopping, unsure>> /\ Ends /\ said' = said \cup {tonight}
      BY <2>3 DEF NoBars
    <3> QED
      BY <3>1 DEF Ends
  <2> QED
    BY <1>9, <2>1, <2>2, <2>3
<1>10. CASE SchedulerDies
  BY <1>10 DEF SchedulerDies
<1>11. CASE Underneath \/ UNCHANGED allVars
  BY <1>11 DEF Underneath, allVars, nightVars
<1> QED
  BY <1>3, <1>4, <1>5, <1>7, <1>8, <1>9, <1>10, <1>11 DEF NightNext

\* What everybody else's step may do to the scheduler's run.
LEMMA UnderneathStep ==
  ASSUME TypeOK, Underneath
  PROVE  /\ now' >= now
         /\ pc'[Scheduler] # "idle" =>
               pc[Scheduler] # "idle" /\ asOf'[Scheduler] = asOf[Scheduler]
         /\ told'[Scheduler] = "scored" =>
               told[Scheduler] = "scored" \/ CloseOk(Scheduler)
<1> USE SchedulerAssumption DEF TypeOK, Goto, Tell, At
<1> DEFINE Unmoved == /\ now' >= now
                      /\ pc'[Scheduler] # "idle" =>
                            pc[Scheduler] # "idle" /\ asOf'[Scheduler] = asOf[Scheduler]
                      /\ told'[Scheduler] = "scored" =>
                            told[Scheduler] = "scored" \/ CloseOk(Scheduler)
<1>0. now \in Nat
  BY DayIsPositive
<1>1. CASE TimePasses \/ Reaped
  BY <1>0, <1>1 DEF TimePasses, Reaped
<1>2. ASSUME NEW p \in Runners, NEW result, now' = now, Returns(p, result),
             result = "scored" => told[p] = "scored"
      PROVE  Unmoved
  BY <1>0, <1>2 DEF Returns
<1>3. ASSUME NEW p \in Runners, Dies(p) PROVE Unmoved
  BY <1>2, <1>3 DEF Dies
<1>4. ASSUME NEW p \in Runners, IsRefused(p) PROVE Unmoved
  <2>1. Returns(p, "in progress") /\ now' = now
    BY <1>4 DEF IsRefused
  <2>2. "in progress" # "scored"
    OBVIOUS
  <2> QED
    BY <1>2, <2>1, <2>2
<1>5. ASSUME NEW p \in Runners, Raises(p) PROVE Unmoved
  BY <1>2, <1>5 DEF Raises
<1>6. ASSUME NEW p \in Runners, Unlock(p) PROVE Unmoved
  BY <1>2, <1>6 DEF Unlock
<1>7. ASSUME NEW p \in Runners,
             TakesLock(p) \/ Reconcile(p) \/ OpenRun(p) \/ Score(p) \/ CloseFailed(p)
             \/ LoseConnection(p)
      PROVE  Unmoved
  BY <1>0, <1>7
     DEF TakesLock, Reconcile, OpenRun, Score, CloseFailed, LoseConnection
<1>8. ASSUME NEW p \in Runners, CloseOk(p) PROVE Unmoved
  <2>1. CASE p = Scheduler
    <3>1. pc'[Scheduler] # "idle" => pc[Scheduler] # "idle"
      BY <1>8, <2>1 DEF CloseOk
    <3>2. asOf' = asOf /\ now' = now /\ CloseOk(Scheduler)
      BY <1>8, <2>1 DEF CloseOk
    <3> QED
      BY <1>0, <3>1, <3>2
  <2>2. CASE p # Scheduler
    <3>1. pc'[Scheduler] = pc[Scheduler] /\ told'[Scheduler] = told[Scheduler]
          /\ asOf' = asOf /\ now' = now
      BY <1>8, <2>2 DEF CloseOk
    <3> QED
      BY <1>0, <3>1
  <2> QED
    BY <2>1, <2>2
<1>9. ASSUME NEW p \in Runners, NEW result \in Results,
             OpenFails(p, result) \/ ScoreFails(p, result)
      PROVE  Unmoved
  <2>1. told' = [told EXCEPT ![p] = result] /\ pc[p] # "idle"
        /\ (\E to : pc' = [pc EXCEPT ![p] = to]) /\ asOf' = asOf /\ now' = now
    BY <1>9 DEF OpenFails, ScoreFails
  <2>2. result # "scored"
    BY <1>9 DEF OpenFails, ScoreFails
  <2> QED
    BY <1>0, <2>1, <2>2
<1>10. ASSUME NEW p \in Runners \ {Scheduler}, NEW day \in Days, ByHand(p, day)
       PROVE  Unmoved
  BY <1>0, <1>10 DEF ByHand, Call
<1> QED
  BY <1>1, <1>3, <1>4, <1>5, <1>6, <1>7, <1>8, <1>9, <1>10 DEF Underneath, RunScoring

LEMMA NightInvStep ==
  ASSUME AllInv, [NightNext]_allVars
  PROVE  NightInv'
<1> USE SchedulerAssumption DEF AllInv, NightTypeOK, TypeOK
<1>0. now \in Nat /\ attempt \in Nat /\ Attempts \in Nat
  BY DayIsPositive, NightAssumption
<1>1. CASE Boot \/ NothingIsOwed \/ CannotAsk \/ Schedule \/ Wakes \/ Exits \/ Stop
  BY <1>1 DEF Boot, NothingIsOwed, CannotAsk, Schedule, Wakes, Exits, Stop, NightInv,
     Trigger
<1>2. CASE NightIsOwed
  <2>1. now >= Trigger(Today)
    BY <1>0, <1>2, DueIsPastTrigger DEF NightIsOwed, Today
  <2> QED
    BY <1>2, <2>1 DEF NightIsOwed, Begins, NightInv, Trigger, Today
<1>3. CASE NoPrices \/ ScoringFailed
  BY <1>3
     DEF NoPrices, ScoringFailed, Returned, AttemptFails, Ends, NightInv, Trigger
<1>4. CASE BackoffEnds
  BY <1>4 DEF BackoffEnds, Ends, NightInv, Trigger
<1>5. CASE Prices
  BY <1>5 DEF Prices, Call, NightInv, Trigger
<1>6. CASE NightIsDone \/ NoBars
  BY <1>6 DEF NightIsDone, NoBars, Returned, Ends, NightInv, Trigger
<1>7. CASE SchedulerDies
  BY <1>7 DEF SchedulerDies, Dies, Returns, Goto, NightInv
<1>8. CASE Underneath
  <2>1. UNCHANGED nightVars
    BY <1>8 DEF Underneath
  <2>2. Trigger(tonight) \in Nat /\ now' \in Nat
    <3>1. tonight \in Nat
      BY DEF Days
    <3>2. now' = now \/ now' = now + 1
      BY <1>8 DEF Underneath, TimePasses, Reaped, RunScoring, TakesLock, IsRefused,
         Reconcile, OpenRun, OpenFails, Score, ScoreFails, CloseFailed, CloseOk,
         Unlock, LoseConnection, Raises, Dies, ByHand, Call
    <3>3. now' \in Nat
      BY <1>0, <3>2
    <3>4. Trigger(tonight) \in Nat
      BY <3>1, TriggersAreTimes
    <3> QED
      BY <3>3, <3>4
  <2> QED
    BY <1>0, <1>8, <2>1, <2>2, UnderneathStep DEF NightInv, nightVars, Trigger
<1>9. CASE UNCHANGED allVars
  BY <1>9 DEF allVars, nightVars, NightInv, Trigger
<1> QED
  BY <1>1, <1>2, <1>3, <1>4, <1>5, <1>6, <1>7, <1>8, <1>9 DEF NightNext
LEMMA ToldInvStep ==
  ASSUME AllInv, [NightNext]_allVars
  PROVE  ToldInv'
<1> USE SchedulerAssumption DEF AllInv
<1>0. TypeOK /\ tonight \in Days
  BY DEF NightTypeOK
<1>1. [Next]_vars \/ OneFault
  BY <1>0, Underlying
<1>2. ASSUME stage = "scoring", tonight' = tonight, told[Scheduler] = "scored"
      PROVE  ToldInv'
  <2>1. PICK day : day = tonight
    OBVIOUS
  <2>2. Scored(day)
    BY <1>2, <2>1 DEF ToldInv
  <2>3. Scored(day)'
    BY <1>0, <1>1, <2>2, ScoredStays
  <2> QED
    BY <1>2, <2>1, <2>3 DEF ToldInv, Scored
<1>3. ASSUME stage = "scoring", CloseOk(Scheduler), tonight' = tonight
      PROVE  ToldInv'
  <2>1. pc[Scheduler] = "ok" /\ asOf[Scheduler] = tonight
    BY <1>3 DEF CloseOk, At, NightInv
  <2> DEFINE k == mine[Scheduler]
  <2>2. k \in DOMAIN runs /\ runs[k].day = tonight
    BY <2>1 DEF IInv, MineInv, DayInv, WithRun
  <2>3. runs[k] \in Row
    BY <1>0, <2>2, Elements DEF TypeOK, Row
  <2>4. runs' = [runs EXCEPT ![k].outcome = "ok"]
    BY <1>3 DEF CloseOk, Settle
  <2>5. k \in DOMAIN runs' /\ runs'[k] = [day |-> tonight, outcome |-> "ok"]
    BY <2>2, <2>3, <2>4 DEF Row
  <2> QED
    BY <1>3, <2>5 DEF ToldInv, Scored
<1>4. CASE Underneath
  <2>1. UNCHANGED nightVars
    BY <1>4 DEF Underneath
  <2>2. told'[Scheduler] = "scored" =>
           told[Scheduler] = "scored" \/ CloseOk(Scheduler)
    BY <1>0, <1>4, UnderneathStep
  <2>3. CASE ~(stage = "scoring" /\ told'[Scheduler] = "scored")
    BY <2>1, <2>3 DEF ToldInv, nightVars
  <2> QED
    BY <1>2, <1>3, <2>1, <2>2, <2>3 DEF nightVars
<1>5. CASE Stop \/ UNCHANGED allVars
  BY <1>5 DEF Stop, allVars, nightVars, ToldInv, Scored
<1>6. CASE Prices
  BY <1>0, <1>6 DEF Prices, Call, Tell, ToldInv, TypeOK
<1>7. ASSUME stage' # "scoring" PROVE ToldInv'
  BY <1>7 DEF ToldInv
<1>8. CASE \/ Boot \/ NothingIsOwed \/ NightIsOwed \/ CannotAsk \/ Schedule \/ Wakes
           \/ Exits \/ NoPrices \/ BackoffEnds \/ NightIsDone \/ NoBars
           \/ ScoringFailed \/ SchedulerDies
  <2>1. stage' # "scoring"
    BY <1>8 DEF Boot, NothingIsOwed, NightIsOwed, Begins, CannotAsk, Schedule, Wakes,
       Exits, NoPrices, BackoffEnds, NightIsDone, NoBars, ScoringFailed,
       SchedulerDies, AttemptFails, Ends
  <2> QED
    BY <1>7, <2>1
<1> QED
  BY <1>4, <1>5, <1>6, <1>8 DEF NightNext

LEMMA HeldInvStep ==
  ASSUME AllInv, [NightNext]_allVars
  PROVE  HeldInv'
<1> USE SchedulerAssumption DEF AllInv
<1>0. TypeOK
  BY DEF NightTypeOK
<1>1. CASE Underneath
  <2>1. UNCHANGED <<stage>>
        /\ refusedBy' = IF told[Scheduler] # "in progress" /\ told'[Scheduler] = "in progress"
                   THEN Holder ELSE refusedBy
    BY <1>1 DEF Underneath, nightVars
  <2>2. Holder # "nobody"
    BY DEF Holder
  <2> QED
    BY <2>1, <2>2 DEF HeldInv
<1>2. CASE Stop \/ UNCHANGED allVars
  BY <1>2 DEF Stop, allVars, vars, runnerVars, nightVars, HeldInv
<1>3. CASE Prices
  BY <1>0, <1>3 DEF Prices, Call, Tell, HeldInv, TypeOK
<1>4. ASSUME stage' # "scoring" PROVE HeldInv'
  BY <1>4 DEF HeldInv
<1>5. CASE \/ Boot \/ NothingIsOwed \/ NightIsOwed \/ CannotAsk \/ Schedule \/ Wakes
           \/ Exits \/ NoPrices \/ BackoffEnds \/ NightIsDone \/ NoBars
           \/ ScoringFailed \/ SchedulerDies
  <2>1. stage' # "scoring"
    BY <1>5 DEF Boot, NothingIsOwed, NightIsOwed, Begins, CannotAsk, Schedule, Wakes,
       Exits, NoPrices, BackoffEnds, NightIsDone, NoBars, ScoringFailed,
       SchedulerDies, AttemptFails, Ends
  <2> QED
    BY <1>4, <2>1
<1> QED
  BY <1>1, <1>2, <1>3, <1>5 DEF NightNext

-----------------------------------------------------------------------------
(* What follows from it.                                                   *)

LEMMA NightInvariance == NightSpec => []AllInv
<1>1. NightInit => AllInv
  BY NightInitInv
<1>2. AllInv /\ [NightNext]_allVars => AllInv'
  <2> SUFFICES ASSUME AllInv, [NightNext]_allVars PROVE AllInv'
    OBVIOUS
  <2>1. TypeOK /\ IInv /\ DayInv /\ NightTypeOK /\ NightInv /\ tonight \in Days
    BY DEF AllInv, NightTypeOK
  <2>2. [Next]_vars \/ OneFault
    BY <2>1, Underlying
  <2>3. TypeOK' /\ IInv'
    BY <2>1, <2>2, RunsStep
  <2>4. DayInv'
    BY <2>1, <2>2, DayStep
  <2>5. NightTypeOK'
    BY <2>1, <2>3, NightTypeStep
  <2> QED
    BY <2>3, <2>4, <2>5, NightInvStep, ToldInvStep, HeldInvStep DEF AllInv
<1> QED
  BY <1>1, <1>2, PTL DEF NightSpec

\* Every variable of the scheduler and of its runs stays in its range.
THEOREM NightTypesCorrect == NightSpec => []NightTypeOK
<1>1. AllInv => NightTypeOK
  BY DEF AllInv
<1> QED
  BY <1>1, NightInvariance, PTL

\* What Scoring promises of the runs it still promises with a scheduler, and
\* whoever scores by hand, on top of it (run_scoring, called by run_night).
THEOREM NightKeepsRuns ==
  NightSpec => [](HolderIsAlone /\ OkIsWritten) /\ OutcomesAreFinal
<1>1. AllInv => HolderIsAlone /\ OkIsWritten
  BY DEF AllInv, IInv
<1>2. AllInv /\ [NightNext]_allVars
      => [\A k \in DOMAIN runs : runs[k].outcome # "running" => runs'[k] = runs[k]]_vars
  <2> SUFFICES ASSUME AllInv, [NightNext]_allVars, NEW k \in DOMAIN runs,
                      runs[k].outcome # "running"
               PROVE  runs'[k] = runs[k]
    OBVIOUS
  <2>1. TypeOK /\ IInv /\ tonight \in Days
    BY DEF AllInv, NightTypeOK
  <2>2. CASE [Next]_vars
    BY <2>1, <2>2, FinalStep
  <2>3. CASE OneFault
    BY <2>3 DEF OneFault
  <2> QED
    BY <2>1, <2>2, <2>3, Underlying
<1> QED
  BY <1>1, <1>2, NightInvariance, PTL DEF NightSpec, OutcomesAreFinal

LEMMA EndStep ==
  ASSUME AllInv, [NightNext]_allVars, InNight, ~InNight', stage' # "down", ~stopping
  PROVE  \/ Scored(tonight)
         \/ tonight \in said'
         \/ refusedBy = "same_night"
         \/ MistakenForARun
<1> USE DEF InNight
<1>1. CASE NightIsDone
  BY <1>1 DEF NightIsDone, Returned, AllInv, ToldInv, HeldInv, NightTypeOK,
     MistakenForARun
<1>2. CASE NoBars
  BY <1>2 DEF NoBars
<1>3. CASE NoPrices \/ ScoringFailed
  BY <1>3 DEF NoPrices, ScoringFailed, AttemptFails
<1>4. CASE BackoffEnds
  BY <1>4 DEF BackoffEnds
<1> QED
  BY <1>1, <1>2, <1>3, <1>4
     DEF NightNext, Boot, NothingIsOwed, NightIsOwed, CannotAsk, Schedule, Wakes, Exits,
         Prices, Stop, SchedulerDies, Underneath, allVars, nightVars

\* A night that is begun and not torn down ends scored, announced as lost, or
\* while somebody alive scores that day, whichever attempt it ends on, unless it
\* mistook another lock for such a run (run_tonight).
THEOREM NightsAreAccountedFor == NightSpec => NightsEnd
<1>1. AllInv /\ [NightNext]_allVars
      => [(InNight /\ ~InNight' /\ stage' # "down" /\ ~stopping) =>
             \/ Scored(tonight)
             \/ tonight \in said'
             \/ refusedBy = "same_night"
             \/ MistakenForARun]_allVars
  BY EndStep
<1> QED
  BY <1>1, NightInvariance, PTL DEF NightSpec, NightsEnd

LEMMA OpeningStep ==
  ASSUME AllInv, [NightNext]_allVars, NEW k \in DOMAIN runs' \ DOMAIN runs,
         mine'[Scheduler] = k
  PROVE  runs'[k].day = tonight /\ prices = "some" /\ now >= Trigger(tonight)
<1> USE SchedulerAssumption
<1>0. TypeOK /\ IInv /\ NightInv /\ tonight \in Days
  BY DEF AllInv, NightTypeOK
<1>1. [Next]_vars \/ OneFault
  BY <1>0, Underlying
<1>2. PICK p \in Runners : OpenRun(p)
  BY <1>1
     DEF OneFault, Next, TimePasses, Reaped, Call, Dies, RunScoring, TakesLock,
         IsRefused, Reconcile, Score, CloseFailed, CloseOk, Settle, Unlock, OpenFails,
         ScoreFails, LoseConnection, Raises
<1>3. runs \in Seq(Row) /\ [day |-> asOf[p], outcome |-> "running"] \in Row
  BY <1>0 DEF TypeOK, Row, Outcomes
<1>4. DOMAIN runs = 1 .. Len(runs) /\ Len(runs) \in Nat
      /\ DOMAIN runs' = 1 .. Len(runs) + 1
      /\ runs'[Len(runs) + 1] = [day |-> asOf[p], outcome |-> "running"]
  BY <1>2, <1>3, Appending DEF OpenRun
<1>5. k = Len(runs) + 1 /\ k # 0
  BY <1>4
<1>6. p = Scheduler
  <2>1. mine[Scheduler] \in DOMAIN runs \cup {0}
    BY <1>0 DEF TypeOK
  <2>2. p # Scheduler => mine'[Scheduler] = mine[Scheduler]
    BY <1>0, <1>2 DEF OpenRun, TypeOK
  <2> QED
    BY <1>5, <2>1, <2>2
<1>7. pc[Scheduler] # "idle"
  BY <1>2, <1>6 DEF OpenRun, At
<1>8. stage = "scoring" /\ asOf[Scheduler] = tonight /\ prices = "some"
      /\ now >= Trigger(tonight)
  BY <1>0, <1>7 DEF NightInv
<1> QED
  BY <1>4, <1>5, <1>6, <1>8

\* The scheduler scores no day before its hour and none it has not just fetched,
\* after however many restarts and attempts (_tick, run_night).
THEOREM NightsScoreWhatTheyFetched == NightSpec => ScoresWhatItFetched
<1>1. AllInv /\ [NightNext]_allVars
      => [\A k \in DOMAIN runs' \ DOMAIN runs :
             mine'[Scheduler] = k =>
                /\ runs'[k].day = tonight
                /\ prices = "some"
                /\ now >= Trigger(tonight)]_allVars
  BY OpeningStep
<1> QED
  BY <1>1, NightInvariance, PTL DEF NightSpec, ScoresWhatItFetched

-----------------------------------------------------------------------------
(* The arithmetic of a run (Figures): a value among its peers.             *)

\* Of some, so many are below, so many as high and so many above.
LEMMA TwoParts ==
    ASSUME NEW S, NEW T, IsFiniteSet(S), IsFiniteSet(T), S \cap T = {}
    PROVE  /\ IsFiniteSet(S \cup T)
           /\ Cardinality(S) \in Nat /\ Cardinality(T) \in Nat
           /\ Cardinality(S \cup T) = Cardinality(S) + Cardinality(T)
<1>1. Cardinality(S) \in Nat /\ Cardinality(T) \in Nat
    BY FS_CardinalityType
<1>2. Cardinality(S \cap T) = 0
    BY FS_EmptySet
<1>3. IsFiniteSet(S \cup T) /\ Cardinality(S \cup T) = Cardinality(S) + Cardinality(T) - Cardinality(S \cap T)
    BY FS_Union
<1> QED  BY <1>1, <1>2, <1>3

LEMMA ThreeParts ==
    ASSUME NEW f, NEW S, IsFiniteSet(S), \A s \in S : f[s] \in Int, NEW v \in Int
    PROVE  /\ Cardinality(S) \in Nat
           /\ Cardinality({o \in S : f[o] < v}) \in Nat
           /\ Cardinality({o \in S : f[o] = v}) \in Nat
           /\ Cardinality({o \in S : f[o] > v}) \in Nat
           /\ Cardinality(S) = Cardinality({o \in S : f[o] < v}) + Cardinality({o \in S : f[o] = v})
                               + Cardinality({o \in S : f[o] > v})
<1> DEFINE B == {o \in S : f[o] < v}
           E == {o \in S : f[o] = v}
           A == {o \in S : f[o] > v}
<1>1. IsFiniteSet(B) /\ IsFiniteSet(E) /\ IsFiniteSet(A)
    BY FS_Subset
<1>2. B \cap E = {} /\ (B \cup E) \cap A = {} /\ S = (B \cup E) \cup A
    <2>1. \A o \in S : (f[o] < v \/ f[o] = v \/ f[o] > v)
        OBVIOUS
    <2>2. \A o \in S : ~(f[o] < v /\ f[o] = v) /\ ~(f[o] < v /\ f[o] > v) /\ ~(f[o] = v /\ f[o] > v)
        OBVIOUS
    <2> QED  BY <2>1, <2>2
<1> HIDE DEF B, E, A
<1>3. IsFiniteSet(B \cup E) /\ Cardinality(B \cup E) = Cardinality(B) + Cardinality(E)
    BY <1>1, <1>2, TwoParts
<1>4. Cardinality(S) = Cardinality(B \cup E) + Cardinality(A)
    BY <1>1, <1>2, <1>3, TwoParts
<1>5. Cardinality(B) \in Nat /\ Cardinality(E) \in Nat /\ Cardinality(A) \in Nat /\ Cardinality(S) \in Nat
    BY <1>1, FS_CardinalityType
<1> QED  BY <1>3, <1>4, <1>5 DEF B, E, A

\* A percentile is the wins and half the ties against the others.
LEMMA PercentileIs ==
    ASSUME NEW values, NEW s \in DOMAIN values, NEW higher \in BOOLEAN,
           IsFiniteSet(DOMAIN values), \A o \in DOMAIN values : values[o] \in Int,
           NEW won, NEW tied,
           won = Cardinality({o \in DOMAIN values : IF higher THEN values[o] < values[s]
                                                    ELSE values[o] > values[s]}),
           tied = Cardinality({o \in DOMAIN values \ {s} : values[o] = values[s]}),
           Cardinality(DOMAIN values) > 1
    PROVE  Same(Percentile(values, s, higher),
                <<(2 * won + tied) * 50, Cardinality(DOMAIN values) - 1>>)
<1> DEFINE P == DOMAIN values
           Below == {o \in P : values[o] < values[s]}
           Equal == {o \in P : values[o] = values[s]}
           Above == {o \in P : values[o] > values[s]}
<1>1. PICK n, below, equal, above :
         n = Cardinality(P) /\ below = Cardinality(Below) /\ equal = Cardinality(Equal)
         /\ above = Cardinality(Above)
    OBVIOUS
<1>2. n \in Nat /\ below \in Nat /\ equal \in Nat /\ above \in Nat /\ n = below + equal + above
    BY <1>1, ThreeParts
<1>3. tied = equal - 1
    <2>1. {o \in P \ {s} : values[o] = values[s]} = Equal \ {s} /\ s \in Equal
        OBVIOUS
    <2>2. IsFiniteSet(Equal)
        BY FS_Subset
    <2> HIDE DEF Equal
    <2>3. Cardinality(Equal \ {s}) = equal - 1
        BY <1>1, <2>1, <2>2, Smaller
    <2> QED  BY <2>1, <2>3
<1>4. n > 1
    BY <1>1
<1>5. CASE higher
    <2>1. won = below
        BY <1>1, <1>5
    <2>2. Percentile(values, s, higher) = <<(2 * below + equal - 1) * 50, n - 1>>
        BY <1>1, <1>2, <1>4, <1>5 DEF Percentile
    <2>3. (2 * below + equal - 1) * 50 = (2 * won + tied) * 50
        BY <1>2, <1>3, <2>1
    <2> QED  BY <1>1, <2>2, <2>3 DEF Same
<1>6. CASE ~higher
    <2>1. won = above
        BY <1>1, <1>6
    <2>2. Percentile(values, s, higher)
          = Plus(Whole(100), <<-((2 * below + equal - 1) * 50), n - 1>>)
        BY <1>1, <1>2, <1>4, <1>6 DEF Percentile
    <2>3. Percentile(values, s, higher)
          = <<100 * (n - 1) + (-((2 * below + equal - 1) * 50)) * 1, 1 * (n - 1)>>
        BY <2>2 DEF Plus, Whole
    <2>4. 1 * (n - 1) = n - 1
          /\ 100 * (n - 1) + (-((2 * below + equal - 1) * 50)) * 1 = (2 * won + tied) * 50
        BY <1>2, <1>3, <2>1
    <2> QED  BY <1>1, <2>3, <2>4 DEF Same
<1> QED  BY <1>5, <1>6

\* What RankedAgainstItsPeers says of one that is placed.
PlacedTruly(values, group, higher, s, p) ==
    LET peers == IF p.group = "market" THEN DOMAIN values
                 ELSE {o \in DOMAIN values : group[o] = p.group}
        won == Cardinality({o \in peers : IF higher THEN values[o] < values[s]
                                          ELSE values[o] > values[s]})
        tied == Cardinality({o \in peers \ {s} : values[o] = values[s]})
    IN  /\ p.peers = Cardinality(peers)
        /\ p.group # "market" => p.peers >= MinPeers
        /\ p.peers > 1 => Same(p.percentile, <<(2 * won + tied) * 50, p.peers - 1>>)

LEMMA PlacedIs ==
    ASSUME NEW values, NEW group, NEW higher \in BOOLEAN, NEW s \in DOMAIN values,
           IsFiniteSet(DOMAIN values), \A o \in DOMAIN values : values[o] \in Int
    PROVE  PlacedTruly(values, group, higher, s, Placed(values, group, higher)[s])
<1> DEFINE own == Ranks(values, group, group[s])
           among == IF own THEN Bucket(values, group, group[s]) ELSE values
           p == Placed(values, group, higher)[s]
           peers == IF p.group = "market" THEN DOMAIN values
                    ELSE {o \in DOMAIN values : group[o] = p.group}
           won == Cardinality({o \in peers : IF higher THEN values[o] < values[s]
                                             ELSE values[o] > values[s]})
           tied == Cardinality({o \in peers \ {s} : values[o] = values[s]})
<1>1. /\ p.group = (IF own THEN group[s] ELSE "market")
      /\ p.peers = Cardinality(DOMAIN among)
      /\ p.percentile = Percentile(among, s, higher)
    BY DEF Placed, Everyone
<1>2. own => group[s] # "market" /\ Cardinality(DOMAIN Bucket(values, group, group[s])) >= MinPeers
    BY DEF Ranks
<1>3. Bucket(values, group, group[s])
      = [o \in {o \in DOMAIN values : group[o] = group[s]} |-> values[o]]
    BY DEF Bucket, Restrict
<1>4. DOMAIN among = peers /\ \A o \in peers : among[o] = values[o]
    <2>1. CASE own
        <3>1. peers = {o \in DOMAIN values : group[o] = group[s]}
            BY <1>1, <1>2, <2>1
        <3>2. among = Bucket(values, group, group[s])
            BY <2>1
        <3> HIDE DEF peers, among
        <3> QED  BY <1>3, <3>1, <3>2
    <2>2. CASE ~own
        BY <1>1, <2>2
    <2> QED  BY <2>1, <2>2
<1>5. peers \subseteq DOMAIN values /\ s \in peers
    BY <1>1, <1>2
<1> HIDE DEF p, peers, among, own
<1>6. IsFiniteSet(peers)
    BY <1>5, FS_Subset
<1>7. p.group # "market" => p.peers >= MinPeers
    BY <1>1, <1>2 DEF among
<1>8. ASSUME p.peers > 1
      PROVE  Same(p.percentile, <<(2 * won + tied) * 50, p.peers - 1>>)
    <2>1. won = Cardinality({o \in DOMAIN among : IF higher THEN among[o] < among[s]
                                                  ELSE among[o] > among[s]})
        <3>1. {o \in peers : IF higher THEN values[o] < values[s] ELSE values[o] > values[s]}
              = {o \in DOMAIN among : IF higher THEN among[o] < among[s] ELSE among[o] > among[s]}
            BY <1>4, <1>5
        <3> QED  BY <3>1
    <2>2. tied = Cardinality({o \in DOMAIN among \ {s} : among[o] = among[s]})
        <3>1. {o \in peers \ {s} : values[o] = values[s]}
              = {o \in DOMAIN among \ {s} : among[o] = among[s]}
            BY <1>4, <1>5
        <3> QED  BY <3>1
    <2>3. /\ s \in DOMAIN among /\ IsFiniteSet(DOMAIN among)
          /\ \A o \in DOMAIN among : among[o] \in Int
          /\ Cardinality(DOMAIN among) > 1
        BY <1>1, <1>4, <1>5, <1>6, <1>8
    <2> HIDE DEF won, tied
    <2>4. Same(Percentile(among, s, higher), <<(2 * won + tied) * 50, Cardinality(DOMAIN among) - 1>>)
        BY <2>1, <2>2, <2>3, PercentileIs
    <2> QED  BY <1>1, <2>4
<1>9. p.peers = Cardinality(peers)
    BY <1>1, <1>4
<1> QED  BY <1>7, <1>8, <1>9 DEF p, peers, PlacedTruly

RankInv ==
    /\ sum \in SeriesSums \cup PeriodSums \cup RankSums \cup BlendSums
    /\ RankedAgainstItsPeers

\* A value is placed among those its page says, and above as many of them as its
\* percentile says, whatever the values and the groups.  (rank, percentiles)
LEMMA RankedTruly == FiguresSpec => []RankedAgainstItsPeers
<1>1. FiguresInit => RankInv
    BY DEF FiguresInit, RankInv, RankedAgainstItsPeers, Worked
<1>2. RankInv /\ [FiguresNext]_figuresVars => RankInv'
    <2> SUFFICES ASSUME RankInv, [FiguresNext]_figuresVars PROVE RankInv'
        OBVIOUS
    <2>1. CASE WorkRank
        <3>1. sum.of = "rank" /\ sum' = sum /\ sum \in RankSums
            BY <2>1, FiguresAssumption DEF WorkRank, Work, RankInv
        <3>2. worked'.placed = Placed(sum.values, sum.group, sum.higher)
            BY <2>1 DEF WorkRank, Work
        <3>3. /\ IsFiniteSet(DOMAIN sum.values) /\ sum.higher \in BOOLEAN
              /\ \A o \in DOMAIN sum.values : sum.values[o] \in Int
            BY <3>1, FiguresAssumption
        <3>4. RankedAgainstItsPeers'
            <4>1. \A s \in DOMAIN sum.values :
                     PlacedTruly(sum.values, sum.group, sum.higher, s, worked'.placed[s])
                BY <3>2, <3>3, PlacedIs
            <4> QED  BY <3>1, <4>1, ZenonT(30) DEF RankedAgainstItsPeers, PlacedTruly
        <3> QED  BY <3>1, <3>4 DEF RankInv
    <2>2. CASE WorkSeries \/ WorkPeriods \/ WorkBlend
        <3>1. sum.of # "rank" /\ sum' = sum
            BY <2>2 DEF WorkSeries, WorkPeriods, WorkBlend, Work
        <3> QED  BY <3>1 DEF RankInv, RankedAgainstItsPeers, Worked
    <2>3. CASE UNCHANGED figuresVars
        BY SMTT(30), <2>3 DEF figuresVars, RankInv, RankedAgainstItsPeers, Worked
    <2> QED  BY <2>1, <2>2, <2>3 DEF FiguresNext
<1>3. RankInv => RankedAgainstItsPeers
    BY DEF RankInv
<1> QED  BY <1>1, <1>2, <1>3, PTL DEF FiguresSpec

-----------------------------------------------------------------------------
(* Sums of fractions.                                                      *)

\* The function that a total over S is read off.
IsTotal(g, f, S) ==
    g = [s \in SUBSET S |-> IF s = {} THEN Whole(0) ELSE Plus(f[AnyOf(s)], g[s \ {AnyOf(s)}])]

LEMMA TotalIs == \A f : Total(f) = (CHOOSE g : IsTotal(g, f, DOMAIN f))[DOMAIN f]
BY Zenon DEF Total, FoldFunction, FoldFunctionOnSet, MapThenFoldSet, IsTotal, AnyOf

\* Up to a size.
IsTotalUpTo(g, f, S, n) ==
    g = [s \in SUBSET S |->
            IF Cardinality(s) > n THEN Whole(0)
            ELSE IF s = {} THEN Whole(0) ELSE Plus(f[AnyOf(s)], g[s \ {AnyOf(s)}])]

LEMMA TotalExists ==
    ASSUME NEW f, NEW S, IsFiniteSet(S)
    PROVE  \E g : IsTotal(g, f, S)
<1>0. \A s \in SUBSET S : IsFiniteSet(s) /\ Cardinality(s) \in Nat /\ Cardinality(s) <= Cardinality(S)
    BY FS_Subset, FS_CardinalityType
<1> DEFINE Bad == {n \in Nat : ~\E g : IsTotalUpTo(g, f, S, n)}
<1>1. SUFFICES ASSUME Bad # {} PROVE FALSE
    <2>1. Cardinality(S) \in Nat
        BY FS_CardinalityType
    <2>2. PICK g : IsTotalUpTo(g, f, S, Cardinality(S))
        BY <2>1, <1>1
    <2>3. \A s \in SUBSET S : ~(Cardinality(s) > Cardinality(S))
        BY <1>0, <2>1
    <2>4. IsTotal(g, f, S)
        BY <2>2, <2>3, Zenon DEF IsTotal, IsTotalUpTo
    <2>5. QED BY <2>4
<1>2. PICK n \in Bad : \A o \in Bad : n <= o
    BY <1>1, LeastOf
<1>3. CASE n = 0
    <2> DEFINE g == [s \in SUBSET S |-> Whole(0)]
    <2>1. \A s \in SUBSET S : Cardinality(s) > 0 \/ s = {}
        BY <1>0, FS_EmptySet
    <2>2. IsTotalUpTo(g, f, S, 0)
        BY <2>1 DEF IsTotalUpTo
    <2>3. QED BY <1>2, <1>3, <2>2
<1>4. CASE n > 0
    <2>1. n - 1 \in Nat /\ n - 1 \notin Bad
        BY <1>2, <1>4
    <2>2. PICK g : IsTotalUpTo(g, f, S, n - 1)
        BY <2>1
    <2> DEFINE h == [s \in SUBSET S |->
                        IF Cardinality(s) <= n - 1 THEN g[s]
                        ELSE IF Cardinality(s) = n THEN Plus(f[AnyOf(s)], g[s \ {AnyOf(s)}]) ELSE Whole(0)]
    <2>3. \A s \in SUBSET S :
              h[s] = IF Cardinality(s) <= n - 1 THEN g[s]
                     ELSE IF Cardinality(s) = n THEN Plus(f[AnyOf(s)], g[s \ {AnyOf(s)}]) ELSE Whole(0)
        OBVIOUS
    <2>4. h = [s \in SUBSET S |-> h[s]]
        OBVIOUS
    <2>5. \A s \in SUBSET S :
              g[s] = IF Cardinality(s) > n - 1 THEN Whole(0)
                     ELSE IF s = {} THEN Whole(0) ELSE Plus(f[AnyOf(s)], g[s \ {AnyOf(s)}])
        BY <2>2 DEF IsTotalUpTo
    <2> HIDE DEF h
    <2>6. ASSUME NEW s \in SUBSET S
          PROVE  h[s] = IF Cardinality(s) > n THEN Whole(0)
                        ELSE IF s = {} THEN Whole(0) ELSE Plus(f[AnyOf(s)], h[s \ {AnyOf(s)}])
        <3>1. n \in Nat /\ IsFiniteSet(s)
            BY <1>0
        <3>2. PICK k \in Nat : k = Cardinality(s)
            BY <1>0
        <3>3. h[s] = IF k <= n - 1 THEN g[s] ELSE IF k = n THEN Plus(f[AnyOf(s)], g[s \ {AnyOf(s)}]) ELSE Whole(0)
            BY <2>3, <3>2, Zenon
        <3>4. g[s] = IF k > n - 1 THEN Whole(0) ELSE IF s = {} THEN Whole(0) ELSE Plus(f[AnyOf(s)], g[s \ {AnyOf(s)}])
            BY <2>5, <3>2, Zenon
        <3>5. CASE s = {}
            <4>1. k = 0
                BY <3>2, <3>5, FS_EmptySet
            <4>2. QED BY <1>4, <3>1, <3>2, <3>3, <3>4, <3>5, <4>1
        <3>6. CASE s # {} /\ k <= n
            <4>1. PICK x \in s : x = AnyOf(s)
                BY <3>6, AnyOfIs
            <4>2. s \ {x} \in SUBSET S /\ Cardinality(s \ {x}) = k - 1
                BY <3>1, <3>2, Smaller
            <4>3. PICK t \in SUBSET S : t = s \ {x} /\ Cardinality(t) = k - 1
                BY <4>2
            <4>4. k - 1 <= n - 1
                BY <3>1, <3>6
            <4>5. h[t] = g[t]
                BY <2>3, <4>3, <4>4, Zenon
            <4>6. h[s] = Plus(f[x], g[t])
                <5>1. k <= n - 1 => ~(k > n - 1)
                    BY <3>1
                <5>2. k <= n - 1 \/ k = n
                    BY <3>1, <3>6
                <5>3. k = n => ~(k <= n - 1)
                    BY <3>1
                <5>4. QED BY <3>3, <3>4, <3>6, <4>1, <4>3, <5>1, <5>2, <5>3, Zenon
            <4>7. ~(k > n)
                BY <3>1, <3>6
            <4>8. QED BY <3>2, <3>6, <4>1, <4>3, <4>5, <4>6, <4>7, Zenon
        <3>7. CASE k > n
            BY <3>1, <3>2, <3>3, <3>7
        <3>8. QED BY <3>1, <3>5, <3>6, <3>7
    <2>7. IsTotalUpTo(h, f, S, n)
        BY <2>4, <2>6, Zenon DEF IsTotalUpTo
    <2>8. QED BY <1>2, <2>7
<1>5. QED BY <1>2, <1>3, <1>4

LEMMA TotalReadOff ==
    ASSUME NEW f, IsFiniteSet(DOMAIN f)
    PROVE  \E g : IsTotal(g, f, DOMAIN f) /\ Total(f) = g[DOMAIN f]
<1>1. \E g : IsTotal(g, f, DOMAIN f)
    BY TotalExists
<1>2. IsTotal(CHOOSE g : IsTotal(g, f, DOMAIN f), f, DOMAIN f)
    BY <1>1, Zenon
<1>3. QED BY <1>2, TotalIs, Zenon

Fractions == Int \X (Nat \ {0})

\* By how much a fraction is above w times h, in parts of no matter.
Lean(x, w, h) == x[1] * h[2] - w * h[1] * x[2]

LEMMA PlusIs ==
    ASSUME NEW x \in Fractions, NEW t \in Fractions
    PROVE  Plus(x, t) \in Fractions
<1>1. PICK a \in Int, b \in Nat \ {0} : x = <<a, b>>
    BY DEF Fractions
<1>2. PICK c \in Int, d \in Nat \ {0} : t = <<c, d>>
    BY DEF Fractions
<1>3. Plus(x, t) = <<a * d + c * b, b * d>>
    BY <1>1, <1>2 DEF Plus
<1>4. a * d + c * b \in Int /\ b * d \in Nat \ {0}
    OBVIOUS
<1> QED  BY <1>3, <1>4 DEF Fractions

\* Leanings add up.
LEMMA LeanAdds ==
    ASSUME NEW x \in Fractions, NEW t \in Fractions, NEW h \in Fractions,
           NEW w \in Nat, NEW v \in Nat
    PROVE  Lean(Plus(x, t), w + v, h) = Lean(x, w, h) * t[2] + Lean(t, v, h) * x[2]
<1>1. PICK a \in Int, b \in Int : x = <<a, b>>
    BY DEF Fractions
<1>2. PICK c \in Int, d \in Int : t = <<c, d>>
    BY DEF Fractions
<1>3. PICK e \in Int, f \in Int : h = <<e, f>>
    BY DEF Fractions
<1>4. Lean(Plus(x, t), w + v, h) = (a * d + c * b) * f - (w + v) * e * (b * d)
    BY <1>1, <1>2, <1>3 DEF Lean, Plus
<1>5. Lean(x, w, h) * t[2] + Lean(t, v, h) * x[2]
      = (a * f - w * e * b) * d + (c * f - v * e * d) * b
    BY <1>1, <1>2, <1>3 DEF Lean
<1>6. (a * d + c * b) * f - (w + v) * e * (b * d)
      = (a * f - w * e * b) * d + (c * f - v * e * d) * b
    OBVIOUS
<1> QED  BY <1>4, <1>5, <1>6

LEMMA LeanIs ==
    ASSUME NEW x \in Fractions, NEW h \in Fractions, NEW w \in Nat
    PROVE  Lean(x, w, h) \in Int
BY DEF Lean, Fractions

\* A total leans the way that all of it leans.
TotalLeansToo(f, w, h) ==
    /\ Total(f) \in Fractions
    /\ SumOf(w, DOMAIN f) \in Nat
    /\ DOMAIN f # {} /\ (\A x \in DOMAIN f : Lean(f[x], w[x], h) > 0) =>
           Lean(Total(f), SumOf(w, DOMAIN f), h) > 0
    /\ DOMAIN f # {} /\ (\A x \in DOMAIN f : Lean(f[x], w[x], h) < 0) =>
           Lean(Total(f), SumOf(w, DOMAIN f), h) < 0

LEMMA TotalLeans ==
    ASSUME NEW f, IsFiniteSet(DOMAIN f), NEW w, NEW h \in Fractions,
           \A x \in DOMAIN f : f[x] \in Fractions /\ w[x] \in Nat
    PROVE  TotalLeansToo(f, w, h)
<1> DEFINE S == DOMAIN f
           Up == \A x \in S : Lean(f[x], w[x], h) > 0
           Down == \A x \in S : Lean(f[x], w[x], h) < 0
<1>1. PICK g : IsTotal(g, f, S) /\ Total(f) = g[S]
    BY TotalReadOff
<1> DEFINE Of(s) == Lean(g[s], SumOf(w, s), h)
           Ok(s) == /\ g[s] \in Fractions
                    /\ Up => Of(s) >= 0 /\ (s # {} => Of(s) > 0)
                    /\ Down => Of(s) <= 0 /\ (s # {} => Of(s) < 0)
           Bad == {n \in Nat : \E s \in SUBSET S : Cardinality(s) = n /\ ~Ok(s)}
<1>2. \A s \in SUBSET S : IsFiniteSet(s) /\ Cardinality(s) \in Nat
    BY FS_Subset, FS_CardinalityType
<1>3. \A s \in SUBSET S : SumOf(w, s) \in Nat
    <2> SUFFICES ASSUME NEW s \in SUBSET S PROVE SumOf(w, s) \in Nat
        OBVIOUS
    <2> QED  BY <1>2, SumOver
<1>4. \A s \in SUBSET S : g[s] = IF s = {} THEN Whole(0) ELSE Plus(f[AnyOf(s)], g[s \ {AnyOf(s)}])
    BY <1>1 DEF IsTotal
<1>5. Ok({})
    <2>1. g[{}] = <<0, 1>> /\ <<0, 1>> \in Fractions
        <3>1. {} \in SUBSET S
            OBVIOUS
        <3>2. g[{}] = Whole(0)
            BY <1>4, <3>1, Zenon
        <3> QED  BY <3>2 DEF Whole, Fractions
    <2>2. SumOf(w, {}) = 0
        BY FS_EmptySet, SumOver
    <2>3. Of({}) = 0
        <3>1. h[1] \in Int /\ h[2] \in Int
            BY DEF Fractions
        <3> QED  BY <2>1, <2>2, <3>1 DEF Lean
    <2> QED  BY <2>1, <2>3
<1>6. ASSUME NEW s \in SUBSET S, s # {}, \A t \in SUBSET S : Cardinality(t) < Cardinality(s) => Ok(t)
      PROVE  Ok(s)
    <2>1. PICK x \in s : x = AnyOf(s)
        BY <1>6, AnyOfIs
    <2>2. PICK r \in SUBSET S : r = s \ {x}
        OBVIOUS
    <2>3. Ok(r)
        <3>1. Cardinality(r) = Cardinality(s) - 1 /\ Cardinality(s) \in Nat
            BY <1>2, <2>1, <2>2, Smaller
        <3> HIDE DEF Ok
        <3> QED  BY <1>6, <3>1
    <2>4. g[s] = Plus(f[x], g[r])
        BY <1>4, <1>6, <2>1, <2>2, Zenon
    <2>5. f[x] \in Fractions /\ g[r] \in Fractions /\ w[x] \in Nat
        BY <2>1, <2>3
    <2>6. g[s] \in Fractions
        BY <2>4, <2>5, PlusIs
    <2>7. SumOf(w, s) = w[x] + SumOf(w, r)
        <3>1. \A y \in s : w[y] \in Nat
            OBVIOUS
        <3> QED  BY <1>2, <2>1, <2>2, <3>1, SumOver
    <2>8. SumOf(w, r) \in Nat
        BY <1>3
    <2>9. PICK a, b, c, d : /\ a = Lean(f[x], w[x], h) /\ b = g[r][2]
                            /\ c = Of(r) /\ d = f[x][2]
        OBVIOUS
    <2>10. a \in Int /\ b \in Nat \ {0} /\ c \in Int /\ d \in Nat \ {0}
        <3>1. b \in Nat \ {0} /\ d \in Nat \ {0}
            BY <2>5, <2>9 DEF Fractions
        <3>2. a \in Int /\ c \in Int
            BY <2>5, <2>8, <2>9, LeanIs
        <3> QED  BY <3>1, <3>2
    <2>11. Of(s) = a * b + c * d
        <3>1. PICK more : more = SumOf(w, r)
            OBVIOUS
        <3>2. Lean(Plus(f[x], g[r]), w[x] + more, h)
              = Lean(f[x], w[x], h) * g[r][2] + Lean(g[r], more, h) * f[x][2]
            BY ZenonT(30), <2>5, <2>8, <3>1, LeanAdds
        <3> QED  BY <2>4, <2>7, <2>9, <3>1, <3>2
    <2>12. ASSUME Up PROVE Of(s) > 0
        <3>1. a > 0 /\ c >= 0
            BY <2>1, <2>3, <2>9, <2>12
        <3>2. a * b > 0 /\ c * d >= 0
            BY ONLY <2>10, <3>1
        <3>3. a * b \in Int /\ c * d \in Int
            BY ONLY <2>10
        <3> HIDE DEF Of
        <3> QED  BY <2>11, <3>2, <3>3
    <2>13. ASSUME Down PROVE Of(s) < 0
        <3>1. a < 0 /\ c <= 0
            BY <2>1, <2>3, <2>9, <2>13
        <3>2. a * b < 0 /\ c * d <= 0
            BY ONLY <2>10, <3>1
        <3>3. a * b \in Int /\ c * d \in Int
            BY ONLY <2>10
        <3> HIDE DEF Of
        <3> QED  BY <2>11, <3>2, <3>3
    <2>14. Of(s) \in Int
        <3>1. a * b \in Int /\ c * d \in Int
            BY ONLY <2>10
        <3> HIDE DEF Of
        <3> QED  BY <2>11, <3>1
    <2> HIDE DEF Of, Up, Down
    <2> QED  BY <2>6, <2>12, <2>13, <2>14
<1>7. Ok(S)
    <2> HIDE DEF Ok
    <2> SUFFICES ASSUME Bad # {} PROVE FALSE
        BY <1>2
    <2>1. PICK n \in Bad : \A o \in Bad : n <= o
        <3>1. Bad \subseteq Nat
            OBVIOUS
        <3> HIDE DEF Bad
        <3> QED  BY <3>1, LeastOf
    <2>2. PICK s \in SUBSET S : Cardinality(s) = n /\ ~Ok(s)
        OBVIOUS
    <2>3. ASSUME NEW t \in SUBSET S, Cardinality(t) < n PROVE Ok(t)
        <3>1. Cardinality(t) \in Nat /\ n \in Nat /\ ~(n <= Cardinality(t))
            BY <1>2, <2>3
        <3>2. Cardinality(t) \notin Bad
            <4> HIDE DEF Bad
            <4> QED  BY <2>1, <3>1
        <3> QED  BY <3>1, <3>2
    <2>4. s # {}
        BY <1>5, <2>2
    <2> QED  BY <1>6, <2>2, <2>3, <2>4
<1>8. SumOf(w, S) \in Nat
    BY <1>3
<1> QED  BY <1>1, <1>7, <1>8 DEF TotalLeansToo

LEMMA OnesAddUp ==
    ASSUME NEW S, IsFiniteSet(S), NEW w, \A x \in S : w[x] = 1
    PROVE  SumOf(w, S) = Cardinality(S)
<1> DEFINE Bad == {n \in Nat : \E s \in SUBSET S : Cardinality(s) = n /\ SumOf(w, s) # n}
<1>1. \A s \in SUBSET S : IsFiniteSet(s) /\ Cardinality(s) \in Nat
    BY FS_Subset, FS_CardinalityType
<1> SUFFICES ASSUME Bad # {} PROVE FALSE
    BY <1>1
<1>2. PICK n \in Bad : \A o \in Bad : n <= o
    <2>1. Bad \subseteq Nat
        OBVIOUS
    <2> HIDE DEF Bad
    <2> QED  BY <2>1, LeastOf
<1>3. PICK s \in SUBSET S : Cardinality(s) = n /\ SumOf(w, s) # n
    OBVIOUS
<1>4. \A x \in s : w[x] \in Nat /\ w[x] = 1
    OBVIOUS
<1>5. /\ SumOf(w, s) \in Nat
      /\ s = {} => SumOf(w, s) = 0
      /\ \A y \in s : SumOf(w, s) = w[y] + SumOf(w, s \ {y})
    BY <1>1, <1>4, SumOver
<1>6. CASE s = {}
    <2>1. n = 0
        BY <1>3, <1>6, FS_EmptySet
    <2>2. SumOf(w, s) = 0
        BY <1>5, <1>6
    <2> QED  BY <1>3, <2>1, <2>2
<1>7. CASE s # {}
    <2>1. PICK x \in s : TRUE
        BY <1>7
    <2>2. PICK r \in SUBSET S : r = s \ {x}
        OBVIOUS
    <2>3. Cardinality(r) = n - 1 /\ n - 1 \in Nat /\ n \in Nat
        BY <1>1, <1>3, <2>1, <2>2, Smaller
    <2>4. SumOf(w, r) = n - 1
        <3>1. n - 1 \notin Bad
            <4> HIDE DEF Bad
            <4> QED  BY <1>2, <2>3
        <3> QED  BY <2>3, <3>1
    <2> QED  BY <1>3, <1>4, <1>5, <2>1, <2>2, <2>3, <2>4
<1> QED  BY <1>6, <1>7

-----------------------------------------------------------------------------
(* A pillar and what is blended of pillars.                                *)

\* A pillar's score leans the way that all of its metrics lean.
ScoreLeansToo(f, score, h) ==
    /\ score \in Fractions
    /\ (\A m \in DOMAIN f : Lean(f[m], 1, h) > 0) => Lean(score, 1, h) > 0
    /\ (\A m \in DOMAIN f : Lean(f[m], 1, h) < 0) => Lean(score, 1, h) < 0

LEMMA ScoreLeans ==
    ASSUME NEW f, IsFiniteSet(DOMAIN f), DOMAIN f # {}, NEW expected, NEW h \in Fractions,
           \A m \in DOMAIN f : f[m] \in Fractions
    PROVE  ScoreLeansToo(f, ScorePillar(f, expected).score, h)
<1>1. PICK w : w = [m \in DOMAIN f |-> 1]
    OBVIOUS
<1>2. PICK n, t : n = Cardinality(DOMAIN f) /\ t = Total(f)
    OBVIOUS
<1>3. n \in Nat \ {0}
    BY <1>2, FS_CardinalityType, FS_EmptySet
<1>4. SumOf(w, DOMAIN f) = n
    BY <1>1, <1>2, OnesAddUp
<1>5. /\ t \in Fractions
      /\ (\A m \in DOMAIN f : Lean(f[m], 1, h) > 0) => Lean(t, n, h) > 0
      /\ (\A m \in DOMAIN f : Lean(f[m], 1, h) < 0) => Lean(t, n, h) < 0
    <2>1. \A m \in DOMAIN f : f[m] \in Fractions /\ w[m] \in Nat /\ w[m] = 1
        BY <1>1
    <2>2. TotalLeansToo(f, w, h)
        BY <2>1, TotalLeans
    <2> QED  BY <1>2, <1>4, <2>1, <2>2 DEF TotalLeansToo
<1>6. PICK a \in Int, b \in Nat \ {0} : t = <<a, b>>
    BY <1>5 DEF Fractions
<1>7. PICK score : score = ScorePillar(f, expected).score
    OBVIOUS
<1>8. score = <<a, b * n>>
    <2>1. score = Over(t, n)
        BY <1>2, <1>7, Zenon DEF ScorePillar
    <2> QED  BY <1>6, <2>1 DEF Over
<1>9. b * n \in Nat \ {0}
    BY <1>3
<1>10. Lean(score, 1, h) = Lean(t, n, h)
    <2>1. PICK e \in Int, d \in Int : h = <<e, d>>
        BY DEF Fractions
    <2>2. Lean(score, 1, h) = a * d - 1 * e * (b * n) /\ Lean(t, n, h) = a * d - n * e * b
        BY <1>6, <1>8, <2>1 DEF Lean
    <2>3. a * d - 1 * e * (b * n) = a * d - n * e * b
        BY <1>3
    <2> QED  BY <2>2, <2>3
<1> QED  BY <1>5, <1>7, <1>8, <1>9, <1>10 DEF ScoreLeansToo, Fractions

\* What is blended of scores is not below all of them, nor above.
Between(scores, there, b) ==
    /\ b \in Fractions
    /\ ~\A p \in there : Lean(scores[p], 1, b) > 0
    /\ ~\A p \in there : Lean(scores[p], 1, b) < 0

LEMMA WeightLeans ==
    ASSUME NEW x \in Fractions, NEW w \in Nat \ {0}, NEW h \in Fractions
    PROVE  /\ Times(Whole(w), x) \in Fractions
           /\ Lean(Times(Whole(w), x), w, h) = w * Lean(x, 1, h)
<1>1. PICK a \in Int, b \in Nat \ {0} : x = <<a, b>>
    BY DEF Fractions
<1>2. PICK e \in Int, d \in Int : h = <<e, d>>
    BY DEF Fractions
<1>3. Times(Whole(w), x) = <<w * a, 1 * b>>
    BY <1>1 DEF Times, Whole
<1>4. w * a \in Int /\ 1 * b \in Nat \ {0}
    OBVIOUS
<1>5. Lean(Times(Whole(w), x), w, h) = (w * a) * d - w * e * (1 * b)
      /\ Lean(x, 1, h) = a * d - 1 * e * b
    BY <1>1, <1>2, <1>3 DEF Lean
<1>6. (w * a) * d - w * e * (1 * b) = w * (a * d - 1 * e * b)
    OBVIOUS
<1> QED  BY <1>3, <1>4, <1>5, <1>6 DEF Fractions

LEMMA BlendIsBetween ==
    ASSUME NEW scores, NEW weights, NEW there, IsFiniteSet(there), there # {},
           \A p \in there : weights[p] \in Nat \ {0} /\ scores[p] \in Fractions
    PROVE  Between(scores, there,
                   Over(Total([p \in there |-> Times(Whole(weights[p]), scores[p])]),
                        SumOf(weights, there)))
<1>1. PICK f : f = [p \in there |-> Times(Whole(weights[p]), scores[p])]
    OBVIOUS
<1>2. PICK t, n, b : t = Total(f) /\ n = SumOf(weights, there) /\ b = Over(t, n)
    OBVIOUS
<1>3. DOMAIN f = there /\ \A p \in there : f[p] = Times(Whole(weights[p]), scores[p])
    BY <1>1
<1>4. \A p \in there : f[p] \in Fractions /\ weights[p] \in Nat
    <2>1. <<0, 1>> \in Fractions
        BY DEF Fractions
    <2> QED  BY <1>3, <2>1, WeightLeans
<1>5. n \in Nat \ {0}
    <2>1. PICK p \in there : TRUE
        OBVIOUS
    <2>2. SumOf(weights, there) = weights[p] + SumOf(weights, there \ {p})
        BY <1>4, <2>1, SumOver
    <2>3. SumOf(weights, there \ {p}) \in Nat
        <3>1. IsFiniteSet(there \ {p}) /\ \A x \in there \ {p} : weights[x] \in Nat
            BY FS_RemoveElement
        <3> QED  BY <3>1, SumOver
    <2> QED  BY <1>2, <2>1, <2>2, <2>3
<1>6. t \in Fractions
    <2>1. <<0, 1>> \in Fractions
        BY DEF Fractions
    <2>2. TotalLeansToo(f, weights, <<0, 1>>)
        BY <1>3, <1>4, <2>1, TotalLeans
    <2> QED  BY <1>2, <2>2 DEF TotalLeansToo
<1>7. PICK a \in Int, c \in Nat \ {0} : t = <<a, c>>
    BY <1>6 DEF Fractions
<1>8. b = <<a, c * n>> /\ c * n \in Nat \ {0}
    <2>1. c * n \in Nat \ {0}
        BY <1>5
    <2> QED  BY <1>2, <1>7, <2>1 DEF Over
<1>9. b \in Fractions
    BY <1>8 DEF Fractions
<1>10. Lean(t, n, b) = 0
    <2>1. Lean(t, n, b) = a * (c * n) - n * a * c
        BY <1>7, <1>8 DEF Lean
    <2>2. a * (c * n) - n * a * c = 0
        BY <1>5
    <2> QED  BY <2>1, <2>2
<1>11. \A p \in there : Lean(f[p], weights[p], b) = weights[p] * Lean(scores[p], 1, b)
    BY <1>3, <1>9, WeightLeans
<1>12. \A p \in there : Lean(scores[p], 1, b) \in Int
    BY <1>9, LeanIs
<1>13. TotalLeansToo(f, weights, b)
    BY <1>3, <1>4, <1>9, TotalLeans
<1>14. ASSUME \A p \in there : Lean(scores[p], 1, b) > 0 PROVE FALSE
    <2>1. ASSUME NEW p \in there PROVE Lean(f[p], weights[p], b) > 0
        <3>1. PICK v, l : v = weights[p] /\ l = Lean(scores[p], 1, b)
            OBVIOUS
        <3>2. v \in Nat \ {0} /\ l \in Int /\ l > 0
            BY <1>12, <1>14, <3>1
        <3>3. v * l > 0
            BY ONLY <3>2
        <3> QED  BY <1>11, <3>1, <3>3
    <2> QED  BY <1>2, <1>3, <1>10, <1>13, <2>1 DEF TotalLeansToo
<1>15. ASSUME \A p \in there : Lean(scores[p], 1, b) < 0 PROVE FALSE
    <2>1. ASSUME NEW p \in there PROVE Lean(f[p], weights[p], b) < 0
        <3>1. PICK v, l : v = weights[p] /\ l = Lean(scores[p], 1, b)
            OBVIOUS
        <3>2. v \in Nat \ {0} /\ l \in Int /\ l < 0
            BY <1>12, <1>15, <3>1
        <3>3. v * l < 0
            BY ONLY <3>2
        <3> QED  BY <1>11, <3>1, <3>3
    <2> QED  BY <1>2, <1>3, <1>10, <1>13, <2>1 DEF TotalLeansToo
<1> QED  BY <1>1, <1>2, <1>9, <1>14, <1>15 DEF Between
-----------------------------------------------------------------------------
(* The least of some fractions.                                            *)

LEMMA AtMostIs ==
    ASSUME NEW x \in Fractions, NEW h \in Fractions
    PROVE  /\ AtMost(x, h) <=> ~(Lean(x, 1, h) > 0)
           /\ AtMost(h, x) <=> ~(Lean(x, 1, h) < 0)
<1>1. PICK a \in Int, b \in Int : x = <<a, b>>
    BY DEF Fractions
<1>2. PICK e \in Int, d \in Int : h = <<e, d>>
    BY DEF Fractions
<1>3. Lean(x, 1, h) = a * d - 1 * e * b
    BY <1>1, <1>2 DEF Lean
<1>4. AtMost(x, h) <=> a * d <= e * b
    BY <1>1, <1>2 DEF AtMost
<1>5. AtMost(h, x) <=> e * b <= a * d
    BY <1>1, <1>2 DEF AtMost
<1>6. PICK p \in Int, q \in Int : p = a * d /\ q = e * b
    OBVIOUS
<1>7. Lean(x, 1, h) = p - q
    BY <1>3, <1>6
<1> QED  BY <1>4, <1>5, <1>6, <1>7

LEMMA AtMostOrders ==
    /\ \A x \in Fractions : AtMost(x, x)
    /\ \A x, y \in Fractions : AtMost(x, y) \/ AtMost(y, x)
    /\ \A x, y, z \in Fractions : AtMost(x, y) /\ AtMost(y, z) => AtMost(x, z)
<1>1. ASSUME NEW x \in Fractions, NEW y \in Fractions PROVE AtMost(x, y) \/ AtMost(y, x)
    <2>1. PICK a \in Int, b \in Int, c \in Int, d \in Int : x = <<a, b>> /\ y = <<c, d>>
        BY DEF Fractions
    <2>2. a * d <= c * b \/ c * b <= a * d
        OBVIOUS
    <2> QED  BY <2>1, <2>2 DEF AtMost
<1>2. ASSUME NEW x \in Fractions, NEW y \in Fractions, NEW z \in Fractions, AtMost(x, y), AtMost(y, z)
      PROVE  AtMost(x, z)
    <2>1. PICK a \in Int, b \in Nat \ {0} : x = <<a, b>>
        BY DEF Fractions
    <2>2. PICK c \in Int, d \in Nat \ {0} : y = <<c, d>>
        BY DEF Fractions
    <2>3. PICK e \in Int, f \in Nat \ {0} : z = <<e, f>>
        BY DEF Fractions
    <2>4. a * d <= c * b /\ c * f <= e * d
        BY <1>2, <2>1, <2>2, <2>3 DEF AtMost
    <2>5. (a * d) * f <= (c * b) * f
        <3>1. PICK p \in Int, q \in Int : p = a * d /\ q = c * b
            OBVIOUS
        <3>2. p <= q
            BY <2>4, <3>1
        <3>3. p * f <= q * f
            BY ONLY <3>2
        <3> QED  BY <3>1, <3>3
    <2>6. (c * f) * b <= (e * d) * b
        <3>1. PICK p \in Int, q \in Int : p = c * f /\ q = e * d
            OBVIOUS
        <3>2. p <= q
            BY <2>4, <3>1
        <3>3. p * b <= q * b
            BY ONLY <3>2
        <3> QED  BY <3>1, <3>3
    <2>7. (a * d) * f = d * (a * f) /\ (c * b) * f = (c * f) * b /\ (e * d) * b = d * (e * b)
        OBVIOUS
    <2>8. PICK p \in Int, q \in Int : p = a * f /\ q = e * b
        OBVIOUS
    <2>9. d * p <= d * q
        <3>1. (a * d) * f \in Int /\ (c * b) * f \in Int /\ (e * d) * b \in Int
            OBVIOUS
        <3> QED  BY <2>5, <2>6, <2>7, <2>8, <3>1
    <2>10. p <= q
        BY ONLY <2>9
    <2> QED  BY <2>1, <2>3, <2>8, <2>10 DEF AtMost
<1> QED  BY <1>1, <1>2

LEMMA LeastFraction ==
    ASSUME NEW S, IsFiniteSet(S), S # {}, S \subseteq Fractions
    PROVE  \E c \in S : \A d \in S : AtMost(c, d)
<1> DEFINE Ok(s) == \E c \in s : \A d \in s : AtMost(c, d)
           Bad == {n \in Nat : \E s \in SUBSET S : Cardinality(s) = n /\ s # {} /\ ~Ok(s)}
<1>1. \A s \in SUBSET S : IsFiniteSet(s) /\ Cardinality(s) \in Nat
    BY FS_Subset, FS_CardinalityType
<1>2. SUFFICES ASSUME Bad # {} PROVE FALSE
    BY <1>1
<1>3. PICK n \in Bad : \A o \in Bad : n <= o
    <2>1. Bad \subseteq Nat
        OBVIOUS
    <2> HIDE DEF Bad
    <2> QED  BY <1>2, <2>1, LeastOf
<1>4. PICK s \in SUBSET S : Cardinality(s) = n /\ s # {} /\ ~Ok(s)
    OBVIOUS
<1>5. PICK x \in s : TRUE
    BY <1>4
<1>6. PICK r \in SUBSET S : r = s \ {x}
    OBVIOUS
<1>7. Cardinality(r) = n - 1 /\ n - 1 \in Nat /\ n \in Nat
    BY <1>1, <1>4, <1>5, <1>6, Smaller
<1>8. r = {} \/ Ok(r)
    <2>1. n - 1 \notin Bad
        <3> HIDE DEF Bad
        <3> QED  BY <1>3, <1>7
    <2> QED  BY <1>7, <2>1
<1>9. CASE r = {}
    <2>1. s = {x} /\ x \in Fractions
        BY <1>5, <1>6, <1>9
    <2> QED  BY <1>4, <2>1, AtMostOrders
<1>10. CASE r # {}
    <2>1. PICK c \in r : \A d \in r : AtMost(c, d)
        BY <1>8, <1>10
    <2>2. c \in Fractions /\ x \in Fractions /\ c \in s /\ \A d \in s : d = x \/ d \in r
        BY <1>5, <1>6, <2>1
    <2>3. CASE AtMost(c, x)
        BY <1>4, <2>1, <2>2, <2>3
    <2>4. CASE AtMost(x, c)
        <3>1. \A d \in s : AtMost(x, d)
            BY <1>6, <2>1, <2>2, <2>4, AtMostOrders
        <3> QED  BY <1>4, <1>5, <3>1
    <2> QED  BY <2>2, <2>3, <2>4, AtMostOrders
<1> QED  BY <1>9, <1>10
-----------------------------------------------------------------------------
(* A snapshot.                                                             *)

\* What SnapshotIsHonest says of one.
SnapshotTruly(percentiles, applies, weights, b) ==
    LET weighted == UNION {applies[p] : p \in {p \in DOMAIN weights : weights[p] > 0}}
        there == DOMAIN percentiles \cap weighted
    IN  /\ \E m \in there : AtMost(percentiles[m], b.blended)
        /\ \E m \in there : AtMost(b.blended, percentiles[m])
        /\ Same(b.coverage, Whole(1)) <=> weighted \subseteq there

\* What a snapshot is asked of.
Blendable(percentiles, applies, weights) ==
    /\ IsFiniteSet(DOMAIN percentiles)
    /\ \A m \in DOMAIN percentiles : percentiles[m] \in Fractions
    /\ IsFiniteSet(DOMAIN weights) /\ DOMAIN weights \subseteq DOMAIN applies
    /\ \A p \in DOMAIN weights : weights[p] \in Nat
    /\ \A p \in DOMAIN applies : IsFiniteSet(applies[p]) /\ applies[p] # {}

\* How much of a pillar is there.
PillarCoverage(percentiles, applies, p) ==
    IF DOMAIN percentiles \cap applies[p] # {}
    THEN <<Cardinality(DOMAIN percentiles \cap applies[p]), Cardinality(applies[p])>>
    ELSE <<0, 1>>

LEMMA PillarCoverageIs ==
    ASSUME NEW percentiles, NEW applies, NEW p, IsFiniteSet(applies[p]), applies[p] # {}
    PROVE  LET c == PillarCoverage(percentiles, applies, p)
           IN  /\ c \in Nat \X (Nat \ {0}) /\ c[1] <= c[2]
               /\ c[1] = c[2] <=> applies[p] \subseteq DOMAIN percentiles
<1> DEFINE M == DOMAIN percentiles \cap applies[p]
<1>1. PICK k, n, c : k = Cardinality(M) /\ n = Cardinality(applies[p]) /\ c = PillarCoverage(percentiles, applies, p)
    OBVIOUS
<1>2. M \in SUBSET applies[p]
    OBVIOUS
<1> HIDE DEF M
<1>3. k \in Nat /\ n \in Nat \ {0} /\ k <= n /\ (k = n => M = applies[p])
    <2>1. IsFiniteSet(M) /\ k <= n /\ (n = k => applies[p] = M)
        BY <1>1, <1>2, FS_Subset
    <2>2. k \in Nat /\ n \in Nat
        BY <1>1, <2>1, FS_CardinalityType
    <2>3. n # 0
        BY <1>1, FS_EmptySet
    <2> QED  BY <2>1, <2>2, <2>3
<1>4. CASE M # {}
    <2>1. c = <<k, n>>
        BY <1>1, <1>4 DEF PillarCoverage, M
    <2>2. applies[p] \subseteq DOMAIN percentiles => M = applies[p]
        BY DEF M
    <2>3. M = applies[p] => applies[p] \subseteq DOMAIN percentiles
        BY DEF M
    <2>4. M = applies[p] => k = n
        BY <1>1
    <2> QED  BY <1>1, <1>3, <2>1, <2>2, <2>3, <2>4
<1>5. CASE M = {}
    <2>1. c = <<0, 1>>
        BY <1>1, <1>5 DEF PillarCoverage, M
    <2>2. ~(applies[p] \subseteq DOMAIN percentiles)
        BY <1>5 DEF M
    <2> QED  BY <1>1, <2>1, <2>2
<1> QED  BY <1>4, <1>5

LEMMA SnapshotIs ==
    ASSUME NEW percentiles, NEW applies, NEW weights, Blendable(percentiles, applies, weights),
           SnapshotOf(percentiles, applies, weights) # NoSnapshot
    PROVE  SnapshotTruly(percentiles, applies, weights, SnapshotOf(percentiles, applies, weights))
<1> DEFINE W == {p \in DOMAIN weights : weights[p] > 0}
           M(p) == DOMAIN percentiles \cap applies[p]
           P == {p \in DOMAIN applies : M(p) # {}}
           score(p) == ScorePillar(Restrict(percentiles, M(p)), Cardinality(applies[p]))
           T == P \cap W
           Weighted == UNION {applies[p] : p \in W}
           There == DOMAIN percentiles \cap Weighted
           C == {PillarCoverage(percentiles, applies, p) : p \in W}
<1>1. PICK pillars : pillars = [p \in P |-> score(p)]
    OBVIOUS
<1>2. PICK b : b = SnapshotOf(percentiles, applies, weights)
    OBVIOUS
<1>3. b = Blend(pillars, weights)
    BY <1>1, <1>2, Zenon DEF SnapshotOf
<1>4. DOMAIN pillars = P /\ \A p \in P : pillars[p] = score(p)
    BY <1>1
<1>5. T # {}
    BY <1>2, <1>3, <1>4 DEF Blend
<1>6. b.blended = Over(Total([p \in T |-> Times(Whole(weights[p]), pillars[p].score)]),
                       SumOf(weights, T))
    BY <1>3, <1>4, <1>5 DEF Blend, SumOf
<1>7. b.coverage = CHOOSE c \in C : \A d \in C : AtMost(c, d)
    <2>1. CoverageOfWeighted(pillars, W) = C
        <3>1. ASSUME NEW p \in W
              PROVE  (IF p \in DOMAIN pillars THEN pillars[p].coverage ELSE Whole(0))
                     = PillarCoverage(percentiles, applies, p)
            <4>1. p \in DOMAIN applies
                BY DEF Blendable
            <4>2. CASE M(p) # {}
                <5>1. DOMAIN Restrict(percentiles, M(p)) = M(p)
                    BY DEF Restrict
                <5>2. p \in P /\ pillars[p] = score(p)
                    BY <1>4, <4>1, <4>2
                <5>3. pillars[p].coverage = <<Cardinality(M(p)), Cardinality(applies[p])>>
                    BY <5>1, <5>2 DEF ScorePillar
                <5> QED  BY <1>4, <4>2, <5>2, <5>3 DEF PillarCoverage
            <4>3. CASE M(p) = {}
                BY <1>4, <4>3 DEF PillarCoverage, Whole
            <4> QED  BY <4>2, <4>3
        <3> HIDE DEF W
        <3> QED  BY <3>1, Zenon DEF CoverageOfWeighted
    <2> HIDE DEF C
    <2> QED  BY <1>3, <1>4, <1>5, <2>1 DEF Blend
<1>8. IsFiniteSet(T) /\ IsFiniteSet(W)
    <2>1. IsFiniteSet(DOMAIN weights) /\ W \subseteq DOMAIN weights /\ T \subseteq DOMAIN weights
        BY DEF Blendable
    <2> QED  BY <2>1, FS_Subset
<1>9. \A p \in W : weights[p] \in Nat \ {0} /\ IsFiniteSet(applies[p]) /\ applies[p] # {}
    BY DEF Blendable
<1>10. ASSUME NEW p \in T, NEW h \in Fractions
       PROVE  /\ pillars[p].score \in Fractions
              /\ (\A m \in M(p) : Lean(percentiles[m], 1, h) > 0) => Lean(pillars[p].score, 1, h) > 0
              /\ (\A m \in M(p) : Lean(percentiles[m], 1, h) < 0) => Lean(pillars[p].score, 1, h) < 0
    <2>1. PICK r : r = Restrict(percentiles, M(p))
        OBVIOUS
    <2>2. DOMAIN r = M(p) /\ \A m \in M(p) : r[m] = percentiles[m]
        BY <2>1 DEF Restrict
    <2>3. IsFiniteSet(M(p)) /\ M(p) # {}
        <3>1. IsFiniteSet(applies[p])
            BY <1>9
        <3> QED  BY <3>1, FS_Subset
    <2>4. \A m \in DOMAIN r : r[m] \in Fractions
        BY <2>2 DEF Blendable
    <2>5. ScoreLeansToo(r, ScorePillar(r, Cardinality(applies[p])).score, h)
        BY <2>2, <2>3, <2>4, ScoreLeans
    <2>6. pillars[p] = ScorePillar(r, Cardinality(applies[p]))
        BY <1>4, <2>1
    <2> QED  BY <2>2, <2>5, <2>6 DEF ScoreLeansToo
<1>11. \A m \in There : percentiles[m] \in Fractions
    BY DEF Blendable
<1>12. \A p \in T : M(p) \subseteq There
    BY DEF Blendable
<1>13. PICK scores : scores = [p \in T |-> pillars[p].score]
    OBVIOUS
<1>14. \A p \in T : scores[p] = pillars[p].score
    BY <1>13
<1>15. [p \in T |-> Times(Whole(weights[p]), pillars[p].score)]
       = [p \in T |-> Times(Whole(weights[p]), scores[p])]
    BY <1>14
<1>16. Between(scores, T, b.blended)
    <2>1. <<0, 1>> \in Fractions
        BY DEF Fractions
    <2>2. \A p \in T : weights[p] \in Nat \ {0} /\ scores[p] \in Fractions
        BY <1>9, <1>10, <1>14, <2>1
    <2> HIDE DEF T
    <2>3. Between(scores, T, Over(Total([p \in T |-> Times(Whole(weights[p]), scores[p])]),
                                  SumOf(weights, T)))
        BY <1>5, <1>8, <2>2, BlendIsBetween
    <2> QED  BY <1>6, <1>15, <2>3
<1>17. b.blended \in Fractions
    BY <1>16 DEF Between
<1>18. \E m \in There : AtMost(percentiles[m], b.blended)
    <2>1. SUFFICES ASSUME \A m \in There : ~AtMost(percentiles[m], b.blended) PROVE FALSE
        OBVIOUS
    <2>2. \A m \in There : Lean(percentiles[m], 1, b.blended) > 0
        BY <1>11, <1>17, <2>1, AtMostIs
    <2>3. \A p \in T : Lean(scores[p], 1, b.blended) > 0
        BY <1>10, <1>12, <1>14, <1>17, <2>2
    <2> QED  BY <1>16, <2>3 DEF Between
<1>19. \E m \in There : AtMost(b.blended, percentiles[m])
    <2>1. SUFFICES ASSUME \A m \in There : ~AtMost(b.blended, percentiles[m]) PROVE FALSE
        OBVIOUS
    <2>2. \A m \in There : Lean(percentiles[m], 1, b.blended) < 0
        BY <1>11, <1>17, <2>1, AtMostIs
    <2>3. \A p \in T : Lean(scores[p], 1, b.blended) < 0
        BY <1>10, <1>12, <1>14, <1>17, <2>2
    <2> QED  BY <1>16, <2>3 DEF Between
<1>20. \A p \in W : LET c == PillarCoverage(percentiles, applies, p)
                    IN  /\ c \in Nat \X (Nat \ {0}) /\ c[1] <= c[2]
                        /\ c[1] = c[2] <=> applies[p] \subseteq DOMAIN percentiles
    BY <1>9, PillarCoverageIs
<1>21. C \subseteq Fractions /\ C # {} /\ IsFiniteSet(C)
    <2>1. C \subseteq Fractions
        BY <1>20 DEF Fractions
    <2>2. C # {}
        BY <1>5
    <2>3. IsFiniteSet(C)
        <3>1. PICK f : f = [p \in W |-> PillarCoverage(percentiles, applies, p)]
            OBVIOUS
        <3>2. f \in Surjection(W, C)
            BY <3>1 DEF Surjection
        <3> HIDE DEF W, C
        <3> QED  BY <1>8, <3>2, FS_Surjection
    <2> QED  BY <2>1, <2>2, <2>3
<1>22. b.coverage \in C /\ \A d \in C : AtMost(b.coverage, d)
    <2> HIDE DEF C
    <2>1. \E c \in C : \A d \in C : AtMost(c, d)
        BY <1>21, LeastFraction
    <2> QED  BY <1>7, <2>1, Zenon
<1>23. Same(b.coverage, Whole(1)) <=> b.coverage[1] = b.coverage[2]
    <2>1. b.coverage \in Fractions
        BY <1>21, <1>22
    <2>2. PICK x \in Int, y \in Int : b.coverage = <<x, y>>
        BY <2>1 DEF Fractions
    <2> QED  BY <2>2 DEF Same, Whole
<1>24. ASSUME Weighted \subseteq There PROVE b.coverage[1] = b.coverage[2]
    <2>1. PICK p \in W : b.coverage = PillarCoverage(percentiles, applies, p)
        BY <1>22
    <2>2. applies[p] \subseteq DOMAIN percentiles
        BY <1>24
    <2> QED  BY <1>20, <2>1, <2>2
<1>25. ASSUME b.coverage[1] = b.coverage[2] PROVE Weighted \subseteq There
    <2>1. ASSUME NEW p \in W PROVE applies[p] \subseteq DOMAIN percentiles
        <3>1. PICK q \in W : b.coverage = PillarCoverage(percentiles, applies, q)
            BY <1>22
        <3>2. PICK d : d = PillarCoverage(percentiles, applies, p)
            OBVIOUS
        <3>3. PICK n \in Nat \ {0} : b.coverage = <<n, n>>
            BY <1>20, <1>25, <3>1
        <3>4. PICK x \in Nat, y \in Nat \ {0} : d = <<x, y>> /\ x <= y
            BY <1>20, <3>2
        <3>5. AtMost(b.coverage, d)
            BY <1>22, <3>2
        <3>6. n * y <= x * n
            BY <3>3, <3>4, <3>5 DEF AtMost
        <3>7. n * y <= n * x
            BY <3>6
        <3>8. x = y
            BY ONLY <3>4, <3>7
        <3>9. d[1] = d[2]
            BY <3>4, <3>8
        <3> QED  BY <1>20, <3>2, <3>9, Zenon
    <2> QED  BY <2>1
<1>26. Same(b.coverage, Whole(1)) <=> Weighted \subseteq There
    BY <1>23, <1>24, <1>25
<1> QED  BY <1>2, <1>18, <1>19, <1>26, Zenon DEF SnapshotTruly
-----------------------------------------------------------------------------
(* What is placed, and what it makes.                                      *)

PlacesInv ==
    /\ sum \in SeriesSums \cup PeriodSums \cup RankSums \cup BlendSums
    /\ SnapshotIsHonest

LEMMA SnapTruly == FiguresSpec => []SnapshotIsHonest
<1>1. FiguresInit => PlacesInv
    BY DEF FiguresInit, PlacesInv, SnapshotIsHonest, Worked
<1>2. PlacesInv /\ [FiguresNext]_figuresVars => PlacesInv'
    <2> SUFFICES ASSUME PlacesInv, [FiguresNext]_figuresVars PROVE PlacesInv'
        OBVIOUS
    <2>1. CASE WorkBlend
        <3>1. sum.of = "blend" /\ sum' = sum /\ sum \in BlendSums
            BY <2>1, FiguresAssumption DEF WorkBlend, Work, PlacesInv
        <3>2. worked' = SnapshotOf(sum.percentiles, sum.applies, sum.weights)
            BY <2>1 DEF WorkBlend, Work
        <3>3. Blendable(sum.percentiles, sum.applies, sum.weights)
            BY <3>1, FiguresAssumption DEF Blendable, Fractions
        <3>4. worked' # NoSnapshot => SnapshotTruly(sum.percentiles, sum.applies, sum.weights, worked')
            BY <3>2, <3>3, SnapshotIs
        <3>5. SnapshotIsHonest'
            BY <3>1, <3>4, Zenon DEF SnapshotIsHonest, SnapshotTruly
        <3> QED  BY <3>1, <3>5 DEF PlacesInv
    <2>2. CASE WorkSeries \/ WorkPeriods \/ WorkRank
        <3>1. sum.of # "blend" /\ sum' = sum
            BY <2>2 DEF WorkSeries, WorkPeriods, WorkRank, Work
        <3> QED  BY <3>1 DEF PlacesInv, SnapshotIsHonest, Worked
    <2>3. CASE UNCHANGED figuresVars
        BY <2>3 DEF figuresVars, PlacesInv, SnapshotIsHonest, Worked, NoSnapshot
    <2> QED  BY <2>1, <2>2, <2>3 DEF FiguresNext
<1>3. PlacesInv => SnapshotIsHonest
    BY DEF PlacesInv
<1> QED  BY <1>1, <1>2, <1>3, PTL DEF FiguresSpec
\* For every set of values and groups, and of percentiles, metrics and weights: a
\* percentile is the wins and half the ties among the peers that the page says, and
\* a snapshot is between the percentiles it is of and is whole exactly when nothing
\* weighted is missing.  (rank, percentiles, score_pillar, blend)
THEOREM PlacedHonestly == FiguresSpec => []PlacesAreHonest
<1>1. RankedAgainstItsPeers /\ SnapshotIsHonest => PlacesAreHonest
    BY DEF PlacesAreHonest
<1> QED  BY <1>1, RankedTruly, SnapTruly, PTL

-----------------------------------------------------------------------------
(* The periods of a ratio.                                                *)

\* What is known of the items of a sum of periods.
Facts(held) ==
    /\ IsFiniteSet(held)
    /\ \A i \in held : i.end \in Nat /\ i.value \in Int
    /\ \A i, j \in held : <<i.code, i.type, i.end>> = <<j.code, j.type, j.end>> => i = j

EndsOf(held) == {i.end : i \in held}

ItemsOf(held, code, type, ends) == {i \in held : i.code = code /\ i.type = type /\ i.end \in ends}

\* An end that a code has is the end of an item of it.
LEMMA ByDateIs ==
    ASSUME NEW held, Facts(held), NEW code, NEW type, NEW e \in DOMAIN ByDate(held, code, type)
    PROVE  \E i \in held : /\ i.code = code /\ i.type = type /\ i.end = e
                           /\ ByDate(held, code, type)[e] = i.value
<1>1. e \in {i.end : i \in {i \in held : i.code = code /\ i.type = type}}
    BY DEF ByDate
<1>2. ByDate(held, code, type)[e] = (CHOOSE k \in held : k.code = code /\ k.type = type /\ k.end = e).value
    BY <1>1 DEF ByDate
<1>3. PICK i \in held : i.code = code /\ i.type = type /\ i.end = e
    BY <1>1
<1>4. PICK j : j = CHOOSE k \in held : k.code = code /\ k.type = type /\ k.end = e
    OBVIOUS
<1>5. j \in held /\ j.code = code /\ j.type = type /\ j.end = e
    BY <1>3, <1>4
<1> QED  BY <1>2, <1>4, <1>5

LEMMA ByDateOf ==
    ASSUME NEW held, Facts(held), NEW i \in held
    PROVE  i.end \in DOMAIN ByDate(held, i.code, i.type) /\ ByDate(held, i.code, i.type)[i.end] = i.value
<1>1. i.end \in DOMAIN ByDate(held, i.code, i.type)
    BY DEF ByDate
<1>2. PICK j \in held : /\ j.code = i.code /\ j.type = i.type /\ j.end = i.end
                        /\ ByDate(held, i.code, i.type)[i.end] = j.value
    BY <1>1, ByDateIs
<1>3. j = i
    BY <1>2 DEF Facts
<1> QED  BY <1>1, <1>2, <1>3

\* What is read off by date, over ends that are there, is all that was reported at them.
LEMMA ReportedIs ==
    ASSUME NEW held, Facts(held), NEW code, NEW type,
           NEW ends \in SUBSET DOMAIN ByDate(held, code, type)
    PROVE  Reported(held, code, type, ends) = SumOf(ByDate(held, code, type), ends)
<1> DEFINE value == [i \in held |-> i.value]
           end == [i \in held |-> i.end]
           S == ItemsOf(held, code, type, ends)
<1>1. PICK dated : dated = ByDate(held, code, type)
    OBVIOUS
<1>2. Reported(held, code, type, ends) = SumOf(value, S)
    BY Zenon DEF Reported, SumOf, ItemsOf
<1>3. IsFiniteSet(S) /\ S \subseteq held
    BY FS_Subset DEF Facts, ItemsOf
<1>4. \A i \in S : i.code = code /\ i.type = type /\ i.end \in ends
    BY DEF ItemsOf
<1>5. \A i \in S : value[i] = i.value /\ end[i] = i.end /\ value[i] \in Int
    BY <1>3 DEF Facts
<1>6. \A i \in S : value[i] = dated[end[i]]
    BY <1>1, <1>3, <1>4, <1>5, ByDateOf
<1>7. \A i, j \in S : end[i] = end[j] => i = j
    BY <1>3, <1>4, <1>5 DEF Facts
<1>8. {end[i] : i \in S} = ends
    <2>1. \A i \in S : end[i] \in ends
        BY <1>4, <1>5
    <2>2. ASSUME NEW e \in ends PROVE \E i \in S : end[i] = e
        <3>1. PICK i \in held : i.code = code /\ i.type = type /\ i.end = e
            BY ByDateIs
        <3>2. i \in S
            BY <3>1 DEF ItemsOf
        <3> QED  BY <1>5, <3>1, <3>2
    <2> HIDE DEF end, S
    <2> QED  BY <2>1, <2>2
<1> HIDE DEF value, end, S
<1>9. SumOf(value, S) = SumOf(dated, {end[i] : i \in S})
    BY <1>3, <1>5, <1>6, <1>7, SumRenamed
<1> QED  BY <1>1, <1>2, <1>8, <1>9

LEMMA EndsAreFinite ==
    ASSUME NEW held, Facts(held)
    PROVE  IsFiniteSet(EndsOf(held)) /\ EndsOf(held) \subseteq Nat
<1>1. [i \in held |-> i.end] \in Surjection(held, EndsOf(held))
    BY DEF Surjection, EndsOf
<1>2. IsFiniteSet(EndsOf(held))
    BY <1>1, FS_Surjection DEF Facts
<1> QED  BY <1>2 DEF Facts, EndsOf

\* Four numbers in order.
InOrder(S, a, b, c, d) == S = {a, b, c, d} /\ a < b /\ b < c /\ c < d

IsFirst(T, x) ==
    /\ \A y \in T \ {x} : x < y
    /\ IsFiniteSet(T \ {x}) /\ Cardinality(T \ {x}) = Cardinality(T) - 1

HasFirst(T) == \E x \in T : IsFirst(T, x)

LEMMA FirstOf ==
    ASSUME NEW T, T \subseteq Nat, IsFiniteSet(T), Cardinality(T) # 0
    PROVE  HasFirst(T)
<1>1. T # {}
    BY FS_EmptySet
<1>2. PICK x \in T : \A y \in T : x <= y
    BY <1>1, LeastOf
<1>3. \A y \in T \ {x} : x < y
    BY <1>2
<1>4. IsFiniteSet(T \ {x}) /\ Cardinality(T \ {x}) = Cardinality(T) - 1
    BY Smaller
<1> QED  BY <1>3, <1>4 DEF IsFirst, HasFirst

LEMMA FourInOrder ==
    ASSUME NEW S, S \subseteq Nat, IsFiniteSet(S), Cardinality(S) = 4
    PROVE  \E a, b, c, d \in S : InOrder(S, a, b, c, d)
<1>1. PICK a \in S : IsFirst(S, a)
    <2>0. Cardinality(S) # 0
        OBVIOUS
    <2>1. HasFirst(S)
        BY <2>0, FirstOf
    <2> QED  BY <2>1 DEF HasFirst
<1>2. PICK T : T = S \ {a}
    OBVIOUS
<1>3. PICK b \in T : IsFirst(T, b)
    <2>1. T \subseteq Nat /\ IsFiniteSet(T) /\ Cardinality(T) = 3
        BY <1>1, <1>2 DEF IsFirst
    <2>2. Cardinality(T) # 0
        BY <2>1
    <2>3. HasFirst(T)
        BY <2>1, <2>2, FirstOf
    <2> QED  BY <2>3 DEF HasFirst
<1>4. PICK U : U = T \ {b}
    OBVIOUS
<1>5. PICK c \in U : IsFirst(U, c)
    <2>0. T \subseteq Nat /\ Cardinality(T) = 3
        BY <1>1, <1>2 DEF IsFirst
    <2>1. U \subseteq Nat /\ IsFiniteSet(U) /\ Cardinality(U) = 2
        BY <2>0, <1>2, <1>3, <1>4 DEF IsFirst
    <2>2. Cardinality(U) # 0
        BY <2>1
    <2>3. HasFirst(U)
        BY <2>1, <2>2, FirstOf
    <2> QED  BY <2>3 DEF HasFirst
<1>6. PICK V : V = U \ {c}
    OBVIOUS
<1>7. PICK d \in V : IsFirst(V, d)
    <2>0. U \subseteq Nat /\ Cardinality(U) = 2
        BY <1>1, <1>2, <1>3, <1>4 DEF IsFirst
    <2>1. V \subseteq Nat /\ IsFiniteSet(V) /\ Cardinality(V) = 1
        BY <2>0, <1>2, <1>4, <1>5, <1>6 DEF IsFirst
    <2>2. Cardinality(V) # 0
        BY <2>1
    <2>3. HasFirst(V)
        BY <2>1, <2>2, FirstOf
    <2> QED  BY <2>3 DEF HasFirst
<1>8. V \ {d} = {}
    <2>1. Cardinality(S) = 4 /\ Cardinality(T) = 3 /\ Cardinality(U) = 2 /\ Cardinality(V) = 1
        BY <1>1, <1>2, <1>3, <1>4, <1>5, <1>6 DEF IsFirst
    <2>2. IsFiniteSet(V \ {d}) /\ Cardinality(V \ {d}) = 0
        BY <1>7, <2>1 DEF IsFirst
    <2> QED  BY <2>2, FS_EmptySet
<1>9. S = {a, b, c, d}
    BY <1>2, <1>3, <1>4, <1>5, <1>6, <1>7, <1>8
<1>10. a < b /\ b < c /\ c < d
    BY <1>1, <1>2, <1>3, <1>4, <1>5, <1>6, <1>7 DEF IsFirst
<1> QED  BY <1>2, <1>3, <1>4, <1>5, <1>6, <1>7, <1>9, <1>10 DEF InOrder

\* Four quarters in a row are a twelvemonth.
LEMMA FourAreAYear ==
    ASSUME FiguresAssumption, NEW S, S \subseteq Nat, IsFiniteSet(S), Consecutive(S)
    PROVE  Twelvemonth(S)
<1>1. PICK a, b, c, d \in S : InOrder(S, a, b, c, d)
    BY FourInOrder DEF Consecutive
<1>2. QuarterMin \in Nat /\ QuarterMax \in Nat /\ a \in Nat /\ b \in Nat /\ c \in Nat /\ d \in Nat
    BY DEF FiguresAssumption
<1>3. S = {a, b, c, d} /\ a < b /\ b < c /\ c < d
    BY <1>1 DEF InOrder
<1>4. \A x, y \in S : x < y /\ ~(\E z \in S : x < z /\ z < y) => QuarterMin <= y - x /\ y - x <= QuarterMax
    BY DEF Consecutive
<1>5. /\ QuarterMin <= b - a /\ b - a <= QuarterMax
      /\ QuarterMin <= c - b /\ c - b <= QuarterMax
      /\ QuarterMin <= d - c /\ d - c <= QuarterMax
    <2>1. ~(\E z \in S : a < z /\ z < b) /\ ~(\E z \in S : b < z /\ z < c) /\ ~(\E z \in S : c < z /\ z < d)
        BY <1>2, <1>3
    <2> QED  BY <1>3, <1>4, <2>1
<1>6. ASSUME NEW x \in S, NEW y \in S, x < y
      PROVE  QuarterMin <= y - x /\ y - x <= 3 * QuarterMax
    BY ONLY <1>2, <1>3, <1>5, <1>6, x \in S, y \in S
<1> QED  BY <1>6 DEF Twelvemonth, Consecutive

\* What a basis of flows is of.
FlowOver(held, codes, b, type, ends) ==
    /\ b.end \in ends /\ \A e \in ends : e <= b.end
    /\ IF b.kind = "A" THEN ends = {b.end} ELSE Twelvemonth(ends)
    /\ \A f \in codes, e \in ends : \E i \in held : i.code = f /\ i.type = type /\ i.end = e
    /\ \A f \in codes : b.value[f] = Reported(held, f, type, ends)

FlowTruly(held, codes, b) ==
    \E ends \in SUBSET EndsOf(held) :
        FlowOver(held, codes, b, IF b.kind = "A" THEN "A" ELSE "Q", ends)

LEMMA CommonIs ==
    ASSUME NEW held, Facts(held), NEW codes, NEW type
    PROVE  /\ CommonDates(held, codes, type) \subseteq EndsOf(held)
           /\ IsFiniteSet(CommonDates(held, codes, type)) /\ CommonDates(held, codes, type) \subseteq Nat
           /\ \A c \in codes : CommonDates(held, codes, type) \subseteq DOMAIN ByDate(held, c, type)
<1>1. CommonDates(held, codes, type) \subseteq EndsOf(held)
    BY DEF CommonDates, EndsOf
<1>2. \A c \in codes : CommonDates(held, codes, type) \subseteq DOMAIN ByDate(held, c, type)
    BY DEF CommonDates
<1> QED  BY <1>1, <1>2, EndsAreFinite, FS_Subset

LEMMA TtmIs ==
    ASSUME FiguresAssumption, NEW held, Facts(held), NEW codes, NEW today \in Nat,
           TtmBasis(held, codes, today) # NoBasis
    PROVE  /\ TtmBasis(held, codes, today).kind = "TTM"
           /\ FlowTruly(held, codes, TtmBasis(held, codes, today))
<1> DEFINE all == CommonDates(held, codes, "Q")
           fits == {e \in all : /\ e <= today /\ today - e <= TtmMaxAge
                                /\ Consecutive(FourUpTo(all, e))}
           newest == Max(fits)
           four == FourUpTo(all, newest)
           value == [c \in codes |-> SumOf(ByDate(held, c, "Q"), four)]
<1>1. /\ all \subseteq EndsOf(held) /\ IsFiniteSet(all) /\ all \subseteq Nat
      /\ \A c \in codes : all \subseteq DOMAIN ByDate(held, c, "Q")
    BY CommonIs
<1>2. fits # {} /\ TtmBasis(held, codes, today) = [kind |-> "TTM", end |-> newest, value |-> value]
    BY Zenon DEF TtmBasis, SumOf
<1>3. newest \in fits
    <2>1. IsFiniteSet(fits) /\ fits \subseteq Nat
        BY <1>1, FS_Subset
    <2> HIDE DEF fits
    <2> QED  BY <1>2, <2>1, LargestOf
<1>4. newest \in all /\ Consecutive(four)
    BY <1>3
<1>5. four \subseteq all /\ newest \in four /\ \A e \in four : e <= newest
    <2> HIDE DEF all, newest
    <2>1. four \subseteq all /\ \A e \in four : e <= newest
        BY DEF FourUpTo
    <2>2. newest \in Nat
        BY <1>1, <1>4
    <2>3. {x \in all : newest < x /\ x <= newest} = {}
        <3>1. \A x \in all : x \in Nat
            BY <1>1
        <3>2. ASSUME NEW x \in all PROVE ~(newest < x /\ x <= newest)
            BY ONLY <2>2, <3>1, x \in all
        <3> QED  BY <3>2
    <2>4. newest \in four
        BY <1>4, <2>2, <2>3, FS_EmptySet DEF FourUpTo
    <2> QED  BY <2>1, <2>4
<1>6. PICK b : b = TtmBasis(held, codes, today)
    OBVIOUS
<1>7. b.kind = "TTM" /\ b.end = newest /\ \A f \in codes : b.value[f] = SumOf(ByDate(held, f, "Q"), four)
    BY <1>2, <1>6
<1> HIDE DEF all, fits, newest, four
<1>8. PICK ends \in SUBSET EndsOf(held) : ends = four
    BY <1>1, <1>5
<1>9. Twelvemonth(ends)
    <2>1. IsFiniteSet(ends) /\ ends \subseteq Nat
        BY <1>1, <1>5, <1>8, FS_Subset
    <2> QED  BY <1>4, <1>8, <2>1, FourAreAYear
<1>10. \A f \in codes : ends \in SUBSET DOMAIN ByDate(held, f, "Q")
    BY <1>1, <1>5, <1>8
<1>11. ASSUME NEW f \in codes, NEW e \in ends
       PROVE  \E i \in held : i.code = f /\ i.type = "Q" /\ i.end = e
    <2>1. e \in DOMAIN ByDate(held, f, "Q")
        BY <1>10
    <2> QED  BY <2>1, ByDateIs
<1>12. \A f \in codes : b.value[f] = Reported(held, f, "Q", ends)
    BY <1>7, <1>8, <1>10, ReportedIs
<1>13. FlowTruly(held, codes, b)
    <2>1. FlowOver(held, codes, b, "Q", ends)
        BY <1>5, <1>7, <1>8, <1>9, <1>11, <1>12 DEF FlowOver
    <2> QED  BY <1>5, <1>7, <2>1 DEF FlowTruly
<1> QED  BY <1>6, <1>7, <1>13

LEMMA AnnualIs ==
    ASSUME FiguresAssumption, NEW held, Facts(held), NEW codes, NEW today \in Nat,
           AnnualBasis(held, codes, today) # NoBasis
    PROVE  /\ AnnualBasis(held, codes, today).kind = "A"
           /\ FlowTruly(held, codes, AnnualBasis(held, codes, today))
<1> DEFINE all == CommonDates(held, codes, "A")
           fits == {e \in all : e <= today /\ today - e <= AnnualMaxAge}
           newest == Max(fits)
           value == [c \in codes |-> ByDate(held, c, "A")[newest]]
<1>1. /\ all \subseteq EndsOf(held) /\ IsFiniteSet(all) /\ all \subseteq Nat
      /\ \A c \in codes : all \subseteq DOMAIN ByDate(held, c, "A")
    BY CommonIs
<1>2. fits # {} /\ AnnualBasis(held, codes, today) = [kind |-> "A", end |-> newest, value |-> value]
    BY Zenon DEF AnnualBasis
<1>3. newest \in fits
    <2>1. IsFiniteSet(fits) /\ fits \subseteq Nat
        BY <1>1, FS_Subset
    <2> HIDE DEF fits
    <2> QED  BY <1>2, <2>1, LargestOf
<1>4. newest \in all /\ newest \in Nat
    BY <1>1, <1>3
<1>5. PICK b : b = AnnualBasis(held, codes, today)
    OBVIOUS
<1>6. b.kind = "A" /\ b.end = newest /\ \A f \in codes : b.value[f] = ByDate(held, f, "A")[newest]
    BY <1>2, <1>5
<1> HIDE DEF all, fits, newest
<1>7. PICK ends \in SUBSET EndsOf(held) : ends = {newest}
    BY <1>1, <1>4
<1>8. \A f \in codes : ends \in SUBSET DOMAIN ByDate(held, f, "A")
    BY <1>1, <1>4, <1>7
<1>9. ASSUME NEW f \in codes, NEW e \in ends
      PROVE  \E i \in held : i.code = f /\ i.type = "A" /\ i.end = e
    <2>1. e \in DOMAIN ByDate(held, f, "A")
        BY <1>8
    <2> QED  BY <2>1, ByDateIs
<1>10. ASSUME NEW f \in codes PROVE b.value[f] = Reported(held, f, "A", ends)
    <2>1. PICK dated : dated = ByDate(held, f, "A")
        OBVIOUS
    <2>2. Reported(held, f, "A", ends) = SumOf(dated, ends)
        BY <1>8, <2>1, ReportedIs
    <2>3. dated[newest] \in Int
        <3>1. PICK i \in held : dated[newest] = i.value
            BY <1>7, <1>8, <2>1, ByDateIs
        <3> QED  BY <3>1 DEF Facts
    <2>4. SumOf(dated, ends) = dated[newest]
        <3>1. IsFiniteSet(ends) /\ \A e \in ends : dated[e] \in Int
            BY <1>7, <2>3, FS_Singleton
        <3>2. ends \ {newest} = {} /\ newest \in ends
            BY <1>7
        <3>3. SumOf(dated, {}) = 0
            BY FS_EmptySet, SumOverInt
        <3>4. SumOf(dated, ends) = dated[newest] + SumOf(dated, ends \ {newest})
            BY <3>1, <3>2, SumOverInt
        <3>5. SumOf(dated, ends \ {newest}) = 0
            BY <3>2, <3>3, Zenon
        <3> QED  BY <2>3, <3>4, <3>5
    <2> QED  BY <1>6, <2>1, <2>2, <2>4
<1>11. FlowTruly(held, codes, b)
    <2>1. b.end \in ends /\ \A e \in ends : e <= b.end
        BY <1>4, <1>6, <1>7
    <2>2. ends = {b.end}
        BY <1>6, <1>7
    <2>3. FlowOver(held, codes, b, "A", ends)
        BY <1>6, <1>9, <1>10, <2>1, <2>2 DEF FlowOver
    <2> QED  BY <1>6, <2>3 DEF FlowTruly
<1> QED  BY <1>5, <1>6, <1>11

LEMMA FlowIs ==
    ASSUME FiguresAssumption, NEW held, Facts(held), NEW codes, NEW today \in Nat,
           FlowBasis(held, codes, today) # NoBasis
    PROVE  FlowTruly(held, codes, FlowBasis(held, codes, today))
<1>1. CASE TtmBasis(held, codes, today) # NoBasis
    BY <1>1, TtmIs DEF FlowBasis
<1>2. CASE TtmBasis(held, codes, today) = NoBasis
    BY <1>2, AnnualIs DEF FlowBasis
<1> QED  BY <1>1, <1>2

\* A balance of a day is of items of that day.
LEMMA BalanceIs ==
    ASSUME NEW held, NEW codes, NEW day, BalanceAt(held, codes, day) # NoBasis, NEW c \in codes
    PROVE  \E i \in held : /\ i.code = c /\ i.end = day
                           /\ BalanceAt(held, codes, day).value[c] = i.value
<1> DEFINE there == {i \in held : i.code = c /\ i.end = day}
           audited == {i \in there : i.type = "A"}
           pool == IF audited # {} THEN audited ELSE there
<1>1. /\ BalanceOn(held, c, day) # {}
      /\ BalanceAt(held, codes, day).value[c] = CHOOSE v \in BalanceOn(held, c, day) : TRUE
    BY DEF BalanceAt
<1>2. there # {} /\ BalanceOn(held, c, day) = {(CHOOSE i \in pool : TRUE).value}
    BY <1>1, Zenon DEF BalanceOn
<1>3. PICK i : i = CHOOSE k \in pool : TRUE
    OBVIOUS
<1>4. i \in there
    <2>1. pool # {} /\ pool \subseteq there
        BY <1>2
    <2> HIDE DEF pool, there
    <2>2. i \in pool
        BY <1>3, <2>1
    <2> QED  BY <2>1, <2>2
<1>5. BalanceAt(held, codes, day).value[c] = i.value
    <2> HIDE DEF pool, there
    <2> QED  BY <1>1, <1>2, <1>3
<1> QED  BY <1>4, <1>5

\* What a ratio of flows has of its flow and of its balance.
RatioTruly(held, c, flow, r) ==
    /\ flow # NoBasis /\ r.basis = flow.kind /\ r.end = flow.end
    /\ c = "gross_margin" => r.value = <<flow.value["gross_profit"], flow.value["revenue"]>>
    /\ c = "roe" =>
          /\ BalanceAt(held, Balances["roe"], flow.end) # NoBasis
          /\ r.value = <<flow.value["net_income"],
                         BalanceAt(held, Balances["roe"], flow.end).value["stockholders_equity"]>>

LEMMA RatioIs ==
    ASSUME NEW held, NEW c \in DOMAIN Flows, NEW cap, NEW today, NEW flow, NEW r,
           r = RatioWith(held, c, cap, flow, today), r # Absent
    PROVE  RatioTruly(held, c, flow, r)
<1>1. PICK balance : balance = IF c \in DOMAIN Balances THEN BalancesOf(held, c, flow, today) ELSE NoBasis
    OBVIOUS
<1>2. /\ flow # NoBasis /\ (c \in DOMAIN Balances => balance # NoBasis)
      /\ r = Formula(c, cap, flow, balance)
    BY <1>1 DEF RatioWith
<1>3. ASSUME NEW over, NEW under, r = RatioOf(over, under, flow)
      PROVE  r.basis = flow.kind /\ r.end = flow.end /\ r.value = <<over, under>>
    BY <1>3 DEF RatioOf
<1>4. c \in {"earnings_yield", "ffo_yield", "ebitda_ev", "fcf_yield", "roic", "roe", "gross_margin", "interest_cover"}
    BY DEF Flows
<1>5. CASE c = "gross_margin"
    BY <1>2, <1>3, <1>5 DEF Formula, RatioTruly
<1>6. CASE c = "roe"
    <2>1. balance = BalanceAt(held, Balances["roe"], flow.end) /\ balance # NoBasis
        BY <1>1, <1>2, <1>6 DEF BalancesOf, Balances
    <2>2. r = RatioOf(flow.value["net_income"], balance.value["stockholders_equity"], flow)
        BY <1>2, <1>6 DEF Formula
    <2> QED  BY <1>2, <1>3, <1>6, <2>1, <2>2 DEF RatioTruly
<1>7. CASE c \in {"earnings_yield", "ffo_yield", "ebitda_ev", "fcf_yield", "roic", "interest_cover"}
    <2>1. \E over, under : r = RatioOf(over, under, flow)
        BY <1>2, <1>7 DEF Formula
    <2> QED  BY <1>2, <1>3, <1>7, <2>1 DEF RatioTruly
<1> QED  BY <1>4, <1>5, <1>6, <1>7 DEF RatioTruly

LEMMA OnePeriodEach ==
    ASSUME FiguresAssumption, NEW held, Facts(held), NEW c \in DOMAIN Flows, NEW cap, NEW today \in Nat,
           NEW r, r = RatioFor(held, c, cap, today), r # Absent
    PROVE  OfOnePeriod(held, c, r)
<1>1. PICK flow : flow = FlowBasis(held, Flows[c], today)
    OBVIOUS
<1>2. r = RatioWith(held, c, cap, flow, today)
    BY <1>1 DEF RatioFor
<1>3. /\ flow # NoBasis /\ r.basis = flow.kind /\ r.end = flow.end
      /\ c = "gross_margin" => r.value = <<flow.value["gross_profit"], flow.value["revenue"]>>
      /\ c = "roe" =>
            /\ BalanceAt(held, Balances["roe"], flow.end) # NoBasis
            /\ r.value = <<flow.value["net_income"],
                           BalanceAt(held, Balances["roe"], flow.end).value["stockholders_equity"]>>
    <2>1. RatioTruly(held, c, flow, r)
        BY <1>2, RatioIs
    <2> QED  BY <2>1 DEF RatioTruly
<1>4. FlowTruly(held, Flows[c], flow)
    BY <1>1, <1>3, FlowIs
<1>5. PICK ends \in SUBSET EndsOf(held) :
        LET type == IF flow.kind = "A" THEN "A" ELSE "Q"
        IN  /\ flow.end \in ends /\ \A e \in ends : e <= flow.end
            /\ IF flow.kind = "A" THEN ends = {flow.end} ELSE Twelvemonth(ends)
            /\ \A f \in Flows[c], e \in ends : \E i \in held : i.code = f /\ i.type = type /\ i.end = e
            /\ \A f \in Flows[c] : flow.value[f] = Reported(held, f, type, ends)
    BY <1>4 DEF FlowTruly, FlowOver
<1>6. PICK type : type = IF flow.kind = "A" THEN "A" ELSE "Q"
    OBVIOUS
<1>7. \A f \in Flows[c] : flow.value[f] = Reported(held, f, type, ends)
    BY <1>5, <1>6
<1>8. c = "gross_margin" =>
        r.value = <<Reported(held, "gross_profit", type, ends), Reported(held, "revenue", type, ends)>>
    <2>1. c = "gross_margin" => "gross_profit" \in Flows[c] /\ "revenue" \in Flows[c]
        BY DEF Flows
    <2> QED  BY <1>3, <1>7, <2>1
<1>9. c = "roe" => \E i \in held : /\ i.code = "stockholders_equity" /\ i.end = r.end
                                   /\ r.value = <<Reported(held, "net_income", type, ends), i.value>>
    <2>1. SUFFICES ASSUME c = "roe"
                   PROVE  \E i \in held : /\ i.code = "stockholders_equity" /\ i.end = r.end
                                          /\ r.value = <<Reported(held, "net_income", type, ends), i.value>>
        OBVIOUS
    <2>2. "net_income" \in Flows[c] /\ "stockholders_equity" \in Balances["roe"]
        BY <2>1 DEF Flows, Balances
    <2>3. PICK i \in held : /\ i.code = "stockholders_equity" /\ i.end = flow.end
                            /\ BalanceAt(held, Balances["roe"], flow.end).value["stockholders_equity"] = i.value
        BY <1>3, <2>1, <2>2, BalanceIs
    <2>4. r.value = <<Reported(held, "net_income", type, ends), i.value>>
        BY <1>3, <1>7, <2>1, <2>2, <2>3
    <2> QED  BY <1>3, <2>3, <2>4
<1>10. \A f \in Flows[c], e \in ends : \E i \in held : i.code = f /\ i.type = type /\ i.end = e
    BY <1>5, <1>6
<1>11. type = IF r.basis = "A" THEN "A" ELSE "Q"
    BY <1>3, <1>6
<1>12. /\ r.end \in ends /\ \A e \in ends : e <= r.end
       /\ IF r.basis = "A" THEN ends = {r.end} ELSE Twelvemonth(ends)
    BY <1>3, <1>5
<1>13. ends \in SUBSET {i.end : i \in held}
    BY DEF EndsOf
<1> QED  BY <1>8, <1>9, <1>10, <1>11, <1>12, <1>13 DEF OfOnePeriod

PeriodsInv ==
    /\ sum \in SeriesSums \cup PeriodSums \cup RankSums \cup BlendSums
    /\ NoRatioMixesPeriods

\* A ratio of flows is of one year or of four quarters in a row, the same for all it
\* is of, and a return is on the equity of its last day, whatever a company reported and
\* when.  (ttm_basis, flow_basis, balance_at, compute_ratios)
THEOREM PeriodsAreOne == FiguresSpec => []NoRatioMixesPeriods
<1>1. FiguresInit => PeriodsInv
    BY DEF FiguresInit, PeriodsInv, NoRatioMixesPeriods, Worked
<1>2. PeriodsInv /\ [FiguresNext]_figuresVars => PeriodsInv'
    <2> SUFFICES ASSUME PeriodsInv, [FiguresNext]_figuresVars PROVE PeriodsInv'
        OBVIOUS
    <2> USE FiguresAssumption
    <2>1. CASE WorkPeriods
        <3>1. sum.of = "periods" /\ sum' = sum /\ sum \in PeriodSums
            BY <2>1 DEF WorkPeriods, Work, PeriodsInv, FiguresAssumption
        <3>2. worked' = Ratios(sum.held, sum.industry, sum.quote, sum.today)
            BY <2>1 DEF WorkPeriods, Work
        <3>3. Facts(sum.held) /\ sum.today \in Nat
            BY <3>1 DEF Facts, FiguresAssumption
        <3>4. ASSUME NEW c \in DOMAIN worked' \cap DOMAIN Flows
              PROVE  OfOnePeriod(sum.held, c, worked'[c])
            <4>1. PICK cap : cap = MarketCap(sum.held, sum.quote, sum.today)
                OBVIOUS
            <4>2. PICK r : r = RatioFor(sum.held, c, cap, sum.today)
                OBVIOUS
            <4>3. worked'[c] = r /\ r # Absent
                BY <3>2, <4>1, <4>2 DEF Ratios
            <4>4. OfOnePeriod(sum.held, c, r)
                BY <3>3, <4>2, <4>3, OnePeriodEach
            <4> QED  BY <4>3, <4>4
        <3>5. NoRatioMixesPeriods'
            <4>1. \A c \in DOMAIN worked' \cap DOMAIN Flows : OfOnePeriod(sum', c, worked'[c]) \/ TRUE
                OBVIOUS
            <4> QED  BY <3>1, <3>4 DEF NoRatioMixesPeriods
        <3> QED  BY <3>1, <3>5 DEF PeriodsInv
    <2>2. CASE WorkSeries \/ WorkRank \/ WorkBlend
        <3>1. sum.of # "periods" /\ sum' = sum
            BY <2>2 DEF WorkSeries, WorkRank, WorkBlend, Work
        <3> QED  BY <3>1 DEF PeriodsInv, NoRatioMixesPeriods, Worked
    <2>3. CASE UNCHANGED figuresVars
        BY <2>3 DEF figuresVars, PeriodsInv, NoRatioMixesPeriods, Worked
    <2> QED  BY <2>1, <2>2, <2>3 DEF FiguresNext
<1>3. PeriodsInv => NoRatioMixesPeriods
    BY DEF PeriodsInv
<1> QED  BY <1>1, <1>2, <1>3, PTL DEF FiguresSpec

-----------------------------------------------------------------------------
(* Products of fractions.                                                  *)

\* The function that a product over S is read off.
IsProduct(g, f, S) ==
    g = [s \in SUBSET S |-> IF s = {} THEN Whole(1) ELSE Times(f[AnyOf(s)], g[s \ {AnyOf(s)}])]

LEMMA ProductIs == \A f, S : Product(f, S) = (CHOOSE g : IsProduct(g, f, S))[S]
BY Zenon DEF Product, FoldFunctionOnSet, MapThenFoldSet, IsProduct, AnyOf

\* Up to a size.
IsProductUpTo(g, f, S, n) ==
    g = [s \in SUBSET S |->
            IF Cardinality(s) > n THEN Whole(1)
            ELSE IF s = {} THEN Whole(1) ELSE Times(f[AnyOf(s)], g[s \ {AnyOf(s)}])]

LEMMA ProductExists ==
    ASSUME NEW f, NEW S, IsFiniteSet(S)
    PROVE  \E g : IsProduct(g, f, S)
<1>0. \A s \in SUBSET S : IsFiniteSet(s) /\ Cardinality(s) \in Nat /\ Cardinality(s) <= Cardinality(S)
    BY FS_Subset, FS_CardinalityType
<1> DEFINE Bad == {n \in Nat : ~\E g : IsProductUpTo(g, f, S, n)}
<1>1. SUFFICES ASSUME Bad # {} PROVE FALSE
    <2>1. Cardinality(S) \in Nat
        BY FS_CardinalityType
    <2>2. PICK g : IsProductUpTo(g, f, S, Cardinality(S))
        BY <2>1, <1>1
    <2>3. \A s \in SUBSET S : ~(Cardinality(s) > Cardinality(S))
        BY <1>0, <2>1
    <2>4. IsProduct(g, f, S)
        BY <2>2, <2>3, Zenon DEF IsProduct, IsProductUpTo
    <2>5. QED BY <2>4
<1>2. PICK n \in Bad : \A o \in Bad : n <= o
    BY <1>1, LeastOf
<1>3. CASE n = 0
    <2> DEFINE g == [s \in SUBSET S |-> Whole(1)]
    <2>1. \A s \in SUBSET S : Cardinality(s) > 0 \/ s = {}
        BY <1>0, FS_EmptySet
    <2>2. IsProductUpTo(g, f, S, 0)
        BY <2>1 DEF IsProductUpTo
    <2>3. QED BY <1>2, <1>3, <2>2
<1>4. CASE n > 0
    <2>1. n - 1 \in Nat /\ n - 1 \notin Bad
        BY <1>2, <1>4
    <2>2. PICK g : IsProductUpTo(g, f, S, n - 1)
        BY <2>1
    <2> DEFINE h == [s \in SUBSET S |->
                        IF Cardinality(s) <= n - 1 THEN g[s]
                        ELSE IF Cardinality(s) = n THEN Times(f[AnyOf(s)], g[s \ {AnyOf(s)}]) ELSE Whole(1)]
    <2>3. \A s \in SUBSET S :
              h[s] = IF Cardinality(s) <= n - 1 THEN g[s]
                     ELSE IF Cardinality(s) = n THEN Times(f[AnyOf(s)], g[s \ {AnyOf(s)}]) ELSE Whole(1)
        OBVIOUS
    <2>4. h = [s \in SUBSET S |-> h[s]]
        OBVIOUS
    <2>5. \A s \in SUBSET S :
              g[s] = IF Cardinality(s) > n - 1 THEN Whole(1)
                     ELSE IF s = {} THEN Whole(1) ELSE Times(f[AnyOf(s)], g[s \ {AnyOf(s)}])
        BY <2>2 DEF IsProductUpTo
    <2> HIDE DEF h
    <2>6. ASSUME NEW s \in SUBSET S
          PROVE  h[s] = IF Cardinality(s) > n THEN Whole(1)
                        ELSE IF s = {} THEN Whole(1) ELSE Times(f[AnyOf(s)], h[s \ {AnyOf(s)}])
        <3>1. n \in Nat /\ IsFiniteSet(s)
            BY <1>0
        <3>2. PICK k \in Nat : k = Cardinality(s)
            BY <1>0
        <3>3. h[s] = IF k <= n - 1 THEN g[s] ELSE IF k = n THEN Times(f[AnyOf(s)], g[s \ {AnyOf(s)}]) ELSE Whole(1)
            BY <2>3, <3>2, Zenon
        <3>4. g[s] = IF k > n - 1 THEN Whole(1) ELSE IF s = {} THEN Whole(1) ELSE Times(f[AnyOf(s)], g[s \ {AnyOf(s)}])
            BY <2>5, <3>2, Zenon
        <3>5. CASE s = {}
            <4>1. k = 0
                BY <3>2, <3>5, FS_EmptySet
            <4>2. QED BY <1>4, <3>1, <3>2, <3>3, <3>4, <3>5, <4>1
        <3>6. CASE s # {} /\ k <= n
            <4>1. PICK x \in s : x = AnyOf(s)
                BY <3>6, AnyOfIs
            <4>2. s \ {x} \in SUBSET S /\ Cardinality(s \ {x}) = k - 1
                BY <3>1, <3>2, Smaller
            <4>3. PICK t \in SUBSET S : t = s \ {x} /\ Cardinality(t) = k - 1
                BY <4>2
            <4>4. k - 1 <= n - 1
                BY <3>1, <3>6
            <4>5. h[t] = g[t]
                BY <2>3, <4>3, <4>4, Zenon
            <4>6. h[s] = Times(f[x], g[t])
                <5>1. k <= n - 1 => ~(k > n - 1)
                    BY <3>1
                <5>2. k <= n - 1 \/ k = n
                    BY <3>1, <3>6
                <5>3. k = n => ~(k <= n - 1)
                    BY <3>1
                <5>4. QED BY <3>3, <3>4, <3>6, <4>1, <4>3, <5>1, <5>2, <5>3, Zenon
            <4>7. ~(k > n)
                BY <3>1, <3>6
            <4>8. QED BY <3>2, <3>6, <4>1, <4>3, <4>5, <4>6, <4>7, Zenon
        <3>7. CASE k > n
            BY <3>1, <3>2, <3>3, <3>7
        <3>8. QED BY <3>1, <3>5, <3>6, <3>7
    <2>7. IsProductUpTo(h, f, S, n)
        BY <2>4, <2>6, Zenon DEF IsProductUpTo
    <2>8. QED BY <1>2, <2>7
<1>5. QED BY <1>2, <1>3, <1>4

LEMMA ProductReadOff ==
    ASSUME NEW f, NEW S, IsFiniteSet(S)
    PROVE  \E g : IsProduct(g, f, S) /\ Product(f, S) = g[S]
<1>1. \E g : IsProduct(g, f, S)
    BY ProductExists
<1>2. IsProduct(CHOOSE g : IsProduct(g, f, S), f, S)
    BY <1>1, Zenon
<1>3. QED BY <1>2, ProductIs, Zenon

\* What prices and the factors on them are.
Positive == (Nat \ {0}) \X (Nat \ {0})

LEMMA PositiveIs ==
    ASSUME NEW x \in Positive
    PROVE  \E a, b \in Nat \ {0} : x = <<a, b>>
BY DEF Positive

LEMMA TimesIs ==
    ASSUME NEW x \in Positive, NEW y \in Positive
    PROVE  Times(x, y) \in Positive
<1>1. PICK a \in Nat \ {0}, b \in Nat \ {0} : x = <<a, b>>
    BY DEF Positive
<1>2. PICK c \in Nat \ {0}, d \in Nat \ {0} : y = <<c, d>>
    BY DEF Positive
<1>3. Times(x, y) = <<a * c, b * d>>
    BY <1>1, <1>2 DEF Times
<1>4. a * c \in Nat \ {0} /\ b * d \in Nat \ {0}
    OBVIOUS
<1> QED  BY <1>3, <1>4 DEF Positive

LEMMA TimesSwaps ==
    ASSUME NEW x \in Positive, NEW y \in Positive, NEW z \in Positive
    PROVE  Times(x, Times(y, z)) = Times(y, Times(x, z))
<1>1. PICK a \in Int, b \in Int : x = <<a, b>>
    BY DEF Positive
<1>2. PICK c \in Int, d \in Int : y = <<c, d>>
    BY DEF Positive
<1>3. PICK e \in Int, f \in Int : z = <<e, f>>
    BY DEF Positive
<1>4. Times(x, Times(y, z)) = <<a * (c * e), b * (d * f)>>
    BY <1>1, <1>2, <1>3 DEF Times
<1>5. Times(y, Times(x, z)) = <<c * (a * e), d * (b * f)>>
    BY <1>1, <1>2, <1>3 DEF Times
<1>6. a * (c * e) = c * (a * e) /\ b * (d * f) = d * (b * f)
    OBVIOUS
<1> QED  BY <1>4, <1>5, <1>6

LEMMA TimesGroups ==
    ASSUME NEW x \in Positive, NEW y \in Positive, NEW z \in Positive
    PROVE  Times(Times(x, y), z) = Times(x, Times(y, z))
<1>1. PICK a \in Int, b \in Int : x = <<a, b>>
    BY DEF Positive
<1>2. PICK c \in Int, d \in Int : y = <<c, d>>
    BY DEF Positive
<1>3. PICK e \in Int, f \in Int : z = <<e, f>>
    BY DEF Positive
<1>4. Times(Times(x, y), z) = <<(a * c) * e, (b * d) * f>>
    BY <1>1, <1>2, <1>3 DEF Times
<1>5. Times(x, Times(y, z)) = <<a * (c * e), b * (d * f)>>
    BY <1>1, <1>2, <1>3 DEF Times
<1>6. a * (c * e) = (a * c) * e /\ b * (d * f) = (b * d) * f
    OBVIOUS
<1> QED  BY <1>4, <1>5, <1>6

LEMMA OnceIs ==
    /\ Whole(1) \in Positive
    /\ \A x \in Positive : Times(x, Whole(1)) = x /\ Times(Whole(1), x) = x
<1>1. ASSUME NEW x \in Positive PROVE Times(x, Whole(1)) = x /\ Times(Whole(1), x) = x
    <2>1. PICK a \in Int, b \in Int : x = <<a, b>>
        BY DEF Positive
    <2>2. Times(x, Whole(1)) = <<a * 1, b * 1>> /\ Times(Whole(1), x) = <<1 * a, 1 * b>>
        BY <2>1 DEF Times, Whole
    <2>3. a * 1 = a /\ b * 1 = b /\ 1 * a = a /\ 1 * b = b
        OBVIOUS
    <2> QED  BY <2>1, <2>2, <2>3
<1> QED  BY <1>1 DEF Whole, Positive

LEMMA ProductUnique ==
    ASSUME NEW f, NEW S, NEW T, NEW g, NEW h, IsProduct(g, f, S), IsProduct(h, f, T),
           NEW U \in SUBSET (S \cap T), IsFiniteSet(U)
    PROVE  g[U] = h[U]
<1> DEFINE Bad == {n \in Nat : \E s \in SUBSET U : Cardinality(s) = n /\ g[s] # h[s]}
<1>0. \A s \in SUBSET U : IsFiniteSet(s) /\ Cardinality(s) \in Nat
    BY FS_Subset, FS_CardinalityType
<1>1. SUFFICES ASSUME Bad # {} PROVE FALSE
    BY <1>0, <1>1
<1>2. PICK n \in Bad : \A o \in Bad : n <= o
    BY <1>1, LeastOf
<1>3. PICK s \in SUBSET U : Cardinality(s) = n /\ g[s] # h[s]
    BY <1>2
<1>4. /\ g[s] = IF s = {} THEN Whole(1) ELSE Times(f[AnyOf(s)], g[s \ {AnyOf(s)}])
      /\ h[s] = IF s = {} THEN Whole(1) ELSE Times(f[AnyOf(s)], h[s \ {AnyOf(s)}])
    <2>1. s \in SUBSET S /\ s \in SUBSET T
        BY <1>3
    <2> QED  BY <2>1 DEF IsProduct
<1>5. s # {}
    BY <1>3, <1>4
<1>6. PICK x \in s : x = AnyOf(s)
    BY <1>5, AnyOfIs
<1>7. s \ {x} \in SUBSET U /\ Cardinality(s \ {x}) = n - 1 /\ n - 1 \in Nat
    BY <1>0, <1>3, <1>6, Smaller
<1>8. g[s \ {x}] = h[s \ {x}]
    BY <1>2, <1>7
<1> QED  BY <1>3, <1>4, <1>5, <1>6, <1>8

SplitsUp(g, f, S) ==
    \A s \in SUBSET S : g[s] \in Positive /\ \A y \in s : g[s] = Times(f[y], g[s \ {y}])

LEMMA ProductSplits ==
    ASSUME NEW f, NEW S, NEW g, IsProduct(g, f, S), IsFiniteSet(S), \A x \in S : f[x] \in Positive
    PROVE  SplitsUp(g, f, S)
<1> DEFINE Ok(s) == g[s] \in Positive /\ \A y \in s : g[s] = Times(f[y], g[s \ {y}])
           Bad == {n \in Nat : \E s \in SUBSET S : Cardinality(s) = n /\ ~Ok(s)}
<1>0. \A s \in SUBSET S : IsFiniteSet(s) /\ Cardinality(s) \in Nat
    BY FS_Subset, FS_CardinalityType
<1> HIDE DEF Ok
<1>1. SUFFICES ASSUME Bad # {} PROVE FALSE
    BY <1>0, <1>1, Zenon DEF Ok, SplitsUp
<1>2. PICK n \in Bad : \A o \in Bad : n <= o
    BY <1>1, LeastOf
<1>3. PICK s \in SUBSET S : Cardinality(s) = n /\ ~Ok(s)
    BY <1>2
<1>a. ASSUME NEW t \in SUBSET S, Cardinality(t) < n PROVE Ok(t)
    <2>1. Cardinality(t) \in Nat /\ ~(n <= Cardinality(t))
        BY <1>0, <1>2, <1>a
    <2> QED  BY <1>2, <2>1
<1>4. \A t \in SUBSET S : g[t] = IF t = {} THEN Whole(1) ELSE Times(f[AnyOf(t)], g[t \ {AnyOf(t)}])
    BY DEF IsProduct
<1>5. s # {}
    BY <1>3, <1>4, OnceIs DEF Ok
<1>6. PICK x \in s : x = AnyOf(s)
    BY <1>5, AnyOfIs
<1>7. \A y \in s : s \ {y} \in SUBSET S /\ Cardinality(s \ {y}) = n - 1
    BY <1>0, <1>3, Smaller
<1>8. \A y \in s : Ok(s \ {y})
    BY <1>2, <1>7, <1>a
<1>9. g[s] = Times(f[x], g[s \ {x}]) /\ g[s] \in Positive
    <2>1. g[s] = Times(f[x], g[s \ {x}])
        BY <1>4, <1>5, <1>6, Zenon
    <2>2. f[x] \in Positive /\ g[s \ {x}] \in Positive
        BY <1>8 DEF Ok
    <2> QED  BY <2>1, <2>2, TimesIs
<1>10. ASSUME NEW y \in s PROVE g[s] = Times(f[y], g[s \ {y}])
    <2>1. CASE y = x
        BY <1>9, <2>1
    <2>2. CASE y # x
        <3>0. x \in s \ {y} /\ y \in s \ {x}
            BY <2>2
        <3>1. g[s \ {x}] = Times(f[y], g[(s \ {x}) \ {y}])
            BY <1>8, <3>0 DEF Ok
        <3>2. g[s \ {y}] = Times(f[x], g[(s \ {y}) \ {x}])
            BY <1>8, <3>0 DEF Ok
        <3>3. PICK t \in SUBSET S : t = (s \ {x}) \ {y} /\ t = (s \ {y}) \ {x}
            OBVIOUS
        <3>4. Cardinality(t) < n
            <4>1. PICK u \in SUBSET S : u = s \ {x}
                OBVIOUS
            <4>2. IsFiniteSet(u) /\ Cardinality(u) = n - 1 /\ y \in u /\ t = u \ {y}
                BY <1>0, <1>7, <3>0, <3>3, <4>1
            <4>3. Cardinality(t) = Cardinality(u) - 1
                BY <4>2, Smaller
            <4> QED  BY <1>2, <4>2, <4>3
        <3>5. g[t] \in Positive
            BY <1>a, <3>4 DEF Ok
        <3>6. PICK v \in Positive : v = g[t]
            BY <3>5
        <3>7. f[x] \in Positive /\ f[y] \in Positive
            OBVIOUS
        <3>8. g[s] = Times(f[x], Times(f[y], v)) /\ g[s \ {y}] = Times(f[x], v)
            BY <1>9, <3>1, <3>2, <3>3, <3>6, Zenon
        <3>9. Times(f[x], Times(f[y], v)) = Times(f[y], Times(f[x], v))
            BY <3>7, TimesSwaps
        <3> QED  BY <3>8, <3>9
    <2> QED  BY <2>1, <2>2
<1> QED  BY <1>3, <1>9, <1>10 DEF Ok

\* A product over a finite set is in any order.
ProductIsOf(f, S) ==
    /\ Product(f, S) \in Positive
    /\ S = {} => Product(f, S) = Whole(1)
    /\ \A y \in S : Product(f, S) = Times(f[y], Product(f, S \ {y}))

LEMMA ProductOver ==
    ASSUME NEW f, NEW S, IsFiniteSet(S), \A x \in S : f[x] \in Positive
    PROVE  ProductIsOf(f, S)
<1>1. PICK g : IsProduct(g, f, S) /\ Product(f, S) = g[S]
    BY ProductReadOff
<1>2. \A s \in SUBSET S : g[s] \in Positive /\ \A y \in s : g[s] = Times(f[y], g[s \ {y}])
    <2>1. SplitsUp(g, f, S)
        BY <1>1, ProductSplits
    <2> QED  BY <2>1 DEF SplitsUp
<1>3. S = {} => g[S] = Whole(1)
    BY <1>1 DEF IsProduct
<1>4. ASSUME NEW y \in S PROVE g[S \ {y}] = Product(f, S \ {y})
    <2>1. IsFiniteSet(S \ {y})
        BY FS_Subset
    <2>2. PICK h : IsProduct(h, f, S \ {y}) /\ Product(f, S \ {y}) = h[S \ {y}]
        BY <2>1, ProductReadOff
    <2>3. g[S \ {y}] = h[S \ {y}]
        BY <1>1, <2>1, <2>2, ProductUnique
    <2> QED  BY <2>2, <2>3
<1> QED  BY <1>1, <1>2, <1>3, <1>4 DEF ProductIsOf

\* ... of sets that share nothing, the product of theirs.
ProductsJoin(f, S, T) == Product(f, S \cup T) = Times(Product(f, S), Product(f, T))

LEMMA ProductJoin ==
    ASSUME NEW f, NEW S, NEW T, IsFiniteSet(S), IsFiniteSet(T), S \cap T = {},
           \A x \in S \cup T : f[x] \in Positive
    PROVE  ProductsJoin(f, S, T)
<1> DEFINE Ok(t) == Product(f, S \cup t) = Times(Product(f, S), Product(f, t))
           Bad == {n \in Nat : \E t \in SUBSET T : Cardinality(t) = n /\ ~Ok(t)}
<1>1. \A t \in SUBSET T : IsFiniteSet(t) /\ Cardinality(t) \in Nat /\ IsFiniteSet(S \cup t)
    BY FS_Subset, FS_CardinalityType, FS_Union
<1>2. \A t \in SUBSET T : ProductIsOf(f, t) /\ ProductIsOf(f, S \cup t)
    <2> SUFFICES ASSUME NEW t \in SUBSET T PROVE ProductIsOf(f, t) /\ ProductIsOf(f, S \cup t)
        OBVIOUS
    <2>1. \A x \in t : f[x] \in Positive
        OBVIOUS
    <2>2. \A x \in S \cup t : f[x] \in Positive
        OBVIOUS
    <2> QED  BY <1>1, <2>1, <2>2, ProductOver
<1>3. Product(f, S) \in Positive
    <2>1. ProductIsOf(f, S)
        BY ProductOver
    <2> QED  BY <2>1 DEF ProductIsOf
<1>4. Ok(T)
    <2> SUFFICES ASSUME Bad # {} PROVE FALSE
        BY <1>1
    <2>1. PICK n \in Bad : \A o \in Bad : n <= o
        <3>1. Bad \subseteq Nat
            OBVIOUS
        <3> HIDE DEF Bad
        <3> QED  BY <3>1, LeastOf
    <2>2. PICK t \in SUBSET T : Cardinality(t) = n /\ ~Ok(t)
        OBVIOUS
    <2>3. CASE t = {}
        <3>1. Product(f, t) = Whole(1)
            BY <1>2, <2>3 DEF ProductIsOf
        <3>2. S \cup t = S
            BY <2>3
        <3>3. Times(Product(f, S), Whole(1)) = Product(f, S)
            BY <1>3, OnceIs
        <3> QED  BY <2>2, <3>1, <3>2, <3>3
    <2>4. CASE t # {}
        <3>1. PICK x \in t : TRUE
            BY <2>4
        <3>2. PICK r \in SUBSET T : r = t \ {x}
            OBVIOUS
        <3>3. Cardinality(r) = n - 1 /\ n - 1 \in Nat /\ n \in Nat
            BY <1>1, <2>2, <3>1, <3>2, Smaller
        <3>4. Ok(r)
            <4>1. n - 1 \notin Bad
                <5> HIDE DEF Bad
                <5> QED  BY <2>1, <3>3
            <4> QED  BY <3>3, <4>1
        <3>5. Product(f, t) = Times(f[x], Product(f, r))
            BY <1>2, <3>1, <3>2 DEF ProductIsOf
        <3>6. Product(f, S \cup t) = Times(f[x], Product(f, S \cup r))
            <4>1. (S \cup t) \ {x} = S \cup r /\ x \in S \cup t
                BY <3>1, <3>2
            <4>2. Product(f, S \cup t) = Times(f[x], Product(f, (S \cup t) \ {x}))
                BY <1>2, <4>1 DEF ProductIsOf
            <4> QED  BY <4>1, <4>2
        <3>7. f[x] \in Positive /\ Product(f, r) \in Positive
            BY <1>2, <3>1 DEF ProductIsOf
        <3>8. Times(f[x], Times(Product(f, S), Product(f, r))) = Times(Product(f, S), Times(f[x], Product(f, r)))
            BY <1>3, <3>7, TimesSwaps
        <3> QED  BY <2>2, <3>4, <3>5, <3>6, <3>8
    <2> QED  BY <2>3, <2>4
<1> QED  BY <1>4 DEF ProductsJoin

\* Products of what is the same are the same.
LEMMA SameTimes ==
    ASSUME NEW x \in Positive, NEW y \in Positive, NEW u \in Positive, NEW v \in Positive,
           Same(x, u), Same(y, v)
    PROVE  Same(Times(x, y), Times(u, v))
<1>1. PICK a \in Nat, b \in Nat : x = <<a, b>>
    BY DEF Positive
<1>2. PICK c \in Nat, d \in Nat : y = <<c, d>>
    BY DEF Positive
<1>3. PICK e \in Nat, f \in Nat : u = <<e, f>>
    BY DEF Positive
<1>4. PICK g \in Nat, h \in Nat : v = <<g, h>>
    BY DEF Positive
<1>5. a * f = e * b /\ c * h = g * d
    BY <1>1, <1>2, <1>3, <1>4 DEF Same
<1>6. (a * c) * (f * h) = (a * f) * (c * h) /\ (e * g) * (b * d) = (e * b) * (g * d)
    OBVIOUS
<1>7. (a * c) * (f * h) = (e * g) * (b * d)
    BY <1>5, <1>6
<1>8. Times(x, y) = <<a * c, b * d>> /\ Times(u, v) = <<e * g, f * h>>
    BY <1>1, <1>2, <1>3, <1>4 DEF Times
<1> QED  BY <1>7, <1>8 DEF Same

ProductsAlike(f, e, S) == Same(Product(f, S), Product(e, S))

LEMMA ProductAlike ==
    ASSUME NEW f, NEW e, NEW S, IsFiniteSet(S),
           \A x \in S : f[x] \in Positive /\ e[x] \in Positive /\ Same(f[x], e[x])
    PROVE  ProductsAlike(f, e, S)
<1> DEFINE Bad == {n \in Nat : \E t \in SUBSET S : Cardinality(t) = n /\ ~ProductsAlike(f, e, t)}
<1>1. \A t \in SUBSET S : IsFiniteSet(t) /\ Cardinality(t) \in Nat
    BY FS_Subset, FS_CardinalityType
<1>2. \A t \in SUBSET S : ProductIsOf(f, t) /\ ProductIsOf(e, t)
    <2> SUFFICES ASSUME NEW t \in SUBSET S PROVE ProductIsOf(f, t) /\ ProductIsOf(e, t)
        OBVIOUS
    <2>1. \A x \in t : f[x] \in Positive
        OBVIOUS
    <2>2. \A x \in t : e[x] \in Positive
        OBVIOUS
    <2> QED  BY <1>1, <2>1, <2>2, ProductOver
<1> SUFFICES ASSUME Bad # {} PROVE FALSE
    BY <1>1
<1>3. PICK n \in Bad : \A o \in Bad : n <= o
    <2>1. Bad \subseteq Nat
        OBVIOUS
    <2> HIDE DEF Bad
    <2> QED  BY <2>1, LeastOf
<1>4. PICK t \in SUBSET S : Cardinality(t) = n /\ ~ProductsAlike(f, e, t)
    OBVIOUS
<1>5. CASE t = {}
    <2>1. Product(f, t) = Whole(1) /\ Product(e, t) = Whole(1)
        BY <1>2, <1>5 DEF ProductIsOf
    <2> QED  BY <1>4, <2>1 DEF ProductsAlike, Same
<1>6. CASE t # {}
    <2>1. PICK x \in t : TRUE
        BY <1>6
    <2>2. PICK r \in SUBSET S : r = t \ {x}
        OBVIOUS
    <2>3. Cardinality(r) = n - 1 /\ n - 1 \in Nat /\ n \in Nat
        BY <1>1, <1>4, <2>1, <2>2, Smaller
    <2>4. Same(Product(f, r), Product(e, r))
        <3>1. n - 1 \notin Bad
            <4> HIDE DEF Bad
            <4> QED  BY <1>3, <2>3
        <3> QED  BY <2>3, <3>1 DEF ProductsAlike
    <2>5. Product(f, t) = Times(f[x], Product(f, r)) /\ Product(e, t) = Times(e[x], Product(e, r))
        BY <1>2, <2>1, <2>2 DEF ProductIsOf
    <2>6. Product(f, r) \in Positive /\ Product(e, r) \in Positive
        BY <1>2 DEF ProductIsOf
    <2>7. f[x] \in Positive /\ e[x] \in Positive /\ Same(f[x], e[x])
        BY <2>1
    <2>8. Same(Times(f[x], Product(f, r)), Times(e[x], Product(e, r)))
        BY <2>4, <2>6, <2>7, SameTimes
    <2> QED  BY <1>4, <2>5, <2>8 DEF ProductsAlike
<1> QED  BY <1>5, <1>6

-----------------------------------------------------------------------------
(* The series of a security.                                               *)

\* What is known of the bars and the actions of one.
SeriesOk(s) ==
    /\ s.today \in Nat /\ Len(s.bars) \in Nat /\ DOMAIN s.bars = 1 .. Len(s.bars)
    /\ \A k \in DOMAIN s.bars :
          /\ s.bars[k].day \in Nat /\ s.bars[k].fetched \in Nat
          /\ s.bars[k].close \in Nat /\ s.traded[k] \in Nat
          /\ \A j \in DOMAIN s.bars : j < k => s.bars[j].day < s.bars[k].day
    /\ IsFiniteSet(s.actions)
    /\ \A a \in s.actions : a.day \in Nat /\ a.day <= s.today /\ a.amount \in Nat \ {0}

\* The last bar before an action.
LastBefore(s, a, p) ==
    /\ p \in DOMAIN s.bars /\ s.bars[p].day < a.day
    /\ p = Max({j \in DOMAIN s.bars : s.bars[j].day < a.day})
    /\ Prior(s.bars, a) = s.bars[p].close

LEMMA PriorIs ==
    ASSUME NEW s, SeriesOk(s), NEW a, NEW k \in DOMAIN s.bars, s.bars[k].day < a.day
    PROVE  \E p : LastBefore(s, a, p)
<1> DEFINE before == {j \in DOMAIN s.bars : s.bars[j].day < a.day}
<1>1. before # {} /\ before \subseteq Nat /\ IsFiniteSet(before)
    <2>1. IsFiniteSet(1 .. Len(s.bars))
        BY FS_Interval DEF SeriesOk
    <2>2. before \subseteq 1 .. Len(s.bars) /\ k \in before
        BY DEF SeriesOk
    <2> QED  BY <2>1, <2>2, FS_Subset
<1>2. Prior(s.bars, a) = IF before = {} THEN 0 ELSE s.bars[Max(before)].close
    BY DEF Prior
<1>3. PICK p : p = Max(before)
    OBVIOUS
<1>4. p \in before
    <2> HIDE DEF before
    <2> QED  BY <1>1, <1>3, LargestOf
<1> QED  BY <1>1, <1>2, <1>3, <1>4 DEF LastBefore

SplitsUpTo(s, from, to) == {a \in s.actions : a.type = "split" /\ from < a.day /\ a.day <= to}

LEMMA SplitFactorsAre ==
    ASSUME NEW s, SeriesOk(s), NEW S \in SUBSET s.actions
    PROVE  IsFiniteSet(S) /\ Product(SplitFactors(s.actions), S) \in Positive
<1>1. IsFiniteSet(S)
    BY FS_Subset DEF SeriesOk
<1>2. \A a \in S : SplitFactors(s.actions)[a] \in Positive
    BY DEF SplitFactors, SeriesOk, Positive
<1>3. ProductIsOf(SplitFactors(s.actions), S)
    BY <1>1, <1>2, ProductOver
<1> QED  BY <1>1, <1>3 DEF ProductIsOf

\* A dividend takes as much from a close as from what was traded, in whatever shares
\* both are; and it is dropped from both or from neither.
TakenAlike(s, a) ==
    /\ Dividend(s.bars, a) <=> 0 < Kept(s, a)[1]
    /\ Dividend(s.bars, a) =>
          /\ DividendFactor(s.bars, a) \in Positive /\ Kept(s, a) \in Positive
          /\ Same(DividendFactor(s.bars, a), Kept(s, a))

LEMMA DividendsAlike ==
    ASSUME NEW s, SeriesOk(s), QuotedAsFetched(s), OneScale(s),
           NEW a \in s.actions, a.type = "dividend", NEW k \in DOMAIN s.bars, s.bars[k].day < a.day
    PROVE  TakenAlike(s, a)
<1>1. PICK p : LastBefore(s, a, p)
    BY PriorIs
<1>2. /\ p \in DOMAIN s.bars /\ s.bars[p].day < a.day
      /\ p = Max({j \in DOMAIN s.bars : s.bars[j].day < a.day})
      /\ Prior(s.bars, a) = s.bars[p].close
    BY <1>1 DEF LastBefore
<1>3. PICK c, t, from, seen :
        c = s.bars[p].close /\ t = s.traded[p] /\ from = s.bars[p].day /\ seen = s.bars[p].fetched
    OBVIOUS
<1>4. c \in Nat /\ t \in Nat /\ from \in Nat /\ seen \in Nat
    BY <1>2, <1>3 DEF SeriesOk
<1>5. PICK m \in Nat \ {0} : m = a.amount
    BY DEF SeriesOk
<1>6. SplitsUpTo(s, from, seen) = SplitsUpTo(s, from, a.day)
    <2>1. ASSUME NEW b \in s.actions, b.type = "split", from < b.day
          PROVE  b.day <= seen <=> b.day <= a.day
        <3>1. (b.day <= a.day <=> b.day <= seen) \/ b.day <= from
            BY <1>2, <1>3, <2>1 DEF OneScale
        <3>2. b.day \in Nat
            BY DEF SeriesOk
        <3> QED  BY <1>4, <2>1, <3>1, <3>2
    <2> QED  BY <2>1 DEF SplitsUpTo
<1>7. PICK X : X = Product(SplitFactors(s.actions), SplitsUpTo(s, from, a.day))
    OBVIOUS
<1>8. X \in Positive
    BY <1>7, SplitFactorsAre DEF SplitsUpTo
<1>9. PICK x \in Nat \ {0}, y \in Nat \ {0} : X = <<x, y>>
    BY <1>8, PositiveIs
<1>10. Same(<<c, 1>>, <<t * x, 1 * y>>)
    <2>1. Same(Whole(c), Times(Whole(t), Splits(s.actions, from, seen)))
        BY <1>2, <1>3 DEF QuotedAsFetched
    <2>2. Splits(s.actions, from, seen) = X
        BY <1>6, <1>7 DEF Splits, SplitsUpTo
    <2>3. Times(Whole(t), X) = <<t * x, 1 * y>>
        BY <1>9 DEF Times, Whole
    <2> QED  BY <2>1, <2>2, <2>3 DEF Whole
<1>11. t * x = c * y
    <2>1. c * (1 * y) = (t * x) * 1
        BY <1>10 DEF Same
    <2>2. 1 * y = y /\ (t * x) * 1 = t * x
        BY <1>4
    <2> QED  BY <2>1, <2>2
<1>12. Scaled(s, a) = <<c * y, y>>
    <2>1. Scaled(s, a) = Times(Whole(t), Splits(s.actions, from, a.day))
        BY <1>2, <1>3 DEF Scaled
    <2>2. Splits(s.actions, from, a.day) = X
        BY <1>7 DEF Splits, SplitsUpTo
    <2>3. Times(Whole(t), X) = <<t * x, 1 * y>>
        BY <1>9 DEF Times, Whole
    <2> QED  BY <1>11, <2>1, <2>2, <2>3
<1>13. Kept(s, a) = <<c * y - m * y, c * y>>
    BY <1>5, <1>12 DEF Kept
<1>14. DividendFactor(s.bars, a) = <<c - m, c>> /\ (Dividend(s.bars, a) <=> m < c)
    BY <1>2, <1>3, <1>5 DEF DividendFactor, Dividend
<1>15. c * y - m * y = (c - m) * y
    BY <1>4
<1>16. m < c <=> 0 < (c - m) * y
    <2>1. m < c => 0 < (c - m) * y
        BY <1>4
    <2>2. ~(m < c) => ~(0 < (c - m) * y)
        <3>1. ASSUME ~(m < c) PROVE ~(0 < (c - m) * y)
            <4>1. PICK d \in Nat : d = m - c
                BY <1>4, <3>1
            <4>2. d * y \in Nat /\ c - m = -d
                BY <1>4, <4>1
            <4>3. (-d) * y = -(d * y)
                OBVIOUS
            <4> QED  BY <4>2, <4>3
        <3> QED  BY <3>1
    <2> QED  BY <2>1, <2>2
<1>17. ASSUME m < c
       PROVE  /\ <<c - m, c>> \in Positive /\ <<(c - m) * y, c * y>> \in Positive
              /\ Same(<<c - m, c>>, <<(c - m) * y, c * y>>)
    <2>1. PICK d \in Nat \ {0} : d = c - m /\ c # 0
        BY <1>4, <1>17
    <2>2. d * y \in Nat \ {0} /\ c * y \in Nat \ {0} /\ d * (c * y) = (d * y) * c
        BY <1>4, <2>1
    <2> QED  BY <1>4, <2>1, <2>2 DEF Positive, Same
<1> QED  BY <1>13, <1>14, <1>15, <1>16, <1>17 DEF TakenAlike

\* The dividends still ahead of a bar.
Still(bars, actions, k) == {a \in actions : Dividend(bars, a) /\ bars[k].day < a.day}

DividendFactors(bars, actions) == [a \in actions |-> DividendFactor(bars, a)]

IsAhead(bars, actions, g) ==
    g = [k \in 1 .. Len(bars) + 1 |->
            IF k > Len(bars) THEN Whole(1)
            ELSE Times(g[k + 1], Product(DividendFactors(bars, actions), Passed(bars, actions, k)))]

LEMMA AheadChosen == \A bars, actions : Ahead(bars, actions) = CHOOSE g : IsAhead(bars, actions, g)
BY Zenon DEF Ahead, IsAhead, DividendFactors

LEMMA StillAre ==
    ASSUME NEW s, SeriesOk(s), NEW k \in DOMAIN s.bars,
           NEW S \in SUBSET Still(s.bars, s.actions, k)
    PROVE  /\ IsFiniteSet(S) /\ \A a \in S : DividendFactors(s.bars, s.actions)[a] \in Positive
           /\ ProductIsOf(DividendFactors(s.bars, s.actions), S)
<1>1. IsFiniteSet(S)
    BY FS_Subset DEF SeriesOk, Still
<1>2. ASSUME NEW a \in S PROVE DividendFactors(s.bars, s.actions)[a] \in Positive
    <2>1. a \in s.actions /\ Dividend(s.bars, a) /\ s.bars[k].day < a.day
        BY DEF Still
    <2>2. PICK p : LastBefore(s, a, p)
        BY <2>1, PriorIs
    <2>3. PICK c \in Nat : c = Prior(s.bars, a)
        BY <2>2 DEF LastBefore, SeriesOk
    <2>4. PICK m \in Nat \ {0} : m = a.amount
        BY <2>1 DEF SeriesOk
    <2>5. m < c /\ DividendFactor(s.bars, a) = <<c - m, c>>
        BY <2>1, <2>3, <2>4 DEF Dividend, DividendFactor
    <2>6. c - m \in Nat \ {0} /\ c # 0
        BY <2>5
    <2> QED  BY <2>1, <2>5, <2>6 DEF DividendFactors, Positive
<1>3. ProductIsOf(DividendFactors(s.bars, s.actions), S)
    BY <1>1, <1>2, ProductOver
<1> QED  BY <1>1, <1>2, <1>3

\* The running product is the product of what is still ahead.
LEMMA AheadIs ==
    ASSUME NEW s, SeriesOk(s), NEW k \in DOMAIN s.bars
    PROVE  Ahead(s.bars, s.actions)[k]
           = Product(DividendFactors(s.bars, s.actions), Still(s.bars, s.actions, k))
<1> DEFINE bars == s.bars
           actions == s.actions
           F == DividendFactors(bars, actions)
           n == Len(bars)
           h == [j \in 1 .. n + 1 |-> IF j > n THEN Whole(1) ELSE Product(F, Still(bars, actions, j))]
           step(g, j) == IF j > n THEN Whole(1) ELSE Times(g[j + 1], Product(F, Passed(bars, actions, j)))
<1>1. n \in Nat /\ DOMAIN bars = 1 .. n
    BY DEF SeriesOk
<1>2. \A j \in 1 .. n + 1 : h[j] = IF j > n THEN Whole(1) ELSE Product(F, Still(bars, actions, j))
    OBVIOUS
<1>3. h = [j \in 1 .. n + 1 |-> h[j]]
    OBVIOUS
<1> HIDE DEF h, F
<1>4. ASSUME NEW j \in 1 .. n + 1 PROVE h[j] = step(h, j)
    <2>1. CASE j > n
        BY <1>2, <2>1
    <2>2. CASE j = n
        <3>1. j \in DOMAIN bars /\ ~(j > n)
            BY <1>1, <2>2
        <3>2. Passed(bars, actions, j) = Still(bars, actions, j)
            BY <2>2 DEF Passed, Still
        <3>3. h[j + 1] = Whole(1)
            BY <1>1, <1>2, <2>2
        <3>4. Product(F, Still(bars, actions, j)) \in Positive
            BY <3>1, StillAre DEF ProductIsOf, F
        <3>5. Times(Whole(1), Product(F, Still(bars, actions, j))) = Product(F, Still(bars, actions, j))
            BY <3>4, OnceIs
        <3> QED  BY <1>2, <3>1, <3>2, <3>3, <3>5
    <2>3. CASE j < n
        <3>0. PICK i : i = j + 1
            OBVIOUS
        <3>1. j \in DOMAIN bars /\ i \in DOMAIN bars /\ ~(j > n) /\ ~(i > n) /\ j # n /\ j < i
            BY <1>1, <2>3, <3>0
        <3>2. bars[j].day < bars[i].day /\ bars[j].day \in Nat /\ bars[i].day \in Nat
            BY <3>1 DEF SeriesOk
        <3>3. \A a \in actions : a.day \in Nat
            BY DEF SeriesOk
        <3>4. PICK S, T : S = Still(bars, actions, i) /\ T = Passed(bars, actions, j)
            OBVIOUS
        <3>5. Still(bars, actions, j) = S \cup T /\ S \cap T = {}
            <4>1. \A a \in actions : a \in T <=> Dividend(bars, a) /\ bars[j].day < a.day /\ a.day <= bars[i].day
                BY <3>0, <3>1, <3>4 DEF Passed
            <4>2. \A a \in actions : a \in S <=> Dividend(bars, a) /\ bars[i].day < a.day
                BY <3>4 DEF Still
            <4>3. S \subseteq actions /\ T \subseteq actions
                BY <3>4 DEF Still, Passed
            <4>4. \A a \in actions : (bars[i].day < a.day <=> ~(a.day <= bars[i].day))
                                     /\ (bars[i].day < a.day => bars[j].day < a.day)
                BY <3>2, <3>3
            <4> QED  BY <4>1, <4>2, <4>3, <4>4 DEF Still
        <3>6. IsFiniteSet(S \cup T) /\ \A a \in S \cup T : F[a] \in Positive
            BY <3>1, <3>5, StillAre DEF F
        <3>7. IsFiniteSet(T) /\ IsFiniteSet(S)
            BY <3>6, FS_Subset
        <3>8. ProductsJoin(F, S, T)
            BY <3>5, <3>6, <3>7, ProductJoin
        <3>9. h[j] = Product(F, S \cup T) /\ h[i] = Product(F, S)
            <4>1. j \in 1 .. n + 1 /\ i \in 1 .. n + 1
                BY <1>1, <3>1
            <4>2. h[j] = Product(F, Still(bars, actions, j)) /\ h[i] = Product(F, Still(bars, actions, i))
                BY <1>2, <3>1, <4>1
            <4>3. Still(bars, actions, i) = S
                BY <3>4
            <4> QED  BY <3>5, <4>2, <4>3, Zenon
        <3> QED  BY <3>0, <3>1, <3>4, <3>8, <3>9 DEF ProductsJoin
    <2> QED  BY <1>1, <2>1, <2>2, <2>3
<1>5. IsAhead(bars, actions, h)
    BY <1>3, <1>4 DEF IsAhead, F
<1>6. PICK g : g = Ahead(bars, actions)
    OBVIOUS
<1>7. IsAhead(bars, actions, g)
    BY <1>5, <1>6, AheadChosen, Zenon
<1>8. \A j \in 1 .. n + 1 : g[j] = step(g, j)
    BY <1>7 DEF IsAhead, F
<1> DEFINE Bad == {m \in Nat : m <= n /\ g[n + 1 - m] # h[n + 1 - m]}
<1>9. Bad = {}
    <2> SUFFICES ASSUME Bad # {} PROVE FALSE
        OBVIOUS
    <2>1. PICK m \in Bad : \A o \in Bad : m <= o
        <3>1. Bad \subseteq Nat
            OBVIOUS
        <3> HIDE DEF Bad
        <3> QED  BY <3>1, LeastOf
    <2>2. PICK j : j = n + 1 - m
        OBVIOUS
    <2>3. m \in Nat /\ m <= n /\ j \in 1 .. n + 1 /\ g[j] # h[j]
        BY <1>1, <2>1, <2>2
    <2>4. CASE m = 0
        <3>1. j > n
            BY <1>1, <2>2, <2>4
        <3> QED  BY <1>4, <1>8, <2>3, <3>1
    <2>5. CASE m # 0
        <3>1. m - 1 \in Nat /\ m - 1 <= n /\ n + 1 - (m - 1) = j + 1 /\ ~(m <= m - 1)
            BY <1>1, <2>2, <2>3, <2>5
        <3>2. m - 1 \notin Bad
            <4> HIDE DEF Bad
            <4> QED  BY <2>1, <3>1
        <3>3. g[j + 1] = h[j + 1]
            BY <3>1, <3>2
        <3>4. step(g, j) = step(h, j)
            BY <3>3
        <3> HIDE DEF step
        <3> QED  BY <1>4, <1>8, <2>3, <3>4
    <2> QED  BY <2>4, <2>5
<1>10. g[k] = h[k]
    <2>1. k \in 1 .. n
        BY <1>1
    <2>2. PICK m \in Nat : m <= n /\ k = n + 1 - m
        <3>1. n + 1 - k \in Nat /\ n + 1 - k <= n /\ k = n + 1 - (n + 1 - k)
            BY <1>1, <2>1
        <3> QED  BY <3>1
    <2> QED  BY <1>9, <2>2
<1>11. h[k] = Product(F, Still(bars, actions, k))
    <2>1. k \in 1 .. n + 1 /\ ~(k > n)
        BY <1>1
    <2> QED  BY <1>2, <2>1
<1> QED  BY <1>6, <1>10, <1>11 DEF F

\* What is due on a bar, and what it was quoted in already, are all its splits.
LEMMA PriceIsAlike ==
    ASSUME NEW c \in Positive, NEW t \in Positive, NEW A \in Positive, NEW B \in Positive,
           NEW R \in Positive, NEW U \in Positive, Same(c, Times(t, R)), Same(A, B)
    PROVE  Same(Times(c, Times(A, U)), Times(Times(t, Times(R, U)), B))
<1>1. /\ Times(t, R) \in Positive /\ Times(R, U) \in Positive /\ Times(A, U) \in Positive
      /\ Times(B, U) \in Positive /\ Times(U, B) \in Positive
    BY TimesIs
<1>2. Same(U, U)
    BY DEF Same
<1>3. Same(Times(A, U), Times(B, U))
    BY <1>2, SameTimes
<1>4. Times(B, U) = Times(U, B)
    <2>1. PICK a \in Int, b \in Int : B = <<a, b>>
        BY DEF Positive
    <2>2. PICK d \in Int, e \in Int : U = <<d, e>>
        BY DEF Positive
    <2>3. Times(B, U) = <<a * d, b * e>> /\ Times(U, B) = <<d * a, e * b>>
        BY <2>1, <2>2 DEF Times
    <2>4. a * d = d * a /\ b * e = e * b
        OBVIOUS
    <2> QED  BY <2>3, <2>4
<1>5. Same(Times(c, Times(A, U)), Times(Times(t, R), Times(U, B)))
    BY <1>1, <1>3, <1>4, SameTimes
<1>6. Times(t, Times(R, U)) = Times(Times(t, R), U)
    BY TimesGroups
<1>7. Times(Times(Times(t, R), U), B) = Times(Times(t, R), Times(U, B))
    BY <1>1, TimesGroups
<1> QED  BY <1>5, <1>6, <1>7

\* What was worth nothing is worth nothing, in whatever shares.
LEMMA NothingIsAlike ==
    ASSUME NEW c \in Nat, NEW t \in Nat, NEW R \in Positive, c = 0 \/ t = 0,
           Same(Whole(c), Times(Whole(t), R)), NEW X \in Positive, NEW Y \in Positive, NEW B \in Positive
    PROVE  Same(Times(Whole(c), X), Times(Times(Whole(t), Y), B))
<1>1. PICK r \in Nat \ {0}, q \in Nat \ {0} : R = <<r, q>>
    BY PositiveIs
<1>2. c * (1 * q) = (t * r) * 1
    BY <1>1 DEF Same, Times, Whole
<1>3. c = 0 /\ t = 0
    <2>1. c * q = t * r
        BY <1>2
    <2>2. c # 0 => c * q # 0
        OBVIOUS
    <2>3. t # 0 => t * r # 0
        OBVIOUS
    <2> QED  BY <2>1, <2>2, <2>3
<1>4. PICK a \in Nat, b \in Nat : X = <<a, b>>
    BY PositiveIs
<1>5. PICK d \in Nat, e \in Nat : Y = <<d, e>>
    BY PositiveIs
<1>6. PICK f \in Nat, g \in Nat : B = <<f, g>>
    BY PositiveIs
<1>7. Times(Whole(c), X) = <<0, b>> /\ Times(Whole(t), Y) = <<0, e>>
    BY <1>3, <1>4, <1>5 DEF Times, Whole
<1>8. Times(<<0, e>>, B) = <<0, e * g>>
    BY <1>6 DEF Times
<1> QED  BY <1>7, <1>8 DEF Same

LEMMA ClosesAre ==
    ASSUME NEW s, SeriesOk(s), QuotedAsFetched(s), OneScale(s), NEW k \in DOMAIN s.bars
    PROVE  Same(AdjustedCloses(s.bars, s.actions)[k], TotalReturn(s, k))
<1> DEFINE SF == SplitFactors(s.actions)
           F == DividendFactors(s.bars, s.actions)
           K == [a \in s.actions |-> Kept(s, a)]
           due == {a \in s.actions : SplitStillDue(s.bars[k], a)}
           quoted == SplitsUpTo(s, s.bars[k].day, s.bars[k].fetched)
           all == SplitsUpTo(s, s.bars[k].day, s.today)
           ahead == Still(s.bars, s.actions, k)
           paid == {a \in s.actions : /\ a.type = "dividend" /\ s.bars[k].day < a.day
                                      /\ 0 < Kept(s, a)[1]}
<1>1. PICK c, t : c = Whole(s.bars[k].close) /\ t = Whole(s.traded[k])
    OBVIOUS
<1>2. s.bars[k].close \in Nat /\ s.traded[k] \in Nat
    BY DEF SeriesOk
<1>3. AdjustedCloses(s.bars, s.actions)[k] = Times(c, Times(Product(F, ahead), Product(SF, due)))
    <2>1. AdjustedCloses(s.bars, s.actions)[k] = Times(c, Times(Ahead(s.bars, s.actions)[k], Product(SF, due)))
        BY <1>1 DEF AdjustedCloses
    <2>2. Ahead(s.bars, s.actions)[k] = Product(F, ahead)
        BY AheadIs
    <2> QED  BY <2>1, <2>2
<1>4. TotalReturn(s, k) = Times(Times(t, Product(SF, all)), Product(K, paid))
    BY <1>1 DEF TotalReturn, Splits, SplitsUpTo
<1>5. Same(c, Times(t, Product(SF, quoted)))
    BY <1>1 DEF QuotedAsFetched, Splits, SplitsUpTo
<1>6. all = quoted \cup due /\ quoted \cap due = {}
    <2>1. s.bars[k].fetched \in Nat /\ s.bars[k].day \in Nat
        BY DEF SeriesOk
    <2>2. \A a \in s.actions : a.day \in Nat /\ a.day <= s.today
        BY DEF SeriesOk
    <2>3. \A a \in s.actions : s.bars[k].fetched < a.day <=> ~(a.day <= s.bars[k].fetched)
        BY <2>1, <2>2
    <2>4. \A a \in s.actions : a.day > s.bars[k].day <=> s.bars[k].day < a.day
        BY <2>1, <2>2
    <2>5. \A a \in s.actions : a \in due <=> a.type = "split" /\ s.bars[k].day < a.day /\ s.bars[k].fetched < a.day
        BY <2>4 DEF SplitStillDue
    <2> QED  BY <2>2, <2>3, <2>5 DEF SplitsUpTo
<1>7. /\ IsFiniteSet(quoted) /\ IsFiniteSet(due)
      /\ Product(SF, quoted) \in Positive /\ Product(SF, due) \in Positive
    BY SplitFactorsAre DEF SplitsUpTo
<1>8. Product(SF, all) = Times(Product(SF, quoted), Product(SF, due))
    <2>1. \A a \in quoted \cup due : SF[a] \in Positive
        BY DEF SplitsUpTo, SplitFactors, SeriesOk, Positive
    <2> HIDE DEF SF, quoted, due, all
    <2>2. ProductsJoin(SF, quoted, due)
        BY <1>6, <1>7, <2>1, ProductJoin
    <2> QED  BY <1>6, <2>2 DEF ProductsJoin
<1>9. \A a \in s.actions : a.type = "dividend" /\ s.bars[k].day < a.day => TakenAlike(s, a)
    BY DividendsAlike
<1>10. paid = ahead
    BY <1>9 DEF TakenAlike, Still, Dividend
<1>11. IsFiniteSet(ahead) /\ \A a \in ahead : F[a] \in Positive /\ K[a] \in Positive /\ Same(F[a], K[a])
    <2>1. IsFiniteSet(ahead) /\ \A a \in ahead : F[a] \in Positive
        BY StillAre
    <2>2. ASSUME NEW a \in ahead PROVE K[a] \in Positive /\ Same(F[a], K[a])
        <3>1. a \in s.actions /\ Dividend(s.bars, a) /\ s.bars[k].day < a.day /\ a.type = "dividend"
            BY DEF Still, Dividend
        <3>2. K[a] = Kept(s, a) /\ F[a] = DividendFactor(s.bars, a)
            BY <3>1 DEF DividendFactors
        <3> QED  BY <1>9, <3>1, <3>2 DEF TakenAlike
    <2> QED  BY <2>1, <2>2
<1> HIDE DEF SF, F, K, due, quoted, all, ahead, paid
<1>12. Same(Product(F, ahead), Product(K, ahead))
    <2>1. ProductsAlike(F, K, ahead)
        BY <1>11, ProductAlike
    <2> QED  BY <2>1 DEF ProductsAlike
<1>13. Product(F, ahead) \in Positive /\ Product(K, ahead) \in Positive
    <2>1. ProductIsOf(F, ahead)
        BY <1>11, ProductOver
    <2>2. ProductIsOf(K, ahead)
        BY <1>11, ProductOver
    <2> QED  BY <2>1, <2>2 DEF ProductIsOf
<1>14. Same(Times(c, Times(Product(F, ahead), Product(SF, due))),
            Times(Times(t, Times(Product(SF, quoted), Product(SF, due))), Product(K, ahead)))
    <2>1. CASE s.bars[k].close # 0 /\ s.traded[k] # 0
        <3>1. c \in Positive /\ t \in Positive
            BY <1>1, <1>2, <2>1 DEF Whole, Positive
        <3> QED  BY <1>5, <1>7, <1>12, <1>13, <3>1, PriceIsAlike
    <2>2. CASE s.bars[k].close = 0 \/ s.traded[k] = 0
        <3>1. /\ Times(Product(F, ahead), Product(SF, due)) \in Positive
              /\ Times(Product(SF, quoted), Product(SF, due)) \in Positive
            BY <1>7, <1>13, TimesIs
        <3> QED  BY <1>1, <1>2, <1>5, <1>7, <1>13, <2>2, <3>1, NothingIsAlike
    <2> QED  BY <2>1, <2>2
<1> QED  BY <1>3, <1>4, <1>8, <1>10, <1>14

SeriesInv ==
    /\ sum \in SeriesSums \cup PeriodSums \cup RankSums \cup BlendSums
    /\ SeriesIgnoresFetches

\* The adjusted closes of a security are its total return in today's shares, however many
\* bars, splits and dividends it has and whenever each bar was fetched, as long as a
\* dividend and the close before it are in the same shares.  (adjusted_closes)
THEOREM SeriesAreTrue == FiguresSpec => []SeriesIgnoresFetches
<1>1. FiguresInit => SeriesInv
    BY DEF FiguresInit, SeriesInv, SeriesIgnoresFetches, Worked
<1>2. SeriesInv /\ [FiguresNext]_figuresVars => SeriesInv'
    <2> SUFFICES ASSUME SeriesInv, [FiguresNext]_figuresVars PROVE SeriesInv'
        OBVIOUS
    <2>1. CASE WorkSeries
        <3>1. sum.of = "series" /\ sum' = sum /\ sum \in SeriesSums
            BY <2>1, FiguresAssumption DEF WorkSeries, Work, SeriesInv
        <3>2. worked'.closes = AdjustedCloses(sum.bars, sum.actions)
            BY <2>1 DEF WorkSeries, Work
        <3>3. SeriesOk(sum)
            <4>1. /\ sum.today \in Nat /\ Len(sum.bars) \in Nat /\ DOMAIN sum.bars = 1 .. Len(sum.bars)
                  /\ IsFiniteSet(sum.actions)
                  /\ \A a \in sum.actions : a.day \in Nat /\ a.day <= sum.today /\ a.amount \in Nat \ {0}
                BY <3>1, FiguresAssumption
            <4>2. ASSUME NEW k \in DOMAIN sum.bars
                  PROVE  /\ sum.bars[k].day \in Nat /\ sum.bars[k].fetched \in Nat
                         /\ sum.bars[k].close \in Nat /\ sum.traded[k] \in Nat
                         /\ \A j \in DOMAIN sum.bars : j < k => sum.bars[j].day < sum.bars[k].day
                BY <3>1, FiguresAssumption
            <4> QED  BY <4>1, <4>2 DEF SeriesOk
        <3>4. SeriesIgnoresFetches'
            <4>1. QuotedAsFetched(sum) /\ OneScale(sum) =>
                    \A k \in DOMAIN sum.bars : Same(worked'.closes[k], TotalReturn(sum, k))
                BY <3>2, <3>3, ClosesAre
            <4>2. sum' = sum
                BY <3>1
            <4> QED  BY <4>1, <4>2 DEF SeriesIgnoresFetches
        <3> QED  BY <3>1, <3>4 DEF SeriesInv
    <2>2. CASE WorkPeriods \/ WorkRank \/ WorkBlend
        <3>1. sum.of # "series" /\ sum' = sum
            BY <2>2, FiguresAssumption DEF WorkPeriods, WorkRank, WorkBlend, Work
        <3> QED  BY <3>1 DEF SeriesInv, SeriesIgnoresFetches, Worked
    <2>3. CASE UNCHANGED figuresVars
        BY <2>3 DEF figuresVars, SeriesInv, SeriesIgnoresFetches, Worked
    <2> QED  BY <2>1, <2>2, <2>3 DEF FiguresNext
<1>3. SeriesInv => SeriesIgnoresFetches
    BY DEF SeriesInv
<1> QED  BY <1>1, <1>2, <1>3, PTL DEF FiguresSpec
=============================================================================
