--------------------------- MODULE SkybirdProofs ----------------------------
(***************************************************************************)
(* Proofs about Skybird for every number of sessions, streams and          *)
(* supervisors, every cap and every bound.                                 *)
(***************************************************************************)
EXTENDS Skybird, FiniteSetTheorems, TLAPS

\* The stages of a tick, and those of them on one session.
OnSession == {"begin", "finish"} \cup InSession
InTick == {"tick"} \cup OnSession

\* The sessions the process may still act on in this tick, or is capturing.
InHand(s) ==
    own[s] \cup todo[s] \cup (IF pc[s] \in OnSession THEN {cur[s]} ELSE {})

\* In a tick, and the lock is still there.
Working(s) == lock = s /\ pc[s] \in InTick

\* The advisory lock is held by the one open connection.
LockInv == \A s \in Supervisors : lock = s <=> conn[s] = "open"

\* A process with no connection has no capture, and outside a tick no snapshot.
RestInv ==
    \A s \in Supervisors :
        /\ conn[s] = "none" => own[s] = {}
        /\ pc[s] = "down" => conn[s] = "none"
        /\ pc[s] \notin InTick => todo[s] = {}

\* The session a tick is on is taken from the snapshot, and in the roster once
\* it has been begun.
CurInv ==
    \A s \in Supervisors :
        /\ pc[s] \in OnSession => cur[s] \notin todo[s]
        /\ pc[s] \in InSession => cur[s] \in own[s]

\* What was not captured when the snapshot was read has not become so since:
\* only the process itself claims a row.
SnapInv ==
    \A s \in Supervisors : \A i \in todo[s] :
        (lock = s /\ snap[s][i].state \notin Captured)
            => state[i] \notin Captured

CapInv ==
    \A s \in Supervisors :
        /\ IsFiniteSet(own[s])
        /\ Cardinality(own[s]) <= MaxSessions
        /\ pc[s] = "begin" => Cardinality(own[s]) < MaxSessions

\* A captured row was begun after its last resume.
SinceInv ==
    \A s \in Supervisors : \A i \in own[s] :
        (lock = s /\ state[i] \in Captured) => run[s][i].since = resumes[i]

\* The unique index, and its consequence for what a process has in hand: the
\* rows it works from were live together.
StreamInv ==
    /\ \A i, j \in Ids : (state[i] \in Live /\ state[j] \in Live /\ i # j)
                            => stream[i] # stream[j]
    /\ \A s \in Supervisors : \A i, j \in InHand(s) :
          i # j => stream[i] # stream[j]
    /\ \A s \in Supervisors : \A i \in InHand(s) : state[i] # "absent"

\* What the holder has in hand in a tick was live when the tick began, so it
\* has not been given up on.
RestartInv ==
    /\ RestartsBounded
    /\ \A s \in Supervisors : \A i \in InHand(s) :
          Working(s) => restarts[i] <= MaxRestarts

IInv == /\ LockInv /\ RestInv /\ CurInv /\ SnapInv /\ NoOrphan /\ CapInv
        /\ SinceInv /\ StreamInv /\ RestartInv

-----------------------------------------------------------------------------
\* What every proof below has to see through: the groups of variables.
USE DEF vars, rowVars, tickVars, localVars, OtherRows

\* The records a process starts from are well typed.
LEMMA RecordTypes ==
  /\ NoRun \in Run
  /\ NoSnapshot \in Snapshot
  BY BoundsAssumption DEF NoRun, NoSnapshot, Run, Snapshot, States, Clock,
     NoClock

\* Stopping ffmpegs leaves the roster well typed.
LEMMA ReleaseType ==
  ASSUME NEW s \in Supervisors, NEW S,
         own \in [Supervisors -> SUBSET Ids],
         run \in [Supervisors -> [Ids -> Run]],
         Release(s, S)
  PROVE  /\ own' \in [Supervisors -> SUBSET Ids]
         /\ run' \in [Supervisors -> [Ids -> Run]]
  BY RecordTypes DEF Release

\* So does every change to one capture, and the claim of a new one.
LEMMA RunEdits ==
  ASSUME NEW r \in Run
  PROVE  Spawned(r) \in Run /\ Exited(r) \in Run /\ Flowed(r) \in Run
  BY BoundsAssumption DEF Run, Spawned, Exited, Flowed

\* Accounting for a chunk keeps a capture well typed.
LEMMA AccountedIsRun ==
  ASSUME NEW r \in Run, NEW e \in Reached(r)
  PROVE  Accounted(r, e) \in Run /\ e \in Clock
<1> DEFINE p == [r EXCEPT !.failures = 0]
           q == [p EXCEPT !.heard = TRUE]
<1>1. p \in Run
  BY BoundsAssumption DEF Run
<1>2. q \in Run
  <2> HIDE DEF p
  <2> QED BY <1>1 DEF Run
<1>3. e \in Clock
  BY BoundsAssumption DEF Reached, Run, Clock, NoClock
<1>4. [q EXCEPT !.until = e] \in Run
  <2> HIDE DEF q
  <2> QED BY <1>2, <1>3 DEF Run
<1> QED BY <1>3, <1>4 DEF Accounted

\* So does backing off, while there are failures left.
LEMMA BackedOffIsRun ==
  ASSUME NEW r \in Run, r.failures + 1 < MaxFailures
  PROVE  BackedOff(r) \in Run
<1>1. r.failures + 1 \in 0 .. MaxFailures - 1
  BY BoundsAssumption DEF Run
<1> QED BY <1>1 DEF Run, BackedOff

\* So does beginning one from a snapshot.
LEMMA BegunIsRun ==
  ASSUME NEW q \in Snapshot, NEW c \in Clock
  PROVE  Begun(q, c) \in Run
  BY BoundsAssumption DEF Run, Snapshot, Begun

\* store.reconcile keeps the rows well typed.
LEMMA ReconcileType ==
  ASSUME TypeOK, ReconcileRows
  PROVE  /\ state' \in [Ids -> States]
         /\ restarts' \in [Ids -> Nat]
         /\ UNCHANGED <<stream, heard, until, resumes>>
  BY DEF TypeOK, ReconcileRows, States, Live, Endings, Captured

\* _stumble keeps the roster and the verdict well typed.
LEMMA StumblesType ==
  ASSUME TypeOK, NEW s \in Supervisors, Stumbles(s)
  PROVE  /\ pc' \in [Supervisors -> Stages]
         /\ verdict' \in [Supervisors -> Endings]
         /\ own' \in [Supervisors -> SUBSET Ids]
         /\ run' \in [Supervisors -> [Ids -> Run]]
<1> DEFINE i == cur[s]
           r == run[s][i]
<1>1. r \in Run /\ r.failures \in Nat /\ MaxFailures \in Nat
  BY BoundsAssumption DEF TypeOK, Run
<1>2. CASE r.failures + 1 >= MaxFailures
  BY <1>2, ReleaseType DEF TypeOK, Stumbles, Goto, Stages, Endings
<1>3. CASE r.failures + 1 < MaxFailures
  <2>1. BackedOff(r) \in Run
    BY <1>1, <1>3, BackedOffIsRun
  <2>2. ~(r.failures + 1 >= MaxFailures)
    BY <1>1, <1>3
  <2>3. /\ run' = [run EXCEPT ![s][i] = BackedOff(r)]
        /\ Goto(s, "tick")
        /\ UNCHANGED <<own, verdict>>
    BY <2>2 DEF Stumbles
  <2>4. i \in Ids
    BY DEF TypeOK
  <2> QED BY <2>1, <2>3, <2>4 DEF TypeOK, Goto, Stages
<1> QED BY <1>1, <1>2, <1>3

\* Every step keeps every variable in its range.
LEMMA TypeStep ==
  ASSUME TypeOK, [Next]_vars
  PROVE  TypeOK'
<1>1. CASE UNCHANGED vars
  BY <1>1 DEF TypeOK, Clock, NoClock, States, Live, Endings, Captured, Stages,
     InSession
<1>2. ASSUME NEW i \in Ids, NEW st \in Streams, Create(i, st) PROVE TypeOK'
  BY <1>2 DEF TypeOK, Clock, NoClock, States, Live, Endings, Captured, Stages,
     InSession, Create
<1>3. ASSUME NEW i \in Ids, RequestStop(i) PROVE TypeOK'
  BY <1>3 DEF TypeOK, Clock, NoClock, States, Live, Endings, Captured, Stages,
     InSession, RequestStop
<1>4. ASSUME NEW i \in Ids, Pause(i) PROVE TypeOK'
  BY <1>4 DEF TypeOK, Clock, NoClock, States, Live, Endings, Captured, Stages,
     InSession, Pause
<1>5. ASSUME NEW i \in Ids, Resume(i) PROVE TypeOK'
  BY BoundsAssumption, <1>5 DEF TypeOK, Clock, NoClock, States, Live, Endings,
     Captured, Stages, InSession, Resume
<1>6. ASSUME NEW i \in Ids, Delete(i) PROVE TypeOK'
  BY <1>6 DEF TypeOK, Clock, NoClock, States, Live, Endings, Captured, Stages,
     InSession, Delete
<1>7. ASSUME NEW s \in Supervisors, Boot(s) PROVE TypeOK'
  BY <1>7 DEF TypeOK, Clock, NoClock, States, Live, Endings, Captured, Stages,
     InSession, Boot, Goto
<1>8. ASSUME NEW s \in Supervisors, Connect(s) PROVE TypeOK'
  BY <1>8 DEF TypeOK, Clock, NoClock, States, Live, Endings, Captured, Stages,
     InSession, Connect, Goto
<1>9. ASSUME NEW s \in Supervisors, Reconcile(s) PROVE TypeOK'
  BY ReconcileType, <1>9 DEF TypeOK, Clock, NoClock, States, Live, Endings,
     Captured, Stages, InSession, Reconcile, Goto
<1>10. ASSUME NEW s \in Supervisors, DropConnection(s) PROVE TypeOK'
  BY ReleaseType, RecordTypes, <1>10 DEF TypeOK, Clock, NoClock, States, Live,
     Endings, Captured, Stages, InSession, DropConnection, Goto, Forget
<1>11. ASSUME NEW s \in Supervisors, Settle(s) PROVE TypeOK'
  BY ReconcileType, <1>11 DEF TypeOK, Clock, NoClock, States, Live, Endings,
     Captured, Stages, InSession, Settle, Goto
<1>12. ASSUME NEW s \in Supervisors, Leave(s) PROVE TypeOK'
  BY ReleaseType, <1>12 DEF TypeOK, Clock, NoClock, States, Live, Endings,
     Captured, Stages, InSession, Leave, Goto, Unlocked
<1>13. ASSUME NEW s \in Supervisors, BeginTick(s) PROVE TypeOK'
  BY ReleaseType, RecordTypes, <1>13 DEF TypeOK, Clock, NoClock, States, Live,
     Endings, Captured, Stages, InSession, BeginTick, Goto, Snapshot
<1>14. ASSUME NEW s \in Supervisors, EndTick(s) PROVE TypeOK'
  BY ReleaseType, RecordTypes, <1>14 DEF TypeOK, Clock, NoClock, States, Live,
     Endings, Captured, Stages, InSession, EndTick, Goto, Forget
<1>15. ASSUME NEW s \in Supervisors, NEW i \in Ids, TickSettle(s, i)
      PROVE TypeOK'
  BY ReleaseType, RecordTypes, <1>15 DEF TypeOK, Clock, NoClock, States, Live,
     Endings, Captured, Stages, InSession, TickSettle, Reach, Goto
<1>16. ASSUME NEW s \in Supervisors, NEW i \in Ids, TickPaused(s, i)
      PROVE TypeOK'
  BY ReleaseType, RecordTypes, <1>16 DEF TypeOK, Clock, NoClock, States, Live,
     Endings, Captured, Stages, InSession, TickPaused, Reach
<1>17. ASSUME NEW s \in Supervisors, NEW i \in Ids, TickRequested(s, i)
      PROVE TypeOK'
  BY ReleaseType, RecordTypes, <1>17 DEF TypeOK, Clock, NoClock, States, Live,
     Endings, Captured, Stages, InSession, TickRequested, Reach, Goto
<1>18. ASSUME NEW s \in Supervisors, NEW i \in Ids, TickAdvance(s, i)
      PROVE TypeOK'
  BY ReleaseType, RecordTypes, <1>18 DEF TypeOK, Clock, NoClock, States, Live,
     Endings, Captured, Stages, InSession, TickAdvance, Reach, Goto
<1>19. ASSUME NEW s \in Supervisors, Begin(s) PROVE TypeOK'
  <2> DEFINE i == cur[s]
             r == Begun(snap[s][i], resumes[i])
  <2>1. i \in Ids /\ r \in Run
    BY BegunIsRun DEF TypeOK
  <2>2. CASE state[i] = "requested"
    <3>1. /\ run' = [run EXCEPT ![s][i] = r]
          /\ own' = [own EXCEPT ![s] = @ \cup {i}]
          /\ state' = [state EXCEPT ![i] = "starting"]
          /\ Goto(s, "probe")
      BY <1>19, <2>2 DEF Begin
    <3>2. /\ run' \in [Supervisors -> [Ids -> Run]]
          /\ own' \in [Supervisors -> SUBSET Ids]
          /\ state' \in [Ids -> States]
          /\ pc' \in [Supervisors -> Stages]
      <4> HIDE DEF i, r
      <4> QED BY <2>1, <3>1 DEF TypeOK, States, Live, Goto, Stages, InSession
    <3>3. UNCHANGED <<heard, until, restarts, OtherRows>>
      BY <1>19 DEF Begin
    <3> QED BY <3>2, <3>3 DEF TypeOK
  <2>3. CASE state[i] # "requested"
    BY <1>19, <2>3 DEF TypeOK, Clock, NoClock, States, Live, Endings,
       Captured, Stages, InSession, Begin, Goto
  <2> QED BY <2>2, <2>3
<1>20. ASSUME NEW s \in Supervisors, ProbeFails(s) PROVE TypeOK'
  BY <1>20 DEF TypeOK, Clock, NoClock, States, Live, Endings, Captured,
     Stages, InSession, ProbeFails, Goto
<1>21. ASSUME NEW s \in Supervisors, ProbeEnded(s) PROVE TypeOK'
  BY ReleaseType, <1>21 DEF TypeOK, Clock, NoClock, States, Live, Endings,
     Captured, Stages, InSession, ProbeEnded, Goto
<1>22. ASSUME NEW s \in Supervisors, Spawn(s) PROVE TypeOK'
  BY RunEdits, <1>22 DEF TypeOK, Clock, NoClock, States, Live, Endings,
     Captured, Stages, InSession, Spawn, Goto
<1>23. ASSUME NEW s \in Supervisors, Describe(s) PROVE TypeOK'
  BY <1>23 DEF TypeOK, Clock, NoClock, States, Live, Endings, Captured,
     Stages, InSession, Describe, Goto
<1>24. ASSUME NEW s \in Supervisors, NEW flowing \in BOOLEAN, DrainNothing(s,
      flowing) PROVE TypeOK'
  BY RunEdits, <1>24 DEF TypeOK, Clock, NoClock, States, Live, Endings,
     Captured, Stages, InSession, DrainNothing, Goto
<1>25. ASSUME NEW s \in Supervisors, DrainChunk(s) PROVE TypeOK'
  <2> DEFINE i == cur[s]
             r == run[s][i]
  <2>1. i \in Ids /\ r \in Run
    BY DEF TypeOK
  <2>5. PICK e \in Reached(r) :
        /\ run' = [run EXCEPT ![s][i] = Accounted(r, e)]
        /\ IF state[i] = "deleted"
           THEN UNCHANGED <<heard, until, restarts>>
           ELSE /\ heard' = [heard EXCEPT ![i] = TRUE]
                /\ restarts' = [restarts EXCEPT ![i] = 0]
                /\ until' = [until EXCEPT ![i] =
                       IF state[i] \in Captured THEN e ELSE @]
    BY <1>25 DEF DrainChunk
  <2>2. Accounted(r, e) \in Run /\ e \in Clock
    BY <2>1, <2>5, AccountedIsRun
  <2>3. /\ run' = [run EXCEPT ![s][i] = Accounted(r, e)]
        /\ heard' = heard \/ heard' = [heard EXCEPT ![i] = TRUE]
        /\ restarts' = restarts \/ restarts' = [restarts EXCEPT ![i] = 0]
        /\ \/ until' = until
           \/ until' = [until EXCEPT ![i] = e]
           \/ until' = [until EXCEPT ![i] = @]
    BY <2>5
  <2>4. /\ run' \in [Supervisors -> [Ids -> Run]]
        /\ heard' \in [Ids -> BOOLEAN]
        /\ restarts' \in [Ids -> Nat]
        /\ until' \in [Ids -> Clock \cup {NoClock}]
    <3> HIDE DEF i, r
    <3>1. run' \in [Supervisors -> [Ids -> Run]]
      BY <2>1, <2>2, <2>3 DEF TypeOK
    <3>2. heard' \in [Ids -> BOOLEAN]
      BY <2>1, <2>3, Zenon DEF TypeOK
    <3>3. restarts' \in [Ids -> Nat]
      BY <2>1, <2>3 DEF TypeOK
    <3>4. until' \in [Ids -> Clock \cup {NoClock}]
      BY ZenonT(30), <2>1, <2>2, <2>3 DEF TypeOK
    <3> QED BY <3>1, <3>2, <3>3, <3>4
  <2> QED BY <1>25, <2>4 DEF TypeOK, Clock, NoClock, States, Live, Endings,
     Captured, Stages, InSession, DrainChunk, Goto
<1>26. ASSUME NEW s \in Supervisors, Stumble(s) PROVE TypeOK'
  BY ReleaseType, StumblesType, <1>26 DEF TypeOK, Clock, NoClock, States,
     Live, Captured, Stages, InSession, Stumble
<1>27. ASSUME NEW s \in Supervisors, Check(s) PROVE TypeOK'
  BY ReleaseType, StumblesType, <1>27 DEF TypeOK, Clock, NoClock, States,
     Live, Endings, Captured, Stages, InSession, Check, Goto
<1>28. ASSUME NEW s \in Supervisors, Finish(s) PROVE TypeOK'
  BY <1>28 DEF TypeOK, Clock, NoClock, States, Live, Endings, Captured,
     Stages, InSession, Finish, Goto
<1>29. ASSUME NEW s \in Supervisors, LoseConnection(s) PROVE TypeOK'
  BY BoundsAssumption, <1>29 DEF TypeOK, Clock, NoClock, States, Live,
     Endings, Captured, Stages, InSession, LoseConnection, Unlocked
<1>30. ASSUME NEW s \in Supervisors, Crash(s) PROVE TypeOK'
  BY ReleaseType, RecordTypes, BoundsAssumption, <1>30 DEF TypeOK, Clock,
     NoClock, States, Live, Endings, Captured, Stages, InSession, Crash,
     Forget, Unlocked, Goto
<1>31. ASSUME NEW s \in Supervisors, Sigterm(s) PROVE TypeOK'
  BY BoundsAssumption, <1>31 DEF TypeOK, Clock, NoClock, States, Live,
     Endings, Captured, Stages, InSession, Sigterm
<1>32. ASSUME NEW s \in Supervisors, NEW i \in Ids, FfmpegExits(s, i)
      PROVE TypeOK'
  BY RunEdits, <1>32 DEF TypeOK, Clock, NoClock, States, Live, Endings,
     Captured, Stages, InSession, FfmpegExits
<1> QED BY <1>1, <1>2, <1>3, <1>4, <1>5, <1>6, <1>7, <1>8, <1>9, <1>10, <1>11,
   <1>12, <1>13, <1>14, <1>15, <1>16, <1>17, <1>18, <1>19, <1>20, <1>21,
   <1>22, <1>23, <1>24, <1>25, <1>26, <1>27, <1>28, <1>29, <1>30, <1>31,
   <1>32 DEF Next, User, Supervise, Disturb

\* The lock and the connection move together.
LEMMA LockStep ==
  ASSUME TypeOK, LockInv, [Next]_vars
  PROVE  LockInv'
<1>1. CASE UNCHANGED <<lock, conn>>
  BY <1>1 DEF LockInv
<1>2. ASSUME NEW s \in Supervisors, Boot(s) PROVE LockInv'
  BY <1>2 DEF LockInv, Boot
<1>3. ASSUME NEW s \in Supervisors, Connect(s) PROVE LockInv'
  BY <1>3, NobodyAssumption DEF TypeOK, LockInv, Connect, Goto
<1>4. ASSUME NEW s \in Supervisors, Reconcile(s) PROVE LockInv'
  BY <1>4 DEF LockInv, Reconcile
<1>5. ASSUME NEW s \in Supervisors, DropConnection(s) PROVE LockInv'
  BY <1>5, NobodyAssumption DEF TypeOK, LockInv, DropConnection, Goto, Forget
<1>6. ASSUME NEW s \in Supervisors, Settle(s) PROVE LockInv'
  BY <1>6 DEF LockInv, Settle
<1>7. ASSUME NEW s \in Supervisors, Leave(s) PROVE LockInv'
  BY <1>7, NobodyAssumption DEF TypeOK, LockInv, Leave, Goto, Unlocked
<1>8. ASSUME NEW s \in Supervisors, BeginTick(s) PROVE LockInv'
  BY <1>8 DEF LockInv, BeginTick
<1>9. ASSUME NEW s \in Supervisors, EndTick(s) PROVE LockInv'
  BY <1>9 DEF LockInv, EndTick
<1>10. ASSUME NEW s \in Supervisors, NEW i \in Ids, TickSettle(s, i)
      PROVE LockInv'
  BY <1>10 DEF LockInv, TickSettle, Reach
<1>11. ASSUME NEW s \in Supervisors, NEW i \in Ids, TickPaused(s, i)
      PROVE LockInv'
  BY <1>11 DEF LockInv, TickPaused, Reach
<1>12. ASSUME NEW s \in Supervisors, NEW i \in Ids, TickRequested(s, i)
      PROVE LockInv'
  BY <1>12 DEF LockInv, TickRequested, Reach
<1>13. ASSUME NEW s \in Supervisors, NEW i \in Ids, TickAdvance(s, i)
      PROVE LockInv'
  BY <1>13 DEF LockInv, TickAdvance, Reach
<1>14. ASSUME NEW s \in Supervisors, Begin(s) PROVE LockInv'
  BY <1>14 DEF LockInv, Begin
<1>15. ASSUME NEW s \in Supervisors, ProbeFails(s) PROVE LockInv'
  BY <1>15 DEF LockInv, ProbeFails
<1>16. ASSUME NEW s \in Supervisors, ProbeEnded(s) PROVE LockInv'
  BY <1>16 DEF LockInv, ProbeEnded
<1>17. ASSUME NEW s \in Supervisors, Spawn(s) PROVE LockInv'
  BY <1>17 DEF LockInv, Spawn
<1>18. ASSUME NEW s \in Supervisors, Describe(s) PROVE LockInv'
  BY <1>18 DEF LockInv, Describe
<1>19. ASSUME NEW s \in Supervisors, NEW flowing \in BOOLEAN, DrainNothing(s,
      flowing) PROVE LockInv'
  BY <1>19 DEF LockInv, DrainNothing
<1>20. ASSUME NEW s \in Supervisors, DrainChunk(s) PROVE LockInv'
  BY <1>20 DEF LockInv, DrainChunk
<1>21. ASSUME NEW s \in Supervisors, Stumble(s) PROVE LockInv'
  BY <1>21 DEF LockInv, Stumble
<1>22. ASSUME NEW s \in Supervisors, Check(s) PROVE LockInv'
  BY <1>22 DEF LockInv, Check
<1>23. ASSUME NEW s \in Supervisors, Finish(s) PROVE LockInv'
  BY <1>23 DEF LockInv, Finish
<1>24. ASSUME NEW s \in Supervisors, LoseConnection(s) PROVE LockInv'
  BY <1>24, NobodyAssumption DEF TypeOK, LockInv, LoseConnection, Unlocked
<1>25. ASSUME NEW s \in Supervisors, Crash(s) PROVE LockInv'
  BY <1>25, NobodyAssumption DEF TypeOK, LockInv, Crash, Forget, Unlocked, Goto
<1>26. ASSUME NEW s \in Supervisors, Sigterm(s) PROVE LockInv'
  BY <1>26 DEF LockInv, Sigterm
<1> QED BY <1>1, <1>2, <1>3, <1>4, <1>5, <1>6, <1>7, <1>8, <1>9, <1>10, <1>11,
   <1>12, <1>13, <1>14, <1>15, <1>16, <1>17, <1>18, <1>19, <1>20, <1>21,
   <1>22, <1>23, <1>24, <1>25, <1>26 DEF
     Next, User, Supervise, Disturb, Create, RequestStop, Pause, Resume,
     Delete, FfmpegExits

\* A process that has dropped its connection has dropped its captures too,
\* and one that is outside a tick has no snapshot.
LEMMA RestStep ==
  ASSUME TypeOK, RestInv, LockInv, [Next]_vars
  PROVE  RestInv'
<1>1. CASE UNCHANGED <<conn, own, pc, todo>>
  BY <1>1 DEF RestInv, InTick, OnSession, InSession
<1>2. ASSUME NEW s \in Supervisors, Boot(s) PROVE RestInv'
  BY <1>2 DEF TypeOK, RestInv, LockInv, InTick, OnSession, InSession, Release,
     Boot, Goto
<1>3. ASSUME NEW s \in Supervisors, Connect(s) PROVE RestInv'
  BY <1>3 DEF TypeOK, RestInv, LockInv, InTick, OnSession, InSession, Release,
     Connect, Goto
<1>4. ASSUME NEW s \in Supervisors, Reconcile(s) PROVE RestInv'
  BY <1>4 DEF TypeOK, RestInv, LockInv, InTick, OnSession, InSession, Release,
     Reconcile, Goto
<1>5. ASSUME NEW s \in Supervisors, DropConnection(s) PROVE RestInv'
  BY <1>5 DEF TypeOK, RestInv, LockInv, InTick, OnSession, InSession, Release,
     DropConnection, Goto, Forget
<1>6. ASSUME NEW s \in Supervisors, Settle(s) PROVE RestInv'
  BY <1>6 DEF TypeOK, RestInv, LockInv, InTick, OnSession, InSession, Release,
     Settle, Goto
<1>7. ASSUME NEW s \in Supervisors, Leave(s) PROVE RestInv'
  BY <1>7 DEF TypeOK, RestInv, LockInv, InTick, OnSession, InSession, Release,
     Leave, Goto, Unlocked
<1>8. ASSUME NEW s \in Supervisors, BeginTick(s) PROVE RestInv'
  BY <1>8 DEF TypeOK, RestInv, LockInv, InTick, OnSession, InSession, Release,
     BeginTick, Goto
<1>9. ASSUME NEW s \in Supervisors, EndTick(s) PROVE RestInv'
  BY <1>9 DEF TypeOK, RestInv, LockInv, InTick, OnSession, InSession, Release,
     EndTick, Goto, Forget
<1>10. ASSUME NEW s \in Supervisors, NEW i \in Ids, TickSettle(s, i)
      PROVE RestInv'
  BY <1>10 DEF TypeOK, RestInv, LockInv, InTick, OnSession, InSession,
     Release, TickSettle, Reach, Goto
<1>11. ASSUME NEW s \in Supervisors, NEW i \in Ids, TickPaused(s, i)
      PROVE RestInv'
  BY <1>11 DEF TypeOK, RestInv, LockInv, InTick, OnSession, InSession,
     Release, TickPaused, Reach
<1>12. ASSUME NEW s \in Supervisors, NEW i \in Ids, TickRequested(s, i)
      PROVE RestInv'
  BY <1>12 DEF TypeOK, RestInv, LockInv, InTick, OnSession, InSession,
     Release, TickRequested, Reach, Goto
<1>13. ASSUME NEW s \in Supervisors, NEW i \in Ids, TickAdvance(s, i)
      PROVE RestInv'
  BY <1>13 DEF TypeOK, RestInv, LockInv, InTick, OnSession, InSession,
     Release, TickAdvance, Reach, Goto
<1>14. ASSUME NEW s \in Supervisors, Begin(s) PROVE RestInv'
  BY ZenonT(30), <1>14 DEF TypeOK, RestInv, LockInv, InTick, OnSession, InSession,
     Release, Begin, Goto
<1>15. ASSUME NEW s \in Supervisors, ProbeFails(s) PROVE RestInv'
  BY <1>15 DEF TypeOK, RestInv, LockInv, InTick, OnSession, InSession,
     Release, ProbeFails, Goto
<1>16. ASSUME NEW s \in Supervisors, ProbeEnded(s) PROVE RestInv'
  BY <1>16 DEF TypeOK, RestInv, LockInv, InTick, OnSession, InSession,
     Release, ProbeEnded, Goto
<1>17. ASSUME NEW s \in Supervisors, Spawn(s) PROVE RestInv'
  BY <1>17 DEF TypeOK, RestInv, LockInv, InTick, OnSession, InSession,
     Release, Spawn, Goto
<1>18. ASSUME NEW s \in Supervisors, Describe(s) PROVE RestInv'
  BY <1>18 DEF TypeOK, RestInv, LockInv, InTick, OnSession, InSession,
     Release, Describe, Goto
<1>19. ASSUME NEW s \in Supervisors, NEW flowing \in BOOLEAN, DrainNothing(s,
      flowing) PROVE RestInv'
  BY <1>19 DEF TypeOK, RestInv, LockInv, InTick, OnSession, InSession,
     Release, DrainNothing, Goto
<1>20. ASSUME NEW s \in Supervisors, DrainChunk(s) PROVE RestInv'
  BY <1>20 DEF TypeOK, RestInv, LockInv, InTick, OnSession, InSession,
     Release, DrainChunk, Goto
<1>21. ASSUME NEW s \in Supervisors, Stumble(s) PROVE RestInv'
  BY <1>21 DEF TypeOK, RestInv, LockInv, InTick, OnSession, InSession,
     Release, Stumble, Stumbles, Goto
<1>22. ASSUME NEW s \in Supervisors, Check(s) PROVE RestInv'
  BY <1>22 DEF TypeOK, RestInv, LockInv, InTick, OnSession, InSession,
     Release, Check, Stumbles, Goto
<1>23. ASSUME NEW s \in Supervisors, Finish(s) PROVE RestInv'
  BY <1>23 DEF TypeOK, RestInv, LockInv, InTick, OnSession, InSession,
     Release, Finish, Goto
<1>24. ASSUME NEW s \in Supervisors, LoseConnection(s) PROVE RestInv'
  BY <1>24 DEF TypeOK, RestInv, LockInv, InTick, OnSession, InSession,
     Release, LoseConnection, Unlocked
<1>25. ASSUME NEW s \in Supervisors, Crash(s) PROVE RestInv'
  BY <1>25 DEF TypeOK, RestInv, LockInv, InTick, OnSession, InSession,
     Release, Crash, Forget, Unlocked, Goto
<1> QED BY <1>1, <1>2, <1>3, <1>4, <1>5, <1>6, <1>7, <1>8, <1>9, <1>10, <1>11,
   <1>12, <1>13, <1>14, <1>15, <1>16, <1>17, <1>18, <1>19, <1>20, <1>21,
   <1>22, <1>23, <1>24, <1>25 DEF
     Next, User, Supervise, Disturb, Create, RequestStop, Pause, Resume,
     Delete, Sigterm, FfmpegExits

\* The tick takes its session out of the snapshot before it acts on it.
LEMMA CurStep ==
  ASSUME TypeOK, CurInv, [Next]_vars
  PROVE  CurInv'
<1>1. CASE UNCHANGED <<own, pc, todo, cur>>
  BY <1>1 DEF CurInv
<1>2. ASSUME NEW s \in Supervisors, Boot(s) PROVE CurInv'
  BY <1>2 DEF TypeOK, CurInv, OnSession, InSession, Release, Boot, Goto
<1>3. ASSUME NEW s \in Supervisors, Connect(s) PROVE CurInv'
  BY <1>3 DEF TypeOK, CurInv, OnSession, InSession, Release, Connect, Goto
<1>4. ASSUME NEW s \in Supervisors, Reconcile(s) PROVE CurInv'
  BY <1>4 DEF TypeOK, CurInv, OnSession, InSession, Release, Reconcile, Goto
<1>5. ASSUME NEW s \in Supervisors, DropConnection(s) PROVE CurInv'
  BY <1>5 DEF TypeOK, CurInv, OnSession, InSession, Release, DropConnection,
     Goto, Forget
<1>6. ASSUME NEW s \in Supervisors, Settle(s) PROVE CurInv'
  BY <1>6 DEF TypeOK, CurInv, OnSession, InSession, Release, Settle, Goto
<1>7. ASSUME NEW s \in Supervisors, Leave(s) PROVE CurInv'
  BY <1>7 DEF TypeOK, CurInv, OnSession, InSession, Release, Leave, Goto,
     Unlocked
<1>8. ASSUME NEW s \in Supervisors, BeginTick(s) PROVE CurInv'
  BY <1>8 DEF TypeOK, CurInv, OnSession, InSession, Release, BeginTick, Goto
<1>9. ASSUME NEW s \in Supervisors, EndTick(s) PROVE CurInv'
  BY <1>9 DEF TypeOK, CurInv, OnSession, InSession, Release, EndTick, Goto,
     Forget
<1>10. ASSUME NEW s \in Supervisors, NEW i \in Ids, TickSettle(s, i)
      PROVE CurInv'
  BY <1>10 DEF TypeOK, CurInv, OnSession, InSession, Release, TickSettle,
     Reach, Goto
<1>11. ASSUME NEW s \in Supervisors, NEW i \in Ids, TickPaused(s, i)
      PROVE CurInv'
  BY <1>11 DEF TypeOK, CurInv, OnSession, InSession, Release, TickPaused, Reach
<1>12. ASSUME NEW s \in Supervisors, NEW i \in Ids, TickRequested(s, i)
      PROVE CurInv'
  BY <1>12 DEF TypeOK, CurInv, OnSession, InSession, Release, TickRequested,
     Reach, Goto
<1>13. ASSUME NEW s \in Supervisors, NEW i \in Ids, TickAdvance(s, i)
      PROVE CurInv'
  BY <1>13 DEF TypeOK, CurInv, OnSession, InSession, Release, TickAdvance,
     Reach, Goto
<1>14. ASSUME NEW s \in Supervisors, Begin(s) PROVE CurInv'
  BY <1>14 DEF TypeOK, CurInv, OnSession, InSession, Release, Begin, Goto
<1>15. ASSUME NEW s \in Supervisors, ProbeFails(s) PROVE CurInv'
  BY <1>15 DEF TypeOK, CurInv, OnSession, InSession, Release, ProbeFails, Goto
<1>16. ASSUME NEW s \in Supervisors, ProbeEnded(s) PROVE CurInv'
  BY <1>16 DEF TypeOK, CurInv, OnSession, InSession, Release, ProbeEnded, Goto
<1>17. ASSUME NEW s \in Supervisors, Spawn(s) PROVE CurInv'
  BY <1>17 DEF TypeOK, CurInv, OnSession, InSession, Release, Spawn, Goto
<1>18. ASSUME NEW s \in Supervisors, Describe(s) PROVE CurInv'
  BY <1>18 DEF TypeOK, CurInv, OnSession, InSession, Release, Describe, Goto
<1>19. ASSUME NEW s \in Supervisors, NEW flowing \in BOOLEAN, DrainNothing(s,
      flowing) PROVE CurInv'
  BY <1>19 DEF TypeOK, CurInv, OnSession, InSession, Release, DrainNothing,
     Goto
<1>20. ASSUME NEW s \in Supervisors, DrainChunk(s) PROVE CurInv'
  BY <1>20 DEF TypeOK, CurInv, OnSession, InSession, Release, DrainChunk, Goto
<1>21. ASSUME NEW s \in Supervisors, Stumble(s) PROVE CurInv'
  BY <1>21 DEF TypeOK, CurInv, OnSession, InSession, Release, Stumble,
     Stumbles, Goto
<1>22. ASSUME NEW s \in Supervisors, Check(s) PROVE CurInv'
  BY <1>22 DEF TypeOK, CurInv, OnSession, InSession, Release, Check, Stumbles,
     Goto
<1>23. ASSUME NEW s \in Supervisors, Finish(s) PROVE CurInv'
  BY <1>23 DEF TypeOK, CurInv, OnSession, InSession, Release, Finish, Goto
<1>24. ASSUME NEW s \in Supervisors, Crash(s) PROVE CurInv'
  BY <1>24 DEF TypeOK, CurInv, OnSession, InSession, Release, Crash, Forget,
     Unlocked, Goto
<1> QED BY <1>1, <1>2, <1>3, <1>4, <1>5, <1>6, <1>7, <1>8, <1>9, <1>10, <1>11,
   <1>12, <1>13, <1>14, <1>15, <1>16, <1>17, <1>18, <1>19, <1>20, <1>21,
   <1>22, <1>23, <1>24 DEF
     Next, User, Supervise, Disturb, Create, RequestStop, Pause, Resume,
     Delete, Unlocked, LoseConnection, Sigterm, FfmpegExits

\* Nothing but the holder's own tick makes a row captured, and a tick that has
\* claimed a row is past it.
LEMMA SnapStep ==
  ASSUME TypeOK, SnapInv, LockInv, RestInv, CurInv, [Next]_vars
  PROVE  SnapInv'
<1>1. CASE UNCHANGED <<lock, todo, snap, state>>
  BY <1>1 DEF SnapInv
<1>2. ASSUME NEW i \in Ids, NEW st \in Streams, Create(i, st) PROVE SnapInv'
  BY <1>2 DEF TypeOK, SnapInv, LockInv, RestInv, CurInv, InTick, OnSession,
     States, Live, Endings, Captured, Create
<1>3. ASSUME NEW i \in Ids, RequestStop(i) PROVE SnapInv'
  BY <1>3 DEF TypeOK, SnapInv, LockInv, RestInv, CurInv, InTick, OnSession,
     States, Live, Endings, Captured, RequestStop
<1>4. ASSUME NEW i \in Ids, Pause(i) PROVE SnapInv'
  BY <1>4 DEF TypeOK, SnapInv, LockInv, RestInv, CurInv, InTick, OnSession,
     States, Live, Endings, Captured, Pause
<1>5. ASSUME NEW i \in Ids, Resume(i) PROVE SnapInv'
  BY <1>5 DEF TypeOK, SnapInv, LockInv, RestInv, CurInv, InTick, OnSession,
     States, Live, Endings, Captured, Resume
<1>6. ASSUME NEW i \in Ids, Delete(i) PROVE SnapInv'
  BY <1>6 DEF TypeOK, SnapInv, LockInv, RestInv, CurInv, InTick, OnSession,
     States, Live, Endings, Captured, Delete
<1>7. ASSUME NEW s \in Supervisors, Connect(s) PROVE SnapInv'
  BY <1>7 DEF TypeOK, SnapInv, LockInv, RestInv, CurInv, InTick, OnSession,
     States, Live, Endings, Captured, Connect, Goto
<1>8. ASSUME NEW s \in Supervisors, Reconcile(s) PROVE SnapInv'
  BY <1>8 DEF TypeOK, SnapInv, LockInv, RestInv, CurInv, InTick, OnSession,
     States, Live, Endings, Captured, ReconcileRows, Reconcile, Goto
<1>9. ASSUME NEW s \in Supervisors, DropConnection(s) PROVE SnapInv'
  BY <1>9 DEF TypeOK, SnapInv, LockInv, RestInv, CurInv, InTick, OnSession,
     States, Live, Endings, Captured, Release, DropConnection, Goto, Forget
<1>10. ASSUME NEW s \in Supervisors, Settle(s) PROVE SnapInv'
  BY <1>10 DEF TypeOK, SnapInv, LockInv, RestInv, CurInv, InTick, OnSession,
     States, Live, Endings, Captured, ReconcileRows, Settle, Goto
<1>11. ASSUME NEW s \in Supervisors, Leave(s) PROVE SnapInv'
  BY <1>11, NobodyAssumption DEF TypeOK, SnapInv, LockInv, RestInv, CurInv,
     InTick, OnSession, States, Live, Endings, Captured, Release, Leave, Goto,
     Unlocked
<1>12. ASSUME NEW s \in Supervisors, BeginTick(s) PROVE SnapInv'
  BY <1>12 DEF TypeOK, SnapInv, LockInv, RestInv, CurInv, InTick, OnSession,
     States, Live, Endings, Captured, Release, BeginTick, Goto
<1>13. ASSUME NEW s \in Supervisors, EndTick(s) PROVE SnapInv'
  BY <1>13 DEF TypeOK, SnapInv, LockInv, RestInv, CurInv, InTick, OnSession,
     States, Live, Endings, Captured, EndTick, Goto, Forget
<1>14. ASSUME NEW s \in Supervisors, NEW i \in Ids, TickSettle(s, i)
      PROVE SnapInv'
  BY <1>14 DEF TypeOK, SnapInv, LockInv, RestInv, CurInv, InTick, OnSession,
     States, Live, Endings, Captured, Release, TickSettle, Reach, Goto
<1>15. ASSUME NEW s \in Supervisors, NEW i \in Ids, TickPaused(s, i)
      PROVE SnapInv'
  BY <1>15 DEF TypeOK, SnapInv, LockInv, RestInv, CurInv, InTick, OnSession,
     States, Live, Endings, Captured, Release, TickPaused, Reach
<1>16. ASSUME NEW s \in Supervisors, NEW i \in Ids, TickRequested(s, i)
      PROVE SnapInv'
  BY <1>16 DEF TypeOK, SnapInv, LockInv, RestInv, CurInv, InTick, OnSession,
     States, Live, Endings, Captured, Release, TickRequested, Reach, Goto
<1>17. ASSUME NEW s \in Supervisors, NEW i \in Ids, TickAdvance(s, i)
      PROVE SnapInv'
  BY <1>17 DEF TypeOK, SnapInv, LockInv, RestInv, CurInv, InTick, OnSession,
     States, Live, Endings, Captured, TickAdvance, Reach, Goto
<1>18. ASSUME NEW s \in Supervisors, Begin(s) PROVE SnapInv'
  BY <1>18 DEF TypeOK, SnapInv, LockInv, RestInv, CurInv, InTick, OnSession,
     States, Live, Endings, Captured, Begin, Goto
<1>19. ASSUME NEW s \in Supervisors, Describe(s) PROVE SnapInv'
  BY <1>19 DEF TypeOK, SnapInv, LockInv, RestInv, CurInv, InTick, OnSession,
     States, Live, Endings, Captured, Describe, Goto
<1>20. ASSUME NEW s \in Supervisors, DrainChunk(s) PROVE SnapInv'
  BY <1>20 DEF TypeOK, SnapInv, LockInv, RestInv, CurInv, InTick, OnSession,
     States, Live, Endings, Captured, DrainChunk, Goto
<1>21. ASSUME NEW s \in Supervisors, Stumble(s) PROVE SnapInv'
  BY <1>21 DEF TypeOK, SnapInv, LockInv, RestInv, CurInv, InTick, OnSession,
     States, Live, Endings, Captured, Release, Stumble, Stumbles, Goto
<1>22. ASSUME NEW s \in Supervisors, Check(s) PROVE SnapInv'
  BY <1>22 DEF TypeOK, SnapInv, LockInv, RestInv, CurInv, InTick, OnSession,
     States, Live, Endings, Captured, Release, Check, Stumbles, Goto
<1>23. ASSUME NEW s \in Supervisors, Finish(s) PROVE SnapInv'
  BY <1>23 DEF TypeOK, SnapInv, LockInv, RestInv, CurInv, InTick, OnSession,
     States, Live, Endings, Captured, Finish, Goto
<1>24. ASSUME NEW s \in Supervisors, LoseConnection(s) PROVE SnapInv'
  BY <1>24, NobodyAssumption DEF TypeOK, SnapInv, LockInv, RestInv, CurInv,
     InTick, OnSession, States, Live, Endings, Captured, LoseConnection,
     Unlocked
<1>25. ASSUME NEW s \in Supervisors, Crash(s) PROVE SnapInv'
  BY <1>25, NobodyAssumption DEF TypeOK, SnapInv, LockInv, RestInv, CurInv,
     InTick, OnSession, States, Live, Endings, Captured, Release, Crash,
     Forget, Unlocked, Goto
<1> QED BY <1>1, <1>2, <1>3, <1>4, <1>5, <1>6, <1>7, <1>8, <1>9, <1>10, <1>11,
   <1>12, <1>13, <1>14, <1>15, <1>16, <1>17, <1>18, <1>19, <1>20, <1>21,
   <1>22, <1>23, <1>24, <1>25 DEF
     Next, User, Supervise, Disturb, Boot, ProbeFails, ProbeEnded, Spawn,
     DrainNothing, Sigterm, FfmpegExits

\* A row becomes captured by Begin, which takes it into the roster, and leaves
\* the roster only by way of finish, or with the lock.
LEMMA NoOrphanStep ==
  ASSUME TypeOK, SnapInv, LockInv, RestInv, CurInv, NoOrphan, [Next]_vars
  PROVE  NoOrphan'
<1>1. CASE UNCHANGED <<lock, pc, state, own, cur>>
  BY <1>1 DEF NoOrphan
<1>2. ASSUME NEW i \in Ids, NEW st \in Streams, Create(i, st) PROVE NoOrphan'
  BY <1>2 DEF TypeOK, SnapInv, LockInv, RestInv, CurInv, NoOrphan, InTick,
     OnSession, InSession, States, Live, Endings, Captured, Create
<1>3. ASSUME NEW i \in Ids, RequestStop(i) PROVE NoOrphan'
  BY <1>3 DEF TypeOK, SnapInv, LockInv, RestInv, CurInv, NoOrphan, InTick,
     OnSession, InSession, States, Live, Endings, Captured, RequestStop
<1>4. ASSUME NEW i \in Ids, Pause(i) PROVE NoOrphan'
  BY <1>4 DEF TypeOK, SnapInv, LockInv, RestInv, CurInv, NoOrphan, InTick,
     OnSession, InSession, States, Live, Endings, Captured, Pause
<1>5. ASSUME NEW i \in Ids, Resume(i) PROVE NoOrphan'
  BY <1>5 DEF TypeOK, SnapInv, LockInv, RestInv, CurInv, NoOrphan, InTick,
     OnSession, InSession, States, Live, Endings, Captured, Resume
<1>6. ASSUME NEW i \in Ids, Delete(i) PROVE NoOrphan'
  BY <1>6 DEF TypeOK, SnapInv, LockInv, RestInv, CurInv, NoOrphan, InTick,
     OnSession, InSession, States, Live, Endings, Captured, Delete
<1>7. ASSUME NEW s \in Supervisors, Boot(s) PROVE NoOrphan'
  BY <1>7 DEF TypeOK, SnapInv, LockInv, RestInv, CurInv, NoOrphan, InTick,
     OnSession, InSession, States, Live, Endings, Captured, Boot, Goto
<1>8. ASSUME NEW s \in Supervisors, Connect(s) PROVE NoOrphan'
  BY <1>8 DEF TypeOK, SnapInv, LockInv, RestInv, CurInv, NoOrphan, InTick,
     OnSession, InSession, States, Live, Endings, Captured, Connect, Goto
<1>9. ASSUME NEW s \in Supervisors, Reconcile(s) PROVE NoOrphan'
  BY <1>9 DEF TypeOK, SnapInv, LockInv, RestInv, CurInv, NoOrphan, InTick,
     OnSession, InSession, States, Live, Endings, Captured, ReconcileRows,
     Reconcile, Goto
<1>10. ASSUME NEW s \in Supervisors, DropConnection(s) PROVE NoOrphan'
  BY <1>10 DEF TypeOK, SnapInv, LockInv, RestInv, CurInv, NoOrphan, InTick,
     OnSession, InSession, States, Live, Endings, Captured, Release,
     DropConnection, Goto, Forget
<1>11. ASSUME NEW s \in Supervisors, Settle(s) PROVE NoOrphan'
  BY <1>11 DEF TypeOK, SnapInv, LockInv, RestInv, CurInv, NoOrphan, InTick,
     OnSession, InSession, States, Live, Endings, Captured, ReconcileRows,
     Settle, Goto
<1>12. ASSUME NEW s \in Supervisors, Leave(s) PROVE NoOrphan'
  BY <1>12, NobodyAssumption DEF TypeOK, SnapInv, LockInv, RestInv, CurInv,
     NoOrphan, InTick, OnSession, InSession, States, Live, Endings, Captured,
     Release, Leave, Goto, Unlocked
<1>13. ASSUME NEW s \in Supervisors, BeginTick(s) PROVE NoOrphan'
  BY <1>13 DEF TypeOK, SnapInv, LockInv, RestInv, CurInv, NoOrphan, InTick,
     OnSession, InSession, States, Live, Endings, Captured, Release,
     BeginTick, Goto
<1>14. ASSUME NEW s \in Supervisors, EndTick(s) PROVE NoOrphan'
  BY <1>14 DEF TypeOK, SnapInv, LockInv, RestInv, CurInv, NoOrphan, InTick,
     OnSession, InSession, States, Live, Endings, Captured, EndTick, Goto,
     Forget
<1>15. ASSUME NEW s \in Supervisors, NEW i \in Ids, TickSettle(s, i)
      PROVE NoOrphan'
  BY <1>15 DEF TypeOK, SnapInv, LockInv, RestInv, CurInv, NoOrphan, InTick,
     OnSession, InSession, States, Live, Endings, Captured, Release,
     TickSettle, Reach, Goto
<1>16. ASSUME NEW s \in Supervisors, NEW i \in Ids, TickPaused(s, i)
      PROVE NoOrphan'
  <2>1. lock = s => state[i] \notin Captured
    BY <1>16 DEF SnapInv, TickPaused, Reach, Captured
  <2> QED BY <1>16, <2>1 DEF TypeOK, NoOrphan, Release, Stages, InSession,
     TickPaused, Reach
<1>17. ASSUME NEW s \in Supervisors, NEW i \in Ids, TickRequested(s, i)
      PROVE NoOrphan'
  <2>1. lock = s => state[i] \notin Captured
    BY <1>17 DEF SnapInv, TickRequested, Reach, Captured
  <2> QED BY <1>17, <2>1 DEF TypeOK, NoOrphan, Release, Stages, InSession,
     TickRequested, Reach, Goto
<1>18. ASSUME NEW s \in Supervisors, NEW i \in Ids, TickAdvance(s, i)
      PROVE NoOrphan'
  BY <1>18 DEF TypeOK, SnapInv, LockInv, RestInv, CurInv, NoOrphan, InTick,
     OnSession, InSession, States, Live, Endings, Captured, TickAdvance,
     Reach, Goto
<1>19. ASSUME NEW s \in Supervisors, Begin(s) PROVE NoOrphan'
  BY <1>19 DEF TypeOK, SnapInv, LockInv, RestInv, CurInv, NoOrphan, InTick,
     OnSession, InSession, States, Live, Endings, Captured, Begin, Goto
<1>20. ASSUME NEW s \in Supervisors, ProbeFails(s) PROVE NoOrphan'
  BY <1>20 DEF TypeOK, SnapInv, LockInv, RestInv, CurInv, NoOrphan, InTick,
     OnSession, InSession, States, Live, Endings, Captured, ProbeFails, Goto
<1>21. ASSUME NEW s \in Supervisors, ProbeEnded(s) PROVE NoOrphan'
  BY <1>21 DEF TypeOK, SnapInv, LockInv, RestInv, CurInv, NoOrphan, InTick,
     OnSession, InSession, States, Live, Endings, Captured, Release,
     ProbeEnded, Goto
<1>22. ASSUME NEW s \in Supervisors, Spawn(s) PROVE NoOrphan'
  BY <1>22 DEF TypeOK, SnapInv, LockInv, RestInv, CurInv, NoOrphan, InTick,
     OnSession, InSession, States, Live, Endings, Captured, Spawn, Goto
<1>23. ASSUME NEW s \in Supervisors, Describe(s) PROVE NoOrphan'
  BY <1>23 DEF TypeOK, SnapInv, LockInv, RestInv, CurInv, NoOrphan, InTick,
     OnSession, InSession, States, Live, Endings, Captured, Describe, Goto
<1>24. ASSUME NEW s \in Supervisors, NEW flowing \in BOOLEAN, DrainNothing(s,
      flowing) PROVE NoOrphan'
  BY <1>24 DEF TypeOK, SnapInv, LockInv, RestInv, CurInv, NoOrphan, InTick,
     OnSession, InSession, States, Live, Endings, Captured, DrainNothing, Goto
<1>25. ASSUME NEW s \in Supervisors, DrainChunk(s) PROVE NoOrphan'
  BY <1>25 DEF TypeOK, SnapInv, LockInv, RestInv, CurInv, NoOrphan, InTick,
     OnSession, InSession, States, Live, Endings, Captured, DrainChunk, Goto
<1>26. ASSUME NEW s \in Supervisors, Stumble(s) PROVE NoOrphan'
  BY <1>26 DEF TypeOK, SnapInv, LockInv, RestInv, CurInv, NoOrphan, InTick,
     OnSession, InSession, States, Live, Endings, Captured, Release, Stumble,
     Stumbles, Goto
<1>27. ASSUME NEW s \in Supervisors, Check(s) PROVE NoOrphan'
  BY <1>27 DEF TypeOK, SnapInv, LockInv, RestInv, CurInv, NoOrphan, InTick,
     OnSession, InSession, States, Live, Endings, Captured, Release, Check,
     Stumbles, Goto
<1>28. ASSUME NEW s \in Supervisors, Finish(s) PROVE NoOrphan'
  <2>1. state'[cur[s]] \notin Captured
    BY <1>28 DEF TypeOK, Finish, Endings, Captured
  <2>2. \A i \in Ids : i # cur[s] => state'[i] = state[i]
    BY <1>28 DEF TypeOK, Finish
  <2>3. \A z \in Supervisors : z # s => pc'[z] = pc[z]
    BY <1>28 DEF TypeOK, Finish, Goto
  <2> QED BY <1>28, <2>1, <2>2, <2>3 DEF TypeOK, NoOrphan, LockInv, Finish,
     Goto
<1>29. ASSUME NEW s \in Supervisors, LoseConnection(s) PROVE NoOrphan'
  BY <1>29, NobodyAssumption DEF TypeOK, SnapInv, LockInv, RestInv, CurInv,
     NoOrphan, InTick, OnSession, InSession, States, Live, Endings, Captured,
     LoseConnection, Unlocked
<1>30. ASSUME NEW s \in Supervisors, Crash(s) PROVE NoOrphan'
  BY <1>30, NobodyAssumption DEF TypeOK, SnapInv, LockInv, RestInv, CurInv,
     NoOrphan, InTick, OnSession, InSession, States, Live, Endings, Captured,
     Release, Crash, Forget, Unlocked, Goto
<1> QED BY <1>1, <1>2, <1>3, <1>4, <1>5, <1>6, <1>7, <1>8, <1>9, <1>10, <1>11,
   <1>12, <1>13, <1>14, <1>15, <1>16, <1>17, <1>18, <1>19, <1>20, <1>21,
   <1>22, <1>23, <1>24, <1>25, <1>26, <1>27, <1>28, <1>29, <1>30 DEF
     Next, User, Supervise, Disturb, Sigterm, FfmpegExits

\* Stopping ffmpegs makes no roster larger.
LEMMA ReleaseCap ==
  ASSUME TypeOK, CapInv, NEW s \in Supervisors, NEW S, Release(s, S)
  PROVE  \A z \in Supervisors :
           /\ IsFiniteSet(own'[z])
           /\ Cardinality(own'[z]) <= Cardinality(own[z])
           /\ Cardinality(own'[z]) \in Nat /\ Cardinality(own[z]) \in Nat
           /\ z = s => Cardinality(own'[z]) = Cardinality(own[z] \ S)
<1>1. \A z \in Supervisors : own'[z] = IF z = s THEN own[z] \ S ELSE own[z]
  BY DEF TypeOK, Release
<1>2. \A z \in Supervisors : IsFiniteSet(own[z])
  BY DEF CapInv
<1> QED BY <1>1, <1>2, FS_Subset, FS_CardinalityType

\* A release alone keeps the cap, unless it goes on to begin a session.
LEMMA ReleaseKeepsCap ==
  ASSUME TypeOK, CapInv, NEW s \in Supervisors, NEW S, Release(s, S),
         \A z \in Supervisors : pc'[z] = "begin" => pc[z] = "begin"
  PROVE  CapInv'
<1>1. \A z \in Supervisors :
        /\ IsFiniteSet(own'[z])
        /\ Cardinality(own'[z]) <= Cardinality(own[z])
        /\ Cardinality(own'[z]) \in Nat /\ Cardinality(own[z]) \in Nat
  BY ReleaseCap, Zenon
<1>2. ASSUME NEW z \in Supervisors
      PROVE  /\ IsFiniteSet(own'[z])
             /\ Cardinality(own'[z]) <= MaxSessions
             /\ pc'[z] = "begin" => Cardinality(own'[z]) < MaxSessions
  <2>1. /\ Cardinality(own[z]) <= MaxSessions
        /\ pc[z] = "begin" => Cardinality(own[z]) < MaxSessions
    BY DEF CapInv
  <2> QED BY <1>1, <2>1, MaxSessionsAssumption
<1> QED BY <1>2 DEF CapInv

\* The cap is counted with the session's own old capture left out, and nothing
\* is taken into the roster between the count and the begin.
LEMMA CapStep ==
  ASSUME TypeOK, CapInv, [Next]_vars
  PROVE  CapInv'
<1>1. CASE UNCHANGED <<own, pc>>
  BY <1>1 DEF CapInv
<1>2. ASSUME NEW s \in Supervisors, Boot(s) PROVE CapInv'
  BY <1>2 DEF TypeOK, CapInv, Stages, InSession, Boot, Goto
<1>3. ASSUME NEW s \in Supervisors, Connect(s) PROVE CapInv'
  BY <1>3 DEF TypeOK, CapInv, Stages, InSession, Connect, Goto
<1>4. ASSUME NEW s \in Supervisors, Reconcile(s) PROVE CapInv'
  BY <1>4 DEF TypeOK, CapInv, Stages, InSession, Reconcile, Goto
<1>5. ASSUME NEW s \in Supervisors, DropConnection(s) PROVE CapInv'
  <2>1. Release(s, Ids)
    BY <1>5 DEF DropConnection, Reach
  <2>2. \A z \in Supervisors : pc'[z] = "begin" => pc[z] = "begin"
    BY <1>5 DEF TypeOK, Reach, DropConnection, Goto, Forget
  <2> QED BY <2>1, <2>2, ReleaseKeepsCap
<1>6. ASSUME NEW s \in Supervisors, Settle(s) PROVE CapInv'
  BY <1>6 DEF TypeOK, CapInv, Stages, InSession, Settle, Goto
<1>7. ASSUME NEW s \in Supervisors, Leave(s) PROVE CapInv'
  <2>1. Release(s, Ids)
    BY <1>7 DEF Leave, Reach
  <2>2. \A z \in Supervisors : pc'[z] = "begin" => pc[z] = "begin"
    BY <1>7 DEF TypeOK, Reach, Leave, Goto, Unlocked
  <2> QED BY <2>1, <2>2, ReleaseKeepsCap
<1>8. ASSUME NEW s \in Supervisors, BeginTick(s) PROVE CapInv'
  <2>1. Release(s, Ids \ {i \in Ids : state[i] \in Live})
    BY <1>8 DEF BeginTick, Reach
  <2>2. \A z \in Supervisors : pc'[z] = "begin" => pc[z] = "begin"
    BY <1>8 DEF TypeOK, Reach, BeginTick, Goto
  <2> QED BY <2>1, <2>2, ReleaseKeepsCap
<1>9. ASSUME NEW s \in Supervisors, EndTick(s) PROVE CapInv'
  BY <1>9 DEF TypeOK, CapInv, Stages, InSession, EndTick, Goto, Forget
<1>10. ASSUME NEW s \in Supervisors, NEW i \in Ids, TickSettle(s, i)
      PROVE CapInv'
  <2>1. Release(s, {i})
    BY <1>10 DEF TickSettle, Reach
  <2>2. \A z \in Supervisors : pc'[z] = "begin" => pc[z] = "begin"
    BY <1>10 DEF TypeOK, Reach, TickSettle, Reach, Goto
  <2> QED BY <2>1, <2>2, ReleaseKeepsCap
<1>11. ASSUME NEW s \in Supervisors, NEW i \in Ids, TickPaused(s, i)
      PROVE CapInv'
  <2>1. Release(s, {i})
    BY <1>11 DEF TickPaused, Reach
  <2>2. \A z \in Supervisors : pc'[z] = "begin" => pc[z] = "begin"
    BY <1>11 DEF TypeOK, Reach, TickPaused, Reach
  <2> QED BY <2>1, <2>2, ReleaseKeepsCap
<1>12. ASSUME NEW s \in Supervisors, NEW i \in Ids, TickRequested(s, i)
      PROVE CapInv'
  <2>1. Release(s, {i})
    BY <1>12 DEF TickRequested
  <2>2. pc'[s] = "begin" => Cardinality(own[s] \ {i}) < MaxSessions
    BY <1>12 DEF TypeOK, TickRequested, Goto
  <2>3. \A z \in Supervisors : z # s => pc'[z] = pc[z]
    BY <1>12 DEF TypeOK, TickRequested, Goto
  <2>4. \A z \in Supervisors :
          /\ IsFiniteSet(own'[z])
          /\ Cardinality(own'[z]) <= Cardinality(own[z])
          /\ Cardinality(own'[z]) \in Nat /\ Cardinality(own[z]) \in Nat
    BY <2>1, ReleaseCap, Zenon
  <2>6. Cardinality(own'[s]) = Cardinality(own[s] \ {i})
    BY <2>1, ReleaseCap, Zenon
  <2>5. ASSUME NEW z \in Supervisors
        PROVE  /\ IsFiniteSet(own'[z])
               /\ Cardinality(own'[z]) <= MaxSessions
               /\ pc'[z] = "begin" => Cardinality(own'[z]) < MaxSessions
    <3>1. /\ Cardinality(own[z]) <= MaxSessions
          /\ pc[z] = "begin" => Cardinality(own[z]) < MaxSessions
      BY DEF CapInv
    <3>2. pc'[z] = "begin" => Cardinality(own'[z]) < MaxSessions
      <4>1. CASE z = s
        BY <2>2, <2>6, <4>1
      <4>2. CASE z # s
        BY <2>3, <2>4, <3>1, <4>2, MaxSessionsAssumption
      <4> QED BY <4>1, <4>2
    <3> QED BY <2>4, <3>1, <3>2, MaxSessionsAssumption
  <2> QED BY <2>5 DEF CapInv
<1>13. ASSUME NEW s \in Supervisors, NEW i \in Ids, TickAdvance(s, i)
      PROVE CapInv'
  BY <1>13 DEF TypeOK, CapInv, Stages, InSession, TickAdvance, Reach, Goto
<1>14. ASSUME NEW s \in Supervisors, Begin(s) PROVE CapInv'
  <2>1. IsFiniteSet(own[s]) /\ Cardinality(own[s]) < MaxSessions
    BY <1>14 DEF CapInv, Begin
  <2>2. /\ IsFiniteSet(own[s] \cup {cur[s]})
        /\ Cardinality(own[s] \cup {cur[s]}) <= MaxSessions
    <3>1. Cardinality(own[s]) \in Nat
      BY <2>1, FS_CardinalityType
    <3>2. /\ IsFiniteSet(own[s] \cup {cur[s]})
          /\ Cardinality(own[s] \cup {cur[s]}) =
               IF cur[s] \in own[s] THEN Cardinality(own[s])
               ELSE Cardinality(own[s]) + 1
      BY <2>1, FS_AddElement
    <3> QED BY <2>1, <3>1, <3>2, MaxSessionsAssumption
  <2>3. own'[s] = own[s] \/ own'[s] = own[s] \cup {cur[s]}
    BY <1>14 DEF TypeOK, Begin
  <2>4. \A z \in Supervisors : z # s => own'[z] = own[z] /\ pc'[z] = pc[z]
    BY <1>14 DEF TypeOK, Begin, Goto
  <2>5. pc'[s] # "begin"
    BY <1>14 DEF TypeOK, Begin, Goto
  <2> QED BY <2>1, <2>2, <2>3, <2>4, <2>5, MaxSessionsAssumption DEF CapInv
<1>15. ASSUME NEW s \in Supervisors, ProbeFails(s) PROVE CapInv'
  BY <1>15 DEF TypeOK, CapInv, Stages, InSession, ProbeFails, Goto
<1>16. ASSUME NEW s \in Supervisors, ProbeEnded(s) PROVE CapInv'
  <2>1. Release(s, {cur[s]})
    BY <1>16 DEF ProbeEnded, Reach
  <2>2. \A z \in Supervisors : pc'[z] = "begin" => pc[z] = "begin"
    BY <1>16 DEF TypeOK, Reach, ProbeEnded, Goto
  <2> QED BY <2>1, <2>2, ReleaseKeepsCap
<1>17. ASSUME NEW s \in Supervisors, Spawn(s) PROVE CapInv'
  BY <1>17 DEF TypeOK, CapInv, Stages, InSession, Spawn, Goto
<1>18. ASSUME NEW s \in Supervisors, Describe(s) PROVE CapInv'
  BY <1>18 DEF TypeOK, CapInv, Stages, InSession, Describe, Goto
<1>19. ASSUME NEW s \in Supervisors, NEW flowing \in BOOLEAN, DrainNothing(s,
      flowing) PROVE CapInv'
  BY <1>19 DEF TypeOK, CapInv, Stages, InSession, DrainNothing, Goto
<1>20. ASSUME NEW s \in Supervisors, DrainChunk(s) PROVE CapInv'
  BY <1>20 DEF TypeOK, CapInv, Stages, InSession, DrainChunk, Goto
<1>21. ASSUME NEW s \in Supervisors, Stumble(s) PROVE CapInv'
  <2>1. Release(s, {cur[s]}) \/ own' = own
    BY <1>21 DEF Stumble, Stumbles
  <2>2. \A z \in Supervisors : pc'[z] = "begin" => pc[z] = "begin"
    BY <1>21 DEF TypeOK, Stumble, Stumbles, Goto
  <2> QED BY <2>1, <2>2, ReleaseKeepsCap DEF CapInv
<1>22. ASSUME NEW s \in Supervisors, Check(s) PROVE CapInv'
  <2>1. Release(s, {cur[s]}) \/ own' = own
    BY <1>22 DEF Check, Stumbles
  <2>2. \A z \in Supervisors : pc'[z] = "begin" => pc[z] = "begin"
    BY <1>22 DEF TypeOK, Check, Stumbles, Goto
  <2> QED BY <2>1, <2>2, ReleaseKeepsCap DEF CapInv
<1>23. ASSUME NEW s \in Supervisors, Finish(s) PROVE CapInv'
  BY <1>23 DEF TypeOK, CapInv, Stages, InSession, Finish, Goto
<1>24. ASSUME NEW s \in Supervisors, Crash(s) PROVE CapInv'
  <2>1. Release(s, Ids)
    BY <1>24 DEF Crash, Reach
  <2>2. \A z \in Supervisors : pc'[z] = "begin" => pc[z] = "begin"
    BY <1>24 DEF TypeOK, Reach, Crash, Forget, Unlocked, Goto
  <2> QED BY <2>1, <2>2, ReleaseKeepsCap
<1> QED BY <1>1, <1>2, <1>3, <1>4, <1>5, <1>6, <1>7, <1>8, <1>9, <1>10, <1>11,
   <1>12, <1>13, <1>14, <1>15, <1>16, <1>17, <1>18, <1>19, <1>20, <1>21,
   <1>22, <1>23, <1>24 DEF
     Next, User, Supervise, Disturb, Create, RequestStop, Pause, Resume,
     Delete, Unlocked, LoseConnection, Sigterm, FfmpegExits

\* What happens to a capture does not change when it was begun.
LEMMA SinceKept ==
  ASSUME NEW r \in Run
  PROVE  /\ Spawned(r).since = r.since
         /\ Exited(r).since = r.since
         /\ Flowed(r).since = r.since
         /\ \A e : Accounted(r, e).since = r.since
         /\ BackedOff(r).since = r.since
  BY DEF Run, Spawned, Exited, Flowed, Accounted, BackedOff

\* What a captured row was begun after is its last resume: a resume takes the
\* row out of capture, and only Begin takes it in again.
LEMMA SinceStep ==
  ASSUME TypeOK, LockInv, RestInv, CurInv, SinceInv, [Next]_vars
  PROVE  SinceInv'
<1>1. CASE UNCHANGED <<own, lock, state, run, resumes>>
  BY <1>1 DEF SinceInv
<1>2. ASSUME NEW i \in Ids, NEW st \in Streams, Create(i, st) PROVE SinceInv'
  BY <1>2, NobodyAssumption DEF TypeOK, SinceInv, LockInv, RestInv, CurInv,
     States, Live, Endings, Captured, Create
<1>3. ASSUME NEW i \in Ids, RequestStop(i) PROVE SinceInv'
  BY <1>3, NobodyAssumption DEF TypeOK, SinceInv, LockInv, RestInv, CurInv,
     States, Live, Endings, Captured, RequestStop
<1>4. ASSUME NEW i \in Ids, Pause(i) PROVE SinceInv'
  BY <1>4, NobodyAssumption DEF TypeOK, SinceInv, LockInv, RestInv, CurInv,
     States, Live, Endings, Captured, Pause
<1>5. ASSUME NEW i \in Ids, Resume(i) PROVE SinceInv'
  BY <1>5, NobodyAssumption DEF TypeOK, SinceInv, LockInv, RestInv, CurInv,
     States, Live, Endings, Captured, Resume
<1>6. ASSUME NEW i \in Ids, Delete(i) PROVE SinceInv'
  BY <1>6, NobodyAssumption DEF TypeOK, SinceInv, LockInv, RestInv, CurInv,
     States, Live, Endings, Captured, Delete
<1>7. ASSUME NEW s \in Supervisors, Connect(s) PROVE SinceInv'
  BY <1>7, NobodyAssumption DEF TypeOK, SinceInv, LockInv, RestInv, CurInv,
     States, Live, Endings, Captured, Connect, Goto
<1>8. ASSUME NEW s \in Supervisors, Reconcile(s) PROVE SinceInv'
  BY <1>8, NobodyAssumption DEF TypeOK, SinceInv, LockInv, RestInv, CurInv,
     States, Live, Endings, Captured, ReconcileRows,
     Reconcile, Goto
<1>9. ASSUME NEW s \in Supervisors, DropConnection(s) PROVE SinceInv'
  BY <1>9, NobodyAssumption DEF TypeOK, SinceInv, LockInv, RestInv, CurInv,
     States, Live, Endings, Captured, Release,
     DropConnection, Goto, Forget
<1>10. ASSUME NEW s \in Supervisors, Settle(s) PROVE SinceInv'
  <2>1. CASE conn[s] = "open"
    <3>1. \A i \in Ids : state'[i] \notin Captured
      BY <1>10, <2>1 DEF Settle, ReconcileRows, Captured
    <3> QED BY <1>10, <3>1 DEF TypeOK, SinceInv, Settle
  <2>2. CASE conn[s] # "open"
    BY <1>10, <2>2 DEF SinceInv, Settle
  <2> QED BY <2>1, <2>2
<1>11. ASSUME NEW s \in Supervisors, Leave(s) PROVE SinceInv'
  BY <1>11, NobodyAssumption DEF TypeOK, SinceInv, LockInv, RestInv, CurInv,
     States, Live, Endings, Captured, Release, Leave,
     Goto, Unlocked
<1>12. ASSUME NEW s \in Supervisors, BeginTick(s) PROVE SinceInv'
  BY <1>12, NobodyAssumption DEF TypeOK, SinceInv, LockInv, RestInv, CurInv,
     States, Live, Endings, Captured, Release, BeginTick,
     Goto
<1>13. ASSUME NEW s \in Supervisors, EndTick(s) PROVE SinceInv'
  BY <1>13, NobodyAssumption DEF TypeOK, SinceInv, LockInv, RestInv, CurInv,
     States, Live, Endings, Captured, EndTick, Goto, Forget
<1>14. ASSUME NEW s \in Supervisors, NEW i \in Ids, TickSettle(s, i)
      PROVE SinceInv'
  BY <1>14, NobodyAssumption DEF TypeOK, SinceInv, LockInv, RestInv, CurInv,
     States, Live, Endings, Captured, Release, TickSettle,
     Reach, Goto
<1>15. ASSUME NEW s \in Supervisors, NEW i \in Ids, TickPaused(s, i)
      PROVE SinceInv'
  BY <1>15, NobodyAssumption DEF TypeOK, SinceInv, LockInv, RestInv, CurInv,
     States, Live, Endings, Captured, Release, TickPaused,
     Reach
<1>16. ASSUME NEW s \in Supervisors, NEW i \in Ids, TickRequested(s, i)
      PROVE SinceInv'
  BY <1>16, NobodyAssumption DEF TypeOK, SinceInv, LockInv, RestInv, CurInv,
     States, Live, Endings, Captured, Release,
     TickRequested, Reach, Goto
<1>17. ASSUME NEW s \in Supervisors, NEW i \in Ids, TickAdvance(s, i)
      PROVE SinceInv'
  BY <1>17, NobodyAssumption DEF TypeOK, SinceInv, LockInv, RestInv, CurInv,
     States, Live, Endings, Captured, TickAdvance, Reach,
     Goto
<1>18. ASSUME NEW s \in Supervisors, Begin(s) PROVE SinceInv'
  <2>1. \A z \in Supervisors : z # s => lock # z /\ lock' # z
    BY <1>18 DEF LockInv, Begin
  <2>2. CASE state[cur[s]] = "requested"
    <3>1. Begun(snap[s][cur[s]], resumes[cur[s]]).since = resumes[cur[s]]
      BY DEF Begun
    <3>2. cur[s] \in Ids
      BY DEF TypeOK
    <3>3. /\ own'[s] = own[s] \cup {cur[s]}
          /\ run'[s][cur[s]].since = resumes[cur[s]]
          /\ \A i \in Ids : i # cur[s] => /\ run'[s][i] = run[s][i]
                                       /\ state'[i] = state[i]
          /\ resumes' = resumes /\ lock' = lock
      BY <1>18, <2>2, <3>1, <3>2 DEF TypeOK, Begin
    <3>4. ASSUME NEW i \in own'[s], state'[i] \in Captured
          PROVE  run'[s][i].since = resumes'[i]
      <4>1. CASE i = cur[s]
        BY <3>3, <4>1
      <4>2. CASE i # cur[s]
        <5>1. i \in own[s] /\ i \in Ids
          BY <3>3, <4>2 DEF TypeOK
        <5>2. lock = s
          BY <1>18 DEF LockInv, Begin
        <5> QED BY <3>3, <3>4, <4>2, <5>1, <5>2 DEF SinceInv
      <4> QED BY <4>1, <4>2
    <3> QED BY <2>1, <3>4 DEF SinceInv
  <2>3. CASE state[cur[s]] # "requested"
    BY <1>18, <2>3 DEF SinceInv, Begin
  <2> QED BY <2>2, <2>3
<1>19. ASSUME NEW s \in Supervisors, ProbeFails(s) PROVE SinceInv'
  BY <1>19, NobodyAssumption DEF TypeOK, SinceInv, LockInv, RestInv, CurInv,
     States, Live, Endings, Captured, ProbeFails, Goto
<1>20. ASSUME NEW s \in Supervisors, ProbeEnded(s) PROVE SinceInv'
  BY <1>20, NobodyAssumption DEF TypeOK, SinceInv, LockInv, RestInv, CurInv,
     States, Live, Endings, Captured, Release, ProbeEnded,
     Goto
<1>21. ASSUME NEW s \in Supervisors, Spawn(s) PROVE SinceInv'
  <2>1. \A z \in Supervisors, i \in Ids : run'[z][i].since = run[z][i].since
    <3>1. cur[s] \in Ids /\ run[s][cur[s]] \in Run
      BY DEF TypeOK
    <3> QED BY <1>21, <3>1, SinceKept DEF TypeOK, Spawn
  <2>2. own' = own /\ lock' = lock /\ state' = state /\ resumes' = resumes
    BY <1>21 DEF Spawn
  <2> QED BY <2>1, <2>2 DEF TypeOK, SinceInv
<1>22. ASSUME NEW s \in Supervisors, Describe(s) PROVE SinceInv'
  BY <1>22, NobodyAssumption DEF TypeOK, SinceInv, LockInv, RestInv, CurInv,
     States, Live, Endings, Captured, Describe, Goto
<1>23. ASSUME NEW s \in Supervisors, NEW flowing \in BOOLEAN, DrainNothing(s,
      flowing) PROVE SinceInv'
  <2>1. \A z \in Supervisors, i \in Ids : run'[z][i].since = run[z][i].since
    <3>1. cur[s] \in Ids /\ run[s][cur[s]] \in Run
      BY DEF TypeOK
    <3> QED BY <1>23, <3>1, SinceKept DEF TypeOK, DrainNothing
  <2>2. own' = own /\ lock' = lock /\ state' = state /\ resumes' = resumes
    BY <1>23 DEF DrainNothing
  <2> QED BY <2>1, <2>2 DEF TypeOK, SinceInv
<1>24. ASSUME NEW s \in Supervisors, DrainChunk(s) PROVE SinceInv'
  <2>1. \A z \in Supervisors, i \in Ids : run'[z][i].since = run[z][i].since
    <3>1. cur[s] \in Ids /\ run[s][cur[s]] \in Run
      BY DEF TypeOK
    <3> QED BY <1>24, <3>1, SinceKept DEF TypeOK, DrainChunk
  <2>2. own' = own /\ lock' = lock /\ state' = state /\ resumes' = resumes
    BY <1>24 DEF DrainChunk
  <2> QED BY <2>1, <2>2 DEF TypeOK, SinceInv
<1>25. ASSUME NEW s \in Supervisors, Stumble(s) PROVE SinceInv'
  <2> DEFINE c == cur[s]
  <2>1. c \in Ids /\ run[s][c] \in Run
    BY DEF TypeOK
  <2>2. lock' = lock /\ state' = state /\ resumes' = resumes
    BY <1>25 DEF Stumble
  <2>3. \/ Release(s, {c})
        \/ own' = own /\ run' = run
        \/ own' = own /\ run' = [run EXCEPT ![s][c] = BackedOff(@)]
    BY <1>25 DEF Stumble, Stumbles
  <2>4. CASE Release(s, {c})
    BY <2>1, <2>2, <2>4 DEF TypeOK, SinceInv, Release
  <2>5. CASE own' = own /\ run' = run
    BY <2>2, <2>5 DEF TypeOK, SinceInv
  <2>6. CASE own' = own /\ run' = [run EXCEPT ![s][c] = BackedOff(@)]
    <3>1. BackedOff(run[s][c]).since = run[s][c].since
      BY <2>1, SinceKept
    <3>2. \A z \in Supervisors, i \in Ids : run'[z][i].since = run[z][i].since
      <4> HIDE DEF c
      <4> QED BY <2>1, <2>6, <3>1 DEF TypeOK
    <3> QED BY <2>2, <2>6, <3>2 DEF TypeOK, SinceInv
  <2> QED BY <2>3, <2>4, <2>5, <2>6
<1>26. ASSUME NEW s \in Supervisors, Check(s) PROVE SinceInv'
  <2> DEFINE c == cur[s]
  <2>1. c \in Ids /\ run[s][c] \in Run
    BY DEF TypeOK
  <2>2. lock' = lock /\ state' = state /\ resumes' = resumes
    BY <1>26 DEF Check
  <2>3. \/ Release(s, {c})
        \/ own' = own /\ run' = run
        \/ own' = own /\ run' = [run EXCEPT ![s][c] = BackedOff(@)]
    BY <1>26 DEF Check, Stumbles
  <2>4. CASE Release(s, {c})
    BY <2>1, <2>2, <2>4 DEF TypeOK, SinceInv, Release
  <2>5. CASE own' = own /\ run' = run
    BY <2>2, <2>5 DEF TypeOK, SinceInv
  <2>6. CASE own' = own /\ run' = [run EXCEPT ![s][c] = BackedOff(@)]
    <3>1. BackedOff(run[s][c]).since = run[s][c].since
      BY <2>1, SinceKept
    <3>2. \A z \in Supervisors, i \in Ids : run'[z][i].since = run[z][i].since
      <4> HIDE DEF c
      <4> QED BY <2>1, <2>6, <3>1 DEF TypeOK
    <3> QED BY <2>2, <2>6, <3>2 DEF TypeOK, SinceInv
  <2> QED BY <2>3, <2>4, <2>5, <2>6
<1>27. ASSUME NEW s \in Supervisors, Finish(s) PROVE SinceInv'
  <2>1. \A i \in Ids : state'[i] \in Captured => state[i] \in Captured
    BY <1>27 DEF TypeOK, Finish, Endings, Captured
  <2> QED BY <1>27, <2>1 DEF TypeOK, SinceInv, Finish
<1>28. ASSUME NEW s \in Supervisors, LoseConnection(s) PROVE SinceInv'
  BY <1>28, NobodyAssumption DEF TypeOK, SinceInv, LockInv, RestInv, CurInv,
     States, Live, Endings, Captured, LoseConnection,
     Unlocked
<1>29. ASSUME NEW s \in Supervisors, Crash(s) PROVE SinceInv'
  BY <1>29, NobodyAssumption DEF TypeOK, SinceInv, LockInv, RestInv, CurInv,
     States, Live, Endings, Captured, Release, Crash,
     Forget, Unlocked, Goto
<1>30. ASSUME NEW s \in Supervisors, NEW i \in Ids, FfmpegExits(s, i)
      PROVE SinceInv'
  <2>1. \A z \in Supervisors, j \in Ids : run'[z][j].since = run[z][j].since
    <3>1. run[s][i] \in Run
      BY DEF TypeOK
    <3> QED BY <1>30, <3>1, SinceKept DEF TypeOK, FfmpegExits
  <2> QED BY <1>30, <2>1 DEF TypeOK, SinceInv, FfmpegExits
<1> QED BY <1>1, <1>2, <1>3, <1>4, <1>5, <1>6, <1>7, <1>8, <1>9, <1>10, <1>11,
   <1>12, <1>13, <1>14, <1>15, <1>16, <1>17, <1>18, <1>19, <1>20, <1>21,
   <1>22, <1>23, <1>24, <1>25, <1>26, <1>27, <1>28, <1>29, <1>30 DEF
     Next, User, Supervise, Disturb, Boot, Sigterm

\* Two steps write a clock.  Resume takes it; a chunk writes what its capture
\* may have rewound to, and when that is of before the last resume the capture
\* was claimed with it.
LEMMA ClockStep ==
  ASSUME TypeOK, LockInv, CurInv, SinceInv, [Next]_vars
  PROVE  ClockStaysTaken
<1>1. CASE UNCHANGED <<until, resumes>>
  BY <1>1 DEF ClockStaysTaken
<1>2. ASSUME NEW i \in Ids, NEW st \in Streams, Create(i, st)
      PROVE ClockStaysTaken
  BY <1>2 DEF ClockStaysTaken, Create
<1>3. ASSUME NEW i \in Ids, RequestStop(i) PROVE ClockStaysTaken
  BY <1>3 DEF ClockStaysTaken, RequestStop
<1>4. ASSUME NEW i \in Ids, Pause(i) PROVE ClockStaysTaken
  BY <1>4 DEF ClockStaysTaken, Pause
<1>5. ASSUME NEW i \in Ids, Resume(i) PROVE ClockStaysTaken
  BY <1>5 DEF TypeOK, ClockStaysTaken, Resume
<1>6. ASSUME NEW i \in Ids, Delete(i) PROVE ClockStaysTaken
  BY <1>6 DEF ClockStaysTaken, Delete
<1>7. ASSUME NEW s \in Supervisors, Boot(s) PROVE ClockStaysTaken
  BY <1>7 DEF ClockStaysTaken, Boot
<1>8. ASSUME NEW s \in Supervisors, Connect(s) PROVE ClockStaysTaken
  BY <1>8 DEF ClockStaysTaken, Connect
<1>9. ASSUME NEW s \in Supervisors, Reconcile(s) PROVE ClockStaysTaken
  BY <1>9 DEF ClockStaysTaken, ReconcileRows, Reconcile, Goto
<1>10. ASSUME NEW s \in Supervisors, DropConnection(s)
      PROVE ClockStaysTaken
  BY <1>10 DEF ClockStaysTaken, DropConnection
<1>11. ASSUME NEW s \in Supervisors, Settle(s) PROVE ClockStaysTaken
  BY <1>11 DEF ClockStaysTaken, ReconcileRows, Settle, Goto
<1>12. ASSUME NEW s \in Supervisors, Leave(s) PROVE ClockStaysTaken
  BY <1>12 DEF ClockStaysTaken, Leave
<1>13. ASSUME NEW s \in Supervisors, BeginTick(s) PROVE ClockStaysTaken
  BY <1>13 DEF ClockStaysTaken, BeginTick
<1>14. ASSUME NEW s \in Supervisors, EndTick(s) PROVE ClockStaysTaken
  BY <1>14 DEF ClockStaysTaken, EndTick
<1>15. ASSUME NEW s \in Supervisors, NEW i \in Ids, TickSettle(s, i)
      PROVE ClockStaysTaken
  BY <1>15 DEF ClockStaysTaken, TickSettle, Reach
<1>16. ASSUME NEW s \in Supervisors, NEW i \in Ids, TickPaused(s, i)
      PROVE ClockStaysTaken
  BY <1>16 DEF ClockStaysTaken, TickPaused, Reach
<1>17. ASSUME NEW s \in Supervisors, NEW i \in Ids, TickRequested(s, i)
      PROVE ClockStaysTaken
  BY <1>17 DEF ClockStaysTaken, TickRequested, Reach
<1>18. ASSUME NEW s \in Supervisors, NEW i \in Ids, TickAdvance(s, i)
      PROVE ClockStaysTaken
  BY <1>18 DEF ClockStaysTaken, TickAdvance, Reach
<1>19. ASSUME NEW s \in Supervisors, Begin(s) PROVE ClockStaysTaken
  BY <1>19 DEF ClockStaysTaken, Begin
<1>20. ASSUME NEW s \in Supervisors, ProbeFails(s) PROVE ClockStaysTaken
  BY <1>20 DEF ClockStaysTaken, ProbeFails
<1>21. ASSUME NEW s \in Supervisors, ProbeEnded(s) PROVE ClockStaysTaken
  BY <1>21 DEF ClockStaysTaken, ProbeEnded
<1>22. ASSUME NEW s \in Supervisors, Spawn(s) PROVE ClockStaysTaken
  BY <1>22 DEF ClockStaysTaken, Spawn
<1>23. ASSUME NEW s \in Supervisors, Describe(s) PROVE ClockStaysTaken
  BY <1>23 DEF ClockStaysTaken, Describe
<1>24. ASSUME NEW s \in Supervisors, NEW flowing \in BOOLEAN, DrainNothing(s,
      flowing) PROVE ClockStaysTaken
  BY <1>24 DEF ClockStaysTaken, DrainNothing
<1>25. ASSUME NEW s \in Supervisors, DrainChunk(s) PROVE ClockStaysTaken
  <2>1. lock = s /\ cur[s] \in own[s] /\ cur[s] \in Ids
    BY <1>25 DEF TypeOK, LockInv, CurInv, InSession, DrainChunk
  <2> DEFINE i == cur[s]
             r == run[s][i]
  <2>2. state[i] \in Captured => r.since = resumes[i]
    BY <2>1 DEF SinceInv
  <2>3. PICK e \in Reached(r) :
          \/ until' = until
          \/ until' = [until EXCEPT ![i] =
                         IF state[i] \in Captured THEN e ELSE @]
    BY <1>25 DEF DrainChunk
  <2>4. resumes' = resumes /\ pc[s] = "drain"
    BY <1>25 DEF DrainChunk
  <2>5. ASSUME state[i] \in Captured, e # resumes[i]
        PROVE  ClaimedOnStale(s, i)
    <3>1. r \in Run /\ r.since = resumes[i]
      BY <2>1, <2>2, <2>5 DEF TypeOK
    <3>2. r.until # NoClock /\ e \in r.until .. r.since
      BY <2>3, <2>5, <3>1 DEF Reached
    <3>3. r.until < r.since
      BY <2>5, <3>1, <3>2, BoundsAssumption DEF Run, Clock, NoClock
    <3> QED BY <2>4, <3>3 DEF ClaimedOnStale
  <2>6. ASSUME NEW j \in Ids
        PROVE  \/ until'[j] \in {NoClock, resumes'[j]}
               \/ until'[j] = until[j] /\ resumes'[j] = resumes[j]
               \/ ClaimedOnStale(s, j)
    <3>1. CASE j = i /\ state[i] \in Captured
      BY <2>1, <2>3, <2>4, <2>5, <3>1 DEF TypeOK
    <3>2. CASE j # i \/ state[i] \notin Captured
      BY <2>1, <2>3, <2>4, <3>2 DEF TypeOK
    <3> QED BY <3>1, <3>2
  <2> QED BY <2>6 DEF ClockStaysTaken
<1>26. ASSUME NEW s \in Supervisors, Stumble(s) PROVE ClockStaysTaken
  BY <1>26 DEF ClockStaysTaken, Stumble
<1>27. ASSUME NEW s \in Supervisors, Check(s) PROVE ClockStaysTaken
  BY <1>27 DEF ClockStaysTaken, Check
<1>28. ASSUME NEW s \in Supervisors, Finish(s) PROVE ClockStaysTaken
  BY <1>28 DEF ClockStaysTaken, Finish
<1>29. ASSUME NEW s \in Supervisors, LoseConnection(s)
      PROVE ClockStaysTaken
  BY <1>29 DEF ClockStaysTaken, LoseConnection
<1>30. ASSUME NEW s \in Supervisors, Crash(s) PROVE ClockStaysTaken
  BY <1>30 DEF ClockStaysTaken, Crash
<1>31. ASSUME NEW s \in Supervisors, Sigterm(s) PROVE ClockStaysTaken
  BY <1>31 DEF ClockStaysTaken, Sigterm
<1>32. ASSUME NEW s \in Supervisors, NEW i \in Ids, FfmpegExits(s, i)
      PROVE ClockStaysTaken
  BY <1>32 DEF ClockStaysTaken, FfmpegExits
<1> QED BY <1>1, <1>2, <1>3, <1>4, <1>5, <1>6, <1>7, <1>8, <1>9, <1>10, <1>11,
   <1>12, <1>13, <1>14, <1>15, <1>16, <1>17, <1>18, <1>19, <1>20, <1>21,
   <1>22, <1>23, <1>24, <1>25, <1>26, <1>27, <1>28, <1>29, <1>30, <1>31,
   <1>32 DEF
     Next, User, Supervise, Disturb

\* A process takes nothing in hand except by reading the rows.
LEMMA HandStep ==
  ASSUME TypeOK, ~\E s \in Supervisors : BeginTick(s), [Next]_vars
  PROVE  \A z \in Supervisors : InHand(z)' \subseteq InHand(z)
<1>1. CASE UNCHANGED <<own, todo, cur, pc>>
  BY <1>1 DEF InHand
<1>2. ASSUME NEW s \in Supervisors, Boot(s)
      PROVE \A z \in Supervisors : InHand(z)' \subseteq InHand(z)
  BY <1>2 DEF TypeOK, InHand, OnSession, InSession, Boot, Goto
<1>3. ASSUME NEW s \in Supervisors, Connect(s)
      PROVE \A z \in Supervisors : InHand(z)' \subseteq InHand(z)
  BY <1>3 DEF TypeOK, InHand, OnSession, InSession, Connect, Goto
<1>4. ASSUME NEW s \in Supervisors, Reconcile(s)
      PROVE \A z \in Supervisors : InHand(z)' \subseteq InHand(z)
  BY <1>4 DEF TypeOK, InHand, OnSession, InSession, Reconcile, Goto
<1>5. ASSUME NEW s \in Supervisors, DropConnection(s)
      PROVE \A z \in Supervisors : InHand(z)' \subseteq InHand(z)
  BY <1>5 DEF TypeOK, InHand, OnSession, InSession, Release, DropConnection,
     Goto, Forget
<1>6. ASSUME NEW s \in Supervisors, Settle(s)
      PROVE \A z \in Supervisors : InHand(z)' \subseteq InHand(z)
  BY <1>6 DEF TypeOK, InHand, OnSession, InSession, Settle, Goto
<1>7. ASSUME NEW s \in Supervisors, Leave(s)
      PROVE \A z \in Supervisors : InHand(z)' \subseteq InHand(z)
  BY <1>7 DEF TypeOK, InHand, OnSession, InSession, Release, Leave, Goto,
     Unlocked
<1>8. ASSUME NEW s \in Supervisors, EndTick(s)
      PROVE \A z \in Supervisors : InHand(z)' \subseteq InHand(z)
  BY <1>8 DEF TypeOK, InHand, OnSession, InSession, EndTick, Goto, Forget
<1>9. ASSUME NEW s \in Supervisors, NEW i \in Ids, TickSettle(s, i)
      PROVE \A z \in Supervisors : InHand(z)' \subseteq InHand(z)
  BY <1>9 DEF TypeOK, InHand, OnSession, InSession, Release, TickSettle,
     Reach, Goto
<1>10. ASSUME NEW s \in Supervisors, NEW i \in Ids, TickPaused(s, i)
      PROVE \A z \in Supervisors : InHand(z)' \subseteq InHand(z)
  BY <1>10 DEF TypeOK, InHand, OnSession, InSession, Release, TickPaused, Reach
<1>11. ASSUME NEW s \in Supervisors, NEW i \in Ids, TickRequested(s, i)
      PROVE \A z \in Supervisors : InHand(z)' \subseteq InHand(z)
  BY <1>11 DEF TypeOK, InHand, OnSession, InSession, Release, TickRequested,
     Reach, Goto
<1>12. ASSUME NEW s \in Supervisors, NEW i \in Ids, TickAdvance(s, i)
      PROVE \A z \in Supervisors : InHand(z)' \subseteq InHand(z)
  BY <1>12 DEF TypeOK, InHand, OnSession, InSession, TickAdvance, Reach, Goto
<1>13. ASSUME NEW s \in Supervisors, Begin(s)
      PROVE \A z \in Supervisors : InHand(z)' \subseteq InHand(z)
  <2>1. CASE state[cur[s]] = "requested"
    <3>1. own'[s] = own[s] \cup {cur[s]} /\ todo' = todo /\ cur' = cur
      BY <1>13, <2>1 DEF TypeOK, Begin
    <3>2. \A z \in Supervisors : z # s => own'[z] = own[z] /\ pc'[z] = pc[z]
      BY <1>13, <2>1 DEF TypeOK, Begin, Goto
    <3>3. pc[s] = "begin"
      BY <1>13 DEF Begin
    <3> QED BY <3>1, <3>2, <3>3 DEF InHand, OnSession
  <2>2. CASE state[cur[s]] # "requested"
    BY <1>13, <2>2 DEF TypeOK, InHand, OnSession, InSession, Begin, Goto
  <2> QED BY <2>1, <2>2
<1>14. ASSUME NEW s \in Supervisors, ProbeFails(s)
      PROVE \A z \in Supervisors : InHand(z)' \subseteq InHand(z)
  BY <1>14 DEF TypeOK, InHand, OnSession, InSession, ProbeFails, Goto
<1>15. ASSUME NEW s \in Supervisors, ProbeEnded(s)
      PROVE \A z \in Supervisors : InHand(z)' \subseteq InHand(z)
  BY <1>15 DEF TypeOK, InHand, OnSession, InSession, Release, ProbeEnded, Goto
<1>16. ASSUME NEW s \in Supervisors, Spawn(s)
      PROVE \A z \in Supervisors : InHand(z)' \subseteq InHand(z)
  BY <1>16 DEF TypeOK, InHand, OnSession, InSession, Spawn, Goto
<1>17. ASSUME NEW s \in Supervisors, Describe(s)
      PROVE \A z \in Supervisors : InHand(z)' \subseteq InHand(z)
  BY <1>17 DEF TypeOK, InHand, OnSession, InSession, Describe, Goto
<1>18. ASSUME NEW s \in Supervisors, NEW flowing \in BOOLEAN, DrainNothing(s,
      flowing) PROVE \A z \in Supervisors : InHand(z)' \subseteq InHand(z)
  BY <1>18 DEF TypeOK, InHand, OnSession, InSession, DrainNothing, Goto
<1>19. ASSUME NEW s \in Supervisors, DrainChunk(s)
      PROVE \A z \in Supervisors : InHand(z)' \subseteq InHand(z)
  BY <1>19 DEF TypeOK, InHand, OnSession, InSession, DrainChunk, Goto
<1>20. ASSUME NEW s \in Supervisors, Stumble(s)
      PROVE \A z \in Supervisors : InHand(z)' \subseteq InHand(z)
  <2>1. \A z \in Supervisors : own'[z] \subseteq own[z]
    <3>1. own' = own \/ Release(s, {cur[s]})
      BY <1>20 DEF Stumble, Stumbles
    <3> QED BY SMTT(30), <3>1 DEF TypeOK, Release
  <2>4. pc[s] \in OnSession
    BY <1>20 DEF Stumble, OnSession, InSession
  <2>2. todo' = todo /\ cur' = cur
    BY <1>20 DEF Stumble
  <2>3. \A z \in Supervisors : z # s => pc'[z] = pc[z]
    BY <1>20 DEF TypeOK, Stumble, Stumbles, Goto
  <2> QED BY <2>1, <2>2, <2>3, <2>4 DEF InHand, OnSession, InSession
<1>21. ASSUME NEW s \in Supervisors, Check(s)
      PROVE \A z \in Supervisors : InHand(z)' \subseteq InHand(z)
  <2>1. \A z \in Supervisors : own'[z] \subseteq own[z]
    <3>1. own' = own \/ Release(s, {cur[s]})
      BY <1>21 DEF Check, Stumbles
    <3> QED BY SMTT(30), <3>1 DEF TypeOK, Release
  <2>4. pc[s] \in OnSession
    BY <1>21 DEF Check, OnSession, InSession
  <2>2. todo' = todo /\ cur' = cur
    BY <1>21 DEF Check
  <2>3. \A z \in Supervisors : z # s => pc'[z] = pc[z]
    BY <1>21 DEF TypeOK, Check, Stumbles, Goto
  <2> QED BY <2>1, <2>2, <2>3, <2>4 DEF InHand, OnSession, InSession
<1>22. ASSUME NEW s \in Supervisors, Finish(s)
      PROVE \A z \in Supervisors : InHand(z)' \subseteq InHand(z)
  BY <1>22 DEF TypeOK, InHand, OnSession, InSession, Finish, Goto
<1>23. ASSUME NEW s \in Supervisors, Crash(s)
      PROVE \A z \in Supervisors : InHand(z)' \subseteq InHand(z)
  BY <1>23 DEF TypeOK, InHand, OnSession, InSession, Release, Crash, Forget,
     Unlocked, Goto
<1> QED BY <1>1, <1>2, <1>3, <1>4, <1>5, <1>6, <1>7, <1>8, <1>9, <1>10, <1>11,
   <1>12, <1>13, <1>14, <1>15, <1>16, <1>17, <1>18, <1>19, <1>20, <1>21,
   <1>22, <1>23 DEF
     Next, User, Supervise, Disturb, Create, RequestStop, Pause, Resume,
     Delete, Unlocked, BeginTick, LoseConnection, Sigterm, FfmpegExits

\* What a tick takes in hand was live when it read the rows.
LEMMA HandRead ==
  ASSUME TypeOK, NEW s \in Supervisors, BeginTick(s)
  PROVE  /\ \A i \in InHand(s)' : i \in Ids /\ state[i] \in Live
         /\ \A z \in Supervisors : z # s => InHand(z)' = InHand(z)
  BY DEF TypeOK, InHand, OnSession, InSession, BeginTick, Release, Goto

\* No row becomes live, or comes to be, except by store.create.
LEMMA RowsKept ==
  ASSUME TypeOK, [Next]_vars, ~\E i \in Ids, st \in Streams : Create(i, st)
  PROVE  /\ stream' = stream
         /\ \A i \in Ids : /\ state'[i] \in Live => state[i] \in Live
                           /\ state'[i] = "absent" => state[i] = "absent"
<1> DEFINE Quiet ==
             /\ stream' = stream
             /\ \A i \in Ids : /\ state'[i] \in Live => state[i] \in Live
                               /\ state'[i] = "absent" => state[i] = "absent"
<1>1. CASE UNCHANGED <<state, stream>>
  BY <1>1
<1>2. ASSUME NEW i \in Ids, RequestStop(i) PROVE Quiet
  BY <1>2 DEF TypeOK, Live, Endings, Captured, RequestStop
<1>3. ASSUME NEW i \in Ids, Pause(i) PROVE Quiet
  BY <1>3 DEF TypeOK, Live, Endings, Captured, Pause
<1>4. ASSUME NEW i \in Ids, Resume(i) PROVE Quiet
  BY <1>4 DEF TypeOK, Live, Endings, Captured, Resume
<1>5. ASSUME NEW i \in Ids, Delete(i) PROVE Quiet
  BY <1>5 DEF TypeOK, Live, Endings, Captured, Delete
<1>6. ASSUME NEW s \in Supervisors, Boot(s) PROVE Quiet
  BY <1>6 DEF Boot
<1>7. ASSUME NEW s \in Supervisors, Connect(s) PROVE Quiet
  BY <1>7 DEF Connect
<1>8. ASSUME NEW s \in Supervisors, Reconcile(s) PROVE Quiet
  BY <1>8 DEF TypeOK, Live, Endings, Captured, ReconcileRows, Reconcile, Goto
<1>9. ASSUME NEW s \in Supervisors, DropConnection(s) PROVE Quiet
  BY <1>9 DEF DropConnection
<1>10. ASSUME NEW s \in Supervisors, Settle(s) PROVE Quiet
  BY <1>10 DEF TypeOK, Live, Endings, Captured, ReconcileRows, Settle, Goto
<1>11. ASSUME NEW s \in Supervisors, Leave(s) PROVE Quiet
  BY <1>11 DEF Leave
<1>12. ASSUME NEW s \in Supervisors, BeginTick(s) PROVE Quiet
  BY <1>12 DEF BeginTick
<1>13. ASSUME NEW s \in Supervisors, EndTick(s) PROVE Quiet
  BY <1>13 DEF EndTick
<1>14. ASSUME NEW s \in Supervisors, NEW i \in Ids, TickSettle(s, i)
      PROVE Quiet
  BY <1>14 DEF TickSettle, Reach
<1>15. ASSUME NEW s \in Supervisors, NEW i \in Ids, TickPaused(s, i)
      PROVE Quiet
  BY <1>15 DEF TickPaused, Reach
<1>16. ASSUME NEW s \in Supervisors, NEW i \in Ids, TickRequested(s, i)
      PROVE Quiet
  BY <1>16 DEF TickRequested, Reach
<1>17. ASSUME NEW s \in Supervisors, NEW i \in Ids, TickAdvance(s, i)
      PROVE Quiet
  BY <1>17 DEF TickAdvance, Reach
<1>18. ASSUME NEW s \in Supervisors, Begin(s) PROVE Quiet
  BY <1>18 DEF TypeOK, Live, Endings, Captured, Begin, Goto
<1>19. ASSUME NEW s \in Supervisors, ProbeFails(s) PROVE Quiet
  BY <1>19 DEF ProbeFails
<1>20. ASSUME NEW s \in Supervisors, ProbeEnded(s) PROVE Quiet
  BY <1>20 DEF ProbeEnded
<1>21. ASSUME NEW s \in Supervisors, Spawn(s) PROVE Quiet
  BY <1>21 DEF Spawn
<1>22. ASSUME NEW s \in Supervisors, Describe(s) PROVE Quiet
  BY <1>22 DEF TypeOK, Live, Endings, Captured, Describe, Goto
<1>23. ASSUME NEW s \in Supervisors, NEW flowing \in BOOLEAN, DrainNothing(s,
      flowing) PROVE Quiet
  BY <1>23 DEF DrainNothing
<1>24. ASSUME NEW s \in Supervisors, DrainChunk(s) PROVE Quiet
  BY <1>24 DEF DrainChunk
<1>25. ASSUME NEW s \in Supervisors, Stumble(s) PROVE Quiet
  BY <1>25 DEF Stumble
<1>26. ASSUME NEW s \in Supervisors, Check(s) PROVE Quiet
  BY <1>26 DEF Check
<1>27. ASSUME NEW s \in Supervisors, Finish(s) PROVE Quiet
  BY <1>27 DEF TypeOK, Live, Endings, Captured, Finish, Goto
<1>28. ASSUME NEW s \in Supervisors, LoseConnection(s) PROVE Quiet
  BY <1>28 DEF LoseConnection
<1>29. ASSUME NEW s \in Supervisors, Crash(s) PROVE Quiet
  BY <1>29 DEF Crash
<1>30. ASSUME NEW s \in Supervisors, Sigterm(s) PROVE Quiet
  BY <1>30 DEF Sigterm
<1>31. ASSUME NEW s \in Supervisors, NEW i \in Ids, FfmpegExits(s, i)
      PROVE Quiet
  BY <1>31 DEF FfmpegExits
<1> QED BY <1>1, <1>2, <1>3, <1>4, <1>5, <1>6, <1>7, <1>8, <1>9, <1>10, <1>11,
   <1>12, <1>13, <1>14, <1>15, <1>16, <1>17, <1>18, <1>19, <1>20, <1>21,
   <1>22, <1>23, <1>24, <1>25, <1>26, <1>27, <1>28, <1>29, <1>30, <1>31 DEF
     Next, User, Supervise, Disturb, Create

\* The index refuses a second live row, and what a process has in hand was
\* live all at once.
LEMMA StreamStep ==
  ASSUME TypeOK, StreamInv, [Next]_vars
  PROVE  StreamInv'
<1>1. ASSUME NEW i \in Ids, NEW st \in Streams, Create(i, st) PROVE StreamInv'
  <2>1. \A z \in Supervisors : InHand(z)' = InHand(z)
    BY <1>1 DEF InHand, Create
  <2>2. /\ \A j \in Ids :
             j # i => stream'[j] = stream[j] /\ state'[j] = state[j]
        /\ stream'[i] = st /\ state'[i] = "requested"
    BY <1>1 DEF TypeOK, Create
  <2>3. \A z \in Supervisors : i \notin InHand(z) /\ InHand(z) \subseteq Ids
    BY <1>1 DEF TypeOK, StreamInv, InHand, Create
  <2>4. \A j \in Ids : state[j] \in Live => stream[j] # st
    BY <1>1 DEF Create
  <2> HIDE DEF Live
  <2> QED BY <2>1, <2>2, <2>3, <2>4 DEF StreamInv
<1>2. ASSUME NEW s \in Supervisors, BeginTick(s) PROVE StreamInv'
  <2>1. state' = state /\ stream' = stream
    BY <1>2 DEF BeginTick
  <2>2. \A i \in InHand(s)' :
           i \in Ids /\ state[i] \in Live /\ state[i] # "absent"
    BY <1>2, HandRead DEF Live
  <2>3. \A z \in Supervisors : z # s => InHand(z)' = InHand(z)
    BY <1>2, HandRead
  <2> HIDE DEF Live
  <2> QED BY <2>1, <2>2, <2>3 DEF StreamInv
<1>3. CASE /\ ~\E i \in Ids, st \in Streams : Create(i, st)
           /\ ~\E s \in Supervisors : BeginTick(s)
  <2>1. \A z \in Supervisors : InHand(z)' \subseteq InHand(z)
    BY <1>3, HandStep
  <2>2. /\ stream' = stream
        /\ \A i \in Ids : /\ state'[i] \in Live => state[i] \in Live
                          /\ state'[i] = "absent" => state[i] = "absent"
    BY <1>3, RowsKept
  <2>3. \A z \in Supervisors : InHand(z) \subseteq Ids
    BY DEF TypeOK, InHand
  <2> HIDE DEF Live
  <2> QED BY <2>1, <2>2, <2>3 DEF StreamInv
<1> QED BY <1>1, <1>2, <1>3

\* A step that counts no restart, gives no row up for good and revives none.
LEMMA RestartKept ==
  ASSUME TypeOK, RestartInv,
         restarts' = restarts,
         \A i \in Ids : state[i] \in {"failed", "deleted"}
                           => state'[i] \in {"failed", "deleted"},
         \A z \in Supervisors : InHand(z)' \subseteq InHand(z),
         \A z \in Supervisors : Working(z)' => Working(z)
  PROVE  RestartInv'
  BY DEF RestartInv, RestartsBounded

\* Every step but the reading of the rows.
LEMMA RestartOther ==
  ASSUME TypeOK, LockInv, RestartInv,
         \A z \in Supervisors : InHand(z)' \subseteq InHand(z),
         ~\E s \in Supervisors : BeginTick(s), [Next]_vars
  PROVE  RestartInv'
<1>1. CASE UNCHANGED <<state, restarts, lock, own, todo, cur, pc>>
  <2>1. \A z \in Supervisors : InHand(z)' = InHand(z)
    BY <1>1 DEF InHand
  <2> QED BY <1>1, <2>1 DEF RestartInv, RestartsBounded, Working
<1>2. ASSUME NEW i \in Ids, NEW st \in Streams, Create(i, st) PROVE RestartInv'
  <2>1. \A z \in Supervisors : InHand(z)' = InHand(z)
    BY <1>2 DEF InHand, Create
  <2> QED BY <1>2, <2>1 DEF TypeOK, RestartInv, RestartsBounded, Working,
     Create
<1>3. ASSUME NEW i \in Ids, RequestStop(i) PROVE RestartInv'
  BY <1>3, NobodyAssumption, RestartKept DEF TypeOK, Live, Captured,
     Working, InTick, OnSession, InSession, RequestStop
<1>4. ASSUME NEW i \in Ids, Pause(i) PROVE RestartInv'
  BY <1>4, NobodyAssumption, RestartKept DEF TypeOK, Live, Captured,
     Working, InTick, OnSession, InSession, Pause
<1>5. ASSUME NEW i \in Ids, Resume(i) PROVE RestartInv'
  BY <1>5, NobodyAssumption, RestartKept DEF TypeOK, Live, Captured,
     Working, InTick, OnSession, InSession, Resume
<1>6. ASSUME NEW i \in Ids, Delete(i) PROVE RestartInv'
  BY <1>6, NobodyAssumption, RestartKept DEF TypeOK, Live, Captured,
     Working, InTick, OnSession, InSession, Delete
<1>7. ASSUME NEW s \in Supervisors, Boot(s) PROVE RestartInv'
  BY <1>7, NobodyAssumption, RestartKept DEF TypeOK, Live, Captured,
     Working, InTick, OnSession, InSession, Boot, Goto
<1>8. ASSUME NEW s \in Supervisors, Connect(s) PROVE RestartInv'
  BY <1>8, NobodyAssumption, RestartKept DEF TypeOK, Live, Captured,
     Working, InTick, OnSession, InSession, Connect, Goto
<1>9. ASSUME NEW s \in Supervisors, Reconcile(s) PROVE RestartInv'
  <2>1. \A z \in Supervisors : ~Working(z)'
    BY <1>9 DEF TypeOK, LockInv, Reconcile, Goto, Working, InTick, OnSession,
       InSession
  <2>2. RestartsBounded'
    BY <1>9, BoundsAssumption DEF TypeOK, RestartInv, RestartsBounded,
       ReconcileRows, Reconcile, Captured
  <2> QED BY <2>1, <2>2 DEF RestartInv, Working
<1>10. ASSUME NEW s \in Supervisors, DropConnection(s) PROVE RestartInv'
  BY <1>10, NobodyAssumption, RestartKept DEF TypeOK, Live, Captured,
     Working, InTick, OnSession, InSession, DropConnection, Goto, Forget
<1>11. ASSUME NEW s \in Supervisors, Settle(s) PROVE RestartInv'
  <2>1. CASE conn[s] = "open"
    <3>1. lock' = s /\ pc'[s] = "leaving"
      BY <1>11, <2>1 DEF TypeOK, LockInv, Settle, Goto
    <3>2. ReconcileRows
      BY <1>11, <2>1 DEF Settle
    <3>3. RestartsBounded'
      BY <3>2, BoundsAssumption DEF TypeOK, RestartInv, RestartsBounded,
         ReconcileRows, Captured
    <3> QED BY <3>1, <3>3 DEF RestartInv, Working, InTick, OnSession, InSession
  <2>2. CASE conn[s] # "open"
    <3>1. /\ UNCHANGED <<state, restarts, lock, own, todo, cur>>
          /\ \A z \in Supervisors :
                pc'[z] \in InTick \cup OnSession => pc'[z] = pc[z]
      BY <1>11, <2>2 DEF TypeOK, Settle, Goto, InTick, OnSession, InSession
    <3>2. \A z \in Supervisors : InHand(z)' \subseteq InHand(z)
      BY <3>1 DEF InHand
    <3> QED BY <3>1, <3>2, RestartKept DEF Working
  <2> QED BY <2>1, <2>2
<1>12. ASSUME NEW s \in Supervisors, Leave(s) PROVE RestartInv'
  BY <1>12, NobodyAssumption, RestartKept DEF TypeOK, Live, Captured,
     Working, InTick, OnSession, InSession, Leave, Goto, Unlocked
<1>13. ASSUME NEW s \in Supervisors, EndTick(s) PROVE RestartInv'
  BY <1>13, NobodyAssumption, RestartKept DEF TypeOK, Live, Captured,
     Working, InTick, OnSession, InSession, EndTick, Goto, Forget
<1>14. ASSUME NEW s \in Supervisors, NEW i \in Ids, TickSettle(s, i)
      PROVE RestartInv'
  BY <1>14, NobodyAssumption, RestartKept DEF TypeOK, Live, Captured,
     Working, InTick, OnSession, InSession, TickSettle, Reach, Goto
<1>15. ASSUME NEW s \in Supervisors, NEW i \in Ids, TickPaused(s, i)
      PROVE RestartInv'
  BY <1>15, NobodyAssumption, RestartKept DEF TypeOK, Live, Captured,
     Working, InTick, OnSession, InSession, TickPaused, Reach
<1>16. ASSUME NEW s \in Supervisors, NEW i \in Ids, TickRequested(s, i)
      PROVE RestartInv'
  BY <1>16, NobodyAssumption, RestartKept DEF TypeOK, Live, Captured,
     Working, InTick, OnSession, InSession, TickRequested, Reach, Goto
<1>17. ASSUME NEW s \in Supervisors, NEW i \in Ids, TickAdvance(s, i)
      PROVE RestartInv'
  BY <1>17, NobodyAssumption, RestartKept DEF TypeOK, Live, Captured,
     Working, InTick, OnSession, InSession, TickAdvance, Reach, Goto
<1>18. ASSUME NEW s \in Supervisors, Begin(s) PROVE RestartInv'
  BY <1>18, NobodyAssumption, RestartKept DEF TypeOK, Live, Captured,
     Working, InTick, OnSession, InSession, Begin, Goto
<1>19. ASSUME NEW s \in Supervisors, ProbeFails(s) PROVE RestartInv'
  BY <1>19, NobodyAssumption, RestartKept DEF TypeOK, Live, Captured,
     Working, InTick, OnSession, InSession, ProbeFails, Goto
<1>20. ASSUME NEW s \in Supervisors, ProbeEnded(s) PROVE RestartInv'
  BY <1>20, NobodyAssumption, RestartKept DEF TypeOK, Live, Captured,
     Working, InTick, OnSession, InSession, ProbeEnded, Goto
<1>21. ASSUME NEW s \in Supervisors, Spawn(s) PROVE RestartInv'
  BY <1>21, NobodyAssumption, RestartKept DEF TypeOK, Live, Captured,
     Working, InTick, OnSession, InSession, Spawn, Goto
<1>22. ASSUME NEW s \in Supervisors, Describe(s) PROVE RestartInv'
  BY <1>22, NobodyAssumption, RestartKept DEF TypeOK, Live, Captured,
     Working, InTick, OnSession, InSession, Describe, Goto
<1>23. ASSUME NEW s \in Supervisors, NEW flowing \in BOOLEAN, DrainNothing(s,
      flowing) PROVE RestartInv'
  BY <1>23, NobodyAssumption, RestartKept DEF TypeOK, Live, Captured,
     Working, InTick, OnSession, InSession, DrainNothing, Goto
<1>24. ASSUME NEW s \in Supervisors, DrainChunk(s) PROVE RestartInv'
  <2>1. \A z \in Supervisors : InHand(z)' \subseteq InHand(z)
    OBVIOUS
  <2>2. \A i \in Ids : restarts'[i] = restarts[i] \/ restarts'[i] = 0
    BY <1>24 DEF TypeOK, DrainChunk
  <2>3. \A z \in Supervisors : pc'[z] \in InTick => pc[z] \in InTick
    BY <1>24 DEF TypeOK, DrainChunk, Goto, InTick, OnSession, InSession
  <2>4. lock' = lock /\ state' = state
    BY <1>24 DEF DrainChunk
  <2>5. \A z \in Supervisors : InHand(z) \subseteq Ids
    BY DEF TypeOK, InHand
  <2> QED BY <2>1, <2>2, <2>3, <2>4, <2>5, BoundsAssumption
       DEF RestartInv, RestartsBounded, Working
<1>25. ASSUME NEW s \in Supervisors, Stumble(s) PROVE RestartInv'
  BY <1>25, NobodyAssumption, RestartKept DEF TypeOK, Live, Captured,
     Working, InTick, OnSession, InSession, Stumble, Stumbles, Goto
<1>26. ASSUME NEW s \in Supervisors, Check(s) PROVE RestartInv'
  BY <1>26, NobodyAssumption, RestartKept DEF TypeOK, Live, Captured,
     Working, InTick, OnSession, InSession, Check, Stumbles, Goto
<1>27. ASSUME NEW s \in Supervisors, Finish(s) PROVE RestartInv'
  <2>1. lock = s /\ cur[s] \in InHand(s) /\ pc[s] \in InTick
    BY <1>27 DEF LockInv, InHand, Finish, InTick, OnSession
  <2>2. restarts[cur[s]] <= MaxRestarts /\ cur[s] \in Ids
    BY <2>1 DEF TypeOK, RestartInv, Working
  <2>3. RestartsBounded'
    BY <1>27, <2>2, BoundsAssumption DEF TypeOK, RestartInv, RestartsBounded,
       Finish
  <2>4. \A z \in Supervisors : InHand(z)' \subseteq InHand(z)
    OBVIOUS
  <2>5. restarts' = restarts /\ lock' = lock
    BY <1>27 DEF Finish
  <2>6. \A z \in Supervisors : pc'[z] \in InTick => pc[z] \in InTick
    BY <1>27 DEF TypeOK, Finish, Goto, InTick, OnSession, InSession
  <2> QED BY <2>3, <2>4, <2>5, <2>6 DEF RestartInv, Working
<1>28. ASSUME NEW s \in Supervisors, LoseConnection(s) PROVE RestartInv'
  BY <1>28, NobodyAssumption, RestartKept DEF TypeOK, Live, Captured,
     Working, InTick, OnSession, InSession, LoseConnection, Unlocked
<1>29. ASSUME NEW s \in Supervisors, Crash(s) PROVE RestartInv'
  BY <1>29, NobodyAssumption, RestartKept DEF TypeOK, Live, Captured,
     Working, InTick, OnSession, InSession, Crash, Forget, Unlocked, Goto
<1> QED BY <1>1, <1>2, <1>3, <1>4, <1>5, <1>6, <1>7, <1>8, <1>9, <1>10, <1>11,
   <1>12, <1>13, <1>14, <1>15, <1>16, <1>17, <1>18, <1>19, <1>20, <1>21,
   <1>22, <1>23, <1>24, <1>25, <1>26, <1>27, <1>28, <1>29 DEF
     Next, User, Supervise, Disturb, BeginTick, Sigterm, FfmpegExits

\* store.reconcile counts a restart only on a row it leaves within bounds or
\* fails, and no other step moves a row out of failed.
LEMMA RestartStep ==
  ASSUME TypeOK, LockInv, RestartInv, [Next]_vars
  PROVE  RestartInv'
<1>1. ASSUME NEW s \in Supervisors, BeginTick(s) PROVE RestartInv'
  <2>1. UNCHANGED <<state, restarts, lock>>
    BY <1>1 DEF BeginTick
  <2>2. \A i \in InHand(s)' : i \in Ids /\ state[i] \notin {"failed",
  "deleted"}
    BY <1>1, HandRead DEF Live
  <2>3. \A i \in InHand(s)' : restarts[i] <= MaxRestarts
    BY <2>2, BoundsAssumption DEF TypeOK, RestartInv, RestartsBounded
  <2>4. \A z \in Supervisors : z # s => lock # z
    BY <1>1 DEF LockInv, BeginTick
  <2> QED BY <2>1, <2>3, <2>4 DEF RestartInv, RestartsBounded, Working
<1>2. CASE ~\E s \in Supervisors : BeginTick(s)
  BY <1>2, HandStep, RestartOther
<1> QED BY <1>1, <1>2

-----------------------------------------------------------------------------
(* The invariant, and what follows from it.                                *)

\* The invariants hold before anything has happened.
LEMMA InitTyped == Init => TypeOK
<1> SUFFICES ASSUME Init PROVE TypeOK
  OBVIOUS
<1>1. /\ 0 \in Nat /\ 0 \in 0 .. MaxFaults
      /\ 0 \in Clock /\ NoClock \in Clock \cup {NoClock}
  BY BoundsAssumption DEF Clock
<1>2. /\ state \in [Ids -> States] /\ stream \in [Ids -> Streams]
      /\ heard \in [Ids -> BOOLEAN] /\ until \in [Ids -> Clock \cup {NoClock}]
      /\ restarts \in [Ids -> Nat] /\ resumes \in [Ids -> Clock]
  BY <1>1 DEF Init, States
<1>3. /\ lock \in Supervisors \cup {Nobody} /\ faults \in 0 .. MaxFaults
      /\ pc \in [Supervisors -> Stages] /\ sigterm \in [Supervisors -> BOOLEAN]
      /\ conn \in [Supervisors -> {"none", "open", "broken"}]
  BY <1>1 DEF Init, Stages
<1>4. /\ snap \in [Supervisors -> [Ids -> Snapshot]]
      /\ todo \in [Supervisors -> SUBSET Ids]
      /\ cur \in [Supervisors -> Ids] /\ verdict \in [Supervisors -> Endings]
      /\ own \in [Supervisors -> SUBSET Ids]
      /\ run \in [Supervisors -> [Ids -> Run]]
  BY RecordTypes DEF Init, Endings
<1> QED BY <1>2, <1>3, <1>4 DEF TypeOK

\* As does the strengthening.
LEMMA InitInvariant == Init => IInv
<1> SUFFICES ASSUME Init PROVE IInv
  OBVIOUS
<1>1. CapInv
  BY FS_EmptySet, MaxSessionsAssumption DEF Init, CapInv
<1>2. LockInv /\ RestInv
  BY NobodyAssumption DEF Init, LockInv, RestInv
<1>3. CurInv /\ SnapInv /\ SinceInv
  BY DEF Init, CurInv, SnapInv, SinceInv, OnSession, InSession
<1>4. NoOrphan
  BY DEF Init, NoOrphan, Captured
<1>5. \A s \in Supervisors : InHand(s) = {}
  BY DEF Init, InHand, OnSession, InSession
<1>6. StreamInv
  BY <1>5 DEF Init, StreamInv, Live
<1>7. RestartInv
  BY <1>5, BoundsAssumption DEF Init, RestartInv, RestartsBounded
<1> QED BY <1>1, <1>2, <1>3, <1>4, <1>6, <1>7 DEF IInv

\* No sequence of steps takes a variable out of its range.
THEOREM TypeCorrect == Spec => []TypeOK
  BY InitTyped, TypeStep, PTL DEF Spec, Safety

\* Every step keeps every conjunct of the strengthening.
LEMMA InvariantStep ==
  ASSUME TypeOK, IInv, [Next]_vars
  PROVE  IInv'
  BY LockStep, RestStep, CurStep, SnapStep, NoOrphanStep, CapStep, SinceStep,
     StreamStep, RestartStep DEF IInv

\* The strengthening holds in every reachable state.
THEOREM Invariance == Spec => []IInv
<1>1. TypeOK /\ IInv /\ [Next]_vars => IInv'
  BY InvariantStep
<1> QED BY <1>1, TypeCorrect, InitInvariant, PTL DEF Spec, Safety

\* However many sessions are asked for, and however many supervisors there
\* are, no process runs more captures than SKYBIRD_MAX_SESSIONS.
THEOREM CapIsKept == Spec => []CapHolds
<1>1. IInv => CapHolds
  BY DEF IInv, CapInv, CapHolds
<1> QED BY <1>1, Invariance, PTL

\* No process has two captures of one stream.
THEOREM ManifestsAreDistinct == Spec => []OneManifest
<1>1. IInv => OneManifest
  BY DEF IInv, StreamInv, InHand, OneManifest
<1> QED BY <1>1, Invariance, PTL

\* No captured row is without a capture at the holder of the lock, so the tick
\* never fails one as unowned.
THEOREM NothingIsOrphaned == Spec => []NoOrphan
<1>1. IInv => NoOrphan
  BY DEF IInv
<1> QED BY <1>1, Invariance, PTL

\* A clock that resume took away is not put back by anything heard late: only
\* by a capture that was claimed with an older one, from a snapshot read before
\* the resume.
THEOREM ClocksArePaused == Spec => NoClockAcrossPause
<1>1. IInv /\ TypeOK /\ [Next]_vars => [ClockStaysTaken]_vars
  BY ClockStep DEF IInv
<1> QED BY <1>1, Invariance, TypeCorrect, PTL DEF Spec, Safety,
   NoClockAcrossPause

\* A session that has cost more than MaxRestarts supervisors is failed.
THEOREM RestartsAreBounded == Spec => []RestartsBounded
<1>1. IInv => RestartsBounded
  BY DEF IInv, RestartInv
<1> QED BY <1>1, Invariance, PTL

-----------------------------------------------------------------------------
(***************************************************************************)
(* Skybird implements SkybirdSessions: whatever the users, the supervisors *)
(* and their accidents do, every step moves one row's phase the way the    *)
(* abstract specification allows, is a recovery, or moves none.            *)
(***************************************************************************)
USE DEF vars, rowVars, tickVars, localVars, OtherRows

\* The phase of a row says which states it may be in.
LEMMA PhaseMeans ==
  ASSUME TypeOK, NEW i \in Ids
  PROVE  /\ state[i] = "absent" <=> Phase[i] = "none"
         /\ state[i] = "requested" <=> Phase[i] = "waiting"
         /\ state[i] \in Captured <=> Phase[i] = "capturing"
         /\ state[i] = "paused" <=> Phase[i] = "held"
         /\ state[i] = "stopping" <=> Phase[i] = "ending"
         /\ state[i] \in Endings <=> Phase[i] = "ended"
         /\ state[i] = "deleted" <=> Phase[i] = "gone"
         /\ Phase[i] \in Sessions!Phases
         /\ state[i] \in Live <=> Phase[i] \in Sessions!LivePhases
  BY DEF TypeOK, States, Phase, PhaseOf, Captured, Endings, Live,
         Sessions!Phases, Sessions!LivePhases

\* As it does after a step.
LEMMA PhaseMeansNext ==
  ASSUME TypeOK', NEW i \in Ids
  PROVE  /\ state'[i] = "absent" <=> Phase'[i] = "none"
         /\ state'[i] = "requested" <=> Phase'[i] = "waiting"
         /\ state'[i] \in Captured <=> Phase'[i] = "capturing"
         /\ state'[i] = "paused" <=> Phase'[i] = "held"
         /\ state'[i] = "stopping" <=> Phase'[i] = "ending"
         /\ state'[i] \in Endings <=> Phase'[i] = "ended"
         /\ state'[i] = "deleted" <=> Phase'[i] = "gone"
         /\ Phase'[i] \in Sessions!Phases
         /\ state'[i] \in Live <=> Phase'[i] \in Sessions!LivePhases
  BY DEF TypeOK, States, Phase, PhaseOf, Captured, Endings, Live,
         Sessions!Phases, Sessions!LivePhases

\* A statement about one row moves one phase.
LEMMA OneMoves ==
  ASSUME TypeOK, NEW i \in Ids, \A j \in Ids : j # i => state'[j] = state[j]
  PROVE  Phase' = [Phase EXCEPT ![i] = Phase'[i]]
  BY DEF Phase

\* A step that writes no state and no stream is invisible to SkybirdSessions.
LEMMA PhaseStays ==
  ASSUME state' = state, stream' = stream
  PROVE  UNCHANGED Sessions!vars
  BY DEF Phase, Sessions!vars

\* _begin, describe and finish each write at most the row the tick is on.
LEMMA BeginRefines ==
  ASSUME TypeOK, TypeOK', NEW s \in Supervisors, Begin(s)
  PROVE  [Sessions!Next]_(Sessions!vars)
<1>1. cur[s] \in Ids /\ stream' = stream
  BY DEF TypeOK, Begin
<1>2. CASE state[cur[s]] = "requested"
  <2>1. /\ \A j \in Ids : j # cur[s] => state'[j] = state[j]
        /\ state'[cur[s]] = "starting"
    BY <1>1, <1>2 DEF TypeOK, Begin
  <2>2. Phase[cur[s]] = "waiting" /\ Phase'[cur[s]] = "capturing"
    BY <1>1, <1>2, <2>1, PhaseMeans, PhaseMeansNext DEF Captured
  <2>3. Sessions!Capture(cur[s])
    BY <1>1, <2>1, <2>2, OneMoves DEF Sessions!Capture, Sessions!Move
  <2> QED BY <1>1, <2>3 DEF Sessions!Next
<1>3. CASE state[cur[s]] # "requested"
  BY <1>1, <1>3, PhaseStays DEF Begin
<1> QED BY <1>2, <1>3

\* A probe's result moves a row within one phase.
LEMMA DescribeRefines ==
  ASSUME TypeOK, TypeOK', NEW s \in Supervisors, Describe(s)
  PROVE  UNCHANGED Sessions!vars
<1>1. stream' = stream /\ cur[s] \in Ids
  BY DEF TypeOK, Describe
<1>2. \A j \in Ids : \/ state'[j] = state[j]
                     \/ state[j] \in Captured /\ state'[j] \in Captured
  BY <1>1 DEF TypeOK, Describe, Captured
<1>3. ASSUME NEW j \in Ids PROVE PhaseOf(state'[j]) = PhaseOf(state[j])
  <2>1. CASE state'[j] = state[j]
    BY <2>1
  <2>2. CASE state[j] \in Captured /\ state'[j] \in Captured
    BY <2>2, PhaseMeans, PhaseMeansNext DEF Phase
  <2> QED BY <1>2, <2>1, <2>2
<1> QED BY <1>1, <1>3 DEF Phase, Sessions!vars

\* An ending is an End, unless the row had ended or was gone already.
LEMMA FinishRefines ==
  ASSUME TypeOK, TypeOK', StreamInv, NEW s \in Supervisors, Finish(s)
  PROVE  [Sessions!Next]_(Sessions!vars)
<1>1. cur[s] \in Ids /\ stream' = stream /\ state[cur[s]] # "absent"
  BY DEF TypeOK, StreamInv, InHand, Finish, OnSession
<1>2. \A j \in Ids : j # cur[s] => state'[j] = state[j]
  BY <1>1 DEF TypeOK, Finish
<1>3. CASE state[cur[s]] = "deleted"
  <2>1. state'[cur[s]] = state[cur[s]]
    BY <1>1, <1>3 DEF TypeOK, Finish
  <2>2. \A j \in Ids : state'[j] = state[j]
    BY <1>2, <2>1
  <2> QED BY <1>1, <2>2 DEF Phase, Sessions!vars
<1>4. CASE state[cur[s]] # "deleted"
  <2>1. state'[cur[s]] \in Endings
    BY <1>1, <1>4 DEF TypeOK, Finish
  <2>2. Phase'[cur[s]] = "ended"
    BY <1>1, <2>1, PhaseMeansNext
  <2>3. CASE state[cur[s]] \in Live
    <3>1. Phase[cur[s]] \in Sessions!LivePhases
      BY <1>1, <2>3, PhaseMeans
    <3>2. Sessions!End(cur[s])
      BY <1>1, <1>2, <2>2, <3>1, OneMoves DEF Sessions!End, Sessions!Move
    <3> QED BY <1>1, <3>2 DEF Sessions!Next
  <2>4. CASE state[cur[s]] \in Endings
    <3>1. Phase[cur[s]] = Phase'[cur[s]]
      BY <1>1, <2>2, <2>4, PhaseMeans
    <3>2. Phase' = Phase
      BY <1>1, <1>2, <3>1, OneMoves DEF Phase
    <3> QED BY <1>1, <3>2 DEF Sessions!vars
  <2> QED BY <1>1, <1>4, <2>3, <2>4 DEF TypeOK, States
<1> QED BY <1>3, <1>4

\* store.reconcile is the one statement that moves many rows.
LEMMA ReconcileRefines ==
  ASSUME TypeOK, TypeOK', ReconcileRows
  PROVE  Sessions!Recover
<1>1. \A i \in Ids :
        /\ state[i] \in Captured => state'[i] \in {"requested", "failed"}
        /\ state[i] = "stopping" => state'[i] = "stopped"
        /\ state[i] \notin Captured \cup {"stopping"} => state'[i] = state[i]
  BY DEF ReconcileRows, Captured
<1>2. ASSUME NEW i \in Ids
      PROVE  /\ Phase[i] = "capturing" => Phase'[i] \in {"waiting", "ended"}
             /\ Phase[i] = "ending" => Phase'[i] = "ended"
             /\ Phase[i] \notin {"capturing", "ending"} => Phase'[i] = Phase[i]
  <2>1. CASE state[i] \in Captured
    BY <1>1, <2>1, PhaseMeans, PhaseMeansNext DEF Endings, Captured
  <2>2. CASE state[i] = "stopping"
    BY <1>1, <2>2, PhaseMeans, PhaseMeansNext DEF Endings
  <2>3. CASE state[i] \notin Captured \cup {"stopping"}
    <3>1. Phase'[i] = Phase[i]
      BY <1>1, <2>3 DEF Phase
    <3> QED BY <2>3, <3>1, PhaseMeans
  <2> QED BY <2>1, <2>2, <2>3
<1>3. Phase' \in [Ids -> Sessions!Phases]
  <2>1. \A i \in Ids : PhaseOf(state'[i]) \in Sessions!Phases
    BY PhaseMeansNext DEF Phase
  <2> QED BY <2>1 DEF Phase
<1>4. stream' = stream
  BY DEF ReconcileRows
<1> QED BY <1>2, <1>3, <1>4 DEF Sessions!Recover

\* So does every statement of the dashboard.
LEMMA UserRefines ==
  ASSUME TypeOK, TypeOK', User
  PROVE  Sessions!Next
<1>1. ASSUME NEW i \in Ids, NEW st \in Streams, Create(i, st)
      PROVE Sessions!Next
  <2>1. /\ \A j \in Ids : j # i => state'[j] = state[j]
        /\ state'[i] = "requested" /\ stream' = [stream EXCEPT ![i] = st]
    BY <1>1 DEF TypeOK, Create
  <2>2. Phase[i] = "none" /\ Phase'[i] = "waiting"
    BY <1>1, <2>1, PhaseMeans, PhaseMeansNext DEF Create
  <2>3. \A j \in Ids : Phase[j] \in Sessions!LivePhases => stream[j] # st
    BY <1>1, PhaseMeans DEF Create
  <2>4. Sessions!Ask(i, st)
    BY <2>1, <2>2, <2>3, OneMoves DEF Sessions!Ask
  <2> QED BY <2>4 DEF Sessions!Next
<1>2. ASSUME NEW i \in Ids, RequestStop(i) PROVE Sessions!Next
  <2>1. /\ \A j \in Ids : j # i => state'[j] = state[j]
        /\ state'[i] = IF state[i] \in Captured THEN "stopping" ELSE "stopped"
        /\ state[i] \in Live /\ stream' = stream
    BY <1>2 DEF TypeOK, RequestStop
  <2>2. CASE state[i] \in Captured
    <3>1. Phase[i] = "capturing" /\ Phase'[i] = "ending"
      BY <2>1, <2>2, PhaseMeans, PhaseMeansNext
    <3>2. Sessions!Stop(i)
      BY <2>1, <3>1, OneMoves DEF Sessions!Stop, Sessions!Move
    <3> QED BY <3>2 DEF Sessions!Next
  <2>3. CASE state[i] \notin Captured
    <3>1. Phase[i] \in Sessions!LivePhases /\ Phase'[i] = "ended"
      BY <2>1, <2>3, PhaseMeans, PhaseMeansNext DEF Endings
    <3>2. Sessions!End(i)
      BY <2>1, <3>1, OneMoves DEF Sessions!End, Sessions!Move
    <3> QED BY <3>2 DEF Sessions!Next
  <2> QED BY <2>2, <2>3
<1>3. ASSUME NEW i \in Ids, Pause(i) PROVE Sessions!Next
  <2>1. /\ \A j \in Ids : j # i => state'[j] = state[j]
        /\ state'[i] = "paused" /\ stream' = stream
    BY <1>3 DEF TypeOK, Pause
  <2>2. Phase[i] \in {"waiting", "capturing"} /\ Phase'[i] = "held"
    BY <1>3, <2>1, PhaseMeans, PhaseMeansNext DEF Pause
  <2>3. Sessions!Hold(i)
    BY <2>1, <2>2, OneMoves DEF Sessions!Hold, Sessions!Move
  <2> QED BY <2>3 DEF Sessions!Next
<1>4. ASSUME NEW i \in Ids, Resume(i) PROVE Sessions!Next
  <2>1. /\ \A j \in Ids : j # i => state'[j] = state[j]
        /\ state'[i] = "requested" /\ stream' = stream
    BY <1>4 DEF TypeOK, Resume
  <2>2. Phase[i] = "held" /\ Phase'[i] = "waiting"
    BY <1>4, <2>1, PhaseMeans, PhaseMeansNext DEF Resume
  <2>3. Sessions!Resume(i)
    BY <2>1, <2>2, OneMoves DEF Sessions!Resume, Sessions!Move
  <2> QED BY <2>3 DEF Sessions!Next
<1>5. ASSUME NEW i \in Ids, Delete(i) PROVE Sessions!Next
  <2>1. /\ \A j \in Ids : j # i => state'[j] = state[j]
        /\ state'[i] = "deleted" /\ stream' = stream
    BY <1>5 DEF TypeOK, Delete
  <2>2. Phase[i] \in Sessions!Phases \ {"none", "gone"} /\ Phase'[i] = "gone"
    BY <1>5, <2>1, PhaseMeans, PhaseMeansNext DEF Delete
  <2>3. Sessions!Delete(i)
    BY <2>1, <2>2, OneMoves DEF Sessions!Delete, Sessions!Move
  <2> QED BY <2>3 DEF Sessions!Next
<1> QED BY <1>1, <1>2, <1>3, <1>4, <1>5 DEF User

\* Every step is a step of SkybirdSessions or leaves the phases alone.
LEMMA StepRefines ==
  ASSUME TypeOK, TypeOK', StreamInv, [Next]_vars
  PROVE  [Sessions!Next]_(Sessions!vars)
<1>1. CASE UNCHANGED <<vars>>
  BY <1>1, PhaseStays
<1>2. ASSUME NEW i \in Ids, NEW st \in Streams, Create(i, st)
      PROVE [Sessions!Next]_(Sessions!vars)
  BY <1>2, UserRefines DEF User
<1>3. ASSUME NEW i \in Ids, RequestStop(i)
      PROVE [Sessions!Next]_(Sessions!vars)
  BY <1>3, UserRefines DEF User
<1>4. ASSUME NEW i \in Ids, Pause(i) PROVE [Sessions!Next]_(Sessions!vars)
  BY <1>4, UserRefines DEF User
<1>5. ASSUME NEW i \in Ids, Resume(i) PROVE [Sessions!Next]_(Sessions!vars)
  BY <1>5, UserRefines DEF User
<1>6. ASSUME NEW i \in Ids, Delete(i) PROVE [Sessions!Next]_(Sessions!vars)
  BY <1>6, UserRefines DEF User
<1>7. ASSUME NEW s \in Supervisors, Boot(s)
      PROVE [Sessions!Next]_(Sessions!vars)
  BY <1>7, PhaseStays DEF Boot
<1>8. ASSUME NEW s \in Supervisors, Connect(s)
      PROVE [Sessions!Next]_(Sessions!vars)
  BY <1>8, PhaseStays DEF Connect
<1>9. ASSUME NEW s \in Supervisors, Reconcile(s)
      PROVE [Sessions!Next]_(Sessions!vars)
  BY <1>9, ReconcileRefines DEF Reconcile, Sessions!Next
<1>10. ASSUME NEW s \in Supervisors, DropConnection(s)
      PROVE [Sessions!Next]_(Sessions!vars)
  BY <1>10, PhaseStays DEF DropConnection
<1>11. ASSUME NEW s \in Supervisors, Settle(s)
      PROVE [Sessions!Next]_(Sessions!vars)
  BY <1>11, ReconcileRefines, PhaseStays DEF Settle, Sessions!Next
<1>12. ASSUME NEW s \in Supervisors, Leave(s)
      PROVE [Sessions!Next]_(Sessions!vars)
  BY <1>12, PhaseStays DEF Leave
<1>13. ASSUME NEW s \in Supervisors, BeginTick(s)
      PROVE [Sessions!Next]_(Sessions!vars)
  BY <1>13, PhaseStays DEF BeginTick
<1>14. ASSUME NEW s \in Supervisors, EndTick(s)
      PROVE [Sessions!Next]_(Sessions!vars)
  BY <1>14, PhaseStays DEF EndTick
<1>15. ASSUME NEW s \in Supervisors, NEW i \in Ids, TickSettle(s, i)
      PROVE [Sessions!Next]_(Sessions!vars)
  BY <1>15, PhaseStays DEF TickSettle, Reach
<1>16. ASSUME NEW s \in Supervisors, NEW i \in Ids, TickPaused(s, i)
      PROVE [Sessions!Next]_(Sessions!vars)
  BY <1>16, PhaseStays DEF TickPaused, Reach
<1>17. ASSUME NEW s \in Supervisors, NEW i \in Ids, TickRequested(s, i)
      PROVE [Sessions!Next]_(Sessions!vars)
  BY <1>17, PhaseStays DEF TickRequested, Reach
<1>18. ASSUME NEW s \in Supervisors, NEW i \in Ids, TickAdvance(s, i)
      PROVE [Sessions!Next]_(Sessions!vars)
  BY <1>18, PhaseStays DEF TickAdvance, Reach
<1>19. ASSUME NEW s \in Supervisors, Begin(s)
      PROVE [Sessions!Next]_(Sessions!vars)
  BY <1>19, BeginRefines
<1>20. ASSUME NEW s \in Supervisors, ProbeFails(s)
      PROVE [Sessions!Next]_(Sessions!vars)
  BY <1>20, PhaseStays DEF ProbeFails
<1>21. ASSUME NEW s \in Supervisors, ProbeEnded(s)
      PROVE [Sessions!Next]_(Sessions!vars)
  BY <1>21, PhaseStays DEF ProbeEnded
<1>22. ASSUME NEW s \in Supervisors, Spawn(s)
      PROVE [Sessions!Next]_(Sessions!vars)
  BY <1>22, PhaseStays DEF Spawn
<1>23. ASSUME NEW s \in Supervisors, Describe(s)
      PROVE [Sessions!Next]_(Sessions!vars)
  BY <1>23, DescribeRefines
<1>24. ASSUME NEW s \in Supervisors, NEW flowing \in BOOLEAN, DrainNothing(s,
      flowing) PROVE [Sessions!Next]_(Sessions!vars)
  BY <1>24, PhaseStays DEF DrainNothing
<1>25. ASSUME NEW s \in Supervisors, DrainChunk(s)
      PROVE [Sessions!Next]_(Sessions!vars)
  BY <1>25, PhaseStays DEF DrainChunk
<1>26. ASSUME NEW s \in Supervisors, Stumble(s)
      PROVE [Sessions!Next]_(Sessions!vars)
  BY <1>26, PhaseStays DEF Stumble
<1>27. ASSUME NEW s \in Supervisors, Check(s)
      PROVE [Sessions!Next]_(Sessions!vars)
  BY <1>27, PhaseStays DEF Check
<1>28. ASSUME NEW s \in Supervisors, Finish(s)
      PROVE [Sessions!Next]_(Sessions!vars)
  BY <1>28, FinishRefines
<1>29. ASSUME NEW s \in Supervisors, LoseConnection(s)
      PROVE [Sessions!Next]_(Sessions!vars)
  BY <1>29, PhaseStays DEF LoseConnection
<1>30. ASSUME NEW s \in Supervisors, Crash(s)
      PROVE [Sessions!Next]_(Sessions!vars)
  BY <1>30, PhaseStays DEF Crash
<1>31. ASSUME NEW s \in Supervisors, Sigterm(s)
      PROVE [Sessions!Next]_(Sessions!vars)
  BY <1>31, PhaseStays DEF Sigterm
<1>32. ASSUME NEW s \in Supervisors, NEW i \in Ids, FfmpegExits(s, i)
      PROVE [Sessions!Next]_(Sessions!vars)
  BY <1>32, PhaseStays DEF FfmpegExits
<1> QED BY <1>1, <1>2, <1>3, <1>4, <1>5, <1>6, <1>7, <1>8, <1>9, <1>10, <1>11,
   <1>12, <1>13, <1>14, <1>15, <1>16, <1>17, <1>18, <1>19, <1>20, <1>21,
   <1>22, <1>23, <1>24, <1>25, <1>26, <1>27, <1>28, <1>29, <1>30, <1>31,
   <1>32 DEF
     Next, User, Supervise, Disturb

\* No row has been asked for at first.
LEMMA InitRefines == Init => Sessions!Init
<1> SUFFICES ASSUME Init PROVE Sessions!Init
  OBVIOUS
<1>1. \A i \in Ids : PhaseOf(state[i]) = "none"
  <2>1. \A i \in Ids : state[i] = "absent"
    BY DEF Init
  <2> QED BY <2>1, InitTyped, PhaseMeans DEF Phase
<1> QED BY <1>1 DEF Init, Phase, Sessions!Init

\* Whatever the supervisors and their accidents do, the rows live the lives
\* SkybirdSessions describes: a stream has one live session, an ended session
\* never comes back, and a stop is never taken back.
THEOREM SessionsRefined == Spec => Sessions!Safety
<1>1. /\ TypeOK /\ TypeOK' /\ IInv /\ [Next]_vars
      => [Sessions!Next]_(Sessions!vars)
  BY StepRefines DEF IInv
<1> QED BY <1>1, InitRefines, TypeCorrect, Invariance, PTL
     DEF Spec, Safety, Sessions!Safety
=============================================================================
