------------------------------ MODULE Skybird ------------------------------
(***************************************************************************)
(* The control plane of skybird, the live-stream capture of screener.      *)
(*                                                                         *)
(* The dashboard and the CLI write rows of skybird.stream_session          *)
(* (skybird/store.py); supervisor processes (skybird/supervisor.py), of    *)
(* which the one holding a Postgres advisory lock works, poll the rows and *)
(* run one ffmpeg per captured session.  Every SQL statement is a step of  *)
(* its own, because users' statements interleave with a tick's; a tick     *)
(* works from the rows it read at its start.  Processes crash, get         *)
(* SIGTERM, and lose their connection, and with it the lock, before they   *)
(* know it.                                                                *)
(*                                                                         *)
(* The capture clock is abstracted to what the rewind promise needs:       *)
(* captured_until is the number of times the session had been resumed when *)
(* the audio it stands for was captured, or NoClock for null.              *)
(***************************************************************************)
EXTENDS Naturals, FiniteSets

CONSTANTS
    Ids,          \* session ids, naturals in order of requested_at
    Streams,      \* what (platform, external_id) names
    Supervisors,  \* supervisor containers
    MaxSessions,  \* SKYBIRD_MAX_SESSIONS
    MaxRestarts,  \* MAX_RESTARTS
    MaxFailures,  \* MAX_FAILURES
    MaxResumes,   \* bound: resumes of one session
    MaxFaults,    \* bound: crashes, SIGTERMs and lost connections together
    Nobody        \* no supervisor: the lock is free

ASSUME IdsAssumption == Ids \subseteq Nat
ASSUME MaxSessionsAssumption == MaxSessions \in Nat \ {0}
ASSUME BoundsAssumption ==
    /\ MaxRestarts \in Nat
    /\ MaxFailures \in Nat \ {0}
    /\ MaxResumes \in Nat
    /\ MaxFaults \in Nat
ASSUME NobodyAssumption == Nobody \notin Supervisors

VARIABLES
    \* columns of skybird.stream_session, by id
    state,      \* "absent" before the insert, "deleted" after the delete
    stream,     \* (platform, external_id)
    heard,      \* captured_seconds > 0
    until,      \* captured_until
    restarts,
    resumes,    \* ghost: how many times the row has been resumed
    \* the advisory lock, and what can go wrong
    lock,       \* the supervisor whose backend holds it, or Nobody
    faults,
    \* one supervisor process each
    pc,         \* where it is: see Stages
    sigterm,    \* _stopping
    conn,       \* _conn, and whether its backend is still there
    snap,       \* the rows of the last store.pending, by id
    todo,       \* ids of that snapshot the tick has not reached
    cur,        \* the id the tick is on
    verdict,    \* the ending about to be written
    own,        \* the keys of _running
    run         \* the values of _running: see Run

rowVars == <<state, stream, heard, until, restarts, resumes>>
tickVars == <<snap, todo, cur, verdict>>
localVars == <<pc, sigterm, conn, tickVars, own, run>>
vars == <<rowVars, lock, faults, localVars>>

Live == {"requested", "starting", "running", "paused", "stopping"}
Captured == {"starting", "running"}
Endings == {"stopped", "failed"}
States == Live \cup Endings \cup {"absent", "deleted"}

Clock == 0 .. MaxResumes
NoClock == MaxResumes + 1

\* A supervisor is down, at the top of its loop, taking the lock, in a tick at
\* the statement or the outside call named, or on its way out.
InSession == {"probe", "describe", "drain", "check", "stumble"}
Stages == {"down", "idle", "reconcile", "poll", "tick", "begin", "finish",
           "leaving"} \cup InSession

\* One capture a process owns: `until` is where its next connect rewinds to,
\* `since` the resume it was claimed after.
Run == [capture  : {"none", "live", "exited"},
        failures : 0 .. MaxFailures - 1,
        heard    : BOOLEAN,
        until    : Clock \cup {NoClock},
        since    : Clock]
NoRun == [capture |-> "none", failures |-> 0, heard |-> FALSE,
          until |-> NoClock, since |-> 0]

Begun(row, since) ==
    [capture |-> "none", failures |-> 0, heard |-> row.heard,
     until |-> row.until, since |-> since]
Spawned(r) == [r EXCEPT !.capture = "live"]
Exited(r) == [r EXCEPT !.capture = "exited"]
Flowed(r) == [r EXCEPT !.failures = 0]

\* What a chunk may have been captured after: with nothing to rewind to ffmpeg
\* starts at the live edge; otherwise as far back as the clock it was given, or
\* as near to now as the playlist and the limit on a rewind let it.
Reached(r) == IF r.until = NoClock THEN {r.since} ELSE r.until .. r.since
Accounted(r, e) == [r EXCEPT !.failures = 0, !.heard = TRUE, !.until = e]
BackedOff(r) == [r EXCEPT !.failures = @ + 1, !.capture = "none"]

Snapshot == [state : States, heard : BOOLEAN, until : Clock \cup {NoClock}]
NoSnapshot == [state |-> "absent", heard |-> FALSE, until |-> NoClock]

Init ==
    /\ state = [i \in Ids |-> "absent"]
    /\ stream \in [Ids -> Streams]
    /\ heard = [i \in Ids |-> FALSE]
    /\ until = [i \in Ids |-> NoClock]
    /\ restarts = [i \in Ids |-> 0]
    /\ resumes = [i \in Ids |-> 0]
    /\ lock = Nobody
    /\ faults = 0
    /\ pc = [s \in Supervisors |-> "down"]
    /\ sigterm = [s \in Supervisors |-> FALSE]
    /\ conn = [s \in Supervisors |-> "none"]
    /\ snap = [s \in Supervisors |-> [i \in Ids |-> NoSnapshot]]
    /\ todo = [s \in Supervisors |-> {}]
    /\ cur \in [Supervisors -> Ids]
    /\ verdict = [s \in Supervisors |-> "stopped"]
    /\ own = [s \in Supervisors |-> {}]
    /\ run = [s \in Supervisors |-> [i \in Ids |-> NoRun]]

-----------------------------------------------------------------------------
(* The dashboard and the CLI: one statement each, at any moment.           *)

\* store.create: the partial unique index refuses a stream with a live row.
\* The API's count of active rows is a message and not an enforcement, and the
\* CLI has none, so no guard here bounds how many are asked for.
Create(i, st) ==
    /\ state[i] = "absent"
    /\ \A j \in Ids : j < i => state[j] # "absent"
    /\ \A j \in Ids : state[j] \in Live => stream[j] # st
    /\ state' = [state EXCEPT ![i] = "requested"]
    /\ stream' = [stream EXCEPT ![i] = st]
    /\ UNCHANGED <<heard, until, restarts, resumes, lock, faults, localVars>>

\* store.request_stop: a row with no process behind it is stopped at once.
RequestStop(i) ==
    /\ state[i] \in Live \ {"stopping"}
    /\ state' = [state EXCEPT ![i] =
           IF @ \in Captured THEN "stopping" ELSE "stopped"]
    /\ UNCHANGED <<stream, heard, until, restarts, resumes, lock, faults,
                   localVars>>

Pause(i) ==
    /\ state[i] \in Captured \cup {"requested"}
    /\ state' = [state EXCEPT ![i] = "paused"]
    /\ UNCHANGED <<stream, heard, until, restarts, resumes, lock, faults,
                   localVars>>

\* store.resume: back in the queue, and the clock goes with the pause.
Resume(i) ==
    /\ state[i] = "paused"
    /\ resumes[i] < MaxResumes
    /\ state' = [state EXCEPT ![i] = "requested"]
    /\ until' = [until EXCEPT ![i] = NoClock]
    /\ resumes' = [resumes EXCEPT ![i] = @ + 1]
    /\ UNCHANGED <<stream, heard, restarts, lock, faults, localVars>>

Delete(i) ==
    /\ state[i] \notin {"absent", "deleted"}
    /\ state' = [state EXCEPT ![i] = "deleted"]
    /\ UNCHANGED <<stream, heard, until, restarts, resumes, lock, faults,
                   localVars>>

User ==
    \E i \in Ids :
        \/ \E st \in Streams : Create(i, st)
        \/ RequestStop(i) \/ Pause(i) \/ Resume(i) \/ Delete(i)

-----------------------------------------------------------------------------
(* Processes, the lock and the connection it rides on.                     *)

Goto(s, stage) == pc' = [pc EXCEPT ![s] = stage]

\* _release: the ffmpegs of S stop and their entries go.
Release(s, S) ==
    /\ own' = [own EXCEPT ![s] = @ \ S]
    /\ run' = [run EXCEPT ![s] =
           [i \in Ids |-> IF i \in S THEN NoRun ELSE @[i]]]

\* The tick ends or is abandoned, and what it read goes with it.
Forget(s) ==
    /\ snap' = [snap EXCEPT ![s] = [i \in Ids |-> NoSnapshot]]
    /\ todo' = [todo EXCEPT ![s] = {}]
    /\ verdict' = [verdict EXCEPT ![s] = "stopped"]

Unlocked(s) == IF lock = s THEN Nobody ELSE lock

\* Mutant: whatever was being captured is always put back in the queue.
ReconcileRowsForEver ==
    /\ state' = [i \in Ids |->
           IF state[i] = "stopping" THEN "stopped"
           ELSE IF state[i] \in Captured THEN "requested" ELSE state[i]]
    /\ restarts' = [i \in Ids |->
           IF state[i] \in Captured THEN restarts[i] + 1 ELSE restarts[i]]
    /\ UNCHANGED <<stream, heard, until, resumes>>

\* store.reconcile: one statement over every row that implies a process.
ReconcileRows ==
    /\ state' = [i \in Ids |->
           IF state[i] = "stopping" THEN "stopped"
           ELSE IF state[i] \notin Captured THEN state[i]
           ELSE IF restarts[i] >= MaxRestarts THEN "failed" ELSE "requested"]
    /\ restarts' = [i \in Ids |->
           IF state[i] \in Captured THEN restarts[i] + 1 ELSE restarts[i]]
    /\ UNCHANGED <<stream, heard, until, resumes>>

\* The container starts, or is started again.
Boot(s) ==
    /\ pc[s] = "down"
    /\ Goto(s, "idle")
    /\ sigterm' = [sigterm EXCEPT ![s] = FALSE]
    /\ UNCHANGED <<rowVars, lock, faults, conn, tickVars, own, run>>

\* Mutant: a lock taken, and what the last supervisor left not reconciled.
ConnectUnreconciled(s) ==
    /\ pc[s] = "idle"
    /\ ~sigterm[s]
    /\ conn[s] = "none"
    /\ lock = Nobody
    /\ lock' = s
    /\ conn' = [conn EXCEPT ![s] = "open"]
    /\ Goto(s, "poll")
    /\ UNCHANGED <<rowVars, faults, sigterm, tickVars, own, run>>

\* _connection: connect and try the lock.  While another backend has it the
\* connection is closed again and nothing changes.
Connect(s) ==
    /\ pc[s] = "idle"
    /\ ~sigterm[s]
    /\ conn[s] = "none"
    /\ lock = Nobody
    /\ lock' = s
    /\ conn' = [conn EXCEPT ![s] = "open"]
    /\ Goto(s, "reconcile")
    /\ UNCHANGED <<rowVars, faults, sigterm, tickVars, own, run>>

\* Once per lock taken, before anything is started.
Reconcile(s) ==
    /\ pc[s] = "reconcile"
    /\ conn[s] = "open"
    /\ ReconcileRows
    /\ Goto(s, "poll")
    /\ UNCHANGED <<lock, faults, sigterm, conn, tickVars, own, run>>

\* The backend goes: a Postgres restart, a cut network, a failed statement.
\* The lock goes with it, and the process does not know yet.
LoseConnection(s) ==
    /\ conn[s] = "open"
    /\ faults < MaxFaults
    /\ faults' = faults + 1
    /\ conn' = [conn EXCEPT ![s] = "broken"]
    /\ lock' = Unlocked(s)
    /\ UNCHANGED <<rowVars, pc, sigterm, tickVars, own, run>>

\* The next statement raises, and serve drops the connection and every capture.
DropConnection(s) ==
    /\ conn[s] = "broken"
    /\ pc[s] \in {"reconcile", "poll", "begin", "describe", "drain", "stumble",
                  "finish"}
           \/ (pc[s] = "idle" /\ ~sigterm[s])
    /\ Release(s, Ids)
    /\ Forget(s)
    /\ conn' = [conn EXCEPT ![s] = "none"]
    /\ Goto(s, "idle")
    /\ UNCHANGED <<rowVars, lock, faults, sigterm, cur>>

\* The process dies with its container, and its ffmpegs and backend with it.
Crash(s) ==
    /\ pc[s] # "down"
    /\ faults < MaxFaults
    /\ faults' = faults + 1
    /\ Release(s, Ids)
    /\ Forget(s)
    /\ conn' = [conn EXCEPT ![s] = "none"]
    /\ lock' = Unlocked(s)
    /\ Goto(s, "down")
    /\ UNCHANGED <<rowVars, sigterm, cur>>

Sigterm(s) ==
    /\ pc[s] \notin {"down", "leaving"}
    /\ ~sigterm[s]
    /\ faults < MaxFaults
    /\ faults' = faults + 1
    /\ sigterm' = [sigterm EXCEPT ![s] = TRUE]
    /\ UNCHANGED <<rowVars, lock, pc, conn, tickVars, own, run>>

\* shutdown: the rows are settled first, if the database is there to be told.
Settle(s) ==
    /\ pc[s] = "idle"
    /\ sigterm[s]
    /\ IF conn[s] = "open" THEN ReconcileRows ELSE UNCHANGED rowVars
    /\ Goto(s, "leaving")
    /\ UNCHANGED <<lock, faults, sigterm, conn, tickVars, own, run>>

\* Then the ffmpegs stop, and the connection closes last.
Leave(s) ==
    /\ pc[s] = "leaving"
    /\ Release(s, Ids)
    /\ conn' = [conn EXCEPT ![s] = "none"]
    /\ lock' = Unlocked(s)
    /\ Goto(s, "down")
    /\ UNCHANGED <<rowVars, faults, sigterm, tickVars>>

-----------------------------------------------------------------------------
(* tick: settle the roster, then move audio.                               *)

\* Mutant: an ffmpeg whose row is gone is left running.
BeginTickKeepingOrphans(s) ==
    /\ pc[s] = "poll" \/ (pc[s] = "idle" /\ ~sigterm[s])
    /\ conn[s] = "open"
    /\ LET live == {i \in Ids : state[i] \in Live}
       IN  /\ snap' = [snap EXCEPT ![s] =
                 [i \in Ids |-> IF i \in live
                     THEN [state |-> state[i], heard |-> heard[i],
                           until |-> until[i]]
                     ELSE NoSnapshot]]
           /\ todo' = [todo EXCEPT ![s] = live]
    /\ Goto(s, "tick")
    /\ UNCHANGED <<rowVars, lock, faults, sigterm, conn, cur, verdict, own, run>>

\* Read the live rows; an ffmpeg whose row is not among them stops first.
BeginTick(s) ==
    /\ pc[s] = "poll" \/ (pc[s] = "idle" /\ ~sigterm[s])
    /\ conn[s] = "open"
    /\ LET live == {i \in Ids : state[i] \in Live}
       IN  /\ snap' = [snap EXCEPT ![s] =
                 [i \in Ids |-> IF i \in live
                     THEN [state |-> state[i], heard |-> heard[i],
                           until |-> until[i]]
                     ELSE NoSnapshot]]
           /\ todo' = [todo EXCEPT ![s] = live]
           /\ Release(s, Ids \ live)
    /\ Goto(s, "tick")
    /\ UNCHANGED <<rowVars, lock, faults, sigterm, conn, cur, verdict>>

\* The tick reaches the oldest request it has not dealt with.
Reach(s, i) ==
    /\ pc[s] = "tick"
    /\ i \in todo[s]
    /\ \A j \in todo[s] : i <= j
    /\ todo' = [todo EXCEPT ![s] = @ \ {i}]
    /\ cur' = [cur EXCEPT ![s] = i]
    /\ snap' = [snap EXCEPT ![s] =
           [j \in Ids |-> IF j \in todo[s] THEN @[j] ELSE NoSnapshot]]
    /\ UNCHANGED <<rowVars, lock, faults, sigterm, conn>>

\* 'stopping' is ended; 'starting' or 'running' with nothing behind it is
\* failed rather than adopted.
TickSettle(s, i) ==
    /\ Reach(s, i)
    /\ snap[s][i].state = "stopping"
           \/ (snap[s][i].state \in Captured /\ i \notin own[s])
    /\ verdict' = [verdict EXCEPT ![s] =
           IF snap[s][i].state = "stopping" THEN "stopped" ELSE "failed"]
    /\ Release(s, {i})
    /\ Goto(s, "finish")

\* Mutant: a pause that leaves its ffmpeg running.
TickPausedIgnored(s, i) ==
    /\ Reach(s, i)
    /\ snap[s][i].state = "paused"
    /\ UNCHANGED <<pc, verdict, own, run>>

TickPaused(s, i) ==
    /\ Reach(s, i)
    /\ snap[s][i].state = "paused"
    /\ Release(s, {i})
    /\ UNCHANGED <<pc, verdict>>

\* Mutant: one capture more than the cap.
TickRequestedAtCap(s, i) ==
    /\ Reach(s, i)
    /\ snap[s][i].state = "requested"
    /\ Release(s, {i})
    /\ Goto(s, IF ~sigterm[s] /\ Cardinality(own[s] \ {i}) <= MaxSessions
               THEN "begin" ELSE "tick")
    /\ UNCHANGED verdict

\* An old ffmpeg goes first; then the cap decides, unless SIGTERM has.
TickRequested(s, i) ==
    /\ Reach(s, i)
    /\ snap[s][i].state = "requested"
    /\ Release(s, {i})
    /\ Goto(s, IF ~sigterm[s] /\ Cardinality(own[s] \ {i}) < MaxSessions
               THEN "begin" ELSE "tick")
    /\ UNCHANGED verdict

\* _advance: a capture with no ffmpeg reconnects once its backoff is over.
TickAdvance(s, i) ==
    /\ Reach(s, i)
    /\ snap[s][i].state \in Captured
    /\ i \in own[s]
    /\ \/ run[s][i].capture # "none" /\ Goto(s, "drain")
       \/ run[s][i].capture = "none" /\ Goto(s, "probe")
       \/ run[s][i].capture = "none" /\ UNCHANGED pc
    /\ UNCHANGED <<verdict, own, run>>

EndTick(s) ==
    /\ pc[s] = "tick"
    /\ todo[s] = {}
    /\ Forget(s)
    /\ Goto(s, "idle")
    /\ UNCHANGED <<rowVars, lock, faults, sigterm, conn, cur, own, run>>

-----------------------------------------------------------------------------
(* One capture: _begin, _connect_stream, _drain, _stumble, store.finish.   *)

OtherRows == <<stream, resumes, lock, faults, sigterm, conn, tickVars>>

\* store.start claims the row; what the capture carries on from is taken from
\* the snapshot and not from the row.
Begin(s) ==
    /\ pc[s] = "begin"
    /\ conn[s] = "open"
    /\ IF state[cur[s]] = "requested"
       THEN /\ state' = [state EXCEPT ![cur[s]] = "starting"]
            /\ own' = [own EXCEPT ![s] = @ \cup {cur[s]}]
            /\ run' = [run EXCEPT ![s][cur[s]] =
                   Begun(snap[s][cur[s]], resumes[cur[s]])]
            /\ Goto(s, "probe")
       ELSE /\ Goto(s, "tick")
            /\ UNCHANGED <<state, own, run>>
    /\ UNCHANGED <<heard, until, restarts, OtherRows>>

\* The probe fails, or ffmpeg will not start.
ProbeFails(s) ==
    /\ pc[s] = "probe"
    /\ Goto(s, "stumble")
    /\ UNCHANGED <<state, heard, until, restarts, own, run, OtherRows>>

\* It was live and now is not: an ordinary ending.
ProbeEnded(s) ==
    /\ pc[s] = "probe"
    /\ run[s][cur[s]].heard
    /\ Release(s, {cur[s]})
    /\ verdict' = [verdict EXCEPT ![s] = "stopped"]
    /\ Goto(s, "finish")
    /\ UNCHANGED <<rowVars, lock, faults, sigterm, conn, snap, todo, cur>>

\* ffmpeg starts, as far behind live as run.until asks for.
Spawn(s) ==
    /\ pc[s] = "probe"
    /\ run' = [run EXCEPT ![s][cur[s]] = Spawned(@)]
    /\ Goto(s, "describe")
    /\ UNCHANGED <<state, heard, until, restarts, own, OtherRows>>

\* Mutant: the probe's result overwrites whatever the row has become.
DescribeRegardless(s) ==
    /\ pc[s] = "describe"
    /\ conn[s] = "open"
    /\ state' = [state EXCEPT ![cur[s]] =
           IF @ = "deleted" THEN @ ELSE "running"]
    /\ Goto(s, "tick")
    /\ UNCHANGED <<heard, until, restarts, own, run, OtherRows>>

\* store.describe: only a row still being started becomes 'running'.
Describe(s) ==
    /\ pc[s] = "describe"
    /\ conn[s] = "open"
    /\ state' = [state EXCEPT ![cur[s]] =
           IF @ \in Captured THEN "running" ELSE @]
    /\ Goto(s, "tick")
    /\ UNCHANGED <<heard, until, restarts, own, run, OtherRows>>

FfmpegExits(s, i) ==
    /\ run[s][i].capture = "live"
    /\ run' = [run EXCEPT ![s][i] = Exited(@)]
    /\ UNCHANGED <<rowVars, lock, faults, pc, sigterm, conn, tickVars, own>>

\* _drain that accounts for nothing: no chunk, or chunks held for later.
DrainNothing(s, flowing) ==
    /\ pc[s] = "drain"
    /\ run' = [run EXCEPT ![s][cur[s]] = IF flowing THEN Flowed(@) ELSE @]
    /\ Goto(s, "check")
    /\ UNCHANGED <<state, heard, until, restarts, own, OtherRows>>

\* Mutant: a late chunk moves the clock of a paused row too.
DrainChunkLate(s) ==
    /\ pc[s] = "drain"
    /\ conn[s] = "open"
    /\ LET i == cur[s] IN \E e \in Reached(run[s][i]) :
       /\ run' = [run EXCEPT ![s][i] = Accounted(@, e)]
       /\ IF state[i] = "deleted"
          THEN UNCHANGED <<heard, until, restarts>>
          ELSE /\ heard' = [heard EXCEPT ![i] = TRUE]
               /\ restarts' = [restarts EXCEPT ![i] = 0]
               /\ until' = [until EXCEPT ![i] = e]
    /\ Goto(s, "check")
    /\ UNCHANGED <<state, own, OtherRows>>

\* _drain that accounts for a chunk, heard, failed or shed.  store.count_chunk
\* moves the clock of the row only while the row is being captured.
DrainChunk(s) ==
    /\ pc[s] = "drain"
    /\ conn[s] = "open"
    /\ LET i == cur[s] IN \E e \in Reached(run[s][i]) :
       /\ run' = [run EXCEPT ![s][i] = Accounted(@, e)]
       /\ IF state[i] = "deleted"
          THEN UNCHANGED <<heard, until, restarts>>
          ELSE /\ heard' = [heard EXCEPT ![i] = TRUE]
               /\ restarts' = [restarts EXCEPT ![i] = 0]
               /\ until' = [until EXCEPT ![i] =
                      IF state[i] \in Captured THEN e ELSE @]
    /\ Goto(s, "check")
    /\ UNCHANGED <<state, own, OtherRows>>

\* _stumble, once what it says on the row is said: back off, or give up.
Stumbles(s) ==
    LET i == cur[s] IN
    IF run[s][i].failures + 1 >= MaxFailures
    THEN /\ Release(s, {i})
         /\ verdict' = [verdict EXCEPT ![s] = "failed"]
         /\ Goto(s, "finish")
    ELSE /\ run' = [run EXCEPT ![s][i] = BackedOff(@)]
         /\ Goto(s, "tick")
         /\ UNCHANGED <<own, verdict>>

Stumble(s) ==
    /\ pc[s] = "stumble"
    /\ conn[s] = "open"
    /\ Stumbles(s)
    /\ UNCHANGED <<rowVars, lock, faults, sigterm, conn, snap, todo, cur>>

\* After the drain: a dead ffmpeg with nothing held counts as a failure,
\* quietly; chunks still held keep it for another tick.
Check(s) ==
    /\ pc[s] = "check"
    /\ \/ /\ run[s][cur[s]].capture = "exited"
          /\ Stumbles(s)
       \/ /\ Goto(s, "tick")
          /\ UNCHANGED <<own, run, verdict>>
    /\ UNCHANGED <<rowVars, lock, faults, sigterm, conn, snap, todo, cur>>

\* store.finish asks nothing of the state it overwrites.
Finish(s) ==
    /\ pc[s] = "finish"
    /\ conn[s] = "open"
    /\ state' = [state EXCEPT ![cur[s]] =
           IF @ = "deleted" THEN @ ELSE verdict[s]]
    /\ Goto(s, "tick")
    /\ UNCHANGED <<heard, until, restarts, own, run, OtherRows>>

-----------------------------------------------------------------------------
\* Every step serve takes of its own accord.
Supervise(s) ==
    \/ Boot(s) \/ Connect(s) \/ Reconcile(s) \/ DropConnection(s)
    \/ Settle(s) \/ Leave(s)
    \/ BeginTick(s) \/ EndTick(s)
    \/ \E i \in Ids : \/ TickSettle(s, i) \/ TickPaused(s, i)
                      \/ TickRequested(s, i) \/ TickAdvance(s, i)
    \/ Begin(s) \/ ProbeFails(s) \/ ProbeEnded(s) \/ Spawn(s) \/ Describe(s)
    \/ \E flowing \in BOOLEAN : DrainNothing(s, flowing)
    \/ DrainChunk(s) \/ Stumble(s) \/ Check(s) \/ Finish(s)

Disturb(s) ==
    \/ LoseConnection(s) \/ Crash(s) \/ Sigterm(s)
    \/ \E i \in Ids : FfmpegExits(s, i)

Next == User \/ \E s \in Supervisors : Supervise(s) \/ Disturb(s)

Safety == Init /\ [][Next]_vars

\* The serve loop runs, its probes and statements return, and the container is
\* started again when it is down.  Nothing is asked of users or of faults.
Fairness == \A s \in Supervisors : WF_vars(Supervise(s))

Spec == Safety /\ Fairness

-----------------------------------------------------------------------------
(* What must hold.                                                         *)

\* Every variable stays in its range.
TypeOK ==
    /\ state \in [Ids -> States]
    /\ stream \in [Ids -> Streams]
    /\ heard \in [Ids -> BOOLEAN]
    /\ until \in [Ids -> Clock \cup {NoClock}]
    /\ restarts \in [Ids -> Nat]
    /\ resumes \in [Ids -> Clock]
    /\ lock \in Supervisors \cup {Nobody}
    /\ faults \in 0 .. MaxFaults
    /\ pc \in [Supervisors -> Stages]
    /\ sigterm \in [Supervisors -> BOOLEAN]
    /\ conn \in [Supervisors -> {"none", "open", "broken"}]
    /\ snap \in [Supervisors -> [Ids -> Snapshot]]
    /\ todo \in [Supervisors -> SUBSET Ids]
    /\ cur \in [Supervisors -> Ids]
    /\ verdict \in [Supervisors -> Endings]
    /\ own \in [Supervisors -> SUBSET Ids]
    /\ run \in [Supervisors -> [Ids -> Run]]

\* No process ever runs more captures than SKYBIRD_MAX_SESSIONS, however many
\* are asked for and however rows move while it starts one: the check "that
\* actually holds", as the API handler calls it.
CapHolds == \A s \in Supervisors : Cardinality(own[s]) <= MaxSessions

\* No process fetches one manifest twice: a session that is deleted or stopped
\* and asked for again does not start while its old ffmpeg is there.
OneManifest ==
    \A s \in Supervisors : \A i, j \in own[s] :
        i # j => stream[i] # stream[j]

\* Once it has reconciled, the supervisor that holds the lock has a capture for
\* every row that says it is being captured, except the row it is just ending:
\* the branch of tick that fails an unowned row is never taken.
NoOrphan ==
    \A s \in Supervisors, i \in Ids :
        (lock = s /\ pc[s] # "reconcile" /\ state[i] \in Captured)
            => i \in own[s] \/ (pc[s] = "finish" /\ cur[s] = i)

\* What resume takes away stays away: the clock of a row stands for audio of
\* after its last resume.  One thing puts an older clock back, the capture that
\* was itself begun with it: claimed by a tick that had read the row before a
\* pause and a resume (_begin carries on from the snapshot).  No chunk of the
\* ffmpeg that was running at the pause does, however late it is heard.
ClaimedOnStale(s, i) ==
    pc[s] = "drain" /\ cur[s] = i /\ run[s][i].until < run[s][i].since

ClockStaysTaken ==
    \A i \in Ids :
        \/ until'[i] \in {NoClock, resumes'[i]}
        \/ until'[i] = until[i] /\ resumes'[i] = resumes[i]
        \/ \E s \in Supervisors : ClaimedOnStale(s, i)

NoClockAcrossPause == [][ClockStaysTaken]_vars

\* A capture that takes its supervisor down with it is given up on: once it has
\* been through more than MaxRestarts of them in a row, it has failed.
RestartsBounded ==
    \A i \in Ids :
        restarts[i] > MaxRestarts => state[i] \in {"failed", "deleted"}

\* An ffmpeg whose session is paused, ended or deleted does not run for ever.
FfmpegGoes ==
    \A s \in Supervisors, i \in Ids :
        (run[s][i].capture = "live" /\ state[i] \notin Live \ {"paused"})
            ~> run[s][i].capture # "live"

\* The rows are the sessions SkybirdSessions promises, EndingEnds included.
PhaseOf(st) ==
    CASE st = "absent" -> "none"
      [] st = "requested" -> "waiting"
      [] st \in Captured -> "capturing"
      [] st = "paused" -> "held"
      [] st = "stopping" -> "ending"
      [] st \in Endings -> "ended"
      [] st = "deleted" -> "gone"

Phase == [i \in Ids |-> PhaseOf(state[i])]

Sessions == INSTANCE SkybirdSessions WITH phase <- Phase, stream <- stream

KeepsSessionPromises == Sessions!Spec

\* The docstring of store.resume: a resumed capture starts at the live edge
\* "instead of rewinding into the stream", so whatever ffmpeg a captured row
\* has was not started from a clock of before its last resume.
ResumeStartsAtLiveEdge ==
    \A s \in Supervisors, i \in Ids :
        (lock = s /\ run[s][i].capture = "live" /\ state[i] \in Captured)
            => run[s][i].until \in {NoClock, resumes[i]}

\* The docstring of store.describe: a pause that lands while the probe is out
\* "is somebody's decision, and the probe coming back must not quietly undo it".
PauseIsKept ==
    [][(\E s \in Supervisors : Supervise(s)) =>
          \A i \in Ids : state[i] = "paused" => state'[i] = "paused"]_vars
=============================================================================
