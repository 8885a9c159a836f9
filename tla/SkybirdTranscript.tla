------------------------- MODULE SkybirdTranscript -------------------------
(***************************************************************************)
(* The audio of one session, from the stream to transcript_segment: where  *)
(* ffmpeg starts, the chunks it cuts, the backlog they wait in, and the    *)
(* clock that says when each was said (skybird/supervisor.py, _begin to    *)
(* _account, skybird/store.py, count_chunk and append_segments).           *)
(*                                                                         *)
(* The session is being captured throughout; Skybird.tla has its states.   *)
(* Time is counted in units, and a position in the stream is the time at   *)
(* which a capture that starts at the live edge, on a segment boundary,    *)
(* would stamp it.  What a process has in memory or on its tmpfs goes with *)
(* it, so a step that writes ends where its statement commits.             *)
(***************************************************************************)
EXTENDS SkybirdRewind, Sequences, FiniteSets, FiniteSetsExt

CONSTANTS
    Seg,         \* how long a playlist segment is
    Sizes,       \* how many segments a playlist may be found to list
    MaxLag,      \* how long ffmpeg's fetch of the playlist is after the probe
    Chunk,       \* chunk_seconds
    Audible,     \* MIN_AUDIBLE_SECONDS
    Limit,       \* max_rewind_seconds
    MaxPending,  \* MAX_PENDING_CHUNKS
    PerTick,     \* CHUNKS_PER_TICK
    Patience,    \* TRANSCRIBER_PATIENCE_SECONDS
    MinLoss,     \* MIN_REPORTED_LOSS_SECONDS
    Hearings,    \* what a chunk may be heard as: sequences of "words" and "nul"
    Horizon,     \* bound: how long the stream is watched
    MaxFaults    \* bound: exits of ffmpeg and of the supervisor together

ASSUME UnitsAssumption ==
    /\ {Seg, Chunk, PerTick} \subseteq Nat \ {0}
    /\ {MaxLag, Audible, Limit, MaxPending, Patience, MinLoss, Horizon,
        MaxFaults} \cup Sizes \subseteq Nat
    /\ Hearings \subseteq Seq({"words", "nul"})

VARIABLES
    now,
    \* the row and its transcript
    seconds,   \* captured_seconds
    until,     \* captured_until, or Never
    lines,     \* transcript_segment, by seq: when it was said, and captured_at
    last,      \* ghost: the last audio accounted for, from where to where
    ahead,     \* ghost: a connect has found the clock ahead of the stream
    \* the process
    capture,   \* "down" with its process, or "none", "live" or "exited"
    stage,     \* of its poll: "idle", "hearing" or "check"
    run,       \* its Running: see FreshRun
    next,      \* run.next_seq
    at,        \* where in the stream ffmpeg cuts its next chunk
    ready,     \* chunks cut and not taken
    held,      \* chunks taken and not heard
    left,      \* chunks this poll may still hear
    faults

row == <<seconds, until, lines, last, ahead>>
tmpfs == <<at, ready, held>>
vars == <<now, row, capture, stage, run, next, tmpfs, left, faults>>

Never == -1 - LiveEdge * Seg

\* offset, origin, until, allowance, stalled and the three flags are the fields
\* of Running of those names.  Ghosts: when this ffmpeg was started, what its
\* plan said it skips, whether the row was told, and whether it is still to be
\* heard from.
FreshRun(offset, upto) ==
    [offset |-> offset, origin |-> 0, until |-> upto, allowance |-> 0,
     stalled |-> Never, rewound |-> FALSE, produced |-> FALSE,
     noRewind |-> FALSE,
     since |-> 0, skipped |-> 0, missed |-> FALSE, seam |-> FALSE]

Piece(from, length) == [from |-> from, to |-> from + length]
Length(piece) == piece.to - piece.from

\* Where the segments that are complete at time t begin to be live, and where
\* what the playlist lists of them ends.
Edge(t) == (t \div Seg) * Seg
Listed == Edge(now) + LiveEdge * Seg

Init ==
    /\ now = 0
    /\ seconds = 0
    /\ until = Never
    /\ lines = <<>>
    /\ last = Piece(0, 0)
    /\ ahead = FALSE
    /\ capture = "down"
    /\ stage = "idle"
    /\ run = FreshRun(0, Never)
    /\ next = 1
    /\ at = 0
    /\ ready = <<>>
    /\ held = <<>>
    /\ left = 0
    /\ faults = 0

-----------------------------------------------------------------------------
(* The stream and ffmpeg.                                                  *)

TimePasses ==
    /\ now < Horizon
    /\ now' = now + 1
    /\ UNCHANGED <<row, capture, stage, run, next, tmpfs, left, faults>>

Cut(length) ==
    /\ at + length <= Listed
    /\ ready' = Append(ready, Piece(at, length))
    /\ at' = at + length

\* A chunk is closed, and its name arrives on ffmpeg's list.
FfmpegCuts ==
    /\ capture = "live"
    /\ Cut(Chunk)
    /\ UNCHANGED <<now, row, capture, stage, run, next, held, left, faults>>

\* ffmpeg exits, and closes the chunk it was part way through on its way out.
FfmpegExits ==
    /\ capture = "live"
    /\ \/ \E length \in 1 .. Chunk - 1 : Cut(length)
       \/ UNCHANGED <<at, ready>>
    /\ capture' = "exited"
    /\ faults < MaxFaults
    /\ faults' = faults + 1
    /\ UNCHANGED <<now, row, stage, run, next, held, left>>

-----------------------------------------------------------------------------
(* The supervisor: _begin, _connect_stream, _advance.                      *)

\* Mutant: numbering resumes with the last seq and not after it.
NextSeqIsLast == Max({1} \cup DOMAIN lines)

NextSeq == Max({0} \cup DOMAIN lines) + 1

\* A process has taken the lock and the session: the clock comes from the row,
\* next_seq from the transcript.
Begin ==
    /\ capture = "down"
    /\ capture' = "none"
    /\ run' = FreshRun(seconds, until)
    /\ next' = NextSeq
    /\ UNCHANGED <<now, row, stage, tmpfs, left, faults>>

\* Mutant: a clock that is put to now at every connect.
AnchorNow(skipped) == now

\* Where the first new audio falls on the clock: the whole gap recovered keeps
\* the old timeline, none of it recovered is now.
Anchor(skipped) == IF run.until = Never THEN now ELSE run.until + skipped

\* Where ffmpeg, which fetches the playlist for itself, begins.
Start(back, lag) == Edge(now + lag) - back * Seg

\* Mutant: a rewind that is not allowed its backlog.
AllowanceForgotten(recovered) == 0

\* The backlog a rewind brings, in chunks, and one.
Allowance(recovered) ==
    IF recovered > 0 THEN (recovered + Chunk - 1) \div Chunk + 1 ELSE 0

\* Mutant: what the playlist no longer held counts as nothing.
MissedWithinSeam(skipped, window) == FALSE

Missed(skipped, window) ==
    run.until # Never /\ skipped >= Max({window.seg, MinLoss})

\* _connect_stream, the stream live and its playlist found to list `size`
\* segments: start behind live by as much as is missing and can be had, and
\* move the clock on by what cannot.
Connect(size, lag) ==
    LET found == IF size = 0 THEN NoWindow ELSE [segments |-> size, seg |-> Seg]
        window == IF run.noRewind THEN NoWindow ELSE found
        gap == IF run.until = Never THEN 0 ELSE now - run.until
        back == IF run.until = Never THEN 0 ELSE Back(gap, window, Limit)
        skipped == IF run.until = Never THEN 0 ELSE Skipped(gap, window, Limit)
    IN  /\ capture = "none"
        /\ capture' = "live"
        /\ at' = Start(back, lag)
        /\ run' = [run EXCEPT
               !.origin = Anchor(skipped) - run.offset,
               !.allowance = Allowance(gap - skipped),
               !.rewound = back # 0,
               !.produced = FALSE,
               !.since = now,
               !.skipped = skipped,
               !.missed = Missed(skipped, found),
               !.seam = TRUE]
        /\ ahead' = (ahead \/ skipped < 0)
        /\ UNCHANGED <<now, seconds, until, lines, last, stage, next, ready, held,
                       left, faults>>

\* The oldest chunks leave the backlog, and the clock of the row moves past
\* them in the statement, or the transaction, that says what became of them.
CountChunk(pieces) ==
    LET from == pieces[1].from
        to == pieces[Len(pieces)].to
    IN  /\ seconds' = seconds + (to - from)
        /\ until' = run.origin + run.offset + (to - from)
        /\ last' = [from |-> from, to |-> to]

\* As the clock of the process does: _account, or as much of it as _shed does.
Past(r, pieces) ==
    LET length == pieces[Len(pieces)].to - pieces[1].from
    IN  [r EXCEPT !.offset = @ + length,
                  !.until = r.origin + r.offset + length,
                  !.skipped = 0, !.missed = FALSE, !.seam = FALSE]

\* Mutant: an allowance that is used up and goes on being counted down.
AccountedBelow(r) ==
    [Past(r, SubSeq(held, 1, 1)) EXCEPT !.allowance = @ - 1]

Accounted(r) ==
    [Past(r, SubSeq(held, 1, 1)) EXCEPT !.allowance = Max({@ - 1, 0})]

\* Mutant: what is finished replaces what was held.
TakeReplacing ==
    /\ stage = "idle"
    /\ capture \in {"live", "exited"}
    /\ ready' = <<>>
    /\ held' = IF ready = <<>> THEN held ELSE ready
    /\ run' = [run EXCEPT !.produced = @ \/ ready # <<>>]
    /\ stage' = "hearing"
    /\ left' = PerTick
    /\ UNCHANGED <<now, row, capture, next, at, faults>>

\* _drain begins: take what is finished, and shed the oldest past the bound.
Take ==
    LET all == held \o ready
        excess == Max({Len(all) - (MaxPending + run.allowance), 0})
        flowing == [run EXCEPT !.produced = @ \/ ready # <<>>]
        shed == SubSeq(all, 1, excess)
    IN  /\ stage = "idle"
        /\ capture \in {"live", "exited"}
        /\ ready' = <<>>
        /\ held' = SubSeq(all, excess + 1, Len(all))
        /\ IF excess > 0
           THEN CountChunk(shed) /\ run' = Past(flowing, shed)
           ELSE UNCHANGED <<seconds, until, last>> /\ run' = flowing
        /\ stage' = "hearing"
        /\ left' = PerTick
        /\ UNCHANGED <<now, lines, ahead, capture, next, at, faults>>

\* One more chunk of this poll is heard, or will not be.
HearNext ==
    /\ stage = "hearing"
    /\ left > 0
    /\ held # <<>>
    /\ left' = left - 1
    /\ held' = Tail(held)
    /\ CountChunk(SubSeq(held, 1, 1))
    /\ UNCHANGED <<now, ahead, capture, stage, at, ready, faults>>

\* append_segments: a line whose seq is taken is dropped in silence.
AppendSegments(seqs) ==
    lines' = [q \in seqs \cup DOMAIN lines |->
        IF q \in DOMAIN lines THEN lines[q]
        ELSE [said |-> held[1].from, at |-> run.origin + run.offset]]

\* Mutant: the lines and the clock in two transactions, and the process gone
\* between them.
HearApart(hearing) ==
    /\ stage = "hearing" /\ left > 0 /\ held # <<>>
    /\ Length(held[1]) >= Audible
    /\ AppendSegments({next})
    /\ capture' = "down" /\ stage' = "idle" /\ run' = FreshRun(0, Never)
    /\ next' = 1 /\ at' = 0 /\ ready' = <<>> /\ held' = <<>> /\ left' = 0
    /\ UNCHANGED <<now, seconds, until, last, ahead, faults>>

\* The lines of a chunk, and the clock past it, in one transaction.  A line that
\* says nothing once its NULs are gone has a seq and is not stored; next_seq
\* moves by how many were.
Hear(hearing) ==
    LET spoken == {k \in DOMAIN hearing : hearing[k] = "words"}
    IN  /\ HearNext
        /\ Length(held[1]) >= Audible
        /\ AppendSegments({next + k - 1 : k \in spoken})
        /\ next' = next + Cardinality(spoken)
        /\ run' = [Accounted(run) EXCEPT !.stalled = Never]

\* The sliver ffmpeg closes on its way out is not sent.
HearSliver ==
    /\ HearNext
    /\ Length(held[1]) < Audible
    /\ run' = Accounted(run)
    /\ UNCHANGED <<lines, next>>

\* The transcriber does not answer, and has not for too long.
HearFails ==
    /\ HearNext
    /\ Length(held[1]) >= Audible
    /\ now - (IF run.stalled = Never THEN now ELSE run.stalled) >= Patience
    /\ run' = [Accounted(run) EXCEPT
                  !.stalled = IF @ = Never THEN now ELSE @]
    /\ UNCHANGED <<lines, next>>

\* It does not answer, and the chunk is kept for another poll.
HearLater ==
    /\ stage = "hearing"
    /\ left > 0
    /\ held # <<>>
    /\ Length(held[1]) >= Audible
    /\ now - (IF run.stalled = Never THEN now ELSE run.stalled) < Patience
    /\ run' = [run EXCEPT !.stalled = IF @ = Never THEN now ELSE @]
    /\ stage' = "check"
    /\ UNCHANGED <<now, row, capture, next, tmpfs, left, faults>>

\* _drain returns.
Drained ==
    /\ stage = "hearing"
    /\ left = 0 \/ held = <<>>
    /\ stage' = "check"
    /\ UNCHANGED <<now, row, capture, run, next, tmpfs, left, faults>>

\* _advance after it: an ffmpeg that is gone, with nothing held, is stopped and
\* its chunk directory removed.
Check ==
    /\ stage = "check"
    /\ stage' = "idle"
    /\ IF capture = "exited" /\ held = <<>>
       THEN /\ capture' = "none"
            /\ ready' = <<>>
            /\ run' = [run EXCEPT !.noRewind =
                          @ \/ (run.rewound /\ ~run.produced)]
       ELSE UNCHANGED <<capture, ready, run>>
    /\ UNCHANGED <<now, row, next, at, held, left, faults>>

\* The process goes, and its memory and its tmpfs with it: a crash, a shutdown,
\* or a lost connection, after which everything is let go the same way.
Crash ==
    /\ capture # "down"
    /\ faults < MaxFaults
    /\ faults' = faults + 1
    /\ capture' = "down"
    /\ stage' = "idle"
    /\ run' = FreshRun(0, Never)
    /\ next' = 1
    /\ at' = 0
    /\ ready' = <<>>
    /\ held' = <<>>
    /\ left' = 0
    /\ UNCHANGED <<now, row>>

-----------------------------------------------------------------------------
Next ==
    \/ TimePasses \/ FfmpegCuts \/ FfmpegExits
    \/ Begin \/ \E size \in Sizes, lag \in 0 .. MaxLag : Connect(size, lag)
    \/ Take \/ \E hearing \in Hearings : Hear(hearing)
    \/ HearSliver \/ HearFails \/ HearLater \/ Drained \/ Check
    \/ Crash

Spec == Init /\ [][Next]_vars

-----------------------------------------------------------------------------
(* What must hold.                                                         *)

\* Every variable stays in its range.
TypeOK ==
    /\ now \in 0 .. Horizon
    /\ seconds \in Nat
    /\ until \in Int
    /\ DOMAIN lines \subseteq Nat \ {0}
    /\ \A q \in DOMAIN lines : lines[q] \in [said : Int, at : Int]
    /\ last \in [from : Int, to : Int]
    /\ capture \in {"down", "none", "live", "exited"}
    /\ stage \in {"idle", "hearing", "check"}
    /\ run.offset \in Nat /\ run.allowance \in Nat
    /\ run.origin \in Int /\ run.until \in Int
    /\ next \in Nat \ {0}
    /\ at \in Int
    /\ left \in 0 .. PerTick
    /\ faults \in 0 .. MaxFaults

\* The audio that is accounted for next.
NextAudio == (held \o ready \o <<Piece(at, 0)>>)[1].from

Close(stamp, said) == stamp - said \in -MaxLag .. Seg - 1

\* However often a session is reconnected or restarted, and whatever was shed,
\* failed or lost on the way, every line is stamped within a segment of when it
\* was said: an outage "never pushes the transcript permanently behind".
StampsHold ==
    /\ \A q \in DOMAIN lines : Close(lines[q].at, lines[q].said)
    /\ capture \in {"live", "exited"} => Close(run.origin + run.offset, NextAudio)

\* The clock in memory and the clock on the row are the same clock, so it does
\* not matter between which two statements the process goes.
ClocksAgree ==
    capture # "down" => run.offset = seconds /\ run.until = until

\* A line never takes a seq that another has, before or after a restart.
NextIsFree ==
    capture # "down" => \A q \in DOMAIN lines : q < next

\* No line is of audio the row's clock is short of, or the next process would
\* rewind to it and hear it again; but a reconnect quick enough to find the
\* clock ahead of the stream may, and skips less than nothing.
ClockCoversLines == ~ahead => \A q \in DOMAIN lines : lines[q].at < until

\* What a connection accounts for begins where the last one's ended, but for
\* what its plan said it skips and the segment or so a seam is good to; within
\* a connection there is no seam: no audio is passed over, none heard twice.
SeamsAsPlanned ==
    [][(last' # last /\ until # Never) =>
          IF run.seam
          THEN (last'.from - last.to) - run.skipped
                   \in -(Seg - 1 + MaxLag) .. Seg - 1 + MaxLag
          ELSE last'.from = last.to]_vars

\* A hole that is longer than the precision of a seam is said on the row.
NoSilentHole ==
    [][(last' # last /\ until # Never) =>
          \/ run.missed
          \/ last'.from - last.to < Max({Seg, MinLoss}) + Seg - 1 + MaxLag]_vars

\* A rewound backlog is not shed for being old: until MaxPending chunks have
\* been broadcast since the connect, nothing is.
BacklogIsHeard ==
    [][(stage = "idle" /\ stage' = "hearing" /\ last' # last) =>
          Listed - Edge(run.since) >= MaxPending * Chunk]_vars

\* The comment of supervisor._advance, "when a stream ends, the last of them are
\* the end of it", and the docstring of Capture.take, which waits for the last
\* chunk or else the capture would be torn down "with the end of the stream
\* still in it": no chunk that was cut goes with the directory.
EndIsHeard ==
    [][(capture = "exited" /\ capture' = "none") => ready = <<>>]_vars

\* The docstring of store.append_segments: it "Returns how many landed".
CountsWhatLands ==
    [][(capture' = capture /\ next' # next) =>
          Cardinality(DOMAIN lines') - Cardinality(DOMAIN lines)
              = next' - next]_vars
=============================================================================
