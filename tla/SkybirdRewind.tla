--------------------------- MODULE SkybirdRewind ---------------------------
(***************************************************************************)
(* How far behind live a capture starts (skybird/capture.py, rewind).  A   *)
(* live playlist lists the last `segments` segments of a stream, each      *)
(* `seg` long; a capture that does not rewind starts LiveEdge of them from *)
(* the end.  Times are whole numbers of a unit as small as one likes.      *)
(***************************************************************************)
EXTENDS Integers

CONSTANT LiveEdge   \* LIVE_EDGE_SEGMENTS

ASSUME LiveEdgeAssumption == LiveEdge \in Nat \ {0}

Lesser(a, b) == IF a <= b THEN a ELSE b
Greater(a, b) == IF a >= b THEN a ELSE b

\* What parse_window returns of anything that is no live media playlist.
NoWindow == [segments |-> 0, seg |-> 0]

CanRewind(window, limit) ==
    /\ limit > 0
    /\ window.seg > 0
    /\ window.segments > LiveEdge

Reach(window, limit) ==
    Lesser(window.segments - LiveEdge, limit \div window.seg)

\* Whole segments, rounded down; fewer than none when the clock is ahead.
Back(gap, window, limit) ==
    IF CanRewind(window, limit)
    THEN Greater(Lesser(gap \div window.seg, Reach(window, limit)), 1 - LiveEdge)
    ELSE 0

\* The hole the new capture leaves, or what it hears twice when negative.
Skipped(gap, window, limit) ==
    IF CanRewind(window, limit)
    THEN gap - Back(gap, window, limit) * window.seg
    ELSE gap
=============================================================================
