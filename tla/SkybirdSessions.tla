-------------------------- MODULE SkybirdSessions --------------------------
(***************************************************************************)
(* What a skybird capture promises to the people who ask for one, with no  *)
(* supervisor in sight: a stream_session row goes through a life of a few  *)
(* phases, a stream has at most one live session, an ended session never   *)
(* comes back, and a stop that was asked for is carried out.  Skybird.tla  *)
(* is shown to implement this.                                             *)
(***************************************************************************)
EXTENDS Naturals

CONSTANTS
    Ids,      \* session ids, in the order the identity column hands them out
    Streams   \* what (platform, external_id) names

VARIABLES
    phase,    \* phase[i]: where session i is in its life
    stream    \* stream[i]: the stream session i captures, once it exists

vars == <<phase, stream>>

\* 'waiting' is state requested, 'capturing' starting or running, 'held'
\* paused, 'ending' stopping, 'ended' stopped or failed.
LivePhases == {"waiting", "capturing", "held", "ending"}
Phases == LivePhases \cup {"none", "ended", "gone"}

Init ==
    /\ phase = [i \in Ids |-> "none"]
    /\ stream \in [Ids -> Streams]

Move(i, from, to) ==
    /\ phase[i] \in from
    /\ phase' = [phase EXCEPT ![i] = to]
    /\ UNCHANGED stream

\* Somebody asks for a stream nobody has a live session on.
Ask(i, st) ==
    /\ phase[i] = "none"
    /\ \A j \in Ids : phase[j] \in LivePhases => stream[j] # st
    /\ phase' = [phase EXCEPT ![i] = "waiting"]
    /\ stream' = [stream EXCEPT ![i] = st]

Capture(i) == Move(i, {"waiting"}, "capturing")
Hold(i)    == Move(i, {"waiting", "capturing"}, "held")
Resume(i)  == Move(i, {"held"}, "waiting")
Stop(i)    == Move(i, {"capturing"}, "ending")
Delete(i)  == Move(i, Phases \ {"none", "gone"}, "gone")

\* A session may end from any live phase: the stop somebody asked for, the end
\* of the stream, or giving up on it.
End(i)     == Move(i, LivePhases, "ended")

\* A supervisor went away.  What it was capturing waits again or is given up
\* on, what was ending has ended, and nothing else moves.
Recover ==
    /\ phase' \in [Ids -> Phases]
    /\ \A i \in Ids :
          /\ phase[i] = "capturing" => phase'[i] \in {"waiting", "ended"}
          /\ phase[i] = "ending" => phase'[i] = "ended"
          /\ phase[i] \notin {"capturing", "ending"} => phase'[i] = phase[i]
    /\ UNCHANGED stream

Next ==
    \/ \E i \in Ids, st \in Streams : Ask(i, st)
    \/ \E i \in Ids : Capture(i) \/ Hold(i) \/ Resume(i) \/ Stop(i)
                      \/ Delete(i) \/ End(i)
    \/ Recover

\* A session that is asked to stop is not left stopping for ever.
EndingEnds == \A i \in Ids : phase[i] = "ending" ~> phase[i] # "ending"

Safety == Init /\ [][Next]_vars
Spec == Safety /\ EndingEnds

=============================================================================
