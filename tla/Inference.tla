----------------------------- MODULE Inference ------------------------------
(***************************************************************************)
(* The two model servers and their clients (sentiment/, transcribe/).      *)
(* Each server holds one model and does one thing at a time: a request     *)
(* waits its turn for so long and no longer, and its client waits for the  *)
(* answer for longer than that.  A batch of texts is put in an order of    *)
(* its own for the model, and its readings are put back in the caller's.   *)
(***************************************************************************)
EXTENDS Integers, Sequences, FiniteSets, FiniteSetsExt, SequencesExt, Functions

CONSTANTS
    Calls,          \* requests under way at once
    Batches,        \* what may be asked for: each text's length, 0 a blank one
    MaxTexts, InferenceBatch, MaxBatchTokens,
    ScoreWait, HearWait,         \* BUSY_WAIT_SECONDS of each
    ScoreSlowest, HearSlowest,   \* the slowest a legal request is
    ScorePatience, HearPatience, \* TIMEOUT_SECONDS of each client
    LastMinute, MaxCalls \* bounds

ASSUME InferenceAssumption ==
    /\ {MaxTexts, InferenceBatch, MaxBatchTokens, ScoreSlowest, HearSlowest} \subseteq Nat \ {0}
    /\ {ScoreWait, HearWait, ScorePatience, HearPatience, LastMinute, MaxCalls} \subseteq Nat
    /\ Batches \subseteq Seq(Nat)
    /\ ScoreWait + ScoreSlowest <= ScorePatience
    /\ HearWait + HearSlowest <= HearPatience

VARIABLES
    minute,
    call,           \* each request: its handler's thread, and its client
    answer,         \* ghost: the last answer that was read, and to what
    called

inferenceVars == <<minute, call, answer, called>>

Servers == {"score", "hear"}
BusyWait(server) == IF server = "score" THEN ScoreWait ELSE HearWait
Slowest(server) == IF server = "score" THEN ScoreSlowest ELSE HearSlowest
Patience(server) == IF server = "score" THEN ScorePatience ELSE HearPatience

NoCall == [step |-> "none", server |-> "score", texts |-> <<>>, asked |-> 0, began |-> 0]
NoAnswer == [texts |-> <<>>, readings |-> <<>>]
NotRead == 0

InferenceInit ==
    /\ minute = 0
    /\ call = [c \in Calls |-> NoCall]
    /\ answer = NoAnswer
    /\ called = 0

-----------------------------------------------------------------------------
(* What the model is given, and what it gives back.                        *)

Longest(lengths, chunk) == Max({0} \cup {lengths[k] : k \in Range(chunk)})

\* Each stands where as many come before it.
InTurn(S, before(_, _)) ==
    [n \in 1 .. Cardinality(S) |->
        CHOOSE k \in S : Cardinality({o \in S : before(o, k)}) = n - 1]

ShortestFirst(lengths) ==
    InTurn(DOMAIN lengths,
           LAMBDA k, o : lengths[k] < lengths[o] \/ (lengths[k] = lengths[o] /\ k < o))

\* What a chunk takes is bounded, and what it takes when padded to the longest.
Full(lengths, chunk, k) ==
    \/ Len(chunk) >= InferenceBatch
    \/ (Len(chunk) + 1) * Max({Longest(lengths, chunk), lengths[k]}) > MaxBatchTokens

Place(lengths, k, chunks) ==
    IF chunks = <<>> \/ Full(lengths, Last(chunks), k) THEN Append(chunks, <<k>>)
    ELSE Append(Front(chunks), Append(Last(chunks), k))

\* plan_chunks: shortest first, as many as fit both bounds.
PlanChunks(lengths) ==
    LET order == ShortestFirst(lengths)
        plan[n \in 0 .. Len(lengths)] ==
            IF n = 0 THEN <<>> ELSE Place(lengths, order[n], plan[n - 1])
    IN  plan[Len(lengths)]

\* Mutant: the readings come back in the order the model took the texts.
RunInItsOrder(lengths) == FlattenSeq(PlanChunks(lengths))

\* run: the reading of each text, here the text's own position, where it stood.
Run(lengths) ==
    LET chunks == PlanChunks(lengths)
        rows == FlattenSeq(chunks)
    IN  [k \in DOMAIN lengths |-> rows[CHOOSE r \in DOMAIN rows : rows[r] = k]]

\* score: the blanks never leave, and what comes back is put where it was asked.
Wanted(texts) == InTurn({k \in DOMAIN texts : texts[k] # 0}, <)
Sent(texts) == [r \in DOMAIN Wanted(texts) |-> texts[Wanted(texts)[r]]]
PutBack(texts, readings) ==
    [k \in DOMAIN texts |->
        IF texts[k] = 0 THEN NotRead
        ELSE LET r == CHOOSE n \in DOMAIN readings : Wanted(texts)[n] = k
             IN  Wanted(texts)[readings[r]]]

-----------------------------------------------------------------------------
(* A request.                                                              *)

Holder(server) == {c \in Calls : call[c].step = "working" /\ call[c].server = server}

\* The client: nothing is asked for no texts, for blank ones, or for too many.
Sends(c, server, texts) ==
    /\ call[c].step = "none"
    /\ called < MaxCalls
    /\ server = "score" => Wanted(texts) # <<>> /\ Len(texts) <= MaxTexts
    /\ server = "hear" => texts = <<>>
    /\ called' = called + 1
    /\ call' = [call EXCEPT ![c] = [NoCall EXCEPT !.step = "waiting", !.server = server,
                                                  !.texts = texts, !.asked = minute]]
    /\ UNCHANGED <<minute, answer>>

\* do_POST: the model is taken by one request at a time.
Takes(c) ==
    /\ call[c].step = "waiting"
    /\ Holder(call[c].server) = {}
    /\ call' = [call EXCEPT ![c].step = "working", ![c].began = minute]
    /\ UNCHANGED <<minute, answer, called>>

\* Mutant: a request waits its turn for as long as that takes.
WaitsForever(c) == FALSE

WaitedLongEnough(c) == minute - call[c].asked >= BusyWait(call[c].server)

Busy(c) ==
    /\ call[c].step = "waiting"
    /\ WaitedLongEnough(c)
    /\ Holder(call[c].server) # {}
    /\ call' = [call EXCEPT ![c] = NoCall]
    /\ UNCHANGED <<minute, answer, called>>

\* The model is let go whatever became of the request.
Answers(c) ==
    /\ call[c].step = "working"
    /\ answer' = IF call[c].server = "hear" THEN answer
                 ELSE [texts |-> call[c].texts,
                       readings |-> PutBack(call[c].texts, Run(Sent(call[c].texts)))]
    /\ call' = [call EXCEPT ![c] = NoCall]
    /\ UNCHANGED <<minute, called>>

CannotAnswer(c) ==
    /\ call[c].step = "working"
    /\ call' = [call EXCEPT ![c] = NoCall]
    /\ UNCHANGED <<minute, answer, called>>

\* No request is under way for longer than the slowest legal one, and none waits
\* for the model while it is free.
MinutePasses ==
    /\ minute < LastMinute
    /\ \A c \in Calls :
          /\ call[c].step = "working" =>
                minute - call[c].began < Slowest(call[c].server)
          /\ call[c].step = "waiting" =>
                Holder(call[c].server) # {} /\ ~WaitedLongEnough(c)
    /\ minute' = minute + 1
    /\ UNCHANGED <<call, answer, called>>

InferenceNext ==
    \/ \E c \in Calls :
          \/ \E server \in Servers, texts \in Batches \cup {<<>>} : Sends(c, server, texts)
          \/ Takes(c) \/ Busy(c) \/ Answers(c) \/ CannotAnswer(c)
    \/ MinutePasses

InferenceSpec == InferenceInit /\ [][InferenceNext]_inferenceVars

-----------------------------------------------------------------------------
(* What must hold.                                                         *)

\* A reading is of the text it is beside, and a blank text has none: "one reading per
\* text, in order".  (score, run, plan_chunks)
EachTextItsReading ==
    \A k \in DOMAIN answer.texts :
        answer.readings[k] = IF answer.texts[k] = 0 THEN NotRead ELSE k

\* Nothing is under way for longer than its client waits: "the caller gives up,
\* retries, and the service scores the abandoned batch anyway".  (TIMEOUT_SECONDS)
NothingIsAbandoned ==
    \A c \in Calls :
        call[c].step # "none" => minute - call[c].asked <= Patience(call[c].server)

\* A caller gets its own readings, or none, before it gives up.
ReadingsAreTheCallers == EachTextItsReading /\ NothingIsAbandoned
=============================================================================
