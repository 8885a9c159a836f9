------------------------------- MODULE Rupert -------------------------------
(***************************************************************************)
(* Rupert, which reads the corpora other components fill and decides what  *)
(* security a text is about (rupert/run.py, rupert/store.py).  A pass      *)
(* takes, corpus by corpus, the oldest texts past a high-water mark, asks  *)
(* a paid model about the ones that name candidates, within two daily      *)
(* budgets that it reads off the rows it has written, and moves the mark   *)
(* over what it got to.  A pass may die at any statement, and between an   *)
(* answer and the row that says it was paid for.  What a pass does with    *)
(* its resolved mentions, their readings, is left out.                     *)
(*                                                                         *)
(* Times are naturals; a day is DayLength of them.  A price is a whole     *)
(* number of a small unit.                                                 *)
(***************************************************************************)
EXTENDS Integers, Sequences, FiniteSets, FiniteSetsExt

CONSTANTS
    Corpora,     \* CORPORA, in order
    Items,       \* what may be added to them
    CorpusOf,    \* which each is added to
    Batch,       \* RUPERT_BATCH
    MaxCalls,    \* RUPERT_DAILY_MAX_CALLS
    MaxSpend,    \* RUPERT_DAILY_MAX_CENTS
    Prices,      \* what an answer may cost
    Backfill,    \* RUPERT_BACKFILL_DAYS
    InOrder,     \* whether a corpus only grows at its end
    DayLength,
    Horizon,     \* bound: how long it is watched
    MaxFaults    \* bound: passes that die

Names == {Corpora[k] : k \in DOMAIN Corpora}

ASSUME CorporaAssumption ==
    /\ Corpora \in Seq(Names)
    /\ CorpusOf \in [Items -> Names]
    /\ IsFiniteSet(Items)
ASSUME NumbersAssumption ==
    /\ {Batch, DayLength} \subseteq Nat \ {0}
    /\ {MaxCalls, MaxSpend, Backfill, Horizon, MaxFaults} \cup Prices \subseteq Nat
    /\ IsFiniteSet(Prices) /\ Prices # {}
    /\ InOrder \in BOOLEAN

VARIABLES
    now,
    at,        \* social_item.created_utc or document.first_seen_at, or Never
    names,     \* what shortlist.candidates finds in the text
    progress,  \* rupert.progress.read_through, or Never
    since,     \* ghost: where the first pass over the corpus put the mark
    mention,   \* rupert.mention, by item
    paused,    \* rupert.control
    pc,        \* of the pass: "asleep", "corpus", "texts", "mark"
    moment,    \* when the pass began
    todo,      \* corpora it has not done
    texts,     \* what it read of this one and has not decided
    reached,   \* how far it got
    budget,    \* calls it may still make
    bill,      \* what the day had cost before it, and what it has since
    answer,    \* what it has asked about and not written, and what that cost
    \* ghosts: the calls that were made, whatever rows say of them
    made,      \* how many today
    paid,      \* what their answers cost
    deaths,    \* passes that died today
    done,      \* items this pass has written and not moved the mark over
    orphans,   \* items written by a pass that died before it moved the mark
    faults

corpusVars == <<at, names>>
rows == <<progress, since, mention>>
passVars == <<moment, todo, texts, reached, budget, bill, answer>>
dayVars == <<made, paid, deaths>>
ghosts == <<dayVars, done, orphans>>
vars == <<now, corpusVars, rows, paused, pc, passVars, ghosts, faults>>

Never == -1 - Backfill

\* 94.4% of texts name no candidate; some name too many to ask about.
Finds == {"nothing", "candidates", "crowd"}
NoMention == [state |-> "absent", day |-> Never, cost |-> 0]
Row(state, cost) ==
    [state |-> state, day |-> now \div DayLength, cost |-> cost]
NoAnswer == [item |-> {}, cost |-> 0]

Init ==
    /\ now = 0
    /\ at = [i \in Items |-> Never]
    /\ names = [i \in Items |-> "nothing"]
    /\ progress = [c \in Names |-> Never]
    /\ since = [c \in Names |-> Never]
    /\ mention = [i \in Items |-> NoMention]
    /\ paused = FALSE
    /\ pc = "asleep"
    /\ moment = 0
    /\ todo = <<>>
    /\ texts = {}
    /\ reached = Never
    /\ budget = 0
    /\ bill = 0
    /\ answer = NoAnswer
    /\ made = 0 /\ paid = 0 /\ deaths = 0
    /\ done = {} /\ orphans = {}
    /\ faults = 0

-----------------------------------------------------------------------------
(* The rest of the system.                                                 *)

TimePasses ==
    /\ now < Horizon
    /\ now' = now + 1
    /\ IF (now + 1) \div DayLength = now \div DayLength
       THEN UNCHANGED dayVars
       ELSE made' = 0 /\ paid' = 0 /\ deaths' = 0
    /\ UNCHANGED <<corpusVars, rows, paused, pc, passVars, done, orphans, faults>>

\* A corpus grows.  What reddit is found to hold is walked backwards and may be
\* older than what is there already; in order, nothing is, and no two things
\* happen to a corpus at one instant.
Arrives(i, t, what) ==
    /\ at[i] = Never
    /\ InOrder =>
          /\ t = now
          /\ moment < t
          /\ progress[CorpusOf[i]] < t
          /\ \A j \in Items : CorpusOf[j] = CorpusOf[i] => at[j] < t
    /\ at' = [at EXCEPT ![i] = t]
    /\ names' = [names EXCEPT ![i] = what]
    /\ UNCHANGED <<now, rows, paused, pc, passVars, ghosts, faults>>

\* The button on the dashboard.  A pass reads it when it wakes and not again, so
\* to press it during a pass is to press it after.
SetPaused ==
    /\ pc = "asleep"
    /\ paused' = ~paused
    /\ UNCHANGED <<now, corpusVars, rows, pc, passVars, ghosts, faults>>

-----------------------------------------------------------------------------
(* What a pass asks of the database.                                       *)

Today == {i \in Items : mention[i].day = now \div DayLength}
CallsToday == Cardinality({i \in Today : mention[i].state # "crowded"})
SpentToday == MapThenSumSet(LAMBDA i : mention[i].cost, Today)

\* unread_social, unread_documents: what is past the mark, and which of it a
\* batch may be; the database breaks ties as it likes.
Unread(c, mark) == {i \in Items : CorpusOf[i] = c /\ at[i] > mark}
Batches(unread) ==
    {S \in SUBSET unread :
        /\ Cardinality(S) = Min({Batch, Cardinality(unread)})
        /\ \A i \in S, j \in unread \ S : at[i] <= at[j]}

\* save_mention: one row for an item, whenever it is decided.
SaveMention(i, state, cost) ==
    /\ mention' = [mention EXCEPT ![i] = Row(state, cost)]
    /\ done' = done \cup {i}
    /\ orphans' = orphans \ {i}

-----------------------------------------------------------------------------
(* A pass.                                                                 *)

Idle ==
    /\ pc' = "asleep"
    /\ moment' = 0 /\ todo' = <<>> /\ texts' = {} /\ reached' = Never
    /\ budget' = 0 /\ bill' = 0 /\ answer' = NoAnswer

Wake ==
    /\ pc = "asleep"
    /\ ~paused
    /\ pc' = "corpus"
    /\ moment' = now
    /\ todo' = Corpora
    /\ UNCHANGED <<now, corpusVars, rows, paused, texts, reached, budget, bill,
                   answer, ghosts, faults>>

\* Where a corpus has been read to.  One that has never been read is marked
\* before anything is read of it.
Mark(c) == IF progress[c] = Never THEN moment - Backfill ELSE progress[c]

RecordMark(c) ==
    /\ progress' = [progress EXCEPT ![c] = Mark(c)]
    /\ since' = [since EXCEPT ![c] = IF @ = Never THEN Mark(c) ELSE @]

\* Mutant: a budget that is a pass's and not the day's.
BudgetPerPass == MaxCalls

BudgetLeft == MaxCalls - CallsToday

BilledBefore == SpentToday

\* The corpus is opened, and if anything is new a batch of it is read.
Begin ==
    /\ pc = "corpus"
    /\ todo # <<>>
    /\ RecordMark(Head(todo))
    /\ LET unread == Unread(Head(todo), Mark(Head(todo)))
       IN  IF unread = {}
           THEN /\ todo' = Tail(todo)
                /\ UNCHANGED <<pc, texts, reached, budget, bill>>
           ELSE /\ texts' \in Batches(unread)
                /\ reached' = Mark(Head(todo))
                /\ budget' = BudgetLeft
                /\ bill' = BilledBefore
                /\ pc' = "texts"
                /\ UNCHANGED todo
    /\ UNCHANGED <<now, corpusVars, mention, paused, moment, answer, ghosts,
                   faults>>

\* The pass is on the oldest text it has left.
On(i) ==
    /\ pc = "texts"
    /\ i \in texts
    /\ \A j \in texts : at[i] <= at[j]

\* And has asked nothing about it.
Turns(i) == On(i) /\ answer = NoAnswer

Past(i) ==
    /\ texts' = texts \ {i}
    /\ reached' = at[i]

NamesNothing(i) ==
    /\ Turns(i)
    /\ names[i] = "nothing"
    /\ Past(i)
    /\ UNCHANGED <<now, corpusVars, rows, paused, pc, moment, todo, budget, bill,
                   answer, ghosts, faults>>

NamesACrowd(i) ==
    /\ Turns(i)
    /\ names[i] = "crowd"
    /\ SaveMention(i, "crowded", 0)
    /\ Past(i)
    /\ UNCHANGED <<now, corpusVars, progress, since, paused, pc, moment, todo,
                   budget, bill, answer, dayVars, faults>>

\* Mutant: what ends the pass is moved past.
StopsPast(i) ==
    /\ Turns(i)
    /\ names[i] = "candidates"
    /\ pc' = "mark"
    /\ texts' = {}
    /\ reached' = at[i]
    /\ UNCHANGED <<now, corpusVars, rows, paused, moment, todo, budget, bill,
                   answer, ghosts, faults>>

\* A budget is spent, or the model is throttled: the pass ends where it is.
Stops(i) ==
    /\ Turns(i)
    /\ names[i] = "candidates"
    /\ pc' = "mark"
    /\ texts' = {}
    /\ UNCHANGED <<now, corpusVars, rows, paused, moment, todo, reached, budget,
                   bill, answer, ghosts, faults>>

\* Both ceilings are looked at before the call.  A DecideError says nothing of
\* what it cost: its cost is 0, here as on the row.
Asks(i, cost) ==
    /\ Turns(i)
    /\ names[i] = "candidates"
    /\ budget > 0
    /\ bill < MaxSpend
    /\ answer' = [item |-> {i}, cost |-> cost]
    /\ budget' = budget - 1
    /\ bill' = bill + cost
    /\ made' = made + 1
    /\ paid' = paid + cost
    /\ UNCHANGED <<now, corpusVars, rows, paused, pc, moment, todo, texts, reached,
                   deaths, done, orphans, faults>>

\* _settle, or the row of a failure: whether it resolved to a security, to none
\* or to neither is not told apart.
Settles(i) ==
    /\ On(i)
    /\ answer.item = {i}
    /\ SaveMention(i, "decided", answer.cost)
    /\ answer' = NoAnswer
    /\ Past(i)
    /\ UNCHANGED <<now, corpusVars, progress, since, paused, pc, moment, todo,
                   budget, bill, dayVars, faults>>

AllDecided ==
    /\ pc = "texts"
    /\ texts = {}
    /\ pc' = "mark"
    /\ UNCHANGED <<now, corpusVars, rows, paused, passVars, ghosts, faults>>

\* Mutant: the mark is left where it was, and is moved by the next pass.
AdvanceNever ==
    /\ pc = "mark"
    /\ todo' = Tail(todo)
    /\ pc' = "corpus"
    /\ reached' = Never /\ budget' = 0 /\ bill' = 0
    /\ done' = {}
    /\ UNCHANGED <<now, corpusVars, rows, paused, moment, texts, answer, dayVars,
                   orphans, faults>>

\* advance, never backwards, and finish_run.
Advance ==
    /\ pc = "mark"
    /\ progress' = [progress EXCEPT ![Head(todo)] = Max({@, reached})]
    /\ todo' = Tail(todo)
    /\ pc' = "corpus"
    /\ reached' = Never /\ budget' = 0 /\ bill' = 0
    /\ done' = {}
    /\ UNCHANGED <<now, corpusVars, since, mention, paused, moment, texts, answer,
                   dayVars, orphans, faults>>

Sleep ==
    /\ pc = "corpus"
    /\ todo = <<>>
    /\ Idle
    /\ UNCHANGED <<now, corpusVars, rows, paused, ghosts, faults>>

\* The pass raises, or dies with its container: whatever it knew is gone.
Dies ==
    /\ pc # "asleep"
    /\ faults < MaxFaults
    /\ faults' = faults + 1
    /\ deaths' = deaths + 1
    /\ orphans' = orphans \cup done
    /\ done' = {}
    /\ Idle
    /\ UNCHANGED <<now, corpusVars, rows, paused, made, paid>>

Next ==
    \/ TimePasses
    \/ \E i \in Items, t \in 0 .. now, what \in Finds : Arrives(i, t, what)
    \/ SetPaused
    \/ Wake \/ Begin
    \/ \E i \in Items :
          \/ NamesNothing(i) \/ NamesACrowd(i) \/ Stops(i) \/ Settles(i)
          \/ \E cost \in Prices \cup {0} : Asks(i, cost)
    \/ AllDecided
    \/ Advance \/ Sleep \/ Dies

Spec == Init /\ [][Next]_vars

-----------------------------------------------------------------------------
(* What must hold.                                                         *)

\* Every variable stays in its range.
TypeOK ==
    /\ now \in 0 .. Horizon
    /\ at \in [Items -> 0 .. Horizon \cup {Never}]
    /\ names \in [Items -> Finds]
    /\ progress \in [Names -> Int]
    /\ since \in [Names -> Int]
    /\ mention \in [Items -> [state : {"absent", "decided", "crowded"}, day : Int, cost : Prices \cup {0}]]
    /\ paused \in BOOLEAN
    /\ pc \in {"asleep", "corpus", "texts", "mark"}
    /\ moment \in 0 .. Horizon
    /\ todo \in Seq(Names)
    /\ texts \subseteq Items
    /\ reached \in Int
    /\ budget \in 0 .. MaxCalls
    /\ bill \in Nat
    /\ answer \in [item : SUBSET Items, cost : Prices \cup {0}]
    /\ {made, paid, deaths} \subseteq Nat
    /\ {done, orphans} \subseteq SUBSET Items
    /\ faults \in 0 .. MaxFaults

\* Nothing behind the mark was left undecided: "a high-water mark only means
\* anything if nothing is ever skipped", as unread_social has it, whichever
\* passes were throttled, ran out of budget or died.
NothingSkipped ==
    \A i \in Items :
        LET c == CorpusOf[i]
        IN  (names[i] # "nothing" /\ since[c] < at[i] /\ at[i] <= progress[c])
                => mention[i].state # "absent"

\* The calls a day really makes pass its budget by no more than a batch for
\* each pass that died that day: what it had asked and not moved the mark over
\* is asked again over the same row, and the answer it was given and did not
\* save has none.  However many passes wake in a day, and over midnight.
CallsHold == made <= MaxCalls + Batch * deaths

\* And what its answers cost passes the ceiling by no more than the one call
\* that reaches it, and the price of a batch for each pass that died.
CeilingHolds ==
    MaxSpend > 0 => paid < MaxSpend + Max(Prices) + Max(Prices) * Batch * deaths

\* The two budgets of a day.  (llm_calls_today, llm_spend_today, run_rupert)
BudgetsHold == CallsHold /\ CeilingHolds

\* A text that has a row is written again only if the very pass that wrote the
\* row died before it moved the mark over it.
RewrittenForCause ==
    \A i \in Items :
        (mention[i].state # "absent" /\ (mention'[i] # mention[i] \/ i \in done' \ done))
            => i \in orphans

DecidedOnce == [][RewrittenForCause]_vars
=============================================================================
