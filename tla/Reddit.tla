------------------------------- MODULE Reddit -------------------------------
(***************************************************************************)
(* The walk of one stream, a subreddit and a kind, over a mirror that      *)
(* answers newest first and refuses when it likes (reddit/ingest.py,       *)
(* reddit/source.py, reddit/store.py).  A pass walks spans backwards: from *)
(* now to what it has, then the gaps earlier passes wrote down, then what  *)
(* the backfill has not reached.  A span that is interrupted has banked    *)
(* its newer end, and writes down what is left of it.                      *)
(*                                                                         *)
(* Times are counted in half seconds.  An item is of a whole second, and   *)
(* has a name within it; a pass begins within a second, and the mirror is  *)
(* asked in whole ones.  Streams share nothing.                            *)
(***************************************************************************)
EXTENDS Integers, Sequences, FiniteSets, FiniteSetsExt, SequencesExt

CONSTANTS
    BackfillDays,   \* REDDIT_BACKFILL_DAYS
    Overlap,        \* OVERLAP
    Tolerance,      \* REACHED
    BankAt,         \* BATCH
    Page,           \* PAGE
    Window,         \* WINDOW
    MinReach,       \* MIN_REACH
    WidenAfter,     \* WIDEN_AFTER
    Attempts,       \* ATTEMPTS, and RATE_LIMIT_ATTEMPTS
    GapLimit,       \* pending_gaps, limit
    GapAttempts,    \* pending_gaps, max_attempts
    Postings,       \* what may be posted: sets of items
    RedditHorizon,  \* bound: the last instant
    MaxTrouble      \* bound: refusals, unwritable batches, kills and requests

ASSUME RedditAssumption ==
    /\ {Overlap, BankAt, Page, Window, MinReach, WidenAfter, Attempts, GapLimit,
        GapAttempts} \subseteq Nat \ {0}
    /\ {BackfillDays, Tolerance, RedditHorizon, MaxTrouble} \subseteq Nat
    /\ \A some \in Postings :
          IsFiniteSet(some) /\ \A p \in some : p[1] \in Int /\ p[1] % 2 = 0 /\ p[2] \in Nat

Second == 2

\* int(timestamp()): the second it is in.
Whole(t) == Second * (t \div Second)

VARIABLES
    time,
    posted,     \* what the mirror holds
    items,      \* social_item
    gaps,       \* social_gap: what is to be walked, with its attempts
    walk,       \* _walk, or NoWalk
    ingestRun,  \* the status of the latest ingest_run
    trouble,    \* how much has gone wrong, or been asked for
    lost        \* the seconds that were left to nobody, and by what: no code knows

redditVars == <<time, posted, items, gaps, walk, ingestRun, trouble, lost>>

NoWalk == [at |-> "none"]

RedditInit ==
    /\ time = 1
    /\ posted \in Postings
    /\ items = {}
    /\ gaps = <<>>
    /\ walk = NoWalk
    /\ ingestRun = "none"
    /\ trouble = 0
    /\ lost = {}

-----------------------------------------------------------------------------
(* social_item and social_gap.                                             *)

At(item) == item[1]  \* created_utc
SecondsOf(S) == {At(i) : i \in S}

Newest == Max(SecondsOf(items))
Oldest == Min(SecondsOf(items))

Span(after, before, isGap) ==
    [after |-> after, before |-> before, gap |-> isGap]
KeyOf(span) == <<span.after, span.before>>

\* Newest first, a few of them, and none that has been given up on.  Of two that
\* end together either may come first.
PendingGaps ==
    LET open == {g \in DOMAIN gaps : gaps[g] < GapAttempts}
        places == 1 .. Min({GapLimit, Cardinality(open)})
    IN  {rows \in [places -> open] :
            /\ \A j, k \in places : j < k => rows[j] # rows[k] /\ rows[j][2] >= rows[k][2]
            /\ \A g \in open \ Range(rows) : \A k \in places : rows[k][2] >= g[2]}

Without(key) == [g \in DOMAIN gaps \ {key} |-> gaps[g]]
Bumped(key) == [gaps EXCEPT ![key] = @ + 1]

\* An empty span is dropped; one that is there already counts a try.
RecordGap(after, before) ==
    LET key == <<after, before>>
    IN  IF before <= after THEN gaps
        ELSE IF key \in DOMAIN gaps THEN Bumped(key)
        ELSE [g \in DOMAIN gaps \cup {key} |-> IF g = key THEN 0 ELSE gaps[g]]

-----------------------------------------------------------------------------
(* The walk of a span.                                                     *)

\* One window of a span, from the end it has been walked down to.
OpenWindow(w, end, reach) ==
    LET start == Max({Head(w.spans).after, end - Window})
    IN  [w EXCEPT !.at = "ask", !.start = start, !.cursor = end,
                  !.width = end - start, !.reach = Min({reach, end - start}),
                  !.clean = 0, !.tries = 0]

\* The next span, if there is one, walked from its newer end.
OpenSpan(w) ==
    IF w.spans = <<>> THEN [w EXCEPT !.at = "finish"]
    ELSE OpenWindow([w EXCEPT !.batch = {}, !.seen = {},
                              !.frontier = Head(w.spans).before],
                    Head(w.spans).before, Window)

LeaveSpan(w) == OpenSpan([w EXCEPT !.spans = Tail(@)])

Target == time - BackfillDays

\* What a pass has to walk: all of the backfill, or what is new; then gaps; then
\* the older end, unless it is as good as reached.
Spans(rows) ==
    LET pending == [k \in DOMAIN rows |-> Span(rows[k][1], rows[k][2], TRUE)]
    IN  IF items = {} THEN <<Span(Target, time, FALSE)>> \o pending
        ELSE <<Span(Newest - Overlap, time, FALSE)>> \o pending
             \o (IF Oldest > Target + Tolerance
                 THEN <<Span(Target, Oldest, FALSE)>> ELSE <<>>)

BeginWalk ==
    /\ walk = NoWalk
    /\ \E rows \in PendingGaps :
          walk' = OpenSpan([at |-> "ask", spans |-> Spans(rows),
                            from |-> Head(Spans(rows)).after, moment |-> time,
                            start |-> 0, width |-> 0, cursor |-> 0, reach |-> 0,
                            clean |-> 0, tries |-> 0, page |-> {}, seen |-> {}, short |-> FALSE,
                            batch |-> {}, frontier |-> 0, stored |-> FALSE,
                            failed |-> FALSE])
    /\ ingestRun' = "running"
    /\ UNCHANGED <<time, posted, items, gaps, trouble, lost>>

GoesWrong ==
    /\ trouble < MaxTrouble
    /\ trouble' = trouble + 1

\* What the next request is of.
Floor == Max({walk.start, walk.cursor - walk.reach})

\* The newest of what is held, a page of it; within a second in no order.
PagesOf(held) ==
    {S \in SUBSET held :
        /\ Cardinality(S) = Min({Page, Cardinality(held)})
        /\ \A p \in S, q \in held \ S : At(q) <= At(p)}

\* Both edges are inclusive, so an edge is answered twice: what was seen is passed over.
Answered ==
    /\ walk.at = "ask"
    /\ LET held == {p \in posted : Whole(Floor) <= At(p) /\ At(p) <= Whole(walk.cursor)}
       IN  \E page \in PagesOf(held) :
              walk' = [walk EXCEPT !.at = "page", !.page = page \ walk.seen,
                                   !.seen = @ \cup page,
                                   !.short = Cardinality(held) < Page, !.tries = 0]
    /\ UNCHANGED <<time, posted, items, gaps, ingestRun, trouble, lost>>

\* The mirror's query gave up: the same again, and after ATTEMPTS of them less.
\* At five minutes there is no less, and the span is interrupted.
TimedOut ==
    /\ walk.at = "ask"
    /\ GoesWrong
    /\ walk' = IF walk.tries + 1 < Attempts THEN [walk EXCEPT !.tries = @ + 1]
               ELSE IF walk.reach <= MinReach THEN [walk EXCEPT !.at = "except"]
               ELSE [walk EXCEPT !.reach = Max({MinReach, @ \div 2}),
                                 !.clean = 0, !.tries = 0]
    /\ UNCHANGED <<time, posted, items, gaps, ingestRun, lost>>

\* A rate limit that outlasts the backoff, or an answer that is no listing.
Refused ==
    /\ walk.at = "ask"
    /\ GoesWrong
    /\ walk' = [walk EXCEPT !.at = "except"]
    /\ UNCHANGED <<time, posted, items, gaps, ingestRun, lost>>

\* What is between a gap's stretch and the marks.  Once an item of the gap is
\* stored the marks take it for walked: a requested stretch may be anywhere.
Beyond(span) ==
    IF span.gap /\ items # {}
    THEN {"requested"} \X ((Newest .. span.after) \cup (span.before .. Oldest)) ELSE {}

\* save: an upsert.
Banks(w) ==
    /\ items' = items \cup w.batch
    /\ walk' = [w EXCEPT !.batch = {}, !.stored = @ \/ ~(w.batch \subseteq items)]
    /\ lost' = lost \cup Beyond(Head(w.spans))
    /\ UNCHANGED trouble

\* The batch cannot be written, now or when the span is settled.
Unsaved(w) ==
    /\ w.batch # {}
    /\ GoesWrong
    /\ walk' = [w EXCEPT !.at = "except"]
    /\ UNCHANGED <<items, lost>>

\* The newest item of the page that is left, banked when it fills a batch.
Yields ==
    /\ walk.at = "page"
    /\ \E p \in walk.page :
          /\ \A q \in walk.page : At(q) <= At(p)
          /\ LET w == [walk EXCEPT !.page = @ \ {p}, !.batch = @ \cup {p},
                                   !.frontier = Min({@, At(p)})]
             IN  IF Cardinality(w.batch) < BankAt
                 THEN walk' = w /\ UNCHANGED <<items, trouble, lost>>
                 ELSE Banks(w) \/ Unsaved(w)
    /\ UNCHANGED <<time, posted, gaps, ingestRun>>

\* Where the next request starts and how much it asks for: below a short page is
\* the slice's floor, below a full one its oldest item.  A full page that did not
\* get below its upper edge is stepped past, with what is left of that second.
Stepped ==
    LET widens == walk.clean + 1 >= WidenAfter /\ walk.reach < walk.width
    IN  [walk EXCEPT
            !.at = "ask",
            !.cursor = IF walk.short THEN Floor
                       ELSE IF walk.frontier >= @ THEN Whole(@) - Second ELSE walk.frontier,
            !.clean = IF widens THEN 0 ELSE @ + 1,
            !.reach = IF widens THEN Min({walk.width, 2 * @}) ELSE @]

\* A window that ends on a short page leaves before it is widened.
ReachAfter == IF walk.short THEN walk.reach ELSE Stepped.reach

\* Mutant: a slice that is exhausted ends its window.
TurnsShort ==
    /\ walk.at = "page"
    /\ walk.page = {}
    /\ walk' = IF ~walk.short /\ Stepped.cursor > walk.start THEN Stepped
               ELSE IF walk.start > Head(walk.spans).after
               THEN OpenWindow(walk, walk.start, ReachAfter)
               ELSE [walk EXCEPT !.at = "bank"]
    /\ UNCHANGED <<time, posted, items, gaps, ingestRun, trouble, lost>>

\* The page is used up: the next slice, the next window, or the span is done.
Turns ==
    /\ walk.at = "page"
    /\ walk.page = {}
    /\ walk' = IF Stepped.cursor > walk.start THEN Stepped
               ELSE IF walk.start > Head(walk.spans).after
               THEN OpenWindow(walk, walk.start, ReachAfter)
               ELSE [walk EXCEPT !.at = "bank"]
    /\ UNCHANGED <<time, posted, items, gaps, ingestRun, trouble, lost>>

\* The span was walked end to end: its last batch, and then its gap goes.
SpanDone ==
    /\ walk.at = "bank"
    /\ \/ /\ walk.batch = {}
          /\ gaps' = IF Head(walk.spans).gap THEN Without(KeyOf(Head(walk.spans)))
                     ELSE gaps
          /\ walk' = LeaveSpan(walk)
          /\ UNCHANGED <<items, trouble, lost>>
       \/ /\ walk.batch # {}
          /\ Banks(walk) \/ Unsaved(walk)
          /\ UNCHANGED gaps
    /\ UNCHANGED <<time, posted, ingestRun>>

\* Mutant: an interrupted span trusts the marks to find it again.
WriteDownNothing(w, reached) ==
    /\ gaps' = gaps
    /\ walk' = [w EXCEPT !.at = "drop", !.failed = TRUE]

\* What is left of an interrupted span is written down; a gap that got nowhere
\* counts the try, and any other span that got nowhere is trusted to the marks.
WriteDown(w, reached) ==
    LET span == Head(w.spans)
    IN  /\ gaps' = IF reached < span.before THEN RecordGap(span.after, reached)
                   ELSE IF span.gap THEN Bumped(KeyOf(span)) ELSE gaps
        /\ walk' = IF reached < span.before /\ span.gap
                   THEN [w EXCEPT !.at = "drop", !.failed = TRUE]
                   ELSE LeaveSpan([w EXCEPT !.failed = TRUE])

\* What is new, of which a part is stored: the newest mark is above the rest of it.
Torn(span) ==
    /\ ~span.gap /\ span.before = walk.moment
    /\ items # {} /\ Oldest <= span.after + Overlap /\ span.after + Overlap < Newest
Rest(span, cause) ==
    IF Torn(span) THEN {cause} \X (span.after .. span.before) ELSE {}

\* The span is interrupted.  What it has is banked first, and if that cannot be
\* written none of the span is taken to have been covered.
SpanFails ==
    /\ walk.at = "except"
    /\ \/ /\ items' = items \cup walk.batch
          /\ WriteDown([walk EXCEPT !.stored = @ \/ ~(walk.batch \subseteq items)],
                       walk.frontier)
          /\ lost' = IF walk.batch = {} THEN lost ELSE lost \cup Beyond(Head(walk.spans))
          /\ UNCHANGED trouble
       \/ /\ walk.batch # {}
          /\ GoesWrong
          /\ WriteDown(walk, Head(walk.spans).before)
          /\ lost' = lost \cup Rest(Head(walk.spans), "unsaved")
          /\ UNCHANGED items
    /\ UNCHANGED <<time, posted, ingestRun>>

\* The remainder replaces the gap it came from.
DropGap ==
    /\ walk.at = "drop"
    /\ gaps' = Without(KeyOf(Head(walk.spans)))
    /\ walk' = LeaveSpan(walk)
    /\ UNCHANGED <<time, posted, items, ingestRun, trouble, lost>>

FinishWalk ==
    /\ walk.at = "finish"
    /\ ingestRun' = IF ~walk.failed THEN "ok"
                    ELSE IF walk.stored THEN "partial" ELSE "failed"
    /\ walk' = NoWalk
    /\ UNCHANGED <<time, posted, items, gaps, trouble, lost>>

\* The container goes, and what the pass knew with it.
WalkKilled ==
    /\ walk # NoWalk
    /\ GoesWrong
    /\ walk' = NoWalk
    /\ lost' = IF walk.at = "finish" THEN lost ELSE lost \cup Rest(Head(walk.spans), "killed")
    /\ UNCHANGED <<time, posted, items, gaps, ingestRun>>

\* queue: an operator has the last days walked again, in a process of its own.
Queue(days) ==
    /\ GoesWrong
    /\ gaps' = RecordGap(time - days, time)
    /\ UNCHANGED <<time, posted, items, walk, ingestRun, lost>>

\* Time passes between passes: a pass asks for nothing that is posted after it
\* began.
RedditWaits ==
    /\ walk = NoWalk
    /\ time < RedditHorizon
    /\ time' = time + Second
    /\ UNCHANGED <<posted, items, gaps, walk, ingestRun, trouble, lost>>

RedditNext ==
    \/ RedditWaits
    \/ \E seconds \in 1 .. BackfillDays \div Second : Queue(Second * seconds)
    \/ BeginWalk
    \/ Answered \/ TimedOut \/ Refused
    \/ Yields \/ Turns
    \/ SpanDone \/ SpanFails \/ DropGap
    \/ FinishWalk \/ WalkKilled

RedditSpec == RedditInit /\ [][RedditNext]_redditVars

-----------------------------------------------------------------------------
(* What must hold.                                                         *)

Known(t) == \E g \in DOMAIN gaps : g[1] <= t /\ t <= g[2]

\* More is posted in a second than a page holds: the mirror will not say all of it.
Crowded(t) == Cardinality({p \in posted : At(p) = t}) > Page

\* Of what lies between the marks, all is stored or in a span that says it is to
\* be walked, but for what was lost to these causes.
HolesAreWritten(causes) ==
    (walk = NoWalk /\ items # {}) =>
        \A p \in posted :
            (Oldest < At(p) /\ At(p) < Newest - Overlap) =>
                \/ p \in items \/ Known(At(p)) \/ Crowded(At(p))
                \/ \E cause \in causes : <<cause, At(p)>> \in lost

\* However passes are refused, interrupted, killed and asked for, every hole is
\* written down, but for the stretches that are named where they are lost: what
\* a dead pass, or one whose last batch could not be written, had left of what is
\* new, and what is between the marks and a requested stretch.
NoHoleUnwritten == HolesAreWritten({"killed", "unsaved", "requested"})

\* "A batch that cannot be written widens the gap to the whole span": no hole is
\* left unwritten by one either.
BatchFailureIsWritten == HolesAreWritten({"killed", "requested"})

\* A pass that is about to say 'ok' has everything its first span asked for,
\* however often the mirror had to be asked for less, but for the seconds that
\* hold more than a page.
OkIsWhole ==
    (walk.at = "finish" /\ ~walk.failed) =>
        {p \in posted : walk.from < At(p) /\ At(p) < walk.moment /\ ~Crowded(At(p))}
            \subseteq items
=============================================================================
