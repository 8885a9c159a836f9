------------------------------- MODULE Screen -------------------------------
(***************************************************************************)
(* The screen (screen/read.py, explain.py, queries.py) over the writers it *)
(* reads behind: ingest, which stamps a row with the moment its            *)
(* transaction began, and a night of scoring, which commits when it starts *)
(* and then reads.  A reader pages through a night it is pinned to, and    *)
(* each metric of a night is computed again under what its run could see.  *)
(*                                                                         *)
(* One security has prices and reports.  A metric is what it is made of:   *)
(* momentum of closes, quality of a report, valuation of both.             *)
(***************************************************************************)
EXTENDS Integers, Sequences, FiniteSets, FiniteSetsExt, SequencesExt, Functions

CONSTANTS
    Hours,          \* moments of a day, after which its cutoff is
    Settling,       \* days in which a bar is rewritten
    NightScores,    \* what a night may come to: scores by security id
    PageSize,
    LastMoment, MaxReports, MaxNights   \* bounds

ASSUME ScreenAssumption ==
    /\ {Hours, PageSize} \subseteq Nat \ {0}
    /\ {Settling, LastMoment, MaxReports, MaxNights} \subseteq Nat
    /\ \A scores \in NightScores :
          /\ DOMAIN scores \subseteq Nat /\ IsFiniteSet(DOMAIN scores)
          /\ scores \in [DOMAIN scores -> Int]

VARIABLES
    moment,     \* the database's clock
    price,      \* price_daily: by trade date, its observed_at, which stands for the close
    report,     \* fundamental_fact: the observed_at of each, in order
    writing,    \* ingest's transaction, or NoWrite
    scoring,    \* the run that is under way, or NoRun; alone: ghost, ingest has not
                \* written since it began, nor was writing then
    night,      \* scored nights, by run
    logic,      \* LOGIC_DESCRIPTION of the build
    reader      \* a page's run, order and rows so far, or NoReader; of: ghost, the
                \* nights there were at the first page

screenVars == <<moment, price, report, writing, scoring, night, logic, reader>>

NoWrite == [kind |-> "none"]
NoRun == [at |-> "none"]
NoReader == [run |-> 0]
Pillars == {"momentum", "valuation", "quality"}
Sorts == {"score", "delta"}

Date == moment \div Hours
CutoffOf(asOf) == (asOf + 1) * Hours

ScreenInit ==
    /\ moment = 0
    /\ price = [d \in {} |-> 0]
    /\ report = <<>>
    /\ writing = NoWrite
    /\ scoring = NoRun
    /\ night = <<>>
    /\ logic = 1
    /\ reader = NoReader

Tick == moment < LastMoment /\ moment' = moment + 1

-----------------------------------------------------------------------------
(* What is written.                                                        *)

\* A transaction of ingest begins, which is what now() says until it commits.
BeginWrite(kind) ==
    /\ writing = NoWrite
    /\ kind = "report" => Len(report) < MaxReports
    /\ Tick
    /\ writing' = [kind |-> kind, at |-> moment + 1]
    /\ scoring' = IF scoring = NoRun THEN NoRun ELSE [scoring EXCEPT !.alone = FALSE]
    /\ UNCHANGED <<price, report, night, logic, reader>>

\* The days that are settling are written again; a report is added.
CommitWrite ==
    /\ writing # NoWrite
    /\ writing' = NoWrite
    /\ LET today == writing.at \div Hours
           again == {d \in 0 .. today : d >= today - Settling}
       IN  IF writing.kind = "report"
           THEN /\ report' = Append(report, writing.at)
                /\ UNCHANGED price
           ELSE /\ price' = [d \in DOMAIN price \cup again |->
                                IF d \in again THEN writing.at ELSE price[d]]
                /\ UNCHANGED report
    /\ UNCHANGED <<moment, scoring, night, logic, reader>>

\* open_run, for a day that no run has scored.
OpenNight(asOf) ==
    /\ scoring = NoRun
    /\ Len(night) < MaxNights
    /\ asOf <= Date
    /\ \A k \in DOMAIN night : night[k].asOf # asOf
    /\ Tick
    /\ scoring' = [at |-> "bars", asOf |-> asOf, started |-> moment + 1,
                   alone |-> writing = NoWrite]
    /\ UNCHANGED <<price, report, writing, night, logic, reader>>

\* read_bars and read_facts, as of a day and under a moment.
VisibleBars(asOf, upTo) ==
    Restrict(price, {d \in DOMAIN price : d <= asOf /\ price[d] <= upTo})

VisibleReport(upTo) ==
    LET seen == {at \in Range(report) : at <= upTo}
    IN  IF seen = {} THEN <<>> ELSE <<Max(seen)>>

\* What the metrics of each pillar are made of; one without it is not there.
Metrics(bars, fact) ==
    LET close == bars[Max(DOMAIN bars)]
    IN  [p \in {p \in Pillars : /\ p # "quality" => DOMAIN bars # {}
                                /\ p # "momentum" => fact # <<>>} |->
            CASE p = "momentum" -> <<bars>>
              [] p = "quality" -> <<fact>>
              [] OTHER -> <<close, fact>>]

ReadBars ==
    /\ scoring.at = "bars"
    /\ LET bars == VisibleBars(scoring.asOf, CutoffOf(scoring.asOf))
       IN  scoring' = IF DOMAIN bars = {} THEN NoRun
                      ELSE [at |-> "facts", asOf |-> scoring.asOf, started |-> scoring.started,
                            alone |-> scoring.alone, bars |-> bars]
    /\ UNCHANGED <<moment, price, report, writing, night, logic, reader>>

\* ... and the rest of score, up to the commit of the night.
CommitNight(scores) ==
    /\ scoring.at = "facts"
    /\ night' = Append(night,
           [asOf |-> scoring.asOf, started |-> scoring.started, logic |-> logic,
            alone |-> scoring.alone, scores |-> scores,
            stored |-> Metrics(scoring.bars, VisibleReport(CutoffOf(scoring.asOf)))])
    /\ scoring' = NoRun
    /\ UNCHANGED <<moment, price, report, writing, logic, reader>>

NightFails ==
    /\ scoring # NoRun
    /\ scoring' = NoRun
    /\ UNCHANGED <<moment, price, report, writing, night, logic, reader>>

TimeGoesBy ==
    /\ Tick
    /\ UNCHANGED <<price, report, writing, scoring, night, logic, reader>>

\* A build that scores by other rules, which serves no night of the rules before.
Deploy ==
    /\ logic = 1 /\ scoring = NoRun
    /\ logic' = 2
    /\ UNCHANGED <<moment, price, report, writing, scoring, night, reader>>

-----------------------------------------------------------------------------
(* A night is browsed.                                                     *)

Qualifying == {k \in DOMAIN night : night[k].logic = logic}

LatestRun == CHOOSE k \in Qualifying : \A j \in Qualifying : night[j].asOf <= night[k].asOf

\* Mutant: the latest night is served, whichever the reader is pinned to.
ServeLatest(pinned) == IF Qualifying = {} THEN 0 ELSE LatestRun

\* resolve_run: the run that is pinned, while it qualifies, or the latest.
ResolveRun(pinned) ==
    IF pinned = 0 THEN ServeLatest(pinned)
    ELSE IF pinned \in Qualifying THEN pinned ELSE 0

PreviousRuns(k) == {j \in Qualifying : night[j].asOf < night[k].asOf}

PreviousScore(k, s) ==
    LET p == PreviousRuns(k)
        j == CHOOSE j \in p : \A i \in p : night[i].asOf <= night[j].asOf
    IN  IF p = {} \/ s \notin DOMAIN night[j].scores THEN {} ELSE {night[j].scores[s]}

\* screen_page: every order ends with the id, and what has no change is last.  The
\* night a change is measured from is looked up by every request.
Key(k, sort, s) ==
    LET score == night[k].scores[s]
    IN  IF sort = "score" THEN {score} ELSE {score - p : p \in PreviousScore(k, s)}

Before(k, sort, s, t) ==
    LET a == Key(k, sort, s)
        b == Key(k, sort, t)
    IN  \/ a # {} /\ b = {}
        \/ a # {} /\ b # {} /\ \E x \in a, y \in b : x > y \/ (x = y /\ s < t)
        \/ a = {} /\ b = {} /\ s < t

Order(k, sort) ==
    LET ids == DOMAIN night[k].scores
    IN  CHOOSE rows \in [1 .. Cardinality(ids) -> ids] :
            \A i, j \in DOMAIN rows : i < j => Before(k, sort, rows[i], rows[j])

Page(k, sort, offset) ==
    SubSeq(Order(k, sort), offset + 1, Min({offset + PageSize, Len(Order(k, sort))}))

\* The first page asks for no run and is pinned to the one that comes back ...
Browse(sort) ==
    /\ ResolveRun(0) # 0
    /\ reader' = [run |-> ResolveRun(0), sort |-> sort, of |-> Len(night),
                  rows |-> Page(ResolveRun(0), sort, 0)]
    /\ UNCHANGED <<moment, price, report, writing, scoring, night, logic>>

\* ... and the next asks for that run, and is refused if it is served no more.
NextPage ==
    /\ reader # NoReader
    /\ LET k == ResolveRun(reader.run)
       IN  reader' = IF k = 0 THEN NoReader
                     ELSE [reader EXCEPT !.rows = @ \o Page(k, reader.sort, Len(@))]
    /\ UNCHANGED <<moment, price, report, writing, scoring, night, logic>>

ScreenNext ==
    \/ \E kind \in {"price", "report"} : BeginWrite(kind)
    \/ CommitWrite
    \/ \E asOf \in 0 .. LastMoment \div Hours : OpenNight(asOf)
    \/ ReadBars \/ NightFails \/ TimeGoesBy \/ Deploy \/ NextPage
    \/ \E scores \in NightScores : CommitNight(scores)
    \/ \E sort \in Sorts : Browse(sort)

ScreenSpec == ScreenInit /\ [][ScreenNext]_screenVars

-----------------------------------------------------------------------------
(* A metric is checked.                                                    *)

\* view_offset: what the run could see, which its start bounds too.
View(n) == Min({CutoffOf(n.asOf), n.started})

\* A bar of its days was written after it started.
Refreshed(n) == \E d \in DOMAIN price : d <= n.asOf /\ price[d] > n.started

Reproduce(n) == Metrics(VisibleBars(n.asOf, View(n)), VisibleReport(View(n)))

Check(n, pillar) ==
    LET value == Reproduce(n)
        made == pillar \in DOMAIN value
        was == pillar \in DOMAIN n.stored
    IN  IF pillar # "quality" /\ Refreshed(n) THEN "refreshed"
        ELSE CASE ~made /\ was -> "mismatch"
               [] ~made /\ ~was -> "absent"
               [] made /\ ~was -> "unexpected"
               [] OTHER -> IF value[pillar] = n.stored[pillar] THEN "ok" ELSE "mismatch"

-----------------------------------------------------------------------------
(* What must hold.                                                         *)

\* Nothing that ingest writes makes a metric of a night look wrong: one that is
\* called a mismatch, or unexpected, was never made of what its run saw.  The
\* exception is a night that ingest wrote into while it was scored, whose rows carry
\* the instant their transaction began.  (view_offset, reproduce, check)
NoFalseAlarm ==
    \A k \in DOMAIN night : \A pillar \in Pillars :
        night[k].alone => Check(night[k], pillar) \notin {"mismatch", "unexpected"}

\* The claim without the exception.  (explain.py)
NeverAFalseAlarm ==
    \A k \in DOMAIN night : \A pillar \in Pillars :
        Check(night[k], pillar) \notin {"mismatch", "unexpected"}

\* An earlier date was scored since the first page, and changes are measured from it.
MeasuredAnew ==
    reader.sort = "delta" /\ \E j \in PreviousRuns(reader.run) : j > reader.of

\* Pages neither overlap nor skip, and never mix two nights, whatever is scored and
\* deployed between them: those of a run that is served are the beginning of its
\* order.  The exception is the order by change, once an earlier date is scored.
\* (resolve_run, previous_run, screen_page)
PagesAreOneNight ==
    reader # NoReader /\ reader.run \in Qualifying /\ ~MeasuredAnew =>
        IsPrefix(reader.rows, Order(reader.run, reader.sort))

\* Every order, as the comment on ORDER_BY has it.  (queries.py)
PagesNeverOverlap ==
    reader # NoReader /\ reader.run \in Qualifying =>
        IsPrefix(reader.rows, Order(reader.run, reader.sort))

\* What a reader is shown of a night is that night.  (screen_page, reproduce)
ScreenIsTrue == NoFalseAlarm /\ PagesAreOneNight
=============================================================================
