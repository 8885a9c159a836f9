------------------------------- MODULE Ingest -------------------------------
(***************************************************************************)
(* Prices and fundamentals (ingest/run.py, load.py, window.py, parse.py,   *)
(* facts.py, chart.py, timeseries.py, sweep.py, blobs).  A run asks for    *)
(* each active security in turn, from a day read once from what is held,   *)
(* stores the payload as an object, and writes an observation of it and    *)
(* what it says in one transaction.  Nothing else is kept between runs.    *)
(*                                                                         *)
(* A bar is how often it was revised and the splits it is adjusted for, or *)
(* blank: a null or malformed value in it.  The fundamentals of a security *)
(* are one fact of one period.  A day is a calendar day, and runs follow   *)
(* each other: the night holds a lock.                                     *)
(***************************************************************************)
EXTENDS Integers, Sequences, FiniteSets, FiniteSetsExt, Functions

CONSTANTS
    Securities,     \* active, in the order of their symbols: a sequence
    SettlingDays,   \* SETTLING_DAYS
    RevisedFor,     \* external: how long after its session a bar is revised
    LastDay,        \* bound: days
    MaxRevisions,   \* bound: splits, and revisions of bars and of the fact
    MaxRuns,        \* bound: runs
    IngestTrouble   \* bound: requests, statements and objects that fail, blank bars, kills

ASSUME IngestAssumption ==
    /\ {SettlingDays, RevisedFor, LastDay, MaxRevisions, MaxRuns, IngestTrouble}
          \subseteq Nat
    /\ RevisedFor < SettlingDays
    /\ Securities \in Seq(Range(Securities)) /\ IsInjective(Securities)

VARIABLES
    day,            \* the date a run is given
    yahoo,          \* external: what the provider says, of bars and of the fact
    bars,           \* price_daily: a security's bars by trade date
    facts,          \* fundamental_fact, in the order they were observed
    observation,    \* ingest_observation, in order
    blob,           \* the store: the payload at a path
    ingest,         \* the run, or NoIngest
    ingestRows,     \* ingest_run: endpoint and status
    ingestTrouble,
    lastSeen,       \* ghost: the day a security's bars were last written
    lapsed,         \* ghost: securities that went unread for too long
    blanks          \* ghost: the days that were blank when last they were answered

ingestVars == <<day, yahoo, bars, facts, observation, blob, ingest, ingestRows,
                ingestTrouble, lastSeen, lapsed, blanks>>

Secs == Range(Securities)
Endpoints == {"chart", "timeseries"}
NoIngest == [at |-> "none"]
NoBars == [d \in {} |-> <<>>]
Blank == <<>>
BackfillStart == 0

IngestInit ==
    /\ day = 0
    /\ yahoo = [bar |-> [d \in 0 .. LastDay |-> 0], fact |-> 0, splits |-> 0,
                revisions |-> 0]
    /\ bars = [s \in Secs |-> NoBars]
    /\ facts = [s \in Secs |-> <<>>]
    /\ observation = <<>>
    /\ blob = [p \in {} |-> <<>>]
    /\ ingest = NoIngest
    /\ ingestRows = <<>>
    /\ ingestTrouble = 0
    /\ lastSeen = [s \in Secs |-> 0]
    /\ lapsed = {}
    /\ blanks = [s \in Secs |-> {}]

-----------------------------------------------------------------------------
(* What is asked, and what is kept of it.                                  *)

Cutoff(today) == today - SettlingDays

\* Mutant: the window the specification of the run writes, max for min.
WindowByTheSpec(s, today) ==
    IF bars[s] = NoBars THEN BackfillStart
    ELSE Max({Max(DOMAIN bars[s]) + 1, Cutoff(today)})

\* windows: where we stopped, or the settling cutoff if that is earlier.
WindowStart(s, today) ==
    IF bars[s] = NoBars THEN BackfillStart
    ELSE Min({Max(DOMAIN bars[s]) + 1, Cutoff(today)})

\* What the provider says of a session: as it was revised, and on today's scale.
Said(d) == <<yahoo.bar[d], yahoo.splits>>

\* A response: the sessions from the start on, some of them blank, or the fact.  One
\* that holds no result is "malformed", and parses to nothing.
Payload(endpoint, start, blank) ==
    IF endpoint = "timeseries" THEN <<"fact", yahoo.fact>>
    ELSE <<"bars", [d \in Max({start, 0}) .. day |-> IF d \in blank THEN Blank ELSE Said(d)]>>

\* parse: a bar with a null in it is dropped, and the others are kept.
ParsedBars(payload) ==
    IF payload[1] = "bars"
    THEN Restrict(payload[2], {d \in DOMAIN payload[2] : payload[2][d] # Blank})
    ELSE NoBars

\* insert_settled_bars, which leaves what is there, and upsert_unsettled_bars.
WithBars(held, new, cutoff) ==
    [d \in DOMAIN held \cup DOMAIN new |->
        IF d \in DOMAIN held /\ (d < cutoff \/ d \notin DOMAIN new) THEN held[d]
        ELSE new[d]]

\* insert_facts: a value that differs from the latest, which it restates.
WithFacts(held, payload) ==
    IF payload[1] # "fact" \/ (held # <<>> /\ held[Len(held)].value = payload[2])
    THEN held
    ELSE Append(held, [value |-> payload[2], restates |-> Len(held)])

BlobPath(endpoint, today, s) == <<endpoint, today, s>>

Observed(s, endpoint) ==
    {k \in DOMAIN observation : observation[k].of = s /\ observation[k].endpoint = endpoint}

\* run_sweep, which writes nothing: the bars held that were settled by today, and are
\* not what the provider says of them now.
Mismatches(s) ==
    LET said == ParsedBars(Payload("chart", BackfillStart, {}))
    IN  {d \in DOMAIN bars[s] \cap DOMAIN said : d < Cutoff(day) /\ bars[s][d] # said[d]}

-----------------------------------------------------------------------------
(* A run.                                                                  *)

IngestFails ==
    /\ ingestTrouble < IngestTrouble
    /\ ingestTrouble' = ingestTrouble + 1

\* open_run, and every window at once.
OpenRun(endpoint) ==
    /\ ingest = NoIngest
    /\ Len(ingestRows) < MaxRuns
    /\ ingestRows' = Append(ingestRows, [endpoint |-> endpoint, status |-> "running"])
    /\ ingest' = [at |-> "fetch", endpoint |-> endpoint, todo |-> Securities, ok |-> 0,
                  failed |-> 0, payload |-> <<"none">>, path |-> <<>>, isNew |-> FALSE,
                  starts |-> [s \in Secs |-> WindowStart(s, day)]]
    /\ UNCHANGED <<day, yahoo, bars, facts, observation, blob, ingestTrouble, lastSeen,
                   lapsed, blanks>>

Security == Head(ingest.todo)

\* One security's failure: no answer, an empty one, a statement that failed.
Fails ==
    /\ ingest.at \in {"fetch", "write"}
    /\ ingest.todo # <<>>
    /\ IngestFails
    /\ ingest' = [ingest EXCEPT !.at = "fetch", !.todo = Tail(@), !.failed = @ + 1]
    /\ UNCHANGED <<day, yahoo, bars, facts, observation, blob, ingestRows, lastSeen,
                   lapsed, blanks>>

\* An answer, and the hash and the path of the one before it.
Answers(malformed, blank) ==
    /\ ingest.at = "fetch"
    /\ ingest.todo # <<>>
    /\ blank # {} => ingest.endpoint = "chart"
    /\ IF malformed \/ blank # {} THEN IngestFails ELSE UNCHANGED ingestTrouble
    /\ LET payload == IF malformed THEN <<"malformed">>
                      ELSE Payload(ingest.endpoint, ingest.starts[Security], blank)
           before == Observed(Security, ingest.endpoint)
           same == before # {} /\ observation[Max(before)].payload = payload
       IN  ingest' = [ingest EXCEPT
               !.at = IF same THEN "write" ELSE "put",
               !.payload = payload,
               !.isNew = ~same,
               !.path = IF same THEN observation[Max(before)].path
                        ELSE BlobPath(ingest.endpoint, day, Security)]
    /\ UNCHANGED <<day, yahoo, bars, facts, observation, blob, ingestRows, lastSeen,
                   lapsed, blanks>>

PutBlob ==
    /\ ingest.at = "put"
    /\ blob' = [p \in DOMAIN blob \cup {ingest.path} |->
                   IF p = ingest.path THEN ingest.payload ELSE blob[p]]
    /\ ingest' = [ingest EXCEPT !.at = "write"]
    /\ UNCHANGED <<day, yahoo, bars, facts, observation, ingestRows, ingestTrouble,
                   lastSeen, lapsed, blanks>>

\* The blank days of a payload, and those before it that it does not answer for.
Unsaid(unsaid, payload) ==
    (unsaid \ DOMAIN payload[2]) \cup {d \in DOMAIN payload[2] : payload[2][d] = Blank}

\* The observation and what the payload says, in one transaction.  A payload that
\* parses to nothing is a security that is 'ok'.
WriteSecurity ==
    /\ ingest.at = "write"
    /\ LET s == Security
           chart == ingest.endpoint = "chart" /\ ingest.payload[1] = "bars"
       IN  /\ observation' = Append(observation,
                  [of |-> s, endpoint |-> ingest.endpoint, payload |-> ingest.payload,
                   path |-> ingest.path, isNew |-> ingest.isNew])
           /\ bars' = [bars EXCEPT ![s] = WithBars(@, ParsedBars(ingest.payload), Cutoff(day))]
           /\ facts' = [facts EXCEPT ![s] = WithFacts(@, ingest.payload)]
           /\ lastSeen' = IF chart THEN [lastSeen EXCEPT ![s] = day] ELSE lastSeen
           /\ lapsed' = IF /\ chart /\ bars[s] # NoBars
                           /\ day - lastSeen[s] > SettlingDays - RevisedFor
                        THEN lapsed \cup {s} ELSE lapsed
           /\ blanks' = IF chart
                        THEN [blanks EXCEPT ![s] = Unsaid(@, ingest.payload)] ELSE blanks
    /\ ingest' = [ingest EXCEPT !.at = "fetch", !.todo = Tail(@), !.ok = @ + 1]
    /\ UNCHANGED <<day, yahoo, blob, ingestRows, ingestTrouble>>

CloseRun ==
    /\ ingest.at = "fetch"
    /\ ingest.todo = <<>>
    /\ ingestRows' = [ingestRows EXCEPT ![Len(ingestRows)].status =
                         IF ingest.ok = 0 /\ Securities # <<>> THEN "failed"
                         ELSE IF ingest.failed = 0 THEN "ok" ELSE "partial"]
    /\ ingest' = NoIngest
    /\ UNCHANGED <<day, yahoo, bars, facts, observation, blob, ingestTrouble, lastSeen,
                   lapsed, blanks>>

\* The store cannot be written to, which ends the run where it is, or the
\* container goes: the run's row stays 'running'.
RunEnds ==
    /\ ingest # NoIngest
    /\ IngestFails
    /\ ingest' = NoIngest
    /\ UNCHANGED <<day, yahoo, bars, facts, observation, blob, ingestRows, lastSeen,
                   lapsed, blanks>>

-----------------------------------------------------------------------------
(* External: days, and a provider that revises its latest sessions and, at *)
(* a split, says every session on another scale.                           *)

NextDay ==
    /\ ingest = NoIngest
    /\ day < LastDay
    /\ day' = day + 1
    /\ UNCHANGED <<yahoo, bars, facts, observation, blob, ingest, ingestRows,
                   ingestTrouble, lastSeen, lapsed, blanks>>

Revises ==
    /\ yahoo.revisions < MaxRevisions
    /\ \/ \E d \in 0 .. day :
             /\ day - d < RevisedFor
             /\ yahoo' = [yahoo EXCEPT !.bar[d] = @ + 1, !.revisions = @ + 1]
       \/ yahoo' = [yahoo EXCEPT !.splits = @ + 1, !.revisions = @ + 1]
       \/ yahoo' = [yahoo EXCEPT !.fact = @ + 1, !.revisions = @ + 1]
    /\ UNCHANGED <<day, bars, facts, observation, blob, ingest, ingestRows,
                   ingestTrouble, lastSeen, lapsed, blanks>>

IngestNext ==
    \/ NextDay \/ Revises
    \/ \E endpoint \in Endpoints : OpenRun(endpoint)
    \/ Answers(TRUE, {}) \/ Answers(FALSE, {})
    \/ \E d \in 0 .. day : Answers(FALSE, {d})
    \/ PutBlob \/ WriteSecurity \/ Fails \/ CloseRun \/ RunEnds

IngestSpec == IngestInit /\ [][IngestNext]_ingestVars

-----------------------------------------------------------------------------
(* What must hold.                                                         *)

\* Whatever fails or dies, the bars of a security have no hole but at a day that was
\* blank when last it was asked for: the next run that reads it starts where it stopped.
\* (windows, run_prices, parse)
HeldIsWhole ==
    \A s \in Secs :
        bars[s] # NoBars => (0 .. Max(DOMAIN bars[s])) \ blanks[s] \subseteq DOMAIN bars[s]

\* A bar that can be rewritten no more is the one the provider ended with, on the scale
\* of the day it was fetched, for a security that was read often enough; one that was
\* not read while a bar was settling, or was answered a blank for it, keeps the bar as it
\* was.  (windows, insert_settled_bars)
SettledIsFinal ==
    \A s \in Secs \ lapsed :
        \A d \in DOMAIN bars[s] \ blanks[s] :
            d < Cutoff(lastSeen[s]) => bars[s][d][1] = yahoo.bar[d]

\* The sweep answers what it is run for, "whether Yahoo corrects bars it has already
\* settled": while the provider does not, it finds in what was read today the bars that
\* were fetched before a split, and no others.  (run_sweep)
SweepFindsSplits ==
    \A s \in Secs \ lapsed :
        lastSeen[s] = day =>
            Mismatches(s) \ blanks[s] =
                {d \in DOMAIN bars[s] \ blanks[s] : d < Cutoff(day) /\ bars[s][d][2] < yahoo.splits}

\* The bars of a security are what its provider said of it.
BarsAreTrue == HeldIsWhole /\ SettledIsFinal /\ SweepFindsSplits

\* "Every score traces back to the stored response": what an observation names
\* is what was answered.
ObservationsAreKept ==
    \A k \in DOMAIN observation : blob[observation[k].path] = observation[k].payload
=============================================================================
