-------------------------------- MODULE Edgar --------------------------------
(***************************************************************************)
(* Insider filings by day (edgar/ingest.py, edgar/source.py,               *)
(* edgar/store.py).  A pass reads which days have an index, takes the      *)
(* newest that are not done, and walks each: its index, the filings a      *)
(* company of the universe is a party to, their transactions, in batches.  *)
(* What is done is read from ingest_run: a day with an 'ok' row, or with   *)
(* so many rows that it is given up.                                       *)
(*                                                                         *)
(* A filing is a record of its day, form, parties, issuer and, by table,   *)
(* which of its transactions have a date and a code.                       *)
(***************************************************************************)
EXTENDS Integers, Sequences, FiniteSets, FiniteSetsExt, SequencesExt

CONSTANTS
    EdgarFilings,   \* what is filed, and on which day
    Companies,
    EdgarWindow,    \* EDGAR_BACKFILL_DAYS
    DaysPerPass,    \* EDGAR_DAYS_PER_PASS
    EdgarBatch,     \* BATCH
    EdgarAttempts,  \* MAX_ATTEMPTS
    EdgarHorizon,   \* bound: the last day
    EdgarTrouble    \* bound: requests refused, statements failed, passes killed

ASSUME EdgarAssumption ==
    /\ {EdgarBatch, EdgarAttempts} \subseteq Nat \ {0}
    /\ {EdgarWindow, DaysPerPass, EdgarHorizon, EdgarTrouble} \subseteq Nat
    /\ \A f \in EdgarFilings :
          /\ f.day \in Nat /\ f.issuer \in f.parties
          /\ \A table \in DOMAIN f.rows : f.rows[table] \in Seq(BOOLEAN)
          /\ DOMAIN f.rows = {"non_derivative", "derivative"}

VARIABLES
    today,
    published,  \* days that have an index
    universe,   \* companies with a security and a CIK
    edgarRuns,  \* ingest_run by day: a status for each time it was walked
    insider,    \* insider_transaction, by its key
    edgar,      \* the pass, or EdgarIdle
    edgarSaid,  \* the outcome of the last pass
    okFor,      \* ghost: by day that was 'ok', what that pass was to have stored
    edgarTrouble

edgarVars == <<today, published, universe, edgarRuns, insider, edgar, edgarSaid,
               okFor, edgarTrouble>>

Days == 0 .. EdgarHorizon
Tables == {"non_derivative", "derivative"}
EdgarIdle == [at |-> "idle"]

EdgarInit ==
    /\ today = 0
    /\ published = {}
    /\ universe = {}
    /\ edgarRuns = [d \in Days |-> <<>>]
    /\ insider = {}
    /\ edgar = EdgarIdle
    /\ edgarSaid = "none"
    /\ okFor = [d \in Days |-> {}]
    /\ edgarTrouble = 0

-----------------------------------------------------------------------------
(* Filings.                                                                *)

\* Numbered from 1 in each table, over what has a date and a code.
FromTable(f, table) ==
    [k \in 1 .. Cardinality({row \in DOMAIN f.rows[table] : f.rows[table][row]}) |->
        [filing |-> f, table |-> table, seq |-> k]]

\* The transactions of a submission.
ParseFiling(f) == FromTable(f, "non_derivative") \o FromTable(f, "derivative")

\* The index names the parties, and not which of them is the issuer.
IndexedFilings(day, ciks) ==
    {f \in EdgarFilings : f.day = day /\ f.form = "4" /\ f.parties \cap ciks # {}}

\* What is stored of a batch: what is about a company of the universe.
Attributed(batch, ciks) == {tx \in batch : tx.filing.issuer \in ciks}

-----------------------------------------------------------------------------
(* A pass.                                                                 *)

\* Done, or tried often enough: a row a killed pass left counts as a try.
Walked == {d \in Days : \/ "ok" \in Range(edgarRuns[d])
                        \/ Len(edgarRuns[d]) >= EdgarAttempts}

\* The newest of the days that are to be walked.
TodoDays ==
    LET due == {d \in published : today - EdgarWindow <= d /\ d \notin Walked}
    IN  SubSeq(SortSeq(SetToSeq(due), LAMBDA c, d : c > d), 1,
               Min({Cardinality(due), Max({1, DaysPerPass})}))

\* once: with no universe there is nothing to ask for.
BeginPass ==
    /\ edgar = EdgarIdle
    /\ universe # {}
    /\ edgar' = [at |-> "day", todo |-> TodoDays, ciks |-> universe, left |-> {},
                 rows |-> <<>>, batch |-> {}, new |-> FALSE, unread |-> {},
                 refused |-> FALSE, failed |-> FALSE, anyNew |-> FALSE]
    /\ UNCHANGED <<today, published, universe, edgarRuns, insider, edgarSaid, okFor,
                   edgarTrouble>>

EdgarFails ==
    /\ edgarTrouble < EdgarTrouble
    /\ edgarTrouble' = edgarTrouble + 1

\* The quarter's listing cannot be had: there is no pass.
Unlisted(throttled) ==
    /\ edgar = EdgarIdle
    /\ universe # {}
    /\ EdgarFails
    /\ edgarSaid' = IF throttled THEN "refused" ELSE "error"
    /\ UNCHANGED <<today, published, universe, edgarRuns, insider, edgar, okFor>>

Day == Head(edgar.todo)

\* The day's row is written before anything of it is asked for.
StartDay ==
    /\ edgar.at = "day"
    /\ edgar.todo # <<>>
    /\ edgarRuns' = [edgarRuns EXCEPT ![Day] = Append(@, "running")]
    /\ edgar' = [edgar EXCEPT !.at = "index", !.new = FALSE, !.unread = {}]
    /\ UNCHANGED <<today, published, universe, insider, edgarSaid, okFor, edgarTrouble>>

ReadIndex ==
    /\ edgar.at = "index"
    /\ edgar' = [edgar EXCEPT !.at = "filing", !.left = IndexedFilings(Day, edgar.ciks)]
    /\ UNCHANGED <<today, published, universe, edgarRuns, insider, edgarSaid, okFor,
                   edgarTrouble>>

\* A request is refused: SEC refuses the address, and the day is over.  So it is
\* when the index cannot be had for another reason.
EdgarRefused(throttled) ==
    /\ \/ edgar.at = "index"
       \/ edgar.at = "filing" /\ edgar.rows = <<>> /\ edgar.left # {} /\ throttled
    /\ EdgarFails
    /\ edgar' = [edgar EXCEPT !.at = "except", !.refused = throttled]
    /\ UNCHANGED <<today, published, universe, edgarRuns, insider, edgarSaid, okFor>>

\* The next filing, or one that cannot be read and is passed over.
FilingRead ==
    /\ edgar.at = "filing"
    /\ edgar.rows = <<>>
    /\ \E f \in edgar.left :
          \/ /\ edgar' = [edgar EXCEPT !.left = @ \ {f}, !.rows = ParseFiling(f)]
             /\ UNCHANGED edgarTrouble
          \/ /\ EdgarFails
             /\ edgar' = [edgar EXCEPT !.left = @ \ {f}, !.unread = @ \cup {f}]
    /\ UNCHANGED <<today, published, universe, edgarRuns, insider, edgarSaid, okFor>>

\* save: an upsert of what is attributed.
Keeps(w) ==
    LET rows == Attributed(w.batch, w.ciks)
    IN  /\ insider' = insider \cup rows
        /\ edgar' = [w EXCEPT !.batch = {}, !.new = @ \/ ~(rows \subseteq insider)]
        /\ UNCHANGED edgarTrouble

KeepFails(w) ==
    /\ EdgarFails
    /\ edgar' = [w EXCEPT !.at = "except"]
    /\ UNCHANGED insider

\* A transaction joins the batch, which is saved when it is full.
TransactionRead ==
    /\ edgar.at = "filing"
    /\ edgar.rows # <<>>
    /\ LET w == [edgar EXCEPT !.rows = Tail(@), !.batch = @ \cup {Head(edgar.rows)}]
       IN  IF Cardinality(w.batch) < EdgarBatch
           THEN edgar' = w /\ UNCHANGED <<insider, edgarTrouble>>
           ELSE Keeps(w) \/ KeepFails(w)
    /\ UNCHANGED <<today, published, universe, edgarRuns, edgarSaid, okFor>>

\* Mutant: what did not fill a batch is not saved.
LastBatchDropped ==
    /\ edgar.at = "filing"
    /\ edgar.rows = <<>>
    /\ edgar.left = {}
    /\ edgar' = [edgar EXCEPT !.at = "ok", !.batch = {}]
    /\ UNCHANGED <<today, published, universe, edgarRuns, insider, edgarSaid, okFor,
                   edgarTrouble>>

\* The filings are read: what is left of the batch.
LastBatch ==
    /\ edgar.at = "filing"
    /\ edgar.rows = <<>>
    /\ edgar.left = {}
    /\ Keeps([edgar EXCEPT !.at = "ok"]) \/ (edgar.batch # {} /\ KeepFails(edgar))
    /\ UNCHANGED <<today, published, universe, edgarRuns, edgarSaid, okFor>>

\* The latest row of the day gets its status, and the pass goes on with the rest.
FinishDay(status, w) ==
    /\ edgarRuns' = [edgarRuns EXCEPT ![Day][Len(edgarRuns[Day])] = status]
    /\ edgar' = [w EXCEPT !.at = "day", !.rows = <<>>, !.left = {}, !.batch = {},
                          !.todo = IF w.refused THEN <<>> ELSE Tail(@),
                          !.failed = @ \/ status # "ok", !.anyNew = @ \/ w.new]

DayOk ==
    /\ edgar.at = "ok"
    /\ FinishDay("ok", edgar)
    /\ okFor' = [okFor EXCEPT ![Day] =
                    {f \in EdgarFilings : /\ f.day = Day /\ f.form = "4"
                                          /\ f.issuer \in edgar.ciks} \ edgar.unread]
    /\ UNCHANGED <<today, published, universe, insider, edgarSaid, edgarTrouble>>

\* The day failed: what it has is saved if it can be.
DayFails ==
    /\ edgar.at = "except"
    /\ \/ LET rows == Attributed(edgar.batch, edgar.ciks)
              new == edgar.new \/ ~(rows \subseteq insider)
          IN  /\ insider' = insider \cup rows
              /\ FinishDay(IF new THEN "partial" ELSE "failed", [edgar EXCEPT !.new = new])
              /\ UNCHANGED edgarTrouble
       \/ /\ edgar.batch # {}
          /\ EdgarFails
          /\ FinishDay(IF edgar.new THEN "partial" ELSE "failed", edgar)
          /\ UNCHANGED insider
    /\ UNCHANGED <<today, published, universe, edgarSaid, okFor>>

\* A row for the pass, whose outcome follows its days.
EndPass ==
    /\ edgar.at = "day"
    /\ edgar.todo = <<>>
    /\ edgarSaid' = IF edgar.refused /\ ~edgar.anyNew THEN "refused"
                    ELSE IF edgar.failed THEN "partial" ELSE "ok"
    /\ edgar' = EdgarIdle
    /\ UNCHANGED <<today, published, universe, edgarRuns, insider, okFor, edgarTrouble>>

\* The container goes, or a day's row cannot be written: the row stays 'running'.
PassKilled ==
    /\ edgar # EdgarIdle
    /\ EdgarFails
    /\ edgar' = EdgarIdle
    /\ UNCHANGED <<today, published, universe, edgarRuns, insider, edgarSaid, okFor>>

\* External: a day goes by between passes, and has an index or has none.
DayGoesBy ==
    /\ edgar = EdgarIdle
    /\ today < EdgarHorizon
    /\ today' = today + 1
    /\ published' \in {published, published \cup {today}}
    /\ UNCHANGED <<universe, edgarRuns, insider, edgar, edgarSaid, okFor, edgarTrouble>>

\* External: the universe is loaded, or gains a company.
UniverseGains(c) ==
    /\ c \notin universe
    /\ universe' = universe \cup {c}
    /\ UNCHANGED <<today, published, edgarRuns, insider, edgar, edgarSaid, okFor,
                   edgarTrouble>>

EdgarNext ==
    \/ DayGoesBy
    \/ \E c \in Companies : UniverseGains(c)
    \/ BeginPass \/ StartDay \/ ReadIndex \/ FilingRead \/ TransactionRead
    \/ LastBatch \/ DayOk \/ DayFails \/ EndPass \/ PassKilled
    \/ \E throttled \in BOOLEAN : Unlisted(throttled) \/ EdgarRefused(throttled)

EdgarSpec == EdgarInit /\ [][EdgarNext]_edgarVars

-----------------------------------------------------------------------------
(* What must hold.                                                         *)

\* A day whose row says 'ok' is not asked for again: every filing of that day
\* about a company that was in the universe when it was walked, but those that
\* could not be read, has all its transactions.  (_walk, walked)
OkDaysAreWhole ==
    \A d \in Days : "ok" \in Range(edgarRuns[d]) =>
        /\ \A f \in okFor[d] : Range(ParseFiling(f)) \subseteq insider
        /\ \A tx \in insider : tx.filing.day = d => tx.filing.issuer \in universe
=============================================================================
