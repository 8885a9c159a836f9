------------------------------ MODULE Universe ------------------------------
(***************************************************************************)
(* The universe (universe/refresh.py, rows.py, reconcile.py, load.py).  A  *)
(* refresh writes a file of who is listed; a load reconciles it into the   *)
(* securities, the symbols they had and the industries they were in, in    *)
(* one transaction: all of it, or none.                                    *)
(*                                                                         *)
(* What is listed is a class of shares: an issuer, whom its CIK names, may *)
(* have two.  The shares a security was created for, and all whose rows    *)
(* were taken to be of it, are ghosts.                                     *)
(***************************************************************************)
EXTENDS Integers, Sequences, FiniteSets, FiniteSetsExt, SequencesExt, Functions

CONSTANTS
    Shares, Tickers, Industries,
    IssuerOf,       \* external: whose shares they are
    Rosters,        \* external: what may be listed, and classified, at a refresh
    Ceiling,        \* DEPARTURE_CEILING, in hundredths
    LastLoad,       \* bound: days
    MaxLoads        \* bound: loads

NoCik == "no cik"

ASSUME UniverseAssumption ==
    /\ {Ceiling, LastLoad, MaxLoads} \subseteq Nat
    /\ IssuerOf \in [Shares -> Range(IssuerOf)] /\ NoCik \notin Range(IssuerOf)
    /\ \A listed \in Rosters :
          /\ DOMAIN listed \subseteq Shares /\ IsFiniteSet(DOMAIN listed)
          /\ \A c \in DOMAIN listed :
                /\ listed[c] \in [ticker : Tickers, industry : Industries, filed : BOOLEAN]
                /\ \A o \in DOMAIN listed \ {c} : listed[o].ticker # listed[c].ticker

VARIABLES
    calendar,
    had,            \* ghost: the tickers each was loaded with
    csv,            \* universe.csv
    security,       \* in the order of their ids
    symbolRow,      \* security_symbol, with valid_to 0 while it is open
    sectorRow,      \* security_sector
    loads

universeVars == <<calendar, had, csv, security, symbolRow, sectorRow, loads>>
stored == <<security, symbolRow, sectorRow>>

UniverseInit ==
    /\ calendar = 1
    /\ had = [c \in Shares |-> {}]
    /\ csv = {}
    /\ security = <<>>
    /\ symbolRow = {}
    /\ sectorRow = {}
    /\ loads = 0

-----------------------------------------------------------------------------
(* refresh: what is listed and Yahoo classified, and by SEC's list its     *)
(* issuer's CIK, if that has it.  Between two anything may be listed anew, *)
(* renamed or reclassified, or leave, and its ticker be given to another.  *)

Refresh(listed) ==
    /\ csv' = {[of |-> c, symbol |-> listed[c].ticker, industry |-> listed[c].industry,
                cik |-> IF listed[c].filed THEN IssuerOf[c] ELSE NoCik] : c \in DOMAIN listed}
    /\ UNCHANGED <<calendar, had, stored, loads>>

AnotherDay ==
    /\ calendar < LastLoad
    /\ calendar' = calendar + 1
    /\ UNCHANGED <<had, csv, stored, loads>>

-----------------------------------------------------------------------------
(* plan: by CIK, then by symbol, then as new.                              *)

Ids == DOMAIN security
Open(rows, s) == {r \in rows : r.of = s /\ r.to = 0}

\* by_cik: of the securities with one CIK, any that the query returns last.
CiksHeld == {security[s].cik : s \in Ids} \ {NoCik}
Lasts == {last \in [CiksHeld -> Ids] : \A cik \in CiksHeld : security[last[cik]].cik = cik}

\* by_symbol: whether or not it is active.  No two have one symbol.
BySymbol(row) == {s \in Ids : security[s].symbol = row.symbol}

\* Mutant: a symbol is who a company is.
MatchSymbol(row, last) == BySymbol(row)

Match(row, last) == IF row.cik \in DOMAIN last THEN {last[row.cik]} ELSE BySymbol(row)

Found(rows, last) == UNION {Match(r, last) : r \in rows}
RowOf(rows, last, s) == CHOOSE r \in rows : Match(r, last) = {s}
Ambiguous(rows, last) ==
    \E r, o \in rows : r # o /\ Match(r, last) # {} /\ Match(r, last) = Match(o, last)

Departed(rows, last) == {s \in Ids : security[s].active} \ Found(rows, last)
Renamed(rows, last) ==
    {s \in Found(rows, last) : security[s].symbol # RowOf(rows, last, s).symbol}
Reclassified(rows, last) ==
    {s \in Found(rows, last) :
        {r.is : r \in Open(sectorRow, s)} # {RowOf(rows, last, s).industry}}

OverCeiling(rows, last) ==
    100 * Cardinality(Departed(rows, last)) > Ceiling * Cardinality({s \in Ids : security[s].active})

-----------------------------------------------------------------------------
(* apply.                                                                  *)

\* Mutant: a row is closed the day before the next is opened.
CloseTheDayBefore(rows, changed, asOf) ==
    {IF r.of \in changed /\ r.to = 0 THEN [r EXCEPT !.to = Max({asOf - 1, r.from})] ELSE r :
        r \in rows}

\* The rows of the securities that change are closed, and theirs now are opened.
Close(rows, changed, asOf) ==
    {IF r.of \in changed /\ r.to = 0 THEN [r EXCEPT !.to = asOf] ELSE r : r \in rows}

\* The constraints: a period does not end before it begins, and an open symbol is of
\* one security, at each statement and not only at the end.
Backdated(changed, rows, asOf) ==
    \E r \in rows : r.of \in changed /\ r.to = 0 /\ asOf < r.from

TakenSymbol(rows, last) ==
    \/ \E r \in rows : Match(r, last) = {} /\ \E q \in symbolRow : q.to = 0 /\ q.is = r.symbol
    \/ \E s \in Renamed(rows, last) :
          LET symbol == RowOf(rows, last, s).symbol
          IN  \/ \E q \in symbolRow : q.of # s /\ q.to = 0 /\ q.is = symbol
              \/ \E r \in rows : Match(r, last) = {} /\ r.symbol = symbol

\* A load goes through, or is refused and changes nothing: two rows of one
\* security, too many that would be retired, or a statement that fails.  Those that
\* are new come in the order of the file, which says nothing of them.
Load(asOf, force, last, fresh) ==
    LET rows == csv
        renamed == Renamed(rows, last)
        reclassified == Reclassified(rows, last)
        rowOf(s) == RowOf(rows, last, s)
        id(k) == Len(security) + k
        opened(s, is) == [of |-> s, is |-> is, from |-> asOf, to |-> 0]
        refused == \/ Ambiguous(rows, last) \/ (~force /\ OverCeiling(rows, last))
                   \/ Backdated(renamed, symbolRow, asOf)
                   \/ Backdated(reclassified, sectorRow, asOf)
                   \/ TakenSymbol(rows, last)
    IN  /\ loads < MaxLoads
        /\ asOf <= calendar
        /\ loads' = loads + 1
        /\ IF refused THEN UNCHANGED <<had, stored>>
           ELSE /\ security' =
                      [s \in Ids |->
                          LET e == security[s]
                          IN  IF s \in Found(rows, last)
                              THEN [e EXCEPT !.active = TRUE, !.symbol = rowOf(s).symbol,
                                             !.taken = @ \cup {rowOf(s).of}]
                              ELSE [e EXCEPT !.active = FALSE]]
                      \o [k \in DOMAIN fresh |->
                             [shares |-> fresh[k].of, taken |-> {fresh[k].of},
                              cik |-> fresh[k].cik, active |-> TRUE,
                              symbol |-> fresh[k].symbol, since |-> asOf]]
                /\ symbolRow' = Close(symbolRow, renamed, asOf)
                      \cup {opened(s, rowOf(s).symbol) : s \in renamed}
                      \cup {opened(id(k), fresh[k].symbol) : k \in DOMAIN fresh}
                /\ sectorRow' = Close(sectorRow, reclassified, asOf)
                      \cup {opened(s, rowOf(s).industry) : s \in reclassified}
                      \cup {opened(id(k), fresh[k].industry) : k \in DOMAIN fresh}
                /\ had' = [c \in Shares |-> had[c] \cup {r.symbol : r \in {q \in rows : q.of = c}}]
        /\ UNCHANGED <<calendar, csv>>

UniverseNext ==
    \/ AnotherDay
    \/ \E listed \in Rosters : Refresh(listed)
    \/ \E asOf \in 1 .. LastLoad, force \in BOOLEAN, last \in Lasts :
          \E fresh \in SetToSeqs({r \in csv : Match(r, last) = {}}) :
             Load(asOf, force, last, fresh)

UniverseSpec == UniverseInit /\ [][UniverseNext]_universeVars

-----------------------------------------------------------------------------
(* What must hold.                                                         *)

\* Shares have one security, which is found again when they come back under another
\* name: "matching on it turns a rename into a departure plus an arrival and orphans
\* the company's history".  Only a row that came without a CIK made a second.  (plan)
OneSecurityEach ==
    \A s, o \in Ids :
        (s # o /\ security[s].shares = security[o].shares)
            => NoCik \in {security[s].cik, security[o].cik}

\* A security is of one company: none but its issuer's shares were ever taken for it,
\* unless they had a ticker that the issuer's had been listed under.  (plan, by_symbol)
OneCompanyEach ==
    \A s \in Ids : \A c \in security[s].taken :
        \/ IssuerOf[c] = IssuerOf[security[s].shares]
        \/ \E o \in Shares :
              IssuerOf[o] = IssuerOf[security[s].shares] /\ had[c] \cap had[o] # {}

\* On any day since it was first seen a security had one symbol and one industry:
\* the periods of its rows are without a gap and do not meet.  (apply)
PeriodsTileTime ==
    \A s \in Ids, d \in 1 .. LastLoad, rows \in {symbolRow, sectorRow} :
        security[s].since <= d =>
            Cardinality({r \in rows : r.of = s /\ r.from <= d /\ (r.to = 0 \/ d < r.to)}) = 1

\* The history of a security is of one company, and has one answer for a day.
HistoryIsOfOne == OneSecurityEach /\ OneCompanyEach /\ PeriodsTileTime

\* "Idempotence - the same CSV twice": a file that was loaded is not refused.
SameFileLoads ==
    (csv # {} /\ \A r \in csv : \E s \in Ids :
        security[s].shares = r.of /\ security[s].cik = r.cik /\ security[s].symbol = r.symbol)
            => \A last \in Lasts : ~Ambiguous(csv, last)
=============================================================================
