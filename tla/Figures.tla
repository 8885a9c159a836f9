------------------------------- MODULE Figures -------------------------------
(***************************************************************************)
(* The arithmetic of a night (scoring/adjust.py, metrics.py, basis.py,     *)
(* ratios.py, ranking.py, percentile.py, pillars.py, blend.py and what     *)
(* run.py's score makes of them).  All of it is functions: a sum is posed  *)
(* and worked.                                                             *)
(*                                                                         *)
(* A day is a number and a month a number of days; decimals are fractions, *)
(* which are exact.  The currency that explains an absence is left out.    *)
(***************************************************************************)
EXTENDS Integers, Sequences, FiniteSets, FiniteSetsExt, SequencesExt, Functions

CONSTANTS
    Month, Year,        \* days of a month, and of 52 weeks
    TtmMaxAge, QuarterMin, QuarterMax, AnnualMaxAge, SplitWindow, CloseMaxAge,
    MinPeers,           \* MIN_PEERS
    Agreement,          \* AGREEMENT_THRESHOLD
    SeriesSums, PeriodSums, RankSums, BlendSums     \* what is asked

ASSUME FiguresAssumption ==
    /\ {Month, Year, TtmMaxAge, QuarterMin, QuarterMax, AnnualMaxAge, SplitWindow, CloseMaxAge,
        MinPeers, Agreement} \subseteq Nat
    /\ \A s \in SeriesSums :
          /\ s.of = "series" /\ s.today \in Nat
          /\ Len(s.bars) \in Nat /\ {DOMAIN s.bars, DOMAIN s.traded} = {1 .. Len(s.bars)}
          /\ \A k \in DOMAIN s.bars :
                /\ {s.bars[k].day, s.bars[k].fetched} \subseteq Nat
                /\ {s.bars[k].close, s.traded[k]} \subseteq Nat
                /\ \A j \in DOMAIN s.bars : j < k => s.bars[j].day < s.bars[k].day
          /\ IsFiniteSet(s.actions)
          /\ \A a \in s.actions : a.day \in Nat /\ a.day <= s.today /\ a.amount \in Nat \ {0}
    /\ \A s \in PeriodSums :
          /\ s.of = "periods" /\ s.today \in Nat /\ IsFiniteSet(s.held)
          /\ \A i \in s.held : i.end \in Nat /\ i.value \in Int
          /\ \A i, j \in s.held : <<i.code, i.type, i.end>> = <<j.code, j.type, j.end>> => i = j
    /\ \A s \in RankSums :
          /\ s.of = "rank" /\ s.higher \in BOOLEAN
          /\ IsFiniteSet(DOMAIN s.values) /\ \A o \in DOMAIN s.values : s.values[o] \in Int
    /\ \A s \in BlendSums :
          /\ s.of = "blend"
          /\ IsFiniteSet(DOMAIN s.percentiles)
          /\ \A m \in DOMAIN s.percentiles : s.percentiles[m] \in Int \X (Nat \ {0})
          /\ IsFiniteSet(DOMAIN s.weights) /\ DOMAIN s.weights \subseteq DOMAIN s.applies
          /\ \A p \in DOMAIN s.weights : s.weights[p] \in Nat
          /\ \A p \in DOMAIN s.applies : IsFiniteSet(s.applies[p]) /\ s.applies[p] # {}

VARIABLES sum, worked

figuresVars == <<sum, worked>>

NotWorked == [answer |-> "none"]

-----------------------------------------------------------------------------
(* Fractions, as pairs.                                                    *)

Whole(n) == <<n, 1>>
Times(a, b) == <<a[1] * b[1], a[2] * b[2]>>
Plus(a, b) == <<a[1] * b[2] + b[1] * a[2], a[2] * b[2]>>
Over(a, n) == <<a[1], a[2] * n>>
Same(a, b) == a[1] * b[2] = b[1] * a[2]
AtMost(a, b) == a[1] * b[2] <= b[1] * a[2]
Product(f, S) == FoldFunctionOnSet(Times, Whole(1), f, S)
Total(f) == FoldFunction(Plus, Whole(0), f)

-----------------------------------------------------------------------------
(* adjust.py: bars [day, close, fetched], and actions [day, type, amount].  *)

\* The factor an action puts on every bar before it; a dividend is measured
\* against the last close that still had it, and one at or above that is dropped.
Prior(bars, action) ==
    LET before == {k \in DOMAIN bars : bars[k].day < action.day}
    IN  IF before = {} THEN 0 ELSE bars[Max(before)].close

Dividend(bars, action) ==
    /\ action.type = "dividend"
    /\ 0 < action.amount /\ action.amount < Prior(bars, action)

DividendFactor(bars, action) ==
    <<Prior(bars, action) - action.amount, Prior(bars, action)>>

\* Mutant: a split is applied to every bar before it.
SplitAhead(bar, action) == action.type = "split" /\ action.day > bar.day

\* A split is only for the bars that were fetched before it.
SplitStillDue(bar, action) ==
    action.type = "split" /\ action.day > bar.day /\ bar.fetched < action.day

\* The dividends that are passed on the way back to a bar.
Passed(bars, actions, k) ==
    {a \in actions : /\ Dividend(bars, a) /\ bars[k].day < a.day
                     /\ k = Len(bars) \/ a.day <= bars[k + 1].day}

\* The running product of the dividends still ahead.
Ahead(bars, actions) ==
    LET factor == [a \in actions |-> DividendFactor(bars, a)]
        ahead[k \in 1 .. Len(bars) + 1] ==
            IF k > Len(bars) THEN Whole(1)
            ELSE Times(ahead[k + 1], Product(factor, Passed(bars, actions, k)))
    IN  ahead

\* What a share is split into, as a factor on what it cost.
SplitFactors(actions) == [a \in actions |-> <<1, a.amount>>]

AdjustedCloses(bars, actions) ==
    LET ahead == Ahead(bars, actions)
        due(bar) == Product(SplitFactors(actions), {a \in actions : SplitStillDue(bar, a)})
    IN  [k \in DOMAIN bars |->
            Times(Whole(bars[k].close), Times(ahead[k], due(bars[k])))]

-----------------------------------------------------------------------------
(* metrics.py, on a series of closes by day.                               *)

AtOrBefore(series, target) ==
    LET upTo == {d \in DOMAIN series : d <= target}
    IN  IF upTo = {} THEN Whole(0) ELSE series[Max(upTo)]

Highest(S) == CHOOSE c \in S : \A d \in S : AtMost(d, c)

\* A window the history does not reach gives no value.
Momentum(series, today) ==
    LET latest == AtOrBefore(series, today)
        back == [ret_3m |-> 3, ret_6m |-> 6, ret_12m |-> 12]
        window == {d \in DOMAIN series : today - Year <= d /\ d <= today}
        covered == window # {} /\ Min(DOMAIN series) <= today - Year
        against == [c \in DOMAIN back \cup {"off_52w_high"} |->
            IF c \in DOMAIN back THEN AtOrBefore(series, today - back[c] * Month)
            ELSE IF covered THEN Highest({series[d] : d \in window}) ELSE Whole(0)]
    IN  [c \in {c \in DOMAIN against : latest[1] > 0 /\ against[c][1] > 0} |->
            Plus(<<latest[1] * against[c][2], latest[2] * against[c][1]>>, Whole(-1))]

-----------------------------------------------------------------------------
(* basis.py: facts [code, end, type, value] onto one period.               *)

ByDate(held, code, type) ==
    LET ends == {i.end : i \in {i \in held : i.code = code /\ i.type = type}}
    IN  [e \in ends |->
            (CHOOSE i \in held : i.code = code /\ i.type = type /\ i.end = e).value]

\* The ends that every code has.
CommonDates(held, codes, type) ==
    {e \in {i.end : i \in held} : \A c \in codes : e \in DOMAIN ByDate(held, c, type)}

NoBasis == [kind |-> "none"]

\* The newest four of them up to one.
FourUpTo(ends, e) ==
    {d \in ends : d <= e /\ Cardinality({x \in ends : d < x /\ x <= e}) < 4}

\* Mutant: four ends are a year, whatever is between them.
Four(four) == Cardinality(four) = 4

Consecutive(four) ==
    /\ Cardinality(four) = 4
    /\ \A d, e \in four : d < e /\ ~(\E x \in four : d < x /\ x < e) =>
          QuarterMin <= e - d /\ e - d <= QuarterMax

\* Four consecutive quarters, the same for every code.
TtmBasis(held, codes, today) ==
    LET ends == CommonDates(held, codes, "Q")
        fits == {e \in ends : /\ e <= today /\ today - e <= TtmMaxAge
                              /\ Consecutive(FourUpTo(ends, e))}
    IN  IF fits = {} THEN NoBasis
        ELSE [kind |-> "TTM", end |-> Max(fits),
              value |-> [c \in codes |->
                  MapThenSumSet(LAMBDA d : ByDate(held, c, "Q")[d], FourUpTo(ends, Max(fits)))]]

AnnualBasis(held, codes, today) ==
    LET fits == {e \in CommonDates(held, codes, "A") : e <= today /\ today - e <= AnnualMaxAge}
    IN  IF fits = {} THEN NoBasis
        ELSE [kind |-> "A", end |-> Max(fits),
              value |-> [c \in codes |-> ByDate(held, c, "A")[Max(fits)]]]

FlowBasis(held, codes, today) ==
    LET ttm == TtmBasis(held, codes, today)
    IN  IF ttm # NoBasis THEN ttm ELSE AnnualBasis(held, codes, today)

\* A balance is of a day: the audited figure, if both are there.
BalanceOn(held, code, day) ==
    LET there == {i \in held : i.code = code /\ i.end = day}
        audited == {i \in there : i.type = "A"}
    IN  IF there = {} THEN {}
        ELSE {(CHOOSE i \in IF audited # {} THEN audited ELSE there : TRUE).value}

BalanceAt(held, codes, day) ==
    IF \E c \in codes : BalanceOn(held, c, day) = {} THEN NoBasis
    ELSE [kind |-> "date", end |-> day,
          value |-> [c \in codes |-> CHOOSE v \in BalanceOn(held, c, day) : TRUE]]

NewestBalance(held, codes, today) ==
    LET days == {d \in {i.end : i \in held} :
                    /\ d <= today /\ today - d <= AnnualMaxAge
                    /\ \A c \in codes : BalanceOn(held, c, d) # {}}
    IN  IF days = {} THEN NoBasis ELSE BalanceAt(held, codes, Max(days))

\* No split factor, and none at all for a week after a split, on an old close, or
\* without a count of shares.
MarketCap(held, quote, today) ==
    LET shares == NewestBalance(held, {"shares_outstanding"}, today)
    IN  IF \/ quote.close = 0 \/ today - quote.day > CloseMaxAge
           \/ \E s \in quote.splits : s <= today /\ today < s + SplitWindow
           \/ shares = NoBasis
        THEN 0
        ELSE Max({0, quote.close * shares.value["shares_outstanding"]})

-----------------------------------------------------------------------------
(* ratios.py.  A ratio is its value, its basis and its end, or Absent.     *)

Absent == [basis |-> "absent"]

RatioOf(over, under, b) ==
    IF under <= 0 THEN Absent
    ELSE [basis |-> b.kind, end |-> b.end, value |-> <<over, under>>]

\* The flows a ratio is of, which must be of one period.
Flows ==
    [earnings_yield |-> {"net_income"},
     ffo_yield      |-> {"net_income", "depreciation_amortisation"},
     ebitda_ev      |-> {"ebit", "depreciation_amortisation"},
     fcf_yield      |-> {"operating_cash_flow", "capital_expenditure"},
     roic           |-> {"ebit", "tax_provision", "pretax_income"},
     roe            |-> {"net_income"},
     gross_margin   |-> {"gross_profit", "revenue"},
     interest_cover |-> {"ebit", "interest_expense"}]

Balances ==
    [ebitda_ev      |-> {"total_debt", "cash_and_equivalents"},
     book_yield     |-> {"stockholders_equity"},
     debt_to_equity |-> {"total_debt", "stockholders_equity"},
     roic           |-> {"stockholders_equity", "total_debt", "cash_and_equivalents"},
     roe            |-> {"stockholders_equity"}]

OfTheMarket == {"earnings_yield", "ffo_yield", "ebitda_ev", "fcf_yield", "book_yield"}

Applicable(class) ==
    CASE class = "standard" ->
            [valuation |-> {"earnings_yield", "ebitda_ev", "fcf_yield"},
             quality |-> {"roic", "gross_margin", "debt_to_equity", "interest_cover"}]
      [] class = "balance_sheet" ->
            [valuation |-> {"earnings_yield", "book_yield"}, quality |-> {"roe"}]
      [] class = "reit" ->
            [valuation |-> {"ffo_yield", "ebitda_ev", "fcf_yield"},
             quality |-> {"roic", "debt_to_equity", "interest_cover"}]

IndustryClass(industry) ==
    CASE industry \in {"banks", "mortgage-finance", "insurance"} -> "balance_sheet"
      [] industry = "reit" -> "reit"
      [] OTHER -> "standard"

\* A tax rate between nought and a half, as <<over, under>>.
TaxRate(tax, pretax) ==
    IF pretax <= 0 \/ tax <= 0 THEN Whole(0)
    ELSE IF 2 * tax > pretax THEN <<1, 2>> ELSE <<tax, pretax>>

\* Mutant: the balances of a return are the newest.
ReturnOnNewest(held, code, flow, today) == NewestBalance(held, Balances[code], today)

\* The balances of a return are those of the end of what was earned; the others'
\* are the newest.
BalancesOf(held, code, flow, today) ==
    IF code \in {"roic", "roe"} THEN BalanceAt(held, Balances[code], flow.end)
    ELSE NewestBalance(held, Balances[code], today)

\* The formulas, and the values that rule one out, of a flow and a balance that are there.
Formula(code, cap, flow, balance) ==
    LET f(c) == flow.value[c]
        b(c) == balance.value[c]
    IN  CASE code \in {"ffo_yield", "ebitda_ev"} /\ f("depreciation_amortisation") < 0 -> Absent
          [] code = "fcf_yield" /\ f("capital_expenditure") > 0 -> Absent
          [] code = "book_yield" /\ b("stockholders_equity") <= 0 -> Absent
          [] code = "earnings_yield" -> RatioOf(f("net_income"), cap, flow)
          [] code = "ffo_yield" ->
                RatioOf(f("net_income") + f("depreciation_amortisation"), cap, flow)
          [] code = "ebitda_ev" ->
                RatioOf(f("ebit") + f("depreciation_amortisation"),
                        cap + b("total_debt") - b("cash_and_equivalents"), flow)
          [] code = "fcf_yield" ->
                RatioOf(f("operating_cash_flow") + f("capital_expenditure"), cap, flow)
          [] code = "book_yield" -> RatioOf(b("stockholders_equity"), cap, balance)
          [] code = "roic" ->
                LET rate == TaxRate(f("tax_provision"), f("pretax_income"))
                IN  RatioOf(f("ebit") * (rate[2] - rate[1]),
                            (b("stockholders_equity") + b("total_debt")
                                - b("cash_and_equivalents")) * rate[2], flow)
          [] code = "roe" -> RatioOf(f("net_income"), b("stockholders_equity"), flow)
          [] code = "gross_margin" -> RatioOf(f("gross_profit"), f("revenue"), flow)
          [] code = "debt_to_equity" ->
                RatioOf(b("total_debt"), b("stockholders_equity"), balance)
          [] code = "interest_cover" -> RatioOf(f("ebit"), f("interest_expense"), flow)

\* ... and the balance of a flow that is there, or that is not asked for.
RatioWith(held, code, cap, flow, today) ==
    LET balance == IF code \in DOMAIN Balances THEN BalancesOf(held, code, flow, today)
                   ELSE NoBasis
    IN  IF \/ code \in OfTheMarket /\ cap = 0
           \/ code \in DOMAIN Flows /\ flow = NoBasis
           \/ code \in DOMAIN Balances /\ balance = NoBasis
        THEN Absent
        ELSE Formula(code, cap, flow, balance)

RatioFor(held, code, cap, today) ==
    RatioWith(held, code, cap,
              IF code \in DOMAIN Flows THEN FlowBasis(held, Flows[code], today) ELSE NoBasis,
              today)

\* compute_ratios: those that apply and can be had.
Ratios(held, industry, quote, today) ==
    LET wanted == UNION Range(Applicable(IndustryClass(industry)))
        cap == MarketCap(held, quote, today)
    IN  [c \in {c \in wanted : RatioFor(held, c, cap, today) # Absent} |->
            RatioFor(held, c, cap, today)]

-----------------------------------------------------------------------------
(* percentile.py and ranking.py, on the values of one metric by security.  *)

\* A hundred times the share of the others that are below, ties halved.
Percentile(values, s, higher) ==
    LET below == Cardinality({o \in DOMAIN values : values[o] < values[s]})
        equal == Cardinality({o \in DOMAIN values : values[o] = values[s]})
        p == <<(2 * below + equal - 1) * 50, Cardinality(DOMAIN values) - 1>>
    IN  IF Cardinality(DOMAIN values) = 1 THEN Whole(50)
        ELSE IF higher THEN p ELSE Plus(Whole(100), <<-p[1], p[2]>>)

\* Eleven quantiles, between the values they fall between.
Deciles(values) ==
    LET n == Cardinality(DOMAIN values)
        ordered == SortSeq([k \in 1 .. n |-> values[SetToSeq(DOMAIN values)[k]]], <)
        low(step) == (step * (n - 1)) \div 10 + 1
        rest(step) == (step * (n - 1)) % 10
    IN  [k \in 1 .. 11 |->
            IF rest(k - 1) = 0 THEN Whole(ordered[low(k - 1)])
            ELSE Plus(Whole(ordered[low(k - 1)]),
                      <<(ordered[low(k - 1) + 1] - ordered[low(k - 1)]) * rest(k - 1), 10>>)]

Bucket(values, group, g) == Restrict(values, {s \in DOMAIN values : group[s] = g})

\* A group ranks its own when enough of them have the metric.
Ranks(values, group, g) ==
    g # "market" /\ Cardinality(DOMAIN Bucket(values, group, g)) >= MinPeers

\* Mutant: those who fall to the market are ranked among themselves.
FallenAlone(values, group) ==
    Restrict(values, {s \in DOMAIN values : ~Ranks(values, group, group[s])})

Everyone(values, group) == values

\* rank: each value in its group, or in the market among everyone.
Placed(values, group, higher) ==
    [s \in DOMAIN values |->
        LET own == Ranks(values, group, group[s])
            among == IF own THEN Bucket(values, group, group[s])
                     ELSE Everyone(values, group)
        IN  [group |-> IF own THEN group[s] ELSE "market", level |-> IF own THEN 1 ELSE 0,
             peers |-> Cardinality(DOMAIN among),
             percentile |-> Percentile(among, s, higher)]]

-----------------------------------------------------------------------------
(* pillars.py and blend.py: percentiles by metric, metrics by pillar.      *)

ScorePillar(percentiles, expected) ==
    [score |-> Over(Total(percentiles), Cardinality(DOMAIN percentiles)),
     coverage |-> <<Cardinality(DOMAIN percentiles), expected>>]

\* Mutant: coverage is the least of the pillars that are there.
CoverageOfPresent(pillars, weighted) == {pillars[p].coverage : p \in DOMAIN pillars \cap weighted}

\* An absent pillar covers nothing.
CoverageOfWeighted(pillars, weighted) ==
    {IF p \in DOMAIN pillars THEN pillars[p].coverage ELSE Whole(0) : p \in weighted}

NoSnapshot == [blended |-> "none"]

Blend(pillars, weights) ==
    LET weighted == {p \in DOMAIN weights : weights[p] > 0}
        there == DOMAIN pillars \cap weighted
        coverages == CoverageOfWeighted(pillars, weighted)
    IN  IF there = {} THEN NoSnapshot
        ELSE [blended |-> Over(Total([p \in there |->
                              Times(Whole(weights[p]), pillars[p].score)]),
                              MapThenSumSet(LAMBDA p : weights[p], there)),
              agreement |-> Cardinality({p \in there : AtMost(Whole(Agreement), pillars[p].score)}),
              coverage |-> CHOOSE c \in coverages : \A d \in coverages : AtMost(c, d)]

\* score's last part: what a security is placed at, by metric, into its snapshot.
SnapshotOf(percentiles, applies, weights) ==
    LET there == {p \in DOMAIN applies : DOMAIN percentiles \cap applies[p] # {}}
    IN  Blend([p \in there |-> ScorePillar(Restrict(percentiles, DOMAIN percentiles \cap applies[p]),
                                           Cardinality(applies[p]))], weights)

-----------------------------------------------------------------------------
(* A sum is posed, and worked.                                             *)

FiguresInit ==
    /\ sum \in SeriesSums \cup PeriodSums \cup RankSums \cup BlendSums
    /\ worked = NotWorked

Work(of, answer) ==
    /\ sum.of = of /\ worked = NotWorked
    /\ worked' = answer
    /\ UNCHANGED sum

WorkSeries ==
    /\ sum.of = "series"
    /\ LET closes == AdjustedCloses(sum.bars, sum.actions)
           series == [d \in {sum.bars[k].day : k \in DOMAIN closes} |->
                         closes[CHOOSE k \in DOMAIN closes : sum.bars[k].day = d]]
       IN  Work("series", [closes |-> closes, momentum |-> Momentum(series, sum.today)])

WorkPeriods ==
    Work("periods", Ratios(sum.held, sum.industry, sum.quote, sum.today))

WorkRank ==
    Work("rank", [placed |-> Placed(sum.values, sum.group, sum.higher),
                  deciles |-> Deciles(sum.values)])

WorkBlend == Work("blend", SnapshotOf(sum.percentiles, sum.applies, sum.weights))

FiguresNext == WorkSeries \/ WorkPeriods \/ WorkRank \/ WorkBlend
FiguresSpec == FiguresInit /\ [][FiguresNext]_figuresVars

-----------------------------------------------------------------------------
(* What must hold.                                                         *)

Worked(of) == sum.of = of /\ worked # NotWorked

\* What the splits after a day and up to another make of a share.
Splits(actions, from, to) ==
    Product(SplitFactors(actions), {a \in actions : a.type = "split" /\ from < a.day /\ a.day <= to})

\* What was traded on the day of the bar before an action, in the action's shares.
Scaled(s, action) ==
    LET last == Max({j \in DOMAIN s.bars : s.bars[j].day < action.day})
    IN  Times(Whole(s.traded[last]), Splits(s.actions, s.bars[last].day, action.day))

Kept(s, action) == <<Scaled(s, action)[1] - action.amount * Scaled(s, action)[2], Scaled(s, action)[1]>>

\* What was traded on a bar's day, in shares of today, less the dividends since, unless
\* one is all that was traded: nothing in it is of when the bar was fetched.
TotalReturn(s, k) ==
    Times(Times(Whole(s.traded[k]), Splits(s.actions, s.bars[k].day, s.today)),
          Product([a \in s.actions |-> Kept(s, a)],
                  {a \in s.actions : /\ a.type = "dividend" /\ s.bars[k].day < a.day
                                     /\ 0 < Kept(s, a)[1]}))

\* A bar is quoted in the shares of its last fetch.
QuotedAsFetched(s) ==
    \A k \in DOMAIN s.bars :
        Same(Whole(s.bars[k].close),
             Times(Whole(s.traded[k]), Splits(s.actions, s.bars[k].day, s.bars[k].fetched)))

\* A dividend and the close before it are in the same shares: no split came between
\* the dividend and the last fetch of that close, or between that fetch and it.
OneScale(s) ==
    \A a \in s.actions, k \in DOMAIN s.bars :
        a.type = "dividend" /\ k = Max({j \in DOMAIN s.bars : s.bars[j].day < a.day})
            => \A b \in s.actions : b.type = "split" =>
                  (b.day <= a.day <=> b.day <= s.bars[k].fetched) \/ b.day <= s.bars[k].day

\* The adjusted closes are the total-return series whenever each of their bars was
\* fetched, before a split or after it.  (adjusted_closes)
SeriesIgnoresFetches ==
    Worked("series") /\ QuotedAsFetched(sum) /\ OneScale(sum) =>
        \A k \in DOMAIN sum.bars : Same(worked.closes[k], TotalReturn(sum, k))

\* "Stored closes plus corporate actions into an adjusted total-return series."
SeriesIsTotalReturn ==
    Worked("series") /\ QuotedAsFetched(sum) =>
        \A k \in DOMAIN sum.bars : Same(worked.closes[k], TotalReturn(sum, k))

\* Four ends of which no two are of one quarter, and that are of no more than a year.
Twelvemonth(ends) ==
    /\ Cardinality(ends) = 4
    /\ \A d, e \in ends : d < e => QuarterMin <= e - d /\ e - d <= 3 * QuarterMax

\* What was reported of a code at the ends, in all.
Reported(held, code, type, ends) ==
    LET value == [i \in held |-> i.value]
    IN  MapThenSumSet(LAMBDA i : value[i],
                      {i \in held : i.code = code /\ i.type = type /\ i.end \in ends})

\* One year, or four quarters of one, that ends when the ratio says; everything the
\* ratio is of was reported for all of it.
OfOnePeriod(held, c, r) ==
    \E ends \in SUBSET {i.end : i \in held} :
        LET type == IF r.basis = "A" THEN "A" ELSE "Q"
        IN  /\ r.end \in ends /\ \A e \in ends : e <= r.end
            /\ IF r.basis = "A" THEN ends = {r.end} ELSE Twelvemonth(ends)
            /\ \A f \in Flows[c], e \in ends :
                  \E i \in held : i.code = f /\ i.type = type /\ i.end = e
            /\ c = "gross_margin" =>
                  r.value = <<Reported(held, "gross_profit", type, ends),
                              Reported(held, "revenue", type, ends)>>
            /\ c = "roe" =>
                  \E i \in held :
                      /\ i.code = "stockholders_equity" /\ i.end = r.end
                      /\ r.value = <<Reported(held, "net_income", type, ends), i.value>>

\* A ratio of flows is of twelve months in a row, the same for all it is of, and a
\* return is on the equity of the day those ended: no ratio mixes two periods.
\* (ttm_basis, flow_basis, balance_at)
NoRatioMixesPeriods ==
    Worked("periods") =>
        \A c \in DOMAIN worked \cap DOMAIN Flows : OfOnePeriod(sum.held, c, worked[c])

\* A value's percentile is its wins and half its ties against the others of the
\* group it says, and that group has the members it says: who falls to the market
\* is ranked against everyone.  (rank, percentiles)
RankedAgainstItsPeers ==
    Worked("rank") =>
        \A s \in DOMAIN sum.values :
            LET p == worked.placed[s]
                peers == IF p.group = "market" THEN DOMAIN sum.values
                         ELSE {o \in DOMAIN sum.values : sum.group[o] = p.group}
                won == Cardinality({o \in peers : IF sum.higher THEN sum.values[o] < sum.values[s]
                                                  ELSE sum.values[o] > sum.values[s]})
                tied == Cardinality({o \in peers \ {s} : sum.values[o] = sum.values[s]})
            IN  /\ p.peers = Cardinality(peers)
                /\ p.group # "market" => p.peers >= MinPeers
                /\ p.peers > 1 => Same(p.percentile, <<(2 * won + tied) * 50, p.peers - 1>>)

\* A snapshot is between the percentiles it is of, and says it is whole exactly
\* when nothing that its weights count is missing.  (score_pillar, blend)
SnapshotIsHonest ==
    (Worked("blend") /\ worked # NoSnapshot) =>
        LET weighted == UNION {sum.applies[p] : p \in {p \in DOMAIN sum.weights : sum.weights[p] > 0}}
            there == DOMAIN sum.percentiles \cap weighted
        IN  /\ \E m \in there : AtMost(sum.percentiles[m], worked.blended)
            /\ \E m \in there : AtMost(worked.blended, sum.percentiles[m])
            /\ Same(worked.coverage, Whole(1)) <=> weighted \subseteq there

\* What a security is placed at is what its page says it is among.
PlacesAreHonest == RankedAgainstItsPeers /\ SnapshotIsHonest
=============================================================================
