------------------------------- MODULE MCBooks ------------------------------
(***************************************************************************)
(* What is made of what was collected, for TLC: the arithmetic of a night, *)
(* the screen, Rupert's panel, the model servers, and the models a         *)
(* question may be answered on.  As in MCServices a behaviour is of one of *)
(* them.                                                                   *)
(***************************************************************************)
EXTENDS Figures, Screen, Panel, Inference, Catalogue, TLC

CONSTANT Books  \* which of them a run is of

VARIABLE book

booksVars == <<book, figuresVars, screenVars, panelVars, inferenceVars, catalogueVars>>

\* Two requests stand for each other, and so do two of the three calls and two of the
\* three mentions: a behaviour is of one of these kinds, and all go by the same names.
Interchangeable == Permutations(Clients)

\* In and out of order, with blanks, and more than may be asked for.
MCBatches == {<<3, 1, 2>>, <<0, 2, 0, 1>>, <<2, 0, 3, 1, 1>>}

-----------------------------------------------------------------------------
(* The sums of the arithmetic.                                             *)

\* Two bars and what was traded on them, a split and a dividend, and a fetch of each
\* bar on its day or in the days the price run goes back over.
SeriesDays == <<0, 2>>
Quoted(traded, day, fetched, actions) ==
    IF \E a \in actions : a.type = "split" /\ day < a.day /\ a.day <= fetched
    THEN traded \div 2 ELSE traded

MCSeriesSums ==
    {[of |-> "series", today |-> 6, actions |-> actions, traded |-> <<16, traded>>,
      bars |-> [k \in 1 .. 2 |-> [day |-> SeriesDays[k], fetched |-> fetched[k],
                  close |-> Quoted(<<16, traded>>[k], SeriesDays[k], fetched[k], actions)]]] :
        traded \in {8, 16},
        fetched \in {<<a, b>> \in (0 .. 6) \X (2 .. 6) : a <= b},
        actions \in {d \cup s : d \in {{}} \cup {{[day |-> day, type |-> "dividend", amount |-> 2]} : day \in 1 .. 6},
                              s \in {{}} \cup {{[day |-> day, type |-> "split", amount |-> 2]} : day \in 1 .. 6}}}

Facts(code, type, ends, base) ==
    {[code |-> code, type |-> type, end |-> e, value |-> base + (e % 7)] : e \in ends}

QuarterEnds == {0, 90, 182, 274, 365, 455}

\* A margin or a return: the quarters each of its items is held for, and a year's.
MCPeriodSums ==
    {[of |-> "periods", today |-> today, industry |-> kind[1],
      quote |-> [close |-> 3, day |-> today, splits |-> kind[2]],
      held |-> Facts("gross_profit", "Q", first, 10) \cup Facts("revenue", "Q", second, 30)
               \cup Facts("net_income", "Q", first, 5)
               \cup Facts("stockholders_equity", "Q", second, 50)
               \cup Facts("gross_profit", "A", year, 40) \cup Facts("revenue", "A", year, 120)
               \cup Facts("net_income", "A", year, 20)
               \cup Facts("shares_outstanding", "Q", second, 1)] :
        today \in {460, 600}, year \in {{}, {90}, {455}},
        kind \in {<<"other", {}>>, <<"other", {458}>>, <<"banks", {}>>},
        first \in {ends \in SUBSET QuarterEnds : Cardinality(ends) >= 3},
        second \in {QuarterEnds, QuarterEnds \ {182}, QuarterEnds \ {455}}}
    \cup
    {[of |-> "periods", today |-> 460, industry |-> industry,
      quote |-> [close |-> close, day |-> day, splits |-> {}],
      held |-> Facts("shares_outstanding", "Q", {455}, 1)
               \cup UNION {Facts(c, "Q", QuarterEnds, values) :
                       c \in {"net_income", "depreciation_amortisation", "ebit",
                              "operating_cash_flow", "pretax_income", "interest_expense"}}
               \cup Facts("tax_provision", "Q", QuarterEnds, tax)
               \cup Facts("capital_expenditure", "Q", QuarterEnds, capex)
               \cup Facts("total_debt", "Q", debt, 9)
               \cup Facts("cash_and_equivalents", "A", debt, cash)
               \cup Facts("stockholders_equity", "Q", {274, 455}, equity)] :
        industry \in {"other", "banks", "reit"}, close \in {0, 3}, day \in {450, 458},
        values \in {-9, 4}, tax \in {-9, 1, 4}, capex \in {-9, 4},
        debt \in {{274}, {455}}, cash \in {1, 20}, equity \in {-7, 10}}

Listed == {"s1", "s2", "s3", "s4"}

\* Whichever is the first to be in an industry is called s1, and the industry g.
MCRankSums ==
    {[of |-> "rank", values |-> values, group |-> group, higher |-> higher] :
        values \in UNION {[S -> 0 .. 2] : S \in SUBSET Listed \ {{}}},
        group \in {f \in [Listed -> {"g", "h", "market"}] :
                      f["s1"] = "g" \/ \A s \in Listed : f[s] = "market"},
        higher \in BOOLEAN}

\* Any order will do.
MCReadOrder ==
    LET rows == SetToSeq(Mentions)
    IN  [m \in Mentions |-> CHOOSE k \in DOMAIN rows : rows[k] = m]

Applies == [valuation |-> {"v1", "v2"}, momentum |-> {"m1", "m2"}]

MCBlendSums ==
    {[of |-> "blend", percentiles |-> percentiles, applies |-> Applies, weights |-> weights] :
        percentiles \in UNION {[S -> {Whole(0), Whole(60), <<175, 2>>}] :
                               S \in SUBSET {"v1", "v2", "m1", "m2"}},
        weights \in [DOMAIN Applies -> {0, 1, 3}]}

\* Two securities, either ahead of the other, and one of them alone.
MCNightScores == {<<0, 1>>, <<1, 0>>, [s \in {2} |-> 1]}

-----------------------------------------------------------------------------
(* The models.                                                             *)

MCWeights == [agentic |-> 11, intelligence |-> 6, coding |-> 3]

Row(slug, input, output, marks) ==
    [slug |-> slug, author |-> "x", tools |-> TRUE, text |-> TRUE, batch |-> FALSE,
     input |-> input, output |-> output, context |-> 32, marks |-> marks]

\* A field of three with a tie, and one in which most of what is better
\* or cheaper may not be offered, while the best value was not measured often enough.
MCListings ==
    LET a == Row("a", 2, 6, [agentic |-> 80, intelligence |-> 60, coding |-> 50])
        b == Row("b", 2, 6, [agentic |-> 60, intelligence |-> 60])
        s == Row("solar", 5, 20, [agentic |-> 80, intelligence |-> 80, coding |-> 70])
        d == Row("d", 1, 3, [coding |-> 50])
        e == Row("e", 4, 6, [agentic |-> 80, intelligence |-> 60, coding |-> 50])
        u == Row("u", 1, 1, <<>>)
    IN  {<<a, b, s>>,
         <<u, [s EXCEPT !.slug = "dear", !.input = 40], e, b, [d EXCEPT !.author = "anthropic"],
           s, [a EXCEPT !.tools = FALSE, !.input = 1]>>}

-----------------------------------------------------------------------------

Init ==
    /\ book \in Books
    /\ ScreenInit /\ PanelInit /\ InferenceInit
    /\ CatalogueInit
    \* Another book stands still at one of its beginnings.
    /\ book # "catalogue" => listing = CHOOSE rows \in Listings : TRUE
    /\ IF book = "figures" THEN FiguresInit
       ELSE sum = (CHOOSE s \in RankSums : TRUE) /\ worked = NotWorked

Next ==
    \/ /\ book = "figures" /\ FiguresNext
       /\ UNCHANGED <<book, screenVars, panelVars, inferenceVars, catalogueVars>>
    \/ /\ book = "screen" /\ ScreenNext
       /\ UNCHANGED <<book, figuresVars, panelVars, inferenceVars, catalogueVars>>
    \/ /\ book = "panel" /\ PanelNext
       /\ UNCHANGED <<book, figuresVars, screenVars, inferenceVars, catalogueVars>>
    \/ /\ book = "inference" /\ InferenceNext
       /\ UNCHANGED <<book, figuresVars, screenVars, panelVars, catalogueVars>>
    \/ /\ book = "catalogue" /\ CatalogueNext
       /\ UNCHANGED <<book, figuresVars, screenVars, panelVars,
                      inferenceVars>>

Spec == Init /\ [][Next]_booksVars
=============================================================================
