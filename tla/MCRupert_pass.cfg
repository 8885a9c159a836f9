\* Corpora that grow in order, of three items and of one with batches of two, over
\* two days, with one pass that dies.
SPECIFICATION Spec
CONSTANTS
    Corpora <- MCCorpora
    Items = {a, b, c, d}
    d = d
    CorpusOf <- MCCorpusOf
    Batch = 2
    MaxCalls = 2
    MaxSpend = 2
    Prices = {2}
    Backfill = 0
    InOrder = TRUE
    DayLength = 2
    Horizon = 3
    MaxFaults = 1
SYMMETRY Alike
INVARIANTS
    NothingSkipped
    BudgetsHold
PROPERTY DecidedOnce
