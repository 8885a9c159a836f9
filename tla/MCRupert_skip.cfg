\* A corpus whose older items are found late, and two at one instant.  A
\* counterexample to NothingSkipped.
SPECIFICATION Spec
CONSTANTS
    Corpora <- MCCorpora
    Items = {a, b, c, d}
    d = d
    CorpusOf <- MCCorpusOf
    Batch = 2
    MaxCalls = 2
    MaxSpend = 2
    Prices = {1, 2}
    Backfill = 0
    InOrder = FALSE
    DayLength = 2
    Horizon = 3
    MaxFaults = 1
INVARIANT NothingSkipped
