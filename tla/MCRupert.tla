------------------------------ MODULE MCRupert ------------------------------
\* TLC instances of Rupert: two corpora, of three items and of one, with room
\* in a batch for two.
EXTENDS Rupert, TLC

CONSTANTS d  \* the one item of the second corpus

MCCorpora == <<"social", "document">>
MCCorpusOf == [i \in Items |-> IF i = d THEN "document" ELSE "social"]

\* Nothing tells one item of a corpus from another.
Alike == Permutations(Items \ {d})
=============================================================================
