------------------------ MODULE MCSkybirdTranscript ------------------------
\* TLC instances of SkybirdTranscript: what a chunk may be heard as.
EXTENDS SkybirdTranscript

OneLine == {<<"words">>}
WithNul == {<<"words">>, <<"words", "nul", "words">>}
=============================================================================
