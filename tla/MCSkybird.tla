----------------------------- MODULE MCSkybird -----------------------------
\* TLC instances of Skybird.  Two variables have no meaning before they are
\* first assigned, the stream of an id with no row and the session a tick that
\* has not begun is on: one value stands for all of theirs.
EXTENDS Skybird, TLC

MCInit ==
    /\ Init
    /\ stream = [i \in Ids |-> CHOOSE st \in Streams : TRUE]
    /\ cur = [s \in Supervisors |-> CHOOSE i \in Ids : TRUE]

MCSafety == MCInit /\ [][Next]_vars
MCSpec == MCSafety /\ Fairness

\* No action tells one supervisor from another.
Interchangeable == Permutations(Supervisors)
=============================================================================
