---------------------------- MODULE MCCollected -----------------------------
(***************************************************************************)
(* What is taken in from outside, for TLC: who is listed, their prices and *)
(* filings, Reddit, and the settings of a process.  As in MCServices a     *)
(* behaviour is of one of them: they meet in the database, where a night   *)
(* reads them all at once (Nightly).                                       *)
(***************************************************************************)
EXTENDS Reddit, Edgar, Ingest, Universe, Secrets, TLC

CONSTANTS
    Collections,  \* which of them a run is of
    Classes       \* the shares of one issuer

VARIABLE collection

collectedVars == <<collection, redditVars, edgarVars, ingestVars, universeVars,
                   secretsVars>>

\* An issuer of two classes of shares, and one of one; the classes stand for each other.
MCIssuerOf == [c \in Shares |-> IF c \in Classes THEN "A" ELSE "B"]
Interchanged == Permutations(Classes)

\* One of them under either ticker, reclassified, or without a CIK; or two.
MCRosters ==
    LET as(t, i, filed) == [ticker |-> t, industry |-> i, filed |-> filed]
    IN  {[c \in {o} |-> as(t, "i", filed)] : o \in Shares, t \in Tickers, filed \in BOOLEAN}
        \cup {[c \in {o} |-> as("x", "j", TRUE)] : o \in Shares}
        \cup {[o \in {c, d} |-> as(IF o = c THEN "x" ELSE "y", "i", TRUE)] :
                c, d \in Shares}

\* Nothing, items far between, and in one second a page of them, or more.
MCPostings ==
    {{}, {-4, 2, 6} \X {1},
     {-4, 6} \X {1} \cup {2} \X (1 .. Page),
     {-2, 4} \X {1} \cup {2} \X (1 .. Page + 1)}

MCSecurities == <<"s">>

Filing(on, form, parties, issuer, plain, derived) ==
    [day |-> on, form |-> form, parties |-> parties, issuer |-> issuer,
     rows |-> [non_derivative |-> plain, derivative |-> derived]]

\* Of one party and of two, of a form that is not read, and with a row that has no code.
MCEdgarFilings ==
    {Filing(0, "4", {"a"}, "a", <<TRUE, FALSE, TRUE>>, <<TRUE>>),
     Filing(0, "4", {"a", "b"}, "b", <<TRUE>>, <<>>),
     Filing(1, "4", {"b"}, "b", <<TRUE>>, <<>>),
     Filing(1, "3", {"b"}, "b", <<TRUE>>, <<>>)}

Init ==
    /\ collection \in Collections
    /\ RedditInit /\ EdgarInit /\ IngestInit /\ UniverseInit /\ SecretsInit
    /\ collection # "reddit" => posted = {}
    \* Another stands still at one of its beginnings.
    /\ collection # "secrets" => vault = [n \in SettingNames |-> CHOOSE v \in SettingValues : TRUE]

Next ==
    \/ /\ collection = "reddit" /\ RedditNext
       /\ UNCHANGED <<collection, edgarVars, ingestVars, universeVars, secretsVars>>
    \/ /\ collection = "edgar" /\ EdgarNext
       /\ UNCHANGED <<collection, redditVars, ingestVars, universeVars, secretsVars>>
    \/ /\ collection = "ingest" /\ IngestNext
       /\ UNCHANGED <<collection, redditVars, edgarVars, universeVars, secretsVars>>
    \/ /\ collection = "universe" /\ UniverseNext
       /\ UNCHANGED <<collection, redditVars, edgarVars, ingestVars, secretsVars>>
    \/ /\ collection = "secrets" /\ SecretsNext
       /\ UNCHANGED <<collection, redditVars, edgarVars, ingestVars, universeVars>>

Spec == Init /\ [][Next]_collectedVars
=============================================================================
