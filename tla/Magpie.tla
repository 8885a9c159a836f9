------------------------------- MODULE Magpie -------------------------------
(***************************************************************************)
(* The scraper (magpie/run.py, acquire.py, store.py, server.py): pages     *)
(* asked for by people, fetched over a ladder whose last rung is billed,   *)
(* kept as documents, and read back for the links they hold.  Requests are *)
(* threads of one process, which may go at any statement; the meter over   *)
(* the billed rung is a count of attempt rows.                             *)
(*                                                                         *)
(* A page is a version of its text, and a day is one window of the meter.  *)
(* Extraction, addresses and robots.txt are the outcomes they have.        *)
(***************************************************************************)
EXTENDS Integers, Sequences, FiniteSets

CONSTANTS
    Asking,         \* threads of the server
    Urls,           \* canonical addresses
    Texts,          \* what a page may say
    UnlockerMax,    \* MAGPIE_UNLOCKER_DAILY_MAX
    MaxAttempts,    \* bound: attempts
    MaxRestarts,    \* bound: times the container is replaced
    Nothing         \* no text, no address

ASSUME MagpieAssumption ==
    /\ IsFiniteSet(Asking) /\ Asking # {}
    /\ {UnlockerMax, MaxAttempts, MaxRestarts} \subseteq Nat
    /\ Nothing \notin Urls \cup Texts

VARIABLES
    attempt,    \* magpie.attempt, in the order they were begun
    document,   \* magpie.document by url, with the text its blob holds
    link,       \* magpie.link: what a document's page pointed at, by url
    asked,      \* each thread, or Free
    billed,     \* ghost: attempts that reached the paid rung
    restarts

magpieVars == <<attempt, document, link, asked, billed, restarts>>

Free == [at |-> "free"]
NoDocument == [id |-> 0, text |-> Nothing, read |-> FALSE]

MagpieInit ==
    /\ attempt = <<>>
    /\ document = [u \in Urls |-> NoDocument]
    /\ link = [u \in Urls |-> Nothing]
    /\ asked = [r \in Asking |-> Free]
    /\ billed = {}
    /\ restarts = 0

-----------------------------------------------------------------------------
(* What is asked of the rows.                                              *)

\* Mutant: only what was kept is counted.
UnlockerKept ==
    Cardinality({k \in DOMAIN attempt : attempt[k].paid /\ attempt[k].state = "stored"})

UnlockerUsedToday == Cardinality({k \in DOMAIN attempt : attempt[k].paid})

Unsettled(k) == attempt[k].state \in {"requested", "running"}

Refusals(u) == {k \in DOMAIN attempt : attempt[k].url = u /\ attempt[k].state = "refused"}

\* The latest refusal, if it is one that is not asked about again.
RefusedForGood(u) ==
    \E k \in Refusals(u) :
        /\ attempt[k].reason \in {"robots", "paywall"}
        /\ \A j \in Refusals(u) : j <= k

\* Settle an attempt; a row that cannot be written stays as it was.  The rung is
\* on the row only where the caller says it.
Settled(k, state, reason, paid) ==
    attempt' \in {attempt, [attempt EXCEPT ![k].state = state, ![k].reason = reason,
                                           ![k].paid = paid]}

-----------------------------------------------------------------------------
(* A scrape.                                                               *)

Goto(r, at) == asked' = [asked EXCEPT ![r].at = at]
Answer(r) == asked' = [asked EXCEPT ![r] = Free]

\* do_POST, for an address or for a link that was clicked: what was refused for
\* good is answered from the row.  No more are asked for than may be attempted.
ScrapeAsked(r, u) ==
    /\ asked[r] = Free
    /\ ~RefusedForGood(u)
    /\ Len(attempt) + Cardinality({q \in Asking : asked[q].at \in {"meter", "begin"}}) < MaxAttempts
    /\ asked' = [asked EXCEPT ![r] = [at |-> "meter", url |-> u, pays |-> FALSE,
                                      capped |-> FALSE, key |-> 0, got |-> Nothing,
                                      kind |-> "none", paid |-> FALSE]]
    /\ UNCHANGED <<attempt, document, link, billed, restarts>>

\* A meter that cannot be read is one that is spent.
MeterRead(r, mayPay, readable) ==
    /\ asked[r].at = "meter"
    /\ LET spent == ~readable \/ UnlockerUsedToday >= UnlockerMax
       IN  asked' = [asked EXCEPT ![r].at = "begin", ![r].capped = mayPay /\ spent,
                                  ![r].pays = mayPay /\ ~spent]
    /\ UNCHANGED <<attempt, document, link, billed, restarts>>

BeginAttempt(r) ==
    /\ asked[r].at = "begin"
    /\ attempt' = Append(attempt, [url |-> asked[r].url, state |-> "running",
                                   reason |-> "none", paid |-> FALSE])
    /\ asked' = [asked EXCEPT ![r].at = "fetch", ![r].key = Len(attempt) + 1]
    /\ UNCHANGED <<document, link, billed, restarts>>

\* acquire: the ladder stops before a request or fails on every rung, the billed
\* one perhaps by what it brought ...
NotFetched(r, kind) ==
    /\ asked[r].at = "fetch"
    /\ billed' \in {billed} \cup
           (IF kind = "failed" /\ asked[r].pays THEN {billed \cup {asked[r].key}} ELSE {})
    /\ asked' = [asked EXCEPT ![r].at = "settle", ![r].kind = kind]
    /\ UNCHANGED <<attempt, document, link, restarts>>

\* ... or a rung answers, the billed one if it may: with an article, with too
\* little of one, or with what is not a page or not free to read.
PageFetched(r, kind, text, paid) ==
    /\ asked[r].at = "fetch"
    /\ paid => asked[r].pays
    /\ billed' = IF paid THEN billed \cup {asked[r].key} ELSE billed
    /\ asked' = [asked EXCEPT ![r].at = IF kind = "article" THEN "put" ELSE "settle",
                              ![r].kind = kind, ![r].got = text, ![r].paid = paid]
    /\ UNCHANGED <<attempt, document, link, restarts>>

\* The row is settled as refused or failed, and the asker told why.  Only a page
\* too short to be an article is settled with the rung it came by.
SettleUnkept(r) ==
    /\ asked[r].at = "settle"
    /\ LET q == asked[r]
           state == IF q.kind \in {"robots", "not_a_page", "paywall", "too_short"}
                    THEN "refused" ELSE "failed"
           reason == IF q.kind = "failed" /\ q.capped THEN "unlocker_capped" ELSE q.kind
       IN  Settled(q.key, state, reason, q.kind = "too_short" /\ q.paid)
    /\ Answer(r)
    /\ UNCHANGED <<document, link, billed, restarts>>

\* The blob is put before the row that names it.
PutPayload(r) ==
    /\ asked[r].at = "put"
    /\ Goto(r, "save")
    /\ UNCHANGED <<attempt, document, link, billed, restarts>>

\* An upsert by address: the same text is not written again, and an edit leaves
\* the stamp alone.
SaveDocument(r) ==
    /\ asked[r].at = "save"
    /\ LET q == asked[r]
           found == document[q.url]
       IN  /\ document' = [document EXCEPT
                  ![q.url] = IF found = NoDocument
                             THEN [id |-> q.key, text |-> q.got, read |-> FALSE]
                             ELSE [found EXCEPT !.text = q.got]]
           /\ asked' = [asked EXCEPT
                  ![r].at = "keep",
                  ![r].kind = IF found.text = q.got THEN "unchanged" ELSE "stored"]
    /\ UNCHANGED <<attempt, link, billed, restarts>>

SettleKept(r) ==
    /\ asked[r].at = "keep"
    /\ Settled(asked[r].key, asked[r].kind, "none", asked[r].paid)
    /\ Answer(r)
    /\ UNCHANGED <<document, link, billed, restarts>>

\* The blob or the row cannot be written: the page was fetched and is not kept.
NotStored(r) ==
    /\ asked[r].at \in {"put", "save"}
    /\ Settled(asked[r].key, "failed", "not_stored", FALSE)
    /\ Answer(r)
    /\ UNCHANGED <<document, link, billed, restarts>>

-----------------------------------------------------------------------------
(* Documents and their links.                                              *)

\* _expand, of a document that is not stamped: its page is read back ...
ExpandAsked(r, u) ==
    /\ asked[r] = Free
    /\ document[u] # NoDocument
    /\ ~document[u].read
    /\ asked' = [asked EXCEPT ![r] = [at |-> "links", url |-> u, key |-> document[u].id,
                                      got |-> document[u].text]]
    /\ UNCHANGED <<attempt, document, link, billed, restarts>>

Stands(r) == document[asked[r].url].id = asked[r].key

\* ... what it points at is saved ...
SaveLinks(r) ==
    /\ asked[r].at = "links"
    /\ Stands(r)
    /\ link' = [link EXCEPT ![asked[r].url] = asked[r].got]
    /\ Goto(r, "stamp")
    /\ UNCHANGED <<attempt, document, billed, restarts>>

\* ... and the document is stamped.
Stamp(r) ==
    /\ asked[r].at = "stamp"
    /\ document' = [document EXCEPT ![asked[r].url].read = @ \/ Stands(r)]
    /\ Answer(r)
    /\ UNCHANGED <<attempt, link, billed, restarts>>

\* The document was forgotten meanwhile: its links have nothing to belong to.
LinksLost(r) ==
    /\ asked[r].at = "links"
    /\ ~Stands(r)
    /\ Answer(r)
    /\ UNCHANGED <<attempt, document, link, billed, restarts>>

\* Its links go with it; what it cost stays.
ForgetDocument(u) ==
    /\ document[u] # NoDocument
    /\ document' = [document EXCEPT ![u] = NoDocument]
    /\ link' = [link EXCEPT ![u] = Nothing]
    /\ UNCHANGED <<attempt, asked, billed, restarts>>

-----------------------------------------------------------------------------

\* The container goes with its threads, and the next settles what they held
\* before it answers anybody, if it can reach the database.
MagpieRestarts ==
    /\ restarts < MaxRestarts
    /\ restarts' = restarts + 1
    /\ asked' = [r \in Asking |-> Free]
    /\ attempt' \in {attempt,
                     [k \in DOMAIN attempt |->
                         IF Unsettled(k)
                         THEN [attempt[k] EXCEPT !.state = "failed", !.reason = "restarted"]
                         ELSE attempt[k]]}
    /\ UNCHANGED <<document, link, billed>>

MagpieNext ==
    \/ MagpieRestarts
    \/ \E u \in Urls : ForgetDocument(u)
    \/ \E r \in Asking :
          \/ \E u \in Urls : ScrapeAsked(r, u) \/ ExpandAsked(r, u)
          \/ \E mayPay, readable \in BOOLEAN : MeterRead(r, mayPay, readable)
          \/ BeginAttempt(r)
          \/ \E kind \in {"robots", "not_a_page", "failed"} : NotFetched(r, kind)
          \/ \E kind \in {"article", "too_short", "not_a_page", "paywall"},
                text \in Texts, paid \in BOOLEAN : PageFetched(r, kind, text, paid)
          \/ SettleUnkept(r) \/ PutPayload(r) \/ SaveDocument(r) \/ SettleKept(r)
          \/ NotStored(r)
          \/ SaveLinks(r) \/ Stamp(r) \/ LinksLost(r)

MagpieSpec == MagpieInit /\ [][MagpieNext]_magpieVars

-----------------------------------------------------------------------------
(* What must hold.                                                         *)

\* A fetch whose row does not say by which rung it came: what it brought was not a
\* page, not free to read or no answer, could not be kept, went with the container,
\* or its row was never settled.  unlocker_used_today says "Billed fetches in the
\* last 24 hours" and counts none of these.
Unsaid(k) ==
    \/ attempt[k].reason \in {"not_a_page", "paywall", "failed", "not_stored", "restarted"}
    \/ /\ Unsettled(k)
       /\ ~\E r \in Asking :
              asked[r].at \in {"settle", "put", "save", "keep"} /\ asked[r].key = k

\* However many ask at once, and wherever each of them is between the fetch and its
\* row, the billed fetches pass the meter by no more than there are others that had
\* read it when it was reached: but for those whose row will never say so.
MeterOvershoot ==
    Cardinality({k \in billed : ~Unsaid(k)}) < UnlockerMax + Cardinality(Asking)

\* acquire raises "NotAPage when the address or the body is not a readable page
\* -- both before anything is paid for".
NothingPaidForNoPage ==
    \A k \in billed : attempt[k].reason \notin {"not_a_page", "paywall"}

\* "Whether this document's stored page has already been parsed for links."
LinksAreOfThePage ==
    \A u \in Urls : document[u].read => link[u] = document[u].text
=============================================================================
