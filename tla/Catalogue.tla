------------------------------ MODULE Catalogue -----------------------------
(***************************************************************************)
(* The models Steven may answer on (ai/catalogue.py, ai/models.py, and the *)
(* choice of one in bot/agent.py and health/server.py).                    *)
(*                                                                         *)
(* The catalogue is what OpenRouter lists: filtered, ranked and cached by  *)
(* requests that overlap, each of which may read the cache several times.  *)
(* Only a fetch takes time.  Prices and indices are whole numbers, and so  *)
(* are percentiles in a fine enough unit, so that every comparison of the  *)
(* ranking is exact; labels and the wording of a recommendation are left   *)
(* out.                                                                    *)
(***************************************************************************)
EXTENDS Integers, Sequences, FiniteSets, FiniteSetsExt, SequencesExt, Functions

CONSTANTS
    Indices,        \* INDICES
    Weights,        \* WEIGHTS, of each of them
    InputShare,     \* INPUT_SHARE, in tenths
    Unit,           \* what percentiles are counted in: so many to a hundredth
    PriceMultiple, MaxInputPrice, MinContext, ExcludedAuthors,
    MinIndices, MinCapability,
    Router,         \* ROUTER, which is not a model
    Static,         \* MODELS
    DefaultModel,   \* DEFAULT_MODEL
    Configured,     \* DISCORD_BOT_MODEL
    CacheTtl,       \* TTL_SECONDS
    SlowestFetch,   \* TIMEOUT
    ChoiceAge,      \* MODEL_CHOICE_HOURS
    ShownRows,      \* OFFERED_TO_THE_INTERFACE
    MaxRounds,      \* MAX_TOOL_ROUNDS
    Listings,       \* what OpenRouter may list: sequences of rows
    Clients,        \* requests that may be under way at once
    LastTime, MaxShifts, MaxChoices, MaxRequests    \* bounds

ASSUME CatalogueAssumption ==
    /\ CacheTtl \in Nat \ {0}
    /\ {SlowestFetch, ChoiceAge, LastTime, MaxShifts, MaxChoices, MaxRequests, MaxRounds,
        ShownRows} \subseteq Nat
    /\ Weights \in [Indices -> Nat \ {0}]
    /\ DefaultModel \in Static /\ Router \notin Static
    /\ Listings # {}

\* What is measured and paid is a number of something, and the percentiles of no listing
\* fall between two units.
ASSUME ListingsAssumption ==
    /\ IsFiniteSet(Indices)
    /\ InputShare \in 1 .. 9 /\ Unit \in Nat \ {0} /\ MinCapability \in Nat \ {0}
    /\ \A rows \in Listings :
          /\ Len(rows) \in Nat /\ DOMAIN rows = 1 .. Len(rows)
          /\ \A n \in 1 .. Len(rows) - 1 : \E q \in 1 .. 50 * Unit : n * q = 50 * Unit
          /\ \A k \in DOMAIN rows :
                /\ {rows[k].input, rows[k].output} \subseteq Nat
                /\ DOMAIN rows[k].marks \subseteq Indices
                /\ \A i \in DOMAIN rows[k].marks : rows[k].marks[i] \in Nat

VARIABLES
    time,
    listing,        \* what OpenRouter lists now
    cached,         \* _cached
    cachedAt,       \* _cached_at
    clients,        \* each request
    choices,        \* the audit rows of one person's choices
    offeredAt,      \* ghost: when OpenRouter last listed a model as eligible
    cachedSent,     \* ghost: when what is cached was listed
    shifts, requests

catalogueVars == <<time, listing, cached, cachedAt, clients, choices, offeredAt, cachedSent,
                   shifts, requests>>

-----------------------------------------------------------------------------
(* The ranking.  A row: slug, author, tools, text, batch, input, output,   *)
(* context, and marks, a function of the indices that were measured.       *)

\* turn_cost, of ten parts of which InputShare are input.
Cost(row) == InputShare * row.input + (10 - InputShare) * row.output

\* The clauses of eligible that need no field.
Acceptable(row) ==
    /\ row.tools /\ row.text
    /\ row.author \notin ExcludedAuthors
    /\ ~row.batch
    /\ row.input > 0 \/ row.output > 0
    /\ row.input <= MaxInputPrice
    /\ row.context >= MinContext

\* ... and the relative ceiling, of what survived them.
Eligible(rows) ==
    LET keep == {k \in DOMAIN rows : Acceptable(rows[k])}
        floor == Min({Cost(rows[k]) : k \in keep})
    IN  Restrict(rows, {k \in keep : Cost(rows[k]) <= floor * PriceMultiple})

Measured(rows, index) == {k \in DOMAIN rows : index \in DOMAIN rows[k].marks}

\* Mutant: ties take the lowest of their places.
LowestPlace(rows, index, mark) ==
    LET field == Measured(rows, index)
        below == Cardinality({k \in field : rows[k].marks[index] < mark})
    IN  IF Cardinality(field) = 1 THEN 50 * Unit
        ELSE (100 * Unit * below) \div (Cardinality(field) - 1)

\* _percentiles, at the midpoint of those that are equal.
PlaceAmong(rows, index, mark) ==
    LET field == Measured(rows, index)
        below == Cardinality({k \in field : rows[k].marks[index] < mark})
        equal == Cardinality({k \in field : rows[k].marks[index] = mark})
    IN  IF Cardinality(field) = 1 THEN 50 * Unit
        ELSE (50 * Unit * (2 * below + equal - 1)) \div (Cardinality(field) - 1)

AddedUp(f) == MapThenSumSet(LAMBDA x : f[x], DOMAIN f)

\* One model placed: the weighted mean of the percentiles it has is blend / share, and
\* one that was not measured has none.
Rated(rows, row) ==
    LET percentiles == [i \in DOMAIN row.marks |-> PlaceAmong(rows, i, row.marks[i])]
    IN  [slug |-> row.slug, cost |-> Cost(row), marks |-> row.marks,
         percentiles |-> percentiles,
         blend |-> AddedUp([i \in DOMAIN row.marks |-> Weights[i] * percentiles[i]]),
         share |-> IF DOMAIN row.marks = {} THEN 1
                   ELSE AddedUp([i \in DOMAIN row.marks |-> Weights[i]])]

\* Capability per dollar.
BetterValue(a, b) == a.blend * b.share * b.cost > b.blend * a.share * a.cost

\* rank: best value first, and in the order they came where it is the same.  Each stands
\* where as many are ahead of it.
RankOf(rows) ==
    LET placed == [k \in DOMAIN rows |-> Rated(rows, rows[k])]
        before(j, k) == \/ BetterValue(placed[j], placed[k])
                        \/ j < k /\ ~BetterValue(placed[k], placed[j])
        ahead(k) == {j \in DOMAIN rows : before(j, k)}
        at(n) == CHOOSE k \in DOMAIN rows : Cardinality(ahead(k)) = n - 1
    IN  [n \in 1 .. Cardinality(DOMAIN rows) |-> placed[at(n)]]

\* rank(eligible(parse(payload))): the catalogue a listing becomes.
Catalogued == [rows \in Listings |-> RankOf(Eligible(rows))]

Slugs(ranked) == {ranked[k].slug : k \in DOMAIN ranked}

Recommendable(entry) ==
    /\ Cardinality(DOMAIN entry.percentiles) >= MinIndices
    /\ entry.blend >= MinCapability * Unit * entry.share

Recommendations(ranked) == {n \in DOMAIN ranked : Recommendable(ranked[n])}

\* recommend: the first with enough evidence behind it.
Recommended(ranked) == ranked[Min(Recommendations(ranked))]

\* routed, and the last fallback of for_person.
Routed(ranked, choice) ==
    IF choice # Router THEN IF choice \in Slugs(ranked) THEN choice ELSE Configured
    ELSE IF Recommendations(ranked) = {} THEN Configured
    ELSE Recommended(ranked).slug

\* payload: the first rows, and the one that is selected.
Payload(ranked, current) ==
    {ranked[k].slug : k \in {k \in DOMAIN ranked : k <= ShownRows \/ ranked[k].slug = current}}

-----------------------------------------------------------------------------
(* The requests.                                                           *)

\* What a request is for and where it is, the list it has, when that was listed, whether
\* it is an old one for want of another, and the rounds that were sent.
NotAsked == [for |-> "none", at |-> "idle", list |-> <<>>, sent |-> 0, stale |-> FALSE,
             choice |-> Router, round |-> 0, rounds |-> {}, shown |-> {}]

CatalogueInit ==
    /\ time = 0
    /\ listing \in Listings
    /\ cached = <<>> /\ cachedAt = 0 /\ cachedSent = 0
    /\ clients = [c \in Clients |-> NotAsked]
    /\ choices = <<>>
    /\ offeredAt = [slug \in Slugs(Catalogued[listing]) |-> 0]
    /\ shifts = 0 /\ requests = 0

Client(c, at) == clients[c].at = at
Moves(c, at) == clients' = [clients EXCEPT ![c].at = at]

Fresh == cached # <<>> /\ time - cachedAt < CacheTtl

\* ranked_models: what is cached serves while it is fresh, and is read again when it is
\* returned.  Otherwise OpenRouter is asked, and answers what it lists by then.
LooksAtCache(c) ==
    /\ Client(c, "look")
    /\ IF Fresh THEN Moves(c, "return")
       ELSE clients' = [clients EXCEPT ![c].at = "fetch", ![c].list = Catalogued[listing],
                                       ![c].sent = time]
    /\ UNCHANGED <<time, listing, cached, cachedAt, choices, offeredAt, cachedSent, shifts,
                   requests>>

Hands(c, list, stale) ==
    clients' = [clients EXCEPT ![c].at = "read", ![c].list = list, ![c].sent = 0,
                               ![c].stale = stale]

ReturnsCached(c) ==
    /\ Client(c, "return")
    /\ Hands(c, cached, FALSE)
    /\ UNCHANGED <<time, listing, cached, cachedAt, choices, offeredAt, cachedSent, shifts,
                   requests>>

\* What was fetched is stored, and then when.
StoresList(c) ==
    /\ Client(c, "fetch")
    /\ cached' = clients[c].list /\ cachedSent' = clients[c].sent
    /\ Moves(c, "stamp")
    /\ UNCHANGED <<time, listing, cachedAt, choices, offeredAt, shifts, requests>>

StoresTime(c) ==
    /\ Client(c, "stamp")
    /\ cachedAt' = time
    /\ Hands(c, clients[c].list, FALSE)
    /\ UNCHANGED <<time, listing, cached, choices, offeredAt, cachedSent, shifts, requests>>

\* Fails soft, with the stale copy.
FetchFails(c) ==
    /\ Client(c, "fetch")
    /\ Hands(c, cached, TRUE)
    /\ UNCHANGED <<time, listing, cached, cachedAt, choices, offeredAt, cachedSent, shifts,
                   requests>>

-----------------------------------------------------------------------------
(* What a person does.                                                     *)

\* chosen_model: the last choice, while it is young enough.
Picked ==
    IF choices = <<>> THEN Router
    ELSE IF Last(choices).at + ChoiceAge <= time THEN Router ELSE Last(choices).slug

\* A request that reads the catalogue once more, or for the first time.
Reading(c, purpose, choice, at) ==
    clients' = [clients EXCEPT ![c] = [NotAsked EXCEPT !.for = purpose, !.choice = choice,
                                           !.round = clients[c].round,
                                           !.rounds = clients[c].rounds, !.at = at]]

\* A question and the page of the picker begin alike.  choice_for: what the person picked,
\* or the router when that cannot be read; a model that was picked is looked for before it
\* is believed.
BeginsWith(c, picked) ==
    /\ Client(c, "idle") /\ requests < MaxRequests
    /\ picked \in {Picked, Router}
    /\ Reading(c, IF picked = Router THEN "use" ELSE "recheck", picked, "look")
    /\ requests' = requests + 1
    /\ UNCHANGED <<time, listing, cached, cachedAt, choices, offeredAt, cachedSent, shifts>>

\* One that has gone falls back to the router.  The catalogue is read again, to route the
\* question or to draw the page.
Rechecks(c) ==
    /\ clients[c].for = "recheck" /\ Client(c, "read")
    /\ Reading(c, "use",
               IF clients[c].choice \in Slugs(clients[c].list) THEN clients[c].choice
               ELSE Router, "look")
    /\ UNCHANGED <<time, listing, cached, cachedAt, choices, offeredAt, cachedSent, shifts,
                   requests>>

\* resolve_model needs the catalogue for what is not in the table.
Resolving(model) == IF model \in Static THEN "read" ELSE "look"

\* for_person: the model of the question.
Routes(c) ==
    /\ clients[c].for = "use" /\ Client(c, "read")
    /\ LET model == Routed(clients[c].list, clients[c].choice)
       IN  Reading(c, "round", model, Resolving(model))
    /\ UNCHANGED <<time, listing, cached, cachedAt, choices, offeredAt, cachedSent, shifts,
                   requests>>

\* How long ago OpenRouter offered a model, if ever.
Lag(model) == IF model \in DOMAIN offeredAt THEN time - offeredAt[model]
              ELSE time + CacheTtl + SlowestFetch

SendsTo(c, model) ==
    clients' = [clients EXCEPT ![c] =
        [NotAsked EXCEPT !.for = "round", !.at = "thinking", !.choice = clients[c].choice,
            !.round = clients[c].round + 1,
            !.rounds = clients[c].rounds \cup {[model |-> model, lag |-> Lag(model),
                                                stale |-> clients[c].stale]}]]

\* Mutant: what was resolved once is sent.
SendsAnyway(c) ==
    /\ clients[c].for = "round" /\ Client(c, "read")
    /\ SendsTo(c, clients[c].choice)
    /\ UNCHANGED <<time, listing, cached, cachedAt, choices, offeredAt, cachedSent, shifts,
                   requests>>

\* converse, of one round: the model is resolved again, and what is not offered is the
\* default.
SendsRound(c) ==
    /\ clients[c].for = "round" /\ Client(c, "read")
    /\ SendsTo(c, IF clients[c].choice \in Static \cup Slugs(clients[c].list)
                  THEN clients[c].choice ELSE DefaultModel)
    /\ UNCHANGED <<time, listing, cached, cachedAt, choices, offeredAt, cachedSent, shifts,
                   requests>>

\* A tool was called for, and there is another round.
NextRound(c) ==
    /\ clients[c].for = "round" /\ Client(c, "thinking")
    /\ clients[c].round < MaxRounds
    /\ Reading(c, "round", clients[c].choice, Resolving(clients[c].choice))
    /\ UNCHANGED <<time, listing, cached, cachedAt, choices, offeredAt, cachedSent, shifts,
                   requests>>

\* _models: what the picker is sent.
Draws(c) ==
    /\ clients[c].for = "use" /\ Client(c, "read")
    /\ clients' = [clients EXCEPT ![c] =
          [NotAsked EXCEPT !.at = "drawn", !.choice = clients[c].choice,
                           !.shown = Payload(clients[c].list, clients[c].choice)]]
    /\ UNCHANGED <<time, listing, cached, cachedAt, choices, offeredAt, cachedSent, shifts,
                   requests>>

\* What is chosen is a row of the audit table, if that can be written.
Choosing(slug) ==
    \/ choices' = Append(choices, [slug |-> slug, at |-> time])
    \/ UNCHANGED choices

\* _choose_model: the router is a choice whatever is offered, and so is the table.
Chooses(c, slug) ==
    /\ Client(c, "idle") /\ requests < MaxRequests
    /\ Len(choices) < MaxChoices
    /\ requests' = requests + 1
    /\ IF slug = Router
       THEN Choosing(slug) /\ UNCHANGED clients
       ELSE Reading(c, "choose", slug, "look") /\ UNCHANGED choices
    /\ UNCHANGED <<time, listing, cached, cachedAt, offeredAt, cachedSent, shifts>>

Records(c) ==
    /\ clients[c].for = "choose" /\ Client(c, "read")
    /\ Len(choices) < MaxChoices
    /\ IF clients[c].choice \in Static \cup Slugs(clients[c].list)
       THEN Choosing(clients[c].choice) ELSE UNCHANGED choices
    /\ clients' = [clients EXCEPT ![c] = NotAsked]
    /\ UNCHANGED <<time, listing, cached, cachedAt, offeredAt, cachedSent, shifts, requests>>

\* The reply, or the page, is sent.
Replied(c) ==
    /\ clients[c].at \in {"thinking", "drawn"}
    /\ clients' = [clients EXCEPT ![c] = NotAsked]
    /\ UNCHANGED <<time, listing, cached, cachedAt, choices, offeredAt, cachedSent, shifts,
                   requests>>

-----------------------------------------------------------------------------
(* External: OpenRouter's list, and the clock.                             *)

Offering(rows, t) ==
    [slug \in DOMAIN offeredAt \cup Slugs(Catalogued[rows]) |->
        IF slug \in Slugs(Catalogued[rows]) THEN t ELSE offeredAt[slug]]

ListingShifts(rows) ==
    /\ shifts < MaxShifts /\ rows # listing
    /\ listing' = rows
    /\ offeredAt' = Offering(rows, time)
    /\ shifts' = shifts + 1
    /\ UNCHANGED <<time, cached, cachedAt, clients, choices, cachedSent, requests>>

\* Nothing takes time but a fetch, which is given up in the end, and a model that thinks.
Waits(c) ==
    \/ clients[c].at \in {"idle", "thinking", "drawn"}
    \/ Client(c, "fetch") /\ time < clients[c].sent + SlowestFetch

TimePasses ==
    /\ time < LastTime
    /\ \A c \in Clients : Waits(c)
    /\ time' = time + 1
    /\ offeredAt' = Offering(listing, time + 1)
    /\ UNCHANGED <<listing, cached, cachedAt, clients, choices, cachedSent, shifts, requests>>

Choosable == UNION {Slugs(Catalogued[rows]) : rows \in Listings} \cup Static \cup {Router}

CatalogueNext ==
    \/ \E c \in Clients :
        \/ LooksAtCache(c) \/ ReturnsCached(c) \/ StoresList(c) \/ StoresTime(c)
        \/ FetchFails(c)
        \/ \E picked \in {Picked, Router} : BeginsWith(c, picked)
        \/ Rechecks(c) \/ Routes(c) \/ SendsRound(c) \/ NextRound(c)
        \/ Draws(c) \/ \E slug \in Choosable : Chooses(c, slug)
        \/ Records(c) \/ Replied(c)
    \/ \E rows \in Listings : ListingShifts(rows)
    \/ TimePasses

CatalogueSpec == CatalogueInit /\ [][CatalogueNext]_catalogueVars

-----------------------------------------------------------------------------
(* What must hold.                                                         *)

\* A round goes to a model of the table, or to one that OpenRouter offered no longer ago
\* than what is cached may be old and a fetch may take, however requests overlap on the
\* cache, unless OpenRouter could not be read.  (ranked_models, routed, resolve_model)
RoundsAreOffered ==
    \A c \in Clients : \A r \in clients[c].rounds :
        r.model \in Static \/ r.stale \/ r.lag < CacheTtl + SlowestFetch

\* Nothing on the list was measured by the same benchmarks as what is recommended and
\* is better by one of them or cheaper, and worse by none and no dearer.  (rank,
\* recommend)
Dominates(a, b) ==
    /\ DOMAIN a.marks = DOMAIN b.marks
    /\ \A i \in DOMAIN b.marks : a.marks[i] >= b.marks[i]
    /\ a.cost <= b.cost
    /\ a.cost < b.cost \/ \E i \in DOMAIN b.marks : a.marks[i] > b.marks[i]

BestIsRecommended(ranked) ==
    Recommendations(ranked) # {} =>
        \A n \in DOMAIN ranked : ~Dominates(ranked[n], Recommended(ranked))

\* The places of a field are even about its middle: whoever is placed higher for a tie is
\* at somebody's cost.  (_percentiles)
FieldAveragesFifty(ranked) ==
    \A i \in Indices :
        LET placed == {n \in DOMAIN ranked : i \in DOMAIN ranked[n].percentiles}
        IN  AddedUp([n \in placed |-> ranked[n].percentiles[i]]) = 50 * Unit * Cardinality(placed)

\* The board a request reads is a fair one.  (catalogue.py)
BoardIsFair ==
    \A c \in Clients : BestIsRecommended(clients[c].list) /\ FieldAveragesFifty(clients[c].list)

\* All rounds of a question go to one model: "the tool call and the answer that used its
\* result could come from different models" otherwise.  (agent.py:316)
OneModelAQuestion ==
    \A c \in Clients : \A q, r \in clients[c].rounds : q.model = r.model
=============================================================================
