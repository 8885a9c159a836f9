# A formal model of screener

`screener` (this repository, `stock-aggregator`) is a Python application of one database and a dozen
long-running processes: it captures live streams and transcribes them, reads social posts and news,
decides what securities they are about, ingests prices and fundamentals, and scores ~1,500
securities every night. Everything it promises is kept by short SQL statements, an advisory lock
here and there, and loops that are killed by deploys. This directory states what those loops must
keep, as TLA+ modules, checks it with TLC on small instances and proves the part of it that matters
most with TLAPS: the capture of live streams, the passes that read a corpus, the services that
collect and answer, the arithmetic of a night, and the pages that show it.

Source paths below are relative to `src/screener/` unless they begin with `migrations/` or `web/`.

- [The system](#the-system): its components and what makes each one correct
- [The modules](#the-modules): what models what
- [The runs](#the-runs): what TLC checks, with which bounds, and what it shows
- [Where the code and its words part](#where-the-code-and-its-words-part)
- [The proofs](#the-proofs)
- [What is only model-checked, and what is not modelled](#what-is-only-model-checked-and-what-is-not-modelled)
- [Plan](#plan)

## The system

Each process of `deploy/compose.prod.yaml` is a loop over the database. They do not call one
another, with three exceptions (skybird calls the transcriber, rupert the sentiment server, the bot
the API); they interact through rows.

| Component | State it keeps | Operations | Talks to |
|---|---|---|---|
| `skybird/` | `skybird.stream_session`, `transcript_segment`; in the process: one `Running` per capture, an ffmpeg and its chunk directory on a tmpfs; a session advisory lock | `create`, `request_stop`, `pause`, `resume`, `delete` by users; `tick`, `_begin`, `_connect_stream`, `_drain`, `_shed`, `_hear`, `_stumble`, `reconcile`, `shutdown` by the supervisor | dashboard and CLI through the row; ffmpeg and its list of chunks; the HLS playlist; the transcriber over HTTP |
| `rupert/` | `rupert.mention`, `reading`, `progress`, `control`, `narrative` | a pass over each corpus, `advance`, `save_mention`, `set_paused`; the panel; a paid narrative of a company's day | reads what `reddit` and `magpie` store; a paid model; the sentiment server |
| `scoring/` | `scoring_run`, `score_snapshot` and its parts; a session advisory lock | `run_scoring`: lock, `reconcile`, `open_run`, `score`, `close_run`, unlock | called by `nightly` and by its own CLI |
| `nightly/` | in the process: attempt, wake-up time, stop flag | loop, catch-up check, `run_tonight`, `announce` | `ingest`, `scoring`, a Discord webhook |
| `ingest/` | `ingest_run`, `ingest_observation`, `price_daily`, `corporate_action`, `fundamental_fact`; blobs | one transaction per security, blob first; sweeps | Yahoo through `fetch`, the blob store |
| `reddit/` | `social_item`, spans seen, `social_gap` | a pass over catch-up, repair and backfill spans, stored in banks newest first | Arctic Shift; read by rupert |
| `magpie/` | `magpie.attempt`, `document`, links | one scrape: refusals, meter, strategies, settle; links followed | robots, billed unlocker; read by rupert |
| `edgar/` | `ingest_run` as the frontier of days, insider transactions | a pass over published days, newest first | SEC |
| `universe/` | `security`, `security_symbol`, identifiers | a refresh: read sources, decide a plan, apply it in one transaction | Wikipedia, SEC, Yahoo |
| `mcp/` | clients, codes, token families | OAuth grants, refresh rotation, tools | MCP clients |
| `bot/`, `audit/` | a gateway connection; `audit.event`, off which a person's day of spend and the conversation are read | a turn of the agent and its tools, on Discord and on the web | Discord, a model, the API |
| `transcribe/`, `sentiment/` | a model behind a semaphore | one request | called over HTTP |
| `health/` | none of its own | the dashboard's API: reads, and users' statements on the rows above | `web/` |
| `screen/` | none of its own | a page of a scored night, a pinned run, one security with its metrics reproduced and checked | reads what `scoring` and `ingest` write |
| `ai/` | in the process: the catalogue of models and when it was cached; a person's choice is an `audit.event` | `ranked_models`, `choice_for`, `for_person`, `resolve_model` | OpenRouter; asked by the bot and the dashboard |
| `secrets/` | in the process: `os.environ`, and `_held`, the names that are its own and an access token | `load_into_environ`, `refresh`, `watch`; `renew` of the bot's session | Infisical; the bot's loop |
| `auth/`, `playground/`, `notify/` | sessions; a read-only role | request handlers, thin clients | |
| `fetch/` | in the process: the cooldown of each exit and whose turn it is | `acquire`, `park`, `across`; a chain of strategies | Yahoo, by way of rented addresses |
| `boot/`, `migrate.py`, `partitions.py` | `schema_migration`, the partitions of each year; a session advisory lock | `prepare_database`: lock, migrations, partitions, unlock | every container, before it serves |
| `config/`, `blobs/`, `provenance/` | an environment | configuration and I/O | |

What is hard, and what makes each correct:

- **skybird, control plane.** Users' statements land between any two statements of a tick, which
  works from rows it read at its start; supervisors crash, are told to stop, and lose their
  connection and the lock with it before they know. It is correct when the cap on captures holds
  whatever is asked for, no stream is fetched twice, the holder of the lock has a capture for every
  row that says so, a session that kills its supervisor is given up on, an ended session stays
  ended, a stop is carried out, and an ffmpeg nobody wants goes.
- **skybird, transcript.** Audio is heard late, in chunks, after rewinds, sheds, failures and
  restarts, against a clock that is a sum of all of them. It is correct when each line is stamped
  when it was said, nothing is heard twice, and what is lost is lost knowingly.
- **rupert.** A high-water mark, a batch and two daily budgets that are read off the rows. It is
  correct when nothing is skipped, nothing is paid for twice without cause, and a budget is a day's
  and not a pass's.
- **scoring.** A row and its scores are two commits. It is correct when no row lies about its
  scores, no live run is declared dead, and a dead one does not hold its date: forward-only scores
  cannot be made good tomorrow.
- **nightly.** A night is due once, by the clock and the database, over attempts, backoffs, restarts
  and midnight. It is correct when every night ends scored or said to be lost, and never scores a
  day from another day's prices.
- **reddit.** A walk goes from the newest back and is interrupted anywhere, while the mark moves with
  its first bank. It is correct when what it has not read is stored as a gap, or said to be.
- **magpie.** A fetch may be billed, by several requests at once, and a process dies between the fetch
  and the row. It is correct when the meter of a day is passed by no more than was under way, and
  documents, payloads and links are of one another.
- **edgar** and **ingest.** The rows of runs are the frontier. They are correct when a row that says ok
  is of a day that is whole, whatever was retried, and when a bar that will never be rewritten is the
  provider's last word.
- **mcp.** Codes and tokens are spent by statements of requests that overlap. It is correct when each
  grant is spent once and a second spending ends it.
- **bot** and **narratives.** A cap that is read before and written after what it caps. They are
  correct when it is passed by no more than what was under way together.
- **universe.** Companies are matched with rows by CIK, or else by a symbol that moves. It is correct
  when a security is one company's for ever and its history has one answer for a day.
- **the arithmetic.** Splits that are due on some bars, four quarters of items that each lack some,
  a peer group that is too small. It is correct when a series does not depend on when it was fetched,
  a ratio is of one period, and a percentile is among those it says.
- **screen** and **panel.** They read what others are writing. They are correct when a page is of one
  night, a restated bar raises no alarm, and the figures of a page agree.
- **fetch.** Exits are handed out in turn, parked when they refuse, and waited for when there is no
  other. It is correct when one that refused a symbol is not asked for it again on its cooldown, and
  a symbol is given up on only when every exit was tried or passed over.
- **boot.** Containers of two images start at once, one is killed in its migrations, and years are
  partitioned by hand. It is correct when no migration runs twice and a container that serves has
  its schema and its partitions.
- **secrets.** A thread beside the loop writes names one by one into an environment the loop reads. It
  is correct when the settings are those of the last answer and the container's, an empty answer takes
  nothing away, the bot's session is of the token and the guild that are set, and a login is spent only
  where a token was lost.
- **models.** Requests that overlap fetch, store and read one cache, each several times. They are
  correct when a round goes only to a model that was offered lately, and nothing better and cheaper is
  passed over.
- **transcriber** and **sentiment.** One model, a queue that gives up, batches in another order than
  the texts. They are correct when a reading is of the text it is beside and nothing is worked on
  after its caller has left.

`PROJECT.json` lists the hazards one by one, at the line where each bites.

## The modules

| Module | Lines it models | Its part |
|---|---|---|
| `SkybirdSessions` | | Abstract: the phases of a session, what a supervisor and its recoveries may do to them, and that a stop ends |
| `Skybird` | `skybird/supervisor.py`, `store.py`, `migrations/015` | The control plane, one action per SQL statement or outside call |
| `SkybirdRewind` | `skybird/capture.py`, `rewind` | Pure: how far behind live a capture starts and what it skips |
| `SkybirdTranscript` | `supervisor.py` `_begin` to `_account`, `store.py`, `capture.py` | One capture's audio, clock and lines; extends `SkybirdRewind` |
| `Rupert` | `rupert/run.py`, `rupert/store.py` | A pass over the corpora, a statement at a time |
| `Scoring` | `scoring/run.py`, `migrations/020` | `run_scoring`, a statement at a time, by any number of runners |
| `Nightly` | `nightly/__main__.py`, `night.py`, `schedule.py` | The scheduler, composed with `Scoring`: it extends it, is one of its runners and shares its lock and rows |
| `Magpie` | `magpie/run.py`, `store.py`, `acquire.py`, `server.py` | Scrapes and expansions by concurrent requests, a statement at a time |
| `Connector` | `mcp/oauth.py`, `store.py`, `protocol.py` | Grants, codes and families of tokens; the slots of calls |
| `Bot` | `bot/agent.py`, `budget.py`, `audit/` | Questions of one person on two surfaces, their memory and their cost |
| `Narratives` | `rupert/narrative.py`, `panel.py`, the handler | Two tabs that ask for the paid narrative of a day |
| `Lanes` | `fetch/lanes.py`, `universe/sources/yahoo.py`, `ingest/chart.py`, `timeseries.py` | How Yahoo is asked: exits, cooldowns, crumbs, retries, and the workers of `across` |
| `Startup` | `boot/startup.py`, `migrate.py`, `partitions.py` | What a container does to the database before it serves |
| `MCServices` | | Those six, for TLC |
| `Reddit` | `reddit/ingest.py`, `source.py`, `store.py` | The walk of one stream: spans, windows, pages, banks, gaps |
| `Edgar` | `edgar/ingest.py`, `store.py`, `source.py` | Passes over published days, and what of a filing becomes a row |
| `Ingest` | `ingest/run.py`, `load.py`, `window.py`, `parse.py`, `sweep.py` | Prices and fundamentals: windows, blobs, observations, bars and facts, and what a sweep would find of them |
| `Universe` | `universe/reconcile.py`, `load.py`, `refresh.py` | Loads of a universe whose tickers move |
| `Secrets` | `secrets/infisical.py`, `bot/__main__.py` | The settings of a process that watches Infisical, and the bot's session |
| `MCCollected` | | Those five, for TLC |
| `Figures` | `scoring/` but `run.py`'s life cycle | The arithmetic: functions, and the sums that are posed to them |
| `Screen` | `screen/`, `scoring/run.py` `read_bars` | Nights, bars that are rewritten, a reader of pages, and reproduction |
| `Panel` | `rupert/panel.py`, `reduce.py` | What the panel makes of the decisions |
| `Inference` | `sentiment/`, `transcribe/` | Requests that wait for a model, and batches of texts |
| `Catalogue` | `ai/catalogue.py`, `models.py`, the choice in `bot/agent.py` and `health/server.py` | Ranking, the cache, and the model of each round |
| `MCBooks` | | Those five, for TLC, and the sums |
| `MCSkybird`, `MCSkybirdTranscript`, `MCRupert` | | Values for TLC |
| `SkybirdProofs`, `SkybirdTranscriptProofs`, `RupertProofs`, `NightlyProofs` (and `Scoring`, `Figures`), `ServicesProofs`, `CapsProofs`, `RecordsProofs` | | Theorems |
| `Sums` | | Lemmas of numbers and of sums over finite sets, for the proofs |

The operators beside an action that are marked *Mutant* are the same action with a plausible bug;
nothing uses them in the specification. `PROJECT.json` pairs them with the property that catches
them; eight more are there to be put in by hand, for the other conjuncts of a property that has
several: `ReplayRefreshAlone` (`ReplayEndsFamily`), `Unfolded` (`CapPassedOnce`), `NarrativesOfOne`
(`NarrativesWithinReach`), `CloseTheDayBefore` (`PeriodsTileTime`), `ReturnOnNewest`
(`NoRatioMixesPeriods`), `CoverageOfPresent` (`SnapshotIsHonest`), `CutNothing` (`NoOnePostDecides`)
and `WaitsForever` (`NothingIsAbandoned`). `AccountedBelow` and `MayAskUncounted` break the ranges
that the theorems of `SkybirdTranscript` and `Rupert` keep (`InRange`, `TypeOK`).

### How state and actions correspond to the code

**`Skybird`.** The row variables are the columns (`state`, `stream`, `until` for `captured_until`,
`restarts`); `heard` stands for `captured_seconds > 0`, which decides whether a failed probe is the
end of a stream. `lock` is the backend that holds the advisory lock, `conn` what the process
believes of its connection: `LoseConnection` takes the lock and leaves the belief, `DropConnection`
is the statement that raises. `snap` is what `store.pending` returned and `todo` what the tick has
not reached; `own` and `run` are `_running`. A tick is `BeginTick`, one `Tick...` per row in order
of request, then the statements of the branch it took (`Begin`, the three results of a probe,
`Describe`, `DrainChunk`, `Stumble`, `Check`, `Finish`), and `EndTick`. A row whose capture is
between a snapshot and its statement may be changed by `User` at each of those points, which is the
point. Two abstractions: `captured_until` is the number of resumes the row had when the audio it
stands for was captured, which is all the promise about pauses needs; and a backoff may be over or
not whenever it is asked.

**`SkybirdTranscript`.** Time is a whole number of a unit; a position in the stream is the time at
which a capture that starts at the live edge on a segment boundary would stamp it. `until`,
`seconds` and `lines` are the row and the transcript; `run` is the `Running` record; `at`, `ready`
and `held` are where ffmpeg cuts next, its list of finished chunks and the backlog. `Connect` is
`_connect_stream` whole: the playlist is found to list any of `Sizes` segments, the rewind is
`SkybirdRewind`'s, ffmpeg fetches the playlist again up to `MaxLag` later. `Hear`, `HearSliver`,
`HearFails` and `HearLater` are the four ways of `_hear`; each ends where its transaction commits,
so `Crash` may come between any two.

**`Rupert`.** An item has an instant (`at`) and what the shortlist finds in it (`names`). `Begin` is
the opening of a corpus with its statements and its batch; each text is an action of its own by what
it turns out to be, `MayAsk` the two ceilings. `Dies` is an exception or a kill at any point.
`InOrder` says whether corpora grow only at their end, which is what the mark relies on.

**`Scoring` and `Nightly`.** `pc` is the statement of `run_scoring` each runner is at. The lock may
be held by a runner, by nobody, or be `Lingering`: held by a backend whose client is gone and which
Postgres has not noticed. `Nightly`'s `stage` is the place in `main`, `_tick` and `run_tonight`;
each reading of the clock is a step of its own. `Prices` fetches and calls `run_scoring`, and
`Returned` reads what it returned or raised.

**`Reddit`.** Items are the instants they were posted at. `walk` is the generator and its consumer
together: the window that is asked for, the page, the bank, and the spans that are left. A refusal
narrows the window, a timeout is a refusal, and `Spans`, `OpenSpan`, `LeaveSpan` follow `_walk`.
`SpanFails` is the whole of its `except`: what is left of the span is written down, or the whole of
it. `trouble` remembers what went wrong, so that a property can say of which troubles it holds. The gaps of a stream are walked in the order of
their ends, and of two that end together either may come first, as `order by` leaves it.

**`Magpie`.** A request is a thread: `asked[r]` is where it is in `scrape` or `expand`. `MeterRead`,
`BeginAttempt`, `PageFetched` or `NotFetched`, `SettleUnkept` or `PutPayload`, `SaveDocument` and
`SettleKept` are separate statements; a restart takes every thread and then settles what was left
(`MagpieRestarts`). `billed` is a ghost: what a provider was in fact asked to fetch for money.

**`Edgar`.** A filing has parties and rows of two tables; `ParseFiling` is which rows of which party it
becomes. A pass is a sequence of days, a day a sequence of filings, kept in batches; `edgarRuns` is
`ingest_run` by day. `okFor` is a ghost: what SEC had published when the row of a day became ok.

**`Ingest`.** `yahoo` is the provider: it has a bar for a day once it is over and may revise those of
the last `RevisedFor` days. A run takes the securities in turn: window, fetch, blob, and the
transaction that writes observation, bars and facts. `blob` is the store, by path. A sweep writes
nothing, so it is not an action: `Mismatches` is what it would find at any state.

**`Connector`.** A thread of a request is at the statement it is at. `grant` is the table of codes,
`token` that of tokens with their families; `Issuing(f)` are the threads between a claim and the
successor it earns. `permitted`, `replayed` and `raced` are ghosts.

**`Bot`.** One person has two surfaces; a question goes from its check (`Checks`) over what he recalls
(`Recalls`) and rounds of tools to the row of its cost, and the row may not get written (`Blinks`).
`bill` is a ghost: what was charged, by instant.

**`Narratives`.** A tab asks, the count of the day is read, the model is paid, the row is saved unless
there is one.

**`Lanes`.** A pool belongs to one of its clients, or to a caller of `across`, from the start. `quest`
is the symbol that is being asked for: its attempts, the backoff it has come to, its lane and whether
its crumb was had again. `Attempt` is the head of the loop with its wait, `YahooRefuses` the 429 with
the `park` and the `acquire` after it. `crew` is a call to `across`: where each worker is on its stripe,
what has a result, who has failed. `refusedBy` and `passed` are ghosts: the lanes that refused this
symbol, and those on cooldown when another was chosen for it.

**`Startup`.** `applied` is `schema_migration`, `attached` the partitions, `holder` the connection with
the lock, `boot` what each container has read and has still to do. The list of migrations is read once
and applied one transaction at a time; a year is two halves, so that a partition by hand can cover one
in part, which is enough for the code to leave it alone. `byHand` is a ghost: the years an operator has
taken on himself. A container may die at any point, and its connection and lock with it.

**`Universe`.** `listed` and `csv` are the world and the file of it: companies list, delist and take
another's ticker. `Load` is `plan` and `apply` whole, which are one transaction; the new securities of a
load are numbered in the order of the file, which may be any.

**`Figures`.** It has no processes: a sum is posed and worked, and the properties compare what was
worked with a definition of what it should be, written without looking at the code's.

**`Screen`.** Writers of bars stamp them when their transaction begins and commit later; a night reads
bars in one transaction and commits its snapshot in another; a reader turns pages of the run it
resolved first. `Check` is what `explain.py` says of each metric of a stored night when it is asked now.

**`Panel`.** Mentions are decided one at a time over some days; every figure is a definition over them.

**`Inference`.** `minute` is the clock that patience is measured by; a model is held from `Takes` to
`Answers` or `CannotAnswer`. A text is its length, and a reading the position of the text it is of.

**`Secrets`.** One thread reads, `main` while it loads and the watcher afterwards, and `poll` is where it
is: at the login, at a reading with a token that was kept or one just had (`fresh`), or writing. `owned`
is `_held.owned`; `access` is the token that is held: to be used once, usable, or revoked by Infisical
without a word. `Writes` is one name, and the loop may read between two; `Tells` is `changed`, which queues
`renew` on the loop; `Renews`, `Reconnects`, `StaysDown`, `Stops` and `SessionEnds` are `_serve`. An answer
is what Infisical has, or nothing at all. `told`, `gone`, `logins` and `lapses` are ghosts. Values that are
no text are left out.

**`Catalogue`.** A request is where it is in the cache (`look`, then `return` or `fetch`, `stamp`), what it
reads it for (`recheck`, `use`, `round`, `choose`), and the list it has. Only a fetch takes time, and a
listing is answered as it was when asked. The list and its time are two assignments, so two actions. A
question reads the catalogue to believe the choice, to route it, and for each round whose model is not
in the table. A choice is a row of the audit trail, which may not get written. Prices are whole numbers,
percentiles are counted in sixths and means are compared as fractions, so ties are ties. `offeredAt` and
`cachedSent` are ghosts: when a model was last offered, and when what is cached was.

## The runs

The passing runs are nine; between them they fire every action.

| Run | Module | Shows | Distinct states |
|---|---|---|---|
| `sessions` | `MCSkybird` | `CapHolds`, `NoOrphan`, `RestartsBounded`: two sessions compete for one place under two supervisors | 1.4 million |
| `promises` | `MCSkybird` | `KeepsSessionPromises` (`SkybirdSessions` as a property, `EndingEnds` included), `FfmpegGoes`, `NoClockAcrossPause` | 158 thousand |
| `manifest` | `MCSkybird` | `OneManifest`: two sessions of one stream, places for both | 255 thousand |
| `clock` | `MCSkybirdTranscript` | `StampsHold`, `NextIsFree`, `ClockCoversLines`, `SeamsAsPlanned`, `NoSilentHole`, `BacklogIsHeard` | 3.8 million |
| `rupert` | `MCRupert` | `NothingSkipped`, `BudgetsHold` (the meter of calls and the ceiling of money), `DecidedOnce` | 3.6 million |
| `night` | `Nightly` | `HolderIsAlone`, `OkIsWritten`, `OutcomesAreFinal`, `NothingIsWedged`, `NightsEnd`, `ScoresWhatItFetched` | 3.4 million |
| `services` | `MCServices` | `GrantsAreSpentOnce` (mcp), `CapsHold` (magpie, the bot and narratives), `LanesAreShared` (fetch), `StartsWhole` (boot) | 2.0 million |
| `collected` | `MCCollected` | `NoHoleUnwritten`, `OkIsWhole` (reddit), `OkDaysAreWhole` (edgar), `BarsAreTrue` (ingest), `HistoryIsOfOne` (universe), `SettingsAreFollowed` (secrets) | 1.7 million |
| `books` | `MCBooks` | `SeriesIgnoresFetches`, `NoRatioMixesPeriods`, `PlacesAreHonest` (arithmetic), `ScreenIsTrue` (reproduction and pages), `PanelIsSound`, `ReadingsAreTheCallers`, `RoundsAreOffered`, `BoardIsFair` (models) | 418 thousand |

`services`, `collected` and `books` put components together that share no row that one of them writes and
another reads: a behaviour is of one of them, which is chosen at its start, so the states of a run are the
sum of theirs and not the product.

The modules with theorems state what their variables range over there, and prove it (`TypeCorrect` and
its like); no run spends itself on it.

### Bounds, and why they are enough

- `sessions`: two sessions, one place, two supervisors, one fault. The hazards of the cap are between
  two rows; those of the lock between an old and a new holder, and one fault makes an old one. A
  restart bound of 0 makes giving up reachable with that fault. The supervisors are symmetric: no
  action tells them apart, and every property of the run is an invariant.
- `promises`: one session, so that liveness can be checked; two supervisors, one fault, one resume
  and one restart, so that a capture may be requeued, paused and resumed in any order. No symmetry,
  because liveness is checked.
- `manifest`: one supervisor, because the property is of one process; two places, so that the cap is
  not what prevents the second capture.
- `clock`: segments of two units, chunks of three, so that neither divides the other and a chunk may
  be cut in a segment; a sliver of one unit is shorter than `Audible`. A playlist lists nothing or
  five segments, so that a gap may be within reach, beyond it, and unknown. Two faults are an exit of
  ffmpeg and a restart, or two of either. Seven units of stream are two chunks with a gap between,
  and the audio that is listed ahead of now is another. The backlog is bounded at two and one chunk is
  heard per poll, so that shedding, the allowance and a crash with a backlog all happen. The chunk is
  three units and the loss that is reported three: the proportions of 15 s chunks, 5 s segments and a
  5 s threshold, not their values.
- `rupert`: two corpora, of three items and one, batches of two, so that a batch leaves something
  behind; a budget of two calls and of two units, prices of one and two, so that either may bite
  first; two days, so that a pass may run over midnight; one death.
- `night`: two days, an hour that is not midnight, two attempts, the scheduler and one other runner,
  two run rows and two faults: a lost connection and a death, or two of either.
- `services`: **magpie**, two requests for one page, a meter of one, three attempts in all, one restart:
  two may read the meter before either spends. **connector**, two threads, one login, one client, two codes,
  two tokens: a family, its successor and a replay, or two families. **bot**, two questions under way and
  three in all, a cap of one and a model that costs two. **narratives**, two tabs, three companies, a cap of
  one, two days. **lanes**, two exits, three spare attempts, two symbols and nine seconds: both lanes can
  refuse, be waited for and refuse again, and an ask run out of attempts; five items, so that stripes are of
  unequal length. **startup**, two containers and three boots, images that share a migration and have one
  each, two years and a headroom of one.
- `collected`: **reddit**, three instants and two before them, pages and banks of two, a window of four
  that can narrow to one, two troubles: one to leave a gap and one to interrupt its repair. **edgar**, four
  filings of two companies on two days, one with two parties, batches of two, two troubles, two attempts.
  **ingest**, one security for five days with a settling window of three, one revision, one trouble, three
  runs: a bar can settle, be revised, and be missed. **universe**, two companies, two tickers, two
  industries, three loads on two days, so that a company may be renamed, leave and come back; a ticker is
  not taken over by a new company, and every CIK is found (below). **secrets**, three names, of which the
  container sets one and the session is of the other two, two edits, one lost token, two boots: an edit may
  fall in two answers, and a token be lost before or after one.
- `books`: **figures**, the sums of `MCBooks`: series with a split and a dividend on either side of each
  fetch; six quarters of which one item has any and another all or all but one, with and without a year's
  figure, a split after the last of them and a bank; losses, no price and negative equity; peer groups of
  one to four; pillars present, absent and weightless. **screen**, two nights, two reports, four moments, a
  settling window of one, pages of one of two securities, and ingest in order with scoring
  (`MCBooks_alarm.cfg` has them overlap). **panel**, three mentions of two companies over three days.
  **inference**, three calls in all, of two clients and two servers, batches out of order, with blanks and
  over the limit, seven minutes. **catalogue**, two requests that overlap, a cache that is old after one
  unit and a fetch that may take one, a choice that is good for two, two units in all; lists of three and
  seven rows, one change of list, one choice, two rounds, one shown row. With three requests, so that a
  choice is followed by two questions, it passes too.

Every counter is bounded by a constant the module names as a bound (`Horizon`, `MaxFaults`,
`MaxResumes`, `MaxRuns`). In `clock`, `night`, `services`, `collected` and `books` time may end with nothing
left to do, so deadlock is not an error there; in the others it is checked. Symmetry is of supervisors in
`sessions`, of threads in `services`, of companies in `collected` and of calls, mentions and requests in
`books`: no action tells them apart and every property of these runs is an invariant.

### Fairness

Only `Skybird` states any: weak fairness of `Supervise(s)`, the steps a supervisor takes of its own
accord. The loop justifies it: `serve` polls for ever, a probe and an HTTP request have timeouts, a
SQL statement returns or raises, and the container restarts when it is down (`restart:
unless-stopped`). Weak fairness is enough because some step of a supervisor that is up is always
enabled, save when another holds the lock. Nothing is asked of users or faults, and faults are
bounded: with endless crashes nothing ends. `EndingEnds` needs it, for a stop waits for a tick, and
`FfmpegGoes` for the same reason. The other modules claim no liveness: their horizon would make it a
statement about the bound.

## Where the code and its words part

Three runs end in a counterexample, each to one sentence of a comment, a docstring or a design
document. Their TLC traces are short and read as tests.

- `end`: "Not torn down while chunks are still waiting to be heard" (`supervisor.py:363`). Whether
  ffmpeg runs is asked after its chunks were taken; one that exits in between loses its last.
- `skip`: "a high-water mark only means anything if nothing is ever skipped" (`rupert/store.py:169`).
  Items of one instant cut by a batch, and items stored late with an earlier instant, are skipped.
  The `rupert` run shows the same property holds when corpora grow in order.
- `trace`: "Every score traces back to the stored response" (`docs/specs/2026-09-05-price-ingest.md:33`).
  The path of a payload is its source, endpoint, day and security (`blobs/paths.py:20`), so a second
  attempt of one day that finds another payload writes over the first one's (`ingest/run.py:172`).

Nine more configurations, which are not runs of `PROJECT.json`, end in a counterexample too. Each is the
place where a passing property had to say what it does not hold of:

| Configuration | Property | What the code does |
|---|---|---|
| `MCSkybird_pause` | `PauseIsKept` | "A pause or a stop that lands while the probe is out is somebody's decision, and the probe coming back must not quietly undo it" (`skybird/store.py:359`): `describe` keeps that, `finish` (`:473`) does not |
| `MCSkybird_resume` | `ResumeStartsAtLiveEdge` | A resumed capture "starts at the live edge instead of rewinding into the stream" (`skybird/store.py:438`); `_begin` takes the clock from the row as the tick read it (`supervisor.py:250`), so a pause and a resume between the read and the claim do rewind |
| `MCSkybirdTranscript_nul` | `CountsWhatLands` | `append_segments` "Returns how many landed" (`skybird/store.py:616`), but numbers lines before it drops those empty without their NULs: the next seq may be taken and a line vanish |
| `Nightly_unsure` | `AsksAgainTonight` | When the database cannot be asked, "`is_due` is still true next pass" (`nightly/__main__.py:145`), and the next pass is tomorrow |
| `MCCollected_hole` | `BatchFailureIsWritten` | The failure of a bank "widens the gap to the whole span" (`reddit/ingest.py:289`), but that of the last bank, after the generator has ended, is past the place that does |
| `MCServices_forget` | `NewChatForgets` | New chat "clears what he remembers" (`bot/agent.py:405`), but a second question asked before the first is answered, or a retry, is not the first of its chat (`web/lib/steven.tsx:166`) and recalls the chat before |
| `MCBooks_alarm` | `NoFalseAlarm` | A bar whose transaction began before a night and commits after it was read carries an instant that reproduction takes for seen (`screen/explain.py:84`): the night looks wrong |
| `MCBooks_rounds` | `OneModelAQuestion` | "`model` is resolved once by the caller and passed down", as otherwise "the tool call and the answer that used its result could come from different models" (`bot/agent.py:316`). `complete` resolves what it is passed again, at every round (`ai/openrouter.py:109`), and one that has left the catalogue since is the default |
| `MCCollected_pass` with `TickersReused` and `CiksMissed` TRUE | `NeverMerged` | A departed company's ticker that another company took, one without a CIK, is matched by symbol (`universe/reconcile.py:75`) and goes on with its row |

Three more properties fail in the same way when they are added to the invariants of the runs `services`
(the first two) and `books`:
`NothingPaidForNoPage`, as a page that turns out not to be one only after the billed rung is settled
without strategy or cost (`magpie/acquire.py:141` raises `NotAPage` "before anything is paid for", `run.py:157`
settles it); `LinksAreOfThePage`, as the text of an address may be replaced by another request between
the reading of its page and the saving of its links, and the stamp says they are read
(`magpie/store.py:391`); and `SeriesIsTotalReturn`, as a dividend that is paid after a split is measured
against the close before it, which may have been fetched before that split and so be in other shares
(`scoring/adjust.py:93`); `SeriesIgnoresFetches` excepts it by name (`OneScale`).

## The proofs

TLAPS checks the following for every value of the constants that satisfies the named assumptions of
their modules: ids and bounds are naturals, those that divide or are counted down to are positive, and
`Nobody` and `Lingering` are no process; a settling window is longer than the provider revises for
(`IngestAssumption`, which `window.py` relies on); items and prices of Rupert are finite, because they are
added up (`CorporaAssumption`, `NumbersAssumption`); what is heard of a chunk is a row of lines, each
with words or with nothing but NULs (`UnitsAssumption`); the threads that ask, of the bot, Magpie and
narratives, are finitely many and at least one, and a question has a round (`BotAssumption`,
`MagpieAssumption`, `NarrativesAssumption`); a filing has its two tables, each a row of lines that carry a
code or do not (`EdgarAssumption`); the names a session is begun with are settings, its token one of them
(`SecretsAssumption`); what stands for no CIK is no company (`UniverseAssumption`); a batch of texts is a
sequence of lengths, and a server's wait and its slowest request are together within what its client
waits (`InferenceAssumption`, which the comments on `TIMEOUT_SECONDS` ask for); the securities that are
scored are finitely many, because they are ranked (`ScreenAssumption`); what a sum ranks and blends is
finite, its percentiles have denominators and every pillar has a metric, and what is held of a company is
finite with one item of a code, type and end, which is what `read_facts` selects by; a security's bars are in the order of their days,
its actions finite and none later than the day of the run, as `read_actions` selects them, and of
positive amounts, as `_factor` drops the others (`FiguresAssumption`); mentions and
companies are finite, because they are counted, and the floor under a tone is no lower than what a cut of one
takes, as ten is for a tenth (`PanelAssumption`); and a cache is
good for a while (`CatalogueAssumption`). No other set need be finite. Six theorems
assume more, in their statement. Of four a run shows what happens without it: `NothingIsSkipped`,
`SeqsAreFree`, and `NothingLooksWrong` with `ShownIsTrue`, which are of nights that do not read beside a
writer that has begun (`MCBooks_alarm.cfg`). `HistoryOfOne` and `SecuritiesAreNotMerged` are of a refresh
that finds every CIK, the second where no ticker is reused besides: these are the constants `CiksMissed`
and `TickersReused`, and `NeverMerged` fails when both are TRUE.

**`SkybirdProofs`.** `TypeCorrect`, `CapIsKept`, `ManifestsAreDistinct`, `NothingIsOrphaned`,
`ClocksArePaused`, `RestartsAreBounded`. None is inductive alone. `IInv` adds what the code
relies on without saying it:

- `LockInv`: the lock is held exactly by the process whose connection is open, so "working" and
  "has the lock" are one fact even though the process does not know;
- `RestInv`, `CurInv`: outside a tick nothing is in hand; a session being worked on has left `todo`
  and is in the roster;
- `SnapInv`: a row that was not captured in the snapshot is not captured now. Only the holder claims
  rows, so a stale snapshot errs one way; that is why `NoOrphan` holds although ticks are stale;
- `CapInv`: strictly below the cap between the test and `_begin`;
- `SinceInv`: a captured row was begun after its last resume, so the chunks of a capture that is
  accounted for never restore an older clock (`NoClockAcrossPause`);
- `StreamInv`: what a process has in hand was live together, so the unique index on live rows
  makes its streams distinct, now and for what it already captures;
- `RestartInv`: what the holder has in hand has not been given up on.

`Invariance` is one lemma per action, each preserving the conjuncts it can disturb.

Then the refinement. `SessionsRefined == Spec => Sessions!Safety`: each action of `Skybird` is a
step of one session's phase, a recovery, or a stutter. It needs `IInv`: the tick's branch that
fails an unowned row would not refine anything, and `NoOrphan` is why it is never taken.

**`SkybirdTranscriptProofs`.** First the arithmetic of `rewind` for every gap, playlist and limit:
`StartIsListed`, `RewindIsBounded`, `NothingIsHeardTwice`, `SeamIsShort`. Then one capture, whatever
the lengths of chunks and segments: `LinesAreStampedTrue`, `OneClock`, `ClockIsPastTheLines`, and the
action properties `SeamsAreAsPlanned`, `HolesAreSaid`, `RewoundIsHeard`. `ClockInv` is what they rest
on, and says how the parts of a capture fit together:

- `BacklogIsARow`: what is held and what is ready are one stretch of the stream cut in chunks, from
  the audio that is accounted for next to where ffmpeg is;
- `ClockIsThere`: the clock of the connection stands where that stretch begins, to within a segment;
  the row's stands with it, or, at a seam, as far behind as the plan says was skipped;
- `AllowanceIsEnough`: what is left of an allowance covers what is left of the backlog a rewind
  brought, so that only what came later can be shed;
- `LinesAreTrue`, `ClocksAgree`, `NothingLeftOver`, `InRange`: lines lie before the clock and within a
  segment of where they were said; nothing is held of a capture that is not.

Steps are of two kinds, `Quietly` (the clock stays) and `Accounts(n)` (the oldest `n` chunks are
accounted for, heard or shed), and most of `ClockInv` is proved of the kinds and not of the actions.
`SeqsAreFree` assumes that every line says something once its NULs are gone (`AllSaySomething`); without
it `next` runs ahead or behind, which `MCSkybirdTranscript_nul.cfg` shows.

**`RupertProofs`.** `RupertTypeCorrect`, `MeterIsHeld` and `CeilingIsHeld`, together `BudgetsAreHeld`, from `BudgetInv`: the budget in
hand and the calls on the rows of the day are together no more than `MaxCalls`, and the bill a pass
keeps is no less than what the rows of the day add up to. Both are sums over rows that change one at a
time, which is what `Sums` is for. `PaidForOnce`, from `MarkInv`: while no pass has died, what is
decided is behind the mark of its corpus or behind the pass, and is not among the texts to come.
`NothingIsSkipped`, where a corpus grows only at its end (`InOrder`), from `SkipInv`: besides what the
pass has passed (`PassedIsDecided`), `LeftIsAhead` says that what it did not read into its batch and lies
before a text of the batch is decided already, so a batch may end anywhere.

**`NightlyProofs`.** First `Scoring`: `ReconcileIsSafe`, `OkRunsHaveScores`, `OutcomesStand`, `DatesAreNotWedged` and
types, for any number of runners, runs and faults. `IInv` says the lock and the connection agree with
the statement a runner is at (`LockInv`), a runner inside has one running run and it is its own
(`MineInv`), and what is about to be closed ok is written (`WrittenInv`). The two action properties
follow: a step that changes an outcome is by the holder, on its own run, or a reconcile.

Then the night. Each step of the scheduler is a step of `Scoring`, a stutter of it, or a fault
counted, so `NightKeepsRuns` carries `Scoring`'s invariants over without proving them again.
`NightsAreAccountedFor` and `NightsScoreWhatTheyFetched` add that a runner's run is of the day it was
asked for (`DayInv`), that a night is past its hour and in scoring as long as its runner is
(`NightInv`), and that "scored" is told only of a day that is (`ToldInv`).

Last, `Figures`: `PlacedHonestly`, of any sums. The securities of a bucket are below, as high or above
(`ThreeParts`), so a percentile that was counted from below is also one counted from above, which is what
a metric that is better low asks for (`PercentileIs`). A snapshot is a mean of means of fractions. Of a
fraction and a weight, `Lean` says by how much it is above so many times a third number, without dividing;
leanings add up when fractions do (`LeanAdds`), so a total leans the way all of it leans (`TotalLeans`),
and a mean, which does not lean from itself, cannot be above all it is of, nor below. That the least
coverage exists (`LeastFraction`) is what makes it 1 only if every pillar's is.

`PeriodsAreOne`, of any items held and any day: a ratio of flows is of one annual end, or of four quarters
in a row, that all it is of were reported at, and a return is on an equity of the last of them.
`FourInOrder` puts four ends in order by taking the first of what is left, so that the bounds between
neighbours bound the whole (`FourAreAYear`); `ReportedIs` that reading a code off by date and adding is
adding up the items themselves, because an end names one item of a code (`SumRenamed`, in `Sums`); `RatioIs`
goes through the formulas once, for what each takes of its flow and its balance.

`SeriesAreTrue`, of any bars, splits and dividends: a series is the total return of its security in
shares of today, of which nothing is of when a bar was fetched. Two products are compared: one that runs
back over the bars, of what each dividend took of a close as it was fetched, and one over a set, of what
it took of what was traded. That a product of fractions is the same in any order is proved of the fold
(`ProductOver`, `ProductJoin`), and that products of equal fractions are equal though they are written in
other numbers (`ProductAlike`). `AheadIs` turns the running product into that of what is still ahead, by
the bar nearest the end at which it would not be. `DividendsAlike`: a dividend takes as much of both, and is
dropped from both or neither; here `OneScale` is needed. `PriceIsAlike`: the splits a bar was quoted after
and those that are due on it are all the splits since it was traded, each once.

**`ServicesProofs`.** Six services, each under its own specification.

*Connector.* `GrantsSpentOnce`, for any threads, logins and bounds, from `ConnectorInv`
(`GrantsKeepTheirEnds`). The count in `OneSuccessor` is not inductive: it does not say that a family
nobody owns yet is empty. `FamiliesAreBought` says that every family, whether a token has it, a
thread that is issuing or a replay, is of a spent code, so the thread that spends a code starts from
nothing; `OneEnd` says that a family ends in one token or one thread and never both, so a thread that
saves a token takes its place; `EndedFamilies` says that a family that was ended while nobody was
issuing has nobody issuing since. Most steps are `Quiet`: they spend nothing, issue nothing and unsay
no replay, and one lemma does for all of them. The four that move an end have a lemma each.

*Lanes.* `LanesAreSharedOut`, for any number of exits and attempts, from `LanesInv`. `CooldownsAreWaited`:
no cooldown this symbol brought ends later than the next wait, because the wait doubles. `TurnsAreTaken`:
as many lanes were had as there were refusals, one more where one is in hand; counting back from whose
turn it is, so many lanes are accounted for, as refused, passed over or in hand. Turns are taken modulo
the number of lanes, and the lemmas of that arithmetic come first. `CrewInv`: a worker has left nothing
of its stripe behind.

*Ingest.* `PricesAreTrue`, for any securities and windows, from `IngestInv`: what is held has no hole and
ends before today, and agrees with the provider up to what it may still revise (`StoreInv`); a window
starts no later than the first day not held, nor than the settling cutoff (`StartsAreEarly`); and an
answer in hand is of today, from that start on (`AnswerIsToday`).

*Startup.* `StartsAreWhole`, for any containers, images and years, from `StartupInv`: who is between the
lock and its end holds it, so that what it read is still so (`LockIsHeld`, `TodoIsTheRest`), and the years
it has passed are covered (`PassedIsCovered`). That a partition is of one year or within one a hand made
(`PartitionsAreKnown`) is what makes "some partition overlaps this year" mean that it is covered.

*Reddit.* `OkPassIsWhole`, from `RedditInv`: of the span at hand, all that is missing lies before the
frontier and all from the cursor on is had; and of a page that is not short, what is missing of its
slice lies before all of it (`HeadOK`). What was asked for first is had, is being walked, or the pass
has failed (`FirstOK`). `RefusalsLeaveNoHole`, from `QuietInv`, while the mirror does no more than refuse:
every span ends at an item, or now (`Anchored`), so whatever a bank puts between two items was between
two before, or lies in the span at hand, which has a frontier and is written down when it fails
(`HolesCovered`); a gap that is dropped was walked, or another says what is left of it (`DropOK`). The
property is of what the rows say between passes, the invariant of what they say in them too; a kill,
a bank that cannot be written and a short stretch that is queued are excepted, and
`MCCollected_hole.cfg` shows the second.

*Edgar.* `OkDaysHaveAll`, from `EdgarInv`. Of the day at hand, what a filing became is in one of three
places (`Gathered`): the rows it was parsed into, the batch, or the table; and a filing the day owes, one
that is indexed under a company of the universe and could be read, is to be read still or gathered
(`PassOK`). So a day comes to `ok` only with everything stored. That it stays so is `OkIsStored`: rows of
insiders are never taken away, and a day that was ok is walked no more. That filings of companies
outside leave no row is inductive with the universe, which only grows.

**`CapsProofs`.** `CapsAreHeld == Spec => []CapsHold`, of the services together: `OfEach` says that what
all of them do is, for each, its own steps or none. The three caps are read in one statement and
passed in another, and each is kept by one sum, of what is on the rows and what has been let in:

- `NarrativesInv`: of a day, the narratives that are stored and the tabs that are writing one are fewer
  than the cap and the tabs together. A tab passes the cap while it is itself in neither;
- `MagpieInv`, `BilledInv`: the same of the attempts that were paid and the requests that may pay, and
  every billed fetch has its attempt, whatever restarts settle or leave unsettled;
- `BotInv`: two facts, as the cap is on money. `Accounted(w)`: since any instant `w`, what was billed is
  no more than what the trail says, what those under way have been charged, and a fare for each row that
  could not be written. `Reserved`: what was billed in the last day, and of each question that is
  let in the part of a fare it was not charged yet, stay below the cap and a fare for every thread and
  every row that could not be written. `Accounted`
  has to be said of every instant, because the day a question looks back on moves between its check
  and its last round; and a fare is `ToolRounds` of the dearest model, because a person may change
  model under way.

**`RecordsProofs`.** What a process, a company, a model, a night and a decision are recorded as; six modules, each
under its own specification.

*Secrets.* `SettingsFollow`, for any names, values and number of edits. Of the four parts of
`SettingsAreFollowed` none is inductive. `OwnedIsSet` says what a process calls its own is what is set and
the container did not set, so every other name is the container's word or nobody's;
`WritesWhatIsSaid` and `DiffersUntilWritten` that what is to be written is what the answer says and all
that differs from it, so nothing differs when the writing is over; `AnswerIsFull` that a name Infisical
was never without was in the answer, unless the process was never told; `SessionIsToldOf` that a setting
the session was not begun with is among the names that changed or the loop is told, through every
point at which the loop may read; `LoginsAreOwed` that a usable token is one login more than tokens
were lost, and that a process logs in only without one.

*Catalogue.* `RoundsOffered`, for any listings, any number of requests and any times, from `CatalogueInv`. `CacheIsTimed`:
what is cached was listed no further from the time beside it than a fetch may take, also while one
request stores its list and another its time; `ClientIsTimed` says of each request, wherever it is, how
old the list it relies on may be. Time passes only while none of them reads.

*Universe.* `PeriodsTile`, for any companies, tickers and files, from `UniverseInv`. `Tiled` says it of any
rows with a day each security was first seen: the last row is open, no two are of one day, and every day
since has one. A load shuts the open rows of what changed on its day and opens others on the same day
(`MovesOn`), and `TilesStay` says that this keeps a tiling, once for symbols and once for sectors; what is
left of each proof is that `Load` is such a move, and that none is attempted of a day before an open row.
`HistoryOfOne` adds `CiksAreKnown`, by which a file's row matches the security of its own company, and
`SecuritiesAreNotMerged` adds `SymbolsWereHad`: what a security is known by its company has had, and
nobody else.

*Inference.* `NothingAbandoned`, from `TurnsAreTimed`: a request waits within its server's limit, and is at
work within the slowest one of when it began. `ReadingsReachTheirCallers`, for batches of any texts,
needs what the functions compute. `PlacesAreOwn`: in a strict total order of a finite set, as many come
before each as its place is, and no two have one place, so `InTurn` is a row of all of them, each once
(`RowPicked`). `StepByStep`: what is worked out of one state by one step after another exists, which is
the recursive function `plan` (`Planned`). Then every text is in some chunk (`PlanHasAll`) and stands in
the row the chunks make (`FlatHasAll`), so `Run` finds it there (`RunIs`) and `PutBack` puts it where it was
asked (`PutBackIs`). `ChunksFit` is an induction along the same plan: a text is only added to a chunk
that holds it (`FitsWithOneMore`), which is why a request does not get the container killed.

*Screen.* `NothingLooksWrong`, from `AlarmInv`: a night is made of what is seen of its day still, or says that
one of its bars was written since (`IsOf`). That a later write keeps this needs it stamped after the night
began, and that one that came before it was read is why nights read alone (`NightsAreAlone`).
`PagesNeverMix`, from `PagesInv`: the order of a night is one (`OrderExists`: there is such a row, and the
one that is chosen is a row of all that are scored), and what a reader has seen is a beginning of it
(`Shows`), which a page from there on continues. Nights are only added, so the run he is pinned to is
what it was.

*Panel.* `PagesAreSound`, of every state in which decisions have their types. The chart adds up because its
days share no decision (`SumOfParts`, in `Sums`). `LoudestIsCut`: when one reading is above the rest, its
place is the number of all, wherever above them it is, and everybody else's place does not look at it; one
is cut from that end, as the floor is no lower than `TrimOf`, so what is kept is the same, and it is not in
it.

**`Sums`.** A set of naturals that is not empty has its least (`LeastOf`), by the well-foundedness of
`<`: the least counterexample, told of a set and not of a predicate, is induction in the form the
provers can use. From it, that the fold `MapThenSumSet` over a finite set is what its recursion says,
that it moves by one term as the set does by one element, its bounds, and that it adds up over sets that
share nothing.

## What is only model-checked, and what is not modelled

Only model-checked:

- liveness (`EndingEnds` within `KeepsSessionPromises`, `FfmpegGoes`): TLAPS does not do `ENABLED`,
  so a proof from weak fairness is out of its reach;
- `BoardIsFair` (models): it is of a list that was filtered and sorted by an operator it is passed
  (`SelectSeq`, `SortSeq`). The provers have no induction over data, so what either returns for every list
  has to be turned into a least counterexample first, as `Sums` does for finite sets, and the library says
  nothing of them that can be cited.

No module declares a recursive operator. Sums and maxima are folds of the community modules.

Not modelled, with the reason, beyond what `PROJECT.json` says per component:

- what a model says: decisions, transcripts, tones, narratives. The models say whether there is an
  answer, not which;
- text: extraction, prompts, prices as strings, URLs, wording and layout;
- in skybird: the page embed, error texts, and the two ways an unreadable chunk file is counted; the
  moment after a lost lock in which two processes run ffmpegs is in `Skybird`, and its properties are
  of one process or of the holder;
- in rupert: readings and when they are written, and the dates between which a resolved mention is
  valid;
- in nightly: the `NIGHTLY_ENABLED` switch, a trigger hour that is changed while it runs, and the
  length of a backoff;
- in ingest: corporate actions beside bars, and malformed payloads, which count as answered
  (`ingest/run.py:231`);
- in edgar: a filing that cannot be read is skipped and its day is ok (`source.py:312`), which
  `OkDaysAreWhole` excepts by name;
- in the arithmetic: rounding (fractions are exact), the currency that explains an absence, and the
  least specific level of a snapshot;
- in the bot: its tools, voice, Discord commands, hand-off to the dashboard and the decision that a
  message is for it;
- pure I/O and third parties: Yahoo, SEC, Reddit's archive, Discord, HLS beyond the playlist's
  length, the password of the playground's role (`boot`), the chain of strategies of one fetch,
  and the web front end.

## Plan

In order; each extends what is there.

1. **Proofs**: what `SelectSeq` and a sort return, as lemmas, which `BoardIsFair` would rest on.
2. **Reddit under Rupert**: the two composed, `Reddit`'s banks in the place of `Arrives`, to say which
   items a mark skips rather than that some may be; and the readings of resolved mentions.
3. **An abstract specification of a walk** (the instants that are covered or known to be missing, and
   nothing else) that `Reddit` and `Edgar` both implement.
