# A verification of the Polymarket market scanner

TLA+ models of the scanner in `src/app`, the TLC runs that check them on small
instances, and TLAPS proofs of what matters most about them for instances of
every size. Section 1 is the inventory, 2 the plan, 3 describes the modules, 4
the runs, 5 the fairness assumed, 6 the proofs, 7 what disagrees with the
documentation, 8 what is not modelled.

## 1. Inventory of the system

The program is one Python process: a FastAPI application whose lifespan owns a
`ScannerRuntime`. Everything the runtime does runs on one asyncio event loop;
the HTTP handlers are plain functions (`def`, not `async def`) and run in a pool
of threads. SQLite is called synchronously from both.

### Components

| component | state | operations | talks to |
|---|---|---|---|
| scanner runtime (`runtime.py`) | `markets`, `books`, `results`, `fee_reasons`, `status`, its tasks and a stop event | `start`, `stop`, `_market_loop`, `_book_loop`, `refresh_geoblock`, `refresh_markets`, `refresh_books_and_scan`, `handle_websocket` | all of the below |
| HTTP client (`clients/http.py`) | a semaphore, a connection pool | `request_json` (three attempts, backoff), `close` | Gamma, CLOB, geoblock endpoints |
| API clients (`clients/gamma_client.py`, `clob_client.py`, `geoblock_client.py`) | none | `fetch_markets` (keyset pages), `fetch_books` (batches of 500), `fetch_fee`, `check` | HTTP client |
| market web socket (`clients/websocket_client.py`) | `tokens`, `connected`, counters, `_seen`, a stop event | `set_tokens`, `run`, `_process`, `stop` | the CLOB's push endpoint; `handle_websocket` |
| normalisation (`services/market_discovery.py`, `orderbooks.py`) | none | `normalize_market`, `normalize_orderbook` | runtime, clients |
| calculator and rules (`services/depth_calculator.py`, `fees.py`, `scanner.py`) | none | `calculate_depth`, `taker_fee`, `is_valid_opportunity` | runtime |
| store (`database.py`) | SQLite tables: markets, tokens, opportunities, paper trades, events, settings | upserts, inserts, listings | runtime, console |
| console (`main.py`) | the global `settings` | JSON endpoints, settings updates, exports, pages | runtime, store |
| settings (`config.py`) | values from the environment | `get_settings` | console, runtime |
| page scripts, templates, launch scripts, logging | | presentation | console |

### How they interact

- `start()` awaits a geoblock check, a market refresh and, if any market was
  loaded, a first scan, hands the tokens to the web socket, then creates three
  tasks: market loop, book loop, web socket.
- The scan (`refresh_books_and_scan`) replaces `books` by one answer of the CLOB,
  iterates over the `markets` dictionary it finds then, awaits a fee for every
  market that needs a lookup, writes opportunities row by row, and at its end
  replaces `results` and the count. Between two awaits a task is alone on the
  loop; at an await the other tasks run.
- `refresh_markets` stores every market, then replaces `markets`.
- `handle_websocket`, awaited by the web socket task, installs a pushed book in
  the dictionary the scan reads.
- Console threads read `markets` and `results` one after the other, without a
  lock, at any moment, also in the middle of a scan. `PUT /api/settings` writes
  the table and the global `settings` the scan reads, key by key.
- Every request goes through one semaphore (`max_concurrency`).

### What is hard, and what makes each component correct

| component | hard behaviour | correct if |
|---|---|---|
| runtime | two loops and pushed books between the awaits of a scan; failures half way through a refresh or a scan; a dictionary read before an await and used after it; coroutines that die | an unknown fee never leads to a recorded opportunity; the table vouches for what is shown, though its rows are overwritten in mid-scan; count and board agree; loaded markets are stored; both loops go on; listed markets are shown, delisted ones disappear |
| HTTP client | cancellation at any await, wake-ups in flight, retries that queue anew | permits are conserved, the retry policy of `docs/API_REFERENCE.md` holds, every call ends |
| web socket | failure at any await, faults of the handler, repeated messages, `stop()` against a pause, a closing handshake that is awaited on every way out of a connection, tokens changed while connected | `connected` is true from a connection to the end of its closing, pauses grow and are reset, a repeated message is handled once, `stop()` ends the task, failures are followed by a new connection |
| console | two reads of exchanged dictionaries and a write later | a paper trade of an unknown fee never succeeds; trades and listings can be traced to recorded opportunities |
| settings | two copies written in two steps by concurrent threads, one of them by a transaction that reads before it writes, faults half way, restarts | a value is stored before it is used; what one PUT stored undisturbed is in force |
| API clients, normalisation | cursors that repeat, fees that cannot be parsed, two outcomes mapped to tokens | paging ends; a fee that is not understood is not taken for zero |
| calculator | ties between levels, rounding, quantities that no book fills | the walk is a cheapest fill, the net result is what the documents define |
| life cycle | `stop()` while tasks await, one of them once more for a closing handshake, and threads run; `start()` that raises | all three tasks are gone before client and store are closed |

The hazards in the code, each at its line, are in `PROJECT.json`.

## 2. Plan

Modules, in the order of their importance. All of them exist.

1. `Scanner`: the runtime's two coroutines, pushed books, `start()`, and `stop()`
   with all three tasks;
   it implements the abstract `OpportunityBoard` and `MarketTable` and assesses
   markets by `Assessment`. *Checked and proved.*
2. `Console`: console threads on top of `Scanner`. *Checked and proved.*
3. `HttpClient`: semaphore, retries, cancellation. *Checked and proved.*
4. `SettingsStore`: the settings endpoints. *Checked and proved.*
5. `MarketSocket`: the web socket task. *Checked and proved.*
6. `Depth`: one assessment, from raw price levels to the verdict, in exact integer
   arithmetic; it implements `Assessment`. *Checked and proved.*
7. `Discovery`: one market refresh after another, from Gamma's pages to the loaded
   markets and their rows; it implements `MarketTable`. *Checked and proved.*
8. `QuoteFeed`: where the books of a result come from, with their versions and ages.
   *Checked and proved.*

Each module stands for one question about the code, and the questions meet in
`Scanner`: `Depth` is the inside of its `Assess`, `Discovery` of its
`MarketsRefreshed` and `MarketsFailed`, `QuoteFeed` of its `BooksFetched` and
`WebSocketBook`, `HttpClient` and `MarketSocket` of what its awaits wait for. The
first two links are theorems: `Depth` is proved to come to a result of the operator
`Assess` that `Scanner` uses, and `Scanner` and `Discovery` are both proved to
implement `MarketTable`.

Left for a next step: the link of `QuoteFeed` to `Scanner`; the composition of
`HttpClient` with its callers; the settings under a scan, if a document ever says
what one result may mix.

## 3. The modules

Definitions whose comment begins "Mutant of" are deliberately wrong variants of
the definition they name. No behaviour uses them; each stands for a plausible
bug, and replacing the definition by it makes TLC find the property listed in
`PROJECT.json` violated.

### `Scanner`, `Assessment`, `OpportunityBoard`, `MarketTable`, `MCScanner`

The variables are the attributes of `ScannerRuntime` by their names, the locals
of a scan (`todo`: what is left of the iterated dictionary; `new_results`,
`valid_count`, `current`) and two tables. `marketTask` and `bookTask` say at which
await each coroutine stands; `phase` tells `start()`, which awaits the same functions
one after the other, from the loops, and how `stop()` went. `socketTask` is the web
socket task as far as `stop()` has to wait for it; what it does is in `MarketSocket`.

| action | code |
|---|---|
| `MarketTimer`, `BookTimer` | the loops' `wait_for` times out; the book request is put together |
| `MarketsRefreshed`, `MarketsFailed`, `MarketsLogFailed` | `refresh_markets`: success; Gamma failed or an upsert was refused after some rows; the event could not be logged after the dictionary was exchanged |
| `GeoblockChecked` | `refresh_geoblock` |
| `BooksFetched`, `BooksFailed` | the CLOB answered, with any books, asked for or not, or failed |
| `SkipMarket`, `AssessListed`, `LookUpFee`, `FeeAnswered`, `PublishScan` | the body of the scan's loop, cut at its only await, and its end |
| `WebSocketBook` | `handle_websocket` installs a pushed book |
| `Stop`, `MarketCancelled`, `BookCancelled`, `SocketCancelled`, `SocketClosed`, `Close` | `stop()` sets the event and cancels the three tasks; the coroutines end at their await, the web socket task may await its closing handshake first; when all are gathered, client and store are closed, unless `http.close()` raises (phase `aborted`: the store stays open) |

A scan gives up the event loop only between `LookUpFee` and `FeeAnswered`: while
`bookTask = "scanning"` no other coroutine takes a step (`LoopFree`), but console
threads may. With `LocalFaults` the steps outside every `try` may raise and
end their coroutine for good, or fail `start()`. `fetch_books` is one await although it
sends a request per 500 tokens: nothing of the runtime changes between those requests
except what other tasks do at any await.

Books and prices are abstract: `Assess` (module `Assessment`, of constant level)
takes how deep a pair of books is and which thresholds its net result passes as an
input, and keeps the order in which `calculate_depth` decides its status; `Accepted`
is the rule layer on such results.

`opportunity_rows` is the opportunities table: one row for each fingerprint, that is
for a market (its two asset ids) and what the hashes of its books come to (`Hash`).
The fingerprint leaves out the fee, the buffers and the thresholds, and a hash may be
empty, so different results share a row. As in `upsert_opportunity` the result in the
row (`payload_json`) is overwritten by the next one, in mid-scan, while the recorded
profits (`min_net_profit` to `max_net_profit`) only widen; with two accepted profits,
*good* and *better*, the interval is the set of those recorded (`profits`). So the
table need not hold a result that is shown, listed or traded, and no property says it
does. What it does for good is *vouch* for it (`VouchedFor`, `Recorded`): the row of
its fingerprint is there, with an accepted result of the same status and fee, and its
profit lies within the recorded ones. `UpsertOpportunity` with the mutant `Overwrite`,
which loses the profits as well, breaks that.

`OpportunityBoard` is what the console relies on: a board exchanged as a whole
together with its count, whose opportunities entered a ledger before, with known
fees, and a ledger that loses nothing. `KeepsPromise` is the refinement; the ledger is
what the rows vouch for. `MarketTable` is what the scan and the
console rely on of a refresh: the loaded markets are exchanged as a whole, for
markets that have their rows, and no row goes away.

### `Console`, `MCConsole`

Extends `Scanner`: its next-state relation is a step of the runtime or a step of
a request. A request takes one step per read of the runtime's state
(`ListOpportunities`, one `ListEntry` per entry, `ListingDone`; `TradePaper`,
`ReadResult`, `StorePaper`), so that the event loop may exchange `markets` and
`results` in between. `Listable` is the handler's own test (status and minimum
profit), `IsValid` the rule layer's.

### `HttpClient`, `MCHttpClient`

One caller per coroutine inside `request_json`; `pc` is its await. The semaphore
is asyncio's (CPython 3.11), modelled from its use in `async with`: `free` is its
value, `queue` the waiters without a result, a *woken* caller one for which a
permit is reserved. `Answered` covers all branches of the `try` (a pause, a
result, `ExternalAPIError`, an exception it does not name), `BackoffDone` starts
the next attempt, which queues anew. `Cancel` is a `CancelledError` at any await.
`answers` is a history variable, the answers of one call.

### `SettingsStore`, `MCSettings`

The table (`stored`), the global object (`live`), and one program counter per
thread. `ReadRow` and `StoreKey` are the transaction of `upsert_setting`, which reads
the row without locking it and then inserts it, updates it or, when the value is the
one that was read, leaves it (SQLAlchemy writes only columns that changed);
`AssignKey` is the other statement of the loop of `PUT`, `LoadStored` and `ReplyKey`
the query and the construction of the answer. `StoreRaises` is a refused transaction,
or the insertion of a row that has come to be there meanwhile (`Clashes`); `Restart`
ends the process with its threads and builds `settings` from the environment again.
History: `committed`, everything ever stored; `settled`, the keys whose last store
since the start happened while no other PUT was between its first and last write, and
into the row as it had been read.

### `MarketSocket`, `MCMarketSocket`

`pc` is the await `run()` has reached. `OuterLoop` and `InnerLoop` are the tests
of the two `while` loops, which every step that reaches them takes at once;
`Refused` is an attempt to connect that fails. Every other way out of a connection
leaves its context (`Leave`; `exit` says why: a failure, `stop()` or a cancellation)
and so awaits the closing handshake, with `connected` still true (`closing`, then
`Closed`), before `Drop`, the `except` branch, or the end of the loop takes the flag
back. `Cancel` is a `CancelledError` at any await, the closing included; it takes
nothing back. That the handshake is given up after `close_timeout` without an
exception is the library's. `HandleFrame` is `_process` with the handler, which
may raise; `Remember` is the memory of fingerprints, emptied when it has grown
past its limit (10,000 in the code, `SeenLimit` here). `SetTokens` and `Stop` come
from other coroutines. History: `failures` (attempts that failed in a row),
`handled`.

### `Depth`, `MCDepth`

One assessment of one market. `ReadEntry` is an iteration of `_levels`,
`TakeLevel` one of `_walk`, which runs four times: `Measured` ends a walk for the
target, `Filled` one for the common quantity. `Judge` is the rest of
`calculate_depth` and `is_valid_opportunity`. The code calculates in `Decimal`;
here every number is an integer in units small enough that cost and settlement
are exact, and what the code rounds (fees half up, buffers half up, the result half
even) is rounded by `HalfUp` and `HalfEven`. The context precision of 28 digits,
which only the quotient for an average price could reach, is taken as exact. A
division is compared by cross-multiplication (`RoiEnough`). What the only caller
leaves at its default is a constant of the model: partial fills are allowed,
`quote_age` is 0, and a loaded market is open; two branches of the code
(`PARTIAL_NOT_ALLOWED`, `NO_LIQUIDITY`) cannot be reached and the second is in
the model to show it.

The reference the walk is compared with knows nothing of sorting and merging:
`Takings` are all ways to take a quantity from the raw levels, and the walk has to
pay the least cost among them.

### `Discovery`, `MCDiscovery`

`Refresh` begins a refresh, `PageAnswered` is one turn of the loop of
`fetch_markets`, `Skip`, `Store`, `StoreFails` and `NormaliseFails` one turn of the
loop of `refresh_markets` (a market passed over, stored, refused by the database, or
such that `normalize_market` raises something else, which ends the refresh), `Install`
its end, where logging may still fail after the exchange, `Failed` its `except`
clause. Gamma either answers from a fixed listing of the items of `Listed`
(`HonestAnswer`: cursors are positions) or with any of `Pages` and any of `Cursors` or
none (`OtherAnswers`), whatever was asked for. Both are constants: the proofs are for
any set of pages, of any length, TLC's instance has the four of section 4. A raw market
is its identifiers, its labels and tokens in the order listed, and two flags for the
many conditions that make `normalize_market` or the liquidity limit skip it.
Labels are four: two spellings of yes, one of no, and one of neither. A row is a
market's condition and its tokens by label, as `upsert_market` leaves it; `Unique`
is the two unique columns. A transaction may be refused although the final rows
do not clash: rows are updated one after another, and the database may be locked.

### `QuoteFeed`

The two books of one market, told apart by version and age. `Change` is the
exchange, which may push the new book or not (a `price_change` event is not read),
`Connect` and `Disconnect` the connection, which loses what is under way. The
book coroutine asks for both books (`AskBooks`), the exchange reads them
(`BatchTaken`, both at once; no property depends on it), the answer replaces the
dictionary (`BooksFetched`) or fails (`BooksFailed`: the loop goes on to its timer);
then the pair is read (`ReadPair`), with the fee at hand or after a lookup
(`FeeAnswered`), and shown (`Publish`). `BookPushed` is `handle_websocket`, at any
await. `together` is a history variable: the pairs that were in the dictionary at
one time. `Tick` makes every copy of a book older; ages are capped above the limit.

## 4. The runs

Passing runs:

| run | instance | shows |
|---|---|---|
| `scanner_safety` | 2 markets, one whose fee is listed and one that needs a lookup, each in or out of every answer; empty and full books; results below the minimum and two valid ones, all of one fingerprint a market; local faults; `stop()` at any moment | fail-closed fees, rows that vouch for what is published from before its publication on, stored markets, a scan on track between any two steps, and the refinement of `OpportunityBoard` |
| `scanner_liveness` | the same markets, without local faults | both loops go on, delisted markets leave the console, listed ones are shown again and again, a shutdown of all three tasks comes to its end |
| `console_safety` | 1 market (fee from either source), 1 request, results that only the rule layer refuses, local faults | paper trades fail closed; the table vouches for traded and for listed opportunities |
| `http_client` | 3 callers on 2 permits, one answer of each class | permits are conserved, retries follow the policy, every call ends |
| `settings` | 2 settings, 2 values, 2 threads that PUT or GET, refused and clashing transactions, restarts | only stored values are used or answered; what a PUT stored undisturbed is in force |
| `socket` | 2 tokens, 3 messages, a memory of 2, faults and cancellation at any await, the closing handshake included | the connection flag, the pauses, no message twice, `stop()` ends the task, failures are followed by a connection |
| `depth` | a dollar of 7 price steps; up to 3 and 2 raw levels out of 6 (two of one price, a dearer, a free, an empty, one beyond a dollar); targets 1 and 3; a known, a zero and an unknown fee; quanta of 3 and 6 units | both legs are filled alike and cheapest; status and net result are the documented ones; no accepted opportunity loses, with thresholds of zero |
| `discovery` | every listing of up to 4 out of 6 raw markets (reordered and relabelled, swapped, thin, closed, with a borrowed token), pages of 2, at most 3 markets; and answers that keep to no listing: an empty page, one market, the same twice, or four different ones, with the cursors 0 and 1 or none, in any order | pages are collected without gap or repetition; legs are distinct; the rows name the tokens that are read; every refresh ends |
| `quote_feed` | 2 books of 3 versions, 2 pushed books under way, any batch failing | no result mixes two moments; books and results converge to the exchange's |

Why these bounds suffice to see the interesting cases: two markets are needed
for one to be delisted, or shown, while the other is awaited; no property relates
three markets. Two valid profits distinguish the result of one scan from that of the
next; with one fingerprint a market, each overwrites the other's row, which is the case
that endangers the properties. With one market and one request the console already meets
every pair of reads with an exchange in between; requests do not interact with one
another. Three callers on two permits give a holder, a woken waiter and one that queues
behind it; attempts are bounded by the code. Two threads make every overlap of two PUTs,
or a PUT and a GET. A memory of two and three messages lets it overflow. In `depth`, three
levels on one side give a tie, an exhausted and an untouched level at once, a price step
of a seventh makes averages that are no multiples of anything, and the quanta are coarse
enough that rounding decides verdicts; accepted and partial results both occur. In
`discovery`, a maximum that is no multiple of the page makes the last page a short one,
and four entries exceed it; so does the page of four different markets, alone or after one
or two that were collected already, and only the truncation keeps the fourth from being
loaded. In `quote_feed`, a batch and a push can each be two versions behind the other. The
proofs of section 6 remove the bounds for the safety properties.

Bounds in the guards of the models: `MaxEntries` (`Depth`), `MaxListing`
(`Discovery`, with the sets `Pages` and `Cursors`), `MaxVersion` and `MaxWire`
(`QuoteFeed`). `MarketSocket` caps `failures` at 5 (the pause has reached its maximum by
then) and `handled` at 2; `QuoteFeed` caps ages at one above the limit. In `Scanner`,
`HttpClient` and `SettingsStore` the only bounds are the sets.

Violation runs (`console_dropped`, `settings_restart`, `quotes_stale`) check one
statement of the documentation each and end with a counterexample; section 7 says
what they show.

Deadlock is not checked in `scanner_*`, `console_*`, `http_client`, `socket` and
`depth`: a task may have died, failed to start, been cancelled or have been stopped,
and an assessment ends.

## 5. Fairness

- `Scanner`: weak fairness of the book coroutine: each of its awaits ends, because a
  request makes at most three attempts with a timeout each and a poll is a
  timer. Strong fairness of the market coroutine: its awaits end too, but a scan
  that holds the event loop disables it for a moment; asyncio's ready queue is
  first in, first out, so it gets its turn. Weak fairness of `SocketCancelled`,
  `SocketClosed` and `Close`: a cancelled task is resumed, the closing handshake ends by
  its timeout of five seconds, and gathering cancelled tasks ends when they have.
  `AnsweringSpec` adds that the CLOB answers the whole batch again and again; without it
  nothing can be shown, and the properties that need it are about what the scanner makes
  of the answers.
- `HttpClient`: weak fairness of each caller's steps except making a call: woken
  tasks run, pauses are timers, httpx bounds every phase of a request. Answers
  are not assumed to be good ones.
- `MarketSocket`: weak fairness of the task (each await has a timeout);
  `AcceptingSpec` adds strong fairness of connecting and subscribing, an
  endpoint that accepts again and again. Nothing is assumed of `stop`,
  cancellation, `set_tokens` and the messages.
- `Discovery`: weak fairness of the steps of a refresh that has begun: every request
  ends, with an answer or an exception. No answer is assumed to be a good one.
- `QuoteFeed`: weak fairness of the book coroutine and of the handling of pushed
  books; strong fairness of `BatchTaken` and `BooksFetched`: batches may fail again
  and again, but not all of them for ever. Nothing is assumed of the connection, so
  `Converges` rests on the batches alone.
- Liveness is checked without local faults in `Scanner` because a coroutine that
  dies is never restarted; that is how the code is, not an assumption about it.

## 6. The proofs

All proofs are for any sets of markets, callers, keys, messages and so on, under
the named assumptions on the constants beside their declarations, which TLC
evaluates in the runs.

- `ScannerProofs`. The published board is computed by a scan of many steps, so
  none of the invariants is inductive alone. `IInv` adds `ScanOnTrack`, which
  describes the scan between two steps: a market is either still to assess, or
  awaited, or assessed; the running count is that of the new dictionary; the table
  vouches for its opportunities already; and every row holds an accepted result whose
  profit is one of those it has recorded (`RowsSound`). Then the type invariant,
  `FailClosed`, `PublishedIsPersisted`, `CountMatches`, `LoadedIsStored`,
  `UnknownHasReason`, `ScannedHasBooks` and `ValidFeeIsKnown` (a VALID result has a known
  fee) follow, and with them `ImplementsBoard`: every step is a `Record`, a `Publish` or a
  stutter of `OpportunityBoard`, for any hashes (an upsert makes its row vouch for one
  result more and for none less: `UpsertVouches`, `LedgerGrows`); `ImplementsTable` is the
  same for `MarketTable`. The action properties say what is behind the liveness the runs
  check: `ScansRunOut` (`ScanLeft` counts the steps a refresh of the books still has, at
  most two a market and two; only the coroutine's own steps change it, and each lowers
  it), `ScansMissNothing` (a loaded market with both books in the batch is in the scan
  until it is published, whatever is pushed or refreshed during the awaits),
  `DelistedMarketsForgotten` (the end of the first scan begun after a market was dropped
  takes its result away) and `NothingAfterStop` (after `stop()` nothing is recorded,
  installed or published, no client and no store is closed before all three tasks are
  over, and at most five steps follow: the end of each task, the closing handshake of one
  of them, and the closing).
- `ConsoleProofs`. `HeldIsRecorded` says what a request may rely on between its
  steps: the table vouched for what it has read when it was read, and goes on doing so
  while rows are overwritten (`RowsGrow`), whatever the runtime does meanwhile. It gives
  `PaperTradesFailClosed`, `PaperTradesTraceable`, `PaperMarketsStored` and
  `ListedOpportunitiesRecorded` for any number of concurrent requests.
  `ConsoleKeepsRuntime`: the composition implements `Scanner`, so all its theorems
  hold below the console. `AnsweredUnlessDropped` delimits the finding of
  `console_dropped`: with SQLite working and no market dropped, everything scanned,
  shown or being listed belongs to a loaded market (`AllLoaded`), and no request is
  answered with an internal error.
- `HttpClientProofs`. `IInv` is the conjunction of permits conserved, the queue
  matching the waiting callers, no wake-up missed, the retry policy and the count
  of attempts. The lemmas on `WakeUpNext` and on removing a cancelled waiter from
  the queue carry most of the argument. `WakeupsNotMissed` is the invariant behind
  `CallEnds`: callers wait beside a free permit only while a woken one is about
  to run. `CallsRunOut` and `QueueIsFair` are the rest of its safety: a call has at
  most twelve steps left (`CallLeft`), which nobody else can add to, and nobody
  overtakes a caller in the queue. `ConcurrencyBounded` is the documented meaning of
  `max_concurrency`.
- `SettingsProofs`. `CarriedIsCommitted`: what threads carry towards or from the
  table was committed. `OnItsWay`: a settled key whose live value differs from
  the table is being assigned that very value, which gives `SettledInForce` for any
  interleaving, fault and restart. A row that a transaction has read is still there when
  it writes, and is unchanged as long as no two PUTs write at a time.
  `PersistedUnlessRestarted` delimits the finding of `settings_restart`: the documented
  promise holds as long as the process does not restart and no two PUTs write at a time
  (two assumptions on the behaviour, in the theorem), so nothing but these two breaks it.
- `SocketProofs`. `SeenIsHandled`: while no more than `SeenLimit` different
  messages have come, the memory is exactly the set of those that were handled;
  so none is handled twice. `SeenStaysBounded` is the bound of the memory itself,
  `PausesGrow` the sequence of pauses. `StoppedTaskRunsOut`: from `stop()` on, the
  task begins no connection, receive or rest and has at most four awaits to go
  (connecting, subscribing, closing, pausing). `ConnectedIsTrue` follows the flag through
  the closing: `ExitFits` relates the reason for leaving to where the task stands.
  `NeverGivesUp`: without `stop()` it does not end, whatever fails, and with tokens
  to ask for it does not rest.
- `DepthProofs`, for books of any length and any scale, rates and thresholds that are
  not negative. `Below(a)[p]` is what a book offers below the price `p`; the walk
  under way has taken the lesser of the quantity asked for and what is on offer below
  the price it has come to (`WalkFits`), so that a finished walk has filled the lesser
  of the quantity and the depth (`MeasureFits`, `FillFits`), and both legs are
  filled with the same quantity (`BothLegsFilled`). `BooksFit` relates the merged book
  to the raw levels, price by price: below every price, the book offers what the raw
  levels below it do. From there follow `StatusAsDocumented`, `NetProfitIsDocumented`
  (each rounding errs by at most half a quantum, whatever is rounded) and
  `AcceptedOpportunitiesNeverLose` (the ROI is compared unrounded, so a net result
  that is accepted is not negative, and the buffers are not either). Facts about
  recursive sums are proved from the least counterexample, whose existence is
  the well-foundedness of `<` on the naturals: an induction that needs no theorem
  with an operator parameter.
  `LegsCostTheLeast` compares a leg with every taking of its quantity from the raw
  levels by duality: for any price `p`, a taking of `q` costs at least `p * q` less
  what all levels below `p` could save against `p` (`NoCheaper`); the walk, which ends
  at some price having emptied everything below it, costs exactly that much
  (`PriceFits`, `CheapestReached`).
  `ImplementsAssess`: a judged result, with its pair measured as empty, partial or
  full and its net profit compared with the thresholds, is one that `Assess` of
  `Assessment` gives for that pair, fee and net result, and it is accepted by the
  rules exactly if `Accepted` says so.
- `DiscoveryProofs`, for any items, listings, limits and answers. `Paging`: the pages so
  far are a prefix of the listing and the cursor is its length. `BackedAll`: during
  a refresh every market of the new dictionary has its row, under both its labels,
  and rows are unique; so when it is installed no token is a leg twice
  (`RowsKeepApart`), and the table names the tokens that are read. The unique columns
  are essential to it: `normalize_market` does not even refuse a market with the
  same token twice. `ImplementsTable`: row by row, and failing anywhere, a refresh
  implements `MarketTable`. `LoadedMarketsBounded`: never more than `max_markets`
  are loaded, however long the pages are and whatever different markets are in them,
  because `Kept` cuts the surplus off (`KeptIsPrefix`). `RefreshesRunOut`: `WorkLeft` is
  at most twice `max_markets` and one, and every step lowers it, whatever Gamma answers.
- `QuoteFeedProofs`. `HeldTogether`: what the dictionary holds, and what the scan
  holds while it awaits a fee, was in the dictionary at one time; ageing changes no
  version. It gives `PairsAreNotTorn`. `ConvergesForGood` is a ladder of four
  conditions on what the exchange's books have reached (the wire and the answer
  under way, the dictionary, the scan, the board): while the exchange stands still
  no step leaves a rung, and a batch, its arrival and the end of its scan each climb
  the next one.

Only model-checked: the liveness properties (`LoopsReturn`, `DelistedLeaves`,
`ListedIsShown`, `ShutdownEnds`, `CallEnds`, `StopEnds`, `ComesBack`, `RefreshEnds`,
`Converges`). They need fairness and `ENABLED`, which are beyond the proof system.
For each of them the safety half is proved: for those that end (calls, scans,
refreshes, tasks that are stopped) a measure that every fair step lowers and no
other step raises; for the others that what they lead to is not lost or undone on
the way. What remains to the runs is that the fair steps stay enabled. Every
invariant and action property of the passing runs is a theorem.

## 7. Where the code and its documents disagree

Shown by a violation run:

| run | statement | what the code does |
|---|---|---|
| `console_dropped` | the opportunities page answers | `rt.markets[market_id]` raises for a published result whose market was dropped; with no market left, no scan ever removes the result |
| `settings_restart` | `README.md:65`: settings can be persisted | the table survives a restart, but nothing reads it into the settings the scan uses, while the settings page shows it |
| `quotes_stale` | `docs/CALCULATION.md:13`: stale quotes cannot become valid opportunities | the scan never passes `quote_age`, so the age limit of the rule layer compares 0 with the limit, however long a fee lookup held the books |

Met while modelling, without a run of their own:

- `runtime.py:172`: the scan iterates over the dictionary it read before it awaited, so a
  market that a refresh has dropped meanwhile is still recorded as an opportunity.
- `main.py:134`: after a failed batch the old results stay, and paper trades, which
  `docs/SECURITY_BOUNDARY.md:10` derives from current books, succeed on them however
  long the CLOB cannot be read.
- `websocket_client.py:40`: `set_tokens` sends nothing over an open connection, while
  the dashboard counts the new tokens as subscribed.
- `runtime.py:177`: `websocket_status` is set to connected by the first message and
  never taken back.
- `database.py:200`: the row of a market keeps its first condition, and its tokens are
  keyed by the label as written. A market that is relisted as "YES" instead of "Yes",
  or a token that moves to another market, breaks a unique column, and the refresh
  fails as a whole, and so does every later one with that listing.
- `database.py:243`: the next scan overwrites the result in the row of the same
  fingerprint before its board is exchanged, so the table need not hold the result that
  is shown or traded; the recorded interval of its profits still covers it.
- `runtime.py:65`: if `http.close()` raises, `stop()` ends there and the store is not
  closed.
- `websocket_client.py:52`: while a connection is being closed, and for ever in a task
  that is cancelled with one, `connected` is true.
- `runtime.py:132`: the answer to a batch replaces books that were pushed after the
  exchange read its answer; until the next batch or push the older ones count.
- `depth_calculator.py:71`: the fingerprint is made of hashes that default to the empty
  string and of nothing that tells fees or settings apart; without hashes all results of
  a pair share one row.
- `main.py:109` lists opportunities by status and minimum profit, not by the rule
  layer (`docs/ARCHITECTURE.md:5`), so it shows results refused for their ROI or
  quantity and its total differs from the status page's count.
- Two PUTs of settings that interleave may leave the table with the value of one
  and the scan with that of the other (`PersistedIsInForce` fails with two
  writers and no restart); `SettledIsInForce` is what remains true. It does not when
  another PUT has come and gone between the read and the write of a transaction: a
  value equal to the one that was read is then not written over the newer one, and is
  used all the same.
- `websocket_client.py:104` empties the memory after adding the message at hand,
  so its immediate repetition is handled again, once in 10,001 messages.
- `websocket_client.py:102` remembers a message before its handler has run; if the
  handler raises, the repetition after the reconnection is dropped.
- `http.py:47` does not retry httpx's `RemoteProtocolError` (a kept-alive
  connection the server has closed), which is no `NetworkError`.
- `market_discovery.py:66`: a listed fee rate that cannot be parsed becomes a known rate
  of zero, although `docs/API_REFERENCE.md` (Fees) says "zero is used only when the market
  explicitly reports fees disabled".
- `depth_calculator.py:65` and `:67`: `PARTIAL_NOT_ALLOWED` and `NO_LIQUIDITY` never
  occur; books with no usable level have no asks.
- The web socket's `errors` and `reconnects` counters are never copied to the
  status they have fields for.
- `main.py:30`: `start()` is awaited before the `try`, so if it raises neither the
  client nor the engine is closed.
- `runtime.py:190`: recording an error may itself raise (SQLite) and end a
  coroutine for good; nothing restarts it and the status page does not tell.

## 8. What is not modelled

- Parsing of strings and numbers in raw markets and books; the rate of a fee schedule;
  the descriptive fields of a market.
- Read-only endpoints, CSV exports, pages and scripts: they change no state. The
  texts they show are quoted where a run refutes them.
- The contents of rows beyond what properties relate; SQLite itself, which
  commits a transaction or raises. How the fingerprint is computed: which results share a
  row is a constant of the model, and every possibility is covered by the proofs.
- What the status page tells of the web socket; counters that nothing reads; logging;
  parsing of the environment; the health of the operating system's threads and
  sockets.
- A settings change between two reads of a scan or a listing: no document says what
  one result may mix, and each value that is used was stored (`StoredBeforeUse`).
- Threads of the console that are still running when `stop()` disposes the engine.
