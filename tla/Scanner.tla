------------------------------- MODULE Scanner -------------------------------
(***************************************************************************)
(* The scanner runtime (src/app/runtime.py): one coroutine refreshes the   *)
(* list of markets, one polls the order books and assesses every loaded    *)
(* market, and the web socket task installs pushed books.  All three run   *)
(* on one asyncio event loop, so a task is interleaved with the others     *)
(* only where it awaits.  SQLite is written from inside those tasks.       *)
(*                                                                         *)
(* Prices and sizes are abstracted to what the rules tell apart: how deep  *)
(* the two ask books are for the target quantity, and which thresholds the *)
(* net result passes.                                                      *)
(***************************************************************************)
EXTENDS Integers, FiniteSets, Assessment

CONSTANTS
    Market,       \* market ids Gamma may list
    Listings,     \* the normalised answers Gamma may give, a subset of Catalog
    Pairs,        \* how deep the two ask books may be
    Nets,         \* which thresholds a computed net result may pass
    Hash,         \* what the hashes of a market's two books may come to
    LocalFaults,  \* may a step outside every try block raise (SQLite, Decimal)?
    NoMarket,     \* no fee lookup is under way
    NoResult      \* the market has no entry in a result dictionary

(* "listed": the fee is known without a request, from Gamma's fee schedule   *)
(* or because fees are disabled.  "lookup": the CLOB has to be asked.        *)
FeeSource == {"listed", "lookup"}
Catalog   == [Market -> FeeSource \cup {"absent"}]

Side  == {"yes", "no"}
Token == Market \X Side

(* What calculate_depth returns: the result proper and the hashes of the     *)
(* books it was computed from.  With the asset ids they make the fingerprint.*)
DepthResult == [status: Status, fee: FeeStatus, net: Net, hash: Hash]

Board == [Market -> DepthResult \cup {NoResult}]

(* A row of the opportunities table: the profits from min_net_profit to      *)
(* max_net_profit (of the two the rules accept, those recorded so far) and   *)
(* the result written last, payload_json.                                    *)
Row   == [profits: SUBSET Net, payload: DepthResult \cup {NoResult}]
NoRow == [profits |-> {}, payload |-> NoResult]

ASSUME ScannerAssumption ==
    /\ IsFiniteSet(Market)
    /\ Listings \subseteq Catalog
    /\ Pairs \subseteq {"no_asks", "partial", "full"}
    /\ Nets \subseteq Net \ {"none"}
    /\ LocalFaults \in BOOLEAN
    /\ NoMarket \notin Market
    /\ NoResult \notin DepthResult

VARIABLES
    phase,              \* of the application: start() running or raised, serving,
                        \* stop() waiting for its tasks, client and store closed
    marketTask,         \* where the market coroutine stands
    bookTask,           \* where the book coroutine stands
    socketTask,         \* the web socket task, as far as stop() has to do with it
    markets,            \* self.markets, "absent" for an id that is not loaded
    books,              \* the tokens that have an entry in self.books
    results,            \* self.results
    fee_reasons,        \* the ids that have an entry in self.fee_reasons
    opportunity_count,  \* self.status.opportunity_count
    clob_status,        \* self.status.clob_status
    tokens,             \* the tokens of the batch request under way
    todo,               \* the part of the iterated dictionary still to assess
    current,            \* the market whose fee is being looked up
    new_results,        \* the dictionary the scan is filling
    valid_count,        \* opportunities the scan has counted so far
    market_rows,        \* ids in the markets table
    opportunity_rows    \* the opportunities table, by fingerprint

boardVars  == <<results, opportunity_count>>
scanVars   == <<todo, current, new_results, valid_count>>
storeVars  == <<market_rows, opportunity_rows>>
vars == <<phase, marketTask, bookTask, socketTask, markets, books, results, fee_reasons,
          opportunity_count, clob_status, tokens, todo, current, new_results,
          valid_count, market_rows, opportunity_rows>>

-----------------------------------------------------------------------------
Nothing  == [m \in Market |-> NoResult]
NoneLeft == [m \in Market |-> "absent"]
EmptyTable == [m \in Market |-> [h \in Hash |-> NoRow]]

Loaded(catalog)   == {m \in Market : catalog[m] # "absent"}

(* Mutant of TokensOf: books are requested for the first token only. *)
TokensOfFirst(catalog) == Loaded(catalog) \X {"yes"}

TokensOf(catalog) == Loaded(catalog) \X Side

BothBooks(m)      == {m} \X Side \subseteq books

(* A result the rule layer accepts.  The runtime loads only active, open     *)
(* markets that accept orders and leaves quote_age at 0, so those two tests  *)
(* of is_valid_opportunity always pass.                                      *)
IsValid(r) == r # NoResult /\ Accepted(r)

ValidIn(board) == {m \in Market : IsValid(board[m])}
ValidResults   == {r \in DepthResult : IsValid(r)}
KnownResults   == {r \in DepthResult : r.fee = "KNOWN"}

(* What a row of the table vouches for: the result written last, at any      *)
(* profit from the lowest to the highest recorded.                           *)
VouchedFor(row) == {[row.payload EXCEPT !.net = n] : n \in row.profits}

Recorded(m, r) == r \in VouchedFor(opportunity_rows[m][r.hash])

-----------------------------------------------------------------------------
(* A coroutine runs alone from one await to the next.  Once stop() has       *)
(* cancelled the tasks, each resumes only to be ended by a CancelledError.   *)
LoopFree == bookTask # "scanning" /\ phase # "stopping"

Init ==
    /\ phase = "boot" /\ marketTask = "geoblock" /\ bookTask = "wait"
    /\ socketTask = "running"
    /\ markets = NoneLeft /\ books = {} /\ results = Nothing
    /\ fee_reasons = {} /\ opportunity_count = 0 /\ clob_status = "unchecked"
    /\ tokens = {}
    /\ todo = NoneLeft /\ current = NoMarket
    /\ new_results = Nothing /\ valid_count = 0
    /\ market_rows = {} /\ opportunity_rows = EmptyTable

(* An exception that leaves a coroutine ends its task for good; inside     *)
(* start() it makes the application fail to start.                         *)
PhaseAfterRaise == IF phase = "boot" THEN "failed" ELSE phase

(* Mutant of MarketTaskRaises: the refresh catches no exception. *)
MarketTaskUnprotected ==
    /\ marketTask' = "dead" /\ phase' = PhaseAfterRaise
    /\ UNCHANGED <<bookTask, tokens>>

MarketTaskRaises ==
    /\ LocalFaults
    /\ marketTask' = "dead" /\ phase' = PhaseAfterRaise
    /\ UNCHANGED <<bookTask, tokens>>

BookTaskRaises ==
    /\ LocalFaults
    /\ bookTask' = "dead" /\ phase' = PhaseAfterRaise
    /\ UNCHANGED marketTask

(* refresh_markets returned.  The loop goes on to the geoblock check;      *)
(* start() goes on to the first book refresh if any market was loaded.     *)
MarketsReturned(catalog) ==
    IF phase = "serving"
      THEN marketTask' = "geoblock" /\ UNCHANGED <<phase, bookTask, tokens>>
      ELSE /\ marketTask' = "wait"
           /\ IF Loaded(catalog) = {}
                THEN phase' = "serving" /\ UNCHANGED <<bookTask, tokens>>
                ELSE /\ bookTask' = "fetching" /\ tokens' = TokensOf(catalog)
                     /\ UNCHANGED phase

(* refresh_books_and_scan returned, to the loop or to start(). *)
BooksReturned ==
    bookTask' = "wait" /\ phase' = "serving" /\ UNCHANGED marketTask

-----------------------------------------------------------------------------
(* The market coroutine. *)

(* Mutant of UpsertMarkets: the table is filled anew. *)
RewriteMarkets(ms) == market_rows' = ms

(* upsert_market for each of them: its row is there from now on. *)
UpsertMarkets(ms) == market_rows' = market_rows \cup ms

MarketTimer ==
    /\ phase = "serving" /\ LoopFree /\ marketTask = "wait"
    /\ marketTask' = "fetching"
    /\ UNCHANGED <<phase, bookTask, socketTask, markets, books, boardVars,
                   fee_reasons, clob_status, tokens, scanVars, storeVars>>

(* Gamma answered, every market was stored and the event was logged. *)
MarketsRefreshed(catalog) ==
    /\ LoopFree /\ marketTask = "fetching"
    /\ markets' = catalog
    /\ UpsertMarkets(Loaded(catalog))
    /\ MarketsReturned(catalog)
    /\ UNCHANGED <<socketTask, books, boardVars, fee_reasons, clob_status,
                   scanVars, opportunity_rows>>

(* Gamma failed, or answered and one upsert_market was refused (a unique   *)
(* column) after some rows had been committed.  The old dictionary stays.  *)
MarketsFailed(stored) ==
    /\ LoopFree /\ marketTask = "fetching"
    /\ UpsertMarkets(stored)
    /\ MarketsReturned(markets) \/ MarketTaskRaises
    /\ UNCHANGED <<socketTask, markets, books, boardVars, fee_reasons,
                   clob_status, scanVars, opportunity_rows>>

(* The new dictionary is in place when logging the refresh raises. *)
MarketsLogFailed(catalog) ==
    /\ LocalFaults
    /\ LoopFree /\ marketTask = "fetching"
    /\ markets' = catalog
    /\ UpsertMarkets(Loaded(catalog))
    /\ MarketsReturned(catalog) \/ MarketTaskRaises
    /\ UNCHANGED <<socketTask, books, boardVars, fee_reasons, clob_status,
                   scanVars, opportunity_rows>>

(* The geoblock check succeeded, or failed and its error was recorded. *)
GeoblockChecked ==
    /\ LoopFree /\ marketTask = "geoblock"
    /\ \/ /\ marketTask' = IF phase = "boot" THEN "fetching" ELSE "wait"
          /\ UNCHANGED <<phase, bookTask, tokens>>
       \/ MarketTaskRaises
    /\ UNCHANGED <<socketTask, markets, books, boardVars, fee_reasons,
                   clob_status, scanVars, storeVars>>

-----------------------------------------------------------------------------
(* The book coroutine.  With no market loaded refresh_books_and_scan       *)
(* returns at once and nothing changes.                                    *)

BookTimer ==
    /\ phase = "serving" /\ bookTask = "wait" /\ Loaded(markets) # {}
    /\ bookTask' = "fetching" /\ tokens' = TokensOf(markets)
    /\ UNCHANGED <<phase, marketTask, socketTask, markets, books, boardVars,
                   fee_reasons, clob_status, scanVars, storeVars>>

(* Mutant of FreshScan: the scan fills the published dictionary. *)
ScanInPlace == new_results' = results /\ valid_count' = opportunity_count

(* The locals of a scan that begins. *)
FreshScan == new_results' = Nothing /\ valid_count' = 0

(* self.books is replaced as a whole by what was answered, asked for or not; *)
(* the loop then iterates over the markets that are loaded now, not over     *)
(* those the request was made for.                                           *)
BooksFetched(answered) ==
    /\ LoopFree /\ bookTask = "fetching"
    /\ books' = answered /\ clob_status' = "ok"
    /\ todo' = markets /\ FreshScan
    /\ bookTask' = "scanning" /\ tokens' = {}
    /\ UNCHANGED <<phase, marketTask, socketTask, markets, boardVars,
                   fee_reasons, current, storeVars>>

BooksFailed ==
    /\ LoopFree /\ bookTask = "fetching"
    /\ clob_status' = "error" /\ tokens' = {}
    /\ BooksReturned \/ BookTaskRaises
    /\ UNCHANGED <<socketTask, markets, books, boardVars, fee_reasons,
                   scanVars, storeVars>>

SkipMarket(m) ==
    /\ bookTask = "scanning" /\ todo[m] # "absent"
    /\ ~BothBooks(m)
    /\ todo' = [todo EXCEPT ![m] = "absent"]
    /\ UNCHANGED <<phase, marketTask, bookTask, socketTask, markets, books,
                   boardVars, fee_reasons, clob_status, tokens, current,
                   new_results, valid_count, storeVars>>

(* Mutants of UpsertOpportunity: a row that is there is left alone; the      *)
(* lowest and the highest profit are overwritten together with the result.   *)
InsertOnce(m, r) ==
    opportunity_rows' = [opportunity_rows EXCEPT ![m][r.hash] =
        IF @ = NoRow THEN [profits |-> {r.net}, payload |-> r] ELSE @]

Overwrite(m, r) ==
    opportunity_rows' = [opportunity_rows EXCEPT ![m][r.hash] =
        [profits |-> {r.net}, payload |-> r]]

(* upsert_opportunity: the row of the fingerprint is added or updated.  The  *)
(* result in it is overwritten; its profit extends the recorded interval.    *)
UpsertOpportunity(m, r) ==
    opportunity_rows' = [opportunity_rows EXCEPT ![m][r.hash] =
        [profits |-> @.profits \cup {r.net}, payload |-> r]]

(* The result together with what its fingerprint is made of. *)
Fingerprinted(r, hash) ==
    [status |-> r.status, fee |-> r.fee, net |-> r.net, hash |-> hash]

(* calculate_depth and is_valid_opportunity on one market, and the upsert  *)
(* of a valid one.                                                         *)
AssessMarket(m, fee) ==
    \E pair \in Pairs, net \in Nets, hash \in Hash :
      LET r == Fingerprinted(Assess(pair, fee, net), hash) IN
      /\ new_results' = [new_results EXCEPT ![m] = r]
      /\ IF IsValid(r)
           THEN valid_count' = valid_count + 1 /\ UpsertOpportunity(m, r)
           ELSE UNCHANGED <<valid_count, opportunity_rows>>

(* The calculator or the upsert raised: the scan and its locals are lost. *)
AssessRaises ==
    /\ BookTaskRaises
    /\ todo' = NoneLeft /\ new_results' = Nothing /\ valid_count' = 0
    /\ UNCHANGED opportunity_rows

AssessListed(m) ==
    /\ bookTask = "scanning" /\ todo[m] = "listed"
    /\ BothBooks(m)
    /\ \/ /\ todo' = [todo EXCEPT ![m] = "absent"]
          /\ AssessMarket(m, "KNOWN")
          /\ UNCHANGED <<phase, marketTask, bookTask>>
       \/ AssessRaises
    /\ UNCHANGED <<socketTask, markets, books, boardVars, fee_reasons,
                   clob_status, tokens, current, market_rows>>

(* fetch_fee awaits an answer of the CLOB: the event loop is free again. *)
LookUpFee(m) ==
    /\ bookTask = "scanning" /\ todo[m] = "lookup"
    /\ BothBooks(m)
    /\ todo' = [todo EXCEPT ![m] = "absent"]
    /\ current' = m /\ bookTask' = "awaiting_fee"
    /\ UNCHANGED <<phase, marketTask, socketTask, markets, books, boardVars,
                   fee_reasons, clob_status, tokens, new_results, valid_count,
                   storeVars>>

(* Only an unknown fee comes with a reason. *)
NoteReason(m, fee) ==
    fee_reasons' = IF fee = "FEE_UNKNOWN" THEN fee_reasons \cup {m} ELSE fee_reasons

(* Every failure of the lookup is turned into FEE_UNKNOWN with a reason.   *)
FeeAnswered(fee) ==
    /\ LoopFree /\ bookTask = "awaiting_fee"
    /\ NoteReason(current, fee)
    /\ \/ /\ bookTask' = "scanning"
          /\ AssessMarket(current, fee)
          /\ UNCHANGED <<phase, marketTask, todo>>
       \/ AssessRaises
    /\ current' = NoMarket
    /\ UNCHANGED <<socketTask, markets, books, boardVars, clob_status, tokens,
                   market_rows>>

PublishScan ==
    /\ bookTask = "scanning" /\ Loaded(todo) = {}
    /\ results' = new_results /\ opportunity_count' = valid_count
    /\ new_results' = Nothing /\ valid_count' = 0
    /\ BooksReturned
    /\ UNCHANGED <<socketTask, markets, books, fee_reasons, clob_status,
                   tokens, todo, current, storeVars>>

-----------------------------------------------------------------------------
(* handle_websocket: a pushed book is installed whatever its asset id. *)
WebSocketBook(t) ==
    /\ phase = "serving" /\ LoopFree
    /\ books' = books \cup {t}
    /\ UNCHANGED <<phase, marketTask, bookTask, socketTask, markets, boardVars,
                   fee_reasons, clob_status, tokens, scanVars, storeVars>>

-----------------------------------------------------------------------------
(* stop(): the event is set and every task cancelled before the next await.  *)
Stop ==
    /\ phase = "serving" /\ LoopFree
    /\ phase' = "stopping"
    /\ UNCHANGED <<marketTask, bookTask, socketTask, markets, books, boardVars,
                   fee_reasons, clob_status, tokens, scanVars, storeVars>>

(* No handler of the code catches the cancellation, at whatever await the    *)
(* coroutine stands, and the pause between polls ends with the event.        *)
MarketCancelled ==
    /\ phase = "stopping" /\ marketTask \in {"geoblock", "fetching", "wait"}
    /\ marketTask' = "ended"
    /\ UNCHANGED <<phase, bookTask, socketTask, markets, books, boardVars,
                   fee_reasons, clob_status, tokens, scanVars, storeVars>>

(* A scan that is cut off loses its locals; what it has recorded stays. *)
BookCancelled ==
    /\ phase = "stopping" /\ bookTask \in {"wait", "fetching", "awaiting_fee"}
    /\ bookTask' = "ended" /\ tokens' = {}
    /\ todo' = NoneLeft /\ current' = NoMarket
    /\ new_results' = Nothing /\ valid_count' = 0
    /\ UNCHANGED <<phase, marketTask, socketTask, markets, books, boardVars,
                   fee_reasons, clob_status, storeVars>>

(* The web socket task awaits once more when it is cancelled: leaving the    *)
(* connection's context waits for the closing handshake.  Where it has no    *)
(* open connection, or is closing one already, the cancellation ends it.     *)
SocketCancelled ==
    /\ phase = "stopping" /\ socketTask = "running"
    /\ socketTask' \in {"closing", "ended"}
    /\ UNCHANGED <<phase, marketTask, bookTask, markets, books, boardVars,
                   fee_reasons, clob_status, tokens, scanVars, storeVars>>

SocketClosed ==
    /\ socketTask = "closing"
    /\ socketTask' = "ended"
    /\ UNCHANGED <<phase, marketTask, bookTask, markets, books, boardVars,
                   fee_reasons, clob_status, tokens, scanVars, storeVars>>

(* Mutant of Gathered: without return_exceptions the first cancelled task    *)
(* makes gather raise, and stop() does not get to the closing.               *)
GatheredOrRaised == {marketTask, bookTask, socketTask} \subseteq {"dead"}

(* gather(..., return_exceptions=True): all three tasks are over, however    *)
(* they ended.                                                               *)
Gathered == {marketTask, bookTask, socketTask} \subseteq {"ended", "dead"}

(* http.close() is awaited; if it raises, stop() ends there and the store is *)
(* never closed.                                                             *)
Close ==
    /\ phase = "stopping" /\ Gathered
    /\ phase' = "closed" \/ (LocalFaults /\ phase' = "aborted")
    /\ UNCHANGED <<marketTask, bookTask, socketTask, markets, books, boardVars,
                   fee_reasons, clob_status, tokens, scanVars, storeVars>>

MarketStep ==
    \/ MarketTimer
    \/ \E c \in Listings : MarketsRefreshed(c)
    \/ \E stored \in SUBSET Market : MarketsFailed(stored)
    \/ \E c \in Listings : MarketsLogFailed(c)
    \/ GeoblockChecked
    \/ MarketCancelled

ScanStep ==
    \/ \E m \in Market : SkipMarket(m) \/ AssessListed(m) \/ LookUpFee(m)
    \/ \E fee \in FeeStatus : FeeAnswered(fee)
    \/ PublishScan

BookStep ==
    \/ BookTimer
    \/ \E answered \in SUBSET Token : BooksFetched(answered)
    \/ BooksFailed
    \/ ScanStep
    \/ BookCancelled

SocketStep ==
    \/ \E t \in Token : WebSocketBook(t)
    \/ SocketCancelled
    \/ SocketClosed

Next == MarketStep \/ BookStep \/ SocketStep \/ Stop \/ Close

Spec == Init /\ [][Next]_vars

(* Every await of the book coroutine ends: a request makes at most three     *)
(* attempts with a timeout each, and the pause between polls is a timer.     *)
(* The market coroutine's awaits end too, but it may find the loop taken by  *)
(* a scan, which disables its steps for a moment; the ready queue of asyncio *)
(* is first in, first out, so it gets its turn: strong fairness.  Nothing is *)
(* assumed of the moment the application is stopped.  The closing handshake  *)
(* ends by its timeout of five seconds, answered or not.                     *)
Fairness ==
    /\ WF_vars(BookStep) /\ SF_vars(MarketStep)
    /\ WF_vars(SocketCancelled) /\ WF_vars(SocketClosed) /\ WF_vars(Close)

FairSpec == Spec /\ Fairness

(* On top of it, the CLOB answers a whole batch again and again. *)
AnsweringSpec == FairSpec /\ SF_vars(BooksFetched(tokens))

-----------------------------------------------------------------------------
TypeOK ==
    /\ phase \in {"boot", "failed", "serving", "stopping", "closed", "aborted"}
    /\ marketTask \in {"geoblock", "fetching", "wait", "dead", "ended"}
    /\ bookTask \in {"wait", "fetching", "scanning", "awaiting_fee", "dead", "ended"}
    /\ socketTask \in {"running", "closing", "ended"}
    /\ markets \in Catalog /\ todo \in Catalog
    /\ books \subseteq Token /\ tokens \subseteq Token
    /\ results \in Board /\ new_results \in Board
    /\ fee_reasons \subseteq Market /\ market_rows \subseteq Market
    /\ opportunity_count \in Nat /\ valid_count \in Nat
    /\ clob_status \in {"unchecked", "ok", "error"}
    /\ current \in Market \cup {NoMarket}
    /\ bookTask = "awaiting_fee" => current \in Market
    /\ opportunity_rows \in [Market -> [Hash -> Row]]

(* An unknown fee fails closed: a row of the opportunities table holds a     *)
(* result that was computed with a known fee.  Several steps lie between the *)
(* lookup and the upsert, for each market of each scan.                      *)
FailClosed ==
    \A m \in Market, h \in Hash : LET row == opportunity_rows[m][h] IN
        row # NoRow => row.payload.fee = "KNOWN"

(* A result with status VALID, published or about to be, has a known fee:    *)
(* the console lists and trades by the status, not by the fee.               *)
ValidFeeIsKnown ==
    \A m \in Market, board \in {results, new_results} :
        board[m] # NoResult /\ board[m].status = "VALID" => board[m].fee = "KNOWN"

(* The opportunities table vouches for every opportunity the console can     *)
(* show: the row of its books is there and its profit lies between the       *)
(* lowest and the highest recorded.  The scan wrote the row markets and      *)
(* awaits before it published the dictionary, and the next scan may already  *)
(* have overwritten the result in the row (the fingerprint leaves the fee    *)
(* and the buffers out, and a hash may be empty).                            *)
PublishedIsPersisted == \A m \in ValidIn(results) : Recorded(m, results[m])

(* The opportunity count of the status page is the number of published       *)
(* results the rule layer accepts, whatever was refreshed or failed since.   *)
CountMatches == opportunity_count = Cardinality(ValidIn(results))

(* A market the runtime holds is in the markets table, also after a refresh  *)
(* that failed half way and after one whose log entry could not be written.  *)
LoadedIsStored == Loaded(markets) \subseteq market_rows

(* A market shown with an unknown fee is shown with a reason: fee_reasons is *)
(* filled during the scan, the result is published at its end.               *)
UnknownHasReason ==
    \A m \in Market : results[m] # NoResult /\ results[m].fee = "FEE_UNKNOWN"
                        => m \in fee_reasons

(* The scan is only about markets whose two books are held to its end:       *)
(* pushed books arrive while it awaits a fee and may not take one away.      *)
ScannedHasBooks ==
    \A m \in Market :
        new_results[m] # NoResult \/ current = m => {m} \X Side \subseteq books

(* A row holds an accepted result of its own books, whose profit is one of   *)
(* those it has recorded.                                                    *)
RowsSound ==
    \A m \in Market, h \in Hash : LET row == opportunity_rows[m][h] IN
        row = NoRow \/ /\ row.payload \in ValidResults /\ row.payload.hash = h
                       /\ row.payload.net \in row.profits
                       /\ row.profits \subseteq {"good", "better"}

(* The scan under way, between any two of its steps: no market is assessed   *)
(* twice or while its fee is awaited, the running count is that of the new   *)
(* dictionary, and the table vouches for the opportunities in it; start()    *)
(* awaits one refresh at a time; stop() finds no scan between two awaits and *)
(* closes nothing that one of its three tasks still uses.                    *)
(* With it the properties above are inductive.                               *)
ScanOnTrack ==
    /\ phase \in {"boot", "failed"} => bookTask = "wait" \/ marketTask = "wait"
    /\ phase = "stopping" => bookTask # "scanning"
    /\ phase \in {"closed", "aborted"} =>
         {marketTask, bookTask, socketTask} \subseteq {"ended", "dead"}
    /\ bookTask \notin {"scanning", "awaiting_fee"}
         => todo = NoneLeft /\ new_results = Nothing
    /\ bookTask # "awaiting_fee" => current = NoMarket
    /\ \A m \in Market :
         new_results[m] # NoResult => todo[m] = "absent" /\ current # m
    /\ \A m \in Market : current = m => todo[m] = "absent"
    /\ valid_count = Cardinality(ValidIn(new_results))
    /\ \A m \in ValidIn(new_results) : Recorded(m, new_results[m])
    /\ RowsSound
    /\ \A m \in Market :
         new_results[m] # NoResult /\ new_results[m].fee = "FEE_UNKNOWN" => m \in fee_reasons

IInv ==
    /\ TypeOK /\ FailClosed /\ ValidFeeIsKnown /\ PublishedIsPersisted
    /\ CountMatches /\ LoadedIsStored /\ UnknownHasReason /\ ScannedHasBooks /\ ScanOnTrack

-----------------------------------------------------------------------------
(* The runtime keeps the promise of OpportunityBoard: the table comes to     *)
(* vouch for accepted results with a known fee only and never ceases to, a   *)
(* board is shown only when the table vouches for its opportunities, and     *)
(* board and count are exchanged together.  Everything else the runtime does *)
(* (requests, failed refreshes, pushed books, dying tasks) is invisible.     *)
Vouched(m) == UNION {VouchedFor(opportunity_rows[m][h]) : h \in Hash}

Promise == INSTANCE OpportunityBoard WITH
    Result      <- DepthResult,
    Opportunity <- ValidResults,
    FeeKnown    <- KnownResults,
    shown <- results, count <- opportunity_count,
    ledger <- UNION {{m} \X Vouched(m) : m \in Market}

KeepsPromise == Promise!Spec

-----------------------------------------------------------------------------
(* Liveness, as long as no local fault ends a coroutine (LocalFaults FALSE). *)

Stopped == phase \in {"stopping", "closed", "aborted"}

(* Both polling coroutines come back to their timers for ever, until they    *)
(* are stopped, although they share one event loop, nest two requests each   *)
(* and go on after failures.                                                 *)
LoopsReturn ==
    /\ []<>(marketTask = "wait" \/ Stopped)
    /\ []<>(bookTask = "wait" \/ Stopped)

(* stop() ends: client and store are closed whatever the three tasks were    *)
(* awaiting when they were cancelled, in the middle of a scan or with the    *)
(* closing handshake of the web socket still to be waited for.               *)
ShutdownEnds == phase = "stopping" ~> phase = "closed"

(* A market that Gamma no longer lists leaves the console for good, though a *)
(* scan under way may publish it once more, provided that other markets are  *)
(* listed and the CLOB keeps answering: with nothing listed no scan starts.  *)
DelistedLeaves ==
    \A m \in Market :
        <>[](markets[m] = "absent" /\ Loaded(markets) # {} /\ phase = "serving")
            => <>[](results[m] = NoResult)

(* A market that stays listed is assessed and shown again and again, however *)
(* often other answers lack its books or other markets come and go.          *)
ListedIsShown ==
    \A m \in Market :
        <>[](markets[m] # "absent" /\ phase = "serving") => []<>(results[m] # NoResult)

=============================================================================
