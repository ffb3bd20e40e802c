------------------------------- MODULE Console -------------------------------
(***************************************************************************)
(* The JSON console (src/app/main.py) on top of the scanner runtime.  The  *)
(* handlers are plain functions, so the framework runs each request in a   *)
(* thread of its pool: between any two reads of the runtime's dictionaries *)
(* the event loop may exchange them, even in the middle of a scan.         *)
(***************************************************************************)
EXTENDS Scanner

CONSTANT Request  \* requests that may be under way at once

VARIABLES
    handler,      \* what each request is doing
    subject,      \* paper trade: the market asked for
    found,        \* paper trade: rt.markets had the market
    held,         \* paper trade: the result that was read
    snapshot,     \* opportunities: the results dictionary being listed
    items,        \* opportunities: what the answer being written lists
    answer,       \* the last answer: a status code, or none yet
    paper_rows    \* what was ever written to the paper_trades table

handlerVars == <<handler, subject, found, held, snapshot, items, answer>>
consoleVars == <<handlerVars, paper_rows>>
allVars     == <<vars, consoleVars>>

PaperStatus == {"SUCCESS", "FAILED"}
PaperRow    == [market: Market, result: DepthResult, status: PaperStatus]

(* The test of opportunities_api: the status and the minimum profit only. *)
Listable(r) == r # NoResult /\ r.status = "VALID" /\ r.net \in {"refused", "good", "better"}

-----------------------------------------------------------------------------
ConsoleInit ==
    /\ Init
    /\ handler = [q \in Request |-> "idle"]
    /\ subject = [q \in Request |-> NoMarket]
    /\ found = [q \in Request |-> FALSE]
    /\ held = [q \in Request |-> NoResult]
    /\ snapshot = [q \in Request |-> Nothing]
    /\ items = [q \in Request |-> {}]
    /\ answer = [q \in Request |-> "none"]
    /\ paper_rows = {}

(* Requests are served once start() has returned. *)
Receive(q, what) ==
    /\ phase = "serving" /\ handler[q] = "idle"
    /\ handler' = [handler EXCEPT ![q] = what]

Reply(q, code) ==
    /\ handler' = [handler EXCEPT ![q] = "idle"]
    /\ answer' = [answer EXCEPT ![q] = code]

(* GET /api/opportunities iterates over the dictionary that self.results is  *)
(* bound to now; a later scan binds another one.                             *)
ListOpportunities(q) ==
    /\ Receive(q, "listing")
    /\ snapshot' = [snapshot EXCEPT ![q] = results]
    /\ UNCHANGED <<vars, subject, found, held, items, answer, paper_rows>>

(* One entry: its market is looked up in self.markets as it is by now, and   *)
(* rt.markets[market_id] raises when it is gone.                             *)
ListEntry(q, m) ==
    /\ handler[q] = "listing" /\ Listable(snapshot[q][m])
    /\ \/ /\ markets[m] # "absent"
          /\ items' = [items EXCEPT ![q] = @ \cup {<<m, snapshot[q][m]>>}]
          /\ snapshot' = [snapshot EXCEPT ![q][m] = NoResult]
          /\ UNCHANGED <<handler, answer>>
       \/ /\ markets[m] = "absent"
          /\ snapshot' = [snapshot EXCEPT ![q] = Nothing]
          /\ Reply(q, "500")
          /\ items' = [items EXCEPT ![q] = {}]
    /\ UNCHANGED <<vars, subject, found, held, paper_rows>>

ListingDone(q) ==
    /\ handler[q] = "listing" /\ \A m \in Market : ~Listable(snapshot[q][m])
    /\ Reply(q, "200")
    /\ snapshot' = [snapshot EXCEPT ![q] = Nothing]
    /\ items' = [items EXCEPT ![q] = {}]
    /\ UNCHANGED <<vars, subject, found, held, paper_rows>>

(* POST /api/paper-trades: rt.markets.get ... *)
TradePaper(q, m) ==
    /\ Receive(q, "trading")
    /\ subject' = [subject EXCEPT ![q] = m]
    /\ found' = [found EXCEPT ![q] = markets[m] # "absent"]
    /\ UNCHANGED <<vars, held, snapshot, items, answer, paper_rows>>

(* ... then rt.results.get, and 409 unless both were there. *)
ReadResult(q) ==
    /\ handler[q] = "trading"
    /\ found' = [found EXCEPT ![q] = FALSE]
    /\ IF found[q] /\ results[subject[q]] # NoResult
         THEN /\ handler' = [handler EXCEPT ![q] = "storing"]
              /\ held' = [held EXCEPT ![q] = results[subject[q]]]
              /\ UNCHANGED <<subject, answer>>
         ELSE /\ Reply(q, "409")
              /\ subject' = [subject EXCEPT ![q] = NoMarket]
              /\ UNCHANGED held
    /\ UNCHANGED <<vars, snapshot, items, paper_rows>>

(* Mutants of AddPaperTrade: anything but missing asks is a success; the row *)
(* takes over the status of the result.                                      *)
TradeUnlessEmpty(m, r) ==
    paper_rows' = paper_rows \cup
        {[market |-> m, result |-> r,
          status |-> IF r.status # "NO_ASKS" THEN "SUCCESS" ELSE "FAILED"]}

TradeByResult(m, r) ==
    paper_rows' = paper_rows \cup {[market |-> m, result |-> r, status |-> r.status]}

(* add_paper_trade: the row takes its status from that of the result.        *)
AddPaperTrade(m, r) ==
    paper_rows' = paper_rows \cup
        {[market |-> m, result |-> r,
          status |-> IF r.status = "VALID" THEN "SUCCESS" ELSE "FAILED"]}

(* The insert may be refused by SQLite, and then the request fails. *)
StorePaper(q) ==
    /\ handler[q] = "storing"
    /\ \/ AddPaperTrade(subject[q], held[q]) /\ Reply(q, "200")
       \/ LocalFaults /\ Reply(q, "500") /\ UNCHANGED paper_rows
    /\ subject' = [subject EXCEPT ![q] = NoMarket]
    /\ held' = [held EXCEPT ![q] = NoResult]
    /\ UNCHANGED <<vars, found, snapshot, items>>

RequestStep(q) ==
    \/ ListOpportunities(q)
    \/ ListingDone(q)
    \/ ReadResult(q)
    \/ StorePaper(q)
    \/ \E m \in Market : ListEntry(q, m) \/ TradePaper(q, m)

ConsoleNext ==
    \/ Next /\ UNCHANGED consoleVars
    \/ \E q \in Request : RequestStep(q)

ConsoleSpec == ConsoleInit /\ [][ConsoleNext]_allVars

-----------------------------------------------------------------------------
ConsoleTypeOK ==
    /\ handler \in [Request -> {"idle", "listing", "trading", "storing"}]
    /\ subject \in [Request -> Market \cup {NoMarket}]
    /\ found \in [Request -> BOOLEAN]
    /\ held \in [Request -> DepthResult \cup {NoResult}]
    /\ snapshot \in [Request -> Board]
    /\ items \in [Request -> SUBSET (Market \X DepthResult)]
    /\ answer \in [Request -> {"none", "200", "409", "500"}]
    /\ paper_rows \subseteq PaperRow

(* A market whose fee is unknown "cannot produce a successful paper record"  *)
(* (README), however the reads of the request fall between the scans.        *)
PaperFailsClosed ==
    \A p \in paper_rows : p.status = "SUCCESS" => p.result.fee = "KNOWN"

(* A paper trade of an opportunity the rule layer accepted can be traced to  *)
(* the opportunities table: the row of the same market and books is there,   *)
(* and the traded profit lies between the lowest and the highest it records, *)
(* though later scans may have overwritten the result in the row before the  *)
(* request, which read market and result at different moments, is done.      *)
PaperIsTraceable ==
    \A p \in paper_rows : IsValid(p.result) => Recorded(p.market, p.result)

(* Only a market that Gamma once listed and the runtime stored gets a paper  *)
(* trade, even if it has been dropped by the time the row is written.        *)
PaperMarketIsStored == \A p \in paper_rows : p.market \in market_rows

(* The opportunities table vouches for what the opportunities answer lists   *)
(* as accepted, though the board may be exchanged, and the rows overwritten, *)
(* while the answer is put together.                                         *)
ListedIsRecorded ==
    \A q \in Request : \A e \in items[q] : IsValid(e[2]) => Recorded(e[1], e[2])

(* What a request holds between its steps was true when it was read and has  *)
(* been recorded; rows are never removed and the interval of their profits   *)
(* only grows, so the table goes on vouching for it.                         *)
HeldIsRecorded ==
    /\ \A q \in Request : handler[q] = "storing" =>
         /\ subject[q] \in Market /\ held[q] \in DepthResult
         /\ subject[q] \in market_rows
         /\ held[q].status = "VALID" => held[q].fee = "KNOWN"
         /\ IsValid(held[q]) => Recorded(subject[q], held[q])
    /\ \A q \in Request : handler[q] = "trading" =>
         subject[q] \in Market /\ (found[q] => subject[q] \in market_rows)
    /\ \A q \in Request, m \in Market :
         IsValid(snapshot[q][m]) => Recorded(m, snapshot[q][m])

(* README.md, screenshots: the opportunity page shows "the genuine empty     *)
(* state".  With SQLite sound, no request for the opportunities is answered  *)
(* with an internal error.  It is when a listed market has been dropped.     *)
OpportunitiesAnswered == \A q \in Request : answer[q] # "500"

=============================================================================
