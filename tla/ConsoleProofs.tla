---------------------------- MODULE ConsoleProofs ----------------------------
(***************************************************************************)
(* Proofs about the console: what a request that reads the dictionaries    *)
(* one after the other can rely on, for any number of requests.            *)
(***************************************************************************)
EXTENDS Console, ScannerProofs

ConsoleInv ==
    /\ IInv /\ ConsoleTypeOK /\ HeldIsRecorded
    /\ PaperFailsClosed /\ PaperIsTraceable /\ PaperMarketIsStored /\ ListedIsRecorded

-----------------------------------------------------------------------------
(* No step of the runtime removes a row or narrows what it vouches for. *)
LEMMA RowsGrow ==
    ASSUME IInv, [Next]_vars
    PROVE  market_rows \subseteq market_rows' /\ TableGrows
<1>1. ASSUME opportunity_rows' = opportunity_rows PROVE TableGrows
  BY <1>1 DEF TableGrows
<1>2. ASSUME NEW m \in Market, NEW fee \in FeeStatus, AssessMarket(m, fee) PROVE TableGrows
  <2>1. PICK r \in DepthResult :
           /\ IsValid(r) => r.fee = "KNOWN"
           /\ IF IsValid(r) THEN UpsertOpportunity(m, r) ELSE UNCHANGED opportunity_rows
    BY <1>2, AssessedOne
  <2>2. TypeOK /\ FailClosed /\ RowsSound
    BY DEF IInv, ScanOnTrack
  <2>3. QED
    BY <1>1, <2>1, <2>2, UpsertGrows
<1> USE DEF boardVars, scanVars, storeVars
<1>3. CASE MarketStep
  BY <1>1, <1>3 DEF MarketStep, MarketTimer, MarketsRefreshed, MarketsFailed,
     MarketsLogFailed, UpsertMarkets, GeoblockChecked, MarketCancelled
<1>4. CASE BookTimer \/ (\E answered \in SUBSET Token : BooksFetched(answered))
           \/ BooksFailed \/ PublishScan \/ BookCancelled \/ Stop \/ Close
  BY <1>1, <1>4 DEF BookTimer, BooksFetched, BooksFailed, PublishScan, BookCancelled, Stop, Close
<1>5. ASSUME NEW m \in Market, SkipMarket(m) \/ LookUpFee(m)
      PROVE  market_rows' = market_rows /\ TableGrows
  BY <1>1, <1>5 DEF SkipMarket, LookUpFee
<1>6. ASSUME NEW m \in Market, AssessListed(m)
      PROVE  market_rows' = market_rows /\ TableGrows
  BY <1>1, <1>2, <1>6 DEF AssessListed, AssessRaises, FeeStatus
<1>7. ASSUME NEW fee \in FeeStatus, FeeAnswered(fee)
      PROVE  market_rows' = market_rows /\ TableGrows
  BY <1>1, <1>2, <1>7 DEF FeeAnswered, AssessRaises, IInv, TypeOK
<1>8. CASE SocketStep
  BY <1>1, <1>8 DEF SocketStep, WebSocketBook, SocketCancelled, SocketClosed
<1>9. CASE UNCHANGED vars
  BY <1>1, <1>9 DEF vars
<1>10. QED
  BY <1>3, <1>4, <1>5, <1>6, <1>7, <1>8, <1>9 DEF Next, BookStep, ScanStep

LEMMA ConsoleInitInv == ConsoleInit => ConsoleInv
<1> SUFFICES ASSUME ConsoleInit PROVE ConsoleInv
  OBVIOUS
<1>1. IInv
  BY InductiveInit DEF ConsoleInit
<1>2. ConsoleTypeOK
  BY EmptyFacts DEF ConsoleInit, ConsoleTypeOK, PaperRow
<1>3. HeldIsRecorded /\ ListedIsRecorded
  BY ValidInNothing DEF ConsoleInit, HeldIsRecorded, ListedIsRecorded, IsValid, Nothing
<1>4. PaperFailsClosed /\ PaperIsTraceable /\ PaperMarketIsStored
  BY DEF ConsoleInit, PaperFailsClosed, PaperIsTraceable, PaperMarketIsStored
<1>5. QED
  BY <1>1, <1>2, <1>3, <1>4 DEF ConsoleInv

(* A step of the runtime, during which the requests stand still. *)
LEMMA RuntimeStepInv ==
    ASSUME ConsoleInv, [Next]_vars, UNCHANGED consoleVars
    PROVE  ConsoleInv'
<1>1. IInv'
  BY InductiveStep DEF ConsoleInv
<1>2. /\ market_rows \subseteq market_rows'
      /\ \A m \in Market, r \in DepthResult : Recorded(m, r) => Recorded(m, r)'
  BY RowsGrow, StaysRecorded DEF ConsoleInv
<1> USE DEF consoleVars, handlerVars, ConsoleInv
<1>3. ConsoleTypeOK'
  BY DEF ConsoleTypeOK
<1>4. HeldIsRecorded'
  <2>1. ASSUME NEW q \in Request, handler'[q] = "storing", IsValid(held'[q])
        PROVE  Recorded(subject[q], held[q])'
    BY <1>2, <2>1 DEF HeldIsRecorded
  <2>2. ASSUME NEW q \in Request, NEW m \in Market, IsValid(snapshot'[q][m])
        PROVE  Recorded(m, snapshot[q][m])'
    <3>1. snapshot[q][m] \in DepthResult /\ Recorded(m, snapshot[q][m])
      BY <2>2 DEF HeldIsRecorded, ConsoleTypeOK, Board, IsValid
    <3>2. QED
      BY <1>2, <3>1 DEF Recorded
  <2>3. QED
    BY <1>2, <2>1, <2>2 DEF HeldIsRecorded
<1>5. ListedIsRecorded'
  <2>1. ASSUME NEW q \in Request, NEW e \in items'[q], IsValid(e[2])
        PROVE  Recorded(e[1], e[2])'
    BY <1>2, <2>1 DEF ListedIsRecorded, ConsoleTypeOK
  <2>2. QED
    BY <2>1 DEF ListedIsRecorded
<1>6. PaperFailsClosed' /\ PaperIsTraceable' /\ PaperMarketIsStored'
  <2>1. ASSUME NEW p \in paper_rows', IsValid(p.result)
        PROVE  Recorded(p.market, p.result)'
    BY <1>2, <2>1 DEF PaperIsTraceable, ConsoleTypeOK, PaperRow
  <2>2. QED
    BY <1>2, <2>1 DEF PaperFailsClosed, PaperIsTraceable, PaperMarketIsStored
<1>7. QED
  BY <1>1, <1>3, <1>4, <1>5, <1>6

LEMMA RequestStepInv ==
    ASSUME ConsoleInv, NEW q \in Request, RequestStep(q)
    PROVE  ConsoleInv'
<1>1. UNCHANGED vars
  BY DEF RequestStep, ListOpportunities, ListingDone, ReadResult, StorePaper, ListEntry,
     TradePaper
<1>2. IInv'
  BY <1>1, InductiveStep DEF ConsoleInv
<1>3. /\ UNCHANGED <<results, markets, market_rows, opportunity_rows>>
      /\ results \in Board
  BY <1>1 DEF vars, ConsoleInv, IInv, TypeOK
<1> DEFINE Kept == /\ ConsoleTypeOK /\ HeldIsRecorded /\ PaperFailsClosed
                   /\ PaperIsTraceable /\ PaperMarketIsStored /\ ListedIsRecorded
<1> SUFFICES Kept'
  BY <1>2 DEF ConsoleInv
<1> USE DEF ConsoleInv, ConsoleTypeOK, Recorded
<1>4. CASE ListOpportunities(q)
  <2>1. ConsoleTypeOK'
    BY <1>3, <1>4 DEF ListOpportunities, Receive
  <2>2. HeldIsRecorded'
    BY <1>3, <1>4 DEF ListOpportunities, Receive, HeldIsRecorded, IInv,
       PublishedIsPersisted, ValidIn
  <2>3. PaperFailsClosed' /\ PaperIsTraceable' /\ PaperMarketIsStored' /\ ListedIsRecorded'
    BY <1>3, <1>4 DEF ListOpportunities, PaperFailsClosed, PaperIsTraceable,
       PaperMarketIsStored, ListedIsRecorded
  <2>4. QED
    BY <2>1, <2>2, <2>3
<1>5. ASSUME NEW m \in Market, ListEntry(q, m)
      PROVE  Kept'
  <2>1. snapshot[q] \in Board /\ snapshot[q][m] \in DepthResult
    BY <1>5 DEF ListEntry, Listable, Board
  <2>2. snapshot' \in [Request -> Board]
    <3>1. [snapshot[q] EXCEPT ![m] = NoResult] \in Board
      BY <2>1 DEF Board
    <3>2. snapshot' = [snapshot EXCEPT ![q] = Nothing]
          \/ snapshot' = [snapshot EXCEPT ![q] = [snapshot[q] EXCEPT ![m] = NoResult]]
      BY <1>5 DEF ListEntry
    <3>3. QED
      BY <3>1, <3>2, EmptyFacts
  <2>3. ConsoleTypeOK'
    BY <1>5, <2>1, <2>2 DEF ListEntry, Reply
  <2>4. \A p \in Request, n \in Market :
          IsValid(snapshot'[p][n]) => snapshot'[p][n] = snapshot[p][n]
    BY <1>5, <2>1 DEF ListEntry, IsValid, Nothing, Board
  <2>5. \A p \in Request :
          handler'[p] \in {"storing", "trading"} => handler'[p] = handler[p]
    BY <1>5 DEF ListEntry, Reply
  <2>6. HeldIsRecorded'
    BY <1>3, <1>5, <2>4, <2>5 DEF ListEntry, HeldIsRecorded
  <2>7. ListedIsRecorded'
    BY <1>3, <1>5 DEF ListEntry, HeldIsRecorded, ListedIsRecorded
  <2>8. PaperFailsClosed' /\ PaperIsTraceable' /\ PaperMarketIsStored'
    BY <1>3, <1>5 DEF ListEntry, PaperFailsClosed, PaperIsTraceable, PaperMarketIsStored
  <2>9. QED
    BY <2>3, <2>6, <2>7, <2>8
<1>6. CASE ListingDone(q)
  <2>1. ConsoleTypeOK'
    BY <1>6, EmptyFacts DEF ListingDone, Reply
  <2>2. HeldIsRecorded'
    BY <1>3, <1>6 DEF ListingDone, Reply, HeldIsRecorded, IsValid, Nothing
  <2>3. PaperFailsClosed' /\ PaperIsTraceable' /\ PaperMarketIsStored' /\ ListedIsRecorded'
    BY <1>3, <1>6 DEF ListingDone, PaperFailsClosed, PaperIsTraceable,
       PaperMarketIsStored, ListedIsRecorded
  <2>4. QED
    BY <2>1, <2>2, <2>3
<1>7. ASSUME NEW m \in Market, TradePaper(q, m)
      PROVE  Kept'
  <2>1. ConsoleTypeOK'
    BY <1>7 DEF TradePaper, Receive
  <2>2. HeldIsRecorded'
    BY <1>3, <1>7 DEF TradePaper, Receive, HeldIsRecorded, IInv, LoadedIsStored, Loaded
  <2>3. PaperFailsClosed' /\ PaperIsTraceable' /\ PaperMarketIsStored' /\ ListedIsRecorded'
    BY <1>3, <1>7 DEF TradePaper, PaperFailsClosed, PaperIsTraceable,
       PaperMarketIsStored, ListedIsRecorded
  <2>4. QED
    BY <2>1, <2>2, <2>3
<1>8. CASE ReadResult(q)
  <2>1. ConsoleTypeOK'
    <3>1. subject[q] \in Market /\ results[subject[q]] \in DepthResult \cup {NoResult}
      BY <1>3, <1>8 DEF ReadResult, HeldIsRecorded, Board
    <3>2. QED
      BY <1>8, <3>1 DEF ReadResult, Reply
  <2>2. HeldIsRecorded'
    <3>1. CASE found[q] /\ results[subject[q]] # NoResult
      <4>1. /\ subject[q] \in Market /\ subject[q] \in market_rows
            /\ results[subject[q]] \in DepthResult
            /\ results[subject[q]].status = "VALID" => results[subject[q]].fee = "KNOWN"
            /\ IsValid(results[subject[q]])
                 => Recorded(subject[q], results[subject[q]])
        BY <1>3, <1>8, <3>1 DEF ReadResult, HeldIsRecorded, IInv, PublishedIsPersisted,
           ValidFeeIsKnown, ValidIn, Board
      <4>2. /\ handler' = [handler EXCEPT ![q] = "storing"]
            /\ held' = [held EXCEPT ![q] = results[subject[q]]]
            /\ found' = [found EXCEPT ![q] = FALSE]
            /\ UNCHANGED <<subject, snapshot>>
        BY <1>8, <3>1 DEF ReadResult
      <4>3. QED
        BY <1>3, <4>1, <4>2 DEF HeldIsRecorded
    <3>2. CASE ~(found[q] /\ results[subject[q]] # NoResult)
      <4>1. /\ handler' = [handler EXCEPT ![q] = "idle"]
            /\ subject' = [subject EXCEPT ![q] = NoMarket]
            /\ found' = [found EXCEPT ![q] = FALSE]
            /\ UNCHANGED <<held, snapshot>>
        BY <1>8, <3>2 DEF ReadResult, Reply
      <4>2. QED
        BY <1>3, <4>1 DEF HeldIsRecorded
    <3>3. QED
      BY <3>1, <3>2
  <2>3. PaperFailsClosed' /\ PaperIsTraceable' /\ PaperMarketIsStored' /\ ListedIsRecorded'
    BY <1>3, <1>8 DEF ReadResult, PaperFailsClosed, PaperIsTraceable,
       PaperMarketIsStored, ListedIsRecorded
  <2>4. QED
    BY <2>1, <2>2, <2>3
<1>9. CASE StorePaper(q)
  <2>1. ConsoleTypeOK'
    <3>1. subject[q] \in Market /\ held[q] \in DepthResult
      BY <1>9 DEF StorePaper, AddPaperTrade, HeldIsRecorded
    <3>2. [market |-> subject[q], result |-> held[q],
           status |-> IF held[q].status = "VALID" THEN "SUCCESS" ELSE "FAILED"] \in PaperRow
      BY <3>1 DEF PaperRow, PaperStatus
    <3>3. QED
      BY <1>9, <3>2 DEF StorePaper, AddPaperTrade, Reply
  <2>2. HeldIsRecorded'
    <3>1. /\ handler' = [handler EXCEPT ![q] = "idle"]
          /\ subject' = [subject EXCEPT ![q] = NoMarket]
          /\ held' = [held EXCEPT ![q] = NoResult]
          /\ UNCHANGED <<found, snapshot>>
      BY <1>9 DEF StorePaper, AddPaperTrade, Reply
    <3>2. QED
      BY <1>3, <3>1 DEF HeldIsRecorded
  <2>3. PaperFailsClosed' /\ PaperIsTraceable' /\ PaperMarketIsStored'
    <3> DEFINE row == [market |-> subject[q], result |-> held[q],
                       status |-> IF held[q].status = "VALID" THEN "SUCCESS" ELSE "FAILED"]
    <3>1. /\ row.status = "SUCCESS" => row.result.fee = "KNOWN"
          /\ IsValid(row.result) => Recorded(row.market, row.result)
          /\ row.market \in market_rows
      BY <1>9 DEF StorePaper, AddPaperTrade, HeldIsRecorded
    <3>2. paper_rows' \subseteq paper_rows \cup {row}
      BY <1>9 DEF StorePaper, AddPaperTrade
    <3> HIDE DEF row
    <3>3. QED
      BY <1>3, <3>1, <3>2 DEF PaperFailsClosed, PaperIsTraceable, PaperMarketIsStored
  <2>4. ListedIsRecorded'
    BY <1>3, <1>9 DEF StorePaper, AddPaperTrade, ListedIsRecorded
  <2>5. QED
    BY <2>1, <2>2, <2>3, <2>4
<1>10. QED
  BY <1>4, <1>5, <1>6, <1>7, <1>8, <1>9 DEF RequestStep

LEMMA ConsoleInductive == ConsoleSpec => []ConsoleInv
<1>1. ConsoleInv /\ [ConsoleNext]_allVars => ConsoleInv'
  BY RuntimeStepInv, RequestStepInv DEF ConsoleNext, allVars
<1>2. QED
  BY <1>1, ConsoleInitInv, PTL DEF ConsoleSpec

(* The console only reads the runtime: with any number of requests on top,   *)
(* the runtime takes the steps it could take without them, so whatever holds *)
(* of the scanner, the promise of OpportunityBoard included, holds below the *)
(* console.                                                                  *)
THEOREM ConsoleKeepsRuntime == ConsoleSpec => Spec
<1>1. ConsoleInit => Init
  BY DEF ConsoleInit
<1>2. ASSUME NEW q \in Request, RequestStep(q) PROVE UNCHANGED vars
  BY <1>2 DEF RequestStep, ListOpportunities, ListingDone, ReadResult, StorePaper,
              ListEntry, TradePaper
<1>3. [ConsoleNext]_allVars => [Next]_vars
  BY <1>2 DEF ConsoleNext, allVars
<1>4. QED
  BY <1>1, <1>3, PTL DEF ConsoleSpec, Spec

(* Every request keeps to the values its handler can hold. *)
THEOREM ConsoleTypeCorrect == ConsoleSpec => []ConsoleTypeOK
  BY ConsoleInductive, PTL DEF ConsoleInv

(* A market whose fee is unknown cannot produce a successful paper record.   *)
THEOREM PaperTradesFailClosed == ConsoleSpec => []PaperFailsClosed
  BY ConsoleInductive, PTL DEF ConsoleInv

(* A paper trade of an accepted opportunity is backed by the row of its      *)
(* books: the traded profit lies in the interval the table records.          *)
THEOREM PaperTradesTraceable == ConsoleSpec => []PaperIsTraceable
  BY ConsoleInductive, PTL DEF ConsoleInv

(* Every paper trade is about a market that was stored.                      *)
THEOREM PaperMarketsStored == ConsoleSpec => []PaperMarketIsStored
  BY ConsoleInductive, PTL DEF ConsoleInv

(* The table vouches for the accepted opportunities in an answer.            *)
THEOREM ListedOpportunitiesRecorded == ConsoleSpec => []ListedIsRecorded
  BY ConsoleInductive, PTL DEF ConsoleInv

-----------------------------------------------------------------------------
(* What it takes for the opportunities request to be answered (README.md's   *)
(* genuine empty state): that no refresh drops a market, and SQLite works.   *)
NothingDropped == Loaded(markets) \subseteq Loaded(markets')

(* Everything the scan is about, the board shows or a request lists belongs  *)
(* to a market that is loaded, so every lookup of rt.markets finds one.      *)
AllLoaded ==
    /\ \A m \in Market :
         todo[m] # "absent" \/ current = m \/ new_results[m] # NoResult \/ results[m] # NoResult
           => markets[m] # "absent"
    /\ \A q \in Request, m \in Market : snapshot[q][m] # NoResult => markets[m] # "absent"
    /\ OpportunitiesAnswered

(* The runtime: a scan is begun with the markets that are loaded. *)
LEMMA RuntimeKeepsLoaded ==
    ASSUME ConsoleTypeOK, AllLoaded, TypeOK, [Next]_vars, [NothingDropped]_vars,
           UNCHANGED consoleVars
    PROVE  AllLoaded'
<1>0. \A m \in Market : markets[m] # "absent" => markets'[m] # "absent"
  BY DEF NothingDropped, vars, Loaded
<1> USE DEF boardVars, scanVars, storeVars
<1>1. ASSUME NEW m \in Market,
             todo'[m] # "absent" \/ current' = m \/ new_results'[m] # NoResult \/ results'[m] # NoResult
      PROVE  markets'[m] # "absent"
  <2> DEFINE about(t, c, n, r) ==
        t[m] # "absent" \/ c = m \/ n[m] # NoResult \/ r[m] # NoResult
  <2>1. about(todo, current, new_results, results) => markets'[m] # "absent"
    BY <1>0 DEF AllLoaded
  <2>2. CASE MarketStep \/ BookTimer \/ BooksFailed \/ Stop \/ Close \/ SocketStep
    <3>1. UNCHANGED <<todo, current, new_results, results>>
      BY <2>2 DEF MarketStep, MarketTimer, MarketsRefreshed, MarketsFailed, MarketsLogFailed,
         GeoblockChecked, MarketCancelled, BookTimer, BooksFailed, Stop, Close,
         SocketStep, WebSocketBook, SocketCancelled, SocketClosed
    <3>2. QED
      BY <1>1, <2>1, <3>1
  <2>3. ASSUME NEW answered \in SUBSET Token, BooksFetched(answered)
        PROVE  markets'[m] # "absent"
    <3>1. /\ todo' = markets /\ current' = current /\ results' = results
          /\ new_results' = Nothing
      BY <2>3 DEF BooksFetched, FreshScan
    <3>2. new_results'[m] = NoResult
      BY <3>1 DEF Nothing
    <3>3. QED
      BY <1>0, <1>1, <2>1, <3>1, <3>2
  <2>4. CASE BookCancelled
    <3>1. todo'[m] = "absent" /\ new_results'[m] = NoResult /\ results' = results /\ current' = NoMarket
      BY <2>4 DEF BookCancelled, NoneLeft, Nothing
    <3>2. results[m] # NoResult
      BY <1>1, <3>1, ScannerAssumption
    <3>3. QED
      BY <2>1, <3>2
  <2>5. ASSUME NEW l \in Market, SkipMarket(l)
        PROVE  markets'[m] # "absent"
    BY <1>1, <2>1, <2>5 DEF SkipMarket, TypeOK, Catalog
  <2>6. ASSUME NEW l \in Market, LookUpFee(l)
        PROVE  markets'[m] # "absent"
    BY <1>1, <2>1, <2>6 DEF LookUpFee, TypeOK, Catalog
  <2>7. ASSUME NEW l \in Market, AssessListed(l)
        PROVE  markets'[m] # "absent"
    <3>1. /\ todo[l] # "absent" /\ results' = results /\ current' = current
          /\ todo'[m] # "absent" => todo[m] # "absent"
          /\ new_results'[m] # NoResult => new_results[m] # NoResult \/ m = l
      BY <2>7 DEF AssessListed, AssessMarket, AssessRaises, NoneLeft, Nothing, TypeOK, Catalog, Board
    <3>2. QED
      BY <1>1, <2>1, <3>1
  <2>8. ASSUME NEW fee \in FeeStatus, FeeAnswered(fee)
        PROVE  markets'[m] # "absent"
    <3>1. /\ results' = results /\ current' = NoMarket
          /\ todo'[m] # "absent" => todo[m] # "absent"
          /\ new_results'[m] # NoResult => new_results[m] # NoResult \/ m = current
      BY <2>8 DEF FeeAnswered, AssessMarket, AssessRaises, NoneLeft, Nothing, TypeOK, Catalog, Board
    <3>2. QED
      BY <1>1, <2>1, <3>1, ScannerAssumption
  <2>9. CASE PublishScan
    <3>1. /\ results' = new_results /\ new_results'[m] = NoResult
          /\ todo' = todo /\ current' = current
      BY <2>9 DEF PublishScan, Nothing
    <3>2. QED
      BY <1>1, <2>1, <3>1
  <2>10. CASE UNCHANGED vars
    BY <1>1, <2>1, <2>10 DEF vars
  <2>11. QED
    BY <2>2, <2>3, <2>4, <2>5, <2>6, <2>7, <2>8, <2>9, <2>10 DEF Next, BookStep, ScanStep
<1>2. snapshot' = snapshot /\ answer' = answer
  BY DEF consoleVars, handlerVars
<1>3. QED
  BY <1>0, <1>1, <1>2 DEF AllLoaded, OpportunitiesAnswered

(* A request: what it lists was on the board when it began. *)
LEMMA RequestKeepsLoaded ==
    ASSUME ~LocalFaults, ConsoleTypeOK, AllLoaded, TypeOK, NEW q \in Request, RequestStep(q)
    PROVE  AllLoaded'
<1>1. UNCHANGED vars
  BY DEF RequestStep, ListOpportunities, ListingDone, ReadResult, StorePaper, ListEntry, TradePaper
<1>2. \A p \in Request : p # q => snapshot'[p] = snapshot[p] /\ answer'[p] = answer[p]
  BY DEF RequestStep, ListOpportunities, ListingDone, ReadResult, StorePaper, ListEntry,
     TradePaper, Reply, Receive, ConsoleTypeOK
<1>3. answer'[q] # "500" /\ \A m \in Market : snapshot'[q][m] # NoResult => markets[m] # "absent"
  <2>0. answer[q] # "500" /\ \A m \in Market : snapshot[q][m] # NoResult => markets[m] # "absent"
    BY DEF AllLoaded, OpportunitiesAnswered
  <2>1. CASE ListOpportunities(q)
    BY <2>0, <2>1 DEF ListOpportunities, AllLoaded, ConsoleTypeOK
  <2>2. CASE ListingDone(q)
    BY <2>0, <2>2 DEF ListingDone, Reply, Nothing, ConsoleTypeOK
  <2>3. CASE ReadResult(q)
    BY <2>0, <2>3 DEF ReadResult, Reply, ConsoleTypeOK
  <2>4. CASE StorePaper(q)
    BY <2>0, <2>4 DEF StorePaper, Reply, ConsoleTypeOK
  <2>5. ASSUME NEW m \in Market, TradePaper(q, m)
        PROVE  answer'[q] = answer[q] /\ snapshot'[q] = snapshot[q]
    BY <2>5 DEF TradePaper, ConsoleTypeOK
  <2>6. ASSUME NEW m \in Market, ListEntry(q, m)
        PROVE  answer' = answer /\ snapshot' = [snapshot EXCEPT ![q][m] = NoResult]
    <3>1. markets[m] # "absent"
      BY <2>0, <2>6 DEF ListEntry, Listable
    <3>2. QED
      BY <2>6, <3>1 DEF ListEntry
  <2>7. ASSUME NEW m \in Market, ListEntry(q, m), NEW l \in Market, snapshot'[q][l] # NoResult
        PROVE  snapshot[q][l] # NoResult
    BY <2>6, <2>7 DEF ConsoleTypeOK, Board
  <2>8. QED
    BY <2>0, <2>1, <2>2, <2>3, <2>4, <2>5, <2>6, <2>7 DEF RequestStep
<1>4. QED
  BY <1>1, <1>2, <1>3 DEF AllLoaded, OpportunitiesAnswered, vars

(* A dropped market is the only cause of the failing opportunities request:  *)
(* as long as no refresh drops one, and SQLite works, none of any number of  *)
(* requests is answered with an internal error, whatever the scan does while *)
(* they are served.                                                          *)
THEOREM AnsweredUnlessDropped ==
    ASSUME ~LocalFaults
    PROVE  ConsoleSpec /\ [][NothingDropped]_vars => []OpportunitiesAnswered
<1>1. ConsoleInit => AllLoaded
  BY ScannerAssumption DEF ConsoleInit, Init, NoneLeft, Nothing, AllLoaded, OpportunitiesAnswered
<1>2. /\ ConsoleInv /\ AllLoaded /\ [ConsoleNext]_allVars /\ [NothingDropped]_vars
      => AllLoaded'
  BY RuntimeKeepsLoaded, RequestKeepsLoaded DEF ConsoleInv, IInv, ConsoleNext, allVars
<1>3. AllLoaded => OpportunitiesAnswered
  BY DEF AllLoaded
<1>4. QED
  BY <1>1, <1>2, <1>3, ConsoleInductive, PTL DEF ConsoleSpec

=============================================================================
