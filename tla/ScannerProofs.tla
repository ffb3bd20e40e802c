---------------------------- MODULE ScannerProofs ----------------------------
(***************************************************************************)
(* Proofs about the scanner runtime, for any set of markets, any listings  *)
(* Gamma may give, any outcome of the rules and with local faults.         *)
(***************************************************************************)
EXTENDS Scanner, FiniteSetTheorems, TLAPS

(* An assessment is a result, it carries the fee status it was given, and    *)
(* the rules accept it only if that fee is known.                            *)
LEMMA AssessFacts ==
    ASSUME NEW pair \in Pairs, NEW fee \in FeeStatus, NEW net \in Nets, NEW hash \in Hash
    PROVE  LET r == Fingerprinted(Assess(pair, fee, net), hash) IN
           /\ r \in DepthResult /\ r # NoResult
           /\ r.fee = fee /\ r.hash = hash
           /\ r.status = "VALID" => fee = "KNOWN"
           /\ IsValid(r) => fee = "KNOWN" /\ r.net \in {"good", "better"}
  BY ScannerAssumption DEF Assess, Fingerprinted, DepthResult, Status, FeeStatus, Net, IsValid,
     Accepted

(* Assessing a market: its result is entered, and counted and recorded if it *)
(* is an opportunity.                                                        *)
LEMMA AssessedOne ==
    ASSUME NEW m \in Market, NEW fee \in FeeStatus, AssessMarket(m, fee)
    PROVE  \E r \in DepthResult :
             /\ r # NoResult /\ r.fee = fee
             /\ r.status = "VALID" => fee = "KNOWN"
             /\ IsValid(r) => fee = "KNOWN" /\ r.net \in {"good", "better"}
             /\ new_results' = [new_results EXCEPT ![m] = r]
             /\ valid_count' = IF IsValid(r) THEN valid_count + 1 ELSE valid_count
             /\ IF IsValid(r) THEN UpsertOpportunity(m, r) ELSE UNCHANGED opportunity_rows
<1>1. PICK pair \in Pairs, net \in Nets, hash \in Hash :
         LET r == Fingerprinted(Assess(pair, fee, net), hash) IN
         /\ new_results' = [new_results EXCEPT ![m] = r]
         /\ IF IsValid(r)
              THEN valid_count' = valid_count + 1 /\ UpsertOpportunity(m, r)
              ELSE UNCHANGED <<valid_count, opportunity_rows>>
  BY DEF AssessMarket
<1> DEFINE r == Fingerprinted(Assess(pair, fee, net), hash)
<1>2. /\ r \in DepthResult /\ r # NoResult /\ r.fee = fee
      /\ r.status = "VALID" => fee = "KNOWN"
      /\ IsValid(r) => fee = "KNOWN" /\ r.net \in {"good", "better"}
  BY AssessFacts
<1>3. /\ new_results' = [new_results EXCEPT ![m] = r]
      /\ IF IsValid(r)
           THEN valid_count' = valid_count + 1 /\ UpsertOpportunity(m, r)
           ELSE UNCHANGED <<valid_count, opportunity_rows>>
  BY <1>1
<1> HIDE DEF r
<1>4. QED
  BY <1>2, <1>3

LEMMA EmptyFacts ==
    Nothing \in Board /\ NoneLeft \in Catalog /\ Loaded(NoneLeft) = {}
  BY DEF Nothing, NoneLeft, Board, Catalog, Loaded, FeeSource

LEMMA ValidInNothing == ValidIn(Nothing) = {} /\ Cardinality(ValidIn(Nothing)) = 0
  BY FS_EmptySet DEF ValidIn, IsValid, Nothing

(* Entering a result for a market that has none changes the number of        *)
(* opportunities by at most that market.                                     *)
LEMMA ValidInAfterEntry ==
    ASSUME NEW board \in Board, NEW m \in Market, board[m] = NoResult,
           NEW r \in DepthResult
    PROVE  Cardinality(ValidIn([board EXCEPT ![m] = r]))
             = IF IsValid(r) THEN Cardinality(ValidIn(board)) + 1
                             ELSE Cardinality(ValidIn(board))
<1> DEFINE after == [board EXCEPT ![m] = r]
<1>1. IsFiniteSet(ValidIn(board))
  BY ScannerAssumption, FS_Subset DEF ValidIn
<1>2. m \notin ValidIn(board)
  BY DEF ValidIn, IsValid
<1>3. ValidIn(after) = IF IsValid(r) THEN ValidIn(board) \cup {m} ELSE ValidIn(board)
  BY <1>2 DEF ValidIn, Board
<1>4. QED
  BY <1>1, <1>2, <1>3, FS_AddElement

-----------------------------------------------------------------------------
(* The type invariant. *)

LEMMA TypeInit == Init => TypeOK
  BY EmptyFacts DEF Init, TypeOK, Token, EmptyTable, Row, NoRow

LEMMA MarketStepType ==
    ASSUME TypeOK, MarketStep
    PROVE  TypeOK'
<1> USE ScannerAssumption DEF TypeOK
<1>1. CASE MarketTimer
  BY <1>1 DEF MarketTimer, boardVars, scanVars, storeVars
<1>2. ASSUME NEW c \in Listings, MarketsRefreshed(c)
      PROVE  TypeOK'
  BY <1>2 DEF MarketsRefreshed, UpsertMarkets, MarketsReturned, boardVars, scanVars, Loaded,
     TokensOf, Token
<1>3. ASSUME NEW stored \in SUBSET Market, MarketsFailed(stored)
      PROVE  TypeOK'
  BY <1>3 DEF MarketsFailed, UpsertMarkets, MarketsReturned, MarketTaskRaises, PhaseAfterRaise,
     boardVars, scanVars, Loaded, TokensOf, Token
<1>4. ASSUME NEW c \in Listings, MarketsLogFailed(c)
      PROVE  TypeOK'
  BY <1>4 DEF MarketsLogFailed, UpsertMarkets, MarketsReturned, MarketTaskRaises, PhaseAfterRaise,
     boardVars, scanVars, Loaded, TokensOf, Token
<1>5. CASE GeoblockChecked
  BY <1>5 DEF GeoblockChecked, MarketTaskRaises, PhaseAfterRaise, boardVars,
     scanVars, storeVars
<1>6. CASE MarketCancelled
  BY <1>6 DEF MarketCancelled, boardVars, scanVars, storeVars
<1>7. QED
  BY <1>1, <1>2, <1>3, <1>4, <1>5, <1>6 DEF MarketStep

(* The upsert of one row. *)
LEMMA UpsertedRow ==
    ASSUME TypeOK, NEW m \in Market, NEW r \in DepthResult, UpsertOpportunity(m, r)
    PROVE  /\ opportunity_rows' \in [Market -> [Hash -> Row]]
           /\ opportunity_rows'[m][r.hash]
                = [profits |-> opportunity_rows[m][r.hash].profits \cup {r.net}, payload |-> r]
           /\ \A n \in Market, h \in Hash :
                <<n, h>> # <<m, r.hash>> => opportunity_rows'[n][h] = opportunity_rows[n][h]
<1>1. opportunity_rows \in [Market -> [Hash -> Row]] /\ r.hash \in Hash
  BY DEF TypeOK, DepthResult
<1>2. opportunity_rows[m][r.hash].profits \subseteq Net /\ r.net \in Net
  BY <1>1 DEF Row, DepthResult
<1> DEFINE row == [profits |-> opportunity_rows[m][r.hash].profits \cup {r.net}, payload |-> r]
<1>3. row \in Row
  BY <1>2 DEF Row
<1>4. opportunity_rows' = [opportunity_rows EXCEPT ![m][r.hash] = row]
  BY DEF UpsertOpportunity
<1> HIDE DEF row
<1>5. /\ opportunity_rows' \in [Market -> [Hash -> Row]] /\ opportunity_rows'[m][r.hash] = row
      /\ \A n \in Market, h \in Hash :
           <<n, h>> # <<m, r.hash>> => opportunity_rows'[n][h] = opportunity_rows[n][h]
  BY <1>1, <1>3, <1>4
<1>6. QED
  BY <1>5 DEF row

(* What assessing a market does, for a listed and for an awaited fee alike.  *)
LEMMA AssessType ==
    ASSUME TypeOK, NEW m \in Market, NEW fee \in FeeStatus, AssessMarket(m, fee)
    PROVE  /\ new_results' \in Board
           /\ valid_count' \in Nat
           /\ opportunity_rows' \in [Market -> [Hash -> Row]]
<1>1. PICK r \in DepthResult :
         /\ new_results' = [new_results EXCEPT ![m] = r]
         /\ valid_count' = IF IsValid(r) THEN valid_count + 1 ELSE valid_count
         /\ IF IsValid(r) THEN UpsertOpportunity(m, r) ELSE UNCHANGED opportunity_rows
  BY AssessedOne
<1>2. opportunity_rows' \in [Market -> [Hash -> Row]]
  BY <1>1, UpsertedRow DEF TypeOK
<1>3. valid_count' \in Nat
  BY <1>1 DEF TypeOK
<1>4. new_results' \in Board
  BY <1>1 DEF TypeOK, Board
<1>5. QED
  BY <1>2, <1>3, <1>4

LEMMA BookStepType ==
    ASSUME TypeOK, BookStep
    PROVE  TypeOK'
<1> USE EmptyFacts DEF TypeOK
<1>1. CASE BookTimer
  BY <1>1 DEF BookTimer, boardVars, scanVars, storeVars, TokensOf, Loaded, Token
<1>2. ASSUME NEW answered \in SUBSET Token, BooksFetched(answered)
      PROVE  TypeOK'
  BY <1>2 DEF BooksFetched, FreshScan, boardVars, storeVars
<1>3. CASE BooksFailed
  BY <1>3 DEF BooksFailed, BooksReturned, BookTaskRaises, PhaseAfterRaise,
     boardVars, scanVars, storeVars
<1>4. ASSUME NEW m \in Market, SkipMarket(m)
      PROVE  TypeOK'
  BY <1>4 DEF SkipMarket, boardVars, storeVars, Catalog
<1>5. ASSUME NEW m \in Market, AssessListed(m)
      PROVE  TypeOK'
  <2>1. CASE AssessRaises
    BY <1>5, <2>1 DEF AssessListed, AssessRaises, BookTaskRaises, PhaseAfterRaise,
       boardVars
  <2>2. CASE AssessMarket(m, "KNOWN") /\ todo' = [todo EXCEPT ![m] = "absent"]
             /\ UNCHANGED <<phase, marketTask, bookTask>>
    <3>1. todo' \in Catalog
      BY <2>2 DEF Catalog
    <3>2. QED
      BY <1>5, <2>2, <3>1, AssessType DEF AssessListed, boardVars, FeeStatus
  <2>3. QED
    BY <1>5, <2>1, <2>2 DEF AssessListed
<1>6. ASSUME NEW m \in Market, LookUpFee(m)
      PROVE  TypeOK'
  BY <1>6 DEF LookUpFee, boardVars, storeVars, Catalog
<1>7. ASSUME NEW fee \in FeeStatus, FeeAnswered(fee)
      PROVE  TypeOK'
  <2>1. CASE AssessRaises
    BY <1>7, <2>1 DEF FeeAnswered, NoteReason, AssessRaises, BookTaskRaises, PhaseAfterRaise,
       boardVars
  <2>2. CASE AssessMarket(current, fee) /\ bookTask' = "scanning"
             /\ UNCHANGED <<phase, marketTask, todo>>
    BY <1>7, <2>2, AssessType DEF FeeAnswered, NoteReason, boardVars
  <2>3. QED
    BY <1>7, <2>1, <2>2 DEF FeeAnswered
<1>8. CASE PublishScan
  BY <1>8 DEF PublishScan, BooksReturned, storeVars
<1>9. CASE BookCancelled
  BY <1>9 DEF BookCancelled, boardVars, storeVars
<1>10. QED
  BY <1>1, <1>2, <1>3, <1>4, <1>5, <1>6, <1>7, <1>8, <1>9 DEF BookStep, ScanStep

LEMMA TypeStep == TypeOK /\ [Next]_vars => TypeOK'
<1> SUFFICES ASSUME TypeOK, [Next]_vars
             PROVE  TypeOK'
  OBVIOUS
<1>1. CASE MarketStep
  BY <1>1, MarketStepType
<1>2. CASE BookStep
  BY <1>2, BookStepType
<1>3. CASE SocketStep
  BY <1>3 DEF SocketStep, WebSocketBook, SocketCancelled, SocketClosed, TypeOK, boardVars,
     scanVars, storeVars
<1>4. CASE Stop \/ Close
  BY <1>4 DEF Stop, Close, TypeOK, boardVars, scanVars, storeVars
<1>5. CASE UNCHANGED vars
  BY <1>5 DEF vars, TypeOK
<1>6. QED
  BY <1>1, <1>2, <1>3, <1>4, <1>5 DEF Next

(* Every variable keeps its type, and a fee is awaited for a market only.    *)
THEOREM TypeCorrect == Spec => []TypeOK
  BY TypeInit, TypeStep, PTL DEF Spec

-----------------------------------------------------------------------------
(* The safety properties, together with ScanOnTrack, are inductive. *)

(* The table goes on vouching for what it has vouched for. *)
TableGrows ==
    \A m \in Market, h \in Hash :
        VouchedFor(opportunity_rows[m][h]) \subseteq VouchedFor(opportunity_rows'[m][h])

LEMMA StaysRecorded ==
    ASSUME TableGrows, NEW m \in Market, NEW r \in DepthResult, Recorded(m, r)
    PROVE  Recorded(m, r)'
  BY DEF TableGrows, Recorded, DepthResult

LEMMA OnlyProfitsDiffer ==
    ASSUME NEW x \in DepthResult, NEW y \in DepthResult, NEW n,
           x.status = y.status, x.fee = y.fee, x.hash = y.hash
    PROVE  [x EXCEPT !.net = n] = [y EXCEPT !.net = n]
  BY DEF DepthResult

LEMMA OwnProfit ==
    ASSUME NEW r \in DepthResult
    PROVE  [r EXCEPT !.net = r.net] = r
  BY DEF DepthResult

(* Recording a result: its row vouches for one more result, the others do    *)
(* not change.                                                               *)
LEMMA UpsertVouches ==
    ASSUME TypeOK, FailClosed, RowsSound, NEW m \in Market, NEW r \in DepthResult,
           IsValid(r), r.fee = "KNOWN", UpsertOpportunity(m, r)
    PROVE  /\ VouchedFor(opportunity_rows'[m][r.hash])
                = VouchedFor(opportunity_rows[m][r.hash]) \cup {r}
           /\ FailClosed' /\ RowsSound'
<1> DEFINE old == opportunity_rows[m][r.hash]
           new == opportunity_rows'[m][r.hash]
<1>1. /\ new = [profits |-> old.profits \cup {r.net}, payload |-> r]
      /\ \A n \in Market, h \in Hash :
           <<n, h>> # <<m, r.hash>> => opportunity_rows'[n][h] = opportunity_rows[n][h]
  BY UpsertedRow
<1>2. r.status = "VALID" /\ r.net \in {"good", "better"} /\ r.hash \in Hash
  BY DEF IsValid, Accepted, DepthResult
<1>3. VouchedFor(new) = {[r EXCEPT !.net = n] : n \in old.profits} \cup {r}
  <2>1. VouchedFor(new) = {[r EXCEPT !.net = n] : n \in old.profits \cup {r.net}}
    BY <1>1 DEF VouchedFor
  <2>2. QED
    BY <2>1, OwnProfit
<1>4. ASSUME old = NoRow
      PROVE  VouchedFor(new) = VouchedFor(old) \cup {r}
  BY <1>3, <1>4 DEF NoRow, VouchedFor
<1>5. ASSUME old # NoRow
      PROVE  VouchedFor(new) = VouchedFor(old) \cup {r}
  <2>1. /\ old.payload \in DepthResult /\ old.payload.status = "VALID"
        /\ old.payload.fee = "KNOWN" /\ old.payload.hash = r.hash
    BY <1>2, <1>5 DEF RowsSound, FailClosed, ValidResults, IsValid, Accepted
  <2>2. \A n : [old.payload EXCEPT !.net = n] = [r EXCEPT !.net = n]
    BY <1>2, <2>1, OnlyProfitsDiffer
  <2>3. QED
    BY <1>3, <2>2 DEF VouchedFor
<1>6. FailClosed'
  <2>1. ASSUME NEW n \in Market, NEW h \in Hash, opportunity_rows'[n][h] # NoRow
        PROVE  opportunity_rows'[n][h].payload.fee = "KNOWN"
    <3>1. CASE <<n, h>> = <<m, r.hash>>
      BY <1>1, <3>1
    <3>2. CASE <<n, h>> # <<m, r.hash>>
      BY <1>1, <2>1, <3>2 DEF FailClosed
    <3>3. QED
      BY <3>1, <3>2
  <2>2. QED
    BY <2>1 DEF FailClosed
<1>7. RowsSound'
  <2>1. ASSUME NEW n \in Market, NEW h \in Hash
        PROVE  LET row == opportunity_rows'[n][h] IN
               row = NoRow \/ /\ row.payload \in ValidResults /\ row.payload.hash = h
                              /\ row.payload.net \in row.profits
                              /\ row.profits \subseteq {"good", "better"}
    <3>1. CASE <<n, h>> = <<m, r.hash>>
      <4>1. old.profits \subseteq {"good", "better"}
        BY <1>2 DEF RowsSound, NoRow
      <4>2. r \in ValidResults
        BY DEF ValidResults
      <4>3. n = m /\ h = r.hash
        BY <3>1
      <4>4. QED
        BY <1>1, <1>2, <4>1, <4>2, <4>3
    <3>2. CASE <<n, h>> # <<m, r.hash>>
      BY <1>1, <3>2 DEF RowsSound
    <3>3. QED
      BY <3>1, <3>2
  <2>2. QED
    BY <2>1 DEF RowsSound
<1>8. QED
  BY <1>4, <1>5, <1>6, <1>7

LEMMA UpsertGrows ==
    ASSUME TypeOK, FailClosed, RowsSound, NEW m \in Market, NEW r \in DepthResult,
           IsValid(r), r.fee = "KNOWN", UpsertOpportunity(m, r)
    PROVE  TableGrows /\ Recorded(m, r)'
<1>1. /\ VouchedFor(opportunity_rows'[m][r.hash])
           = VouchedFor(opportunity_rows[m][r.hash]) \cup {r}
      /\ \A n \in Market, h \in Hash :
           <<n, h>> # <<m, r.hash>> => opportunity_rows'[n][h] = opportunity_rows[n][h]
  BY UpsertVouches, UpsertedRow
<1>2. ASSUME NEW n \in Market, NEW h \in Hash
      PROVE  VouchedFor(opportunity_rows[n][h]) \subseteq VouchedFor(opportunity_rows'[n][h])
  <2>1. CASE <<n, h>> = <<m, r.hash>>
    BY <1>1, <2>1
  <2>2. CASE <<n, h>> # <<m, r.hash>>
    BY <1>1, <2>2
  <2>3. QED
    BY <2>1, <2>2
<1>3. QED
  BY <1>1, <1>2 DEF TableGrows, Recorded

(* Assessing a market that has no result yet: at most this market's result   *)
(* is added, counted and recorded, in step, and only with a known fee.       *)
LEMMA AssessStep ==
    ASSUME TypeOK, NEW m \in Market, NEW fee \in FeeStatus, AssessMarket(m, fee),
           new_results[m] = NoResult,
           valid_count = Cardinality(ValidIn(new_results)),
           FailClosed, RowsSound
    PROVE  /\ \A n \in Market \ {m} : new_results'[n] = new_results[n]
           /\ new_results'[m].fee = fee
           /\ new_results'[m].status = "VALID" => fee = "KNOWN"
           /\ new_results'[m] # NoResult
           /\ valid_count' = Cardinality(ValidIn(new_results'))
           /\ TableGrows
           /\ IsValid(new_results'[m]) => Recorded(m, new_results[m])'
           /\ FailClosed' /\ RowsSound'
<1>1. PICK r \in DepthResult :
         /\ r # NoResult /\ r.fee = fee
         /\ r.status = "VALID" => fee = "KNOWN"
         /\ IsValid(r) => fee = "KNOWN"
         /\ new_results' = [new_results EXCEPT ![m] = r]
         /\ valid_count' = IF IsValid(r) THEN valid_count + 1 ELSE valid_count
         /\ IF IsValid(r) THEN UpsertOpportunity(m, r) ELSE UNCHANGED opportunity_rows
  BY AssessedOne
<1>2. new_results \in Board /\ new_results'[m] = r
      /\ \A n \in Market \ {m} : new_results'[n] = new_results[n]
  BY <1>1 DEF TypeOK, Board
<1>3. valid_count' = Cardinality(ValidIn(new_results'))
  <2>1. Cardinality(ValidIn([new_results EXCEPT ![m] = r]))
           = IF IsValid(r) THEN valid_count + 1 ELSE valid_count
    BY <1>2, ValidInAfterEntry
  <2>2. QED
    BY <1>1, <2>1
<1>4. TableGrows /\ FailClosed' /\ RowsSound' /\ (IsValid(r) => Recorded(m, r)')
  <2>1. CASE IsValid(r)
    BY <1>1, <2>1, UpsertGrows, UpsertVouches
  <2>2. CASE ~IsValid(r)
    BY <1>1, <2>2 DEF TableGrows, FailClosed, RowsSound
  <2>3. QED
    BY <2>1, <2>2
<1>5. QED
  BY <1>1, <1>2, <1>3, <1>4

Scanning == bookTask \in {"scanning", "awaiting_fee"}

(* Where the two coroutines may stand in each phase of the application. *)
PhaseFits ==
    /\ phase \in {"boot", "failed"} => bookTask = "wait" \/ marketTask = "wait"
    /\ phase = "stopping" => bookTask # "scanning"
    /\ phase \in {"closed", "aborted"} => Gathered

(* The state the safety properties speak of, untouched by requests, timers   *)
(* and pushed books.                                                         *)
LEMMA QuietStep ==
    ASSUME IInv, UNCHANGED <<boardVars, scanVars, opportunity_rows>>,
           books \subseteq books', fee_reasons \subseteq fee_reasons',
           Loaded(markets') \subseteq market_rows',
           Scanning' <=> Scanning,
           bookTask' = "awaiting_fee" <=> bookTask = "awaiting_fee",
           PhaseFits'
    PROVE  FailClosed' /\ ValidFeeIsKnown' /\ PublishedIsPersisted' /\ CountMatches'
           /\ LoadedIsStored' /\ UnknownHasReason' /\ ScannedHasBooks' /\ ScanOnTrack'
<1> USE DEF IInv, boardVars, scanVars
<1>1. FailClosed' /\ PublishedIsPersisted' /\ CountMatches' /\ LoadedIsStored'
  BY DEF FailClosed, PublishedIsPersisted, Recorded, CountMatches, LoadedIsStored
<1>2. UnknownHasReason' /\ ScannedHasBooks'
  BY DEF UnknownHasReason, ScannedHasBooks, BothBooks
<1>3. ScanOnTrack' /\ ValidFeeIsKnown'
  BY DEF Scanning, PhaseFits, Gathered, ScanOnTrack, Recorded, RowsSound, ValidFeeIsKnown
<1>4. QED
  BY <1>1, <1>2, <1>3

(* However a market refresh ends, the coroutines stand where they may. *)
LEMMA MarketRefreshOver ==
    ASSUME TypeOK, ScanOnTrack, LoopFree, marketTask = "fetching", NEW catalog,
           MarketsReturned(catalog) \/ MarketTaskRaises
    PROVE  /\ PhaseFits' /\ (Scanning' <=> Scanning)
           /\ bookTask' = "awaiting_fee" <=> bookTask = "awaiting_fee"
<1>1. /\ phase \in {"boot", "failed"} => bookTask = "wait"
      /\ phase \in {"boot", "serving", "failed"}
  BY DEF TypeOK, ScanOnTrack, LoopFree, Gathered
<1>2. CASE MarketsReturned(catalog)
  BY <1>1, <1>2 DEF Scanning, PhaseFits, MarketsReturned
<1>3. CASE MarketTaskRaises
  BY <1>1, <1>3 DEF Scanning, PhaseFits, MarketTaskRaises, PhaseAfterRaise
<1>4. QED
  BY <1>2, <1>3

LEMMA MarketStepSafe ==
    ASSUME IInv, MarketStep
    PROVE  FailClosed' /\ ValidFeeIsKnown' /\ PublishedIsPersisted' /\ CountMatches'
           /\ LoadedIsStored' /\ UnknownHasReason' /\ ScannedHasBooks' /\ ScanOnTrack'
<1> SUFFICES /\ UNCHANGED <<boardVars, scanVars, opportunity_rows>>
             /\ books \subseteq books' /\ fee_reasons \subseteq fee_reasons'
             /\ Loaded(markets') \subseteq market_rows'
             /\ Scanning' <=> Scanning
             /\ bookTask' = "awaiting_fee" <=> bookTask = "awaiting_fee"
             /\ PhaseFits'
  BY QuietStep
<1> USE DEF IInv, ScanOnTrack, LoadedIsStored, PhaseFits, Gathered, LoopFree
<1>1. CASE MarketTimer
  BY <1>1 DEF Scanning, MarketTimer, storeVars
<1>2. ASSUME NEW c \in Listings, MarketsRefreshed(c) \/ MarketsLogFailed(c)
      PROVE  Loaded(markets') \subseteq market_rows'
  BY <1>2 DEF MarketsRefreshed, MarketsLogFailed, UpsertMarkets
<1>3. ASSUME NEW c \in Listings, MarketsRefreshed(c) \/ MarketsLogFailed(c)
      PROVE  /\ UNCHANGED <<boardVars, scanVars, opportunity_rows>>
             /\ books \subseteq books' /\ fee_reasons \subseteq fee_reasons'
             /\ Scanning' <=> Scanning
             /\ bookTask' = "awaiting_fee" <=> bookTask = "awaiting_fee"
             /\ PhaseFits'
  <2>1. /\ UNCHANGED <<boardVars, scanVars, opportunity_rows, books, fee_reasons>>
        /\ MarketsReturned(c) \/ MarketTaskRaises
    BY <1>3 DEF MarketsRefreshed, UpsertMarkets, MarketsLogFailed
  <2>2. QED
    BY <1>3, <2>1, MarketRefreshOver DEF MarketsRefreshed, MarketsLogFailed
<1>4. ASSUME NEW stored \in SUBSET Market, MarketsFailed(stored)
      PROVE  /\ UNCHANGED <<boardVars, scanVars, opportunity_rows>>
             /\ books \subseteq books' /\ fee_reasons \subseteq fee_reasons'
             /\ Loaded(markets') \subseteq market_rows'
             /\ Scanning' <=> Scanning
             /\ bookTask' = "awaiting_fee" <=> bookTask = "awaiting_fee"
             /\ PhaseFits'
  <2>1. /\ UNCHANGED <<boardVars, scanVars, opportunity_rows, books, fee_reasons>>
        /\ Loaded(markets') \subseteq market_rows'
        /\ MarketsReturned(markets) \/ MarketTaskRaises
    BY <1>4 DEF MarketsFailed, UpsertMarkets
  <2>2. QED
    BY <1>4, <2>1, MarketRefreshOver DEF MarketsFailed
<1>5. CASE GeoblockChecked
  BY <1>5 DEF Scanning, GeoblockChecked, MarketTaskRaises, PhaseAfterRaise, storeVars
<1>6. CASE MarketCancelled
  BY <1>6 DEF Scanning, MarketCancelled, storeVars
<1>7. QED
  BY <1>1, <1>2, <1>3, <1>4, <1>5, <1>6 DEF MarketStep

LEMMA BookStepSafe ==
    ASSUME IInv, BookStep
    PROVE  FailClosed' /\ ValidFeeIsKnown' /\ PublishedIsPersisted' /\ CountMatches'
           /\ LoadedIsStored' /\ UnknownHasReason' /\ ScannedHasBooks' /\ ScanOnTrack'
<1> DEFINE Safe == FailClosed /\ ValidFeeIsKnown /\ PublishedIsPersisted /\ CountMatches
                   /\ LoadedIsStored /\ UnknownHasReason /\ ScannedHasBooks /\ ScanOnTrack
<1> SUFFICES Safe'
  OBVIOUS
<1> USE DEF IInv
<1>1. CASE BookTimer
  <2>1. /\ UNCHANGED <<boardVars, scanVars, opportunity_rows, books, fee_reasons,
                       markets, market_rows, phase>>
        /\ bookTask = "wait" /\ bookTask' = "fetching" /\ phase = "serving"
    BY <1>1 DEF BookTimer, storeVars
  <2>2. QED
    BY <2>1, QuietStep DEF Scanning, LoadedIsStored, PhaseFits
<1>2. ASSUME NEW answered \in SUBSET Token, BooksFetched(answered)
      PROVE  Safe'
  <2>1. FailClosed' /\ PublishedIsPersisted' /\ CountMatches' /\ LoadedIsStored'
        /\ UnknownHasReason'
    BY <1>2 DEF BooksFetched, FreshScan, boardVars, storeVars, FailClosed, PublishedIsPersisted,
       Recorded, CountMatches, LoadedIsStored, UnknownHasReason
  <2>2. new_results' = Nothing /\ current' = NoMarket
    BY <1>2 DEF BooksFetched, FreshScan, ScanOnTrack
  <2>3. ScannedHasBooks' /\ ValidFeeIsKnown'
    BY <1>2, <2>2, ScannerAssumption DEF BooksFetched, FreshScan, boardVars, ScannedHasBooks,
       ValidFeeIsKnown, Nothing
  <2>4. ScanOnTrack'
    BY <1>2, <2>2, ValidInNothing, ScannerAssumption DEF BooksFetched, FreshScan, storeVars,
       ScanOnTrack, RowsSound, Nothing, ValidIn, IsValid, LoopFree, Gathered
  <2>5. QED
    BY <2>1, <2>3, <2>4
<1>3. CASE BooksFailed
  <2>1. /\ UNCHANGED <<boardVars, scanVars, opportunity_rows, books, fee_reasons,
                       markets, market_rows>>
        /\ bookTask = "fetching" /\ bookTask' \in {"wait", "dead"}
        /\ PhaseFits'
    BY <1>3 DEF BooksFailed, BooksReturned, BookTaskRaises, PhaseAfterRaise, storeVars,
       ScanOnTrack, PhaseFits, Gathered, LoopFree
  <2>2. QED
    BY <2>1, QuietStep DEF Scanning, LoadedIsStored
<1>4. ASSUME NEW m \in Market, SkipMarket(m)
      PROVE  Safe'
  <2>1. /\ UNCHANGED <<boardVars, storeVars, books, fee_reasons, markets, phase,
                       marketTask, bookTask, current, new_results, valid_count>>
        /\ bookTask = "scanning" /\ todo' = [todo EXCEPT ![m] = "absent"]
    BY <1>4 DEF SkipMarket
  <2>2. FailClosed' /\ ValidFeeIsKnown' /\ PublishedIsPersisted' /\ CountMatches'
        /\ LoadedIsStored' /\ UnknownHasReason' /\ ScannedHasBooks'
    BY <2>1 DEF FailClosed, ValidFeeIsKnown, PublishedIsPersisted, Recorded, CountMatches,
       LoadedIsStored, UnknownHasReason, ScannedHasBooks, BothBooks, boardVars, storeVars
  <2>3. ScanOnTrack'
    BY <2>1 DEF ScanOnTrack, Recorded, RowsSound, Gathered, storeVars, TypeOK, Catalog
  <2>4. QED
    BY <2>2, <2>3
<1>5. ASSUME AssessRaises, UNCHANGED <<markets, books, boardVars, market_rows>>,
             current' = NoMarket, fee_reasons \subseteq fee_reasons',
             bookTask \in {"scanning", "awaiting_fee"}, phase # "stopping"
      PROVE  Safe'
  <2>1. FailClosed' /\ PublishedIsPersisted' /\ CountMatches' /\ LoadedIsStored'
        /\ UnknownHasReason'
    BY <1>5 DEF AssessRaises, boardVars, FailClosed, PublishedIsPersisted,
       Recorded, CountMatches, LoadedIsStored, UnknownHasReason
  <2>2. new_results' = Nothing /\ todo' = NoneLeft /\ valid_count' = 0
        /\ opportunity_rows' = opportunity_rows
    BY <1>5 DEF AssessRaises
  <2>3. ScannedHasBooks' /\ ValidFeeIsKnown'
    BY <1>5, <2>2, ScannerAssumption DEF boardVars, ScannedHasBooks, ValidFeeIsKnown,
       Nothing
  <2>4. bookTask' = "dead" /\ PhaseFits'
    BY <1>5 DEF AssessRaises, BookTaskRaises, PhaseAfterRaise, ScanOnTrack, PhaseFits,
       Gathered
  <2>5. ScanOnTrack'
    BY <1>5, <2>2, <2>4, ValidInNothing, ScannerAssumption DEF ScanOnTrack, RowsSound, Nothing,
       NoneLeft, ValidIn, IsValid, PhaseFits, Gathered
  <2>6. QED
    BY <2>1, <2>3, <2>5
<1>6. ASSUME NEW m \in Market, NEW fee \in FeeStatus, AssessMarket(m, fee),
             UNCHANGED <<markets, books, boardVars, market_rows, phase, marketTask>>,
             current' = NoMarket, bookTask' = "scanning",
             bookTask \in {"scanning", "awaiting_fee"}, phase # "stopping",
             new_results[m] = NoResult, BothBooks(m), current \in {m, NoMarket},
             \A n \in Market : todo'[n] = IF n = m THEN "absent" ELSE todo[n],
             fee_reasons \subseteq fee_reasons',
             fee = "FEE_UNKNOWN" => m \in fee_reasons'
      PROVE  Safe'
  <2>1. /\ \A n \in Market \ {m} : new_results'[n] = new_results[n]
        /\ new_results'[m].fee = fee
        /\ new_results'[m].status = "VALID" => fee = "KNOWN"
        /\ valid_count' = Cardinality(ValidIn(new_results'))
        /\ TableGrows
        /\ IsValid(new_results'[m]) => Recorded(m, new_results[m])'
        /\ FailClosed' /\ RowsSound'
    BY <1>6, AssessStep DEF ScanOnTrack
  <2>2. PublishedIsPersisted'
    BY <1>6, <2>1, StaysRecorded DEF boardVars, PublishedIsPersisted, ValidIn, IsValid, TypeOK,
       Board
  <2>7. CountMatches' /\ LoadedIsStored' /\ UnknownHasReason'
    BY <1>6, <2>1 DEF boardVars, CountMatches, LoadedIsStored, UnknownHasReason
  <2>3. ScannedHasBooks' /\ ValidFeeIsKnown'
    BY <1>6, <2>1, ScannerAssumption DEF boardVars, ScannedHasBooks, ValidFeeIsKnown,
       BothBooks
  <2>4. ASSUME NEW n \in Market, IsValid(new_results'[n])
        PROVE  Recorded(n, new_results[n])'
    <3>1. CASE n = m
      BY <2>1, <2>4, <3>1
    <3>2. CASE n # m
      <4>1. new_results'[n] = new_results[n] /\ Recorded(n, new_results[n])
        BY <2>1, <2>4, <3>2 DEF ScanOnTrack, ValidIn
      <4>2. new_results[n] \in DepthResult
        BY <2>4, <4>1 DEF IsValid, TypeOK, Board
      <4>3. QED
        BY <2>1, <4>1, <4>2, StaysRecorded DEF Recorded
    <3>3. QED
      BY <3>1, <3>2
  <2>5. ScanOnTrack'
    BY <1>6, <2>1, <2>4, ScannerAssumption DEF ScanOnTrack, Gathered, ValidIn
  <2>6. QED
    BY <2>1, <2>2, <2>3, <2>5, <2>7
<1>7. ASSUME NEW m \in Market, AssessListed(m)
      PROVE  Safe'
  <2>1. /\ bookTask = "scanning" /\ todo[m] = "listed" /\ BothBooks(m)
        /\ current = NoMarket /\ new_results[m] = NoResult /\ phase # "stopping"
        /\ UNCHANGED <<markets, books, boardVars, fee_reasons, current, market_rows>>
    BY <1>7 DEF AssessListed, ScanOnTrack
  <2>2. CASE AssessRaises
    BY <1>5, <2>1, <2>2
  <2>3. CASE AssessMarket(m, "KNOWN") /\ todo' = [todo EXCEPT ![m] = "absent"]
             /\ UNCHANGED <<phase, marketTask, bookTask>>
    <3>1. \A n \in Market : todo'[n] = IF n = m THEN "absent" ELSE todo[n]
      BY <2>3 DEF TypeOK, Catalog
    <3>2. QED
      BY <1>6, <2>1, <2>3, <3>1 DEF FeeStatus
  <2>4. QED
    BY <1>7, <2>2, <2>3 DEF AssessListed
<1>8. ASSUME NEW m \in Market, LookUpFee(m)
      PROVE  Safe'
  <2>1. /\ UNCHANGED <<boardVars, storeVars, books, fee_reasons, markets, phase,
                       marketTask, new_results, valid_count>>
        /\ bookTask = "scanning" /\ bookTask' = "awaiting_fee" /\ todo[m] = "lookup"
        /\ BothBooks(m) /\ current' = m /\ todo' = [todo EXCEPT ![m] = "absent"]
    BY <1>8 DEF LookUpFee
  <2>2. FailClosed' /\ ValidFeeIsKnown' /\ PublishedIsPersisted' /\ CountMatches'
        /\ LoadedIsStored' /\ UnknownHasReason' /\ ScannedHasBooks'
    BY <2>1 DEF FailClosed, ValidFeeIsKnown, PublishedIsPersisted, Recorded, CountMatches,
       LoadedIsStored, UnknownHasReason, ScannedHasBooks, BothBooks, boardVars, storeVars
  <2>3. ScanOnTrack'
    BY <2>1 DEF ScanOnTrack, Recorded, RowsSound, Gathered, storeVars, TypeOK, Catalog
  <2>4. QED
    BY <2>2, <2>3
<1>9. ASSUME NEW fee \in FeeStatus, FeeAnswered(fee)
      PROVE  Safe'
  <2>1. /\ bookTask = "awaiting_fee" /\ current \in Market /\ phase # "stopping"
        /\ BothBooks(current) /\ new_results[current] = NoResult
        /\ todo[current] = "absent" /\ current' = NoMarket
        /\ fee_reasons \subseteq fee_reasons'
        /\ fee = "FEE_UNKNOWN" => current \in fee_reasons'
        /\ UNCHANGED <<markets, books, boardVars, market_rows>>
    BY <1>9 DEF FeeAnswered, NoteReason, ScanOnTrack, ScannedHasBooks, BothBooks,
       TypeOK, LoopFree
  <2>2. CASE AssessRaises
    BY <1>5, <2>1, <2>2
  <2>3. CASE AssessMarket(current, fee) /\ bookTask' = "scanning"
             /\ UNCHANGED <<phase, marketTask, todo>>
    <3>1. \A n \in Market : todo'[n] = IF n = current THEN "absent" ELSE todo[n]
      BY <2>1, <2>3
    <3>2. QED
      BY <1>6, <2>1, <2>3, <3>1
  <2>4. QED
    BY <1>9, <2>2, <2>3 DEF FeeAnswered
<1>10. CASE PublishScan
  <2>1. /\ bookTask = "scanning" /\ Loaded(todo) = {} /\ bookTask' = "wait"
        /\ results' = new_results /\ opportunity_count' = valid_count
        /\ new_results' = Nothing /\ valid_count' = 0 /\ phase' = "serving"
        /\ UNCHANGED <<books, fee_reasons, markets, market_rows, opportunity_rows,
                       todo, current>>
    BY <1>10 DEF PublishScan, BooksReturned, storeVars
  <2>2. FailClosed' /\ LoadedIsStored'
    BY <2>1 DEF FailClosed, LoadedIsStored
  <2>3. PublishedIsPersisted' /\ CountMatches' /\ UnknownHasReason'
    BY <2>1 DEF PublishedIsPersisted, Recorded, CountMatches, UnknownHasReason, ScanOnTrack
  <2>4. todo' = NoneLeft
    BY <2>1 DEF Loaded, NoneLeft, TypeOK, Catalog
  <2>5. ScannedHasBooks' /\ ValidFeeIsKnown'
    BY <2>1, ScannerAssumption DEF ScannedHasBooks, ValidFeeIsKnown, ScanOnTrack, Nothing
  <2>6. ScanOnTrack'
    BY <2>1, <2>4, ValidInNothing, ScannerAssumption DEF ScanOnTrack, RowsSound, Nothing, NoneLeft,
       ValidIn, IsValid
  <2>7. QED
    BY <2>2, <2>3, <2>5, <2>6
<1>11. CASE BookCancelled
  <2>1. /\ UNCHANGED <<markets, books, boardVars, fee_reasons, phase, market_rows,
                       opportunity_rows>>
        /\ new_results' = Nothing /\ todo' = NoneLeft /\ current' = NoMarket
        /\ valid_count' = 0 /\ bookTask' = "ended" /\ phase = "stopping"
    BY <1>11 DEF BookCancelled, storeVars
  <2>2. FailClosed' /\ PublishedIsPersisted' /\ CountMatches' /\ LoadedIsStored'
        /\ UnknownHasReason'
    BY <2>1 DEF boardVars, FailClosed, PublishedIsPersisted, Recorded, CountMatches,
       LoadedIsStored, UnknownHasReason
  <2>3. ScannedHasBooks' /\ ValidFeeIsKnown'
    BY <2>1, ScannerAssumption DEF boardVars, ScannedHasBooks, ValidFeeIsKnown, Nothing
  <2>4. ScanOnTrack'
    BY <2>1, ValidInNothing, ScannerAssumption DEF ScanOnTrack, RowsSound, Nothing, NoneLeft,
       ValidIn, IsValid
  <2>5. QED
    BY <2>2, <2>3, <2>4
<1>12. QED
  BY <1>1, <1>2, <1>3, <1>4, <1>7, <1>8, <1>9, <1>10, <1>11 DEF BookStep, ScanStep

LEMMA InductiveInit == Init => IInv
<1> SUFFICES ASSUME Init PROVE IInv
  OBVIOUS
<1>1. TypeOK
  BY TypeInit
<1>2. FailClosed /\ PublishedIsPersisted /\ CountMatches
  BY ValidInNothing DEF Init, EmptyTable, FailClosed, PublishedIsPersisted, CountMatches
<1>3. LoadedIsStored /\ UnknownHasReason
  BY EmptyFacts DEF Init, LoadedIsStored, UnknownHasReason, Nothing
<1>4. ScannedHasBooks /\ ScanOnTrack /\ ValidFeeIsKnown
  BY ValidInNothing, ScannerAssumption DEF Init, ScannedHasBooks, ValidFeeIsKnown, ScanOnTrack, Nothing,
     NoneLeft, ValidIn, IsValid, RowsSound, EmptyTable
<1>5. QED
  BY <1>1, <1>2, <1>3, <1>4 DEF IInv

LEMMA InductiveStep == IInv /\ [Next]_vars => IInv'
<1> SUFFICES ASSUME IInv, [Next]_vars PROVE IInv'
  OBVIOUS
<1>1. TypeOK'
  BY TypeStep DEF IInv
<1>2. CASE MarketStep
  BY <1>1, <1>2, MarketStepSafe DEF IInv
<1>3. CASE BookStep
  BY <1>1, <1>3, BookStepSafe DEF IInv
<1>4. CASE SocketStep
  <2>1. /\ UNCHANGED <<boardVars, scanVars, opportunity_rows, fee_reasons, markets,
                       market_rows, bookTask, marketTask, phase>>
        /\ books \subseteq books'
        /\ socketTask' = socketTask \/ socketTask' = "ended" \/ phase = "stopping"
    BY <1>4 DEF SocketStep, WebSocketBook, SocketCancelled, SocketClosed, storeVars
  <2>2. PhaseFits'
    BY <2>1 DEF IInv, ScanOnTrack, PhaseFits, Gathered
  <2>3. QED
    BY <1>1, <2>1, <2>2, QuietStep DEF Scanning, IInv, LoadedIsStored
<1>5. CASE UNCHANGED vars
  <2>1. UNCHANGED <<boardVars, scanVars, opportunity_rows, fee_reasons, markets,
                    market_rows, bookTask, books, phase, marketTask, socketTask>>
    BY <1>5 DEF vars, boardVars, scanVars
  <2>2. QED
    BY <1>1, <2>1, QuietStep DEF Scanning, IInv, LoadedIsStored, ScanOnTrack, PhaseFits,
       Gathered
<1>6. CASE Stop \/ Close
  <2>1. /\ UNCHANGED <<boardVars, scanVars, opportunity_rows, fee_reasons, markets,
                       market_rows, bookTask, books, marketTask, socketTask>>
        /\ \/ phase' = "stopping" /\ bookTask # "scanning"
           \/ phase' \in {"closed", "aborted"} /\ Gathered
    BY <1>6 DEF Stop, Close, storeVars, LoopFree
  <2>2. QED
    BY <1>1, <2>1, QuietStep DEF Scanning, IInv, LoadedIsStored, PhaseFits, Gathered
<1>7. QED
  BY <1>2, <1>3, <1>4, <1>5, <1>6 DEF Next

LEMMA Inductive == Spec => []IInv
  BY InductiveInit, InductiveStep, PTL DEF Spec

(* Unknown fees fail closed: no result computed with an unknown fee is ever  *)
(* written to the opportunities table.                                       *)
THEOREM UnknownFeesFailClosed == Spec => []FailClosed
  BY Inductive, PTL DEF IInv

(* No published VALID result was computed with an unknown fee.               *)
THEOREM ValidResultsFeeKnown == Spec => []ValidFeeIsKnown
  BY Inductive, PTL DEF IInv

(* The table vouches for whatever the console can show as an opportunity,    *)
(* also when a later scan has overwritten the result in its row.             *)
THEOREM PublishedResultsPersisted == Spec => []PublishedIsPersisted
  BY Inductive, PTL DEF IInv

(* The opportunity count is the number of published opportunities.           *)
THEOREM OpportunityCountMatches == Spec => []CountMatches
  BY Inductive, PTL DEF IInv

(* Every market the runtime holds is in the markets table.                   *)
THEOREM LoadedMarketsStored == Spec => []LoadedIsStored
  BY Inductive, PTL DEF IInv

(* A published unknown fee has a reason to show.                             *)
THEOREM UnknownFeesHaveReasons == Spec => []UnknownHasReason
  BY Inductive, PTL DEF IInv

(* Between any two of its steps the scan is on track: no market is assessed  *)
(* twice, the running count is right, the table vouches for its              *)
(* opportunities, and nothing is closed before all three tasks are over.     *)
THEOREM ScansStayOnTrack == Spec => []ScanOnTrack
  BY Inductive, PTL DEF IInv

(* What the scan has assessed or is assessing has both its books.            *)
THEOREM ScannedMarketsHaveBooks == Spec => []ScannedHasBooks
  BY Inductive, PTL DEF IInv

-----------------------------------------------------------------------------
(* The runtime implements OpportunityBoard. *)

LEMMA PromisedOpportunities ==
    ASSUME NEW board \in Board
    PROVE  Promise!Opportunities(board) = ValidIn(board)
<1>1. \A m \in Market : board[m] \in ValidResults <=> IsValid(board[m])
  BY DEF ValidResults, Board, IsValid
<1>2. QED
  BY <1>1 DEF Promise!Opportunities, ValidIn

LEMMA SameCardinality ==
    ASSUME NEW S
    PROVE  Promise!Cardinality(S) = Cardinality(S)
  BY DEF Promise!Cardinality, Cardinality

(* What the table vouches for, market by market. *)
Ledger == UNION {{m} \X Vouched(m) : m \in Market}

LEMMA InLedger ==
    \A x : x \in Ledger <=> \E n \in Market, h \in Hash :
                              \E v \in VouchedFor(opportunity_rows[n][h]) : x = <<n, v>>
<1>1. \A n, v : v \in Vouched(n) <=> \E h \in Hash : v \in VouchedFor(opportunity_rows[n][h])
  BY DEF Vouched
<1>2. \A x : x \in Ledger <=> \E n \in Market : x \in {n} \X Vouched(n)
  BY DEF Ledger
<1>3. \A x, n : x \in {n} \X Vouched(n) <=> \E v \in Vouched(n) : x = <<n, v>>
  OBVIOUS
<1>4. QED
  BY <1>1, <1>2, <1>3

(* Recording a result enters it in the ledger and changes nothing else.      *)
LEMMA LedgerGrows ==
    ASSUME IInv, NEW m \in Market, NEW r \in DepthResult, IsValid(r), r.fee = "KNOWN",
           UpsertOpportunity(m, r)
    PROVE  Ledger' = Ledger \cup {<<m, r>>}
<1>1. /\ VouchedFor(opportunity_rows'[m][r.hash])
           = VouchedFor(opportunity_rows[m][r.hash]) \cup {r}
      /\ r.hash \in Hash
      /\ \A n \in Market, h \in Hash :
           <<n, h>> # <<m, r.hash>> => opportunity_rows'[n][h] = opportunity_rows[n][h]
  <2>1. TypeOK /\ FailClosed /\ RowsSound
    BY DEF IInv, ScanOnTrack
  <2>2. r.hash \in Hash
    BY DEF DepthResult
  <2>3. QED
    BY <2>1, <2>2, UpsertVouches, UpsertedRow
<1> DEFINE before(n, h) == VouchedFor(opportunity_rows[n][h])
           after(n, h)  == VouchedFor(opportunity_rows'[n][h])
<1>2. \A n \in Market, h \in Hash :
        after(n, h) = IF n = m /\ h = r.hash THEN before(n, h) \cup {r} ELSE before(n, h)
  BY <1>1
<1>3. \A x : x \in Ledger <=> \E n \in Market, h \in Hash : \E v \in before(n, h) : x = <<n, v>>
  BY InLedger
<1>4. \A x : x \in Ledger' <=> \E n \in Market, h \in Hash : \E v \in after(n, h) : x = <<n, v>>
  <2>1. (\A x : x \in Ledger <=> \E n \in Market, h \in Hash :
                       \E v \in VouchedFor(opportunity_rows[n][h]) : x = <<n, v>>)'
    BY InLedger, PTL
  <2>2. QED
    BY <2>1
<1> HIDE DEF before, after
<1>5. ASSUME NEW x, x \in Ledger' PROVE x \in Ledger \cup {<<m, r>>}
  <2>1. \E n \in Market, h \in Hash : \E v \in after(n, h) : x = <<n, v>>
    BY <1>4, <1>5
  <2>2. PICK n \in Market, h \in Hash : \E v \in after(n, h) : x = <<n, v>>
    BY <2>1
  <2>3. PICK v \in after(n, h) : x = <<n, v>>
    BY <2>2
  <2>4. v \in before(n, h) \/ x = <<m, r>>
    BY <1>2, <2>3
  <2>5. QED
    BY <1>3, <2>3, <2>4
<1>6. ASSUME NEW x, x \in Ledger PROVE x \in Ledger'
  <2>1. \E n \in Market, h \in Hash : \E v \in before(n, h) : x = <<n, v>>
    BY <1>3, <1>6
  <2>2. PICK n \in Market, h \in Hash : \E v \in before(n, h) : x = <<n, v>>
    BY <2>1
  <2>3. PICK v \in before(n, h) : x = <<n, v>>
    BY <2>2
  <2>4. v \in after(n, h)
    BY <1>2, <2>3
  <2>5. QED
    BY <1>4, <2>3, <2>4
<1>7. <<m, r>> \in Ledger'
  <2>1. r \in after(m, r.hash)
    BY <1>1, <1>2
  <2>2. QED
    BY <1>1, <1>4, <2>1
<1>8. QED
  BY <1>5, <1>6, <1>7

(* An opportunity for which its row vouches is in the ledger. *)
LEMMA LedgerHolds ==
    ASSUME NEW m \in Market, NEW r \in DepthResult, Recorded(m, r)
    PROVE  <<m, r>> \in Ledger
BY InLedger DEF Recorded, DepthResult

(* Entering a result in the ledger is the only thing assessing shows. *)
LEMMA AssessRecords ==
    ASSUME IInv, NEW m \in Market, NEW fee \in FeeStatus, AssessMarket(m, fee),
           UNCHANGED boardVars
    PROVE  Promise!Next \/ UNCHANGED Promise!vars
<1>1. PICK r \in DepthResult :
         /\ r.fee = fee /\ (IsValid(r) => fee = "KNOWN")
         /\ IF IsValid(r) THEN UpsertOpportunity(m, r) ELSE UNCHANGED opportunity_rows
  BY AssessedOne
<1>2. CASE IsValid(r)
  <2>1. r \in ValidResults \cap KnownResults
    BY <1>1, <1>2 DEF ValidResults, KnownResults
  <2>2. Ledger' = Ledger \cup {<<m, r>>}
    BY <1>1, <1>2, LedgerGrows
  <2>3. Promise!Record(m, r)
    BY <2>2 DEF Promise!Record, boardVars, Ledger, Vouched
  <2>4. QED
    BY <2>1, <2>3 DEF Promise!Next
<1>3. CASE ~IsValid(r)
  BY <1>1, <1>3 DEF Promise!vars, boardVars, Vouched
<1>4. QED
  BY <1>2, <1>3

LEMMA PromiseStep == IInv /\ TypeOK' /\ [Next]_vars => [Promise!Next]_(Promise!vars)
<1> SUFFICES ASSUME IInv, TypeOK', [Next]_vars
             PROVE  Promise!Next \/ UNCHANGED Promise!vars
  OBVIOUS
<1>1. ASSUME UNCHANGED <<boardVars, opportunity_rows>>
      PROVE  UNCHANGED Promise!vars
  BY <1>1 DEF Promise!vars, boardVars, Vouched
<1>2. CASE MarketStep
  BY <1>1, <1>2 DEF MarketStep, MarketTimer, MarketsRefreshed, MarketsFailed,
     MarketsLogFailed, GeoblockChecked, MarketCancelled, storeVars
<1>3. CASE BookTimer \/ (\E answered \in SUBSET Token : BooksFetched(answered)) \/ BooksFailed
           \/ BookCancelled \/ Stop \/ Close
  BY <1>1, <1>3 DEF BookTimer, BooksFetched, BooksFailed, BookCancelled, Stop, Close, storeVars
<1>4. ASSUME NEW m \in Market, SkipMarket(m) \/ LookUpFee(m)
      PROVE  UNCHANGED Promise!vars
  BY <1>1, <1>4 DEF SkipMarket, LookUpFee, storeVars
<1>5. ASSUME NEW m \in Market, AssessListed(m)
      PROVE  Promise!Next \/ UNCHANGED Promise!vars
  BY <1>1, <1>5, AssessRecords DEF AssessListed, AssessRaises, FeeStatus
<1>6. ASSUME NEW fee \in FeeStatus, FeeAnswered(fee)
      PROVE  Promise!Next \/ UNCHANGED Promise!vars
  BY <1>1, <1>6, AssessRecords DEF FeeAnswered, NoteReason, AssessRaises, IInv, TypeOK
<1>7. CASE PublishScan
  <2>1. /\ results' = new_results /\ opportunity_count' = valid_count
        /\ opportunity_rows' = opportunity_rows
    BY <1>7 DEF PublishScan, storeVars
  <2>2. Promise!Opportunities(results') = ValidIn(new_results)
    BY <2>1, PromisedOpportunities DEF IInv, TypeOK
  <2>3. \A m \in ValidIn(new_results) : <<m, new_results[m]>> \in Ledger
    BY LedgerHolds DEF IInv, TypeOK, ScanOnTrack, Board, ValidIn, IsValid
  <2>4. Ledger' = Ledger
    BY <2>1 DEF Ledger, Vouched
  <2>5. Promise!Publish
    BY <2>1, <2>2, <2>3, <2>4, SameCardinality
       DEF Promise!Publish, IInv, TypeOK, ScanOnTrack, Board, Ledger
  <2>6. QED
    BY <2>5 DEF Promise!Next
<1>8. CASE SocketStep
  BY <1>1, <1>8 DEF SocketStep, WebSocketBook, SocketCancelled, SocketClosed, storeVars
<1>9. CASE UNCHANGED vars
  BY <1>1, <1>9 DEF vars, boardVars
<1>10. QED
  BY <1>2, <1>3, <1>4, <1>5, <1>6, <1>7, <1>8, <1>9 DEF Next, BookStep, ScanStep

LEMMA PromiseInit == Init => Promise!Init
  BY DEF Init, Promise!Init, Nothing, EmptyTable, NoRow, VouchedFor, Vouched

(* Requests, refreshes, failures, pushed books and dying coroutines stay     *)
(* invisible: the runtime implements OpportunityBoard.                       *)
THEOREM ImplementsBoard == Spec => KeepsPromise
<1>1. IInv /\ [Next]_vars => TypeOK'
  BY TypeStep DEF IInv
<1>2. QED
  BY <1>1, Inductive, InductiveInit, InductiveStep, PromiseInit, PromiseStep, PTL
     DEF Spec, KeepsPromise, Promise!Spec

-----------------------------------------------------------------------------
(* The runtime keeps the promise of a market refresh. *)

Table == INSTANCE MarketTable WITH loaded <- Loaded(markets), rows <- market_rows

LEMMA TableStep == TypeOK /\ [Next]_vars => [Table!Next]_(Table!vars)
<1> SUFFICES ASSUME TypeOK, [Next]_vars PROVE [Table!Next]_(Table!vars)
  OBVIOUS
<1>1. ASSUME UNCHANGED <<markets, market_rows>> PROVE [Table!Next]_(Table!vars)
  BY <1>1 DEF Table!vars
<1>2. ASSUME NEW c, MarketsRefreshed(c) \/ MarketsLogFailed(c)
      PROVE  [Table!Next]_(Table!vars)
  <2>1. markets' = c /\ market_rows' = market_rows \cup Loaded(c)
    BY <1>2 DEF MarketsRefreshed, MarketsLogFailed, UpsertMarkets
  <2>2. Table!Exchange(Loaded(c)) /\ Loaded(c) \subseteq Market
    BY <2>1 DEF Table!Exchange, Loaded
  <2>3. QED
    BY <2>2 DEF Table!Next
<1>3. ASSUME NEW stored \in SUBSET Market, MarketsFailed(stored)
      PROVE  [Table!Next]_(Table!vars)
  <2>1. Table!Record(stored)
    BY <1>3 DEF MarketsFailed, UpsertMarkets, Table!Record
  <2>2. QED
    BY <2>1 DEF Table!Next
<1>4. CASE MarketStep
  BY <1>1, <1>2, <1>3, <1>4 DEF MarketStep, MarketTimer, GeoblockChecked, MarketCancelled,
     storeVars
<1>5. CASE BookStep
  BY <1>1, <1>5 DEF BookStep, BookTimer, BooksFetched, BooksFailed, ScanStep, SkipMarket,
     AssessListed, LookUpFee, FeeAnswered, PublishScan, BookCancelled, storeVars
<1>6. CASE SocketStep \/ Stop \/ Close \/ UNCHANGED vars
  BY <1>1, <1>6 DEF SocketStep, WebSocketBook, SocketCancelled, SocketClosed,
     Stop, Close, storeVars, vars
<1>7. QED
  BY <1>4, <1>5, <1>6 DEF Next

(* The runtime implements MarketTable as refresh_markets does in Discovery:   *)
(* what it takes a refresh for is what a refresh does.                        *)
THEOREM ImplementsTable == Spec => Table!Spec
<1>1. Init => Table!Init
  BY EmptyFacts DEF Init, Table!Init
<1>2. QED
  BY <1>1, TableStep, TypeCorrect, PTL DEF Spec, Table!Spec

-----------------------------------------------------------------------------
(* A scan ends. *)

LEMMA LoadedCounts ==
    ASSUME NEW catalog
    PROVE  /\ IsFiniteSet(Loaded(catalog))
           /\ Cardinality(Loaded(catalog)) \in Nat /\ Cardinality(Market) \in Nat
           /\ Cardinality(Loaded(catalog)) <= Cardinality(Market)
BY ScannerAssumption, FS_Subset, FS_CardinalityType DEF Loaded

LEMMA OneLessLoaded ==
    ASSUME NEW catalog \in Catalog, NEW m \in Market, catalog[m] # "absent"
    PROVE  Cardinality(Loaded([catalog EXCEPT ![m] = "absent"]))
             = Cardinality(Loaded(catalog)) - 1
<1>1. Loaded([catalog EXCEPT ![m] = "absent"]) = Loaded(catalog) \ {m} /\ m \in Loaded(catalog)
  BY DEF Loaded, Catalog
<1>2. QED
  BY <1>1, LoadedCounts, FS_RemoveElement

(* The most steps the book coroutine takes before it is back at its timer.   *)
ScanLeft ==
    IF bookTask = "fetching" THEN 2 * Cardinality(Market) + 2
    ELSE IF bookTask = "scanning" THEN 2 * Cardinality(Loaded(todo)) + 1
    ELSE IF bookTask = "awaiting_fee" THEN 2 * Cardinality(Loaded(todo)) + 2
    ELSE 0

LEMMA ScanLeftBounded == ScanLeft \in 0 .. 2 * Cardinality(Market) + 2
BY LoadedCounts DEF ScanLeft

LEMMA ScanGoesOn == IInv /\ BookStep /\ bookTask # "wait" => ScanLeft' < ScanLeft
<1> SUFFICES ASSUME IInv, BookStep, bookTask # "wait" PROVE ScanLeft' < ScanLeft
  OBVIOUS
<1>1. /\ Cardinality(Market) \in Nat /\ Cardinality(Loaded(todo)) \in Nat
      /\ Cardinality(Loaded(todo')) \in Nat
      /\ Cardinality(Loaded(todo')) <= Cardinality(Market)
  BY LoadedCounts
<1>2. ASSUME bookTask \in {"fetching", "scanning", "awaiting_fee"},
             bookTask' \in {"wait", "dead", "ended"}
      PROVE  ScanLeft' < ScanLeft
  BY <1>1, <1>2 DEF ScanLeft
<1>3. ASSUME NEW answered \in SUBSET Token, BooksFetched(answered) PROVE ScanLeft' < ScanLeft
  BY <1>1, <1>3 DEF BooksFetched, ScanLeft
<1>4. CASE BooksFailed
  BY <1>2, <1>4 DEF BooksFailed, BooksReturned, BookTaskRaises
<1>5. ASSUME NEW m \in Market, SkipMarket(m) \/ AssessListed(m) \/ LookUpFee(m)
      PROVE  ScanLeft' < ScanLeft
  <2>1. bookTask = "scanning" /\ todo[m] # "absent"
    BY <1>5 DEF SkipMarket, AssessListed, LookUpFee
  <2>2. CASE AssessRaises
    BY <1>2, <2>1, <2>2 DEF AssessRaises, BookTaskRaises
  <2>3. CASE todo' = [todo EXCEPT ![m] = "absent"] /\ bookTask' \in {"scanning", "awaiting_fee"}
    <3>1. Cardinality(Loaded(todo')) = Cardinality(Loaded(todo)) - 1
      BY <2>1, <2>3, OneLessLoaded DEF IInv, TypeOK
    <3>2. QED
      BY <1>1, <2>1, <2>3, <3>1 DEF ScanLeft
  <2>4. QED
    BY <1>5, <2>1, <2>2, <2>3 DEF SkipMarket, AssessListed, LookUpFee
<1>6. ASSUME NEW fee \in FeeStatus, FeeAnswered(fee) PROVE ScanLeft' < ScanLeft
  <2>1. bookTask = "awaiting_fee"
    BY <1>6 DEF FeeAnswered
  <2>2. CASE AssessRaises
    BY <1>2, <2>1, <2>2 DEF AssessRaises, BookTaskRaises
  <2>3. CASE bookTask' = "scanning" /\ todo' = todo
    BY <1>1, <2>1, <2>3 DEF ScanLeft
  <2>4. QED
    BY <1>6, <2>2, <2>3 DEF FeeAnswered
<1>7. CASE PublishScan
  BY <1>2, <1>7 DEF PublishScan, BooksReturned
<1>8. CASE BookCancelled
  BY <1>2, <1>8 DEF BookCancelled
<1>9. CASE BookTimer
  BY <1>9 DEF BookTimer
<1>10. QED
  BY <1>3, <1>4, <1>5, <1>6, <1>7, <1>8, <1>9 DEF BookStep, ScanStep

LEMMA ScanIsNotProlonged ==
    IInv /\ [Next]_vars /\ bookTask # "wait" /\ ~BookStep => ScanLeft' = ScanLeft
<1> SUFFICES ASSUME IInv, [Next]_vars, bookTask # "wait", ~BookStep
             PROVE  bookTask' = bookTask /\ todo' = todo
  BY DEF ScanLeft
<1>1. phase \in {"boot", "failed"} => marketTask = "wait"
  BY DEF IInv, ScanOnTrack
<1>2. phase \in {"closed", "aborted"} => marketTask \in {"ended", "dead"}
  BY DEF IInv, ScanOnTrack, Gathered
<1>3. CASE MarketStep
  BY <1>1, <1>2, <1>3 DEF MarketStep, MarketTimer, MarketsRefreshed, MarketsFailed, MarketsLogFailed,
     GeoblockChecked, MarketCancelled, MarketsReturned, MarketTaskRaises, LoopFree, scanVars,
     IInv, TypeOK
<1>4. CASE SocketStep \/ Stop \/ Close \/ UNCHANGED vars
  BY <1>4 DEF SocketStep, WebSocketBook, SocketCancelled, SocketClosed,
     Stop, Close, scanVars, vars
<1>5. QED
  BY <1>3, <1>4 DEF Next

ScanAdvances ==
    bookTask # "wait" => IF BookStep THEN ScanLeft' < ScanLeft ELSE ScanLeft' = ScanLeft

(* Why the book loop comes back to its timer (LoopsReturn), for any number of *)
(* markets: a scan is over after at most two steps a market and two more, and *)
(* nothing the other tasks do meanwhile prolongs it. Markets that a refresh   *)
(* adds during a scan wait for the next one.                                  *)
THEOREM ScansRunOut ==
    Spec => [](ScanLeft \in 0 .. 2 * Cardinality(Market) + 2) /\ [][ScanAdvances]_vars
<1>1. IInv /\ [Next]_vars => ScanAdvances
  BY ScanGoesOn, ScanIsNotProlonged DEF ScanAdvances
<1>2. QED
  BY <1>1, ScanLeftBounded, Inductive, PTL DEF Spec

-----------------------------------------------------------------------------
(* A scan is complete, and knows only its own markets. *)

LEMMA AssessChangesOne ==
    ASSUME TypeOK, NEW m \in Market, NEW fee \in FeeStatus, AssessMarket(m, fee)
    PROVE  /\ new_results'[m] # NoResult
           /\ \A n \in Market \ {m} : new_results'[n] = new_results[n]
BY AssessedOne DEF TypeOK, Board

(* What the book coroutine does to one market while it scans: it is passed    *)
(* on from what is left to what is awaited and to what is assessed.           *)
InScan(m) == todo[m] # "absent" \/ current = m \/ new_results[m] # NoResult

LEMMA OneScanStep ==
    ASSUME IInv, ScanStep, NEW m \in Market, Scanning'
    PROVE  /\ InScan(m)' => InScan(m)
           /\ InScan(m) /\ BothBooks(m) => InScan(m)'
           /\ books' = books /\ results' = results
<1> USE DEF InScan, boardVars
<1>1. ASSUME NEW n \in Market, SkipMarket(n) \/ LookUpFee(n)
      PROVE  /\ InScan(m)' => InScan(m)
             /\ InScan(m) /\ BothBooks(m) => InScan(m)'
             /\ books' = books /\ results' = results
  <2>1. /\ todo[n] # "absent" /\ todo' = [todo EXCEPT ![n] = "absent"]
        /\ new_results' = new_results /\ books' = books /\ results' = results
        /\ (~BothBooks(n) /\ current' = current) \/ current' = n
    BY <1>1 DEF SkipMarket, LookUpFee
  <2>2. current = NoMarket
    BY <1>1 DEF SkipMarket, LookUpFee, IInv, ScanOnTrack
  <2>3. QED
    BY <2>1, <2>2, ScannerAssumption DEF IInv, TypeOK, Catalog
<1>2. ASSUME NEW n \in Market, AssessListed(n)
      PROVE  /\ InScan(m)' => InScan(m)
             /\ InScan(m) /\ BothBooks(m) => InScan(m)'
             /\ books' = books /\ results' = results
  <2>1. /\ AssessMarket(n, "KNOWN") /\ todo' = [todo EXCEPT ![n] = "absent"]
        /\ UNCHANGED <<books, results, current>> /\ todo[n] # "absent"
    BY <1>2 DEF AssessListed, AssessRaises, BookTaskRaises, Scanning
  <2>2. /\ new_results'[n] # NoResult
        /\ \A x \in Market \ {n} : new_results'[x] = new_results[x]
    BY <2>1, AssessChangesOne DEF IInv, FeeStatus
  <2>3. QED
    BY <2>1, <2>2 DEF IInv, TypeOK, Catalog
<1>3. ASSUME NEW fee \in FeeStatus, FeeAnswered(fee)
      PROVE  /\ InScan(m)' => InScan(m)
             /\ InScan(m) /\ BothBooks(m) => InScan(m)'
             /\ books' = books /\ results' = results
  <2>1. /\ AssessMarket(current, fee) /\ current \in Market /\ current' = NoMarket
        /\ UNCHANGED <<books, results, todo>>
    BY <1>3 DEF FeeAnswered, AssessRaises, BookTaskRaises, Scanning, IInv, TypeOK
  <2>2. /\ new_results'[current] # NoResult
        /\ \A x \in Market \ {current} : new_results'[x] = new_results[x]
    BY <2>1, AssessChangesOne DEF IInv
  <2>3. QED
    BY <2>1, <2>2, ScannerAssumption
<1>4. CASE PublishScan
  BY <1>4 DEF PublishScan, BooksReturned, Scanning
<1>5. QED
  BY <1>1, <1>2, <1>3, <1>4 DEF ScanStep

LEMMA OnlyPublishShows ==
    ASSUME [Next]_vars, ~PublishScan
    PROVE  results' = results
<1> USE DEF boardVars
<1>1. CASE MarketStep
  BY <1>1 DEF MarketStep, MarketTimer, MarketsRefreshed, MarketsFailed, MarketsLogFailed,
     GeoblockChecked, MarketCancelled
<1>2. CASE BookStep
  BY <1>2 DEF BookStep, BookTimer, BooksFetched, BooksFailed, BookCancelled, ScanStep,
     SkipMarket, AssessListed, LookUpFee, FeeAnswered
<1>3. CASE SocketStep \/ Stop \/ Close \/ UNCHANGED vars
  BY <1>3 DEF SocketStep, WebSocketBook, SocketCancelled, SocketClosed,
     Stop, Close, vars
<1>4. QED
  BY <1>1, <1>2, <1>3 DEF Next

(* Only a batch begins a scan. *)
LEMMA OnlyBatchesBegin ==
    ASSUME IInv, [Next]_vars, ~Scanning, Scanning'
    PROVE  \E answered : BooksFetched(answered)
<1>1. CASE MarketStep
  BY <1>1 DEF MarketStep, MarketTimer, MarketsRefreshed, MarketsFailed, MarketsLogFailed,
     GeoblockChecked, MarketCancelled, MarketsReturned, MarketTaskRaises, Scanning
<1>2. CASE BookStep
  BY <1>2 DEF BookStep, BookTimer, BooksFailed, BooksReturned, BookTaskRaises, BookCancelled,
     ScanStep, SkipMarket, AssessListed, LookUpFee, FeeAnswered, PublishScan, Scanning
<1>3. CASE SocketStep \/ Stop \/ Close \/ UNCHANGED vars
  BY <1>3 DEF SocketStep, WebSocketBook, SocketCancelled, SocketClosed,
     Stop, Close, Scanning, vars
<1>4. QED
  BY <1>1, <1>2, <1>3 DEF Next

(* Steps that are none of the scan's leave its market lists alone. *)
LEMMA OtherStep ==
    ASSUME IInv, [Next]_vars, ~ScanStep, Scanning, Scanning'
    PROVE  UNCHANGED scanVars /\ books \subseteq books'
<1>1. CASE MarketStep
  BY <1>1 DEF MarketStep, MarketTimer, MarketsRefreshed, MarketsFailed, MarketsLogFailed,
     GeoblockChecked, MarketCancelled
<1>2. CASE BookStep
  BY <1>2 DEF BookStep, BookTimer, BooksFetched, BooksFailed, BookCancelled, Scanning
<1>3. CASE SocketStep \/ Stop \/ Close \/ UNCHANGED vars
  BY <1>3 DEF SocketStep, WebSocketBook, SocketCancelled, SocketClosed,
     Stop, Close, scanVars, vars
<1>4. QED
  BY <1>1, <1>2, <1>3 DEF Next

ScanIsComplete ==
    \A m \in Market :
        /\ \A answered : BooksFetched(answered) /\ markets[m] # "absent"
                            /\ {m} \X Side \subseteq answered
              => (InScan(m) /\ BothBooks(m))'
        /\ Scanning /\ InScan(m) /\ BothBooks(m) /\ Scanning' => (InScan(m) /\ BothBooks(m))'
        /\ PublishScan /\ InScan(m) => results'[m] # NoResult

(* The safety behind ListedIsShown: a loaded market with both its books in    *)
(* the batch is in the scan from the moment the batch is installed and is     *)
(* lost by none of its steps, whatever is pushed or refreshed while it awaits *)
(* fees; when the scan is published, the market has a result.                 *)
THEOREM ScansMissNothing == Spec => [][ScanIsComplete]_vars
<1>1. ASSUME IInv, [Next]_vars PROVE ScanIsComplete
  <2> SUFFICES ASSUME NEW m \in Market
               PROVE  /\ \A answered : BooksFetched(answered) /\ markets[m] # "absent"
                                          /\ {m} \X Side \subseteq answered
                            => (InScan(m) /\ BothBooks(m))'
                      /\ Scanning /\ InScan(m) /\ BothBooks(m) /\ Scanning'
                            => (InScan(m) /\ BothBooks(m))'
                      /\ PublishScan /\ InScan(m) => results'[m] # NoResult
    BY DEF ScanIsComplete
  <2>1. ASSUME NEW answered, BooksFetched(answered), markets[m] # "absent",
               {m} \X Side \subseteq answered
        PROVE  (InScan(m) /\ BothBooks(m))'
    BY <2>1 DEF BooksFetched, InScan, BothBooks
  <2>2. ASSUME Scanning, InScan(m), BothBooks(m), Scanning'
        PROVE  (InScan(m) /\ BothBooks(m))'
    <3>1. CASE ScanStep
      BY <1>1, <2>2, <3>1, OneScanStep DEF BothBooks
    <3>2. CASE ~ScanStep
      BY <1>1, <2>2, <3>2, OtherStep DEF BothBooks, InScan, scanVars
    <3>3. QED
      BY <3>1, <3>2
  <2>3. ASSUME PublishScan, InScan(m) PROVE results'[m] # NoResult
    BY <1>1, <2>3, ScannerAssumption DEF PublishScan, InScan, Loaded, IInv, ScanOnTrack
  <2>4. QED
    BY <2>1, <2>2, <2>3
<1>2. QED
  BY <1>1, Inductive, PTL DEF Spec

DelistedIsForgotten ==
    \A m \in Market :
        /\ markets[m] = "absent" /\ (\E answered : BooksFetched(answered)) => ~InScan(m)'
        /\ markets'[m] = "absent" /\ ~InScan(m) => ~InScan(m)'
        /\ ~InScan(m) => results'[m] \in {results[m], NoResult}
        /\ ~InScan(m) /\ PublishScan => results'[m] = NoResult

(* The safety behind DelistedLeaves: a market that is not loaded when a batch *)
(* is installed is not in that scan, and it comes into none as long as it     *)
(* stays delisted; the end of the first such scan takes its result away, and  *)
(* none is ever put in its place.                                             *)
THEOREM DelistedMarketsForgotten == Spec => [][DelistedIsForgotten]_vars
<1>1. ASSUME IInv, [Next]_vars PROVE DelistedIsForgotten
  <2> SUFFICES ASSUME NEW m \in Market
               PROVE  /\ markets[m] = "absent" /\ (\E answered : BooksFetched(answered))
                            => ~InScan(m)'
                      /\ markets'[m] = "absent" /\ ~InScan(m) => ~InScan(m)'
                      /\ ~InScan(m) => results'[m] \in {results[m], NoResult}
                      /\ ~InScan(m) /\ PublishScan => results'[m] = NoResult
    BY DEF DelistedIsForgotten
  <2>1. ASSUME NEW answered, BooksFetched(answered), markets[m] = "absent" PROVE ~InScan(m)'
    BY <1>1, <2>1, ScannerAssumption
       DEF BooksFetched, FreshScan, InScan, Nothing, IInv, ScanOnTrack
  <2>2. ASSUME ~InScan(m), PublishScan PROVE results'[m] = NoResult
    BY <2>2 DEF PublishScan, InScan
  <2>3. ASSUME ~InScan(m), ~PublishScan PROVE results'[m] = results[m]
    BY <1>1, <2>3, OnlyPublishShows
  <2>4. ASSUME ~InScan(m), markets'[m] = "absent" PROVE ~InScan(m)'
    <3>1. CASE ~Scanning'
      <4>1. todo' = NoneLeft /\ new_results' = Nothing /\ current' = NoMarket
        BY <1>1, <3>1, InductiveStep DEF IInv, ScanOnTrack, Scanning
      <4>2. QED
        BY <4>1, ScannerAssumption DEF InScan, NoneLeft, Nothing
    <3>2. CASE Scanning' /\ ~Scanning
      <4>1. PICK answered : BooksFetched(answered)
        BY <1>1, <3>2, OnlyBatchesBegin
      <4>2. markets[m] = "absent"
        BY <2>4, <4>1 DEF BooksFetched
      <4>3. QED
        BY <2>1, <4>1, <4>2
    <3>3. CASE Scanning' /\ Scanning /\ ScanStep
      BY <1>1, <2>4, <3>3, OneScanStep
    <3>4. CASE Scanning' /\ Scanning /\ ~ScanStep
      BY <1>1, <2>4, <3>4, OtherStep DEF InScan, scanVars
    <3>5. QED
      BY <3>1, <3>2, <3>3, <3>4
  <2>5. QED
    BY <2>1, <2>2, <2>3, <2>4
<1>2. QED
  BY <1>1, Inductive, PTL DEF Spec

-----------------------------------------------------------------------------
(* After stop() *)

Over == {"ended", "dead"}

(* What stop() still waits for: its three tasks, the web socket task twice   *)
(* if it has a connection to close, then the client.                         *)
ToClose ==
    IF phase = "stopping"
      THEN 1 + (IF marketTask \in Over THEN 0 ELSE 1) + (IF bookTask \in Over THEN 0 ELSE 1)
             + (IF socketTask = "running" THEN 2 ELSE IF socketTask = "closing" THEN 1 ELSE 0)
      ELSE 0

AfterStop ==
    phase \in {"stopping", "closed", "aborted"} =>
        /\ phase = "stopping" /\ ToClose' < ToClose
        /\ phase' \in {"stopping", "closed", "aborted"}
        /\ phase' # "stopping" => Gathered
        /\ UNCHANGED <<markets, books, results, opportunity_count, fee_reasons, clob_status,
                       market_rows, opportunity_rows>>

LEMMA StoppedStep == IInv /\ Next => AfterStop
<1> SUFFICES ASSUME IInv, Next, phase \in {"stopping", "closed", "aborted"}
             PROVE  /\ phase = "stopping" /\ ToClose' < ToClose
                    /\ phase' \in {"stopping", "closed", "aborted"}
                    /\ phase' # "stopping" => Gathered
                    /\ UNCHANGED <<markets, books, results, opportunity_count, fee_reasons,
                                   clob_status, market_rows, opportunity_rows>>
  BY DEF AfterStop
<1>1. /\ phase = "stopping" => bookTask # "scanning"
      /\ phase \in {"closed", "aborted"} =>
           marketTask \in Over /\ bookTask \in Over /\ socketTask \in Over
      /\ ~LoopFree \/ (marketTask \in Over /\ bookTask \in Over)
  BY DEF IInv, ScanOnTrack, LoopFree, Over
<1>2. CASE MarketStep
  <2>1. MarketCancelled
    BY <1>1, <1>2 DEF MarketStep, MarketTimer, MarketsRefreshed, MarketsFailed, MarketsLogFailed,
       GeoblockChecked, Over
  <2>2. QED
    BY <2>1 DEF MarketCancelled, boardVars, scanVars, storeVars, ToClose, Over
<1>3. CASE BookStep
  <2>1. BookCancelled
    BY <1>1, <1>3 DEF BookStep, BookTimer, BooksFetched, BooksFailed, ScanStep, SkipMarket,
       AssessListed, LookUpFee, FeeAnswered, PublishScan, Over
  <2>2. QED
    BY <2>1 DEF BookCancelled, boardVars, scanVars, storeVars, ToClose, Over
<1>4. CASE SocketStep
  <2>1. ~\E t \in Token : WebSocketBook(t)
    BY DEF WebSocketBook
  <2>2. CASE SocketCancelled
    BY <2>2 DEF SocketCancelled, boardVars, scanVars, storeVars, ToClose, Over
  <2>3. CASE SocketClosed
    BY <1>1, <2>3 DEF SocketClosed, boardVars, scanVars, storeVars, ToClose, Over
  <2>4. QED
    BY <1>4, <2>1, <2>2, <2>3 DEF SocketStep
<1>5. CASE Close
  BY <1>5 DEF Close, Gathered, boardVars, scanVars, storeVars, ToClose, Over
<1>6. QED
  BY <1>2, <1>3, <1>4, <1>5 DEF Next, Stop

(* Once stop() has been called, at whatever await the tasks are, nothing is   *)
(* recorded, published or installed any more, at most five steps follow, the  *)
(* closing handshake of the web socket among them, and the client is not      *)
(* closed before all three tasks are over, after which none of them ever      *)
(* runs again.                                                                *)
THEOREM NothingAfterStop == Spec => [](ToClose \in 0 .. 5) /\ [][AfterStop]_vars
<1>1. ToClose \in 0 .. 5
  BY DEF ToClose
<1>2. IInv /\ [Next]_vars => [AfterStop]_vars
  BY StoppedStep
<1>3. QED
  BY <1>1, <1>2, Inductive, PTL DEF Spec

=============================================================================
