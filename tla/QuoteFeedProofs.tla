--------------------------- MODULE QuoteFeedProofs ---------------------------
(* Proofs about the books a scan reads, for any number of changes, books      *)
(* under way and age limit.                                                   *)
EXTENDS QuoteFeed, SequenceTheorems, TLAPS

(* What the coroutine holds while the dictionary may change under it.         *)
HeldTogether ==
    /\ Versions(NoPair) \in together /\ Versions(books) \in together
    /\ loop = "fee" => Complete(pair) /\ Versions(pair) \in together

IInv == TypeOK /\ HeldTogether /\ NoTornPair

-----------------------------------------------------------------------------
LEMMA NoPairVersions == NoPair \in Pairs /\ Versions(NoPair) = NoPair
BY DEF NoPair, Pairs, Versions

LEMMA VersionsTyped ==
    ASSUME NEW p \in Pairs
    PROVE  Versions(p) \in [Side -> Version \cup {NoBook}]
BY DEF Pairs, Versions, Book

(* Time changes the age of a book and nothing else. *)
LEMMA OlderKeepsVersions ==
    ASSUME NEW p \in Pairs
    PROVE  /\ Older(p) \in Pairs /\ Versions(Older(p)) = Versions(p)
           /\ Complete(p) => Complete(Older(p))
<1> MaxAge \in Nat /\ NoBook \notin Book
  BY FeedAssumption
<1>1. ASSUME NEW s \in Side, p[s] # NoBook, p[s].age <= MaxAge
      PROVE  /\ Older(p)[s] \in Book /\ Older(p)[s].version = p[s].version
  <2>1. p[s] \in Book
    BY <1>1 DEF Pairs
  <2>2. Older(p)[s] = [version |-> p[s].version, age |-> p[s].age + 1]
    BY <1>1, <2>1 DEF Older, Book, Age
  <2>3. p[s].version \in Version /\ p[s].age + 1 \in Age
    BY <1>1, <2>1 DEF Book, Age
  <2>4. QED
    BY <2>2, <2>3 DEF Book
<1>2. ASSUME NEW s \in Side, ~(p[s] # NoBook /\ p[s].age <= MaxAge)
      PROVE  Older(p)[s] = p[s]
  <2>1. CASE p[s] = NoBook
    BY <2>1 DEF Older
  <2>2. CASE p[s] # NoBook /\ p[s].age > MaxAge
    BY <2>2 DEF Older
  <2>3. p[s] # NoBook => p[s].age \in Nat
    BY DEF Pairs, Book, Age
  <2>4. QED
    BY <1>2, <2>1, <2>2, <2>3
<1>3. \A s \in Side : /\ Older(p)[s] \in Book \cup {NoBook}
                      /\ Older(p)[s] = NoBook <=> p[s] = NoBook
                      /\ p[s] # NoBook => Older(p)[s].version = p[s].version
  BY <1>1, <1>2 DEF Pairs
<1>4. Older(p) \in Pairs
  BY <1>3 DEF Older, Pairs
<1>5. Versions(Older(p)) = Versions(p)
  BY <1>3 DEF Versions
<1>6. QED
  BY <1>3, <1>4, <1>5 DEF Complete

LEMMA JudgedTyped ==
    ASSUME NEW p \in Pairs, Complete(p)
    PROVE  Judged(p) \in Result /\ Judged(p).of = Versions(p)
<1>1. p["yes"].age \in Age /\ p["no"].age \in Age
  BY DEF Pairs, Complete, Side, Book
<1>2. Larger(p["yes"].age, p["no"].age) \in Age
  BY <1>1 DEF Larger
<1>3. (QuoteAge <= MaxAge) \in BOOLEAN
  OBVIOUS
<1>4. QED
  BY <1>2, <1>3, VersionsTyped DEF Judged, Result

LEMMA NoResultTyped == NoResult \in Result /\ NoResult.of = NoPair
<1>1. NoPair \in [Side -> Version \cup {NoBook}] /\ 0 \in Age
  BY FeedAssumption DEF NoPair, Age
<1>2. QED
  BY <1>1 DEF NoResult, Result

(* Everything that passes through the dictionary is remembered.               *)
LEMMA HoldTyped ==
    ASSUME TypeOK, NEW b \in Pairs, Hold(b)
    PROVE  /\ books' \in Pairs /\ together' \subseteq [Side -> Version \cup {NoBook}]
           /\ together \subseteq together' /\ Versions(books') \in together'
BY VersionsTyped DEF TypeOK, Hold

-----------------------------------------------------------------------------
LEMMA InitIInv == Init => IInv
<1> SUFFICES ASSUME Init PROVE IInv
  OBVIOUS
<1>1. wire \in Seq([side: Side, book: Book])
  BY EmptySeq DEF Init
<1>2. clob \in [Side -> Version]
  BY FeedAssumption DEF Init, Version
<1>3. Versions(NoPair) \in [Side -> Version \cup {NoBook}]
  BY NoPairVersions, VersionsTyped
<1>4. TypeOK
  BY <1>1, <1>2, <1>3, NoPairVersions, NoResultTyped DEF Init, TypeOK
<1>5. HeldTogether /\ NoTornPair
  BY NoPairVersions, NoResultTyped DEF Init, HeldTogether, NoTornPair
<1>6. QED
  BY <1>4, <1>5 DEF IInv

LEMMA TypeStep == IInv /\ [Next]_vars => TypeOK'
<1> SUFFICES ASSUME TypeOK, HeldTogether, [Next]_vars PROVE TypeOK'
  BY DEF IInv
<1> USE DEF TypeOK
<1>1. ASSUME NEW s \in Side, NEW pushed \in BOOLEAN, Change(s, pushed) PROVE TypeOK'
  <2>1. clob[s] + 1 \in Version /\ 0 \in Age
    BY <1>1, FeedAssumption DEF Change, Version, Age
  <2>2. clob' \in [Side -> Version]
    BY <1>1, <2>1 DEF Change
  <2>3. wire' \in Seq([side: Side, book: Book])
    <3> DEFINE e == [side |-> s, book |-> [version |-> clob[s] + 1, age |-> 0]]
    <3>1. e \in [side: Side, book: Book]
      BY <2>1 DEF Book
    <3>2. wire' = wire \/ wire' = Append(wire, e)
      BY <1>1 DEF Change
    <3> HIDE DEF e
    <3>3. wire \in Seq([side: Side, book: Book])
      OBVIOUS
    <3>4. Append(wire, e) \in Seq([side: Side, book: Book])
      BY <3>1, <3>3, AppendProperties
    <3>5. QED
      BY <3>2, <3>3, <3>4, Zenon
  <2>4. QED
    BY <1>1, <2>2, <2>3 DEF Change, results
<1>2. CASE Connect
  BY <1>2 DEF Connect, results
<1>3. CASE Disconnect
  BY <1>3, EmptySeq DEF Disconnect, results
<1>4. CASE BookPushed
  <2>1. Head(wire) \in [side: Side, book: Book] /\ wire' \in Seq([side: Side, book: Book])
    BY <1>4, HeadTailProperties DEF BookPushed
  <2>2. [books EXCEPT ![Head(wire).side] = Head(wire).book] \in Pairs
    BY <2>1 DEF Pairs
  <2>3. books' \in Pairs /\ together' \subseteq [Side -> Version \cup {NoBook}]
    BY <1>4, <2>2, HoldTyped DEF BookPushed
  <2>4. QED
    BY <1>4, <2>1, <2>3 DEF BookPushed, results
<1>5. CASE Tick
  <2>1. books' \in Pairs /\ batch' \in Pairs /\ pair' \in Pairs
    BY <1>5, OlderKeepsVersions DEF Tick
  <2>2. wire' \in Seq([side: Side, book: Book])
    <3> DEFINE Aged(e) == [e EXCEPT !.book.age = IF @ > MaxAge THEN @ ELSE @ + 1]
    <3>1. ASSUME NEW e \in [side: Side, book: Book] PROVE Aged(e) \in [side: Side, book: Book]
      <4>1. e.book.version \in Version /\ e.book.age \in 0 .. MaxAge + 1 /\ MaxAge \in Nat
        BY FeedAssumption DEF Book, Age
      <4>2. (IF e.book.age > MaxAge THEN e.book.age ELSE e.book.age + 1) \in Age
        BY <4>1 DEF Age
      <4>3. Aged(e) = [side |-> e.side, book |-> [version |-> e.book.version,
                         age |-> IF e.book.age > MaxAge THEN e.book.age ELSE e.book.age + 1]]
        BY DEF Book
      <4>4. QED
        BY <4>1, <4>2, <4>3 DEF Book
    <3>2. wire' = [i \in DOMAIN wire |-> Aged(wire[i])]
      BY <1>5 DEF Tick
    <3>3. /\ DOMAIN wire = 1 .. Len(wire) /\ Len(wire) \in Nat
          /\ \A i \in DOMAIN wire : wire[i] \in [side: Side, book: Book]
      BY LenProperties, ElementOfSeq
    <3> HIDE DEF Aged
    <3>4. wire' \in [1 .. Len(wire) -> [side: Side, book: Book]]
      BY <3>1, <3>2, <3>3
    <3>5. QED
      BY <3>3, <3>4, SeqDef
  <2>3. QED
    BY <1>5, <2>1, <2>2 DEF Tick, results
<1>6. CASE AskBooks
  BY <1>6 DEF AskBooks, exchange, results
<1>7. CASE BatchTaken
  <2>1. batch' \in Pairs
    BY <1>7, FeedAssumption DEF BatchTaken, Pairs, Book, Age
  <2>2. QED
    BY <1>7, <2>1 DEF BatchTaken, exchange, results
<1>8. CASE BooksFetched
  <2>1. books' \in Pairs /\ together' \subseteq [Side -> Version \cup {NoBook}]
    BY <1>8, HoldTyped DEF BooksFetched, Replace
  <2>2. QED
    BY <1>8, <2>1, NoPairVersions DEF BooksFetched, exchange, results
<1>9. CASE BooksFailed
  BY <1>9, NoPairVersions DEF BooksFailed, exchange, results
<1>10. ASSUME NEW listed \in BOOLEAN, ReadPair(listed) PROVE TypeOK'
  <2>1. Judged(books) \in Result
    BY <1>10, JudgedTyped DEF ReadPair
  <2>2. QED
    BY <1>10, <2>1 DEF ReadPair, exchange
<1>11. CASE FeeAnswered
  <2>1. Judged(pair) \in Result
    BY <1>11, JudgedTyped DEF FeeAnswered, HeldTogether
  <2>2. QED
    BY <1>11, <2>1, NoPairVersions DEF FeeAnswered, Assessed, exchange
<1>12. CASE Publish
  BY <1>12, NoResultTyped DEF Publish, exchange
<1>13. CASE UNCHANGED vars
  BY <1>13 DEF vars, exchange, results
<1>14. QED
  BY <1>1, <1>2, <1>3, <1>4, <1>5, <1>6, <1>7, <1>8, <1>9, <1>10, <1>11, <1>12, <1>13
     DEF Next, BookLoop

LEMMA TogetherStep == IInv /\ [Next]_vars => (HeldTogether /\ NoTornPair)'
<1> SUFFICES ASSUME TypeOK, HeldTogether, NoTornPair, [Next]_vars
             PROVE  HeldTogether' /\ NoTornPair'
  BY DEF IInv
<1>1. ASSUME UNCHANGED <<books, loop, pair, results, together>>
      PROVE  HeldTogether' /\ NoTornPair'
  BY <1>1 DEF HeldTogether, NoTornPair, Complete, Versions, results
<1>2. ASSUME NEW s \in Side, NEW pushed \in BOOLEAN, Change(s, pushed)
      PROVE  HeldTogether' /\ NoTornPair'
  BY <1>1, <1>2 DEF Change
<1>3. CASE Connect \/ Disconnect
  BY <1>1, <1>3 DEF Connect, Disconnect
<1>4. ASSUME NEW b \in Pairs, Hold(b), loop' # "fee" \/ UNCHANGED <<loop, pair>>, UNCHANGED results
      PROVE  HeldTogether' /\ NoTornPair'
  <2>1. together \subseteq together' /\ Versions(books') \in together'
    BY <1>4, HoldTyped
  <2>2. QED
    BY <1>4, <2>1 DEF HeldTogether, NoTornPair, Complete, Versions, results
<1>5. CASE BookPushed
  <2>1. Head(wire) \in [side: Side, book: Book]
    BY <1>5, HeadTailProperties DEF BookPushed, TypeOK
  <2>2. [books EXCEPT ![Head(wire).side] = Head(wire).book] \in Pairs
    BY <2>1 DEF Pairs, TypeOK
  <2>3. QED
    BY <1>4, <1>5, <2>2 DEF BookPushed
<1>6. CASE Tick
  <2>1. /\ Versions(books') = Versions(books) /\ Versions(pair') = Versions(pair)
        /\ Complete(pair) => Complete(pair')
    BY <1>6, OlderKeepsVersions DEF Tick, TypeOK
  <2>2. UNCHANGED <<loop, results, together>>
    BY <1>6 DEF Tick
  <2>3. QED
    BY <2>1, <2>2 DEF HeldTogether, NoTornPair, results
<1>7. CASE AskBooks \/ BatchTaken \/ BooksFailed
  BY <1>7 DEF AskBooks, BatchTaken, BooksFailed, HeldTogether, NoTornPair, results
<1>8. CASE BooksFetched
  <2>1. batch \in Pairs /\ Hold(batch) /\ loop' # "fee" /\ UNCHANGED results
    BY <1>8 DEF BooksFetched, Replace, TypeOK
  <2>2. QED
    BY <1>4, <2>1
<1>9. ASSUME NEW listed \in BOOLEAN, ReadPair(listed) PROVE HeldTogether' /\ NoTornPair'
  <2>1. Complete(books) /\ UNCHANGED <<books, together, shown>>
    BY <1>9 DEF ReadPair
  <2>2. Judged(books).of = Versions(books)
    BY <2>1, JudgedTyped DEF TypeOK
  <2>3. \/ loop' = "assessed" /\ computed' = Judged(books)
        \/ loop' = "fee" /\ pair' = books /\ computed' = computed
    BY <1>9 DEF ReadPair
  <2>4. QED
    BY <2>1, <2>2, <2>3 DEF HeldTogether, NoTornPair
<1>10. CASE FeeAnswered
  <2>1. Complete(pair) /\ Versions(pair) \in together
    BY <1>10 DEF FeeAnswered, HeldTogether
  <2>2. Judged(pair).of = Versions(pair)
    BY <2>1, JudgedTyped DEF TypeOK
  <2>3. QED
    BY <1>10, <2>1, <2>2 DEF FeeAnswered, Assessed, HeldTogether, NoTornPair
<1>11. CASE Publish
  BY <1>11, NoPairVersions, NoResultTyped DEF Publish, HeldTogether, NoTornPair
<1>12. CASE UNCHANGED vars
  BY <1>1, <1>12 DEF vars
<1>13. QED
  BY <1>2, <1>3, <1>5, <1>6, <1>7, <1>8, <1>9, <1>10, <1>11, <1>12 DEF Next, BookLoop

THEOREM InductiveInvariant == Spec => []IInv
<1>1. IInv /\ [Next]_vars => IInv'
  BY TypeStep, TogetherStep DEF IInv
<1>2. QED
  BY InitIInv, <1>1, PTL DEF Spec

-----------------------------------------------------------------------------
(* Type correctness of the books under way, held and shown.                   *)
THEOREM TypeCorrect == Spec => []TypeOK
<1>1. IInv => TypeOK
  BY DEF IInv
<1>2. QED
  BY <1>1, InductiveInvariant, PTL

(* No result is ever computed from, or shown for, two books that were not     *)
(* held at the same moment, whatever is pushed, lost or fetched meanwhile.    *)
THEOREM PairsAreNotTorn == Spec => []NoTornPair
<1>1. IInv => NoTornPair
  BY DEF IInv
<1>2. QED
  BY <1>1, InductiveInvariant, PTL

-----------------------------------------------------------------------------
(* How far the exchange's books have come, once it stands still: nothing     *)
(* older is under way, on the connection or in an answer; the dictionary     *)
(* holds them; so does what the scan works on; they are shown.               *)
Current(p) == Versions(p) = clob

WireIsCurrent == \A i \in 1 .. Len(wire) : wire[i].book.version = clob[wire[i].side]

FeedIsCurrent  == WireIsCurrent /\ (loop = "answered" => Current(batch))
BooksAreCurrent == FeedIsCurrent /\ Current(books)
ScanIsCurrent  == /\ BooksAreCurrent
                  /\ loop = "fee" => Current(pair)
                  /\ loop = "assessed" => computed.of = clob
ShownIsCurrent == ScanIsCurrent /\ shown.of = clob

(* While the exchange stands still, no rung is ever lost: no late push, no   *)
(* reconnection, no failed batch and no old answer takes back what has been  *)
(* reached; and the drained wire and one round of the book coroutine climb   *)
(* them all.                                                                 *)
Climbs ==
    UNCHANGED clob =>
        /\ /\ WireIsCurrent => WireIsCurrent'
           /\ FeedIsCurrent => FeedIsCurrent'
           /\ BooksAreCurrent => BooksAreCurrent'
           /\ ScanIsCurrent => ScanIsCurrent'
           /\ ShownIsCurrent => ShownIsCurrent'
        /\ /\ wire = <<>> => WireIsCurrent
           /\ WireIsCurrent /\ BatchTaken => FeedIsCurrent'
           /\ FeedIsCurrent /\ BooksFetched => ScanIsCurrent'
           /\ ScanIsCurrent /\ Publish => ShownIsCurrent'

LEMMA SeqItem ==
    ASSUME NEW S, NEW s \in Seq(S)
    PROVE  /\ \A i \in 1 .. Len(s) : s[i] \in S
           /\ s # <<>> => Head(s) = s[1] /\ 1 \in 1 .. Len(s)
OBVIOUS

(* Time and disconnections leave versions alone; a push that is handled      *)
(* leaves the wire from its front.                                           *)
LEMMA WireStaysCurrent ==
    ASSUME TypeOK, [Next]_vars, UNCHANGED clob, WireIsCurrent
    PROVE  WireIsCurrent'
<1> DEFINE Item == [side: Side, book: Book]
<1>0. wire \in Seq(Item) /\ Len(wire) \in Nat
  BY DEF TypeOK
<1>1. ASSUME NEW s \in Side, NEW pushed \in BOOLEAN, Change(s, pushed) PROVE FALSE
  <2>1. clob[s] \in Nat /\ clob'[s] = clob[s] + 1
    BY <1>1, FeedAssumption DEF Change, TypeOK, Version
  <2>2. QED
    BY <2>1
<1>2. CASE Disconnect
  BY <1>2 DEF Disconnect, WireIsCurrent
<1>3. CASE BookPushed
  <2>1. wire # <<>> /\ wire' = Tail(wire)
    BY <1>3 DEF BookPushed
  <2>2. Len(wire') = Len(wire) - 1 /\ \A i \in 1 .. Len(wire') : wire'[i] = wire[i + 1]
    BY <1>0, <2>1
  <2>3. \A i \in 1 .. Len(wire') : i + 1 \in 1 .. Len(wire)
    BY <1>0, <2>2
  <2>4. QED
    BY <2>2, <2>3 DEF WireIsCurrent
<1>4. CASE Tick
  <2>1. DOMAIN wire = 1 .. Len(wire)
    BY <1>0
  <2>2. wire' = [i \in 1 .. Len(wire) |->
                   [wire[i] EXCEPT !.book.age = IF @ > MaxAge THEN @ ELSE @ + 1]]
    BY <1>4, <2>1 DEF Tick
  <2>3. Len(wire') = Len(wire)
    BY <1>0, <2>2
  <2>4. ASSUME NEW i \in 1 .. Len(wire)
        PROVE  wire'[i].side = wire[i].side /\ wire'[i].book.version = wire[i].book.version
    <3>1. wire[i] \in Item
      BY <1>0, SeqItem
    <3>2. QED
      BY <2>2, <3>1 DEF Book
  <2>5. QED
    BY <2>3, <2>4 DEF WireIsCurrent
<1>5. CASE UNCHANGED wire
  BY <1>5 DEF WireIsCurrent
<1>6. QED
  BY <1>1, <1>2, <1>3, <1>4, <1>5
     DEF Next, Connect, BookLoop, AskBooks, BatchTaken, BooksFetched, ReadPair, FeeAnswered,
         Publish, BooksFailed, exchange, vars

LEMMA FeedStaysCurrent ==
    ASSUME TypeOK, [Next]_vars, UNCHANGED clob, WireIsCurrent,
           FeedIsCurrent \/ BatchTaken
    PROVE  FeedIsCurrent'
<1>1. WireIsCurrent'
  BY WireStaysCurrent
<1>2. CASE BatchTaken
  <2>1. \A s \in Side : [version |-> clob[s], age |-> 0] # NoBook
    BY FeedAssumption DEF TypeOK, Book, Age
  <2>2. Versions(batch') = clob
    BY <1>2, <2>1 DEF BatchTaken, Versions, TypeOK
  <2>3. QED
    BY <1>1, <2>2 DEF FeedIsCurrent, Current
<1>3. CASE Tick /\ FeedIsCurrent
  <2>1. loop' = loop /\ Versions(batch') = Versions(batch)
    BY <1>3, OlderKeepsVersions DEF Tick, TypeOK
  <2>2. QED
    BY <1>1, <1>3, <2>1 DEF FeedIsCurrent, Current
<1>4. ASSUME FeedIsCurrent, loop' # "answered" \/ UNCHANGED <<loop, batch>>
      PROVE  FeedIsCurrent'
  BY <1>1, <1>4 DEF FeedIsCurrent, Current, Versions
<1>5. QED
  BY <1>2, <1>3, <1>4
     DEF Next, Change, Connect, Disconnect, BookPushed, BookLoop, AskBooks, BooksFetched, ReadPair,
         FeeAnswered, Publish, BooksFailed, vars

LEMMA BooksStayCurrent ==
    ASSUME TypeOK, [Next]_vars, UNCHANGED clob, FeedIsCurrent,
           BooksAreCurrent \/ BooksFetched
    PROVE  BooksAreCurrent'
<1>1. FeedIsCurrent'
  BY FeedStaysCurrent DEF FeedIsCurrent
<1>2. CASE BooksFetched
  <2>1. books' = batch /\ Current(batch)
    BY <1>2 DEF BooksFetched, Hold, Replace, FeedIsCurrent
  <2>2. QED
    BY <1>1, <2>1 DEF BooksAreCurrent, Current, Versions
<1>3. CASE BookPushed /\ BooksAreCurrent
  <2> DEFINE h == Head(wire)
  <2>1. h \in [side: Side, book: Book] /\ h = wire[1] /\ 1 \in 1 .. Len(wire)
    <3>1. wire # <<>> /\ wire \in Seq([side: Side, book: Book])
      BY <1>3 DEF BookPushed, TypeOK
    <3>2. h = wire[1] /\ 1 \in 1 .. Len(wire)
      BY <3>1, SeqItem
    <3>3. wire[1] \in [side: Side, book: Book]
      BY <3>1, <3>2, SeqItem
    <3>4. QED
      BY <3>2, <3>3
  <2>2. h.book.version = clob[h.side] /\ h.book # NoBook
    BY <2>1, FeedAssumption DEF FeedIsCurrent, WireIsCurrent
  <2>3. books' = [books EXCEPT ![h.side] = h.book] /\ books \in Pairs /\ clob \in [Side -> Version]
    BY <1>3 DEF BookPushed, Hold, TypeOK
  <2> HIDE DEF h
  <2>4. \A s \in Side : books'[s] = IF s = h.side THEN h.book ELSE books[s]
    BY <2>3 DEF Pairs
  <2>5. \A s \in Side : (IF books[s] = NoBook THEN NoBook ELSE books[s].version) = clob[s]
    BY <1>3 DEF BooksAreCurrent, Current, Versions
  <2>6. \A s \in Side : (IF books'[s] = NoBook THEN NoBook ELSE books'[s].version) = clob[s]
    BY <2>2, <2>4, <2>5
  <2>7. Versions(books') = clob
    BY <2>3, <2>6 DEF Versions
  <2>8. QED
    BY <1>1, <2>7 DEF BooksAreCurrent, Current
<1>4. CASE Tick /\ BooksAreCurrent
  <2>1. Versions(books') = Versions(books)
    BY <1>4, OlderKeepsVersions DEF Tick, TypeOK
  <2>2. QED
    BY <1>1, <1>4, <2>1 DEF BooksAreCurrent, Current
<1>5. CASE UNCHANGED books /\ BooksAreCurrent
  BY <1>1, <1>5 DEF BooksAreCurrent, Current, Versions
<1>6. QED
  BY <1>2, <1>3, <1>4, <1>5
     DEF Next, Change, Connect, Disconnect, BookLoop, AskBooks, BatchTaken, ReadPair,
         FeeAnswered, Publish, BooksFailed, vars

LEMMA ScanStaysCurrent ==
    ASSUME IInv, [Next]_vars, UNCHANGED clob, FeedIsCurrent,
           ScanIsCurrent \/ BooksFetched
    PROVE  ScanIsCurrent'
<1>0. TypeOK /\ HeldTogether
  BY DEF IInv
<1>1. BooksAreCurrent'
  BY <1>0, BooksStayCurrent DEF ScanIsCurrent
<1>2. CASE BooksFetched
  BY <1>1, <1>2 DEF BooksFetched, ScanIsCurrent
<1>3. ASSUME ScanIsCurrent, NEW listed \in BOOLEAN, ReadPair(listed)
      PROVE  ScanIsCurrent'
  <2>1. Judged(books).of = clob
    BY <1>0, <1>3, JudgedTyped DEF ReadPair, TypeOK, ScanIsCurrent, BooksAreCurrent, Current
  <2>2. \/ loop' = "assessed" /\ computed' = Judged(books)
        \/ loop' = "fee" /\ pair' = books
    BY <1>3 DEF ReadPair
  <2>3. QED
    BY <1>1, <1>3, <2>1, <2>2 DEF ScanIsCurrent, BooksAreCurrent, Current, Versions
<1>4. CASE FeeAnswered /\ ScanIsCurrent
  <2>1. Judged(pair).of = clob
    BY <1>0, <1>4, JudgedTyped DEF FeeAnswered, HeldTogether, TypeOK, ScanIsCurrent, Current
  <2>2. loop' = "assessed" /\ computed' = Judged(pair)
    BY <1>4 DEF FeeAnswered, Assessed
  <2>3. QED
    BY <1>1, <2>1, <2>2 DEF ScanIsCurrent
<1>5. CASE Tick /\ ScanIsCurrent
  <2>1. Versions(pair') = Versions(pair) /\ loop' = loop /\ computed' = computed
    BY <1>0, <1>5, OlderKeepsVersions DEF Tick, TypeOK, results
  <2>2. QED
    BY <1>1, <1>5, <2>1 DEF ScanIsCurrent, Current
<1>6. ASSUME ScanIsCurrent, loop' \notin {"fee", "assessed"} \/ UNCHANGED <<loop, pair, computed>>
      PROVE  ScanIsCurrent'
  BY <1>1, <1>6 DEF ScanIsCurrent, Current, Versions
<1>7. QED
  BY <1>2, <1>3, <1>4, <1>5, <1>6
     DEF Next, Change, Connect, Disconnect, BookPushed, BookLoop, AskBooks, BatchTaken, Publish,
         BooksFailed, results, vars

LEMMA ShownStaysCurrent ==
    ASSUME IInv, [Next]_vars, UNCHANGED clob, ScanIsCurrent,
           ShownIsCurrent \/ Publish
    PROVE  ShownIsCurrent'
<1>1. ScanIsCurrent'
  BY ScanStaysCurrent DEF ScanIsCurrent, BooksAreCurrent
<1>2. CASE Publish
  BY <1>1, <1>2 DEF Publish, ScanIsCurrent, ShownIsCurrent
<1>3. CASE UNCHANGED shown /\ ShownIsCurrent
  BY <1>1, <1>3 DEF ShownIsCurrent
<1>4. QED
  BY <1>2, <1>3
     DEF Next, Change, Connect, Disconnect, BookPushed, Tick, BookLoop, AskBooks, BatchTaken,
         BooksFetched, ReadPair, FeeAnswered, BooksFailed, results, vars

(* The safety behind Converges, for any number of changes and of books under *)
(* way: what is reached after the last change of the exchange stays, and one *)
(* batch taken after the old pushes have been handled leads to results for   *)
(* the exchange's books.                                                     *)
THEOREM ConvergesForGood == Spec => [][Climbs]_vars
<1>1. IInv /\ [Next]_vars => Climbs
  <2> SUFFICES ASSUME IInv, [Next]_vars, UNCHANGED clob
               PROVE  /\ /\ WireIsCurrent => WireIsCurrent'
                         /\ FeedIsCurrent => FeedIsCurrent'
                         /\ BooksAreCurrent => BooksAreCurrent'
                         /\ ScanIsCurrent => ScanIsCurrent'
                         /\ ShownIsCurrent => ShownIsCurrent'
                      /\ /\ wire = <<>> => WireIsCurrent
                         /\ WireIsCurrent /\ BatchTaken => FeedIsCurrent'
                         /\ FeedIsCurrent /\ BooksFetched => ScanIsCurrent'
                         /\ ScanIsCurrent /\ Publish => ShownIsCurrent'
    BY DEF Climbs
  <2>1. TypeOK
    BY DEF IInv
  <2>2. /\ FeedIsCurrent => WireIsCurrent
        /\ BooksAreCurrent => FeedIsCurrent
        /\ ScanIsCurrent => BooksAreCurrent
        /\ ShownIsCurrent => ScanIsCurrent
    BY DEF FeedIsCurrent, BooksAreCurrent, ScanIsCurrent, ShownIsCurrent
  <2>3. wire = <<>> => WireIsCurrent
    BY DEF WireIsCurrent
  <2>4. QED
    BY <2>1, <2>2, <2>3, WireStaysCurrent, FeedStaysCurrent, BooksStayCurrent,
       ScanStaysCurrent, ShownStaysCurrent
<1>2. QED
  BY <1>1, InductiveInvariant, PTL DEF Spec

=============================================================================
