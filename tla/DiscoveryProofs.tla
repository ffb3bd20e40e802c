--------------------------- MODULE DiscoveryProofs ---------------------------
(* Proofs about the market refresh, for any raw markets, listings of any      *)
(* length, answers and page limits.                                           *)
EXTENDS Discovery, FiniteSets, SequenceTheorems, FiniteSetTheorems, TLAPS

(* A market whose two legs go by their labels. *)
Formed(m) == \E k \in {1, 2} :
    /\ Fold(m.outcomes[k]) = "yes" /\ Fold(m.outcomes[3 - k]) = "no"
    /\ m.yes = m.tokens[k] /\ m.no = m.tokens[3 - k]

(* Every market of a dictionary has its row, with its two tokens in it.       *)
Backed(ms) == \A i \in DOMAIN ms :
    /\ i \in DOMAIN stored /\ Formed(ms[i])
    /\ \A k \in {1, 2} : stored[i].tokens[ms[i].outcomes[k]] = ms[i].tokens[k]

Legs(m) == {m.yes, m.no}

Distinct(ms) == \A i, j \in DOMAIN ms :
    /\ ms[i].yes # ms[i].no
    /\ i # j => Legs(ms[i]) \cap Legs(ms[j]) = {}

(* The pages so far are the beginning of the listing, and the cursor is where *)
(* it goes on.                                                                *)
Paging ==
    /\ phase = "idle" => ~honest
    /\ phase = "fetching" => Len(collected) < Maximum
    /\ honest /\ phase = "fetching" =>
         /\ Len(collected) <= Len(listing)
         /\ collected = FirstOfListing(Len(collected))
         /\ cursor = IF collected = <<>> THEN None ELSE Len(collected)

BackedAll ==
    /\ Unique(stored)
    /\ phase = "storing" => Backed(next_markets)
    /\ phase = "idle" /\ gamma_status = "ok" => Backed(markets)
    /\ Distinct(markets)

IInv == TypeOK /\ Paging /\ CollectedIsFirst /\ BackedAll

-----------------------------------------------------------------------------
LEMMA DictWith ==
    ASSUME NEW f, NEW R, IsDict(f, R), NEW i \in Id, NEW x \in R
    PROVE  /\ IsDict(With(f, i, x), R)
           /\ DOMAIN With(f, i, x) = DOMAIN f \cup {i}
           /\ With(f, i, x)[i] = x
           /\ \A j \in DOMAIN f : j # i => With(f, i, x)[j] = f[j]
BY DEF IsDict, With

(* normalize_market finds the outcomes by their labels, in either order.      *)
LEMMA NormalisedIsFormed ==
    ASSUME NEW raw \in RawMarket, Normal(raw)
    PROVE  /\ Normalised(raw) \in Market /\ Formed(Normalised(raw))
           /\ Fold(Normalised(raw).outcomes[1]) # Fold(Normalised(raw).outcomes[2])
<1> DEFINE m == Normalised(raw)
<1>1. /\ raw.outcomes \in [1 .. 2 -> Label] /\ raw.tokens \in [1 .. 2 -> Token]
      /\ raw.id \in Id /\ raw.condition \in Condition
  BY LenProperties DEF Normal, RawMarket
<1>2. /\ m.outcomes = raw.outcomes /\ m.tokens = raw.tokens
      /\ m.yes = raw.tokens[YesAt(raw)] /\ m.no = raw.tokens[3 - YesAt(raw)]
  BY DEF Normalised
<1>3. /\ YesAt(raw) \in {1, 2}
      /\ Fold(raw.outcomes[YesAt(raw)]) = "yes" /\ Fold(raw.outcomes[3 - YesAt(raw)]) = "no"
  <2>1. CASE Fold(raw.outcomes[1]) = "yes"
    BY <2>1 DEF YesAt, Normal
  <2>2. CASE Fold(raw.outcomes[1]) # "yes"
    BY <2>2 DEF YesAt, Normal
  <2>3. QED
    BY <2>1, <2>2
<1>4. m \in Market
  <2>1. raw.tokens[YesAt(raw)] \in Token /\ raw.tokens[3 - YesAt(raw)] \in Token
    BY <1>1, <1>3
  <2>2. QED
    BY <1>1, <2>1 DEF Normalised, Market
<1>5. Formed(m)
  BY <1>2, <1>3 DEF Formed
<1>6. Fold(raw.outcomes[1]) # Fold(raw.outcomes[2])
  BY DEF Normal
<1>7. QED
  BY <1>2, <1>4, <1>5, <1>6

(* The row after upsert_market holds both tokens under their labels.          *)
LEMMA StoredHolds ==
    ASSUME IsDict(stored, Row), NEW m \in Market, m.outcomes[1] # m.outcomes[2]
    PROVE  /\ Stored(m) \in Row
           /\ \A k \in {1, 2} : Stored(m).tokens[m.outcomes[k]] = m.tokens[k]
<1> DEFINE old == IF m.id \in DOMAIN stored THEN stored[m.id]
                  ELSE [condition |-> m.condition, tokens |-> [l \in Label |-> None]]
           new == [l \in Label |-> IF l = m.outcomes[1] THEN m.tokens[1]
                                   ELSE IF l = m.outcomes[2] THEN m.tokens[2] ELSE old.tokens[l]]
<1>1. old \in Row
  BY DEF IsDict, Row, Market
<1>2. \A k \in {1, 2} : m.outcomes[k] \in Label /\ m.tokens[k] \in Token
  BY DEF Market
<1>3. new \in [Label -> Token \cup {None}]
  BY <1>1, <1>2 DEF Row
<1>4. Stored(m) = [old EXCEPT !.tokens = new]
  BY DEF Stored
<1>5. Stored(m) = [condition |-> old.condition, tokens |-> new]
  BY <1>1, <1>4 DEF Row
<1>6. Stored(m) \in Row
  BY <1>1, <1>3, <1>5 DEF Row
<1>7. \A k \in {1, 2} : new[m.outcomes[k]] = m.tokens[k]
  BY <1>2
<1> HIDE DEF new, old
<1>8. QED
  BY <1>5, <1>6, <1>7

(* The unique column does what nothing else does: markets that have their     *)
(* rows have four different legs, two by two.                                 *)
LEMMA RowsKeepApart ==
    ASSUME NEW ms, IsDict(ms, Market), Unique(stored), Backed(ms)
    PROVE  Distinct(ms)
<1> SUFFICES ASSUME NEW i \in DOMAIN ms, NEW j \in DOMAIN ms
             PROVE  /\ ms[i].yes # ms[i].no
                    /\ i # j => Legs(ms[i]) \cap Legs(ms[j]) = {}
  BY DEF Distinct
<1>1. ms[i] \in Market /\ ms[j] \in Market
  BY DEF IsDict
<1>2. /\ \A k \in {1, 2} : ms[i].outcomes[k] \in Label /\ ms[i].tokens[k] \in Token
      /\ \A k \in {1, 2} : ms[j].outcomes[k] \in Label /\ ms[j].tokens[k] \in Token
  BY <1>1 DEF Market
<1>3. None \notin Token
  BY DiscoveryAssumption
<1>4. ASSUME NEW k \in {1, 2}, NEW h \in {1, 2}, ms[i].tokens[k] = ms[j].tokens[h]
      PROVE  i = j /\ ms[i].outcomes[k] = ms[j].outcomes[h]
  BY <1>2, <1>3, <1>4 DEF Backed, Unique
<1>5. PICK k \in {1, 2} : /\ Fold(ms[i].outcomes[k]) = "yes" /\ Fold(ms[i].outcomes[3 - k]) = "no"
                          /\ ms[i].yes = ms[i].tokens[k] /\ ms[i].no = ms[i].tokens[3 - k]
  BY DEF Backed, Formed
<1>6. PICK h \in {1, 2} : /\ ms[j].yes = ms[j].tokens[h] /\ ms[j].no = ms[j].tokens[3 - h]
  BY DEF Backed, Formed
<1>7. i # j => Legs(ms[i]) \cap Legs(ms[j]) = {}
  BY <1>4, <1>5, <1>6 DEF Legs
<1>8. ms[i].yes # ms[i].no
  <2>1. SUFFICES ASSUME ms[i].tokens[k] = ms[i].tokens[3 - k] PROVE FALSE
    BY <1>5
  <2>2. \A a \in {1, 2}, b \in {1, 2} :
            ms[i].tokens[a] = ms[i].tokens[b] => ms[i].outcomes[a] = ms[i].outcomes[b]
    BY <1>2, <1>3 DEF Backed, Unique
  <2>3. QED
    BY <2>1, <2>2, <1>5
<1>9. QED
  BY <1>7, <1>8

-----------------------------------------------------------------------------
LEMMA KeptIsPrefix ==
    ASSUME NEW s \in Seq(Item)
    PROVE  /\ Kept(s) \in Seq(Item) /\ Len(Kept(s)) <= Maximum
           /\ Len(s) <= Maximum => Kept(s) = s
<1> DEFINE n == Smaller(Maximum, Len(s))
<1>1. Len(s) \in Nat /\ Maximum \in Nat /\ n \in 0 .. Len(s) /\ n <= Maximum
  BY LenProperties, DiscoveryAssumption DEF Smaller
<1>2. \A i \in 1 .. n : s[i] \in Item
  BY <1>1, ElementOfSeq
<1>3. Kept(s) \in Seq(Item) /\ Len(Kept(s)) = IF 1 <= n THEN n - 1 + 1 ELSE 0
  <2> HIDE DEF n
  <2>1. SubSeq(s, 1, n) \in Seq(Item) /\ Len(SubSeq(s, 1, n)) = IF 1 <= n THEN n - 1 + 1 ELSE 0
    BY <1>1, <1>2, SubSeqProperties
  <2>2. QED
    BY <2>1 DEF Kept, n
<1>4. ASSUME Len(s) <= Maximum PROVE Kept(s) = s
  <2>1. n = Len(s)
    BY <1>1, <1>4 DEF Smaller
  <2>2. QED
    BY <2>1, SubSeqFull DEF Kept
<1> HIDE DEF n
<1>5. QED
  BY <1>1, <1>3, <1>4

(* One honest answer carries the collection on without a gap or a repetition, *)
(* and the loop stops neither before the end nor after it.                    *)
LEMMA HonestPage ==
    ASSUME TypeOK, Paging, honest, phase = "fetching",
           NEW got, got = collected \o HonestAnswer.page
    PROVE  /\ HonestAnswer.page \in Seq(Item)
           /\ Len(got) <= Len(listing) /\ Len(got) <= Maximum
           /\ got = FirstOfListing(Len(got))
           /\ LastPage(HonestAnswer) => Len(got) = Len(listing)
           /\ ~LastPage(HonestAnswer) => got # <<>> /\ HonestAnswer.next = Len(got)
<1> DEFINE n    == Len(collected)
           from == IF cursor = None THEN 0 ELSE cursor
           to   == Smaller(Len(listing), from + Limit)
<1>1. /\ n \in Nat /\ n < Maximum /\ n <= Len(listing) /\ Len(listing) \in Nat
      /\ collected = SubSeq(listing, 1, n) /\ collected \in Seq(Item) /\ listing \in Seq(Item)
  BY LenProperties DEF TypeOK, Paging, FirstOfListing
<1>2. from = n
  <2>1. CASE collected = <<>>
    <3>1. n = 0
      BY <2>1, EmptySeq
    <3>2. QED
      BY <2>1, <3>1 DEF Paging
  <2>2. CASE collected # <<>>
    <3>1. cursor = n
      BY <2>2 DEF Paging
    <3>2. n # None
      BY <1>1, DiscoveryAssumption
    <3>3. QED
      BY <3>1, <3>2
  <2>3. QED
    BY <2>1, <2>2
<1>3. Limit \in Nat \ {0} /\ n + Limit <= Maximum
  <2>1. PageLimit \in Nat \ {0} /\ Maximum \in Nat
    BY DiscoveryAssumption
  <2>2. Limit = IF PageLimit < Maximum - n THEN PageLimit ELSE Maximum - n
    BY DEF Limit, Smaller
  <2> HIDE DEF n
  <2>3. QED
    BY <1>1, <2>1, <2>2
<1>4. to \in n .. Len(listing) /\ to <= Maximum /\ (to = n => n = Len(listing))
  <2>1. to = IF Len(listing) < n + Limit THEN Len(listing) ELSE n + Limit
    BY <1>2 DEF Smaller
  <2>2. Maximum \in Nat
    BY DiscoveryAssumption
  <2> HIDE DEF n, from, to
  <2>3. QED
    BY <1>1, <1>3, <2>1, <2>2
<1>5. /\ HonestAnswer.page = SubSeq(listing, n + 1, to)
      /\ HonestAnswer.next = IF to < Len(listing) THEN to ELSE None
  BY <1>2 DEF HonestAnswer
<1> HIDE DEF from, to, n
<1>6. got = SubSeq(listing, 1, to)
  <2>1. 1 \in 1 .. Len(listing) + 1 /\ n \in 1 - 1 .. Len(listing) /\ to \in n .. Len(listing)
    BY <1>1, <1>4
  <2>2. SubSeq(listing, 1, n) \o SubSeq(listing, n + 1, to) = SubSeq(listing, 1, to)
    BY <1>1, <2>1, ConcatAdjacentSubSeq
  <2>3. QED
    BY <1>1, <1>5, <2>2
<1>7. /\ HonestAnswer.page \in Seq(Item)
      /\ Len(HonestAnswer.page) = IF n + 1 <= to THEN to - n ELSE 0
  <2>1. \A i \in n + 1 .. to : listing[i] \in Item
    BY <1>1, <1>4, ElementOfSeq
  <2>2. /\ SubSeq(listing, n + 1, to) \in Seq(Item)
        /\ Len(SubSeq(listing, n + 1, to)) = IF n + 1 <= to THEN to - (n + 1) + 1 ELSE 0
    BY <1>1, <1>4, <2>1, SubSeqProperties
  <2>3. QED
    BY <1>1, <1>4, <1>5, <2>2
<1>8. Len(got) = to
  <2>1. Len(got) = Len(collected) + Len(HonestAnswer.page)
    BY <1>1, <1>7, ConcatProperties
  <2>2. Len(collected) = n
    BY DEF n
  <2>3. n \in Nat /\ Len(listing) \in Nat
    BY <1>1
  <2>4. Len(HonestAnswer.page) = to - n
    BY <1>4, <1>7, <2>3
  <2>5. QED
    BY <1>4, <2>1, <2>2, <2>3, <2>4
<1>9. HonestAnswer.page = <<>> <=> to = n
  BY <1>1, <1>4, <1>7, EmptySeq
<1>10. ASSUME LastPage(HonestAnswer) PROVE Len(got) = Len(listing)
  <2>1. CASE HonestAnswer.page = <<>>
    BY <2>1, <1>4, <1>8, <1>9
  <2>2. CASE HonestAnswer.next = None
    BY <2>2, <1>1, <1>4, <1>5, <1>8, DiscoveryAssumption
  <2>3. QED
    BY <2>1, <2>2, <1>10 DEF LastPage
<1>11. ASSUME ~LastPage(HonestAnswer) PROVE got # <<>> /\ HonestAnswer.next = Len(got)
  <2>1. to # n /\ HonestAnswer.next = to
    BY <1>5, <1>9, <1>11 DEF LastPage
  <2>2. to > 0
    BY <1>1, <1>4, <2>1
  <2>3. QED
    BY <1>8, <2>1, <2>2, EmptySeq
<1>12. got = FirstOfListing(Len(got))
  BY <1>6, <1>8 DEF FirstOfListing
<1>13. Len(got) <= Len(listing) /\ Len(got) <= Maximum
  <2>1. n \in Nat /\ Len(listing) \in Nat
    BY <1>1
  <2>2. to <= Len(listing) /\ to <= Maximum
    BY <1>4, <2>1
  <2>3. QED
    BY <1>8, <2>2
<1>14. QED
  BY <1>7, <1>10, <1>11, <1>12, <1>13

LEMMA AnswersTyped ==
    ASSUME TypeOK, Paging, phase = "fetching", NEW a \in Answers
    PROVE  a.page \in Seq(Item) /\ a.next \in Nat \cup {None}
<1>1. CASE honest
  <2>1. a = HonestAnswer
    BY <1>1 DEF Answers
  <2>2. HonestAnswer.page \in Seq(Item)
    BY <1>1, HonestPage
  <2>3. HonestAnswer.next \in Nat \cup {None}
    <3>1. /\ Len(listing) \in Nat /\ Len(collected) \in Nat
          /\ (IF cursor = None THEN 0 ELSE cursor) \in Nat
      BY LenProperties DEF TypeOK
    <3>2. Limit \in Int
      BY <3>1, DiscoveryAssumption DEF Limit, Smaller
    <3>3. Limit \in Nat
      BY <3>1, DiscoveryAssumption DEF Limit, Smaller, Paging
    <3>4. Smaller(Len(listing), (IF cursor = None THEN 0 ELSE cursor) + Limit) \in Nat
      BY <3>1, <3>3 DEF Smaller
    <3>5. QED
      BY <3>4 DEF HonestAnswer
  <2>4. QED
    BY <2>1, <2>2, <2>3
<1>2. CASE ~honest
  <2>1. a \in OtherAnswers
    BY <1>2 DEF Answers
  <2>2. a.page \in Pages /\ a.next \in Cursors \cup {None}
    BY <2>1 DEF OtherAnswers
  <2>3. QED
    BY <2>2, DiscoveryAssumption
<1>3. QED
  BY <1>1, <1>2

-----------------------------------------------------------------------------
LEMMA InitIInv == Init => IInv
<1> SUFFICES ASSUME Init PROVE IInv
  OBVIOUS
<1>1. TypeOK
  <2>1. \A R : IsDict(NoMarkets, R)
    BY DEF IsDict, NoMarkets
  <2>2. listing \in Seq(Item) /\ collected \in Seq(Item) /\ todo \in Seq(Item)
    BY EmptySeq DEF Init
  <2>3. Len(collected) <= Maximum
    BY EmptySeq, DiscoveryAssumption DEF Init
  <2>4. QED
    BY <2>1, <2>2, <2>3 DEF Init, TypeOK
<1>2. Paging /\ CollectedIsFirst
  BY DEF Init, Paging, CollectedIsFirst
<1>3. BackedAll
  BY DEF Init, BackedAll, Unique, Distinct, NoMarkets
<1>4. QED
  BY <1>1, <1>2, <1>3 DEF IInv

LEMMA ListingTyped ==
    ASSUME NEW ls \in Listings
    PROVE  ls \in Seq(Item)
BY SeqDef, DiscoveryAssumption DEF Listings

(* The market that is stored next. *)
LEMMA HeadIsMarket ==
    ASSUME TypeOK, Scannable
    PROVE  /\ Head(todo) \in RawMarket /\ Tail(todo) \in Seq(Item)
           /\ Normalised(Head(todo)) \in Market /\ Normalised(Head(todo)).id \in Id
           /\ Formed(Normalised(Head(todo)))
           /\ Normalised(Head(todo)).outcomes[1] # Normalised(Head(todo)).outcomes[2]
<1>1. Head(todo) \in RawMarket /\ Tail(todo) \in Seq(Item)
  <2>1. todo \in Seq(Item) /\ todo # <<>> /\ Item \subseteq RawMarket
    BY DiscoveryAssumption DEF TypeOK, Scannable
  <2>2. QED
    BY <2>1, HeadTailProperties
<1>2. Normal(Head(todo))
  BY DEF Scannable
<1>3. /\ Normalised(Head(todo)) \in Market /\ Formed(Normalised(Head(todo)))
      /\ Fold(Normalised(Head(todo)).outcomes[1]) # Fold(Normalised(Head(todo)).outcomes[2])
  BY <1>1, <1>2, NormalisedIsFormed
<1>4. Normalised(Head(todo)).id \in Id
  BY <1>3 DEF Market
<1>5. QED
  BY <1>1, <1>3, <1>4

LEMMA TypeStep == IInv /\ [Next]_vars => TypeOK'
<1> SUFFICES ASSUME TypeOK, Paging, [Next]_vars PROVE TypeOK'
  BY DEF IInv
<1> USE DEF TypeOK
<1>1. ASSUME Failed, UNCHANGED <<markets, stored>> PROVE TypeOK'
  <2>1. <<>> \in Seq(Item) /\ Len(<<>>) <= Maximum
    BY EmptySeq, DiscoveryAssumption
  <2>2. \A R : IsDict(NoMarkets, R)
    BY DEF IsDict, NoMarkets
  <2>3. QED
    BY <1>1, <2>1, <2>2 DEF Failed
<1>2. ASSUME NEW h \in BOOLEAN, NEW ls \in Seq(Item), Refresh(h, ls) PROVE TypeOK'
  <2>1. <<>> \in Seq(Item) /\ Len(<<>>) <= Maximum
    BY EmptySeq, DiscoveryAssumption
  <2>2. QED
    BY <1>2, <2>1 DEF Refresh
<1>3. ASSUME NEW a \in Answers, PageAnswered(a) PROVE TypeOK'
  <2> DEFINE got == collected \o a.page
  <2>1. a.page \in Seq(Item) /\ a.next \in Nat \cup {None}
    BY <1>3, AnswersTyped DEF PageAnswered
  <2>2. got \in Seq(Item) /\ Len(got) \in Nat /\ Maximum \in Nat
    BY <2>1, ConcatProperties, LenProperties, DiscoveryAssumption
  <2>3. Kept(got) \in Seq(Item) /\ Len(Kept(got)) <= Maximum
    BY <2>2, KeptIsPrefix
  <2>4. IsDict(NoMarkets, Market)
    BY DEF IsDict, NoMarkets
  <2>5. CASE LastPage(a) \/ Len(got) >= Maximum
    BY <1>3, <2>3, <2>4, <2>5 DEF PageAnswered
  <2>6. CASE ~(LastPage(a) \/ Len(got) >= Maximum)
    <3>1. Len(got) <= Maximum
      BY <2>2, <2>6
    <3> HIDE DEF got
    <3>2. collected' = got /\ cursor' = a.next
      BY <1>3, <2>6 DEF PageAnswered, NextCursor, got
    <3>3. UNCHANGED <<phase, todo, next_markets, honest, listing, markets, stored, gamma_status>>
      BY <1>3, <2>6 DEF PageAnswered, got
    <3>4. QED
      BY <2>1, <2>2, <3>1, <3>2, <3>3
  <2>7. QED
    BY <2>5, <2>6
<1>4. CASE FetchFails
  BY <1>1, <1>4 DEF FetchFails
<1>5. CASE Skip
  <2>1. Tail(todo) \in Seq(Item)
    BY <1>5, HeadTailProperties DEF Skip
  <2>2. QED
    BY <1>5, <2>1 DEF Skip, fetched
<1>6. CASE Store
  <2> DEFINE m == Normalised(Head(todo))
  <2>1. /\ Tail(todo) \in Seq(Item) /\ m \in Market /\ m.id \in Id
        /\ m.outcomes[1] # m.outcomes[2]
    BY <1>6, HeadIsMarket DEF Store
  <2>2. Stored(m) \in Row
    BY <2>1, StoredHolds
  <2> HIDE DEF m
  <2>3. IsDict(With(stored, m.id, Stored(m)), Row) /\ IsDict(With(next_markets, m.id, m), Market)
    BY <2>1, <2>2, DictWith
  <2>4. QED
    BY <1>6, <2>1, <2>3 DEF Store, fetched, m
<1>7. CASE StoreFails \/ NormaliseFails
  BY <1>1, <1>7 DEF StoreFails, NormaliseFails
<1>8. CASE Install
  <2>1. <<>> \in Seq(Item) /\ Len(<<>>) <= Maximum /\ IsDict(NoMarkets, Market)
    BY EmptySeq, DiscoveryAssumption DEF IsDict, NoMarkets
  <2>2. QED
    BY <1>8, <2>1 DEF Install
<1>9. CASE UNCHANGED vars
  BY <1>9 DEF vars, fetched
<1>10. QED
  <2>1. <<>> \in Seq(Item)
    BY EmptySeq
  <2>2. QED
    BY <1>2, <1>3, <1>4, <1>5, <1>6, <1>7, <1>8, <1>9, <2>1, ListingTyped DEF Next, RefreshStep

(* Only the pages disturb what was collected; whatever ends a refresh forgets *)
(* the listing.                                                               *)
LEMMA PagingStep == IInv /\ [Next]_vars => (Paging /\ CollectedIsFirst)'
<1> SUFFICES ASSUME TypeOK, Paging, CollectedIsFirst, [Next]_vars
             PROVE  Paging' /\ CollectedIsFirst'
  BY DEF IInv
<1>1. ASSUME phase' = "idle", honest' = FALSE PROVE Paging' /\ CollectedIsFirst'
  BY <1>1 DEF Paging, CollectedIsFirst
<1>2. ASSUME UNCHANGED <<phase, fetched>> PROVE Paging' /\ CollectedIsFirst'
  BY <1>2 DEF Paging, CollectedIsFirst, FirstOfListing, fetched
<1>3. ASSUME NEW h \in BOOLEAN, NEW ls \in Seq(Item), Refresh(h, ls)
      PROVE  Paging' /\ CollectedIsFirst'
  <2>1. /\ phase' = "fetching" /\ collected' = <<>> /\ cursor' = None /\ listing' = ls
    BY <1>3 DEF Refresh
  <2>2. Len(<<>>) = 0 /\ SubSeq(ls, 1, 0) = <<>> /\ Len(ls) \in Nat
    BY EmptySeq, SubSeqEmpty, LenProperties
  <2>3. QED
    BY <2>1, <2>2, DiscoveryAssumption DEF Paging, CollectedIsFirst, FirstOfListing
<1>4. ASSUME NEW a \in Answers, PageAnswered(a) PROVE Paging' /\ CollectedIsFirst'
  <2> DEFINE got == collected \o a.page
  <2>1. phase = "fetching" /\ honest' = honest /\ listing' = listing
    BY <1>4 DEF PageAnswered
  <2>2. a.page \in Seq(Item) /\ collected \in Seq(Item) /\ listing \in Seq(Item)
    BY <2>1, AnswersTyped DEF TypeOK
  <2>3. got \in Seq(Item) /\ Len(got) \in Nat /\ Maximum \in Nat /\ Len(listing) \in Nat
    BY <2>2, ConcatProperties, LenProperties, DiscoveryAssumption
  <2>4. ASSUME honest
        PROVE  /\ Len(got) <= Len(listing) /\ Len(got) <= Maximum
               /\ got = FirstOfListing(Len(got))
               /\ LastPage(a) => Len(got) = Len(listing)
               /\ ~LastPage(a) => got # <<>> /\ a.next = Len(got)
    <3>1. a = HonestAnswer
      BY <2>4 DEF Answers
    <3>2. QED
      BY <2>1, <2>4, <3>1, HonestPage
  <2>5. CASE LastPage(a) \/ Len(got) >= Maximum
    <3>1. phase' = "storing" /\ collected' = Kept(got)
      BY <1>4, <2>5 DEF PageAnswered
    <3>2. ASSUME honest
          PROVE  /\ collected' = FirstOfListing(Len(collected'))
                 /\ Len(collected') = Smaller(Maximum, Len(listing))
      <4>1. Kept(got) = got
        BY <2>3, <2>4, <3>2, KeptIsPrefix
      <4>2. Len(got) = Smaller(Maximum, Len(listing))
        <5>1. /\ Len(got) <= Len(listing) /\ Len(got) <= Maximum
              /\ Len(got) = Len(listing) \/ Len(got) >= Maximum
          BY <2>4, <2>5, <3>2
        <5> HIDE DEF got
        <5>2. QED
          BY <2>3, <5>1 DEF Smaller
      <4>3. QED
        BY <2>4, <3>1, <3>2, <4>1, <4>2
    <3>3. Paging'
      BY <3>1 DEF Paging
    <3>4. CollectedIsFirst'
      BY <2>1, <3>1, <3>2 DEF CollectedIsFirst, FirstOfListing
    <3>5. QED
      BY <3>3, <3>4
  <2>6. CASE ~(LastPage(a) \/ Len(got) >= Maximum)
    <3>1. phase' = "fetching" /\ collected' = got /\ cursor' = a.next
      BY <1>4, <2>6, <2>1 DEF PageAnswered, NextCursor
    <3>2. Len(got) < Maximum
      BY <2>3, <2>6
    <3> HIDE DEF got
    <3>3. Paging'
      BY <2>1, <2>4, <2>6, <3>1, <3>2 DEF Paging, FirstOfListing
    <3>4. CollectedIsFirst'
      BY <2>1, <2>4, <3>1 DEF CollectedIsFirst, FirstOfListing
    <3>5. QED
      BY <3>3, <3>4
  <2>7. QED
    BY <2>5, <2>6
<1>5. CASE FetchFails
  BY <1>1, <1>5 DEF FetchFails, Failed
<1>6. CASE Skip
  BY <1>2, <1>6 DEF Skip
<1>7. CASE Store
  BY <1>2, <1>7 DEF Store, Scannable, fetched
<1>8. CASE StoreFails \/ NormaliseFails
  BY <1>1, <1>8 DEF StoreFails, NormaliseFails, Failed
<1>9. CASE Install
  BY <1>1, <1>9 DEF Install
<1>10. CASE UNCHANGED vars
  BY <1>2, <1>10 DEF vars
<1>11. QED
  <2>1. <<>> \in Seq(Item)
    BY EmptySeq
  <2>2. QED
    BY <1>3, <1>4, <1>5, <1>6, <1>7, <1>8, <1>9, <1>10, <2>1, ListingTyped DEF Next, RefreshStep

(* A row that is stored is the one the loaded market is read by; the others   *)
(* stay; and only a refresh that stored all its markets installs them.        *)
LEMMA BackedStep == IInv /\ [Next]_vars => BackedAll'
<1> SUFFICES ASSUME TypeOK, BackedAll, [Next]_vars PROVE BackedAll'
  BY DEF IInv
<1>1. ASSUME UNCHANGED <<stored, markets>>, phase' = "idle", gamma_status' = "error"
      PROVE  BackedAll'
  BY <1>1 DEF BackedAll, Unique, Distinct
<1>2. ASSUME UNCHANGED <<stored, markets, next_markets, gamma_status>>, phase' = phase
      PROVE  BackedAll'
  BY <1>2 DEF BackedAll, Unique, Distinct, Backed
<1>3. ASSUME UNCHANGED <<stored, markets>>, phase' = "fetching" PROVE BackedAll'
  BY <1>3 DEF BackedAll, Unique, Distinct
<1>4. ASSUME NEW a \in Answers, PageAnswered(a) PROVE BackedAll'
  <2>1. UNCHANGED <<stored, markets>> /\ phase = "fetching"
    BY <1>4 DEF PageAnswered
  <2>2. \/ phase' = "storing" /\ next_markets' = NoMarkets
        \/ phase' = phase
    BY <1>4 DEF PageAnswered
  <2>3. CASE phase' = "storing" /\ next_markets' = NoMarkets
    <3>1. Backed(next_markets)'
      BY <2>3 DEF Backed, NoMarkets
    <3>2. QED
      BY <2>1, <2>3, <3>1 DEF BackedAll, Unique, Distinct
  <2>4. QED
    BY <1>3, <2>1, <2>2, <2>3
<1>5. CASE Store
  <2> DEFINE m == Normalised(Head(todo))
  <2>1. /\ m \in Market /\ m.id \in Id /\ Formed(m) /\ m.outcomes[1] # m.outcomes[2]
    BY <1>5, HeadIsMarket DEF Store
  <2>2. /\ Stored(m) \in Row
        /\ \A k \in {1, 2} : Stored(m).tokens[m.outcomes[k]] = m.tokens[k]
    BY <2>1, StoredHolds DEF TypeOK
  <2>3. /\ phase = "storing" /\ phase' = "storing" /\ markets' = markets
        /\ stored' = With(stored, m.id, Stored(m))
        /\ next_markets' = With(next_markets, m.id, m)
        /\ Unique(stored')
    BY <1>5 DEF Store, Scannable
  <2> HIDE DEF m
  <2>4. /\ DOMAIN stored' = DOMAIN stored \cup {m.id} /\ stored'[m.id] = Stored(m)
        /\ \A j \in DOMAIN stored : j # m.id => stored'[j] = stored[j]
    <3>1. IsDict(stored, Row)
      BY DEF TypeOK
    <3>2. /\ DOMAIN With(stored, m.id, Stored(m)) = DOMAIN stored \cup {m.id}
          /\ With(stored, m.id, Stored(m))[m.id] = Stored(m)
          /\ \A j \in DOMAIN stored : j # m.id => With(stored, m.id, Stored(m))[j] = stored[j]
      <4>1. m.id \in Id /\ Stored(m) \in Row
        BY <2>1, <2>2
      <4>2. ASSUME NEW x \in Row
            PROVE  /\ DOMAIN With(stored, m.id, x) = DOMAIN stored \cup {m.id}
                   /\ With(stored, m.id, x)[m.id] = x
                   /\ \A j \in DOMAIN stored : j # m.id => With(stored, m.id, x)[j] = stored[j]
        BY <3>1, <4>1, DictWith
      <4>3. QED
        BY <4>1, <4>2
    <3>3. QED
      BY <2>3, <3>2
  <2>5. /\ DOMAIN next_markets' = DOMAIN next_markets \cup {m.id} /\ next_markets'[m.id] = m
        /\ \A j \in DOMAIN next_markets : j # m.id => next_markets'[j] = next_markets[j]
    <3>1. IsDict(next_markets, Market)
      BY DEF TypeOK
    <3>2. /\ DOMAIN With(next_markets, m.id, m) = DOMAIN next_markets \cup {m.id}
          /\ With(next_markets, m.id, m)[m.id] = m
          /\ \A j \in DOMAIN next_markets :
                 j # m.id => With(next_markets, m.id, m)[j] = next_markets[j]
      BY <2>1, <3>1, DictWith
    <3>3. QED
      BY <2>3, <3>2
  <2>6. Backed(next_markets)'
    <3> SUFFICES ASSUME NEW i \in DOMAIN next_markets'
                 PROVE  /\ i \in DOMAIN stored' /\ Formed(next_markets'[i])
                        /\ \A k \in {1, 2} :
                             stored'[i].tokens[next_markets'[i].outcomes[k]]
                                 = next_markets'[i].tokens[k]
      BY DEF Backed, Formed
    <3>1. CASE i = m.id
      BY <2>1, <2>2, <2>4, <2>5, <3>1
    <3>2. CASE i # m.id
      <4>1. i \in DOMAIN next_markets /\ next_markets'[i] = next_markets[i]
        BY <2>5, <3>2
      <4>2. /\ i \in DOMAIN stored /\ Formed(next_markets[i])
            /\ \A k \in {1, 2} : stored[i].tokens[next_markets[i].outcomes[k]]
                                     = next_markets[i].tokens[k]
        BY <2>3, <4>1 DEF BackedAll, Backed
      <4>3. stored'[i] = stored[i] /\ i \in DOMAIN stored'
        BY <2>4, <3>2, <4>2
      <4>4. QED
        BY <4>1, <4>2, <4>3
    <3>3. QED
      BY <3>1, <3>2
  <2>7. Unique(stored)'
    BY <2>3 DEF Unique
  <2>8. QED
    BY <2>3, <2>6, <2>7 DEF BackedAll, Distinct
<1>6. CASE Install
  <2>1. Backed(next_markets) /\ Unique(stored) /\ IsDict(next_markets, Market)
    BY <1>6 DEF Install, BackedAll, TypeOK
  <2>2. Distinct(next_markets)
    BY <2>1, RowsKeepApart
  <2>3. /\ phase' = "idle" /\ markets' = next_markets /\ stored' = stored
    BY <1>6 DEF Install
  <2>4. Backed(markets)' /\ Unique(stored)' /\ Distinct(markets)'
    BY <2>1, <2>2, <2>3 DEF Backed, Unique, Distinct
  <2>5. QED
    BY <2>3, <2>4 DEF BackedAll
<1>7. CASE FetchFails \/ StoreFails \/ NormaliseFails
  BY <1>1, <1>7 DEF FetchFails, StoreFails, NormaliseFails, Failed
<1>8. CASE Skip \/ UNCHANGED vars
  BY <1>2, <1>8 DEF Skip, vars
<1>9. ASSUME NEW h, NEW ls, Refresh(h, ls) PROVE BackedAll'
  BY <1>3, <1>9 DEF Refresh
<1>10. QED
  BY <1>4, <1>5, <1>6, <1>7, <1>8, <1>9 DEF Next, RefreshStep

THEOREM InductiveInvariant == Spec => []IInv
<1>1. IInv /\ [Next]_vars => IInv'
  BY TypeStep, PagingStep, BackedStep DEF IInv
<1>2. QED
  BY InitIInv, <1>1, PTL DEF Spec

-----------------------------------------------------------------------------
(* Type correctness of the market refresh, for any items and listings.        *)
THEOREM TypeCorrect == Spec => []TypeOK
<1>1. IInv => TypeOK
  BY DEF IInv
<1>2. QED
  BY <1>1, InductiveInvariant, PTL

(* For every page limit, maximum and listing: fetch_markets collects exactly  *)
(* the first max_markets entries.                                             *)
THEOREM PagesAreGapless == Spec => []CollectedIsFirst
<1>1. IInv => CollectedIsFirst
  BY DEF IInv
<1>2. QED
  BY <1>1, InductiveInvariant, PTL

(* Whatever Gamma lists, no token is a leg of two loaded markets, or both     *)
(* legs of one.                                                               *)
THEOREM LoadedLegsAreDistinct == Spec => []LegsAreDistinct
<1>1. IInv => LegsAreDistinct
  BY DEF IInv, BackedAll, Distinct, Legs, LegsAreDistinct
<1>2. QED
  BY <1>1, InductiveInvariant, PTL

(* Whatever Gamma lists, relabels and swaps, the table names for each outcome *)
(* of a loaded market the token the scan reads for it.                        *)
THEOREM TableNamesTokensRead == Spec => []StoredTokenIsRead
<1>1. IInv => StoredTokenIsRead
  <2> SUFFICES ASSUME IInv, phase = "idle", gamma_status = "ok", NEW i \in DOMAIN markets,
                      NEW h \in {1, 2}
               PROVE  /\ Fold(markets[i].outcomes[h]) = "yes"
                            => stored[i].tokens[markets[i].outcomes[h]] = markets[i].yes
                      /\ Fold(markets[i].outcomes[h]) = "no"
                            => stored[i].tokens[markets[i].outcomes[h]] = markets[i].no
    BY DEF StoredTokenIsRead
  <2>1. /\ Formed(markets[i])
        /\ \A k \in {1, 2} : stored[i].tokens[markets[i].outcomes[k]] = markets[i].tokens[k]
    BY DEF IInv, BackedAll, Backed
  <2>2. PICK k \in {1, 2} : /\ Fold(markets[i].outcomes[k]) = "yes"
                            /\ Fold(markets[i].outcomes[3 - k]) = "no"
                            /\ markets[i].yes = markets[i].tokens[k]
                            /\ markets[i].no = markets[i].tokens[3 - k]
    BY <2>1 DEF Formed
  <2>3. h = k \/ h = 3 - k
    OBVIOUS
  <2>4. QED
    BY <2>1, <2>2, <2>3
<1>2. QED
  BY <1>1, InductiveInvariant, PTL

-----------------------------------------------------------------------------
(* The loaded markets and their rows, seen from the scan and the console *)

Table == INSTANCE MarketTable WITH
    Market <- Id, loaded <- DOMAIN markets, rows <- DOMAIN stored

LEMMA TableStep == IInv /\ [Next]_vars => [Table!Next]_(Table!vars)
<1> SUFFICES ASSUME IInv, [Next]_vars PROVE [Table!Next]_(Table!vars)
  OBVIOUS
<1>1. ASSUME UNCHANGED <<markets, stored>> PROVE [Table!Next]_(Table!vars)
  BY <1>1 DEF Table!vars
<1>2. CASE Store
  <2> DEFINE m == Normalised(Head(todo))
  <2>1. m.id \in Id
    BY <1>2, HeadIsMarket DEF IInv, Store
  <2>2. stored' = With(stored, m.id, Stored(m)) /\ markets' = markets
    BY <1>2 DEF Store
  <2> HIDE DEF m
  <2>3. DOMAIN stored' = DOMAIN stored \cup {m.id}
    BY <2>2 DEF With
  <2>4. Table!Record({m.id})
    BY <2>2, <2>3 DEF Table!Record
  <2>5. QED
    BY <2>1, <2>4 DEF Table!Next
<1>3. CASE Install
  <2>1. /\ markets' = next_markets /\ stored' = stored
        /\ DOMAIN next_markets \subseteq Id /\ DOMAIN next_markets \subseteq DOMAIN stored
    BY <1>3 DEF Install, IInv, TypeOK, IsDict, BackedAll, Backed
  <2>2. Table!Exchange(DOMAIN next_markets)
    BY <2>1 DEF Table!Exchange
  <2>3. QED
    BY <2>1, <2>2 DEF Table!Next
<1>4. QED
  BY <1>1, <1>2, <1>3 DEF Next, RefreshStep, Refresh, PageAnswered, FetchFails, Skip, StoreFails,
     NormaliseFails, vars

(* refresh_markets implements MarketTable: however a listing is cut into      *)
(* pages and whatever it repeats or relabels, and wherever the refresh fails, *)
(* the dictionary is exchanged as a whole and only for markets whose rows     *)
(* have been committed.                                                       *)
THEOREM ImplementsTable == Spec => Table!Spec
<1>1. Init => Table!Init
  BY DEF Init, NoMarkets, Table!Init
<1>2. QED
  BY <1>1, TableStep, InductiveInvariant, PTL DEF Spec, Table!Spec

-----------------------------------------------------------------------------
(* The bounds of a refresh *)

(* A market that is stored has left the list of those to be looked at.        *)
Within ==
    /\ phase = "storing" =>
         /\ IsFiniteSet(DOMAIN next_markets)
         /\ Cardinality(DOMAIN next_markets) + Len(todo) <= Maximum
    /\ IsFiniteSet(DOMAIN markets) /\ Cardinality(DOMAIN markets) <= Maximum

NoneLoaded ==
    /\ DOMAIN NoMarkets = {} /\ IsFiniteSet(DOMAIN NoMarkets)
    /\ Cardinality(DOMAIN NoMarkets) = 0

LEMMA NoMarketsIsEmpty == NoneLoaded
BY FS_EmptySet DEF NoneLoaded, NoMarkets

LEMMA TailIsShorter ==
    ASSUME NEW s \in Seq(Item), s # <<>>
    PROVE  Len(s) \in Nat /\ Len(Tail(s)) = Len(s) - 1
BY HeadTailProperties, LenProperties

LEMMA StepWithin == IInv /\ Within /\ [Next]_vars => Within'
<1> SUFFICES ASSUME IInv, Within, [Next]_vars PROVE Within'
  OBVIOUS
<1>1. ASSUME UNCHANGED markets, phase' \in {"idle", "fetching"} PROVE Within'
  BY <1>1 DEF Within
<1>2. ASSUME NEW a \in Answers, PageAnswered(a) PROVE Within'
  <2> DEFINE got == collected \o a.page
  <2>1. UNCHANGED markets /\ phase = "fetching"
    BY <1>2 DEF PageAnswered
  <2>2. got \in Seq(Item)
    <3>1. a.page \in Seq(Item) /\ collected \in Seq(Item)
      BY <2>1, AnswersTyped DEF IInv, TypeOK
    <3>2. QED
      BY <3>1, ConcatProperties
  <2>3. Kept(got) \in Seq(Item) /\ Len(Kept(got)) <= Maximum
    BY <2>2, KeptIsPrefix
  <2>4. Len(Kept(got)) \in Nat
    BY <2>3, LenProperties
  <2>5. CASE LastPage(a) \/ Len(got) >= Maximum
    <3>1. todo' = Kept(got) /\ next_markets' = NoMarkets
      BY <1>2, <2>5 DEF PageAnswered
    <3>2. QED
      BY <2>1, <2>3, <2>4, <3>1, NoMarketsIsEmpty DEF Within, NoneLoaded
  <2>6. CASE ~(LastPage(a) \/ Len(got) >= Maximum)
    BY <1>1, <1>2, <2>1, <2>6 DEF PageAnswered
  <2>7. QED
    BY <2>5, <2>6
<1>3. CASE Skip
  <2>1. /\ phase = "storing" /\ todo \in Seq(Item) /\ todo # <<>> /\ todo' = Tail(todo)
        /\ UNCHANGED <<phase, next_markets, markets>>
    BY <1>3 DEF Skip, IInv, TypeOK
  <2>2. Len(todo) \in Nat /\ Len(todo') = Len(todo) - 1
    BY <2>1, TailIsShorter
  <2>3. Cardinality(DOMAIN next_markets) \in Nat /\ Maximum \in Nat
    BY <2>1, FS_CardinalityType, DiscoveryAssumption DEF Within
  <2>4. QED
    BY <2>1, <2>2, <2>3 DEF Within
<1>4. CASE Store
  <2> DEFINE m == Normalised(Head(todo))
  <2>1. /\ phase = "storing" /\ todo \in Seq(Item) /\ todo # <<>> /\ todo' = Tail(todo)
        /\ UNCHANGED <<phase, markets>>
        /\ DOMAIN next_markets' = DOMAIN next_markets \cup {m.id}
    BY <1>4 DEF Store, Scannable, IInv, TypeOK, With
  <2> HIDE DEF m
  <2>2. Len(todo) \in Nat /\ Len(todo') = Len(todo) - 1
    BY <2>1, TailIsShorter
  <2>3. /\ IsFiniteSet(DOMAIN next_markets) /\ Cardinality(DOMAIN next_markets) \in Nat
        /\ Maximum \in Nat
    BY <2>1, FS_CardinalityType, DiscoveryAssumption DEF Within
  <2>4. /\ IsFiniteSet(DOMAIN next_markets')
        /\ Cardinality(DOMAIN next_markets') \in Nat
        /\ Cardinality(DOMAIN next_markets') <= Cardinality(DOMAIN next_markets) + 1
    <3>1. ASSUME NEW D, IsFiniteSet(D), NEW x
          PROVE  /\ IsFiniteSet(D \cup {x}) /\ Cardinality(D \cup {x}) \in Nat
                 /\ Cardinality(D \cup {x}) <= Cardinality(D) + 1
      <4>1. /\ IsFiniteSet(D \cup {x})
            /\ Cardinality(D \cup {x})
                 = IF x \in D THEN Cardinality(D) ELSE Cardinality(D) + 1
        BY <3>1, FS_AddElement
      <4>2. Cardinality(D) \in Nat
        BY <3>1, FS_CardinalityType
      <4>3. QED
        BY <4>1, <4>2
    <3>2. QED
      BY <2>1, <2>3, <3>1
  <2>5. QED
    BY <2>1, <2>2, <2>3, <2>4 DEF Within
<1>5. CASE Install
  <2>1. /\ phase = "storing" /\ phase' = "idle" /\ markets' = next_markets
        /\ Len(todo) \in Nat
    BY <1>5, LenProperties DEF Install, IInv, TypeOK
  <2>2. /\ Cardinality(DOMAIN next_markets) \in Nat /\ IsFiniteSet(DOMAIN next_markets)
        /\ Cardinality(DOMAIN next_markets) <= Maximum
    BY <2>1, FS_CardinalityType, DiscoveryAssumption DEF Within
  <2>3. QED
    BY <2>1, <2>2 DEF Within
<1>6. CASE FetchFails \/ StoreFails \/ NormaliseFails
  BY <1>1, <1>6 DEF FetchFails, StoreFails, NormaliseFails, Failed
<1>7. ASSUME NEW h, NEW ls, Refresh(h, ls) PROVE Within'
  BY <1>1, <1>7 DEF Refresh
<1>8. CASE UNCHANGED vars
  BY <1>8 DEF vars, Within
<1>9. QED
  BY <1>2, <1>3, <1>4, <1>5, <1>6, <1>7, <1>8 DEF Next, RefreshStep

LoadedWithinMaximum == IsFiniteSet(DOMAIN markets) /\ Cardinality(DOMAIN markets) <= Maximum

(* However long the pages are that Gamma sends, and however many of them, the *)
(* scanner never loads more than max_markets markets; so the batches of a     *)
(* scan are bounded as well.                                                  *)
THEOREM LoadedMarketsBounded == Spec => []LoadedWithinMaximum
<1>1. Init => Within
  BY NoMarketsIsEmpty, DiscoveryAssumption DEF Init, Within, NoneLoaded
<1>2. Within => LoadedWithinMaximum
  BY DEF Within, LoadedWithinMaximum
<1>3. QED
  BY <1>1, <1>2, StepWithin, InductiveInvariant, PTL DEF Spec

(* The most steps a refresh that has come so far may still take. *)
WorkLeft ==
    IF phase = "fetching" THEN 2 * Maximum + 1 - Len(collected)
    ELSE IF phase = "storing" THEN Len(todo) + 1
    ELSE 0

LEMMA WorkIsBounded == IInv /\ Within => WorkLeft \in 0 .. 2 * Maximum + 1
<1> SUFFICES ASSUME IInv, Within PROVE WorkLeft \in 0 .. 2 * Maximum + 1
  OBVIOUS
<1>1. /\ Maximum \in Nat /\ Len(collected) \in Nat /\ Len(collected) <= Maximum
      /\ Len(todo) \in Nat
  BY LenProperties, DiscoveryAssumption DEF IInv, TypeOK
<1>2. phase = "storing" => Len(todo) <= Maximum
  <2>1. phase = "storing" => Cardinality(DOMAIN next_markets) \in Nat
    BY FS_CardinalityType DEF Within
  <2>2. QED
    BY <1>1, <2>1 DEF Within
<1>3. QED
  BY <1>1, <1>2 DEF WorkLeft

LEMMA WorkGoesOn == IInv /\ Within /\ RefreshStep => WorkLeft' < WorkLeft
<1> SUFFICES ASSUME IInv, Within, RefreshStep PROVE WorkLeft' < WorkLeft
  OBVIOUS
<1>1. /\ Maximum \in Nat /\ Len(collected) \in Nat /\ Len(todo) \in Nat
      /\ collected \in Seq(Item) /\ todo \in Seq(Item)
  BY LenProperties, DiscoveryAssumption DEF IInv, TypeOK
<1>2. phase = "fetching" => Len(collected) < Maximum
  BY DEF IInv, Paging
<1>3. ASSUME NEW a \in Answers, PageAnswered(a) PROVE WorkLeft' < WorkLeft
  <2> DEFINE got == collected \o a.page
  <2>1. phase = "fetching" /\ a.page \in Seq(Item)
    BY <1>3, AnswersTyped DEF PageAnswered, IInv
  <2>2. got \in Seq(Item) /\ Len(got) = Len(collected) + Len(a.page) /\ Len(a.page) \in Nat
    BY <1>1, <2>1, ConcatProperties, LenProperties
  <2>3. CASE LastPage(a) \/ Len(got) >= Maximum
    <3>1. phase' = "storing" /\ todo' = Kept(got)
      BY <1>3, <2>3 DEF PageAnswered
    <3>2. Len(Kept(got)) \in Nat /\ Len(Kept(got)) <= Maximum
      BY <2>2, KeptIsPrefix, LenProperties
    <3>3. QED
      BY <1>1, <1>2, <2>1, <3>1, <3>2 DEF WorkLeft
  <2>4. CASE ~(LastPage(a) \/ Len(got) >= Maximum)
    <3>1. phase' = phase /\ collected' = got
      BY <1>3, <2>4 DEF PageAnswered
    <3>2. Len(a.page) # 0
      BY <2>1, <2>4, EmptySeq DEF LastPage
    <3> HIDE DEF got
    <3>3. QED
      BY <1>1, <2>1, <2>2, <3>1, <3>2 DEF WorkLeft
  <2>5. QED
    BY <2>3, <2>4
<1>4. CASE FetchFails \/ StoreFails \/ NormaliseFails \/ Install
  BY <1>1, <1>2, <1>4
     DEF FetchFails, StoreFails, NormaliseFails, Install, Failed, Scannable, WorkLeft
<1>5. CASE Skip \/ Store
  <2>1. todo # <<>> /\ todo' = Tail(todo) /\ phase = "storing" /\ phase' = phase
    BY <1>5 DEF Skip, Store, Scannable
  <2>2. Len(todo') = Len(todo) - 1
    BY <1>1, <2>1, TailIsShorter
  <2>3. QED
    BY <1>1, <2>1, <2>2 DEF WorkLeft
<1>6. QED
  BY <1>3, <1>4, <1>5 DEF RefreshStep

(* Why RefreshEnds holds, for listings of any length: every answer and every  *)
(* market that is looked at brings the refresh nearer to its end, whatever    *)
(* Gamma answers: repeated cursors, empty pages, overlong pages.  It is over  *)
(* after at most twice max_markets such steps, and one.                       *)
THEOREM RefreshesRunOut ==
    Spec => /\ [](WorkLeft \in 0 .. 2 * Maximum + 1)
            /\ [][RefreshStep => WorkLeft' < WorkLeft]_vars
<1>1. Init => Within
  BY NoMarketsIsEmpty, DiscoveryAssumption DEF Init, Within, NoneLoaded
<1>2. QED
  BY <1>1, StepWithin, WorkIsBounded, WorkGoesOn, InductiveInvariant, PTL DEF Spec

=============================================================================
