----------------------------- MODULE DepthProofs -----------------------------
(* Proofs about one assessment, for any price grid, books, target, fee and   *)
(* thresholds.  Induction over prices and levels is by the least             *)
(* counterexample (LeastExists).                                             *)
EXTENDS Depth, SequenceTheorems, WellFoundedInduction, TLAPS

(* Every nonempty set of naturals has a least member. *)
LEMMA LeastExists ==
    ASSUME NEW T \in SUBSET Nat, T # {}
    PROVE  \E x \in T : \A y \in T : x <= y
<1>1. PICK x \in T : \A y \in T : ~(<<y, x>> \in OpToRel(<, Nat))
  BY NatLessThanWellFounded, WFMin, Zenon
<1>2. \A y \in T : ~(y < x)
  BY <1>1, Zenon DEF OpToRel
<1>3. QED
  BY <1>2

LEMMA LeastIs ==
    ASSUME NEW T \in SUBSET Nat, T # {}
    PROVE  Least(T) \in T /\ \A y \in T : Least(T) <= y
BY LeastExists DEF Least

LEMMA LeastOfTwo ==
    ASSUME NEW a \in Nat, NEW b \in Nat
    PROVE  /\ Least({a, b}) \in Nat /\ Least({a, b}) <= a /\ Least({a, b}) <= b
           /\ Least({a, b}) = a \/ Least({a, b}) = b
BY LeastIs, {a, b} \in SUBSET Nat, {a, b} # {}

LEMMA LeastOfThree ==
    ASSUME NEW a \in Nat, NEW b \in Nat, NEW c \in Nat
    PROVE  /\ Least({a, b, c}) \in Nat
           /\ Least({a, b, c}) <= a /\ Least({a, b, c}) <= b /\ Least({a, b, c}) <= c
           /\ Least({a, b, c}) = a \/ Least({a, b, c}) = b \/ Least({a, b, c}) = c
BY LeastIs, {a, b, c} \in SUBSET Nat, {a, b, c} # {}

-----------------------------------------------------------------------------
(* Rounding *)

LEMMA DivBounds ==
    ASSUME NEW a \in Int, NEW b \in Nat \ {0}
    PROVE  a \div b \in Int /\ b * (a \div b) <= a /\ a < b * (a \div b) + b
OBVIOUS

LEMMA HalfUpType ==
    ASSUME NEW a \in Int, NEW b \in Nat \ {0}
    PROVE  HalfUp(a, b) \in Int /\ (a \in Nat => HalfUp(a, b) \in Nat)
BY DEF HalfUp

(* Rounding half up moves a quotient by at most half. *)
LEMMA HalfUpNear ==
    ASSUME NEW a \in Int, NEW b \in Nat \ {0}
    PROVE  2 * b * HalfUp(a, b) <= 2 * a + b /\ 2 * a - b <= 2 * b * HalfUp(a, b)
<1>1. 2 * b \in Nat \ {0} /\ 2 * a + b \in Int
  OBVIOUS
<1>2. 2 * b * HalfUp(a, b) <= 2 * a + b /\ 2 * a + b < 2 * b * HalfUp(a, b) + 2 * b
  BY <1>1, DivBounds DEF HalfUp
<1>3. QED
  BY <1>2, HalfUpType

(* So does rounding half to even. *)
LEMMA HalfEvenNear ==
    ASSUME NEW a \in Int, NEW b \in Nat \ {0}
    PROVE  /\ HalfEven(a, b) \in Int
           /\ 2 * b * HalfEven(a, b) <= 2 * a + b /\ 2 * a - b <= 2 * b * HalfEven(a, b)
<1> DEFINE q == a \div b
           r == a % b
<1>1. q \in Int /\ r \in 0 .. (b - 1) /\ a = b * q + r
  OBVIOUS
<1> HIDE DEF q, r
<1>2. (HalfEven(a, b) = q /\ 2 * r <= b) \/ (HalfEven(a, b) = q + 1 /\ 2 * r >= b)
  BY <1>1 DEF HalfEven, q, r
<1>3. CASE HalfEven(a, b) = q /\ 2 * r <= b
  BY <1>1, <1>3
<1>4. CASE HalfEven(a, b) = q + 1 /\ 2 * r >= b
  BY <1>1, <1>4
<1>5. QED
  BY <1>2, <1>3, <1>4

-----------------------------------------------------------------------------
(* What a book offers below a price. *)

Top == One + 1

IsDepth(D, a) ==
    /\ D \in [0 .. Top -> Nat] /\ D[0] = 0
    /\ \A p \in Price : D[p + 1] = D[p] + a[p]

Below(a) == CHOOSE D : IsDepth(D, a)

IsDepthTo(D, a, n) ==
    /\ D \in [0 .. n -> Nat] /\ D[0] = 0
    /\ \A p \in 0 .. n - 1 : D[p + 1] = D[p] + a[p]

LEMMA DepthToExists ==
    ASSUME NEW n \in Nat, NEW a \in [0 .. n - 1 -> Nat]
    PROVE  \E D : IsDepthTo(D, a, n)
<1> DEFINE T == {k \in 0 .. n : ~ \E D : IsDepthTo(D, a, k)}
<1>1. SUFFICES ASSUME T # {} PROVE FALSE
  <2>1. n \notin T => \E D : IsDepthTo(D, a, n)
    BY DEF T
  <2>2. QED
    BY <2>1
<1>2. PICK k \in T : \A j \in T : k <= j
  <2>1. T \in SUBSET Nat
    OBVIOUS
  <2> HIDE DEF T
  <2>2. QED
    BY <1>1, <2>1, LeastExists
<1>3. k # 0
  <2>1. IsDepthTo([p \in 0 .. 0 |-> 0], a, 0)
    BY DEF IsDepthTo
  <2>2. QED
    BY <2>1, <1>2
<1>4. PICK D : IsDepthTo(D, a, k - 1)
  <2>1. k - 1 \in 0 .. n /\ k - 1 \notin T
    BY <1>2, <1>3
  <2>2. QED
    BY <2>1
<1> DEFINE E == [p \in 0 .. k |-> IF p = k THEN D[k - 1] + a[k - 1] ELSE D[p]]
<1>5. IsDepthTo(E, a, k)
  <2>1. k \in Nat \ {0} /\ k <= n
    BY <1>2, <1>3
  <2>2. /\ D \in [0 .. k - 1 -> Nat] /\ D[0] = 0
        /\ \A p \in 0 .. k - 2 : D[p + 1] = D[p] + a[p]
    BY <1>4, <2>1 DEF IsDepthTo
  <2>3. E \in [0 .. k -> Nat] /\ E[0] = 0
    BY <2>1, <2>2
  <2>4. ASSUME NEW p \in 0 .. k - 1 PROVE E[p + 1] = E[p] + a[p]
    <3>1. CASE p = k - 1
      BY <3>1, <2>1, <2>2
    <3>2. CASE p # k - 1
      <4>1. p \in 0 .. k - 2 /\ p + 1 # k /\ p # k /\ p + 1 \in 0 .. k /\ p \in 0 .. k
        BY <3>2, <2>1
      <4>2. QED
        BY <4>1, <2>2
    <3>3. QED
      BY <3>1, <3>2
  <2>5. QED
    BY <2>3, <2>4 DEF IsDepthTo
<1>6. QED
  BY <1>2, <1>5

LEMMA BelowIsDepth ==
    ASSUME NEW a \in [Price -> Nat]
    PROVE  IsDepth(Below(a), a)
<1>1. Top \in Nat /\ Price = 0 .. Top - 1
  BY DepthAssumption DEF Top, Price
<1>2. PICK D : IsDepthTo(D, a, Top)
  BY <1>1, DepthToExists
<1>3. IsDepth(D, a)
  BY <1>1, <1>2 DEF IsDepth, IsDepthTo
<1>4. QED
  BY <1>3 DEF Below

LEMMA BelowFacts ==
    ASSUME NEW a \in [Price -> Nat]
    PROVE  /\ Top \in Nat \ {0} /\ Price = 0 .. Top - 1
           /\ \A p \in 0 .. Top : Below(a)[p] \in Nat
           /\ Below(a)[0] = 0
           /\ \A p \in 1 .. Top : /\ p - 1 \in Price /\ a[p - 1] \in Nat
                                 /\ Below(a)[p] = Below(a)[p - 1] + a[p - 1]
<1>1. Top \in Nat \ {0} /\ Price = 0 .. Top - 1
  BY DepthAssumption DEF Top, Price
<1>2. /\ Below(a) \in [0 .. Top -> Nat] /\ Below(a)[0] = 0
      /\ \A p \in Price : Below(a)[p + 1] = Below(a)[p] + a[p]
  BY BelowIsDepth DEF IsDepth
<1>3. ASSUME NEW p \in 1 .. Top
      PROVE  p - 1 \in Price /\ a[p - 1] \in Nat /\ Below(a)[p] = Below(a)[p - 1] + a[p - 1]
  <2>1. p - 1 \in Price /\ (p - 1) + 1 = p
    BY <1>1
  <2>2. Below(a)[(p - 1) + 1] = Below(a)[p - 1] + a[p - 1]
    BY <1>2, <2>1
  <2>3. QED
    BY <2>1, <2>2
<1>4. QED
  BY <1>1, <1>2, <1>3

LEMMA NothingBelowNothing ==
    ASSUME NEW a \in [Price -> Nat], NEW q \in Nat
    PROVE  Least({q, Below(a)[0]}) = 0
<1>1. Below(a)[0] = 0
  BY BelowFacts
<1>2. QED
  BY <1>1, LeastOfTwo

(* A book offers no less below a higher price, and ... *)
LEMMA BelowGrows ==
    ASSUME NEW a \in [Price -> Nat], NEW p \in 0 .. Top, NEW q \in 0 .. Top, p <= q
    PROVE  Below(a)[p] <= Below(a)[q]
<1> DEFINE T == {k \in p .. Top : ~(Below(a)[p] <= Below(a)[k])}
<1>1. SUFFICES ASSUME T # {} PROVE FALSE
  BY BelowFacts
<1>2. PICK k \in T : \A j \in T : k <= j
  <2>1. T \in SUBSET Nat
    BY BelowFacts
  <2> HIDE DEF T
  <2>2. QED
    BY <1>1, <2>1, LeastExists
<1>3. k # p /\ k \in 1 .. Top /\ k - 1 \in p .. Top
  BY <1>2, BelowFacts
<1>4. Below(a)[p] <= Below(a)[k - 1]
  BY <1>2, <1>3
<1>5. QED
  BY <1>2, <1>3, <1>4, BelowFacts

(* ... no more, if nothing is offered in between. *)
LEMMA BelowIsFlat ==
    ASSUME NEW a \in [Price -> Nat], NEW p \in 0 .. Top, NEW q \in 0 .. Top, p <= q,
           \A r \in Price : p <= r /\ r < q => a[r] = 0
    PROVE  Below(a)[p] = Below(a)[q]
<1> DEFINE T == {k \in p .. q : ~(Below(a)[p] = Below(a)[k])}
<1>1. SUFFICES ASSUME T # {} PROVE FALSE
  BY BelowFacts
<1>2. PICK k \in T : \A j \in T : k <= j
  <2>1. T \in SUBSET Nat
    BY BelowFacts
  <2> HIDE DEF T
  <2>2. QED
    BY <1>1, <2>1, LeastExists
<1>3. k # p /\ k \in 1 .. Top /\ k - 1 \in p .. q /\ k - 1 < q
  BY <1>2, BelowFacts
<1>4. Below(a)[p] = Below(a)[k - 1]
  BY <1>2, <1>3
<1>5. k - 1 \in Price /\ Below(a)[k] = Below(a)[k - 1] + a[k - 1] /\ Below(a)[k - 1] \in Nat
  BY <1>3, BelowFacts
<1>6. a[k - 1] = 0
  BY <1>3, <1>5
<1>7. QED
  BY <1>2, <1>4, <1>5, <1>6

(* One more entry is on offer at every higher price. *)
LEMMA BelowAdds ==
    ASSUME NEW a \in [Price -> Nat], NEW p \in Price, NEW n \in Nat
    PROVE  \A k \in 0 .. Top : Below([a EXCEPT ![p] = @ + n])[k]
                                = Below(a)[k] + (IF p < k THEN n ELSE 0)
<1> DEFINE b == [a EXCEPT ![p] = @ + n]
           Now(k) == Below(b)[k] = Below(a)[k] + (IF p < k THEN n ELSE 0)
           T == {k \in 0 .. Top : ~Now(k)}
<1>1. b \in [Price -> Nat]
  OBVIOUS
<1> HIDE DEF b
<1>2. ASSUME T # {} PROVE FALSE
  <2>1. PICK k \in T : \A j \in T : k <= j
    <3>1. T \in SUBSET Nat
      BY BelowFacts
    <3> HIDE DEF T
    <3>2. QED
      BY <1>2, <3>1, LeastExists
  <2>2. k # 0 /\ k \in 1 .. Top /\ k - 1 \in 0 .. Top /\ k - 1 \notin T
    <3>1. Below(b)[0] = 0 /\ Below(a)[0] = 0 /\ ~(p < 0)
      BY <1>1, BelowFacts
    <3>2. k # 0
      BY <2>1, <3>1
    <3>3. Top \in Nat
      BY BelowFacts
    <3>4. QED
      BY <2>1, <3>2, <3>3
  <2>3. Now(k - 1)
    BY <2>2
  <2>4. b[k - 1] = a[k - 1] + (IF p = k - 1 THEN n ELSE 0)
    BY <2>2, BelowFacts DEF b
  <2>5. Now(k)
    <3>1. /\ Below(a)[k] = Below(a)[k - 1] + a[k - 1]
          /\ a[k - 1] \in Nat /\ Below(a)[k - 1] \in Nat /\ p \in Int
      BY <2>2, BelowFacts
    <3>2. Below(b)[k] = Below(b)[k - 1] + b[k - 1]
      BY <2>2, <1>1, BelowFacts
    <3>3. QED
      BY <2>2, <2>3, <2>4, <3>1, <3>2
  <2>6. QED
    BY <2>1, <2>5
<1>3. \A k \in 0 .. Top : Now(k)
  BY <1>2
<1>4. QED
  BY <1>3 DEF b

(* The whole book is empty if and only if nothing is offered below the top.  *)
LEMMA EmptyOffersNothing ==
    ASSUME TypeOK, NEW s \in Side
    PROVE  NoAsks(s) <=> Below(asks[s])[Top] = 0
<1>1. asks[s] \in [Price -> Nat]
  BY DEF TypeOK
<1>2. ASSUME NoAsks(s) PROVE Below(asks[s])[Top] = 0
  <2>1. Below(asks[s])[0] = Below(asks[s])[Top]
    BY <1>1, <1>2, BelowIsFlat, BelowFacts DEF NoAsks
  <2>2. QED
    BY <1>1, <2>1, BelowFacts
<1>3. ASSUME NEW p \in Price, asks[s][p] # 0 PROVE Below(asks[s])[Top] # 0
  <2>1. p + 1 \in 1 .. Top /\ (p + 1) - 1 = p
    BY <1>1, BelowFacts
  <2>2. Below(asks[s])[p + 1] = Below(asks[s])[p] + asks[s][p]
    BY <1>1, <2>1, BelowFacts
  <2>3. Below(asks[s])[p + 1] <= Below(asks[s])[Top]
    <3>1. p + 1 \in 0 .. Top /\ Top \in 0 .. Top /\ p + 1 <= Top
      BY <1>1, <2>1, BelowFacts
    <3>2. QED
      BY <1>1, <3>1, BelowGrows
  <2>4. QED
    BY <1>1, <1>3, <2>1, <2>2, <2>3, BelowFacts
<1>4. QED
  BY <1>2, <1>3 DEF NoAsks

-----------------------------------------------------------------------------
(* The inductive invariant *)

(* The walk under way has taken what is on offer below `at`, up to the       *)
(* quantity, and has paid no more than a dollar a share.                     *)
WalkFits ==
    /\ cost <= One * filled
    /\ IF stage \in {"measure", "fill"}
         THEN filled = Least({Quantity, Below(asks[side])[at]})
         ELSE at = 0 /\ filled = 0 /\ cost = 0

(* The first two walks have measured the target against the books. *)
MeasureFits ==
    /\ (stage = "measure" /\ side = "no") \/ stage \in {"fill", "judge", "done"}
         => available["yes"] = Least({target, Below(asks["yes"])[Top]})
    /\ stage \in {"fill", "judge", "done"}
         => /\ available["no"] = Least({target, Below(asks["no"])[Top]})
            /\ executable = Executable(available)

(* The last two walks have filled the executable quantity.                   *)
FillFits ==
    /\ \A s \in Side : spent[s] <= One * fill[s]
    /\ (stage = "fill" /\ side = "no") \/ stage \in {"judge", "done"} => fill["yes"] = executable
    /\ stage \in {"judge", "done"} => fill["no"] = executable

(* The verdict is about the figures that are still there. *)
ResultFits ==
    /\ stage = "done" => result = Calculated
    /\ accepted <=> stage = "done" /\ IsValid(result)

IInv == TypeOK /\ WalkFits /\ MeasureFits /\ FillFits /\ ResultFits

LEMMA Types ==
    ASSUME TypeOK
    PROVE  /\ \A s \in Side : asks[s] \in [Price -> Nat]
           /\ \A s \in Side : available[s] \in Nat /\ fill[s] \in Nat /\ spent[s] \in Nat
           /\ target \in Nat \ {0} /\ executable \in Nat /\ Quantity \in Nat
           /\ filled \in Nat /\ cost \in Nat /\ at \in 0 .. Top /\ side \in Side
           /\ rate \in Nat \/ rate = NoRate
           /\ One \in Nat \ {0}
BY DepthAssumption DEF TypeOK, Quantity, Top

LEMMA InitInv == Init => IInv
<1> SUFFICES ASSUME Init PROVE IInv
  OBVIOUS
<1>1. TypeOK
  <2>1. accepted \in BOOLEAN
    BY Zenon DEF Init
  <2>2. entries \in [Side -> Seq(Entries)] /\ asks \in [Side -> [Price -> Nat]]
    BY DEF Init
  <2>3. result \in [status: {"none", "NO_ASKS", "FEE_UNKNOWN", "PARTIAL", "VALID"},
                    has_net: BOOLEAN, net: Int, net_profit: Int]
    BY DEF Init, NoResult
  <2>4. QED
    BY <2>1, <2>2, <2>3, DepthAssumption DEF Init, TypeOK, Side
<1>2. WalkFits /\ MeasureFits /\ FillFits
  BY DepthAssumption DEF Init, WalkFits, MeasureFits, FillFits
<1>3. ResultFits
  BY DEF Init, ResultFits
<1>4. QED
  BY <1>1, <1>2, <1>3 DEF IInv

(* Taking the next level keeps a walk in step with what its book offers.     *)
LEMMA WalkGoesOn ==
    ASSUME IInv, NEW p \in Price, TakeLevel(p)
    PROVE  /\ filled' \in Nat /\ cost' \in Nat /\ at' \in 0 .. Top
           /\ cost' <= One * filled'
           /\ filled' = Least({Quantity, Below(asks[side])[at']})
<1> DEFINE a == asks[side]
           take == Least({a[p], Quantity - filled})
<1>1. /\ a \in [Price -> Nat] /\ Quantity \in Nat /\ filled \in Nat /\ cost \in Nat
      /\ at \in 0 .. Top /\ One \in Nat \ {0}
  BY Types DEF IInv
<1>2. /\ filled < Quantity /\ p >= at /\ a[p] > 0
      /\ \A r \in Price : r >= at /\ r < p => a[r] = 0
      /\ filled' = filled + take /\ cost' = cost + take * p /\ at' = p + 1
  BY DEF TakeLevel, IsNext
<1>3. cost <= One * filled /\ filled = Least({Quantity, Below(a)[at]})
  BY DEF IInv, WalkFits, TakeLevel
<1> HIDE DEF a
<1>4. p \in Nat /\ p <= One /\ p \in 0 .. Top /\ p + 1 \in 1 .. Top
  BY <1>1 DEF Price, Top
<1>5. Below(a)[p] = Below(a)[at]
  BY <1>1, <1>2, <1>4, BelowIsFlat
<1>6. Below(a)[p + 1] = Below(a)[p] + a[p] /\ Below(a)[p] \in Nat /\ a[p] \in Nat
  <2>1. (p + 1) - 1 = p
    BY <1>4
  <2>2. QED
    BY <1>1, <1>4, <2>1, BelowFacts
<1>7. filled = Below(a)[p]
  BY <1>1, <1>2, <1>3, <1>5, <1>6, LeastOfTwo
<1>8. take \in Nat /\ take <= a[p] /\ take <= Quantity - filled
      /\ (take = a[p] \/ take = Quantity - filled)
  <2>1. Quantity - filled \in Nat
    BY <1>1, <1>2
  <2>2. QED
    BY <1>6, <2>1, LeastOfTwo
<1> HIDE DEF take
<1>9. cost' <= One * filled'
  BY <1>1, <1>2, <1>3, <1>4, <1>8
<1>10. filled' = Least({Quantity, Below(a)[at']})
  BY <1>1, <1>2, <1>6, <1>7, <1>8, LeastOfTwo
<1>11. QED
  BY <1>1, <1>2, <1>4, <1>8, <1>9, <1>10 DEF a

(* A walk that is over has filled the quantity as far as the book goes.      *)
LEMMA WalkEnds ==
    ASSUME IInv, WalkOver
    PROVE  filled = Least({Quantity, Below(asks[side])[Top]})
<1> DEFINE a == asks[side]
<1>1. /\ a \in [Price -> Nat] /\ Quantity \in Nat /\ filled \in Nat /\ at \in 0 .. Top
      /\ Top \in 0 .. Top /\ at <= Top
  BY Types, BelowFacts DEF IInv
<1>2. filled = Least({Quantity, Below(a)[at]})
  BY DEF IInv, WalkFits, WalkOver
<1>3. Below(a)[at] \in Nat /\ Below(a)[Top] \in Nat /\ Below(a)[at] <= Below(a)[Top]
  BY <1>1, BelowFacts, BelowGrows
<1>4. CASE filled >= Quantity
  BY <1>1, <1>2, <1>3, <1>4, LeastOfTwo
<1>5. CASE \A p \in Price : ~IsNext(p)
  <2> DEFINE T == {p \in Price : p >= at /\ a[p] > 0}
  <2>1. T = {}
    <3>1. SUFFICES ASSUME T # {} PROVE FALSE
      OBVIOUS
    <3>2. PICK p \in T : \A r \in T : p <= r
      <4>1. T \in SUBSET Nat
        BY DEF Price
      <4> HIDE DEF T
      <4>2. QED
        BY <3>1, <4>1, LeastExists
    <3>3. ASSUME NEW r \in Price, r >= at, r < p PROVE a[r] = 0
      <4>1. r \notin T
        BY <3>2, <3>3 DEF Price
      <4>2. QED
        BY <1>1, <3>3, <4>1
    <3>4. IsNext(p)
      BY <3>2, <3>3 DEF IsNext
    <3>5. QED
      BY <1>5, <3>2, <3>4
  <2>2. ASSUME NEW r \in Price, at <= r PROVE a[r] = 0
    <3>1. r \notin T /\ r \in Nat
      BY <2>1 DEF Price
    <3>2. QED
      BY <1>1, <2>2, <3>1
  <2>3. Below(a)[at] = Below(a)[Top]
    BY <1>1, <2>2, BelowIsFlat
  <2>4. QED
    BY <1>2, <2>3
<1>6. QED
  BY <1>4, <1>5 DEF WalkOver

-----------------------------------------------------------------------------
(* The figures *)

LEMMA ProductsPositive ==
    ASSUME NEW a \in Nat \ {0}, NEW b \in Nat \ {0}
    PROVE  a * b \in Nat \ {0}
OBVIOUS

LEMMA ProductsNatural ==
    ASSUME NEW a \in Nat, NEW b \in Nat
    PROVE  a * b \in Nat
OBVIOUS

LEMMA TotalType ==
    ASSUME IInv
    PROVE  Total \in Nat /\ Gross \in Int
<1>1. spent["yes"] \in Nat /\ spent["no"] \in Nat /\ executable \in Nat /\ One \in Nat
  BY Types DEF IInv, Side
<1>2. Total \in Nat
  BY <1>1 DEF Total
<1>3. One * executable \in Nat
  BY <1>1, ProductsNatural
<1>4. QED
  BY <1>2, <1>3 DEF Gross

(* A fee is never negative: no level costs more than a dollar. *)
LEMMA FeeType ==
    ASSUME IInv, rate # NoRate, NEW s \in Side, fill[s] > 0
    PROVE  TakerFee(s) \in Nat
<1>1. /\ executable \in Nat /\ rate \in Nat /\ spent[s] \in Nat /\ fill[s] \in Nat \ {0}
      /\ One \in Nat \ {0} /\ RateBase \in Nat \ {0} /\ FeeQuantum \in Nat \ {0}
  BY Types, DepthAssumption DEF IInv
<1>2. One * fill[s] - spent[s] \in Nat
  <2>1. spent[s] <= One * fill[s]
    BY DEF IInv, FillFits
  <2>2. One * fill[s] \in Nat
    BY <1>1, ProductsNatural
  <2>3. QED
    BY <1>1, <2>1, <2>2
<1>3. executable * rate * spent[s] * (One * fill[s] - spent[s]) \in Nat
  BY <1>1, <1>2, ProductsNatural
<1>4. RateBase * One * fill[s] * fill[s] * FeeQuantum \in Nat \ {0}
  <2>1. RateBase * One \in Nat \ {0}
    BY <1>1, ProductsPositive
  <2>2. RateBase * One * fill[s] \in Nat \ {0}
    BY <1>1, <2>1, ProductsPositive
  <2>3. RateBase * One * fill[s] * fill[s] \in Nat \ {0}
    BY <1>1, <2>2, ProductsPositive
  <2>4. QED
    BY <1>1, <2>3, ProductsPositive
<1>5. HalfUp(executable * rate * spent[s] * (One * fill[s] - spent[s]),
             RateBase * One * fill[s] * fill[s] * FeeQuantum) \in Nat
  BY <1>3, <1>4, HalfUpType
<1>6. QED
  BY <1>1, <1>5, ProductsNatural DEF TakerFee

LEMMA BufferType ==
    ASSUME IInv, NEW r \in Nat
    PROVE  Buffer(r) \in Nat
<1>1. Total * r \in Nat
  BY TotalType, ProductsNatural
<1>2. MoneyQuantum \in Nat /\ RateBase * MoneyQuantum \in Nat \ {0}
  BY DepthAssumption, ProductsPositive
<1>3. HalfUp(Total * r, RateBase * MoneyQuantum) \in Nat
  BY <1>1, <1>2, HalfUpType
<1>4. QED
  BY <1>2, <1>3, ProductsNatural DEF Buffer

LEMMA NetType ==
    ASSUME IInv, HasNet
    PROVE  Net \in Int /\ NetProfit(Net) \in Int
<1>1. TakerFee("yes") \in Nat /\ TakerFee("no") \in Nat
  BY FeeType DEF HasNet, Side
<1>2. Buffer(Slippage) \in Nat /\ Buffer(Safety) \in Nat
  BY BufferType, DepthAssumption
<1>3. Net \in Int
  BY <1>1, <1>2, TotalType DEF Net
<1>4. MoneyQuantum \in Nat \ {0}
  BY DepthAssumption
<1>5. HalfEven(Net, MoneyQuantum) \in Int
  BY <1>3, <1>4, HalfEvenNear
<1>6. QED
  BY <1>3, <1>4, <1>5 DEF NetProfit

(* An executable quantity of nothing means an empty book, so that the code's *)
(* NO_LIQUIDITY is never returned.                                           *)
LEMMA NothingExecutable ==
    ASSUME IInv, stage \in {"judge", "done"}, executable = 0
    PROVE  NoAsks("yes") \/ NoAsks("no")
<1>1. /\ available["yes"] = Least({target, Below(asks["yes"])[Top]})
      /\ available["no"] = Least({target, Below(asks["no"])[Top]})
      /\ executable = Least({target, available["yes"], available["no"]})
  BY DEF IInv, MeasureFits, Executable
<1>2. /\ "yes" \in Side /\ "no" \in Side /\ target \in Nat \ {0}
      /\ available["yes"] \in Nat /\ available["no"] \in Nat
      /\ Below(asks["yes"])[Top] \in Nat /\ Below(asks["no"])[Top] \in Nat
  <2>1. \A s \in Side : asks[s] \in [Price -> Nat] /\ available[s] \in Nat
    BY Types DEF IInv
  <2>2. \A s \in Side : Below(asks[s])[Top] \in Nat
    BY <2>1, BelowFacts
  <2>3. QED
    BY <2>1, <2>2, Types DEF IInv, Side
<1>3. available["yes"] = 0 \/ available["no"] = 0
  BY <1>1, <1>2, LeastOfThree
<1>4. Below(asks["yes"])[Top] = 0 \/ Below(asks["no"])[Top] = 0
  BY <1>1, <1>2, <1>3, LeastOfTwo
<1>5. QED
  BY <1>2, <1>4, EmptyOffersNothing DEF IInv

LEMMA CalculatedType ==
    ASSUME IInv, stage = "judge"
    PROVE  Calculated \in [status: {"none", "NO_ASKS", "FEE_UNKNOWN", "PARTIAL", "VALID"},
                           has_net: BOOLEAN, net: Int, net_profit: Int]
<1>1. Status \in {"NO_ASKS", "FEE_UNKNOWN", "PARTIAL", "VALID"}
  BY NothingExecutable DEF Status
<1>2. CASE HasNet
  BY <1>1, <1>2, NetType DEF Calculated
<1>3. CASE ~HasNet
  BY <1>1, <1>3 DEF Calculated
<1>4. QED
  BY <1>2, <1>3

-----------------------------------------------------------------------------
(* Every step keeps the invariant. *)

LEMMA MergeType ==
    ASSUME NEW a \in [Price -> Nat], NEW e \in Entries
    PROVE  Merge(a, e) \in [Price -> Nat]
BY DepthAssumption DEF Merge, Usable, Entry

LEMMA ReadKeeps ==
    ASSUME IInv, NEW e \in Entries, ReadEntry(e)
    PROVE  IInv'
<1>1. TypeOK'
  <2>1. entries' \in [Side -> Seq(Entries)]
    BY DEF ReadEntry, IInv, TypeOK
  <2>2. asks' \in [Side -> [Price -> Nat]]
    BY MergeType DEF ReadEntry, IInv, TypeOK
  <2>3. QED
    BY <2>1, <2>2 DEF ReadEntry, IInv, TypeOK, walk, outcome
<1>2. WalkFits' /\ MeasureFits' /\ FillFits' /\ ResultFits'
  BY DEF ReadEntry, IInv, WalkFits, MeasureFits, FillFits, ResultFits, walk, outcome
<1>3. QED
  BY <1>1, <1>2 DEF IInv

LEMMA BookReadKeeps ==
    ASSUME IInv, BookRead
    PROVE  IInv'
<1>1. TypeOK'
  BY DEF BookRead, IInv, TypeOK, Side, walk, outcome, books
<1>2. WalkFits'
  <2>1. stage = "read" /\ at = 0 /\ filled = 0 /\ cost = 0
    BY DEF BookRead, IInv, WalkFits
  <2>2. UNCHANGED <<asks, at, filled, cost, target>>
    BY DEF BookRead, walk, books
  <2>3. (stage' = "read") \/ (stage' = "measure" /\ side' = "yes")
    BY <2>1 DEF BookRead
  <2>4. CASE stage' = "measure" /\ side' = "yes"
    <3>1. asks["yes"] \in [Price -> Nat] /\ target \in Nat
      BY Types DEF IInv, Side
    <3>2. Least({target, Below(asks["yes"])[0]}) = 0
      BY <3>1, NothingBelowNothing
    <3>3. Quantity' = target
      BY <2>4, <2>2 DEF Quantity
    <3>4. QED
      BY <2>1, <2>2, <2>4, <3>2, <3>3, DepthAssumption DEF WalkFits
  <2>5. CASE stage' = "read"
    BY <2>1, <2>2, <2>5, DepthAssumption DEF WalkFits
  <2>6. QED
    BY <2>3, <2>4, <2>5
<1>3. MeasureFits'
  BY DEF BookRead, IInv, MeasureFits
<1>4. FillFits' /\ ResultFits'
  BY DEF BookRead, IInv, FillFits, ResultFits, outcome
<1>5. QED
  BY <1>1, <1>2, <1>3, <1>4 DEF IInv

LEMMA TakeKeeps ==
    ASSUME IInv, NEW p \in Price, TakeLevel(p)
    PROVE  IInv'
<1>1. /\ filled' \in Nat /\ cost' \in Nat /\ at' \in 0 .. Top
      /\ cost' <= One * filled'
      /\ filled' = Least({Quantity, Below(asks[side])[at']})
  BY WalkGoesOn
<1>2. TypeOK'
  BY <1>1 DEF TakeLevel, IInv, TypeOK, Top, outcome, books
<1>3. Quantity' = Quantity
  BY DEF TakeLevel, Quantity
<1>4. WalkFits'
  BY <1>1, <1>3 DEF TakeLevel, WalkFits, books
<1>5. MeasureFits'
  BY DEF TakeLevel, IInv, MeasureFits, Executable, books
<1>6. FillFits' /\ ResultFits'
  BY DEF TakeLevel, IInv, FillFits, ResultFits, outcome
<1>7. QED
  BY <1>2, <1>4, <1>5, <1>6 DEF IInv

(* What the walk that begins after another has taken: nothing. *)
LEMMA WalkBegins ==
    ASSUME IInv, WalkOver, NEW s \in Side, NEW q \in Nat
    PROVE  at' = 0 /\ filled' = 0 /\ cost' = 0 /\ Least({q, Below(asks[s])[at']}) = 0
<1>1. asks[s] \in [Price -> Nat]
  BY Types DEF IInv
<1>2. Least({q, Below(asks[s])[0]}) = 0
  BY <1>1, NothingBelowNothing
<1>3. QED
  BY <1>2 DEF WalkOver

LEMMA MeasuredKeeps ==
    ASSUME IInv, Measured
    PROVE  IInv'
<1>1. /\ WalkOver /\ stage = "measure" /\ side \in Side /\ Quantity = target
      /\ filled = Least({target, Below(asks[side])[Top]})
  BY WalkEnds, Types DEF Measured, IInv, Quantity
<1>2. UNCHANGED <<asks, target, fill, spent, entries, rate, result, accepted>>
  BY DEF Measured, books, outcome
<1>3. available' \in [Side -> Nat] /\ available' = [available EXCEPT ![side] = filled]
  BY DEF Measured, IInv, TypeOK
<1>4. available'["yes"] \in Nat /\ available'["no"] \in Nat
  BY <1>3 DEF Side
<1>5. \/ side = "yes" /\ side' = "no" /\ stage' = "measure" /\ executable' = executable
      \/ /\ side = "no" /\ side' = "yes" /\ stage' = "fill"
         /\ executable' = Least({target, available'["yes"], available'["no"]})
  BY <1>1, <1>2 DEF Measured, Executable, Side
<1>6. executable' \in Nat
  <2>1. target \in Nat /\ executable \in Nat
    BY Types DEF IInv
  <2>2. QED
    BY <1>4, <1>5, <2>1, LeastOfThree
<1>7. TypeOK'
  <2>1. at' = 0 /\ filled' = 0 /\ cost' = 0
    BY <1>1 DEF WalkOver
  <2>2. stage' \in {"read", "measure", "fill", "judge", "done"} /\ side' \in Side
    BY <1>5 DEF Side
  <2>3. QED
    BY <1>2, <1>3, <1>6, <2>1, <2>2, DepthAssumption DEF IInv, TypeOK
<1>8. WalkFits'
  <2>1. Quantity' \in Nat
    BY <1>6, <1>2, Types DEF IInv, Quantity
  <2>2. side' \in Side
    BY <1>5 DEF Side
  <2>3. at' = 0 /\ filled' = 0 /\ cost' = 0 /\ Least({Quantity', Below(asks[side'])[at']}) = 0
    BY <1>1, <2>1, <2>2, WalkBegins
  <2>4. QED
    BY <1>2, <2>3, DepthAssumption DEF WalkFits
<1>9. MeasureFits'
  <2>1. CASE side = "yes"
    <3>1. stage' = "measure" /\ available'["yes"] = filled
      BY <1>3, <1>5, <2>1 DEF IInv, TypeOK, Side
    <3>2. QED
      BY <1>1, <1>2, <2>1, <3>1 DEF MeasureFits
  <2>2. CASE side = "no"
    <3>1. available'["no"] = filled /\ available'["yes"] = available["yes"]
      BY <1>3, <2>2 DEF IInv, TypeOK, Side
    <3>2. available["yes"] = Least({target, Below(asks["yes"])[Top]})
      BY <1>1, <2>2 DEF IInv, MeasureFits
    <3>3. stage' = "fill" /\ executable' = Executable(available)'
      BY <1>5, <2>2, <1>2 DEF Executable
    <3>4. QED
      BY <1>1, <1>2, <2>2, <3>1, <3>2, <3>3 DEF MeasureFits
  <2>3. QED
    BY <1>5, <2>1, <2>2
<1>10. FillFits'
  <2>1. ~(stage' = "fill" /\ side' = "no") /\ stage' \notin {"judge", "done"}
    BY <1>5
  <2>2. QED
    BY <1>2, <2>1 DEF IInv, FillFits
<1>11. ResultFits'
  BY <1>1, <1>2, <1>5 DEF IInv, ResultFits
<1>12. QED
  BY <1>7, <1>8, <1>9, <1>10, <1>11 DEF IInv

(* The second walk reaches the executable quantity, which is at most what    *)
(* the first one could fill.                                                 *)
LEMMA WalkFillsAll ==
    ASSUME IInv, stage = "fill", WalkOver
    PROVE  filled = executable
<1>1. filled = Least({executable, Below(asks[side])[Top]})
  BY WalkEnds DEF Quantity
<1>2. /\ target \in Nat /\ available["yes"] \in Nat /\ available["no"] \in Nat
      /\ executable \in Nat /\ side \in Side
  BY Types DEF IInv, Side
<1>3. Below(asks[side])[Top] \in Nat
  <2>1. asks[side] \in [Price -> Nat]
    BY Types DEF IInv
  <2>2. QED
    BY <2>1, BelowFacts
<1>4. executable <= available[side]
  <2>1. executable = Least({target, available["yes"], available["no"]})
    BY DEF IInv, MeasureFits, Executable
  <2>2. QED
    BY <1>2, <2>1, LeastOfThree DEF Side
<1>5. available[side] = Least({target, Below(asks[side])[Top]})
  BY <1>2 DEF IInv, MeasureFits, Side
<1>6. available[side] <= Below(asks[side])[Top]
  BY <1>2, <1>3, <1>5, LeastOfTwo
<1>7. available[side] \in Nat
  BY <1>2 DEF Side
<1>8. QED
  BY <1>1, <1>2, <1>3, <1>4, <1>6, <1>7, LeastOfTwo

LEMMA FilledKeeps ==
    ASSUME IInv, Filled
    PROVE  IInv'
<1>1. WalkOver /\ stage = "fill" /\ side \in Side /\ filled = executable
  BY WalkFillsAll, Types DEF Filled, IInv
<1>2. UNCHANGED <<asks, target, available, executable, entries, rate, result, accepted>>
  BY DEF Filled, books, outcome
<1>3. /\ fill' \in [Side -> Nat] /\ fill' = [fill EXCEPT ![side] = filled]
      /\ spent' \in [Side -> Nat] /\ spent' = [spent EXCEPT ![side] = cost]
  BY DEF Filled, IInv, TypeOK
<1>4. \/ side = "yes" /\ side' = "no" /\ stage' = "fill"
      \/ side = "no" /\ side' = "yes" /\ stage' = "judge"
  BY <1>1 DEF Filled, Side
<1>5. TypeOK'
  <2>1. at' = 0 /\ filled' = 0 /\ cost' = 0
    BY <1>1 DEF WalkOver
  <2>2. stage' \in {"read", "measure", "fill", "judge", "done"} /\ side' \in Side
    BY <1>4 DEF Side
  <2>3. QED
    BY <1>2, <1>3, <2>1, <2>2, DepthAssumption DEF IInv, TypeOK
<1>6. WalkFits'
  <2>1. Quantity' \in Nat /\ side' \in Side
    BY <1>2, <1>4, Types DEF IInv, Quantity, Side
  <2>2. at' = 0 /\ filled' = 0 /\ cost' = 0 /\ Least({Quantity', Below(asks[side'])[at']}) = 0
    BY <1>1, <2>1, WalkBegins
  <2>3. QED
    BY <1>2, <2>2, DepthAssumption DEF WalkFits
<1>7. MeasureFits'
  <2>1. stage' \in {"fill", "judge"} /\ Executable(available)' = Executable(available)
    BY <1>2, <1>4 DEF Executable
  <2>2. QED
    BY <1>1, <1>2, <2>1 DEF IInv, MeasureFits
<1>8. FillFits'
  <2>1. \A s \in Side : spent'[s] <= One * fill'[s]
    <3>1. cost <= One * filled
      BY DEF IInv, WalkFits
    <3>2. QED
      BY <1>3, <3>1 DEF IInv, FillFits, TypeOK
  <2>2. CASE side = "yes"
    <3>1. fill'["yes"] = filled /\ stage' = "fill"
      BY <1>3, <1>4, <2>2 DEF IInv, TypeOK, Side
    <3>2. QED
      BY <1>1, <1>2, <2>1, <3>1 DEF FillFits
  <2>3. CASE side = "no"
    <3>1. fill'["no"] = filled /\ fill'["yes"] = fill["yes"]
      BY <1>3, <2>3 DEF IInv, TypeOK, Side
    <3>2. fill["yes"] = executable
      BY <1>1, <2>3 DEF IInv, FillFits
    <3>3. QED
      BY <1>1, <1>2, <2>1, <3>1, <3>2 DEF FillFits
  <2>4. QED
    BY <1>4, <2>2, <2>3
<1>9. ResultFits'
  BY <1>1, <1>2, <1>4 DEF IInv, ResultFits
<1>10. QED
  BY <1>5, <1>6, <1>7, <1>8, <1>9 DEF IInv

LEMMA JudgeKeeps ==
    ASSUME IInv, Judge
    PROVE  IInv'
<1>1. stage = "judge" /\ stage' = "done"
      /\ UNCHANGED <<side, asks, entries, target, rate, at, filled, cost, available,
                     executable, fill, spent>>
  BY DEF Judge, books, walk
<1>2. Calculated' = Calculated /\ Executable(available)' = Executable(available)
  BY <1>1 DEF Calculated, HasNet, Status, NoAsks, Net, Gross, Total, TakerFee, Buffer, NetProfit,
              Executable
<1>3. result' = Calculated /\ accepted' = IsValid(Calculated)
  BY Zenon DEF Judge
<1>4. TypeOK'
  <2>1. accepted' \in BOOLEAN
    BY <1>3, Zenon DEF IsValid
  <2>2. QED
    BY <1>1, <1>3, <2>1, CalculatedType DEF IInv, TypeOK
<1>5. WalkFits'
  BY <1>1 DEF IInv, WalkFits
<1>6. MeasureFits'
  BY <1>1, <1>2 DEF IInv, MeasureFits
<1>7. FillFits'
  BY <1>1 DEF IInv, FillFits
<1>8. ResultFits'
  <2>1. IsValid(result)' <=> IsValid(Calculated)
    BY <1>1, <1>3 DEF IsValid, RoiEnough, Total
  <2>2. QED
    BY <1>1, <1>2, <1>3, <2>1, Zenon DEF ResultFits
<1>9. QED
  BY <1>4, <1>5, <1>6, <1>7, <1>8 DEF IInv

LEMMA StutterKeeps ==
    ASSUME IInv, UNCHANGED vars
    PROVE  IInv'
<1>1. UNCHANGED <<stage, side, asks, entries, target, rate, at, filled, cost, available,
                  executable, fill, spent, result, accepted>>
  BY DEF vars, books, walk, outcome
<1>2. TypeOK'
  BY <1>1 DEF IInv, TypeOK
<1>3. WalkFits' /\ MeasureFits' /\ FillFits'
  BY <1>1 DEF IInv, WalkFits, MeasureFits, FillFits, Quantity, Executable
<1>4. ResultFits'
  <2>1. Calculated' = Calculated
    BY <1>1 DEF Calculated, HasNet, Status, NoAsks, Net, Gross, Total, TakerFee, Buffer, NetProfit
  <2>2. IsValid(result)' <=> IsValid(result)
    BY <1>1 DEF IsValid, RoiEnough, Total
  <2>3. QED
    BY <1>1, <2>1, <2>2 DEF IInv, ResultFits
<1>5. QED
  BY <1>2, <1>3, <1>4 DEF IInv

LEMMA StepInv == IInv /\ [Next]_vars => IInv'
<1> SUFFICES ASSUME IInv, [Next]_vars PROVE IInv'
  OBVIOUS
<1>1. ASSUME NEW e \in Entries, ReadEntry(e) PROVE IInv'
  BY <1>1, ReadKeeps
<1>2. CASE BookRead
  BY <1>2, BookReadKeeps
<1>3. ASSUME NEW p \in Price, TakeLevel(p) PROVE IInv'
  BY <1>3, TakeKeeps
<1>4. CASE Measured
  BY <1>4, MeasuredKeeps
<1>5. CASE Filled
  BY <1>5, FilledKeeps
<1>6. CASE Judge
  BY <1>6, JudgeKeeps
<1>7. CASE UNCHANGED vars
  BY <1>7, StutterKeeps
<1>8. QED
  BY <1>1, <1>2, <1>3, <1>4, <1>5, <1>6, <1>7 DEF Next

LEMMA Invariance == Spec => []IInv
BY InitInv, StepInv, PTL DEF Spec

(* Type correctness of an assessment, for any books: with it, that the       *)
(* status NO_LIQUIDITY of depth_calculator.py never occurs.                  *)
THEOREM TypeCorrect == Spec => []TypeOK
<1>1. IInv => TypeOK
  BY DEF IInv
<1>2. QED
  BY <1>1, Invariance, PTL

(* Both legs of a calculated pair are filled with the executable quantity,   *)
(* never with less: the second walk of depth_calculator.py gets as far as    *)
(* the first one, for any two books.                                         *)
LegsAreFilled == stage \in {"judge", "done"} => \A s \in Side : fill[s] = executable

THEOREM BothLegsFilled == Spec => []LegsAreFilled
<1>1. IInv => LegsAreFilled
  BY DEF IInv, FillFits, LegsAreFilled, Side
<1>2. QED
  BY <1>1, Invariance, PTL

(* An accepted opportunity settles for at least its cost and its fees, for   *)
(* any thresholds that are not negative (scanner.py).                        *)
THEOREM AcceptedOpportunitiesNeverLose == Spec => []AcceptedNeverLoses
<1>1. ASSUME IInv, accepted
      PROVE  rate # NoRate /\ Total + TakerFee("yes") + TakerFee("no") <= One * executable
  <2>1. /\ stage = "done" /\ result = Calculated /\ result.has_net
        /\ Total > 0 /\ result.net * RateBase >= MinRoi * Total
    BY <1>1 DEF IInv, ResultFits, IsValid, RoiEnough
  <2>2. HasNet /\ result.net = Net
    BY <2>1 DEF Calculated
  <2>3. /\ TakerFee("yes") \in Nat /\ TakerFee("no") \in Nat
        /\ Buffer(Slippage) \in Nat /\ Buffer(Safety) \in Nat
        /\ Total \in Nat /\ Gross \in Int /\ Net \in Int
    BY <1>1, <2>2, FeeType, BufferType, TotalType, NetType, DepthAssumption DEF HasNet, Side
  <2>4. MinRoi * Total \in Nat /\ RateBase \in Nat \ {0}
    BY <2>3, DepthAssumption, ProductsNatural
  <2>5. Net * RateBase >= 0
    BY <2>1, <2>2, <2>3, <2>4
  <2>6. Net >= 0
    BY <2>3, <2>4, <2>5
  <2>7. One * executable \in Nat
    BY <1>1, Types, ProductsNatural DEF IInv
  <2>8. QED
    BY <2>2, <2>3, <2>6, <2>7 DEF Net, Gross, HasNet
<1>2. IInv => AcceptedNeverLoses
  BY <1>1 DEF AcceptedNeverLoses
<1>3. QED
  BY <1>2, Invariance, PTL

-----------------------------------------------------------------------------
(* The calculation is what Scanner takes it for *)

Rules == INSTANCE Assessment

(* What the rules tell apart of a pair of books, its fee and its net profit.  *)
PairDepth ==
    IF NoAsks("yes") \/ NoAsks("no") THEN "no_asks"
    ELSE IF executable < target THEN "partial" ELSE "full"

FeeKnown == IF rate = NoRate THEN "FEE_UNKNOWN" ELSE "KNOWN"

Passed ==
    IF NetProfit(Net) < MinProfit THEN "low"
    ELSE IF executable < MinQuantity \/ ~RoiEnough([net |-> Net]) THEN "refused" ELSE "good"

(* The status, whether there is a net profit and whether it passes the       *)
(* minimum, which is all that the console lists by, and the verdict are      *)
(* those of Assess.                                                          *)
AssessedAs(r) ==
    /\ r \in Rules!Result /\ result.status = r.status
    /\ result.has_net <=> r.net # "none"
    /\ result.has_net /\ result.net_profit >= MinProfit <=> r.net \in {"refused", "good"}
    /\ accepted <=> Rules!Accepted(r)

AssessedByTheRules ==
    stage = "done" => AssessedAs(Rules!Assess(PairDepth, FeeKnown, Passed))

LEMMA DoneAsAssessed ==
    ASSUME IInv, stage = "done"
    PROVE  AssessedAs(Rules!Assess(PairDepth, FeeKnown, Passed))
<1> DEFINE r == Rules!Assess(PairDepth, FeeKnown, Passed)
<1>1. /\ result = Calculated /\ (accepted <=> IsValid(result))
      /\ fill["yes"] = executable /\ fill["no"] = executable
      /\ executable \in Nat /\ target \in Nat \ {0}
  BY Types DEF IInv, ResultFits, FillFits
<1>2. executable = 0 <=> NoAsks("yes") \/ NoAsks("no")
  <2>1. \A s \in Side : asks[s] \in [Price -> Nat] /\ available[s] \in Nat
    BY Types DEF IInv
  <2>2. \A s \in Side : Below(asks[s])[Top] \in Nat
    BY <2>1, BelowFacts
  <2>3. \A s \in Side : NoAsks(s) => available[s] = 0
    BY <1>1, <2>1, <2>2, EmptyOffersNothing, LeastOfTwo DEF IInv, MeasureFits, Side
  <2>4. executable = Least({target, available["yes"], available["no"]})
    BY DEF IInv, MeasureFits, Executable
  <2>5. NoAsks("yes") \/ NoAsks("no") => executable = 0
    BY <1>1, <2>1, <2>3, <2>4, LeastOfThree DEF Side
  <2>6. QED
    BY <2>5, NothingExecutable
<1>3. HasNet <=> FeeKnown = "KNOWN" /\ PairDepth # "no_asks"
  BY <1>1, <1>2 DEF HasNet, FeeKnown, PairDepth
<1>4. result.status = r.status
  BY <1>1, <1>2 DEF Calculated, Status, PairDepth, FeeKnown, Rules!Assess
<1>5. FeeKnown \in {"KNOWN", "FEE_UNKNOWN"} /\ Passed \in {"low", "refused", "good"}
  BY DEF FeeKnown, Passed
<1>6. /\ r.fee = FeeKnown
      /\ r.net = IF HasNet THEN Passed ELSE "none"
  BY <1>3, <1>5 DEF Rules!Assess
<1>7. r \in Rules!Result
  BY <1>5 DEF Rules!Assess, Rules!Result, Rules!Status, Rules!FeeStatus, Rules!Net
<1> HIDE DEF r
<1>8. result.has_net <=> r.net # "none"
  BY <1>1, <1>5, <1>6 DEF Calculated
<1>9. ASSUME HasNet PROVE AssessedAs(r)
  <2>1. result.net = Net /\ result.net_profit = NetProfit(Net) /\ result.has_net
    BY <1>1, <1>9 DEF Calculated
  <2>2. Net \in Int /\ NetProfit(Net) \in Int
    BY <1>1, <1>9, NetType DEF HasNet
  <2>3. RoiEnough([net |-> Net]) <=> RoiEnough(result)
    BY <2>1 DEF RoiEnough
  <2>4. executable \in Nat /\ MinQuantity \in Nat /\ MinProfit \in Nat
    BY <1>1, DepthAssumption
  <2>5. result.net_profit >= MinProfit <=> r.net \in {"refused", "good"}
    BY <1>6, <1>9, <2>1, <2>2, <2>4 DEF Passed
  <2>6. IsValid(result) <=> result.status = "VALID" /\ r.net = "good"
    BY <1>6, <1>9, <2>1, <2>2, <2>3, <2>4 DEF Passed, IsValid
  <2>7. accepted <=> Rules!Accepted(r)
    BY <1>1, <1>4, <1>5, <1>6, <1>9, <2>6 DEF Rules!Accepted
  <2>8. QED
    BY <1>4, <1>7, <1>8, <2>1, <2>5, <2>7 DEF AssessedAs
<1>10. ASSUME ~HasNet PROVE AssessedAs(r)
  <2>1. ~result.has_net /\ r.net = "none"
    BY <1>1, <1>6, <1>10 DEF Calculated
  <2>2. ~accepted /\ ~Rules!Accepted(r)
    BY <1>1, <2>1 DEF IsValid, Rules!Accepted
  <2>3. QED
    BY <1>4, <1>7, <1>8, <2>1, <2>2 DEF AssessedAs
<1>11. QED
  BY <1>9, <1>10 DEF r

(* calculate_depth and is_valid_opportunity, walk by walk and with all their *)
(* rounding, do to two books of any length what Scanner assumes that an      *)
(* assessment does: the statuses in the same order of precedence, a net      *)
(* result exactly for a pair with asks and a known fee, the same verdict.    *)
THEOREM ImplementsAssess == Spec => []AssessedByTheRules
<1>1. IInv => AssessedByTheRules
  BY DoneAsAssessed DEF AssessedByTheRules
<1>2. QED
  BY <1>1, Invariance, PTL

-----------------------------------------------------------------------------
(* How far rounding moves the net profit *)

LEMMA Cancel ==
    ASSUME NEW e \in Nat \ {0}, NEW x \in Int, NEW y \in Int, e * x <= e * y
    PROVE  x <= y
OBVIOUS

LEMMA Grow ==
    ASSUME NEW e \in Nat, NEW x \in Int, NEW y \in Int, x <= y
    PROVE  e * x <= e * y
OBVIOUS

LEMMA FeeWithin ==
    ASSUME NEW e \in Nat \ {0}, NEW S \in Nat \ {0}, NEW F \in Nat \ {0}, NEW X \in Int,
           NEW h \in Int, h = HalfUp(e * X, e * (S * F))
    PROVE  /\ 2 * (S * (F * h)) <= 2 * X + S * F
           /\ 2 * X - S * F <= 2 * (S * (F * h))
<1>1. S * F \in Nat \ {0} /\ e * (S * F) \in Nat \ {0} /\ e * X \in Int /\ F * h \in Int
  BY ProductsPositive
<1>2. /\ 2 * (e * (S * F)) * h <= 2 * (e * X) + e * (S * F)
      /\ 2 * (e * X) - e * (S * F) <= 2 * (e * (S * F)) * h
  BY <1>1, HalfUpNear
<1>3. /\ 2 * (e * (S * F)) * h = e * (2 * (S * (F * h)))
      /\ 2 * (e * X) + e * (S * F) = e * (2 * X + S * F)
      /\ 2 * (e * X) - e * (S * F) = e * (2 * X - S * F)
  BY <1>1
<1>4. 2 * (S * (F * h)) \in Int /\ 2 * X + S * F \in Int /\ 2 * X - S * F \in Int
  BY <1>1
<1>5. QED
  BY <1>2, <1>3, <1>4, Cancel

LEMMA BufferWithin ==
    ASSUME NEW c \in Nat, NEW R \in Nat \ {0}, NEW M \in Nat \ {0}, NEW X \in Int,
           NEW h \in Int, h = HalfUp(X, R * M)
    PROVE  /\ 2 * ((R * c) * (M * h)) <= 2 * (c * X) + (R * c) * M
           /\ 2 * (c * X) - (R * c) * M <= 2 * ((R * c) * (M * h))
<1>1. R * M \in Nat \ {0} /\ M * h \in Int /\ c * X \in Int /\ R * c \in Nat
  BY ProductsPositive, ProductsNatural
<1>2. 2 * (R * M) * h <= 2 * X + R * M /\ 2 * X - R * M <= 2 * (R * M) * h
  BY <1>1, HalfUpNear
<1>3. /\ c * (2 * (R * M) * h) = 2 * ((R * c) * (M * h))
      /\ c * (2 * X + R * M) = 2 * (c * X) + (R * c) * M
      /\ c * (2 * X - R * M) = 2 * (c * X) - (R * c) * M
  BY <1>1
<1>4. /\ c * (2 * (R * M) * h) <= c * (2 * X + R * M)
      /\ c * (2 * X - R * M) <= c * (2 * (R * M) * h)
  BY <1>1, <1>2, Grow
<1>5. QED
  BY <1>3, <1>4

LEMMA ProfitWithin ==
    ASSUME NEW S \in Nat, NEW M \in Nat \ {0}, NEW n \in Int
    PROVE  /\ 2 * (S * (M * HalfEven(n, M))) <= 2 * (S * n) + S * M
           /\ 2 * (S * n) - S * M <= 2 * (S * (M * HalfEven(n, M)))
<1> DEFINE h == HalfEven(n, M)
<1>1. h \in Int /\ 2 * M * h <= 2 * n + M /\ 2 * n - M <= 2 * M * h
  BY HalfEvenNear
<1> HIDE DEF h
<1>2. S * (2 * M * h) <= S * (2 * n + M) /\ S * (2 * n - M) <= S * (2 * M * h)
  BY <1>1, Grow
<1>3. /\ S * (2 * M * h) = 2 * (S * (M * h))
      /\ S * (2 * n + M) = 2 * (S * n) + S * M
      /\ S * (2 * n - M) = 2 * (S * n) - S * M
  BY <1>1
<1>4. 2 * (S * (M * h)) <= 2 * (S * n) + S * M /\ 2 * (S * n) - S * M <= 2 * (S * (M * h))
  BY <1>2, <1>3
<1>5. QED
  BY <1>4 DEF h

LEMMA ScaleType ==
    ASSUME IInv, executable # 0
    PROVE  /\ Scale \in Nat \ {0} /\ One * executable \in Nat
           /\ Scale = RateBase * (One * executable)
<1>1. One \in Nat \ {0} /\ executable \in Nat \ {0} /\ RateBase \in Nat \ {0}
  BY Types, DepthAssumption DEF IInv
<1>2. One * executable \in Nat \ {0} /\ RateBase * One \in Nat \ {0}
  BY <1>1, ProductsPositive
<1>3. RateBase * One * executable \in Nat \ {0}
  BY <1>1, <1>2, ProductsPositive
<1>4. RateBase * One * executable = RateBase * (One * executable)
  BY <1>1
<1>5. QED
  BY <1>2, <1>3, <1>4 DEF Scale

(* The fee of a leg is its exact fee but for half a quantum. *)
LEMMA FeeOfLeg ==
    ASSUME IInv, stage = "done", HasNet, NEW s \in Side
    PROVE  /\ ExactFee(s) \in Int
           /\ 2 * (Scale * TakerFee(s)) <= 2 * ExactFee(s) + Scale * FeeQuantum
           /\ 2 * ExactFee(s) - Scale * FeeQuantum <= 2 * (Scale * TakerFee(s))
<1> DEFINE e == executable
           A == e * rate * spent[s] * (One * e - spent[s])
           B == RateBase * One * e * e * FeeQuantum
           h == HalfUp(A, B)
<1>1. fill[s] = e /\ e \in Nat \ {0}
  BY Types DEF IInv, FillFits, HasNet, Side
<1>2. /\ rate \in Nat /\ spent[s] \in Nat /\ One \in Nat \ {0}
      /\ RateBase \in Nat \ {0} /\ FeeQuantum \in Nat \ {0}
  BY Types, DepthAssumption DEF IInv, HasNet
<1>3. One * e - spent[s] \in Int /\ rate * spent[s] \in Nat /\ ExactFee(s) \in Int
  BY <1>1, <1>2, ProductsNatural DEF ExactFee
<1>4. Scale \in Nat \ {0}
  BY <1>1, ScaleType
<1>5. TakerFee(s) = FeeQuantum * h
  BY <1>1 DEF TakerFee
<1>6. A = e * ExactFee(s) /\ B = e * (Scale * FeeQuantum)
  BY <1>1, <1>2, <1>3 DEF ExactFee, Scale
<1>7. h \in Int
  <2>1. e * ExactFee(s) \in Int /\ e * (Scale * FeeQuantum) \in Nat \ {0}
    BY <1>1, <1>2, <1>3, <1>4, ProductsPositive
  <2>2. QED
    BY <2>1, <1>6, HalfUpType
<1>8. h = HalfUp(e * ExactFee(s), e * (Scale * FeeQuantum))
  BY <1>6
<1> HIDE DEF e, A, B, h
<1>9. QED
  BY <1>1, <1>2, <1>3, <1>4, <1>5, <1>7, <1>8, FeeWithin

LEMMA BufferOfRate ==
    ASSUME IInv, executable # 0, NEW r \in Nat
    PROVE  /\ One * executable * (Total * r) \in Int
           /\ 2 * (Scale * Buffer(r)) <= 2 * (One * executable * (Total * r)) + Scale * MoneyQuantum
           /\ 2 * (One * executable * (Total * r)) - Scale * MoneyQuantum <= 2 * (Scale * Buffer(r))
<1> DEFINE c == One * executable
           h == HalfUp(Total * r, RateBase * MoneyQuantum)
<1>1. /\ c \in Nat /\ Total * r \in Nat /\ RateBase \in Nat \ {0} /\ MoneyQuantum \in Nat \ {0}
      /\ Scale = RateBase * c
  BY ScaleType, TotalType, ProductsNatural, DepthAssumption
<1>2. h \in Int
  BY <1>1, ProductsPositive, HalfUpType
<1>3. Buffer(r) = MoneyQuantum * h
  BY DEF Buffer
<1>4. h = HalfUp(Total * r, RateBase * MoneyQuantum)
  OBVIOUS
<1> HIDE DEF c, h
<1>5. /\ 2 * ((RateBase * c) * (MoneyQuantum * h)) <= 2 * (c * (Total * r)) + (RateBase * c) * MoneyQuantum
      /\ 2 * (c * (Total * r)) - (RateBase * c) * MoneyQuantum
           <= 2 * ((RateBase * c) * (MoneyQuantum * h))
  BY <1>1, <1>2, <1>4, BufferWithin
<1>6. c * (Total * r) \in Int
  BY <1>1, ProductsNatural
<1>7. QED
  BY <1>1, <1>3, <1>5, <1>6 DEF c

(* The sums of the rounding errors. *)
LEMMA Errors ==
    ASSUME NEW P \in Int, NEW N \in Int, NEW G \in Int, NEW F \in Int, NEW M \in Int,
           NEW y \in Int, NEW n \in Int, NEW b1 \in Int, NEW b2 \in Int,
           NEW X \in Int, NEW Y \in Int, NEW X1 \in Int, NEW X2 \in Int,
           N = G - y - n - b1 - b2,
           2 * P <= 2 * N + M, 2 * N - M <= 2 * P,
           2 * y <= 2 * X + F, 2 * X - F <= 2 * y,
           2 * n <= 2 * Y + F, 2 * Y - F <= 2 * n,
           2 * b1 <= 2 * X1 + M, 2 * X1 - M <= 2 * b1,
           2 * b2 <= 2 * X2 + M, 2 * X2 - M <= 2 * b2
    PROVE  /\ 2 * (P - (G - X - Y - X1 - X2)) <= 2 * F + 3 * M
           /\ 2 * ((G - X - Y - X1 - X2) - P) <= 2 * F + 3 * M
OBVIOUS

(* For any figures, the net profit shown differs from the formula of         *)
(* docs/CALCULATION.md by no more than its five roundings (fees.py,          *)
(* depth_calculator.py).                                                     *)
THEOREM NetProfitIsDocumented == Spec => []NetIsDocumented
<1>1. ASSUME IInv, stage = "done", result.has_net
      PROVE  /\ 2 * (Scale * result.net_profit - ExactNet)
                  <= Scale * (2 * FeeQuantum + 3 * MoneyQuantum)
             /\ 2 * (ExactNet - Scale * result.net_profit)
                  <= Scale * (2 * FeeQuantum + 3 * MoneyQuantum)
  <2>1. HasNet /\ result.net_profit = NetProfit(Net)
    BY <1>1 DEF IInv, ResultFits, Calculated
  <2>2. executable # 0
    BY <1>1, <2>1 DEF IInv, FillFits, HasNet
  <2> DEFINE S == Scale
             y == TakerFee("yes")
             n == TakerFee("no")
             b1 == Buffer(Slippage)
             b2 == Buffer(Safety)
             X1 == One * executable * (Total * Slippage)
             X2 == One * executable * (Total * Safety)
             P == MoneyQuantum * HalfEven(Net, MoneyQuantum)
  <2>3. /\ S \in Nat \ {0} /\ Slippage \in Nat /\ Safety \in Nat
        /\ MoneyQuantum \in Nat \ {0} /\ FeeQuantum \in Nat \ {0}
    BY <1>1, <2>2, ScaleType, DepthAssumption
  <2>4. /\ y \in Nat /\ n \in Nat /\ b1 \in Nat /\ b2 \in Nat
        /\ Total \in Nat /\ Gross \in Int /\ Net \in Int /\ P \in Int
    BY <1>1, <2>1, <2>3, FeeType, BufferType, TotalType, NetType DEF HasNet, Side, NetProfit
  <2>5. Net = Gross - (y + n) - b1 - b2
    BY DEF Net
  <2>6. /\ ExactFee("yes") \in Int /\ ExactFee("no") \in Int
        /\ 2 * (S * y) <= 2 * ExactFee("yes") + S * FeeQuantum
        /\ 2 * ExactFee("yes") - S * FeeQuantum <= 2 * (S * y)
        /\ 2 * (S * n) <= 2 * ExactFee("no") + S * FeeQuantum
        /\ 2 * ExactFee("no") - S * FeeQuantum <= 2 * (S * n)
    BY <1>1, <2>1, FeeOfLeg DEF Side
  <2>7. /\ X1 \in Int /\ X2 \in Int
        /\ 2 * (S * b1) <= 2 * X1 + S * MoneyQuantum
        /\ 2 * X1 - S * MoneyQuantum <= 2 * (S * b1)
        /\ 2 * (S * b2) <= 2 * X2 + S * MoneyQuantum
        /\ 2 * X2 - S * MoneyQuantum <= 2 * (S * b2)
    BY <1>1, <2>2, <2>3, BufferOfRate
  <2>8. 2 * (S * P) <= 2 * (S * Net) + S * MoneyQuantum
        /\ 2 * (S * Net) - S * MoneyQuantum <= 2 * (S * P)
    BY <2>3, <2>4, ProfitWithin
  <2>9. ExactNet = S * Gross - ExactFee("yes") - ExactFee("no") - X1 - X2
    <3>1. One * executable \in Nat
      BY <1>1, <2>2, ScaleType
    <3>2. One * executable * Total * (Slippage + Safety) = X1 + X2
      BY <2>3, <2>4, <3>1
    <3>3. S * Gross \in Int
      BY <2>3, <2>4
    <3>4. QED
      BY <3>2, <3>3, <2>6, <2>7 DEF ExactNet
  <2>10. result.net_profit = P
    BY <2>1 DEF NetProfit
  <2> HIDE DEF S, y, n, b1, b2, X1, X2, P
  <2>11. /\ S * Net = S * Gross - S * y - S * n - S * b1 - S * b2
         /\ S * Net \in Int /\ S * Gross \in Int /\ S * P \in Int
         /\ S * y \in Int /\ S * n \in Int /\ S * b1 \in Int /\ S * b2 \in Int
         /\ S * FeeQuantum \in Int /\ S * MoneyQuantum \in Int
    BY <2>3, <2>4, <2>5
  <2>12. /\ 2 * (S * P - ExactNet) <= 2 * (S * FeeQuantum) + 3 * (S * MoneyQuantum)
         /\ 2 * (ExactNet - S * P) <= 2 * (S * FeeQuantum) + 3 * (S * MoneyQuantum)
    <3> DEFINE p == S * P
               g == S * Gross
               m == S * Net
               u == S * y
               v == S * n
               w == S * b1
               z == S * b2
               f == S * FeeQuantum
               q == S * MoneyQuantum
               X == ExactFee("yes")
               Y == ExactFee("no")
    <3>1. /\ p \in Int /\ g \in Int /\ m \in Int /\ u \in Int /\ v \in Int /\ w \in Int
          /\ z \in Int /\ f \in Int /\ q \in Int
          /\ m = g - u - v - w - z /\ ExactNet = g - X - Y - X1 - X2
      BY <2>9, <2>11
    <3>2. /\ X \in Int /\ Y \in Int /\ X1 \in Int /\ X2 \in Int
          /\ 2 * u <= 2 * X + f /\ 2 * X - f <= 2 * u
          /\ 2 * v <= 2 * Y + f /\ 2 * Y - f <= 2 * v
          /\ 2 * w <= 2 * X1 + q /\ 2 * X1 - q <= 2 * w
          /\ 2 * z <= 2 * X2 + q /\ 2 * X2 - q <= 2 * z
      BY <2>6, <2>7
    <3>3. 2 * p <= 2 * m + q /\ 2 * m - q <= 2 * p
      BY <2>8
    <3> HIDE DEF p, g, m, u, v, w, z, f, q, X, Y
    <3>4. 2 * (p - ExactNet) <= 2 * f + 3 * q /\ 2 * (ExactNet - p) <= 2 * f + 3 * q
      BY <3>1, <3>2, <3>3, Errors
    <3>5. QED
      BY <3>4 DEF p, f, q
  <2>13. 2 * (S * FeeQuantum) + 3 * (S * MoneyQuantum) = S * (2 * FeeQuantum + 3 * MoneyQuantum)
    BY <2>3
  <2>14. QED
    BY <2>10, <2>12, <2>13 DEF S
<1>2. IInv => NetIsDocumented
  BY <1>1 DEF NetIsDocumented
<1>3. QED
  BY <1>2, Invariance, PTL

-----------------------------------------------------------------------------
(* What a normalised book offers is what its raw levels offer. *)

IsSum(S, f) ==
    /\ S \in [0 .. Len(f) -> Nat] /\ S[0] = 0
    /\ \A n \in 1 .. Len(f) : S[n] = S[n - 1] + f[n]

LEMMA SumOfIs ==
    ASSUME NEW f \in Seq(Nat)
    PROVE  \E S : IsSum(S, f) /\ SumOf(f) = S[Len(f)]
<1> DEFINE k == Len(f)
           a == [i \in 0 .. k - 1 |-> f[i + 1]]
           Step(S) == [n \in 0 .. Len(f) |-> IF n = 0 THEN 0 ELSE S[n - 1] + f[n]]
           sum == CHOOSE S : S = Step(S)
<1>1. k \in Nat /\ a \in [0 .. k - 1 -> Nat]
  OBVIOUS
<1>2. \E D : D = Step(D)
  <2>1. PICK D : IsDepthTo(D, a, k)
    BY <1>1, DepthToExists
  <2>2. D \in [0 .. k -> Nat] /\ D[0] = 0 /\ \A p \in 0 .. k - 1 : D[p + 1] = D[p] + a[p]
    BY <2>1 DEF IsDepthTo
  <2>3. ASSUME NEW n \in 0 .. k, n # 0 PROVE D[n] = D[n - 1] + f[n]
    <3>1. n - 1 \in 0 .. k - 1 /\ (n - 1) + 1 = n
      BY <2>3, <1>1
    <3>2. a[n - 1] = f[(n - 1) + 1]
      BY <3>1
    <3>3. D[(n - 1) + 1] = D[n - 1] + a[n - 1]
      BY <3>1, <2>2
    <3>4. QED
      BY <3>1, <3>2, <3>3
  <2>4. D = Step(D)
    BY <2>2, <2>3
  <2>5. QED
    BY <2>4
<1>3. sum = Step(sum)
  BY <1>2
<1>4. SumOf(f) = sum[Len(f)]
  BY DEF SumOf
<1> HIDE DEF sum
<1>5. sum[0] = 0 /\ \A n \in 1 .. k : sum[n] = sum[n - 1] + f[n]
  BY <1>1, <1>3
<1>6. \A n \in 0 .. k : sum[n] \in Nat
  <2> DEFINE T == {n \in 0 .. k : sum[n] \notin Nat}
  <2>1. SUFFICES ASSUME T # {} PROVE FALSE
    OBVIOUS
  <2>2. PICK n \in T : \A j \in T : n <= j
    <3>1. T \in SUBSET Nat
      BY <1>1
    <3> HIDE DEF T
    <3>2. QED
      BY <2>1, <3>1, LeastExists
  <2>3. n \in 1 .. k /\ n - 1 \in 0 .. k /\ n - 1 \notin T
    BY <2>2, <1>5, <1>1
  <2>4. QED
    BY <2>2, <2>3, <1>5
<1>7. sum \in [0 .. k -> Nat]
  <2>1. sum = [n \in 0 .. k |-> sum[n]]
    BY <1>3
  <2>2. QED
    BY <1>6, <2>1
<1>8. IsSum(sum, f)
  BY <1>5, <1>7 DEF IsSum
<1>9. QED
  BY <1>4, <1>8

LEMMA SumOfAppend ==
    ASSUME NEW f \in Seq(Nat), NEW x \in Nat
    PROVE  SumOf(Append(f, x)) = SumOf(f) + x /\ SumOf(f) \in Nat
<1> DEFINE g == Append(f, x)
           k == Len(f)
<1>1. /\ g \in Seq(Nat) /\ k \in Nat /\ Len(g) = k + 1 /\ g[k + 1] = x
      /\ \A n \in 1 .. k : g[n] = f[n]
  OBVIOUS
<1>2. PICK S : IsSum(S, f) /\ SumOf(f) = S[k]
  BY SumOfIs
<1>3. PICK R : IsSum(R, g) /\ SumOf(g) = R[k + 1]
  BY <1>1, SumOfIs
<1>4. /\ S \in [0 .. k -> Nat] /\ S[0] = 0 /\ R[0] = 0
      /\ \A n \in 1 .. k : S[n] = S[n - 1] + f[n]
      /\ \A n \in 1 .. k + 1 : R[n] = R[n - 1] + g[n]
  BY <1>1, <1>2, <1>3 DEF IsSum
<1> HIDE DEF g
<1>5. R[k] = S[k]
  <2> DEFINE T == {n \in 0 .. k : R[n] # S[n]}
  <2>1. ASSUME T # {} PROVE FALSE
    <3>1. PICK n \in T : \A j \in T : n <= j
      <4>1. T \in SUBSET Nat
        BY <1>1
      <4> HIDE DEF T
      <4>2. QED
        BY <2>1, <4>1, LeastExists
    <3>2. n \in 1 .. k /\ n - 1 \in 0 .. k /\ n - 1 \notin T
      BY <3>1, <1>4, <1>1
    <3>3. R[n] = R[n - 1] + g[n] /\ S[n] = S[n - 1] + f[n] /\ g[n] = f[n]
      BY <3>2, <1>1, <1>4
    <3>4. QED
      BY <3>1, <3>2, <3>3
  <2>2. QED
    BY <2>1, <1>1
<1>6. R[k + 1] = R[k] + x
  <2>1. k + 1 \in 1 .. k + 1 /\ (k + 1) - 1 = k
    BY <1>1
  <2>2. QED
    BY <2>1, <1>1, <1>4
<1>7. S[k] \in Nat
  BY <1>1, <1>4
<1>8. QED
  BY <1>2, <1>3, <1>5, <1>6, <1>7 DEF g

LEMMA SumOfNothing == SumOf(<<>>) = 0
<1>1. <<>> \in Seq(Nat) /\ Len(<<>>) = 0
  OBVIOUS
<1>2. PICK S : IsSum(S, <<>>) /\ SumOf(<<>>) = S[0]
  BY <1>1, SumOfIs
<1>3. QED
  BY <1>2 DEF IsSum

LEMMA AppendIs ==
    ASSUME NEW f \in Seq(Nat), NEW x \in Nat
    PROVE  Append(f, x) = [i \in 1 .. Len(f) + 1 |-> IF i = Len(f) + 1 THEN x ELSE f[i]]
<1> DEFINE g == Append(f, x)
<1>1. g \in Seq(Nat) /\ Len(g) = Len(f) + 1
  OBVIOUS
<1>2. g = [i \in 1 .. Len(g) |-> g[i]]
  <2>1. g \in [1 .. Len(g) -> Nat]
    BY <1>1, LenProperties
  <2>2. QED
    BY <2>1
<1>3. \A i \in 1 .. Len(f) + 1 : g[i] = IF i = Len(f) + 1 THEN x ELSE f[i]
  OBVIOUS
<1> HIDE DEF g
<1>4. g = [i \in 1 .. Len(f) + 1 |-> IF i = Len(f) + 1 THEN x ELSE f[i]]
  BY <1>1, <1>2, <1>3
<1>5. QED
  BY <1>4 DEF g

(* What each raw level offers below the price m. *)
OfferedBelow(es, m) ==
    [i \in DOMAIN es |-> IF Usable(es[i]) /\ es[i].price < m THEN es[i].size ELSE 0]

LEMMA OfferedAppend ==
    ASSUME NEW es \in Seq(Entries), NEW e \in Entries, NEW m \in Nat
    PROVE  /\ OfferedBelow(es, m) \in Seq(Nat)
           /\ OfferedBelow(Append(es, e), m)
                = Append(OfferedBelow(es, m), IF Usable(e) /\ e.price < m THEN e.size ELSE 0)
<1> DEFINE offer(d) == IF Usable(d) /\ d.price < m THEN d.size ELSE 0
<1>1. \A d \in Entries : offer(d) \in Nat
  BY DepthAssumption DEF Entry
<1> HIDE DEF offer
<1>2. OfferedBelow(es, m) = [i \in 1 .. Len(es) |-> offer(es[i])]
  BY DEF OfferedBelow, offer
<1>3. OfferedBelow(es, m) \in Seq(Nat) /\ Len(OfferedBelow(es, m)) = Len(es)
  BY <1>1, <1>2
<1>4. OfferedBelow(Append(es, e), m) = [i \in 1 .. Len(es) + 1 |-> offer(Append(es, e)[i])]
  BY DEF OfferedBelow, offer
<1>5. Append(OfferedBelow(es, m), offer(e))
        = [i \in 1 .. Len(es) + 1 |-> IF i = Len(es) + 1 THEN offer(e) ELSE OfferedBelow(es, m)[i]]
  <2>1. offer(e) \in Nat
    BY <1>1
  <2>2. QED
    BY <1>3, <2>1, AppendIs
<1>6. ASSUME NEW i \in 1 .. Len(es) + 1
      PROVE  offer(Append(es, e)[i]) = IF i = Len(es) + 1 THEN offer(e) ELSE OfferedBelow(es, m)[i]
  <2>1. CASE i = Len(es) + 1
    BY <2>1
  <2>2. CASE i # Len(es) + 1
    <3>1. i \in 1 .. Len(es)
      BY <2>2
    <3>2. Append(es, e)[i] = es[i]
      BY <3>1
    <3>3. QED
      BY <2>2, <3>1, <3>2, <1>2
  <2>3. QED
    BY <2>1, <2>2
<1>7. OfferedBelow(Append(es, e), m) = Append(OfferedBelow(es, m), offer(e))
  BY <1>4, <1>5, <1>6
<1>8. QED
  BY <1>3, <1>7 DEF offer

(* A book offers below every price what its raw levels offer there.          *)
SameOffer(a, es) == \A m \in 0 .. Top : Below(a)[m] = SumOf(OfferedBelow(es, m))

BooksFit == \A s \in Side : SameOffer(asks[s], entries[s])

LEMMA MergeAdds ==
    ASSUME NEW a \in [Price -> Nat], NEW e \in Entries, NEW m \in 0 .. Top
    PROVE  Below(Merge(a, e))[m]
             = Below(a)[m] + (IF Usable(e) /\ e.price < m THEN e.size ELSE 0)
<1>1. e.size \in Nat
  BY DepthAssumption DEF Entry
<1>2. CASE Usable(e)
  <2>1. e.price \in Price /\ Merge(a, e) = [a EXCEPT ![e.price] = @ + e.size]
    BY <1>2 DEF Usable, Merge
  <2>2. Below([a EXCEPT ![e.price] = @ + e.size])[m]
          = Below(a)[m] + (IF e.price < m THEN e.size ELSE 0)
    <3>1. ASSUME NEW p \in Price, NEW n \in Nat
          PROVE  Below([a EXCEPT ![p] = @ + n])[m] = Below(a)[m] + (IF p < m THEN n ELSE 0)
      BY BelowAdds
    <3>2. QED
      BY <1>1, <2>1, <3>1
  <2>3. QED
    BY <1>2, <2>1, <2>2
<1>3. CASE ~Usable(e)
  <2>1. Merge(a, e) = a /\ Below(a)[m] \in Nat
    BY <1>3, BelowFacts DEF Merge
  <2>2. QED
    BY <1>3, <2>1
<1>4. QED
  BY <1>2, <1>3

LEMMA InitBooks == Init => BooksFit
<1> SUFFICES ASSUME Init, NEW s \in Side, NEW m \in 0 .. Top
             PROVE  Below(asks[s])[m] = SumOf(OfferedBelow(entries[s], m))
  BY DEF BooksFit, SameOffer
<1>1. asks[s] = [p \in Price |-> 0] /\ entries[s] = <<>>
  BY DEF Init
<1>2. asks[s] \in [Price -> Nat] /\ \A p \in Price : asks[s][p] = 0
  BY <1>1
<1>3. Below(asks[s])[0] = Below(asks[s])[m]
  <2>1. 0 \in 0 .. Top /\ 0 <= m
    BY <1>2, BelowFacts
  <2>2. QED
    BY <1>2, <2>1, BelowIsFlat
<1>4. OfferedBelow(<<>>, m) = <<>>
  BY DEF OfferedBelow
<1>5. QED
  BY <1>1, <1>2, <1>3, <1>4, BelowFacts, SumOfNothing

LEMMA StepBooks == IInv /\ BooksFit /\ [Next]_vars => BooksFit'
<1> SUFFICES ASSUME IInv, BooksFit, [Next]_vars PROVE BooksFit'
  OBVIOUS
<1>1. ASSUME NEW e \in Entries, ReadEntry(e) PROVE BooksFit'
  <2>1. /\ side \in Side /\ asks' = [asks EXCEPT ![side] = Merge(@, e)]
        /\ entries' = [entries EXCEPT ![side] = Append(@, e)]
        /\ asks \in [Side -> [Price -> Nat]] /\ entries \in [Side -> Seq(Entries)]
    BY <1>1 DEF ReadEntry, IInv, TypeOK
  <2> SUFFICES ASSUME NEW s \in Side, NEW m \in 0 .. Top
               PROVE  Below(asks'[s])[m] = SumOf(OfferedBelow(entries'[s], m))
    BY DEF BooksFit, SameOffer
  <2>2. Below(asks[s])[m] = SumOf(OfferedBelow(entries[s], m))
    BY DEF BooksFit, SameOffer
  <2>3. CASE s = side
    <3> DEFINE n == IF Usable(e) /\ e.price < m THEN e.size ELSE 0
               a == asks[s]
               es == entries[s]
    <3>1. n \in Nat
      BY DepthAssumption DEF Entry
    <3>2. a \in [Price -> Nat] /\ es \in Seq(Entries) /\ m \in Nat
      BY <2>1
    <3>3. asks'[s] = Merge(a, e) /\ entries'[s] = Append(es, e)
      BY <2>1, <2>3
    <3> HIDE DEF a, es
    <3>4. Below(Merge(a, e))[m] = Below(a)[m] + n
      BY <3>2, MergeAdds
    <3>5. /\ OfferedBelow(es, m) \in Seq(Nat)
          /\ OfferedBelow(Append(es, e), m) = Append(OfferedBelow(es, m), n)
      BY <3>2, OfferedAppend
    <3> HIDE DEF n
    <3>6. SumOf(Append(OfferedBelow(es, m), n)) = SumOf(OfferedBelow(es, m)) + n
      BY <3>1, <3>5, SumOfAppend
    <3>7. Below(a)[m] = SumOf(OfferedBelow(es, m))
      BY <2>2 DEF a, es
    <3>8. QED
      BY <3>3, <3>4, <3>5, <3>6, <3>7
  <2>4. CASE s # side
    BY <2>1, <2>2, <2>4
  <2>5. QED
    BY <2>3, <2>4
<1>2. ASSUME UNCHANGED books PROVE BooksFit'
  BY <1>2 DEF BooksFit, SameOffer, books
<1>3. CASE BookRead
  BY <1>2, <1>3 DEF BookRead
<1>4. ASSUME NEW p \in Price, TakeLevel(p) PROVE BooksFit'
  BY <1>2, <1>4 DEF TakeLevel
<1>5. CASE Measured \/ Filled \/ Judge
  BY <1>2, <1>5 DEF Measured, Filled, Judge
<1>6. CASE UNCHANGED vars
  BY <1>2, <1>6 DEF vars
<1>7. QED
  BY <1>1, <1>3, <1>4, <1>5, <1>6 DEF Next

LEMMA BooksAlwaysFit == Spec => []BooksFit
<1>1. IInv /\ BooksFit /\ [Next]_vars => BooksFit'
  BY StepBooks
<1>2. QED
  BY <1>1, InitBooks, Invariance, PTL DEF Spec

(* Below the top is everything. *)
LEMMA OfferedInAll ==
    ASSUME NEW es \in Seq(Entries)
    PROVE  OfferedBelow(es, Top) = Offered(es)
<1>1. ASSUME NEW i \in DOMAIN es, Usable(es[i]) PROVE es[i].price < Top
  BY <1>1, DepthAssumption DEF Usable, Price, Top
<1>2. QED
  BY <1>1 DEF OfferedBelow, Offered

(* For any books, target and fee, the executable quantity is the largest     *)
(* that both raw books can fill, and the status says what                    *)
(* docs/CALCULATION.md makes it say (depth_calculator.py, orderbooks.py).    *)
THEOREM StatusAsDocumented == Spec => []StatusIsDocumented
<1>1. ASSUME IInv, BooksFit PROVE StatusIsDocumented
  <2> SUFFICES ASSUME stage = "done" PROVE StatusIsDocumented
    BY DEF StatusIsDocumented
  <2> DEFINE yes == SumOf(Offered(entries["yes"]))
             no == SumOf(Offered(entries["no"]))
  <2>1. Below(asks["yes"])[Top] = yes /\ Below(asks["no"])[Top] = no
    <3>1. Top \in 0 .. Top /\ \A s \in Side : entries[s] \in Seq(Entries)
      BY <1>1, DepthAssumption DEF Top, IInv, TypeOK
    <3>2. \A s \in Side : Below(asks[s])[Top] = SumOf(OfferedBelow(entries[s], Top))
      BY <1>1, <3>1 DEF BooksFit, SameOffer
    <3>3. \A s \in Side : Below(asks[s])[Top] = SumOf(Offered(entries[s]))
      BY <3>1, <3>2, OfferedInAll
    <3>4. QED
      BY <3>3 DEF Side
  <2>2. yes \in Nat /\ no \in Nat /\ target \in Nat \ {0}
    <3>1. asks["yes"] \in [Price -> Nat] /\ asks["no"] \in [Price -> Nat]
      BY <1>1, Types DEF IInv, Side
    <3>2. Below(asks["yes"])[Top] \in Nat /\ Below(asks["no"])[Top] \in Nat
      <4>1. ASSUME NEW a \in [Price -> Nat] PROVE Below(a)[Top] \in Nat
        <5>1. Top \in 0 .. Top /\ \A q \in 0 .. Top : Below(a)[q] \in Nat
          BY BelowFacts
        <5>2. QED
          BY <5>1
      <4>2. QED
        BY <3>1, <4>1
    <3>3. QED
      BY <1>1, <2>1, <3>2, Types DEF IInv
  <2>3. /\ NoAsks("yes") <=> yes = 0
        /\ NoAsks("no") <=> no = 0
    BY <1>1, <2>1, EmptyOffersNothing DEF IInv, Side
  <2>4. /\ available["yes"] = Least({target, yes}) /\ available["no"] = Least({target, no})
        /\ executable = Least({target, available["yes"], available["no"]})
    BY <1>1, <2>1 DEF IInv, MeasureFits, Executable
  <2>5. /\ fill["yes"] = executable /\ fill["no"] = executable
        /\ result = Calculated
    BY <1>1 DEF IInv, FillFits, ResultFits
  <2> HIDE DEF yes, no
  <2>6. /\ available["yes"] \in Nat /\ available["no"] \in Nat
        /\ available["yes"] <= target /\ available["yes"] <= yes
        /\ available["no"] <= target /\ available["no"] <= no
        /\ available["yes"] = target \/ available["yes"] = yes
        /\ available["no"] = target \/ available["no"] = no
    BY <2>2, <2>4, LeastOfTwo
  <2>7. /\ executable \in Nat /\ executable <= target /\ executable <= yes /\ executable <= no
        /\ executable = target \/ executable = yes \/ executable = no
    BY <2>2, <2>4, <2>6, LeastOfThree
  <2>8. executable = Least({target, yes, no})
    BY <2>2, <2>7, LeastOfThree
  <2>9. /\ result.status = Status /\ (result.has_net <=> HasNet)
    BY <2>5 DEF Calculated
  <2>10. /\ result.status = "VALID" <=> rate # NoRate /\ executable = target
         /\ result.status = "PARTIAL" <=> rate # NoRate /\ executable \in 1 .. target - 1
         /\ result.status = "NO_ASKS" <=> executable = 0
    BY <2>2, <2>3, <2>7, <2>9 DEF Status
  <2>11. result.has_net <=> result.status \in {"VALID", "PARTIAL"}
    BY <2>2, <2>5, <2>7, <2>9, <2>10 DEF HasNet
  <2>12. QED
    BY <2>8, <2>10, <2>11 DEF StatusIsDocumented, yes, no, Side
<1>2. IInv /\ BooksFit => StatusIsDocumented
  BY <1>1
<1>3. QED
  BY <1>2, BooksAlwaysFit, Invariance, PTL

-----------------------------------------------------------------------------
(* Sums of as many terms *)

(* A weighted sum is bounded from above, or from below, as its terms are.    *)
LEMMA SumsCompare ==
    ASSUME NEW n \in Nat, NEW m \in Nat,
           NEW x \in [1 .. n -> Nat], NEW y \in [1 .. n -> Nat], NEW z \in [1 .. n -> Nat]
    PROVE  /\ SumOf(x) \in Nat /\ SumOf(y) \in Nat /\ SumOf(z) \in Nat
           /\ (\A i \in 1 .. n : m * z[i] <= x[i] + y[i]) => m * SumOf(z) <= SumOf(x) + SumOf(y)
           /\ (\A i \in 1 .. n : x[i] + y[i] <= m * z[i]) => SumOf(x) + SumOf(y) <= m * SumOf(z)
<1>1. x \in Seq(Nat) /\ y \in Seq(Nat) /\ z \in Seq(Nat)
  OBVIOUS
<1>2. Len(x) = n /\ Len(y) = n /\ Len(z) = n
  OBVIOUS
<1>3. PICK X : IsSum(X, x) /\ SumOf(x) = X[n]
  BY <1>1, <1>2, SumOfIs
<1>4. PICK Y : IsSum(Y, y) /\ SumOf(y) = Y[n]
  BY <1>1, <1>2, SumOfIs
<1>5. PICK Z : IsSum(Z, z) /\ SumOf(z) = Z[n]
  BY <1>1, <1>2, SumOfIs
<1>6. /\ X \in [0 .. n -> Nat] /\ X[0] = 0 /\ \A i \in 1 .. n : X[i] = X[i - 1] + x[i]
      /\ Y \in [0 .. n -> Nat] /\ Y[0] = 0 /\ \A i \in 1 .. n : Y[i] = Y[i - 1] + y[i]
      /\ Z \in [0 .. n -> Nat] /\ Z[0] = 0 /\ \A i \in 1 .. n : Z[i] = Z[i - 1] + z[i]
  BY <1>2, <1>3, <1>4, <1>5 DEF IsSum
<1> DEFINE W == [i \in 0 .. n |-> m * Z[i]]
           w == [i \in 1 .. n |-> m * z[i]]
<1>7. /\ W \in [0 .. n -> Nat] /\ w \in [1 .. n -> Nat] /\ W[0] = 0 /\ W[n] = m * Z[n]
      /\ \A i \in 1 .. n : W[i] = W[i - 1] + w[i] /\ w[i] = m * z[i]
  <2>1. \A i \in 0 .. n : m * Z[i] \in Nat
    BY <1>6, ProductsNatural
  <2>2. \A i \in 1 .. n : m * z[i] \in Nat
    BY ProductsNatural
  <2>3. ASSUME NEW i \in 1 .. n PROVE W[i] = W[i - 1] + w[i]
    <3>1. i - 1 \in 0 .. n /\ Z[i - 1] \in Nat /\ z[i] \in Nat /\ Z[i] = Z[i - 1] + z[i]
      BY <1>6
    <3>2. m * (Z[i - 1] + z[i]) = m * Z[i - 1] + m * z[i]
      BY <3>1
    <3>3. QED
      BY <3>1, <3>2
  <2>4. W \in [0 .. n -> Nat] /\ w \in [1 .. n -> Nat]
    BY <2>1, <2>2
  <2>5. W[0] = 0 /\ W[n] = m * Z[n]
    BY <1>6
  <2>6. \A i \in 1 .. n : w[i] = m * z[i]
    OBVIOUS
  <2> HIDE DEF W, w
  <2>7. QED
    BY <2>3, <2>4, <2>5, <2>6
<1> HIDE DEF W, w
<1>8. ASSUME \A i \in 1 .. n : w[i] <= x[i] + y[i] PROVE W[n] <= X[n] + Y[n]
  <2> DEFINE T == {k \in 0 .. n : ~(W[k] <= X[k] + Y[k])}
  <2>1. SUFFICES ASSUME T # {} PROVE FALSE
    OBVIOUS
  <2>2. PICK k \in T : \A j \in T : k <= j
    <3>1. T \in SUBSET Nat
      OBVIOUS
    <3> HIDE DEF T
    <3>2. QED
      BY <2>1, <3>1, LeastExists
  <2>3. k \in 1 .. n /\ k - 1 \in 0 .. n /\ k - 1 \notin T
    BY <2>2, <1>6, <1>7
  <2>4. W[k - 1] <= X[k - 1] + Y[k - 1] /\ w[k] <= x[k] + y[k]
    BY <2>3, <1>8
  <2>5. W[k] <= X[k] + Y[k]
    <3> DEFINE a == W[k - 1]  b == X[k - 1]  c == Y[k - 1]  d == w[k]  e == x[k]  f == y[k]
    <3>1. a \in Nat /\ d \in Nat /\ W[k] = a + d
      BY <2>3, <1>7
    <3>2. b \in Nat /\ c \in Nat /\ e \in Nat /\ f \in Nat /\ X[k] = b + e /\ Y[k] = c + f
      BY <2>3, <1>6
    <3>3. a <= b + c /\ d <= e + f
      BY <2>4
    <3> HIDE DEF a, b, c, d, e, f
    <3>4. QED
      BY <3>1, <3>2, <3>3
  <2>6. QED
    BY <2>2, <2>5
<1>9. ASSUME \A i \in 1 .. n : x[i] + y[i] <= w[i] PROVE X[n] + Y[n] <= W[n]
  <2> DEFINE T == {k \in 0 .. n : ~(X[k] + Y[k] <= W[k])}
  <2>1. SUFFICES ASSUME T # {} PROVE FALSE
    OBVIOUS
  <2>2. PICK k \in T : \A j \in T : k <= j
    <3>1. T \in SUBSET Nat
      OBVIOUS
    <3> HIDE DEF T
    <3>2. QED
      BY <2>1, <3>1, LeastExists
  <2>3. k \in 1 .. n /\ k - 1 \in 0 .. n /\ k - 1 \notin T
    BY <2>2, <1>6, <1>7
  <2>4. X[k - 1] + Y[k - 1] <= W[k - 1] /\ x[k] + y[k] <= w[k]
    BY <2>3, <1>9
  <2>5. X[k] + Y[k] <= W[k]
    <3> DEFINE a == W[k - 1]  b == X[k - 1]  c == Y[k - 1]  d == w[k]  e == x[k]  f == y[k]
    <3>1. a \in Nat /\ d \in Nat /\ W[k] = a + d
      BY <2>3, <1>7
    <3>2. b \in Nat /\ c \in Nat /\ e \in Nat /\ f \in Nat /\ X[k] = b + e /\ Y[k] = c + f
      BY <2>3, <1>6
    <3>3. b + c <= a /\ e + f <= d
      BY <2>4
    <3> HIDE DEF a, b, c, d, e, f
    <3>4. QED
      BY <3>1, <3>2, <3>3
  <2>6. QED
    BY <2>2, <2>5
<1>10. X[n] \in Nat /\ Y[n] \in Nat /\ Z[n] \in Nat
  BY <1>6
<1>11. (\A i \in 1 .. n : m * z[i] <= x[i] + y[i]) => m * Z[n] <= X[n] + Y[n]
  BY <1>7, <1>8
<1>12. (\A i \in 1 .. n : x[i] + y[i] <= m * z[i]) => X[n] + Y[n] <= m * Z[n]
  BY <1>7, <1>9
<1>13. QED
  BY <1>3, <1>4, <1>5, <1>10, <1>11, <1>12

(* A sum of naturals is no less than any of its terms. *)
LEMMA PartOfSum ==
    ASSUME NEW n \in Nat, NEW f \in [1 .. n -> Nat], NEW i \in 1 .. n
    PROVE  f[i] <= SumOf(f)
<1>1. f \in Seq(Nat) /\ Len(f) = n
  OBVIOUS
<1>2. PICK S : IsSum(S, f) /\ SumOf(f) = S[n]
  BY <1>1, SumOfIs
<1>3. S \in [0 .. n -> Nat] /\ \A j \in 1 .. n : S[j] = S[j - 1] + f[j]
  BY <1>1, <1>2 DEF IsSum
<1> DEFINE T == {k \in i .. n : ~(f[i] <= S[k])}
<1>4. SUFFICES ASSUME T # {} PROVE FALSE
  BY <1>2
<1>5. PICK k \in T : \A j \in T : k <= j
  <2>1. T \in SUBSET Nat
    OBVIOUS
  <2> HIDE DEF T
  <2>2. QED
    BY <1>4, <2>1, LeastExists
<1>6. k \in 1 .. n /\ k - 1 \in 0 .. n /\ S[k] = S[k - 1] + f[k]
      /\ S[k - 1] \in Nat /\ f[k] \in Nat /\ f[i] \in Nat
  BY <1>3, <1>5
<1>7. k = i \/ (k - 1 \in i .. n /\ k - 1 \notin T)
  BY <1>5
<1>8. QED
  BY <1>5, <1>6, <1>7

LEMMA SumsOrdered ==
    ASSUME NEW n \in Nat, NEW x \in [1 .. n -> Nat], NEW z \in [1 .. n -> Nat],
           \A i \in 1 .. n : x[i] <= z[i]
    PROVE  SumOf(x) \in Nat /\ SumOf(z) \in Nat /\ SumOf(x) <= SumOf(z)
<1> DEFINE y == [i \in 1 .. n |-> 0]
<1>1. y \in [1 .. n -> Nat] /\ \A i \in 1 .. n : x[i] + y[i] <= 1 * z[i]
  OBVIOUS
<1> HIDE DEF y
<1>2. /\ SumOf(x) \in Nat /\ SumOf(y) \in Nat /\ SumOf(z) \in Nat
      /\ SumOf(x) + SumOf(y) <= 1 * SumOf(z)
  BY <1>1, SumsCompare
<1>3. QED
  BY <1>2

LEMMA SumOfOneLess ==
    ASSUME NEW n \in Nat, NEW t \in [1 .. n -> Nat], NEW i \in 1 .. n, t[i] > 0
    PROVE  /\ [t EXCEPT ![i] = @ - 1] \in [1 .. n -> Nat]
           /\ SumOf([t EXCEPT ![i] = @ - 1]) = SumOf(t) - 1
<1> DEFINE u == [t EXCEPT ![i] = @ - 1]
<1>1. u \in [1 .. n -> Nat]
  OBVIOUS
<1>2. /\ t \in Seq(Nat) /\ u \in Seq(Nat) /\ Len(t) = n /\ Len(u) = n
      /\ \A k \in 1 .. n : u[k] = t[k] - (IF k = i THEN 1 ELSE 0)
  BY <1>1
<1> HIDE DEF u
<1>3. PICK S : IsSum(S, t) /\ SumOf(t) = S[n]
  BY <1>2, SumOfIs
<1>4. PICK U : IsSum(U, u) /\ SumOf(u) = U[n]
  BY <1>2, SumOfIs
<1>5. /\ S \in [0 .. n -> Nat] /\ S[0] = 0 /\ \A k \in 1 .. n : S[k] = S[k - 1] + t[k]
      /\ U \in [0 .. n -> Nat] /\ U[0] = 0 /\ \A k \in 1 .. n : U[k] = U[k - 1] + u[k]
  BY <1>2, <1>3, <1>4 DEF IsSum
<1> DEFINE T == {k \in 0 .. n : U[k] # S[k] - (IF i <= k THEN 1 ELSE 0)}
<1>6. ASSUME T # {} PROVE FALSE
  <2>1. PICK k \in T : \A j \in T : k <= j
    <3>1. T \in SUBSET Nat
      OBVIOUS
    <3> HIDE DEF T
    <3>2. QED
      BY <1>6, <3>1, LeastExists
  <2>2. k \in 1 .. n /\ k - 1 \in 0 .. n /\ k - 1 \notin T
    <3>1. U[0] = S[0] - (IF i <= 0 THEN 1 ELSE 0)
      <4>1. (IF i <= 0 THEN 1 ELSE 0) = 0
        OBVIOUS
      <4>2. U[0] = 0 /\ S[0] = 0 /\ 0 - 0 = 0
        BY <1>5
      <4>3. QED
        BY <4>1, <4>2, Zenon
    <3>2. k # 0
      BY <2>1, <3>1
    <3>3. k \in 1 .. n /\ k - 1 \in 0 .. n
      BY <2>1, <3>2
    <3>4. k - 1 \notin T
      BY <2>1, <3>3
    <3>5. QED
      BY <3>3, <3>4
  <2> DEFINE a == S[k - 1]  b == U[k - 1]  c == t[k]  d == u[k]
  <2>3. a \in Nat /\ b \in Nat /\ c \in Nat /\ d \in Nat /\ S[k] = a + c /\ U[k] = b + d
    BY <2>2, <1>1, <1>5
  <2>4. b = a - (IF i <= k - 1 THEN 1 ELSE 0) /\ d = c - (IF k = i THEN 1 ELSE 0)
    BY <2>2, <1>2
  <2> HIDE DEF a, b, c, d
  <2>5. U[k] = S[k] - (IF i <= k THEN 1 ELSE 0)
    BY <2>2, <2>3, <2>4
  <2>6. QED
    BY <2>1, <2>5
<1>7. U[n] = S[n] - 1
  BY <1>6
<1>8. QED
  BY <1>1, <1>3, <1>4, <1>7 DEF u

(* Between two bounds of the terms every sum between the sums is reached.    *)
Between(n, f, g) ==
    {t \in [1 .. n -> Nat] : \A i \in 1 .. n : f[i] <= t[i] /\ t[i] <= g[i]}

SumsTo(n, f, g, q) == \E t \in Between(n, f, g) : SumOf(t) = q

LEMMA SumBetween ==
    ASSUME NEW n \in Nat, NEW f \in [1 .. n -> Nat], NEW g, g \in Between(n, f, g),
           NEW q \in Nat, SumOf(f) <= q, q <= SumOf(g)
    PROVE  SumsTo(n, f, g, q)
<1>0. g \in [1 .. n -> Nat] /\ \A i \in 1 .. n : f[i] <= g[i]
  BY DEF Between
<1> DEFINE Fits(t) == (\A i \in 1 .. n : f[i] <= t[i] /\ t[i] <= g[i]) /\ q <= SumOf(t)
           T == {k \in Nat : \E t \in [1 .. n -> Nat] : Fits(t) /\ SumOf(t) = k}
<1>1. ASSUME NEW t \in [1 .. n -> Nat] PROVE SumOf(t) \in Nat
  <2>1. \A i \in 1 .. n : t[i] <= t[i]
    OBVIOUS
  <2>2. QED
    BY <2>1, SumsOrdered
<1>2. SumOf(g) \in T
  <2>1. \A i \in 1 .. n : f[i] <= g[i] /\ g[i] <= g[i]
    BY <1>0
  <2>2. QED
    BY <1>0, <1>1, <2>1
<1>3. PICK k \in T : \A j \in T : k <= j
  <2>1. T \in SUBSET Nat
    OBVIOUS
  <2> HIDE DEF T
  <2>2. QED
    BY <1>2, <2>1, LeastExists
<1>4. PICK t \in [1 .. n -> Nat] : Fits(t) /\ SumOf(t) = k
  BY <1>3
<1>5. SUFFICES ASSUME k # q PROVE FALSE
  <2>1. t \in Between(n, f, g) /\ SumOf(t) = k
    BY <1>4 DEF Between
  <2>2. QED
    BY <2>1 DEF SumsTo
<1>6. PICK i \in 1 .. n : f[i] < t[i] /\ f[i] \in Nat /\ t[i] \in Nat
  <2>1. SUFFICES ASSUME \A i \in 1 .. n : t[i] <= f[i] PROVE FALSE
    <3>1. \A i \in 1 .. n : f[i] \in Nat /\ t[i] \in Nat
      OBVIOUS
    <3>2. QED
      BY <3>1
  <2>2. SumOf(t) \in Nat /\ SumOf(f) \in Nat /\ SumOf(t) <= SumOf(f)
    BY <2>1, SumsOrdered
  <2>3. QED
    BY <1>4, <1>5, <2>2
<1> DEFINE u == [t EXCEPT ![i] = @ - 1]
<1>7. u \in [1 .. n -> Nat] /\ SumOf(u) = SumOf(t) - 1
  <2>1. t[i] > 0
    BY <1>6
  <2>2. QED
    BY <2>1, SumOfOneLess
<1>8. \A j \in 1 .. n : f[j] <= u[j] /\ u[j] <= g[j]
  BY <1>0, <1>4, <1>6
<1> HIDE DEF u
<1>9. k \in Nat /\ q <= k /\ SumOf(t) = k
  BY <1>3, <1>4
<1>10. k - 1 \in Nat /\ q <= k - 1 /\ SumOf(u) = k - 1
  BY <1>5, <1>7, <1>9
<1>11. k - 1 \in T
  BY <1>7, <1>8, <1>10
<1> HIDE DEF T
<1>12. k <= k - 1
  BY <1>3, <1>11
<1>13. QED
  BY <1>9, <1>12

-----------------------------------------------------------------------------
(* The cheapest way to take a quantity *)

(* What each level below the price m would save a taker who expected to pay  *)
(* m a lot.                                                                  *)
Savings(es, m) ==
    [i \in DOMAIN es |->
        IF Usable(es[i]) /\ es[i].price < m THEN es[i].size * (m - es[i].price) ELSE 0]

Saved(es, m) == SumOf(Savings(es, m))

LEMMA LevelTypes ==
    ASSUME NEW es \in Seq(Entries), NEW m \in Nat
    PROVE  /\ DOMAIN es = 1 .. Len(es) /\ Len(es) \in Nat
           /\ \A i \in 1 .. Len(es) : es[i].price \in Nat /\ es[i].size \in Nat
           /\ Offered(es) \in [1 .. Len(es) -> Nat]
           /\ OfferedBelow(es, m) \in [1 .. Len(es) -> Nat]
           /\ Savings(es, m) \in [1 .. Len(es) -> Nat]
<1>1. DOMAIN es = 1 .. Len(es) /\ Len(es) \in Nat
  OBVIOUS
<1>2. ASSUME NEW i \in 1 .. Len(es) PROVE es[i].price \in Nat /\ es[i].size \in Nat
  <2>1. es[i] \in Entries
    OBVIOUS
  <2>2. QED
    BY <2>1, DepthAssumption DEF Entry
<1>3. ASSUME NEW i \in 1 .. Len(es), es[i].price < m
      PROVE  es[i].size * (m - es[i].price) \in Nat
  <2>1. m - es[i].price \in Nat
    BY <1>2, <1>3
  <2>2. QED
    BY <1>2, <2>1, ProductsNatural
<1>4. Offered(es) \in [1 .. Len(es) -> Nat] /\ OfferedBelow(es, m) \in [1 .. Len(es) -> Nat]
  BY <1>1, <1>2 DEF Offered, OfferedBelow
<1>5. Savings(es, m) \in [1 .. Len(es) -> Nat]
  BY <1>1, <1>3 DEF Savings
<1>6. QED
  BY <1>1, <1>2, <1>4, <1>5

(* The terms of a taking and its cost. *)
LEMMA TakingTypes ==
    ASSUME NEW es \in Seq(Entries), NEW t \in [1 .. Len(es) -> Nat]
    PROVE  /\ [i \in DOMAIN es |-> t[i] * es[i].price] \in [1 .. Len(es) -> Nat]
           /\ CostOf(t, es) = SumOf([i \in DOMAIN es |-> t[i] * es[i].price])
<1>1. DOMAIN es = 1 .. Len(es) /\ \A i \in 1 .. Len(es) : es[i].price \in Nat
  BY LevelTypes
<1>2. \A i \in 1 .. Len(es) : t[i] * es[i].price \in Nat
  BY <1>1, ProductsNatural
<1>3. QED
  BY <1>1, <1>2 DEF CostOf

(* Whatever m is, no way of taking q lots costs less than q times m, less    *)
(* what the levels below m save.                                             *)
LEMMA NoCheaper ==
    ASSUME NEW es \in Seq(Entries), NEW q \in Nat, NEW m \in Nat, NEW t \in Takings(es, q)
    PROVE  CostOf(t, es) \in Nat /\ Saved(es, m) \in Nat /\ m * q <= CostOf(t, es) + Saved(es, m)
<1> DEFINE n == Len(es)
           x == [i \in DOMAIN es |-> t[i] * es[i].price]
           y == Savings(es, m)
<1>1. /\ DOMAIN es = 1 .. n /\ n \in Nat
      /\ \A i \in 1 .. n : es[i].price \in Nat /\ es[i].size \in Nat
      /\ y \in [1 .. n -> Nat]
  BY LevelTypes
<1>2. /\ t \in [1 .. n -> Nat] /\ SumOf(t) = q
      /\ \A i \in 1 .. n : t[i] <= Offered(es)[i]
  BY <1>1 DEF Takings
<1>3. x \in [1 .. n -> Nat] /\ CostOf(t, es) = SumOf(x)
  BY <1>2, TakingTypes
<1>4. ASSUME NEW i \in 1 .. n PROVE m * t[i] <= x[i] + y[i]
  <2> DEFINE p == es[i].price
             o == es[i].size
             r == t[i]
  <2>1. p \in Nat /\ o \in Nat /\ r \in Nat
    BY <1>1, <1>2
  <2>2. x[i] = r * p
    BY <1>1
  <2>3. y[i] = IF Usable(es[i]) /\ p < m THEN o * (m - p) ELSE 0
    BY <1>1 DEF Savings
  <2>4. r <= (IF Usable(es[i]) THEN o ELSE 0)
    BY <1>1, <1>2 DEF Offered
  <2> HIDE DEF p, o, r, x, y
  <2>5. ASSUME p < m, Usable(es[i]) PROVE m * r <= x[i] + y[i]
    <3>1. m - p \in Nat /\ r <= o /\ y[i] = o * (m - p)
      BY <2>1, <2>3, <2>4, <2>5
    <3>2. (m - p) * r <= (m - p) * o
      BY <2>1, <3>1, Grow
    <3>3. (m - p) * r = m * r - r * p /\ (m - p) * o = o * (m - p)
      BY <2>1
    <3>4. r * p \in Nat /\ m * r \in Nat /\ o * (m - p) \in Nat
      BY <2>1, <3>1, ProductsNatural
    <3>5. QED
      BY <2>2, <3>1, <3>2, <3>3, <3>4
  <2>6. ASSUME ~Usable(es[i]) PROVE m * r <= x[i] + y[i]
    <3>1. r = 0 /\ y[i] = 0
      BY <2>1, <2>3, <2>4, <2>6
    <3>2. QED
      BY <2>1, <2>2, <3>1
  <2>7. ASSUME Usable(es[i]), ~(p < m) PROVE m * r <= x[i] + y[i]
    <3>1. y[i] = 0 /\ m <= p
      BY <2>1, <2>3, <2>7
    <3>2. r * m <= r * p
      BY <2>1, <3>1, Grow
    <3>3. r * m = m * r /\ r * p \in Nat
      BY <2>1, ProductsNatural
    <3>4. QED
      BY <2>2, <3>1, <3>2, <3>3
  <2>8. QED
    BY <2>5, <2>6, <2>7 DEF r
<1> HIDE DEF n, x, y
<1>5. /\ SumOf(x) \in Nat /\ SumOf(y) \in Nat
      /\ m * SumOf(t) <= SumOf(x) + SumOf(y)
  BY <1>1, <1>2, <1>3, <1>4, SumsCompare
<1>6. QED
  BY <1>2, <1>3, <1>5 DEF y, Saved

(* Taking all that is offered below m and none above it costs just that.     *)
LEMMA CheapestReached ==
    ASSUME NEW es \in Seq(Entries), NEW q \in Nat, NEW m \in Nat,
           SumOf(OfferedBelow(es, m)) <= q, q <= SumOf(OfferedBelow(es, m + 1))
    PROVE  \E t \in Takings(es, q) : CostOf(t, es) + Saved(es, m) = m * q
<1> DEFINE n == Len(es)
           f == OfferedBelow(es, m)
           g == OfferedBelow(es, m + 1)
           y == Savings(es, m)
<1>1. /\ DOMAIN es = 1 .. n /\ n \in Nat
      /\ \A i \in 1 .. n : es[i].price \in Nat /\ es[i].size \in Nat
      /\ f \in [1 .. n -> Nat] /\ y \in [1 .. n -> Nat] /\ g \in [1 .. n -> Nat]
  <2>1. m + 1 \in Nat
    OBVIOUS
  <2>2. QED
    BY <2>1, LevelTypes
<1>2. ASSUME NEW i \in 1 .. n
      PROVE  /\ f[i] = IF Usable(es[i]) /\ es[i].price < m THEN es[i].size ELSE 0
             /\ g[i] = IF Usable(es[i]) /\ es[i].price <= m THEN es[i].size ELSE 0
             /\ y[i] = IF Usable(es[i]) /\ es[i].price < m
                       THEN es[i].size * (m - es[i].price) ELSE 0
             /\ Offered(es)[i] = IF Usable(es[i]) THEN es[i].size ELSE 0
             /\ f[i] <= g[i] /\ g[i] <= Offered(es)[i]
  <2>1. es[i].price \in Nat /\ es[i].size \in Nat /\ i \in DOMAIN es
    BY <1>1
  <2>2. es[i].price < m + 1 <=> es[i].price <= m
    BY <2>1
  <2>3. /\ f[i] = IF Usable(es[i]) /\ es[i].price < m THEN es[i].size ELSE 0
        /\ g[i] = IF Usable(es[i]) /\ es[i].price < m + 1 THEN es[i].size ELSE 0
        /\ y[i] = IF Usable(es[i]) /\ es[i].price < m
                  THEN es[i].size * (m - es[i].price) ELSE 0
        /\ Offered(es)[i] = IF Usable(es[i]) THEN es[i].size ELSE 0
    BY <2>1 DEF OfferedBelow, Savings, Offered
  <2> HIDE DEF f, g, y
  <2>4. f[i] <= g[i] /\ g[i] <= Offered(es)[i]
    BY <2>1, <2>2, <2>3
  <2>5. QED
    BY <2>2, <2>3, <2>4
<1> HIDE DEF f, g, y, n
<1>3. PICK t \in [1 .. n -> Nat] :
          (\A i \in 1 .. n : f[i] <= t[i] /\ t[i] <= g[i]) /\ SumOf(t) = q
  <2>1. g \in Between(n, f, g)
    BY <1>1, <1>2 DEF Between
  <2>2. SumOf(f) <= q /\ q <= SumOf(g)
    BY DEF f, g
  <2>3. SumsTo(n, f, g, q)
    BY <1>1, <2>1, <2>2, SumBetween
  <2>4. QED
    BY <2>3 DEF SumsTo, Between
<1>4. t \in Takings(es, q)
  <2>1. ASSUME NEW i \in 1 .. n PROVE t[i] \in 0 .. q /\ t[i] <= Offered(es)[i]
    <3>1. t[i] \in Nat /\ t[i] <= SumOf(t)
      BY <1>1, PartOfSum
    <3>2. g[i] \in Nat /\ Offered(es)[i] \in Nat
      BY <1>1, <1>2
    <3>3. t[i] <= g[i] /\ g[i] <= Offered(es)[i]
      BY <1>2, <1>3
    <3>4. QED
      BY <1>3, <3>1, <3>2, <3>3
  <2>2. t \in [1 .. n -> 0 .. q]
    BY <2>1
  <2>3. QED
    BY <1>1, <1>3, <2>1, <2>2 DEF Takings
<1> DEFINE x == [i \in DOMAIN es |-> t[i] * es[i].price]
<1>5. x \in [1 .. n -> Nat] /\ CostOf(t, es) = SumOf(x)
  BY TakingTypes DEF n
<1>6. ASSUME NEW i \in 1 .. n PROVE x[i] + y[i] = m * t[i]
  <2> DEFINE p == es[i].price
             o == es[i].size
             r == t[i]
  <2>1. p \in Nat /\ o \in Nat /\ r \in Nat /\ x[i] = r * p /\ f[i] <= r /\ r <= g[i]
    BY <1>1, <1>3
  <2>2. /\ f[i] = IF Usable(es[i]) /\ p < m THEN o ELSE 0
        /\ g[i] = IF Usable(es[i]) /\ p <= m THEN o ELSE 0
        /\ y[i] = IF Usable(es[i]) /\ p < m THEN o * (m - p) ELSE 0
    BY <1>2
  <2> HIDE DEF p, o, r, x
  <2>3. ASSUME Usable(es[i]), p < m PROVE x[i] + y[i] = m * r
    <3>1. r = o /\ y[i] = o * (m - p)
      BY <2>1, <2>2, <2>3
    <3>2. o * p + o * (m - p) = m * o
      BY <2>1
    <3>3. QED
      BY <2>1, <3>1, <3>2
  <2>4. ASSUME Usable(es[i]), p = m PROVE x[i] + y[i] = m * r
    <3>1. y[i] = 0
      BY <2>1, <2>2, <2>4
    <3>2. r * m + 0 = m * r
      BY <2>1
    <3>3. QED
      BY <2>1, <2>4, <3>1, <3>2
  <2>5. ASSUME ~Usable(es[i]) \/ m < p PROVE x[i] + y[i] = m * r
    <3>1. r = 0 /\ y[i] = 0
      BY <2>1, <2>2, <2>5
    <3>2. QED
      BY <2>1, <3>1
  <2>6. QED
    BY <2>1, <2>3, <2>4, <2>5 DEF r
<1> HIDE DEF x
<1>7. \A i \in 1 .. n : /\ x[i] \in Nat /\ y[i] \in Nat /\ m * t[i] \in Nat
                        /\ x[i] + y[i] <= m * t[i] /\ m * t[i] <= x[i] + y[i]
  <2> SUFFICES ASSUME NEW i \in 1 .. n
               PROVE  /\ x[i] \in Nat /\ y[i] \in Nat /\ m * t[i] \in Nat
                      /\ x[i] + y[i] <= m * t[i] /\ m * t[i] <= x[i] + y[i]
    OBVIOUS
  <2>1. x[i] \in Nat /\ y[i] \in Nat /\ m * t[i] = x[i] + y[i]
    BY <1>1, <1>5, <1>6
  <2>2. QED
    BY <2>1
<1>8. /\ SumOf(x) \in Nat /\ SumOf(y) \in Nat /\ SumOf(t) \in Nat
      /\ (\A i \in 1 .. n : m * t[i] <= x[i] + y[i]) => m * SumOf(t) <= SumOf(x) + SumOf(y)
      /\ (\A i \in 1 .. n : x[i] + y[i] <= m * t[i]) => SumOf(x) + SumOf(y) <= m * SumOf(t)
  BY <1>1, <1>5, SumsCompare
<1>9. SumOf(x) + SumOf(y) = m * q
  <2>1. m * q \in Nat
    BY ProductsNatural
  <2>2. SumOf(x) + SumOf(y) <= m * q /\ m * q <= SumOf(x) + SumOf(y)
    BY <1>3, <1>7, <1>8
  <2>3. QED
    BY <1>8, <2>1, <2>2
<1>10. QED
  BY <1>4, <1>5, <1>9 DEF y, Saved

(* Savings, price by price. *)
LEMMA SavedFacts ==
    ASSUME NEW a \in [Price -> Nat], NEW es \in Seq(Entries), SameOffer(a, es)
    PROVE  /\ Saved(es, 0) = 0
           /\ \A m \in 0 .. Top : Saved(es, m) \in Nat
           /\ \A m \in Price : Saved(es, m + 1) = Saved(es, m) + Below(a)[m + 1]
<1> DEFINE n == Len(es)
<1>1. /\ DOMAIN es = 1 .. n /\ n \in Nat
      /\ \A i \in 1 .. n : es[i].price \in Nat /\ es[i].size \in Nat
  BY LevelTypes
<1>2. ASSUME NEW m \in Nat
      PROVE  Saved(es, m) \in Nat /\ Saved(es, m + 1) = Saved(es, m) + SumOf(OfferedBelow(es, m + 1))
  <2> DEFINE x == Savings(es, m)
             y == OfferedBelow(es, m + 1)
             z == Savings(es, m + 1)
  <2>1. m + 1 \in Nat
    OBVIOUS
  <2>2. x \in [1 .. n -> Nat] /\ y \in [1 .. n -> Nat] /\ z \in [1 .. n -> Nat]
    BY <2>1, LevelTypes
  <2>3. ASSUME NEW i \in 1 .. n PROVE 1 * z[i] = x[i] + y[i]
    <3> DEFINE p == es[i].price
               o == es[i].size
    <3>1. p \in Nat /\ o \in Nat /\ i \in DOMAIN es
      BY <1>1
    <3>2. /\ x[i] = IF Usable(es[i]) /\ p < m THEN o * (m - p) ELSE 0
          /\ y[i] = IF Usable(es[i]) /\ p < m + 1 THEN o ELSE 0
          /\ z[i] = IF Usable(es[i]) /\ p < m + 1 THEN o * (m + 1 - p) ELSE 0
      BY <3>1 DEF Savings, OfferedBelow
    <3> HIDE DEF x, y, z, p, o
    <3>3. CASE Usable(es[i]) /\ p < m
      <4>1. x[i] = o * (m - p) /\ y[i] = o /\ z[i] = o * (m + 1 - p)
        BY <3>1, <3>2, <3>3
      <4>2. o * (m + 1 - p) = o * (m - p) + o
        BY <3>1
      <4>3. o * (m + 1 - p) \in Int
        BY <3>1
      <4>4. QED
        BY <4>1, <4>2, <4>3
    <3>4. CASE Usable(es[i]) /\ p = m
      <4>1. x[i] = 0 /\ y[i] = o /\ z[i] = o * (m + 1 - p)
        BY <3>1, <3>2, <3>4
      <4>2. o * (m + 1 - p) = o
        BY <3>1, <3>4
      <4>3. QED
        BY <3>1, <4>1, <4>2
    <3>5. CASE ~Usable(es[i]) \/ m < p
      <4>1. x[i] = 0 /\ y[i] = 0 /\ z[i] = 0
        BY <3>1, <3>2, <3>5
      <4>2. QED
        BY <4>1
    <3>6. QED
      BY <3>1, <3>3, <3>4, <3>5
  <2> HIDE DEF x, y, z, n
  <2>4. \A i \in 1 .. n : 1 * z[i] <= x[i] + y[i] /\ x[i] + y[i] <= 1 * z[i]
    <3> SUFFICES ASSUME NEW i \in 1 .. n
                 PROVE  1 * z[i] <= x[i] + y[i] /\ x[i] + y[i] <= 1 * z[i]
      OBVIOUS
    <3>1. x[i] \in Nat /\ y[i] \in Nat /\ z[i] \in Nat
      BY <2>2
    <3>2. QED
      BY <2>3, <3>1
  <2>5. /\ SumOf(x) \in Nat /\ SumOf(y) \in Nat /\ SumOf(z) \in Nat
        /\ (\A i \in 1 .. n : 1 * z[i] <= x[i] + y[i]) => 1 * SumOf(z) <= SumOf(x) + SumOf(y)
        /\ (\A i \in 1 .. n : x[i] + y[i] <= 1 * z[i]) => SumOf(x) + SumOf(y) <= 1 * SumOf(z)
    <3>1. 1 \in Nat
      OBVIOUS
    <3>2. QED
      BY <1>1, <2>2, <3>1, SumsCompare
  <2>6. SumOf(z) = SumOf(x) + SumOf(y)
    BY <2>4, <2>5
  <2>7. QED
    BY <2>5, <2>6 DEF x, y, z, Saved
<1>3. Saved(es, 0) = 0
  <2>1. \A i \in 1 .. n : Savings(es, 0)[i] <= OfferedBelow(es, 0)[i]
    BY <1>1 DEF Savings, OfferedBelow
  <2>2. Savings(es, 0) \in [1 .. n -> Nat] /\ OfferedBelow(es, 0) \in [1 .. n -> Nat]
    BY LevelTypes
  <2> HIDE DEF n
  <2>3. Saved(es, 0) \in Nat /\ Saved(es, 0) <= SumOf(OfferedBelow(es, 0))
    BY <1>1, <2>1, <2>2, SumsOrdered DEF Saved
  <2>4. SumOf(OfferedBelow(es, 0)) = 0
    <3>1. 0 \in 0 .. Top /\ Below(a)[0] = 0
      BY BelowFacts
    <3>2. QED
      BY <3>1 DEF SameOffer
  <2>5. QED
    BY <2>3, <2>4
<1>4. ASSUME NEW m \in Price PROVE Saved(es, m + 1) = Saved(es, m) + Below(a)[m + 1]
  <2>1. m \in Nat /\ m + 1 \in 0 .. Top
    BY BelowFacts
  <2>2. QED
    BY <1>2, <2>1 DEF SameOffer
<1>5. \A m \in 0 .. Top : m \in Nat
  OBVIOUS
<1>6. QED
  BY <1>2, <1>3, <1>4, <1>5

(* Where nothing is offered, savings rise by the same amount with each price.*)
LEMMA SavedRises ==
    ASSUME NEW a \in [Price -> Nat], NEW es \in Seq(Entries), SameOffer(a, es),
           NEW p \in 0 .. Top, NEW q \in 0 .. Top, p <= q, Below(a)[p] = Below(a)[q]
    PROVE  Saved(es, q) = Saved(es, p) + (q - p) * Below(a)[p]
<1> DEFINE b == Below(a)[p]
           Now(k) == Saved(es, k) = Saved(es, p) + (k - p) * b
           T == {k \in p .. q : ~Now(k)}
<1>1. b \in Nat /\ Top \in Nat /\ \A m \in 0 .. Top : Saved(es, m) \in Nat
  BY BelowFacts, SavedFacts
<1>2. SUFFICES ASSUME T # {} PROVE FALSE
  <2>1. q \in p .. q
    BY <1>1
  <2>2. T = {} => Now(q)
    BY <2>1, Zenon
  <2>3. QED
    BY <2>2
<1>3. PICK k \in T : \A j \in T : k <= j
  <2>1. T \in SUBSET Nat
    OBVIOUS
  <2> HIDE DEF T
  <2>2. QED
    BY <1>2, <2>1, LeastExists
<1>4. k # p
  <2>1. (p - p) * b = 0
    BY <1>1
  <2>2. Now(p)
    BY <1>1, <2>1
  <2>3. QED
    BY <1>3, <2>2
<1>5. k - 1 \in p .. q /\ k \in p .. q /\ Now(k - 1) /\ k - 1 \in Price
  <2>1. k - 1 \in p .. q /\ k \in p .. q
    BY <1>3, <1>4
  <2>2. Now(k - 1)
    BY <1>3, <2>1
  <2>3. k - 1 \in Price
    BY <2>1, BelowFacts
  <2>4. QED
    BY <2>1, <2>2, <2>3
<1>6. Below(a)[k] = b
  <2>1. k \in 0 .. Top /\ p <= k /\ k <= q
    BY <1>1, <1>5
  <2>2. Below(a)[p] <= Below(a)[k] /\ Below(a)[k] <= Below(a)[q] /\ Below(a)[k] \in Nat
    BY <2>1, BelowGrows, BelowFacts
  <2>3. QED
    BY <1>1, <2>2
<1>7. Saved(es, k) = Saved(es, k - 1) + b
  <2>1. (k - 1) + 1 = k
    BY <1>5
  <2>2. Saved(es, (k - 1) + 1) = Saved(es, k - 1) + Below(a)[(k - 1) + 1]
    BY <1>5, SavedFacts
  <2>3. QED
    BY <1>6, <2>1, <2>2
<1>8. (k - p) * b = (k - 1 - p) * b + b
  BY <1>1, <1>5
<1>9. Now(k)
  <2>1. Saved(es, p) \in Nat /\ (k - 1 - p) * b \in Int /\ b \in Nat
    BY <1>1, <1>5
  <2>2. Saved(es, k - 1) = Saved(es, p) + (k - 1 - p) * b
    BY <1>5
  <2> HIDE DEF b
  <2>3. QED
    BY <1>7, <1>8, <2>1, <2>2
<1>10. QED
  BY <1>3, <1>9

(* c is what q lots cost when all below some price m is taken, nothing above *)
(* it, and the rest at m.                                                    *)
PricedAt(m, s, q, c) ==
    /\ Below(asks[s])[m] <= q /\ q <= Below(asks[s])[m + 1]
    /\ c + Saved(entries[s], m) = m * q

Priced(s, q, c) == \E m \in Price : PricedAt(m, s, q, c)

(* A walk that goes on has taken all below `at`; the last level it comes to  *)
(* may be taken in part.                                                     *)
WalkPriced ==
    IF filled < Quantity THEN cost + Saved(entries[side], at) = at * filled
                         ELSE Priced(side, filled, cost)

PriceFits ==
    /\ stage \in {"measure", "fill"} => WalkPriced
    /\ (stage = "fill" /\ side = "no") \/ stage \in {"judge", "done"}
         => Priced("yes", fill["yes"], spent["yes"])
    /\ stage \in {"judge", "done"} => Priced("no", fill["no"], spent["no"])

LEMMA BookTypes ==
    ASSUME IInv, BooksFit, NEW s \in Side
    PROVE  /\ asks[s] \in [Price -> Nat] /\ entries[s] \in Seq(Entries)
           /\ SameOffer(asks[s], entries[s])
BY DEF IInv, TypeOK, BooksFit

(* Nothing taken costs nothing. *)
LEMMA NothingIsPriced ==
    ASSUME IInv, BooksFit, NEW s \in Side
    PROVE  Saved(entries[s], 0) = 0 /\ Priced(s, 0, 0)
<1> DEFINE a == asks[s]
<1>1. a \in [Price -> Nat] /\ entries[s] \in Seq(Entries) /\ SameOffer(a, entries[s])
  BY BookTypes
<1> HIDE DEF a
<1>2. Saved(entries[s], 0) = 0
  BY <1>1, SavedFacts
<1>3. 0 \in Price /\ 0 + 1 \in 0 .. Top /\ Below(a)[0] = 0
  BY <1>1, BelowFacts
<1>4. Below(a)[0 + 1] \in Nat
  BY <1>1, <1>3, BelowFacts
<1>5. PricedAt(0, s, 0, 0)
  <2>1. Below(a)[0] <= 0 /\ 0 <= Below(a)[0 + 1] /\ 0 + Saved(entries[s], 0) = 0 * 0
    BY <1>2, <1>3, <1>4
  <2>2. QED
    BY <2>1 DEF PricedAt, a
<1>6. QED
  BY <1>2, <1>3, <1>5 DEF Priced

LEMMA WalkBeginsPriced ==
    ASSUME IInv, BooksFit, UNCHANGED books, side' \in Side, at' = 0, filled' = 0, cost' = 0,
           Quantity' \in Nat
    PROVE  WalkPriced'
<1>1. Saved(entries[side'], 0) = 0 /\ Priced(side', 0, 0)
  BY NothingIsPriced
<1>2. entries' = entries /\ asks' = asks
  BY DEF books
<1>3. CASE 0 < Quantity'
  BY <1>1, <1>2, <1>3 DEF WalkPriced
<1>4. CASE ~(0 < Quantity')
  BY <1>1, <1>2, <1>4 DEF WalkPriced, Priced, PricedAt
<1>5. QED
  BY <1>3, <1>4

(* A level that is taken is the cheapest there is left. *)
LEMMA TakePriced ==
    ASSUME IInv, BooksFit, WalkPriced, NEW p \in Price, TakeLevel(p)
    PROVE  WalkPriced'
<1> DEFINE a == asks[side]
           es == entries[side]
           Q == Quantity
           take == Least({a[p], Q - filled})
           f == filled
           V == Saved(es, p)
<1>1. /\ side \in Side /\ Q \in Nat /\ f \in Nat /\ cost \in Nat /\ at \in 0 .. Top
  BY Types DEF IInv
<1>2. /\ f < Q /\ p >= at /\ a[p] > 0
      /\ \A r \in Price : r >= at /\ r < p => a[r] = 0
      /\ filled' = f + take /\ cost' = cost + take * p /\ at' = p + 1
      /\ side' = side /\ entries' = entries /\ asks' = asks /\ Quantity' = Q
  BY DEF TakeLevel, IsNext, Quantity, books
<1>3. f = Least({Q, Below(a)[at]}) /\ cost + Saved(es, at) = at * f
  BY <1>2 DEF IInv, WalkFits, TakeLevel, WalkPriced
<1>4. a \in [Price -> Nat] /\ es \in Seq(Entries) /\ SameOffer(a, es)
  BY <1>1, BookTypes
<1> HIDE DEF a, es, Q
<1>5. p \in Nat /\ p \in 0 .. Top /\ p + 1 \in 1 .. Top /\ p + 1 \in 0 .. Top
  BY <1>4, BelowFacts
<1>6. Below(a)[p] = Below(a)[at]
  BY <1>1, <1>2, <1>4, <1>5, BelowIsFlat
<1>7. Below(a)[p + 1] = Below(a)[p] + a[p] /\ Below(a)[p] \in Nat /\ a[p] \in Nat
  <2>1. (p + 1) - 1 = p
    BY <1>5
  <2>2. QED
    BY <1>4, <1>5, <2>1, BelowFacts
<1>8. f = Below(a)[p]
  BY <1>1, <1>2, <1>3, <1>6, <1>7, LeastOfTwo
<1>9. take \in Nat /\ take <= a[p] /\ take <= Q - f /\ (take = a[p] \/ take = Q - f)
  <2>1. Q - f \in Nat
    BY <1>1, <1>2
  <2>2. QED
    BY <1>7, <2>1, LeastOfTwo
<1> HIDE DEF take
<1>10. V \in Nat /\ Saved(es, p + 1) = V + Below(a)[p + 1]
  BY <1>4, <1>5, SavedFacts
<1>11. cost + V = p * f
  <2>1. V = Saved(es, at) + (p - at) * f
    BY <1>1, <1>2, <1>4, <1>5, <1>6, <1>8, SavedRises
  <2>2. at * f + (p - at) * f = p * f
    BY <1>1, <1>5
  <2>3. Saved(es, at) \in Nat
    BY <1>1, <1>4, SavedFacts
  <2>4. (p - at) * f \in Int /\ at * f \in Int
    BY <1>1, <1>5
  <2> HIDE DEF V, f
  <2>5. QED
    BY <1>1, <1>3, <2>1, <2>2, <2>3, <2>4
<1>12. cost' + V = p * filled'
  <2>1. p * (f + take) = p * f + take * p /\ p * f \in Int /\ take * p \in Int
    BY <1>1, <1>5, <1>9
  <2> HIDE DEF V, f
  <2>2. QED
    BY <1>1, <1>2, <1>10, <1>11, <2>1
<1> HIDE DEF V
<1>13. CASE take = Q - f
  <2>1. filled' = Q /\ ~(filled' < Q)
    BY <1>1, <1>2, <1>9, <1>13
  <2>2. Below(a)[p] <= filled' /\ filled' <= Below(a)[p + 1]
    BY <1>1, <1>2, <1>7, <1>8, <1>9, <1>13
  <2>3. PricedAt(p, side, filled, cost)'
    <3>1. cost' + Saved(entries'[side'], p) = p * filled'
      BY <1>2, <1>12 DEF V, es
    <3>2. Below(asks'[side'])[p] <= filled' /\ filled' <= Below(asks'[side'])[p + 1]
      BY <1>2, <2>2 DEF a
    <3>3. QED
      BY <3>1, <3>2 DEF PricedAt
  <2>4. Priced(side, filled, cost)'
    BY <2>3 DEF Priced
  <2>5. QED
    BY <1>2, <2>1, <2>4 DEF WalkPriced
<1>14. CASE take = a[p] /\ take # Q - f
  <2>1. filled' < Q /\ filled' = Below(a)[p + 1] /\ filled' \in Nat
    BY <1>1, <1>2, <1>7, <1>8, <1>9, <1>14
  <2>2. cost' + Saved(es, p + 1) = (p + 1) * filled'
    <3>1. (p + 1) * filled' = p * filled' + filled' /\ p * filled' \in Int
      <4>1. ASSUME NEW g \in Nat PROVE (p + 1) * g = p * g + g /\ p * g \in Int
        BY <1>5
      <4>2. QED
        BY <2>1, <4>1
    <3>2. cost' \in Int
      BY <1>1, <1>2, <1>5, <1>9
    <3>3. QED
      BY <1>10, <1>12, <2>1, <3>1, <3>2
  <2>3. cost' + Saved(entries'[side'], at') = at' * filled'
    BY <1>2, <2>2 DEF es
  <2>4. QED
    BY <1>2, <2>1, <2>3 DEF WalkPriced
<1>15. QED
  BY <1>9, <1>13, <1>14

LEMMA StepPrices == IInv /\ IInv' /\ BooksFit /\ PriceFits /\ [Next]_vars => PriceFits'
<1> SUFFICES ASSUME IInv, IInv', BooksFit, PriceFits, [Next]_vars PROVE PriceFits'
  OBVIOUS
<1>1. Quantity' \in Nat /\ side' \in Side /\ side \in Side /\ Quantity \in Nat /\ filled \in Nat
  <2>1. Quantity \in Nat /\ side \in Side /\ filled \in Nat
    BY Types DEF IInv
  <2>2. target' \in Nat /\ executable' \in Nat /\ side' \in Side
    BY DepthAssumption DEF IInv, TypeOK
  <2>3. QED
    BY <2>1, <2>2 DEF Quantity
<1>2. ASSUME NEW e \in Entries, ReadEntry(e) PROVE PriceFits'
  BY <1>2 DEF ReadEntry, PriceFits
<1>3. CASE BookRead
  <2>1. stage = "read" /\ at = 0 /\ filled = 0 /\ cost = 0 /\ UNCHANGED <<books, walk>>
    BY <1>3 DEF BookRead, IInv, WalkFits
  <2>2. WalkPriced'
    BY <1>1, <2>1, WalkBeginsPriced DEF walk
  <2>3. stage' \in {"read", "measure"}
    BY <1>3 DEF BookRead
  <2>4. QED
    BY <2>2, <2>3 DEF PriceFits
<1>4. ASSUME NEW p \in Price, TakeLevel(p) PROVE PriceFits'
  <2>1. /\ stage \in {"measure", "fill"} /\ stage' = stage /\ side' = side
        /\ entries' = entries /\ asks' = asks /\ fill' = fill /\ spent' = spent
    BY <1>4 DEF TakeLevel, books
  <2>2. WalkPriced'
    BY <1>4, <2>1, TakePriced DEF PriceFits
  <2>3. QED
    BY <2>1, <2>2 DEF PriceFits, Priced, PricedAt
<1>5. CASE Measured
  <2>1. /\ stage = "measure" /\ UNCHANGED books
        /\ at' = 0 /\ filled' = 0 /\ cost' = 0
        /\ (stage' = "measure" \/ (stage' = "fill" /\ side' = "yes"))
    BY <1>5 DEF Measured, WalkOver
  <2>2. WalkPriced'
    BY <1>1, <2>1, WalkBeginsPriced
  <2>3. QED
    BY <2>1, <2>2 DEF PriceFits
<1>6. CASE Filled
  <2>1. /\ stage = "fill" /\ WalkOver /\ UNCHANGED books
        /\ at' = 0 /\ filled' = 0 /\ cost' = 0
        /\ fill' = [fill EXCEPT ![side] = filled] /\ spent' = [spent EXCEPT ![side] = cost]
        /\ IF side = "yes" THEN side' = "no" /\ stage' = stage ELSE stage' = "judge"
    BY <1>6 DEF Filled, WalkOver
  <2>2. fill \in [Side -> Nat] /\ spent \in [Side -> Nat]
    BY DEF IInv, TypeOK
  <2>3. Priced(side, filled, cost)
    <3>1. filled = Quantity
      BY <2>1, WalkFillsAll DEF Quantity
    <3>2. QED
      BY <1>1, <2>1, <3>1 DEF PriceFits, WalkPriced
  <2>4. entries' = entries /\ asks' = asks
    BY <2>1 DEF books
  <2>5. WalkPriced'
    BY <1>1, <2>1, WalkBeginsPriced
  <2>6. CASE side = "yes"
    <3>1. fill'["yes"] = filled /\ spent'["yes"] = cost /\ stage' = "fill"
      BY <2>1, <2>2, <2>6 DEF Side
    <3>2. QED
      BY <2>3, <2>4, <2>5, <2>6, <3>1 DEF PriceFits, Priced, PricedAt
  <2>7. CASE side = "no"
    <3>1. /\ fill'["no"] = filled /\ spent'["no"] = cost /\ stage' = "judge"
          /\ fill'["yes"] = fill["yes"] /\ spent'["yes"] = spent["yes"]
      BY <2>1, <2>2, <2>7 DEF Side
    <3>2. Priced("yes", fill["yes"], spent["yes"])
      BY <2>1, <2>7 DEF PriceFits
    <3>3. QED
      BY <2>3, <2>4, <2>7, <3>1, <3>2 DEF PriceFits, Priced, PricedAt
  <2>8. QED
    BY <1>1, <2>6, <2>7 DEF Side
<1>7. CASE Judge
  <2>1. stage = "judge" /\ stage' = "done" /\ UNCHANGED <<books, fill, spent>>
    BY <1>7 DEF Judge
  <2>2. QED
    BY <2>1 DEF PriceFits, Priced, PricedAt, books
<1>8. CASE UNCHANGED vars
  BY <1>8 DEF vars, books, walk, PriceFits, WalkPriced, Priced, PricedAt, Quantity
<1>9. QED
  BY <1>2, <1>3, <1>4, <1>5, <1>6, <1>7, <1>8 DEF Next

(* For books of any length, what either leg pays for the common quantity is  *)
(* the least that any way of taking it from the raw levels would cost:       *)
(* merging equal prices and taking the lowest first (depth_calculator._walk  *)
(* over orderbooks._levels) wastes nothing.                                  *)
THEOREM LegsCostTheLeast == Spec => []LegsAreCheapest
<1>1. ASSUME IInv, BooksFit, PriceFits, stage = "done", NEW s \in Side
      PROVE  /\ fill[s] = executable
             /\ spent[s] = Least({CostOf(t, entries[s]) : t \in Takings(entries[s], executable)})
  <2> DEFINE es == entries[s]
             q == executable
             T == {CostOf(t, es) : t \in Takings(es, q)}
  <2>1. q \in Nat /\ spent[s] \in Nat /\ fill[s] = q
    BY <1>1, Types DEF IInv, FillFits, Side
  <2>2. /\ asks[s] \in [Price -> Nat] /\ es \in Seq(Entries)
        /\ SameOffer(asks[s], es)
    BY <1>1, BookTypes
  <2>3. Priced(s, q, spent[s])
    BY <1>1, <2>1 DEF PriceFits, Side
  <2> HIDE DEF es, q
  <2>4. PICK m \in Price : PricedAt(m, s, q, spent[s])
    BY <2>3 DEF Priced
  <2>5. m \in Nat /\ m \in 0 .. Top /\ m + 1 \in 0 .. Top
    BY <2>2, BelowFacts
  <2>6. /\ SumOf(OfferedBelow(es, m)) <= q /\ q <= SumOf(OfferedBelow(es, m + 1))
        /\ spent[s] + Saved(es, m) = m * q /\ Saved(es, m) \in Nat
    <3>1. /\ Below(asks[s])[m] <= q /\ q <= Below(asks[s])[m + 1]
          /\ spent[s] + Saved(es, m) = m * q
      BY <2>4 DEF PricedAt, es
    <3>2. QED
      BY <2>2, <2>5, <3>1, SavedFacts DEF SameOffer
  <2>7. ASSUME NEW t \in Takings(es, q) PROVE CostOf(t, es) \in Nat /\ spent[s] <= CostOf(t, es)
    <3>1. /\ CostOf(t, es) \in Nat /\ Saved(es, m) \in Nat
          /\ m * q <= CostOf(t, es) + Saved(es, m)
      BY <2>1, <2>2, <2>5, NoCheaper
    <3>2. m * q \in Nat
      BY <2>1, <2>5, ProductsNatural
    <3>3. QED
      BY <2>1, <2>6, <3>1, <3>2
  <2>8. PICK t \in Takings(es, q) : CostOf(t, es) + Saved(es, m) = m * q
    BY <2>1, <2>2, <2>5, <2>6, CheapestReached
  <2>9. spent[s] = CostOf(t, es)
    <3>1. CostOf(t, es) \in Nat /\ m * q \in Nat
      BY <2>1, <2>5, <2>7, ProductsNatural
    <3>2. QED
      BY <2>1, <2>6, <2>8, <3>1
  <2>10. T \in SUBSET Nat /\ spent[s] \in T /\ \A c \in T : spent[s] <= c
    BY <2>7, <2>9
  <2> HIDE DEF T
  <2>11. Least(T) \in T /\ \A c \in T : Least(T) <= c
    BY <2>10, LeastIs
  <2>12. spent[s] = Least(T)
    <3>1. Least(T) \in Nat /\ spent[s] \in Nat
      BY <2>1, <2>10, <2>11
    <3>2. Least(T) <= spent[s] /\ spent[s] <= Least(T)
      BY <2>10, <2>11
    <3>3. QED
      BY <3>1, <3>2
  <2>13. QED
    BY <2>1, <2>12 DEF T, es, q
<1>2. IInv /\ BooksFit /\ PriceFits => LegsAreCheapest
  BY <1>1 DEF LegsAreCheapest
<1>3. Init => PriceFits
  BY DEF Init, PriceFits
<1>4. IInv /\ IInv' /\ BooksFit /\ PriceFits /\ [Next]_vars => PriceFits'
  BY StepPrices
<1>5. QED
  BY <1>2, <1>3, <1>4, Invariance, BooksAlwaysFit, PTL DEF Spec

=============================================================================
