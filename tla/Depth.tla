-------------------------------- MODULE Depth --------------------------------
(***************************************************************************)
(* One assessment of a market: the asks of its two books are normalised    *)
(* (src/app/services/orderbooks.py), walked twice (depth_calculator.py),   *)
(* charged with fees and buffers (fees.py) and judged (scanner.py).        *)
(*                                                                         *)
(* The code calculates in Decimal.  Here every number is an integer: a     *)
(* price counts steps of 1/One dollar, a size counts lots, and money       *)
(* counts price steps of one lot, so that cost and settlement are exact as *)
(* they are in the code.  What the code rounds is rounded here in the same *)
(* places and ways.  The precision of the average price (28 digits) is     *)
(* taken as exact.                                                         *)
(***************************************************************************)
EXTENDS Integers, Sequences

CONSTANTS
    One,          \* the price of one dollar, in price steps
    MoneyQuantum, \* one millionth of a dollar, and ...
    FeeQuantum,   \* ... a hundred thousandth, in units of money
    RateBase,     \* the denominator of all rates
    Entries,      \* the raw levels a book may list
    MaxEntries,   \* bound: how many a side lists
    Targets,      \* default_quantity
    FeeRates,     \* fee rates, in parts of RateBase
    NoRate,       \* the fee is unknown
    Slippage, Safety,               \* the buffers' rates
    MinQuantity, MinProfit, MinRoi  \* the thresholds of the rule layer

Price == 0 .. One
Side  == {"yes", "no"}

(* A raw level that does not parse is dropped like one out of range.         *)
Entry == [price: Nat, size: Nat]

ASSUME DepthAssumption ==
    /\ One \in Nat \ {0} /\ MoneyQuantum \in Nat \ {0} /\ FeeQuantum \in Nat \ {0}
    /\ RateBase \in Nat \ {0}
    /\ Entries \subseteq Entry /\ MaxEntries \in [Side -> Nat]
    /\ Targets \subseteq Nat \ {0}
    /\ FeeRates \subseteq Nat /\ NoRate \notin Nat
    /\ Slippage \in Nat /\ Safety \in Nat
    /\ MinQuantity \in Nat /\ MinProfit \in Nat /\ MinRoi \in Nat

VARIABLES
    stage,      \* read the books, measure them, fill the common quantity, judge
    side,       \* the book that is being read or walked
    entries,    \* history: the raw levels of each book
    asks,       \* the normalised asks: the size on offer at each price
    target, rate,
    at, filled, cost,  \* _walk: the lowest price not yet visited, and its sums
    available,  \* how much of the target each side could fill
    executable,
    fill, spent,       \* what the second walk filled and paid on each side
    result,     \* status, net (as computed) and net_profit (as returned)
    accepted    \* the verdict of is_valid_opportunity

books   == <<entries, asks>>
walk    == <<at, filled, cost>>
outcome == <<result, accepted>>
vars    == <<stage, side, books, target, rate, walk, available, executable, fill,
             spent, outcome>>

-----------------------------------------------------------------------------
Least(S) == CHOOSE x \in S : \A y \in S : x <= y

(* ROUND_HALF_UP of the quotient a/b of naturals. *)
HalfUp(a, b) == (2 * a + b) \div (2 * b)

(* ROUND_HALF_EVEN, the default of quantize, of the quotient a/b.            *)
HalfEven(a, b) ==
    LET q == a \div b
        r == a % b
    IN  IF 2 * r < b \/ (2 * r = b /\ q % 2 = 0) THEN q ELSE q + 1

(* A level counts with a price from nothing to one dollar and a positive size.*)
Usable(e) == e.price \in Price /\ e.size > 0

(* Mutant of Merge: the range of the price is not checked. *)
MergeAnyPrice(book, e) ==
    [p \in Price \cup {e.price} |->
        (IF p \in DOMAIN book THEN book[p] ELSE 0) + (IF p = e.price THEN e.size ELSE 0)]

Merge(book, e) ==
    IF Usable(e) THEN [book EXCEPT ![e.price] = @ + e.size] ELSE book

(* Mutant of IsNext: the levels are not sorted. *)
IsAnyLevel(p) == p >= at /\ asks[side][p] > 0

(* The levels are visited from the lowest price upward. *)
IsNext(p) ==
    /\ p >= at /\ asks[side][p] > 0
    /\ \A r \in Price : r >= at /\ r < p => asks[side][r] = 0

NoAsks(s) == \A p \in Price : asks[s][p] = 0

(* Mutant of TakerFee: a fee on the whole cost, not on price times (1-price).*)
FeeOnCost(s) == FeeQuantum * HalfUp(rate * spent[s], RateBase * FeeQuantum)

(* taker_fee: shares x rate x price x (1 - price) of the average price of a  *)
(* side, spent[s] / (One * fill[s]).                                         *)
TakerFee(s) ==
    FeeQuantum * HalfUp(executable * rate * spent[s] * (One * fill[s] - spent[s]),
                        RateBase * One * fill[s] * fill[s] * FeeQuantum)

Total == spent["yes"] + spent["no"]
Gross == One * executable - Total

Buffer(r) == MoneyQuantum * HalfUp(Total * r, RateBase * MoneyQuantum)

NetProfit(net) == MoneyQuantum * HalfEven(net, MoneyQuantum)

Status ==
    IF NoAsks("yes") \/ NoAsks("no") THEN "NO_ASKS"
    ELSE IF rate = NoRate THEN "FEE_UNKNOWN"
    ELSE IF executable = 0 THEN "NO_LIQUIDITY"
    ELSE IF executable < target THEN "PARTIAL" ELSE "VALID"

(* There is a net result if the fee is known and both sides have a price.    *)
HasNet == rate # NoRate /\ fill["yes"] > 0 /\ fill["no"] > 0

Net == Gross - (TakerFee("yes") + TakerFee("no")) - Buffer(Slippage) - Buffer(Safety)

NoResult == [status |-> "none", has_net |-> FALSE, net |-> 0, net_profit |-> 0]

Calculated ==
    IF HasNet
    THEN [status |-> Status, has_net |-> TRUE, net |-> Net, net_profit |-> NetProfit(Net)]
    ELSE [status |-> Status, has_net |-> FALSE, net |-> 0, net_profit |-> 0]

(* Mutant of RoiEnough: the ratio of the rounded figures. *)
RoundedRoiEnough(r) == Total > 0 /\ r.net_profit * RateBase >= MinRoi * Total

(* net_roi is the ratio before rounding, and there is none without a cost.   *)
RoiEnough(r) == Total > 0 /\ r.net * RateBase >= MinRoi * Total

IsValid(r) ==
    /\ r.status = "VALID"
    /\ executable >= MinQuantity
    /\ r.has_net /\ r.net_profit >= MinProfit
    /\ RoiEnough(r)

-----------------------------------------------------------------------------
Init ==
    /\ stage = "read" /\ side = "yes"
    /\ entries = [s \in Side |-> <<>>]
    /\ asks = [s \in Side |-> [p \in Price |-> 0]]
    /\ target \in Targets /\ rate \in FeeRates \cup {NoRate}
    /\ at = 0 /\ filled = 0 /\ cost = 0
    /\ available = [s \in Side |-> 0] /\ executable = 0
    /\ fill = [s \in Side |-> 0] /\ spent = [s \in Side |-> 0]
    /\ result = NoResult /\ accepted = FALSE

(* _levels: the loop over the raw asks of one book. *)
ReadEntry(e) ==
    /\ stage = "read" /\ Len(entries[side]) < MaxEntries[side]
    /\ entries' = [entries EXCEPT ![side] = Append(@, e)]
    /\ asks' = [asks EXCEPT ![side] = Merge(@, e)]
    /\ UNCHANGED <<stage, side, target, rate, walk, available, executable, fill, spent,
                   outcome>>

BookRead ==
    /\ stage = "read"
    /\ IF side = "yes" THEN side' = "no" /\ UNCHANGED stage
                       ELSE side' = "yes" /\ stage' = "measure"
    /\ UNCHANGED <<books, target, rate, walk, available, executable, fill, spent, outcome>>

(* What _walk was asked for. *)
Quantity == IF stage = "measure" THEN target ELSE executable

TakeLevel(p) ==
    /\ stage \in {"measure", "fill"} /\ filled < Quantity /\ IsNext(p)
    /\ LET take == Least({asks[side][p], Quantity - filled}) IN
         filled' = filled + take /\ cost' = cost + take * p
    /\ at' = p + 1
    /\ UNCHANGED <<stage, side, books, target, rate, available, executable, fill, spent,
                   outcome>>

(* _walk returns: the quantity is filled, or the book is exhausted. *)
WalkOver ==
    /\ stage \in {"measure", "fill"}
    /\ filled >= Quantity \/ \A p \in Price : ~IsNext(p)
    /\ at' = 0 /\ filled' = 0 /\ cost' = 0

(* Mutant of Executable: the deeper book decides. *)
LargerSide(a) == Least({target, a[IF a["yes"] < a["no"] THEN "no" ELSE "yes"]})

Executable(a) == Least({target, a["yes"], a["no"]})

Measured ==
    /\ stage = "measure" /\ WalkOver
    /\ available' = [available EXCEPT ![side] = filled]
    /\ IF side = "yes"
         THEN side' = "no" /\ UNCHANGED <<stage, executable>>
         ELSE side' = "yes" /\ stage' = "fill" /\ executable' = Executable(available')
    /\ UNCHANGED <<books, target, rate, fill, spent, outcome>>

Filled ==
    /\ stage = "fill" /\ WalkOver
    /\ fill' = [fill EXCEPT ![side] = filled]
    /\ spent' = [spent EXCEPT ![side] = cost]
    /\ IF side = "yes" THEN side' = "no" /\ UNCHANGED stage
                       ELSE side' = "yes" /\ stage' = "judge"
    /\ UNCHANGED <<books, target, rate, available, executable, outcome>>

(* The rest of calculate_depth, and is_valid_opportunity on its result.      *)
Judge ==
    /\ stage = "judge"
    /\ stage' = "done"
    /\ result' = Calculated
    /\ accepted' = IsValid(Calculated)
    /\ UNCHANGED <<side, books, target, rate, walk, available, executable, fill, spent>>

Next ==
    \/ \E e \in Entries : ReadEntry(e)
    \/ BookRead
    \/ \E p \in Price : TakeLevel(p)
    \/ Measured \/ Filled \/ Judge

Spec == Init /\ [][Next]_vars

-----------------------------------------------------------------------------
TypeOK ==
    /\ stage \in {"read", "measure", "fill", "judge", "done"} /\ side \in Side
    /\ entries \in [Side -> Seq(Entries)] /\ asks \in [Side -> [Price -> Nat]]
    /\ target \in Targets /\ rate \in FeeRates \cup {NoRate}
    /\ at \in 0 .. One + 1 /\ filled \in Nat /\ cost \in Nat
    /\ available \in [Side -> Nat] /\ executable \in Nat
    /\ fill \in [Side -> Nat] /\ spent \in [Side -> Nat]
    /\ result \in [status: {"none", "NO_ASKS", "FEE_UNKNOWN", "PARTIAL", "VALID"},
                   has_net: BOOLEAN, net: Int, net_profit: Int]
    /\ accepted \in BOOLEAN

(* The reference: ways to take q lots from the raw levels of a book.         *)
SumOf(f) ==
    LET sum[n \in 0 .. Len(f)] == IF n = 0 THEN 0 ELSE sum[n - 1] + f[n]
    IN  sum[Len(f)]

Offered(es) == [i \in DOMAIN es |-> IF Usable(es[i]) THEN es[i].size ELSE 0]

Takings(es, q) ==
    {t \in [DOMAIN es -> 0 .. q] : (\A i \in DOMAIN es : t[i] <= Offered(es)[i]) /\ SumOf(t) = q}

CostOf(t, es) == SumOf([i \in DOMAIN es |-> t[i] * es[i].price])

(* Both legs are filled with the very same quantity, and neither could have  *)
(* been filled cheaper: what the two walks over merged, sorted levels pay is *)
(* the least cost over every way to take that quantity from the raw levels.  *)
LegsAreCheapest ==
    stage = "done" => \A s \in Side :
        /\ fill[s] = executable
        /\ spent[s] = Least({CostOf(t, entries[s]) : t \in Takings(entries[s], executable)})

(* The quantity is the largest both raw books can fill up to the target, and *)
(* the status tells exactly what docs/CALCULATION.md tells apart: a pair is  *)
(* VALID if and only if the fee is known and both sides fill the target, and *)
(* then it has a net result.  The status NO_LIQUIDITY never occurs.          *)
StatusIsDocumented ==
    stage = "done" =>
        LET depth == [s \in Side |-> SumOf(Offered(entries[s]))] IN
        /\ executable = Least({target, depth["yes"], depth["no"]})
        /\ result.status = "VALID" <=> rate # NoRate /\ executable = target
        /\ result.status = "PARTIAL" <=> rate # NoRate /\ executable \in 1 .. target - 1
        /\ result.status = "NO_ASKS" <=> executable = 0
        /\ result.has_net <=> result.status \in {"VALID", "PARTIAL"}

(* net_profit is the documented formula but for rounding: two fees, two      *)
(* buffers and the result itself, each by at most half of its quantum.  Both *)
(* sides are multiplied by the denominator of the exact fees and buffers.    *)
Scale == RateBase * One * executable

ExactFee(s) == rate * spent[s] * (One * executable - spent[s])

ExactNet ==
    Scale * Gross - ExactFee("yes") - ExactFee("no")
        - One * executable * Total * (Slippage + Safety)

NetIsDocumented ==
    stage = "done" /\ result.has_net =>
        /\ 2 * (Scale * result.net_profit - ExactNet) <= Scale * (2 * FeeQuantum + 3 * MoneyQuantum)
        /\ 2 * (ExactNet - Scale * result.net_profit) <= Scale * (2 * FeeQuantum + 3 * MoneyQuantum)

(* An accepted opportunity settles for at least what it cost with the fees   *)
(* as charged, although the profit was rounded before it was compared with   *)
(* the minimum, which may be zero: the ROI is compared unrounded.            *)
AcceptedNeverLoses ==
    accepted => /\ rate # NoRate
                /\ Total + TakerFee("yes") + TakerFee("no") <= One * executable

=============================================================================
