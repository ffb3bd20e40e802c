------------------------------ MODULE QuoteFeed ------------------------------
(***************************************************************************)
(* Where the two books of a market come from (src/app/runtime.py): the     *)
(* batch that the book coroutine fetches replaces all books, the web       *)
(* socket puts single ones into the same dictionary at any await, and the  *)
(* scan reads the pair at one await and judges it at another.              *)
(*                                                                         *)
(* A book is told apart by its version only; its age counts what passed    *)
(* since the exchange held it.                                             *)
(***************************************************************************)
EXTENDS Naturals, Sequences

CONSTANTS
    MaxVersion,  \* bound: how often a book changes
    MaxWire,     \* bound: how many books are under way on the connection
    MaxAge,      \* max_quote_age_seconds
    NoBook

Side    == {"yes", "no"}
Version == 0 .. MaxVersion
Age     == 0 .. MaxAge + 1   \* the last stands for anything above
Book    == [version: Version, age: Age]

ASSUME FeedAssumption ==
    /\ MaxVersion \in Nat /\ MaxWire \in Nat /\ MaxAge \in Nat
    /\ NoBook \notin Version /\ NoBook \notin Book

VARIABLES
    clob,       \* the books at the exchange
    connected,  \* the web socket is open and subscribed
    wire,       \* books pushed and not yet handled
    books,      \* ScannerRuntime.books
    batch,      \* the answer to the request for both books
    loop,       \* where the book coroutine is
    pair,       \* the books the scan has read
    computed,   \* the entry of new_results
    shown,      \* the entry of ScannerRuntime.results
    together    \* history: the pairs that were in `books` at one time

exchange == <<clob, connected, wire>>
results  == <<computed, shown>>
vars     == <<exchange, books, batch, loop, pair, results, together>>

NoPair == [s \in Side |-> NoBook]
Pairs  == [Side -> Book \cup {NoBook}]

Versions(p) == [s \in Side |-> IF p[s] = NoBook THEN NoBook ELSE p[s].version]
Complete(p) == \A s \in Side : p[s] # NoBook

NoResult == [of |-> NoPair, age |-> 0, valid |-> FALSE]

-----------------------------------------------------------------------------
Init ==
    /\ clob = [s \in Side |-> 0] /\ connected = FALSE /\ wire = <<>>
    /\ books = NoPair /\ batch = NoPair /\ loop = "waiting"
    /\ pair = NoPair /\ computed = NoResult /\ shown = NoResult
    /\ together = {Versions(NoPair)}

Hold(b) == books' = b /\ together' = together \cup {Versions(b)}

(* The exchange moves on; it may push the whole book or, as price_change,    *)
(* something the runtime does not read.                                      *)
Change(s, pushed) ==
    /\ clob[s] < MaxVersion
    /\ clob' = [clob EXCEPT ![s] = @ + 1]
    /\ IF pushed
         THEN /\ connected /\ Len(wire) < MaxWire
              /\ wire' = Append(wire, [side |-> s, book |-> [version |-> clob[s] + 1, age |-> 0]])
         ELSE UNCHANGED wire
    /\ UNCHANGED <<connected, books, batch, loop, pair, results, together>>

Connect ==
    /\ ~connected /\ connected' = TRUE
    /\ UNCHANGED <<clob, wire, books, batch, loop, pair, results, together>>

(* What was under way when the connection broke is lost. *)
Disconnect ==
    /\ connected /\ connected' = FALSE /\ wire' = <<>>
    /\ UNCHANGED <<clob, books, batch, loop, pair, results, together>>

(* handle_websocket *)
BookPushed ==
    /\ wire # <<>> /\ wire' = Tail(wire)
    /\ Hold([books EXCEPT ![Head(wire).side] = Head(wire).book])
    /\ UNCHANGED <<clob, connected, batch, loop, pair, results>>

Older(p) == [s \in Side |-> IF p[s] = NoBook \/ p[s].age > MaxAge THEN p[s]
                            ELSE [p[s] EXCEPT !.age = @ + 1]]

(* A unit of time passes for every book that is not at the exchange.         *)
Tick ==
    /\ books' = Older(books) /\ batch' = Older(batch) /\ pair' = Older(pair)
    /\ wire' = [i \in DOMAIN wire |-> [wire[i] EXCEPT !.book.age = IF @ > MaxAge THEN @ ELSE @ + 1]]
    /\ UNCHANGED <<clob, connected, loop, results, together>>

-----------------------------------------------------------------------------
AskBooks ==
    /\ loop = "waiting" /\ loop' = "asked"
    /\ UNCHANGED <<exchange, books, batch, pair, results, together>>

(* The exchange reads both books for its answer.  (An answer without one of  *)
(* them is the business of Scanner.)                                         *)
BatchTaken ==
    /\ loop = "asked" /\ loop' = "answered"
    /\ batch' = [s \in Side |-> [version |-> clob[s], age |-> 0]]
    /\ UNCHANGED <<exchange, books, pair, results, together>>

(* Mutant of Replace: the batch fills in what is missing. *)
FillIn(b) == [s \in Side |-> IF books[s] = NoBook THEN b[s] ELSE books[s]]

Replace(b) == b

(* The batch arrives and replaces every book, pushed ones included; the      *)
(* markets before this one in the dictionary come first.                     *)
BooksFetched ==
    /\ loop = "answered" /\ loop' = "scanning"
    /\ Hold(Replace(batch))
    /\ batch' = NoPair
    /\ UNCHANGED <<exchange, pair, results>>

(* Mutant of BooksFailed: nobody catches the exception of the request. *)
BooksFailedForGood ==
    /\ loop \in {"asked", "answered"} /\ loop' = "dead" /\ batch' = NoPair
    /\ UNCHANGED <<exchange, books, pair, results, together>>

BooksFailed ==
    /\ loop \in {"asked", "answered"} /\ loop' = "waiting" /\ batch' = NoPair
    /\ UNCHANGED <<exchange, books, pair, results, together>>

(* The code leaves quote_age at its default. *)
QuoteAge == 0

Larger(a, b) == IF a < b THEN b ELSE a

(* The pair is calculated and judged; the age is that of its older book.     *)
Judged(p) ==
    [of |-> Versions(p), age |-> Larger(p["yes"].age, p["no"].age), valid |-> QuoteAge <= MaxAge]

(* This market is reached.  Its fee is on the listing or has to be asked for.*)
ReadPair(listed) ==
    /\ loop = "scanning" /\ Complete(books)
    /\ IF listed
         THEN loop' = "assessed" /\ computed' = Judged(books) /\ UNCHANGED pair
         ELSE loop' = "fee" /\ pair' = books /\ UNCHANGED computed
    /\ UNCHANGED <<exchange, books, batch, shown, together>>

(* Mutant of Assessed: the book of No is read again after the lookup. *)
ReadAgain(p) == [p EXCEPT !["no"] = books["no"]]

Assessed(p) == p

FeeAnswered ==
    /\ loop = "fee" /\ loop' = "assessed"
    /\ computed' = Judged(Assessed(pair)) /\ pair' = NoPair
    /\ UNCHANGED <<exchange, books, batch, shown, together>>

(* The scan is over and its results replace the old ones. *)
Publish ==
    /\ loop = "assessed" /\ loop' = "waiting"
    /\ shown' = computed /\ computed' = NoResult
    /\ UNCHANGED <<exchange, books, batch, pair, together>>

BookLoop ==
    \/ AskBooks \/ BatchTaken \/ BooksFetched
    \/ \E listed \in BOOLEAN : ReadPair(listed)
    \/ FeeAnswered \/ Publish

Next ==
    \/ \E s \in Side, pushed \in BOOLEAN : Change(s, pushed)
    \/ Connect \/ Disconnect \/ BookPushed \/ Tick
    \/ BookLoop \/ BooksFailed

(* The coroutine goes on, pushed books are handled, and not every batch      *)
(* fails.                                                                    *)
Spec ==
    /\ Init /\ [][Next]_vars
    /\ WF_vars(BookLoop) /\ SF_vars(BatchTaken) /\ SF_vars(BooksFetched) /\ WF_vars(BookPushed)

-----------------------------------------------------------------------------
Result == [of: [Side -> Version \cup {NoBook}], age: Age, valid: BOOLEAN]

TypeOK ==
    /\ clob \in [Side -> Version] /\ connected \in BOOLEAN
    /\ wire \in Seq([side: Side, book: Book])
    /\ books \in Pairs /\ batch \in Pairs /\ pair \in Pairs
    /\ loop \in {"waiting", "asked", "answered", "scanning", "fee", "assessed"}
    /\ computed \in Result /\ shown \in Result
    /\ together \subseteq [Side -> Version \cup {NoBook}]

(* A result is about two books that were in the dictionary at one time:      *)
(* neither a push nor an await comes between the reading of the two legs.    *)
NoTornPair ==
    /\ shown.of \in together
    /\ computed.of \in together

(* Once the exchange stands still, the books held and the result shown are   *)
(* those of the exchange for good: an old batch, a late push or a broken     *)
(* connection is made up for by a later batch.                               *)
Converges ==
    <>[](/\ Versions(books) = clob
         /\ shown.of = clob)

(* Stale quotes cannot become valid opportunities (docs/CALCULATION.md).     *)
StaleIsRefused == shown.valid => shown.age <= MaxAge

=============================================================================
