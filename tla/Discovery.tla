------------------------------ MODULE Discovery ------------------------------
(***************************************************************************)
(* One market refresh after another: the pages of Gamma's listing are      *)
(* collected (src/app/clients/gamma_client.py), every raw market is        *)
(* normalised (market_discovery.py) and stored (database.py), and the      *)
(* result replaces the loaded markets (runtime.py).                        *)
(***************************************************************************)
EXTENDS Integers, Sequences

CONSTANTS
    Id, Condition, Token,
    Item,       \* the raw markets Gamma may send
    Listed,     \* those a fixed listing is made of
    Pages,      \* the pages of a Gamma that keeps to no listing, of any length
    Cursors,    \* and where it says the next one begins
    Maximum,    \* max_markets
    PageLimit,  \* the most a request asks for (100)
    MaxListing, \* bound: how many markets the exchange lists
    None

(* Labels of outcomes; casefold tells yes from no. *)
Label == {"Yes", "YES", "No", "Up"}

Fold(l) == CASE l \in {"Yes", "YES"} -> "yes" [] l = "No" -> "no" [] OTHER -> "other"

(* `open` stands for the flags and identifiers normalize_market asks for.    *)
RawMarket == [id: Id, condition: Condition, outcomes: Seq(Label), tokens: Seq(Token),
              open: BOOLEAN, liquid: BOOLEAN]

ASSUME DiscoveryAssumption ==
    /\ Item \subseteq RawMarket /\ Listed \subseteq Item
    /\ Pages \subseteq Seq(Item) /\ Cursors \subseteq Nat
    /\ Maximum \in Nat \ {0} /\ PageLimit \in Nat \ {0} /\ MaxListing \in Nat
    /\ None \notin Token /\ None \notin Nat

VARIABLES
    phase,      \* no refresh under way, fetching pages, or storing what came
    honest,     \* whether Gamma answers this refresh from a fixed listing
    listing,    \* that listing
    collected,  \* fetch_markets: what has been collected
    cursor,     \* and where the next page begins (None: no cursor yet)
    todo,       \* the raw markets not yet looked at
    next_markets, markets,  \* the dictionaries by market id
    stored,     \* the table markets with market_tokens: a row by id
    gamma_status

fetched == <<honest, listing, collected, cursor>>
vars    == <<phase, fetched, todo, next_markets, markets, stored, gamma_status>>

Row    == [condition: Condition, tokens: [Label -> Token \cup {None}]]
Market == [id: Id, condition: Condition, outcomes: [1 .. 2 -> Label], tokens: [1 .. 2 -> Token],
           yes: Token, no: Token]

IsDict(f, R) ==
    DOMAIN f \subseteq Id /\ f = [i \in DOMAIN f |-> f[i]] /\ \A i \in DOMAIN f : f[i] \in R

NoMarkets == [i \in {} |-> None]

Smaller(a, b) == IF a < b THEN a ELSE b

-----------------------------------------------------------------------------
(* normalize_market accepts a pair of outcomes labelled yes and no, each     *)
(* with a token; what else it refuses is skipped as well.                    *)
Normal(raw) ==
    /\ Len(raw.outcomes) = 2 /\ Len(raw.tokens) = 2
    /\ {Fold(raw.outcomes[1]), Fold(raw.outcomes[2])} = {"yes", "no"}
    /\ raw.open

(* Mutant of YesAt: the first token is taken for Yes. *)
FirstIsYes(raw) == 1

(* Where the outcome Yes is listed. *)
YesAt(raw) == IF Fold(raw.outcomes[1]) = "yes" THEN 1 ELSE 2

Normalised(raw) ==
    [id |-> raw.id, condition |-> raw.condition, outcomes |-> raw.outcomes,
     tokens |-> raw.tokens, yes |-> raw.tokens[YesAt(raw)], no |-> raw.tokens[3 - YesAt(raw)]]

With(f, i, x) == [j \in DOMAIN f \cup {i} |-> IF j = i THEN x ELSE f[j]]

(* The row of a market after upsert_market: a row that exists keeps its      *)
(* condition and the tokens of other labels; labels tell the tokens apart.   *)
Stored(m) ==
    LET old == IF m.id \in DOMAIN stored THEN stored[m.id]
               ELSE [condition |-> m.condition, tokens |-> [l \in Label |-> None]]
    IN  [old EXCEPT !.tokens = [l \in Label |-> IF l = m.outcomes[1] THEN m.tokens[1]
                                               ELSE IF l = m.outcomes[2] THEN m.tokens[2]
                                               ELSE old.tokens[l]]]

(* The unique columns condition_id and token_id. *)
Unique(table) ==
    /\ \A i, j \in DOMAIN table : table[i].condition = table[j].condition => i = j
    /\ \A i, j \in DOMAIN table : \A l, k \in Label :
           table[i].tokens[l] = table[j].tokens[k] /\ table[i].tokens[l] # None
               => i = j /\ l = k

-----------------------------------------------------------------------------
Init ==
    /\ phase = "idle"
    /\ honest = FALSE /\ listing = <<>> /\ collected = <<>> /\ cursor = None
    /\ todo = <<>>
    /\ next_markets = NoMarkets /\ markets = NoMarkets /\ stored = NoMarkets
    /\ gamma_status = "unchecked"

Refresh(h, ls) ==
    /\ phase = "idle" /\ phase' = "fetching"
    /\ honest' = h /\ listing' = ls /\ collected' = <<>> /\ cursor' = None
    /\ UNCHANGED <<todo, next_markets, markets, stored, gamma_status>>

Limit == Smaller(PageLimit, Maximum - Len(collected))

(* What an answer holds: dictionaries, and where the next page begins. *)
HonestAnswer ==
    LET from == IF cursor = None THEN 0 ELSE cursor
        to   == Smaller(Len(listing), from + Limit)
    IN  [page |-> SubSeq(listing, from + 1, to),
         next |-> IF to < Len(listing) THEN to ELSE None]

(* Any other answer: an empty page or one longer than was asked for, with a  *)
(* cursor that was used before, any other or none.                           *)
OtherAnswers == [page: Pages, next: Cursors \cup {None}]

Answers == IF honest THEN {HonestAnswer} ELSE OtherAnswers

(* Mutant of LastPage: an empty page with a cursor is followed.              *)
NoCursorLeft(a) == a.next = None

LastPage(a) == a.page = <<>> \/ a.next = None

(* Mutant of NextCursor: the cursor is not moved. *)
SameCursor(a) == cursor

NextCursor(a) == a.next

(* Mutant of Kept: the surplus is kept. *)
AllOf(s) == s

Kept(s) == SubSeq(s, 1, Smaller(Maximum, Len(s)))

(* One request of fetch_markets, and what the loop makes of its answer.      *)
PageAnswered(a) ==
    /\ phase = "fetching"
    /\ LET got == collected \o a.page IN
         IF LastPage(a) \/ Len(got) >= Maximum
         THEN /\ phase' = "storing" /\ collected' = Kept(got) /\ todo' = Kept(got)
              /\ cursor' = None /\ next_markets' = NoMarkets
         ELSE /\ collected' = got /\ cursor' = NextCursor(a)
              /\ UNCHANGED <<phase, todo, next_markets>>
    /\ UNCHANGED <<honest, listing, markets, stored, gamma_status>>

(* The except clause of refresh_markets. *)
Failed ==
    /\ phase' = "idle" /\ gamma_status' = "error"
    /\ todo' = <<>> /\ next_markets' = NoMarkets
    /\ collected' = <<>> /\ cursor' = None /\ listing' = <<>> /\ honest' = FALSE

(* The request fails for good, or the payload is not of the expected shape.  *)
FetchFails ==
    /\ phase = "fetching" /\ Failed
    /\ UNCHANGED <<markets, stored>>

Skip ==
    /\ phase = "storing" /\ todo # <<>>
    /\ ~(Normal(Head(todo)) /\ Head(todo).liquid)
    /\ todo' = Tail(todo)
    /\ UNCHANGED <<phase, fetched, next_markets, markets, stored, gamma_status>>

Scannable == phase = "storing" /\ todo # <<>> /\ Normal(Head(todo)) /\ Head(todo).liquid

Store ==
    /\ Scannable
    /\ LET m == Normalised(Head(todo)) IN
         /\ Unique(With(stored, m.id, Stored(m)))
         /\ stored' = With(stored, m.id, Stored(m))
         /\ next_markets' = With(next_markets, m.id, m)
    /\ todo' = Tail(todo)
    /\ UNCHANGED <<phase, fetched, markets, gamma_status>>

(* Mutant of StoreFails: one market that cannot be stored is passed over. *)
PassOver ==
    /\ Scannable
    /\ next_markets' = With(next_markets, Head(todo).id, Normalised(Head(todo)))
    /\ todo' = Tail(todo)
    /\ UNCHANGED <<phase, fetched, markets, stored, gamma_status>>

(* The transaction is refused: a unique column clashes, in the end or while  *)
(* the rows are updated one after another, or the database is locked.        *)
StoreFails ==
    /\ Scannable /\ Failed
    /\ UNCHANGED <<markets, stored>>

(* normalize_market raises something else than that it skips the market (a   *)
(* field is of a type Market refuses), or the liquidity cannot be compared:  *)
(* one such market ends the refresh, stored or not.                          *)
NormaliseFails ==
    /\ phase = "storing" /\ todo # <<>> /\ Failed
    /\ UNCHANGED <<markets, stored>>

(* The markets are exchanged; logging that may still fail, which only the    *)
(* status tells.                                                             *)
Install ==
    /\ phase = "storing" /\ todo = <<>>
    /\ phase' = "idle" /\ markets' = next_markets /\ gamma_status' \in {"ok", "error"}
    /\ next_markets' = NoMarkets
    /\ collected' = <<>> /\ cursor' = None /\ listing' = <<>> /\ honest' = FALSE
    /\ UNCHANGED <<todo, stored>>

Listings == UNION {[1 .. n -> Listed] : n \in 0 .. MaxListing}

RefreshStep ==
    \/ \E a \in Answers : PageAnswered(a)
    \/ FetchFails \/ Skip \/ Store \/ StoreFails \/ NormaliseFails \/ Install

Next ==
    \/ \E ls \in Listings : Refresh(TRUE, ls)
    \/ Refresh(FALSE, <<>>)
    \/ RefreshStep

(* Every request ends (HttpClient), and the loop over the answers runs.      *)
Spec == Init /\ [][Next]_vars /\ WF_vars(RefreshStep)

-----------------------------------------------------------------------------
TypeOK ==
    /\ phase \in {"idle", "fetching", "storing"} /\ honest \in BOOLEAN
    /\ listing \in Seq(Item) /\ collected \in Seq(Item) /\ cursor \in Nat \cup {None}
    /\ todo \in Seq(Item) /\ Len(collected) <= Maximum
    /\ IsDict(next_markets, Market) /\ IsDict(markets, Market) /\ IsDict(stored, Row)
    /\ gamma_status \in {"unchecked", "ok", "error"}

(* While Gamma answers from a fixed listing, fetch_markets collects exactly  *)
(* its first max_markets entries, in order, none twice and none left out,    *)
(* however the pages fall.                                                   *)
FirstOfListing(n) == SubSeq(listing, 1, n)

CollectedIsFirst ==
    honest => /\ collected = FirstOfListing(Len(collected))
              /\ phase = "storing" => Len(collected) = Smaller(Maximum, Len(listing))

(* The two legs of all loaded markets are different tokens: no book is ever  *)
(* taken for two of them.  Nothing checks a listing for it but the unique    *)
(* columns of a table that the loaded markets are never read from.           *)
LegsAreDistinct ==
    \A i, j \in DOMAIN markets :
        /\ markets[i].yes # markets[i].no
        /\ i # j => {markets[i].yes, markets[i].no} \cap {markets[j].yes, markets[j].no} = {}

(* After a refresh that went through, the row of every loaded market holds   *)
(* for its outcome Yes (No) the very token whose book the scan reads as yes  *)
(* (no), whichever way the exchange ordered, relabelled or repeated it.      *)
StoredTokenIsRead ==
    phase = "idle" /\ gamma_status = "ok" =>
        \A i \in DOMAIN markets : \A l \in {markets[i].outcomes[1], markets[i].outcomes[2]} :
            /\ Fold(l) = "yes" => stored[i].tokens[l] = markets[i].yes
            /\ Fold(l) = "no"  => stored[i].tokens[l] = markets[i].no

(* However Gamma answers, with repeated cursors or empty pages, a refresh    *)
(* ends; the next one waits for it.                                          *)
RefreshEnds == phase # "idle" ~> phase = "idle"

=============================================================================
