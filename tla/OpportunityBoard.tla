---------------------------- MODULE OpportunityBoard --------------------------
(***************************************************************************)
(* What the scanner promises its console, without its tasks, requests and  *)
(* failures: a board of results that is exchanged as a whole, the number   *)
(* of opportunities on it, and a ledger, of which nothing is ever lost,    *)
(* that an opportunity enters before it is shown and only with a known     *)
(* fee.                                                                    *)
(***************************************************************************)
EXTENDS Integers, FiniteSets

CONSTANTS
    Market,       \* what a result is about
    Result,       \* the results the calculator computes
    Opportunity,  \* the results the rule layer accepts
    FeeKnown,     \* the results computed with a known fee
    NoResult      \* nothing is shown for a market

VARIABLES
    shown,   \* the published results
    count,   \* the published number of opportunities
    ledger   \* the <<market, result>> pairs the opportunities table vouches for

vars == <<shown, count, ledger>>

Opportunities(board) == {m \in Market : board[m] \in Opportunity}

Init ==
    /\ shown = [m \in Market |-> NoResult]
    /\ count = 0
    /\ ledger = {}

Record(m, r) ==
    /\ ledger' = ledger \cup {<<m, r>>}
    /\ UNCHANGED <<shown, count>>

Publish ==
    /\ shown' \in [Market -> Result \cup {NoResult}]
    /\ count' = Cardinality(Opportunities(shown'))
    /\ UNCHANGED ledger
    /\ \A m \in Opportunities(shown') : <<m, shown'[m]>> \in ledger

Next ==
    \/ Publish
    \/ \E m \in Market, r \in Opportunity \cap FeeKnown : Record(m, r)

Spec == Init /\ [][Next]_vars

=============================================================================
