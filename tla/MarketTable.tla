------------------------------ MODULE MarketTable ------------------------------
(***************************************************************************)
(* What a market refresh promises the scan and the console, without pages, *)
(* transactions and failures: the loaded markets are exchanged as a whole, *)
(* each of them has its row in the markets table by then, and no row ever  *)
(* goes away.  Scanner and Discovery, which cut a refresh into different   *)
(* steps, both implement it.                                               *)
(***************************************************************************)

CONSTANT Market   \* market ids

VARIABLES
    loaded,  \* the ids of the loaded markets
    rows     \* the ids in the markets table

vars == <<loaded, rows>>

Init == loaded = {} /\ rows = {}

(* Rows are written, also by a refresh that fails in the end. *)
Record(ms) == rows' = rows \cup ms /\ UNCHANGED loaded

Exchange(ms) == loaded' = ms /\ rows' = rows \cup ms

Next == \E ms \in SUBSET Market : Record(ms) \/ Exchange(ms)

Spec == Init /\ [][Next]_vars

=============================================================================
