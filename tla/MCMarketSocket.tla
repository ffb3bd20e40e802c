---------------------------- MODULE MCMarketSocket ----------------------------
(* Small instances of the market web socket for TLC. *)
EXTENDS MarketSocket, TLC
=============================================================================
