---------------------------- MODULE MCMarketRead ----------------------------
(* Two timeframes over a market of two prices that is sometimes quiet. *)
EXTENDS MarketRead

MCFrames == <<2, 3>>
MCPast == <<1, 2, 1, 2>>
=============================================================================
