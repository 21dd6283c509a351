---------------------------- MODULE MCTradingDay ----------------------------
(***************************************************************************)
(* Two watched symbols and the prices of one story of the strategy: a      *)
(* reference of 1000, a fall of one percent to 990, a deeper low of 985    *)
(* and the rebounds 992 and 987 above each.                                *)
(***************************************************************************)
EXTENDS TradingDay

CONSTANTS A, B, C

MCWatchSymbols == <<A, B>>

=============================================================================
