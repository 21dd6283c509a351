----------------------------- MODULE MCUagEngine -----------------------------
(***************************************************************************)
(* Two watched symbols and the prices of one story: a reference of 1000, a *)
(* fall to 990, a rebound to 992 that buys at 994, a profit of more than   *)
(* one percent at 1005 and its loss at 1000.                               *)
(***************************************************************************)
EXTENDS UagEngine

CONSTANTS A, B

MCWatchSymbols == <<A, B>>

MCQuotePrices == [s \in {A, B} |-> IF s = A THEN {990, 992, 1005}
                                  ELSE {990, 992}]

=============================================================================
