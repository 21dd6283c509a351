---------------------------- MODULE MCPrpReporting ----------------------------
(***************************************************************************)
(* Up to four executions at two times, in any order of arrival: purchases  *)
(* and sales of A, and purchases of B that no sale of A may touch.  The    *)
(* prices make tax and fee fall between two hundredths of a won, so that   *)
(* every pairing rounds.                                                   *)
(***************************************************************************)
EXTENDS PrpReporting

CONSTANTS A, B

MCMarketPrice == <<501, 503>>

MCQuantities == [s \in {A, B} |-> IF s = A THEN [BUY |-> {2}, SELL |-> {1, 2}]
                                 ELSE [BUY |-> {1}, SELL |-> {}]]

=============================================================================
