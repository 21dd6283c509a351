-------------------------- MODULE MCQuoteMonitoring --------------------------
(***************************************************************************)
(* Two watched symbols, the code's thresholds of three failures and two    *)
(* successes.  The prices of A capture a reference, fall by one percent    *)
(* and rebound into a buy, or are missing; B only succeeds or fails.       *)
(***************************************************************************)
EXTENDS QuoteMonitoring

CONSTANTS A, B

MCWatchSymbols == <<A, B>>

MCPollPrices == [s \in {A, B} |-> IF s = A THEN {NoPrice, 990, 992, 1000} ELSE {1000}]

=============================================================================
