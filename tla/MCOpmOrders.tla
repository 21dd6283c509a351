----------------------------- MODULE MCOpmOrders -----------------------------
(***************************************************************************)
(* A buy of three shares, executed in pieces at two prices whose average   *)
(* does not divide evenly, and a sale of one of them, reported in any      *)
(* order.                                                                  *)
(***************************************************************************)
EXTENDS OpmOrders

CONSTANTS buy, sell

MCSideOf == [o \in Orders |-> IF o = buy THEN "BUY" ELSE "SELL"]

MCFillPrices == [o \in Orders |-> IF o = buy THEN {10, 11} ELSE {10}]

MCRequestedQty == [o \in Orders |-> IF o = buy THEN 3 ELSE 1]

=============================================================================
