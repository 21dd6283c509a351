----------------------------- MODULE MCKiaClient -----------------------------
(***************************************************************************)
(* One thread polls quotes, the other asks for charts or submits orders;   *)
(* two calls, of which the orders carry one client order id, so that an    *)
(* order is repeated under its key.                                        *)
(***************************************************************************)
EXTENDS KiaClient, TLC

CONSTANTS T1, T2

MCKeys == {1}
MCServices == (T1 :> {"quote"}) @@ (T2 :> {"chart", "order"})

=============================================================================
