----------------------------- MODULE DailyTrade -----------------------------
(***************************************************************************)
(* What the strategy promises of a trading day, seen from the order        *)
(* manager and without prices, quotes or reports: one symbol is bought; a  *)
(* buy that fails lets another be tried; the position is offered for sale  *)
(* once, and a sale that fails is not tried again.                         *)
(***************************************************************************)
CONSTANT Symbols

VARIABLES phase,   \* symbol -> where its trade of the day is
          sold     \* the SELL of the day was issued

Phases == {"none", "pending", "open", "exiting", "closed"}

Init ==
  /\ phase = [s \in Symbols |-> "none"]
  /\ sold = FALSE

Moves(s, from, to) ==
  /\ phase[s] = from
  /\ phase' = [phase EXCEPT ![s] = to]

Buy(s) ==
  /\ \A t \in Symbols : phase[t] = "none"
  /\ Moves(s, "none", "pending")
  /\ UNCHANGED sold

BuySettles(s) ==
  /\ \E to \in {"open", "none"} : Moves(s, "pending", to)
  /\ UNCHANGED sold

Sell(s) ==
  /\ ~sold
  /\ Moves(s, "open", "exiting")
  /\ sold' = TRUE

SellSettles(s) ==
  /\ \E to \in {"open", "closed"} : Moves(s, "exiting", to)
  /\ UNCHANGED sold

NewDay ==
  /\ phase' = [s \in Symbols |-> "none"]
  /\ sold' = FALSE

Next ==
  \/ \E s \in Symbols : Buy(s) \/ BuySettles(s) \/ Sell(s) \/ SellSettles(s)
  \/ NewDay

Spec == Init /\ [][Next]_<<phase, sold>>

=============================================================================
