---------------------------- MODULE MCPriceRules ----------------------------
(***************************************************************************)
(* Walks the tick ladder: `from_price` is any of its prices in the chosen  *)
(* windows (each surrounds a change of tick), `market_price` then moves    *)
(* tick by tick away from it.  The properties compare the decisions of     *)
(* PriceRules with reference definitions on exact fractions and on the     *)
(* ladder itself.                                                          *)
(***************************************************************************)
EXTENDS PriceRules

CONSTANT MaxTicks    \* number of ladder steps `market_price` may move from `from_price`

\* One window of prices around every change of tick, and two inside a band.
WindowBounds == { <<80, 130>>, <<940, 1060>>, <<2000, 2040>>, <<4850, 5100>>,
                  <<9850, 10100>>, <<49000, 50500>>, <<98000, 102000>>,
                  <<495000, 506000>>, <<990000, 1005000>> }

Windows == { w[1]..w[2] : w \in WindowBounds }

VARIABLES from_price, market_price, ticks_moved

walk == <<from_price, market_price, ticks_moved>>

OnLadder(p) == p > 0 /\ p % resolve_kospi_tick_size(p) = 0

\* The next ladder price above and below, by search.
TickAbove(p) == CHOOSE q \in (p + 1)..(p + 1000) :
                  OnLadder(q) /\ \A r \in (p + 1)..(q - 1) : ~OnLadder(r)
TickBelow(p) == CHOOSE q \in (p - 1000)..(p - 1) :
                  OnLadder(q) /\ \A r \in (q + 1)..(p - 1) : ~OnLadder(r)

WalkInit == /\ from_price \in {p \in UNION Windows : OnLadder(p)}
            /\ market_price = from_price
            /\ ticks_moved = 0

TickUp == /\ ticks_moved < MaxTicks /\ market_price >= from_price
          /\ market_price' = TickAbove(market_price)
          /\ ticks_moved' = ticks_moved + 1
          /\ UNCHANGED from_price

TickDown == /\ ticks_moved < MaxTicks /\ market_price <= from_price /\ market_price > 1
            /\ market_price' = TickBelow(market_price)
            /\ ticks_moved' = ticks_moved + 1
            /\ UNCHANGED from_price

WalkNext == TickUp \/ TickDown

WalkSpec == WalkInit /\ [][WalkNext]_walk

-----------------------------------------------------------------------------
(* The buy limit price is exactly two ladder prices above the market, also   *)
(* where the two ticks straddle a change of tick size                        *)
(* (compute_buy_limit_price, opm/tick_rules.py).                             *)
BuyLimitIsTwoLadderStepsUp ==
  compute_buy_limit_price(market_price) = TickAbove(TickAbove(market_price))

(* The sell limit price is an orderable price, at least two ladder prices    *)
(* below the market: the order is marketable, and never further away than    *)
(* two ticks of the market's own band (compute_sell_limit_price).            *)
SellLimitIsMarketable ==
  market_price > 2 * resolve_kospi_tick_size(market_price) =>
    LET sell == compute_sell_limit_price(market_price)
    IN  /\ OnLadder(sell)
        /\ market_price > 3 => sell <= TickBelow(TickBelow(market_price))
        /\ sell >= market_price - 2 * resolve_kospi_tick_size(market_price)

(* Neither the rounding to four decimals nor the tolerance EPS moves a       *)
(* decision between two orderable prices: a candidate is entered exactly     *)
(* from a fall of 1 % and a rebound triggers exactly from 0.2 %              *)
(* (should_enter_buy_candidate, should_trigger_rebound_buy).                 *)
ToleranceNeverDecides ==
  /\ should_enter_buy_candidate(calc_drop_rate(from_price, market_price))
       <=> 100 * (from_price - market_price) >= from_price
  /\ should_trigger_rebound_buy(calc_rebound_rate(from_price, market_price))
       <=> 500 * (market_price - from_price) >= from_price

(* The two-tick band above the rebound trigger is never empty on the ladder: *)
(* after any tracked low there is an orderable price that triggers the buy,  *)
(* so a candidate can never be stuck between "not yet" and "too late"        *)
(* (_is_within_rebound_entry_price_band, tse/service.py).                    *)
EveryLowHasABuyPrice ==
  LET first == (from_price * 1002 + 999) \div 1000
      entry == IF OnLadder(first) THEN first ELSE TickAbove(first)
  IN  rebounds(from_price, entry)

=============================================================================
