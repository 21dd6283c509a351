----------------------------- MODULE PriceRules -----------------------------
(***************************************************************************)
(* The pure price arithmetic of the trading system: the KOSPI tick ladder  *)
(* and limit prices of opm/tick_rules.py and the strategy thresholds of    *)
(* tse/rules.py, in exact integer arithmetic.                              *)
(*                                                                         *)
(* Prices are whole won.  A rate is an integer in units of 0.0001 percent, *)
(* the quantum PCT_Q every rate of the code is rounded to; 1.0 % is 10000. *)
(* Python's None price is NoPrice: every stored price is positive.         *)
(***************************************************************************)
EXTENDS Integers

NoPrice == 0

DROP_THRESHOLD     == 10000     \* 1.0 %
REBOUND_THRESHOLD  == 2000      \* 0.2 %
MIN_PROFIT_LOCK    == 10000     \* 1.0 %
PROFIT_PRESERVATION_SELL == 800000   \* 80.0 %
EPS_too_wide == 100             \* faulty variant: a tolerance of 0.01 %
EPS == 1                        \* 0.0001 %

-----------------------------------------------------------------------------
(* Rates: (num / den) * 100 rounded half up to four decimals of a percent.   *)
(* Half up of Decimal rounds a tie away from zero.  The quotient is taken    *)
(* three decimal digits at a time to keep every product small.               *)

MagnitudeRate(num, den) ==
  LET thousandths == (num % den) * 1000
      millionths  == (thousandths % den) * 1000
      floor == (num \div den) * 1000000 + (thousandths \div den) * 1000
                 + (millionths \div den)
  IN  IF 2 * (millionths % den) >= den THEN floor + 1 ELSE floor

Rate(num, den) ==
  IF num >= 0 THEN MagnitudeRate(num, den) ELSE 0 - MagnitudeRate(0 - num, den)

calc_drop_rate(base, current) == Rate(base - current, base)

calc_rebound_rate(low, current) == Rate(current - low, low)

calc_profit_rate(buy, target) == Rate(target - buy, buy)

calc_profit_preservation_rate(currentRate, maxRate) == Rate(currentRate, maxRate)

-----------------------------------------------------------------------------
(* The decisions, each compared with the tolerance EPS.                      *)

ge_with_eps(left, right) == left >= right - EPS

le_with_eps(left, right) == left <= right + EPS

should_enter_buy_candidate(dropRate) == ge_with_eps(dropRate, DROP_THRESHOLD)

should_trigger_rebound_buy(reboundRate) == ge_with_eps(reboundRate, REBOUND_THRESHOLD)

\* Faulty variant: any profit at all is locked.
should_lock_any_profit(profitRate) == ge_with_eps(profitRate, 0)

should_lock_min_profit(profitRate) == ge_with_eps(profitRate, MIN_PROFIT_LOCK)

should_emit_sell_signal(locked, currentRate, maxRate) ==
  /\ locked
  /\ maxRate > 0
  /\ le_with_eps(calc_profit_preservation_rate(currentRate, maxRate),
                 PROFIT_PRESERVATION_SELL)

-----------------------------------------------------------------------------
(* The tick ladder and the limit prices computed on it.                      *)

resolve_kospi_tick_size(price) ==
  CASE price < 1000   -> 1
    [] price >= 1000   /\ price < 5000   -> 5
    [] price >= 5000   /\ price < 10000  -> 10
    [] price >= 10000  /\ price < 50000  -> 50
    [] price >= 50000  /\ price < 100000 -> 100
    [] price >= 100000 /\ price < 500000 -> 500
    [] price >= 500000 -> 1000

align_to_tick_down(price, tick) == (price \div tick) * tick

\* Faulty variant: one tick instead of two.
compute_sell_limit_price_one_tick(current) ==
  LET tick == resolve_kospi_tick_size(current)
  IN  align_to_tick_down(current - tick, tick)

\* The code raises OPM_INVALID_SELL_PRICE unless the result is positive.
compute_sell_limit_price(current) ==
  LET tick == resolve_kospi_tick_size(current)
  IN  align_to_tick_down(current - 2 * tick, tick)

\* Faulty variant: both ticks of the size that holds at the market price.
compute_buy_limit_price_same_band(current) == current + 2 * resolve_kospi_tick_size(current)

\* Two ticks up, each of the size that holds where the step starts.
compute_buy_limit_price(current) ==
  LET first == current + resolve_kospi_tick_size(current)
  IN  first + resolve_kospi_tick_size(first)

\* Faulty variant: the ticks of the low's band instead of the trigger price's.
within_entry_band_of_low(low, current) ==
  current * 1000 < low * 1002 + 2000 * resolve_kospi_tick_size(low)

\* current < low * 1.002 + 2 ticks, in thousandths of a won.  The tick is that
\* of the unrounded trigger price; the ladder's bounds are whole won, so its
\* whole part decides.
within_rebound_entry_price_band(low, current) ==
  LET trigger == low * 1002
      tick == resolve_kospi_tick_size(trigger \div 1000)
  IN  current * 1000 < trigger + 2000 * tick

\* A quote of `current` after a tracked low of `low` raises a buy candidate.
rebounds(low, current) ==
  /\ should_trigger_rebound_buy(calc_rebound_rate(low, current))
  /\ within_rebound_entry_price_band(low, current)

=============================================================================
