-------------------------- MODULE TseServiceProofs --------------------------
(***************************************************************************)
(* The price arithmetic for every price of the tick ladder, where the runs *)
(* check windows of it: the next ladder prices, the limit prices, and the  *)
(* thresholds under rounding and tolerance.  Then what one call of the     *)
(* strategy engine does, for every watch list and every argument of the    *)
(* call: the lemmas that the proofs about its three environments rest on.  *)
(***************************************************************************)
EXTENDS TseService, MCPriceRules, TLAPS

-----------------------------------------------------------------------------
(* The ladder.  Within a band it is the multiples of the band's tick, and    *)
(* every change of tick is a multiple of both ticks.                         *)

tick(p) == resolve_kospi_tick_size(p)

LEMMA Bands ==
  ASSUME NEW p \in Int
  PROVE  \/ p < 1000 /\ tick(p) = 1
         \/ p >= 1000 /\ p < 5000 /\ tick(p) = 5
         \/ p >= 5000 /\ p < 10000 /\ tick(p) = 10
         \/ p >= 10000 /\ p < 50000 /\ tick(p) = 50
         \/ p >= 50000 /\ p < 100000 /\ tick(p) = 100
         \/ p >= 100000 /\ p < 500000 /\ tick(p) = 500
         \/ p >= 500000 /\ tick(p) = 1000
  BY DEF tick, resolve_kospi_tick_size

(* What being on the ladder says, band by band.                              *)
LEMMA LadderBands ==
  ASSUME NEW p \in Int
  PROVE  OnLadder(p) <=>
           \/ p > 0 /\ p < 1000
           \/ p >= 1000 /\ p < 5000 /\ p % 5 = 0
           \/ p >= 5000 /\ p < 10000 /\ p % 10 = 0
           \/ p >= 10000 /\ p < 50000 /\ p % 50 = 0
           \/ p >= 50000 /\ p < 100000 /\ p % 100 = 0
           \/ p >= 100000 /\ p < 500000 /\ p % 500 = 0
           \/ p >= 500000 /\ p % 1000 = 0
<1>1. p % 1 = 0
  OBVIOUS
<1> QED BY <1>1, Bands DEF OnLadder, tick

NextTick(p) == p - (p % tick(p)) + tick(p)

LEMMA NextTickIsNext ==
  ASSUME NEW p \in Nat, p > 0
  PROVE  /\ NextTick(p) \in (p + 1)..(p + 1000)
         /\ OnLadder(NextTick(p))
         /\ \A r \in (p + 1)..(NextTick(p) - 1) : ~OnLadder(r)
<1>1. CASE p < 1000
  BY <1>1, Bands, LadderBands DEF NextTick
<1>2. CASE p >= 1000 /\ p < 5000
  BY <1>2, Bands, LadderBands DEF NextTick
<1>3. CASE p >= 5000 /\ p < 10000
  BY <1>3, Bands, LadderBands DEF NextTick
<1>4. CASE p >= 10000 /\ p < 50000
  BY <1>4, Bands, LadderBands DEF NextTick
<1>5. CASE p >= 50000 /\ p < 100000
  BY <1>5, Bands, LadderBands DEF NextTick
<1>6. CASE p >= 100000 /\ p < 500000
  BY <1>6, Bands, LadderBands DEF NextTick
<1>7. CASE p >= 500000
  BY <1>7, Bands, LadderBands DEF NextTick
<1> QED BY <1>1, <1>2, <1>3, <1>4, <1>5, <1>6, <1>7

(* The search for the next ladder price finds it, from any price.            *)
LEMMA TickAboveIsNext ==
  ASSUME NEW p \in Nat, p > 0 PROVE TickAbove(p) = NextTick(p)
<1> DEFINE Found(q) == q \in (p + 1)..(p + 1000) /\ OnLadder(q)
                         /\ \A r \in (p + 1)..(q - 1) : ~OnLadder(r)
<1>1. Found(NextTick(p))
  BY NextTickIsNext
<1>2. ASSUME NEW q, Found(q), NEW r, Found(r) PROVE q = r
  <2>1. q \in Int /\ r \in Int /\ q >= p + 1 /\ r >= p + 1
    BY <1>2
  <2>2. ~(q < r) /\ ~(r < q)
    BY <1>2, <2>1
  <2> QED BY <2>1, <2>2
<1> HIDE DEF Found
<1>3. TickAbove(p) = CHOOSE q : Found(q)
  BY DEF TickAbove, Found
<1> QED BY <1>1, <1>2, <1>3

LEMMA TickBelowIsPrevious ==
  ASSUME NEW p \in Nat, p > 1, OnLadder(p) PROVE TickBelow(p) = p - tick(p - 1)
<1> DEFINE Found(q) == q \in (p - 1000)..(p - 1) /\ OnLadder(q)
                         /\ \A r \in (q + 1)..(p - 1) : ~OnLadder(r)
           low == p - tick(p - 1)
<1>1. Found(low)
  <2>1. CASE p <= 1000
    BY <2>1, Bands, LadderBands
  <2>2. CASE p > 1000 /\ p <= 5000
    BY <2>2, Bands, LadderBands
  <2>3. CASE p > 5000 /\ p <= 10000
    BY <2>3, Bands, LadderBands
  <2>4. CASE p > 10000 /\ p <= 50000
    BY <2>4, Bands, LadderBands
  <2>5. CASE p > 50000 /\ p <= 100000
    BY <2>5, Bands, LadderBands
  <2>6. CASE p > 100000 /\ p <= 500000
    BY <2>6, Bands, LadderBands
  <2>7. CASE p > 500000
    BY <2>7, Bands, LadderBands
  <2> QED BY <2>1, <2>2, <2>3, <2>4, <2>5, <2>6, <2>7
<1>2. ASSUME NEW q, Found(q), NEW r, Found(r) PROVE q = r
  <2>1. q \in Int /\ r \in Int /\ q <= p - 1 /\ r <= p - 1
    BY <1>2
  <2>2. ~(q < r) /\ ~(r < q)
    BY <1>2, <2>1
  <2> QED BY <2>1, <2>2
<1> HIDE DEF Found, low
<1>3. TickBelow(p) = CHOOSE q : Found(q)
  BY DEF TickBelow, Found
<1> QED BY <1>1, <1>2, <1>3 DEF low

LEMMA NeighboursOnLadder ==
  ASSUME NEW p \in Nat, OnLadder(p)
  PROVE  /\ TickAbove(p) = p + tick(p) /\ TickAbove(p) \in Nat /\ OnLadder(TickAbove(p))
         /\ p > 1 => /\ TickBelow(p) = p - tick(p - 1)
                     /\ TickBelow(p) \in Nat /\ OnLadder(TickBelow(p))
<1>1. p > 0 /\ p % tick(p) = 0
  BY DEF OnLadder, tick
<1>2. TickAbove(p) = p + tick(p)
  BY <1>1, TickAboveIsNext, Bands DEF NextTick
<1>3. TickAbove(p) \in Nat /\ OnLadder(TickAbove(p))
  BY <1>1, TickAboveIsNext, NextTickIsNext
<1>4. ASSUME p > 1 PROVE p - tick(p - 1) \in Nat /\ OnLadder(p - tick(p - 1))
  BY <1>4, Bands, LadderBands
<1> QED BY <1>2, <1>3, <1>4, TickBelowIsPrevious

-----------------------------------------------------------------------------
(* Rates: the quotient taken three digits at a time, and rounded half up, is *)
(* within half a unit of the exact one.                                      *)

LEMMA Quotient ==
  ASSUME NEW a \in Nat, NEW d \in Nat \ {0}
  PROVE  /\ a \div d \in Nat /\ a % d \in Nat /\ a % d < d
         /\ a = d * (a \div d) + (a % d)
<1>1. /\ a \div d \in Int /\ a % d \in Int /\ a % d >= 0 /\ a % d < d
      /\ a = d * (a \div d) + (a % d)
  OBVIOUS
<1>2. a \div d >= 0
  OBVIOUS
<1> QED BY <1>1, <1>2

LEMMA RateIsNearest ==
  ASSUME NEW num \in Nat, NEW den \in Nat \ {0}
  PROVE  LET r == MagnitudeRate(num, den)
         IN  /\ r \in Nat
             /\ 2 * (den * r) <= 2000000 * num + den
             /\ 2000000 * num + den < 2 * (den * r) + 2 * den
<1> DEFINE a == num \div den
           b == num % den
           c == (b * 1000) \div den
           d == (b * 1000) % den
           e == (d * 1000) \div den
           g == (d * 1000) % den
           floor == a * 1000000 + c * 1000 + e
<1>1. a \in Nat /\ b \in Nat /\ b < den /\ num = den * a + b
  BY Quotient
<1> HIDE DEF a, b
<1>2. c \in Nat /\ d \in Nat /\ d < den /\ b * 1000 = den * c + d
  BY <1>1, Quotient
<1> HIDE DEF c, d
<1>3. e \in Nat /\ g \in Nat /\ g < den /\ d * 1000 = den * e + g
  BY <1>2, Quotient
<1> HIDE DEF e, g
<1>4. /\ den * floor = 1000000 * (den * a) + 1000 * (den * c) + den * e
      /\ den * (floor + 1) = den * floor + den
  BY <1>1, <1>2, <1>3
<1>5. floor \in Nat
  BY <1>1, <1>2, <1>3
<1>6. den * a \in Nat /\ den * c \in Nat /\ den * e \in Nat /\ den * floor \in Nat
  BY <1>1, <1>2, <1>3, <1>5
<1>7. 1000000 * num = den * floor + g
  BY <1>1, <1>2, <1>3, <1>4, <1>6
<1>8. MagnitudeRate(num, den) = IF 2 * g >= den THEN floor + 1 ELSE floor
  BY DEF MagnitudeRate, a, b, c, d, e, g
<1> HIDE DEF floor
<1>9. CASE 2 * g >= den
  BY <1>3, <1>4, <1>5, <1>6, <1>7, <1>8, <1>9
<1>10. CASE 2 * g < den
  BY <1>3, <1>4, <1>5, <1>6, <1>7, <1>8, <1>10
<1> QED BY <1>3, <1>9, <1>10

(* A rate reaches a threshold exactly when the quotient is at most half a    *)
(* unit below it.                                                            *)
LEMMA RateReaches ==
  ASSUME NEW num \in Nat, NEW den \in Nat \ {0}, NEW k \in Nat
  PROVE  MagnitudeRate(num, den) >= k <=> 2000000 * num + den >= 2 * (den * k)
<1> DEFINE r == MagnitudeRate(num, den)
<1>1. /\ r \in Nat
      /\ 2 * (den * r) <= 2000000 * num + den
      /\ 2000000 * num + den < 2 * (den * r) + 2 * den
  BY RateIsNearest
<1> HIDE DEF r
<1>2. ASSUME r >= k PROVE den * r >= den * k
  <2>1. r - k \in Nat /\ den * (r - k) = den * r - den * k
    BY <1>1, <1>2
  <2>2. den * (r - k) \in Nat
    BY <2>1
  <2> QED BY <1>1, <2>1, <2>2
<1>3. ASSUME r < k PROVE den * r + den <= den * k
  <2>1. k - r - 1 \in Nat /\ den * (k - r - 1) = den * k - den * r - den
    BY <1>1, <1>3
  <2>2. den * (k - r - 1) \in Nat
    BY <2>1
  <2> QED BY <1>1, <2>1, <2>2
<1>4. den * r \in Nat /\ den * k \in Nat
  BY <1>1
<1> QED BY <1>1, <1>2, <1>3, <1>4 DEF r

(* What the two thresholds come to: a candidate from 0.99985 %, a rebound    *)
(* from 0.19985 %, in exact fractions.                                       *)
LEMMA DropThreshold ==
  ASSUME NEW b \in Nat \ {0}, NEW c \in Nat
  PROVE  should_enter_buy_candidate(calc_drop_rate(b, c)) <=> 2000000 * (b - c) >= 19997 * b
<1>1. CASE c <= b
  <2>1. b - c \in Nat /\ calc_drop_rate(b, c) = MagnitudeRate(b - c, b)
    BY <1>1 DEF calc_drop_rate, Rate
  <2>2. MagnitudeRate(b - c, b) \in Nat
    BY <2>1, RateIsNearest
  <2>3. should_enter_buy_candidate(calc_drop_rate(b, c)) <=> MagnitudeRate(b - c, b) >= 9999
    BY <2>1, <2>2 DEF should_enter_buy_candidate, ge_with_eps, DROP_THRESHOLD, EPS
  <2>4. MagnitudeRate(b - c, b) >= 9999 <=> 2000000 * (b - c) + b >= 2 * (b * 9999)
    BY <2>1, RateReaches
  <2> QED BY <1>1, <2>3, <2>4
<1>2. CASE c > b
  <2>1. c - b \in Nat /\ calc_drop_rate(b, c) = 0 - MagnitudeRate(0 - (b - c), b)
    BY <1>2 DEF calc_drop_rate, Rate
  <2>2. 0 - (b - c) = c - b
    OBVIOUS
  <2>3. MagnitudeRate(c - b, b) \in Nat
    BY <2>1, RateIsNearest
  <2>4. ~should_enter_buy_candidate(calc_drop_rate(b, c))
    BY <2>1, <2>2, <2>3 DEF should_enter_buy_candidate, ge_with_eps, DROP_THRESHOLD, EPS
  <2> QED BY <1>2, <2>4
<1> QED BY <1>1, <1>2

LEMMA ReboundThreshold ==
  ASSUME NEW b \in Nat \ {0}, NEW c \in Nat
  PROVE  should_trigger_rebound_buy(calc_rebound_rate(b, c)) <=> 2000000 * (c - b) >= 3997 * b
<1>1. CASE c >= b
  <2>1. c - b \in Nat /\ calc_rebound_rate(b, c) = MagnitudeRate(c - b, b)
    BY <1>1 DEF calc_rebound_rate, Rate
  <2>2. MagnitudeRate(c - b, b) \in Nat
    BY <2>1, RateIsNearest
  <2>3. should_trigger_rebound_buy(calc_rebound_rate(b, c)) <=> MagnitudeRate(c - b, b) >= 1999
    BY <2>1, <2>2 DEF should_trigger_rebound_buy, ge_with_eps, REBOUND_THRESHOLD, EPS
  <2>4. MagnitudeRate(c - b, b) >= 1999 <=> 2000000 * (c - b) + b >= 2 * (b * 1999)
    BY <2>1, RateReaches
  <2> QED BY <1>1, <2>3, <2>4
<1>2. CASE c < b
  <2>1. b - c \in Nat /\ calc_rebound_rate(b, c) = 0 - MagnitudeRate(0 - (c - b), b)
    BY <1>2 DEF calc_rebound_rate, Rate
  <2>2. 0 - (c - b) = b - c
    OBVIOUS
  <2>3. MagnitudeRate(b - c, b) \in Nat
    BY <2>1, RateIsNearest
  <2>4. ~should_trigger_rebound_buy(calc_rebound_rate(b, c))
    BY <2>1, <2>2, <2>3 DEF should_trigger_rebound_buy, ge_with_eps, REBOUND_THRESHOLD, EPS
  <2> QED BY <1>2, <2>4
<1> QED BY <1>1, <1>2

-----------------------------------------------------------------------------
(* Between two ladder prices the thresholds are exact.  Counted in the       *)
(* smaller of their ticks, both prices are whole numbers, and the gap that   *)
(* rounding and tolerance open holds none, up to a reference of 6,700,000    *)
(* won and a low of 1,500,000 won.  Beyond, the tolerance does decide:       *)
(* 1,504,000 after a low of 1,501,000 triggers, at 0.19987 %.                *)

LEMMA DropGapIsEmpty ==
  ASSUME NEW x \in Int, NEW y \in Int, x <= 6700, 2000000 * (x - y) >= 19997 * x
  PROVE  100 * (x - y) >= x
<1>1. CASE x - y >= 67
  BY <1>1
<1>2. CASE x - y < 67
  BY <1>2
<1> QED BY <1>1, <1>2

LEMMA ReboundGapIsEmpty ==
  ASSUME NEW x \in Int, NEW y \in Int, x <= 1500, x > 0, 2000000 * (y - x) >= 3997 * x
  PROVE  500 * (y - x) >= x
<1>1. CASE y - x >= 3
  BY <1>1
<1>2. CASE y - x < 3
  BY <1>2
<1> QED BY <1>1, <1>2

LEMMA Multiple ==
  ASSUME NEW p \in Nat, NEW t \in Nat \ {0}, p % t = 0
  PROVE  p \div t \in Nat /\ p = t * (p \div t)
  BY Quotient

LEMMA DropIsExact ==
  ASSUME NEW b \in Nat, NEW c \in Nat, OnLadder(b), OnLadder(c), b <= 6700000
  PROVE  should_enter_buy_candidate(calc_drop_rate(b, c)) <=> 100 * (b - c) >= b
<1>1. b > 0 /\ c > 0 /\ b \in Nat \ {0}
  BY DEF OnLadder
<1>2. 100 * (b - c) >= b => 2000000 * (b - c) >= 19997 * b
  OBVIOUS
<1>3. ASSUME 2000000 * (b - c) >= 19997 * b, 100 * (b - c) < b PROVE FALSE
  <2> DEFINE t == tick(c)
             x == b \div t
             y == c \div t
  <2>1. t \in {1, 5, 10, 50, 100, 500, 1000} /\ c % t = 0 /\ b % t = 0 /\ b <= 6700 * t
    BY <1>1, <1>3, Bands, LadderBands
  <2> HIDE DEF t
  <2>2. /\ x \in Nat /\ y \in Nat /\ b = t * x /\ c = t * y
    BY <2>1, Multiple
  <2> HIDE DEF x, y
  <2>3. x <= 6700 /\ 2000000 * (x - y) >= 19997 * x /\ ~(100 * (x - y) >= x)
    BY <1>3, <2>1, <2>2
  <2> QED BY <2>2, <2>3, DropGapIsEmpty
<1> QED BY <1>1, <1>2, <1>3, DropThreshold

LEMMA ReboundIsExact ==
  ASSUME NEW b \in Nat, NEW c \in Nat, OnLadder(b), OnLadder(c), b <= 1500000
  PROVE  should_trigger_rebound_buy(calc_rebound_rate(b, c)) <=> 500 * (c - b) >= b
<1>1. b > 0 /\ c > 0 /\ b \in Nat \ {0}
  BY DEF OnLadder
<1>2. 500 * (c - b) >= b => 2000000 * (c - b) >= 3997 * b
  OBVIOUS
<1>3. ASSUME 2000000 * (c - b) >= 3997 * b, 500 * (c - b) < b PROVE FALSE
  <2> DEFINE t == tick(b)
             x == b \div t
             y == c \div t
  <2>1. t \in {1, 5, 10, 50, 100, 500, 1000} /\ c % t = 0 /\ b % t = 0 /\ b <= 1500 * t
    BY <1>1, <1>3, Bands, LadderBands
  <2> HIDE DEF t
  <2>2. /\ x \in Nat /\ y \in Nat /\ b = t * x /\ c = t * y
    BY <2>1, Multiple
  <2> HIDE DEF x, y
  <2>3. x <= 1500 /\ x > 0 /\ 2000000 * (y - x) >= 3997 * x /\ ~(500 * (y - x) >= x)
    BY <1>1, <1>3, <2>1, <2>2
  <2> QED BY <2>2, <2>3, ReboundGapIsEmpty
<1> QED BY <1>1, <1>2, <1>3, ReboundThreshold

-----------------------------------------------------------------------------
(* The limit prices and the entry band.                                      *)

LEMMA BuyLimitOnLadder ==
  ASSUME NEW p \in Nat, OnLadder(p)
  PROVE  compute_buy_limit_price(p) = TickAbove(TickAbove(p))
<1>1. TickAbove(p) = p + tick(p) /\ TickAbove(p) \in Nat /\ OnLadder(TickAbove(p))
  BY NeighboursOnLadder
<1>2. TickAbove(TickAbove(p)) = TickAbove(p) + tick(TickAbove(p))
  BY <1>1, NeighboursOnLadder
<1> QED BY <1>1, <1>2 DEF compute_buy_limit_price, tick

LEMMA SellLimitOnLadder ==
  ASSUME NEW p \in Nat, OnLadder(p), p > 2 * tick(p)
  PROVE  /\ compute_sell_limit_price(p) = p - 2 * tick(p)
         /\ OnLadder(p - 2 * tick(p))
         /\ p > 3 => p - 2 * tick(p) <= TickBelow(TickBelow(p))
<1> DEFINE t == tick(p)
           q == p - 2 * t
<1>1. t \in {1, 5, 10, 50, 100, 500, 1000} /\ p % t = 0
  BY Bands DEF OnLadder, tick
<1>2. q \in Nat /\ q % t = 0
  BY <1>1
<1>3. compute_sell_limit_price(p) = q
  <2>1. compute_sell_limit_price(p) = (q \div t) * t
    BY DEF compute_sell_limit_price, align_to_tick_down, tick
  <2> HIDE DEF t, q
  <2>2. q \div t \in Nat /\ q = t * (q \div t)
    BY <1>1, <1>2, Multiple
  <2> QED BY <1>1, <2>1, <2>2
<1>4. OnLadder(q)
  BY Bands, LadderBands
<1>5. ASSUME p > 3 PROVE q <= TickBelow(TickBelow(p))
  <2>1. TickBelow(p) = p - tick(p - 1) /\ TickBelow(p) \in Nat /\ OnLadder(TickBelow(p))
    BY <1>5, NeighboursOnLadder
  <2>2. TickBelow(p) > 1 /\ tick(p - 1) <= t
    BY <1>5, <2>1, Bands
  <2>3. TickBelow(TickBelow(p)) = TickBelow(p) - tick(TickBelow(p) - 1)
    BY <2>1, <2>2, NeighboursOnLadder
  <2>4. TickBelow(p) - 1 \in Int /\ TickBelow(p) - 1 <= p
    BY <2>1, Bands
  <2> DEFINE u == TickBelow(p) - 1
  <2> HIDE DEF u
  <2>5. tick(u) <= t
    <3>1. u \in Int /\ u <= p
      BY <2>4 DEF u
    <3> QED BY <3>1, Bands
  <2>6. tick(u) \in Int /\ tick(p - 1) \in Int /\ t \in Int
    BY <2>4, Bands DEF u
  <2> HIDE DEF t
  <2>7. TickBelow(TickBelow(p)) = p - tick(p - 1) - tick(u)
    BY <2>1, <2>3 DEF u
  <2>8. p - 2 * t <= p - tick(p - 1) - tick(u)
    BY <2>2, <2>5, <2>6
  <2> QED BY <2>7, <2>8
<1> QED BY <1>3, <1>4, <1>5

(* The first ladder price from the trigger on is less than one tick above    *)
(* it, and the band is two ticks wide.                                       *)
LEMMA EntryPriceExists ==
  ASSUME NEW b \in Nat, b > 0
  PROVE  LET first == (b * 1002 + 999) \div 1000
             entry == IF OnLadder(first) THEN first ELSE TickAbove(first)
         IN  rebounds(b, entry)
<1> DEFINE trigger == b * 1002
           whole == trigger \div 1000
           first == (trigger + 999) \div 1000
           entry == IF OnLadder(first) THEN first ELSE TickAbove(first)
           t == tick(whole)
<1>1. /\ trigger \in Nat /\ whole \in Nat /\ first \in Nat /\ first > 0
      /\ 1000 * first >= trigger /\ 1000 * first < trigger + 1000
      /\ first = whole \/ first = whole + 1
  OBVIOUS
<1>2. entry \in Nat /\ entry >= first
  <2>1. \A q \in Nat : q > 0 => TickAbove(q) \in Nat /\ TickAbove(q) >= q
    <3> TAKE q \in Nat
    <3>1. q > 0 => TickAbove(q) = NextTick(q) /\ NextTick(q) \in (q + 1)..(q + 1000)
      BY TickAboveIsNext, NextTickIsNext
    <3> QED BY <3>1
  <2> HIDE DEF trigger, whole, first, t
  <2> QED BY <1>1, <2>1
<1>3. t \in Nat \ {0}
  BY <1>1, Bands
<1>4. entry < first + t
  <2>1. CASE OnLadder(first)
    BY <1>1, <1>3, <2>1
  <2>2. CASE ~OnLadder(first)
    <3>1. entry = NextTick(first)
      BY <1>1, <2>2, TickAboveIsNext
    <3> HIDE DEF whole, first, entry
    <3>2. tick(first) = t
      BY <1>1, <2>2, Bands, LadderBands
    <3>3. first % t \in Nat /\ first % t # 0
      <4>1. first % t # 0
        BY <1>1, <2>2, <3>2 DEF OnLadder, tick
      <4>2. first % t \in Nat
        BY <1>1, <1>3, Quotient
      <4> QED BY <4>1, <4>2
    <3>4. entry = first - (first % t) + t
      BY <3>1, <3>2 DEF NextTick
    <3> HIDE DEF t
    <3> QED BY <1>1, <1>3, <3>3, <3>4
  <2> QED BY <2>1, <2>2
<1> HIDE DEF whole, first, entry, t
<1>5. entry * 1000 < trigger + 2000 * t
  BY <1>1, <1>2, <1>3, <1>4
<1>6. within_rebound_entry_price_band(b, entry)
  BY <1>5 DEF within_rebound_entry_price_band, tick, t, whole
<1>7. 2000000 * (entry - b) >= 3997 * b
  BY <1>1, <1>2
<1>8. should_trigger_rebound_buy(calc_rebound_rate(b, entry))
  BY <1>2, <1>7, ReboundThreshold
<1>9. rebounds(b, entry)
  BY <1>6, <1>8 DEF rebounds
<1> QED BY <1>9 DEF entry, first

-----------------------------------------------------------------------------
(* The walk: any number of steps from a base of the windows.                 *)

HighestBase == 1005000

WalkInv ==
  /\ from_price \in Nat /\ OnLadder(from_price) /\ from_price <= HighestBase
  /\ market_price \in Nat /\ OnLadder(market_price)

LEMMA WalkStaysOnLadder == WalkSpec => []WalkInv
<1>1. WalkInit => WalkInv
  <2>1. ASSUME NEW W \in Windows, NEW p \in W
        PROVE  p \in Nat /\ p <= HighestBase
    <3>1. PICK w \in WindowBounds : W = w[1]..w[2]
      BY Zenon DEF Windows
    <3>2. w[1] \in Nat /\ w[2] \in Nat /\ w[2] <= HighestBase
      BY SMT DEF WindowBounds, HighestBase
    <3>3. HighestBase \in Nat
      BY SMT DEF HighestBase
    <3> QED BY SMT, <3>1, <3>2, <3>3
  <2>2. WalkInit => /\ \E W \in Windows : from_price \in W
                /\ OnLadder(from_price) /\ market_price = from_price
    BY Zenon DEF WalkInit
  <2>3. WalkInit => from_price \in Nat /\ from_price <= HighestBase
    BY <2>1, <2>2, Zenon
  <2> QED BY <2>2, <2>3, Zenon DEF WalkInv
<1>2. WalkInv /\ [WalkNext]_walk => WalkInv'
  <2> SUFFICES ASSUME WalkInv, [WalkNext]_walk PROVE WalkInv'
    OBVIOUS
  <2>1. CASE TickUp
    BY <2>1, NeighboursOnLadder DEF TickUp, WalkInv, OnLadder
  <2>2. CASE TickDown
    BY <2>2, NeighboursOnLadder DEF TickDown, WalkInv, OnLadder
  <2>3. CASE UNCHANGED walk
    BY <2>3 DEF walk, WalkInv, OnLadder
  <2> QED BY <2>1, <2>2, <2>3 DEF WalkNext
<1> QED BY <1>1, <1>2, PTL DEF WalkSpec

(* Every buy limit price is two ladder prices above the market, across every *)
(* change of tick (compute_buy_limit_price, opm/tick_rules.py).              *)
THEOREM BuyLimitIsTwoUp == WalkSpec => []BuyLimitIsTwoLadderStepsUp
<1>1. WalkInv => BuyLimitIsTwoLadderStepsUp
  BY BuyLimitOnLadder DEF WalkInv, BuyLimitIsTwoLadderStepsUp
<1> QED BY <1>1, WalkStaysOnLadder, PTL

(* Every sell limit price can be ordered and is marketable                   *)
(* (compute_sell_limit_price, opm/tick_rules.py).                            *)
THEOREM SellLimitIsOrderable == WalkSpec => []SellLimitIsMarketable
<1>1. WalkInv => SellLimitIsMarketable
  <2> SUFFICES ASSUME WalkInv, market_price > 2 * resolve_kospi_tick_size(market_price)
               PROVE  LET sell == compute_sell_limit_price(market_price)
                      IN  /\ OnLadder(sell)
                          /\ market_price > 3 => sell <= TickBelow(TickBelow(market_price))
                          /\ sell >= market_price - 2 * resolve_kospi_tick_size(market_price)
    BY DEF SellLimitIsMarketable
  <2>1. market_price \in Nat /\ OnLadder(market_price) /\ market_price > 2 * tick(market_price)
    BY DEF WalkInv, tick
  <2>2. /\ compute_sell_limit_price(market_price) = market_price - 2 * tick(market_price)
        /\ OnLadder(market_price - 2 * tick(market_price))
        /\ market_price > 3 => market_price - 2 * tick(market_price) <= TickBelow(TickBelow(market_price))
    BY <2>1, SellLimitOnLadder
  <2>3. tick(market_price) \in Int
    BY <2>1, Bands
  <2> QED BY <2>1, <2>2, <2>3 DEF tick
<1> QED BY <1>1, WalkStaysOnLadder, PTL

(* From the base prices of the windows, however far the price moves, a fall  *)
(* of 1 % and a rebound of 0.2 % are recognised exactly (tse/rules.py).      *)
THEOREM ThresholdsAreExact == WalkSpec => []ToleranceNeverDecides
<1>1. WalkInv => ToleranceNeverDecides
  <2> SUFFICES ASSUME WalkInv PROVE ToleranceNeverDecides
    OBVIOUS
  <2>1. from_price <= 6700000 /\ from_price <= 1500000
    BY SMT DEF WalkInv, HighestBase
  <2> QED BY <2>1, DropIsExact, ReboundIsExact DEF WalkInv, ToleranceNeverDecides
<1> QED BY <1>1, WalkStaysOnLadder, PTL

(* After any low there is an orderable price that triggers the buy           *)
(* (_is_within_rebound_entry_price_band, tse/service.py).                    *)
THEOREM LowsHaveBuyPrices == WalkSpec => []EveryLowHasABuyPrice
<1>1. WalkInv => EveryLowHasABuyPrice
  BY EntryPriceExists DEF WalkInv, OnLadder, EveryLowHasABuyPrice
<1> QED BY <1>1, WalkStaysOnLadder, PTL

-----------------------------------------------------------------------------
(* Ranks, limit prices and the queue of one candidate.                       *)

(* The rank of a watched symbol is its place in the watch list.              *)
LEMMA RankType == ASSUME NEW s \in Symbols PROVE watch_rank(s) \in DOMAIN WatchSymbols
  BY DEF watch_rank, Symbols

LEMMA RanksAreNaturals == DOMAIN WatchSymbols \subseteq Nat
<1>1. WatchSymbols \in Seq({WatchSymbols[i] : i \in DOMAIN WatchSymbols})
  BY WatchListAssumption
<1>2. DOMAIN WatchSymbols = 1..Len(WatchSymbols) /\ Len(WatchSymbols) \in Nat
  BY <1>1
<1> QED BY <1>2

(* The buy limit price lies above the price it is computed from.             *)
LEMMA BuyLimitType ==
  ASSUME NEW p \in Nat
  PROVE  compute_buy_limit_price(p) \in Nat /\ compute_buy_limit_price(p) > p
<1>1. \A q \in Nat : resolve_kospi_tick_size(q) \in Nat \ {0}
  BY DEF resolve_kospi_tick_size
<1>2. p + resolve_kospi_tick_size(p) \in Nat
  BY <1>1
<1>3. resolve_kospi_tick_size(p + resolve_kospi_tick_size(p)) \in Nat \ {0}
  BY <1>1, <1>2
<1> QED BY <1>1, <1>2, <1>3 DEF compute_buy_limit_price

(* A queue of one candidate yields that candidate.                           *)
LEMMA EarliestOfOne ==
  ASSUME NEW q, q.sym \in Symbols PROVE Earliest({Candidate(q)}) = Candidate(q)
<1> DEFINE c == Candidate(q)
<1>1. c.rank \in Nat
  BY RankType, RanksAreNaturals DEF Candidate
<1>2. Before(c, c)
  BY <1>1 DEF Before
<1>3. Earliest({c}) \in {c}
  BY <1>2 DEF Earliest
<1> QED BY <1>3

-----------------------------------------------------------------------------
(* The engine between two calls.                                             *)

Portfolios == [state : PortfolioStates, gate_open : BOOLEAN,
               active_symbol : Symbols \cup {NoSymbol},
               min_profit_locked : BOOLEAN, sell_signaled : BOOLEAN]

EngineInv ==
  /\ state \in [Symbols -> SymbolStates]
  /\ reference_price \in [Symbols -> Nat]
  /\ tracked_low \in [Symbols -> Nat]
  /\ portfolio \in Portfolios
  /\ heap = {}
  /\ buy_entry_blocked_by_degraded \in BOOLEAN
  /\ command_sequence \in Nat

(* A new engine has an open gate, and nothing is blocked or waiting.         *)
LEMMA FreshEngine == ASSUME NEW date, FreshContext(date) PROVE EngineInv
  BY DEF FreshContext, EngineInv, Portfolios, NewPortfolio, PortfolioStates, SymbolStates,
         NoPrice

(* A quote never touches the degraded block, and while it is set, no quote   *)
(* is turned into a command (on_quote).                                      *)
LEMMA BlockedQuoteBuysNothing ==
  ASSUME NEW q, on_quote(q)
  PROVE  /\ UNCHANGED buy_entry_blocked_by_degraded
         /\ buy_entry_blocked_by_degraded => UNCHANGED command_sequence
         /\ command_sequence' \in {command_sequence, command_sequence + 1}
<1>1. CASE IgnoreQuote(q)
  BY <1>1 DEF IgnoreQuote
<1>2. CASE CaptureReference(q)
  BY <1>2 DEF CaptureReference
<1>3. CASE SkipEvaluation(q)
  BY <1>3 DEF SkipEvaluation
<1>4. CASE EvaluateQuote(q)
  BY <1>4 DEF EvaluateQuote, FlushBuyCandidate
<1> QED BY <1>1, <1>2, <1>3, <1>4 DEF on_quote

(* What one call of on_quote can do when no candidate is waiting: nothing    *)
(* that matters to the gate, or buy the symbol of the quote, which must not  *)
(* be barred and needs an open gate.                                         *)
Buys(q) ==
  /\ q.sym \in Symbols
  /\ Accepted(q)
  /\ GateOpen
  /\ state[q.sym] # "BUY_BLOCKED"
  /\ portfolio' = [portfolio EXCEPT !.gate_open = FALSE,
                                    !.state = "BUY_REQUESTED",
                                    !.active_symbol = q.sym]
  /\ output' = <<BuyCommand(Candidate(q))>>
  /\ command_sequence' = command_sequence + 1

BuysNothing == output' = <<>> /\ UNCHANGED <<portfolio, command_sequence>>

LEMMA EngineQuote ==
  ASSUME EngineInv, NEW q, q.price \in Nat, on_quote(q)
  PROVE  /\ EngineInv'
         /\ Buys(q) \/ BuysNothing
         /\ trading_date' = trading_date
         /\ \A s \in Symbols : state[s] = "BUY_BLOCKED" => state'[s] = "BUY_BLOCKED"
<1> USE DEF EngineInv, symbolVars, BuysNothing
<1>1. CASE IgnoreQuote(q)
  BY <1>1 DEF IgnoreQuote
<1>2. CASE CaptureReference(q)
  BY <1>2 DEF CaptureReference, Accepted, SymbolStates
<1>3. CASE SkipEvaluation(q)
  BY <1>3 DEF SkipEvaluation
<1>4. CASE EvaluateQuote(q)
  <2>1. q.sym \in Symbols /\ Accepted(q) /\ state[q.sym] # "BUY_BLOCKED" /\ GateOpen
    BY <1>4 DEF EvaluateQuote, Accepted
  <2>2. states_after(q) \in [Symbols -> SymbolStates]
    BY <2>1 DEF states_after, SymbolStates
  <2>3. low_after(q) \in Nat
    BY <2>1 DEF low_after
  <2>4. tracked_low' \in [Symbols -> Nat]
    BY <1>4, <2>1, <2>3 DEF EvaluateQuote
  <2>5. UNCHANGED <<trading_date, reference_price, buy_entry_blocked_by_degraded>>
    BY <1>4 DEF EvaluateQuote
  <2>6. \A s \in Symbols : state[s] = "BUY_BLOCKED" =>
                             s # q.sym /\ states_after(q)[s] = "BUY_BLOCKED"
    BY <2>1 DEF states_after
  <2>7. CASE triggered(q)
    <3> DEFINE c == Candidate(q)
    <3>2. FlushBuyCandidate({c}, states_after(q))
      BY <1>4, <2>7 DEF EvaluateQuote
    <3>3. Earliest({c}) = c
      BY <2>1, EarliestOfOne
    <3>4. c.sym = q.sym
      BY DEF Candidate
    <3>5. states_after(q)[q.sym] = "BUY_CANDIDATE"
      BY <2>1, <2>7 DEF triggered, states_after
    <3>6. /\ heap' = {d \in {c} : d # c}
          /\ state' = [states_after(q) EXCEPT ![q.sym] = "BUY_TRIGGERED"]
          /\ Buys(q)
      BY <3>2, <3>3, <3>4, <3>5, <2>1 DEF FlushBuyCandidate, pop_next, Buys
    <3>7. state' \in [Symbols -> SymbolStates]
      BY <3>6, <2>2, <2>1 DEF SymbolStates
    <3>8. \A s \in Symbols : state[s] = "BUY_BLOCKED" => state'[s] = "BUY_BLOCKED"
      BY <3>6, <2>2, <2>6
    <3>9. portfolio' \in Portfolios
      BY <3>6, <2>1 DEF Buys, Portfolios, PortfolioStates
    <3>10. command_sequence' \in Nat /\ heap' = {}
      BY <3>6 DEF Buys
    <3> QED BY <3>6, <3>7, <3>8, <3>9, <3>10, <2>4, <2>5
  <2>8. CASE ~triggered(q)
    <3>1. FlushBuyCandidate({}, states_after(q))
      BY <1>4, <2>8 DEF EvaluateQuote
    <3>2. heap' = {} /\ state' = states_after(q) /\ BuysNothing
      BY <3>1 DEF FlushBuyCandidate, pop_next
    <3> QED BY <3>2, <2>2, <2>4, <2>5, <2>6
  <2> QED BY <2>7, <2>8
<1> QED BY <1>1, <1>2, <1>3, <1>4 DEF on_quote

(* The possible effects of one position report.                              *)
Sells(e) ==
  /\ ~portfolio.sell_signaled
  /\ portfolio'.sell_signaled
  /\ output' = <<SellCommand(e)>>
  /\ command_sequence' = command_sequence + 1

SellsNothing ==
  /\ output' = <<>>
  /\ command_sequence' = command_sequence
  /\ portfolio'.sell_signaled = portfolio.sell_signaled

LEMMA EngineReport ==
  ASSUME EngineInv, NEW e, e.state \in DOMAIN PortfolioStateOf, on_position_update(e)
  PROVE  /\ EngineInv'
         /\ UNCHANGED <<trading_date, symbolVars, heap, buy_entry_blocked_by_degraded>>
         /\ Sells(e) \/ SellsNothing
         /\ IF Concerns(e)
            THEN /\ portfolio'.state = PortfolioStateOf[e.state]
                 /\ portfolio'.gate_open = (e.state = "BUY_FAILED" \/ portfolio.gate_open)
                 /\ portfolio'.active_symbol =
                      IF e.state = "BUY_FAILED" THEN NoSymbol ELSE portfolio.active_symbol
                 /\ portfolio'.min_profit_locked =
                      (portfolio.min_profit_locked \/ should_lock_min_profit(e.rate))
                 /\ Sells(e) => portfolio'.min_profit_locked
            ELSE portfolio' = portfolio /\ output' = <<>>
<1> DEFINE failed == e.state = "BUY_FAILED"
           locked == portfolio.min_profit_locked \/ should_lock_min_profit(e.rate)
           sells_ == /\ ~portfolio.sell_signaled
                     /\ should_emit_sell_signal(locked, e.rate, e.maxRate)
<1>1. portfolio \in Portfolios /\ command_sequence \in Nat
  BY DEF EngineInv
<1>2. PortfolioStateOf[e.state] \in PortfolioStates
  BY DEF PortfolioStateOf, PortfolioStates
<1>3. CASE IgnorePosition(e)
  BY <1>3, <1>1 DEF IgnorePosition, symbolVars, SellsNothing, EngineInv
<1>4. CASE ApplyPosition(e)
  <2>1. Concerns(e)
    BY <1>4 DEF ApplyPosition
  <2>2. portfolio' = [state |-> PortfolioStateOf[e.state],
                      gate_open |-> failed \/ portfolio.gate_open,
                      active_symbol |-> IF failed THEN NoSymbol ELSE portfolio.active_symbol,
                      min_profit_locked |-> locked,
                      sell_signaled |-> sells_ \/ portfolio.sell_signaled]
    BY <1>4 DEF ApplyPosition, signals_sell, locked_by
  <2>3. /\ (failed \/ portfolio.gate_open) \in BOOLEAN
        /\ locked \in BOOLEAN
        /\ (sells_ \/ portfolio.sell_signaled) \in BOOLEAN
        /\ (IF failed THEN NoSymbol ELSE portfolio.active_symbol) \in Symbols \cup {NoSymbol}
    BY <1>1 DEF Portfolios
  <2>4. portfolio' \in Portfolios
    BY <1>2, <2>2, <2>3 DEF Portfolios
  <2>5. /\ output' = IF sells_ THEN <<SellCommand(e)>> ELSE <<>>
        /\ command_sequence' = IF sells_ THEN command_sequence + 1 ELSE command_sequence
        /\ portfolio'.sell_signaled = (sells_ \/ portfolio.sell_signaled)
    BY <1>4, <2>2 DEF ApplyPosition, signals_sell, locked_by
  <2>6. Sells(e) \/ SellsNothing
    <3>1. CASE sells_
      BY <2>5, <3>1 DEF Sells
    <3>2. CASE ~sells_
      BY <1>1, <2>5, <3>2 DEF SellsNothing, Portfolios
    <3> QED BY <3>1, <3>2
  <2>7. UNCHANGED <<trading_date, symbolVars, heap, buy_entry_blocked_by_degraded>>
    BY <1>4 DEF ApplyPosition
  <2>8. /\ portfolio'.state = PortfolioStateOf[e.state]
        /\ portfolio'.gate_open = (failed \/ portfolio.gate_open)
        /\ portfolio'.active_symbol = IF failed THEN NoSymbol ELSE portfolio.active_symbol
        /\ portfolio'.min_profit_locked = locked
    BY <2>2
  <2>9. Sells(e) => portfolio'.min_profit_locked
    <3>1. Sells(e) => sells_
      BY <2>5 DEF Sells
    <3>2. sells_ => locked
      BY DEF should_emit_sell_signal
    <3> QED BY <2>2, <3>1, <3>2
  <2>10. command_sequence' \in Nat
    BY <1>1, <2>5
  <2>11. EngineInv'
    BY <2>4, <2>7, <2>10 DEF EngineInv, symbolVars
  <2> QED BY <2>1, <2>6, <2>7, <2>8, <2>9, <2>11
<1> QED BY <1>3, <1>4 DEF on_position_update

=============================================================================
