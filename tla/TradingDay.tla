----------------------------- MODULE TradingDay -----------------------------
(***************************************************************************)
(* The strategy engine of TseService in its trading day: quotes arrive in  *)
(* any order, and the order manager reports what became of the orders the  *)
(* engine asked for.                                                       *)
(*                                                                         *)
(* `position` is the order manager's view of each symbol.  A command of    *)
(* the engine reaches it at once; a report of any state it has been in     *)
(* reaches the engine at any later time: late, repeatedly, after reports   *)
(* of later states, or never.  The reports are in the vocabulary of        *)
(* PositionUpdateEvent (src/tse/models.py).                                *)
(***************************************************************************)
EXTENDS TseService

CONSTANTS Days, Times, Prices, Rates,   \* the inputs
          UnwatchedSymbol, MaxSequence

ASSUME InputAssumption ==
  /\ Days \subseteq Nat /\ 0 \in Days
  /\ Times \subseteq Nat
  /\ Prices \subseteq Nat
  /\ Rates \subseteq Int
  /\ MaxSequence \in Nat
  /\ UnwatchedSymbol \notin Symbols

VARIABLES position,   \* symbol -> what the order manager knows of it today
          sells       \* symbol -> SELL commands received for it today

vars == <<tseVars, position, sells>>

PositionStates == {"none", "pending", "failed", "open", "exiting", "closed"}

Live == {"pending", "open", "exiting", "closed"}

Quotes == [date : Days, at : Times, sym : Symbols \cup {UnwatchedSymbol},
           price : Prices, seq : 1..MaxSequence]

Init ==
  /\ FreshContext(0)
  /\ position = [s \in Symbols |-> "none"]
  /\ sells = [s \in Symbols |-> 0]

-----------------------------------------------------------------------------
(* What the order manager receives from the call that just returned.         *)

ReceiveCommands ==
  IF output' = <<>>
  THEN UNCHANGED <<position, sells>>
  ELSE LET cmd == output'[1]
       IN  IF cmd.side = "BUY"
           THEN /\ position' = [position EXCEPT ![cmd.sym] = "pending"]
                /\ UNCHANGED sells
           ELSE /\ position' = [position EXCEPT ![cmd.sym] = "exiting"]
                /\ sells' = [sells EXCEPT ![cmd.sym] = @ + 1]

Quote == \E q \in Quotes : on_quote(q) /\ ReceiveCommands

\* The report of a position: its state, and profit rates that only an open
\* position has.  A sell that is under way still reports profit rates.
ReportState(st) ==
  CASE st = "pending" -> "BUY_REQUESTED"
    [] st = "failed"  -> "BUY_FAILED"
    [] st = "open"    -> "LONG_OPEN"
    [] st = "exiting" -> "SELL_REQUESTED"
    [] st = "closed"  -> "CLOSED"

Reports(s, date, st) ==
  [date : {date}, at : Times, sym : {s}, state : {ReportState(st)}, price : Prices \ {0},
   rate : IF st \in {"open", "exiting"} THEN Rates ELSE {0},
   maxRate : {r \in Rates : r >= 0}]

\* The states a position has been in today; a buy that failed was never filled.
Passed(s) ==
  {st \in PositionStates \ {"none"} :
     \/ st = position[s]
     \/ st = "pending" /\ position[s] # "none"
     \/ st = "open" /\ position[s] \in {"exiting", "closed"}
     \/ st = "exiting" /\ sells[s] > 0}

\* A report of today: of the position as it is, or a stale one of an earlier
\* state that was delayed, repeated or overtaken.
Report(s) ==
  \E st \in Passed(s) : \E e \in Reports(s, trading_date, st) :
    /\ e.maxRate >= e.rate
    /\ on_position_update(e)
    /\ ReceiveCommands

\* A report of an earlier day, delivered after the day changed.
LateReport(s) ==
  \E date \in Days, st \in {"failed", "open", "closed"} :
    /\ date < trading_date
    /\ \E e \in Reports(s, date, st) : on_position_update(e) /\ ReceiveCommands

\* External: the broker settles the orders.
BuyFills(s) == /\ position[s] = "pending"
               /\ position' = [position EXCEPT ![s] = "open"]
               /\ UNCHANGED <<tseVars, sells>>

BuyFails(s) == /\ position[s] = "pending"
               /\ position' = [position EXCEPT ![s] = "failed"]
               /\ UNCHANGED <<tseVars, sells>>

SellFills(s) == /\ position[s] = "exiting"
                /\ position' = [position EXCEPT ![s] = "closed"]
                /\ UNCHANGED <<tseVars, sells>>

SellFails(s) == /\ position[s] = "exiting"
                /\ position' = [position EXCEPT ![s] = "open"]
                /\ UNCHANGED <<tseVars, sells>>

FeedDegrades == /\ \E b \in BOOLEAN : set_buy_entry_blocked_by_degraded(b)
                /\ UNCHANGED <<position, sells>>

NewDay ==
  /\ trading_date + 1 \in Days
  /\ on_day_changed(trading_date + 1)
  /\ position' = [s \in Symbols |-> "none"]
  /\ sells' = [s \in Symbols |-> 0]

Next ==
  \/ Quote
  \/ \E s \in Symbols : \/ Report(s) \/ LateReport(s)
                        \/ BuyFills(s) \/ BuyFails(s)
                        \/ SellFills(s) \/ SellFails(s)
  \/ FeedDegrades
  \/ NewDay

Spec == Init /\ [][Next]_vars

-----------------------------------------------------------------------------
(* Types.                                                                    *)

Candidates == [at : Nat, seq : Nat, rank : DOMAIN WatchSymbols,
               sym : Symbols, price : Nat]

Commands == [side : {"BUY", "SELL"}, sym : Symbols, at : Nat, price : Nat, id : Nat]

TypeOK ==
  /\ trading_date \in Days
  /\ state \in [Symbols -> SymbolStates]
  /\ reference_price \in [Symbols -> Nat]
  /\ tracked_low \in [Symbols -> Nat]
  /\ portfolio \in [state : PortfolioStates, gate_open : BOOLEAN,
                    active_symbol : Symbols \cup {NoSymbol},
                    min_profit_locked : BOOLEAN, sell_signaled : BOOLEAN]
  /\ heap \subseteq Candidates
  /\ buy_entry_blocked_by_degraded \in BOOLEAN
  /\ command_sequence \in Nat
  /\ output \in Seq(Commands) /\ Len(output) <= 1
  /\ position \in [Symbols -> PositionStates]
  /\ sells \in [Symbols -> Nat]

-----------------------------------------------------------------------------
(* Safety.                                                                   *)

(* FR-007: on one trading day at most one symbol has a buy order that did    *)
(* not fail, whatever quotes the other symbols get and however late, often   *)
(* or out of order the reports arrive (gate of TseService).                  *)
SingleBuy ==
  \A s, t \in Symbols : position[s] \in Live /\ position[t] \in Live => s = t

(* The gate, the portfolio state and the active symbol never contradict the  *)
(* order manager: an open gate means that no buy is live, a closed gate      *)
(* names the one symbol whose buy was issued, and NO_POSITION, which together *)
(* with the gate admits a buy, is never said of a closed gate.  The converse *)
(* fails in one way only: a stale BUY_REQUESTED of a buy that has failed      *)
(* overwrites the state behind the reopened gate (on_position_update), which *)
(* holds buys back and never lets one through.                               *)
GateAgreesWithPositions ==
  /\ portfolio.gate_open <=> portfolio.active_symbol = NoSymbol
  /\ \A s \in Symbols : /\ position[s] \in Live => portfolio.active_symbol = s
                        /\ portfolio.active_symbol = s => position[s] # "none"
  /\ portfolio.state = "NO_POSITION" => portfolio.gate_open
  /\ portfolio.gate_open /\ portfolio.state # "NO_POSITION" =>
       /\ portfolio.state = "BUY_REQUESTED"
       /\ \E s \in Symbols : position[s] = "failed"

(* No candidate survives the call that raised it: the next quote that finds  *)
(* the gate open can only buy the symbol it is about (SymbolScanScheduler).  *)
NoStaleCandidate == heap = {}

(* A position is sold at most once: repeated reports of a falling profit     *)
(* after the signal do not send a second SELL.                               *)
SellAtMostOnce == \A s \in Symbols : sells[s] <= 1

(* The lock and the sell signal belong to the one position of the day: a     *)
(* lock means that the active symbol was bought, a sell under way or done    *)
(* means that the signal is spent.  A failed buy resets neither, and need    *)
(* not: it never has them.                                                   *)
LockBelongsToThePosition ==
  /\ portfolio.min_profit_locked =>
       /\ portfolio.active_symbol \in Symbols
       /\ position[portfolio.active_symbol] \in {"open", "exiting", "closed"}
  /\ \A s \in Symbols : /\ position[s] \in {"exiting", "closed"} => portfolio.sell_signaled
                        /\ sells[s] > 0 => portfolio.sell_signaled

(* A SELL is only ever issued for a position the order manager holds open,   *)
(* never on the report of a failed, pending or already closed one.           *)
SellOnlyOpenPosition ==
  [][\A s \in Symbols : sells'[s] > sells[s] => position[s] = "open"]_vars

(* AC-003, AC-004: whatever the symbol went through before, a BUY is issued  *)
(* on a quote at least 0.2 % above a low that is itself at least 1 % below   *)
(* the reference, at two ticks above that quote, and never while the feed is *)
(* degraded.                                                                 *)
BuyIsJustified ==
  [][command_sequence' > command_sequence /\ output'[1].side = "BUY" =>
       LET s == output'[1].sym
           low == tracked_low'[s]
       IN  /\ ~buy_entry_blocked_by_degraded
           /\ 100 * (reference_price[s] - low) >= reference_price[s]
           /\ \E p \in Prices : /\ 500 * (p - low) >= low
                                /\ output'[1].price = compute_buy_limit_price(p)]_vars

(* AC-002: a reference price, once captured, stays for the day.              *)
ReferenceIsFixed ==
  [][trading_date' = trading_date =>
       \A s \in Symbols : reference_price[s] # NoPrice =>
                            reference_price'[s] = reference_price[s]]_vars

-----------------------------------------------------------------------------
(* The abstract trading day.                                                 *)

Trade == INSTANCE DailyTrade WITH
           phase <- [s \in Symbols |-> IF position[s] \in Live THEN position[s] ELSE "none"],
           sold <- \E s \in Symbols : sells[s] > 0

(* The engine with all its quotes, reports and gates implements the trading  *)
(* day of DailyTrade: seen from the order manager it does nothing but buy    *)
(* one symbol and offer its position for sale once, also when buys fail,     *)
(* sales fail and reports of either come late.                               *)
ImplementsDailyTrade == Trade!Spec

=============================================================================
