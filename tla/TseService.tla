----------------------------- MODULE TseService -----------------------------
(***************************************************************************)
(* The trading strategy engine of one trading day: src/tse/service.py with *)
(* its scheduler.  One action per public operation; each action is the     *)
(* whole call, and `output` is what the call returned.                     *)
(*                                                                         *)
(* A quote is [date, at, sym, price, seq], a position update is [date, at, *)
(* sym, state, price, rate, maxRate], a command is [side, sym, price, at,  *)
(* id] where `at` is the time of the signal that caused it.                *)
(***************************************************************************)
EXTENDS PriceRules, Sequences, FiniteSets

CONSTANTS WatchSymbols,             \* the watch list, in rank order
          NoSymbol,                 \* Python's None for active_symbol
          REFERENCE_CAPTURE_TIME    \* 09:03, on the scale of the quotes' `at`

ASSUME WatchListAssumption ==
  /\ WatchSymbols \in Seq({WatchSymbols[i] : i \in DOMAIN WatchSymbols})
  /\ Len(WatchSymbols) \in 1..20
  /\ \A i, j \in DOMAIN WatchSymbols : WatchSymbols[i] = WatchSymbols[j] => i = j
  /\ \A i \in DOMAIN WatchSymbols : WatchSymbols[i] # NoSymbol

ASSUME CaptureTimeAssumption == REFERENCE_CAPTURE_TIME \in Nat

Symbols == {WatchSymbols[i] : i \in DOMAIN WatchSymbols}

watch_rank(s) == CHOOSE i \in DOMAIN WatchSymbols : WatchSymbols[i] = s

VARIABLES
  trading_date,     \* the day the context belongs to
  state,            \* symbol -> SymbolState
  reference_price,  \* symbol -> price or NoPrice
  tracked_low,      \* symbol -> price or NoPrice
  portfolio,        \* PortfolioContext
  heap,             \* the scheduler's queue of buy candidates
  buy_entry_blocked_by_degraded,
  command_sequence, \* numbers the commands of the day
  output            \* the commands returned by the last call

symbolVars == <<state, reference_price, tracked_low>>
tseVars == <<trading_date, symbolVars, portfolio, heap,
             buy_entry_blocked_by_degraded, command_sequence, output>>

SymbolStates == {"WAIT_REFERENCE", "TRACKING", "BUY_CANDIDATE", "BUY_TRIGGERED", "BUY_BLOCKED"}
PortfolioStates == {"NO_POSITION", "BUY_REQUESTED", "POSITION_OPEN", "SELL_REQUESTED", "POSITION_CLOSED"}

NewPortfolio == [state |-> "NO_POSITION", gate_open |-> TRUE, active_symbol |-> NoSymbol,
                 min_profit_locked |-> FALSE, sell_signaled |-> FALSE]

-----------------------------------------------------------------------------
(* Construction, and the day change that runs it again.                      *)

FreshContext(date) ==
  /\ trading_date = date
  /\ state = [s \in Symbols |-> "WAIT_REFERENCE"]
  /\ reference_price = [s \in Symbols |-> NoPrice]
  /\ tracked_low = [s \in Symbols |-> NoPrice]
  /\ portfolio = NewPortfolio
  /\ heap = {}
  /\ buy_entry_blocked_by_degraded = FALSE
  /\ command_sequence = 0
  /\ output = <<>>

on_day_changed(date) ==
  /\ trading_date' = date
  /\ state' = [s \in Symbols |-> "WAIT_REFERENCE"]
  /\ reference_price' = [s \in Symbols |-> NoPrice]
  /\ tracked_low' = [s \in Symbols |-> NoPrice]
  /\ portfolio' = NewPortfolio
  /\ heap' = {}
  /\ buy_entry_blocked_by_degraded' = FALSE
  /\ command_sequence' = 0
  /\ output' = <<>>

\* Faulty variant: the block is never set.
set_buy_entry_never_blocked(blocked) ==
  /\ buy_entry_blocked_by_degraded' = FALSE
  /\ output' = <<>>
  /\ UNCHANGED <<trading_date, symbolVars, portfolio, heap, command_sequence>>

set_buy_entry_blocked_by_degraded(blocked) ==
  /\ buy_entry_blocked_by_degraded' = blocked
  /\ output' = <<>>
  /\ UNCHANGED <<trading_date, symbolVars, portfolio, heap, command_sequence>>

-----------------------------------------------------------------------------
(* The scheduler: the earliest candidate first, by (occurred_at, sequence,   *)
(* watch_rank).                                                              *)

Before(c, d) ==
  \/ c.at < d.at
  \/ c.at = d.at /\ c.seq < d.seq
  \/ c.at = d.at /\ c.seq = d.seq /\ c.rank <= d.rank

Earliest(queue) == CHOOSE c \in queue : \A d \in queue : Before(c, d)

\* Faulty variant: the candidate is looked at and stays in the queue.
peek_next(queue) == queue

pop_next(queue) == {c \in queue : c # Earliest(queue)}

Candidate(q) == [at |-> q.at, seq |-> q.seq, rank |-> watch_rank(q.sym),
                 sym |-> q.sym, price |-> q.price]

-----------------------------------------------------------------------------
(* on_quote                                                                  *)

BuyCommand(c) == [side |-> "BUY", sym |-> c.sym, at |-> c.at,
                  price |-> compute_buy_limit_price(c.price), id |-> command_sequence + 1]

Accepted(q) ==
  /\ q.date = trading_date
  /\ q.sym \in Symbols
  /\ q.price > 0
  /\ q.at >= REFERENCE_CAPTURE_TIME

\* Faulty variant: only an open position closes the gate.
GateOpen_until_filled == portfolio.state \in {"NO_POSITION", "BUY_REQUESTED"}

GateOpen == portfolio.gate_open /\ portfolio.state = "NO_POSITION"

\* The early returns: another day, an unwatched symbol, no price, too early.
IgnoreQuote(q) ==
  /\ ~Accepted(q)
  /\ output' = <<>>
  /\ UNCHANGED <<trading_date, symbolVars, portfolio, heap,
                 buy_entry_blocked_by_degraded, command_sequence>>

\* The first accepted quote fixes the reference price of the day.
CaptureReference(q) ==
  /\ Accepted(q)
  /\ reference_price[q.sym] = NoPrice
  /\ reference_price' = [reference_price EXCEPT ![q.sym] = q.price]
  /\ state' = [state EXCEPT ![q.sym] = IF @ = "BUY_BLOCKED" THEN @ ELSE "TRACKING"]
  /\ output' = <<>>
  /\ UNCHANGED <<trading_date, tracked_low, portfolio, heap,
                 buy_entry_blocked_by_degraded, command_sequence>>

\* A symbol barred from buying, a degraded feed or a closed gate: no evaluation.
SkipEvaluation(q) ==
  /\ Accepted(q)
  /\ reference_price[q.sym] # NoPrice
  /\ \/ state[q.sym] = "BUY_BLOCKED"
     \/ buy_entry_blocked_by_degraded
     \/ ~GateOpen
  /\ output' = <<>>
  /\ UNCHANGED <<trading_date, symbolVars, portfolio, heap,
                 buy_entry_blocked_by_degraded, command_sequence>>

\* _evaluate_buy_candidate
entering(q) ==
  /\ state[q.sym] = "TRACKING"
  /\ should_enter_buy_candidate(calc_drop_rate(reference_price[q.sym], q.price))

is_candidate(q) == state[q.sym] = "BUY_CANDIDATE" \/ entering(q)

low_after(q) ==
  IF entering(q) \/ (is_candidate(q) /\ q.price < tracked_low[q.sym])
  THEN q.price
  ELSE tracked_low[q.sym]

\* Faulty variant: a candidate is bought without waiting for the rebound.
triggered_at_once(q) == is_candidate(q) /\ low_after(q) # NoPrice

triggered(q) ==
  /\ is_candidate(q)
  /\ low_after(q) # NoPrice
  /\ rebounds(low_after(q), q.price)

states_after(q) ==
  [state EXCEPT ![q.sym] = IF is_candidate(q) THEN "BUY_CANDIDATE" ELSE @]

\* Faulty variant: the command is issued, the gate stays open.
FlushBuyCandidate_gate_open(queue, states) ==
  LET c == Earliest(queue)
      buys == queue # {} /\ states[c.sym] = "BUY_CANDIDATE"
  IN  /\ heap' = pop_next(queue)
      /\ state' = IF buys THEN [states EXCEPT ![c.sym] = "BUY_TRIGGERED"] ELSE states
      /\ UNCHANGED portfolio
      /\ output' = IF buys THEN <<BuyCommand(c)>> ELSE <<>>
      /\ command_sequence' = IF buys THEN command_sequence + 1 ELSE command_sequence

\* _flush_buy_candidate: takes one candidate from the queue, if there is one,
\* and turns it into the day's BUY command.
FlushBuyCandidate(queue, states) ==
  LET c == Earliest(queue)
      buys == queue # {} /\ states[c.sym] = "BUY_CANDIDATE"
  IN  /\ heap' = pop_next(queue)
      /\ state' = IF buys THEN [states EXCEPT ![c.sym] = "BUY_TRIGGERED"] ELSE states
      /\ portfolio' = IF buys
                      THEN [portfolio EXCEPT !.gate_open = FALSE,
                                             !.state = "BUY_REQUESTED",
                                             !.active_symbol = c.sym]
                      ELSE portfolio
      /\ output' = IF buys THEN <<BuyCommand(c)>> ELSE <<>>
      /\ command_sequence' = IF buys THEN command_sequence + 1 ELSE command_sequence

EvaluateQuote(q) ==
  /\ Accepted(q)
  /\ reference_price[q.sym] # NoPrice
  /\ state[q.sym] # "BUY_BLOCKED"
  /\ ~buy_entry_blocked_by_degraded
  /\ GateOpen
  /\ tracked_low' = [tracked_low EXCEPT ![q.sym] = low_after(q)]
  /\ FlushBuyCandidate(heap \cup (IF triggered(q) THEN {Candidate(q)} ELSE {}),
                       states_after(q))
  /\ UNCHANGED <<trading_date, reference_price, buy_entry_blocked_by_degraded>>

on_quote(q) ==
  \/ IgnoreQuote(q)
  \/ CaptureReference(q)
  \/ SkipEvaluation(q)
  \/ EvaluateQuote(q)

-----------------------------------------------------------------------------
(* on_position_update                                                        *)

\* Faulty variant: a closed position keeps the name the order manager gives it.
PortfolioStateOf_unmapped ==
  [BUY_REQUESTED |-> "BUY_REQUESTED", LONG_OPEN |-> "POSITION_OPEN",
   SELL_REQUESTED |-> "SELL_REQUESTED", CLOSED |-> "CLOSED",
   BUY_FAILED |-> "NO_POSITION"]

PortfolioStateOf ==
  [BUY_REQUESTED |-> "BUY_REQUESTED", LONG_OPEN |-> "POSITION_OPEN",
   SELL_REQUESTED |-> "SELL_REQUESTED", CLOSED |-> "POSITION_CLOSED",
   BUY_FAILED |-> "NO_POSITION"]

SellCommand(e) == [side |-> "SELL", sym |-> e.sym, at |-> e.at, price |-> e.price,
                   id |-> command_sequence + 1]

\* Faulty variant: reports about other symbols than the active one count too.
Concerns_any(e) == e.date = trading_date

Concerns(e) ==
  /\ e.date = trading_date
  /\ portfolio.active_symbol \in {NoSymbol, e.sym}

IgnorePosition(e) ==
  /\ ~Concerns(e)
  /\ output' = <<>>
  /\ UNCHANGED <<trading_date, symbolVars, portfolio, heap,
                 buy_entry_blocked_by_degraded, command_sequence>>

\* A rate that reaches the minimum profit locks it for good.
locked_by(e) == portfolio.min_profit_locked \/ should_lock_min_profit(e.rate)

signals_sell(e) ==
  /\ ~portfolio.sell_signaled
  /\ should_emit_sell_signal(locked_by(e), e.rate, e.maxRate)

\* Follows the position, locks the minimum profit once, and signals the sell
\* once when too little of the best profit is left.  A failed buy reopens the
\* gate; the lock and the sell signal stay as they are.
ApplyPosition(e) ==
  LET failed == e.state = "BUY_FAILED"
      sells == signals_sell(e)
  IN  /\ Concerns(e)
      /\ portfolio' =
           [state |-> PortfolioStateOf[e.state],
            gate_open |-> failed \/ portfolio.gate_open,
            active_symbol |-> IF failed THEN NoSymbol ELSE portfolio.active_symbol,
            min_profit_locked |-> locked_by(e),
            sell_signaled |-> sells \/ portfolio.sell_signaled]
      /\ output' = IF sells THEN <<SellCommand(e)>> ELSE <<>>
      /\ command_sequence' = IF sells THEN command_sequence + 1 ELSE command_sequence
      /\ UNCHANGED <<trading_date, symbolVars, heap, buy_entry_blocked_by_degraded>>

on_position_update(e) == IgnorePosition(e) \/ ApplyPosition(e)

=============================================================================
