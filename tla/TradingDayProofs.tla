-------------------------- MODULE TradingDayProofs --------------------------
(***************************************************************************)
(* What holds of TradingDay for every watch list, every set of prices,     *)
(* times and rates and any number of days.                                 *)
(***************************************************************************)
EXTENDS TradingDay, TseServiceProofs

-----------------------------------------------------------------------------
(* The calls of the strategy engine, with the inputs of a trading day.       *)

LEMMA EngineOfTheDay == TypeOK /\ NoStaleCandidate => EngineInv
  BY DEF TypeOK, NoStaleCandidate, EngineInv, Portfolios

LEMMA CandidateType ==
  ASSUME NEW q \in Quotes, q.sym \in Symbols PROVE Candidate(q) \in Candidates
<1>1. q.at \in Nat
  BY InputAssumption DEF Quotes
<1>2. q.seq \in Nat
  BY InputAssumption DEF Quotes
<1>3. q.price \in Nat
  BY InputAssumption DEF Quotes
<1>4. watch_rank(q.sym) \in DOMAIN WatchSymbols
  BY RankType
<1> QED BY <1>1, <1>2, <1>3, <1>4 DEF Candidate, Candidates

LEMMA BuyCommandType ==
  ASSUME TypeOK, NEW q \in Quotes, q.sym \in Symbols
  PROVE  BuyCommand(Candidate(q)) \in Commands
<1>1. Candidate(q) \in Candidates
  BY CandidateType
<1>2. compute_buy_limit_price(Candidate(q).price) \in Nat
  BY <1>1, BuyLimitType DEF Candidates
<1> QED BY <1>1, <1>2 DEF BuyCommand, Candidates, Commands, TypeOK

(* What a quote does to the engine of the day.                               *)
LEMMA QuoteEffect ==
  ASSUME TypeOK, NoStaleCandidate, NEW q \in Quotes, on_quote(q)
  PROVE  /\ NoStaleCandidate'
         /\ Buys(q) \/ BuysNothing
         /\ trading_date' = trading_date
         /\ state' \in [Symbols -> SymbolStates]
         /\ reference_price' \in [Symbols -> Nat]
         /\ tracked_low' \in [Symbols -> Nat]
         /\ buy_entry_blocked_by_degraded' \in BOOLEAN
<1>1. q.price \in Nat
  BY InputAssumption DEF Quotes
<1>2. EngineInv' /\ (Buys(q) \/ BuysNothing) /\ trading_date' = trading_date
  BY <1>1, EngineOfTheDay, EngineQuote
<1> QED BY <1>2 DEF EngineInv, NoStaleCandidate

(* What a position report does to it.                                        *)
LEMMA ReportEffect ==
  ASSUME TypeOK, NoStaleCandidate, NEW s \in Symbols, NEW date \in Days,
         NEW st \in PositionStates \ {"none"},
         NEW e \in Reports(s, date, st), on_position_update(e)
  PROVE  /\ UNCHANGED <<trading_date, symbolVars, heap, buy_entry_blocked_by_degraded>>
         /\ portfolio' \in [state : PortfolioStates, gate_open : BOOLEAN,
                            active_symbol : Symbols \cup {NoSymbol},
                            min_profit_locked : BOOLEAN, sell_signaled : BOOLEAN]
         /\ Sells(e) \/ SellsNothing
         /\ IF /\ date = trading_date
               /\ portfolio.active_symbol \in {NoSymbol, s}
            THEN /\ portfolio'.state = PortfolioStateOf[ReportState(st)]
                 /\ portfolio'.gate_open = (st = "failed" \/ portfolio.gate_open)
                 /\ portfolio'.active_symbol =
                      IF st = "failed" THEN NoSymbol ELSE portfolio.active_symbol
                 /\ portfolio'.min_profit_locked =
                      (portfolio.min_profit_locked \/ should_lock_min_profit(e.rate))
                 /\ Sells(e) => portfolio'.min_profit_locked
            ELSE portfolio' = portfolio /\ output' = <<>>
<1>1. e.date = date /\ e.sym = s /\ e.state = ReportState(st)
  BY DEF Reports
<1>2. /\ ReportState(st) \in DOMAIN PortfolioStateOf
      /\ ReportState(st) = "BUY_FAILED" <=> st = "failed"
  BY DEF ReportState, PositionStates, PortfolioStateOf
<1>3. Concerns(e) <=> date = trading_date /\ portfolio.active_symbol \in {NoSymbol, s}
  BY <1>1 DEF Concerns
<1> QED BY <1>1, <1>2, <1>3, EngineOfTheDay, EngineReport DEF EngineInv, Portfolios

-----------------------------------------------------------------------------
(* The inductive invariant.                                                  *)

(* A stale report of a sell under way is only ever about a bought position.  *)
SoldWasOpen ==
  \A s \in Symbols : sells[s] > 0 => position[s] \in {"open", "exiting", "closed"}

IInv ==
  /\ TypeOK
  /\ NoStaleCandidate
  /\ GateAgreesWithPositions
  /\ LockBelongsToThePosition
  /\ SellAtMostOnce
  /\ SoldWasOpen

LEMMA InitIInv == Init => IInv
<1> SUFFICES ASSUME Init PROVE IInv
  OBVIOUS
<1>1. trading_date \in Days
  BY InputAssumption DEF Init, FreshContext
<1>2. TypeOK
  <2>1. portfolio \in [state : PortfolioStates, gate_open : BOOLEAN,
                      active_symbol : Symbols \cup {NoSymbol},
                      min_profit_locked : BOOLEAN, sell_signaled : BOOLEAN]
    BY DEF Init, FreshContext, NewPortfolio, PortfolioStates
  <2>2. /\ state \in [Symbols -> SymbolStates]
        /\ position \in [Symbols -> PositionStates]
    BY DEF Init, FreshContext, SymbolStates, PositionStates
  <2>3. /\ reference_price \in [Symbols -> Nat] /\ tracked_low \in [Symbols -> Nat]
        /\ sells \in [Symbols -> Nat]
    BY DEF Init, FreshContext, NoPrice
  <2>4. output \in Seq(Commands) /\ Len(output) <= 1
    BY DEF Init, FreshContext
  <2>5. heap \subseteq Candidates /\ buy_entry_blocked_by_degraded \in BOOLEAN /\ command_sequence \in Nat
    BY DEF Init, FreshContext
  <2> QED BY <1>1, <2>1, <2>2, <2>3, <2>4, <2>5 DEF TypeOK
<1>3. NoStaleCandidate /\ SellAtMostOnce /\ SoldWasOpen
  BY DEF Init, FreshContext, NoStaleCandidate, SellAtMostOnce, SoldWasOpen
<1>4. GateAgreesWithPositions /\ LockBelongsToThePosition
  BY WatchListAssumption
     DEF Init, FreshContext, NewPortfolio, GateAgreesWithPositions,
         LockBelongsToThePosition, Live, Symbols
<1> QED BY <1>2, <1>3, <1>4 DEF IInv

(* A quote keeps the invariant: a BUY makes its symbol the only live one.    *)
LEMMA QuoteStep ==
  ASSUME IInv, Quote PROVE IInv'
<1> PICK q \in Quotes : on_quote(q) /\ ReceiveCommands
  BY DEF Quote
<1> USE DEF IInv
<1>1. /\ NoStaleCandidate'
      /\ Buys(q) \/ BuysNothing
      /\ trading_date' = trading_date
      /\ state' \in [Symbols -> SymbolStates]
      /\ reference_price' \in [Symbols -> Nat]
      /\ tracked_low' \in [Symbols -> Nat]
      /\ buy_entry_blocked_by_degraded' \in BOOLEAN
  BY QuoteEffect
<1>2. CASE Buys(q)
  <2> DEFINE cmd == BuyCommand(Candidate(q))
  <2>1. q.sym \in Symbols /\ cmd \in Commands
    BY <1>2, BuyCommandType DEF Buys
  <2>2. cmd.side = "BUY" /\ cmd.sym = q.sym
    BY DEF BuyCommand, Candidate
  <2>3. output' = <<cmd>> /\ command_sequence' = command_sequence + 1
    BY <1>2 DEF Buys
  <2>4. position' = [position EXCEPT ![q.sym] = "pending"] /\ sells' = sells
    BY <2>2, <2>3 DEF ReceiveCommands
  <2>5. /\ portfolio.gate_open /\ portfolio.state = "NO_POSITION"
        /\ portfolio' = [portfolio EXCEPT !.gate_open = FALSE,
                                          !.state = "BUY_REQUESTED",
                                          !.active_symbol = q.sym]
    BY <1>2 DEF Buys, GateOpen
  <2>6. portfolio.active_symbol = NoSymbol
    BY <2>5 DEF GateAgreesWithPositions
  <2>7. NoSymbol \notin Symbols
    BY WatchListAssumption DEF Symbols
  <2>8. \A s \in Symbols : position[s] \notin Live
    BY <2>6, <2>7 DEF GateAgreesWithPositions
  <2>9. output' \in Seq(Commands) /\ Len(output') <= 1
    BY <2>1, <2>3
  <2>10. TypeOK'
    <3>1. portfolio' \in [state : PortfolioStates, gate_open : BOOLEAN,
                          active_symbol : Symbols \cup {NoSymbol},
                          min_profit_locked : BOOLEAN, sell_signaled : BOOLEAN]
      BY <2>5, <2>1 DEF TypeOK, PortfolioStates
    <3>2. position' \in [Symbols -> PositionStates] /\ sells' \in [Symbols -> Nat]
      BY <2>4, <2>1 DEF TypeOK, PositionStates
    <3>3. command_sequence' \in Nat
      BY <2>3 DEF TypeOK
    <3>4. heap' \subseteq Candidates
      BY <1>1 DEF NoStaleCandidate
    <3> QED BY <1>1, <2>9, <3>1, <3>2, <3>3, <3>4 DEF TypeOK
  <2>11. GateAgreesWithPositions'
    <3>1. portfolio'.gate_open = FALSE /\ portfolio'.state = "BUY_REQUESTED"
          /\ portfolio'.active_symbol = q.sym
      BY <2>5 DEF TypeOK
    <3>2. \A s \in Symbols : position'[s] \in Live => s = q.sym
      BY <2>4, <2>8 DEF TypeOK
    <3>3. position'[q.sym] = "pending"
      BY <2>1, <2>4 DEF TypeOK
    <3> QED BY <3>1, <3>2, <3>3, <2>1, <2>7 DEF GateAgreesWithPositions
  <2>12. LockBelongsToThePosition'
    <3>1. portfolio.min_profit_locked = FALSE
      BY <2>6, <2>7 DEF LockBelongsToThePosition, TypeOK
    <3>2. portfolio'.min_profit_locked = FALSE
          /\ portfolio'.sell_signaled = portfolio.sell_signaled
      BY <2>5, <3>1 DEF TypeOK
    <3>3. \A s \in Symbols : position'[s] \in {"exiting", "closed"} => position[s] \in {"exiting", "closed"}
      BY <2>4, <2>1 DEF TypeOK
    <3> QED BY <2>4, <3>2, <3>3 DEF LockBelongsToThePosition
  <2>13. SellAtMostOnce' /\ SoldWasOpen'
    BY <2>4, <2>8 DEF SellAtMostOnce, SoldWasOpen, TypeOK, Live
  <2> QED BY <1>1, <2>10, <2>11, <2>12, <2>13
<1>3. CASE BuysNothing
  <2>1. /\ UNCHANGED <<portfolio, command_sequence, position, sells>>
        /\ output' = <<>>
    BY <1>3 DEF BuysNothing, ReceiveCommands
  <2>2. output' \in Seq(Commands) /\ Len(output') <= 1
    BY <2>1
  <2>3. TypeOK'
    BY <1>1, <2>1, <2>2 DEF TypeOK, NoStaleCandidate
  <2> QED BY <1>1, <2>1, <2>3 DEF GateAgreesWithPositions, LockBelongsToThePosition,
                                  SellAtMostOnce, SoldWasOpen
<1> QED BY <1>1, <1>2, <1>3

(* A report reopens the gate only when the one live buy has failed, and only *)
(* an open position is sold.                                                 *)
LEMMA ReportStep ==
  ASSUME IInv, NEW s \in Symbols, Report(s)
  PROVE  IInv' /\ (\A t \in Symbols : sells'[t] > sells[t] => position[t] = "open")
<1> USE DEF IInv
<1>0. PICK st \in Passed(s) :
         \E e \in Reports(s, trading_date, st) : on_position_update(e) /\ ReceiveCommands
  BY DEF Report
<1>1. PICK e \in Reports(s, trading_date, st) : on_position_update(e) /\ ReceiveCommands
  BY <1>0
<1>2. st \in PositionStates \ {"none"} /\ trading_date \in Days
  BY DEF Passed, TypeOK
<1>3. /\ UNCHANGED <<trading_date, symbolVars, heap, buy_entry_blocked_by_degraded>>
      /\ portfolio' \in [state : PortfolioStates, gate_open : BOOLEAN,
                         active_symbol : Symbols \cup {NoSymbol},
                         min_profit_locked : BOOLEAN, sell_signaled : BOOLEAN]
      /\ Sells(e) \/ SellsNothing
      /\ IF portfolio.active_symbol \in {NoSymbol, s}
         THEN /\ portfolio'.state = PortfolioStateOf[ReportState(st)]
              /\ portfolio'.gate_open = (st = "failed" \/ portfolio.gate_open)
              /\ portfolio'.active_symbol =
                   IF st = "failed" THEN NoSymbol ELSE portfolio.active_symbol
              /\ portfolio'.min_profit_locked =
                   (portfolio.min_profit_locked \/ should_lock_min_profit(e.rate))
              /\ Sells(e) => portfolio'.min_profit_locked
         ELSE portfolio' = portfolio /\ output' = <<>>
  BY <1>1, <1>2, ReportEffect
<1>4. NoSymbol \notin Symbols
  BY WatchListAssumption DEF Symbols
<1>5. e.sym = s /\ e.date = trading_date
  BY DEF Reports
<1>6. should_lock_min_profit(e.rate) => st \in {"open", "exiting"}
  BY DEF Reports, should_lock_min_profit, ge_with_eps, MIN_PROFIT_LOCK, EPS
<1>7. /\ PortfolioStateOf[ReportState(st)] = "NO_POSITION" <=> st = "failed"
      /\ PortfolioStateOf[ReportState(st)] = "BUY_REQUESTED" <=> st = "pending"
  BY <1>2 DEF ReportState, PositionStates, PortfolioStateOf
(* Only a buy that has failed is reported as failed, and of it nothing but   *)
(* that it was pending.                                                      *)
<1>12. /\ position[s] # "none" /\ position[s] \in PositionStates
       /\ st = "failed" => position[s] = "failed"
       /\ position[s] = "failed" => st \in {"pending", "failed"}
       /\ st \in {"open", "exiting"} => position[s] \in {"open", "exiting", "closed"}
  <2>1. position[s] \in PositionStates /\ sells[s] > 0 => position[s] \in {"open", "exiting", "closed"}
    BY DEF SoldWasOpen, TypeOK
  <2> QED BY <1>2, <2>1 DEF Passed, PositionStates, TypeOK
(* The gate and the lock agree with the positions as they were.              *)
<1>8. /\ portfolio'.gate_open <=> portfolio'.active_symbol = NoSymbol
      /\ \A t \in Symbols : /\ position[t] \in Live => portfolio'.active_symbol = t
                            /\ portfolio'.active_symbol = t => position[t] # "none"
      /\ portfolio'.state = "NO_POSITION" => portfolio'.gate_open
      /\ portfolio'.gate_open /\ portfolio'.state # "NO_POSITION" =>
           /\ portfolio'.state = "BUY_REQUESTED"
           /\ \E t \in Symbols : position[t] = "failed"
  <2>1. CASE portfolio.active_symbol \in {NoSymbol, s}
    <3>1. CASE st = "failed"
      <4>1. \A t \in Symbols : position[t] \notin Live
        BY <1>4, <1>12, <2>1, <3>1 DEF GateAgreesWithPositions, Live
      <4> QED BY <1>3, <1>4, <1>7, <2>1, <3>1, <4>1
    <3>2. CASE st # "failed"
      <4>1. /\ portfolio'.gate_open = portfolio.gate_open
            /\ portfolio'.active_symbol = portfolio.active_symbol
            /\ portfolio'.state # "NO_POSITION"
        BY <1>3, <1>7, <2>1, <3>2 DEF TypeOK
      <4>2. ASSUME portfolio.gate_open
            PROVE  portfolio'.state = "BUY_REQUESTED" /\ position[s] = "failed"
        <5>1. portfolio.active_symbol = NoSymbol
          BY <4>2 DEF GateAgreesWithPositions
        <5>2. position[s] = "failed"
          BY <1>4, <1>12, <5>1 DEF GateAgreesWithPositions, Live, PositionStates
        <5> QED BY <1>3, <1>7, <1>12, <2>1, <3>2, <5>2
      <4> QED BY <4>1, <4>2 DEF GateAgreesWithPositions
    <3> QED BY <3>1, <3>2
  <2>2. CASE portfolio.active_symbol \notin {NoSymbol, s}
    BY <1>3, <2>2 DEF GateAgreesWithPositions
  <2> QED BY <2>1, <2>2
<1>9. portfolio'.min_profit_locked =>
        /\ portfolio'.active_symbol \in Symbols
        /\ position[portfolio'.active_symbol] \in {"open", "exiting", "closed"}
  <2>1. CASE portfolio.active_symbol \in {NoSymbol, s}
    <3> SUFFICES ASSUME portfolio'.min_profit_locked
                 PROVE  /\ portfolio'.active_symbol \in Symbols
                        /\ position[portfolio'.active_symbol] \in {"open", "exiting", "closed"}
      OBVIOUS
    <3>1. position[s] \in {"open", "exiting", "closed"}
      <4>1. CASE portfolio.min_profit_locked
        BY <1>4, <2>1, <4>1 DEF LockBelongsToThePosition
      <4>2. CASE ~portfolio.min_profit_locked
        BY <1>3, <1>6, <1>12, <2>1, <4>2 DEF TypeOK
      <4> QED BY <4>1, <4>2
    <3>2. portfolio.active_symbol = s /\ st # "failed"
      BY <1>12, <3>1 DEF GateAgreesWithPositions, Live
    <3> QED BY <1>3, <2>1, <3>1, <3>2
  <2>2. CASE portfolio.active_symbol \notin {NoSymbol, s}
    BY <1>3, <2>2 DEF LockBelongsToThePosition
  <2> QED BY <2>1, <2>2
<1>10. CASE Sells(e)
  <2>1. position[s] = "open" /\ portfolio.active_symbol \in {NoSymbol, s}
    <3>1. portfolio.active_symbol \in {NoSymbol, s}
      BY <1>3, <1>10 DEF Sells
    <3>2. portfolio'.min_profit_locked
      BY <1>3, <1>10, <3>1
    <3>3. position[s] \in {"open", "exiting", "closed"}
      BY <1>4, <1>9, <3>2, <1>8, <1>12, <3>1, <1>3 DEF Live
    <3>4. position[s] \notin {"exiting", "closed"}
      BY <1>10 DEF Sells, LockBelongsToThePosition
    <3> QED BY <3>1, <3>3, <3>4
  <2>2. SellCommand(e).side = "SELL" /\ SellCommand(e).sym = s
    BY <1>5 DEF SellCommand
  <2>3. output' = <<SellCommand(e)>> /\ command_sequence' = command_sequence + 1
    BY <1>10 DEF Sells
  <2>4. /\ position' = [position EXCEPT ![s] = "exiting"]
        /\ sells' = [sells EXCEPT ![s] = @ + 1]
    BY <1>1, <2>2, <2>3 DEF ReceiveCommands
  <2>5. SellCommand(e) \in Commands
    <3>1. e.at \in Nat
      BY InputAssumption DEF Reports
    <3>2. e.price \in Nat
      BY InputAssumption DEF Reports
    <3> QED BY <1>5, <3>1, <3>2 DEF SellCommand, Commands, TypeOK
  <2>6. TypeOK'
    <3>1. output' \in Seq(Commands) /\ Len(output') <= 1
      BY <2>3, <2>5
    <3>2. position' \in [Symbols -> PositionStates] /\ sells' \in [Symbols -> Nat]
      BY <2>4 DEF TypeOK, PositionStates
    <3> QED BY <1>3, <2>3, <3>1, <3>2 DEF TypeOK, symbolVars
  <2>7. \A t \in Symbols : position'[t] \in Live <=> position[t] \in Live
    BY <2>1, <2>4 DEF TypeOK, Live
  <2>8. GateAgreesWithPositions'
    <3>1. /\ \A t \in Symbols : position'[t] = "none" <=> position[t] = "none"
          /\ \A t \in Symbols : position'[t] = "failed" <=> position[t] = "failed"
      BY <2>1, <2>4 DEF TypeOK
    <3> QED BY <1>8, <2>7, <3>1 DEF GateAgreesWithPositions
  <2>9. portfolio'.sell_signaled /\ ~portfolio.sell_signaled
    BY <1>10 DEF Sells
  <2>10. LockBelongsToThePosition'
    BY <1>9, <2>1, <2>4, <2>9 DEF LockBelongsToThePosition, TypeOK
  <2>11. SellAtMostOnce' /\ SoldWasOpen'
    BY <2>4, <2>9 DEF SellAtMostOnce, SoldWasOpen, LockBelongsToThePosition, TypeOK
  <2>12. \A t \in Symbols : sells'[t] > sells[t] => position[t] = "open"
    BY <2>1, <2>4 DEF TypeOK
  <2> QED BY <1>3, <2>6, <2>8, <2>10, <2>11, <2>12 DEF NoStaleCandidate
<1>11. CASE SellsNothing
  <2>1. UNCHANGED <<position, sells>> /\ output' = <<>>
        /\ portfolio'.sell_signaled = portfolio.sell_signaled
    BY <1>1, <1>11 DEF SellsNothing, ReceiveCommands
  <2>2. output' \in Seq(Commands) /\ Len(output') <= 1
    BY <2>1
  <2>3. TypeOK'
    BY <1>3, <1>11, <2>1, <2>2 DEF TypeOK, symbolVars, SellsNothing
  <2>4. GateAgreesWithPositions' /\ LockBelongsToThePosition'
    BY <1>8, <1>9, <2>1 DEF GateAgreesWithPositions, LockBelongsToThePosition
  <2>5. /\ SellAtMostOnce' /\ SoldWasOpen'
        /\ \A t \in Symbols : sells'[t] > sells[t] => position[t] = "open"
    BY <2>1 DEF SellAtMostOnce, SoldWasOpen, TypeOK
  <2> QED BY <1>3, <2>3, <2>4, <2>5 DEF NoStaleCandidate
<1> QED BY <1>3, <1>10, <1>11

LEMMA LateReportStep ==
  ASSUME IInv, NEW s \in Symbols, LateReport(s)
  PROVE  IInv' /\ UNCHANGED sells
<1> USE DEF IInv
<1>0. PICK date \in Days, st \in {"failed", "open", "closed"} :
         /\ date < trading_date
         /\ \E e \in Reports(s, date, st) : on_position_update(e) /\ ReceiveCommands
  BY DEF LateReport
<1>1. PICK e \in Reports(s, date, st) : on_position_update(e) /\ ReceiveCommands
  BY <1>0
<1>2. e.date # trading_date
  BY <1>0, <1>1, InputAssumption DEF TypeOK, Reports
<1>3. IgnorePosition(e)
  BY <1>1, <1>2 DEF on_position_update, ApplyPosition, Concerns
<1>4. /\ output' = <<>>
      /\ UNCHANGED <<trading_date, symbolVars, portfolio, heap,
                     buy_entry_blocked_by_degraded, command_sequence, position, sells>>
  BY <1>1, <1>3 DEF IgnorePosition, ReceiveCommands
<1>5. output' \in Seq(Commands) /\ Len(output') <= 1
  BY <1>4
<1>6. TypeOK'
  BY <1>4, <1>5 DEF TypeOK, symbolVars
<1> QED BY <1>4, <1>6 DEF NoStaleCandidate, GateAgreesWithPositions, LockBelongsToThePosition,
                          SellAtMostOnce, SoldWasOpen

(* What the broker does to an order leaves the engine alone.                 *)
BrokerStep(s) == BuyFills(s) \/ BuyFails(s) \/ SellFills(s) \/ SellFails(s)

LEMMA BrokerStepKeeps ==
  ASSUME IInv, NEW s \in Symbols, BrokerStep(s)
  PROVE  IInv' /\ UNCHANGED sells
<1> USE DEF IInv
<1>1. UNCHANGED <<tseVars, sells>>
  BY DEF BrokerStep, BuyFills, BuyFails, SellFills, SellFails
<1>2. PICK to \in {"open", "failed", "closed"} :
         /\ position' = [position EXCEPT ![s] = to]
         /\ \/ position[s] = "pending" /\ to \in {"open", "failed"}
            \/ position[s] = "exiting" /\ to \in {"open", "closed"}
  BY DEF BrokerStep, BuyFills, BuyFails, SellFills, SellFails
<1>3. position' \in [Symbols -> PositionStates]
  BY <1>2 DEF TypeOK, PositionStates
<1>4. TypeOK'
  BY <1>1, <1>3 DEF TypeOK, tseVars, symbolVars
<1>5. \A t \in Symbols : position'[t] \in Live => position[t] \in Live
  BY <1>2 DEF TypeOK, Live
<1>6. GateAgreesWithPositions'
  <2>1. ASSUME NEW t \in Symbols
        PROVE  /\ position[t] # "none" => position'[t] # "none"
               /\ position[t] = "failed" => position'[t] = "failed"
    <3>1. CASE t = s
      BY <1>2, <3>1 DEF TypeOK
    <3>2. CASE t # s
      BY <1>2, <3>2 DEF TypeOK
    <3> QED BY <3>1, <3>2
  <2>2. portfolio' = portfolio
    BY <1>1 DEF tseVars
  <2>3. (\E t \in Symbols : position[t] = "failed") => \E t \in Symbols : position'[t] = "failed"
    BY <2>1, Zenon
  <2> QED BY <1>5, <2>1, <2>2, <2>3, Zenon DEF GateAgreesWithPositions
<1>7. portfolio.min_profit_locked =>
        position'[portfolio.active_symbol] \in {"open", "exiting", "closed"}
  BY <1>2 DEF LockBelongsToThePosition, TypeOK
<1>8. \A t \in Symbols : position'[t] \in {"exiting", "closed"} => portfolio.sell_signaled
  BY <1>2 DEF LockBelongsToThePosition, TypeOK
<1>9. LockBelongsToThePosition'
  BY <1>1, <1>7, <1>8 DEF LockBelongsToThePosition, tseVars
<1>10. SoldWasOpen'
  BY <1>1, <1>2 DEF SoldWasOpen, TypeOK
<1> QED BY <1>1, <1>4, <1>6, <1>9, <1>10 DEF NoStaleCandidate, SellAtMostOnce, tseVars

LEMMA FeedStep == ASSUME IInv, FeedDegrades PROVE IInv' /\ UNCHANGED sells
<1> USE DEF IInv
<1>1. /\ buy_entry_blocked_by_degraded' \in BOOLEAN
      /\ output' = <<>>
      /\ UNCHANGED <<trading_date, symbolVars, portfolio, heap, command_sequence, position, sells>>
  BY DEF FeedDegrades, set_buy_entry_blocked_by_degraded
<1>2. output' \in Seq(Commands) /\ Len(output') <= 1
  BY <1>1
<1>3. TypeOK'
  BY <1>1, <1>2 DEF TypeOK, symbolVars
<1> QED BY <1>1, <1>3 DEF NoStaleCandidate, GateAgreesWithPositions, LockBelongsToThePosition,
                          SellAtMostOnce, SoldWasOpen

LEMMA NewDayStep ==
  ASSUME IInv, NewDay PROVE IInv' /\ (\A t \in Symbols : ~(sells'[t] > sells[t]))
<1> USE DEF IInv, NewDay, on_day_changed
<1>1. portfolio' = NewPortfolio /\ heap' = {} /\ output' = <<>> /\ command_sequence' = 0
  OBVIOUS
<1>2. /\ position' = [t \in Symbols |-> "none"]
      /\ sells' = [t \in Symbols |-> 0]
  OBVIOUS
<1>3. portfolio' \in [state : PortfolioStates, gate_open : BOOLEAN,
                      active_symbol : Symbols \cup {NoSymbol},
                      min_profit_locked : BOOLEAN, sell_signaled : BOOLEAN]
  BY <1>1 DEF NewPortfolio, PortfolioStates
<1>4. /\ state' \in [Symbols -> SymbolStates]
      /\ position' \in [Symbols -> PositionStates]
      /\ sells' \in [Symbols -> Nat]
  BY <1>2 DEF SymbolStates, PositionStates
<1>5. /\ reference_price' \in [Symbols -> Nat]
      /\ tracked_low' \in [Symbols -> Nat]
  BY DEF NoPrice
<1>6. /\ trading_date' \in Days
      /\ buy_entry_blocked_by_degraded' \in BOOLEAN
  OBVIOUS
<1>7. output' \in Seq(Commands) /\ Len(output') <= 1
  BY <1>1
<1>8. TypeOK'
  BY <1>1, <1>3, <1>4, <1>5, <1>6, <1>7 DEF TypeOK
<1>9. GateAgreesWithPositions' /\ LockBelongsToThePosition'
  BY <1>1, <1>2, WatchListAssumption
     DEF NewPortfolio, GateAgreesWithPositions, LockBelongsToThePosition, Live, Symbols
<1>10. SellAtMostOnce' /\ SoldWasOpen' /\ (\A t \in Symbols : ~(sells'[t] > sells[t]))
  BY <1>2 DEF SellAtMostOnce, SoldWasOpen, TypeOK
<1> QED BY <1>1, <1>8, <1>9, <1>10 DEF NoStaleCandidate

LEMMA NextIInv == IInv /\ [Next]_vars => IInv'
<1> SUFFICES ASSUME IInv, [Next]_vars PROVE IInv'
  OBVIOUS
<1>1. CASE Quote
  BY <1>1, QuoteStep
<1>2. ASSUME NEW s \in Symbols, Report(s) PROVE IInv'
  BY <1>2, ReportStep
<1>3. ASSUME NEW s \in Symbols, LateReport(s) PROVE IInv'
  BY <1>3, LateReportStep
<1>4. ASSUME NEW s \in Symbols, BrokerStep(s) PROVE IInv'
  BY <1>4, BrokerStepKeeps
<1>5. CASE FeedDegrades
  BY <1>5, FeedStep
<1>6. CASE NewDay
  BY <1>6, NewDayStep
<1>7. CASE UNCHANGED vars
  BY <1>7 DEF vars, tseVars, symbolVars, IInv, TypeOK, NoStaleCandidate,
     GateAgreesWithPositions, LockBelongsToThePosition, SellAtMostOnce, SoldWasOpen
<1> QED BY <1>1, <1>2, <1>3, <1>4, <1>5, <1>6, <1>7 DEF Next, BrokerStep

(* The invariant holds in every state of the specification.                  *)
LEMMA InvariantHolds == Spec => []IInv
<1>1. Init => IInv
  BY InitIInv
<1>2. IInv /\ [Next]_vars => IInv'
  BY NextIInv
<1> QED BY <1>1, <1>2, PTL DEF Spec

-----------------------------------------------------------------------------
(* The theorems.                                                             *)

(* Every variable keeps its type.                                            *)
THEOREM TypeCorrect == Spec => []TypeOK
<1>1. IInv => TypeOK
  BY DEF IInv
<1> QED BY <1>1, InvariantHolds, PTL

(* FR-007 within one process: no two symbols ever have a live buy on the     *)
(* same trading day, for any watch list and any order of quotes and reports. *)
THEOREM SingleBuyHolds == Spec => []SingleBuy
<1>1. IInv => SingleBuy
  BY DEF IInv, GateAgreesWithPositions, SingleBuy
<1> QED BY <1>1, InvariantHolds, PTL

(* Whatever reports are repeated, late or overtaken: an open gate means that *)
(* no buy is live, a closed one names the symbol that was bought, and a      *)
(* portfolio state left behind by a stale report never admits a buy.         *)
THEOREM GateAgrees == Spec => []GateAgreesWithPositions
<1>1. IInv => GateAgreesWithPositions
  BY DEF IInv
<1> QED BY <1>1, InvariantHolds, PTL

(* No buy candidate outlives the call that raised it.                        *)
THEOREM QueueIsEmptyBetweenCalls == Spec => []NoStaleCandidate
<1>1. IInv => NoStaleCandidate
  BY DEF IInv
<1> QED BY <1>1, InvariantHolds, PTL

(* No position is sold twice.                                                *)
THEOREM SoldOnce == Spec => []SellAtMostOnce
<1>1. IInv => SellAtMostOnce
  BY DEF IInv
<1> QED BY <1>1, InvariantHolds, PTL

(* Only open positions are sold.                                             *)
THEOREM SellsOnlyOpen == Spec => SellOnlyOpenPosition
<1>1. IInv /\ [Next]_vars => [\A s \in Symbols : sells'[s] > sells[s] => position[s] = "open"]_vars
  <2> SUFFICES ASSUME IInv, Next
               PROVE  \A s \in Symbols : sells'[s] > sells[s] => position[s] = "open"
    OBVIOUS
  <2>1. ASSUME UNCHANGED sells
        PROVE  \A s \in Symbols : sells'[s] > sells[s] => position[s] = "open"
    BY <2>1 DEF IInv, TypeOK
  <2>2. CASE Quote
    <3>1. PICK q \in Quotes : on_quote(q) /\ ReceiveCommands
      BY <2>2 DEF Quote
    <3>2. Buys(q) \/ BuysNothing
      BY <3>1, QuoteEffect DEF IInv
    <3>3. UNCHANGED sells
      BY <3>1, <3>2 DEF Buys, BuysNothing, BuyCommand, ReceiveCommands
    <3> QED BY <2>1, <3>3
  <2>3. ASSUME NEW s \in Symbols, Report(s)
        PROVE  \A t \in Symbols : sells'[t] > sells[t] => position[t] = "open"
    BY <2>3, ReportStep
  <2>4. ASSUME NEW s \in Symbols, LateReport(s) PROVE UNCHANGED sells
    BY <2>4, LateReportStep
  <2>5. ASSUME NEW s \in Symbols, BrokerStep(s) PROVE UNCHANGED sells
    BY <2>5, BrokerStepKeeps
  <2>6. CASE FeedDegrades
    BY <2>6, <2>1, FeedStep
  <2>7. CASE NewDay
    BY <2>7, NewDayStep
  <2> QED BY <2>1, <2>2, <2>3, <2>4, <2>5, <2>6, <2>7 DEF Next, BrokerStep
<1> QED BY <1>1, InvariantHolds, PTL DEF Spec, SellOnlyOpenPosition

(* The lock and the sell signal never outlive the position they belong to.   *)
THEOREM LockFollowsPosition == Spec => []LockBelongsToThePosition
<1>1. IInv => LockBelongsToThePosition
  BY DEF IInv
<1> QED BY <1>1, InvariantHolds, PTL

(* AC-002: once captured, a reference price stays for the day.               *)
THEOREM ReferenceStays == Spec => ReferenceIsFixed
<1> DEFINE Fixed == \A s \in Symbols : reference_price[s] # NoPrice =>
                                       reference_price'[s] = reference_price[s]
<1>1. IInv /\ [Next]_vars => [trading_date' = trading_date => Fixed]_vars
  <2> SUFFICES ASSUME IInv, Next, trading_date' = trading_date
               PROVE  Fixed
    OBVIOUS
  <2>1. ASSUME UNCHANGED reference_price PROVE Fixed
    BY <2>1
  <2>2. CASE Quote
    <3>1. PICK q \in Quotes : on_quote(q)
      BY <2>2 DEF Quote
    <3>2. CASE CaptureReference(q)
      BY <3>2 DEF CaptureReference, IInv, TypeOK
    <3>3. CASE ~CaptureReference(q)
      <4>1. UNCHANGED reference_price
        BY <3>1, <3>3 DEF on_quote, IgnoreQuote, SkipEvaluation, EvaluateQuote, symbolVars
      <4> QED BY <2>1, <4>1
    <3> QED BY <3>2, <3>3
  <2>3. ASSUME NEW e, on_position_update(e) PROVE UNCHANGED reference_price
    BY <2>3 DEF on_position_update, IgnorePosition, ApplyPosition, symbolVars
  <2>4. ASSUME NEW s \in Symbols, Report(s) \/ LateReport(s) PROVE Fixed
    <3>1. \E e : on_position_update(e)
      BY <2>4 DEF Report, LateReport
    <3> QED BY <2>1, <2>3, <3>1
  <2>5. ASSUME NEW s \in Symbols, BrokerStep(s) PROVE Fixed
    BY <2>1, <2>5 DEF BrokerStep, BuyFills, BuyFails, SellFills, SellFails, tseVars, symbolVars
  <2>6. CASE FeedDegrades
    BY <2>1, <2>6 DEF FeedDegrades, set_buy_entry_blocked_by_degraded, symbolVars
  <2>7. CASE NewDay
    BY <2>7, InputAssumption DEF NewDay, on_day_changed, IInv, TypeOK
  <2> QED BY <2>2, <2>4, <2>5, <2>6, <2>7 DEF Next, BrokerStep
<1> QED BY <1>1, InvariantHolds, PTL DEF Spec, ReferenceIsFixed

-----------------------------------------------------------------------------
(* Why a buy is justified.  The thresholds hold up to the rounding of a rate *)
(* for all prices, and exactly between prices of the ladder that are not too *)
(* high for the quantum of the rates.                                        *)

Fell(reference, low) == 2000000 * (reference - low) >= 19997 * reference

Rebounded(low, price) == 2000000 * (price - low) >= 3997 * low

CandidatesFell ==
  \A s \in Symbols :
    /\ reference_price[s] # NoPrice => reference_price[s] \in Prices
    /\ tracked_low[s] # NoPrice => tracked_low[s] \in Prices
    /\ state[s] = "BUY_CANDIDATE" => /\ reference_price[s] # NoPrice
                                     /\ tracked_low[s] # NoPrice
                                     /\ Fell(reference_price[s], tracked_low[s])

(* The low of a candidate only falls further below the reference.            *)
LEMMA LowHasFallen ==
  ASSUME IInv, CandidatesFell, NEW q \in Quotes, Accepted(q),
         reference_price[q.sym] # NoPrice, is_candidate(q)
  PROVE  /\ low_after(q) # NoPrice /\ low_after(q) \in Prices
         /\ Fell(reference_price[q.sym], low_after(q))
<1>1. /\ q.sym \in Symbols /\ q.price \in Prices /\ q.price \in Nat \ {0}
      /\ q.price # NoPrice
  <2>1. q.sym \in Symbols /\ q.price > 0
    BY DEF Accepted
  <2>2. q.price \in Prices
    BY DEF Quotes
  <2>3. q.price \in Nat
    BY <2>2, InputAssumption
  <2> QED BY <2>1, <2>2, <2>3 DEF NoPrice
<1>2. /\ reference_price[q.sym] \in Nat \ {0}
      /\ tracked_low[q.sym] \in Nat
  BY <1>1 DEF IInv, TypeOK, NoPrice
<1>3. CASE entering(q)
  <2>1. low_after(q) = q.price
    BY <1>3 DEF low_after
  <2>2. Fell(reference_price[q.sym], q.price)
    BY <1>1, <1>2, <1>3, DropThreshold DEF entering, Fell
  <2> QED BY <1>1, <2>1, <2>2
<1>4. CASE ~entering(q)
  <2>1. state[q.sym] = "BUY_CANDIDATE"
    BY <1>4 DEF is_candidate
  <2>2. /\ tracked_low[q.sym] # NoPrice /\ tracked_low[q.sym] \in Prices
        /\ Fell(reference_price[q.sym], tracked_low[q.sym])
    BY <1>1, <2>1 DEF CandidatesFell
  <2>3. CASE q.price < tracked_low[q.sym]
    <3>1. low_after(q) = q.price
      BY <2>3, <2>1 DEF low_after, is_candidate
    <3>2. Fell(reference_price[q.sym], q.price)
      BY <1>1, <1>2, <2>2, <2>3 DEF Fell
    <3> QED BY <1>1, <3>1, <3>2
  <2>4. CASE ~(q.price < tracked_low[q.sym])
    BY <1>4, <2>2, <2>4 DEF low_after
  <2> QED BY <2>3, <2>4
<1> QED BY <1>3, <1>4

(* What a quote does to the references, the lows and the candidates.         *)
LEMMA QuoteKeepsCandidates ==
  ASSUME IInv, CandidatesFell, NEW q \in Quotes, on_quote(q)
  PROVE  CandidatesFell'
<1> USE DEF symbolVars
<1>0. /\ state \in [Symbols -> SymbolStates]
      /\ reference_price \in [Symbols -> Nat]
      /\ tracked_low \in [Symbols -> Nat]
  BY DEF IInv, TypeOK
<1>1. CASE IgnoreQuote(q) \/ SkipEvaluation(q)
  BY <1>1 DEF IgnoreQuote, SkipEvaluation, CandidatesFell
<1>2. CASE CaptureReference(q)
  <2>1. /\ q.sym \in Symbols /\ q.price \in Prices
        /\ reference_price[q.sym] = NoPrice
        /\ reference_price' = [reference_price EXCEPT ![q.sym] = q.price]
        /\ state' = [state EXCEPT ![q.sym] = IF @ = "BUY_BLOCKED" THEN @ ELSE "TRACKING"]
        /\ tracked_low' = tracked_low
    BY <1>2 DEF CaptureReference, Accepted, Quotes
  <2>2. ASSUME NEW s \in Symbols, s # q.sym
        PROVE  UNCHANGED <<reference_price[s], state[s], tracked_low[s]>>
    BY <1>0, <2>1, <2>2
  <2>3. /\ reference_price'[q.sym] = q.price /\ tracked_low'[q.sym] = tracked_low[q.sym]
        /\ state'[q.sym] # "BUY_CANDIDATE"
    BY <1>0, <2>1
  <2> QED BY <2>1, <2>2, <2>3 DEF CandidatesFell
<1>3. CASE EvaluateQuote(q)
  <2>1. /\ q.sym \in Symbols /\ Accepted(q) /\ reference_price[q.sym] # NoPrice
        /\ reference_price' = reference_price
        /\ tracked_low' = [tracked_low EXCEPT ![q.sym] = low_after(q)]
    BY <1>3 DEF EvaluateQuote, Accepted
  <2>2. \A s \in Symbols : state'[s] = "BUY_CANDIDATE" => states_after(q)[s] = "BUY_CANDIDATE"
    <3>1. states_after(q) \in [Symbols -> SymbolStates]
      BY <1>0, <2>1 DEF states_after, SymbolStates
    <3> DEFINE queue == heap \cup (IF triggered(q) THEN {Candidate(q)} ELSE {})
    <3>2. FlushBuyCandidate(queue, states_after(q))
      BY <1>3 DEF EvaluateQuote
    <3> HIDE DEF queue
    <3>3. \/ state' = states_after(q)
          \/ state' = [states_after(q) EXCEPT ![Earliest(queue).sym] = "BUY_TRIGGERED"]
      BY <3>2 DEF FlushBuyCandidate
    <3> QED BY <3>1, <3>3
  <2>3. \A s \in Symbols : s # q.sym /\ states_after(q)[s] = "BUY_CANDIDATE" =>
                             state[s] = "BUY_CANDIDATE"
    BY <1>0, <2>1 DEF states_after
  <2>4. states_after(q)[q.sym] = "BUY_CANDIDATE" => is_candidate(q)
    BY <1>0, <2>1 DEF states_after, is_candidate
  <2>5. /\ tracked_low'[q.sym] = low_after(q)
        /\ \A s \in Symbols : s # q.sym => tracked_low'[s] = tracked_low[s]
    BY <1>0, <2>1
  <2>6. low_after(q) # NoPrice => low_after(q) \in Prices
    <3>1. CASE is_candidate(q)
      BY <3>1, <2>1, LowHasFallen
    <3>2. CASE ~is_candidate(q)
      <4>1. low_after(q) = tracked_low[q.sym]
        BY <3>2 DEF low_after, is_candidate, entering
      <4> QED BY <4>1, <2>1 DEF CandidatesFell
    <3> QED BY <3>1, <3>2
  <2>7. is_candidate(q) => /\ low_after(q) # NoPrice
                           /\ Fell(reference_price[q.sym], low_after(q))
    BY <2>1, LowHasFallen
  <2>8. ASSUME NEW s \in Symbols
        PROVE  /\ reference_price'[s] # NoPrice => reference_price'[s] \in Prices
               /\ tracked_low'[s] # NoPrice => tracked_low'[s] \in Prices
               /\ state'[s] = "BUY_CANDIDATE" => /\ reference_price'[s] # NoPrice
                                                 /\ tracked_low'[s] # NoPrice
                                                 /\ Fell(reference_price'[s], tracked_low'[s])
    <3>1. CASE s = q.sym
      BY <3>1, <2>1, <2>2, <2>4, <2>5, <2>6, <2>7 DEF CandidatesFell
    <3>2. CASE s # q.sym
      BY <3>2, <2>1, <2>2, <2>3, <2>5 DEF CandidatesFell
    <3> QED BY <3>1, <3>2
  <2> QED BY <2>8 DEF CandidatesFell, Fell
<1> QED BY <1>1, <1>2, <1>3 DEF on_quote

LEMMA NextCandidatesFell == IInv /\ CandidatesFell /\ [Next]_vars => CandidatesFell'
<1> SUFFICES ASSUME IInv, CandidatesFell, [Next]_vars PROVE CandidatesFell'
  OBVIOUS
<1>1. ASSUME UNCHANGED symbolVars PROVE CandidatesFell'
  BY <1>1 DEF symbolVars, CandidatesFell
<1>2. CASE Quote
  BY <1>2, QuoteKeepsCandidates DEF Quote
<1>3. ASSUME NEW e, on_position_update(e) PROVE UNCHANGED symbolVars
  BY <1>3 DEF on_position_update, IgnorePosition, ApplyPosition, symbolVars
<1>4. ASSUME NEW s \in Symbols, Report(s) \/ LateReport(s) PROVE UNCHANGED symbolVars
  BY <1>3, <1>4 DEF Report, LateReport
<1>5. ASSUME NEW s \in Symbols, BrokerStep(s) PROVE UNCHANGED symbolVars
  BY <1>5 DEF BrokerStep, BuyFills, BuyFails, SellFills, SellFails, tseVars
<1>6. CASE FeedDegrades
  BY <1>1, <1>6 DEF FeedDegrades, set_buy_entry_blocked_by_degraded
<1>7. CASE NewDay
  <2>1. /\ state' = [s \in Symbols |-> "WAIT_REFERENCE"]
        /\ reference_price' = [s \in Symbols |-> NoPrice]
        /\ tracked_low' = [s \in Symbols |-> NoPrice]
    BY <1>7 DEF NewDay, on_day_changed
  <2> QED BY <2>1 DEF CandidatesFell
<1>8. CASE UNCHANGED vars
  BY <1>1, <1>8 DEF vars, tseVars
<1> QED BY <1>1, <1>2, <1>4, <1>5, <1>6, <1>7, <1>8 DEF Next, BrokerStep

LEMMA CandidatesHold == Spec => [](IInv /\ CandidatesFell)
<1>1. Init => CandidatesFell
  <2> SUFFICES ASSUME Init PROVE CandidatesFell
    OBVIOUS
  <2>1. /\ state = [s \in Symbols |-> "WAIT_REFERENCE"]
        /\ reference_price = [s \in Symbols |-> NoPrice]
        /\ tracked_low = [s \in Symbols |-> NoPrice]
    BY DEF Init, FreshContext
  <2> QED BY <2>1 DEF CandidatesFell
<1>2. IInv /\ CandidatesFell /\ [Next]_vars => CandidatesFell'
  BY NextCandidatesFell
<1> QED BY <1>1, <1>2, InvariantHolds, PTL DEF Spec

(* A quote that buys has rebounded from the low it leaves behind.            *)
LEMMA BuyHasRebounded ==
  ASSUME IInv, CandidatesFell, NEW q \in Quotes, on_quote(q), Buys(q)
  PROVE  /\ ~buy_entry_blocked_by_degraded
         /\ output'[1].sym = q.sym /\ q.sym \in Symbols
         /\ output'[1].price = compute_buy_limit_price(q.price)
         /\ q.price \in Prices /\ q.price > 0
         /\ tracked_low'[q.sym] \in Prices /\ tracked_low'[q.sym] # NoPrice
         /\ reference_price[q.sym] \in Prices /\ reference_price[q.sym] # NoPrice
         /\ Fell(reference_price[q.sym], tracked_low'[q.sym])
         /\ Rebounded(tracked_low'[q.sym], q.price)
<1>1. output' = <<BuyCommand(Candidate(q))>>
  BY DEF Buys
<1>2. output' # <<>>
  BY <1>1
<1>3. EvaluateQuote(q)
  BY <1>2 DEF on_quote, IgnoreQuote, CaptureReference, SkipEvaluation
<1>4. /\ q.sym \in Symbols /\ Accepted(q) /\ reference_price[q.sym] # NoPrice
      /\ ~buy_entry_blocked_by_degraded
      /\ tracked_low' = [tracked_low EXCEPT ![q.sym] = low_after(q)]
      /\ q.price \in Prices /\ q.price > 0
  BY <1>3 DEF EvaluateQuote, Accepted, Quotes
<1>5. triggered(q)
  <2> SUFFICES ASSUME ~triggered(q) PROVE FALSE
    OBVIOUS
  <2>1. FlushBuyCandidate({}, states_after(q))
    BY <1>3 DEF EvaluateQuote, IInv, NoStaleCandidate
  <2> QED BY <2>1, <1>2 DEF FlushBuyCandidate
<1>6. is_candidate(q) /\ rebounds(low_after(q), q.price)
  BY <1>5 DEF triggered
<1>7. /\ low_after(q) # NoPrice /\ low_after(q) \in Prices
      /\ Fell(reference_price[q.sym], low_after(q))
  BY <1>4, <1>6, LowHasFallen
<1>8. tracked_low'[q.sym] = low_after(q)
  BY <1>4 DEF IInv, TypeOK
<1>9. Rebounded(low_after(q), q.price)
  <2>1. low_after(q) \in Nat \ {0} /\ q.price \in Nat
    BY <1>4, <1>7, InputAssumption DEF NoPrice
  <2> QED BY <1>6, <2>1, ReboundThreshold DEF rebounds, Rebounded
<1>10. output'[1].sym = q.sym /\ output'[1].price = compute_buy_limit_price(q.price)
  BY <1>1 DEF BuyCommand, Candidate
<1> QED BY <1>4, <1>7, <1>8, <1>9, <1>10 DEF CandidatesFell

(* Only a quote that buys issues a BUY command.                              *)
LEMMA OnlyQuotesBuy ==
  ASSUME IInv, [Next]_vars, command_sequence' > command_sequence,
         output'[1].side = "BUY"
  PROVE  \E q \in Quotes : on_quote(q) /\ Buys(q)
<1>0. command_sequence \in Nat
  BY DEF IInv, TypeOK
<1>1. CASE Quote
  <2>1. PICK q \in Quotes : on_quote(q)
    BY <1>1 DEF Quote
  <2>2. Buys(q) \/ BuysNothing
    BY <2>1, QuoteEffect DEF IInv
  <2> QED BY <1>0, <2>1, <2>2 DEF BuysNothing
<1>2. ASSUME NEW e, on_position_update(e) PROVE FALSE
  <2>1. output' = <<SellCommand(e)>>
    BY <1>0, <1>2 DEF on_position_update, IgnorePosition, ApplyPosition
  <2> QED BY <2>1 DEF SellCommand
<1>3. ASSUME NEW s \in Symbols, Report(s) \/ LateReport(s) PROVE FALSE
  BY <1>2, <1>3 DEF Report, LateReport
<1>4. ASSUME NEW s \in Symbols, BrokerStep(s) PROVE FALSE
  BY <1>0, <1>4 DEF BrokerStep, BuyFills, BuyFails, SellFills, SellFails, tseVars
<1>5. CASE FeedDegrades \/ NewDay \/ UNCHANGED vars
  BY <1>0, <1>5 DEF FeedDegrades, set_buy_entry_blocked_by_degraded, NewDay, on_day_changed,
                    vars, tseVars
<1> QED BY <1>1, <1>3, <1>4, <1>5 DEF Next, BrokerStep

(* The highest low from which a rebound is still measured exactly.           *)
HighestExact == 1500000

(* AC-003, AC-004 for every watch list and every order of quotes and reports *)
(* (on_quote and its helpers, tse/service.py).  Orderable prices up to       *)
(* 1,500,000 won are a hypothesis that the code does not check: above it the *)
(* rounding of a rate to four decimals decides between neighbouring prices.  *)
THEOREM BuysAreJustified ==
  ASSUME \A p \in Prices : p # 0 => OnLadder(p) /\ p <= HighestExact
  PROVE  Spec => BuyIsJustified
<1>1. ASSUME IInv, CandidatesFell, [Next]_vars,
             command_sequence' > command_sequence, output'[1].side = "BUY"
      PROVE  LET s == output'[1].sym
                 low == tracked_low'[s]
             IN  /\ ~buy_entry_blocked_by_degraded
                 /\ 100 * (reference_price[s] - low) >= reference_price[s]
                 /\ \E p \in Prices : /\ 500 * (p - low) >= low
                                      /\ output'[1].price = compute_buy_limit_price(p)
  <2>1. PICK q \in Quotes : on_quote(q) /\ Buys(q)
    BY <1>1, OnlyQuotesBuy
  <2> DEFINE reference == reference_price[q.sym]
             low == tracked_low'[q.sym]
  <2>2. /\ ~buy_entry_blocked_by_degraded
        /\ output'[1].sym = q.sym
        /\ output'[1].price = compute_buy_limit_price(q.price)
        /\ q.price \in Prices /\ q.price > 0
        /\ low \in Prices /\ low # NoPrice
        /\ reference \in Prices /\ reference # NoPrice
        /\ Fell(reference, low)
        /\ Rebounded(low, q.price)
    BY <1>1, <2>1, BuyHasRebounded
  <2>3. /\ reference \in Nat /\ OnLadder(reference) /\ reference <= HighestExact
        /\ low \in Nat /\ OnLadder(low) /\ low <= HighestExact
        /\ q.price \in Nat /\ OnLadder(q.price)
    <3>1. \A p \in Prices : p # NoPrice => p \in Nat /\ OnLadder(p) /\ p <= HighestExact
      BY InputAssumption DEF NoPrice
    <3>2. q.price # NoPrice
      BY <2>2 DEF NoPrice
    <3> QED BY <2>2, <3>1, <3>2, Zenon
  <2> HIDE DEF reference, low
  <2>4. reference \in Nat \ {0} /\ low \in Nat \ {0}
    BY <2>2, <2>3 DEF NoPrice
  <2>5. 100 * (reference - low) >= reference
    <3>1. should_enter_buy_candidate(calc_drop_rate(reference, low))
      BY <2>2, <2>4, DropThreshold DEF Fell
    <3>2. reference <= 6700000
      BY SMT, <2>3 DEF HighestExact
    <3> QED BY SMT, <2>3, <3>1, <3>2, DropIsExact
  <2>6. 500 * (q.price - low) >= low
    <3>1. should_trigger_rebound_buy(calc_rebound_rate(low, q.price))
      BY <2>2, <2>3, <2>4, ReboundThreshold DEF Rebounded
    <3>2. low <= 1500000
      BY SMT, <2>3 DEF HighestExact
    <3> QED BY SMT, <2>3, <3>1, <3>2, ReboundIsExact
  <2> QED BY <2>2, <2>5, <2>6 DEF reference, low
<1>2. IInv /\ CandidatesFell /\ [Next]_vars =>
        [command_sequence' > command_sequence /\ output'[1].side = "BUY" =>
           LET s == output'[1].sym
               low == tracked_low'[s]
           IN  /\ ~buy_entry_blocked_by_degraded
               /\ 100 * (reference_price[s] - low) >= reference_price[s]
               /\ \E p \in Prices : /\ 500 * (p - low) >= low
                                    /\ output'[1].price = compute_buy_limit_price(p)]_vars
  BY <1>1
<1> QED BY <1>2, CandidatesHold, PTL DEF Spec, BuyIsJustified

-----------------------------------------------------------------------------
(* TradingDay implements DailyTrade: every step of the engine, the broker or *)
(* the calendar is a step of the abstract day or changes nothing there.      *)

Phase == [s \in Symbols |-> IF position[s] \in Live THEN position[s] ELSE "none"]

Sold == \E s \in Symbols : sells[s] > 0

LEMMA InitRefines == Init => Trade!Init
  BY DEF Init, Trade!Init, Live

(* Setting one position sets that symbol's phase and no other.               *)
LEMMA PhaseFollows ==
  ASSUME TypeOK, NEW s \in Symbols, NEW to \in PositionStates,
         position' = [position EXCEPT ![s] = to]
  PROVE  Phase' = [Phase EXCEPT ![s] = IF to \in Live THEN to ELSE "none"]
  BY DEF Phase, TypeOK

LEMMA QuoteRefines ==
  ASSUME IInv, Quote
  PROVE  UNCHANGED <<Phase, Sold>> \/ \E s \in Symbols : Trade!Buy(s)
<1> PICK q \in Quotes : on_quote(q) /\ ReceiveCommands
  BY DEF Quote
<1>1. Buys(q) \/ BuysNothing
  BY QuoteEffect DEF IInv
<1>2. CASE Buys(q)
  <2>1. /\ position' = [position EXCEPT ![q.sym] = "pending"]
        /\ sells' = sells
        /\ q.sym \in Symbols
    BY <1>2 DEF Buys, BuyCommand, Candidate, ReceiveCommands
  <2>2. portfolio.active_symbol = NoSymbol /\ NoSymbol \notin Symbols
    BY <1>2, WatchListAssumption DEF Buys, GateOpen, IInv, GateAgreesWithPositions, Symbols
  <2>3. \A t \in Symbols : position[t] \notin Live
    BY <2>2 DEF IInv, GateAgreesWithPositions
  <2>4. \A t \in Symbols : Phase[t] = "none"
    BY <2>3 DEF Phase
  <2>5. Phase' = [Phase EXCEPT ![q.sym] = "pending"]
    BY <2>1, PhaseFollows DEF IInv, PositionStates, Live
  <2>6. Sold' = Sold
    BY <2>1 DEF Sold
  <2>7. Trade!Buy(q.sym)
    BY <2>1, <2>4, <2>5, <2>6 DEF Trade!Buy, Trade!Moves, Phase, Sold
  <2> QED BY <2>1, <2>7
<1>3. CASE BuysNothing
  BY <1>3 DEF BuysNothing, ReceiveCommands, Phase, Sold
<1> QED BY <1>1, <1>2, <1>3

(* A report sells the open position, once, or changes no position.           *)
LEMMA ReportRefines ==
  ASSUME IInv, NEW s \in Symbols, Report(s)
  PROVE  UNCHANGED <<Phase, Sold>> \/ Trade!Sell(s)
<1>0. PICK st \in Passed(s) :
         \E e \in Reports(s, trading_date, st) : on_position_update(e) /\ ReceiveCommands
  BY DEF Report
<1>1. PICK e \in Reports(s, trading_date, st) : on_position_update(e) /\ ReceiveCommands
  BY <1>0
<1>2. st \in PositionStates \ {"none"} /\ trading_date \in Days
  BY DEF Passed, IInv, TypeOK
<1>3. Sells(e) \/ SellsNothing
  BY <1>1, <1>2, ReportEffect DEF IInv
<1>4. CASE Sells(e)
  <2>1. e.sym = s
    BY DEF Reports
  <2>2. /\ position' = [position EXCEPT ![s] = "exiting"]
        /\ sells' = [sells EXCEPT ![s] = @ + 1]
    BY <1>1, <1>4, <2>1 DEF Sells, SellCommand, ReceiveCommands
  <2>3. \A t \in Symbols : ~(sells[t] > 0)
    BY <1>4 DEF Sells, IInv, LockBelongsToThePosition
  <2>4. sells[s] \in Nat /\ sells'[s] = sells[s] + 1
    BY <2>2 DEF IInv, TypeOK
  <2>5. position[s] = "open"
    BY <2>4, ReportStep
  <2>6. Phase[s] = "open" /\ Phase' = [Phase EXCEPT ![s] = "exiting"]
    BY <2>2, <2>5, PhaseFollows DEF IInv, PositionStates, Live, Phase
  <2>7. ~Sold /\ Sold'
    BY <2>3, <2>4 DEF Sold
  <2>8. Trade!Sell(s)
    BY <2>6, <2>7 DEF Trade!Sell, Trade!Moves, Phase, Sold
  <2> QED BY <2>8
<1>5. CASE SellsNothing
  BY <1>1, <1>5 DEF SellsNothing, ReceiveCommands, Phase, Sold
<1> QED BY <1>3, <1>4, <1>5

(* A report of an earlier day is ignored, whatever it says.                  *)
LEMMA LateReportRefines ==
  ASSUME IInv, NEW s \in Symbols, LateReport(s)
  PROVE  UNCHANGED <<Phase, Sold>>
<1>1. PICK date \in Days, st \in {"failed", "open", "closed"} :
         /\ date < trading_date
         /\ \E e \in Reports(s, date, st) : on_position_update(e) /\ ReceiveCommands
  BY DEF LateReport
<1>2. PICK e \in Reports(s, date, st) : on_position_update(e) /\ ReceiveCommands
  BY <1>1
<1>3. e.date # trading_date
  BY <1>1, <1>2, InputAssumption DEF IInv, TypeOK, Reports
<1>4. UNCHANGED <<position, sells>>
  BY <1>2, <1>3 DEF on_position_update, ApplyPosition, IgnorePosition, Concerns, ReceiveCommands
<1> QED BY <1>4 DEF Phase, Sold

LEMMA BrokerRefines ==
  ASSUME IInv, NEW s \in Symbols, BrokerStep(s)
  PROVE  Trade!BuySettles(s) \/ Trade!SellSettles(s)
<1>1. Sold' = Sold
  BY BrokerStepKeeps DEF Sold
<1>2. PICK to \in {"open", "failed", "closed"} :
         /\ position' = [position EXCEPT ![s] = to]
         /\ \/ position[s] = "pending" /\ to \in {"open", "failed"}
            \/ position[s] = "exiting" /\ to \in {"open", "closed"}
  BY DEF BrokerStep, BuyFills, BuyFails, SellFills, SellFails
<1>3. Phase' = [Phase EXCEPT ![s] = IF to = "failed" THEN "none" ELSE to]
  <2>1. to \in PositionStates /\ (IF to \in Live THEN to ELSE "none")
                                   = (IF to = "failed" THEN "none" ELSE to)
    BY DEF PositionStates, Live
  <2> QED BY <1>2, <2>1, PhaseFollows DEF IInv
<1>4. Phase[s] = position[s]
  BY <1>2 DEF Phase, Live
<1>5. CASE position[s] = "pending"
  BY <1>1, <1>2, <1>3, <1>4, <1>5 DEF Trade!BuySettles, Trade!Moves, Phase, Sold
<1>6. CASE position[s] = "exiting"
  BY <1>1, <1>2, <1>3, <1>4, <1>6 DEF Trade!SellSettles, Trade!Moves, Phase, Sold
<1> QED BY <1>2, <1>5, <1>6

LEMMA NewDayRefines == ASSUME IInv, NewDay PROVE Trade!NewDay
  BY DEF NewDay, Trade!NewDay, Live

LEMMA NextRefines == IInv /\ [Next]_vars => [Trade!Next]_<<Phase, Sold>>
<1> SUFFICES ASSUME IInv, [Next]_vars PROVE [Trade!Next]_<<Phase, Sold>>
  OBVIOUS
<1>1. CASE Quote
  BY <1>1, QuoteRefines DEF Trade!Next
<1>2. ASSUME NEW s \in Symbols, Report(s) PROVE [Trade!Next]_<<Phase, Sold>>
  BY <1>2, ReportRefines DEF Trade!Next
<1>3. ASSUME NEW s \in Symbols, LateReport(s) PROVE [Trade!Next]_<<Phase, Sold>>
  BY <1>3, LateReportRefines
<1>4. ASSUME NEW s \in Symbols, BrokerStep(s) PROVE [Trade!Next]_<<Phase, Sold>>
  BY <1>4, BrokerRefines DEF Trade!Next
<1>5. CASE FeedDegrades
  BY <1>5 DEF FeedDegrades, Phase, Sold
<1>6. CASE NewDay
  BY <1>6, NewDayRefines DEF Trade!Next
<1>7. CASE UNCHANGED vars
  BY <1>7 DEF vars, Phase, Sold
<1> QED BY <1>1, <1>2, <1>3, <1>4, <1>5, <1>6, <1>7 DEF Next, BrokerStep

(* The strategy engine implements the abstract trading day, for any watch    *)
(* list, any order of quotes and reports and any number of days.             *)
THEOREM Refinement == Spec => ImplementsDailyTrade
<1>1. Init => Trade!Init
  BY InitRefines
<1>2. IInv /\ [Next]_vars => [Trade!Next]_<<Phase, Sold>>
  BY NextRefines
<1> QED BY <1>1, <1>2, InvariantHolds, PTL DEF Spec, ImplementsDailyTrade, Trade!Spec, Phase, Sold

=============================================================================
