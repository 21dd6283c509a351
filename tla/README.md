# Formal verification of the one-day, one-position trading system

TLA+ models of the trading system under `src/`, the TLC configurations that
explore them, and proofs checked by TLAPS. Every definition is translated from
the Python source; `PROJECT.json` gives the source lines behind each of them.

The system watches up to twenty KOSPI symbols on a trading day. It fixes a
reference price for each at 09:03 (or resumes one of 08:30), waits for a fall of
1 %, follows the low, buys the first symbol that rebounds by 0.2 %, holds this
one position, and sells it when less than 80 % of its best profit is left.

## 1. Inventory

### Parts, their state and their operations

| part | state it keeps | operations that change it |
|---|---|---|
| **TSE** strategy engine, `tse/service.py`, `scheduler.py` | per symbol: state, reference price, tracked low; portfolio (gate, active symbol, lock, sell signal); the queue of candidates; the degraded block; a command counter | `on_quote`, `on_position_update`, `on_day_changed`, `set_buy_entry_blocked_by_degraded` |
| **TSE** quote monitoring loop, `tse/quote_monitoring.py` | loop state, counters of consecutive failures and successes | `start`, `run_cycle`, `stop`, `run_forever` |
| **Price and tick rules**, `tse/rules.py`, `opm/tick_rules.py` | none | rates, thresholds, tick ladder, limit prices |
| **UAG** application service, `uag/service.py` | engine state, mode, snapshots of the symbols, the worker thread, the stop event, gateway and engine references; the snapshot file | `start_trading`, `shutdown`, restoring and resuming at process start, the worker's cycle, `_execute_tse_command` |
| **OPM** order manager, `opm/service.py` | orders, the position, the executions it knows | `create_order`, `move_order_status`, `reconcile_execution_events` |
| **PRP** ledger and reports, `prp/repository.py`, `reporting.py` | tables of order events, executions, positions, strategy events, trade details, daily reports | the appends with their unique keys, `generate_daily_report` and its two upserts |
| **KIA** broker client, `kia/api_client.py`, `token_provider.py`, `error_mapper.py` | the token cache and its lock, the rate lock, the store of answered orders, the last mode routed | `call`: routing by mode, attempts and retries, the refresh of a token and the request sent again |
| **KIA** gateway, `kia/gateway.py`, `endpoint_resolver.py` | none | the batch of quotes and the symbol each answer is given to, orders |
| **CSM** settings and credentials, `csm/*` | two files | `save_settings`, `switch_mode`, the two files a new process makes sure of |
| **UAG** HTTP interface and backtest, `uag/bootstrap.py`; process entry `app.py` | none of their own | request handlers that call the operations above |

### How the parts interact

* The worker thread of UAG calls `run_cycle`; the loop polls the gateway of KIA
  and calls `TseService.on_quote` for each quote. Commands come back as return
  values, not as messages.
* After the cycle UAG reports every position of its snapshots to
  `on_position_update`, records quotes and commands in the snapshots, writes the
  file, and only then executes the commands: OPM's `create_order` and
  `move_order_status`, each with an event in PRP, around KIA's `submit_order`.
* A request thread starts and shuts the engine down, asks for reports and saves
  settings. A shutdown waits two seconds for the worker and goes on regardless.
* What survives the end of the process: the snapshot file, the SQLite tables of
  PRP, the files of CSM, and whatever the broker holds. A new process on the same
  day restores the snapshots and resumes a running engine by itself.
* `reconcile_execution_events`, `opm_bridge` and `append_execution_event` are
  offered to callers that do not exist in `src/` yet; they are modelled by what
  they do for any caller, except `opm_bridge`, a pure mapping.

### What is hard here

1. Order of events: quotes of several symbols and position reports, late,
   repeated, out of order, for an order that failed or a day that is over.
2. Threads: the worker against the thread that stops it; a wait that times out;
   two assignments that belong together without a lock.
3. Crashes: a command is recorded, sent and confirmed in separate steps; memory
   (the gate, the lock, the tracked low) must be rebuilt from the file.
4. A merge of memory and file that may bring back what was cleared; two files
   that belong together and are written one after the other.
5. The broker: answers lost, broken off or unreadable after the order was taken,
   tokens refused at any time, quotes that name no symbol, executions repeated,
   reordered and out of date.
6. Retries: what may be sent again, with which token, by which of several threads
   that refresh it at once.
7. Several writes that belong together (fill, order, status; details, report) of
   which one may fail.
8. Numbers: changes of tick size, tolerances, rounding folded over many fills or
   split over many lots.

`PROJECT.json` lists each hazard at its line with the properties that cover it.

### What makes each part correct

* **TSE engine** – one live buy per day; a buy only on evidence (fall, rebound,
  known reference, healthy feed); one sell, only of an open position, only after
  the lock; gate, portfolio and the order manager's positions agree.
* **Monitoring loop** – degraded exactly by the history of its cycles; buying is
  blocked while degraded, and allowed again once the feed heals; stopping ends
  it; a quote of a full batch is given to its own symbol.
* **Price rules** – limit prices are on the ladder and two ladder steps away;
  rounding and tolerance never change a decision.
* **UAG engine** – no order twice, whatever crashes; the file remembers the day,
  so that a bought symbol stays barred after a resumption.
* **OPM** – every execution counts once, in order, position and ledger alike;
  statuses only move along `ALLOWED_TRANSITIONS`; FILLED only when executed.
* **PRP** – first in, first out; the report is the sum of its details.
* **KIA** – a call hands its order to the broker at most once and reports its fate
  truthfully; the cache holds the newest token, a refused one is gone for good;
  every call ends.
* **CSM** – settings never name credentials that were not written; the mode does
  not change under an engine that trades.

## 2. Modules

```
PriceRules ─┬─> TseService ─┬─> TradingDay          (implements DailyTrade)
            │               ├─> QuoteMonitoring
            │               └─> UagEngine
            └─> PrpReporting                          OpmOrders

CsmSettings ──> KiaClient

MCPriceRules ──> TseServiceProofs ──┬─> TradingDayProofs
                                    ├─> UagEngineProofs
SumTheorems ──┬─────────────────────┴─> QuoteMonitoringProofs
              ├─> OpmOrdersProofs
              └─> PrpReportingProofs                  KiaClientProofs
```

`TseService` is the strategy engine without an environment: one action for each
public operation, each the whole call; `output` is what it returned. Three
modules put it into three environments. `KiaClient` extends `CsmSettings`: the
threads of the client read the files while the requests that save them, the
start of an engine and a crash are steps of the same system.

| module | models | state ↔ code |
|---|---|---|
| `PriceRules` | `tse/rules.py`, `opm/tick_rules.py`, the entry band of `tse/service.py` | prices in won, rates in 0.0001 % (the quantum `PCT_Q`), quotients rounded half up as `Decimal` does |
| `TseService` | `tse/service.py`, `tse/scheduler.py` | variables carry the names of `TseContext`, `SymbolContext` and `PortfolioContext`; the heap is a set, its order `Before` |
| `TradingDay` | the engine with an order manager that settles orders and reports late, repeatedly and out of order, over several days | `position` and `sells` are the order manager's view; a report carries any state of `Passed`, the states the position has been in today |
| `DailyTrade` | the abstract promise of a day: one symbol is bought (another after a failed buy), its position is offered for sale once | `TradingDay` implements it with `phase` and `sold` read off the order manager's view |
| `QuoteMonitoring` | the loop with its worker and the thread that stops it | `worker` and `stopper` are program counters; every assignment the other thread can see is a step; the batch is the gateway's, `of` the symbol a quote was polled for |
| `UagEngine` | the application service: worker, snapshots, file, order execution, shutdown, crash, resumption | `snapshots`, `file`, `ledger` as in the code; `broker_calls` records what the broker received |
| `OpmOrders` | orders, position and execution ledger under reconciliation | a call is a step per fill and one for the order, each with a write that may raise |
| `PrpReporting` | the executions of a day, FIFO pairing and the two transactions of a report | `trade_details`, `daily_report` are the tables |
| `CsmSettings` | the two files and the requests that write them | `settings`, `credentials` are the files; `request` is what is left of a save |
| `KiaClient` | the client and its threads, over `CsmSettings` | `cache`, `token_lock`, `rate_lock`, `store`, `last_mode` as in the code; `pc` and `call` are a thread's place and locals; `issued` counts the broker's tokens |
| `*Proofs` | lemmas and theorems on the module in their name | `TseServiceProofs` holds what every environment of the strategy engine uses, the price rules included |
| `SumTheorems` | facts about finite sums | the sums of `OpmOrders`, `PrpReporting` and of the proofs |
| `MC*` | values of the constants | `MCPriceRules` also holds a walk over the ladder, tick by tick, and reference definitions |

An operator marked *Faulty variant* is not used by any model. It is a plausible
mistake in the definition that follows it (a dropped guard, a missing reset, an
off-by-one); putting it in place of that definition makes TLC find the property
listed with it in `PROJECT.json` violated, so no property holds vacuously.

### Modelling decisions

* A price of 0 (`NoPrice`) is Python's `None`; stored prices are positive.
* The time of a quote only matters against 08:30 and 09:03, so a clock has a value
  before, between and after them.
* In `QuoteMonitoring` the error counters saturate at their thresholds: the code
  only compares them with the thresholds (`>=`) after resetting or adding one.
* In `UagEngine` poll and evaluation of a symbol are one step (what a poll
  returns does not depend on the quotes evaluated before it in the cycle), as are
  the two ends of the shutdown's wait: in between the worker does what it did
  before, or less. On start, the write of the file and the start of the thread
  are one step.
* In `TradingDay` a report may carry any state its position has been in on that day,
  or a state of an earlier day, and may arrive at any time, again and again. This is
  what `on_position_update` has to withstand; UAG, its only caller, reports held
  positions only, in order. A buy that failed is taken never to have been filled.
  With stale reports the state and the gate can part: BUY_FAILED reopens the gate,
  a BUY_REQUESTED that it overtook then sets the state again, and no symbol is bought
  for the rest of the day unless another BUY_FAILED comes. Nothing is bought wrongly,
  which is what `GateAgreesWithPositions` and `SingleBuy` say.
* In `UagEngine` the write of the snapshot file succeeds. The code swallows an
  `OSError` there and goes on, so an order may be sent that no file records:
  `OneOrderPerSymbolAndSide`, `RecordedBeforeSent`, `FileIsCurrent` and `DayIsKept`
  are claimed for a file that can be written.
* In `OpmOrders` the position snapshot and the interim profit figures, which no
  decision reads, are left out. `move_order_status` is called with `Decisions`: the
  code would take FILLED and PARTIALLY_FILLED from a caller too, wherever
  `ALLOWED_TRANSITIONS` has them, but no caller in `src/` passes them.
  `FilledIsExecuted` rests on that.
* In `KiaClient` the steps of a call are separated wherever another thread, the
  broker or a crash can come between; storing an answer and ending the call are one
  step, as nothing is read between them. Tokens are numbered in the order of their
  issue; a start of the engine and a crash make a new client. The broker may refuse
  any token at any time. What is assumed of it: a request that is refused or
  answered with an error had no effect. One whose answer is lost (a timeout,
  `KIA_API_TIMEOUT`), breaks off (a reset connection, `KIA_UNKNOWN`) or cannot be
  read (no JSON, no object: `KIA_RESPONSE_INVALID`) may have been taken. Every
  other status (404, 409, ...) ends a call as 403 does, under a code of its own or
  as `KIA_UNKNOWN`. The same failures of a request for a token are no `KiaError`
  and end the call ("Exception").
* `transport` is "raises" for the code's own `urllib_transport`, where every HTTP
  error is a `URLError` and becomes `KIA_API_TIMEOUT`, and "returns" for a
  transport that hands the status back, as those of the tests do. Both are checked
  and proved; the refresh of an expired token is only reached with the second.
* "quote" stands for a poll of the batch, which the gateway repeats once, as a new
  call, after a timeout or a limit; "order" for `submit_order`; "chart" for every
  other request. The mock client has no state and answers at once.
* In `PrpReporting` ties of equal execution times fall to the primary key, which
  the code draws at random: executions may enter with any free key. The loop over
  the sorted executions is a recursive function over the sets already accounted
  for; what a sell takes from a lot is stated for all lots at once, by the shares
  that are ahead of it.

## 3. Runs

| run | asks | distinct states |
|---|---|---|
| `price_rules` | Are the decisions and limit prices those of exact fractions and of the ladder, around every change of tick? | 8,004 |
| `trading_day` | Does the engine buy once, on evidence, and sell once, whatever the order of quotes and reports? Does it implement `DailyTrade`? | 23,148 |
| `quote_monitoring` | Does the loop degrade, recover and stop as promised while worker and stopper interleave? Does a quote keep its symbol? Liveness too. | 52,068 |
| `uag_engine` | Across a crash or shutdown at any step, is no order sent twice and nothing of the day forgotten? | about 1.5 million |
| `opm_orders` | Do repeated, reordered and interrupted deliveries leave order, position and ledger consistent? | about 1.5 million |
| `kia_client` | Two threads share the client while settings are saved, tokens expire, answers are lost, broken off or unreadable and the process dies: are orders taken as reported, is the token cache right, are the files consistent, does every call end? | 149,074 |
| `prp_reporting` | Is pairing FIFO and the report the sum of its details, with late executions and generations cut short? | 216,758 |

`second_buy`, `unheld_sell`, `protected_profit` and `rejected_at_broker` each check
one statement of the documents against `UagEngine`, `mode_under_engine` one against
`KiaClient`; they end in a counterexample (section 6).

### Bounds, and why they are enough

* **Two symbols** (everywhere). The engine has one gate and one active symbol; two
  symbols are what it takes to compete for them. `TradingDay` adds one symbol
  outside the watch list.
* **Prices** tell one whole story of the strategy: a reference, a fall of exactly
  one percent, a deeper low, the rebound above either, a profit over one percent
  and its loss. `price_rules` covers the arithmetic itself: every price in
  windows around every change of tick size and `MaxTicks = 14` ladder steps
  away from it, past both thresholds.
* **`Days = {0, 1}`**: one day change, and reports of the day before.
  `MaxSequence = 1`: the order of two candidates is never needed, because no
  candidate outlives its call (`NoStaleCandidate`, proved).
* **Thresholds 3 and 2** of the loop are the code's.
* **`MaxBatch = 1`, `MaxRestarts = 1`** (`uag_engine`): a cycle answers the quote
  of either symbol or of none, and one crash may fall between any two steps;
  a resumption in turn can be followed by a shutdown. With a later crash the
  process is again at a state the first crash could leave: what survives is the
  file, the ledger and the broker, and `FileIsCurrent` ties the file to memory.
* **`MaxFills = 2`, `MaxFailures = 1`** (`opm_orders`): a delivery can repeat a
  fill within a call and over calls, or invert two; one write may fail in any
  call. A buy of three shares fills in up to three pieces at two prices, a sell
  of one after it.
* **`MaxExecutions = 4`, `MaxCrashes = 1`** (`prp_reporting`): two lots and two
  sells, where a sell spans lots and a lot spans sells; another symbol in
  between; a crash in the first or the second transaction.

* **Two threads, `MaxCalls = 2`, `MaxTokens = 3`, `MaxSaves = 1`** (`kia_client`):
  one thread polls quotes, the other asks for charts or submits orders under one
  key, so that an order is repeated under the key of an answered one. Two calls
  may refresh the same token at once; with three tokens one of them is refused
  again after its refresh. `retry_attempts = 2` of the code's 3: a third attempt
  begins in the state the second began in, and the proofs hold for any number.
  Crashes and starts are not bounded: each of them gives a new client, which
  starts over.

### Deadlock

TLC looks for deadlocks in every run but two kinds: the ladder walk of
`price_rules` ends at its bound, and in `UagEngine` the process that was shut down
is never started again, so the worker ends and the system comes to rest. These
configurations say `CHECK_DEADLOCK FALSE`.

### Fairness

* `quote_monitoring`: `WF(WorkerStep)`, the worker thread keeps running, every call
  it makes returns (polls end by timeout) and the code has no lock it could wait
  for. `WF(StopLoop \/ StopUnblocks)`: a stop that was requested goes on to its end;
  the request itself is not fair, nobody has to stop the loop. The broker's health
  is never fair: `HealthyFeedUnblocks` is conditional on a feed that stays healthy
  from some point on.
* `kia_client`: `WF(CallStep(t))` for each thread: a thread in a call goes on, and a
  request in flight is answered or times out (every request carries a timeout).
  Which of the two it is, is not fair: the broker may fail for ever. Starting a
  call, saving settings, crashes and the ageing of a token are not fair either.
  That a thread gets the lock it waits for rests on `MaxCalls`: `threading.Lock` is
  not fair, and a stream of other calls without end could starve it.

## 4. Proofs

Every theorem holds for every value of the constants that satisfies the named
assumptions, which TLC evaluates in the runs of the same module.

| module | theorem | statement |
|---|---|---|
| `TradingDayProofs` | `TypeCorrect` | `Spec => []TypeOK` |
| | `SingleBuyHolds` | `Spec => []SingleBuy` |
| | `GateAgrees` | `Spec => []GateAgreesWithPositions` |
| | `QueueIsEmptyBetweenCalls` | `Spec => []NoStaleCandidate` |
| | `SoldOnce` | `Spec => []SellAtMostOnce` |
| | `LockFollowsPosition` | `Spec => []LockBelongsToThePosition` |
| | `SellsOnlyOpen` | `Spec => SellOnlyOpenPosition` |
| | `ReferenceStays` | `Spec => ReferenceIsFixed` |
| | `BuysAreJustified` | `Spec => BuyIsJustified`, for prices on the ladder up to 1,500,000 won |
| | `Refinement` | `Spec => ImplementsDailyTrade` |
| `TseServiceProofs` | `BuyLimitIsTwoUp` | `WalkSpec => []BuyLimitIsTwoLadderStepsUp` |
| | `SellLimitIsOrderable` | `WalkSpec => []SellLimitIsMarketable` |
| | `ThresholdsAreExact` | `WalkSpec => []ToleranceNeverDecides` |
| | `LowsHaveBuyPrices` | `WalkSpec => []EveryLowHasABuyPrice` |
| `QuoteMonitoringProofs` | `BlockFollowsLoop` | `Spec => []BlockedIffDegraded` |
| | `FailingFeedBuysNothing` | `Spec => NoBuyFromFailingFeed` |
| | `HistoryDecides` | `Spec => HysteresisFollowsHistory` |
| | `QuotesGoNoFurther` | `Spec => []QuotesKeepTheirSymbols` |
| | `TypeCorrect` | `Spec => []TypeOK` |
| `UagEngineProofs` | `TypeCorrect` | `Spec => []TypeOK` |
| | `OrdersAreSentOnce` | `Spec => []OneOrderPerSymbolAndSide` |
| | `ProcessBuysOnce` | `Spec => []OneBuyPerSession` |
| | `SentIsRecorded` | `Spec => []RecordedBeforeSent` |
| | `NothingToLose` | `Spec => []FileIsCurrent` |
| | `DayIsKept` | `Spec => DayIsNeverForgotten` |
| `KiaClientProofs` | `TypeCorrect` | `Spec => []TypeOK` |
| | `SettingsAreBacked` | `Spec => []SettingsNameWrittenCredentials` |
| | `CacheIsNewest` | `Spec => []CachedTokenIsNewest` |
| | `RefusedTokensAreGone` | `Spec => []RejectedTokenIsGone` |
| | `OrdersAreReported` | `Spec => []OrdersAreTakenAsReported` |
| `OpmOrdersProofs` | `AmountsAreNatural` | `Spec => []TypeOK` |
| | `TransitionsAreFollowed` | `Spec => StatusFollowsTransitions` |
| | `ExecutionsCountOnce` | `Spec => []FillsCountOnce` |
| | `PositionFollows` | `Spec => []PositionFollowsFills` |
| | `FilledMeansExecuted` | `Spec => []FilledIsExecuted` |
| | `AveragesStayExact` | `Spec => []AveragesAreExact` |
| `PrpReportingProofs` | `TypeCorrect` | `Spec => []TypeOK` |
| | `ReportAddsUp` | `Spec => []ReportIsTheSumOfDetails` |
| | `LateOnlyAdds` | `Spec => LateExecutionsOnlyAdd` |
| | `FirstInIsFirstOut` | `Spec => []PairsAreFirstInFirstOut` |
| `SumTheorems` | `SumOfTheSame`, `SumWithout`, `SumOfUnion`, `SumOfDifference`, `SumRenamed`, `SumMonotone` | laws of finite sums |

`SoldOnce`, `SellsOnlyOpen` and `ReferenceStays` are proved without being a property
of a run.

### Induction over data (`SumTheorems`)

The models sum with `SumFunction` and account for executions with a recursive
function over the subsets of a finite set. The library's induction theorems take
an operator as a parameter, which none of the provers can instantiate; so each
induction here takes a smallest counterexample instead: a least natural number
(`LeastNatural`), or a subset all of whose own subsets are no counterexamples
(`MinimalSubset`, from the well-foundedness of strict inclusion). That such a
recursive function exists is proved the same way, from the small subsets to the
large ones (`SumExists`, `BooksExist`, `AnswersExist`), and that it is the same
for the subsets two of them share (`SumsAgree`, `BooksAgree`).

### Price rules (`TseServiceProofs`)

`MCPriceRules` walks the ladder tick by tick from the base prices of its windows;
`MaxTicks`, the length of the walk, is any number in the proofs. `WalkInv` says that
the walk stays on the ladder. A limit price two ticks away is then a matter of the
bands it crosses (`Bands`, `BuyLimitOnLadder`). `RateIsNearest` says of the
quotient, taken three digits at a time, that it is the nearest multiple of
0.0001 %; so a decision at a threshold `k` is the comparison
`2000000 * num + den >= 2 * den * k` (`RateReaches`), off by less than a unit of the
last digit from the exact one. Between two prices of the ladder the exact ratio
never falls in that gap, up to a reference of 6,700,000 won (`DropIsExact`) and a
low of 1,500,000 won (`ReboundIsExact`). Beyond, it does: 1,504,000 won after a
low of 1,501,000 is a rebound of 0.19987 %, and triggers a buy. `EntryPriceExists`
finds the first price that triggers, in the band, above any low.

### Strategy engine (`TseServiceProofs`, `TradingDayProofs`)

For every watch list (of up to 20 distinct symbols, as validated by the
settings), every set of prices, times and rates and any number of days.
Assumptions: `WatchListAssumption` (distinct symbols, none of them `None`),
`CaptureTimeAssumption`, `InputAssumption` (prices and times are naturals, rates
integers). Nothing is assumed of the thresholds beyond their definitions.

`SingleBuy` is not inductive: a second buy is ruled out by the
closed gate, and the gate stays closed only because reports that would reopen it
are about the active symbol and carry a state it has been in. So the inductive
invariant is

```
IInv == TypeOK /\ NoStaleCandidate /\ GateAgreesWithPositions
          /\ LockBelongsToThePosition /\ SellAtMostOnce /\ SoldWasOpen
```

* `NoStaleCandidate` makes the queue a local matter of one call: with an empty
  queue `on_quote` either buys the symbol of the quote through an open gate or
  buys nothing (`EngineQuote`, shared by the three environments).
* `GateAgreesWithPositions` turns an open gate into "no live position" and a
  closed one into "only the active symbol is live", from which `SingleBuy`
  follows. A report, however stale, changes the gate only if it says BUY_FAILED of
  the active symbol, and then the position has failed: a symbol is bought once a
  day, and a failed buy stays failed (`EngineReport`, `ReportStep`). With an open
  gate the only report that finds no live position is one of a failed buy, so all it
  can do is hold further buys back.
* `SoldWasOpen`: a SELL was issued of a bought position only, so a stale report of a
  sell under way is never about a buy that failed.
* `LockBelongsToThePosition` carries the sell signal: a position that is exiting
  or closed has used it. It is needed because a sell that fails at the broker
  reopens the position, and only the spent signal prevents another SELL.

`NextIInv` has a lemma per kind of step. The action properties follow from the
invariant and the effects of the two calls.

`BuysAreJustified` relates a BUY to prices seen earlier, and needs what the engine
remembers of them: `CandidatesFell` says of every symbol in BUY_CANDIDATE that its
tracked low has fallen far enough below its reference. The low only falls
further, and the reference stays. With the rebound of the quote that buys, the two
rounded comparisons are exact under the theorem's own hypothesis: prices are
prices of the ladder, and no higher than 1,500,000 won (`HighestExact`).

The refinement maps a symbol's phase to its position while that is live, and to
"none" otherwise; the SELL of the day was issued when some `sells` is positive. A
quote that buys maps to `Buy` because the open gate means that no phase is live, a
report that sells maps to `Sell` because an unspent signal means that nothing was
sold, the broker's steps map to `BuySettles` and `SellSettles`, the day change to
`NewDay`, and everything else leaves phases and sale alone.

### Monitoring loop (`QuoteMonitoringProofs`)

For every watch list, all prices and all thresholds (`ThresholdAssumption`: they
are positive). `BlockInv` extends `BlockedIffDegraded` to every place of the worker
within a cycle; only between the change of the state and the call that sets or
lifts the block may the two differ. `HistoryInv` relates the counters to the
history: each counter is the length of the run of failures, or successes, at the
end of `recent`, up to its threshold; `RememberExtendsRuns` says what one more
cycle makes of such a run. A cycle that completes a run is then the one that
reaches the threshold. A command comes only out of a quote through an unblocked
engine (`OnlyQuotesBuy`), and a run of failures means a block.

`BatchInv` follows a batch from the request to the last quote: the answers are the
symbols polled with the missing ones left out, in the order of the watch list
(`AnswersKeepTheOrder`), so the n-th answer was polled for the n-th symbol of the
list or a later one. Dropping the quotes already evaluated keeps the places
(`TakeKeepsBatch`). `StopInv` ties the thread that stops the loop to its request,
and with `BatchInv` and `HistoryInv` gives the types.

### Application service (`UagEngineProofs`)

For every watch list, all prices and any number of crashes. Assumptions: those of
the strategy engine, `ClockAssumption` (the clock has its three values) and
`QuoteAssumption` (prices are naturals). That an order is not sent twice after a
crash rests on a chain from the file to the broker, and each part of

```
IInv == Types /\ Phases /\ Hours /\ FileAgrees /\ Gate /\ Sent /\ Ledger
```

is a link of it:

* `Phases`: where the worker is and what it holds there; one quote a symbol in a
  cycle, an order only while commands are executed, a new portfolio without a
  worker.
* `Hours`: nothing is bought before 09:03, so a purchase or a sale is recorded with
  a time, and never looks like one that did not happen.
* `FileAgrees`: the file holds what the memory holds, but for the current prices.
  This is not one assignment: a write merges memory and file, and skips what
  looks unchanged. `MergeIsNew` says that the merge is the newer record whenever
  that only grew (`Grows`), and every step of a cycle only grows it.
* `Gate`: the gate closes with the first BUY of a process; while it is open, the
  symbols an earlier process bought are `BUY_BLOCKED`, because the resumption read
  them from the file. A command fits the snapshot it will be recorded in, and is
  recorded when it is executed.
* `Sent`: whatever reached the broker is in the file, and no command that is still
  unsent (`Unsent`) repeats it: not in this process by the gate and the spent sell
  signal, not after a crash by the file.
* `Ledger`: an order the broker received is in the ledger as SUBMITTED at least.

`NextIInv` has a lemma per action, which also gives `FileGrows`, from which
`DayIsKept` follows.

### Broker client and settings (`KiaClientProofs`)

For any number of threads, services, keys, attempts, saves and crashes, and both
kinds of transport. Assumptions: `SavesAssumption`, `ClientAssumption` (at least
one attempt; `NoThread` is no thread).

* `CsmInv`: credentials once saved have their keys, and a save in progress has
  written them; so the write of the settings that follows, or the crash in
  between, leaves settings that name written credentials.
* `TokenInv`: the token lock is held exactly by the thread that has asked for a
  token or is about to cache it; such a token is the newest and nobody else knows
  it; a token a call has seen refused is older than the cached one and the call's
  next. `invalidate` takes no lock, and may drop the token another thread has just
  cached: that costs a refresh, and never brings an old token back.
* `TakenEnds`: a call that handed over its order is over, as a success or with one of
  the three codes of a request without an answer (`Unanswered`). It is inductive
  because none of the three is tried again for an order (`should_retry`) and a
  refresh follows a refusal only, which took nothing.

### Orders (`OpmOrdersProofs`)

For any orders, quantities, fills and lost writes (`OrderAssumption`: quantities
and prices are positive). `Types` bounds every amount by the naturals, which
includes that a sell never takes more than the position has (`FilledPositionType`).
`LedgerAgrees`, a terminal status in the ledger is the order's own, is what makes
"the last one stored" hold when writes are lost in between.

The sums over fills are a second invariant,

```
Amounts == OwnFills /\ WithinRequest /\ OrdersCounted /\ PositionBooked /\ FilledIsExecuted
```

* `OrdersCounted`: an order has executed the sum of its fills in the ledger, and its
  average is within half a unit of the last digit for each of them. One more
  rounding is off by at most half the quantity it was divided by, and the allowance
  of the earlier ones grows with the quantity (`Drift`).
* `PositionBooked`: shares held and sold are the shares bought; what was paid is the
  sum over the fills.
* `FilledIsExecuted` needs two links: `OwnFills`, a call applies only executions of
  its own order, and `WithinRequest`, the broker never executes more of an order
  than was requested. So once an order is FILLED there is no further execution of
  it to arrive.

A fill in the ledger is never applied again (`already_persisted`), and one whose
write raised is not yet counted anywhere; so the two always agree.

### Daily report (`PrpReportingProofs`)

For any symbols, prices, quantities and executions (`ReportingAssumption`:
quantities and prices are positive).

* The executions of a ledger are totally ordered by time and key (`TotalOrder`), so
  there always is a latest (`LatestIsLast`), and the recursive function of
  `build_trade_details` exists.
* A sell takes from a lot what reaches beyond the shares ahead of it (`MatchedIs`), in
  all the smaller of what it wants and what is held (`MatchedInAll`), and the lots
  it empties are the oldest ones, so that exactly they leave the queue
  (`ReducedLots`, `ReducedAhead`).
* `Book` is the invariant of the loop over the executions: every detail has a key of
  its own under the key of an execution accounted for, its net is what is left of
  its sale, and of each symbol every share bought is paired or still held.
* `IInv` carries that to the tables. Between the two transactions the details stored
  are those that will be reported, and after the second the report is that of the
  stored details; the net of the report follows by `SumOfDifference`.
* `LateOnlyAdds` compares two ledgers that differ by one execution. The books of the
  other symbols are the same; of its symbol, a sell leaves as paired the smaller
  of what was bought and of what was paired before plus what it sells, which can
  only grow with either (`AccountOnlyAdds`).
* `FirstInIsFirstOut` needs a stronger invariant of the loop, `FirstInFirstOut`: the
  shares of a symbol are numbered as they are bought, those up to `SoldAfter` are
  sold, and every lot holds what is left of the shares of one buy (`InLots`). A buy
  adds a lot of the last numbers (`LotsAfterBuy`); a sell moves `SoldAfter` on, to
  at most what was bought by then (`SoldAfterSell`), and the lots it leaves hold the
  rest (`LotsAfterSell`). It takes from a lot exactly the shares the lot's buy has in
  the sell's range, the buys have no share in common (`BuysApart`) and every share
  held lies in a lot (`LotOfShare`), so the sum over lots is the sum over buys
  (`SellTakesInOrder`). What a sell is due does not change with the executions
  after it (`SharesDueStay`).

### Only model-checked

Liveness (`HealthyFeedUnblocks`, `StopEndsTheWorker`, `EveryCallEnds`), which is out
of the prover's reach, as is ENABLED. Every safety property has a theorem.

## 5. Not modelled

| part | reason |
|---|---|
| `tse/opm_bridge.py` | pure mapping without a caller; it would report a position whose buy is still pending (FLAT) as BUY_FAILED, which is not among the reports of `TradingDay` |
| in KIA | parsing of prices and times; the queries for executions and positions, which no code in `src/` asks for; back-off times between attempts |
| in CSM | changes of the watch list: it is fixed for an engine when it starts |
| HTTP handlers, pages, backtest, entry point, logging | parsing, rendering, a stateless calculation |
| in UAG | a start for another date than today, a damaged or unwritable snapshot file, two threads writing it at once, the monitor and report read models |
| in OPM | position snapshots, interim profit figures; a restart, as nothing loads orders again |
| in PRP | strategy events, position snapshots and queries |

## 6. Where documents and code disagree

Each is a run whose counterexample is a behaviour of the code as modelled.

1. **A second buy after a restart** (`second_buy`). A resumed process has a new
   strategy engine with an open gate, and the first cycle evaluates quotes before
   the held position is reported. Another symbol that rebounds in that cycle is
   bought. FR-007 allows one buy order a day. What does hold, and is proved, is
   `OneOrderPerSymbolAndSide` and `OneBuyPerSession`.
2. **The mode changes under an engine that trades** (`mode_under_engine`). Only
   `switch_mode` looks at the engine; `save_settings` replaces the mode at any time,
   and an order reads the mode from the file while the quotes keep the one the
   engine was started with. HLD 8.2 allows the change only when nothing is traded.
3. **A sell of what was never bought** (`unheld_sell`). A BUY is recorded as bought
   before it is sent, and a rejection does not take that back.
4. **A locked profit lost at a restart** (`protected_profit`). The lock lives in
   the strategy engine only.
5. **REJECTED while the broker has the order** (`rejected_at_broker`). A timeout of
   the submission is recorded as REJECTED; the design asks for RECONCILING.

Two more were met without a run of their own. The price of a sell is the market
price, where FR-011 says two ticks below it (`compute_sell_price` has no caller).
And in a batch from which a symbol is missing, an answer that names no symbol goes
to the symbol at its place in the request, which may be one watched earlier;
`QuotesKeepTheirSymbols` says how far that goes.

## 7. Plan

Done: price rules, strategy engine, trading day with its proofs and its
refinement of an abstract day, monitoring loop with the gateway's batch,
application engine with crashes, order manager, reporting, settings and broker
client; proofs of every safety property.

Next, in this order:

1. The snapshot file: two writers that share one temporary name, and a damaged
   file at start. Both need writes of the file in steps of their own.
2. A restart of OPM between ledger and memory, once code loads orders again.
3. The worker that dies while the engine stays RUNNING: no document promises a
   supervisor, so there is no property to state yet.

## 8. Running it

```
tlc -config MCTradingDay.cfg MCTradingDay.tla      # likewise each run of PROJECT.json
for m in TseService TradingDay QuoteMonitoring UagEngine KiaClient OpmOrders PrpReporting; do
  tlapm ${m}Proofs.tla
done
tlapm SumTheorems.tla
```
