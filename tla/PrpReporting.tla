----------------------------- MODULE PrpReporting -----------------------------
(***************************************************************************)
(* The daily report of src/prp: the executions of one trading day in the   *)
(* ledger, the pairing of sells with buys (reporting.py), and the two      *)
(* transactions that store the trade details and the report.               *)
(*                                                                         *)
(* An execution is [id, at, sym, side, price, qty].  `id` stands for the   *)
(* primary key that breaks ties of equal times: the code draws it at       *)
(* random, so executions may enter the ledger with any free id and in any  *)
(* order of their times.  Amounts are in units of 0.01 won, AMOUNT_Q.      *)
(***************************************************************************)
EXTENDS PriceRules, Sequences, FiniteSets, FiniteSetsExt, Functions

CONSTANTS Traded,          \* the symbols
          MarketPrice,     \* time -> the price of executions at that time
          Quantities,      \* symbol -> side -> quantities of an execution
          MaxExecutions,   \* bound: executions of the day
          MaxCrashes       \* bound: crashes of the process

ASSUME ReportingAssumption ==
  /\ MarketPrice \in [DOMAIN MarketPrice -> Nat \ {0}] /\ DOMAIN MarketPrice \subseteq Nat
  /\ Quantities \in [Traded -> [{"BUY", "SELL"} -> SUBSET (Nat \ {0})]]
  /\ MaxExecutions \in Nat /\ MaxCrashes \in Nat

VARIABLES
  execution_events,  \* ledger: the executions stored
  trade_details,     \* table: the details stored
  daily_report,      \* table: the report stored
  job,               \* the generation in progress
  interrupted,       \* history: the last generation stored the details only
  crashes

vars == <<execution_events, trade_details, daily_report, job, interrupted, crashes>>

NoReport == [total_buy_amount |-> "none"]
NoJob == [at |-> "idle"]

Executions == [id : 1..MaxExecutions, at : DOMAIN MarketPrice, sym : Traded,
               side : {"BUY", "SELL"}, price : {MarketPrice[t] : t \in DOMAIN MarketPrice},
               qty : UNION {Quantities[s]["BUY"] \cup Quantities[s]["SELL"] : s \in Traded}]

Init ==
  /\ execution_events = {}
  /\ trade_details = {}
  /\ daily_report = NoReport
  /\ job = NoJob
  /\ interrupted = FALSE
  /\ crashes = 0

-----------------------------------------------------------------------------
(* The amounts of one pairing.                                               *)

HalfUp(num, den) == (2 * num + den) \div (2 * den)

calc_sell_tax(sell_amount) == HalfUp(sell_amount * 2, 1000)

calc_sell_fee(sell_amount) == HalfUp(sell_amount * 11, 100000)

calc_return_rate(net_pnl, buy_amount) ==
  IF buy_amount = 0 THEN 0 ELSE Rate(net_pnl, buy_amount)

calc_trade_detail(lot, sell, quantity, part) ==
  LET bought == 100 * lot.price * quantity
      sold == 100 * sell.price * quantity
      net == sold - bought - calc_sell_tax(sold) - calc_sell_fee(sold)
  IN  [id |-> <<sell.id, part>>, sym |-> sell.sym, quantity |-> quantity,
       buy_executed_at |-> lot.at, sell_executed_at |-> sell.at, buy_price |-> lot.price,
       buy_amount |-> bought, sell_amount |-> sold,
       sell_tax |-> calc_sell_tax(sold), sell_fee |-> calc_sell_fee(sold),
       net_pnl |-> net, return_rate |-> calc_return_rate(net, bought)]

-----------------------------------------------------------------------------
(* build_trade_details: the executions in order of time; a buy opens a lot,  *)
(* a sell takes from the oldest lots of its symbol and forgets what they     *)
(* cannot cover.                                                             *)

Earlier(e, f) == e.at < f.at \/ (e.at = f.at /\ e.id < f.id)

Lot(buy) == [at |-> buy.at, price |-> buy.price, remaining_qty |-> buy.qty]

Ahead(lots, i) == SumFunction([k \in 1..(i - 1) |-> lots[k].remaining_qty])

\* Faulty variant: a sell that the lots cannot cover takes nothing.
matched_qty_if_covered(lots, i, sell) ==
  IF Ahead(lots, Len(lots) + 1) < sell.qty \/ sell.qty <= Ahead(lots, i) THEN 0
  ELSE IF sell.qty - Ahead(lots, i) < lots[i].remaining_qty
       THEN sell.qty - Ahead(lots, i) ELSE lots[i].remaining_qty

\* What the sell takes from lot i, after all it can from the lots before.
matched_qty(lots, i, sell) ==
  LET left == sell.qty - Ahead(lots, i)
  IN  CASE left <= 0 -> 0
        [] left > 0 /\ left < lots[i].remaining_qty -> left
        [] OTHER -> lots[i].remaining_qty

\* Lots are emptied from the front, and the empty ones leave the queue.
Reduced(lots, sell) ==
  LET left == [i \in DOMAIN lots |->
                 [lots[i] EXCEPT !.remaining_qty = @ - matched_qty(lots, i, sell)]]
      emptied == {i \in DOMAIN lots : left[i].remaining_qty = 0}
  IN  SubSeq(left, Cardinality(emptied) + 1, Len(lots))

\* Faulty variant: a new lot is put in front of the older ones.
queued_last_in(lots, buy) == <<Lot(buy)>> \o lots

queued(lots, buy) == Append(lots, Lot(buy))

\* Faulty variant: every detail of a sell gets the same key.
Account_unnumbered(book, e) ==
  LET lots == book.lots[e.sym]
  IN  IF e.side = "BUY"
      THEN [book EXCEPT !.lots[e.sym] = queued(lots, e)]
      ELSE [lots |-> [book.lots EXCEPT ![e.sym] = Reduced(lots, e)],
            details |-> book.details \cup
              {calc_trade_detail(lots[i], e, matched_qty(lots, i, e), 0) :
                 i \in {k \in DOMAIN lots : matched_qty(lots, k, e) > 0}}]

Account(book, e) ==
  LET lots == book.lots[e.sym]
  IN  IF e.side = "BUY"
      THEN [book EXCEPT !.lots[e.sym] = queued(lots, e)]
      ELSE [lots |-> [book.lots EXCEPT ![e.sym] = Reduced(lots, e)],
            details |-> book.details \cup
              {calc_trade_detail(lots[i], e, matched_qty(lots, i, e), i - 1) :
                 i \in {k \in DOMAIN lots : matched_qty(lots, k, e) > 0}}]

Latest(executions) == CHOOSE e \in executions : \A f \in executions : f = e \/ Earlier(f, e)

NoBook == [lots |-> [s \in Traded |-> <<>>], details |-> {}]

\* The loop over the sorted executions: `after[done]` is its state when it has
\* accounted for the executions of `done`.
build_trade_details(executions) ==
  LET after[done \in SUBSET executions] ==
        IF done = {} THEN NoBook
        ELSE Account(after[done \ {Latest(done)}], Latest(done))
  IN  after[executions].details

-----------------------------------------------------------------------------
(* aggregate_daily_report                                                    *)

\* Faulty variant: tax and fee are charged on the totals of the day.
aggregate_daily_report_on_totals(details) ==
  LET bought == SumFunction([d \in details |-> d.buy_amount])
      sold == SumFunction([d \in details |-> d.sell_amount])
      net == sold - bought - calc_sell_tax(sold) - calc_sell_fee(sold)
  IN  [total_buy_amount |-> bought, total_sell_amount |-> sold,
       total_sell_tax |-> calc_sell_tax(sold), total_sell_fee |-> calc_sell_fee(sold),
       total_net_pnl |-> net, total_return_rate |-> calc_return_rate(net, bought)]

aggregate_daily_report(details) ==
  LET bought == SumFunction([d \in details |-> d.buy_amount])
      net == SumFunction([d \in details |-> d.net_pnl])
  IN  [total_buy_amount |-> bought,
       total_sell_amount |-> SumFunction([d \in details |-> d.sell_amount]),
       total_sell_tax |-> SumFunction([d \in details |-> d.sell_tax]),
       total_sell_fee |-> SumFunction([d \in details |-> d.sell_fee]),
       total_net_pnl |-> net,
       total_return_rate |-> calc_return_rate(net, bought)]

-----------------------------------------------------------------------------
(* The operations.  Requests are served one at a time; executions are stored *)
(* by another thread, also while a report is generated.                      *)

append_execution_event ==
  /\ \E e \in Executions :
       /\ e.price = MarketPrice[e.at]
       /\ e.qty \in Quantities[e.sym][e.side]
       /\ \A f \in execution_events : f.id # e.id
       /\ execution_events' = execution_events \cup {e}
  /\ UNCHANGED <<trade_details, daily_report, job, interrupted, crashes>>

\* Reads the ledger once and computes both results from it.
generate_daily_report ==
  /\ job = NoJob
  /\ job' = [at |-> "details", details |-> build_trade_details(execution_events)]
  /\ UNCHANGED <<execution_events, trade_details, daily_report, interrupted, crashes>>

\* One transaction replaces all the details of the day.
upsert_trade_details ==
  /\ job.at = "details"
  /\ trade_details' = job.details
  /\ job' = [job EXCEPT !.at = "report"]
  /\ interrupted' = TRUE
  /\ UNCHANGED <<execution_events, daily_report, crashes>>

\* Another one replaces the report.
upsert_daily_report ==
  /\ job.at = "report"
  /\ daily_report' = aggregate_daily_report(job.details)
  /\ job' = NoJob
  /\ interrupted' = FALSE
  /\ UNCHANGED <<execution_events, trade_details, crashes>>

\* The process ends, or a transaction raises: the tables keep what is committed.
Crash ==
  /\ crashes < MaxCrashes
  /\ job # NoJob
  /\ crashes' = crashes + 1
  /\ job' = NoJob
  /\ UNCHANGED <<execution_events, trade_details, daily_report, interrupted>>

Next ==
  \/ append_execution_event
  \/ generate_daily_report
  \/ upsert_trade_details
  \/ upsert_daily_report
  \/ Crash

Spec == Init /\ [][Next]_vars

-----------------------------------------------------------------------------
(* Types, and the keys of the tables: storing two details under one key      *)
(* would raise and lose the whole report.                                    *)

Details == [id : (1..MaxExecutions) \X Nat, sym : Traded, quantity : Nat \ {0},
            buy_executed_at : DOMAIN MarketPrice, sell_executed_at : DOMAIN MarketPrice,
            buy_price : Nat, buy_amount : Nat, sell_amount : Nat, sell_tax : Nat,
            sell_fee : Nat, net_pnl : Int, return_rate : Int]

TypeOK ==
  /\ execution_events \subseteq Executions
  /\ trade_details \subseteq Details
  /\ daily_report = NoReport \/ daily_report.total_sell_amount \in Nat
  /\ job = NoJob \/ (/\ job.at \in {"details", "report"}
                     /\ job.details \subseteq Details
                     /\ \A d, e \in job.details : d.id = e.id => d = e)
  /\ interrupted \in BOOLEAN /\ crashes \in 0..MaxCrashes

-----------------------------------------------------------------------------
(* Safety.                                                                   *)

Of(executions, s, side) == {e \in executions : e.sym = s /\ e.side = side}

Upto(executions, e) == {f \in executions : f = e \/ Earlier(f, e)}

Qty(executions) == SumFunction([e \in executions |-> e.qty])

\* How many shares have been sold when `sells` are done: all that was to be sold,
\* or, as of some sell, all that was bought by then and the sells since.
SoldAfter(buys, sells) ==
  Min({Qty(sells)} \cup
      {Qty(Upto(buys, f)) + Qty(sells \ Upto(sells, f)) : f \in sells})

\* The shares of a symbol, numbered in the order of purchase, that a buy adds and
\* that a sell takes.
SharesOfBuy(buys, buy) ==
  LET upto == Qty(Upto(buys, buy)) IN (upto - buy.qty + 1)..upto

SharesOfSell(buys, sells, sell) ==
  LET done == Upto(sells, sell)
  IN  (SoldAfter(buys, done \ {sell}) + 1)..SoldAfter(buys, done)

\* The shares that `sell` takes from the buys at time t that it comes after.
SharesDue(executions, sell, t) ==
  LET buys == Of(executions, sell.sym, "BUY")
      sells == Of(executions, sell.sym, "SELL")
  IN  SumFunction([b \in {b \in buys : b.at = t /\ Earlier(b, sell)} |->
                     Cardinality(SharesOfBuy(buys, b) \cap SharesOfSell(buys, sells, sell))])

(* LLD-PRP 4.2: sells are paired with buys first in, first out: numbering    *)
(* the shares of a symbol in the order they were bought, the details of a    *)
(* sell name exactly the shares that follow those sold before, and never a   *)
(* share that was bought later (build_trade_details, reporting.py).          *)
PairsAreFirstInFirstOut ==
  LET details == build_trade_details(execution_events)
  IN  \A sell \in execution_events : \A t \in DOMAIN MarketPrice :
        LET paired == {d \in details : d.id[1] = sell.id /\ d.buy_executed_at = t}
        IN  sell.side = "SELL" =>
              SumFunction([d \in paired |-> d.quantity]) = SharesDue(execution_events, sell, t)

(* Between generations the stored report is the sum of the stored details,   *)
(* however the pairing changed with executions that arrived late, unless a   *)
(* crash separated the two transactions; the next generation repairs that.   *)
(* Net is what is left of the sells after buys, tax and fee.                 *)
ReportIsTheSumOfDetails ==
  job = NoJob /\ ~interrupted /\ daily_report # NoReport =>
    /\ daily_report.total_net_pnl
         = SumFunction([d \in trade_details |-> d.net_pnl])
    /\ daily_report.total_net_pnl
         = daily_report.total_sell_amount - daily_report.total_buy_amount
             - daily_report.total_sell_tax - daily_report.total_sell_fee
    /\ daily_report.total_sell_amount
         = SumFunction([d \in trade_details |-> d.sell_amount])
    /\ daily_report.total_sell_tax
         = SumFunction([d \in trade_details |-> d.sell_tax])

(* An execution that arrives late, with an earlier time, re-pairs the day's  *)
(* sells but never takes a paired share off the report.                      *)
LateExecutionsOnlyAdd ==
  [][LET paired(executions) ==
           SumFunction([d \in build_trade_details(executions) |-> d.quantity])
     IN  paired(execution_events') >= paired(execution_events)]_execution_events

=============================================================================
