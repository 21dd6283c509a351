------------------------------ MODULE OpmOrders ------------------------------
(***************************************************************************)
(* The order manager of src/opm/service.py for one symbol: the life of its *)
(* orders, and the reconciliation of what the broker executed with the     *)
(* order, the position and the ledger of src/prp/repository.py.            *)
(*                                                                         *)
(* The broker executes an order in pieces and answers each question about  *)
(* it with any of those pieces, in any order and repeatedly.  A call of    *)
(* reconcile_execution_events is a step per fill and one for the order,    *)
(* each with a write that may raise and abandon the rest of the call.      *)
(*                                                                         *)
(* Averages are integers in units of 0.0001, the quantum of the code; the  *)
(* interim profit figures of a position, their stored snapshot and the     *)
(* remaining quantity of an order, which no decision of the order manager  *)
(* reads again, are left out.                                              *)
(***************************************************************************)
EXTENDS Integers, Sequences, FiniteSets, Functions

CONSTANTS Orders, side_of, requested_qty,   \* the orders the caller may create
          FillPrices,                       \* order -> the prices it may execute at
          MaxFills,                         \* bound: fills delivered to one call
          MaxFailures                       \* bound: writes that raise

ASSUME OrderAssumption ==
  /\ side_of \in [Orders -> {"BUY", "SELL"}]
  /\ requested_qty \in [Orders -> Nat \ {0}]
  /\ FillPrices \in [Orders -> SUBSET (Nat \ {0})]
  /\ MaxFills \in Nat /\ MaxFailures \in Nat

VARIABLES
  orders,           \* OrderAggregate of each order
  position,         \* PositionModel
  executions,       \* external: what the broker executed
  execution_events, \* ledger: the executions stored, unique by execution_id
  order_events,     \* ledger: the latest status stored of each order
  call,             \* the reconciliation in progress
  failures          \* writes that raised

vars == <<orders, position, executions, execution_events, order_events, call, failures>>

NoCall == [at |-> "returned"]

Statuses == {"PENDING_SUBMIT", "SUBMITTED", "ACCEPTED", "PARTIALLY_FILLED",
             "RECONCILING", "FILLED", "REJECTED", "CANCELED"}

ALLOWED_TRANSITIONS ==
  [PENDING_SUBMIT   |-> {"SUBMITTED"},
   SUBMITTED        |-> {"ACCEPTED", "REJECTED", "RECONCILING"},
   ACCEPTED         |-> {"PARTIALLY_FILLED", "FILLED", "CANCELED", "RECONCILING"},
   PARTIALLY_FILLED |-> {"FILLED", "CANCELED", "RECONCILING"},
   RECONCILING      |-> {"ACCEPTED", "PARTIALLY_FILLED", "FILLED", "REJECTED"},
   FILLED           |-> {},
   REJECTED         |-> {},
   CANCELED         |-> {}]

\* What a caller decides about an order; fills are reconcile's to find.  The code takes
\* FILLED and PARTIALLY_FILLED from any caller as well, where the transition is allowed;
\* no caller in src/ passes them.
Decisions == {"SUBMITTED", "ACCEPTED", "REJECTED", "RECONCILING", "CANCELED"}

NewOrder == [status |-> "NONE", cum_executed_qty |-> 0, avg_executed_price |-> 0]

EmptyPosition == [state |-> "FLAT", quantity |-> 0, buy_notional |-> 0, avg_buy_price |-> 0,
                  sell_quantity |-> 0, sell_notional |-> 0, avg_sell_price |-> 0]

Init ==
  /\ orders = [o \in Orders |-> NewOrder]
  /\ position = EmptyPosition
  /\ executions = {}
  /\ execution_events = {}
  /\ order_events = [o \in Orders |-> "NONE"]
  /\ call = NoCall
  /\ failures = 0

-----------------------------------------------------------------------------
(* The life of an order.                                                     *)

\* A write that raises leaves the order changed in memory only.
Raises == failures < MaxFailures /\ failures' = failures + 1

PersistOrderEvent(o) ==
  \/ order_events' = [order_events EXCEPT ![o] = orders'[o].status] /\ UNCHANGED failures
  \/ Raises /\ UNCHANGED order_events

create_order(o) ==
  /\ call = NoCall
  /\ orders[o].status = "NONE"
  /\ orders' = [orders EXCEPT ![o].status = "PENDING_SUBMIT"]
  /\ order_events' = [order_events EXCEPT ![o] = "PENDING_SUBMIT"]
  /\ UNCHANGED <<position, executions, execution_events, call, failures>>

transition_allowed(from, to) == to \in ALLOWED_TRANSITIONS[from]

move_order_status(o, next) ==
  /\ call = NoCall
  /\ orders[o].status # "NONE"
  /\ transition_allowed(orders[o].status, next)
  /\ orders' = [orders EXCEPT ![o].status = next]
  /\ PersistOrderEvent(o)
  /\ UNCHANGED <<position, executions, execution_events, call>>

-----------------------------------------------------------------------------
(* External: the broker executes submitted orders in pieces, and sells only  *)
(* what it bought before.  What it does during a call only the next call can *)
(* see.                                                                      *)

TotalQty(fills) == SumFunction([f \in fills |-> f.qty])

Notional(fills) == SumFunction([f \in fills |-> f.price * f.qty])

FillsOf(fills, o) == {f \in fills : f.order = o}

FillsOn(fills, side) == {f \in fills : side_of[f.order] = side}

BrokerRemaining(o) == requested_qty[o] - TotalQty(FillsOf(executions, o))

Sellable == TotalQty(FillsOn(executions, "BUY")) - TotalQty(FillsOn(executions, "SELL"))

BrokerExecutes(o) ==
  /\ call = NoCall
  /\ orders[o].status \notin {"NONE", "PENDING_SUBMIT", "CANCELED"}
  /\ \E qty \in 1..BrokerRemaining(o), price \in FillPrices[o] :
       /\ side_of[o] = "SELL" => qty <= Sellable
       /\ executions' = executions \cup
            {[execution_id |-> <<o, Cardinality(FillsOf(executions, o))>>, order |-> o,
              price |-> price, qty |-> qty]}
  /\ UNCHANGED <<orders, position, execution_events, order_events, call, failures>>

-----------------------------------------------------------------------------
(* reconcile_execution_events.  The broker's answer may be out of date: it   *)
(* may miss executions, repeat them, and report too much remaining.          *)

Deliveries(o) == UNION {[1..n -> FillsOf(executions, o)] : n \in 0..MaxFills}

reconcile_execution_events(o) ==
  /\ call = NoCall
  /\ orders[o].status # "NONE"
  /\ \E fills \in Deliveries(o) : call' = [at |-> "fills", order |-> o, fills |-> fills]
  /\ UNCHANGED <<orders, position, executions, execution_events, order_events, failures>>

\* num / den in units of 0.0001, rounded half up.
Average(num, den) == (2 * num + den) \div (2 * den)

\* Faulty variant: every fill weighs the same.
apply_fill_unweighted(order, fill) ==
  [order EXCEPT !.avg_executed_price =
                   IF order.cum_executed_qty = 0 THEN 10000 * fill.price
                   ELSE Average(@ + 10000 * fill.price, 2),
                !.cum_executed_qty = @ + fill.qty]

apply_fill_to_order(order, fill) ==
  LET new_qty == order.cum_executed_qty + fill.qty
      total == order.avg_executed_price * order.cum_executed_qty
                 + 10000 * fill.price * fill.qty
  IN  [order EXCEPT !.avg_executed_price = Average(total, new_qty),
                    !.cum_executed_qty = new_qty]

\* Faulty variant: the amount paid is that of the last fill.
ApplyBuy_last_fill(pos, fill) ==
  [pos EXCEPT !.state = "LONG_OPEN",
              !.quantity = @ + fill.qty,
              !.buy_notional = fill.price * fill.qty,
              !.avg_buy_price = 10000 * fill.price]

\* A purchase divides everything ever paid by what is held now.
ApplyBuy(pos, fill) ==
  LET new_qty == pos.quantity + fill.qty
      paid == pos.buy_notional + fill.price * fill.qty
  IN  [pos EXCEPT !.state = "LONG_OPEN",
                  !.quantity = new_qty,
                  !.buy_notional = paid,
                  !.avg_buy_price = Average(10000 * paid, new_qty)]

\* Faulty variant: more can be sold than is held.
ApplySell_unclamped(pos, fill) ==
  LET sold == pos.sell_quantity + fill.qty
      earned == pos.sell_notional + fill.price * fill.qty
  IN  [pos EXCEPT !.state = IF pos.quantity = fill.qty THEN "CLOSED" ELSE "EXITING",
                  !.quantity = @ - fill.qty,
                  !.sell_quantity = sold,
                  !.sell_notional = earned,
                  !.avg_sell_price = Average(10000 * earned, sold)]

\* No more is sold than is held; the rest of the fill is dropped.
ApplySell(pos, fill) ==
  LET fill_qty == IF fill.qty < pos.quantity THEN fill.qty ELSE pos.quantity
      sold == pos.sell_quantity + fill_qty
      earned == pos.sell_notional + fill.price * fill_qty
  IN  [pos EXCEPT !.state = IF pos.quantity = fill_qty THEN "CLOSED" ELSE "EXITING",
                  !.quantity = @ - fill_qty,
                  !.sell_quantity = sold,
                  !.sell_notional = earned,
                  !.avg_sell_price = IF sold > 0 THEN Average(10000 * earned, sold) ELSE @]

apply_fill_to_position(pos, side, fill) ==
  IF side = "BUY" THEN ApplyBuy(pos, fill) ELSE ApplySell(pos, fill)

\* Faulty variant: the ledger takes every fill for a new one.
never_persisted(fill) == FALSE

already_persisted(fill) == \E f \in execution_events : f.execution_id = fill.execution_id

\* append_execution_event refuses an execution_id it holds: the fill is skipped.
ReconcileFill ==
  /\ call.at = "fills"
  /\ call.fills # <<>>
  /\ LET o == call.order
         fill == Head(call.fills)
     IN  IF already_persisted(fill)
         THEN UNCHANGED <<orders, position, execution_events>>
         ELSE /\ execution_events' = execution_events \cup {fill}
              /\ orders' = [orders EXCEPT ![o] = apply_fill_to_order(@, fill)]
              /\ position' = apply_fill_to_position(position, side_of[o], fill)
  /\ call' = [call EXCEPT !.fills = Tail(@)]
  /\ UNCHANGED <<executions, order_events, failures>>

\* Faulty variants: the broker's word is enough; an order not yet accepted counts.
reconciled_status_trusting(order, o, remaining) ==
  IF remaining = 0 /\ order.status \in {"ACCEPTED", "PARTIALLY_FILLED", "RECONCILING"}
  THEN "FILLED" ELSE order.status

reconciled_status_unaccepted(order, o, remaining) ==
  IF order.cum_executed_qty >= requested_qty[o] THEN "FILLED"
  ELSE IF order.cum_executed_qty > 0 THEN "PARTIALLY_FILLED" ELSE order.status

reconciled_status(order, o, remaining) ==
  IF remaining = 0 /\ order.cum_executed_qty >= requested_qty[o]
  THEN IF order.status \in {"ACCEPTED", "PARTIALLY_FILLED", "RECONCILING"}
       THEN "FILLED" ELSE order.status
  ELSE IF order.cum_executed_qty > 0 /\ order.status \in {"ACCEPTED", "RECONCILING"}
       THEN "PARTIALLY_FILLED" ELSE order.status

ReconcileOrder ==
  /\ call.at = "fills"
  /\ call.fills = <<>>
  /\ LET o == call.order
     IN  /\ \E remaining \in BrokerRemaining(o)..requested_qty[o] :
              orders' = [orders EXCEPT
                           ![o].status = reconciled_status(orders[o], o, remaining)]
         /\ PersistOrderEvent(o)
  /\ call' = NoCall
  /\ UNCHANGED <<position, executions, execution_events>>

\* Storing a fill raises: the fills before it stay applied and stored, the rest of
\* the call does not happen.
WriteFails ==
  /\ call.at = "fills"
  /\ call.fills # <<>>
  /\ Raises
  /\ call' = NoCall
  /\ UNCHANGED <<orders, position, executions, execution_events, order_events>>

-----------------------------------------------------------------------------

Next ==
  \/ \E o \in Orders : \/ create_order(o)
                       \/ \E next \in Decisions : move_order_status(o, next)
                       \/ BrokerExecutes(o)
                       \/ reconcile_execution_events(o)
  \/ ReconcileFill
  \/ ReconcileOrder
  \/ WriteFails

Spec == Init /\ [][Next]_vars

-----------------------------------------------------------------------------
(* Types.                                                                    *)

Fills == [execution_id : Orders \X Nat, order : Orders, price : Nat, qty : Nat \ {0}]

TypeOK ==
  /\ orders \in [Orders -> [status : Statuses \cup {"NONE"}, cum_executed_qty : Nat,
                            avg_executed_price : Nat]]
  /\ position \in [state : {"FLAT", "LONG_OPEN", "EXITING", "CLOSED"}, quantity : Nat,
                   buy_notional : Nat, avg_buy_price : Nat, sell_quantity : Nat,
                   sell_notional : Nat, avg_sell_price : Nat]
  /\ executions \subseteq Fills /\ execution_events \subseteq executions
  /\ order_events \in [Orders -> Statuses \cup {"NONE"}]
  /\ call = NoCall \/ (call.order \in Orders /\ call.fills \in Seq(executions))

-----------------------------------------------------------------------------
(* Safety.                                                                   *)

(* LLD-OPM 7.1: every execution counts exactly once.  However often and in   *)
(* whatever order the broker repeats it, and wherever a failing write cuts a *)
(* call short, an order has executed what the ledger holds of it             *)
(* (reconcile_execution_events, append_execution_event).                     *)
FillsCountOnce ==
  \A o \in Orders :
    orders[o].cum_executed_qty = TotalQty(FillsOf(execution_events, o))

(* The position and the ledger never drift apart: every share bought is      *)
(* still held or was sold, and no more was sold than the ledger says.        *)
PositionFollowsFills ==
  /\ position.quantity + position.sell_quantity = TotalQty(FillsOn(execution_events, "BUY"))
  /\ position.sell_quantity <= TotalQty(FillsOn(execution_events, "SELL"))
  /\ position.buy_notional = Notional(FillsOn(execution_events, "BUY"))

(* Reconciliation assigns the status directly, past the guard of             *)
(* move_order_status, and yet no order ever makes a step that                *)
(* ALLOWED_TRANSITIONS forbids; in the ledger too a terminal status is last. *)
StatusFollowsTransitions ==
  [][\A o \in Orders :
       /\ orders[o].status \notin {"NONE", orders'[o].status} =>
            orders'[o].status \in ALLOWED_TRANSITIONS[orders[o].status]
       /\ order_events[o] \in {"FILLED", "REJECTED", "CANCELED"} =>
            order_events'[o] = order_events[o]]_vars

(* An order is only FILLED, in memory and in the ledger, when the executions *)
(* stored add up to what was requested: a broker that reports nothing        *)
(* remaining is not believed on its word.  A caller of move_order_status     *)
(* would be: see Decisions.                                                  *)
FilledIsExecuted ==
  \A o \in Orders :
    "FILLED" \in {orders[o].status, order_events[o]} =>
      TotalQty(FillsOf(execution_events, o)) = requested_qty[o]

(* The average of an order is folded fill by fill and rounded every time:    *)
(* whatever the order of the fills, it stays within one unit of the last     *)
(* digit of the exact average for each fill.  The position's buy average is  *)
(* rounded once, and right as long as nothing was sold.                      *)
AveragesAreExact ==
  /\ \A o \in Orders :
       LET fills == FillsOf(execution_events, o)
           drift == orders[o].avg_executed_price * TotalQty(fills) - 10000 * Notional(fills)
           allowed == Cardinality(fills) * TotalQty(fills)
       IN  2 * drift \in (0 - allowed)..allowed
  /\ LET bought == FillsOn(execution_events, "BUY")
     IN  bought # {} /\ position.sell_quantity = 0 =>
           position.avg_buy_price = Average(10000 * Notional(bought), TotalQty(bought))

=============================================================================
