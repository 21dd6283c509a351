--------------------------- MODULE OpmOrdersProofs ---------------------------
(***************************************************************************)
(* What holds of the order manager for any number of orders, prices and    *)
(* quantities, and for every answer of the broker.                         *)
(***************************************************************************)
EXTENDS OpmOrders, SumTheorems, SequenceTheorems

-----------------------------------------------------------------------------
(* Amounts.                                                                  *)

LEMMA ProductType == ASSUME NEW a \in Nat, NEW b \in Nat PROVE a * b \in Nat
  OBVIOUS

LEMMA QuotientType == ASSUME NEW a \in Nat, NEW b \in Nat \ {0} PROVE a \div b \in Nat
<1>1. a \div b \in Int /\ b * (a \div b) <= a /\ a < b * (a \div b + 1)
  OBVIOUS
<1>2. a \div b >= 0
  OBVIOUS
<1> QED BY <1>1, <1>2

LEMMA AverageType == ASSUME NEW num \in Nat, NEW den \in Nat \ {0} PROVE Average(num, den) \in Nat
<1>1. 2 * num + den \in Nat /\ 2 * den \in Nat \ {0}
  OBVIOUS
<1> QED BY <1>1, QuotientType DEF Average

OrderRecords == [status : Statuses \cup {"NONE"}, cum_executed_qty : Nat,
                 avg_executed_price : Nat]

Positions == [state : {"FLAT", "LONG_OPEN", "EXITING", "CLOSED"}, quantity : Nat,
              buy_notional : Nat, avg_buy_price : Nat, sell_quantity : Nat,
              sell_notional : Nat, avg_sell_price : Nat]

(* A fill makes no amount of an order or of the position negative: a sale    *)
(* takes no more than is held (apply_fill_to_order, apply_fill_to_position). *)
LEMMA FilledOrderType ==
  ASSUME NEW order \in OrderRecords, NEW fill \in Fills
  PROVE  /\ apply_fill_to_order(order, fill) \in OrderRecords
         /\ apply_fill_to_order(order, fill).status = order.status
<1> DEFINE new_qty == order.cum_executed_qty + fill.qty
           total == order.avg_executed_price * order.cum_executed_qty
                      + 10000 * fill.price * fill.qty
<1>1. /\ order.cum_executed_qty \in Nat /\ order.avg_executed_price \in Nat
      /\ fill.price \in Nat /\ fill.qty \in Nat \ {0}
  BY DEF OrderRecords, Fills
<1>2. new_qty \in Nat \ {0}
  BY <1>1
<1>3. total \in Nat
  <2>1. order.avg_executed_price * order.cum_executed_qty \in Nat
    BY <1>1, ProductType
  <2>2. 10000 * fill.price \in Nat
    BY <1>1
  <2>3. 10000 * fill.price * fill.qty \in Nat
    BY <1>1, <2>2, ProductType
  <2> QED BY <2>1, <2>3
<1>4. Average(total, new_qty) \in Nat
  BY <1>2, <1>3, AverageType
<1>5. apply_fill_to_order(order, fill) =
        [order EXCEPT !.avg_executed_price = Average(total, new_qty),
                      !.cum_executed_qty = new_qty]
  BY DEF apply_fill_to_order
<1> HIDE DEF total, new_qty
<1> QED BY <1>2, <1>4, <1>5 DEF OrderRecords

LEMMA FilledPositionType ==
  ASSUME NEW pos \in Positions, NEW fill \in Fills, NEW side
  PROVE  apply_fill_to_position(pos, side, fill) \in Positions
<1>1. /\ pos.quantity \in Nat /\ pos.buy_notional \in Nat /\ pos.avg_buy_price \in Nat
      /\ pos.sell_quantity \in Nat /\ pos.sell_notional \in Nat /\ pos.avg_sell_price \in Nat
      /\ fill.price \in Nat /\ fill.qty \in Nat \ {0}
  BY DEF Positions, Fills
<1>2. CASE side = "BUY"
  <2> DEFINE new_qty == pos.quantity + fill.qty
             paid == pos.buy_notional + fill.price * fill.qty
             avg == Average(10000 * paid, new_qty)
  <2>1. new_qty \in Nat \ {0} /\ paid \in Nat
    BY <1>1, ProductType
  <2> HIDE DEF paid
  <2>2. 10000 * paid \in Nat
    BY <2>1
  <2>3. avg \in Nat
    BY <2>1, <2>2, AverageType
  <2> HIDE DEF new_qty, avg
  <2>4. apply_fill_to_position(pos, side, fill) =
          [pos EXCEPT !.state = "LONG_OPEN", !.quantity = new_qty, !.buy_notional = paid,
                      !.avg_buy_price = avg]
    BY <1>2 DEF apply_fill_to_position, ApplyBuy, paid, new_qty, avg
  <2> QED BY <2>1, <2>3, <2>4 DEF Positions
<1>3. CASE side # "BUY"
  <2> DEFINE fill_qty == IF fill.qty < pos.quantity THEN fill.qty ELSE pos.quantity
             sold == pos.sell_quantity + fill_qty
             earned == pos.sell_notional + fill.price * fill_qty
             avg == IF sold > 0 THEN Average(10000 * earned, sold) ELSE pos.avg_sell_price
  <2>1. fill_qty \in Nat /\ pos.quantity - fill_qty \in Nat
    BY <1>1
  <2> HIDE DEF fill_qty
  <2>2. sold \in Nat /\ earned \in Nat
    BY <1>1, <2>1, ProductType
  <2> HIDE DEF sold, earned
  <2>3. avg \in Nat
    <3>1. 10000 * earned \in Nat
      BY <2>2
    <3>2. sold > 0 => Average(10000 * earned, sold) \in Nat
      BY <2>2, <3>1, AverageType
    <3> QED BY <1>1, <3>2
  <2> HIDE DEF avg
  <2>4. apply_fill_to_position(pos, side, fill) =
          [pos EXCEPT !.state = IF pos.quantity = fill_qty THEN "CLOSED" ELSE "EXITING",
                      !.quantity = pos.quantity - fill_qty,
                      !.sell_quantity = sold,
                      !.sell_notional = earned,
                      !.avg_sell_price = avg]
    BY <1>3 DEF apply_fill_to_position, ApplySell, fill_qty, sold, earned, avg, Positions
  <2> QED BY <2>1, <2>2, <2>3, <2>4 DEF Positions
<1> QED BY <1>2, <1>3

-----------------------------------------------------------------------------
(* The inductive invariant: types, with the broker's executions finite, and  *)
(* a terminal status of the ledger is the order's own.                       *)

Terminal == {"FILLED", "REJECTED", "CANCELED"}

Calls == [at : {"fills"}, order : Orders, fills : Seq(executions)]

Types ==
  /\ orders \in [Orders -> OrderRecords]
  /\ position \in Positions
  /\ executions \subseteq Fills /\ execution_events \subseteq executions
  /\ IsFiniteSet(executions)
  /\ order_events \in [Orders -> Statuses \cup {"NONE"}]
  /\ call = NoCall \/ call \in Calls

LedgerAgrees == \A o \in Orders : order_events[o] \in Terminal => orders[o].status = order_events[o]

IInv == Types /\ LedgerAgrees

LEMMA NoCallIsNone == NoCall.at # "fills" /\ NoCall \notin Calls
  BY DEF NoCall, Calls

LEMMA TerminalIsLast ==
  /\ Terminal \subseteq Statuses
  /\ \A from \in Statuses : \A to : transition_allowed(from, to) =>
       to \in Statuses \ {"PENDING_SUBMIT"} /\ from \notin Terminal
  BY DEF Terminal, Statuses, transition_allowed, ALLOWED_TRANSITIONS

(* Reconciliation only assigns what the table of transitions allows.         *)
LEMMA ReconciledStatus ==
  ASSUME NEW order \in OrderRecords, NEW o \in Orders, NEW remaining
  PROVE  LET next == reconciled_status(order, o, remaining)
         IN  next = order.status \/ (/\ order.status \in Statuses \ Terminal
                                     /\ next \in Statuses
                                     /\ transition_allowed(order.status, next))
<1> DEFINE next == reconciled_status(order, o, remaining)
<1>1. order.status \in Statuses \cup {"NONE"}
  BY DEF OrderRecords
<1>2. CASE next = order.status
  BY <1>2
<1>3. CASE next # order.status
  <2>1. \/ next = "FILLED" /\ order.status \in {"ACCEPTED", "PARTIALLY_FILLED", "RECONCILING"}
        \/ next = "PARTIALLY_FILLED" /\ order.status \in {"ACCEPTED", "RECONCILING"}
    BY <1>3 DEF reconciled_status
  <2> HIDE DEF next
  <2> QED BY <2>1 DEF Statuses, Terminal, transition_allowed, ALLOWED_TRANSITIONS, next
<1> QED BY <1>2, <1>3

(* What one step may do to an order and to its last status in the ledger.    *)
OrderMoves ==
  \A o \in Orders :
    /\ orders[o].status \notin {"NONE", orders'[o].status} =>
         orders'[o].status \in ALLOWED_TRANSITIONS[orders[o].status]
    /\ order_events[o] \in Terminal => order_events'[o] = order_events[o]

(* The calls to one order that set its status and write it to the ledger.    *)
LEMMA OneOrderMoves ==
  ASSUME IInv, NEW o \in Orders, NEW next \in Statuses \cup {"NONE"},
         orders' = [orders EXCEPT ![o].status = next],
         \/ next = orders[o].status
         \/ orders[o].status = "NONE"
         \/ /\ orders[o].status \in Statuses \ Terminal
            /\ transition_allowed(orders[o].status, next),
         \/ order_events' = order_events
         \/ order_events' = [order_events EXCEPT ![o] = next]
  PROVE  /\ orders' \in [Orders -> OrderRecords]
         /\ order_events' \in [Orders -> Statuses \cup {"NONE"}]
         /\ LedgerAgrees' /\ OrderMoves
<1>1. orders \in [Orders -> OrderRecords] /\ order_events \in [Orders -> Statuses \cup {"NONE"}]
  BY DEF IInv, Types
<1>2. orders[o] \in OrderRecords
  BY <1>1
<1>3. [orders[o] EXCEPT !.status = next] \in OrderRecords
      /\ [orders[o] EXCEPT !.status = next].status = next
  BY <1>2 DEF OrderRecords
<1>4. orders' = [orders EXCEPT ![o] = [orders[o] EXCEPT !.status = next]]
  BY <1>1
<1>5. /\ orders' \in [Orders -> OrderRecords]
      /\ orders'[o].status = next
      /\ \A p \in Orders \ {o} : orders'[p] = orders[p]
  <2> DEFINE new == [orders[o] EXCEPT !.status = next]
  <2> HIDE DEF new
  <2>1. new \in OrderRecords /\ new.status = next /\ orders' = [orders EXCEPT ![o] = new]
    BY <1>3, <1>4 DEF new
  <2> QED BY <1>1, <2>1
<1>6. order_events[o] \in Terminal => next = order_events[o] /\ orders[o].status = next
  <2>1. order_events[o] \in Terminal => orders[o].status = order_events[o]
    BY DEF IInv, LedgerAgrees
  <2> QED BY <2>1 DEF Terminal
<1>7. /\ order_events' \in [Orders -> Statuses \cup {"NONE"}]
      /\ \A p \in Orders \ {o} : order_events'[p] = order_events[p]
      /\ order_events'[o] \in {order_events[o], next}
  BY <1>1
<1>8. LedgerAgrees'
  BY <1>5, <1>6, <1>7 DEF IInv, LedgerAgrees
<1>9. OrderMoves
  <2>1. ASSUME NEW p \in Orders
        PROVE  /\ orders[p].status \notin {"NONE", orders'[p].status} =>
                    orders'[p].status \in ALLOWED_TRANSITIONS[orders[p].status]
               /\ order_events[p] \in Terminal => order_events'[p] = order_events[p]
    <3>1. CASE p = o
      BY <1>5, <1>6, <1>7, <3>1 DEF transition_allowed
    <3>2. CASE p # o
      BY <1>5, <1>7, <3>2
    <3> QED BY <3>1, <3>2
  <2> QED BY <2>1 DEF OrderMoves
<1> QED BY <1>5, <1>7, <1>8, <1>9

(* A step that touches no order.                                             *)
LEMMA OrdersStay ==
  ASSUME IInv, UNCHANGED <<orders, order_events>>
  PROVE  LedgerAgrees' /\ OrderMoves
  BY DEF IInv, LedgerAgrees, OrderMoves

LEMMA CallStays ==
  ASSUME Types, UNCHANGED call, executions \subseteq executions'
  PROVE  call' = NoCall \/ call' \in Calls'
<1>1. CASE call = NoCall
  BY <1>1
<1>2. CASE call # NoCall
  <2>1. call.fills \in Seq(executions')
    <3>1. call.fills \in Seq(executions)
      BY <1>2 DEF Types, Calls
    <3> QED BY <3>1
  <2> QED BY <1>2, <2>1 DEF Types, Calls
<1> QED BY <1>1, <1>2

-----------------------------------------------------------------------------
(* The steps.                                                                *)

LEMMA CreateOrderStep ==
  ASSUME IInv, NEW o \in Orders, create_order(o) PROVE IInv' /\ OrderMoves
<1>1. /\ orders[o].status = "NONE"
      /\ orders' = [orders EXCEPT ![o].status = "PENDING_SUBMIT"]
      /\ order_events' = [order_events EXCEPT ![o] = "PENDING_SUBMIT"]
      /\ UNCHANGED <<position, executions, execution_events, call>>
  BY DEF create_order
<1>2. /\ orders' \in [Orders -> OrderRecords]
      /\ order_events' \in [Orders -> Statuses \cup {"NONE"}]
      /\ LedgerAgrees' /\ OrderMoves
  BY <1>1, OneOrderMoves DEF Statuses
<1> QED BY <1>1, <1>2 DEF IInv, Types, Calls

LEMMA MoveOrderStatusStep ==
  ASSUME IInv, NEW o \in Orders, NEW next \in Decisions, move_order_status(o, next)
  PROVE  IInv' /\ OrderMoves
<1>1. /\ orders[o].status # "NONE"
      /\ transition_allowed(orders[o].status, next)
      /\ orders' = [orders EXCEPT ![o].status = next]
      /\ PersistOrderEvent(o)
      /\ UNCHANGED <<position, executions, execution_events, call>>
  BY DEF move_order_status
<1>2. orders[o] \in OrderRecords /\ orders \in [Orders -> OrderRecords]
  BY DEF IInv, Types
<1>3. orders[o].status \in Statuses \ Terminal /\ next \in Statuses
  BY <1>1, <1>2, TerminalIsLast DEF OrderRecords, Decisions, Statuses
<1>4. orders'[o].status = next
  BY <1>1, <1>2 DEF OrderRecords
<1>5. order_events' = order_events \/ order_events' = [order_events EXCEPT ![o] = next]
  BY <1>1, <1>4 DEF PersistOrderEvent
<1>6. /\ orders' \in [Orders -> OrderRecords]
      /\ order_events' \in [Orders -> Statuses \cup {"NONE"}]
      /\ LedgerAgrees' /\ OrderMoves
  BY <1>1, <1>3, <1>5, OneOrderMoves
<1> QED BY <1>1, <1>6 DEF IInv, Types, Calls

LEMMA BrokerExecutesStep ==
  ASSUME IInv, NEW o \in Orders, BrokerExecutes(o) PROVE IInv' /\ OrderMoves
<1>1. PICK qty \in 1..BrokerRemaining(o), price \in FillPrices[o] :
        executions' = executions \cup
          {[execution_id |-> <<o, Cardinality(FillsOf(executions, o))>>, order |-> o,
            price |-> price, qty |-> qty]}
  BY DEF BrokerExecutes
<1>2. UNCHANGED <<orders, position, execution_events, order_events, call>>
  BY DEF BrokerExecutes
<1> DEFINE fill == [execution_id |-> <<o, Cardinality(FillsOf(executions, o))>>, order |-> o,
                    price |-> price, qty |-> qty]
<1>3. fill \in Fills
  <2>1. IsFiniteSet(FillsOf(executions, o))
    BY FS_Subset DEF IInv, Types, FillsOf
  <2>2. Cardinality(FillsOf(executions, o)) \in Nat
    BY <2>1, FS_CardinalityType
  <2>3. price \in Nat /\ qty \in Nat \ {0}
    BY OrderAssumption
  <2> QED BY <2>2, <2>3 DEF Fills
<1>4. executions' = executions \cup {fill}
  BY <1>1
<1> HIDE DEF fill
<1>5. /\ executions' \subseteq Fills /\ executions \subseteq executions'
      /\ IsFiniteSet(executions')
  BY <1>3, <1>4, FS_AddElement DEF IInv, Types
<1>6. call' = NoCall \/ call' \in Calls'
  BY <1>2, <1>5, CallStays DEF IInv
<1> QED BY <1>2, <1>5, <1>6, OrdersStay DEF IInv, Types

LEMMA ReconcileStartStep ==
  ASSUME IInv, NEW o \in Orders, reconcile_execution_events(o) PROVE IInv' /\ OrderMoves
<1>1. PICK fills \in Deliveries(o) : call' = [at |-> "fills", order |-> o, fills |-> fills]
  BY DEF reconcile_execution_events
<1>2. UNCHANGED <<orders, position, executions, execution_events, order_events>>
  BY DEF reconcile_execution_events
<1>3. fills \in Seq(executions)
  <2>1. PICK n \in 0..MaxFills : fills \in [1..n -> FillsOf(executions, o)]
    BY DEF Deliveries
  <2>2. n \in Nat
    BY OrderAssumption
  <2>3. fills \in [1..n -> executions]
    BY <2>1 DEF FillsOf
  <2> QED BY <2>2, <2>3, SeqDef
<1>4. call' \in Calls'
  BY <1>1, <1>2, <1>3 DEF Calls
<1> QED BY <1>2, <1>4, OrdersStay DEF IInv, Types

LEMMA ReconcileFillStep == ASSUME IInv, ReconcileFill PROVE IInv' /\ OrderMoves
<1> DEFINE o == call.order
           fill == Head(call.fills)
<1>1. /\ call.at = "fills" /\ call.fills # <<>>
      /\ IF already_persisted(fill)
         THEN UNCHANGED <<orders, position, execution_events>>
         ELSE /\ execution_events' = execution_events \cup {fill}
              /\ orders' = [orders EXCEPT ![o] = apply_fill_to_order(orders[o], fill)]
              /\ position' = apply_fill_to_position(position, side_of[o], fill)
      /\ call' = [call EXCEPT !.fills = Tail(call.fills)]
      /\ UNCHANGED <<executions, order_events>>
  BY DEF ReconcileFill, IInv, Types, Calls
<1>2. call \in Calls
  BY <1>1, NoCallIsNone DEF IInv, Types
<1>3. o \in Orders /\ call.fills \in Seq(executions)
  BY <1>2 DEF Calls
<1>4. fill \in executions /\ Tail(call.fills) \in Seq(executions)
  BY <1>1, <1>3, HeadTailProperties
<1>5. fill \in Fills
  BY <1>4 DEF IInv, Types
<1>6. call' \in Calls'
  BY <1>1, <1>2, <1>4 DEF Calls
<1> HIDE DEF fill, o
<1>7. CASE already_persisted(fill)
  BY <1>1, <1>6, <1>7, OrdersStay DEF IInv, Types
<1>8. CASE ~already_persisted(fill)
  <2> DEFINE new == apply_fill_to_order(orders[o], fill)
  <2>1. orders[o] \in OrderRecords /\ position \in Positions /\ orders \in [Orders -> OrderRecords]
    BY <1>3 DEF IInv, Types
  <2>2. new \in OrderRecords /\ new.status = orders[o].status
    BY <1>5, <2>1, FilledOrderType
  <2>3. position' \in Positions
    BY <1>1, <1>5, <1>8, <2>1, FilledPositionType
  <2>4. orders' = [orders EXCEPT ![o] = new]
    BY <1>1, <1>8
  <2> HIDE DEF new
  <2>5. /\ orders' \in [Orders -> OrderRecords]
        /\ \A p \in Orders : orders'[p].status = orders[p].status
    BY <1>3, <2>1, <2>2, <2>4
  <2>6. execution_events' \subseteq executions
    BY <1>1, <1>4, <1>8 DEF IInv, Types
  <2>7. LedgerAgrees' /\ OrderMoves
    BY <1>1, <2>5 DEF IInv, LedgerAgrees, OrderMoves
  <2> QED BY <1>1, <1>6, <2>3, <2>5, <2>6, <2>7 DEF IInv, Types
<1> QED BY <1>7, <1>8

LEMMA ReconcileOrderStep == ASSUME IInv, ReconcileOrder PROVE IInv' /\ OrderMoves
<1> DEFINE o == call.order
<1>1. /\ call.at = "fills"
      /\ \E remaining : orders' = [orders EXCEPT
                                     ![o].status = reconciled_status(orders[o], o, remaining)]
      /\ PersistOrderEvent(o)
      /\ call' = NoCall
      /\ UNCHANGED <<position, executions, execution_events>>
  BY DEF ReconcileOrder
<1>2. o \in Orders
  BY <1>1, NoCallIsNone DEF IInv, Types, Calls
<1>3. PICK remaining : orders' = [orders EXCEPT
                                    ![o].status = reconciled_status(orders[o], o, remaining)]
  BY <1>1
<1> DEFINE next == reconciled_status(orders[o], o, remaining)
<1> HIDE DEF o
<1>4. orders[o] \in OrderRecords /\ orders \in [Orders -> OrderRecords]
  BY <1>2 DEF IInv, Types
<1>5. next = orders[o].status \/ (/\ orders[o].status \in Statuses \ Terminal
                                  /\ next \in Statuses
                                  /\ transition_allowed(orders[o].status, next))
  BY <1>2, <1>4, ReconciledStatus
<1>6. orders' = [orders EXCEPT ![o].status = next]
  BY <1>3
<1> HIDE DEF next
<1>7. next \in Statuses \cup {"NONE"}
  BY <1>4, <1>5 DEF OrderRecords
<1>8. orders'[o].status = next
  BY <1>2, <1>4, <1>6 DEF OrderRecords
<1>9. order_events' = order_events \/ order_events' = [order_events EXCEPT ![o] = next]
  BY <1>1, <1>8 DEF PersistOrderEvent
<1>10. /\ orders' \in [Orders -> OrderRecords]
       /\ order_events' \in [Orders -> Statuses \cup {"NONE"}]
       /\ LedgerAgrees' /\ OrderMoves
  BY <1>2, <1>5, <1>6, <1>7, <1>9, OneOrderMoves
<1> QED BY <1>1, <1>10 DEF IInv, Types

LEMMA WriteFailsStep == ASSUME IInv, WriteFails PROVE IInv' /\ OrderMoves
<1>1. /\ call' = NoCall
      /\ UNCHANGED <<orders, position, executions, execution_events, order_events>>
  BY DEF WriteFails
<1> QED BY <1>1, OrdersStay DEF IInv, Types

LEMMA StutterStep == ASSUME IInv, UNCHANGED vars PROVE IInv' /\ OrderMoves
<1>1. UNCHANGED <<orders, position, executions, execution_events, order_events, call>>
  BY DEF vars
<1> QED BY <1>1, OrdersStay DEF IInv, Types, Calls

LEMMA InitIInv == ASSUME Init PROVE IInv
<1>1. /\ orders = [o \in Orders |-> NewOrder]
      /\ position = EmptyPosition
      /\ executions = {} /\ execution_events = {}
      /\ order_events = [o \in Orders |-> "NONE"]
      /\ call = NoCall
  BY DEF Init
<1>2. NewOrder \in OrderRecords /\ EmptyPosition \in Positions
  BY DEF NewOrder, OrderRecords, EmptyPosition, Positions
<1>3. Types
  BY <1>1, <1>2, FS_EmptySet DEF Types
<1>4. LedgerAgrees
  BY <1>1 DEF LedgerAgrees, Terminal
<1> QED BY <1>3, <1>4 DEF IInv

LEMMA NextIInv == ASSUME IInv, [Next]_vars PROVE IInv' /\ OrderMoves
<1>1. ASSUME NEW o \in Orders,
             \/ create_order(o)
             \/ \E next \in Decisions : move_order_status(o, next)
             \/ BrokerExecutes(o)
             \/ reconcile_execution_events(o)
      PROVE  IInv' /\ OrderMoves
  BY <1>1, CreateOrderStep, MoveOrderStatusStep, BrokerExecutesStep, ReconcileStartStep
<1>2. CASE ReconcileFill BY <1>2, ReconcileFillStep
<1>3. CASE ReconcileOrder BY <1>3, ReconcileOrderStep
<1>4. CASE WriteFails BY <1>4, WriteFailsStep
<1>5. CASE UNCHANGED vars BY <1>5, StutterStep
<1> QED BY <1>1, <1>2, <1>3, <1>4, <1>5 DEF Next

LEMMA InvariantHolds == Spec => []IInv
<1>1. Init => IInv
  BY InitIInv
<1>2. IInv /\ [Next]_vars => IInv'
  BY NextIInv
<1> QED BY <1>1, <1>2, PTL DEF Spec

-----------------------------------------------------------------------------

(* Orders, position and ledger are well typed: whatever the broker reports,  *)
(* no amount and no held quantity becomes negative (src/opm/service.py).     *)
THEOREM AmountsAreNatural == Spec => []TypeOK
<1>1. IInv => TypeOK
  BY DEF IInv, Types, TypeOK, OrderRecords, Positions, Calls
<1> QED BY <1>1, InvariantHolds, PTL

(* No order makes a step that ALLOWED_TRANSITIONS forbids, though            *)
(* reconcile_execution_events assigns the status itself, and a terminal      *)
(* status is the last one the ledger stores, though a write may be lost.     *)
THEOREM TransitionsAreFollowed == Spec => StatusFollowsTransitions
<1> DEFINE Moves ==
      \A o \in Orders :
        /\ orders[o].status \notin {"NONE", orders'[o].status} =>
             orders'[o].status \in ALLOWED_TRANSITIONS[orders[o].status]
        /\ order_events[o] \in {"FILLED", "REJECTED", "CANCELED"} =>
             order_events'[o] = order_events[o]
<1>1. IInv /\ [Next]_vars => [Moves]_vars
  BY NextIInv DEF OrderMoves, Terminal
<1> QED BY <1>1, InvariantHolds, PTL DEF Spec, StatusFollowsTransitions

-----------------------------------------------------------------------------
(* The sums over fills.                                                      *)

LEMMA NoFills == TotalQty({}) = 0 /\ Notional({}) = 0
  BY SumOfNothing DEF TotalQty, Notional, SumFunction

LEMMA FillAmounts ==
  ASSUME NEW fill \in Fills
  PROVE  fill.qty \in Nat \ {0} /\ fill.price \in Nat /\ fill.price * fill.qty \in Nat
         /\ fill.order \in Orders
<1>1. fill.qty \in Nat \ {0} /\ fill.price \in Nat /\ fill.order \in Orders
  BY DEF Fills
<1> QED BY <1>1, ProductType

LEMMA SumTypes ==
  ASSUME NEW S, IsFiniteSet(S), S \subseteq Fills
  PROVE  TotalQty(S) \in Nat /\ Notional(S) \in Nat /\ Cardinality(S) \in Nat
<1> DEFINE q == [f \in S |-> f.qty]
           v == [f \in S |-> f.price * f.qty]
<1>1. \A f \in S : q[f] \in Nat /\ v[f] \in Nat
  BY FillAmounts
<1>2. TotalQty(S) = SumFunctionOnSet(q, S) /\ Notional(S) = SumFunctionOnSet(v, S)
  BY DEF TotalQty, Notional, SumFunction
<1> HIDE DEF q, v
<1> QED BY <1>1, <1>2, SumIsNatural, FS_CardinalityType

LEMMA OneMoreFill ==
  ASSUME NEW S, IsFiniteSet(S), S \subseteq Fills, NEW fill \in Fills, fill \notin S
  PROVE  /\ TotalQty(S \cup {fill}) = TotalQty(S) + fill.qty
         /\ Notional(S \cup {fill}) = Notional(S) + fill.price * fill.qty
         /\ Cardinality(S \cup {fill}) = Cardinality(S) + 1
<1> DEFINE T == S \cup {fill}
           q == [f \in S |-> f.qty]
           v == [f \in S |-> f.price * f.qty]
           qT == [f \in T |-> f.qty]
           vT == [f \in T |-> f.price * f.qty]
<1>1. TotalQty(S) = SumFunctionOnSet(q, S) /\ Notional(S) = SumFunctionOnSet(v, S)
  BY DEF TotalQty, Notional, SumFunction
<1>2. TotalQty(T) = SumFunctionOnSet(qT, T) /\ Notional(T) = SumFunctionOnSet(vT, T)
  BY DEF TotalQty, Notional, SumFunction
<1>3. \A f \in S \cup {fill} : qT[f] \in Int /\ vT[f] \in Int
  BY FillAmounts
<1>4. \A f \in S : q[f] = qT[f] /\ v[f] = vT[f]
  OBVIOUS
<1>5. qT[fill] = fill.qty /\ vT[fill] = fill.price * fill.qty
  OBVIOUS
<1> HIDE DEF q, v, qT, vT
<1>6. /\ SumFunctionOnSet(qT, T) = qT[fill] + SumFunctionOnSet(qT, S)
      /\ SumFunctionOnSet(vT, T) = vT[fill] + SumFunctionOnSet(vT, S)
  BY <1>3, SumWith
<1>7. SumFunctionOnSet(qT, S) = TotalQty(S) /\ SumFunctionOnSet(vT, S) = Notional(S)
  BY <1>1, <1>4, SumOfTheSame
<1>8. /\ TotalQty(S) \in Nat /\ Notional(S) \in Nat
      /\ fill.qty \in Nat /\ fill.price * fill.qty \in Nat
  BY SumTypes, FillAmounts
<1>9. TotalQty(T) = fill.qty + TotalQty(S)
  BY <1>2, <1>5, <1>6, <1>7
<1>10. Notional(T) = fill.price * fill.qty + Notional(S)
  BY <1>2, <1>5, <1>6, <1>7
<1>11. Cardinality(T) = Cardinality(S) + 1
  BY FS_AddElement
<1> QED BY <1>8, <1>9, <1>10, <1>11

LEMMA PartOfFills ==
  ASSUME NEW S, IsFiniteSet(S), S \subseteq Fills, NEW T, T \subseteq S
  PROVE  TotalQty(T) <= TotalQty(S)
<1> DEFINE q == [f \in S |-> f.qty]
           r == [f \in T |-> f.qty]
<1>1. TotalQty(S) = SumFunctionOnSet(q, S) /\ TotalQty(T) = SumFunctionOnSet(r, T)
  BY DEF TotalQty, SumFunction
<1>2. (\A f \in S : q[f] \in Nat) /\ (\A f \in T : r[f] = q[f])
  BY FillAmounts
<1>3. IsFiniteSet(T)
  BY FS_Subset
<1> HIDE DEF q, r
<1>4. SumFunctionOnSet(r, T) = SumFunctionOnSet(q, T)
  BY <1>2, <1>3, SumOfTheSame
<1> QED BY <1>1, <1>2, <1>4, SumMonotone

(* A new fill is one of its own order and of that order's side.              *)
LEMMA WhereAFillGoes ==
  ASSUME NEW S, NEW fill \in Fills
  PROVE  /\ \A o \in Orders : FillsOf(S \cup {fill}, o) =
              IF fill.order = o THEN FillsOf(S, o) \cup {fill} ELSE FillsOf(S, o)
         /\ \A side : FillsOn(S \cup {fill}, side) =
              IF side_of[fill.order] = side THEN FillsOn(S, side) \cup {fill}
              ELSE FillsOn(S, side)
  BY DEF FillsOf, FillsOn

LEMMA FillsArePart ==
  ASSUME NEW S, IsFiniteSet(S), S \subseteq Fills
  PROVE  /\ \A o : FillsOf(S, o) \subseteq S /\ IsFiniteSet(FillsOf(S, o))
         /\ \A side : FillsOn(S, side) \subseteq S /\ IsFiniteSet(FillsOn(S, side))
  BY FS_Subset DEF FillsOf, FillsOn

-----------------------------------------------------------------------------
(* Averages: half up leaves an error of at most half a unit.                 *)

LEMMA AverageIsNearest ==
  ASSUME NEW num \in Nat, NEW den \in Nat \ {0}
  PROVE  LET twice == 2 * (Average(num, den) * den)
         IN  twice <= 2 * num + den /\ 2 * num - den <= twice
<1> DEFINE n == 2 * num + den
           d == 2 * den
           a == n \div d
<1>1. n \in Nat /\ d \in Nat \ {0}
  OBVIOUS
<1> HIDE DEF n, d
<1>2. a \in Int /\ d * a <= n /\ n < d * (a + 1)
  BY <1>1
<1>3. a = Average(num, den)
  BY DEF Average, n, d
<1> HIDE DEF a
<1>4. d * a = 2 * (a * den) /\ d * (a + 1) = d * a + d
  BY <1>1, <1>2 DEF d
<1>5. a * den \in Int
  BY <1>2
<1>6. 2 * (a * den) <= 2 * num + den /\ 2 * num + den < 2 * (a * den) + 2 * den
  BY <1>2, <1>4 DEF n, d
<1>7. 2 * num - den <= 2 * (a * den)
  BY <1>5, <1>6
<1> QED BY <1>3, <1>6, <1>7

(* The order agrees with the fills counted into it: their quantity exactly,  *)
(* their average up to a unit for each of them.                              *)
Drift(order, fills) ==
  order.avg_executed_price * TotalQty(fills) - 10000 * Notional(fills)

Counted(order, fills) ==
  /\ order.cum_executed_qty = TotalQty(fills)
  /\ 2 * Drift(order, fills) <= Cardinality(fills) * TotalQty(fills)
  /\ 0 - Cardinality(fills) * TotalQty(fills) <= 2 * Drift(order, fills)

(* One more rounding adds at most the quantity it was divided by, and the    *)
(* allowance of the earlier ones grows with the quantity.                    *)
LEMMA FillIsCounted ==
  ASSUME NEW order \in OrderRecords, NEW S, IsFiniteSet(S), S \subseteq Fills,
         NEW fill \in Fills, fill \notin S, Counted(order, S)
  PROVE  Counted(apply_fill_to_order(order, fill), S \cup {fill})
<1> DEFINE T == S \cup {fill}
           avg == order.avg_executed_price
           Q == TotalQty(S)
           N == Notional(S)
           n == Cardinality(S)
           q == fill.qty
           z == fill.price * fill.qty
           total == avg * order.cum_executed_qty + 10000 * fill.price * fill.qty
           new == Average(total, order.cum_executed_qty + q)
<1>1. /\ avg \in Nat /\ Q \in Nat /\ N \in Nat /\ n \in Nat
      /\ q \in Nat \ {0} /\ z \in Nat /\ fill.price \in Nat
  BY SumTypes, FillAmounts DEF OrderRecords
<1>2. TotalQty(T) = Q + q /\ Notional(T) = N + z /\ Cardinality(T) = n + 1
  BY OneMoreFill
<1>3. order.cum_executed_qty = Q
  BY DEF Counted
<1>4. /\ apply_fill_to_order(order, fill).cum_executed_qty = Q + q
      /\ apply_fill_to_order(order, fill).avg_executed_price = new
  BY <1>3 DEF apply_fill_to_order, OrderRecords
<1>5. 10000 * fill.price * fill.qty = 10000 * z
  BY <1>1
<1>6. total = avg * Q + 10000 * z
  BY <1>3, <1>5
<1>7. avg * Q \in Nat /\ n * Q \in Nat /\ n * q \in Nat
  BY <1>1, ProductType
<1>8. /\ 2 * (avg * Q - 10000 * N) <= n * Q
      /\ 0 - n * Q <= 2 * (avg * Q - 10000 * N)
  BY DEF Counted, Drift
<1> HIDE DEF z, total
<1>9. total \in Nat /\ Q + q \in Nat \ {0}
  BY <1>1, <1>6, <1>7
<1>10. new \in Nat /\ new = Average(total, Q + q)
  BY <1>3, <1>9, AverageType
<1>11. 2 * (new * (Q + q)) <= 2 * total + (Q + q) /\ 2 * total - (Q + q) <= 2 * (new * (Q + q))
  BY <1>9, <1>10, AverageIsNearest
<1> HIDE DEF avg, Q, N, n, q, new
<1>12. (n + 1) * (Q + q) = n * Q + n * q + Q + q
  BY <1>1
<1> DEFINE R == new * (Q + q)
           P == avg * Q
           A == n * Q
           B == n * q
<1>13. R \in Nat /\ P \in Nat /\ A \in Nat /\ B \in Nat
  BY <1>7, <1>9, <1>10, ProductType
<1>14. /\ 2 * R <= 2 * (P + 10000 * z) + (Q + q)
       /\ 2 * (P + 10000 * z) - (Q + q) <= 2 * R
       /\ 2 * (P - 10000 * N) <= A /\ 0 - A <= 2 * (P - 10000 * N)
  BY <1>6, <1>8, <1>11
<1> HIDE DEF R, P, A, B
<1>15. /\ 2 * (R - 10000 * (N + z)) <= A + B + Q + q
       /\ 0 - (A + B + Q + q) <= 2 * (R - 10000 * (N + z))
  BY <1>1, <1>13, <1>14
<1>16. /\ 2 * (new * (Q + q) - 10000 * (N + z)) <= (n + 1) * (Q + q)
       /\ 0 - (n + 1) * (Q + q) <= 2 * (new * (Q + q) - 10000 * (N + z))
  BY <1>12, <1>15 DEF R, A, B
<1> QED BY <1>2, <1>4, <1>16 DEF Counted, Drift, Q, q, N, z, n

(* The position agrees with the fills of both sides.                         *)
Booked(pos, bought, sold) ==
  /\ pos.quantity + pos.sell_quantity = TotalQty(bought)
  /\ pos.sell_quantity <= TotalQty(sold)
  /\ pos.buy_notional = Notional(bought)
  /\ bought # {} /\ pos.sell_quantity = 0 =>
       pos.avg_buy_price = Average(10000 * Notional(bought), TotalQty(bought))

LEMMA BuyIsBooked ==
  ASSUME NEW pos \in Positions, NEW S, IsFiniteSet(S), S \subseteq Fills, NEW sold,
         NEW fill \in Fills, fill \notin S, Booked(pos, S, sold)
  PROVE  Booked(ApplyBuy(pos, fill), S \cup {fill}, sold)
<1> DEFINE paid == pos.buy_notional + fill.price * fill.qty
           new == ApplyBuy(pos, fill)
<1>1. pos.quantity \in Nat /\ pos.sell_quantity \in Nat
  BY DEF Positions
<1>2. TotalQty(S \cup {fill}) = TotalQty(S) + fill.qty /\ Notional(S \cup {fill}) = paid
  BY OneMoreFill DEF Booked
<1>3. /\ new.quantity = pos.quantity + fill.qty
      /\ new.sell_quantity = pos.sell_quantity
      /\ new.buy_notional = paid
      /\ new.avg_buy_price = Average(10000 * paid, pos.quantity + fill.qty)
  BY DEF ApplyBuy, Positions
<1>4. fill.qty \in Nat /\ TotalQty(S) \in Nat
  BY FillAmounts, SumTypes
<1>5. pos.quantity + pos.sell_quantity = TotalQty(S) /\ pos.sell_quantity <= TotalQty(sold)
  BY DEF Booked
<1> HIDE DEF paid, new
<1>6. new.quantity + new.sell_quantity = TotalQty(S \cup {fill})
  BY <1>1, <1>2, <1>3, <1>4, <1>5
<1>7. new.sell_quantity = 0 => TotalQty(S \cup {fill}) = pos.quantity + fill.qty
  BY <1>1, <1>2, <1>3, <1>4, <1>5
<1> QED BY <1>2, <1>3, <1>5, <1>6, <1>7 DEF Booked, new

LEMMA SellIsBooked ==
  ASSUME NEW pos \in Positions, NEW bought, NEW S, IsFiniteSet(S), S \subseteq Fills,
         NEW fill \in Fills, fill \notin S, Booked(pos, bought, S)
  PROVE  Booked(ApplySell(pos, fill), bought, S \cup {fill})
<1> DEFINE qty == IF fill.qty < pos.quantity THEN fill.qty ELSE pos.quantity
           new == ApplySell(pos, fill)
<1>1. /\ pos.quantity \in Nat /\ pos.sell_quantity \in Nat
      /\ fill.qty \in Nat /\ TotalQty(S) \in Nat
  BY FillAmounts, SumTypes DEF Positions
<1>2. TotalQty(S \cup {fill}) = TotalQty(S) + fill.qty
  BY OneMoreFill
<1>3. qty \in Nat /\ qty <= fill.qty
  BY <1>1
<1>4. /\ new.quantity = pos.quantity - qty
      /\ new.sell_quantity = pos.sell_quantity + qty
      /\ new.buy_notional = pos.buy_notional
      /\ new.avg_buy_price = pos.avg_buy_price
  BY DEF ApplySell, Positions
<1>5. pos.quantity + pos.sell_quantity = TotalQty(bought) /\ pos.sell_quantity <= TotalQty(S)
  BY DEF Booked
<1> HIDE DEF qty, new
<1>6. new.quantity + new.sell_quantity = TotalQty(bought)
  BY <1>1, <1>3, <1>4, <1>5
<1>7. new.sell_quantity <= TotalQty(S \cup {fill})
  BY <1>1, <1>2, <1>3, <1>4, <1>5
<1>8. new.sell_quantity = 0 => pos.sell_quantity = 0
  BY <1>1, <1>3, <1>4
<1> QED BY <1>4, <1>6, <1>7, <1>8 DEF Booked, new

-----------------------------------------------------------------------------
(* The second part of the inductive invariant: what the amounts are.  A call *)
(* brings fills of its own order, and the broker executes no more of an      *)
(* order than was requested.                                                 *)

OwnFills == call.at = "fills" => call.fills \in Seq(FillsOf(executions, call.order))

WithinRequest == \A o \in Orders : TotalQty(FillsOf(executions, o)) <= requested_qty[o]

OrdersCounted == \A o \in Orders : Counted(orders[o], FillsOf(execution_events, o))

PositionBooked ==
  Booked(position, FillsOn(execution_events, "BUY"), FillsOn(execution_events, "SELL"))

Amounts == OwnFills /\ WithinRequest /\ OrdersCounted /\ PositionBooked /\ FilledIsExecuted

LEMMA FiniteLedgers ==
  ASSUME Types
  PROVE  /\ IsFiniteSet(executions) /\ executions \subseteq Fills
         /\ IsFiniteSet(execution_events) /\ execution_events \subseteq Fills
  BY FS_Subset DEF Types

(* The ledger never holds more of an order than was requested.               *)
LEMMA StoredWithinRequest ==
  ASSUME Types, WithinRequest, NEW stored, stored \subseteq executions, NEW o \in Orders
  PROVE  TotalQty(FillsOf(stored, o)) <= requested_qty[o]
<1>1. FillsOf(stored, o) \subseteq FillsOf(executions, o)
  BY DEF FillsOf
<1>2. IsFiniteSet(FillsOf(executions, o)) /\ FillsOf(executions, o) \subseteq Fills
  BY FiniteLedgers, FillsArePart
<1>3. IsFiniteSet(FillsOf(stored, o)) /\ FillsOf(stored, o) \subseteq Fills
  BY <1>1, <1>2, FS_Subset
<1>4. TotalQty(FillsOf(stored, o)) <= TotalQty(FillsOf(executions, o))
  BY <1>1, <1>2, PartOfFills
<1>5. TotalQty(FillsOf(executions, o)) \in Nat /\ TotalQty(FillsOf(stored, o)) \in Nat
  BY <1>2, <1>3, SumTypes
<1>6. TotalQty(FillsOf(executions, o)) <= requested_qty[o] /\ requested_qty[o] \in Nat
  BY OrderAssumption DEF WithinRequest
<1> QED BY <1>4, <1>5, <1>6

(* A step that applies no fill.                                              *)
LEMMA AmountsStay ==
  ASSUME Amounts, UNCHANGED <<position, execution_events>>,
         \A o \in Orders :
           /\ orders'[o].cum_executed_qty = orders[o].cum_executed_qty
           /\ orders'[o].avg_executed_price = orders[o].avg_executed_price
           /\ "FILLED" \in {orders'[o].status, order_events'[o]} =>
                \/ "FILLED" \in {orders[o].status, order_events[o]}
                \/ TotalQty(FillsOf(execution_events, o)) = requested_qty[o],
         OwnFills', WithinRequest'
  PROVE  Amounts'
<1>1. OrdersCounted'
  BY DEF Amounts, OrdersCounted, Counted, Drift
<1>2. PositionBooked'
  BY DEF Amounts, PositionBooked
<1>3. FilledIsExecuted'
  BY DEF Amounts, FilledIsExecuted
<1> QED BY <1>1, <1>2, <1>3 DEF Amounts

LEMMA NoCallOwnsNothing == call' = NoCall => OwnFills'
  BY NoCallIsNone DEF OwnFills

(* Where the caller gives an order a status, it is never FILLED.             *)
LEMMA StatusAmounts ==
  ASSUME IInv, Amounts, NEW o \in Orders, NEW next \in Statuses \cup {"NONE"},
         orders' = [orders EXCEPT ![o].status = next],
         \/ next # "FILLED"
         \/ next = orders[o].status
         \/ TotalQty(FillsOf(execution_events, o)) = requested_qty[o],
         \/ order_events' = order_events
         \/ order_events' = [order_events EXCEPT ![o] = next],
         UNCHANGED <<position, executions, execution_events>>,
         call' = NoCall
  PROVE  Amounts'
<1>1. orders \in [Orders -> OrderRecords] /\ order_events \in [Orders -> Statuses \cup {"NONE"}]
  BY DEF IInv, Types
<1>2. /\ orders'[o].cum_executed_qty = orders[o].cum_executed_qty
      /\ orders'[o].avg_executed_price = orders[o].avg_executed_price
      /\ orders'[o].status = next
      /\ \A p \in Orders \ {o} : orders'[p] = orders[p]
  BY <1>1 DEF OrderRecords
<1>3. /\ \A p \in Orders \ {o} : order_events'[p] = order_events[p]
      /\ order_events'[o] \in {order_events[o], next}
  BY <1>1
<1>4. ASSUME NEW p \in Orders
      PROVE  /\ orders'[p].cum_executed_qty = orders[p].cum_executed_qty
             /\ orders'[p].avg_executed_price = orders[p].avg_executed_price
             /\ "FILLED" \in {orders'[p].status, order_events'[p]} =>
                  \/ "FILLED" \in {orders[p].status, order_events[p]}
                  \/ TotalQty(FillsOf(execution_events, p)) = requested_qty[p]
  <2>1. CASE p = o
    BY <1>2, <1>3, <2>1
  <2>2. CASE p # o
    BY <1>2, <1>3, <2>2
  <2> QED BY <2>1, <2>2
<1>5. OwnFills' /\ WithinRequest'
  BY NoCallOwnsNothing DEF Amounts, WithinRequest
<1> QED BY <1>4, <1>5, AmountsStay

LEMMA CreateOrderAmounts ==
  ASSUME IInv, Amounts, NEW o \in Orders, create_order(o) PROVE Amounts'
<1>1. "PENDING_SUBMIT" \in Statuses
  BY DEF Statuses
<1> QED BY <1>1, StatusAmounts DEF create_order

LEMMA MoveOrderStatusAmounts ==
  ASSUME IInv, Amounts, NEW o \in Orders, NEW next \in Decisions, move_order_status(o, next)
  PROVE  Amounts'
<1>1. next \in Statuses /\ next # "FILLED"
  BY DEF Decisions, Statuses
<1>2. orders' = [orders EXCEPT ![o].status = next] /\ PersistOrderEvent(o)
  BY DEF move_order_status
<1>3. orders'[o].status = next
  BY <1>2 DEF IInv, Types, OrderRecords
<1>4. order_events' = order_events \/ order_events' = [order_events EXCEPT ![o] = next]
  BY <1>2, <1>3 DEF PersistOrderEvent
<1> QED BY <1>1, <1>2, <1>4, StatusAmounts DEF move_order_status

(* What the broker executes is at most what remained.                        *)
LEMMA BrokerExecutesAmounts ==
  ASSUME IInv, Amounts, NEW o \in Orders, BrokerExecutes(o) PROVE Amounts'
<1>1. PICK qty \in 1..BrokerRemaining(o), price \in FillPrices[o] :
        executions' = executions \cup
          {[execution_id |-> <<o, Cardinality(FillsOf(executions, o))>>, order |-> o,
            price |-> price, qty |-> qty]}
  BY DEF BrokerExecutes
<1> DEFINE fill == [execution_id |-> <<o, Cardinality(FillsOf(executions, o))>>, order |-> o,
                    price |-> price, qty |-> qty]
<1>2. executions' = executions \cup {fill} /\ fill.order = o /\ fill.qty = qty
  BY <1>1
<1>3. /\ UNCHANGED <<orders, position, execution_events, order_events>>
      /\ call = NoCall /\ call' = NoCall
  BY DEF BrokerExecutes
<1>4. fill \in Fills
  <2>1. Cardinality(FillsOf(executions, o)) \in Nat
    BY FiniteLedgers, FillsArePart, FS_CardinalityType DEF IInv
  <2>2. price \in Nat /\ qty \in Nat \ {0}
    BY OrderAssumption
  <2> QED BY <2>1, <2>2 DEF Fills
<1> HIDE DEF fill
<1>5. ASSUME NEW p \in Orders
      PROVE  TotalQty(FillsOf(executions', p)) <= requested_qty[p]
  <2>1. TotalQty(FillsOf(executions, p)) <= requested_qty[p]
    BY DEF Amounts, WithinRequest
  <2>2. CASE p # o \/ fill \in executions
    <3>1. FillsOf(executions', p) = FillsOf(executions, p)
      BY <1>2, <1>4, <2>2, WhereAFillGoes
    <3> QED BY <2>1, <3>1
  <2>3. CASE p = o /\ fill \notin executions
    <3>1. FillsOf(executions', o) = FillsOf(executions, o) \cup {fill}
      BY <1>2, <1>4, WhereAFillGoes
    <3>2. /\ IsFiniteSet(FillsOf(executions, o)) /\ FillsOf(executions, o) \subseteq Fills
          /\ fill \notin FillsOf(executions, o)
      BY <2>3, FiniteLedgers, FillsArePart DEF IInv
    <3>3. TotalQty(FillsOf(executions', o)) = TotalQty(FillsOf(executions, o)) + qty
      BY <1>2, <1>4, <3>1, <3>2, OneMoreFill
    <3>4. TotalQty(FillsOf(executions, o)) \in Nat /\ requested_qty[o] \in Nat
      BY <3>2, SumTypes, OrderAssumption
    <3>5. qty <= requested_qty[o] - TotalQty(FillsOf(executions, o)) /\ qty \in Int
      BY <3>4 DEF BrokerRemaining
    <3> QED BY <2>3, <3>3, <3>4, <3>5
  <2> QED BY <2>2, <2>3
<1>6. WithinRequest' /\ OwnFills'
  BY <1>3, <1>5, NoCallOwnsNothing DEF WithinRequest
<1> QED BY <1>3, <1>6, AmountsStay

LEMMA ReconcileStartAmounts ==
  ASSUME IInv, Amounts, NEW o \in Orders, reconcile_execution_events(o) PROVE Amounts'
<1>1. PICK fills \in Deliveries(o) : call' = [at |-> "fills", order |-> o, fills |-> fills]
  BY DEF reconcile_execution_events
<1>2. UNCHANGED <<orders, position, executions, execution_events, order_events>>
  BY DEF reconcile_execution_events
<1>3. fills \in Seq(FillsOf(executions, o))
  <2>1. PICK n \in 0..MaxFills : fills \in [1..n -> FillsOf(executions, o)]
    BY DEF Deliveries
  <2>2. n \in Nat
    BY OrderAssumption
  <2> QED BY <2>1, <2>2, SeqDef
<1>4. OwnFills'
  BY <1>1, <1>2, <1>3 DEF OwnFills
<1>5. WithinRequest'
  BY <1>2 DEF Amounts, WithinRequest
<1> QED BY <1>2, <1>4, <1>5, AmountsStay

(* A new fill is counted once everywhere, and never goes to an order that is *)
(* FILLED: the broker has nothing more of it.                                *)
LEMMA ReconcileFillAmounts == ASSUME IInv, Amounts, ReconcileFill PROVE Amounts'
<1> DEFINE o == call.order
           fill == Head(call.fills)
<1>1. /\ call.at = "fills" /\ call.fills # <<>>
      /\ IF already_persisted(fill)
         THEN UNCHANGED <<orders, position, execution_events>>
         ELSE /\ execution_events' = execution_events \cup {fill}
              /\ orders' = [orders EXCEPT ![o] = apply_fill_to_order(orders[o], fill)]
              /\ position' = apply_fill_to_position(position, side_of[o], fill)
      /\ call' = [call EXCEPT !.fills = Tail(call.fills)]
      /\ UNCHANGED <<executions, order_events>>
  BY DEF ReconcileFill, IInv, Types, Calls
<1>2. call \in Calls /\ o \in Orders
  BY <1>1, NoCallIsNone DEF IInv, Types, Calls
<1>3. call.fills \in Seq(FillsOf(executions, o))
  BY <1>1 DEF Amounts, OwnFills
<1>4. fill \in FillsOf(executions, o) /\ Tail(call.fills) \in Seq(FillsOf(executions, o))
  BY <1>1, <1>3, HeadTailProperties
<1>5. fill \in executions /\ fill \in Fills /\ fill.order = o
  BY <1>4 DEF FillsOf, IInv, Types
<1>6. call'.fills = Tail(call.fills) /\ call'.order = o
  BY <1>1, <1>2 DEF Calls
<1>7. OwnFills' /\ WithinRequest'
  BY <1>1, <1>4, <1>6 DEF OwnFills, Amounts, WithinRequest
<1> HIDE DEF fill, o
<1>8. CASE already_persisted(fill)
  BY <1>1, <1>7, <1>8, AmountsStay
<1>9. CASE ~already_persisted(fill)
  <2> DEFINE E == execution_events
             new == apply_fill_to_order(orders[o], fill)
  <2>1. /\ execution_events' = E \cup {fill}
        /\ orders' = [orders EXCEPT ![o] = new]
        /\ position' = apply_fill_to_position(position, side_of[o], fill)
    BY <1>1, <1>9
  <2>2. fill \notin E
    BY <1>9 DEF already_persisted
  <2>3. IsFiniteSet(E) /\ E \subseteq Fills
    BY FiniteLedgers DEF IInv
  <2>4. orders \in [Orders -> OrderRecords] /\ position \in Positions
    BY DEF IInv, Types
  <2> HIDE DEF E
  <2>5. /\ IsFiniteSet(FillsOf(E, o)) /\ FillsOf(E, o) \subseteq Fills /\ fill \notin FillsOf(E, o)
        /\ \A side : /\ IsFiniteSet(FillsOn(E, side)) /\ FillsOn(E, side) \subseteq Fills
                     /\ fill \notin FillsOn(E, side)
    BY <2>2, <2>3, FillsArePart
  <2>6. /\ FillsOf(execution_events', o) = FillsOf(E, o) \cup {fill}
        /\ \A p \in Orders \ {o} : FillsOf(execution_events', p) = FillsOf(E, p)
    <3>1. \A p \in Orders : FillsOf(E \cup {fill}, p) =
                             IF fill.order = p THEN FillsOf(E, p) \cup {fill} ELSE FillsOf(E, p)
      BY <1>5, WhereAFillGoes, Zenon
    <3> QED BY <1>2, <1>5, <2>1, <3>1 DEF o
  <2>7. OrdersCounted'
    <3>1. Counted(orders[o], FillsOf(E, o))
      BY <1>2 DEF Amounts, OrdersCounted, E, o
    <3>2. Counted(new, FillsOf(E, o) \cup {fill})
      BY <1>2, <1>5, <2>4, <2>5, <3>1, FillIsCounted DEF o
    <3>3. orders'[o] = new /\ \A p \in Orders \ {o} : orders'[p] = orders[p]
      BY <1>2, <2>1, <2>4 DEF o
    <3> HIDE DEF new
    <3>4. ASSUME NEW p \in Orders PROVE Counted(orders'[p], FillsOf(execution_events', p))
      <4>1. CASE p = o
        BY <2>6, <3>2, <3>3, <4>1
      <4>2. CASE p # o
        BY <2>6, <3>3, <4>2 DEF Amounts, OrdersCounted, E
      <4> QED BY <4>1, <4>2
    <3>5. ASSUME NEW p \in Orders
          PROVE  Counted(orders[p], FillsOf(execution_events, p))'
      BY <3>4 DEF Counted, Drift
    <3> QED BY <3>5 DEF OrdersCounted
  <2>8. PositionBooked'
    <3> DEFINE bought == FillsOn(E, "BUY")
               sold == FillsOn(E, "SELL")
    <3>1. Booked(position, bought, sold)
      BY DEF Amounts, PositionBooked, E
    <3>2. side_of[o] \in {"BUY", "SELL"}
      BY <1>2, OrderAssumption DEF o
    <3>3. \A side : FillsOn(execution_events', side) =
                      IF side_of[o] = side THEN FillsOn(E, side) \cup {fill} ELSE FillsOn(E, side)
      <4>1. \A side : FillsOn(E \cup {fill}, side) =
                        IF side_of[fill.order] = side THEN FillsOn(E, side) \cup {fill}
                        ELSE FillsOn(E, side)
        BY <1>5, WhereAFillGoes, Zenon
      <4> QED BY <1>5, <2>1, <4>1
    <3>4. CASE side_of[o] = "BUY"
      <4>1. Booked(ApplyBuy(position, fill), bought \cup {fill}, sold)
        BY <1>5, <2>4, <2>5, <3>1, BuyIsBooked
      <4>2. Booked(position', FillsOn(execution_events', "BUY"), FillsOn(execution_events', "SELL"))
        BY <2>1, <3>3, <3>4, <4>1 DEF apply_fill_to_position
      <4> QED BY <4>2 DEF PositionBooked, Booked
    <3>5. CASE side_of[o] = "SELL"
      <4>1. Booked(ApplySell(position, fill), bought, sold \cup {fill})
        BY <1>5, <2>4, <2>5, <3>1, SellIsBooked
      <4>2. Booked(position', FillsOn(execution_events', "BUY"), FillsOn(execution_events', "SELL"))
        BY <2>1, <3>3, <3>5, <4>1 DEF apply_fill_to_position
      <4> QED BY <4>2 DEF PositionBooked, Booked
    <3> QED BY <3>2, <3>4, <3>5
  <2>9. FilledIsExecuted'
    <3>1. \A p \in Orders : orders'[p].status = orders[p].status
      <4>1. new.status = orders[o].status
        BY <1>2, <1>5, <2>4, FilledOrderType DEF o
      <4> HIDE DEF new
      <4> QED BY <2>1, <2>4, <4>1
    <3>2. TotalQty(FillsOf(execution_events', o)) <= requested_qty[o]
      <4>1. E \cup {fill} \subseteq executions
        BY <1>5 DEF E, IInv, Types
      <4> QED BY <1>2, <2>1, <4>1, StoredWithinRequest DEF IInv, Amounts, o
    <3>3. TotalQty(FillsOf(execution_events', o)) = TotalQty(FillsOf(E, o)) + fill.qty
      BY <1>5, <2>5, <2>6, OneMoreFill
    <3>4. /\ TotalQty(FillsOf(E, o)) \in Nat /\ fill.qty \in Nat \ {0}
          /\ requested_qty[o] \in Nat
      BY <1>2, <1>5, <2>5, SumTypes, FillAmounts, OrderAssumption DEF o
    <3>5. TotalQty(FillsOf(E, o)) # requested_qty[o]
      BY <3>2, <3>3, <3>4
    <3>6. ASSUME NEW p \in Orders, "FILLED" \in {orders'[p].status, order_events'[p]}
          PROVE  TotalQty(FillsOf(execution_events', p)) = requested_qty[p]
      <4>1. "FILLED" \in {orders[p].status, order_events[p]}
        BY <1>1, <3>1, <3>6
      <4>2. TotalQty(FillsOf(E, p)) = requested_qty[p]
        BY <4>1 DEF Amounts, FilledIsExecuted, E
      <4>3. p # o
        BY <3>5, <4>2
      <4> QED BY <2>6, <4>2, <4>3
    <3> QED BY <3>6 DEF FilledIsExecuted
  <2> QED BY <1>7, <2>7, <2>8, <2>9 DEF Amounts
<1> QED BY <1>8, <1>9

(* Reconciliation calls an order FILLED when the ledger holds all of it.     *)
LEMMA ReconcileOrderAmounts == ASSUME IInv, Amounts, ReconcileOrder PROVE Amounts'
<1> DEFINE o == call.order
<1>1. /\ call.at = "fills"
      /\ \E remaining : orders' = [orders EXCEPT
                                     ![o].status = reconciled_status(orders[o], o, remaining)]
      /\ PersistOrderEvent(o)
      /\ call' = NoCall
      /\ UNCHANGED <<position, executions, execution_events>>
  BY DEF ReconcileOrder
<1>2. o \in Orders
  BY <1>1, NoCallIsNone DEF IInv, Types, Calls
<1>3. PICK remaining : orders' = [orders EXCEPT
                                    ![o].status = reconciled_status(orders[o], o, remaining)]
  BY <1>1
<1> DEFINE next == reconciled_status(orders[o], o, remaining)
           fills == FillsOf(execution_events, o)
<1> HIDE DEF o
<1>4. orders[o] \in OrderRecords /\ orders \in [Orders -> OrderRecords]
  BY <1>2 DEF IInv, Types
<1>5. next = orders[o].status \/ next \in Statuses
  BY <1>2, <1>4, ReconciledStatus
<1>6. next = "FILLED" => \/ next = orders[o].status
                         \/ orders[o].cum_executed_qty >= requested_qty[o]
  BY DEF reconciled_status
<1>7. orders[o].cum_executed_qty >= requested_qty[o] => TotalQty(fills) = requested_qty[o]
  <2>1. orders[o].cum_executed_qty = TotalQty(fills)
    BY <1>2 DEF Amounts, OrdersCounted, Counted
  <2>2. TotalQty(fills) <= requested_qty[o]
    BY <1>2, StoredWithinRequest DEF IInv, Types, Amounts
  <2>3. TotalQty(fills) \in Nat /\ requested_qty[o] \in Nat
    BY <1>2, <1>4, <2>1, OrderAssumption DEF OrderRecords
  <2> QED BY <2>1, <2>2, <2>3
<1>8. orders' = [orders EXCEPT ![o].status = next]
  BY <1>3
<1> HIDE DEF next, fills
<1>9. orders'[o].status = next /\ next \in Statuses \cup {"NONE"}
  BY <1>2, <1>4, <1>5, <1>8 DEF OrderRecords
<1>10. order_events' = order_events \/ order_events' = [order_events EXCEPT ![o] = next]
  BY <1>1, <1>9 DEF PersistOrderEvent
<1>11. \/ next # "FILLED" \/ next = orders[o].status
       \/ TotalQty(FillsOf(execution_events, o)) = requested_qty[o]
  BY <1>6, <1>7 DEF fills
<1> QED BY <1>1, <1>2, <1>8, <1>9, <1>10, <1>11, StatusAmounts

LEMMA IdleAmounts ==
  ASSUME IInv, Amounts, WriteFails \/ UNCHANGED vars PROVE Amounts'
<1>1. /\ UNCHANGED <<orders, position, executions, execution_events, order_events>>
      /\ call' = NoCall \/ call' = call
  BY DEF WriteFails, vars
<1>2. OwnFills'
  BY <1>1, NoCallOwnsNothing DEF Amounts, OwnFills
<1>3. WithinRequest'
  BY <1>1 DEF Amounts, WithinRequest
<1> QED BY <1>1, <1>2, <1>3, AmountsStay

LEMMA InitAmounts == ASSUME Init PROVE Amounts
<1>1. /\ orders = [o \in Orders |-> NewOrder]
      /\ position = EmptyPosition
      /\ executions = {} /\ execution_events = {}
      /\ order_events = [o \in Orders |-> "NONE"]
      /\ call = NoCall
  BY DEF Init
<1>2. (\A o : FillsOf({}, o) = {}) /\ (\A side : FillsOn({}, side) = {})
  BY DEF FillsOf, FillsOn
<1>3. OwnFills
  BY <1>1, NoCallIsNone DEF OwnFills
<1>4. WithinRequest
  BY <1>1, <1>2, NoFills, OrderAssumption DEF WithinRequest
<1>5. OrdersCounted
  <2>1. Counted(NewOrder, {})
    BY NoFills, FS_EmptySet DEF Counted, Drift, NewOrder
  <2> QED BY <1>1, <1>2, <2>1 DEF OrdersCounted
<1>6. PositionBooked
  <2>1. Booked(EmptyPosition, {}, {})
    BY NoFills DEF Booked, EmptyPosition
  <2> QED BY <1>1, <1>2, <2>1 DEF PositionBooked
<1>7. FilledIsExecuted
  BY <1>1 DEF FilledIsExecuted, NewOrder
<1> QED BY <1>3, <1>4, <1>5, <1>6, <1>7 DEF Amounts

LEMMA NextAmounts == ASSUME IInv, Amounts, [Next]_vars PROVE Amounts'
<1>1. ASSUME NEW o \in Orders,
             \/ create_order(o)
             \/ \E next \in Decisions : move_order_status(o, next)
             \/ BrokerExecutes(o)
             \/ reconcile_execution_events(o)
      PROVE  Amounts'
  BY <1>1, CreateOrderAmounts, MoveOrderStatusAmounts, BrokerExecutesAmounts, ReconcileStartAmounts
<1>2. CASE ReconcileFill BY <1>2, ReconcileFillAmounts
<1>3. CASE ReconcileOrder BY <1>3, ReconcileOrderAmounts
<1>4. CASE WriteFails \/ UNCHANGED vars BY <1>4, IdleAmounts
<1> QED BY <1>1, <1>2, <1>3, <1>4 DEF Next

LEMMA AmountsHold == Spec => []Amounts
<1>1. Init => Amounts
  BY InitAmounts
<1>2. IInv /\ Amounts /\ [Next]_vars => Amounts'
  BY NextAmounts
<1> QED BY <1>1, <1>2, InvariantHolds, PTL DEF Spec

-----------------------------------------------------------------------------

(* Every execution counts exactly once, however often and in whatever order  *)
(* the broker repeats it and wherever a failing write ends a call: an order  *)
(* has executed what the ledger holds of it (reconcile_execution_events).    *)
THEOREM ExecutionsCountOnce == Spec => []FillsCountOnce
<1>1. Amounts => FillsCountOnce
  BY DEF Amounts, OrdersCounted, Counted, FillsCountOnce
<1> QED BY <1>1, AmountsHold, PTL

(* Every share bought is held or sold, no more is sold than was executed,    *)
(* and what was paid is what the ledger says (apply_fill_to_position).       *)
THEOREM PositionFollows == Spec => []PositionFollowsFills
<1>1. Amounts => PositionFollowsFills
  BY DEF Amounts, PositionBooked, Booked, PositionFollowsFills
<1> QED BY <1>1, AmountsHold, PTL

(* FILLED means that the executions stored add up to the request, in memory  *)
(* and in the ledger, whatever the broker says remains.  Callers decide      *)
(* nothing but Decisions.                                                    *)
THEOREM FilledMeansExecuted == Spec => []FilledIsExecuted
<1>1. Amounts => FilledIsExecuted
  BY DEF Amounts
<1> QED BY <1>1, AmountsHold, PTL

(* However many fills an order is executed in, the average folded over them  *)
(* is within one unit of its last digit for each of them, and the position's *)
(* buy average is rounded once (_apply_fill_to_order, _apply_buy_fill).      *)
THEOREM AveragesStayExact == Spec => []AveragesAreExact
<1>1. ASSUME IInv, Amounts PROVE AveragesAreExact
  <2>1. ASSUME NEW o \in Orders
        PROVE  LET fills == FillsOf(execution_events, o)
                   drift == orders[o].avg_executed_price * TotalQty(fills) - 10000 * Notional(fills)
                   allowed == Cardinality(fills) * TotalQty(fills)
               IN  2 * drift \in (0 - allowed)..allowed
    <3> DEFINE fills == FillsOf(execution_events, o)
               drift == Drift(orders[o], fills)
               allowed == Cardinality(fills) * TotalQty(fills)
    <3>1. IsFiniteSet(fills) /\ fills \subseteq Fills /\ orders[o] \in OrderRecords
      BY <1>1, FiniteLedgers, FillsArePart DEF IInv, Types
    <3>2. /\ Cardinality(fills) \in Nat /\ TotalQty(fills) \in Nat /\ Notional(fills) \in Nat
          /\ orders[o].avg_executed_price \in Nat
      BY <3>1, SumTypes DEF OrderRecords
    <3>3. allowed \in Nat /\ orders[o].avg_executed_price * TotalQty(fills) \in Nat
      BY <3>2, ProductType
    <3>4. 2 * drift <= allowed /\ 0 - allowed <= 2 * drift
      BY <1>1 DEF Amounts, OrdersCounted, Counted
    <3>5. drift = orders[o].avg_executed_price * TotalQty(fills) - 10000 * Notional(fills)
      BY DEF Drift
    <3> HIDE DEF fills, allowed, drift
    <3>6. 2 * drift \in (0 - allowed)..allowed
      BY <3>2, <3>3, <3>4, <3>5
    <3> QED BY <3>5, <3>6 DEF fills, allowed
  <2>2. LET bought == FillsOn(execution_events, "BUY")
        IN  bought # {} /\ position.sell_quantity = 0 =>
              position.avg_buy_price = Average(10000 * Notional(bought), TotalQty(bought))
    BY <1>1 DEF Amounts, PositionBooked, Booked
  <2> QED BY <2>1, <2>2 DEF AveragesAreExact
<1> QED BY <1>1, InvariantHolds, AmountsHold, PTL

=============================================================================
