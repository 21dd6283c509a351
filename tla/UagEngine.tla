------------------------------ MODULE UagEngine ------------------------------
(***************************************************************************)
(* The application service of src/uag/service.py around the strategy       *)
(* engine, on one trading day: the worker thread that polls quotes, feeds  *)
(* positions back, records snapshots and sends orders; the start, the      *)
(* shutdown, crashes at any point, and the resumption from the snapshot    *)
(* file.                                                                   *)
(*                                                                         *)
(* The file and the order ledger survive a crash, the broker is external,  *)
(* everything else is the memory of the process.                           *)
(***************************************************************************)
EXTENDS TseService

CONSTANTS QuotePrices,       \* symbol -> the prices its quotes may have
          BackfillPrices,    \* answers of fetch_reference_price_0830, or NoPrice
          Affordable,        \* whether the buy budget affords a share: its outcomes
          DryRuns,           \* the modes start_trading may be asked for
          MaxBatch,          \* bound: quotes answered in one cycle
          MaxRestarts        \* bound: crashes of the process

\* The clock has three values: before 08:30, before 09:03, and later.
OPENING == 1
ASSUME ClockAssumption == REFERENCE_CAPTURE_TIME = 2

ASSUME QuoteAssumption ==
  /\ QuotePrices \in [Symbols -> SUBSET Nat]
  /\ BackfillPrices \subseteq Nat
  /\ Affordable \subseteq BOOLEAN /\ DryRuns \subseteq BOOLEAN
  /\ MaxBatch \in Nat /\ MaxRestarts \in Nat

VARIABLES
  clock,
  up,              \* the process runs
  engine_state,    \* "IDLE" or "RUNNING"
  dry_run,
  snapshots,       \* symbol -> MonitoringSnapshot
  gateway,         \* the order gateway exists
  stop_event,
  worker,          \* where the worker thread is
  cycle_quotes,    \* the quotes of the cycle
  position,        \* how many quotes, then symbols, the cycle has gone through
  commands,        \* the commands of cycle.outputs still to be executed
  order,           \* the order in execution
  file,            \* the snapshot file
  ledger,          \* client order id -> status, the order events of PRP
  broker_calls,    \* history: the submissions the broker received
  restarts

cycleVars == <<worker, cycle_quotes, position, commands, order>>
engineVars == <<up, engine_state, dry_run, snapshots, gateway, stop_event>>
durableVars == <<file, ledger, broker_calls>>
vars == <<tseVars, clock, engineVars, cycleVars, durableVars, restarts>>

NoTime == 0
NoFile == [engine_state |-> "NONE"]
NoOrder == [status |-> "NONE"]

NewSnapshot == [price_at_0830 |-> NoPrice, current_price |-> NoPrice,
                previous_low_tracking_started |-> FALSE, previous_low_price |-> NoPrice,
                buy_time |-> NoTime, buy_price |-> NoPrice,
                previous_high_price |-> NoPrice, sell_time |-> NoTime]

NewSnapshots == [s \in Symbols |-> NewSnapshot]

-----------------------------------------------------------------------------
(* The snapshot file: written as a whole, after a merge that never empties a *)
(* field of the existing file.                                               *)

preserve_if_empty_fields ==
  {"price_at_0830", "previous_low_price", "buy_time", "buy_price", "sell_time"}

merge(old, new) ==
  LET buy_time_changed == new.buy_time # NoTime /\ new.buy_time # old.buy_time
      kept == preserve_if_empty_fields
                \cup (IF buy_time_changed THEN {} ELSE {"previous_high_price"})
      filled == [f \in DOMAIN new |-> IF f \in kept /\ new[f] = 0 THEN old[f] ELSE new[f]]
  IN  [filled EXCEPT !.previous_low_tracking_started = @ \/ old.previous_low_tracking_started]

\* A write that succeeds.  An OSError is logged and swallowed, and an order that was to
\* be recorded is then sent without a record: properties that relate the file to the
\* memory or to the broker hold for a file that can be written.
Persisted(state_of_engine, dry, snaps) ==
  [engine_state |-> state_of_engine, dry_run |-> dry,
   snapshots |-> IF file = NoFile THEN snaps
                 ELSE [s \in Symbols |-> merge(file.snapshots[s], snaps[s])]]

-----------------------------------------------------------------------------
(* Starting the loop: a new strategy engine, primed from the snapshots, with *)
(* reference prices the broker's chart may still supply.                     *)

Backfills == IF clock < OPENING THEN {[s \in Symbols |-> NoPrice]}
             ELSE [Symbols -> BackfillPrices]

\* Faulty variant: a known reference price always forgets the tracked low.
Primed_without_low(snap, backfill) ==
  [snap EXCEPT !.price_at_0830 = IF @ = NoPrice THEN backfill ELSE @,
               !.previous_low_price = NoPrice]

\* _initialize_reference_prices
Primed(snap, backfill) ==
  LET priced == [snap EXCEPT !.price_at_0830 = IF @ = NoPrice THEN backfill ELSE @]
  IN  IF priced.price_at_0830 # NoPrice /\ ~snap.previous_low_tracking_started
      THEN [priced EXCEPT !.previous_low_price = NoPrice]
      ELSE priced

resumes_candidate(snap) ==
  /\ snap.price_at_0830 # NoPrice
  /\ snap.buy_time = NoTime
  /\ snap.previous_low_tracking_started
  /\ snap.previous_low_price # NoPrice
  /\ should_enter_buy_candidate(calc_drop_rate(snap.price_at_0830, snap.previous_low_price))

\* Faulty variants: a purchase of an earlier process is forgotten, or is given the
\* wrong name.
InitialState_forgets_purchase(snap) ==
  IF resumes_candidate(snap) THEN "BUY_CANDIDATE"
  ELSE IF snap.price_at_0830 # NoPrice THEN "TRACKING" ELSE "WAIT_REFERENCE"

InitialState_misnamed(snap) ==
  IF snap.buy_time # NoTime THEN "BLOCKED" ELSE InitialState_forgets_purchase(snap)

InitialState(snap) ==
  CASE snap.buy_time # NoTime       -> "BUY_BLOCKED"
    [] resumes_candidate(snap)      -> "BUY_CANDIDATE"
    [] snap.buy_time = NoTime /\ ~resumes_candidate(snap)
         /\ snap.price_at_0830 # NoPrice -> "TRACKING"
    [] OTHER                        -> "WAIT_REFERENCE"

StartLoop(snaps, dry) ==
  \E backfill \in Backfills :
    LET primed == [s \in Symbols |-> Primed(snaps[s], backfill[s])]
    IN  /\ snapshots' = primed
        /\ trading_date' = 0
        /\ reference_price' = [s \in Symbols |-> primed[s].price_at_0830]
        /\ state' = [s \in Symbols |-> InitialState(primed[s])]
        /\ tracked_low' = [s \in Symbols |-> IF resumes_candidate(primed[s])
                                             THEN primed[s].previous_low_price
                                             ELSE NoPrice]
        /\ portfolio' = NewPortfolio
        /\ heap' = {}
        /\ buy_entry_blocked_by_degraded' = FALSE
        /\ command_sequence' = 0
        /\ output' = <<>>
        /\ engine_state' = "RUNNING"
        /\ dry_run' = dry
        /\ gateway' = TRUE
        /\ stop_event' = FALSE
        /\ worker' = "idle"
        /\ file' = Persisted("RUNNING", dry, primed)

start_trading ==
  /\ up
  /\ engine_state = "IDLE"
  /\ \E dry \in DryRuns : StartLoop(snapshots, dry)
  /\ UNCHANGED <<clock, up, cycle_quotes, position, commands, order,
                 ledger, broker_calls, restarts>>

\* The loop cannot be started: the engine is left idle, in the file as well.
ResumeFails ==
  /\ snapshots' = file.snapshots
  /\ dry_run' = file.dry_run
  /\ file' = Persisted("IDLE", file.dry_run, file.snapshots)
  /\ UNCHANGED <<tseVars, engine_state, gateway, stop_event, worker>>

\* A new process: restores the snapshots of the day and resumes a running engine.
Boot ==
  /\ up = FALSE
  /\ up' = TRUE
  /\ \/ file.engine_state = "RUNNING" /\ StartLoop(file.snapshots, file.dry_run)
     \/ file.engine_state = "RUNNING" /\ ResumeFails
     \/ /\ file.engine_state # "RUNNING"
        /\ snapshots' = IF file = NoFile THEN snapshots ELSE file.snapshots
        /\ dry_run' = IF file = NoFile THEN dry_run ELSE file.dry_run
        /\ UNCHANGED <<tseVars, engine_state, gateway, stop_event, worker, file>>
  /\ UNCHANGED <<clock, cycle_quotes, position, commands, order,
                 ledger, broker_calls, restarts>>

MemoryLost ==
  /\ FreshContext(0)
  /\ up = FALSE
  /\ engine_state = "IDLE" /\ dry_run = TRUE /\ snapshots = NewSnapshots
  /\ gateway = FALSE /\ stop_event = FALSE
  /\ worker = "none" /\ cycle_quotes = <<>> /\ position = 0 /\ commands = <<>>
  /\ order = NoOrder

Init ==
  /\ MemoryLost
  /\ clock = 0
  /\ file = NoFile
  /\ ledger = <<>> /\ broker_calls = <<>>
  /\ restarts = 0

-----------------------------------------------------------------------------
(* The worker thread: one cycle polls and evaluates quotes, reports the held *)
(* positions, records the snapshots and executes the commands.               *)

WorkerUnchanged == UNCHANGED <<clock, up, engine_state, dry_run, gateway, stop_event, restarts>>

Keeps_running == ~stop_event /\ engine_state = "RUNNING"

WorkerEnds ==
  /\ worker = "idle"
  /\ ~Keeps_running
  /\ worker' = "ended"
  /\ UNCHANGED <<tseVars, snapshots, cycle_quotes, position, commands, order, durableVars>>
  /\ WorkerUnchanged

\* run_cycle polls the symbols in watch order and gives the quotes to on_quote in
\* that order; a symbol whose poll fails is left out.  What a poll returns does not
\* depend on the quotes processed before, so poll and evaluation are one step.
polling == (worker = "idle" /\ Keeps_running) \/ worker = "polling"

PollSucceeds(s, price) ==
  LET q == [date |-> trading_date, at |-> clock, sym |-> s, price |-> price,
            seq |-> Len(cycle_quotes) + 1]
  IN  /\ on_quote(q)
      /\ cycle_quotes' = Append(cycle_quotes, q)
      /\ commands' = commands \o output'

PollSymbol ==
  /\ polling
  /\ LET s == WatchSymbols[position + 1]
     IN  \/ UNCHANGED <<tseVars, cycle_quotes, commands>>
         \/ /\ Len(cycle_quotes) < MaxBatch
            /\ \E price \in QuotePrices[s] : PollSucceeds(s, price)
  /\ IF position + 1 < Len(WatchSymbols)
     THEN worker' = "polling" /\ position' = position + 1
     ELSE worker' = "reporting" /\ position' = 0
  /\ UNCHANGED <<snapshots, order, durableVars>>
  /\ WorkerUnchanged

\* _append_position_update_outputs: every symbol bought and not yet sold, at its
\* quote of this cycle or at its last known price.
cycle_price(s) ==
  LET mine == {i \in DOMAIN cycle_quotes : cycle_quotes[i].sym = s}
  IN  IF mine = {} THEN snapshots[s].current_price
      ELSE cycle_quotes[CHOOSE i \in mine : \A j \in mine : j <= i].price

held(s) ==
  /\ snapshots[s].buy_time # NoTime
  /\ snapshots[s].sell_time = NoTime
  /\ snapshots[s].buy_price > 0
  /\ cycle_price(s) > 0

max_price(s) ==
  IF cycle_price(s) > snapshots[s].previous_high_price
  THEN cycle_price(s)
  ELSE snapshots[s].previous_high_price

PositionUpdate(s) ==
  [date |-> 0, at |-> clock, sym |-> s, state |-> "LONG_OPEN", price |-> cycle_price(s),
   rate |-> calc_profit_rate(snapshots[s].buy_price, cycle_price(s)),
   maxRate |-> calc_profit_rate(snapshots[s].buy_price, max_price(s))]

\* The strategy engine is gone when the gateway is.
unreported == IF gateway THEN {i \in DOMAIN WatchSymbols : i > position /\ held(WatchSymbols[i])}
              ELSE {}

ReportPosition ==
  /\ worker = "reporting"
  /\ \E i \in unreported :
       /\ \A j \in unreported : i <= j
       /\ on_position_update(PositionUpdate(WatchSymbols[i]))
       /\ position' = i
  /\ commands' = commands \o output'
  /\ UNCHANGED <<snapshots, worker, cycle_quotes, order, durableVars>>
  /\ WorkerUnchanged

\* _update_monitoring_snapshots, the part of one quote.
meets_previous_high_requirements(snap, q) ==
  /\ snap.buy_time # NoTime
  /\ snap.buy_price # NoPrice
  /\ q.at >= snap.buy_time
  /\ 100 * q.price >= 101 * snap.buy_price

AfterQuote(snap, q) ==
  LET ref == IF snap.price_at_0830 = NoPrice /\ q.at >= OPENING
             THEN q.price ELSE snap.price_at_0830
      starts == /\ snap.buy_time = NoTime
                /\ ~snap.previous_low_tracking_started
                /\ ref # NoPrice
                /\ should_enter_buy_candidate(calc_drop_rate(ref, q.price))
      lowers == /\ snap.buy_time = NoTime
                /\ snap.previous_low_tracking_started
                /\ snap.previous_low_price = NoPrice \/ q.price < snap.previous_low_price
  IN  [snap EXCEPT !.price_at_0830 = ref,
                   !.current_price = q.price,
                   !.previous_low_tracking_started = @ \/ starts,
                   !.previous_low_price = IF starts \/ lowers THEN q.price ELSE @,
                   !.previous_high_price =
                      IF meets_previous_high_requirements(snap, q) /\ q.price > @
                      THEN q.price ELSE @]

\* ... and of one command: recorded as bought or sold before it is executed.
AfterCommand(snap, cmd) ==
  IF cmd.side = "BUY"
  THEN [snap EXCEPT !.buy_time = cmd.at, !.buy_price = cmd.price,
                    !.previous_high_price = NoPrice]
  ELSE [snap EXCEPT !.sell_time = cmd.at]

Recorded(s) ==
  LET mine == {i \in DOMAIN cycle_quotes : cycle_quotes[i].sym = s}
      own == {i \in DOMAIN commands : commands[i].sym = s}
      quoted == IF mine # {} /\ cycle_price(s) > 0
                THEN AfterQuote(snapshots[s], cycle_quotes[CHOOSE i \in mine : TRUE])
                ELSE snapshots[s]
  IN  IF own = {} THEN quoted ELSE AfterCommand(quoted, commands[CHOOSE i \in own : TRUE])

\* Faulty variant: a new high is not worth a write either.
should_persist_but_highs(recorded) ==
  \E s \in Symbols :
    recorded[s] # [snapshots[s] EXCEPT !.current_price = recorded[s].current_price,
                                       !.previous_high_price = recorded[s].previous_high_price]

\* A new current price alone is not worth a write.
should_persist(recorded) ==
  \E s \in Symbols :
    recorded[s] # [snapshots[s] EXCEPT !.current_price = recorded[s].current_price]

RecordCycle ==
  LET recorded == [s \in Symbols |-> Recorded(s)]
  IN  /\ worker = "reporting"
      /\ unreported = {}
      /\ snapshots' = recorded
      /\ file' = IF should_persist(recorded)
                 THEN Persisted(engine_state, dry_run, recorded) ELSE file
      /\ worker' = IF commands = <<>> THEN "idle" ELSE "executing"
      /\ position' = 0
      /\ cycle_quotes' = <<>>
      /\ UNCHANGED <<tseVars, commands, order, ledger, broker_calls>>
      /\ WorkerUnchanged

-----------------------------------------------------------------------------
(* _execute_tse_command, one step for each write to the ledger and one for   *)
(* the call to the broker.                                                   *)

Executing == worker = "executing"

NextCommand == /\ commands' = Tail(commands)
               /\ worker' = IF Tail(commands) = <<>> THEN "idle" ELSE "executing"

ExecutionUnchanged ==
  /\ UNCHANGED <<tseVars, snapshots, cycle_quotes, position, file>>
  /\ WorkerUnchanged

client_order_id(cmd) == <<cmd.sym, cmd.side, cmd.id>>

\* _resolve_order_quantity: a sell is one share, a buy what the budget affords.
affordable(cmd) == IF cmd.side = "BUY" THEN Affordable ELSE {TRUE}

SkipCommand ==
  /\ Executing /\ order = NoOrder
  /\ dry_run \/ ~gateway \/ FALSE \in affordable(Head(commands))
  /\ NextCommand
  /\ UNCHANGED <<order, ledger, broker_calls>>
  /\ ExecutionUnchanged

RecordStatus(cmd, status) ==
  ledger' = [id \in DOMAIN ledger \cup {client_order_id(cmd)} |->
               IF id = client_order_id(cmd) THEN status ELSE ledger[id]]

create_order ==
  /\ Executing /\ order = NoOrder
  /\ ~dry_run /\ gateway
  /\ TRUE \in affordable(Head(commands))
  /\ order' = [status |-> "PENDING_SUBMIT"]
  /\ RecordStatus(Head(commands), "PENDING_SUBMIT")
  /\ UNCHANGED <<worker, commands, broker_calls>>
  /\ ExecutionUnchanged

\* Faulty variant: the ledger does not hear of the submission.
move_to_submitted_unrecorded ==
  /\ Executing /\ order.status = "PENDING_SUBMIT"
  /\ order' = [order EXCEPT !.status = "SUBMITTED"]
  /\ UNCHANGED <<worker, commands, broker_calls, ledger>>
  /\ ExecutionUnchanged

move_to_submitted ==
  /\ Executing /\ order.status = "PENDING_SUBMIT"
  /\ order' = [order EXCEPT !.status = "SUBMITTED"]
  /\ RecordStatus(Head(commands), "SUBMITTED")
  /\ UNCHANGED <<worker, commands, broker_calls>>
  /\ ExecutionUnchanged

\* External: the broker takes the order or not; its answer may be a rejection, an
\* error or a timeout, or lack the status the code looks for.  Without a gateway
\* the call itself fails.
submit_order ==
  /\ Executing /\ order.status = "SUBMITTED"
  /\ \E accepted, told \in BOOLEAN :
       /\ order' = [order EXCEPT !.status =
                       IF gateway /\ accepted /\ told THEN "ACCEPTED" ELSE "REJECTED"]
       /\ broker_calls' =
            IF ~gateway THEN broker_calls
            ELSE LET cmd == Head(commands)
                 IN  Append(broker_calls,
                       [id |-> client_order_id(cmd), sym |-> cmd.sym, side |-> cmd.side,
                        price |-> cmd.price, accepted |-> accepted, session |-> restarts])
  /\ UNCHANGED <<worker, commands, ledger>>
  /\ ExecutionUnchanged

settle_order ==
  /\ Executing /\ order.status \in {"ACCEPTED", "REJECTED"}
  /\ RecordStatus(Head(commands), order.status)
  /\ order' = NoOrder
  /\ NextCommand
  /\ UNCHANGED broker_calls
  /\ ExecutionUnchanged

\* A failing write to the ledger ends the worker thread, the engine stays RUNNING.
LedgerFails ==
  /\ Executing
  /\ order # NoOrder \/ (~dry_run /\ gateway /\ TRUE \in affordable(Head(commands)))
  /\ worker' = "ended"
  /\ commands' = <<>>
  /\ order' = NoOrder
  /\ UNCHANGED <<ledger, broker_calls>>
  /\ ExecutionUnchanged

-----------------------------------------------------------------------------
(* The other threads, the clock and the crashes.                             *)

\* shutdown sets the stop event and waits two seconds for the worker; when it
\* drops the gateway and the engine, the worker may still be in its cycle.  A
\* running engine stays RUNNING in the file.  The two ends of the wait are one
\* step: in between the worker only does what it did before, or less.
shutdown ==
  /\ up /\ ~stop_event
  /\ stop_event' = TRUE
  /\ gateway' = FALSE
  /\ file' = Persisted(engine_state, dry_run, snapshots)
  /\ UNCHANGED <<tseVars, clock, up, engine_state, dry_run, snapshots,
                 cycleVars, ledger, broker_calls, restarts>>

\* The process ends, at any point; its memory is that of a new process.
Crash ==
  /\ up
  /\ restarts < MaxRestarts
  /\ restarts' = restarts + 1
  /\ up' = FALSE
  /\ on_day_changed(0)
  /\ engine_state' = "IDLE" /\ dry_run' = TRUE
  /\ snapshots' = NewSnapshots
  /\ gateway' = FALSE /\ stop_event' = FALSE
  /\ worker' = "none" /\ cycle_quotes' = <<>> /\ position' = 0 /\ commands' = <<>>
  /\ order' = NoOrder
  /\ UNCHANGED <<clock, durableVars>>

Tick ==
  /\ clock < REFERENCE_CAPTURE_TIME
  /\ clock' = clock + 1
  /\ UNCHANGED <<tseVars, engineVars, cycleVars, durableVars, restarts>>

Cycle == PollSymbol \/ ReportPosition \/ RecordCycle \/ WorkerEnds

Execute == \/ SkipCommand \/ create_order \/ move_to_submitted \/ submit_order
           \/ settle_order \/ LedgerFails

Next == \/ start_trading \/ Boot \/ Cycle \/ Execute
        \/ shutdown \/ Crash \/ Tick

Spec == Init /\ [][Next]_vars

-----------------------------------------------------------------------------
(* Types.                                                                    *)

Snapshots == [price_at_0830 : Nat, current_price : Nat,
              previous_low_tracking_started : BOOLEAN, previous_low_price : Nat,
              buy_time : Nat, buy_price : Nat,
              previous_high_price : Nat, sell_time : Nat]

Statuses == {"PENDING_SUBMIT", "SUBMITTED", "ACCEPTED", "REJECTED"}

TypeOK ==
  /\ clock \in 0..REFERENCE_CAPTURE_TIME
  /\ up \in BOOLEAN /\ gateway \in BOOLEAN /\ stop_event \in BOOLEAN /\ dry_run \in BOOLEAN
  /\ engine_state \in {"IDLE", "RUNNING"}
  /\ state \in [Symbols -> SymbolStates]
  /\ snapshots \in [Symbols -> Snapshots]
  /\ worker \in {"none", "idle", "polling", "reporting", "executing", "ended"}
  /\ position \in 0..Len(WatchSymbols)
  /\ file = NoFile \/ (/\ file.engine_state \in {"IDLE", "RUNNING"}
                       /\ file.snapshots \in [Symbols -> Snapshots])
  /\ \A id \in DOMAIN ledger : ledger[id] \in Statuses
  /\ restarts \in 0..MaxRestarts

-----------------------------------------------------------------------------
(* Safety across crashes and restarts.                                       *)

Calls(side) == {i \in DOMAIN broker_calls : broker_calls[i].side = side}

(* The broker never receives two BUYs, or two SELLs, of one symbol in a day, *)
(* whatever crashes in between: the snapshot of a command reaches the file   *)
(* before the command reaches the broker.  Client order ids, numbered from 1 *)
(* again in every process, are therefore never used twice.  This rests on    *)
(* the write of the file (_persist_monitoring_state): it must not fail.      *)
OneOrderPerSymbolAndSide ==
  \A i, j \in DOMAIN broker_calls :
    /\ broker_calls[i].sym = broker_calls[j].sym
    /\ broker_calls[i].side = broker_calls[j].side
    => i = j

(* Within one run of the process at most one BUY is sent.                    *)
OneBuyPerSession ==
  \A i, j \in Calls("BUY") : broker_calls[i].session = broker_calls[j].session => i = j

(* What the broker received is in the file, and in the ledger as submitted,  *)
(* provided that the file can be written: the code swallows an OSError of    *)
(* the write and sends the order unrecorded (_persist_monitoring_state).     *)
RecordedBeforeSent ==
  \A i \in DOMAIN broker_calls :
    LET call == broker_calls[i]
    IN  /\ file # NoFile
        /\ file.snapshots[call.sym].buy_time # NoTime
        /\ call.side = "SELL" => file.snapshots[call.sym].sell_time # NoTime
        /\ call.id \in DOMAIN ledger
        /\ ledger[call.id] # "PENDING_SUBMIT"
        /\ ledger[call.id] = "ACCEPTED" => call.accepted

(* The memory of the day is the file's: but for the current price a crash    *)
(* loses nothing that a snapshot holds, and a merge never brings back what   *)
(* the memory has cleared.  Of a file that cannot be written nothing is said *)
(* (_persist_monitoring_state goes on without it).                           *)
FileIsCurrent ==
  worker # "none" =>
    \A s \in Symbols :
      [file.snapshots[s] EXCEPT !.current_price = NoPrice]
        = [snapshots[s] EXCEPT !.current_price = NoPrice]

(* The day's record only grows: a crash and a resumption never lose a        *)
(* reference price, a purchase or a sale that the file already held, and the *)
(* tracked low never rises.                                                  *)
DayIsNeverForgotten ==
  [][file # NoFile =>
       \A s \in Symbols :
         LET old == file.snapshots[s]
             new == file'.snapshots[s]
         IN  /\ old.price_at_0830 # NoPrice => new.price_at_0830 = old.price_at_0830
             /\ old.buy_time # NoTime =>
                  /\ new.buy_time = old.buy_time /\ new.buy_price = old.buy_price
                  /\ new.previous_high_price >= old.previous_high_price
             /\ old.sell_time # NoTime => new.sell_time = old.sell_time
             /\ old.previous_low_price # NoPrice =>
                  new.previous_low_price \in 1..old.previous_low_price]_vars

-----------------------------------------------------------------------------
(* What the documents say of the day and the code does not do.               *)

(* FR-007: after the first buy order of the day no other is sent.            *)
OneBuyPerDay == \A i, j \in Calls("BUY") : i = j

(* LLD-TSE 7: without a position no sell is issued.                          *)
SellOnlyWhatWasBought ==
  \A i \in Calls("SELL") :
    \E j \in Calls("BUY") : /\ j < i
                            /\ broker_calls[j].sym = broker_calls[i].sym
                            /\ broker_calls[j].accepted

(* FR-010: once a held position has reached the minimum profit, it is sold   *)
(* as soon as 80 percent or less of its best profit is left.                 *)
ProtectedProfitIsSold ==
  \A s \in Symbols :
    LET snap == snapshots[s]
        now == calc_profit_rate(snap.buy_price, snap.current_price)
        best == calc_profit_rate(snap.buy_price, snap.previous_high_price)
    IN  (/\ worker = "idle" /\ ~stop_event
         /\ snap.buy_time # NoTime /\ snap.previous_high_price # NoPrice
         /\ should_emit_sell_signal(should_lock_min_profit(best), now, best))
        => snap.sell_time # NoTime

(* LLD-OPM: an order whose submission timed out is reconciled, so an order   *)
(* recorded as rejected is not at the broker.                                *)
RejectedIsNotAtBroker ==
  \A i \in DOMAIN broker_calls :
    ledger[broker_calls[i].id] = "REJECTED" => ~broker_calls[i].accepted

=============================================================================
