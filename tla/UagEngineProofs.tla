--------------------------- MODULE UagEngineProofs ---------------------------
(***************************************************************************)
(* What holds of the application service for every watch list, all prices, *)
(* any number of quotes in a cycle and any number of crashes.              *)
(***************************************************************************)
EXTENDS UagEngine, TseServiceProofs, SequenceTheorems

-----------------------------------------------------------------------------
(* The operators on snapshots.                                               *)

(* The merge of a file that is written, field by field.                      *)
LEMMA MergeFields ==
  ASSUME NEW old \in Snapshots, NEW new \in Snapshots
  PROVE  /\ merge(old, new) \in Snapshots
         /\ merge(old, new).price_at_0830 =
              IF new.price_at_0830 = 0 THEN old.price_at_0830 ELSE new.price_at_0830
         /\ merge(old, new).current_price = new.current_price
         /\ merge(old, new).previous_low_tracking_started =
              (new.previous_low_tracking_started \/ old.previous_low_tracking_started)
         /\ merge(old, new).previous_low_price =
              IF new.previous_low_price = 0
              THEN old.previous_low_price ELSE new.previous_low_price
         /\ merge(old, new).buy_time = IF new.buy_time = 0 THEN old.buy_time ELSE new.buy_time
         /\ merge(old, new).buy_price = IF new.buy_price = 0 THEN old.buy_price ELSE new.buy_price
         /\ merge(old, new).previous_high_price =
              IF /\ new.buy_time = 0 \/ new.buy_time = old.buy_time
                 /\ new.previous_high_price = 0
              THEN old.previous_high_price ELSE new.previous_high_price
         /\ merge(old, new).sell_time = IF new.sell_time = 0 THEN old.sell_time ELSE new.sell_time
<1> DEFINE changed == new.buy_time # NoTime /\ new.buy_time # old.buy_time
           kept == preserve_if_empty_fields
                     \cup (IF changed THEN {} ELSE {"previous_high_price"})
           filled == [f \in DOMAIN new |-> IF f \in kept /\ new[f] = 0 THEN old[f] ELSE new[f]]
<1>1. merge(old, new) =
        [filled EXCEPT !.previous_low_tracking_started = @ \/ old.previous_low_tracking_started]
  BY DEF merge
<1>2. DOMAIN new = {"price_at_0830", "current_price", "previous_low_tracking_started",
                    "previous_low_price", "buy_time", "buy_price", "previous_high_price",
                    "sell_time"}
  BY DEF Snapshots
<1>3. filled =
        [price_at_0830 |->
           IF new.price_at_0830 = 0 THEN old.price_at_0830 ELSE new.price_at_0830,
         current_price |-> new.current_price,
         previous_low_tracking_started |-> new.previous_low_tracking_started,
         previous_low_price |->
           IF new.previous_low_price = 0 THEN old.previous_low_price ELSE new.previous_low_price,
         buy_time |-> IF new.buy_time = 0 THEN old.buy_time ELSE new.buy_time,
         buy_price |-> IF new.buy_price = 0 THEN old.buy_price ELSE new.buy_price,
         previous_high_price |->
           IF ~changed /\ new.previous_high_price = 0
           THEN old.previous_high_price ELSE new.previous_high_price,
         sell_time |-> IF new.sell_time = 0 THEN old.sell_time ELSE new.sell_time]
  BY <1>2 DEF preserve_if_empty_fields
<1> HIDE DEF filled
<1> QED BY <1>1, <1>3 DEF Snapshots, NoTime

(* The two records of a symbol agree but for the current price.              *)
SameRecord(old, new) ==
  [old EXCEPT !.current_price = NoPrice] = [new EXCEPT !.current_price = NoPrice]

LEMMA SameFields ==
  ASSUME NEW old \in Snapshots, NEW new \in Snapshots
  PROVE  SameRecord(old, new) <=>
           /\ old.price_at_0830 = new.price_at_0830
           /\ old.previous_low_tracking_started = new.previous_low_tracking_started
           /\ old.previous_low_price = new.previous_low_price
           /\ old.buy_time = new.buy_time
           /\ old.buy_price = new.buy_price
           /\ old.previous_high_price = new.previous_high_price
           /\ old.sell_time = new.sell_time
  BY DEF SameRecord, Snapshots, NoPrice

(* How a record may change in a day: nothing known is lost, and a purchase   *)
(* starts a new high.                                                        *)
Grows(old, new) ==
  /\ old.price_at_0830 # 0 => new.price_at_0830 = old.price_at_0830
  /\ old.previous_low_tracking_started => new.previous_low_tracking_started
  /\ old.previous_low_price # 0 => new.previous_low_price \in 1..old.previous_low_price
  /\ old.buy_time # 0 => new.buy_time = old.buy_time
  /\ IF old.buy_time = 0 /\ new.buy_time # 0
     THEN new.buy_price # 0
     ELSE /\ new.buy_price = old.buy_price
          /\ new.previous_high_price >= old.previous_high_price
  /\ old.sell_time # 0 => new.sell_time = old.sell_time

LowIsTracked(snap) == snap.previous_low_price # 0 => snap.previous_low_tracking_started

LEMMA GrowsReflexive == ASSUME NEW snap \in Snapshots PROVE Grows(snap, snap)
  BY DEF Grows, Snapshots

(* Writing a record that grew from the file's one writes the record itself:  *)
(* the merge never brings back what was cleared.                             *)
LEMMA MergeIsNew ==
  ASSUME NEW old \in Snapshots, NEW base \in Snapshots, NEW new \in Snapshots,
         SameRecord(old, base), Grows(base, new)
  PROVE  SameRecord(merge(old, new), new)
<1>1. merge(old, new) \in Snapshots
  BY MergeFields
<1>2. /\ old.price_at_0830 = base.price_at_0830
      /\ old.previous_low_tracking_started = base.previous_low_tracking_started
      /\ old.previous_low_price = base.previous_low_price
      /\ old.buy_time = base.buy_time
      /\ old.buy_price = base.buy_price
      /\ old.previous_high_price = base.previous_high_price
      /\ old.sell_time = base.sell_time
  BY SameFields
<1>3. /\ old.previous_low_tracking_started \in BOOLEAN
      /\ new.previous_low_tracking_started \in BOOLEAN
      /\ base.previous_high_price \in Nat /\ new.previous_high_price \in Nat
      /\ new.previous_low_price \in Nat /\ base.previous_low_price \in Nat
  BY DEF Snapshots
<1>4. merge(old, new).price_at_0830 = new.price_at_0830
  BY <1>2, MergeFields DEF Grows
<1>5. merge(old, new).previous_low_tracking_started = new.previous_low_tracking_started
  BY <1>2, <1>3, MergeFields DEF Grows
<1>6. merge(old, new).previous_low_price = new.previous_low_price
  BY <1>2, <1>3, MergeFields DEF Grows
<1>7. merge(old, new).buy_time = new.buy_time
  BY <1>2, MergeFields DEF Grows
<1>8. merge(old, new).buy_price = new.buy_price
  BY <1>2, MergeFields DEF Grows
<1>9. merge(old, new).previous_high_price = new.previous_high_price
  <2>1. merge(old, new).previous_high_price =
          IF (new.buy_time = 0 \/ new.buy_time = old.buy_time) /\ new.previous_high_price = 0
          THEN old.previous_high_price ELSE new.previous_high_price
    BY MergeFields
  <2>2. new.buy_time = 0 \/ new.buy_time = base.buy_time =>
          new.previous_high_price >= base.previous_high_price
    BY DEF Grows
  <2> QED BY <1>2, <1>3, <2>1, <2>2
<1>10. merge(old, new).sell_time = new.sell_time
  <2>1. merge(old, new).sell_time = IF new.sell_time = 0 THEN old.sell_time ELSE new.sell_time
    BY MergeFields
  <2>2. base.sell_time # 0 => new.sell_time = base.sell_time
    BY DEF Grows
  <2> QED BY <1>2, <2>1, <2>2
<1> QED BY <1>1, <1>4, <1>5, <1>6, <1>7, <1>8, <1>9, <1>10, SameFields

(* Starting the engine, a quote and a command let a record grow.             *)
LEMMA PrimedGrows ==
  ASSUME NEW snap \in Snapshots, LowIsTracked(snap), NEW backfill \in Nat
  PROVE  /\ Primed(snap, backfill) \in Snapshots
         /\ Grows(snap, Primed(snap, backfill))
         /\ LowIsTracked(Primed(snap, backfill))
         /\ Primed(snap, backfill).buy_time = snap.buy_time
         /\ Primed(snap, backfill).sell_time = snap.sell_time
<1> DEFINE priced == [snap EXCEPT !.price_at_0830 =
                        IF snap.price_at_0830 = NoPrice THEN backfill ELSE snap.price_at_0830]
<1>1. Primed(snap, backfill) =
        IF priced.price_at_0830 # NoPrice /\ ~snap.previous_low_tracking_started
        THEN [priced EXCEPT !.previous_low_price = NoPrice] ELSE priced
  BY DEF Primed, Snapshots
<1>2. /\ priced \in Snapshots
      /\ snap.price_at_0830 # 0 => priced.price_at_0830 = snap.price_at_0830
      /\ priced.previous_low_tracking_started = snap.previous_low_tracking_started
      /\ priced.previous_low_price = snap.previous_low_price
      /\ priced.buy_time = snap.buy_time /\ priced.sell_time = snap.sell_time
      /\ priced.buy_price = snap.buy_price
      /\ priced.previous_high_price = snap.previous_high_price
  BY DEF Snapshots, NoPrice
<1> HIDE DEF priced
<1>3. Primed(snap, backfill) \in Snapshots
  BY <1>1, <1>2 DEF Snapshots, NoPrice
<1>4. /\ Primed(snap, backfill).price_at_0830 = priced.price_at_0830
      /\ Primed(snap, backfill).previous_low_tracking_started =
           priced.previous_low_tracking_started
      /\ Primed(snap, backfill).previous_low_price = priced.previous_low_price
      /\ Primed(snap, backfill).buy_time = priced.buy_time
      /\ Primed(snap, backfill).sell_time = priced.sell_time
      /\ Primed(snap, backfill).buy_price = priced.buy_price
      /\ Primed(snap, backfill).previous_high_price = priced.previous_high_price
  BY <1>1, <1>2 DEF LowIsTracked, Snapshots, NoPrice
<1> QED BY <1>2, <1>3, <1>4 DEF Grows, LowIsTracked, Snapshots

LEMMA QuoteGrows ==
  ASSUME NEW snap \in Snapshots, LowIsTracked(snap), NEW q, q.price \in Nat \ {0}, q.at \in Nat
  PROVE  /\ AfterQuote(snap, q) \in Snapshots
         /\ Grows(snap, AfterQuote(snap, q))
         /\ LowIsTracked(AfterQuote(snap, q))
         /\ AfterQuote(snap, q).buy_time = snap.buy_time
         /\ AfterQuote(snap, q).sell_time = snap.sell_time
<1> DEFINE ref == IF snap.price_at_0830 = NoPrice /\ q.at >= OPENING
                  THEN q.price ELSE snap.price_at_0830
           starts == /\ snap.buy_time = NoTime
                     /\ ~snap.previous_low_tracking_started
                     /\ ref # NoPrice
                     /\ should_enter_buy_candidate(calc_drop_rate(ref, q.price))
           lowers == /\ snap.buy_time = NoTime
                     /\ snap.previous_low_tracking_started
                     /\ snap.previous_low_price = NoPrice \/ q.price < snap.previous_low_price
           raises == meets_previous_high_requirements(snap, q) /\ q.price > snap.previous_high_price
           new == AfterQuote(snap, q)
<1>1. new = [snap EXCEPT
               !.price_at_0830 = ref,
               !.current_price = q.price,
               !.previous_low_tracking_started = snap.previous_low_tracking_started \/ starts,
               !.previous_low_price = IF starts \/ lowers THEN q.price ELSE snap.previous_low_price,
               !.previous_high_price = IF raises THEN q.price ELSE snap.previous_high_price]
  BY DEF AfterQuote, Snapshots
<1>2. ref \in Nat /\ (snap.price_at_0830 # 0 => ref = snap.price_at_0830)
  BY DEF Snapshots, NoPrice
<1>3. starts => ~snap.previous_low_tracking_started
  OBVIOUS
<1>4. lowers => /\ snap.previous_low_tracking_started
                /\ snap.previous_low_price # 0 => q.price < snap.previous_low_price
  BY DEF NoPrice
<1>5. raises => q.price > snap.previous_high_price
  OBVIOUS
<1>6. starts \in BOOLEAN /\ lowers \in BOOLEAN /\ raises \in BOOLEAN
  OBVIOUS
<1> HIDE DEF ref, starts, lowers, raises, new
<1>7. new \in Snapshots
  BY <1>1, <1>2, <1>6 DEF Snapshots
<1>8. /\ new.price_at_0830 = ref
      /\ new.previous_low_tracking_started = (snap.previous_low_tracking_started \/ starts)
      /\ new.previous_low_price = IF starts \/ lowers THEN q.price ELSE snap.previous_low_price
      /\ new.buy_time = snap.buy_time /\ new.sell_time = snap.sell_time
      /\ new.buy_price = snap.buy_price
      /\ new.previous_high_price = IF raises THEN q.price ELSE snap.previous_high_price
  BY <1>1 DEF Snapshots
<1>9. LowIsTracked(new)
  BY <1>3, <1>4, <1>8 DEF LowIsTracked
<1>10. snap.previous_low_price # 0 => new.previous_low_price \in 1..snap.previous_low_price
  BY <1>3, <1>4, <1>8 DEF LowIsTracked, Snapshots
<1>11. new.previous_high_price >= snap.previous_high_price
  BY <1>5, <1>8 DEF Snapshots
<1> QED BY <1>2, <1>7, <1>8, <1>9, <1>10, <1>11 DEF Grows, new

Commands == [side : {"BUY", "SELL"}, sym : Symbols, at : {REFERENCE_CAPTURE_TIME},
             price : Nat \ {0}, id : Nat]

(* A command is recorded of a symbol that can be bought or sold.             *)
Fits(cmd, snap) ==
  IF cmd.side = "BUY" THEN snap.buy_time = 0 ELSE snap.buy_time # 0 /\ snap.sell_time = 0

LEMMA CommandGrows ==
  ASSUME NEW snap \in Snapshots, NEW quoted \in Snapshots, NEW cmd \in Commands,
         Grows(snap, quoted), LowIsTracked(quoted), Fits(cmd, snap),
         quoted.buy_time = snap.buy_time, quoted.sell_time = snap.sell_time
  PROVE  /\ AfterCommand(quoted, cmd) \in Snapshots
         /\ Grows(snap, AfterCommand(quoted, cmd))
         /\ LowIsTracked(AfterCommand(quoted, cmd))
         /\ AfterCommand(quoted, cmd).buy_time # 0
         /\ cmd.side = "SELL" => /\ AfterCommand(quoted, cmd).buy_time = snap.buy_time
                                 /\ AfterCommand(quoted, cmd).sell_time # 0
<1>1. cmd.at \in Nat \ {0} /\ cmd.price \in Nat \ {0} /\ cmd.side \in {"BUY", "SELL"}
  BY ClockAssumption DEF Commands
<1>2. CASE cmd.side = "BUY"
  BY <1>1, <1>2 DEF AfterCommand, Snapshots, Grows, LowIsTracked, Fits, NoPrice
<1>3. CASE cmd.side = "SELL"
  BY <1>1, <1>3 DEF AfterCommand, Snapshots, Grows, LowIsTracked, Fits, NoPrice
<1> QED BY <1>1, <1>2, <1>3

-----------------------------------------------------------------------------
(* The inductive invariant, part by part.                                    *)

Files == [engine_state : {"IDLE", "RUNNING"}, dry_run : BOOLEAN,
          snapshots : [Symbols -> Snapshots]]

CycleQuotes == [date : {0}, at : 0..REFERENCE_CAPTURE_TIME, sym : Symbols, price : Nat,
                seq : Nat]

Sides == {"BUY", "SELL"}

BrokerCalls == [id : Symbols \X Sides \X Nat, sym : Symbols, side : Sides,
                price : Nat \ {0}, accepted : BOOLEAN, session : Nat]

Types ==
  /\ EngineInv
  /\ trading_date = 0
  /\ clock \in 0..REFERENCE_CAPTURE_TIME
  /\ up \in BOOLEAN /\ gateway \in BOOLEAN /\ stop_event \in BOOLEAN /\ dry_run \in BOOLEAN
  /\ engine_state \in {"IDLE", "RUNNING"}
  /\ snapshots \in [Symbols -> Snapshots]
  /\ file = NoFile \/ file \in Files
  /\ worker \in {"none", "idle", "polling", "reporting", "executing", "ended"}
  /\ position \in 0..Len(WatchSymbols)
  /\ cycle_quotes \in Seq(CycleQuotes)
  /\ commands \in Seq(Commands)
  /\ order \in [status : {"NONE"} \cup Statuses]
  /\ \A id \in DOMAIN ledger : ledger[id] \in Statuses
  /\ broker_calls \in Seq(BrokerCalls)
  /\ restarts \in 0..MaxRestarts

(* Where the worker is, and what it holds there: quotes are of different     *)
(* symbols, and only an executing worker has an order.                       *)
Phases ==
  /\ engine_state = "IDLE" <=> worker = "none"
  /\ up = FALSE => worker = "none"
  /\ worker = "none" => portfolio = NewPortfolio
  /\ worker \in {"none", "idle", "ended", "executing"} => cycle_quotes = <<>> /\ position = 0
  /\ worker \in {"none", "idle", "ended"} => commands = <<>>
  /\ worker = "executing" => commands # <<>>
  /\ worker # "executing" => order = NoOrder
  /\ worker = "polling" => position \in 1..(Len(WatchSymbols) - 1)
  /\ worker \in {"idle", "polling"} =>
       \A i \in DOMAIN cycle_quotes :
         \E k \in 1..position : cycle_quotes[i].sym = WatchSymbols[k]
  /\ \A i, j \in DOMAIN cycle_quotes : cycle_quotes[i].sym = cycle_quotes[j].sym => i = j

(* Nothing is bought, nor ordered, before the capture of references.         *)
Hours ==
  /\ commands # <<>> => clock = REFERENCE_CAPTURE_TIME
  /\ \A s \in Symbols :
       snapshots[s].buy_time # 0 \/ (file # NoFile /\ file.snapshots[s].buy_time # 0) =>
         clock = REFERENCE_CAPTURE_TIME

(* The file holds what the memory of the running process holds.              *)
FileAgrees ==
  /\ \A s \in Symbols :
       /\ LowIsTracked(snapshots[s])
       /\ file # NoFile => LowIsTracked(file.snapshots[s])
       /\ up /\ file # NoFile => SameRecord(file.snapshots[s], snapshots[s])
  /\ worker # "none" => file # NoFile

(* The gate closes with the first BUY of a process and never opens again; a  *)
(* symbol bought by an earlier process is barred while it is open.  A        *)
(* command is recorded between its issue and its execution.                  *)
Gate ==
  /\ \A i \in DOMAIN commands :
       IF commands[i].side = "BUY" THEN ~portfolio.gate_open ELSE portfolio.sell_signaled
  /\ \A i, j \in DOMAIN commands : commands[i].side = commands[j].side => i = j
  /\ worker # "none" /\ portfolio.gate_open =>
       \A s \in Symbols : snapshots[s].buy_time # 0 => state[s] = "BUY_BLOCKED"
  /\ worker \in {"idle", "polling", "reporting"} =>
       \A i \in DOMAIN commands : Fits(commands[i], snapshots[commands[i].sym])
  /\ worker = "executing" =>
       \A i \in DOMAIN commands :
         /\ snapshots[commands[i].sym].buy_time # 0
         /\ commands[i].side = "SELL" => snapshots[commands[i].sym].sell_time # 0

(* The commands that have not reached the broker yet, and those that have.   *)
Unsent == {k \in DOMAIN commands : k = 1 => order.status \notin {"ACCEPTED", "REJECTED"}}

Sent ==
  /\ \A i \in DOMAIN broker_calls :
       LET made == broker_calls[i]
       IN  /\ file # NoFile
           /\ file.snapshots[made.sym].buy_time # 0
           /\ made.side = "SELL" => file.snapshots[made.sym].sell_time # 0
           /\ made.id[1] = made.sym /\ made.id[2] = made.side
           /\ made.session <= restarts
           /\ made.session = restarts =>
                IF made.side = "BUY" THEN ~portfolio.gate_open ELSE portfolio.sell_signaled
           /\ \A k \in Unsent :
                commands[k].side = made.side =>
                  /\ commands[k].sym # made.sym
                  /\ made.side = "BUY" => made.session # restarts
  /\ OneOrderPerSymbolAndSide
  /\ OneBuyPerSession

(* The ledger knows of a submission before the broker, and believes its      *)
(* answer only.                                                              *)
Ledger ==
  /\ \A i \in DOMAIN broker_calls :
       /\ broker_calls[i].id \in DOMAIN ledger
       /\ ledger[broker_calls[i].id] # "PENDING_SUBMIT"
       /\ ledger[broker_calls[i].id] = "ACCEPTED" => broker_calls[i].accepted
  /\ order.status \in {"SUBMITTED", "ACCEPTED", "REJECTED"} =>
       /\ client_order_id(Head(commands)) \in DOMAIN ledger
       /\ ledger[client_order_id(Head(commands))] = "SUBMITTED"
  /\ order.status = "ACCEPTED" =>
       \A i \in DOMAIN broker_calls :
         broker_calls[i].id = client_order_id(Head(commands)) => broker_calls[i].accepted

IInv == Types /\ Phases /\ Hours /\ FileAgrees /\ Gate /\ Sent /\ Ledger

-----------------------------------------------------------------------------
(* The file, the start of the loop and the record of a cycle.                *)

LEMMA NewSnapshotType ==
  NewSnapshots \in [Symbols -> Snapshots] /\ \A s \in Symbols : NewSnapshots[s].buy_time = 0
  BY DEF NewSnapshots, NewSnapshot, Snapshots, NoPrice, NoTime

LEMMA NoFileIsNone == NoFile \notin Files
  BY DEF NoFile, Files

(* What a write leaves in the file.                                          *)
LEMMA PersistedType ==
  ASSUME file = NoFile \/ file \in Files, NEW es \in {"IDLE", "RUNNING"}, NEW dry \in BOOLEAN,
         NEW snaps \in [Symbols -> Snapshots]
  PROVE  /\ Persisted(es, dry, snaps) \in Files
         /\ Persisted(es, dry, snaps) # NoFile
         /\ \A s \in Symbols :
              Persisted(es, dry, snaps).snapshots[s] =
                IF file = NoFile THEN snaps[s] ELSE merge(file.snapshots[s], snaps[s])
<1> DEFINE p == IF file = NoFile THEN snaps
                ELSE [s \in Symbols |-> merge(file.snapshots[s], snaps[s])]
<1>1. p \in [Symbols -> Snapshots]
  <2>1. CASE file = NoFile
    BY <2>1
  <2>2. CASE file # NoFile
    <3>1. file.snapshots \in [Symbols -> Snapshots]
      BY <2>2 DEF Files
    <3>2. \A s \in Symbols : merge(file.snapshots[s], snaps[s]) \in Snapshots
      BY <3>1, MergeFields
    <3> QED BY <2>2, <3>2
  <2> QED BY <2>1, <2>2
<1>2. Persisted(es, dry, snaps) = [engine_state |-> es, dry_run |-> dry, snapshots |-> p]
  BY DEF Persisted
<1>3. Persisted(es, dry, snaps) \in Files
  BY <1>1, <1>2 DEF Files
<1> QED BY <1>2, <1>3, NoFileIsNone

(* The memory of a process is written as it is, and the file only grows.     *)
LEMMA PersistedAgrees ==
  ASSUME Types, FileAgrees, NEW es \in {"IDLE", "RUNNING"}, NEW dry \in BOOLEAN,
         NEW base \in [Symbols -> Snapshots], NEW snaps \in [Symbols -> Snapshots],
         file # NoFile => \A s \in Symbols : SameRecord(file.snapshots[s], base[s]),
         \A s \in Symbols : Grows(base[s], snaps[s]) /\ LowIsTracked(snaps[s])
  PROVE  /\ Persisted(es, dry, snaps) \in Files
         /\ Persisted(es, dry, snaps) # NoFile
         /\ \A s \in Symbols :
              LET written == Persisted(es, dry, snaps).snapshots[s]
              IN  /\ SameRecord(written, snaps[s])
                  /\ LowIsTracked(written)
                  /\ file # NoFile => Grows(file.snapshots[s], written)
<1> DEFINE written(s) == Persisted(es, dry, snaps).snapshots[s]
<1>1. /\ Persisted(es, dry, snaps) \in Files
      /\ Persisted(es, dry, snaps) # NoFile
      /\ \A s \in Symbols :
           written(s) = IF file = NoFile THEN snaps[s] ELSE merge(file.snapshots[s], snaps[s])
  BY PersistedType DEF Types
<1>2. ASSUME NEW s \in Symbols
      PROVE  /\ SameRecord(written(s), snaps[s])
             /\ LowIsTracked(written(s))
             /\ file # NoFile => Grows(file.snapshots[s], written(s))
  <2>1. snaps[s] \in Snapshots /\ base[s] \in Snapshots /\ written(s) \in Snapshots
    BY <1>1 DEF Files
  <2>2. CASE file = NoFile
    BY <2>1, <2>2, <1>1 DEF SameRecord
  <2>3. CASE file # NoFile
    <3>1. file.snapshots[s] \in Snapshots
      BY <2>3 DEF Types, Files
    <3>2. SameRecord(written(s), snaps[s])
      BY <2>1, <2>3, <3>1, <1>1, MergeIsNew
    <3>3. SameRecord(file.snapshots[s], base[s])
      BY <2>3
    <3> DEFINE w == written(s)
    <3> HIDE DEF w
    <3>4. SameRecord(w, snaps[s]) /\ w \in Snapshots
      BY <3>2, <2>1 DEF w
    <3>5. Grows(base[s], snaps[s]) /\ LowIsTracked(snaps[s])
      OBVIOUS
    <3>6. LowIsTracked(w)
      BY <2>1, <3>4, <3>5, SameFields DEF LowIsTracked
    <3>7. Grows(file.snapshots[s], w)
      BY <2>1, <3>1, <3>3, <3>4, <3>5, SameFields DEF Grows
    <3> QED BY <3>4, <3>6, <3>7 DEF w
  <2> QED BY <2>2, <2>3
<1> QED BY <1>1, <1>2

(* A started loop has a new engine whose gate is open and where every symbol *)
(* bought before is barred.                                                  *)
LEMMA InitialStates ==
  ASSUME NEW snap
  PROVE  /\ InitialState(snap) \in SymbolStates
         /\ snap.buy_time # 0 => InitialState(snap) = "BUY_BLOCKED"
<1>1. CASE snap.buy_time # NoTime
  <2>1. InitialState(snap) = "BUY_BLOCKED"
    BY <1>1 DEF InitialState, resumes_candidate
  <2> QED BY <2>1 DEF SymbolStates
<1>2. CASE snap.buy_time = NoTime
  <2>1. InitialState(snap) \in {"BUY_CANDIDATE", "TRACKING", "WAIT_REFERENCE"}
    BY <1>2 DEF InitialState
  <2> QED BY <1>2, <2>1 DEF SymbolStates, NoTime
<1> QED BY <1>1, <1>2

LEMMA StartEffect ==
  ASSUME Types, FileAgrees, NEW snaps \in [Symbols -> Snapshots], NEW dry \in BOOLEAN,
         \A s \in Symbols : LowIsTracked(snaps[s]), StartLoop(snaps, dry)
  PROVE  /\ EngineInv'
         /\ trading_date' = 0
         /\ portfolio' = NewPortfolio
         /\ snapshots' \in [Symbols -> Snapshots]
         /\ \A s \in Symbols : /\ Grows(snaps[s], snapshots'[s])
                               /\ LowIsTracked(snapshots'[s])
                               /\ snapshots'[s].buy_time = snaps[s].buy_time
                               /\ snapshots'[s].sell_time = snaps[s].sell_time
                               /\ snapshots'[s].buy_time # 0 => state'[s] = "BUY_BLOCKED"
         /\ engine_state' = "RUNNING" /\ dry_run' = dry /\ gateway' = TRUE
         /\ stop_event' = FALSE /\ worker' = "idle"
         /\ file' = Persisted("RUNNING", dry, snapshots')
<1> DEFINE primed(backfill) == [s \in Symbols |-> Primed(snaps[s], backfill[s])]
<1>1. PICK backfill \in Backfills :
        /\ snapshots' = primed(backfill)
        /\ trading_date' = 0
        /\ reference_price' = [s \in Symbols |-> primed(backfill)[s].price_at_0830]
        /\ state' = [s \in Symbols |-> InitialState(primed(backfill)[s])]
        /\ tracked_low' = [s \in Symbols |-> IF resumes_candidate(primed(backfill)[s])
                                             THEN primed(backfill)[s].previous_low_price
                                             ELSE NoPrice]
        /\ portfolio' = NewPortfolio /\ heap' = {}
        /\ buy_entry_blocked_by_degraded' = FALSE
        /\ command_sequence' = 0
        /\ engine_state' = "RUNNING" /\ dry_run' = dry /\ gateway' = TRUE
        /\ stop_event' = FALSE /\ worker' = "idle"
        /\ file' = Persisted("RUNNING", dry, primed(backfill))
  BY DEF StartLoop
<1>2. backfill \in [Symbols -> Nat]
  <2>1. backfill \in {[s \in Symbols |-> NoPrice]} \/ backfill \in [Symbols -> BackfillPrices]
    BY DEF Backfills
  <2>2. BackfillPrices \subseteq Nat
    BY QuoteAssumption
  <2>3. CASE backfill = [s \in Symbols |-> NoPrice]
    BY <2>3 DEF NoPrice
  <2>4. CASE backfill \in [Symbols -> BackfillPrices]
    BY <2>2, <2>4
  <2> QED BY <2>1, <2>3, <2>4
<1>3. ASSUME NEW s \in Symbols
      PROVE  /\ primed(backfill)[s] = Primed(snaps[s], backfill[s])
             /\ primed(backfill)[s] \in Snapshots
             /\ Grows(snaps[s], primed(backfill)[s])
             /\ LowIsTracked(primed(backfill)[s])
             /\ primed(backfill)[s].buy_time = snaps[s].buy_time
             /\ primed(backfill)[s].sell_time = snaps[s].sell_time
  <2>1. snaps[s] \in Snapshots /\ backfill[s] \in Nat /\ LowIsTracked(snaps[s])
    BY <1>2
  <2>2. primed(backfill)[s] = Primed(snaps[s], backfill[s])
    OBVIOUS
  <2> HIDE DEF primed
  <2> QED BY <2>1, <2>2, PrimedGrows
<1>4. snapshots' \in [Symbols -> Snapshots]
  BY <1>1, <1>3
<1> DEFINE p == primed(backfill)
<1>5. p \in [Symbols -> Snapshots] /\ snapshots' = p
  BY <1>1, <1>4
<1> HIDE DEF primed, p
<1>6. EngineInv'
  <2>1. reference_price' \in [Symbols -> Nat] /\ tracked_low' \in [Symbols -> Nat]
    BY <1>1, <1>5 DEF Snapshots, NoPrice, p
  <2>2. state' \in [Symbols -> SymbolStates]
    BY <1>1, InitialStates
  <2>3. portfolio' \in Portfolios
    BY <1>1 DEF NewPortfolio, Portfolios, PortfolioStates
  <2> QED BY <1>1, <2>1, <2>2, <2>3 DEF EngineInv
<1>7. \A s \in Symbols : snapshots'[s].buy_time # 0 => state'[s] = "BUY_BLOCKED"
  BY <1>1, <1>5, InitialStates DEF p
<1> QED BY <1>1, <1>3, <1>4, <1>5, <1>6, <1>7 DEF p

(* The record of a cycle: a command is recorded with its symbol, nothing     *)
(* else is bought or sold.                                                   *)
LEMMA RecordedEffect ==
  ASSUME Types, Phases, Gate, FileAgrees, worker = "reporting", NEW s \in Symbols
  PROVE  /\ Recorded(s) \in Snapshots
         /\ Grows(snapshots[s], Recorded(s))
         /\ LowIsTracked(Recorded(s))
         /\ Recorded(s).buy_time # snapshots[s].buy_time =>
              \E i \in DOMAIN commands : commands[i].side = "BUY"
         /\ \A i \in DOMAIN commands : commands[i].sym = s =>
              /\ Recorded(s).buy_time # 0
              /\ commands[i].side = "SELL" => Recorded(s).sell_time # 0
<1> DEFINE mine == {i \in DOMAIN cycle_quotes : cycle_quotes[i].sym = s}
           own == {i \in DOMAIN commands : commands[i].sym = s}
           first == CHOOSE i \in mine : TRUE
           quoted == IF mine # {} /\ cycle_price(s) > 0
                     THEN AfterQuote(snapshots[s], cycle_quotes[first]) ELSE snapshots[s]
           cmd == commands[CHOOSE i \in own : TRUE]
<1>1. Recorded(s) = IF own = {} THEN quoted ELSE AfterCommand(quoted, cmd)
  BY DEF Recorded
<1>2. snapshots[s] \in Snapshots /\ LowIsTracked(snapshots[s])
  BY DEF Types, FileAgrees
<1>3. /\ quoted \in Snapshots
      /\ Grows(snapshots[s], quoted)
      /\ LowIsTracked(quoted)
      /\ quoted.buy_time = snapshots[s].buy_time
      /\ quoted.sell_time = snapshots[s].sell_time
  <2>1. CASE mine # {} /\ cycle_price(s) > 0
    <3>1. first \in mine /\ first \in DOMAIN cycle_quotes
      BY <2>1
    <3>2. \A i \in mine : i = first
      BY <3>1 DEF Phases
    <3>3. mine = {first} /\ first \in Nat
      BY <3>1, <3>2 DEF Types
    <3>4. cycle_price(s) = cycle_quotes[first].price
      <4> DEFINE last == CHOOSE i \in mine : \A j \in mine : j <= i
      <4>1. cycle_price(s) = cycle_quotes[last].price
        BY <2>1 DEF cycle_price
      <4> HIDE DEF mine, first
      <4>2. first \in mine /\ \A j \in mine : j <= first
        BY <3>3
      <4>3. last \in mine
        BY <4>2
      <4> QED BY <4>1, <4>3, <3>2
    <3>5. cycle_quotes[first] \in CycleQuotes
      BY <3>1 DEF Types
    <3>6. cycle_quotes[first].price \in Nat \ {0} /\ cycle_quotes[first].at \in Nat
      BY <2>1, <3>4, <3>5, ClockAssumption DEF CycleQuotes
    <3>7. quoted = AfterQuote(snapshots[s], cycle_quotes[first])
      BY <2>1
    <3> HIDE DEF quoted, first, mine
    <3> QED BY <1>2, <3>6, <3>7, QuoteGrows
  <2>2. CASE ~(mine # {} /\ cycle_price(s) > 0)
    <3>1. quoted = snapshots[s]
      BY <2>2
    <3> HIDE DEF quoted, mine
    <3> QED BY <1>2, <3>1, GrowsReflexive
  <2> QED BY <2>1, <2>2
<1> HIDE DEF quoted
<1>4. CASE own = {}
  BY <1>1, <1>3, <1>4
<1>5. CASE own # {}
  <2> DEFINE k == CHOOSE i \in own : TRUE
  <2>1. k \in own
    BY <1>5
  <2>2. k \in DOMAIN commands /\ cmd = commands[k] /\ cmd.sym = s /\ cmd \in Commands
    BY <2>1 DEF Types
  <2>3. \A i \in DOMAIN commands : commands[i].sym = s => Fits(commands[i], snapshots[s])
    BY DEF Gate
  <2>4. Fits(cmd, snapshots[s])
    BY <2>2, <2>3
  <2> HIDE DEF cmd, k
  <2>5. Recorded(s) = AfterCommand(quoted, cmd)
    BY <1>1, <1>5
  <2>6. /\ Recorded(s) \in Snapshots
        /\ Grows(snapshots[s], Recorded(s))
        /\ LowIsTracked(Recorded(s))
        /\ Recorded(s).buy_time # 0
        /\ cmd.side = "SELL" => /\ Recorded(s).buy_time = snapshots[s].buy_time
                                /\ Recorded(s).sell_time # 0
    BY <2>2, <2>4, <2>5, <1>2, <1>3, CommandGrows
  <2>7. Recorded(s).buy_time # snapshots[s].buy_time => cmd.side = "BUY"
    BY <2>2, <2>6 DEF Commands
  <2>8. \A i \in DOMAIN commands :
          commands[i].sym = s /\ commands[i].side = "SELL" => cmd.side = "SELL"
    BY <2>2, <2>3, <2>4 DEF Fits, Commands
  <2> QED BY <2>2, <2>6, <2>7, <2>8
<1> QED BY <1>4, <1>5

-----------------------------------------------------------------------------
(* What quotes and reports add to the commands of a cycle.                   *)

LEMMA AppendedOne ==
  ASSUME NEW S, NEW seq \in Seq(S), NEW e \in S
  PROVE  /\ seq \o <<e>> = Append(seq, e)
         /\ Append(seq, e) \in Seq(S) /\ Append(seq, e) # <<>>
         /\ DOMAIN Append(seq, e) = DOMAIN seq \cup {Len(seq) + 1}
         /\ Len(seq) + 1 \notin DOMAIN seq
         /\ \A i \in DOMAIN seq : Append(seq, e)[i] = seq[i]
         /\ Append(seq, e)[Len(seq) + 1] = e
<1>1. DOMAIN seq = 1..Len(seq) /\ Len(seq) \in Nat
  BY LenProperties
<1>2. DOMAIN Append(seq, e) = 1..(Len(seq) + 1)
  BY AppendProperties, LenProperties
<1> QED BY <1>1, <1>2, AppendProperties, AppendIsConcat

LEMMA RemovedOne ==
  ASSUME NEW S, NEW seq \in Seq(S), seq # <<>>
  PROVE  /\ Tail(seq) \in Seq(S)
         /\ 1 \in DOMAIN seq /\ Head(seq) = seq[1] /\ Head(seq) \in S
         /\ \A i \in DOMAIN Tail(seq) :
              i + 1 \in DOMAIN seq /\ i + 1 # 1 /\ i \in Nat /\ Tail(seq)[i] = seq[i + 1]
<1>1. DOMAIN seq = 1..Len(seq) /\ Len(seq) \in Nat /\ Len(seq) # 0
  BY LenProperties, EmptySeq
<1>2. Tail(seq) \in Seq(S) /\ Head(seq) \in S /\ Len(Tail(seq)) = Len(seq) - 1
  BY HeadTailProperties
<1>3. DOMAIN Tail(seq) = 1..(Len(seq) - 1)
  BY <1>2, LenProperties
<1> QED BY <1>1, <1>2, <1>3, HeadTailProperties

(* No command, the BUY of the process, or the SELL of the process.           *)
NoIssue ==
  /\ commands' = commands
  /\ portfolio'.gate_open = portfolio.gate_open
  /\ portfolio'.sell_signaled = portfolio.sell_signaled

Issue(c) ==
  /\ c \in Commands
  /\ commands' = Append(commands, c)
  /\ clock = REFERENCE_CAPTURE_TIME
  /\ Fits(c, snapshots[c.sym])
  /\ IF c.side = "BUY"
     THEN /\ portfolio.gate_open /\ ~portfolio'.gate_open
          /\ portfolio'.sell_signaled = portfolio.sell_signaled
     ELSE /\ ~portfolio.sell_signaled /\ portfolio'.sell_signaled
          /\ portfolio'.gate_open = portfolio.gate_open

LEMMA PollEffect ==
  ASSUME Types, Gate, worker # "none", NEW s \in Symbols, NEW price \in Nat,
         PollSucceeds(s, price)
  PROVE  /\ EngineInv' /\ trading_date' = 0
         /\ \A t \in Symbols : state[t] = "BUY_BLOCKED" => state'[t] = "BUY_BLOCKED"
         /\ NoIssue \/ \E c \in Commands : Issue(c)
         /\ \E q \in CycleQuotes : q.sym = s /\ cycle_quotes' = Append(cycle_quotes, q)
<1> DEFINE q == [date |-> trading_date, at |-> clock, sym |-> s, price |-> price,
                 seq |-> Len(cycle_quotes) + 1]
<1>1. /\ on_quote(q)
      /\ cycle_quotes' = Append(cycle_quotes, q)
      /\ commands' = commands \o output'
  BY DEF PollSucceeds
<1>2. q \in CycleQuotes /\ q.sym = s
  <2>1. Len(cycle_quotes) + 1 \in Nat
    BY LenProperties DEF Types
  <2> QED BY <2>1 DEF Types, CycleQuotes
<1>3. q.price \in Nat /\ q.at = clock
  OBVIOUS
<1> HIDE DEF q
<1>4. /\ EngineInv' /\ trading_date' = 0
      /\ \A t \in Symbols : state[t] = "BUY_BLOCKED" => state'[t] = "BUY_BLOCKED"
      /\ Buys(q) \/ BuysNothing
  BY <1>1, <1>3, EngineQuote DEF Types
<1>5. CASE BuysNothing
  BY <1>1, <1>2, <1>4, <1>5, ConcatEmptySeq DEF BuysNothing, NoIssue, Types
<1>6. CASE Buys(q)
  <2> DEFINE c == BuyCommand(Candidate(q))
  <2>1. clock = REFERENCE_CAPTURE_TIME
    BY <1>3, <1>6, CaptureTimeAssumption DEF Buys, Accepted, Types
  <2>2. c = [side |-> "BUY", sym |-> s, at |-> clock,
             price |-> compute_buy_limit_price(q.price), id |-> command_sequence + 1]
    BY <1>2, <1>3 DEF BuyCommand, Candidate
  <2>3. compute_buy_limit_price(q.price) \in Nat \ {0}
    BY <1>3, BuyLimitType
  <2>4. command_sequence + 1 \in Nat
    BY DEF Types, EngineInv
  <2>5. c \in Commands /\ c.side = "BUY" /\ c.sym = s
    BY <2>1, <2>2, <2>3, <2>4 DEF Commands
  <2>6. output' = <<c>>
    BY <1>6 DEF Buys
  <2> HIDE DEF c
  <2>7. commands' = Append(commands, c)
    BY <1>1, <2>5, <2>6, AppendedOne DEF Types
  <2>8. portfolio \in Portfolios
    BY DEF Types, EngineInv
  <2>9. portfolio.gate_open /\ ~portfolio'.gate_open
        /\ portfolio'.sell_signaled = portfolio.sell_signaled
    BY <1>6, <2>8 DEF Buys, GateOpen, Portfolios
  <2>10. snapshots[s].buy_time = 0
    BY <1>2, <1>6, <2>9 DEF Buys, Gate
  <2>11. Issue(c)
    BY <2>1, <2>5, <2>7, <2>9, <2>10 DEF Issue, Fits
  <2> QED BY <1>1, <1>2, <1>4, <2>5, <2>11
<1> QED BY <1>4, <1>5, <1>6

LEMMA CyclePriceType == ASSUME Types, Phases, NEW s \in Symbols PROVE cycle_price(s) \in Nat
<1> DEFINE mine == {i \in DOMAIN cycle_quotes : cycle_quotes[i].sym = s}
           last == CHOOSE i \in mine : \A j \in mine : j <= i
<1>1. CASE mine = {}
  BY <1>1 DEF cycle_price, Types, Snapshots
<1>2. CASE mine # {}
  <2>1. PICK i \in mine : TRUE
    BY <1>2
  <2>2. i \in DOMAIN cycle_quotes /\ i \in Nat
    BY <2>1, LenProperties DEF Types
  <2>3. \A j \in mine : j = i
    BY <2>1 DEF Phases
  <2>4. \A j \in mine : j <= i
    <3> HIDE DEF mine
    <3> QED BY <2>2, <2>3
  <2>5. last \in mine
    BY <2>1, <2>4
  <2>6. cycle_quotes[last] \in CycleQuotes
    BY <2>5 DEF Types
  <2>7. cycle_price(s) = cycle_quotes[last].price
    BY <1>2 DEF cycle_price
  <2> QED BY <2>6, <2>7 DEF CycleQuotes
<1> QED BY <1>1, <1>2

LEMMA ReportEffect ==
  ASSUME Types, Phases, Hours, Gate, NEW s \in Symbols, held(s),
         on_position_update(PositionUpdate(s)), commands' = commands \o output'
  PROVE  /\ EngineInv' /\ trading_date' = 0 /\ state' = state
         /\ NoIssue \/ \E c \in Commands : Issue(c)
<1> DEFINE e == PositionUpdate(s)
<1>1. /\ e.state = "LONG_OPEN" /\ e.sym = s /\ e.at = clock
      /\ e.price = cycle_price(s)
  BY DEF PositionUpdate
<1>2. e.state \in DOMAIN PortfolioStateOf /\ e.state # "BUY_FAILED"
  BY <1>1 DEF PortfolioStateOf
<1>3. e.price \in Nat \ {0}
  BY <1>1, CyclePriceType DEF held
<1> HIDE DEF e
<1>4. /\ EngineInv' /\ trading_date' = 0 /\ state' = state
      /\ Sells(e) \/ SellsNothing
      /\ portfolio'.gate_open = portfolio.gate_open
  <2>1. on_position_update(e) /\ EngineInv
    BY DEF Types, e
  <2>2. portfolio.gate_open \in BOOLEAN
    BY <2>1 DEF EngineInv, Portfolios
  <2>3. portfolio'.gate_open = portfolio.gate_open
    BY <1>2, <2>1, <2>2, EngineReport
  <2> QED BY <1>2, <2>1, <2>3, EngineReport DEF symbolVars, Types
<1>5. CASE SellsNothing
  BY <1>4, <1>5, ConcatEmptySeq DEF SellsNothing, NoIssue, Types
<1>6. CASE Sells(e)
  <2> DEFINE c == SellCommand(e)
  <2>1. clock = REFERENCE_CAPTURE_TIME /\ Fits(c, snapshots[s]) /\ c.sym = s /\ c.side = "SELL"
    BY <1>1 DEF held, Hours, Fits, SellCommand, NoTime
  <2>2. command_sequence + 1 \in Nat
    BY DEF Types, EngineInv
  <2>3. c \in Commands
    BY <1>1, <1>3, <2>1, <2>2 DEF SellCommand, Commands
  <2>4. output' = <<c>>
    BY <1>6 DEF Sells
  <2> HIDE DEF c
  <2>5. commands' = Append(commands, c)
    BY <2>3, <2>4, AppendedOne DEF Types
  <2>6. Issue(c)
    BY <1>4, <1>6, <2>1, <2>3, <2>5 DEF Issue, Sells
  <2> QED BY <1>4, <2>3, <2>6
<1> QED BY <1>4, <1>5, <1>6

-----------------------------------------------------------------------------
(* The steps that send nothing keep what was sent.                           *)

FileGrows ==
  file # NoFile =>
    file' # NoFile /\ \A s \in Symbols : Grows(file.snapshots[s], file'.snapshots[s])

LEMMA FileUnchanged == ASSUME Types, file' = file PROVE FileGrows
  BY GrowsReflexive DEF Types, Files, FileGrows

LEMMA SentKept ==
  ASSUME Types, Sent, FileGrows, UNCHANGED <<broker_calls, restarts>>,
         portfolio'.gate_open => portfolio.gate_open,
         portfolio.sell_signaled => portfolio'.sell_signaled,
         \A k \in Unsent' : \E j \in Unsent : commands'[k] = commands[j]
  PROVE  Sent'
<1>1. ASSUME NEW i \in DOMAIN broker_calls
      PROVE  LET made == broker_calls[i]
             IN  /\ file' # NoFile
                 /\ file'.snapshots[made.sym].buy_time # 0
                 /\ made.side = "SELL" => file'.snapshots[made.sym].sell_time # 0
                 /\ made.id[1] = made.sym /\ made.id[2] = made.side
                 /\ made.session <= restarts
                 /\ made.session = restarts =>
                      IF made.side = "BUY" THEN ~portfolio'.gate_open
                      ELSE portfolio'.sell_signaled
                 /\ \A k \in Unsent' :
                      commands'[k].side = made.side =>
                        /\ commands'[k].sym # made.sym
                        /\ made.side = "BUY" => made.session # restarts
  <2> DEFINE made == broker_calls[i]
  <2>1. made \in BrokerCalls
    BY DEF Types
  <2>2. made.sym \in Symbols
    BY <2>1 DEF BrokerCalls
  <2>3. /\ file # NoFile
        /\ file.snapshots[made.sym].buy_time # 0
        /\ made.side = "SELL" => file.snapshots[made.sym].sell_time # 0
    BY DEF Sent
  <2>4. /\ file' # NoFile
        /\ file'.snapshots[made.sym].buy_time # 0
        /\ made.side = "SELL" => file'.snapshots[made.sym].sell_time # 0
    BY <2>2, <2>3 DEF FileGrows, Grows
  <2>5. /\ made.id[1] = made.sym /\ made.id[2] = made.side
        /\ made.session <= restarts
        /\ made.session = restarts =>
             IF made.side = "BUY" THEN ~portfolio'.gate_open ELSE portfolio'.sell_signaled
    BY DEF Sent
  <2>6. ASSUME NEW k \in Unsent', commands'[k].side = made.side
        PROVE  commands'[k].sym # made.sym /\ (made.side = "BUY" => made.session # restarts)
    <3>1. PICK j \in Unsent : commands'[k] = commands[j]
      OBVIOUS
    <3> QED BY <2>6, <3>1 DEF Sent
  <2> QED BY <2>4, <2>5, <2>6
<1>2. OneOrderPerSymbolAndSide' /\ OneBuyPerSession'
  BY DEF Sent, OneOrderPerSymbolAndSide, OneBuyPerSession, Calls
<1> QED BY <1>1, <1>2 DEF Sent

LEMMA LedgerKept ==
  ASSUME Ledger, UNCHANGED <<broker_calls, ledger>>,
         order' = NoOrder \/ (order' = order /\ commands' = commands)
  PROVE  Ledger'
<1>1. CASE order' = NoOrder
  BY <1>1 DEF Ledger, NoOrder
<1>2. CASE order' = order /\ commands' = commands
  BY <1>2 DEF Ledger, client_order_id
<1> QED BY <1>1, <1>2

(* No command is left to be sent when none is left.                          *)
LEMMA NothingUnsent == commands = <<>> => Unsent = {}
<1>1. DOMAIN <<>> = {}
  OBVIOUS
<1> QED BY <1>1 DEF Unsent

(* A loop that starts.                                                       *)
LEMMA StartStep ==
  ASSUME IInv, NEW snaps \in [Symbols -> Snapshots], NEW dry \in BOOLEAN,
         worker = "none", \A s \in Symbols : LowIsTracked(snaps[s]),
         file # NoFile => \A s \in Symbols : SameRecord(file.snapshots[s], snaps[s]),
         \A s \in Symbols : snaps[s].buy_time # 0 => clock = REFERENCE_CAPTURE_TIME,
         StartLoop(snaps, dry), up' = TRUE,
         UNCHANGED <<clock, cycle_quotes, position, commands, order, ledger, broker_calls,
                     restarts>>
  PROVE  IInv' /\ FileGrows
<1> USE DEF IInv
<1>1. /\ EngineInv' /\ trading_date' = 0 /\ portfolio' = NewPortfolio
      /\ snapshots' \in [Symbols -> Snapshots]
      /\ \A s \in Symbols : /\ Grows(snaps[s], snapshots'[s])
                            /\ LowIsTracked(snapshots'[s])
                            /\ snapshots'[s].buy_time = snaps[s].buy_time
                            /\ snapshots'[s].buy_time # 0 => state'[s] = "BUY_BLOCKED"
      /\ engine_state' = "RUNNING" /\ dry_run' = dry /\ gateway' = TRUE
      /\ stop_event' = FALSE /\ worker' = "idle"
      /\ file' = Persisted("RUNNING", dry, snapshots')
  BY StartEffect
<1>2. /\ file' \in Files /\ file' # NoFile
      /\ \A s \in Symbols : /\ SameRecord(file'.snapshots[s], snapshots'[s])
                            /\ LowIsTracked(file'.snapshots[s])
                            /\ file # NoFile => Grows(file.snapshots[s], file'.snapshots[s])
  BY <1>1, PersistedAgrees
<1>3. FileGrows
  BY <1>2 DEF FileGrows
<1>4. Types'
  BY <1>1, <1>2 DEF Types
<1>5. /\ commands = <<>> /\ commands' = <<>> /\ cycle_quotes' = <<>> /\ position' = 0
      /\ order' = NoOrder /\ portfolio = NewPortfolio
      /\ DOMAIN commands' = {} /\ DOMAIN cycle_quotes' = {}
  BY DEF Phases
<1>6. Phases'
  BY <1>1, <1>5 DEF Phases
<1>7. Hours'
  <2>1. \A s \in Symbols : file'.snapshots[s].buy_time = snapshots'[s].buy_time
    BY <1>1, <1>2, SameFields DEF Files
  <2> QED BY <1>1, <1>5, <2>1 DEF Hours
<1>8. FileAgrees'
  BY <1>1, <1>2 DEF FileAgrees
<1>9. Gate'
  BY <1>1, <1>5 DEF Gate
<1>10. Sent'
  BY <1>1, <1>3, <1>5, SentKept, NothingUnsent DEF Unsent
<1>11. Ledger'
  BY <1>5, LedgerKept
<1> QED BY <1>3, <1>4, <1>6, <1>7, <1>8, <1>9, <1>10, <1>11

(* A step that changes the process and its file, not the worker.             *)
LEMMA ProcessStep ==
  ASSUME IInv, FileGrows,
         UNCHANGED <<tseVars, clock, engine_state, cycleVars, ledger, broker_calls, restarts>>,
         up' \in BOOLEAN, gateway' \in BOOLEAN, stop_event' \in BOOLEAN, dry_run' \in BOOLEAN,
         up' = FALSE => worker = "none",
         snapshots' \in [Symbols -> Snapshots],
         worker # "none" => snapshots' = snapshots /\ file' # NoFile,
         file' = NoFile \/ file' \in Files,
         \A s \in Symbols :
           /\ LowIsTracked(snapshots'[s])
           /\ file' # NoFile => /\ LowIsTracked(file'.snapshots[s])
                               /\ SameRecord(file'.snapshots[s], snapshots'[s])
           /\ snapshots'[s].buy_time # 0 => clock = REFERENCE_CAPTURE_TIME
  PROVE  IInv'
<1> USE DEF IInv, tseVars, symbolVars, cycleVars
<1>1. Types'
  BY DEF Types, EngineInv
<1>2. Phases'
  BY DEF Phases
<1>3. Hours'
  <2>1. \A s \in Symbols : file' # NoFile =>
          file'.snapshots[s].buy_time = snapshots'[s].buy_time
    BY SameFields DEF Files
  <2> QED BY <2>1 DEF Hours
<1>4. FileAgrees'
  BY DEF FileAgrees
<1>5. Gate'
  <2>1. CASE worker = "none"
    <3>1. commands' = <<>> /\ DOMAIN commands' = {}
      BY <2>1 DEF Phases
    <3> QED BY <2>1, <3>1 DEF Gate
  <2>2. CASE worker # "none"
    BY <2>2 DEF Gate
  <2> QED BY <2>1, <2>2
<1>6. Sent'
  <2>1. Unsent' = Unsent
    BY DEF Unsent
  <2> QED BY <2>1, SentKept
<1>7. Ledger'
  BY LedgerKept
<1> QED BY <1>1, <1>2, <1>3, <1>4, <1>5, <1>6, <1>7

LEMMA StartTradingStep == ASSUME IInv, start_trading PROVE IInv' /\ FileGrows
<1> USE DEF IInv
<1>1. PICK dry \in DryRuns : StartLoop(snapshots, dry)
  BY DEF start_trading
<1>2. dry \in BOOLEAN
  BY QuoteAssumption
<1>3. /\ up' = TRUE /\ worker = "none"
      /\ UNCHANGED <<clock, cycle_quotes, position, commands, order, ledger, broker_calls,
                     restarts>>
  BY DEF start_trading, Types, Phases
<1>4. /\ snapshots \in [Symbols -> Snapshots]
      /\ \A s \in Symbols :
           /\ LowIsTracked(snapshots[s])
           /\ file # NoFile => SameRecord(file.snapshots[s], snapshots[s])
           /\ snapshots[s].buy_time # 0 => clock = REFERENCE_CAPTURE_TIME
  BY DEF start_trading, Types, FileAgrees, Hours
<1> QED BY <1>1, <1>2, <1>3, <1>4, StartStep

LEMMA BootStep == ASSUME IInv, Boot PROVE IInv' /\ FileGrows
<1> USE DEF IInv
<1>1. /\ worker = "none" /\ up' = TRUE
      /\ UNCHANGED <<clock, cycle_quotes, position, commands, order, ledger, broker_calls,
                     restarts>>
  BY DEF Boot, Phases
<1>2. file # NoFile =>
        /\ file \in Files
        /\ file.snapshots \in [Symbols -> Snapshots] /\ file.dry_run \in BOOLEAN
        /\ \A s \in Symbols :
             /\ LowIsTracked(file.snapshots[s])
             /\ SameRecord(file.snapshots[s], file.snapshots[s])
             /\ file.snapshots[s].buy_time # 0 => clock = REFERENCE_CAPTURE_TIME
  BY DEF Types, Files, FileAgrees, Hours, SameRecord
<1>3. file.engine_state = "RUNNING" => file # NoFile
  BY DEF NoFile
<1>4. CASE file.engine_state = "RUNNING" /\ StartLoop(file.snapshots, file.dry_run)
  BY <1>1, <1>2, <1>3, <1>4, StartStep
<1>5. CASE file.engine_state = "RUNNING" /\ ResumeFails
  <2>1. \A s \in Symbols : Grows(file.snapshots[s], file.snapshots[s])
    BY <1>2, <1>3, <1>5, GrowsReflexive
  <2>2. /\ file' = Persisted("IDLE", file.dry_run, file.snapshots)
        /\ snapshots' = file.snapshots /\ dry_run' = file.dry_run
        /\ UNCHANGED <<tseVars, engine_state, gateway, stop_event, worker>>
    BY <1>5 DEF ResumeFails
  <2>3. /\ file' \in Files /\ file' # NoFile
        /\ \A s \in Symbols : /\ SameRecord(file'.snapshots[s], file.snapshots[s])
                              /\ LowIsTracked(file'.snapshots[s])
                              /\ file # NoFile => Grows(file.snapshots[s], file'.snapshots[s])
    BY <1>2, <1>3, <1>5, <2>1, <2>2, PersistedAgrees
  <2>4. FileGrows
    BY <2>3 DEF FileGrows
  <2>5. gateway' \in BOOLEAN /\ stop_event' \in BOOLEAN /\ up' \in BOOLEAN /\ up' # FALSE
    BY <1>1, <2>2 DEF Types
  <2> QED BY <1>1, <1>2, <1>3, <1>5, <2>2, <2>3, <2>4, <2>5, ProcessStep DEF cycleVars
<1>6. CASE /\ file.engine_state # "RUNNING"
           /\ snapshots' = IF file = NoFile THEN snapshots ELSE file.snapshots
           /\ dry_run' = IF file = NoFile THEN dry_run ELSE file.dry_run
           /\ UNCHANGED <<tseVars, engine_state, gateway, stop_event, worker, file>>
  <2>1. FileGrows
    BY <1>6, FileUnchanged
  <2>2. /\ gateway' \in BOOLEAN /\ stop_event' \in BOOLEAN /\ dry_run' \in BOOLEAN
        /\ up' \in BOOLEAN /\ up' # FALSE
    BY <1>1, <1>2, <1>6 DEF Types
  <2>3. /\ snapshots' \in [Symbols -> Snapshots]
        /\ \A s \in Symbols : /\ LowIsTracked(snapshots'[s])
                              /\ snapshots'[s].buy_time # 0 => clock = REFERENCE_CAPTURE_TIME
    BY <1>2, <1>6 DEF Types, FileAgrees, Hours
  <2>4. file' # NoFile => snapshots' = file.snapshots /\ file' = file
    BY <1>6
  <2> QED BY <1>1, <1>2, <1>6, <2>1, <2>2, <2>3, <2>4, ProcessStep DEF cycleVars
<1> QED BY <1>4, <1>5, <1>6 DEF Boot

LEMMA ShutdownStep == ASSUME IInv, shutdown PROVE IInv' /\ FileGrows
<1> USE DEF IInv
<1>1. /\ up = TRUE /\ up' = up /\ stop_event' = TRUE /\ gateway' = FALSE
      /\ file' = Persisted(engine_state, dry_run, snapshots)
      /\ UNCHANGED <<tseVars, clock, engine_state, dry_run, snapshots, cycleVars, ledger,
                     broker_calls, restarts>>
  BY DEF shutdown, Types
<1>2. /\ snapshots \in [Symbols -> Snapshots]
      /\ engine_state \in {"IDLE", "RUNNING"} /\ dry_run \in BOOLEAN
      /\ \A s \in Symbols : /\ LowIsTracked(snapshots[s])
                            /\ file # NoFile => SameRecord(file.snapshots[s], snapshots[s])
                            /\ Grows(snapshots[s], snapshots[s])
                            /\ snapshots[s].buy_time # 0 => clock = REFERENCE_CAPTURE_TIME
  BY <1>1, GrowsReflexive DEF Types, FileAgrees, Hours
<1>3. /\ file' \in Files /\ file' # NoFile
      /\ \A s \in Symbols : /\ SameRecord(file'.snapshots[s], snapshots[s])
                            /\ LowIsTracked(file'.snapshots[s])
                            /\ file # NoFile => Grows(file.snapshots[s], file'.snapshots[s])
  BY <1>1, <1>2, PersistedAgrees
<1>4. FileGrows
  BY <1>3 DEF FileGrows
<1> QED BY <1>1, <1>2, <1>3, <1>4, ProcessStep

(* A step of the cycle that may issue a command: nothing like it was sent    *)
(* before, in this process or an earlier one.                                *)
LEMMA IssueStep ==
  ASSUME IInv, worker \in {"idle", "polling", "reporting"},
         worker' \in {"polling", "reporting"},
         EngineInv', trading_date' = 0,
         \A t \in Symbols : state[t] = "BUY_BLOCKED" => state'[t] = "BUY_BLOCKED",
         NoIssue \/ \E c \in Commands : Issue(c),
         cycle_quotes' \in Seq(CycleQuotes), position' \in 0..Len(WatchSymbols),
         UNCHANGED <<clock, up, engine_state, dry_run, gateway, stop_event, snapshots, order,
                     file, ledger, broker_calls, restarts>>
  PROVE  Types' /\ Hours' /\ FileAgrees' /\ Gate' /\ Sent' /\ Ledger' /\ FileGrows
<1> USE DEF IInv
<1>0. order = NoOrder /\ order' = NoOrder /\ order.status = "NONE"
  BY DEF Phases, NoOrder
<1>1. FileGrows
  BY FileUnchanged
<1>2. FileAgrees'
  BY DEF FileAgrees, Phases
<1>3. Ledger'
  BY <1>0, LedgerKept
<1>4. CASE NoIssue
  <2>1. Types'
    BY <1>4 DEF Types, NoIssue
  <2>2. Hours'
    BY <1>4 DEF Hours, NoIssue
  <2>3. Gate'
    BY <1>4 DEF Gate, NoIssue
  <2>4. Sent'
    <3>1. Unsent' = Unsent
      BY <1>4 DEF Unsent, NoIssue
    <3> QED BY <1>1, <1>4, <3>1, SentKept DEF NoIssue
  <2> QED BY <1>1, <1>2, <1>3, <2>1, <2>2, <2>3, <2>4
<1>5. ASSUME NEW c \in Commands, Issue(c)
      PROVE  Types' /\ Hours' /\ Gate' /\ Sent'
  <2> DEFINE n == Len(commands) + 1
  <2>1. /\ commands' \in Seq(Commands) /\ commands' # <<>>
        /\ DOMAIN commands' = DOMAIN commands \cup {n}
        /\ n \notin DOMAIN commands
        /\ \A i \in DOMAIN commands : commands'[i] = commands[i]
        /\ commands'[n] = c
    <3>1. commands \in Seq(Commands) /\ commands' = Append(commands, c)
      BY <1>5 DEF Issue, Types
    <3> QED BY <3>1, AppendedOne
  <2>2. c.side \in {"BUY", "SELL"} /\ c.sym \in Symbols
    BY DEF Commands
  <2>3. /\ \A i \in DOMAIN commands : commands[i].side \in {"BUY", "SELL"}
        /\ \A i \in DOMAIN commands : commands[i].side # c.side
    <3>1. \A i \in DOMAIN commands : commands[i] \in Commands
      BY DEF Types
    <3>2. portfolio.gate_open \in BOOLEAN /\ portfolio.sell_signaled \in BOOLEAN
      BY DEF Types, EngineInv, Portfolios
    <3> QED BY <1>5, <3>1, <3>2, <2>2 DEF Gate, Issue, Commands
  <2> HIDE DEF n
  <2>4. Types'
    BY <2>1 DEF Types
  <2>5. Hours'
    BY <1>5 DEF Hours, Issue
  <2>6. Gate'
    <3>1. \A i \in DOMAIN commands' :
            IF commands'[i].side = "BUY" THEN ~portfolio'.gate_open ELSE portfolio'.sell_signaled
      BY <1>5, <2>1, <2>2, <2>3 DEF Gate, Issue
    <3>2. \A i, j \in DOMAIN commands' : commands'[i].side = commands'[j].side => i = j
      BY <2>1, <2>3 DEF Gate
    <3>3. portfolio'.gate_open => portfolio.gate_open
      BY <1>5, <2>2 DEF Issue
    <3>4. \A i \in DOMAIN commands' : Fits(commands'[i], snapshots[commands'[i].sym])
      BY <1>5, <2>1 DEF Gate, Issue
    <3>5. \A s \in Symbols : portfolio'.gate_open /\ snapshots[s].buy_time # 0 =>
                             state'[s] = "BUY_BLOCKED"
      BY <3>3 DEF Gate
    <3> QED BY <3>1, <3>2, <3>4, <3>5 DEF Gate, Fits
  <2>7. \A i \in DOMAIN broker_calls :
          broker_calls[i].side = c.side =>
            /\ broker_calls[i].sym # c.sym
            /\ broker_calls[i].session # restarts
    <3> SUFFICES ASSUME NEW i \in DOMAIN broker_calls, broker_calls[i].side = c.side
                 PROVE  broker_calls[i].sym # c.sym /\ broker_calls[i].session # restarts
      OBVIOUS
    <3> DEFINE made == broker_calls[i]
    <3>1. /\ file # NoFile
          /\ file.snapshots[made.sym].buy_time # 0
          /\ made.side = "SELL" => file.snapshots[made.sym].sell_time # 0
          /\ made.session = restarts =>
               IF made.side = "BUY" THEN ~portfolio.gate_open ELSE portfolio.sell_signaled
      BY DEF Sent
    <3>2. /\ file.snapshots[c.sym].buy_time = snapshots[c.sym].buy_time
          /\ file.snapshots[c.sym].sell_time = snapshots[c.sym].sell_time
      <4>1. up = TRUE
        BY DEF Phases, Types
      <4>2. file.snapshots[c.sym] \in Snapshots /\ snapshots[c.sym] \in Snapshots
        BY <2>2, <3>1 DEF Types, Files
      <4>3. SameRecord(file.snapshots[c.sym], snapshots[c.sym])
        BY <2>2, <3>1, <4>1 DEF FileAgrees
      <4> QED BY <4>2, <4>3, SameFields
    <3>3. made.session # restarts
      BY <1>5, <2>2, <3>1 DEF Issue
    <3>4. made.sym # c.sym
      BY <1>5, <2>2, <3>1, <3>2 DEF Issue, Fits
    <3> QED BY <3>3, <3>4
  <2>8. Sent'
    <3>1. ASSUME NEW i \in DOMAIN broker_calls, NEW k \in Unsent',
                 commands'[k].side = broker_calls[i].side
          PROVE  /\ commands'[k].sym # broker_calls[i].sym
                 /\ broker_calls[i].side = "BUY" => broker_calls[i].session # restarts
      <4>1. k \in DOMAIN commands'
        BY DEF Unsent
      <4>2. CASE k = n
        BY <2>1, <2>7, <3>1, <4>2
      <4>3. CASE k \in DOMAIN commands
        <5>1. k \in Unsent /\ commands'[k] = commands[k]
          BY <1>0, <2>1, <4>3 DEF Unsent
        <5> QED BY <3>1, <5>1 DEF Sent
      <4> QED BY <2>1, <4>1, <4>2, <4>3
    <3>2. portfolio'.gate_open => portfolio.gate_open
      BY <1>5, <2>2 DEF Issue
    <3>3. portfolio.sell_signaled => portfolio'.sell_signaled
      BY <1>5, <2>2 DEF Issue
    <3>4. OneOrderPerSymbolAndSide' /\ OneBuyPerSession'
      BY DEF Sent, OneOrderPerSymbolAndSide, OneBuyPerSession, Calls
    <3> QED BY <3>1, <3>2, <3>3, <3>4 DEF Sent
  <2> QED BY <2>4, <2>5, <2>6, <2>8
<1> QED BY <1>1, <1>2, <1>3, <1>4, <1>5

LEMMA PollStep == ASSUME IInv, PollSymbol PROVE IInv' /\ FileGrows
<1> USE DEF IInv
<1> DEFINE s == WatchSymbols[position + 1]
           next == position + 1
<1>1. worker \in {"idle", "polling"} /\ worker # "none"
  BY DEF PollSymbol, polling
<1>2. /\ next \in 1..Len(WatchSymbols) /\ position \in 0..Len(WatchSymbols)
      /\ Len(WatchSymbols) \in Nat /\ DOMAIN WatchSymbols = 1..Len(WatchSymbols)
  <2>1. Len(WatchSymbols) \in Nat /\ DOMAIN WatchSymbols = 1..Len(WatchSymbols)
    BY WatchListAssumption, LenProperties
  <2>2. Len(WatchSymbols) # 0
    <3> DEFINE n == Len(WatchSymbols)
    <3>1. n \in 1..20
      BY WatchListAssumption
    <3> HIDE DEF n
    <3>2. n # 0
      BY <3>1
    <3> QED BY <3>2 DEF n
  <2>3. worker = "idle" => position = 0
    BY DEF Phases
  <2>4. worker = "polling" => position \in 1..(Len(WatchSymbols) - 1)
    BY DEF Phases
  <2>5. position \in 0..(Len(WatchSymbols) - 1)
    BY <1>1, <2>1, <2>2, <2>3, <2>4
  <2> QED BY <2>1, <2>5
<1>3. s \in Symbols
  BY <1>2 DEF Symbols
<1>4. \/ UNCHANGED <<tseVars, cycle_quotes, commands>>
      \/ \E price \in QuotePrices[s] : PollSucceeds(s, price)
  BY DEF PollSymbol
<1>5. /\ EngineInv' /\ trading_date' = 0
      /\ \A t \in Symbols : state[t] = "BUY_BLOCKED" => state'[t] = "BUY_BLOCKED"
      /\ NoIssue \/ \E c \in Commands : Issue(c)
      /\ \/ cycle_quotes' = cycle_quotes
         \/ \E q \in CycleQuotes : q.sym = s /\ cycle_quotes' = Append(cycle_quotes, q)
  <2>1. CASE UNCHANGED <<tseVars, cycle_quotes, commands>>
    BY <2>1 DEF tseVars, symbolVars, NoIssue, Types, EngineInv
  <2>2. ASSUME NEW price \in QuotePrices[s], PollSucceeds(s, price)
        PROVE  /\ EngineInv' /\ trading_date' = 0
               /\ \A t \in Symbols : state[t] = "BUY_BLOCKED" => state'[t] = "BUY_BLOCKED"
               /\ NoIssue \/ \E c \in Commands : Issue(c)
               /\ \E q \in CycleQuotes : q.sym = s /\ cycle_quotes' = Append(cycle_quotes, q)
    <3>1. price \in Nat
      BY <1>3, QuoteAssumption
    <3> HIDE DEF s
    <3> QED BY <1>1, <1>3, <2>2, <3>1, PollEffect
  <2> QED BY <1>4, <2>1, <2>2
<1>6. /\ worker' \in {"polling", "reporting"}
      /\ worker' = "polling" => position' = next /\ next < Len(WatchSymbols)
      /\ worker' = "reporting" => position' = 0
      /\ UNCHANGED <<clock, up, engine_state, dry_run, gateway, stop_event, snapshots, order,
                     file, ledger, broker_calls, restarts>>
  BY DEF PollSymbol, WorkerUnchanged, durableVars
<1>7. position' \in 0..Len(WatchSymbols)
  BY <1>2, <1>6
<1>8. \A i \in DOMAIN cycle_quotes :
        \E k \in 1..position : cycle_quotes[i].sym = WatchSymbols[k]
  BY <1>1 DEF Phases
<1>9. /\ cycle_quotes' \in Seq(CycleQuotes)
      /\ \A i \in DOMAIN cycle_quotes' :
           \E k \in 1..next : cycle_quotes'[i].sym = WatchSymbols[k]
      /\ \A i, j \in DOMAIN cycle_quotes' :
           cycle_quotes'[i].sym = cycle_quotes'[j].sym => i = j
  <2>1. CASE cycle_quotes' = cycle_quotes
    <3>1. 1..position \subseteq 1..next
      BY <1>2
    <3> HIDE DEF next
    <3> QED BY <1>8, <2>1, <3>1 DEF Types, Phases
  <2>2. ASSUME NEW q \in CycleQuotes, q.sym = s, cycle_quotes' = Append(cycle_quotes, q)
        PROVE  /\ cycle_quotes' \in Seq(CycleQuotes)
               /\ \A i \in DOMAIN cycle_quotes' :
                    \E k \in 1..next : cycle_quotes'[i].sym = WatchSymbols[k]
               /\ \A i, j \in DOMAIN cycle_quotes' :
                    cycle_quotes'[i].sym = cycle_quotes'[j].sym => i = j
    <3> DEFINE n == Len(cycle_quotes) + 1
    <3>1. /\ cycle_quotes' \in Seq(CycleQuotes)
          /\ DOMAIN cycle_quotes' = DOMAIN cycle_quotes \cup {n}
          /\ \A i \in DOMAIN cycle_quotes : cycle_quotes'[i] = cycle_quotes[i]
          /\ cycle_quotes'[n] = q
      <4>1. cycle_quotes \in Seq(CycleQuotes)
        BY DEF Types
      <4> QED BY <2>2, <4>1, AppendedOne
    <3>2. \A k \in 1..position : k \in 1..next /\ WatchSymbols[k] # s
      <4> SUFFICES ASSUME NEW k \in 1..position
                   PROVE  k \in 1..next /\ WatchSymbols[k] # s
        OBVIOUS
      <4>1. k \in 1..next /\ k # next /\ k \in 1..Len(WatchSymbols)
        BY <1>2
      <4>2. \A i, j \in DOMAIN WatchSymbols : WatchSymbols[i] = WatchSymbols[j] => i = j
        BY WatchListAssumption
      <4> HIDE DEF next
      <4>3. s = WatchSymbols[next]
        BY DEF next
      <4> QED BY <1>2, <4>1, <4>2, <4>3
    <3>3. next \in 1..next /\ q.sym = WatchSymbols[next]
      BY <1>2, <2>2
    <3> HIDE DEF n, next, s
    <3>4. \A i \in DOMAIN cycle_quotes : cycle_quotes[i].sym # q.sym
      BY <1>8, <2>2, <3>2
    <3>5. \A i \in DOMAIN cycle_quotes' :
            \E k \in 1..next : cycle_quotes'[i].sym = WatchSymbols[k]
      BY <1>8, <3>1, <3>2, <3>3
    <3>6. \A i, j \in DOMAIN cycle_quotes' :
            cycle_quotes'[i].sym = cycle_quotes'[j].sym => i = j
      BY <3>1, <3>4 DEF Phases
    <3> QED BY <3>1, <3>5, <3>6
  <2> QED BY <1>5, <2>1, <2>2
<1>10. Types' /\ Hours' /\ FileAgrees' /\ Gate' /\ Sent' /\ Ledger' /\ FileGrows
  BY <1>1, <1>5, <1>6, <1>7, <1>9, IssueStep
<1>11. Phases'
  <2>1. worker' = "polling" => position' \in 1..(Len(WatchSymbols) - 1)
    BY <1>2, <1>6
  <2>2. worker' # "executing" /\ worker' # "none" /\ worker' # "idle" /\ worker' # "ended"
    BY <1>6
  <2>3. engine_state # "IDLE" /\ up # FALSE /\ order = NoOrder
    BY <1>1 DEF Phases
  <2> HIDE DEF next
  <2> QED BY <1>6, <1>9, <2>1, <2>2, <2>3 DEF Phases
<1> QED BY <1>10, <1>11

LEMMA WorkerEndsStep == ASSUME IInv, WorkerEnds PROVE IInv' /\ FileGrows
<1> USE DEF IInv
<1>1. /\ worker = "idle" /\ worker' = "ended"
      /\ UNCHANGED <<tseVars, snapshots, cycle_quotes, position, commands, order, file, ledger,
                     broker_calls, clock, up, engine_state, dry_run, gateway, stop_event,
                     restarts>>
  BY DEF WorkerEnds, WorkerUnchanged, durableVars
<1>2. FileGrows
  BY <1>1, FileUnchanged
<1>3. commands = <<>> /\ DOMAIN commands = {}
  BY <1>1 DEF Phases
<1>4. Types'
  BY <1>1 DEF Types, EngineInv, tseVars, symbolVars
<1>5. Phases'
  BY <1>1 DEF Phases, tseVars
<1>6. Hours' /\ FileAgrees'
  BY <1>1 DEF Hours, FileAgrees
<1>7. Gate'
  BY <1>1, <1>3 DEF Gate, tseVars, symbolVars
<1>8. Sent'
  <2>1. Unsent' = Unsent
    BY <1>1 DEF Unsent
  <2> QED BY <1>1, <1>2, <2>1, SentKept DEF tseVars
<1>9. Ledger'
  BY <1>1, LedgerKept
<1> QED BY <1>2, <1>4, <1>5, <1>6, <1>7, <1>8, <1>9

LEMMA ReportPositionStep == ASSUME IInv, ReportPosition PROVE IInv' /\ FileGrows
<1> USE DEF IInv
<1>1. PICK i \in unreported :
        /\ on_position_update(PositionUpdate(WatchSymbols[i]))
        /\ position' = i
  BY DEF ReportPosition
<1>2. /\ worker = "reporting" /\ worker' = "reporting"
      /\ commands' = commands \o output'
      /\ UNCHANGED <<snapshots, cycle_quotes, order, file, ledger, broker_calls, clock, up,
                     engine_state, dry_run, gateway, stop_event, restarts>>
  BY DEF ReportPosition, WorkerUnchanged, durableVars
<1>3. i \in DOMAIN WatchSymbols /\ held(WatchSymbols[i])
  BY DEF unreported
<1>4. i \in 0..Len(WatchSymbols) /\ WatchSymbols[i] \in Symbols
  BY <1>3, WatchListAssumption, LenProperties DEF Symbols
<1>5. /\ EngineInv' /\ trading_date' = 0 /\ state' = state
      /\ NoIssue \/ \E c \in Commands : Issue(c)
  BY <1>1, <1>2, <1>3, <1>4, ReportEffect
<1>6. cycle_quotes' \in Seq(CycleQuotes)
  BY <1>2 DEF Types
<1>7. Types' /\ Hours' /\ FileAgrees' /\ Gate' /\ Sent' /\ Ledger' /\ FileGrows
  BY <1>1, <1>2, <1>4, <1>5, <1>6, IssueStep
<1>8. Phases'
  BY <1>2 DEF Phases
<1> QED BY <1>7, <1>8

LEMMA RecordCycleStep == ASSUME IInv, RecordCycle PROVE IInv' /\ FileGrows
<1> USE DEF IInv
<1> DEFINE recorded == [s \in Symbols |-> Recorded(s)]
<1>1. /\ worker = "reporting" /\ worker' \in {"idle", "executing"}
      /\ worker' = "executing" <=> commands # <<>>
      /\ snapshots' = recorded
      /\ file' = IF should_persist(recorded)
                 THEN Persisted(engine_state, dry_run, recorded) ELSE file
      /\ position' = 0 /\ cycle_quotes' = <<>>
      /\ UNCHANGED <<tseVars, commands, order, ledger, broker_calls, clock, up, engine_state,
                     dry_run, gateway, stop_event, restarts>>
  BY DEF RecordCycle, WorkerUnchanged
<1>2. \A s \in Symbols :
        /\ recorded[s] \in Snapshots
        /\ Grows(snapshots[s], recorded[s])
        /\ LowIsTracked(recorded[s])
        /\ recorded[s].buy_time # snapshots[s].buy_time =>
             \E i \in DOMAIN commands : commands[i].side = "BUY"
        /\ \A i \in DOMAIN commands : commands[i].sym = s =>
             /\ recorded[s].buy_time # 0
             /\ commands[i].side = "SELL" => recorded[s].sell_time # 0
  BY <1>1, RecordedEffect
<1>3. recorded \in [Symbols -> Snapshots]
  BY <1>2
<1>4. /\ file # NoFile /\ file \in Files /\ up = TRUE /\ engine_state = "RUNNING"
      /\ order = NoOrder
  BY <1>1 DEF FileAgrees, Phases, Types
<1>5. \A s \in Symbols : SameRecord(file.snapshots[s], snapshots[s])
  BY <1>4 DEF FileAgrees
<1> HIDE DEF recorded
<1>6. /\ file' \in Files /\ file' # NoFile
      /\ \A s \in Symbols : /\ SameRecord(file'.snapshots[s], recorded[s])
                            /\ LowIsTracked(file'.snapshots[s])
                            /\ Grows(file.snapshots[s], file'.snapshots[s])
  <2>1. CASE should_persist(recorded)
    <3>1. /\ snapshots \in [Symbols -> Snapshots] /\ dry_run \in BOOLEAN
          /\ engine_state \in {"IDLE", "RUNNING"}
      BY DEF Types
    <3>2. file' = Persisted(engine_state, dry_run, recorded)
      BY <1>1, <2>1
    <3> QED BY <1>2, <1>3, <1>4, <1>5, <3>1, <3>2, PersistedAgrees
  <2>2. CASE ~should_persist(recorded)
    <3>1. file' = file
      BY <1>1, <2>2
    <3>2. ASSUME NEW s \in Symbols
          PROVE  /\ SameRecord(file.snapshots[s], recorded[s])
                 /\ LowIsTracked(file.snapshots[s])
                 /\ Grows(file.snapshots[s], file.snapshots[s])
      <4>1. /\ file.snapshots[s] \in Snapshots /\ snapshots[s] \in Snapshots
            /\ recorded[s] \in Snapshots
        BY <1>3, <1>4 DEF Types, Files
      <4>2. recorded[s] = [snapshots[s] EXCEPT !.current_price = recorded[s].current_price]
        BY <2>2 DEF should_persist
      <4>3. SameRecord(snapshots[s], recorded[s])
        BY <4>1, <4>2 DEF SameRecord, Snapshots
      <4>4. SameRecord(file.snapshots[s], recorded[s])
        BY <1>5, <4>3 DEF SameRecord
      <4> QED BY <1>4, <4>1, <4>4, GrowsReflexive DEF FileAgrees
    <3> QED BY <1>4, <3>1, <3>2
  <2> QED BY <2>1, <2>2
<1>7. FileGrows
  BY <1>6 DEF FileGrows
<1>8. Types'
  <2>1. cycle_quotes' \in Seq(CycleQuotes) /\ position' \in 0..Len(WatchSymbols)
    <3>1. Len(WatchSymbols) \in Nat
      BY WatchListAssumption, LenProperties
    <3> QED BY <1>1, <3>1
  <2> QED BY <1>1, <1>3, <1>6, <2>1 DEF Types, EngineInv, tseVars, symbolVars
<1>9. Phases'
  <2>1. DOMAIN cycle_quotes' = {}
    BY <1>1
  <2> QED BY <1>1, <1>4, <2>1 DEF Phases
<1>10. Hours'
  <2>1. ASSUME NEW s \in Symbols, recorded[s].buy_time # 0
        PROVE  clock = REFERENCE_CAPTURE_TIME
    <3>1. CASE recorded[s].buy_time = snapshots[s].buy_time
      BY <2>1, <3>1 DEF Hours
    <3>2. CASE recorded[s].buy_time # snapshots[s].buy_time
      <4>1. DOMAIN commands # {}
        BY <1>2, <3>2
      <4>2. commands # <<>>
        BY <4>1
      <4> QED BY <4>2 DEF Hours
    <3> QED BY <3>1, <3>2
  <2>2. \A s \in Symbols : file'.snapshots[s].buy_time = recorded[s].buy_time
    BY <1>3, <1>6, SameFields DEF Files
  <2> QED BY <1>1, <2>1, <2>2 DEF Hours
<1>11. FileAgrees'
  BY <1>1, <1>2, <1>6 DEF FileAgrees
<1>12. Gate'
  <2>1. \A i \in DOMAIN commands : commands[i].sym \in Symbols
    <3>1. \A i \in DOMAIN commands : commands[i] \in Commands
      BY DEF Types
    <3> QED BY <3>1 DEF Commands
  <2>2. \A i \in DOMAIN commands :
          /\ recorded[commands[i].sym].buy_time # 0
          /\ commands[i].side = "SELL" => recorded[commands[i].sym].sell_time # 0
    BY <1>2, <2>1
  <2>3. ASSUME portfolio.gate_open, NEW s \in Symbols, recorded[s].buy_time # 0
        PROVE  state[s] = "BUY_BLOCKED"
    <3>1. \A i \in DOMAIN commands : commands[i].side # "BUY"
      BY <2>3 DEF Gate
    <3>2. snapshots[s].buy_time # 0
      BY <1>2, <2>3, <3>1
    <3> QED BY <1>1, <2>3, <3>2 DEF Gate
  <2>4. /\ portfolio' = portfolio /\ state' = state /\ commands' = commands
        /\ snapshots' = recorded /\ worker' \notin {"polling", "reporting"}
    BY <1>1 DEF tseVars, symbolVars
  <2>5. worker' = "idle" => DOMAIN commands' = {}
    BY <1>1
  <2> QED BY <2>2, <2>3, <2>4, <2>5 DEF Gate
<1>13. Sent'
  <2>1. Unsent' = Unsent
    BY <1>1 DEF Unsent
  <2> QED BY <1>1, <1>7, <2>1, SentKept DEF tseVars
<1>14. Ledger'
  BY <1>1, LedgerKept
<1> QED BY <1>7, <1>8, <1>9, <1>10, <1>11, <1>12, <1>13, <1>14

-----------------------------------------------------------------------------
(* The execution of the commands.                                            *)

(* A step of the execution touches neither the engine nor what is recorded.  *)
LEMMA ExecutionKeeps ==
  ASSUME IInv, ExecutionUnchanged, worker = "executing",
         commands' = commands \/ commands' = Tail(commands) \/ commands' = <<>>,
         worker' \in {"executing", "idle", "ended"},
         worker' = "executing" <=> commands' # <<>>,
         order' \in [status : {"NONE"} \cup Statuses],
         worker' # "executing" => order' = NoOrder,
         \A id \in DOMAIN ledger' : ledger'[id] \in Statuses,
         broker_calls' \in Seq(BrokerCalls)
  PROVE  Types' /\ Phases' /\ Hours' /\ FileAgrees' /\ Gate' /\ FileGrows
<1> USE DEF IInv
<1>1. UNCHANGED <<tseVars, snapshots, cycle_quotes, position, file, clock, up, engine_state,
                  dry_run, gateway, stop_event, restarts>>
  BY DEF ExecutionUnchanged, WorkerUnchanged
<1>2. FileGrows
  BY <1>1, FileUnchanged
<1>3. commands \in Seq(Commands) /\ commands # <<>>
  BY DEF Types, Phases
<1>4. commands' \in Seq(Commands)
  <2>1. Tail(commands) \in Seq(Commands)
    BY <1>3, RemovedOne
  <2>2. <<>> \in Seq(Commands)
    OBVIOUS
  <2> QED BY <1>3, <2>1, <2>2
<1>5. \A i \in DOMAIN commands' : \E j \in DOMAIN commands :
        commands'[i] = commands[j] /\ (commands' # commands => j = i + 1 /\ i \in Nat)
  <2>1. CASE commands' = commands
    BY <2>1
  <2>2. CASE commands' = Tail(commands)
    BY <1>3, <2>2, RemovedOne
  <2>3. CASE commands' = <<>>
    <3>1. DOMAIN commands' = {}
      BY <2>3
    <3> QED BY <3>1
  <2> QED BY <2>1, <2>2, <2>3
<1>6. Types'
  BY <1>1, <1>4 DEF Types, EngineInv, tseVars, symbolVars
<1>7. Phases'
  BY <1>1 DEF Phases, tseVars
<1>8. Hours'
  BY <1>1, <1>3 DEF Hours
<1>9. FileAgrees'
  BY <1>1 DEF FileAgrees
<1>10. Gate'
  <2>1. \A i \in DOMAIN commands' :
          /\ IF commands'[i].side = "BUY" THEN ~portfolio.gate_open ELSE portfolio.sell_signaled
          /\ snapshots[commands'[i].sym].buy_time # 0
          /\ commands'[i].side = "SELL" => snapshots[commands'[i].sym].sell_time # 0
    BY <1>5 DEF Gate
  <2>2. \A i, j \in DOMAIN commands' : commands'[i].side = commands'[j].side => i = j
    <3> SUFFICES ASSUME NEW i \in DOMAIN commands', NEW j \in DOMAIN commands',
                        commands'[i].side = commands'[j].side
                 PROVE  i = j
      OBVIOUS
    <3>1. CASE commands' = commands
      BY <3>1 DEF Gate
    <3>2. CASE commands' # commands
      <4>1. /\ i \in Nat /\ j \in Nat
            /\ i + 1 \in DOMAIN commands /\ commands'[i] = commands[i + 1]
            /\ j + 1 \in DOMAIN commands /\ commands'[j] = commands[j + 1]
        BY <1>5, <3>2
      <4>2. i + 1 = j + 1
        BY <4>1 DEF Gate
      <4> QED BY <4>1, <4>2
    <3> QED BY <3>1, <3>2
  <2>3. worker' \notin {"polling", "reporting"}
    OBVIOUS
  <2>4. worker' = "idle" => DOMAIN commands' = {}
    BY <1>4, EmptySeq
  <2>5. portfolio' = portfolio /\ state' = state /\ snapshots' = snapshots
    BY <1>1 DEF tseVars, symbolVars
  <2> QED BY <2>1, <2>2, <2>3, <2>4, <2>5 DEF Gate
<1> QED BY <1>2, <1>6, <1>7, <1>8, <1>9, <1>10

(* The client order id of a command that was not sent is not at the broker.  *)
LEMMA UnsentIsNew ==
  ASSUME IInv, worker = "executing", order.status \notin {"ACCEPTED", "REJECTED"}
  PROVE  /\ commands # <<>> /\ 1 \in DOMAIN commands /\ 1 \in Unsent
         /\ Head(commands) = commands[1] /\ Head(commands) \in Commands
         /\ \A i \in DOMAIN broker_calls :
              /\ broker_calls[i].id # client_order_id(Head(commands))
              /\ broker_calls[i].side = Head(commands).side =>
                   /\ broker_calls[i].sym # Head(commands).sym
                   /\ broker_calls[i].side = "BUY" => broker_calls[i].session # restarts
<1> USE DEF IInv
<1>1. commands # <<>> /\ commands \in Seq(Commands)
  BY DEF Phases, Types
<1>2. 1 \in DOMAIN commands /\ Head(commands) = commands[1] /\ Head(commands) \in Commands
  BY <1>1, RemovedOne
<1>3. 1 \in Unsent
  BY <1>2 DEF Unsent
<1>4. ASSUME NEW i \in DOMAIN broker_calls, broker_calls[i].side = commands[1].side
      PROVE  /\ broker_calls[i].sym # commands[1].sym
             /\ broker_calls[i].side = "BUY" => broker_calls[i].session # restarts
  BY <1>3, <1>4 DEF Sent
<1>5. ASSUME NEW i \in DOMAIN broker_calls
      PROVE  broker_calls[i].id # client_order_id(commands[1])
  <2>1. broker_calls[i].id[1] = broker_calls[i].sym /\ broker_calls[i].id[2] = broker_calls[i].side
    BY DEF Sent
  <2>2. /\ client_order_id(commands[1])[1] = commands[1].sym
        /\ client_order_id(commands[1])[2] = commands[1].side
    BY DEF client_order_id
  <2> QED BY <1>4, <2>1, <2>2
<1> QED BY <1>1, <1>2, <1>3, <1>4, <1>5

LEMMA LedgerType ==
  ASSUME IInv, NEW cmd, NEW status \in Statuses, RecordStatus(cmd, status)
  PROVE  /\ \A id \in DOMAIN ledger' : ledger'[id] \in Statuses
         /\ client_order_id(cmd) \in DOMAIN ledger' /\ ledger'[client_order_id(cmd)] = status
         /\ \A id \in DOMAIN ledger :
              id # client_order_id(cmd) => id \in DOMAIN ledger' /\ ledger'[id] = ledger[id]
<1>1. ledger' = [id \in DOMAIN ledger \cup {client_order_id(cmd)} |->
                   IF id = client_order_id(cmd) THEN status ELSE ledger[id]]
  BY DEF RecordStatus
<1> DEFINE own == client_order_id(cmd)
<1> HIDE DEF own
<1>2. DOMAIN ledger' = DOMAIN ledger \cup {own}
  BY <1>1 DEF own
<1>3. \A id \in DOMAIN ledger' : ledger'[id] = IF id = own THEN status ELSE ledger[id]
  BY <1>1 DEF own
<1>4. \A id \in DOMAIN ledger : ledger[id] \in Statuses
  BY DEF IInv, Types
<1> QED BY <1>2, <1>3, <1>4 DEF own

LEMMA SkipCommandStep == ASSUME IInv, SkipCommand PROVE IInv' /\ FileGrows
<1> USE DEF IInv
<1>1. /\ worker = "executing" /\ order = NoOrder /\ order' = order
      /\ commands' = Tail(commands)
      /\ worker' = IF Tail(commands) = <<>> THEN "idle" ELSE "executing"
      /\ UNCHANGED <<ledger, broker_calls>>
      /\ ExecutionUnchanged
  BY DEF SkipCommand, Executing, NextCommand
<1>2. Types' /\ Phases' /\ Hours' /\ FileAgrees' /\ Gate' /\ FileGrows
  BY <1>1, ExecutionKeeps DEF Types
<1>3. Sent'
  <2>1. commands \in Seq(Commands) /\ commands # <<>> /\ order.status = "NONE"
    BY <1>1 DEF Types, Phases, NoOrder
  <2>2. \A k \in Unsent' : \E j \in Unsent : commands'[k] = commands[j]
    BY <1>1, <2>1, RemovedOne DEF Unsent
  <2>3. UNCHANGED <<portfolio, restarts>>
    BY <1>1 DEF ExecutionUnchanged, WorkerUnchanged, tseVars
  <2> QED BY <1>1, <1>2, <2>2, <2>3, SentKept
<1>4. Ledger'
  BY <1>1, LedgerKept
<1> QED BY <1>2, <1>3, <1>4

LEMMA CreateOrderStep == ASSUME IInv, create_order PROVE IInv' /\ FileGrows
<1> USE DEF IInv
<1>1. /\ worker = "executing" /\ order = NoOrder
      /\ order' = [status |-> "PENDING_SUBMIT"]
      /\ RecordStatus(Head(commands), "PENDING_SUBMIT")
      /\ UNCHANGED <<worker, commands, broker_calls>>
      /\ ExecutionUnchanged
  BY DEF create_order, Executing
<1>2. order.status = "NONE" /\ order'.status = "PENDING_SUBMIT"
  BY <1>1 DEF NoOrder
<1>3. /\ \A id \in DOMAIN ledger' : ledger'[id] \in Statuses
      /\ \A id \in DOMAIN ledger :
           id # client_order_id(Head(commands)) =>
             id \in DOMAIN ledger' /\ ledger'[id] = ledger[id]
  BY <1>1, LedgerType DEF Statuses
<1>4. Types' /\ Phases' /\ Hours' /\ FileAgrees' /\ Gate' /\ FileGrows
  <2>1. order' \in [status : {"NONE"} \cup Statuses]
    BY <1>1 DEF Statuses
  <2>2. worker' = "executing" /\ commands' # <<>>
    BY <1>1 DEF Phases
  <2>3. broker_calls' \in Seq(BrokerCalls)
    BY <1>1 DEF Types
  <2> QED BY <1>1, <1>3, <2>1, <2>2, <2>3, ExecutionKeeps
<1>5. Sent'
  <2>1. \A k \in Unsent' : k \in Unsent /\ commands'[k] = commands[k]
    BY <1>1, <1>2 DEF Unsent
  <2>2. UNCHANGED <<portfolio, restarts>>
    BY <1>1 DEF ExecutionUnchanged, WorkerUnchanged, tseVars
  <2> QED BY <1>1, <1>4, <2>1, <2>2, SentKept
<1>6. Ledger'
  <2>1. \A i \in DOMAIN broker_calls : broker_calls[i].id # client_order_id(Head(commands))
    BY <1>1, <1>2, UnsentIsNew
  <2>2. \A i \in DOMAIN broker_calls' :
          /\ broker_calls'[i].id \in DOMAIN ledger'
          /\ ledger'[broker_calls'[i].id] # "PENDING_SUBMIT"
          /\ ledger'[broker_calls'[i].id] = "ACCEPTED" => broker_calls'[i].accepted
    BY <1>1, <1>3, <2>1 DEF Ledger
  <2> QED BY <1>2, <2>2 DEF Ledger
<1> QED BY <1>4, <1>5, <1>6

LEMMA MoveToSubmittedStep == ASSUME IInv, move_to_submitted PROVE IInv' /\ FileGrows
<1> USE DEF IInv
<1>1. /\ worker = "executing" /\ order.status = "PENDING_SUBMIT"
      /\ order' = [order EXCEPT !.status = "SUBMITTED"]
      /\ RecordStatus(Head(commands), "SUBMITTED")
      /\ UNCHANGED <<worker, commands, broker_calls>>
      /\ ExecutionUnchanged
  BY DEF move_to_submitted, Executing
<1>2. order'.status = "SUBMITTED" /\ order' \in [status : {"NONE"} \cup Statuses]
  BY <1>1 DEF Types, Statuses
<1>3. /\ \A id \in DOMAIN ledger' : ledger'[id] \in Statuses
      /\ client_order_id(Head(commands)) \in DOMAIN ledger'
      /\ ledger'[client_order_id(Head(commands))] = "SUBMITTED"
      /\ \A id \in DOMAIN ledger :
           id # client_order_id(Head(commands)) =>
             id \in DOMAIN ledger' /\ ledger'[id] = ledger[id]
  BY <1>1, LedgerType DEF Statuses
<1>4. Types' /\ Phases' /\ Hours' /\ FileAgrees' /\ Gate' /\ FileGrows
  <2>1. worker' = "executing" /\ commands' # <<>>
    BY <1>1 DEF Phases
  <2>2. broker_calls' \in Seq(BrokerCalls)
    BY <1>1 DEF Types
  <2> QED BY <1>1, <1>2, <1>3, <2>1, <2>2, ExecutionKeeps
<1>5. Sent'
  <2>1. \A k \in Unsent' : k \in Unsent /\ commands'[k] = commands[k]
    BY <1>1, <1>2 DEF Unsent
  <2>2. UNCHANGED <<portfolio, restarts>>
    BY <1>1 DEF ExecutionUnchanged, WorkerUnchanged, tseVars
  <2> QED BY <1>1, <1>4, <2>1, <2>2, SentKept
<1>6. Ledger'
  <2>1. \A i \in DOMAIN broker_calls : broker_calls[i].id # client_order_id(Head(commands))
    BY <1>1, UnsentIsNew
  <2>2. \A i \in DOMAIN broker_calls' :
          /\ broker_calls'[i].id \in DOMAIN ledger'
          /\ ledger'[broker_calls'[i].id] # "PENDING_SUBMIT"
          /\ ledger'[broker_calls'[i].id] = "ACCEPTED" => broker_calls'[i].accepted
    BY <1>1, <1>3, <2>1 DEF Ledger
  <2>3. client_order_id(Head(commands'))
          = client_order_id(Head(commands))
    BY <1>1
  <2> QED BY <1>2, <1>3, <2>2, <2>3 DEF Ledger
<1> QED BY <1>4, <1>5, <1>6

LEMMA SubmitOrderStep == ASSUME IInv, submit_order PROVE IInv' /\ FileGrows
<1> USE DEF IInv
<1> DEFINE cmd == Head(commands)
           made(accepted) == [id |-> client_order_id(cmd), sym |-> cmd.sym, side |-> cmd.side,
                              price |-> cmd.price, accepted |-> accepted, session |-> restarts]
<1>1. /\ worker = "executing" /\ order.status = "SUBMITTED"
      /\ UNCHANGED <<worker, commands, ledger>>
      /\ ExecutionUnchanged
  BY DEF submit_order, Executing
<1>2. PICK accepted, told \in BOOLEAN :
        /\ order' = [order EXCEPT !.status =
                        IF gateway /\ accepted /\ told THEN "ACCEPTED" ELSE "REJECTED"]
        /\ broker_calls' = IF ~gateway THEN broker_calls
                           ELSE Append(broker_calls, made(accepted))
  BY DEF submit_order
<1>3. /\ order'.status \in {"ACCEPTED", "REJECTED"}
      /\ order'.status = "ACCEPTED" => gateway /\ accepted
      /\ order' \in [status : {"NONE"} \cup Statuses]
  BY <1>2 DEF Types, Statuses
<1>4. /\ commands # <<>> /\ 1 \in DOMAIN commands /\ 1 \in Unsent
      /\ cmd = commands[1] /\ cmd \in Commands
      /\ \A i \in DOMAIN broker_calls :
           /\ broker_calls[i].id # client_order_id(cmd)
           /\ broker_calls[i].side = cmd.side =>
                /\ broker_calls[i].sym # cmd.sym
                /\ broker_calls[i].side = "BUY" => broker_calls[i].session # restarts
  BY <1>1, UnsentIsNew
<1> DEFINE new == made(accepted)
           n == Len(broker_calls) + 1
<1>5. /\ new.id = client_order_id(cmd) /\ new.sym = cmd.sym /\ new.side = cmd.side
      /\ new.accepted = accepted /\ new.session = restarts
      /\ new \in BrokerCalls
  <2>1. client_order_id(cmd) \in Symbols \X Sides \X Nat
    BY <1>4 DEF client_order_id, Commands, Sides
  <2>2. restarts \in Nat
    BY QuoteAssumption DEF Types
  <2> HIDE DEF cmd
  <2> QED BY <1>4, <2>1, <2>2 DEF BrokerCalls, Commands, Sides
<1> HIDE DEF new, cmd
<1>6. gateway => /\ broker_calls' \in Seq(BrokerCalls)
                 /\ DOMAIN broker_calls' = DOMAIN broker_calls \cup {n}
                 /\ n \notin DOMAIN broker_calls
                 /\ \A i \in DOMAIN broker_calls : broker_calls'[i] = broker_calls[i]
                 /\ broker_calls'[n] = new
  <2>1. broker_calls \in Seq(BrokerCalls)
    BY DEF Types
  <2>2. gateway => broker_calls' = Append(broker_calls, new)
    BY <1>2 DEF new
  <2> QED BY <1>5, <2>1, <2>2, AppendedOne
<1> HIDE DEF n, made
<1>7. Types' /\ Phases' /\ Hours' /\ FileAgrees' /\ Gate' /\ FileGrows
  <2>1. worker' = "executing" /\ commands' # <<>>
    BY <1>1, <1>4
  <2>2. broker_calls' \in Seq(BrokerCalls)
    BY <1>2, <1>6 DEF Types
  <2>3. \A id \in DOMAIN ledger' : ledger'[id] \in Statuses
    BY <1>1 DEF Types
  <2> QED BY <1>1, <1>3, <2>1, <2>2, <2>3, ExecutionKeeps
<1>8. /\ UNCHANGED <<portfolio, restarts, file, snapshots>>
  BY <1>1 DEF ExecutionUnchanged, WorkerUnchanged, tseVars
<1>9. \A k \in Unsent' : k \in Unsent /\ commands'[k] = commands[k] /\ k # 1
  BY <1>1, <1>3 DEF Unsent
<1>10. CASE ~gateway
  <2>1. Sent'
    BY <1>2, <1>7, <1>8, <1>9, <1>10, SentKept
  <2>2. Ledger'
    <3>1. client_order_id(Head(commands')) = client_order_id(Head(commands))
      BY <1>1
    <3> QED BY <1>1, <1>2, <1>3, <1>10, <3>1 DEF Ledger
  <2> QED BY <1>7, <2>1, <2>2
<1>11. CASE gateway
  <2>1. ASSUME NEW i \in DOMAIN broker_calls'
        PROVE  LET call == broker_calls'[i]
               IN  /\ file' # NoFile
                   /\ file'.snapshots[call.sym].buy_time # 0
                   /\ call.side = "SELL" => file'.snapshots[call.sym].sell_time # 0
                   /\ call.id[1] = call.sym /\ call.id[2] = call.side
                   /\ call.session <= restarts'
                   /\ call.session = restarts' =>
                        IF call.side = "BUY" THEN ~portfolio'.gate_open
                        ELSE portfolio'.sell_signaled
                   /\ \A k \in Unsent' :
                        commands'[k].side = call.side =>
                          /\ commands'[k].sym # call.sym
                          /\ call.side = "BUY" => call.session # restarts'
    <3>1. CASE i \in DOMAIN broker_calls
      <4>1. broker_calls'[i] = broker_calls[i]
        BY <1>6, <1>11, <3>1
      <4> QED BY <1>8, <1>9, <3>1, <4>1 DEF Sent
    <3>2. CASE i = n
      <4>1. broker_calls'[i] = new
        BY <1>6, <1>11, <3>2
      <4>2. /\ file # NoFile /\ up = TRUE
            /\ snapshots[cmd.sym].buy_time # 0
            /\ cmd.side = "SELL" => snapshots[cmd.sym].sell_time # 0
            /\ IF cmd.side = "BUY" THEN ~portfolio.gate_open ELSE portfolio.sell_signaled
        BY <1>1, <1>4 DEF FileAgrees, Phases, Types, Gate
      <4>3. cmd.sym \in Symbols /\ cmd.side \in {"BUY", "SELL"}
        BY <1>4 DEF Commands
      <4>4. /\ file.snapshots[cmd.sym].buy_time = snapshots[cmd.sym].buy_time
            /\ file.snapshots[cmd.sym].sell_time = snapshots[cmd.sym].sell_time
        <5>1. file.snapshots[cmd.sym] \in Snapshots /\ snapshots[cmd.sym] \in Snapshots
          BY <4>2, <4>3 DEF Types, Files
        <5>2. SameRecord(file.snapshots[cmd.sym], snapshots[cmd.sym])
          BY <4>2, <4>3 DEF FileAgrees
        <5> QED BY <5>1, <5>2, SameFields
      <4>5. new.id[1] = cmd.sym /\ new.id[2] = cmd.side
        BY <1>5 DEF client_order_id
      <4>6. restarts \in Nat
        BY QuoteAssumption DEF Types
      <4>7. \A k \in Unsent' : commands'[k].side # cmd.side
        <5>1. \A k \in Unsent : k \in DOMAIN commands
          BY DEF Unsent
        <5> QED BY <1>4, <1>9, <5>1 DEF Gate
      <4>8. /\ new.sym = cmd.sym /\ new.side = cmd.side /\ new.session = restarts
        BY <1>5
      <4>9. new.session <= restarts
        BY <4>6, <4>8
      <4> QED BY <1>8, <4>1, <4>2, <4>4, <4>5, <4>7, <4>8, <4>9
    <3> QED BY <1>6, <1>11, <3>1, <3>2
  <2>2. OneOrderPerSymbolAndSide'
    <3>1. \A i \in DOMAIN broker_calls :
            ~(broker_calls[i].sym = new.sym /\ broker_calls[i].side = new.side)
      BY <1>4, <1>5
    <3> QED BY <1>6, <1>11, <3>1 DEF Sent, OneOrderPerSymbolAndSide
  <2>3. OneBuyPerSession'
    <3>1. \A i \in DOMAIN broker_calls :
            ~(/\ broker_calls[i].side = "BUY" /\ new.side = "BUY"
              /\ broker_calls[i].session = new.session)
      BY <1>4, <1>5
    <3> QED BY <1>6, <1>11, <3>1 DEF Sent, OneBuyPerSession, Calls
  <2>4. Sent'
    BY <2>1, <2>2, <2>3 DEF Sent
  <2>5. Ledger'
    <3>1. client_order_id(Head(commands')) = client_order_id(cmd)
      BY <1>1 DEF cmd
    <3>2. client_order_id(cmd) \in DOMAIN ledger /\ ledger[client_order_id(cmd)] = "SUBMITTED"
      BY <1>1 DEF Ledger, cmd
    <3>3. \A i \in DOMAIN broker_calls' :
            /\ broker_calls'[i].id \in DOMAIN ledger
            /\ ledger[broker_calls'[i].id] # "PENDING_SUBMIT"
            /\ ledger[broker_calls'[i].id] = "ACCEPTED" => broker_calls'[i].accepted
      BY <1>5, <1>6, <1>11, <3>2 DEF Ledger
    <3>4. order'.status = "ACCEPTED" =>
            \A i \in DOMAIN broker_calls' :
              broker_calls'[i].id = client_order_id(cmd) => broker_calls'[i].accepted
      BY <1>3, <1>4, <1>5, <1>6, <1>11
    <3> QED BY <1>1, <3>1, <3>2, <3>3, <3>4 DEF Ledger
  <2> QED BY <1>7, <2>4, <2>5
<1>12. gateway \in BOOLEAN
  BY DEF Types
<1> QED BY <1>10, <1>11, <1>12

LEMMA SettleOrderStep == ASSUME IInv, settle_order PROVE IInv' /\ FileGrows
<1> USE DEF IInv
<1>1. /\ worker = "executing" /\ order.status \in {"ACCEPTED", "REJECTED"}
      /\ RecordStatus(Head(commands), order.status)
      /\ order' = NoOrder
      /\ commands' = Tail(commands)
      /\ worker' = IF Tail(commands) = <<>> THEN "idle" ELSE "executing"
      /\ UNCHANGED broker_calls
      /\ ExecutionUnchanged
  BY DEF settle_order, Executing, NextCommand
<1>2. /\ \A id \in DOMAIN ledger' : ledger'[id] \in Statuses
      /\ client_order_id(Head(commands)) \in DOMAIN ledger'
      /\ ledger'[client_order_id(Head(commands))] = order.status
      /\ \A id \in DOMAIN ledger :
           id # client_order_id(Head(commands)) =>
             id \in DOMAIN ledger' /\ ledger'[id] = ledger[id]
  <2>1. order.status \in Statuses
    BY <1>1 DEF Statuses
  <2> QED BY <1>1, <2>1, LedgerType
<1>3. Types' /\ Phases' /\ Hours' /\ FileAgrees' /\ Gate' /\ FileGrows
  <2>1. broker_calls' \in Seq(BrokerCalls)
    BY <1>1 DEF Types
  <2>2. order' \in [status : {"NONE"} \cup Statuses]
    BY <1>1 DEF NoOrder
  <2> QED BY <1>1, <1>2, <2>1, <2>2, ExecutionKeeps
<1>4. Sent'
  <2>1. commands \in Seq(Commands) /\ commands # <<>>
    BY <1>1 DEF Types, Phases
  <2>2. \A k \in Unsent' : \E j \in Unsent : commands'[k] = commands[j]
    BY <1>1, <2>1, RemovedOne DEF Unsent
  <2>3. UNCHANGED <<portfolio, restarts>>
    BY <1>1 DEF ExecutionUnchanged, WorkerUnchanged, tseVars
  <2> QED BY <1>1, <1>3, <2>2, <2>3, SentKept
<1>5. Ledger'
  <2>1. \A i \in DOMAIN broker_calls' :
          /\ broker_calls'[i].id \in DOMAIN ledger'
          /\ ledger'[broker_calls'[i].id] # "PENDING_SUBMIT"
          /\ ledger'[broker_calls'[i].id] = "ACCEPTED" => broker_calls'[i].accepted
    BY <1>1, <1>2 DEF Ledger
  <2> QED BY <1>1, <2>1 DEF Ledger, NoOrder
<1> QED BY <1>3, <1>4, <1>5

LEMMA LedgerFailsStep == ASSUME IInv, LedgerFails PROVE IInv' /\ FileGrows
<1> USE DEF IInv
<1>1. /\ worker = "executing" /\ worker' = "ended" /\ commands' = <<>> /\ order' = NoOrder
      /\ UNCHANGED <<ledger, broker_calls>>
      /\ ExecutionUnchanged
  BY DEF LedgerFails, Executing
<1>2. Types' /\ Phases' /\ Hours' /\ FileAgrees' /\ Gate' /\ FileGrows
  <2>1. /\ broker_calls' \in Seq(BrokerCalls)
        /\ \A id \in DOMAIN ledger' : ledger'[id] \in Statuses
    BY <1>1 DEF Types
  <2>2. order' \in [status : {"NONE"} \cup Statuses]
    BY <1>1 DEF NoOrder
  <2> QED BY <1>1, <2>1, <2>2, ExecutionKeeps
<1>3. Sent'
  <2>1. Unsent' = {}
    <3>1. DOMAIN commands' = {}
      BY <1>1
    <3> QED BY <3>1 DEF Unsent
  <2>2. UNCHANGED <<portfolio, restarts>>
    BY <1>1 DEF ExecutionUnchanged, WorkerUnchanged, tseVars
  <2> QED BY <1>1, <1>2, <2>1, <2>2, SentKept
<1>4. Ledger'
  BY <1>1, LedgerKept
<1> QED BY <1>2, <1>3, <1>4

-----------------------------------------------------------------------------
(* Crashes, the clock, and the invariant.                                    *)

LEMMA CrashStep == ASSUME IInv, Crash PROVE IInv' /\ FileGrows
<1> USE DEF IInv
<1>1. /\ up = TRUE /\ up' = FALSE
      /\ restarts < MaxRestarts /\ restarts' = restarts + 1
      /\ on_day_changed(0)
      /\ engine_state' = "IDLE" /\ dry_run' = TRUE
      /\ snapshots' = NewSnapshots
      /\ gateway' = FALSE /\ stop_event' = FALSE
      /\ worker' = "none" /\ cycle_quotes' = <<>> /\ position' = 0 /\ commands' = <<>>
      /\ order' = NoOrder
      /\ UNCHANGED <<clock, file, ledger, broker_calls>>
  BY DEF Crash, Types, durableVars
<1>2. FileGrows
  BY <1>1, FileUnchanged
<1>3. EngineInv' /\ trading_date' = 0 /\ portfolio' = NewPortfolio
  BY <1>1 DEF on_day_changed, EngineInv, Portfolios, NewPortfolio, PortfolioStates,
              SymbolStates, NoPrice
<1>4. restarts \in Nat /\ restarts' \in 0..MaxRestarts
  BY <1>1, QuoteAssumption DEF Types
<1>5. Types'
  <2>1. Len(WatchSymbols) \in Nat
    BY WatchListAssumption, LenProperties
  <2>2. position' \in 0..Len(WatchSymbols)
    BY <1>1, <2>1
  <2>3. /\ cycle_quotes' \in Seq(CycleQuotes) /\ commands' \in Seq(Commands)
        /\ order' \in [status : {"NONE"} \cup Statuses]
    BY <1>1 DEF NoOrder
  <2>4. snapshots' \in [Symbols -> Snapshots]
    BY <1>1, NewSnapshotType
  <2> QED BY <1>1, <1>3, <1>4, <2>2, <2>3, <2>4 DEF Types
<1>6. Phases'
  <2>1. DOMAIN cycle_quotes' = {}
    BY <1>1
  <2> QED BY <1>1, <1>3, <2>1 DEF Phases
<1>7. Hours'
  BY <1>1, NewSnapshotType DEF Hours
<1>8. FileAgrees'
  BY <1>1 DEF FileAgrees, LowIsTracked, NewSnapshots, NewSnapshot, NoPrice
<1>9. DOMAIN commands' = {} /\ Unsent' = {}
  BY <1>1 DEF Unsent
<1>10. Gate'
  BY <1>1, <1>9 DEF Gate
<1>11. Sent'
  <2>1. ASSUME NEW i \in DOMAIN broker_calls
        PROVE  broker_calls[i].session <= restarts' /\ broker_calls[i].session # restarts'
    <3>1. broker_calls[i].session \in Nat
      <4>1. broker_calls[i] \in BrokerCalls
        BY DEF Types
      <4> QED BY <4>1 DEF BrokerCalls
    <3>2. broker_calls[i].session <= restarts
      BY DEF Sent
    <3> QED BY <1>1, <1>4, <3>1, <3>2
  <2>2. OneOrderPerSymbolAndSide' /\ OneBuyPerSession'
    BY <1>1 DEF Sent, OneOrderPerSymbolAndSide, OneBuyPerSession, Calls
  <2> QED BY <1>1, <1>9, <2>1, <2>2 DEF Sent
<1>12. Ledger'
  BY <1>1, LedgerKept
<1> QED BY <1>2, <1>5, <1>6, <1>7, <1>8, <1>10, <1>11, <1>12

LEMMA TickStep == ASSUME IInv, Tick PROVE IInv' /\ FileGrows
<1> USE DEF IInv, tseVars, symbolVars, engineVars, cycleVars, durableVars
<1>1. /\ clock < REFERENCE_CAPTURE_TIME /\ clock' = clock + 1
      /\ UNCHANGED <<tseVars, engineVars, cycleVars, durableVars, restarts>>
  BY DEF Tick
<1>2. clock' \in 0..REFERENCE_CAPTURE_TIME /\ clock # REFERENCE_CAPTURE_TIME
  BY <1>1, ClockAssumption DEF Types
<1>3. FileGrows
  BY <1>1, FileUnchanged
<1>4. Types'
  BY <1>1, <1>2 DEF Types, EngineInv
<1>5. Phases' /\ FileAgrees' /\ Gate'
  BY <1>1 DEF Phases, FileAgrees, Gate
<1>6. Hours'
  BY <1>1, <1>2 DEF Hours
<1>7. Sent'
  <2>1. Unsent' = Unsent
    BY <1>1 DEF Unsent
  <2> QED BY <1>1, <1>3, <2>1, SentKept
<1>8. Ledger'
  BY <1>1, LedgerKept
<1> QED BY <1>3, <1>4, <1>5, <1>6, <1>7, <1>8

LEMMA StutterStep == ASSUME IInv, UNCHANGED vars PROVE IInv' /\ FileGrows
<1> USE DEF IInv, vars, tseVars, symbolVars, engineVars, cycleVars, durableVars
<1>1. FileGrows
  BY FileUnchanged
<1>2. Types' /\ Phases' /\ FileAgrees' /\ Gate' /\ Hours'
  BY DEF Types, EngineInv, Phases, FileAgrees, Gate, Hours
<1>3. Sent'
  <2>1. Unsent' = Unsent
    BY DEF Unsent
  <2> QED BY <1>1, <2>1, SentKept
<1>4. Ledger'
  BY LedgerKept
<1> QED BY <1>1, <1>2, <1>3, <1>4

LEMMA InitIInv == ASSUME Init PROVE IInv
<1>1. /\ FreshContext(0)
      /\ up = FALSE /\ engine_state = "IDLE" /\ dry_run = TRUE /\ snapshots = NewSnapshots
      /\ gateway = FALSE /\ stop_event = FALSE /\ worker = "none" /\ cycle_quotes = <<>>
      /\ position = 0 /\ commands = <<>> /\ order = NoOrder
      /\ clock = 0 /\ file = NoFile /\ ledger = <<>> /\ broker_calls = <<>> /\ restarts = 0
  BY DEF Init, MemoryLost
<1>2. /\ DOMAIN cycle_quotes = {} /\ DOMAIN commands = {} /\ DOMAIN ledger = {}
      /\ DOMAIN broker_calls = {}
  BY <1>1
<1>3. EngineInv /\ trading_date = 0 /\ portfolio = NewPortfolio
  BY <1>1, FreshEngine DEF FreshContext
<1>4. Types
  <2>1. Len(WatchSymbols) \in Nat /\ MaxRestarts \in Nat
    BY WatchListAssumption, LenProperties, QuoteAssumption
  <2>2. position \in 0..Len(WatchSymbols) /\ restarts \in 0..MaxRestarts
        /\ clock \in 0..REFERENCE_CAPTURE_TIME
    BY <1>1, <2>1, ClockAssumption
  <2>3. /\ cycle_quotes \in Seq(CycleQuotes) /\ commands \in Seq(Commands)
        /\ broker_calls \in Seq(BrokerCalls)
        /\ order \in [status : {"NONE"} \cup Statuses]
    BY <1>1 DEF NoOrder
  <2>4. snapshots \in [Symbols -> Snapshots]
    BY <1>1, NewSnapshotType
  <2> QED BY <1>1, <1>2, <1>3, <2>2, <2>3, <2>4 DEF Types
<1>5. Phases
  BY <1>1, <1>2, <1>3 DEF Phases
<1>6. Hours
  BY <1>1, NewSnapshotType DEF Hours
<1>7. FileAgrees
  BY <1>1 DEF FileAgrees, LowIsTracked, NewSnapshots, NewSnapshot, NoPrice
<1>8. Gate
  BY <1>1, <1>2 DEF Gate
<1>9. Sent
  BY <1>2 DEF Sent, OneOrderPerSymbolAndSide, OneBuyPerSession, Calls
<1>10. Ledger
  BY <1>1, <1>2 DEF Ledger, NoOrder
<1> QED BY <1>4, <1>5, <1>6, <1>7, <1>8, <1>9, <1>10 DEF IInv

(* Every step of the process keeps the invariant and lets the file grow.     *)
LEMMA NextIInv == ASSUME IInv, [Next]_vars PROVE IInv' /\ FileGrows
<1>1. CASE start_trading BY <1>1, StartTradingStep
<1>2. CASE Boot BY <1>2, BootStep
<1>3. CASE PollSymbol BY <1>3, PollStep
<1>4. CASE ReportPosition BY <1>4, ReportPositionStep
<1>5. CASE RecordCycle BY <1>5, RecordCycleStep
<1>6. CASE WorkerEnds BY <1>6, WorkerEndsStep
<1>7. CASE SkipCommand BY <1>7, SkipCommandStep
<1>8. CASE create_order BY <1>8, CreateOrderStep
<1>9. CASE move_to_submitted BY <1>9, MoveToSubmittedStep
<1>10. CASE submit_order BY <1>10, SubmitOrderStep
<1>11. CASE settle_order BY <1>11, SettleOrderStep
<1>12. CASE LedgerFails BY <1>12, LedgerFailsStep
<1>13. CASE shutdown BY <1>13, ShutdownStep
<1>14. CASE Crash BY <1>14, CrashStep
<1>15. CASE Tick BY <1>15, TickStep
<1>16. CASE UNCHANGED vars BY <1>16, StutterStep
<1> QED
  BY <1>1, <1>2, <1>3, <1>4, <1>5, <1>6, <1>7, <1>8, <1>9, <1>10, <1>11, <1>12, <1>13, <1>14,
     <1>15, <1>16 DEF Next, Cycle, Execute

(* The invariant holds in every state of the application service, across     *)
(* crashes and resumptions (start_trading, run_cycle, _execute_tse_command,  *)
(* shutdown).                                                                *)
THEOREM InvariantHolds == Spec => []IInv
<1>1. Init => IInv
  BY InitIInv
<1>2. IInv /\ [Next]_vars => IInv'
  BY NextIInv
<1> QED BY <1>1, <1>2, PTL DEF Spec

-----------------------------------------------------------------------------
(* What follows from it.                                                     *)

(* The state of the service, of its file and of its ledger is well typed     *)
(* (src/uag/service.py, src/uag/models.py).                                  *)
THEOREM TypeCorrect == Spec => []TypeOK
<1>1. IInv => TypeOK
  BY DEF IInv, Types, TypeOK, EngineInv, Files
<1> QED BY <1>1, InvariantHolds, PTL

(* The broker receives at most one BUY and one SELL of a symbol in a day,    *)
(* whatever crashes and resumptions lie between them (_execute_tse_command   *)
(* after _update_monitoring_snapshots).                                      *)
THEOREM OrdersAreSentOnce == Spec => []OneOrderPerSymbolAndSide
<1>1. IInv => OneOrderPerSymbolAndSide
  BY DEF IInv, Sent
<1> QED BY <1>1, InvariantHolds, PTL

(* One run of the process sends one BUY: the gate of its engine closes with  *)
(* the first command and is never opened (_flush_buy_candidate).             *)
THEOREM ProcessBuysOnce == Spec => []OneBuyPerSession
<1>1. IInv => OneBuyPerSession
  BY DEF IInv, Sent
<1> QED BY <1>1, InvariantHolds, PTL

(* Whatever the broker received is in the file as bought or sold, and in the *)
(* ledger as submitted, so a resumed process knows of it                     *)
(* (_persist_snapshots, move_to_submitted before submit_order), as long as   *)
(* the file can be written: see Persisted.                                   *)
THEOREM SentIsRecorded == Spec => []RecordedBeforeSent
<1>1. IInv => RecordedBeforeSent
  BY DEF IInv, Sent, Ledger, RecordedBeforeSent, NoTime
<1> QED BY <1>1, InvariantHolds, PTL

(* While a loop runs, the file holds the memory but for the current prices:  *)
(* should_persist skips no write that matters, and the merge of              *)
(* _persist_snapshots brings nothing back.                                   *)
THEOREM NothingToLose == Spec => []FileIsCurrent
<1>1. IInv => FileIsCurrent
  <2> SUFFICES ASSUME IInv, worker # "none", NEW s \in Symbols
               PROVE  SameRecord(file.snapshots[s], snapshots[s])
    BY DEF FileIsCurrent, SameRecord
  <2>1. up = TRUE /\ file # NoFile
    BY DEF IInv, Phases, Types, FileAgrees
  <2> QED BY <2>1 DEF IInv, FileAgrees
<1> QED BY <1>1, InvariantHolds, PTL

(* No step of the process, no crash and no resumption takes back what the    *)
(* file holds of the day, and its lows only fall (_persist_snapshots,        *)
(* _initialize_reference_prices, _update_monitoring_snapshots).              *)
THEOREM DayIsKept == Spec => DayIsNeverForgotten
<1> DEFINE Kept ==
      file # NoFile =>
        \A s \in Symbols :
          LET old == file.snapshots[s]
              new == file'.snapshots[s]
          IN  /\ old.price_at_0830 # NoPrice => new.price_at_0830 = old.price_at_0830
              /\ old.buy_time # NoTime =>
                   /\ new.buy_time = old.buy_time /\ new.buy_price = old.buy_price
                   /\ new.previous_high_price >= old.previous_high_price
              /\ old.sell_time # NoTime => new.sell_time = old.sell_time
              /\ old.previous_low_price # NoPrice =>
                   new.previous_low_price \in 1..old.previous_low_price
<1>1. IInv /\ [Next]_vars => Kept
  BY NextIInv DEF FileGrows, Grows, NoPrice, NoTime
<1>2. IInv /\ [Next]_vars => [Kept]_vars
  BY <1>1
<1> QED BY <1>2, InvariantHolds, PTL DEF Spec, DayIsNeverForgotten

=============================================================================
