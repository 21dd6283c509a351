--------------------------- MODULE QuoteMonitoring ---------------------------
(***************************************************************************)
(* The quote monitoring loop of src/tse/quote_monitoring.py around the     *)
(* strategy engine, run by the worker thread of the application service    *)
(* and stopped from another thread.                                        *)
(*                                                                         *)
(* One cycle polls a batch of quotes, gives them to on_quote in order and  *)
(* then counts itself a success or a failure; enough failures in a row     *)
(* degrade the loop and block new buys, enough successes lift the block.   *)
(* Assignments of one method that another thread can observe between are   *)
(* separate steps.                                                         *)
(***************************************************************************)
EXTENDS TseService

CONSTANTS consecutive_error_threshold, recovery_success_threshold,
          PollPrices     \* symbol -> the prices a poll of it may return

ASSUME ThresholdAssumption ==
  /\ consecutive_error_threshold \in Nat \ {0}
  /\ recovery_success_threshold \in Nat \ {0}

ASSUME PollPricesAssumption == \A s \in Symbols : PollPrices[s] \subseteq Nat

VARIABLES
  loop_state,            \* "RUNNING", "DEGRADED" or "STOPPED"
  consecutive_errors, consecutive_success,
  worker,                \* where the worker thread is
  batch,                 \* the polled quotes not yet processed
  missing,               \* "none", "some" or "all" symbols of the poll failed
  stopper,               \* where the thread that stops the loop is
  healthy,               \* every poll of the broker succeeds
  recent                 \* history: what the latest cycles of this start missed

counters == <<consecutive_errors, consecutive_success>>
vars == <<tseVars, loop_state, counters, worker, batch, missing, stopper, healthy, recent>>

Workers == {"new", "idle", "entering", "fetching", "processing", "blocking",
            "unblocking", "ended"}

Remembered == IF consecutive_error_threshold > recovery_success_threshold
              THEN consecutive_error_threshold ELSE recovery_success_threshold

Remember(missed) ==
  LET longer == Append(recent, missed)
  IN  IF Len(longer) > Remembered THEN Tail(longer) ELSE longer

stop_requested == stopper # "none"

Init ==
  /\ FreshContext(0)
  /\ loop_state = "STOPPED"
  /\ consecutive_errors = 0 /\ consecutive_success = 0
  /\ worker = "new"
  /\ batch = <<>> /\ missing = "none"
  /\ stopper = "none"
  /\ healthy \in BOOLEAN
  /\ recent = <<>>

-----------------------------------------------------------------------------
(* The worker thread.                                                        *)

\* Faulty variant: the loop gets a state of its own while it starts.
start_unready == /\ loop_state' = "STARTING"
                 /\ consecutive_errors' = 0
                 /\ consecutive_success' = 0
                 /\ recent' = <<>>
                 /\ set_buy_entry_blocked_by_degraded(FALSE)

start == /\ loop_state' = "RUNNING"
         /\ consecutive_errors' = 0
         /\ consecutive_success' = 0
         /\ recent' = <<>>
         /\ set_buy_entry_blocked_by_degraded(FALSE)

WorkerStarts ==
  /\ worker = "new"
  /\ start
  /\ worker' = "idle"
  /\ UNCHANGED <<batch, missing, stopper, healthy>>

\* Faulty variant: the loop condition looks at the loop state, not at the stop event.
CheckStop_by_state ==
  /\ worker = "idle"
  /\ worker' = IF loop_state = "STOPPED" THEN "ended" ELSE "entering"
  /\ UNCHANGED <<tseVars, loop_state, counters, batch, missing, stopper, healthy, recent>>

\* The loop condition: the worker looks at the stop event, then enters run_cycle.
CheckStop ==
  /\ worker = "idle"
  /\ worker' = IF stop_requested THEN "ended" ELSE "entering"
  /\ UNCHANGED <<tseVars, loop_state, counters, batch, missing, stopper, healthy, recent>>

\* run_cycle starts a stopped loop again.
EnterCycle ==
  /\ worker = "entering"
  /\ worker' = "fetching"
  /\ IF loop_state = "STOPPED"
     THEN start
     ELSE UNCHANGED <<tseVars, loop_state, counters, recent>>
  /\ UNCHANGED <<batch, missing, stopper, healthy>>

\* The failure and the success of a cycle.  The counters are only compared with
\* their thresholds, and saturate there.
AtMost(bound, n) == IF n < bound THEN n ELSE bound

\* Faulty variant: successes are counted across a failure.
on_cycle_failure_keeps_successes ==
  /\ UNCHANGED consecutive_success
  /\ consecutive_errors' = AtMost(consecutive_error_threshold, consecutive_errors + 1)
  /\ IF consecutive_errors' >= consecutive_error_threshold
     THEN loop_state' = "DEGRADED" /\ worker' = "blocking"
     ELSE UNCHANGED loop_state /\ worker' = "idle"

on_cycle_failure ==
  /\ consecutive_success' = 0
  /\ consecutive_errors' = AtMost(consecutive_error_threshold, consecutive_errors + 1)
  /\ IF consecutive_errors' >= consecutive_error_threshold
     THEN loop_state' = "DEGRADED" /\ worker' = "blocking"
     ELSE UNCHANGED loop_state /\ worker' = "idle"

\* Faulty variant: the loop recovers and leaves the block in place.
on_cycle_success_still_blocked ==
  /\ consecutive_errors' = 0
  /\ consecutive_success' = AtMost(recovery_success_threshold, consecutive_success + 1)
  /\ loop_state' = IF loop_state = "DEGRADED" /\ consecutive_success' >= recovery_success_threshold
                   THEN "RUNNING" ELSE loop_state
  /\ worker' = "idle"

on_cycle_success ==
  /\ consecutive_errors' = 0
  /\ consecutive_success' = AtMost(recovery_success_threshold, consecutive_success + 1)
  /\ IF loop_state = "DEGRADED" /\ consecutive_success' >= recovery_success_threshold
     THEN loop_state' = "RUNNING" /\ worker' = "unblocking"
     ELSE UNCHANGED loop_state /\ worker' = "idle"

\* fetch_quotes_batch raises: the whole poll is lost.
FetchRaises ==
  /\ worker = "fetching"
  /\ ~healthy
  /\ on_cycle_failure
  /\ recent' = Remember("all")
  /\ UNCHANGED <<tseVars, batch, missing, stopper, healthy>>

\* fetch_quotes_batch_raw polls one symbol after the other and leaves out those that
\* fail: `after[i]` are the answers to the first i polls.
answered(polled) ==
  LET after[i \in 0..Len(WatchSymbols)] ==
        IF i = 0 THEN <<>>
        ELSE IF WatchSymbols[i] \in polled
             THEN Append(after[i - 1], WatchSymbols[i])
             ELSE after[i - 1]
  IN  after[Len(WatchSymbols)]

\* Faulty variant: the places in the answer are counted from one.
resolve_symbol_next(polled, named, i) ==
  IF answered(polled)[i] \in named THEN answered(polled)[i]
  ELSE IF i < Len(WatchSymbols) THEN WatchSymbols[i + 1] ELSE NoSymbol

\* A quote that names no symbol is given to the symbol at its place in the request,
\* which is another one when an earlier symbol was left out.
resolve_symbol(polled, named, i) ==
  IF answered(polled)[i] \in named THEN answered(polled)[i] ELSE WatchSymbols[i]

\* The broker's answers name their symbol or not; `of` (history) is the one polled.
Batches(polled) ==
  {[i \in DOMAIN answered(polled) |->
      [date |-> trading_date, at |-> REFERENCE_CAPTURE_TIME, seq |-> i,
       sym |-> resolve_symbol(polled, named, i), of |-> answered(polled)[i],
       price |-> prices[answered(polled)[i]]]] :
    named \in SUBSET polled,
    prices \in {p \in [polled -> UNION {PollPrices[s] : s \in Symbols}] :
                  \A s \in polled : p[s] \in PollPrices[s]}}

\* The batch is partial when some symbol could not be polled.
FetchReturns(polled) ==
  /\ worker = "fetching"
  /\ healthy => polled = Symbols
  /\ batch' \in Batches(polled)
  /\ missing' = CASE polled = Symbols -> "none"
                  [] polled = {} -> "all"
                  [] OTHER -> "some"
  /\ worker' = "processing"
  /\ UNCHANGED <<tseVars, loop_state, counters, stopper, healthy, recent>>

ProcessQuote ==
  /\ worker = "processing"
  /\ batch # <<>>
  /\ on_quote(Head(batch))
  /\ batch' = Tail(batch)
  /\ UNCHANGED <<loop_state, counters, worker, missing, stopper, healthy, recent>>

\* A batch that misses any symbol counts as a failed cycle.
EndCycle ==
  /\ worker = "processing"
  /\ batch = <<>>
  /\ IF missing = "none" THEN on_cycle_success ELSE on_cycle_failure
  /\ recent' = Remember(missing)
  /\ missing' = "none"
  /\ UNCHANGED <<tseVars, batch, stopper, healthy>>

SetBlock ==
  /\ worker \in {"blocking", "unblocking"}
  /\ set_buy_entry_blocked_by_degraded(worker = "blocking")
  /\ worker' = "idle"
  /\ UNCHANGED <<loop_state, counters, batch, missing, stopper, healthy, recent>>

-----------------------------------------------------------------------------
(* The thread that stops the loop: sets the stop event, waits for the worker *)
(* for a limited time only, then calls stop.                                 *)

RequestStop ==
  /\ stopper = "none"
  /\ stopper' = "stopping"
  /\ UNCHANGED <<tseVars, loop_state, counters, worker, batch, missing, healthy, recent>>

StopLoop ==
  /\ stopper = "stopping"
  /\ stopper' = "unblocking"
  /\ loop_state' = "STOPPED"
  /\ UNCHANGED <<tseVars, counters, worker, batch, missing, healthy, recent>>

StopUnblocks ==
  /\ stopper = "unblocking"
  /\ stopper' = "done"
  /\ set_buy_entry_blocked_by_degraded(FALSE)
  /\ UNCHANGED <<loop_state, counters, worker, batch, missing, healthy, recent>>

\* External: the broker's quote service fails and heals at any time.
FeedChanges ==
  /\ healthy' = ~healthy
  /\ UNCHANGED <<tseVars, loop_state, counters, worker, batch, missing, stopper, recent>>

Fetch == FetchRaises \/ \E polled \in SUBSET Symbols : FetchReturns(polled)

WorkerStep ==
  \/ WorkerStarts \/ CheckStop \/ EnterCycle \/ Fetch \/ ProcessQuote
  \/ EndCycle \/ SetBlock

StopperStep == RequestStop \/ StopLoop \/ StopUnblocks

Next == WorkerStep \/ StopperStep \/ FeedChanges

Spec == Init /\ [][Next]_vars

\* The worker thread keeps running: every call it makes ends, polls by timeout.
FairSpec == Spec /\ WF_vars(WorkerStep) /\ WF_vars(StopLoop \/ StopUnblocks)

-----------------------------------------------------------------------------
(* Types.                                                                    *)

TypeOK ==
  /\ state \in [Symbols -> SymbolStates]
  /\ loop_state \in {"RUNNING", "DEGRADED", "STOPPED"}
  /\ consecutive_errors \in 0..consecutive_error_threshold
  /\ consecutive_success \in 0..recovery_success_threshold
  /\ worker \in Workers
  /\ Len(batch) <= Cardinality(Symbols)
  /\ missing \in {"none", "some", "all"}
  /\ stopper \in {"none", "stopping", "unblocking", "done"}
  /\ healthy \in BOOLEAN
  /\ Len(recent) <= Remembered

-----------------------------------------------------------------------------
(* Safety.                                                                   *)

LastAre(seq, n, kinds) ==
  Len(seq) >= n /\ \A i \in (Len(seq) - n + 1)..Len(seq) : seq[i] \in kinds

(* The loop is exactly as degraded as the history of its cycles says: a      *)
(* cycle that completes a run of failed cycles degrades it, one that         *)
(* completes a run of successes restores it, any other leaves it alone       *)
(* (the counters of _on_cycle_failure and _on_cycle_success).                *)
HysteresisFollowsHistory ==
  [][(worker \in {"fetching", "processing"} /\ worker' \notin {worker, "processing"}) =>
       loop_state' =
         CASE LastAre(recent', consecutive_error_threshold, {"some", "all"}) -> "DEGRADED"
           [] LastAre(recent', recovery_success_threshold, {"none"})
                /\ loop_state = "DEGRADED" -> "RUNNING"
           [] OTHER -> loop_state]_vars

(* Between cycles, as long as nobody stops the loop, new buys are blocked    *)
(* exactly while it is degraded.                                             *)
BlockedIffDegraded ==
  worker = "idle" /\ ~stop_requested =>
    (buy_entry_blocked_by_degraded <=> loop_state = "DEGRADED")

(* A quote whose answer names no symbol keeps its own one as long as every   *)
(* symbol was polled; in a partial batch it can only go to a symbol watched  *)
(* before its own (fetch_quotes_batch, which takes the symbol by its place). *)
QuotesKeepTheirSymbols ==
  \A i \in DOMAIN batch :
    \/ batch[i].sym = batch[i].of
    \/ /\ missing = "some"
       /\ batch[i].sym \in Symbols
       /\ watch_rank(batch[i].sym) < watch_rank(batch[i].of)

(* No BUY comes out of a quote while the last cycles all failed and the loop *)
(* was not stopped, LLD-TSE 1.1: a degraded feed buys nothing.               *)
NoBuyFromFailingFeed ==
  [][(command_sequence' > command_sequence /\ ~stop_requested) =>
       ~LastAre(recent, consecutive_error_threshold, {"some", "all"})]_vars

(* HLD 6.2: once the quote service stays healthy, buying is allowed again    *)
(* for good, unless the loop is stopped first.                               *)
HealthyFeedUnblocks ==
  <>[]healthy => <>[](stop_requested \/ ~buy_entry_blocked_by_degraded)

(* A requested stop ends the worker, even when it arrives between the check  *)
(* of the stop event and run_cycle, which then starts the loop again.        *)
StopEndsTheWorker == stop_requested ~> worker = "ended"

=============================================================================
