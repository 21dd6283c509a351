------------------------ MODULE QuoteMonitoringProofs ------------------------
(***************************************************************************)
(* What holds of the quote monitoring loop for every watch list, all       *)
(* prices and all thresholds.                                              *)
(***************************************************************************)
EXTENDS QuoteMonitoring, TseServiceProofs, SumTheorems

Loop == {"RUNNING", "DEGRADED", "STOPPED"}

-----------------------------------------------------------------------------
(* The block and the state of the loop.  Until the loop is stopped they      *)
(* agree wherever the worker is, but between the change of the state and the *)
(* call that sets or lifts the block.                                        *)

InCycle == {"idle", "entering", "fetching", "processing"}

BlockInv ==
  /\ buy_entry_blocked_by_degraded \in BOOLEAN
  /\ loop_state \in Loop
  /\ worker \in Workers
  /\ ~stop_requested =>
       /\ worker \in InCycle =>
            (buy_entry_blocked_by_degraded <=> loop_state = "DEGRADED")
       /\ worker = "blocking" => loop_state = "DEGRADED"
       /\ worker = "unblocking" => loop_state = "RUNNING"

LEMMA InitBlockInv == Init => BlockInv
  BY DEF Init, FreshContext, BlockInv, Loop, Workers, InCycle

LEMMA NextBlockInv == BlockInv /\ [Next]_vars => BlockInv'
<1> SUFFICES ASSUME BlockInv, [Next]_vars
             PROVE  BlockInv'
  OBVIOUS
<1> USE DEF BlockInv, Loop, Workers, InCycle, stop_requested
<1>1. CASE WorkerStarts
  BY <1>1 DEF WorkerStarts, start, set_buy_entry_blocked_by_degraded
<1>2. CASE CheckStop
  BY <1>2 DEF CheckStop, tseVars
<1>3. CASE EnterCycle
  BY <1>3 DEF EnterCycle, start, set_buy_entry_blocked_by_degraded, tseVars
<1>4. CASE FetchRaises
  BY <1>4 DEF FetchRaises, on_cycle_failure, tseVars
<1>5. ASSUME NEW polled \in SUBSET Symbols, FetchReturns(polled)
      PROVE  BlockInv'
  BY <1>5 DEF FetchReturns, tseVars
<1>6. CASE ProcessQuote
  <2>1. UNCHANGED buy_entry_blocked_by_degraded
    BY <1>6, BlockedQuoteBuysNothing DEF ProcessQuote
  <2> QED BY <2>1, <1>6 DEF ProcessQuote
<1>7. CASE EndCycle
  BY <1>7 DEF EndCycle, on_cycle_failure, on_cycle_success, tseVars
<1>8. CASE SetBlock
  BY <1>8 DEF SetBlock, set_buy_entry_blocked_by_degraded
<1>9. CASE RequestStop
  BY <1>9 DEF RequestStop, tseVars
<1>10. CASE StopLoop
  BY <1>10 DEF StopLoop, tseVars
<1>11. CASE StopUnblocks
  BY <1>11 DEF StopUnblocks, set_buy_entry_blocked_by_degraded
<1>12. CASE FeedChanges
  BY <1>12 DEF FeedChanges, tseVars
<1>13. CASE UNCHANGED vars
  BY <1>13 DEF vars, tseVars
<1> QED BY <1>1, <1>2, <1>3, <1>4, <1>5, <1>6, <1>7, <1>8, <1>9, <1>10, <1>11,
           <1>12, <1>13 DEF Next, WorkerStep, StopperStep, Fetch

LEMMA BlockHolds == Spec => []BlockInv
  BY InitBlockInv, NextBlockInv, PTL DEF Spec

(* Between cycles buying is blocked exactly while the loop is degraded, for  *)
(* any thresholds and any watch list (_on_cycle_failure, _on_cycle_success). *)
THEOREM BlockFollowsLoop == Spec => []BlockedIffDegraded
<1>1. BlockInv => BlockedIffDegraded
  BY DEF BlockInv, BlockedIffDegraded, InCycle
<1> QED BY <1>1, BlockHolds, PTL

-----------------------------------------------------------------------------
(* The counters and the history.  Each counter, which saturates at its       *)
(* threshold, is the length of the run of failed or successful cycles at the *)
(* end of the history.                                                       *)

Misses == {"none", "some", "all"}
Failed == {"some", "all"}
Succeeded == {"none"}

LEMMA RememberedType ==
  /\ Remembered \in Nat
  /\ consecutive_error_threshold \in Nat \ {0}
  /\ recovery_success_threshold \in Nat \ {0}
  /\ Remembered >= consecutive_error_threshold
  /\ Remembered >= recovery_success_threshold
  BY ThresholdAssumption DEF Remembered

(* What remembering a cycle does to the runs at the end of the history.      *)
LEMMA RememberExtendsRuns ==
  ASSUME recent \in Seq(Misses), Len(recent) <= Remembered, NEW missed \in Misses
  PROVE  /\ Remember(missed) \in Seq(Misses)
         /\ Len(Remember(missed)) <= Remembered
         /\ \A kinds : \A n \in 1..Remembered :
              LastAre(Remember(missed), n, kinds) <=>
                missed \in kinds /\ (n = 1 \/ LastAre(recent, n - 1, kinds))
<1> DEFINE longer == Append(recent, missed)
           next == Remember(missed)
           cut == IF Len(longer) > Remembered THEN 1 ELSE 0
<1>0. Remembered \in Nat \ {0}
  BY RememberedType
<1>1. /\ longer \in Seq(Misses)
      /\ Len(longer) = Len(recent) + 1
      /\ Len(recent) \in Nat
      /\ longer[Len(longer)] = missed
      /\ \A i \in 1..Len(recent) : longer[i] = recent[i]
  OBVIOUS
<1>2. /\ next \in Seq(Misses)
      /\ cut \in {0, 1}
      /\ Len(next) = Len(longer) - cut
      /\ \A i \in 1..Len(next) : next[i] = longer[i + cut]
  BY <1>0, <1>1 DEF Remember
<1>3. Len(next) <= Remembered /\ Len(next) \in Nat
  BY <1>0, <1>1, <1>2
<1>4. Len(next) \in {Len(recent), Len(recent) + 1} /\ (Len(next) = Len(recent) => Len(next) = Remembered)
  BY <1>0, <1>1, <1>2
<1>5. next[Len(next)] = missed
  BY <1>0, <1>1, <1>2, <1>4
<1>6. ASSUME NEW kinds, NEW n \in 1..Remembered
      PROVE  LastAre(next, n, kinds) <=>
               missed \in kinds /\ (n = 1 \/ LastAre(recent, n - 1, kinds))
  <2>1. Len(next) >= n <=> Len(recent) >= n - 1
    BY <1>0, <1>1, <1>2, <1>4
  <2>2. ASSUME Len(next) >= n
        PROVE  \A j \in (Len(next) - n + 1)..(Len(next) - 1) :
                 /\ j + cut \in (Len(recent) - (n - 1) + 1)..Len(recent)
                 /\ next[j] = recent[j + cut]
    <3> TAKE j \in (Len(next) - n + 1)..(Len(next) - 1)
    <3>1. j \in 1..Len(next) /\ j + cut \in (Len(recent) - (n - 1) + 1)..Len(recent)
      BY <2>2, <1>0, <1>1, <1>2, <1>3
    <3>2. j + cut \in 1..Len(recent)
      BY <3>1, <1>1, <1>2, <2>1, <2>2
    <3> HIDE DEF longer, next, cut
    <3> QED BY <3>1, <3>2, <1>1, <1>2
  <2>3. ASSUME Len(next) >= n
        PROVE  \A i \in (Len(recent) - (n - 1) + 1)..Len(recent) :
                 /\ i - cut \in (Len(next) - n + 1)..(Len(next) - 1)
                 /\ next[i - cut] = recent[i]
    BY <2>3, <1>0, <1>1, <1>2, <1>4
  <2>4. ASSUME LastAre(next, n, kinds)
        PROVE  missed \in kinds /\ (n = 1 \/ LastAre(recent, n - 1, kinds))
    <3>1. missed \in kinds
      BY <2>4, <1>3, <1>5 DEF LastAre
    <3>2. Len(recent) >= n - 1
      BY <2>4, <2>1 DEF LastAre
    <3>3. \A i \in (Len(recent) - (n - 1) + 1)..Len(recent) : recent[i] \in kinds
      <4> TAKE i \in (Len(recent) - (n - 1) + 1)..Len(recent)
      <4>1. /\ i - cut \in (Len(next) - n + 1)..(Len(next) - 1)
            /\ next[i - cut] = recent[i]
        BY <2>4, <2>3 DEF LastAre
      <4>2. i - cut \in (Len(next) - n + 1)..Len(next)
        BY <4>1, <1>3
      <4> HIDE DEF longer, next, cut
      <4> QED BY <4>1, <4>2, <2>4 DEF LastAre
    <3>4. n = 1 \/ LastAre(recent, n - 1, kinds)
      BY <3>2, <3>3 DEF LastAre
    <3> QED BY <3>1, <3>4
  <2>5. ASSUME missed \in kinds, n = 1 \/ LastAre(recent, n - 1, kinds)
        PROVE  LastAre(next, n, kinds)
    <3>1. Len(next) >= n
      BY <2>5, <2>1, <1>1 DEF LastAre
    <3>2. \A j \in (Len(next) - n + 1)..(Len(next) - 1) : next[j] \in kinds
      BY <2>5, <2>2, <3>1, <1>1, <1>2, <1>3 DEF LastAre
    <3> QED BY <3>1, <3>2, <2>5, <1>5, <1>3 DEF LastAre
  <2> QED BY <2>4, <2>5
<1> QED BY <1>2, <1>3, <1>6

HistoryInv ==
  /\ recent \in Seq(Misses)
  /\ Len(recent) <= Remembered
  /\ missing \in Misses
  /\ command_sequence \in Nat
  /\ consecutive_errors \in 0..consecutive_error_threshold
  /\ consecutive_success \in 0..recovery_success_threshold
  /\ \A n \in 1..consecutive_error_threshold :
       LastAre(recent, n, Failed) <=> consecutive_errors >= n
  /\ \A n \in 1..recovery_success_threshold :
       LastAre(recent, n, Succeeded) <=> consecutive_success >= n
  /\ ~stop_requested /\ consecutive_errors >= consecutive_error_threshold =>
       loop_state = "DEGRADED"

(* The history and the counters of a loop that starts.                       *)
LEMMA EmptyHistory ==
  /\ <<>> \in Seq(Misses)
  /\ Len(<<>>) <= Remembered
  /\ \A kinds : \A n \in Nat \ {0} : ~LastAre(<<>>, n, kinds)
<1>1. <<>> \in Seq(Misses) /\ Len(<<>>) = 0
  OBVIOUS
<1> QED BY <1>1, RememberedType DEF LastAre

LEMMA InitHistoryInv == Init => HistoryInv
<1> SUFFICES ASSUME Init PROVE HistoryInv
  OBVIOUS
<1>1. /\ recent = <<>> /\ missing = "none" /\ command_sequence = 0
      /\ consecutive_errors = 0 /\ consecutive_success = 0
  BY DEF Init, FreshContext
<1> QED BY <1>1, EmptyHistory, RememberedType DEF HistoryInv, Misses

LEMMA StartHistoryInv == ASSUME HistoryInv, start, UNCHANGED missing PROVE HistoryInv'
<1>1. /\ recent' = <<>> /\ missing' = missing /\ command_sequence' = command_sequence
      /\ consecutive_errors' = 0 /\ consecutive_success' = 0
  BY DEF start, set_buy_entry_blocked_by_degraded
<1>2. missing' \in Misses /\ command_sequence' \in Nat
  BY <1>1 DEF HistoryInv
<1> QED BY <1>1, <1>2, EmptyHistory, RememberedType DEF HistoryInv

(* The end of a cycle counts it and adds it to the history.                  *)
LEMMA FailureHistoryInv ==
  ASSUME HistoryInv, on_cycle_failure, NEW missed \in Failed, recent' = Remember(missed),
         missing' \in Misses, UNCHANGED <<command_sequence, stopper>>
  PROVE  HistoryInv'
<1> USE DEF HistoryInv, on_cycle_failure, stop_requested
<1>1. missed \in Misses /\ missed \in Failed /\ missed \notin Succeeded
  BY DEF Misses, Failed, Succeeded
<1>2. /\ recent' \in Seq(Misses)
      /\ Len(recent') <= Remembered
      /\ \A kinds : \A n \in 1..Remembered :
           LastAre(recent', n, kinds) <=>
             missed \in kinds /\ (n = 1 \/ LastAre(recent, n - 1, kinds))
  BY <1>1, RememberExtendsRuns
<1>3. /\ consecutive_errors' \in 0..consecutive_error_threshold
      /\ consecutive_errors' = IF consecutive_errors + 1 < consecutive_error_threshold
                               THEN consecutive_errors + 1
                               ELSE consecutive_error_threshold
      /\ consecutive_success' \in 0..recovery_success_threshold
      /\ consecutive_success' = 0
  BY RememberedType DEF AtMost
<1>4. \A n \in 1..consecutive_error_threshold :
        LastAre(recent', n, Failed) <=> consecutive_errors' >= n
  <2> TAKE n \in 1..consecutive_error_threshold
  <2>1. LastAre(recent', n, Failed) <=> n = 1 \/ LastAre(recent, n - 1, Failed)
    BY <1>1, <1>2, RememberedType
  <2>2. n # 1 => (LastAre(recent, n - 1, Failed) <=> consecutive_errors >= n - 1)
    BY RememberedType
  <2> QED BY <2>1, <2>2, <1>3, RememberedType
<1>5. \A n \in 1..recovery_success_threshold :
        LastAre(recent', n, Succeeded) <=> consecutive_success' >= n
  BY <1>1, <1>2, <1>3, RememberedType
<1>6. consecutive_errors' >= consecutive_error_threshold => loop_state' = "DEGRADED"
  OBVIOUS
<1> QED BY <1>2, <1>3, <1>4, <1>5, <1>6

LEMMA SuccessHistoryInv ==
  ASSUME HistoryInv, on_cycle_success, recent' = Remember("none"),
         missing' \in Misses, UNCHANGED <<command_sequence, stopper>>
  PROVE  HistoryInv'
<1> USE DEF HistoryInv, on_cycle_success, stop_requested
<1>1. "none" \in Misses /\ "none" \in Succeeded /\ "none" \notin Failed
  BY DEF Misses, Failed, Succeeded
<1>2. /\ recent' \in Seq(Misses)
      /\ Len(recent') <= Remembered
      /\ \A kinds : \A n \in 1..Remembered :
           LastAre(recent', n, kinds) <=>
             "none" \in kinds /\ (n = 1 \/ LastAre(recent, n - 1, kinds))
  BY <1>1, RememberExtendsRuns
<1>3. /\ consecutive_success' \in 0..recovery_success_threshold
      /\ consecutive_success' = IF consecutive_success + 1 < recovery_success_threshold
                                THEN consecutive_success + 1
                                ELSE recovery_success_threshold
      /\ consecutive_errors' \in 0..consecutive_error_threshold
      /\ consecutive_errors' = 0
  BY RememberedType DEF AtMost
<1>4. \A n \in 1..recovery_success_threshold :
        LastAre(recent', n, Succeeded) <=> consecutive_success' >= n
  <2> TAKE n \in 1..recovery_success_threshold
  <2>1. LastAre(recent', n, Succeeded) <=> n = 1 \/ LastAre(recent, n - 1, Succeeded)
    BY <1>1, <1>2, RememberedType
  <2>2. n # 1 => (LastAre(recent, n - 1, Succeeded) <=> consecutive_success >= n - 1)
    BY RememberedType
  <2> QED BY <2>1, <2>2, <1>3, RememberedType
<1>5. \A n \in 1..consecutive_error_threshold :
        LastAre(recent', n, Failed) <=> consecutive_errors' >= n
  BY <1>1, <1>2, <1>3, RememberedType
<1>6. ~(consecutive_errors' >= consecutive_error_threshold)
  BY <1>3, RememberedType
<1> QED BY <1>2, <1>3, <1>4, <1>5, <1>6

LEMMA NextHistoryInv == HistoryInv /\ [Next]_vars => HistoryInv'
<1> SUFFICES ASSUME HistoryInv, [Next]_vars
             PROVE  HistoryInv'
  OBVIOUS
<1> DEFINE Same == UNCHANGED <<recent, missing, command_sequence, consecutive_errors,
                               consecutive_success>>
<1>0. ASSUME Same, stop_requested' \/ (UNCHANGED stopper /\ UNCHANGED loop_state)
      PROVE  HistoryInv'
  BY <1>0 DEF HistoryInv, stop_requested
<1>1. CASE WorkerStarts
  BY <1>1, StartHistoryInv DEF WorkerStarts
<1>2. CASE CheckStop
  BY <1>2, <1>0 DEF CheckStop, tseVars, counters
<1>3. CASE EnterCycle
  BY <1>3, <1>0, StartHistoryInv DEF EnterCycle, tseVars, counters
<1>4. CASE FetchRaises
  <2>1. "all" \in Failed
    BY DEF Failed
  <2> QED BY <1>4, <2>1, FailureHistoryInv DEF FetchRaises, HistoryInv, tseVars
<1>5. ASSUME NEW polled \in SUBSET Symbols, FetchReturns(polled)
      PROVE  HistoryInv'
  <2>1. missing' \in Misses
    BY <1>5 DEF FetchReturns, Misses
  <2>2. UNCHANGED <<recent, command_sequence, consecutive_errors, consecutive_success,
                    loop_state, stopper>>
    BY <1>5 DEF FetchReturns, tseVars, counters
  <2> QED BY <2>1, <2>2 DEF HistoryInv, stop_requested
<1>6. CASE ProcessQuote
  <2>1. command_sequence' \in {command_sequence, command_sequence + 1}
    BY <1>6, BlockedQuoteBuysNothing DEF ProcessQuote
  <2>2. UNCHANGED <<recent, missing, consecutive_errors, consecutive_success,
                    loop_state, stopper>>
    BY <1>6 DEF ProcessQuote, counters
  <2> QED BY <2>1, <2>2 DEF HistoryInv, stop_requested
<1>7. CASE EndCycle
  <2>1. missing' \in Misses /\ missing \in Misses
    BY <1>7 DEF EndCycle, HistoryInv, Misses
  <2>2. missing # "none" => missing \in Failed
    BY <2>1 DEF Misses, Failed
  <2>3. UNCHANGED <<command_sequence, stopper>>
    BY <1>7 DEF EndCycle, tseVars
  <2> QED BY <1>7, <2>1, <2>2, <2>3, FailureHistoryInv, SuccessHistoryInv DEF EndCycle
<1>8. CASE SetBlock
  BY <1>8, <1>0 DEF SetBlock, set_buy_entry_blocked_by_degraded, counters
<1>9. CASE RequestStop
  BY <1>9, <1>0 DEF RequestStop, tseVars, counters, stop_requested
<1>10. CASE StopLoop
  BY <1>10, <1>0 DEF StopLoop, tseVars, counters, stop_requested
<1>11. CASE StopUnblocks
  BY <1>11, <1>0 DEF StopUnblocks, set_buy_entry_blocked_by_degraded, counters,
                     stop_requested
<1>12. CASE FeedChanges
  BY <1>12, <1>0 DEF FeedChanges, tseVars, counters
<1>13. CASE UNCHANGED vars
  BY <1>13, <1>0 DEF vars, tseVars, counters
<1> QED BY <1>1, <1>2, <1>3, <1>4, <1>5, <1>6, <1>7, <1>8, <1>9, <1>10, <1>11,
           <1>12, <1>13 DEF Next, WorkerStep, StopperStep, Fetch

LEMMA HistoryHolds == Spec => []HistoryInv
  BY InitHistoryInv, NextHistoryInv, PTL DEF Spec

-----------------------------------------------------------------------------
(* What the loop promises of its history.                                    *)

(* Only a quote issues a command.                                            *)
LEMMA OnlyQuotesBuy ==
  ASSUME HistoryInv, [Next]_vars, ~ProcessQuote PROVE UNCHANGED command_sequence
<1> USE DEF tseVars, start, set_buy_entry_blocked_by_degraded
<1>1. CASE WorkerStarts \/ EnterCycle \/ SetBlock \/ StopUnblocks
  BY <1>1 DEF WorkerStarts, EnterCycle, SetBlock, StopUnblocks
<1>2. CASE CheckStop \/ RequestStop \/ StopLoop \/ FeedChanges \/ UNCHANGED vars
  BY <1>2 DEF CheckStop, RequestStop, StopLoop, FeedChanges, vars
<1>3. CASE Fetch \/ EndCycle
  BY <1>3 DEF Fetch, FetchRaises, FetchReturns, EndCycle
<1> QED BY <1>1, <1>2, <1>3 DEF Next, WorkerStep, StopperStep

(* As long as nobody stops the loop, no command comes out of a quote after a *)
(* run of failed cycles, whatever the thresholds (_on_cycle_failure and the  *)
(* guard of on_quote).                                                       *)
THEOREM FailingFeedBuysNothing == Spec => NoBuyFromFailingFeed
<1>1. ASSUME BlockInv, HistoryInv, [Next]_vars,
             command_sequence' > command_sequence, ~stop_requested
      PROVE  ~LastAre(recent, consecutive_error_threshold, Failed)
  <2> SUFFICES ASSUME LastAre(recent, consecutive_error_threshold, Failed) PROVE FALSE
    OBVIOUS
  <2>1. UNCHANGED command_sequence => FALSE
    BY <1>1 DEF HistoryInv
  <2>2. ProcessQuote
    BY <2>1, <1>1, OnlyQuotesBuy
  <2>3. consecutive_errors >= consecutive_error_threshold
    BY <1>1, RememberedType DEF HistoryInv
  <2>4. loop_state = "DEGRADED"
    BY <2>3, <1>1 DEF HistoryInv
  <2>5. buy_entry_blocked_by_degraded
    BY <2>2, <2>4, <1>1 DEF BlockInv, InCycle, ProcessQuote
  <2> QED BY <2>1, <2>2, <2>5, BlockedQuoteBuysNothing DEF ProcessQuote
<1>2. BlockInv /\ HistoryInv /\ [Next]_vars =>
        [(command_sequence' > command_sequence /\ ~stop_requested) =>
           ~LastAre(recent, consecutive_error_threshold, {"some", "all"})]_vars
  BY <1>1 DEF Failed
<1> QED BY <1>2, BlockHolds, HistoryHolds, PTL DEF Spec, NoBuyFromFailingFeed

(* A cycle that ends leaves the loop exactly as degraded as the history says *)
(* (_on_cycle_failure, _on_cycle_success), whatever the thresholds.          *)
THEOREM HistoryDecides == Spec => HysteresisFollowsHistory
<1> DEFINE Ends == worker \in {"fetching", "processing"} /\ worker' \notin {worker, "processing"}
           failing == LastAre(recent', consecutive_error_threshold, Failed)
           healed == LastAre(recent', recovery_success_threshold, Succeeded)
<1>1. ASSUME HistoryInv, HistoryInv', [Next]_vars, Ends
      PROVE  /\ ~(failing /\ healed)
             /\ failing => loop_state' = "DEGRADED"
             /\ ~failing /\ healed /\ loop_state = "DEGRADED" => loop_state' = "RUNNING"
             /\ ~failing /\ ~(healed /\ loop_state = "DEGRADED") => loop_state' = loop_state
  <2>1. /\ failing <=> consecutive_errors' >= consecutive_error_threshold
        /\ healed <=> consecutive_success' >= recovery_success_threshold
    BY <1>1, RememberedType DEF HistoryInv
  <2>2. ASSUME on_cycle_failure
        PROVE  /\ ~healed
               /\ failing => loop_state' = "DEGRADED"
               /\ ~failing => loop_state' = loop_state
    BY <2>1, <2>2, RememberedType DEF on_cycle_failure
  <2>3. ASSUME on_cycle_success
        PROVE  /\ ~failing
               /\ healed /\ loop_state = "DEGRADED" => loop_state' = "RUNNING"
               /\ ~(healed /\ loop_state = "DEGRADED") => loop_state' = loop_state
    BY <2>1, <2>3, RememberedType DEF on_cycle_success
  <2>4. on_cycle_failure \/ on_cycle_success
    <3>1. FetchRaises \/ EndCycle
      BY <1>1 DEF Next, WorkerStep, StopperStep, Fetch, WorkerStarts, CheckStop, EnterCycle,
                  FetchReturns, ProcessQuote, SetBlock, RequestStop, StopLoop, StopUnblocks,
                  FeedChanges, vars
    <3> QED BY <3>1 DEF FetchRaises, EndCycle
  <2> QED BY <2>2, <2>3, <2>4
<1>2. ASSUME HistoryInv, HistoryInv', [Next]_vars, Ends
      PROVE  loop_state' =
               CASE LastAre(recent', consecutive_error_threshold, {"some", "all"}) -> "DEGRADED"
                 [] LastAre(recent', recovery_success_threshold, {"none"})
                      /\ loop_state = "DEGRADED" -> "RUNNING"
                 [] OTHER -> loop_state
  BY <1>1, <1>2 DEF Failed, Succeeded
<1>3. HistoryInv /\ HistoryInv' /\ [Next]_vars =>
        [(worker \in {"fetching", "processing"} /\ worker' \notin {worker, "processing"}) =>
           loop_state' =
             CASE LastAre(recent', consecutive_error_threshold, {"some", "all"}) -> "DEGRADED"
               [] LastAre(recent', recovery_success_threshold, {"none"})
                    /\ loop_state = "DEGRADED" -> "RUNNING"
               [] OTHER -> loop_state]_vars
  BY <1>2
<1> QED BY <1>3, HistoryHolds, PTL DEF Spec, HysteresisFollowsHistory

-----------------------------------------------------------------------------
(* The answers to a poll, symbol by symbol.                                  *)

Polls == Len(WatchSymbols)

AnswerStep(polled, g, i) ==
  IF i = 0 THEN <<>>
  ELSE IF WatchSymbols[i] \in polled THEN Append(g[i - 1], WatchSymbols[i]) ELSE g[i - 1]

AnswersUp(g, polled) == g = [i \in 0..Polls |-> AnswerStep(polled, g, i)]

LEMMA AnswerDefinition ==
  ASSUME NEW polled
  PROVE  answered(polled) = (CHOOSE g : AnswersUp(g, polled))[Polls]
  BY Zenon DEF answered, AnswersUp, AnswerStep, Polls

LEMMA WatchList ==
  /\ Polls \in 1..20
  /\ DOMAIN WatchSymbols = 1..Polls
  /\ \A i \in 1..Polls : WatchSymbols[i] \in Symbols
  /\ \A i \in 1..Polls : watch_rank(WatchSymbols[i]) = i
<1>1. WatchSymbols \in Seq({WatchSymbols[i] : i \in DOMAIN WatchSymbols})
  BY WatchListAssumption
<1>2. DOMAIN WatchSymbols = 1..Polls /\ Polls \in 1..20
  BY <1>1, WatchListAssumption DEF Polls
<1>3. \A i \in 1..Polls : WatchSymbols[i] \in Symbols
  BY <1>2 DEF Symbols
<1>4. ASSUME NEW i \in 1..Polls PROVE watch_rank(WatchSymbols[i]) = i
  <2>1. watch_rank(WatchSymbols[i]) \in DOMAIN WatchSymbols
    BY <1>3, RankType
  <2>2. WatchSymbols[watch_rank(WatchSymbols[i])] = WatchSymbols[i]
    BY <1>2 DEF watch_rank
  <2> QED BY <2>1, <2>2, <1>2, WatchListAssumption
<1> QED BY <1>2, <1>3, <1>4

(* As many symbols are watched as the list is long.                          *)
LEMMA WatchedOnce == Cardinality(Symbols) = Polls
<1> DEFINE f == [i \in 1..Polls |-> WatchSymbols[i]]
<1>1. f \in Bijection(1..Polls, Symbols)
  <2>1. f \in [1..Polls -> Symbols]
    BY WatchList
  <2>2. \A i, j \in 1..Polls : f[i] = f[j] => i = j
    BY WatchList, WatchListAssumption
  <2>3. \A s \in Symbols : \E i \in 1..Polls : f[i] = s
    BY WatchList DEF Symbols
  <2> QED BY <2>1, <2>2, <2>3 DEF Bijection, Injection, Surjection, IsInjective
<1>2. ExistsBijection(1..Polls, Symbols)
  BY <1>1 DEF ExistsBijection
<1> QED BY <1>2, WatchList, FS_CountingElements

(* One set of answers exists: the loop computes it poll by poll.             *)
LEMMA AnswersExist ==
  ASSUME NEW polled PROVE \E g : AnswersUp(g, polled)
<1> DEFINE Upto(g, n) == \A i \in 0..Polls : i <= n => g[i] = AnswerStep(polled, g, i)
           Partial(n) == \E g : g = [i \in 0..Polls |-> g[i]] /\ Upto(g, n)
           Fail == {n \in Nat : ~Partial(n)}
<1>1. Partial(0)
  <2> DEFINE g == [i \in 0..Polls |-> <<>>]
  <2>1. ASSUME NEW i \in 0..Polls, i <= 0 PROVE g[i] = AnswerStep(polled, g, i)
    BY <2>1, WatchList DEF AnswerStep
  <2> QED BY <2>1
<1>2. ASSUME NEW n \in Nat, Partial(n) PROVE Partial(n + 1)
  <2>1. PICK g : g = [i \in 0..Polls |-> g[i]] /\ Upto(g, n)
    BY <1>2
  <2> DEFINE h == [i \in 0..Polls |-> IF i <= n THEN g[i] ELSE AnswerStep(polled, g, i)]
  <2>2. ASSUME NEW i \in 0..Polls, i <= n + 1 PROVE h[i] = AnswerStep(polled, h, i)
    <3>1. i # 0 => i - 1 \in 0..Polls /\ i - 1 <= n
      BY <2>2, WatchList
    <3>2. i # 0 => h[i - 1] = g[i - 1]
      BY <3>1
    <3>3. AnswerStep(polled, h, i) = AnswerStep(polled, g, i)
      BY <3>2 DEF AnswerStep
    <3>4. h[i] = AnswerStep(polled, g, i)
      BY <2>1
    <3> QED BY <3>3, <3>4
  <2>3. h = [i \in 0..Polls |-> h[i]] /\ Upto(h, n + 1)
    BY <2>2
  <2> HIDE DEF h
  <2> QED BY <2>3
<1> HIDE DEF Partial
<1>3. Fail = {}
  <2> SUFFICES ASSUME Fail # {} PROVE FALSE
    OBVIOUS
  <2>1. PICK n \in Fail : \A m \in Fail : n <= m
    BY LeastNatural
  <2>2. n \in Nat /\ ~Partial(n)
    OBVIOUS
  <2>3. n # 0
    BY <1>1, <2>2
  <2>4. n - 1 \in Nat /\ n - 1 \notin Fail
    BY <2>1, <2>2, <2>3
  <2>5. Partial((n - 1) + 1)
    BY <1>2, <2>4
  <2>6. (n - 1) + 1 = n
    BY <2>2
  <2> QED BY <2>2, <2>5, <2>6
<1>4. Partial(Polls)
  BY <1>3, WatchList
<1>5. PICK g : g = [i \in 0..Polls |-> g[i]] /\ Upto(g, Polls)
  BY <1>4 DEF Partial
<1>6. \A i \in 0..Polls : g[i] = AnswerStep(polled, g, i)
  BY <1>5, WatchList
<1> QED BY <1>5, <1>6 DEF AnswersUp

(* The answers name polled symbols in the order of the watch list: the one   *)
(* at place i was watched at place i or later, and at i if all were polled.  *)
LEMMA AnswersKeepTheOrder ==
  ASSUME NEW polled \in SUBSET Symbols
  PROVE  /\ answered(polled) \in Seq(polled)
         /\ Len(answered(polled)) <= Polls
         /\ \A i \in 1..Len(answered(polled)) :
              \E k \in i..Polls : answered(polled)[i] = WatchSymbols[k]
         /\ polled = Symbols => answered(polled) = WatchSymbols
<1>1. PICK g : AnswersUp(g, polled) /\ answered(polled) = g[Polls]
  BY AnswersExist, AnswerDefinition, Zenon
<1> DEFINE Good(i) == /\ g[i] \in Seq(polled)
                      /\ Len(g[i]) <= i
                      /\ \A j \in 1..Len(g[i]) : \E k \in j..i : g[i][j] = WatchSymbols[k]
                      /\ polled = Symbols =>
                           Len(g[i]) = i /\ \A j \in 1..i : g[i][j] = WatchSymbols[j]
           Fail == {i \in 0..Polls : ~Good(i)}
<1>2. g = [i \in 0..Polls |-> AnswerStep(polled, g, i)]
  BY <1>1 DEF AnswersUp
<1>3. \A i \in 0..Polls : g[i] = AnswerStep(polled, g, i)
  BY <1>2
<1>4. Good(0)
  <2>1. g[0] = <<>> /\ Polls \in Nat
    BY <1>3, WatchList DEF AnswerStep
  <2>2. g[0] \in Seq(polled) /\ Len(g[0]) = 0
    BY <2>1
  <2> QED BY <2>2
<1>5. ASSUME NEW i \in 1..Polls, Good(i - 1) PROVE Good(i)
  <2>1. g[i] = IF WatchSymbols[i] \in polled THEN Append(g[i - 1], WatchSymbols[i])
                                             ELSE g[i - 1]
    BY <1>3, WatchList DEF AnswerStep
  <2>2. /\ WatchSymbols[i] \in Symbols /\ i \in Nat /\ i - 1 \in Nat /\ Polls \in Nat
    BY WatchList
  <2> DEFINE before == g[i - 1]
  <2>3. /\ before \in Seq(polled)
        /\ Len(before) \in Nat /\ Len(before) <= i - 1
        /\ \A j \in 1..Len(before) : \E k \in j..(i - 1) : before[j] = WatchSymbols[k]
        /\ polled = Symbols =>
             Len(before) = i - 1 /\ \A j \in 1..(i - 1) : before[j] = WatchSymbols[j]
    BY <1>5
  <2>4. CASE WatchSymbols[i] \in polled
    <3>1. /\ g[i] \in Seq(polled)
          /\ Len(g[i]) = Len(before) + 1
          /\ g[i][Len(before) + 1] = WatchSymbols[i]
          /\ \A j \in 1..Len(before) : g[i][j] = before[j]
      BY <2>1, <2>3, <2>4
    <3> HIDE DEF before
    <3>2. \A j \in 1..Len(g[i]) : \E k \in j..i : g[i][j] = WatchSymbols[k]
      <4> TAKE j \in 1..Len(g[i])
      <4>1. CASE j = Len(before) + 1
        <5>1. i \in j..i
          BY <4>1, <2>2, <2>3
        <5> QED BY <5>1, <4>1, <3>1
      <4>2. CASE j \in 1..Len(before)
        <5>1. PICK k \in j..(i - 1) : before[j] = WatchSymbols[k]
          BY <4>2, <2>3
        <5>2. k \in j..i
          BY <2>2, <2>3, <4>2, <5>1
        <5> QED BY <5>1, <5>2, <4>2, <3>1
      <4> QED BY <4>1, <4>2, <3>1, <2>3
    <3>3. polled = Symbols =>
            Len(g[i]) = i /\ \A j \in 1..i : g[i][j] = WatchSymbols[j]
      BY <2>2, <2>3, <3>1
    <3>4. Len(g[i]) <= i
      BY <2>2, <2>3, <3>1
    <3> QED BY <3>1, <3>2, <3>3, <3>4
  <2>5. CASE WatchSymbols[i] \notin polled
    <3>1. g[i] = before /\ polled # Symbols
      BY <2>1, <2>2, <2>5
    <3> HIDE DEF before
    <3>2. \A j \in 1..Len(before) : \E k \in j..i : before[j] = WatchSymbols[k]
      <4> TAKE j \in 1..Len(before)
      <4>1. PICK k \in j..(i - 1) : before[j] = WatchSymbols[k]
        BY <2>3
      <4>2. k \in j..i
        BY <2>2, <2>3, <4>1
      <4> QED BY <4>1, <4>2
    <3>3. Len(before) <= i
      BY <2>2, <2>3
    <3> QED BY <2>3, <3>1, <3>2, <3>3
  <2> QED BY <2>4, <2>5
<1>6. \A i \in 0..Polls : Good(i)
  <2> HIDE DEF Good
  <2> SUFFICES ASSUME Fail # {} PROVE FALSE
    OBVIOUS
  <2>1. Fail \subseteq Nat
    BY WatchList
  <2>2. PICK i \in Fail : \A j \in Fail : i <= j
    BY <2>1, LeastNatural
  <2>3. i \in 0..Polls /\ ~Good(i) /\ i # 0
    BY <1>4
  <2>4. i \in 1..Polls /\ i - 1 \in 0..Polls /\ ~(i <= i - 1)
    BY <2>3, WatchList
  <2>5. Good(i - 1)
    BY <2>2, <2>4
  <2> QED BY <2>3, <2>4, <2>5, <1>5
<1>7. Good(Polls)
  BY <1>6, WatchList
<1>8. polled = Symbols => g[Polls] = WatchSymbols
  <2> SUFFICES ASSUME polled = Symbols PROVE g[Polls] = WatchSymbols
    OBVIOUS
  <2>1. /\ g[Polls] \in Seq(Symbols) /\ WatchSymbols \in Seq(Symbols)
        /\ Len(g[Polls]) = Polls /\ Len(WatchSymbols) = Polls
        /\ \A j \in 1..Polls : g[Polls][j] = WatchSymbols[j]
    BY <1>7, WatchListAssumption DEF Symbols, Polls
  <2> HIDE DEF Good
  <2> QED BY <2>1
<1> QED BY <1>1, <1>7, <1>8

-----------------------------------------------------------------------------
(* The quotes between the poll and the engine.                               *)

(* A batch is as long as its answers, and each quote of it was asked for at  *)
(* its place in the watch list or, when a symbol is missing, after it.       *)
LEMMA BatchKeepsItsPlaces ==
  ASSUME NEW polled \in SUBSET Symbols, NEW quotes \in Batches(polled)
  PROVE  /\ quotes \in Seq({quotes[i] : i \in DOMAIN quotes})
         /\ Len(quotes) <= Polls
         /\ \A i \in DOMAIN quotes :
              /\ quotes[i].price \in Nat
              /\ \/ quotes[i].sym = quotes[i].of
                 \/ /\ polled # Symbols /\ polled # {}
                    /\ quotes[i].sym \in Symbols
                    /\ watch_rank(quotes[i].sym) < watch_rank(quotes[i].of)
<1> DEFINE names == answered(polled)
           quote(named, prices, i) ==
             [date |-> trading_date, at |-> REFERENCE_CAPTURE_TIME, seq |-> i,
              sym |-> resolve_symbol(polled, named, i), of |-> names[i],
              price |-> prices[names[i]]]
<1>1. PICK named \in SUBSET polled,
           prices \in {p \in [polled -> UNION {PollPrices[s] : s \in Symbols}] :
                         \A s \in polled : p[s] \in PollPrices[s]} :
        quotes = [i \in DOMAIN names |-> quote(named, prices, i)]
  BY DEF Batches
<1>2. /\ names \in Seq(polled)
      /\ Len(names) <= Polls
      /\ \A i \in 1..Len(names) : \E k \in i..Polls : names[i] = WatchSymbols[k]
      /\ polled = Symbols => names = WatchSymbols
  BY AnswersKeepTheOrder
<1> HIDE DEF names
<1>3. DOMAIN names = 1..Len(names) /\ Len(names) \in Nat
  BY <1>2
<1>4. DOMAIN quotes = 1..Len(names) /\ \A i \in 1..Len(names) : quotes[i] = quote(named, prices, i)
  BY <1>1, <1>3
<1>5. quotes \in Seq({quotes[i] : i \in DOMAIN quotes}) /\ Len(quotes) = Len(names)
  <2> DEFINE Items == {quotes[i] : i \in 1..Len(names)}
  <2>1. quotes = [i \in 1..Len(names) |-> quote(named, prices, i)]
    BY <1>1, <1>3
  <2>2. \A i \in 1..Len(names) : quote(named, prices, i) \in Items
    BY <1>4
  <2> HIDE DEF quote, Items
  <2>3. quotes \in [1..Len(names) -> Items]
    BY <2>1, <2>2
  <2>4. quotes \in Seq(Items) /\ Len(quotes) = Len(names)
    BY <2>3, <1>3
  <2> QED BY <2>4, <1>4 DEF Items
<1>6. ASSUME NEW i \in 1..Len(names)
      PROVE  /\ quotes[i].price \in Nat
             /\ \/ quotes[i].sym = quotes[i].of
                \/ /\ polled # Symbols /\ polled # {}
                   /\ quotes[i].sym \in Symbols
                   /\ watch_rank(quotes[i].sym) < watch_rank(quotes[i].of)
  <2>1. /\ quotes[i].sym = resolve_symbol(polled, named, i)
        /\ quotes[i].of = names[i]
        /\ quotes[i].price = prices[names[i]]
    BY <1>4
  <2>2. names[i] \in polled
    BY <1>2
  <2>3. quotes[i].price \in Nat
    BY <2>1, <2>2, PollPricesAssumption
  <2>4. resolve_symbol(polled, named, i) \in {names[i], WatchSymbols[i]}
    BY DEF resolve_symbol, names
  <2>5. PICK k \in i..Polls : names[i] = WatchSymbols[k]
    BY <1>2
  <2>6. i \in 1..Polls /\ k \in 1..Polls /\ (k # i => i < k)
    BY <2>5, <1>2, <1>3, WatchList
  <2>7. WatchSymbols[i] \in Symbols /\ watch_rank(WatchSymbols[i]) = i /\ watch_rank(names[i]) = k
    BY <2>5, <2>6, WatchList
  <2>8. polled = Symbols => names[i] = WatchSymbols[i]
    BY <1>2
  <2> QED BY <2>1, <2>2, <2>3, <2>4, <2>5, <2>6, <2>7, <2>8
<1> QED BY <1>2, <1>4, <1>5, <1>6

BatchInv ==
  /\ batch \in Seq({batch[i] : i \in DOMAIN batch})
  /\ Len(batch) <= Polls
  /\ \A i \in DOMAIN batch : batch[i].price \in Nat
  /\ QuotesKeepTheirSymbols

(* The engine's invariant and the batch's are kept by every step.            *)
LEMMA InitBatchInv == Init => EngineInv /\ BatchInv
<1> SUFFICES ASSUME Init PROVE EngineInv /\ BatchInv
  OBVIOUS
<1>1. EngineInv
  BY FreshEngine DEF Init
<1>2. batch = <<>>
  BY DEF Init
<1>3. DOMAIN batch = {} /\ Len(batch) = 0
  BY <1>2
<1>4. <<>> \in Seq({})
  OBVIOUS
<1>5. {batch[i] : i \in DOMAIN batch} = {}
  BY <1>3
<1>6. batch \in Seq({batch[i] : i \in DOMAIN batch})
  BY <1>2, <1>4, <1>5
<1> QED BY <1>1, <1>3, <1>6, WatchList DEF BatchInv, QuotesKeepTheirSymbols

LEMMA SequenceOfItems ==
  ASSUME NEW S, NEW q \in Seq(S) PROVE q \in Seq({q[i] : i \in DOMAIN q})
<1> DEFINE Items == {q[i] : i \in DOMAIN q}
           n == Len(q)
<1>1. n \in Nat /\ DOMAIN q = 1..n /\ q = [i \in 1..n |-> q[i]]
  OBVIOUS
<1>2. \A i \in 1..n : q[i] \in Items
  BY <1>1
<1> HIDE DEF Items, n
<1>3. q \in [1..n -> Items]
  BY <1>1, <1>2
<1>4. q \in Seq(Items)
  BY <1>1, <1>3
<1> QED BY <1>4 DEF Items

LEMMA TakeKeepsBatch ==
  ASSUME BatchInv, batch # <<>>, batch' = Tail(batch), UNCHANGED missing
  PROVE  BatchInv' /\ Head(batch).price \in Nat
<1> DEFINE Items == {batch[i] : i \in DOMAIN batch}
<1>1. batch \in Seq(Items)
  BY DEF BatchInv
<1> HIDE DEF Items
<1>2. /\ DOMAIN batch = 1..Len(batch) /\ Len(batch) \in Nat \ {0}
      /\ Head(batch) = batch[1]
      /\ batch' \in Seq(Items)
      /\ Len(batch') = Len(batch) - 1
      /\ \A i \in 1..(Len(batch) - 1) : batch'[i] = batch[i + 1]
  BY <1>1
<1>3. DOMAIN batch' = 1..(Len(batch) - 1) /\ DOMAIN batch' = 1..Len(batch')
  BY <1>2
<1>4. \A i \in DOMAIN batch' : i + 1 \in DOMAIN batch /\ batch'[i] = batch[i + 1]
  BY <1>2, <1>3
<1>5. batch' \in Seq({batch'[i] : i \in DOMAIN batch'})
  <2>1. ASSUME NEW S, NEW q \in Seq(S) PROVE q \in Seq({q[i] : i \in DOMAIN q})
    BY SequenceOfItems
  <2>2. \A q \in Seq(Items) : q \in Seq({q[i] : i \in DOMAIN q})
    BY <2>1, Zenon
  <2>3. batch' \in Seq(Items)
    BY <1>2
  <2> QED BY <2>2, <2>3, Zenon
<1>6. Len(batch') <= Polls
  BY <1>2, WatchList DEF BatchInv
<1>7. \A i \in DOMAIN batch' : batch'[i].price \in Nat
  BY <1>4 DEF BatchInv
<1>8. QuotesKeepTheirSymbols'
  BY <1>4 DEF BatchInv, QuotesKeepTheirSymbols
<1>9. 1 \in DOMAIN batch
  BY <1>2
<1> QED BY <1>2, <1>5, <1>6, <1>7, <1>8, <1>9 DEF BatchInv

LEMMA NextBatchInv == EngineInv /\ BatchInv /\ [Next]_vars => EngineInv' /\ BatchInv'
<1> SUFFICES ASSUME EngineInv, BatchInv, [Next]_vars
             PROVE  EngineInv' /\ BatchInv'
  OBVIOUS
<1>a. ASSUME UNCHANGED tseVars PROVE EngineInv'
  BY <1>a DEF tseVars, symbolVars, EngineInv
<1>b. ASSUME NEW blocked \in BOOLEAN, set_buy_entry_blocked_by_degraded(blocked)
      PROVE  EngineInv'
  BY <1>b DEF set_buy_entry_blocked_by_degraded, symbolVars, EngineInv
<1>c. ASSUME UNCHANGED <<batch, missing>> PROVE BatchInv'
  BY <1>c DEF BatchInv, QuotesKeepTheirSymbols
<1>1. CASE WorkerStarts
  BY <1>1, <1>b, <1>c DEF WorkerStarts, start
<1>2. CASE CheckStop
  BY <1>2, <1>a, <1>c DEF CheckStop
<1>3. CASE EnterCycle
  BY <1>3, <1>a, <1>b, <1>c DEF EnterCycle, start
<1>4. CASE FetchRaises
  BY <1>4, <1>a, <1>c DEF FetchRaises
<1>5. ASSUME NEW polled \in SUBSET Symbols, FetchReturns(polled)
      PROVE  EngineInv' /\ BatchInv'
  <2>1. /\ UNCHANGED tseVars
        /\ batch' \in Batches(polled)
        /\ polled # Symbols /\ polled # {} => missing' = "some"
    BY <1>5 DEF FetchReturns
  <2>2. /\ batch' \in Seq({batch'[i] : i \in DOMAIN batch'})
        /\ Len(batch') <= Polls
        /\ \A i \in DOMAIN batch' :
             /\ batch'[i].price \in Nat
             /\ \/ batch'[i].sym = batch'[i].of
                \/ /\ polled # Symbols /\ polled # {}
                   /\ batch'[i].sym \in Symbols
                   /\ watch_rank(batch'[i].sym) < watch_rank(batch'[i].of)
    BY <2>1, BatchKeepsItsPlaces
  <2>3. QuotesKeepTheirSymbols'
    BY <2>1, <2>2 DEF QuotesKeepTheirSymbols
  <2> QED BY <2>1, <2>2, <2>3, <1>a DEF BatchInv
<1>6. CASE ProcessQuote
  <2>1. BatchInv' /\ Head(batch).price \in Nat
    BY <1>6, TakeKeepsBatch DEF ProcessQuote
  <2> QED BY <1>6, <2>1, EngineQuote DEF ProcessQuote
<1>7. CASE EndCycle
  <2>1. UNCHANGED tseVars /\ batch = <<>> /\ batch' = batch
    BY <1>7 DEF EndCycle
  <2>2. QuotesKeepTheirSymbols'
    BY <2>1 DEF QuotesKeepTheirSymbols
  <2> QED BY <2>1, <2>2, <1>a DEF BatchInv
<1>8. CASE SetBlock
  BY <1>8, <1>b, <1>c DEF SetBlock
<1>9. CASE RequestStop
  BY <1>9, <1>a, <1>c DEF RequestStop
<1>10. CASE StopLoop
  BY <1>10, <1>a, <1>c DEF StopLoop
<1>11. CASE StopUnblocks
  BY <1>11, <1>b, <1>c DEF StopUnblocks
<1>12. CASE FeedChanges
  BY <1>12, <1>a, <1>c DEF FeedChanges
<1>13. CASE UNCHANGED vars
  BY <1>13, <1>a, <1>c DEF vars
<1> QED BY <1>1, <1>2, <1>3, <1>4, <1>5, <1>6, <1>7, <1>8, <1>9, <1>10, <1>11,
           <1>12, <1>13 DEF Next, WorkerStep, StopperStep, Fetch

LEMMA BatchHolds == Spec => [](EngineInv /\ BatchInv)
  BY InitBatchInv, NextBatchInv, PTL DEF Spec

(* A quote is given to its own symbol or, in a partial batch, to one that is *)
(* watched before it, for every watch list (fetch_quotes_batch).             *)
THEOREM QuotesGoNoFurther == Spec => []QuotesKeepTheirSymbols
<1>1. BatchInv => QuotesKeepTheirSymbols
  BY DEF BatchInv
<1> QED BY <1>1, BatchHolds, PTL

(* The thread that stops the loop and the switch of the broker's feed.       *)
StopInv == stopper \in {"none", "stopping", "unblocking", "done"} /\ healthy \in BOOLEAN

LEMMA StopHolds == Spec => []StopInv
<1>1. Init => StopInv
  BY DEF Init, StopInv
<1>2. StopInv /\ [Next]_vars => StopInv'
  BY DEF StopInv, Next, WorkerStep, StopperStep, Fetch, WorkerStarts, CheckStop, EnterCycle,
         FetchRaises, FetchReturns, ProcessQuote, EndCycle, SetBlock, RequestStop, StopLoop,
         StopUnblocks, FeedChanges, vars
<1> QED BY <1>1, <1>2, PTL DEF Spec

(* The counters stay within their thresholds, the history within the longer  *)
(* of the two, a batch within the watch list (quote_monitoring.py).          *)
THEOREM TypeCorrect == Spec => []TypeOK
<1>1. BlockInv /\ HistoryInv /\ EngineInv /\ BatchInv /\ StopInv => TypeOK
  BY WatchedOnce DEF BlockInv, HistoryInv, EngineInv, BatchInv, StopInv, TypeOK, Loop, Misses
<1> QED BY <1>1, BlockHolds, HistoryHolds, BatchHolds, StopHolds, PTL

=============================================================================
