------------------------------ MODULE KiaClient ------------------------------
(***************************************************************************)
(* The broker client of src/kia as the threads of the engine share it:     *)
(* routing by mode, one access token behind a lock, requests under the     *)
(* rate lock, the handling of errors, the retries and the store of         *)
(* answered orders; over the settings files of CsmSettings, which may      *)
(* change and lose their process under it.                                 *)
(*                                                                         *)
(* A call is one request of the gateway.  Its steps are separated wherever *)
(* another thread, the broker or a crash can come between.                 *)
(***************************************************************************)
EXTENDS CsmSettings

CONSTANTS Threads, NoThread,
          Services,          \* thread -> the services it calls: "quote", "chart", "order"
          Keys,              \* client order ids
          retry_attempts,    \* attempts of a call that is not a quote of a batch
          MaxCalls,          \* bound: calls of one client
          MaxTokens          \* bound: access tokens the broker issues to one client

ASSUME ClientAssumption ==
  /\ NoThread \notin Threads
  /\ Services \in [Threads -> SUBSET {"quote", "chart", "order"}]
  /\ retry_attempts \in Nat \ {0}
  /\ MaxCalls \in Nat /\ MaxTokens \in Nat

VARIABLES
  session_mode,   \* the mode the engine was started in, and polls quotes in
  last_mode,      \* RoutingKiaApiClient._last_mode
  cache,          \* the cached live token; mock calls never ask for one
  fresh,          \* whether refresh_at of the cached token is still ahead
  token_lock,     \* the thread that holds the lock of the token provider
  rate_lock,      \* the thread that holds _quote_rate_lock
  store,          \* the keys of InMemoryIdempotencyStore
  transport,      \* whether the transport raises HTTP errors or returns statuses
  issued,         \* external: the tokens of this client are 1..issued, in their order
  pc, call,       \* thread -> where its call is, and what it knows
  calls

tokenVars == <<cache, fresh, token_lock>>
clientVars == <<last_mode, tokenVars, rate_lock, store, issued>>
callVars == <<pc, call, calls>>
vars == <<csmVars, session_mode, transport, clientVars, callVars>>

NoMode == "none"
NoToken == 0
NoCall == [service |-> "none", mode |-> NoMode, key |-> NoToken, attempt |-> 0,
           has_forced_refresh |-> FALSE, resend |-> FALSE,
           token |-> NoToken, rejected |-> NoToken, code |-> "none", taken |-> 0]

\* Faulty variant: the token of the client before is kept.
FreshClient_token ==
  /\ last_mode' = NoMode
  /\ issued' = 0 /\ UNCHANGED <<cache, fresh>>
  /\ token_lock' = NoThread /\ rate_lock' = NoThread
  /\ store' = {}
  /\ pc' = [t \in Threads |-> "idle"]
  /\ call' = [t \in Threads |-> NoCall]
  /\ calls' = 0

\* RoutingKiaApiClient.__init__: a client with no token, no lock taken and no answer.
FreshClient ==
  /\ last_mode' = NoMode
  /\ cache' = NoToken /\ fresh' = FALSE /\ issued' = 0
  /\ token_lock' = NoThread /\ rate_lock' = NoThread
  /\ store' = {}
  /\ pc' = [t \in Threads |-> "idle"]
  /\ call' = [t \in Threads |-> NoCall]
  /\ calls' = 0

Init ==
  /\ CsmInit
  /\ session_mode = NoMode /\ last_mode = NoMode
  /\ cache = NoToken /\ fresh = FALSE /\ issued = 0
  /\ token_lock = NoThread /\ rate_lock = NoThread
  /\ store = {}
  /\ transport \in {"raises", "returns"}
  /\ pc = [t \in Threads |-> "idle"]
  /\ call = [t \in Threads |-> NoCall]
  /\ calls = 0

-----------------------------------------------------------------------------
(* The engine around the client.                                             *)

\* _start_quote_monitoring_loop: a new gateway, and the mode of the quotes.
StartEngine ==
  /\ engine_state = "IDLE" /\ request = NoRequest
  /\ engine_state' = "RUNNING"
  /\ session_mode' = settings.mode
  /\ FreshClient
  /\ UNCHANGED <<settings, credentials, request, transport>>

Crash ==
  /\ CsmCrash
  /\ session_mode' = NoMode
  /\ FreshClient
  /\ UNCHANGED transport

Settle == CsmStep /\ UNCHANGED <<session_mode, transport, clientVars, callVars>>

-----------------------------------------------------------------------------
(* Steps of a call.                                                          *)

Outside == <<csmVars, session_mode, transport, calls>>

Goto(t, place, known) ==
  /\ pc' = [pc EXCEPT ![t] = place]
  /\ call' = [call EXCEPT ![t] = known]

End(t, known, code) ==
  Goto(t, "ended", [NoCall EXCEPT !.service = known.service, !.taken = known.taken,
                                  !.code = code])

invalidate == cache' = NoToken /\ fresh' = FALSE

\* The caller chooses the mode: the quotes keep that of the session, an order reads
\* the settings (_read_order_execution_context).
Begin(t) ==
  /\ engine_state = "RUNNING"
  /\ pc[t] = "idle"
  /\ calls < MaxCalls
  /\ calls' = calls + 1
  /\ \E service \in Services[t], key \in Keys :
       Goto(t, "routing",
            [NoCall EXCEPT !.service = service, !.attempt = 1,
                           !.key = IF service = "order" THEN key ELSE NoToken,
                           !.mode = IF service = "order" THEN settings.mode ELSE session_mode])
  /\ UNCHANGED <<csmVars, session_mode, transport, clientVars>>

\* The mock client has no state and answers every request at once.
MockKiaApiClient(t) == End(t, call[t], "OK")

\* _resolve_mode drops the token of another mode, and only a live token is cached;
\* without credentials a live call is given to the mock client.
Route(t) ==
  /\ pc[t] = "routing"
  /\ last_mode' = call[t].mode
  /\ IF last_mode = "live" /\ call[t].mode # "live" THEN invalidate ELSE UNCHANGED <<cache, fresh>>
  /\ IF call[t].mode = "mock" \/ ~credentials.keys
     THEN MockKiaApiClient(t)
     ELSE Goto(t, "authorising", call[t])
  /\ UNCHANGED <<Outside, token_lock, rate_lock, store, issued>>

usable == cache # NoToken /\ fresh

\* get_valid_token: a look at the cache without the lock,
Authorise(t) ==
  /\ pc[t] = "authorising"
  /\ IF usable
     THEN Goto(t, "ready", [call[t] EXCEPT !.token = cache])
     ELSE Goto(t, "locking", call[t])
  /\ UNCHANGED <<Outside, clientVars>>

\* Faulty variant: the single-flight lock is not taken.
Lock_missing(t) ==
  /\ pc[t] \in {"locking", "refreshing"}
  /\ IF pc[t] = "locking" /\ usable
     THEN Goto(t, "ready", [call[t] EXCEPT !.token = cache])
     ELSE Goto(t, "issuing", call[t])
  /\ UNCHANGED <<Outside, clientVars>>

\* then another with the lock; force_refresh takes the lock without a look.
Lock(t) ==
  /\ pc[t] \in {"locking", "refreshing"}
  /\ token_lock = NoThread
  /\ IF pc[t] = "locking" /\ usable
     THEN /\ Goto(t, "ready", [call[t] EXCEPT !.token = cache])
          /\ UNCHANGED token_lock
     ELSE /\ Goto(t, "issuing", call[t])
          /\ token_lock' = t
  /\ UNCHANGED <<Outside, last_mode, cache, fresh, rate_lock, store, issued>>

\* External: the broker issues a token.
Issue(t) ==
  /\ pc[t] = "issuing"
  /\ issued < MaxTokens
  /\ issued' = issued + 1
  /\ Goto(t, "storing", [call[t] EXCEPT !.token = issued + 1])
  /\ UNCHANGED <<Outside, last_mode, tokenVars, rate_lock, store>>

Store(t) ==
  /\ pc[t] = "storing"
  /\ cache' = call[t].token /\ fresh' = TRUE
  /\ token_lock' = NoThread
  /\ Goto(t, "ready", call[t])
  /\ UNCHANGED <<Outside, last_mode, rate_lock, store, issued>>

-----------------------------------------------------------------------------
(* The codes of errors, and whether a call is tried again.                   *)

HttpErrors == {"401", "403", "429", "503"}

\* An answer fails to arrive in three ways: in time ("lost": a timeout, a URLError),
\* whole ("reset": the connection breaks after the request was sent), or as a JSON
\* object ("unreadable").
Statuses == {"200", "lost", "reset", "unreadable"} \cup HttpErrors

\* map_exception, and map_http_status where the transport returns the status; one that
\* raises an HTTPError, which is a URLError, makes a timeout of every error status.
Code(status) ==
  CASE status = "200" -> "OK"
    [] status = "lost" -> "KIA_API_TIMEOUT"
    [] status = "reset" -> "KIA_UNKNOWN"
    [] status = "unreadable" -> "KIA_RESPONSE_INVALID"
    [] status \in HttpErrors /\ transport = "raises" -> "KIA_API_TIMEOUT"
    [] status = "401" /\ transport = "returns" -> "KIA_AUTH_TOKEN_EXPIRED"
    [] status = "403" /\ transport = "returns" -> "KIA_AUTH_FORBIDDEN"
    [] status = "429" /\ transport = "returns" -> "KIA_RATE_LIMITED"
    [] status = "503" /\ transport = "returns" -> "KIA_UPSTREAM_UNAVAILABLE"

\* "Exception" is any that is no KiaError.
Codes == {"OK", "KIA_API_TIMEOUT", "KIA_UNKNOWN", "KIA_RESPONSE_INVALID",
          "KIA_AUTH_TOKEN_EXPIRED", "KIA_AUTH_FORBIDDEN", "KIA_RATE_LIMITED",
          "KIA_UPSTREAM_UNAVAILABLE", "Exception"}

\* The codes of a request that was sent and not answered.
Unanswered == {"KIA_API_TIMEOUT", "KIA_UNKNOWN", "KIA_RESPONSE_INVALID"}

\* Faulty variant: an order whose answer was lost is sent again.
should_retry_order(service, code) ==
  code \in {"KIA_API_TIMEOUT", "KIA_RATE_LIMITED", "KIA_UPSTREAM_UNAVAILABLE"}

\* A quote is polled by a batch: one call, and one more after a timeout or a limit.
should_retry(service, code) ==
  \/ code \in {"KIA_RATE_LIMITED"}
  \/ code = "KIA_UPSTREAM_UNAVAILABLE" /\ service # "quote"
  \/ code = "KIA_API_TIMEOUT" /\ service # "order"

attempts(service) == IF service = "quote" THEN 2 ELSE retry_attempts

\* What becomes of a call whose attempt raised: the next attempt, or the end.  The
\* second poll of a quote is a new call, which may refresh the token once more.
Raise(t, known, code) ==
  IF known.attempt < attempts(known.service) /\ should_retry(known.service, code)
  THEN Goto(t, "authorising",
            [known EXCEPT !.attempt = @ + 1, !.resend = FALSE, !.token = NoToken,
                          !.has_forced_refresh = @ /\ known.service # "quote",
                          !.rejected = IF known.service = "quote" THEN NoToken ELSE @])
  ELSE End(t, known, code)

\* The errors of _issue_live_token.  The transport's own exceptions are not mapped
\* there, nor those of reading the answer, so they are no KiaError.
IssueErrors ==
  {"Exception"} \cup
  IF transport = "raises" THEN {} ELSE {Code(status) : status \in HttpErrors}

\* Faulty variant: a failing issue keeps the lock.
IssueFails_locked(t) ==
  /\ pc[t] = "issuing"
  /\ \E code \in IssueErrors : Raise(t, call[t], code)
  /\ UNCHANGED <<Outside, clientVars>>

\* The broker issues no token.
IssueFails(t) ==
  /\ pc[t] = "issuing"
  /\ token_lock' = NoThread
  /\ \E code \in IssueErrors : Raise(t, call[t], code)
  /\ UNCHANGED <<Outside, last_mode, cache, fresh, rate_lock, store, issued>>

-----------------------------------------------------------------------------
(* Sending and the answer.                                                   *)

\* A quote takes the rate lock only to wait for its turn,
enforce_quote_rate_limit == rate_lock = NoThread /\ UNCHANGED rate_lock

\* every other request holds it until the answer.
request_guard(t) == rate_lock = NoThread /\ rate_lock' = t

Send(t) ==
  /\ pc[t] = "ready"
  /\ IF call[t].service = "quote" THEN enforce_quote_rate_limit ELSE request_guard(t)
  /\ Goto(t, "in flight", call[t])
  /\ UNCHANGED <<Outside, last_mode, tokenVars, store, issued>>

\* External: the broker may refuse any token at any time.  A request that is answered
\* with an error had no effect, one whose answer does not arrive or cannot be read may
\* have had, and the body of a 200 may refuse the order as well.
Answers == {a \in [status : Statuses, taken : {0, 1}] :
              a.taken = 1 => a.status \notin HttpErrors}

\* What the answer makes of a call in flight; the lock is given back first of all.
Answered(t, a) ==
  /\ pc[t] = "in flight"
  /\ a.taken = 1 => call[t].service = "order"
  /\ rate_lock' = IF rate_lock = t THEN NoThread ELSE rate_lock

received(t, a) == [call[t] EXCEPT !.taken = @ + a.taken]

Expired(t, a) == Code(a.status) = "KIA_AUTH_TOKEN_EXPIRED" /\ ~call[t].has_forced_refresh

StoredBefore(t, a) == /\ Code(a.status) = "KIA_API_TIMEOUT"
                      /\ call[t].service = "order" /\ ~call[t].resend
                      /\ call[t].key \in store

\* The first answer of an order is kept under its key; that of a resent one is not.
Succeed(t) ==
  /\ \E a \in Answers :
       /\ Answered(t, a) /\ Code(a.status) = "OK"
       /\ End(t, received(t, a), "OK")
  /\ store' = IF call[t].service = "order" /\ ~call[t].resend
              THEN store \cup {call[t].key} ELSE store
  /\ UNCHANGED <<Outside, last_mode, tokenVars, issued>>

\* A lost answer of an order that was answered before is that answer.
AnswerFromStore(t) ==
  /\ \E a \in Answers :
       /\ Answered(t, a) /\ StoredBefore(t, a)
       /\ End(t, received(t, a), "OK")
  /\ UNCHANGED <<Outside, last_mode, tokenVars, store, issued>>

Fail(t) ==
  /\ \E a \in Answers :
       /\ Answered(t, a) /\ Code(a.status) # "OK"
       /\ ~Expired(t, a) /\ ~StoredBefore(t, a)
       /\ Raise(t, received(t, a), Code(a.status))
  /\ UNCHANGED <<Outside, last_mode, tokenVars, store, issued>>

\* The first expired token of a call is refreshed, and the request sent again.
Expire(t) ==
  /\ \E a \in Answers :
       /\ Answered(t, a) /\ Expired(t, a)
       /\ Goto(t, "expired", [received(t, a) EXCEPT !.has_forced_refresh = TRUE, !.resend = TRUE])
  /\ UNCHANGED <<Outside, last_mode, tokenVars, store, issued>>

\* Faulty variant: the token stays in the cache until the refresh succeeds.
Invalidate_later(t) ==
  /\ pc[t] = "expired"
  /\ Goto(t, "refreshing", [call[t] EXCEPT !.rejected = call[t].token, !.token = NoToken])
  /\ UNCHANGED <<Outside, clientVars>>

\* invalidate takes no lock, and drops whatever token is cached by now.
Invalidate(t) ==
  /\ pc[t] = "expired"
  /\ invalidate
  /\ Goto(t, "refreshing", [call[t] EXCEPT !.rejected = call[t].token, !.token = NoToken])
  /\ UNCHANGED <<Outside, last_mode, token_lock, rate_lock, store, issued>>

Return(t) ==
  /\ pc[t] = "ended"
  /\ Goto(t, "idle", NoCall)
  /\ UNCHANGED <<Outside, clientVars>>

-----------------------------------------------------------------------------
(* Time.                                                                     *)

TokenAges ==
  /\ usable
  /\ fresh' = FALSE
  /\ UNCHANGED <<csmVars, session_mode, transport, last_mode, cache, token_lock,
                 rate_lock, store, issued, callVars>>

CallStep(t) ==
  \/ Route(t) \/ Authorise(t) \/ Lock(t) \/ Issue(t) \/ IssueFails(t) \/ Store(t)
  \/ Send(t) \/ Succeed(t) \/ AnswerFromStore(t) \/ Fail(t)
  \/ Expire(t) \/ Invalidate(t) \/ Return(t)

Next ==
  \/ Settle \/ StartEngine \/ Crash
  \/ \E t \in Threads : Begin(t) \/ CallStep(t)
  \/ TokenAges

Spec == Init /\ [][Next]_vars

\* A thread in a call goes on, and the broker answers or the request times out.
FairSpec == Spec /\ \A t \in Threads : WF_vars(CallStep(t))

-----------------------------------------------------------------------------
(* Types.                                                                    *)

Places == {"idle", "routing", "authorising", "locking", "refreshing", "issuing",
           "storing", "ready", "in flight", "expired", "ended"}

CallRecords(tokens) ==
  [service : {"none", "quote", "chart", "order"}, mode : Modes \cup {NoMode},
   key : Keys \cup {NoToken}, attempt : Nat,
   has_forced_refresh : BOOLEAN, resend : BOOLEAN,
   token : 0..tokens, rejected : 0..tokens,
   code : Codes \cup {"none"}, taken : Nat]

TypeOK ==
  /\ CsmTypeOK
  /\ session_mode \in Modes \cup {NoMode} /\ last_mode \in Modes \cup {NoMode}
  /\ cache \in 0..issued /\ fresh \in BOOLEAN
  /\ token_lock \in Threads \cup {NoThread} /\ rate_lock \in Threads \cup {NoThread}
  /\ store \subseteq Keys \cup {NoToken}
  /\ transport \in {"raises", "returns"}
  /\ issued \in 0..MaxTokens
  /\ pc \in [Threads -> Places]
  /\ call \in [Threads -> CallRecords(issued)]
  /\ calls \in 0..MaxCalls

-----------------------------------------------------------------------------
(* Safety.                                                                   *)

(* However often a call refreshes the token and is tried again, it hands its *)
(* order to the broker at most once, and an order it reports with the code   *)
(* of a refusal is not in the broker's book: after an answer that did not    *)
(* arrive, broke off or could not be read nothing is sent again, and the     *)
(* code tells so (should_retry in LiveKiaApiClient.call, map_exception).     *)
OrdersAreTakenAsReported ==
  \A t \in Threads :
    /\ call[t].taken <= 1
    /\ pc[t] = "ended" /\ call[t].code \notin {"OK"} \cup Unanswered => call[t].taken = 0

(* A token that a call has seen expire is out of the cache for good, even    *)
(* when no other can be had, and the request is resent with a newer one.     *)
RejectedTokenIsGone ==
  \A t \in Threads :
    call[t].rejected # NoToken =>
      /\ cache # call[t].rejected
      /\ call[t].token # NoToken => call[t].token > call[t].rejected

(* The cache holds the newest token or none: refreshes of several threads    *)
(* never put an older one back, though invalidate takes no lock.             *)
CachedTokenIsNewest ==
  cache # NoToken /\ (\A t \in Threads : pc[t] # "storing") => cache = issued

-----------------------------------------------------------------------------
(* Liveness.                                                                 *)

(* Every call ends: the two locks are never waited for in a circle, both are *)
(* released when a request or a refresh fails, and the retries are bounded.  *)
EveryCallEnds == \A t \in Threads : pc[t] # "idle" ~> pc[t] = "idle"

-----------------------------------------------------------------------------
(* What the documents say of the modes and the code does not do.             *)

(* HLD 8.2: the mode is switched only when nothing is traded, so the orders  *)
(* of an engine go where its quotes come from.                               *)
OrdersGoWhereQuotesComeFrom ==
  \A t \in Threads :
    pc[t] = "routing" /\ call[t].service = "order" =>
      call[t].mode = session_mode

=============================================================================
