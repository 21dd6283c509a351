--------------------------- MODULE KiaClientProofs ---------------------------
(***************************************************************************)
(* Theorems about the broker client, for any threads, services, keys,      *)
(* attempts and bounds: types, the one cached token, the fate of a token   *)
(* that was refused, and what a call tells of its order.                   *)
(***************************************************************************)
EXTENDS KiaClient, TLAPS

-----------------------------------------------------------------------------
(* The settings service, for any number of saves: what its steps, the start  *)
(* of an engine and a crash preserve.                                        *)

(* What the files satisfy between any two steps.  A save in progress has its *)
(* credentials written, and credentials that were saved have their keys.     *)
CsmInv ==
  /\ CsmTypeOK
  /\ request # NoRequest => engine_state \in {"IDLE", "RUNNING"}
  /\ credentials # NoFile /\ credentials.id > 0 => credentials.keys
  /\ SettingsNameWrittenCredentials

(* A file with content is not the missing file.                              *)
LEMMA FilesExist ==
  /\ \A s \in Settings : s # NoFile
  /\ \A c \in Credentials : c # NoFile
  <1>1. DOMAIN NoFile = {"id"}
    BY DEF NoFile
  <1>2. ASSUME NEW s \in Settings PROVE DOMAIN s = {"mode", "ref"}
    BY DEF Settings
  <1>3. ASSUME NEW c \in Credentials PROVE DOMAIN c = {"id", "keys"}
    BY DEF Credentials
  <1> QED
    BY <1>1, <1>2, <1>3

(* The defaults every installation starts with.                              *)
LEMMA Defaults ==
  /\ default_settings \in Settings /\ default_settings.ref = 0
  /\ default_credentials \in Credentials /\ default_credentials.id = 0
  BY DEF default_settings, default_credentials, Settings, Credentials, Modes

(* The first state.                                                          *)
LEMMA CsmInitKeeps == CsmInit => CsmInv
  BY DEF CsmInit, CsmInv, CsmTypeOK, SettingsNameWrittenCredentials

(* Every step of the service, one by one.                                    *)
LEMMA CsmStepKeeps ==
  ASSUME CsmInv, CsmStep
  PROVE  CsmInv'
  <1> USE DEF CsmInv, CsmTypeOK, SettingsNameWrittenCredentials
  <1>1. CASE ensure_settings
    BY <1>1, Defaults, FilesExist DEF ensure_settings
  <1>2. CASE ensure_credentials
    BY <1>2, Defaults, FilesExist DEF ensure_credentials
  <1>3. CASE save_settings
    <2>1. PICK mode \in Modes : write_credentials(mode)
      BY <1>3 DEF save_settings, validate_mode
    <2>2. /\ credentials \in Credentials /\ settings \in Settings
          /\ serving
      BY <1>3 DEF save_settings, serving
    <2>3. /\ credentials' \in Credentials
          /\ credentials'.id = credentials.id + 1 /\ credentials'.keys
      BY <2>1, <2>2 DEF write_credentials, Credentials
    <2>4. request'.todo = "write_settings" /\ request'.mode \in Modes
      BY <2>1 DEF write_credentials
    <2>5. credentials.id \in Nat /\ settings.ref \in Nat
      BY <2>2 DEF Credentials, Settings
    <2>6. UNCHANGED <<settings, engine_state>>
      BY <2>1 DEF write_credentials
    <2>7. engine_state \in {"IDLE", "RUNNING"} /\ credentials # NoFile
      BY <2>2, FilesExist DEF serving
    <2>8. settings.ref > 0 => settings.ref <= credentials'.id
      BY <2>3, <2>5, <2>7, FilesExist, <2>2
    <2>9. SettingsNameWrittenCredentials'
      BY <2>3, <2>6, <2>8, FilesExist
    <2>10. CsmTypeOK'
      BY <2>2, <2>3, <2>4, <2>6, <2>7, FilesExist
    <2> HIDE DEF CsmTypeOK, SettingsNameWrittenCredentials
    <2> QED
      BY <2>3, <2>6, <2>7, <2>9, <2>10
  <1>4. CASE write_settings
    <2>1. request # NoRequest /\ request.mode \in Modes
      BY <1>4 DEF write_settings, NoRequest
    <2>2. credentials \in Credentials /\ credentials.id \in Nat
      BY <2>1 DEF Credentials
    <2>3. /\ settings' \in Settings /\ settings'.ref = credentials.id
      BY <1>4, <2>1, <2>2 DEF write_settings, Settings
    <2> QED
      BY <1>4, <2>1, <2>2, <2>3, FilesExist DEF write_settings
  <1>5. CASE switch_mode
    <2>1. PICK mode \in Modes : settings' = [settings EXCEPT !.mode = mode]
      BY <1>5 DEF switch_mode
    <2>2. settings \in Settings
      BY <1>5 DEF switch_mode, serving
    <2>3. settings' \in Settings /\ settings'.ref = settings.ref
      BY <2>1, <2>2 DEF Settings
    <2> QED
      BY <1>5, <2>2, <2>3, FilesExist DEF switch_mode
  <1> QED
    BY <1>1, <1>2, <1>3, <1>4, <1>5 DEF CsmStep

(* A crash forgets the request in progress and leaves the files.             *)
LEMMA CsmCrashKeeps ==
  ASSUME CsmInv, CsmCrash
  PROVE  CsmInv'
  BY DEF CsmInv, CsmTypeOK, SettingsNameWrittenCredentials, CsmCrash

(* An engine is started only when no request is in progress.                 *)
LEMMA CsmStartKeeps ==
  ASSUME CsmInv, engine_state = "IDLE", engine_state' = "RUNNING",
         UNCHANGED <<settings, credentials, request>>
  PROVE  CsmInv'
  BY DEF CsmInv, CsmTypeOK, SettingsNameWrittenCredentials

(* Whatever leaves the settings service alone.                               *)
LEMMA CsmSilence ==
  ASSUME CsmInv, UNCHANGED csmVars
  PROVE  CsmInv'
  BY DEF CsmInv, CsmTypeOK, SettingsNameWrittenCredentials, csmVars

(* A step of a call changes the place and the knowledge of its thread only.  *)
LEMMA GotoEffect ==
  ASSUME pc \in [Threads -> Places], NEW tokens, call \in [Threads -> CallRecords(tokens)],
         NEW t \in Threads, NEW place, NEW known, Goto(t, place, known)
  PROVE  /\ pc'[t] = place /\ call'[t] = known
         /\ \A u \in Threads : u # t => pc'[u] = pc[u] /\ call'[u] = call[u]
  BY DEF Goto

(* It keeps the types when place and knowledge have them.                    *)
LEMMA GotoTypes ==
  ASSUME pc \in [Threads -> Places], NEW tokens \in Nat, NEW more \in Nat, tokens <= more,
         call \in [Threads -> CallRecords(tokens)],
         NEW t \in Threads, NEW place \in Places, NEW known \in CallRecords(more),
         Goto(t, place, known)
  PROVE  pc' \in [Threads -> Places] /\ call' \in [Threads -> CallRecords(more)]
  <1>1. CallRecords(tokens) \subseteq CallRecords(more)
    BY DEF CallRecords
  <1>2. call \in [Threads -> CallRecords(more)]
    BY <1>1
  <1> QED
    BY <1>2 DEF Goto

(* A call that ends keeps its service and what became of its order.          *)
LEMMA EndEffect ==
  ASSUME pc \in [Threads -> Places], NEW tokens \in Nat,
         call \in [Threads -> CallRecords(tokens)],
         NEW t \in Threads, NEW known \in CallRecords(tokens), NEW code \in Codes,
         End(t, known, code)
  PROVE  /\ pc' \in [Threads -> Places] /\ call' \in [Threads -> CallRecords(tokens)]
         /\ pc'[t] = "ended"
         /\ call'[t].service = known.service /\ call'[t].taken = known.taken
         /\ call'[t].code = code
         /\ call'[t].token = NoToken /\ call'[t].rejected = NoToken
         /\ \A u \in Threads : u # t => pc'[u] = pc[u] /\ call'[u] = call[u]
  <1> DEFINE last == [NoCall EXCEPT !.service = known.service, !.taken = known.taken,
                                    !.code = code]
  <1>0. /\ known.service \in {"none", "quote", "chart", "order"} /\ known.taken \in Nat
        /\ NoCall \in CallRecords(tokens)
    BY DEF CallRecords, NoCall, NoToken, NoMode
  <1>1. last \in CallRecords(tokens)
    BY <1>0 DEF CallRecords
  <1>2. /\ last.service = known.service /\ last.taken = known.taken /\ last.code = code
        /\ last.token = NoToken /\ last.rejected = NoToken
    BY DEF NoCall, CallRecords
  <1>3. Goto(t, "ended", last)
    BY DEF End
  <1> HIDE DEF last
  <1>4. "ended" \in Places
    BY DEF Places
  <1> QED
    BY <1>1, <1>2, <1>3, <1>4, GotoTypes, GotoEffect

(* A call whose attempt raised is tried again or ends; in either case it     *)
(* lets go of its token, and a refused one is at most forgotten.             *)
LEMMA RaiseEffect ==
  ASSUME pc \in [Threads -> Places], NEW tokens \in Nat,
         call \in [Threads -> CallRecords(tokens)],
         NEW t \in Threads, NEW known \in CallRecords(tokens), NEW code \in Codes,
         Raise(t, known, code)
  PROVE  /\ pc' \in [Threads -> Places] /\ call' \in [Threads -> CallRecords(tokens)]
         /\ \/ pc'[t] = "authorising" /\ should_retry(known.service, code)
            \/ pc'[t] = "ended" /\ call'[t].code = code
         /\ call'[t].service = known.service /\ call'[t].taken = known.taken
         /\ call'[t].token = NoToken
         /\ call'[t].rejected \in {NoToken, known.rejected}
         /\ \A u \in Threads : u # t => pc'[u] = pc[u] /\ call'[u] = call[u]
  <1> DEFINE next == [known EXCEPT
                        !.attempt = @ + 1, !.resend = FALSE, !.token = NoToken,
                        !.has_forced_refresh = @ /\ known.service # "quote",
                        !.rejected = IF known.service = "quote" THEN NoToken ELSE @]
  <1>1. CASE /\ known.attempt < attempts(known.service)
             /\ should_retry(known.service, code)
    <2>0. /\ known.attempt + 1 \in Nat /\ NoToken \in 0..tokens
          /\ known.rejected \in 0..tokens
          /\ (known.has_forced_refresh /\ known.service # "quote") \in BOOLEAN
      BY DEF CallRecords, NoToken
    <2>1. next \in CallRecords(tokens)
      BY <2>0 DEF CallRecords
    <2>2. /\ next.service = known.service /\ next.taken = known.taken
          /\ next.token = NoToken /\ next.rejected \in {NoToken, known.rejected}
      BY DEF CallRecords
    <2>3. Goto(t, "authorising", next)
      BY <1>1 DEF Raise
    <2> HIDE DEF next
    <2>4. "authorising" \in Places
      BY DEF Places
    <2> QED
      BY <1>1, <2>1, <2>2, <2>3, <2>4, GotoTypes, GotoEffect
  <1>2. CASE ~(/\ known.attempt < attempts(known.service)
               /\ should_retry(known.service, code))
    BY <1>2, EndEffect DEF Raise
  <1> QED
    BY <1>1, <1>2

-----------------------------------------------------------------------------
(* The settings files.                                                       *)

(* The engine, the client and the settings service never leave a settings    *)
(* file that names credentials which were not written, for any number of     *)
(* saves and wherever the process dies (save_settings of csm/service.py).    *)
LEMMA SettingsStep ==
  ASSUME CsmInv, [Next]_vars
  PROVE  CsmInv'
  <1>1. CASE Settle
    BY <1>1, CsmStepKeeps DEF Settle
  <1>2. CASE StartEngine
    BY <1>2, CsmStartKeeps DEF StartEngine
  <1>3. CASE Crash
    BY <1>3, CsmCrashKeeps DEF Crash
  <1>4. ASSUME NEW t \in Threads, Begin(t) \/ CallStep(t) PROVE CsmInv'
    BY <1>4, CsmSilence
       DEF CallStep, Begin, Route, Authorise, Lock, Issue, IssueFails, Store, Send,
           Succeed, AnswerFromStore, Fail, Expire, Invalidate, Return, Outside
  <1>5. CASE TokenAges \/ UNCHANGED vars
    BY <1>5, CsmSilence DEF TokenAges, vars
  <1> QED
    BY <1>1, <1>2, <1>3, <1>4, <1>5 DEF Next

LEMMA FilesAgree == Spec => []CsmInv
  <1>1. Init => CsmInv
    BY CsmInitKeeps DEF Init
  <1> QED
    BY <1>1, SettingsStep, PTL DEF Spec

(* See SettingsStep.                                                         *)
THEOREM SettingsAreBacked == Spec => []SettingsNameWrittenCredentials
  <1>1. CsmInv => SettingsNameWrittenCredentials
    BY DEF CsmInv
  <1> QED
    BY <1>1, FilesAgree, PTL

-----------------------------------------------------------------------------
(* Types.                                                                    *)

(* What the broker's answers are called.                                     *)
LEMMA CodeFacts ==
  ASSUME transport \in {"raises", "returns"}
  PROVE  /\ \A status \in Statuses :
              /\ Code(status) \in Codes
              /\ Code(status) = "OK" <=> status = "200"
              /\ Code(status) = "KIA_AUTH_TOKEN_EXPIRED" => status = "401"
         /\ \A status \in Statuses \ (HttpErrors \cup {"200"}) : Code(status) \in Unanswered
         /\ IssueErrors \subseteq Codes
  <1>1. \A status \in Statuses :
          /\ Code(status) \in Codes
          /\ Code(status) = "OK" <=> status = "200"
          /\ Code(status) = "KIA_AUTH_TOKEN_EXPIRED" => status = "401"
    BY DEF Code, Codes, Statuses, HttpErrors
  <1>2. \A status \in Statuses \ (HttpErrors \cup {"200"}) : Code(status) \in Unanswered
    BY DEF Code, Statuses, HttpErrors, Unanswered
  <1>3. IssueErrors \subseteq Codes
    BY <1>1 DEF IssueErrors, Codes, Statuses
  <1> QED
    BY <1>1, <1>2, <1>3

(* The knowledge of no call.                                                 *)
LEMMA NoCallTypes ==
  ASSUME NEW tokens \in Nat
  PROVE  /\ NoCall \in CallRecords(tokens)
         /\ NoCall.token = NoToken /\ NoCall.rejected = NoToken /\ NoCall.taken = 0
  BY DEF NoCall, CallRecords, NoToken, NoMode

(* What an answer adds to the knowledge of a call in flight.                 *)
LEMMA ReceivedTypes ==
  ASSUME NEW tokens \in Nat, NEW t \in Threads, call[t] \in CallRecords(tokens),
         NEW a \in Answers
  PROVE  /\ received(t, a) \in CallRecords(tokens)
         /\ received(t, a).service = call[t].service
         /\ received(t, a).taken = call[t].taken + a.taken
         /\ received(t, a).token = call[t].token
         /\ received(t, a).rejected = call[t].rejected
         /\ a.status \in Statuses /\ a.taken \in {0, 1}
         /\ a.taken = 1 => a.status \notin HttpErrors
  <1>1. call[t].taken + a.taken \in Nat
    BY DEF CallRecords, Answers
  <1> QED
    BY <1>1 DEF received, CallRecords, Answers

(* The types of the parts that all steps of a call but those of the token    *)
(* leave alone.                                                              *)
LEMMA TypesStay ==
  ASSUME TypeOK, CsmTypeOK', UNCHANGED <<session_mode, transport>>,
         last_mode' \in Modes \cup {NoMode},
         cache' \in 0..issued', fresh' \in BOOLEAN, issued' \in 0..MaxTokens,
         token_lock' \in Threads \cup {NoThread}, rate_lock' \in Threads \cup {NoThread},
         store' \subseteq Keys \cup {NoToken}, calls' \in 0..MaxCalls,
         pc' \in [Threads -> Places] /\ call' \in [Threads -> CallRecords(issued')]
  PROVE  TypeOK'
  BY DEF TypeOK

LEMMA FreshTypes ==
  ASSUME FreshClient, CsmTypeOK', session_mode' \in Modes \cup {NoMode},
         transport' \in {"raises", "returns"}
  PROVE  TypeOK'
  <1>1. 0 \in 0..0 /\ 0 \in 0..MaxTokens /\ 0 \in 0..MaxCalls
    BY ClientAssumption
  <1>2. pc' \in [Threads -> Places]
    BY DEF FreshClient, Places
  <1>3. call' \in [Threads -> CallRecords(issued')]
    BY NoCallTypes DEF FreshClient
  <1> QED
    BY <1>1, <1>2, <1>3 DEF FreshClient, TypeOK, NoToken

LEMMA InitTypes == Init => TypeOK
  <1> SUFFICES ASSUME Init PROVE TypeOK
    OBVIOUS
  <1>1. 0 \in 0..0 /\ 0 \in 0..MaxTokens /\ 0 \in 0..MaxCalls
    BY ClientAssumption
  <1>2. pc \in [Threads -> Places]
    BY DEF Init, Places
  <1>3. call \in [Threads -> CallRecords(issued)]
    BY NoCallTypes DEF Init
  <1>4. CsmTypeOK
    BY CsmInitKeeps DEF Init, CsmInv
  <1> QED
    BY <1>1, <1>2, <1>3, <1>4 DEF Init, TypeOK, NoToken

(* One step per action of a call.                                            *)
LEMMA CallTypes ==
  ASSUME TypeOK, CsmInv, CsmInv', NEW t \in Threads, Begin(t) \/ CallStep(t)
  PROVE  TypeOK'
  <1>1. /\ pc \in [Threads -> Places] /\ call \in [Threads -> CallRecords(issued)]
        /\ call[t] \in CallRecords(issued) /\ issued \in Nat /\ cache \in Nat
        /\ transport \in {"raises", "returns"} /\ NoToken \in 0..issued
        /\ CsmTypeOK' /\ rate_lock \in Threads \cup {NoThread} /\ NoToken = 0
    BY ClientAssumption DEF TypeOK, CsmInv, NoToken
  <1>2. ASSUME NEW place \in Places, NEW known \in CallRecords(issued),
               Goto(t, place, known)
        PROVE  pc' \in [Threads -> Places] /\ call' \in [Threads -> CallRecords(issued)]
    BY <1>1, <1>2, GotoTypes
  <1>3. CASE Begin(t)
    <2>1. PICK service \in Services[t], key \in Keys :
            Goto(t, "routing",
                 [NoCall EXCEPT !.service = service, !.attempt = 1,
                                !.key = IF service = "order" THEN key ELSE NoToken,
                                !.mode = IF service = "order" THEN settings.mode
                                         ELSE session_mode])
      BY <1>3 DEF Begin
    <2> DEFINE known == [NoCall EXCEPT !.service = service, !.attempt = 1,
                                !.key = IF service = "order" THEN key ELSE NoToken,
                                !.mode = IF service = "order" THEN settings.mode
                                         ELSE session_mode]
    <2>2. service \in {"quote", "chart", "order"}
      BY ClientAssumption
    <2>3. settings.mode \in Modes
      BY <1>3 DEF Begin, CsmInv, CsmTypeOK, Settings
    <2>4. session_mode \in Modes \cup {NoMode}
      BY DEF TypeOK
    <2>5. known \in CallRecords(issued)
      <3>1. (IF service = "order" THEN key ELSE NoToken) \in Keys \cup {NoToken}
        OBVIOUS
      <3>2. (IF service = "order" THEN settings.mode ELSE session_mode)
              \in Modes \cup {NoMode}
        BY <2>3, <2>4
      <3>3. ASSUME NEW k \in Keys \cup {NoToken}, NEW m \in Modes \cup {NoMode}
            PROVE  [NoCall EXCEPT !.service = service, !.attempt = 1, !.key = k, !.mode = m]
                     \in CallRecords(issued)
        BY <1>1, <2>2, NoCallTypes DEF CallRecords
      <3> QED
        BY <3>1, <3>2, <3>3
    <2> HIDE DEF known
    <2>6. calls' \in 0..MaxCalls
      <3>1. calls' = calls + 1 /\ calls < MaxCalls
        BY <1>3 DEF Begin
      <3> QED
        BY <3>1, ClientAssumption DEF TypeOK
    <2>7. pc' \in [Threads -> Places] /\ call' \in [Threads -> CallRecords(issued)]
      BY <1>2, <2>1, <2>5 DEF known, Places
    <2> QED
      BY <1>1, <1>3, <2>6, <2>7, TypesStay DEF Begin, TypeOK, clientVars, tokenVars
  <1>4. CASE Route(t)
    <2>1. last_mode' \in Modes \cup {NoMode}
      BY <1>1, <1>4 DEF Route, CallRecords
    <2>2. pc' \in [Threads -> Places] /\ call' \in [Threads -> CallRecords(issued)]
      BY <1>1, <1>2, <1>4, EndEffect DEF Route, MockKiaApiClient, Places, Codes
    <2>3. cache' \in 0..issued /\ fresh' \in BOOLEAN
      BY <1>1, <1>4 DEF Route, invalidate, TypeOK
    <2> QED
      BY <1>1, <1>4, <2>1, <2>2, <2>3, TypesStay DEF Route, TypeOK, Outside
  <1>5. CASE Authorise(t)
    <2>1. [call[t] EXCEPT !.token = cache] \in CallRecords(issued)
      BY <1>1 DEF TypeOK, CallRecords
    <2>2. pc' \in [Threads -> Places] /\ call' \in [Threads -> CallRecords(issued)]
      BY <1>1, <1>2, <1>5, <2>1 DEF Authorise, Places
    <2> QED
      BY <1>1, <1>5, <2>2, TypesStay DEF Authorise, TypeOK, Outside, clientVars, tokenVars
  <1>6. CASE Lock(t)
    <2>1. [call[t] EXCEPT !.token = cache] \in CallRecords(issued)
      BY <1>1 DEF TypeOK, CallRecords
    <2>2. pc' \in [Threads -> Places] /\ call' \in [Threads -> CallRecords(issued)]
      BY <1>1, <1>2, <1>6, <2>1 DEF Lock, Places
    <2> QED
      BY <1>1, <1>6, <2>2, TypesStay DEF Lock, TypeOK, Outside
  <1>7. CASE Issue(t)
    <2>1. /\ issued' = issued + 1 /\ issued' \in 0..MaxTokens /\ issued' \in Nat
          /\ issued <= issued' /\ cache \in 0..issued'
      BY <1>1, <1>7, ClientAssumption DEF Issue, TypeOK
    <2>2. call[t] \in CallRecords(issued')
      BY <1>1, <2>1 DEF CallRecords
    <2>3. [call[t] EXCEPT !.token = issued + 1] \in CallRecords(issued')
      BY <2>1, <2>2 DEF CallRecords
    <2>4. "storing" \in Places
      BY DEF Places
    <2>5. pc' \in [Threads -> Places] /\ call' \in [Threads -> CallRecords(issued')]
      BY <1>1, <1>7, <2>1, <2>3, <2>4, GotoTypes DEF Issue
    <2> QED
      BY <1>1, <1>7, <2>1, <2>5, TypesStay DEF Issue, TypeOK, Outside, tokenVars
  <1>8. CASE IssueFails(t)
    <2>1. PICK code \in IssueErrors : Raise(t, call[t], code)
      BY <1>8 DEF IssueFails
    <2>2. code \in Codes
      BY <1>1, CodeFacts
    <2>3. pc' \in [Threads -> Places] /\ call' \in [Threads -> CallRecords(issued)]
      BY <1>1, <2>1, <2>2, RaiseEffect
    <2> QED
      BY <1>1, <1>8, <2>3, TypesStay DEF IssueFails, TypeOK, Outside
  <1>9. CASE Store(t)
    <2>1. call[t].token \in 0..issued
      BY <1>1 DEF CallRecords
    <2>2. pc' \in [Threads -> Places] /\ call' \in [Threads -> CallRecords(issued)]
      BY <1>1, <1>2, <1>9 DEF Store, Places
    <2> QED
      BY <1>1, <1>9, <2>1, <2>2, TypesStay DEF Store, TypeOK, Outside
  <1>10. CASE Send(t)
    <2>1. pc' \in [Threads -> Places] /\ call' \in [Threads -> CallRecords(issued)]
      BY <1>1, <1>2, <1>10 DEF Send, Places
    <2> QED
      BY <1>1, <1>10, <2>1, TypesStay
         DEF Send, enforce_quote_rate_limit, request_guard, TypeOK, Outside, tokenVars
  <1>11. CASE Succeed(t)
    <2>1. PICK a \in Answers : Answered(t, a) /\ End(t, received(t, a), "OK")
      BY <1>11 DEF Succeed
    <2>2. pc' \in [Threads -> Places] /\ call' \in [Threads -> CallRecords(issued)]
      BY <1>1, <2>1, ReceivedTypes, EndEffect DEF Codes
    <2>3. rate_lock' \in Threads \cup {NoThread}
      BY <1>1, <2>1 DEF Answered
    <2>4. call[t].key \in Keys \cup {NoToken}
      BY <1>1 DEF CallRecords
    <2> QED
      BY <1>1, <1>11, <2>2, <2>3, <2>4, TypesStay DEF Succeed, TypeOK, Outside, tokenVars
  <1>12. CASE AnswerFromStore(t)
    <2>1. PICK a \in Answers : Answered(t, a) /\ End(t, received(t, a), "OK")
      BY <1>12 DEF AnswerFromStore
    <2>2. pc' \in [Threads -> Places] /\ call' \in [Threads -> CallRecords(issued)]
      BY <1>1, <2>1, ReceivedTypes, EndEffect DEF Codes
    <2>3. rate_lock' \in Threads \cup {NoThread}
      BY <1>1, <2>1 DEF Answered
    <2> QED
      BY <1>1, <1>12, <2>2, <2>3, TypesStay DEF AnswerFromStore, TypeOK, Outside, tokenVars
  <1>13. CASE Fail(t)
    <2>1. PICK a \in Answers : Answered(t, a) /\ Raise(t, received(t, a), Code(a.status))
      BY <1>13 DEF Fail
    <2>2. pc' \in [Threads -> Places] /\ call' \in [Threads -> CallRecords(issued)]
      BY <1>1, <2>1, ReceivedTypes, RaiseEffect, CodeFacts
    <2>3. rate_lock' \in Threads \cup {NoThread}
      BY <1>1, <2>1 DEF Answered
    <2> QED
      BY <1>1, <1>13, <2>2, <2>3, TypesStay DEF Fail, TypeOK, Outside, tokenVars
  <1>14. CASE Expire(t)
    <2>1. PICK a \in Answers :
            /\ Answered(t, a)
            /\ Goto(t, "expired", [received(t, a) EXCEPT !.has_forced_refresh = TRUE,
                                                         !.resend = TRUE])
      BY <1>14 DEF Expire
    <2>2. received(t, a) \in CallRecords(issued)
      BY <1>1, ReceivedTypes
    <2>3. [received(t, a) EXCEPT !.has_forced_refresh = TRUE, !.resend = TRUE]
            \in CallRecords(issued)
      BY <2>2 DEF CallRecords
    <2>4. pc' \in [Threads -> Places] /\ call' \in [Threads -> CallRecords(issued)]
      BY <1>2, <2>1, <2>3 DEF Places
    <2>5. rate_lock' \in Threads \cup {NoThread}
      BY <1>1, <2>1 DEF Answered
    <2> QED
      BY <1>1, <1>14, <2>4, <2>5, TypesStay DEF Expire, TypeOK, Outside, tokenVars
  <1>15. CASE Invalidate(t)
    <2>1. [call[t] EXCEPT !.rejected = call[t].token, !.token = NoToken]
            \in CallRecords(issued)
      BY <1>1 DEF CallRecords
    <2>2. pc' \in [Threads -> Places] /\ call' \in [Threads -> CallRecords(issued)]
      BY <1>2, <1>15, <2>1 DEF Invalidate, Places
    <2> QED
      BY <1>1, <1>15, <2>2, TypesStay DEF Invalidate, invalidate, TypeOK, Outside
  <1>16. CASE Return(t)
    <2>1. pc' \in [Threads -> Places] /\ call' \in [Threads -> CallRecords(issued)]
      BY <1>1, <1>2, <1>16, NoCallTypes DEF Return, Places
    <2> QED
      BY <1>1, <1>16, <2>1, TypesStay DEF Return, TypeOK, Outside, clientVars, tokenVars
  <1> QED
    BY <1>3, <1>4, <1>5, <1>6, <1>7, <1>8, <1>9, <1>10, <1>11, <1>12, <1>13, <1>14,
       <1>15, <1>16 DEF CallStep

(* Every variable keeps its type: threads, locks, tokens and calls stay      *)
(* within what the client can be in, for any number of each.                 *)
THEOREM TypeCorrect == Spec => []TypeOK
  <1>1. ASSUME TypeOK, CsmInv, CsmInv', [Next]_vars PROVE TypeOK'
    <2>0. CsmTypeOK'
      BY <1>1 DEF CsmInv
    <2>1. CASE Settle
      BY <1>1, <2>0, <2>1 DEF Settle, TypeOK, clientVars, tokenVars, callVars
    <2>2. CASE StartEngine
      <3>1. session_mode' \in Modes
        BY <1>1, <2>2 DEF StartEngine, CsmInv, CsmTypeOK, Settings
      <3> QED
        BY <1>1, <2>0, <2>2, <3>1, FreshTypes DEF StartEngine, TypeOK
    <2>3. CASE Crash
      BY <1>1, <2>0, <2>3, FreshTypes DEF Crash, TypeOK
    <2>4. ASSUME NEW t \in Threads, Begin(t) \/ CallStep(t) PROVE TypeOK'
      BY <1>1, <2>4, CallTypes
    <2>5. CASE TokenAges
      BY <1>1, <2>0, <2>5 DEF TokenAges, TypeOK, callVars
    <2>6. CASE UNCHANGED vars
      BY <1>1, <2>0, <2>6 DEF vars, TypeOK, clientVars, tokenVars, callVars
    <2> QED
      BY <1>1, <2>1, <2>2, <2>3, <2>4, <2>5, <2>6 DEF Next
  <1> QED
    BY <1>1, InitTypes, FilesAgree, PTL DEF Spec

-----------------------------------------------------------------------------
(* The token.                                                                *)

(* The token lock is held exactly by the thread that asks the broker for a   *)
(* token or puts one into the cache.                                         *)
LockIsHeld ==
  \A t \in Threads : pc[t] \in {"issuing", "storing"} <=> token_lock = t

(* A token on its way into the cache is the newest, and nobody else knows it.*)
NewTokenIsUnknown ==
  \A t \in Threads :
    pc[t] = "storing" =>
      /\ call[t].token = issued /\ cache < issued
      /\ \A u \in Threads : /\ call[u].rejected < issued
                            /\ u # t => call[u].token < issued

(* What a call knows of a refused token: it and all before it are gone.      *)
RefusedIsOld ==
  \A t \in Threads :
    call[t].rejected # NoToken =>
      /\ cache # NoToken => cache > call[t].rejected
      /\ call[t].token # NoToken => call[t].token > call[t].rejected

TokenInv == LockIsHeld /\ NewTokenIsUnknown /\ RefusedIsOld /\ CachedTokenIsNewest

(* The numbers of the tokens.                                                *)
LEMMA TokenNumbers ==
  ASSUME TypeOK
  PROVE  /\ cache \in Nat /\ issued \in Nat /\ cache <= issued /\ NoToken = 0
         /\ \A t \in Threads : /\ call[t].token \in Nat /\ call[t].token <= issued
                              /\ call[t].rejected \in Nat /\ call[t].rejected <= issued
         /\ token_lock \in Threads \cup {NoThread} /\ NoThread \notin Threads
         /\ pc \in [Threads -> Places] /\ call \in [Threads -> CallRecords(issued)]
  <1>1. issued \in Nat
    BY ClientAssumption DEF TypeOK
  <1> QED
    BY <1>1, ClientAssumption DEF TypeOK, CallRecords, NoToken

(* A step of a thread that neither holds the lock nor takes it, learns at    *)
(* most the cached token and at most empties the cache.                      *)
LEMMA QuietStep ==
  ASSUME TypeOK, TypeOK', TokenInv, NEW t \in Threads,
         pc[t] \notin {"issuing", "storing"}, pc'[t] \notin {"issuing", "storing"},
         \A u \in Threads : u # t => pc'[u] = pc[u] /\ call'[u] = call[u],
         UNCHANGED <<token_lock, issued>>, cache' \in {NoToken, cache},
         call'[t].token \in {NoToken, call[t].token, cache},
         call'[t].rejected \in {NoToken, call[t].rejected}
  PROVE  TokenInv'
  <1>1. LockIsHeld'
    BY DEF TokenInv, LockIsHeld
  <1>2. NewTokenIsUnknown'
    BY TokenNumbers DEF TokenInv, NewTokenIsUnknown
  <1>3. RefusedIsOld'
    BY TokenNumbers DEF TokenInv, RefusedIsOld
  <1>4. CachedTokenIsNewest'
    BY TokenNumbers DEF TokenInv, CachedTokenIsNewest
  <1> QED
    BY <1>1, <1>2, <1>3, <1>4 DEF TokenInv

(* One step per action of a call.                                            *)
LEMMA CallTokens ==
  ASSUME TypeOK, TypeOK', TokenInv, NEW t \in Threads, Begin(t) \/ CallStep(t)
  PROVE  TokenInv'
  <1>1. /\ pc \in [Threads -> Places] /\ call \in [Threads -> CallRecords(issued)]
        /\ call[t] \in CallRecords(issued) /\ issued \in Nat
        /\ transport \in {"raises", "returns"}
    BY ClientAssumption DEF TypeOK
  <1>2. ASSUME NEW place, NEW known, Goto(t, place, known)
        PROVE  /\ pc'[t] = place /\ call'[t] = known
               /\ \A u \in Threads : u # t => pc'[u] = pc[u] /\ call'[u] = call[u]
    BY <1>1, <1>2, GotoEffect
  <1>3. CASE Begin(t)
    <2>1. PICK service \in Services[t], key \in Keys :
            Goto(t, "routing",
                 [NoCall EXCEPT !.service = service, !.attempt = 1,
                                !.key = IF service = "order" THEN key ELSE NoToken,
                                !.mode = IF service = "order" THEN settings.mode
                                         ELSE session_mode])
      BY <1>3 DEF Begin
    <2> DEFINE known == [NoCall EXCEPT !.service = service, !.attempt = 1,
                                !.key = IF service = "order" THEN key ELSE NoToken,
                                !.mode = IF service = "order" THEN settings.mode
                                         ELSE session_mode]
    <2>2. known.token = NoToken /\ known.rejected = NoToken
      BY DEF NoCall
    <2>3. Goto(t, "routing", known)
      BY <2>1
    <2> HIDE DEF known
    <2>4. /\ call'[t].token = NoToken /\ call'[t].rejected = NoToken
          /\ pc[t] = "idle" /\ pc'[t] = "routing"
          /\ \A u \in Threads : u # t => pc'[u] = pc[u] /\ call'[u] = call[u]
      BY <1>2, <1>3, <2>2, <2>3 DEF Begin
    <2> QED
      BY <1>3, <2>4, QuietStep DEF Begin, clientVars, tokenVars
  <1>4. CASE Route(t)
    <2>1. /\ call'[t].token \in {NoToken, call[t].token}
          /\ call'[t].rejected \in {NoToken, call[t].rejected}
          /\ pc'[t] \in {"ended", "authorising"}
          /\ \A u \in Threads : u # t => pc'[u] = pc[u] /\ call'[u] = call[u]
      <3>1. CASE End(t, call[t], "OK")
        BY <1>1, <3>1, EndEffect DEF Codes
      <3>2. CASE Goto(t, "authorising", call[t])
        BY <1>2, <3>2
      <3> QED
        BY <1>4, <3>1, <3>2 DEF Route, MockKiaApiClient
    <2>2. cache' \in {NoToken, cache}
      BY <1>4 DEF Route, invalidate
    <2> QED
      BY <1>4, <2>1, <2>2, QuietStep DEF Route
  <1>5. CASE Authorise(t)
    <2>1. /\ call'[t].token \in {call[t].token, cache} /\ call'[t].rejected = call[t].rejected
          /\ pc'[t] \in {"ready", "locking"}
          /\ \A u \in Threads : u # t => pc'[u] = pc[u] /\ call'[u] = call[u]
      BY <1>1, <1>2, <1>5 DEF Authorise, CallRecords
    <2> QED
      BY <1>5, <2>1, QuietStep DEF Authorise, clientVars, tokenVars
  <1>6. CASE Lock(t)
    <2>1. CASE pc[t] = "locking" /\ usable
      <3>1. /\ call'[t].token = cache /\ call'[t].rejected = call[t].rejected
            /\ pc'[t] = "ready"
            /\ \A u \in Threads : u # t => pc'[u] = pc[u] /\ call'[u] = call[u]
        BY <1>1, <1>2, <1>6, <2>1 DEF Lock, CallRecords
      <3> QED
        BY <1>6, <2>1, <3>1, QuietStep DEF Lock
    <2>2. CASE ~(pc[t] = "locking" /\ usable)
      <3>1. /\ pc'[t] = "issuing" /\ call' = call /\ token_lock = NoThread /\ token_lock' = t
            /\ \A u \in Threads : u # t => pc'[u] = pc[u]
            /\ UNCHANGED <<cache, issued>> /\ pc[t] \in {"locking", "refreshing"}
        BY <1>1, <1>2, <1>6, <2>2 DEF Lock, Goto
      <3> QED
        BY <3>1, TokenNumbers
           DEF TokenInv, LockIsHeld, NewTokenIsUnknown, RefusedIsOld, CachedTokenIsNewest
    <2> QED
      BY <2>1, <2>2
  <1>7. CASE Issue(t)
    <2>1. /\ pc[t] = "issuing" /\ pc'[t] = "storing"
          /\ call'[t].token = issued + 1 /\ call'[t].rejected = call[t].rejected
          /\ \A u \in Threads : u # t => pc'[u] = pc[u] /\ call'[u] = call[u]
          /\ issued' = issued + 1 /\ UNCHANGED <<cache, token_lock>>
      BY <1>1, <1>2, <1>7 DEF Issue, CallRecords, tokenVars
    <2>2. LockIsHeld'
      BY <2>1 DEF TokenInv, LockIsHeld
    <2>3. \A u \in Threads : u # t => pc'[u] # "storing"
      BY <2>1 DEF TokenInv, LockIsHeld
    <2>4. NewTokenIsUnknown'
      BY <2>1, <2>3, TokenNumbers DEF NewTokenIsUnknown
    <2>5. RefusedIsOld'
      BY <2>1, TokenNumbers DEF TokenInv, RefusedIsOld
    <2>6. CachedTokenIsNewest'
      BY <2>1 DEF CachedTokenIsNewest
    <2> QED
      BY <2>2, <2>4, <2>5, <2>6 DEF TokenInv
  <1>8. CASE IssueFails(t)
    <2>1. PICK code \in IssueErrors : Raise(t, call[t], code)
      BY <1>8 DEF IssueFails
    <2>2. code \in Codes
      BY <1>1, CodeFacts
    <2>3. /\ call'[t].token = NoToken /\ call'[t].rejected \in {NoToken, call[t].rejected}
          /\ pc'[t] \in {"authorising", "ended"} /\ pc[t] = "issuing"
          /\ \A u \in Threads : u # t => pc'[u] = pc[u] /\ call'[u] = call[u]
          /\ token_lock' = NoThread /\ UNCHANGED <<cache, issued>>
      BY <1>1, <1>8, <2>1, <2>2, RaiseEffect DEF IssueFails
    <2> QED
      BY <2>3, TokenNumbers
         DEF TokenInv, LockIsHeld, NewTokenIsUnknown, RefusedIsOld, CachedTokenIsNewest
  <1>9. CASE Store(t)
    <2>1. /\ pc[t] = "storing" /\ pc'[t] = "ready" /\ call' = call
          /\ \A u \in Threads : u # t => pc'[u] = pc[u]
          /\ cache' = call[t].token /\ token_lock' = NoThread /\ UNCHANGED issued
      BY <1>1, <1>2, <1>9 DEF Store, Goto
    <2>2. \A u \in Threads : u # t => pc[u] \notin {"issuing", "storing"}
      BY <2>1 DEF TokenInv, LockIsHeld
    <2>3. cache' = issued /\ \A u \in Threads : call[u].rejected < issued
      BY <2>1 DEF TokenInv, NewTokenIsUnknown
    <2> QED
      BY <2>1, <2>2, <2>3, TokenNumbers
         DEF TokenInv, LockIsHeld, NewTokenIsUnknown, RefusedIsOld, CachedTokenIsNewest
  <1>10. CASE Send(t) \/ Return(t)
    <2>1. /\ call'[t].token \in {NoToken, call[t].token}
          /\ call'[t].rejected \in {NoToken, call[t].rejected}
          /\ pc[t] \in {"ready", "ended"} /\ pc'[t] \in {"in flight", "idle"}
          /\ \A u \in Threads : u # t => pc'[u] = pc[u] /\ call'[u] = call[u]
      BY <1>1, <1>2, <1>10, NoCallTypes DEF Send, Return
    <2> QED
      BY <1>10, <2>1, QuietStep DEF Send, Return, clientVars, tokenVars
  <1>11. CASE Succeed(t) \/ AnswerFromStore(t)
    <2>1. PICK a \in Answers : Answered(t, a) /\ End(t, received(t, a), "OK")
      BY <1>11 DEF Succeed, AnswerFromStore
    <2>2. /\ call'[t].token = NoToken /\ call'[t].rejected = NoToken
          /\ pc[t] = "in flight" /\ pc'[t] = "ended"
          /\ \A u \in Threads : u # t => pc'[u] = pc[u] /\ call'[u] = call[u]
      BY <1>1, <2>1, ReceivedTypes, EndEffect DEF Answered, Codes
    <2> QED
      BY <1>11, <2>2, QuietStep DEF Succeed, AnswerFromStore, tokenVars
  <1>12. CASE Fail(t)
    <2>1. PICK a \in Answers : Answered(t, a) /\ Raise(t, received(t, a), Code(a.status))
      BY <1>12 DEF Fail
    <2>2. /\ received(t, a) \in CallRecords(issued) /\ Code(a.status) \in Codes
          /\ received(t, a).rejected = call[t].rejected
      BY <1>1, ReceivedTypes, CodeFacts
    <2>3. /\ call'[t].token = NoToken /\ call'[t].rejected \in {NoToken, call[t].rejected}
          /\ pc[t] = "in flight" /\ pc'[t] \in {"authorising", "ended"}
          /\ \A u \in Threads : u # t => pc'[u] = pc[u] /\ call'[u] = call[u]
      BY <1>1, <2>1, <2>2, RaiseEffect DEF Answered
    <2> QED
      BY <1>12, <2>3, QuietStep DEF Fail, tokenVars
  <1>13. CASE Expire(t)
    <2>1. PICK a \in Answers :
            /\ Answered(t, a)
            /\ Goto(t, "expired", [received(t, a) EXCEPT !.has_forced_refresh = TRUE,
                                                         !.resend = TRUE])
      BY <1>13 DEF Expire
    <2>2. /\ received(t, a) \in CallRecords(issued)
          /\ received(t, a).token = call[t].token
          /\ received(t, a).rejected = call[t].rejected
      BY <1>1, ReceivedTypes
    <2> DEFINE known == [received(t, a) EXCEPT !.has_forced_refresh = TRUE, !.resend = TRUE]
    <2>4. known.token = call[t].token /\ known.rejected = call[t].rejected
      BY <2>2 DEF CallRecords
    <2>5. Goto(t, "expired", known)
      BY <2>1
    <2> HIDE DEF known
    <2>3. /\ call'[t].token = call[t].token /\ call'[t].rejected = call[t].rejected
          /\ pc[t] = "in flight" /\ pc'[t] = "expired"
          /\ \A u \in Threads : u # t => pc'[u] = pc[u] /\ call'[u] = call[u]
      BY <1>2, <2>1, <2>4, <2>5 DEF Answered
    <2> QED
      BY <1>13, <2>3, QuietStep DEF Expire, tokenVars
  <1>14. CASE Invalidate(t)
    <2> DEFINE known == [call[t] EXCEPT !.rejected = call[t].token, !.token = NoToken]
    <2>2. known.token = NoToken /\ known.rejected = call[t].token
      BY <1>1 DEF CallRecords
    <2>3. Goto(t, "refreshing", known)
      BY <1>14 DEF Invalidate
    <2> HIDE DEF known
    <2>1. /\ call'[t].token = NoToken /\ call'[t].rejected = call[t].token
          /\ pc[t] = "expired" /\ pc'[t] = "refreshing"
          /\ \A u \in Threads : u # t => pc'[u] = pc[u] /\ call'[u] = call[u]
          /\ cache' = NoToken /\ UNCHANGED <<token_lock, issued>>
      BY <1>2, <1>14, <2>2, <2>3 DEF Invalidate, invalidate
    <2> QED
      BY <2>1, TokenNumbers
         DEF TokenInv, LockIsHeld, NewTokenIsUnknown, RefusedIsOld, CachedTokenIsNewest
  <1> QED
    BY <1>3, <1>4, <1>5, <1>6, <1>7, <1>8, <1>9, <1>10, <1>11, <1>12, <1>13, <1>14
       DEF CallStep

LEMMA TokensAgree == Spec => []TokenInv
  <1> USE DEF TokenInv, LockIsHeld, NewTokenIsUnknown, RefusedIsOld, CachedTokenIsNewest
  <1>1. Init => TokenInv
    BY ClientAssumption DEF Init, NoCall
  <1>2. ASSUME FreshClient PROVE TokenInv'
    BY <1>2, ClientAssumption DEF FreshClient, NoCall
  <1>3. ASSUME TypeOK, TypeOK', TokenInv, [Next]_vars PROVE TokenInv'
    <2>1. CASE Settle
      BY <1>3, <2>1 DEF Settle, clientVars, tokenVars, callVars
    <2>2. CASE StartEngine \/ Crash
      BY <1>2, <2>2 DEF StartEngine, Crash
    <2>3. ASSUME NEW t \in Threads, Begin(t) \/ CallStep(t) PROVE TokenInv'
      BY <1>3, <2>3, CallTokens
    <2>4. CASE TokenAges \/ UNCHANGED vars
      BY <1>3, <2>4 DEF TokenAges, vars, clientVars, tokenVars, callVars
    <2> QED
      BY <1>3, <2>1, <2>2, <2>3, <2>4 DEF Next
  <1> QED
    BY <1>1, <1>3, TypeCorrect, PTL DEF Spec

(* The cache holds the newest token or none: two threads whose token expires *)
(* at once refresh it twice, but never put an older one back (invalidate and *)
(* force_refresh of token_provider.py).                                      *)
THEOREM CacheIsNewest == Spec => []CachedTokenIsNewest
  <1>1. TokenInv => CachedTokenIsNewest
    BY DEF TokenInv
  <1> QED
    BY <1>1, TokensAgree, PTL

(* A token that a call has seen refused never comes back into the cache, and *)
(* the call is sent again with a newer one only (LiveKiaApiClient.call).     *)
THEOREM RefusedTokensAreGone == Spec => []RejectedTokenIsGone
  <1>1. TypeOK /\ TokenInv => RejectedTokenIsGone
    BY TokenNumbers DEF TokenInv, RefusedIsOld, RejectedTokenIsGone
  <1> QED
    BY <1>1, TypeCorrect, TokensAgree, PTL

-----------------------------------------------------------------------------
(* The orders.                                                               *)

(* A call that goes on has nothing in the broker's book: an order that may   *)
(* have been taken ends its call, as done or as not answered.                *)
TakenEnds ==
  \A t \in Threads :
    \/ call[t].taken = 0
    \/ /\ call[t].taken = 1
       /\ pc[t] = "ended" /\ call[t].code \in {"OK"} \cup Unanswered

(* A step that takes no order.                                               *)
LEMMA NothingTaken ==
  ASSUME TakenEnds, NEW t \in Threads, pc[t] # "ended" \/ call'[t].taken = 0,
         call'[t].taken \in {0, call[t].taken},
         \A u \in Threads : u # t => pc'[u] = pc[u] /\ call'[u] = call[u]
  PROVE  TakenEnds'
  BY DEF TakenEnds

(* One step per way an action of a call may change the fate of its order.    *)
LEMMA CallOrders ==
  ASSUME TypeOK, TakenEnds, NEW t \in Threads, Begin(t) \/ CallStep(t)
  PROVE  TakenEnds'
  <1>1. /\ pc \in [Threads -> Places] /\ call \in [Threads -> CallRecords(issued)]
        /\ call[t] \in CallRecords(issued) /\ issued \in Nat
        /\ transport \in {"raises", "returns"}
    BY ClientAssumption DEF TypeOK
  <1>2. ASSUME NEW place, NEW known, Goto(t, place, known)
        PROVE  /\ pc'[t] = place /\ call'[t] = known
               /\ \A u \in Threads : u # t => pc'[u] = pc[u] /\ call'[u] = call[u]
    BY <1>1, <1>2, GotoEffect
  <1>3. CASE Begin(t)
    <2>1. PICK service \in Services[t], key \in Keys :
            Goto(t, "routing",
                 [NoCall EXCEPT !.service = service, !.attempt = 1,
                                !.key = IF service = "order" THEN key ELSE NoToken,
                                !.mode = IF service = "order" THEN settings.mode
                                         ELSE session_mode])
      BY <1>3 DEF Begin
    <2> DEFINE known == [NoCall EXCEPT !.service = service, !.attempt = 1,
                                !.key = IF service = "order" THEN key ELSE NoToken,
                                !.mode = IF service = "order" THEN settings.mode
                                         ELSE session_mode]
    <2>2. known.taken = 0
      BY DEF NoCall
    <2>3. Goto(t, "routing", known)
      BY <2>1
    <2> HIDE DEF known
    <2> QED
      BY <1>2, <2>2, <2>3, NothingTaken
  <1>4. CASE Route(t)
    <2>1. /\ call'[t].taken = call[t].taken /\ pc[t] = "routing"
          /\ \A u \in Threads : u # t => pc'[u] = pc[u] /\ call'[u] = call[u]
      <3>1. CASE End(t, call[t], "OK")
        BY <1>1, <1>4, <3>1, EndEffect DEF Codes, Route
      <3>2. CASE Goto(t, "authorising", call[t])
        BY <1>2, <1>4, <3>2 DEF Route
      <3> QED
        BY <1>4, <3>1, <3>2 DEF Route, MockKiaApiClient
    <2> QED
      BY <2>1, NothingTaken
  <1>5. CASE Authorise(t) \/ Lock(t) \/ Issue(t) \/ Store(t) \/ Send(t) \/ Invalidate(t)
    <2>1. ASSUME NEW known, call'[t] = known, known.taken = call[t].taken, pc[t] # "ended",
                 \A u \in Threads : u # t => pc'[u] = pc[u] /\ call'[u] = call[u]
          PROVE  TakenEnds'
      BY <2>1, NothingTaken
    <2>2. ASSUME NEW token
          PROVE  [call[t] EXCEPT !.token = token].taken = call[t].taken
      BY <1>1 DEF CallRecords
    <2>3. [call[t] EXCEPT !.rejected = call[t].token, !.token = NoToken].taken = call[t].taken
      BY <1>1 DEF CallRecords
    <2>4. PICK place, known : Goto(t, place, known) /\ known.taken = call[t].taken
      BY <1>5, <2>2, <2>3 DEF Authorise, Lock, Issue, Store, Send, Invalidate
    <2>5. pc[t] # "ended"
      BY <1>5 DEF Authorise, Lock, Issue, Store, Send, Invalidate
    <2> QED
      BY <1>2, <2>1, <2>4, <2>5
  <1>6. CASE IssueFails(t)
    <2>1. PICK code \in IssueErrors : Raise(t, call[t], code)
      BY <1>6 DEF IssueFails
    <2>2. code \in Codes
      BY <1>1, CodeFacts
    <2>3. pc[t] = "issuing"
      BY <1>6 DEF IssueFails
    <2> QED
      BY <1>1, <2>1, <2>2, <2>3, RaiseEffect, NothingTaken
  <1>7. CASE Succeed(t) \/ AnswerFromStore(t)
    <2>1. PICK a \in Answers : Answered(t, a) /\ End(t, received(t, a), "OK")
      BY <1>7 DEF Succeed, AnswerFromStore
    <2>2. call[t].taken = 0
      BY <2>1 DEF Answered, TakenEnds
    <2>3. /\ call'[t].taken \in {0, 1} /\ pc'[t] = "ended" /\ call'[t].code = "OK"
          /\ \A u \in Threads : u # t => pc'[u] = pc[u] /\ call'[u] = call[u]
      BY <1>1, <2>1, <2>2, ReceivedTypes, EndEffect DEF Codes
    <2> QED
      BY <2>3 DEF TakenEnds
  <1>8. CASE Fail(t)
    <2>1. PICK a \in Answers : /\ Answered(t, a) /\ Code(a.status) # "OK"
                               /\ Raise(t, received(t, a), Code(a.status))
      BY <1>8 DEF Fail
    <2> DEFINE known == received(t, a)
               code == Code(a.status)
    <2>2. pc[t] = "in flight" /\ call[t].taken = 0
      BY <2>1 DEF Answered, TakenEnds
    <2>3. /\ known \in CallRecords(issued) /\ code \in Codes
          /\ known.taken = 0 + a.taken /\ a.taken \in {0, 1}
          /\ known.service = call[t].service
      BY <1>1, <2>2, ReceivedTypes, CodeFacts
    <2>4. Raise(t, known, code)
      BY <2>1
    <2>5. a.taken = 1 => code \in Unanswered /\ known.service = "order"
      <3>1. a.taken = 1 => a.status \in Statuses \ (HttpErrors \cup {"200"})
        BY <1>1, <2>1, ReceivedTypes, CodeFacts
      <3> QED
        BY <1>1, <2>1, <2>3, <3>1, CodeFacts DEF Answered
    <2> HIDE DEF known, code
    <2>6. /\ \/ pc'[t] = "authorising" /\ should_retry(known.service, code)
             \/ pc'[t] = "ended" /\ call'[t].code = code
          /\ call'[t].taken = known.taken
          /\ \A u \in Threads : u # t => pc'[u] = pc[u] /\ call'[u] = call[u]
      BY <1>1, <2>3, <2>4, RaiseEffect
    <2>7. CASE a.taken = 0
      <3>1. call'[t].taken = 0
        BY <2>3, <2>6, <2>7
      <3> QED
        BY <2>2, <2>6, <3>1, NothingTaken
    <2>8. CASE a.taken = 1
      <3>1. \A c \in Unanswered : ~should_retry("order", c)
        BY DEF should_retry, Unanswered
      <3>2. /\ pc'[t] = "ended" /\ call'[t].code \in Unanswered /\ call'[t].taken = 1
        BY <2>3, <2>5, <2>6, <2>8, <3>1
      <3> QED
        BY <2>6, <3>2 DEF TakenEnds
    <2> QED
      BY <2>3, <2>7, <2>8
  <1>9. CASE Expire(t)
    <2>1. PICK a \in Answers :
            /\ Answered(t, a) /\ Expired(t, a)
            /\ Goto(t, "expired", [received(t, a) EXCEPT !.has_forced_refresh = TRUE,
                                                         !.resend = TRUE])
      BY <1>9 DEF Expire
    <2> DEFINE known == [received(t, a) EXCEPT !.has_forced_refresh = TRUE, !.resend = TRUE]
    <2>2. a.taken = 0
      BY <1>1, <2>1, ReceivedTypes, CodeFacts DEF Expired, HttpErrors
    <2>3. received(t, a) \in CallRecords(issued) /\ received(t, a).taken = call[t].taken
      BY <1>1, <2>2, ReceivedTypes DEF CallRecords
    <2>4. known.taken = call[t].taken
      BY <2>3 DEF CallRecords
    <2>5. Goto(t, "expired", known)
      BY <2>1
    <2> HIDE DEF known
    <2>6. pc[t] # "ended"
      BY <2>1 DEF Answered
    <2> QED
      BY <1>2, <2>4, <2>5, <2>6, NothingTaken
  <1>10. CASE Return(t)
    <2>1. Goto(t, "idle", NoCall)
      BY <1>10 DEF Return
    <2> QED
      BY <1>1, <1>2, <2>1, NoCallTypes, NothingTaken
  <1> QED
    BY <1>3, <1>4, <1>5, <1>6, <1>7, <1>8, <1>9, <1>10 DEF CallStep

(* However often a call is tried again, the broker takes its order at most   *)
(* once, and an order reported with the code of a refusal is not in its      *)
(* book: only the three codes of a request without an answer leave that open *)
(* (LiveKiaApiClient.call and its should_retry, map_exception).              *)
THEOREM OrdersAreReported == Spec => []OrdersAreTakenAsReported
  <1>1. Init => TakenEnds
    BY NoCallTypes DEF Init, TakenEnds
  <1>2. ASSUME FreshClient PROVE TakenEnds'
    BY <1>2, NoCallTypes DEF FreshClient, TakenEnds
  <1>3. ASSUME TypeOK, TakenEnds, [Next]_vars PROVE TakenEnds'
    <2>1. CASE Settle \/ TokenAges \/ UNCHANGED vars
      BY <1>3, <2>1 DEF Settle, TokenAges, vars, callVars, TakenEnds
    <2>2. CASE StartEngine \/ Crash
      BY <1>2, <2>2 DEF StartEngine, Crash
    <2>3. ASSUME NEW t \in Threads, Begin(t) \/ CallStep(t) PROVE TakenEnds'
      BY <1>3, <2>3, CallOrders
    <2> QED
      BY <1>3, <2>1, <2>2, <2>3 DEF Next
  <1>4. TakenEnds => OrdersAreTakenAsReported
    BY DEF TakenEnds, OrdersAreTakenAsReported
  <1> QED
    BY <1>1, <1>3, <1>4, TypeCorrect, PTL DEF Spec

=============================================================================
