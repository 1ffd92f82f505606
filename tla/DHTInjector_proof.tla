-------------------------- MODULE DHTInjector_proof --------------------------
(***************************************************************************)
(* Proofs about DHTInjector, for every number of requests, nonces and      *)
(* nodes: callbacks, timers and periodic restores are kept consistently,   *)
(* and the injector implements the safety part of RequestService.          *)
(***************************************************************************)
EXTENDS DHTInjector, TLAPS

(* A callback belongs to the request whose payload is pending.             *)
CallbackIsPending ==
  \A n \in Nonce : callbacks[n] # None /\ pending[n] # None =>
    IF callbacks[n] \in Fetch
      THEN pending[n].kind = "FetchRsp"
      ELSE /\ pending[n].kind \in {"FindNodeRsp", "StoreRsp"}
           /\ pending[n].payload = callbacks[n]
           /\ pending[n].restore = (callbacks[n] \in Restore)

(* A request that was not submitted has no result.                         *)
IdleIsUnanswered == \A r \in Request : phase[r] = "idle" => results[r] = <<>>

IInv ==
  /\ TypeOK /\ NoOrphanCallback /\ CallbackIsUnanswered /\ CallbackIsPending
  /\ IdleIsUnanswered
  /\ PendingHasTimer /\ RestoreIsArmed

------------------------------------------------------------------------------
(* What the three kinds of request states look like.                       *)
LEMMA RequestStates ==
  /\ \A r \in Store, b \in BOOLEAN :
       [kind |-> "FindNodeRsp", payload |-> r, restore |-> b] \in RequestState
  /\ \A r \in Store, b \in BOOLEAN, c \in Node :
       [kind |-> "StoreRsp", payload |-> r, restore |-> b, closest |-> c] \in RequestState
  /\ [kind |-> "FetchRsp"] \in RequestState
  /\ None \notin RequestState /\ None \notin Request /\ Restore \subseteq Store
  /\ Store \cap Fetch = {} /\ Request = Store \cup Fetch
  /\ \A s \in RequestState : s.kind = "FindNodeRsp" => s.payload \in Store /\ s.restore \in BOOLEAN
  /\ \A s \in RequestState : s.kind = "StoreRsp" =>
       s.payload \in Store /\ s.restore \in BOOLEAN /\ s.closest \in Node
  BY InjectorAssumption DEF RequestState, Request

LEMMA Hooks ==
  /\ \A timeout \in Timeout, n \in Nonce : <<timeout, n>> \in TimerHook
  /\ \A r \in Store : <<"PeriodicRestore", r>> \in TimerHook
  /\ \A timeout \in Timeout, n \in Nonce, r \in Store :
       <<timeout, n>> # <<"PeriodicRestore", r>>
  /\ {"TimeoutFindNodeReq", "TimeoutRedundantStoreReq", "TimeoutFetchReq"} = Timeout
  BY DEF TimerHook, Timeout

(* A timer is registered: no other timer is touched.                       *)
LEMMA Registered ==
  ASSUME TypeOK, NEW h \in TimerHook, timers' = [timers EXCEPT ![h] = @ + 1]
  PROVE  /\ timers' \in [TimerHook -> Nat] /\ timers'[h] > 0
         /\ \A g \in TimerHook : timers'[g] >= timers[g] /\ (g # h => timers'[g] = timers[g])
  BY DEF TypeOK

(* A request that is registered with a timer keeps PendingHasTimer, and    *)
(* leaves the periodic restores alone.                                     *)
LEMMA RegisterKeepsTimers ==
  ASSUME TypeOK, PendingHasTimer, NEW n \in Nonce, NEW timeout \in Timeout, NEW state,
         RegisterPendingReq(n, state, timeout)
  PROVE  /\ timers' \in [TimerHook -> Nat] /\ PendingHasTimer'
         /\ \A r \in Store : timers'[<<"PeriodicRestore", r>>] = timers[<<"PeriodicRestore", r>>]
<1> DEFINE h == <<timeout, n>>
<1>1. h \in TimerHook /\ \A r \in Store : h # <<"PeriodicRestore", r>>
  BY Hooks
<1>2. timers' = [timers EXCEPT ![h] = @ + 1] /\ pending' = [pending EXCEPT ![n] = state]
  BY DEF RegisterPendingReq
<1> HIDE DEF h
<1>3. /\ timers' \in [TimerHook -> Nat] /\ timers'[h] > 0
      /\ \A g \in TimerHook : timers'[g] >= timers[g] /\ (g # h => timers'[g] = timers[g])
  BY <1>1, <1>2, Registered
<1>4. ASSUME NEW m \in Nonce, pending'[m] # None
      PROVE  \E t \in Timeout : timers'[<<t, m>>] > 0
  <2>1. CASE m = n
    BY <2>1, <1>3 DEF h
  <2>2. CASE m # n
    <3>1. PICK t \in Timeout : timers[<<t, m>>] > 0
      BY <1>2, <1>4, <2>2 DEF PendingHasTimer, TypeOK
    <3>2. <<t, m>> \in TimerHook
      BY Hooks
    <3>3. timers'[<<t, m>>] >= timers[<<t, m>>] /\ timers[<<t, m>>] \in Nat /\ timers'[<<t, m>>] \in Nat
      BY <3>2, <1>3 DEF TypeOK
    <3> QED
      BY <3>1, <3>3
  <2> QED
    BY <2>1, <2>2
<1> QED
  BY <1>1, <1>3, <1>4, Hooks DEF PendingHasTimer

LEMMA InitIInv == Init => IInv
<1> SUFFICES ASSUME Init PROVE IInv
  OBVIOUS
<1>1. TypeOK
  BY InjectorAssumption DEF Init, TypeOK
<1>2. RestoreIsArmed
  BY Hooks DEF Init, RestoreIsArmed, Request
<1>3. NoOrphanCallback /\ CallbackIsUnanswered /\ CallbackIsPending /\ PendingHasTimer
      /\ IdleIsUnanswered
  BY DEF Init, NoOrphanCallback, CallbackIsUnanswered, CallbackIsPending, PendingHasTimer,
         IdleIsUnanswered
<1> QED
  BY <1>1, <1>2, <1>3 DEF IInv

------------------------------------------------------------------------------
LEMMA InjectStoreIInv ==
  ASSUME IInv, NEW r \in Request, NEW n \in Nonce, NEW closer \in BOOLEAN,
         InjectStore(r, n, closer)
  PROVE  IInv'
<1> DEFINE state == [kind |-> "FindNodeRsp", payload |-> r, restore |-> r \in Restore]
<1> USE DEF IInv
<1>T. /\ timers' \in [TimerHook -> Nat] /\ PendingHasTimer'
      /\ \A q \in Store : timers'[<<"PeriodicRestore", q>>] = timers[<<"PeriodicRestore", q>>]
  BY RegisterKeepsTimers, Hooks DEF InjectStore
<1>0. /\ r \in Store /\ phase[r] = "idle" /\ pending[n] = None
      /\ pending' = [pending EXCEPT ![n] = state]
      /\ callbacks' = [callbacks EXCEPT ![n] = r]
      /\ phase' = [phase EXCEPT ![r] = "waiting"]
      /\ finds' = SentByKey(finds, n, closer)
      /\ UNCHANGED <<results, fetches, stores, restores>>
  BY DEF InjectStore, RegisterPendingReq, DistinctNonce
<1>1. /\ state \in RequestState /\ state # None
      /\ r # None /\ r \notin Fetch /\ results[r] = <<>>
  <2>1. (r \in Restore) \in BOOLEAN
    OBVIOUS
  <2>2. state \in RequestState
    BY <1>0, <2>1, RequestStates
  <2> HIDE DEF state
  <2> QED
    BY <1>0, <2>2, RequestStates DEF IdleIsUnanswered
<1> HIDE DEF state
<1>2. TypeOK'
  <2>1. pending' \in [Nonce -> RequestState \cup {None}] /\ callbacks' \in [Nonce -> Request \cup {None}]
    BY <1>0, <1>1 DEF TypeOK
  <2>2. phase' \in [Request -> {"idle", "waiting", "gone"}]
    BY <1>0 DEF TypeOK
  <2>3. finds' \subseteq Nonce
    BY <1>0 DEF TypeOK, SentByKey
  <2> QED
    BY <1>0, <1>T, <2>1, <2>2, <2>3 DEF TypeOK
<1>3. NoOrphanCallback'
  BY <1>0, <1>1 DEF NoOrphanCallback, TypeOK
<1>4. CallbackIsUnanswered'
  <2>1. \A m \in Nonce : callbacks[m] # r
    BY <1>0, <1>1 DEF CallbackIsUnanswered, TypeOK
  <2> QED
    BY <1>0, <1>1, <2>1 DEF CallbackIsUnanswered, TypeOK
<1>5. CallbackIsPending'
  BY <1>0, <1>1 DEF CallbackIsPending, TypeOK, state
<1>7. RestoreIsArmed'
  BY <1>0, <1>T DEF RestoreIsArmed
<1>8. IdleIsUnanswered'
  BY <1>0 DEF IdleIsUnanswered, TypeOK
<1> QED
  BY <1>2, <1>3, <1>4, <1>5, <1>7, <1>8, <1>T

LEMMA InjectFetchIInv ==
  ASSUME IInv, NEW r \in Request, NEW n \in Nonce, NEW closer \in BOOLEAN,
         InjectFetch(r, n, closer)
  PROVE  IInv'
<1> DEFINE state == [kind |-> "FetchRsp"]
<1> USE DEF IInv
<1>T. /\ timers' \in [TimerHook -> Nat] /\ PendingHasTimer'
      /\ \A q \in Store : timers'[<<"PeriodicRestore", q>>] = timers[<<"PeriodicRestore", q>>]
  BY RegisterKeepsTimers, Hooks DEF InjectFetch
<1>0. /\ r \in Fetch /\ phase[r] = "idle" /\ pending[n] = None
      /\ pending' = [pending EXCEPT ![n] = state]
      /\ callbacks' = [callbacks EXCEPT ![n] = r]
      /\ phase' = [phase EXCEPT ![r] = "waiting"]
      /\ fetches' = SentByKey(fetches, n, closer)
      /\ UNCHANGED <<results, finds, stores, restores>>
  BY DEF InjectFetch, RegisterPendingReq, DistinctNonce
<1>1. /\ state \in RequestState /\ state # None
      /\ r # None /\ results[r] = <<>>
  BY <1>0, RequestStates DEF IdleIsUnanswered
<1>2. state.kind = "FetchRsp"
  OBVIOUS
<1> HIDE DEF state
<1>3. TypeOK'
  <2>1. pending' \in [Nonce -> RequestState \cup {None}] /\ callbacks' \in [Nonce -> Request \cup {None}]
    BY <1>0, <1>1 DEF TypeOK
  <2>2. phase' \in [Request -> {"idle", "waiting", "gone"}]
    BY <1>0 DEF TypeOK
  <2>3. fetches' \subseteq Nonce
    BY <1>0 DEF TypeOK, SentByKey
  <2> QED
    BY <1>0, <1>T, <2>1, <2>2, <2>3 DEF TypeOK
<1>4. NoOrphanCallback'
  BY <1>0, <1>1 DEF NoOrphanCallback, TypeOK
<1>5. CallbackIsUnanswered'
  <2>1. \A m \in Nonce : callbacks[m] # r
    BY <1>0, <1>1 DEF CallbackIsUnanswered, TypeOK
  <2> QED
    BY <1>0, <1>1, <2>1 DEF CallbackIsUnanswered, TypeOK
<1>6. CallbackIsPending'
  BY <1>0, <1>1, <1>2 DEF CallbackIsPending, TypeOK
<1>7. RestoreIsArmed'
  BY <1>0, <1>T DEF RestoreIsArmed
<1>8. IdleIsUnanswered'
  BY <1>0 DEF IdleIsUnanswered, TypeOK
<1> QED
  BY <1>3, <1>4, <1>5, <1>6, <1>7, <1>8, <1>T

LEMMA GiveUpIInv ==
  ASSUME IInv, NEW r \in Request, GiveUp(r)
  PROVE  IInv'
<1> USE DEF IInv
<1>0. /\ phase[r] = "waiting" /\ phase' = [phase EXCEPT ![r] = "gone"]
      /\ UNCHANGED <<results, pending, callbacks, timers, finds, fetches, stores, restores>>
  BY DEF GiveUp, Listening
<1>1. TypeOK'
  BY <1>0 DEF TypeOK
<1>2. CallbackIsUnanswered'
  BY <1>0 DEF CallbackIsUnanswered, TypeOK
<1>3. IdleIsUnanswered'
  BY <1>0 DEF IdleIsUnanswered, TypeOK
<1>4. NoOrphanCallback' /\ CallbackIsPending' /\ PendingHasTimer' /\ RestoreIsArmed'
  BY <1>0 DEF NoOrphanCallback, CallbackIsPending, PendingHasTimer, RestoreIsArmed
<1> QED
  BY <1>1, <1>2, <1>3, <1>4

LEMMA HandleFindNodeRspIInv ==
  ASSUME IInv, NEW n \in Nonce, NEW c \in Node, NEW reported \in SUBSET Node,
         HandleFindNodeRsp(n, c, reported)
  PROVE  IInv'
<1> USE DEF IInv
<1> DEFINE state == StoreState(n, c)
<1>T. /\ timers' \in [TimerHook -> Nat] /\ PendingHasTimer'
      /\ \A q \in Store : timers'[<<"PeriodicRestore", q>>] = timers[<<"PeriodicRestore", q>>]
  BY RegisterKeepsTimers, Hooks DEF HandleFindNodeRsp
<1>0. /\ pending[n] # None /\ pending[n].kind = "FindNodeRsp"
      /\ pending' = [pending EXCEPT ![n] = state]
      /\ stores' = stores \cup ({n} \X ({c} \cup reported))
      /\ UNCHANGED <<phase, results, callbacks, finds, fetches, restores>>
  BY DEF HandleFindNodeRsp, Expects, RegisterPendingReq
<1>1. pending[n] \in RequestState
  BY <1>0 DEF TypeOK
<1>2. pending[n].payload \in Store /\ pending[n].restore \in BOOLEAN
  BY <1>0, <1>1, RequestStates
<1>3. state \in RequestState /\ state # None
  BY <1>2, RequestStates DEF StoreState
<1>4. /\ state.kind = "StoreRsp" /\ state.payload = pending[n].payload
      /\ state.restore = pending[n].restore
  BY DEF StoreState
<1> HIDE DEF state
<1>5. TypeOK'
  BY <1>0, <1>3, <1>T DEF TypeOK
<1>6. NoOrphanCallback' /\ CallbackIsUnanswered' /\ IdleIsUnanswered'
  BY <1>0, <1>3 DEF NoOrphanCallback, CallbackIsUnanswered, IdleIsUnanswered, TypeOK
<1>7. CallbackIsPending'
  BY <1>0, <1>4 DEF CallbackIsPending, TypeOK
<1>8. RestoreIsArmed'
  BY <1>0, <1>T DEF RestoreIsArmed
<1> QED
  BY <1>5, <1>6, <1>7, <1>8, <1>T

(* What ends a request: its pending entry and its callback go together,    *)
(* and the callback, if any, is answered.                                  *)
LEMMA Finished ==
  ASSUME IInv, NEW n \in Nonce, NEW x \in {"Answered", "Timeout"},
         pending' = [pending EXCEPT ![n] = None], callbacks' = CallbackTaken(n),
         \/ results' = results
         \/ callbacks[n] # None /\ SendInjectResult(callbacks[n], x),
         UNCHANGED <<phase, finds, fetches, stores, restores>>
  PROVE  /\ results' \in [Request -> Seq({"Answered", "Timeout"})]
         /\ pending' \in [Nonce -> RequestState \cup {None}]
         /\ callbacks' \in [Nonce -> Request \cup {None}]
         /\ NoOrphanCallback' /\ CallbackIsUnanswered' /\ CallbackIsPending'
         /\ IdleIsUnanswered'
<1> USE DEF IInv
<1>1. callbacks' = [callbacks EXCEPT ![n] = None]
  BY DEF CallbackTaken
<1>2. /\ pending' \in [Nonce -> RequestState \cup {None}]
      /\ callbacks' \in [Nonce -> Request \cup {None}]
  BY <1>1 DEF TypeOK
<1>3. /\ results' \in [Request -> Seq({"Answered", "Timeout"})]
      /\ \A r \in Request : r # callbacks[n] \/ phase[r] = "idle" => results'[r] = results[r]
  <2>1. CASE results' = results
    BY <2>1 DEF TypeOK
  <2>2. CASE callbacks[n] # None /\ SendInjectResult(callbacks[n], x)
    <3>1. callbacks[n] \in Request
      BY <2>2 DEF TypeOK
    <3>2. CASE ~Listening(callbacks[n])
      BY <2>2, <3>2 DEF SendInjectResult, TypeOK
    <3>3. CASE Listening(callbacks[n])
      <4>1. results' = [results EXCEPT ![callbacks[n]] = Append(@, x)] /\ phase[callbacks[n]] = "waiting"
        BY <2>2, <3>3 DEF SendInjectResult, Listening
      <4>2. Append(results[callbacks[n]], x) \in Seq({"Answered", "Timeout"})
        BY <3>1 DEF TypeOK
      <4> QED
        BY <3>1, <4>1, <4>2 DEF TypeOK
    <3> QED
      BY <3>2, <3>3
  <2> QED
    BY <2>1, <2>2
<1>4. NoOrphanCallback' /\ CallbackIsPending'
  BY <1>1, <1>2 DEF NoOrphanCallback, CallbackIsPending, TypeOK
<1>5. CallbackIsUnanswered'
  <2> SUFFICES ASSUME NEW m \in Nonce, callbacks'[m] # None
               PROVE  /\ results'[callbacks'[m]] = <<>> /\ phase'[callbacks'[m]] # "idle"
                      /\ \A k \in Nonce : callbacks'[k] = callbacks'[m] => k = m
    BY DEF CallbackIsUnanswered
  <2>1. m # n /\ callbacks'[m] = callbacks[m] /\ callbacks[m] \in Request
    BY <1>1 DEF TypeOK
  <2>2. callbacks[m] # callbacks[n]
    BY <2>1 DEF CallbackIsUnanswered
  <2> QED
    BY <1>1, <1>2, <1>3, <2>1, <2>2 DEF CallbackIsUnanswered, TypeOK
<1>6. IdleIsUnanswered'
  BY <1>3 DEF IdleIsUnanswered
<1> QED
  BY <1>2, <1>3, <1>4, <1>5, <1>6

LEMMA HandleStoreRspIInv ==
  ASSUME IInv, NEW n \in Nonce, NEW d \in Node, HandleStoreRsp(n, d)
  PROVE  IInv'
<1> USE DEF IInv
<1> DEFINE r == callbacks[n]
<1>0. /\ pending[n] # None /\ pending[n].kind = "StoreRsp"
      /\ pending' = [pending EXCEPT ![n] = None] /\ callbacks' = CallbackTaken(n)
      /\ UNCHANGED <<phase, finds, fetches, stores, restores>>
  BY DEF HandleStoreRsp, Expects
<1>1. CASE r = None
  <2>1. UNCHANGED <<results, timers>>
    BY <1>1 DEF HandleStoreRsp
  <2>2. TypeOK' /\ NoOrphanCallback' /\ CallbackIsUnanswered' /\ CallbackIsPending'
        /\ IdleIsUnanswered'
    BY <1>0, <2>1, Finished DEF TypeOK
  <2>3. PendingHasTimer' /\ RestoreIsArmed'
    BY <1>0, <2>1 DEF PendingHasTimer, RestoreIsArmed, TypeOK
  <2> QED
    BY <2>2, <2>3
<1>2. CASE r # None
  <2>1. /\ SendInjectResult(r, "Answered")
        /\ timers' = IF Restores(n)
                        THEN [timers EXCEPT ![<<"PeriodicRestore", pending[n].payload>>] = @ + 1]
                        ELSE timers
    BY <1>2 DEF HandleStoreRsp
  <2>2. /\ results' \in [Request -> Seq({"Answered", "Timeout"})]
        /\ pending' \in [Nonce -> RequestState \cup {None}]
        /\ callbacks' \in [Nonce -> Request \cup {None}]
        /\ NoOrphanCallback' /\ CallbackIsUnanswered' /\ CallbackIsPending'
        /\ IdleIsUnanswered'
    BY <1>0, <1>2, <2>1, Finished
  <2>3. /\ r \in Store /\ r \in Request /\ pending[n].payload = r
        /\ pending[n].restore = (r \in Restore) /\ results[r] = <<>>
    <3>1. r \in Request /\ results[r] = <<>>
      BY <1>2 DEF TypeOK, CallbackIsUnanswered
    <3>2. r \notin Fetch
      BY <1>0, <1>2 DEF CallbackIsPending
    <3>3. pending[n].payload = r /\ pending[n].restore = (r \in Restore)
      BY <1>0, <1>2, <3>2 DEF CallbackIsPending
    <3> QED
      BY <3>1, <3>2, <3>3, RequestStates
  <2> DEFINE h == <<"PeriodicRestore", r>>
  <2>4. h \in TimerHook /\ \A q \in Store : <<"PeriodicRestore", q>> \in TimerHook
    BY <2>3, Hooks
  <2>5. \A q \in Store : q # r => <<"PeriodicRestore", q>> # h
    OBVIOUS
  <2>6. \A t \in Timeout, m \in Nonce : <<t, m>> \in TimerHook
    BY Hooks
  <2>7. timers[h] = 0
    <3>1. timers[h] = IF r \in Restore /\ results[r] = <<"Answered">> THEN 1 ELSE 0
      BY <2>3 DEF RestoreIsArmed
    <3>2. Len(<<"Answered">>) = 1 /\ Len(<<>>) = 0
      OBVIOUS
    <3>3. results[r] # <<"Answered">>
      BY <2>3, <3>2
    <3> QED
      BY <3>1, <3>3
  <2>a. \A q \in Request : q # r => results'[q] = results[q]
    BY <2>1, <2>3 DEF SendInjectResult, TypeOK
  <2>8. CASE Restores(n)
    <3>1. timers' = [timers EXCEPT ![h] = @ + 1] /\ r \in Restore /\ Listening(r)
      BY <2>1, <2>3, <2>8 DEF Restores
    <3>2. results'[r] = <<"Answered">>
      BY <2>1, <2>3, <3>1 DEF SendInjectResult, TypeOK
    <3> HIDE DEF h, r
    <3>3. /\ timers' \in [TimerHook -> Nat] /\ timers'[h] = 1
          /\ \A g \in TimerHook : timers'[g] >= timers[g] /\ (g # h => timers'[g] = timers[g])
      BY <2>4, <2>7, <3>1 DEF TypeOK
    <3>4. PendingHasTimer'
      <4> SUFFICES ASSUME NEW m \in Nonce, pending'[m] # None
                   PROVE  \E t \in Timeout : timers'[<<t, m>>] > 0
        BY DEF PendingHasTimer
      <4>1. PICK t \in Timeout : timers[<<t, m>>] > 0
        BY <1>0 DEF PendingHasTimer, TypeOK
      <4>2. timers'[<<t, m>>] >= timers[<<t, m>>] /\ timers[<<t, m>>] \in Nat /\ timers'[<<t, m>>] \in Nat
        BY <2>6, <3>3 DEF TypeOK
      <4> QED
        BY <4>1, <4>2
    <3>5. RestoreIsArmed'
      <4> SUFFICES ASSUME NEW q \in Store
                   PROVE  timers'[<<"PeriodicRestore", q>>] =
                            IF q \in Restore /\ results'[q] = <<"Answered">> THEN 1 ELSE 0
        BY DEF RestoreIsArmed
      <4>1. CASE q = r
        BY <4>1, <3>1, <3>2, <3>3 DEF h
      <4>2. CASE q # r
        <5>1. timers'[<<"PeriodicRestore", q>>] = timers[<<"PeriodicRestore", q>>]
          BY <4>2, <2>4, <2>5, <3>3 DEF h
        <5>2. results'[q] = results[q]
          BY <4>2, <2>a, RequestStates
        <5> QED
          BY <5>1, <5>2 DEF RestoreIsArmed
      <4> QED
        BY <4>1, <4>2
    <3>6. TypeOK'
      BY <1>0, <2>2, <3>3 DEF TypeOK
    <3> QED
      BY <2>2, <3>4, <3>5, <3>6
  <2>9. CASE ~Restores(n)
    <3>1. timers' = timers
      BY <2>1, <2>9
    <3>2. PendingHasTimer'
      BY <1>0, <3>1 DEF PendingHasTimer, TypeOK
    <3>3. r \in Restore => results'[r] = results[r]
      BY <2>1, <2>3, <2>9 DEF Restores, SendInjectResult
    <3>4. RestoreIsArmed'
      <4> SUFFICES ASSUME NEW q \in Store
                   PROVE  timers'[<<"PeriodicRestore", q>>] =
                            IF q \in Restore /\ results'[q] = <<"Answered">> THEN 1 ELSE 0
        BY DEF RestoreIsArmed
      <4>1. q \in Request /\ (q \in Restore => results'[q] = results[q])
        BY <2>a, <3>3, RequestStates
      <4> QED
        BY <3>1, <4>1 DEF RestoreIsArmed
    <3>5. TypeOK'
      BY <1>0, <2>2, <3>1 DEF TypeOK
    <3> QED
      BY <2>2, <3>2, <3>4, <3>5
  <2> QED
    BY <2>8, <2>9
<1> QED
  BY <1>1, <1>2

LEMMA HandleFetchRspIInv ==
  ASSUME IInv, NEW n \in Nonce, HandleFetchRsp(n)
  PROVE  IInv'
<1> USE DEF IInv
<1>0. /\ pending[n] # None /\ pending[n].kind = "FetchRsp"
      /\ pending' = [pending EXCEPT ![n] = None] /\ callbacks' = CallbackTaken(n)
      /\ UNCHANGED <<phase, timers, finds, fetches, stores, restores>>
      /\ (results' = results \/ (callbacks[n] # None /\ SendInjectResult(callbacks[n], "Answered")))
  BY DEF HandleFetchRsp, Expects
<1>1. TypeOK' /\ NoOrphanCallback' /\ CallbackIsUnanswered' /\ CallbackIsPending' /\ IdleIsUnanswered'
  BY <1>0, Finished DEF TypeOK
<1>2. PendingHasTimer'
  BY <1>0 DEF PendingHasTimer, TypeOK
<1>3. RestoreIsArmed'
  <2>1. \A q \in Store : results'[q] = results[q]
    <3>1. CASE results' = results
      BY <3>1
    <3>2. CASE callbacks[n] # None /\ SendInjectResult(callbacks[n], "Answered")
      <4>1. callbacks[n] \in Request
        BY <3>2 DEF TypeOK
      <4>2. callbacks[n] \in Fetch
        BY <1>0, <3>2, <4>1 DEF CallbackIsPending
      <4>3. \A q \in Store : q \in Request /\ q # callbacks[n]
        BY <4>2, RequestStates
      <4> QED
        BY <3>2, <4>1, <4>3 DEF SendInjectResult, TypeOK
    <3> QED
      BY <1>0, <3>1, <3>2
  <2> QED
    BY <1>0, <2>1 DEF RestoreIsArmed
<1> QED
  BY <1>1, <1>2, <1>3

LEMMA HandleTimeoutIInv ==
  ASSUME IInv, NEW timeout \in Timeout, NEW n \in Nonce, HandleTimeout(timeout, n)
  PROVE  IInv'
<1> USE DEF IInv
<1> DEFINE h == <<timeout, n>>
<1>0. /\ timers[h] > 0 /\ timers' = [timers EXCEPT ![h] = @ - 1]
      /\ pending' = [pending EXCEPT ![n] = None] /\ callbacks' = CallbackTaken(n)
      /\ UNCHANGED <<phase, finds, fetches, stores, restores>>
      /\ (results' = results \/ (callbacks[n] # None /\ SendInjectResult(callbacks[n], "Timeout")))
  BY DEF HandleTimeout
<1>1. /\ h \in TimerHook /\ \A r \in Store : h # <<"PeriodicRestore", r>> /\ <<"PeriodicRestore", r>> \in TimerHook
      /\ \A t \in Timeout, m \in Nonce : <<t, m>> \in TimerHook /\ (m # n => <<t, m>> # h)
  BY Hooks
<1> HIDE DEF h
<1>2. timers' \in [TimerHook -> Nat] /\ \A g \in TimerHook : g # h => timers'[g] = timers[g]
  BY <1>0, <1>1 DEF TypeOK
<1>3. TypeOK' /\ NoOrphanCallback' /\ CallbackIsUnanswered' /\ CallbackIsPending' /\ IdleIsUnanswered'
  BY <1>0, <1>2, Finished DEF TypeOK
<1>4. PendingHasTimer'
  <2> SUFFICES ASSUME NEW m \in Nonce, pending'[m] # None
               PROVE  \E t \in Timeout : timers'[<<t, m>>] > 0
    BY DEF PendingHasTimer
  <2>1. m # n /\ pending[m] # None
    BY <1>0 DEF TypeOK
  <2>2. PICK t \in Timeout : timers[<<t, m>>] > 0
    BY <2>1 DEF PendingHasTimer
  <2>3. timers'[<<t, m>>] = timers[<<t, m>>]
    BY <2>1, <1>1, <1>2
  <2> QED
    BY <2>2, <2>3
<1>5. RestoreIsArmed'
  <2> SUFFICES ASSUME NEW q \in Store
               PROVE  timers'[<<"PeriodicRestore", q>>] =
                        IF q \in Restore /\ results'[q] = <<"Answered">> THEN 1 ELSE 0
    BY DEF RestoreIsArmed
  <2>1. timers'[<<"PeriodicRestore", q>>] = timers[<<"PeriodicRestore", q>>] /\ q \in Request
    BY <1>1, <1>2, RequestStates
  <2>2. (results'[q] = <<"Answered">>) <=> (results[q] = <<"Answered">>)
    <3>1. CASE results' = results
      BY <3>1
    <3>2. CASE callbacks[n] # None /\ SendInjectResult(callbacks[n], "Timeout")
      <4>1. callbacks[n] \in Request
        BY <3>2 DEF TypeOK
      <4>2. CASE q # callbacks[n] \/ ~Listening(callbacks[n])
        BY <2>1, <3>2, <4>1, <4>2 DEF SendInjectResult, TypeOK
      <4>3. CASE q = callbacks[n] /\ Listening(callbacks[n])
        <5>1. results[q] = <<>> /\ results'[q] = Append(results[q], "Timeout")
          BY <2>1, <3>2, <4>3 DEF SendInjectResult, Listening, TypeOK
        <5>2. Append(<<>>, "Timeout")[1] = "Timeout" /\ <<"Answered">>[1] = "Answered"
          OBVIOUS
        <5>3. Len(<<"Answered">>) = 1 /\ Len(<<>>) = 0 /\ "Timeout" # "Answered"
          OBVIOUS
        <5> QED
          BY <5>1, <5>2, <5>3
      <4> QED
        BY <4>2, <4>3
    <3> QED
      BY <1>0, <3>1, <3>2
  <2> QED
    BY <2>1, <2>2 DEF RestoreIsArmed
<1> QED
  BY <1>3, <1>4, <1>5

LEMMA HandlePeriodicRestoreIInv ==
  ASSUME IInv, NEW r \in Store, NEW n \in Nonce, NEW closer \in BOOLEAN,
         HandlePeriodicRestore(r, n, closer)
  PROVE  IInv'
<1> USE DEF IInv
<1> DEFINE state == [kind |-> "FindNodeRsp", payload |-> r, restore |-> FALSE]
<1>T. /\ timers' \in [TimerHook -> Nat] /\ PendingHasTimer'
      /\ \A q \in Store : timers'[<<"PeriodicRestore", q>>] = timers[<<"PeriodicRestore", q>>]
  BY RegisterKeepsTimers, Hooks DEF HandlePeriodicRestore
<1>0. /\ pending[n] = None /\ pending' = [pending EXCEPT ![n] = state]
      /\ finds' = SentByKey(finds, n, closer)
      /\ restores > 0 /\ restores' = restores - 1
      /\ UNCHANGED <<phase, results, callbacks, fetches, stores>>
  BY DEF HandlePeriodicRestore, RegisterPendingReq, DistinctNonce
<1>1. state \in RequestState /\ state # None
  BY RequestStates
<1> HIDE DEF state
<1>2. callbacks[n] = None
  BY <1>0 DEF NoOrphanCallback
<1>3. finds' \subseteq Nonce
  BY <1>0 DEF SentByKey, TypeOK
<1>4. TypeOK'
  BY <1>0, <1>1, <1>3, <1>T DEF TypeOK
<1>5. NoOrphanCallback' /\ CallbackIsUnanswered' /\ IdleIsUnanswered' /\ CallbackIsPending'
  BY <1>0, <1>1, <1>2 DEF NoOrphanCallback, CallbackIsUnanswered, IdleIsUnanswered,
                          CallbackIsPending, TypeOK
<1>6. RestoreIsArmed'
  BY <1>0, <1>T DEF RestoreIsArmed
<1> QED
  BY <1>4, <1>5, <1>6, <1>T

LEMMA StepIInv == IInv /\ [Next]_vars => IInv'
<1> SUFFICES ASSUME IInv, [Next]_vars PROVE IInv'
  OBVIOUS
<1>1. CASE Next
  BY <1>1, InjectStoreIInv, InjectFetchIInv, GiveUpIInv, HandleStoreRspIInv,
     HandleFindNodeRspIInv, HandleFetchRspIInv, HandleTimeoutIInv, HandlePeriodicRestoreIInv DEF Next
<1>2. CASE UNCHANGED vars
  BY <1>2 DEF vars, IInv, TypeOK, NoOrphanCallback, CallbackIsUnanswered, CallbackIsPending,
              IdleIsUnanswered, PendingHasTimer, RestoreIsArmed
<1> QED
  BY <1>1, <1>2

(* Every behaviour of the injector keeps the inductive invariant.          *)
THEOREM InjectorInvariant == Spec => []IInv
  BY InitIInv, StepIInv, PTL DEF Spec

------------------------------------------------------------------------------
(* The maps and timers of the injector keep their types.                   *)
THEOREM TypeCorrect == Spec => []TypeOK
  BY InjectorInvariant, PTL DEF IInv

(* The debug_assert of a late timer holds for every set of requests and    *)
(* nonces: no callback is left without a pending request.                  *)
THEOREM NoCallbackIsOrphaned == Spec => []NoOrphanCallback
  BY InjectorInvariant, PTL DEF IInv

(* No callback is ever used twice, and every pending request has a timer   *)
(* that ends it.                                                           *)
THEOREM PendingRequestsEnd == Spec => [](CallbackIsUnanswered /\ PendingHasTimer)
  BY InjectorInvariant, PTL DEF IInv

(* Exactly the stores whose clients asked for restoring and heard of their *)
(* success are restored, each by one timer.                                *)
THEOREM RestoresAreArmed == Spec => []RestoreIsArmed
  BY InjectorInvariant, PTL DEF IInv

------------------------------------------------------------------------------
(* A result that is sent is a Reply of the service, or nobody listens.     *)
LEMMA SendIsReply ==
  ASSUME IInv, NEW r \in Request, NEW x \in {"Answered", "Timeout"},
         SendInjectResult(r, x), phase' = phase
  PROVE  Service!Reply(r) \/ UNCHANGED <<phase, results>>
<1>1. CASE ~Listening(r)
  BY <1>1 DEF SendInjectResult
<1>2. CASE Listening(r)
  <2>1. /\ phase[r] = "waiting" /\ results[r] = <<>>
        /\ results' = [results EXCEPT ![r] = Append(@, x)]
    BY <1>2 DEF SendInjectResult, Listening
  <2>2. Append(<<>>, x) = <<x>>
    OBVIOUS
  <2>3. results' = [results EXCEPT ![r] = <<x>>]
    BY <2>1, <2>2
  <2> QED
    BY <2>1, <2>3 DEF Service!Reply, Service!Result
<1> QED
  BY <1>1, <1>2

(* Every step of the injector is a step of the service or a stutter.       *)
LEMMA StepImplements ==
  IInv /\ [Next]_vars => [Service!ServiceNext]_(Service!serviceVars)
<1> SUFFICES ASSUME IInv, [Next]_vars
             PROVE  Service!ServiceNext \/ UNCHANGED <<phase, results>>
  BY DEF Service!serviceVars
<1>1. ASSUME NEW r \in Request, NEW n \in Nonce, NEW closer \in BOOLEAN,
             InjectStore(r, n, closer) \/ InjectFetch(r, n, closer)
      PROVE  Service!Submit(r)
  BY <1>1 DEF InjectStore, InjectFetch, Service!Submit
<1>2. ASSUME NEW r \in Request, GiveUp(r)
      PROVE  Service!Leave(r)
  BY <1>2 DEF GiveUp, Listening, Service!Leave
<1>3. ASSUME NEW n \in Nonce,
             \/ \E d \in Node : HandleStoreRsp(n, d)
             \/ HandleFetchRsp(n)
             \/ \E timeout \in Timeout : HandleTimeout(timeout, n)
      PROVE  Service!ServiceNext \/ UNCHANGED <<phase, results>>
  <2>1. phase' = phase
    BY <1>3 DEF HandleStoreRsp, HandleFetchRsp, HandleTimeout
  <2>2. \/ results' = results
        \/ /\ callbacks[n] # None
           /\ \E x \in {"Answered", "Timeout"} : SendInjectResult(callbacks[n], x)
    BY <1>3 DEF HandleStoreRsp, HandleFetchRsp, HandleTimeout
  <2>3. callbacks[n] # None => callbacks[n] \in Request
    BY DEF IInv, TypeOK
  <2> QED
    BY <2>1, <2>2, <2>3, SendIsReply DEF Service!ServiceNext
<1>4. ASSUME NEW n \in Nonce,
             \/ \E c \in Node, reported \in SUBSET Node : HandleFindNodeRsp(n, c, reported)
             \/ \E r \in Store, closer \in BOOLEAN : HandlePeriodicRestore(r, n, closer)
      PROVE  UNCHANGED <<phase, results>>
  BY <1>4 DEF HandleFindNodeRsp, HandlePeriodicRestore
<1>5. CASE UNCHANGED vars
  BY <1>5 DEF vars
<1>6. CASE Next
  BY <1>1, <1>2, <1>3, <1>4, <1>6 DEF Next, Service!ServiceNext
<1> QED
  BY <1>5, <1>6

(* Whatever the network answers, delays or repeats, the clients of the     *)
(* injector see the safety part of RequestService: a request is submitted  *)
(* once, and gets one result at most, only while its task listens.         *)
THEOREM InjectorImplementsService == Spec => Service!ServiceSafety
<1>1. Init => Service!ServiceInit
  BY DEF Init, Service!ServiceInit
<1> QED
  BY <1>1, StepImplements, InjectorInvariant, PTL DEF Spec, Service!ServiceSafety
==============================================================================
