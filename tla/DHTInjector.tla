----------------------------- MODULE DHTInjector -----------------------------
(***************************************************************************)
(* The DistributedHashTableInjector use case of one node: it turns store   *)
(* and fetch requests of the API into RPCs.  A store takes two of them     *)
(* under the same nonce: a FindNodeReq that finds the node closest to the  *)
(* key and the contacts around it, then StoreReqs to all of them, of which *)
(* only the closest node's answer counts.  Timers are never cancelled, so  *)
(* the timer of the first RPC may fire during the second one, and a timer  *)
(* of a finished request while a later request has its nonce.  The network *)
(* answers a request it was sent whenever and as often as it likes.        *)
(***************************************************************************)
EXTENDS Naturals, Sequences

CONSTANTS Store,      \* StoreInjectData of the API
          Restore,    \* those of them with restore set
          Fetch,      \* FetchInjectData of the API
          Nonce,      \* message ids
          Node,       \* the other nodes
          None,       \* no pending request, no callback, no closest node
          MaxRestores \* bound: periodic restores

Request == Store \cup Fetch

VARIABLES
  phase,     \* [Request -> {"idle", "waiting", "gone"}]: the API task of a request
  results,   \* [Request -> Seq(Result)]: what that task received on the callback channel
  pending,   \* [Nonce -> RequestState]: pending_reqs
  callbacks, \* [Nonce -> Request]: callbacks
  timers,    \* [TimerHook -> Nat]: timer_hooks, as a bag because TimerIds are unique
  finds,     \* SUBSET Nonce: FindNodeReqs other nodes have received
  fetches,   \* SUBSET Nonce: FetchReqs other nodes have received
  stores,    \* SUBSET (Nonce \X Node): StoreReqs and their destinations
  restores   \* how many periodic restores are still explored

clientVars == <<phase, results>>
netVars == <<finds, fetches, stores>>
vars == <<phase, results, pending, callbacks, timers, finds, fetches, stores, restores>>

Timeout == {"TimeoutFindNodeReq", "TimeoutRedundantStoreReq", "TimeoutFetchReq"}
TimerHook == (Timeout \X Nonce) \cup ({"PeriodicRestore"} \X Store)

(* response_kind and response_hook: SendRedundantStoreReqs waits for a     *)
(* FindNodeRsp, RegisterStoreRsp for a StoreRsp, RegisterFetchRsp for a    *)
(* FetchRsp.                                                               *)
RequestState ==
  [kind : {"FindNodeRsp"}, payload : Store, restore : BOOLEAN]
  \cup [kind : {"StoreRsp"}, payload : Store, restore : BOOLEAN, closest : Node]
  \cup [kind : {"FetchRsp"}]

ASSUME InjectorAssumption ==
  /\ Restore \subseteq Store /\ Store \cap Fetch = {}
  /\ None \notin Request \cup Node \cup RequestState
  /\ MaxRestores \in Nat

(* start, before the first event.                                          *)
Init ==
  /\ phase = [r \in Request |-> "idle"]
  /\ results = [r \in Request |-> <<>>]
  /\ pending = [n \in Nonce |-> None]
  /\ callbacks = [n \in Nonce |-> None]
  /\ timers = [h \in TimerHook |-> 0]
  /\ finds = {} /\ fetches = {} /\ stores = {}
  /\ restores = MaxRestores

(* Mutant: nonces are not compared with those in use.                      *)
AnyNonce == Nonce

(* generate_distinct_nonce.                                                *)
DistinctNonce == {n \in Nonce : pending[n] = None}

Expects(n, kind) == pending[n] # None /\ pending[n].kind = kind

(* register_pending_req.                                                   *)
RegisterPendingReq(n, state, timeout) ==
  /\ pending' = [pending EXCEPT ![n] = state]
  /\ timers' = [timers EXCEPT ![<<timeout, n>>] = @ + 1]

(* construct_req_rsp_msg_kbr: a contact closer to the key than the node    *)
(* itself gets the request.  Without one the request is broadcast to the   *)
(* node's own use cases, where ForwardProtocolMessage comes first and      *)
(* drops it: its previous hop, the node, is not in the uln_table.          *)
SentByKey(sent, n, closer) == IF closer THEN sent \cup {n} ELSE sent

(* send_inject_result: fails when the API task no longer listens.          *)
Listening(r) == phase[r] = "waiting" /\ results[r] = <<>>
SendInjectResult(r, result) ==
  results' = IF Listening(r) THEN [results EXCEPT ![r] = Append(@, result)] ELSE results

(* InjectMessage(Store) of the API, init_redundancy_lookup.                *)
InjectStore(r, n, closer) ==
  /\ phase[r] = "idle" /\ r \in Store /\ n \in DistinctNonce
  /\ phase' = [phase EXCEPT ![r] = "waiting"]
  /\ callbacks' = [callbacks EXCEPT ![n] = r]
  /\ finds' = SentByKey(finds, n, closer)
  /\ RegisterPendingReq(n, [kind |-> "FindNodeRsp", payload |-> r, restore |-> r \in Restore],
                        "TimeoutFindNodeReq")
  /\ UNCHANGED <<results, fetches, stores, restores>>

(* InjectMessage(Fetch) of the API, init_fetch_req.                        *)
InjectFetch(r, n, closer) ==
  /\ phase[r] = "idle" /\ r \in Fetch /\ n \in DistinctNonce
  /\ phase' = [phase EXCEPT ![r] = "waiting"]
  /\ callbacks' = [callbacks EXCEPT ![n] = r]
  /\ fetches' = SentByKey(fetches, n, closer)
  /\ RegisterPendingReq(n, [kind |-> "FetchRsp"], "TimeoutFetchReq")
  /\ UNCHANGED <<results, finds, stores, restores>>

(* The timeout of the API task: it drops the receiver of the callback.     *)
GiveUp(r) ==
  /\ Listening(r)
  /\ phase' = [phase EXCEPT ![r] = "gone"]
  /\ UNCHANGED <<results, pending, callbacks, timers, finds, fetches, stores, restores>>

(* The RegisterStoreRsp hook.                                              *)
StoreState(n, c) ==
  [kind |-> "StoreRsp", payload |-> pending[n].payload, restore |-> pending[n].restore,
   closest |-> c]

(* A FindNodeRsp of node c, init_redundant_store: StoreReqs under the same *)
(* nonce to c and, over c, to the contacts it reports.                     *)
HandleFindNodeRsp(n, c, reported) ==
  /\ n \in finds /\ Expects(n, "FindNodeRsp")
  /\ stores' = stores \cup ({n} \X ({c} \cup reported))
  /\ RegisterPendingReq(n, StoreState(n, c), "TimeoutRedundantStoreReq")
  /\ UNCHANGED <<phase, results, callbacks, finds, fetches, restores>>

(* Mutant: the callback stays in the map.                                  *)
CallbackKept(n) == callbacks

(* The callback of a nonce is taken out of the map before it is used.      *)
CallbackTaken(n) == [callbacks EXCEPT ![n] = None]

(* Mutant: every store is restored.                                        *)
RestoresAlways(n) == Listening(callbacks[n])

(* The result of a store is sent without an error and the client has asked *)
(* for restoring.                                                          *)
Restores(n) == Listening(callbacks[n]) /\ pending[n].restore

(* A StoreRsp of node d, counted if d is the closest node.  A restore      *)
(* has no callback; the first store arms the periodic restore unless its   *)
(* API task is gone, because sending it the result has failed.             *)
HandleStoreRsp(n, d) ==
  /\ <<n, d>> \in stores /\ Expects(n, "StoreRsp")
  /\ pending[n].closest = d
  /\ pending' = [pending EXCEPT ![n] = None]
  /\ callbacks' = CallbackTaken(n)
  /\ IF callbacks[n] = None
       THEN UNCHANGED <<results, timers>>
       ELSE /\ SendInjectResult(callbacks[n], "Answered")
            /\ timers' = IF Restores(n)
                           THEN [timers EXCEPT ![<<"PeriodicRestore", pending[n].payload>>] = @ + 1]
                           ELSE timers
  /\ UNCHANGED <<phase, finds, fetches, stores, restores>>

HandleFetchRsp(n) ==
  /\ n \in fetches /\ Expects(n, "FetchRsp")
  /\ pending' = [pending EXCEPT ![n] = None]
  /\ callbacks' = CallbackTaken(n)
  /\ IF callbacks[n] = None
       THEN UNCHANGED results
       ELSE SendInjectResult(callbacks[n], "Answered")
  /\ UNCHANGED <<phase, timers, finds, fetches, stores, restores>>

(* A timeout ends the request that has its nonce now, whichever RPC of     *)
(* that request, or of an earlier one, it was registered for.              *)
HandleTimeout(timeout, n) ==
  /\ timers[<<timeout, n>>] > 0
  /\ timers' = [timers EXCEPT ![<<timeout, n>>] = @ - 1]
  /\ pending' = [pending EXCEPT ![n] = None]
  /\ callbacks' = CallbackTaken(n)
  /\ IF pending[n] = None \/ callbacks[n] = None
       THEN UNCHANGED results
       ELSE SendInjectResult(callbacks[n], "Timeout")
  /\ UNCHANGED <<phase, finds, fetches, stores, restores>>

(* The timer of a periodic restore: the payload is stored again, without a *)
(* callback, and the timer is registered again.                            *)
HandlePeriodicRestore(r, n, closer) ==
  /\ timers[<<"PeriodicRestore", r>>] > 0 /\ restores > 0
  /\ n \in DistinctNonce
  /\ restores' = restores - 1
  /\ finds' = SentByKey(finds, n, closer)
  /\ RegisterPendingReq(n, [kind |-> "FindNodeRsp", payload |-> r, restore |-> FALSE],
                        "TimeoutFindNodeReq")
  /\ UNCHANGED <<phase, results, callbacks, fetches, stores>>

Next ==
  \/ \E r \in Request, n \in Nonce, closer \in BOOLEAN :
       InjectStore(r, n, closer) \/ InjectFetch(r, n, closer)
  \/ \E r \in Request : GiveUp(r)
  \/ \E n \in Nonce, c \in Node : HandleStoreRsp(n, c)
  \/ \E n \in Nonce, c \in Node, reported \in SUBSET Node : HandleFindNodeRsp(n, c, reported)
  \/ \E n \in Nonce : HandleFetchRsp(n)
  \/ \E timeout \in Timeout, n \in Nonce : HandleTimeout(timeout, n)
  \/ \E r \in Store, n \in Nonce, closer \in BOOLEAN : HandlePeriodicRestore(r, n, closer)

Spec == Init /\ [][Next]_vars

(* The runtime fires every registered timer.                               *)
Fairness == \A timeout \in Timeout, n \in Nonce : WF_vars(HandleTimeout(timeout, n))

FairSpec == Spec /\ Fairness
------------------------------------------------------------------------------
(* Every variable keeps the type of the struct field it models.            *)
TypeOK ==
  /\ phase \in [Request -> {"idle", "waiting", "gone"}]
  /\ results \in [Request -> Seq({"Answered", "Timeout"})]
  /\ pending \in [Nonce -> RequestState \cup {None}]
  /\ callbacks \in [Nonce -> Request \cup {None}]
  /\ timers \in [TimerHook -> Nat]
  /\ finds \subseteq Nonce /\ fetches \subseteq Nonce /\ stores \subseteq Nonce \X Node
  /\ restores \in Nat

(* The debug_assert of a late timer ("orphan callback left over"): no      *)
(* callback outlives its pending request, although a request passes        *)
(* through two entries of pending_reqs and timers of both may fire.        *)
NoOrphanCallback == \A n \in Nonce : callbacks[n] # None => pending[n] # None

(* A callback belongs to one nonce only, and its request has no result     *)
(* yet: a second result could never be sent.                               *)
CallbackIsUnanswered ==
  \A n \in Nonce : callbacks[n] # None =>
    /\ results[callbacks[n]] = <<>> /\ phase[callbacks[n]] # "idle"
    /\ \A m \in Nonce : callbacks[m] = callbacks[n] => m = n

(* A registered request has a timer that ends it, even after timers of     *)
(* other requests under its nonce have fired.                              *)
PendingHasTimer ==
  \A n \in Nonce : pending[n] # None =>
    \E timeout \in Timeout : timers[<<timeout, n>>] > 0

(* Soft state is kept alive: a store whose client asked for restoring and  *)
(* heard of its success has exactly one periodic restore timer from then   *)
(* on, whatever becomes of the restores themselves.                        *)
RestoreIsArmed ==
  \A r \in Store : timers[<<"PeriodicRestore", r>>] =
                     IF r \in Restore /\ results[r] = <<"Answered">> THEN 1 ELSE 0

(* The injector implements the service its clients see: a request is one   *)
(* call of the API, its phase the one of the task that serves the call.    *)
Service == INSTANCE RequestService
             WITH Request <- Request, phase <- phase, results <- results
ImplementsService == Service!ServiceSpec
==============================================================================
