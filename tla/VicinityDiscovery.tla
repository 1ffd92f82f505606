-------------------------- MODULE VicinityDiscovery --------------------------
(***************************************************************************)
(* Vicinity discovery of R2/KAD on a network of nodes: ULNHello,           *)
(* ULNDiscReq/ULNDiscRsp with retries, periodic resynchronisation with     *)
(* QueryRouteReq/QueryRouteRsp over two hops, interfaces that go up and    *)
(* down, contacts that die, nodes that restart and a network that delays,  *)
(* reorders and loses messages.                                            *)
(*                                                                         *)
(* R2Kad::handle_input handles one input and every event it raises before  *)
(* the next input, so each action below is one input of one node (message, *)
(* timer, underlay update) with all its consequences, in the order of the  *)
(* use case pipeline: ForwardProtocolMessage (routing table), then         *)
(* FailureHandling / HandleContactUpdate, then VicinityDiscovery.          *)
(* A panic or an error that leaves handle_input ends the node: alive.      *)
(***************************************************************************)
EXTENDS ULNTable, VicinityGraph, DeterministicHeuristic, FiniteSets

CONSTANTS
  Id,               \* [Node -> Nat], the node ids (for the hello heuristic)
  UlnMinInterval,   \* uln_min_interval, in units of time
  UlnMaxInterval,   \* uln_max_interval
  HeuristicMaxWait, \* heuristic_max_wait_time
  DiscMaxRetries,   \* uln_discovery_max_retries
  QueryMaxRetries,  \* query_route_discovery_max_retries
  MaxParallelResync,\* max_parallel_resync_count
  MaxNonce,         \* bound: nonces in use between two nodes
  MaxMsgs,          \* bound: messages of one kind from one node to another
  MaxHooks,         \* bound: armed request timers of one kind for a node
  MaxHelloHooks,    \* bound: armed hello timers of an interface
  Flapping,         \* bound: the interfaces <<node, link>> that may go down
  MaxFlaps,         \* bound: how often interfaces go down
  MaxRestarts       \* bound: restarts of nodes

ASSUME ConfigAssumption ==
  /\ Id \in [Node -> Nat]
  /\ UlnMinInterval \in Nat \ {0} /\ UlnMaxInterval \in Nat
  /\ UlnMinInterval <= UlnMaxInterval /\ HeuristicMaxWait \in Nat
  /\ DiscMaxRetries \in Nat /\ QueryMaxRetries \in Nat
  /\ MaxParallelResync \in Nat
  /\ MaxNonce \in Nat /\ MaxMsgs \in Nat /\ MaxHooks \in Nat /\ MaxHelloHooks \in Nat
  /\ Flapping \subseteq Node \X Link /\ MaxFlaps \in Nat /\ MaxRestarts \in Nat

VARIABLES
  alive,      \* SUBSET Node: handle_input has not panicked or failed
  interval,   \* [Node -> [Link -> Nat]]: hello_interval in interfaces, 0: none
  helloHooks, \* [Node -> [Link -> Nat]]: armed SendInterfaceHello timers
  downs,      \* [Node -> [Link -> SUBSET Node]]: UnderlayNeighborDown queued
  uln,        \* [Node -> Table]: uln_table
  rt,         \* [Node -> [Node -> Contact]]: routing_table
  vg,         \* [Node -> Graph]: vicinity_graph
  discReq,    \* [Node -> [Node -> Request]]: pending_reqs, ULNDiscRsp
  discHooks,  \* [Node -> [Node -> Nat]]: armed TimeoutULNDiscReq timers
  queryReq,   \* [Node -> [Node -> Request]]: pending_reqs, QueryRouteRsp
  queryHooks, \* [Node -> [Node -> Nat]]: armed TimeoutQueryRouteReq timers
  msgs,       \* the messages in flight
  budget      \* flaps and restarts still allowed

ifaceVars == <<interval, helloHooks, downs>>
nodeVars  == <<uln, rt, vg>>
reqVars   == <<discReq, discHooks, queryReq, queryHooks>>
vars      == <<alive, interval, helloHooks, downs, uln, rt, vg,
               discReq, discHooks, queryReq, queryHooks, msgs, budget>>

Nonce == 1 .. MaxNonce

(* A pending request; nonce 0: none is pending for this node.              *)
Request == [nonce : 0 .. MaxNonce, timeouts : Nat]

NoRequest == [nonce |-> 0, timeouts |-> 0]

(* A contact of the routing table: the SSN it was inserted with, the first *)
(* hop of its active path (the contact itself if it is a ULN) and whether  *)
(* it is Valid.  ssn 0: no contact.                                        *)
Contact == [ssn : 0 .. MaxSSN, via : Node, state : {"Valid", "Invalid"}]

NoContact(m) == [ssn |-> 0, via |-> m, state |-> "Invalid"]

HelloMessage == [type : {"Hello"}, from : Node, to : Node, link : Link, ssn : SSN]

DiscMessage ==
  [type : {"DiscReq", "DiscRsp"}, from : Node, to : Node, link : Link, ssn : SSN,
   nonce : Nonce, contacts : [Node -> 0 .. MaxSSN]]

QueryMessage ==
  [type : {"QueryReq", "QueryRsp"}, from : Node, to : Node, link : Link, ssn : SSN,
   nonce : Nonce, src : Node, via : Node, dst : Node]

Message == HelloMessage \cup DiscMessage \cup QueryMessage

(* What R2Kad::new and the start() of its use cases leave behind; the      *)
(* interfaces are announced by InterfaceUp afterwards.                     *)
Init ==
  /\ alive = Node
  /\ interval = [n \in Node |-> [l \in Link |-> 0]]
  /\ helloHooks = [n \in Node |-> [l \in Link |-> 0]]
  /\ downs = [n \in Node |-> [l \in Link |-> {}]]
  /\ uln = [n \in Node |-> NewTable]
  /\ rt = [n \in Node |-> [m \in Node |-> NoContact(m)]]
  /\ vg = [n \in Node |-> NewGraph]
  /\ discReq = [n \in Node |-> [m \in Node |-> NoRequest]]
  /\ discHooks = [n \in Node |-> [m \in Node |-> 0]]
  /\ queryReq = [n \in Node |-> [m \in Node |-> NoRequest]]
  /\ queryHooks = [n \in Node |-> [m \in Node |-> 0]]
  /\ msgs = {}
  /\ budget = [flaps |-> MaxFlaps, restarts |-> MaxRestarts]

-----------------------------------------------------------------------------
(* Sending *)

Up(n, l) == interval[n][l] # 0

(* ULNHello to everyone else on one link, or on every link (SSNChanged).   *)
HelloOn(n, l, s) ==
  {[type |-> "Hello", from |-> n, to |-> m, link |-> l, ssn |-> s] : m \in Attached[l] \ {n}}

BroadcastHello(n, s) == UNION {HelloOn(n, l, s) : l \in {k \in Link : n \in Attached[k]}}

(* ObservableULNTable emits SSNChanged, which VicinityDiscovery answers by *)
(* a ULNHello with the SSN of the table at that time.                      *)
AnnounceSSN(n, old, new) == IF new.ssn # old.ssn THEN BroadcastHello(n, new.ssn) ELSE {}

(* The network takes a message unless MaxMsgs of its kind are already on   *)
(* their way between the two nodes: then it is lost.                       *)
Accepted(rest, sent) ==
  {p \in sent : Cardinality({q \in rest : /\ q.type = p.type /\ q.link = p.link
                                          /\ q.from = p.from /\ q.to = p.to}) < MaxMsgs}

(* The I/O layer drops what is sent over an interface that is not up.      *)
Transmit(n, consumed, sent) ==
  LET rest == msgs \ consumed
  IN  msgs' = rest \cup Accepted(rest, {p \in sent : Up(n, p.link)})

(* collect_underlay_neighbors: the Bidirectional neighbours with the SSN   *)
(* of their contact.  The receiver ignores a contact whose path has more   *)
(* than one hop.  A neighbour without a contact is an error.               *)
Consistent(t, r) == \A m \in BidirectionalSet(t) : r[m].ssn # 0

(* Mutant: the contacts are reported with the sender's SSN.                *)
CollectWithOwnSSN(t, r) ==
  [m \in Node |-> IF m \in BidirectionalSet(t) /\ r[m].via = m THEN t.ssn ELSE 0]

CollectUnderlayNeighbors(t, r) ==
  [m \in Node |-> IF m \in BidirectionalSet(t) /\ r[m].via = m THEN r[m].ssn ELSE 0]

DiscMsg(type, n, m, l, t, r, nonce) ==
  [type |-> type, from |-> n, to |-> m, link |-> l, ssn |-> t.ssn, nonce |-> nonce,
   contacts |-> CollectUnderlayNeighbors(t, r)]

(* Nonces are random: one that no message between the two nodes carries.   *)
FreshNonces(n, m) ==
  LET used == {q.nonce : q \in {p \in msgs : p.type # "Hello" /\ {n, m} \subseteq
                                  IF p.type \in {"DiscReq", "DiscRsp"}
                                  THEN {p.from, p.to} ELSE {p.src, p.dst}}}
              \cup {discReq[n][m].nonce, queryReq[n][m].nonce}
  IN  {k \in Nonce \ used : \A j \in Nonce \ used : k <= j}

-----------------------------------------------------------------------------
(* Shared parts of the handlers *)

(* InsertionStrategy::insert of a contact learnt from the route a message  *)
(* travelled: the first insertion fixes the SSN; an older SSN is dropped;  *)
(* an invalid contact or one with a longer path takes the new path.        *)
UpdateContact(c, m, s, via) ==
  IF c.ssn = 0 THEN [ssn |-> s, via |-> via, state |-> "Valid"]
  ELSE IF s >= c.ssn /\ (c.state = "Invalid" \/ (via = m /\ c.via # m))
       THEN [c EXCEPT !.via = via, !.state = "Valid"]
       ELSE c

(* Mutant: neighbours that are no longer listed keep their edge.           *)
ProcessDiscAddOnly(g, root, src, s, contacts) ==
  LET listed == {k \in Node \ {root} : contacts[k] # 0}
  IN  [VgUpdateSynced(VgInsert(g, src, root, s), src, s) EXCEPT
         !.observed = [k \in Node |-> IF k \in listed THEN Larger(@[k], contacts[k]) ELSE @[k]],
         !.edges = @ \cup {{src, k} : k \in listed}]

(* process_ulndisc_reqrsp.                                                 *)
ProcessDisc(g, root, src, s, contacts) ==
  LET listed  == {k \in Node \ {root} : contacts[k] # 0}
      removed == (Neighbors(g, src) \ {root}) \ listed
      synced  == VgUpdateSynced(VgInsert(g, src, root, s), src, s)
      merged  == [synced EXCEPT
                    !.observed = [k \in Node |-> IF k \in listed THEN Larger(@[k], contacts[k])
                                                                 ELSE @[k]],
                    !.edges = (@ \cup {{src, k} : k \in listed}) \ {{src, k} : k \in removed}]
  IN  IF removed = {} THEN merged ELSE VgRetain(merged, root)

(* All contacts reached via node m are set invalid.                        *)
InvalidateVia(r, m) ==
  [k \in Node |-> IF r[k].ssn # 0 /\ r[k].via = m THEN [r[k] EXCEPT !.state = "Invalid"] ELSE r[k]]

-----------------------------------------------------------------------------
(* Messages *)

(* The handlers run on a live node and consume the message.                *)
Arrives(n, p, type) == p \in msgs /\ n \in alive /\ p.to = n /\ p.type = type

(* VicinityDiscovery looks at messages of interfaces it knows to be up.    *)
Drop(p) == msgs' = msgs \ {p}

(* Mutant: the heuristic alone decides.                                    *)
AnswersToByHeuristic(n, m, l, s) ==
  LET new == ~HasEntry(vg[n], m) \/ ~IsDirectUln(vg[n], n, m)
  IN  /\ new \/ discReq[n][m].nonce = 0
      /\ AnswersHello(Id[n], Id[m])
      /\ new \/ vg[n].synced[m] < s

(* Whether a ULNHello of m with SSN s on link l is answered: not if a      *)
(* request to this known neighbour is pending; if the heuristic says so or *)
(* the own next hello is too far away; and only if there is news.          *)
AnswersTo(n, m, l, s) ==
  LET new == ~HasEntry(vg[n], m) \/ ~IsDirectUln(vg[n], n, m)
  IN  /\ new \/ discReq[n][m].nonce = 0
      /\ AnswersHello(Id[n], Id[m]) \/ interval[n][l] > HeuristicMaxWait
      /\ new \/ vg[n].synced[m] < s

(* The table and the graph after a ULNHello, answered or not.              *)
HelloTable(t, m, l) == IF UlnContains(t, m) THEN t ELSE UlnInsert(t, m, l)
HelloGraph(g, m, s) == IF HasEntry(g, m) THEN VgUpdateObserved(g, m, s) ELSE g

RecvHelloSilently(n, p) ==
  /\ Arrives(n, p, "Hello") /\ Up(n, p.link)
  /\ ~AnswersTo(n, p.from, p.link, p.ssn)
  /\ uln' = [uln EXCEPT ![n] = HelloTable(@, p.from, p.link)]
  /\ vg' = [vg EXCEPT ![n] = HelloGraph(@, p.from, p.ssn)]
  /\ Drop(p)
  /\ UNCHANGED <<alive, ifaceVars, rt, reqVars, budget>>

(* init_uln_disc_req over the link the hello came from: it replaces a      *)
(* pending request of the same neighbour and arms another timer.           *)
AnswerHello(n, p) ==
  LET m == p.from
      t == HelloTable(uln[n], m, p.link)
      ok == Consistent(t, rt[n])
  IN  /\ Arrives(n, p, "Hello") /\ Up(n, p.link)
      /\ AnswersTo(n, m, p.link, p.ssn)
      /\ discHooks[n][m] < MaxHooks
      /\ \E nonce \in FreshNonces(n, m) :
           /\ Transmit(n, {p}, IF ok THEN {DiscMsg("DiscReq", n, m, p.link, t, rt[n], nonce)}
                                     ELSE {})
           /\ discReq' = [discReq EXCEPT ![n][m] = [nonce |-> nonce, timeouts |-> 0]]
      /\ discHooks' = [discHooks EXCEPT ![n][m] = @ + 1]
      /\ alive' = IF ok THEN alive ELSE alive \ {n}
      /\ uln' = [uln EXCEPT ![n] = t]
      /\ vg' = [vg EXCEPT ![n] = HelloGraph(@, m, p.ssn)]
      /\ UNCHANGED <<ifaceVars, rt, queryReq, queryHooks, budget>>

(* ULNDiscReq: the sender becomes a contact and a confirmed neighbour, its *)
(* neighbourhood is merged, and the response carries the result.           *)
RecvDiscReq(n, p) ==
  LET m  == p.from
      t0 == UlnInsert(uln[n], m, p.link)
      t  == UlnConfirm(t0, m, p.link)
      r  == [rt[n] EXCEPT ![m] = UpdateContact(@, m, p.ssn, m)]
      ok == ~UlnConfirmPanics(t0, m, p.link) /\ Consistent(t, r)
  IN  /\ Arrives(n, p, "DiscReq") /\ Up(n, p.link)
      /\ alive' = IF ok THEN alive ELSE alive \ {n}
      /\ uln' = [uln EXCEPT ![n] = t]
      /\ rt' = [rt EXCEPT ![n] = r]
      /\ vg' = [vg EXCEPT ![n] = ProcessDisc(@, n, m, p.ssn, p.contacts)]
      /\ Transmit(n, {p}, IF ok THEN {DiscMsg("DiscRsp", n, m, p.link, t, r, p.nonce)}
                                     \cup AnnounceSSN(n, uln[n], t)
                                ELSE {})
      /\ UNCHANGED <<ifaceVars, reqVars, budget>>

(* finalize_request: only the response to the pending request ends it.     *)
FinalizeRequest(q, nonce) == IF q.nonce = nonce THEN NoRequest ELSE q

RecvDiscRsp(n, p) ==
  LET m  == p.from
      t  == UlnConfirm(uln[n], m, p.link)
      ok == ~UlnConfirmPanics(uln[n], m, p.link)
  IN  /\ Arrives(n, p, "DiscRsp") /\ Up(n, p.link)
      /\ alive' = IF ok THEN alive ELSE alive \ {n}
      /\ uln' = [uln EXCEPT ![n] = t]
      /\ rt' = [rt EXCEPT ![n][m] = UpdateContact(@, m, p.ssn, m)]
      /\ vg' = [vg EXCEPT ![n] = ProcessDisc(@, n, m, p.ssn, p.contacts)]
      /\ discReq' = [discReq EXCEPT ![n][m] = FinalizeRequest(@, p.nonce)]
      /\ Transmit(n, {p}, IF ok THEN AnnounceSSN(n, uln[n], t) ELSE {})
      /\ UNCHANGED <<ifaceVars, discHooks, queryReq, queryHooks, budget>>

(* A message of an interface that is down: ForwardProtocolMessage still    *)
(* learns the sender of ULNDiscReq/Rsp, VicinityDiscovery ignores it.      *)
RecvOnDownInterface(n, p) ==
  /\ p \in msgs /\ n \in alive /\ p.to = n /\ ~Up(n, p.link)
  /\ p.type \in {"Hello", "DiscReq", "DiscRsp"}
  /\ rt' = IF p.type = "Hello" THEN rt
           ELSE [rt EXCEPT ![n][p.from] = UpdateContact(@, p.from, p.ssn, p.from)]
  /\ Drop(p)
  /\ UNCHANGED <<alive, ifaceVars, uln, vg, reqVars, budget>>

Lose(p) ==
  /\ p \in msgs
  /\ Drop(p)
  /\ UNCHANGED <<alive, ifaceVars, nodeVars, reqVars, budget>>

-----------------------------------------------------------------------------
(* QueryRouteReq src -> via -> dst and QueryRouteRsp back *)

(* The path of a contact behind via, simplified by the uln_table.          *)
FirstHop(t, m, via) == IF UlnContains(t, m) THEN m ELSE via

(* ForwardProtocolMessage at the node in the middle.  A message from a     *)
(* node that is no underlay neighbour is dropped; one whose next hop is    *)
(* not is answered by an error the origin's vicinity discovery ignores.    *)
ForwardQuery(n, p) ==
  /\ p \in msgs /\ n \in alive /\ p.to = n /\ p.type \in {"QueryReq", "QueryRsp"} /\ p.via = n
  /\ LET known == UlnContains(uln[n], p.from)
         next  == p.dst
     IN  /\ rt' = IF known THEN [rt EXCEPT ![n][p.src] = UpdateContact(@, p.src, p.ssn, p.src)]
                           ELSE rt
         /\ Transmit(n, {p}, IF known /\ UlnContains(uln[n], next)
                             THEN {[p EXCEPT !.from = n, !.to = next, !.link = uln[n].link[next]]}
                             ELSE {})
  /\ UNCHANGED <<alive, ifaceVars, uln, vg, reqVars, budget>>

(* At the destination: the request raises the observed SSN of its origin   *)
(* and is answered with the own SSN over the link it came from.            *)
RecvQueryReq(n, p) ==
  LET known == UlnContains(uln[n], p.via)
      r  == IF known
            THEN [rt[n] EXCEPT ![p.src] = UpdateContact(@, p.src, p.ssn, FirstHop(uln[n], p.src, p.via))]
            ELSE rt[n]
      handled == known /\ Up(n, p.link)
      ok == handled => Consistent(uln[n], r)
  IN  /\ Arrives(n, p, "QueryReq") /\ p.dst = n
      /\ rt' = [rt EXCEPT ![n] = r]
      /\ vg' = [vg EXCEPT ![n] = IF handled THEN HelloGraph(@, p.src, p.ssn) ELSE @]
      /\ alive' = IF ok THEN alive ELSE alive \ {n}
      /\ Transmit(n, {p}, IF handled /\ ok
                          THEN {[p EXCEPT !.type = "QueryRsp", !.from = n, !.to = p.via,
                                          !.ssn = uln[n].ssn, !.src = n, !.dst = p.src]}
                          ELSE {})
      /\ UNCHANGED <<ifaceVars, uln, reqVars, budget>>

(* At the origin: the response synchronises the SSN of its sender.         *)
RecvQueryRsp(n, p) ==
  LET known == UlnContains(uln[n], p.via)
      handled == known /\ Up(n, p.link)
  IN  /\ Arrives(n, p, "QueryRsp") /\ p.dst = n
      /\ rt' = IF known
               THEN [rt EXCEPT ![n][p.src] =
                       UpdateContact(@, p.src, p.ssn, FirstHop(uln[n], p.src, p.via))]
               ELSE rt
      /\ vg' = [vg EXCEPT ![n] = IF handled /\ HasEntry(@, p.src)
                                 THEN VgUpdateSynced(@, p.src, p.ssn) ELSE @]
      /\ queryReq' = [queryReq EXCEPT ![n][p.src] =
                        IF handled THEN FinalizeRequest(@, p.nonce) ELSE @]
      /\ Drop(p)
      /\ UNCHANGED <<alive, ifaceVars, uln, discReq, discHooks, queryHooks, budget>>

-----------------------------------------------------------------------------
(* Timers *)

(* SendInterfaceHello: ends with the interface, otherwise doubles the      *)
(* interval and arms itself again.                                         *)
HelloTimer(n, l) ==
  /\ n \in alive /\ helloHooks[n][l] > 0
  /\ IF Up(n, l)
     THEN /\ interval' = [interval EXCEPT ![n][l] =
                            IF 2 * @ < UlnMaxInterval THEN 2 * @ ELSE UlnMaxInterval]
          /\ Transmit(n, {}, HelloOn(n, l, uln[n].ssn))
          /\ UNCHANGED helloHooks
     ELSE /\ helloHooks' = [helloHooks EXCEPT ![n][l] = @ - 1]
          /\ UNCHANGED <<interval, msgs>>
  /\ UNCHANGED <<alive, downs, nodeVars, reqVars, budget>>

(* Mutant: the timer is dropped without a look at the request.            *)
DiscTimerIgnored(n, m) ==
  /\ n \in alive /\ discHooks[n][m] > 0
  /\ discHooks' = [discHooks EXCEPT ![n][m] = @ - 1]
  /\ UNCHANGED <<alive, ifaceVars, nodeVars, discReq, queryReq, queryHooks, msgs, budget>>

(* TimeoutULNDiscReq of a request that was answered or given up before.    *)
DiscTimerStale(n, m) ==
  /\ n \in alive /\ discHooks[n][m] > 0 /\ discReq[n][m].nonce = 0
  /\ discHooks' = [discHooks EXCEPT ![n][m] = @ - 1]
  /\ UNCHANGED <<alive, ifaceVars, nodeVars, discReq, queryReq, queryHooks, msgs, budget>>

(* TimeoutULNDiscReq after the last retry: the node leaves the vicinity    *)
(* graph, its uln_table entry stays.  Without a uln_table entry the        *)
(* request is only forgotten.                                              *)
DiscGiveUp(n, m) ==
  LET exhausted == discReq[n][m].timeouts + 1 > DiscMaxRetries
  IN  /\ n \in alive /\ discHooks[n][m] > 0 /\ discReq[n][m].nonce # 0
      /\ exhausted \/ ~UlnContains(uln[n], m)
      /\ discHooks' = [discHooks EXCEPT ![n][m] = @ - 1]
      /\ discReq' = [discReq EXCEPT ![n][m] = NoRequest]
      /\ vg' = [vg EXCEPT ![n] = IF exhausted THEN VgRemove(@, m) ELSE @]
      /\ UNCHANGED <<alive, ifaceVars, uln, rt, queryReq, queryHooks, msgs, budget>>

(* TimeoutULNDiscReq otherwise: the same nonce again, and a new timer.     *)
DiscRetry(n, m) ==
  LET ok == Consistent(uln[n], rt[n])
  IN  /\ n \in alive /\ discHooks[n][m] > 0 /\ discReq[n][m].nonce # 0
      /\ discReq[n][m].timeouts + 1 <= DiscMaxRetries /\ UlnContains(uln[n], m)
      /\ discReq' = [discReq EXCEPT ![n][m].timeouts = @ + 1]
      /\ discHooks' = [discHooks EXCEPT ![n][m] = IF ok THEN @ ELSE @ - 1]
      /\ alive' = IF ok THEN alive ELSE alive \ {n}
      /\ Transmit(n, {}, IF ok THEN {DiscMsg("DiscReq", n, m, uln[n].link[m], uln[n], rt[n],
                                             discReq[n][m].nonce)}
                               ELSE {})
      /\ UNCHANGED <<ifaceVars, nodeVars, queryReq, queryHooks, budget>>

QueryMsg(n, via, m, nonce) ==
  [type |-> "QueryReq", from |-> n, to |-> via, link |-> uln[n].link[via], ssn |-> uln[n].ssn,
   nonce |-> nonce, src |-> n, via |-> via, dst |-> m]

(* TimeoutQueryRouteReq of a request that is no longer pending.            *)
QueryTimerStale(n, m) ==
  /\ n \in alive /\ queryHooks[n][m] > 0 /\ queryReq[n][m].nonce = 0
  /\ queryHooks' = [queryHooks EXCEPT ![n][m] = @ - 1]
  /\ UNCHANGED <<alive, ifaceVars, nodeVars, discReq, discHooks, queryReq, msgs, budget>>

(* The request is given up after the last retry, if there is no path any   *)
(* more, or if the node became a direct neighbour; the graph keeps it.     *)
QueryGiveUp(n, m) ==
  /\ n \in alive /\ queryHooks[n][m] > 0 /\ queryReq[n][m].nonce # 0
  /\ queryReq[n][m].timeouts + 1 > QueryMaxRetries \/ TwoHopVias(vg[n], n, m) = {}
  /\ queryHooks' = [queryHooks EXCEPT ![n][m] = @ - 1]
  /\ queryReq' = [queryReq EXCEPT ![n][m] = NoRequest]
  /\ UNCHANGED <<alive, ifaceVars, nodeVars, discReq, discHooks, msgs, budget>>

QueryRetry(n, m) ==
  /\ n \in alive /\ queryHooks[n][m] > 0 /\ queryReq[n][m].nonce # 0
  /\ queryReq[n][m].timeouts + 1 <= QueryMaxRetries
  /\ \E via \in TwoHopVias(vg[n], n, m) :
       LET ok == UlnContains(uln[n], via)
       IN  /\ queryReq' = [queryReq EXCEPT ![n][m].timeouts = @ + 1]
           /\ queryHooks' = [queryHooks EXCEPT ![n][m] = IF ok THEN @ ELSE @ - 1]
           /\ alive' = IF ok THEN alive ELSE alive \ {n}
           /\ Transmit(n, {}, IF ok THEN {QueryMsg(n, via, m, queryReq[n][m].nonce)} ELSE {})
  /\ UNCHANGED <<ifaceVars, nodeVars, discReq, discHooks, budget>>

-----------------------------------------------------------------------------
(* The resync timer: schedule_syncs *)

(* A node is out of sync if its observed and its synced SSN differ.        *)
OutOfSync(g, m) == HasEntry(g, m) /\ g.synced[m] # g.observed[m]

DiscCandidates(n) ==
  {m \in Node : UlnContains(uln[n], m) /\ OutOfSync(vg[n], m) /\ discReq[n][m].nonce = 0}

QueryCandidates(n) ==
  {m \in Node : /\ ~UlnContains(uln[n], m) /\ OutOfSync(vg[n], m)
                /\ TwoHopVias(vg[n], n, m) # {} /\ queryReq[n][m].nonce = 0}

Isolated(n) ==
  {m \in Node : /\ ~UlnContains(uln[n], m) /\ OutOfSync(vg[n], m)
                /\ ~HasVicinityPath(vg[n], n, m)}

Pending(n) == {m \in Node : discReq[n][m].nonce # 0}
QueryPending(n) == {m \in Node : queryReq[n][m].nonce # 0}

Capacity(n) ==
  LET pending == Cardinality(Pending(n)) + Cardinality(QueryPending(n))
  IN  IF pending < MaxParallelResync THEN MaxParallelResync - pending ELSE 0

(* k elements of S, or all of it if there are fewer.                       *)
UpTo(S, k) ==
  {T \in SUBSET S : Cardinality(T) = IF Cardinality(S) < k THEN Cardinality(S) ELSE k}

(* ULNDiscReqs to the nodes D and QueryRouteReqs to the nodes Q behind     *)
(* via; clean: an isolated node was met, so retain_vicinity runs.          *)
StartSyncs(n, D, Q, via, nonce, clean) ==
  LET ok == /\ D # {} => Consistent(uln[n], rt[n])
            /\ \A m \in Q : UlnContains(uln[n], via[m])
            /\ \A m \in Node : OutOfSync(vg[n], m) => vg[n].synced[m] < vg[n].observed[m]
  IN  /\ \A m \in Q : via[m] \in TwoHopVias(vg[n], n, m) /\ queryHooks[n][m] < MaxHooks
      /\ \A m \in D : discHooks[n][m] < MaxHooks
      /\ \A m \in D \cup Q : nonce[m] \in FreshNonces(n, m)
      /\ clean => Isolated(n) # {}
      /\ Cardinality(D) + Cardinality(Q) < Capacity(n) => (clean <=> Isolated(n) # {})
      /\ discReq' = [discReq EXCEPT ![n] = [m \in Node |->
           IF m \in D THEN [nonce |-> nonce[m], timeouts |-> 0] ELSE @[m]]]
      /\ discHooks' = [discHooks EXCEPT ![n] = [m \in Node |->
           IF m \in D THEN @[m] + 1 ELSE @[m]]]
      /\ queryReq' = [queryReq EXCEPT ![n] = [m \in Node |->
           IF m \in Q THEN [nonce |-> nonce[m], timeouts |-> 0] ELSE @[m]]]
      /\ queryHooks' = [queryHooks EXCEPT ![n] = [m \in Node |->
           IF m \in Q THEN @[m] + 1 ELSE @[m]]]
      /\ vg' = [vg EXCEPT ![n] = IF clean THEN VgRetain(@, n) ELSE @]
      /\ alive' = IF ok THEN alive ELSE alive \ {n}
      /\ Transmit(n, {}, IF ok
            THEN {DiscMsg("DiscReq", n, m, uln[n].link[m], uln[n], rt[n], nonce[m]) : m \in D}
                 \cup {QueryMsg(n, via[m], m, nonce[m]) : m \in Q}
            ELSE {})
      /\ UNCHANGED <<ifaceVars, uln, rt, budget>>

(* Underlay neighbours first, then nodes two hops away, as long as there   *)
(* is capacity (the order within both is that of a hash map); unreachable  *)
(* nodes seen on the way are removed at the end.                           *)
Resync(n) ==
  /\ n \in alive
  /\ DiscCandidates(n) \cup QueryCandidates(n) \cup Isolated(n) # {}
  /\ Capacity(n) > 0
  /\ \E D \in UpTo(DiscCandidates(n), Capacity(n)) :
     \E Q \in UpTo(QueryCandidates(n), Capacity(n) - Cardinality(D)) :
     \E via \in [Q -> Node] :
     \E nonce \in [D \cup Q -> Nonce] :
     \E clean \in BOOLEAN :
       StartSyncs(n, D, Q, via, nonce, clean)

-----------------------------------------------------------------------------
(* Underlay updates, dead contacts, restarts *)

(* Mutant: the immediate ULNHello only.                                    *)
InterfaceUpHelloOnce(n, l) ==
  /\ n \in alive /\ n \in Attached[l] /\ ~Up(n, l) /\ downs[n][l] = {}
  /\ interval' = [interval EXCEPT ![n][l] = UlnMinInterval]
  /\ msgs' = msgs \cup Accepted(msgs, HelloOn(n, l, uln[n].ssn))
  /\ UNCHANGED <<alive, helloHooks, downs, nodeVars, reqVars, budget>>

(* InterfaceUp: an immediate ULNHello and a hello timer.  The observer     *)
(* announces it after everything it had queued for this interface.         *)
InterfaceUp(n, l) ==
  /\ n \in alive /\ n \in Attached[l] /\ ~Up(n, l) /\ downs[n][l] = {}
  /\ helloHooks[n][l] < MaxHelloHooks
  /\ interval' = [interval EXCEPT ![n][l] = UlnMinInterval]
  /\ helloHooks' = [helloHooks EXCEPT ![n][l] = @ + 1]
  /\ msgs' = msgs \cup Accepted(msgs, HelloOn(n, l, uln[n].ssn))
  /\ UNCHANGED <<alive, downs, nodeVars, reqVars, budget>>

(* InterfaceDown: only the hello stops.  UnderlayNeighborDown follows for  *)
(* every neighbour registered on the interface: at least the mapped ones.  *)
InterfaceDown(n, l) ==
  /\ n \in alive /\ Up(n, l) /\ <<n, l>> \in Flapping /\ budget.flaps > 0
  /\ interval' = [interval EXCEPT ![n][l] = 0]
  /\ \E registered \in SUBSET (Attached[l] \ {n}) :
       /\ \A m \in Node : UlnMapped(uln[n], m, l) => m \in registered
       /\ downs' = [downs EXCEPT ![n][l] = registered]
  /\ budget' = [budget EXCEPT !.flaps = @ - 1]
  /\ UNCHANGED <<alive, helloHooks, nodeVars, reqVars, msgs>>

(* UnderlayNeighborDown: FailureHandling::invalidate_affected_contacts.    *)
NeighborDown(n, l, m) ==
  LET hit == UlnMapped(uln[n], m, l)
      t   == IF hit THEN UlnRemove(uln[n], m) ELSE uln[n]
      ok  == hit => ~UlnRemovePanics(uln[n], m)
  IN  /\ n \in alive /\ m \in downs[n][l]
      /\ downs' = [downs EXCEPT ![n][l] = @ \ {m}]
      /\ uln' = [uln EXCEPT ![n] = t]
      /\ rt' = [rt EXCEPT ![n] = IF hit THEN InvalidateVia(@, m) ELSE @]
      /\ vg' = [vg EXCEPT ![n] = VgRetain(IF hit THEN VgRemoveEdge(@, n, m) ELSE @, n)]
      /\ alive' = IF ok THEN alive ELSE alive \ {n}
      /\ Transmit(n, {}, IF ok THEN AnnounceSSN(n, uln[n], t) ELSE {})
      /\ UNCHANGED <<interval, helloHooks, reqVars, budget>>

(* The rediscovery of an invalid contact failed: FailureHandling removes   *)
(* it from the routing table and HandleContactUpdate from the uln_table.   *)
ContactDead(n, m) ==
  LET t  == UlnRemove(uln[n], m)
      ok == ~UlnRemovePanics(uln[n], m)
  IN  /\ n \in alive /\ rt[n][m].ssn # 0 /\ rt[n][m].state = "Invalid"
      /\ rt' = [rt EXCEPT ![n] =
                  [(IF @[m].via = m THEN InvalidateVia(@, m) ELSE @) EXCEPT ![m] = NoContact(m)]]
      /\ uln' = [uln EXCEPT ![n] = t]
      /\ alive' = IF ok THEN alive ELSE alive \ {n}
      /\ Transmit(n, {}, IF ok THEN AnnounceSSN(n, uln[n], t) ELSE {})
      /\ UNCHANGED <<ifaceVars, vg, reqVars, budget>>

(* Nothing is stored: a restarted daemon begins as in Init.                *)
Restart(n) ==
  /\ budget.restarts > 0
  /\ budget' = [budget EXCEPT !.restarts = @ - 1]
  /\ alive' = alive \cup {n}
  /\ interval' = [interval EXCEPT ![n] = [l \in Link |-> 0]]
  /\ helloHooks' = [helloHooks EXCEPT ![n] = [l \in Link |-> 0]]
  /\ downs' = [downs EXCEPT ![n] = [l \in Link |-> {}]]
  /\ uln' = [uln EXCEPT ![n] = NewTable]
  /\ rt' = [rt EXCEPT ![n] = [m \in Node |-> NoContact(m)]]
  /\ vg' = [vg EXCEPT ![n] = NewGraph]
  /\ discReq' = [discReq EXCEPT ![n] = [m \in Node |-> NoRequest]]
  /\ discHooks' = [discHooks EXCEPT ![n] = [m \in Node |-> 0]]
  /\ queryReq' = [queryReq EXCEPT ![n] = [m \in Node |-> NoRequest]]
  /\ queryHooks' = [queryHooks EXCEPT ![n] = [m \in Node |-> 0]]
  /\ UNCHANGED msgs

-----------------------------------------------------------------------------
Receive(n, p) ==
  \/ RecvHelloSilently(n, p)
  \/ AnswerHello(n, p)
  \/ RecvDiscReq(n, p)
  \/ RecvDiscRsp(n, p)
  \/ RecvOnDownInterface(n, p)
  \/ ForwardQuery(n, p)
  \/ RecvQueryReq(n, p)
  \/ RecvQueryRsp(n, p)

Timeout(n) ==
  \/ \E l \in Link : HelloTimer(n, l)
  \/ \E m \in Node : \/ DiscTimerStale(n, m) \/ DiscGiveUp(n, m) \/ DiscRetry(n, m)
                     \/ QueryTimerStale(n, m) \/ QueryGiveUp(n, m) \/ QueryRetry(n, m)
  \/ Resync(n)

UnderlayUpdate(n) ==
  \E l \in Link : \/ InterfaceUp(n, l) \/ InterfaceDown(n, l)
                  \/ \E m \in Node : NeighborDown(n, l, m)

Next ==
  \/ \E p \in msgs : Lose(p) \/ Receive(p.to, p)
  \/ \E n \in Node : \/ Timeout(n) \/ UnderlayUpdate(n) \/ Restart(n)
                     \/ \E m \in Node : ContactDead(n, m)

Spec == Init /\ [][Next]_vars

(* Timers fire, the daemon announces its interfaces and the events it has  *)
(* queued, and a kind of message that a neighbour sends over and over      *)
(* again is received at some time: the network may lose any one of them.   *)
Delivery(n, m, type) ==
  \E p \in msgs : p.from = m /\ p.to = n /\ p.type = type /\ Receive(n, p)

Fairness ==
  /\ \A n \in Node, l \in Link : WF_vars(HelloTimer(n, l)) /\ WF_vars(InterfaceUp(n, l))
  /\ \A n \in Node : \A m \in Node \ {n} :
       /\ WF_vars(DiscTimerStale(n, m) \/ DiscGiveUp(n, m) \/ DiscRetry(n, m))
       /\ WF_vars(\E l \in Link : NeighborDown(n, l, m))
       /\ \A type \in {"Hello", "DiscReq", "DiscRsp"} : SF_vars(Delivery(n, m, type))
  /\ \A n \in Node : WF_vars(Resync(n))

FairSpec == Spec /\ Fairness

-----------------------------------------------------------------------------
(* Properties *)

(* Every variable keeps its type.                                          *)
TypeOK ==
  /\ alive \subseteq Node
  /\ interval \in [Node -> [Link -> Nat]]
  /\ helloHooks \in [Node -> [Link -> Nat]]
  /\ downs \in [Node -> [Link -> SUBSET Node]]
  /\ uln \in [Node -> Table]
  /\ rt \in [Node -> [Node -> Contact]]
  /\ vg \in [Node -> Graph]
  /\ discReq \in [Node -> [Node -> Request]]
  /\ discHooks \in [Node -> [Node -> Nat]]
  /\ queryReq \in [Node -> [Node -> Request]]
  /\ queryHooks \in [Node -> [Node -> Nat]]
  /\ msgs \subseteq Message
  /\ budget \in [flaps : Nat, restarts : Nat]

(* schedule_syncs panics if an entry was synchronised beyond what was      *)
(* observed; late and reordered responses never bring that about.          *)
SyncedNeverAhead == \A n, m \in Node : vg[n].synced[m] <= vg[n].observed[m]

(* Without restarts no node ever believes in an SSN its owner has not      *)
(* reached yet, however old or indirect the information is.                *)
KnowledgeIsReal == \A n, m \in Node : vg[n].observed[m] <= uln[m].ssn

(* A pending request is backed by an armed timer.  A request without one   *)
(* would never be repeated or given up, and because ULNHello and           *)
(* schedule_syncs skip nodes with a pending request, the node would never  *)
(* be synchronised again.                                                  *)
PendingHasTimer ==
  \A n \in alive, m \in Node :
    /\ discReq[n][m].nonce # 0 => discHooks[n][m] > 0
    /\ queryReq[n][m].nonce # 0 => queryHooks[n][m] > 0

(* collect_underlay_neighbors relies on it: every confirmed underlay       *)
(* neighbour is a contact of the routing table, across dead contacts,      *)
(* interfaces going down and late responses.                               *)
BidirectionalHasContact == \A n \in alive : Consistent(uln[n], rt[n])

(* An interface that is up has a hello timer, whatever timers of an        *)
(* earlier up phase still fire.                                            *)
HelloKeepsRunning ==
  \A n \in alive, l \in Link : Up(n, l) => helloHooks[n][l] > 0

(* If a direct neighbour is synchronised with its current SSN, the graph   *)
(* holds exactly its confirmed neighbours: an SSN is never reused for      *)
(* another neighbourhood and no late message leaves wrong edges behind.    *)
SyncedMeansAccurate ==
  \A n, m \in Node :
    /\ n # m /\ IsDirectUln(vg[n], n, m) /\ vg[n].synced[m] = uln[m].ssn
    => Neighbors(vg[n], m) \ {n} = BidirectionalSet(uln[m]) \ {n}

(* n has confirmed m and holds its current neighbourhood.                  *)
InSync(n, m) ==
  /\ m \in BidirectionalSet(uln[n]) /\ IsDirectUln(vg[n], n, m)
  /\ vg[n].synced[m] = uln[m].ssn

(* Two nodes on a link find each other and resynchronise again and again,  *)
(* whatever is lost and whichever node restarts, unless one of them        *)
(* panics: no pending request and no missing answer blocks the handshake   *)
(* for good, although at most one of them answers a ULNHello by the        *)
(* heuristic.                                                              *)
Resynchronises ==
  \A n \in Node : \A m \in Node \ {n} : []<>(InSync(n, m) \/ ~({n, m} \subseteq alive))

(* A node's confirmed neighbours change only together with its SSN, one    *)
(* step at a time; only then do the others notice that they are outdated.  *)
NeighborChangeBumpsSSN ==
  [][\A n \in Node :
       /\ BidirectionalSet(uln[n])' # BidirectionalSet(uln[n])
       /\ n \in alive' /\ budget'.restarts = budget.restarts
       => uln'[n].ssn = uln[n].ssn + 1]_vars

=============================================================================
