------------------------- MODULE DistributedHashTable -------------------------
(***************************************************************************)
(* The DistributedHashTable use case on every node of a network, with the  *)
(* part of HandleOverlayDiscovery it depends on.  Nodes keep key-value     *)
(* pairs as soft state: the garbage collection evicts what nobody has      *)
(* accessed for a while and republishes the rest to the nodes that are     *)
(* closest to the key now.  Requests with a key as destination are routed  *)
(* by every overlay hop to a closer contact.  A tick of the clock is the   *)
(* longest interval between two garbage collections of a node (90 s by     *)
(* default); RPC timeouts (5 s) and messages do not outlive it.  The nodes *)
(* between two overlay hops, and the API (see DHTInjector), are left out;  *)
(* a routing table is the set of its valid contacts (see RoutingTable for  *)
(* its buckets).                                                           *)
(***************************************************************************)
EXTENDS Integers, Sequences, FiniteSets

CONSTANTS Node, Key, Value,
          Client,    \* the nodes whose API is used
          Distance,  \* [Node -> [Target -> Nat]]: the xor of two NodeIds
          PrefixLen, \* [Node -> [Target -> Nat]]: the length of their shared prefix
          KeyValueTimeout, \* key_value_timeout, in ticks
          InitialContacts, \* the routing tables the model starts with
          NoAge,     \* last_accessed_ms of a StoreReq that is no republish
          MaxTime,   \* bound: ticks
          MaxStores, MaxFetches, \* bound: requests of clients
          MaxFaults  \* bound: lost messages, contacts that come and go, restarts

Target == Node \cup Key

ASSUME DHTAssumption ==
  /\ Client \subseteq Node /\ Node \cap Key = {}
  /\ Distance \in [Node -> [Target -> Nat]] /\ PrefixLen \in [Node -> [Target -> Nat]]
  /\ \A n, c \in Node, t \in Target :
       /\ PrefixLen[c][t] > PrefixLen[n][t] => Distance[c][t] < Distance[n][t]
       /\ n # c => Distance[n][t] # Distance[c][t]
  /\ InitialContacts \subseteq {t \in [Node -> SUBSET Node] : \A n \in Node : n \notin t[n]}
  /\ KeyValueTimeout \in Nat /\ NoAge \notin Nat
  /\ MaxTime \in Nat /\ MaxStores \in Nat /\ MaxFetches \in Nat
  /\ MaxFaults \in Nat

VARIABLES
  now,       \* current_time of the nodes' runtimes
  contacts,  \* [Node -> SUBSET Node]: the valid contacts of the routing tables
  values,    \* [Node -> [Key -> SUBSET Value]]: values of the ComplexHashTable's entries
  accessed,  \* [Node -> [Key -> Nat]]: accessed of an entry, if there is one
  pending,   \* [Node -> SUBSET (Key \X Nat)]: pending_reqs, a nonce being new in every tick
  collected, \* SUBSET Node: the nodes whose garbage collection has run in this tick
  net,       \* messages on their way to their next overlay hop
  touched,   \* [Key -> Nat]: when a client has last stored or fetched the key
  calm,      \* since the last tick nothing got lost, stored or changed in a routing table
  stores, fetches, faults \* what is left of the bounds

tableVars == <<values, accessed>>
boundVars == <<stores, fetches, faults>>
vars == <<now, contacts, values, accessed, pending, collected, net, touched, calm,
          stores, fetches, faults>>

(* route: the overlay hops of the SourceRoute, the last one being next.    *)
Message ==
  [type : {"StoreReq"}, key : Key, value : Value, age : Nat \cup {NoAge}, dest : Target,
   route : Seq(Node)]
  \cup [type : {"FetchReq"}, key : Key, route : Seq(Node)]
  \cup [type : {"FindNodeReq"}, key : Key, nonce : Nat, route : Seq(Node)]
  \cup [type : {"FindNodeRsp"}, key : Key, nonce : Nat, from : Node, to : Node,
        contacts : SUBSET Node]
  \cup [type : {"FetchRsp"}, key : Key, values : SUBSET Value, from : Node, to : Node]
  \cup [type : {"StoreRsp", "DeadEnd"}, key : Key, from : Node, to : Node]

Init ==
  /\ now = 0
  /\ contacts \in InitialContacts
  /\ values = [n \in Node |-> [k \in Key |-> {}]]
  /\ accessed = [n \in Node |-> [k \in Key |-> 0]]
  /\ pending = [n \in Node |-> {}]
  /\ collected = {} /\ net = {} /\ calm = TRUE
  /\ touched = [k \in Key |-> 0]
  /\ stores = MaxStores /\ fetches = MaxFetches /\ faults = MaxFaults
-------------------------------------------------------------------------------
(* An entry is in the table as long as it has a value.                     *)
Holds(n, k) == values[n][k] # {}

(* EntryMeta::access: an access time is never moved into the past.         *)
Accessed(n, k, time) == IF Holds(n, k) /\ accessed[n][k] >= time THEN accessed[n][k] ELSE time

(* LocalHashTable::store and the access that follows it.                   *)
StoreLocally(n, k, v, time) ==
  /\ values' = [values EXCEPT ![n][k] = @ \cup {v}]
  /\ accessed' = [accessed EXCEPT ![n][k] = Accessed(n, k, time)]

(* The contacts that share most of the target.                             *)
LongestPrefix(n, target) ==
  {c \in contacts[n] : \A d \in contacts[n] : PrefixLen[d][target] <= PrefixLen[c][target]}

(* Mutant: the node's own distance is left out of account.                 *)
NextHopsAlways(n, target) == LongestPrefix(n, target)

(* Mutant: no contact with an equally long prefix is taken.                *)
NextHopsByPrefix(n, target) ==
  {c \in LongestPrefix(n, target) : PrefixLen[c][target] > PrefixLen[n][target]}

(* next_hop: the contacts a node may route to, none if it is the closest.  *)
(* If the best contacts only share as much of the target as the node does, *)
(* the xor metric decides, otherwise the length of the paths to them,      *)
(* which is left open.                                                     *)
NextHops(n, target) ==
  {c \in LongestPrefix(n, target) :
     \/ PrefixLen[c][target] > PrefixLen[n][target]
     \/ /\ PrefixLen[c][target] = PrefixLen[n][target]
        /\ Distance[c][target] < Distance[n][target]
        /\ \A d \in LongestPrefix(n, target) : Distance[c][target] <= Distance[d][target]}

(* The routes of a request that node n sends by key.  Without a next hop   *)
(* the request is broadcast to the use cases of n itself, where            *)
(* ForwardProtocolMessage drops it.                                        *)
RoutesByKey(n, target) == {<<n, c>> : c \in NextHops(n, target)}
SendByKey(sent, routes) ==
  \/ routes = {} /\ net' = net
  \/ \E route \in routes : net' = net \cup {[sent EXCEPT !.route = route]}

(* Mutant: a republish counts as an access.                                *)
AgeForgotten(n, k) == 0

(* The age of an entry in a republish.                                     *)
Age(n, k) == now - accessed[n][k]

(* A StoreReq that republishes a value.                                    *)
Republish(n, k, v, dest, route) ==
  [type |-> "StoreReq", key |-> k, value |-> v, age |-> Age(n, k), dest |-> dest, route |-> route]
-------------------------------------------------------------------------------
(* A client of node n stores a value at node d, one of those a lookup of   *)
(* the key has found.                                                      *)
ClientStore(n, d, k, v) ==
  /\ stores > 0
  /\ net' = net \cup {[type |-> "StoreReq", key |-> k, value |-> v, age |-> NoAge, dest |-> d,
                       route |-> <<n, d>>]}
  /\ calm' = FALSE /\ stores' = stores - 1
  /\ UNCHANGED <<now, contacts, values, accessed, pending, collected, touched, fetches, faults>>

(* A client of node n fetches a key: send_fetch_req.                       *)
ClientFetch(n, k) ==
  /\ fetches > 0
  /\ SendByKey([type |-> "FetchReq", key |-> k, route |-> <<n>>], RoutesByKey(n, k))
  /\ fetches' = fetches - 1
  /\ UNCHANGED <<now, contacts, values, accessed, pending, collected, touched, calm, stores,
                 faults>>

(* The overlay hop that handles a request.                                 *)
Receiver(route) == route[Len(route)]

(* Routing a request on, by an overlay hop that does not answer it.        *)
Forward(m, target) ==
  \E c \in NextHops(Receiver(m.route), target) :
     net' = (net \ {m}) \cup {[m EXCEPT !.route = Append(@, c)]}
Closest(n, target) == NextHops(n, target) = {}

(* handle_store_req.  A republish keeps its age and is not answered.       *)
HandleStoreReq(m) ==
  LET n == Receiver(m.route)
      rsp(type) == [type |-> type, key |-> m.key, from |-> n, to |-> Head(m.route)]
  IN  /\ m \in net /\ m.type = "StoreReq"
      /\ \/ /\ m.dest = n /\ m.age # NoAge
            /\ StoreLocally(n, m.key, m.value, now - m.age)
            /\ net' = net \ {m} /\ UNCHANGED touched
         \/ /\ m.dest = n /\ m.age = NoAge
            /\ StoreLocally(n, m.key, m.value, now)
            /\ net' = (net \ {m}) \cup {rsp("StoreRsp")}
            /\ touched' = [touched EXCEPT ![m.key] = now]
         \/ /\ m.dest # n /\ Forward(m, m.dest)
            /\ UNCHANGED <<values, accessed, touched>>
         \/ /\ m.dest # n /\ Closest(n, m.dest)
            /\ net' = (net \ {m}) \cup {rsp("DeadEnd")}
            /\ UNCHANGED <<values, accessed, touched>>
      /\ UNCHANGED <<now, contacts, pending, collected, calm, stores, fetches, faults>>

(* handle_fetch_req: every overlay hop answers if it has the key.          *)
HandleFetchReq(m) ==
  LET n == Receiver(m.route)
      rsp == [type |-> "FetchRsp", key |-> m.key, values |-> values[n][m.key], from |-> n,
              to |-> Head(m.route)]
  IN  /\ m \in net /\ m.type = "FetchReq"
      /\ \/ /\ Holds(n, m.key)
            /\ accessed' = [accessed EXCEPT ![n][m.key] = Accessed(n, m.key, now)]
            /\ net' = (net \ {m}) \cup {rsp}
            /\ touched' = [touched EXCEPT ![m.key] = now]
         \/ /\ ~Holds(n, m.key) /\ Forward(m, m.key)
            /\ UNCHANGED <<accessed, touched>>
         \/ /\ ~Holds(n, m.key) /\ Closest(n, m.key)
            /\ net' = (net \ {m}) \cup {rsp}
            /\ UNCHANGED <<accessed, touched>>
      /\ UNCHANGED <<now, contacts, values, pending, collected, calm, stores, fetches, faults>>

(* HandleOverlayDiscovery: a FindNodeReq goes to the closest contact, if   *)
(* that is closer than the node and is not who asks; otherwise it is       *)
(* answered with the contacts closest to the key, of which there are at    *)
(* most as many as fit into a bucket.                                      *)
HandleFindNodeReq(m) ==
  LET n == Receiver(m.route)
      best == {c \in contacts[n] : /\ Distance[c][m.key] < Distance[n][m.key]
                                   /\ c # Head(m.route)
                                   /\ \A d \in contacts[n] : Distance[c][m.key] <= Distance[d][m.key]}
  IN  /\ m \in net /\ m.type = "FindNodeReq"
      /\ \/ \E c \in best : net' = (net \ {m}) \cup {[m EXCEPT !.route = Append(@, c)]}
         \/ /\ best = {}
            /\ net' = (net \ {m}) \cup {[type |-> "FindNodeRsp", key |-> m.key, nonce |-> m.nonce,
                                         from |-> n, to |-> Head(m.route), contacts |-> contacts[n]]}
      /\ UNCHANGED <<now, contacts, values, accessed, pending, collected, touched, calm, stores,
                     fetches, faults>>

(* Mutant: the closest node is taken to have the entry already.            *)
ReplicasNotClosest(m) == m.contacts

(* The nodes an entry is republished to after a lookup.                    *)
Replicas(m) == {m.from} \cup m.contacts

(* A FindNodeRsp to a pending request, republish_key: the values go to the *)
(* node that has answered and to the contacts it reports.                  *)
HandleFindNodeRsp(m) ==
  LET n == m.to
      expected == <<m.key, m.nonce>> \in pending[n]
  IN  /\ m \in net /\ m.type = "FindNodeRsp"
      /\ pending' = [pending EXCEPT ![n] = @ \ {<<m.key, m.nonce>>}]
      /\ net' = (net \ {m}) \cup
           {Republish(n, m.key, v, d, <<n, d>>) :
              v \in IF expected THEN values[n][m.key] ELSE {}, d \in Replicas(m)}
      /\ UNCHANGED <<now, contacts, values, accessed, collected, touched, calm, stores, fetches,
                     faults>>

(* The answers to a client's requests leave the model.                     *)
HandleClientRsp(m) ==
  /\ m \in net /\ m.type \in {"StoreRsp", "FetchRsp", "DeadEnd"}
  /\ net' = net \ {m}
  /\ UNCHANGED <<now, contacts, values, accessed, pending, collected, touched, calm, stores,
                 fetches, faults>>

(* Mutant: an entry lives one tick longer.                                 *)
ExpiredLate(n, k) == now - accessed[n][k] > KeyValueTimeout + 1

(* An entry that was not accessed for key_value_timeout.                   *)
Expired(n, k) == now - accessed[n][k] > KeyValueTimeout

(* The garbage collection timer: expired entries are removed, the others   *)
(* are republished.  No entry is ever marked as republished, so            *)
(* key_republish_needed holds for all of them.                             *)
GarbageCollection(n) ==
  LET expired == {k \in Key : Holds(n, k) /\ Expired(n, k)}
      kept == {k \in Key : Holds(n, k) /\ ~Expired(n, k)}
      lookup(k, route) == [type |-> "FindNodeReq", key |-> k, nonce |-> now, route |-> route]
  IN  /\ n \notin collected
      /\ collected' = collected \cup {n}
      /\ values' = [values EXCEPT ![n] = [k \in Key |-> IF k \in expired THEN {} ELSE @[k]]]
      /\ pending' = [pending EXCEPT ![n] = @ \cup (kept \X {now})]
      /\ \E hops \in [kept -> Node] :
           /\ \A k \in kept : hops[k] \in NextHops(n, k) \/ Closest(n, k)
           /\ net' = net \cup {lookup(k, <<n, hops[k]>>) : k \in {j \in kept : ~Closest(n, j)}}
      /\ UNCHANGED <<now, contacts, accessed, touched, calm, stores, fetches, faults>>

(* A timeout of a FindNodeReq, possibly before an answer on its way.       *)
HandleTimeout(n) ==
  /\ pending[n] # {}
  /\ \E p \in pending[n] : pending' = [pending EXCEPT ![n] = @ \ {p}]
  /\ calm' = (calm /\ \A m \in net : m.type \notin {"FindNodeReq", "FindNodeRsp"})
  /\ UNCHANGED <<now, contacts, values, accessed, collected, net, touched, stores, fetches,
                 faults>>

(* A contact event, New or Updated to valid: entries whose key the contact *)
(* is closer to are republished with the key as destination.               *)
ContactNew(n, c) ==
  LET closer == {k \in Key : Holds(n, k) /\ Distance[c][k] <= Distance[n][k]}
  IN  /\ faults > 0 /\ c # n /\ c \notin contacts[n]
      /\ contacts' = [contacts EXCEPT ![n] = @ \cup {c}]
      /\ \E hops \in [closer -> Node] :
           /\ \A k \in closer : hops[k] \in NextHops(n, k)'
           /\ net' = net \cup UNION {{Republish(n, k, v, k, <<n, hops[k]>>) : v \in values[n][k]} :
                                     k \in closer}
      /\ faults' = faults - 1 /\ calm' = FALSE
      /\ UNCHANGED <<now, values, accessed, pending, collected, touched, stores, fetches>>

(* A contact leaves the routing table or becomes invalid.                  *)
ContactLost(n, c) ==
  /\ faults > 0 /\ c \in contacts[n]
  /\ contacts' = [contacts EXCEPT ![n] = @ \ {c}]
  /\ faults' = faults - 1 /\ calm' = FALSE
  /\ UNCHANGED <<now, values, accessed, pending, collected, net, touched, stores, fetches>>

(* A node starts again, with an empty table; its contacts are found again  *)
(* before this model goes on.                                              *)
Restart(n) ==
  /\ faults > 0
  /\ values' = [values EXCEPT ![n] = [k \in Key |-> {}]]
  /\ pending' = [pending EXCEPT ![n] = {}]
  /\ faults' = faults - 1 /\ calm' = FALSE
  /\ UNCHANGED <<now, contacts, accessed, collected, net, touched, stores, fetches>>

Lose(m) ==
  /\ faults > 0 /\ m \in net
  /\ net' = net \ {m}
  /\ faults' = faults - 1 /\ calm' = FALSE
  /\ UNCHANGED <<now, contacts, values, accessed, pending, collected, touched, stores, fetches>>

Tick ==
  /\ now < MaxTime /\ collected = Node /\ net = {} /\ \A n \in Node : pending[n] = {}
  /\ now' = now + 1
  /\ collected' = {} /\ calm' = TRUE
  /\ UNCHANGED <<contacts, values, accessed, pending, net, touched, stores, fetches, faults>>

Next ==
  \/ \E n \in Client, d \in Node, k \in Key, v \in Value : ClientStore(n, d, k, v)
  \/ \E n \in Client, k \in Key : ClientFetch(n, k)
  \/ \E m \in net : \/ HandleStoreReq(m) \/ HandleFetchReq(m) \/ HandleFindNodeReq(m)
                    \/ HandleFindNodeRsp(m) \/ HandleClientRsp(m) \/ Lose(m)
  \/ \E n \in Node : GarbageCollection(n) \/ HandleTimeout(n) \/ Restart(n)
  \/ \E n, c \in Node : ContactNew(n, c) \/ ContactLost(n, c)
  \/ Tick

Spec == Init /\ [][Next]_vars
-------------------------------------------------------------------------------
(* Every variable keeps the type of what it models.                        *)
TypeOK ==
  /\ now \in Nat
  /\ contacts \in [Node -> SUBSET Node]
  /\ values \in [Node -> [Key -> SUBSET Value]]
  /\ accessed \in [Node -> [Key -> Nat]]
  /\ pending \in [Node -> SUBSET (Key \X Nat)]
  /\ collected \subseteq Node
  /\ \A m \in net : m \in Message
  /\ touched \in [Key -> Nat]
  /\ calm \in BOOLEAN
  /\ stores \in Nat /\ fetches \in Nat /\ faults \in Nat

(* Republishing never makes an entry younger: what a node believes to be   *)
(* the last access, also of an entry it got from another node, is not      *)
(* later than the last store or fetch of a client anywhere.                *)
RepublishKeepsAge ==
  /\ \A n \in Node, k \in Key : Holds(n, k) => accessed[n][k] <= touched[k]
  /\ \A m \in net : (m.type = "StoreReq" /\ m.age # NoAge) =>
                       (m.age <= now /\ now - m.age <= touched[m.key])

(* Soft state ends: once a node has collected its garbage in a tick, it    *)
(* only holds keys some client has accessed within key_value_timeout, even *)
(* if other nodes have republished them to it since.                       *)
SoftStateEnds ==
  \A n \in collected, k \in Key : Holds(n, k) => now - touched[k] <= KeyValueTimeout

(* Key-based routing makes progress: every overlay hop of a request is     *)
(* closer to its target than the hop before, so no request can circle,     *)
(* although every hop decides by a routing table of its own, which may     *)
(* change while the request is under way.                                  *)
RoutedByKey(m) == m.type \in {"FetchReq", "FindNodeReq"}
                  \/ (m.type = "StoreReq" /\ m.dest \in Key)
RouteGetsCloser ==
  \A m \in net : RoutedByKey(m) =>
    \A i, j \in 1 .. Len(m.route) :
      i < j => Distance[m.route[j]][m.key] < Distance[m.route[i]][m.key]

ClosestOfAll(n, k) == \A d \in Node : Distance[n][k] <= Distance[d][k]
Complete == \A n \in Node : contacts[n] = Node \ {n}

(* If every node knows every other one, a request that no overlay hop can  *)
(* satisfy is given up by the node closest to its key and by no other.     *)
LookupEndsAtClosest ==
  [][\A m \in net' \ net :
       (/\ Complete
        /\ m.type \in {"FindNodeRsp", "DeadEnd"} \/ (m.type = "FetchRsp" /\ m.values = {}))
       => ClosestOfAll(m.from, m.key)]_vars

(* The periodic republish keeps a key available where it is looked for:    *)
(* after a tick without loss and change, in which every node knows every   *)
(* other one, the node closest to the key holds it if any node does.       *)
RepublishReachesClosest ==
  (calm /\ Complete /\ collected = Node /\ net = {}) =>
    \A n, c \in Node, k \in Key : (Holds(n, k) /\ ClosestOfAll(c, k)) => Holds(c, k)

===============================================================================
