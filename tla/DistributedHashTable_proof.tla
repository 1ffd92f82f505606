---------------------- MODULE DistributedHashTable_proof ----------------------
(***************************************************************************)
(* Proofs about DistributedHashTable, for every network, every metric in   *)
(* which a longer shared prefix means a smaller distance, and routing      *)
(* tables that change at any time: republishing keeps the age of entries,  *)
(* soft state ends, key-based routing makes progress, lookups end at the   *)
(* closest node, and a calm tick brings every key there.                   *)
(***************************************************************************)
EXTENDS DistributedHashTable, SequenceTheorems, WellFoundedInduction, TLAPS

Routed == {"StoreReq", "FetchReq", "FindNodeReq"}

GetsCloser(k, route) ==
  \A i, j \in 1 .. Len(route) : i < j => Distance[route[j]][k] < Distance[route[i]][k]

(* The parts of the inductive invariant about a message: a republish is as *)
(* old as its entry, and one addressed to a node comes from a node that    *)
(* has collected its garbage in this tick.                                 *)
AgeOK(m) ==
  m.type = "StoreReq" /\ m.age # NoAge =>
    /\ m.age <= now /\ now - m.age <= touched[m.key]
    /\ m.dest \in Node => now - touched[m.key] <= KeyValueTimeout

RouteOK(m) ==
  m.type \in Routed =>
    /\ m.route # <<>>
    /\ (m.type = "StoreReq" /\ m.dest \in Key => m.dest = m.key)
    /\ (m.type = "StoreReq" /\ m.dest \in Node => Receiver(m.route) = m.dest)
    /\ (RoutedByKey(m) => GetsCloser(m.key, m.route))

MsgOK(m) == m \in Message /\ RouteOK(m) /\ AgeOK(m)

(* The parts about the tables of the nodes.                                *)
TablesOK ==
  /\ now \in Nat /\ contacts \in [Node -> SUBSET Node]
  /\ values \in [Node -> [Key -> SUBSET Value]] /\ accessed \in [Node -> [Key -> Nat]]
  /\ pending \in [Node -> SUBSET (Key \X Nat)] /\ collected \subseteq Node
  /\ touched \in [Key -> Nat]
  /\ stores \in Nat /\ fetches \in Nat /\ faults \in Nat

PastOK ==
  /\ \A k \in Key : touched[k] <= now
  /\ \A n \in Node, k \in Key : Holds(n, k) => accessed[n][k] <= touched[k]

(* A lookup is pending only at nodes that have collected their garbage.    *)
PendingOK == \A n \in Node : pending[n] # {} => n \in collected

IInv == TablesOK /\ PastOK /\ PendingOK /\ SoftStateEnds /\ \A m \in net : MsgOK(m)

------------------------------------------------------------------------------
(* The fields of the messages, and the messages that are made.             *)
LEMMA MessageFields ==
  ASSUME NEW m \in Message
  PROVE  /\ m.type \in Routed => m.key \in Key /\ m.route \in Seq(Node)
         /\ m.type = "StoreReq" => m.value \in Value /\ m.age \in Nat \cup {NoAge} /\ m.dest \in Target
         /\ m.type = "FindNodeReq" => m.nonce \in Nat
         /\ m.type = "FindNodeRsp" => /\ m.key \in Key /\ m.nonce \in Nat /\ m.from \in Node
                                      /\ m.to \in Node /\ m.contacts \subseteq Node
  BY DEF Message, Routed

LEMMA StoreReqs ==
  ASSUME NEW k \in Key, NEW v \in Value, NEW age \in Nat \cup {NoAge}, NEW d \in Target,
         NEW route \in Seq(Node)
  PROVE  [type |-> "StoreReq", key |-> k, value |-> v, age |-> age, dest |-> d, route |-> route]
         \in Message
  BY DEF Message

LEMMA FetchReqs ==
  ASSUME NEW k \in Key, NEW route \in Seq(Node)
  PROVE  [type |-> "FetchReq", key |-> k, route |-> route] \in Message
  BY DEF Message

LEMMA FindNodeReqs ==
  ASSUME NEW k \in Key, NEW nonce \in Nat, NEW route \in Seq(Node)
  PROVE  [type |-> "FindNodeReq", key |-> k, nonce |-> nonce, route |-> route] \in Message
  BY DEF Message

LEMMA Responses ==
  ASSUME NEW k \in Key, NEW n \in Node, NEW to \in Node, NEW nonce \in Nat, NEW V \in SUBSET Value,
         NEW C \in SUBSET Node
  PROVE  /\ [type |-> "FindNodeRsp", key |-> k, nonce |-> nonce, from |-> n, to |-> to,
             contacts |-> C] \in Message
         /\ [type |-> "FetchRsp", key |-> k, values |-> V, from |-> n, to |-> to] \in Message
         /\ [type |-> "StoreRsp", key |-> k, from |-> n, to |-> to] \in Message
         /\ [type |-> "DeadEnd", key |-> k, from |-> n, to |-> to] \in Message
  BY DEF Message

(* A request gets another route.                                           *)
LEMMA NewRoute ==
  ASSUME NEW m \in Message, m.type \in Routed, NEW route \in Seq(Node)
  PROVE  /\ [m EXCEPT !.route = route] \in Message
         /\ [m EXCEPT !.route = route].type = m.type
         /\ [m EXCEPT !.route = route].key = m.key
         /\ [m EXCEPT !.route = route].route = route
         /\ m.type = "StoreReq" => /\ [m EXCEPT !.route = route].age = m.age
                                   /\ [m EXCEPT !.route = route].dest = m.dest
  BY DEF Message, Routed

------------------------------------------------------------------------------
(* next_hop only returns contacts that are closer to the target.           *)
LEMMA NextHopsAreCloser ==
  ASSUME TablesOK, NEW n \in Node, NEW t \in Target, NEW c \in NextHops(n, t)
  PROVE  c \in Node /\ Distance[c][t] < Distance[n][t]
  BY DHTAssumption DEF NextHops, LongestPrefix, TablesOK

LEMMA FirstHops ==
  ASSUME NEW n \in Node, NEW c \in Node, NEW k \in Key, Distance[c][k] < Distance[n][k]
  PROVE  GetsCloser(k, <<n, c>>) /\ <<n, c>> \in Seq(Node) /\ <<n, c>> # <<>>
<1>1. <<n, c>> \in Seq(Node) /\ Len(<<n, c>>) = 2 /\ <<n, c>>[1] = n /\ <<n, c>>[2] = c
  OBVIOUS
<1> DEFINE route == <<n, c>>
<1> HIDE DEF route
<1>2. \A i, j \in 1 .. Len(route) : i < j => i = 1 /\ j = 2
  BY <1>1 DEF route
<1>3. GetsCloser(k, route)
  BY <1>1, <1>2 DEF GetsCloser, route
<1>4. Len(<<>>) = 0
  OBVIOUS
<1> QED
  BY <1>1, <1>3, <1>4 DEF route

LEMMA RouteEnds ==
  ASSUME NEW route \in Seq(Node), route # <<>>
  PROVE  Receiver(route) \in Node /\ Head(route) \in Node
  BY DEF Receiver

(* One overlay hop more keeps the route getting closer.                    *)
LEMMA HopGetsCloser ==
  ASSUME NEW route \in Seq(Node), route # <<>>, NEW k \in Key, GetsCloser(k, route),
         NEW c \in Node, Distance[c][k] < Distance[Receiver(route)][k]
  PROVE  GetsCloser(k, Append(route, c))
<1> DEFINE new == Append(route, c)
<1>1. /\ Len(route) \in Nat /\ Len(route) > 0 /\ Len(new) = Len(route) + 1
      /\ new[Len(route) + 1] = c /\ \A i \in 1 .. Len(route) : new[i] = route[i]
  BY AppendProperties
<1>0. \A i \in 1 .. Len(route) : route[i] \in Node
  OBVIOUS
<1> HIDE DEF new
<1>2. \A n \in Node : Distance[n][k] \in Nat
  BY DHTAssumption DEF Target
<1> SUFFICES ASSUME NEW i \in 1 .. Len(new), NEW j \in 1 .. Len(new), i < j
             PROVE  Distance[new[j]][k] < Distance[new[i]][k]
  BY DEF GetsCloser, new
<1>3. i \in 1 .. Len(route) /\ new[i] = route[i]
  BY <1>1
<1>4. CASE j \in 1 .. Len(route)
  BY <1>1, <1>3, <1>4 DEF GetsCloser
<1>5. CASE j = Len(route) + 1
  <2>1. new[j] = c
    BY <1>1, <1>5
  <2>2. CASE i = Len(route)
    BY <1>3, <2>1, <2>2 DEF Receiver
  <2>3. CASE i < Len(route)
    <3>1. Distance[Receiver(route)][k] < Distance[route[i]][k]
      BY <1>1, <1>3, <2>3 DEF GetsCloser, Receiver
    <3>2. Receiver(route) \in Node /\ route[i] \in Node
      BY <1>0, <1>1, <1>3 DEF Receiver
    <3> QED
      BY <1>2, <1>3, <2>1, <3>1, <3>2
  <2> QED
    BY <1>1, <1>3, <2>2, <2>3
<1> QED
  BY <1>1, <1>4, <1>5

------------------------------------------------------------------------------
(* A message on its way is not spoilt by accesses of clients.              *)
LEMMA OldMessage ==
  ASSUME TablesOK, NEW m, MsgOK(m), now' = now, touched' \in [Key -> Nat],
         \A k \in Key : touched'[k] >= touched[k]
  PROVE  MsgOK(m)'
<1>1. m \in Message /\ RouteOK(m)'
  BY DEF MsgOK, RouteOK, RoutedByKey
<1>2. AgeOK(m)'
  <2> SUFFICES ASSUME m.type = "StoreReq", m.age # NoAge
               PROVE  /\ m.age <= now /\ now - m.age <= touched'[m.key]
                      /\ m.dest \in Node => now - touched'[m.key] <= KeyValueTimeout
    BY DEF AgeOK
  <2>1. m.key \in Key /\ m.age \in Nat /\ now \in Nat
    BY <1>1, MessageFields DEF Routed, TablesOK
  <2>2. touched[m.key] \in Nat /\ touched'[m.key] \in Nat /\ touched'[m.key] >= touched[m.key]
    BY <2>1 DEF TablesOK
  <2>3. AgeOK(m)
    BY DEF MsgOK
  <2> QED
    BY <2>1, <2>2, <2>3, DHTAssumption DEF AgeOK
<1> QED
  BY <1>1, <1>2 DEF MsgOK

LEMMA OldMessages ==
  ASSUME IInv, now' = now, touched' \in [Key -> Nat], \A k \in Key : touched'[k] >= touched[k]
  PROVE  \A m \in net : MsgOK(m)'
  BY OldMessage DEF IInv

(* A step that leaves the clock, the tables and the accesses alone.        *)
LEMMA TablesUnchanged ==
  ASSUME IInv, UNCHANGED <<now, values, accessed, touched, collected>>
  PROVE  PastOK' /\ SoftStateEnds'
  BY DEF IInv, PastOK, SoftStateEnds, Holds

LEMMA TouchedUnchanged ==
  ASSUME IInv, touched' = touched
  PROVE  touched' \in [Key -> Nat] /\ \A k \in Key : touched'[k] >= touched[k]
  BY DEF IInv, TablesOK

(* A republish that n may send: to a node, if n has collected its garbage  *)
(* in this tick, or by key to a contact that is closer.                    *)
LEMMA RepublishOK ==
  ASSUME IInv, NEW n \in Node, NEW k \in Key, NEW v \in values[n][k], NEW dest \in Target,
         NEW c \in Node, now' = now, touched' = touched,
         \/ dest \in Node /\ n \in collected /\ c = dest
         \/ dest = k /\ Distance[c][k] < Distance[n][k],
         NEW m, m = Republish(n, k, v, dest, <<n, c>>)
  PROVE  MsgOK(m)'
<1> DEFINE age == now - accessed[n][k]
<1>1. /\ Holds(n, k) /\ v \in Value
      /\ now \in Nat /\ accessed[n][k] \in Nat /\ touched[k] \in Nat
      /\ accessed[n][k] <= touched[k] /\ touched[k] <= now
  BY DEF IInv, TablesOK, PastOK, Holds
<1>2. age \in Nat /\ age <= now /\ now - age = accessed[n][k]
  BY <1>1
<1>3. <<n, c>> \in Seq(Node) /\ <<n, c>> # <<>>
  OBVIOUS
<1>4. m = [type |-> "StoreReq", key |-> k, value |-> v, age |-> age, dest |-> dest,
           route |-> <<n, c>>]
  BY DEF Republish, Age
<1> HIDE DEF age
<1>5. m \in Message
  BY <1>1, <1>2, <1>3, <1>4, StoreReqs
<1>6. dest \in Key => dest = k /\ GetsCloser(k, <<n, c>>)
  BY FirstHops, DHTAssumption
<1>7. dest \in Node => now - touched[k] <= KeyValueTimeout
  BY <1>1, DHTAssumption DEF IInv, SoftStateEnds
<1>8. /\ m.type = "StoreReq" /\ m.key = k /\ m.age = age /\ m.dest = dest
      /\ m.route = <<n, c>>
  BY <1>4
<1>9. RouteOK(m)
  <2>1. Receiver(<<n, c>>) = c
    BY DEF Receiver
  <2>2. dest \in Node => c = dest
    BY DHTAssumption
  <2> QED
    BY <1>3, <1>6, <1>8, <2>1, <2>2 DEF RouteOK, RoutedByKey
<1>10. AgeOK(m)
  BY <1>1, <1>2, <1>7, <1>8 DEF AgeOK
<1>11. MsgOK(m)
  BY <1>5, <1>9, <1>10 DEF MsgOK
<1> QED
  BY <1>11, OldMessage, TouchedUnchanged DEF IInv

------------------------------------------------------------------------------
LEMMA InitIInv == Init => IInv
<1> SUFFICES ASSUME Init PROVE IInv
  OBVIOUS
<1>1. TablesOK
  BY DHTAssumption DEF Init, TablesOK
<1>2. PastOK /\ PendingOK /\ SoftStateEnds /\ \A m \in net : MsgOK(m)
  BY DEF Init, PastOK, PendingOK, SoftStateEnds, Holds
<1> QED
  BY <1>1, <1>2 DEF IInv

LEMMA ClientStoreIInv ==
  ASSUME IInv, NEW n \in Client, NEW d \in Node, NEW k \in Key, NEW v \in Value,
         ClientStore(n, d, k, v)
  PROVE  IInv'
<1> DEFINE m == [type |-> "StoreReq", key |-> k, value |-> v, age |-> NoAge, dest |-> d,
                 route |-> <<n, d>>]
<1>0. /\ net' = net \cup {m} /\ calm' = FALSE /\ stores' = stores - 1 /\ stores > 0
      /\ UNCHANGED <<now, contacts, values, accessed, pending, collected, touched, fetches, faults>>
  BY DEF ClientStore
<1>1. n \in Node /\ <<n, d>> \in Seq(Node) /\ <<n, d>> # <<>> /\ d \notin Key /\ d \in Target
  BY DHTAssumption DEF Target
<1>2. m \in Message
  BY <1>1, StoreReqs
<1>3. m.type = "StoreReq" /\ m.age = NoAge /\ m.dest = d /\ m.route = <<n, d>>
  OBVIOUS
<1> HIDE DEF m
<1>4. MsgOK(m)
  <2>1. Receiver(<<n, d>>) = d
    BY DEF Receiver
  <2> QED
    BY <1>1, <1>2, <1>3, <2>1 DEF MsgOK, RouteOK, AgeOK, RoutedByKey
<1>5. \A x \in net' : MsgOK(x)'
  <2>1. \A x \in {m} : MsgOK(x)'
    BY <1>0, <1>4, OldMessage, TouchedUnchanged DEF IInv
  <2> QED
    BY <1>0, <2>1, OldMessages, TouchedUnchanged
<1>6. TablesOK' /\ PendingOK'
  BY <1>0 DEF IInv, TablesOK, PendingOK
<1> QED
  BY <1>0, <1>5, <1>6, TablesUnchanged DEF IInv

LEMMA ClientFetchIInv ==
  ASSUME IInv, NEW n \in Client, NEW k \in Key, ClientFetch(n, k)
  PROVE  IInv'
<1> DEFINE m(route) == [type |-> "FetchReq", key |-> k, route |-> route]
<1>0. /\ fetches > 0 /\ fetches' = fetches - 1
      /\ SendByKey(m(<<n>>), RoutesByKey(n, k))
      /\ UNCHANGED <<now, contacts, values, accessed, pending, collected, touched, calm, stores,
                     faults>>
  BY DEF ClientFetch
<1>1. n \in Node /\ k \in Target
  BY DHTAssumption DEF Target
<1>2. ASSUME NEW c \in NextHops(n, k)
      PROVE  MsgOK(m(<<n, c>>))
  <2>1. c \in Node /\ Distance[c][k] < Distance[n][k]
    BY <1>1, NextHopsAreCloser DEF IInv
  <2>2. GetsCloser(k, <<n, c>>) /\ <<n, c>> \in Seq(Node) /\ <<n, c>> # <<>>
    BY <1>1, <2>1, FirstHops
  <2>3. m(<<n, c>>) \in Message
    BY <2>2, FetchReqs
  <2>4. m(<<n, c>>).type = "FetchReq" /\ m(<<n, c>>).key = k /\ m(<<n, c>>).route = <<n, c>>
    OBVIOUS
  <2> HIDE DEF m
  <2> QED
    BY <2>2, <2>3, <2>4 DEF MsgOK, RouteOK, AgeOK
<1>3. net' = net \/ \E c \in NextHops(n, k) : net' = net \cup {m(<<n, c>>)}
  BY <1>0 DEF SendByKey, RoutesByKey
<1> HIDE DEF m
<1>4. \A x \in net' : MsgOK(x)'
  <2>1. CASE net' = net
    BY <1>0, <2>1, OldMessages, TouchedUnchanged
  <2>2. ASSUME NEW c \in NextHops(n, k), net' = net \cup {m(<<n, c>>)}
        PROVE  \A x \in net' : MsgOK(x)'
    <3>1. \A x \in {m(<<n, c>>)} : MsgOK(x)'
      BY <1>0, <1>2, OldMessage, TouchedUnchanged DEF IInv
    <3> QED
      BY <1>0, <2>2, <3>1, OldMessages, TouchedUnchanged
  <2> QED
    BY <1>3, <2>1, <2>2
<1>5. TablesOK' /\ PendingOK'
  BY <1>0 DEF IInv, TablesOK, PendingOK
<1> QED
  BY <1>0, <1>4, <1>5, TablesUnchanged DEF IInv

(* Routing a request on: the next overlay hop is closer.                   *)
LEMMA ForwardOK ==
  ASSUME IInv, NEW m \in net, m.type \in Routed, NEW c \in Node, now' = now, touched' = touched,
         m.type = "StoreReq" => m.dest \notin Node,
         RoutedByKey(m) => Distance[c][m.key] < Distance[Receiver(m.route)][m.key],
         net' = (net \ {m}) \cup {[m EXCEPT !.route = Append(@, c)]}
  PROVE  \A x \in net' : MsgOK(x)'
<1> DEFINE route == Append(m.route, c)
           new == [m EXCEPT !.route = route]
<1>1. MsgOK(m) /\ m \in Message
  BY DEF IInv, MsgOK
<1>2. m.key \in Key /\ m.route \in Seq(Node) /\ m.route # <<>>
  BY <1>1, MessageFields DEF MsgOK, RouteOK
<1>3. route \in Seq(Node) /\ route # <<>>
  BY <1>2, AppendProperties
<1>4. RoutedByKey(m) => GetsCloser(m.key, route)
  BY <1>1, <1>2, HopGetsCloser DEF MsgOK, RouteOK
<1>5. net' = (net \ {m}) \cup {new}
  OBVIOUS
<1> HIDE DEF route
<1>6. /\ new \in Message /\ new.type = m.type /\ new.key = m.key /\ new.route = route
      /\ m.type = "StoreReq" => new.age = m.age /\ new.dest = m.dest
  BY <1>1, <1>3, NewRoute
<1> HIDE DEF new
<1>7. RouteOK(new)
  BY <1>1, <1>3, <1>4, <1>6 DEF MsgOK, RouteOK, RoutedByKey
<1>8. AgeOK(new)
  BY <1>1, <1>6 DEF MsgOK, AgeOK
<1>9. \A x \in {new} : MsgOK(x)'
  <2>1. MsgOK(new)
    BY <1>6, <1>7, <1>8 DEF MsgOK
  <2> QED
    BY <2>1, OldMessage, TouchedUnchanged DEF IInv
<1> QED
  BY <1>5, <1>9, OldMessages, TouchedUnchanged

(* A response, or anything else that is no request, is harmless.           *)
LEMMA ResponseOK ==
  ASSUME NEW m \in Message, m.type \notin Routed
  PROVE  MsgOK(m)'
  BY DEF MsgOK, RouteOK, AgeOK, Routed

(* An entry of n is accessed at a time that is not later than the last     *)
(* access of a client.                                                     *)
LEMMA AccessOK ==
  ASSUME IInv, NEW n \in Node, NEW k \in Key, NEW time \in Nat, now' = now,
         touched' \in [Key -> Nat], \A j \in Key : touched'[j] >= touched[j] /\ touched'[j] <= now,
         time <= touched'[k],
         accessed' = [accessed EXCEPT ![n][k] = Accessed(n, k, time)],
         values' \in [Node -> [Key -> SUBSET Value]],
         \A p \in Node, j \in Key : <<p, j>> # <<n, k>> => values'[p][j] = values[p][j]
  PROVE  accessed' \in [Node -> [Key -> Nat]] /\ PastOK'
<1>1. Accessed(n, k, time) \in Nat /\ Accessed(n, k, time) <= touched'[k]
  <2>1. accessed[n][k] \in Nat /\ touched[k] \in Nat /\ touched'[k] \in Nat /\ touched'[k] >= touched[k]
    BY DEF IInv, TablesOK
  <2>2. CASE Holds(n, k) /\ accessed[n][k] >= time
    BY <2>1, <2>2 DEF IInv, PastOK, Accessed
  <2>3. CASE ~(Holds(n, k) /\ accessed[n][k] >= time)
    BY <2>3 DEF Accessed
  <2> QED
    BY <2>2, <2>3
<1> DEFINE new == Accessed(n, k, time)
<1> HIDE DEF new
<1>2. accessed' = [accessed EXCEPT ![n][k] = new] /\ new \in Nat /\ new <= touched'[k]
  BY <1>1 DEF new
<1>3. accessed' \in [Node -> [Key -> Nat]]
  BY <1>2 DEF IInv, TablesOK
<1>4. \A p \in Node, j \in Key : accessed'[p][j] = IF p = n /\ j = k THEN new ELSE accessed[p][j]
  BY <1>2 DEF IInv, TablesOK
<1>5. ASSUME NEW p \in Node, NEW j \in Key, Holds(p, j)'
      PROVE  accessed'[p][j] <= touched'[j]
  <2>1. CASE p = n /\ j = k
    BY <1>2, <1>4, <2>1
  <2>2. CASE ~(p = n /\ j = k)
    <3>1. <<p, j>> # <<n, k>>
      BY <2>2
    <3>2. values'[p][j] = values[p][j]
      BY <3>1
    <3>3. Holds(p, j) /\ accessed'[p][j] = accessed[p][j]
      BY <1>4, <1>5, <2>2, <3>2 DEF Holds
    <3>4. accessed[p][j] \in Nat /\ touched[j] \in Nat /\ touched'[j] \in Nat /\ touched'[j] >= touched[j]
      BY DEF IInv, TablesOK
    <3> QED
      BY <3>3, <3>4 DEF IInv, PastOK
  <2> QED
    BY <2>1, <2>2
<1> QED
  BY <1>3, <1>5 DEF PastOK

LEMMA HandleStoreReqIInv ==
  ASSUME IInv, NEW m \in net, HandleStoreReq(m)
  PROVE  IInv'
<1> DEFINE n == Receiver(m.route)
           rsp(type) == [type |-> type, key |-> m.key, from |-> n, to |-> Head(m.route)]
<1>0. /\ m.type = "StoreReq"
      /\ UNCHANGED <<now, contacts, pending, collected, calm, stores, fetches, faults>>
  BY DEF HandleStoreReq
<1>1. m \in Message /\ MsgOK(m) /\ m.type \in Routed
  BY <1>0 DEF IInv, MsgOK, Routed
<1>2. /\ m.key \in Key /\ m.value \in Value /\ m.age \in Nat \cup {NoAge} /\ m.dest \in Target
      /\ m.route \in Seq(Node) /\ m.route # <<>>
  BY <1>0, <1>1, MessageFields DEF MsgOK, RouteOK
<1>3. n \in Node /\ Head(m.route) \in Node
  BY <1>2, RouteEnds
<1>4. /\ rsp("StoreRsp") \in Message /\ rsp("StoreRsp").type \notin Routed
      /\ rsp("DeadEnd") \in Message /\ rsp("DeadEnd").type \notin Routed
  BY <1>2, <1>3, DHTAssumption, Responses DEF Routed
<1>5. /\ now \in Nat /\ touched[m.key] \in Nat /\ touched[m.key] <= now
      /\ touched \in [Key -> Nat] /\ \A j \in Key : touched[j] \in Nat /\ touched[j] <= now
  BY <1>2 DEF IInv, TablesOK, PastOK
<1>6. PendingOK'
  BY <1>0 DEF IInv, PendingOK
<1>7. CASE /\ m.dest = n /\ m.age # NoAge
           /\ StoreLocally(n, m.key, m.value, now - m.age)
           /\ net' = net \ {m} /\ UNCHANGED touched
  <2>1. /\ m.age \in Nat /\ now - m.age \in Nat /\ now - m.age <= touched[m.key]
        /\ now - touched[m.key] <= KeyValueTimeout
    BY <1>0, <1>1, <1>2, <1>3, <1>5, <1>7 DEF MsgOK, AgeOK
  <2>2. /\ values' = [values EXCEPT ![n][m.key] = @ \cup {m.value}]
        /\ accessed' = [accessed EXCEPT ![n][m.key] = Accessed(n, m.key, now - m.age)]
    BY <1>7 DEF StoreLocally
  <2> HIDE DEF n
  <2>3. /\ values' \in [Node -> [Key -> SUBSET Value]]
        /\ \A p \in Node, j \in Key : <<p, j>> # <<n, m.key>> => values'[p][j] = values[p][j]
    BY <1>2, <1>3, <2>2 DEF IInv, TablesOK
  <2> DEFINE time == now - m.age
  <2> HIDE DEF time
  <2>4. accessed' \in [Node -> [Key -> Nat]] /\ PastOK'
    <3>1. now' = now /\ time \in Nat /\ time <= touched'[m.key]
      BY <1>0, <1>7, <2>1 DEF time
    <3>2. /\ touched' \in [Key -> Nat]
          /\ \A j \in Key : touched'[j] >= touched[j] /\ touched'[j] <= now
      BY <1>5, <1>7
    <3>3. accessed' = [accessed EXCEPT ![n][m.key] = Accessed(n, m.key, time)]
      BY <2>2 DEF time
    <3> QED
      BY <1>2, <1>3, <2>3, <3>1, <3>2, <3>3, AccessOK
  <2>5. SoftStateEnds'
    <3> SUFFICES ASSUME NEW p \in collected, NEW k \in Key, Holds(p, k)'
                 PROVE  now - touched[k] <= KeyValueTimeout
      BY <1>0, <1>7 DEF SoftStateEnds
    <3>1. CASE p = n /\ k = m.key
      BY <2>1, <3>1
    <3>2. CASE ~(p = n /\ k = m.key)
      <4>1. p \in Node /\ <<p, k>> # <<n, m.key>>
        BY <3>2 DEF IInv, TablesOK
      <4>2. Holds(p, k)
        BY <2>3, <4>1 DEF Holds
      <4> QED
        BY <4>2 DEF IInv, SoftStateEnds
    <3> QED
      BY <3>1, <3>2
  <2>6. TablesOK'
    BY <1>0, <1>7, <2>3, <2>4 DEF IInv, TablesOK
  <2>7. \A x \in net' : MsgOK(x)'
    BY <1>0, <1>7, OldMessages, TouchedUnchanged
  <2> QED
    BY <1>6, <2>4, <2>5, <2>6, <2>7 DEF IInv
<1>8. CASE /\ m.dest = n /\ m.age = NoAge
           /\ StoreLocally(n, m.key, m.value, now)
           /\ net' = (net \ {m}) \cup {rsp("StoreRsp")}
           /\ touched' = [touched EXCEPT ![m.key] = now]
  <2>1. /\ values' = [values EXCEPT ![n][m.key] = @ \cup {m.value}]
        /\ accessed' = [accessed EXCEPT ![n][m.key] = Accessed(n, m.key, now)]
    BY <1>8 DEF StoreLocally
  <2>2. /\ touched' \in [Key -> Nat] /\ touched'[m.key] = now
        /\ \A j \in Key : touched'[j] >= touched[j] /\ touched'[j] <= now
        /\ \A j \in Key : j # m.key => touched'[j] = touched[j]
    BY <1>2, <1>5, <1>8
  <2>3. \A x \in net' : MsgOK(x)'
    BY <1>0, <1>4, <1>8, <2>2, OldMessages, ResponseOK
  <2> HIDE DEF n, rsp
  <2>4. /\ values' \in [Node -> [Key -> SUBSET Value]]
        /\ \A p \in Node, j \in Key : <<p, j>> # <<n, m.key>> => values'[p][j] = values[p][j]
    BY <1>2, <1>3, <2>1 DEF IInv, TablesOK
  <2>5. accessed' \in [Node -> [Key -> Nat]] /\ PastOK'
    <3> DEFINE time == now
    <3> HIDE DEF time
    <3>1. now' = now /\ time \in Nat /\ time <= touched'[m.key]
      BY <1>0, <1>5, <2>2 DEF time
    <3>3. accessed' = [accessed EXCEPT ![n][m.key] = Accessed(n, m.key, time)]
      BY <2>1 DEF time
    <3>2. /\ touched' \in [Key -> Nat]
          /\ \A j \in Key : touched'[j] >= touched[j] /\ touched'[j] <= now
      BY <2>2
    <3> QED
      BY <1>2, <1>3, <2>4, <3>1, <3>2, <3>3, AccessOK
  <2>6. SoftStateEnds'
    <3> SUFFICES ASSUME NEW p \in collected, NEW k \in Key, Holds(p, k)'
                 PROVE  now - touched'[k] <= KeyValueTimeout
      BY <1>0 DEF SoftStateEnds
    <3>1. CASE k = m.key
      BY <1>5, <2>2, <3>1, DHTAssumption
    <3>2. CASE k # m.key
      <4>1. p \in Node /\ <<p, k>> # <<n, m.key>>
        BY <3>2 DEF IInv, TablesOK
      <4>2. Holds(p, k) /\ touched'[k] = touched[k]
        BY <2>2, <2>4, <3>2, <4>1 DEF Holds
      <4> QED
        BY <4>2 DEF IInv, SoftStateEnds
    <3> QED
      BY <3>1, <3>2
  <2>7. TablesOK'
    BY <1>0, <2>2, <2>4, <2>5 DEF IInv, TablesOK
  <2> QED
    BY <1>6, <2>3, <2>5, <2>6, <2>7 DEF IInv
<1>9. ASSUME UNCHANGED <<values, accessed, touched>>, \A x \in net' : MsgOK(x)'
      PROVE  IInv'
  <2>1. TablesOK'
    BY <1>0, <1>9 DEF IInv, TablesOK
  <2> QED
    BY <1>0, <1>6, <1>9, <2>1, TablesUnchanged DEF IInv
<1>10. CASE m.dest # n /\ Forward(m, m.dest) /\ UNCHANGED <<values, accessed, touched>>
  <2>1. PICK c \in NextHops(n, m.dest) : net' = (net \ {m}) \cup {[m EXCEPT !.route = Append(@, c)]}
    BY <1>10 DEF Forward
  <2>2. c \in Node /\ Distance[c][m.dest] < Distance[n][m.dest]
    BY <1>2, <1>3, NextHopsAreCloser DEF IInv
  <2>3. RoutedByKey(m) => m.dest = m.key
    BY <1>0, <1>1 DEF RoutedByKey, MsgOK, RouteOK
  <2>4. m.dest \notin Node
    BY <1>0, <1>1, <1>10 DEF MsgOK, RouteOK
  <2>5. \A x \in net' : MsgOK(x)'
    BY <1>0, <1>1, <1>10, <2>1, <2>2, <2>3, <2>4, ForwardOK
  <2> QED
    BY <1>9, <1>10, <2>5
<1>11. CASE /\ m.dest # n /\ Closest(n, m.dest)
            /\ net' = (net \ {m}) \cup {rsp("DeadEnd")}
            /\ UNCHANGED <<values, accessed, touched>>
  <2>1. \A x \in net' : MsgOK(x)'
    BY <1>0, <1>4, <1>11, OldMessages, TouchedUnchanged, ResponseOK
  <2> QED
    BY <1>9, <1>11, <2>1
<1> QED
  BY <1>7, <1>8, <1>10, <1>11 DEF HandleStoreReq

LEMMA HandleFetchReqIInv ==
  ASSUME IInv, NEW m \in net, HandleFetchReq(m)
  PROVE  IInv'
<1> DEFINE n == Receiver(m.route)
           rsp == [type |-> "FetchRsp", key |-> m.key, values |-> values[n][m.key], from |-> n,
                   to |-> Head(m.route)]
<1>0. /\ m.type = "FetchReq"
      /\ UNCHANGED <<now, contacts, values, pending, collected, calm, stores, fetches, faults>>
  BY DEF HandleFetchReq
<1>1. m \in Message /\ MsgOK(m) /\ m.type \in Routed
  BY <1>0 DEF IInv, MsgOK, Routed
<1>2. m.key \in Key /\ m.key \in Target /\ m.route \in Seq(Node) /\ m.route # <<>>
  BY <1>0, <1>1, MessageFields DEF MsgOK, RouteOK, Target
<1>3. n \in Node /\ Head(m.route) \in Node
  BY <1>2, RouteEnds
<1>4. rsp \in Message /\ rsp.type \notin Routed
  <2>1. values[n][m.key] \in SUBSET Value
    BY <1>2, <1>3 DEF IInv, TablesOK
  <2>2. rsp \in Message
    BY <1>2, <1>3, <2>1 DEF Message
  <2>3. rsp.type = "FetchRsp"
    OBVIOUS
  <2> HIDE DEF rsp
  <2> QED
    BY <2>2, <2>3 DEF Routed
<1>5. now \in Nat /\ \A j \in Key : touched[j] \in Nat /\ touched[j] <= now
  BY DEF IInv, TablesOK, PastOK
<1>6. PendingOK'
  BY <1>0 DEF IInv, PendingOK
<1>7. CASE /\ Holds(n, m.key)
           /\ accessed' = [accessed EXCEPT ![n][m.key] = Accessed(n, m.key, now)]
           /\ net' = (net \ {m}) \cup {rsp}
           /\ touched' = [touched EXCEPT ![m.key] = now]
  <2>1. /\ touched' \in [Key -> Nat] /\ touched'[m.key] = now
        /\ \A j \in Key : touched'[j] >= touched[j] /\ touched'[j] <= now
        /\ \A j \in Key : j # m.key => touched'[j] = touched[j]
    BY <1>2, <1>5, <1>7 DEF IInv, TablesOK
  <2>2. \A x \in net' : MsgOK(x)'
    BY <1>0, <1>4, <1>7, <2>1, OldMessages, ResponseOK
  <2> HIDE DEF n, rsp
  <2>3. accessed' \in [Node -> [Key -> Nat]] /\ PastOK'
    <3> DEFINE time == now
    <3> HIDE DEF time
    <3>1. now' = now /\ time \in Nat /\ time <= touched'[m.key]
      BY <1>0, <1>5, <2>1 DEF time
    <3>2. accessed' = [accessed EXCEPT ![n][m.key] = Accessed(n, m.key, time)]
      BY <1>7 DEF time
    <3>3. values' = values /\ values' \in [Node -> [Key -> SUBSET Value]]
      BY <1>0 DEF IInv, TablesOK
    <3> QED
      BY <1>2, <1>3, <2>1, <3>1, <3>2, <3>3, AccessOK
  <2>4. SoftStateEnds'
    <3> SUFFICES ASSUME NEW p \in collected, NEW k \in Key, Holds(p, k)
                 PROVE  now - touched'[k] <= KeyValueTimeout
      BY <1>0 DEF SoftStateEnds, Holds
    <3>1. CASE k = m.key
      BY <1>5, <2>1, <3>1, DHTAssumption
    <3>2. CASE k # m.key
      BY <2>1, <3>2 DEF IInv, SoftStateEnds
    <3> QED
      BY <3>1, <3>2
  <2>5. TablesOK'
    BY <1>0, <2>1, <2>3 DEF IInv, TablesOK
  <2> QED
    BY <1>6, <2>2, <2>3, <2>4, <2>5 DEF IInv
<1>8. ASSUME UNCHANGED <<accessed, touched>>, \A x \in net' : MsgOK(x)'
      PROVE  IInv'
  <2>1. TablesOK'
    BY <1>0, <1>8 DEF IInv, TablesOK
  <2> QED
    BY <1>0, <1>6, <1>8, <2>1, TablesUnchanged DEF IInv
<1>9. CASE Forward(m, m.key) /\ UNCHANGED <<accessed, touched>>
  <2>1. PICK c \in NextHops(n, m.key) : net' = (net \ {m}) \cup {[m EXCEPT !.route = Append(@, c)]}
    BY <1>9 DEF Forward
  <2>2. c \in Node /\ Distance[c][m.key] < Distance[n][m.key]
    BY <1>2, <1>3, NextHopsAreCloser DEF IInv
  <2>3. \A x \in net' : MsgOK(x)'
    BY <1>0, <1>1, <1>9, <2>1, <2>2, ForwardOK
  <2> QED
    BY <1>8, <1>9, <2>3
<1>10. CASE net' = (net \ {m}) \cup {rsp} /\ UNCHANGED <<accessed, touched>>
  <2>1. \A x \in net' : MsgOK(x)'
    BY <1>0, <1>4, <1>10, OldMessages, TouchedUnchanged, ResponseOK
  <2> QED
    BY <1>8, <1>10, <2>1
<1> QED
  BY <1>7, <1>9, <1>10 DEF HandleFetchReq

LEMMA HandleFindNodeReqIInv ==
  ASSUME IInv, NEW m \in net, HandleFindNodeReq(m)
  PROVE  IInv'
<1> DEFINE n == Receiver(m.route)
           rsp == [type |-> "FindNodeRsp", key |-> m.key, nonce |-> m.nonce, from |-> n,
                   to |-> Head(m.route), contacts |-> contacts[n]]
<1>0. /\ m.type = "FindNodeReq"
      /\ UNCHANGED <<now, contacts, values, accessed, pending, collected, touched, calm, stores,
                     fetches, faults>>
  BY DEF HandleFindNodeReq
<1>1. m \in Message /\ MsgOK(m) /\ m.type \in Routed
  BY <1>0 DEF IInv, MsgOK, Routed
<1>2. m.key \in Key /\ m.nonce \in Nat /\ m.route \in Seq(Node) /\ m.route # <<>>
  BY <1>0, <1>1, MessageFields DEF MsgOK, RouteOK
<1>3. n \in Node /\ Head(m.route) \in Node /\ contacts[n] \in SUBSET Node
  BY <1>2, RouteEnds DEF IInv, TablesOK
<1>4. rsp \in Message /\ rsp.type \notin Routed
  <2>1. rsp \in Message
    BY <1>2, <1>3 DEF Message
  <2>2. rsp.type = "FindNodeRsp"
    OBVIOUS
  <2> HIDE DEF rsp
  <2> QED
    BY <2>1, <2>2 DEF Routed
<1>5. TablesOK' /\ PendingOK'
  BY <1>0 DEF IInv, TablesOK, PendingOK
<1>6. \A x \in net' : MsgOK(x)'
  <2>1. ASSUME NEW c \in contacts[n], Distance[c][m.key] < Distance[n][m.key],
               net' = (net \ {m}) \cup {[m EXCEPT !.route = Append(@, c)]}
        PROVE  \A x \in net' : MsgOK(x)'
    BY <1>0, <1>1, <1>3, <2>1, ForwardOK
  <2>2. CASE net' = (net \ {m}) \cup {rsp}
    BY <1>0, <1>4, <2>2, OldMessages, TouchedUnchanged, ResponseOK
  <2> QED
    BY <2>1, <2>2 DEF HandleFindNodeReq
<1> QED
  BY <1>0, <1>5, <1>6, TablesUnchanged DEF IInv

LEMMA HandleFindNodeRspIInv ==
  ASSUME IInv, NEW m \in net, HandleFindNodeRsp(m)
  PROVE  IInv'
<1> DEFINE n == m.to
           expected == <<m.key, m.nonce>> \in pending[n]
           sent == {Republish(n, m.key, v, d, <<n, d>>) :
                      v \in IF expected THEN values[n][m.key] ELSE {}, d \in Replicas(m)}
<1>0. /\ m.type = "FindNodeRsp"
      /\ pending' = [pending EXCEPT ![n] = @ \ {<<m.key, m.nonce>>}]
      /\ net' = (net \ {m}) \cup sent
      /\ UNCHANGED <<now, contacts, values, accessed, collected, touched, calm, stores, fetches,
                     faults>>
  BY DEF HandleFindNodeRsp
<1>1. m \in Message
  BY DEF IInv, MsgOK
<1>2. m.key \in Key /\ n \in Node /\ Replicas(m) \subseteq Node
  BY <1>0, <1>1, MessageFields DEF Replicas
<1>3. expected => n \in collected
  BY <1>2 DEF IInv, PendingOK
<1>4. ASSUME NEW x \in sent
      PROVE  MsgOK(x)'
  <2>1. PICK v \in values[n][m.key], d \in Replicas(m) :
          expected /\ x = Republish(n, m.key, v, d, <<n, d>>)
    BY <1>4
  <2>2. d \in Node /\ d \in Target /\ n \in collected
    BY <1>2, <1>3, <2>1 DEF Target
  <2> QED
    BY <1>0, <1>2, <2>1, <2>2, RepublishOK
<1> HIDE DEF sent
<1>5. \A x \in net' : MsgOK(x)'
  BY <1>0, <1>4, OldMessages, TouchedUnchanged
<1>6. TablesOK'
  BY <1>0, <1>2 DEF IInv, TablesOK
<1>7. PendingOK'
  BY <1>0, <1>2 DEF IInv, TablesOK, PendingOK
<1> QED
  BY <1>0, <1>5, <1>6, <1>7, TablesUnchanged DEF IInv

(* Steps that only take messages away or change a routing table.           *)
LEMMA QuietIInv ==
  ASSUME IInv, UNCHANGED <<now, values, accessed, pending, collected, touched>>,
         net' \subseteq net, contacts' \in [Node -> SUBSET Node],
         stores' \in Nat, fetches' \in Nat, faults' \in Nat
  PROVE  IInv'
<1>1. \A x \in net' : MsgOK(x)'
  BY OldMessages, TouchedUnchanged
<1>2. TablesOK' /\ PendingOK'
  BY DEF IInv, TablesOK, PendingOK
<1> QED
  BY <1>1, <1>2, TablesUnchanged DEF IInv

LEMMA LossIInv ==
  ASSUME IInv,
         \/ \E m \in net : HandleClientRsp(m) \/ Lose(m)
         \/ \E n, c \in Node : ContactLost(n, c)
  PROVE  IInv'
<1>1. ASSUME NEW m \in net, HandleClientRsp(m) \/ Lose(m)
      PROVE  IInv'
  BY <1>1, QuietIInv DEF HandleClientRsp, Lose, IInv, TablesOK
<1>2. ASSUME NEW n \in Node, NEW c \in Node, ContactLost(n, c)
      PROVE  IInv'
  BY <1>2, QuietIInv DEF ContactLost, IInv, TablesOK
<1> QED
  BY <1>1, <1>2

LEMMA GarbageCollectionIInv ==
  ASSUME IInv, NEW n \in Node, GarbageCollection(n)
  PROVE  IInv'
<1> DEFINE expired == {k \in Key : Holds(n, k) /\ Expired(n, k)}
           kept == {k \in Key : Holds(n, k) /\ ~Expired(n, k)}
           lookup(k, route) == [type |-> "FindNodeReq", key |-> k, nonce |-> now, route |-> route]
           sent(hops) == {lookup(k, <<n, hops[k]>>) : k \in {j \in kept : ~Closest(n, j)}}
<1>0. /\ collected' = collected \cup {n}
      /\ values' = [values EXCEPT ![n] = [k \in Key |-> IF k \in expired THEN {} ELSE @[k]]]
      /\ pending' = [pending EXCEPT ![n] = @ \cup (kept \X {now})]
      /\ UNCHANGED <<now, contacts, accessed, touched, calm, stores, fetches, faults>>
  BY DEF GarbageCollection
<1>1. PICK hops \in [kept -> Node] :
        /\ \A k \in kept : hops[k] \in NextHops(n, k) \/ Closest(n, k)
        /\ net' = net \cup sent(hops)
  BY DEF GarbageCollection
<1>2. \A x \in net' : MsgOK(x)'
  <2>1. ASSUME NEW x \in sent(hops)
        PROVE  MsgOK(x)'
    <3>1. PICK k \in kept : ~Closest(n, k) /\ x = lookup(k, <<n, hops[k]>>)
      BY <2>1
    <3> DEFINE c == hops[k]
    <3>2. k \in Key /\ k \in Target /\ c \in NextHops(n, k) /\ now \in Nat
      BY <1>1, <3>1 DEF Target, IInv, TablesOK
    <3>3. c \in Node /\ Distance[c][k] < Distance[n][k]
      BY <3>2, NextHopsAreCloser DEF IInv
    <3> HIDE DEF c
    <3>4. GetsCloser(k, <<n, c>>) /\ <<n, c>> \in Seq(Node) /\ <<n, c>> # <<>>
      BY <3>2, <3>3, FirstHops
    <3>5. x \in Message
      BY <3>1, <3>2, <3>4, FindNodeReqs DEF c
    <3>6. x.type = "FindNodeReq" /\ x.key = k /\ x.route = <<n, c>>
      BY <3>1 DEF c
    <3> QED
      BY <3>4, <3>5, <3>6 DEF MsgOK, RouteOK, AgeOK
  <2> HIDE DEF sent
  <2> QED
    BY <1>0, <1>1, <2>1, OldMessages, TouchedUnchanged
<1>3. /\ values' \in [Node -> [Key -> SUBSET Value]]
      /\ \A p \in Node, k \in Key :
           values'[p][k] = IF p = n /\ k \in expired THEN {} ELSE values[p][k]
  <2> HIDE DEF expired
  <2> QED
    BY <1>0 DEF IInv, TablesOK
<1>4. kept \subseteq Key /\ now \in Nat
  BY DEF IInv, TablesOK
<1>5. pending' \in [Node -> SUBSET (Key \X Nat)] /\ \A p \in Node : p # n => pending'[p] = pending[p]
  <2> HIDE DEF kept
  <2> QED
    BY <1>0, <1>4 DEF IInv, TablesOK
<1>6. TablesOK'
  BY <1>0, <1>3, <1>5 DEF IInv, TablesOK
<1>7. PendingOK'
  BY <1>0, <1>5 DEF IInv, PendingOK
<1>8. \A p \in Node, k \in Key : Holds(p, k)' => Holds(p, k)
  BY <1>3 DEF Holds
<1>9. PastOK'
  BY <1>0, <1>8 DEF IInv, PastOK
<1>10. SoftStateEnds'
  <2> SUFFICES ASSUME NEW p \in collected', NEW k \in Key, Holds(p, k)'
               PROVE  now - touched[k] <= KeyValueTimeout
    BY <1>0 DEF SoftStateEnds
  <2>1. p \in Node /\ Holds(p, k)
    BY <1>0, <1>8 DEF IInv, TablesOK
  <2>2. CASE p = n
    <3>1. k \notin expired
      BY <1>3, <2>1, <2>2 DEF Holds
    <3>2. ~(now - accessed[n][k] > KeyValueTimeout)
      BY <2>1, <2>2, <3>1 DEF Expired
    <3>3. /\ accessed[n][k] \in Nat /\ touched[k] \in Nat /\ now \in Nat
          /\ accessed[n][k] <= touched[k]
      BY <2>1, <2>2 DEF IInv, TablesOK, PastOK
    <3> QED
      BY <3>2, <3>3, DHTAssumption
  <2>3. CASE p # n
    BY <1>0, <2>1, <2>3 DEF IInv, SoftStateEnds
  <2> QED
    BY <2>2, <2>3
<1> QED
  BY <1>2, <1>6, <1>7, <1>9, <1>10 DEF IInv

LEMMA HandleTimeoutIInv ==
  ASSUME IInv, NEW n \in Node, HandleTimeout(n)
  PROVE  IInv'
<1>0. /\ \E p \in pending[n] : pending' = [pending EXCEPT ![n] = @ \ {p}]
      /\ UNCHANGED <<now, contacts, values, accessed, collected, net, touched, stores, fetches,
                     faults>>
  BY DEF HandleTimeout
<1>1. \A x \in net' : MsgOK(x)'
  BY <1>0, OldMessages, TouchedUnchanged
<1>2. TablesOK'
  BY <1>0 DEF IInv, TablesOK
<1>3. PendingOK'
  BY <1>0 DEF IInv, TablesOK, PendingOK
<1> QED
  BY <1>0, <1>1, <1>2, <1>3, TablesUnchanged DEF IInv

LEMMA RestartIInv ==
  ASSUME IInv, NEW n \in Node, Restart(n)
  PROVE  IInv'
<1>0. /\ values' = [values EXCEPT ![n] = [k \in Key |-> {}]]
      /\ pending' = [pending EXCEPT ![n] = {}]
      /\ faults > 0 /\ faults' = faults - 1
      /\ UNCHANGED <<now, contacts, accessed, collected, net, touched, stores, fetches>>
  BY DEF Restart
<1>1. \A x \in net' : MsgOK(x)'
  BY <1>0, OldMessages, TouchedUnchanged
<1>2. TablesOK'
  BY <1>0 DEF IInv, TablesOK
<1>3. PendingOK'
  BY <1>0 DEF IInv, TablesOK, PendingOK
<1>4. \A p \in Node, k \in Key : Holds(p, k)' => Holds(p, k)
  BY <1>0 DEF Holds, IInv, TablesOK
<1>5. PastOK' /\ SoftStateEnds'
  BY <1>0, <1>4 DEF IInv, TablesOK, PastOK, SoftStateEnds
<1> QED
  BY <1>1, <1>2, <1>3, <1>5 DEF IInv

LEMMA ContactNewIInv ==
  ASSUME IInv, NEW n \in Node, NEW c \in Node, ContactNew(n, c)
  PROVE  IInv'
<1> DEFINE closer == {k \in Key : Holds(n, k) /\ Distance[c][k] <= Distance[n][k]}
           sent(hops) == UNION {{Republish(n, k, v, k, <<n, hops[k]>>) : v \in values[n][k]} :
                                k \in closer}
<1>0. /\ contacts' = [contacts EXCEPT ![n] = @ \cup {c}]
      /\ faults > 0 /\ faults' = faults - 1
      /\ UNCHANGED <<now, values, accessed, pending, collected, touched, stores, fetches>>
  BY DEF ContactNew
<1>1. PICK hops \in [closer -> Node] :
        /\ \A k \in closer : hops[k] \in NextHops(n, k)'
        /\ net' = net \cup sent(hops)
  BY DEF ContactNew
<1>2. TablesOK' /\ PendingOK'
  BY <1>0 DEF IInv, TablesOK, PendingOK
<1>3. \A x \in net' : MsgOK(x)'
  <2>1. ASSUME NEW x \in sent(hops)
        PROVE  MsgOK(x)'
    <3>0. PICK k \in closer : \E v \in values[n][k] : x = Republish(n, k, v, k, <<n, hops[k]>>)
      BY <2>1
    <3>1. PICK v \in values[n][k] : x = Republish(n, k, v, k, <<n, hops[k]>>)
      BY <3>0
    <3>2. k \in Key /\ k \in Target /\ hops[k] \in NextHops(n, k)'
      BY <1>1, <3>0 DEF Target
    <3>3. \A d \in NextHops(n, k)' : d \in Node /\ Distance[d][k] < Distance[n][k]
      BY <1>2, <3>2, DHTAssumption DEF NextHops, LongestPrefix, TablesOK
    <3> DEFINE h == hops[k]
    <3>4. h \in Node /\ Distance[h][k] < Distance[n][k] /\ x = Republish(n, k, v, k, <<n, h>>)
      BY <3>1, <3>2, <3>3
    <3> HIDE DEF h
    <3> QED
      BY <1>0, <3>2, <3>4, RepublishOK
  <2> HIDE DEF sent
  <2> QED
    BY <1>0, <1>1, <2>1, OldMessages, TouchedUnchanged
<1> QED
  BY <1>0, <1>2, <1>3, TablesUnchanged DEF IInv

LEMMA TickIInv ==
  ASSUME IInv, Tick
  PROVE  IInv'
<1>0. /\ net = {} /\ \A n \in Node : pending[n] = {}
      /\ now' = now + 1 /\ collected' = {}
      /\ UNCHANGED <<contacts, values, accessed, pending, net, touched, stores, fetches, faults>>
  BY DEF Tick
<1>1. TablesOK'
  BY <1>0 DEF IInv, TablesOK
<1>2. PendingOK' /\ SoftStateEnds' /\ \A x \in net' : MsgOK(x)'
  BY <1>0 DEF PendingOK, SoftStateEnds
<1>3. PastOK'
  BY <1>0 DEF IInv, TablesOK, PastOK, Holds
<1> QED
  BY <1>1, <1>2, <1>3 DEF IInv

LEMMA StepIInv == IInv /\ [Next]_vars => IInv'
<1> SUFFICES ASSUME IInv, [Next]_vars PROVE IInv'
  OBVIOUS
<1>1. CASE UNCHANGED vars
  BY <1>1, QuietIInv DEF vars, IInv, TablesOK
<1>2. CASE Next
  BY <1>2, ClientStoreIInv, ClientFetchIInv, HandleStoreReqIInv, HandleFetchReqIInv,
     HandleFindNodeReqIInv, HandleFindNodeRspIInv, LossIInv, GarbageCollectionIInv,
     HandleTimeoutIInv, RestartIInv, ContactNewIInv, TickIInv DEF Next
<1> QED
  BY <1>1, <1>2

CalmOK == calm \in BOOLEAN

LEMMA StepCalm == CalmOK /\ [Next]_vars => CalmOK'
<1> SUFFICES ASSUME calm \in BOOLEAN, [Next]_vars PROVE calm' \in BOOLEAN
  BY DEF CalmOK
<1>1. ASSUME NEW m, \/ HandleStoreReq(m) \/ HandleFetchReq(m) \/ HandleFindNodeReq(m)
                    \/ HandleFindNodeRsp(m) \/ HandleClientRsp(m)
      PROVE  calm' = calm
  BY <1>1 DEF HandleStoreReq, HandleFetchReq, HandleFindNodeReq, HandleFindNodeRsp, HandleClientRsp
<1>2. ASSUME NEW n, NEW k, ClientFetch(n, k)
      PROVE  calm' = calm
  BY <1>2 DEF ClientFetch
<1>3. ASSUME NEW n, GarbageCollection(n)
      PROVE  calm' = calm
  BY <1>3 DEF GarbageCollection
<1>4. ASSUME NEW n, HandleTimeout(n)
      PROVE  calm' = (calm /\ \A m \in net : m.type \notin {"FindNodeReq", "FindNodeRsp"})
  BY <1>4 DEF HandleTimeout
<1>5. ASSUME \/ \E n, d, k, v : ClientStore(n, d, k, v)
             \/ \E m : Lose(m)
             \/ \E n : Restart(n)
             \/ \E n, c : ContactNew(n, c) \/ ContactLost(n, c)
      PROVE  calm' = FALSE
  BY <1>5 DEF ClientStore, Lose, Restart, ContactNew, ContactLost
<1>6. ASSUME Tick
      PROVE  calm' = TRUE
  BY <1>6 DEF Tick
<1>7. CASE UNCHANGED vars
  BY <1>7 DEF vars
<1>8. CASE Next
  BY <1>1, <1>2, <1>3, <1>4, <1>5, <1>6, <1>8, Zenon DEF Next
<1> QED
  BY <1>7, <1>8

(* Every behaviour of the DHT's nodes keeps the inductive invariant.       *)
THEOREM DHTInvariant == Spec => []IInv
  BY InitIInv, StepIInv, PTL DEF Spec

------------------------------------------------------------------------------
(* The tables, routing tables and messages of all nodes keep their types.  *)
THEOREM TypeCorrect == Spec => []TypeOK
<1>1. Init => CalmOK
  BY DEF Init, CalmOK
<1>2. Spec => []CalmOK
  BY <1>1, StepCalm, PTL DEF Spec
<1>3. IInv /\ CalmOK => TypeOK
  BY DEF IInv, CalmOK, TablesOK, TypeOK, MsgOK
<1> QED
  BY <1>2, <1>3, DHTInvariant, PTL

(* Republishing never makes an entry younger, in any network.              *)
THEOREM RepublishingKeepsAge == Spec => []RepublishKeepsAge
<1>1. IInv => RepublishKeepsAge
  BY DEF IInv, PastOK, MsgOK, AgeOK, RepublishKeepsAge
<1> QED
  BY <1>1, DHTInvariant, PTL

(* No node holds a key for longer than key_value_timeout after its last    *)
(* access, however many other nodes republish it.                          *)
THEOREM SoftStateExpires == Spec => []SoftStateEnds
<1>1. IInv => SoftStateEnds
  BY DEF IInv
<1> QED
  BY <1>1, DHTInvariant, PTL

(* Key-based routing makes progress at every overlay hop, whatever the     *)
(* routing tables are and however they change.                             *)
THEOREM RoutingMakesProgress == Spec => []RouteGetsCloser
<1>1. IInv => RouteGetsCloser
  <2> SUFFICES ASSUME IInv, NEW m \in net, RoutedByKey(m)
               PROVE  GetsCloser(m.key, m.route)
    BY DEF RouteGetsCloser, GetsCloser
  <2>1. m.type \in Routed
    BY DEF RoutedByKey, Routed
  <2> QED
    BY <2>1 DEF IInv, MsgOK, RouteOK
<1> QED
  BY <1>1, DHTInvariant, PTL

------------------------------------------------------------------------------
(* Lookups end at the closest node *)

LEMMA Lowest ==
  ASSUME NEW T \in SUBSET Nat, T # {}
  PROVE  \E m \in T : \A n \in T : m <= n
<1> DEFINE R == OpToRel(<, Nat)
<1>1. IsWellFoundedOn(R, Nat)
  BY NatLessThanWellFounded
<1>2. \A i, j \in Nat : i < j => <<i, j>> \in R
  BY DEF OpToRel
<1> HIDE DEF R
<1>3. PICK i \in T : \A j \in T : ~(<<j, i>> \in R)
  BY <1>1, WFMin
<1>4. ASSUME NEW j \in T PROVE i <= j
  <2>1. i \in Nat /\ j \in Nat
    OBVIOUS
  <2>2. ~(j < i)
    BY <1>2, <1>3, <2>1
  <2> QED
    BY <2>1, <2>2
<1> QED
  BY <1>4

LEMMA Nearest ==
  ASSUME NEW C \in SUBSET Node, C # {}, NEW t \in Target
  PROVE  \E c \in C : \A d \in C : Distance[c][t] <= Distance[d][t]
<1> DEFINE T == {Distance[c][t] : c \in C}
<1>1. T \in SUBSET Nat /\ T # {}
  BY DHTAssumption
<1>2. PICK m \in T : \A n \in T : m <= n
  <2> HIDE DEF T
  <2> QED BY <1>1, Lowest
<1>3. PICK c \in C : m = Distance[c][t]
  OBVIOUS
<1> QED
  BY <1>2, <1>3

(* A node that knows all others and is not the closest has the closest of  *)
(* them among its contacts.                                                *)
LEMMA NearestContact ==
  ASSUME Complete, NEW n \in Node, NEW k \in Key, ~ClosestOfAll(n, k)
  PROVE  \E c \in contacts[n] : /\ c \in Node /\ Distance[c][k] < Distance[n][k]
                                /\ \A d \in contacts[n] : Distance[c][k] <= Distance[d][k]
<1>1. k \in Target /\ contacts[n] = Node \ {n}
  BY DEF Target, Complete
<1>2. \A d \in Node : Distance[d][k] \in Nat
  BY <1>1, DHTAssumption
<1>3. PICK d \in Node : Distance[d][k] < Distance[n][k]
  BY <1>2 DEF ClosestOfAll
<1>4. d \in contacts[n]
  BY <1>1, <1>2, <1>3
<1>5. PICK c \in contacts[n] : \A e \in contacts[n] : Distance[c][k] <= Distance[e][k]
  BY <1>1, <1>4, Nearest
<1>6. Distance[c][k] < Distance[n][k] /\ c \in Node
  BY <1>1, <1>2, <1>3, <1>4, <1>5
<1> QED
  BY <1>5, <1>6

(* next_hop finds it: the closest contact shares most of the target.       *)
LEMMA ClosestIsClosest ==
  ASSUME Complete, NEW n \in Node, NEW k \in Key, Closest(n, k)
  PROVE  ClosestOfAll(n, k)
<1> SUFFICES ASSUME ~ClosestOfAll(n, k) PROVE FALSE
  OBVIOUS
<1>1. k \in Target /\ contacts[n] = Node \ {n}
  BY DEF Target, Complete
<1>2. PICK c \in contacts[n] : /\ c \in Node /\ Distance[c][k] < Distance[n][k]
                               /\ \A d \in contacts[n] : Distance[c][k] <= Distance[d][k]
  BY NearestContact
<1>3. \A d \in Node : Distance[d][k] \in Nat /\ PrefixLen[d][k] \in Nat
  BY <1>1, DHTAssumption
<1>4. \A d, e \in Node : PrefixLen[d][k] > PrefixLen[e][k] => Distance[d][k] < Distance[e][k]
  BY <1>1, DHTAssumption
<1>5. c \in LongestPrefix(n, k)
  <2> SUFFICES ASSUME NEW d \in contacts[n] PROVE PrefixLen[d][k] <= PrefixLen[c][k]
    BY DEF LongestPrefix
  <2>1. d \in Node /\ ~(Distance[d][k] < Distance[c][k])
    BY <1>1, <1>2, <1>3
  <2>2. ~(PrefixLen[d][k] > PrefixLen[c][k])
    BY <1>2, <1>4, <2>1
  <2> QED
    BY <1>2, <1>3, <2>1, <2>2
<1>6. ~(PrefixLen[n][k] > PrefixLen[c][k])
  BY <1>2, <1>3, <1>4
<1>7. \A d \in LongestPrefix(n, k) : Distance[c][k] <= Distance[d][k]
  BY <1>2 DEF LongestPrefix
<1>8. c \in NextHops(n, k)
  BY <1>2, <1>3, <1>5, <1>6, <1>7 DEF NextHops
<1> QED
  BY <1>8 DEF Closest

(* A FindNodeReq is only answered by a node that has no closer contact:    *)
(* the node that asks is farther away than every overlay hop.              *)
LEMMA AskerIsNotNearest ==
  ASSUME IInv, NEW m \in net, m.type = "FindNodeReq"
  PROVE  /\ m.key \in Key /\ Receiver(m.route) \in Node /\ Head(m.route) \in Node
         /\ \/ Head(m.route) = Receiver(m.route)
            \/ Distance[Receiver(m.route)][m.key] < Distance[Head(m.route)][m.key]
<1>1. MsgOK(m) /\ m \in Message /\ m.type \in Routed
  BY DEF IInv, MsgOK, Routed
<1>2. /\ m.key \in Key /\ m.route \in Seq(Node) /\ m.route # <<>>
      /\ GetsCloser(m.key, m.route)
  BY <1>1, MessageFields DEF MsgOK, RouteOK, RoutedByKey
<1>3. Receiver(m.route) \in Node /\ Head(m.route) \in Node
  BY <1>2, RouteEnds
<1>4. Len(m.route) \in Nat /\ Len(m.route) > 0 /\ Head(m.route) = m.route[1]
  BY <1>2
<1>5. CASE Len(m.route) = 1
  BY <1>2, <1>3, <1>4, <1>5 DEF Receiver
<1>6. CASE Len(m.route) > 1
  <2>1. Distance[m.route[Len(m.route)]][m.key] < Distance[m.route[1]][m.key]
    BY <1>2, <1>4, <1>6 DEF GetsCloser
  <2> QED
    BY <1>2, <1>3, <1>4, <2>1 DEF Receiver
<1>7. Len(m.route) = 1 \/ Len(m.route) > 1
  <2> DEFINE L == Len(m.route)
  <2>1. L \in Nat /\ L > 0
    BY <1>4
  <2> HIDE DEF L
  <2>2. L = 1 \/ L > 1
    BY <2>1
  <2> QED
    BY <2>2 DEF L
<1> QED
  BY <1>5, <1>6, <1>7

(* A message that ends a lookup.                                           *)
Ends(m) == m.type \in {"FindNodeRsp", "DeadEnd"} \/ (m.type = "FetchRsp" /\ m.values = {})

LEMMA StoreReqEnds ==
  ASSUME IInv, Complete, NEW m \in net, HandleStoreReq(m), NEW x \in net' \ net, Ends(x)
  PROVE  ClosestOfAll(x.from, x.key)
<1> DEFINE n == Receiver(m.route)
           rsp(type) == [type |-> type, key |-> m.key, from |-> n, to |-> Head(m.route)]
<1>0. m.type = "StoreReq" /\ m.type \in Routed /\ MsgOK(m) /\ m \in Message
  BY DEF HandleStoreReq, IInv, MsgOK, Routed
<1>1. m.key \in Key /\ m.dest \in Target /\ m.route \in Seq(Node) /\ m.route # <<>>
  BY <1>0, MessageFields DEF MsgOK, RouteOK
<1>2. n \in Node
  BY <1>1, RouteEnds
<1>3. CASE net' = net \ {m}
  BY <1>3
<1>4. CASE net' = (net \ {m}) \cup {rsp("StoreRsp")}
  <2>1. x.type = "StoreRsp"
    BY <1>4
  <2> QED
    BY <2>1 DEF Ends
<1>5. CASE m.dest # n /\ Forward(m, m.dest)
  <2>1. PICK c : c \in NextHops(n, m.dest) /\ net' = (net \ {m}) \cup {[m EXCEPT !.route = Append(@, c)]}
    BY <1>5 DEF Forward
  <2>2. x = [m EXCEPT !.route = Append(@, c)]
    BY <2>1
  <2>3. x.type = "StoreReq"
    BY <1>0, <2>2 DEF Message
  <2> QED
    BY <2>3 DEF Ends
<1>6. CASE m.dest # n /\ Closest(n, m.dest) /\ net' = (net \ {m}) \cup {rsp("DeadEnd")}
  <2>1. x.from = n /\ x.key = m.key
    BY <1>6
  <2>2. m.dest = m.key
    BY <1>0, <1>1, <1>6 DEF MsgOK, RouteOK, Target
  <2> QED
    BY <1>1, <1>2, <1>6, <2>1, <2>2, ClosestIsClosest
<1> QED
  BY <1>3, <1>4, <1>5, <1>6 DEF HandleStoreReq

LEMMA FetchReqEnds ==
  ASSUME IInv, Complete, NEW m \in net, HandleFetchReq(m), NEW x \in net' \ net, Ends(x)
  PROVE  ClosestOfAll(x.from, x.key)
<1> DEFINE n == Receiver(m.route)
           rsp == [type |-> "FetchRsp", key |-> m.key, values |-> values[n][m.key], from |-> n,
                   to |-> Head(m.route)]
<1>0. m.type = "FetchReq" /\ m.type \in Routed /\ MsgOK(m) /\ m \in Message
  BY DEF HandleFetchReq, IInv, MsgOK, Routed
<1>1. m.key \in Key /\ m.route \in Seq(Node) /\ m.route # <<>>
  BY <1>0, MessageFields DEF MsgOK, RouteOK
<1>2. n \in Node
  BY <1>1, RouteEnds
<1>3. CASE Forward(m, m.key)
  <2>1. PICK c : c \in NextHops(n, m.key) /\ net' = (net \ {m}) \cup {[m EXCEPT !.route = Append(@, c)]}
    BY <1>3 DEF Forward
  <2>2. x = [m EXCEPT !.route = Append(@, c)]
    BY <2>1
  <2>3. x.type = "FetchReq"
    BY <1>0, <2>2 DEF Message
  <2> QED
    BY <2>3 DEF Ends
<1>4. CASE net' = (net \ {m}) \cup {rsp} /\ Holds(n, m.key)
  <2>1. x.type = "FetchRsp" /\ x.values = values[n][m.key]
    BY <1>4
  <2> QED
    BY <1>4, <2>1 DEF Ends, Holds
<1>5. CASE net' = (net \ {m}) \cup {rsp} /\ Closest(n, m.key)
  <2>1. x.from = n /\ x.key = m.key
    BY <1>5
  <2> QED
    BY <1>1, <1>2, <1>5, <2>1, ClosestIsClosest
<1> QED
  BY <1>3, <1>4, <1>5 DEF HandleFetchReq

LEMMA FindNodeReqEnds ==
  ASSUME IInv, Complete, NEW m \in net, HandleFindNodeReq(m), NEW x \in net' \ net, Ends(x)
  PROVE  ClosestOfAll(x.from, x.key)
<1> DEFINE n == Receiver(m.route)
           best == {c \in contacts[n] : /\ Distance[c][m.key] < Distance[n][m.key]
                                        /\ c # Head(m.route)
                                        /\ \A d \in contacts[n] : Distance[c][m.key] <= Distance[d][m.key]}
           rsp == [type |-> "FindNodeRsp", key |-> m.key, nonce |-> m.nonce,
                   from |-> n, to |-> Head(m.route), contacts |-> contacts[n]]
<1>0. m.type = "FindNodeReq" /\ m \in Message
  BY DEF HandleFindNodeReq, IInv, MsgOK
<1>1. /\ m.key \in Key /\ n \in Node /\ Head(m.route) \in Node
      /\ Head(m.route) = n \/ Distance[n][m.key] < Distance[Head(m.route)][m.key]
  BY <1>0, AskerIsNotNearest
<1>2. ASSUME NEW c, net' = (net \ {m}) \cup {[m EXCEPT !.route = Append(@, c)]}
      PROVE  FALSE
  <2>1. x = [m EXCEPT !.route = Append(@, c)]
    BY <1>2
  <2>2. x.type = "FindNodeReq"
    BY <1>0, <2>1 DEF Message
  <2> QED
    BY <2>2 DEF Ends
<1>3. CASE best = {} /\ net' = (net \ {m}) \cup {rsp}
  <2>1. x.from = n /\ x.key = m.key
    BY <1>3
  <2>2. ASSUME NEW c \in contacts[n], c \in Node, Distance[c][m.key] < Distance[n][m.key],
               \A d \in contacts[n] : Distance[c][m.key] <= Distance[d][m.key]
        PROVE  FALSE
    <3>1. Distance[c][m.key] \in Nat /\ Distance[n][m.key] \in Nat
          /\ Distance[Head(m.route)][m.key] \in Nat
      BY <1>1, <2>2, DHTAssumption DEF Target
    <3>2. c # Head(m.route)
      BY <1>1, <2>2, <3>1
    <3>3. c \in best
      BY <2>2, <3>2
    <3> QED
      BY <1>3, <3>3
  <2>3. ClosestOfAll(n, m.key)
    <3> HIDE DEF best, n
    <3> QED BY <1>1, <2>2, NearestContact
  <2> QED
    BY <2>1, <2>3
<1> QED
  BY <1>2, <1>3 DEF HandleFindNodeReq

(* The other steps put no such message on its way.                         *)
LEMMA OthersEnd ==
  ASSUME NEW x \in net' \ net, Ends(x),
         \/ \E n, d, k, v : ClientStore(n, d, k, v)
         \/ \E n, k : ClientFetch(n, k)
         \/ \E m : HandleFindNodeRsp(m) \/ HandleClientRsp(m) \/ Lose(m)
         \/ \E n : GarbageCollection(n) \/ HandleTimeout(n) \/ Restart(n)
         \/ \E n, c : ContactNew(n, c) \/ ContactLost(n, c)
         \/ Tick \/ UNCHANGED vars
  PROVE  FALSE
<1>1. x.type \notin {"StoreReq", "FetchReq", "FindNodeReq"}
  BY DEF Ends
<1>2. ASSUME NEW n, NEW d, NEW k, NEW v, ClientStore(n, d, k, v)
      PROVE  FALSE
  <2>1. x.type = "StoreReq"
    BY <1>2 DEF ClientStore
  <2> QED
    BY <1>1, <2>1
<1>3. ASSUME NEW n, NEW k, ClientFetch(n, k)
      PROVE  FALSE
  <2>1. PICK route : x = [[type |-> "FetchReq", key |-> k, route |-> <<n>>] EXCEPT !.route = route]
    BY <1>3 DEF ClientFetch, SendByKey
  <2>2. x.type = "FetchReq"
    BY <2>1
  <2> QED
    BY <1>1, <2>2
<1>4. ASSUME NEW m, HandleFindNodeRsp(m)
      PROVE  FALSE
  <2> DEFINE V == IF <<m.key, m.nonce>> \in pending[m.to] THEN values[m.to][m.key] ELSE {}
  <2>1. net' = (net \ {m}) \cup
                   {Republish(m.to, m.key, v, d, <<m.to, d>>) : v \in V, d \in Replicas(m)}
    BY <1>4 DEF HandleFindNodeRsp
  <2> HIDE DEF V
  <2>2. PICK v, d : x = Republish(m.to, m.key, v, d, <<m.to, d>>)
    BY <2>1, SMTT(30)
  <2>3. x.type = "StoreReq"
    BY <2>2 DEF Republish
  <2> QED
    BY <1>1, <2>3
<1>5. ASSUME NEW m, HandleClientRsp(m) \/ Lose(m)
      PROVE  FALSE
  BY <1>5 DEF HandleClientRsp, Lose
<1>6. ASSUME NEW n, GarbageCollection(n)
      PROVE  FALSE
  <2>1. PICK k, route : x = [type |-> "FindNodeReq", key |-> k, nonce |-> now, route |-> route]
    BY <1>6 DEF GarbageCollection
  <2>2. x.type = "FindNodeReq"
    BY <2>1
  <2> QED
    BY <1>1, <2>2
<1>7. ASSUME NEW n, NEW c, ContactNew(n, c)
      PROVE  FALSE
  <2> DEFINE K == {k \in Key : Holds(n, k) /\ Distance[c][k] <= Distance[n][k]}
  <2>1. PICK hops \in [K -> Node] : net' = net \cup
                   UNION {{Republish(n, k, v, k, <<n, hops[k]>>) : v \in values[n][k]} : k \in K}
    BY <1>7 DEF ContactNew
  <2> HIDE DEF K
  <2>2. PICK k \in K : x \in {Republish(n, k, v, k, <<n, hops[k]>>) : v \in values[n][k]}
    BY <2>1
  <2>3. PICK v : x = Republish(n, k, v, k, <<n, hops[k]>>)
    BY <2>2
  <2>4. x.type = "StoreReq"
    BY <2>3 DEF Republish
  <2> QED
    BY <1>1, <2>4
<1>8. ASSUME \/ \E n : HandleTimeout(n) \/ Restart(n)
             \/ \E n, c : ContactLost(n, c)
             \/ Tick \/ UNCHANGED vars
      PROVE  FALSE
  BY <1>8 DEF HandleTimeout, Restart, ContactLost, Tick, vars
<1> QED
  BY <1>2, <1>3, <1>4, <1>5, <1>6, <1>7, <1>8

(* Where every node knows every other one, lookups end at the node closest *)
(* to the key and nowhere else, for every network and every metric of that *)
(* kind.                                                                   *)
THEOREM LookupsEndAtClosest == Spec => LookupEndsAtClosest
<1> DEFINE AtClosest == \A m \in net' \ net :
             (/\ Complete
              /\ m.type \in {"FindNodeRsp", "DeadEnd"} \/ (m.type = "FetchRsp" /\ m.values = {}))
             => ClosestOfAll(m.from, m.key)
<1>1. IInv /\ [Next]_vars => AtClosest
  <2> SUFFICES ASSUME IInv, [Next]_vars, Complete, NEW x \in net' \ net, Ends(x)
               PROVE  ClosestOfAll(x.from, x.key)
    BY DEF Ends
  <2> QED
    BY StoreReqEnds, FetchReqEnds, FindNodeReqEnds, OthersEnd DEF Next
<1>2. [][AtClosest]_vars <=> LookupEndsAtClosest
  BY DEF LookupEndsAtClosest
<1> HIDE DEF AtClosest
<1> QED
  BY <1>1, <1>2, DHTInvariant, PTL DEF Spec

------------------------------------------------------------------------------
(* What a republish needs to reach the node closest to a key, in a tick    *)
(* without loss and change in which every node knows every other one.      *)

Lookup(m) == m.type \in {"FindNodeReq", "FindNodeRsp"}
Asker(m) == IF m.type = "FindNodeReq" THEN Head(m.route) ELSE m.to

(* Node c has an entry that its next garbage collection keeps, or is about *)
(* to get it.                                                              *)
Fresh(c, k) == Holds(c, k) /\ ~Expired(c, k)
StoreFor(m, c, k) == m.type = "StoreReq" /\ m.key = k /\ m.dest = c
Reaches(c, k) == Fresh(c, k) \/ \E m \in net : StoreFor(m, c, k)
ReachesClosest(k) == \A c \in Node : ClosestOfAll(c, k) => Reaches(c, k)

(* A lookup is waited for by the node that has sent it, and ends with all  *)
(* nodes; a republish is young and not the only one on its way.            *)
LookupOK(m) ==
  Lookup(m) =>
    /\ Asker(m) \in collected /\ <<m.key, m.nonce>> \in pending[Asker(m)]
    /\ m.type = "FindNodeRsp" => Node \subseteq Replicas(m)
    /\ \A o \in net : Lookup(o) /\ Asker(o) = Asker(m) /\ o.key = m.key => o = m
StoreOK(m) ==
  m.type = "StoreReq" =>
    m.age # NoAge /\ m.age <= KeyValueTimeout /\ m.dest \in Node /\ ReachesClosest(m.key)

(* A node that has collected its garbage has looked for the nodes closest  *)
(* to what it has kept.                                                    *)
LookedFor(n, k) == \E m \in net : Lookup(m) /\ Asker(m) = n /\ m.key = k
HeldOK(n, k) == Fresh(n, k) /\ (ReachesClosest(k) \/ LookedFor(n, k))

RepublishState ==
  /\ \A m \in net : LookupOK(m) /\ StoreOK(m)
  /\ \A n \in collected, k \in Key : Holds(n, k) => HeldOK(n, k)

RepublishInv == calm /\ Complete => RepublishState

(* What reaches the closest node is not lost by a step that loses no       *)
(* republish on its way and makes no entry older.                          *)
LEMMA ReachesMore ==
  ASSUME NEW k, ReachesClosest(k), \A c \in Node : Fresh(c, k) => Fresh(c, k)',
         \A c \in Node, m \in net : StoreFor(m, c, k) => m \in net' \/ Fresh(c, k)'
  PROVE  ReachesClosest(k)'
<1> SUFFICES ASSUME NEW c \in Node, ClosestOfAll(c, k)
             PROVE  Reaches(c, k)'
  BY DEF ReachesClosest, ClosestOfAll
<1>1. Reaches(c, k)
  BY DEF ReachesClosest
<1>2. CASE Fresh(c, k)
  BY <1>2 DEF Reaches
<1>3. ASSUME NEW m \in net, StoreFor(m, c, k)
      PROVE  Reaches(c, k)'
  BY <1>3 DEF Reaches, StoreFor
<1> QED
  BY <1>1, <1>2, <1>3 DEF Reaches

(* A step that touches neither lookups nor republishes, removes nothing    *)
(* and makes no entry older.                                               *)
LEMMA QuietRepublish ==
  ASSUME RepublishState, UNCHANGED <<collected, pending>>,
         \A x : Lookup(x) \/ x.type = "StoreReq" => (x \in net' <=> x \in net),
         \A c \in Node, k \in Key : Fresh(c, k) => Fresh(c, k)',
         \A c \in Node, k \in Key : Holds(c, k)' => Holds(c, k),
         collected \subseteq Node, \A m \in net : m \in Message
  PROVE  RepublishState'
<1>1. ASSUME NEW k \in Key, ReachesClosest(k)
      PROVE  ReachesClosest(k)'
  BY <1>1, ReachesMore DEF StoreFor
<1>2. ASSUME NEW m \in net'
      PROVE  LookupOK(m)'
  <2>1. CASE ~Lookup(m)
    BY <2>1 DEF LookupOK, Lookup
  <2>2. CASE Lookup(m)
    <3>1. m \in net /\ LookupOK(m)
      BY <2>2 DEF RepublishState
    <3> QED
      BY <2>2, <3>1 DEF LookupOK, Lookup, Asker, Replicas
  <2> QED
    BY <2>1, <2>2
<1>3. ASSUME NEW m \in net'
      PROVE  StoreOK(m)'
  <2>1. CASE m.type # "StoreReq"
    BY <2>1 DEF StoreOK
  <2>2. CASE m.type = "StoreReq"
    <3>1. m \in net /\ StoreOK(m) /\ m \in Message
      BY <2>2 DEF RepublishState
    <3>2. m.key \in Key
      BY <2>2, <3>1, MessageFields DEF Routed
    <3> QED
      BY <1>1, <2>2, <3>1, <3>2 DEF StoreOK
  <2> QED
    BY <2>1, <2>2
<1>4. ASSUME NEW n \in collected, NEW k \in Key, Holds(n, k)'
      PROVE  HeldOK(n, k)'
  <2>1. n \in Node /\ HeldOK(n, k)
    BY <1>4 DEF RepublishState
  <2>2. LookedFor(n, k) => LookedFor(n, k)'
    BY DEF LookedFor, Lookup, Asker
  <2> QED
    BY <1>1, <2>1, <2>2 DEF HeldOK
<1> QED
  BY <1>2, <1>3, <1>4 DEF RepublishState

(* Entries of a node that do not change, or become younger, stay.          *)
LEMMA FreshSame ==
  ASSUME UNCHANGED <<now, values, accessed>>
  PROVE  \A c \in Node, k \in Key : (Fresh(c, k)' <=> Fresh(c, k)) /\ (Holds(c, k)' <=> Holds(c, k))
  BY DEF Fresh, Holds, Expired

LEMMA FreshAccessed ==
  ASSUME IInv, NEW n \in Node, NEW k \in Key, NEW time \in Nat, now' = now,
         accessed' = [accessed EXCEPT ![n][k] = Accessed(n, k, time)],
         \A c \in Node, j \in Key : Holds(c, j) => Holds(c, j)'
  PROVE  /\ \A c \in Node, j \in Key : Fresh(c, j) => Fresh(c, j)'
         /\ accessed'[n][k] \in Nat /\ accessed'[n][k] >= time
<1> DEFINE new == Accessed(n, k, time)
<1>0. now \in Nat /\ \A c \in Node, j \in Key : accessed[c][j] \in Nat
  BY DEF IInv, TablesOK
<1>1. new \in Nat /\ new >= time /\ (Holds(n, k) => new >= accessed[n][k])
  BY <1>0 DEF Accessed
<1>2. \A c \in Node, j \in Key : accessed'[c][j] = IF c = n /\ j = k THEN new ELSE accessed[c][j]
  BY DEF IInv, TablesOK
<1> HIDE DEF new
<1>3. ASSUME NEW c \in Node, NEW j \in Key, Fresh(c, j)
      PROVE  Fresh(c, j)'
  <2>1. Holds(c, j) /\ Holds(c, j)' /\ ~(now - accessed[c][j] > KeyValueTimeout)
    BY <1>3 DEF Fresh, Expired
  <2>2. accessed'[c][j] \in Nat /\ accessed'[c][j] >= accessed[c][j]
    BY <1>0, <1>1, <1>2, <2>1
  <2>3. ~(now' - accessed'[c][j] > KeyValueTimeout)
    BY <1>0, <2>1, <2>2, DHTAssumption
  <2> QED
    BY <2>1, <2>3 DEF Fresh, Expired
<1> QED
  BY <1>1, <1>2, <1>3

LEMMA NetTyped == IInv => collected \subseteq Node /\ \A m \in net : m \in Message
  BY DEF IInv, TablesOK, MsgOK

LEMMA ClientFetchRepublish ==
  ASSUME IInv, RepublishState, NEW n, NEW k, ClientFetch(n, k)
  PROVE  RepublishState'
<1>1. UNCHANGED <<now, values, accessed, collected, pending>>
  BY DEF ClientFetch
<1>2. \/ net' = net
      \/ \E r : net' = net \cup {[[type |-> "FetchReq", key |-> k, route |-> <<n>>] EXCEPT !.route = r]}
  BY DEF ClientFetch, SendByKey
<1>3. \A x : Lookup(x) \/ x.type = "StoreReq" => (x \in net' <=> x \in net)
  BY <1>2 DEF Lookup
<1> QED
  BY <1>1, <1>3, FreshSame, NetTyped, QuietRepublish

LEMMA HandleClientRspRepublish ==
  ASSUME IInv, RepublishState, NEW m, HandleClientRsp(m)
  PROVE  RepublishState'
<1>1. UNCHANGED <<now, values, accessed, collected, pending>>
  BY DEF HandleClientRsp
<1>2. \A x : Lookup(x) \/ x.type = "StoreReq" => (x \in net' <=> x \in net)
  BY DEF HandleClientRsp, Lookup
<1> QED
  BY <1>1, <1>2, FreshSame, NetTyped, QuietRepublish

LEMMA HandleFetchReqRepublish ==
  ASSUME IInv, RepublishState, NEW m \in net, HandleFetchReq(m)
  PROVE  RepublishState'
<1> DEFINE n == Receiver(m.route)
           rsp == [type |-> "FetchRsp", key |-> m.key, values |-> values[n][m.key], from |-> n,
                   to |-> Head(m.route)]
<1>0. /\ m.type = "FetchReq" /\ m.type \in Routed /\ MsgOK(m) /\ m \in Message
      /\ UNCHANGED <<now, values, collected, pending>>
  BY DEF HandleFetchReq, IInv, MsgOK, Routed
<1>1. m.key \in Key /\ m.route \in Seq(Node) /\ m.route # <<>>
  BY <1>0, MessageFields DEF MsgOK, RouteOK
<1>2. n \in Node /\ now \in Nat
  BY <1>1, RouteEnds DEF IInv, TablesOK
<1>3. \A x : Lookup(x) \/ x.type = "StoreReq" => (x \in net' <=> x \in net)
  <2>1. CASE net' = (net \ {m}) \cup {rsp}
    <3>1. rsp.type = "FetchRsp"
      OBVIOUS
    <3> HIDE DEF rsp
    <3> QED
      BY <1>0, <2>1, <3>1 DEF Lookup
  <2>2. ASSUME NEW c, net' = (net \ {m}) \cup {[m EXCEPT !.route = Append(@, c)]}
        PROVE  \A x : Lookup(x) \/ x.type = "StoreReq" => (x \in net' <=> x \in net)
    <3> DEFINE new == [m EXCEPT !.route = Append(@, c)]
    <3>1. new.type = "FetchReq"
      BY <1>0 DEF Message
    <3>2. net' = (net \ {m}) \cup {new}
      BY <2>2
    <3> HIDE DEF new
    <3> QED
      BY <1>0, <3>1, <3>2 DEF Lookup
  <2> QED
    BY <2>1, <2>2 DEF HandleFetchReq, Forward
<1>4. \A c \in Node, k \in Key : Holds(c, k)' <=> Holds(c, k)
  BY <1>0 DEF Holds
<1>5. \A c \in Node, k \in Key : Fresh(c, k) => Fresh(c, k)'
  <2>1. CASE accessed' = accessed
    BY <1>0, <2>1, FreshSame
  <2>2. CASE accessed' = [accessed EXCEPT ![n][m.key] = Accessed(n, m.key, now)]
    <3> DEFINE time == now
    <3> HIDE DEF time, n
    <3>1. time \in Nat /\ accessed' = [accessed EXCEPT ![n][m.key] = Accessed(n, m.key, time)]
      BY <1>2, <2>2 DEF time
    <3> QED
      BY <1>0, <1>1, <1>2, <1>4, <3>1, FreshAccessed
  <2> QED
    BY <2>1, <2>2 DEF HandleFetchReq
<1> QED
  BY <1>0, <1>3, <1>4, <1>5, NetTyped, QuietRepublish

(* A lookup goes on, or is answered, on behalf of the node that waits.     *)
LEMMA LookupGoesOn ==
  ASSUME IInv, RepublishState, NEW m \in net, Lookup(m), NEW new, Lookup(new),
         Asker(new) = Asker(m), new.key = m.key, new.nonce = m.nonce,
         new.type = "FindNodeRsp" => Node \subseteq Replicas(new),
         net' = (net \ {m}) \cup {new}, UNCHANGED <<now, values, accessed, collected, pending>>
  PROVE  RepublishState'
<1>1. /\ collected \subseteq Node /\ \A x \in net : x \in Message
      /\ m.type # "StoreReq" /\ new.type # "StoreReq"
  BY NetTyped DEF Lookup
<1>2. ASSUME NEW k \in Key, ReachesClosest(k)
      PROVE  ReachesClosest(k)'
  <2>1. \A c \in Node, x \in net : StoreFor(x, c, k) => x \in net'
    BY <1>1 DEF StoreFor
  <2> QED
    BY <1>2, <2>1, FreshSame, ReachesMore
<1>3. LookupOK(m)
  BY DEF RepublishState
<1>4. ASSUME NEW x \in net'
      PROVE  LookupOK(x)'
  <2>1. CASE x = new
    <3>1. \A o \in net' : Lookup(o) /\ Asker(o) = Asker(new) /\ o.key = new.key => o = new
      BY <1>3 DEF LookupOK
    <3> QED
      BY <1>3, <2>1, <3>1 DEF LookupOK, Lookup, Asker, Replicas
  <2>2. CASE x # new /\ ~Lookup(x)
    BY <2>2 DEF LookupOK, Lookup
  <2>3. CASE x # new /\ Lookup(x)
    <3>1. x \in net /\ x # m /\ LookupOK(x)
      BY <2>3 DEF RepublishState
    <3>2. ~(Asker(new) = Asker(x) /\ new.key = x.key)
      BY <1>3, <2>3, <3>1 DEF LookupOK
    <3>3. \A o \in net' : Lookup(o) /\ Asker(o) = Asker(x) /\ o.key = x.key => o = x
      BY <2>3, <3>1, <3>2 DEF LookupOK
    <3> QED
      BY <2>3, <3>1, <3>3 DEF LookupOK, Lookup, Asker, Replicas
  <2> QED
    BY <2>1, <2>2, <2>3
<1>5. ASSUME NEW x \in net'
      PROVE  StoreOK(x)'
  <2>1. CASE x.type # "StoreReq"
    BY <2>1 DEF StoreOK
  <2>2. CASE x.type = "StoreReq"
    <3>1. x \in net /\ StoreOK(x) /\ x \in Message
      BY <1>1, <2>2 DEF RepublishState
    <3>2. x.key \in Key
      BY <2>2, <3>1, MessageFields DEF Routed
    <3> QED
      BY <1>2, <2>2, <3>1, <3>2 DEF StoreOK
  <2> QED
    BY <2>1, <2>2
<1>6. ASSUME NEW n \in collected, NEW k \in Key, Holds(n, k)'
      PROVE  HeldOK(n, k)'
  <2>1. n \in Node /\ HeldOK(n, k) /\ Fresh(n, k)'
    BY <1>1, <1>6, FreshSame DEF RepublishState, HeldOK
  <2>2. ASSUME NEW x \in net, Lookup(x), Asker(x) = n, x.key = k
        PROVE  \E y \in net' : Lookup(y) /\ Asker(y) = n /\ y.key = k
    BY <2>2
  <2>3. LookedFor(n, k) => LookedFor(n, k)'
    BY <2>2 DEF LookedFor, Lookup, Asker
  <2> QED
    BY <1>2, <2>1, <2>3 DEF HeldOK
<1> QED
  BY <1>4, <1>5, <1>6 DEF RepublishState

LEMMA HandleFindNodeReqRepublish ==
  ASSUME IInv, RepublishState, Complete, NEW m \in net, HandleFindNodeReq(m)
  PROVE  RepublishState'
<1> DEFINE n == Receiver(m.route)
           rsp == [type |-> "FindNodeRsp", key |-> m.key, nonce |-> m.nonce,
                   from |-> n, to |-> Head(m.route), contacts |-> contacts[n]]
<1>0. /\ m.type = "FindNodeReq" /\ m.type \in Routed /\ MsgOK(m) /\ m \in Message
      /\ UNCHANGED <<now, values, accessed, collected, pending>>
  BY DEF HandleFindNodeReq, IInv, MsgOK, Routed
<1>1. m.key \in Key /\ m.route \in Seq(Node) /\ m.route # <<>>
  BY <1>0, MessageFields DEF MsgOK, RouteOK
<1>2. n \in Node
  BY <1>1, RouteEnds
<1>3. Lookup(m) /\ Asker(m) = Head(m.route)
  BY <1>0 DEF Lookup, Asker
<1>4. ASSUME NEW c \in contacts[n], net' = (net \ {m}) \cup {[m EXCEPT !.route = Append(@, c)]}
      PROVE  RepublishState'
  <2> DEFINE new == [m EXCEPT !.route = Append(@, c)]
  <2>1. c \in Node
    BY <1>2, <1>4 DEF Complete
  <2>2. /\ new.type = "FindNodeReq" /\ new.key = m.key /\ new.nonce = m.nonce
        /\ new.route = Append(m.route, c)
    BY <1>0 DEF Message
  <2>3. Head(Append(m.route, c)) = Head(m.route)
    BY <1>1, <2>1
  <2>4. net' = (net \ {m}) \cup {new}
    BY <1>4
  <2> HIDE DEF new
  <2>5. Lookup(new) /\ Asker(new) = Asker(m)
    BY <1>3, <2>2, <2>3 DEF Lookup, Asker
  <2> QED
    BY <1>0, <1>3, <2>2, <2>4, <2>5, LookupGoesOn
<1>5. CASE net' = (net \ {m}) \cup {rsp}
  <2>1. /\ rsp.type = "FindNodeRsp" /\ rsp.key = m.key /\ rsp.nonce = m.nonce
        /\ rsp.to = Head(m.route) /\ rsp.from = n /\ rsp.contacts = contacts[n]
    OBVIOUS
  <2> HIDE DEF rsp
  <2>2. Lookup(rsp) /\ Asker(rsp) = Asker(m)
    BY <1>3, <2>1 DEF Lookup, Asker
  <2>3. Node \subseteq Replicas(rsp)
    BY <1>2, <2>1 DEF Replicas, Complete
  <2> QED
    BY <1>0, <1>3, <1>5, <2>1, <2>2, <2>3, LookupGoesOn
<1> QED
  BY <1>4, <1>5 DEF HandleFindNodeReq

(* The answer to a lookup sends the entry to the closest node.             *)
LEMMA HandleFindNodeRspRepublish ==
  ASSUME IInv, RepublishState, NEW m \in net, HandleFindNodeRsp(m)
  PROVE  RepublishState'
<1> DEFINE n == m.to
           V == IF <<m.key, m.nonce>> \in pending[n] THEN values[n][m.key] ELSE {}
           sent == {Republish(n, m.key, v, d, <<n, d>>) : v \in V, d \in Replicas(m)}
<1>0. /\ m.type = "FindNodeRsp" /\ m \in Message /\ LookupOK(m) /\ Lookup(m)
      /\ pending' = [pending EXCEPT ![n] = @ \ {<<m.key, m.nonce>>}]
      /\ net' = (net \ {m}) \cup sent
      /\ UNCHANGED <<now, values, accessed, collected>>
  BY DEF HandleFindNodeRsp, IInv, MsgOK, RepublishState, Lookup
<1>1. /\ m.key \in Key /\ n \in Node /\ Asker(m) = n /\ Node \subseteq Replicas(m)
      /\ Replicas(m) \subseteq Node /\ n \in collected /\ V = values[n][m.key]
      /\ collected \subseteq Node /\ \A x \in net : x \in Message
  BY <1>0, MessageFields, NetTyped DEF LookupOK, Asker, Replicas
<1>2. /\ now \in Nat /\ accessed[n][m.key] \in Nat
      /\ Holds(n, m.key) => /\ accessed[n][m.key] <= touched[m.key] /\ touched[m.key] <= now
                            /\ touched[m.key] \in Nat /\ Fresh(n, m.key)
  BY <1>1 DEF IInv, TablesOK, PastOK, RepublishState, HeldOK
<1>3. ASSUME NEW x \in sent
      PROVE  /\ x.type = "StoreReq" /\ x.key = m.key /\ x.dest \in Node
             /\ x.age # NoAge /\ x.age <= KeyValueTimeout
  <2>1. PICK v \in V, d \in Replicas(m) : x = Republish(n, m.key, v, d, <<n, d>>)
    BY <1>3
  <2>2. Holds(n, m.key) /\ d \in Node
    BY <1>1, <2>1 DEF Holds
  <2> DEFINE age == now - accessed[n][m.key]
  <2>3. age \in Nat /\ age <= KeyValueTimeout
    BY <1>2, <2>2, DHTAssumption DEF Fresh, Expired
  <2>4. x.type = "StoreReq" /\ x.key = m.key /\ x.dest = d /\ x.age = age
    BY <2>1 DEF Republish, Age
  <2> QED
    BY <2>2, <2>3, <2>4, DHTAssumption
<1>4. Holds(n, m.key) => \A c \in Node : \E x \in sent : StoreFor(x, c, m.key)
  <2> SUFFICES ASSUME Holds(n, m.key), NEW c \in Node
               PROVE  \E x \in sent : StoreFor(x, c, m.key)
    OBVIOUS
  <2>1. PICK v : v \in V
    BY <1>1 DEF Holds
  <2>2. Republish(n, m.key, v, c, <<n, c>>) \in sent
    BY <1>1, <2>1
  <2>3. StoreFor(Republish(n, m.key, v, c, <<n, c>>), c, m.key)
    BY DEF StoreFor, Republish
  <2> HIDE DEF sent, V
  <2> QED
    BY <2>2, <2>3
<1>5. sent # {} => Holds(n, m.key)
  BY <1>1 DEF Holds
<1> HIDE DEF sent, V
<1>6. ASSUME NEW k \in Key, ReachesClosest(k)
      PROVE  ReachesClosest(k)'
  <2>1. \A c \in Node, x \in net : StoreFor(x, c, k) => x \in net'
    BY <1>0 DEF StoreFor
  <2> QED
    BY <1>0, <1>6, <2>1, FreshSame, ReachesMore
<1>7. Holds(n, m.key) => ReachesClosest(m.key)'
  <2>1. Holds(n, m.key) => \A c \in Node : \E x \in net' : StoreFor(x, c, m.key)
    BY <1>0, <1>4
  <2> QED
    BY <2>1 DEF ReachesClosest, Reaches, StoreFor
<1>8. ASSUME NEW x \in net'
      PROVE  LookupOK(x)' /\ StoreOK(x)'
  <2>1. CASE x \in sent
    <3>1. Holds(n, m.key)
      BY <1>5, <2>1
    <3>2. ~Lookup(x)
      BY <1>3, <2>1 DEF Lookup
    <3> QED
      BY <1>3, <1>7, <2>1, <3>1, <3>2 DEF LookupOK, Lookup, StoreOK
  <2>2. CASE x \notin sent
    <3>1. x \in net /\ x # m /\ LookupOK(x) /\ StoreOK(x) /\ x \in Message
      BY <1>0, <1>1, <2>2 DEF RepublishState
    <3>2. StoreOK(x)'
      <4>1. CASE x.type = "StoreReq"
        <5>1. x.key \in Key
          BY <3>1, <4>1, MessageFields DEF Routed
        <5> QED
          BY <1>6, <3>1, <4>1, <5>1 DEF StoreOK
      <4>2. CASE x.type # "StoreReq"
        BY <4>2 DEF StoreOK
      <4> QED
        BY <4>1, <4>2
    <3>3. LookupOK(x)'
      <4>1. CASE ~Lookup(x)
        BY <4>1 DEF LookupOK, Lookup
      <4>2. CASE Lookup(x)
        <5>1. ~(Asker(x) = n /\ x.key = m.key)
          BY <1>0, <1>1, <3>1, <4>2 DEF LookupOK
        <5>2. <<x.key, x.nonce>> # <<m.key, m.nonce>> \/ Asker(x) # n
          BY <5>1
        <5>3. Asker(x) \in Node /\ <<x.key, x.nonce>> \in pending[Asker(x)]
          BY <1>1, <3>1, <4>2 DEF LookupOK
        <5>4. <<x.key, x.nonce>> \in pending'[Asker(x)]
          BY <1>0, <1>1, <5>2, <5>3 DEF IInv, TablesOK
        <5>5. \A o \in net' : Lookup(o) => o \in net
          BY <1>0, <1>3 DEF Lookup
        <5> QED
          BY <1>0, <3>1, <4>2, <5>4, <5>5 DEF LookupOK, Lookup, Asker, Replicas
      <4> QED
        BY <4>1, <4>2
    <3> QED
      BY <3>2, <3>3
  <2> QED
    BY <2>1, <2>2
<1>9. ASSUME NEW p \in collected, NEW k \in Key, Holds(p, k)'
      PROVE  HeldOK(p, k)'
  <2>1. p \in Node /\ Holds(p, k) /\ HeldOK(p, k) /\ Fresh(p, k)'
    BY <1>0, <1>1, <1>9, FreshSame DEF RepublishState, HeldOK
  <2>2. CASE ReachesClosest(k)
    BY <1>6, <2>1, <2>2 DEF HeldOK
  <2>3. ASSUME NEW x \in net, Lookup(x), Asker(x) = p, x.key = k
        PROVE  HeldOK(p, k)'
    <3>1. CASE x = m
      BY <1>1, <1>7, <2>1, <2>3, <3>1 DEF HeldOK
    <3>2. CASE x # m
      <4>1. x \in net'
        BY <1>0, <3>2
      <4>2. LookedFor(p, k)'
        BY <2>3, <4>1 DEF LookedFor, Lookup, Asker
      <4> QED
        BY <2>1, <4>2 DEF HeldOK
    <3> QED
      BY <3>1, <3>2
  <2> QED
    BY <2>1, <2>2, <2>3 DEF HeldOK, LookedFor
<1> QED
  BY <1>0, <1>8, <1>9 DEF RepublishState

(* A republish that arrives is as young as the entry it was made from.     *)
LEMMA HandleStoreReqRepublish ==
  ASSUME IInv, RepublishState, NEW m \in net, HandleStoreReq(m)
  PROVE  RepublishState'
<1> DEFINE n == Receiver(m.route)
           time == now - m.age
<1>0. /\ m.type = "StoreReq" /\ m.type \in Routed /\ MsgOK(m) /\ m \in Message /\ StoreOK(m)
      /\ UNCHANGED <<now, pending, collected>>
  BY DEF HandleStoreReq, IInv, MsgOK, Routed, RepublishState
<1>1. /\ m.key \in Key /\ m.value \in Value /\ m.age \in Nat /\ m.age <= KeyValueTimeout
      /\ m.age <= now /\ m.dest \in Node /\ m.dest = n /\ m.age # NoAge
      /\ ReachesClosest(m.key)
  BY <1>0, MessageFields DEF StoreOK, MsgOK, RouteOK, AgeOK
<1>2. /\ values' = [values EXCEPT ![n][m.key] = @ \cup {m.value}]
      /\ accessed' = [accessed EXCEPT ![n][m.key] = Accessed(n, m.key, time)]
      /\ net' = net \ {m}
  BY <1>1 DEF HandleStoreReq, StoreLocally
<1>3. n \in Node /\ now \in Nat /\ time \in Nat /\ now - time = m.age
      /\ collected \subseteq Node /\ \A x \in net : x \in Message
  BY <1>1, NetTyped DEF IInv, TablesOK
<1> HIDE DEF n, time
<1>4. \A c \in Node, k \in Key :
        values'[c][k] = IF c = n /\ k = m.key THEN values[c][k] \cup {m.value} ELSE values[c][k]
  BY <1>1, <1>2, <1>3 DEF IInv, TablesOK
<1>5. \A c \in Node, k \in Key : Holds(c, k) => Holds(c, k)'
  BY <1>4 DEF Holds
<1>6. /\ \A c \in Node, k \in Key : Fresh(c, k) => Fresh(c, k)'
      /\ accessed'[n][m.key] \in Nat /\ accessed'[n][m.key] >= time
  BY <1>0, <1>1, <1>2, <1>3, <1>5, FreshAccessed
<1>7. Fresh(n, m.key)'
  <2>1. Holds(n, m.key)'
    BY <1>1, <1>3, <1>4 DEF Holds
  <2>2. ~(now' - accessed'[n][m.key] > KeyValueTimeout)
    BY <1>0, <1>1, <1>3, <1>6, DHTAssumption
  <2> QED
    BY <2>1, <2>2 DEF Fresh, Expired
<1>8. ASSUME NEW k \in Key, ReachesClosest(k)
      PROVE  ReachesClosest(k)'
  <2>1. ASSUME NEW c \in Node, NEW x \in net, StoreFor(x, c, k)
        PROVE  x \in net' \/ Fresh(c, k)'
    <3>1. CASE x = m
      BY <1>1, <1>7, <2>1, <3>1 DEF StoreFor
    <3>2. CASE x # m
      BY <1>2, <3>2
    <3> QED
      BY <3>1, <3>2
  <2> QED
    BY <1>6, <1>8, <2>1, ReachesMore
<1>9. ASSUME NEW x \in net'
      PROVE  LookupOK(x)' /\ StoreOK(x)'
  <2>1. x \in net /\ LookupOK(x) /\ StoreOK(x) /\ x \in Message
    BY <1>2, <1>3 DEF RepublishState
  <2>2. LookupOK(x)'
    BY <1>0, <1>2, <2>1 DEF LookupOK, Lookup, Asker, Replicas
  <2>3. x.type = "StoreReq" => x.key \in Key
    BY <2>1, MessageFields DEF Routed
  <2>4. StoreOK(x)'
    BY <1>8, <2>1, <2>3 DEF StoreOK
  <2> QED
    BY <2>2, <2>4
<1>10. ASSUME NEW p \in collected, NEW k \in Key, Holds(p, k)'
       PROVE  HeldOK(p, k)'
  <2>1. CASE p = n /\ k = m.key
    BY <1>1, <1>7, <1>8, <2>1 DEF HeldOK
  <2>2. CASE ~(p = n /\ k = m.key)
    <3>1. p \in Node /\ Holds(p, k)
      BY <1>3, <1>4, <1>10, <2>2 DEF Holds
    <3>2. HeldOK(p, k) /\ Fresh(p, k)'
      BY <1>6, <3>1 DEF RepublishState, HeldOK
    <3>3. LookedFor(p, k) => LookedFor(p, k)'
      BY <1>0, <1>2 DEF LookedFor, Lookup, Asker
    <3> QED
      BY <1>8, <3>2, <3>3 DEF HeldOK
  <2> QED
    BY <2>1, <2>2
<1> QED
  BY <1>0, <1>9, <1>10 DEF RepublishState

(* The garbage collection looks for the nodes closest to what it keeps,    *)
(* unless the node is the closest itself.                                  *)
LEMMA GarbageCollectionRepublish ==
  ASSUME IInv, RepublishState, Complete, NEW n \in Node, GarbageCollection(n)
  PROVE  RepublishState'
<1> DEFINE expired == {k \in Key : Holds(n, k) /\ Expired(n, k)}
           kept == {k \in Key : Holds(n, k) /\ ~Expired(n, k)}
           lookup(k, route) == [type |-> "FindNodeReq", key |-> k, nonce |-> now, route |-> route]
<1>0. /\ n \notin collected /\ collected' = collected \cup {n}
      /\ values' = [values EXCEPT ![n] = [k \in Key |-> IF k \in expired THEN {} ELSE @[k]]]
      /\ pending' = [pending EXCEPT ![n] = @ \cup (kept \X {now})]
      /\ UNCHANGED <<now, accessed>>
  BY DEF GarbageCollection
<1>1. PICK hops \in [kept -> Node] :
        net' = net \cup {lookup(k, <<n, hops[k]>>) : k \in {j \in kept : ~Closest(n, j)}}
  BY DEF GarbageCollection
<1>2. collected \subseteq Node /\ \A x \in net : x \in Message
  BY NetTyped
<1>3. \A c \in Node, k \in Key :
        values'[c][k] = IF c = n /\ k \in expired THEN {} ELSE values[c][k]
  BY <1>0 DEF IInv, TablesOK
<1>4. \A c \in Node, k \in Key : Fresh(c, k) => Fresh(c, k)'
  BY <1>0, <1>3 DEF Fresh, Holds, Expired
<1>5. \A c \in Node, k \in Key : Holds(c, k)' => Holds(c, k) /\ (c = n => k \in kept)
  BY <1>3 DEF Holds
<1>6. \A k \in kept : k \in Key /\ Fresh(n, k)
  BY DEF Fresh
<1>7. /\ n \in collected' /\ \A k \in kept : <<k, now>> \in pending'[n]
      /\ \A c \in Node : c # n => pending'[c] = pending[c]
  BY <1>0 DEF IInv, TablesOK
<1> HIDE DEF expired, kept
<1>8. \A x \in net : Lookup(x) => Asker(x) \in collected /\ Asker(x) # n
  BY <1>0 DEF RepublishState, LookupOK
<1>9. ASSUME NEW x \in net' \ net
      PROVE  \E k \in kept : /\ x = lookup(k, <<n, hops[k]>>) /\ x.type = "FindNodeReq"
                             /\ x.key = k /\ x.nonce = now /\ Lookup(x) /\ Asker(x) = n
  <2>1. PICK k \in kept : x = lookup(k, <<n, hops[k]>>)
    BY <1>1, <1>9
  <2>2. x.type = "FindNodeReq" /\ x.key = k /\ x.nonce = now /\ x.route = <<n, hops[k]>>
    BY <2>1
  <2>3. Head(<<n, hops[k]>>) = n
    OBVIOUS
  <2>4. Lookup(x) /\ Asker(x) = n
    BY <2>2, <2>3 DEF Lookup, Asker
  <2> QED
    BY <2>1, <2>2, <2>4
<1>10. \A k \in kept : ~Closest(n, k) => LookedFor(n, k)'
  <2> SUFFICES ASSUME NEW k \in kept, ~Closest(n, k)
               PROVE  LookedFor(n, k)'
    OBVIOUS
  <2> DEFINE x == lookup(k, <<n, hops[k]>>)
  <2>1. x \in net'
    BY <1>1
  <2>2. x.type = "FindNodeReq" /\ x.key = k /\ x.route = <<n, hops[k]>>
    OBVIOUS
  <2>3. Head(<<n, hops[k]>>) = n
    OBVIOUS
  <2> HIDE DEF x
  <2>4. Lookup(x) /\ Asker(x) = n
    BY <2>2, <2>3 DEF Lookup, Asker
  <2> QED
    BY <2>1, <2>2, <2>4 DEF LookedFor, Lookup, Asker
<1>11. net \subseteq net'
  BY <1>1
<1> HIDE DEF lookup
<1>12. ASSUME NEW k \in Key, ReachesClosest(k)
       PROVE  ReachesClosest(k)'
  BY <1>4, <1>11, <1>12, ReachesMore
<1>13. ASSUME NEW x \in net'
       PROVE  LookupOK(x)' /\ StoreOK(x)'
  <2>1. CASE x \in net
    <3>1. LookupOK(x) /\ StoreOK(x) /\ x \in Message
      BY <1>2, <2>1 DEF RepublishState
    <3>2. x.type = "StoreReq" => x.key \in Key
      BY <3>1, MessageFields DEF Routed
    <3>3. StoreOK(x)'
      BY <1>12, <3>1, <3>2 DEF StoreOK
    <3>4. CASE ~Lookup(x)
      BY <3>3, <3>4 DEF LookupOK, Lookup
    <3>5. CASE Lookup(x)
      <4>1. Asker(x) # n /\ Asker(x) \in Node /\ Asker(x) \in collected'
        BY <1>0, <1>2, <1>8, <2>1, <3>5
      <4>2. <<x.key, x.nonce>> \in pending'[Asker(x)]
        BY <1>7, <3>1, <3>5, <4>1 DEF LookupOK
      <4>3. \A o \in net' : Lookup(o) /\ Asker(o) = Asker(x) /\ o.key = x.key => o = x
        BY <1>9, <3>1, <3>5, <4>1 DEF LookupOK
      <4> QED
        BY <3>1, <3>3, <3>5, <4>1, <4>2, <4>3 DEF LookupOK, Lookup, Asker, Replicas
    <3> QED
      BY <3>4, <3>5
  <2>2. CASE x \notin net
    <3>1. PICK k \in kept : /\ x = lookup(k, <<n, hops[k]>>) /\ x.type = "FindNodeReq"
                            /\ x.key = k /\ x.nonce = now /\ Lookup(x) /\ Asker(x) = n
      BY <1>9, <2>2
    <3>2. <<x.key, x.nonce>> \in pending'[Asker(x)]
      BY <1>7, <3>1
    <3>3. ASSUME NEW o \in net', Lookup(o), Asker(o) = Asker(x), o.key = x.key
          PROVE  o = x
      <4>1. o \notin net
        BY <1>8, <3>1, <3>3
      <4>2. PICK j \in kept : o = lookup(j, <<n, hops[j]>>) /\ o.key = j
        BY <1>9, <4>1
      <4> QED
        BY <3>1, <3>3, <4>2
    <3> QED
      BY <1>7, <3>1, <3>2, <3>3 DEF LookupOK, Lookup, Asker, StoreOK
  <2> QED
    BY <2>1, <2>2
<1>14. ASSUME NEW p \in collected', NEW k \in Key, Holds(p, k)'
       PROVE  HeldOK(p, k)'
  <2>1. CASE p = n
    <3>1. k \in kept /\ Fresh(n, k)'
      BY <1>4, <1>5, <1>6, <1>14, <2>1
    <3>2. CASE Closest(n, k)
      <4>1. ClosestOfAll(n, k)
        BY <1>14, <3>2, ClosestIsClosest
      <4>2. ASSUME NEW c \in Node, ClosestOfAll(c, k)
            PROVE  c = n
        <5>1. k \in Target /\ Distance[c][k] \in Nat /\ Distance[n][k] \in Nat
          BY <1>14, <4>2, DHTAssumption DEF Target
        <5>2. Distance[c][k] <= Distance[n][k] /\ Distance[n][k] <= Distance[c][k]
          BY <4>1, <4>2 DEF ClosestOfAll
        <5>3. Distance[c][k] = Distance[n][k]
          BY <5>1, <5>2
        <5> QED
          BY <4>2, <5>1, <5>3, DHTAssumption
      <4>3. ReachesClosest(k)'
        BY <3>1, <4>2 DEF ReachesClosest, ClosestOfAll, Reaches
      <4> QED
        BY <2>1, <3>1, <4>3 DEF HeldOK
    <3>3. CASE ~Closest(n, k)
      BY <1>10, <2>1, <3>1, <3>3 DEF HeldOK
    <3> QED
      BY <3>2, <3>3
  <2>2. CASE p # n
    <3>1. p \in collected /\ p \in Node /\ Holds(p, k)
      BY <1>0, <1>2, <1>5, <1>14, <2>2
    <3>2. HeldOK(p, k) /\ Fresh(p, k)'
      BY <1>4, <3>1 DEF RepublishState, HeldOK
    <3>3. LookedFor(p, k) => LookedFor(p, k)'
      BY <1>11 DEF LookedFor, Lookup, Asker
    <3> QED
      BY <1>12, <3>2, <3>3 DEF HeldOK
  <2> QED
    BY <2>1, <2>2
<1> QED
  BY <1>13, <1>14 DEF RepublishState

(* A timeout after the last answer has come.                               *)
LEMMA HandleTimeoutRepublish ==
  ASSUME IInv, RepublishState, NEW n, HandleTimeout(n), \A m \in net : ~Lookup(m)
  PROVE  RepublishState'
<1>1. UNCHANGED <<now, values, accessed, collected, net>>
  BY DEF HandleTimeout
<1>2. \A k \in Key : ReachesClosest(k) => ReachesClosest(k)'
  BY <1>1, FreshSame, ReachesMore
<1>3. ASSUME NEW m \in net
      PROVE  LookupOK(m)' /\ StoreOK(m)'
  <2>1. LookupOK(m)'
    BY DEF LookupOK, Lookup
  <2>2. StoreOK(m) /\ (m.type = "StoreReq" => m.key \in Key)
    BY NetTyped, MessageFields DEF RepublishState, Routed
  <2> QED
    BY <1>2, <2>1, <2>2 DEF StoreOK
<1>4. ASSUME NEW p \in collected, NEW k \in Key, Holds(p, k)'
      PROVE  HeldOK(p, k)'
  <2>1. p \in Node
    BY NetTyped
  <2>2. HeldOK(p, k) /\ Fresh(p, k)'
    BY <1>1, <1>4, <2>1, FreshSame DEF RepublishState, HeldOK
  <2>3. ~LookedFor(p, k)
    BY DEF LookedFor
  <2> QED
    BY <1>2, <2>2, <2>3 DEF HeldOK
<1> QED
  BY <1>1, <1>3, <1>4 DEF RepublishState

LEMMA StepRepublish ==
  ASSUME IInv, CalmOK, RepublishInv, [Next]_vars
  PROVE  RepublishInv'
<1> SUFFICES ASSUME calm', Complete' PROVE RepublishState'
  BY DEF RepublishInv
<1>1. CASE Tick
  BY <1>1 DEF Tick, RepublishState
<1>2. CASE \/ \E n, d, k, v : ClientStore(n, d, k, v)
           \/ \E m : Lose(m)
           \/ \E n : Restart(n)
           \/ \E n, c : ContactNew(n, c) \/ ContactLost(n, c)
  BY <1>2 DEF ClientStore, Lose, Restart, ContactNew, ContactLost
<1>3. ASSUME UNCHANGED <<contacts, calm>>
      PROVE  Complete /\ RepublishState
  BY <1>3 DEF Complete, RepublishInv
<1>4. ASSUME NEW n, HandleTimeout(n)
      PROVE  RepublishState'
  <2>1. contacts' = contacts /\ calm' = (calm /\ \A m \in net : m.type \notin {"FindNodeReq", "FindNodeRsp"})
    BY <1>4 DEF HandleTimeout
  <2>2. calm /\ \A m \in net : ~Lookup(m)
    BY <2>1, Zenon DEF Lookup
  <2>3. RepublishState
    BY <2>1, <2>2 DEF Complete, RepublishInv
  <2> QED
    BY <1>4, <2>2, <2>3, HandleTimeoutRepublish
<1>5. ASSUME NEW m \in net, \/ HandleStoreReq(m) \/ HandleFetchReq(m) \/ HandleFindNodeReq(m)
                            \/ HandleFindNodeRsp(m) \/ HandleClientRsp(m)
      PROVE  RepublishState'
  <2>1. UNCHANGED <<contacts, calm>>
    <3>1. CASE HandleStoreReq(m)
      BY <3>1 DEF HandleStoreReq
    <3>2. CASE HandleFetchReq(m)
      BY <3>2 DEF HandleFetchReq
    <3>3. CASE HandleFindNodeReq(m)
      BY <3>3 DEF HandleFindNodeReq
    <3>4. CASE HandleFindNodeRsp(m)
      BY <3>4, Zenon DEF HandleFindNodeRsp
    <3>5. CASE HandleClientRsp(m)
      BY <3>5 DEF HandleClientRsp
    <3> QED
      BY <1>5, <3>1, <3>2, <3>3, <3>4, <3>5
  <2> QED
    BY <1>3, <1>5, <2>1, HandleStoreReqRepublish, HandleFetchReqRepublish,
       HandleFindNodeReqRepublish, HandleFindNodeRspRepublish, HandleClientRspRepublish
<1>6. ASSUME NEW n \in Node, GarbageCollection(n)
      PROVE  RepublishState'
  <2>1. UNCHANGED <<contacts, calm>>
    BY <1>6 DEF GarbageCollection
  <2> QED
    BY <1>3, <1>6, <2>1, GarbageCollectionRepublish
<1>7. ASSUME NEW n, NEW k, ClientFetch(n, k)
      PROVE  RepublishState'
  <2>1. UNCHANGED <<contacts, calm>>
    BY <1>7 DEF ClientFetch
  <2> QED
    BY <1>3, <1>7, <2>1, ClientFetchRepublish
<1>8. CASE UNCHANGED vars
  <2>1. UNCHANGED <<now, contacts, values, accessed, pending, collected, net, calm>>
    BY <1>8 DEF vars
  <2> QED
    BY <1>3, <2>1, FreshSame, NetTyped, QuietRepublish
<1>9. CASE Next
  BY <1>1, <1>2, <1>4, <1>5, <1>6, <1>7, <1>9, Zenon DEF Next
<1> QED
  BY <1>8, <1>9

(* A calm tick brings every key that is still held to the node closest to  *)
(* it, for every number of nodes and keys and in whichever order the nodes *)
(* collect their garbage.                                                  *)
THEOREM RepublishAlwaysReachesClosest == Spec => []RepublishReachesClosest
<1> DEFINE Inv == IInv /\ CalmOK /\ RepublishInv
<1>1. Init => Inv
  <2>1. Init => CalmOK /\ RepublishInv
    BY DEF Init, CalmOK, RepublishInv, RepublishState
  <2> QED
    BY <2>1, InitIInv
<1>2. Inv /\ [Next]_vars => Inv'
  BY StepIInv, StepCalm, StepRepublish
<1>3. Inv => RepublishReachesClosest
  <2> SUFFICES ASSUME IInv, RepublishInv, calm, Complete, collected = Node, net = {},
                      NEW n \in Node, NEW c \in Node, NEW k \in Key, Holds(n, k), ClosestOfAll(c, k)
               PROVE  Holds(c, k)
    BY DEF RepublishReachesClosest
  <2>1. HeldOK(n, k)
    BY DEF RepublishInv, RepublishState
  <2>2. Reaches(c, k)
    BY <2>1 DEF HeldOK, LookedFor, ReachesClosest
  <2> QED
    BY <2>2 DEF Reaches, Fresh
<1> QED
  BY <1>1, <1>2, <1>3, PTL DEF Spec
==============================================================================
