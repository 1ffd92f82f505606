--------------------------- MODULE UnderlayObserver ---------------------------
(***************************************************************************)
(* The tasks of one daemon between the kernel and R2/KAD (kira-lib): the   *)
(* observer with its UnderlayInformationBase, which turns link messages    *)
(* of the kernel into UnderlayNeighborUpdates and gives every neighbour    *)
(* address on an interface an UnderlayNeighborId; the receiver, which      *)
(* registers the source of a datagram before it passes the message on; the *)
(* sender, which looks the id up again; and the R2/KAD task, which reads   *)
(* updates and messages from two channels.  The tasks only meet in these   *)
(* channels, so an id may be outdated wherever it waits in one.            *)
(***************************************************************************)
EXTENDS Naturals, Sequences, FiniteSets

CONSTANTS Interface,  \* the interfaces of the daemon
          Address,    \* the neighbours, each known by one address on every link
          MaxCid,     \* the greatest ConnectionId: u32::MAX
          NoUlnid,    \* stands for "no UnderlayNeighborId"
          NoNeighbor, \* stands for "no UnderlayNeighbor"
          MaxUpdates, \* bound: updates on their way to R2/KAD
          MaxInbox,   \* buffer_size::RECV_MESSAGE, and the message being received
          MaxOutbox,  \* buffer_size::SEND_MESSAGE
          MaxLinkUps  \* bound: how often links come up

Cid == 0 .. MaxCid
Ulnid == Interface \X Cid
Neighbor == Interface \X Address

ASSUME ObserverAssumption ==
  /\ IsFiniteSet(Address) /\ MaxCid \in Nat \ {0} /\ Cardinality(Address) <= MaxCid
  /\ NoUlnid \notin Ulnid /\ NoNeighbor \notin Neighbor
  /\ MaxUpdates \in Nat /\ MaxInbox \in Nat /\ MaxOutbox \in Nat /\ MaxLinkUps \in Nat

VARIABLES
  observing,  \* no assertion of the UnderlayInformationBase has failed
  available,  \* SUBSET Interface: the keys of interfaces
  nextCid,    \* [Interface -> Cid]: next_cid of an InterfaceState
  conns,      \* [Interface -> SUBSET Cid]: neighbors of an InterfaceState
  neighbors,  \* [Ulnid -> Neighbor]: neighbors
  ids,        \* [Neighbor -> Ulnid]: neighbor_ids
  updates,    \* UnderlayNeighborUpdates from the observer to R2/KAD
  inbox,      \* messages from the receiver to R2/KAD
  outbox,     \* ULNDiscReqs from R2/KAD to the sender
  asked,      \* the neighbours that have got a ULNDiscReq and will answer it
  running,    \* R2/KAD has not panicked
  interfaces, \* SUBSET Interface: the interfaces VicinityDiscovery knows to be up
  via,        \* [Address -> Ulnid]: uln_table
  linkUps     \* how often links may still come up

baseVars  == <<observing, available, nextCid, conns, neighbors, ids>>
r2kadVars == <<running, interfaces, via>>
vars      == <<observing, available, nextCid, conns, neighbors, ids, updates, inbox, outbox,
               asked, running, interfaces, via, linkUps>>

Update == [type : {"InterfaceUp", "InterfaceDown"}, interface : Interface]
          \cup [type : {"UnderlayNeighborDown"}, ulnid : Ulnid]

(* UnderlayInformationBase::default, a new R2Kad and empty channels.       *)
Init ==
  /\ observing = TRUE /\ running = TRUE
  /\ available = {} /\ interfaces = {} /\ asked = {}
  /\ nextCid = [i \in Interface |-> 0]
  /\ conns = [i \in Interface |-> {}]
  /\ neighbors = [u \in Ulnid |-> NoNeighbor]
  /\ ids = [b \in Neighbor |-> NoUlnid]
  /\ updates = <<>> /\ inbox = <<>> /\ outbox = <<>>
  /\ via = [p \in Address |-> NoUlnid]
  /\ linkUps = MaxLinkUps

-----------------------------------------------------------------------------
(* The observer *)

InterfaceUpdate(type, i) == [type |-> type, interface |-> i]

(* NewLink with the interface up: interface_up.  For an interface that is  *)
(* available already nothing happens.                                      *)
LinkUp(i) ==
  /\ observing /\ i \notin available /\ linkUps > 0
  /\ Len(updates) < MaxUpdates
  /\ available' = available \cup {i}
  /\ nextCid' = [nextCid EXCEPT ![i] = 0]
  /\ conns' = [conns EXCEPT ![i] = {}]
  /\ updates' = Append(updates, InterfaceUpdate("InterfaceUp", i))
  /\ linkUps' = linkUps - 1
  /\ UNCHANGED <<observing, neighbors, ids, inbox, outbox, asked, r2kadVars>>

(* The orders in which the elements of S can come out of a hash set.       *)
Orders(S) == {s \in [1 .. Cardinality(S) -> S] : {s[k] : k \in DOMAIN s} = S}

(* UnderlayNeighborDown for the connections of an interface.               *)
ConnectionsDown(i, s) ==
  [k \in DOMAIN s |-> [type |-> "UnderlayNeighborDown", ulnid |-> <<i, s[k]>>]]

(* Mutant: the neighbours keep their ids.                                  *)
LinkDownKeepsIds(i) ==
  /\ observing /\ i \in available
  /\ Len(updates) + 1 + Cardinality(conns[i]) <= MaxUpdates
  /\ available' = available \ {i}
  /\ neighbors' = [u \in Ulnid |-> IF u[1] = i THEN NoNeighbor ELSE neighbors[u]]
  /\ nextCid' = [nextCid EXCEPT ![i] = 0]
  /\ conns' = [conns EXCEPT ![i] = {}]
  /\ \E s \in Orders(conns[i]) :
       updates' = (updates \o <<InterfaceUpdate("InterfaceDown", i)>>) \o ConnectionsDown(i, s)
  /\ UNCHANGED <<observing, ids, inbox, outbox, asked, linkUps, r2kadVars>>

(* Mutant: an interface without neighbours goes down silently.             *)
LinkDownQuietly(i) ==
  LET lost == {u \in Ulnid : u[1] = i /\ u[2] \in conns[i]}
  IN  /\ observing /\ i \in available
      /\ Len(updates) + 1 + Cardinality(conns[i]) <= MaxUpdates
      /\ available' = available \ {i}
      /\ neighbors' = [u \in Ulnid |-> IF u \in lost THEN NoNeighbor ELSE neighbors[u]]
      /\ ids' = [b \in Neighbor |-> IF ids[b] \in lost THEN NoUlnid ELSE ids[b]]
      /\ nextCid' = [nextCid EXCEPT ![i] = 0]
      /\ conns' = [conns EXCEPT ![i] = {}]
      /\ \E s \in Orders(conns[i]) :
           updates' = IF conns[i] = {} THEN updates
                      ELSE (updates \o <<InterfaceUpdate("InterfaceDown", i)>>) \o ConnectionsDown(i, s)
      /\ UNCHANGED <<observing, inbox, outbox, asked, linkUps, r2kadVars>>

(* NewLink with the interface down: interface_down forgets the interface   *)
(* and its neighbours, then R2/KAD is told about the interface and every   *)
(* neighbour.  It gives up early or asserts unless both maps know all the  *)
(* connections of the interface.                                           *)
LinkDown(i) ==
  LET lost == {u \in Ulnid : u[1] = i /\ u[2] \in conns[i]}
      ok   == \A u \in lost : neighbors[u] # NoNeighbor /\ ids[neighbors[u]] = u
  IN  /\ observing /\ i \in available
      /\ Len(updates) + 1 + Cardinality(conns[i]) <= MaxUpdates
      /\ observing' = ok
      /\ available' = available \ {i}
      /\ neighbors' = [u \in Ulnid |-> IF u \in lost THEN NoNeighbor ELSE neighbors[u]]
      /\ ids' = [b \in Neighbor |-> IF \E u \in lost : neighbors[u] = b THEN NoUlnid ELSE ids[b]]
      /\ nextCid' = [nextCid EXCEPT ![i] = 0]
      /\ conns' = [conns EXCEPT ![i] = {}]
      /\ \E s \in Orders(conns[i]) :
           updates' = (updates \o <<InterfaceUpdate("InterfaceDown", i)>>) \o ConnectionsDown(i, s)
      /\ UNCHANGED <<inbox, outbox, asked, linkUps, r2kadVars>>

(* Mutant: the next ConnectionId is computed but not stored.               *)
NextCidNotStored(c) == c

(* next_cid.checked_add(1).unwrap_or(1)                                    *)
NextCid(c) == IF c = MaxCid THEN 1 ELSE c + 1

(* register_neighbor for an unknown neighbour of an available interface;   *)
(* an id that is in use fails the assertion.                               *)
RegisterNew(b) ==
  LET i == b[1]
      u == <<i, nextCid[i]>>
  IN  /\ observing' = (neighbors[u] = NoNeighbor /\ nextCid[i] \notin conns[i])
      /\ neighbors' = [neighbors EXCEPT ![u] = b]
      /\ ids' = [ids EXCEPT ![b] = u]
      /\ conns' = [conns EXCEPT ![i] = @ \cup {nextCid[i]}]
      /\ nextCid' = [nextCid EXCEPT ![i] = NextCid(@)]
      /\ UNCHANGED available

-----------------------------------------------------------------------------
(* The receiver and the sender *)

(* UdpReceiver::recv: the source of a datagram is registered and R2/KAD    *)
(* gets the message with its id.  A ULNDiscRsp answers a ULNDiscReq, the   *)
(* neighbours send the others as they like.  Without the interface the     *)
(* message is dropped.                                                     *)
Receive(i, p, type) ==
  LET b == <<i, p>>
  IN  /\ observing /\ i \in available
      /\ Len(inbox) < MaxInbox
      /\ type = "DiscRsp" => b \in asked
      /\ IF ids[b] # NoUlnid THEN UNCHANGED baseVars ELSE RegisterNew(b)
      /\ inbox' = IF observing' THEN Append(inbox, [type |-> type, from |-> p, ulnid |-> ids'[b]])
                                ELSE inbox
      /\ asked' = IF type = "DiscRsp" THEN asked \ {b} ELSE asked
      /\ UNCHANGED <<updates, outbox, r2kadVars, linkUps>>

(* UdpSender::send_message: an id that is not registered any more is an    *)
(* error that is only logged; otherwise the datagram goes to whoever has   *)
(* the id now, and only the intended node takes it for its own.            *)
Send ==
  /\ observing /\ outbox # <<>>
  /\ LET m == Head(outbox)
     IN  asked' = IF neighbors[m.ulnid] = <<m.ulnid[1], m.to>>
                  THEN asked \cup {neighbors[m.ulnid]} ELSE asked
  /\ outbox' = Tail(outbox)
  /\ UNCHANGED <<baseVars, updates, inbox, r2kadVars, linkUps>>

-----------------------------------------------------------------------------
(* R2/KAD *)

(* VicinityDiscovery and FailureHandling on an update.                     *)
HandleUpdate ==
  /\ running /\ updates # <<>>
  /\ LET e == Head(updates)
     IN  /\ interfaces' = IF e.type = "InterfaceUp" THEN interfaces \cup {e.interface}
                          ELSE IF e.type = "InterfaceDown" THEN interfaces \ {e.interface}
                          ELSE interfaces
         /\ via' = IF e.type = "UnderlayNeighborDown"
                   THEN [p \in Address |-> IF via[p] = e.ulnid THEN NoUlnid ELSE via[p]]
                   ELSE via
  /\ updates' = Tail(updates)
  /\ UNCHANGED <<baseVars, inbox, outbox, asked, running, linkUps>>

(* A message of an interface that VicinityDiscovery knows to be up.  Its   *)
(* ULNHello may be answered, which depends on more than is modelled here.  *)
HandleHello(m) ==
  /\ via' = [via EXCEPT ![m.from] = IF @ = NoUlnid THEN m.ulnid ELSE @]
  /\ \/ UNCHANGED outbox
     \/ /\ Len(outbox) < MaxOutbox
        /\ outbox' = Append(outbox, [to |-> m.from, ulnid |-> m.ulnid])
  /\ UNCHANGED running

HandleDiscReq(m) ==
  /\ via' = [via EXCEPT ![m.from] = m.ulnid]
  /\ UNCHANGED <<running, outbox>>

(* confirm() panics unless the node is mapped to this id.                  *)
HandleDiscRsp(m) ==
  /\ running' = (via[m.from] = m.ulnid)
  /\ UNCHANGED <<via, outbox>>

HandleMessage ==
  /\ running /\ inbox # <<>>
  /\ LET m == Head(inbox)
     IN  IF m.ulnid[1] \notin interfaces THEN UNCHANGED <<running, via, outbox>>
         ELSE \/ m.type = "Hello" /\ HandleHello(m)
              \/ m.type = "DiscReq" /\ HandleDiscReq(m)
              \/ m.type = "DiscRsp" /\ HandleDiscRsp(m)
  /\ inbox' = Tail(inbox)
  /\ UNCHANGED <<baseVars, updates, asked, interfaces, linkUps>>

(* A ULNDiscReq by schedule_syncs or a retry, over the id of the table.    *)
Resend(p) ==
  /\ running /\ via[p] # NoUlnid /\ Len(outbox) < MaxOutbox
  /\ outbox' = Append(outbox, [to |-> p, ulnid |-> via[p]])
  /\ UNCHANGED <<baseVars, updates, inbox, asked, r2kadVars, linkUps>>

(* A contact that could not be rediscovered leaves the uln_table.          *)
ContactDead(p) ==
  /\ running /\ via[p] # NoUlnid
  /\ via' = [via EXCEPT ![p] = NoUlnid]
  /\ UNCHANGED <<baseVars, updates, inbox, outbox, asked, running, interfaces, linkUps>>

Next ==
  \/ \E i \in Interface : LinkUp(i) \/ LinkDown(i)
  \/ \E i \in Interface, p \in Address, type \in {"Hello", "DiscReq", "DiscRsp"} :
       Receive(i, p, type)
  \/ Send
  \/ HandleUpdate
  \/ HandleMessage
  \/ \E p \in Address : Resend(p) \/ ContactDead(p)

Spec == Init /\ [][Next]_vars

-----------------------------------------------------------------------------
(* Properties *)

(* The three maps of the UnderlayInformationBase agree: ids and neighbours *)
(* are inverse to each other, and an interface that is available lists     *)
(* exactly its connections.  register_neighbor, interface_down and         *)
(* get_information assert or expect parts of this.                         *)
BaseConsistent ==
  /\ \A u \in Ulnid : neighbors[u] # NoNeighbor => neighbors[u][1] = u[1] /\ ids[neighbors[u]] = u
  /\ \A b \in Neighbor : ids[b] # NoUlnid => neighbors[ids[b]] = b
  /\ \A i \in Interface, c \in Cid :
       c \in conns[i] <=> i \in available /\ neighbors[<<i, c>>] # NoNeighbor

(* No assertion of the UnderlayInformationBase fails, in particular not    *)
(* the one against a collision of ids, across any number of links that go  *)
(* down and come up: every life of an interface numbers its neighbours     *)
(* from 0 and there are not more of them than ConnectionIds.               *)
NeverCollides == observing

(* The updates on their way lead R2/KAD to the interfaces that are         *)
(* available now: for every interface the last one of them, or what R2/KAD *)
(* knows already, is true.                                                 *)
InterfacesCatchUp ==
  \A i \in Interface :
    LET about == {k \in DOMAIN updates : /\ updates[k].type \in {"InterfaceUp", "InterfaceDown"}
                                         /\ updates[k].interface = i}
        last  == CHOOSE k \in about : \A j \in about : j <= k
    IN  i \in available <=> IF about = {} THEN i \in interfaces
                                          ELSE updates[last].type = "InterfaceUp"

===============================================================================
