------------------------ MODULE UnderlayObserver_proof ------------------------
(***************************************************************************)
(* Proofs that the UnderlayInformationBase stays consistent and that none  *)
(* of its assertions fails, for any number of interfaces, neighbours and   *)
(* links going up and down.                                                *)
(*                                                                         *)
(* The inductive invariant counts: the ConnectionIds of an interface are   *)
(* those below next_cid, and next_cid is the number of addresses that are  *)
(* registered on it.  As there are at most MaxCid addresses, next_cid      *)
(* never wraps around and is always free.  The interfaces the use cases    *)
(* know catch up with those of the base because an event that is yet to be *)
(* delivered accounts for every difference, the last one of an interface   *)
(* for its state now.                                                      *)
(***************************************************************************)
EXTENDS UnderlayObserver, FiniteSetTheorems, SequenceTheorems, TLAPS

(* The addresses registered on an interface.                               *)
Registered(i) == {p \in Address : ids[<<i, p>>] # NoUlnid}

BaseType ==
  /\ available \subseteq Interface
  /\ nextCid \in [Interface -> Cid]
  /\ conns \in [Interface -> SUBSET Cid]
  /\ neighbors \in [Ulnid -> Neighbor \cup {NoNeighbor}]
  /\ ids \in [Neighbor -> Ulnid \cup {NoUlnid}]

Numbered ==
  \A i \in Interface :
    /\ conns[i] = {c \in Cid : c < nextCid[i]}
    /\ Cardinality(Registered(i)) = nextCid[i]
    /\ i \notin available => nextCid[i] = 0

BaseInv == observing = TRUE /\ BaseType /\ BaseConsistent /\ Numbered

USE DEF Ulnid, Neighbor, Cid

(* The numbering of an interface is below MaxCid as long as an address is  *)
(* missing: register_neighbor finds next_cid free and need not wrap.       *)
LEMMA RoomForOneMore ==
  ASSUME BaseInv, NEW i \in Interface, NEW p \in Address, ids[<<i, p>>] = NoUlnid
  PROVE  /\ nextCid[i] + 1 <= MaxCid
         /\ Cardinality(Registered(i) \cup {p}) = nextCid[i] + 1
<1>1. IsFiniteSet(Registered(i)) /\ Registered(i) \cup {p} \subseteq Address
  BY FS_Subset, ObserverAssumption DEF Registered
<1>2. p \notin Registered(i)
  BY DEF Registered
<1>3. Cardinality(Registered(i) \cup {p}) = nextCid[i] + 1
  BY <1>1, <1>2, FS_AddElement, ZenonT(30) DEF BaseInv, Numbered
<1>4. Cardinality(Registered(i) \cup {p}) <= Cardinality(Address)
  BY <1>1, FS_Subset, ObserverAssumption
<1>5. Cardinality(Address) \in Nat /\ nextCid[i] \in Nat
  BY FS_CardinalityType, ObserverAssumption DEF BaseInv, BaseType
<1> QED
  BY <1>3, <1>4, <1>5, ObserverAssumption

(* UnderlayInformationBase::default is consistent.                         *)
LEMMA InitBase == Init => BaseInv
<1> SUFFICES ASSUME Init PROVE BaseInv
  OBVIOUS
<1>1. BaseType
  BY ObserverAssumption DEF Init, BaseType
<1>2. BaseConsistent
  BY ObserverAssumption DEF Init, BaseConsistent
<1>3. \A i \in Interface : Registered(i) = {}
  BY DEF Init, Registered
<1>4. \A i \in Interface : Cardinality(Registered(i)) = 0
  BY <1>3, FS_EmptySet
<1>5. {c \in Cid : c < 0} = {}
  BY ObserverAssumption
<1>6. Numbered
  BY <1>4, <1>5 DEF Init, Numbered
<1> QED
  BY <1>1, <1>2, <1>6 DEF BaseInv, Init

(* interface_up.                                                           *)
LEMMA LinkUpBase ==
  ASSUME BaseInv, NEW i \in Interface, LinkUp(i)
  PROVE  BaseInv'
<1>1. nextCid' = nextCid /\ conns' = conns
  BY ObserverAssumption DEF LinkUp, BaseInv, BaseType, Numbered
<1>2. BaseType'
  BY <1>1 DEF LinkUp, BaseInv, BaseType
<1>3. \A c \in Cid : neighbors[<<i, c>>] = NoNeighbor
  <2> SUFFICES ASSUME NEW c \in Cid, neighbors[<<i, c>>] # NoNeighbor PROVE FALSE
    OBVIOUS
  <2> DEFINE b == neighbors[<<i, c>>]
  <2>1. b \in Neighbor /\ b[1] = i /\ ids[b] = <<i, c>>
    BY ZenonT(30) DEF BaseInv, BaseType, BaseConsistent
  <2>2. b[2] \in Registered(i)
    BY <2>1, ObserverAssumption DEF Registered
  <2>3. IsFiniteSet(Registered(i))
    BY FS_Subset, ObserverAssumption DEF Registered
  <2>4. Cardinality(Registered(i)) = 0
    BY DEF BaseInv, Numbered, LinkUp
  <2> QED
    BY <2>2, <2>3, <2>4, FS_EmptySet
<1>4. BaseConsistent'
  BY <1>1, <1>3 DEF LinkUp, BaseInv, BaseConsistent
<1>5. Numbered'
  BY <1>1 DEF LinkUp, BaseInv, Numbered, Registered
<1> QED
  BY <1>2, <1>4, <1>5 DEF LinkUp, BaseInv

(* interface_down: its assertion holds and all traces of the interface     *)
(* disappear.                                                              *)
LEMMA LinkDownBase ==
  ASSUME BaseInv, NEW i \in Interface, LinkDown(i)
  PROVE  BaseInv'
<1> DEFINE lost == {u \in Ulnid : u[1] = i /\ u[2] \in conns[i]}
<1>1. \A u \in lost : neighbors[u] # NoNeighbor /\ ids[neighbors[u]] = u
  BY DEF BaseInv, BaseType, BaseConsistent
<1>2. \A u \in Ulnid : u[1] = i /\ neighbors[u] # NoNeighbor => u \in lost
  BY DEF BaseInv, BaseConsistent, LinkDown
<1>3. observing' = TRUE
  BY <1>1 DEF LinkDown
<1>4. /\ neighbors' = [u \in Ulnid |-> IF u[1] = i THEN NoNeighbor ELSE neighbors[u]]
      /\ ids' = [b \in Neighbor |-> IF b[1] = i THEN NoUlnid ELSE ids[b]]
  <2>1. \A u \in Ulnid : (IF u \in lost THEN NoNeighbor ELSE neighbors[u])
                         = (IF u[1] = i THEN NoNeighbor ELSE neighbors[u])
    BY <1>2
  <2>2. \A b \in Neighbor : (IF \E u \in lost : neighbors[u] = b THEN NoUlnid ELSE ids[b])
                            = (IF b[1] = i THEN NoUlnid ELSE ids[b])
    <3> SUFFICES ASSUME NEW b \in Neighbor
                 PROVE  /\ b[1] = i /\ ids[b] # NoUlnid => \E u \in lost : neighbors[u] = b
                        /\ (\E u \in lost : neighbors[u] = b) => b[1] = i
      OBVIOUS
    <3>1. ASSUME b[1] = i, ids[b] # NoUlnid PROVE \E u \in lost : neighbors[u] = b
      <4>1. ids[b] \in Ulnid /\ neighbors[ids[b]] = b
        BY <3>1 DEF BaseInv, BaseType, BaseConsistent
      <4>2. b # NoNeighbor
        BY ObserverAssumption
      <4>3. ids[b][1] = i
        BY <3>1, <4>1, <4>2 DEF BaseInv, BaseConsistent
      <4> QED
        BY <1>2, <4>1, <4>2, <4>3
    <3>2. ASSUME NEW u \in lost, neighbors[u] = b PROVE b[1] = i
      BY <1>1, <3>2 DEF BaseInv, BaseConsistent
    <3> QED
      BY <3>1, <3>2
  <2> QED
    BY <2>1, <2>2 DEF LinkDown
<1>5. /\ available' = available \ {i}
      /\ nextCid' = [nextCid EXCEPT ![i] = 0] /\ conns' = [conns EXCEPT ![i] = {}]
  BY DEF LinkDown
<1>6. BaseType'
  BY <1>4, <1>5, ObserverAssumption DEF BaseInv, BaseType
<1>7. BaseConsistent'
  <2>1. ASSUME NEW u \in Ulnid, neighbors'[u] # NoNeighbor
        PROVE  neighbors'[u][1] = u[1] /\ ids'[neighbors'[u]] = u
    BY <1>4, <2>1 DEF BaseInv, BaseType, BaseConsistent
  <2>2. ASSUME NEW b \in Neighbor, ids'[b] # NoUlnid PROVE neighbors'[ids'[b]] = b
    <3>1. b[1] # i /\ ids[b] \in Ulnid /\ ids'[b] = ids[b] /\ neighbors[ids[b]] = b
      BY <1>4, <2>2 DEF BaseInv, BaseType, BaseConsistent
    <3>2. b # NoNeighbor
      BY ObserverAssumption
    <3>3. ids[b][1] # i
      BY <3>1, <3>2 DEF BaseInv, BaseConsistent
    <3> QED
      BY <1>4, <3>1, <3>3
  <2>3. ASSUME NEW j \in Interface, NEW c \in Cid
        PROVE  c \in conns'[j] <=> j \in available' /\ neighbors'[<<j, c>>] # NoNeighbor
    BY <1>4, <1>5 DEF BaseInv, BaseType, BaseConsistent
  <2> QED
    BY <2>1, <2>2, <2>3 DEF BaseConsistent
<1>8. Numbered'
  <2> SUFFICES ASSUME NEW j \in Interface
               PROVE  /\ conns'[j] = {c \in Cid : c < nextCid'[j]}
                      /\ Cardinality(Registered(j)') = nextCid'[j]
                      /\ j \notin available' => nextCid'[j] = 0
    BY DEF Numbered
  <2>1. CASE j = i
    <3>1. Registered(j)' = {}
      BY <1>4, <2>1 DEF Registered
    <3> QED
      BY <1>5, <2>1, <3>1, FS_EmptySet DEF BaseInv, BaseType
  <2>2. CASE j # i
    <3>1. Registered(j)' = Registered(j)
      BY <1>4, <2>2 DEF Registered
    <3> QED
      BY <1>5, <2>2, <3>1 DEF BaseInv, BaseType, Numbered
  <2> QED
    BY <2>1, <2>2
<1> QED
  BY <1>3, <1>6, <1>7, <1>8 DEF BaseInv

(* register_neighbor of an unknown neighbour: next_cid is free.            *)
LEMMA RegisterBase ==
  ASSUME BaseInv, NEW i \in Interface, NEW p \in Address, i \in available,
         ids[<<i, p>>] = NoUlnid, RegisterNew(<<i, p>>)
  PROVE  BaseInv'
<1> DEFINE b == <<i, p>>
           u == <<i, nextCid[i]>>
<1>1. nextCid[i] \in Nat /\ nextCid[i] + 1 <= MaxCid /\ NextCid(nextCid[i]) = nextCid[i] + 1
  <2>1. nextCid[i] \in Cid
    BY DEF BaseInv, BaseType
  <2>2. nextCid[i] + 1 <= MaxCid
    BY RoomForOneMore
  <2> QED
    BY <2>1, <2>2, ObserverAssumption DEF NextCid
<1>2. nextCid[i] \notin conns[i] /\ u \in Ulnid /\ b \in Neighbor
  BY <1>1 DEF BaseInv, BaseType, Numbered
<1>3. neighbors[u] = NoNeighbor
  BY <1>1, <1>2 DEF BaseInv, BaseConsistent
<1>4. observing' = TRUE
  BY <1>2, <1>3 DEF RegisterNew
<1>5. /\ neighbors' = [neighbors EXCEPT ![u] = b] /\ ids' = [ids EXCEPT ![b] = u]
      /\ conns' = [conns EXCEPT ![i] = @ \cup {nextCid[i]}]
      /\ nextCid' = [nextCid EXCEPT ![i] = nextCid[i] + 1]
      /\ available' = available
  BY <1>1 DEF RegisterNew
<1>6. BaseType'
  BY <1>1, <1>2, <1>5 DEF BaseInv, BaseType
<1>7. BaseConsistent'
  <2>1. ASSUME NEW v \in Ulnid, neighbors'[v] # NoNeighbor
        PROVE  neighbors'[v][1] = v[1] /\ ids'[neighbors'[v]] = v
    <3>1. CASE v = u
      BY <1>2, <1>5, <3>1 DEF BaseInv, BaseType
    <3>2. CASE v # u
      <4>1. neighbors'[v] = neighbors[v] /\ neighbors[v] \in Neighbor
            /\ neighbors[v][1] = v[1] /\ ids[neighbors[v]] = v
        BY <1>5, <2>1, <3>2 DEF BaseInv, BaseType, BaseConsistent
      <4>2. neighbors[v] # b
        BY <4>1, ObserverAssumption
      <4> QED
        BY <1>5, <4>1, <4>2 DEF BaseInv, BaseType
    <3> QED
      BY <3>1, <3>2
  <2>2. ASSUME NEW d \in Neighbor, ids'[d] # NoUlnid PROVE neighbors'[ids'[d]] = d
    <3>1. CASE d = b
      BY <1>2, <1>5, <3>1 DEF BaseInv, BaseType
    <3>2. CASE d # b
      <4>1. ids'[d] = ids[d] /\ ids[d] \in Ulnid /\ neighbors[ids[d]] = d
        BY <1>5, <2>2, <3>2 DEF BaseInv, BaseType, BaseConsistent
      <4>2. ids[d] # u
        BY <1>3, <4>1, ObserverAssumption
      <4> QED
        BY <1>5, <4>1, <4>2 DEF BaseInv, BaseType
    <3> QED
      BY <3>1, <3>2
  <2>3. ASSUME NEW j \in Interface, NEW c \in Cid
        PROVE  c \in conns'[j] <=> j \in available' /\ neighbors'[<<j, c>>] # NoNeighbor
    <3>1. b # NoNeighbor
      BY <1>2, ObserverAssumption
    <3>2. <<j, c>> \in Ulnid /\ (<<j, c>> = u <=> j = i /\ c = nextCid[i])
      OBVIOUS
    <3>3. neighbors'[<<j, c>>] = IF j = i /\ c = nextCid[i] THEN b ELSE neighbors[<<j, c>>]
      BY <1>5, <3>2 DEF BaseInv, BaseType
    <3>4. c \in conns'[j] <=> c \in conns[j] \/ (j = i /\ c = nextCid[i])
      BY <1>5 DEF BaseInv, BaseType
    <3> QED
      BY <1>5, <3>1, <3>3, <3>4 DEF BaseInv, BaseConsistent
  <2> QED
    BY <2>1, <2>2, <2>3 DEF BaseConsistent
<1>8. Numbered'
  <2> SUFFICES ASSUME NEW j \in Interface
               PROVE  /\ conns'[j] = {c \in Cid : c < nextCid'[j]}
                      /\ Cardinality(Registered(j)') = nextCid'[j]
                      /\ j \notin available' => nextCid'[j] = 0
    BY DEF Numbered
  <2>1. CASE j = i
    <3>1. Registered(j)' = Registered(i) \cup {p}
      BY <1>2, <1>5, <2>1, ObserverAssumption DEF Registered, BaseInv, BaseType
    <3>2. Cardinality(Registered(i) \cup {p}) = nextCid[i] + 1
      BY RoomForOneMore
    <3>3. nextCid'[j] = nextCid[i] + 1 /\ conns'[j] = conns[i] \cup {nextCid[i]}
      BY <1>5, <2>1 DEF BaseInv, BaseType
    <3>4. conns[i] \cup {nextCid[i]} = {c \in Cid : c < nextCid[i] + 1}
      <4>1. conns[i] = {c \in Cid : c < nextCid[i]}
        BY DEF BaseInv, Numbered
      <4>2. \A c \in Cid : c < nextCid[i] + 1 <=> c < nextCid[i] \/ c = nextCid[i]
        BY <1>1, ObserverAssumption
      <4>3. nextCid[i] \in Cid
        BY <1>1, ObserverAssumption
      <4> QED
        BY <4>1, <4>2, <4>3
    <3> QED
      BY <1>5, <2>1, <3>1, <3>2, <3>3, <3>4
  <2>2. CASE j # i
    <3>1. Registered(j)' = Registered(j)
      BY <1>5, <2>2 DEF Registered, BaseInv, BaseType
    <3> QED
      BY <1>5, <2>2, <3>1 DEF BaseInv, BaseType, Numbered
  <2> QED
    BY <2>1, <2>2
<1> QED
  BY <1>4, <1>6, <1>7, <1>8 DEF BaseInv

(* The other steps leave the base alone.                                   *)
LEMMA BaseUntouched == BaseInv /\ UNCHANGED baseVars => BaseInv'
<1> SUFFICES ASSUME BaseInv, UNCHANGED baseVars PROVE BaseInv'
  OBVIOUS
<1>1. BaseType' /\ BaseConsistent'
  BY DEF BaseInv, baseVars, BaseType, BaseConsistent
<1>2. \A i \in Interface : Registered(i)' = Registered(i)
  BY DEF baseVars, Registered
<1>3. Numbered'
  BY <1>2 DEF BaseInv, baseVars, Numbered
<1> QED
  BY <1>1, <1>3 DEF BaseInv, baseVars

(* Every step of every task keeps the base consistent.                     *)
LEMMA NextBase == BaseInv /\ [Next]_vars => BaseInv'
<1> SUFFICES ASSUME BaseInv, [Next]_vars PROVE BaseInv'
  OBVIOUS
<1>1. ASSUME NEW i \in Interface, LinkUp(i) \/ LinkDown(i) PROVE BaseInv'
  BY <1>1, LinkUpBase, LinkDownBase
<1>2. ASSUME NEW i \in Interface, NEW p \in Address, NEW type, Receive(i, p, type) PROVE BaseInv'
  BY <1>2, RegisterBase, BaseUntouched DEF Receive
<1>3. CASE Send \/ HandleUpdate \/ HandleMessage
  BY <1>3, BaseUntouched DEF Send, HandleUpdate, HandleMessage
<1>4. ASSUME NEW p \in Address, Resend(p) \/ ContactDead(p) PROVE BaseInv'
  BY <1>4, BaseUntouched DEF Resend, ContactDead
<1>5. CASE UNCHANGED vars
  BY <1>5, BaseUntouched DEF vars, baseVars
<1> QED
  BY <1>1, <1>2, <1>3, <1>4, <1>5 DEF Next

(* The inductive invariant of the UnderlayInformationBase.                 *)
THEOREM BaseAlways == Spec => []BaseInv
  BY InitBase, NextBase, PTL DEF Spec

(* The three maps of the UnderlayInformationBase stay inverse to each      *)
(* other whatever links go up and down and whoever sends datagrams, so     *)
(* that the lookups of the sender and the receiver agree.                  *)
THEOREM BaseConsistentAlways == Spec => []BaseConsistent
<1>1. BaseInv => BaseConsistent
  BY DEF BaseInv
<1> QED
  BY <1>1, BaseAlways, PTL

(* register_neighbor and interface_down never fail an assertion on a link  *)
(* with at most MaxCid neighbours: "Collision of active underlay neighbor  *)
(* ids" needs more neighbours than a u32 counts.                           *)
THEOREM NeverCollidesAlways == Spec => []NeverCollides
<1>1. BaseInv => NeverCollides
  BY DEF BaseInv, NeverCollides
<1> QED
  BY <1>1, BaseAlways, PTL

-------------------------------------------------------------------------------
(* The updates on their way to R2/KAD.                                     *)

(* The places of the updates on an interface, and the last of them.        *)
Places(i) == {k \in DOMAIN updates : /\ updates[k].type \in {"InterfaceUp", "InterfaceDown"}
                                     /\ updates[k].interface = i}

LastPlace(i, k) == k \in Places(i) /\ \A j \in Places(i) : j <= k

(* What R2/KAD will know about an interface when it has read all updates.  *)
WillBeUp(i) == \/ Places(i) = {} /\ i \in interfaces
               \/ \E k \in Nat : LastPlace(i, k) /\ updates[k].type = "InterfaceUp"

WillBeDown(i) == \/ Places(i) = {} /\ i \notin interfaces
                 \/ \E k \in Nat : LastPlace(i, k) /\ updates[k].type = "InterfaceDown"

UpdatesOK == updates \in Seq(Update)

CatchUpInv ==
  /\ UpdatesOK
  /\ \A i \in Interface : IF i \in available THEN WillBeUp(i) ELSE WillBeDown(i)

(* The updates grow by one on interface i, which may be followed by those  *)
(* on its neighbours: the interfaces are known as before, i as d says.     *)
Grows(i, d) ==
  /\ UpdatesOK' /\ Len(updates') \in Nat /\ Len(updates') > Len(updates)
  /\ \A k \in 1 .. Len(updates) : updates'[k] = updates[k]
  /\ updates'[Len(updates) + 1] = d /\ d.interface = i
  /\ d.type \in {"InterfaceUp", "InterfaceDown"}
  /\ \A k \in Len(updates) + 2 .. Len(updates') : updates'[k].type = "UnderlayNeighborDown"

LEMMA GrowsCatchUp ==
  ASSUME CatchUpInv, NEW i \in Interface, NEW d, Grows(i, d), interfaces' = interfaces,
         available' = IF d.type = "InterfaceUp" THEN available \cup {i} ELSE available \ {i}
  PROVE  CatchUpInv'
<1>0. PICK n \in Nat : n = Len(updates)
  BY DEF CatchUpInv, UpdatesOK
<1>1. n = Len(updates) /\ DOMAIN updates = 1 .. n /\ DOMAIN updates' = 1 .. Len(updates')
  BY <1>0 DEF CatchUpInv, UpdatesOK, Grows
<1>2. ASSUME NEW j \in Interface
      PROVE  Places(j)' = Places(j) \cup (IF j = i THEN {n + 1} ELSE {})
  <2>1. ASSUME NEW k \in 1 .. Len(updates')
        PROVE  /\ updates'[k].type \in {"InterfaceUp", "InterfaceDown"} /\ updates'[k].interface = j
                  <=> k \in Places(j) \/ (j = i /\ k = n + 1)
    <3>1. CASE k \in 1 .. n
      BY <1>1, <3>1 DEF Grows, Places
    <3>2. CASE k = n + 1
      BY <1>1, <3>2 DEF Grows, Places
    <3>3. CASE k \in n + 2 .. Len(updates')
      BY <1>1, <3>3 DEF Grows, Places
    <3> QED
      BY <1>1, <2>1, <3>1, <3>2, <3>3 DEF Grows
  <2>2. Places(j) \subseteq 1 .. Len(updates') /\ n + 1 \in 1 .. Len(updates')
    BY <1>1 DEF Places, Grows
  <2> QED
    BY <1>1, <2>1, <2>2 DEF Places
<1>3. ASSUME NEW j \in Interface, j # i
      PROVE  WillBeUp(j)' = WillBeUp(j) /\ WillBeDown(j)' = WillBeDown(j)
  <2>1. Places(j)' = Places(j) /\ \A k \in Places(j) : updates'[k] = updates[k]
    BY <1>1, <1>2, <1>3 DEF Places, Grows
  <2>2. \A k \in Nat : LastPlace(j, k)' <=> LastPlace(j, k)
    BY <2>1 DEF LastPlace
  <2>3. \A k \in Nat : LastPlace(j, k) => updates'[k] = updates[k]
    BY <2>1 DEF LastPlace
  <2> QED
    BY <2>1, <2>2, <2>3 DEF WillBeUp, WillBeDown
<1>4. LastPlace(i, n + 1)' /\ updates'[n + 1] = d
  <2>1. \A k \in Places(i) : k <= n + 1
    BY <1>1 DEF Places
  <2> QED
    BY <1>1, <1>2, <2>1 DEF LastPlace, Grows
<1>5. IF i \in available' THEN WillBeUp(i)' ELSE WillBeDown(i)'
  BY <1>1, <1>4 DEF WillBeUp, WillBeDown, Grows
<1>6. \A j \in Interface \ {i} : j \in available' <=> j \in available
  BY DEF Grows
<1>7. \A j \in Interface : IF j \in available' THEN WillBeUp(j)' ELSE WillBeDown(j)'
  BY <1>3, <1>5, <1>6 DEF CatchUpInv
<1> QED
  BY <1>7 DEF CatchUpInv, Grows

(* interface_up.                                                           *)
LEMMA LinkUpCatchUp ==
  ASSUME CatchUpInv, NEW i \in Interface, LinkUp(i)
  PROVE  CatchUpInv'
<1> DEFINE d == InterfaceUpdate("InterfaceUp", i)
<1>1. d \in Update /\ d.interface = i /\ d.type = "InterfaceUp"
  BY DEF InterfaceUpdate, Update
<1>2. updates \in Seq(Update) /\ updates' = Append(updates, d)
  BY DEF LinkUp, CatchUpInv, UpdatesOK
<1> HIDE DEF d
<1>3. Grows(i, d)
  BY <1>1, <1>2 DEF Grows, UpdatesOK
<1>4. interfaces' = interfaces /\ available' = available \cup {i}
  BY DEF LinkUp, r2kadVars
<1> QED
  BY <1>1, <1>3, <1>4, GrowsCatchUp

(* interface_down.                                                         *)
LEMMA LinkDownCatchUp ==
  ASSUME BaseInv, CatchUpInv, NEW i \in Interface, LinkDown(i)
  PROVE  CatchUpInv'
<1> DEFINE d == InterfaceUpdate("InterfaceDown", i)
<1>1. d \in Update /\ d.interface = i /\ d.type = "InterfaceDown"
  BY DEF InterfaceUpdate, Update
<1>2. PICK s \in Orders(conns[i]) : updates' = (updates \o <<d>>) \o ConnectionsDown(i, s)
  BY DEF LinkDown
<1>3. ConnectionsDown(i, s) \in Seq(Update)
      /\ \A k \in 1 .. Len(ConnectionsDown(i, s)) : ConnectionsDown(i, s)[k].type = "UnderlayNeighborDown"
  <2>1. conns[i] \subseteq Cid /\ IsFiniteSet(Cid)
    BY FS_Interval, ObserverAssumption DEF BaseInv, BaseType
  <2>2. Cardinality(conns[i]) \in Nat
    BY <2>1, FS_Subset, FS_CardinalityType
  <2>3. s \in [1 .. Cardinality(conns[i]) -> conns[i]]
    BY DEF Orders
  <2>4. \A k \in 1 .. Cardinality(conns[i]) : <<i, s[k]>> \in Ulnid
    BY <2>1, <2>3
  <2> DEFINE c == [k \in 1 .. Cardinality(conns[i]) |->
                     [type |-> "UnderlayNeighborDown", ulnid |-> <<i, s[k]>>]]
  <2>5. c = ConnectionsDown(i, s)
    BY <2>3 DEF ConnectionsDown
  <2>6. \A k \in 1 .. Cardinality(conns[i]) : c[k] \in Update /\ c[k].type = "UnderlayNeighborDown"
    BY <2>4 DEF Update
  <2> HIDE DEF c
  <2>7. DOMAIN c = 1 .. Cardinality(conns[i])
    BY DEF c
  <2>8. c \in Seq(Update) /\ Len(c) = Cardinality(conns[i])
    <3>1. c \in [1 .. Cardinality(conns[i]) -> Update]
      BY <2>6, <2>7 DEF c
    <3> QED
      BY <2>2, <3>1, SeqDef
  <2> QED
    BY <2>5, <2>6, <2>8
<1>4. updates \in Seq(Update)
  BY DEF CatchUpInv, UpdatesOK
<1> DEFINE c == ConnectionsDown(i, s)
<1> HIDE DEF d, c
<1>5. /\ updates \o <<d>> \in Seq(Update) /\ Len(updates \o <<d>>) = Len(updates) + 1
      /\ (updates \o <<d>>)[Len(updates) + 1] = d
      /\ \A k \in 1 .. Len(updates) : (updates \o <<d>>)[k] = updates[k]
  BY <1>1, <1>4
<1> DEFINE a == updates \o <<d>>
<1>6. /\ updates' \in Seq(Update) /\ Len(updates') = Len(a) + Len(c)
      /\ \A k \in 1 .. Len(a) : updates'[k] = a[k]
      /\ \A k \in Len(a) + 1 .. Len(a) + Len(c) : updates'[k] = c[k - Len(a)]
  <2>1. updates' = a \o c /\ a \in Seq(Update) /\ c \in Seq(Update)
    BY <1>2, <1>3, <1>5 DEF c
  <2> HIDE DEF a
  <2> QED
    BY <2>1, ConcatProperties
<1>7. Grows(i, d)
  <2>1. Len(updates) \in Nat /\ Len(c) \in Nat
    BY <1>3, <1>4 DEF c
  <2>2. Len(updates') = Len(updates) + 1 + Len(c)
    BY <1>5, <1>6, <2>1
  <2>3. \A k \in Len(updates) + 2 .. Len(updates') : updates'[k].type = "UnderlayNeighborDown"
    <3> SUFFICES ASSUME NEW k \in Len(updates) + 2 .. Len(updates')
                 PROVE  updates'[k].type = "UnderlayNeighborDown"
      OBVIOUS
    <3>1. k - Len(a) \in 1 .. Len(c) /\ k \in Len(a) + 1 .. Len(a) + Len(c)
      BY <1>5, <2>1, <2>2
    <3>2. c[k - Len(a)].type = "UnderlayNeighborDown"
      BY <1>3, <3>1 DEF c
    <3> QED
      BY <1>6, <3>1, <3>2
  <2> QED
    <3>1. UpdatesOK' /\ Len(updates') \in Nat /\ Len(updates') > Len(updates)
      BY <1>6, <2>1, <2>2 DEF UpdatesOK
    <3>2. \A k \in 1 .. Len(updates) + 1 : updates'[k] = a[k]
      BY <1>5, <1>6
    <3>3. \A k \in 1 .. Len(updates) : updates'[k] = updates[k]
      BY <1>5, <2>1, <3>2
    <3>4. updates'[Len(updates) + 1] = d
      BY <1>5, <2>1, <3>2
    <3> QED
      BY <1>1, <2>3, <3>1, <3>3, <3>4 DEF Grows
<1>8. interfaces' = interfaces /\ available' = available \ {i}
  BY DEF LinkDown, r2kadVars
<1> QED
  BY <1>1, <1>7, <1>8, GrowsCatchUp

(* R2/KAD takes the first update from the channel and acts on it.          *)
LEMMA HandleUpdateCatchUp == ASSUME CatchUpInv, HandleUpdate PROVE CatchUpInv'
<1> DEFINE e == Head(updates)
           n == Len(updates)
<1>1. /\ updates \in Seq(Update) /\ updates # <<>> /\ updates' = Tail(updates)
      /\ available' = available
  BY DEF HandleUpdate, CatchUpInv, UpdatesOK, baseVars
<1>2. /\ n \in Nat \ {0} /\ updates' \in Seq(Update) /\ Len(updates') = n - 1
      /\ \A k \in 1 .. n - 1 : updates'[k] = updates[k + 1]
      /\ e = updates[1] /\ e \in Update
      /\ DOMAIN updates = 1 .. n /\ DOMAIN updates' = 1 .. n - 1
  BY <1>1
<1>3. interfaces' = IF e.type = "InterfaceUp" THEN interfaces \cup {e.interface}
                    ELSE IF e.type = "InterfaceDown" THEN interfaces \ {e.interface}
                    ELSE interfaces
  BY DEF HandleUpdate
<1> HIDE DEF e
<1>4. ASSUME NEW i \in Interface
      PROVE  IF i \in available' THEN WillBeUp(i)' ELSE WillBeDown(i)'
  <2>1. \A k \in Nat : k \in Places(i)' <=> k + 1 \in Places(i) /\ k # 0
    BY <1>2 DEF Places
  <2>2. Places(i)' \subseteq Nat /\ Places(i) \subseteq Nat
    BY <1>2 DEF Places
  <2>3. CASE Places(i) = {}
    <3>1. Places(i)' = {}
      BY <2>1, <2>2, <2>3
    <3>2. 1 \notin Places(i)
      BY <2>3
    <3>3. i \in interfaces' <=> i \in interfaces
      BY <1>2, <1>3, <3>2 DEF Places
    <3>4. \A k \in Nat : ~LastPlace(i, k)
      BY <2>3 DEF LastPlace
    <3> QED
      BY <1>1, <2>3, <3>1, <3>3, <3>4 DEF CatchUpInv, WillBeUp, WillBeDown
  <2>4. ASSUME NEW k \in Nat, LastPlace(i, k), k # 1
        PROVE  IF i \in available' THEN WillBeUp(i)' ELSE WillBeDown(i)'
    <3>1. k - 1 \in Nat /\ k - 1 # 0 /\ k - 1 \in 1 .. n - 1
      BY <1>2, <2>2, <2>4 DEF LastPlace, Places
    <3>2. k - 1 \in Places(i)'
      BY <2>1, <2>4, <3>1 DEF LastPlace
    <3>3. \A j \in Places(i)' : j <= k - 1
      BY <2>1, <2>2, <2>4, <3>1 DEF LastPlace
    <3>4. LastPlace(i, k - 1)' /\ updates'[k - 1] = updates[k]
      BY <1>2, <3>1, <3>2, <3>3 DEF LastPlace
    <3>5. \A j \in Nat : LastPlace(i, j) => j = k
      BY <2>4 DEF LastPlace
    <3>6. Places(i) # {}
      BY <2>4 DEF LastPlace
    <3>7. updates[k].type = IF i \in available THEN "InterfaceUp" ELSE "InterfaceDown"
      BY <3>5, <3>6 DEF CatchUpInv, WillBeUp, WillBeDown
    <3> QED
      BY <1>1, <3>1, <3>4, <3>7 DEF WillBeUp, WillBeDown
  <2>5. ASSUME LastPlace(i, 1)
        PROVE  IF i \in available' THEN WillBeUp(i)' ELSE WillBeDown(i)'
    <3>1. Places(i)' = {}
      BY <2>1, <2>2, <2>5 DEF LastPlace
    <3>2. \A j \in Nat : LastPlace(i, j) => j = 1
      BY <2>5 DEF LastPlace
    <3>3. Places(i) # {}
      BY <2>5 DEF LastPlace
    <3>4. e.type = IF i \in available THEN "InterfaceUp" ELSE "InterfaceDown"
      BY <1>2, <3>2, <3>3 DEF CatchUpInv, WillBeUp, WillBeDown
    <3>5. e.interface = i
      BY <1>2, <2>5 DEF LastPlace, Places
    <3>6. i \in interfaces' <=> i \in available
      BY <1>3, <3>4, <3>5
    <3> QED
      BY <1>1, <3>1, <3>6 DEF WillBeUp, WillBeDown
  <2> QED
    BY <2>3, <2>4, <2>5 DEF CatchUpInv, WillBeUp, WillBeDown
<1> QED
  BY <1>2, <1>4 DEF CatchUpInv, UpdatesOK

(* No other task touches the updates or the interfaces.                    *)
LEMMA NextCatchUp == BaseInv /\ CatchUpInv /\ [Next]_vars => CatchUpInv'
<1> SUFFICES ASSUME BaseInv, CatchUpInv, [Next]_vars PROVE CatchUpInv'
  OBVIOUS
<1>1. ASSUME NEW i \in Interface, LinkUp(i) \/ LinkDown(i) PROVE CatchUpInv'
  BY <1>1, LinkUpCatchUp, LinkDownCatchUp
<1>2. CASE HandleUpdate
  BY <1>2, HandleUpdateCatchUp
<1>3. CASE updates' = updates /\ available' = available /\ interfaces' = interfaces
  BY <1>3 DEF CatchUpInv, UpdatesOK, WillBeUp, WillBeDown, LastPlace, Places
<1>4. ASSUME NEW i \in Interface, NEW p \in Address, NEW type, Receive(i, p, type) PROVE CatchUpInv'
  BY <1>3, <1>4 DEF Receive, baseVars, r2kadVars, RegisterNew
<1>5. CASE Send \/ HandleMessage
  BY <1>3, <1>5 DEF Send, HandleMessage, baseVars, r2kadVars
<1>6. ASSUME NEW p \in Address, Resend(p) \/ ContactDead(p) PROVE CatchUpInv'
  BY <1>3, <1>6 DEF Resend, ContactDead, baseVars, r2kadVars
<1>7. CASE UNCHANGED vars
  BY <1>3, <1>7 DEF vars
<1> QED
  BY <1>1, <1>2, <1>4, <1>5, <1>6, <1>7 DEF Next

(* VicinityDiscovery catches up with the links: the updates the observer   *)
(* has sent lead it to exactly the interfaces that are available now,      *)
(* however many links went up and down while they were waiting.            *)
THEOREM InterfacesCatchUpAlways == Spec => []InterfacesCatchUp
<1>1. Init => CatchUpInv
  <2> SUFFICES ASSUME Init PROVE CatchUpInv
    OBVIOUS
  <2>1. \A i \in Interface : Places(i) = {}
    BY DEF Init, Places
  <2> QED
    BY <2>1 DEF Init, CatchUpInv, UpdatesOK, WillBeDown
<1>2. ASSUME CatchUpInv, NEW i \in Interface
      PROVE  i \in available <=>
               IF Places(i) = {} THEN i \in interfaces
               ELSE updates[CHOOSE k \in Places(i) : \A j \in Places(i) : j <= k].type = "InterfaceUp"
  <2>1. CASE Places(i) = {}
    BY <1>2, <2>1 DEF CatchUpInv, WillBeUp, WillBeDown, LastPlace
  <2>2. ASSUME NEW k \in Nat, LastPlace(i, k)
        PROVE  k = CHOOSE j \in Places(i) : \A m \in Places(i) : m <= j
    <3>1. \E j \in Places(i) : \A m \in Places(i) : m <= j
      BY <2>2 DEF LastPlace
    <3> DEFINE c == CHOOSE j \in Places(i) : \A m \in Places(i) : m <= j
    <3>2. c \in Places(i) /\ \A m \in Places(i) : m <= c
      BY <3>1
    <3> HIDE DEF c
    <3>3. Places(i) \subseteq Nat
      BY <1>2 DEF CatchUpInv, UpdatesOK, Places
    <3>4. k = c
      BY <2>2, <3>2, <3>3 DEF LastPlace
    <3> QED
      BY <3>4 DEF c
  <2>3. CASE Places(i) # {}
    <3>1. PICK k \in Nat : LastPlace(i, k)
                           /\ updates[k].type = IF i \in available THEN "InterfaceUp" ELSE "InterfaceDown"
      BY <1>2, <2>3 DEF CatchUpInv, WillBeUp, WillBeDown
    <3>2. k = CHOOSE j \in Places(i) : \A m \in Places(i) : m <= j
      BY <2>2, <3>1
    <3> DEFINE c == CHOOSE j \in Places(i) : \A m \in Places(i) : m <= j
    <3>3. k = c
      BY <3>2
    <3> HIDE DEF c
    <3>4. i \in available <=> updates[c].type = "InterfaceUp"
      BY <3>1, <3>3
    <3> QED
      BY <2>3, <3>4 DEF c
  <2> QED
    BY <2>1, <2>3
<1>3. CatchUpInv => InterfacesCatchUp
  BY <1>2 DEF InterfacesCatchUp, Places
<1> QED
  BY <1>1, <1>3, BaseAlways, NextCatchUp, PTL DEF Spec

===============================================================================
