------------------------ MODULE FailureHandling_proof ------------------------
(***************************************************************************)
(* Proofs about failure handling, for every set of contacts, every         *)
(* configuration and every bound: type correctness, the bound on the       *)
(* requests under way, that no failure is left unhandled and no            *)
(* rediscovery without its timer, and that active paths start at           *)
(* neighbours.                                                             *)
(***************************************************************************)
EXTENDS FailureHandling, TLAPS, FiniteSetTheorems

-------------------------------------------------------------------------------
(* The contacts of a node *)

(* The table at the start.                                                 *)
LEMMA EmptyTableType == EmptyTable \in Table
BY DEF EmptyTable, Table, ContactState

(* Setting the state of one contact keeps a table well formed.             *)
LEMMA SetStateType ==
  ASSUME NEW t \in Table, NEW c \in Contact, NEW s \in ContactState
  PROVE  SetState(t, c, s) \in Table
BY DEF SetState, Table

(* So does removing one.                                                   *)
LEMMA RemoveContactType ==
  ASSUME NEW t \in Table, NEW c \in Contact
  PROVE  RemoveContact(t, c) \in Table
<1>1. SetState(t, c, "Absent") \in Table
  BY SetStateType DEF ContactState
<1> QED
  BY <1>1 DEF RemoveContact, Table

(* set_invalid() on any set of contacts.                                   *)
LEMMA SetInvalidType ==
  ASSUME NEW t \in Table, NEW S
  PROVE  SetInvalid(t, S) \in Table
BY DEF SetInvalid, Table, ContactState

(* A validated path for one contact.                                       *)
LEMMA SetActivePathType ==
  ASSUME NEW t \in Table, NEW c \in Contact, NEW h \in Contact
  PROVE  SetActivePath(t, c, h) \in Table
<1>1. SetState(t, c, "Valid") \in Table
  BY SetStateType DEF ContactState
<1> QED
  BY <1>1 DEF SetActivePath, Table

(* A new entry.                                                            *)
LEMMA NewEntryType ==
  ASSUME NEW t \in Table, NEW c \in Contact, NEW h \in Contact
  PROVE  NewEntry(t, c, h) \in Table
<1>1. SetActivePath(t, c, h) \in Table
  BY SetActivePathType
<1> QED
  BY <1>1 DEF NewEntry, Table

(* UNSStrategy::insert keeps a table well formed, whatever it decides.     *)
LEMMA InsertType ==
  ASSUME NEW t \in Table, NEW c \in Contact, NEW h \in Contact
  PROVE  Insert(t, c, h) \subseteq Table
<1>1. ASSUME NEW u \in Table, NEW g \in Contact PROVE UpdateExisting(u, c, g) \subseteq Table
  BY <1>1, SetActivePathType DEF UpdateExisting
<1>2. ASSUME NEW u \in Table PROVE AddToBucket(u, c, h) \subseteq Table
  <2>1. ASSUME NEW w \in InBucket(u) PROVE NewEntry(RemoveContact(u, w), c, h) \in Table
    BY <2>1, RemoveContactType, NewEntryType DEF InBucket, Present
  <2> QED
    BY <1>2, <2>1, NewEntryType DEF AddToBucket
<1>3. NewEntry(t, c, c) \in Table /\ RemoveContact(t, c) \in Table
  BY NewEntryType, RemoveContactType
<1> QED
  BY <1>1, <1>2, <1>3 DEF Insert

(* So do the contacts a message tells about.                               *)
LEMMA ReportedType ==
  ASSUME NEW t \in Table
  PROVE  Reported(t) \subseteq Table
<1>1. ASSUME NEW R PROVE Told(t, R) \in Table
  BY DEF Told, Table, ContactState
<1> QED
  BY <1>1 DEF Reported

-------------------------------------------------------------------------------
(* Events *)

(* Appending events to events.                                             *)
LEMMA AppendType ==
  ASSUME NEW s \in Seq(Event), NEW r \in Seq(Event)
  PROVE  s \o r \in Seq(Event)
OBVIOUS

(* Raising events keeps the queue well formed.                             *)
LEMMA RaiseType ==
  ASSUME NEW type \in EventType, NEW ids \in SUBSET Contact, NEW uln
  PROVE  Raise(type, ids, uln) \in Seq(Event)
<1>1. [type |-> type, ids |-> ids, uln |-> ids \cap uln] \in Event
  BY DEF Event
<1>2. <<[type |-> type, ids |-> ids, uln |-> ids \cap uln]>> \in Seq(Event)
  BY <1>1
<1> QED
  BY <1>2 DEF Raise

(* So do the write guards after a sweep.                                   *)
LEMMA InvalidatedType ==
  ASSUME NEW t, NEW S
  PROVE  Invalidated(t, S) \in Seq(Event)
<1>1. S \cap ValidOnes(t) \in SUBSET Contact /\ "Invalidated" \in EventType
  BY DEF ValidOnes, EventType
<1> QED
  BY <1>1, RaiseType DEF Invalidated

(* Taking one contact off the first event.                                 *)
LEMMA RestType ==
  ASSUME NEW c \in Contact, NEW type, queue \in Seq(Event), Handle(type, c)
  PROVE  Rest(c) \in Seq(Event)
<1>1. queue # <<>> /\ Len(queue) >= 1 /\ queue[1] \in Event
  BY DEF Handle
<1>2. [queue[1] EXCEPT !.ids = @ \ {c}] \in Event
  BY <1>1 DEF Event
<1>3. [queue EXCEPT ![1].ids = @ \ {c}] = [queue EXCEPT ![1] = [queue[1] EXCEPT !.ids = @ \ {c}]]
  OBVIOUS
<1>4. [queue EXCEPT ![1] = [queue[1] EXCEPT !.ids = @ \ {c}]] \in Seq(Event)
  BY <1>1, <1>2
<1>5. Tail(queue) \in Seq(Event)
  BY <1>1
<1> QED
  BY <1>3, <1>4, <1>5 DEF Rest

-------------------------------------------------------------------------------
(* The requests of a round *)

(* extract_eligible_via_contacts returns at most as many contacts as asked *)
(* for.                                                                    *)
LEMMA ExtractOK ==
  ASSUME NEW t \in Table, NEW c \in Contact, NEW n \in Nat, NEW x \in Extract(t, c, n)
  PROVE  x.rest \in SUBSET Contact /\ Cardinality(x.taken) \in 0..n
<1> DEFINE eligible == t.vias[c] \cap ValidOnes(t)
<1>1. t.vias[c] \in SUBSET Contact
  BY DEF Table
<1>2. IsFiniteSet(eligible) /\ Cardinality(eligible) \in Nat
  BY <1>1, RediscoveryAssumption, FS_Subset, FS_CardinalityType
<1>3. CASE t.st[c] # "Rediscovering"
  BY <1>3, FS_EmptySet DEF Extract
<1>4. CASE t.st[c] = "Rediscovering" /\ Cardinality(eligible) < n
  BY <1>2, <1>4 DEF Extract
<1>5. CASE t.st[c] = "Rediscovering" /\ ~(Cardinality(eligible) < n)
  <2>1. PICK E \in {F \in SUBSET eligible : Cardinality(F) = n},
             K \in SUBSET (t.vias[c] \ eligible) :
          x = [taken |-> E, rest |-> t.vias[c] \ (E \cup K)]
    BY <1>5 DEF Extract
  <2> QED
    BY <1>1, <2>1
<1> QED
  BY <1>3, <1>4, <1>5

(* The contacts it returns are some of the via list.                       *)
LEMMA ExtractTaken ==
  ASSUME NEW t \in Table, NEW c \in Contact, NEW n \in Nat, NEW x \in Extract(t, c, n)
  PROVE  x.taken \subseteq Contact /\ IsFiniteSet(x.taken)
<1>1. t.vias[c] \in SUBSET Contact
  BY DEF Table
<1>2. x.taken \subseteq t.vias[c]
  BY DEF Extract
<1> QED
  BY <1>1, <1>2, RediscoveryAssumption, FS_Subset

(* Type correctness is kept by a message that is received: the part that   *)
(* all messages have in common.                                            *)
LEMMA ReceiveType ==
  ASSUME TypeOK, NEW y \in Contact, NEW h \in Contact, NEW N, NEW S, Receive(y, h, N, S)
  PROVE  /\ table' \in Table /\ queue' \in Seq(Event) /\ draining' \in BOOLEAN
         /\ failures' \in Nat
<1>1. SetInvalid(table, N) \in Table
  BY SetInvalidType DEF TypeOK
<1>2. PICK i \in Insert(SetInvalid(table, N), y, h) : \E r \in Reported(i) :
        /\ table' = SetInvalid(r, S)
        /\ queue' = Invalidated(table, N) \o Invalidated(r, S)
  BY DEF Receive
<1>3. PICK r \in Reported(i) : /\ table' = SetInvalid(r, S)
                               /\ queue' = Invalidated(table, N) \o Invalidated(r, S)
  BY <1>2
<1>4. r \in Table
  BY <1>1, InsertType, ReportedType
<1>5. table' \in Table
  BY <1>3, <1>4, SetInvalidType
<1>6. queue' \in Seq(Event)
  BY <1>3, InvalidatedType
<1>7. failures' \in Nat
  BY DEF TypeOK, Receive, Fails
<1>8. draining' \in BOOLEAN
  BY DEF Receive
<1> QED
  BY <1>5, <1>6, <1>7, <1>8

(* The inputs keep the types.                                              *)
LEMMA InputType ==
  ASSUME TypeOK, Input
  PROVE  TypeOK'
<1>1. PICK y \in Contact, h \in Contact :
        \/ \E N \in Paths : FindNodeRsp(y, h, N)
        \/ \E c \in Contact : \E S \in Paths : ErrorRsp(c, y, h, S)
        \/ \E N \in Paths : \E S \in Paths : OtherMessage(y, h, N, S)
        \/ Hello(y) \/ Discovery(y) \/ LateDiscovery(y) \/ NeighborDown(y) \/ Restart(y)
  BY DEF Input
<1>2. ASSUME NEW N, FindNodeRsp(y, h, N) PROVE TypeOK'
  <2>1. Receive(y, h, N, {}) /\ inflight[y] \in Nat \ {0}
    BY <1>2 DEF FindNodeRsp, TypeOK
  <2>2. /\ table' \in Table /\ queue' \in Seq(Event) /\ draining' \in BOOLEAN
        /\ failures' \in Nat
    BY <2>1, ReceiveType
  <2>3. inflight' \in [Contact -> Nat]
    BY <1>2, <2>1 DEF FindNodeRsp, TypeOK
  <2> QED
    BY <1>2, <2>1, <2>2, <2>3 DEF TypeOK, FindNodeRsp, Receive
<1>3. ASSUME NEW c \in Contact, NEW S, ErrorRsp(c, y, h, S) PROVE TypeOK'
  <2>1. Receive(y, h, {}, S) /\ inflight[c] \in Nat \ {0} /\ rateLimit[c] \in Nat
    BY <1>3 DEF ErrorRsp, TypeOK
  <2>2. /\ table' \in Table /\ queue' \in Seq(Event) /\ draining' \in BOOLEAN
        /\ failures' \in Nat
    BY <2>1, ReceiveType
  <2>3. inflight' \in [Contact -> Nat] /\ rateLimit' \in [Contact -> Nat]
    BY <1>3, <2>1, SMTT(30) DEF ErrorRsp, TypeOK
  <2> QED
    BY <1>3, <2>1, <2>2, <2>3 DEF TypeOK, ErrorRsp, Receive
<1>4. ASSUME NEW N, NEW S, OtherMessage(y, h, N, S) PROVE TypeOK'
  <2>1. Receive(y, h, N, S)
    BY <1>4 DEF OtherMessage
  <2>2. /\ table' \in Table /\ queue' \in Seq(Event) /\ draining' \in BOOLEAN
        /\ failures' \in Nat
    BY <2>1, ReceiveType
  <2> QED
    BY <1>4, <2>1, <2>2 DEF TypeOK, OtherMessage, Receive, timers
<1>5. CASE Hello(y)
  <2>1. table' \in Table
    BY <1>5 DEF Hello, TypeOK, Table
  <2> QED
    BY <1>5, <2>1 DEF Hello, Disturb, TypeOK, timers
<1>6. CASE Discovery(y)
  <2>1. PICK i \in Insert(table, y, y) : \E r \in Reported(i) :
          table' = [r EXCEPT !.uln = @ \cup {y}]
    BY <1>6 DEF Discovery
  <2>2. i \in Table
    BY InsertType DEF TypeOK
  <2>3. PICK r \in Table : table' = [r EXCEPT !.uln = @ \cup {y}]
    BY <2>1, <2>2, ReportedType
  <2>4. table' \in Table
    BY <2>3 DEF Table
  <2> QED
    BY <1>6, <2>4 DEF Discovery, TypeOK, timers
<1>7. CASE LateDiscovery(y)
  <2>1. table' \in Table
    BY <1>7, InsertType, ReportedType DEF LateDiscovery, TypeOK
  <2> QED
    BY <1>7, <2>1 DEF LateDiscovery, Disturb, TypeOK, timers
<1>8. CASE NeighborDown(y)
  <2>1. SetInvalid(table, Via(table, y)) \in Table
    BY SetInvalidType DEF TypeOK
  <2>2. table' \in Table
    BY <1>8, <2>1 DEF NeighborDown, Table
  <2>3. queue' \in Seq(Event) /\ draining' \in BOOLEAN
    BY <1>8, InvalidatedType DEF NeighborDown
  <2> QED
    BY <1>8, <2>2, <2>3 DEF NeighborDown, Fails, TypeOK, timers
<1>9. CASE Restart(y)
  <2>1. table' \in Table
    BY <1>9 DEF Restart, TypeOK, Table
  <2> QED
    BY <1>9, <2>1 DEF Restart, Disturb, TypeOK, timers
<1> QED
  BY <1>1, <1>2, <1>3, <1>4, <1>5, <1>6, <1>7, <1>8, <1>9

(* The via list of a contact may be set to any contacts.                   *)
LEMMA ViasType ==
  ASSUME NEW t \in Table, NEW c \in Contact, NEW V \in SUBSET Contact
  PROVE  [t EXCEPT !.vias[c] = V] \in Table
BY DEF Table

(* handle_rediscovery_failure keeps the types, in all its cases.           *)
LEMMA RediscoveryFailureType ==
  ASSUME TypeOK, NEW c \in Contact, NEW inf \in [Contact -> Nat], NEW rate \in [Contact -> Nat],
         HandleRediscoveryFailure(c, inf, rate)
  PROVE  TypeOK'
<1>1. table \in Table /\ queue \in Seq(Event)
  BY DEF TypeOK
<1>2. ValidOnes(table) \in SUBSET Contact
  BY DEF ValidOnes
<1>3. CASE table.st[c] # "Rediscovering"
  BY <1>3 DEF HandleRediscoveryFailure, TypeOK
<1>4. CASE SendNext(c, inf)
  <2>1. PICK x \in Extract(table, c, 1) : table' = [table EXCEPT !.vias[c] = x.rest]
    BY <1>4 DEF SendNext
  <2>2. table' \in Table
    BY <1>1, <2>1, ExtractOK, ViasType
  <2> QED
    BY <1>4, <2>2 DEF SendNext, HandleRediscoveryFailure, TypeOK
<1>5. CASE WaitForOthers(c, inf, rate)
  <2>1. table' \in Table
    BY <1>1, <1>5, ViasType DEF WaitForOthers
  <2> QED
    BY <1>5, <2>1 DEF WaitForOthers, HandleRediscoveryFailure, TypeOK
<1>6. CASE NextRound(c, inf, rate)
  <2>1. table' \in Table
    <3>1. table.retries[c] + 1 \in Nat
      BY <1>1 DEF Table
    <3>2. table' = [table EXCEPT !.vias[c] = ValidOnes(table), !.retries[c] = table.retries[c] + 1]
      BY <1>6 DEF NextRound
    <3> QED
      BY <1>1, <1>2, <3>1, <3>2 DEF Table
  <2>2. scheduled' \in [Contact -> Nat]
    BY <1>6 DEF NextRound, TypeOK
  <2> QED
    BY <1>6, <2>1, <2>2 DEF NextRound, HandleRediscoveryFailure, TypeOK
<1>7. CASE GiveUp(c, inf, rate)
  <2>1. table' \in Table
    BY <1>1, <1>7, SetStateType DEF GiveUp, ContactState
  <2>2. queue' \in Seq(Event)
    <3>1. "Dead" \in EventType /\ {c} \in SUBSET Contact
      BY DEF EventType
    <3>2. Raise("Dead", {c}, {d \in Contact : table.hop[d] = d}) \in Seq(Event)
      BY <3>1, RaiseType
    <3> QED
      BY <1>1, <1>7, <3>2, AppendType DEF GiveUp
  <2> QED
    BY <1>7, <2>1, <2>2 DEF GiveUp, HandleRediscoveryFailure, TypeOK
<1> QED
  BY <1>3, <1>4, <1>5, <1>6, <1>7 DEF HandleRediscoveryFailure

(* The timers keep the types.                                              *)
LEMMA TimerType ==
  ASSUME TypeOK, NEW c \in Contact, Timer(c) \/ ProbeTimer(c)
  PROVE  TypeOK'
<1>1. table \in Table /\ queue \in Seq(Event)
  BY DEF TypeOK
<1>2. CASE ScheduledTimer(c)
  <2>1. PICK x \in Extract(table, c, Parallelism) :
          /\ table' = [table EXCEPT !.vias[c] = x.rest]
          /\ inflight' = [inflight EXCEPT ![c] = @ + Cardinality(x.taken)]
          /\ rateLimit' = [rateLimit EXCEPT ![c] = @ + IF x.taken = {} THEN 1 ELSE 0]
    BY <1>2 DEF ScheduledTimer
  <2>2. x.rest \in SUBSET Contact /\ Cardinality(x.taken) \in Nat
    BY <1>1, ExtractOK, RediscoveryAssumption
  <2>3. table' \in Table
    BY <1>1, <2>1, <2>2, ViasType
  <2>4. scheduled' \in [Contact -> Nat]
    BY <1>2 DEF ScheduledTimer, TypeOK
  <2>5. inflight' \in [Contact -> Nat] /\ rateLimit' \in [Contact -> Nat]
    BY <2>1, <2>2 DEF TypeOK
  <2> QED
    BY <1>2, <2>3, <2>4, <2>5 DEF ScheduledTimer, TypeOK
<1>3. CASE RequestTimer(c)
  <2>1. [inflight EXCEPT ![c] = @ - 1] \in [Contact -> Nat] /\ rateLimit \in [Contact -> Nat]
    BY <1>3 DEF RequestTimer, TypeOK
  <2> QED
    BY <1>3, <2>1, RediscoveryFailureType DEF RequestTimer
<1>4. CASE RateLimitTimer(c)
  <2>1. [rateLimit EXCEPT ![c] = @ - 1] \in [Contact -> Nat] /\ inflight \in [Contact -> Nat]
    BY <1>4 DEF RateLimitTimer, TypeOK
  <2> QED
    BY <1>4, <2>1, RediscoveryFailureType DEF RateLimitTimer
<1>5. CASE ProbeTimer(c)
  <2>1. table' \in Table
    BY <1>1, <1>5, SetInvalidType DEF ProbeTimer
  <2>2. queue' \in Seq(Event)
    BY <1>1, <1>5, InvalidatedType DEF ProbeTimer
  <2> QED
    BY <1>5, <2>1, <2>2 DEF ProbeTimer, Fails, TypeOK, timers
<1> QED
  BY <1>2, <1>3, <1>4, <1>5 DEF Timer

(* The events keep the types.                                              *)
LEMMA DispatchType ==
  ASSUME TypeOK, NEW c \in Contact, Dispatch(c)
  PROVE  TypeOK'
<1>1. table \in Table /\ queue \in Seq(Event)
  BY DEF TypeOK
<1>2. CASE StartRediscovery(c)
  <2> DEFINE t == SetInvalid(table, Affected(c))
  <2>1. t \in Table /\ ValidOnes(t) \in SUBSET Contact
    BY <1>1, SetInvalidType DEF ValidOnes
  <2>2. [t EXCEPT !.st[c] = "Rediscovering", !.vias[c] = ValidOnes(t), !.retries[c] = 0] \in Table
    BY <2>1 DEF Table, ContactState
  <2>3. table' \in Table /\ panicked' \in BOOLEAN
    BY <1>2, <2>1, <2>2 DEF StartRediscovery, TypeOK
  <2>4. scheduled' \in [Contact -> Nat] /\ starts' \in [Contact -> Nat]
    <3>1. CASE t.st[c] = "Absent"
      BY <1>2, <3>1 DEF StartRediscovery, TypeOK
    <3>2. CASE t.st[c] # "Absent"
      <4>1. /\ scheduled' = [scheduled EXCEPT ![c] = @ + 1]
            /\ starts' = [starts EXCEPT ![c] = @ + 1]
        BY <1>2, <3>2, Zenon DEF StartRediscovery
      <4> QED
        BY <4>1 DEF TypeOK
    <3> QED
      BY <3>1, <3>2
  <2>5. queue' \in Seq(Event)
    <3>1. Rest(c) \in Seq(Event)
      BY <1>1, <1>2, RestType DEF StartRediscovery
    <3>2. "Interrupted" \in EventType /\ {c} \cap {d \in ValidOnes(t) : t.hop[d] = d} \in SUBSET Contact
      BY DEF EventType
    <3>3. Raise("Interrupted", {c} \cap {d \in ValidOnes(t) : t.hop[d] = d}, {c}) \in Seq(Event)
      BY <3>2, RaiseType
    <3>4. Invalidated(table, Affected(c)) \in Seq(Event)
      BY InvalidatedType
    <3> QED
      BY <1>2, <3>1, <3>3, <3>4, AppendType DEF StartRediscovery
  <2>6. draining' \in BOOLEAN
    BY <1>2 DEF StartRediscovery
  <2> QED
    BY <1>2, <2>3, <2>4, <2>5, <2>6 DEF StartRediscovery, TypeOK
<1>3. CASE ContactInterrupted(c)
  <2>1. table' \in Table
    BY <1>1, <1>3, SetInvalidType DEF ContactInterrupted
  <2>2. queue' \in Seq(Event) /\ draining' \in BOOLEAN
    BY <1>1, <1>3, RestType, InvalidatedType DEF ContactInterrupted
  <2> QED
    BY <1>3, <2>1, <2>2 DEF ContactInterrupted, TypeOK, timers
<1>4. CASE RemoveDead(c)
  <2>1. table' \in Table
    BY <1>1, <1>4, RemoveContactType DEF RemoveDead
  <2>2. queue' \in Seq(Event) /\ draining' \in BOOLEAN
    <3>1. "Removed" \in EventType /\ {c} \cap Present(table) \in SUBSET Contact
      BY DEF EventType
    <3>2. Raise("Removed", {c} \cap Present(table), {d \in Contact : table.hop[d] = d}) \in Seq(Event)
      BY <3>1, RaiseType
    <3> QED
      BY <1>1, <1>4, <3>2, RestType, AppendType DEF RemoveDead
  <2> QED
    BY <1>4, <2>1, <2>2 DEF RemoveDead, TypeOK, timers
<1>5. CASE ContactRemoved(c)
  <2>1. SetInvalid(table, Affected(c)) \in Table
    BY <1>1, SetInvalidType
  <2>2. table' \in Table
    BY <1>5, <2>1 DEF ContactRemoved, Table
  <2>3. queue' \in Seq(Event) /\ draining' \in BOOLEAN
    BY <1>1, <1>5, RestType, InvalidatedType DEF ContactRemoved
  <2>4. inflight' \in [Contact -> Nat]
    BY <1>5 DEF ContactRemoved, TypeOK
  <2> QED
    BY <1>5, <2>2, <2>3, <2>4 DEF ContactRemoved, TypeOK
<1> QED
  BY <1>2, <1>3, <1>4, <1>5 DEF Dispatch

(* Every step keeps the types.                                             *)
LEMMA NextType == TypeOK /\ [Next]_vars => TypeOK'
<1> SUFFICES ASSUME TypeOK, [Next]_vars PROVE TypeOK'
  OBVIOUS
<1>1. CASE Input
  BY <1>1, InputType
<1>2. ASSUME NEW c \in Contact, Timer(c) \/ ProbeTimer(c) \/ Dispatch(c) PROVE TypeOK'
  BY <1>2, TimerType, DispatchType
<1>3. CASE UNCHANGED vars
  BY <1>3 DEF TypeOK, vars
<1> QED
  BY <1>1, <1>2, <1>3 DEF Next

(* Type correctness of all variables: no count of timers ever gets         *)
(* negative, whatever the order of timers, messages and events.            *)
THEOREM TypeCorrect == Spec => []TypeOK
<1>1. Init => TypeOK
  <2>1. [c \in Contact |-> 0] \in [Contact -> Nat] /\ <<>> \in Seq(Event)
    OBVIOUS
  <2>2. Init => /\ table \in Table /\ queue \in Seq(Event)
                /\ scheduled \in [Contact -> Nat] /\ starts \in [Contact -> Nat]
    BY <2>1, EmptyTableType, Zenon DEF Init
  <2>3. Init => inflight \in [Contact -> Nat] /\ rateLimit \in [Contact -> Nat]
    BY <2>2, Zenon DEF Init
  <2>4. Init => failures \in Nat /\ disturbances \in Nat
    BY DEF Init
  <2>5. Init => draining \in BOOLEAN /\ panicked \in BOOLEAN
    BY Zenon DEF Init
  <2> QED
    BY <2>2, <2>3, <2>4, <2>5, Zenon DEF TypeOK
<1> QED
  BY <1>1, NextType, PTL DEF Spec

-------------------------------------------------------------------------------
(* The requests under way *)

(* Every rediscovery that is scheduled may still send as many requests as  *)
(* are allowed in parallel.                                                *)
LoadBounded ==
  \A d \in Contact : inflight[d] + rateLimit[d] + Parallelism * scheduled[d]
                     <= Parallelism * starts[d]

(* One scheduled rediscovery more.                                         *)
LEMMA TimesNext ==
  ASSUME NEW p \in Nat, NEW s \in Nat
  PROVE  p * s \in Nat /\ p * (s + 1) = p * s + p
OBVIOUS

(* Room for one request is room for a whole round.                         *)
LEMMA TimesRoom ==
  ASSUME NEW p \in Nat, NEW a \in Nat, NEW b \in Nat, p * a < p * b
  PROVE  p * (a + 1) <= p * b
<1>1. a < b
  <2>1. ASSUME b <= a PROVE FALSE
    <3>1. PICK k \in Nat : a = b + k
      <4>1. a - b \in Nat /\ a = b + (a - b)
        BY <2>1
      <4> QED
        BY <4>1
    <3>2. p * (b + k) = p * b + p * k /\ p * k \in Nat /\ p * b \in Nat
      OBVIOUS
    <3> QED
      BY <3>1, <3>2
  <2> QED
    BY <2>1
<1>2. PICK k \in Nat : b = (a + 1) + k
  <2>1. b - (a + 1) \in Nat /\ b = (a + 1) + (b - (a + 1))
    BY <1>1
  <2> QED
    BY <2>1
<1>3. p * ((a + 1) + k) = p * (a + 1) + p * k /\ p * k \in Nat /\ p * (a + 1) \in Nat
  OBVIOUS
<1> QED
  BY <1>2, <1>3

(* A failed rediscovery does not add requests: the entry of its timer made *)
(* room for one.                                                           *)
LEMMA RediscoveryFailureLoad ==
  ASSUME TypeOK, LoadBounded, NEW c \in Contact,
         NEW inf \in [Contact -> Nat], NEW rate \in [Contact -> Nat],
         \A d \in Contact \ {c} : inf[d] = inflight[d] /\ rate[d] = rateLimit[d],
         inf[c] + rate[c] + 1 = inflight[c] + rateLimit[c],
         HandleRediscoveryFailure(c, inf, rate)
  PROVE  LoadBounded'
<1> SUFFICES ASSUME NEW d \in Contact
             PROVE  inflight'[d] + rateLimit'[d] + Parallelism * scheduled'[d]
                    <= Parallelism * starts'[d]
  BY DEF LoadBounded
<1>1. /\ inf[d] \in Nat /\ rate[d] \in Nat /\ inflight[d] \in Nat /\ rateLimit[d] \in Nat
      /\ scheduled[d] \in Nat /\ starts[d] \in Nat /\ Parallelism \in Nat
      /\ scheduled \in [Contact -> Nat]
  BY RediscoveryAssumption DEF TypeOK
<1>2. Parallelism * scheduled[d] \in Nat /\ Parallelism * starts[d] \in Nat
  BY <1>1, TimesNext
<1>3. rateLimit' = rate /\ starts' = starts
  BY DEF HandleRediscoveryFailure
<1>4. inflight[d] + rateLimit[d] + Parallelism * scheduled[d] <= Parallelism * starts[d]
  BY DEF LoadBounded
<1>5. inf[d] + rate[d] + (IF d = c THEN 1 ELSE 0) = inflight[d] + rateLimit[d]
  BY <1>1
<1>6. CASE SendNext(c, inf)
  <2>1. inflight' = [inf EXCEPT ![c] = @ + 1] /\ scheduled' = scheduled
    BY <1>6 DEF SendNext
  <2>2. inflight'[d] = inf[d] + (IF d = c THEN 1 ELSE 0)
    BY <1>1, <2>1
  <2> QED
    BY <1>1, <1>2, <1>3, <1>4, <1>5, <2>1, <2>2
<1>7. CASE inflight' = inf /\ scheduled' = scheduled
  BY <1>1, <1>2, <1>3, <1>4, <1>5, <1>7
<1>8. CASE NextRound(c, inf, rate)
  <2>1. /\ inf[c] + rate[c] = 0 /\ inflight' = inf
        /\ scheduled' = [scheduled EXCEPT ![c] = @ + 1]
    BY <1>8 DEF NextRound
  <2>2. CASE d # c
    BY <1>1, <1>2, <1>3, <1>4, <1>5, <2>1, <2>2
  <2>3. CASE d = c
    <3>1. Parallelism * scheduled[c] < Parallelism * starts[c]
      BY <1>1, <1>2, <1>4, <1>5, <2>1, <2>3
    <3>2. Parallelism * (scheduled[c] + 1) <= Parallelism * starts[c]
      BY <1>1, <2>3, <3>1, TimesRoom
    <3>3. scheduled'[c] = scheduled[c] + 1 /\ Parallelism * (scheduled[c] + 1) \in Nat
      BY <1>1, <2>1, <2>3, TimesNext
    <3> QED
      BY <1>1, <1>3, <2>1, <2>3, <3>2, <3>3
  <2> QED
    BY <2>2, <2>3
<1> QED
  BY <1>6, <1>7, <1>8 DEF HandleRediscoveryFailure, WaitForOthers, GiveUp

(* Every step keeps the load bounded.                                      *)
LEMMA NextLoad == TypeOK /\ LoadBounded /\ [Next]_vars => LoadBounded'
<1> SUFFICES ASSUME TypeOK, LoadBounded, [Next]_vars PROVE LoadBounded'
  OBVIOUS
<1>1. /\ inflight \in [Contact -> Nat] /\ rateLimit \in [Contact -> Nat]
      /\ scheduled \in [Contact -> Nat] /\ starts \in [Contact -> Nat]
      /\ Parallelism \in Nat \ {0} /\ table \in Table
  BY RediscoveryAssumption DEF TypeOK
<1>2. \A d \in Contact : /\ Parallelism * scheduled[d] \in Nat /\ Parallelism * starts[d] \in Nat
                         /\ Parallelism * (scheduled[d] + 1) = Parallelism * scheduled[d] + Parallelism
                         /\ Parallelism * (starts[d] + 1) = Parallelism * starts[d] + Parallelism
  BY <1>1, TimesNext
<1>3. ASSUME UNCHANGED <<scheduled, starts>>,
             \A d \in Contact : /\ inflight'[d] \in Nat /\ rateLimit'[d] \in Nat
                                /\ inflight'[d] + rateLimit'[d] <= inflight[d] + rateLimit[d]
      PROVE  LoadBounded'
  BY <1>1, <1>2, <1>3 DEF LoadBounded
<1>4. CASE UNCHANGED <<timers, starts>>
  BY <1>1, <1>3, <1>4 DEF timers
<1>5. ASSUME NEW y, NEW h, NEW N, FindNodeRsp(y, h, N) PROVE LoadBounded'
  BY <1>1, <1>3, <1>5 DEF FindNodeRsp, Receive
<1>6. ASSUME NEW c \in Contact, NEW y, NEW h, NEW S, ErrorRsp(c, y, h, S) PROVE LoadBounded'
  BY <1>1, <1>3, <1>6 DEF ErrorRsp, Receive
<1>7. CASE Input
  BY <1>4, <1>5, <1>6, <1>7, ZenonT(40)
     DEF Input, OtherMessage, Receive, Hello, Discovery, LateDiscovery, NeighborDown, Restart
<1>8. ASSUME NEW c \in Contact, ScheduledTimer(c) PROVE LoadBounded'
  <2>1. PICK x \in Extract(table, c, Parallelism) :
          /\ inflight' = [inflight EXCEPT ![c] = @ + Cardinality(x.taken)]
          /\ rateLimit' = [rateLimit EXCEPT ![c] = @ + IF x.taken = {} THEN 1 ELSE 0]
    BY <1>8 DEF ScheduledTimer
  <2>2. Cardinality(x.taken) \in 0..Parallelism
    BY <1>1, ExtractOK
  <2>3. Cardinality(x.taken) + (IF x.taken = {} THEN 1 ELSE 0) \in 0..Parallelism
    BY <1>1, <2>2, FS_EmptySet
  <2>4. scheduled[c] > 0 /\ scheduled' = [scheduled EXCEPT ![c] = @ - 1] /\ starts' = starts
    BY <1>8 DEF ScheduledTimer
  <2>5. Parallelism * (scheduled[c] - 1) + Parallelism = Parallelism * scheduled[c]
    <3>1. scheduled[c] - 1 \in Nat /\ (scheduled[c] - 1) + 1 = scheduled[c]
      BY <1>1, <2>4
    <3> QED
      BY <1>1, <3>1, TimesNext
  <2>6. Parallelism * (scheduled[c] - 1) \in Nat
    BY <1>1, <2>4, TimesNext
  <2> SUFFICES ASSUME NEW d \in Contact
               PROVE  inflight'[d] + rateLimit'[d] + Parallelism * scheduled'[d]
                      <= Parallelism * starts'[d]
    BY DEF LoadBounded
  <2>7. CASE d # c
    BY <1>1, <2>1, <2>4, <2>7 DEF LoadBounded
  <2>8. CASE d = c
    <3>1. /\ inflight'[c] + rateLimit'[c] = inflight[c] + rateLimit[c]
               + (Cardinality(x.taken) + (IF x.taken = {} THEN 1 ELSE 0))
          /\ scheduled'[c] = scheduled[c] - 1
      BY <1>1, <2>1, <2>2, <2>4
    <3>2. inflight[c] + rateLimit[c] + Parallelism * scheduled[c] <= Parallelism * starts[c]
      BY DEF LoadBounded
    <3> QED
      BY <1>1, <1>2, <2>3, <2>4, <2>5, <2>6, <2>8, <3>1, <3>2
  <2> QED
    BY <2>7, <2>8
<1>9. ASSUME NEW c \in Contact, RequestTimer(c) PROVE LoadBounded'
  <2> DEFINE inf == [inflight EXCEPT ![c] = @ - 1]
  <2>1. inf \in [Contact -> Nat] /\ \A d \in Contact \ {c} : inf[d] = inflight[d]
    BY <1>1, <1>9 DEF RequestTimer
  <2>2. inf[c] + rateLimit[c] + 1 = inflight[c] + rateLimit[c]
    BY <1>1, <1>9 DEF RequestTimer
  <2>3. HandleRediscoveryFailure(c, inf, rateLimit)
    BY <1>9 DEF RequestTimer
  <2> HIDE DEF inf
  <2> QED
    BY <1>1, <2>1, <2>2, <2>3, RediscoveryFailureLoad
<1>10. ASSUME NEW c \in Contact, RateLimitTimer(c) PROVE LoadBounded'
  <2> DEFINE rate == [rateLimit EXCEPT ![c] = @ - 1]
  <2>1. rate \in [Contact -> Nat] /\ \A d \in Contact \ {c} : rate[d] = rateLimit[d]
    BY <1>1, <1>10 DEF RateLimitTimer
  <2>2. inflight[c] + rate[c] + 1 = inflight[c] + rateLimit[c]
    BY <1>1, <1>10 DEF RateLimitTimer
  <2>3. HandleRediscoveryFailure(c, inflight, rate)
    BY <1>10 DEF RateLimitTimer
  <2> HIDE DEF rate
  <2> QED
    BY <1>1, <2>1, <2>2, <2>3, RediscoveryFailureLoad
<1>11. ASSUME NEW c \in Contact, ProbeTimer(c) \/ RemoveDead(c) \/ ContactInterrupted(c)
       PROVE LoadBounded'
  BY <1>4, <1>11 DEF ProbeTimer, RemoveDead, ContactInterrupted
<1>12. ASSUME NEW c \in Contact, StartRediscovery(c) PROVE LoadBounded'
  <2>1. UNCHANGED <<inflight, rateLimit>>
    BY <1>12 DEF StartRediscovery
  <2>2. CASE scheduled' = scheduled /\ starts' = starts
    BY <1>4, <2>1, <2>2 DEF timers
  <2>3. CASE /\ scheduled' = [scheduled EXCEPT ![c] = @ + 1]
             /\ starts' = [starts EXCEPT ![c] = @ + 1]
    BY <1>1, <1>2, <2>1, <2>3 DEF LoadBounded
  <2> QED
    BY <1>12, <2>2, <2>3, Zenon DEF StartRediscovery
<1>13. ASSUME NEW c \in Contact, ContactRemoved(c) PROVE LoadBounded'
  BY <1>1, <1>3, <1>13 DEF ContactRemoved
<1>14. CASE UNCHANGED vars
  BY <1>4, <1>14 DEF vars, timers
<1> QED
  BY <1>7, <1>8, <1>9, <1>10, <1>11, <1>12, <1>13, <1>14 DEF Next, Timer, Dispatch

(* The requests a contact has under way are bounded by the number of times *)
(* its rediscovery was started: handle_rediscovery_failure and             *)
(* send_rediscovery_for_contact never multiply them.                       *)
THEOREM RequestsAlwaysBounded == Spec => []RequestsBounded
<1>1. Init => LoadBounded
  BY RediscoveryAssumption DEF Init, LoadBounded
<1>2. TypeOK /\ LoadBounded => RequestsBounded
  <2> SUFFICES ASSUME TypeOK, LoadBounded, NEW c \in Contact
               PROVE  inflight[c] + rateLimit[c] <= Parallelism * starts[c]
    BY DEF RequestsBounded
  <2>1. /\ inflight[c] \in Nat /\ rateLimit[c] \in Nat /\ scheduled[c] \in Nat
        /\ starts[c] \in Nat /\ Parallelism \in Nat
    BY RediscoveryAssumption DEF TypeOK
  <2>2. Parallelism * scheduled[c] \in Nat /\ Parallelism * starts[c] \in Nat
    BY <2>1, TimesNext
  <2> QED
    BY <2>1, <2>2 DEF LoadBounded
<1> QED
  BY <1>1, <1>2, TypeCorrect, NextLoad, PTL DEF Spec

-------------------------------------------------------------------------------
(* Failures and their events *)

(* An event of one of these types that contains the contact is waiting.    *)
Announced(q, d, T) == \E k \in 1..Len(q) : q[k].type \in T /\ d \in q[k].ids

(* Every contact that failed, and every contact that died, has an event    *)
(* that will be handled.  A dead contact may have been invalidated again:  *)
(* then only its death was announced.                                      *)
AllAnnounced ==
  \A d \in Contact :
    /\ table.st[d] = "Invalid" => Announced(queue, d, {"Invalidated", "Dead"})
    /\ table.st[d] = "Dead" => Announced(queue, d, {"Dead"})

(* An event that waits keeps waiting when others are appended.             *)
LEMMA AppendAnnounced ==
  ASSUME NEW q \in Seq(Event), NEW r \in Seq(Event), NEW d, NEW T,
         Announced(q, d, T) \/ Announced(r, d, T)
  PROVE  Announced(q \o r, d, T)
<1>1. CASE Announced(q, d, T)
  <2>1. PICK k \in 1..Len(q) : q[k].type \in T /\ d \in q[k].ids
    BY <1>1 DEF Announced
  <2>2. k \in 1..Len(q \o r) /\ (q \o r)[k] = q[k]
    OBVIOUS
  <2> QED
    BY <2>1, <2>2 DEF Announced
<1>2. CASE Announced(r, d, T)
  <2>1. PICK k \in 1..Len(r) : r[k].type \in T /\ d \in r[k].ids
    BY <1>2 DEF Announced
  <2>2. Len(q) + k \in 1..Len(q \o r) /\ (q \o r)[Len(q) + k] = r[k]
    OBVIOUS
  <2> QED
    BY <2>1, <2>2 DEF Announced
<1> QED
  BY <1>1, <1>2

(* What is raised waits.                                                   *)
LEMMA RaiseAnnounced ==
  ASSUME NEW type, NEW ids, NEW uln, NEW d \in ids, NEW T, type \in T
  PROVE  Announced(Raise(type, ids, uln), d, T)
<1> DEFINE e == [type |-> type, ids |-> ids, uln |-> ids \cap uln]
<1>1. Raise(type, ids, uln) = <<e>>
  BY DEF Raise
<1>2. 1 \in 1..Len(<<e>>) /\ <<e>>[1].type \in T /\ d \in <<e>>[1].ids
  OBVIOUS
<1> HIDE DEF e
<1> QED
  BY <1>1, <1>2 DEF Announced

(* The write guards announce every valid contact of a sweep.               *)
LEMMA InvalidatedAnnounced ==
  ASSUME NEW t, NEW S, NEW d \in S \cap ValidOnes(t)
  PROVE  Announced(Invalidated(t, S), d, {"Invalidated", "Dead"})
BY RaiseAnnounced DEF Invalidated

(* Handling an event for c leaves what waits for other contacts, and what  *)
(* waits for c of other types.                                             *)
LEMMA RestAnnounced ==
  ASSUME queue \in Seq(Event), NEW c \in Contact, NEW type, Handle(type, c),
         NEW d, NEW T, Announced(queue, d, T), d # c \/ type \notin T
  PROVE  Announced(Rest(c), d, T)
<1>1. PICK k \in 1..Len(queue) : queue[k].type \in T /\ d \in queue[k].ids
  BY DEF Announced
<1>2. queue # <<>> /\ Len(queue) \in Nat /\ Len(queue) >= 1 /\ Head(queue) = queue[1] /\ queue[1] \in Event
  BY DEF Handle
<1>3. queue[1].type = type
  BY <1>2 DEF Handle
<1>4. CASE Head(queue).ids = {c}
  <2>1. k # 1
    BY <1>1, <1>2, <1>3, <1>4
  <2>2. k - 1 \in 1..Len(Tail(queue)) /\ Tail(queue)[k - 1] = queue[k]
    BY <1>2, <2>1
  <2> QED
    BY <1>1, <1>4, <2>2 DEF Announced, Rest
<1>5. CASE Head(queue).ids # {c}
  <2>1. Rest(c) = [queue EXCEPT ![1] = [queue[1] EXCEPT !.ids = @ \ {c}]]
    BY <1>5 DEF Rest
  <2>2. Len(Rest(c)) = Len(queue)
    BY <1>2, <2>1
  <2>3. CASE k # 1
    <3>1. Rest(c)[k] = queue[k]
      BY <2>1, <2>3
    <3> QED
      BY <1>1, <2>2, <3>1 DEF Announced
  <2>4. CASE k = 1
    <3>1. d # c
      BY <1>1, <1>3, <2>4
    <3>2. Rest(c)[1].type = queue[1].type /\ Rest(c)[1].ids = queue[1].ids \ {c}
      BY <1>2, <2>1 DEF Event
    <3> QED
      BY <1>1, <2>2, <2>4, <3>1, <3>2 DEF Announced
  <2> QED
    BY <2>3, <2>4
<1> QED
  BY <1>4, <1>5

(* Without events nothing is announced.                                    *)
LEMMA NothingAnnounced ==
  ASSUME NEW d, NEW T
  PROVE  ~Announced(<<>>, d, T)
BY DEF Announced

(* No failure is new in a table when a contact is inserted.                *)
NoNewFailure(t, u) == \A d \in Contact : u.st[d] \in {"Invalid", "Dead"} => u.st[d] = t.st[d]

(* A validated path, a new entry or a removal is no failure.               *)
LEMMA EntryNoFailure ==
  ASSUME NEW t \in Table, NEW c \in Contact, NEW h \in Contact
  PROVE  /\ NoNewFailure(t, SetActivePath(t, c, h)) /\ NoNewFailure(t, NewEntry(t, c, h))
         /\ NoNewFailure(t, RemoveContact(t, c))
<1>1. /\ SetActivePath(t, c, h).st = [t.st EXCEPT ![c] = "Valid"]
      /\ NewEntry(t, c, h).st = [t.st EXCEPT ![c] = "Valid"]
  BY DEF SetActivePath, NewEntry, SetState, Table
<1>2. RemoveContact(t, c).st = [t.st EXCEPT ![c] = "Absent"]
  BY DEF RemoveContact, SetState, Table
<1>3. t.st \in [Contact -> ContactState]
  BY DEF Table
<1> QED
  BY <1>1, <1>2, <1>3 DEF NoNewFailure

(* UNSStrategy::insert never makes a contact fail.                         *)
LEMMA InsertNoFailure ==
  ASSUME NEW t \in Table, NEW c \in Contact, NEW h \in Contact, NEW u \in Insert(t, c, h)
  PROVE  NoNewFailure(t, u)
<1>1. NoNewFailure(t, t)
  BY DEF NoNewFailure
<1>2. ASSUME NEW g \in Contact, u \in UpdateExisting(t, c, g) PROVE NoNewFailure(t, u)
  BY <1>1, <1>2, EntryNoFailure DEF UpdateExisting
<1>3. ASSUME u \in AddToBucket(RemoveContact(t, c), c, h) PROVE NoNewFailure(t, u)
  <2> DEFINE t1 == RemoveContact(t, c)
  <2>1. t1 \in Table /\ NoNewFailure(t, t1)
    BY RemoveContactType, EntryNoFailure
  <2>2. ASSUME NEW w \in InBucket(t1) PROVE NoNewFailure(t, NewEntry(RemoveContact(t1, w), c, h))
    <3>1. w \in Contact
      BY DEF InBucket, Present
    <3>2. RemoveContact(t1, w) \in Table /\ NoNewFailure(t1, RemoveContact(t1, w))
      BY <2>1, <3>1, RemoveContactType, EntryNoFailure
    <3>3. NoNewFailure(RemoveContact(t1, w), NewEntry(RemoveContact(t1, w), c, h))
      BY <3>2, EntryNoFailure
    <3> QED
      BY <2>1, <3>2, <3>3 DEF NoNewFailure
  <2>3. NoNewFailure(t1, NewEntry(t1, c, h))
    BY <2>1, EntryNoFailure
  <2>4. NoNewFailure(t, NewEntry(t1, c, h))
    BY <2>1, <2>3 DEF NoNewFailure
  <2> QED
    BY <1>3, <2>1, <2>2, <2>4 DEF AddToBucket
<1>4. NoNewFailure(t, NewEntry(t, c, c))
  BY EntryNoFailure
<1> QED
  BY <1>2, <1>3, <1>4 DEF Insert

(* Nor do the contacts a message tells about.                              *)
LEMMA ReportedNoFailure ==
  ASSUME NEW t \in Table, NEW u \in Reported(t)
  PROVE  NoNewFailure(t, u)
<1>1. PICK R : u = Told(t, R)
  BY DEF Reported
<1> QED
  BY <1>1 DEF NoNewFailure, Told

(* What set_invalid() makes of each contact.                               *)
LEMMA SetInvalidState ==
  ASSUME NEW t \in Table, NEW S, NEW d \in Contact
  PROVE  SetInvalid(t, S).st[d] = IF d \in S /\ t.st[d] \in {"Valid", "Dead"}
                                  THEN "Invalid" ELSE t.st[d]
BY DEF SetInvalid, Table

(* A sweep that is announced keeps all failures announced.                 *)
LEMMA SweepAnnounced ==
  ASSUME NEW t \in Table, NEW S, NEW q \in Seq(Event), NEW d \in Contact,
         t.st[d] = "Invalid" => Announced(q, d, {"Invalidated", "Dead"}),
         t.st[d] = "Dead" => Announced(q, d, {"Dead"})
  PROVE  /\ SetInvalid(t, S).st[d] = "Invalid"
              => Announced(q \o Invalidated(t, S), d, {"Invalidated", "Dead"})
         /\ SetInvalid(t, S).st[d] = "Dead" => Announced(q \o Invalidated(t, S), d, {"Dead"})
<1>1. Invalidated(t, S) \in Seq(Event)
  BY InvalidatedType
<1>2. Announced(q, d, {"Dead"}) => Announced(q, d, {"Invalidated", "Dead"})
  BY DEF Announced
<1>3. CASE d \in S /\ t.st[d] = "Valid"
  <2>1. Announced(Invalidated(t, S), d, {"Invalidated", "Dead"})
    BY <1>3, InvalidatedAnnounced DEF ValidOnes
  <2> QED
    BY <1>1, <1>3, <2>1, SetInvalidState, AppendAnnounced
<1>4. CASE ~(d \in S /\ t.st[d] = "Valid")
  BY <1>1, <1>2, <1>4, SetInvalidState, AppendAnnounced
<1> QED
  BY <1>3, <1>4

(* While no event waits, no contact is invalid or dead.                    *)
LEMMA QuietNoFailure ==
  ASSUME AllAnnounced, queue = <<>>, NEW d \in Contact
  PROVE  table.st[d] \notin {"Invalid", "Dead"}
BY NothingAnnounced DEF AllAnnounced

(* A message that is received announces all failures it causes: those of   *)
(* its not-via list, before its source is inserted, and the others after.  *)
LEMMA ReceiveAnnounced ==
  ASSUME TypeOK, AllAnnounced, NEW y \in Contact, NEW h \in Contact, NEW N, NEW S,
         Receive(y, h, N, S)
  PROVE  AllAnnounced'
<1> DEFINE t == SetInvalid(table, N)
           q == Invalidated(table, N)
<1>1. table \in Table /\ t \in Table /\ q \in Seq(Event) /\ queue = <<>>
  BY SetInvalidType, InvalidatedType DEF TypeOK, Receive, Quiet
<1>2. PICK i \in Insert(t, y, h) : \E r \in Reported(i) :
        table' = SetInvalid(r, S) /\ queue' = q \o Invalidated(r, S)
  BY DEF Receive
<1>3. PICK r \in Reported(i) : table' = SetInvalid(r, S) /\ queue' = q \o Invalidated(r, S)
  BY <1>2
<1>4. i \in Table /\ r \in Table
  BY <1>1, InsertType, ReportedType
<1>5. NoNewFailure(t, i) /\ NoNewFailure(i, r)
  BY <1>1, <1>4, InsertNoFailure, ReportedNoFailure
<1> SUFFICES ASSUME NEW d \in Contact
             PROVE  /\ table'.st[d] = "Invalid" => Announced(queue', d, {"Invalidated", "Dead"})
                    /\ table'.st[d] = "Dead" => Announced(queue', d, {"Dead"})
  BY DEF AllAnnounced
<1>6. table.st[d] \notin {"Invalid", "Dead"}
  BY <1>1, QuietNoFailure
<1>7. /\ t.st[d] = "Invalid" => Announced(q, d, {"Invalidated", "Dead"})
      /\ t.st[d] # "Dead"
  <2>1. t.st[d] = IF d \in N /\ table.st[d] \in {"Valid", "Dead"} THEN "Invalid" ELSE table.st[d]
    BY <1>1, SetInvalidState
  <2>2. t.st[d] = "Invalid" => d \in N \cap ValidOnes(table)
    BY <1>6, <2>1 DEF ValidOnes
  <2> QED
    BY <1>6, <2>1, <2>2, InvalidatedAnnounced
<1> HIDE DEF t, q
<1>8. /\ r.st[d] = "Invalid" => Announced(q, d, {"Invalidated", "Dead"})
      /\ r.st[d] = "Dead" => Announced(q, d, {"Dead"})
  BY <1>5, <1>7 DEF NoNewFailure
<1> QED
  BY <1>1, <1>3, <1>4, <1>8, SweepAnnounced

(* Every step keeps all failures announced.                                *)
LEMMA NextAnnounced == TypeOK /\ AllAnnounced /\ [Next]_vars => AllAnnounced'
<1> SUFFICES ASSUME TypeOK, AllAnnounced, [Next]_vars PROVE AllAnnounced'
  OBVIOUS
<1>1. table \in Table /\ queue \in Seq(Event) /\ table.st \in [Contact -> ContactState]
  BY DEF TypeOK, Table
<1>2. ASSUME table'.st = table.st, queue' = queue PROVE AllAnnounced'
  BY <1>2 DEF AllAnnounced
<1>3. ASSUME NEW i \in Table, NoNewFailure(table, i), table'.st = i.st, queue' = queue
      PROVE  AllAnnounced'
  BY <1>3 DEF AllAnnounced, NoNewFailure
<1>4. ASSUME NEW S, NEW q \in Seq(Event), table'.st = SetInvalid(table, S).st,
             queue' = q \o Invalidated(table, S),
             \A d \in Contact :
               /\ table.st[d] = "Invalid" => Announced(q, d, {"Invalidated", "Dead"})
               /\ table.st[d] = "Dead" => Announced(q, d, {"Dead"})
      PROVE  AllAnnounced'
  BY <1>1, <1>4, SweepAnnounced DEF AllAnnounced
<1>5. ASSUME NEW y \in Contact, NEW h \in Contact,
             \/ \E N \in Paths : FindNodeRsp(y, h, N)
             \/ \E c \in Contact : \E S \in Paths : ErrorRsp(c, y, h, S)
             \/ \E N \in Paths : \E S \in Paths : OtherMessage(y, h, N, S)
      PROVE  AllAnnounced'
  <2>1. \E N, S : Receive(y, h, N, S)
    BY <1>5, Zenon DEF FindNodeRsp, ErrorRsp, OtherMessage
  <2> QED
    BY <2>1, ReceiveAnnounced
<1>6. ASSUME NEW y \in Contact, Hello(y) \/ Restart(y) PROVE AllAnnounced'
  <2>1. table'.st = table.st /\ queue' = queue
    BY <1>1, <1>6 DEF Hello, Restart, Table
  <2> QED
    BY <1>2, <2>1
<1>7. ASSUME NEW y \in Contact, Discovery(y) \/ LateDiscovery(y) PROVE AllAnnounced'
  <2>1. PICK i \in Insert(table, y, y) : \E r \in Reported(i) :
          table' = [r EXCEPT !.uln = @ \cup {y}] \/ table' = r
    BY <1>7 DEF Discovery, LateDiscovery
  <2>2. PICK r \in Reported(i) : table' = [r EXCEPT !.uln = @ \cup {y}] \/ table' = r
    BY <2>1
  <2>3. i \in Table /\ r \in Table
    BY <1>1, InsertType, ReportedType
  <2>4. NoNewFailure(table, i) /\ NoNewFailure(i, r)
    BY <1>1, <2>3, InsertNoFailure, ReportedNoFailure
  <2>5. NoNewFailure(table, r)
    BY <2>4 DEF NoNewFailure
  <2>6. table'.st = r.st /\ queue' = queue
    BY <1>7, <2>2, <2>3 DEF Discovery, LateDiscovery, Table
  <2> QED
    BY <1>3, <2>3, <2>5, <2>6
<1>8. ASSUME NEW y \in Contact, NeighborDown(y) PROVE AllAnnounced'
  <2> DEFINE S == Via(table, y)
  <2>1. SetInvalid(table, S) \in Table
    BY <1>1, SetInvalidType
  <2>2. table'.st = SetInvalid(table, S).st
    BY <1>8, <2>1 DEF NeighborDown, Table
  <2>3. queue = <<>> /\ Invalidated(table, S) \in Seq(Event) /\ queue' = Invalidated(table, S)
    BY <1>8, InvalidatedType DEF NeighborDown, Quiet
  <2>4. queue' = queue \o Invalidated(table, S)
    BY <2>3
  <2> HIDE DEF S
  <2> QED
    BY <1>1, <1>4, <2>2, <2>4 DEF AllAnnounced
<1>9. CASE Input
  BY <1>5, <1>6, <1>7, <1>8, <1>9 DEF Input
<1>10. ASSUME NEW c \in Contact, ScheduledTimer(c) PROVE AllAnnounced'
  <2>1. table'.st = table.st /\ queue' = queue
    BY <1>1, <1>10 DEF ScheduledTimer, Table
  <2> QED
    BY <1>2, <2>1
<1>11. ASSUME NEW c \in Contact, NEW inf, NEW rate, HandleRediscoveryFailure(c, inf, rate)
       PROVE  AllAnnounced'
  <2>1. CASE UNCHANGED <<table, queue>>
    BY <1>2, <2>1
  <2>2. CASE SendNext(c, inf) \/ WaitForOthers(c, inf, rate) \/ NextRound(c, inf, rate)
    <3>1. table'.st = table.st /\ queue' = queue
      BY <1>1, <2>2 DEF SendNext, WaitForOthers, NextRound, Table
    <3> QED
      BY <1>2, <3>1
  <2>3. CASE GiveUp(c, inf, rate)
    <3> DEFINE e == Raise("Dead", {c}, {d \in Contact : table.hop[d] = d})
    <3>1. table'.st = [table.st EXCEPT ![c] = "Dead"] /\ queue' = queue \o e
      BY <1>1, <2>3 DEF GiveUp, SetState, Table
    <3>2. e \in Seq(Event) /\ Announced(e, c, {"Dead"})
      BY RaiseType, RaiseAnnounced DEF EventType
    <3> HIDE DEF e
    <3> SUFFICES ASSUME NEW d \in Contact
                 PROVE  /\ table'.st[d] = "Invalid"
                             => Announced(queue', d, {"Invalidated", "Dead"})
                        /\ table'.st[d] = "Dead" => Announced(queue', d, {"Dead"})
      BY DEF AllAnnounced
    <3>3. CASE d = c
      BY <1>1, <3>1, <3>2, <3>3, AppendAnnounced
    <3>4. CASE d # c
      <4>1. table'.st[d] = table.st[d]
        BY <1>1, <3>1, <3>4
      <4> QED
        BY <1>1, <3>1, <3>2, <4>1, AppendAnnounced DEF AllAnnounced
    <3> QED
      BY <3>3, <3>4
  <2> QED
    BY <1>11, <2>1, <2>2, <2>3 DEF HandleRediscoveryFailure
<1>12. ASSUME NEW c \in Contact, Timer(c) PROVE AllAnnounced'
  BY <1>10, <1>11, <1>12 DEF Timer, RequestTimer, RateLimitTimer
<1>13. ASSUME NEW c \in Contact, ProbeTimer(c) PROVE AllAnnounced'
  BY <1>1, <1>4, <1>13 DEF ProbeTimer, AllAnnounced
<1>14. ASSUME NEW c \in Contact, StartRediscovery(c) PROVE AllAnnounced'
  <2> DEFINE t == SetInvalid(table, Affected(c))
             e == Raise("Interrupted", {c} \cap {d \in ValidOnes(t) : t.hop[d] = d}, {c})
             q == Rest(c) \o Invalidated(table, Affected(c))
  <2>1. t \in Table /\ Rest(c) \in Seq(Event) /\ q \in Seq(Event) /\ e \in Seq(Event)
    <3>1. "Interrupted" \in EventType /\ {c} \cap {d \in ValidOnes(t) : t.hop[d] = d} \in SUBSET Contact
      BY DEF EventType
    <3>2. e \in Seq(Event)
      BY <3>1, RaiseType
    <3>3. Rest(c) \in Seq(Event)
      BY <1>1, <1>14, RestType DEF StartRediscovery
    <3>4. q \in Seq(Event)
      BY <3>3, InvalidatedType, AppendType
    <3> QED
      BY <1>1, <3>2, <3>3, <3>4, SetInvalidType
  <2>2. queue' = q \o e
    BY <1>14 DEF StartRediscovery
  <2>3. \/ table'.st = t.st /\ t.st[c] = "Absent"
        \/ table'.st = [t.st EXCEPT ![c] = "Rediscovering"]
    <3>1. CASE t.st[c] = "Absent"
      BY <1>14, <3>1 DEF StartRediscovery
    <3>2. CASE t.st[c] # "Absent"
      <4>1. table' = [t EXCEPT !.st[c] = "Rediscovering", !.vias[c] = ValidOnes(t),
                               !.retries[c] = 0]
        BY <1>14, <3>2, Zenon DEF StartRediscovery
      <4>2. t \in Table
        BY <2>1
      <4> HIDE DEF t
      <4> QED
        BY <4>1, <4>2 DEF Table
    <3> QED
      BY <3>1, <3>2
  <2> SUFFICES ASSUME NEW d \in Contact
               PROVE  /\ table'.st[d] = "Invalid" => Announced(queue', d, {"Invalidated", "Dead"})
                      /\ table'.st[d] = "Dead" => Announced(queue', d, {"Dead"})
    BY DEF AllAnnounced
  <2>4. CASE d = c
    BY <2>1, <2>3, <2>4 DEF Table
  <2>5. CASE d # c
    <3>1. table'.st[d] = t.st[d]
      <4> HIDE DEF t
      <4>1. t \in Table
        BY <2>1
      <4> QED
        BY <2>3, <2>5, <4>1 DEF Table
    <3>2. /\ table.st[d] = "Invalid" => Announced(Rest(c), d, {"Invalidated", "Dead"})
          /\ table.st[d] = "Dead" => Announced(Rest(c), d, {"Dead"})
      <4>1. Handle("Invalidated", c)
        BY <1>14 DEF StartRediscovery
      <4> QED
        BY <1>1, <2>5, <4>1, RestAnnounced DEF AllAnnounced
    <3>3. /\ t.st[d] = "Invalid" => Announced(q, d, {"Invalidated", "Dead"})
          /\ t.st[d] = "Dead" => Announced(q, d, {"Dead"})
      BY <1>1, <2>1, <3>2, SweepAnnounced
    <3> HIDE DEF t, q, e
    <3> QED
      BY <2>1, <2>2, <3>1, <3>3, AppendAnnounced
  <2> QED
    BY <2>4, <2>5
<1>15. ASSUME NEW c \in Contact, ContactInterrupted(c) \/ ContactRemoved(c) PROVE AllAnnounced'
  <2> DEFINE S == Affected(c)
  <2>1. PICK type \in {"Interrupted", "Removed"} : Handle(type, c)
    BY <1>15 DEF ContactInterrupted, ContactRemoved
  <2>2. SetInvalid(table, S) \in Table /\ Rest(c) \in Seq(Event)
    BY <1>1, <2>1, SetInvalidType, RestType
  <2>3. table'.st = SetInvalid(table, S).st /\ queue' = Rest(c) \o Invalidated(table, S)
    BY <1>15, <2>2 DEF ContactInterrupted, ContactRemoved, Table
  <2>4. \A d \in Contact :
          /\ table.st[d] = "Invalid" => Announced(Rest(c), d, {"Invalidated", "Dead"})
          /\ table.st[d] = "Dead" => Announced(Rest(c), d, {"Dead"})
    BY <1>1, <2>1, RestAnnounced DEF AllAnnounced
  <2> HIDE DEF S
  <2> QED
    BY <1>4, <2>2, <2>3, <2>4
<1>16. ASSUME NEW c \in Contact, RemoveDead(c) PROVE AllAnnounced'
  <2> DEFINE e == Raise("Removed", {c} \cap Present(table), {d \in Contact : table.hop[d] = d})
  <2>1. Rest(c) \in Seq(Event) /\ e \in Seq(Event)
    <3>1. "Removed" \in EventType /\ {c} \cap Present(table) \in SUBSET Contact
      BY DEF EventType
    <3> QED
      BY <1>1, <1>16, <3>1, RestType, RaiseType DEF RemoveDead
  <2>2. table'.st = [table.st EXCEPT ![c] = "Absent"] /\ queue' = Rest(c) \o e
    BY <1>1, <1>16 DEF RemoveDead, RemoveContact, SetState, Table
  <2> HIDE DEF e
  <2> SUFFICES ASSUME NEW d \in Contact
               PROVE  /\ table'.st[d] = "Invalid" => Announced(queue', d, {"Invalidated", "Dead"})
                      /\ table'.st[d] = "Dead" => Announced(queue', d, {"Dead"})
    BY DEF AllAnnounced
  <2>3. CASE d = c
    BY <1>1, <2>2, <2>3
  <2>4. CASE d # c
    <3>1. table'.st[d] = table.st[d]
      BY <1>1, <2>2, <2>4
    <3>2. /\ table.st[d] = "Invalid" => Announced(Rest(c), d, {"Invalidated", "Dead"})
          /\ table.st[d] = "Dead" => Announced(Rest(c), d, {"Dead"})
      BY <1>1, <1>16, <2>4, RestAnnounced DEF AllAnnounced, RemoveDead
    <3> QED
      BY <2>1, <2>2, <3>1, <3>2, AppendAnnounced
  <2> QED
    BY <2>3, <2>4
<1>17. CASE UNCHANGED vars
  BY <1>2, <1>17 DEF vars
<1> QED
  BY <1>9, <1>12, <1>13, <1>14, <1>15, <1>16, <1>17 DEF Next, Dispatch

(* No failure is lost: whenever all events are handled, every contact is   *)
(* valid or being rediscovered, for any number of contacts and failures    *)
(* and any order of timers, messages and events.                           *)
THEOREM FailuresAlwaysHandled == Spec => []FailuresAreHandled
<1>1. Init => AllAnnounced
  BY DEF Init, EmptyTable, AllAnnounced
<1>2. TypeOK /\ AllAnnounced => FailuresAreHandled
  <2> SUFFICES ASSUME TypeOK, AllAnnounced, Quiet, NEW c \in Contact
               PROVE  table.st[c] \in {"Absent", "Valid", "Rediscovering"}
    BY DEF FailuresAreHandled
  <2>1. table.st[c] \in ContactState
    BY DEF TypeOK, Table
  <2>2. table.st[c] \notin {"Invalid", "Dead"}
    BY QuietNoFailure DEF Quiet
  <2> QED
    BY <2>1, <2>2 DEF ContactState
<1> QED
  BY <1>1, <1>2, TypeCorrect, NextAnnounced, PTL DEF Spec

-------------------------------------------------------------------------------
(* Events of removed contacts *)

(* A contact whose removal waits to be handled is not in the table, and    *)
(* the events are being handled: no message can bring it back before.      *)
RemovedIsGone ==
  \A d \in Contact : Announced(queue, d, {"Removed"}) => draining /\ table.st[d] = "Absent"

(* What waits in a joined queue waits in one of its parts.                 *)
LEMMA AppendOrigin ==
  ASSUME NEW q \in Seq(Event), NEW r \in Seq(Event), NEW d, NEW T, Announced(q \o r, d, T)
  PROVE  Announced(q, d, T) \/ Announced(r, d, T)
<1>1. PICK k \in 1..Len(q \o r) : (q \o r)[k].type \in T /\ d \in (q \o r)[k].ids
  BY DEF Announced
<1>2. CASE k <= Len(q)
  <2>1. k \in 1..Len(q) /\ (q \o r)[k] = q[k]
    BY <1>2
  <2> QED
    BY <1>1, <2>1 DEF Announced
<1>3. CASE ~(k <= Len(q))
  <2>1. k - Len(q) \in 1..Len(r) /\ (q \o r)[k] = r[k - Len(q)]
    BY <1>3
  <2> QED
    BY <1>1, <2>1 DEF Announced
<1> QED
  BY <1>2, <1>3

(* What is raised is what was asked for.                                   *)
LEMMA RaiseOrigin ==
  ASSUME NEW type, NEW ids, NEW uln, NEW d, NEW T, Announced(Raise(type, ids, uln), d, T)
  PROVE  type \in T /\ d \in ids
<1> DEFINE e == [type |-> type, ids |-> ids, uln |-> ids \cap uln]
<1>1. Raise(type, ids, uln) = <<e>>
  <2>1. ids # {}
    BY NothingAnnounced DEF Raise
  <2> QED
    BY <2>1 DEF Raise
<1>2. PICK k \in 1..Len(<<e>>) : <<e>>[k].type \in T /\ d \in <<e>>[k].ids
  BY <1>1 DEF Announced
<1>3. k = 1 /\ <<e>>[1] = e
  OBVIOUS
<1> QED
  BY <1>2, <1>3

(* What still waits after an event was handled has waited before.          *)
LEMMA RestOrigin ==
  ASSUME queue \in Seq(Event), NEW c \in Contact, NEW type, Handle(type, c),
         NEW d, NEW T, Announced(Rest(c), d, T)
  PROVE  Announced(queue, d, T)
<1>1. PICK k \in 1..Len(Rest(c)) : Rest(c)[k].type \in T /\ d \in Rest(c)[k].ids
  BY DEF Announced
<1>2. queue # <<>> /\ Len(queue) \in Nat /\ Len(queue) >= 1 /\ queue[1] \in Event
  BY DEF Handle
<1>3. CASE Head(queue).ids = {c}
  <2>1. Rest(c) = Tail(queue)
    BY <1>3 DEF Rest
  <2>2. k + 1 \in 1..Len(queue) /\ Tail(queue)[k] = queue[k + 1]
    BY <1>2, <2>1
  <2> QED
    BY <1>1, <2>1, <2>2 DEF Announced
<1>4. CASE Head(queue).ids # {c}
  <2>1. Rest(c) = [queue EXCEPT ![1] = [queue[1] EXCEPT !.ids = @ \ {c}]]
    BY <1>4 DEF Rest
  <2>2. k \in 1..Len(queue)
    BY <1>2, <2>1
  <2>3. Rest(c)[k].type = queue[k].type /\ Rest(c)[k].ids \subseteq queue[k].ids
    BY <1>2, <2>1, <2>2 DEF Event
  <2> QED
    BY <1>1, <2>2, <2>3 DEF Announced
<1> QED
  BY <1>3, <1>4

(* A sweep removes no contact.                                             *)
LEMMA SweepRemovesNone ==
  ASSUME NEW t, NEW S, NEW d
  PROVE  ~Announced(Invalidated(t, S), d, {"Removed"})
BY RaiseOrigin DEF Invalidated

(* Nor does it bring a removal into the queue.                             *)
LEMMA SweepKeepsRemovals ==
  ASSUME NEW q \in Seq(Event), NEW t, NEW S, NEW d,
         Announced(q \o Invalidated(t, S), d, {"Removed"})
  PROVE  Announced(q, d, {"Removed"})
BY SweepRemovesNone, AppendOrigin, InvalidatedType

(* Only the events themselves announce a removal: inputs and timers do not.*)
LEMMA OnlyEventsRemove ==
  ASSUME TypeOK, RemovedIsGone, NEW d \in Contact, Announced(queue', d, {"Removed"}),
         Input \/ \E c \in Contact : Timer(c) \/ ProbeTimer(c)
  PROVE  FALSE
<1>1. queue \in Seq(Event)
  BY DEF TypeOK
<1>2. CASE Input
  <2>1. ASSUME NEW y, NEW h, NEW N, NEW S, Receive(y, h, N, S) PROVE FALSE
    <3>1. PICK t, U, r, V : queue' = Invalidated(t, U) \o Invalidated(r, V)
      BY <2>1, Zenon DEF Receive
    <3> QED
      BY <3>1, SweepKeepsRemovals, SweepRemovesNone, InvalidatedType
  <2>2. ASSUME NEW y, NeighborDown(y) PROVE FALSE
    BY <2>2, SweepRemovesNone DEF NeighborDown
  <2>3. ASSUME NEW y, Hello(y) \/ Discovery(y) \/ LateDiscovery(y) \/ Restart(y) PROVE FALSE
    <3>1. queue' = <<>>
      BY <2>3 DEF Hello, Discovery, LateDiscovery, Restart, Quiet
    <3> QED
      BY <3>1, NothingAnnounced
  <2> QED
    BY <1>2, <2>1, <2>2, <2>3, Zenon DEF Input, FindNodeRsp, ErrorRsp, OtherMessage
<1>3. ASSUME NEW c \in Contact, Timer(c) \/ ProbeTimer(c) PROVE FALSE
  <2>1. ~draining
    BY <1>3 DEF Timer, ScheduledTimer, RequestTimer, RateLimitTimer, ProbeTimer, Running
  <2>2. ~Announced(queue, d, {"Removed"})
    BY <2>1 DEF RemovedIsGone
  <2>3. \/ queue' = queue
        \/ \E t, S : queue' = queue \o Invalidated(t, S)
        \/ \E U : queue' = queue \o Raise("Dead", {c}, U)
    BY <1>3, Zenon DEF Timer, ScheduledTimer, RequestTimer, RateLimitTimer, ProbeTimer,
         HandleRediscoveryFailure, SendNext, WaitForOthers, NextRound, GiveUp
  <2>4. ASSUME NEW U, queue' = queue \o Raise("Dead", {c}, U) PROVE FALSE
    <3>1. /\ Raise("Dead", {c}, U) \in Seq(Event)
          /\ ~Announced(Raise("Dead", {c}, U), d, {"Removed"})
      BY RaiseType, RaiseOrigin DEF EventType
    <3> QED
      BY <1>1, <2>2, <2>4, <3>1, AppendOrigin
  <2>5. ASSUME NEW t, NEW S, queue' = queue \o Invalidated(t, S) PROVE FALSE
    BY <1>1, <2>2, <2>5, SweepKeepsRemovals
  <2> QED
    BY <2>2, <2>3, <2>4, <2>5
<1> QED
  BY <1>2, <1>3

(* Every step keeps the removed contacts out of the table.                 *)
LEMMA NextRemoved == TypeOK /\ RemovedIsGone /\ [Next]_vars => RemovedIsGone'
<1> SUFFICES ASSUME TypeOK, RemovedIsGone, [Next]_vars, NEW d \in Contact,
                    Announced(queue', d, {"Removed"})
             PROVE  draining' /\ table'.st[d] = "Absent"
  BY DEF RemovedIsGone
<1>1. table \in Table /\ queue \in Seq(Event) /\ table.st \in [Contact -> ContactState]
  BY DEF TypeOK, Table
<1>2. CASE Input \/ \E c \in Contact : Timer(c) \/ ProbeTimer(c)
  BY <1>2, OnlyEventsRemove
<1>3. queue' # <<>>
  BY NothingAnnounced
<1>4. ASSUME NEW c \in Contact, Dispatch(c) PROVE draining'
  BY <1>3, <1>4 DEF Dispatch, StartRediscovery, ContactInterrupted, RemoveDead, ContactRemoved
<1>5. ASSUME NEW c \in Contact, StartRediscovery(c) PROVE table'.st[d] = "Absent"
  <2> DEFINE t == SetInvalid(table, Affected(c))
             V == {c} \cap {b \in ValidOnes(t) : t.hop[b] = b}
  <2>1. Rest(c) \in Seq(Event) /\ Handle("Invalidated", c)
    BY <1>1, <1>5, RestType DEF StartRediscovery
  <2>2. queue' = Rest(c) \o Invalidated(table, Affected(c)) \o Raise("Interrupted", V, {c})
    BY <1>5 DEF StartRediscovery
  <2>3. V \in SUBSET Contact /\ "Interrupted" \in EventType
    BY DEF EventType
  <2> HIDE DEF V
  <2>4. /\ Raise("Interrupted", V, {c}) \in Seq(Event)
        /\ ~Announced(Raise("Interrupted", V, {c}), d, {"Removed"})
    BY <2>3, RaiseType, RaiseOrigin
  <2>5. Announced(Rest(c) \o Invalidated(table, Affected(c)), d, {"Removed"})
    BY <2>1, <2>2, <2>4, AppendOrigin, AppendType, InvalidatedType
  <2>6. Announced(queue, d, {"Removed"})
    BY <1>1, <2>1, <2>5, AppendOrigin, InvalidatedType, SweepRemovesNone, RestOrigin
  <2>7. t \in Table /\ t.st[d] = "Absent"
    BY <1>1, <2>6, SetInvalidType, SetInvalidState DEF RemovedIsGone
  <2>8. CASE t.st[c] = "Absent"
    BY <1>5, <2>7, <2>8 DEF StartRediscovery
  <2>9. CASE t.st[c] # "Absent"
    <3>1. table' = [t EXCEPT !.st[c] = "Rediscovering", !.vias[c] = ValidOnes(t),
                             !.retries[c] = 0]
      BY <1>5, <2>9, Zenon DEF StartRediscovery
    <3> HIDE DEF t
    <3> QED
      BY <2>7, <2>9, <3>1 DEF Table
  <2> QED
    BY <2>8, <2>9
<1>6. ASSUME NEW c \in Contact, ContactInterrupted(c) \/ ContactRemoved(c)
      PROVE  table'.st[d] = "Absent"
  <2>1. PICK type \in {"Interrupted", "Removed"} : Handle(type, c)
    BY <1>6 DEF ContactInterrupted, ContactRemoved
  <2>2. SetInvalid(table, Affected(c)) \in Table /\ Rest(c) \in Seq(Event)
    BY <1>1, <2>1, SetInvalidType, RestType
  <2>3. /\ table'.st = SetInvalid(table, Affected(c)).st
        /\ queue' = Rest(c) \o Invalidated(table, Affected(c))
    BY <1>6, <2>2 DEF ContactInterrupted, ContactRemoved, Table
  <2>4. Announced(queue, d, {"Removed"})
    BY <1>1, <2>1, <2>2, <2>3, AppendOrigin, InvalidatedType, SweepRemovesNone, RestOrigin
  <2> QED
    BY <1>1, <2>3, <2>4, SetInvalidState DEF RemovedIsGone
<1>7. ASSUME NEW c \in Contact, RemoveDead(c) PROVE table'.st[d] = "Absent"
  <2> DEFINE P == {c} \cap Present(table)
             U == {b \in Contact : table.hop[b] = b}
  <2>1. Rest(c) \in Seq(Event) /\ Handle("Dead", c)
    BY <1>1, <1>7, RestType DEF RemoveDead
  <2>2. table'.st = [table.st EXCEPT ![c] = "Absent"] /\ queue' = Rest(c) \o Raise("Removed", P, U)
    BY <1>1, <1>7 DEF RemoveDead, RemoveContact, SetState, Table
  <2>3. P \in SUBSET Contact /\ P \subseteq {c} /\ "Removed" \in EventType
    BY DEF EventType
  <2> HIDE DEF P, U
  <2>4. Raise("Removed", P, U) \in Seq(Event)
    BY <2>3, RaiseType
  <2>5. CASE Announced(Raise("Removed", P, U), d, {"Removed"})
    BY <1>1, <2>2, <2>3, <2>5, RaiseOrigin
  <2>6. CASE Announced(Rest(c), d, {"Removed"})
    BY <1>1, <2>1, <2>2, <2>6, RestOrigin DEF RemovedIsGone
  <2> QED
    BY <2>1, <2>2, <2>4, <2>5, <2>6, AppendOrigin
<1>8. CASE UNCHANGED vars
  BY <1>8 DEF vars, RemovedIsGone
<1> QED
  BY <1>2, <1>4, <1>5, <1>6, <1>7, <1>8 DEF Next, Dispatch

-------------------------------------------------------------------------------
(* Rediscoveries and their timers *)

(* A contact that is rediscovered and whose messages would be accepted.    *)
Searched(t, d) == t.st[d] = "Rediscovering" /\ d \notin t.ahead

(* No contact of u is searched that was not searched in t.                 *)
NoNewSearch(t, u) == \A d \in Contact : Searched(u, d) => Searched(t, d)

(* A validated path, a new entry or a removal ends the search for the      *)
(* contact and starts none.                                                *)
LEMMA EntryNoSearch ==
  ASSUME NEW t \in Table, NEW c \in Contact, NEW h \in Contact
  PROVE  /\ NoNewSearch(t, SetActivePath(t, c, h)) /\ ~Searched(SetActivePath(t, c, h), c)
         /\ NoNewSearch(t, NewEntry(t, c, h)) /\ ~Searched(NewEntry(t, c, h), c)
         /\ NoNewSearch(t, RemoveContact(t, c)) /\ ~Searched(RemoveContact(t, c), c)
<1>1. /\ SetState(t, c, "Valid") \in Table /\ SetState(t, c, "Absent") \in Table
      /\ SetActivePath(t, c, h) \in Table
  BY SetStateType, SetActivePathType DEF ContactState
<1>2. /\ SetState(t, c, "Valid").st = [t.st EXCEPT ![c] = "Valid"]
      /\ SetState(t, c, "Absent").st = [t.st EXCEPT ![c] = "Absent"]
      /\ SetState(t, c, "Valid").ahead = t.ahead /\ SetState(t, c, "Absent").ahead = t.ahead
  BY DEF SetState, Table
<1>3. /\ SetActivePath(t, c, h).st = [t.st EXCEPT ![c] = "Valid"]
      /\ SetActivePath(t, c, h).ahead = t.ahead
  BY <1>1, <1>2 DEF SetActivePath, Table
<1>4. /\ NewEntry(t, c, h).st = [t.st EXCEPT ![c] = "Valid"]
      /\ NewEntry(t, c, h).ahead = t.ahead \ {c}
  BY <1>1, <1>3 DEF NewEntry, Table
<1>5. /\ RemoveContact(t, c).st = [t.st EXCEPT ![c] = "Absent"]
      /\ RemoveContact(t, c).ahead = t.ahead \ {c}
  BY <1>1, <1>2 DEF RemoveContact, Table
<1>6. t.st \in [Contact -> ContactState]
  BY DEF Table
<1> QED
  BY <1>3, <1>4, <1>5, <1>6 DEF NoNewSearch, Searched

(* Inserting the source of a message ends the search for it, whatever      *)
(* UNSStrategy decides, and starts none.                                   *)
LEMMA InsertNoSearch ==
  ASSUME NEW t \in Table, NEW c \in Contact, NEW h \in Contact, NEW u \in Insert(t, c, h)
  PROVE  NoNewSearch(t, u) /\ ~Searched(u, c)
<1>1. NoNewSearch(t, t)
  BY DEF NoNewSearch
<1>2. ASSUME NEW g \in Contact, u \in UpdateExisting(t, c, g)
      PROVE  NoNewSearch(t, u) /\ ~Searched(u, c)
  <2>1. u = SetActivePath(t, c, g) \/ (u = t /\ (c \in t.ahead \/ t.st[c] \in {"Dead", "Valid"}))
    BY <1>2 DEF UpdateExisting
  <2>2. CASE u = SetActivePath(t, c, g)
    BY <2>2, EntryNoSearch
  <2>3. CASE u = t /\ (c \in t.ahead \/ t.st[c] \in {"Dead", "Valid"})
    BY <1>1, <2>3 DEF Searched
  <2> QED
    BY <2>1, <2>2, <2>3
<1>3. ASSUME u \in AddToBucket(RemoveContact(t, c), c, h)
      PROVE  NoNewSearch(t, u) /\ ~Searched(u, c)
  <2> DEFINE t1 == RemoveContact(t, c)
  <2>1. t1 \in Table /\ NoNewSearch(t, t1) /\ ~Searched(t1, c)
    BY RemoveContactType, EntryNoSearch
  <2>2. ASSUME NEW w \in InBucket(t1), u = NewEntry(RemoveContact(t1, w), c, h)
        PROVE  NoNewSearch(t, u) /\ ~Searched(u, c)
    <3>1. w \in Contact
      BY DEF InBucket, Present
    <3>2. RemoveContact(t1, w) \in Table /\ NoNewSearch(t1, RemoveContact(t1, w))
      BY <2>1, <3>1, RemoveContactType, EntryNoSearch
    <3>3. NoNewSearch(RemoveContact(t1, w), u) /\ ~Searched(u, c)
      BY <2>2, <3>2, EntryNoSearch
    <3> QED
      BY <2>1, <3>2, <3>3 DEF NoNewSearch
  <2>3. ASSUME u = NewEntry(t1, c, h) PROVE NoNewSearch(t, u) /\ ~Searched(u, c)
    <3>1. NoNewSearch(t1, u) /\ ~Searched(u, c)
      BY <2>1, <2>3, EntryNoSearch
    <3> QED
      BY <2>1, <3>1 DEF NoNewSearch
  <2> QED
    BY <1>3, <2>1, <2>2, <2>3 DEF AddToBucket
<1>4. NoNewSearch(t, NewEntry(t, c, c)) /\ ~Searched(NewEntry(t, c, c), c)
  BY EntryNoSearch
<1> QED
  BY <1>2, <1>3, <1>4 DEF Insert

(* The contacts a message tells about are not searched afterwards.         *)
LEMMA ReportedNoSearch ==
  ASSUME NEW t \in Table, NEW u \in Reported(t)
  PROVE  NoNewSearch(t, u)
<1>1. PICK R : u = Told(t, R)
  BY DEF Reported
<1> QED
  BY <1>1 DEF NoNewSearch, Searched, Told

(* set_invalid() starts no search.                                         *)
LEMMA SetInvalidNoSearch ==
  ASSUME NEW t \in Table, NEW S
  PROVE  NoNewSearch(t, SetInvalid(t, S))
<1>1. SetInvalid(t, S).ahead = t.ahead
  BY DEF SetInvalid, Table
<1> QED
  BY <1>1, SetInvalidState DEF NoNewSearch, Searched

(* A message ends the search for its source and starts none.               *)
LEMMA ReceiveNoSearch ==
  ASSUME TypeOK, NEW y \in Contact, NEW h \in Contact, NEW N, NEW S, Receive(y, h, N, S)
  PROVE  NoNewSearch(table, table') /\ ~Searched(table', y)
<1>1. SetInvalid(table, N) \in Table /\ NoNewSearch(table, SetInvalid(table, N))
  BY SetInvalidType, SetInvalidNoSearch DEF TypeOK
<1>2. PICK i \in Insert(SetInvalid(table, N), y, h) : \E r \in Reported(i) :
        table' = SetInvalid(r, S)
  BY DEF Receive
<1>3. PICK r \in Reported(i) : table' = SetInvalid(r, S)
  BY <1>2
<1>4. i \in Table /\ r \in Table
  BY <1>1, InsertType, ReportedType
<1>5. NoNewSearch(SetInvalid(table, N), i) /\ ~Searched(i, y)
  BY <1>1, InsertNoSearch
<1>6. NoNewSearch(i, r) /\ NoNewSearch(r, table')
  BY <1>3, <1>4, ReportedNoSearch, SetInvalidNoSearch
<1> QED
  BY <1>1, <1>5, <1>6 DEF NoNewSearch

(* A contact that is searched for has a timer that drives its search.      *)
Driven(d) == Searched(table, d) => scheduled[d] + inflight[d] + rateLimit[d] > 0

(* handle_rediscovery_failure sends a request, waits for one, schedules    *)
(* the next round, or ends the search.                                     *)
LEMMA RediscoveryFailureDriven ==
  ASSUME TypeOK, NEW c \in Contact, NEW inf \in [Contact -> Nat], NEW rate \in [Contact -> Nat],
         \A b \in Contact \ {c} : inf[b] = inflight[b] /\ rate[b] = rateLimit[b],
         HandleRediscoveryFailure(c, inf, rate), NEW d \in Contact, Driven(d)
  PROVE  Driven(d)'
<1>1. /\ table \in Table /\ table.st \in [Contact -> ContactState]
      /\ inflight \in [Contact -> Nat] /\ rateLimit \in [Contact -> Nat]
      /\ scheduled \in [Contact -> Nat] /\ rateLimit' = rate
  BY DEF TypeOK, Table, HandleRediscoveryFailure
<1>2. CASE table.st[c] # "Rediscovering"
  <2>1. inflight' = inf /\ table' = table /\ scheduled' = scheduled
    BY <1>2 DEF HandleRediscoveryFailure
  <2> QED
    BY <1>1, <1>2, <2>1 DEF Driven, Searched
<1>3. CASE SendNext(c, inf)
  <2>1. /\ table'.st = table.st /\ table'.ahead = table.ahead
        /\ scheduled' = scheduled /\ inflight' = [inf EXCEPT ![c] = @ + 1]
    BY <1>1, <1>3 DEF SendNext, Table
  <2> QED
    BY <1>1, <2>1 DEF Driven, Searched
<1>4. CASE WaitForOthers(c, inf, rate)
  <2>1. /\ table'.st = table.st /\ table'.ahead = table.ahead
        /\ scheduled' = scheduled /\ inflight' = inf /\ inf[c] + rate[c] > 0
    BY <1>1, <1>4 DEF WaitForOthers, Table
  <2> QED
    BY <1>1, <2>1 DEF Driven, Searched
<1>5. CASE NextRound(c, inf, rate)
  <2>1. /\ table'.st = table.st /\ table'.ahead = table.ahead
        /\ scheduled' = [scheduled EXCEPT ![c] = @ + 1] /\ inflight' = inf
    BY <1>1, <1>5 DEF NextRound, Table
  <2> QED
    BY <1>1, <2>1 DEF Driven, Searched
<1>6. CASE GiveUp(c, inf, rate)
  <2>1. /\ table'.st = [table.st EXCEPT ![c] = "Dead"] /\ table'.ahead = table.ahead
        /\ scheduled' = scheduled /\ inflight' = inf
    BY <1>1, <1>6 DEF GiveUp, SetState, Table
  <2> QED
    BY <1>1, <2>1 DEF Driven, Searched
<1> QED
  BY <1>2, <1>3, <1>4, <1>5, <1>6 DEF HandleRediscoveryFailure

(* Every step keeps the searches driven.                                   *)
LEMMA NextDriven ==
  ASSUME TypeOK, RemovedIsGone, RediscoveryIsDriven, [Next]_vars
  PROVE  RediscoveryIsDriven'
<1> SUFFICES ASSUME NEW d \in Contact PROVE Driven(d)'
  BY DEF RediscoveryIsDriven, Driven, Searched
<1>1. /\ table \in Table /\ queue \in Seq(Event) /\ table.st \in [Contact -> ContactState]
      /\ inflight \in [Contact -> Nat] /\ rateLimit \in [Contact -> Nat]
      /\ scheduled \in [Contact -> Nat]
  BY DEF TypeOK, Table
<1>2. Driven(d)
  BY DEF RediscoveryIsDriven, Driven, Searched
<1>3. ASSUME Searched(table', d) => Searched(table, d), UNCHANGED timers PROVE Driven(d)'
  BY <1>2, <1>3 DEF Driven, timers
<1>4. ASSUME NEW y \in Contact, NEW h \in Contact, NEW N, FindNodeRsp(y, h, N) PROVE Driven(d)'
  <2>1. NoNewSearch(table, table') /\ ~Searched(table', y)
    BY <1>4, ReceiveNoSearch DEF FindNodeRsp
  <2>2. /\ inflight' = [inflight EXCEPT ![y] = @ - 1]
        /\ scheduled' = scheduled /\ rateLimit' = rateLimit
    BY <1>4 DEF FindNodeRsp
  <2> QED
    BY <1>1, <1>2, <2>1, <2>2 DEF Driven, NoNewSearch
<1>5. ASSUME NEW c \in Contact, NEW y \in Contact, NEW h \in Contact, NEW S, ErrorRsp(c, y, h, S)
      PROVE  Driven(d)'
  <2>1. NoNewSearch(table, table')
    BY <1>5, ReceiveNoSearch DEF ErrorRsp
  <2>2. /\ inflight' = [inflight EXCEPT ![c] = @ - 1] /\ inflight[c] > 0
        /\ scheduled' = scheduled /\ rateLimit' = [rateLimit EXCEPT ![c] = @ + 1]
    BY <1>5 DEF ErrorRsp
  <2> QED
    BY <1>1, <1>2, <2>1, <2>2 DEF Driven, NoNewSearch
<1>6. ASSUME NEW y \in Contact, NEW h \in Contact, NEW N, NEW S, OtherMessage(y, h, N, S)
      PROVE  Driven(d)'
  BY <1>3, <1>6, ReceiveNoSearch DEF OtherMessage, NoNewSearch
<1>7. ASSUME NEW y \in Contact, Hello(y) \/ Restart(y) PROVE Driven(d)'
  <2>1. table'.st = table.st /\ table.ahead \subseteq table'.ahead /\ UNCHANGED timers
    BY <1>1, <1>7 DEF Hello, Restart, Table
  <2> QED
    BY <1>3, <2>1 DEF Searched
<1>8. ASSUME NEW y \in Contact, Discovery(y) \/ LateDiscovery(y) PROVE Driven(d)'
  <2>1. PICK i \in Insert(table, y, y) : \E r \in Reported(i) :
          table' = [r EXCEPT !.uln = @ \cup {y}] \/ table' = r
    BY <1>8 DEF Discovery, LateDiscovery
  <2>2. PICK r \in Reported(i) : table' = [r EXCEPT !.uln = @ \cup {y}] \/ table' = r
    BY <2>1
  <2>3. i \in Table /\ r \in Table
    BY <1>1, InsertType, ReportedType
  <2>4. NoNewSearch(table, i) /\ NoNewSearch(i, r)
    BY <1>1, <2>3, InsertNoSearch, ReportedNoSearch
  <2>5. table'.st = r.st /\ table'.ahead = r.ahead /\ UNCHANGED timers
    BY <1>8, <2>2, <2>3 DEF Discovery, LateDiscovery, Table
  <2> QED
    BY <1>3, <2>4, <2>5 DEF NoNewSearch, Searched
<1>9. ASSUME NEW S, SetInvalid(table, S) \in Table, table'.st = SetInvalid(table, S).st,
             table'.ahead = SetInvalid(table, S).ahead
      PROVE  Searched(table', d) => Searched(table, d)
  BY <1>1, <1>9, SetInvalidNoSearch DEF NoNewSearch, Searched
<1>10. ASSUME NEW y \in Contact, NeighborDown(y) PROVE Driven(d)'
  <2>1. SetInvalid(table, Via(table, y)) \in Table
    BY <1>1, SetInvalidType
  <2>2. /\ table'.st = SetInvalid(table, Via(table, y)).st
        /\ table'.ahead = SetInvalid(table, Via(table, y)).ahead /\ UNCHANGED timers
    BY <1>10, <2>1 DEF NeighborDown, Table
  <2> QED
    BY <1>3, <1>9, <2>1, <2>2
<1>11. CASE Input
  BY <1>4, <1>5, <1>6, <1>7, <1>8, <1>10, <1>11 DEF Input
<1>12. ASSUME NEW c \in Contact, ScheduledTimer(c) PROVE Driven(d)'
  <2>1. PICK x \in Extract(table, c, Parallelism) :
          /\ table' = [table EXCEPT !.vias[c] = x.rest]
          /\ inflight' = [inflight EXCEPT ![c] = @ + Cardinality(x.taken)]
          /\ rateLimit' = [rateLimit EXCEPT ![c] = @ + IF x.taken = {} THEN 1 ELSE 0]
    BY <1>12 DEF ScheduledTimer
  <2>2. x.taken # {} => Cardinality(x.taken) # 0
    <3>1. IsFiniteSet(x.taken)
      BY <1>1, ExtractTaken, RediscoveryAssumption
    <3> QED
      BY <3>1, FS_EmptySet
  <2>3. Cardinality(x.taken) \in Nat
    BY <1>1, ExtractOK, RediscoveryAssumption
  <2>4. table'.st = table.st /\ table'.ahead = table.ahead
    BY <1>1, <2>1 DEF Table
  <2>5. scheduled' = [scheduled EXCEPT ![c] = @ - 1] /\ scheduled[c] > 0
    BY <1>12 DEF ScheduledTimer
  <2>6. CASE d # c
    <3>1. /\ scheduled'[d] = scheduled[d] /\ inflight'[d] = inflight[d]
          /\ rateLimit'[d] = rateLimit[d]
      BY <1>1, <2>1, <2>5, <2>6
    <3> QED
      BY <1>2, <2>4, <3>1 DEF Driven, Searched
  <2>7. CASE d = c
    <3>1. /\ scheduled'[c] = scheduled[c] - 1 /\ inflight'[c] = inflight[c] + Cardinality(x.taken)
          /\ rateLimit'[c] = rateLimit[c] + (IF x.taken = {} THEN 1 ELSE 0)
      BY <1>1, <2>1, <2>5
    <3>2. scheduled[c] \in Nat /\ inflight[c] \in Nat /\ rateLimit[c] \in Nat
      BY <1>1
    <3> QED
      BY <2>2, <2>3, <2>5, <2>7, <3>1, <3>2 DEF Driven
  <2> QED
    BY <2>6, <2>7
<1>13. ASSUME NEW c \in Contact, RequestTimer(c) PROVE Driven(d)'
  <2> DEFINE inf == [inflight EXCEPT ![c] = @ - 1]
  <2>1. inf \in [Contact -> Nat] /\ \A b \in Contact \ {c} : inf[b] = inflight[b]
    BY <1>1, <1>13 DEF RequestTimer
  <2>2. HandleRediscoveryFailure(c, inf, rateLimit)
    BY <1>13 DEF RequestTimer
  <2> HIDE DEF inf
  <2> QED
    BY <1>1, <1>2, <2>1, <2>2, RediscoveryFailureDriven
<1>14. ASSUME NEW c \in Contact, RateLimitTimer(c) PROVE Driven(d)'
  <2> DEFINE rate == [rateLimit EXCEPT ![c] = @ - 1]
  <2>1. rate \in [Contact -> Nat] /\ \A b \in Contact \ {c} : rate[b] = rateLimit[b]
    BY <1>1, <1>14 DEF RateLimitTimer
  <2>2. HandleRediscoveryFailure(c, inflight, rate)
    BY <1>14 DEF RateLimitTimer
  <2> HIDE DEF rate
  <2> QED
    BY <1>1, <1>2, <2>1, <2>2, RediscoveryFailureDriven
<1>15. ASSUME NEW c \in Contact, ProbeTimer(c) PROVE Driven(d)'
  <2>1. table' = SetInvalid(table, {c}) /\ UNCHANGED timers
    BY <1>15 DEF ProbeTimer
  <2> QED
    BY <1>1, <1>3, <1>9, <2>1, SetInvalidType
<1>16. ASSUME NEW c \in Contact, StartRediscovery(c) PROVE Driven(d)'
  <2> DEFINE t == SetInvalid(table, Affected(c))
  <2>1. t \in Table /\ (Searched(t, d) => Searched(table, d)) /\ UNCHANGED <<inflight, rateLimit>>
    BY <1>1, <1>16, SetInvalidType, SetInvalidNoSearch DEF NoNewSearch, StartRediscovery
  <2>2. CASE t.st[c] = "Absent"
    BY <1>2, <1>16, <2>1, <2>2 DEF StartRediscovery, Driven
  <2>3. CASE t.st[c] # "Absent"
    <3>1. /\ table' = [t EXCEPT !.st[c] = "Rediscovering", !.vias[c] = ValidOnes(t),
                                !.retries[c] = 0]
          /\ scheduled' = [scheduled EXCEPT ![c] = @ + 1]
      BY <1>16, <2>3, Zenon DEF StartRediscovery
    <3> HIDE DEF t
    <3>2. table'.st = [t.st EXCEPT ![c] = "Rediscovering"] /\ table'.ahead = t.ahead
      BY <2>1, <3>1 DEF Table
    <3>3. t.st \in [Contact -> ContactState]
      BY <2>1 DEF Table
    <3> QED
      BY <1>1, <1>2, <2>1, <3>1, <3>2, <3>3 DEF Driven, Searched
  <2> QED
    BY <2>2, <2>3
<1>17. ASSUME NEW c \in Contact, ContactInterrupted(c) PROVE Driven(d)'
  <2>1. table' = SetInvalid(table, Affected(c)) /\ UNCHANGED timers
    BY <1>17 DEF ContactInterrupted
  <2> QED
    BY <1>1, <1>3, <1>9, <2>1, SetInvalidType
<1>18. ASSUME NEW c \in Contact, RemoveDead(c) PROVE Driven(d)'
  <2>1. NoNewSearch(table, table') /\ UNCHANGED timers
    BY <1>1, <1>18, EntryNoSearch DEF RemoveDead
  <2> QED
    BY <1>3, <2>1 DEF NoNewSearch
<1>19. ASSUME NEW c \in Contact, ContactRemoved(c) PROVE Driven(d)'
  <2>1. SetInvalid(table, Affected(c)) \in Table
    BY <1>1, SetInvalidType
  <2>2. /\ table'.st = SetInvalid(table, Affected(c)).st
        /\ table'.ahead = SetInvalid(table, Affected(c)).ahead
        /\ inflight' = [inflight EXCEPT ![c] = 0] /\ UNCHANGED <<scheduled, rateLimit>>
    BY <1>19, <2>1 DEF ContactRemoved, Table
  <2>3. Searched(table', d) => Searched(table, d)
    BY <1>9, <2>1, <2>2
  <2>4. table.st[c] = "Absent"
    <3>1. Head(queue) = queue[1] /\ 1 \in 1..Len(queue)
      BY <1>1, <1>19 DEF ContactRemoved, Handle
    <3>2. Announced(queue, c, {"Removed"})
      BY <1>19, <3>1 DEF ContactRemoved, Handle, Announced
    <3> QED
      BY <3>2 DEF RemovedIsGone
  <2> QED
    BY <1>1, <1>2, <2>2, <2>3, <2>4 DEF Driven, Searched
<1>20. CASE UNCHANGED vars
  BY <1>3, <1>20 DEF vars, timers
<1> QED
  BY <1>11, <1>12, <1>13, <1>14, <1>15, <1>16, <1>17, <1>18, <1>19, <1>20
     DEF Next, Timer, Dispatch

(* The removal of a contact never forgets the requests of a contact that   *)
(* is rediscovered: a removed contact is gone until its removal has been   *)
(* handled.                                                                *)
LEMMA RemovedAlwaysGone == Spec => []RemovedIsGone
<1>1. Init => RemovedIsGone
  BY NothingAnnounced DEF Init, RemovedIsGone
<1> QED
  BY <1>1, TypeCorrect, NextRemoved, PTL DEF Spec

(* No rediscovery gets stuck: every contact that is being rediscovered, and *)
(* whose messages would be accepted, has a timer that carries on with it,  *)
(* for any number of contacts and any order of timers, messages and        *)
(* events.                                                                 *)
THEOREM RediscoveryAlwaysDriven == Spec => []RediscoveryIsDriven
<1>1. Init => RediscoveryIsDriven
  BY DEF Init, EmptyTable, RediscoveryIsDriven
<1>2. TypeOK /\ RemovedIsGone /\ RediscoveryIsDriven /\ [Next]_vars => RediscoveryIsDriven'
  BY NextDriven
<1> QED
  BY <1>1, <1>2, TypeCorrect, RemovedAlwaysGone, PTL DEF Spec

-------------------------------------------------------------------------------
(* First hops *)

(* The removal of a contact waits that does not say that the contact had a *)
(* path of one hop.                                                        *)
Unmarked(q, d) ==
  \E k \in 1..Len(q) : q[k].type = "Removed" /\ d \in q[k].ids /\ d \notin q[k].uln

(* As long as nothing was disturbed: every node of the neighbour table is  *)
(* a contact with a path of one hop, unless its removal is still to be     *)
(* handled, and then the removal says so; and every valid path starts at   *)
(* one of them, even while events wait.                                    *)
NeighborsAreContacts ==
  disturbances = 0 =>
    /\ table.ahead = {}
    /\ \A d \in table.uln : IsULN(table, d) \/ Announced(queue, d, {"Removed"})
    /\ \A d \in table.uln : ~Unmarked(queue, d)
    /\ \A d \in ValidOnes(table) : table.hop[d] \in table.uln

(* The same of a table alone, while no removal waits, with U for the       *)
(* neighbours.                                                             *)
Anchored(t, U) ==
  /\ t.ahead = {}
  /\ \A d \in U : IsULN(t, d)
  /\ \A d \in ValidOnes(t) : t.hop[d] \in U

(* Contacts only lose validity from t to u.                                *)
Weakened(t, u) ==
  /\ u.ahead = t.ahead
  /\ \A d \in Contact : /\ u.hop[d] = t.hop[d]
                        /\ IsULN(t, d) => IsULN(u, d)
                        /\ u.st[d] = "Valid" => t.st[d] = "Valid"

(* set_invalid() keeps all paths.                                          *)
LEMMA SetInvalidWeakens ==
  ASSUME NEW t \in Table, NEW S
  PROVE  Weakened(t, SetInvalid(t, S)) /\ SetInvalid(t, S).uln = t.uln
<1>1. /\ SetInvalid(t, S).hop = t.hop /\ SetInvalid(t, S).ahead = t.ahead
      /\ SetInvalid(t, S).uln = t.uln
  BY DEF SetInvalid, Table
<1> QED
  BY <1>1, SetInvalidState DEF Weakened, IsULN

(* Losing validity loosens no path.                                        *)
LEMMA WeakenedAnchored ==
  ASSUME NEW t, NEW u, NEW U \in SUBSET Contact, Anchored(t, U), Weakened(t, u)
  PROVE  Anchored(u, U)
<1>1. u.ahead = {}
  BY DEF Anchored, Weakened
<1>2. ASSUME NEW d \in U PROVE IsULN(u, d)
  BY DEF Anchored, Weakened
<1>3. ASSUME NEW d \in ValidOnes(u) PROVE u.hop[d] \in U
  <2>1. d \in Contact /\ d \in ValidOnes(t)
    BY DEF Weakened, ValidOnes
  <2> QED
    BY <2>1 DEF Anchored, Weakened
<1> QED
  BY <1>1, <1>2, <1>3 DEF Anchored

(* A validated path over a neighbour.  A neighbour itself gets a path of   *)
(* one hop.                                                                *)
LEMMA EntryAnchored ==
  ASSUME NEW t \in Table, NEW c \in Contact, NEW h \in Contact, NEW U \in SUBSET Contact,
         t.ahead = {}, h \in U, c \in U => h = c,
         \A d \in U \ {c} : IsULN(t, d),
         \A d \in ValidOnes(t) \ {c} : t.hop[d] \in U
  PROVE  /\ Anchored(SetActivePath(t, c, h), U) /\ SetActivePath(t, c, h).uln = t.uln
         /\ Anchored(NewEntry(t, c, h), U) /\ NewEntry(t, c, h).uln = t.uln
         /\ SetActivePath(t, c, h).st[c] = "Valid" /\ NewEntry(t, c, h).st[c] = "Valid"
<1>1. SetState(t, c, "Valid") \in Table /\ SetActivePath(t, c, h) \in Table
  BY SetStateType, SetActivePathType DEF ContactState
<1>2. /\ SetState(t, c, "Valid").st = [t.st EXCEPT ![c] = "Valid"]
      /\ SetState(t, c, "Valid").hop = t.hop
      /\ SetState(t, c, "Valid").ahead = t.ahead /\ SetState(t, c, "Valid").uln = t.uln
  BY DEF SetState, Table
<1>3. /\ SetActivePath(t, c, h).st = [t.st EXCEPT ![c] = "Valid"]
      /\ SetActivePath(t, c, h).hop = [t.hop EXCEPT ![c] = h]
      /\ SetActivePath(t, c, h).ahead = t.ahead /\ SetActivePath(t, c, h).uln = t.uln
  BY <1>1, <1>2 DEF SetActivePath, Table
<1>4. /\ NewEntry(t, c, h).st = [t.st EXCEPT ![c] = "Valid"]
      /\ NewEntry(t, c, h).hop = [t.hop EXCEPT ![c] = h]
      /\ NewEntry(t, c, h).ahead = {} /\ NewEntry(t, c, h).uln = t.uln
  BY <1>1, <1>3 DEF NewEntry, Table
<1>5. t.st \in [Contact -> ContactState] /\ t.hop \in [Contact -> Contact]
  BY DEF Table
<1>6. ASSUME NEW u, u.st = [t.st EXCEPT ![c] = "Valid"], u.hop = [t.hop EXCEPT ![c] = h],
             u.ahead = {}
      PROVE  Anchored(u, U) /\ u.st[c] = "Valid"
  <2>1. ASSUME NEW d \in U PROVE IsULN(u, d)
    <3>1. CASE d = c
      BY <1>5, <1>6, <3>1 DEF IsULN
    <3>2. CASE d # c
      BY <1>5, <1>6, <3>2 DEF IsULN
    <3> QED
      BY <3>1, <3>2
  <2>2. ASSUME NEW d \in ValidOnes(u) PROVE u.hop[d] \in U
    <3>1. CASE d = c
      BY <1>5, <1>6, <3>1
    <3>2. CASE d # c
      <4>1. d \in Contact /\ d \in ValidOnes(t)
        BY <1>5, <1>6, <3>2 DEF ValidOnes
      <4> QED
        BY <1>5, <1>6, <3>2, <4>1
    <3> QED
      BY <3>1, <3>2
  <2> QED
    BY <1>5, <1>6, <2>1, <2>2 DEF Anchored
<1> QED
  BY <1>3, <1>4, <1>6

(* Removing a contact that is no neighbour.                                *)
LEMMA RemoveAnchored ==
  ASSUME NEW t \in Table, NEW c \in Contact, NEW U \in SUBSET Contact, Anchored(t, U), c \notin U
  PROVE  Anchored(RemoveContact(t, c), U) /\ RemoveContact(t, c).uln = t.uln
<1>1. SetState(t, c, "Absent") \in Table
  BY SetStateType DEF ContactState
<1>2. /\ RemoveContact(t, c).st = [t.st EXCEPT ![c] = "Absent"]
      /\ RemoveContact(t, c).hop = [t.hop EXCEPT ![c] = c]
      /\ RemoveContact(t, c).ahead = t.ahead \ {c} /\ RemoveContact(t, c).uln = t.uln
  BY <1>1 DEF RemoveContact, SetState, Table
<1>3. t.st \in [Contact -> ContactState] /\ t.hop \in [Contact -> Contact]
  BY DEF Table
<1> QED
  BY <1>2, <1>3 DEF Anchored, IsULN, ValidOnes

(* A message starts at a neighbour: FirstHops.                             *)
LEMMA FirstHopsAnchored ==
  ASSUME NEW t, Anchored(t, t.uln)
  PROVE  FirstHops(t) \subseteq t.uln
BY DEF FirstHops, Anchored

(* Inserting the source of a message that came over a neighbour.           *)
LEMMA InsertAnchored ==
  ASSUME NEW t \in Table, NEW c \in Contact, NEW h \in t.uln, Anchored(t, t.uln),
         NEW u \in Insert(t, c, h)
  PROVE  Anchored(u, t.uln) /\ u.uln = t.uln
<1>1. t.uln \in SUBSET Contact /\ h \in Contact
  BY DEF Table
<1>2. t.ahead = {} /\ \A d \in ValidOnes(t) : t.hop[d] \in t.uln
  BY DEF Anchored
<1>3. CASE h = c \/ c \in t.uln
  <2>1. IsULN(t, c) /\ c \in t.uln
    BY <1>3 DEF Anchored
  <2>2. u \in UpdateExisting(t, c, c)
    BY <1>3, <2>1 DEF Insert
  <2>3. u = t \/ u = SetActivePath(t, c, c)
    BY <2>2 DEF UpdateExisting
  <2>4. Anchored(SetActivePath(t, c, c), t.uln) /\ SetActivePath(t, c, c).uln = t.uln
    BY <1>1, <1>2, <2>1, EntryAnchored DEF Anchored
  <2> QED
    BY <2>3, <2>4
<1>4. CASE ~(h = c \/ c \in t.uln)
  <2>1. CASE u \in UpdateExisting(t, c, h)
    <3>1. u = t \/ u = SetActivePath(t, c, h)
      BY <2>1 DEF UpdateExisting
    <3>2. Anchored(SetActivePath(t, c, h), t.uln) /\ SetActivePath(t, c, h).uln = t.uln
      BY <1>1, <1>2, <1>4, EntryAnchored DEF Anchored
    <3> QED
      BY <3>1, <3>2
  <2>2. CASE u \in AddToBucket(RemoveContact(t, c), c, h)
    <3> DEFINE t1 == RemoveContact(t, c)
    <3>1. t1 \in Table /\ Anchored(t1, t.uln) /\ t1.uln = t.uln
      BY <1>1, <1>4, RemoveContactType, RemoveAnchored
    <3>2. ASSUME NEW s \in Table, Anchored(s, t.uln), s.uln = t.uln, u = NewEntry(s, c, h)
          PROVE  Anchored(u, t.uln) /\ u.uln = t.uln
      <4>1. /\ s.ahead = {} /\ \A d \in t.uln \ {c} : IsULN(s, d)
            /\ \A d \in ValidOnes(s) \ {c} : s.hop[d] \in t.uln
        BY <3>2 DEF Anchored
      <4> QED
        BY <1>1, <1>4, <3>2, <4>1, EntryAnchored
    <3> HIDE DEF t1
    <3>3. ASSUME NEW w \in InBucket(t1)
          PROVE  /\ RemoveContact(t1, w) \in Table /\ Anchored(RemoveContact(t1, w), t.uln)
                 /\ RemoveContact(t1, w).uln = t.uln
      <4>1. w \in Contact /\ w \notin t.uln
        BY <3>1 DEF InBucket, Present, Anchored, IsULN
      <4> QED
        BY <1>1, <3>1, <4>1, RemoveContactType, RemoveAnchored
    <3>4. u = t1 \/ u = NewEntry(t1, c, h)
          \/ \E w \in InBucket(t1) : u = NewEntry(RemoveContact(t1, w), c, h)
      BY <2>2 DEF AddToBucket, t1
    <3> QED
      BY <3>1, <3>2, <3>3, <3>4
  <2> QED
    BY <1>4, <2>1, <2>2 DEF Insert
<1> QED
  BY <1>3, <1>4

(* The contacts a message tells about.  A neighbour in U that is not in    *)
(* the neighbour table yet is valid.                                       *)
LEMMA ReportedAnchored ==
  ASSUME NEW t \in Table, NEW U \in SUBSET Contact, Anchored(t, U), t.uln \subseteq U,
         \A d \in U \ t.uln : t.st[d] = "Valid", NEW u \in Reported(t)
  PROVE  Anchored(u, U) /\ u.uln = t.uln
<1>1. PICK R \in SUBSET Reportable(t) : u = Told(t, R)
  BY DEF Reported
<1>2. /\ u.ahead = t.ahead \ (R \ Confirmed(t)) /\ u.uln = t.uln
      /\ \A d \in Contact : u.hop[d] = IF d \in R THEN d ELSE t.hop[d]
  BY <1>1 DEF Told
<1>7. ASSUME NEW d \in Contact
      PROVE  /\ d \notin R => u.st[d] = t.st[d]
             /\ d \in R /\ d \in Lost(t) => u.st[d] = "Absent"
             /\ d \in R /\ d \notin Lost(t) => u.st[d] = "Valid"
  <2>1. u.st = [c \in Contact |-> IF c \notin R THEN t.st[c]
                                  ELSE IF c \in Lost(t) THEN "Absent" ELSE "Valid"]
    BY <1>1 DEF Told
  <2> QED
    BY <2>1
<1>3. ASSUME NEW d \in R PROVE d \in t.uln \/ d \in Lost(t)
  BY DEF Reportable, Confirmed
<1>4. Lost(t) \cap U = {}
  BY DEF Lost
<1>5. ASSUME NEW d \in U PROVE IsULN(u, d)
  <2>1. d \in Contact /\ d \notin Lost(t) /\ IsULN(t, d)
    BY <1>4 DEF Anchored
  <2> QED
    BY <1>2, <1>7, <2>1 DEF IsULN
<1>6. ASSUME NEW d \in ValidOnes(u) PROVE u.hop[d] \in U
  <2>1. d \in Contact
    BY DEF ValidOnes
  <2>2. CASE d \in R
    BY <1>2, <1>3, <1>7, <2>1, <2>2 DEF ValidOnes
  <2>3. CASE d \notin R
    BY <1>2, <1>7, <2>1, <2>3 DEF ValidOnes, Anchored
  <2> QED
    BY <2>2, <2>3
<1> QED
  BY <1>2, <1>5, <1>6 DEF Anchored

(* Where an unmarked removal in a joined queue comes from.                 *)
LEMMA AppendUnmarked ==
  ASSUME NEW q \in Seq(Event), NEW r \in Seq(Event), NEW d, Unmarked(q \o r, d)
  PROVE  Unmarked(q, d) \/ Unmarked(r, d)
<1>1. PICK k \in 1..Len(q \o r) : /\ (q \o r)[k].type = "Removed"
                                  /\ d \in (q \o r)[k].ids /\ d \notin (q \o r)[k].uln
  BY DEF Unmarked
<1>2. CASE k <= Len(q)
  <2>1. k \in 1..Len(q) /\ (q \o r)[k] = q[k]
    BY <1>2
  <2> QED
    BY <1>1, <2>1 DEF Unmarked
<1>3. CASE ~(k <= Len(q))
  <2>1. k - Len(q) \in 1..Len(r) /\ (q \o r)[k] = r[k - Len(q)]
    BY <1>3
  <2> QED
    BY <1>1, <2>1 DEF Unmarked
<1> QED
  BY <1>2, <1>3

(* A removal is unmarked only if the contact had a longer path.            *)
LEMMA RaiseUnmarked ==
  ASSUME NEW type, NEW ids, NEW uln, NEW d, Unmarked(Raise(type, ids, uln), d)
  PROVE  type = "Removed" /\ d \in ids /\ d \notin uln
<1> DEFINE e == [type |-> type, ids |-> ids, uln |-> ids \cap uln]
<1>1. Announced(Raise(type, ids, uln), d, {"Removed"})
  BY DEF Unmarked, Announced
<1>2. type = "Removed" /\ d \in ids
  BY <1>1, RaiseOrigin
<1>3. Raise(type, ids, uln) = <<e>>
  BY <1>2 DEF Raise
<1>4. PICK k \in 1..Len(<<e>>) : d \notin <<e>>[k].uln
  BY <1>3 DEF Unmarked
<1>5. k = 1 /\ <<e>>[1] = e
  OBVIOUS
<1> QED
  BY <1>2, <1>4, <1>5

(* Handling an event leaves the marks of the others.                       *)
LEMMA RestUnmarked ==
  ASSUME queue \in Seq(Event), NEW c \in Contact, NEW type, Handle(type, c),
         NEW d, Unmarked(Rest(c), d)
  PROVE  Unmarked(queue, d)
<1>1. PICK k \in 1..Len(Rest(c)) : /\ Rest(c)[k].type = "Removed"
                                   /\ d \in Rest(c)[k].ids /\ d \notin Rest(c)[k].uln
  BY DEF Unmarked
<1>2. queue # <<>> /\ Len(queue) \in Nat /\ Len(queue) >= 1 /\ queue[1] \in Event
  BY DEF Handle
<1>3. CASE Head(queue).ids = {c}
  <2>1. Rest(c) = Tail(queue)
    BY <1>3 DEF Rest
  <2>2. k + 1 \in 1..Len(queue) /\ Tail(queue)[k] = queue[k + 1]
    BY <1>2, <2>1
  <2> QED
    BY <1>1, <2>1, <2>2 DEF Unmarked
<1>4. CASE Head(queue).ids # {c}
  <2>1. Rest(c) = [queue EXCEPT ![1] = [queue[1] EXCEPT !.ids = @ \ {c}]]
    BY <1>4 DEF Rest
  <2>2. k \in 1..Len(queue)
    BY <1>2, <2>1
  <2>3. /\ Rest(c)[k].type = queue[k].type /\ Rest(c)[k].ids \subseteq queue[k].ids
        /\ Rest(c)[k].uln = queue[k].uln
    BY <1>2, <2>1, <2>2 DEF Event
  <2> QED
    BY <1>1, <2>2, <2>3 DEF Unmarked
<1> QED
  BY <1>3, <1>4

(* Raising anything but a removal keeps what waits of removals.            *)
LEMMA RaiseKeepsMarks ==
  ASSUME NEW q \in Seq(Event), NEW type \in EventType \ {"Removed"}, NEW ids \in SUBSET Contact,
         NEW uln, NEW d
  PROVE  /\ Announced(q, d, {"Removed"}) => Announced(q \o Raise(type, ids, uln), d, {"Removed"})
         /\ Unmarked(q \o Raise(type, ids, uln), d) => Unmarked(q, d)
<1>1. Raise(type, ids, uln) \in Seq(Event)
  BY RaiseType
<1>2. ~Unmarked(Raise(type, ids, uln), d)
  BY RaiseUnmarked
<1> QED
  BY <1>1, <1>2, AppendAnnounced, AppendUnmarked

(* So does a sweep.                                                        *)
LEMMA SweepKeepsMarks ==
  ASSUME NEW q \in Seq(Event), NEW t, NEW S, NEW d
  PROVE  /\ Announced(q, d, {"Removed"}) => Announced(q \o Invalidated(t, S), d, {"Removed"})
         /\ Unmarked(q \o Invalidated(t, S), d) => Unmarked(q, d)
<1>1. S \cap ValidOnes(t) \in SUBSET Contact /\ "Invalidated" \in EventType \ {"Removed"}
  BY DEF ValidOnes, EventType
<1> QED
  BY <1>1, RaiseKeepsMarks DEF Invalidated

(* While no removal waits, the neighbours are contacts.                    *)
LEMMA NeighborsAnchored ==
  ASSUME NeighborsAreContacts, disturbances = 0,
         \A d \in Contact : ~Announced(queue, d, {"Removed"}), table \in Table
  PROVE  Anchored(table, table.uln)
<1>1. table.uln \subseteq Contact
  BY DEF Table
<1> QED
  BY <1>1 DEF NeighborsAreContacts, Anchored

(* And if the next table is anchored, the invariant is kept.               *)
LEMMA AnchoredNeighbors ==
  ASSUME disturbances' = 0 => Anchored(table', table'.uln), table'.uln \subseteq Contact,
         \A d \in Contact : ~Announced(queue', d, {"Removed"})
  PROVE  NeighborsAreContacts'
<1>1. ASSUME NEW d \in Contact PROVE ~Unmarked(queue', d)
  BY DEF Unmarked, Announced
<1> QED
  BY <1>1 DEF NeighborsAreContacts, Anchored

(* A step in which contacts only lose validity and no removal is raised or *)
(* handled keeps the invariant.                                            *)
LEMMA WeakenedNeighbors ==
  ASSUME NeighborsAreContacts, disturbances' = disturbances, table \in Table,
         Weakened(table, table'), table'.uln = table.uln,
         \A d \in Contact : /\ Announced(queue, d, {"Removed"}) => Announced(queue', d, {"Removed"})
                            /\ Unmarked(queue', d) => Unmarked(queue, d)
  PROVE  NeighborsAreContacts'
<1> SUFFICES ASSUME disturbances = 0
             PROVE  /\ table'.ahead = {}
                    /\ \A d \in table'.uln : IsULN(table', d) \/ Announced(queue', d, {"Removed"})
                    /\ \A d \in table'.uln : ~Unmarked(queue', d)
                    /\ \A d \in ValidOnes(table') : table'.hop[d] \in table'.uln
  BY DEF NeighborsAreContacts
<1>1. table.uln \subseteq Contact
  BY DEF Table
<1>2. table'.ahead = {}
  BY DEF NeighborsAreContacts, Weakened
<1>3. ASSUME NEW d \in table'.uln
      PROVE  (IsULN(table', d) \/ Announced(queue', d, {"Removed"})) /\ ~Unmarked(queue', d)
  BY <1>1 DEF NeighborsAreContacts, Weakened
<1>4. ASSUME NEW d \in ValidOnes(table') PROVE table'.hop[d] \in table'.uln
  <2>1. d \in Contact /\ d \in ValidOnes(table)
    BY DEF Weakened, ValidOnes
  <2> QED
    BY <2>1 DEF NeighborsAreContacts, Weakened
<1> QED
  BY <1>2, <1>3, <1>4

(* A message that came over a neighbour leaves every valid path at one.    *)
LEMMA ReceiveAnchored ==
  ASSUME TypeOK, NEW y \in Contact, NEW h \in Contact, NEW N, NEW S,
         Receive(y, h, N, S), Anchored(table, table.uln)
  PROVE  Anchored(table', table'.uln)
<1> DEFINE t == SetInvalid(table, N)
<1>1. table \in Table /\ t \in Table /\ table.uln \in SUBSET Contact
  BY SetInvalidType DEF TypeOK, Table
<1>2. Anchored(t, t.uln) /\ t.uln = table.uln
  BY <1>1, SetInvalidWeakens, WeakenedAnchored
<1>3. h \in FirstHops(t)
  BY DEF Receive
<1>4. PICK i \in Insert(t, y, h) : \E r \in Reported(i) : table' = SetInvalid(r, S)
  BY DEF Receive
<1>5. PICK r \in Reported(i) : table' = SetInvalid(r, S)
  BY <1>4
<1> HIDE DEF t
<1>6. h \in t.uln
  BY <1>2, <1>3, FirstHopsAnchored
<1>7. i \in Table /\ Anchored(i, t.uln) /\ i.uln = t.uln
  BY <1>1, <1>2, <1>6, InsertType, InsertAnchored
<1>8. r \in Table /\ Anchored(r, r.uln) /\ r.uln = table.uln
  BY <1>1, <1>2, <1>7, ReportedType, ReportedAnchored
<1> QED
  BY <1>1, <1>5, <1>8, SetInvalidWeakens, WeakenedAnchored

(* The sender of a discovery becomes a contact with a path of one hop      *)
(* before it becomes a neighbour.                                          *)
LEMMA DiscoveryAnchored ==
  ASSUME TypeOK, AllAnnounced, NEW y \in Contact, Discovery(y), Anchored(table, table.uln)
  PROVE  Anchored(table', table'.uln)
<1> DEFINE U == table.uln \cup {y}
<1>1. table \in Table /\ table.uln \in SUBSET Contact /\ U \in SUBSET Contact
  BY DEF TypeOK, Table
<1>2. PICK i \in Insert(table, y, y) : \E r \in Reported(i) :
        table' = [r EXCEPT !.uln = @ \cup {y}]
  BY DEF Discovery
<1>3. PICK r \in Reported(i) : table' = [r EXCEPT !.uln = @ \cup {y}]
  BY <1>2
<1>4. table.st[y] # "Dead" /\ table.ahead = {}
  BY QuietNoFailure DEF Discovery, Quiet, Anchored
<1>5. /\ \A d \in U \ {y} : IsULN(table, d)
      /\ \A d \in ValidOnes(table) \ {y} : table.hop[d] \in U
  BY DEF Anchored
<1>6. Anchored(i, U) /\ i.uln = table.uln /\ i.st[y] = "Valid"
  <2>1. \/ i = table /\ table.st[y] = "Valid" /\ IsULN(table, y)
        \/ i = SetActivePath(table, y, y) \/ i = NewEntry(table, y, y)
    BY <1>4 DEF Insert, UpdateExisting
  <2>2. CASE i = table /\ table.st[y] = "Valid" /\ IsULN(table, y)
    BY <2>2 DEF Anchored
  <2>3. CASE i = SetActivePath(table, y, y) \/ i = NewEntry(table, y, y)
    <3> HIDE DEF U
    <3>1. y \in U
      BY DEF U
    <3> QED
      BY <1>1, <1>4, <1>5, <2>3, <3>1, EntryAnchored
  <2> QED
    BY <2>1, <2>2, <2>3
<1>7. i \in Table /\ r \in Table
  BY <1>1, InsertType, ReportedType
<1>8. Anchored(r, U) /\ r.uln = table.uln
  <2>1. i.uln \subseteq U /\ \A d \in U \ i.uln : i.st[d] = "Valid"
    BY <1>6
  <2> HIDE DEF U
  <2> QED
    BY <1>1, <1>6, <1>7, <2>1, ReportedAnchored
<1>9. /\ table'.uln = U /\ table'.st = r.st /\ table'.hop = r.hop /\ table'.ahead = r.ahead
  BY <1>3, <1>7, <1>8 DEF Table
<1> QED
  BY <1>8, <1>9 DEF Anchored, IsULN, ValidOnes

(* The inputs keep the neighbours contacts.                                *)
LEMMA InputNeighbors ==
  ASSUME TypeOK, AllAnnounced, RemovedIsGone, NeighborsAreContacts, TypeOK', Input
  PROVE  NeighborsAreContacts'
<1>1. table \in Table /\ table'.uln \subseteq Contact /\ disturbances \in Nat
  BY DEF TypeOK, Table
<1>2. \A d \in Contact : ~Announced(queue', d, {"Removed"})
  BY OnlyEventsRemove
<1>3. queue = <<>>
  <2>1. ASSUME NEW y, NEW h, NEW N, NEW S, Receive(y, h, N, S) PROVE queue = <<>>
    BY <2>1 DEF Receive, Quiet
  <2>2. ASSUME NEW y, Hello(y) \/ Discovery(y) \/ LateDiscovery(y) \/ NeighborDown(y) \/ Restart(y)
        PROVE  queue = <<>>
    BY <2>2 DEF Hello, Discovery, LateDiscovery, NeighborDown, Restart, Quiet
  <2> QED
    BY <2>1, <2>2, Zenon DEF Input, FindNodeRsp, ErrorRsp, OtherMessage
<1>4. disturbances = 0 => Anchored(table, table.uln)
  BY <1>1, <1>3, NothingAnnounced, NeighborsAnchored
<1>5. disturbances' = 0 => Anchored(table', table'.uln)
  <2>1. ASSUME NEW y \in Contact, NEW h \in Contact, NEW N, NEW S, Receive(y, h, N, S)
        PROVE  disturbances' = 0 => Anchored(table', table'.uln)
    <3>1. disturbances' = disturbances
      BY <2>1 DEF Receive
    <3> QED
      BY <1>4, <2>1, <3>1, ReceiveAnchored
  <2>2. ASSUME NEW y, Hello(y) \/ LateDiscovery(y) \/ Restart(y) PROVE disturbances' # 0
    BY <1>1, <2>2 DEF Hello, LateDiscovery, Restart, Disturb
  <2>3. ASSUME NEW y \in Contact, Discovery(y)
        PROVE  disturbances' = 0 => Anchored(table', table'.uln)
    <3>1. disturbances' = disturbances
      BY <2>3 DEF Discovery
    <3> QED
      BY <1>4, <2>3, <3>1, DiscoveryAnchored
  <2>4. ASSUME NEW y \in Contact, NeighborDown(y)
        PROVE  disturbances' = 0 => Anchored(table', table'.uln)
    <3> DEFINE t == SetInvalid(table, Via(table, y))
    <3>1. disturbances' = disturbances /\ table' = [t EXCEPT !.uln = @ \ {y}]
      BY <2>4 DEF NeighborDown
    <3>2. t \in Table /\ Weakened(table, t) /\ t.uln = table.uln /\ table.uln \in SUBSET Contact
      BY <1>1, SetInvalidType, SetInvalidWeakens DEF Table
    <3>3. disturbances = 0 => Anchored(t, table.uln)
      BY <1>4, <3>2, WeakenedAnchored
    <3>4. ASSUME NEW d \in ValidOnes(t) PROVE t.hop[d] # y
      <4>1. d \in Contact /\ table.st[d] = "Valid" /\ d \notin Via(table, y)
        BY <1>1, SetInvalidState DEF ValidOnes
      <4> QED
        BY <3>2, <4>1 DEF Via, Present, Weakened
    <3> HIDE DEF t
    <3>5. /\ table'.uln = table.uln \ {y} /\ table'.st = t.st /\ table'.hop = t.hop
          /\ table'.ahead = t.ahead
      BY <3>1, <3>2 DEF Table
    <3> QED
      BY <3>1, <3>3, <3>4, <3>5 DEF Anchored, IsULN, ValidOnes
  <2> QED
    BY <2>1, <2>2, <2>3, <2>4, Zenon DEF Input, FindNodeRsp, ErrorRsp, OtherMessage
<1> QED
  BY <1>1, <1>2, <1>5, AnchoredNeighbors

(* The timers keep the neighbours contacts.                                *)
LEMMA TimerNeighbors ==
  ASSUME TypeOK, NeighborsAreContacts, NEW c \in Contact, Timer(c) \/ ProbeTimer(c)
  PROVE  NeighborsAreContacts'
<1>1. table \in Table /\ queue \in Seq(Event) /\ table.st \in [Contact -> ContactState]
  BY DEF TypeOK, Table
<1>2. disturbances' = disturbances
  BY DEF Timer, ScheduledTimer, RequestTimer, RateLimitTimer, ProbeTimer, HandleRediscoveryFailure
<1>3. CASE /\ table'.st = table.st /\ table'.hop = table.hop /\ table'.ahead = table.ahead
           /\ table'.uln = table.uln /\ queue' = queue
  <2>1. Weakened(table, table')
    BY <1>3 DEF Weakened, IsULN
  <2> QED
    BY <1>1, <1>2, <1>3, <2>1, WeakenedNeighbors
<1>4. CASE ScheduledTimer(c)
  BY <1>1, <1>3, <1>4 DEF ScheduledTimer, Table
<1>5. ASSUME NEW inf, NEW rate, HandleRediscoveryFailure(c, inf, rate)
      PROVE  NeighborsAreContacts'
  <2>1. CASE UNCHANGED <<table, queue>>
    BY <1>3, <2>1
  <2>2. CASE SendNext(c, inf) \/ WaitForOthers(c, inf, rate) \/ NextRound(c, inf, rate)
    BY <1>1, <1>3, <2>2 DEF SendNext, WaitForOthers, NextRound, Table
  <2>3. CASE GiveUp(c, inf, rate) /\ table.st[c] = "Rediscovering"
    <3> DEFINE H == {d \in Contact : table.hop[d] = d}
    <3>1. /\ table'.st = [table.st EXCEPT ![c] = "Dead"] /\ table'.hop = table.hop
          /\ table'.ahead = table.ahead /\ table'.uln = table.uln
          /\ queue' = queue \o Raise("Dead", {c}, H)
      BY <1>1, <2>3 DEF GiveUp, SetState, Table
    <3>2. Weakened(table, table')
      BY <1>1, <2>3, <3>1 DEF Weakened, IsULN
    <3>3. "Dead" \in EventType \ {"Removed"} /\ {c} \in SUBSET Contact
      BY DEF EventType
    <3> HIDE DEF H
    <3>4. \A d \in Contact :
            /\ Announced(queue, d, {"Removed"}) => Announced(queue', d, {"Removed"})
            /\ Unmarked(queue', d) => Unmarked(queue, d)
      BY <1>1, <3>1, <3>3, RaiseKeepsMarks
    <3> QED
      BY <1>1, <1>2, <3>1, <3>2, <3>4, WeakenedNeighbors
  <2> QED
    BY <1>5, <2>1, <2>2, <2>3 DEF HandleRediscoveryFailure
<1>6. CASE ProbeTimer(c)
  <2>1. table' = SetInvalid(table, {c}) /\ queue' = queue \o Invalidated(table, {c})
    BY <1>6 DEF ProbeTimer
  <2> QED
    BY <1>1, <1>2, <2>1, SetInvalidWeakens, SweepKeepsMarks, WeakenedNeighbors
<1> QED
  BY <1>4, <1>5, <1>6 DEF Timer, RequestTimer, RateLimitTimer

(* So do the events: a neighbour is removed from the neighbour table       *)
(* together with all valid paths that start at it.                         *)
LEMMA DispatchNeighbors ==
  ASSUME TypeOK, RemovedIsGone, NeighborsAreContacts, NEW c \in Contact, Dispatch(c)
  PROVE  NeighborsAreContacts'
<1>1. /\ table \in Table /\ queue \in Seq(Event) /\ table.uln \subseteq Contact
      /\ table.st \in [Contact -> ContactState] /\ table.hop \in [Contact -> Contact]
  BY DEF TypeOK, Table
<1>2. disturbances' = disturbances
  BY DEF Dispatch, StartRediscovery, ContactInterrupted, RemoveDead, ContactRemoved
<1>3. CASE StartRediscovery(c)
  <2> DEFINE t == SetInvalid(table, Affected(c))
             V == {c} \cap {b \in ValidOnes(t) : t.hop[b] = b}
             q == Rest(c) \o Invalidated(table, Affected(c))
  <2>1. Handle("Invalidated", c) /\ Rest(c) \in Seq(Event)
    BY <1>1, <1>3, RestType DEF StartRediscovery
  <2>2. q \in Seq(Event) /\ V \in SUBSET Contact /\ "Interrupted" \in EventType \ {"Removed"}
    BY <2>1, AppendType, InvalidatedType DEF EventType
  <2>3. queue' = q \o Raise("Interrupted", V, {c})
    BY <1>3 DEF StartRediscovery
  <2>4. t \in Table /\ Weakened(table, t) /\ t.uln = table.uln
    BY <1>1, SetInvalidType, SetInvalidWeakens
  <2>5. table' = t \/ table' = [t EXCEPT !.st[c] = "Rediscovering", !.vias[c] = ValidOnes(t),
                                         !.retries[c] = 0]
    BY <1>3, Zenon DEF StartRediscovery
  <2> HIDE DEF t, V
  <2>6. Weakened(t, table') /\ table'.uln = t.uln
    <3>1. CASE table' = t
      BY <3>1 DEF Weakened
    <3>2. CASE table' = [t EXCEPT !.st[c] = "Rediscovering", !.vias[c] = ValidOnes(t),
                                  !.retries[c] = 0]
      <4>1. /\ table'.st = [t.st EXCEPT ![c] = "Rediscovering"] /\ table'.hop = t.hop
            /\ table'.ahead = t.ahead /\ table'.uln = t.uln
            /\ t.st \in [Contact -> ContactState]
        BY <2>4, <3>2 DEF Table
      <4> QED
        BY <4>1 DEF Weakened, IsULN
    <3> QED
      BY <2>5, <3>1, <3>2
  <2>7. Weakened(table, table') /\ table'.uln = table.uln
    BY <2>4, <2>6 DEF Weakened
  <2>8. ASSUME NEW d \in Contact
        PROVE  /\ Announced(queue, d, {"Removed"}) => Announced(queue', d, {"Removed"})
               /\ Unmarked(queue', d) => Unmarked(queue, d)
    <3>1. /\ Announced(queue, d, {"Removed"}) => Announced(Rest(c), d, {"Removed"})
          /\ Unmarked(Rest(c), d) => Unmarked(queue, d)
      BY <1>1, <2>1, RestAnnounced, RestUnmarked
    <3>2. /\ Announced(Rest(c), d, {"Removed"}) => Announced(q, d, {"Removed"})
          /\ Unmarked(q, d) => Unmarked(Rest(c), d)
      BY <2>1, SweepKeepsMarks
    <3> HIDE DEF q
    <3> QED
      BY <2>2, <2>3, <3>1, <3>2, RaiseKeepsMarks
  <2> QED
    BY <1>1, <1>2, <2>7, <2>8, WeakenedNeighbors
<1>4. CASE ContactInterrupted(c)
  <2>1. Handle("Interrupted", c) /\ Rest(c) \in Seq(Event)
    BY <1>1, <1>4, RestType DEF ContactInterrupted
  <2>2. /\ table' = SetInvalid(table, Affected(c))
        /\ queue' = Rest(c) \o Invalidated(table, Affected(c))
    BY <1>4 DEF ContactInterrupted
  <2>3. ASSUME NEW d \in Contact
        PROVE  /\ Announced(queue, d, {"Removed"}) => Announced(queue', d, {"Removed"})
               /\ Unmarked(queue', d) => Unmarked(queue, d)
    <3>1. /\ Announced(queue, d, {"Removed"}) => Announced(Rest(c), d, {"Removed"})
          /\ Unmarked(Rest(c), d) => Unmarked(queue, d)
      BY <1>1, <2>1, RestAnnounced, RestUnmarked
    <3> QED
      BY <2>1, <2>2, <3>1, SweepKeepsMarks
  <2> QED
    BY <1>1, <1>2, <2>2, <2>3, SetInvalidWeakens, WeakenedNeighbors
<1> SUFFICES ASSUME RemoveDead(c) \/ ContactRemoved(c), disturbances = 0
             PROVE  /\ table'.ahead = {}
                    /\ \A d \in table'.uln : IsULN(table', d) \/ Announced(queue', d, {"Removed"})
                    /\ \A d \in table'.uln : ~Unmarked(queue', d)
                    /\ \A d \in ValidOnes(table') : table'.hop[d] \in table'.uln
  BY <1>2, <1>3, <1>4 DEF Dispatch, NeighborsAreContacts
<1>5. /\ table.ahead = {}
      /\ \A d \in table.uln : IsULN(table, d) \/ Announced(queue, d, {"Removed"})
      /\ \A d \in table.uln : ~Unmarked(queue, d)
      /\ \A d \in ValidOnes(table) : table.hop[d] \in table.uln
  BY DEF NeighborsAreContacts
<1>6. CASE RemoveDead(c)
  <2> DEFINE P == {c} \cap Present(table)
             H == {b \in Contact : table.hop[b] = b}
  <2>1. Handle("Dead", c) /\ Rest(c) \in Seq(Event)
    BY <1>1, <1>6, RestType DEF RemoveDead
  <2>2. SetState(table, c, "Absent") \in Table
    BY <1>1, SetStateType DEF ContactState
  <2>3. /\ table'.st = [table.st EXCEPT ![c] = "Absent"] /\ table'.hop = [table.hop EXCEPT ![c] = c]
        /\ table'.ahead = table.ahead \ {c} /\ table'.uln = table.uln
        /\ queue' = Rest(c) \o Raise("Removed", P, H)
    BY <1>1, <1>6, <2>2 DEF RemoveDead, RemoveContact, SetState, Table
  <2>4. P \in SUBSET Contact /\ P \subseteq {c} /\ "Removed" \in EventType
    BY DEF EventType
  <2>5. ASSUME c \in P, c \in table.uln PROVE c \in H
    <3>1. ~Announced(queue, c, {"Removed"})
      BY <2>5 DEF RemovedIsGone, Present
    <3> QED
      BY <1>5, <2>5, <3>1 DEF IsULN
  <2>6. ASSUME c \in table.uln, c \notin P PROVE Announced(queue, c, {"Removed"})
    BY <1>5, <2>6 DEF IsULN, Present
  <2> HIDE DEF P, H
  <2>7. Raise("Removed", P, H) \in Seq(Event)
    BY <2>4, RaiseType
  <2>8. ASSUME NEW d \in table.uln PROVE IsULN(table', d) \/ Announced(queue', d, {"Removed"})
    <3>1. Announced(queue, d, {"Removed"}) => Announced(queue', d, {"Removed"})
      BY <1>1, <2>1, <2>3, <2>7, RestAnnounced, AppendAnnounced
    <3>2. CASE d # c
      BY <1>1, <1>5, <2>3, <3>1, <3>2 DEF IsULN
    <3>3. CASE d = c /\ c \in P
      BY <2>1, <2>3, <2>7, <3>3, RaiseAnnounced, AppendAnnounced
    <3>4. CASE d = c /\ c \notin P
      BY <2>6, <3>1, <3>4
    <3> QED
      BY <3>2, <3>3, <3>4
  <2>9. ASSUME NEW d \in table.uln PROVE ~Unmarked(queue', d)
    <3>1. ~Unmarked(Rest(c), d)
      BY <1>1, <1>5, <2>1, RestUnmarked
    <3>2. ~Unmarked(Raise("Removed", P, H), d)
      BY <2>4, <2>5, RaiseUnmarked
    <3> QED
      BY <2>1, <2>3, <2>7, <3>1, <3>2, AppendUnmarked
  <2>10. ASSUME NEW d \in ValidOnes(table') PROVE table'.hop[d] \in table.uln
    BY <1>1, <1>5, <2>3 DEF ValidOnes
  <2> QED
    BY <1>5, <2>3, <2>8, <2>9, <2>10
<1>7. CASE ContactRemoved(c)
  <2> DEFINE t == SetInvalid(table, Affected(c))
  <2>1. Handle("Removed", c) /\ Rest(c) \in Seq(Event)
    BY <1>1, <1>7, RestType DEF ContactRemoved
  <2>2. t \in Table /\ Weakened(table, t) /\ t.uln = table.uln
    BY <1>1, SetInvalidType, SetInvalidWeakens
  <2>3. /\ table' = [t EXCEPT !.uln = @ \ {c}]
        /\ queue' = Rest(c) \o Invalidated(table, Affected(c))
    BY <1>7 DEF ContactRemoved
  <2>4. ASSUME c \in table.uln, NEW d \in ValidOnes(t) PROVE t.hop[d] # c
    <3>1. Head(queue) = queue[1] /\ 1 \in 1..Len(queue)
      BY <1>1, <2>1 DEF Handle
    <3>2. c \in Head(queue).uln
      BY <1>5, <2>1, <2>4, <3>1 DEF Handle, Unmarked
    <3>3. Affected(c) = Via(table, c)
      BY <3>2 DEF Affected, WasULN
    <3>4. d \in Contact /\ table.st[d] = "Valid" /\ d \notin Via(table, c)
      BY <1>1, <3>3, SetInvalidState DEF ValidOnes
    <3> QED
      BY <2>2, <3>4 DEF Via, Present, Weakened
  <2> HIDE DEF t
  <2>5. /\ table'.uln = table.uln \ {c} /\ table'.st = t.st /\ table'.hop = t.hop
        /\ table'.ahead = t.ahead
    BY <2>2, <2>3 DEF Table
  <2>6. ASSUME NEW d \in table'.uln
        PROVE  (IsULN(table', d) \/ Announced(queue', d, {"Removed"})) /\ ~Unmarked(queue', d)
    <3>1. d \in Contact /\ d \in table.uln /\ d # c
      BY <1>1, <2>5
    <3>2. Announced(queue, d, {"Removed"}) => Announced(queue', d, {"Removed"})
      BY <1>1, <2>1, <2>3, <3>1, RestAnnounced, SweepKeepsMarks
    <3>3. Unmarked(queue', d) => Unmarked(queue, d)
      BY <1>1, <2>1, <2>3, RestUnmarked, SweepKeepsMarks
    <3>4. IsULN(table, d) => IsULN(table', d)
      BY <2>2, <2>5, <3>1 DEF Weakened, IsULN
    <3> QED
      BY <1>5, <3>1, <3>2, <3>3, <3>4
  <2>7. ASSUME NEW d \in ValidOnes(table') PROVE table'.hop[d] \in table'.uln
    <3>1. d \in ValidOnes(t) /\ d \in ValidOnes(table) /\ d \in Contact
      BY <2>2, <2>5 DEF ValidOnes, Weakened
    <3>2. t.hop[d] = table.hop[d] /\ table.hop[d] \in table.uln
      BY <1>5, <2>2, <3>1 DEF Weakened
    <3> QED
      BY <2>4, <2>5, <3>1, <3>2
  <2> QED
    BY <1>5, <2>2, <2>5, <2>6, <2>7 DEF Weakened
<1> QED
  BY <1>6, <1>7

(* The neighbours stay contacts with a path of one hop.                    *)
LEMMA NeighborsAlwaysContacts == Spec => []NeighborsAreContacts
<1>1. Init => NeighborsAreContacts
  <2>1. Init => table.ahead = {} /\ table.uln = {} /\ ValidOnes(table) = {}
    BY DEF Init, EmptyTable, ValidOnes
  <2> QED
    BY <2>1 DEF NeighborsAreContacts
<1>2. TypeOK /\ TypeOK' /\ AllAnnounced /\ RemovedIsGone /\ NeighborsAreContacts /\ [Next]_vars
      => NeighborsAreContacts'
  <2>1. CASE UNCHANGED vars
    BY <2>1 DEF vars, NeighborsAreContacts
  <2> QED
    BY <2>1, InputNeighbors, TimerNeighbors, DispatchNeighbors DEF Next
<1>3. Init => AllAnnounced
  BY DEF Init, EmptyTable, AllAnnounced
<1> QED
  BY <1>1, <1>2, <1>3, TypeCorrect, NextAnnounced, RemovedAlwaysGone, PTL DEF Spec

(* As long as every discovery completes and no contact restarts, no message *)
(* to a valid contact is dropped for an unknown next hop, for any number   *)
(* of contacts and failures: the node of the neighbour table at which a    *)
(* valid path starts is only removed together with the path.               *)
THEOREM FirstHopAlwaysNeighbor == Spec => []FirstHopIsNeighbor
<1>1. NeighborsAreContacts => FirstHopIsNeighbor
  BY DEF NeighborsAreContacts, FirstHopIsNeighbor
<1> QED
  BY <1>1, NeighborsAlwaysContacts, PTL

===============================================================================
