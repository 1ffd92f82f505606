--------------------- MODULE OverlayNeighborhoodDiscovery ---------------------
(***************************************************************************)
(* The overlay maintenance of a node: OverlayNeighborhoodDiscovery, which  *)
(* asks the contacts closest to the node for its overlay neighbours, and   *)
(* PathProbing, which validates the paths in their answers.                *)
(*                                                                         *)
(* Only the latest join request is told apart: the answer to an older one, *)
(* and to a request to a random id, is a Report of PathProbing.            *)
(***************************************************************************)
EXTENDS PathProbing

CONSTANTS Distance,     \* [Neighbor \cup Contact -> Nat]: from the id of the node
          JoinContacts, \* how many of them the join step looks at: closest(root, 3)
          MaxRetries    \* backoff_max_retries

ASSUME JoinAssumption ==
  /\ Neighbor \cap Contact = {} /\ None \notin Neighbor
  /\ Distance \in [Neighbor \cup Contact -> Nat]
  /\ \A d, e \in Neighbor \cup Contact : d # e => Distance[d] # Distance[e]
  /\ JoinContacts \in Nat /\ JoinContacts >= 2 /\ MaxRetries \in Nat \ {0}

VARIABLES
  ond,      \* the state of the use case, see OndRecord
  changed,  \* VicinityEvent::Changed is in the event queue
  choice    \* history: there have always been two contacts to choose from

ondVars == <<ond, changed>>
allVars == <<vars, ondVars, choice>>

(* armed: the timer with the id in the context of PeriodicJoin is running. *)
(* last: the contact of last_msg_state; backoff: current_retries.          *)
OndRecord == [state : {"Running", "Isolated"}, armed : BOOLEAN,
              backoff : 0..(MaxRetries - 1), last : Neighbor \cup Contact \cup {None}]

TypeOK ==
  ProbingTypeOK /\ ond \in OndRecord /\ changed \in BOOLEAN /\ choice \in BOOLEAN

Started  == [state |-> "Running", armed |-> TRUE, backoff |-> 0, last |-> None]
Isolated == [state |-> "Isolated", armed |-> FALSE, backoff |-> 0, last |-> None]

Init == ProbingInit /\ ond = Started /\ changed = FALSE /\ choice = (Cardinality(Neighbor) >= 2)

-------------------------------------------------------------------------------
ValidContact(d) == IF d \in Neighbor THEN d \in uln ELSE contact[d].state = "Valid"
HopTo(d) == IF d \in Neighbor THEN d ELSE FirstHop[contact[d].active.ids]

(* The contacts of V with fewer than n closer ones in V.                   *)
Closest(V, n) == {d \in V : Cardinality({e \in V : Distance[e] < Distance[d]}) < n}

ValidContacts == {d \in Neighbor \cup Contact : ValidContact(d)}

(* Mutant: only the very closest contact is looked at.                     *)
ClosestOnesFirst == Closest(ValidContacts, 1)

ClosestOnes == Closest(ValidContacts, JoinContacts)

(* The contact of a request that was not answered is avoided.              *)
JoinTargets == ClosestOnes \ {ond.last}
JoinTarget  == CHOOSE d \in JoinTargets : \A e \in JoinTargets : Distance[d] <= Distance[e]

(* ExponentialBackoff::next with the limit set                             *)
NextBackoff(b) == IF b + 1 = MaxRetries THEN b ELSE b + 1

Sends == uln # {} /\ JoinTargets # {} /\ HopTo(JoinTarget) \in uln

(* send_next_join_request: an early return leaves no timer behind.         *)
JoinTimer ==
  /\ ond.state = "Running" /\ ond.armed
  /\ ond' = IF uln = {} THEN Isolated
            ELSE IF Sends
            THEN [ond EXCEPT !.backoff = NextBackoff(@), !.last = JoinTarget]
            ELSE [ond EXCEPT !.backoff = NextBackoff(@), !.armed = FALSE]
  /\ UNCHANGED <<vars, changed>>

(* send_next_request_to_random_id finds that there is no neighbour left.   *)
ExplorationTimer ==
  /\ ond.state = "Running" /\ uln = {}
  /\ ond' = Isolated
  /\ UNCHANGED <<vars, changed>>

(* FindNodeRsp or Error with the latest nonce.  A request or its answer    *)
(* that is lost leaves the state as it is.                                 *)
Answered == ond.last # None /\ ond' = [ond EXCEPT !.last = None]

JoinRsp(p)   == Answered /\ Report(p) /\ UNCHANGED changed
JoinRspEmpty == Answered /\ UNCHANGED <<vars, changed>>

(* Neighbours go and come; a discovery changes the vicinity graph.         *)
Lost(V)  == NeighborsLost(V) /\ UNCHANGED ondVars
Found(v) == NeighborFound(v) /\ changed' = TRUE /\ UNCHANGED ond

(* Mutant: the event is taken for one that changes nothing.               *)
VicinityChangedMissed ==
  /\ changed /\ changed' = FALSE
  /\ UNCHANGED <<vars, ond>>

VicinityChanged ==
  /\ changed /\ changed' = FALSE
  /\ ond' = IF ond.state = "Isolated" /\ uln # {} THEN Started ELSE ond
  /\ UNCHANGED vars

-------------------------------------------------------------------------------
Probing == ProbingNext /\ UNCHANGED ondVars

Usable == {d \in Neighbor \cup Contact : ValidContact(d) /\ HopTo(d) \in uln}

Step ==
  \/ Probing
  \/ JoinTimer \/ ExplorationTimer \/ JoinRspEmpty \/ VicinityChanged
  \/ \E p \in Path : JoinRsp(p)
  \/ \E V \in SUBSET uln : Lost(V)
  \/ \E v \in Neighbor : Found(v)

History == choice' = (choice /\ Cardinality(Usable') >= 2)

Next == Step /\ History

(* Timers are run when they are due, and messages that are not lost are    *)
(* delivered.                                                              *)
Fairness ==
  /\ WF_allVars(CheckTimer /\ UNCHANGED ondVars /\ History)
  /\ \A n \in Nonce :
       /\ WF_allVars((BecomesLate(n) \/ ProbeTimeout(n)) /\ UNCHANGED ondVars /\ History)
       /\ WF_allVars(Carry(n) /\ UNCHANGED ondVars /\ History)
  /\ \A c \in Contact : WF_allVars(BecomesAged(c) /\ UNCHANGED ondVars /\ History)

Spec == Init /\ [][Next]_allVars /\ Fairness

-------------------------------------------------------------------------------
(* Properties                                                              *)

(* As long as the node has had two contacts to choose from, the timer of   *)
(* the join step is running, whatever happened to the requests: "the       *)
(* periodic process of sending FindNodeReq with exponential backoff and    *)
(* final limit" goes on.                                                   *)
JoinGoesOn == choice => ond.state = "Running" /\ ond.armed

(* A node that has lost all neighbours is woken up by the next one: the    *)
(* event that starts the use case again is on its way.                     *)
IsolationEnds == ond.state = "Isolated" /\ uln # {} => changed
===============================================================================
