------------------------------ MODULE ULNTable ------------------------------
(***************************************************************************)
(* The underlay neighbour table of one node (InMemoryULNTable behind       *)
(* ObservableULNTable): for every neighbour the underlay neighbour id over *)
(* which it is reached, whether that mapping was confirmed to work in both *)
(* directions, and the state sequence number (SSN) of the table.           *)
(*                                                                         *)
(* An UnderlayNeighborId is an interface and a connection on it.  Both     *)
(* ends of a connection are known to the model, so the interface (the      *)
(* link it is attached to) together with the neighbour identifies it.      *)
(***************************************************************************)
EXTENDS Underlay

ULNState == {"Vacant", "Tentative", "Bidirectional"}

Table == [state : [Node -> ULNState], link : [Node -> Link \cup {NoLink}], ssn : SSN]

NewTable == [state |-> [m \in Node |-> "Vacant"],
             link  |-> [m \in Node |-> NoLink],
             ssn   |-> 1]

UlnContains(t, m) == t.state[m] # "Vacant"

UlnMapped(t, m, l) == UlnContains(t, m) /\ t.link[m] = l

BidirectionalSet(t) == {m \in Node : t.state[m] = "Bidirectional"}

(* A mapping to another underlay neighbour id replaces the old one and has *)
(* to be confirmed again; the SSN does not move.                           *)
UlnInsert(t, m, l) ==
  IF UlnMapped(t, m, l) THEN t
  ELSE [t EXCEPT !.state[m] = "Tentative", !.link[m] = l]

NextSSN(s) == IF s < MaxSSN THEN s + 1 ELSE s

(* confirm() panics on a neighbour that is not mapped to this underlay     *)
(* neighbour id, and where the SSN has no successor ("todo!").             *)
UlnConfirmPanics(t, m, l) ==
  \/ ~UlnMapped(t, m, l)
  \/ t.state[m] = "Tentative" /\ t.ssn = MaxSSN

(* Mutant: the SSN is not incremented.                                     *)
UlnConfirmSameSSN(t, m, l) ==
  IF UlnMapped(t, m, l) /\ t.state[m] = "Tentative"
  THEN [t EXCEPT !.state[m] = "Bidirectional"] ELSE t

UlnConfirm(t, m, l) ==
  IF UlnMapped(t, m, l) /\ t.state[m] = "Tentative"
  THEN [t EXCEPT !.state[m] = "Bidirectional", !.ssn = NextSSN(@)]
  ELSE t

UlnRemovePanics(t, m) == t.state[m] = "Bidirectional" /\ t.ssn = MaxSSN

(* Mutant: the change is counted, the entry stays.                         *)
UlnRemoveKept(t, m) == [t EXCEPT !.ssn = IF t.state[m] = "Bidirectional" THEN NextSSN(@) ELSE @]

UlnRemove(t, m) ==
  [t EXCEPT !.state[m] = "Vacant", !.link[m] = NoLink,
            !.ssn = IF t.state[m] = "Bidirectional" THEN NextSSN(@) ELSE @]

=============================================================================
