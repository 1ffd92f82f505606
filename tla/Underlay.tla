------------------------------ MODULE Underlay ------------------------------
(***************************************************************************)
(* The nodes of the network and the links between them.  A node has one    *)
(* interface for every link it is attached to.                             *)
(***************************************************************************)
EXTENDS Naturals

CONSTANTS Node,     \* the nodes
          Link,     \* the links
          Attached, \* [Link -> SUBSET Node]: who has an interface on a link
          NoLink,   \* stands for "no underlay neighbour id"
          MaxSSN    \* the greatest safe state sequence number

ASSUME UnderlayAssumption ==
         /\ Attached \in [Link -> SUBSET Node]
         /\ NoLink \notin Link
         /\ MaxSSN \in Nat \ {0}

(* State sequence numbers (SafeStateSeqNr).                                *)
SSN == 1 .. MaxSSN

=============================================================================
