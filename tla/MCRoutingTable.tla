--------------------------- MODULE MCRoutingTable ---------------------------
(* An instance of the routing table and its forwarding entries for TLC.    *)
EXTENDS DeriveFwdTableEntries, Bitwise

MCXorOf == [a \in NodeIds |-> [b \in NodeIds |-> a ^^ b]]
=============================================================================
