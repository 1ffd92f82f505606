----------------------- MODULE MCDistributedHashTable -----------------------
(* Instances of DistributedHashTable for TLC: NodeIds of three bits.       *)
EXTENDS DistributedHashTable, Bitwise, TLC

CONSTANTS a, b, c, k

MCId == (a :> 1) @@ (b :> 4) @@ (c :> 5) @@ (k :> 7)
MCDistance == [n \in Node |-> [t \in Target |-> MCId[n] ^^ MCId[t]]]
LeadingZeros(x) == Cardinality({i \in 0 .. 2 : x < 2 ^ i})
MCPrefixLen == [n \in Node |-> [t \in Target |-> LeadingZeros(MCDistance[n][t])]]

(* All nodes know each other, or a and c only know b.                      *)
MCInitialContacts == {[n \in Node |-> Node \ {n}],
                      (a :> {b}) @@ (b :> {a, c}) @@ (c :> {b})}
=============================================================================
