------------------------- MODULE MCVicinityDiscovery -------------------------
(***************************************************************************)
(* Small networks for model checking VicinityDiscovery.                    *)
(***************************************************************************)
EXTENDS VicinityDiscovery, TLC

CONSTANTS a, b, c,   \* nodes
          ab, bc     \* links

(* Two nodes on one link.                                                  *)
PairAttached == ab :> {a, b}
PairIds == a :> 1 @@ b :> 2

(* A line a - b - c: a and c are two hops apart.                           *)
LineAttached == ab :> {a, b} @@ bc :> {b, c}
LineIds == a :> 1 @@ b :> 2 @@ c :> 3

(* Every interface may go down, or only the one of b towards c.            *)
AllInterfaces == {i \in Node \X Link : i[1] \in Attached[i[2]]}
FarInterface == {<<b, bc>>}

(* A state between the exchanges: peers[n] are the confirmed neighbours of *)
(* n, up[n] its interfaces, ssn[n] its SSN, synced[n][m] what n has        *)
(* observed and synchronised of m, contact[n][m] the SSN of its contact.   *)
QuietState(peers, up, ssn, synced, contact) ==
  /\ alive = Node
  /\ interval = [n \in Node |-> [l \in Link |-> IF l \in up[n] THEN UlnMinInterval ELSE 0]]
  /\ helloHooks = [n \in Node |-> [l \in Link |-> IF l \in up[n] THEN 1 ELSE 0]]
  /\ downs = [n \in Node |-> [l \in Link |-> {}]]
  /\ uln = [n \in Node |->
       [state |-> [m \in Node |-> IF m \in peers[n] THEN "Bidirectional" ELSE "Vacant"],
        link  |-> [m \in Node |-> IF m \in peers[n]
                                  THEN CHOOSE l \in Link : {n, m} \subseteq Attached[l] ELSE NoLink],
        ssn   |-> ssn[n]]]
  /\ rt = [n \in Node |-> [m \in Node |->
       IF contact[n][m] = 0 THEN NoContact(m)
       ELSE [ssn |-> contact[n][m], via |-> IF m \in peers[n] THEN m ELSE b, state |-> "Valid"]]]
  /\ vg = [n \in Node |->
       [observed |-> synced[n], synced |-> synced[n],
        edges |-> {e \in {{k, m} : k \in Node, m \in Node} :
                     \E k \in Node : \E m \in peers[k] : e = {k, m} /\ (n = k \/ synced[n][k] # 0)}]]
  /\ discReq = [n \in Node |-> [m \in Node |-> NoRequest]]
  /\ discHooks = [n \in Node |-> [m \in Node |-> 0]]
  /\ queryReq = [n \in Node |-> [m \in Node |-> NoRequest]]
  /\ queryHooks = [n \in Node |-> [m \in Node |-> 0]]
  /\ msgs = {}
  /\ budget = [flaps |-> MaxFlaps, restarts |-> MaxRestarts]

Row(x, y, z) == a :> x @@ b :> y @@ c :> z

(* The whole line has been discovered.  Spec reaches it.                   *)
SettledInit ==
  QuietState(Row({b}, {a, c}, {b}), Row({ab}, {ab, bc}, {bc}), Row(2, 3, 2),
             Row(Row(0, 3, 2), Row(2, 0, 2), Row(2, 3, 0)),
             Row(Row(0, 3, 2), Row(1, 0, 2), Row(2, 1, 0)))

(* Messages of a settled line are lost and the link between b and c fails. *)
SettledSpec == SettledInit /\ [][Next]_vars

==============================================================================
