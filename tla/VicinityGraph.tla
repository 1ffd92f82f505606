---------------------------- MODULE VicinityGraph ----------------------------
(***************************************************************************)
(* The vicinity graph of one node (PetVicinityGraph): an undirected graph  *)
(* around the node itself, the root, and for every other node in it an     *)
(* Entry with the greatest SSN observed for that node and the SSN its      *)
(* neighbourhood was last synchronised with.                               *)
(*                                                                         *)
(* An SSN is at least 1, so observed = 0 stands for "no entry" and         *)
(* synced = 0 for synced_ssn = None.  Edges are two-element sets of nodes. *)
(* VICINITY_RADIUS is 3: nodes at a distance of three hops or more are     *)
(* outside, so distances and paths need no recursion.                      *)
(***************************************************************************)
EXTENDS Underlay

Graph == [observed : [Node -> Nat], synced : [Node -> Nat], edges : SUBSET SUBSET Node]

NewGraph == [observed |-> [m \in Node |-> 0],
             synced   |-> [m \in Node |-> 0],
             edges    |-> {}]

HasEntry(g, m) == g.observed[m] # 0

Neighbors(g, m) == {k \in Node : {m, k} \in g.edges}

IsDirectUln(g, root, m) == {root, m} \in g.edges

Larger(a, b) == IF a < b THEN b ELSE a

(* Mutant: an older SSN overwrites a newer one.                            *)
VgUpdateObservedAlways(g, m, s) == [g EXCEPT !.observed[m] = s]

VgUpdateObserved(g, m, s) == [g EXCEPT !.observed[m] = Larger(@, s)]

VgUpdateSynced(g, m, s) ==
  [g EXCEPT !.synced[m] = s, !.observed[m] = Larger(@, s)]

VgInsert(g, m, via, s) ==
  [g EXCEPT !.observed[m] = Larger(@, s), !.edges = @ \cup {{m, via}}]

VgRemoveEdge(g, a, b) == [g EXCEPT !.edges = @ \ {{a, b}}]

VgRemove(g, m) ==
  [g EXCEPT !.observed[m] = 0, !.synced[m] = 0, !.edges = {e \in @ : m \notin e}]

(* The nodes at most two hops away from the root: VICINITY_RADIUS - 1.     *)
Vicinity(g, root) ==
  Neighbors(g, root) \cup UNION {Neighbors(g, k) : k \in Neighbors(g, root)}

VgRetain(g, root) ==
  LET keep == Vicinity(g, root) \cup {root}
  IN  [observed |-> [m \in Node |-> IF m \in keep THEN g.observed[m] ELSE 0],
       synced   |-> [m \in Node |-> IF m \in keep THEN g.synced[m] ELSE 0],
       edges    |-> {e \in g.edges : e \subseteq keep}]

(* The first hops of the shortest paths root, via, m of vicinity_path_to   *)
(* that have three nodes; a direct neighbour has a path of two.            *)
TwoHopVias(g, root, m) ==
  IF IsDirectUln(g, root, m) THEN {} ELSE Neighbors(g, root) \cap Neighbors(g, m)

HasVicinityPath(g, root, m) == IsDirectUln(g, root, m) \/ TwoHopVias(g, root, m) # {}

==============================================================================
