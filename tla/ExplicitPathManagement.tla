------------------------ MODULE ExplicitPathManagement ------------------------
(***************************************************************************)
(* Explicit paths: the ExplicitPathManagement use case of the nodes on the *)
(* paths of one contact, PrecomputePathIds for the last hops of them, and  *)
(* the forwarding tables both fill (see ForwardingTables).                 *)
(*                                                                         *)
(* The source keeps the contact valid, over a path of Paths, and sends a   *)
(* PathSetupReq when the path comes into use and a ProbeReq every          *)
(* refresh_interval.  Every node on the path with more than                *)
(* VICINITY_RADIUS hops left records the path and installs the exchange of *)
(* its path id; what is not refreshed for max_age is cleaned up.  A        *)
(* PathTeardownReq changes nothing at any node (soft state) and is left    *)
(* out.                                                                    *)
(*                                                                         *)
(* Nodes are joined by one or more underlay links.  A hop is a pair of     *)
(* nodes that follow each other on a path; all of the state of a node      *)
(* about a neighbour is kept by hop.  The forwarding tables are a task of  *)
(* their own behind a FIFO channel.                                        *)
(*                                                                         *)
(* One tick is a refresh_interval; messages and updates take less than     *)
(* that.                                                                   *)
(***************************************************************************)
EXTENDS Naturals, FiniteSets, ForwardingTables, SequencesExt

CONSTANTS Paths,            \* the paths of the contact, without the source
          Link,             \* underlay links between two neighbours
          LinksOf(_),       \* the links of a hop
          Unreliable,       \* the hops whose links fail or change
          VICINITY_RADIUS,
          MaxAge,           \* max_age, in ticks
          CleanupInterval,  \* cleanup_interval, in ticks
          MaxFaults,        \* bound: how often a message is lost, a link fails or a mapping changes
          MaxQueue,         \* bound: updates waiting for the forwarding tables
          LateHello         \* a Hello may be handled after its link went down

NoLink == 0

Node     == UNION {Range(p) : p \in Paths}
PathId   == UNION {{SubSeq(p, i, Len(p)) : i \in 1 .. Len(p)} : p \in Paths}
Hop      == {<<s[1], s[2]>> : s \in {s \in PathId : Len(s) > 1}}
HopOf(s) == <<s[1], s[2]>>

ASSUME PathAssumption ==
  /\ IsFiniteSet(Paths) /\ Paths \subseteq Seq(Node)
  /\ NoLink \notin Link /\ \A h \in Hop : LinksOf(h) # {} /\ LinksOf(h) \subseteq Link
  /\ VICINITY_RADIUS \in Nat \ {0} /\ MaxAge \in Nat \ {0} /\ CleanupInterval \in Nat \ {0}
  /\ MaxFaults \in Nat /\ MaxQueue \in Nat /\ LateHello \in BOOLEAN

(* The paths a node records because a request asks for it.                 *)
LongPaths(n) == {s \in PathId : s[1] = n /\ Len(s) > VICINITY_RADIUS}

Transit == {n \in Node : LongPaths(n) # {}}

(* The paths PrecomputePathIds derives from the vicinity graph.            *)
ShortPaths(n) == {s \in PathId : s[1] = n /\ Len(s) \in 2 .. VICINITY_RADIUS}

VARIABLES
  contact,   \* of the source: whether it is valid, and its active path
  net,       \* PathSetupReq and ProbeReq on their way: path, and the index of the receiver
  recorded,  \* [Node -> path id -> via, age]: externally_added_paths
  computed,  \* [Node -> set of <<path id, hop>>]: old_entries
  updates,   \* [Node -> Seq]: the channel to the forwarding tables
  tables,    \* [Node -> tables]
  uln,       \* [Hop -> link]: the uln_table
  edges,     \* the hops that are edges of the vicinity graph of their first node
  up,        \* [Hop -> links]: the links the underlay observer has
  down,      \* [Hop -> links]: UnderlayNeighborDown, not handled yet
  late,      \* [Hop -> links]: a Hello over the link is not handled yet
  refresh,   \* refresh_timer of the source
  cleanup,   \* [Transit -> ticks]: cleanup_timer
  faults     \* faults so far

vars == <<contact, net, recorded, computed, updates, tables, uln, edges, up, down, late,
          refresh, cleanup, faults>>

underlay == <<uln, edges, up, down, late>>
clocks   == <<refresh, cleanup>>

Message == [path : Paths, at : Nat]
Entry   == [via : Link, age : Nat]

TypeOK ==
  /\ contact \in [valid : BOOLEAN, path : Paths]
  /\ net \subseteq Message
  /\ \A n \in Node :
       /\ DOMAIN recorded[n] \subseteq LongPaths(n)
       /\ \A s \in DOMAIN recorded[n] : recorded[n][s] \in Entry
       /\ computed[n] \subseteq ShortPaths(n) \X Link
       /\ DOMAIN tables[n].path \subseteq LongPaths(n) \cup ShortPaths(n)
       /\ Len(updates[n]) <= MaxQueue + Cardinality(PathId) + 1
  /\ uln \in [Hop -> Link \cup {NoLink}]
  /\ up \in [Hop -> SUBSET Link] /\ down \in [Hop -> SUBSET Link] /\ late \in [Hop -> SUBSET Link]
  /\ refresh \in 0 .. 1 /\ cleanup \in [Transit -> 0 .. CleanupInterval]
  /\ faults \in 0 .. MaxFaults

-------------------------------------------------------------------------------
(* PrecomputePathIds: the entries for the paths of the vicinity graph      *)
(* whose first hop is in the uln_table.                                    *)
GenEntries(n, m, e) ==
  {<<s, m[HopOf(s)]>> : s \in {s \in ShortPaths(n) : HopOf(s) \in e /\ m[HopOf(s)] # NoLink}}

(* First all entries that are gone are removed, then the new ones created. *)
PrecomputeUpdates(n, m, e) ==
  LET new == GenEntries(n, m, e)
  IN  [i \in 1 .. Cardinality(computed[n] \ new) |->
         PathUpdate("Remove", SetToSeq(computed[n] \ new)[i][1], NoLink)]
      \o [i \in 1 .. Cardinality(new \ computed[n]) |->
         PathUpdate("CreateOrUpdate", SetToSeq(new \ computed[n])[i][1],
                                      SetToSeq(new \ computed[n])[i][2])]

(* What a handler of n sends to the tables (first), and the run of         *)
(* PrecomputePathIds that a change of the graph causes.                    *)
GraphChanged(n, first, m, e) ==
  IF e = edges
  THEN /\ updates' = [updates EXCEPT ![n] = @ \o first]
       /\ UNCHANGED computed
  ELSE /\ updates' = [updates EXCEPT ![n] = @ \o first \o PrecomputeUpdates(n, m, e)]
       /\ computed' = [computed EXCEPT ![n] = GenEntries(n, m, e)]

(* The tables with the paths of the vicinity.                              *)
VicinityTables(n, m) ==
  NativeFwdTables([s \in ShortPaths(n) |-> m[HopOf(s)]],
                  [s \in ShortPaths(n) |-> Tail(s)],
                  [t \in {Tail(s) : s \in ShortPaths(n)} |-> m[<<n, t[1]>>]])

(* At the beginning the vicinity is known and its paths are installed, and *)
(* the source does not know the contact.                                   *)
Init ==
  /\ contact \in [valid : {FALSE}, path : Paths]
  /\ net = {}
  /\ recorded = [n \in Node |-> <<>>]
  /\ uln = [h \in Hop |-> CHOOSE l \in LinksOf(h) : TRUE]
  /\ edges = Hop
  /\ computed = [n \in Node |-> GenEntries(n, uln, edges)]
  /\ tables = [n \in Node |-> VicinityTables(n, uln)]
  /\ updates = [n \in Node |-> <<>>]
  /\ up = [h \in Hop |-> LinksOf(h)]
  /\ down = [h \in Hop |-> {}] /\ late = down
  /\ refresh = 1 /\ cleanup \in [Transit -> {CleanupInterval}]
  /\ faults = 0

-------------------------------------------------------------------------------
(* The source.                                                             *)

(* send_setup_req and send_probe_req: the nodes on the path do the same    *)
(* for both.                                                               *)
Send(p) == IF Len(p) > VICINITY_RADIUS THEN net \cup {[path |-> p, at |-> 1]} ELSE net

(* A ContactEvent makes the contact valid over p: New, or Updated from any *)
(* state, also from another path.  (A path that is validated again is set   *)
(* up again; what that changes is what a refresh changes.)                 *)
ContactValid(p) ==
  /\ contact # [valid |-> TRUE, path |-> p]
  /\ contact' = [valid |-> TRUE, path |-> p]
  /\ net' = Send(p)
  /\ UNCHANGED <<recorded, computed, updates, tables, underlay, clocks, faults>>

(* The contact is invalidated or removed.                                  *)
ContactLost ==
  /\ contact.valid
  /\ contact' = [contact EXCEPT !.valid = FALSE]
  /\ UNCHANGED <<net, recorded, computed, updates, tables, underlay, clocks, faults>>

(* perform_refresh.                                                        *)
PerformRefresh ==
  /\ refresh = 0 /\ refresh' = 1
  /\ net' = IF contact.valid THEN Send(contact.path) ELSE net
  /\ UNCHANGED <<contact, recorded, computed, updates, tables, underlay, cleanup, faults>>

-------------------------------------------------------------------------------
(* The nodes on the path.                                                  *)

(* SourceRoute::remaining_path: from the receiver on.                      *)
Remaining(m) == SubSeq(m.path, m.at, Len(m.path))

(* Mutant: a path that is recorded already is not seen again.              *)
RecordOnce(r, s, l) ==
  IF l = NoLink \/ Has(r, s) THEN r ELSE Put(r, s, [via |-> l, age |-> 0])

(* register_path: without a next hop nothing happens.  A path that is      *)
(* recorded already is only seen again; its via stays.                     *)
Record(r, s, l) ==
  IF l = NoLink THEN r
  ELSE IF Has(r, s) THEN [r EXCEPT ![s].age = 0] ELSE Put(r, s, [via |-> l, age |-> 0])

RegisterUpdate(r, s, l) ==
  IF l = NoLink THEN <<>>
  ELSE <<PathUpdate(IF Has(r, s) THEN "Update" ELSE "Create", s, l)>>

(* A PathSetupReq or ProbeReq with more than VICINITY_RADIUS hops left.    *)
(* ForwardProtocolMessage sends it on over the uln_table unless the rest   *)
(* of the path is in the vicinity of the next node, where a ProbeReq       *)
(* changes nothing any more.                                               *)
Receive(m) ==
  LET n == m.path[m.at]
      s == Remaining(m)
      l == uln[HopOf(s)]
      forwards == Len(s) - 1 > VICINITY_RADIUS /\ l \in up[HopOf(s)]
  IN  /\ Len(updates[n]) < MaxQueue
      /\ recorded' = [recorded EXCEPT ![n] = Record(@, s, l)]
      /\ updates' = [updates EXCEPT ![n] = @ \o RegisterUpdate(recorded[n], s, l)]
      /\ net' = (net \ {m}) \cup (IF forwards THEN {[m EXCEPT !.at = @ + 1]} ELSE {})
      /\ UNCHANGED <<contact, computed, tables, underlay, clocks, faults>>

Lose(m) ==
  /\ faults < MaxFaults /\ faults' = faults + 1
  /\ net' = net \ {m}
  /\ UNCHANGED <<contact, recorded, computed, updates, tables, underlay, clocks>>

(* Mutant: the record goes, the table is not told.                         *)
RemoveUpdatesForgotten(S) == <<>>

RemoveUpdates(S) == [i \in 1 .. Cardinality(S) |-> PathUpdate("Remove", SetToSeq(S)[i], NoLink)]

(* Mutant: an entry has to be older than max_age.                          *)
ExpiredLate(r) == {s \in DOMAIN r : r[s].age > MaxAge + 1}

Expired(r) == {s \in DOMAIN r : r[s].age >= MaxAge}

Forget(r, S) == Restrict(r, DOMAIN r \ S)

PerformCleanup(n) ==
  LET S == Expired(recorded[n])
  IN  /\ cleanup[n] = 0
      /\ recorded' = [recorded EXCEPT ![n] = Forget(@, S)]
      /\ updates' = [updates EXCEPT ![n] = @ \o RemoveUpdates(S)]
      /\ cleanup' = [cleanup EXCEPT ![n] = CleanupInterval]
      /\ UNCHANGED <<contact, net, computed, tables, underlay, refresh, faults>>

(* The entries invalidate_all_over_interfaces takes to be affected.        *)
Affected(r, h, l) == {s \in DOMAIN r : HopOf(s) = h /\ r[s].via = l}

(* UnderlayNeighborDown: ExplicitPathManagement first; then                *)
(* FailureHandling removes the neighbour from the uln_table and its edge   *)
(* from the vicinity graph, if the table still maps it to this link; and   *)
(* the change of the graph makes PrecomputePathIds run.                    *)
HandleDown(h, l) ==
  LET n == h[1]
      S == Affected(recorded[n], h, l)
      mapped == uln[h] = l
      m == IF mapped THEN [uln EXCEPT ![h] = NoLink] ELSE uln
      e == IF mapped THEN edges \ {h} ELSE edges
  IN  /\ l \in down[h] /\ Len(updates[n]) < MaxQueue
      /\ down' = [down EXCEPT ![h] = @ \ {l}]
      /\ recorded' = [recorded EXCEPT ![n] = Forget(@, S)]
      /\ uln' = m /\ edges' = e
      /\ GraphChanged(n, RemoveUpdates(S), m, e)
      /\ UNCHANGED <<contact, net, tables, up, late, clocks, faults>>

(* A ULNHello of a neighbour that is not in the uln_table enters it, and   *)
(* the discovery that follows makes it an edge of the vicinity graph.  The *)
(* discovery does not succeed after a Hello that was received before the   *)
(* link went down and is handled after that.                               *)
Hello(h, l) ==
  LET m == [uln EXCEPT ![h] = IF @ = NoLink THEN l ELSE @]
      e == IF m[h] \in up[h] THEN edges \cup {h} ELSE edges
  IN  /\ l \in up[h] \cup late[h] /\ (m # uln \/ e # edges \/ l \in late[h])
      /\ Len(updates[h[1]]) < MaxQueue
      /\ uln' = m /\ edges' = e /\ late' = [late EXCEPT ![h] = @ \ {l}]
      /\ GraphChanged(h[1], <<>>, m, e)
      /\ UNCHANGED <<contact, net, recorded, tables, up, down, clocks, faults>>

(* A ULNDiscReq over another link replaces the mapping; an edge that is    *)
(* there already does not change the graph.                                *)
Remap(h, l) ==
  LET m == [uln EXCEPT ![h] = l]
  IN  /\ l \in up[h] /\ uln[h] \notin {l, NoLink} /\ h \in Unreliable /\ Len(updates[h[1]]) < MaxQueue
      /\ faults < MaxFaults /\ faults' = faults + 1
      /\ uln' = m /\ edges' = edges \cup {h}
      /\ GraphChanged(h[1], <<>>, m, edges \cup {h})
      /\ UNCHANGED <<contact, net, recorded, tables, up, down, late, clocks>>

(* The underlay observer loses a link: from here on it does not know the   *)
(* neighbour id any more.                                                  *)
LinkDown(h, l) ==
  /\ h \in Unreliable /\ l \in up[h]
  /\ faults < MaxFaults /\ faults' = faults + 1
  /\ up' = [up EXCEPT ![h] = @ \ {l}] /\ down' = [down EXCEPT ![h] = @ \cup {l}]
  /\ late' \in {late, IF LateHello THEN [late EXCEPT ![h] = @ \cup {l}] ELSE late}
  /\ UNCHANGED <<contact, net, recorded, computed, updates, tables, uln, edges, clocks>>

LinkUp(h, l) ==
  /\ l \in LinksOf(h) \ up[h] /\ down[h] = {} /\ late[h] = {}
  /\ up' = [up EXCEPT ![h] = @ \cup {l}]
  /\ UNCHANGED <<contact, net, recorded, computed, updates, tables, uln, edges, down, late, clocks, faults>>

(* The task of the forwarding tables takes the next update.                *)
ApplyUpdate(n) ==
  LET u == Head(updates[n])
      known == IF Len(u.in) > 1 THEN up[HopOf(u.in)] ELSE {}
  IN  /\ updates[n] # <<>>
      /\ tables' = [tables EXCEPT ![n] = ApplyPathUpdate(@, u, known)]
      /\ updates' = [updates EXCEPT ![n] = Tail(@)]
      /\ UNCHANGED <<contact, net, recorded, computed, underlay, clocks, faults>>

Idle == /\ net = {} /\ \A n \in Node : updates[n] = <<>>
        /\ \A h \in Hop : down[h] = {} /\ late[h] = {}

Tick ==
  /\ Idle /\ refresh > 0 /\ \A n \in Transit : cleanup[n] > 0
  /\ refresh' = refresh - 1
  /\ cleanup' = [n \in Transit |-> cleanup[n] - 1]
  /\ recorded' = [n \in Node |-> [s \in DOMAIN recorded[n] |-> [recorded[n][s] EXCEPT !.age = @ + 1]]]
  /\ UNCHANGED <<contact, net, computed, updates, tables, underlay, faults>>

-------------------------------------------------------------------------------
Next ==
  \/ \E p \in Paths : ContactValid(p)
  \/ ContactLost
  \/ PerformRefresh
  \/ \E m \in net : Receive(m)
  \/ \E m \in net : Lose(m)
  \/ \E n \in Transit : PerformCleanup(n)
  \/ \E n \in Node : ApplyUpdate(n)
  \/ \E h \in Hop : \E l \in Link :
       HandleDown(h, l) \/ Hello(h, l) \/ Remap(h, l) \/ LinkDown(h, l) \/ LinkUp(h, l)
  \/ Tick

(* The use cases and the table task run, timers fire, a link that is up    *)
(* carries a Hello, and what is sent arrives unless it is lost.            *)
Fairness ==
  /\ WF_vars(PerformRefresh) /\ WF_vars(Tick)
  /\ \A n \in Node : WF_vars(ApplyUpdate(n))
  /\ \A n \in Transit : /\ WF_vars(PerformCleanup(n))
                        /\ WF_vars(\E m \in net : m.path[m.at] = n /\ Receive(m))
  /\ \A h \in Hop : WF_vars(\E l \in Link : HandleDown(h, l))
                    /\ WF_vars(\E l \in Link : Hello(h, l))

Spec == Init /\ [][Next]_vars /\ Fairness

-------------------------------------------------------------------------------
(* The soft state ends: whatever happens to the source, to its requests    *)
(* and to the links, no path stays recorded for max_age and another        *)
(* cleanup_interval without a request for it (perform_cleanup).            *)
SoftStateEnds ==
  \A n \in Node : \A s \in DOMAIN recorded[n] : recorded[n][s].age < MaxAge + CleanupInterval

(* No path outlives its record: once the table task has handled all        *)
(* updates, every path of more than VICINITY_RADIUS hops that is installed *)
(* is recorded, so that it will be refreshed, invalidated or cleaned up.   *)
InstalledIsRecorded ==
  \A n \in Node :
    updates[n] = <<>> => LongPaths(n) \cap DOMAIN tables[n].path \subseteq DOMAIN recorded[n]

(* A packet with the path id of p is handed from node to node over links   *)
(* that are up, until the last node takes it.                              *)
Delivers(p) ==
  \A i \in 1 .. Len(p) - 1 :
    LET s == SubSeq(p, i, Len(p)) t == tables[p[i]]
    IN  Has(t.rule, s) /\ t.rule[s] = Tail(s) /\ t.via[Tail(s)] \in up[HopOf(s)]

InUse(p) ==
  /\ contact = [valid |-> TRUE, path |-> p]
  /\ \A i \in 1 .. Len(p) - 1 : LET h == <<p[i], p[i + 1]>> IN uln[h] \in up[h] /\ down[h] = {}

(* If from some time on the source uses p and the nodes on it have working *)
(* mappings of their neighbours, then from some time on p delivers,        *)
(* whatever requests were lost and whatever links had failed before.       *)
PathComesUp == \A p \in Paths : <>[]InUse(p) => <>[]Delivers(p)
===============================================================================
