----------------------- MODULE VicinityDiscovery_proof -----------------------
(***************************************************************************)
(* Proofs that vicinity discovery keeps its invariants, for every network, *)
(* every configuration and every bound.  First the heuristic that decides  *)
(* who answers a ULNHello, then the operators on the uln_table, the        *)
(* vicinity graph and the contacts, then the messages, then one step per   *)
(* action for each invariant.                                              *)
(***************************************************************************)
EXTENDS VicinityDiscovery, TLAPS

-----------------------------------------------------------------------------
(* What deterministic_heuristic guarantees for every pair of node ids. *)

(* The low bits of an id are below 2^heuristic_calculation_bits.           *)
LEMMA BitsRange ==
  ASSUME NEW id \in Nat
  PROVE  Bits(id) \in 0 .. CalcMod - 1
BY HeuristicAssumption DEF Bits

(* Both directions of wrapping_sub cover the whole number range once.      *)
LEMMA WrappingSubInverse ==
  ASSUME NEW x \in 0 .. CalcMod - 1, NEW y \in 0 .. CalcMod - 1
  PROVE  /\ WrappingSub(x, y) \in Nat
         /\ x = y => WrappingSub(x, y) = 0
         /\ x # y => WrappingSub(x, y) # 0 /\ WrappingSub(x, y) + WrappingSub(y, x) = WordMod
BY HeuristicAssumption DEF WrappingSub

(* Two nodes never both answer each other's ULNHello by the heuristic, for *)
(* all ids, also if their low bits are equal or half the range apart: at   *)
(* most one of them sends a ULNDiscReq (deterministic_heuristic).          *)
THEOREM AtMostOneAnswers ==
  \A x, y \in Nat : ~(AnswersHello(x, y) /\ AnswersHello(y, x))
<1> SUFFICES ASSUME NEW x \in Nat, NEW y \in Nat, AnswersHello(x, y), AnswersHello(y, x)
             PROVE  FALSE
  OBVIOUS
<1> DEFINE d == WrappingSub(Bits(y), Bits(x))
           e == WrappingSub(Bits(x), Bits(y))
<1>1. d \in Nat /\ e \in Nat
  BY BitsRange, WrappingSubInverse
<1>2. /\ (d < HalfRange /\ d # 0) \/ ((d = 0 \/ d = HalfRange) /\ x < y)
      /\ (e < HalfRange /\ e # 0) \/ ((e = 0 \/ e = HalfRange) /\ y < x)
  BY DEF AnswersHello
<1>3. CASE Bits(x) = Bits(y)
  <2>1. d = 0 /\ e = 0
    BY <1>3, BitsRange, WrappingSubInverse
  <2> QED
    BY <2>1, <1>2
<1>4. CASE Bits(x) # Bits(y)
  <2>1. d # 0 /\ e # 0 /\ d + e = WordMod
    BY <1>4, BitsRange, WrappingSubInverse
  <2>2. d + e >= 2 * HalfRange
    BY <2>1, HeuristicAssumption
  <2>3. d <= HalfRange /\ e <= HalfRange
    BY <1>1, <1>2, <2>1, HeuristicAssumption
  <2>4. d = HalfRange /\ e = HalfRange
    BY <1>1, <2>2, <2>3, HeuristicAssumption
  <2> QED
    BY <1>2, <2>4, HeuristicAssumption
<1> QED
  BY <1>3, <1>4

(* The blind spot of the comparison: because the difference wraps around   *)
(* at 2^128 and not at 2^calculation_bits, neither of two nodes whose low  *)
(* bits are more than half the range apart answers the other.  Only the    *)
(* fallback on long hello intervals starts their handshake.                *)
THEOREM FarIdsNobodyAnswers ==
  ASSUME CalcMod + HalfRange <= WordMod,
         NEW x \in Nat, NEW y \in Nat, Bits(y) - Bits(x) > HalfRange
  PROVE  ~AnswersHello(x, y) /\ ~AnswersHello(y, x)
<1>1. Bits(x) \in 0 .. CalcMod - 1 /\ Bits(y) \in 0 .. CalcMod - 1
  BY BitsRange
<1>2. /\ WrappingSub(Bits(y), Bits(x)) = Bits(y) - Bits(x)
      /\ WrappingSub(Bits(x), Bits(y)) = Bits(x) - Bits(y) + WordMod
  BY <1>1, HeuristicAssumption DEF WrappingSub
<1>3. Bits(x) - Bits(y) + WordMod > HalfRange
  BY <1>1, HeuristicAssumption
<1> QED
  BY <1>1, <1>2, <1>3, HeuristicAssumption DEF AnswersHello

-----------------------------------------------------------------------------
(* The uln_table *)

(* Every neighbour that is not vacant is mapped to a link.                 *)
TableOK(t) == t \in Table /\ \A m \in Node : UlnContains(t, m) => t.link[m] \in Link

(* A new uln_table is well formed.                                         *)
LEMMA NewTableOK == TableOK(NewTable)
BY UnderlayAssumption DEF TableOK, NewTable, Table, UlnContains, ULNState, SSN

(* The successor of an SSN is an SSN.                                      *)
LEMMA NextSSNType ==
  ASSUME NEW s \in SSN
  PROVE  NextSSN(s) \in SSN
BY UnderlayAssumption DEF SSN, NextSSN

(* insert() keeps a table well formed.                                     *)
LEMMA UlnInsertOK ==
  ASSUME NEW t, TableOK(t), NEW m \in Node, NEW l \in Link
  PROVE  TableOK(UlnInsert(t, m, l))
BY DEF TableOK, Table, UlnInsert, UlnMapped, UlnContains, ULNState

(* confirm() keeps a table well formed.                                    *)
LEMMA UlnConfirmOK ==
  ASSUME NEW t, TableOK(t), NEW m \in Node, NEW l \in Link
  PROVE  TableOK(UlnConfirm(t, m, l))
<1>1. NextSSN(t.ssn) \in SSN
  BY NextSSNType DEF TableOK, Table
<1> QED
  BY <1>1 DEF TableOK, Table, UlnConfirm, UlnMapped, UlnContains, ULNState

(* remove() keeps a table well formed.                                     *)
LEMMA UlnRemoveOK ==
  ASSUME NEW t, TableOK(t), NEW m \in Node
  PROVE  TableOK(UlnRemove(t, m))
<1>1. NextSSN(t.ssn) \in SSN
  BY NextSSNType DEF TableOK, Table
<1> QED
  BY <1>1 DEF TableOK, Table, UlnRemove, UlnContains, ULNState

(* The table stays well formed when a ULNHello is received.                *)
LEMMA HelloTableOK ==
  ASSUME NEW t, TableOK(t), NEW m \in Node, NEW l \in Link
  PROVE  TableOK(HelloTable(t, m, l))
BY UlnInsertOK DEF HelloTable

-----------------------------------------------------------------------------
(* The vicinity graph *)

(* No entry is synchronised beyond what was observed.                      *)
GraphOK(g) == g \in Graph /\ \A m \in Node : g.synced[m] <= g.observed[m]

(* A new vicinity graph is well formed.                                    *)
LEMMA NewGraphOK == GraphOK(NewGraph)
BY DEF GraphOK, NewGraph, Graph

(* Larger is an upper bound of its arguments.                              *)
LEMMA LargerIsMax ==
  ASSUME NEW x \in Nat, NEW y \in Nat
  PROVE  Larger(x, y) \in Nat /\ x <= Larger(x, y) /\ y <= Larger(x, y)
BY DEF Larger

(* update_observed_ssn leaves synced behind observed.                      *)
LEMMA VgUpdateObservedOK ==
  ASSUME NEW g, GraphOK(g), NEW m \in Node, NEW s \in Nat
  PROVE  GraphOK(VgUpdateObserved(g, m, s))
BY LargerIsMax DEF GraphOK, Graph, VgUpdateObserved

(* update_synced_ssn raises observed as well, so synced stays behind it.   *)
LEMMA VgUpdateSyncedOK ==
  ASSUME NEW g, GraphOK(g), NEW m \in Node, NEW s \in Nat
  PROVE  GraphOK(VgUpdateSynced(g, m, s))
BY LargerIsMax DEF GraphOK, Graph, VgUpdateSynced

(* insert() of the vicinity graph leaves synced behind observed.           *)
LEMMA VgInsertOK ==
  ASSUME NEW g, GraphOK(g), NEW m \in Node, NEW via \in Node, NEW s \in Nat
  PROVE  GraphOK(VgInsert(g, m, via, s))
<1>1. g.edges \cup {{m, via}} \in SUBSET SUBSET Node
  BY DEF GraphOK, Graph
<1>2. VgInsert(g, m, via, s) \in Graph
  BY <1>1, LargerIsMax DEF GraphOK, Graph, VgInsert
<1>3. /\ VgInsert(g, m, via, s).synced = g.synced
      /\ VgInsert(g, m, via, s).observed = [g.observed EXCEPT ![m] = Larger(@, s)]
  BY DEF GraphOK, Graph, VgInsert
<1>4. \A k \in Node : g.synced[k] <= [g.observed EXCEPT ![m] = Larger(@, s)][k]
  BY DEF GraphOK, Graph, Larger
<1> QED
  BY <1>2, <1>3, <1>4 DEF GraphOK

(* remove_edge() keeps a graph well formed.                                *)
LEMMA VgRemoveEdgeOK ==
  ASSUME NEW g, GraphOK(g), NEW x \in Node, NEW y \in Node
  PROVE  GraphOK(VgRemoveEdge(g, x, y))
BY DEF GraphOK, Graph, VgRemoveEdge

(* remove() of the vicinity graph forgets both SSNs.                       *)
LEMMA VgRemoveOK ==
  ASSUME NEW g, GraphOK(g), NEW m \in Node
  PROVE  GraphOK(VgRemove(g, m))
<1>1. {e \in g.edges : m \notin e} \in SUBSET SUBSET Node
  BY DEF GraphOK, Graph
<1>2. VgRemove(g, m) \in Graph
  BY <1>1 DEF GraphOK, Graph, VgRemove
<1>3. /\ VgRemove(g, m).synced = [g.synced EXCEPT ![m] = 0]
      /\ VgRemove(g, m).observed = [g.observed EXCEPT ![m] = 0]
  BY DEF GraphOK, Graph, VgRemove
<1>4. \A k \in Node : [g.synced EXCEPT ![m] = 0][k] <= [g.observed EXCEPT ![m] = 0][k]
  BY DEF GraphOK, Graph
<1> QED
  BY <1>2, <1>3, <1>4 DEF GraphOK

(* retain_vicinity() forgets both SSNs of what it removes.                 *)
LEMMA VgRetainOK ==
  ASSUME NEW g, GraphOK(g), NEW root \in Node
  PROVE  GraphOK(VgRetain(g, root))
BY DEF GraphOK, Graph, VgRetain

(* The graph stays well formed when a ULNHello is received.                *)
LEMMA HelloGraphOK ==
  ASSUME NEW g, GraphOK(g), NEW m \in Node, NEW s \in Nat
  PROVE  GraphOK(HelloGraph(g, m, s))
BY VgUpdateObservedOK DEF HelloGraph

(* process_ulndisc_reqrsp leaves synced behind observed.                   *)
LEMMA ProcessDiscOK ==
  ASSUME NEW g, GraphOK(g), NEW root \in Node, NEW src \in Node, NEW s \in Nat,
         NEW contacts \in [Node -> Nat]
  PROVE  GraphOK(ProcessDisc(g, root, src, s, contacts))
<1> DEFINE listed  == {k \in Node \ {root} : contacts[k] # 0}
           removed == (Neighbors(g, src) \ {root}) \ listed
           synced  == VgUpdateSynced(VgInsert(g, src, root, s), src, s)
           merged  == [synced EXCEPT
                         !.observed = [k \in Node |-> IF k \in listed THEN Larger(@[k], contacts[k])
                                                                      ELSE @[k]],
                         !.edges = (@ \cup {{src, k} : k \in listed}) \ {{src, k} : k \in removed}]
<1>1. GraphOK(synced)
  BY VgInsertOK, VgUpdateSyncedOK
<1>2. GraphOK(merged)
  <2> DEFINE obs == [k \in Node |-> IF k \in listed THEN Larger(synced.observed[k], contacts[k])
                                                    ELSE synced.observed[k]]
             edges == (synced.edges \cup {{src, k} : k \in listed}) \ {{src, k} : k \in removed}
  <2> HIDE DEF synced, removed
  <2>1. merged.observed = obs /\ merged.synced = synced.synced /\ merged.edges = edges
    BY <1>1 DEF GraphOK, Graph
  <2>2. \A k \in Node : {src, k} \in SUBSET Node
    OBVIOUS
  <2>3. edges \in SUBSET SUBSET Node
    BY <1>1, <2>2 DEF GraphOK, Graph
  <2>4. obs \in [Node -> Nat] /\ \A k \in Node : synced.synced[k] <= obs[k]
    BY <1>1 DEF GraphOK, Graph, Larger
  <2>5. merged \in Graph
    BY <1>1, <2>3, <2>4 DEF GraphOK, Graph
  <2> HIDE DEF merged, obs, edges
  <2> QED
    BY <2>1, <2>4, <2>5 DEF GraphOK
<1>3. ProcessDisc(g, root, src, s, contacts) = IF removed = {} THEN merged ELSE VgRetain(merged, root)
  BY DEF ProcessDisc
<1> QED
  BY <1>2, <1>3, VgRetainOK

-----------------------------------------------------------------------------
(* Contacts *)

(* The sender of a message is a contact afterwards.                        *)
LEMMA UpdateContactType ==
  ASSUME NEW c \in Contact, NEW m, NEW s \in SSN, NEW via \in Node
  PROVE  UpdateContact(c, m, s, via) \in Contact /\ UpdateContact(c, m, s, via).ssn # 0
<1> DEFINE taken == [c EXCEPT !.via = via, !.state = "Valid"]
           fresh == [ssn |-> s, via |-> via, state |-> "Valid"]
<1>1. taken \in Contact /\ taken.ssn = c.ssn
  BY DEF Contact
<1>2. fresh \in Contact /\ fresh.ssn # 0
  BY UnderlayAssumption DEF Contact, SSN
<1>3. \/ c.ssn = 0 /\ UpdateContact(c, m, s, via) = fresh
      \/ c.ssn # 0 /\ UpdateContact(c, m, s, via) \in {c, taken}
  BY DEF UpdateContact
<1> HIDE DEF taken, fresh
<1> QED
  BY <1>1, <1>2, <1>3

(* Invalidating contacts keeps their type.                                 *)
LEMMA InvalidateViaType ==
  ASSUME NEW r \in [Node -> Contact], NEW m
  PROVE  /\ InvalidateVia(r, m) \in [Node -> Contact]
         /\ \A k \in Node : InvalidateVia(r, m)[k].ssn = r[k].ssn
<1>1. \A k \in Node : /\ [r[k] EXCEPT !.state = "Invalid"] \in Contact
                      /\ [r[k] EXCEPT !.state = "Invalid"].ssn = r[k].ssn
  BY DEF Contact
<1> QED
  BY <1>1 DEF InvalidateVia

(* The absence of a contact is represented by a Contact.                   *)
LEMMA NoContactType == \A m \in Node : NoContact(m) \in Contact
BY UnderlayAssumption DEF NoContact, Contact

(* The list of a ULNDiscReq or ULNDiscRsp has an SSN or 0 for every node.  *)
LEMMA CollectType ==
  ASSUME NEW t, NEW r \in [Node -> Contact]
  PROVE  CollectUnderlayNeighbors(t, r) \in [Node -> 0 .. MaxSSN]
BY UnderlayAssumption DEF CollectUnderlayNeighbors, Contact

-----------------------------------------------------------------------------
(* Messages *)

(* SSNs are natural numbers.                                               *)
LEMMA SSNIsNat == SSN \subseteq Nat /\ 0 .. MaxSSN \subseteq Nat
BY UnderlayAssumption DEF SSN

(* The fields every kind of message has.                                   *)
LEMMA MessageFields ==
  ASSUME NEW p \in Message
  PROVE  /\ p.from \in Node /\ p.to \in Node /\ p.link \in Link
         /\ p.ssn \in SSN /\ p.ssn \in Nat
         /\ p.type \in {"DiscReq", "DiscRsp"} => p.nonce \in Nonce /\ p.contacts \in [Node -> Nat]
         /\ p.type \in {"QueryReq", "QueryRsp"} => p \in QueryMessage
<1>1. p.from \in Node /\ p.to \in Node /\ p.link \in Link /\ p.ssn \in SSN
  BY DEF Message, HelloMessage, DiscMessage, QueryMessage
<1>2. ASSUME p.type \in {"DiscReq", "DiscRsp"}
      PROVE  p.nonce \in Nonce /\ p.contacts \in [Node -> Nat]
  <2>1. p.nonce \in Nonce /\ p.contacts \in [Node -> 0 .. MaxSSN]
    BY <1>2 DEF Message, HelloMessage, DiscMessage, QueryMessage
  <2> QED
    BY <2>1, SSNIsNat
<1>3. p.type \in {"QueryReq", "QueryRsp"} => p \in QueryMessage
  BY DEF Message, HelloMessage, DiscMessage, QueryMessage
<1> QED
  BY <1>1, <1>2, <1>3, SSNIsNat

(* ULNHellos on a link are messages.                                       *)
LEMMA HelloOnType ==
  ASSUME NEW n \in Node, NEW l \in Link, NEW s \in SSN
  PROVE  HelloOn(n, l, s) \subseteq Message
<1>1. Attached[l] \subseteq Node
  BY UnderlayAssumption
<1> QED
  BY <1>1 DEF HelloOn, Message, HelloMessage

(* The announcement of a new SSN consists of messages.                     *)
LEMMA AnnounceType ==
  ASSUME NEW n \in Node, NEW old, NEW new, TableOK(new)
  PROVE  AnnounceSSN(n, old, new) \subseteq Message
<1>1. BroadcastHello(n, new.ssn) \subseteq Message
  BY HelloOnType DEF BroadcastHello, TableOK, Table
<1> QED
  BY <1>1 DEF AnnounceSSN

(* A ULNDiscReq or ULNDiscRsp of a well formed node is a message.          *)
LEMMA DiscMsgType ==
  ASSUME NEW type \in {"DiscReq", "DiscRsp"}, NEW n \in Node, NEW m \in Node, NEW l \in Link,
         NEW t, TableOK(t), NEW r \in [Node -> Contact], NEW nonce \in Nonce
  PROVE  DiscMsg(type, n, m, l, t, r, nonce) \in Message
<1>1. DiscMsg(type, n, m, l, t, r, nonce) \in DiscMessage
  BY CollectType DEF DiscMsg, DiscMessage, TableOK, Table
<1> QED
  BY <1>1 DEF Message

(* A QueryRouteReq over a known neighbour is a message.                    *)
LEMMA QueryMsgType ==
  ASSUME NEW n \in Node, NEW via \in Node, NEW m \in Node, NEW nonce \in Nonce,
         TableOK(uln[n]), UlnContains(uln[n], via)
  PROVE  QueryMsg(n, via, m, nonce) \in Message
<1>1. QueryMsg(n, via, m, nonce) \in QueryMessage
  BY DEF QueryMsg, QueryMessage, TableOK, Table
<1> QED
  BY <1>1 DEF Message

(* Whatever is sent, only messages are in flight afterwards.               *)
LEMMA TransmitType ==
  ASSUME msgs \subseteq Message, NEW n, NEW C, NEW S, S \subseteq Message, Transmit(n, C, S)
  PROVE  msgs' \subseteq Message
BY DEF Transmit, Accepted

(* The messages in flight keep their type when something is sent           *)
(* conditionally.                                                          *)
LEMMA TransmitIfType ==
  ASSUME msgs \subseteq Message, NEW n, NEW C, NEW ok \in BOOLEAN, NEW S, S \subseteq Message,
         Transmit(n, C, IF ok THEN S ELSE {})
  PROVE  msgs' \subseteq Message
<1> DEFINE sent == IF ok THEN S ELSE {}
<1>1. sent \subseteq Message
  OBVIOUS
<1>2. Transmit(n, C, sent)
  OBVIOUS
<1> HIDE DEF sent
<1> QED
  BY <1>1, <1>2, TransmitType

(* Fresh nonces are nonces.                                                *)
LEMMA FreshNoncesType == \A n, m \in Node : FreshNonces(n, m) \subseteq Nonce
BY DEF FreshNonces

-----------------------------------------------------------------------------
(* Type correctness.  TypeOK alone is not inductive: a message sent to a   *)
(* neighbour takes its link from the uln_table, and that it is a link and  *)
(* not NoLink follows from the neighbour being in the table.  That no      *)
(* synchronised SSN is ahead of the observed one comes along, because the  *)
(* graph is only changed by operators that keep it.                        *)

TablesOK(u) == u \in [Node -> Table] /\ \A n \in Node : TableOK(u[n])
GraphsOK(v) == v \in [Node -> Graph] /\ \A n \in Node : GraphOK(v[n])

WellFormed == TypeOK /\ TablesOK(uln) /\ GraphsOK(vg)

(* All tables stay well formed when one is replaced by a well formed one.  *)
LEMMA TablesUpdate ==
  ASSUME NEW u, TablesOK(u), NEW n \in Node, NEW t, TableOK(t)
  PROVE  TablesOK([u EXCEPT ![n] = t])
BY DEF TablesOK, TableOK

(* All graphs stay well formed when one is replaced by a well formed one.  *)
LEMMA GraphsUpdate ==
  ASSUME NEW v, GraphsOK(v), NEW n \in Node, NEW g, GraphOK(g)
  PROVE  GraphsOK([v EXCEPT ![n] = g])
BY DEF GraphsOK, GraphOK

(* A function of two nodes keeps its type when one entry is replaced.      *)
LEMMA EntryUpdate ==
  ASSUME NEW S, NEW f \in [Node -> [Node -> S]], NEW n \in Node, NEW m \in Node, NEW v \in S
  PROVE  [f EXCEPT ![n][m] = v] \in [Node -> [Node -> S]]
OBVIOUS

(* The initial states are well formed.                                     *)
LEMMA InitWellFormed == Init => WellFormed
<1> SUFFICES ASSUME Init PROVE WellFormed
  OBVIOUS
<1>1. TablesOK(uln)
  BY NewTableOK DEF Init, TablesOK, TableOK
<1>2. GraphsOK(vg)
  BY NewGraphOK DEF Init, GraphsOK, GraphOK
<1>3. rt \in [Node -> [Node -> Contact]]
  BY NoContactType DEF Init
<1>4. TypeOK
  BY <1>1, <1>2, <1>3, ConfigAssumption
     DEF Init, TypeOK, TablesOK, GraphsOK, Request, NoRequest
<1> QED
  BY <1>1, <1>2, <1>4 DEF WellFormed

(* RecvHelloSilently keeps types, tables and graphs well formed.           *)
LEMMA RecvHelloSilentlyWF ==
  ASSUME WellFormed, NEW n \in Node, NEW p \in msgs, RecvHelloSilently(n, p)
  PROVE  WellFormed'
<1>1. p.from \in Node /\ p.link \in Link /\ p.ssn \in Nat
  BY MessageFields DEF WellFormed, TypeOK
<1>2. TablesOK(uln')
  <2>1. TableOK(HelloTable(uln[n], p.from, p.link))
    BY <1>1, HelloTableOK DEF WellFormed, TablesOK
  <2> QED
    BY <2>1, TablesUpdate DEF WellFormed, RecvHelloSilently
<1>3. GraphsOK(vg')
  <2>1. GraphOK(HelloGraph(vg[n], p.from, p.ssn))
    BY <1>1, HelloGraphOK DEF WellFormed, GraphsOK
  <2> QED
    BY <2>1, GraphsUpdate DEF WellFormed, RecvHelloSilently
<1> QED
  BY <1>2, <1>3 DEF WellFormed, TypeOK, TablesOK, GraphsOK, RecvHelloSilently, Drop,
                    ifaceVars, reqVars

(* AnswerHello keeps types, tables and graphs well formed.                 *)
LEMMA AnswerHelloWF ==
  ASSUME WellFormed, NEW n \in Node, NEW p \in msgs, AnswerHello(n, p)
  PROVE  WellFormed'
<1> DEFINE m == p.from
           t == HelloTable(uln[n], m, p.link)
           ok == Consistent(t, rt[n])
<1>1. m \in Node /\ p.link \in Link /\ p.ssn \in Nat
  BY MessageFields DEF WellFormed, TypeOK
<1>2. TableOK(t)
  BY <1>1, HelloTableOK DEF WellFormed, TablesOK
<1>3. TablesOK(uln')
  BY <1>2, TablesUpdate DEF WellFormed, AnswerHello
<1>4. GraphsOK(vg')
  <2>1. GraphOK(HelloGraph(vg[n], m, p.ssn))
    BY <1>1, HelloGraphOK DEF WellFormed, GraphsOK
  <2> QED
    BY <2>1, GraphsUpdate DEF WellFormed, AnswerHello
<1>5. PICK nonce \in FreshNonces(n, m) :
        /\ Transmit(n, {p}, IF ok THEN {DiscMsg("DiscReq", n, m, p.link, t, rt[n], nonce)} ELSE {})
        /\ discReq' = [discReq EXCEPT ![n][m] = [nonce |-> nonce, timeouts |-> 0]]
  BY DEF AnswerHello
<1>6. nonce \in Nonce
  BY <1>1, FreshNoncesType
<1>7. msgs' \subseteq Message
  <2>1. DiscMsg("DiscReq", n, m, p.link, t, rt[n], nonce) \in Message
    BY <1>1, <1>2, <1>6, DiscMsgType DEF WellFormed, TypeOK
  <2>2. {DiscMsg("DiscReq", n, m, p.link, t, rt[n], nonce)} \subseteq Message
    BY <2>1
  <2>3. msgs \subseteq Message
    BY DEF WellFormed, TypeOK
  <2> HIDE DEF m, t
  <2> QED
    BY <1>5, <2>2, <2>3, TransmitIfType DEF Consistent
<1>8. discReq' \in [Node -> [Node -> Request]]
  <2>1. [nonce |-> nonce, timeouts |-> 0] \in Request
    BY <1>6, ConfigAssumption DEF Request, Nonce
  <2>2. discReq \in [Node -> [Node -> Request]]
    BY DEF WellFormed, TypeOK
  <2> QED
    BY <1>1, <1>5, <2>1, <2>2, EntryUpdate
<1>9. discHooks' \in [Node -> [Node -> Nat]]
  BY <1>1 DEF WellFormed, TypeOK, AnswerHello
<1> QED
  BY <1>3, <1>4, <1>7, <1>8, <1>9
     DEF WellFormed, TypeOK, TablesOK, GraphsOK, AnswerHello, ifaceVars

(* RecvDiscReq keeps types, tables and graphs well formed.                 *)
LEMMA RecvDiscReqWF ==
  ASSUME WellFormed, NEW n \in Node, NEW p \in msgs, RecvDiscReq(n, p)
  PROVE  WellFormed'
<1> DEFINE m  == p.from
           t0 == UlnInsert(uln[n], m, p.link)
           t  == UlnConfirm(t0, m, p.link)
           r  == [rt[n] EXCEPT ![m] = UpdateContact(@, m, p.ssn, m)]
           ok == ~UlnConfirmPanics(t0, m, p.link) /\ Consistent(t, r)
           sent == {DiscMsg("DiscRsp", n, m, p.link, t, r, p.nonce)} \cup AnnounceSSN(n, uln[n], t)
<1>1. /\ m \in Node /\ p.link \in Link /\ p.ssn \in SSN /\ p.ssn \in Nat
      /\ p.nonce \in Nonce /\ p.contacts \in [Node -> Nat]
  BY MessageFields DEF WellFormed, TypeOK, RecvDiscReq, Arrives
<1>2. TableOK(t)
  <2>1. TableOK(t0)
    BY <1>1, UlnInsertOK DEF WellFormed, TablesOK
  <2> QED
    BY <1>1, <2>1, UlnConfirmOK
<1>3. TablesOK(uln')
  BY <1>2, TablesUpdate DEF WellFormed, RecvDiscReq
<1>4. GraphsOK(vg')
  <2>1. GraphOK(ProcessDisc(vg[n], n, m, p.ssn, p.contacts))
    BY <1>1, ProcessDiscOK DEF WellFormed, GraphsOK
  <2> QED
    BY <2>1, GraphsUpdate DEF WellFormed, RecvDiscReq
<1>5. r \in [Node -> Contact]
  BY <1>1, UpdateContactType DEF WellFormed, TypeOK
<1>6. msgs' \subseteq Message
  <2>1. DiscMsg("DiscRsp", n, m, p.link, t, r, p.nonce) \in Message
    BY <1>1, <1>2, <1>5, DiscMsgType
  <2>2. sent \subseteq Message
    BY <1>2, <2>1, AnnounceType
  <2>3. Transmit(n, {p}, IF ok THEN sent ELSE {})
    BY DEF RecvDiscReq
  <2>4. ok \in BOOLEAN /\ msgs \subseteq Message
    BY DEF WellFormed, TypeOK
  <2> HIDE DEF ok, sent
  <2> QED
    BY <2>2, <2>3, <2>4, TransmitIfType
<1>7. rt' \in [Node -> [Node -> Contact]]
  <2>1. rt' = [rt EXCEPT ![n] = r]
    BY DEF RecvDiscReq
  <2> HIDE DEF r
  <2> QED
    BY <1>5, <2>1 DEF WellFormed, TypeOK
<1>8. alive' \subseteq Node
  BY DEF WellFormed, TypeOK, RecvDiscReq
<1> QED
  BY <1>3, <1>4, <1>6, <1>7, <1>8
     DEF WellFormed, TypeOK, TablesOK, GraphsOK, RecvDiscReq, ifaceVars, reqVars

(* finalize_request leaves a request.                                      *)
LEMMA FinalizeRequestType ==
  ASSUME NEW q \in Request, NEW nonce
  PROVE  FinalizeRequest(q, nonce) \in Request
BY ConfigAssumption DEF FinalizeRequest, Request, NoRequest

(* RecvDiscRsp keeps types, tables and graphs well formed.                 *)
LEMMA RecvDiscRspWF ==
  ASSUME WellFormed, NEW n \in Node, NEW p \in msgs, RecvDiscRsp(n, p)
  PROVE  WellFormed'
<1> DEFINE m  == p.from
           t  == UlnConfirm(uln[n], m, p.link)
           ok == ~UlnConfirmPanics(uln[n], m, p.link)
<1>1. /\ m \in Node /\ p.link \in Link /\ p.ssn \in SSN /\ p.ssn \in Nat
      /\ p.contacts \in [Node -> Nat]
  BY MessageFields DEF WellFormed, TypeOK, RecvDiscRsp, Arrives
<1>2. TableOK(t)
  BY <1>1, UlnConfirmOK DEF WellFormed, TablesOK
<1>3. TablesOK(uln')
  BY <1>2, TablesUpdate DEF WellFormed, RecvDiscRsp
<1>4. GraphsOK(vg')
  <2>1. GraphOK(ProcessDisc(vg[n], n, m, p.ssn, p.contacts))
    BY <1>1, ProcessDiscOK DEF WellFormed, GraphsOK
  <2> QED
    BY <2>1, GraphsUpdate DEF WellFormed, RecvDiscRsp
<1>5. msgs' \subseteq Message
  <2>1. AnnounceSSN(n, uln[n], t) \subseteq Message
    BY <1>2, AnnounceType
  <2>2. Transmit(n, {p}, IF ok THEN AnnounceSSN(n, uln[n], t) ELSE {})
    BY DEF RecvDiscRsp
  <2>3. ok \in BOOLEAN /\ msgs \subseteq Message
    BY DEF WellFormed, TypeOK
  <2> HIDE DEF ok, t
  <2> QED
    BY <2>1, <2>2, <2>3, TransmitIfType
<1>6. rt' \in [Node -> [Node -> Contact]]
  <2>1. UpdateContact(rt[n][m], m, p.ssn, m) \in Contact
    BY <1>1, UpdateContactType DEF WellFormed, TypeOK
  <2>2. rt' = [rt EXCEPT ![n][m] = UpdateContact(rt[n][m], m, p.ssn, m)]
    BY <1>1 DEF WellFormed, TypeOK, RecvDiscRsp
  <2> QED
    BY <1>1, <2>1, <2>2, EntryUpdate DEF WellFormed, TypeOK
<1>7. discReq' \in [Node -> [Node -> Request]]
  <2>1. FinalizeRequest(discReq[n][m], p.nonce) \in Request
    BY <1>1, FinalizeRequestType DEF WellFormed, TypeOK
  <2>2. discReq' = [discReq EXCEPT ![n][m] = FinalizeRequest(discReq[n][m], p.nonce)]
    BY <1>1 DEF WellFormed, TypeOK, RecvDiscRsp
  <2> QED
    BY <1>1, <2>1, <2>2, EntryUpdate DEF WellFormed, TypeOK
<1>8. alive' \subseteq Node
  BY DEF WellFormed, TypeOK, RecvDiscRsp
<1> QED
  BY <1>3, <1>4, <1>5, <1>6, <1>7, <1>8
     DEF WellFormed, TypeOK, TablesOK, GraphsOK, RecvDiscRsp, ifaceVars

(* RecvOnDownInterface keeps types, tables and graphs well formed.         *)
LEMMA RecvOnDownInterfaceWF ==
  ASSUME WellFormed, NEW n \in Node, NEW p \in msgs, RecvOnDownInterface(n, p)
  PROVE  WellFormed'
<1>1. p.from \in Node /\ p.ssn \in SSN
  BY MessageFields DEF WellFormed, TypeOK
<1>2. rt' \in [Node -> [Node -> Contact]]
  <2>1. UpdateContact(rt[n][p.from], p.from, p.ssn, p.from) \in Contact
    BY <1>1, UpdateContactType DEF WellFormed, TypeOK
  <2>2. \/ rt' = rt
        \/ rt' = [rt EXCEPT ![n][p.from] = UpdateContact(rt[n][p.from], p.from, p.ssn, p.from)]
    BY <1>1 DEF WellFormed, TypeOK, RecvOnDownInterface
  <2>3. rt \in [Node -> [Node -> Contact]]
    BY DEF WellFormed, TypeOK
  <2>4. [rt EXCEPT ![n][p.from] = UpdateContact(rt[n][p.from], p.from, p.ssn, p.from)]
          \in [Node -> [Node -> Contact]]
    BY <1>1, <2>1, <2>3, EntryUpdate
  <2> QED
    BY <2>2, <2>3, <2>4
<1> QED
  BY <1>2 DEF WellFormed, TypeOK, RecvOnDownInterface, Drop, ifaceVars, reqVars

(* Lose keeps types, tables and graphs well formed.                        *)
LEMMA LoseWF ==
  ASSUME WellFormed, NEW p \in msgs, Lose(p)
  PROVE  WellFormed'
BY DEF WellFormed, TypeOK, Lose, Drop, ifaceVars, nodeVars, reqVars

(* ForwardQuery keeps types, tables and graphs well formed.                *)
LEMMA ForwardQueryWF ==
  ASSUME WellFormed, NEW n \in Node, NEW p \in msgs, ForwardQuery(n, p)
  PROVE  WellFormed'
<1> DEFINE known == UlnContains(uln[n], p.from)
           on == known /\ UlnContains(uln[n], p.dst)
           q == [p EXCEPT !.from = n, !.to = p.dst, !.link = uln[n].link[p.dst]]
<1>1. p \in QueryMessage
  BY MessageFields DEF WellFormed, TypeOK, ForwardQuery
<1>2. p.src \in Node /\ p.dst \in Node /\ p.ssn \in SSN
  BY <1>1 DEF QueryMessage
<1>3. rt' \in [Node -> [Node -> Contact]]
  <2>1. UpdateContact(rt[n][p.src], p.src, p.ssn, p.src) \in Contact
    BY <1>2, UpdateContactType DEF WellFormed, TypeOK
  <2>2. \/ rt' = rt
        \/ rt' = [rt EXCEPT ![n][p.src] = UpdateContact(rt[n][p.src], p.src, p.ssn, p.src)]
    BY <1>2 DEF WellFormed, TypeOK, ForwardQuery
  <2>3. rt \in [Node -> [Node -> Contact]]
    BY DEF WellFormed, TypeOK
  <2>4. [rt EXCEPT ![n][p.src] = UpdateContact(rt[n][p.src], p.src, p.ssn, p.src)]
          \in [Node -> [Node -> Contact]]
    BY <1>2, <2>1, <2>3, EntryUpdate
  <2> QED
    BY <2>2, <2>3, <2>4
<1>4. msgs' \subseteq Message
  <2>1. Transmit(n, {p}, IF on THEN {q} ELSE {})
    BY DEF ForwardQuery
  <2>2. msgs \subseteq Message
    BY DEF WellFormed, TypeOK
  <2>3. ASSUME on PROVE {q} \subseteq Message
    <3>1. uln[n].link[p.dst] \in Link
      BY <1>2, <2>3 DEF WellFormed, TablesOK, TableOK
    <3>2. q \in QueryMessage
      BY <1>1, <1>2, <3>1 DEF QueryMessage
    <3> QED
      BY <3>2 DEF Message
  <2>4. (IF on THEN {q} ELSE {}) \subseteq Message
    BY <2>3
  <2> HIDE DEF q, on
  <2> QED
    BY <2>1, <2>2, <2>4, TransmitType
<1> QED
  BY <1>3, <1>4 DEF WellFormed, TypeOK, ForwardQuery, ifaceVars, reqVars

(* The first hop of a simplified path is a node.                           *)
LEMMA FirstHopType ==
  ASSUME NEW t, NEW m \in Node, NEW via \in Node
  PROVE  FirstHop(t, m, via) \in Node
BY DEF FirstHop

(* RecvQueryReq keeps types, tables and graphs well formed.                *)
LEMMA RecvQueryReqWF ==
  ASSUME WellFormed, NEW n \in Node, NEW p \in msgs, RecvQueryReq(n, p)
  PROVE  WellFormed'
<1> DEFINE known == UlnContains(uln[n], p.via)
           c == UpdateContact(rt[n][p.src], p.src, p.ssn, FirstHop(uln[n], p.src, p.via))
           r == IF known THEN [rt[n] EXCEPT ![p.src] = c] ELSE rt[n]
           handled == known /\ Up(n, p.link)
           ok == handled => Consistent(uln[n], r)
           q == [p EXCEPT !.type = "QueryRsp", !.from = n, !.to = p.via,
                          !.ssn = uln[n].ssn, !.src = n, !.dst = p.src]
<1>1. p \in QueryMessage /\ p.ssn \in Nat
  BY MessageFields DEF WellFormed, TypeOK, RecvQueryReq, Arrives
<1>2. p.src \in Node /\ p.via \in Node /\ p.ssn \in SSN
  BY <1>1 DEF QueryMessage
<1>3. rt' \in [Node -> [Node -> Contact]]
  <2>1. c \in Contact
    BY <1>2, FirstHopType, UpdateContactType DEF WellFormed, TypeOK
  <2>2. r \in [Node -> Contact]
    <3> HIDE DEF c
    <3> QED
      BY <1>2, <2>1 DEF WellFormed, TypeOK
  <2>3. rt' = [rt EXCEPT ![n] = r]
    BY <1>2 DEF WellFormed, TypeOK, RecvQueryReq
  <2> HIDE DEF r
  <2> QED
    BY <2>2, <2>3 DEF WellFormed, TypeOK
<1>4. GraphsOK(vg')
  <2>1. GraphOK(HelloGraph(vg[n], p.src, p.ssn)) /\ GraphOK(vg[n])
    BY <1>1, <1>2, HelloGraphOK DEF WellFormed, GraphsOK
  <2>2. \/ vg' = [vg EXCEPT ![n] = HelloGraph(vg[n], p.src, p.ssn)]
        \/ vg' = [vg EXCEPT ![n] = vg[n]]
    BY DEF RecvQueryReq
  <2> QED
    BY <2>1, <2>2, GraphsUpdate DEF WellFormed
<1>5. msgs' \subseteq Message
  <2>1. Transmit(n, {p}, IF handled /\ ok THEN {q} ELSE {})
    BY DEF RecvQueryReq
  <2>2. msgs \subseteq Message
    BY DEF WellFormed, TypeOK
  <2>3. uln[n].ssn \in SSN
    BY DEF WellFormed, TypeOK, Table
  <2>4. q \in QueryMessage
    BY <1>1, <1>2, <2>3 DEF QueryMessage
  <2>5. {q} \subseteq Message
    BY <2>4 DEF Message
  <2>6. (IF handled /\ ok THEN {q} ELSE {}) \subseteq Message
    BY <2>5
  <2> HIDE DEF q, handled, ok
  <2> QED
    BY <2>1, <2>2, <2>6, TransmitType
<1>6. alive' \subseteq Node
  BY DEF WellFormed, TypeOK, RecvQueryReq
<1> QED
  BY <1>3, <1>4, <1>5, <1>6 DEF WellFormed, TypeOK, GraphsOK, RecvQueryReq, ifaceVars, reqVars

(* RecvQueryRsp keeps types, tables and graphs well formed.                *)
LEMMA RecvQueryRspWF ==
  ASSUME WellFormed, NEW n \in Node, NEW p \in msgs, RecvQueryRsp(n, p)
  PROVE  WellFormed'
<1> DEFINE c == UpdateContact(rt[n][p.src], p.src, p.ssn, FirstHop(uln[n], p.src, p.via))
           q == FinalizeRequest(queryReq[n][p.src], p.nonce)
<1>1. p \in QueryMessage /\ p.ssn \in Nat
  BY MessageFields DEF WellFormed, TypeOK, RecvQueryRsp, Arrives
<1>2. p.src \in Node /\ p.via \in Node /\ p.ssn \in SSN
  BY <1>1 DEF QueryMessage
<1>3. rt' \in [Node -> [Node -> Contact]]
  <2>1. c \in Contact
    BY <1>2, FirstHopType, UpdateContactType DEF WellFormed, TypeOK
  <2>2. rt' = rt \/ rt' = [rt EXCEPT ![n][p.src] = c]
    BY <1>2 DEF WellFormed, TypeOK, RecvQueryRsp
  <2>3. rt \in [Node -> [Node -> Contact]]
    BY DEF WellFormed, TypeOK
  <2>4. [rt EXCEPT ![n][p.src] = c] \in [Node -> [Node -> Contact]]
    BY <1>2, <2>1, <2>3, EntryUpdate
  <2> QED
    BY <2>2, <2>3, <2>4
<1>4. GraphsOK(vg')
  <2>1. GraphOK(VgUpdateSynced(vg[n], p.src, p.ssn)) /\ GraphOK(vg[n])
    BY <1>1, <1>2, VgUpdateSyncedOK DEF WellFormed, GraphsOK
  <2>2. \/ vg' = [vg EXCEPT ![n] = VgUpdateSynced(vg[n], p.src, p.ssn)]
        \/ vg' = [vg EXCEPT ![n] = vg[n]]
    BY DEF RecvQueryRsp
  <2> QED
    BY <2>1, <2>2, GraphsUpdate DEF WellFormed
<1>5. queryReq' \in [Node -> [Node -> Request]]
  <2>1. q \in Request /\ queryReq[n][p.src] \in Request
    BY <1>2, FinalizeRequestType DEF WellFormed, TypeOK
  <2>2. \/ queryReq' = [queryReq EXCEPT ![n][p.src] = q]
        \/ queryReq' = [queryReq EXCEPT ![n][p.src] = queryReq[n][p.src]]
    BY <1>2 DEF WellFormed, TypeOK, RecvQueryRsp
  <2>3. queryReq \in [Node -> [Node -> Request]]
    BY DEF WellFormed, TypeOK
  <2>4. \A x \in Request : [queryReq EXCEPT ![n][p.src] = x] \in [Node -> [Node -> Request]]
    BY <1>2, <2>3, EntryUpdate
  <2> HIDE DEF q
  <2> QED
    BY <2>1, <2>2, <2>4
<1> QED
  BY <1>3, <1>4, <1>5 DEF WellFormed, TypeOK, GraphsOK, RecvQueryRsp, Drop, ifaceVars

(* HelloTimer keeps types, tables and graphs well formed.                  *)
LEMMA HelloTimerWF ==
  ASSUME WellFormed, NEW n \in Node, NEW l \in Link, HelloTimer(n, l)
  PROVE  WellFormed'
<1>1. CASE Up(n, l)
  <2>1. interval' \in [Node -> [Link -> Nat]]
    <3> DEFINE i == interval[n][l]
               next == IF 2 * i < UlnMaxInterval THEN 2 * i ELSE UlnMaxInterval
    <3>1. interval' = [interval EXCEPT ![n][l] = next]
      BY <1>1 DEF WellFormed, TypeOK, HelloTimer
    <3>2. i \in Nat
      BY DEF WellFormed, TypeOK
    <3>3. next \in Nat
      BY <3>2, ConfigAssumption
    <3> HIDE DEF next
    <3> QED
      BY <3>1, <3>3 DEF WellFormed, TypeOK
  <2>2. msgs' \subseteq Message
    <3>1. HelloOn(n, l, uln[n].ssn) \subseteq Message
      BY HelloOnType DEF WellFormed, TypeOK, Table
    <3>2. Transmit(n, {}, HelloOn(n, l, uln[n].ssn)) /\ msgs \subseteq Message
      BY <1>1 DEF WellFormed, TypeOK, HelloTimer
    <3> QED
      BY <3>1, <3>2, TransmitType
  <2> QED
    BY <1>1, <2>1, <2>2 DEF WellFormed, TypeOK, HelloTimer, nodeVars, reqVars
<1>2. CASE ~Up(n, l)
  <2>1. helloHooks' \in [Node -> [Link -> Nat]]
    <3>1. helloHooks' = [helloHooks EXCEPT ![n][l] = helloHooks[n][l] - 1] /\ helloHooks[n][l] > 0
      BY <1>2 DEF WellFormed, TypeOK, HelloTimer
    <3>2. helloHooks[n][l] - 1 \in Nat
      BY <3>1 DEF WellFormed, TypeOK
    <3> QED
      BY <3>1, <3>2 DEF WellFormed, TypeOK
  <2> QED
    BY <1>2, <2>1 DEF WellFormed, TypeOK, HelloTimer, nodeVars, reqVars
<1> QED
  BY <1>1, <1>2

(* The absence of a request is represented by a Request.                   *)
LEMMA NoRequestType == NoRequest \in Request
BY ConfigAssumption DEF NoRequest, Request

(* DiscTimerStale keeps types, tables and graphs well formed.              *)
LEMMA DiscTimerStaleWF ==
  ASSUME WellFormed, NEW n \in Node, NEW m \in Node, DiscTimerStale(n, m)
  PROVE  WellFormed'
<1>1. discHooks' \in [Node -> [Node -> Nat]]
  BY DEF WellFormed, TypeOK, DiscTimerStale
<1> QED
  BY <1>1 DEF WellFormed, TypeOK, DiscTimerStale, ifaceVars, nodeVars

(* DiscGiveUp keeps types, tables and graphs well formed.                  *)
LEMMA DiscGiveUpWF ==
  ASSUME WellFormed, NEW n \in Node, NEW m \in Node, DiscGiveUp(n, m)
  PROVE  WellFormed'
<1>1. discHooks' \in [Node -> [Node -> Nat]]
  BY DEF WellFormed, TypeOK, DiscGiveUp
<1>2. discReq' \in [Node -> [Node -> Request]]
  BY NoRequestType DEF WellFormed, TypeOK, DiscGiveUp
<1>3. GraphsOK(vg')
  <2>1. GraphOK(VgRemove(vg[n], m)) /\ GraphOK(vg[n])
    BY VgRemoveOK DEF WellFormed, GraphsOK
  <2>2. vg' = [vg EXCEPT ![n] = VgRemove(vg[n], m)] \/ vg' = [vg EXCEPT ![n] = vg[n]]
    BY DEF DiscGiveUp
  <2> QED
    BY <2>1, <2>2, GraphsUpdate DEF WellFormed
<1> QED
  BY <1>1, <1>2, <1>3 DEF WellFormed, TypeOK, GraphsOK, DiscGiveUp, ifaceVars

(* A request with one more timeout is a request.                           *)
LEMMA RetriedType ==
  ASSUME NEW q \in Request
  PROVE  [q EXCEPT !.timeouts = @ + 1] \in Request
BY DEF Request

(* DiscRetry keeps types, tables and graphs well formed.                   *)
LEMMA DiscRetryWF ==
  ASSUME WellFormed, NEW n \in Node, NEW m \in Node, DiscRetry(n, m)
  PROVE  WellFormed'
<1> DEFINE ok == Consistent(uln[n], rt[n])
           q == DiscMsg("DiscReq", n, m, uln[n].link[m], uln[n], rt[n], discReq[n][m].nonce)
<1>1. discHooks' \in [Node -> [Node -> Nat]]
  BY DEF WellFormed, TypeOK, DiscRetry
<1>2. discReq' \in [Node -> [Node -> Request]]
  <2>1. discReq' = [discReq EXCEPT ![n][m] = [discReq[n][m] EXCEPT !.timeouts = @ + 1]]
    BY DEF WellFormed, TypeOK, DiscRetry
  <2>2. discReq \in [Node -> [Node -> Request]]
    BY DEF WellFormed, TypeOK
  <2>3. [discReq[n][m] EXCEPT !.timeouts = @ + 1] \in Request
    BY <2>2, RetriedType
  <2> QED
    BY <2>1, <2>2, <2>3, EntryUpdate
<1>3. msgs' \subseteq Message
  <2>1. discReq[n][m].nonce \in Nonce
    BY ConfigAssumption DEF WellFormed, TypeOK, DiscRetry, Request, Nonce
  <2>2. uln[n].link[m] \in Link
    BY DEF WellFormed, TablesOK, TableOK, DiscRetry
  <2>3. TableOK(uln[n]) /\ rt[n] \in [Node -> Contact]
    BY DEF WellFormed, TypeOK, TablesOK
  <2>4. {q} \subseteq Message
    BY <2>1, <2>2, <2>3, DiscMsgType
  <2>5. Transmit(n, {}, IF ok THEN {q} ELSE {}) /\ ok \in BOOLEAN /\ msgs \subseteq Message
    BY DEF WellFormed, TypeOK, DiscRetry, Consistent
  <2> HIDE DEF ok, q
  <2> QED
    BY <2>4, <2>5, TransmitIfType
<1>4. alive' \subseteq Node
  BY DEF WellFormed, TypeOK, DiscRetry
<1> QED
  BY <1>1, <1>2, <1>3, <1>4 DEF WellFormed, TypeOK, DiscRetry, ifaceVars, nodeVars

(* QueryTimerStale keeps types, tables and graphs well formed.             *)
LEMMA QueryTimerStaleWF ==
  ASSUME WellFormed, NEW n \in Node, NEW m \in Node, QueryTimerStale(n, m)
  PROVE  WellFormed'
<1>1. queryHooks' \in [Node -> [Node -> Nat]]
  BY DEF WellFormed, TypeOK, QueryTimerStale
<1> QED
  BY <1>1 DEF WellFormed, TypeOK, QueryTimerStale, ifaceVars, nodeVars

(* QueryGiveUp keeps types, tables and graphs well formed.                 *)
LEMMA QueryGiveUpWF ==
  ASSUME WellFormed, NEW n \in Node, NEW m \in Node, QueryGiveUp(n, m)
  PROVE  WellFormed'
<1>1. queryHooks' \in [Node -> [Node -> Nat]]
  BY DEF WellFormed, TypeOK, QueryGiveUp
<1>2. queryReq' \in [Node -> [Node -> Request]]
  BY NoRequestType DEF WellFormed, TypeOK, QueryGiveUp
<1> QED
  BY <1>1, <1>2 DEF WellFormed, TypeOK, QueryGiveUp, ifaceVars, nodeVars

(* The nodes in the middle of two-hop paths are nodes.                     *)
LEMMA TwoHopViasType == \A g, root, m : TwoHopVias(g, root, m) \subseteq Node
BY DEF TwoHopVias, Neighbors

(* QueryRetry keeps types, tables and graphs well formed.                  *)
LEMMA QueryRetryWF ==
  ASSUME WellFormed, NEW n \in Node, NEW m \in Node, QueryRetry(n, m)
  PROVE  WellFormed'
<1> DEFINE sent(via) == {QueryMsg(n, via, m, queryReq[n][m].nonce)}
<1>1. PICK via \in TwoHopVias(vg[n], n, m) :
        /\ queryReq' = [queryReq EXCEPT ![n][m].timeouts = @ + 1]
        /\ queryHooks' = [queryHooks EXCEPT ![n][m] = IF UlnContains(uln[n], via) THEN @ ELSE @ - 1]
        /\ alive' = IF UlnContains(uln[n], via) THEN alive ELSE alive \ {n}
        /\ Transmit(n, {}, IF UlnContains(uln[n], via) THEN sent(via) ELSE {})
  BY DEF QueryRetry
<1>2. queryHooks' \in [Node -> [Node -> Nat]]
  BY <1>1 DEF WellFormed, TypeOK, QueryRetry
<1>3. queryReq' \in [Node -> [Node -> Request]]
  <2>1. queryReq' = [queryReq EXCEPT ![n][m] = [queryReq[n][m] EXCEPT !.timeouts = @ + 1]]
    BY <1>1 DEF WellFormed, TypeOK
  <2>2. queryReq \in [Node -> [Node -> Request]]
    BY DEF WellFormed, TypeOK
  <2>3. [queryReq[n][m] EXCEPT !.timeouts = @ + 1] \in Request
    BY <2>2, RetriedType
  <2> QED
    BY <2>1, <2>2, <2>3, EntryUpdate
<1>4. msgs' \subseteq Message
  <2>1. queryReq[n][m].nonce \in Nonce
    BY ConfigAssumption DEF WellFormed, TypeOK, QueryRetry, Request, Nonce
  <2>2. via \in Node /\ TableOK(uln[n]) /\ msgs \subseteq Message
    BY TwoHopViasType DEF WellFormed, TypeOK, TablesOK
  <2>3. UlnContains(uln[n], via) => sent(via) \subseteq Message
    BY <2>1, <2>2, QueryMsgType
  <2>4. (IF UlnContains(uln[n], via) THEN sent(via) ELSE {}) \subseteq Message
    BY <2>3
  <2> HIDE DEF sent
  <2> QED
    BY <1>1, <2>2, <2>4, TransmitType
<1>5. alive' \subseteq Node
  BY <1>1 DEF WellFormed, TypeOK
<1> QED
  BY <1>2, <1>3, <1>4, <1>5 DEF WellFormed, TypeOK, QueryRetry, ifaceVars, nodeVars

(* InterfaceUp keeps types, tables and graphs well formed.                 *)
LEMMA InterfaceUpWF ==
  ASSUME WellFormed, NEW n \in Node, NEW l \in Link, InterfaceUp(n, l)
  PROVE  WellFormed'
<1>1. interval' \in [Node -> [Link -> Nat]]
  BY ConfigAssumption DEF WellFormed, TypeOK, InterfaceUp
<1>2. helloHooks' \in [Node -> [Link -> Nat]]
  <2>1. helloHooks' = [helloHooks EXCEPT ![n][l] = helloHooks[n][l] + 1]
    BY DEF WellFormed, TypeOK, InterfaceUp
  <2>2. helloHooks[n][l] + 1 \in Nat
    BY DEF WellFormed, TypeOK
  <2> QED
    BY <2>1, <2>2 DEF WellFormed, TypeOK
<1>3. msgs' \subseteq Message
  <2>1. HelloOn(n, l, uln[n].ssn) \subseteq Message
    BY HelloOnType DEF WellFormed, TypeOK, Table
  <2> QED
    BY <2>1 DEF WellFormed, TypeOK, InterfaceUp, Accepted
<1> QED
  BY <1>1, <1>2, <1>3 DEF WellFormed, TypeOK, InterfaceUp, nodeVars, reqVars

(* InterfaceDown keeps types, tables and graphs well formed.               *)
LEMMA InterfaceDownWF ==
  ASSUME WellFormed, NEW n \in Node, NEW l \in Link, InterfaceDown(n, l)
  PROVE  WellFormed'
<1>1. interval' \in [Node -> [Link -> Nat]]
  BY DEF WellFormed, TypeOK, InterfaceDown
<1>2. downs' \in [Node -> [Link -> SUBSET Node]]
  <2>1. PICK registered \in SUBSET (Attached[l] \ {n}) :
          downs' = [downs EXCEPT ![n][l] = registered]
    BY DEF InterfaceDown
  <2>2. registered \in SUBSET Node
    BY UnderlayAssumption
  <2> QED
    BY <2>1, <2>2 DEF WellFormed, TypeOK
<1>3. budget' \in [flaps : Nat, restarts : Nat]
  <2>1. budget' = [budget EXCEPT !.flaps = budget.flaps - 1] /\ budget.flaps > 0
    BY DEF WellFormed, TypeOK, InterfaceDown
  <2>2. budget.flaps - 1 \in Nat
    BY <2>1 DEF WellFormed, TypeOK
  <2> QED
    BY <2>1, <2>2 DEF WellFormed, TypeOK
<1> QED
  BY <1>1, <1>2, <1>3 DEF WellFormed, TypeOK, InterfaceDown, nodeVars, reqVars

(* NeighborDown keeps types, tables and graphs well formed.                *)
LEMMA NeighborDownWF ==
  ASSUME WellFormed, NEW n \in Node, NEW l \in Link, NEW m \in Node, NeighborDown(n, l, m)
  PROVE  WellFormed'
<1> DEFINE hit == UlnMapped(uln[n], m, l)
           t == IF hit THEN UlnRemove(uln[n], m) ELSE uln[n]
           ok == hit => ~UlnRemovePanics(uln[n], m)
<1>1. TableOK(t)
  BY UlnRemoveOK DEF WellFormed, TablesOK
<1>2. TablesOK(uln')
  BY <1>1, TablesUpdate DEF WellFormed, NeighborDown
<1>3. GraphsOK(vg')
  <2> DEFINE g == IF hit THEN VgRemoveEdge(vg[n], n, m) ELSE vg[n]
  <2>1. GraphOK(g)
    BY VgRemoveEdgeOK DEF WellFormed, GraphsOK
  <2>2. vg' = [vg EXCEPT ![n] = VgRetain(g, n)]
    BY DEF NeighborDown
  <2> HIDE DEF g
  <2> QED
    BY <2>1, <2>2, VgRetainOK, GraphsUpdate DEF WellFormed
<1>4. rt' \in [Node -> [Node -> Contact]]
  <2> DEFINE r == IF hit THEN InvalidateVia(rt[n], m) ELSE rt[n]
  <2>1. r \in [Node -> Contact]
    BY InvalidateViaType DEF WellFormed, TypeOK
  <2>2. rt' = [rt EXCEPT ![n] = r]
    BY DEF NeighborDown
  <2> HIDE DEF r
  <2> QED
    BY <2>1, <2>2 DEF WellFormed, TypeOK
<1>5. msgs' \subseteq Message
  <2>1. AnnounceSSN(n, uln[n], t) \subseteq Message
    BY <1>1, AnnounceType
  <2>2. /\ Transmit(n, {}, IF ok THEN AnnounceSSN(n, uln[n], t) ELSE {})
        /\ ok \in BOOLEAN /\ msgs \subseteq Message
    BY DEF WellFormed, TypeOK, NeighborDown
  <2> HIDE DEF ok, t
  <2> QED
    BY <2>1, <2>2, TransmitIfType
<1>6. downs' \in [Node -> [Link -> SUBSET Node]]
  BY DEF WellFormed, TypeOK, NeighborDown
<1>7. alive' \subseteq Node
  BY DEF WellFormed, TypeOK, NeighborDown
<1> QED
  BY <1>2, <1>3, <1>4, <1>5, <1>6, <1>7
     DEF WellFormed, TypeOK, TablesOK, GraphsOK, NeighborDown, reqVars

(* ContactDead keeps types, tables and graphs well formed.                 *)
LEMMA ContactDeadWF ==
  ASSUME WellFormed, NEW n \in Node, NEW m \in Node, ContactDead(n, m)
  PROVE  WellFormed'
<1> DEFINE t == UlnRemove(uln[n], m)
           ok == ~UlnRemovePanics(uln[n], m)
<1>1. TableOK(t)
  BY UlnRemoveOK DEF WellFormed, TablesOK
<1>2. TablesOK(uln')
  BY <1>1, TablesUpdate DEF WellFormed, ContactDead
<1>3. rt' \in [Node -> [Node -> Contact]]
  <2> DEFINE r == IF rt[n][m].via = m THEN InvalidateVia(rt[n], m) ELSE rt[n]
  <2>1. r \in [Node -> Contact]
    BY InvalidateViaType DEF WellFormed, TypeOK
  <2>2. rt' = [rt EXCEPT ![n] = [r EXCEPT ![m] = NoContact(m)]]
    BY DEF ContactDead
  <2> HIDE DEF r
  <2> QED
    BY <2>1, <2>2, NoContactType DEF WellFormed, TypeOK
<1>4. msgs' \subseteq Message
  <2>1. AnnounceSSN(n, uln[n], t) \subseteq Message
    BY <1>1, AnnounceType
  <2>2. /\ Transmit(n, {}, IF ok THEN AnnounceSSN(n, uln[n], t) ELSE {})
        /\ ok \in BOOLEAN /\ msgs \subseteq Message
    BY DEF WellFormed, TypeOK, ContactDead
  <2> HIDE DEF ok, t
  <2> QED
    BY <2>1, <2>2, TransmitIfType
<1>5. alive' \subseteq Node
  BY DEF WellFormed, TypeOK, ContactDead
<1> QED
  BY <1>2, <1>3, <1>4, <1>5 DEF WellFormed, TypeOK, TablesOK, ContactDead, ifaceVars, reqVars

(* Resync keeps types, tables and graphs well formed.                      *)
LEMMA ResyncWF ==
  ASSUME WellFormed, NEW n \in Node, Resync(n)
  PROVE  WellFormed'
<1>1. PICK D \in UpTo(DiscCandidates(n), Capacity(n)) :
      \E Q \in UpTo(QueryCandidates(n), Capacity(n) - Cardinality(D)) :
      \E via \in [Q -> Node] : \E nonce \in [D \cup Q -> Nonce] : \E clean \in BOOLEAN :
        StartSyncs(n, D, Q, via, nonce, clean)
  BY DEF Resync
<1>2. PICK Q \in UpTo(QueryCandidates(n), Capacity(n) - Cardinality(D)) :
      \E via \in [Q -> Node] : \E nonce \in [D \cup Q -> Nonce] : \E clean \in BOOLEAN :
        StartSyncs(n, D, Q, via, nonce, clean)
  BY <1>1
<1>3. PICK via \in [Q -> Node], nonce \in [D \cup Q -> Nonce], clean \in BOOLEAN :
        StartSyncs(n, D, Q, via, nonce, clean)
  BY <1>2
<1> DEFINE ok == /\ D # {} => Consistent(uln[n], rt[n])
                 /\ \A m \in Q : UlnContains(uln[n], via[m])
                 /\ \A m \in Node : OutOfSync(vg[n], m) => vg[n].synced[m] < vg[n].observed[m]
           sent == {DiscMsg("DiscReq", n, m, uln[n].link[m], uln[n], rt[n], nonce[m]) : m \in D}
                   \cup {QueryMsg(n, via[m], m, nonce[m]) : m \in Q}
<1>4. D \subseteq DiscCandidates(n) /\ Q \subseteq QueryCandidates(n)
  BY DEF UpTo
<1>5. /\ D \subseteq Node /\ Q \subseteq Node
      /\ \A m \in D : UlnContains(uln[n], m)
  BY <1>4 DEF DiscCandidates, QueryCandidates
<1>6. \A m \in D \cup Q : [nonce |-> nonce[m], timeouts |-> 0] \in Request
  BY <1>3, ConfigAssumption DEF Request, Nonce
<1>7. discReq' \in [Node -> [Node -> Request]] /\ queryReq' \in [Node -> [Node -> Request]]
  BY <1>3, <1>6 DEF WellFormed, TypeOK, StartSyncs
<1>8. discHooks' \in [Node -> [Node -> Nat]] /\ queryHooks' \in [Node -> [Node -> Nat]]
  BY <1>3 DEF WellFormed, TypeOK, StartSyncs
<1>9. GraphsOK(vg')
  <2>1. GraphOK(VgRetain(vg[n], n)) /\ GraphOK(vg[n])
    BY VgRetainOK DEF WellFormed, GraphsOK
  <2>2. vg' = [vg EXCEPT ![n] = VgRetain(vg[n], n)] \/ vg' = [vg EXCEPT ![n] = vg[n]]
    BY <1>3 DEF StartSyncs
  <2> QED
    BY <2>1, <2>2, GraphsUpdate DEF WellFormed
<1>10. msgs' \subseteq Message
  <2>1. TableOK(uln[n]) /\ rt[n] \in [Node -> Contact] /\ msgs \subseteq Message
    BY DEF WellFormed, TypeOK, TablesOK
  <2>2. \A m \in D : DiscMsg("DiscReq", n, m, uln[n].link[m], uln[n], rt[n], nonce[m]) \in Message
    BY <1>5, <2>1, DiscMsgType DEF TableOK
  <2>3. ASSUME ok PROVE \A m \in Q : QueryMsg(n, via[m], m, nonce[m]) \in Message
    BY <1>5, <2>1, <2>3, QueryMsgType
  <2>4. (IF ok THEN sent ELSE {}) \subseteq Message
    BY <2>2, <2>3
  <2>5. Transmit(n, {}, IF ok THEN sent ELSE {})
    BY <1>3 DEF StartSyncs
  <2> HIDE DEF ok, sent
  <2> QED
    BY <2>1, <2>4, <2>5, TransmitType
<1>11. alive' \subseteq Node
  BY <1>3 DEF WellFormed, TypeOK, StartSyncs
<1> QED
  BY <1>3, <1>7, <1>8, <1>9, <1>10, <1>11 DEF WellFormed, TypeOK, GraphsOK, StartSyncs, ifaceVars

(* Restart keeps types, tables and graphs well formed.                     *)
LEMMA RestartWF ==
  ASSUME WellFormed, NEW n \in Node, Restart(n)
  PROVE  WellFormed'
<1>1. TablesOK(uln')
  BY NewTableOK, TablesUpdate DEF WellFormed, Restart
<1>2. GraphsOK(vg')
  BY NewGraphOK, GraphsUpdate DEF WellFormed, Restart
<1>3. rt' \in [Node -> [Node -> Contact]]
  BY NoContactType DEF WellFormed, TypeOK, Restart
<1>4. /\ discReq' \in [Node -> [Node -> Request]] /\ queryReq' \in [Node -> [Node -> Request]]
      /\ discHooks' \in [Node -> [Node -> Nat]] /\ queryHooks' \in [Node -> [Node -> Nat]]
  BY NoRequestType DEF WellFormed, TypeOK, Restart
<1>5. budget' \in [flaps : Nat, restarts : Nat]
  <2>1. budget' = [budget EXCEPT !.restarts = budget.restarts - 1] /\ budget.restarts > 0
    BY DEF WellFormed, TypeOK, Restart
  <2>2. budget.restarts - 1 \in Nat
    BY <2>1 DEF WellFormed, TypeOK
  <2> QED
    BY <2>1, <2>2 DEF WellFormed, TypeOK
<1>6. /\ interval' \in [Node -> [Link -> Nat]] /\ helloHooks' \in [Node -> [Link -> Nat]]
      /\ downs' \in [Node -> [Link -> SUBSET Node]]
  BY DEF WellFormed, TypeOK, Restart
<1>7. alive' \subseteq Node /\ msgs' \subseteq Message
  BY DEF WellFormed, TypeOK, Restart
<1> QED
  BY <1>1, <1>2, <1>3, <1>4, <1>5, <1>6, <1>7 DEF WellFormed, TypeOK, TablesOK, GraphsOK

(* Every step of every node keeps the state well-formed.                   *)
LEMMA NextWellFormed == WellFormed /\ [Next]_vars => WellFormed'
<1> SUFFICES ASSUME WellFormed, [Next]_vars PROVE WellFormed'
  OBVIOUS
<1>1. ASSUME NEW p \in msgs, Lose(p) \/ Receive(p.to, p) PROVE WellFormed'
  <2>1. p.to \in Node
    BY MessageFields DEF WellFormed, TypeOK
  <2> QED
    BY <1>1, <2>1, LoseWF, RecvHelloSilentlyWF, AnswerHelloWF, RecvDiscReqWF, RecvDiscRspWF,
       RecvOnDownInterfaceWF, ForwardQueryWF, RecvQueryReqWF, RecvQueryRspWF DEF Receive
<1>2. ASSUME NEW n \in Node, Timeout(n) PROVE WellFormed'
  BY <1>2, HelloTimerWF, DiscTimerStaleWF, DiscGiveUpWF, DiscRetryWF, QueryTimerStaleWF,
     QueryGiveUpWF, QueryRetryWF, ResyncWF DEF Timeout
<1>3. ASSUME NEW n \in Node, UnderlayUpdate(n) PROVE WellFormed'
  BY <1>3, InterfaceUpWF, InterfaceDownWF, NeighborDownWF DEF UnderlayUpdate
<1>4. ASSUME NEW n \in Node, Restart(n) \/ \E m \in Node : ContactDead(n, m) PROVE WellFormed'
  BY <1>4, RestartWF, ContactDeadWF
<1>5. CASE UNCHANGED vars
  BY <1>5 DEF WellFormed, TypeOK, vars
<1> QED
  BY <1>1, <1>2, <1>3, <1>4, <1>5 DEF Next

(* The inductive invariant of the other theorems holds in every run of all *)
(* nodes: types, tables and graphs stay well-formed in every handler.      *)
THEOREM WellFormedAlways == Spec => []WellFormed
<1>1. Init => WellFormed
  BY InitWellFormed
<1>2. WellFormed /\ [Next]_vars => WellFormed'
  BY NextWellFormed
<1> QED
  BY <1>1, <1>2, PTL DEF Spec

(* Type correctness of all variables, whatever the network delays, loses   *)
(* or reorders: in particular only well-formed messages with a real link   *)
(* and an SSN that can be represented are ever sent (all handlers).        *)
THEOREM TypeCorrect == Spec => []TypeOK
<1>1. WellFormed => TypeOK
  BY DEF WellFormed
<1> QED
  BY <1>1, WellFormedAlways, PTL

(* The panic of schedule_syncs on an entry synchronised beyond what was    *)
(* observed is unreachable: process_ulndisc_reqrsp, ULNHello and           *)
(* QueryRouteRsp keep the two numbers in order, however late a message is. *)
THEOREM SyncedNeverAheadAlways == Spec => []SyncedNeverAhead
<1>1. WellFormed => SyncedNeverAhead
  BY DEF WellFormed, GraphsOK, GraphOK, SyncedNeverAhead
<1> QED
  BY <1>1, WellFormedAlways, PTL

-----------------------------------------------------------------------------
(* The safety invariants beyond well-formedness.  Each is inductive        *)
(* relative to WellFormed.  Most of them constrain live nodes only and few *)
(* variables, so most actions are covered by a lemma that says: these      *)
(* variables are unchanged and no node comes alive.                        *)

-----------------------------------------------------------------------------
(* Request timers *)

(* After a step the request of k to j is not pending, has a timer, or is   *)
(* as it was before.                                                       *)
TimerKept(req, hooks, k, j) ==
  \/ req'[k][j].nonce = 0
  \/ hooks'[k][j] > 0
  \/ req[k][j].nonce # 0 /\ hooks'[k][j] = hooks[k][j]

(* PendingHasTimer can be shown node by node and peer by peer.             *)
LEMMA TimersKept ==
  ASSUME PendingHasTimer, alive' \subseteq alive,
         \A k \in alive', j \in Node : /\ TimerKept(discReq, discHooks, k, j)
                                       /\ TimerKept(queryReq, queryHooks, k, j)
  PROVE  PendingHasTimer'
<1> SUFFICES ASSUME NEW k \in alive', NEW j \in Node
             PROVE  /\ discReq'[k][j].nonce # 0 => discHooks'[k][j] > 0
                    /\ queryReq'[k][j].nonce # 0 => queryHooks'[k][j] > 0
  BY DEF PendingHasTimer
<1>1. /\ discReq[k][j].nonce # 0 => discHooks[k][j] > 0
      /\ queryReq[k][j].nonce # 0 => queryHooks[k][j] > 0
  BY DEF PendingHasTimer
<1>2. TimerKept(discReq, discHooks, k, j) /\ TimerKept(queryReq, queryHooks, k, j)
  OBVIOUS
<1> QED
  BY <1>1, <1>2 DEF TimerKept

(* A step that leaves requests and timers alone and revives no node keeps  *)
(* PendingHasTimer.                                                        *)
LEMMA TimersUntouched ==
  ASSUME PendingHasTimer, UNCHANGED reqVars, alive' \subseteq alive
  PROVE  PendingHasTimer'
BY DEF PendingHasTimer, reqVars

(* Handling a message keeps a timer behind every pending request.          *)
LEMMA ReceiveTimers ==
  ASSUME WellFormed, PendingHasTimer, NEW n \in Node, NEW p \in msgs, Receive(n, p)
  PROVE  PendingHasTimer'
<1>1. CASE RecvHelloSilently(n, p) \/ RecvOnDownInterface(n, p) \/ ForwardQuery(n, p)
  BY <1>1, TimersUntouched DEF RecvHelloSilently, RecvOnDownInterface, ForwardQuery
<1>2. CASE AnswerHello(n, p)
  <2>1. p.from \in Node
    BY MessageFields DEF WellFormed, TypeOK
  <2>2. discHooks' = [discHooks EXCEPT ![n][p.from] = discHooks[n][p.from] + 1]
    BY <1>2, <2>1 DEF AnswerHello, WellFormed, TypeOK
  <2>3. PICK nonce : discReq' = [discReq EXCEPT ![n][p.from] = [nonce |-> nonce, timeouts |-> 0]]
    BY <1>2 DEF AnswerHello
  <2>4. UNCHANGED <<queryReq, queryHooks>> /\ alive' \subseteq alive
    BY <1>2 DEF AnswerHello
  <2>5. \A k, j \in Node : TimerKept(discReq, discHooks, k, j)
    BY <2>1, <2>2, <2>3 DEF TimerKept, WellFormed, TypeOK
  <2>6. alive' \subseteq Node /\ \A k, j \in Node : TimerKept(queryReq, queryHooks, k, j)
    BY <2>4 DEF TimerKept, WellFormed, TypeOK
  <2> QED
    BY <2>4, <2>5, <2>6, TimersKept
<1>3. CASE RecvDiscReq(n, p)
  <2>1. UNCHANGED reqVars /\ alive' \subseteq alive
    BY <1>3 DEF RecvDiscReq
  <2> QED
    BY <2>1, TimersUntouched
<1>4. CASE RecvDiscRsp(n, p)
  <2>1. p.from \in Node
    BY MessageFields DEF WellFormed, TypeOK
  <2>2. UNCHANGED <<discHooks, queryReq, queryHooks>> /\ alive' \subseteq alive
    BY <1>4 DEF RecvDiscRsp
  <2>3. discReq' = [discReq EXCEPT ![n][p.from] = FinalizeRequest(discReq[n][p.from], p.nonce)]
    BY <1>4, <2>1 DEF RecvDiscRsp, WellFormed, TypeOK
  <2>4. FinalizeRequest(discReq[n][p.from], p.nonce) \in {discReq[n][p.from], NoRequest}
    BY DEF FinalizeRequest
  <2>5. \A k, j \in Node : TimerKept(discReq, discHooks, k, j)
    BY <2>1, <2>2, <2>3, <2>4 DEF TimerKept, WellFormed, TypeOK, NoRequest
  <2>6. alive' \subseteq Node /\ \A k, j \in Node : TimerKept(queryReq, queryHooks, k, j)
    BY <2>2 DEF TimerKept, WellFormed, TypeOK
  <2> QED
    BY <2>2, <2>5, <2>6, TimersKept
<1>5. CASE RecvQueryReq(n, p)
  <2>1. UNCHANGED reqVars /\ alive' \subseteq alive
    BY <1>5 DEF RecvQueryReq
  <2> QED
    BY <2>1, TimersUntouched
<1>6. CASE RecvQueryRsp(n, p)
  <2>1. p.src \in Node
    BY <1>6, MessageFields DEF WellFormed, TypeOK, RecvQueryRsp, Arrives, QueryMessage
  <2>2. UNCHANGED <<discReq, discHooks, queryHooks>> /\ alive' \subseteq alive
    BY <1>6 DEF RecvQueryRsp
  <2>3. PICK q \in {queryReq[n][p.src], NoRequest} : queryReq' = [queryReq EXCEPT ![n][p.src] = q]
    BY <1>6, <2>1 DEF RecvQueryRsp, WellFormed, TypeOK, FinalizeRequest
  <2>4. \A k, j \in Node : TimerKept(queryReq, queryHooks, k, j)
    BY <2>1, <2>2, <2>3 DEF TimerKept, WellFormed, TypeOK, NoRequest
  <2>5. alive' \subseteq Node /\ \A k, j \in Node : TimerKept(discReq, discHooks, k, j)
    BY <2>2 DEF TimerKept, WellFormed, TypeOK
  <2> QED
    BY <2>2, <2>4, <2>5, TimersKept
<1> QED
  BY <1>1, <1>2, <1>3, <1>4, <1>5, <1>6 DEF Receive

(* Handling a timer keeps a timer behind every pending request.            *)
LEMMA TimeoutTimers ==
  ASSUME WellFormed, PendingHasTimer, NEW n \in Node, Timeout(n)
  PROVE  PendingHasTimer'
<1>1. ASSUME NEW l \in Link, HelloTimer(n, l) PROVE PendingHasTimer'
  BY <1>1, TimersUntouched DEF HelloTimer
<1>2. ASSUME NEW m \in Node, DiscTimerStale(n, m) PROVE PendingHasTimer'
  BY <1>2 DEF DiscTimerStale, PendingHasTimer, WellFormed, TypeOK
<1>3. ASSUME NEW m \in Node, DiscGiveUp(n, m) PROVE PendingHasTimer'
  <2>1. /\ discReq' = [discReq EXCEPT ![n][m] = NoRequest]
        /\ discHooks' = [discHooks EXCEPT ![n][m] = @ - 1]
        /\ UNCHANGED <<alive, queryReq, queryHooks>>
    BY <1>3 DEF DiscGiveUp
  <2>2. \A k, j \in Node : TimerKept(discReq, discHooks, k, j)
    BY <2>1 DEF TimerKept, WellFormed, TypeOK, NoRequest
  <2>3. alive' \subseteq Node /\ \A k, j \in Node : TimerKept(queryReq, queryHooks, k, j)
    BY <2>1 DEF TimerKept, WellFormed, TypeOK
  <2> QED
    BY <2>1, <2>2, <2>3, TimersKept
<1>4. ASSUME NEW m \in Node, DiscRetry(n, m) PROVE PendingHasTimer'
  <2>1. /\ discReq' = [discReq EXCEPT ![n][m].timeouts = @ + 1]
        /\ UNCHANGED <<queryReq, queryHooks>>
    BY <1>4 DEF DiscRetry
  <2>2. alive' \subseteq alive /\ (n \in alive' => UNCHANGED discHooks)
    BY <1>4 DEF DiscRetry, WellFormed, TypeOK
  <2>3. \A j \in Node : \A k \in Node \ {n} : discHooks'[k][j] = discHooks[k][j]
    BY <1>4 DEF DiscRetry, WellFormed, TypeOK
  <2>4. \A k, j \in Node : discReq'[k][j].nonce = discReq[k][j].nonce
    BY <2>1 DEF WellFormed, TypeOK, Request
  <2>5. \A k \in alive', j \in Node : TimerKept(discReq, discHooks, k, j)
    BY <2>2, <2>3, <2>4 DEF TimerKept, WellFormed, TypeOK
  <2>6. alive' \subseteq Node /\ \A k, j \in Node : TimerKept(queryReq, queryHooks, k, j)
    BY <2>1, <2>2 DEF TimerKept, WellFormed, TypeOK
  <2> QED
    BY <2>2, <2>5, <2>6, TimersKept
<1>5. ASSUME NEW m \in Node, QueryTimerStale(n, m) PROVE PendingHasTimer'
  BY <1>5 DEF QueryTimerStale, PendingHasTimer, WellFormed, TypeOK
<1>6. ASSUME NEW m \in Node, QueryGiveUp(n, m) PROVE PendingHasTimer'
  <2>1. /\ queryReq' = [queryReq EXCEPT ![n][m] = NoRequest]
        /\ queryHooks' = [queryHooks EXCEPT ![n][m] = @ - 1]
        /\ UNCHANGED <<alive, discReq, discHooks>>
    BY <1>6 DEF QueryGiveUp
  <2>2. \A k, j \in Node : TimerKept(queryReq, queryHooks, k, j)
    BY <2>1 DEF TimerKept, WellFormed, TypeOK, NoRequest
  <2>3. alive' \subseteq Node /\ \A k, j \in Node : TimerKept(discReq, discHooks, k, j)
    BY <2>1 DEF TimerKept, WellFormed, TypeOK
  <2> QED
    BY <2>1, <2>2, <2>3, TimersKept
<1>7. ASSUME NEW m \in Node, QueryRetry(n, m) PROVE PendingHasTimer'
  <2>1. /\ queryReq' = [queryReq EXCEPT ![n][m].timeouts = @ + 1]
        /\ UNCHANGED <<discReq, discHooks>>
    BY <1>7 DEF QueryRetry
  <2>2. alive' \subseteq alive /\ (n \in alive' => UNCHANGED queryHooks)
    BY <1>7 DEF QueryRetry, WellFormed, TypeOK
  <2>3. \A j \in Node : \A k \in Node \ {n} : queryHooks'[k][j] = queryHooks[k][j]
    BY <1>7 DEF QueryRetry, WellFormed, TypeOK
  <2>4. \A k, j \in Node : queryReq'[k][j].nonce = queryReq[k][j].nonce
    BY <2>1 DEF WellFormed, TypeOK, Request
  <2>5. \A k \in alive', j \in Node : TimerKept(queryReq, queryHooks, k, j)
    BY <2>2, <2>3, <2>4 DEF TimerKept, WellFormed, TypeOK
  <2>6. alive' \subseteq Node /\ \A k, j \in Node : TimerKept(discReq, discHooks, k, j)
    BY <2>1, <2>2 DEF TimerKept, WellFormed, TypeOK
  <2> QED
    BY <2>2, <2>5, <2>6, TimersKept
<1>8. ASSUME Resync(n) PROVE PendingHasTimer'
  <2>1. PICK D, Q, via, nonce, clean : StartSyncs(n, D, Q, via, nonce, clean)
    BY <1>8 DEF Resync
  <2>2. \A k, j \in Node : TimerKept(discReq, discHooks, k, j)
    BY <2>1 DEF TimerKept, StartSyncs, WellFormed, TypeOK
  <2>3. \A k, j \in Node : TimerKept(queryReq, queryHooks, k, j)
    BY <2>1 DEF TimerKept, StartSyncs, WellFormed, TypeOK
  <2>4. alive' \subseteq alive /\ alive' \subseteq Node
    BY <2>1 DEF StartSyncs, WellFormed, TypeOK
  <2> QED
    BY <2>2, <2>3, <2>4, TimersKept
<1> QED
  BY <1>1, <1>2, <1>3, <1>4, <1>5, <1>6, <1>7, <1>8 DEF Timeout

(* Every step keeps PendingHasTimer.                                       *)
LEMMA NextTimers == WellFormed /\ PendingHasTimer /\ [Next]_vars => PendingHasTimer'
<1> SUFFICES ASSUME WellFormed, PendingHasTimer, [Next]_vars PROVE PendingHasTimer'
  OBVIOUS
<1>1. ASSUME NEW p \in msgs, Lose(p) \/ Receive(p.to, p) PROVE PendingHasTimer'
  <2>1. p.to \in Node
    BY MessageFields DEF WellFormed, TypeOK
  <2>2. CASE Lose(p)
    BY <2>2, TimersUntouched DEF Lose
  <2> QED
    BY <1>1, <2>1, <2>2, ReceiveTimers
<1>2. ASSUME NEW n \in Node, Timeout(n) PROVE PendingHasTimer'
  BY <1>2, TimeoutTimers
<1>3. ASSUME NEW n \in Node, UnderlayUpdate(n) PROVE PendingHasTimer'
  <2>1. UNCHANGED reqVars /\ alive' \subseteq alive
    BY <1>3 DEF UnderlayUpdate, InterfaceUp, InterfaceDown, NeighborDown
  <2> QED
    BY <2>1, TimersUntouched
<1>4. ASSUME NEW n \in Node, NEW m \in Node, ContactDead(n, m) PROVE PendingHasTimer'
  <2>1. UNCHANGED reqVars /\ alive' \subseteq alive
    BY <1>4 DEF ContactDead
  <2> QED
    BY <2>1, TimersUntouched
<1>5. ASSUME NEW n \in Node, Restart(n) PROVE PendingHasTimer'
  <2>1. \A j \in Node : discReq'[n][j].nonce = 0 /\ queryReq'[n][j].nonce = 0
    BY <1>5 DEF Restart, WellFormed, TypeOK, NoRequest
  <2>2. \A k \in Node \ {n} : /\ discReq'[k] = discReq[k] /\ discHooks'[k] = discHooks[k]
                              /\ queryReq'[k] = queryReq[k] /\ queryHooks'[k] = queryHooks[k]
    BY <1>5 DEF Restart, WellFormed, TypeOK
  <2>3. \A k \in alive' : k = n \/ (k \in alive /\ k \in Node \ {n})
    BY <1>5 DEF Restart, WellFormed, TypeOK
  <2> QED
    BY <2>1, <2>2, <2>3 DEF PendingHasTimer
<1>6. CASE UNCHANGED vars
  BY <1>6, TimersUntouched DEF vars, reqVars
<1> QED
  BY <1>1, <1>2, <1>3, <1>4, <1>5, <1>6 DEF Next

(* A pending ULNDiscReq or QueryRouteReq always has an armed timer, over   *)
(* retries, replaced requests, late responses and failed interfaces        *)
(* (register_pending_req and the two timeout handlers): otherwise ULNHello *)
(* and schedule_syncs would skip the node for ever.                        *)
THEOREM PendingHasTimerAlways == Spec => []PendingHasTimer
<1>1. Init => PendingHasTimer
  BY DEF Init, PendingHasTimer, NoRequest
<1>2. WellFormed /\ PendingHasTimer /\ [Next]_vars => PendingHasTimer'
  BY NextTimers
<1> QED
  BY <1>1, <1>2, WellFormedAlways, PTL DEF Spec

-----------------------------------------------------------------------------
(* Hello timers *)

(* A step that leaves interfaces and hello timers alone keeps              *)
(* HelloKeepsRunning.                                                      *)
LEMMA HelloUntouched ==
  ASSUME HelloKeepsRunning, UNCHANGED <<interval, helloHooks>>, alive' \subseteq alive
  PROVE  HelloKeepsRunning'
BY DEF HelloKeepsRunning, Up

(* Every step keeps HelloKeepsRunning.                                     *)
LEMMA NextHello == WellFormed /\ HelloKeepsRunning /\ [Next]_vars => HelloKeepsRunning'
<1> SUFFICES ASSUME WellFormed, HelloKeepsRunning, [Next]_vars PROVE HelloKeepsRunning'
  OBVIOUS
<1>1. ASSUME NEW p \in msgs, Lose(p) \/ Receive(p.to, p) PROVE HelloKeepsRunning'
  <2>1. UNCHANGED <<interval, helloHooks>> /\ alive' \subseteq alive
    BY <1>1 DEF Lose, Receive, RecvHelloSilently, AnswerHello, RecvDiscReq, RecvDiscRsp,
                RecvOnDownInterface, ForwardQuery, RecvQueryReq, RecvQueryRsp, ifaceVars
  <2> QED
    BY <2>1, HelloUntouched
<1>2. ASSUME NEW n \in Node, NEW l \in Link, HelloTimer(n, l) PROVE HelloKeepsRunning'
  <2>1. CASE Up(n, l)
    <3>1. UNCHANGED <<alive, helloHooks>>
      BY <1>2, <2>1 DEF HelloTimer
    <3>2. \A k \in Node, j \in Link : interval'[k][j] # 0 => interval[k][j] # 0
      <4>1. PICK i : interval' = [interval EXCEPT ![n][l] = i]
        BY <1>2, <2>1 DEF HelloTimer
      <4> QED
        BY <2>1, <4>1 DEF Up, WellFormed, TypeOK
    <3> QED
      BY <3>1, <3>2 DEF HelloKeepsRunning, Up, WellFormed, TypeOK
  <2>2. CASE ~Up(n, l)
    <3>1. UNCHANGED <<alive, interval>>
      BY <1>2, <2>2 DEF HelloTimer
    <3>2. \A k \in Node, j \in Link : interval[k][j] # 0 => helloHooks'[k][j] = helloHooks[k][j]
      <4>1. helloHooks' = [helloHooks EXCEPT ![n][l] = helloHooks[n][l] - 1]
        BY <1>2, <2>2 DEF HelloTimer, WellFormed, TypeOK
      <4> QED
        BY <2>2, <4>1 DEF Up, WellFormed, TypeOK
    <3> QED
      BY <3>1, <3>2 DEF HelloKeepsRunning, Up, WellFormed, TypeOK
  <2> QED
    BY <2>1, <2>2
<1>3. ASSUME NEW n \in Node, Resync(n) PROVE HelloKeepsRunning'
  <2>1. PICK D, Q, via, nonce, clean : StartSyncs(n, D, Q, via, nonce, clean)
    BY <1>3 DEF Resync
  <2> QED
    BY <2>1, HelloUntouched DEF StartSyncs, ifaceVars
<1>4. ASSUME NEW n \in Node, NEW m \in Node,
             \/ DiscTimerStale(n, m) \/ DiscGiveUp(n, m) \/ DiscRetry(n, m)
             \/ QueryTimerStale(n, m) \/ QueryGiveUp(n, m) \/ QueryRetry(n, m)
             \/ ContactDead(n, m)
      PROVE  HelloKeepsRunning'
  <2>1. UNCHANGED <<interval, helloHooks>> /\ alive' \subseteq alive
    BY <1>4 DEF DiscTimerStale, DiscGiveUp, DiscRetry, QueryTimerStale, QueryGiveUp, QueryRetry,
                ContactDead, ifaceVars
  <2> QED
    BY <2>1, HelloUntouched
<1>5. ASSUME NEW n \in Node, NEW l \in Link, InterfaceUp(n, l) PROVE HelloKeepsRunning'
  <2>1. helloHooks' = [helloHooks EXCEPT ![n][l] = helloHooks[n][l] + 1]
    BY <1>5 DEF InterfaceUp, WellFormed, TypeOK
  <2>2. helloHooks'[n][l] > 0
    BY <2>1 DEF WellFormed, TypeOK
  <2>3. \A k \in Node, j \in Link : (k = n /\ j = l) \/ helloHooks'[k][j] = helloHooks[k][j]
    BY <2>1 DEF WellFormed, TypeOK
  <2>4. \A k \in Node, j \in Link : (k = n /\ j = l) \/ interval'[k][j] = interval[k][j]
    BY <1>5 DEF InterfaceUp, WellFormed, TypeOK
  <2>5. UNCHANGED alive
    BY <1>5 DEF InterfaceUp
  <2> QED
    BY <2>2, <2>3, <2>4, <2>5, ZenonT(30) DEF HelloKeepsRunning, Up, WellFormed, TypeOK
<1>6. ASSUME NEW n \in Node, NEW l \in Link, InterfaceDown(n, l) PROVE HelloKeepsRunning'
  <2>1. UNCHANGED <<alive, helloHooks>>
    BY <1>6 DEF InterfaceDown
  <2>2. \A k \in Node, j \in Link : interval'[k][j] # 0 => interval[k][j] # 0
    BY <1>6 DEF InterfaceDown, WellFormed, TypeOK
  <2> QED
    BY <2>1, <2>2 DEF HelloKeepsRunning, Up, WellFormed, TypeOK
<1>7. ASSUME NEW n \in Node, NEW l \in Link, NEW m \in Node, NeighborDown(n, l, m)
      PROVE  HelloKeepsRunning'
  <2>1. UNCHANGED <<interval, helloHooks>> /\ alive' \subseteq alive
    BY <1>7 DEF NeighborDown
  <2> QED
    BY <2>1, HelloUntouched
<1>8. ASSUME NEW n \in Node, Restart(n) PROVE HelloKeepsRunning'
  <2>1. \A j \in Link : interval'[n][j] = 0
    BY <1>8 DEF Restart, WellFormed, TypeOK
  <2>2. \A k \in Node \ {n} : interval'[k] = interval[k] /\ helloHooks'[k] = helloHooks[k]
    BY <1>8 DEF Restart, WellFormed, TypeOK
  <2>3. \A k \in alive' : k = n \/ (k \in alive /\ k \in Node \ {n})
    BY <1>8 DEF Restart, WellFormed, TypeOK
  <2> QED
    BY <2>1, <2>2, <2>3 DEF HelloKeepsRunning, Up
<1>9. CASE UNCHANGED vars
  BY <1>9, HelloUntouched DEF vars
<1> QED
  BY <1>1, <1>2, <1>3, <1>4, <1>5, <1>6, <1>7, <1>8, <1>9 DEF Next, Timeout, UnderlayUpdate

(* An interface that is up never loses its hello timer, although timers of *)
(* earlier up phases survive the interface going down and fire later       *)
(* (InterfaceUp, InterfaceDown, SendInterfaceHello).                       *)
THEOREM HelloKeepsRunningAlways == Spec => []HelloKeepsRunning
<1>1. Init => HelloKeepsRunning
  BY DEF Init, HelloKeepsRunning, Up
<1>2. WellFormed /\ HelloKeepsRunning /\ [Next]_vars => HelloKeepsRunning'
  BY NextHello
<1> QED
  BY <1>1, <1>2, WellFormedAlways, PTL DEF Spec

-----------------------------------------------------------------------------
(* Confirmed neighbours and their contacts *)

(* A step that leaves uln_table and routing table alone keeps              *)
(* BidirectionalHasContact.                                                *)
LEMMA ContactsUntouched ==
  ASSUME BidirectionalHasContact, UNCHANGED <<uln, rt>>, alive' \subseteq alive
  PROVE  BidirectionalHasContact'
BY DEF BidirectionalHasContact, Consistent, BidirectionalSet

(* If the table and the contacts of one node change only, its consistency  *)
(* is all there is to show.                                                *)
LEMMA ContactsOfOne ==
  ASSUME WellFormed, BidirectionalHasContact, NEW n \in Node, alive' \subseteq alive,
         \A k \in Node \ {n} : uln'[k] = uln[k] /\ rt'[k] = rt[k],
         n \in alive' => Consistent(uln'[n], rt'[n])
  PROVE  BidirectionalHasContact'
<1>1. alive \subseteq Node
  BY DEF WellFormed, TypeOK
<1> QED
  BY <1>1 DEF BidirectionalHasContact, Consistent, BidirectionalSet

(* A step that confirms no neighbour and forgets no contact.               *)
LEMMA ConsistentKept ==
  ASSUME NEW t, NEW r, Consistent(t, r), NEW u, NEW q,
         BidirectionalSet(u) \subseteq BidirectionalSet(t),
         \A m \in Node : r[m].ssn # 0 => q[m].ssn # 0
  PROVE  Consistent(u, q)
BY DEF Consistent, BidirectionalSet

(* A ULNHello confirms no neighbour.                                       *)
LEMMA HelloTableNeighbors ==
  ASSUME NEW t, TableOK(t), NEW m \in Node, NEW l \in Link
  PROVE  BidirectionalSet(HelloTable(t, m, l)) = BidirectionalSet(t)
BY DEF BidirectionalSet, HelloTable, UlnInsert, UlnMapped, UlnContains, TableOK, Table

(* insert() confirms no neighbour.                                         *)
LEMMA UlnInsertNeighbors ==
  ASSUME NEW t, TableOK(t), NEW m \in Node, NEW l \in Link
  PROVE  BidirectionalSet(UlnInsert(t, m, l)) \in {BidirectionalSet(t), BidirectionalSet(t) \ {m}}
BY DEF BidirectionalSet, UlnInsert, UlnMapped, UlnContains, TableOK, Table

(* confirm() confirms no other neighbour than the one it is called for.    *)
LEMMA UlnConfirmNeighbors ==
  ASSUME NEW t, TableOK(t), NEW m \in Node, NEW l \in Link
  PROVE  /\ UlnConfirm(t, m, l) # t =>
              /\ BidirectionalSet(UlnConfirm(t, m, l)) = BidirectionalSet(t) \cup {m}
              /\ UlnConfirm(t, m, l).ssn = NextSSN(t.ssn) /\ t.state[m] = "Tentative"
         /\ ~UlnConfirmPanics(t, m, l) => m \in BidirectionalSet(UlnConfirm(t, m, l))
<1>1. CASE UlnMapped(t, m, l) /\ t.state[m] = "Tentative"
  <2>1. UlnConfirm(t, m, l) = [t EXCEPT !.state[m] = "Bidirectional", !.ssn = NextSSN(@)]
    BY <1>1 DEF UlnConfirm
  <2> QED
    BY <1>1, <2>1 DEF BidirectionalSet, TableOK, Table
<1>2. CASE ~(UlnMapped(t, m, l) /\ t.state[m] = "Tentative")
  <2>1. UlnConfirm(t, m, l) = t
    BY <1>2 DEF UlnConfirm
  <2>2. t.state[m] \in ULNState
    BY DEF TableOK, Table
  <2> QED
    BY <1>2, <2>1, <2>2 DEF UlnConfirmPanics, UlnMapped, UlnContains, BidirectionalSet, ULNState
<1> QED
  BY <1>1, <1>2

(* remove() takes exactly one neighbour out of the confirmed ones.         *)
LEMMA UlnRemoveNeighbors ==
  ASSUME NEW t, TableOK(t), NEW m \in Node
  PROVE  /\ BidirectionalSet(UlnRemove(t, m)) = BidirectionalSet(t) \ {m}
         /\ m \in BidirectionalSet(t) => UlnRemove(t, m).ssn = NextSSN(t.ssn)
BY DEF BidirectionalSet, UlnRemove, TableOK, Table

(* Updating a contact with one that has an SSN forgets none.               *)
LEMMA NoneForgotten ==
  ASSUME NEW r \in [Node -> [Node -> Contact]], NEW n \in Node, NEW m \in Node, NEW c, c.ssn # 0
  PROVE  \A k \in Node : r[n][k].ssn # 0 => [r EXCEPT ![n][m] = c][n][k].ssn # 0
OBVIOUS

(* Handling a message leaves every confirmed neighbour with a contact.     *)
LEMMA ReceiveContacts ==
  ASSUME WellFormed, BidirectionalHasContact, NEW n \in Node, NEW p \in msgs, Receive(n, p)
  PROVE  BidirectionalHasContact'
<1>1. p.from \in Node /\ p.link \in Link /\ p.ssn \in SSN
  BY MessageFields DEF WellFormed, TypeOK
<1>2. TableOK(uln[n]) /\ rt[n] \in [Node -> Contact]
  BY DEF WellFormed, TypeOK, TablesOK
<1>3. n \in alive => Consistent(uln[n], rt[n])
  BY DEF BidirectionalHasContact
<1>4. CASE RecvHelloSilently(n, p) \/ AnswerHello(n, p)
  <2>1. /\ uln' = [uln EXCEPT ![n] = HelloTable(uln[n], p.from, p.link)]
        /\ UNCHANGED rt /\ alive' \subseteq alive
    BY <1>4 DEF RecvHelloSilently, AnswerHello
  <2>2. BidirectionalSet(uln'[n]) = BidirectionalSet(uln[n])
    BY <1>1, <1>2, <2>1, HelloTableNeighbors DEF WellFormed, TypeOK
  <2>3. n \in alive' => Consistent(uln'[n], rt'[n])
    BY <1>3, <2>1, <2>2 DEF Consistent
  <2>4. \A k \in Node \ {n} : uln'[k] = uln[k] /\ rt'[k] = rt[k]
    BY <2>1 DEF WellFormed, TypeOK
  <2> QED
    BY <2>1, <2>3, <2>4, ContactsOfOne
<1>5. CASE RecvDiscReq(n, p)
  <2> DEFINE m  == p.from
             t0 == UlnInsert(uln[n], m, p.link)
             t  == UlnConfirm(t0, m, p.link)
             r  == [rt[n] EXCEPT ![m] = UpdateContact(@, m, p.ssn, m)]
             ok == ~UlnConfirmPanics(t0, m, p.link) /\ Consistent(t, r)
  <2>1. uln' = [uln EXCEPT ![n] = t] /\ rt' = [rt EXCEPT ![n] = r]
    BY <1>5 DEF RecvDiscReq
  <2>2. alive' = (IF ok THEN alive ELSE alive \ {n})
    BY <1>5 DEF RecvDiscReq
  <2> HIDE DEF t, r
  <2>3. uln'[n] = t /\ rt'[n] = r /\ \A k \in Node \ {n} : uln'[k] = uln[k] /\ rt'[k] = rt[k]
    BY <2>1 DEF WellFormed, TypeOK
  <2> QED
    BY <2>2, <2>3, ContactsOfOne
<1>6. CASE RecvDiscRsp(n, p)
  <2> DEFINE m == p.from
             t == UlnConfirm(uln[n], m, p.link)
             c == UpdateContact(rt[n][m], m, p.ssn, m)
  <2>1. uln' = [uln EXCEPT ![n] = t] /\ rt' = [rt EXCEPT ![n][m] = c] /\ alive' \subseteq alive
    BY <1>1, <1>6 DEF RecvDiscRsp, WellFormed, TypeOK
  <2>2. BidirectionalSet(t) \subseteq BidirectionalSet(uln[n]) \cup {m}
    BY <1>1, <1>2, UlnConfirmNeighbors
  <2>3. c.ssn # 0
    BY <1>1, <1>2, UpdateContactType
  <2> HIDE DEF t, c
  <2>4. /\ uln'[n] = t /\ rt'[n] = [rt[n] EXCEPT ![m] = c]
        /\ \A k \in Node \ {n} : uln'[k] = uln[k] /\ rt'[k] = rt[k]
    BY <1>1, <2>1 DEF WellFormed, TypeOK
  <2>5. Consistent(uln[n], rt[n]) => Consistent(t, [rt[n] EXCEPT ![m] = c])
    BY <1>1, <1>2, <2>2, <2>3 DEF Consistent, BidirectionalSet
  <2> QED
    BY <1>3, <2>1, <2>4, <2>5, ContactsOfOne
<1>7. CASE RecvOnDownInterface(n, p)
  <2> DEFINE c == UpdateContact(rt[n][p.from], p.from, p.ssn, p.from)
  <2>1. /\ UNCHANGED uln /\ alive' \subseteq alive
        /\ rt' = rt \/ rt' = [rt EXCEPT ![n][p.from] = c]
    BY <1>1, <1>7 DEF RecvOnDownInterface, WellFormed, TypeOK
  <2>2. c.ssn # 0
    BY <1>1, <1>2, UpdateContactType
  <2> HIDE DEF c
  <2>3. \A m \in Node : rt[n][m].ssn # 0 => rt'[n][m].ssn # 0
    BY <1>1, <2>1, <2>2, NoneForgotten DEF WellFormed, TypeOK
  <2>4. \A k \in Node \ {n} : uln'[k] = uln[k] /\ rt'[k] = rt[k]
    BY <1>1, <2>1 DEF WellFormed, TypeOK
  <2> QED
    BY <1>3, <2>1, <2>3, <2>4, ConsistentKept, ContactsOfOne
<1>8. CASE ForwardQuery(n, p) \/ RecvQueryReq(n, p) \/ RecvQueryRsp(n, p)
  <2>1. p.src \in Node /\ p.via \in Node
    BY <1>8, MessageFields
       DEF ForwardQuery, RecvQueryReq, RecvQueryRsp, Arrives, QueryMessage, WellFormed, TypeOK
  <2>2. UNCHANGED uln /\ alive' \subseteq alive
    BY <1>8 DEF ForwardQuery, RecvQueryReq, RecvQueryRsp
  <2>3. PICK via \in Node :
          rt' = rt \/ rt' = [rt EXCEPT ![n][p.src] = UpdateContact(rt[n][p.src], p.src, p.ssn, via)]
    <3>1. CASE ForwardQuery(n, p)
      BY <2>1, <3>1 DEF ForwardQuery, WellFormed, TypeOK
    <3>2. CASE RecvQueryReq(n, p)
      BY <2>1, <3>2, FirstHopType DEF RecvQueryReq, WellFormed, TypeOK
    <3>3. CASE RecvQueryRsp(n, p)
      BY <2>1, <3>3, FirstHopType DEF RecvQueryRsp, WellFormed, TypeOK
    <3> QED
      BY <1>8, <3>1, <3>2, <3>3
  <2> DEFINE c == UpdateContact(rt[n][p.src], p.src, p.ssn, via)
  <2>4. c.ssn # 0
    BY <1>1, <1>2, <2>1, UpdateContactType
  <2> HIDE DEF c
  <2>5. \A m \in Node : rt[n][m].ssn # 0 => rt'[n][m].ssn # 0
    <3>1. rt' = rt \/ rt' = [rt EXCEPT ![n][p.src] = c]
      BY <2>3 DEF c
    <3>2. rt \in [Node -> [Node -> Contact]]
      BY DEF WellFormed, TypeOK
    <3>3. \A k \in Node : rt[n][k].ssn # 0 => [rt EXCEPT ![n][p.src] = c][n][k].ssn # 0
      BY <2>1, <2>4, <3>2, NoneForgotten
    <3> QED
      BY <3>1, <3>3
  <2>6. \A k \in Node \ {n} : uln'[k] = uln[k] /\ rt'[k] = rt[k]
    BY <2>1, <2>2, <2>3 DEF WellFormed, TypeOK
  <2> QED
    BY <1>3, <2>2, <2>5, <2>6, ConsistentKept, ContactsOfOne
<1> QED
  BY <1>4, <1>5, <1>6, <1>7, <1>8 DEF Receive

(* Every step keeps BidirectionalHasContact.                               *)
LEMMA NextContacts == WellFormed /\ BidirectionalHasContact /\ [Next]_vars => BidirectionalHasContact'
<1> SUFFICES ASSUME WellFormed, BidirectionalHasContact, [Next]_vars PROVE BidirectionalHasContact'
  OBVIOUS
<1>1. ASSUME NEW p \in msgs, Lose(p) \/ Receive(p.to, p) PROVE BidirectionalHasContact'
  <2>1. p.to \in Node
    BY MessageFields DEF WellFormed, TypeOK
  <2>2. CASE Lose(p)
    BY <2>2, ContactsUntouched DEF Lose, nodeVars
  <2> QED
    BY <1>1, <2>1, <2>2, ReceiveContacts
<1>2. ASSUME NEW n \in Node, Resync(n) PROVE BidirectionalHasContact'
  <2>1. PICK D, Q, via, nonce, clean : StartSyncs(n, D, Q, via, nonce, clean)
    BY <1>2 DEF Resync
  <2> QED
    BY <2>1, ContactsUntouched DEF StartSyncs
<1>3. ASSUME NEW n \in Node, NEW l \in Link, HelloTimer(n, l) \/ InterfaceUp(n, l) \/ InterfaceDown(n, l)
      PROVE  BidirectionalHasContact'
  BY <1>3, ContactsUntouched DEF HelloTimer, InterfaceUp, InterfaceDown, nodeVars
<1>4. ASSUME NEW n \in Node, NEW m \in Node,
             \/ DiscTimerStale(n, m) \/ DiscGiveUp(n, m) \/ DiscRetry(n, m)
             \/ QueryTimerStale(n, m) \/ QueryGiveUp(n, m) \/ QueryRetry(n, m)
      PROVE  BidirectionalHasContact'
  <2>1. UNCHANGED <<uln, rt>> /\ alive' \subseteq alive
    BY <1>4 DEF DiscTimerStale, DiscGiveUp, DiscRetry, QueryTimerStale, QueryGiveUp, QueryRetry,
                nodeVars
  <2> QED
    BY <2>1, ContactsUntouched
<1>5. ASSUME NEW n \in Node, NEW l \in Link, NEW m \in Node, NeighborDown(n, l, m)
      PROVE  BidirectionalHasContact'
  <2>1. TableOK(uln[n]) /\ rt[n] \in [Node -> Contact]
    BY DEF WellFormed, TypeOK, TablesOK
  <2>2. /\ uln'[n] \in {uln[n], UlnRemove(uln[n], m)}
        /\ rt'[n] \in {rt[n], InvalidateVia(rt[n], m)}
        /\ \A k \in Node \ {n} : uln'[k] = uln[k] /\ rt'[k] = rt[k]
    BY <1>5 DEF NeighborDown, WellFormed, TypeOK
  <2>3. alive' \subseteq alive
    BY <1>5 DEF NeighborDown
  <2>4. BidirectionalSet(uln'[n]) \subseteq BidirectionalSet(uln[n])
    BY <2>1, <2>2, UlnRemoveNeighbors
  <2>5. \A k \in Node : rt[n][k].ssn # 0 => rt'[n][k].ssn # 0
    BY <2>1, <2>2, InvalidateViaType
  <2>6. n \in alive => Consistent(uln[n], rt[n])
    BY DEF BidirectionalHasContact
  <2> QED
    BY <2>2, <2>3, <2>4, <2>5, <2>6, ConsistentKept, ContactsOfOne
<1>6. ASSUME NEW n \in Node, NEW m \in Node, ContactDead(n, m) PROVE BidirectionalHasContact'
  <2> DEFINE r == IF rt[n][m].via = m THEN InvalidateVia(rt[n], m) ELSE rt[n]
             t == UlnRemove(uln[n], m)
  <2>1. uln' = [uln EXCEPT ![n] = t] /\ rt' = [rt EXCEPT ![n] = [r EXCEPT ![m] = NoContact(m)]]
    BY <1>6 DEF ContactDead
  <2>2. alive' \subseteq alive
    BY <1>6 DEF ContactDead
  <2>3. r \in [Node -> Contact] /\ \A k \in Node : r[k].ssn = rt[n][k].ssn
    BY InvalidateViaType DEF WellFormed, TypeOK
  <2>4. BidirectionalSet(t) = BidirectionalSet(uln[n]) \ {m}
    BY UlnRemoveNeighbors DEF WellFormed, TablesOK
  <2>5. n \in alive => Consistent(uln[n], rt[n])
    BY DEF BidirectionalHasContact
  <2> HIDE DEF r, t
  <2>6. /\ uln'[n] = t /\ rt'[n] = [r EXCEPT ![m] = NoContact(m)]
        /\ \A k \in Node \ {n} : uln'[k] = uln[k] /\ rt'[k] = rt[k]
    BY <2>1 DEF WellFormed, TypeOK
  <2>7. n \in alive => Consistent(t, [r EXCEPT ![m] = NoContact(m)])
    BY <2>3, <2>4, <2>5 DEF Consistent, BidirectionalSet
  <2> QED
    BY <2>2, <2>6, <2>7, ContactsOfOne
<1>7. ASSUME NEW n \in Node, Restart(n) PROVE BidirectionalHasContact'
  <2>1. BidirectionalSet(uln'[n]) = {}
    BY <1>7 DEF Restart, WellFormed, TypeOK, NewTable, BidirectionalSet
  <2>2. \A k \in Node \ {n} : uln'[k] = uln[k] /\ rt'[k] = rt[k]
    BY <1>7 DEF Restart, WellFormed, TypeOK
  <2>3. \A k \in alive' : k = n \/ (k \in alive /\ k \in Node \ {n})
    BY <1>7 DEF Restart, WellFormed, TypeOK
  <2> QED
    BY <2>1, <2>2, <2>3 DEF BidirectionalHasContact, Consistent, BidirectionalSet
<1>8. CASE UNCHANGED vars
  BY <1>8, ContactsUntouched DEF vars
<1> QED
  BY <1>1, <1>2, <1>3, <1>4, <1>5, <1>6, <1>7, <1>8 DEF Next, Timeout, UnderlayUpdate

(* Every confirmed underlay neighbour of a live node has a contact in the  *)
(* routing table, so that the NeighborInconsistency error of               *)
(* collect_underlay_neighbors and schedule_syncs is unreachable.  The      *)
(* ForwardProtocolMessage, FailureHandling and HandleContactUpdate use     *)
(* cases have to cooperate with VicinityDiscovery for it.                  *)
THEOREM BidirectionalHasContactAlways == Spec => []BidirectionalHasContact
<1>1. Init => BidirectionalHasContact
  <2>1. BidirectionalSet(NewTable) = {}
    BY DEF BidirectionalSet, NewTable
  <2>2. Init => alive = Node /\ \A n \in Node : uln[n] = NewTable
    BY DEF Init
  <2> QED
    BY <2>1, <2>2 DEF BidirectionalHasContact, Consistent
<1>2. WellFormed /\ BidirectionalHasContact /\ [Next]_vars => BidirectionalHasContact'
  BY NextContacts
<1> QED
  BY <1>1, <1>2, WellFormedAlways, PTL DEF Spec

-----------------------------------------------------------------------------
(* The SSN and the confirmed neighbours *)

(* The step from table t to table u bumps the SSN if the neighbours change.*)
Bumped(t, u) == BidirectionalSet(u) = BidirectionalSet(t) \/ u.ssn = t.ssn + 1

(* Below its maximum the SSN has a successor.                              *)
LEMMA NextSSNBelowMax ==
  ASSUME NEW s \in SSN, s # MaxSSN
  PROVE  NextSSN(s) = s + 1
BY UnderlayAssumption DEF SSN, NextSSN

(* confirm() changes the confirmed neighbours only together with the SSN,  *)
(* or panics.                                                              *)
LEMMA ConfirmBumps ==
  ASSUME NEW t, TableOK(t), NEW m \in Node, NEW l \in Link, ~UlnConfirmPanics(t, m, l)
  PROVE  Bumped(t, UlnConfirm(t, m, l))
<1>1. CASE UlnConfirm(t, m, l) = t
  BY <1>1 DEF Bumped
<1>2. CASE UlnConfirm(t, m, l) # t
  <2>1. UlnConfirm(t, m, l).ssn = NextSSN(t.ssn) /\ t.state[m] = "Tentative"
    BY <1>2, UlnConfirmNeighbors
  <2>2. t.ssn \in SSN /\ t.ssn # MaxSSN
    BY <2>1 DEF UlnConfirmPanics, TableOK, Table
  <2> QED
    BY <2>1, <2>2, NextSSNBelowMax DEF Bumped
<1> QED
  BY <1>1, <1>2

(* Replacing the underlay neighbour id of a confirmed neighbour makes it   *)
(* tentative without a new SSN; the confirmation that follows within the   *)
(* same step brings it back.                                               *)
LEMMA InsertConfirmBumps ==
  ASSUME NEW t, TableOK(t), NEW m \in Node, NEW l \in Link,
         ~UlnConfirmPanics(UlnInsert(t, m, l), m, l)
  PROVE  Bumped(t, UlnConfirm(UlnInsert(t, m, l), m, l))
<1> DEFINE i == UlnInsert(t, m, l)
           u == UlnConfirm(i, m, l)
<1>1. TableOK(i)
  BY UlnInsertOK
<1>2. i.ssn = t.ssn
  BY DEF UlnInsert, TableOK, Table
<1>3. Bumped(i, u) /\ m \in BidirectionalSet(u)
  BY <1>1, ConfirmBumps, UlnConfirmNeighbors
<1>4. BidirectionalSet(i) \in {BidirectionalSet(t), BidirectionalSet(t) \ {m}}
  BY UlnInsertNeighbors
<1>5. BidirectionalSet(u) = BidirectionalSet(i) => m \in BidirectionalSet(i)
  BY <1>3
<1> HIDE DEF i, u
<1> QED
  BY <1>2, <1>3, <1>4, <1>5 DEF Bumped, i, u

(* remove() changes the confirmed neighbours only together with the SSN,   *)
(* or panics.                                                              *)
LEMMA RemoveBumps ==
  ASSUME NEW t, TableOK(t), NEW m \in Node, ~UlnRemovePanics(t, m)
  PROVE  Bumped(t, UlnRemove(t, m))
<1>1. CASE m \in BidirectionalSet(t)
  <2>1. UlnRemove(t, m).ssn = NextSSN(t.ssn)
    BY <1>1, UlnRemoveNeighbors
  <2>2. t.ssn \in SSN /\ t.ssn # MaxSSN
    BY <1>1 DEF UlnRemovePanics, BidirectionalSet, TableOK, Table
  <2> QED
    BY <2>1, <2>2, NextSSNBelowMax DEF Bumped
<1>2. CASE m \notin BidirectionalSet(t)
  BY <1>2, UlnRemoveNeighbors DEF Bumped
<1> QED
  BY <1>1, <1>2

(* All nodes that are alive after a step without a restart.                *)
AllBumped == \A k \in alive' : k \in Node => Bumped(uln[k], uln'[k])

(* A step that leaves the tables alone satisfies NeighborChangeBumpsSSN.   *)
LEMMA UntouchedBumps ==
  ASSUME UNCHANGED uln
  PROVE  AllBumped
BY DEF AllBumped, Bumped, BidirectionalSet

(* If only the table of one node changes, NeighborChangeBumpsSSN has to be *)
(* shown for that node.                                                    *)
LEMMA OneBumps ==
  ASSUME WellFormed, NEW n \in Node, NEW t, uln' = [uln EXCEPT ![n] = t],
         n \in alive' => Bumped(uln[n], t)
  PROVE  AllBumped
BY DEF AllBumped, Bumped, BidirectionalSet, WellFormed, TypeOK

(* Handling a message satisfies NeighborChangeBumpsSSN.                    *)
LEMMA ReceiveBumps ==
  ASSUME WellFormed, NEW n \in Node, NEW p \in msgs, Receive(n, p)
  PROVE  AllBumped
<1>1. p.from \in Node /\ p.link \in Link /\ TableOK(uln[n])
  BY MessageFields DEF WellFormed, TypeOK, TablesOK
<1>2. CASE RecvHelloSilently(n, p) \/ AnswerHello(n, p)
  <2>1. uln' = [uln EXCEPT ![n] = HelloTable(uln[n], p.from, p.link)]
    BY <1>2 DEF RecvHelloSilently, AnswerHello
  <2>2. Bumped(uln[n], HelloTable(uln[n], p.from, p.link))
    BY <1>1, HelloTableNeighbors DEF Bumped
  <2> QED
    BY <2>1, <2>2, OneBumps
<1>3. CASE RecvDiscReq(n, p)
  <2> DEFINE t0 == UlnInsert(uln[n], p.from, p.link)
             t == UlnConfirm(t0, p.from, p.link)
  <2>1. /\ uln' = [uln EXCEPT ![n] = t]
        /\ n \in alive' => ~UlnConfirmPanics(t0, p.from, p.link)
    BY <1>3 DEF RecvDiscReq
  <2>2. n \in alive' => Bumped(uln[n], t)
    BY <1>1, <2>1, InsertConfirmBumps
  <2> HIDE DEF t
  <2> QED
    BY <2>1, <2>2, OneBumps
<1>4. CASE RecvDiscRsp(n, p)
  <2> DEFINE t == UlnConfirm(uln[n], p.from, p.link)
  <2>1. /\ uln' = [uln EXCEPT ![n] = t]
        /\ n \in alive' => ~UlnConfirmPanics(uln[n], p.from, p.link)
    BY <1>4 DEF RecvDiscRsp
  <2>2. n \in alive' => Bumped(uln[n], t)
    BY <1>1, <2>1, ConfirmBumps
  <2> HIDE DEF t
  <2> QED
    BY <2>1, <2>2, OneBumps
<1>5. CASE \/ RecvOnDownInterface(n, p) \/ ForwardQuery(n, p)
           \/ RecvQueryReq(n, p) \/ RecvQueryRsp(n, p)
  BY <1>5, UntouchedBumps DEF RecvOnDownInterface, ForwardQuery, RecvQueryReq, RecvQueryRsp
<1> QED
  BY <1>2, <1>3, <1>4, <1>5 DEF Receive

(* Every step satisfies NeighborChangeBumpsSSN.                            *)
LEMMA NextBumps ==
  ASSUME WellFormed, Next, budget'.restarts = budget.restarts
  PROVE  AllBumped
<1>1. ASSUME NEW p \in msgs, Lose(p) \/ Receive(p.to, p) PROVE AllBumped
  <2>1. p.to \in Node
    BY MessageFields DEF WellFormed, TypeOK
  <2>2. CASE Lose(p)
    BY <2>2, UntouchedBumps DEF Lose, nodeVars
  <2> QED
    BY <1>1, <2>1, <2>2, ReceiveBumps
<1>2. ASSUME NEW n \in Node, Resync(n) PROVE AllBumped
  <2>1. PICK D, Q, via, nonce, clean : StartSyncs(n, D, Q, via, nonce, clean)
    BY <1>2 DEF Resync
  <2> QED
    BY <2>1, UntouchedBumps DEF StartSyncs
<1>3. ASSUME NEW n \in Node, NEW l \in Link, HelloTimer(n, l) \/ InterfaceUp(n, l) \/ InterfaceDown(n, l)
      PROVE  AllBumped
  BY <1>3, UntouchedBumps DEF HelloTimer, InterfaceUp, InterfaceDown, nodeVars
<1>4. ASSUME NEW n \in Node, NEW m \in Node,
             \/ DiscTimerStale(n, m) \/ DiscGiveUp(n, m) \/ DiscRetry(n, m)
             \/ QueryTimerStale(n, m) \/ QueryGiveUp(n, m) \/ QueryRetry(n, m)
      PROVE  AllBumped
  BY <1>4, UntouchedBumps DEF DiscTimerStale, DiscGiveUp, DiscRetry, QueryTimerStale, QueryGiveUp,
                              QueryRetry, nodeVars
<1>5. ASSUME NEW n \in Node, NEW l \in Link, NEW m \in Node, NeighborDown(n, l, m)
      PROVE  AllBumped
  <2> DEFINE hit == UlnMapped(uln[n], m, l)
             t == IF hit THEN UlnRemove(uln[n], m) ELSE uln[n]
  <2>1. /\ uln' = [uln EXCEPT ![n] = t]
        /\ n \in alive' => (hit => ~UlnRemovePanics(uln[n], m))
    BY <1>5 DEF NeighborDown
  <2>2. TableOK(uln[n]) /\ Bumped(uln[n], uln[n])
    BY DEF WellFormed, TablesOK, Bumped
  <2>3. n \in alive' => Bumped(uln[n], t)
    BY <2>1, <2>2, RemoveBumps
  <2> HIDE DEF t
  <2> QED
    BY <2>1, <2>3, OneBumps
<1>6. ASSUME NEW n \in Node, NEW m \in Node, ContactDead(n, m) PROVE AllBumped
  <2> DEFINE t == UlnRemove(uln[n], m)
  <2>1. uln' = [uln EXCEPT ![n] = t] /\ (n \in alive' => ~UlnRemovePanics(uln[n], m))
    BY <1>6 DEF ContactDead
  <2>2. n \in alive' => Bumped(uln[n], t)
    BY <2>1, RemoveBumps DEF WellFormed, TablesOK
  <2> HIDE DEF t
  <2> QED
    BY <2>1, <2>2, OneBumps
<1>7. ASSUME NEW n \in Node, Restart(n) PROVE FALSE
  <2>1. budget'.restarts = budget.restarts - 1 /\ budget.restarts \in Nat
    BY <1>7 DEF Restart, WellFormed, TypeOK
  <2> QED
    BY <2>1
<1> QED
  BY <1>1, <1>2, <1>3, <1>4, <1>5, <1>6, <1>7 DEF Next, Timeout, UnderlayUpdate

(* The confirmed neighbours of a node that keeps running change only       *)
(* together with its SSN, by one step at a time (insert, confirm and       *)
(* remove of the uln_table as the handlers combine them).  Neighbours      *)
(* compare SSNs to find out that their picture is outdated.                *)
THEOREM NeighborChangeBumpsSSNAlways == Spec => NeighborChangeBumpsSSN
<1> DEFINE Step == \A n \in Node :
                     /\ BidirectionalSet(uln[n])' # BidirectionalSet(uln[n])
                     /\ n \in alive' /\ budget'.restarts = budget.restarts
                     => uln'[n].ssn = uln[n].ssn + 1
<1>1. WellFormed /\ [Next]_vars => [Step]_vars
  <2> SUFFICES ASSUME WellFormed, Next, NEW n \in Node,
                      BidirectionalSet(uln[n])' # BidirectionalSet(uln[n]),
                      n \in alive', budget'.restarts = budget.restarts
               PROVE  uln'[n].ssn = uln[n].ssn + 1
    OBVIOUS
  <2>1. Bumped(uln[n], uln'[n])
    BY NextBumps DEF AllBumped
  <2>2. BidirectionalSet(uln[n])' = BidirectionalSet(uln'[n])
    BY DEF BidirectionalSet
  <2> QED
    BY <2>1, <2>2 DEF Bumped
<1> QED
  BY <1>1, WellFormedAlways, PTL DEF Spec, NeighborChangeBumpsSSN

-----------------------------------------------------------------------------
(* What a node may know.  KnowledgeIsReal speaks of the vicinity graphs    *)
(* only.  Their SSNs come from messages, and those in the lists of         *)
(* ULNDiscReq and ULNDiscRsp from the contacts of the sender: the          *)
(* invariant Real bounds all three by the SSNs their owners have reached.  *)

SSNs == [m \in Node |-> uln[m].ssn]

GraphReal(g, b) == \A k \in Node : g.observed[k] <= b[k]
ContactsReal(r, b) == \A k \in Node : r[k].ssn <= b[k]

(* Whose SSN a message carries.                                            *)
Owner(p) == IF p.type \in {"QueryReq", "QueryRsp"} THEN p.src ELSE p.from

MsgReal(p, b) ==
  /\ p.ssn <= b[Owner(p)]
  /\ p.type \in {"DiscReq", "DiscRsp"} => \A k \in Node : p.contacts[k] <= b[k]

Real ==
  /\ \A n \in Node : GraphReal(vg[n], SSNs) /\ ContactsReal(rt[n], SSNs)
  /\ \A p \in msgs : MsgReal(p, SSNs)

(* The SSNs of well formed tables are numbers.                             *)
LEMMA SSNsType ==
  ASSUME WellFormed
  PROVE  SSNs \in [Node -> Nat] /\ \A k \in Node : SSNs[k] = uln[k].ssn
BY SSNIsNat DEF SSNs, WellFormed, TablesOK, TableOK, Table

(* The owner of a message is a node.                                       *)
LEMMA OwnerType ==
  ASSUME NEW p \in Message
  PROVE  Owner(p) \in Node
<1>1. p.type \in {"QueryReq", "QueryRsp"} => p.src \in Node
  BY MessageFields DEF QueryMessage
<1> QED
  BY <1>1, MessageFields DEF Owner

(* What was real stays real when SSNs grow.                                *)
LEMMA RealGrows ==
  ASSUME NEW b \in [Node -> Nat], NEW c \in [Node -> Nat], \A k \in Node : b[k] <= c[k]
  PROVE  /\ \A g \in Graph : GraphReal(g, b) => GraphReal(g, c)
         /\ \A r \in [Node -> Contact] : ContactsReal(r, b) => ContactsReal(r, c)
         /\ \A p \in Message : MsgReal(p, b) => MsgReal(p, c)
<1>1. ASSUME NEW g \in Graph, GraphReal(g, b) PROVE GraphReal(g, c)
  <2> SUFFICES ASSUME NEW k \in Node PROVE g.observed[k] <= c[k]
    BY DEF GraphReal
  <2>1. g.observed[k] \in Nat /\ b[k] \in Nat /\ c[k] \in Nat
    BY DEF Graph
  <2> QED
    BY <1>1, <2>1 DEF GraphReal
<1>2. ASSUME NEW r \in [Node -> Contact], ContactsReal(r, b) PROVE ContactsReal(r, c)
  <2> SUFFICES ASSUME NEW k \in Node PROVE r[k].ssn <= c[k]
    BY DEF ContactsReal
  <2>1. r[k].ssn \in Nat /\ b[k] \in Nat /\ c[k] \in Nat
    BY SSNIsNat DEF Contact
  <2> QED
    BY <1>2, <2>1 DEF ContactsReal
<1>3. ASSUME NEW p \in Message, MsgReal(p, b) PROVE MsgReal(p, c)
  <2>1. p.ssn \in Nat /\ Owner(p) \in Node
    BY MessageFields, OwnerType
  <2>2. p.type \in {"DiscReq", "DiscRsp"} => \A k \in Node : p.contacts[k] \in Nat
    BY MessageFields
  <2> QED
    BY <1>3, <2>1, <2>2 DEF MsgReal
<1> QED
  BY <1>1, <1>2, <1>3

(* The operations on a graph add what they are given, and nothing else.    *)
LEMMA GraphOpsReal ==
  ASSUME NEW b \in [Node -> Nat], NEW g \in Graph, GraphReal(g, b)
  PROVE  /\ \A m \in Node, s \in Nat : s <= b[m] =>
              /\ GraphReal(VgUpdateObserved(g, m, s), b)
              /\ GraphReal(VgUpdateSynced(g, m, s), b)
              /\ GraphReal(HelloGraph(g, m, s), b)
              /\ \A via \in Node : GraphReal(VgInsert(g, m, via, s), b)
         /\ \A root \in Node : GraphReal(VgRetain(g, root), b)
         /\ \A m \in Node : GraphReal(VgRemove(g, m), b)
         /\ \A m, k \in Node : GraphReal(VgRemoveEdge(g, m, k), b)
<1>0. ASSUME NEW k \in Node PROVE b[k] \in Nat /\ 0 <= b[k]
  <2>1. b[k] \in Nat
    OBVIOUS
  <2> QED
    BY <2>1
<1>1. ASSUME NEW m \in Node, NEW s \in Nat, s <= b[m]
      PROVE  /\ GraphReal(VgUpdateObserved(g, m, s), b)
             /\ GraphReal(VgUpdateSynced(g, m, s), b)
             /\ \A via \in Node : GraphReal(VgInsert(g, m, via, s), b)
  <2> DEFINE obs == [g.observed EXCEPT ![m] = Larger(@, s)]
  <2>1. \A k \in Node : obs[k] <= b[k]
    BY <1>1 DEF Graph, GraphReal, Larger
  <2>2. VgUpdateObserved(g, m, s).observed = obs
    BY DEF VgUpdateObserved, Graph
  <2>3. VgUpdateSynced(g, m, s).observed = obs
    BY DEF VgUpdateSynced, Graph
  <2>4. \A via \in Node : VgInsert(g, m, via, s).observed = obs
    BY DEF VgInsert, Graph
  <2> HIDE DEF obs
  <2> QED
    BY <2>1, <2>2, <2>3, <2>4 DEF GraphReal
<1>2. ASSUME NEW root \in Node PROVE GraphReal(VgRetain(g, root), b)
  <2>1. \A k \in Node : VgRetain(g, root).observed[k] \in {g.observed[k], 0}
    BY DEF VgRetain
  <2> QED
    BY <1>0, <2>1 DEF GraphReal
<1>3. ASSUME NEW m \in Node PROVE GraphReal(VgRemove(g, m), b)
  <2>1. VgRemove(g, m).observed = [g.observed EXCEPT ![m] = 0] /\ g.observed \in [Node -> Nat]
    BY DEF VgRemove, Graph
  <2> QED
    BY <1>0, <2>1 DEF GraphReal
<1>4. \A m, k \in Node : GraphReal(VgRemoveEdge(g, m, k), b)
  BY DEF VgRemoveEdge, Graph, GraphReal
<1> QED
  BY <1>1, <1>2, <1>3, <1>4 DEF HelloGraph

(* process_ulndisc_reqrsp observes the sender and the nodes of its list.   *)
LEMMA ProcessDiscReal ==
  ASSUME NEW b \in [Node -> Nat], NEW g, GraphOK(g), GraphReal(g, b), NEW root \in Node,
         NEW src \in Node, NEW s \in Nat, s <= b[src], NEW contacts \in [Node -> Nat],
         \A k \in Node : contacts[k] <= b[k]
  PROVE  GraphReal(ProcessDisc(g, root, src, s, contacts), b)
<1> DEFINE listed  == {k \in Node \ {root} : contacts[k] # 0}
           removed == (Neighbors(g, src) \ {root}) \ listed
           synced  == VgUpdateSynced(VgInsert(g, src, root, s), src, s)
           obs     == [k \in Node |-> IF k \in listed THEN Larger(synced.observed[k], contacts[k])
                                                      ELSE synced.observed[k]]
           merged  == [synced EXCEPT
                         !.observed = [k \in Node |-> IF k \in listed THEN Larger(@[k], contacts[k])
                                                                      ELSE @[k]],
                         !.edges = (@ \cup {{src, k} : k \in listed}) \ {{src, k} : k \in removed}]
<1>1. GraphOK(synced)
  BY VgInsertOK, VgUpdateSyncedOK
<1>2. GraphReal(synced, b)
  BY VgInsertOK, GraphOpsReal DEF GraphOK
<1>3. ProcessDisc(g, root, src, s, contacts) = IF removed = {} THEN merged ELSE VgRetain(merged, root)
  BY DEF ProcessDisc
<1> HIDE DEF synced, removed
<1>4. merged.observed = obs
  BY <1>1 DEF GraphOK, Graph
<1>5. \A k \in Node : obs[k] <= b[k]
  BY <1>1, <1>2 DEF GraphOK, Graph, GraphReal, Larger
<1> HIDE DEF merged, obs
<1>6. GraphReal(merged, b)
  BY <1>4, <1>5 DEF GraphReal
<1>7. GraphReal(VgRetain(merged, root), b)
  <2>1. \A k \in Node : VgRetain(merged, root).observed[k] \in {merged.observed[k], 0}
    BY DEF VgRetain
  <2>2. ASSUME NEW k \in Node PROVE 0 <= b[k]
    <3>1. b[k] \in Nat
      OBVIOUS
    <3> QED
      BY <3>1
  <2> QED
    BY <1>6, <2>1, <2>2 DEF GraphReal
<1> QED
  BY <1>3, <1>6, <1>7

(* A contact takes the SSN of a message or keeps its own.                  *)
LEMMA UpdateContactReal ==
  ASSUME NEW b \in [Node -> Nat], NEW r \in [Node -> Contact], ContactsReal(r, b),
         NEW m \in Node, NEW s \in SSN, s <= b[m], NEW via \in Node
  PROVE  ContactsReal([r EXCEPT ![m] = UpdateContact(@, m, s, via)], b)
<1>1. UpdateContact(r[m], m, s, via).ssn \in {r[m].ssn, s}
  <2>1. [r[m] EXCEPT !.via = via, !.state = "Valid"].ssn = r[m].ssn
    BY DEF Contact
  <2> QED
    BY <2>1 DEF UpdateContact
<1> QED
  BY <1>1 DEF ContactsReal

(* After a transmission the network holds what it held or what was sent.   *)
LEMMA TransmitSent ==
  ASSUME NEW n, NEW C, NEW S, Transmit(n, C, S)
  PROVE  msgs' \subseteq msgs \cup S
BY DEF Transmit, Accepted

(* A ULNHello carries the sender's SSN.                                    *)
LEMMA HelloReal ==
  ASSUME NEW b, NEW n, NEW s, s <= b[n]
  PROVE  \A l : \A p \in HelloOn(n, l, s) : MsgReal(p, b)
BY DEF HelloOn, MsgReal, Owner

(* The announcement of a new SSN carries the sender's SSN.                 *)
LEMMA AnnounceReal ==
  ASSUME NEW b, NEW n, NEW old, NEW new, new.ssn <= b[n]
  PROVE  \A p \in AnnounceSSN(n, old, new) : MsgReal(p, b)
<1>1. \A p \in BroadcastHello(n, new.ssn) : MsgReal(p, b)
  BY HelloReal DEF BroadcastHello
<1> QED
  BY <1>1 DEF AnnounceSSN

(* ULNDiscReq and ULNDiscRsp carry the sender's SSN and those of contacts. *)
LEMMA DiscMsgReal ==
  ASSUME NEW b \in [Node -> Nat], NEW n \in Node, NEW t, t.ssn <= b[n],
         NEW r \in [Node -> Contact], ContactsReal(r, b),
         NEW type \in {"DiscReq", "DiscRsp"}, NEW m, NEW l, NEW nonce
  PROVE  MsgReal(DiscMsg(type, n, m, l, t, r, nonce), b)
<1> DEFINE p == DiscMsg(type, n, m, l, t, r, nonce)
<1>1. p.type = type /\ p.from = n /\ p.ssn = t.ssn /\ p.contacts = CollectUnderlayNeighbors(t, r)
  BY DEF DiscMsg
<1>2. ASSUME NEW k \in Node PROVE CollectUnderlayNeighbors(t, r)[k] <= b[k]
  <2>1. b[k] \in Nat /\ r[k].ssn <= b[k]
    BY DEF ContactsReal
  <2>2. CollectUnderlayNeighbors(t, r)[k] \in {r[k].ssn, 0}
    BY DEF CollectUnderlayNeighbors
  <2> QED
    BY <2>1, <2>2
<1>3. Owner(p) = n
  BY <1>1 DEF Owner
<1> HIDE DEF p
<1>4. MsgReal(p, b)
  BY <1>1, <1>2, <1>3 DEF MsgReal
<1> QED
  BY <1>4 DEF p

(* A QueryRouteReq carries the SSN of its origin.                          *)
LEMMA QueryMsgReal ==
  ASSUME NEW b, NEW n, uln[n].ssn <= b[n], NEW via, NEW m, NEW nonce
  PROVE  MsgReal(QueryMsg(n, via, m, nonce), b)
BY DEF MsgReal, Owner, QueryMsg

(* No operation on the uln_table lowers the SSN.                           *)
LEMMA SSNGrows ==
  ASSUME NEW t, TableOK(t), NEW m \in Node, NEW l \in Link
  PROVE  /\ HelloTable(t, m, l).ssn = t.ssn
         /\ UlnInsert(t, m, l).ssn = t.ssn
         /\ t.ssn <= UlnConfirm(t, m, l).ssn
         /\ t.ssn <= UlnRemove(t, m).ssn
<1>1. t.ssn \in Nat /\ t.ssn <= NextSSN(t.ssn)
  <2>1. t.ssn \in Nat
    BY SSNIsNat DEF TableOK, Table
  <2>2. NextSSN(t.ssn) \in {t.ssn, t.ssn + 1}
    BY DEF NextSSN
  <2> QED
    BY <2>1, <2>2
<1>2. UlnInsert(t, m, l).ssn = t.ssn
  BY DEF UlnInsert, TableOK, Table
<1>3. UlnConfirm(t, m, l).ssn \in {t.ssn, NextSSN(t.ssn)}
  BY DEF UlnConfirm, TableOK, Table
<1>4. UlnRemove(t, m).ssn \in {t.ssn, NextSSN(t.ssn)}
  BY DEF UlnRemove, TableOK, Table
<1> QED
  BY <1>1, <1>2, <1>3, <1>4 DEF HelloTable

(* When one node changes its table without lowering its SSN, all SSNs grow *)
(* or stay.                                                                *)
LEMMA SSNsStep ==
  ASSUME WellFormed, WellFormed', NEW n \in Node,
         \A k \in Node \ {n} : uln'[k] = uln[k], uln[n].ssn <= uln'[n].ssn
  PROVE  /\ SSNs \in [Node -> Nat] /\ SSNs' \in [Node -> Nat]
         /\ SSNs[n] = uln[n].ssn /\ SSNs'[n] = uln'[n].ssn
         /\ \A k \in Node : SSNs[k] <= SSNs'[k]
         /\ \A r \in [Node -> Contact] : ContactsReal(r, SSNs) => ContactsReal(r, SSNs')
<1>1. SSNs \in [Node -> Nat] /\ SSNs' \in [Node -> Nat]
  BY SSNsType, SSNIsNat DEF SSNs, WellFormed, TablesOK, TableOK, Table
<1>2. ASSUME NEW k \in Node PROVE SSNs[k] <= SSNs'[k]
  <2>1. SSNs[k] = uln[k].ssn /\ SSNs'[k] = uln'[k].ssn /\ SSNs[k] \in Nat
    BY <1>1 DEF SSNs
  <2> QED
    BY <2>1
<1>3. SSNs[n] = uln[n].ssn /\ SSNs'[n] = uln'[n].ssn
  BY DEF SSNs
<1> QED
  BY <1>1, <1>2, <1>3, RealGrows

(* A step of node n keeps Real if it lowers no SSN, if what n knows is     *)
(* covered by the SSNs before the step, and what it sends by those after.  *)
LEMMA RealStep ==
  ASSUME WellFormed, WellFormed', Real, NEW n \in Node,
         \A k \in Node \ {n} : uln'[k] = uln[k] /\ rt'[k] = rt[k] /\ vg'[k] = vg[k],
         uln[n].ssn <= uln'[n].ssn,
         ContactsReal(rt'[n], SSNs), GraphReal(vg'[n], SSNs),
         NEW sent, msgs' \subseteq msgs \cup sent, \A p \in sent : MsgReal(p, SSNs')
  PROVE  Real'
<1>1. SSNs \in [Node -> Nat] /\ SSNs' \in [Node -> Nat]
  BY SSNsStep
<1>2. \A k \in Node : SSNs[k] <= SSNs'[k]
  BY SSNsStep
<1>3. ASSUME NEW k \in Node PROVE GraphReal(vg'[k], SSNs) /\ ContactsReal(rt'[k], SSNs)
  BY DEF Real
<1>4. \A k \in Node : vg'[k] \in Graph /\ rt'[k] \in [Node -> Contact]
  BY DEF WellFormed, TypeOK
<1>5. \A k \in Node : GraphReal(vg'[k], SSNs') /\ ContactsReal(rt'[k], SSNs')
  BY <1>1, <1>2, <1>3, <1>4, RealGrows
<1>6. ASSUME NEW p \in msgs' PROVE MsgReal(p, SSNs')
  <2>1. CASE p \in sent
    BY <2>1
  <2>2. CASE p \in msgs
    <3>1. MsgReal(p, SSNs) /\ p \in Message
      BY <2>2 DEF Real, WellFormed, TypeOK
    <3> QED
      BY <1>1, <1>2, <3>1, RealGrows
  <2> QED
    BY <2>1, <2>2
<1> QED
  BY <1>5, <1>6 DEF Real, GraphReal, ContactsReal, MsgReal, Owner

(* The same for a step that sends nothing.                                 *)
LEMMA RealQuietStep ==
  ASSUME WellFormed, WellFormed', Real, NEW n \in Node,
         \A k \in Node \ {n} : uln'[k] = uln[k] /\ rt'[k] = rt[k] /\ vg'[k] = vg[k],
         uln[n].ssn <= uln'[n].ssn,
         ContactsReal(rt'[n], SSNs), GraphReal(vg'[n], SSNs), msgs' \subseteq msgs
  PROVE  Real'
<1> DEFINE sent == {}
<1>1. msgs' \subseteq msgs \cup sent /\ \A p \in sent : MsgReal(p, SSNs')
  OBVIOUS
<1> HIDE DEF sent
<1> QED
  BY <1>1, RealStep

(* What Real and WellFormed say about one node.                            *)
LEMMA NodeReal ==
  ASSUME WellFormed, Real, NEW n \in Node
  PROVE  /\ SSNs \in [Node -> Nat] /\ SSNs[n] = uln[n].ssn /\ uln[n].ssn \in Nat
         /\ TableOK(uln[n])
         /\ rt[n] \in [Node -> Contact] /\ ContactsReal(rt[n], SSNs)
         /\ GraphOK(vg[n]) /\ vg[n] \in Graph /\ GraphReal(vg[n], SSNs)
<1>1. SSNs \in [Node -> Nat] /\ SSNs[n] = uln[n].ssn
  BY SSNsType
<1>2. TableOK(uln[n]) /\ rt[n] \in [Node -> Contact] /\ GraphOK(vg[n]) /\ vg[n] \in Graph
  BY DEF WellFormed, TypeOK, TablesOK, GraphsOK
<1> QED
  BY <1>1, <1>2 DEF Real

(* What Real says about a message.                                         *)
LEMMA MessageReal ==
  ASSUME WellFormed, Real, NEW p \in msgs
  PROVE  /\ p \in Message /\ p.from \in Node /\ p.link \in Link /\ p.ssn \in SSN /\ p.ssn \in Nat
         /\ p.type \in {"Hello", "DiscReq", "DiscRsp"} => p.ssn <= SSNs[p.from]
         /\ p.type \in {"DiscReq", "DiscRsp"} => /\ p.contacts \in [Node -> Nat]
                                                 /\ \A k \in Node : p.contacts[k] <= SSNs[k]
         /\ p.type \in {"QueryReq", "QueryRsp"} => p \in QueryMessage /\ p.ssn <= SSNs[p.src]
<1>1. p \in Message /\ MsgReal(p, SSNs)
  BY DEF WellFormed, TypeOK, Real
<1> QED
  BY <1>1, MessageFields DEF MsgReal, Owner

(* Handling a message keeps Real.                                          *)
LEMMA ReceiveReal ==
  ASSUME WellFormed, WellFormed', Real, NEW n \in Node, NEW p \in msgs, Receive(n, p)
  PROVE  Real'
<1> DEFINE Rest == \A k \in Node \ {n} : uln'[k] = uln[k] /\ rt'[k] = rt[k] /\ vg'[k] = vg[k]
<1>1. /\ SSNs \in [Node -> Nat] /\ SSNs[n] = uln[n].ssn /\ uln[n].ssn \in Nat
      /\ TableOK(uln[n])
      /\ rt[n] \in [Node -> Contact] /\ ContactsReal(rt[n], SSNs)
      /\ GraphOK(vg[n]) /\ vg[n] \in Graph /\ GraphReal(vg[n], SSNs)
  BY NodeReal
<1>2. /\ p \in Message /\ p.from \in Node /\ p.link \in Link /\ p.ssn \in SSN /\ p.ssn \in Nat
      /\ p.type \in {"Hello", "DiscReq", "DiscRsp"} => p.ssn <= SSNs[p.from]
      /\ p.type \in {"DiscReq", "DiscRsp"} => /\ p.contacts \in [Node -> Nat]
                                              /\ \A k \in Node : p.contacts[k] <= SSNs[k]
      /\ p.type \in {"QueryReq", "QueryRsp"} => p \in QueryMessage /\ p.ssn <= SSNs[p.src]
  BY MessageReal
<1>3. CASE RecvHelloSilently(n, p)
  <2>1. /\ Rest /\ uln'[n] = HelloTable(uln[n], p.from, p.link) /\ rt'[n] = rt[n]
        /\ vg'[n] = HelloGraph(vg[n], p.from, p.ssn) /\ msgs' \subseteq msgs
        /\ p.type = "Hello"
    BY <1>3 DEF RecvHelloSilently, Arrives, Drop, WellFormed, TypeOK
  <2>2. uln[n].ssn <= uln'[n].ssn
    BY <1>1, <1>2, <2>1, SSNGrows
  <2>3. GraphReal(vg'[n], SSNs)
    BY <1>1, <1>2, <2>1, GraphOpsReal
  <2> QED
    BY <1>1, <2>1, <2>2, <2>3, RealQuietStep
<1>4. CASE AnswerHello(n, p)
  <2> DEFINE t == HelloTable(uln[n], p.from, p.link)
             ok == Consistent(t, rt[n])
  <2>1. /\ Rest /\ uln'[n] = t /\ rt'[n] = rt[n] /\ p.type = "Hello"
        /\ vg'[n] = HelloGraph(vg[n], p.from, p.ssn)
    BY <1>4 DEF AnswerHello, Arrives, WellFormed, TypeOK
  <2>2. uln[n].ssn <= uln'[n].ssn /\ t.ssn = uln'[n].ssn
    BY <1>1, <1>2, <2>1, SSNGrows
  <2>3. GraphReal(vg'[n], SSNs)
    BY <1>1, <1>2, <2>1, GraphOpsReal
  <2>4. PICK nonce : Transmit(n, {p}, IF ok THEN {DiscMsg("DiscReq", n, p.from, p.link, t, rt[n], nonce)}
                                            ELSE {})
    BY <1>4 DEF AnswerHello
  <2> DEFINE sent == {DiscMsg("DiscReq", n, p.from, p.link, t, rt[n], nonce)}
  <2> HIDE DEF t, ok
  <2>5. SSNs' \in [Node -> Nat] /\ SSNs'[n] = uln'[n].ssn /\ ContactsReal(rt[n], SSNs')
    BY <1>1, <2>1, <2>2, SSNsStep
  <2>6. t.ssn <= SSNs'[n]
    <3>1. SSNs'[n] \in Nat
      BY <2>5
    <3> QED
      BY <2>2, <2>5, <3>1
  <2>7. \A q \in sent : MsgReal(q, SSNs')
    BY <1>1, <2>5, <2>6, DiscMsgReal
  <2>8. msgs' \subseteq msgs \cup sent
    BY <2>4, TransmitSent
  <2> HIDE DEF sent
  <2> QED
    BY <1>1, <2>1, <2>2, <2>3, <2>7, <2>8, RealStep
<1>5. CASE RecvOnDownInterface(n, p)
  <2>1. /\ Rest /\ uln'[n] = uln[n] /\ vg'[n] = vg[n] /\ msgs' \subseteq msgs
        /\ p.type \in {"Hello", "DiscReq", "DiscRsp"}
        /\ \/ rt'[n] = rt[n]
           \/ rt'[n] = [rt[n] EXCEPT ![p.from] = UpdateContact(@, p.from, p.ssn, p.from)]
    BY <1>2, <1>5 DEF RecvOnDownInterface, Drop, WellFormed, TypeOK
  <2>2. ContactsReal(rt'[n], SSNs)
    BY <1>1, <1>2, <2>1, UpdateContactReal
  <2>3. uln[n].ssn <= uln'[n].ssn
    BY <1>1, <2>1
  <2> QED
    BY <1>1, <2>1, <2>2, <2>3, RealQuietStep
<1>6. CASE RecvDiscReq(n, p)
  <2> DEFINE t0 == UlnInsert(uln[n], p.from, p.link)
             t == UlnConfirm(t0, p.from, p.link)
             r == [rt[n] EXCEPT ![p.from] = UpdateContact(@, p.from, p.ssn, p.from)]
             ok == ~UlnConfirmPanics(t0, p.from, p.link) /\ Consistent(t, r)
             sent == {DiscMsg("DiscRsp", n, p.from, p.link, t, r, p.nonce)}
                     \cup AnnounceSSN(n, uln[n], t)
  <2>1. /\ Rest /\ uln'[n] = t /\ rt'[n] = r /\ p.type = "DiscReq"
        /\ vg'[n] = ProcessDisc(vg[n], n, p.from, p.ssn, p.contacts)
    BY <1>6 DEF RecvDiscReq, Arrives, WellFormed, TypeOK
  <2>2. Transmit(n, {p}, IF ok THEN sent ELSE {})
    BY <1>6 DEF RecvDiscReq
  <2>3. TableOK(t0) /\ TableOK(t)
    BY <1>1, <1>2, UlnInsertOK, UlnConfirmOK
  <2>4. t0.ssn = uln[n].ssn /\ t0.ssn <= t.ssn
    BY <1>1, <1>2, <2>3, SSNGrows
  <2>5. ContactsReal(r, SSNs) /\ r \in [Node -> Contact]
    BY <1>1, <1>2, <2>1, UpdateContactReal, UpdateContactType
  <2>6. GraphReal(vg'[n], SSNs)
    BY <1>1, <1>2, <2>1, ProcessDiscReal
  <2>7. t.ssn \in Nat
    BY <2>3, SSNIsNat DEF TableOK, Table
  <2> HIDE DEF t0, t, r, ok
  <2>8. uln[n].ssn <= uln'[n].ssn
    BY <2>1, <2>4
  <2>9. SSNs' \in [Node -> Nat] /\ SSNs'[n] = t.ssn /\ ContactsReal(r, SSNs')
    BY <2>1, <2>5, <2>8, SSNsStep
  <2>10. t.ssn <= SSNs'[n]
    BY <2>7, <2>9
  <2>11. \A q \in sent : MsgReal(q, SSNs')
    BY <2>5, <2>9, <2>10, DiscMsgReal, AnnounceReal
  <2> HIDE DEF sent
  <2>12. msgs' \subseteq msgs \cup sent
    BY <2>2, TransmitSent
  <2> QED
    BY <2>1, <2>5, <2>6, <2>8, <2>11, <2>12, RealStep
<1>7. CASE RecvDiscRsp(n, p)
  <2> DEFINE t == UlnConfirm(uln[n], p.from, p.link)
             ok == ~UlnConfirmPanics(uln[n], p.from, p.link)
             sent == AnnounceSSN(n, uln[n], t)
  <2>1. /\ Rest /\ uln'[n] = t /\ p.type = "DiscRsp"
        /\ rt'[n] = [rt[n] EXCEPT ![p.from] = UpdateContact(@, p.from, p.ssn, p.from)]
        /\ vg'[n] = ProcessDisc(vg[n], n, p.from, p.ssn, p.contacts)
    BY <1>2, <1>7 DEF RecvDiscRsp, Arrives, WellFormed, TypeOK
  <2>2. Transmit(n, {p}, IF ok THEN sent ELSE {})
    BY <1>7 DEF RecvDiscRsp
  <2>3. TableOK(t) /\ uln[n].ssn <= t.ssn
    BY <1>1, <1>2, UlnConfirmOK, SSNGrows
  <2>4. ContactsReal(rt'[n], SSNs)
    BY <1>1, <1>2, <2>1, UpdateContactReal
  <2>5. GraphReal(vg'[n], SSNs)
    <3>1. /\ p.ssn <= SSNs[p.from] /\ p.contacts \in [Node -> Nat]
          /\ \A k \in Node : p.contacts[k] <= SSNs[k]
      BY <1>2, <2>1
    <3>2. GraphReal(ProcessDisc(vg[n], n, p.from, p.ssn, p.contacts), SSNs)
      BY <1>1, <1>2, <3>1, ProcessDiscReal
    <3> QED
      BY <2>1, <3>2
  <2>6. t.ssn \in Nat
    BY <2>3, SSNIsNat DEF TableOK, Table
  <2> HIDE DEF t, ok
  <2>7. SSNs'[n] = t.ssn
    BY <2>1, <2>3, SSNsStep
  <2>8. \A q \in sent : MsgReal(q, SSNs')
    <3>1. t.ssn <= SSNs'[n]
      BY <2>6, <2>7
    <3> QED
      BY <3>1, AnnounceReal
  <2> HIDE DEF sent
  <2>9. msgs' \subseteq msgs \cup sent
    BY <2>2, TransmitSent
  <2> QED
    BY <2>1, <2>3, <2>4, <2>5, <2>8, <2>9, RealStep
<1>8. CASE ForwardQuery(n, p)
  <2> DEFINE next == p.dst
             ok == UlnContains(uln[n], p.from) /\ UlnContains(uln[n], next)
             q == [p EXCEPT !.from = n, !.to = next, !.link = uln[n].link[next]]
             sent == {q}
  <2>1. p \in QueryMessage /\ p.src \in Node /\ p.type \in {"QueryReq", "QueryRsp"}
    BY <1>2, <1>8 DEF ForwardQuery, QueryMessage
  <2>2. /\ Rest /\ uln'[n] = uln[n] /\ vg'[n] = vg[n]
        /\ \/ rt'[n] = rt[n]
           \/ rt'[n] = [rt[n] EXCEPT ![p.src] = UpdateContact(@, p.src, p.ssn, p.src)]
    BY <1>8, <2>1 DEF ForwardQuery, WellFormed, TypeOK
  <2>3. Transmit(n, {p}, IF ok THEN sent ELSE {})
    BY <1>8 DEF ForwardQuery
  <2>4. ContactsReal(rt'[n], SSNs)
    BY <1>1, <1>2, <2>1, <2>2, UpdateContactReal
  <2>5. uln[n].ssn <= uln'[n].ssn
    BY <1>1, <2>2
  <2>6. q.type = p.type /\ q.src = p.src /\ q.ssn = p.ssn
    BY <2>1 DEF QueryMessage
  <2> HIDE DEF q, ok
  <2>7. MsgReal(q, SSNs')
    <3>1. SSNs[p.src] <= SSNs'[p.src] /\ SSNs[p.src] \in Nat /\ SSNs'[p.src] \in Nat
      BY <2>1, <2>2, <2>5, SSNsStep
    <3> QED
      BY <1>2, <2>1, <2>6, <3>1 DEF MsgReal, Owner
  <2>8. \A x \in sent : MsgReal(x, SSNs')
    BY <2>7
  <2> HIDE DEF sent
  <2>9. msgs' \subseteq msgs \cup sent
    BY <2>3, TransmitSent
  <2> QED
    BY <1>1, <2>2, <2>4, <2>5, <2>8, <2>9, RealStep
<1>9. CASE RecvQueryReq(n, p)
  <2> DEFINE known == UlnContains(uln[n], p.via)
             r == IF known
                  THEN [rt[n] EXCEPT ![p.src] = UpdateContact(@, p.src, p.ssn, FirstHop(uln[n], p.src, p.via))]
                  ELSE rt[n]
             handled == known /\ Up(n, p.link)
             ok == handled => Consistent(uln[n], r)
             q == [p EXCEPT !.type = "QueryRsp", !.from = n, !.to = p.via,
                            !.ssn = uln[n].ssn, !.src = n, !.dst = p.src]
             sent == {q}
  <2>1. p \in QueryMessage /\ p.src \in Node /\ p.via \in Node /\ p.type = "QueryReq"
    BY <1>2, <1>9 DEF RecvQueryReq, Arrives, QueryMessage
  <2>2. /\ Rest /\ uln'[n] = uln[n] /\ rt'[n] = r
        /\ vg'[n] = IF handled THEN HelloGraph(vg[n], p.src, p.ssn) ELSE vg[n]
    BY <1>9 DEF RecvQueryReq, WellFormed, TypeOK
  <2>3. Transmit(n, {p}, IF handled /\ ok THEN sent ELSE {})
    BY <1>9 DEF RecvQueryReq
  <2>4. ContactsReal(r, SSNs)
    <3>1. FirstHop(uln[n], p.src, p.via) \in Node
      BY <2>1 DEF FirstHop
    <3> QED
      BY <1>1, <1>2, <2>1, <3>1, UpdateContactReal
  <2>5. uln[n].ssn <= uln'[n].ssn
    BY <1>1, <2>2
  <2>6. q.type = "QueryRsp" /\ q.src = n /\ q.ssn = uln[n].ssn
    BY <2>1 DEF QueryMessage
  <2>7. GraphReal(vg'[n], SSNs)
    <3>1. GraphReal(HelloGraph(vg[n], p.src, p.ssn), SSNs)
      BY <1>1, <1>2, <2>1, GraphOpsReal
    <3> QED
      BY <1>1, <2>2, <3>1
  <2> HIDE DEF q, ok, handled, r
  <2>8. SSNs'[n] = uln'[n].ssn
    BY <2>2, <2>5, SSNsStep
  <2>9. \A x \in sent : MsgReal(x, SSNs')
    BY <1>1, <2>2, <2>6, <2>8 DEF MsgReal, Owner
  <2> HIDE DEF sent
  <2>10. msgs' \subseteq msgs \cup sent
    BY <2>3, TransmitSent
  <2> QED
    BY <2>2, <2>4, <2>5, <2>7, <2>9, <2>10, RealStep
<1>10. CASE RecvQueryRsp(n, p)
  <2> DEFINE hop == FirstHop(uln[n], p.src, p.via)
  <2>1. /\ p \in QueryMessage /\ p.src \in Node /\ p.via \in Node /\ p.type = "QueryRsp"
        /\ hop \in Node
    BY <1>2, <1>10 DEF RecvQueryRsp, Arrives, QueryMessage, FirstHop
  <2> HIDE DEF hop
  <2>2. /\ Rest /\ uln'[n] = uln[n] /\ msgs' \subseteq msgs
        /\ vg'[n] \in {vg[n], VgUpdateSynced(vg[n], p.src, p.ssn)}
    BY <1>10 DEF RecvQueryRsp, Drop, WellFormed, TypeOK
  <2>3. \/ rt'[n] = rt[n]
        \/ rt'[n] = [rt[n] EXCEPT ![p.src] = UpdateContact(@, p.src, p.ssn, hop)]
    BY <1>10, <2>1 DEF RecvQueryRsp, WellFormed, TypeOK, hop
  <2>4. ContactsReal(rt'[n], SSNs)
    BY <1>1, <1>2, <2>1, <2>3, UpdateContactReal
  <2>5. uln[n].ssn <= uln'[n].ssn
    BY <1>1, <2>2
  <2>6. GraphReal(vg'[n], SSNs)
    BY <1>1, <1>2, <2>1, <2>2, GraphOpsReal
  <2> QED
    BY <2>2, <2>4, <2>5, <2>6, RealQuietStep
<1> QED
  BY <1>3, <1>4, <1>5, <1>6, <1>7, <1>8, <1>9, <1>10 DEF Receive

(* Timers, except for the resync timer, keep Real.                         *)
LEMMA TimersReal ==
  ASSUME WellFormed, WellFormed', Real, NEW n \in Node,
         \/ \E l \in Link : HelloTimer(n, l) \/ InterfaceUp(n, l) \/ InterfaceDown(n, l)
         \/ \E m \in Node : \/ DiscTimerStale(n, m) \/ DiscGiveUp(n, m) \/ DiscRetry(n, m)
                            \/ QueryTimerStale(n, m) \/ QueryGiveUp(n, m) \/ QueryRetry(n, m)
  PROVE  Real'
<1> DEFINE Rest == \A k \in Node \ {n} : uln'[k] = uln[k] /\ rt'[k] = rt[k] /\ vg'[k] = vg[k]
<1>1. /\ SSNs \in [Node -> Nat] /\ SSNs[n] = uln[n].ssn /\ uln[n].ssn \in Nat
      /\ TableOK(uln[n])
      /\ rt[n] \in [Node -> Contact] /\ ContactsReal(rt[n], SSNs)
      /\ GraphOK(vg[n]) /\ vg[n] \in Graph /\ GraphReal(vg[n], SSNs)
  BY NodeReal
<1>2. ASSUME UNCHANGED nodeVars, NEW sent, msgs' \subseteq msgs \cup sent,
             \A p \in sent : MsgReal(p, SSNs)
      PROVE  Real'
  <2>1. Rest /\ uln'[n] = uln[n] /\ rt'[n] = rt[n] /\ vg'[n] = vg[n] /\ SSNs' = SSNs
    BY <1>2 DEF nodeVars, SSNs
  <2>2. uln[n].ssn <= uln'[n].ssn
    BY <1>1, <2>1
  <2> QED
    BY <1>1, <1>2, <2>1, <2>2, RealStep
<1>3. ASSUME UNCHANGED nodeVars, msgs' \subseteq msgs PROVE Real'
  <2>1. Rest /\ uln'[n] = uln[n] /\ rt'[n] = rt[n] /\ vg'[n] = vg[n]
    BY <1>3 DEF nodeVars
  <2>2. uln[n].ssn <= uln'[n].ssn
    BY <1>1, <2>1
  <2> QED
    BY <1>1, <1>3, <2>1, <2>2, RealQuietStep
<1>4. uln[n].ssn <= SSNs[n]
  BY <1>1
<1>5. ASSUME NEW l \in Link, HelloTimer(n, l) \/ InterfaceUp(n, l) PROVE Real'
  <2> DEFINE sent == HelloOn(n, l, uln[n].ssn)
  <2>1. UNCHANGED nodeVars
    BY <1>5 DEF HelloTimer, InterfaceUp, nodeVars
  <2>2. msgs' \subseteq msgs \cup sent
    <3>1. CASE HelloTimer(n, l)
      BY <3>1, TransmitSent DEF HelloTimer
    <3>2. CASE InterfaceUp(n, l)
      BY <3>2 DEF InterfaceUp, Accepted
    <3> QED
      BY <1>5, <3>1, <3>2
  <2>3. \A p \in sent : MsgReal(p, SSNs)
    BY <1>4, HelloReal
  <2> HIDE DEF sent
  <2> QED
    BY <1>2, <2>1, <2>2, <2>3
<1>6. ASSUME NEW l \in Link, InterfaceDown(n, l) PROVE Real'
  BY <1>3, <1>6 DEF InterfaceDown, nodeVars
<1>7. ASSUME NEW m \in Node, DiscTimerStale(n, m) \/ QueryTimerStale(n, m) \/ QueryGiveUp(n, m)
      PROVE  Real'
  BY <1>3, <1>7 DEF DiscTimerStale, QueryTimerStale, QueryGiveUp, nodeVars
<1>8. ASSUME NEW m \in Node, DiscGiveUp(n, m) PROVE Real'
  <2>1. /\ Rest /\ uln'[n] = uln[n] /\ rt'[n] = rt[n] /\ msgs' \subseteq msgs
        /\ vg'[n] \in {vg[n], VgRemove(vg[n], m)}
    BY <1>8 DEF DiscGiveUp, WellFormed, TypeOK
  <2>2. uln[n].ssn <= uln'[n].ssn
    BY <1>1, <2>1
  <2>3. GraphReal(VgRemove(vg[n], m), SSNs)
    BY <1>1, GraphOpsReal
  <2> QED
    BY <1>1, <2>1, <2>2, <2>3, RealQuietStep
<1>9. ASSUME NEW m \in Node, DiscRetry(n, m) PROVE Real'
  <2> DEFINE sent == {DiscMsg("DiscReq", n, m, uln[n].link[m], uln[n], rt[n], discReq[n][m].nonce)}
             ok == Consistent(uln[n], rt[n])
  <2>1. UNCHANGED nodeVars
    BY <1>9 DEF DiscRetry
  <2>2. Transmit(n, {}, IF ok THEN sent ELSE {})
    BY <1>9 DEF DiscRetry
  <2>3. \A p \in sent : MsgReal(p, SSNs)
    BY <1>1, <1>4, DiscMsgReal
  <2> HIDE DEF sent, ok
  <2>4. msgs' \subseteq msgs \cup sent
    BY <2>2, TransmitSent
  <2> QED
    BY <1>2, <2>1, <2>3, <2>4
<1>10. ASSUME NEW m \in Node, QueryRetry(n, m) PROVE Real'
  <2>1. PICK via : Transmit(n, {}, IF UlnContains(uln[n], via)
                                   THEN {QueryMsg(n, via, m, queryReq[n][m].nonce)} ELSE {})
    BY <1>10 DEF QueryRetry
  <2> DEFINE sent == {QueryMsg(n, via, m, queryReq[n][m].nonce)}
  <2>2. UNCHANGED nodeVars
    BY <1>10 DEF QueryRetry
  <2>3. \A p \in sent : MsgReal(p, SSNs)
    BY <1>4, QueryMsgReal
  <2>4. msgs' \subseteq msgs \cup sent
    BY <2>1, TransmitSent
  <2> HIDE DEF sent
  <2> QED
    BY <1>2, <2>2, <2>3, <2>4
<1> QED
  BY <1>5, <1>6, <1>7, <1>8, <1>9, <1>10

(* The resync timer keeps Real.                                            *)
LEMMA ResyncReal ==
  ASSUME WellFormed, WellFormed', Real, NEW n \in Node, Resync(n)
  PROVE  Real'
<1>1. /\ SSNs \in [Node -> Nat] /\ SSNs[n] = uln[n].ssn /\ uln[n].ssn \in Nat
      /\ rt[n] \in [Node -> Contact] /\ ContactsReal(rt[n], SSNs)
      /\ vg[n] \in Graph /\ GraphReal(vg[n], SSNs)
  BY NodeReal
<1>2. PICK D, Q, via, nonce, clean : StartSyncs(n, D, Q, via, nonce, clean)
  BY DEF Resync
<1> DEFINE ok == /\ D # {} => Consistent(uln[n], rt[n])
                 /\ \A m \in Q : UlnContains(uln[n], via[m])
                 /\ \A m \in Node : OutOfSync(vg[n], m) => vg[n].synced[m] < vg[n].observed[m]
           sent == {DiscMsg("DiscReq", n, m, uln[n].link[m], uln[n], rt[n], nonce[m]) : m \in D}
                   \cup {QueryMsg(n, via[m], m, nonce[m]) : m \in Q}
<1>3. /\ uln' = uln /\ rt' = rt /\ \A k \in Node \ {n} : vg'[k] = vg[k]
      /\ vg'[n] \in {vg[n], VgRetain(vg[n], n)}
  BY <1>2 DEF StartSyncs, WellFormed, TypeOK
<1>4. Transmit(n, {}, IF ok THEN sent ELSE {})
  BY <1>2 DEF StartSyncs
<1>5. uln[n].ssn <= SSNs[n] /\ uln[n].ssn <= uln'[n].ssn /\ SSNs' = SSNs
  BY <1>1, <1>3 DEF SSNs
<1>6. \A p \in sent : MsgReal(p, SSNs')
  BY <1>1, <1>5, DiscMsgReal, QueryMsgReal
<1> HIDE DEF sent, ok
<1>7. msgs' \subseteq msgs \cup sent
  BY <1>4, TransmitSent
<1>8. GraphReal(VgRetain(vg[n], n), SSNs)
  BY <1>1, GraphOpsReal
<1> QED
  BY <1>1, <1>3, <1>5, <1>6, <1>7, <1>8, RealStep

(* Losing a neighbour or a contact keeps Real.                             *)
LEMMA RemovalReal ==
  ASSUME WellFormed, WellFormed', Real, NEW n \in Node, NEW m \in Node,
         ContactDead(n, m) \/ \E l \in Link : NeighborDown(n, l, m)
  PROVE  Real'
<1> DEFINE Rest == \A k \in Node \ {n} : uln'[k] = uln[k] /\ rt'[k] = rt[k] /\ vg'[k] = vg[k]
<1>1. /\ SSNs \in [Node -> Nat] /\ SSNs[n] = uln[n].ssn /\ uln[n].ssn \in Nat
      /\ TableOK(uln[n])
      /\ rt[n] \in [Node -> Contact] /\ ContactsReal(rt[n], SSNs)
      /\ GraphOK(vg[n]) /\ vg[n] \in Graph /\ GraphReal(vg[n], SSNs)
  BY NodeReal
<1>2. ASSUME NEW t, Rest, uln'[n] = t, TableOK(t), uln[n].ssn <= t.ssn,
             ContactsReal(rt'[n], SSNs), GraphReal(vg'[n], SSNs),
             NEW ok, Transmit(n, {}, IF ok THEN AnnounceSSN(n, uln[n], t) ELSE {})
      PROVE  Real'
  <2> DEFINE sent == AnnounceSSN(n, uln[n], t)
  <2>1. t.ssn \in Nat /\ uln[n].ssn <= uln'[n].ssn
    BY <1>2, SSNIsNat DEF TableOK, Table
  <2>2. SSNs'[n] = t.ssn
    BY <1>2, <2>1, SSNsStep
  <2>3. t.ssn <= SSNs'[n]
    BY <2>1, <2>2
  <2>4. \A p \in sent : MsgReal(p, SSNs')
    BY <2>3, AnnounceReal
  <2>5. msgs' \subseteq msgs \cup sent
    BY <1>2, TransmitSent
  <2> HIDE DEF sent
  <2> QED
    BY <1>2, <2>1, <2>4, <2>5, RealStep
<1>3. /\ ContactsReal(InvalidateVia(rt[n], m), SSNs)
      /\ InvalidateVia(rt[n], m) \in [Node -> Contact]
  BY <1>1, InvalidateViaType DEF ContactsReal
<1>4. TableOK(UlnRemove(uln[n], m))
  BY <1>1, UlnRemoveOK
<1>5. ASSUME ContactDead(n, m) PROVE Real'
  <2> DEFINE t == UlnRemove(uln[n], m)
             ok == ~UlnRemovePanics(uln[n], m)
             r == IF rt[n][m].via = m THEN InvalidateVia(rt[n], m) ELSE rt[n]
  <2>1. /\ Rest /\ uln'[n] = t /\ vg'[n] = vg[n] /\ rt'[n] = [r EXCEPT ![m] = NoContact(m)]
    BY <1>5 DEF ContactDead, WellFormed, TypeOK
  <2>2. Transmit(n, {}, IF ok THEN AnnounceSSN(n, uln[n], t) ELSE {})
    BY <1>5 DEF ContactDead
  <2>3. r \in [Node -> Contact] /\ ContactsReal(r, SSNs)
    BY <1>1, <1>3
  <2>4. uln[n].ssn <= t.ssn
    <3>1. t.ssn \in {uln[n].ssn, NextSSN(uln[n].ssn)}
      BY <1>1 DEF UlnRemove, TableOK, Table
    <3>2. NextSSN(uln[n].ssn) \in {uln[n].ssn, uln[n].ssn + 1}
      BY DEF NextSSN
    <3> QED
      BY <1>1, <3>1, <3>2
  <2> HIDE DEF t, ok, r
  <2>5. ContactsReal(rt'[n], SSNs)
    <3>1. SSNs[m] \in Nat /\ NoContact(m).ssn = 0
      BY <1>1 DEF NoContact
    <3>2. 0 <= SSNs[m]
      BY <3>1
    <3> QED
      BY <2>1, <2>3, <3>1, <3>2 DEF ContactsReal
  <2> QED
    BY <1>1, <1>2, <1>4, <2>1, <2>2, <2>4, <2>5 DEF t
<1>6. ASSUME NEW l \in Link, NeighborDown(n, l, m) PROVE Real'
  <2> DEFINE hit == UlnMapped(uln[n], m, l)
             t == IF hit THEN UlnRemove(uln[n], m) ELSE uln[n]
             ok == hit => ~UlnRemovePanics(uln[n], m)
             g == IF hit THEN VgRemoveEdge(vg[n], n, m) ELSE vg[n]
  <2>1. /\ Rest /\ uln'[n] = t /\ vg'[n] = VgRetain(g, n)
        /\ rt'[n] \in {rt[n], InvalidateVia(rt[n], m)}
    BY <1>6 DEF NeighborDown, WellFormed, TypeOK
  <2>2. Transmit(n, {}, IF ok THEN AnnounceSSN(n, uln[n], t) ELSE {})
    BY <1>6 DEF NeighborDown
  <2>3. TableOK(t) /\ uln[n].ssn <= t.ssn
    <3>1. uln[n].ssn <= UlnRemove(uln[n], m).ssn /\ uln[n].ssn <= uln[n].ssn
      BY <1>1, SSNGrows
    <3> QED
      BY <1>1, <1>4, <3>1
  <2>4. g \in Graph /\ GraphReal(g, SSNs)
    BY <1>1, GraphOpsReal, VgRemoveEdgeOK DEF GraphOK
  <2> HIDE DEF hit, t, ok, g
  <2>5. GraphReal(VgRetain(g, n), SSNs)
    BY <1>1, <2>4, GraphOpsReal
  <2> QED
    BY <1>1, <1>2, <1>3, <2>1, <2>2, <2>3, <2>5
<1> QED
  BY <1>5, <1>6

(* As long as no node has restarted, Real holds.                           *)
RealUnlessRestarted ==
  budget.restarts <= MaxRestarts /\ (budget.restarts = MaxRestarts => Real)

(* Every step keeps Real, unless it is a restart.                          *)
LEMMA NextReal == WellFormed /\ RealUnlessRestarted /\ [Next]_vars => RealUnlessRestarted'
<1> SUFFICES ASSUME WellFormed, RealUnlessRestarted, [Next]_vars PROVE RealUnlessRestarted'
  OBVIOUS
<1>1. WellFormed'
  BY NextWellFormed
<1>2. budget.restarts \in Nat /\ MaxRestarts \in Nat /\ budget.restarts <= MaxRestarts
  BY ConfigAssumption DEF WellFormed, TypeOK, RealUnlessRestarted
<1>3. ASSUME budget'.restarts = budget.restarts, Real => Real' PROVE RealUnlessRestarted'
  BY <1>3 DEF RealUnlessRestarted
<1>4. ASSUME NEW p \in msgs, Lose(p) \/ Receive(p.to, p) PROVE RealUnlessRestarted'
  <2>1. p.to \in Node
    BY MessageFields DEF WellFormed, TypeOK
  <2>2. budget' = budget
    BY <1>4 DEF Lose, Receive, RecvHelloSilently, AnswerHello, RecvDiscReq, RecvDiscRsp,
                RecvOnDownInterface, ForwardQuery, RecvQueryReq, RecvQueryRsp
  <2>3. ASSUME Lose(p), Real PROVE Real'
    BY <2>3 DEF Lose, Drop, nodeVars, Real, SSNs, GraphReal, ContactsReal, MsgReal, Owner
  <2> QED
    BY <1>1, <1>3, <1>4, <2>1, <2>2, <2>3, ReceiveReal
<1>5. ASSUME NEW n \in Node, Timeout(n) PROVE RealUnlessRestarted'
  <2>1. budget' = budget
    <3>1. ASSUME Resync(n) PROVE budget' = budget
      <4>1. PICK D, Q, via, nonce, clean : StartSyncs(n, D, Q, via, nonce, clean)
        BY <3>1 DEF Resync
      <4> QED
        BY <4>1 DEF StartSyncs
    <3> QED
      BY <1>5, <3>1 DEF Timeout, HelloTimer, DiscTimerStale, DiscGiveUp, DiscRetry,
                        QueryTimerStale, QueryGiveUp, QueryRetry
  <2> QED
    BY <1>1, <1>3, <1>5, <2>1, TimersReal, ResyncReal DEF Timeout
<1>6. ASSUME NEW n \in Node, UnderlayUpdate(n) PROVE RealUnlessRestarted'
  <2>1. budget'.restarts = budget.restarts
    BY <1>6 DEF UnderlayUpdate, InterfaceUp, InterfaceDown, NeighborDown, WellFormed, TypeOK
  <2> QED
    BY <1>1, <1>3, <1>6, <2>1, TimersReal, RemovalReal DEF UnderlayUpdate
<1>7. ASSUME NEW n \in Node, NEW m \in Node, ContactDead(n, m) PROVE RealUnlessRestarted'
  <2>1. budget' = budget
    BY <1>7 DEF ContactDead
  <2> QED
    BY <1>1, <1>3, <1>7, <2>1, RemovalReal
<1>8. ASSUME NEW n \in Node, Restart(n) PROVE RealUnlessRestarted'
  <2>1. budget'.restarts = budget.restarts - 1
    BY <1>8 DEF Restart, WellFormed, TypeOK
  <2> QED
    BY <1>2, <2>1 DEF RealUnlessRestarted
<1>9. CASE UNCHANGED vars
  BY <1>3, <1>9 DEF vars, Real, SSNs, GraphReal, ContactsReal, MsgReal, Owner
<1> QED
  BY <1>4, <1>5, <1>6, <1>7, <1>8, <1>9 DEF Next

(* Initially every SSN is known to its owner only.                         *)
LEMMA InitReal == Init => RealUnlessRestarted
<1> SUFFICES ASSUME Init PROVE RealUnlessRestarted
  OBVIOUS
<1>1. \A n \in Node : uln[n].ssn = 1
  BY DEF Init, NewTable
<1>2. ASSUME NEW n \in Node PROVE GraphReal(vg[n], SSNs) /\ ContactsReal(rt[n], SSNs)
  <2>1. \A k \in Node : vg[n].observed[k] = 0 /\ rt[n][k].ssn = 0
    BY DEF Init, NewGraph, NoContact
  <2>2. \A k \in Node : SSNs[k] = 1
    BY <1>1 DEF SSNs
  <2> QED
    BY <2>1, <2>2 DEF GraphReal, ContactsReal
<1>3. budget.restarts = MaxRestarts /\ msgs = {} /\ MaxRestarts \in Nat
  BY ConfigAssumption DEF Init
<1> QED
  BY <1>2, <1>3 DEF RealUnlessRestarted, Real

(* As long as no node has restarted, no vicinity graph holds an SSN its    *)
(* owner has not reached, in any network and however old, late or indirect *)
(* the information is (update_observed_ssn and process_ulndisc_reqrsp are  *)
(* only given what a uln_table once announced).                            *)
THEOREM KnowledgeAlwaysReal == Spec => [](budget.restarts = MaxRestarts => KnowledgeIsReal)
<1>1. Init => RealUnlessRestarted
  BY InitReal
<1>2. WellFormed /\ RealUnlessRestarted /\ [Next]_vars => RealUnlessRestarted'
  BY NextReal
<1>3. RealUnlessRestarted => (budget.restarts = MaxRestarts => KnowledgeIsReal)
  BY DEF RealUnlessRestarted, Real, GraphReal, SSNs, KnowledgeIsReal
<1> QED
  BY <1>1, <1>2, <1>3, WellFormedAlways, PTL DEF Spec

-----------------------------------------------------------------------------
(* Synchronised neighbourhoods *)

(* SyncedMeansAccurate fails where two neighbours of a node are neighbours *)
(* of each other: giving one of them up, the node forgets its edge to the  *)
(* other one as well.  It is proved for networks without such triangles.   *)

Adj(x, y) == x # y /\ \E l \in Link : x \in Attached[l] /\ y \in Attached[l]

TriangleFree == \A x, y, z \in Node : ~(Adj(x, y) /\ Adj(y, z) /\ Adj(x, z))

(* What a node holds in its tables only connects nodes that share a link,  *)
(* and a contact that shares a link with the node is reached directly.     *)
UpLinked(n, iv) == \A l \in Link : iv[l] # 0 => n \in Attached[l]
TableLinked(n, t) == \A m \in Node : UlnContains(t, m) => Adj(n, m)
ReqLinked(n, q) == \A m \in Node : q[m].nonce # 0 => Adj(n, m)
GraphLinked(g) == \A x, y \in Node : {x, y} \in g.edges => Adj(x, y)
ContactsLinked(n, r) == \A m \in Node : r[m].ssn # 0 /\ Adj(n, m) => r[m].via = m

MsgLinked(p) ==
  /\ p.type \in {"Hello", "DiscReq", "DiscRsp"} => Adj(p.from, p.to)
  /\ p.type \in {"DiscReq", "DiscRsp"} => \A k \in Node : p.contacts[k] # 0 => Adj(p.from, k)
  /\ p.type \in {"QueryReq", "QueryRsp"} => Adj(p.src, p.via) /\ Adj(p.via, p.dst)

Linked ==
  /\ \A n \in Node : /\ UpLinked(n, interval[n]) /\ TableLinked(n, uln[n])
                     /\ ReqLinked(n, discReq[n]) /\ GraphLinked(vg[n])
                     /\ ContactsLinked(n, rt[n])
  /\ \A p \in msgs : MsgLinked(p)

(* A list of neighbours that carries the SSN its sender has now, and the   *)
(* edges of a direct neighbour that is synchronised with the SSN it has    *)
(* now, are the neighbours it has confirmed; u are the tables, A the nodes *)
(* that are alive.                                                         *)
MsgAccurate(p, u, A) ==
  p.type \in {"DiscReq", "DiscRsp"} /\ p.from \in A /\ p.ssn = u[p.from].ssn
    => \A k \in Node : p.contacts[k] # 0 <=> k \in BidirectionalSet(u[p.from])

GraphAccurate(g, n, u, A) ==
  \A m \in A \ {n} : {n, m} \in g.edges /\ g.synced[m] = u[m].ssn
    => \A k \in Node \ {n} : {m, k} \in g.edges <=> k \in BidirectionalSet(u[m])

Accurate ==
  /\ \A p \in msgs : MsgAccurate(p, uln, alive)
  /\ \A n \in Node : GraphAccurate(vg[n], n, uln, alive)

(* Sharing a link is symmetric.                                            *)
LEMMA AdjSym == \A x, y : Adj(x, y) <=> Adj(y, x)
BY DEF Adj

(* Neighbours of a node are not neighbours of each other.                  *)
LEMMA NoTriangle ==
  ASSUME TriangleFree, NEW x \in Node, NEW y \in Node, NEW z \in Node, Adj(x, y), Adj(x, z)
  PROVE  ~Adj(y, z) /\ ~Adj(z, y)
BY AdjSym DEF TriangleFree

(* Operations that leave edges alone, or take some away, keep them between *)
(* nodes that share a link.                                                *)
LEMMA FewerEdges ==
  ASSUME NEW g, NEW h, GraphLinked(g), h.edges \subseteq g.edges
  PROVE  GraphLinked(h)
BY DEF GraphLinked

(* retain_vicinity keeps all edges of direct neighbours.                   *)
LEMMA RetainAccurate ==
  ASSUME NEW g \in Graph, NEW n \in Node, NEW u, NEW A \in SUBSET Node,
         GraphLinked(g), GraphAccurate(g, n, u, A)
  PROVE  GraphLinked(VgRetain(g, n)) /\ GraphAccurate(VgRetain(g, n), n, u, A)
<1> DEFINE h == VgRetain(g, n)
           keep == Vicinity(g, n) \cup {n}
<1>1. h.edges = {e \in g.edges : e \subseteq keep}
  BY DEF VgRetain
<1>2. \A m \in Node : h.synced[m] = IF m \in keep THEN g.synced[m] ELSE 0
  BY DEF VgRetain
<1> HIDE DEF h
<1>3. ASSUME NEW m \in A \ {n}, {n, m} \in h.edges, h.synced[m] = u[m].ssn,
             NEW k \in Node \ {n}
      PROVE  {m, k} \in h.edges <=> k \in BidirectionalSet(u[m])
  <2>1. {n, m} \in g.edges /\ m \in keep /\ m \in Node
    BY <1>1, <1>3
  <2>2. g.synced[m] = u[m].ssn
    BY <1>2, <1>3, <2>1
  <2>3. {m, k} \in g.edges <=> k \in BidirectionalSet(u[m])
    BY <1>3, <2>1, <2>2 DEF GraphAccurate
  <2>4. ASSUME {m, k} \in g.edges PROVE k \in keep
    <3>1. m \in Neighbors(g, n) /\ k \in Neighbors(g, m)
      BY <2>1, <2>4 DEF Neighbors
    <3> QED
      BY <3>1 DEF Vicinity
  <2>5. {m, k} \in g.edges => {m, k} \subseteq keep
    BY <2>1, <2>4
  <2> QED
    BY <1>1, <2>3, <2>5
<1>4. GraphAccurate(h, n, u, A)
  BY <1>3 DEF GraphAccurate
<1>5. GraphLinked(h)
  BY <1>1, FewerEdges
<1> QED
  BY <1>4, <1>5 DEF h

(* Observing an SSN changes no edge.                                       *)
LEMMA HelloAccurate ==
  ASSUME NEW g \in Graph, NEW n \in Node, NEW u, NEW A \in SUBSET Node,
         GraphLinked(g), GraphAccurate(g, n, u, A), NEW m \in Node, NEW s
  PROVE  GraphLinked(HelloGraph(g, m, s)) /\ GraphAccurate(HelloGraph(g, m, s), n, u, A)
<1>1. HelloGraph(g, m, s).edges = g.edges /\ HelloGraph(g, m, s).synced = g.synced
  BY DEF HelloGraph, VgUpdateObserved, Graph
<1> QED
  BY <1>1, FewerEdges DEF GraphAccurate

(* The edge to a lost neighbour is none of another neighbour.              *)
LEMMA RemoveEdgeAccurate ==
  ASSUME NEW g \in Graph, NEW n \in Node, NEW u, NEW A \in SUBSET Node,
         GraphLinked(g), GraphAccurate(g, n, u, A), NEW m \in Node
  PROVE  /\ GraphLinked(VgRemoveEdge(g, n, m))
         /\ GraphAccurate(VgRemoveEdge(g, n, m), n, u, A)
<1> DEFINE h == VgRemoveEdge(g, n, m)
<1>1. h.edges = g.edges \ {{n, m}} /\ h.synced = g.synced
  BY DEF VgRemoveEdge, Graph
<1> HIDE DEF h
<1>2. ASSUME NEW x \in A \ {n}, NEW k \in Node \ {n} PROVE {x, k} # {n, m}
  OBVIOUS
<1>3. GraphAccurate(h, n, u, A)
  BY <1>1, <1>2 DEF GraphAccurate
<1> QED
  BY <1>1, <1>3, FewerEdges DEF h

(* A neighbour that is given up was no neighbour of another one.           *)
LEMMA RemoveAccurate ==
  ASSUME TriangleFree, NEW g \in Graph, NEW n \in Node, NEW u, NEW A \in SUBSET Node,
         GraphLinked(g), GraphAccurate(g, n, u, A), NEW m \in Node, Adj(n, m)
  PROVE  GraphLinked(VgRemove(g, m)) /\ GraphAccurate(VgRemove(g, m), n, u, A)
<1> DEFINE h == VgRemove(g, m)
<1>1. h.edges = {e \in g.edges : m \notin e} /\ h.synced = [g.synced EXCEPT ![m] = 0]
  BY DEF VgRemove, Graph
<1>2. g.synced \in [Node -> Nat]
  BY DEF Graph
<1> HIDE DEF h
<1>3. ASSUME NEW x \in A \ {n}, {n, x} \in h.edges, h.synced[x] = u[x].ssn,
             NEW k \in Node \ {n}
      PROVE  {x, k} \in h.edges <=> k \in BidirectionalSet(u[x])
  <2>1. {n, x} \in g.edges /\ x # m /\ x \in Node
    BY <1>1, <1>3
  <2>2. g.synced[x] = u[x].ssn
    BY <1>1, <1>2, <1>3, <2>1
  <2>3. {x, k} \in g.edges <=> k \in BidirectionalSet(u[x])
    BY <1>3, <2>1, <2>2 DEF GraphAccurate
  <2>4. Adj(n, x) /\ ~Adj(x, m)
    BY <2>1, NoTriangle DEF GraphLinked
  <2>5. {x, k} \in g.edges => k # m
    BY <2>1, <2>4 DEF GraphLinked
  <2> QED
    BY <1>1, <2>1, <2>3, <2>5
<1>4. GraphAccurate(h, n, u, A)
  BY <1>3 DEF GraphAccurate
<1> QED
  BY <1>1, <1>4, FewerEdges DEF h

(* A node two hops away may count as synchronised: it is no neighbour.     *)
LEMMA UpdateSyncedAccurate ==
  ASSUME NEW g \in Graph, NEW n \in Node, NEW u, NEW A \in SUBSET Node,
         GraphLinked(g), GraphAccurate(g, n, u, A), NEW m \in Node, ~Adj(n, m), NEW s
  PROVE  GraphLinked(VgUpdateSynced(g, m, s)) /\ GraphAccurate(VgUpdateSynced(g, m, s), n, u, A)
<1> DEFINE h == VgUpdateSynced(g, m, s)
<1>1. h.edges = g.edges /\ h.synced = [g.synced EXCEPT ![m] = s] /\ g.synced \in [Node -> Nat]
  BY DEF VgUpdateSynced, Graph
<1> HIDE DEF h
<1>2. {n, m} \notin g.edges
  BY DEF GraphLinked
<1>3. ASSUME NEW x \in A \ {n}, {n, x} \in h.edges, h.synced[x] = u[x].ssn
      PROVE  {n, x} \in g.edges /\ g.synced[x] = u[x].ssn
  BY <1>1, <1>2, <1>3
<1>4. GraphAccurate(h, n, u, A)
  BY <1>1, <1>3 DEF GraphAccurate
<1> QED
  BY <1>1, <1>4, FewerEdges DEF h

(* process_ulndisc_reqrsp: the edges of the sender become those of its     *)
(* list, which is the present one if it carries its present SSN; no edge   *)
(* of another neighbour is touched.                                        *)
LEMMA ProcessDiscAccurate ==
  ASSUME TriangleFree, NEW g, GraphOK(g), NEW n \in Node, NEW u, NEW A \in SUBSET Node,
         GraphLinked(g), GraphAccurate(g, n, u, A),
         NEW src \in Node, NEW s \in Nat, NEW contacts \in [Node -> Nat], Adj(n, src),
         \A k \in Node : contacts[k] # 0 => Adj(src, k),
         src \in A /\ s = u[src].ssn
           => \A k \in Node : contacts[k] # 0 <=> k \in BidirectionalSet(u[src])
  PROVE  /\ GraphLinked(ProcessDisc(g, n, src, s, contacts))
         /\ GraphAccurate(ProcessDisc(g, n, src, s, contacts), n, u, A)
<1> DEFINE listed  == {k \in Node \ {n} : contacts[k] # 0}
           removed == (Neighbors(g, src) \ {n}) \ listed
           synced  == VgUpdateSynced(VgInsert(g, src, n, s), src, s)
           merged  == [synced EXCEPT
                         !.observed = [k \in Node |-> IF k \in listed THEN Larger(@[k], contacts[k])
                                                                      ELSE @[k]],
                         !.edges = (@ \cup {{src, k} : k \in listed}) \ {{src, k} : k \in removed}]
<1>1. GraphOK(synced)
  BY VgInsertOK, VgUpdateSyncedOK
<1>2. synced.edges = g.edges \cup {{src, n}} /\ synced.synced = [g.synced EXCEPT ![src] = s]
  BY DEF VgUpdateSynced, VgInsert, GraphOK, Graph
<1>3. ProcessDisc(g, n, src, s, contacts) = IF removed = {} THEN merged ELSE VgRetain(merged, n)
  BY DEF ProcessDisc
<1>4. g.synced \in [Node -> Nat] /\ g.edges \in SUBSET SUBSET Node
  BY DEF GraphOK, Graph
<1>5. removed = {k \in Node \ {n} : {src, k} \in g.edges /\ contacts[k] = 0}
  BY DEF Neighbors
<1> HIDE DEF synced, removed
<1>6. /\ merged.edges = (synced.edges \cup {{src, k} : k \in listed}) \ {{src, k} : k \in removed}
      /\ merged.synced = synced.synced /\ merged \in Graph
  <2> DEFINE obs == [k \in Node |-> IF k \in listed THEN Larger(synced.observed[k], contacts[k])
                                                    ELSE synced.observed[k]]
             edges == (synced.edges \cup {{src, k} : k \in listed}) \ {{src, k} : k \in removed}
  <2>1. synced \in Graph
    BY <1>1 DEF GraphOK
  <2>2. obs \in [Node -> Nat]
    BY <2>1, LargerIsMax DEF Graph
  <2>3. edges \in SUBSET SUBSET Node
    BY <2>1, <1>5 DEF Graph
  <2>4. merged = [synced EXCEPT !.observed = obs, !.edges = edges]
    BY <2>1 DEF Graph
  <2> HIDE DEF obs, edges, merged
  <2> QED
    BY <2>1, <2>2, <2>3, <2>4 DEF Graph, edges
<1> HIDE DEF merged
<1>7. n # src /\ Adj(src, n)
  BY AdjSym DEF Adj
<1>8. /\ \A e : src \notin e => (e \in merged.edges <=> e \in g.edges)
      /\ \A e \in merged.edges : e \in g.edges \/ \E k \in listed \cup {n} : e = {src, k}
  BY <1>2, <1>6
<1>9. GraphLinked(merged)
  <2> SUFFICES ASSUME NEW x \in Node, NEW y \in Node, {x, y} \in merged.edges PROVE Adj(x, y)
    BY DEF GraphLinked
  <2>1. CASE {x, y} \in g.edges
    BY <2>1 DEF GraphLinked
  <2>2. CASE \E k \in listed \cup {n} : {x, y} = {src, k}
    <3>1. PICK k \in listed \cup {n} : {x, y} = {src, k}
      BY <2>2
    <3>2. Adj(src, k)
      BY <1>7
    <3>3. (x = src /\ y = k) \/ (x = k /\ y = src)
      BY <3>1
    <3> QED
      BY <3>2, <3>3, AdjSym
  <2> QED
    BY <1>8, <2>1, <2>2
<1>10. ASSUME NEW m \in A \ {n}, {n, m} \in merged.edges, merged.synced[m] = u[m].ssn,
              NEW k \in Node \ {n}
       PROVE  {m, k} \in merged.edges <=> k \in BidirectionalSet(u[m])
  <2>1. m \in Node
    OBVIOUS
  <2>2. CASE m = src
    <3>1. src \in A /\ s = u[src].ssn
      BY <1>2, <1>4, <1>6, <1>10, <2>2
    <3>2. contacts[k] # 0 <=> k \in BidirectionalSet(u[src])
      BY <3>1
    <3>3. \A j : {src, k} = {src, j} => j = k
      OBVIOUS
    <3>4. {src, k} \in merged.edges <=>
            /\ {src, k} \in g.edges \/ k \in listed
            /\ k \notin removed
      BY <1>2, <1>6, <3>3
    <3>5. {src, k} \in merged.edges <=> contacts[k] # 0
      BY <1>5, <3>4
    <3> QED
      BY <2>2, <3>2, <3>5
  <2>3. CASE m # src
    <3>1. src \notin {n, m}
      BY <1>7, <2>3
    <3>2. {n, m} \in g.edges
      BY <1>8, <1>10, <3>1
    <3>3. g.synced[m] = u[m].ssn
      BY <1>2, <1>4, <1>6, <1>10, <2>1, <2>3
    <3>4. {m, k} \in g.edges <=> k \in BidirectionalSet(u[m])
      BY <1>10, <3>2, <3>3 DEF GraphAccurate
    <3>5. Adj(n, m) /\ ~Adj(m, src)
      BY <2>1, <3>2, NoTriangle DEF GraphLinked
    <3>6. {m, k} \in merged.edges <=> {m, k} \in g.edges
      <4>1. CASE k = src
        BY <4>1, <1>9, <2>1, <3>5 DEF GraphLinked
      <4>2. CASE k # src
        <5>1. src \notin {m, k}
          BY <2>3, <4>2
        <5> QED
          BY <1>8, <5>1
      <4> QED
        BY <4>1, <4>2
    <3> QED
      BY <3>4, <3>6
  <2> QED
    BY <2>2, <2>3
<1>11. GraphAccurate(merged, n, u, A)
  BY <1>10 DEF GraphAccurate
<1>12. GraphLinked(VgRetain(merged, n)) /\ GraphAccurate(VgRetain(merged, n), n, u, A)
  BY <1>6, <1>9, <1>11, RetainAccurate
<1> QED
  BY <1>3, <1>9, <1>11, <1>12

(* The operations on a table map only nodes that share a link with n.      *)
LEMMA TablesLinked ==
  ASSUME NEW n \in Node, NEW t, TableOK(t), TableLinked(n, t), NEW m \in Node, NEW l \in Link
  PROVE  /\ Adj(n, m) => TableLinked(n, UlnInsert(t, m, l)) /\ TableLinked(n, HelloTable(t, m, l))
         /\ TableLinked(n, UlnConfirm(t, m, l))
         /\ TableLinked(n, UlnRemove(t, m))
<1>1. t.state \in [Node -> ULNState] /\ t \in Table
  BY DEF TableOK, Table
<1>2. ASSUME Adj(n, m)
      PROVE  TableLinked(n, UlnInsert(t, m, l)) /\ TableLinked(n, HelloTable(t, m, l))
  <2>1. \A k \in Node \ {m} : UlnInsert(t, m, l).state[k] = t.state[k]
    BY <1>1 DEF UlnInsert, Table
  <2>2. TableLinked(n, UlnInsert(t, m, l))
    BY <1>2, <2>1 DEF TableLinked, UlnContains
  <2> QED
    BY <2>2 DEF HelloTable
<1>3. TableLinked(n, UlnConfirm(t, m, l))
  <2>1. CASE UlnMapped(t, m, l) /\ t.state[m] = "Tentative"
    <3>1. UlnConfirm(t, m, l).state = [t.state EXCEPT ![m] = "Bidirectional"]
      BY <1>1, <2>1 DEF UlnConfirm, Table
    <3>2. Adj(n, m)
      BY <2>1 DEF TableLinked, UlnMapped
    <3> QED
      BY <1>1, <3>1, <3>2 DEF TableLinked, UlnContains
  <2>2. CASE ~(UlnMapped(t, m, l) /\ t.state[m] = "Tentative")
    BY <2>2 DEF UlnConfirm
  <2> QED
    BY <2>1, <2>2
<1>4. TableLinked(n, UlnRemove(t, m))
  <2>1. UlnRemove(t, m).state = [t.state EXCEPT ![m] = "Vacant"]
    BY <1>1 DEF UlnRemove, Table
  <2> QED
    BY <1>1, <2>1 DEF TableLinked, UlnContains
<1> QED
  BY <1>2, <1>3, <1>4

(* A contact keeps its direct path, or takes one from a message that came  *)
(* directly; nodes two hops away share no link with n.                     *)
LEMMA UpdateContactLinked ==
  ASSUME NEW n \in Node, NEW r \in [Node -> Contact], ContactsLinked(n, r), NEW m \in Node,
         NEW s, NEW via \in Node, via = m \/ ~Adj(n, m)
  PROVE  ContactsLinked(n, [r EXCEPT ![m] = UpdateContact(@, m, s, via)])
<1> DEFINE c == UpdateContact(r[m], m, s, via)
<1>1. c.via = via \/ c = r[m]
  BY DEF UpdateContact, Contact
<1>2. c.ssn # 0 /\ Adj(n, m) => c.via = m
  BY <1>1 DEF ContactsLinked
<1> HIDE DEF c
<1>3. [r EXCEPT ![m] = c][m] = c /\ \A k \in Node \ {m} : [r EXCEPT ![m] = c][k] = r[k]
  OBVIOUS
<1>4. ContactsLinked(n, [r EXCEPT ![m] = c])
  BY <1>2, <1>3 DEF ContactsLinked
<1> QED
  BY <1>4 DEF c

(* Invalidating contacts leaves their paths.                               *)
LEMMA InvalidateViaLinked ==
  ASSUME NEW n \in Node, NEW r \in [Node -> Contact], ContactsLinked(n, r), NEW m
  PROVE  ContactsLinked(n, InvalidateVia(r, m))
<1>1. \A k \in Node : InvalidateVia(r, m)[k].ssn = r[k].ssn /\ InvalidateVia(r, m)[k].via = r[k].via
  BY DEF InvalidateVia, Contact
<1> QED
  BY <1>1 DEF ContactsLinked

(* A message that carries no list of neighbours claims nothing.            *)
Sound(p, u, A) == MsgLinked(p) /\ MsgAccurate(p, u, A)

(* ULNHellos reach nodes on the sender's links.                            *)
LEMMA HelloSound ==
  ASSUME NEW n \in Node, NEW u, NEW A
  PROVE  /\ \A s : \A l \in Link : n \in Attached[l] => \A p \in HelloOn(n, l, s) : Sound(p, u, A)
         /\ \A old, new : \A p \in AnnounceSSN(n, old, new) : Sound(p, u, A)
<1>1. ASSUME NEW l \in Link, NEW s, n \in Attached[l], NEW p \in HelloOn(n, l, s)
      PROVE  Sound(p, u, A)
  <2>1. PICK m \in Attached[l] \ {n} :
          p = [type |-> "Hello", from |-> n, to |-> m, link |-> l, ssn |-> s]
    BY DEF HelloOn
  <2>2. p.type = "Hello" /\ p.from = n /\ p.to = m
    BY <2>1
  <2>3. Adj(n, m)
    BY <1>1, <2>1 DEF Adj
  <2> QED
    BY <2>2, <2>3 DEF Sound, MsgLinked, MsgAccurate
<1>2. ASSUME NEW old, NEW new, NEW p \in AnnounceSSN(n, old, new) PROVE Sound(p, u, A)
  <2>1. p \in BroadcastHello(n, new.ssn)
    BY <1>2 DEF AnnounceSSN
  <2>2. PICK l \in Link : n \in Attached[l] /\ p \in HelloOn(n, l, new.ssn)
    BY <2>1 DEF BroadcastHello
  <2> QED
    BY <1>1, <2>2
<1> QED
  BY <1>1, <1>2

(* ULNDiscReq and ULNDiscRsp list the confirmed neighbours: each of them   *)
(* has a contact, or nothing is sent, and its path is direct.              *)
LEMMA DiscMsgSound ==
  ASSUME NEW n \in Node, NEW t, TableOK(t), TableLinked(n, t),
         NEW r \in [Node -> Contact], ContactsLinked(n, r), Consistent(t, r),
         NEW type \in {"DiscReq", "DiscRsp"}, NEW m, Adj(n, m), NEW l, NEW nonce,
         NEW u, u[n] = t, NEW A
  PROVE  Sound(DiscMsg(type, n, m, l, t, r, nonce), u, A)
<1> DEFINE p == DiscMsg(type, n, m, l, t, r, nonce)
<1>1. p.type = type /\ p.from = n /\ p.to = m /\ p.contacts = CollectUnderlayNeighbors(t, r)
  BY DEF DiscMsg
<1> HIDE DEF p
<1>2. ASSUME NEW k \in Node
      PROVE  /\ p.contacts[k] # 0 <=> k \in BidirectionalSet(t)
             /\ p.contacts[k] # 0 => Adj(n, k)
  <2>1. p.contacts[k] = IF k \in BidirectionalSet(t) /\ r[k].via = k THEN r[k].ssn ELSE 0
    BY <1>1 DEF CollectUnderlayNeighbors
  <2>2. ASSUME k \in BidirectionalSet(t) PROVE r[k].ssn # 0 /\ r[k].via = k /\ Adj(n, k)
    <3>1. UlnContains(t, k) /\ r[k].ssn # 0
      BY <2>2 DEF BidirectionalSet, UlnContains, Consistent
    <3>2. Adj(n, k)
      BY <3>1 DEF TableLinked
    <3> QED
      BY <3>1, <3>2 DEF ContactsLinked
  <2> QED
    BY <2>1, <2>2
<1>3. Sound(p, u, A)
  BY <1>1, <1>2 DEF Sound, MsgLinked, MsgAccurate
<1> QED
  BY <1>3 DEF p

(* A QueryRouteReq goes over two edges of the graph.                       *)
LEMMA QueryMsgSound ==
  ASSUME NEW n \in Node, NEW m \in Node, GraphLinked(vg[n]), NEW via \in TwoHopVias(vg[n], n, m),
         NEW nonce, NEW u, NEW A
  PROVE  Sound(QueryMsg(n, via, m, nonce), u, A)
<1> DEFINE p == QueryMsg(n, via, m, nonce)
<1>1. p.type = "QueryReq" /\ p.src = n /\ p.via = via /\ p.dst = m
  BY DEF QueryMsg
<1> HIDE DEF p
<1>2. via \in Node /\ {n, via} \in vg[n].edges /\ {m, via} \in vg[n].edges
  BY DEF TwoHopVias, Neighbors
<1>3. Adj(n, via) /\ Adj(via, m)
  BY <1>2, AdjSym DEF GraphLinked
<1> QED
  BY <1>1, <1>3 DEF Sound, MsgLinked, MsgAccurate, p

(* Knowledge of node m's neighbourhood that was right, and not newer than  *)
(* its SSN, is right after a step, or is outdated then.                    *)
LEMMA StaysCurrent ==
  ASSUME NEW t, NEW v, TableOK(t), TableOK(v), t.ssn <= v.ssn, Bumped(t, v),
         NEW s \in Nat, s <= t.ssn, s = v.ssn
  PROVE  s = t.ssn /\ BidirectionalSet(v) = BidirectionalSet(t)
<1>1. t.ssn \in Nat /\ v.ssn \in Nat
  BY SSNIsNat DEF TableOK, Table
<1> QED
  BY <1>1 DEF Bumped

(* Nothing else changes when node n takes a step.                          *)
Elsewhere(n) ==
  \A k \in Node \ {n} : /\ uln'[k] = uln[k] /\ rt'[k] = rt[k] /\ vg'[k] = vg[k]
                        /\ interval'[k] = interval[k] /\ discReq'[k] = discReq[k]

(* A step of node n keeps both invariants if what n holds afterwards, and  *)
(* what it sends, satisfies them.                                          *)
LEMMA AccurateStep ==
  ASSUME WellFormed, WellFormed', Real, Linked, Accurate, NEW n \in Node, Elsewhere(n),
         alive' \subseteq alive, AllBumped, uln[n].ssn <= uln'[n].ssn,
         UpLinked(n, interval'[n]), TableLinked(n, uln'[n]), ReqLinked(n, discReq'[n]),
         ContactsLinked(n, rt'[n]), GraphLinked(vg'[n]), GraphAccurate(vg'[n], n, uln, alive),
         NEW sent, msgs' \subseteq msgs \cup sent, \A p \in sent : Sound(p, uln', alive')
  PROVE  Linked' /\ Accurate'
<1>1. ASSUME NEW k \in Node
      PROVE  /\ UpLinked(k, interval'[k]) /\ TableLinked(k, uln'[k]) /\ ReqLinked(k, discReq'[k])
             /\ GraphLinked(vg'[k]) /\ ContactsLinked(k, rt'[k])
  BY DEF Linked, Elsewhere
<1>2. ASSUME NEW p \in msgs' PROVE MsgLinked(p)
  BY DEF Linked, Sound
<1>3. Linked'
  BY <1>1, <1>2 DEF Linked, UpLinked, TableLinked, ReqLinked, GraphLinked, ContactsLinked,
                    MsgLinked, UlnContains, Adj
<1>4. ASSUME NEW m \in alive', NEW s \in Nat, s <= uln[m].ssn, s = uln'[m].ssn
      PROVE  m \in alive /\ s = uln[m].ssn /\ BidirectionalSet(uln'[m]) = BidirectionalSet(uln[m])
  <2>1. m \in Node /\ m \in alive
    BY DEF WellFormed, TypeOK
  <2>2. TableOK(uln[m]) /\ TableOK(uln'[m])
    BY <2>1 DEF WellFormed, TablesOK
  <2>3. Bumped(uln[m], uln'[m])
    BY <2>1 DEF AllBumped
  <2>4. uln[m].ssn <= uln'[m].ssn
    <3>1. uln[m].ssn \in Nat
      BY <2>2, SSNIsNat DEF TableOK, Table
    <3> QED
      BY <2>1, <3>1 DEF Elsewhere
  <2> QED
    BY <1>4, <2>1, <2>2, <2>3, <2>4, StaysCurrent
<1>5. ASSUME NEW p \in msgs' PROVE MsgAccurate(p, uln', alive')
  <2>1. CASE p \in sent
    BY <2>1 DEF Sound
  <2>2. CASE p \in msgs
    <3> SUFFICES ASSUME p.type \in {"DiscReq", "DiscRsp"}, p.from \in alive',
                        p.ssn = uln'[p.from].ssn, NEW k \in Node
                 PROVE  p.contacts[k] # 0 <=> k \in BidirectionalSet(uln'[p.from])
      BY DEF MsgAccurate
    <3>1. p.ssn \in Nat /\ p.ssn <= SSNs[p.from] /\ p.from \in Node
      BY <2>2, MessageReal
    <3>2. SSNs[p.from] = uln[p.from].ssn
      BY <3>1 DEF SSNs
    <3>3. /\ p.from \in alive /\ p.ssn = uln[p.from].ssn
          /\ BidirectionalSet(uln'[p.from]) = BidirectionalSet(uln[p.from])
      BY <1>4, <3>1, <3>2
    <3>4. MsgAccurate(p, uln, alive)
      BY <2>2 DEF Accurate
    <3> QED
      BY <3>3, <3>4 DEF MsgAccurate
  <2> QED
    BY <2>1, <2>2
<1>6. ASSUME NEW k \in Node PROVE GraphAccurate(vg'[k], k, uln', alive')
  <2> SUFFICES ASSUME NEW m \in alive' \ {k}, {k, m} \in vg'[k].edges,
                      vg'[k].synced[m] = uln'[m].ssn, NEW j \in Node \ {k}
               PROVE  {m, j} \in vg'[k].edges <=> j \in BidirectionalSet(uln'[m])
    BY DEF GraphAccurate
  <2>1. m \in Node /\ m \in alive
    BY DEF WellFormed, TypeOK
  <2>2. CASE k = n
    <3>1. uln'[m] = uln[m]
      BY <2>1, <2>2 DEF Elsewhere
    <3> QED
      BY <2>1, <2>2, <3>1 DEF GraphAccurate
  <2>3. CASE k # n
    <3>1. vg'[k] = vg[k]
      BY <2>3 DEF Elsewhere
    <3>2. vg[k].synced[m] \in Nat /\ vg[k].synced[m] <= uln[m].ssn
      <4>1. GraphOK(vg[k]) /\ GraphReal(vg[k], SSNs) /\ SSNs \in [Node -> Nat] /\ vg[k] \in Graph
        BY NodeReal
      <4>2. SSNs[m] = uln[m].ssn /\ SSNs[m] \in Nat
        BY <2>1, <4>1 DEF SSNs
      <4>3. /\ vg[k].synced[m] \in Nat /\ vg[k].observed[m] \in Nat
            /\ vg[k].synced[m] <= vg[k].observed[m] /\ vg[k].observed[m] <= SSNs[m]
        BY <2>1, <4>1 DEF GraphOK, GraphReal, Graph
      <4> QED
        BY <4>2, <4>3
    <3>3. /\ vg[k].synced[m] = uln[m].ssn
          /\ BidirectionalSet(uln'[m]) = BidirectionalSet(uln[m])
      BY <1>4, <3>1, <3>2
    <3>4. GraphAccurate(vg[k], k, uln, alive)
      BY DEF Accurate
    <3> QED
      BY <2>1, <3>1, <3>3, <3>4 DEF GraphAccurate
  <2> QED
    BY <2>2, <2>3
<1>7. Accurate'
  BY <1>5, <1>6 DEF Accurate, MsgAccurate, GraphAccurate, BidirectionalSet
<1> QED
  BY <1>3, <1>7

(* The same for a step that sends nothing.                                 *)
LEMMA AccurateQuietStep ==
  ASSUME WellFormed, WellFormed', Real, Linked, Accurate, NEW n \in Node, Elsewhere(n),
         alive' \subseteq alive, AllBumped, uln[n].ssn <= uln'[n].ssn,
         UpLinked(n, interval'[n]), TableLinked(n, uln'[n]), ReqLinked(n, discReq'[n]),
         ContactsLinked(n, rt'[n]), GraphLinked(vg'[n]), GraphAccurate(vg'[n], n, uln, alive),
         msgs' \subseteq msgs
  PROVE  Linked' /\ Accurate'
<1> DEFINE sent == {}
<1>1. msgs' \subseteq msgs \cup sent /\ \A p \in sent : Sound(p, uln', alive')
  OBVIOUS
<1> HIDE DEF sent
<1> QED
  BY <1>1, AccurateStep

(* What the invariants say about one node.                                 *)
LEMMA NodeAccurate ==
  ASSUME WellFormed, Real, Linked, Accurate, NEW n \in Node
  PROVE  /\ TableOK(uln[n]) /\ uln[n].ssn \in Nat /\ rt[n] \in [Node -> Contact]
         /\ GraphOK(vg[n]) /\ vg[n] \in Graph /\ alive \in SUBSET Node
         /\ UpLinked(n, interval[n]) /\ TableLinked(n, uln[n]) /\ ReqLinked(n, discReq[n])
         /\ ContactsLinked(n, rt[n]) /\ GraphLinked(vg[n])
         /\ GraphAccurate(vg[n], n, uln, alive)
<1>1. alive \in SUBSET Node
  BY DEF WellFormed, TypeOK
<1> QED
  BY <1>1, NodeReal DEF Linked, Accurate

(* What they say about a message.                                          *)
LEMMA MessageAccurate ==
  ASSUME WellFormed, Real, Linked, Accurate, NEW p \in msgs
  PROVE  /\ p \in Message /\ p.from \in Node /\ p.link \in Link /\ p.ssn \in SSN /\ p.ssn \in Nat
         /\ p.type \in {"DiscReq", "DiscRsp"} =>
              /\ p.contacts \in [Node -> Nat] /\ \A k \in Node : p.contacts[k] # 0 => Adj(p.from, k)
              /\ p.from \in alive /\ p.ssn = uln[p.from].ssn
                   => \A k \in Node : p.contacts[k] # 0 <=> k \in BidirectionalSet(uln[p.from])
         /\ p.type \in {"Hello", "DiscReq", "DiscRsp"} => Adj(p.to, p.from)
         /\ p.type \in {"QueryReq", "QueryRsp"} =>
              /\ p \in QueryMessage /\ p.src \in Node /\ p.via \in Node /\ p.dst \in Node
              /\ Adj(p.src, p.via) /\ Adj(p.via, p.dst)
<1>1. MsgLinked(p) /\ MsgAccurate(p, uln, alive)
  BY DEF Linked, Accurate
<1>2. p.type \in {"QueryReq", "QueryRsp"} => p \in QueryMessage
  BY MessageReal
<1>3. p.type \in {"QueryReq", "QueryRsp"} => p.src \in Node /\ p.via \in Node /\ p.dst \in Node
  BY <1>2 DEF QueryMessage
<1> QED
  BY <1>1, <1>2, <1>3, MessageReal, AdjSym DEF MsgLinked, MsgAccurate

(* Handling a ULNHello.                                                    *)
LEMMA HelloKeepsAccurate ==
  ASSUME WellFormed, WellFormed', Real, Linked, Accurate, NEW n \in Node, NEW p \in msgs,
         RecvHelloSilently(n, p) \/ AnswerHello(n, p)
  PROVE  Linked' /\ Accurate'
<1> DEFINE t == HelloTable(uln[n], p.from, p.link)
<1>1. /\ TableOK(uln[n]) /\ uln[n].ssn \in Nat /\ rt[n] \in [Node -> Contact]
      /\ GraphOK(vg[n]) /\ vg[n] \in Graph /\ alive \in SUBSET Node
      /\ UpLinked(n, interval[n]) /\ TableLinked(n, uln[n]) /\ ReqLinked(n, discReq[n])
      /\ ContactsLinked(n, rt[n]) /\ GraphLinked(vg[n])
      /\ GraphAccurate(vg[n], n, uln, alive)
  BY NodeAccurate
<1>2. p.from \in Node /\ p.link \in Link /\ p.ssn \in Nat
  BY MessageAccurate
<1>3. Adj(n, p.from)
  <2>1. p.type = "Hello" /\ p.to = n
    BY DEF RecvHelloSilently, AnswerHello, Arrives
  <2> QED
    BY <2>1, MessageAccurate
<1>4. AllBumped
  BY ReceiveBumps DEF Receive
<1>5. /\ uln'[n] = t /\ vg'[n] = HelloGraph(vg[n], p.from, p.ssn) /\ rt' = rt
      /\ interval' = interval /\ alive' \subseteq alive
      /\ \A k \in Node \ {n} : uln'[k] = uln[k] /\ vg'[k] = vg[k]
  BY DEF RecvHelloSilently, AnswerHello, WellFormed, TypeOK, ifaceVars
<1>6. TableLinked(n, t) /\ TableOK(t) /\ uln[n].ssn <= t.ssn
  BY <1>1, <1>2, <1>3, TablesLinked, HelloTableOK, SSNGrows
<1>7. GraphLinked(vg'[n]) /\ GraphAccurate(vg'[n], n, uln, alive)
  BY <1>1, <1>2, <1>5, HelloAccurate
<1>8. CASE RecvHelloSilently(n, p)
  <2>1. discReq' = discReq /\ msgs' \subseteq msgs
    BY <1>8 DEF RecvHelloSilently, reqVars, Drop
  <2>2. Elsewhere(n)
    BY <1>5, <2>1 DEF Elsewhere
  <2> HIDE DEF t
  <2> QED
    BY <1>1, <1>4, <1>5, <1>6, <1>7, <2>1, <2>2, AccurateQuietStep
<1>9. CASE AnswerHello(n, p)
  <2> DEFINE ok == Consistent(t, rt[n])
  <2>1. PICK nonce \in FreshNonces(n, p.from) :
          /\ Transmit(n, {p}, IF ok THEN {DiscMsg("DiscReq", n, p.from, p.link, t, rt[n], nonce)}
                                    ELSE {})
          /\ discReq' = [discReq EXCEPT ![n][p.from] = [nonce |-> nonce, timeouts |-> 0]]
    BY <1>9 DEF AnswerHello
  <2> DEFINE sent == IF ok THEN {DiscMsg("DiscReq", n, p.from, p.link, t, rt[n], nonce)} ELSE {}
  <2> HIDE DEF t
  <2>2. Elsewhere(n)
    BY <1>5, <2>1 DEF Elsewhere, WellFormed, TypeOK
  <2>3. ReqLinked(n, discReq'[n])
    <3>1. \A m \in Node \ {p.from} : discReq'[n][m] = discReq[n][m]
      BY <2>1 DEF WellFormed, TypeOK
    <3> QED
      BY <1>1, <1>3, <3>1 DEF ReqLinked
  <2>4. \A q \in sent : Sound(q, uln', alive')
    BY <1>1, <1>3, <1>5, <1>6, DiscMsgSound
  <2>5. msgs' \subseteq msgs \cup sent
    BY <2>1, TransmitSent
  <2> HIDE DEF sent, ok
  <2> QED
    BY <1>1, <1>4, <1>5, <1>6, <1>7, <2>2, <2>3, <2>4, <2>5, AccurateStep
<1> QED
  BY <1>8, <1>9

(* Handling a ULNDiscReq or ULNDiscRsp.                                    *)
LEMMA DiscKeepsAccurate ==
  ASSUME TriangleFree, WellFormed, WellFormed', Real, Linked, Accurate, NEW n \in Node,
         NEW p \in msgs, RecvDiscReq(n, p) \/ RecvDiscRsp(n, p)
  PROVE  Linked' /\ Accurate'
<1> DEFINE r == [rt[n] EXCEPT ![p.from] = UpdateContact(@, p.from, p.ssn, p.from)]
<1>1. /\ TableOK(uln[n]) /\ uln[n].ssn \in Nat /\ rt[n] \in [Node -> Contact]
      /\ GraphOK(vg[n]) /\ vg[n] \in Graph /\ alive \in SUBSET Node
      /\ UpLinked(n, interval[n]) /\ TableLinked(n, uln[n]) /\ ReqLinked(n, discReq[n])
      /\ ContactsLinked(n, rt[n]) /\ GraphLinked(vg[n])
      /\ GraphAccurate(vg[n], n, uln, alive)
  BY NodeAccurate
<1>2. p.type \in {"DiscReq", "DiscRsp"} /\ p.to = n
  BY DEF RecvDiscReq, RecvDiscRsp, Arrives
<1>3. /\ p.from \in Node /\ p.link \in Link /\ p.ssn \in SSN /\ p.ssn \in Nat
      /\ p.contacts \in [Node -> Nat] /\ \A k \in Node : p.contacts[k] # 0 => Adj(p.from, k)
      /\ p.from \in alive /\ p.ssn = uln[p.from].ssn
           => \A k \in Node : p.contacts[k] # 0 <=> k \in BidirectionalSet(uln[p.from])
      /\ Adj(n, p.from)
  BY <1>2, MessageAccurate
<1>4. AllBumped
  BY ReceiveBumps DEF Receive
<1>5. /\ vg'[n] = ProcessDisc(vg[n], n, p.from, p.ssn, p.contacts)
      /\ rt'[n] = r /\ interval' = interval /\ alive' \subseteq alive
      /\ \A k \in Node \ {n} : uln'[k] = uln[k] /\ vg'[k] = vg[k] /\ rt'[k] = rt[k]
  BY <1>3 DEF RecvDiscReq, RecvDiscRsp, WellFormed, TypeOK, ifaceVars
<1>6. r \in [Node -> Contact] /\ ContactsLinked(n, r)
  BY <1>1, <1>3, UpdateContactType, UpdateContactLinked
<1>7. GraphLinked(vg'[n]) /\ GraphAccurate(vg'[n], n, uln, alive)
  <2>1. /\ GraphLinked(ProcessDisc(vg[n], n, p.from, p.ssn, p.contacts))
        /\ GraphAccurate(ProcessDisc(vg[n], n, p.from, p.ssn, p.contacts), n, uln, alive)
    BY <1>1, <1>3, ProcessDiscAccurate
  <2> QED
    BY <1>5, <2>1
<1> HIDE DEF r
<1>8. CASE RecvDiscReq(n, p)
  <2> DEFINE t0 == UlnInsert(uln[n], p.from, p.link)
             t == UlnConfirm(t0, p.from, p.link)
             ok == ~UlnConfirmPanics(t0, p.from, p.link) /\ Consistent(t, r)
             sent == IF ok THEN {DiscMsg("DiscRsp", n, p.from, p.link, t, r, p.nonce)}
                                \cup AnnounceSSN(n, uln[n], t)
                           ELSE {}
  <2>1. /\ uln'[n] = t /\ discReq' = discReq /\ Transmit(n, {p}, sent)
    BY <1>8 DEF RecvDiscReq, WellFormed, TypeOK, reqVars, r
  <2>2. TableOK(t0) /\ TableLinked(n, t0) /\ t0.ssn = uln[n].ssn
    BY <1>1, <1>3, UlnInsertOK, TablesLinked, SSNGrows
  <2> HIDE DEF t0
  <2>3. TableOK(t) /\ TableLinked(n, t) /\ uln[n].ssn <= t.ssn
    BY <1>3, <2>2, UlnConfirmOK, TablesLinked, SSNGrows
  <2> HIDE DEF t
  <2>4. Elsewhere(n)
    BY <1>5, <2>1 DEF Elsewhere
  <2>5. \A q \in sent : Sound(q, uln', alive')
    <3>1. ok => Sound(DiscMsg("DiscRsp", n, p.from, p.link, t, r, p.nonce), uln', alive')
      BY <1>3, <1>6, <2>1, <2>3, DiscMsgSound
    <3> QED
      BY <3>1, HelloSound
  <2>6. msgs' \subseteq msgs \cup sent
    BY <2>1, TransmitSent
  <2> HIDE DEF sent, ok
  <2> QED
    BY <1>1, <1>4, <1>5, <1>6, <1>7, <2>1, <2>3, <2>4, <2>5, <2>6, AccurateStep
<1>9. CASE RecvDiscRsp(n, p)
  <2> DEFINE t == UlnConfirm(uln[n], p.from, p.link)
             ok == ~UlnConfirmPanics(uln[n], p.from, p.link)
             sent == IF ok THEN AnnounceSSN(n, uln[n], t) ELSE {}
  <2>1. /\ uln'[n] = t /\ Transmit(n, {p}, sent)
        /\ discReq' = [discReq EXCEPT ![n][p.from] = FinalizeRequest(@, p.nonce)]
    BY <1>9 DEF RecvDiscRsp, WellFormed, TypeOK
  <2>2. TableOK(t) /\ TableLinked(n, t) /\ uln[n].ssn <= t.ssn
    BY <1>1, <1>3, UlnConfirmOK, TablesLinked, SSNGrows
  <2> HIDE DEF t
  <2>3. Elsewhere(n)
    BY <1>5, <2>1 DEF Elsewhere, WellFormed, TypeOK
  <2>4. ReqLinked(n, discReq'[n])
    <3>1. \A m \in Node \ {p.from} : discReq'[n][m] = discReq[n][m]
      BY <2>1 DEF WellFormed, TypeOK
    <3> QED
      BY <1>1, <1>3, <3>1 DEF ReqLinked
  <2>5. \A q \in sent : Sound(q, uln', alive')
    BY HelloSound
  <2>6. msgs' \subseteq msgs \cup sent
    BY <2>1, TransmitSent
  <2> HIDE DEF sent, ok
  <2> QED
    BY <1>1, <1>4, <1>5, <1>6, <1>7, <2>1, <2>2, <2>3, <2>4, <2>5, <2>6, AccurateStep
<1> QED
  BY <1>8, <1>9

(* A message on an interface that is down, and queries: the path of a      *)
(* contact is direct, or the contact shares no link with the node.         *)
LEMMA QueryKeepsAccurate ==
  ASSUME TriangleFree, WellFormed, WellFormed', Real, Linked, Accurate, NEW n \in Node,
         NEW p \in msgs, \/ RecvOnDownInterface(n, p) \/ ForwardQuery(n, p)
                         \/ RecvQueryReq(n, p) \/ RecvQueryRsp(n, p)
  PROVE  Linked' /\ Accurate'
<1>1. /\ TableOK(uln[n]) /\ uln[n].ssn \in Nat /\ rt[n] \in [Node -> Contact]
      /\ GraphOK(vg[n]) /\ vg[n] \in Graph /\ alive \in SUBSET Node
      /\ UpLinked(n, interval[n]) /\ TableLinked(n, uln[n]) /\ ReqLinked(n, discReq[n])
      /\ ContactsLinked(n, rt[n]) /\ GraphLinked(vg[n])
      /\ GraphAccurate(vg[n], n, uln, alive)
  BY NodeAccurate
<1>2. AllBumped
  BY ReceiveBumps DEF Receive
<1>3. /\ uln' = uln /\ discReq' = discReq /\ interval' = interval /\ alive' \subseteq alive
      /\ uln[n].ssn <= uln'[n].ssn
      /\ \A k \in Node \ {n} : vg'[k] = vg[k] /\ rt'[k] = rt[k]
  BY <1>1 DEF RecvOnDownInterface, ForwardQuery, RecvQueryReq, RecvQueryRsp, WellFormed, TypeOK,
              ifaceVars, reqVars
<1>4. Elsewhere(n)
  BY <1>3 DEF Elsewhere
<1>5. CASE RecvOnDownInterface(n, p)
  <2>1. p.from \in Node
    BY MessageAccurate
  <2>2. /\ vg'[n] = vg[n] /\ msgs' \subseteq msgs
        /\ \/ rt'[n] = rt[n]
           \/ rt'[n] = [rt[n] EXCEPT ![p.from] = UpdateContact(@, p.from, p.ssn, p.from)]
    BY <1>5, <2>1 DEF RecvOnDownInterface, Drop, WellFormed, TypeOK
  <2>3. ContactsLinked(n, rt'[n])
    BY <1>1, <2>1, <2>2, UpdateContactLinked
  <2> QED
    BY <1>1, <1>2, <1>3, <1>4, <2>2, <2>3, AccurateQuietStep
<1>6. ASSUME ForwardQuery(n, p) \/ RecvQueryReq(n, p) \/ RecvQueryRsp(n, p)
      PROVE  /\ p.type \in {"QueryReq", "QueryRsp"} /\ p \in QueryMessage
             /\ p.src \in Node /\ p.via \in Node /\ p.dst \in Node
             /\ Adj(p.src, p.via) /\ Adj(p.via, p.dst) /\ ~Adj(p.dst, p.src)
  <2>1. p.type \in {"QueryReq", "QueryRsp"}
    BY <1>6 DEF ForwardQuery, RecvQueryReq, RecvQueryRsp, Arrives
  <2>2. /\ p \in QueryMessage /\ p.src \in Node /\ p.via \in Node /\ p.dst \in Node
        /\ Adj(p.src, p.via) /\ Adj(p.via, p.dst)
    BY <2>1, MessageAccurate
  <2>3. Adj(p.via, p.src)
    BY <2>2, AdjSym
  <2> QED
    BY <2>1, <2>2, <2>3, NoTriangle
<1>7. CASE ForwardQuery(n, p)
  <2> DEFINE q == [p EXCEPT !.from = n, !.to = p.dst, !.link = uln[n].link[p.dst]]
             ok == UlnContains(uln[n], p.from) /\ UlnContains(uln[n], p.dst)
             sent == {q}
  <2>1. /\ vg'[n] = vg[n] /\ Transmit(n, {p}, IF ok THEN sent ELSE {})
        /\ \/ rt'[n] = rt[n]
           \/ rt'[n] = [rt[n] EXCEPT ![p.src] = UpdateContact(@, p.src, p.ssn, p.src)]
    BY <1>6, <1>7 DEF ForwardQuery, WellFormed, TypeOK
  <2>2. ContactsLinked(n, rt'[n])
    <3>1. p.src \in Node
      BY <1>6, <1>7
    <3>2. ContactsLinked(n, [rt[n] EXCEPT ![p.src] = UpdateContact(@, p.src, p.ssn, p.src)])
      BY <1>1, <3>1, UpdateContactLinked
    <3> QED
      BY <1>1, <2>1, <3>2
  <2>3. q.type = p.type /\ q.src = p.src /\ q.via = p.via /\ q.dst = p.dst
    BY <1>6, <1>7 DEF QueryMessage
  <2> HIDE DEF q, ok
  <2>4. \A x \in sent : Sound(x, uln', alive')
    BY <1>6, <1>7, <2>3 DEF Sound, MsgLinked, MsgAccurate
  <2> HIDE DEF sent
  <2>5. msgs' \subseteq msgs \cup sent
    BY <2>1, TransmitSent
  <2> QED
    BY <1>1, <1>2, <1>3, <1>4, <2>1, <2>2, <2>4, <2>5, AccurateStep
<1>8. CASE RecvQueryReq(n, p)
  <2> DEFINE hop == FirstHop(uln[n], p.src, p.via)
             q == [p EXCEPT !.type = "QueryRsp", !.from = n, !.to = p.via,
                            !.ssn = uln[n].ssn, !.src = n, !.dst = p.src]
             sent == {q}
  <2>1. p.dst = n /\ hop \in Node /\ ~Adj(n, p.src)
    BY <1>6, <1>8 DEF RecvQueryReq, FirstHop
  <2>2. PICK ok : Transmit(n, {p}, IF ok THEN sent ELSE {})
    BY <1>8 DEF RecvQueryReq
  <2>3. q.type = "QueryRsp" /\ q.src = n /\ q.via = p.via /\ q.dst = p.src
    BY <1>6, <1>8 DEF QueryMessage
  <2> HIDE DEF q, hop
  <2>4. /\ vg'[n] \in {vg[n], HelloGraph(vg[n], p.src, p.ssn)}
        /\ \/ rt'[n] = rt[n]
           \/ rt'[n] = [rt[n] EXCEPT ![p.src] = UpdateContact(@, p.src, p.ssn, hop)]
    BY <1>6, <1>8 DEF RecvQueryReq, WellFormed, TypeOK, hop
  <2>5. ContactsLinked(n, rt'[n])
    <3>1. p.src \in Node
      BY <1>6, <1>8
    <3>2. ContactsLinked(n, [rt[n] EXCEPT ![p.src] = UpdateContact(@, p.src, p.ssn, hop)])
      BY <1>1, <2>1, <3>1, UpdateContactLinked
    <3> QED
      BY <1>1, <2>4, <3>2
  <2>6. GraphLinked(vg'[n]) /\ GraphAccurate(vg'[n], n, uln, alive)
    BY <1>1, <1>6, <1>8, <2>4, HelloAccurate
  <2>7. Adj(n, p.via) /\ Adj(p.via, p.src)
    BY <1>6, <1>8, <2>1, AdjSym
  <2>8. \A x \in sent : Sound(x, uln', alive')
    BY <2>3, <2>7 DEF Sound, MsgLinked, MsgAccurate
  <2> HIDE DEF sent
  <2>9. msgs' \subseteq msgs \cup sent
    BY <2>2, TransmitSent
  <2> QED
    BY <1>1, <1>2, <1>3, <1>4, <2>5, <2>6, <2>8, <2>9, AccurateStep
<1>9. CASE RecvQueryRsp(n, p)
  <2> DEFINE hop == FirstHop(uln[n], p.src, p.via)
  <2>1. p.dst = n /\ hop \in Node /\ ~Adj(n, p.src)
    BY <1>6, <1>9 DEF RecvQueryRsp, FirstHop
  <2> HIDE DEF hop
  <2>2. /\ vg'[n] \in {vg[n], VgUpdateSynced(vg[n], p.src, p.ssn)} /\ msgs' \subseteq msgs
        /\ \/ rt'[n] = rt[n]
           \/ rt'[n] = [rt[n] EXCEPT ![p.src] = UpdateContact(@, p.src, p.ssn, hop)]
    BY <1>6, <1>9 DEF RecvQueryRsp, Drop, WellFormed, TypeOK, hop
  <2>3. ContactsLinked(n, rt'[n])
    <3>1. p.src \in Node
      BY <1>6, <1>9
    <3>2. ContactsLinked(n, [rt[n] EXCEPT ![p.src] = UpdateContact(@, p.src, p.ssn, hop)])
      BY <1>1, <2>1, <3>1, UpdateContactLinked
    <3> QED
      BY <1>1, <2>2, <3>2
  <2>4. GraphLinked(vg'[n]) /\ GraphAccurate(vg'[n], n, uln, alive)
    BY <1>1, <1>6, <1>9, <2>1, <2>2, UpdateSyncedAccurate
  <2> QED
    BY <1>1, <1>2, <1>3, <1>4, <2>2, <2>3, <2>4, AccurateQuietStep
<1> QED
  BY <1>5, <1>7, <1>8, <1>9

(* Interfaces that come up and timers, except for the resync timer.        *)
LEMMA TimersKeepAccurate ==
  ASSUME TriangleFree, WellFormed, WellFormed', Real, Linked, Accurate, NEW n \in Node,
         \/ \E l \in Link : HelloTimer(n, l) \/ InterfaceUp(n, l) \/ InterfaceDown(n, l)
         \/ \E m \in Node : \/ DiscTimerStale(n, m) \/ DiscGiveUp(n, m) \/ DiscRetry(n, m)
                            \/ QueryTimerStale(n, m) \/ QueryGiveUp(n, m) \/ QueryRetry(n, m)
  PROVE  Linked' /\ Accurate'
<1>1. /\ TableOK(uln[n]) /\ uln[n].ssn \in Nat /\ rt[n] \in [Node -> Contact]
      /\ GraphOK(vg[n]) /\ vg[n] \in Graph /\ alive \in SUBSET Node
      /\ UpLinked(n, interval[n]) /\ TableLinked(n, uln[n]) /\ ReqLinked(n, discReq[n])
      /\ ContactsLinked(n, rt[n]) /\ GraphLinked(vg[n])
      /\ GraphAccurate(vg[n], n, uln, alive)
  BY NodeAccurate
<1>2. ASSUME uln' = uln, rt' = rt, alive' \subseteq alive,
             \A k \in Node \ {n} : /\ vg'[k] = vg[k] /\ interval'[k] = interval[k]
                                   /\ discReq'[k] = discReq[k],
             UpLinked(n, interval'[n]), ReqLinked(n, discReq'[n]),
             GraphLinked(vg'[n]), GraphAccurate(vg'[n], n, uln, alive),
             NEW sent, msgs' \subseteq msgs \cup sent, \A p \in sent : Sound(p, uln, alive')
      PROVE  Linked' /\ Accurate'
  <2>1. Elsewhere(n) /\ AllBumped
    BY <1>2, UntouchedBumps DEF Elsewhere
  <2>2. uln[n].ssn <= uln'[n].ssn /\ TableLinked(n, uln'[n]) /\ ContactsLinked(n, rt'[n])
    BY <1>1, <1>2
  <2>3. \A p \in sent : Sound(p, uln', alive')
    BY <1>2
  <2> QED
    BY <1>2, <2>1, <2>2, <2>3, AccurateStep
<1>3. ASSUME NEW l \in Link, HelloTimer(n, l) \/ InterfaceUp(n, l) PROVE Linked' /\ Accurate'
  <2> DEFINE sent == IF n \in Attached[l] THEN HelloOn(n, l, uln[n].ssn) ELSE {}
  <2>1. /\ uln' = uln /\ rt' = rt /\ vg' = vg /\ alive' = alive /\ discReq' = discReq
        /\ \A k \in Node \ {n} : interval'[k] = interval[k]
    BY <1>3 DEF HelloTimer, InterfaceUp, nodeVars, reqVars, WellFormed, TypeOK
  <2>2. UpLinked(n, interval'[n]) /\ msgs' \subseteq msgs \cup sent
    <3>1. CASE HelloTimer(n, l) /\ Up(n, l)
      <4>1. n \in Attached[l]
        BY <1>1, <3>1 DEF UpLinked, Up
      <4>2. \A k \in Link \ {l} : interval'[n][k] = interval[n][k]
        BY <3>1 DEF HelloTimer, WellFormed, TypeOK
      <4>3. Transmit(n, {}, HelloOn(n, l, uln[n].ssn))
        BY <3>1 DEF HelloTimer
      <4>4. msgs' \subseteq msgs \cup HelloOn(n, l, uln[n].ssn)
        BY <4>3, TransmitSent
      <4> QED
        BY <1>1, <4>1, <4>2, <4>4 DEF UpLinked
    <3>2. CASE HelloTimer(n, l) /\ ~Up(n, l)
      BY <1>1, <3>2 DEF HelloTimer
    <3>3. CASE InterfaceUp(n, l)
      <4>1. n \in Attached[l] /\ msgs' \subseteq msgs \cup HelloOn(n, l, uln[n].ssn)
        BY <3>3 DEF InterfaceUp, Accepted
      <4>2. \A k \in Link \ {l} : interval'[n][k] = interval[n][k]
        BY <3>3 DEF InterfaceUp, WellFormed, TypeOK
      <4> QED
        BY <1>1, <4>1, <4>2 DEF UpLinked
    <3> QED
      BY <1>3, <3>1, <3>2, <3>3
  <2>3. \A p \in sent : Sound(p, uln, alive')
    BY HelloSound
  <2> HIDE DEF sent
  <2> QED
    BY <1>1, <1>2, <2>1, <2>2, <2>3
<1>4. ASSUME NEW l \in Link, InterfaceDown(n, l) PROVE Linked' /\ Accurate'
  <2>1. /\ uln' = uln /\ rt' = rt /\ vg' = vg /\ alive' = alive /\ discReq' = discReq /\ msgs' = msgs
        /\ \A k \in Node \ {n} : interval'[k] = interval[k]
        /\ interval'[n] = [interval[n] EXCEPT ![l] = 0]
    BY <1>4 DEF InterfaceDown, nodeVars, reqVars, WellFormed, TypeOK
  <2>2. UpLinked(n, interval'[n])
    BY <1>1, <2>1 DEF UpLinked, WellFormed, TypeOK
  <2> DEFINE sent == {}
  <2>3. msgs' \subseteq msgs \cup sent /\ \A p \in sent : Sound(p, uln, alive')
    BY <2>1
  <2> HIDE DEF sent
  <2> QED
    BY <1>1, <1>2, <2>1, <2>2, <2>3
<1>5. ASSUME NEW m \in Node, DiscTimerStale(n, m) \/ QueryTimerStale(n, m) \/ QueryGiveUp(n, m)
      PROVE  Linked' /\ Accurate'
  <2>1. /\ uln' = uln /\ rt' = rt /\ vg' = vg /\ alive' = alive /\ discReq' = discReq /\ msgs' = msgs
        /\ interval' = interval
    BY <1>5 DEF DiscTimerStale, QueryTimerStale, QueryGiveUp, nodeVars, ifaceVars
  <2> DEFINE sent == {}
  <2>2. msgs' \subseteq msgs \cup sent /\ \A p \in sent : Sound(p, uln, alive')
    BY <2>1
  <2> HIDE DEF sent
  <2> QED
    BY <1>1, <1>2, <2>1, <2>2
<1>6. ASSUME NEW m \in Node, DiscGiveUp(n, m) PROVE Linked' /\ Accurate'
  <2>1. /\ uln' = uln /\ rt' = rt /\ alive' = alive /\ msgs' = msgs /\ interval' = interval
        /\ \A k \in Node \ {n} : vg'[k] = vg[k] /\ discReq'[k] = discReq[k]
        /\ vg'[n] \in {vg[n], VgRemove(vg[n], m)} /\ discReq[n][m].nonce # 0
        /\ discReq'[n] = [discReq[n] EXCEPT ![m] = NoRequest]
    BY <1>6 DEF DiscGiveUp, ifaceVars, WellFormed, TypeOK
  <2>2. Adj(n, m)
    BY <1>1, <2>1 DEF ReqLinked
  <2>3. ReqLinked(n, discReq'[n])
    BY <1>1, <2>1, <2>2 DEF ReqLinked, WellFormed, TypeOK
  <2>4. GraphLinked(vg'[n]) /\ GraphAccurate(vg'[n], n, uln, alive)
    BY <1>1, <2>1, <2>2, RemoveAccurate
  <2> DEFINE sent == {}
  <2>5. msgs' \subseteq msgs \cup sent /\ \A p \in sent : Sound(p, uln, alive')
    BY <2>1
  <2> HIDE DEF sent
  <2> QED
    BY <1>1, <1>2, <2>1, <2>3, <2>4, <2>5
<1>7. ASSUME NEW m \in Node, DiscRetry(n, m) PROVE Linked' /\ Accurate'
  <2> DEFINE ok == Consistent(uln[n], rt[n])
             sent == IF ok THEN {DiscMsg("DiscReq", n, m, uln[n].link[m], uln[n], rt[n],
                                         discReq[n][m].nonce)} ELSE {}
  <2>1. /\ uln' = uln /\ rt' = rt /\ vg' = vg /\ interval' = interval /\ alive' \subseteq alive
        /\ Transmit(n, {}, sent) /\ discReq[n][m].nonce # 0
        /\ \A k \in Node \ {n} : discReq'[k] = discReq[k]
        /\ \A k \in Node \ {m} : discReq'[n][k] = discReq[n][k]
    BY <1>7 DEF DiscRetry, nodeVars, ifaceVars, WellFormed, TypeOK
  <2>2. Adj(n, m)
    BY <1>1, <2>1 DEF ReqLinked
  <2>3. ReqLinked(n, discReq'[n])
    BY <1>1, <2>1, <2>2 DEF ReqLinked
  <2>4. \A p \in sent : Sound(p, uln, alive')
    BY <1>1, <2>2, DiscMsgSound
  <2> HIDE DEF sent, ok
  <2>5. msgs' \subseteq msgs \cup sent
    BY <2>1, TransmitSent
  <2> QED
    BY <1>1, <1>2, <2>1, <2>3, <2>4, <2>5
<1>8. ASSUME NEW m \in Node, QueryRetry(n, m) PROVE Linked' /\ Accurate'
  <2>1. PICK via \in TwoHopVias(vg[n], n, m) :
          Transmit(n, {}, IF UlnContains(uln[n], via)
                          THEN {QueryMsg(n, via, m, queryReq[n][m].nonce)} ELSE {})
    BY <1>8 DEF QueryRetry
  <2> DEFINE sent == {QueryMsg(n, via, m, queryReq[n][m].nonce)}
  <2>2. /\ uln' = uln /\ rt' = rt /\ vg' = vg /\ interval' = interval /\ alive' \subseteq alive
        /\ discReq' = discReq
    BY <1>8 DEF QueryRetry, nodeVars, ifaceVars
  <2>3. \A p \in sent : Sound(p, uln, alive')
    BY <1>1, QueryMsgSound
  <2>4. msgs' \subseteq msgs \cup sent
    BY <2>1, TransmitSent
  <2> HIDE DEF sent
  <2> QED
    BY <1>1, <1>2, <2>2, <2>3, <2>4
<1> QED
  BY <1>3, <1>4, <1>5, <1>6, <1>7, <1>8

(* The resync timer sends lists of confirmed neighbours to neighbours and  *)
(* queries along edges of the graph.                                       *)
LEMMA ResyncKeepsAccurate ==
  ASSUME WellFormed, WellFormed', Real, Linked, Accurate, NEW n \in Node, Resync(n)
  PROVE  Linked' /\ Accurate'
<1>1. /\ TableOK(uln[n]) /\ uln[n].ssn \in Nat /\ rt[n] \in [Node -> Contact]
      /\ GraphOK(vg[n]) /\ vg[n] \in Graph /\ alive \in SUBSET Node
      /\ UpLinked(n, interval[n]) /\ TableLinked(n, uln[n]) /\ ReqLinked(n, discReq[n])
      /\ ContactsLinked(n, rt[n]) /\ GraphLinked(vg[n])
      /\ GraphAccurate(vg[n], n, uln, alive)
  BY NodeAccurate
<1>2. PICK D \in UpTo(DiscCandidates(n), Capacity(n)) :
        \E Q \in UpTo(QueryCandidates(n), Capacity(n) - Cardinality(D)) :
        \E via \in [Q -> Node] : \E nonce \in [D \cup Q -> Nonce] : \E clean \in BOOLEAN :
          StartSyncs(n, D, Q, via, nonce, clean)
  BY DEF Resync
<1>3. PICK Q \in UpTo(QueryCandidates(n), Capacity(n) - Cardinality(D)) :
        \E via, nonce, clean : StartSyncs(n, D, Q, via, nonce, clean)
  BY <1>2
<1>4. PICK via, nonce, clean : StartSyncs(n, D, Q, via, nonce, clean)
  BY <1>3
<1>5. (\A m \in D : m \in Node /\ Adj(n, m)) /\ Q \subseteq Node
  BY <1>1 DEF UpTo, DiscCandidates, QueryCandidates, TableLinked
<1> DEFINE ok == /\ D # {} => Consistent(uln[n], rt[n])
                 /\ \A m \in Q : UlnContains(uln[n], via[m])
                 /\ \A m \in Node : OutOfSync(vg[n], m) => vg[n].synced[m] < vg[n].observed[m]
           disc == {DiscMsg("DiscReq", n, m, uln[n].link[m], uln[n], rt[n], nonce[m]) : m \in D}
           query == {QueryMsg(n, via[m], m, nonce[m]) : m \in Q}
           sent == IF ok THEN disc \cup query ELSE {}
<1>6. /\ uln' = uln /\ rt' = rt /\ interval' = interval /\ alive' \subseteq alive
      /\ \A k \in Node \ {n} : vg'[k] = vg[k] /\ discReq'[k] = discReq[k]
      /\ vg'[n] \in {vg[n], VgRetain(vg[n], n)}
  BY <1>4 DEF StartSyncs, WellFormed, TypeOK, ifaceVars
<1>7. \A m \in Node : m \notin D => discReq'[n][m] = discReq[n][m]
  BY <1>4 DEF StartSyncs, WellFormed, TypeOK
<1>8. Transmit(n, {}, sent) /\ \A m \in Q : via[m] \in TwoHopVias(vg[n], n, m)
  BY <1>4 DEF StartSyncs
<1>9. ReqLinked(n, discReq'[n])
  BY <1>1, <1>5, <1>7 DEF ReqLinked
<1>10. GraphLinked(vg'[n]) /\ GraphAccurate(vg'[n], n, uln, alive)
  BY <1>1, <1>6, RetainAccurate
<1>11. \A p \in sent : Sound(p, uln', alive')
  <2>1. ASSUME ok, NEW p \in disc PROVE Sound(p, uln', alive')
    <3>1. PICK m \in D :
            p = DiscMsg("DiscReq", n, m, uln[n].link[m], uln[n], rt[n], nonce[m])
      BY <2>1
    <3>2. Consistent(uln[n], rt[n]) /\ Adj(n, m) /\ uln'[n] = uln[n]
      BY <1>5, <1>6, <2>1, <3>1
    <3> QED
      BY <1>1, <3>1, <3>2, DiscMsgSound
  <2>2. ASSUME NEW p \in query PROVE Sound(p, uln', alive')
    <3>1. PICK m \in Q : p = QueryMsg(n, via[m], m, nonce[m])
      BY <2>2
    <3>2. m \in Node /\ via[m] \in TwoHopVias(vg[n], n, m)
      BY <1>5, <1>8, <3>1
    <3> QED
      BY <1>1, <3>1, <3>2, QueryMsgSound
  <2> HIDE DEF disc, query, ok
  <2> QED
    BY <2>1, <2>2
<1> HIDE DEF sent, ok
<1>12. msgs' \subseteq msgs \cup sent
  BY <1>8, TransmitSent
<1>13. Elsewhere(n) /\ AllBumped
  BY <1>6, UntouchedBumps DEF Elsewhere
<1>14. /\ uln[n].ssn <= uln'[n].ssn /\ TableLinked(n, uln'[n]) /\ ContactsLinked(n, rt'[n])
       /\ UpLinked(n, interval'[n])
  BY <1>1, <1>6
<1> QED
  BY <1>6, <1>9, <1>10, <1>11, <1>12, <1>13, <1>14, AccurateStep

(* remove() maps fewer nodes and lowers no SSN.                            *)
LEMMA RemoveLinked ==
  ASSUME NEW n \in Node, NEW t, TableOK(t), TableLinked(n, t), NEW m \in Node
  PROVE  /\ TableOK(UlnRemove(t, m)) /\ TableLinked(n, UlnRemove(t, m))
         /\ t.ssn <= UlnRemove(t, m).ssn
<1>1. TableOK(UlnRemove(t, m))
  BY UlnRemoveOK
<1>2. TableLinked(n, UlnRemove(t, m))
  <2>1. t.state \in [Node -> ULNState] /\ t \in Table
    BY DEF TableOK, Table
  <2>2. UlnRemove(t, m).state = [t.state EXCEPT ![m] = "Vacant"]
    BY <2>1 DEF UlnRemove, Table
  <2> QED
    BY <2>1, <2>2 DEF TableLinked, UlnContains
<1>3. t.ssn <= UlnRemove(t, m).ssn
  <2>1. t.ssn \in Nat
    BY SSNIsNat DEF TableOK, Table
  <2>2. UlnRemove(t, m).ssn \in {t.ssn, NextSSN(t.ssn)}
    BY DEF UlnRemove, TableOK, Table
  <2>3. NextSSN(t.ssn) \in {t.ssn, t.ssn + 1}
    BY DEF NextSSN
  <2> QED
    BY <2>1, <2>2, <2>3
<1> QED
  BY <1>1, <1>2, <1>3

(* Losing a neighbour or a contact.                                        *)
LEMMA RemovalKeepsAccurate ==
  ASSUME WellFormed, WellFormed', Real, Linked, Accurate, NEW n \in Node, NEW m \in Node,
         ContactDead(n, m) \/ \E l \in Link : NeighborDown(n, l, m)
  PROVE  Linked' /\ Accurate'
<1>1. /\ TableOK(uln[n]) /\ uln[n].ssn \in Nat /\ rt[n] \in [Node -> Contact]
      /\ GraphOK(vg[n]) /\ vg[n] \in Graph /\ alive \in SUBSET Node
      /\ UpLinked(n, interval[n]) /\ TableLinked(n, uln[n]) /\ ReqLinked(n, discReq[n])
      /\ ContactsLinked(n, rt[n]) /\ GraphLinked(vg[n])
      /\ GraphAccurate(vg[n], n, uln, alive)
  BY NodeAccurate
<1>2. /\ Next /\ budget'.restarts = budget.restarts
      /\ interval' = interval /\ discReq' = discReq /\ alive' \subseteq alive
      /\ \A k \in Node \ {n} : uln'[k] = uln[k] /\ vg'[k] = vg[k] /\ rt'[k] = rt[k]
  <2>1. Next
    BY DEF Next, UnderlayUpdate
  <2>2. /\ budget' = budget /\ interval' = interval /\ discReq' = discReq
        /\ alive' \subseteq alive
        /\ \A k \in Node \ {n} : uln'[k] = uln[k] /\ vg'[k] = vg[k] /\ rt'[k] = rt[k]
    BY DEF ContactDead, NeighborDown, ifaceVars, reqVars, WellFormed, TypeOK
  <2> QED
    BY <2>1, <2>2
<1>3. AllBumped
  BY <1>2, NextBumps
<1>4. Elsewhere(n)
  BY <1>2 DEF Elsewhere
<1>5. ASSUME NEW t, uln'[n] = t, TableLinked(n, t), uln[n].ssn <= t.ssn,
             ContactsLinked(n, rt'[n]), GraphLinked(vg'[n]), GraphAccurate(vg'[n], n, uln, alive),
             NEW ok, Transmit(n, {}, IF ok THEN AnnounceSSN(n, uln[n], t) ELSE {})
      PROVE  Linked' /\ Accurate'
  <2> DEFINE sent == AnnounceSSN(n, uln[n], t)
  <2>1. \A p \in sent : Sound(p, uln', alive')
    BY HelloSound
  <2>2. msgs' \subseteq msgs \cup sent
    BY <1>5, TransmitSent
  <2>3. UpLinked(n, interval'[n]) /\ ReqLinked(n, discReq'[n])
    BY <1>1, <1>2
  <2> HIDE DEF sent
  <2> QED
    BY <1>2, <1>3, <1>4, <1>5, <2>1, <2>2, <2>3, AccurateStep
<1>6. /\ TableLinked(n, UlnRemove(uln[n], m)) /\ uln[n].ssn <= UlnRemove(uln[n], m).ssn
      /\ ContactsLinked(n, InvalidateVia(rt[n], m))
      /\ InvalidateVia(rt[n], m) \in [Node -> Contact]
  BY <1>1, RemoveLinked, InvalidateViaLinked, InvalidateViaType
<1>7. ASSUME ContactDead(n, m) PROVE Linked' /\ Accurate'
  <2> DEFINE t == UlnRemove(uln[n], m)
             ok == ~UlnRemovePanics(uln[n], m)
             r == IF rt[n][m].via = m THEN InvalidateVia(rt[n], m) ELSE rt[n]
  <2>1. uln'[n] = t /\ vg'[n] = vg[n] /\ rt'[n] = [r EXCEPT ![m] = NoContact(m)]
    BY <1>7 DEF ContactDead, WellFormed, TypeOK
  <2>2. Transmit(n, {}, IF ok THEN AnnounceSSN(n, uln[n], t) ELSE {})
    BY <1>7 DEF ContactDead
  <2>3. r \in [Node -> Contact] /\ ContactsLinked(n, r)
    BY <1>1, <1>6
  <2> HIDE DEF r
  <2>4. ContactsLinked(n, rt'[n])
    BY <2>1, <2>3 DEF ContactsLinked, NoContact
  <2>5. TableLinked(n, t) /\ uln[n].ssn <= t.ssn
    BY <1>6
  <2> HIDE DEF t, ok
  <2> QED
    BY <1>1, <1>5, <2>1, <2>2, <2>4, <2>5
<1>8. ASSUME NEW l \in Link, NeighborDown(n, l, m) PROVE Linked' /\ Accurate'
  <2> DEFINE hit == UlnMapped(uln[n], m, l)
             t == IF hit THEN UlnRemove(uln[n], m) ELSE uln[n]
             ok == hit => ~UlnRemovePanics(uln[n], m)
             g == IF hit THEN VgRemoveEdge(vg[n], n, m) ELSE vg[n]
  <2>1. /\ uln'[n] = t /\ vg'[n] = VgRetain(g, n)
        /\ rt'[n] \in {rt[n], InvalidateVia(rt[n], m)}
    BY <1>8 DEF NeighborDown, WellFormed, TypeOK
  <2>2. Transmit(n, {}, IF ok THEN AnnounceSSN(n, uln[n], t) ELSE {})
    BY <1>8 DEF NeighborDown
  <2>3. TableLinked(n, t) /\ uln[n].ssn <= t.ssn
    <3>1. uln[n].ssn <= uln[n].ssn
      BY <1>1
    <3> QED
      BY <1>1, <1>6, <3>1
  <2>4. g \in Graph /\ GraphLinked(g) /\ GraphAccurate(g, n, uln, alive)
    <3>1. /\ VgRemoveEdge(vg[n], n, m) \in Graph /\ GraphLinked(VgRemoveEdge(vg[n], n, m))
          /\ GraphAccurate(VgRemoveEdge(vg[n], n, m), n, uln, alive)
      BY <1>1, RemoveEdgeAccurate, VgRemoveEdgeOK DEF GraphOK
    <3> QED
      BY <1>1, <3>1
  <2> HIDE DEF hit, t, ok, g
  <2>5. GraphLinked(VgRetain(g, n)) /\ GraphAccurate(VgRetain(g, n), n, uln, alive)
    BY <1>1, <2>4, RetainAccurate
  <2>6. ContactsLinked(n, rt'[n])
    BY <1>1, <1>6, <2>1
  <2> QED
    BY <1>5, <2>1, <2>2, <2>3, <2>5, <2>6
<1> QED
  BY <1>7, <1>8

(* As long as no node has restarted, Linked and Accurate hold.             *)
AccurateUnlessRestarted ==
  RealUnlessRestarted /\ (budget.restarts = MaxRestarts => Linked /\ Accurate)

(* Losing a message, or no step at all, keeps both.                        *)
LEMMA UnchangedKeepsAccurate ==
  ASSUME Linked, Accurate, msgs' \subseteq msgs,
         interval' = interval, uln' = uln, rt' = rt, vg' = vg, discReq' = discReq, alive' = alive
  PROVE  Linked' /\ Accurate'
<1>1. /\ \A n \in Node : /\ UpLinked(n, interval'[n]) /\ TableLinked(n, uln'[n])
                         /\ ReqLinked(n, discReq'[n]) /\ GraphLinked(vg'[n])
                         /\ ContactsLinked(n, rt'[n])
      /\ \A p \in msgs' : MsgLinked(p)
  BY DEF Linked
<1>2. Linked'
  BY <1>1 DEF Linked, UpLinked, TableLinked, ReqLinked, GraphLinked, ContactsLinked, MsgLinked,
              UlnContains, Adj
<1>3. /\ \A p \in msgs' : MsgAccurate(p, uln', alive')
      /\ \A n \in Node : GraphAccurate(vg'[n], n, uln', alive')
  BY DEF Accurate
<1>4. Accurate'
  BY <1>3 DEF Accurate, MsgAccurate, GraphAccurate, BidirectionalSet
<1> QED
  BY <1>2, <1>4

(* Every step keeps Linked and Accurate, unless it is a restart.           *)
LEMMA NextAccurate ==
  ASSUME TriangleFree, WellFormed, AccurateUnlessRestarted, [Next]_vars
  PROVE  AccurateUnlessRestarted'
<1>1. WellFormed' /\ RealUnlessRestarted /\ RealUnlessRestarted'
  BY NextWellFormed, NextReal DEF AccurateUnlessRestarted
<1>2. budget.restarts \in Nat /\ MaxRestarts \in Nat /\ budget.restarts <= MaxRestarts
  BY <1>1, ConfigAssumption DEF WellFormed, TypeOK, RealUnlessRestarted
<1>3. ASSUME budget'.restarts = budget.restarts,
             Real /\ Linked /\ Accurate => Linked' /\ Accurate'
      PROVE  AccurateUnlessRestarted'
  <2>1. budget.restarts = MaxRestarts => Real /\ Linked /\ Accurate
    BY <1>1 DEF RealUnlessRestarted, AccurateUnlessRestarted
  <2>2. (budget'.restarts = MaxRestarts) => Linked' /\ Accurate'
    BY <1>3, <2>1
  <2> QED
    BY <1>1, <2>2 DEF AccurateUnlessRestarted
<1>4. ASSUME NEW p \in msgs, Lose(p) \/ Receive(p.to, p) PROVE AccurateUnlessRestarted'
  <2>1. p.to \in Node
    BY MessageFields DEF WellFormed, TypeOK
  <2>2. budget' = budget
    BY <1>4 DEF Lose, Receive, RecvHelloSilently, AnswerHello, RecvDiscReq, RecvDiscRsp,
                RecvOnDownInterface, ForwardQuery, RecvQueryReq, RecvQueryRsp
  <2>3. ASSUME Lose(p), Linked, Accurate PROVE Linked' /\ Accurate'
    <3>1. /\ interval' = interval /\ uln' = uln /\ rt' = rt /\ vg' = vg /\ discReq' = discReq
          /\ alive' = alive /\ msgs' \subseteq msgs
      BY <2>3 DEF Lose, Drop, nodeVars, reqVars, ifaceVars
    <3> QED
      BY <2>3, <3>1, UnchangedKeepsAccurate
  <2>4. ASSUME Receive(p.to, p), Real, Linked, Accurate PROVE Linked' /\ Accurate'
    BY <1>1, <2>1, <2>4, HelloKeepsAccurate, DiscKeepsAccurate, QueryKeepsAccurate DEF Receive
  <2> QED
    BY <1>3, <1>4, <2>2, <2>3, <2>4
<1>5. ASSUME NEW n \in Node, Timeout(n) PROVE AccurateUnlessRestarted'
  <2>1. budget' = budget
    <3>1. ASSUME Resync(n) PROVE budget' = budget
      <4>1. PICK D, Q, via, nonce, clean : StartSyncs(n, D, Q, via, nonce, clean)
        BY <3>1 DEF Resync
      <4> QED
        BY <4>1 DEF StartSyncs
    <3> QED
      BY <1>5, <3>1 DEF Timeout, HelloTimer, DiscTimerStale, DiscGiveUp, DiscRetry,
                        QueryTimerStale, QueryGiveUp, QueryRetry
  <2> QED
    BY <1>1, <1>3, <1>5, <2>1, TimersKeepAccurate, ResyncKeepsAccurate DEF Timeout
<1>6. ASSUME NEW n \in Node, UnderlayUpdate(n) PROVE AccurateUnlessRestarted'
  <2>1. budget'.restarts = budget.restarts
    BY <1>6 DEF UnderlayUpdate, InterfaceUp, InterfaceDown, NeighborDown, WellFormed, TypeOK
  <2> QED
    BY <1>1, <1>3, <1>6, <2>1, TimersKeepAccurate, RemovalKeepsAccurate DEF UnderlayUpdate
<1>7. ASSUME NEW n \in Node, NEW m \in Node, ContactDead(n, m) PROVE AccurateUnlessRestarted'
  <2>1. budget' = budget
    BY <1>7 DEF ContactDead
  <2> QED
    BY <1>1, <1>3, <1>7, <2>1, RemovalKeepsAccurate
<1>8. ASSUME NEW n \in Node, Restart(n) PROVE AccurateUnlessRestarted'
  <2>1. budget'.restarts = budget.restarts - 1
    BY <1>8 DEF Restart, WellFormed, TypeOK
  <2> QED
    BY <1>1, <1>2, <2>1 DEF AccurateUnlessRestarted
<1>9. CASE UNCHANGED vars
  <2>1. /\ interval' = interval /\ uln' = uln /\ rt' = rt /\ vg' = vg /\ discReq' = discReq
        /\ alive' = alive /\ msgs' \subseteq msgs /\ budget' = budget
    BY <1>9 DEF vars
  <2> QED
    BY <1>3, <2>1, UnchangedKeepsAccurate
<1> QED
  BY <1>4, <1>5, <1>6, <1>7, <1>8, <1>9 DEF Next

(* Initially no SSN is observed and nothing is on its way.                 *)
LEMMA InitAccurate == Init => AccurateUnlessRestarted
<1> SUFFICES ASSUME Init PROVE AccurateUnlessRestarted
  OBVIOUS
<1>1. RealUnlessRestarted
  BY InitReal
<1>2. /\ \A n \in Node : /\ \A l \in Link : interval[n][l] = 0
                         /\ \A m \in Node : /\ uln[n].state[m] = "Vacant"
                                            /\ discReq[n][m].nonce = 0 /\ rt[n][m].ssn = 0
                         /\ vg[n].edges = {}
      /\ msgs = {}
  BY DEF Init, NewTable, NewGraph, NoRequest, NoContact
<1>3. Linked
  BY <1>2 DEF Linked, UpLinked, TableLinked, ReqLinked, GraphLinked, ContactsLinked, UlnContains
<1>4. Accurate
  BY <1>2 DEF Accurate, GraphAccurate
<1> QED
  BY <1>1, <1>3, <1>4 DEF AccurateUnlessRestarted

(* Accurate is more than SyncedMeansAccurate says of running nodes.        *)
LEMMA AccurateIsEnough ==
  ASSUME WellFormed, Accurate, alive = Node
  PROVE  SyncedMeansAccurate
<1> SUFFICES ASSUME NEW n \in Node, NEW m \in Node, n # m, IsDirectUln(vg[n], n, m),
                    vg[n].synced[m] = uln[m].ssn
             PROVE  Neighbors(vg[n], m) \ {n} = BidirectionalSet(uln[m]) \ {n}
  BY DEF SyncedMeansAccurate
<1>1. {n, m} \in vg[n].edges
  BY DEF IsDirectUln, Neighbors
<1>2. \A k \in Node \ {n} : {m, k} \in vg[n].edges <=> k \in BidirectionalSet(uln[m])
  BY <1>1 DEF Accurate, GraphAccurate
<1>3. Neighbors(vg[n], m) = {k \in Node : {m, k} \in vg[n].edges}
  BY DEF Neighbors
<1>4. BidirectionalSet(uln[m]) \subseteq Node
  BY DEF BidirectionalSet
<1> QED
  BY <1>2, <1>3, <1>4

(* In every network in which no two neighbours of a node are neighbours of *)
(* each other, as long as no node has restarted or panicked: if the graph  *)
(* holds a direct neighbour as synchronised with its present SSN, it holds *)
(* exactly the neighbours that node has confirmed.  So neither late nor    *)
(* repeated ULNDiscReqs and ULNDiscRsps, nor clean-ups by retain_vicinity, *)
(* nor the give-up of another neighbour leave a wrong picture that         *)
(* schedule_syncs would take for a synchronised one.  With a triangle the  *)
(* give-up (VicinityGraph::remove) breaks it.                              *)
THEOREM SyncedAlwaysAccurate ==
  TriangleFree =>
    (Spec => [](budget.restarts = MaxRestarts /\ alive = Node => SyncedMeansAccurate))
<1> SUFFICES ASSUME TriangleFree
             PROVE  Spec => [](budget.restarts = MaxRestarts /\ alive = Node => SyncedMeansAccurate)
  OBVIOUS
<1>1. Init => AccurateUnlessRestarted
  BY InitAccurate
<1>2. WellFormed /\ AccurateUnlessRestarted /\ [Next]_vars => AccurateUnlessRestarted'
  BY NextAccurate
<1>3. WellFormed /\ AccurateUnlessRestarted
        => (budget.restarts = MaxRestarts /\ alive = Node => SyncedMeansAccurate)
  BY AccurateIsEnough DEF AccurateUnlessRestarted
<1> QED
  BY <1>1, <1>2, <1>3, WellFormedAlways, PTL DEF Spec

=============================================================================
