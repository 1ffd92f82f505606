--------------------- MODULE ExplicitPathManagement_proof ---------------------
(***************************************************************************)
(* Proofs that the soft state of explicit paths ends and that no path      *)
(* outlives its record in the forwarding tables, for all paths, links,     *)
(* intervals and bounds.                                                   *)
(*                                                                         *)
(* Ages: a recorded path is younger than max_age when the cleanup has run, *)
(* and then ages as fast as the cleanup timer runs down.  Tables: the last *)
(* update on its way that creates a long path without a record is followed *)
(* by one that removes it; if there is none, the path is not installed.    *)
(***************************************************************************)
EXTENDS ExplicitPathManagement, FiniteSetTheorems, SequenceTheorems, TLAPS

PathUpd == [op : {"Create", "Update", "CreateOrUpdate", "Remove"}, in : PathId,
            hop : Link \cup {NoLink}]

RecordOK(n, r) ==
  r \in [DOMAIN r -> Entry] /\ DOMAIN r \subseteq LongPaths(n) /\ IsFiniteSet(DOMAIN r)

(* A message is on its way to a node that records its path.                *)
OnItsWay(m) == /\ m \in Message /\ m.at \in 1 .. Len(m.path)
               /\ Len(m.path) - m.at + 1 > VICINITY_RADIUS

TablesOK(t) == t = NativeFwdTables(t.path, t.rule, t.via)

PathType ==
  /\ contact \in [valid : BOOLEAN, path : Paths]
  /\ \A m \in net : OnItsWay(m)
  /\ recorded = [n \in Node |-> recorded[n]] /\ \A n \in Node : RecordOK(n, recorded[n])
  /\ uln \in [Hop -> Link \cup {NoLink}]
  /\ cleanup \in [Transit -> 0 .. CleanupInterval]
  /\ computed = [n \in Node |-> computed[n]]
  /\ \A n \in Node : computed[n] \subseteq ShortPaths(n) \X Link /\ IsFiniteSet(computed[n])
  /\ updates = [n \in Node |-> updates[n]] /\ \A n \in Node : updates[n] \in Seq(PathUpd)
  /\ tables = [n \in Node |-> tables[n]] /\ \A n \in Node : TablesOK(tables[n])

(* A record is as old as the time since the last cleanup allows.           *)
AgesOK ==
  \A n \in Transit : \A s \in DOMAIN recorded[n] :
    recorded[n][s].age < MaxAge + (CleanupInterval - cleanup[n])

(* An update that does not install s.                                      *)
Harmless(u, s) == u.in # s \/ u.op = "Remove"

(* When all updates are applied, s is not installed.                       *)
NotComing(q, t, s) ==
  \E k \in 0 .. Len(q) :
    /\ \A j \in k + 1 .. Len(q) : Harmless(q[j], s)
    /\ IF k = 0 THEN s \notin DOMAIN t.path ELSE q[k].op = "Remove" /\ q[k].in = s

ForgottenNotComing ==
  \A n \in Node : \A s \in LongPaths(n) \ DOMAIN recorded[n] : NotComing(updates[n], tables[n], s)

PathInv == PathType /\ AgesOK /\ ForgottenNotComing
-------------------------------------------------------------------------------
(* Paths and path ids *)

(* The rest of a path from a node on it is a path id that starts there.    *)
LEMMA SuffixFacts ==
  ASSUME NEW p \in Paths, NEW i \in 1 .. Len(p)
  PROVE  LET s == SubSeq(p, i, Len(p))
         IN  /\ s \in PathId /\ s \in Seq(Node) /\ Len(s) = Len(p) - i + 1
             /\ s[1] = p[i] /\ p[i] \in Node
<1>1. p \in Seq(Node) /\ Len(p) \in Nat
  BY PathAssumption
<1>2. \A j \in i .. Len(p) : p[j] \in Node
  BY <1>1
<1>3. /\ SubSeq(p, i, Len(p)) \in Seq(Node) /\ Len(SubSeq(p, i, Len(p))) = Len(p) - i + 1
      /\ SubSeq(p, i, Len(p))[1] = p[i]
  BY <1>1, <1>2, SubSeqProperties
<1>4. SubSeq(p, i, Len(p)) \in PathId
  BY DEF PathId
<1> QED
  BY <1>2, <1>3, <1>4

(* Path ids are not empty and consist of nodes.                            *)
LEMMA PathIdFacts ==
  ASSUME NEW s \in PathId
  PROVE  s \in Seq(Node) /\ Len(s) \in Nat \ {0} /\ s[1] \in Node
<1>1. PICK p \in Paths : \E i \in 1 .. Len(p) : s = SubSeq(p, i, Len(p))
  BY DEF PathId
<1>2. PICK i \in 1 .. Len(p) : s = SubSeq(p, i, Len(p))
  BY <1>1
<1>3. p \in Seq(Node) /\ Len(p) \in Nat
  BY PathAssumption
<1> QED
  BY <1>2, <1>3, SuffixFacts

(* There are finitely many path ids.                                       *)
LEMMA PathIdFinite == IsFiniteSet(PathId)
<1> DEFINE Rests(p) == {SubSeq(p, i, Len(p)) : i \in 1 .. Len(p)}
           All == {Rests(p) : p \in Paths}
<1>1. ASSUME NEW p \in Paths PROVE IsFiniteSet(Rests(p))
  <2> DEFINE f == [i \in 1 .. Len(p) |-> SubSeq(p, i, Len(p))]
  <2>1. Len(p) \in Nat /\ IsFiniteSet(1 .. Len(p))
    BY PathAssumption, FS_Interval
  <2>2. f \in Surjection(1 .. Len(p), Rests(p))
    BY DEF Surjection
  <2> QED
    BY <2>1, <2>2, FS_Surjection
<1> HIDE DEF Rests
<1>2. IsFiniteSet(All)
  <2> DEFINE f == [p \in Paths |-> Rests(p)]
  <2>1. f \in Surjection(Paths, All)
    BY DEF Surjection
  <2> QED
    BY <2>1, FS_Surjection, PathAssumption
<1>3. \A T \in All : IsFiniteSet(T)
  BY <1>1
<1>4. IsFiniteSet(UNION All)
  BY <1>2, <1>3, FS_UNION
<1>5. UNION All = PathId
  BY DEF PathId, Rests
<1> QED
  BY <1>4, <1>5

(* A hop of a node leads from a node on some path.                         *)
LEMMA HopFacts ==
  /\ \A h \in Hop : h[1] \in Node
  /\ \A s \in PathId : Len(s) > 1 => HopOf(s) \in Hop
  /\ \A n \in Node : \A s \in ShortPaths(n) : HopOf(s) \in Hop /\ s \in PathId
BY PathIdFacts DEF Hop, HopOf, ShortPaths

(* A path is either recorded on request or precomputed.                    *)
LEMMA LongOrShort ==
  ASSUME NEW n \in Node, NEW s \in LongPaths(n)
  PROVE  /\ s \notin ShortPaths(n) /\ s \in PathId /\ n \in Transit
         /\ HopOf(s) \in Hop /\ Len(s) > VICINITY_RADIUS
<1>1. s \in PathId /\ Len(s) \in Nat /\ Len(s) > VICINITY_RADIUS
  BY PathIdFacts DEF LongPaths
<1>2. s \notin ShortPaths(n) /\ Len(s) > 1
  BY <1>1, PathAssumption DEF ShortPaths
<1>3. n \in Transit
  BY DEF Transit
<1> QED
  BY <1>1, <1>2, <1>3, HopFacts

-------------------------------------------------------------------------------
(* Updates for sets of paths *)

(* The order in which a finite set is listed leaves nothing out.           *)
LEMMA SetToSeqFacts ==
  ASSUME NEW S, IsFiniteSet(S)
  PROVE  /\ Cardinality(S) \in Nat
         /\ SetToSeq(S) \in [1 .. Cardinality(S) -> S]
         /\ \A x \in S : \E i \in 1 .. Cardinality(S) : SetToSeq(S)[i] = x
<1>1. Cardinality(S) \in Nat /\ \E f \in [1 .. Cardinality(S) -> S] : IsInjective(f)
  BY FS_CardinalityType DEF ExistsBijection, Bijection, Injection, IsInjective
<1>2. SetToSeq(S) \in [1 .. Cardinality(S) -> S] /\ IsInjective(SetToSeq(S))
  BY <1>1 DEF SetToSeq
<1>3. SetToSeq(S) \in Injection(1 .. Cardinality(S), S)
  BY <1>2 DEF Injection, IsInjective
<1>4. Cardinality(1 .. Cardinality(S)) = Cardinality(S)
  BY <1>1, FS_Interval
<1>5. SetToSeq(S) \in Surjection(1 .. Cardinality(S), S)
  BY <1>3, <1>4, FS_Injection
<1> QED
  BY <1>1, <1>2, <1>5 DEF Surjection

(* perform_cleanup and invalidate_all_over_interfaces send one Remove for  *)
(* every path they forget.                                                 *)
LEMMA RemoveUpdatesFacts ==
  ASSUME NEW S \in SUBSET PathId, IsFiniteSet(S)
  PROVE  /\ RemoveUpdates(S) \in Seq(PathUpd)
         /\ \A i \in 1 .. Len(RemoveUpdates(S)) : RemoveUpdates(S)[i].op = "Remove"
         /\ \A x \in S : \E i \in 1 .. Len(RemoveUpdates(S)) : RemoveUpdates(S)[i].in = x
<1> DEFINE n == Cardinality(S)
           q == SetToSeq(S)
<1>1. n \in Nat /\ q \in [1 .. n -> S] /\ \A x \in S : \E i \in 1 .. n : q[i] = x
  BY SetToSeqFacts
<1> HIDE DEF n, q
<1>2. RemoveUpdates(S) = [i \in 1 .. n |-> PathUpdate("Remove", q[i], NoLink)]
  BY DEF RemoveUpdates, n, q
<1>3. \A i \in 1 .. n : PathUpdate("Remove", q[i], NoLink) \in PathUpd
  BY <1>1 DEF PathUpdate, PathUpd
<1>4. RemoveUpdates(S) \in [1 .. n -> PathUpd]
  BY <1>2, <1>3
<1>5. RemoveUpdates(S) \in Seq(PathUpd) /\ Len(RemoveUpdates(S)) = n
  BY <1>1, <1>4, SeqDef
<1> QED
  BY <1>1, <1>2, <1>5 DEF PathUpdate

(* gen_entries_from_graph gives entries of short paths.                    *)
LEMMA GenEntriesFacts ==
  ASSUME NEW n \in Node, NEW m \in [Hop -> Link \cup {NoLink}], NEW e
  PROVE  GenEntries(n, m, e) \subseteq ShortPaths(n) \X Link /\ IsFiniteSet(GenEntries(n, m, e))
<1> DEFINE X == {s \in ShortPaths(n) : HopOf(s) \in e /\ m[HopOf(s)] # NoLink}
           f == [s \in X |-> <<s, m[HopOf(s)]>>]
<1>1. IsFiniteSet(X)
  BY PathIdFinite, FS_Subset, HopFacts
<1>2. f \in Surjection(X, GenEntries(n, m, e))
  BY DEF Surjection, GenEntries
<1>3. IsFiniteSet(GenEntries(n, m, e))
  BY <1>1, <1>2, FS_Surjection
<1>4. \A s \in X : m[HopOf(s)] \in Link
  BY HopFacts
<1>5. GenEntries(n, m, e) \subseteq ShortPaths(n) \X Link
  BY <1>4 DEF GenEntries
<1> QED
  BY <1>3, <1>5

(* The updates for a set of entries of short paths.                        *)
LEMMA ShortUpdates ==
  ASSUME NEW n \in Node, NEW S \in SUBSET (ShortPaths(n) \X Link), IsFiniteSet(S),
         NEW q, \/ q = [i \in 1 .. Cardinality(S) |-> PathUpdate("Remove", SetToSeq(S)[i][1], NoLink)]
                \/ q = [i \in 1 .. Cardinality(S) |->
                          PathUpdate("CreateOrUpdate", SetToSeq(S)[i][1], SetToSeq(S)[i][2])]
  PROVE  q \in Seq(PathUpd) /\ \A i \in 1 .. Len(q) : q[i].in \in ShortPaths(n)
<1> DEFINE c == Cardinality(S)
           o == SetToSeq(S)
<1>1. c \in Nat /\ o \in [1 .. c -> S]
  BY SetToSeqFacts
<1> HIDE DEF c, o
<1>2. \A i \in 1 .. c : o[i][1] \in ShortPaths(n) /\ o[i][1] \in PathId /\ o[i][2] \in Link
  BY <1>1, HopFacts
<1>3. CASE q = [i \in 1 .. c |-> PathUpdate("Remove", o[i][1], NoLink)]
  <2>1. q \in [1 .. c -> PathUpd] /\ \A i \in 1 .. c : q[i].in \in ShortPaths(n)
    BY <1>2, <1>3 DEF PathUpdate, PathUpd
  <2> QED
    BY <1>1, <2>1, SeqDef
<1>4. CASE q = [i \in 1 .. c |-> PathUpdate("CreateOrUpdate", o[i][1], o[i][2])]
  <2>1. q \in [1 .. c -> PathUpd] /\ \A i \in 1 .. c : q[i].in \in ShortPaths(n)
    BY <1>2, <1>4 DEF PathUpdate, PathUpd
  <2> QED
    BY <1>1, <2>1, SeqDef
<1> QED
  BY <1>3, <1>4 DEF c, o

(* precompute_paths_and_ids sends updates on short paths only.             *)
LEMMA PrecomputeFacts ==
  ASSUME PathType, NEW n \in Node, NEW m \in [Hop -> Link \cup {NoLink}], NEW e
  PROVE  /\ PrecomputeUpdates(n, m, e) \in Seq(PathUpd)
         /\ \A i \in 1 .. Len(PrecomputeUpdates(n, m, e)) :
              PrecomputeUpdates(n, m, e)[i].in \in ShortPaths(n)
<1> DEFINE new == GenEntries(n, m, e)
           G == computed[n] \ new
           N == new \ computed[n]
           q == [i \in 1 .. Cardinality(G) |-> PathUpdate("Remove", SetToSeq(G)[i][1], NoLink)]
           r == [i \in 1 .. Cardinality(N) |->
                   PathUpdate("CreateOrUpdate", SetToSeq(N)[i][1], SetToSeq(N)[i][2])]
<1>1. /\ G \in SUBSET (ShortPaths(n) \X Link) /\ IsFiniteSet(G)
      /\ N \in SUBSET (ShortPaths(n) \X Link) /\ IsFiniteSet(N)
  BY GenEntriesFacts, FS_Difference DEF PathType
<1>2. PrecomputeUpdates(n, m, e) = q \o r
  BY DEF PrecomputeUpdates
<1>3. q \in Seq(PathUpd) /\ \A i \in 1 .. Len(q) : q[i].in \in ShortPaths(n)
  BY <1>1, ShortUpdates
<1>4. r \in Seq(PathUpd) /\ \A i \in 1 .. Len(r) : r[i].in \in ShortPaths(n)
  BY <1>1, ShortUpdates
<1> HIDE DEF q, r
<1>5. /\ q \o r \in Seq(PathUpd) /\ Len(q \o r) = Len(q) + Len(r)
      /\ \A i \in 1 .. Len(q) + Len(r) : (q \o r)[i] = IF i <= Len(q) THEN q[i] ELSE r[i - Len(q)]
  BY <1>3, <1>4, ConcatProperties
<1>6. ASSUME NEW i \in 1 .. Len(q) + Len(r) PROVE (q \o r)[i].in \in ShortPaths(n)
  <2>1. Len(q) \in Nat /\ Len(r) \in Nat
    BY <1>3, <1>4
  <2>2. CASE i <= Len(q)
    BY <1>3, <1>5, <2>1, <2>2
  <2>3. CASE i > Len(q)
    <3>1. i - Len(q) \in 1 .. Len(r)
      BY <2>1, <2>3
    <3> QED
      BY <1>4, <1>5, <2>1, <2>3, <3>1
  <2> QED
    BY <2>1, <2>2, <2>3
<1> QED
  BY <1>2, <1>5, <1>6

-------------------------------------------------------------------------------
(* The channel to the forwarding tables *)

(* Updates that do not install s leave it uninstalled.                     *)
LEMMA NotComingAfter ==
  ASSUME NEW q \in Seq(PathUpd), NEW r \in Seq(PathUpd), NEW t, NEW s, NotComing(q, t, s),
         \A i \in 1 .. Len(r) : Harmless(r[i], s)
  PROVE  NotComing(q \o r, t, s)
<1>1. PICK k \in 0 .. Len(q) :
        /\ \A j \in k + 1 .. Len(q) : Harmless(q[j], s)
        /\ IF k = 0 THEN s \notin DOMAIN t.path ELSE q[k].op = "Remove" /\ q[k].in = s
  BY DEF NotComing
<1>2. /\ Len(q) \in Nat /\ Len(r) \in Nat /\ Len(q \o r) = Len(q) + Len(r)
      /\ \A i \in 1 .. Len(q) + Len(r) : (q \o r)[i] = IF i <= Len(q) THEN q[i] ELSE r[i - Len(q)]
  BY ConcatProperties
<1>3. ASSUME NEW j \in k + 1 .. Len(q \o r) PROVE Harmless((q \o r)[j], s)
  <2>1. CASE j <= Len(q)
    BY <1>1, <1>2, <2>1
  <2>2. CASE j > Len(q)
    <3>1. j - Len(q) \in 1 .. Len(r) /\ (q \o r)[j] = r[j - Len(q)]
      BY <1>1, <1>2, <2>2
    <3> QED
      BY <3>1
  <2> QED
    BY <1>1, <1>2, <2>1, <2>2
<1>4. k # 0 => (q \o r)[k] = q[k]
  BY <1>1, <1>2
<1>5. k \in 0 .. Len(q \o r)
  BY <1>1, <1>2
<1> QED
  BY <1>1, <1>3, <1>4, <1>5 DEF NotComing

(* Updates that only remove paths, s among them, leave it uninstalled.     *)
LEMMA NotComingRemoved ==
  ASSUME NEW q \in Seq(PathUpd), NEW r \in Seq(PathUpd), NEW t, NEW s,
         \A i \in 1 .. Len(r) : r[i].op = "Remove", \E i \in 1 .. Len(r) : r[i].in = s
  PROVE  NotComing(q \o r, t, s)
<1>1. PICK i \in 1 .. Len(r) : r[i].in = s
  OBVIOUS
<1>2. /\ Len(q) \in Nat /\ Len(r) \in Nat /\ Len(q \o r) = Len(q) + Len(r)
      /\ \A j \in 1 .. Len(q) + Len(r) : (q \o r)[j] = IF j <= Len(q) THEN q[j] ELSE r[j - Len(q)]
  BY ConcatProperties
<1> DEFINE k == Len(q) + i
<1>3. k \in 0 .. Len(q \o r) /\ k # 0 /\ (q \o r)[k] = r[i]
  BY <1>1, <1>2
<1>4. ASSUME NEW j \in k + 1 .. Len(q \o r) PROVE Harmless((q \o r)[j], s)
  <2>1. j - Len(q) \in 1 .. Len(r) /\ (q \o r)[j] = r[j - Len(q)]
    BY <1>2
  <2> QED
    BY <2>1 DEF Harmless
<1>5. (q \o r)[k].op = "Remove" /\ (q \o r)[k].in = s
  BY <1>1, <1>3
<1> HIDE DEF k
<1> QED
  BY <1>3, <1>4, <1>5 DEF NotComing

(* What one update does to the domain of the path id table.                *)
LEMMA ApplyFacts ==
  ASSUME NEW t, TablesOK(t), NEW u \in PathUpd, NEW known, NEW s
  PROVE  LET a == ApplyPathUpdate(t, u, known)
         IN  /\ TablesOK(a)
             /\ u.in # s => (s \in DOMAIN a.path <=> s \in DOMAIN t.path)
             /\ u.op = "Remove" => DOMAIN a.path = DOMAIN t.path \ {u.in}
<1> DEFINE a == ApplyPathUpdate(t, u, known)
           c == PathCreateOrUpdate(t, u.in, u.hop, known)
           d == NativeFwdTables(Put(t.path, u.in, u.hop), Put(t.rule, u.in, Tail(u.in)),
                                Put(t.via, Tail(u.in), u.hop))
           e == PathRemove(t, u.in)
<1>2. TablesOK(d) /\ DOMAIN d.path = DOMAIN t.path \cup {u.in}
  BY DEF TablesOK, NativeFwdTables, Put
<1>3. TablesOK(e) /\ DOMAIN e.path = DOMAIN t.path \ {u.in}
  BY DEF PathRemove, TablesOK, NativeFwdTables, Without, Restrict
<1>4. c = t \/ c = d
  BY DEF PathCreateOrUpdate
<1>5. u.op \in {"Create", "Update", "CreateOrUpdate", "Remove"}
  BY DEF PathUpd
<1>6. IF u.op = "Remove" THEN a = e ELSE a = t \/ a = c
  BY <1>5 DEF ApplyPathUpdate
<1> HIDE DEF a, c, d, e
<1>7. TablesOK(a) /\ (IF u.op = "Remove" THEN a = e ELSE a = t \/ a = d)
  BY <1>2, <1>3, <1>4, <1>6
<1> QED
  BY <1>2, <1>3, <1>7 DEF a

(* The table task takes the first update: what is not coming still is not. *)
LEMMA NotComingApplied ==
  ASSUME NEW q \in Seq(PathUpd), q # <<>>, NEW t, TablesOK(t), NEW known, NEW s, NotComing(q, t, s)
  PROVE  NotComing(Tail(q), ApplyPathUpdate(t, Head(q), known), s)
<1> DEFINE a == ApplyPathUpdate(t, Head(q), known)
           r == Tail(q)
<1>1. PICK k \in 0 .. Len(q) :
        /\ \A j \in k + 1 .. Len(q) : Harmless(q[j], s)
        /\ IF k = 0 THEN s \notin DOMAIN t.path ELSE q[k].op = "Remove" /\ q[k].in = s
  BY DEF NotComing
<1>2. /\ Len(q) \in Nat \ {0} /\ Len(r) = Len(q) - 1 /\ Head(q) = q[1] /\ q[1] \in PathUpd
      /\ \A j \in 1 .. Len(q) - 1 : r[j] = q[j + 1]
  OBVIOUS
<1>3. /\ q[1].in # s => (s \in DOMAIN a.path <=> s \in DOMAIN t.path)
      /\ q[1].op = "Remove" => DOMAIN a.path = DOMAIN t.path \ {q[1].in}
  BY <1>2, ApplyFacts
<1> HIDE DEF a, r
<1>4. CASE k \in {0, 1}
  <2>1. \A j \in 1 .. Len(r) : Harmless(r[j], s)
    BY <1>1, <1>2, <1>4
  <2>2. s \notin DOMAIN a.path
    <3>1. CASE k = 0
      <4>1. Harmless(q[1], s) /\ s \notin DOMAIN t.path
        BY <1>1, <1>2, <3>1
      <4> QED
        BY <1>3, <4>1 DEF Harmless
    <3>2. CASE k = 1
      BY <1>1, <1>3, <3>2
    <3> QED
      BY <1>4, <3>1, <3>2
  <2>3. 0 \in 0 .. Len(r) /\ \A j \in 0 + 1 .. Len(r) : Harmless(r[j], s)
    BY <1>2, <2>1
  <2>4. NotComing(r, a, s)
    BY <2>2, <2>3 DEF NotComing
  <2> QED
    BY <2>4 DEF a, r
<1>5. CASE k > 1
  <2>1. k - 1 \in 0 .. Len(r) /\ k - 1 # 0 /\ r[k - 1] = q[k]
    BY <1>1, <1>2, <1>5
  <2>2. ASSUME NEW j \in (k - 1) + 1 .. Len(r) PROVE Harmless(r[j], s)
    <3>1. j + 1 \in k + 1 .. Len(q) /\ r[j] = q[j + 1]
      BY <1>1, <1>2, <1>5
    <3> QED
      BY <1>1, <3>1
  <2>3. r[k - 1].op = "Remove" /\ r[k - 1].in = s
    BY <1>1, <1>5, <2>1
  <2> QED
    BY <2>1, <2>2, <2>3 DEF NotComing, a, r
<1> QED
  BY <1>1, <1>4, <1>5

-------------------------------------------------------------------------------
(* The steps *)

(* At the beginning nothing is recorded and only short paths are installed. *)
LEMMA InitPath == Init => PathInv
<1> SUFFICES ASSUME Init PROVE PathInv
  OBVIOUS
<1>1. uln \in [Hop -> Link \cup {NoLink}]
  <2>1. \A h \in Hop : (CHOOSE l \in LinksOf(h) : TRUE) \in LinksOf(h)
    BY PathAssumption
  <2>2. \A h \in Hop : (CHOOSE l \in LinksOf(h) : TRUE) \in Link
    BY <2>1, PathAssumption
  <2>3. uln = [h \in Hop |-> CHOOSE l \in LinksOf(h) : TRUE]
    BY DEF Init
  <2> QED
    BY <2>2, <2>3
<1>2. \A n \in Node : recorded[n] = <<>> /\ DOMAIN recorded[n] = {}
  BY DEF Init
<1>3. \A n \in Node : RecordOK(n, recorded[n])
  <2>1. <<>> \in [{} -> Entry]
    <3>1. <<>> \in [1 .. 0 -> Entry]
      BY LenProperties, EmptySeq
    <3> QED
      BY <3>1
  <2>2. ASSUME NEW n \in Node PROVE recorded[n] \in [DOMAIN recorded[n] -> Entry]
    BY <1>2, <2>1
  <2> QED
    BY <1>2, <2>2, FS_EmptySet DEF RecordOK
<1>4. \A n \in Node : computed[n] \subseteq ShortPaths(n) \X Link /\ IsFiniteSet(computed[n])
  <2>1. ASSUME NEW n \in Node PROVE computed[n] = GenEntries(n, uln, edges)
    BY DEF Init
  <2> QED
    BY <1>1, <2>1, GenEntriesFacts
<1>5. \A n \in Node : TablesOK(tables[n]) /\ DOMAIN tables[n].path = ShortPaths(n)
  BY DEF Init, TablesOK, VicinityTables, NativeFwdTables
<1>6. \A n \in Node : updates[n] = <<>>
  BY DEF Init
<1>7. /\ contact \in [valid : BOOLEAN, path : Paths] /\ net = {}
      /\ cleanup \in [Transit -> 0 .. CleanupInterval]
  <2>1. contact \in [valid : {FALSE}, path : Paths] /\ cleanup \in [Transit -> {CleanupInterval}]
        /\ net = {}
    BY DEF Init
  <2>2. CleanupInterval \in 0 .. CleanupInterval
    BY PathAssumption
  <2> QED
    BY <2>1, <2>2
<1>8. PathType
  <2>1. /\ recorded = [n \in Node |-> recorded[n]] /\ computed = [n \in Node |-> computed[n]]
        /\ updates = [n \in Node |-> updates[n]] /\ tables = [n \in Node |-> tables[n]]
    BY DEF Init
  <2>2. \A n \in Node : updates[n] \in Seq(PathUpd)
    BY <1>6, EmptySeq
  <2> QED
    BY <1>1, <1>3, <1>4, <1>5, <1>7, <2>1, <2>2 DEF PathType
<1>9. AgesOK
  BY <1>2 DEF AgesOK, Transit
<1>10. ASSUME NEW n \in Node, NEW s \in LongPaths(n) PROVE NotComing(updates[n], tables[n], s)
  <2>1. s \notin DOMAIN tables[n].path
    BY <1>5, LongOrShort
  <2>2. Len(updates[n]) = 0
    BY <1>6
  <2> QED
    BY <2>1, <2>2 DEF NotComing
<1> QED
  BY <1>8, <1>9, <1>10 DEF PathInv, ForgottenNotComing

(* The source sends its requests to the first node of the path.            *)
LEMMA SendOK ==
  ASSUME PathType, NEW p \in Paths, NEW m \in Send(p)
  PROVE  OnItsWay(m)
<1>1. CASE m \in net
  BY <1>1 DEF PathType
<1>2. CASE m = [path |-> p, at |-> 1] /\ Len(p) > VICINITY_RADIUS
  <2>1. Len(p) \in Nat
    BY PathAssumption
  <2> QED
    BY <1>2, <2>1, PathAssumption DEF OnItsWay, Message
<1> QED
  BY <1>1, <1>2 DEF Send

(* Steps of the source and losses: only messages change.                   *)
LEMMA SourceStep ==
  ASSUME PathInv, \A m \in net' : OnItsWay(m), contact' \in [valid : BOOLEAN, path : Paths],
         UNCHANGED <<recorded, computed, updates, tables, uln, cleanup>>
  PROVE  PathInv'
BY DEF PathInv, PathType, AgesOK, ForgottenNotComing

(* The source.                                                             *)
LEMMA SourceKeeps ==
  ASSUME PathInv, \/ \E p \in Paths : ContactValid(p)
                  \/ ContactLost \/ PerformRefresh \/ \E m \in net : Lose(m)
  PROVE  PathInv'
<1>1. ASSUME NEW p \in Paths, ContactValid(p) PROVE PathInv'
  BY <1>1, SendOK, SourceStep DEF ContactValid, PathInv, underlay, clocks
<1>2. CASE ContactLost
  <2>1. contact' \in [valid : BOOLEAN, path : Paths]
    BY <1>2 DEF ContactLost, PathInv, PathType
  <2> QED
    BY <1>2, <2>1, SourceStep DEF ContactLost, PathInv, PathType, underlay, clocks
<1>3. CASE PerformRefresh
  <2>1. contact.path \in Paths /\ \A m \in net : OnItsWay(m)
    BY DEF PathInv, PathType
  <2>2. \A m \in net' : OnItsWay(m)
    BY <1>3, <2>1, SendOK DEF PerformRefresh, PathInv
  <2> QED
    BY <1>3, <2>2, SourceStep DEF PerformRefresh, PathInv, PathType, underlay
<1>4. ASSUME NEW m \in net, Lose(m) PROVE PathInv'
  BY <1>4, SourceStep DEF Lose, PathInv, PathType, underlay, clocks
<1> QED
  BY <1>1, <1>2, <1>3, <1>4

(* What is in a and not as it was in r is fresh.                           *)
FreshOrOld(a, r) == \A x \in DOMAIN a : a[x].age = 0 \/ (x \in DOMAIN r /\ a[x] = r[x])

(* register_path: a new record is fresh, an old one is seen again.         *)
LEMMA RecordFacts ==
  ASSUME NEW n \in Node, NEW r, RecordOK(n, r), NEW s \in LongPaths(n),
         NEW l \in Link \cup {NoLink}
  PROVE  /\ RecordOK(n, Record(r, s, l))
         /\ DOMAIN Record(r, s, l) = IF l = NoLink THEN DOMAIN r ELSE DOMAIN r \cup {s}
         /\ FreshOrOld(Record(r, s, l), r)
<1>1. CASE l = NoLink
  BY <1>1 DEF Record, FreshOrOld
<1>2. CASE l # NoLink /\ s \in DOMAIN r
  <2> DEFINE a == [r EXCEPT ![s].age = 0]
  <2>1. Record(r, s, l) = a
    BY <1>2 DEF Record, Has
  <2>2. r \in [DOMAIN r -> [via : Link, age : Nat]]
    BY DEF RecordOK, Entry
  <2>3. a \in [DOMAIN r -> [via : Link, age : Nat]] /\ a[s].age = 0
        /\ \A x \in DOMAIN r \ {s} : a[x] = r[x]
    BY <1>2, <2>2
  <2> HIDE DEF a
  <2>4. DOMAIN a = DOMAIN r
    BY <2>3
  <2> QED
    BY <1>2, <2>1, <2>3, <2>4 DEF RecordOK, Entry, FreshOrOld
<1>3. CASE l # NoLink /\ s \notin DOMAIN r
  <2> DEFINE e == [via |-> l, age |-> 0]
  <2>1. e \in Entry /\ e.age = 0
    BY <1>3 DEF Entry
  <2> HIDE DEF e
  <2>2. Record(r, s, l) = Put(r, s, e)
    BY <1>3 DEF Record, Has, e
  <2>3. DOMAIN Put(r, s, e) = DOMAIN r \cup {s} /\ Put(r, s, e)[s] = e
        /\ \A x \in DOMAIN r : Put(r, s, e)[x] = r[x]
    BY <1>3 DEF Put
  <2>4. Put(r, s, e) \in [DOMAIN r \cup {s} -> Entry]
    BY <2>1 DEF Put, RecordOK
  <2>5. IsFiniteSet(DOMAIN r \cup {s})
    BY FS_AddElement DEF RecordOK
  <2> QED
    BY <1>3, <2>1, <2>2, <2>3, <2>4, <2>5 DEF RecordOK, FreshOrOld
<1> QED
  BY <1>1, <1>2, <1>3

(* A step of node n that makes r its record and q its updates.             *)
Becomes(n, r, q) ==
  /\ RecordOK(n, r) /\ q \in Seq(PathUpd)
  /\ recorded' = [recorded EXCEPT ![n] = r] /\ updates' = [updates EXCEPT ![n] = q]
  /\ UNCHANGED tables
  /\ \A m \in net' : OnItsWay(m)
  /\ contact' \in [valid : BOOLEAN, path : Paths]
  /\ uln' \in [Hop -> Link \cup {NoLink}] /\ cleanup' \in [Transit -> 0 .. CleanupInterval]
  /\ computed' = [k \in Node |-> computed'[k]]
  /\ \A k \in Node : computed'[k] \subseteq ShortPaths(k) \X Link /\ IsFiniteSet(computed'[k])
  /\ \A k \in Transit \ {n} : cleanup'[k] = cleanup[k]
  /\ n \in Transit => \A s \in DOMAIN r : r[s].age < MaxAge + (CleanupInterval - cleanup'[n])
  /\ \A s \in LongPaths(n) \ DOMAIN r : NotComing(q, tables[n], s)

(* Such a step keeps the invariant.                                        *)
LEMMA NodeStep ==
  ASSUME PathInv, NEW n \in Node, NEW r, NEW q, Becomes(n, r, q)
  PROVE  PathInv'
<1> USE DEF Becomes
<1>1. /\ recorded' = [k \in Node |-> recorded'[k]] /\ recorded'[n] = r
      /\ \A k \in Node \ {n} : recorded'[k] = recorded[k]
  BY DEF PathInv, PathType
<1>2. /\ updates' = [k \in Node |-> updates'[k]] /\ updates'[n] = q
      /\ \A k \in Node \ {n} : updates'[k] = updates[k]
  BY DEF PathInv, PathType
<1>3. \A k \in Node : RecordOK(k, recorded'[k]) /\ updates'[k] \in Seq(PathUpd)
  BY <1>1, <1>2 DEF PathInv, PathType
<1>4. PathType'
  BY <1>1, <1>2, <1>3 DEF PathInv, PathType
<1>5. AgesOK'
  BY <1>1 DEF PathInv, AgesOK, Transit
<1>6. ForgottenNotComing'
  BY <1>1, <1>2 DEF PathInv, ForgottenNotComing
<1> QED
  BY <1>4, <1>5, <1>6 DEF PathInv

(* A PathSetupReq or ProbeReq is recorded and goes on.                     *)
LEMMA ReceiveKeeps ==
  ASSUME PathInv, NEW m \in net, Receive(m)
  PROVE  PathInv'
<1> DEFINE n == m.path[m.at]
           s == Remaining(m)
           l == uln[HopOf(s)]
           r == Record(recorded[n], s, l)
           x == RegisterUpdate(recorded[n], s, l)
<1>1. m \in Message /\ m.path \in Paths /\ m.at \in 1 .. Len(m.path)
      /\ Len(m.path) - m.at + 1 > VICINITY_RADIUS /\ Len(m.path) \in Nat
  BY PathAssumption DEF PathInv, PathType, OnItsWay, Message
<1>2. n \in Node /\ s \in LongPaths(n) /\ Len(s) = Len(m.path) - m.at + 1
  BY <1>1, SuffixFacts DEF Remaining, LongPaths
<1>3. l \in Link \cup {NoLink} /\ s \in PathId /\ n \in Transit
  BY <1>2, LongOrShort DEF PathInv, PathType
<1>4. /\ recorded' = [recorded EXCEPT ![n] = r]
      /\ updates' = [updates EXCEPT ![n] = updates[n] \o x]
      /\ UNCHANGED <<contact, computed, tables, uln, cleanup>>
  <2>1. /\ recorded' = [recorded EXCEPT ![n] = Record(@, s, l)]
        /\ updates' = [updates EXCEPT ![n] = @ \o x]
        /\ UNCHANGED <<contact, computed, tables, uln, cleanup>>
    BY DEF Receive, underlay, clocks
  <2> QED
    BY <1>2, <2>1 DEF PathInv, PathType
<1>5. \A k \in net' : OnItsWay(k)
  <2> SUFFICES ASSUME NEW k \in net', k \notin net PROVE OnItsWay(k)
    BY DEF PathInv, PathType
  <2>1. Len(s) - 1 > VICINITY_RADIUS /\ k = [m EXCEPT !.at = @ + 1]
    BY DEF Receive
  <2>2. m \in [path : Paths, at : Nat]
    BY <1>1 DEF Message
  <2>3. k \in [path : Paths, at : Nat] /\ k.path = m.path /\ k.at = m.at + 1
    BY <2>1, <2>2
  <2> QED
    <3>1. (Len(m.path) - m.at + 1) - 1 > VICINITY_RADIUS
      BY <1>2, <2>1
    <3> HIDE DEF s
    <3>2. /\ m.at + 1 \in 1 .. Len(m.path) /\ Len(m.path) - (m.at + 1) + 1 > VICINITY_RADIUS
      BY <1>1, <3>1, PathAssumption
    <3> QED
      BY <2>3, <3>2 DEF OnItsWay, Message
<1>6. RecordOK(n, recorded[n]) /\ updates[n] \in Seq(PathUpd)
  BY <1>2 DEF PathInv, PathType
<1> HIDE DEF n, s, l, r, x
<1>7. /\ RecordOK(n, r) /\ DOMAIN r = IF l = NoLink THEN DOMAIN recorded[n] ELSE DOMAIN recorded[n] \cup {s}
      /\ \A y \in DOMAIN r : r[y].age = 0 \/ (y \in DOMAIN recorded[n] /\ r[y] = recorded[n][y])
  <2>1. FreshOrOld(r, recorded[n])
    BY <1>2, <1>3, <1>6, RecordFacts DEF r
  <2> QED
    BY <1>2, <1>3, <1>6, <2>1, RecordFacts DEF r, FreshOrOld
<1>8. x \in Seq(PathUpd) /\ \A i \in 1 .. Len(x) : l # NoLink /\ x[i].in = s
  <2>1. CASE l = NoLink
    BY <2>1, EmptySeq DEF x, RegisterUpdate
  <2>2. CASE l # NoLink
    <3> DEFINE u == PathUpdate(IF Has(recorded[n], s) THEN "Update" ELSE "Create", s, l)
    <3>1. u \in PathUpd /\ u.in = s
      BY <1>3 DEF PathUpdate, PathUpd
    <3> HIDE DEF u
    <3>2. x = <<u>>
      BY <2>2 DEF x, u, RegisterUpdate
    <3> QED
      BY <2>2, <3>1, <3>2
  <2> QED
    BY <2>1, <2>2
<1>9. ASSUME NEW y \in DOMAIN r PROVE r[y].age < MaxAge + (CleanupInterval - cleanup[n])
  <2>1. cleanup[n] \in 0 .. CleanupInterval
    BY <1>3 DEF PathInv, PathType
  <2>2. CASE r[y].age = 0
    BY <2>1, <2>2, PathAssumption
  <2>3. CASE y \in DOMAIN recorded[n] /\ r[y] = recorded[n][y]
    BY <1>3, <2>3 DEF PathInv, AgesOK
  <2> QED
    BY <1>7, <2>2, <2>3
<1>10. ASSUME NEW y \in LongPaths(n) \ DOMAIN r PROVE NotComing(updates[n] \o x, tables[n], y)
  <2>1. y \notin DOMAIN recorded[n] /\ \A i \in 1 .. Len(x) : Harmless(x[i], y)
    BY <1>7, <1>8 DEF Harmless
  <2>2. NotComing(updates[n], tables[n], y)
    BY <1>2, <2>1 DEF PathInv, ForgottenNotComing
  <2> QED
    BY <1>6, <1>8, <2>1, <2>2, NotComingAfter
<1>11. updates[n] \o x \in Seq(PathUpd)
  BY <1>6, <1>8, ConcatProperties
<1> QED
  <2>1. Becomes(n, r, updates[n] \o x)
    BY <1>2, <1>4, <1>5, <1>7, <1>9, <1>10, <1>11 DEF PathInv, PathType, Becomes
  <2> QED
    BY <1>2, <2>1, NodeStep

(* Forgetting some paths and telling the tables to remove them.            *)
LEMMA ForgetFacts ==
  ASSUME PathInv, NEW n \in Node, NEW S \in SUBSET DOMAIN recorded[n]
  PROVE  /\ RecordOK(n, Forget(recorded[n], S))
         /\ DOMAIN Forget(recorded[n], S) = DOMAIN recorded[n] \ S
         /\ \A s \in DOMAIN recorded[n] \ S : Forget(recorded[n], S)[s] = recorded[n][s]
         /\ updates[n] \o RemoveUpdates(S) \in Seq(PathUpd)
         /\ \A s \in LongPaths(n) \ (DOMAIN recorded[n] \ S) :
              NotComing(updates[n] \o RemoveUpdates(S), tables[n], s)
<1> DEFINE r == recorded[n]
           q == updates[n]
           x == RemoveUpdates(S)
<1>1. RecordOK(n, r) /\ q \in Seq(PathUpd)
  BY DEF PathInv, PathType
<1>2. /\ Forget(r, S) \in [DOMAIN r \ S -> Entry] /\ DOMAIN Forget(r, S) = DOMAIN r \ S
      /\ \A s \in DOMAIN r \ S : Forget(r, S)[s] = r[s]
  BY <1>1 DEF Forget, Restrict, RecordOK
<1>3. IsFiniteSet(S) /\ IsFiniteSet(DOMAIN r \ S)
  BY <1>1, FS_Subset, FS_Difference DEF RecordOK
<1>4. RecordOK(n, Forget(r, S))
  BY <1>1, <1>2, <1>3 DEF RecordOK
<1>5. S \in SUBSET PathId
  BY <1>1, LongOrShort DEF RecordOK
<1>6. /\ x \in Seq(PathUpd) /\ \A i \in 1 .. Len(x) : x[i].op = "Remove"
      /\ \A y \in S : \E i \in 1 .. Len(x) : x[i].in = y
  BY <1>3, <1>5, RemoveUpdatesFacts
<1> HIDE DEF x
<1>7. ASSUME NEW s \in LongPaths(n) \ (DOMAIN r \ S) PROVE NotComing(q \o x, tables[n], s)
  <2>1. CASE s \in S
    BY <1>1, <1>6, <2>1, NotComingRemoved
  <2>2. CASE s \notin DOMAIN r
    <3>1. NotComing(q, tables[n], s)
      BY <2>2 DEF PathInv, ForgottenNotComing
    <3>2. \A i \in 1 .. Len(x) : Harmless(x[i], s)
      BY <1>6 DEF Harmless
    <3> QED
      BY <1>1, <1>6, <3>1, <3>2, NotComingAfter
  <2> QED
    BY <2>1, <2>2
<1>8. q \o x \in Seq(PathUpd)
  BY <1>1, <1>6, ConcatProperties
<1> QED
  BY <1>2, <1>4, <1>7, <1>8 DEF x

(* perform_cleanup: what is left is younger than max_age.                  *)
LEMMA CleanupKeeps ==
  ASSUME PathInv, NEW n \in Transit, PerformCleanup(n)
  PROVE  PathInv'
<1> DEFINE S == Expired(recorded[n])
           r == Forget(recorded[n], S)
           q == updates[n] \o RemoveUpdates(S)
<1>1. n \in Node /\ S \in SUBSET DOMAIN recorded[n] /\ RecordOK(n, recorded[n])
  BY DEF Transit, Expired, PathInv, PathType
<1>2. /\ recorded' = [recorded EXCEPT ![n] = r] /\ updates' = [updates EXCEPT ![n] = q]
      /\ cleanup' = [cleanup EXCEPT ![n] = CleanupInterval]
      /\ UNCHANGED <<contact, net, computed, tables, uln>>
  <2>1. /\ recorded' = [recorded EXCEPT ![n] = Forget(@, S)]
        /\ updates' = [updates EXCEPT ![n] = @ \o RemoveUpdates(S)]
        /\ cleanup' = [cleanup EXCEPT ![n] = CleanupInterval]
        /\ UNCHANGED <<contact, net, computed, tables, uln>>
    BY DEF PerformCleanup, underlay
  <2> QED
    BY <1>1, <2>1 DEF PathInv, PathType
<1>3. /\ RecordOK(n, r) /\ q \in Seq(PathUpd) /\ DOMAIN r = DOMAIN recorded[n] \ S
      /\ \A s \in DOMAIN r : r[s] = recorded[n][s]
      /\ \A s \in LongPaths(n) \ DOMAIN r : NotComing(q, tables[n], s)
  BY <1>1, ForgetFacts
<1>4. /\ cleanup' \in [Transit -> 0 .. CleanupInterval] /\ cleanup'[n] = CleanupInterval
      /\ \A k \in Transit \ {n} : cleanup'[k] = cleanup[k]
  BY <1>2, PathAssumption DEF PathInv, PathType
<1>5. ASSUME NEW s \in DOMAIN r PROVE r[s].age < MaxAge + (CleanupInterval - cleanup'[n])
  <2>1. s \in DOMAIN recorded[n] /\ ~(recorded[n][s].age >= MaxAge) /\ r[s] = recorded[n][s]
    BY <1>3 DEF Expired
  <2>2. recorded[n][s].age \in Nat
    BY <1>1, <2>1 DEF RecordOK, Entry
  <2> QED
    BY <1>4, <2>1, <2>2, PathAssumption
<1> HIDE DEF S, r, q
<1>6. /\ \A m \in net' : OnItsWay(m)
      /\ contact' \in [valid : BOOLEAN, path : Paths]
      /\ uln' \in [Hop -> Link \cup {NoLink}] /\ computed' = [k \in Node |-> computed'[k]]
      /\ \A k \in Node : computed'[k] \subseteq ShortPaths(k) \X Link /\ IsFiniteSet(computed'[k])
  BY <1>2 DEF PathInv, PathType
<1> QED
  <2>1. Becomes(n, r, q)
    BY <1>1, <1>2, <1>3, <1>4, <1>5, <1>6 DEF Becomes
  <2> QED
    BY <1>1, <2>1, NodeStep

(* A change of the vicinity graph: PrecomputePathIds appends updates on    *)
(* short paths.                                                            *)
LEMMA GraphStep ==
  ASSUME PathInv, NEW n \in Node, NEW S \in SUBSET DOMAIN recorded[n],
         NEW m \in [Hop -> Link \cup {NoLink}], NEW e, NEW first,
         first = RemoveUpdates(S) \/ (S = {} /\ first = <<>>),
         recorded' = [recorded EXCEPT ![n] = Forget(recorded[n], S)],
         GraphChanged(n, first, m, e), uln' = m,
         UNCHANGED <<contact, net, tables, cleanup>>
  PROVE  PathInv'
<1> DEFINE r == Forget(recorded[n], S)
           p == updates[n] \o first
<1>0. /\ RecordOK(n, r) /\ DOMAIN r = DOMAIN recorded[n] \ S
      /\ \A s \in DOMAIN r : r[s] = recorded[n][s]
  BY ForgetFacts, ZenonT(40)
<1>1. p \in Seq(PathUpd) /\ \A s \in LongPaths(n) \ DOMAIN r : NotComing(p, tables[n], s)
  <2>1. CASE first = RemoveUpdates(S)
    BY <1>0, <2>1, ForgetFacts
  <2>2. CASE S = {} /\ first = <<>>
    <3>1. updates[n] \in Seq(PathUpd)
      BY DEF PathInv, PathType
    <3>2. p = updates[n]
      BY <2>2, <3>1, ConcatEmptySeq
    <3> QED
      BY <1>0, <2>2, <3>1, <3>2 DEF PathInv, ForgottenNotComing
  <2> QED
    BY <2>1, <2>2
<1> HIDE DEF r, p
<1>2. /\ computed' = [k \in Node |-> computed'[k]]
      /\ \A k \in Node : computed'[k] \subseteq ShortPaths(k) \X Link /\ IsFiniteSet(computed'[k])
  <2>1. CASE UNCHANGED computed
    BY <2>1 DEF PathInv, PathType
  <2>2. CASE computed' = [computed EXCEPT ![n] = GenEntries(n, m, e)]
    <3>1. GenEntries(n, m, e) \subseteq ShortPaths(n) \X Link /\ IsFiniteSet(GenEntries(n, m, e))
      BY GenEntriesFacts
    <3>2. /\ computed' = [k \in Node |-> computed'[k]]
          /\ \A k \in Node : computed'[k] = IF k = n THEN GenEntries(n, m, e) ELSE computed[k]
      BY <2>2 DEF PathInv, PathType
    <3> QED
      BY <3>1, <3>2 DEF PathInv, PathType
  <2> QED
    BY <2>1, <2>2 DEF GraphChanged
<1>3. \E x \in Seq(PathUpd) : /\ updates' = [updates EXCEPT ![n] = p \o x]
                              /\ \A i \in 1 .. Len(x) : x[i].in \in ShortPaths(n)
  <2>1. CASE e = edges
    <3>1. updates' = [updates EXCEPT ![n] = p]
      BY <2>1 DEF GraphChanged, p, PathInv, PathType
    <3> DEFINE x == <<>>
    <3>2. p \o x = p /\ x \in Seq(PathUpd) /\ Len(x) = 0
      BY <1>1, ConcatEmptySeq, EmptySeq
    <3> HIDE DEF x
    <3>3. \A i \in 1 .. Len(x) : x[i].in \in ShortPaths(n)
      BY <3>2
    <3> QED
      BY <3>1, <3>2, <3>3
  <2>2. CASE e # edges
    <3> DEFINE x == PrecomputeUpdates(n, m, e)
    <3>1. x \in Seq(PathUpd) /\ \A i \in 1 .. Len(x) : x[i].in \in ShortPaths(n)
      BY PrecomputeFacts DEF PathInv
    <3>2. updates' = [updates EXCEPT ![n] = @ \o first \o x]
      BY <2>2 DEF GraphChanged
    <3> HIDE DEF x
    <3>3. updates' = [updates EXCEPT ![n] = p \o x]
      BY <3>2 DEF p, PathInv, PathType
    <3> QED
      BY <3>1, <3>3
  <2> QED
    BY <2>1, <2>2
<1>4. PICK x \in Seq(PathUpd) : /\ updates' = [updates EXCEPT ![n] = p \o x]
                                /\ \A i \in 1 .. Len(x) : x[i].in \in ShortPaths(n)
  BY <1>3
<1>5. p \o x \in Seq(PathUpd)
  BY <1>1, ConcatProperties
<1>6. ASSUME NEW s \in LongPaths(n) \ DOMAIN r PROVE NotComing(p \o x, tables[n], s)
  <2>1. \A i \in 1 .. Len(x) : Harmless(x[i], s)
    BY <1>4, LongOrShort DEF Harmless
  <2> QED
    BY <1>1, <2>1, NotComingAfter
<1>7. n \in Transit => \A s \in DOMAIN r : r[s].age < MaxAge + (CleanupInterval - cleanup'[n])
  BY <1>0 DEF PathInv, AgesOK
<1>8. /\ \A k \in net' : OnItsWay(k)
      /\ contact' \in [valid : BOOLEAN, path : Paths]
      /\ uln' \in [Hop -> Link \cup {NoLink}]
      /\ cleanup' \in [Transit -> 0 .. CleanupInterval]
      /\ \A k \in Transit \ {n} : cleanup'[k] = cleanup[k]
  BY DEF PathInv, PathType
<1>9. recorded' = [recorded EXCEPT ![n] = r]
  BY DEF r
<1> QED
  <2>1. Becomes(n, r, p \o x)
    BY <1>0, <1>2, <1>4, <1>5, <1>6, <1>7, <1>8, <1>9 DEF Becomes
  <2> QED
    BY <2>1, NodeStep

(* UnderlayNeighborDown.                                                   *)
LEMMA HandleDownKeeps ==
  ASSUME PathInv, NEW h \in Hop, NEW l \in Link, HandleDown(h, l)
  PROVE  PathInv'
<1> DEFINE n == h[1]
           S == Affected(recorded[n], h, l)
           m == IF uln[h] = l THEN [uln EXCEPT ![h] = NoLink] ELSE uln
           e == IF uln[h] = l THEN edges \ {h} ELSE edges
<1>1. n \in Node /\ S \in SUBSET DOMAIN recorded[n]
  BY HopFacts DEF Affected
<1>2. m \in [Hop -> Link \cup {NoLink}]
  BY DEF PathInv, PathType
<1>3. /\ recorded' = [recorded EXCEPT ![n] = Forget(@, S)] /\ uln' = m
      /\ GraphChanged(n, RemoveUpdates(S), m, e)
      /\ UNCHANGED <<contact, net, tables, cleanup>>
  BY DEF HandleDown, clocks
<1> HIDE DEF n, S, m, e
<1>4. recorded' = [recorded EXCEPT ![n] = Forget(recorded[n], S)]
  BY <1>1, <1>3 DEF PathInv, PathType
<1> QED
  BY <1>1, <1>2, <1>3, <1>4, GraphStep

(* Nothing is forgotten.                                                   *)
LEMMA ForgetNothing ==
  ASSUME PathInv, NEW n \in Node
  PROVE  [recorded EXCEPT ![n] = Forget(recorded[n], {})] = recorded
<1>1. Forget(recorded[n], {}) = recorded[n]
  <2>1. recorded[n] \in [DOMAIN recorded[n] -> Entry]
    BY DEF PathInv, PathType, RecordOK
  <2> QED
    BY <2>1 DEF Forget, Restrict
<1> QED
  BY <1>1 DEF PathInv, PathType

(* ULNHello and ULNDiscReq.                                                *)
LEMMA HelloKeeps ==
  ASSUME PathInv, NEW h \in Hop, NEW l \in Link, Hello(h, l) \/ Remap(h, l)
  PROVE  PathInv'
<1>1. h[1] \in Node /\ {} \in SUBSET DOMAIN recorded[h[1]]
  BY HopFacts
<1>2. ASSUME NEW m \in [Hop -> Link \cup {NoLink}], NEW e, uln' = m,
             GraphChanged(h[1], <<>>, m, e), UNCHANGED <<contact, net, recorded, tables, cleanup>>
      PROVE  PathInv'
  <2>1. recorded' = [recorded EXCEPT ![h[1]] = Forget(recorded[h[1]], {})]
    BY <1>1, <1>2, ForgetNothing
  <2> QED
    BY <1>1, <1>2, <2>1, GraphStep
<1>3. CASE Hello(h, l)
  <2> DEFINE m == [uln EXCEPT ![h] = IF @ = NoLink THEN l ELSE @]
             e == IF m[h] \in up[h] THEN edges \cup {h} ELSE edges
  <2>1. m \in [Hop -> Link \cup {NoLink}]
    BY DEF PathInv, PathType
  <2>2. uln' = m /\ GraphChanged(h[1], <<>>, m, e) /\ UNCHANGED <<contact, net, recorded, tables, cleanup>>
    BY <1>3 DEF Hello, clocks
  <2> HIDE DEF m, e
  <2> QED
    BY <1>2, <2>1, <2>2
<1>4. CASE Remap(h, l)
  <2> DEFINE m == [uln EXCEPT ![h] = l]
             e == edges \cup {h}
  <2>1. m \in [Hop -> Link \cup {NoLink}]
    BY DEF PathInv, PathType
  <2>2. uln' = m /\ GraphChanged(h[1], <<>>, m, e) /\ UNCHANGED <<contact, net, recorded, tables, cleanup>>
    BY <1>4 DEF Remap, clocks
  <2> HIDE DEF m, e
  <2> QED
    BY <1>2, <2>1, <2>2
<1> QED
  BY <1>3, <1>4

(* The task of the forwarding tables.                                      *)
LEMMA ApplyKeeps ==
  ASSUME PathInv, NEW n \in Node, ApplyUpdate(n)
  PROVE  PathInv'
<1> DEFINE q == updates[n]
           known == IF Len(Head(q).in) > 1 THEN up[HopOf(Head(q).in)] ELSE {}
           a == ApplyPathUpdate(tables[n], Head(q), known)
<1>1. /\ q # <<>> /\ q \in Seq(PathUpd) /\ Head(q) \in PathUpd /\ Tail(q) \in Seq(PathUpd)
      /\ TablesOK(tables[n])
  BY DEF ApplyUpdate, PathInv, PathType
<1>2. /\ tables' = [tables EXCEPT ![n] = a] /\ updates' = [updates EXCEPT ![n] = Tail(q)]
      /\ UNCHANGED <<contact, net, recorded, computed, uln, cleanup>>
  <2>1. /\ tables' = [tables EXCEPT ![n] = ApplyPathUpdate(@, Head(q), known)]
        /\ updates' = [updates EXCEPT ![n] = Tail(@)]
        /\ UNCHANGED <<contact, net, recorded, computed, uln, cleanup>>
    BY DEF ApplyUpdate, underlay, clocks
  <2> QED
    BY <2>1 DEF PathInv, PathType
<1>3. TablesOK(a)
  BY <1>1, ApplyFacts
<1>4. ASSUME NEW s \in LongPaths(n) \ DOMAIN recorded[n] PROVE NotComing(Tail(q), a, s)
  <2>1. NotComing(q, tables[n], s)
    BY DEF PathInv, ForgottenNotComing
  <2> HIDE DEF known
  <2> QED
    BY <1>1, <2>1, NotComingApplied
<1> HIDE DEF a
<1>5. /\ tables' = [k \in Node |-> tables'[k]] /\ updates' = [k \in Node |-> updates'[k]]
      /\ tables'[n] = a /\ updates'[n] = Tail(q)
      /\ \A k \in Node \ {n} : tables'[k] = tables[k] /\ updates'[k] = updates[k]
  BY <1>2 DEF PathInv, PathType
<1>6. \A k \in Node : TablesOK(tables'[k]) /\ updates'[k] \in Seq(PathUpd)
  BY <1>1, <1>3, <1>5 DEF PathInv, PathType
<1>7. PathType'
  BY <1>2, <1>5, <1>6 DEF PathInv, PathType
<1>8. AgesOK'
  BY <1>2 DEF PathInv, AgesOK
<1>9. ForgottenNotComing'
  BY <1>2, <1>4, <1>5 DEF PathInv, ForgottenNotComing
<1> QED
  BY <1>7, <1>8, <1>9 DEF PathInv

(* Time passes: all records grow older, all cleanup timers run down.       *)
LEMMA TickKeeps == ASSUME PathInv, Tick PROVE PathInv'
<1>1. /\ \A n \in Transit : cleanup[n] > 0
      /\ cleanup' = [n \in Transit |-> cleanup[n] - 1]
      /\ UNCHANGED <<contact, net, computed, updates, tables, uln>>
  BY DEF Tick, underlay
<1>2. recorded' = [n \in Node |-> [s \in DOMAIN recorded[n] |-> [recorded[n][s] EXCEPT !.age = @ + 1]]]
  BY DEF Tick
<1>3. ASSUME NEW n \in Node
      PROVE  /\ recorded'[n] = [s \in DOMAIN recorded[n] |-> [recorded[n][s] EXCEPT !.age = @ + 1]]
             /\ DOMAIN recorded'[n] = DOMAIN recorded[n]
  BY <1>2
<1>4. ASSUME NEW n \in Node, NEW s \in DOMAIN recorded[n]
      PROVE  /\ recorded'[n][s] \in Entry /\ recorded'[n][s].age = recorded[n][s].age + 1
             /\ recorded[n][s].age \in Nat
  <2>1. recorded[n][s] \in [via : Link, age : Nat]
    BY DEF PathInv, PathType, RecordOK, Entry
  <2>2. recorded'[n][s] = [recorded[n][s] EXCEPT !.age = @ + 1]
    BY <1>3
  <2> QED
    BY <2>1, <2>2 DEF Entry
<1>5. \A n \in Node : RecordOK(n, recorded'[n])
  <2> SUFFICES ASSUME NEW n \in Node PROVE RecordOK(n, recorded'[n])
    OBVIOUS
  <2>1. recorded'[n] \in [DOMAIN recorded[n] -> Entry]
    <3>1. recorded'[n] = [s \in DOMAIN recorded[n] |-> recorded'[n][s]]
      BY <1>3
    <3> QED
      BY <1>4, <3>1
  <2> QED
    BY <1>3, <2>1 DEF PathInv, PathType, RecordOK
<1>6. cleanup' \in [Transit -> 0 .. CleanupInterval]
  <2>1. \A n \in Transit : cleanup[n] \in 0 .. CleanupInterval /\ cleanup[n] > 0
    BY <1>1 DEF PathInv, PathType
  <2>2. \A n \in Transit : cleanup[n] - 1 \in 0 .. CleanupInterval
    BY <2>1, PathAssumption
  <2> QED
    BY <1>1, <2>2
<1>7. recorded' = [n \in Node |-> recorded'[n]]
  BY <1>2
<1>8. PathType'
  BY <1>1, <1>5, <1>6, <1>7 DEF PathInv, PathType
<1>9. AgesOK'
  <2> SUFFICES ASSUME NEW n \in Transit, NEW s \in DOMAIN recorded'[n]
               PROVE  recorded'[n][s].age < MaxAge + (CleanupInterval - cleanup'[n])
    BY DEF AgesOK
  <2>1. n \in Node /\ s \in DOMAIN recorded[n]
    BY <1>3 DEF Transit
  <2>2. /\ recorded[n][s].age < MaxAge + (CleanupInterval - cleanup[n])
        /\ cleanup[n] \in 0 .. CleanupInterval
    BY <2>1 DEF PathInv, AgesOK, PathType
  <2>3. cleanup'[n] = cleanup[n] - 1
    BY <1>1
  <2> QED
    BY <1>4, <2>1, <2>2, <2>3, PathAssumption
<1>10. ForgottenNotComing'
  BY <1>1, <1>3 DEF PathInv, ForgottenNotComing
<1> QED
  BY <1>8, <1>9, <1>10 DEF PathInv

(* Every step keeps the invariant.                                         *)
LEMMA NextPath == PathInv /\ [Next]_vars => PathInv'
<1> SUFFICES ASSUME PathInv, [Next]_vars PROVE PathInv'
  OBVIOUS
<1>1. CASE \/ \E p \in Paths : ContactValid(p)
           \/ ContactLost \/ PerformRefresh \/ \E m \in net : Lose(m)
  BY <1>1, SourceKeeps
<1>2. ASSUME NEW m \in net, Receive(m) PROVE PathInv'
  BY <1>2, ReceiveKeeps
<1>3. ASSUME NEW n \in Transit, PerformCleanup(n) PROVE PathInv'
  BY <1>3, CleanupKeeps
<1>4. ASSUME NEW n \in Node, ApplyUpdate(n) PROVE PathInv'
  BY <1>4, ApplyKeeps
<1>5. ASSUME NEW h \in Hop, NEW l \in Link, HandleDown(h, l) \/ Hello(h, l) \/ Remap(h, l)
      PROVE  PathInv'
  BY <1>5, HandleDownKeeps, HelloKeeps
<1>6. CASE UNCHANGED <<contact, net, recorded, computed, updates, tables, uln, cleanup>>
  BY <1>6 DEF PathInv, PathType, AgesOK, ForgottenNotComing
<1>7. ASSUME NEW h \in Hop, NEW l \in Link, LinkDown(h, l) \/ LinkUp(h, l) PROVE PathInv'
  BY <1>6, <1>7 DEF LinkDown, LinkUp, clocks
<1>8. CASE Tick
  BY <1>8, TickKeeps
<1>9. CASE UNCHANGED vars
  BY <1>6, <1>9 DEF vars
<1> QED
  BY <1>1, <1>2, <1>3, <1>4, <1>5, <1>7, <1>8, <1>9 DEF Next

(* The inductive invariant of the nodes on the paths.                      *)
THEOREM PathInvariant == Spec => []PathInv
  BY InitPath, NextPath, PTL DEF Spec

(* No path stays recorded for max_age and another cleanup_interval without *)
(* a request for it, for all intervals and however many requests are lost. *)
THEOREM SoftStateAlwaysEnds == Spec => []SoftStateEnds
<1>1. PathInv => SoftStateEnds
  <2> SUFFICES ASSUME PathInv, NEW n \in Node, NEW s \in DOMAIN recorded[n]
               PROVE  recorded[n][s].age < MaxAge + CleanupInterval
    BY DEF SoftStateEnds
  <2>1. s \in LongPaths(n) /\ recorded[n][s].age \in Nat
    BY DEF PathInv, PathType, RecordOK, Entry
  <2>2. n \in Transit
    BY <2>1, LongOrShort
  <2>3. cleanup[n] \in 0 .. CleanupInterval
    BY <2>2 DEF PathInv, PathType
  <2>4. recorded[n][s].age < MaxAge + (CleanupInterval - cleanup[n])
    BY <2>2 DEF PathInv, AgesOK
  <2> QED
    BY <2>1, <2>3, <2>4, PathAssumption
<1> QED
  BY <1>1, PathInvariant, PTL

(* Whatever order the requests, cleanups and failures come in, and however *)
(* late the task of the forwarding tables is, no long path stays installed *)
(* when its record is gone.                                                *)
THEOREM InstalledIsAlwaysRecorded == Spec => []InstalledIsRecorded
<1>1. PathInv => InstalledIsRecorded
  <2> SUFFICES ASSUME PathInv, NEW n \in Node, updates[n] = <<>>, NEW s \in LongPaths(n),
                      s \in DOMAIN tables[n].path, s \notin DOMAIN recorded[n]
               PROVE  FALSE
    BY DEF InstalledIsRecorded
  <2>1. NotComing(updates[n], tables[n], s)
    BY DEF PathInv, ForgottenNotComing
  <2>2. Len(updates[n]) = 0
    OBVIOUS
  <2> QED
    BY <2>1, <2>2 DEF NotComing
<1> QED
  BY <1>1, PathInvariant, PTL

===============================================================================
