---------------------------- MODULE RoutingTable ----------------------------
(***************************************************************************)
(* The routing table of one node: ObservableRoutingTable around            *)
(* UnlimitedULNRoutingTable around FlatRoutingTable, filled by UNSStrategy.*)
(*                                                                         *)
(* Contacts live in buckets by the prefix they share with the root: ACC    *)
(* bits per level, 2^ACC - 1 buckets for the digits of a level in which a  *)
(* contact differs from the root, and a last bucket for everything closer, *)
(* the only one that is ever split.  Underlay neighbours live outside of   *)
(* the buckets, in a map without a limit.  Of a contact the model keeps    *)
(* whether it is valid and the size of its active path (another path of    *)
(* the same size is the same path).  The results of closest are sorted by  *)
(* the xor metric, a total order of ids, so a result is a set here.        *)
(***************************************************************************)
EXTENDS NodeId, Sequences, SequencesExt

CONSTANTS ACC,         \* acceleration: bits per level of the table
          Group,       \* shared_prefix_grouping of the queries
          BUCKET_SIZE,
          Root,
          Contacts,    \* the ids of the nodes that are met
          Adjacent,    \* those of them that share a link with the root
          PathSizes    \* bound: sizes of paths

ASSUME RoutingTableAssumption ==
  /\ ACC \in 1 .. BITS /\ Group \in 1 .. BITS
  /\ BUCKET_SIZE \in Nat \ {0}
  /\ Root \in NodeIds /\ Contacts \subseteq NodeIds \ {Root}
  /\ Adjacent \subseteq Contacts
  /\ 1 \in PathSizes /\ PathSizes \subseteq Nat \ {0}

VARIABLES
  buckets,     \* Seq(SUBSET Contacts): FlatRoutingTable::buckets
  un_contacts, \* SUBSET Contacts: UnlimitedULNRoutingTable::un_contacts
  valid,       \* SUBSET Contacts: the contacts in ContactState::Valid
  size,        \* [Contacts -> PathSizes]: the size of a contact's active path
  events       \* Seq(Event): what the observers were told and have yet to handle

table == <<buckets, un_contacts, valid, size>>

LevelWidth == 2^ACC - 1
MaxBuckets == (BITS \div ACC) * LevelWidth

InBuckets == UNION ToSet(buckets)
Present   == InBuckets \cup un_contacts

TableInit ==
  /\ buckets = <<{}>> /\ un_contacts = {} /\ valid = {} /\ events = <<>>
  /\ size = [c \in Contacts |-> 1]
-----------------------------------------------------------------------------
(* get_bucket_index for a table of num buckets, counted from 1.            *)
BucketIndex(num, of) ==
  LET prefix == SharedPrefixLen(Root, of, ACC)
      digit  == Bits(XorOf[Root][of], BITS - (prefix + 1) * ACC, ACC)
      index  == prefix * LevelWidth + LevelWidth - digit
  IN  IF (prefix + 1) * ACC > BITS \/ index > num - 1 THEN num ELSE index + 1

BucketOf(bs, c) == bs[BucketIndex(Len(bs), c)]

(* Mutant: the contacts of the split bucket all stay in the new last one.  *)
SplitWithoutMoving(bs, n) ==
  LET num == Len(bs) + n * LevelWidth
  IN  [i \in 1 .. num |-> IF i < Len(bs) THEN bs[i] ELSE IF i = num THEN Last(bs) ELSE {}]

(* split_bucket, n times: the last bucket becomes a level and a new last   *)
(* bucket each time, and its contacts are added again.                     *)
SplitBucket(bs, n) ==
  LET num == Len(bs) + n * LevelWidth
  IN  [i \in 1 .. num |-> IF i < Len(bs) THEN bs[i]
                          ELSE {c \in Last(bs) : BucketIndex(num, c) = i}]

Splittable(bs, c) == Len(bs) < MaxBuckets /\ BucketIndex(Len(bs), c) = Len(bs)

HasRoom(bs, c) == Cardinality(BucketOf(bs, c)) < BUCKET_SIZE

(* RoutingTable::insert: the last bucket is split until there is room for  *)
(* c or until the bucket of c is not the last one any more.  (The set of   *)
(* the results: there is one.)                                             *)
MakeRoom(bs, c) ==
  LET Done(n) == HasRoom(SplitBucket(bs, n), c) \/ ~Splittable(SplitBucket(bs, n), c)
  IN  {SplitBucket(bs, n) : n \in {n \in 0 .. MaxBuckets :
                                     (\A m \in 0 .. n - 1 : ~Done(m)) /\ Done(n)}}

AddTo(bs, c)      == [bs EXCEPT ![BucketIndex(Len(bs), c)] = @ \cup {c}]
RemoveFrom(bs, c) == [bs EXCEPT ![BucketIndex(Len(bs), c)] = @ \ {c}]
-----------------------------------------------------------------------------
(* ObservableRoutingTable: the events carry copies of the contacts.        *)
View(c, ok, s) == [id |-> c, valid |-> ok, size |-> s]
Copy(c)        == View(c, c \in valid, size[c])

NewContact(v)          == [type |-> "New", new |-> v]
UpdatedContact(old, v) == [type |-> "Updated", old |-> old, new |-> v]
RemovedContact(v)      == [type |-> "Removed", old |-> v]
Bucket(i)              == [type |-> "Bucket", index |-> i]

Notify(e) == events' = Append(events, e)

(* The events of split_bucket when buckets has become bs: UpdatedBucket    *)
(* for the bucket that was split, if its contacts differ from the old ones *)
(* in some place (a choice, for a part of them: it depends on their order),*)
(* and NewBucket for the one after it.                                     *)
SplitEvents(bs) ==
  LET Index(i)   == Len(buckets) + (i - 1) * LevelWidth
      Moved(i)   == bs[Index(i)] # {} /\ \E j \in Index(i) + 1 .. Len(bs) : bs[j] # {}
      Pair(i, u) == (IF u THEN <<Bucket(Index(i))>> ELSE <<>>) \o <<Bucket(Index(i) + 1)>>
      splits     == 1 .. (Len(bs) - Len(buckets)) \div LevelWidth
  IN  {FlattenSeq([i \in splits |-> Pair(i, updated[i])]) :
         updated \in {u \in [splits -> BOOLEAN] : \A i \in splits : u[i] => Moved(i)}}
        \cap Seq({Bucket(i) : i \in DOMAIN bs}) \* all of them, for the provers

ActivePath(c, s) ==
  /\ valid' = valid \cup {c}
  /\ size' = [size EXCEPT ![c] = s]

(* A new underlay neighbour.  It leaves its bucket, if it had one, without *)
(* an event of its own.                                                    *)
InsertNeighbor(c) ==
  /\ c \in Adjacent \ un_contacts
  /\ buckets' = RemoveFrom(buckets, c)
  /\ un_contacts' = un_contacts \cup {c}
  /\ ActivePath(c, 1)
  /\ Notify(NewContact(View(c, TRUE, 1)))

(* AlreadyExists: update_existing takes a valid path to a contact that is  *)
(* not valid, and a better path to a valid one.                            *)
UpdateExisting(c, s) ==
  /\ \/ c \in un_contacts /\ s = 1
     \/ c \in InBuckets \ un_contacts /\ s > 1
  /\ c \notin valid \/ s < size[c]
  /\ ActivePath(c, s)
  /\ Notify(UpdatedContact(Copy(c), View(c, TRUE, s)))
  /\ UNCHANGED <<buckets, un_contacts>>

(* A reported contact, of which only the path is used: if it is a node of  *)
(* the neighbour table its path has one hop and counts as valid, and a     *)
(* known contact takes it where it is, in its bucket too.                  *)
UpdateReported(c) ==
  /\ c \in Present \cap Adjacent /\ (c \notin valid \/ size[c] > 1)
  /\ ActivePath(c, 1)
  /\ Notify(UpdatedContact(Copy(c), View(c, TRUE, 1)))
  /\ UNCHANGED <<buckets, un_contacts>>

(* replace_in_full_bucket: of the contacts with longer paths than the new  *)
(* one, one with the longest path.                                         *)
Replaceable(bs, c, s) ==
  {w \in BucketOf(bs, c) : size[w] > s /\ \A v \in BucketOf(bs, c) : size[v] <= size[w]}

(* A path of several hops to a contact that is in no bucket.  A neighbour  *)
(* that is not valid any more is taken out of un_contacts first, without   *)
(* an event, whether or not it then gets a place in a bucket.              *)
InsertContact(c, s) ==
  /\ s > 1 /\ c \notin InBuckets /\ ~(c \in un_contacts /\ c \in valid)
  /\ un_contacts' = un_contacts \ {c}
  /\ \E bs \in MakeRoom(buckets, c) : \E split \in SplitEvents(bs) :
         \/ /\ HasRoom(bs, c)
            /\ buckets' = AddTo(bs, c)
            /\ ActivePath(c, s)
            /\ events' = events \o split \o <<NewContact(View(c, TRUE, s))>>
         \/ /\ ~HasRoom(bs, c)
            /\ \E w \in Replaceable(bs, c, s) :
                 /\ buckets' = AddTo(RemoveFrom(bs, w), c)
                 /\ valid' = (valid \ {w}) \cup {c}
                 /\ size' = [size EXCEPT ![c] = s, ![w] = 1]
                 /\ events' = events \o split \o <<UpdatedContact(Copy(w), View(c, TRUE, s))>>
         \/ /\ ~HasRoom(bs, c) /\ Replaceable(bs, c, s) = {}
            /\ buckets' = bs
            /\ events' = events \o split
            /\ UNCHANGED <<valid, size>>

(* The same with a path that is not validated: it is refused by the bucket *)
(* after the neighbour is gone.                                            *)
RefuseContact(c) ==
  /\ c \in un_contacts \ valid
  /\ un_contacts' = un_contacts \ {c}
  /\ UNCHANGED <<buckets, valid, size, events>>

(* contact_mut by failure handling.                                        *)
SetInvalid(c) ==
  /\ c \in Present \cap valid
  /\ valid' = valid \ {c}
  /\ Notify(UpdatedContact(Copy(c), View(c, FALSE, size[c])))
  /\ UNCHANGED <<buckets, un_contacts, size>>

RemoveContact(c) ==
  /\ c \in Present
  /\ un_contacts' = un_contacts \ {c}
  /\ buckets' = IF c \in un_contacts THEN buckets ELSE RemoveFrom(buckets, c)
  /\ valid' = valid \ {c} /\ size' = [size EXCEPT ![c] = 1]
  /\ Notify(RemovedContact(Copy(c)))

TableNext ==
  \E c \in Contacts :
    \/ InsertNeighbor(c) \/ UpdateReported(c) \/ RefuseContact(c)
    \/ SetInvalid(c) \/ RemoveContact(c)
    \/ \E s \in PathSizes : UpdateExisting(c, s) \/ InsertContact(c, s)
-----------------------------------------------------------------------------
(* The n contacts of S that are closest to target, all of S if there are   *)
(* fewer.                                                                  *)
Nearest(S, target, n) ==
  {c \in S : Cardinality({d \in S : Closer(d, c, target, Group)}) < n}

(* The level of bucket i; the last bucket is a level of its own.           *)
LevelOf(i) == (i - 1) \div LevelWidth

(* Mutant: of the shallower levels, the first one is visited first.        *)
VisitedTopDown(i, j, target) ==
  LET level == LevelOf(BucketIndex(Len(buckets), target))
  IN  LevelOf(j) < level /\ (LevelOf(i) >= level \/ LevelOf(i) < LevelOf(j))

(* The order in which closest visits the buckets: those of the target's    *)
(* level by the xor of their digit and the target's, all deeper levels, in *)
(* order, in the place of the root's own digit; then the shallower levels  *)
(* going up.  Buckets of such a level are visited together.                *)
VisitedBefore(i, j, target) ==
  LET level    == LevelOf(BucketIndex(Len(buckets), target))
      digit    == Bits(XorOf[Root][target], BITS - (level + 1) * ACC, ACC)
      Digit(k) == IF LevelOf(k) = level THEN LevelWidth - ((k - 1) % LevelWidth) ELSE 0
      Dist(k)  == XorOf[digit][Digit(k)]
  IN  IF LevelOf(j) < level THEN LevelOf(i) > LevelOf(j)
      ELSE /\ LevelOf(i) >= level /\ i # j
           /\ \/ Dist(i) < Dist(j)
              \/ Dist(i) = Dist(j) /\ LevelOf(i) < LevelOf(j)

(* What bucket i adds to a result: its valid contacts, but of the last     *)
(* bucket, if it is the target's own, only the n nearest ones.             *)
Offered(i, target, n) ==
  LET usable == valid \cap buckets[i]
  IN  IF i = Len(buckets) /\ BucketIndex(Len(buckets), target) = i
      THEN Nearest(usable, target, n) ELSE usable

Earlier(i, target, n) ==
  UNION {Offered(j, target, n) : j \in {j \in DOMAIN buckets : VisitedBefore(j, i, target)}}

(* FlatRoutingTable::closest: buckets are visited until n contacts are     *)
(* found.                                                                  *)
ClosestInBuckets(target, n) ==
  UNION {Offered(i, target, n) : i \in {i \in DOMAIN buckets :
                                          Cardinality(Earlier(i, target, n)) < n}}

(* UnlimitedULNRoutingTable::closest: with the neighbours, and cut down to *)
(* n where the one after them would be of the last bucket.                 *)
Closest(target, n) ==
  LET found == ClosestInBuckets(target, n) \cup (valid \cap un_contacts)
      next  == Nearest(found, target, n + 1) \ Nearest(found, target, n)
  IN  IF \E c \in next : BucketIndex(Len(buckets), c) = Len(buckets)
      THEN Nearest(found, target, n) ELSE found

(* Mutant: proximity before the xor metric in every case.                  *)
NextHopByProximity(target) ==
  LET found == Closest(target, 1)
      best  == {c \in found : \A d \in found : SharedPrefixLen(target, d, Group)
                                                <= SharedPrefixLen(target, c, Group)}
  IN  {c \in best : SharedPrefixLen(target, c, Group) >= SharedPrefixLen(target, Root, Group)
                    /\ \A d \in best : size[c] <= size[d]}

(* next_hop among the contacts found: nobody, if the root is closer than   *)
(* the nearest of them.  Of those that share the longest prefix, the one   *)
(* nearest to the target if the root shares as much, otherwise the one     *)
(* with the shortest path, the nearest one if there are several.           *)
HopAmong(found, nearest, target) ==
  LET PrefixLen(c) == SharedPrefixLen(target, c, Group)
      best  == {c \in found : \A d \in nearest : PrefixLen(c) = PrefixLen(d)}
      short == {c \in best : \A d \in best : size[c] <= size[d]}
  IN  IF \A c \in nearest : Closer(Root, c, target, Group) THEN {}
      ELSE IF \E c \in nearest : PrefixLen(c) = PrefixLen(Root) THEN nearest
      ELSE Nearest(short, target, 1)

NextHop(target) ==
  LET found == Closest(target, 1)
  IN  HopAmong(found, Nearest(found, target, 1), target)
-----------------------------------------------------------------------------
(* Every contact can be found: it is in the bucket that get_bucket_index   *)
(* computes from its id, whatever has been split since it was added, no    *)
(* bucket overflows and a neighbour is not in a bucket as well.            *)
Placement ==
  /\ \A i \in DOMAIN buckets :
       /\ Cardinality(buckets[i]) <= BUCKET_SIZE
       /\ \A c \in buckets[i] : BucketIndex(Len(buckets), c) = i
  /\ un_contacts \cap InBuckets = {}

(* The promise of closest: valid contacts only, and none is left out that  *)
(* shares a longer prefix with the target than one of the best n returned. *)
ClosestByPrefix ==
  events = <<>> => \A target \in NodeIds, n \in 1 .. BUCKET_SIZE + 1 :
    LET found == Closest(target, n)
    IN  /\ found \subseteq Present \cap valid
        /\ \A c \in (Present \cap valid) \ found :
             Cardinality({d \in found : SharedPrefixLen(target, d, Group)
                                          >= SharedPrefixLen(target, c, Group)}) >= n

(* Greedy routing: the next hop is closer to the target than the node, so  *)
(* no route returns to it, and a contact that shares a longer prefix with  *)
(* the target than the node does is never missed.                          *)
NextHopProgress ==
  events = <<>> => \A target \in NodeIds :
    /\ \A c \in NextHop(target) : Closer(c, Root, target, Group)
    /\ \A c \in Present \cap valid :
         SharedPrefixLen(target, c, Group) > SharedPrefixLen(target, Root, Group)
           => \E d \in NextHop(target) : SharedPrefixLen(target, d, Group)
                                            >= SharedPrefixLen(target, c, Group)

=============================================================================
