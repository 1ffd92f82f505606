--------------------- MODULE DeriveFwdTableEntries_proof ---------------------
(***************************************************************************)
(* Proofs about the routing table and the forwarding entries derived from  *)
(* it, for ids, levels and buckets of every size and every set of          *)
(* contacts: a contact is in the bucket that get_bucket_index computes,    *)
(* however often buckets were split; once the events are handled the       *)
(* entries of the forwarding table are the paths of the routing table;     *)
(* with one bit per level no prefix is left behind; and closest and        *)
(* next_hop find the contacts they promise.  The last two rest on the laws *)
(* of the exclusive or in XorAssumption, the others on none of them.       *)
(***************************************************************************)
EXTENDS DeriveFwdTableEntries, FiniteSetTheorems, SequenceTheorems,
        WellFoundedInduction, TLAPS

-----------------------------------------------------------------------------
(* The index of a bucket *)

(* The size of a level is a number, and contacts are finitely many.        *)
LEMMA Sizes ==
  /\ ACC \in Nat /\ BITS \in Nat /\ LevelWidth \in Nat /\ 2^ACC = LevelWidth + 1
  /\ IsFiniteSet(Contacts)
<1>1. ACC \in Nat /\ BITS \in Nat /\ ACC \in 0 .. BITS
  BY NodeIdAssumption, RoutingTableAssumption
<1>2. 2^ACC \in Nat \ {0} /\ 2^BITS \in Nat \ {0}
  BY <1>1, NodeIdAssumption
<1>3. IsFiniteSet(NodeIds)
  BY <1>2, FS_Interval DEF NodeIds
<1>4. IsFiniteSet(Contacts)
  BY <1>3, FS_Subset, RoutingTableAssumption
<1>5. LevelWidth \in Nat /\ 2^ACC = LevelWidth + 1
  BY <1>2 DEF LevelWidth
<1> QED
  BY <1>1, <1>4, <1>5

(* leading_zeros counts.                                                   *)
LEMMA PrefixType ==
  ASSUME NEW c \in Contacts
  PROVE  SharedPrefixLen(Root, c, ACC) \in Nat
<1>1. Root \in NodeIds /\ c \in NodeIds
  BY RoutingTableAssumption
<1>2. XorOf[Root][c] \in NodeIds
  BY <1>1, NodeIdAssumption
<1> DEFINE id == XorOf[Root][c]
           S == {z \in 1 .. BITS : id < 2^(BITS - z)}
<1>3. LeadingZeros[id] = Cardinality(S)
  BY <1>2 DEF LeadingZeros
<1>4. IsFiniteSet(1 .. BITS)
  BY Sizes, FS_Interval
<1>5. Cardinality(S) \in Nat
  BY <1>4, FS_Subset, FS_CardinalityType
<1>6. ACC \in Nat /\ ACC > 0
  BY RoutingTableAssumption, NodeIdAssumption
<1> HIDE DEF id, S
<1>7. LeadingZeros[id] \in Nat
  BY <1>3, <1>5
<1>8. LeadingZeros[id] \div ACC \in Nat
  BY <1>6, <1>7
<1> QED
  BY <1>8 DEF SharedPrefixLen, id

(* The place of a contact in a table that is large enough.                 *)
Beyond(c) == (SharedPrefixLen(Root, c, ACC) + 1) * ACC > BITS
Slot(c) ==
  LET prefix == SharedPrefixLen(Root, c, ACC)
  IN  prefix * LevelWidth + LevelWidth - Bits(XorOf[Root][c], BITS - (prefix + 1) * ACC, ACC)

(* get_bucket_index cuts off what is beyond the last bucket.               *)
LEMMA IndexCut ==
  ASSUME NEW c, NEW num
  PROVE  BucketIndex(num, c) = IF Beyond(c) \/ Slot(c) > num - 1 THEN num ELSE Slot(c) + 1
BY DEF BucketIndex, Beyond, Slot

(* Slots are numbers.                                                      *)
LEMMA SlotType ==
  ASSUME NEW c \in Contacts, ~Beyond(c)
  PROVE  Slot(c) \in Nat
<1> DEFINE prefix == SharedPrefixLen(Root, c, ACC)
           from == BITS - (prefix + 1) * ACC
           x == XorOf[Root][c]
           digit == Bits(x, from, ACC)
<1>1. prefix \in Nat
  BY PrefixType
<1>2. ~((prefix + 1) * ACC > BITS)
  BY DEF Beyond
<1>3. x \in Nat
  <2>1. x \in NodeIds
    BY NodeIdAssumption, RoutingTableAssumption
  <2>2. 2^BITS \in Nat
    BY Sizes, NodeIdAssumption
  <2> QED
    BY <2>1, <2>2 DEF NodeIds
<1> HIDE DEF prefix, x
<1>4. (prefix + 1) * ACC \in Nat /\ prefix * LevelWidth \in Nat
  BY <1>1, Sizes
<1>5. from \in 0 .. BITS
  BY <1>2, <1>4, Sizes
<1> HIDE DEF from
<1>6. 2^from \in Nat \ {0}
  BY <1>5, NodeIdAssumption
<1>7. x \div 2^from \in Nat
  BY <1>3, <1>6
<1>8. digit \in 0 .. LevelWidth
  <2>1. digit = (x \div 2^from) % (LevelWidth + 1)
    BY Sizes DEF Bits
  <2> DEFINE y == x \div 2^from
  <2> HIDE DEF y
  <2>2. y % (LevelWidth + 1) \in 0 .. LevelWidth
    BY <1>7, Sizes DEF y
  <2> QED
    BY <2>1, <2>2 DEF y
<1>9. Slot(c) = prefix * LevelWidth + LevelWidth - digit
  BY DEF Slot, prefix, from, x
<1> HIDE DEF digit
<1>10. prefix * LevelWidth + LevelWidth - digit \in Nat
  BY <1>4, <1>8, Sizes
<1> QED
  BY <1>9, <1>10

(* The index is that of a bucket of the table.                             *)
LEMMA IndexRange ==
  ASSUME NEW c \in Contacts, NEW num \in Nat \ {0}
  PROVE  BucketIndex(num, c) \in 1 .. num
BY IndexCut, SlotType

(* In a larger table, the contacts of the last bucket move to that place   *)
(* or behind it, the others stay.                                          *)
LEMMA IndexGrows ==
  ASSUME NEW c \in Contacts, NEW num \in Nat \ {0}, NEW more \in Nat, num <= more
  PROVE  /\ BucketIndex(num, c) < num => BucketIndex(more, c) = BucketIndex(num, c)
         /\ BucketIndex(num, c) = num => BucketIndex(more, c) >= num
BY IndexCut, SlotType

-----------------------------------------------------------------------------
(* Buckets *)

(* What every operation keeps of the buckets.                              *)
BucketsOK(bs) ==
  /\ bs \in Seq(SUBSET Contacts) /\ Len(bs) \in Nat \ {0}
  /\ \A i \in 1 .. Len(bs) : /\ Cardinality(bs[i]) <= BUCKET_SIZE
                             /\ \A c \in bs[i] : BucketIndex(Len(bs), c) = i

Held(bs) == UNION ToSet(bs)

(* A contact is held if its own bucket has it.                             *)
LEMMA HeldWhere ==
  ASSUME NEW bs, BucketsOK(bs), NEW c
  PROVE  /\ c \in Held(bs) <=> \E i \in 1 .. Len(bs) : c \in bs[i]
         /\ c \in Held(bs) => c \in Contacts /\ c \in BucketOf(bs, c)
         /\ c \in Contacts => (c \in BucketOf(bs, c) => c \in Held(bs))
<1>1. DOMAIN bs = 1 .. Len(bs) /\ \A i \in 1 .. Len(bs) : bs[i] \subseteq Contacts
  BY DEF BucketsOK
<1>2. c \in Held(bs) <=> \E i \in 1 .. Len(bs) : c \in bs[i]
  BY <1>1, Zenon DEF Held, ToSet
<1>3. ASSUME NEW i \in 1 .. Len(bs), c \in bs[i]
      PROVE  c \in Contacts /\ c \in BucketOf(bs, c)
  BY <1>1, <1>3 DEF BucketsOK, BucketOf
<1>4. c \in Contacts => BucketIndex(Len(bs), c) \in 1 .. Len(bs)
  BY IndexRange DEF BucketsOK
<1> QED
  BY <1>2, <1>3, <1>4, Zenon DEF BucketOf

(* Buckets are finite.                                                     *)
LEMMA BucketFinite ==
  ASSUME NEW bs, BucketsOK(bs), NEW i \in 1 .. Len(bs)
  PROVE  bs[i] \subseteq Contacts /\ IsFiniteSet(bs[i]) /\ Cardinality(bs[i]) \in Nat
<1>1. bs[i] \subseteq Contacts
  BY DEF BucketsOK
<1> QED
  BY <1>1, Sizes, FS_Subset, FS_CardinalityType

(* split_bucket places the contacts of the last bucket anew.               *)
LEMMA SplitOK ==
  ASSUME NEW bs, BucketsOK(bs), NEW n \in Nat
  PROVE  BucketsOK(SplitBucket(bs, n)) /\ Held(SplitBucket(bs, n)) = Held(bs)
<1> DEFINE old == Len(bs)
           num == old + n * LevelWidth
           new == SplitBucket(bs, n)
<1>1. old \in Nat \ {0} /\ bs \in Seq(SUBSET Contacts)
  BY DEF BucketsOK
<1>2. num \in Nat \ {0} /\ old <= num
  BY <1>1, Sizes
<1>3. Last(bs) = bs[old]
  BY DEF Last
<1> HIDE DEF num
<1>4. new = [i \in 1 .. num |-> IF i < old THEN bs[i]
                                ELSE {c \in bs[old] : BucketIndex(num, c) = i}]
  BY <1>3 DEF SplitBucket, num
<1>5. bs[old] \subseteq Contacts /\ \A i \in 1 .. old : bs[i] \subseteq Contacts
  BY <1>1
<1>6. new \in [1 .. num -> SUBSET Contacts]
  BY <1>1, <1>2, <1>4, <1>5
<1>7. new \in Seq(SUBSET Contacts) /\ Len(new) = num
  BY <1>2, <1>6
<1> HIDE DEF new
<1>8. ASSUME NEW i \in 1 .. num
      PROVE  Cardinality(new[i]) <= BUCKET_SIZE
  <2>1. CASE i < old
    BY <1>1, <1>2, <1>4, <2>1 DEF BucketsOK
  <2>2. CASE ~(i < old)
    <3>1. new[i] \subseteq bs[old]
      BY <1>4, <2>2
    <3>2. old \in 1 .. old
      BY <1>1
    <3>3. Cardinality(bs[old]) <= BUCKET_SIZE /\ IsFiniteSet(bs[old])
      BY <3>2, BucketFinite DEF BucketsOK
    <3>4. Cardinality(new[i]) <= Cardinality(bs[old]) /\ Cardinality(new[i]) \in Nat
      BY <3>1, <3>3, FS_Subset, FS_CardinalityType
    <3>5. Cardinality(bs[old]) \in Nat /\ BUCKET_SIZE \in Nat
      BY <3>2, BucketFinite, RoutingTableAssumption
    <3> QED
      BY <3>3, <3>4, <3>5
  <2> QED
    BY <2>1, <2>2
<1>9. ASSUME NEW i \in 1 .. num, NEW c \in new[i]
      PROVE  BucketIndex(num, c) = i
  <2>1. CASE i < old
    <3>1. c \in bs[i] /\ i \in 1 .. old
      BY <1>1, <1>2, <1>4, <2>1
    <3>2. BucketIndex(old, c) = i /\ c \in Contacts
      BY <3>1, <1>5 DEF BucketsOK
    <3> QED
      BY <3>2, <2>1, <1>1, <1>2, IndexGrows
  <2>2. CASE ~(i < old)
    BY <1>4, <2>2
  <2> QED
    BY <2>1, <2>2
<1>10. BucketsOK(new)
  BY <1>2, <1>7, <1>8, <1>9 DEF BucketsOK
<1>11. ASSUME NEW c, c \in Held(bs)
       PROVE  c \in Held(new)
  <2>1. PICK i \in 1 .. old : c \in bs[i]
    BY <1>11, HeldWhere
  <2>2. c \in Contacts /\ BucketIndex(old, c) = i
    BY <2>1, <1>5 DEF BucketsOK
  <2>3. CASE i < old
    <3>1. i \in 1 .. num /\ c \in new[i]
      BY <1>1, <1>2, <1>4, <2>1, <2>3
    <3> QED
      BY <3>1, <1>7, <1>10, HeldWhere
  <2>4. CASE i = old
    <3> DEFINE j == BucketIndex(num, c)
    <3>1. j \in 1 .. num /\ j >= old
      BY <2>2, <2>4, <1>1, <1>2, IndexRange, IndexGrows
    <3> HIDE DEF j
    <3>2. c \in new[j]
      BY <3>1, <1>1, <1>4, <2>1, <2>4 DEF j
    <3> QED
      BY <3>1, <3>2, <1>7, <1>10, HeldWhere
  <2> QED
    BY <2>3, <2>4, <1>1
<1>12. ASSUME NEW c, c \in Held(new)
       PROVE  c \in Held(bs)
  <2>1. PICK i \in 1 .. num : c \in new[i]
    BY <1>12, <1>7, <1>10, HeldWhere
  <2>2. \E j \in 1 .. old : c \in bs[j]
    BY <2>1, <1>1, <1>2, <1>4
  <2> QED
    BY <2>2, HeldWhere
<1> QED
  BY <1>10, <1>11, <1>12 DEF new

(* insert works on the table after some splits.                            *)
LEMMA MakeRoomOK ==
  ASSUME NEW bs, BucketsOK(bs), NEW c, NEW new \in MakeRoom(bs, c)
  PROVE  BucketsOK(new) /\ Held(new) = Held(bs)
<1>1. PICK n \in 0 .. MaxBuckets : new = SplitBucket(bs, n)
  BY Zenon DEF MakeRoom
<1>2. n \in Nat
  BY <1>1
<1> QED
  BY <1>1, <1>2, SplitOK

(* A bucket with room takes another contact.                               *)
LEMMA AddOK ==
  ASSUME NEW bs, BucketsOK(bs), NEW c \in Contacts, HasRoom(bs, c)
  PROVE  BucketsOK(AddTo(bs, c)) /\ Held(AddTo(bs, c)) = Held(bs) \cup {c}
<1> DEFINE num == Len(bs)
           k == BucketIndex(num, c)
           new == AddTo(bs, c)
<1>1. num \in Nat \ {0} /\ bs \in Seq(SUBSET Contacts)
  BY DEF BucketsOK
<1>2. k \in 1 .. num
  BY <1>1, IndexRange
<1> HIDE DEF k
<1>3. new = [bs EXCEPT ![k] = bs[k] \cup {c}]
  BY DEF AddTo, k
<1>4. new \in Seq(SUBSET Contacts) /\ Len(new) = num
  BY <1>1, <1>2, <1>3
<1>5. \A i \in 1 .. num : new[i] = IF i = k THEN bs[k] \cup {c} ELSE bs[i]
  BY <1>1, <1>2, <1>3
<1> HIDE DEF new
<1>6. Cardinality(bs[k] \cup {c}) <= BUCKET_SIZE
  <2>1. IsFiniteSet(bs[k]) /\ Cardinality(bs[k]) \in Nat
    BY <1>2, BucketFinite
  <2>2. Cardinality(bs[k]) < BUCKET_SIZE
    BY DEF HasRoom, BucketOf, k
  <2>3. Cardinality(bs[k] \cup {c}) \in {Cardinality(bs[k]), Cardinality(bs[k]) + 1}
    BY <2>1, FS_AddElement
  <2> QED
    BY <2>1, <2>2, <2>3, RoutingTableAssumption
<1>7. ASSUME NEW i \in 1 .. num
      PROVE  /\ Cardinality(new[i]) <= BUCKET_SIZE
             /\ \A d \in new[i] : BucketIndex(num, d) = i
  BY <1>5, <1>6 DEF BucketsOK, k
<1>8. BucketsOK(new)
  BY <1>1, <1>4, <1>7 DEF BucketsOK
<1>9. ASSUME NEW d
      PROVE  d \in Held(new) <=> d \in Held(bs) \cup {c}
  BY <1>2, <1>4, <1>5, <1>8, HeldWhere
<1> QED
  BY <1>8, <1>9 DEF new

(* A contact is taken out of its bucket, which then has room for another   *)
(* one of the same place.                                                  *)
LEMMA RemoveOK ==
  ASSUME NEW bs, BucketsOK(bs), NEW w \in Contacts
  PROVE  /\ BucketsOK(RemoveFrom(bs, w)) /\ Held(RemoveFrom(bs, w)) = Held(bs) \ {w}
         /\ \A c \in Contacts : w \in BucketOf(bs, c) => HasRoom(RemoveFrom(bs, w), c)
<1> DEFINE num == Len(bs)
           k == BucketIndex(num, w)
           new == RemoveFrom(bs, w)
<1>1. num \in Nat \ {0} /\ bs \in Seq(SUBSET Contacts)
  BY DEF BucketsOK
<1>2. k \in 1 .. num
  BY <1>1, IndexRange
<1> HIDE DEF k
<1>3. new = [bs EXCEPT ![k] = bs[k] \ {w}]
  BY DEF RemoveFrom, k
<1>4. new \in Seq(SUBSET Contacts) /\ Len(new) = num
  BY <1>1, <1>2, <1>3
<1>5. \A i \in 1 .. num : new[i] = IF i = k THEN bs[k] \ {w} ELSE bs[i]
  BY <1>1, <1>2, <1>3
<1> HIDE DEF new
<1>6. IsFiniteSet(bs[k]) /\ Cardinality(bs[k]) \in Nat /\ Cardinality(bs[k]) <= BUCKET_SIZE
  BY <1>2, BucketFinite DEF BucketsOK
<1>7. Cardinality(bs[k] \ {w}) = IF w \in bs[k] THEN Cardinality(bs[k]) - 1 ELSE Cardinality(bs[k])
  BY <1>6, FS_RemoveElement
<1>8. ASSUME NEW i \in 1 .. num
      PROVE  /\ Cardinality(new[i]) <= BUCKET_SIZE
             /\ \A d \in new[i] : BucketIndex(num, d) = i
  BY <1>5, <1>6, <1>7, RoutingTableAssumption DEF BucketsOK
<1>9. BucketsOK(new)
  BY <1>1, <1>4, <1>8 DEF BucketsOK
<1>10. ASSUME NEW d, d \in Held(new)
       PROVE  d \in Held(bs) /\ d # w
  <2>1. PICK i \in 1 .. num : d \in new[i]
    BY <1>10, <1>9, <1>4, HeldWhere
  <2>2. d \in bs[i] /\ (i = k => d # w)
    BY <2>1, <1>5
  <2>3. BucketIndex(num, d) = i
    BY <2>1, <1>8
  <2> QED
    BY <2>2, <2>3, HeldWhere DEF k
<1>11. ASSUME NEW d, d \in Held(bs), d # w
       PROVE  d \in Held(new)
  BY <1>11, <1>4, <1>5, <1>9, HeldWhere
<1>12. ASSUME NEW c \in Contacts, w \in BucketOf(bs, c)
       PROVE  HasRoom(new, c)
  <2>1. BucketIndex(num, c) \in 1 .. num
    BY <1>1, IndexRange
  <2>2. BucketIndex(num, c) = k /\ w \in bs[k]
    BY <1>12, <2>1 DEF BucketOf, BucketsOK, k
  <2>3. BucketOf(new, c) = bs[k] \ {w}
    BY <2>2, <1>2, <1>4, <1>5 DEF BucketOf
  <2> QED
    BY <2>2, <2>3, <1>6, <1>7, RoutingTableAssumption DEF HasRoom
<1> QED
  BY <1>9, <1>10, <1>11, <1>12 DEF new

-----------------------------------------------------------------------------
(* The table *)

(* What the operations keep of the table: contacts are held once, and only *)
(* those that are held are valid.                                          *)
TableInv ==
  /\ BucketsOK(buckets)
  /\ un_contacts \subseteq Contacts /\ un_contacts \cap Held(buckets) = {}
  /\ valid \subseteq Held(buckets) \cup un_contacts
  /\ size \in [Contacts -> PathSizes]

LEMMA HeldContacts ==
  ASSUME TableInv
  PROVE  Held(buckets) \subseteq Contacts /\ valid \subseteq Contacts
BY HeldWhere DEF TableInv

LEMMA TableInvInit ==
  ASSUME TableInit
  PROVE  TableInv
<1>1. buckets = <<{}>> /\ un_contacts = {} /\ valid = {} /\ size = [c \in Contacts |-> 1]
  BY DEF TableInit
<1>2. buckets \in Seq(SUBSET Contacts) /\ Len(buckets) = 1 /\ buckets[1] = {}
  BY <1>1
<1>3. Cardinality({}) = 0
  BY FS_EmptySet
<1>4. BucketsOK(buckets)
  <2>1. Len(buckets) \in Nat \ {0} /\ BUCKET_SIZE \in Nat
    BY <1>2, RoutingTableAssumption
  <2>2. ASSUME NEW i \in 1 .. Len(buckets)
        PROVE  buckets[i] = {}
    BY <1>2
  <2>3. 0 <= BUCKET_SIZE
    BY <2>1
  <2> QED
    BY <1>2, <1>3, <2>1, <2>2, <2>3 DEF BucketsOK
<1>5. size \in [Contacts -> PathSizes]
  BY <1>1, RoutingTableAssumption
<1> QED
  BY <1>1, <1>4, <1>5 DEF TableInv

LEMMA InsertNeighborKeeps ==
  ASSUME TableInv, NEW c \in Contacts, InsertNeighbor(c)
  PROVE  TableInv'
<1>1. BucketsOK(buckets') /\ Held(buckets') = Held(buckets) \ {c}
  BY RemoveOK DEF InsertNeighbor, TableInv
<1>2. 1 \in PathSizes
  BY RoutingTableAssumption
<1> QED
  BY <1>1, <1>2 DEF InsertNeighbor, ActivePath, TableInv

LEMMA PathKeeps ==
  ASSUME TableInv, NEW c \in Contacts, NEW s \in PathSizes,
         ActivePath(c, s), c \in Present, UNCHANGED <<buckets, un_contacts>>
  PROVE  TableInv'
BY DEF ActivePath, TableInv, Present, InBuckets, Held

LEMMA InsertContactKeeps ==
  ASSUME TableInv, NEW c \in Contacts, NEW s \in PathSizes, InsertContact(c, s)
  PROVE  TableInv'
<1>1. c \notin Held(buckets) /\ ~(c \in un_contacts /\ c \in valid)
  BY DEF InsertContact, InBuckets, Held
<1>2. PICK bs \in MakeRoom(buckets, c) : \E split \in SplitEvents(bs) :
         \/ /\ HasRoom(bs, c)
            /\ buckets' = AddTo(bs, c)
            /\ ActivePath(c, s)
         \/ \E w \in Replaceable(bs, c, s) :
                 /\ buckets' = AddTo(RemoveFrom(bs, w), c)
                 /\ valid' = (valid \ {w}) \cup {c}
                 /\ size' = [size EXCEPT ![c] = s, ![w] = 1]
         \/ /\ buckets' = bs
            /\ UNCHANGED <<valid, size>>
  BY Zenon DEF InsertContact
<1>3. BucketsOK(bs) /\ Held(bs) = Held(buckets)
  BY MakeRoomOK DEF TableInv
<1>4. un_contacts' = un_contacts \ {c}
  BY DEF InsertContact
<1>5. CASE HasRoom(bs, c) /\ buckets' = AddTo(bs, c) /\ ActivePath(c, s)
  <2>1. BucketsOK(buckets') /\ Held(buckets') = Held(buckets) \cup {c}
    BY <1>3, <1>5, AddOK
  <2> QED
    BY <2>1, <1>4, <1>5 DEF ActivePath, TableInv
<1>6. CASE \E w \in Replaceable(bs, c, s) :
                 /\ buckets' = AddTo(RemoveFrom(bs, w), c)
                 /\ valid' = (valid \ {w}) \cup {c}
                 /\ size' = [size EXCEPT ![c] = s, ![w] = 1]
  <2>1. PICK w \in Replaceable(bs, c, s) :
                 /\ buckets' = AddTo(RemoveFrom(bs, w), c)
                 /\ valid' = (valid \ {w}) \cup {c}
                 /\ size' = [size EXCEPT ![c] = s, ![w] = 1]
    BY <1>6
  <2>2. w \in BucketOf(bs, c)
    BY DEF Replaceable
  <2>3. BucketIndex(Len(bs), c) \in 1 .. Len(bs)
    BY <1>3, IndexRange DEF BucketsOK
  <2>4. w \in Contacts
    BY <1>3, <2>2, <2>3, BucketFinite DEF BucketOf
  <2> DEFINE less == RemoveFrom(bs, w)
  <2>5. BucketsOK(less) /\ Held(less) = Held(buckets) \ {w} /\ HasRoom(less, c)
    BY <1>3, <2>2, <2>4, RemoveOK
  <2> HIDE DEF less
  <2>6. BucketsOK(buckets') /\ Held(buckets') = (Held(buckets) \ {w}) \cup {c}
    BY <2>1, <2>5, AddOK DEF less
  <2>7. size' \in [Contacts -> PathSizes]
    BY <2>1, RoutingTableAssumption DEF TableInv
  <2> QED
    BY <2>1, <2>6, <2>7, <1>4 DEF TableInv
<1>7. CASE buckets' = bs /\ UNCHANGED <<valid, size>>
  BY <1>1, <1>3, <1>4, <1>7 DEF TableInv
<1> QED
  BY <1>2, <1>5, <1>6, <1>7

LEMMA RefuseContactKeeps ==
  ASSUME TableInv, NEW c \in Contacts, RefuseContact(c)
  PROVE  TableInv'
BY DEF RefuseContact, TableInv

LEMMA SetInvalidKeeps ==
  ASSUME TableInv, NEW c \in Contacts, SetInvalid(c)
  PROVE  TableInv'
BY DEF SetInvalid, TableInv

LEMMA RemoveContactKeeps ==
  ASSUME TableInv, NEW c \in Contacts, RemoveContact(c)
  PROVE  TableInv'
<1>1. BucketsOK(RemoveFrom(buckets, c)) /\ Held(RemoveFrom(buckets, c)) = Held(buckets) \ {c}
  BY RemoveOK DEF TableInv
<1>2. 1 \in PathSizes
  BY RoutingTableAssumption
<1>3. CASE c \in un_contacts
  BY <1>2, <1>3 DEF RemoveContact, TableInv
<1>4. CASE c \notin un_contacts
  BY <1>1, <1>2, <1>4 DEF RemoveContact, TableInv
<1> QED
  BY <1>3, <1>4

LEMMA TableNextKeeps ==
  ASSUME TableInv, TableNext
  PROVE  TableInv'
<1>1. PICK c \in Contacts :
        \/ InsertNeighbor(c) \/ UpdateReported(c) \/ RefuseContact(c)
        \/ SetInvalid(c) \/ RemoveContact(c)
        \/ \E s \in PathSizes : UpdateExisting(c, s) \/ InsertContact(c, s)
  BY DEF TableNext
<1>2. CASE UpdateReported(c)
  <2>1. 1 \in PathSizes /\ c \in Present
    BY <1>2, RoutingTableAssumption DEF UpdateReported
  <2> QED
    BY <1>2, <2>1, PathKeeps DEF UpdateReported
<1>3. ASSUME NEW s \in PathSizes, UpdateExisting(c, s)
      PROVE  TableInv'
  <2>1. c \in Present
    BY <1>3 DEF UpdateExisting, Present
  <2> QED
    BY <1>3, <2>1, PathKeeps DEF UpdateExisting
<1> QED
  BY <1>1, <1>2, <1>3, InsertNeighborKeeps, RefuseContactKeeps, SetInvalidKeeps,
     RemoveContactKeeps, InsertContactKeeps

LEMMA TableInvStutters ==
  ASSUME TableInv, UNCHANGED table
  PROVE  TableInv'
BY DEF table, TableInv

(* The handlers of the use case only read the table.                       *)
LEMMA HandlersLeaveTable ==
  ASSUME ContactNew \/ ContactRemoved \/ BucketChanged \/ ContactInvalidated
           \/ ContactValidated \/ PathChanged \/ ContactDisplaced
  PROVE  UNCHANGED table
BY Zenon DEF ContactNew, ContactRemoved, BucketChanged, ContactInvalidated, ContactValidated,
             PathChanged, ContactDisplaced, Handle

(* The operations on the table keep contacts in place and held once, and   *)
(* no contact is valid that is not held.                                   *)
THEOREM TableInvariant == Spec => []TableInv
<1>1. Init => TableInv
  BY TableInvInit DEF Init
<1>2. TableInv /\ [Next]_vars => TableInv'
  <2> SUFFICES ASSUME TableInv, [Next]_vars PROVE TableInv'
    OBVIOUS
  <2>1. CASE TableNext
    BY <2>1, TableNextKeeps
  <2>2. CASE ContactNew \/ ContactRemoved \/ BucketChanged \/ ContactInvalidated
               \/ ContactValidated \/ PathChanged \/ ContactDisplaced
    BY <2>2, HandlersLeaveTable, TableInvStutters
  <2>3. CASE UNCHANGED vars
    <3>1. UNCHANGED table
      BY <2>3 DEF vars
    <3> QED
      BY <3>1, TableInvStutters
  <2> QED
    BY <2>1, <2>2, <2>3 DEF Next
<1> QED
  BY <1>1, <1>2, PTL DEF Spec

(* Contacts can be found: insert, remove and split_bucket of               *)
(* FlatRoutingTable keep every contact in the bucket get_bucket_index      *)
(* computes from its id, within the bucket's size, and a neighbour of      *)
(* UnlimitedULNRoutingTable out of all buckets.                            *)
THEOREM PlacementAlways == Spec => []Placement
<1>1. TableInv => Placement
  <2> SUFFICES ASSUME TableInv PROVE Placement
    OBVIOUS
  <2>1. DOMAIN buckets = 1 .. Len(buckets)
    BY DEF TableInv, BucketsOK
  <2>2. un_contacts \cap InBuckets = {}
    BY DEF TableInv, InBuckets, Held
  <2> QED
    BY <2>1, <2>2 DEF TableInv, BucketsOK, Placement
<1> QED
  BY <1>1, TableInvariant, PTL

-----------------------------------------------------------------------------
(* Events and entries *)

Views == [id : Contacts, valid : BOOLEAN, size : PathSizes]

(* The events the table raises: a new contact is valid, and a contact that *)
(* is not valid any more takes nobody's place.                             *)
Event ==
  {e \in [type : {"New"}, new : Views] : e.new.valid}
    \cup [type : {"Removed"}, old : Views]
    \cup {e \in [type : {"Updated"}, old : Views, new : Views] :
            e.new.valid \/ (e.old.id = e.new.id /\ e.old.valid)}
    \cup [type : {"Bucket"}, index : Nat \ {0}]

(* The contacts whose entries the handler of an event derives.             *)
Concerns(e, c) ==
  \/ e.type \in {"New", "Updated"} /\ e.new.id = c
  \/ e.type = "Removed" /\ e.old.id = c
  \/ e.type = "Updated" /\ e.old.id = c /\ e.old.valid

(* The path of the entry that the handler of e leaves for c.               *)
Outcome(e, c) ==
  IF e.type \in {"New", "Updated"} /\ e.new.id = c /\ e.new.valid THEN e.new.size ELSE 0

(* The path of the table, 0 if there is none.                              *)
PathOf(c) == IF c \in valid THEN size[c] ELSE 0

(* The entry of c is that of the path p once the events es are handled:    *)
(* the last one that concerns c is about p, or there is none and the entry *)
(* is there already.                                                       *)
Settled(es, f, c, p) ==
  \/ \E k \in 1 .. Len(es) :
       /\ Concerns(es[k], c) /\ Outcome(es[k], c) = p
       /\ \A j \in k + 1 .. Len(es) : ~Concerns(es[j], c)
  \/ /\ \A j \in 1 .. Len(es) : ~Concerns(es[j], c)
     /\ c \in f.failed \/ f.node[c] = p

(* The routes of the kernel are those of the entries, except that the      *)
(* route of a neighbour outlives its entry.                                *)
RouteOK(f, c) == IF f.node[c] = 0 THEN f.route[c] \in {0, 1} ELSE f.route[c] = f.node[c]

FwdOK(f) ==
  /\ f = [node |-> f.node, route |-> f.route, subnet |-> f.subnet, prefix |-> f.prefix,
          failed |-> f.failed]
  /\ f.node \in [Contacts -> Nat] /\ f.route \in [Contacts -> Nat] /\ f.failed \in SUBSET Contacts
  /\ \A c \in Contacts : RouteOK(f, c)

EntryInv ==
  /\ FwdOK(fwd)
  /\ events \in Seq(Event)
  /\ \A c \in Contacts : Settled(events, fwd, c, PathOf(c))
(* Events about others change nothing for c.                               *)
LEMMA QuietEvents ==
  ASSUME NEW es \in Seq(Event), NEW more \in Seq(Event), NEW f, NEW c, NEW p,
         \A j \in 1 .. Len(more) : ~Concerns(more[j], c), Settled(es, f, c, p)
  PROVE  Settled(es \o more, f, c, p)
<1> DEFINE all == es \o more
<1>1. Len(es) \in Nat /\ Len(more) \in Nat /\ Len(all) = Len(es) + Len(more)
  OBVIOUS
<1>2. \A j \in 1 .. Len(es) : all[j] = es[j]
  OBVIOUS
<1>3. \A j \in 1 .. Len(more) : all[Len(es) + j] = more[j]
  OBVIOUS
<1> HIDE DEF all
<1>4. ASSUME NEW j \in Len(es) + 1 .. Len(all)
      PROVE  ~Concerns(all[j], c)
  <2>1. j - Len(es) \in 1 .. Len(more) /\ j = Len(es) + (j - Len(es))
    BY <1>1
  <2> QED
    BY <2>1, <1>3
<1>5. CASE \E k \in 1 .. Len(es) :
             /\ Concerns(es[k], c) /\ Outcome(es[k], c) = p
             /\ \A j \in k + 1 .. Len(es) : ~Concerns(es[j], c)
  <2>1. PICK k \in 1 .. Len(es) :
             /\ Concerns(es[k], c) /\ Outcome(es[k], c) = p
             /\ \A j \in k + 1 .. Len(es) : ~Concerns(es[j], c)
    BY <1>5
  <2>2. k \in 1 .. Len(all) /\ all[k] = es[k]
    BY <1>1, <1>2
  <2>3. ASSUME NEW j \in k + 1 .. Len(all)
        PROVE  ~Concerns(all[j], c)
    <3>1. j \in k + 1 .. Len(es) \/ j \in Len(es) + 1 .. Len(all)
      BY <1>1
    <3>2. CASE j \in k + 1 .. Len(es)
      BY <3>2, <2>1, <1>1, <1>2
    <3> QED
      BY <3>1, <3>2, <1>4
  <2> QED
    BY <2>1, <2>2, <2>3 DEF Settled, all
<1>6. CASE /\ \A j \in 1 .. Len(es) : ~Concerns(es[j], c)
           /\ c \in f.failed \/ f.node[c] = p
  <2>1. ASSUME NEW j \in 1 .. Len(all)
        PROVE  ~Concerns(all[j], c)
    <3>1. j \in 1 .. Len(es) \/ j \in Len(es) + 1 .. Len(all)
      BY <1>1
    <3> QED
      BY <3>1, <1>2, <1>4, <1>6
  <2> QED
    BY <2>1, <1>6 DEF Settled, all
<1> QED
  BY <1>5, <1>6 DEF Settled

(* The last event decides.                                                 *)
LEMMA LastEvent ==
  ASSUME NEW es \in Seq(Event), NEW e \in Event, NEW f, NEW c, NEW p,
         Concerns(e, c) /\ Outcome(e, c) = p
  PROVE  Settled(Append(es, e), f, c, p)
<1> DEFINE all == Append(es, e)
           k == Len(es) + 1
<1>1. Len(all) = k /\ all[k] = e /\ k \in 1 .. Len(all)
  OBVIOUS
<1>2. \A j \in k + 1 .. Len(all) : FALSE
  BY <1>1
<1> HIDE DEF all, k
<1>3. Settled(all, f, c, p)
  BY <1>1, <1>2 DEF Settled
<1> QED
  BY <1>3 DEF all

(* A handler that derives the entries its event concerns.                  *)
Derives(e, f, g) ==
  /\ FwdOK(g)
  /\ \A c \in Contacts :
       /\ Concerns(e, c) => c \in g.failed \/ g.node[c] = Outcome(e, c)
       /\ ~Concerns(e, c) => g.node[c] = f.node[c] /\ (c \in f.failed => c \in g.failed)

LEMMA FirstEvent ==
  ASSUME NEW es \in Seq(Event), es # <<>>, NEW f, NEW g, NEW c \in Contacts, NEW p,
         Settled(es, f, c, p), Derives(Head(es), f, g)
  PROVE  Settled(Tail(es), g, c, p)
<1> DEFINE rest == Tail(es)
<1>1. Len(es) \in Nat \ {0} /\ Len(rest) = Len(es) - 1 /\ Head(es) = es[1]
  OBVIOUS
<1>2. \A j \in 1 .. Len(rest) : rest[j] = es[j + 1]
  OBVIOUS
<1> HIDE DEF rest
<1>3. /\ Concerns(es[1], c) => c \in g.failed \/ g.node[c] = Outcome(es[1], c)
      /\ ~Concerns(es[1], c) => g.node[c] = f.node[c] /\ (c \in f.failed => c \in g.failed)
  BY <1>1 DEF Derives
<1>4. ASSUME NEW k \in Nat, \A j \in k + 1 .. Len(es) : ~Concerns(es[j], c),
             NEW j \in k .. Len(rest), j > 0
      PROVE  ~Concerns(rest[j], c)
  <2>1. j \in 1 .. Len(rest) /\ j + 1 \in k + 1 .. Len(es)
    BY <1>1, <1>4
  <2> QED
    BY <2>1, <1>2, <1>4
<1>5. ASSUME NEW k \in 1 .. Len(es), Concerns(es[k], c) /\ Outcome(es[k], c) = p,
             \A j \in k + 1 .. Len(es) : ~Concerns(es[j], c)
      PROVE  Settled(rest, g, c, p)
  <2>1. CASE k = 1
    <3>1. c \in g.failed \/ g.node[c] = p
      BY <1>3, <1>5, <2>1
    <3>2. \A j \in 1 .. Len(rest) : ~Concerns(rest[j], c)
      BY <1>4, <1>5, <2>1
    <3> QED
      BY <3>1, <3>2 DEF Settled
  <2>2. CASE k > 1
    <3> DEFINE l == k - 1
    <3>1. l \in 1 .. Len(rest) /\ rest[l] = es[k]
      BY <1>1, <1>2, <2>2
    <3>2. ASSUME NEW j \in l + 1 .. Len(rest)
          PROVE  ~Concerns(rest[j], c)
      <4>1. k \in Nat /\ j \in k .. Len(rest) /\ j > 0
        BY <1>1, <2>2
      <4> QED
        BY <4>1, <1>4, <1>5
    <3> HIDE DEF l
    <3> QED
      BY <3>1, <3>2, <1>5 DEF Settled
  <2> QED
    BY <2>1, <2>2, <1>1
<1>6. CASE /\ \A j \in 1 .. Len(es) : ~Concerns(es[j], c)
           /\ c \in f.failed \/ f.node[c] = p
  <2>1. c \in g.failed \/ g.node[c] = p
    BY <1>1, <1>3, <1>6
  <2>2. ASSUME NEW j \in 1 .. Len(rest)
        PROVE  ~Concerns(rest[j], c)
    <3>1. j + 1 \in 1 .. Len(es)
      BY <1>1
    <3> QED
      BY <3>1, <1>2, <1>6
  <2> QED
    BY <2>1, <2>2 DEF Settled
<1> QED
  BY <1>5, <1>6, Zenon DEF Settled, rest

-----------------------------------------------------------------------------
(* Handlers *)

(* The entry of c is derived, with path p, and no other.                   *)
Derived(f, g, c, p) ==
  /\ FwdOK(g)
  /\ c \in g.failed \/ g.node[c] = p
  /\ \A d \in Contacts \ {c} : g.node[d] = f.node[d] /\ (d \in f.failed => d \in g.failed)

(* update_bucket is about prefixes only.                                   *)
SameEntries(f, g) ==
  FwdOK(g) /\ g.node = f.node /\ g.route = f.route /\ g.failed = f.failed

LEMMA PrefixesApart ==
  ASSUME NEW f, FwdOK(f), NEW a, NEW b, NEW g, g = [f EXCEPT !.subnet = a, !.prefix = b]
  PROVE  SameEntries(f, g)
<1>1. PICK n, ro, su, pr, fa :
        f = [node |-> n, route |-> ro, subnet |-> su, prefix |-> pr, failed |-> fa]
  BY Zenon DEF FwdOK
<1>2. g = [node |-> f.node, route |-> f.route, subnet |-> a, prefix |-> b, failed |-> f.failed]
  BY <1>1
<1>3. /\ g.node = f.node /\ g.route = f.route /\ g.subnet = a /\ g.prefix = b
      /\ g.failed = f.failed
  BY <1>2
<1>4. FwdOK(g)
  BY <1>2, <1>3 DEF FwdOK, RouteOK
<1> QED
  BY <1>3, <1>4 DEF SameEntries

LEMMA UpdateBucketApart ==
  ASSUME NEW f, FwdOK(f), NEW i, NEW r \in UpdateBucket(f, i)
  PROVE  SameEntries(f, r.fwd)
<1>1. CASE r = Result(f, FALSE)
  BY <1>1 DEF Result, SameEntries
<1>2. CASE r = Result(Withdraw(f, i), TRUE)
  <2> DEFINE a == IF i \in DOMAIN f.prefix THEN Without(f.subnet, f.prefix[i]) ELSE f.subnet
             b == Without(f.prefix, i)
  <2>1. Withdraw(f, i) = [f EXCEPT !.subnet = a, !.prefix = b]
    BY DEF Withdraw
  <2> HIDE DEF a, b
  <2>2. SameEntries(f, Withdraw(f, i))
    BY <2>1, PrefixesApart
  <2> QED
    BY <1>2, <2>2 DEF Result
<1>3. ASSUME NEW c, r = Result(Install(f, i, c), TRUE)
      PROVE  SameEntries(f, r.fwd)
  <2> DEFINE pre == BucketPrefix(i, c)
             others == IF i \in DOMAIN f.prefix THEN Without(f.subnet, f.prefix[i]) ELSE f.subnet
             a == With(others, pre, c)
             b == With(f.prefix, i, pre)
  <2>1. Install(f, i, c) = [f EXCEPT !.prefix = b, !.subnet = a]
    BY DEF Install
  <2> HIDE DEF a, b
  <2>2. PICK n, ro, su, pr, fa :
          f = [node |-> n, route |-> ro, subnet |-> su, prefix |-> pr, failed |-> fa]
    BY Zenon DEF FwdOK
  <2>3. [f EXCEPT !.prefix = b, !.subnet = a] = [f EXCEPT !.subnet = a, !.prefix = b]
    BY <2>2
  <2>4. SameEntries(f, Install(f, i, c))
    BY <2>1, <2>3, PrefixesApart
  <2> QED
    BY <1>3, <2>4 DEF Result
<1>4. CASE Proximate(i) = {}
  BY <1>2, <1>4 DEF UpdateBucket
<1>5. CASE Proximate(i) # {}
  <2>1. r = Result(f, FALSE) \/ \E c \in Proximate(i) : r = Result(Install(f, i, c), TRUE)
    BY <1>5, Zenon DEF UpdateBucket
  <2> QED
    BY <2>1, <1>1, <1>3
<1> QED
  BY <1>4, <1>5

LEMMA SameDerived ==
  ASSUME NEW f, NEW g, NEW h, NEW c, NEW p, Derived(f, g, c, p), SameEntries(g, h)
  PROVE  Derived(f, h, c, p)
BY DEF Derived, SameEntries

(* NodeIdTableUpdate::CreateOrUpdate.                                      *)
LEMMA CreateDerives ==
  ASSUME NEW f, FwdOK(f), NEW v \in Views
  PROVE  Derived(f, CreateOrUpdate(f, v), v.id, v.size)
<1> DEFINE c == v.id
           s == v.size
           g == CreateOrUpdate(f, v)
<1>1. c \in Contacts /\ s \in Nat \ {0}
  BY RoutingTableAssumption DEF Views
<1>2. PICK n, ro, su, pr, fa :
        f = [node |-> n, route |-> ro, subnet |-> su, prefix |-> pr, failed |-> fa]
  BY Zenon DEF FwdOK
<1> DEFINE node == [f.node EXCEPT ![c] = s]
           route == [f.route EXCEPT ![c] = IF f.node[c] = s THEN f.route[c] ELSE s]
           failed == f.failed \ {c}
<1> HIDE DEF c, s
<1> HIDE DEF node, route, failed
<1>3. g = [node |-> node, route |-> route, subnet |-> f.subnet, prefix |-> f.prefix,
           failed |-> failed]
  <2>1. g = [f EXCEPT !.node = node, !.failed = failed, !.route = route]
    <3>1. f.node = n /\ f.route = ro /\ f.failed = fa
      BY <1>2
    <3> QED
      BY <1>2, <3>1 DEF CreateOrUpdate, c, s, node, route, failed
  <2> HIDE DEF g
  <2> QED
    BY <2>1, <1>2
<1> HIDE DEF g
<1> USE DEF node, route, failed
<1>4. node \in [Contacts -> Nat] /\ route \in [Contacts -> Nat] /\ failed \in SUBSET Contacts
  BY <1>1 DEF FwdOK
<1>5. ASSUME NEW d \in Contacts
      PROVE  /\ node[d] = IF d = c THEN s ELSE f.node[d]
             /\ route[d] = IF d = c THEN IF f.node[c] = s THEN f.route[c] ELSE s ELSE f.route[d]
  BY <1>1 DEF FwdOK
<1> HIDE DEF node, route, failed
<1>6. /\ g.node = node /\ g.route = route /\ g.subnet = f.subnet /\ g.prefix = f.prefix
      /\ g.failed = failed
  BY <1>3
<1>7. ASSUME NEW d \in Contacts
      PROVE  RouteOK(g, d)
  <2>1. RouteOK(f, d) /\ RouteOK(f, c)
    BY <1>1 DEF FwdOK
  <2> QED
    BY <2>1, <1>1, <1>5, <1>6 DEF RouteOK
<1>8. FwdOK(g)
  BY <1>3, <1>4, <1>6, <1>7 DEF FwdOK
<1>9. \A d \in Contacts \ {c} : g.node[d] = f.node[d] /\ (d \in f.failed => d \in g.failed)
  BY <1>5, <1>6 DEF failed
<1> QED
  BY <1>1, <1>5, <1>6, <1>8, <1>9 DEF Derived, g, c, s

(* NodeIdTableUpdate::Remove.                                              *)
LEMMA RemoveDerives ==
  ASSUME NEW f, FwdOK(f), NEW c \in Contacts
  PROVE  Derived(f, RemoveNode(f, c), c, 0)
<1> DEFINE g == RemoveNode(f, c)
           node == [f.node EXCEPT ![c] = 0]
           route == [f.route EXCEPT ![c] = IF f.node[c] > 1 THEN 0 ELSE f.route[c]]
           failed == f.failed \ {c}
<1>2. PICK n, ro, su, pr, fa :
        f = [node |-> n, route |-> ro, subnet |-> su, prefix |-> pr, failed |-> fa]
  BY Zenon DEF FwdOK
<1> HIDE DEF node, route, failed
<1>3. g = [node |-> node, route |-> route, subnet |-> f.subnet, prefix |-> f.prefix,
           failed |-> failed]
  <2>1. g = [f EXCEPT !.node = node, !.failed = failed, !.route = route]
    <3>1. f.node = n /\ f.route = ro /\ f.failed = fa
      BY <1>2
    <3> QED
      BY <1>2, <3>1 DEF RemoveNode, node, route, failed
  <2> HIDE DEF g
  <2> QED
    BY <2>1, <1>2
<1> HIDE DEF g
<1> USE DEF node, route, failed
<1>4. node \in [Contacts -> Nat] /\ route \in [Contacts -> Nat] /\ failed \in SUBSET Contacts
  BY DEF FwdOK
<1>5. ASSUME NEW d \in Contacts
      PROVE  /\ node[d] = IF d = c THEN 0 ELSE f.node[d]
             /\ route[d] = IF d = c THEN IF f.node[c] > 1 THEN 0 ELSE f.route[c] ELSE f.route[d]
  BY DEF FwdOK
<1> HIDE DEF node, route, failed
<1>6. /\ g.node = node /\ g.route = route /\ g.subnet = f.subnet /\ g.prefix = f.prefix
      /\ g.failed = failed
  BY <1>3
<1>7. ASSUME NEW d \in Contacts
      PROVE  RouteOK(g, d)
  <2>1. RouteOK(f, d) /\ RouteOK(f, c) /\ f.node[c] \in Nat
    BY DEF FwdOK
  <2> QED
    BY <2>1, <1>5, <1>6 DEF RouteOK
<1>8. FwdOK(g)
  BY <1>3, <1>4, <1>6, <1>7 DEF FwdOK
<1>9. \A d \in Contacts \ {c} : g.node[d] = f.node[d] /\ (d \in f.failed => d \in g.failed)
  BY <1>5, <1>6 DEF failed
<1> QED
  BY <1>5, <1>6, <1>8, <1>9 DEF Derived, g

(* A handler that could not resolve the path.                              *)
LEMMA FailureDerives ==
  ASSUME NEW f, FwdOK(f), NEW c \in Contacts, NEW p
  PROVE  Derived(f, [f EXCEPT !.failed = @ \cup {c}], c, p)
<1> DEFINE g == [f EXCEPT !.failed = @ \cup {c}]
<1>1. f = [node |-> f.node, route |-> f.route, subnet |-> f.subnet, prefix |-> f.prefix,
           failed |-> f.failed]
  BY DEF FwdOK
<1>2. g = [node |-> f.node, route |-> f.route, subnet |-> f.subnet, prefix |-> f.prefix,
           failed |-> f.failed \cup {c}]
  BY <1>1, SMTT(30)
<1> HIDE DEF g
<1>3. /\ g.node = f.node /\ g.route = f.route /\ g.subnet = f.subnet /\ g.prefix = f.prefix
      /\ g.failed = f.failed \cup {c}
  BY <1>2
<1>4. FwdOK(g)
  BY <1>2, <1>3 DEF FwdOK, RouteOK
<1> QED
  BY <1>3, <1>4 DEF Derived, g

LEMMA CreateEntryDerives ==
  ASSUME NEW f, FwdOK(f), NEW v \in Views, NEW r \in CreateEntry(f, v)
  PROVE  Derived(f, r.fwd, v.id, v.size)
<1>1. v.id \in Contacts
  BY DEF Views
<1>2. CASE r \in {Result([f EXCEPT !.failed = @ \cup {c}], FALSE) : c \in Underivable({v.id})}
  <2>1. r = Result([f EXCEPT !.failed = @ \cup {v.id}], FALSE)
    BY <1>2, Zenon DEF Underivable
  <2> QED
    BY <2>1, <1>1, FailureDerives DEF Result
<1>3. CASE r \in UpdateBucket(CreateOrUpdate(f, v), Index(v.id))
  <2> DEFINE g == CreateOrUpdate(f, v)
  <2>1. Derived(f, g, v.id, v.size)
    BY CreateDerives
  <2> HIDE DEF g
  <2>2. SameEntries(g, r.fwd)
    BY <2>1, <1>3, UpdateBucketApart DEF Derived, g
  <2> QED
    BY <2>1, <2>2, SameDerived
<1> QED
  BY <1>2, <1>3, Zenon DEF CreateEntry

LEMMA RemoveEntryDerives ==
  ASSUME NEW f, FwdOK(f), NEW c \in Contacts, NEW r \in RemoveEntry(f, c)
  PROVE  Derived(f, r.fwd, c, 0)
<1> DEFINE g == RemoveNode(f, c)
<1>1. Derived(f, g, c, 0)
  BY RemoveDerives
<1>2. CASE r = Result(g, TRUE)
  <2>1. r.fwd = g
    BY <1>2 DEF Result
  <2> QED
    BY <1>1, <2>1
<1>3. CASE r \in UpdateBucket(g, Index(c))
  <2> HIDE DEF g
  <2>1. SameEntries(g, r.fwd)
    BY <1>1, <1>3, UpdateBucketApart DEF Derived
  <2> QED
    BY <1>1, <2>1, SameDerived
<1>4. r = Result(g, TRUE) \/ r \in UpdateBucket(g, Index(c))
  BY Zenon DEF RemoveEntry
<1> QED
  BY <1>2, <1>3, <1>4

LEMMA DisplaceEntryDerives ==
  ASSUME NEW f, FwdOK(f), NEW c \in Contacts, NEW v \in Views, v.id # c,
         NEW r \in DisplaceEntry(f, c, v)
  PROVE  /\ FwdOK(r.fwd)
         /\ v.id \in r.fwd.failed \/ r.fwd.node[v.id] = v.size
         /\ c \in r.fwd.failed \/ r.fwd.node[c] = 0
         /\ \A d \in Contacts \ {c, v.id} :
              r.fwd.node[d] = f.node[d] /\ (d \in f.failed => d \in r.fwd.failed)
<1>1. PICK q \in RemoveEntry(f, c) :
        r \in IF q.ok THEN CreateEntry(q.fwd, v)
              ELSE {Result([q.fwd EXCEPT !.failed = @ \cup {v.id}], FALSE)}
  BY Zenon DEF DisplaceEntry
<1>2. Derived(f, q.fwd, c, 0)
  BY <1>1, RemoveEntryDerives
<1>3. v.id \in Contacts
  BY DEF Views
<1>4. FwdOK(q.fwd)
  BY <1>2 DEF Derived
<1>5. Derived(q.fwd, r.fwd, v.id, v.size)
  <2>1. CASE r \in CreateEntry(q.fwd, v)
    BY <2>1, <1>4, CreateEntryDerives
  <2>2. CASE r = Result([q.fwd EXCEPT !.failed = @ \cup {v.id}], FALSE)
    BY <2>2, <1>3, <1>4, FailureDerives DEF Result
  <2> QED
    BY <1>1, <2>1, <2>2
<1> QED
  BY <1>2, <1>3, <1>5 DEF Derived

LEMMA EventCases ==
  ASSUME NEW e \in Event
  PROVE  /\ e.type = "New" => e.new \in Views /\ e.new.valid
         /\ e.type = "Removed" => e.old \in Views
         /\ e.type = "Updated" => /\ e.old \in Views /\ e.new \in Views
                                  /\ e.new.valid \/ (e.old.id = e.new.id /\ e.old.valid)
<1>1. CASE e \in [type : {"New"}, new : Views] /\ e.new.valid
  BY <1>1
<1>2. CASE e \in [type : {"Removed"}, old : Views]
  BY <1>2
<1>3. CASE /\ e \in [type : {"Updated"}, old : Views, new : Views]
           /\ e.new.valid \/ (e.old.id = e.new.id /\ e.old.valid)
  BY <1>3
<1>4. CASE e \in [type : {"Bucket"}, index : Nat \ {0}]
  BY <1>4
<1> QED
  BY <1>1, <1>2, <1>3, <1>4, Zenon DEF Event

LEMMA ViewFields ==
  ASSUME NEW v \in Views
  PROVE  v.id \in Contacts /\ v.valid \in BOOLEAN /\ v.size \in PathSizes
BY DEF Views

(* An event that concerns one contact.                                     *)
LEMMA DerivesOne ==
  ASSUME NEW e, NEW f, NEW g, NEW c, Derived(f, g, c, Outcome(e, c)),
         \A d : Concerns(e, d) <=> d = c
  PROVE  Derives(e, f, g)
BY DEF Derives, Derived

(* handle_event derives the entries that its event concerns.               *)
LEMMA HandleDerives ==
  ASSUME EntryInv, NEW type, NEW outcomes, Handle(type, outcomes),
         \A r \in outcomes :
           First \in Event /\ First.type = type => Derives(First, fwd, r.fwd)
  PROVE  EntryInv'
<1>1. /\ events # <<>> /\ First.type = type /\ events' = Tail(events) /\ UNCHANGED table
      /\ \E r \in outcomes : fwd' = r.fwd
  BY Zenon DEF Handle
<1>2. events \in Seq(Event)
  BY DEF EntryInv
<1>3. First \in Event /\ events' \in Seq(Event)
  BY <1>1, <1>2 DEF First
<1>4. Derives(Head(events), fwd, fwd')
  BY <1>1, <1>3 DEF First
<1>5. ASSUME NEW c \in Contacts
      PROVE  Settled(events, fwd, c, PathOf(c))' 
  <2>1. Settled(events, fwd, c, PathOf(c)) /\ PathOf(c)' = PathOf(c)
    BY <1>1 DEF EntryInv, PathOf, table
  <2>2. Settled(Tail(events), fwd', c, PathOf(c))
    BY <1>1, <1>2, <1>4, <2>1, FirstEvent
  <2> QED
    BY <1>1, <2>1, <2>2
<1>6. FwdOK(fwd')
  BY <1>4 DEF Derives
<1> QED
  BY <1>3, <1>5, <1>6 DEF EntryInv

LEMMA ContactNewKeeps ==
  ASSUME EntryInv, ContactNew
  PROVE  EntryInv'
<1> DEFINE outcomes == CreateEntry(fwd, First.new)
<1>1. ASSUME NEW r \in outcomes, First \in Event, First.type = "New"
      PROVE  Derives(First, fwd, r.fwd)
  <2>1. First.new \in Views /\ First.new.valid
    BY <1>1, EventCases
  <2>2. Derived(fwd, r.fwd, First.new.id, First.new.size)
    BY <1>1, <2>1, CreateEntryDerives DEF EntryInv
  <2>3. /\ \A d : Concerns(First, d) <=> d = First.new.id
        /\ Outcome(First, First.new.id) = First.new.size
    BY <1>1, <2>1 DEF Concerns, Outcome
  <2> QED
    BY <2>2, <2>3, DerivesOne
<1>2. Handle("New", outcomes)
  BY DEF ContactNew
<1> HIDE DEF outcomes
<1> QED
  BY <1>1, <1>2, HandleDerives

LEMMA ContactRemovedKeeps ==
  ASSUME EntryInv, ContactRemoved
  PROVE  EntryInv'
<1> DEFINE outcomes == RemoveEntry(fwd, First.old.id)
<1>1. ASSUME NEW r \in outcomes, First \in Event, First.type = "Removed"
      PROVE  Derives(First, fwd, r.fwd)
  <2>1. First.old \in Views /\ First.old.id \in Contacts
    BY <1>1, EventCases, ViewFields
  <2>2. Derived(fwd, r.fwd, First.old.id, 0)
    BY <1>1, <2>1, RemoveEntryDerives DEF EntryInv
  <2>3. /\ \A d : Concerns(First, d) <=> d = First.old.id
        /\ Outcome(First, First.old.id) = 0
    BY <1>1, <2>1 DEF Concerns, Outcome
  <2> QED
    BY <2>2, <2>3, DerivesOne
<1>2. Handle("Removed", outcomes)
  BY DEF ContactRemoved
<1> HIDE DEF outcomes
<1> QED
  BY <1>1, <1>2, HandleDerives

LEMMA BucketChangedKeeps ==
  ASSUME EntryInv, BucketChanged
  PROVE  EntryInv'
<1> DEFINE outcomes == UpdateBucket(fwd, First.index)
<1>1. ASSUME NEW r \in outcomes, First \in Event, First.type = "Bucket"
      PROVE  Derives(First, fwd, r.fwd)
  <2>1. SameEntries(fwd, r.fwd)
    BY <1>1, UpdateBucketApart DEF EntryInv
  <2>2. \A d : ~Concerns(First, d)
    BY <1>1 DEF Concerns
  <2> QED
    BY <2>1, <2>2 DEF SameEntries, Derives
<1>2. Handle("Bucket", outcomes)
  BY DEF BucketChanged
<1> HIDE DEF outcomes
<1> QED
  BY <1>1, <1>2, HandleDerives

LEMMA ContactInvalidatedKeeps ==
  ASSUME EntryInv, ContactInvalidated
  PROVE  EntryInv'
<1> DEFINE outcomes == IF Updated(TRUE, FALSE) THEN RemoveEntry(fwd, First.new.id) ELSE {}
<1>1. ASSUME NEW r \in outcomes, First \in Event, First.type = "Updated"
      PROVE  Derives(First, fwd, r.fwd)
  <2>1. /\ First.old \in Views /\ First.new \in Views /\ First.new.id \in Contacts
        /\ First.new.valid \/ (First.old.id = First.new.id /\ First.old.valid)
    BY <1>1, EventCases, ViewFields
  <2>2. ~First.new.valid /\ r \in RemoveEntry(fwd, First.new.id)
    BY <1>1, Zenon DEF Updated
  <2>3. Derived(fwd, r.fwd, First.new.id, 0)
    BY <2>1, <2>2, RemoveEntryDerives DEF EntryInv
  <2>4. /\ \A d : Concerns(First, d) <=> d = First.new.id
        /\ Outcome(First, First.new.id) = 0
    BY <1>1, <2>1, <2>2 DEF Concerns, Outcome
  <2> QED
    BY <2>3, <2>4, DerivesOne
<1>2. Handle("Updated", outcomes)
  BY DEF ContactInvalidated
<1> HIDE DEF outcomes
<1> QED
  BY <1>1, <1>2, HandleDerives

LEMMA ContactValidatedKeeps ==
  ASSUME EntryInv, ContactValidated
  PROVE  EntryInv'
<1> DEFINE outcomes == IF Updated(FALSE, TRUE) THEN CreateEntry(fwd, First.new) ELSE {}
<1>1. ASSUME NEW r \in outcomes, First \in Event, First.type = "Updated"
      PROVE  Derives(First, fwd, r.fwd)
  <2>1. First.old \in Views /\ First.new \in Views /\ First.new.id \in Contacts
    BY <1>1, EventCases, ViewFields
  <2>2. ~First.old.valid /\ First.new.valid /\ r \in CreateEntry(fwd, First.new)
    BY <1>1, Zenon DEF Updated
  <2>3. Derived(fwd, r.fwd, First.new.id, First.new.size)
    BY <2>1, <2>2, CreateEntryDerives DEF EntryInv
  <2>4. /\ \A d : Concerns(First, d) <=> d = First.new.id
        /\ Outcome(First, First.new.id) = First.new.size
    BY <1>1, <2>1, <2>2 DEF Concerns, Outcome
  <2> QED
    BY <2>3, <2>4, DerivesOne
<1>2. Handle("Updated", outcomes)
  BY DEF ContactValidated
<1> HIDE DEF outcomes
<1> QED
  BY <1>1, <1>2, HandleDerives

LEMMA PathChangedKeeps ==
  ASSUME EntryInv, PathChanged
  PROVE  EntryInv'
<1> DEFINE outcomes == IF Updated(TRUE, TRUE) /\ SameContact
                       THEN CreateEntry(fwd, First.new) ELSE {}
<1>1. ASSUME NEW r \in outcomes, First \in Event, First.type = "Updated"
      PROVE  Derives(First, fwd, r.fwd)
  <2>1. First.old \in Views /\ First.new \in Views /\ First.new.id \in Contacts
    BY <1>1, EventCases, ViewFields
  <2>2. First.old.id = First.new.id /\ First.new.valid /\ r \in CreateEntry(fwd, First.new)
    BY <1>1, Zenon DEF Updated, SameContact
  <2>3. Derived(fwd, r.fwd, First.new.id, First.new.size)
    BY <2>1, <2>2, CreateEntryDerives DEF EntryInv
  <2>4. /\ \A d : Concerns(First, d) <=> d = First.new.id
        /\ Outcome(First, First.new.id) = First.new.size
    BY <1>1, <2>1, <2>2 DEF Concerns, Outcome
  <2> QED
    BY <2>3, <2>4, DerivesOne
<1>2. Handle("Updated", outcomes)
  BY DEF PathChanged
<1> HIDE DEF outcomes
<1> QED
  BY <1>1, <1>2, HandleDerives

LEMMA ContactDisplacedKeeps ==
  ASSUME EntryInv, ContactDisplaced
  PROVE  EntryInv'
<1> DEFINE outcomes == IF Updated(TRUE, TRUE) /\ ~SameContact
                       THEN DisplaceEntry(fwd, First.old.id, First.new) ELSE {}
<1>1. ASSUME NEW r \in outcomes, First \in Event, First.type = "Updated"
      PROVE  Derives(First, fwd, r.fwd)
  <2> DEFINE old == First.old.id
             new == First.new.id
             g == r.fwd
  <2>1. First.old \in Views /\ First.new \in Views /\ old \in Contacts /\ new \in Contacts
    BY <1>1, EventCases, ViewFields
  <2>2. /\ old # new /\ First.old.valid /\ First.new.valid
        /\ r \in DisplaceEntry(fwd, old, First.new)
    BY <1>1, Zenon DEF Updated, SameContact
  <2>3. /\ FwdOK(g)
        /\ new \in g.failed \/ g.node[new] = First.new.size
        /\ old \in g.failed \/ g.node[old] = 0
        /\ \A d \in Contacts \ {old, new} :
             g.node[d] = fwd.node[d] /\ (d \in fwd.failed => d \in g.failed)
    BY <2>1, <2>2, DisplaceEntryDerives DEF EntryInv
  <2>4. /\ \A d : Concerns(First, d) <=> d \in {old, new}
        /\ Outcome(First, new) = First.new.size /\ Outcome(First, old) = 0
    BY <1>1, <2>1, <2>2 DEF Concerns, Outcome
  <2> HIDE DEF old, new, g
  <2>5. Derives(First, fwd, g)
    BY <2>3, <2>4 DEF Derives
  <2> QED
    BY <2>5 DEF g
<1>2. Handle("Updated", outcomes)
  BY DEF ContactDisplaced
<1> HIDE DEF outcomes
<1> QED
  BY <1>1, <1>2, HandleDerives

-----------------------------------------------------------------------------
(* Operations of the table *)

(* An operation raises events about buckets, and one about the contacts    *)
(* whose paths it changes.                                                 *)
LEMMA RaisesEvent ==
  ASSUME EntryInv, UNCHANGED fwd, NEW quiet \in Seq(Event), NEW e \in Event,
         \A j \in 1 .. Len(quiet) : \A c : ~Concerns(quiet[j], c),
         events' = events \o quiet \o <<e>>,
         \A c \in Contacts : IF Concerns(e, c) THEN Outcome(e, c) = PathOf(c)'
                                               ELSE PathOf(c)' = PathOf(c)
  PROVE  EntryInv'
<1> DEFINE es == events \o quiet
<1>1. events \in Seq(Event) /\ FwdOK(fwd)
  BY DEF EntryInv
<1>2. es \in Seq(Event)
  BY <1>1
<1> HIDE DEF es
<1>3. events' = es \o <<e>> /\ events' = Append(es, e) /\ events' \in Seq(Event)
  BY <1>2 DEF es
<1>4. ASSUME NEW c \in Contacts
      PROVE  Settled(events', fwd', c, PathOf(c)')
  <2>1. CASE Concerns(e, c)
    BY <2>1, <1>2, <1>3, LastEvent
  <2>2. CASE ~Concerns(e, c)
    <3>1. Settled(events, fwd, c, PathOf(c)) /\ PathOf(c)' = PathOf(c)
      BY <2>2 DEF EntryInv
    <3>2. Settled(es, fwd, c, PathOf(c))
      BY <1>1, <3>1, QuietEvents DEF es
    <3>3. <<e>> \in Seq(Event) /\ \A j \in 1 .. Len(<<e>>) : ~Concerns(<<e>>[j], c)
      BY <2>2
    <3>4. Settled(es \o <<e>>, fwd, c, PathOf(c))
      BY <1>2, <3>2, <3>3, QuietEvents
    <3> QED
      BY <1>3, <3>1, <3>4
  <2> QED
    BY <2>1, <2>2
<1> QED
  BY <1>1, <1>3, <1>4 DEF EntryInv

LEMMA RaisesQuiet ==
  ASSUME EntryInv, UNCHANGED fwd, NEW quiet \in Seq(Event),
         \A j \in 1 .. Len(quiet) : \A c : ~Concerns(quiet[j], c),
         events' = events \o quiet, \A c \in Contacts : PathOf(c)' = PathOf(c)
  PROVE  EntryInv'
<1>1. events \in Seq(Event) /\ FwdOK(fwd)
  BY DEF EntryInv
<1>2. events' \in Seq(Event)
  BY <1>1
<1>3. ASSUME NEW c \in Contacts
      PROVE  Settled(events', fwd', c, PathOf(c)')
  <2>1. Settled(events, fwd, c, PathOf(c))
    BY DEF EntryInv
  <2>2. Settled(events \o quiet, fwd, c, PathOf(c))
    BY <1>1, <2>1, QuietEvents
  <2> QED
    BY <2>2
<1> QED
  BY <1>1, <1>2, <1>3 DEF EntryInv

LEMMA Notifies ==
  ASSUME EntryInv, UNCHANGED fwd, NEW e \in Event, Notify(e),
         \A c \in Contacts : IF Concerns(e, c) THEN Outcome(e, c) = PathOf(c)'
                                               ELSE PathOf(c)' = PathOf(c)
  PROVE  EntryInv'
<1>1. events \in Seq(Event) /\ events' = Append(events, e)
  BY DEF EntryInv, Notify
<1>2. events' = events \o << >> \o <<e>>
  BY <1>1
<1>3. << >> \in Seq(Event) /\ \A j \in 1 .. Len(<< >>) : \A c : ~Concerns(<< >>[j], c)
  OBVIOUS
<1> QED
  BY <1>2, <1>3, RaisesEvent

(* The copies that events carry.                                           *)
LEMMA CopyType ==
  ASSUME TableInv, NEW c \in Contacts
  PROVE  /\ Copy(c) \in Views /\ Copy(c).id = c /\ (Copy(c).valid <=> c \in valid)
         /\ \A s \in PathSizes, ok \in BOOLEAN :
              /\ View(c, ok, s) \in Views /\ View(c, ok, s).id = c /\ View(c, ok, s).size = s
              /\ View(c, ok, s).valid = ok
<1>1. size[c] \in PathSizes
  BY DEF TableInv
<1>2. ASSUME NEW s \in PathSizes, NEW ok \in BOOLEAN
      PROVE  /\ View(c, ok, s) \in Views /\ View(c, ok, s).id = c /\ View(c, ok, s).size = s
             /\ View(c, ok, s).valid = ok
  BY DEF View, Views
<1>3. (c \in valid) \in BOOLEAN
  OBVIOUS
<1>4. /\ View(c, c \in valid, size[c]) \in Views /\ View(c, c \in valid, size[c]).id = c
      /\ View(c, c \in valid, size[c]).valid = (c \in valid)
  BY <1>1, <1>2, <1>3, Zenon
<1> QED
  BY <1>2, <1>4, Zenon DEF Copy

LEMMA EventTypes ==
  ASSUME NEW v \in Views, NEW w \in Views
  PROVE  /\ v.valid => NewContact(v) \in Event
         /\ RemovedContact(v) \in Event
         /\ (v.valid \/ (w.id = v.id /\ w.valid)) => UpdatedContact(w, v) \in Event
         /\ \A i \in Nat \ {0} : Bucket(i) \in Event
<1>1. v.valid => NewContact(v) \in Event
  <2>1. NewContact(v) \in [type : {"New"}, new : Views] /\ NewContact(v).new = v
    BY DEF NewContact
  <2> QED
    BY <2>1, Zenon DEF Event
<1>2. RemovedContact(v) \in Event
  <2>1. RemovedContact(v) \in [type : {"Removed"}, old : Views]
    BY DEF RemovedContact
  <2> QED
    BY <2>1, Zenon DEF Event
<1>3. (v.valid \/ (w.id = v.id /\ w.valid)) => UpdatedContact(w, v) \in Event
  <2>1. /\ UpdatedContact(w, v) \in [type : {"Updated"}, old : Views, new : Views]
        /\ UpdatedContact(w, v).new = v /\ UpdatedContact(w, v).old = w
    BY DEF UpdatedContact
  <2> QED
    BY <2>1, Zenon DEF Event
<1>4. ASSUME NEW i \in Nat \ {0} PROVE Bucket(i) \in Event
  <2>1. Bucket(i) \in [type : {"Bucket"}, index : Nat \ {0}]
    BY DEF Bucket
  <2> QED
    BY <2>1, Zenon DEF Event
<1> QED
  BY <1>1, <1>2, <1>3, <1>4

(* What the events are about.                                              *)
LEMMA EventMeaning ==
  ASSUME NEW v \in Views, NEW w \in Views, NEW c
  PROVE  /\ Concerns(NewContact(v), c) <=> c = v.id
         /\ Concerns(RemovedContact(v), c) <=> c = v.id
         /\ Concerns(UpdatedContact(w, v), c) <=> c = v.id \/ (c = w.id /\ w.valid)
         /\ \A i : ~Concerns(Bucket(i), c)
         /\ Outcome(NewContact(v), c) = IF c = v.id /\ v.valid THEN v.size ELSE 0
         /\ Outcome(UpdatedContact(w, v), c) = IF c = v.id /\ v.valid THEN v.size ELSE 0
         /\ Outcome(RemovedContact(v), c) = 0
BY DEF Concerns, Outcome, NewContact, RemovedContact, UpdatedContact, Bucket

(* The events of split_bucket are about buckets.                           *)
LEMMA SplitQuiet ==
  ASSUME NEW bs, BucketsOK(bs), NEW split \in SplitEvents(bs)
  PROVE  split \in Seq(Event) /\ \A j \in 1 .. Len(split) : \A c : ~Concerns(split[j], c)
<1> DEFINE B == {Bucket(i) : i \in DOMAIN bs}
<1>1. split \in Seq(B)
  BY Zenon DEF SplitEvents
<1>2. \E m \in Nat : split \in [1 .. m -> B]
  BY <1>1
<1>3. ASSUME NEW b \in B PROVE b \in Event /\ \A c : ~Concerns(b, c)
  <2>1. PICK i \in DOMAIN bs : b = Bucket(i)
    OBVIOUS
  <2>2. i \in Nat \ {0}
    BY DEF BucketsOK
  <2>3. b.type = "Bucket" /\ b \in [type : {"Bucket"}, index : Nat \ {0}]
    BY <2>1, <2>2 DEF Bucket
  <2>4. b \in Event
    BY <2>3, Zenon DEF Event
  <2> QED
    BY <2>3, <2>4 DEF Concerns
<1> HIDE DEF B
<1>4. PICK m \in Nat : split \in [1 .. m -> B]
  BY <1>2
<1>5. split \in [1 .. m -> Event]
  BY <1>3, <1>4
<1> QED
  BY <1>3, <1>4, <1>5

(* A path becomes the active one.                                          *)
LEMMA ActivePathOf ==
  ASSUME TableInv, NEW c \in Contacts, NEW s \in PathSizes, ActivePath(c, s), NEW d \in Contacts
  PROVE  PathOf(d)' = IF d = c THEN s ELSE PathOf(d)
BY DEF TableInv, ActivePath, PathOf

LEMMA InsertNeighborSettles ==
  ASSUME TableInv, EntryInv, UNCHANGED fwd, NEW c \in Contacts, InsertNeighbor(c)
  PROVE  EntryInv'
<1> DEFINE v == View(c, TRUE, 1)
           e == NewContact(v)
<1>1. v \in Views /\ v.id = c /\ v.size = 1 /\ v.valid = TRUE
  BY CopyType, RoutingTableAssumption
<1> HIDE DEF v
<1>2. e \in Event
  BY <1>1, EventTypes
<1>3. \A d \in Contacts : PathOf(d)' = IF d = c THEN 1 ELSE PathOf(d)
  BY ActivePathOf, RoutingTableAssumption DEF InsertNeighbor
<1>4. \A d \in Contacts : (Concerns(e, d) <=> d = c) /\ (d = c => Outcome(e, d) = 1)
  BY <1>1, EventMeaning
<1>5. Notify(e)
  BY DEF InsertNeighbor, v
<1> HIDE DEF e
<1> QED
  BY <1>2, <1>3, <1>4, <1>5, Notifies

LEMMA PathSettles ==
  ASSUME TableInv, EntryInv, UNCHANGED fwd, NEW c \in Contacts, NEW s \in PathSizes,
         ActivePath(c, s), Notify(UpdatedContact(Copy(c), View(c, TRUE, s)))
  PROVE  EntryInv'
<1> DEFINE v == View(c, TRUE, s)
           w == Copy(c)
           e == UpdatedContact(w, v)
<1>1. v \in Views /\ v.id = c /\ v.size = s /\ v.valid = TRUE /\ w \in Views /\ w.id = c
  BY CopyType
<1>2. Notify(e)
  OBVIOUS
<1> HIDE DEF v, w
<1>3. e \in Event
  BY <1>1, EventTypes
<1>4. \A d \in Contacts : PathOf(d)' = IF d = c THEN s ELSE PathOf(d)
  BY ActivePathOf
<1>5. \A d \in Contacts : (Concerns(e, d) <=> d = c) /\ (d = c => Outcome(e, d) = s)
  BY <1>1, EventMeaning
<1> HIDE DEF e
<1> QED
  BY <1>2, <1>3, <1>4, <1>5, Notifies

LEMMA SetInvalidSettles ==
  ASSUME TableInv, EntryInv, UNCHANGED fwd, NEW c \in Contacts, SetInvalid(c)
  PROVE  EntryInv'
<1> DEFINE v == View(c, FALSE, size[c])
           w == Copy(c)
           e == UpdatedContact(w, v)
<1>1. size[c] \in PathSizes /\ c \in valid
  BY DEF TableInv, SetInvalid
<1>2. v \in Views /\ v.id = c /\ v.valid = FALSE /\ w \in Views /\ w.id = c /\ w.valid
  BY <1>1, CopyType
<1>3. Notify(e)
  BY DEF SetInvalid
<1> HIDE DEF v, w
<1>4. e \in Event
  BY <1>2, EventTypes
<1>5. \A d \in Contacts : PathOf(d)' = IF d = c THEN 0 ELSE PathOf(d)
  BY DEF SetInvalid, PathOf
<1>6. \A d \in Contacts : (Concerns(e, d) <=> d = c) /\ (d = c => Outcome(e, d) = 0)
  BY <1>2, EventMeaning
<1> HIDE DEF e
<1> QED
  BY <1>3, <1>4, <1>5, <1>6, Notifies

LEMMA RemoveContactSettles ==
  ASSUME TableInv, EntryInv, UNCHANGED fwd, NEW c \in Contacts, RemoveContact(c)
  PROVE  EntryInv'
<1> DEFINE w == Copy(c)
           e == RemovedContact(w)
<1>1. w \in Views /\ w.id = c
  BY CopyType
<1>2. Notify(e)
  BY DEF RemoveContact
<1> HIDE DEF w
<1>3. e \in Event
  BY <1>1, EventTypes
<1>4. \A d \in Contacts : PathOf(d)' = IF d = c THEN 0 ELSE PathOf(d)
  BY DEF RemoveContact, PathOf, TableInv
<1>5. \A d \in Contacts : (Concerns(e, d) <=> d = c) /\ (d = c => Outcome(e, d) = 0)
  BY <1>1, EventMeaning
<1> HIDE DEF e
<1> QED
  BY <1>2, <1>3, <1>4, <1>5, Notifies

(* A neighbour that is taken out without an event had no path.             *)
LEMMA RefuseContactSettles ==
  ASSUME TableInv, EntryInv, UNCHANGED fwd, NEW c \in Contacts, RefuseContact(c)
  PROVE  EntryInv'
BY DEF RefuseContact, EntryInv, PathOf

LEMMA InsertContactSettles ==
  ASSUME TableInv, EntryInv, UNCHANGED fwd, NEW c \in Contacts, NEW s \in PathSizes,
         InsertContact(c, s)
  PROVE  EntryInv'
<1>1. c \notin Held(buckets) /\ c \notin valid
  BY DEF InsertContact, InBuckets, Held, TableInv
<1> DEFINE Inserted(bs, split) ==
         \/ /\ ActivePath(c, s)
            /\ events' = events \o split \o <<NewContact(View(c, TRUE, s))>>
         \/ \E w \in Replaceable(bs, c, s) :
                 /\ valid' = (valid \ {w}) \cup {c}
                 /\ size' = [size EXCEPT ![c] = s, ![w] = 1]
                 /\ events' = events \o split \o <<UpdatedContact(Copy(w), View(c, TRUE, s))>>
         \/ /\ events' = events \o split
            /\ UNCHANGED <<valid, size>>
<1>2. PICK bs \in MakeRoom(buckets, c) : \E split \in SplitEvents(bs) : Inserted(bs, split)
  BY Zenon DEF InsertContact
<1>3. PICK split \in SplitEvents(bs) : Inserted(bs, split)
  BY <1>2
<1>4. BucketsOK(bs) /\ Held(bs) = Held(buckets)
  BY MakeRoomOK DEF TableInv
<1>5. split \in Seq(Event) /\ \A j \in 1 .. Len(split) : \A d : ~Concerns(split[j], d)
  BY <1>4, SplitQuiet
<1> DEFINE v == View(c, TRUE, s)
<1>6. v \in Views /\ v.id = c /\ v.size = s /\ v.valid = TRUE
  BY CopyType
<1>7. CASE ActivePath(c, s) /\ events' = events \o split \o <<NewContact(v)>>
  <2> DEFINE e == NewContact(v)
  <2>1. events' = events \o split \o <<e>>
    BY <1>7
  <2> HIDE DEF v
  <2>2. e \in Event
    BY <1>6, EventTypes
  <2>3. \A d \in Contacts : PathOf(d)' = IF d = c THEN s ELSE PathOf(d)
    BY <1>7, ActivePathOf
  <2>4. \A d \in Contacts : (Concerns(e, d) <=> d = c) /\ (d = c => Outcome(e, d) = s)
    BY <1>6, EventMeaning
  <2> HIDE DEF e
  <2> QED
    BY <1>5, <2>1, <2>2, <2>3, <2>4, RaisesEvent
<1>8. ASSUME NEW w \in Replaceable(bs, c, s),
             valid' = (valid \ {w}) \cup {c}, size' = [size EXCEPT ![c] = s, ![w] = 1],
             events' = events \o split \o <<UpdatedContact(Copy(w), v)>>
      PROVE  EntryInv'
  <2> DEFINE u == Copy(w)
             e == UpdatedContact(u, v)
  <2>1. w \in Held(bs) /\ w \in Contacts
    <3>1. BucketIndex(Len(bs), c) \in 1 .. Len(bs)
      BY <1>4, IndexRange DEF BucketsOK
    <3>2. w \in bs[BucketIndex(Len(bs), c)]
      BY DEF Replaceable, BucketOf
    <3>3. w \in Held(bs)
      BY <1>4, <3>1, <3>2, HeldWhere
    <3> QED
      BY <1>4, <3>3, HeldWhere
  <2>2. w # c
    BY <1>1, <1>4, <2>1
  <2>3. u \in Views /\ u.id = w /\ (u.valid <=> w \in valid)
    BY <2>1, CopyType
  <2>4. events' = events \o split \o <<e>>
    BY <1>8
  <2> HIDE DEF u, v
  <2>5. e \in Event
    BY <1>6, <2>3, EventTypes
  <2>6. \A d \in Contacts : PathOf(d)' = IF d = c THEN s ELSE IF d = w THEN 0 ELSE PathOf(d)
    BY <1>8, <2>1, <2>2 DEF PathOf, TableInv
  <2>7. \A d \in Contacts : /\ Concerns(e, d) <=> d = c \/ (d = w /\ w \in valid)
                            /\ d = c => Outcome(e, d) = s
                            /\ d = w => Outcome(e, d) = 0
    BY <1>6, <2>2, <2>3, EventMeaning
  <2>8. w \notin valid => PathOf(w) = 0
    BY DEF PathOf
  <2> HIDE DEF e
  <2>9. \A d \in Contacts : IF Concerns(e, d) THEN Outcome(e, d) = PathOf(d)'
                                              ELSE PathOf(d)' = PathOf(d)
    BY <2>2, <2>6, <2>7, <2>8
  <2> QED
    BY <1>5, <2>4, <2>5, <2>9, RaisesEvent
<1>9. CASE events' = events \o split /\ UNCHANGED <<valid, size>>
  <2>1. \A d \in Contacts : PathOf(d)' = PathOf(d)
    BY <1>9 DEF PathOf
  <2> QED
    BY <1>5, <1>9, <2>1, RaisesQuiet
<1> QED
  BY <1>3, <1>7, <1>8, <1>9

LEMMA TableNextSettles ==
  ASSUME TableInv, EntryInv, TableNext, UNCHANGED fwd
  PROVE  EntryInv'
<1>1. PICK c \in Contacts :
        \/ InsertNeighbor(c) \/ UpdateReported(c) \/ RefuseContact(c)
        \/ SetInvalid(c) \/ RemoveContact(c)
        \/ \E s \in PathSizes : UpdateExisting(c, s) \/ InsertContact(c, s)
  BY DEF TableNext
<1>2. CASE UpdateReported(c)
  <2>1. 1 \in PathSizes
    BY RoutingTableAssumption
  <2> QED
    BY <1>2, <2>1, PathSettles DEF UpdateReported
<1>3. ASSUME NEW s \in PathSizes, UpdateExisting(c, s)
      PROVE  EntryInv'
  BY <1>3, PathSettles DEF UpdateExisting
<1> QED
  BY <1>1, <1>2, <1>3, InsertNeighborSettles, RefuseContactSettles, SetInvalidSettles,
     RemoveContactSettles, InsertContactSettles

(* For every contact, the last event in the queue of derive_fwd_entries    *)
(* that concerns it carries its present path, or the entry has it already. *)
THEOREM EntryInvariant == Spec => []EntryInv
<1>1. Init => EntryInv
  <2> SUFFICES ASSUME Init PROVE EntryInv
    OBVIOUS
  <2> DEFINE none == [c \in Contacts |-> 0]
  <2>1. /\ events = << >> /\ valid = {}
        /\ fwd = [node |-> none, route |-> none, subnet |-> << >>, prefix |-> << >>, failed |-> {}]
    BY DEF Init, TableInit
  <2>2. none \in [Contacts -> Nat] /\ \A c \in Contacts : none[c] = 0
    OBVIOUS
  <2> HIDE DEF none
  <2>3. FwdOK(fwd)
    BY <2>1, <2>2 DEF FwdOK, RouteOK
  <2>4. \A c \in Contacts : PathOf(c) = 0 /\ fwd.node[c] = 0
    BY <2>1, <2>2 DEF PathOf
  <2>5. \A c \in Contacts : Settled(events, fwd, c, PathOf(c))
    BY <2>1, <2>4 DEF Settled
  <2>6. events \in Seq(Event)
    BY <2>1
  <2> QED
    BY <2>3, <2>5, <2>6, Zenon DEF EntryInv
<1>2. TableInv /\ EntryInv /\ [Next]_vars => EntryInv'
  <2> SUFFICES ASSUME TableInv, EntryInv, [Next]_vars PROVE EntryInv'
    OBVIOUS
  <2>1. CASE TableNext /\ UNCHANGED <<fwd, errors>>
    BY <2>1, TableNextSettles
  <2>2. CASE UNCHANGED vars
    BY <2>2 DEF vars, table, EntryInv, PathOf
  <2> QED
    BY <2>1, <2>2, ContactNewKeeps, ContactRemovedKeeps, BucketChangedKeeps,
       ContactInvalidatedKeeps, ContactValidatedKeeps, PathChangedKeeps, ContactDisplacedKeeps
       DEF Next
<1> QED
  BY <1>1, <1>2, TableInvariant, PTL DEF Spec

(* Packets follow the paths of the routing table: when derive_fwd_entries  *)
(* has handled all events, the entry of every node id, and the route that  *)
(* the native tables keep for it, are those of the contact's path now,     *)
(* however many changes of the table it was behind; only contacts whose    *)
(* own last handler failed are excepted.                                   *)
THEOREM EntriesAlwaysFollowTable == Spec => []EntriesFollowTable
<1>1. TableInv /\ EntryInv => EntriesFollowTable
  <2> SUFFICES ASSUME TableInv, EntryInv, events = << >>, NEW c \in Contacts \ fwd.failed
               PROVE  LET path == IF c \in Present \cap valid THEN size[c] ELSE 0
                      IN  /\ fwd.node[c] = path
                          /\ fwd.route[c] = path \/ (path = 0 /\ fwd.route[c] = 1)
    BY DEF EntriesFollowTable
  <2>1. c \in valid => c \in Present
    BY DEF TableInv, Present, InBuckets, Held
  <2>2. (IF c \in Present \cap valid THEN size[c] ELSE 0) = PathOf(c)
    BY <2>1 DEF PathOf
  <2>3. fwd.node[c] = PathOf(c)
    BY DEF EntryInv, Settled
  <2>4. RouteOK(fwd, c)
    BY DEF EntryInv, FwdOK
  <2> QED
    BY <2>2, <2>3, <2>4 DEF RouteOK
<1> QED
  BY <1>1, TableInvariant, EntryInvariant, PTL
-----------------------------------------------------------------------------
(* Prefixes *)

(* The prefixes of the entries are those in bucket_prefix_entries, and a   *)
(* prefix tells its level.                                                 *)
PrefixOK(f) ==
  /\ \A i \in DOMAIN f.prefix :
       i \in Nat \ {0} /\ f.prefix[i].len = ACC + ACC * ((i - 1) \div LevelWidth)
  /\ DOMAIN f.subnet = {f.prefix[i] : i \in DOMAIN f.prefix}

(* With a level of one bucket, a prefix tells its bucket.                  *)
LEMMA OnePerLevel ==
  ASSUME LevelWidth = 1, NEW f, PrefixOK(f), NEW i \in DOMAIN f.prefix, NEW j \in DOMAIN f.prefix,
         f.prefix[i] = f.prefix[j]
  PROVE  i = j
<1>1. i \in Nat /\ j \in Nat /\ ACC \in Nat \ {0}
  BY RoutingTableAssumption, NodeIdAssumption DEF PrefixOK
<1>2. (i - 1) \div LevelWidth = i - 1 /\ (j - 1) \div LevelWidth = j - 1
  BY <1>1
<1>3. ACC + ACC * (i - 1) = ACC + ACC * (j - 1)
  BY <1>2 DEF PrefixOK
<1>4. ACC * (i - 1) = ACC * (j - 1)
  BY <1>1, <1>3
<1> QED
  BY <1>1, <1>4

LEMMA PutAndDrop ==
  ASSUME NEW f, NEW x, NEW v
  PROVE  /\ DOMAIN With(f, x, v) = DOMAIN f \cup {x} /\ With(f, x, v)[x] = v
         /\ \A y \in DOMAIN f \ {x} : With(f, x, v)[y] = f[y]
         /\ DOMAIN Without(f, x) = DOMAIN f \ {x}
         /\ \A y \in DOMAIN f \ {x} : Without(f, x)[y] = f[y]
BY DEF With, Without, Restrict

LEMMA WithdrawPrefixes ==
  ASSUME LevelWidth = 1, NEW f, FwdOK(f), PrefixOK(f), NEW i
  PROVE  PrefixOK(Withdraw(f, i))
<1> DEFINE a == IF i \in DOMAIN f.prefix THEN Without(f.subnet, f.prefix[i]) ELSE f.subnet
           b == Without(f.prefix, i)
           g == Withdraw(f, i)
<1>1. g = [f EXCEPT !.subnet = a, !.prefix = b]
  BY DEF Withdraw
<1>2. DOMAIN b = DOMAIN f.prefix \ {i} /\ \A j \in DOMAIN b : b[j] = f.prefix[j]
  BY DEF Without, Restrict
<1>3. DOMAIN a = IF i \in DOMAIN f.prefix THEN DOMAIN f.subnet \ {f.prefix[i]} ELSE DOMAIN f.subnet
  BY PutAndDrop
<1> HIDE DEF a, b, g
<1>4. PICK n, ro, su, pr, fa :
        f = [node |-> n, route |-> ro, subnet |-> su, prefix |-> pr, failed |-> fa]
  BY Zenon DEF FwdOK
<1>5. g.subnet = a /\ g.prefix = b
  BY <1>1, <1>4
<1>6. DOMAIN f.subnet = {f.prefix[j] : j \in DOMAIN f.prefix}
  BY DEF PrefixOK
<1>7. ASSUME NEW x, x \in DOMAIN a PROVE x \in {b[j] : j \in DOMAIN b}
  <2>1. PICK j \in DOMAIN f.prefix : x = f.prefix[j]
    BY <1>3, <1>6, <1>7
  <2>2. j # i
    BY <1>3, <1>7, <2>1
  <2> QED
    BY <1>2, <2>1, <2>2
<1>8. ASSUME NEW j \in DOMAIN b PROVE b[j] \in DOMAIN a
  <2>1. j \in DOMAIN f.prefix /\ j # i /\ b[j] = f.prefix[j]
    BY <1>2
  <2>2. i \in DOMAIN f.prefix => f.prefix[j] # f.prefix[i]
    BY <2>1, OnePerLevel
  <2> QED
    BY <1>3, <1>6, <2>1, <2>2
<1>9. DOMAIN a = {b[j] : j \in DOMAIN b}
  BY <1>7, <1>8
<1> QED
  BY <1>2, <1>5, <1>9 DEF PrefixOK, g

LEMMA InstallPrefixes ==
  ASSUME LevelWidth = 1, NEW f, FwdOK(f), PrefixOK(f), NEW i \in Nat \ {0}, NEW c
  PROVE  PrefixOK(Install(f, i, c))
<1> DEFINE pre == BucketPrefix(i, c)
           others == IF i \in DOMAIN f.prefix THEN Without(f.subnet, f.prefix[i]) ELSE f.subnet
           a == With(others, pre, c)
           b == With(f.prefix, i, pre)
           g == Install(f, i, c)
<1>1. g = [f EXCEPT !.prefix = b, !.subnet = a]
  BY DEF Install
<1>2. pre.len = ACC + ACC * ((i - 1) \div LevelWidth)
  BY DEF BucketPrefix
<1> HIDE DEF pre
<1>3. /\ DOMAIN b = DOMAIN f.prefix \cup {i} /\ b[i] = pre
      /\ \A j \in DOMAIN f.prefix \ {i} : b[j] = f.prefix[j]
  BY DEF With
<1>4. DOMAIN others = IF i \in DOMAIN f.prefix THEN DOMAIN f.subnet \ {f.prefix[i]}
                      ELSE DOMAIN f.subnet
  BY PutAndDrop
<1> HIDE DEF others
<1>5. DOMAIN a = DOMAIN others \cup {pre}
  BY PutAndDrop
<1> HIDE DEF a, b, g
<1>6. PICK n, ro, su, pr, fa :
        f = [node |-> n, route |-> ro, subnet |-> su, prefix |-> pr, failed |-> fa]
  BY Zenon DEF FwdOK
<1>7. g.subnet = a /\ g.prefix = b
  BY <1>1, <1>6
<1>8. DOMAIN f.subnet = {f.prefix[j] : j \in DOMAIN f.prefix}
  BY DEF PrefixOK
<1>9. ASSUME NEW x, x \in DOMAIN a PROVE x \in {b[j] : j \in DOMAIN b}
  <2>1. CASE x = pre
    BY <1>3, <2>1
  <2>2. CASE x \in DOMAIN others
    <3>1. PICK j \in DOMAIN f.prefix : x = f.prefix[j]
      BY <1>4, <1>8, <2>2
    <3>2. j # i
      BY <1>4, <2>2, <3>1
    <3> QED
      BY <1>3, <3>1, <3>2
  <2> QED
    BY <1>5, <1>9, <2>1, <2>2
<1>10. ASSUME NEW j \in DOMAIN b PROVE b[j] \in DOMAIN a
  <2>1. CASE j = i
    BY <1>3, <1>5, <2>1
  <2>2. CASE j # i
    <3>1. j \in DOMAIN f.prefix /\ b[j] = f.prefix[j]
      BY <1>3, <2>2
    <3>2. i \in DOMAIN f.prefix => f.prefix[j] # f.prefix[i]
      BY <2>2, <3>1, OnePerLevel
    <3> QED
      BY <1>4, <1>5, <1>8, <3>1, <3>2
  <2> QED
    BY <2>1, <2>2
<1>11. DOMAIN a = {b[j] : j \in DOMAIN b}
  BY <1>9, <1>10
<1>12. ASSUME NEW j \in DOMAIN b
       PROVE  j \in Nat \ {0} /\ b[j].len = ACC + ACC * ((j - 1) \div LevelWidth)
  BY <1>2, <1>3 DEF PrefixOK
<1> QED
  BY <1>7, <1>11, <1>12 DEF PrefixOK, g

LEMMA UpdateBucketPrefixes ==
  ASSUME LevelWidth = 1, NEW f, FwdOK(f), PrefixOK(f), NEW i \in Nat \ {0},
         NEW r \in UpdateBucket(f, i)
  PROVE  PrefixOK(r.fwd)
<1>1. \/ r = Result(f, FALSE) \/ r = Result(Withdraw(f, i), TRUE)
      \/ \E c : r = Result(Install(f, i, c), TRUE)
  BY Zenon DEF UpdateBucket
<1>2. \/ r.fwd = f \/ r.fwd = Withdraw(f, i)
      \/ \E c : r.fwd = Install(f, i, c)
  BY <1>1 DEF Result
<1> QED
  BY <1>2, WithdrawPrefixes, InstallPrefixes

(* The entries of single node ids are apart from the prefixes.             *)
LEMMA EntriesApart ==
  ASSUME NEW f, FwdOK(f), PrefixOK(f), NEW g, g.subnet = f.subnet, g.prefix = f.prefix
  PROVE  PrefixOK(g)
BY DEF PrefixOK

LEMMA EntryPrefixes ==
  ASSUME NEW f, FwdOK(f), PrefixOK(f), NEW c \in Contacts, NEW v \in Views
  PROVE  /\ PrefixOK(RemoveNode(f, c)) /\ PrefixOK(CreateOrUpdate(f, v))
         /\ PrefixOK([f EXCEPT !.failed = @ \cup {c}])
<1>1. PICK n, ro, su, pr, fa :
        f = [node |-> n, route |-> ro, subnet |-> su, prefix |-> pr, failed |-> fa]
  BY Zenon DEF FwdOK
<1> DEFINE g == RemoveNode(f, c)
           h == CreateOrUpdate(f, v)
           k == [f EXCEPT !.failed = @ \cup {c}]
<1>2. g.subnet = f.subnet /\ g.prefix = f.prefix
  BY <1>1 DEF RemoveNode
<1>3. h.subnet = f.subnet /\ h.prefix = f.prefix
  BY <1>1 DEF CreateOrUpdate
<1>4. k.subnet = f.subnet /\ k.prefix = f.prefix
  BY <1>1
<1> HIDE DEF g, h, k
<1>5. PrefixOK(g) /\ PrefixOK(h) /\ PrefixOK(k)
  BY <1>2, <1>3, <1>4, EntriesApart
<1> QED
  BY <1>5 DEF g, h, k

LEMMA IndexType ==
  ASSUME TableInv, NEW c \in Contacts
  PROVE  Index(c) \in Nat \ {0}
<1>1. Len(buckets) \in Nat \ {0}
  BY DEF TableInv, BucketsOK
<1>2. Index(c) \in 1 .. Len(buckets)
  BY <1>1, IndexRange DEF Index
<1> QED
  BY <1>1, <1>2

LEMMA CreateEntryPrefixes ==
  ASSUME LevelWidth = 1, TableInv, NEW f, FwdOK(f), PrefixOK(f), NEW v \in Views,
         NEW r \in CreateEntry(f, v)
  PROVE  PrefixOK(r.fwd)
<1>1. v.id \in Contacts /\ Index(v.id) \in Nat \ {0}
  BY ViewFields, IndexType
<1>2. CASE r \in {Result([f EXCEPT !.failed = @ \cup {c}], FALSE) : c \in Underivable({v.id})}
  <2>1. r = Result([f EXCEPT !.failed = @ \cup {v.id}], FALSE)
    BY <1>2, Zenon DEF Underivable
  <2> QED
    BY <2>1, <1>1, EntryPrefixes DEF Result
<1>3. CASE r \in UpdateBucket(CreateOrUpdate(f, v), Index(v.id))
  <2>1. FwdOK(CreateOrUpdate(f, v)) /\ PrefixOK(CreateOrUpdate(f, v))
    BY <1>1, CreateDerives, EntryPrefixes DEF Derived
  <2> QED
    BY <2>1, <1>1, <1>3, UpdateBucketPrefixes
<1> QED
  BY <1>2, <1>3, Zenon DEF CreateEntry

LEMMA RemoveEntryPrefixes ==
  ASSUME LevelWidth = 1, TableInv, NEW f, FwdOK(f), PrefixOK(f), NEW c \in Contacts,
         NEW v \in Views, NEW r \in RemoveEntry(f, c)
  PROVE  PrefixOK(r.fwd)
<1> DEFINE g == RemoveNode(f, c)
<1>1. FwdOK(g) /\ PrefixOK(g) /\ Index(c) \in Nat \ {0}
  BY RemoveDerives, EntryPrefixes, IndexType DEF Derived
<1>2. r = Result(g, TRUE) \/ r \in UpdateBucket(g, Index(c))
  BY Zenon DEF RemoveEntry
<1> HIDE DEF g
<1>3. CASE r = Result(g, TRUE)
  <2>1. r.fwd = g
    BY <1>3 DEF Result
  <2> QED
    BY <1>1, <2>1
<1>4. CASE r \in UpdateBucket(g, Index(c))
  BY <1>1, <1>4, UpdateBucketPrefixes
<1> QED
  BY <1>2, <1>3, <1>4

LEMMA DisplaceEntryPrefixes ==
  ASSUME LevelWidth = 1, TableInv, NEW f, FwdOK(f), PrefixOK(f), NEW c \in Contacts,
         NEW v \in Views, NEW r \in DisplaceEntry(f, c, v)
  PROVE  PrefixOK(r.fwd)
<1>1. PICK q \in RemoveEntry(f, c) :
        r \in IF q.ok THEN CreateEntry(q.fwd, v)
              ELSE {Result([q.fwd EXCEPT !.failed = @ \cup {v.id}], FALSE)}
  BY Zenon DEF DisplaceEntry
<1>2. FwdOK(q.fwd) /\ PrefixOK(q.fwd)
  BY <1>1, RemoveEntryDerives, RemoveEntryPrefixes DEF Derived
<1>3. v.id \in Contacts
  BY ViewFields
<1>4. CASE r \in CreateEntry(q.fwd, v)
  BY <1>2, <1>4, CreateEntryPrefixes
<1>5. CASE r = Result([q.fwd EXCEPT !.failed = @ \cup {v.id}], FALSE)
  BY <1>2, <1>3, <1>5, EntryPrefixes DEF Result
<1> QED
  BY <1>1, <1>4, <1>5

LEMMA HandlePrefixes ==
  ASSUME EntryInv, NEW type, NEW outcomes, Handle(type, outcomes),
         \A r \in outcomes : First \in Event /\ First.type = type => PrefixOK(r.fwd)
  PROVE  PrefixOK(fwd')
<1>1. /\ events # <<>> /\ First.type = type
      /\ \E r \in outcomes : fwd' = r.fwd
  BY Zenon DEF Handle
<1>2. events \in Seq(Event)
  BY DEF EntryInv
<1>3. First \in Event
  BY <1>1, <1>2 DEF First
<1> QED
  BY <1>1, <1>3

(* Every handler leaves the prefixes in order.                             *)
LEMMA HandlersKeepPrefixes ==
  ASSUME LevelWidth = 1, TableInv, EntryInv, PrefixOK(fwd),
         ContactNew \/ ContactRemoved \/ BucketChanged \/ ContactInvalidated
           \/ ContactValidated \/ PathChanged \/ ContactDisplaced
  PROVE  PrefixOK(fwd')
<1>1. FwdOK(fwd)
  BY DEF EntryInv
<1>2. ASSUME NEW e \in Event
      PROVE  /\ e.type \in {"New", "Updated"} => e.new \in Views /\ e.new.id \in Contacts
             /\ e.type \in {"Removed", "Updated"} => e.old \in Views /\ e.old.id \in Contacts
             /\ e.type = "Bucket" => e.index \in Nat \ {0}
  <2>1. e.type = "Bucket" => e \in [type : {"Bucket"}, index : Nat \ {0}]
    BY DEF Event
  <2> QED
    BY <2>1, EventCases, ViewFields
<1>3. CASE ContactNew
  <2>1. ASSUME NEW r \in CreateEntry(fwd, First.new), First \in Event, First.type = "New"
        PROVE  PrefixOK(r.fwd)
    BY <1>1, <1>2, <2>1, CreateEntryPrefixes
  <2> QED
    BY <1>3, <2>1, HandlePrefixes DEF ContactNew
<1>4. CASE ContactRemoved
  <2>1. ASSUME NEW r \in RemoveEntry(fwd, First.old.id), First \in Event, First.type = "Removed"
        PROVE  PrefixOK(r.fwd)
    BY <1>1, <1>2, <2>1, RemoveEntryPrefixes
  <2> QED
    BY <1>4, <2>1, HandlePrefixes DEF ContactRemoved
<1>5. CASE BucketChanged
  <2>1. ASSUME NEW r \in UpdateBucket(fwd, First.index), First \in Event, First.type = "Bucket"
        PROVE  PrefixOK(r.fwd)
    BY <1>1, <1>2, <2>1, UpdateBucketPrefixes
  <2> QED
    BY <1>5, <2>1, HandlePrefixes DEF BucketChanged
<1>6. ASSUME NEW outcomes, Handle("Updated", outcomes), outcomes \subseteq
               RemoveEntry(fwd, First.new.id) \cup CreateEntry(fwd, First.new)
                 \cup DisplaceEntry(fwd, First.old.id, First.new)
      PROVE  PrefixOK(fwd')
  <2>1. ASSUME NEW r \in outcomes, First \in Event, First.type = "Updated"
        PROVE  PrefixOK(r.fwd)
    <3>1. First.new \in Views /\ First.new.id \in Contacts /\ First.old.id \in Contacts
      BY <1>2, <2>1
    <3> QED
      BY <1>1, <1>6, <3>1, RemoveEntryPrefixes, CreateEntryPrefixes, DisplaceEntryPrefixes
  <2> QED
    BY <1>6, <2>1, HandlePrefixes
<1>7. CASE ContactInvalidated
  BY <1>6, <1>7, Zenon DEF ContactInvalidated
<1>8. CASE ContactValidated
  BY <1>6, <1>8, Zenon DEF ContactValidated
<1>9. CASE PathChanged
  BY <1>6, <1>9, Zenon DEF PathChanged
<1>10. CASE ContactDisplaced
  BY <1>6, <1>10, Zenon DEF ContactDisplaced
<1> QED
  BY <1>3, <1>4, <1>5, <1>7, <1>8, <1>9, <1>10

(* No prefix route is left behind: with one bit per level, as the program  *)
(* is built (DEFAULT_ACCELERATION), update_bucket and remove_node_id_entry *)
(* of derive_fwd_table_entries.rs keep the prefixes of the forwarding      *)
(* table and bucket_prefix_entries the same, one for each bucket.          *)
THEOREM PrefixesAlwaysRecorded == ACC = 1 => (Spec => []PrefixesAreRecorded)
<1> SUFFICES ASSUME ACC = 1
             PROVE  Spec => []PrefixesAreRecorded
  OBVIOUS
<1>1. LevelWidth = 1
  <2>1. 2^1 = 2
    OBVIOUS
  <2> QED
    BY <2>1 DEF LevelWidth
<1>2. Init => PrefixOK(fwd)
  BY DEF Init, PrefixOK
<1>3. TableInv /\ EntryInv /\ PrefixOK(fwd) /\ [Next]_vars => PrefixOK(fwd)'
  <2> SUFFICES ASSUME TableInv, EntryInv, PrefixOK(fwd), [Next]_vars
               PROVE  PrefixOK(fwd')
    OBVIOUS
  <2>1. CASE UNCHANGED fwd
    BY <2>1
  <2> QED
    BY <1>1, <2>1, HandlersKeepPrefixes DEF Next, vars
<1>4. PrefixOK(fwd) => PrefixesAreRecorded
  BY <1>1, OnePerLevel DEF PrefixOK, PrefixesAreRecorded
<1> QED
  BY <1>2, <1>3, <1>4, TableInvariant, EntryInvariant, PTL DEF Spec

-----------------------------------------------------------------------------
(* Ids, their digits and their distances *)

(* Division rounds down.                                                   *)
LEMMA DivBounds ==
  ASSUME NEW a \in Nat, NEW m \in Nat \ {0}
  PROVE  a \div m \in Nat /\ m * (a \div m) <= a /\ a < m * (a \div m) + m
OBVIOUS

(* A quotient is less than q if the number is less than q times m.         *)
LEMMA DivLess ==
  ASSUME NEW a \in Nat, NEW m \in Nat \ {0}, NEW q \in Nat
  PROVE  (a \div m < q) <=> (a < m * q)
<1> DEFINE d == a \div m
<1>1. d \in Nat /\ m * d <= a /\ a < m * d + m
  BY DivBounds
<1> HIDE DEF d
<1>2. ASSUME d < q PROVE a < m * q
  <2>1. PICK e \in Nat : q = d + 1 + e
    <3>1. q - d - 1 \in Nat /\ q = d + 1 + (q - d - 1)
      BY <1>1, <1>2
    <3> QED
      BY <3>1
  <2>2. m * q = m * d + m + m * e /\ m * e \in Nat
    BY <2>1, <1>1
  <2> QED
    BY <2>2, <1>1
<1>3. ASSUME ~(d < q) PROVE ~(a < m * q)
  <2>1. PICK e \in Nat : d = q + e
    <3>1. d - q \in Nat /\ d = q + (d - q)
      BY <1>1, <1>3
    <3> QED
      BY <3>1
  <2>2. m * d = m * q + m * e /\ m * e \in Nat /\ m * q \in Nat /\ m * d \in Nat
    BY <2>1, <1>1
  <2> QED
    BY <2>2, <1>1
<1> QED
  BY <1>2, <1>3 DEF d

(* Division keeps the order.                                               *)
LEMMA DivOrder ==
  ASSUME NEW a \in Nat, NEW b \in Nat, NEW m \in Nat \ {0}
  PROVE  a <= b => a \div m <= b \div m
<1>1. b \div m + 1 \in Nat /\ b \div m < b \div m + 1 /\ a \div m \in Nat
  BY DivBounds
<1>2. b < m * (b \div m + 1)
  BY <1>1, DivLess
<1>3. m * (b \div m + 1) \in Nat
  BY <1>1
<1> DEFINE q == b \div m + 1
<1> HIDE DEF q
<1>4. ASSUME a <= b PROVE a \div m < q
  <2>1. a < m * q
    BY <1>2, <1>3, <1>4 DEF q
  <2> QED
    BY <2>1, <1>1, DivLess DEF q
<1> QED
  BY <1>1, <1>4 DEF q

(* The powers of two up to BITS, and their order.                          *)
LEMMA Powers ==
  /\ BITS \in Nat \ {0} /\ \A k \in 0 .. BITS : 2^k \in Nat \ {0}
  /\ \A j, k \in 0 .. BITS : j <= k => 2^j <= 2^k /\ 2^k = 2^j * 2^(k - j)
<1>1. BITS \in Nat \ {0} /\ \A k \in 0 .. BITS : 2^k \in Nat \ {0}
  BY NodeIdAssumption
<1>2. ASSUME NEW j \in 0 .. BITS, NEW k \in 0 .. BITS, j <= k
      PROVE  2^j <= 2^k /\ 2^k = 2^j * 2^(k - j)
  <2>1. k - j \in 0 .. BITS - j /\ k - j \in 0 .. BITS /\ j + (k - j) = k
    BY <1>1, <1>2
  <2>2. 2^(j + (k - j)) = 2^j * 2^(k - j)
    BY <2>1, NodeIdAssumption
  <2>3. 2^k = 2^j * 2^(k - j)
    BY <2>1, <2>2
  <2>4. 2^j \in Nat \ {0} /\ 2^(k - j) \in Nat \ {0}
    BY <1>1, <2>1
  <2> DEFINE x == 2^j  y == 2^(k - j)
  <2> HIDE DEF x, y
  <2>5. x <= x * y
    BY <2>4 DEF x, y
  <2> QED
    BY <2>3, <2>5 DEF x, y
<1> QED
  BY <1>1, <1>2

(* An id has BITS bits.                                                    *)
LEMMA IdType ==
  ASSUME NEW id \in NodeIds
  PROVE  id \in Nat /\ id < 2^BITS
<1>1. 2^BITS \in Nat \ {0}
  BY Powers
<1> QED
  BY <1>1 DEF NodeIds

(* leading_zeros: an id has z of them if it is less than 2^(BITS - z).     *)
LEMMA ZerosBound ==
  ASSUME NEW id \in NodeIds, NEW z \in 0 .. BITS
  PROVE  /\ LeadingZeros[id] \in Nat
         /\ LeadingZeros[id] >= z <=> id < 2^(BITS - z)
<1> DEFINE S == {k \in 1 .. BITS : id < 2^(BITS - k)}
<1>1. LeadingZeros[id] = Cardinality(S)
  BY DEF LeadingZeros
<1>2. IsFiniteSet(1 .. BITS) /\ BITS \in Nat
  BY FS_Interval, Powers
<1>3. IsFiniteSet(S) /\ Cardinality(S) \in Nat
  BY <1>2, FS_Subset, FS_CardinalityType
<1>4. id \in Nat
  BY IdType
<1>5. ASSUME NEW j \in 0 .. BITS, NEW k \in 0 .. BITS, j <= k
      PROVE  2^(BITS - k) <= 2^(BITS - j) /\ 2^(BITS - k) \in Nat /\ 2^(BITS - j) \in Nat
  <2>1. BITS - k \in 0 .. BITS /\ BITS - j \in 0 .. BITS /\ BITS - k <= BITS - j
    BY <1>2, <1>5
  <2> QED
    BY <2>1, Powers
<1>6. CASE z = 0
  <2>1. BITS - z = BITS
    BY <1>2, <1>6
  <2>2. id < 2^(BITS - z)
    BY <2>1, IdType
  <2>3. LeadingZeros[id] \in Nat
    BY <1>1, <1>3
  <2>4. LeadingZeros[id] >= z
    BY <2>3, <1>6
  <2> QED
    BY <2>2, <2>3, <2>4
<1>7. CASE z \in 1 .. BITS
  <2>1. ASSUME id < 2^(BITS - z) PROVE Cardinality(S) >= z
    <3>1. 1 .. z \subseteq S
      <4> SUFFICES ASSUME NEW j \in 1 .. z PROVE j \in S
        OBVIOUS
      <4>1. j \in 1 .. BITS /\ j <= z
        BY <1>2, <1>7
      <4>2. 2^(BITS - z) <= 2^(BITS - j) /\ 2^(BITS - z) \in Nat /\ 2^(BITS - j) \in Nat
        BY <4>1, <1>5
      <4> QED
        BY <4>1, <4>2, <1>4, <2>1
    <3>2. 1 \in Int /\ z \in Int /\ ~(1 > z)
      BY <1>7
    <3>3. Cardinality(1 .. z) = z - 1 + 1
      BY <3>2, FS_Interval
    <3>4. Cardinality(1 .. z) <= Cardinality(S)
      BY <3>1, <1>3, FS_Subset
    <3> QED
      BY <3>3, <3>4, <1>3, <1>7
  <2>2. ASSUME ~(id < 2^(BITS - z)) PROVE ~(Cardinality(S) >= z)
    <3>1. S \subseteq 1 .. (z - 1)
      <4> SUFFICES ASSUME NEW j \in S, ~(j < z) PROVE FALSE
        BY <1>2, <1>7
      <4>1. j \in 0 .. BITS /\ z <= j
        BY <1>2, <1>7
      <4>2. 2^(BITS - j) <= 2^(BITS - z) /\ 2^(BITS - z) \in Nat /\ 2^(BITS - j) \in Nat
        BY <4>1, <1>5
      <4> QED
        BY <4>2, <1>4, <2>2
    <3>2. IsFiniteSet(1 .. (z - 1)) /\ Cardinality(1 .. (z - 1)) = z - 1
      BY <1>7, FS_Interval
    <3>3. Cardinality(S) <= z - 1
      BY <3>1, <3>2, FS_Subset
    <3> QED
      BY <3>3, <1>3, <1>7
  <2> QED
    BY <2>1, <2>2, <1>1, <1>3
<1> QED
  BY <1>6, <1>7

(* An id has at most BITS leading zeros.                                   *)
LEMMA ZerosMost ==
  ASSUME NEW id \in NodeIds
  PROVE  LeadingZeros[id] \in 0 .. BITS
<1> DEFINE S == {k \in 1 .. BITS : id < 2^(BITS - k)}
<1>1. LeadingZeros[id] = Cardinality(S)
  BY DEF LeadingZeros
<1>2. IsFiniteSet(1 .. BITS) /\ BITS \in Nat /\ Cardinality(1 .. BITS) = BITS
  BY FS_Interval, Powers
<1>3. Cardinality(S) \in Nat /\ Cardinality(S) <= BITS
  BY <1>2, FS_Subset, FS_CardinalityType
<1> QED
  BY <1>1, <1>2, <1>3

(* The smaller of two ids has at least as many leading zeros.              *)
LEMMA ZerosOrder ==
  ASSUME NEW a \in NodeIds, NEW b \in NodeIds, a <= b
  PROVE  LeadingZeros[a] >= LeadingZeros[b]
<1> DEFINE z == LeadingZeros[b]
<1>1. z \in 0 .. BITS
  BY ZerosMost
<1> HIDE DEF z
<1>2. b < 2^(BITS - z)
  BY <1>1, ZerosBound DEF z
<1>3. a \in Nat /\ b \in Nat /\ 2^(BITS - z) \in Nat
  BY <1>1, IdType, Powers
<1>4. a < 2^(BITS - z)
  BY <1>2, <1>3
<1> QED
  BY <1>1, <1>4, ZerosBound DEF z

(* Ids that agree above bit r, and are not zero there.                     *)
LEMMA ZerosAbove ==
  ASSUME NEW a \in NodeIds, NEW b \in NodeIds, NEW r \in 0 .. BITS,
         a \div 2^r = b \div 2^r, a \div 2^r # 0
  PROVE  LeadingZeros[a] >= LeadingZeros[b]
<1> DEFINE z == LeadingZeros[b]
<1>1. z \in 0 .. BITS
  BY ZerosMost
<1> HIDE DEF z
<1>2. b < 2^(BITS - z)
  BY <1>1, ZerosBound DEF z
<1>3. BITS \in Nat /\ BITS - z \in 0 .. BITS
  BY <1>1, Powers
<1>4. a \in Nat /\ b \in Nat /\ 2^(BITS - z) \in Nat /\ 2^r \in Nat \ {0}
  BY <1>3, IdType, Powers
<1>5. r <= BITS - z
  <2> SUFFICES ASSUME BITS - z <= r PROVE 2^r <= 2^(BITS - z) => r <= BITS - z
    <3>1. ~(b \div 2^r < 1)
      BY <1>4, DivBounds
    <3>2. 2^r <= b
      <4>1. b \div 2^r < 1 <=> b < 2^r * 1
        BY <1>4, DivLess
      <4> QED
        BY <3>1, <4>1, <1>4
    <3> QED
      BY <3>2, <1>2, <1>3, <1>4
  <2>1. 2^r = 2^(BITS - z) * 2^(r - (BITS - z)) /\ 2^(BITS - z) <= 2^r
    BY <1>3, Powers
  <2>2. CASE r = BITS - z
    BY <2>2, <1>3
  <2>3. CASE r # BITS - z
    <3>1. r - (BITS - z) \in 1 .. BITS
      BY <1>3, <2>3
    <3>2. 2^(r - (BITS - z)) \in Nat /\ 2^(r - (BITS - z)) > 1
      BY <3>1, NodeIdAssumption, Powers
    <3> DEFINE x == 2^(BITS - z)  y == 2^(r - (BITS - z))
    <3>3. x \in Nat \ {0}
      BY <1>3, Powers
    <3> HIDE DEF x, y
    <3>4. x * y > x
      BY <3>2, <3>3 DEF y
    <3> QED
      BY <3>4, <2>1, <1>4, <3>3, <3>2 DEF x, y
  <2> QED
    BY <2>2, <2>3
<1>6. 2^(BITS - z) = 2^r * 2^((BITS - z) - r) /\ 2^((BITS - z) - r) \in Nat
  <2>1. (BITS - z) - r \in 0 .. BITS
    BY <1>3, <1>5
  <2> QED
    BY <2>1, <1>3, <1>5, Powers
<1> DEFINE q == 2^((BITS - z) - r)
<1> HIDE DEF q
<1>7. b \div 2^r < q
  BY <1>2, <1>4, <1>6, DivLess DEF q
<1>8. a < 2^r * q
  BY <1>4, <1>6, <1>7, DivLess DEF q
<1>9. a < 2^(BITS - z)
  BY <1>6, <1>8 DEF q
<1> QED
  BY <1>1, <1>9, ZerosBound DEF z

(* The exclusive or with an id is its own inverse.                         *)
LEMMA XorLaws ==
  ASSUME NEW a \in NodeIds, NEW b \in NodeIds, NEW c \in NodeIds
  PROVE  /\ XorOf[a][b] \in NodeIds /\ XorOf[a][XorOf[a][b]] = b
         /\ XorOf[b][c] = XorOf[XorOf[a][b]][XorOf[a][c]]
         /\ XorOf[a][b] = XorOf[a][c] => b = c
<1>1. \A x, y \in NodeIds : XorOf[x][y] \in NodeIds
  BY NodeIdAssumption
<1>2. \A x, y \in NodeIds : XorOf[x][XorOf[x][y]] = y
  <2> SUFFICES ASSUME NEW x \in NodeIds, NEW y \in NodeIds
               PROVE  XorOf[x][XorOf[x][y]] = y
    OBVIOUS
  <2>1. XorOf[XorOf[x][x]][y] = XorOf[x][XorOf[x][y]]
    BY XorAssumption
  <2>2. XorOf[x][x] = 0 /\ XorOf[0][y] = y
    BY XorAssumption
  <2> QED
    BY <2>1, <2>2
<1>3. XorOf[b][c] = XorOf[XorOf[a][b]][XorOf[a][c]]
  <2> DEFINE x == XorOf[a][b]
  <2>1. x \in NodeIds /\ XorOf[a][x] = b
    BY <1>1, <1>2
  <2> HIDE DEF x
  <2>2. XorOf[x][a] = b
    BY <2>1, XorAssumption
  <2>3. XorOf[XorOf[x][a]][c] = XorOf[x][XorOf[a][c]]
    BY <2>1, XorAssumption
  <2> QED
    BY <2>2, <2>3 DEF x
<1> QED
  BY <1>1, <1>2, <1>3

(* shared_prefix_len counts groups, and grouping keeps the order.          *)
LEMMA PrefixLen ==
  ASSUME NEW t \in NodeIds, NEW a \in NodeIds, NEW b \in NodeIds, NEW g \in 1 .. BITS
  PROVE  /\ SharedPrefixLen(t, a, g) \in Nat
         /\ LeadingZeros[XorOf[t][a]] >= LeadingZeros[XorOf[t][b]]
              => SharedPrefixLen(t, a, g) >= SharedPrefixLen(t, b, g)
<1> DEFINE x == LeadingZeros[XorOf[t][a]]
           y == LeadingZeros[XorOf[t][b]]
<1>1. XorOf[t][a] \in NodeIds /\ XorOf[t][b] \in NodeIds
  BY XorLaws
<1>2. x \in Nat /\ y \in Nat /\ g \in Nat \ {0}
  BY <1>1, ZerosMost, Powers
<1>3. SharedPrefixLen(t, a, g) = x \div g /\ SharedPrefixLen(t, b, g) = y \div g
  BY DEF SharedPrefixLen
<1> HIDE DEF x, y
<1>4. x \div g \in Nat /\ y \div g \in Nat /\ (y <= x => y \div g <= x \div g)
  BY <1>2, DivOrder, DivBounds
<1> QED
  BY <1>2, <1>3, <1>4 DEF x, y

(* Division of a number with a given remainder.                            *)
LEMMA DivMod ==
  ASSUME NEW q \in Nat, NEW m \in Nat \ {0}, NEW r \in Nat, r < m
  PROVE  (q * m + r) \div m = q /\ (q * m + r) % m = r
<1> DEFINE a == q * m + r
<1>1. a \in Nat
  OBVIOUS
<1>2. a < m * (q + 1) /\ ~(a < m * q)
  OBVIOUS
<1> HIDE DEF a
<1>3. a \div m \in Nat /\ a \div m < q + 1 /\ ~(a \div m < q)
  BY <1>1, <1>2, DivLess, DivBounds
<1>4. a \div m = q
  BY <1>3
<1>5. a % m = r
  <2>1. a = m * q + r
    BY DEF a
  <2> QED
    BY <1>1, <2>1
<1> QED
  BY <1>4, <1>5 DEF a

(* Products keep the order of their factors.                               *)
LEMMA Products ==
  ASSUME NEW a \in Nat, NEW b \in Nat, NEW m \in Nat
  PROVE  /\ a * m \in Nat /\ (a <= b => a * m <= b * m)
         /\ a < b => a * m + m <= b * m
<1>1. ASSUME a <= b PROVE a * m <= b * m
  <2>1. b - a \in Nat /\ b = a + (b - a)
    BY <1>1
  <2> DEFINE e == b - a
  <2> HIDE DEF e
  <2>2. b * m = a * m + e * m /\ e * m \in Nat /\ a * m \in Nat
    BY <2>1 DEF e
  <2> QED
    BY <2>2
<1>2. ASSUME a < b PROVE a * m + m <= b * m
  <2>1. b - a - 1 \in Nat /\ b = a + 1 + (b - a - 1)
    BY <1>2
  <2> DEFINE e == b - a - 1
  <2> HIDE DEF e
  <2>2. b * m = a * m + m + e * m /\ e * m \in Nat /\ a * m \in Nat
    BY <2>1 DEF e
  <2> QED
    BY <2>2
<1> QED
  BY <1>1, <1>2

(* get_bucket_index, by level: an id shares the digits of the levels above *)
(* its own with the root, and its place in the level shows its next digit. *)
LEMMA Levels ==
  ASSUME NEW k \in Nat, k * ACC <= BITS, NEW num, num = k * LevelWidth + 1, NEW x \in NodeIds
  PROVE  LET i == BucketIndex(num, x)
             u == XorOf[Root][x]
         IN  /\ LevelWidth \in Nat \ {0}
             /\ i \in 1 .. num /\ LevelOf(i) \in 0 .. k /\ (LevelOf(i) = k => i = num)
             /\ \A l \in 0 .. k : LevelOf(i) >= l <=> u < 2^(BITS - l * ACC)
             /\ LevelOf(i) < k =>
                  u \div 2^(BITS - (LevelOf(i) + 1) * ACC) = LevelWidth - ((i - 1) % LevelWidth)
<1> DEFINE i == BucketIndex(num, x)
           u == XorOf[Root][x]
           lz == LeadingZeros[u]
           p == lz \div ACC
<1>1. LevelWidth \in Nat \ {0} /\ ACC \in Nat \ {0} /\ 2^ACC = LevelWidth + 1 /\ BITS \in Nat
  <2>1. ACC \in 1 .. BITS /\ BITS \in Nat
    BY RoutingTableAssumption, Powers
  <2>2. ACC \in 0 .. BITS /\ ACC > 0
    BY <2>1
  <2>3. 2^ACC \in Nat /\ 2^ACC > 1
    BY <2>2, NodeIdAssumption
  <2> QED
    BY <2>1, <2>3 DEF LevelWidth
<1>2. u \in NodeIds
  BY RoutingTableAssumption, XorLaws
<1>3. u \in Nat /\ lz \in 0 .. BITS
  BY <1>2, IdType, ZerosMost
<1>4. p \in Nat /\ SharedPrefixLen(Root, x, ACC) = p
  BY <1>1, <1>3, DivBounds DEF SharedPrefixLen
<1>5. Beyond(x) <=> (p + 1) * ACC > BITS
  BY <1>4 DEF Beyond
<1>6. Slot(x) = p * LevelWidth + LevelWidth - Bits(u, BITS - (p + 1) * ACC, ACC)
  BY <1>4 DEF Slot
<1> HIDE DEF u, lz
<1>7. ASSUME NEW l \in Nat, l * ACC <= BITS
      PROVE  p >= l <=> u < 2^(BITS - l * ACC)
  <2>1. p < l <=> lz < ACC * l
    BY <1>1, <1>3, DivLess
  <2>2. l * ACC \in 0 .. BITS /\ ACC * l = l * ACC
    BY <1>1, <1>7
  <2> DEFINE z == l * ACC
  <2> HIDE DEF z
  <2>3. lz >= z <=> u < 2^(BITS - z)
    BY <1>2, <2>2, ZerosBound DEF lz, z
  <2> QED
    BY <2>1, <2>2, <2>3, <1>3, <1>4 DEF z
<1> HIDE DEF p
<1>8. k * LevelWidth \in Nat /\ num \in Nat \ {0}
  BY <1>1, Products
<1>9. i = IF Beyond(x) \/ Slot(x) > num - 1 THEN num ELSE Slot(x) + 1
  BY IndexCut
<1> HIDE DEF i
<1>10. CASE p < k
  <2>1. (p + 1) * ACC <= k * ACC /\ (p + 1) * ACC \in Nat /\ p * ACC \in Nat
        /\ k * ACC \in Nat /\ (p + 1) * ACC = p * ACC + ACC
    BY <1>1, <1>4, <1>10, Products
  <2> DEFINE from == BITS - (p + 1) * ACC
             d == u \div 2^from
  <2>2. ~Beyond(x) /\ from \in 0 .. BITS /\ BITS - p * ACC \in 0 .. BITS
        /\ from <= BITS - p * ACC /\ (BITS - p * ACC) - from = ACC
    BY <1>1, <1>5, <2>1
  <2>3. u < 2^(BITS - p * ACC) /\ ~(u < 2^from)
    <3>1. p * ACC <= BITS /\ (p + 1) * ACC <= BITS /\ p + 1 \in Nat
      BY <1>1, <1>4, <2>1
    <3>2. p >= p /\ ~(p >= p + 1)
      BY <1>4
    <3> QED
      BY <3>1, <3>2, <1>4, <1>7
  <2> HIDE DEF from
  <2>4. 2^(BITS - p * ACC) = 2^from * 2^ACC /\ 2^from \in Nat \ {0}
    BY <2>2, Powers
  <2>5. d \in 1 .. LevelWidth
    <3>1. d \in Nat /\ (d < LevelWidth + 1 <=> u < 2^from * (LevelWidth + 1))
      BY <1>1, <1>3, <2>4, DivBounds, DivLess
    <3>2. d < 1 <=> u < 2^from * 1
      BY <1>3, <2>4, DivLess
    <3> QED
      BY <3>1, <3>2, <2>3, <2>4, <1>1
  <2>6. Bits(u, from, ACC) = d
    <3>1. Bits(u, from, ACC) = d % (LevelWidth + 1)
      BY <1>1 DEF Bits
    <3> HIDE DEF d
    <3> QED
      BY <3>1, <2>5, <1>1
  <2> HIDE DEF d
  <2>7. Slot(x) = p * LevelWidth + (LevelWidth - d) /\ LevelWidth - d \in Nat /\ LevelWidth - d < LevelWidth
    BY <1>1, <1>4, <1>6, <2>5, <2>6, Products DEF from
  <2>8. p * LevelWidth + LevelWidth <= k * LevelWidth /\ p * LevelWidth \in Nat
    BY <1>1, <1>4, <1>10, Products
  <2>9. i = Slot(x) + 1 /\ i - 1 = p * LevelWidth + (LevelWidth - d) /\ i \in 1 .. num
    BY <1>1, <1>8, <1>9, <2>2, <2>5, <2>7, <2>8
  <2>10. (i - 1) \div LevelWidth = p /\ (i - 1) % LevelWidth = LevelWidth - d
    <3> DEFINE rest == LevelWidth - d
    <3>1. /\ rest \in Nat /\ rest < LevelWidth /\ i - 1 = p * LevelWidth + rest
          /\ p \in Nat /\ LevelWidth \in Nat \ {0}
      BY <1>1, <1>4, <2>7, <2>9
    <3> HIDE DEF rest
    <3>2. (p * LevelWidth + rest) \div LevelWidth = p /\ (p * LevelWidth + rest) % LevelWidth = rest
      BY <3>1, DivMod
    <3> QED
      BY <3>1, <3>2 DEF rest
  <2>11. LevelOf(i) = p
    BY <2>10 DEF LevelOf
  <2>12. u \div 2^(BITS - (LevelOf(i) + 1) * ACC) = LevelWidth - ((i - 1) % LevelWidth)
    BY <2>10, <2>11, <2>5, <1>1 DEF from, d
  <2>13. ASSUME NEW l \in 0 .. k
         PROVE  LevelOf(i) >= l <=> u < 2^(BITS - l * ACC)
    <3>1. l \in Nat /\ l * ACC <= k * ACC /\ l * ACC \in Nat /\ k * ACC \in Nat
      BY <1>1, Products
    <3> QED
      BY <3>1, <2>11, <1>1, <1>7
  <2> QED
    BY <1>1, <1>4, <1>10, <2>9, <2>11, <2>12, <2>13 DEF i, u
<1>11. CASE ~(p < k)
  <2>1. i = num
    <3>1. CASE Beyond(x)
      BY <3>1, <1>9
    <3>2. CASE ~Beyond(x)
      <4> DEFINE d == Bits(u, BITS - (p + 1) * ACC, ACC)
      <4>1. d \in 0 .. LevelWidth
        <5>1. (p + 1) * ACC \in Nat
          BY <1>1, <1>4
        <5>2. BITS - (p + 1) * ACC \in 0 .. BITS
          BY <3>2, <5>1, <1>1, <1>5
        <5> DEFINE m == 2^(BITS - (p + 1) * ACC)
        <5>3. m \in Nat \ {0}
          BY <5>2, Powers
        <5>4. d = (u \div m) % (LevelWidth + 1)
          BY <1>1 DEF Bits
        <5> HIDE DEF m
        <5>5. u \div m \in Nat
          BY <5>3, <1>3
        <5> QED
          BY <5>4, <5>5, <1>1
      <4> HIDE DEF d
      <4>2. Slot(x) = p * LevelWidth + LevelWidth - d
        BY <1>6 DEF d
      <4>3. k * LevelWidth <= p * LevelWidth /\ p * LevelWidth \in Nat
        BY <1>1, <1>4, <1>11, Products
      <4>4. Slot(x) \in Nat /\ Slot(x) >= num - 1
        BY <4>1, <4>2, <4>3, <1>1, <1>8
      <4> QED
        BY <4>4, <1>8, <1>9
    <3> QED
      BY <3>1, <3>2
  <2>2. (i - 1) \div LevelWidth = k
    <3>1. i - 1 = k * LevelWidth + 0
      BY <2>1, <1>8
    <3> QED
      BY <3>1, <1>1, DivMod
  <2>3. LevelOf(i) = k
    BY <2>2 DEF LevelOf
  <2>4. ASSUME NEW l \in 0 .. k
        PROVE  LevelOf(i) >= l <=> u < 2^(BITS - l * ACC)
    <3>1. l \in Nat /\ l * ACC <= k * ACC /\ l * ACC \in Nat /\ k * ACC \in Nat /\ p >= l
      BY <1>1, <1>4, <1>11, Products
    <3> QED
      BY <3>1, <2>3, <1>1, <1>7
  <2> QED
    BY <1>1, <1>8, <2>1, <2>3, <2>4 DEF i, u
<1> QED
  BY <1>10, <1>11

(* Among finitely or infinitely many numbers there is a least one.         *)
LEMMA Least ==
  ASSUME NEW S, S \subseteq Nat, S # {}
  PROVE  \E m \in S : \A x \in S : m <= x
<1> DEFINE R == {ss \in Nat \X Nat : ss[1] < ss[2]}
<1>1. IsWellFoundedOn(R, Nat)
  BY NatLessThanWellFounded, Zenon DEF OpToRel
<1> HIDE DEF R
<1>2. PICK m \in S : \A x \in S : ~(<<x, m>> \in R)
  BY <1>1, WFMin
<1>3. ASSUME NEW x \in S PROVE m <= x
  <2>1. x \in Nat /\ m \in Nat /\ ~(<<x, m>> \in R)
    BY <1>2
  <2>2. ~(x < m)
    BY <2>1 DEF R
  <2> QED
    BY <2>1, <2>2
<1> QED
  BY <1>3

(* Digits and what is left of an id after a shift are ids.                 *)
LEMMA SmallIds ==
  /\ \A d \in 0 .. LevelWidth : d \in NodeIds
  /\ \A id \in NodeIds, r \in 0 .. BITS : id \div 2^r \in NodeIds
  /\ 0 \in NodeIds
<1>1. 2^BITS \in Nat \ {0} /\ LevelWidth \in Nat /\ LevelWidth + 1 <= 2^BITS
  <2>1. ACC \in 0 .. BITS /\ BITS \in 0 .. BITS /\ ACC <= BITS
    BY RoutingTableAssumption, Powers
  <2> QED
    BY <2>1, Powers, Sizes
<1>2. ASSUME NEW id \in NodeIds, NEW r \in 0 .. BITS
      PROVE  id \div 2^r \in NodeIds
  <2>1. id \in Nat /\ 2^r \in Nat \ {0} /\ id < 2^BITS
    BY IdType, Powers
  <2> DEFINE m == 2^r
  <2> HIDE DEF m
  <2>2. id \div m \in Nat /\ m * (id \div m) <= id
    BY <2>1, DivBounds DEF m
  <2> DEFINE q == id \div m
  <2> HIDE DEF q
  <2>3. q <= m * q
    BY <2>1, <2>2 DEF q, m
  <2>4. q <= id
    <3>1. m * q \in Nat
      BY <2>1, <2>2 DEF q, m
    <3> QED
      BY <3>1, <2>1, <2>2, <2>3 DEF q
  <2> QED
    BY <2>1, <2>2, <2>4, <1>1 DEF NodeIds, q, m
<1>3. \A d \in 0 .. LevelWidth : d \in NodeIds
  BY <1>1 DEF NodeIds
<1> QED
  BY <1>1, <1>2, <1>3 DEF NodeIds

(* The distance to the target above bit r, by way of the root.             *)
LEMMA ShiftedDistance ==
  ASSUME NEW t \in NodeIds, NEW x \in NodeIds, NEW r \in 0 .. BITS
  PROVE  XorOf[t][x] \div 2^r = XorOf[XorOf[Root][t] \div 2^r][XorOf[Root][x] \div 2^r]
<1>1. Root \in NodeIds
  BY RoutingTableAssumption
<1>2. XorOf[t][x] = XorOf[XorOf[Root][t]][XorOf[Root][x]]
  BY <1>1, XorLaws
<1>3. XorOf[Root][t] \in NodeIds /\ XorOf[Root][x] \in NodeIds
  BY <1>1, XorLaws
<1> QED
  BY <1>2, <1>3, XorAssumption

-----------------------------------------------------------------------------
(* The order of visits *)

(* The table has k complete levels and the last bucket.                    *)
LevelsOK(bs) ==
  \E k \in Nat : Len(bs) = k * LevelWidth + 1 /\ k * ACC <= BITS

LevelOfId(t) == LevelOf(BucketIndex(Len(buckets), t))

(* The digits that VisitedBefore compares.                                 *)
DigitOf(k, t) == IF LevelOf(k) = LevelOfId(t) THEN LevelWidth - ((k - 1) % LevelWidth) ELSE 0
DigitOfId(t) == Bits(XorOf[Root][t], BITS - (LevelOfId(t) + 1) * ACC, ACC)
DistOf(k, t) == XorOf[DigitOfId(t)][DigitOf(k, t)]

(* The visiting order, by level and digit.                                 *)
LEMMA VisitCases ==
  ASSUME NEW i, NEW j, NEW t
  PROVE  VisitedBefore(i, j, t) <=>
           IF LevelOf(j) < LevelOfId(t) THEN LevelOf(i) > LevelOf(j)
           ELSE /\ LevelOf(i) >= LevelOfId(t) /\ i # j
                /\ \/ DistOf(i, t) < DistOf(j, t)
                   \/ DistOf(i, t) = DistOf(j, t) /\ LevelOf(i) < LevelOf(j)
BY DEF VisitedBefore, LevelOfId, DigitOf, DigitOfId, DistOf

(* The last bucket is the only one of the last level.                      *)
LEMMA LevelType ==
  ASSUME NEW k \in Nat, Len(buckets) = k * LevelWidth + 1, NEW i \in 1 .. Len(buckets)
  PROVE  /\ LevelWidth \in Nat \ {0} /\ LevelOf(i) \in 0 .. k /\ (LevelOf(i) = k => i = Len(buckets))
         /\ (i - 1) % LevelWidth \in 0 .. LevelWidth - 1
<1>1. LevelWidth \in Nat \ {0}
  <2>1. ACC \in 0 .. BITS /\ ACC > 0
    BY RoutingTableAssumption, Powers
  <2>2. 2^ACC \in Nat /\ 2^ACC > 1
    BY <2>1, NodeIdAssumption
  <2> QED
    BY <2>2 DEF LevelWidth
<1>2. k * LevelWidth \in Nat /\ i - 1 \in Nat /\ i - 1 <= k * LevelWidth
  BY <1>1
<1>3. (i - 1) \div LevelWidth \in Nat /\ LevelWidth * ((i - 1) \div LevelWidth) <= i - 1
  BY <1>1, <1>2, DivBounds
<1> DEFINE l == (i - 1) \div LevelWidth
<1> HIDE DEF l
<1>4. ASSUME k < l PROVE FALSE
  <2>1. k * LevelWidth + LevelWidth <= l * LevelWidth /\ l * LevelWidth = LevelWidth * l /\ l * LevelWidth \in Nat
    BY <1>1, <1>3, <1>4, Products DEF l
  <2> QED
    BY <2>1, <1>1, <1>2, <1>3 DEF l
<1>5. ASSUME l = k PROVE i = Len(buckets)
  <2>1. LevelWidth * l = k * LevelWidth
    BY <1>5, <1>1
  <2> QED
    BY <2>1, <1>2, <1>3 DEF l
<1>6. (i - 1) % LevelWidth \in 0 .. LevelWidth - 1
  BY <1>1, <1>2
<1> QED
  BY <1>1, <1>3, <1>4, <1>5, <1>6 DEF LevelOf, l

(* The digits are digits, unless the target is in the last bucket.         *)
LEMMA DigitType ==
  ASSUME NEW k \in Nat, k * ACC <= BITS, Len(buckets) = k * LevelWidth + 1,
         NEW t \in NodeIds, LevelOfId(t) < k
  PROVE  LET r == BITS - (LevelOfId(t) + 1) * ACC
         IN  /\ r \in 0 .. BITS
             /\ DigitOfId(t) = XorOf[Root][t] \div 2^r /\ DigitOfId(t) \in 1 .. LevelWidth
             /\ \A i \in 1 .. Len(buckets) :
                  /\ DigitOf(i, t) \in 0 .. LevelWidth /\ (LevelOf(i) = LevelOfId(t) => DigitOf(i, t) # 0)
                  /\ DistOf(i, t) \in Nat
<1> DEFINE l == LevelOfId(t)
           r == BITS - (l + 1) * ACC
           it == BucketIndex(Len(buckets), t)
           w == XorOf[Root][t]
<1>1. /\ LevelWidth \in Nat \ {0} /\ it \in 1 .. Len(buckets)
      /\ l \in 0 .. k /\ w \div 2^r = LevelWidth - ((it - 1) % LevelWidth)
  BY Levels DEF LevelOfId
<1>2. ACC \in Nat \ {0} /\ BITS \in Nat /\ 2^ACC = LevelWidth + 1
  BY Sizes, RoutingTableAssumption
<1>3. (l + 1) * ACC <= k * ACC /\ (l + 1) * ACC \in Nat /\ k * ACC \in Nat
  <2>1. l + 1 \in Nat /\ l + 1 <= k
    BY <1>1
  <2> HIDE DEF l
  <2> QED
    BY <2>1, <1>2, Products
<1>4. r \in 0 .. BITS
  BY <1>2, <1>3
<1>5. w \div 2^r \in 1 .. LevelWidth
  <2>1. (it - 1) % LevelWidth \in 0 .. LevelWidth - 1
    BY <1>1, LevelType
  <2> QED
    BY <2>1, <1>1
<1>6. DigitOfId(t) = w \div 2^r
  <2>1. DigitOfId(t) = (w \div 2^r) % (LevelWidth + 1)
    BY <1>2 DEF DigitOfId, Bits
  <2> DEFINE d == w \div 2^r
  <2> HIDE DEF d
  <2>2. d \in 1 .. LevelWidth
    BY <1>5 DEF d
  <2> DEFINE m == LevelWidth + 1
  <2>3. m \in Nat \ {0} /\ d \in Nat /\ d < m /\ 0 * m + d = d
    BY <2>2, <1>1
  <2> HIDE DEF m
  <2>4. d % m = d
    BY <2>3, DivMod
  <2> QED
    BY <2>1, <2>4 DEF d, m
<1>7. ASSUME NEW i \in 1 .. Len(buckets)
      PROVE  /\ DigitOf(i, t) \in 0 .. LevelWidth /\ (LevelOf(i) = LevelOfId(t) => DigitOf(i, t) # 0)
             /\ DistOf(i, t) \in Nat
  <2>1. (i - 1) % LevelWidth \in 0 .. LevelWidth - 1
    BY LevelType
  <2>2. DigitOf(i, t) \in 0 .. LevelWidth /\ (LevelOf(i) = LevelOfId(t) => DigitOf(i, t) # 0)
    BY <2>1, <1>1 DEF DigitOf
  <2>3. DigitOf(i, t) \in NodeIds /\ DigitOfId(t) \in NodeIds
    BY <2>2, <1>5, <1>6, SmallIds
  <2>4. DistOf(i, t) \in NodeIds
    BY <2>3, XorLaws DEF DistOf
  <2> QED
    BY <2>2, <2>4, IdType
<1> QED
  BY <1>4, <1>5, <1>6, <1>7

(* Contacts at or below the level of the target are told apart by their    *)
(* digit: above bit r their distance is that of their bucket.              *)
LEMMA DistanceAbove ==
  ASSUME NEW k \in Nat, k * ACC <= BITS, Len(buckets) = k * LevelWidth + 1,
         NEW t \in NodeIds, LevelOfId(t) < k,
         NEW x \in NodeIds, LevelOfId(x) >= LevelOfId(t)
  PROVE  XorOf[t][x] \div 2^(BITS - (LevelOfId(t) + 1) * ACC) = DistOf(BucketIndex(Len(buckets), x), t)
<1> DEFINE l == LevelOfId(t)
           r == BITS - (l + 1) * ACC
           i == BucketIndex(Len(buckets), x)
           u == XorOf[Root][x]
<1>1. /\ r \in 0 .. BITS /\ DigitOfId(t) = XorOf[Root][t] \div 2^r
  BY DigitType
<1>2. XorOf[t][x] \div 2^r = XorOf[DigitOfId(t)][u \div 2^r]
  BY <1>1, ShiftedDistance
<1>3. /\ l \in 0 .. k /\ LevelOf(i) \in 0 .. k
      /\ \A m \in 0 .. k : LevelOf(i) >= m <=> u < 2^(BITS - m * ACC)
      /\ LevelOf(i) < k => u \div 2^(BITS - (LevelOf(i) + 1) * ACC) = LevelWidth - ((i - 1) % LevelWidth)
  BY Levels DEF LevelOfId
<1>4. u \div 2^r = DigitOf(i, t)
  <2>1. CASE LevelOf(i) = l
    BY <2>1, <1>3 DEF DigitOf
  <2>2. CASE LevelOf(i) # l
    <3>1. LevelOf(i) >= l + 1 /\ l + 1 \in 0 .. k
      BY <2>2, <1>3 DEF LevelOfId
    <3>2. u < 2^r
      BY <3>1, <1>3
    <3>3. u \in Nat /\ 2^r \in Nat \ {0}
      BY <1>1, Powers, XorLaws, IdType, RoutingTableAssumption
    <3>4. u \div 2^r < 1 /\ u \div 2^r \in Nat
      BY <3>2, <3>3, DivLess, DivBounds
    <3> QED
      BY <3>4, <2>2 DEF DigitOf
  <2> QED
    BY <2>1, <2>2
<1> QED
  BY <1>2, <1>4 DEF DistOf

(* Contacts of a bucket that is visited earlier share as long a prefix     *)
(* with the target.                                                        *)
LEMMA VisitOrder ==
  ASSUME NEW k \in Nat, k * ACC <= BITS, Len(buckets) = k * LevelWidth + 1,
         NEW t \in NodeIds, NEW d \in NodeIds, NEW c \in NodeIds,
         VisitedBefore(BucketIndex(Len(buckets), d), BucketIndex(Len(buckets), c), t)
  PROVE  LeadingZeros[XorOf[t][d]] >= LeadingZeros[XorOf[t][c]]
<1> DEFINE i == BucketIndex(Len(buckets), d)
           j == BucketIndex(Len(buckets), c)
           level == LevelOfId(t)
<1>1. /\ LevelOfId(d) \in 0 .. k /\ LevelOfId(c) \in 0 .. k /\ level \in 0 .. k
      /\ i \in 1 .. Len(buckets) /\ j \in 1 .. Len(buckets)
      /\ LevelOfId(d) = LevelOf(i) /\ LevelOfId(c) = LevelOf(j)
  BY Levels DEF LevelOfId
<1>2. XorOf[t][d] \in NodeIds /\ XorOf[t][c] \in NodeIds
  BY XorLaws
<1>3. XorOf[t][d] \in Nat /\ XorOf[t][c] \in Nat
  BY <1>2, IdType
<1>4. ACC \in Nat \ {0} /\ BITS \in Nat
  BY Sizes, RoutingTableAssumption
<1>5. CASE LevelOf(j) < level
  <2> DEFINE m == LevelOf(j) + 1
             r == BITS - m * ACC
  <2>1. LevelOf(i) >= m /\ level >= m /\ m \in 0 .. k /\ ~(LevelOf(j) >= m)
    BY <1>1, <1>5, VisitCases
  <2> HIDE DEF m
  <2>2. m * ACC \in Nat /\ m * ACC <= k * ACC /\ k * ACC \in Nat
    BY <2>1, <1>4, Products
  <2>3. r \in 0 .. BITS
    BY <2>2, <1>4
  <2>4. XorOf[Root][t] < 2^r /\ XorOf[Root][d] < 2^r /\ ~(XorOf[Root][c] < 2^r)
    BY <2>1, Levels DEF LevelOfId
  <2> DEFINE w == XorOf[Root][t]
             u == XorOf[Root][d]
             v == XorOf[Root][c]
             p == 2^r
  <2>5. w \in Nat /\ u \in Nat /\ v \in NodeIds /\ v \in Nat
    BY XorLaws, IdType, RoutingTableAssumption
  <2>6. p \in Nat \ {0}
    BY <2>3, Powers
  <2>7. XorOf[t][d] \div p = XorOf[w \div p][u \div p] /\ XorOf[t][c] \div p = XorOf[w \div p][v \div p]
    BY <2>3, ShiftedDistance
  <2>8. v \div p \in NodeIds
    BY <2>3, <2>5, SmallIds
  <2> HIDE DEF w, u, v, p, r
  <2>9. w \div p = 0 /\ u \div p = 0 /\ v \div p # 0
    <3>1. w < p /\ u < p /\ ~(v < p)
      BY <2>4 DEF w, u, v, p
    <3>2. (w \div p < 1 <=> w < p * 1) /\ (u \div p < 1 <=> u < p * 1) /\ (v \div p < 1 <=> v < p * 1)
      BY <2>5, <2>6, DivLess
    <3>3. w \div p \in Nat /\ u \div p \in Nat /\ v \div p \in Nat
      BY <2>5, <2>6, DivBounds
    <3> QED
      BY <3>1, <3>2, <3>3, <2>6
  <2>10. XorOf[0][0] = 0 /\ XorOf[0][v \div p] = v \div p
    BY <2>8, SmallIds, XorAssumption
  <2>11. XorOf[t][d] \div p = 0 /\ XorOf[t][c] \div p # 0
    BY <2>7, <2>9, <2>10
  <2> DEFINE x == XorOf[t][d]
             y == XorOf[t][c]
  <2> HIDE DEF x, y
  <2>12. x <= y
    <3>1. x \in Nat /\ y \in Nat /\ x \div p = 0 /\ y \div p # 0
      BY <1>3, <2>11 DEF x, y
    <3>2. (y <= x => y \div p <= x \div p) /\ y \div p \in Nat
      BY <3>1, <2>6, DivOrder, DivBounds
    <3> QED
      BY <3>1, <3>2
  <2> QED
    BY <2>12, <1>2, ZerosOrder DEF x, y
<1>6. CASE ~(LevelOf(j) < level)
  <2>1. /\ LevelOf(i) >= level /\ LevelOf(j) >= level /\ i # j
        /\ \/ DistOf(i, t) < DistOf(j, t)
           \/ DistOf(i, t) = DistOf(j, t) /\ LevelOf(i) < LevelOf(j)
    BY <1>1, <1>6, VisitCases
  <2>2. level < k
    <3>1. level = k => i = Len(buckets) /\ j = Len(buckets)
      BY <1>1, <2>1, LevelType
    <3> QED
      BY <3>1, <1>1, <2>1
  <2> DEFINE r == BITS - (level + 1) * ACC
  <2>3. r \in 0 .. BITS /\ DistOf(i, t) \in Nat /\ DistOf(j, t) \in Nat
    BY <1>1, <2>2, DigitType
  <2>4. XorOf[t][d] \div 2^r = DistOf(i, t) /\ XorOf[t][c] \div 2^r = DistOf(j, t)
    BY <1>1, <2>1, <2>2, DistanceAbove
  <2>5. CASE DistOf(i, t) < DistOf(j, t)
    <3> DEFINE x == XorOf[t][d]
               y == XorOf[t][c]
               p == 2^r
    <3>1. p \in Nat \ {0}
      BY <2>3, Powers
    <3> HIDE DEF x, y, p
    <3>2. x <= y
      <4>1. x \in Nat /\ y \in Nat /\ x \div p < y \div p
        BY <1>3, <2>4, <2>5 DEF x, y, p
      <4>2. (y <= x => y \div p <= x \div p) /\ y \div p \in Nat /\ x \div p \in Nat
        BY <4>1, <3>1, DivOrder, DivBounds
      <4> QED
        BY <4>1, <4>2
    <3> QED
      BY <3>2, <1>2, ZerosOrder DEF x, y
  <2>6. CASE DistOf(i, t) = DistOf(j, t) /\ LevelOf(i) < LevelOf(j)
    <3>1. DigitOf(j, t) = 0
      BY <2>1, <2>6, <1>1 DEF DigitOf
    <3>2. DigitOfId(t) \in 1 .. LevelWidth /\ LevelWidth \in Nat
      BY <1>1, <2>2, DigitType, Sizes
    <3>3. DigitOfId(t) \in NodeIds /\ 0 \in NodeIds
      BY <3>2, SmallIds
    <3>4. DistOf(j, t) # 0
      <4>1. XorOf[DigitOfId(t)][0] = XorOf[0][DigitOfId(t)] /\ XorOf[0][DigitOfId(t)] = DigitOfId(t)
        BY <3>3, XorAssumption
      <4> QED
        BY <4>1, <3>1, <3>2 DEF DistOf
    <3> QED
      BY <3>4, <1>2, <2>3, <2>4, <2>6, ZerosAbove
  <2> QED
    BY <2>1, <2>5, <2>6
<1> QED
  BY <1>5, <1>6

(* It is a strict order.                                                   *)
LEMMA VisitStrict ==
  ASSUME NEW k \in Nat, k * ACC <= BITS, Len(buckets) = k * LevelWidth + 1, NEW t \in NodeIds,
         NEW h \in 1 .. Len(buckets), NEW i \in 1 .. Len(buckets), NEW j \in 1 .. Len(buckets)
  PROVE  /\ ~VisitedBefore(i, i, t)
         /\ VisitedBefore(h, i, t) /\ VisitedBefore(i, j, t) => VisitedBefore(h, j, t)
<1> DEFINE level == LevelOfId(t)
<1>1. LevelOf(h) \in 0 .. k /\ LevelOf(i) \in 0 .. k /\ LevelOf(j) \in 0 .. k
  BY LevelType
<1>2. level \in 0 .. k
  BY Levels DEF LevelOfId
<1>3. CASE level = k
  <2>1. \A m \in 1 .. Len(buckets) : LevelOf(m) >= level => m = Len(buckets)
    <3> SUFFICES ASSUME NEW m \in 1 .. Len(buckets), LevelOf(m) >= level PROVE m = Len(buckets)
      OBVIOUS
    <3>1. LevelOf(m) \in 0 .. k /\ (LevelOf(m) = k => m = Len(buckets))
      BY LevelType
    <3> HIDE DEF level
    <3> QED
      BY <3>1, <1>3
  <2>2. \A x, y \in {h, i, j} :
          VisitedBefore(x, y, t) => LevelOf(y) < level /\ LevelOf(x) > LevelOf(y)
    <3> SUFFICES ASSUME NEW x \in {h, i, j}, NEW y \in {h, i, j}, VisitedBefore(x, y, t)
                 PROVE  LevelOf(y) < level /\ LevelOf(x) > LevelOf(y)
      OBVIOUS
    <3>1. CASE LevelOf(y) < level
      BY <3>1, VisitCases
    <3>2. CASE ~(LevelOf(y) < level)
      BY <3>2, <2>1, <1>1, <1>2, VisitCases
    <3> QED
      BY <3>1, <3>2
  <2>3. ASSUME VisitedBefore(h, i, t), VisitedBefore(i, j, t) PROVE VisitedBefore(h, j, t)
    <3>1. LevelOf(j) < level /\ LevelOf(h) > LevelOf(i) /\ LevelOf(i) > LevelOf(j)
      BY <2>2, <2>3
    <3>2. LevelOf(h) > LevelOf(j)
      BY <3>1, <1>1
    <3> QED
      BY <3>1, <3>2, VisitCases
  <2>4. ~VisitedBefore(i, i, t)
    BY <2>2, <1>1
  <2> QED
    BY <2>3, <2>4
<1>4. CASE level < k
  <2>1. DistOf(h, t) \in Nat /\ DistOf(i, t) \in Nat /\ DistOf(j, t) \in Nat
    BY <1>4, DigitType
  <2> QED
    BY <2>1, <1>1, <1>2, VisitCases
<1> QED
  BY <1>2, <1>3, <1>4

-----------------------------------------------------------------------------
(* The nearest contacts *)

(* SharedPrefix::cmp is a strict order of ids, and it is total.            *)
LEMMA CloserOrder ==
  ASSUME NEW t \in NodeIds, NEW a \in NodeIds, NEW b \in NodeIds, NEW c \in NodeIds
  PROVE  /\ ~Closer(a, a, t, Group)
         /\ Closer(a, b, t, Group) /\ Closer(b, c, t, Group) => Closer(a, c, t, Group)
         /\ Closer(a, b, t, Group) => ~Closer(b, a, t, Group)
         /\ a # b => Closer(a, b, t, Group) \/ Closer(b, a, t, Group)
         /\ Closer(a, b, t, Group) => SharedPrefixLen(t, a, Group) >= SharedPrefixLen(t, b, Group)
<1>1. Group \in 1 .. BITS
  BY RoutingTableAssumption
<1>2. /\ SharedPrefixLen(t, a, Group) \in Nat /\ SharedPrefixLen(t, b, Group) \in Nat
      /\ SharedPrefixLen(t, c, Group) \in Nat
  BY <1>1, PrefixLen
<1>3. XorOf[t][a] \in Nat /\ XorOf[t][b] \in Nat /\ XorOf[t][c] \in Nat
  BY XorLaws, IdType
<1>4. XorOf[t][a] = XorOf[t][b] => a = b
  BY XorLaws
<1> QED
  BY <1>2, <1>3, <1>4 DEF Closer

Nearer(S, c, t) == {d \in S : Closer(d, c, t, Group)}

(* The nearer of two contacts has fewer contacts nearer to the target.     *)
LEMMA NearerGrows ==
  ASSUME NEW t \in NodeIds, NEW S \in SUBSET NodeIds, IsFiniteSet(S), NEW a \in S, NEW b \in S
  PROVE  /\ Cardinality(Nearer(S, a, t)) \in 0 .. Cardinality(S) - 1
         /\ Closer(a, b, t, Group) => Cardinality(Nearer(S, a, t)) < Cardinality(Nearer(S, b, t))
<1>1. a \in NodeIds /\ b \in NodeIds
  OBVIOUS
<1> DEFINE A == Nearer(S, a, t)
           B == Nearer(S, b, t)
<1>2. A \subseteq S /\ B \subseteq S /\ a \notin A
  BY <1>1, CloserOrder DEF Nearer
<1>3. IsFiniteSet(A) /\ IsFiniteSet(B) /\ Cardinality(A) \in Nat /\ Cardinality(B) \in Nat
      /\ Cardinality(S) \in Nat
  BY <1>2, FS_Subset, FS_CardinalityType
<1>4. ASSUME NEW T \in SUBSET S, IsFiniteSet(T), A \subseteq T, a \in T, Cardinality(T) \in Nat
      PROVE  Cardinality(A) < Cardinality(T)
  <2>1. Cardinality(A) <= Cardinality(T) /\ (Cardinality(A) = Cardinality(T) => T = A)
    BY <1>4, FS_Subset
  <2> QED
    BY <2>1, <1>2, <1>3, <1>4
<1>5. Cardinality(A) < Cardinality(S)
  BY <1>2, <1>3, <1>4
<1>6. ASSUME Closer(a, b, t, Group) PROVE Cardinality(A) < Cardinality(B)
  <2>1. a \in B /\ A \subseteq B
    BY <1>1, <1>6, CloserOrder DEF Nearer
  <2> QED
    BY <2>1, <1>2, <1>3, <1>4
<1> QED
  BY <1>3, <1>5, <1>6

(* Nearest returns the n nearest: the number of nearer ones enumerates     *)
(* the contacts.                                                           *)
LEMMA NearestOnes ==
  ASSUME NEW t \in NodeIds, NEW S \in SUBSET NodeIds, IsFiniteSet(S), NEW n \in Nat
  PROVE  /\ Nearest(S, t, n) \subseteq S
         /\ \A c \in S \ Nearest(S, t, n) :
              /\ \A d \in Nearest(S, t, n) : Closer(d, c, t, Group)
              /\ Cardinality(Nearest(S, t, n)) >= n
<1> DEFINE N == Nearest(S, t, n)
           total == Cardinality(S)
           rank == [c \in S |-> Cardinality(Nearer(S, c, t))]
<1>1. N = {c \in S : rank[c] < n}
  BY DEF Nearest, Nearer
<1>2. total \in Nat
  BY FS_CardinalityType
<1>3. \A a, b \in S : /\ rank[a] \in 0 .. total - 1
                      /\ Closer(a, b, t, Group) => rank[a] < rank[b]
  BY NearerGrows
<1> HIDE DEF rank, N
<1>4. \A a, b \in S : rank[a] < rank[b] => Closer(a, b, t, Group)
  <2> SUFFICES ASSUME NEW a \in S, NEW b \in S, rank[a] < rank[b]
               PROVE  Closer(a, b, t, Group)
    OBVIOUS
  <2>1. a # b /\ ~(rank[b] < rank[a])
    BY <1>2, <1>3
  <2> QED
    BY <2>1, <1>3, CloserOrder
<1>5. rank \in [S -> 0 .. total - 1]
  BY <1>3 DEF rank
<1>6. rank \in Injection(S, 0 .. total - 1)
  <2>1. \A a, b \in S : rank[a] = rank[b] => a = b
    BY <1>2, <1>3, CloserOrder
  <2> QED
    BY <2>1, <1>5 DEF Injection, IsInjective
<1>7. rank \in Surjection(S, 0 .. total - 1)
  <2>1. IsFiniteSet(0 .. total - 1) /\ Cardinality(0 .. total - 1) = total
    <3>1. 0 \in Int /\ total - 1 \in Int
      BY <1>2
    <3> QED
      BY <3>1, <1>2, FS_Interval
  <2> QED
    BY <2>1, <1>6, FS_Injection
<1>8. ASSUME NEW c \in S \ N
      PROVE  (\A d \in N : Closer(d, c, t, Group)) /\ Cardinality(N) >= n
  <2>1. rank[c] >= n /\ rank[c] \in 0 .. total - 1
    BY <1>1, <1>2, <1>3
  <2>2. ASSUME NEW d \in N PROVE Closer(d, c, t, Group)
    <3>1. d \in S /\ rank[d] < n /\ rank[d] \in 0 .. total - 1
      BY <1>1, <1>3
    <3> QED
      BY <3>1, <2>1, <1>2, <1>4
  <2>3. IsFiniteSet(N) /\ Cardinality(N) \in Nat
    BY <1>1, FS_Subset, FS_CardinalityType
  <2> DEFINE f == [d \in N |-> rank[d]]
  <2>4. f \in Surjection(N, 0 .. n - 1)
    <3>1. f \in [N -> 0 .. n - 1]
      BY <1>1, <1>2, <1>3
    <3>2. ASSUME NEW m \in 0 .. n - 1 PROVE \E d \in N : f[d] = m
      <4>1. m \in 0 .. total - 1 /\ m < n
        BY <2>1, <1>2
      <4>2. PICK d \in S : rank[d] = m
        BY <4>1, <1>7 DEF Surjection
      <4> QED
        BY <4>1, <4>2, <1>1
    <3> HIDE DEF f
    <3> QED
      BY <3>1, <3>2 DEF Surjection
  <2>5. Cardinality(0 .. n - 1) = n
    <3>1. 0 \in Int /\ n - 1 \in Int
      OBVIOUS
    <3> QED
      BY <3>1, FS_Interval
  <2>6. Cardinality(0 .. n - 1) <= Cardinality(N)
    BY <2>3, <2>4, FS_Surjection
  <2> QED
    BY <2>2, <2>3, <2>5, <2>6
<1> QED
  BY <1>1, <1>8 DEF N

(* The nearest one.                                                        *)
LEMMA NearestOne ==
  ASSUME NEW t \in NodeIds, NEW S \in SUBSET NodeIds, IsFiniteSet(S)
  PROVE  /\ Nearest(S, t, 1) \subseteq S /\ (S # {} => Nearest(S, t, 1) # {})
         /\ \A d \in Nearest(S, t, 1), c \in S : c # d => Closer(d, c, t, Group)
<1>1. /\ Nearest(S, t, 1) \subseteq S
      /\ \A c \in S \ Nearest(S, t, 1) :
              /\ \A d \in Nearest(S, t, 1) : Closer(d, c, t, Group)
              /\ Cardinality(Nearest(S, t, 1)) >= 1
  BY NearestOnes
<1>2. ASSUME S # {} PROVE Nearest(S, t, 1) # {}
  BY <1>1, <1>2, FS_EmptySet
<1>3. ASSUME NEW d \in Nearest(S, t, 1), NEW c \in S, c # d
      PROVE  Closer(d, c, t, Group)
  <2> SUFFICES ASSUME Closer(c, d, t, Group) PROVE FALSE
    BY <1>1, <1>3, CloserOrder
  <2>1. Cardinality(Nearer(S, c, t)) < Cardinality(Nearer(S, d, t)) /\ Cardinality(Nearer(S, c, t)) \in Nat
    BY <1>1, NearerGrows, FS_CardinalityType
  <2>2. Cardinality(Nearer(S, d, t)) < 1 /\ Cardinality(Nearer(S, d, t)) \in Nat
    BY <1>1, NearerGrows, FS_CardinalityType DEF Nearest, Nearer
  <2> QED
    BY <2>1, <2>2
<1> QED
  BY <1>1, <1>2, <1>3

-----------------------------------------------------------------------------
(* closest *)

(* What holds of the contacts in the table.                                *)
LEMMA TableFacts ==
  ASSUME TableInv
  PROVE  /\ DOMAIN buckets = 1 .. Len(buckets) /\ Len(buckets) \in Nat \ {0}
         /\ IsFiniteSet(Contacts) /\ Contacts \subseteq NodeIds
         /\ valid \subseteq Contacts /\ Held(buckets) \subseteq Contacts
         /\ \A i \in 1 .. Len(buckets) : /\ buckets[i] \subseteq Held(buckets)
                                         /\ \A c \in buckets[i] : BucketIndex(Len(buckets), c) = i
         /\ \A c \in Held(buckets) : \E i \in 1 .. Len(buckets) : c \in buckets[i]
<1>1. BucketsOK(buckets)
  BY DEF TableInv
<1>2. DOMAIN buckets = 1 .. Len(buckets) /\ Len(buckets) \in Nat \ {0}
  BY <1>1 DEF BucketsOK
<1>3. IsFiniteSet(Contacts) /\ Contacts \subseteq NodeIds
  BY Sizes, RoutingTableAssumption
<1>4. valid \subseteq Contacts /\ Held(buckets) \subseteq Contacts
  BY HeldContacts
<1>5. \A c : c \in Held(buckets) <=> \E i \in 1 .. Len(buckets) : c \in buckets[i]
  BY <1>1, HeldWhere
<1>6. \A i \in 1 .. Len(buckets) : \A c \in buckets[i] : BucketIndex(Len(buckets), c) = i
  BY <1>1 DEF BucketsOK
<1> QED
  BY <1>2, <1>3, <1>4, <1>5, <1>6

(* A bucket offers valid contacts of its own.                              *)
LEMMA OfferedOnes ==
  ASSUME TableInv, NEW t \in NodeIds, NEW n \in Nat, NEW i \in 1 .. Len(buckets)
  PROVE  /\ Offered(i, t, n) \subseteq valid \cap buckets[i]
         /\ IsFiniteSet(valid \cap buckets[i]) /\ valid \cap buckets[i] \in SUBSET NodeIds
<1>1. valid \cap buckets[i] \subseteq Contacts
  BY TableFacts
<1>2. IsFiniteSet(valid \cap buckets[i]) /\ valid \cap buckets[i] \in SUBSET NodeIds
  BY <1>1, TableFacts, FS_Subset
<1> QED
  BY <1>2, NearestOnes DEF Offered

(* What the buckets visited earlier offer.                                 *)
LEMMA EarlierOnes ==
  ASSUME TableInv, NEW t \in NodeIds, NEW n \in Nat, NEW i \in 1 .. Len(buckets)
  PROVE  /\ IsFiniteSet(Earlier(i, t, n)) /\ Cardinality(Earlier(i, t, n)) \in Nat
         /\ \A d : d \in Earlier(i, t, n) <=>
                     \E j \in 1 .. Len(buckets) : VisitedBefore(j, i, t) /\ d \in Offered(j, t, n)
<1>1. \A d : d \in Earlier(i, t, n) <=>
                     \E j \in 1 .. Len(buckets) : VisitedBefore(j, i, t) /\ d \in Offered(j, t, n)
  BY TableFacts DEF Earlier
<1>2. Earlier(i, t, n) \subseteq Contacts
  BY <1>1, OfferedOnes, TableFacts
<1> QED
  BY <1>1, <1>2, TableFacts, FS_Subset, FS_CardinalityType

(* The contacts of T are results, n or more, and none shares a shorter     *)
(* prefix with t than c does.                                              *)
AsGood(T, found, c, t, n) ==
  /\ T \subseteq found /\ IsFiniteSet(T) /\ Cardinality(T) >= n
  /\ \A d \in T : SharedPrefixLen(t, d, Group) >= SharedPrefixLen(t, c, Group)

(* FlatRoutingTable::closest stops when it has enough, and what it has not *)
(* visited by then is no better.                                           *)
LEMMA ClosestOfBuckets ==
  ASSUME TableInv, LevelsOK(buckets), NEW t \in NodeIds, NEW n \in Nat \ {0}
  PROVE  /\ ClosestInBuckets(t, n) \subseteq valid \cap Held(buckets)
         /\ \A c \in (valid \cap Held(buckets)) \ ClosestInBuckets(t, n) :
              \E T : AsGood(T, ClosestInBuckets(t, n), c, t, n)
<1> DEFINE found == ClosestInBuckets(t, n)
           num == Len(buckets)
<1>1. PICK k \in Nat : num = k * LevelWidth + 1 /\ k * ACC <= BITS
  BY DEF LevelsOK
<1>2. \A d : d \in found <=>
        \E i \in 1 .. num : Cardinality(Earlier(i, t, n)) < n /\ d \in Offered(i, t, n)
  BY TableFacts DEF ClosestInBuckets
<1>3. found \subseteq valid \cap Held(buckets)
  BY <1>2, OfferedOnes, TableFacts
<1> HIDE DEF found
<1>4. ASSUME NEW c \in (valid \cap Held(buckets)) \ found
      PROVE  \E T : AsGood(T, found, c, t, n)
  <2>1. PICK j \in 1 .. num : c \in buckets[j]
    BY TableFacts
  <2>2. BucketIndex(num, c) = j /\ c \in NodeIds /\ c \in valid \cap buckets[j]
    BY <2>1, TableFacts
  <2>3. CASE c \in Offered(j, t, n)
    <3> DEFINE Pre(m) == {i \in 1 .. num : VisitedBefore(i, m, t)}
               J == {m \in 1 .. num : /\ m = j \/ VisitedBefore(m, j, t)
                                      /\ Cardinality(Earlier(m, t, n)) >= n}
    <3>1. j \in J
      BY <2>3, <1>2, EarlierOnes
    <3>2. \A m \in 1 .. num : IsFiniteSet(Pre(m)) /\ Cardinality(Pre(m)) \in Nat
      <4>1. IsFiniteSet(1 .. num)
        BY TableFacts, FS_Interval
      <4> QED
        BY <4>1, FS_Subset, FS_CardinalityType
    <3>3. PICK m \in J : \A i \in J : Cardinality(Pre(m)) <= Cardinality(Pre(i))
      <4> DEFINE N == {Cardinality(Pre(i)) : i \in J}
      <4>1. N \subseteq Nat /\ N # {}
        BY <3>1, <3>2
      <4>2. PICK least \in N : \A x \in N : least <= x
        BY <4>1, Least
      <4> HIDE DEF Pre, J
      <4>3. PICK m \in J : least = Cardinality(Pre(m))
        BY <4>2
      <4> QED
        BY <4>2, <4>3
    <3>4. ASSUME NEW i \in 1 .. num, VisitedBefore(i, m, t)
          PROVE  VisitedBefore(i, j, t) /\ Offered(i, t, n) \subseteq found
      <4>1. VisitedBefore(i, j, t)
        BY <1>1, <3>3, <3>4, VisitStrict
      <4>2. Pre(i) \subseteq Pre(m) /\ i \in Pre(m) /\ i \notin Pre(i)
        BY <1>1, <3>3, <3>4, VisitStrict
      <4>3. Cardinality(Pre(i)) <= Cardinality(Pre(m)) /\ (Cardinality(Pre(i)) = Cardinality(Pre(m)) => Pre(m) = Pre(i))
        BY <4>2, <3>2, <3>3, FS_Subset
      <4>4. ~(Cardinality(Pre(m)) <= Cardinality(Pre(i)))
        <5>1. Cardinality(Pre(i)) \in Nat /\ Cardinality(Pre(m)) \in Nat
          BY <3>2, <3>3
        <5>2. Pre(m) # Pre(i)
          BY <4>2
        <5> HIDE DEF Pre
        <5> QED
          BY <4>3, <5>1, <5>2
      <4>5. i \notin J
        BY <3>3, <4>4
      <4>6. Cardinality(Earlier(i, t, n)) < n
        <5>1. Cardinality(Earlier(i, t, n)) \in Nat
          BY EarlierOnes
        <5> QED
          BY <4>1, <4>5, <5>1
      <4> QED
        BY <4>1, <4>6, <1>2
    <3> DEFINE T == Earlier(m, t, n)
    <3>5. m \in 1 .. num /\ Cardinality(T) >= n /\ IsFiniteSet(T)
      BY <3>3, EarlierOnes
    <3>6. ASSUME NEW d \in T
          PROVE  d \in found /\ SharedPrefixLen(t, d, Group) >= SharedPrefixLen(t, c, Group)
      <4>1. PICK i \in 1 .. num : VisitedBefore(i, m, t) /\ d \in Offered(i, t, n)
        BY <3>5, <3>6, EarlierOnes
      <4>2. d \in buckets[i] /\ d \in found /\ VisitedBefore(i, j, t)
        BY <4>1, <3>4, OfferedOnes
      <4>3. BucketIndex(num, d) = i /\ d \in NodeIds
        BY <4>2, TableFacts
      <4>4. LeadingZeros[XorOf[t][d]] >= LeadingZeros[XorOf[t][c]]
        BY <1>1, <2>2, <4>2, <4>3, VisitOrder
      <4> QED
        BY <4>2, <4>3, <4>4, <2>2, PrefixLen, RoutingTableAssumption
    <3> QED
      BY <3>5, <3>6 DEF AsGood
  <2>4. CASE c \notin Offered(j, t, n)
    <3> DEFINE V == valid \cap buckets[j]
               T == Nearest(V, t, n)
    <3>1. j = num /\ BucketIndex(num, t) = num /\ Offered(j, t, n) = T
      BY <2>2, <2>4 DEF Offered
    <3>2. IsFiniteSet(V) /\ V \in SUBSET NodeIds
      BY OfferedOnes
    <3>3. /\ T \subseteq V
          /\ \A d \in T : Closer(d, c, t, Group)
          /\ Cardinality(T) >= n
      <4>1. c \in V \ T
        BY <2>2, <2>4, <3>1
      <4> HIDE DEF V
      <4> QED
        BY <4>1, <3>2, NearestOnes
    <3>4. Earlier(j, t, n) = {}
      <4>1. LevelOfId(t) = LevelOf(num)
        BY <3>1 DEF LevelOfId
      <4>2. LevelOf(num) = k
        <5>1. num - 1 = k * LevelWidth + 0 /\ LevelWidth \in Nat \ {0}
          <6>1. LevelWidth \in Nat \ {0}
            BY <1>1, <2>1, LevelType
          <6> QED
            BY <6>1, <1>1
        <5>2. (k * LevelWidth + 0) \div LevelWidth = k
          <6>1. 0 \in Nat /\ 0 < LevelWidth
            BY <5>1
          <6> QED
            BY <5>1, <6>1, DivMod
        <5> QED
          BY <5>1, <5>2 DEF LevelOf
      <4>3. ASSUME NEW i \in 1 .. num, VisitedBefore(i, num, t) PROVE FALSE
        <5>1. LevelOf(i) \in 0 .. k /\ (LevelOf(i) = k => i = num)
          BY <1>1, LevelType
        <5> QED
          BY <5>1, <4>1, <4>2, <4>3, VisitCases
      <4> QED
        BY <4>3, <3>1, EarlierOnes
    <3>5. T \subseteq found
      <4>1. Cardinality(Earlier(j, t, n)) < n
        BY <3>4, FS_EmptySet
      <4> HIDE DEF T
      <4> QED
        BY <3>1, <4>1, <1>2
    <3>6. ASSUME NEW d \in T
          PROVE  SharedPrefixLen(t, d, Group) >= SharedPrefixLen(t, c, Group)
      BY <3>2, <3>3, <2>2, CloserOrder
    <3>7. IsFiniteSet(T)
      BY <3>2, <3>3, FS_Subset
    <3> QED
      BY <3>3, <3>5, <3>6, <3>7 DEF AsGood
  <2> QED
    BY <2>3, <2>4
<1> QED
  BY <1>3, <1>4 DEF found

(* UnlimitedULNRoutingTable::closest: neither adding the neighbours nor    *)
(* cutting the result down to n loses a better contact.                    *)
LEMMA ClosestOfAll ==
  ASSUME TableInv, LevelsOK(buckets), NEW t \in NodeIds, NEW n \in Nat \ {0}
  PROVE  /\ Closest(t, n) \subseteq Present \cap valid
         /\ IsFiniteSet(Closest(t, n)) /\ Closest(t, n) \in SUBSET NodeIds
         /\ \A c \in (Present \cap valid) \ Closest(t, n) : \E T : AsGood(T, Closest(t, n), c, t, n)
<1> DEFINE inner == ClosestInBuckets(t, n)
           all == inner \cup (valid \cap un_contacts)
           found == Closest(t, n)
           cut == Nearest(all, t, n)
<1>1. Present = Held(buckets) \cup un_contacts
  BY DEF Present, InBuckets, Held
<1>2. /\ inner \subseteq valid \cap Held(buckets)
      /\ \A c \in (valid \cap Held(buckets)) \ inner : \E T : AsGood(T, inner, c, t, n)
  BY ClosestOfBuckets
<1>3. found \in {all, cut}
  BY DEF Closest
<1> HIDE DEF inner, found
<1>4. all \subseteq Present \cap valid /\ IsFiniteSet(all) /\ all \in SUBSET NodeIds
  <2>1. all \subseteq Present \cap valid
    BY <1>1, <1>2
  <2>2. all \subseteq Contacts
    BY <2>1, TableFacts
  <2> QED
    BY <2>1, <2>2, TableFacts, FS_Subset
<1>5. ASSUME NEW c \in (Present \cap valid) \ all
      PROVE  \E T : AsGood(T, all, c, t, n)
  BY <1>1, <1>2, <1>5 DEF AsGood
<1> HIDE DEF all
<1>6. /\ cut \subseteq all
      /\ \A c \in all \ cut : (\A d \in cut : Closer(d, c, t, Group)) /\ Cardinality(cut) >= n
  BY <1>4, NearestOnes
<1>7. IsFiniteSet(cut)
  BY <1>4, <1>6, FS_Subset
<1> HIDE DEF cut
<1>8. ASSUME NEW e \in all \ cut, NEW c \in NodeIds,
             SharedPrefixLen(t, e, Group) >= SharedPrefixLen(t, c, Group)
      PROVE  AsGood(cut, cut, c, t, n)
  <2>1. ASSUME NEW d \in cut
        PROVE  SharedPrefixLen(t, d, Group) >= SharedPrefixLen(t, c, Group)
    <3>1. d \in NodeIds /\ e \in NodeIds /\ Closer(d, e, t, Group)
      BY <1>4, <1>6
    <3>2. SharedPrefixLen(t, d, Group) >= SharedPrefixLen(t, e, Group)
      BY <3>1, CloserOrder
    <3>3. /\ SharedPrefixLen(t, d, Group) \in Nat /\ SharedPrefixLen(t, e, Group) \in Nat
          /\ SharedPrefixLen(t, c, Group) \in Nat
      BY <3>1, PrefixLen, RoutingTableAssumption
    <3> QED
      BY <3>2, <3>3, <1>8
  <2> QED
    BY <2>1, <1>6, <1>7 DEF AsGood
<1>9. ASSUME NEW c \in (Present \cap valid) \ cut
      PROVE  \E T : AsGood(T, cut, c, t, n)
  <2>1. c \in NodeIds
    BY TableFacts
  <2>2. CASE c \in all
    <3>1. SharedPrefixLen(t, c, Group) >= SharedPrefixLen(t, c, Group)
      BY <2>1, PrefixLen, RoutingTableAssumption
    <3> QED
      BY <3>1, <2>1, <2>2, <1>8, <1>9
  <2>3. CASE c \notin all
    <3>1. PICK T : AsGood(T, all, c, t, n)
      BY <2>3, <1>5, <1>9
    <3>2. CASE T \subseteq cut
      BY <3>1, <3>2 DEF AsGood
    <3>3. CASE ~(T \subseteq cut)
      <4>1. PICK e \in T : e \notin cut
        BY <3>3
      <4>2. e \in all /\ SharedPrefixLen(t, e, Group) >= SharedPrefixLen(t, c, Group)
        BY <3>1 DEF AsGood
      <4> QED
        BY <4>1, <4>2, <2>1, <1>8
    <3> QED
      BY <3>2, <3>3
  <2> QED
    BY <2>2, <2>3
<1>10. CASE found = all
  BY <1>4, <1>5, <1>10 DEF found
<1>11. CASE found = cut
  BY <1>4, <1>6, <1>7, <1>9, <1>11 DEF found
<1> QED
  BY <1>3, <1>10, <1>11

(* closest keeps its promise in every table of whole levels.               *)
LEMMA ClosestHolds ==
  ASSUME TableInv, LevelsOK(buckets)
  PROVE  ClosestByPrefix
<1> SUFFICES ASSUME NEW t \in NodeIds, NEW n \in 1 .. BUCKET_SIZE + 1
             PROVE  /\ Closest(t, n) \subseteq Present \cap valid
                    /\ \A c \in (Present \cap valid) \ Closest(t, n) :
                         Cardinality({d \in Closest(t, n) : SharedPrefixLen(t, d, Group)
                                          >= SharedPrefixLen(t, c, Group)}) >= n
  BY DEF ClosestByPrefix
<1>1. n \in Nat \ {0}
  BY RoutingTableAssumption
<1> DEFINE found == Closest(t, n)
<1>2. /\ found \subseteq Present \cap valid /\ IsFiniteSet(found)
      /\ \A c \in (Present \cap valid) \ found : \E T : AsGood(T, found, c, t, n)
  BY <1>1, ClosestOfAll
<1> HIDE DEF found
<1>3. ASSUME NEW c \in (Present \cap valid) \ found
      PROVE  Cardinality({d \in found : SharedPrefixLen(t, d, Group)
                                          >= SharedPrefixLen(t, c, Group)}) >= n
  <2> DEFINE D == {d \in found : SharedPrefixLen(t, d, Group) >= SharedPrefixLen(t, c, Group)}
  <2>1. PICK T : AsGood(T, found, c, t, n)
    BY <1>2, <1>3
  <2>2. IsFiniteSet(D) /\ Cardinality(D) \in Nat
    BY <1>2, FS_Subset, FS_CardinalityType
  <2>3. T \subseteq D /\ Cardinality(T) >= n /\ IsFiniteSet(T)
    BY <2>1 DEF AsGood
  <2> HIDE DEF D
  <2>4. Cardinality(T) <= Cardinality(D) /\ Cardinality(T) \in Nat
    BY <2>2, <2>3, FS_Subset, FS_CardinalityType
  <2>5. Cardinality(D) >= n
    BY <2>2, <2>3, <2>4, <1>1
  <2> QED
    BY <2>5 DEF D
<1> QED
  BY <1>2, <1>3 DEF found

(* next_hop.                                                               *)
LEMMA NextHopHolds ==
  ASSUME TableInv, LevelsOK(buckets)
  PROVE  NextHopProgress
<1> SUFFICES ASSUME NEW t \in NodeIds
             PROVE  /\ \A c \in NextHop(t) : Closer(c, Root, t, Group)
                    /\ \A c \in Present \cap valid :
                         SharedPrefixLen(t, c, Group) > SharedPrefixLen(t, Root, Group)
                           => \E d \in NextHop(t) : SharedPrefixLen(t, d, Group)
                                                      >= SharedPrefixLen(t, c, Group)
  BY DEF NextHopProgress
<1> DEFINE found == Closest(t, 1)
           nearest == Nearest(found, t, 1)
           Shared(c) == SharedPrefixLen(t, c, Group)
           best == {c \in found : \A d \in nearest : Shared(c) = Shared(d)}
           short == {c \in best : \A d \in best : size[c] <= size[d]}
<1>1. /\ found \subseteq Present \cap valid /\ IsFiniteSet(found) /\ found \in SUBSET NodeIds
      /\ \A c \in (Present \cap valid) \ found : \E T : AsGood(T, found, c, t, 1)
  BY ClosestOfAll
<1>2. Root \in NodeIds /\ Root \notin found /\ Present \cap valid \subseteq NodeIds
  BY <1>1, TableFacts, RoutingTableAssumption
<1>3. NextHop(t) = IF \A c \in nearest : Closer(Root, c, t, Group) THEN {}
                   ELSE IF \E c \in nearest : Shared(c) = Shared(Root) THEN nearest
                   ELSE Nearest(short, t, 1)
  BY DEF NextHop, HopAmong
<1> HIDE DEF found
<1>4. /\ nearest \subseteq found /\ (found # {} => nearest # {})
      /\ \A d \in nearest, c \in found : c # d => Closer(d, c, t, Group)
  BY <1>1, NearestOne
<1>5. \A a \in NodeIds : Shared(a) \in Nat
  BY PrefixLen, RoutingTableAssumption
<1>6. \A a, b \in NodeIds : /\ Closer(a, b, t, Group) => Shared(a) >= Shared(b)
                            /\ Shared(a) > Shared(b) => Closer(a, b, t, Group)
                            /\ a # b => Closer(a, b, t, Group) \/ Closer(b, a, t, Group)
  BY <1>5, CloserOrder DEF Closer
<1>7. IsFiniteSet(short) /\ short \in SUBSET NodeIds /\ short \subseteq best
  BY <1>1, FS_Subset
<1>8. Nearest(short, t, 1) \subseteq short /\ (short # {} => Nearest(short, t, 1) # {})
  BY <1>7, NearestOne
<1>9. ASSUME nearest # {} PROVE short # {}
  <2>1. PICK d \in nearest : d \in found
    BY <1>4, <1>9
  <2>2. d \in best
    <3>1. \A c \in nearest : c = d
      <4>1. ASSUME NEW c \in nearest, c # d PROVE FALSE
        <5>1. Closer(d, c, t, Group) /\ Closer(c, d, t, Group) /\ c \in NodeIds /\ d \in NodeIds
          BY <1>1, <1>4, <2>1, <4>1
        <5> QED
          BY <5>1, CloserOrder
      <4> QED
        BY <4>1
    <3> HIDE DEF nearest
    <3> QED
      BY <2>1, <3>1
  <2> DEFINE N == {size[c] : c \in best}
  <2>3. best \subseteq Contacts
    BY <1>1, TableFacts
  <2>4. N \subseteq Nat /\ N # {}
    <3>1. \A c \in Contacts : size[c] \in Nat
      BY RoutingTableAssumption DEF TableInv
    <3> HIDE DEF best
    <3> QED
      BY <2>2, <2>3, <3>1
  <2>5. PICK least \in N : \A x \in N : least <= x
    BY <2>4, Least
  <2> HIDE DEF best
  <2>6. PICK c \in best : size[c] = least
    BY <2>5
  <2>7. \A e \in best : size[c] <= size[e]
    BY <2>5, <2>6
  <2> QED
    BY <2>6, <2>7
<1>0. \A c \in best : \A d \in nearest : Shared(c) = Shared(d)
  BY DEF best
<1> HIDE DEF nearest, best, short, Shared
<1>10. ASSUME ~(\A c \in nearest : Closer(Root, c, t, Group)), ~(\E c \in nearest : Shared(c) = Shared(Root))
       PROVE  \A c \in Nearest(short, t, 1) : Shared(c) > Shared(Root)
  <2>1. PICK d \in nearest : ~Closer(Root, d, t, Group)
    BY <1>10
  <2>2. d \in NodeIds /\ d # Root /\ Shared(d) # Shared(Root)
    BY <1>1, <1>2, <1>4, <1>10
  <2>3. Shared(d) > Shared(Root)
    BY <2>1, <2>2, <1>2, <1>5, <1>6
  <2>4. ASSUME NEW c \in Nearest(short, t, 1) PROVE Shared(c) = Shared(d)
    BY <1>7, <1>8, <1>0
  <2> QED
    BY <2>3, <2>4
<1>11. ASSUME NEW c \in NextHop(t) PROVE Closer(c, Root, t, Group)
  <2>1. CASE \A d \in nearest : Closer(Root, d, t, Group)
    BY <2>1, <1>3, <1>11
  <2>2. CASE /\ ~(\A d \in nearest : Closer(Root, d, t, Group))
             /\ \E d \in nearest : Shared(d) = Shared(Root)
    <3>1. c \in nearest
      BY <2>2, <1>3, <1>11
    <3>2. PICK d \in nearest : ~Closer(Root, d, t, Group)
      BY <2>2
    <3>3. d = c
      <4>1. ASSUME c # d PROVE FALSE
        <5>1. Closer(d, c, t, Group) /\ Closer(c, d, t, Group) /\ c \in NodeIds /\ d \in NodeIds
          BY <1>1, <1>4, <3>1, <3>2, <4>1
        <5> QED
          BY <5>1, CloserOrder
      <4> QED
        BY <4>1
    <3>4. c \in NodeIds /\ c # Root
      BY <1>1, <1>2, <1>4, <3>1
    <3> QED
      BY <3>2, <3>3, <3>4, <1>2, <1>6
  <2>3. CASE /\ ~(\A d \in nearest : Closer(Root, d, t, Group))
             /\ ~(\E d \in nearest : Shared(d) = Shared(Root))
    <3>1. c \in Nearest(short, t, 1)
      BY <2>3, <1>3, <1>11
    <3>2. Shared(c) > Shared(Root) /\ c \in NodeIds
      BY <3>1, <2>3, <1>7, <1>8, <1>10
    <3> QED
      BY <3>2, <1>2, <1>6
  <2> QED
    BY <2>1, <2>2, <2>3
<1>12. ASSUME NEW c \in Present \cap valid, Shared(c) > Shared(Root)
       PROVE  \E d \in NextHop(t) : Shared(d) >= Shared(c)
  <2>1. c \in NodeIds
    BY <1>2
  <2>2. PICK e \in found : Shared(e) >= Shared(c)
    <3>1. CASE c \in found
      BY <3>1, <2>1, <1>5
    <3>2. CASE c \notin found
      <4>1. PICK T : AsGood(T, found, c, t, 1)
        BY <3>2, <1>1
      <4>2. T # {} /\ T \subseteq found /\ \A d \in T : Shared(d) >= Shared(c)
        BY <4>1, FS_EmptySet DEF AsGood, Shared
      <4> QED
        BY <4>2
    <3> QED
      BY <3>1, <3>2
  <2>3. PICK d \in nearest : d \in found
    BY <2>2, <1>4
  <2>4. d \in NodeIds /\ e \in NodeIds
    BY <1>1, <2>2, <2>3
  <2>5. Shared(d) >= Shared(e)
    BY <2>2, <2>3, <2>4, <1>4, <1>5, <1>6
  <2>6. Shared(d) >= Shared(c) /\ Shared(d) > Shared(Root)
    BY <2>1, <2>2, <2>4, <2>5, <1>2, <1>5, <1>12
  <2>7. ~Closer(Root, d, t, Group)
    BY <2>4, <2>6, <1>2, <1>5, <1>6
  <2>8. ASSUME NEW x \in nearest PROVE Shared(x) # Shared(Root)
    <3>1. x \in NodeIds
      BY <1>1, <1>4
    <3>2. x = d \/ Closer(x, d, t, Group)
      BY <1>4, <2>3
    <3> QED
      BY <3>1, <3>2, <2>4, <2>6, <1>2, <1>5, <1>6
  <2>9. NextHop(t) = Nearest(short, t, 1)
    BY <1>3, <2>7, <2>8
  <2>10. PICK x \in Nearest(short, t, 1) : x \in short
    BY <1>8, <1>9, <2>3
  <2>11. Shared(x) = Shared(d)
    BY <2>10, <2>3, <1>7, <1>0
  <2> QED
    BY <2>6, <2>9, <2>11
<1> QED
  BY <1>11, <1>12 DEF Shared

-----------------------------------------------------------------------------
(* The levels of the table *)

(* insert splits no level that is cut off by the end of the ids: the last  *)
(* bucket was split only while there were fewer than max_buckets.          *)
LEMMA MakeRoomLevels ==
  ASSUME NEW bs, BucketsOK(bs), LevelsOK(bs), NEW c, NEW new \in MakeRoom(bs, c)
  PROVE  LevelsOK(new)
<1> DEFINE Done(n) == HasRoom(SplitBucket(bs, n), c) \/ ~Splittable(SplitBucket(bs, n), c)
           most == BITS \div ACC
<1>1. PICK n \in 0 .. MaxBuckets : /\ new = SplitBucket(bs, n)
                                   /\ \A m \in 0 .. n - 1 : ~Done(m)
  BY Zenon DEF MakeRoom
<1>2. PICK k \in Nat : Len(bs) = k * LevelWidth + 1 /\ k * ACC <= BITS
  BY DEF LevelsOK
<1>3. /\ LevelWidth \in Nat \ {0} /\ ACC \in Nat \ {0} /\ BITS \in Nat
      /\ most \in Nat /\ most * ACC <= BITS
  <2>1. ACC \in Nat \ {0} /\ BITS \in Nat /\ 2^ACC > 1 /\ 2^ACC \in Nat
    BY RoutingTableAssumption, NodeIdAssumption, Sizes
  <2>2. most \in Nat /\ ACC * most <= BITS
    BY <2>1, DivBounds
  <2> HIDE DEF most
  <2> QED
    BY <2>1, <2>2 DEF LevelWidth
<1> HIDE DEF most
<1>4. ASSUME NEW m \in Nat
      PROVE  Len(SplitBucket(bs, m)) = (k + m) * LevelWidth + 1
  <2>1. Len(SplitBucket(bs, m)) = Len(bs) + m * LevelWidth
    <3> DEFINE num == Len(bs) + m * LevelWidth
    <3>1. num \in Nat
      BY <1>3, Products DEF BucketsOK
    <3> HIDE DEF num
    <3>2. SplitBucket(bs, m) = [i \in 1 .. num |-> IF i < Len(bs) THEN bs[i]
                                  ELSE {d \in Last(bs) : BucketIndex(num, d) = i}]
      BY DEF SplitBucket, num
    <3> QED
      BY <3>1, <3>2 DEF num
  <2> QED
    BY <2>1, <1>2, <1>3
<1>5. n \in Nat /\ k + n \in Nat /\ Len(new) = (k + n) * LevelWidth + 1
  BY <1>1, <1>4
<1>6. (k + n) * ACC <= BITS
  <2>1. CASE n = 0
    BY <2>1, <1>2
  <2>2. CASE n # 0
    <3> DEFINE before == SplitBucket(bs, n - 1)
    <3>1. n - 1 \in 0 .. n - 1 /\ n - 1 \in Nat
      BY <2>2, <1>5
    <3>2. Splittable(before, c)
      BY <1>1, <3>1
    <3>3. Len(before) < most * LevelWidth
      BY <3>2 DEF Splittable, MaxBuckets, most
    <3>4. Len(before) = (k + (n - 1)) * LevelWidth + 1
      BY <3>1, <1>4
    <3>5. k + (n - 1) < most
      <4>1. ASSUME most <= k + (n - 1) PROVE FALSE
        <5>1. most * LevelWidth <= (k + (n - 1)) * LevelWidth
          BY <4>1, <3>1, <1>3, Products
        <5> QED
          BY <5>1, <3>1, <3>3, <3>4, <1>3, Products
      <4> QED
        BY <4>1, <3>1, <1>3
    <3>6. k + n <= most
      BY <3>5, <1>3, <1>5
    <3>7. (k + n) * ACC <= most * ACC /\ (k + n) * ACC \in Nat /\ most * ACC \in Nat
      BY <3>6, <1>3, <1>5, Products
    <3> QED
      BY <3>7, <1>3
  <2> QED
    BY <2>1, <2>2
<1> QED
  BY <1>5, <1>6 DEF LevelsOK

(* Adding and removing a contact leaves the buckets as many as they are.   *)
LEMMA SameLevels ==
  ASSUME NEW bs, BucketsOK(bs), LevelsOK(bs), NEW c
  PROVE  LevelsOK(AddTo(bs, c)) /\ LevelsOK(RemoveFrom(bs, c))
<1>1. bs \in Seq(SUBSET Contacts)
  BY DEF BucketsOK
<1>2. ASSUME NEW i, NEW S
      PROVE  Len([bs EXCEPT ![i] = S]) = Len(bs)
  BY <1>1
<1>3. Len(AddTo(bs, c)) = Len(bs) /\ Len(RemoveFrom(bs, c)) = Len(bs)
  BY <1>2 DEF AddTo, RemoveFrom
<1> QED
  BY <1>3 DEF LevelsOK

(* Every operation on the table keeps its levels whole.                    *)
LEMMA TableNextLevels ==
  ASSUME TableInv, LevelsOK(buckets), TableNext
  PROVE  LevelsOK(buckets')
<1>1. PICK c \in Contacts :
        \/ InsertNeighbor(c) \/ UpdateReported(c) \/ RefuseContact(c)
        \/ SetInvalid(c) \/ RemoveContact(c)
        \/ \E s \in PathSizes : UpdateExisting(c, s) \/ InsertContact(c, s)
  BY DEF TableNext
<1>2. BucketsOK(buckets)
  BY DEF TableInv
<1>3. CASE UNCHANGED buckets
  BY <1>3
<1>4. CASE buckets' = RemoveFrom(buckets, c)
  BY <1>2, <1>4, SameLevels
<1>5. ASSUME NEW s \in PathSizes, InsertContact(c, s)
      PROVE  LevelsOK(buckets')
  <2>1. PICK bs \in MakeRoom(buckets, c) :
          \/ buckets' = AddTo(bs, c)
          \/ \E w \in Replaceable(bs, c, s) : buckets' = AddTo(RemoveFrom(bs, w), c)
          \/ buckets' = bs
    BY <1>5, Zenon DEF InsertContact
  <2>2. BucketsOK(bs) /\ LevelsOK(bs)
    BY <1>2, MakeRoomOK, MakeRoomLevels
  <2>3. ASSUME NEW w \in Replaceable(bs, c, s), buckets' = AddTo(RemoveFrom(bs, w), c)
        PROVE  LevelsOK(buckets')
    <3>1. BucketIndex(Len(bs), c) \in 1 .. Len(bs) /\ w \in BucketOf(bs, c)
      BY <2>2, IndexRange DEF BucketsOK, Replaceable
    <3>2. w \in Contacts
      BY <2>2, <3>1, BucketFinite DEF BucketOf
    <3>3. BucketsOK(RemoveFrom(bs, w)) /\ LevelsOK(RemoveFrom(bs, w))
      BY <2>2, <3>2, RemoveOK, SameLevels
    <3> QED
      BY <2>3, <3>3, SameLevels
  <2> QED
    BY <2>1, <2>2, <2>3, SameLevels
<1>6. CASE UpdateReported(c) \/ RefuseContact(c) \/ SetInvalid(c)
             \/ \E s \in PathSizes : UpdateExisting(c, s)
  BY <1>3, <1>6 DEF UpdateReported, RefuseContact, SetInvalid, UpdateExisting
<1>7. CASE InsertNeighbor(c) \/ RemoveContact(c)
  BY <1>3, <1>4, <1>7 DEF InsertNeighbor, RemoveContact
<1> QED
  BY <1>1, <1>5, <1>6, <1>7

(* The buckets are always whole levels and a last bucket, and there are    *)
(* never more levels than an id has digits of ACC bits, however often      *)
(* split_bucket has been called.                                           *)
THEOREM LevelsInvariant == Spec => []LevelsOK(buckets)
<1>1. Init => LevelsOK(buckets)
  <2> SUFFICES ASSUME Init PROVE LevelsOK(buckets)
    OBVIOUS
  <2>1. Len(buckets) = 1
    BY DEF Init, TableInit
  <2>2. Len(buckets) = 0 * LevelWidth + 1 /\ 0 * ACC <= BITS
    BY <2>1, Sizes
  <2> QED
    BY <2>2 DEF LevelsOK
<1>2. TableInv /\ LevelsOK(buckets) /\ [Next]_vars => LevelsOK(buckets)'
  <2> SUFFICES ASSUME TableInv, LevelsOK(buckets), [Next]_vars PROVE LevelsOK(buckets')
    OBVIOUS
  <2>1. CASE TableNext
    BY <2>1, TableNextLevels
  <2>2. CASE ContactNew \/ ContactRemoved \/ BucketChanged \/ ContactInvalidated
               \/ ContactValidated \/ PathChanged \/ ContactDisplaced
    BY <2>2, HandlersLeaveTable DEF table
  <2>3. CASE UNCHANGED vars
    BY <2>3 DEF vars, table
  <2> QED
    BY <2>1, <2>2, <2>3 DEF Next
<1> QED
  BY <1>1, <1>2, TableInvariant, PTL DEF Spec

(* The promise of closest: of the valid contacts none is left out that     *)
(* shares a longer prefix with the target than one of the best n that are  *)
(* returned, although the visit of the buckets stops as soon as n contacts *)
(* are found and the neighbours are put in afterwards.                     *)
THEOREM ClosestAlwaysByPrefix == Spec => []ClosestByPrefix
<1>1. TableInv /\ LevelsOK(buckets) => ClosestByPrefix
  BY ClosestHolds
<1> QED
  BY <1>1, TableInvariant, LevelsInvariant, PTL

(* Greedy routing makes progress: next_hop returns a contact closer to the *)
(* target than the node itself, and never misses one that shares a longer  *)
(* prefix with the target than the node does.                              *)
THEOREM NextHopAlwaysProgresses == Spec => []NextHopProgress
<1>1. TableInv /\ LevelsOK(buckets) => NextHopProgress
  BY NextHopHolds
<1> QED
  BY <1>1, TableInvariant, LevelsInvariant, PTL

=============================================================================
