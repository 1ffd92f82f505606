------------------------------- MODULE NodeId -------------------------------
(***************************************************************************)
(* Node ids: numbers of BITS bits (112 in the program), compared bit by    *)
(* bit from the most significant one.                                      *)
(***************************************************************************)
EXTENDS Naturals, FiniteSets

CONSTANTS BITS,
          XorOf \* [NodeIds -> [NodeIds -> NodeIds]]: the bitwise exclusive or

NodeIds == 0 .. 2^BITS - 1

(* What the provers do not know of the powers of two, and the laws of the  *)
(* exclusive or: ids are a group in which every id is its own inverse, and *)
(* shifting bits out on the right commutes with it.                        *)
ASSUME NodeIdAssumption ==
  /\ BITS \in Nat \ {0}
  /\ \A k \in 0 .. BITS : 2^k \in Nat \ {0} /\ (k > 0 => 2^k > 1)
  /\ \A j \in 0 .. BITS : \A k \in 0 .. BITS - j : 2^(j + k) = 2^j * 2^k
  /\ XorOf \in [NodeIds -> [NodeIds -> NodeIds]]

ASSUME XorAssumption ==
  /\ \A a \in NodeIds : XorOf[0][a] = a /\ XorOf[a][a] = 0
  /\ \A a, b \in NodeIds : XorOf[a][b] = XorOf[b][a]
  /\ \A a, b, c \in NodeIds : XorOf[XorOf[a][b]][c] = XorOf[a][XorOf[b][c]]
  /\ \A a, b \in NodeIds, k \in 0 .. BITS :
       XorOf[a][b] \div 2^k = XorOf[a \div 2^k][b \div 2^k]

(* NodeId::bits: num bits from the position from on, counted from the LSB. *)
Bits(id, from, num) == (id \div 2^from) % 2^num

LeadingZeros == [id \in NodeIds |-> Cardinality({z \in 1 .. BITS : id < 2^(BITS - z)})]

(* NodeId::shared_prefix_len, in groups of bits.                           *)
SharedPrefixLen(a, b, group) == LeadingZeros[XorOf[a][b]] \div group

(* SharedPrefix::cmp, for the prefixes that a and b share with target: a   *)
(* longer prefix is closer, the xor breaks ties.                           *)
Closer(a, b, target, group) ==
  LET la == SharedPrefixLen(target, a, group)
      lb == SharedPrefixLen(target, b, group)
  IN  la > lb \/ (la = lb /\ XorOf[target][a] < XorOf[target][b])
=============================================================================
