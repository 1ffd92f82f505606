----------------------- MODULE DeterministicHeuristic -----------------------
(***************************************************************************)
(* Which of two underlay neighbours answers the other one's ULNHello       *)
(* (deterministic_heuristic).  The code takes the low calculation_bits     *)
(* bits of both node ids as u128 values, subtracts them with wrapping u128 *)
(* arithmetic and compares the difference with 0x80000000.                 *)
(***************************************************************************)
EXTENDS Integers

CONSTANTS CalcMod,   \* 2^heuristic_calculation_bits, 2^32 by default
          HalfRange, \* 0x80000000
          WordMod    \* 2^128, the modulus of u128::wrapping_sub

ASSUME HeuristicAssumption ==
         /\ CalcMod \in Nat \ {0} /\ HalfRange \in Nat \ {0} /\ WordMod \in Nat
         /\ CalcMod <= WordMod
         /\ 2 * HalfRange <= WordMod

(* NodeId::bits(0, num_bits): the low bits of the id.                      *)
Bits(id) == id % CalcMod

(* wrapping_sub of two u128 values.                                        *)
WrappingSub(x, y) == IF x >= y THEN x - y ELSE x - y + WordMod

(* Whether the node with id self answers a ULNHello of the node other.     *)
AnswersHello(self, other) ==
  LET delta == WrappingSub(Bits(other), Bits(self))
  IN  \/ delta < HalfRange /\ delta # 0
      \/ (delta = 0 \/ delta = HalfRange) /\ self < other

=============================================================================
