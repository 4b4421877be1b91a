----------------------------- MODULE MachineWord ------------------------------
(* The words of the filter machine: unsigned, WordBits bits wide (32 in the    *)
(* code), with the arithmetic of Rust's wrapping operations on u32.            *)
EXTENDS Integers

CONSTANT WordBits

(* Wide enough for the length of an IPv4 header in bytes, 60 at most.          *)
ASSUME WordAssumption == WordBits \in Nat /\ WordBits >= 6

PowerOfTwo[n \in Nat] == IF n = 0 THEN 1 ELSE 2 * PowerOfTwo[n - 1]

Modulus == PowerOfTwo[WordBits]
Word == 0 .. Modulus - 1

(* A word as the set of its bits that are 1, and back from the highest bit on. *)
Bits(v) == {i \in 0 .. WordBits - 1 : (v \div PowerOfTwo[i]) % 2 = 1}

FromBits(s) ==
  LET top[n \in Nat] ==
        IF n = 0 THEN 0 ELSE 2 * top[n - 1] + (IF WordBits - n \in s THEN 1 ELSE 0)
  IN  top[WordBits]

BitAnd(v, w) == FromBits(Bits(v) \cap Bits(w))
BitOr(v, w) == FromBits(Bits(v) \cup Bits(w))
BitXor(v, w) == FromBits((Bits(v) \cup Bits(w)) \ (Bits(v) \cap Bits(w)))

(* A shift by the word's width or more uses the count modulo the width.        *)
ShiftLeft(v, n) == (v * PowerOfTwo[n % WordBits]) % Modulus
ShiftRight(v, n) == v \div PowerOfTwo[n % WordBits]
================================================================================
