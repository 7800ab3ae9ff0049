------------------------------ MODULE NodeHash ------------------------------
(***************************************************************************)
(* The numbers of the syntax hashes: hyper_ast/src/hashed.rs and           *)
(* clamp_u64_to_u32 of utils.rs.  Words are u32 in the code; their number  *)
(* is a constant so that TLC can compute with small ones.                  *)
(***************************************************************************)
EXTENDS Naturals

CONSTANT Word       \* 2^32: wrapping operations are modulo Word

ASSUME WordAssumption == Word \in Nat \ {0, 1}

WrappingAdd(a, b) == (a + b) % Word
WrappingMul(a, b) == (a * b) % Word

\* (((x & 0xffff0000) >> 32) as u32) ^ ((x & 0xffff) as u32): the first
\* operand is a 32 bit mask shifted by 32, hence 0.
Clamped(x) == x % 65536

Enter == 125296503  \* the const ENTER: 31-ary digits of "enter" after a 1
Leave == 131475286  \* the const LEAVE

\* left and right of inner_node_hash, computed without wrapping
Mixed(kind, label, end) == 31 * (31 * (31 + kind) + label) + end

Base == 33

\* The loop of fast_exponentiation, for its own two early answers as well.
FastExponentiation(base, exponent) ==
  LET power[e \in 0..exponent] ==
        [b \in 0..(Word - 1) |->
           IF e = 0 THEN 1 % Word
           ELSE WrappingMul(IF e % 2 = 1 THEN b ELSE 1,
                            power[e \div 2][WrappingMul(b, b)])]
  IN  power[exponent][base % Word]

HashFactor(size) == FastExponentiation(Base, size)

InnerNodeHash(kind, label, size, middle) ==
  WrappingAdd(WrappingAdd(Mixed(kind, label, Enter) % Word, middle),
              WrappingMul(Mixed(kind, label, Leave) % Word, HashFactor(size)))
=============================================================================
