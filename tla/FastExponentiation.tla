------------------------- MODULE FastExponentiation -------------------------
(***************************************************************************)
(* The square-and-multiply loop of fast_exponentiation                     *)
(* (hyper_ast/src/hashed.rs), on any base and exponent a u32 can hold.     *)
(* A step is an iteration, or one of the early answers.                    *)
(***************************************************************************)
EXTENDS NodeHash

CONSTANT Exponents    \* bound: the exponents (sizes of subtrees) tried

ASSUME ExponentsAssumption == Exponents \subseteq Nat

VARIABLES
  base0, exponent0,        \* the arguments
  base, exponent, result,  \* the locals
  answer                   \* the value returned, or NoAnswer

loopVars == <<base0, exponent0, base, exponent, result, answer>>

NoAnswer == Word

LoopInit ==
  /\ base0 \in 0..(Word - 1)
  /\ exponent0 \in Exponents
  /\ base = base0
  /\ exponent = exponent0
  /\ result = 1
  /\ answer = NoAnswer

\* mutant: the base is the early answer for 0 too
EarlyBase ==
  /\ answer = NoAnswer
  /\ exponent0 \in {0, 1}
  /\ answer' = base0
  /\ UNCHANGED <<base0, exponent0, base, exponent, result>>

Early ==
  /\ answer = NoAnswer
  /\ exponent0 \in {0, 1}
  /\ answer' = IF exponent0 = 0 THEN 1 ELSE base0
  /\ UNCHANGED <<base0, exponent0, base, exponent, result>>

\* mutant: stopped one short of 0
IterateToOne ==
  /\ exponent0 \notin {0, 1}
  /\ exponent > 1
  /\ result' = IF exponent % 2 # 0 THEN WrappingMul(result, base) ELSE result
  /\ exponent' = exponent \div 2
  /\ base' = WrappingMul(base, base)
  /\ UNCHANGED <<base0, exponent0, answer>>

Iterate ==
  /\ exponent0 \notin {0, 1}
  /\ exponent > 0
  /\ result' = IF exponent % 2 # 0 THEN WrappingMul(result, base) ELSE result
  /\ exponent' = exponent \div 2
  /\ base' = WrappingMul(base, base)
  /\ UNCHANGED <<base0, exponent0, answer>>

Return ==
  /\ answer = NoAnswer
  /\ exponent0 \notin {0, 1}
  /\ exponent = 0
  /\ answer' = result
  /\ UNCHANGED <<base0, exponent0, base, exponent, result>>

LoopNext == Early \/ Iterate \/ Return

LoopSpec == LoopInit /\ [][LoopNext]_loopVars /\ WF_loopVars(LoopNext)
-----------------------------------------------------------------------------
\* b^e, modulo Word, by its definition
Power(b, e) ==
  LET p[k \in 0..e] == IF k = 0 THEN 1 ELSE WrappingMul(b, p[k - 1])
  IN  p[e]

(* The answer is the power modulo 2^32, at the boundaries 0 and 1 too, and *)
(* is what HashFactor takes for it.                                        *)
AnswerIsPower ==
  answer # NoAnswer =>
    /\ answer = Power(base0, exponent0)
    /\ answer = FastExponentiation(base0, exponent0)

(* The loop ends.                                                          *)
Answers == <>(answer # NoAnswer)
=============================================================================
