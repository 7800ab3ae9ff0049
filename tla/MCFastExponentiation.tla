------------------------ MODULE MCFastExponentiation ------------------------
(* Every base of a small word, and exponents up to the word.               *)
EXTENDS FastExponentiation

CONSTANT MaxExponent

MCExponents == 0..MaxExponent
=============================================================================
