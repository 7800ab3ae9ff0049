---------------------------- MODULE TreeGenProofs ----------------------------
(***************************************************************************)
(* Proofs about TreeGen, for every set of files that tree-sitter may have  *)
(* parsed, in any order and number, over any formats and hashes.  The      *)
(* inductive invariant (Inv) says of the store that every entity and every *)
(* entry of md_cache has the metrics of what it stands for (Stores), of    *)
(* the results that they do and read back (ResultsRight), and of the       *)
(* traversal in progress that the stack holds the accumulators of a path   *)
(* from the root to the cursor (Walk), each of which spells what is kept   *)
(* of the text from where its node begins to the gap before the next       *)
(* (TextTo).  From it follow TypeOK, MetricsFaithful, RoundTrip, NoPanic.  *)
(* A second one (Readings) says of every file generated, and of what is    *)
(* read so far of the one in progress, which entity each of its nodes      *)
(* became and where that is among the children of its parent's entity;     *)
(* and that no content is stored twice.  From it follows SameRootSameFile. *)
(***************************************************************************)
EXTENDS TreeGen, Induction, SequenceTheorems
-----------------------------------------------------------------------------
(* Sequences of anything.                                                  *)
IsList(s) == s \in Seq(Range(s))

\* A list has a length, and is defined up to it.
LEMMA Lists ==
  ASSUME NEW s, IsList(s)
  PROVE  Len(s) \in Nat /\ DOMAIN s = 1..Len(s)
BY LenProperties DEF IsList

\* A sequence of anything is a list.
LEMMA ListOfType ==
  ASSUME NEW S, NEW s \in Seq(S)
  PROVE  IsList(s)
<1>1. Len(s) \in Nat /\ DOMAIN s = 1..Len(s) /\ s \in [1..Len(s) -> S]
  BY LenProperties
<1>2. \A i \in 1..Len(s) : s[i] \in Range(s)
  BY <1>1 DEF Range
<1>3. s \in [1..Len(s) -> Range(s)]
  BY <1>1, <1>2
<1>4. QED  BY <1>1, <1>3, SeqDef DEF IsList

\* What Append makes of a list.
LEMMA ListAppends ==
  ASSUME NEW s, IsList(s), NEW x
  PROVE  /\ IsList(Append(s, x)) /\ Len(Append(s, x)) = Len(s) + 1
         /\ DOMAIN Append(s, x) = 1..(Len(s) + 1)
         /\ \A i \in DOMAIN s : Append(s, x)[i] = s[i]
         /\ Append(s, x)[Len(s) + 1] = x
<1> DEFINE S == Range(s) \cup {x}
<1>1. s \in Seq(S)
  BY SeqMonotonic DEF IsList
<1> HIDE DEF S
<1>2. x \in S
  BY DEF S
<1>3. /\ Append(s, x) \in Seq(S) /\ Len(Append(s, x)) = Len(s) + 1
      /\ \A i \in 1..Len(s) : Append(s, x)[i] = s[i]
      /\ Append(s, x)[Len(s) + 1] = x
  BY <1>1, <1>2, AppendProperties
<1>4. DOMAIN Append(s, x) = 1..Len(Append(s, x)) /\ DOMAIN s = 1..Len(s)
  BY <1>1, <1>3, LenProperties
<1>5. QED  BY <1>3, <1>4, ListOfType

(* The stack without its last two, and one or two more.                    *)
LEMMA ListOfOne ==
  ASSUME NEW x
  PROVE  IsList(<<x>>) /\ Len(<<x>>) = 1 /\ DOMAIN <<x>> = 1..1 /\ <<x>>[1] = x
<1>1. <<x>> \in Seq({x}) /\ Len(<<x>>) = 1 /\ <<x>>[1] = x
  OBVIOUS
<1>2. DOMAIN <<x>> = 1..1
  BY <1>1, LenProperties
<1>3. QED  BY <1>1, <1>2, ListOfType

\* A list of two.
LEMMA ListOfTwo ==
  ASSUME NEW x, NEW y
  PROVE  /\ IsList(<<x, y>>) /\ Len(<<x, y>>) = 2
         /\ <<x, y>>[1] = x /\ <<x, y>>[2] = y
<1>1. /\ <<x, y>> \in Seq({x, y}) /\ Len(<<x, y>>) = 2
      /\ <<x, y>>[1] = x /\ <<x, y>>[2] = y
  OBVIOUS
<1>2. QED  BY <1>1, ListOfType

\* The first n of a list.
LEMMA ListBegins ==
  ASSUME NEW s, IsList(s), NEW n \in 0..Len(s)
  PROVE  /\ IsList(SubSeq(s, 1, n)) /\ Len(SubSeq(s, 1, n)) = n
         /\ \A i \in 1..n : SubSeq(s, 1, n)[i] = s[i]
<1>1. Len(s) \in Nat /\ DOMAIN s = 1..Len(s)
  BY Lists
<1>2. \A i \in 1..n : s[i] \in Range(s)
  BY <1>1 DEF Range
<1>3. /\ SubSeq(s, 1, n) \in Seq(Range(s))
      /\ Len(SubSeq(s, 1, n)) = IF 1 <= n THEN n - 1 + 1 ELSE 0
      /\ \A i \in 1..(n - 1 + 1) : SubSeq(s, 1, n)[i] = s[1 + i - 1]
  BY <1>1, <1>2, SubSeqProperties
<1>4. \A i \in 1..n : i \in 1..(n - 1 + 1) /\ 1 + i - 1 = i
  BY <1>1
<1>5. Len(SubSeq(s, 1, n)) = n
  BY <1>1, <1>3
<1>6. \A i \in 1..n : SubSeq(s, 1, n)[i] = s[i]
  BY <1>3, <1>4
<1>7. IsList(SubSeq(s, 1, n))
  BY <1>3, ListOfType
<1>8. QED  BY <1>5, <1>6, <1>7

\* Two lists, one after the other.
LEMMA ListsJoin ==
  ASSUME NEW s, NEW t, IsList(s), IsList(t)
  PROVE  /\ IsList(s \o t) /\ Len(s \o t) = Len(s) + Len(t)
         /\ \A i \in 1..Len(s) : (s \o t)[i] = s[i]
         /\ \A i \in 1..Len(t) : (s \o t)[Len(s) + i] = t[i]
<1> DEFINE S == Range(s) \cup Range(t)
<1>1. s \in Seq(S) /\ t \in Seq(S)
  BY SeqMonotonic DEF IsList
<1> HIDE DEF S
<1>2. Len(s) \in Nat /\ Len(t) \in Nat
  BY <1>1, LenProperties
<1>3. /\ s \o t \in Seq(S) /\ Len(s \o t) = Len(s) + Len(t)
      /\ \A i \in 1..(Len(s) + Len(t)) :
           (s \o t)[i] = IF i <= Len(s) THEN s[i] ELSE t[i - Len(s)]
  BY <1>1, ConcatProperties
<1>4. ASSUME NEW i \in 1..Len(s) PROVE (s \o t)[i] = s[i]
  BY <1>2, <1>3
<1>5. ASSUME NEW i \in 1..Len(t) PROVE (s \o t)[Len(s) + i] = t[i]
  <2>1. Len(s) + i \in 1..(Len(s) + Len(t)) /\ ~(Len(s) + i <= Len(s))
        /\ (Len(s) + i) - Len(s) = i
    BY <1>2
  <2>2. QED  BY <1>3, <2>1
<1>6. QED  BY <1>3, <1>4, <1>5, ListOfType
-----------------------------------------------------------------------------
(* Texts, and what of them is kept of the blanks.                          *)
Canon(b) == IF Formatted(b) = None THEN b ELSE Formatted(b)

\* The format of a byte is a byte, and has the same format.
LEMMA CanonByte ==
  ASSUME NEW b \in Byte
  PROVE  Canon(b) \in Byte /\ Canon(Canon(b)) = Canon(b)
BY FormattedAssumption DEF Canon

\* Canonical is byte by byte.
LEMMA CanonicalIs ==
  ASSUME NEW t \in Seq(Byte)
  PROVE  /\ Canonical(t) \in Seq(Byte) /\ Len(Canonical(t)) = Len(t)
         /\ \A k \in 1..Len(t) : Canonical(t)[k] = Canon(t[k])
<1>1. Len(t) \in Nat /\ DOMAIN t = 1..Len(t) /\ \A k \in 1..Len(t) : t[k] \in Byte
  BY LenProperties, ElementOfSeq
<1>2. Canonical(t) = [k \in 1..Len(t) |-> Canon(t[k])]
  BY <1>1 DEF Canonical, Canon
<1>3. Canonical(t) \in [1..Len(t) -> Byte]
  BY <1>1, <1>2, CanonByte
<1>4. Canonical(t) \in Seq(Byte) /\ Len(Canonical(t)) = Len(t)
  BY <1>1, <1>3, SeqDef
<1>5. QED  BY <1>2, <1>4

\* Canonical is compatible with concatenation.
LEMMA CanonicalJoins ==
  ASSUME NEW s \in Seq(Byte), NEW t \in Seq(Byte)
  PROVE  /\ s \o t \in Seq(Byte)
         /\ Canonical(s \o t) = Canonical(s) \o Canonical(t)
<1>1. /\ Len(s) \in Nat /\ Len(t) \in Nat
      /\ s \o t \in Seq(Byte) /\ Len(s \o t) = Len(s) + Len(t)
      /\ \A i \in 1..(Len(s) + Len(t)) :
           (s \o t)[i] = IF i <= Len(s) THEN s[i] ELSE t[i - Len(s)]
  BY ConcatProperties, LenProperties
<1>2. /\ Canonical(s) \in Seq(Byte) /\ Len(Canonical(s)) = Len(s)
      /\ Canonical(t) \in Seq(Byte) /\ Len(Canonical(t)) = Len(t)
      /\ Canonical(s \o t) \in Seq(Byte) /\ Len(Canonical(s \o t)) = Len(s) + Len(t)
      /\ \A k \in 1..Len(s) : Canonical(s)[k] = Canon(s[k])
      /\ \A k \in 1..Len(t) : Canonical(t)[k] = Canon(t[k])
      /\ \A k \in 1..(Len(s) + Len(t)) : Canonical(s \o t)[k] = Canon((s \o t)[k])
  BY <1>1, CanonicalIs
<1>3. /\ Canonical(s) \o Canonical(t) \in Seq(Byte)
      /\ Len(Canonical(s) \o Canonical(t)) = Len(s) + Len(t)
      /\ \A i \in 1..(Len(s) + Len(t)) :
           (Canonical(s) \o Canonical(t))[i] =
             IF i <= Len(s) THEN Canonical(s)[i] ELSE Canonical(t)[i - Len(s)]
  <2> DEFINE cs == Canonical(s)
             ct == Canonical(t)
  <2>1. cs \in Seq(Byte) /\ ct \in Seq(Byte) /\ Len(cs) = Len(s) /\ Len(ct) = Len(t)
    BY <1>2
  <2> HIDE DEF cs, ct
  <2>2. /\ cs \o ct \in Seq(Byte) /\ Len(cs \o ct) = Len(cs) + Len(ct)
        /\ \A i \in 1..(Len(cs) + Len(ct)) :
             (cs \o ct)[i] = IF i <= Len(cs) THEN cs[i] ELSE ct[i - Len(cs)]
    BY <2>1, ConcatProperties
  <2>3. QED  BY <2>1, <2>2 DEF cs, ct
<1>4. ASSUME NEW i \in 1..(Len(s) + Len(t))
      PROVE  Canonical(s \o t)[i] = (Canonical(s) \o Canonical(t))[i]
  <2>1. CASE i <= Len(s)
    <3>1. i \in 1..Len(s)
      BY <1>1, <2>1
    <3>2. QED  BY <1>1, <1>2, <1>3, <2>1, <3>1
  <2>2. CASE ~(i <= Len(s))
    <3>1. i - Len(s) \in 1..Len(t)
      BY <1>1, <2>2
    <3>2. QED  BY <1>1, <1>2, <1>3, <2>2, <3>1
  <2>3. QED  BY <2>1, <2>2
<1>5. QED  BY <1>1, <1>2, <1>3, <1>4, SeqEqual

\* Canonical is idempotent.
LEMMA CanonicalTwice ==
  ASSUME NEW t \in Seq(Byte)
  PROVE  Canonical(Canonical(t)) = Canonical(t)
<1>1. /\ Canonical(t) \in Seq(Byte) /\ Len(Canonical(t)) = Len(t)
      /\ \A k \in 1..Len(t) : Canonical(t)[k] = Canon(t[k])
  BY CanonicalIs
<1>2. /\ Canonical(Canonical(t)) \in Seq(Byte) /\ Len(Canonical(Canonical(t))) = Len(t)
      /\ \A k \in 1..Len(t) : Canonical(Canonical(t))[k] = Canon(Canonical(t)[k])
  BY <1>1, CanonicalIs
<1>3. \A k \in 1..Len(t) : t[k] \in Byte
  BY ElementOfSeq
<1>4. \A k \in 1..Len(t) : Canonical(Canonical(t))[k] = Canonical(t)[k]
  BY <1>1, <1>2, <1>3, CanonByte
<1>5. QED  BY <1>1, <1>2, <1>4, SeqEqual

(* text[from..to] of any text.                                             *)
Piece(text, from, to) == SubSeq(text, from + 1, to)

\* A piece of a text, byte by byte.
LEMMA PieceIs ==
  ASSUME NEW text \in Seq(Byte), NEW to \in 0..Len(text), NEW from \in 0..to
  PROVE  /\ Piece(text, from, to) \in Seq(Byte)
         /\ Len(Piece(text, from, to)) = to - from
         /\ \A k \in 1..(to - from) : Piece(text, from, to)[k] = text[from + k]
<1>1. Len(text) \in Nat /\ \A i \in 1..Len(text) : text[i] \in Byte
  BY LenProperties, ElementOfSeq
<1>2. from + 1 \in Int /\ to \in Int /\ \A i \in (from + 1)..to : text[i] \in Byte
  BY <1>1
<1>3. /\ Piece(text, from, to) \in Seq(Byte)
      /\ Len(Piece(text, from, to)) =
           IF from + 1 <= to THEN to - (from + 1) + 1 ELSE 0
      /\ \A i \in 1..(to - (from + 1) + 1) :
           Piece(text, from, to)[i] = text[(from + 1) + i - 1]
  BY <1>2, SubSeqProperties DEF Piece
<1>4. /\ to - (from + 1) + 1 = to - from
      /\ (IF from + 1 <= to THEN to - (from + 1) + 1 ELSE 0) = to - from
      /\ \A i \in 1..(to - from) : (from + 1) + i - 1 = from + i
  BY <1>1
<1>5. QED  BY <1>3, <1>4

\* Two pieces that follow each other are one.
LEMMA PiecesJoin ==
  ASSUME NEW text \in Seq(Byte), NEW to \in 0..Len(text), NEW mid \in 0..to,
         NEW from \in 0..mid
  PROVE  Piece(text, from, mid) \o Piece(text, mid, to) = Piece(text, from, to)
<1>1. Len(text) \in Nat
  BY LenProperties
<1>2. /\ from + 1 \in 1..(Len(text) + 1) /\ mid \in (from + 1 - 1)..Len(text)
      /\ to \in mid..Len(text)
  BY <1>1
<1>3. QED  BY <1>2, ConcatAdjacentSubSeq DEF Piece

\* The whole text, and the pieces of nothing.
LEMMA PieceOfAll ==
  ASSUME NEW text \in Seq(Byte)
  PROVE  /\ Piece(text, 0, Len(text)) = text
         /\ \A at \in 0..Len(text) : Piece(text, at, at) = <<>>
<1>1. Len(text) \in Nat
  BY LenProperties
<1>2. SubSeq(text, 1, Len(text)) = text
  BY SubSeqFull
<1>3. ASSUME NEW at \in 0..Len(text) PROVE SubSeq(text, at + 1, at) = <<>>
  <2>1. at + 1 \in Int /\ at \in Int /\ at < at + 1
    BY <1>1
  <2>2. QED  BY <2>1, SubSeqEmpty
<1>4. QED  BY <1>2, <1>3 DEF Piece
-----------------------------------------------------------------------------
(* What the ids of a list stand for.                                       *)
Mapped(g, s) == [k \in DOMAIN s |-> g[s[k]]]

\* As many, each the image of the id.
LEMMA MappedIs ==
  ASSUME NEW g, NEW s, IsList(s)
  PROVE  /\ IsList(Mapped(g, s)) /\ Len(Mapped(g, s)) = Len(s)
         /\ \A k \in 1..Len(s) : Mapped(g, s)[k] = g[s[k]]
<1> DEFINE S == {g[s[k]] : k \in DOMAIN s}
<1>1. Len(s) \in Nat /\ DOMAIN s = 1..Len(s)
  BY Lists
<1>2. Mapped(g, s) \in [1..Len(s) -> S] /\ \A k \in 1..Len(s) : Mapped(g, s)[k] = g[s[k]]
  BY <1>1 DEF Mapped
<1> HIDE DEF S
<1>3. Mapped(g, s) \in Seq(S) /\ Len(Mapped(g, s)) = Len(s)
  BY <1>1, <1>2, SeqDef
<1>4. QED  BY <1>2, <1>3, ListOfType

(* Lists of what is joined by flatten, which exists.                       *)
IsFlat(s, k, f) == f = [i \in 1..k |-> IF i = 1 THEN s[i] ELSE f[i - 1] \o s[i]]

Flat(s) == CHOOSE f : IsFlat(s, Len(s), f)

\* The function that FlattenSeq chooses exists, for any length.
LEMMA FlatsExist ==
  ASSUME NEW s, Len(s) \in Nat
  PROVE  IsFlat(s, Len(s), Flat(s))
<1> DEFINE T == {k \in Nat : \E f : IsFlat(s, k, f)}
<1>1. 0 \in T
  <2>1. IsFlat(s, 0, [i \in 1..0 |-> 0])
    BY DEF IsFlat
  <2>2. QED  BY <2>1
<1>2. ASSUME NEW k \in Nat, k \in T PROVE k + 1 \in T
  <2>1. PICK f : IsFlat(s, k, f)
    BY <1>2
  <2> DEFINE g == [i \in 1..(k + 1) |->
                     IF i <= k THEN f[i] ELSE IF i = 1 THEN s[i] ELSE f[i - 1] \o s[i]]
  <2>2. ASSUME NEW i \in 1..(k + 1)
        PROVE  g[i] = IF i = 1 THEN s[i] ELSE g[i - 1] \o s[i]
    <3>1. i <= k => i \in 1..k
      OBVIOUS
    <3>2. i <= k => f[i] = IF i = 1 THEN s[i] ELSE f[i - 1] \o s[i]
      BY <2>1, <3>1, Zenon DEF IsFlat
    <3>3. i # 1 => i - 1 \in 1..(k + 1) /\ i - 1 <= k
      OBVIOUS
    <3>4. i # 1 => g[i - 1] = f[i - 1]
      BY <3>3
    <3>5. g[i] = IF i <= k THEN f[i] ELSE IF i = 1 THEN s[i] ELSE f[i - 1] \o s[i]
      OBVIOUS
    <3> HIDE DEF g
    <3>6. QED  BY <3>2, <3>4, <3>5
  <2>3. g = [i \in 1..(k + 1) |-> g[i]]
    OBVIOUS
  <2> HIDE DEF g
  <2>4. IsFlat(s, k + 1, g)
    BY <2>2, <2>3 DEF IsFlat
  <2>5. QED  BY <2>4
<1>3. Nat \subseteq T
  <2> HIDE DEF T
  <2>1. QED  BY <1>1, <1>2, Induction
<1>4. QED  BY <1>3 DEF Flat

\* So FlattenSeq satisfies its own definition.
LEMMA FlattenIs ==
  ASSUME NEW s, IsList(s)
  PROVE  /\ FlattenSeq(s) = IF Len(s) = 0 THEN s ELSE Flat(s)[Len(s)]
         /\ \A i \in 1..Len(s) :
              Flat(s)[i] = IF i = 1 THEN s[i] ELSE Flat(s)[i - 1] \o s[i]
<1>1. Len(s) \in Nat
  BY Lists
<1>2. FlattenSeq(s) = IF Len(s) = 0 THEN s ELSE Flat(s)[Len(s)]
  BY DEF FlattenSeq, Flat, IsFlat
<1> DEFINE F == Flat(s)
<1>3. IsFlat(s, Len(s), F)
  BY <1>1, FlatsExist
<1> HIDE DEF F
<1>4. \A i \in 1..Len(s) : F[i] = IF i = 1 THEN s[i] ELSE F[i - 1] \o s[i]
  BY <1>3, Zenon DEF IsFlat
<1>5. QED  BY <1>2, <1>4 DEF F

(* Flattening one list more.                                               *)
LEMMA FlattenOneMore ==
  ASSUME NEW s, NEW t, IsList(s), IsList(t), Len(t) = Len(s) + 1,
         \A k \in 1..Len(s) : t[k] = s[k]
  PROVE  FlattenSeq(t) = IF Len(s) = 0 THEN t[1] ELSE FlattenSeq(s) \o t[Len(t)]
<1> DEFINE F == Flat(s)
           G == Flat(t)
           T == {k \in Nat : k \in 1..Len(s) => F[k] = G[k]}
<1>1. Len(s) \in Nat /\ Len(t) \in Nat /\ Len(t) # 0
  BY Lists
<1>2. /\ FlattenSeq(s) = IF Len(s) = 0 THEN s ELSE F[Len(s)]
      /\ FlattenSeq(t) = G[Len(t)]
      /\ \A i \in 1..Len(s) : F[i] = IF i = 1 THEN s[i] ELSE F[i - 1] \o s[i]
      /\ \A i \in 1..Len(t) : G[i] = IF i = 1 THEN t[i] ELSE G[i - 1] \o t[i]
  BY <1>1, FlattenIs
<1> HIDE DEF F, G
<1>3. Nat \subseteq T
  <2>1. 0 \in T
    OBVIOUS
  <2>2. ASSUME NEW k \in Nat, k \in T PROVE k + 1 \in T
    <3>1. SUFFICES ASSUME k + 1 \in 1..Len(s) PROVE F[k + 1] = G[k + 1]
      OBVIOUS
    <3>2. k + 1 \in 1..Len(t) /\ t[k + 1] = s[k + 1] /\ (k + 1) - 1 = k
      BY <1>1, <3>1
    <3>3. CASE k = 0
      <4>1. F[k + 1] = s[k + 1] /\ G[k + 1] = t[k + 1]
        BY <1>2, <3>1, <3>2, <3>3
      <4>2. QED  BY <3>2, <4>1
    <3>4. CASE k # 0
      <4>1. k \in 1..Len(s)
        BY <1>1, <3>1, <3>4
      <4>2. F[k] = G[k]
        BY <2>2, <4>1
      <4>3. F[k + 1] = F[k] \o s[k + 1] /\ G[k + 1] = G[k] \o t[k + 1]
        <5>1. k + 1 # 1
          BY <3>4
        <5>2. F[k + 1] = F[(k + 1) - 1] \o s[k + 1]
          BY <1>2, <3>1, <5>1, Zenon
        <5>3. G[k + 1] = G[(k + 1) - 1] \o t[k + 1]
          BY <1>2, <3>2, <5>1, Zenon
        <5>4. QED  BY <3>2, <5>2, <5>3
      <4>4. QED  BY <3>2, <4>2, <4>3
    <3>5. QED  BY <3>3, <3>4
  <2> HIDE DEF T
  <2>3. QED  BY <2>1, <2>2, Induction
<1>4. Len(t) \in 1..Len(t)
  BY <1>1
<1>5. CASE Len(s) = 0
  BY <1>1, <1>2, <1>4, <1>5
<1>6. CASE Len(s) # 0
  <2>1. F[Len(s)] = G[Len(s)] /\ Len(t) # 1 /\ Len(t) - 1 = Len(s)
    BY <1>1, <1>3, <1>6
  <2>2. G[Len(t)] = G[Len(t) - 1] \o t[Len(t)]
    BY <1>2, <1>4, <2>1
  <2>3. QED  BY <1>2, <1>6, <2>1, <2>2
<1>7. QED  BY <1>5, <1>6

\* Nothing, flattened, is nothing.
LEMMA FlattenNone ==
  ASSUME NEW s, IsList(s), Len(s) = 0
  PROVE  FlattenSeq(s) = <<>>
<1>1. FlattenSeq(s) = s
  BY FlattenIs
<1>2. s = <<>>
  BY EmptySeq DEF IsList
<1>3. QED  BY <1>1, <1>2

(* Flattening texts is a text.                                             *)
LEMMA FlattenTexts ==
  ASSUME NEW s \in Seq(Seq(Byte))
  PROVE  FlattenSeq(s) \in Seq(Byte)
<1> DEFINE F == Flat(s)
           T == {k \in Nat : k \in 1..Len(s) => F[k] \in Seq(Byte)}
<1>1. Len(s) \in Nat /\ IsList(s) /\ \A k \in 1..Len(s) : s[k] \in Seq(Byte)
  BY LenProperties, ElementOfSeq, ListOfType
<1>2. /\ FlattenSeq(s) = IF Len(s) = 0 THEN s ELSE F[Len(s)]
      /\ \A i \in 1..Len(s) : F[i] = IF i = 1 THEN s[i] ELSE F[i - 1] \o s[i]
  BY <1>1, FlattenIs
<1> HIDE DEF F
<1>3. Nat \subseteq T
  <2>1. 0 \in T
    OBVIOUS
  <2>2. ASSUME NEW k \in Nat, k \in T PROVE k + 1 \in T
    <3>1. SUFFICES ASSUME k + 1 \in 1..Len(s) PROVE F[k + 1] \in Seq(Byte)
      OBVIOUS
    <3>2. CASE k = 0
      BY <1>1, <1>2, <3>1, <3>2
    <3>3. CASE k # 0
      <4>1. k \in 1..Len(s) /\ (k + 1) - 1 = k
        BY <1>1, <3>1, <3>3
      <4>2. F[k] \in Seq(Byte) /\ s[k + 1] \in Seq(Byte)
        BY <1>1, <2>2, <3>1, <4>1
      <4>3. F[k + 1] = F[k] \o s[k + 1]
        <5>1. k + 1 # 1
          BY <3>3
        <5>2. F[k + 1] = F[(k + 1) - 1] \o s[k + 1]
          BY <1>2, <3>1, <5>1, Zenon
        <5>3. QED  BY <4>1, <5>2
      <4>4. QED  BY <4>2, <4>3, ConcatProperties
    <3>4. QED  BY <3>2, <3>3
  <2> HIDE DEF T
  <2>3. QED  BY <2>1, <2>2, Induction
<1>4. CASE Len(s) = 0
  BY <1>1, <1>4, FlattenNone, EmptySeq
<1>5. CASE Len(s) # 0
  <2>1. Len(s) \in 1..Len(s)
    BY <1>1, <1>5
  <2>2. QED  BY <1>1, <1>2, <1>3, <1>5, <2>1
<1>6. QED  BY <1>4, <1>5
-----------------------------------------------------------------------------
(* What is kept of a piece of a text.                                      *)
OneRead(f, k) == IF Kept(f, k) THEN <<f.text[k]>> ELSE << >>
ReadList(f, from, to) == [k \in 1..(to - from) |-> OneRead(f, from + k)]

\* It is read byte by byte.
LEMMA ReadsAre ==
  ASSUME NEW f, NEW from, NEW to
  PROVE  Reads(f, from, to) = FlattenSeq(ReadList(f, from, to))
BY DEF Reads, ReadList, OneRead

\* What is read of a byte is a text.
LEMMA OneReadIs ==
  ASSUME NEW f, f.text \in Seq(Byte), NEW k \in 1..Len(f.text)
  PROVE  OneRead(f, k) \in Seq(Byte)
<1>1. f.text[k] \in Byte
  BY ElementOfSeq
<1>2. <<f.text[k]>> \in Seq(Byte) /\ << >> \in Seq(Byte)
  BY <1>1, EmptySeq
<1>3. QED  BY <1>2 DEF OneRead

\* What is read is a list of texts.
LEMMA ReadListIs ==
  ASSUME NEW f, f.text \in Seq(Byte), NEW to \in 0..Len(f.text), NEW from \in 0..to
  PROVE  /\ ReadList(f, from, to) \in Seq(Seq(Byte))
         /\ IsList(ReadList(f, from, to)) /\ Len(ReadList(f, from, to)) = to - from
         /\ \A k \in 1..(to - from) :
              ReadList(f, from, to)[k] = OneRead(f, from + k)
<1>1. Len(f.text) \in Nat
  BY LenProperties
<1>2. to - from \in Nat /\ \A k \in 1..(to - from) : from + k \in 1..Len(f.text)
  BY <1>1
<1>3. \A k \in 1..(to - from) : OneRead(f, from + k) \in Seq(Byte)
  BY <1>2, OneReadIs
<1>4. ReadList(f, from, to) \in [1..(to - from) -> Seq(Byte)]
  BY <1>3 DEF ReadList
<1>5. ReadList(f, from, to) \in Seq(Seq(Byte)) /\ Len(ReadList(f, from, to)) = to - from
  <2>1. PICK S : S = Seq(Byte)
    OBVIOUS
  <2>2. PICK n : n = to - from
    OBVIOUS
  <2>3. n \in Nat /\ ReadList(f, from, to) \in [1..n -> S]
    BY <1>2, <1>4, <2>1, <2>2
  <2>4. PICK s : s = ReadList(f, from, to)
    OBVIOUS
  <2>5. s \in Seq(S) /\ Len(s) = n
    BY <2>3, <2>4, SeqDef
  <2>6. QED  BY <2>1, <2>2, <2>4, <2>5
<1>6. \A k \in 1..(to - from) : ReadList(f, from, to)[k] = OneRead(f, from + k)
  BY DEF ReadList
<1>7. QED  BY <1>5, <1>6, ListOfType

\* Nothing is read of nothing, a text of a text.
LEMMA ReadsIs ==
  ASSUME NEW f, f.text \in Seq(Byte), NEW to \in 0..Len(f.text), NEW from \in 0..to
  PROVE  Reads(f, from, to) \in Seq(Byte) /\ (from = to => Reads(f, from, to) = << >>)
<1>1. Len(f.text) \in Nat
  BY LenProperties
<1>2. /\ ReadList(f, from, to) \in Seq(Seq(Byte)) /\ IsList(ReadList(f, from, to))
      /\ Len(ReadList(f, from, to)) = to - from
  BY ReadListIs
<1>3. FlattenSeq(ReadList(f, from, to)) \in Seq(Byte)
  BY <1>2, FlattenTexts
<1>4. from = to => FlattenSeq(ReadList(f, from, to)) = << >>
  <2>1. SUFFICES ASSUME from = to PROVE FlattenSeq(ReadList(f, from, to)) = << >>
    OBVIOUS
  <2>2. Len(ReadList(f, from, to)) = 0
    BY <1>1, <1>2, <2>1
  <2>3. QED  BY <1>2, <2>2, FlattenNone
<1>5. QED  BY <1>3, <1>4, ReadsAre

\* One byte more.
LEMMA ReadsOneMore ==
  ASSUME NEW f, f.text \in Seq(Byte), NEW to \in 0..Len(f.text), NEW from \in 0..to,
         to + 1 \in 0..Len(f.text)
  PROVE  Reads(f, from, to + 1) = Reads(f, from, to) \o OneRead(f, to + 1)
<1> DEFINE s == ReadList(f, from, to)
           t == ReadList(f, from, to + 1)
<1>1. Len(f.text) \in Nat
  BY LenProperties
<1>2. from \in 0..(to + 1)
  BY <1>1
<1>3. /\ s \in Seq(Seq(Byte)) /\ IsList(s) /\ Len(s) = to - from
      /\ \A k \in 1..(to - from) : s[k] = OneRead(f, from + k)
  BY ReadListIs
<1>4. /\ t \in Seq(Seq(Byte)) /\ IsList(t) /\ Len(t) = (to + 1) - from
      /\ \A k \in 1..((to + 1) - from) : t[k] = OneRead(f, from + k)
  BY <1>2, ReadListIs
<1> HIDE DEF s, t
<1>5. Len(t) = Len(s) + 1 /\ \A k \in 1..Len(s) : t[k] = s[k]
  <2>1. Len(t) = Len(s) + 1
    BY <1>1, <1>3, <1>4
  <2>2. ASSUME NEW k \in 1..Len(s) PROVE t[k] = s[k]
    <3>1. k \in 1..(to - from) /\ k \in 1..((to + 1) - from)
      BY <1>1, <1>3
    <3>2. QED  BY <1>3, <1>4, <3>1
  <2>3. QED  BY <2>1, <2>2
<1>6. FlattenSeq(t) = IF Len(s) = 0 THEN t[1] ELSE FlattenSeq(s) \o t[Len(t)]
  BY <1>3, <1>4, <1>5, FlattenOneMore
<1>7. t[Len(t)] = OneRead(f, to + 1)
  <2>1. (to + 1) - from \in 1..((to + 1) - from) /\ from + ((to + 1) - from) = to + 1
    BY <1>1
  <2>2. QED  BY <1>4, <2>1
<1>8. CASE Len(s) = 0
  <2>1. FlattenSeq(s) = << >> /\ Len(t) = 1
    BY <1>3, <1>5, <1>8, FlattenNone
  <2>2. OneRead(f, to + 1) \in Seq(Byte)
    <3>1. to + 1 \in 1..Len(f.text)
      BY <1>1
    <3>2. QED  BY <3>1, OneReadIs
  <2>3. << >> \o OneRead(f, to + 1) = OneRead(f, to + 1)
    BY <2>2, ConcatEmptySeq
  <2>4. FlattenSeq(t) = FlattenSeq(s) \o OneRead(f, to + 1)
    BY <1>6, <1>7, <1>8, <2>1, <2>3
  <2>5. QED  BY <2>4, ReadsAre DEF s, t
<1>9. CASE Len(s) # 0
  <2>1. FlattenSeq(t) = FlattenSeq(s) \o OneRead(f, to + 1)
    BY <1>6, <1>7, <1>9
  <2>2. QED  BY <2>1, ReadsAre DEF s, t
<1>10. QED  BY <1>8, <1>9

\* What is read of a piece, then of the next.
LEMMA ReadsJoin ==
  ASSUME NEW f, f.text \in Seq(Byte), NEW to \in 0..Len(f.text), NEW mid \in 0..to,
         NEW from \in 0..mid
  PROVE  Reads(f, from, mid) \o Reads(f, mid, to) = Reads(f, from, to)
<1> DEFINE T == {n \in Nat : mid + n <= Len(f.text) =>
                   Reads(f, from, mid) \o Reads(f, mid, mid + n)
                     = Reads(f, from, mid + n)}
<1>1. Len(f.text) \in Nat /\ mid \in 0..Len(f.text) /\ mid \in Nat /\ from \in Nat
  BY LenProperties
<1>2. 0 \in T
  <2>1. Reads(f, from, mid) \in Seq(Byte) /\ Reads(f, mid, mid) = << >>
    BY <1>1, ReadsIs
  <2>2. mid + 0 = mid
    BY <1>1
  <2>3. Reads(f, from, mid) \o << >> = Reads(f, from, mid)
    BY <2>1, ConcatEmptySeq
  <2>4. QED  BY <2>1, <2>2, <2>3
<1>3. ASSUME NEW n \in Nat, n \in T PROVE n + 1 \in T
  <2>1. SUFFICES ASSUME mid + (n + 1) <= Len(f.text)
                 PROVE  Reads(f, from, mid) \o Reads(f, mid, mid + (n + 1))
                          = Reads(f, from, mid + (n + 1))
    OBVIOUS
  <2>2. /\ mid + (n + 1) = (mid + n) + 1 /\ mid + n \in 0..Len(f.text)
        /\ (mid + n) + 1 \in 0..Len(f.text) /\ (mid + n) + 1 \in 1..Len(f.text)
        /\ mid \in 0..(mid + n) /\ from \in 0..(mid + n) /\ mid + n <= Len(f.text)
    BY <1>1, <2>1
  <2>3. Reads(f, from, mid) \o Reads(f, mid, mid + n) = Reads(f, from, mid + n)
    BY <1>3, <2>2
  <2>4. /\ Reads(f, mid, (mid + n) + 1)
             = Reads(f, mid, mid + n) \o OneRead(f, (mid + n) + 1)
        /\ Reads(f, from, (mid + n) + 1)
             = Reads(f, from, mid + n) \o OneRead(f, (mid + n) + 1)
    BY <2>2, ReadsOneMore
  <2>5. /\ Reads(f, from, mid) \in Seq(Byte) /\ Reads(f, mid, mid + n) \in Seq(Byte)
        /\ OneRead(f, (mid + n) + 1) \in Seq(Byte)
    BY <1>1, <2>2, ReadsIs, OneReadIs
  <2>6. (Reads(f, from, mid) \o Reads(f, mid, mid + n)) \o OneRead(f, (mid + n) + 1)
          = Reads(f, from, mid) \o (Reads(f, mid, mid + n) \o OneRead(f, (mid + n) + 1))
    BY <2>5, ConcatAssociative
  <2>7. QED  BY <2>2, <2>3, <2>4, <2>6
<1>4. Nat \subseteq T
  <2> HIDE DEF T
  <2>1. QED  BY <1>2, <1>3, Induction
<1>5. PICK n : n = to - mid
  OBVIOUS
<1>6. n \in Nat /\ mid + n = to /\ mid + n <= Len(f.text)
  BY <1>1, <1>5
<1>7. n \in T
  BY <1>4, <1>6
<1>8. Reads(f, from, mid) \o Reads(f, mid, mid + n) = Reads(f, from, mid + n)
  BY <1>6, <1>7
<1>9. QED  BY <1>6, <1>8

\* All of a piece is read, or nothing, when all of it is kept, or nothing.
LEMMA ReadsAll ==
  ASSUME NEW f, f.text \in Seq(Byte), NEW to \in 0..Len(f.text), NEW from \in 0..to,
         \A k \in (from + 1)..to : Kept(f, k)
  PROVE  Reads(f, from, to) = Piece(f.text, from, to)
<1> DEFINE T == {n \in Nat : from + n <= to =>
                   Reads(f, from, from + n) = Piece(f.text, from, from + n)}
<1>1. Len(f.text) \in Nat /\ from \in Nat /\ to \in Nat /\ from \in 0..Len(f.text)
  BY LenProperties
<1>2. 0 \in T
  <2>1. Reads(f, from, from) = << >> /\ Piece(f.text, from, from) = << >>
    BY <1>1, ReadsIs, PieceOfAll
  <2>2. QED  BY <1>1, <2>1
<1>3. ASSUME NEW n \in Nat, n \in T PROVE n + 1 \in T
  <2>1. SUFFICES ASSUME from + (n + 1) <= to
                 PROVE  Reads(f, from, from + (n + 1)) = Piece(f.text, from, from + (n + 1))
    OBVIOUS
  <2>2. PICK m : m = from + n
    OBVIOUS
  <2>3. /\ from + (n + 1) = m + 1 /\ m \in 0..Len(f.text) /\ m \in 0..(m + 1)
        /\ m + 1 \in 0..Len(f.text) /\ m + 1 \in 1..Len(f.text)
        /\ from \in 0..m /\ from + n <= to /\ m + 1 \in (from + 1)..to /\ m \in Nat
    BY <1>1, <2>1, <2>2
  <2>4. Reads(f, from, m) = Piece(f.text, from, m)
    BY <1>3, <2>2, <2>3
  <2>5. Reads(f, from, m + 1) = Reads(f, from, m) \o OneRead(f, m + 1)
    BY <2>3, ReadsOneMore
  <2>6. OneRead(f, m + 1) = <<f.text[m + 1]>>
    BY <2>3 DEF OneRead
  <2>7. Piece(f.text, m, m + 1) = <<f.text[m + 1]>>
    <3>1. PICK p : p = Piece(f.text, m, m + 1)
      OBVIOUS
    <3>2. /\ p \in Seq(Byte) /\ Len(p) = (m + 1) - m
          /\ \A k \in 1..((m + 1) - m) : p[k] = f.text[m + k]
      BY <2>3, <3>1, PieceIs
    <3>3. (m + 1) - m = 1 /\ 1 \in 1..((m + 1) - m)
      BY <2>3
    <3>4. Len(p) = 1 /\ p[1] = f.text[m + 1]
      BY <3>2, <3>3
    <3>5. PICK b \in Byte : b = f.text[m + 1]
      BY <2>3, ElementOfSeq
    <3>6. <<b>> \in Seq(Byte) /\ Len(<<b>>) = 1 /\ <<b>>[1] = b
      BY <3>5
    <3>7. PICK q : q = <<b>>
      OBVIOUS
    <3>8. q \in Seq(Byte) /\ Len(q) = 1 /\ q[1] = b
      BY <3>6, <3>7
    <3>9. \A i \in 1..Len(p) : p[i] = q[i]
      BY <3>4, <3>5, <3>8
    <3>10. p = q
      BY <3>2, <3>4, <3>8, <3>9, SeqEqual
    <3>11. QED  BY <3>1, <3>5, <3>7, <3>10
  <2>8. Piece(f.text, from, m) \o Piece(f.text, m, m + 1) = Piece(f.text, from, m + 1)
    BY <2>3, PiecesJoin
  <2>9. QED  BY <2>3, <2>4, <2>5, <2>6, <2>7, <2>8
<1>4. Nat \subseteq T
  <2> HIDE DEF T
  <2>1. QED  BY <1>2, <1>3, Induction
<1>5. PICK n : n = to - from
  OBVIOUS
<1>6. n \in Nat /\ from + n = to /\ from + n <= to
  BY <1>1, <1>5
<1>7. n \in T
  BY <1>4, <1>6
<1>8. Reads(f, from, from + n) = Piece(f.text, from, from + n)
  BY <1>6, <1>7
<1>9. QED  BY <1>6, <1>8

LEMMA ReadsNone ==
  ASSUME NEW f, f.text \in Seq(Byte), NEW to \in 0..Len(f.text), NEW from \in 0..to,
         \A k \in (from + 1)..to : ~Kept(f, k)
  PROVE  Reads(f, from, to) = << >>
<1> DEFINE T == {n \in Nat : from + n <= to => Reads(f, from, from + n) = << >>}
<1>1. Len(f.text) \in Nat /\ from \in Nat /\ to \in Nat /\ from \in 0..Len(f.text)
  BY LenProperties
<1>2. 0 \in T
  BY <1>1, ReadsIs
<1>3. ASSUME NEW n \in Nat, n \in T PROVE n + 1 \in T
  <2>1. SUFFICES ASSUME from + (n + 1) <= to
                 PROVE  Reads(f, from, from + (n + 1)) = << >>
    OBVIOUS
  <2>2. PICK m : m = from + n
    OBVIOUS
  <2>3. /\ from + (n + 1) = m + 1 /\ m \in 0..Len(f.text)
        /\ m + 1 \in 0..Len(f.text) /\ from \in 0..m /\ from + n <= to
        /\ m + 1 \in (from + 1)..to
    BY <1>1, <2>1, <2>2
  <2>4. Reads(f, from, m) = << >>
    BY <1>3, <2>2, <2>3
  <2>5. Reads(f, from, m + 1) = Reads(f, from, m) \o OneRead(f, m + 1)
    BY <2>3, ReadsOneMore
  <2>6. OneRead(f, m + 1) = << >>
    BY <2>3 DEF OneRead
  <2>7. << >> \o << >> = << >>
    OBVIOUS
  <2>8. QED  BY <2>3, <2>4, <2>5, <2>6, <2>7
<1>4. Nat \subseteq T
  <2> HIDE DEF T
  <2>1. QED  BY <1>2, <1>3, Induction
<1>5. PICK n : n = to - from
  OBVIOUS
<1>6. n \in Nat /\ from + n = to /\ from + n <= to
  BY <1>1, <1>5
<1>7. n \in T
  BY <1>4, <1>6
<1>8. Reads(f, from, from + n) = << >>
  BY <1>6, <1>7
<1>9. QED  BY <1>6, <1>8
-----------------------------------------------------------------------------
(* The metrics of a list, which exist.                                     *)
IsSum(ms, k, f) ==
  f = [i \in 0..k |-> IF i = 0 THEN NoMetrics ELSE AccMetrics(f[i - 1], ms[i])]

SumTo(ms) == CHOOSE f : IsSum(ms, Len(ms), f)

\* The function that Accumulated chooses exists, for any length.
LEMMA SumsExist ==
  ASSUME NEW ms, Len(ms) \in Nat
  PROVE  IsSum(ms, Len(ms), SumTo(ms))
<1> DEFINE T == {k \in Nat : \E f : IsSum(ms, k, f)}
<1>1. 0 \in T
  <2>1. IsSum(ms, 0, [i \in 0..0 |-> NoMetrics])
    BY DEF IsSum
  <2>2. QED  BY <2>1
<1>2. ASSUME NEW k \in Nat, k \in T PROVE k + 1 \in T
  <2>1. PICK f : IsSum(ms, k, f)
    BY <1>2
  <2> DEFINE g == [i \in 0..(k + 1) |->
                     IF i <= k THEN f[i] ELSE AccMetrics(f[i - 1], ms[i])]
  <2>2. ASSUME NEW i \in 0..(k + 1)
        PROVE  g[i] = IF i = 0 THEN NoMetrics ELSE AccMetrics(g[i - 1], ms[i])
    <3>1. i <= k => i \in 0..k
      OBVIOUS
    <3>2. i <= k => f[i] = IF i = 0 THEN NoMetrics ELSE AccMetrics(f[i - 1], ms[i])
      BY <2>1, <3>1, Zenon DEF IsSum
    <3>3. i # 0 => i - 1 \in 0..(k + 1) /\ i - 1 <= k
      OBVIOUS
    <3>4. i # 0 => g[i - 1] = f[i - 1]
      BY <3>3
    <3>5. g[i] = IF i <= k THEN f[i] ELSE AccMetrics(f[i - 1], ms[i])
      OBVIOUS
    <3>6. i = 0 => i <= k
      OBVIOUS
    <3> HIDE DEF g
    <3>7. QED  BY <3>2, <3>4, <3>5, <3>6
  <2>3. g = [i \in 0..(k + 1) |-> g[i]]
    OBVIOUS
  <2> HIDE DEF g
  <2>4. IsSum(ms, k + 1, g)
    BY <2>2, <2>3 DEF IsSum
  <2>5. QED  BY <2>4
<1>3. Nat \subseteq T
  <2> HIDE DEF T
  <2>1. QED  BY <1>1, <1>2, Induction
<1>4. QED  BY <1>3 DEF SumTo

\* So Accumulated satisfies its own definition.
LEMMA AccumulatedIs ==
  ASSUME NEW ms, IsList(ms)
  PROVE  /\ Accumulated(ms) = SumTo(ms)[Len(ms)]
         /\ \A i \in 0..Len(ms) :
              SumTo(ms)[i] = IF i = 0 THEN NoMetrics
                             ELSE AccMetrics(SumTo(ms)[i - 1], ms[i])
<1>1. Len(ms) \in Nat
  BY Lists
<1>2. Accumulated(ms) = SumTo(ms)[Len(ms)]
  BY DEF Accumulated, SumTo, IsSum
<1> DEFINE F == SumTo(ms)
<1>3. IsSum(ms, Len(ms), F)
  BY <1>1, SumsExist
<1> HIDE DEF F
<1>4. \A i \in 0..Len(ms) :
        F[i] = IF i = 0 THEN NoMetrics ELSE AccMetrics(F[i - 1], ms[i])
  BY <1>3, Zenon DEF IsSum
<1>5. QED  BY <1>2, <1>4 DEF F

(* A list with one more has one more accumulated.                          *)
LEMMA AccumulatedOneMore ==
  ASSUME NEW s, NEW t, IsList(s), IsList(t), Len(t) = Len(s) + 1,
         \A k \in 1..Len(s) : t[k] = s[k]
  PROVE  Accumulated(t) = AccMetrics(Accumulated(s), t[Len(t)])
<1> DEFINE F == SumTo(s)
           G == SumTo(t)
           T == {k \in Nat : k <= Len(s) => F[k] = G[k]}
<1>1. Len(s) \in Nat /\ Len(t) \in Nat
  BY Lists
<1>2. /\ Accumulated(s) = F[Len(s)] /\ Accumulated(t) = G[Len(t)]
      /\ \A i \in 0..Len(s) : F[i] = IF i = 0 THEN NoMetrics ELSE AccMetrics(F[i - 1], s[i])
      /\ \A i \in 0..Len(t) : G[i] = IF i = 0 THEN NoMetrics ELSE AccMetrics(G[i - 1], t[i])
  BY AccumulatedIs
<1> HIDE DEF F, G
<1>3. Nat \subseteq T
  <2>1. 0 \in T
    BY <1>1, <1>2
  <2>2. ASSUME NEW k \in Nat, k \in T PROVE k + 1 \in T
    <3>1. SUFFICES ASSUME k + 1 <= Len(s) PROVE F[k + 1] = G[k + 1]
      OBVIOUS
    <3>2. /\ F[k] = G[k] /\ k + 1 \in 0..Len(s) /\ k + 1 \in 0..Len(t)
          /\ (k + 1) - 1 = k /\ k + 1 # 0 /\ t[k + 1] = s[k + 1]
      BY <1>1, <2>2, <3>1
    <3>3. QED  BY <1>2, <3>2
  <2> HIDE DEF T
  <2>3. QED  BY <2>1, <2>2, Induction
<1>4. F[Len(s)] = G[Len(s)] /\ Len(t) \in 0..Len(t) /\ Len(t) # 0 /\ Len(t) - 1 = Len(s)
  BY <1>1, <1>3
<1>5. G[Len(t)] = AccMetrics(G[Len(t) - 1], t[Len(t)])
  BY <1>2, <1>4
<1>6. QED  BY <1>2, <1>4, <1>5

\* Nothing has the metrics of nothing.
LEMMA AccumulatedNone ==
  ASSUME NEW s, IsList(s), Len(s) = 0
  PROVE  Accumulated(s) = NoMetrics
BY AccumulatedIs
-----------------------------------------------------------------------------
(* What holds of the content of any entity: its children are earlier       *)
(* ones, and there is a text to print it with.                             *)
ContentOK(c, n) ==
  /\ c.children \in Seq(1..n)
  /\ c.kind = SpacesKind => c.blank \in Seq(Byte)
  /\ c.kind # SpacesKind /\ c.children = <<>> =>
       (IF c.label # None THEN c.label ELSE Spelling(c.kind)) \in Seq(Byte)

Dag(ns) == IsList(ns) /\ \A i \in DOMAIN ns : ContentOK(ns[i].content, i - 1)

\* Functions that agree on the ids give the same list.
LEMMA MappedAgree ==
  ASSUME NEW n, NEW s \in Seq(1..n), NEW f, NEW g, \A j \in 1..n : f[j] = g[j]
  PROVE  Mapped(f, s) = Mapped(g, s)
<1>1. \A k \in DOMAIN s : s[k] \in 1..n
  BY LenProperties, ElementOfSeq
<1>2. QED  BY <1>1 DEF Mapped

(* TextOf, of any entities, and what it says of one from those before it.  *)
TextWith(f, c) ==
  IF c.kind = SpacesKind THEN c.blank
  ELSE IF c.children # <<>> THEN FlattenSeq(Mapped(f, c.children))
  ELSE IF c.label # None THEN c.label
  ELSE Spelling(c.kind)

TextAt(ns, f, i) == TextWith(f, ns[i].content)

IsText(ns, k, f) == f = [i \in 1..k |-> TextAt(ns, f, i)]

Texts(ns) == CHOOSE f : f = [i \in DOMAIN ns |-> TextAt(ns, f, i)]

\* The text of an entity depends on the texts of earlier ones only.
LEMMA TextAtAgree ==
  ASSUME NEW ns, Dag(ns), NEW i \in DOMAIN ns, NEW f, NEW g,
         \A j \in 1..(i - 1) : f[j] = g[j]
  PROVE  TextAt(ns, f, i) = TextAt(ns, g, i)
<1>1. Mapped(f, ns[i].content.children) = Mapped(g, ns[i].content.children)
  BY MappedAgree DEF Dag, ContentOK
<1>2. QED  BY <1>1 DEF TextAt, TextWith

\* So the function that TextOf chooses exists, by induction on ids.
LEMMA TextsExist ==
  ASSUME NEW ns, Dag(ns)
  PROVE  \E f : IsText(ns, Len(ns), f)
<1> DEFINE T == {k \in Nat : k <= Len(ns) => \E f : IsText(ns, k, f)}
<1>1. Len(ns) \in Nat /\ DOMAIN ns = 1..Len(ns)
  BY Lists DEF Dag
<1>2. 0 \in T
  <2>1. IsText(ns, 0, [i \in 1..0 |-> 0])
    BY DEF IsText
  <2>2. QED  BY <2>1
<1>3. ASSUME NEW k \in Nat, k \in T PROVE k + 1 \in T
  <2>1. SUFFICES ASSUME k + 1 <= Len(ns) PROVE \E f : IsText(ns, k + 1, f)
    OBVIOUS
  <2>2. PICK f : IsText(ns, k, f)
    BY <1>1, <1>3, <2>1
  <2> DEFINE g == [i \in 1..(k + 1) |-> IF i <= k THEN f[i] ELSE TextAt(ns, f, i)]
  <2>3. ASSUME NEW i \in 1..(k + 1) PROVE g[i] = TextAt(ns, g, i)
    <3>1. i \in DOMAIN ns /\ \A j \in 1..(i - 1) : j \in 1..(k + 1) /\ j <= k
      BY <1>1, <2>1
    <3>2. \A j \in 1..(i - 1) : f[j] = g[j]
      BY <3>1
    <3>3. TextAt(ns, f, i) = TextAt(ns, g, i)
      <4> HIDE DEF g
      <4>1. QED  BY <3>1, <3>2, TextAtAgree
    <3>4. i <= k => i \in 1..k
      OBVIOUS
    <3>5. i <= k => f[i] = TextAt(ns, f, i)
      BY <2>2, <3>4, Zenon DEF IsText
    <3>6. g[i] = IF i <= k THEN f[i] ELSE TextAt(ns, f, i)
      OBVIOUS
    <3> HIDE DEF g
    <3>7. QED  BY <3>3, <3>5, <3>6
  <2>4. g = [i \in 1..(k + 1) |-> g[i]]
    OBVIOUS
  <2> HIDE DEF g
  <2>5. IsText(ns, k + 1, g)
    BY <2>3, <2>4 DEF IsText
  <2>6. QED  BY <2>5
<1>4. Nat \subseteq T
  <2> HIDE DEF T
  <2>1. QED  BY <1>2, <1>3, Induction
<1>5. QED  BY <1>1, <1>4

\* And satisfies its own definition.
LEMMA TextsAre ==
  ASSUME NEW ns, Dag(ns), NEW i \in DOMAIN ns
  PROVE  Texts(ns)[i] = TextAt(ns, Texts(ns), i)
<1> DEFINE F == Texts(ns)
<1>1. DOMAIN ns = 1..Len(ns)
  BY Lists DEF Dag
<1>2. \E f : f = [j \in DOMAIN ns |-> TextAt(ns, f, j)]
  <2>1. \E f : f = [j \in 1..Len(ns) |-> TextAt(ns, f, j)]
    BY TextsExist, Zenon DEF IsText
  <2>2. QED  BY <1>1, <2>1, Zenon
<1>3. F = [j \in DOMAIN ns |-> TextAt(ns, F, j)]
  BY <1>2, Zenon DEF Texts
<1> HIDE DEF F
<1>4. F[i] = TextAt(ns, F, i)
  BY <1>3, Zenon
<1>5. QED  BY <1>4 DEF F

(* A growing store changes none of them.                                   *)
LEMMA TextsStay ==
  ASSUME NEW ns, NEW more, Dag(ns), Dag(more),
         \A i \in DOMAIN ns : i \in DOMAIN more /\ more[i] = ns[i]
  PROVE  \A i \in DOMAIN ns : Texts(more)[i] = Texts(ns)[i]
<1> DEFINE F == Texts(ns)
           G == Texts(more)
           T == {n \in Nat : \A i \in DOMAIN ns : i <= n => G[i] = F[i]}
<1>1. Len(ns) \in Nat /\ DOMAIN ns = 1..Len(ns)
  BY Lists DEF Dag
<1>2. \A i \in DOMAIN ns : F[i] = TextAt(ns, F, i) /\ G[i] = TextAt(more, G, i)
  BY TextsAre
<1> HIDE DEF F, G
<1>3. \A i \in DOMAIN ns : TextAt(more, G, i) = TextAt(ns, G, i)
  BY DEF TextAt
<1>4. Nat \subseteq T
  <2>1. 0 \in T
    BY <1>1
  <2>2. ASSUME NEW n \in Nat, n \in T PROVE n + 1 \in T
    <3>1. ASSUME NEW i \in DOMAIN ns, i <= n + 1 PROVE G[i] = F[i]
      <4>1. \A j \in 1..(i - 1) : j \in DOMAIN ns /\ j <= n
        BY <1>1, <3>1
      <4>2. \A j \in 1..(i - 1) : G[j] = F[j]
        BY <2>2, <4>1
      <4>3. TextAt(ns, G, i) = TextAt(ns, F, i)
        BY <4>2, TextAtAgree
      <4>4. QED  BY <1>2, <1>3, <4>3
    <3>2. QED  BY <3>1
  <2> HIDE DEF T
  <2>3. QED  BY <2>1, <2>2, Induction
<1>5. ASSUME NEW i \in DOMAIN ns PROVE G[i] = F[i]
  BY <1>1, <1>4
<1>6. QED  BY <1>5 DEF F, G

\* Every entity has a text.
LEMMA TextsTyped ==
  ASSUME NEW ns, Dag(ns)
  PROVE  \A i \in DOMAIN ns : Texts(ns)[i] \in Seq(Byte)
<1> DEFINE F == Texts(ns)
           T == {n \in Nat : \A i \in DOMAIN ns : i <= n => F[i] \in Seq(Byte)}
<1>1. Len(ns) \in Nat /\ DOMAIN ns = 1..Len(ns)
  BY Lists DEF Dag
<1>2. \A i \in DOMAIN ns : F[i] = TextAt(ns, F, i)
  BY TextsAre
<1> HIDE DEF F
<1>3. Nat \subseteq T
  <2>1. 0 \in T
    BY <1>1
  <2>2. ASSUME NEW n \in Nat, n \in T PROVE n + 1 \in T
    <3>1. ASSUME NEW i \in DOMAIN ns, i <= n + 1 PROVE F[i] \in Seq(Byte)
      <4> DEFINE c == ns[i].content
                 s == c.children
      <4>1. ContentOK(c, i - 1)
        BY DEF Dag
      <4>2. \A j \in 1..(i - 1) : F[j] \in Seq(Byte)
        <5>1. \A j \in 1..(i - 1) : j \in DOMAIN ns /\ j <= n
          BY <1>1, <3>1
        <5>2. QED  BY <2>2, <5>1
      <4>3. FlattenSeq(Mapped(F, s)) \in Seq(Byte)
        <5>1. s \in Seq(1..(i - 1))
          BY <4>1 DEF ContentOK
        <5> HIDE DEF s, c
        <5>2. Len(s) \in Nat /\ DOMAIN s = 1..Len(s) /\ \A k \in 1..Len(s) : s[k] \in 1..(i - 1)
          BY <5>1, LenProperties, ElementOfSeq
        <5>3. \A k \in 1..Len(s) : F[s[k]] \in Seq(Byte)
          BY <4>2, <5>2
        <5>4. Mapped(F, s) \in [1..Len(s) -> Seq(Byte)]
          BY <5>2, <5>3 DEF Mapped
        <5>5. Mapped(F, s) \in Seq(Seq(Byte))
          BY <5>2, <5>4, SeqDef
        <5>6. QED  BY <5>5, FlattenTexts
      <4>4. TextAt(ns, F, i) = IF c.kind = SpacesKind THEN c.blank
                               ELSE IF s # <<>> THEN FlattenSeq(Mapped(F, s))
                               ELSE IF c.label # None THEN c.label
                               ELSE Spelling(c.kind)
        BY DEF TextAt, TextWith
      <4>5. /\ c.kind = SpacesKind => c.blank \in Seq(Byte)
            /\ c.kind # SpacesKind /\ s = <<>> =>
                 (IF c.label # None THEN c.label ELSE Spelling(c.kind)) \in Seq(Byte)
        BY <4>1 DEF ContentOK
      <4> HIDE DEF c, s
      <4>6. TextAt(ns, F, i) \in Seq(Byte)
        BY <4>3, <4>4, <4>5
      <4>7. QED  BY <1>2, <4>6
    <3>2. QED  BY <3>1
  <2> HIDE DEF T
  <2>3. QED  BY <2>1, <2>2, Induction
<1>4. ASSUME NEW i \in DOMAIN ns PROVE F[i] \in Seq(Byte)
  BY <1>1, <1>3
<1>5. QED  BY <1>4 DEF F

\* TextOf is this, of the entities of the store.
LEMMA TextOfIs == TextOf = Texts(nodes)
BY DEF TextOf, Texts, TextAt, TextWith, Mapped

(* MetricsOf, of any entities.                                             *)
MetricWith(f, c) ==
  IF c.kind = SpacesKind THEN SpacesMetrics(c.blank)
  ELSE NodeMetrics(c.kind, c.label, Accumulated(Mapped(f, c.children)))

MetricAt(ns, f, i) == MetricWith(f, ns[i].content)

IsMetric(ns, k, f) == f = [i \in 1..k |-> MetricAt(ns, f, i)]

Metrics(ns) == CHOOSE f : f = [i \in DOMAIN ns |-> MetricAt(ns, f, i)]

\* The metrics of an entity depend on those of earlier ones only.
LEMMA MetricAtAgree ==
  ASSUME NEW ns, Dag(ns), NEW i \in DOMAIN ns, NEW f, NEW g,
         \A j \in 1..(i - 1) : f[j] = g[j]
  PROVE  MetricAt(ns, f, i) = MetricAt(ns, g, i)
<1>1. Mapped(f, ns[i].content.children) = Mapped(g, ns[i].content.children)
  BY MappedAgree DEF Dag, ContentOK
<1>2. QED  BY <1>1 DEF MetricAt, MetricWith

\* So the function that MetricsOf chooses exists, by induction on ids.
LEMMA MetricsExist ==
  ASSUME NEW ns, Dag(ns)
  PROVE  \E f : IsMetric(ns, Len(ns), f)
<1> DEFINE T == {k \in Nat : k <= Len(ns) => \E f : IsMetric(ns, k, f)}
<1>1. Len(ns) \in Nat /\ DOMAIN ns = 1..Len(ns)
  BY Lists DEF Dag
<1>2. 0 \in T
  <2>1. IsMetric(ns, 0, [i \in 1..0 |-> 0])
    BY DEF IsMetric
  <2>2. QED  BY <2>1
<1>3. ASSUME NEW k \in Nat, k \in T PROVE k + 1 \in T
  <2>1. SUFFICES ASSUME k + 1 <= Len(ns) PROVE \E f : IsMetric(ns, k + 1, f)
    OBVIOUS
  <2>2. PICK f : IsMetric(ns, k, f)
    BY <1>1, <1>3, <2>1
  <2> DEFINE g == [i \in 1..(k + 1) |-> IF i <= k THEN f[i] ELSE MetricAt(ns, f, i)]
  <2>3. ASSUME NEW i \in 1..(k + 1) PROVE g[i] = MetricAt(ns, g, i)
    <3>1. i \in DOMAIN ns /\ \A j \in 1..(i - 1) : j \in 1..(k + 1) /\ j <= k
      BY <1>1, <2>1
    <3>2. \A j \in 1..(i - 1) : f[j] = g[j]
      BY <3>1
    <3>3. MetricAt(ns, f, i) = MetricAt(ns, g, i)
      <4> HIDE DEF g
      <4>1. QED  BY <3>1, <3>2, MetricAtAgree
    <3>4. i <= k => i \in 1..k
      OBVIOUS
    <3>5. i <= k => f[i] = MetricAt(ns, f, i)
      BY <2>2, <3>4, Zenon DEF IsMetric
    <3>6. g[i] = IF i <= k THEN f[i] ELSE MetricAt(ns, f, i)
      OBVIOUS
    <3> HIDE DEF g
    <3>7. QED  BY <3>3, <3>5, <3>6
  <2>4. g = [i \in 1..(k + 1) |-> g[i]]
    OBVIOUS
  <2> HIDE DEF g
  <2>5. IsMetric(ns, k + 1, g)
    BY <2>3, <2>4 DEF IsMetric
  <2>6. QED  BY <2>5
<1>4. Nat \subseteq T
  <2> HIDE DEF T
  <2>1. QED  BY <1>2, <1>3, Induction
<1>5. QED  BY <1>1, <1>4

\* And satisfies its own definition.
LEMMA MetricsAre ==
  ASSUME NEW ns, Dag(ns), NEW i \in DOMAIN ns
  PROVE  Metrics(ns)[i] = MetricAt(ns, Metrics(ns), i)
<1> DEFINE F == Metrics(ns)
<1>1. DOMAIN ns = 1..Len(ns)
  BY Lists DEF Dag
<1>2. \E f : f = [j \in DOMAIN ns |-> MetricAt(ns, f, j)]
  <2>1. \E f : f = [j \in 1..Len(ns) |-> MetricAt(ns, f, j)]
    BY MetricsExist, Zenon DEF IsMetric
  <2>2. QED  BY <1>1, <2>1, Zenon
<1>3. F = [j \in DOMAIN ns |-> MetricAt(ns, F, j)]
  BY <1>2, Zenon DEF Metrics
<1> HIDE DEF F
<1>4. F[i] = MetricAt(ns, F, i)
  BY <1>3, Zenon
<1>5. QED  BY <1>4 DEF F

(* A growing store changes none of them.                                   *)
LEMMA MetricsStay ==
  ASSUME NEW ns, NEW more, Dag(ns), Dag(more),
         \A i \in DOMAIN ns : i \in DOMAIN more /\ more[i] = ns[i]
  PROVE  \A i \in DOMAIN ns : Metrics(more)[i] = Metrics(ns)[i]
<1> DEFINE F == Metrics(ns)
           G == Metrics(more)
           T == {n \in Nat : \A i \in DOMAIN ns : i <= n => G[i] = F[i]}
<1>1. Len(ns) \in Nat /\ DOMAIN ns = 1..Len(ns)
  BY Lists DEF Dag
<1>2. \A i \in DOMAIN ns : F[i] = MetricAt(ns, F, i) /\ G[i] = MetricAt(more, G, i)
  BY MetricsAre
<1> HIDE DEF F, G
<1>3. \A i \in DOMAIN ns : MetricAt(more, G, i) = MetricAt(ns, G, i)
  BY DEF MetricAt
<1>4. Nat \subseteq T
  <2>1. 0 \in T
    BY <1>1
  <2>2. ASSUME NEW n \in Nat, n \in T PROVE n + 1 \in T
    <3>1. ASSUME NEW i \in DOMAIN ns, i <= n + 1 PROVE G[i] = F[i]
      <4>1. \A j \in 1..(i - 1) : j \in DOMAIN ns /\ j <= n
        BY <1>1, <3>1
      <4>2. \A j \in 1..(i - 1) : G[j] = F[j]
        BY <2>2, <4>1
      <4>3. MetricAt(ns, G, i) = MetricAt(ns, F, i)
        BY <4>2, MetricAtAgree
      <4>4. QED  BY <1>2, <1>3, <4>3
    <3>2. QED  BY <3>1
  <2> HIDE DEF T
  <2>3. QED  BY <2>1, <2>2, Induction
<1>5. ASSUME NEW i \in DOMAIN ns PROVE G[i] = F[i]
  BY <1>1, <1>4
<1>6. QED  BY <1>5 DEF F, G

\* MetricsOf is this, of the entities of the store.
LEMMA MetricsOfIs == MetricsOf = Metrics(nodes)
BY DEF MetricsOf, Metrics, MetricAt, MetricWith, Mapped
-----------------------------------------------------------------------------
Keeps(ns, more) == \A i \in DOMAIN ns : i \in DOMAIN more /\ more[i] = ns[i]

\* First is the least of a set of numbers.
LEMMA LeastExists ==
  ASSUME NEW S \in SUBSET Nat, S # {}
  PROVE  First(S) \in S /\ \A j \in S : First(S) <= j
<1> DEFINE T == {n \in Nat : \A k \in S : n <= k}
<1>1. SUFFICES ASSUME \A i \in S : ~ \A j \in S : i <= j PROVE FALSE
  BY DEF First
<1>2. 0 \in T
  OBVIOUS
<1>3. ASSUME NEW n \in Nat, n \in T PROVE n + 1 \in T
  <2>1. n \notin S
    BY <1>1, <1>3
  <2>2. QED  BY <1>3, <2>1
<1>4. Nat \subseteq T
  <2> HIDE DEF T
  <2>1. QED  BY <1>2, <1>3, Induction
<1>5. PICK k \in S : TRUE
  OBVIOUS
<1>6. k + 1 \in T
  BY <1>4
<1>7. QED  BY <1>6

\* What is right for a store is right for a larger one.
LEMMA ContentLater ==
  ASSUME NEW m \in Nat, NEW n \in Nat, m <= n, NEW c, ContentOK(c, m)
  PROVE  ContentOK(c, n)
<1>1. 1..m \subseteq 1..n
  OBVIOUS
<1>2. QED  BY <1>1, SeqMonotonic DEF ContentOK

(* The store finds the content, or puts it behind the others.              *)
LEMMA InternIs ==
  ASSUME NEW ns, Dag(ns), NEW c, ContentOK(c, Len(ns)), NEW bl, NEW sx,
         NEW r, r = Intern(ns, c, bl, sx)
  PROVE  /\ Dag(r.nodes) /\ Keeps(ns, r.nodes)
         /\ r.id \in DOMAIN r.nodes /\ r.nodes[r.id].content = c
         /\ r.hit \in BOOLEAN /\ (r.hit => r.nodes = ns)
         /\ ~r.hit => /\ r.id \notin DOMAIN ns /\ DOMAIN r.nodes = DOMAIN ns \cup {r.id}
                      /\ r.nodes[r.id] = [content |-> c, syntax |-> sx, bytesLen |-> bl]
<1> DEFINE known == {i \in DOMAIN ns : ns[i].content = c}
           e == [content |-> c, syntax |-> sx, bytesLen |-> bl]
<1>1. Len(ns) \in Nat /\ DOMAIN ns = 1..Len(ns)
  BY Lists DEF Dag
<1>2. CASE known # {}
  <2>1. r = [nodes |-> ns, id |-> First(known), hit |-> TRUE]
    BY <1>2 DEF Intern
  <2>2. known \in SUBSET Nat
    BY <1>1
  <2>3. First(known) \in known
    <3> HIDE DEF known
    <3>1. QED  BY <1>2, <2>2, LeastExists
  <2>4. QED  BY <2>1, <2>3 DEF Keeps
<1>3. CASE known = {}
  <2> DEFINE more == Append(ns, e)
  <2>1. r = [nodes |-> more, id |-> Len(ns) + 1, hit |-> FALSE]
    BY <1>3 DEF Intern
  <2>2. e.content = c
    OBVIOUS
  <2> HIDE DEF e
  <2>3. /\ IsList(more) /\ DOMAIN more = 1..(Len(ns) + 1)
        /\ \A i \in DOMAIN ns : more[i] = ns[i]
        /\ more[Len(ns) + 1] = e
    BY ListAppends DEF Dag
  <2> HIDE DEF more
  <2>4. DOMAIN more = DOMAIN ns \cup {Len(ns) + 1} /\ Len(ns) + 1 \notin DOMAIN ns
    BY <1>1, <2>3
  <2>5. ASSUME NEW i \in DOMAIN more PROVE ContentOK(more[i].content, i - 1)
    <3>1. CASE i \in DOMAIN ns
      BY <2>3, <3>1 DEF Dag
    <3>2. CASE i = Len(ns) + 1
      <4>1. i - 1 = Len(ns)
        BY <1>1, <3>2
      <4>2. QED  BY <2>2, <2>3, <3>2, <4>1
    <3>3. QED  BY <2>4, <3>1, <3>2
  <2>6. Dag(more) /\ Keeps(ns, more)
    BY <2>3, <2>4, <2>5 DEF Dag, Keeps
  <2>7. QED  BY <2>1, <2>2, <2>3, <2>4, <2>6 DEF e
<1>4. QED  BY <1>2, <1>3

(* What was interned stands for its content.                               *)
LEMMA WithMore ==
  ASSUME NEW ns, NEW more, Dag(ns), Dag(more), Keeps(ns, more), NEW c, ContentOK(c, Len(ns))
  PROVE  /\ TextWith(Texts(more), c) = TextWith(Texts(ns), c)
         /\ MetricWith(Metrics(more), c) = MetricWith(Metrics(ns), c)
<1>1. DOMAIN ns = 1..Len(ns)
  BY Lists DEF Dag
<1>2. /\ \A j \in 1..Len(ns) : Texts(more)[j] = Texts(ns)[j]
      /\ \A j \in 1..Len(ns) : Metrics(more)[j] = Metrics(ns)[j]
  BY <1>1, TextsStay, MetricsStay DEF Keeps
<1>3. c.children \in Seq(1..Len(ns))
  BY DEF ContentOK
<1>4. /\ Mapped(Texts(more), c.children) = Mapped(Texts(ns), c.children)
      /\ Mapped(Metrics(more), c.children) = Mapped(Metrics(ns), c.children)
  <2> DEFINE f == Texts(more)
             g == Texts(ns)
             p == Metrics(more)
             q == Metrics(ns)
  <2>1. /\ \A j \in 1..Len(ns) : f[j] = g[j]
        /\ \A j \in 1..Len(ns) : p[j] = q[j]
    BY <1>2
  <2> HIDE DEF f, g, p, q
  <2>2. Mapped(f, c.children) = Mapped(g, c.children)
    BY <1>3, <2>1, MappedAgree
  <2>3. Mapped(p, c.children) = Mapped(q, c.children)
    BY <1>3, <2>1, MappedAgree
  <2>4. QED  BY <2>2, <2>3 DEF f, g, p, q
<1>5. QED  BY <1>4 DEF TextWith, MetricWith

\* What holds the content has its text and its metrics.
LEMMA InternMeans ==
  ASSUME NEW ns, Dag(ns), NEW c, ContentOK(c, Len(ns)), NEW more, Dag(more),
         Keeps(ns, more), NEW id \in DOMAIN more, more[id].content = c
  PROVE  /\ Texts(more)[id] = TextWith(Texts(ns), c)
         /\ Metrics(more)[id] = MetricWith(Metrics(ns), c)
<1>1. Texts(more)[id] = TextWith(Texts(more), c)
  BY TextsAre DEF TextAt
<1>2. Metrics(more)[id] = MetricWith(Metrics(more), c)
  BY MetricsAre DEF MetricAt
<1>3. QED  BY <1>1, <1>2, WithMore
-----------------------------------------------------------------------------
(* What the entities and the cache hold: the hash of what an entity stands *)
(* for, its length where it has one, but for roots, and in the cache the   *)
(* metrics of entities, of all those that only JavaTreeGen makes.          *)
JavaMade(kind) == kind \notin {SpacesKind, Error} /\ \E k : kind = <<Java, k>>

Stores(ns, cache, roots) ==
  /\ Dag(ns)
  /\ \A i \in DOMAIN ns : ns[i].syntax = Metrics(ns)[i].syntax
  /\ \A i \in DOMAIN ns \ roots :
       ns[i].bytesLen # None => ns[i].bytesLen = Len(Texts(ns)[i])
  /\ DOMAIN cache \subseteq DOMAIN ns
  /\ \A i \in DOMAIN cache : cache[i] = Metrics(ns)[i]
  /\ \A i \in DOMAIN ns : JavaMade(ns[i].content.kind) => i \in DOMAIN cache

\* What a generator remembers of an answer of the store.
Remembers(ns, cache, c, r, kept) ==
  \/ kept = cache /\ (r.hit \/ ~JavaMade(c.kind))
  \/ kept = [i \in DOMAIN cache \cup {r.id} |->
                IF i = r.id THEN MetricWith(Metrics(ns), c) ELSE cache[i]]

(* Interning keeps that.                                                   *)
LEMMA InternKeeps ==
  ASSUME NEW ns, NEW cache, NEW roots, Stores(ns, cache, roots),
         NEW c, ContentOK(c, Len(ns)), NEW bl, NEW sx, NEW r,
         r = Intern(ns, c, bl, sx),
         sx = MetricWith(Metrics(ns), c).syntax,
         NEW more, roots \subseteq more,
         bl # None => bl = Len(TextWith(Texts(ns), c)) \/ r.id \in more,
         NEW kept, Remembers(ns, cache, c, r, kept)
  PROVE  Stores(r.nodes, kept, more)
<1>0. Dag(ns)
  BY DEF Stores
<1>1. /\ Dag(r.nodes) /\ Keeps(ns, r.nodes)
      /\ r.id \in DOMAIN r.nodes /\ r.nodes[r.id].content = c
      /\ r.hit \in BOOLEAN /\ (r.hit => r.nodes = ns)
      /\ ~r.hit => /\ r.id \notin DOMAIN ns /\ DOMAIN r.nodes = DOMAIN ns \cup {r.id}
                   /\ r.nodes[r.id] = [content |-> c, syntax |-> sx, bytesLen |-> bl]
  BY <1>0, InternIs
<1>2. /\ Texts(r.nodes)[r.id] = TextWith(Texts(ns), c)
      /\ Metrics(r.nodes)[r.id] = MetricWith(Metrics(ns), c)
  <2> DEFINE ms == r.nodes
             id == r.id
  <2>1. Dag(ms) /\ Keeps(ns, ms) /\ id \in DOMAIN ms /\ ms[id].content = c
    BY <1>1
  <2> HIDE DEF ms, id
  <2>2. Texts(ms)[id] = TextWith(Texts(ns), c) /\ Metrics(ms)[id] = MetricWith(Metrics(ns), c)
    BY <1>0, <2>1, InternMeans
  <2>3. QED  BY <2>2 DEF ms, id
<1>3. \A i \in DOMAIN ns : /\ Texts(r.nodes)[i] = Texts(ns)[i]
                           /\ Metrics(r.nodes)[i] = Metrics(ns)[i]
                           /\ i \in DOMAIN r.nodes /\ r.nodes[i] = ns[i]
  BY <1>1, TextsStay, MetricsStay DEF Stores, Keeps
<1>4. \A i \in DOMAIN r.nodes : i \in DOMAIN ns \/ (~r.hit /\ i = r.id)
  BY <1>1
<1>5. ASSUME NEW i \in DOMAIN r.nodes
      PROVE  /\ r.nodes[i].syntax = Metrics(r.nodes)[i].syntax
             /\ i \notin more /\ r.nodes[i].bytesLen # None =>
                  r.nodes[i].bytesLen = Len(Texts(r.nodes)[i])
             /\ JavaMade(r.nodes[i].content.kind) => i \in DOMAIN kept
  <2>1. CASE i \in DOMAIN ns
    <3>1. DOMAIN cache \subseteq DOMAIN kept
      BY DEF Remembers
    <3>2. QED  BY <1>3, <2>1, <3>1 DEF Stores
  <2>2. CASE ~r.hit /\ i = r.id
    <3>1. r.nodes[i].syntax = sx /\ r.nodes[i].bytesLen = bl /\ r.nodes[i].content = c
      BY <1>1, <2>2
    <3>2. JavaMade(c.kind) => i \in DOMAIN kept
      BY <2>2 DEF Remembers
    <3>3. QED  BY <1>2, <2>2, <3>1, <3>2
  <2>3. QED  BY <1>4, <2>1, <2>2
<1>6. ASSUME NEW i \in DOMAIN kept
      PROVE  i \in DOMAIN r.nodes /\ kept[i] = Metrics(r.nodes)[i]
  <2>1. CASE kept = cache
    BY <1>3, <2>1 DEF Stores
  <2>2. CASE kept = [j \in DOMAIN cache \cup {r.id} |->
                       IF j = r.id THEN MetricWith(Metrics(ns), c) ELSE cache[j]]
    <3>1. CASE i = r.id
      BY <1>1, <1>2, <2>2, <3>1
    <3>2. CASE i # r.id
      <4>1. i \in DOMAIN cache /\ kept[i] = cache[i]
        BY <2>2, <3>2
      <4>2. QED  BY <1>3, <4>1 DEF Stores
    <3>3. QED  BY <3>1, <3>2
  <2>3. QED  BY <2>1, <2>2 DEF Remembers
<1>7. QED  BY <1>1, <1>5, <1>6 DEF Stores
-----------------------------------------------------------------------------
(* Accumulators: their children are entities, and their metrics those of   *)
(* the children so far.                                                    *)
AccGood(ns, a) ==
  /\ a = [kind |-> a.kind, label |-> a.label, children |-> a.children,
          start |-> a.start, end |-> a.end, padding |-> a.padding,
          metrics |-> a.metrics]
  /\ a.children \in Seq(1..Len(ns))
  /\ a.metrics = Accumulated(Mapped(Metrics(ns), a.children))

\* The same node, with more children.
SameNode(a, b) ==
  /\ a.kind = b.kind /\ a.label = b.label
  /\ a.start = b.start /\ a.end = b.end /\ a.padding = b.padding

SpellIn(ns, children) == FlattenSeq(Mapped(Texts(ns), children))

\* Spelled is this, of the entities of the store.
LEMMA SpelledIs == \A children : Spelled(children) = SpellIn(nodes, children)
BY TextOfIs DEF Spelled, SpellIn, Mapped

\* What children spell is a text.
LEMMA SpelledText ==
  ASSUME NEW ns, Dag(ns), NEW s \in Seq(1..Len(ns))
  PROVE  SpellIn(ns, s) \in Seq(Byte)
<1> DEFINE f == Texts(ns)
<1>1. DOMAIN ns = 1..Len(ns)
  BY Lists DEF Dag
<1>2. \A j \in 1..Len(ns) : f[j] \in Seq(Byte)
  BY <1>1, TextsTyped
<1> HIDE DEF f
<1>3. Len(s) \in Nat /\ DOMAIN s = 1..Len(s) /\ \A k \in 1..Len(s) : s[k] \in 1..Len(ns)
  BY LenProperties, ElementOfSeq
<1>4. Mapped(f, s) \in [1..Len(s) -> Seq(Byte)]
  BY <1>2, <1>3 DEF Mapped
<1>5. Mapped(f, s) \in Seq(Seq(Byte))
  <2> DEFINE S == Seq(Byte)
             ts == Mapped(f, s)
  <2>1. ts \in [1..Len(s) -> S] /\ Len(s) \in Nat
    BY <1>3, <1>4
  <2> HIDE DEF S, ts
  <2>2. ts \in Seq(S)
    BY <2>1, SeqDef
  <2>3. QED  BY <2>2 DEF S, ts
<1>6. QED  BY <1>5, FlattenTexts DEF SpellIn, f

\* A growing store changes neither an accumulator nor what it spells.
LEMMA AccStays ==
  ASSUME NEW ns, NEW more, Dag(ns), Dag(more), Keeps(ns, more), NEW a, AccGood(ns, a)
  PROVE  AccGood(more, a) /\ SpellIn(more, a.children) = SpellIn(ns, a.children)
<1> DEFINE f == Texts(more)
           g == Texts(ns)
           p == Metrics(more)
           q == Metrics(ns)
<1>1. /\ Len(ns) \in Nat /\ DOMAIN ns = 1..Len(ns)
      /\ Len(more) \in Nat /\ DOMAIN more = 1..Len(more)
  BY Lists DEF Dag
<1>2. /\ \A j \in 1..Len(ns) : f[j] = g[j]
      /\ \A j \in 1..Len(ns) : p[j] = q[j]
  BY <1>1, TextsStay, MetricsStay DEF Keeps
<1>3. a.children \in Seq(1..Len(ns))
  BY DEF AccGood
<1>4. 1..Len(ns) \subseteq 1..Len(more)
  BY <1>1 DEF Keeps
<1>5. a.children \in Seq(1..Len(more))
  BY <1>3, <1>4, SeqMonotonic
<1> HIDE DEF f, g, p, q
<1>6. Mapped(f, a.children) = Mapped(g, a.children)
  BY <1>2, <1>3, MappedAgree
<1>7. Mapped(p, a.children) = Mapped(q, a.children)
  BY <1>2, <1>3, MappedAgree
<1>8. QED  BY <1>5, <1>6, <1>7 DEF AccGood, SpellIn, f, g, p, q

\* Pushing a child adds its text behind the others.
LEMMA PushGood ==
  ASSUME NEW ns, Dag(ns), NEW a, AccGood(ns, a), NEW id \in DOMAIN ns, NEW m,
         m = Metrics(ns)[id], NEW b, b = Push(a, id, m)
  PROVE  /\ AccGood(ns, b) /\ SameNode(a, b) /\ b.children # <<>>
         /\ SpellIn(ns, b.children) = SpellIn(ns, a.children) \o Texts(ns)[id]
<1> DEFINE s == a.children
           t == Append(s, id)
           f == Texts(ns)
           q == Metrics(ns)
<1>1. Len(ns) \in Nat /\ DOMAIN ns = 1..Len(ns)
  BY Lists DEF Dag
<1>2. s \in Seq(1..Len(ns)) /\ id \in 1..Len(ns)
  BY <1>1 DEF AccGood
<1>3. /\ b.children = t /\ b.metrics = AccMetrics(a.metrics, m) /\ SameNode(a, b)
      /\ b = [kind |-> b.kind, label |-> b.label, children |-> b.children,
              start |-> b.start, end |-> b.end, padding |-> b.padding,
              metrics |-> b.metrics]
  BY DEF Push, AccGood, SameNode
<1>4. a.metrics = Accumulated(Mapped(q, s)) /\ m = q[id]
  BY DEF AccGood
<1>5. f[id] \in Seq(Byte) /\ SpellIn(ns, s) \in Seq(Byte)
  BY <1>2, TextsTyped, SpelledText
<1> HIDE DEF s, t, f, q
<1>6. /\ IsList(s) /\ IsList(t) /\ Len(t) = Len(s) + 1 /\ t \in Seq(1..Len(ns))
      /\ t # <<>> /\ \A k \in 1..Len(s) : t[k] = s[k]
      /\ t[Len(t)] = id /\ Len(s) \in Nat
  <2>1. /\ Append(s, id) \in Seq(1..Len(ns)) /\ Append(s, id) # <<>>
        /\ Len(Append(s, id)) = Len(s) + 1
        /\ \A k \in 1..Len(s) : Append(s, id)[k] = s[k]
        /\ Append(s, id)[Len(s) + 1] = id
    BY <1>2, AppendProperties
  <2>2. IsList(s) /\ Len(s) \in Nat
    BY <1>2, ListOfType, LenProperties
  <2>3. IsList(Append(s, id))
    BY <2>1, ListOfType
  <2>4. QED  BY <2>1, <2>2, <2>3 DEF t
<1>7. ASSUME NEW g
      PROVE  /\ IsList(Mapped(g, s)) /\ IsList(Mapped(g, t))
             /\ Len(Mapped(g, s)) = Len(s) /\ Len(Mapped(g, t)) = Len(s) + 1
             /\ \A k \in 1..Len(s) : Mapped(g, t)[k] = Mapped(g, s)[k]
             /\ Mapped(g, t)[Len(s) + 1] = g[id]
  <2>1. /\ IsList(Mapped(g, s)) /\ Len(Mapped(g, s)) = Len(s)
        /\ \A k \in 1..Len(s) : Mapped(g, s)[k] = g[s[k]]
    BY <1>6, MappedIs
  <2>2. /\ IsList(Mapped(g, t)) /\ Len(Mapped(g, t)) = Len(t)
        /\ \A k \in 1..Len(t) : Mapped(g, t)[k] = g[t[k]]
    BY <1>6, MappedIs
  <2>3. Len(s) + 1 \in 1..Len(t) /\ \A k \in 1..Len(s) : k \in 1..Len(t)
    BY <1>6
  <2>4. QED  BY <1>6, <2>1, <2>2, <2>3
<1>8. Accumulated(Mapped(q, t)) = AccMetrics(Accumulated(Mapped(q, s)), q[id])
  <2>1. \A k \in 1..Len(Mapped(q, s)) : Mapped(q, t)[k] = Mapped(q, s)[k]
    BY <1>7
  <2>2. Accumulated(Mapped(q, t)) =
          AccMetrics(Accumulated(Mapped(q, s)), Mapped(q, t)[Len(Mapped(q, t))])
    BY <1>7, <2>1, AccumulatedOneMore
  <2>3. QED  BY <1>7, <2>2
<1>9. FlattenSeq(Mapped(f, t)) = FlattenSeq(Mapped(f, s)) \o f[id]
  <2>1. \A k \in 1..Len(Mapped(f, s)) : Mapped(f, t)[k] = Mapped(f, s)[k]
    BY <1>7
  <2>2. FlattenSeq(Mapped(f, t)) =
          IF Len(Mapped(f, s)) = 0 THEN Mapped(f, t)[1]
          ELSE FlattenSeq(Mapped(f, s)) \o Mapped(f, t)[Len(Mapped(f, t))]
    BY <1>7, <2>1, FlattenOneMore
  <2>3. CASE Len(s) = 0
    <3>1. Mapped(f, t)[1] = f[id]
      BY <1>7, <2>3
    <3>2. FlattenSeq(Mapped(f, s)) = <<>>
      BY <1>7, <2>3, FlattenNone
    <3>3. <<>> \o f[id] = f[id]
      BY <1>5, ConcatEmptySeq
    <3>4. QED  BY <1>7, <2>2, <2>3, <3>1, <3>2, <3>3
  <2>4. CASE Len(s) # 0
    <3>1. Len(Mapped(f, s)) # 0 /\ Mapped(f, t)[Len(Mapped(f, t))] = f[id]
      BY <1>7, <2>4
    <3>2. QED  BY <2>2, <3>1
  <2>5. QED  BY <2>3, <2>4
<1>10. AccGood(ns, b)
  BY <1>3, <1>4, <1>6, <1>8 DEF AccGood, q
<1>11. SpellIn(ns, b.children) = SpellIn(ns, s) \o f[id]
  BY <1>3, <1>9 DEF SpellIn, f
<1>12. QED  BY <1>3, <1>6, <1>10, <1>11 DEF s, f
-----------------------------------------------------------------------------
\* A blank gap is the canonical form of its text.
LEMMA GapIs ==
  ASSUME NEW text \in Seq(Byte), file.text = text, NEW to \in 0..Len(text),
         NEW from \in 0..to, IsBlank(Gap(from, to))
  PROVE  /\ Gap(from, to) \in Seq(Byte)
         /\ Gap(from, to) = Canonical(Piece(text, from, to))
<1> DEFINE g == Gap(from, to)
           p == Piece(text, from, to)
<1>1. Len(text) \in Nat /\ \A i \in 1..Len(text) : text[i] \in Byte
  BY LenProperties, ElementOfSeq
<1>2. to - from \in Nat /\ \A k \in 1..(to - from) : from + k \in 1..Len(text)
  BY <1>1
<1>3. /\ g = [k \in 1..(to - from) |-> Formatted(text[from + k])]
      /\ \A k \in 1..(to - from) : g[k] = Formatted(text[from + k]) /\ g[k] # None
  BY DEF Gap, IsBlank
<1>4. /\ p \in Seq(Byte) /\ Len(p) = to - from
      /\ \A k \in 1..(to - from) : p[k] = text[from + k]
  BY PieceIs
<1>5. /\ Canonical(p) \in Seq(Byte) /\ Len(Canonical(p)) = Len(p)
      /\ \A k \in 1..Len(p) : Canonical(p)[k] = Canon(p[k])
  BY <1>4, CanonicalIs
<1> HIDE DEF g, p
<1>6. \A k \in 1..(to - from) : g[k] \in Byte /\ g[k] = Canonical(p)[k]
  BY <1>1, <1>2, <1>3, <1>4, <1>5, FormattedAssumption DEF Canon
<1>7. g \in Seq(Byte) /\ Len(g) = to - from
  <2>1. g \in [1..(to - from) -> Byte]
    BY <1>3, <1>6
  <2>2. QED  BY <1>2, <2>1, SeqDef
<1>8. g = Canonical(p)
  <2> DEFINE cp == Canonical(p)
  <2>1. cp \in Seq(Byte) /\ Len(cp) = Len(g) /\ \A k \in 1..Len(g) : g[k] = cp[k]
    BY <1>4, <1>5, <1>6, <1>7
  <2> HIDE DEF cp
  <2>2. g = cp
    BY <1>7, <2>1, SeqEqual
  <2>3. QED  BY <2>2 DEF cp
<1>9. QED  BY <1>7, <1>8 DEF g, p
-----------------------------------------------------------------------------
(* handle_spacing adds the text of the gap to the parent, if it is blank.  *)
Spaced(ns, a, roots, from, to, h) ==
  /\ Stores(h.nodes, mdCache, roots) /\ Keeps(ns, h.nodes)
  /\ AccGood(h.nodes, h.parent) /\ SameNode(a, h.parent)
  /\ a.children # <<>> => h.parent.children # <<>>
  /\ from = to => h.parent = a /\ h.nodes = ns
  /\ (from = to \/ IsBlank(Gap(from, to))) =>
       /\ h.ok = TRUE
       /\ Canonical(SpellIn(h.nodes, h.parent.children))
            = Canonical(SpellIn(ns, a.children)) \o Canonical(Piece(file.text, from, to))
  /\ ~(from = to \/ IsBlank(Gap(from, to))) =>
       h.ok = (file.lang = Xml) /\ h.parent = a /\ h.nodes = ns

\* handle_spacing does that.
LEMMA SpacingRight ==
  ASSUME NEW ns, NEW roots, Stores(ns, mdCache, roots), file.text \in Seq(Byte),
         NEW to \in 0..Len(file.text), NEW from \in 0..to,
         NEW a, AccGood(ns, a), NEW h, h = HandleSpacing(ns, a, from, to)
  PROVE  Spaced(ns, a, roots, from, to, h)
<1>0. PICK text \in Seq(Byte) : text = file.text
  OBVIOUS
<1>00. to \in 0..Len(text)
  BY <1>0
<1>1. PICK gap : gap = Gap(from, to)
  OBVIOUS
<1>2. PICK c : c = BlankContent(gap)
  OBVIOUS
<1>3. PICK m : m = SpacesMetrics(gap)
  OBVIOUS
<1>4. PICK bl : bl = SpacesLen(gap)
  OBVIOUS
<1>5. PICK put : put = Intern(ns, c, bl, m.syntax)
  OBVIOUS
<1>6. PICK p : p = Piece(text, from, to)
  OBVIOUS
<1>7. PICK s : s = SpellIn(ns, a.children)
  OBVIOUS
<1>8. Len(text) \in Nat /\ Dag(ns)
  BY LenProperties DEF Stores
<1>9. s \in Seq(Byte) /\ p \in Seq(Byte)
  BY <1>00, <1>6, <1>7, <1>8, SpelledText, PieceIs DEF AccGood
<1>10. CASE from = to \/ ~IsBlank(gap)
  <2>1. h = [nodes |-> ns, parent |-> a, ok |-> from = to \/ file.lang = Xml]
    BY <1>1, <1>10 DEF HandleSpacing
  <2>2. h.nodes = ns /\ h.parent = a /\ h.ok = (from = to \/ file.lang = Xml)
    BY <2>1
  <2>3. Keeps(ns, ns) /\ SameNode(a, a)
    BY DEF Keeps, SameNode
  <2>4. ASSUME from = to PROVE Canonical(s) = Canonical(s) \o Canonical(p)
    <3>1. p = <<>>
      BY <1>00, <1>6, <1>8, <2>4, PieceOfAll
    <3>2. Canonical(<<>>) = <<>>
      BY DEF Canonical
    <3>3. Canonical(s) \in Seq(Byte)
      BY <1>9, CanonicalIs
    <3>4. Canonical(s) \o <<>> = Canonical(s)
      BY <3>3, ConcatEmptySeq
    <3>5. QED  BY <3>1, <3>2, <3>4
  <2>5. QED  BY <1>0, <1>1, <1>6, <1>7, <1>10, <2>2, <2>3, <2>4 DEF Spaced
<1>11. CASE from # to /\ IsBlank(gap)
  <2>1. h = [nodes |-> put.nodes, parent |-> Push(a, put.id, m), ok |-> TRUE]
    BY <1>1, <1>2, <1>3, <1>4, <1>5, <1>11 DEF HandleSpacing
  <2>2. gap \in Seq(Byte) /\ gap = Canonical(p)
    BY <1>0, <1>00, <1>1, <1>6, <1>11, GapIs
  <2>3. /\ c.kind = SpacesKind /\ c.children = <<>> /\ c.blank = gap
        /\ TextWith(Texts(ns), c) = gap /\ MetricWith(Metrics(ns), c) = m
    BY <1>2, <1>3 DEF BlankContent, TextWith, MetricWith
  <2>4. ContentOK(c, Len(ns)) /\ Remembers(ns, mdCache, c, put, mdCache)
    BY <2>2, <2>3, EmptySeq DEF ContentOK, JavaMade, Remembers
  <2>5. bl # None => bl = Len(gap)
    BY <1>4 DEF SpacesLen
  <2>6. /\ Dag(put.nodes) /\ Keeps(ns, put.nodes) /\ put.id \in DOMAIN put.nodes
        /\ put.nodes[put.id].content = c
    <3>1. /\ Dag(put.nodes) /\ Keeps(ns, put.nodes)
          /\ put.id \in DOMAIN put.nodes /\ put.nodes[put.id].content = c
          /\ put.hit \in BOOLEAN /\ (put.hit => put.nodes = ns)
          /\ ~put.hit =>
               /\ put.id \notin DOMAIN ns /\ DOMAIN put.nodes = DOMAIN ns \cup {put.id}
               /\ put.nodes[put.id] = [content |-> c, syntax |-> m.syntax, bytesLen |-> bl]
      BY <1>5, <1>8, <2>4, InternIs
    <3>2. QED  BY <3>1
  <2>7. Stores(put.nodes, mdCache, roots)
    BY <1>5, <2>3, <2>4, <2>5, InternKeeps
  <2>8. Texts(put.nodes)[put.id] = gap /\ Metrics(put.nodes)[put.id] = m
    BY <1>8, <2>3, <2>4, <2>6, InternMeans
  <2>9. AccGood(put.nodes, a) /\ SpellIn(put.nodes, a.children) = s
    BY <1>7, <1>8, <2>6, AccStays
  <2>10. h.nodes = put.nodes /\ h.parent = Push(a, put.id, m) /\ h.ok = TRUE
    BY <2>1
  <2>11. PICK b : b = Push(a, put.id, m)
    OBVIOUS
  <2>12. PICK ms : ms = put.nodes
    OBVIOUS
  <2>13. PICK id : id = put.id
    OBVIOUS
  <2>14. /\ AccGood(ms, b) /\ SameNode(a, b) /\ b.children # <<>>
         /\ SpellIn(ms, b.children) = s \o gap
    <3>1. /\ Dag(ms) /\ AccGood(ms, a) /\ id \in DOMAIN ms /\ m = Metrics(ms)[id]
          /\ Texts(ms)[id] = gap /\ SpellIn(ms, a.children) = s
      BY <2>6, <2>8, <2>9, <2>12, <2>13
    <3>2. b = Push(a, id, m)
      BY <2>11, <2>13
    <3>3. /\ AccGood(ms, b) /\ SameNode(a, b) /\ b.children # <<>>
          /\ SpellIn(ms, b.children) = SpellIn(ms, a.children) \o Texts(ms)[id]
      BY <3>1, <3>2, PushGood
    <3>4. QED  BY <3>1, <3>3
  <2>15. Canonical(s \o gap) = Canonical(s) \o Canonical(p)
    <3>1. Canonical(s \o gap) = Canonical(s) \o Canonical(gap)
      BY <1>9, <2>2, CanonicalJoins
    <3>2. Canonical(gap) = Canonical(p)
      BY <1>9, <2>2, CanonicalTwice
    <3>3. QED  BY <3>1, <3>2
  <2>16. /\ h.nodes = ms /\ h.parent = b /\ h.ok = TRUE
         /\ Stores(ms, mdCache, roots) /\ Keeps(ns, ms)
         /\ Canonical(SpellIn(ms, b.children)) = Canonical(s) \o Canonical(p)
    BY <2>6, <2>7, <2>10, <2>11, <2>12, <2>14, <2>15
  <2>17. IsBlank(Gap(from, to)) /\ from # to
    BY <1>1, <1>11
  <2>18. QED  BY <1>0, <1>6, <1>7, <2>14, <2>16, <2>17 DEF Spaced
<1>12. QED  BY <1>10, <1>11

(* make stores what its accumulator stands for, and answers the metrics of *)
(* that.  It gives up on an ERROR of the other generator only.             *)
Made(ns, a, more, r) ==
  /\ r.ok =>
       /\ Stores(r.nodes, r.cache, more) /\ Keeps(ns, r.nodes)
       /\ r.id \in DOMAIN r.nodes /\ r.metrics = Metrics(r.nodes)[r.id]
       /\ Texts(r.nodes)[r.id] = TextWith(Texts(ns), Content(a))
  /\ r.ok \in BOOLEAN
  /\ ~r.ok => a.kind = Error

\* make does that, for what an accumulator may hold.
LEMMA MakeRight ==
  ASSUME NEW ns, NEW roots, Stores(ns, mdCache, roots), file.lang \in {Java, Xml},
         NEW a, AccGood(ns, a), a.kind # SpacesKind,
         ContentOK(Content(a), Len(ns)),
         JavaMade(a.kind) \/ a.kind = Error \/ file.lang # Java,
         file.lang = Xml => ~JavaMade(a.kind),
         NEW r, r = Make(ns, a), NEW more, roots \subseteq more,
         NodeLen(a) # None =>
           NodeLen(a) = Len(TextWith(Texts(ns), Content(a))) \/ r.id \in more
  PROVE  Made(ns, a, more, r)
<1>1. PICK c : c = Content(a)
  OBVIOUS
<1>2. PICK m : m = NodeMetrics(a.kind, a.label, a.metrics)
  OBVIOUS
<1>3. PICK bl : bl = NodeLen(a)
  OBVIOUS
<1>4. PICK put : put = Intern(ns, c, bl, m.syntax)
  OBVIOUS
<1>5. PICK cached : cached = (file.lang = Java /\ put.hit)
  OBVIOUS
<1>6. PICK ok : ok = (cached => put.id \in DOMAIN mdCache)
  OBVIOUS
<1>7. PICK kept : kept = IF file.lang = Java /\ ~put.hit
                         THEN [i \in DOMAIN mdCache \cup {put.id} |->
                                 IF i = put.id THEN m ELSE mdCache[i]]
                         ELSE mdCache
  OBVIOUS
<1>8. /\ r.nodes = put.nodes /\ r.id = put.id /\ r.ok = ok /\ r.cache = kept
      /\ r.metrics = IF cached /\ ok THEN mdCache[put.id] ELSE m
  <2>1. r = [nodes |-> put.nodes, id |-> put.id, ok |-> ok,
             metrics |-> IF cached /\ ok THEN mdCache[put.id] ELSE m, cache |-> kept]
    BY <1>1, <1>2, <1>3, <1>4, <1>5, <1>6, <1>7, Zenon DEF Make
  <2>2. QED  BY <2>1
<1>9. c.kind = a.kind /\ MetricWith(Metrics(ns), c) = m
  BY <1>1, <1>2 DEF Content, MetricWith, AccGood
<1>10. Dag(ns) /\ ContentOK(c, Len(ns))
  BY <1>1 DEF Stores
<1>11. /\ Dag(put.nodes) /\ Keeps(ns, put.nodes) /\ put.id \in DOMAIN put.nodes
       /\ put.nodes[put.id].content = c /\ put.hit \in BOOLEAN
       /\ (put.hit => put.nodes = ns)
  <2>1. /\ Dag(put.nodes) /\ Keeps(ns, put.nodes)
        /\ put.id \in DOMAIN put.nodes /\ put.nodes[put.id].content = c
        /\ put.hit \in BOOLEAN /\ (put.hit => put.nodes = ns)
        /\ ~put.hit =>
             /\ put.id \notin DOMAIN ns /\ DOMAIN put.nodes = DOMAIN ns \cup {put.id}
             /\ put.nodes[put.id] = [content |-> c, syntax |-> m.syntax, bytesLen |-> bl]
    BY <1>4, <1>10, InternIs
  <2>2. QED  BY <2>1
<1>12. /\ Texts(put.nodes)[put.id] = TextWith(Texts(ns), c)
       /\ Metrics(put.nodes)[put.id] = m
  BY <1>9, <1>10, <1>11, InternMeans
<1>13. cached \in BOOLEAN /\ ok \in BOOLEAN
  BY <1>5, <1>6
<1>14. ASSUME ok PROVE Stores(put.nodes, kept, more)
  <2>1. bl # None => bl = Len(TextWith(Texts(ns), c)) \/ put.id \in more
    BY <1>1, <1>3, <1>8
  <2>2. Remembers(ns, mdCache, c, put, kept)
    <3>1. Java # Xml
      BY ConstantsAssumption
    <3>2. CASE file.lang = Java /\ ~put.hit
      BY <1>7, <1>9, <3>2 DEF Remembers
    <3>3. CASE file.lang = Xml
      BY <1>7, <1>9, <3>1, <3>3 DEF Remembers
    <3>4. CASE put.hit
      BY <1>7, <3>4 DEF Remembers
    <3>5. QED  BY <3>2, <3>3, <3>4
  <2>3. PICK sx : sx = m.syntax
    OBVIOUS
  <2>4. put = Intern(ns, c, bl, sx) /\ sx = MetricWith(Metrics(ns), c).syntax
    BY <1>4, <1>9, <2>3
  <2>5. QED  BY <1>10, <2>1, <2>2, <2>4, InternKeeps
<1>15. ASSUME ok PROVE r.metrics = Metrics(put.nodes)[put.id]
  BY <1>5, <1>6, <1>8, <1>11, <1>12, <1>13, <1>15 DEF Stores
<1>16. ASSUME ~ok PROVE a.kind = Error
  <2>1. put.hit /\ put.id \notin DOMAIN mdCache /\ file.lang = Java
    BY <1>5, <1>6, <1>16
  <2>2. put.id \in DOMAIN ns /\ ns[put.id].content.kind = a.kind
    BY <1>9, <1>11, <2>1
  <2>3. ~JavaMade(a.kind)
    BY <2>1, <2>2 DEF Stores
  <2>4. QED  BY <2>1, <2>3
<1>17. QED  BY <1>1, <1>8, <1>11, <1>12, <1>13, <1>14, <1>15, <1>16 DEF Made
-----------------------------------------------------------------------------
(* What Parsed says, node by node.                                         *)
LEMMA Trees ==
  ASSUME NEW f, Parsed(f)
  PROVE  /\ f.lang \in {Java, Xml} /\ f.name \in Seq(Byte) /\ f.text \in Seq(Byte)
         /\ Len(f.text) \in Nat
         /\ Len(f.tree) \in Nat /\ DOMAIN f.tree = 1..Len(f.tree) /\ 1 \in DOMAIN f.tree
         /\ f.tree[1].parent \notin DOMAIN f.tree
         /\ \A i \in DOMAIN f.tree :
              /\ i # 1 => f.tree[i].parent \in DOMAIN f.tree /\ f.tree[i].parent < i
              /\ f.tree[i].start \in Nat /\ f.tree[i].end \in Nat
              /\ f.tree[i].start <= f.tree[i].end /\ f.tree[i].end <= Len(f.text)
              /\ TypeIn(f, f.tree[i].kind) # SpacesKind
              /\ TypeIn(f, f.tree[i].kind) = Error => f.tree[i].kind = Error
<1>1. /\ f.tree \in Seq(Range(f.tree)) /\ 1 \in DOMAIN f.tree
      /\ f.lang \in {Java, Xml} /\ f.name \in Seq(Byte) /\ f.text \in Seq(Byte)
      /\ f.tree[1].parent \notin DOMAIN f.tree
  BY DEF Parsed
<1>2. /\ Len(f.text) \in Nat /\ Len(f.tree) \in Nat /\ DOMAIN f.tree = 1..Len(f.tree)
  BY <1>1, LenProperties
<1>3. ASSUME NEW i \in DOMAIN f.tree
      PROVE  /\ i # 1 => f.tree[i].parent \in 1..(i - 1)
             /\ f.tree[i].start \in 0..f.tree[i].end /\ f.tree[i].end \in 0..Len(f.text)
             /\ TypeIn(f, f.tree[i].kind) # SpacesKind
             /\ TypeIn(f, f.tree[i].kind) = Error => f.tree[i].kind = Error
  BY DEF Parsed
<1>4. QED  BY <1>1, <1>2, <1>3

\* Children are in their parent, in order, and come after it.
LEMMA Kids ==
  ASSUME NEW f, Parsed(f), NEW i \in DOMAIN f.tree, NEW j \in ChildrenIn(f, i)
  PROVE  /\ j \in DOMAIN f.tree /\ j # 1 /\ i < j /\ f.tree[j].parent = i
         /\ f.tree[i].start <= f.tree[j].start /\ f.tree[j].end <= f.tree[i].end
         /\ \A k \in ChildrenIn(f, i) : j < k => f.tree[j].end <= f.tree[k].start
<1>1. j \in DOMAIN f.tree /\ f.tree[j].parent = i
  BY DEF ChildrenIn
<1>2. j # 1
  BY <1>1, Trees
<1>3. i < j
  BY <1>1, <1>2, Trees
<1>4. /\ f.tree[i].start <= f.tree[j].start /\ f.tree[j].end <= f.tree[i].end
      /\ \A k \in ChildrenIn(f, i) : j < k => f.tree[j].end <= f.tree[k].start
  BY DEF Parsed
<1>5. QED  BY <1>1, <1>2, <1>3, <1>4

\* But for the root, a node of Java ends with its last child.
LEMMA EndsWithLast ==
  ASSUME NEW f, Parsed(f), f.lang = Java, NEW i \in DOMAIN f.tree, i # 1,
         NEW at, \A k \in ChildrenIn(f, i) : f.tree[k].end <= at,
         NEW j \in ChildrenIn(f, i), at = f.tree[j].end
  PROVE  at = f.tree[i].end
<1>1. \E k \in ChildrenIn(f, i) : f.tree[k].end = f.tree[i].end
  BY DEF Parsed
<1>2. f.tree[j].end <= f.tree[i].end /\ f.tree[j].end \in Nat /\ f.tree[i].end \in Nat
  BY Kids, Trees
<1>3. QED  BY <1>1, <1>2

\* A leaf without a name is its keyword.
LEMMA LeafText ==
  ASSUME NEW f, Parsed(f), NEW i \in DOMAIN f.tree, i # 1, ChildrenIn(f, i) = {},
         ~f.tree[i].named
  PROVE  Spelling(TypeIn(f, f.tree[i].kind)) = Piece(f.text, f.tree[i].start, f.tree[i].end)
BY DEF Parsed, Piece

\* No node begins before the root.
LEMMA InRoot ==
  ASSUME NEW f, Parsed(f)
  PROVE  \A i \in DOMAIN f.tree : f.tree[1].start <= f.tree[i].start
<1> DEFINE T == {n \in Nat : \A i \in DOMAIN f.tree : i <= n => f.tree[1].start <= f.tree[i].start}
<1>1. DOMAIN f.tree = 1..Len(f.tree) /\ Len(f.tree) \in Nat
  BY Trees
<1>2. 0 \in T
  BY <1>1
<1>3. ASSUME NEW n \in Nat, n \in T PROVE n + 1 \in T
  <2>1. ASSUME NEW i \in DOMAIN f.tree, i = n + 1 PROVE f.tree[1].start <= f.tree[i].start
    <3>1. CASE i = 1
      BY <3>1, Trees
    <3>2. CASE i # 1
      <4>1. f.tree[i].parent \in DOMAIN f.tree /\ f.tree[i].parent <= n
        BY <1>1, <2>1, <3>2, Trees
      <4>2. f.tree[1].start <= f.tree[f.tree[i].parent].start
        BY <1>3, <4>1
      <4>3. i \in ChildrenIn(f, f.tree[i].parent)
        BY DEF ChildrenIn
      <4>4. f.tree[f.tree[i].parent].start <= f.tree[i].start
        BY <4>1, <4>3, Kids
      <4>5. QED  BY <4>1, <4>2, <4>4, Trees
    <3>3. QED  BY <3>1, <3>2
  <2>2. \A i \in DOMAIN f.tree : i <= n + 1 => i <= n \/ i = n + 1
    BY <1>1
  <2>3. QED  BY <1>3, <2>1, <2>2
<1>4. Nat \subseteq T
  <2> HIDE DEF T
  <2>1. QED  BY <1>2, <1>3, Induction
<1>5. QED  BY <1>1, <1>4
-----------------------------------------------------------------------------
(* A byte is in the text of a node.                                        *)
Covers(f, i, k) == f.tree[i].start < k /\ k <= f.tree[i].end

\* From the root to the nth.
IsPath(f, P, n) ==
  /\ n \in Nat \ {0} /\ P[1] = 1
  /\ \A d \in 1..n : P[d] \in DOMAIN f.tree
  /\ \A d \in 1..n : d # 1 => f.tree[P[d]].parent = P[d - 1]

(* The nodes with a byte that is in the last of a path, or the path is the *)
(* root alone, and in no child of the last, are those of the path.         *)
LEMMA CoversOnPath ==
  ASSUME NEW f, Parsed(f), NEW n, NEW P, IsPath(f, P, n),
         NEW k \in Nat, \A d \in 1..n : d # 1 => Covers(f, P[d], k),
         \A j \in ChildrenIn(f, P[n]) : ~Covers(f, j, k)
  PROVE  \A i \in DOMAIN f.tree : Covers(f, i, k) => \E d \in 1..n : P[d] = i
<1> DEFINE T == {m \in Nat : \A i \in DOMAIN f.tree :
                   i <= m /\ Covers(f, i, k) => \E d \in 1..n : P[d] = i}
<1>0. /\ n \in Nat \ {0} /\ P[1] = 1
      /\ \A d \in 1..n : P[d] \in DOMAIN f.tree
      /\ \A d \in 1..n : d # 1 => f.tree[P[d]].parent = P[d - 1]
  BY DEF IsPath
<1>1. DOMAIN f.tree = 1..Len(f.tree) /\ Len(f.tree) \in Nat
  BY Trees
<1>2. 0 \in T
  BY <1>1
<1>3. ASSUME NEW m \in Nat, m \in T PROVE m + 1 \in T
  <2>1. ASSUME NEW i \in DOMAIN f.tree, i = m + 1, Covers(f, i, k)
        PROVE  \E d \in 1..n : P[d] = i
    <3>1. CASE i = 1
      BY <1>0, <3>1
    <3>2. CASE i # 1
      <4> DEFINE p == f.tree[i].parent
      <4>1. p \in DOMAIN f.tree /\ p <= m /\ i \in ChildrenIn(f, p)
        BY <1>1, <2>1, <3>2, Trees DEF ChildrenIn
      <4>2. f.tree[p].start <= f.tree[i].start /\ f.tree[i].end <= f.tree[p].end
        BY <4>1, Kids
      <4>3. /\ f.tree[p].start \in Nat /\ f.tree[i].start \in Nat
            /\ f.tree[i].end \in Nat /\ f.tree[p].end \in Nat
        BY <4>1, Trees
      <4>4. Covers(f, p, k)
        BY <2>1, <4>2, <4>3 DEF Covers
      <4>5. PICK d \in 1..n : P[d] = p
        BY <1>3, <4>1, <4>4
      <4>6. d # n
        BY <2>1, <4>1, <4>5
      <4>7. d + 1 \in 1..n /\ d + 1 # 1 /\ (d + 1) - 1 = d
        BY <1>0, <4>5, <4>6
      <4>8. Covers(f, P[d + 1], k) /\ P[d + 1] \in ChildrenIn(f, p)
        BY <1>0, <4>5, <4>7 DEF ChildrenIn
      <4>9. P[d + 1] = i
        <5>1. /\ i < P[d + 1] => f.tree[i].end <= f.tree[P[d + 1]].start
              /\ P[d + 1] < i => f.tree[P[d + 1]].end <= f.tree[i].start
          BY <4>1, <4>8, Kids
        <5>2. P[d + 1] \in Nat /\ i \in Nat /\ P[d + 1] \in DOMAIN f.tree
          BY <1>0, <1>1, <4>7
        <5>3. f.tree[P[d + 1]].start \in Nat /\ f.tree[P[d + 1]].end \in Nat
          BY <5>2, Trees
        <5>4. QED  BY <2>1, <4>3, <4>8, <5>1, <5>2, <5>3 DEF Covers
      <4>10. QED  BY <4>7, <4>9
    <3>3. QED  BY <3>1, <3>2
  <2>2. \A i \in DOMAIN f.tree : i <= m + 1 => i <= m \/ i = m + 1
    BY <1>1
  <2>3. QED  BY <1>3, <2>1, <2>2
<1>4. Nat \subseteq T
  <2> HIDE DEF T
  <2>1. QED  BY <1>2, <1>3, Induction
<1>5. QED  BY <1>1, <1>4

-----------------------------------------------------------------------------
\* Youngest is the greatest of a bounded set of numbers.
LEMMA YoungestExists ==
  ASSUME NEW n \in Nat, NEW S \in SUBSET (0..n), S # {}
  PROVE  Youngest(S) \in S /\ \A j \in S : j <= Youngest(S)
<1> DEFINE D == {n - j : j \in S}
<1>1. D \in SUBSET Nat /\ D # {}
  <2>1. \A j \in S : n - j \in Nat
    OBVIOUS
  <2>2. PICK j \in S : TRUE
    OBVIOUS
  <2>3. n - j \in D
    OBVIOUS
  <2>4. QED  BY <2>1, <2>3
<1>2. PICK m : m = First(D)
  OBVIOUS
<1>3. m \in D /\ \A j \in D : m <= j
  <2> HIDE DEF D
  <2>1. QED  BY <1>1, <1>2, LeastExists
<1>4. PICK i \in S : m = n - i
  BY <1>3
<1>5. ASSUME NEW j \in S PROVE j <= i
  <2>1. n - j \in D
    OBVIOUS
  <2>2. n - i <= n - j
    BY <1>3, <1>4, <2>1
  <2>3. QED  BY <2>2
<1>6. QED  BY <1>5 DEF Youngest

\* What Parsed says of the order of nodes, and of the first child of a root of Java.
LEMMA Preorder ==
  ASSUME NEW f, Parsed(f)
  PROVE  /\ \A i, j \in DOMAIN f.tree :
              i # 1 /\ f.tree[i].parent < j /\ j < i => f.tree[j].parent >= f.tree[i].parent
         /\ f.lang = Java => \A k \in ChildrenIn(f, 1) :
              Elders(f, k) = {} => f.tree[k].start = f.tree[1].start
<1>1. DOMAIN f.tree = 1..Len(f.tree) /\ Len(f.tree) \in Nat
  BY Trees
<1>2. ASSUME NEW i \in DOMAIN f.tree, NEW j \in DOMAIN f.tree, i # 1,
             f.tree[i].parent < j, j < i
      PROVE  f.tree[j].parent >= f.tree[i].parent
  <2>1. f.tree[i].parent \in 1..(i - 1)
        /\ \A m \in (f.tree[i].parent + 1)..(i - 1) : f.tree[m].parent >= f.tree[i].parent
    BY <1>2 DEF Parsed
  <2>2. j \in (f.tree[i].parent + 1)..(i - 1)
    BY <1>1, <1>2, <2>1
  <2>3. QED  BY <2>1, <2>2
<1>3. ASSUME f.lang = Java, NEW k \in ChildrenIn(f, 1), Elders(f, k) = {}
      PROVE  f.tree[k].start = f.tree[1].start
  <2>1. PICK j \in ChildrenIn(f, 1) : f.tree[j].start = f.tree[1].start
    <3>1. ChildrenIn(f, 1) # {} =>
            \E j \in ChildrenIn(f, 1) : f.tree[j].start = f.tree[1].start
      BY <1>3 DEF Parsed
    <3>2. QED  BY <1>3, <3>1
  <2>2. 1 \in DOMAIN f.tree
    BY Trees
  <2>3. /\ k \in DOMAIN f.tree /\ f.tree[k].parent = 1 /\ f.tree[1].start <= f.tree[k].start
        /\ j \in DOMAIN f.tree
        /\ (k < j => f.tree[k].end <= f.tree[j].start)
    BY <2>2, Kids DEF ChildrenIn
  <2>4. k <= j
    <3>1. ~(j < k)
      BY <1>3, <2>3 DEF Elders
    <3>2. QED  BY <1>1, <2>3, <3>1
  <2>5. f.tree[k].start \in Nat /\ f.tree[k].end \in Nat /\ f.tree[1].start \in Nat
        /\ f.tree[k].start <= f.tree[k].end
    BY <2>2, <2>3, Trees
  <2>6. CASE k = j
    BY <2>1, <2>6
  <2>7. CASE k < j
    BY <2>1, <2>3, <2>5, <2>7
  <2>8. QED  BY <1>1, <2>3, <2>4, <2>6, <2>7
<1>4. QED  BY <1>2, <1>3

\* The greatest elder is one.
LEMMA ElderIs ==
  ASSUME NEW f, Parsed(f), NEW k \in DOMAIN f.tree, Elders(f, k) # {}
  PROVE  /\ Youngest(Elders(f, k)) \in Elders(f, k)
         /\ \A j \in Elders(f, k) : j <= Youngest(Elders(f, k))
<1>1. PICK S : S = Elders(f, k)
  OBVIOUS
<1>2. DOMAIN f.tree = 1..Len(f.tree) /\ Len(f.tree) \in Nat
  BY Trees
<1>3. S \in SUBSET (0..Len(f.tree))
  BY <1>1, <1>2 DEF Elders, ChildrenIn
<1>4. QED  BY <1>1, <1>2, <1>3, YoungestExists

\* So is the last child of the root.
LEMMA LastIs ==
  ASSUME NEW f, Parsed(f), NEW i, ChildrenIn(f, i) # {}
  PROVE  /\ Youngest(ChildrenIn(f, i)) \in ChildrenIn(f, i)
         /\ \A j \in ChildrenIn(f, i) : j <= Youngest(ChildrenIn(f, i))
<1>1. PICK S : S = ChildrenIn(f, i)
  OBVIOUS
<1>2. DOMAIN f.tree = 1..Len(f.tree) /\ Len(f.tree) \in Nat
  BY Trees
<1>3. S \in SUBSET (0..Len(f.tree))
  BY <1>1, <1>2 DEF ChildrenIn
<1>4. QED  BY <1>1, <1>2, <1>3, YoungestExists
-----------------------------------------------------------------------------
(* Where the gap before a node begins, among the text of its parent; there *)
(* HandleSpacing takes it up.                                              *)
GapBegin(f, i) ==
  IF Elders(f, i) # {} THEN f.tree[Youngest(Elders(f, i))].end
  ELSE f.tree[f.tree[i].parent].start

\* It is behind the elders, and in the parent.
LEMMA GapBegins ==
  ASSUME NEW f, Parsed(f), NEW c \in DOMAIN f.tree, c # 1
  PROVE  /\ f.tree[c].parent \in DOMAIN f.tree
         /\ c \in ChildrenIn(f, f.tree[c].parent)
         /\ f.tree[c].start \in Nat /\ f.tree[c].start <= Len(f.text)
         /\ GapBegin(f, c) \in Nat /\ GapBegin(f, c) <= f.tree[c].start
         /\ f.tree[f.tree[c].parent].start <= GapBegin(f, c)
         /\ \A j \in ChildrenIn(f, f.tree[c].parent) :
              j < c => f.tree[j].end <= GapBegin(f, c)
<1>1. PICK p : p = f.tree[c].parent
  OBVIOUS
<1>2. p \in DOMAIN f.tree /\ c \in ChildrenIn(f, p) /\ c \in Nat
  BY <1>1, Trees DEF ChildrenIn
<1>3. /\ f.tree[p].start \in Nat /\ f.tree[c].start \in Nat /\ f.tree[c].end \in Nat
      /\ f.tree[p].start <= f.tree[c].start /\ f.tree[c].start <= f.tree[c].end
      /\ f.tree[c].end <= Len(f.text) /\ Len(f.text) \in Nat
  BY <1>2, Trees, Kids
<1>4. Elders(f, c) = {j \in ChildrenIn(f, p) : j < c}
  BY <1>1 DEF Elders
<1>5. CASE Elders(f, c) = {}
  <2>1. GapBegin(f, c) = f.tree[p].start
    BY <1>1, <1>5 DEF GapBegin
  <2>2. \A j \in ChildrenIn(f, p) : ~(j < c)
    BY <1>4, <1>5
  <2>3. QED  BY <1>1, <1>2, <1>3, <2>1, <2>2
<1>6. CASE Elders(f, c) # {}
  <2>1. PICK e : e = Youngest(Elders(f, c))
    OBVIOUS
  <2>2. e \in Elders(f, c) /\ \A j \in Elders(f, c) : j <= e
    BY <1>6, <2>1, ElderIs
  <2>3. e \in ChildrenIn(f, p) /\ e < c /\ e \in DOMAIN f.tree /\ e \in Nat
    BY <1>2, <1>4, <2>2, Kids, Trees
  <2>4. GapBegin(f, c) = f.tree[e].end
    BY <1>6, <2>1 DEF GapBegin
  <2>5. /\ f.tree[e].end <= f.tree[c].start /\ f.tree[p].start <= f.tree[e].start
        /\ f.tree[e].start \in Nat /\ f.tree[e].end \in Nat
        /\ f.tree[e].start <= f.tree[e].end
    BY <1>2, <2>3, Kids, Trees
  <2>6. ASSUME NEW j \in ChildrenIn(f, p), j < c PROVE f.tree[j].end <= f.tree[e].end
    <3>1. j \in DOMAIN f.tree /\ j \in Nat /\ j <= e
      BY <1>2, <1>4, <2>2, <2>6, Kids, Trees
    <3>2. CASE j = e
      BY <2>5, <3>2
    <3>3. CASE j < e
      <4>1. f.tree[j].end <= f.tree[e].start /\ f.tree[j].end \in Nat
        BY <1>2, <2>3, <3>1, <3>3, Kids, Trees
      <4>2. QED  BY <2>5, <4>1
    <3>4. QED  BY <2>3, <3>1, <3>2, <3>3
  <2>7. \A j \in ChildrenIn(f, p) : j < c => f.tree[j].end <= GapBegin(f, c)
    BY <2>4, <2>6
  <2>8. /\ GapBegin(f, c) \in Nat /\ GapBegin(f, c) <= f.tree[c].start
        /\ f.tree[p].start <= GapBegin(f, c)
    BY <1>3, <2>4, <2>5
  <2>9. QED  BY <1>1, <1>2, <1>3, <2>7, <2>8
<1>7. QED  BY <1>5, <1>6

\* Where the gap of a first child begins, and that of a next one.
LEMMA FirstGaps ==
  ASSUME NEW f, Parsed(f), NEW p \in DOMAIN f.tree, NEW i \in ChildrenIn(f, p)
  PROVE  /\ (\A j \in ChildrenIn(f, p) : i <= j) => GapBegin(f, i) = f.tree[p].start
         /\ \A c \in ChildrenIn(f, p) :
              c < i /\ (\A j \in ChildrenIn(f, p) : j > c => i <= j) =>
                GapBegin(f, i) = f.tree[c].end
<1>1. i \in DOMAIN f.tree /\ f.tree[i].parent = p /\ i \in Nat
  BY Trees DEF ChildrenIn
<1>2. Elders(f, i) = {j \in ChildrenIn(f, p) : j < i}
  BY <1>1 DEF Elders
<1>3. \A j \in ChildrenIn(f, p) : j \in Nat
  BY Trees DEF ChildrenIn
<1>4. ASSUME \A j \in ChildrenIn(f, p) : i <= j PROVE GapBegin(f, i) = f.tree[p].start
  <2>1. \A j \in ChildrenIn(f, p) : ~(j < i)
    BY <1>1, <1>3, <1>4
  <2>2. Elders(f, i) = {}
    BY <1>2, <2>1
  <2>3. QED  BY <1>1, <2>2 DEF GapBegin
<1>5. ASSUME NEW c \in ChildrenIn(f, p), c < i, \A j \in ChildrenIn(f, p) : j > c => i <= j
      PROVE  GapBegin(f, i) = f.tree[c].end
  <2>1. PICK e : e = Youngest(Elders(f, i))
    OBVIOUS
  <2>2. c \in Elders(f, i)
    BY <1>2, <1>5
  <2>3. e \in Elders(f, i) /\ c <= e
    BY <1>1, <2>1, <2>2, ElderIs
  <2>4. e \in ChildrenIn(f, p) /\ e < i
    BY <1>2, <2>3
  <2>5. e = c
    BY <1>1, <1>3, <1>5, <2>3, <2>4
  <2>6. QED  BY <2>1, <2>2, <2>5 DEF GapBegin
<1>6. QED  BY <1>4, <1>5

\* The gap is that, but for the spaces before the root, in Java.
Leading(f, c) ==
  /\ f.lang = Java /\ f.tree[c].parent = 1 /\ Elders(f, c) = {}
  /\ GapStart(f, c) = 0 /\ GapBegin(f, c) = f.tree[c].start
  /\ f.tree[c].start = f.tree[1].start

LEMMA GapStartIs ==
  ASSUME NEW f, Parsed(f), NEW c \in DOMAIN f.tree, c # 1
  PROVE  /\ GapStart(f, c) = GapBegin(f, c) \/ Leading(f, c)
         /\ GapStart(f, c) \in Nat /\ GapStart(f, c) <= f.tree[c].start
<1>1. CASE f.lang = Java /\ f.tree[c].parent = 1 /\ Elders(f, c) = {}
  <2>1. c \in ChildrenIn(f, 1)
    BY <1>1 DEF ChildrenIn
  <2>2. f.tree[c].start = f.tree[1].start
    BY <1>1, <2>1, Preorder
  <2>3. Leading(f, c)
    BY <1>1, <2>2 DEF Leading, GapStart, GapBegin
  <2>4. QED  BY <2>3, GapBegins DEF Leading
<1>2. CASE ~(f.lang = Java /\ f.tree[c].parent = 1 /\ Elders(f, c) = {})
  <2>1. GapStart(f, c) = GapBegin(f, c)
    BY <1>2 DEF GapStart, GapBegin
  <2>2. QED  BY <2>1, GapBegins
<1>3. QED  BY <1>1, <1>2

\* The text of the children of the root ends with the last.
LEMMA EndIs ==
  ASSUME NEW f, Parsed(f), ChildrenIn(f, 1) # {}
  PROVE  /\ Youngest(ChildrenIn(f, 1)) \in ChildrenIn(f, 1)
         /\ f.tree[Youngest(ChildrenIn(f, 1))].end \in 0..Len(f.text)
         /\ \A j \in ChildrenIn(f, 1) :
              f.tree[j].end <= f.tree[Youngest(ChildrenIn(f, 1))].end
<1>1. PICK e : e = Youngest(ChildrenIn(f, 1))
  OBVIOUS
<1>2. e \in ChildrenIn(f, 1) /\ \A j \in ChildrenIn(f, 1) : j <= e
  BY <1>1, LastIs
<1>3. 1 \in DOMAIN f.tree /\ e \in DOMAIN f.tree /\ e \in Nat
  BY <1>2, Trees DEF ChildrenIn
<1>4. /\ f.tree[e].start \in Nat /\ f.tree[e].end \in Nat /\ Len(f.text) \in Nat
      /\ f.tree[e].start <= f.tree[e].end /\ f.tree[e].end <= Len(f.text)
  BY <1>3, Trees
<1>5. ASSUME NEW j \in ChildrenIn(f, 1) PROVE f.tree[j].end <= f.tree[e].end
  <2>1. j \in DOMAIN f.tree /\ j \in Nat /\ j <= e
    BY <1>2, Trees DEF ChildrenIn
  <2>2. CASE j = e
    BY <1>4, <2>2
  <2>3. CASE j < e
    <3>1. f.tree[j].end <= f.tree[e].start /\ f.tree[j].end \in Nat
      BY <1>2, <1>3, <2>1, <2>3, Kids, Trees
    <3>2. QED  BY <1>4, <3>1
  <2>4. QED  BY <1>3, <2>1, <2>2, <2>3
<1>6. QED  BY <1>1, <1>2, <1>4, <1>5
-----------------------------------------------------------------------------
(* The node a byte is in that has no child with it: the root, at least.    *)
Alone(f, q, k) ==
  /\ q \in DOMAIN f.tree /\ k \in Nat
  /\ q = 1 \/ Covers(f, q, k)
  /\ \A j \in ChildrenIn(f, q) : ~Covers(f, j, k)

PathOf(f, k, q, n, P) ==
  IsPath(f, P, n) /\ P[n] = q /\ \A d \in 1..n : d # 1 => Covers(f, P[d], k)

\* A node with a byte is at the end of a path of nodes with it.
LEMMA PathExists ==
  ASSUME NEW f, Parsed(f), NEW k \in Nat
  PROVE  \A q \in DOMAIN f.tree : q = 1 \/ Covers(f, q, k) => \E n, P : PathOf(f, k, q, n, P)
<1> DEFINE T == {m \in Nat : \A q \in DOMAIN f.tree :
                   q <= m /\ (q = 1 \/ Covers(f, q, k)) => \E n, P : PathOf(f, k, q, n, P)}
<1>1. DOMAIN f.tree = 1..Len(f.tree) /\ Len(f.tree) \in Nat /\ 1 \in DOMAIN f.tree
  BY Trees
<1>2. 0 \in T
  BY <1>1
<1>3. ASSUME NEW m \in Nat, m \in T PROVE m + 1 \in T
  <2>1. ASSUME NEW q \in DOMAIN f.tree, q = m + 1, q = 1 \/ Covers(f, q, k)
        PROVE  \E n, P : PathOf(f, k, q, n, P)
    <3>1. CASE q = 1
      <4> DEFINE P == [d \in 1..1 |-> 1]
      <4>1. P[1] = 1 /\ (\A d \in 1..1 : d = 1 /\ P[d] = 1) /\ 1 \in Nat \ {0}
        OBVIOUS
      <4> HIDE DEF P
      <4>2. PathOf(f, k, q, 1, P)
        BY <1>1, <3>1, <4>1 DEF PathOf, IsPath
      <4>3. QED  BY <4>2
    <3>2. CASE q # 1
      <4>1. PICK p : p = f.tree[q].parent
        OBVIOUS
      <4>2. p \in DOMAIN f.tree /\ p <= m /\ q \in ChildrenIn(f, p)
        BY <1>1, <2>1, <3>2, <4>1, Trees DEF ChildrenIn
      <4>3. /\ f.tree[p].start <= f.tree[q].start /\ f.tree[q].end <= f.tree[p].end
            /\ f.tree[p].start \in Nat /\ f.tree[q].start \in Nat
            /\ f.tree[q].end \in Nat /\ f.tree[p].end \in Nat
        BY <4>2, Kids, Trees
      <4>4. Covers(f, q, k) /\ Covers(f, p, k)
        BY <2>1, <3>2, <4>3 DEF Covers
      <4>5. PICK n, P : PathOf(f, k, p, n, P)
        BY <1>3, <4>2, <4>4
      <4>6. /\ n \in Nat \ {0} /\ P[1] = 1 /\ P[n] = p
            /\ (\A d \in 1..n : P[d] \in DOMAIN f.tree)
            /\ (\A d \in 1..n : d # 1 => f.tree[P[d]].parent = P[d - 1])
            /\ (\A d \in 1..n : d # 1 => Covers(f, P[d], k))
        BY <4>5 DEF PathOf, IsPath
      <4>7. PICK Q : Q = [d \in 1..(n + 1) |-> IF d = n + 1 THEN q ELSE P[d]]
        OBVIOUS
      <4>8. /\ Q[n + 1] = q /\ (\A d \in 1..n : Q[d] = P[d]) /\ 1 \in 1..n /\ n \in 1..n
            /\ (\A d \in 1..(n + 1) : d \in 1..n \/ d = n + 1) /\ n + 1 \in Nat \ {0}
        <5>1. n + 1 \in 1..(n + 1) /\ \A d \in 1..n : d \in 1..(n + 1) /\ d # n + 1
          BY <4>6
        <5>2. Q[n + 1] = q /\ (\A d \in 1..n : Q[d] = P[d])
          BY <4>7, <5>1
        <5>3. QED  BY <4>6, <5>2
      <4>9. ASSUME NEW d \in 1..(n + 1)
            PROVE  /\ Q[d] \in DOMAIN f.tree
                   /\ d # 1 => f.tree[Q[d]].parent = Q[d - 1] /\ Covers(f, Q[d], k)
        <5>1. CASE d \in 1..n
          <6>1. d # 1 => d - 1 \in 1..n
            BY <4>6, <5>1
          <6>2. QED  BY <4>6, <4>8, <5>1, <6>1
        <5>2. CASE d = n + 1
          <6>1. d - 1 = n /\ Q[d] = q /\ Q[n] = p
            BY <4>6, <4>8, <5>2
          <6>2. QED  BY <4>1, <4>4, <6>1
        <5>3. QED  BY <4>8, <5>1, <5>2
      <4>10. Q[1] = 1
        BY <4>6, <4>8
      <4>11. PathOf(f, k, q, n + 1, Q)
        BY <4>8, <4>9, <4>10 DEF PathOf, IsPath
      <4>12. QED  BY <4>11
    <3>3. QED  BY <3>1, <3>2
  <2>2. \A q \in DOMAIN f.tree : q <= m + 1 => q <= m \/ q = m + 1
    BY <1>1
  <2>3. QED  BY <1>3, <2>1, <2>2
<1>4. Nat \subseteq T
  <2> HIDE DEF T
  <2>1. QED  BY <1>2, <1>3, Induction
<1>5. QED  BY <1>1, <1>4

\* The other nodes with the byte have a child with it.
LEMMA Home ==
  ASSUME NEW f, Parsed(f), NEW q, NEW k, Alone(f, q, k),
         NEW i \in DOMAIN f.tree, i = 1 \/ Covers(f, i, k), i # q
  PROVE  \E j \in ChildrenIn(f, i) : Covers(f, j, k)
<1>1. /\ q \in DOMAIN f.tree /\ k \in Nat /\ (q = 1 \/ Covers(f, q, k))
      /\ \A j \in ChildrenIn(f, q) : ~Covers(f, j, k)
  BY DEF Alone
<1>2. PICK n, P : PathOf(f, k, q, n, P)
  BY <1>1, PathExists
<1>3. /\ IsPath(f, P, n) /\ n \in Nat \ {0} /\ P[1] = 1 /\ P[n] = q
      /\ (\A d \in 1..n : P[d] \in DOMAIN f.tree)
      /\ (\A d \in 1..n : d # 1 => f.tree[P[d]].parent = P[d - 1])
      /\ (\A d \in 1..n : d # 1 => Covers(f, P[d], k))
  BY <1>2 DEF PathOf, IsPath
<1>4. \A j \in ChildrenIn(f, P[n]) : ~Covers(f, j, k)
  BY <1>1, <1>3
<1>5. \A m \in DOMAIN f.tree : Covers(f, m, k) => \E d \in 1..n : P[d] = m
  BY <1>1, <1>3, <1>4, CoversOnPath
<1>6. PICK d \in 1..n : P[d] = i
  <2>1. CASE i = 1
    <3>1. 1 \in 1..n
      BY <1>3
    <3>2. QED  BY <1>3, <2>1, <3>1
  <2>2. CASE i # 1
    BY <1>5, <2>2
  <2>3. QED  BY <2>1, <2>2
<1>7. d # n
  BY <1>3, <1>6
<1>8. d + 1 \in 1..n /\ d + 1 # 1 /\ (d + 1) - 1 = d
  BY <1>3, <1>6, <1>7
<1>9. P[d + 1] \in ChildrenIn(f, i) /\ Covers(f, P[d + 1], k)
  BY <1>3, <1>6, <1>8 DEF ChildrenIn
<1>10. QED  BY <1>9

\* So that node is one.
LEMMA AloneOnce ==
  ASSUME NEW f, Parsed(f), NEW k, NEW p, NEW q, Alone(f, p, k), Alone(f, q, k)
  PROVE  p = q
BY Home DEF Alone

\* A byte of a gap is in no child.
LEMMA GapAlone ==
  ASSUME NEW f, Parsed(f), NEW c \in DOMAIN f.tree, c # 1, NEW k \in Nat,
         Within(k, GapStart(f, c), f.tree[c].start)
  PROVE  Alone(f, f.tree[c].parent, k)
<1>1. PICK p : p = f.tree[c].parent
  OBVIOUS
<1>2. /\ p \in DOMAIN f.tree /\ c \in ChildrenIn(f, p) /\ f.tree[c].start \in Nat
      /\ GapBegin(f, c) \in Nat /\ f.tree[p].start <= GapBegin(f, c)
      /\ GapBegin(f, c) <= f.tree[c].start
      /\ \A j \in ChildrenIn(f, p) : j < c => f.tree[j].end <= GapBegin(f, c)
  BY <1>1, GapBegins
<1>3. GapStart(f, c) = GapBegin(f, c) \/ Leading(f, c)
  BY GapStartIs
<1>4. k <= f.tree[c].start /\ GapStart(f, c) < k
  BY DEF Within
<1>5. CASE GapStart(f, c) = GapBegin(f, c)
  <2>1. /\ f.tree[c].end <= f.tree[p].end /\ f.tree[c].start <= f.tree[c].end
        /\ f.tree[c].end \in Nat /\ f.tree[p].end \in Nat /\ f.tree[p].start \in Nat
        /\ c \in Nat
    BY <1>2, Kids, Trees
  <2>2. Covers(f, p, k)
    BY <1>2, <1>4, <1>5, <2>1 DEF Covers
  <2>3. ASSUME NEW j \in ChildrenIn(f, p) PROVE ~Covers(f, j, k)
    <3>1. /\ j \in DOMAIN f.tree /\ j \in Nat
          /\ f.tree[j].start \in Nat /\ f.tree[j].end \in Nat
      BY <1>2, Kids, Trees
    <3>2. CASE j < c
      BY <1>2, <1>4, <1>5, <3>1, <3>2 DEF Covers
    <3>3. CASE j = c
      BY <1>2, <1>4, <3>1, <3>3 DEF Covers
    <3>4. CASE c < j
      <4>1. f.tree[c].end <= f.tree[j].start
        BY <1>2, <3>4, Kids
      <4>2. QED  BY <1>2, <1>4, <2>1, <3>1, <4>1 DEF Covers
    <3>5. QED  BY <2>1, <3>1, <3>2, <3>3, <3>4
  <2>4. QED  BY <1>1, <1>2, <2>2, <2>3 DEF Alone
<1>6. CASE Leading(f, c)
  <2>1. p = 1 /\ k <= f.tree[1].start
    BY <1>1, <1>4, <1>6 DEF Leading
  <2>2. ASSUME NEW j \in ChildrenIn(f, p) PROVE ~Covers(f, j, k)
    <3>1. /\ f.tree[1].start <= f.tree[j].start /\ f.tree[j].start \in Nat
          /\ f.tree[1].start \in Nat
      BY <1>2, <2>1, Kids, Trees
    <3>2. QED  BY <2>1, <3>1 DEF Covers
  <2>3. QED  BY <1>1, <1>2, <2>1, <2>2 DEF Alone
<1>7. QED  BY <1>3, <1>5, <1>6

\* Nor is one behind the last child of the root.
LEMMA LastAlone ==
  ASSUME NEW f, Parsed(f), ChildrenIn(f, 1) # {}, NEW k \in Nat,
         f.tree[Youngest(ChildrenIn(f, 1))].end < k
  PROVE  Alone(f, 1, k)
<1>1. 1 \in DOMAIN f.tree
  BY Trees
<1>2. ASSUME NEW j \in ChildrenIn(f, 1) PROVE ~Covers(f, j, k)
  <2>1. /\ f.tree[j].end <= f.tree[Youngest(ChildrenIn(f, 1))].end
        /\ f.tree[Youngest(ChildrenIn(f, 1))].end \in 0..Len(f.text)
        /\ Len(f.text) \in Nat
    BY EndIs, Trees
  <2>2. f.tree[j].end \in Nat
    BY <1>1, Kids, Trees
  <2>3. QED  BY <2>1, <2>2 DEF Covers
<1>3. QED  BY <1>1, <1>2 DEF Alone

\* Two gaps of one parent are apart.
LEMMA GapOnce ==
  ASSUME NEW f, Parsed(f), NEW b \in DOMAIN f.tree, NEW c \in DOMAIN f.tree,
         b # 1, c # 1, f.tree[b].parent = f.tree[c].parent, NEW k \in Nat,
         Within(k, GapStart(f, b), f.tree[b].start),
         Within(k, GapStart(f, c), f.tree[c].start)
  PROVE  b = c
<1>1. ASSUME NEW i \in DOMAIN f.tree, NEW j \in DOMAIN f.tree, i # 1, j # 1,
             f.tree[i].parent = f.tree[j].parent, i < j,
             Within(k, GapStart(f, i), f.tree[i].start),
             Within(k, GapStart(f, j), f.tree[j].start)
      PROVE  FALSE
  <2>1. /\ i \in ChildrenIn(f, f.tree[j].parent)
        /\ GapBegin(f, j) \in Nat /\ f.tree[i].end <= GapBegin(f, j)
    BY <1>1, GapBegins DEF ChildrenIn
  <2>2. i \in Elders(f, j)
    BY <1>1, <2>1 DEF Elders
  <2>3. GapStart(f, j) = GapBegin(f, j)
    BY <1>1, <2>2, GapStartIs DEF Leading
  <2>4. /\ f.tree[i].start \in Nat /\ f.tree[i].end \in Nat
        /\ f.tree[i].start <= f.tree[i].end
    BY Trees
  <2>5. k <= f.tree[i].start /\ GapBegin(f, j) < k
    BY <1>1, <2>3 DEF Within
  <2>6. QED  BY <2>1, <2>4, <2>5
<1>2. b \in Nat /\ c \in Nat
  BY Trees
<1>3. b < c \/ c < b \/ b = c
  BY <1>2
<1>4. QED  BY <1>1, <1>3
-----------------------------------------------------------------------------
(* Which bytes are kept.                                                   *)

\* A byte that is alone in a node with children is in no leaf.
LEMMA NotInLeaf ==
  ASSUME NEW f, Parsed(f), NEW q, NEW k, Alone(f, q, k), q = 1 \/ ChildrenIn(f, q) # {}
  PROVE  ~InLeaf(f, k)
<1>1. SUFFICES ASSUME InLeaf(f, k) PROVE FALSE
  OBVIOUS
<1>2. PICK i \in DOMAIN f.tree \ {1} :
        ChildrenIn(f, i) = {} /\ Within(k, f.tree[i].start, f.tree[i].end)
  BY <1>1 DEF InLeaf
<1>3. Covers(f, i, k)
  BY <1>2 DEF Covers, Within
<1>4. i # q
  BY <1>2
<1>5. QED  BY <1>2, <1>3, <1>4, Home

\* A gap is kept if it is a kept one.
LEMMA GapKept ==
  ASSUME NEW f, Parsed(f), ChildrenIn(f, 1) # {}, NEW c \in DOMAIN f.tree, c # 1,
         NEW k \in Nat, Within(k, GapStart(f, c), f.tree[c].start)
  PROVE  Kept(f, k) <=> GapBefore(f, c) # << >>
<1>1. ASSUME GapBefore(f, c) # << >> PROVE Kept(f, k)
  BY <1>1 DEF Kept
<1>2. ASSUME Kept(f, k) PROVE GapBefore(f, c) # << >>
  <2>1. PICK q : q = f.tree[c].parent
    OBVIOUS
  <2>2. Alone(f, q, k) /\ c \in ChildrenIn(f, q)
    BY <2>1, GapAlone DEF ChildrenIn
  <2>3. ~InLeaf(f, k)
    BY <2>2, NotInLeaf
  <2>4. ASSUME NEW b \in DOMAIN f.tree \ {1}, GapBefore(f, b) # << >>,
               Within(k, GapStart(f, b), f.tree[b].start)
        PROVE  GapBefore(f, c) # << >>
    <3>1. Alone(f, f.tree[b].parent, k)
      BY <2>4, GapAlone
    <3>2. f.tree[b].parent = f.tree[c].parent
      BY <2>1, <2>2, <3>1, AloneOnce
    <3>3. b = c
      BY <2>4, <3>2, GapOnce
    <3>4. QED  BY <2>4, <3>3
  <2>5. ~Within(k, f.tree[Youngest(ChildrenIn(f, 1))].end, Len(f.text))
    <3>1. SUFFICES ASSUME f.tree[Youngest(ChildrenIn(f, 1))].end < k PROVE FALSE
      BY DEF Within
    <3>2. Alone(f, 1, k)
      BY <3>1, LastAlone
    <3>3. q = 1
      BY <2>2, <3>2, AloneOnce
    <3>4. f.tree[c].end <= f.tree[Youngest(ChildrenIn(f, 1))].end
          /\ f.tree[Youngest(ChildrenIn(f, 1))].end \in 0..Len(f.text)
      BY <2>2, <3>3, EndIs
    <3>5. f.tree[c].start \in Nat /\ f.tree[c].end \in Nat
          /\ f.tree[c].start <= f.tree[c].end /\ Len(f.text) \in Nat
      BY Trees
    <3>6. k <= f.tree[c].start
      BY DEF Within
    <3>7. QED  BY <3>1, <3>4, <3>5, <3>6
  <2>6. QED  BY <1>2, <2>3, <2>4, <2>5 DEF Kept
<1>3. QED  BY <1>1, <1>2

\* So is the last one.
LEMMA LastKept ==
  ASSUME NEW f, Parsed(f), ChildrenIn(f, 1) # {}, NEW k \in Nat,
         Within(k, f.tree[Youngest(ChildrenIn(f, 1))].end, Len(f.text))
  PROVE  Kept(f, k) <=> LastGap(f) # << >>
<1>1. f.tree[Youngest(ChildrenIn(f, 1))].end < k
  BY DEF Within
<1>2. Alone(f, 1, k)
  BY <1>1, LastAlone
<1>3. ~InLeaf(f, k)
  BY <1>2, NotInLeaf
<1>4. ASSUME NEW b \in DOMAIN f.tree \ {1}, Within(k, GapStart(f, b), f.tree[b].start)
      PROVE  FALSE
  <2>1. Alone(f, f.tree[b].parent, k)
    BY <1>4, GapAlone
  <2>2. f.tree[b].parent = 1
    BY <1>2, <2>1, AloneOnce
  <2>3. b \in ChildrenIn(f, 1)
    BY <2>2 DEF ChildrenIn
  <2>4. f.tree[b].end <= f.tree[Youngest(ChildrenIn(f, 1))].end
        /\ f.tree[Youngest(ChildrenIn(f, 1))].end \in 0..Len(f.text)
    BY <2>3, EndIs
  <2>5. f.tree[b].start \in Nat /\ f.tree[b].end \in Nat
        /\ f.tree[b].start <= f.tree[b].end /\ Len(f.text) \in Nat
    BY Trees
  <2>6. k <= f.tree[b].start
    BY <1>4 DEF Within
  <2>7. QED  BY <1>1, <2>4, <2>5, <2>6
<1>5. QED  BY <1>3, <1>4 DEF Kept

\* What a node hides behind its last child is not kept.
LEMMA TailLost ==
  ASSUME NEW f, Parsed(f), ChildrenIn(f, 1) # {}, NEW i \in DOMAIN f.tree, i # 1,
         ChildrenIn(f, i) # {}, NEW k \in Nat, Covers(f, i, k),
         \A j \in ChildrenIn(f, i) : f.tree[j].end < k
  PROVE  ~Kept(f, k)
<1>1. \A j \in ChildrenIn(f, i) : ~Covers(f, j, k)
  <2>1. ASSUME NEW j \in ChildrenIn(f, i) PROVE ~Covers(f, j, k)
    <3>1. f.tree[j].end \in Nat /\ f.tree[j].end < k
      BY Kids, Trees
    <3>2. QED  BY <3>1 DEF Covers
  <2>2. QED  BY <2>1
<1>2. Alone(f, i, k)
  BY <1>1 DEF Alone
<1>3. ~InLeaf(f, k)
  BY <1>2, NotInLeaf
<1>4. ASSUME NEW b \in DOMAIN f.tree \ {1}, Within(k, GapStart(f, b), f.tree[b].start)
      PROVE  FALSE
  <2>1. Alone(f, f.tree[b].parent, k)
    BY <1>4, GapAlone
  <2>2. f.tree[b].parent = i
    BY <1>2, <2>1, AloneOnce
  <2>3. f.tree[b].end < k
    BY <2>2 DEF ChildrenIn
  <2>4. f.tree[b].start \in Nat /\ f.tree[b].end \in Nat
        /\ f.tree[b].start <= f.tree[b].end
    BY Trees
  <2>5. k <= f.tree[b].start
    BY <1>4 DEF Within
  <2>6. QED  BY <2>3, <2>4, <2>5
<1>5. ~Within(k, f.tree[Youngest(ChildrenIn(f, 1))].end, Len(f.text))
  <2>1. SUFFICES ASSUME f.tree[Youngest(ChildrenIn(f, 1))].end < k PROVE FALSE
    BY DEF Within
  <2>2. Alone(f, 1, k)
    BY <2>1, LastAlone
  <2>3. QED  BY <1>2, <2>2, AloneOnce
<1>6. QED  BY <1>3, <1>4, <1>5 DEF Kept

\* Nor is what precedes the root of an XML file.
LEMMA LeadLost ==
  ASSUME NEW f, Parsed(f), ChildrenIn(f, 1) # {}, f.lang = Xml,
         NEW k \in Nat, k <= f.tree[1].start
  PROVE  ~Kept(f, k)
<1>1. \A i \in DOMAIN f.tree : ~Covers(f, i, k)
  <2>1. ASSUME NEW i \in DOMAIN f.tree PROVE ~Covers(f, i, k)
    <3>1. f.tree[1].start <= f.tree[i].start /\ f.tree[i].start \in Nat
          /\ f.tree[1].start \in Nat
      BY InRoot, Trees
    <3>2. QED  BY <3>1 DEF Covers
  <2>2. QED  BY <2>1
<1>2. ~InLeaf(f, k)
  BY <1>1 DEF InLeaf, Within, Covers
<1>3. ASSUME NEW b \in DOMAIN f.tree \ {1}, Within(k, GapStart(f, b), f.tree[b].start)
      PROVE  FALSE
  <2>1. GapStart(f, b) = GapBegin(f, b)
    BY GapStartIs, ConstantsAssumption DEF Leading
  <2>2. /\ f.tree[b].parent \in DOMAIN f.tree /\ GapBegin(f, b) \in Nat
        /\ f.tree[f.tree[b].parent].start <= GapBegin(f, b)
    BY GapBegins
  <2>3. /\ f.tree[1].start <= f.tree[f.tree[b].parent].start
        /\ f.tree[f.tree[b].parent].start \in Nat /\ f.tree[1].start \in Nat
    BY <2>2, InRoot, Trees
  <2>4. GapStart(f, b) < k
    BY <1>3 DEF Within
  <2>5. QED  BY <2>1, <2>2, <2>3, <2>4
<1>4. ~Within(k, f.tree[Youngest(ChildrenIn(f, 1))].end, Len(f.text))
  <2>1. PICK e : e = Youngest(ChildrenIn(f, 1))
    OBVIOUS
  <2>2. e \in ChildrenIn(f, 1)
    BY <2>1, EndIs
  <2>3. e \in DOMAIN f.tree
    BY <2>2 DEF ChildrenIn
  <2>4. /\ f.tree[1].start <= f.tree[e].start /\ f.tree[e].start <= f.tree[e].end
        /\ f.tree[1].start \in Nat /\ f.tree[e].start \in Nat /\ f.tree[e].end \in Nat
    BY <2>3, InRoot, Trees
  <2>5. ~(f.tree[e].end < k)
    BY <2>4
  <2>6. QED  BY <2>1, <2>5 DEF Within
<1>5. QED  BY <1>2, <1>3, <1>4 DEF Kept
-----------------------------------------------------------------------------
(* A text that says what is kept of text[from..to], all of it in Java.     *)
Says(f, t, from, to) ==
  /\ Canonical(t) = Canonical(Reads(f, from, to))
  /\ f.lang = Java => \A k \in (from + 1)..to : Kept(f, k)

\* Nothing says nothing.
LEMMA SaysNone ==
  ASSUME NEW f, f.text \in Seq(Byte), NEW at \in 0..Len(f.text)
  PROVE  Says(f, << >>, at, at)
<1>1. Len(f.text) \in Nat
  BY LenProperties
<1>2. at \in 0..at /\ \A k \in (at + 1)..at : FALSE
  BY <1>1
<1>3. Reads(f, at, at) = << >>
  BY <1>2, ReadsIs
<1>4. QED  BY <1>2, <1>3 DEF Says

\* A piece that is kept says itself.
LEMMA SaysPiece ==
  ASSUME NEW f, f.text \in Seq(Byte), NEW to \in 0..Len(f.text), NEW from \in 0..to,
         \A k \in (from + 1)..to : Kept(f, k)
  PROVE  Says(f, Piece(f.text, from, to), from, to)
BY ReadsAll DEF Says

\* Of Java, a text is as long as what it says.
LEMMA SaysLength ==
  ASSUME NEW f, f.text \in Seq(Byte), NEW to \in 0..Len(f.text), NEW from \in 0..to,
         f.lang = Java, NEW t, Says(f, t, from, to)
  PROVE  Canonical(t) = Canonical(Piece(f.text, from, to))
BY ReadsAll DEF Says

\* Two texts that follow each other.
LEMMA SaysJoin ==
  ASSUME NEW f, f.text \in Seq(Byte), NEW to \in 0..Len(f.text), NEW mid \in 0..to,
         NEW from \in 0..mid, NEW t \in Seq(Byte), NEW u, NEW v,
         Says(f, t, from, mid), Says(f, u, mid, to),
         Canonical(v) = Canonical(t) \o Canonical(u)
  PROVE  Says(f, v, from, to)
<1>1. Len(f.text) \in Nat /\ mid \in 0..Len(f.text) /\ from \in 0..to
  BY LenProperties
<1>2. PICK x : x = Reads(f, from, mid)
  OBVIOUS
<1>3. PICK y : y = Reads(f, mid, to)
  OBVIOUS
<1>4. x \in Seq(Byte) /\ y \in Seq(Byte)
  BY <1>1, <1>2, <1>3, ReadsIs
<1>5. Canonical(x \o y) = Canonical(x) \o Canonical(y)
  BY <1>4, CanonicalJoins
<1>6. x \o y = Reads(f, from, to)
  BY <1>2, <1>3, ReadsJoin
<1>7. Canonical(t) = Canonical(x) /\ Canonical(u) = Canonical(y)
  BY <1>2, <1>3 DEF Says
<1>8. Canonical(v) = Canonical(Reads(f, from, to))
  BY <1>5, <1>6, <1>7
<1>9. ASSUME f.lang = Java, NEW k \in (from + 1)..to PROVE Kept(f, k)
  <2>1. k \in (from + 1)..mid \/ k \in (mid + 1)..to
    BY <1>1
  <2>2. QED  BY <1>9, <2>1 DEF Says
<1>10. QED  BY <1>8, <1>9 DEF Says

\* A text still says the same behind what is lost, of which Java has none.
LEMMA SaysStill ==
  ASSUME NEW f, f.text \in Seq(Byte), NEW to \in 0..Len(f.text), NEW mid \in 0..to,
         NEW from \in 0..mid, NEW t, Says(f, t, from, mid),
         \A k \in (mid + 1)..to : ~Kept(f, k),
         f.lang = Java => mid = to
  PROVE  Says(f, t, from, to)
<1>1. Len(f.text) \in Nat /\ mid \in 0..Len(f.text) /\ from \in 0..to
  BY LenProperties
<1>2. Reads(f, mid, to) = << >>
  BY <1>1, ReadsNone
<1>3. Reads(f, from, mid) \in Seq(Byte)
  BY <1>1, ReadsIs
<1>4. Reads(f, from, mid) \o Reads(f, mid, to) = Reads(f, from, to)
  BY ReadsJoin
<1>5. PICK x \in Seq(Byte) : x = Reads(f, from, mid)
  BY <1>3
<1>6. x \o << >> = x
  BY <1>5, ConcatEmptySeq
<1>7. Reads(f, from, to) = Reads(f, from, mid)
  BY <1>2, <1>4, <1>5, <1>6
<1>8. QED  BY <1>7 DEF Says
-----------------------------------------------------------------------------
(* A gap of the file in progress, as it is kept.                           *)
LEMMA KeptGapIs ==
  ASSUME NEW f, file = f, NEW from, NEW to
  PROVE  KeptGap(f, from, to) = IF IsBlank(Gap(from, to)) THEN Gap(from, to) ELSE << >>
BY DEF KeptGap, Gap, IsBlank

\* It is nothing when there is none, or it is not blank.
LEMMA GapIsNone ==
  ASSUME NEW f, file = f, NEW from \in Nat, NEW to \in Nat, from <= to
  PROVE  KeptGap(f, from, to) # << >> <=> from # to /\ IsBlank(Gap(from, to))
<1>1. Gap(from, to) = [k \in 1..(to - from) |-> Formatted(f.text[from + k])]
  BY DEF Gap
<1>2. PICK g : g = Gap(from, to)
  OBVIOUS
<1>3. DOMAIN g = 1..(to - from)
  BY <1>1, <1>2
<1>4. from # to => g # << >>
  <2>1. SUFFICES ASSUME from # to PROVE g # << >>
    OBVIOUS
  <2>2. 1 \in 1..(to - from)
    BY <2>1
  <2>3. DOMAIN << >> = {}
    OBVIOUS
  <2>4. QED  BY <1>3, <2>2, <2>3
<1>5. from = to => g = << >>
  <2>1. SUFFICES ASSUME from = to PROVE g = << >>
    OBVIOUS
  <2>2. g = [k \in {} |-> Formatted(f.text[from + k])]
    <3>1. 1..(to - from) = {}
      BY <2>1
    <3>2. QED  BY <1>1, <1>2, <3>1
  <2>3. g \in [1..0 -> Byte]
    BY <2>2
  <2>4. g \in Seq(Byte) /\ Len(g) = 0
    BY <2>3, SeqDef
  <2>5. QED  BY <2>4, EmptySeq
<1>6. KeptGap(f, from, to) = IF IsBlank(g) THEN g ELSE << >>
  BY <1>2, KeptGapIs
<1>7. QED  BY <1>2, <1>4, <1>5, <1>6

\* The gap before a node is kept, in its text, if it is blank.
LEMMA GapSaid ==
  ASSUME NEW f, Parsed(f), file = f, ChildrenIn(f, 1) # {}, NEW c \in DOMAIN f.tree, c # 1
  PROVE  /\ GapBegin(f, c) \in 0..f.tree[c].start /\ f.tree[c].start \in 0..Len(f.text)
         /\ IsBlank(Gap(GapBegin(f, c), f.tree[c].start)) =>
              \A k \in (GapBegin(f, c) + 1)..f.tree[c].start : Kept(f, k)
         /\ ~IsBlank(Gap(GapBegin(f, c), f.tree[c].start)) =>
              \A k \in (GapBegin(f, c) + 1)..f.tree[c].start : ~Kept(f, k)
<1>1. PICK b : b = GapBegin(f, c)
  OBVIOUS
<1>2. PICK to : to = f.tree[c].start
  OBVIOUS
<1>3. b \in Nat /\ to \in Nat /\ b <= to /\ to <= Len(f.text)
  BY <1>1, <1>2, GapBegins
<1>4. Len(f.text) \in Nat
  BY Trees
<1>5. ASSUME NEW k \in (b + 1)..to PROVE Kept(f, k) <=> IsBlank(Gap(b, to))
  <2>1. k \in Nat /\ b < k /\ k <= to /\ b # to
    BY <1>3
  <2>2. GapStart(f, c) = b
    BY <1>1, <1>2, <2>1, GapStartIs DEF Leading
  <2>3. Within(k, GapStart(f, c), f.tree[c].start)
    BY <1>2, <2>1, <2>2 DEF Within
  <2>4. Kept(f, k) <=> GapBefore(f, c) # << >>
    BY <2>1, <2>3, GapKept
  <2>5. GapBefore(f, c) = KeptGap(f, b, to)
    BY <1>2, <2>2 DEF GapBefore
  <2>6. QED  BY <1>3, <2>1, <2>4, <2>5, GapIsNone
<1>6. QED  BY <1>1, <1>2, <1>3, <1>4, <1>5

\* So is the last gap.
LEMMA LastSaid ==
  ASSUME NEW f, Parsed(f), file = f, ChildrenIn(f, 1) # {}, NEW at,
         at = f.tree[Youngest(ChildrenIn(f, 1))].end
  PROVE  /\ IsBlank(Gap(at, Len(f.text))) =>
              \A k \in (at + 1)..Len(f.text) : Kept(f, k)
         /\ ~IsBlank(Gap(at, Len(f.text))) =>
              \A k \in (at + 1)..Len(f.text) : ~Kept(f, k)
<1>1. at \in 0..Len(f.text) /\ Len(f.text) \in Nat
  BY EndIs, Trees
<1>2. ASSUME NEW k \in (at + 1)..Len(f.text) PROVE Kept(f, k) <=> IsBlank(Gap(at, Len(f.text)))
  <2>1. k \in Nat /\ at < k /\ k <= Len(f.text) /\ at # Len(f.text)
    BY <1>1
  <2>2. Within(k, f.tree[Youngest(ChildrenIn(f, 1))].end, Len(f.text))
    BY <2>1 DEF Within
  <2>3. Kept(f, k) <=> LastGap(f) # << >>
    BY <2>1, <2>2, LastKept
  <2>4. LastGap(f) = KeptGap(f, at, Len(f.text))
    BY DEF LastGap
  <2>5. at \in Nat /\ at <= Len(f.text)
    BY <1>1
  <2>6. QED  BY <1>1, <2>1, <2>3, <2>4, <2>5, GapIsNone
<1>3. QED  BY <1>2

\* And what precedes the root of a Java file.
LEMMA LeadSaid ==
  ASSUME NEW f, Parsed(f), file = f, ChildrenIn(f, 1) # {}, f.lang = Java,
         IsBlank(Gap(0, f.tree[1].start))
  PROVE  \A k \in (0 + 1)..f.tree[1].start : Kept(f, k)
<1>1. PICK c : c = First(ChildrenIn(f, 1))
  OBVIOUS
<1>2. 1 \in DOMAIN f.tree /\ f.tree[1].start \in Nat
  BY Trees
<1>3. ChildrenIn(f, 1) \in SUBSET Nat
  BY Trees DEF ChildrenIn
<1>4. c \in ChildrenIn(f, 1) /\ \A j \in ChildrenIn(f, 1) : c <= j
  BY <1>1, <1>3, LeastExists
<1>5. c \in DOMAIN f.tree /\ c # 1 /\ f.tree[c].parent = 1 /\ c \in Nat
  BY <1>2, <1>4, Kids, Trees
<1>6. Elders(f, c) = {}
  <2>1. \A j \in ChildrenIn(f, 1) : j \in Nat /\ c <= j
    BY <1>3, <1>4
  <2>2. \A j \in ChildrenIn(f, 1) : ~(j < c)
    BY <1>5, <2>1
  <2>3. QED  BY <1>5, <2>2 DEF Elders
<1>7. f.tree[c].start = f.tree[1].start
  BY <1>4, <1>6, Preorder
<1>8. GapStart(f, c) = 0
  BY <1>5, <1>6 DEF GapStart
<1>9. ASSUME NEW k \in (0 + 1)..f.tree[1].start PROVE Kept(f, k)
  <2>1. k \in Nat /\ 0 < k /\ k <= f.tree[1].start /\ 0 # f.tree[1].start /\ 0 \in Nat
        /\ 0 <= f.tree[1].start
    BY <1>2
  <2>2. Within(k, GapStart(f, c), f.tree[c].start)
    BY <1>7, <1>8, <2>1 DEF Within
  <2>3. GapBefore(f, c) = KeptGap(f, 0, f.tree[1].start)
    BY <1>7, <1>8 DEF GapBefore
  <2>4. PICK to : to = f.tree[1].start
    OBVIOUS
  <2>5. KeptGap(f, 0, to) # << >>
    BY <1>2, <2>1, <2>4, GapIsNone
  <2>6. QED  BY <1>5, <2>1, <2>2, <2>3, <2>4, <2>5, GapKept
<1>10. QED  BY <1>9
-----------------------------------------------------------------------------
(* The stack: the accumulators of a path from the root to the cursor, with *)
(* what is known of the text each has spelt.                               *)
LabelIn(f, i) ==
  IF ChildrenIn(f, i) = {} /\ f.tree[i].named
  THEN Piece(f.text, f.tree[i].start, f.tree[i].end) ELSE None

Level(f, ns, s, P, d) ==
  /\ P[d] \in DOMAIN f.tree
  /\ s[d].kind = TypeIn(f, f.tree[P[d]].kind)
  /\ s[d].start = f.tree[P[d]].start /\ s[d].end = f.tree[P[d]].end
  /\ s[d].label = IF d = 1 THEN f.name ELSE LabelIn(f, P[d])
  /\ AccGood(ns, s[d])
  /\ s[d].padding \in Nat /\ s[d].padding <= s[d].start
  /\ d # 1 =>
       /\ f.tree[P[d]].parent = P[d - 1]
       /\ s[d].padding = GapBegin(f, P[d])
       /\ s[d - 1].start <= s[d].padding
       /\ \A j \in ChildrenIn(f, P[d - 1]) : j < P[d] => f.tree[j].end <= s[d].padding

TextTo(f, ns, s, d, to) ==
  Says(f, SpellIn(ns, s[d].children), IF d = 1 THEN 0 ELSE s[d].start, to)

Inside(a, b) == b.start <= a.start /\ a.end <= b.end

\* A file with a node, but for the root.
HasNodes(f) == ChildrenIn(f, 1) # {}

Walk(f, ns, s, P, at) ==
  /\ IsList(s) /\ Len(s) # 0 /\ P[1] = 1
  /\ \A d \in 1..Len(s) : Level(f, ns, s, P, d)
  /\ \A d \in 1..Len(s) : \A e \in 1..d : Inside(s[d], s[e])
  /\ HasNodes(f) => /\ \A d \in 1..(Len(s) - 1) : TextTo(f, ns, s, d, s[d + 1].padding)
                 /\ TextTo(f, ns, s, Len(s), at)

Fresh(f, i, padding) ==
  [kind |-> TypeIn(f, f.tree[i].kind), label |-> LabelIn(f, i), children |-> <<>>,
   start |-> f.tree[i].start, end |-> f.tree[i].end, padding |-> padding,
   metrics |-> NoMetrics]

\* No children spell nothing.
LEMMA NoneSpelt ==
  ASSUME NEW ns, Dag(ns)
  PROVE  /\ SpellIn(ns, <<>>) = <<>> /\ <<>> \in Seq(1..Len(ns))
         /\ Accumulated(Mapped(Metrics(ns), <<>>)) = NoMetrics
<1>1. IsList(<<>>) /\ Len(<<>>) = 0 /\ <<>> \in Seq(1..Len(ns))
  BY EmptySeq DEF IsList
<1>2. \A g : IsList(Mapped(g, <<>>)) /\ Len(Mapped(g, <<>>)) = 0
  <2>1. SUFFICES ASSUME NEW g PROVE IsList(Mapped(g, <<>>)) /\ Len(Mapped(g, <<>>)) = 0
    OBVIOUS
  <2>2. PICK e : e = <<>>
    OBVIOUS
  <2>3. IsList(Mapped(g, e)) /\ Len(Mapped(g, e)) = Len(e)
    BY <1>1, <2>2, MappedIs
  <2>4. QED  BY <1>1, <2>2, <2>3
<1>3. Accumulated(Mapped(Metrics(ns), <<>>)) = NoMetrics
  BY <1>2, AccumulatedNone
<1>4. SpellIn(ns, <<>>) = <<>>
  BY <1>2, FlattenNone DEF SpellIn
<1>5. QED  BY <1>1, <1>3, <1>4

\* A fresh accumulator is a good one, of no text.
LEMMA FreshGood ==
  ASSUME NEW f, NEW ns, Dag(ns), NEW i, NEW padding, NEW b, b = Fresh(f, i, padding)
  PROVE  AccGood(ns, b) /\ b.children = <<>> /\ SpellIn(ns, b.children) = <<>>
<1>1. /\ b = [kind |-> b.kind, label |-> b.label, children |-> b.children,
              start |-> b.start, end |-> b.end, padding |-> b.padding, metrics |-> b.metrics]
      /\ b.children = <<>> /\ b.metrics = NoMetrics
  BY DEF Fresh
<1>2. QED  BY <1>1, NoneSpelt DEF AccGood

(* A new accumulator on the stack, for a child of the node under the       *)
(* cursor, where the text is spelt up to the gap before the child.         *)
LEMMA WalkDown ==
  ASSUME NEW f, Parsed(f), NEW ns, Dag(ns), NEW s, NEW P, NEW at \in Nat,
         Walk(f, ns, s, P, at),
         NEW i, i \in ChildrenIn(f, P[Len(s)]),
         s[Len(s)].start <= at, at <= f.tree[i].start,
         \A j \in ChildrenIn(f, P[Len(s)]) : j < i => f.tree[j].end <= at,
         at = GapBegin(f, i), NEW t, IsList(t), Len(t) = Len(s) + 1, \A d \in 1..Len(s) : t[d] = s[d],
         t[Len(t)] = Fresh(f, i, at),
         NEW Q, \A d \in 1..Len(s) : Q[d] = P[d], Q[Len(t)] = i
  PROVE  Walk(f, ns, t, Q, f.tree[i].start)
<1>1. PICK n : n = Len(s)
  OBVIOUS
<1>2. n \in Nat /\ n # 0 /\ Len(t) = n + 1 /\ n \in 1..n
  BY <1>1, Lists DEF Walk
<1>3. /\ P[n] \in DOMAIN f.tree /\ s[n].start = f.tree[P[n]].start
      /\ s[n].end = f.tree[P[n]].end
  BY <1>1, <1>2 DEF Walk, Level
<1>4. /\ i \in DOMAIN f.tree /\ i # 1 /\ f.tree[i].parent = P[n]
      /\ f.tree[P[n]].start <= f.tree[i].start /\ f.tree[i].end <= f.tree[P[n]].end
  BY <1>1, <1>3, Kids
<1>5. PICK b : b = Fresh(f, i, at)
  OBVIOUS
<1>6. /\ b.kind = TypeIn(f, f.tree[i].kind) /\ b.label = LabelIn(f, i)
      /\ b.start = f.tree[i].start /\ b.end = f.tree[i].end /\ b.padding = at
      /\ AccGood(ns, b) /\ SpellIn(ns, b.children) = <<>>
  BY <1>5, FreshGood DEF Fresh
<1>7. t[n + 1] = b /\ Q[n + 1] = i /\ \A d \in 1..n : t[d] = s[d] /\ Q[d] = P[d]
  BY <1>1, <1>2, <1>5
<1>8. \A d \in 1..(n + 1) : d \in 1..n \/ d = n + 1
  BY <1>2
<1>9. ASSUME NEW d \in 1..(n + 1) PROVE Level(f, ns, t, Q, d)
  <2>1. CASE d \in 1..n
    <3>1. d # 1 => d - 1 \in 1..n
      BY <1>2, <2>1
    <3>2. Level(f, ns, s, P, d)
      BY <1>1, <2>1 DEF Walk
    <3>3. t[d] = s[d] /\ Q[d] = P[d] /\ (d # 1 => t[d - 1] = s[d - 1] /\ Q[d - 1] = P[d - 1])
      BY <1>7, <2>1, <3>1
    <3>4. QED  BY <3>2, <3>3 DEF Level
  <2>2. CASE d = n + 1
    <3>1. d # 1 /\ d - 1 = n
      BY <1>2, <2>2
    <3>2. t[d - 1] = s[n] /\ Q[d - 1] = P[n] /\ t[d] = b /\ Q[d] = i
      BY <1>2, <1>7, <2>2, <3>1
    <3>3. s[n].start <= at /\ at <= f.tree[i].start /\ at = GapBegin(f, i)
          /\ \A j \in ChildrenIn(f, P[n]) : j < i => f.tree[j].end <= at
      BY <1>1
    <3>4. QED  BY <1>4, <1>6, <3>1, <3>2, <3>3 DEF Level
  <2>3. QED  BY <1>8, <2>1, <2>2
<1>10. ASSUME NEW d \in 1..(n + 1), NEW e \in 1..d PROVE Inside(t[d], t[e])
  <2>1. CASE d \in 1..n
    <3>1. e \in 1..n /\ t[d] = s[d] /\ t[e] = s[e]
      BY <1>2, <1>7, <2>1
    <3>2. QED  BY <1>1, <2>1, <3>1 DEF Walk
  <2>2. CASE d = n + 1
    <3>1. CASE e = n + 1
      <4>1. t[d] = b /\ t[e] = b /\ b.start \in Nat /\ b.end \in Nat
        BY <1>4, <1>6, <1>7, <2>2, <3>1, Trees
      <4>2. QED  BY <4>1 DEF Inside
    <3>2. CASE e \in 1..n
      <4>1. Inside(s[n], s[e]) /\ t[d] = b /\ t[e] = s[e]
        BY <1>1, <1>2, <1>7, <2>2, <3>2 DEF Walk
      <4>2. Level(f, ns, s, P, e)
        BY <1>1, <3>2 DEF Walk
      <4>3. /\ s[e].start \in Nat /\ s[e].end \in Nat /\ s[n].start \in Nat /\ s[n].end \in Nat
            /\ b.start \in Nat /\ b.end \in Nat
        BY <1>3, <1>4, <1>6, Zenon, <4>2, Trees DEF Level
      <4>4. s[n].start <= b.start /\ b.end <= s[n].end
        BY <1>3, <1>4, <1>6
      <4>5. QED  BY <4>1, <4>3, <4>4 DEF Inside
    <3>3. QED  BY <1>2, <2>2, <3>1, <3>2
  <2>3. QED  BY <1>8, <2>1, <2>2
<1>11. ASSUME HasNodes(f)
       PROVE  /\ \A d \in 1..(Len(t) - 1) : TextTo(f, ns, t, d, t[d + 1].padding)
              /\ TextTo(f, ns, t, Len(t), f.tree[i].start)
  <2>1. ASSUME NEW d \in 1..n PROVE TextTo(f, ns, t, d, t[d + 1].padding)
    <3>1. t[d] = s[d]
      BY <1>7
    <3>2. CASE d = n
      <4>1. TextTo(f, ns, s, n, at) /\ t[d + 1].padding = at
        BY <1>1, <1>6, <1>7, <1>11, <3>2 DEF Walk
      <4>2. QED  BY <3>1, <3>2, <4>1 DEF TextTo
    <3>3. CASE d # n
      <4>1. d \in 1..(n - 1) /\ d + 1 \in 1..n
        BY <1>2, <3>3
      <4>2. TextTo(f, ns, s, d, s[d + 1].padding) /\ t[d + 1] = s[d + 1]
        BY <1>1, <1>7, <1>11, <4>1 DEF Walk
      <4>3. QED  BY <3>1, <4>2 DEF TextTo
    <3>4. QED  BY <3>2, <3>3
  <2>2. TextTo(f, ns, t, n + 1, f.tree[i].start)
    <3>1. b.start \in 0..Len(f.text) /\ f.text \in Seq(Byte)
      <4>1. /\ f.tree[i].start \in Nat /\ f.tree[i].end \in Nat /\ Len(f.text) \in Nat
            /\ f.tree[i].start <= f.tree[i].end /\ f.tree[i].end <= Len(f.text)
            /\ f.text \in Seq(Byte)
        BY <1>4, Trees
      <4>2. QED  BY <1>6, <4>1
    <3>2. Says(f, <<>>, b.start, b.start)
      BY <3>1, SaysNone
    <3>3. n + 1 # 1
      BY <1>2
    <3>4. QED  BY <1>6, <1>7, <3>2, <3>3 DEF TextTo
  <2>3. Len(t) - 1 = n
    BY <1>2
  <2>4. QED  BY <1>2, <2>1, <2>2, <2>3
<1>12. IsList(t) /\ Len(t) # 0 /\ Q[1] = 1
  <2>1. 1 \in 1..n /\ P[1] = 1
    BY <1>2 DEF Walk
  <2>2. QED  BY <1>2, <1>7, <2>1
<1>13. QED  BY <1>2, <1>9, <1>10, <1>11, <1>12 DEF Walk

(* The top of the stack is dropped: its node was pushed to its parent.     *)
LEMMA WalkUp ==
  ASSUME NEW f, NEW ns, Dag(ns), NEW more, Dag(more), Keeps(ns, more),
         NEW s, NEW P, NEW at, Walk(f, ns, s, P, at),
         NEW t, IsList(t), Len(t) = Len(s) - 1, Len(t) # 0,
         \A d \in 1..(Len(t) - 1) : t[d] = s[d],
         SameNode(s[Len(t)], t[Len(t)]), AccGood(more, t[Len(t)]),
         NEW to, HasNodes(f) => TextTo(f, more, t, Len(t), to)
  PROVE  Walk(f, more, t, P, to)
<1>1. PICK n : n = Len(t)
  OBVIOUS
<1>2. n \in Nat /\ n # 0 /\ Len(s) = n + 1 /\ n \in 1..n
  <2>1. Len(s) \in Nat /\ Len(t) \in Nat
    BY Lists DEF Walk
  <2>2. QED  BY <1>1, <2>1
<1>3. \A d \in 1..n : d \in 1..(n + 1) /\ SameNode(s[d], t[d])
  <2>1. ASSUME NEW d \in 1..n PROVE SameNode(s[d], t[d])
    <3>1. CASE d = n
      BY <1>1, <3>1
    <3>2. CASE d # n
      <4>1. d \in 1..(n - 1)
        BY <1>2, <3>2
      <4>2. QED  BY <1>1, <4>1 DEF SameNode
    <3>3. QED  BY <3>1, <3>2
  <2>2. QED  BY <1>2, <2>1
<1>4. ASSUME NEW d \in 1..n
      PROVE  /\ AccGood(more, t[d])
             /\ d # n => SpellIn(more, t[d].children) = SpellIn(ns, s[d].children)
  <2>1. CASE d = n
    BY <1>1, <2>1
  <2>2. CASE d # n
    <3>1. d \in 1..(n - 1)
      BY <1>2, <2>2
    <3>2. t[d] = s[d]
      BY <1>1, <3>1
    <3>3. AccGood(ns, s[d])
      BY <1>2, <1>3 DEF Walk, Level
    <3>4. AccGood(more, s[d]) /\ SpellIn(more, s[d].children) = SpellIn(ns, s[d].children)
      BY <3>3, AccStays
    <3>5. QED  BY <3>2, <3>4
  <2>3. QED  BY <2>1, <2>2
<1>5. ASSUME NEW d \in 1..n PROVE Level(f, more, t, P, d)
  <2>1. Level(f, ns, s, P, d)
    BY <1>2, <1>3 DEF Walk
  <2>2. d # 1 => d - 1 \in 1..n
    BY <1>2
  <2>3. SameNode(s[d], t[d]) /\ (d # 1 => SameNode(s[d - 1], t[d - 1]))
    BY <1>3, <2>2
  <2>4. AccGood(more, t[d])
    BY <1>4
  <2>5. QED  BY <2>1, <2>3, <2>4 DEF Level, SameNode
<1>6. ASSUME NEW d \in 1..n, NEW e \in 1..d PROVE Inside(t[d], t[e])
  <2>1. e \in 1..n
    BY <1>2
  <2>2. Inside(s[d], s[e])
    BY <1>2, <1>3 DEF Walk
  <2>3. SameNode(s[d], t[d]) /\ SameNode(s[e], t[e])
    BY <1>3, <2>1
  <2>4. QED  BY <2>2, <2>3 DEF Inside, SameNode
<1>7. ASSUME HasNodes(f)
      PROVE  /\ \A d \in 1..(Len(t) - 1) : TextTo(f, more, t, d, t[d + 1].padding)
             /\ TextTo(f, more, t, Len(t), to)
  <2>1. ASSUME NEW d \in 1..(n - 1) PROVE TextTo(f, more, t, d, t[d + 1].padding)
    <3>1. d \in 1..n /\ d # n /\ d + 1 \in 1..n /\ d \in 1..(Len(s) - 1)
      BY <1>2
    <3>2. TextTo(f, ns, s, d, s[d + 1].padding)
      BY <1>7, <3>1 DEF Walk
    <3>3. SameNode(s[d], t[d]) /\ SameNode(s[d + 1], t[d + 1])
      BY <1>3, <3>1
    <3>4. SpellIn(more, t[d].children) = SpellIn(ns, s[d].children)
      BY <1>4, <3>1
    <3>5. QED  BY <3>2, <3>3, <3>4 DEF TextTo, SameNode
  <2>2. QED  BY <1>1, <1>7, <2>1
<1>8. QED  BY <1>1, <1>5, <1>6, <1>7 DEF Walk
-----------------------------------------------------------------------------
\* A content has a text.
LEMMA ContentText ==
  ASSUME NEW ns, Dag(ns), NEW c, ContentOK(c, Len(ns))
  PROVE  TextWith(Texts(ns), c) \in Seq(Byte)
<1>1. CASE c.kind = SpacesKind
  BY <1>1 DEF ContentOK, TextWith
<1>2. CASE c.kind # SpacesKind /\ c.children = <<>>
  BY <1>2 DEF ContentOK, TextWith
<1>3. CASE c.kind # SpacesKind /\ c.children # <<>>
  <2>1. TextWith(Texts(ns), c) = SpellIn(ns, c.children)
    BY <1>3 DEF TextWith, SpellIn
  <2>2. QED  BY <2>1, SpelledText DEF ContentOK
<1>4. QED  BY <1>1, <1>2, <1>3
-----------------------------------------------------------------------------
(* Why a blank cannot be formatted: a byte outside of the leaves.          *)
Unformatted(f) ==
  \E k \in DOMAIN f.text : ~InLeaf(f, k) /\ Formatted(f.text[k]) = None

\* A gap that is not blank has a byte that is not.
LEMMA NotBlank ==
  ASSUME NEW f, file = f, NEW to \in Nat, NEW from \in Nat, ~IsBlank(Gap(from, to))
  PROVE  \E k \in Nat : from < k /\ k <= to /\ Formatted(f.text[k]) = None
<1>1. PICK j \in DOMAIN Gap(from, to) : Gap(from, to)[j] = None
  BY DEF IsBlank
<1>2. j \in 1..(to - from) /\ Formatted(f.text[from + j]) = None
  BY <1>1 DEF Gap
<1>3. PICK k : k = from + j
  OBVIOUS
<1>4. k \in Nat /\ from < k /\ k <= to
  BY <1>2, <1>3
<1>5. QED  BY <1>2, <1>3, <1>4

\* No leaf has the bytes of a gap.
LEMMA GapUnformatted ==
  ASSUME NEW f, Parsed(f), file = f, NEW c \in DOMAIN f.tree, c # 1,
         ~IsBlank(Gap(GapBegin(f, c), f.tree[c].start))
  PROVE  Unformatted(f)
<1>1. PICK b : b = GapBegin(f, c)
  OBVIOUS
<1>2. PICK to : to = f.tree[c].start
  OBVIOUS
<1>3. /\ b \in Nat /\ to \in Nat /\ to <= Len(f.text) /\ f.text \in Seq(Byte)
      /\ Len(f.text) \in Nat /\ c \in ChildrenIn(f, f.tree[c].parent)
  BY <1>1, <1>2, GapBegins, Trees
<1>4. PICK k \in Nat : b < k /\ k <= to /\ Formatted(f.text[k]) = None
  BY <1>1, <1>2, <1>3, NotBlank
<1>5. GapStart(f, c) = b
  <2>1. b # to
    BY <1>3, <1>4
  <2>2. QED  BY <1>1, <1>2, <2>1, GapStartIs DEF Leading
<1>6. Within(k, GapStart(f, c), f.tree[c].start)
  BY <1>2, <1>4, <1>5 DEF Within
<1>7. Alone(f, f.tree[c].parent, k)
  BY <1>6, GapAlone
<1>8. ~InLeaf(f, k)
  BY <1>3, <1>7, NotInLeaf
<1>9. k \in DOMAIN f.text
  <2>1. DOMAIN f.text = 1..Len(f.text)
    BY <1>3, LenProperties
  <2>2. QED  BY <1>3, <1>4, <2>1
<1>10. QED  BY <1>4, <1>8, <1>9 DEF Unformatted

\* Nor do they have those before the root, or behind its children.
LEMMA RootUnformatted ==
  ASSUME NEW f, Parsed(f), file = f, NEW to \in Nat, NEW from \in Nat, to <= Len(f.text),
         \A j \in ChildrenIn(f, 1) : f.tree[j].end <= from \/ to <= f.tree[j].start,
         ~IsBlank(Gap(from, to))
  PROVE  Unformatted(f)
<1>1. PICK k \in Nat : from < k /\ k <= to /\ Formatted(f.text[k]) = None
  BY NotBlank
<1>2. 1 \in DOMAIN f.tree /\ f.text \in Seq(Byte) /\ Len(f.text) \in Nat
  BY Trees
<1>3. ASSUME NEW j \in ChildrenIn(f, 1) PROVE ~Covers(f, j, k)
  <2>1. j \in DOMAIN f.tree
    BY DEF ChildrenIn
  <2>2. f.tree[j].start \in Nat /\ f.tree[j].end \in Nat
    BY <2>1, Trees
  <2>3. f.tree[j].end <= from \/ to <= f.tree[j].start
    OBVIOUS
  <2>4. QED  BY <1>1, <2>2, <2>3 DEF Covers
<1>4. Alone(f, 1, k)
  BY <1>2, <1>3 DEF Alone
<1>5. ~InLeaf(f, k)
  BY <1>4, NotInLeaf
<1>6. k \in DOMAIN f.text
  <2>1. DOMAIN f.text = 1..Len(f.text)
    BY <1>2, LenProperties
  <2>2. QED  BY <1>1, <1>2, <2>1
<1>7. QED  BY <1>1, <1>5, <1>6 DEF Unformatted
-----------------------------------------------------------------------------
(* The traversal in progress, along a path P.                              *)
At == IF has = Up THEN sum ELSE Top.start

Standing(P) ==
  /\ Walk(file, nodes, stack, P, At) /\ P[Len(stack)] = cursor
  /\ has \in {Down, Right, Up} /\ sum \in 0..Len(file.text)
  /\ has # Up /\ Len(stack) # 1 => Top.children = <<>>
  /\ has = Up => /\ Top.children # <<>>
                 /\ \E j \in Children(cursor) : sum = Cst[j].end
                 /\ \A j \in Children(cursor) : Cst[j].end <= sum

\* The accumulator at the top is that of the node under the cursor.
LEMMA TopIs ==
  ASSUME Parsed(file), NEW P, Standing(P)
  PROVE  /\ Len(stack) \in Nat \ {0} /\ IsList(stack) /\ cursor \in DOMAIN Cst
         /\ Top.kind = TypeIn(file, Cst[cursor].kind)
         /\ Top.start = Cst[cursor].start /\ Top.end = Cst[cursor].end
         /\ Top.label = IF Len(stack) = 1 THEN file.name ELSE LabelIn(file, cursor)
         /\ AccGood(nodes, Top)
         /\ Top.padding \in Nat /\ Top.padding <= Top.start
         /\ Top.start \in Nat /\ Top.end \in Nat
         /\ Top.start <= Top.end /\ Top.end <= Len(file.text)
         /\ Len(stack) = 1 => cursor = 1
         /\ Len(stack) # 1 => cursor # 1
<1>1. PICK n : n = Len(stack)
  OBVIOUS
<1>2. IsList(stack) /\ n \in Nat \ {0} /\ n \in 1..n /\ P[1] = 1 /\ P[n] = cursor
  BY <1>1, Lists DEF Standing, Walk
<1>3. Level(file, nodes, stack, P, n) /\ Top = stack[n]
  BY <1>1, <1>2 DEF Standing, Walk, Top
<1>4. cursor \in DOMAIN Cst
  BY <1>2, <1>3 DEF Level, Cst
<1>5. /\ Cst[cursor].start \in Nat /\ Cst[cursor].end \in Nat
      /\ Cst[cursor].start <= Cst[cursor].end /\ Cst[cursor].end <= Len(file.text)
  BY <1>4, Trees DEF Cst
<1>6. n # 1 => cursor # 1
  <2>1. SUFFICES ASSUME n # 1, cursor = 1 PROVE FALSE
    OBVIOUS
  <2>2. Cst[1].parent = P[n - 1]
    BY <1>2, <1>3, <2>1 DEF Level, Cst
  <2>3. n - 1 \in 1..n
    BY <1>2, <2>1
  <2>4. Level(file, nodes, stack, P, n - 1)
    BY <1>1, <2>3 DEF Standing, Walk
  <2>5. P[n - 1] \in DOMAIN Cst
    BY <2>4 DEF Level, Cst
  <2>6. QED  BY <2>2, <2>5, Trees DEF Cst
<1>7. QED  BY <1>1, <1>2, <1>3, <1>4, <1>5, <1>6 DEF Level, Cst

(* The node that is closed says its text.                                  *)
LEMMA TopText ==
  ASSUME Parsed(file), Dag(nodes), NEW P, Standing(P), Len(stack) # 1,
         has = Up \/ Children(cursor) = {}
  PROVE  /\ ContentOK(Content(Top), Len(nodes))
         /\ HasNodes(file) =>
              Says(file, TextWith(Texts(nodes), Content(Top)), Top.start, Top.end)
<1>1. PICK a : a = Top
  OBVIOUS
<1>2. PICK c : c = Content(a)
  OBVIOUS
<1>3. /\ cursor \in DOMAIN Cst /\ cursor # 1
      /\ a.kind = TypeIn(file, Cst[cursor].kind) /\ a.label = LabelIn(file, cursor)
      /\ a.start = Cst[cursor].start /\ a.end = Cst[cursor].end
      /\ AccGood(nodes, a) /\ a.start \in Nat /\ a.end \in Nat
      /\ a.start <= a.end /\ a.end <= Len(file.text)
  BY <1>1, TopIs
<1>4. c.kind = a.kind /\ c.label = a.label /\ c.children = a.children
  BY <1>2 DEF Content
<1>5. a.kind # SpacesKind /\ a.children \in Seq(1..Len(nodes))
  BY <1>3, Trees DEF AccGood, Cst
<1>6. file.text \in Seq(Byte) /\ Len(file.text) \in Nat
  BY Trees
<1>7. a.end \in 0..Len(file.text) /\ a.start \in 0..a.end
  BY <1>3, <1>6
<1>8. PICK p : p = Piece(file.text, a.start, a.end)
  OBVIOUS
<1>9. p \in Seq(Byte) /\ p # None
  BY <1>6, <1>7, <1>8, PieceIs, ConstantsAssumption
<1>10. CASE has = Up
  <2>1. a.children # <<>>
    BY <1>1, <1>10 DEF Standing
  <2>2. ContentOK(c, Len(nodes))
    BY <1>4, <1>5, <2>1 DEF ContentOK
  <2>3. TextWith(Texts(nodes), c) = SpellIn(nodes, a.children)
    BY <1>4, <1>5, <2>1 DEF TextWith, SpellIn
  <2>4. ASSUME HasNodes(file) PROVE Says(file, SpellIn(nodes, a.children), a.start, a.end)
    <3>1. PICK j \in ChildrenIn(file, cursor) : sum = file.tree[j].end
      BY <1>10 DEF Standing, Children, Cst
    <3>2. \A k \in ChildrenIn(file, cursor) : file.tree[k].end <= sum
      BY <1>10 DEF Standing, Children, Cst
    <3>3. PICK i : i = cursor
      OBVIOUS
    <3>4. PICK at : at = sum
      OBVIOUS
    <3>5. PICK f : f = file
      OBVIOUS
    <3>6. PICK w : w = SpellIn(nodes, a.children)
      OBVIOUS
    <3>7. /\ Parsed(f) /\ i \in DOMAIN f.tree /\ i # 1 /\ j \in ChildrenIn(f, i)
          /\ (\A k \in ChildrenIn(f, i) : f.tree[k].end <= at) /\ at = f.tree[j].end
          /\ HasNodes(f) /\ f.text \in Seq(Byte) /\ Len(f.text) \in Nat
      BY <1>3, <1>6, <2>4, <3>1, <3>2, <3>3, <3>4, <3>5 DEF Cst
    <3>8. Says(f, w, a.start, at)
      <4>1. TextTo(file, nodes, stack, Len(stack), sum)
        BY <1>10, <2>4 DEF Standing, Walk, At
      <4>2. a = stack[Len(stack)]
        BY <1>1 DEF Top
      <4>3. QED  BY <3>4, <3>5, <3>6, <4>1, <4>2 DEF TextTo
    <3>9. a.start = f.tree[i].start /\ a.end = f.tree[i].end
      BY <1>3, <3>3, <3>5 DEF Cst
    <3>10. a.end \in 0..Len(f.text) /\ at \in 0..a.end /\ a.start \in 0..at
      <4>1. /\ j \in DOMAIN f.tree /\ f.tree[i].start <= f.tree[j].start
            /\ f.tree[j].end <= f.tree[i].end
        BY <3>7, Kids
      <4>2. f.tree[j].start \in Nat /\ f.tree[j].end \in Nat /\ f.tree[j].start <= f.tree[j].end
        BY <3>7, <4>1, Trees
      <4>3. QED  BY <1>3, <3>5, <3>7, <3>9, <4>1, <4>2
    <3>11. f.lang = Java => at = a.end
      BY <3>7, <3>9, EndsWithLast
    <3>12. ASSUME NEW k \in (at + 1)..a.end PROVE ~Kept(f, k)
      <4>1. k \in Nat /\ a.start < k /\ at < k /\ k <= a.end
        BY <3>7, <3>10
      <4>2. Covers(f, i, k)
        BY <3>9, <4>1 DEF Covers
      <4>3. ASSUME NEW m \in ChildrenIn(f, i) PROVE f.tree[m].end < k
        <5>1. m \in DOMAIN f.tree
          BY DEF ChildrenIn
        <5>2. f.tree[m].end \in Nat /\ f.tree[m].end <= at /\ at \in Nat
          BY <3>7, <3>10, <5>1, Trees
        <5>3. QED  BY <4>1, <5>2
      <4>4. ChildrenIn(f, 1) # {} /\ ChildrenIn(f, i) # {}
        BY <3>7 DEF HasNodes
      <4>5. QED  BY <3>7, <4>1, <4>2, <4>3, <4>4, TailLost
    <3>13. Says(f, w, a.start, a.end)
      BY <3>7, <3>8, <3>10, <3>11, <3>12, SaysStill
    <3>14. QED  BY <3>5, <3>6, <3>13
  <2>5. QED  BY <1>1, <1>2, <2>2, <2>3, <2>4
<1>11. CASE has # Up
  <2>1. a.children = <<>> /\ ChildrenIn(file, cursor) = {}
    BY <1>1, <1>11 DEF Standing, Children
  <2>2. TextWith(Texts(nodes), c) = IF a.label # None THEN a.label ELSE Spelling(a.kind)
    BY <1>4, <1>5, <2>1 DEF TextWith
  <2>3. (IF a.label # None THEN a.label ELSE Spelling(a.kind)) = p
    <3>1. CASE Cst[cursor].named
      BY <1>3, <1>8, <1>9, <2>1, <3>1 DEF LabelIn, Cst
    <3>2. CASE ~Cst[cursor].named
      <4>1. a.label = None
        BY <1>3, <3>2 DEF LabelIn, Cst
      <4>2. Spelling(a.kind) = p
        <5>1. PICK i : i = cursor
          OBVIOUS
        <5>2. PICK f : f = file
          OBVIOUS
        <5>3. /\ Parsed(f) /\ i \in DOMAIN f.tree /\ i # 1 /\ ChildrenIn(f, i) = {}
              /\ ~f.tree[i].named
          BY <1>3, <2>1, <3>2, <5>1, <5>2 DEF Cst
        <5>4. Spelling(TypeIn(f, f.tree[i].kind)) = Piece(f.text, f.tree[i].start, f.tree[i].end)
          BY <5>3, LeafText
        <5>5. QED  BY <1>3, <1>8, <5>1, <5>2, <5>4 DEF Cst
      <4>3. QED  BY <4>1, <4>2
    <3>3. QED  BY <3>1, <3>2
  <2>4. ContentOK(c, Len(nodes))
    BY <1>4, <1>5, <1>9, <2>3 DEF ContentOK
  <2>5. Says(file, p, a.start, a.end)
    <3>1. PICK f : f = file
      OBVIOUS
    <3>2. PICK i : i = cursor
      OBVIOUS
    <3>3. /\ i \in DOMAIN f.tree \ {1} /\ ChildrenIn(f, i) = {}
          /\ a.start = f.tree[i].start /\ a.end = f.tree[i].end
      BY <1>3, <2>1, <3>1, <3>2 DEF Cst
    <3>4. ASSUME NEW k \in (a.start + 1)..a.end PROVE Kept(f, k)
      <4>1. a.start < k /\ k <= a.end
        BY <1>7
      <4>2. Within(k, f.tree[i].start, f.tree[i].end)
        BY <3>3, <4>1 DEF Within
      <4>3. QED  BY <3>3, <4>2 DEF Kept, InLeaf
    <3>5. QED  BY <1>6, <1>7, <1>8, <3>1, <3>4, SaysPiece
  <2>6. QED  BY <1>1, <1>2, <2>2, <2>3, <2>4, <2>5
<1>12. QED  BY <1>10, <1>11
-----------------------------------------------------------------------------
\* The kinds of node of a file of a language.
LEMMA KindsMade ==
  ASSUME NEW f, f.lang \in {Java, Xml}, NEW k, NEW kind, kind = TypeIn(f, k), kind # SpacesKind
  PROVE  /\ JavaMade(kind) \/ kind = Error \/ f.lang # Java
         /\ f.lang = Xml => ~JavaMade(kind)
<1>1. CASE k = Error
  BY <1>1 DEF TypeIn, JavaMade
<1>2. CASE k # Error
  <2>1. kind = <<f.lang, k>>
    BY <1>2 DEF TypeIn
  <2>2. \A j : <<f.lang, k>> = <<Java, j>> => f.lang = Java
    OBVIOUS
  <2>3. f.lang = Java => <<f.lang, k>> = <<Java, k>>
    OBVIOUS
  <2>4. Java # Xml
    BY ConstantsAssumption
  <2>5. f.lang = Xml => ~JavaMade(kind)
    BY <2>1, <2>2, <2>4 DEF JavaMade
  <2>6. JavaMade(kind) \/ kind = Error \/ f.lang # Java
    BY <2>1, <2>3 DEF JavaMade
  <2>7. QED  BY <2>5, <2>6
<1>3. QED  BY <1>1, <1>2

(* What explains that a file panics at a node.                             *)
Explained(i) == Cst[i].kind = Error \/ (file.lang = Java /\ Unformatted(file))

(* The spaces before a node that is closed, and the node, go to its parent.*)
LEMMA PostRight ==
  ASSUME Parsed(file), Stores(nodes, mdCache, Roots), NEW P, Standing(P), Len(stack) # 1,
         has = Up \/ Children(cursor) = {}, NEW post \in Post
  PROVE  /\ post.ok \in BOOLEAN
         /\ post.ok =>
              /\ Stores(post.node.nodes, post.node.cache, Roots)
              /\ Keeps(nodes, post.node.nodes)
              /\ AccGood(post.node.nodes, post.parent)
              /\ SameNode(Parent, post.parent) /\ post.parent.children # <<>>
              /\ Says(file, SpellIn(post.node.nodes, post.parent.children),
                      IF Len(stack) = 2 THEN 0 ELSE Parent.start, Top.end)
         /\ ~post.ok => Explained(cursor)
<1>1. PICK gap, node :
        /\ gap = HandleSpacing(nodes, Parent, Top.padding, Top.start)
        /\ node = Make(gap.nodes, Top)
        /\ post = [node |-> node, ok |-> gap.ok /\ node.ok,
                   parent |-> Push(gap.parent, node.id, node.metrics)]
  BY DEF Post, PostNode, PostSpaces
<1>2. post.node = node /\ post.ok = (gap.ok /\ node.ok)
      /\ post.parent = Push(gap.parent, node.id, node.metrics)
  BY <1>1
<1>3. PICK ns : ns = gap.nodes
  OBVIOUS
<1>4. PICK more : more = node.nodes
  OBVIOUS
<1>5. PICK a : a = Top
  OBVIOUS
<1>6. PICK p : p = Parent
  OBVIOUS
<1>7. PICK n : n = Len(stack)
  OBVIOUS
<1>8. PICK c : c = Content(a)
  OBVIOUS
<1>9. PICK text : text = file.text
  OBVIOUS
<1>10. PICK b : b = gap.parent
  OBVIOUS
<1>11. PICK from : from = IF n = 2 THEN 0 ELSE p.start
  OBVIOUS
<1>12. /\ n \in Nat \ {0} /\ n # 1 /\ IsList(stack) /\ cursor \in DOMAIN Cst
       /\ a.kind = TypeIn(file, Cst[cursor].kind)
       /\ AccGood(nodes, a) /\ a.padding \in Nat /\ a.padding <= a.start
       /\ a.start \in Nat /\ a.end \in Nat /\ a.start <= a.end /\ a.end <= Len(file.text)
  BY <1>5, <1>7, TopIs
<1>13. text \in Seq(Byte) /\ Len(text) \in Nat /\ file.lang \in {Java, Xml}
  BY <1>9, Trees
<1>14. Dag(nodes)
  BY DEF Stores
<1>30. HasNodes(file)
  <2>1. 2 \in 1..Len(stack) /\ 2 # 1 /\ 2 - 1 = 1
    BY <1>7, <1>12
  <2>2. Level(file, nodes, stack, P, 2) /\ P[1] = 1
    BY <2>1 DEF Standing, Walk
  <2>3. P[2] \in ChildrenIn(file, 1)
    BY <2>1, <2>2 DEF Level, ChildrenIn
  <2>4. QED  BY <2>3 DEF HasNodes
<1>15. /\ ContentOK(c, Len(nodes))
       /\ Says(file, TextWith(Texts(nodes), c), a.start, a.end)
  BY <1>5, <1>8, <1>14, <1>30, TopText
<1>16. /\ n - 1 \in 1..n /\ n - 1 \in 1..(n - 1) /\ (n - 1) + 1 = n /\ n \in 1..n
       /\ (n - 1 = 1) = (n = 2)
  BY <1>12
<1>17. p = stack[n - 1] /\ a = stack[n]
  BY <1>5, <1>6, <1>7 DEF Parent, Top
<1>18. /\ AccGood(nodes, p) /\ p.start \in Nat /\ p.start <= a.padding
  <2>1. Level(file, nodes, stack, P, n - 1) /\ Level(file, nodes, stack, P, n)
    BY <1>7, <1>16 DEF Standing, Walk
  <2>2. p.start = file.tree[P[n - 1]].start /\ P[n - 1] \in DOMAIN file.tree
    BY <1>17, <2>1 DEF Level
  <2>3. p.start \in Nat
    BY <2>2, Trees
  <2>4. p.start <= a.padding
    BY <1>12, <1>17, <2>1 DEF Level
  <2>5. QED  BY <1>17, <2>1, <2>3, <2>4 DEF Level
<1>29. a.padding = GapBegin(file, cursor) /\ a.start = file.tree[cursor].start
  <2>1. Level(file, nodes, stack, P, n) /\ P[n] = cursor
    BY <1>7, <1>16 DEF Standing, Walk
  <2>2. QED  BY <1>12, <1>17, <2>1 DEF Level
<1>19. /\ a.start \in 0..Len(text) /\ a.padding \in 0..a.start /\ from \in 0..a.padding
       /\ a.end \in 0..Len(text) /\ a.start \in 0..a.end /\ from \in 0..a.start
  BY <1>9, <1>11, <1>12, <1>13, <1>18
<1>20. /\ Stores(ns, mdCache, Roots) /\ Keeps(nodes, ns)
       /\ AccGood(ns, b) /\ SameNode(p, b)
       /\ (a.padding = a.start \/ IsBlank(Gap(a.padding, a.start))) =>
             /\ gap.ok = TRUE
             /\ Canonical(SpellIn(ns, b.children)) =
                  Canonical(SpellIn(nodes, p.children))
                    \o Canonical(Piece(text, a.padding, a.start))
       /\ ~(a.padding = a.start \/ IsBlank(Gap(a.padding, a.start))) =>
             gap.ok = (file.lang = Xml) /\ b = p /\ ns = nodes
  <2>1. gap = HandleSpacing(nodes, p, a.padding, a.start)
    BY <1>1, <1>5, <1>6
  <2>2. file.text = text /\ AccGood(nodes, p)
    BY <1>9, <1>18
  <2>3. PICK at : at = a.padding
    OBVIOUS
  <2>4. PICK to : to = a.start
    OBVIOUS
  <2>5. gap = HandleSpacing(nodes, p, at, to) /\ to \in 0..Len(text) /\ at \in 0..to
    BY <1>19, <2>1, <2>3, <2>4
  <2>6. PICK roots : roots = Roots
    OBVIOUS
  <2>7. Stores(nodes, mdCache, roots)
    BY <2>6
  <2>8. Spaced(nodes, p, roots, at, to, gap)
    BY <1>9, <1>13, <2>7, <2>2, <2>5, SpacingRight
  <2>9. QED  BY <1>3, <1>9, <1>10, <2>6, <2>3, <2>4, <2>8 DEF Spaced
<1>21. Dag(ns)
  BY <1>20 DEF Stores
<1>22. AccGood(ns, a)
  BY <1>12, <1>14, <1>20, <1>21, AccStays
<1>23. ContentOK(c, Len(ns)) /\ TextWith(Texts(ns), c) = TextWith(Texts(nodes), c)
  <2>1. TextWith(Texts(ns), c) = TextWith(Texts(nodes), c)
    BY <1>14, <1>15, <1>20, <1>21, WithMore
  <2>2. Len(nodes) \in Nat /\ Len(ns) \in Nat /\ Len(nodes) <= Len(ns)
    <3>1. /\ Len(nodes) \in Nat /\ DOMAIN nodes = 1..Len(nodes)
          /\ Len(ns) \in Nat /\ DOMAIN ns = 1..Len(ns)
      BY <1>14, <1>21, Lists DEF Dag
    <3>2. CASE Len(nodes) = 0
      BY <3>1, <3>2
    <3>3. CASE Len(nodes) # 0
      <4>1. Len(nodes) \in DOMAIN nodes
        BY <3>1, <3>3
      <4>2. Len(nodes) \in DOMAIN ns
        BY <1>20, <4>1 DEF Keeps
      <4>3. QED  BY <3>1, <4>2
    <3>4. QED  BY <3>2, <3>3
  <2>3. ContentOK(c, Len(ns))
    BY <1>15, <2>2, ContentLater
  <2>4. QED  BY <2>1, <2>3
<1>24. NodeLen(a) # None => NodeLen(a) = Len(TextWith(Texts(ns), c))
  <2>1. SUFFICES ASSUME file.lang = Java PROVE NodeLen(a) = Len(TextWith(Texts(ns), c))
    BY DEF NodeLen
  <2>2. NodeLen(a) = a.end - a.start
    BY <2>1 DEF NodeLen
  <2>3. PICK t : t = TextWith(Texts(nodes), c)
    OBVIOUS
  <2>4. PICK q : q = Piece(text, a.start, a.end)
    OBVIOUS
  <2>5. Canonical(t) = Canonical(q)
    BY <1>9, <1>13, <1>15, <1>19, <2>1, <2>3, <2>4, SaysLength
  <2>6. t \in Seq(Byte)
    BY <1>14, <1>15, <2>3, ContentText
  <2>7. q \in Seq(Byte) /\ Len(q) = a.end - a.start
    BY <1>13, <1>19, <2>4, PieceIs
  <2>8. Len(Canonical(t)) = Len(t) /\ Len(Canonical(q)) = Len(q)
    BY <2>6, <2>7, CanonicalIs
  <2>9. QED  BY <1>23, <2>2, <2>3, <2>5, <2>7, <2>8
<1>25. /\ node.ok =>
            /\ Stores(more, node.cache, Roots) /\ Keeps(ns, more)
            /\ node.id \in DOMAIN more /\ node.metrics = Metrics(more)[node.id]
            /\ Texts(more)[node.id] = TextWith(Texts(nodes), c)
       /\ node.ok \in BOOLEAN
       /\ ~node.ok => a.kind = Error
  <2>1. /\ JavaMade(a.kind) \/ a.kind = Error \/ file.lang # Java
        /\ file.lang = Xml => ~JavaMade(a.kind)
        /\ a.kind # SpacesKind
    <3>1. a.kind # SpacesKind
      BY <1>12, Trees DEF Cst
    <3>2. QED  BY <1>12, <1>13, <3>1, KindsMade
  <2>2. node = Make(ns, a) /\ ContentOK(Content(a), Len(ns))
    BY <1>1, <1>3, <1>5, <1>8, <1>23
  <2>3. NodeLen(a) # None =>
           NodeLen(a) = Len(TextWith(Texts(ns), Content(a))) \/ node.id \in Roots
    BY <1>8, <1>24
  <2>4. Made(ns, a, Roots, node)
    BY <1>13, <1>20, <1>22, <2>1, <2>2, <2>3, MakeRight
  <2>5. PICK t : t = TextWith(Texts(ns), c)
    OBVIOUS
  <2>6. t = TextWith(Texts(nodes), c) /\ t = TextWith(Texts(ns), Content(a))
    BY <1>8, <1>23, <2>5
  <2>7. node.ok => Texts(more)[node.id] = t
    BY <1>4, <2>4, <2>6 DEF Made
  <2>8. QED  BY <1>4, <2>4, <2>6, <2>7 DEF Made
<1>26. gap.ok \in BOOLEAN
  BY <1>20
<1>27. ASSUME gap.ok, node.ok
       PROVE  /\ Stores(more, node.cache, Roots) /\ Keeps(nodes, more)
              /\ AccGood(more, post.parent) /\ SameNode(p, post.parent)
              /\ post.parent.children # <<>>
              /\ Says(file, SpellIn(more, post.parent.children), from, a.end)
  <2>1. Dag(more) /\ Keeps(ns, more) /\ Keeps(nodes, more)
    BY <1>20, <1>25, <1>27 DEF Stores, Keeps
  <2>2. AccGood(more, b) /\ SpellIn(more, b.children) = SpellIn(ns, b.children)
    BY <1>20, <1>21, <2>1, AccStays
  <2>3. PICK id : id = node.id
    OBVIOUS
  <2>4. PICK m : m = node.metrics
    OBVIOUS
  <2>5. PICK q : q = Push(b, id, m)
    OBVIOUS
  <2>6. post.parent = q
    BY <1>2, <1>10, <2>3, <2>4, <2>5
  <2>7. id \in DOMAIN more /\ m = Metrics(more)[id]
        /\ Texts(more)[id] = TextWith(Texts(nodes), c)
    BY <1>25, <1>27, <2>3, <2>4
  <2>8. /\ AccGood(more, q) /\ SameNode(b, q) /\ q.children # <<>>
        /\ SpellIn(more, q.children) = SpellIn(more, b.children) \o Texts(more)[id]
    BY <2>1, <2>2, <2>5, <2>7, PushGood
  <2>9. SameNode(p, q)
    BY <1>20, <2>8 DEF SameNode
  <2>10. Says(file, SpellIn(more, q.children), from, a.end)
    <3>1. PICK f : f = file
      OBVIOUS
    <3>2. PICK v : v = SpellIn(nodes, p.children)
      OBVIOUS
    <3>3. PICK at : at = a.padding
      OBVIOUS
    <3>4. PICK to : to = a.start
      OBVIOUS
    <3>5. PICK x : x = SpellIn(more, b.children)
      OBVIOUS
    <3>6. PICK y : y = Texts(more)[id]
      OBVIOUS
    <3>7. /\ to \in 0..Len(f.text) /\ at \in 0..to /\ from \in 0..at
          /\ f.text \in Seq(Byte) /\ f.text = text
      BY <1>9, <1>13, <1>19, <3>1, <3>3, <3>4
    <3>8. Says(f, v, from, at) /\ v \in Seq(Byte)
      <4>1. TextTo(file, nodes, stack, n - 1, stack[(n - 1) + 1].padding)
        BY <1>7, <1>16, <1>30 DEF Standing, Walk
      <4>2. Says(f, v, from, at)
        BY <1>11, <1>16, <1>17, <3>1, <3>2, <3>3, <4>1 DEF TextTo
      <4>3. QED  BY <1>14, <1>18, <3>2, <4>2, SpelledText DEF AccGood
    <3>9. x = SpellIn(ns, b.children)
      BY <2>2, <3>5
    <3>10. /\ at \in 0..to
           /\ IsBlank(Gap(at, to)) => \A k \in (at + 1)..to : Kept(f, k)
           /\ ~IsBlank(Gap(at, to)) => \A k \in (at + 1)..to : ~Kept(f, k)
      <4>1. PICK i : i = cursor
        OBVIOUS
      <4>2. Parsed(f) /\ file = f /\ ChildrenIn(f, 1) # {} /\ i \in DOMAIN f.tree /\ i # 1
        BY <1>7, <1>12, <1>30, <3>1, <4>1, TopIs DEF HasNodes, Cst
      <4>3. at = GapBegin(f, i) /\ to = f.tree[i].start
        BY <1>29, <3>1, <3>3, <3>4, <4>1
      <4>4. QED  BY <3>7, <4>2, <4>3, GapSaid
    <3>11. Says(f, x, from, to)
      <4>1. CASE at = to \/ IsBlank(Gap(at, to))
        <5>1. Canonical(x) = Canonical(v) \o Canonical(Piece(text, at, to))
          BY <1>20, <3>2, <3>3, <3>4, <3>9, <4>1
        <5>2. \A k \in (at + 1)..to : Kept(f, k)
          BY <3>7, <3>10, <4>1
        <5>3. Says(f, Piece(f.text, at, to), at, to)
          BY <3>7, <5>2, SaysPiece
        <5>4. QED  BY <3>7, <3>8, <5>1, <5>3, SaysJoin
      <4>2. CASE ~(at = to \/ IsBlank(Gap(at, to)))
        <5>1. gap.ok = (file.lang = Xml) /\ b = p /\ ns = nodes
          BY <1>20, <3>3, <3>4, <4>2
        <5>2. x = v
          BY <3>2, <3>9, <5>1
        <5>3. f.lang # Java
          BY <1>27, <3>1, <5>1, ConstantsAssumption
        <5>4. \A k \in (at + 1)..to : ~Kept(f, k)
          BY <3>10, <4>2
        <5>5. Says(f, v, from, to)
          BY <3>7, <3>8, <5>3, <5>4, SaysStill
        <5>6. QED  BY <5>2, <5>5
      <4>3. QED  BY <4>1, <4>2
    <3>12. x \in Seq(Byte) /\ y \in Seq(Byte)
      BY <2>1, <2>2, <2>7, <3>5, <3>6, SpelledText, TextsTyped DEF AccGood
    <3>13. Canonical(x \o y) = Canonical(x) \o Canonical(y)
      BY <3>12, CanonicalJoins
    <3>14. Says(f, y, to, a.end)
      BY <1>15, <2>7, <3>1, <3>4, <3>6
    <3>15. a.end \in 0..Len(f.text) /\ to \in 0..a.end /\ from \in 0..to
      BY <1>19, <3>4, <3>7
    <3>16. PICK z : z = x \o y
      OBVIOUS
    <3>17. Says(f, z, from, a.end)
      BY <3>7, <3>11, <3>12, <3>13, <3>14, <3>15, <3>16, SaysJoin
    <3>18. QED  BY <2>8, <3>1, <3>5, <3>6, <3>16, <3>17
  <2>11. Stores(more, node.cache, Roots)
    BY <1>25, <1>27
  <2>12. QED  BY <2>1, <2>6, <2>8, <2>9, <2>10, <2>11
<1>28. ASSUME ~(gap.ok /\ node.ok) PROVE Explained(cursor)
  <2>1. CASE ~node.ok
    <3>1. TypeIn(file, Cst[cursor].kind) = Error
      BY <1>12, <1>25, <2>1
    <3>2. QED  BY <1>12, <3>1, Trees DEF Cst, Explained
  <2>2. CASE ~gap.ok
    <3>1. PICK f : f = file
      OBVIOUS
    <3>2. PICK i : i = cursor
      OBVIOUS
    <3>3. Parsed(f) /\ file = f /\ i \in DOMAIN f.tree /\ i # 1
      BY <1>7, <1>12, <3>1, <3>2, TopIs DEF Cst
    <3>4. ~IsBlank(Gap(GapBegin(f, i), f.tree[i].start)) /\ f.lang = Java
      BY <1>13, <1>20, <1>29, <2>2, <3>1, <3>2
    <3>5. Unformatted(f)
      BY <3>3, <3>4, GapUnformatted
    <3>6. QED  BY <3>1, <3>4, <3>5 DEF Explained
  <2>3. QED  BY <1>28, <2>1, <2>2
<1>31. QED  BY <1>2, <1>4, <1>5, <1>6, <1>7, <1>11, <1>25, <1>26, <1>27, <1>28
-----------------------------------------------------------------------------
\* A result of make with another ok.
LEMMA MakeShape ==
  ASSUME NEW ns, NEW a, NEW r, r = Make(ns, a), NEW ok, NEW w, w = [r EXCEPT !.ok = ok]
  PROVE  /\ w.ok = ok /\ w.nodes = r.nodes /\ w.id = r.id
         /\ w.metrics = r.metrics /\ w.cache = r.cache
<1>1. DOMAIN r = {"nodes", "id", "ok", "metrics", "cache"}
  BY DEF Make
<1>2. QED  BY <1>1

(* What a file is read back as.                                            *)
ReadAs(f, t) ==
  /\ Canonical(t) = Canonical(Reads(f, 0, Len(f.text)))
  /\ f.lang = Java => Canonical(t) = Canonical(f.text)

(* The spaces at the end of a file, and its root.                          *)
LEMMA WholeRight ==
  ASSUME Parsed(file), Stores(nodes, mdCache, Roots), NEW P, Standing(P), Len(stack) = 1,
         has = Up \/ Children(cursor) = {}, NEW whole \in Whole
  PROVE  /\ whole.ok \in BOOLEAN
         /\ whole.ok =>
              /\ Stores(whole.nodes, whole.cache, Roots \cup {whole.id})
              /\ Keeps(nodes, whole.nodes)
              /\ whole.id \in DOMAIN whole.nodes
              /\ whole.metrics = Metrics(whole.nodes)[whole.id]
              /\ HasNodes(file) => ReadAs(file, Texts(whole.nodes)[whole.id])
         /\ ~whole.ok => Explained(cursor)
<1>1. PICK last, root :
        /\ last = HandleSpacing(nodes, Top, sum,
                    IF sum < Len(file.text) THEN Len(file.text) ELSE sum)
        /\ root = Make(last.nodes, last.parent)
        /\ whole = [root EXCEPT !.ok = last.ok /\ root.ok]
  BY DEF Whole, FinalSpaces
<1>2. /\ whole.ok = (last.ok /\ root.ok) /\ whole.nodes = root.nodes /\ whole.id = root.id
      /\ whole.metrics = root.metrics /\ whole.cache = root.cache
  <2>1. PICK ok : ok = (last.ok /\ root.ok)
    OBVIOUS
  <2>2. PICK ns : ns = last.nodes
    OBVIOUS
  <2>3. PICK a : a = last.parent
    OBVIOUS
  <2>4. root = Make(ns, a) /\ whole = [root EXCEPT !.ok = ok]
    BY <1>1, <2>1, <2>2, <2>3
  <2>5. /\ whole.ok = ok /\ whole.nodes = root.nodes /\ whole.id = root.id
        /\ whole.metrics = root.metrics /\ whole.cache = root.cache
    BY <2>4, MakeShape
  <2>6. QED  BY <2>1, <2>5
<1>3. PICK ns : ns = last.nodes
  OBVIOUS
<1>4. PICK a : a = last.parent
  OBVIOUS
<1>5. PICK top : top = Top
  OBVIOUS
<1>6. PICK c : c = Content(a)
  OBVIOUS
<1>7. PICK text : text = file.text
  OBVIOUS
<1>8. PICK n : n = Len(text)
  OBVIOUS
<1>9. /\ cursor = 1 /\ cursor \in DOMAIN Cst /\ top.kind = TypeIn(file, Cst[cursor].kind)
      /\ top.label = file.name /\ AccGood(nodes, top)
  BY <1>5, TopIs
<1>10. /\ text \in Seq(Byte) /\ n \in Nat /\ file.lang \in {Java, Xml}
       /\ file.name \in Seq(Byte) /\ top.kind # SpacesKind
  BY <1>7, <1>8, <1>9, Trees DEF Cst
<1>11. sum \in 0..n /\ n \in 0..n /\ (IF sum < n THEN n ELSE sum) = n
  BY <1>7, <1>8, <1>10 DEF Standing
<1>12. PICK roots : roots = Roots
  OBVIOUS
<1>13. Stores(nodes, mdCache, roots) /\ Dag(nodes)
  BY <1>12 DEF Stores
<1>14. Spaced(nodes, top, roots, sum, n, last)
  <2>1. last = HandleSpacing(nodes, top, sum, n)
    BY <1>1, <1>5, <1>7, <1>8, <1>11
  <2>2. PICK from : from = sum
    OBVIOUS
  <2>3. last = HandleSpacing(nodes, top, from, n) /\ from \in 0..n /\ n \in 0..Len(file.text)
        /\ file.text \in Seq(Byte)
    BY <1>7, <1>8, <1>10, <1>11, <2>1, <2>2
  <2>4. Spaced(nodes, top, roots, from, n, last)
    BY <1>9, <1>13, <2>3, SpacingRight
  <2>5. QED  BY <2>2, <2>4
<1>15. /\ Stores(ns, mdCache, roots) /\ Keeps(nodes, ns) /\ AccGood(ns, a) /\ SameNode(top, a)
       /\ top.children # <<>> => a.children # <<>>
       /\ (sum = n \/ IsBlank(Gap(sum, n))) =>
            /\ last.ok = TRUE
            /\ Canonical(SpellIn(ns, a.children))
                 = Canonical(SpellIn(nodes, top.children)) \o Canonical(Piece(text, sum, n))
       /\ ~(sum = n \/ IsBlank(Gap(sum, n))) =>
            last.ok = (file.lang = Xml) /\ a = top /\ ns = nodes
  BY <1>3, <1>4, <1>7, <1>14 DEF Spaced
<1>16. Dag(ns) /\ last.ok \in BOOLEAN
  BY <1>15 DEF Stores
<1>17. a.kind = TypeIn(file, Cst[cursor].kind) /\ a.kind # SpacesKind /\ a.label = file.name
  BY <1>9, <1>10, <1>15 DEF SameNode
<1>18. c.kind = a.kind /\ c.label = a.label /\ c.children = a.children
  BY <1>6 DEF Content
<1>19. ContentOK(c, Len(ns))
  <2>1. a.children \in Seq(1..Len(ns)) /\ a.label \in Seq(Byte)
    BY <1>10, <1>15, <1>17 DEF AccGood
  <2>2. a.label # None
    BY <2>1, ConstantsAssumption
  <2>3. QED  BY <1>17, <1>18, <2>1, <2>2 DEF ContentOK
<1>20. PICK more : more = roots \cup {root.id}
  OBVIOUS
<1>21. Made(ns, a, more, root)
  <2>1. /\ JavaMade(a.kind) \/ a.kind = Error \/ file.lang # Java
        /\ file.lang = Xml => ~JavaMade(a.kind)
    BY <1>10, <1>17, KindsMade
  <2>2. root = Make(ns, a) /\ ContentOK(Content(a), Len(ns))
    BY <1>1, <1>3, <1>4, <1>6, <1>19
  <2>3. roots \subseteq more /\ root.id \in more
    BY <1>20
  <2>4. NodeLen(a) # None =>
           NodeLen(a) = Len(TextWith(Texts(ns), Content(a))) \/ root.id \in more
    BY <2>3
  <2>5. QED  BY <1>10, <1>15, <1>17, <2>1, <2>2, <2>3, <2>4, MakeRight
<1>22. /\ root.ok => /\ Stores(root.nodes, root.cache, more) /\ Keeps(ns, root.nodes)
                     /\ root.id \in DOMAIN root.nodes
                     /\ root.metrics = Metrics(root.nodes)[root.id]
                     /\ Texts(root.nodes)[root.id] = TextWith(Texts(ns), c)
       /\ root.ok \in BOOLEAN
       /\ ~root.ok => a.kind = Error
  BY <1>6, <1>21 DEF Made
<1>23. ASSUME HasNodes(file), last.ok PROVE ReadAs(file, TextWith(Texts(ns), c))
  <2>1. has = Up
    BY <1>9, <1>23 DEF HasNodes, Children
  <2>2. PICK f : f = file
    OBVIOUS
  <2>3. PICK at : at = sum
    OBVIOUS
  <2>4. PICK v : v = SpellIn(nodes, top.children)
    OBVIOUS
  <2>5. PICK x : x = SpellIn(ns, a.children)
    OBVIOUS
  <2>6. PICK z : z = 0
    OBVIOUS
  <2>7. /\ Parsed(f) /\ file = f /\ ChildrenIn(f, 1) # {} /\ f.text \in Seq(Byte)
        /\ n = Len(f.text) /\ n \in 0..Len(f.text) /\ at \in 0..n /\ z \in 0..at /\ z \in 0..n
        /\ f.text = text
    BY <1>7, <1>8, <1>10, <1>11, <1>23, <2>2, <2>3, <2>6 DEF HasNodes
  <2>8. at = f.tree[Youngest(ChildrenIn(f, 1))].end
    <3>1. PICK j \in ChildrenIn(f, 1) : at = f.tree[j].end
      BY <1>9, <2>1, <2>2, <2>3 DEF Standing, Children, Cst
    <3>2. \A k \in ChildrenIn(f, 1) : f.tree[k].end <= at
      BY <1>9, <2>1, <2>2, <2>3 DEF Standing, Children, Cst
    <3>3. PICK y : y = f.tree[Youngest(ChildrenIn(f, 1))].end
      OBVIOUS
    <3>4. y \in 0..Len(f.text) /\ y <= at /\ at <= y
      BY <2>7, <3>1, <3>2, <3>3, EndIs
    <3>5. QED  BY <2>7, <3>3, <3>4
  <2>9. Says(f, v, z, at) /\ v \in Seq(Byte)
    <3>1. TextTo(file, nodes, stack, 1, sum)
      BY <1>23, <2>1 DEF Standing, Walk, At
    <3>2. top = stack[1]
      BY <1>5 DEF Top
    <3>3. Says(f, v, z, at)
      BY <2>2, <2>3, <2>4, <2>6, <3>1, <3>2 DEF TextTo
    <3>4. QED  BY <1>9, <1>13, <2>4, <3>3, SpelledText DEF AccGood
  <2>10. Says(f, x, z, n)
    <3>1. CASE at = n \/ IsBlank(Gap(at, n))
      <4>1. Canonical(x) = Canonical(v) \o Canonical(Piece(text, at, n))
        BY <1>15, <2>3, <2>4, <2>5, <3>1
      <4>2. \A k \in (at + 1)..n : Kept(f, k)
        BY <2>7, <2>8, <3>1, LastSaid
      <4>3. Says(f, Piece(f.text, at, n), at, n)
        BY <2>7, <4>2, SaysPiece
      <4>4. QED  BY <2>7, <2>9, <4>1, <4>3, SaysJoin
    <3>2. CASE ~(at = n \/ IsBlank(Gap(at, n)))
      <4>1. last.ok = (file.lang = Xml) /\ a = top /\ ns = nodes
        BY <1>15, <2>3, <3>2
      <4>2. x = v
        BY <2>4, <2>5, <4>1
      <4>3. f.lang # Java
        BY <1>23, <2>2, <4>1, ConstantsAssumption
      <4>4. \A k \in (at + 1)..n : ~Kept(f, k)
        BY <2>7, <2>8, <3>2, LastSaid
      <4>5. Says(f, v, z, n)
        BY <2>7, <2>9, <4>3, <4>4, SaysStill
      <4>6. QED  BY <4>2, <4>5
    <3>3. QED  BY <3>1, <3>2
  <2>11. top.children # <<>> /\ a.children # <<>>
    BY <1>5, <1>15, <2>1 DEF Standing
  <2>12. TextWith(Texts(ns), c) = x
    BY <1>17, <1>18, <2>5, <2>11 DEF TextWith, SpellIn
  <2>13. Canonical(x) = Canonical(Reads(f, 0, Len(f.text)))
    BY <2>6, <2>7, <2>10 DEF Says
  <2>14. f.lang = Java => Canonical(x) = Canonical(f.text)
    <3>1. SUFFICES ASSUME f.lang = Java PROVE Canonical(x) = Canonical(f.text)
      OBVIOUS
    <3>2. Canonical(x) = Canonical(Piece(f.text, z, n))
      BY <2>7, <2>10, <3>1, SaysLength
    <3>3. Piece(f.text, z, n) = f.text
      BY <2>6, <2>7, PieceOfAll
    <3>4. QED  BY <3>2, <3>3
  <2>15. QED  BY <2>2, <2>12, <2>13, <2>14 DEF ReadAs
<1>24. ASSUME last.ok, root.ok
       PROVE  /\ Stores(root.nodes, root.cache, Roots \cup {root.id})
              /\ Keeps(nodes, root.nodes)
  <2>1. Stores(root.nodes, root.cache, Roots \cup {root.id})
    BY <1>12, <1>20, <1>22, <1>24
  <2>2. Keeps(nodes, root.nodes)
    BY <1>15, <1>22, <1>24 DEF Keeps
  <2>3. QED  BY <2>1, <2>2
<1>25. ASSUME ~(last.ok /\ root.ok) PROVE Explained(cursor)
  <2>1. CASE ~root.ok
    <3>1. TypeIn(file, Cst[cursor].kind) = Error
      BY <1>17, <1>22, <2>1
    <3>2. QED  BY <1>9, <3>1, Trees DEF Cst, Explained
  <2>2. CASE ~last.ok
    <3>1. PICK f : f = file
      OBVIOUS
    <3>2. PICK at : at = sum
      OBVIOUS
    <3>3. /\ Parsed(f) /\ file = f /\ at \in Nat /\ n \in Nat /\ n = Len(f.text) /\ n <= Len(f.text)
      BY <1>7, <1>8, <1>10, <1>11, <3>1, <3>2
    <3>4. ~IsBlank(Gap(at, n)) /\ f.lang = Java
      BY <1>10, <1>15, <2>2, <3>1, <3>2
    <3>5. \A j \in ChildrenIn(f, 1) : f.tree[j].end <= at
      BY <1>9, <3>1, <3>2 DEF Standing, Children, Cst
    <3>6. Unformatted(f)
      BY <3>3, <3>4, <3>5, RootUnformatted
    <3>7. QED  BY <3>1, <3>4, <3>6 DEF Explained
  <2>3. QED  BY <1>25, <2>1, <2>2
<1>26. QED  BY <1>2, <1>16, <1>22, <1>23, <1>24, <1>25
-----------------------------------------------------------------------------
(* The same, of any values.                                                *)
Stands(f, ns, s, at, h, sm, P) ==
  /\ Walk(f, ns, s, P, IF h = Up THEN sm ELSE s[Len(s)].start) /\ P[Len(s)] = at
  /\ h \in {Down, Right, Up} /\ sm \in 0..Len(f.text)
  /\ h # Up /\ Len(s) # 1 => s[Len(s)].children = <<>>
  /\ h = Up => /\ s[Len(s)].children # <<>>
               /\ \E j \in ChildrenIn(f, at) : sm = f.tree[j].end
               /\ \A j \in ChildrenIn(f, at) : f.tree[j].end <= sm

\* Standing is Stands, of the variables.
LEMMA StandingIs ==
  \A P : Standing(P) <=> Stands(file, nodes, stack, cursor, has, sum, P)
BY DEF Standing, Stands, At, Top, Children, Cst

\* s and one more, b; and s without its last, whose parent is now b.
OneMore(s, t, b) ==
  /\ IsList(t) /\ Len(t) = Len(s) + 1
  /\ \A d \in 1..Len(s) : t[d] = s[d]
  /\ t[Len(t)] = b

OneLess(s, t, b) ==
  /\ IsList(t) /\ Len(t) = Len(s) - 1 /\ Len(t) # 0
  /\ \A d \in 1..(Len(t) - 1) : t[d] = s[d]
  /\ t[Len(t)] = b

\* Descend and Advance: the cursor enters a child.
LEMMA Enters ==
  ASSUME NEW f, Parsed(f), NEW ns, Dag(ns), NEW s, NEW P, NEW at \in Nat,
         Walk(f, ns, s, P, at),
         NEW i, i \in ChildrenIn(f, P[Len(s)]),
         s[Len(s)].start <= at, at <= f.tree[i].start,
         \A j \in ChildrenIn(f, P[Len(s)]) : j < i => f.tree[j].end <= at,
         at = GapBegin(f, i), NEW t, OneMore(s, t, Fresh(f, i, at)), NEW h \in {Down, Right}
  PROVE  \E Q : Stands(f, ns, t, i, h, at, Q)
<1>1. PICK n : n = Len(s)
  OBVIOUS
<1>2. n \in Nat \ {0}
  BY <1>1, Lists DEF Walk
<1>3. PICK Q : Q = [d \in 1..(n + 1) |-> IF d = n + 1 THEN i ELSE P[d]]
  OBVIOUS
<1>4. Q[n + 1] = i /\ \A d \in 1..n : Q[d] = P[d]
  <2>1. n + 1 \in 1..(n + 1) /\ \A d \in 1..n : d \in 1..(n + 1) /\ d # n + 1
    BY <1>2
  <2>2. QED  BY <1>3, <2>1
<1>5. PICK b : b = Fresh(f, i, at)
  OBVIOUS
<1>6. /\ IsList(t) /\ Len(t) = n + 1 /\ (\A d \in 1..n : t[d] = s[d]) /\ t[n + 1] = b
  BY <1>1, <1>5 DEF OneMore
<1>7. Walk(f, ns, t, Q, f.tree[i].start)
  <2>1. Len(t) = Len(s) + 1 /\ (\A d \in 1..Len(s) : t[d] = s[d] /\ Q[d] = P[d])
        /\ t[Len(t)] = Fresh(f, i, at) /\ Q[Len(t)] = i
    BY <1>1, <1>4, <1>5, <1>6
  <2>2. QED  BY <1>6, <2>1, WalkDown
<1>8. b.start = f.tree[i].start /\ b.children = <<>>
  BY <1>5 DEF Fresh
<1>9. h # Up /\ h \in {Down, Right, Up}
  BY ConstantsAssumption
<1>10. at \in 0..Len(f.text)
  <2>1. i \in DOMAIN f.tree
    BY DEF ChildrenIn
  <2>2. f.tree[i].start \in Nat /\ f.tree[i].end \in Nat /\ Len(f.text) \in Nat
        /\ f.tree[i].start <= f.tree[i].end /\ f.tree[i].end <= Len(f.text)
    BY <2>1, Trees
  <2>3. PICK v \in Nat : v = f.tree[i].start /\ at <= v
    BY <2>2
  <2>4. PICK w \in Nat : w = Len(f.text)
    BY <2>2
  <2>5. v <= w
    BY <2>2, <2>3, <2>4
  <2>6. QED  BY <2>3, <2>4, <2>5
<1>11. Stands(f, ns, t, i, h, at, Q)
  BY <1>4, <1>6, <1>7, <1>8, <1>9, <1>10 DEF Stands
<1>12. QED  BY <1>11

\* The children of b, the parent, then spell the text up to `to`.
Spells(f, ns, s, b, to) ==
  HasNodes(f) => Says(f, SpellIn(ns, b.children),
                      IF Len(s) = 2 THEN 0 ELSE s[Len(s) - 1].start, to)

\* The node c is closed, and the cursor may go up.
Left(f, ns, t, P, c) ==
  /\ Walk(f, ns, t, P, f.tree[c].end)
  /\ P[Len(t)] = f.tree[c].parent /\ c \in ChildrenIn(f, P[Len(t)])
  /\ (\A k \in ChildrenIn(f, P[Len(t)]) : k <= c) =>
       Stands(f, ns, t, f.tree[c].parent, Up, f.tree[c].end, P)

\* Advance and Ascend: the cursor leaves a node that was pushed.
LEMMA Leaves ==
  ASSUME NEW f, Parsed(f), NEW ns, Dag(ns), NEW more, Dag(more), Keeps(ns, more),
         NEW s, NEW P, NEW at, Walk(f, ns, s, P, at),
         NEW b, SameNode(s[Len(s) - 1], b), AccGood(more, b), b.children # <<>>,
         NEW t, OneLess(s, t, b), NEW c, c = P[Len(s)],
         Spells(f, more, s, b, f.tree[c].end)
  PROVE  Left(f, more, t, P, c)
<1>1. PICK n : n = Len(t)
  OBVIOUS
<1>2. n \in Nat \ {0} /\ Len(s) = n + 1 /\ Len(s) - 1 = n /\ IsList(t) /\ t[n] = b
      /\ (\A d \in 1..(n - 1) : t[d] = s[d])
  <2>1. Len(s) \in Nat /\ Len(t) \in Nat
    BY Lists DEF Walk, OneLess
  <2>2. QED  BY <1>1, <2>1 DEF OneLess
<1>3. SameNode(s[n], b)
  BY <1>2
<1>4. HasNodes(f) => TextTo(f, more, t, n, f.tree[c].end)
  <2>1. (n = 1) = (Len(s) = 2)
    BY <1>2
  <2>2. QED  BY <1>2, <1>3, <2>1 DEF TextTo, SameNode, Spells
<1>5. Walk(f, more, t, P, f.tree[c].end)
  <2>1. PICK to : to = f.tree[c].end
    OBVIOUS
  <2>2. Len(t) = Len(s) - 1 /\ Len(t) # 0 /\ (\A d \in 1..(Len(t) - 1) : t[d] = s[d])
        /\ SameNode(s[Len(t)], t[Len(t)]) /\ AccGood(more, t[Len(t)])
        /\ (HasNodes(f) => TextTo(f, more, t, Len(t), to))
    BY <1>1, <1>2, <1>3, <1>4, <2>1
  <2>3. Walk(f, more, t, P, to)
    BY <1>2, <2>2, WalkUp
  <2>4. QED  BY <2>1, <2>3
<1>6. n + 1 \in 1..(n + 1) /\ n + 1 # 1 /\ (n + 1) - 1 = n
  BY <1>2
<1>7. Level(f, ns, s, P, n + 1)
  BY <1>2, <1>6 DEF Walk
<1>8. c \in DOMAIN f.tree /\ f.tree[c].parent = P[n]
  BY <1>2, <1>6, <1>7 DEF Level
<1>9. P[Len(t)] = f.tree[c].parent /\ c \in ChildrenIn(f, P[Len(t)])
  BY <1>1, <1>8 DEF ChildrenIn
<1>10. ASSUME \A k \in ChildrenIn(f, P[Len(t)]) : k <= c
       PROVE  Stands(f, more, t, f.tree[c].parent, Up, f.tree[c].end, P)
  <2>1. PICK p : p = P[n]
    OBVIOUS
  <2>2. p \in DOMAIN f.tree
    <3>1. n \in 1..n
      BY <1>2
    <3>2. Level(f, more, t, P, n)
      BY <1>1, <1>5, <3>1 DEF Walk
    <3>3. QED  BY <2>1, <3>2 DEF Level
  <2>3. c \in ChildrenIn(f, p)
    BY <1>1, <1>9, <2>1
  <2>4. ASSUME NEW k \in ChildrenIn(f, p) PROVE f.tree[k].end <= f.tree[c].end
    <3>1. k <= c /\ k \in DOMAIN f.tree
      BY <1>1, <1>10, <2>1 DEF ChildrenIn
    <3>2. k \in Nat /\ c \in Nat /\ f.tree[k].end \in Nat /\ f.tree[c].end \in Nat
          /\ f.tree[c].start \in Nat /\ f.tree[c].start <= f.tree[c].end
      BY <1>8, <3>1, Trees
    <3>3. CASE k = c
      BY <3>2, <3>3
    <3>4. CASE k < c
      <4>1. f.tree[k].end <= f.tree[c].start
        BY <2>2, <2>3, <3>4, Kids
      <4>2. QED  BY <3>2, <4>1
    <3>5. k = c \/ k < c
      BY <3>1, <3>2
    <3>6. QED  BY <3>3, <3>4, <3>5, Zenon
  <2>5. f.tree[c].end \in 0..Len(f.text)
    <3>1. f.tree[c].end \in Nat /\ f.tree[c].end <= Len(f.text) /\ Len(f.text) \in Nat
      BY <1>8, Trees
    <3>2. QED  BY <3>1
  <2>6. f.tree[c].parent = p /\ t[Len(t)] = b /\ P[Len(t)] = p
    BY <1>1, <1>2, <1>8, <2>1
  <2>7. QED  BY <1>5, <2>3, <2>4, <2>5, <2>6 DEF Stands
<1>11. QED  BY <1>5, <1>9, <1>10 DEF Left

(* The stacks of Advance and Ascend.                                       *)
LEMMA StackLess ==
  ASSUME IsList(stack), Len(stack) > 1, NEW b
  PROVE  OneLess(stack, Append(Below, b), b)
<1>1. PICK n : n = Len(stack) - 2
  OBVIOUS
<1>2. Len(stack) \in Nat /\ n \in Nat /\ n \in 0..Len(stack) /\ Len(stack) = n + 2
  <2>1. Len(stack) \in Nat
    BY Lists
  <2>2. QED  BY <1>1, <2>1
<1>3. PICK u : u = Below
  OBVIOUS
<1>4. IsList(u) /\ Len(u) = n /\ \A i \in 1..n : u[i] = stack[i]
  BY <1>1, <1>2, <1>3, ListBegins DEF Below
<1>5. DOMAIN u = 1..n
  BY <1>4, Lists
<1>6. PICK t : t = Append(u, b)
  OBVIOUS
<1>7. IsList(t) /\ Len(t) = n + 1 /\ (\A i \in DOMAIN u : t[i] = u[i]) /\ t[n + 1] = b
  BY <1>4, <1>6, ListAppends
<1>8. Len(t) = Len(stack) - 1 /\ Len(t) # 0 /\ Len(t) - 1 = n
  BY <1>2, <1>7
<1>9. \A d \in 1..(Len(t) - 1) : t[d] = stack[d]
  BY <1>4, <1>5, <1>7, <1>8
<1>10. OneLess(stack, t, b)
  BY <1>7, <1>8, <1>9 DEF OneLess
<1>11. QED  BY <1>3, <1>6, <1>10

\* And its stack once the next sibling is pushed.
LEMMA StackSame ==
  ASSUME IsList(stack), Len(stack) > 1, NEW b, NEW e
  PROVE  OneMore(Append(Below, b), Below \o <<b, e>>, e)
<1>1. PICK n : n = Len(stack) - 2
  OBVIOUS
<1>2. Len(stack) \in Nat /\ n \in Nat /\ n \in 0..Len(stack)
  <2>1. Len(stack) \in Nat
    BY Lists
  <2>2. QED  BY <1>1, <2>1
<1>3. PICK u : u = Below
  OBVIOUS
<1>4. IsList(u) /\ Len(u) = n /\ \A i \in 1..n : u[i] = stack[i]
  BY <1>1, <1>2, <1>3, ListBegins DEF Below
<1>5. DOMAIN u = 1..n
  BY <1>4, Lists
<1>6. PICK s : s = Append(u, b)
  OBVIOUS
<1>7. IsList(s) /\ Len(s) = n + 1 /\ (\A i \in DOMAIN u : s[i] = u[i]) /\ s[n + 1] = b
  BY <1>4, <1>6, ListAppends
<1>8. PICK v : v = <<b, e>>
  OBVIOUS
<1>9. IsList(v) /\ Len(v) = 2 /\ v[1] = b /\ v[2] = e
  BY <1>8, ListOfTwo
<1>10. PICK t : t = u \o v
  OBVIOUS
<1>11. /\ IsList(t) /\ Len(t) = n + 2 /\ (\A i \in 1..n : t[i] = u[i])
       /\ t[n + 1] = b /\ t[n + 2] = e
  <2>1. /\ IsList(t) /\ Len(t) = Len(u) + Len(v)
        /\ \A i \in 1..Len(u) : t[i] = u[i]
        /\ \A i \in 1..Len(v) : t[Len(u) + i] = v[i]
    <3>0. IsList(u) /\ IsList(v)
      BY <1>4, <1>9
    <3>1. IsList(u \o v)
      BY <3>0, ListsJoin
    <3>2. Len(u \o v) = Len(u) + Len(v)
      BY <3>0, ListsJoin
    <3>3. \A i \in 1..Len(u) : (u \o v)[i] = u[i]
      BY <3>0, ListsJoin
    <3>4. \A i \in 1..Len(v) : (u \o v)[Len(u) + i] = v[i]
      BY <3>0, ListsJoin
    <3>5. QED  BY <1>10, <3>1, <3>2, <3>3, <3>4
  <2>2. 1 \in 1..Len(v) /\ 2 \in 1..Len(v)
    BY <1>9
  <2>3. QED  BY <1>4, <1>9, <2>1, <2>2
<1>12. ASSUME NEW d \in 1..(n + 1) PROVE t[d] = s[d]
  <2>1. CASE d \in 1..n
    BY <1>5, <1>7, <1>11, <2>1
  <2>2. CASE d = n + 1
    BY <1>7, <1>11, <2>2
  <2>3. QED  BY <1>2, <2>1, <2>2
<1>13. OneMore(s, t, e)
  <2>1. Len(t) = Len(s) + 1 /\ t[Len(t)] = e
    BY <1>2, <1>7, <1>11
  <2>2. QED  BY <1>7, <1>11, <1>12, <2>1 DEF OneMore
<1>14. QED  BY <1>3, <1>6, <1>8, <1>10, <1>13
-----------------------------------------------------------------------------
(* The inductive invariant.                                                *)
ResultRight(ns, r) ==
  /\ r.id \in DOMAIN ns /\ r.metrics = Metrics(ns)[r.id]
  /\ HasNodes(r.file) => ReadAs(r.file, Texts(ns)[r.id])

ResultsRight == IsList(results) /\ \A k \in DOMAIN results : ResultRight(nodes, results[k])

InProgress ==
  IF file = None THEN cursor = None /\ has = None /\ stack = <<>> /\ sum = 0
  ELSE /\ file \in Files
       /\ IF stack = <<>> THEN cursor = 1 /\ has = Down /\ sum = 0
          ELSE \E P : Standing(P)

Inv ==
  /\ Stores(nodes, mdCache, Roots)
  /\ ResultsRight
  /\ InProgress
  /\ panicked \in BOOLEAN /\ (panicked => file # None)
  /\ NoPanic

\* Standing is Stands, of the next values of the variables.
LEMMA StandingNext ==
  \A P : Standing(P)' <=> Stands(file', nodes', stack', cursor', has', sum', P)
BY DEF Standing, Stands, At, Top, Children, Cst

\* A growing store changes no result.
LEMMA ResultsStay ==
  ASSUME NEW ns, NEW more, Dag(ns), Dag(more), Keeps(ns, more), NEW r, ResultRight(ns, r)
  PROVE  ResultRight(more, r)
<1>1. PICK id : id = r.id
  OBVIOUS
<1>2. id \in DOMAIN ns
  BY <1>1 DEF ResultRight
<1>3. id \in DOMAIN more /\ Texts(more)[id] = Texts(ns)[id] /\ Metrics(more)[id] = Metrics(ns)[id]
  BY <1>2, TextsStay, MetricsStay DEF Keeps
<1>4. QED  BY <1>1, <1>3 DEF ResultRight

\* The invariant holds of the initial state.
LEMMA InitInv == Init => Inv
<1>1. SUFFICES ASSUME Init PROVE Inv
  OBVIOUS
<1>2. PICK e : e = <<>>
  OBVIOUS
<1>3. nodes = e /\ mdCache = e /\ results = e /\ IsList(e) /\ DOMAIN e = {}
  BY <1>1, <1>2, EmptySeq DEF Init, IsList
<1>4. Dag(nodes) /\ ResultsRight
  BY <1>3 DEF Dag, ResultsRight
<1>5. Stores(nodes, mdCache, Roots)
  BY <1>3, <1>4 DEF Stores
<1>6. InProgress
  BY <1>1 DEF Init, InProgress
<1>7. QED  BY <1>1, <1>4, <1>5, <1>6 DEF Init, Inv, NoPanic

\* A step of the traversal keeps it, if what it leads to stands.
LEMMA Goes ==
  ASSUME Inv, Stores(nodes', mdCache', Roots), Keeps(nodes, nodes'), results' = results,
         file' = file, file \in Files, panicked' = FALSE,
         NEW Q, Stands(file, nodes', stack', cursor', has', sum', Q)
  PROVE  Inv'
<1>1. Roots' = Roots
  BY DEF Roots
<1>2. Dag(nodes) /\ Dag(nodes')
  BY DEF Inv, Stores
<1>3. ResultsRight'
  <2>1. ASSUME NEW k \in DOMAIN results PROVE ResultRight(nodes', results[k])
    <3>1. ResultRight(nodes, results[k])
      BY DEF Inv, ResultsRight
    <3>2. QED  BY <1>2, <3>1, ResultsStay
  <2>2. QED  BY <2>1 DEF Inv, ResultsRight
<1>4. InProgress'
  <2>1. file # None
    BY ConstantsAssumption
  <2>2. stack' # <<>>
    <3>1. Len(stack') # 0
      BY DEF Stands, Walk
    <3>2. QED  BY <3>1, EmptySeq
  <2>3. Standing(Q)'
    BY StandingNext
  <2>4. QED  BY <2>1, <2>2, <2>3 DEF InProgress
<1>5. Stores(nodes, mdCache, Roots)'
  BY <1>1
<1>6. QED  BY <1>3, <1>4, <1>5 DEF Inv, NoPanic

\* A panic keeps it, if the file explains the panic.
LEMMA Ends ==
  ASSUME Inv, Panic, file # None,
         NEW i \in DOMAIN Cst,
         ~HasType(i) \/ Explained(i) \/ ~Indented(Cst[1].start)
  PROVE  Inv'
<1>1. /\ nodes' = nodes /\ mdCache' = mdCache /\ file' = file /\ cursor' = cursor
      /\ has' = has /\ stack' = stack /\ sum' = sum /\ results' = results /\ panicked' = TRUE
  BY DEF Panic
<1>2. Stores(nodes, mdCache, Roots)' /\ ResultsRight'
  BY <1>1 DEF Inv, Roots, ResultsRight
<1>3. InProgress'
  <2>1. ASSUME NEW P PROVE Standing(P)' <=> Standing(P)
    BY <1>1, StandingNext, StandingIs
  <2>2. QED  BY <1>1, <2>1 DEF Inv, InProgress
<1>4. NoPanic'
  <2>1. ASSUME ~Indented(Cst[1].start)
        PROVE  \E k \in 1..Cst[1].start : Formatted(file.text[k]) = None
    BY <2>1 DEF Indented
  <2>2. QED  BY <1>1, <2>1 DEF NoPanic, HasType, Explained, Unformatted, Cst
<1>5. QED  BY <1>1, <1>2, <1>3, <1>4 DEF Inv

\* A file that is begun keeps it.
LEMMA GenerateFileInv ==
  ASSUME Inv, NEW f \in Files, GenerateFile(f)
  PROVE  Inv'
<1>1. /\ nodes' = nodes /\ mdCache' = mdCache /\ file' = f /\ cursor' = 1
      /\ has' = Down /\ stack' = <<>> /\ sum' = 0 /\ results' = results /\ panicked' = panicked
      /\ file = None
  BY DEF GenerateFile
<1>2. Stores(nodes, mdCache, Roots)' /\ ResultsRight'
  BY <1>1 DEF Inv, Roots, ResultsRight
<1>3. InProgress'
  BY <1>1, ConstantsAssumption DEF InProgress
<1>4. NoPanic'
  BY <1>1 DEF Inv, NoPanic
<1>5. QED  BY <1>1, <1>2, <1>3, <1>4 DEF Inv
-----------------------------------------------------------------------------
\* init_val keeps it, panic or not.
LEMMA InitValInv ==
  ASSUME Inv, InitVal
  PROVE  Inv'
<1>1. file \in Files /\ file # None /\ panicked = FALSE /\ stack = <<>> /\ cursor = 1
      /\ has = Down /\ sum = 0
  BY DEF Inv, InitVal, Running, InProgress
<1>2. Parsed(file)
  BY <1>1, FilesAssumption
<1>3. PICK f : f = file
  OBVIOUS
<1>4. /\ f.lang \in {Java, Xml} /\ f.name \in Seq(Byte) /\ f.text \in Seq(Byte)
      /\ Len(f.text) \in Nat /\ 1 \in DOMAIN f.tree
      /\ f.tree[1].start \in Nat /\ f.tree[1].end \in Nat
      /\ f.tree[1].start <= f.tree[1].end /\ f.tree[1].end <= Len(f.text)
  BY <1>2, <1>3, Trees
<1>5. PICK init : init = NewAcc(1, file.name, 0)
  OBVIOUS
<1>6. PICK to : to = IF file.lang = Java THEN init.start ELSE 0
  OBVIOUS
<1>7. PICK lead : lead = HandleSpacing(nodes, init, 0, to)
  OBVIOUS
<1>8. IF HasType(1) /\ Indented(init.start) /\ lead.ok
      THEN /\ nodes' = lead.nodes /\ stack' = <<lead.parent>>
           /\ UNCHANGED <<mdCache, file, cursor, has, sum, results, panicked>>
      ELSE Panic
  BY <1>5, <1>6, <1>7 DEF InitVal
<1>9. /\ init.kind = TypeIn(f, f.tree[1].kind) /\ init.label = f.name
      /\ init.start = f.tree[1].start /\ init.end = f.tree[1].end /\ init.padding = 0
      /\ init.children = <<>> /\ init.metrics = NoMetrics
      /\ init = [kind |-> init.kind, label |-> init.label, children |-> init.children,
                 start |-> init.start, end |-> init.end, padding |-> init.padding,
                 metrics |-> init.metrics]
  BY <1>3, <1>5 DEF NewAcc, TypeOf, Cst
<1>10. Dag(nodes)
  BY DEF Inv, Stores
<1>11. AccGood(nodes, init) /\ SpellIn(nodes, init.children) = <<>>
  BY <1>9, <1>10, NoneSpelt DEF AccGood
<1>12. to \in 0..Len(f.text)
  BY <1>3, <1>4, <1>6, <1>9
<1>13. PICK z : z = 0
  OBVIOUS
<1>14. Spaced(nodes, init, Roots, z, to, lead)
  <2>1. lead = HandleSpacing(nodes, init, z, to) /\ to \in 0..Len(file.text) /\ z \in 0..to
        /\ file.text \in Seq(Byte)
    BY <1>3, <1>4, <1>7, <1>12, <1>13
  <2>2. Stores(nodes, mdCache, Roots)
    BY DEF Inv
  <2>3. QED  BY <1>11, <2>1, <2>2, SpacingRight
<1>15. PICK p : p = lead.parent
  OBVIOUS
<1>16. PICK ns : ns = lead.nodes
  OBVIOUS
<1>17. /\ Stores(ns, mdCache, Roots) /\ Keeps(nodes, ns) /\ AccGood(ns, p) /\ SameNode(init, p)
       /\ z = to => p = init /\ ns = nodes
       /\ (z = to \/ IsBlank(Gap(z, to))) =>
            /\ lead.ok = TRUE
            /\ Canonical(SpellIn(ns, p.children)) =
                 Canonical(SpellIn(nodes, init.children)) \o Canonical(Piece(f.text, z, to))
       /\ ~(z = to \/ IsBlank(Gap(z, to))) => lead.ok = (file.lang = Xml)
  BY <1>3, <1>14, <1>15, <1>16 DEF Spaced
<1>22. 1 \in DOMAIN Cst
  BY <1>3, <1>4 DEF Cst
<1>18. lead.ok \in BOOLEAN
  BY <1>17
<1>19. CASE HasType(1) /\ Indented(init.start) /\ lead.ok
  <2>1. /\ nodes' = ns /\ mdCache' = mdCache /\ stack' = <<p>> /\ file' = file
        /\ cursor' = cursor /\ has' = has /\ sum' = sum /\ results' = results
        /\ panicked' = panicked
    BY <1>8, <1>15, <1>16, <1>19
  <2>2. PICK Q : Q = [d \in 1..1 |-> 1]
    OBVIOUS
  <2>3. Q[1] = 1 /\ \A d \in 1..1 : d = 1
    BY <2>2
  <2>4. PICK s : s = <<p>>
    OBVIOUS
  <2>5. IsList(s) /\ Len(s) = 1 /\ s[1] = p
    BY <2>4, ListOfOne
  <2>6. Level(f, ns, s, Q, 1)
    <3>1. /\ p.kind = TypeIn(f, f.tree[1].kind) /\ p.label = f.name
          /\ p.start = f.tree[1].start /\ p.end = f.tree[1].end /\ p.padding = 0
      BY <1>9, <1>17 DEF SameNode
    <3>2. p.padding \in Nat /\ p.padding <= p.start
      BY <1>4, <3>1
    <3>3. QED  BY <1>4, <1>17, <2>3, <2>5, <3>1, <3>2 DEF Level
  <2>7. ASSUME HasNodes(f) PROVE TextTo(f, ns, s, 1, s[1].start)
    <3>1. PICK w : w = SpellIn(ns, p.children)
      OBVIOUS
    <3>2. PICK at : at = f.tree[1].start
      OBVIOUS
    <3>3. /\ Parsed(f) /\ file = f /\ ChildrenIn(f, 1) # {} /\ f.text \in Seq(Byte)
          /\ at \in 0..Len(f.text) /\ z \in 0..at /\ z \in 0..Len(f.text) /\ z \in 0..z
      BY <1>2, <1>3, <1>4, <1>13, <2>7, <3>2 DEF HasNodes
    <3>4. Says(f, <<>>, z, z)
      BY <3>3, SaysNone
    <3>5. CASE f.lang = Java
      <4>1. to = at
        BY <1>3, <1>6, <1>9, <3>2, <3>5
      <4>2. file.lang # Xml
        BY <1>3, <3>5, ConstantsAssumption
      <4>3. z = at \/ IsBlank(Gap(z, at))
        BY <1>17, <1>19, <4>1, <4>2
      <4>4. \A k \in (z + 1)..at : Kept(f, k)
        <5>1. CASE z = at
          BY <3>3, <5>1
        <5>2. CASE IsBlank(Gap(z, at))
          <6>1. IsBlank(Gap(0, f.tree[1].start))
            BY <1>13, <3>2, <5>2
          <6>2. \A k \in (0 + 1)..f.tree[1].start : Kept(f, k)
            BY <3>3, <3>5, <6>1, LeadSaid
          <6>3. QED  BY <1>13, <3>2, <6>2
        <5>3. QED  BY <4>3, <5>1, <5>2
      <4>5. Says(f, Piece(f.text, z, at), z, at)
        BY <3>3, <4>4, SaysPiece
      <4>6. Canonical(w) = Canonical(<<>>) \o Canonical(Piece(f.text, z, at))
        BY <1>11, <1>17, <3>1, <4>1, <4>3
      <4>7. <<>> \in Seq(Byte)
        BY EmptySeq
      <4>8. Says(f, w, z, at)
        BY <3>3, <3>4, <4>5, <4>6, <4>7, SaysJoin
      <4>9. QED  BY <1>9, <1>13, <1>17, <2>5, <3>1, <3>2, <4>8 DEF TextTo, SameNode
    <3>6. CASE f.lang # Java
      <4>1. z = to /\ f.lang = Xml
        BY <1>3, <1>4, <1>6, <1>13, <3>6
      <4>2. w = <<>>
        BY <1>11, <1>17, <3>1, <4>1
      <4>3. ASSUME NEW k \in (z + 1)..at PROVE ~Kept(f, k)
        <5>1. k \in Nat /\ k <= f.tree[1].start
          BY <1>13, <3>2, <3>3
        <5>2. QED  BY <3>3, <4>1, <5>1, LeadLost
      <4>4. Says(f, w, z, at)
        BY <3>3, <3>4, <3>6, <4>2, <4>3, SaysStill
      <4>5. QED  BY <1>9, <1>13, <1>17, <2>5, <3>1, <3>2, <4>4 DEF TextTo, SameNode
    <3>7. QED  BY <3>5, <3>6
  <2>8. Inside(s[1], s[1])
    BY <1>4, <1>9, <1>17, <2>5 DEF Inside, SameNode
  <2>9. Walk(f, ns, s, Q, s[1].start)
    <3>1. (\A d \in 1..1 : d = 1) /\ (\A d \in 1..(1 - 1) : FALSE)
      OBVIOUS
    <3>2. QED  BY <2>3, <2>5, <2>6, <2>7, <2>8, <3>1 DEF Walk
  <2>10. Stands(f, ns, s, 1, Down, 0, Q)
    <3>1. 0 \in 0..Len(f.text) /\ Down # Up
      BY <1>4, ConstantsAssumption
    <3>2. QED  BY <2>3, <2>5, <2>9, <3>1 DEF Stands
  <2>11. Stands(file, nodes', stack', cursor', has', sum', Q)
    BY <1>1, <1>3, <2>1, <2>4, <2>10
  <2>12. Stores(nodes', mdCache', Roots) /\ Keeps(nodes, nodes')
    BY <1>17, <2>1
  <2>13. QED  BY <1>1, <2>1, <2>11, <2>12, Goes
<1>20. CASE ~(HasType(1) /\ Indented(init.start) /\ lead.ok)
  <2>1. Panic
    BY <1>8, <1>20
  <2>2. ASSUME ~lead.ok PROVE Explained(1)
    <3>1. to # 0 /\ ~IsBlank(Gap(z, to)) /\ file.lang # Xml
      BY <1>13, <1>17, <2>2
    <3>2. f.lang = Java /\ to = f.tree[1].start
      BY <1>3, <1>6, <1>9, <3>1
    <3>3. ASSUME NEW j \in ChildrenIn(f, 1) PROVE to <= f.tree[j].start
      BY <1>2, <1>3, <1>4, <3>2, Kids
    <3>4. to \in Nat /\ z \in Nat /\ to <= Len(f.text)
      BY <1>4, <1>12, <1>13
    <3>5. Unformatted(f)
      BY <1>2, <1>3, <3>1, <3>3, <3>4, RootUnformatted
    <3>6. QED  BY <1>3, <3>2, <3>5 DEF Explained
  <2>3. init.start = Cst[1].start
    BY <1>3, <1>9 DEF Cst
  <2>4. QED  BY <1>1, <1>20, <1>22, <2>1, <2>2, <2>3, Ends
<1>21. QED  BY <1>19, <1>20

\* The accumulators that pre makes are fresh ones.
LEMMA NewAccIs ==
  \A i, padding : NewAcc(i, ExtractLabel(i), padding) = Fresh(file, i, padding)
BY DEF NewAcc, Fresh, ExtractLabel, LabelIn, TypeOf, Cst, Children, Slice, Piece

\* Going down keeps it.
LEMMA DescendInv ==
  ASSUME Inv, Descend
  PROVE  Inv'
<1>1. file \in Files /\ file # None /\ panicked = FALSE /\ stack # <<>> /\ has # Up
      /\ Children(cursor) # {}
  BY DEF Inv, Descend, Running, InProgress
<1>2. PICK P : Standing(P)
  BY <1>1 DEF Inv, InProgress
<1>3. Parsed(file)
  BY <1>1, FilesAssumption
<1>4. PICK at : at = Top.start
  OBVIOUS
<1>5. PICK n : n = Len(stack)
  OBVIOUS
<1>6. /\ n \in Nat \ {0} /\ IsList(stack) /\ cursor \in DOMAIN Cst
      /\ at = Cst[cursor].start /\ at \in Nat
  BY <1>2, <1>3, <1>4, <1>5, TopIs
<1>7. Walk(file, nodes, stack, P, at) /\ P[n] = cursor /\ stack[n].start = at
  BY <1>1, <1>2, <1>4, <1>5 DEF Standing, At, Top
<1>8. PICK child : child = First(Children(cursor))
  OBVIOUS
<1>9. child \in ChildrenIn(file, cursor) /\ \A j \in ChildrenIn(file, cursor) : child <= j
  <2>1. PICK S : S = ChildrenIn(file, cursor)
    OBVIOUS
  <2>2. S \in SUBSET Nat
    <3>1. DOMAIN file.tree = 1..Len(file.tree) /\ Len(file.tree) \in Nat
      BY <1>3, Trees
    <3>2. QED  BY <2>1, <3>1 DEF ChildrenIn
  <2>3. S # {} /\ child = First(S)
    BY <1>1, <1>8, <2>1 DEF Children
  <2>4. First(S) \in S /\ \A j \in S : First(S) <= j
    BY <2>2, <2>3, LeastExists
  <2>5. QED  BY <2>1, <2>3, <2>4
<1>10. /\ cursor' = child /\ sum' = at /\ has' = Down
       /\ stack' = Append(stack, Fresh(file, child, at))
       /\ nodes' = nodes /\ mdCache' = mdCache /\ file' = file /\ results' = results
       /\ panicked' = panicked
  <2>1. /\ cursor' = child /\ sum' = at /\ has' = Down
        /\ stack' = Append(stack, NewAcc(child, ExtractLabel(child), sum'))
        /\ nodes' = nodes /\ mdCache' = mdCache /\ file' = file /\ results' = results
        /\ panicked' = panicked
    BY <1>6, <1>8 DEF Descend
  <2>2. QED  BY <2>1, NewAccIs
<1>11. at <= file.tree[child].start /\ child \in Nat
  <2>1. cursor \in DOMAIN file.tree
    BY <1>6 DEF Cst
  <2>2. file.tree[cursor].start <= file.tree[child].start /\ child \in DOMAIN file.tree
    BY <1>3, <1>9, <2>1, Kids
  <2>3. QED  BY <1>3, <1>6, <2>2, Trees DEF Cst
<1>12. PICK t : t = stack'
  OBVIOUS
<1>13. PICK b : b = Fresh(file, child, at)
  OBVIOUS
<1>14. OneMore(stack, t, b)
  <2>1. /\ IsList(Append(stack, b)) /\ Len(Append(stack, b)) = Len(stack) + 1
        /\ DOMAIN Append(stack, b) = 1..(Len(stack) + 1)
        /\ \A i \in DOMAIN stack : Append(stack, b)[i] = stack[i]
        /\ Append(stack, b)[Len(stack) + 1] = b
    BY <1>6, ListAppends
  <2>2. DOMAIN stack = 1..Len(stack)
    BY <1>6, Lists
  <2>3. t = Append(stack, b)
    BY <1>10, <1>12, <1>13
  <2>4. QED  BY <2>1, <2>2, <2>3 DEF OneMore
<1>15. \E Q : Stands(file, nodes, t, child, Down, at, Q)
  <2>1. /\ child \in ChildrenIn(file, P[Len(stack)]) /\ stack[Len(stack)].start <= at
        /\ \A j \in ChildrenIn(file, P[Len(stack)]) : j < child => file.tree[j].end <= at
        /\ at = GapBegin(file, child)
    <3>1. ASSUME NEW j \in ChildrenIn(file, cursor) PROVE ~(j < child)
      <4>1. child <= j /\ j \in DOMAIN file.tree
        BY <1>9 DEF ChildrenIn
      <4>2. j \in Nat
        BY <1>3, <4>1, Trees
      <4>3. QED  BY <1>11, <4>1, <4>2
    <3>2. at = GapBegin(file, child)
      <4>1. cursor \in DOMAIN file.tree /\ at = file.tree[cursor].start
        BY <1>6 DEF Cst
      <4>2. QED  BY <1>3, <1>9, <4>1, FirstGaps
    <3>3. QED  BY <1>5, <1>6, <1>7, <1>9, <3>1, <3>2
  <2>2. OneMore(stack, t, Fresh(file, child, at)) /\ Down \in {Down, Right}
    BY <1>13, <1>14
  <2>3. Dag(nodes)
    BY DEF Inv, Stores
  <2>4. QED  BY <1>3, <1>6, <1>7, <1>11, <2>1, <2>2, <2>3, Enters
<1>16. PICK Q : Stands(file, nodes', stack', cursor', has', sum', Q)
  BY <1>10, <1>12, <1>15
<1>17. Stores(nodes', mdCache', Roots) /\ Keeps(nodes, nodes')
  BY <1>10 DEF Inv, Keeps
<1>18. QED  BY <1>1, <1>10, <1>16, <1>17, Goes
-----------------------------------------------------------------------------
\* What holds when a node is to be closed.
LEMMA RunningIs ==
  ASSUME Inv, Closing
  PROVE  /\ file \in Files /\ file # None /\ panicked = FALSE /\ Parsed(file)
         /\ Dag(nodes) /\ Stores(nodes, mdCache, Roots)
         /\ has = Up \/ Children(cursor) = {}
         /\ \E P : Standing(P)
<1>1. /\ file \in Files /\ file # None /\ panicked = FALSE /\ stack # <<>>
      /\ has = Up \/ Children(cursor) = {}
  BY DEF Inv, Closing, Running, InProgress
<1>2. QED  BY <1>1, FilesAssumption DEF Inv, InProgress, Stores

\* What post leaves when it succeeds.
LEMMA Posted ==
  ASSUME Inv, Closing, Len(stack) > 1, NEW P, Standing(P), NEW post \in Post, post.ok,
         NEW u, u = Append(Below, post.parent), NEW more, more = post.node.nodes
  PROVE  /\ Stores(more, post.node.cache, Roots) /\ Keeps(nodes, more) /\ Dag(more)
         /\ cursor \in DOMAIN file.tree
         /\ Walk(file, more, u, P, file.tree[cursor].end)
         /\ P[Len(u)] = file.tree[cursor].parent /\ cursor \in ChildrenIn(file, P[Len(u)])
         /\ (\A k \in ChildrenIn(file, P[Len(u)]) : k <= cursor) =>
              Stands(file, more, u, file.tree[cursor].parent, Up, file.tree[cursor].end, P)
<1>1. Parsed(file) /\ Dag(nodes) /\ Stores(nodes, mdCache, Roots)
      /\ (has = Up \/ Children(cursor) = {})
  BY RunningIs
<1>2. PICK n : n = Len(stack)
  OBVIOUS
<1>3. /\ n \in Nat /\ n # 1 /\ IsList(stack) /\ cursor \in DOMAIN file.tree
      /\ Top.end = file.tree[cursor].end
  BY <1>1, <1>2, TopIs DEF Cst
<1>4. PICK b : b = post.parent
  OBVIOUS
<1>5. /\ Stores(more, post.node.cache, Roots) /\ Keeps(nodes, more)
      /\ AccGood(more, b) /\ SameNode(Parent, b) /\ b.children # <<>>
      /\ Says(file, SpellIn(more, b.children), IF n = 2 THEN 0 ELSE Parent.start, Top.end)
  BY <1>1, <1>2, <1>3, <1>4, PostRight
<1>6. Dag(more)
  BY <1>5 DEF Stores
<1>7. PICK s : s = stack
  OBVIOUS
<1>8. PICK f : f = file
  OBVIOUS
<1>9. PICK c : c = cursor
  OBVIOUS
<1>10. PICK ns : ns = nodes
  OBVIOUS
<1>11. PICK at : at = At
  OBVIOUS
<1>12. Walk(f, ns, s, P, at) /\ c = P[Len(s)] /\ Parsed(f) /\ Dag(ns) /\ Keeps(ns, more)
  BY <1>1, <1>5, <1>7, <1>8, <1>9, <1>10, <1>11 DEF Standing
<1>13. SameNode(s[Len(s) - 1], b)
  BY <1>5, <1>7 DEF Parent
<1>14. Spells(f, more, s, b, f.tree[c].end)
  BY <1>2, <1>3, <1>5, <1>7, <1>8, <1>9 DEF Parent, Spells
<1>15. OneLess(s, u, b)
  BY <1>3, <1>4, <1>7, StackLess
<1>16. Left(f, more, u, P, c)
  <2>1. Parsed(f) /\ Dag(ns) /\ Dag(more) /\ Keeps(ns, more) /\ Walk(f, ns, s, P, at)
    BY <1>6, <1>12
  <2>2. SameNode(s[Len(s) - 1], b) /\ AccGood(more, b) /\ b.children # <<>>
        /\ OneLess(s, u, b) /\ c = P[Len(s)] /\ Spells(f, more, s, b, f.tree[c].end)
    BY <1>5, <1>12, <1>13, <1>14, <1>15
  <2>3. QED  BY <2>1, <2>2, Leaves
<1>17. QED  BY <1>3, <1>5, <1>6, <1>8, <1>9, <1>16 DEF Left

\* Going up keeps it: the node was the last of its parent.
LEMMA AscendInv ==
  ASSUME Inv, Ascend
  PROVE  Inv'
<1>1. Closing /\ Len(stack) > 1 /\ NextSiblings(cursor) = {}
  BY DEF Ascend
<1>2. PICK P : Standing(P)
  BY <1>1, RunningIs
<1>3. PICK post \in Post :
        /\ post.ok
        /\ stack' = Append(Below, post.parent)
        /\ nodes' = post.node.nodes
        /\ mdCache' = post.node.cache
  BY DEF Ascend
<1>4. /\ cursor' = file.tree[cursor].parent /\ sum' = file.tree[cursor].end /\ has' = Up
      /\ file' = file /\ results' = results /\ panicked' = panicked
  BY DEF Ascend, Cst
<1>5. file \in Files /\ file # None /\ panicked = FALSE /\ Parsed(file)
  BY <1>1, RunningIs
<1>6. PICK u : u = Append(Below, post.parent)
  OBVIOUS
<1>7. PICK more : more = post.node.nodes
  OBVIOUS
<1>8. /\ Stores(more, post.node.cache, Roots) /\ Keeps(nodes, more) /\ Dag(more)
      /\ cursor \in DOMAIN file.tree
      /\ P[Len(u)] = file.tree[cursor].parent
      /\ (\A k \in ChildrenIn(file, P[Len(u)]) : k <= cursor) =>
           Stands(file, more, u, file.tree[cursor].parent, Up, file.tree[cursor].end, P)
  BY <1>1, <1>2, <1>3, <1>6, <1>7, Posted
<1>9. \A k \in ChildrenIn(file, P[Len(u)]) : k <= cursor
  <2>1. ASSUME NEW k \in ChildrenIn(file, file.tree[cursor].parent) PROVE k <= cursor
    <3>1. ~(k > cursor)
      BY <1>1 DEF NextSiblings, Children, Cst
    <3>2. k \in DOMAIN file.tree
      BY DEF ChildrenIn
    <3>3. k \in Nat /\ cursor \in Nat
      BY <1>5, <1>8, <3>2, Trees
    <3>4. QED  BY <3>1, <3>3
  <2>2. QED  BY <1>8, <2>1
<1>10. Stands(file, nodes', stack', cursor', has', sum', P)
  BY <1>3, <1>4, <1>6, <1>7, <1>8, <1>9
<1>11. Stores(nodes', mdCache', Roots) /\ Keeps(nodes, nodes')
  BY <1>3, <1>7, <1>8
<1>12. QED  BY <1>4, <1>5, <1>10, <1>11, Goes

\* Going to the next sibling keeps it.
LEMMA AdvanceInv ==
  ASSUME Inv, Advance
  PROVE  Inv'
<1>1. Closing /\ Len(stack) > 1 /\ NextSiblings(cursor) # {}
  BY DEF Advance
<1>2. PICK P : Standing(P)
  BY <1>1, RunningIs
<1>3. PICK post \in Post :
        /\ post.ok
        /\ cursor' = First(NextSiblings(cursor))
        /\ sum' = file.tree[cursor].end
        /\ stack' = Below \o <<post.parent, NewAcc(cursor', ExtractLabel(cursor'), sum')>>
        /\ nodes' = post.node.nodes
        /\ mdCache' = post.node.cache
  BY DEF Advance, Cst
<1>4. has' = Right /\ file' = file /\ results' = results /\ panicked' = panicked
  BY DEF Advance
<1>5. file \in Files /\ file # None /\ panicked = FALSE /\ Parsed(file)
  BY <1>1, RunningIs
<1>6. PICK u : u = Append(Below, post.parent)
  OBVIOUS
<1>7. PICK more : more = post.node.nodes
  OBVIOUS
<1>8. PICK at : at = file.tree[cursor].end
  OBVIOUS
<1>9. PICK p : p = file.tree[cursor].parent
  OBVIOUS
<1>10. /\ Stores(more, post.node.cache, Roots) /\ Keeps(nodes, more) /\ Dag(more)
       /\ cursor \in DOMAIN file.tree
       /\ Walk(file, more, u, P, at)
       /\ P[Len(u)] = p /\ cursor \in ChildrenIn(file, P[Len(u)])
  BY <1>1, <1>2, <1>3, <1>6, <1>7, <1>8, <1>9, Posted
<1>11. PICK next : next = First(NextSiblings(cursor))
  OBVIOUS
<1>12. /\ next \in ChildrenIn(file, p) /\ next > cursor
       /\ \A j \in ChildrenIn(file, p) : j > cursor => next <= j
  <2>1. PICK S : S = NextSiblings(cursor)
    OBVIOUS
  <2>2. S = {j \in ChildrenIn(file, p) : j > cursor}
    BY <1>9, <2>1 DEF NextSiblings, Children, Cst
  <2>3. S \in SUBSET Nat
    <3>1. DOMAIN file.tree = 1..Len(file.tree) /\ Len(file.tree) \in Nat
      BY <1>5, Trees
    <3>2. QED  BY <2>2, <3>1 DEF ChildrenIn
  <2>4. S # {} /\ next = First(S)
    BY <1>1, <1>11, <2>1
  <2>5. First(S) \in S /\ \A j \in S : First(S) <= j
    BY <2>3, <2>4, LeastExists
  <2>6. QED  BY <2>2, <2>4, <2>5
<1>13. p \in DOMAIN file.tree /\ u[Len(u)].start = file.tree[p].start
  <2>1. Len(u) \in 1..Len(u)
    BY <1>10, Lists DEF Walk
  <2>2. Level(file, more, u, P, Len(u))
    BY <1>10, <2>1 DEF Walk
  <2>3. QED  BY <1>10, <2>2 DEF Level
<1>14. /\ next \in DOMAIN file.tree /\ cursor \in Nat /\ next \in Nat
       /\ at \in Nat /\ file.tree[cursor].start \in Nat /\ file.tree[cursor].start <= at
       /\ file.tree[p].start \in Nat
  <2>1. next \in DOMAIN file.tree
    BY <1>12 DEF ChildrenIn
  <2>2. QED  BY <1>5, <1>8, <1>10, <1>13, <2>1, Trees
<1>15. file.tree[p].start <= at
  <2>1. file.tree[p].start <= file.tree[cursor].start
    BY <1>5, <1>10, <1>13, Kids
  <2>2. QED  BY <1>14, <2>1
<1>16. at <= file.tree[next].start
  <2>1. cursor \in ChildrenIn(file, p) /\ cursor < next
    BY <1>10, <1>12, <1>14
  <2>2. QED  BY <1>5, <1>8, <1>12, <1>13, <2>1, Kids
<1>17. ASSUME NEW j \in ChildrenIn(file, p), j < next PROVE file.tree[j].end <= at
  <2>1. j \in DOMAIN file.tree
    BY DEF ChildrenIn
  <2>2. j \in Nat /\ file.tree[j].end \in Nat
    BY <1>5, <2>1, Trees
  <2>3. j <= cursor
    BY <1>12, <1>14, <1>17, <2>2
  <2>4. CASE j = cursor
    BY <1>8, <1>14, <2>4
  <2>5. CASE j < cursor
    <3>1. file.tree[j].end <= file.tree[cursor].start
      BY <1>5, <1>10, <1>13, <2>5, Kids
    <3>2. QED  BY <1>14, <2>2, <3>1
  <2>6. QED  BY <1>14, <2>2, <2>3, <2>4, <2>5
<1>18. PICK t : t = stack'
  OBVIOUS
<1>19. OneMore(u, t, Fresh(file, next, at))
  <2>1. PICK b : b = post.parent
    OBVIOUS
  <2>2. PICK e : e = Fresh(file, next, at)
    OBVIOUS
  <2>3. cursor' = next /\ sum' = at
    BY <1>3, <1>8, <1>11
  <2>4. NewAcc(next, ExtractLabel(next), at) = e
    BY <2>2, NewAccIs
  <2>5. t = Below \o <<b, e>> /\ u = Append(Below, b)
    BY <1>3, <1>6, <1>18, <2>1, <2>3, <2>4
  <2>6. IsList(stack)
    BY <1>2 DEF Standing, Walk
  <2>7. OneMore(Append(Below, b), Below \o <<b, e>>, e)
    BY <1>1, <2>6, StackSame
  <2>8. QED  BY <2>2, <2>5, <2>7
<1>20. \E Q : Stands(file, more, t, next, Right, at, Q)
  <2>1. /\ next \in ChildrenIn(file, P[Len(u)]) /\ u[Len(u)].start <= at
        /\ \A j \in ChildrenIn(file, P[Len(u)]) : j < next => file.tree[j].end <= at
        /\ at = GapBegin(file, next)
    <3>1. cursor < next
      BY <1>12, <1>14
    <3>2. at = GapBegin(file, next)
      BY <1>5, <1>8, <1>10, <1>12, <1>13, <3>1, FirstGaps
    <3>3. QED  BY <1>10, <1>12, <1>13, <1>15, <1>17, <3>2
  <2>2. Right \in {Down, Right}
    OBVIOUS
  <2>3. QED  BY <1>5, <1>10, <1>14, <1>16, <1>19, <2>1, <2>2, Enters
<1>21. PICK Q : Stands(file, nodes', stack', cursor', has', sum', Q)
  BY <1>3, <1>4, <1>7, <1>8, <1>11, <1>18, <1>20
<1>22. Stores(nodes', mdCache', Roots) /\ Keeps(nodes, nodes')
  BY <1>3, <1>7, <1>10
<1>23. QED  BY <1>4, <1>5, <1>21, <1>22, Goes

\* The panics of post and of the end of a file keep it: there is a reason in
\* the file.
LEMMA PanicsInv ==
  ASSUME Inv, PostPanics \/ ReturnPanics
  PROVE  Inv'
<1>1. Closing /\ Panic
  BY DEF PostPanics, ReturnPanics
<1>2. PICK P : Standing(P)
  BY <1>1, RunningIs
<1>3. /\ file # None /\ Parsed(file) /\ Stores(nodes, mdCache, Roots)
      /\ (has = Up \/ Children(cursor) = {})
  BY <1>1, RunningIs
<1>4. cursor \in DOMAIN Cst /\ Len(stack) \in Nat \ {0}
  BY <1>2, <1>3, TopIs
<1>5. Explained(cursor)
  <2>1. CASE PostPanics
    <3>1. PICK post \in Post : ~post.ok
      BY <2>1 DEF PostPanics
    <3>2. Len(stack) # 1
      <4>1. PICK n \in Nat : n = Len(stack)
        BY <1>4
      <4>2. Len(stack) > 1
        BY <2>1 DEF PostPanics
      <4>3. n > 1
        BY <4>1, <4>2, Zenon
      <4>4. n # 1
        BY <4>3
      <4>5. QED  BY <4>1, <4>4, Zenon
    <3>3. ~post.ok => Explained(cursor)
      BY <1>2, <1>3, <3>2, PostRight
    <3>4. QED  BY <3>1, <3>3
  <2>2. CASE ReturnPanics
    <3>1. PICK whole \in Whole : ~whole.ok
      BY <2>2 DEF ReturnPanics
    <3>2. Len(stack) = 1
      BY <2>2 DEF ReturnPanics
    <3>3. ~whole.ok => Explained(cursor)
      BY <1>2, <1>3, <3>2, WholeRight
    <3>4. QED  BY <3>1, <3>3
  <2>3. QED  BY <2>1, <2>2
<1>6. QED  BY <1>1, <1>3, <1>4, <1>5, Ends

\* So does that of pre: a kind without a Type.
LEMMA PrePanicsInv ==
  ASSUME Inv, PrePanics
  PROVE  Inv'
<1>1. Running /\ stack # <<>> /\ Panic
  BY DEF PrePanics
<1>2. file \in Files /\ file # None /\ \E P : Standing(P)
  BY <1>1 DEF Inv, InProgress, Running
<1>3. Parsed(file)
  BY <1>2, FilesAssumption
<1>4. PICK c, i : c \in ChildrenIn(file, i) /\ ~HasType(c)
  <2>1. PICK i, S : /\ S # {} /\ ~HasType(First(S))
                    /\ S \subseteq ChildrenIn(file, i)
    <3>1. CASE has # Up /\ Children(cursor) # {}
      BY <3>1 DEF PrePanics, Children
    <3>2. CASE ~(has # Up /\ Children(cursor) # {})
      <4>1. /\ NextSiblings(cursor) # {} /\ ~HasType(First(NextSiblings(cursor)))
        BY <3>2 DEF PrePanics
      <4>2. NextSiblings(cursor) \subseteq ChildrenIn(file, Cst[cursor].parent)
        BY DEF NextSiblings, Children
      <4>3. QED  BY <4>1, <4>2
    <3>3. QED  BY <3>1, <3>2
  <2>2. S \in SUBSET Nat
    <3>1. DOMAIN file.tree = 1..Len(file.tree) /\ Len(file.tree) \in Nat
      BY <1>3, Trees
    <3>2. QED  BY <2>1, <3>1 DEF ChildrenIn
  <2>3. First(S) \in S
    BY <2>1, <2>2, LeastExists
  <2>4. QED  BY <2>1, <2>3
<1>5. c \in DOMAIN Cst
  BY <1>4 DEF ChildrenIn, Cst
<1>6. QED  BY <1>1, <1>2, <1>4, <1>5, Ends

\* A file that ends keeps it, with one more result.
LEMMA ReturnInv ==
  ASSUME Inv, Return
  PROVE  Inv'
<1>1. Closing /\ Len(stack) = 1
  BY DEF Return
<1>2. PICK P : Standing(P)
  BY <1>1, RunningIs
<1>3. /\ panicked = FALSE /\ Parsed(file) /\ Stores(nodes, mdCache, Roots) /\ Dag(nodes)
      /\ (has = Up \/ Children(cursor) = {})
  BY <1>1, RunningIs
<1>4. PICK whole \in Whole :
        /\ whole.ok
        /\ nodes' = whole.nodes
        /\ mdCache' = whole.cache
        /\ results' = Append(results, [file |-> file, id |-> whole.id,
                                       metrics |-> whole.metrics])
  BY DEF Return
<1>5. file' = None /\ cursor' = None /\ has' = None /\ stack' = <<>> /\ sum' = 0
      /\ panicked' = panicked
  BY DEF Return
<1>6. /\ Stores(whole.nodes, whole.cache, Roots \cup {whole.id})
      /\ Keeps(nodes, whole.nodes)
      /\ whole.id \in DOMAIN whole.nodes
      /\ whole.metrics = Metrics(whole.nodes)[whole.id]
      /\ HasNodes(file) => ReadAs(file, Texts(whole.nodes)[whole.id])
  BY <1>1, <1>2, <1>3, <1>4, WholeRight
<1>7. PICK r : r = [file |-> file, id |-> whole.id, metrics |-> whole.metrics]
  OBVIOUS
<1>8. r.file = file /\ r.id = whole.id /\ r.metrics = whole.metrics
  BY <1>7
<1>9. PICK s : s = results
  OBVIOUS
<1>10. PICK t : t = results'
  OBVIOUS
<1>11. /\ IsList(t) /\ DOMAIN t = DOMAIN s \cup {Len(s) + 1}
       /\ (\A i \in DOMAIN s : t[i] = s[i]) /\ t[Len(s) + 1] = r
  <2>1. IsList(s)
    BY <1>9 DEF Inv, ResultsRight
  <2>2. /\ IsList(Append(s, r)) /\ DOMAIN Append(s, r) = 1..(Len(s) + 1)
        /\ (\A i \in DOMAIN s : Append(s, r)[i] = s[i]) /\ Append(s, r)[Len(s) + 1] = r
    BY <2>1, ListAppends
  <2>3. Len(s) \in Nat /\ DOMAIN s = 1..Len(s)
    BY <2>1, Lists
  <2>4. 1..(Len(s) + 1) = 1..Len(s) \cup {Len(s) + 1}
    BY <2>3
  <2>5. t = Append(s, r)
    BY <1>4, <1>7, <1>9, <1>10
  <2>6. QED  BY <2>2, <2>3, <2>4, <2>5
<1>12. Roots' = Roots \cup {whole.id}
  <2>1. Range(t) = Range(s) \cup {r}
    BY <1>11 DEF Range
  <2>2. Roots' = {q.id : q \in Range(t)} /\ Roots = {q.id : q \in Range(s)}
    BY <1>9, <1>10 DEF Roots
  <2>3. QED  BY <1>8, <2>1, <2>2
<1>13. Stores(nodes, mdCache, Roots)'
  BY <1>4, <1>6, <1>12
<1>14. ResultsRight'
  <2>1. ASSUME NEW k \in DOMAIN t PROVE ResultRight(nodes', t[k])
    <3>1. CASE k \in DOMAIN s
      <4>1. ResultRight(nodes, s[k]) /\ t[k] = s[k]
        BY <1>9, <1>11, <3>1 DEF Inv, ResultsRight
      <4>2. Dag(nodes') /\ Keeps(nodes, nodes')
        BY <1>4, <1>6, <1>13 DEF Stores
      <4>3. QED  BY <1>3, <4>1, <4>2, ResultsStay
    <3>2. CASE k = Len(s) + 1
      <4>1. t[k] = r
        BY <1>11, <3>2
      <4>2. ResultRight(nodes', r)
        BY <1>4, <1>6, <1>8 DEF ResultRight
      <4>3. QED  BY <4>1, <4>2
    <3>3. QED  BY <1>11, <3>1, <3>2
  <2>2. QED  BY <1>10, <1>11, <2>1 DEF ResultsRight
<1>15. InProgress'
  BY <1>5 DEF InProgress
<1>16. QED  BY <1>3, <1>5, <1>13, <1>14, <1>15 DEF Inv, NoPanic
-----------------------------------------------------------------------------
\* Every step keeps the invariant.
LEMMA NextInv ==
  ASSUME Inv, [Next]_vars
  PROVE  Inv'
<1>1. CASE \E f \in Files : GenerateFile(f)
  BY <1>1, GenerateFileInv
<1>2. CASE InitVal
  BY <1>2, InitValInv
<1>3. CASE Descend
  BY <1>3, DescendInv
<1>4. CASE Advance
  BY <1>4, AdvanceInv
<1>5. CASE Ascend
  BY <1>5, AscendInv
<1>6. CASE PostPanics \/ ReturnPanics
  BY <1>6, PanicsInv
<1>7. CASE Return
  BY <1>7, ReturnInv
<1>10. CASE PrePanics
  BY <1>10, PrePanicsInv
<1>8. CASE UNCHANGED vars
  <2>1. /\ nodes' = nodes /\ mdCache' = mdCache /\ file' = file /\ cursor' = cursor
        /\ has' = has /\ stack' = stack /\ sum' = sum /\ results' = results
        /\ panicked' = panicked
    BY <1>8 DEF vars
  <2>2. Stores(nodes, mdCache, Roots)' /\ ResultsRight'
    BY <2>1 DEF Inv, Roots, ResultsRight
  <2>3. InProgress'
    <3>1. ASSUME NEW P PROVE Standing(P)' <=> Standing(P)
      BY <2>1, StandingNext, StandingIs
    <3>2. QED  BY <2>1, <3>1 DEF Inv, InProgress
  <2>4. NoPanic'
    BY <2>1 DEF Inv, NoPanic, HasType, Unformatted, Cst
  <2>5. QED  BY <2>1, <2>2, <2>3, <2>4 DEF Inv
<1>9. QED  BY <1>1, <1>2, <1>3, <1>4, <1>5, <1>6, <1>7, <1>8, <1>10 DEF Next, Step

(* The invariant holds of every state, whatever files are generated one    *)
(* after the other into the same store and md_cache.                       *)
THEOREM InvAlways == Spec => []Inv
<1>1. Init => Inv
  BY InitInv
<1>2. Inv /\ [Next]_vars => Inv'
  BY NextInv
<1>3. QED  BY <1>1, <1>2, PTL DEF Spec

(* Texts that follow each other.                                           *)
LEMMA ReadsFollow ==
  ASSUME NEW f, f.text \in Seq(Byte), NEW to \in 0..Len(f.text), NEW mid \in 0..to,
         NEW from \in 0..mid
  PROVE  Canonical(Reads(f, from, mid)) \o Canonical(Reads(f, mid, to))
           = Canonical(Reads(f, from, to))
<1>1. Len(f.text) \in Nat /\ mid \in 0..Len(f.text)
  BY LenProperties
<1>2. PICK x : x = Reads(f, from, mid)
  OBVIOUS
<1>3. PICK y : y = Reads(f, mid, to)
  OBVIOUS
<1>4. x \in Seq(Byte) /\ y \in Seq(Byte)
  BY <1>1, <1>2, <1>3, ReadsIs
<1>5. Canonical(x \o y) = Canonical(x) \o Canonical(y)
  BY <1>4, CanonicalJoins
<1>6. x \o y = Reads(f, from, to)
  BY <1>2, <1>3, ReadsJoin
<1>7. QED  BY <1>2, <1>3, <1>5, <1>6

\* And flattened.
LEMMA FlattenPieces ==
  ASSUME NEW f, f.text \in Seq(Byte), NEW s, IsList(s), Len(s) # 0, NEW to,
         \A k \in 1..Len(s) : s[k] \in Seq(Byte) /\ to[k] \in 0..Len(f.text),
         Canonical(s[1]) = Canonical(Reads(f, 0, to[1])),
         \A k \in 1..Len(s) : k # 1 =>
           to[k - 1] <= to[k] /\ Canonical(s[k]) = Canonical(Reads(f, to[k - 1], to[k]))
  PROVE  Canonical(FlattenSeq(s)) = Canonical(Reads(f, 0, to[Len(s)]))
<1>1. PICK F : F = Flat(s)
  OBVIOUS
<1> DEFINE T == {k \in Nat : k \in 1..Len(s) =>
                   /\ F[k] \in Seq(Byte)
                   /\ Canonical(F[k]) = Canonical(Reads(f, 0, to[k]))}
<1>2. /\ FlattenSeq(s) = F[Len(s)]
      /\ \A i \in 1..Len(s) : F[i] = IF i = 1 THEN s[i] ELSE F[i - 1] \o s[i]
  BY <1>1, FlattenIs
<1>3. Len(s) \in Nat /\ Len(f.text) \in Nat
  BY Lists, LenProperties
<1>4. Nat \subseteq T
  <2>1. 0 \in T
    OBVIOUS
  <2>2. ASSUME NEW k \in Nat, k \in T PROVE k + 1 \in T
    <3>1. SUFFICES ASSUME k + 1 \in 1..Len(s)
                   PROVE  /\ F[k + 1] \in Seq(Byte)
                          /\ Canonical(F[k + 1]) = Canonical(Reads(f, 0, to[k + 1]))
      OBVIOUS
    <3>2. CASE k = 0
      <4>1. F[1] = s[1] /\ s[1] \in Seq(Byte) /\ k + 1 = 1
        BY <1>2, <3>1, <3>2
      <4>2. QED  BY <4>1
    <3>3. CASE k # 0
      <4>1. PICK n : n = k + 1
        OBVIOUS
      <4>2. n \in 1..Len(s) /\ n # 1 /\ n - 1 = k /\ k \in 1..Len(s)
        BY <1>3, <3>1, <3>3, <4>1
      <4>3. F[k] \in Seq(Byte) /\ Canonical(F[k]) = Canonical(Reads(f, 0, to[k]))
        BY <2>2, <4>2
      <4>4. s[n] \in Seq(Byte) /\ to[n] \in 0..Len(f.text) /\ to[k] \in 0..Len(f.text)
        BY <4>2
      <4>5. to[k] <= to[n] /\ Canonical(s[n]) = Canonical(Reads(f, to[k], to[n]))
        BY <4>2
      <4>6. F[n] = F[k] \o s[n]
        BY <1>2, <4>2
      <4>7. F[n] \in Seq(Byte) /\ Canonical(F[n]) = Canonical(F[k]) \o Canonical(s[n])
        BY <4>3, <4>4, <4>6, CanonicalJoins
      <4>8. PICK a : a = to[k]
        OBVIOUS
      <4>9. PICK b : b = to[n]
        OBVIOUS
      <4>10. PICK z : z = 0
        OBVIOUS
      <4>11. b \in 0..Len(f.text) /\ a \in 0..b /\ z \in 0..a
        BY <1>3, <4>4, <4>5, <4>8, <4>9, <4>10
      <4>12. Canonical(Reads(f, z, a)) \o Canonical(Reads(f, a, b))
               = Canonical(Reads(f, z, b))
        BY <4>11, ReadsFollow
      <4>13. QED  BY <4>1, <4>3, <4>5, <4>7, <4>8, <4>9, <4>10, <4>12
    <3>4. QED  BY <3>2, <3>3
  <2> HIDE DEF T
  <2>3. QED  BY <2>1, <2>2, Induction
<1>5. Len(s) \in 1..Len(s)
  BY <1>3
<1>6. QED  BY <1>2, <1>4, <1>5

(* What the accumulators on the stack have spelt.                          *)
LEMMA StackSpells ==
  ASSUME Parsed(file), Dag(nodes), NEW P, Standing(P), HasNodes(file)
  PROVE  Canonical(FlattenSeq([d \in DOMAIN stack |-> OnStack(d)]))
           = Canonical(Reads(file, 0, At))
<1>1. PICK s : s = stack
  OBVIOUS
<1>2. PICK n : n = Len(s)
  OBVIOUS
<1>3. PICK f : f = file
  OBVIOUS
<1>4. PICK text : text = f.text
  OBVIOUS
<1>5. PICK at : at = At
  OBVIOUS
<1>6. PICK ns : ns = nodes
  OBVIOUS
<1>7. PICK t : t = [d \in DOMAIN s |-> OnStack(d)]
  OBVIOUS
<1>8. PICK to : to = [d \in 1..n |-> IF d = n THEN at ELSE s[d + 1].padding]
  OBVIOUS
<1>9. Parsed(f) /\ Dag(ns) /\ Walk(f, ns, s, P, at) /\ text \in Seq(Byte) /\ Len(text) \in Nat
  BY <1>1, <1>3, <1>4, <1>5, <1>6, Trees DEF Standing
<1>10. n \in Nat \ {0} /\ DOMAIN s = 1..n /\ n \in 1..n /\ 1 \in 1..n
  BY <1>2, <1>9, Lists DEF Walk
<1>11. \A d \in 1..n : Level(f, ns, s, P, d)
  BY <1>2, <1>9 DEF Walk
<1>12. ASSUME NEW d \in 1..n
       PROVE  /\ SpellIn(ns, s[d].children) \in Seq(Byte)
              /\ s[d].padding \in 0..s[d].start
              /\ s[d].start \in 0..Len(text)
  <2>1. P[d] \in DOMAIN f.tree /\ s[d].start = f.tree[P[d]].start
        /\ AccGood(ns, s[d]) /\ s[d].padding \in Nat /\ s[d].padding <= s[d].start
    BY <1>11 DEF Level
  <2>2. s[d].children \in Seq(1..Len(ns))
    BY <2>1 DEF AccGood
  <2>3. SpellIn(ns, s[d].children) \in Seq(Byte)
    BY <1>9, <2>2, SpelledText
  <2>4. f.tree[P[d]].start \in Nat /\ f.tree[P[d]].end \in Nat
        /\ f.tree[P[d]].start <= f.tree[P[d]].end /\ f.tree[P[d]].end <= Len(text)
    BY <1>4, <1>9, <2>1, Trees
  <2>5. QED  BY <1>9, <2>1, <2>3, <2>4
<1>13. at \in 0..Len(text) /\ s[n].start <= at
  <2>1. s[n] = Top /\ P[n] = cursor
    BY <1>1, <1>2 DEF Top, Standing
  <2>2. CASE has = Up
    <3>1. at = sum
      BY <1>5, <2>2 DEF At
    <3>2. at \in 0..Len(text)
      BY <1>3, <1>4, <3>1 DEF Standing
    <3>3. PICK j \in ChildrenIn(f, P[n]) : at = f.tree[j].end
      BY <1>3, <2>1, <2>2, <3>1 DEF Standing, Children, Cst
    <3>4. P[n] \in DOMAIN f.tree /\ s[n].start = f.tree[P[n]].start
      BY <1>10, <1>11 DEF Level
    <3>5. f.tree[P[n]].start <= f.tree[j].start /\ j \in DOMAIN f.tree
      BY <1>9, <3>4, Kids
    <3>6. f.tree[P[n]].start \in Nat /\ f.tree[j].start \in Nat /\ f.tree[j].end \in Nat
          /\ f.tree[j].start <= f.tree[j].end
      BY <1>9, <3>4, <3>5, Trees
    <3>7. QED  BY <3>2, <3>3, <3>4, <3>5, <3>6
  <2>3. CASE has # Up
    <3>1. at = s[n].start
      BY <1>5, <2>1, <2>3 DEF At
    <3>2. s[n].start \in 0..Len(text)
      BY <1>10, <1>12
    <3>3. QED  BY <3>1, <3>2
  <2>4. QED  BY <2>2, <2>3
<1>14. to[n] = at /\ \A d \in 1..n : d # n => to[d] = s[d + 1].padding
  BY <1>8, <1>10
<1>15. ASSUME NEW d \in 1..n
       PROVE  to[d] \in 0..Len(text) /\ s[d].start <= to[d]
  <2>1. CASE d = n
    BY <1>13, <1>14, <2>1
  <2>2. CASE d # n
    <3>1. d + 1 \in 1..n /\ d + 1 # 1 /\ (d + 1) - 1 = d
      BY <1>10, <2>2
    <3>2. s[d].start <= s[d + 1].padding
      BY <1>11, <3>1 DEF Level
    <3>3. s[d + 1].padding \in 0..s[d + 1].start /\ s[d + 1].start \in 0..Len(text)
      BY <1>12, <3>1
    <3>4. QED  BY <1>9, <1>14, <2>2, <3>2, <3>3
  <2>3. QED  BY <2>1, <2>2
<1>16. ASSUME NEW d \in 1..n
       PROVE  Canonical(SpellIn(ns, s[d].children))
                = Canonical(Reads(f, IF d = 1 THEN 0 ELSE s[d].start, to[d]))
  <2>1. TextTo(f, ns, s, d, to[d])
    <3>1. HasNodes(f)
      BY <1>3
    <3>2. (\A e \in 1..(n - 1) : TextTo(f, ns, s, e, s[e + 1].padding)) /\ TextTo(f, ns, s, n, at)
      BY <1>2, <1>9, <3>1 DEF Walk
    <3>3. CASE d = n
      BY <1>14, <3>2, <3>3
    <3>4. CASE d # n
      <4>1. d \in 1..(n - 1)
        BY <1>10, <3>4
      <4>2. QED  BY <1>14, <3>2, <3>4, <4>1
    <3>5. QED  BY <3>3, <3>4
  <2>2. QED  BY <2>1 DEF TextTo, Says
<1>17. DOMAIN t = 1..n /\ IsList(t) /\ Len(t) = n
  <2>1. DOMAIN t = 1..n
    BY <1>7, <1>10
  <2>2. t = [d \in 1..n |-> t[d]] /\ \A d \in 1..n : t[d] \in Range(t)
    BY <1>7, <1>10, <2>1 DEF Range
  <2>3. n \in Nat
    BY <1>10
  <2>4. t \in Seq(Range(t)) /\ Len(t) = n
    BY <2>1, <2>2, <2>3
  <2>5. QED  BY <2>1, <2>4 DEF IsList
<1>18. ASSUME NEW d \in 1..n
       PROVE  t[d] = (IF d = 1 THEN <<>> ELSE Reads(f, s[d].padding, s[d].start))
                       \o SpellIn(ns, s[d].children)
  <2>1. t[d] = OnStack(d)
    BY <1>7, <1>10
  <2>2. Spelled(s[d].children) = SpellIn(ns, s[d].children)
    BY <1>6, SpelledIs
  <2>3. QED  BY <1>1, <1>3, <2>1, <2>2 DEF OnStack
<1>19. t[1] \in Seq(Byte) /\ Canonical(t[1]) = Canonical(Reads(f, 0, to[1]))
  <2>1. PICK w : w = SpellIn(ns, s[1].children)
    OBVIOUS
  <2>2. w \in Seq(Byte) /\ Canonical(w) = Canonical(Reads(f, 0, to[1]))
    BY <1>10, <1>12, <1>16, <2>1
  <2>3. t[1] = <<>> \o w
    BY <1>10, <1>18, <2>1
  <2>4. t[1] = w
    BY <2>2, <2>3, ConcatEmptySeq
  <2>5. QED  BY <2>2, <2>4
<1>20. ASSUME NEW d \in 1..n, d # 1
       PROVE  /\ t[d] \in Seq(Byte) /\ to[d - 1] <= to[d]
              /\ Canonical(t[d]) = Canonical(Reads(f, to[d - 1], to[d]))
  <2>1. PICK w : w = SpellIn(ns, s[d].children)
    OBVIOUS
  <2>2. PICK a : a = s[d].padding
    OBVIOUS
  <2>3. PICK b : b = s[d].start
    OBVIOUS
  <2>4. PICK c : c = to[d]
    OBVIOUS
  <2>5. a \in 0..b /\ b \in 0..Len(text) /\ c \in 0..Len(text) /\ b <= c /\ w \in Seq(Byte)
    BY <1>12, <1>15, <2>1, <2>2, <2>3, <2>4
  <2>6. to[d - 1] = a
    <3>1. d - 1 \in 1..n /\ d - 1 # n /\ (d - 1) + 1 = d
      BY <1>10, <1>20
    <3>2. QED  BY <1>14, <2>2, <3>1
  <2>7. Canonical(w) = Canonical(Reads(f, b, c))
    BY <1>16, <1>20, <2>1, <2>3, <2>4
  <2>8. PICK v : v = Reads(f, a, b)
    OBVIOUS
  <2>9. v \in Seq(Byte)
    BY <1>4, <1>9, <2>5, <2>8, ReadsIs
  <2>10. t[d] = v \o w
    BY <1>18, <1>20, <2>1, <2>2, <2>3, <2>8
  <2>11. t[d] \in Seq(Byte) /\ Canonical(t[d]) = Canonical(v) \o Canonical(w)
    BY <2>5, <2>9, <2>10, CanonicalJoins
  <2>12. b \in 0..c /\ a <= c
    BY <1>9, <2>5
  <2>13. Canonical(Reads(f, a, b)) \o Canonical(Reads(f, b, c))
           = Canonical(Reads(f, a, c))
    BY <1>4, <1>9, <2>5, <2>12, ReadsFollow
  <2>14. QED  BY <2>4, <2>6, <2>7, <2>8, <2>11, <2>12, <2>13
<1>21. \A d \in 1..n : t[d] \in Seq(Byte)
  BY <1>19, <1>20
<1>22. Canonical(FlattenSeq(t)) = Canonical(Reads(f, 0, to[n]))
  <2>1. Len(t) # 0 /\ (\A k \in 1..Len(t) : t[k] \in Seq(Byte) /\ to[k] \in 0..Len(text))
    BY <1>10, <1>15, <1>17, <1>21
  <2>2. \A k \in 1..Len(t) : k # 1 =>
          to[k - 1] <= to[k] /\ Canonical(t[k]) = Canonical(Reads(f, to[k - 1], to[k]))
    BY <1>17, <1>20
  <2>3. Canonical(FlattenSeq(t)) = Canonical(Reads(f, 0, to[Len(t)]))
    BY <1>4, <1>9, <1>17, <1>19, <2>1, <2>2, FlattenPieces
  <2>4. QED  BY <1>17, <2>3
<1>23. QED  BY <1>1, <1>3, <1>4, <1>5, <1>7, <1>14, <1>22

(* Type correctness, at every step of every file.                          *)
THEOREM TypeSafe == Spec => []TypeOK
<1>1. Inv => TypeOK
  <2>1. SUFFICES ASSUME Inv PROVE TypeOK
    OBVIOUS
  <2>2. /\ Dag(nodes) /\ DOMAIN mdCache \subseteq DOMAIN nodes /\ panicked \in BOOLEAN
        /\ Len(nodes) \in Nat /\ DOMAIN nodes = 1..Len(nodes)
    BY <2>1, Lists DEF Inv, Stores, Dag
  <2>3. ASSUME NEW i \in DOMAIN nodes, NEW k \in DOMAIN nodes[i].content.children
        PROVE  nodes[i].content.children[k] \in 1..(i - 1)
    <3>1. nodes[i].content.children \in Seq(1..(i - 1))
      BY <2>2 DEF Dag, ContentOK
    <3>2. QED  BY <3>1, ElementOfSeq, LenProperties
  <2>4. CASE file = None
    BY <2>1, <2>2, <2>3, <2>4 DEF Inv, InProgress, TypeOK
  <2>5. CASE file # None
    <3>1. Parsed(file)
      BY <2>1, <2>5, FilesAssumption DEF Inv, InProgress
    <3>2. /\ file.lang \in {Java, Xml} /\ Len(file.text) \in Nat /\ 1 \in DOMAIN Cst
      BY <3>1, Trees DEF Cst
    <3>3. CASE stack = <<>>
      <4>1. cursor \in DOMAIN Cst /\ has \in {Down, Right, Up} /\ sum \in 0..Len(file.text)
        BY <2>1, <2>5, <3>2, <3>3 DEF Inv, InProgress
      <4>2. DOMAIN stack = {}
        BY <3>3
      <4>3. QED  BY <2>2, <2>3, <2>5, <3>2, <4>1, <4>2 DEF TypeOK
    <3>4. CASE stack # <<>>
      <4>1. PICK P : Standing(P)
        BY <2>1, <2>5, <3>4 DEF Inv, InProgress
      <4>2. cursor \in DOMAIN Cst /\ IsList(stack)
        BY <3>1, <4>1, TopIs
      <4>3. has \in {Down, Right, Up} /\ sum \in 0..Len(file.text)
        BY <4>1 DEF Standing
      <4>4. ASSUME NEW d \in DOMAIN stack, NEW k \in DOMAIN stack[d].children
            PROVE  stack[d].children[k] \in DOMAIN nodes
        <5>1. d \in 1..Len(stack)
          BY <4>2, Lists
        <5>2. stack[d].children \in Seq(1..Len(nodes))
          BY <4>1, <5>1 DEF Standing, Walk, Level, AccGood
        <5>3. QED  BY <2>2, <5>2, ElementOfSeq, LenProperties
      <4>5. QED  BY <2>2, <2>3, <2>5, <3>2, <4>2, <4>3, <4>4 DEF TypeOK
    <3>5. QED  BY <3>3, <3>4
  <2>6. QED  BY <2>4, <2>5
<1>2. QED  BY <1>1, InvAlways, PTL

(* What md_cache and make answer for an id, and the hash and length stored *)
(* with it, are those of the subtree it stands for, for any hash functions,*)
(* colliding ones included.                                                *)
THEOREM MetricsHold == Spec => []MetricsFaithful
<1>1. Inv => MetricsFaithful
  <2>1. SUFFICES ASSUME Inv PROVE MetricsFaithful
    OBVIOUS
  <2>2. PICK metrics : metrics = MetricsOf
    OBVIOUS
  <2>3. Stores(nodes, mdCache, Roots) /\ ResultsRight
    BY <2>1 DEF Inv
  <2>4. metrics = Metrics(nodes)
    BY <2>2, MetricsOfIs
  <2>5. \A i \in DOMAIN mdCache : mdCache[i] = metrics[i]
    BY <2>3, <2>4 DEF Stores
  <2>6. \A r \in Range(results) : r.metrics = metrics[r.id]
    BY <2>3, <2>4 DEF ResultsRight, ResultRight, Range
  <2>7. \A i \in DOMAIN nodes : nodes[i].syntax = metrics[i].syntax
    BY <2>3, <2>4 DEF Stores
  <2>8. \A i \in DOMAIN nodes \ Roots :
          nodes[i].bytesLen # None => nodes[i].bytesLen = Len(TextOf[i])
    BY <2>3, TextOfIs DEF Stores
  <2>9. QED  BY <2>2, <2>5, <2>6, <2>7, <2>8 DEF MetricsFaithful
<1>2. QED  BY <1>1, InvAlways, PTL

(* Only an ERROR node, a kind without a Type or, in Java, a byte that is    *)
(* not a Space where the file has no leaf makes it panic: md_cache has an   *)
(* entry for whatever of Java the store holds.                             *)
THEOREM NeverPanics == Spec => []NoPanic
<1>1. Inv => NoPanic
  BY DEF Inv
<1>2. QED  BY <1>1, InvAlways, PTL

(* The children accumulated on the stack spell what is kept of the text    *)
(* before the cursor at every step, and a generated file reads back as     *)
(* that, all its text for Java, for every file with a node and whatever    *)
(* the store held.                                                         *)
THEOREM ReadsBackAgain == Spec => []RoundTrip
<1>1. Inv => RoundTrip
  <2>1. SUFFICES ASSUME Inv PROVE RoundTrip
    OBVIOUS
  <2>2. NothingLost
    <3>1. SUFFICES ASSUME Running, stack # <<>>, Children(1) # {}
                   PROVE  Canonical(FlattenSeq([d \in DOMAIN stack |-> OnStack(d)]))
                            = Canonical(Reads(file, 0, At))
      BY DEF NothingLost, At
    <3>2. file # None /\ Dag(nodes)
      BY <2>1, <3>1 DEF Running, Inv, Stores
    <3>3. Parsed(file) /\ \E P : Standing(P)
      BY <2>1, <3>1, <3>2, FilesAssumption DEF Inv, InProgress
    <3>4. HasNodes(file)
      BY <3>1 DEF HasNodes, Children
    <3>5. QED  BY <3>2, <3>3, <3>4, StackSpells
  <2>3. ASSUME NEW r \in Range(results), ChildrenIn(r.file, 1) # {} PROVE ReadsBackKept(r)
    <3>1. ResultRight(nodes, r)
      BY <2>1 DEF Inv, ResultsRight, Range
    <3>2. HasNodes(r.file)
      BY <2>3 DEF HasNodes
    <3>3. QED  BY <3>1, <3>2, TextOfIs DEF ResultRight, ReadAs, ReadsBackKept
  <2>4. QED  BY <2>2, <2>3 DEF RoundTrip
<1>2. QED  BY <1>1, InvAlways, PTL

-----------------------------------------------------------------------------
(* What a root stands for.  A reading of a file in the store says of every *)
(* node which entity it became (img), and where that is among the children *)
(* of its parent's (slot); 0 of a node that is not closed yet.             *)

SlotBefore(f, slot, k) ==
  IF Elders(f, k) # {} THEN slot[Youngest(Elders(f, k))] ELSE 0

IsGap(ns, id, gap) == id \in DOMAIN ns /\ ns[id].content = BlankContent(gap)

\* A closed node is among the children L, behind its elder and the gap that
\* is kept before it.
Placed(f, ns, img, slot, L, k) ==
  /\ slot[k] \in 1..Len(L) /\ L[slot[k]] = img[k]
  /\ GapBefore(f, k) = <<>> => slot[k] = SlotBefore(f, slot, k) + 1
  /\ GapBefore(f, k) # <<>> =>
       /\ slot[k] = SlotBefore(f, slot, k) + 2
       /\ IsGap(ns, L[slot[k] - 1], GapBefore(f, k))

ClosedKids(f, img, i) == {k \in ChildrenIn(f, i) : img[k] # 0}

OfKid(f, slot, k, t) == t = slot[k] \/ (t = slot[k] - 1 /\ GapBefore(f, k) # <<>>)

\* And so are the closed children of node i, in order.
Ordered(f, ns, img, slot, i, L) ==
  /\ IsList(L)
  /\ \A k \in ClosedKids(f, img, i) : Placed(f, ns, img, slot, L, k)
  /\ \A j, k \in ClosedKids(f, img, i) : j < k => slot[j] < slot[k]

\* With nothing else.
Laid(f, ns, img, slot, i, L) ==
  /\ Ordered(f, ns, img, slot, i, L)
  /\ \A t \in 1..Len(L) : \E k \in ClosedKids(f, img, i) : OfKid(f, slot, k, t)

\* The entity of a node.
Entity(f, ns, i, id) ==
  /\ id \in DOMAIN ns
  /\ ns[id].content =
       [kind |-> TypeIn(f, f.tree[i].kind),
        label |-> IF i = 1 THEN f.name ELSE LabelIn(f, i),
        children |-> ns[id].content.children, blank |-> None]

Read(f, ns, img, slot, k) ==
  /\ k # 1 /\ Entity(f, ns, k, img[k])
  /\ \A j \in ChildrenIn(f, k) : img[j] # 0
  /\ Laid(f, ns, img, slot, k, ns[img[k]].content.children)

\* The root has the spaces at the end of the file behind its last child.
RootLaid(f, ns, img, slot, L) ==
  LET last == slot[Youngest(ChildrenIn(f, 1))]
  IN  /\ Ordered(f, ns, img, slot, 1, L)
      /\ \A t \in 1..Len(L) :
           (\E k \in ChildrenIn(f, 1) : OfKid(f, slot, k, t)) \/ t = last + 1
      /\ LastGap(f) = <<>> => Len(L) = last
      /\ LastGap(f) # <<>> => Len(L) = last + 1 /\ IsGap(ns, L[last + 1], LastGap(f))

\* A reading of a whole file.
Reading(f, ns, id, img, slot) ==
  /\ img[1] = id /\ Entity(f, ns, 1, id)
  /\ \A k \in DOMAIN f.tree : img[k] # 0
  /\ \A k \in DOMAIN f.tree : k # 1 => Read(f, ns, img, slot, k)
  /\ RootLaid(f, ns, img, slot, ns[id].content.children)

Distinct(ns) == \A i, j \in DOMAIN ns : ns[i].content = ns[j].content => i = j
-----------------------------------------------------------------------------
\* A blank entity is no node.
LEMMA GapKind ==
  ASSUME NEW ns, NEW id, NEW gap, IsGap(ns, id, gap)
  PROVE  id \in DOMAIN ns /\ ns[id].content.kind = SpacesKind
BY DEF IsGap, BlankContent

KidsOrBlank(f, ns, slot, p, L) ==
  \A t \in 1..Len(L) :
    (\E k \in ChildrenIn(f, p) : t = slot[k]) \/ ns[L[t]].content.kind = SpacesKind

(* Among the children of the entity of a node, those that are not blank    *)
(* are its children's.                                                     *)
LEMMA Covering ==
  ASSUME NEW f, Parsed(f), HasNodes(f), NEW ns, NEW id, NEW img, NEW slot,
         Reading(f, ns, id, img, slot), NEW p \in DOMAIN f.tree,
         NEW L, L = ns[img[p]].content.children
  PROVE  /\ Ordered(f, ns, img, slot, p, L)
         /\ ClosedKids(f, img, p) = ChildrenIn(f, p)
         /\ KidsOrBlank(f, ns, slot, p, L)
<1>1. ClosedKids(f, img, p) = ChildrenIn(f, p)
  BY DEF Reading, ClosedKids, ChildrenIn
<1>2. Ordered(f, ns, img, slot, p, L)
  <2>1. CASE p = 1
    BY <2>1 DEF Reading, RootLaid
  <2>2. CASE p # 1
    BY <2>2 DEF Reading, Read, Laid
  <2>3. QED  BY <2>1, <2>2
<1>3. ASSUME NEW t \in 1..Len(L), NEW k \in ChildrenIn(f, p), OfKid(f, slot, k, t)
      PROVE  t = slot[k] \/ ns[L[t]].content.kind = SpacesKind
  <2>1. Placed(f, ns, img, slot, L, k)
    BY <1>1, <1>2 DEF Ordered
  <2>2. SUFFICES ASSUME t = slot[k] - 1, GapBefore(f, k) # <<>>
                 PROVE  ns[L[t]].content.kind = SpacesKind
    BY <1>3 DEF OfKid
  <2>3. IsGap(ns, L[t], GapBefore(f, k))
    BY <2>1, <2>2 DEF Placed
  <2>4. QED  BY <2>3, GapKind
<1>4. ASSUME NEW t \in 1..Len(L), p = 1, t = slot[Youngest(ChildrenIn(f, 1))] + 1
      PROVE  ns[L[t]].content.kind = SpacesKind
  <2>1. PICK last : last = Youngest(ChildrenIn(f, 1))
    OBVIOUS
  <2>2. last \in ChildrenIn(f, p)
    BY <1>4, <2>1, LastIs, Trees DEF HasNodes
  <2>3. slot[last] \in 1..Len(L)
    BY <1>1, <1>2, <2>2 DEF Ordered, Placed
  <2>4. /\ LastGap(f) = <<>> => Len(L) = slot[last]
        /\ LastGap(f) # <<>> => IsGap(ns, L[slot[last] + 1], LastGap(f))
    BY <1>4, <2>1 DEF Reading, RootLaid
  <2>5. IsList(L)
    BY <1>2 DEF Ordered
  <2>6. Len(L) \in Nat
    BY <2>5, Lists
  <2>7. Len(L) # slot[last]
    BY <1>4, <2>1, <2>3, <2>6
  <2>8. IsGap(ns, L[t], LastGap(f))
    BY <1>4, <2>1, <2>4, <2>7
  <2>9. QED  BY <2>8, GapKind
<1>5. ASSUME NEW t \in 1..Len(L)
      PROVE  \/ \E k \in ChildrenIn(f, p) : t = slot[k]
             \/ ns[L[t]].content.kind = SpacesKind
  <2>1. CASE p = 1
    <3>1. (\E k \in ChildrenIn(f, p) : OfKid(f, slot, k, t))
          \/ t = slot[Youngest(ChildrenIn(f, 1))] + 1
      BY <2>1 DEF Reading, RootLaid
    <3>2. QED  BY <1>3, <1>4, <2>1, <3>1
  <2>2. CASE p # 1
    <3>1. \E k \in ClosedKids(f, img, p) : OfKid(f, slot, k, t)
      BY <2>2 DEF Reading, Read, Laid
    <3>2. QED  BY <1>1, <1>3, <3>1
  <2>3. QED  BY <2>1, <2>2
<1>6. QED  BY <1>1, <1>2, <1>5 DEF KidsOrBlank

\* What is read of a node that is not the root.
LEMMA ReadIs ==
  ASSUME NEW f, Parsed(f), NEW ns, NEW id, NEW img, NEW slot,
         Reading(f, ns, id, img, slot), NEW k \in DOMAIN f.tree
  PROVE  /\ Entity(f, ns, k, img[k]) /\ img[k] \in DOMAIN ns
         /\ ns[img[k]].content.kind = TypeIn(f, f.tree[k].kind)
         /\ ns[img[k]].content.kind # SpacesKind
         /\ ns[img[k]].content.label = (IF k = 1 THEN f.name ELSE LabelIn(f, k))
<1>1. Entity(f, ns, k, img[k])
  <2>1. CASE k = 1
    BY <2>1 DEF Reading
  <2>2. CASE k # 1
    BY <2>2 DEF Reading, Read
  <2>3. QED  BY <2>1, <2>2
<1>2. TypeIn(f, f.tree[k].kind) # SpacesKind
  BY Trees
<1>3. PICK c : c = ns[img[k]].content
  OBVIOUS
<1>4. c = [kind |-> TypeIn(f, f.tree[k].kind),
           label |-> IF k = 1 THEN f.name ELSE LabelIn(f, k),
           children |-> c.children, blank |-> None]
  BY <1>1, <1>3 DEF Entity
<1>5. c.kind = TypeIn(f, f.tree[k].kind) /\ c.label = (IF k = 1 THEN f.name ELSE LabelIn(f, k))
  BY <1>4
<1>6. QED  BY <1>1, <1>2, <1>3, <1>5 DEF Entity
-----------------------------------------------------------------------------
(* One root has one reading: two files that it stands for agree, from the  *)
(* root down, node after node in preorder.                                 *)
Agree(f, g, img, slot, jmg, tlot, n) ==
  \A i \in 1..n :
    /\ i \in DOMAIN f.tree <=> i \in DOMAIN g.tree
    /\ i \in DOMAIN f.tree =>
         /\ img[i] = jmg[i]
         /\ i # 1 => /\ f.tree[i].parent = g.tree[i].parent /\ slot[i] = tlot[i]
                     /\ GapBefore(f, i) = GapBefore(g, i)

\* Agreement goes both ways.
LEMMA AgreeBack ==
  ASSUME NEW f, NEW g, NEW img, NEW slot, NEW jmg, NEW tlot, NEW n,
         Agree(f, g, img, slot, jmg, tlot, n)
  PROVE  Agree(g, f, jmg, tlot, img, slot, n)
BY DEF Agree

\* The next node of the one file has a place among the children of its
\* parent's entity; there the other file has a node that is not an earlier one.
LEMMA SlotTaken ==
  ASSUME NEW f, NEW g, Parsed(f), Parsed(g), HasNodes(f), HasNodes(g), NEW ns, NEW id,
         NEW img, NEW slot, NEW jmg, NEW tlot,
         Reading(f, ns, id, img, slot), Reading(g, ns, id, jmg, tlot),
         NEW n \in Nat, n # 0, Agree(f, g, img, slot, jmg, tlot, n),
         NEW i, i = n + 1, i \in DOMAIN f.tree, NEW p, p = f.tree[i].parent
  PROVE  /\ p \in 1..n /\ p \in DOMAIN f.tree /\ p \in DOMAIN g.tree /\ img[p] = jmg[p]
         /\ i \in ChildrenIn(f, p) /\ i \in DOMAIN g.tree
         /\ \E k \in ChildrenIn(g, p) : k >= i /\ tlot[k] = slot[i]
<1>1. /\ DOMAIN f.tree = 1..Len(f.tree) /\ Len(f.tree) \in Nat
      /\ DOMAIN g.tree = 1..Len(g.tree) /\ Len(g.tree) \in Nat
  BY Trees
<1>2. p \in DOMAIN f.tree /\ p < i
  BY Trees
<1>3. p \in 1..n
  BY <1>1, <1>2
<1>4. p \in DOMAIN g.tree /\ img[p] = jmg[p]
  BY <1>2, <1>3 DEF Agree
<1>5. i \in ChildrenIn(f, p)
  BY DEF ChildrenIn
<1>6. PICK L : L = ns[img[p]].content.children
  OBVIOUS
<1>7. /\ Ordered(f, ns, img, slot, p, L) /\ ClosedKids(f, img, p) = ChildrenIn(f, p)
  BY <1>2, <1>6, Covering
<1>8. /\ Ordered(g, ns, jmg, tlot, p, L) /\ ClosedKids(g, jmg, p) = ChildrenIn(g, p)
      /\ KidsOrBlank(g, ns, tlot, p, L)
  <2>1. L = ns[jmg[p]].content.children /\ p \in DOMAIN g.tree
    BY <1>4, <1>6
  <2>2. QED  BY <2>1, Covering
<1>9. slot[i] \in 1..Len(L) /\ L[slot[i]] = img[i]
  BY <1>5, <1>7 DEF Ordered, Placed
<1>10. ns[img[i]].content.kind # SpacesKind
  BY ReadIs
<1>11. PICK k \in ChildrenIn(g, p) : tlot[k] = slot[i]
  BY <1>8, <1>9, <1>10 DEF KidsOrBlank
<1>12. k >= i
  <2>1. SUFFICES ASSUME ~(k >= i) PROVE FALSE
    OBVIOUS
  <2>2. k \in DOMAIN g.tree /\ g.tree[k].parent = p /\ k # 1
    BY <1>4, Kids
  <2>3. k \in 1..n /\ k < i
    BY <1>1, <2>1, <2>2
  <2>4. k \in ChildrenIn(f, p) /\ slot[k] = tlot[k]
    BY <2>2, <2>3 DEF Agree, ChildrenIn
  <2>5. slot[k] < slot[i]
    BY <1>5, <1>7, <2>3, <2>4 DEF Ordered
  <2>6. Len(L) \in Nat
    BY <1>7, Lists DEF Ordered
  <2>7. QED  BY <1>9, <1>11, <2>4, <2>5, <2>6
<1>13. i \in DOMAIN g.tree
  <2>1. k \in DOMAIN g.tree
    BY DEF ChildrenIn
  <2>2. QED  BY <1>1, <1>12, <2>1
<1>14. QED  BY <1>2, <1>3, <1>4, <1>5, <1>11, <1>12, <1>13

\* So the other file has the same node next.
LEMMA NextAgrees ==
  ASSUME NEW f, NEW g, Parsed(f), Parsed(g), HasNodes(f), HasNodes(g), NEW ns, NEW id,
         NEW img, NEW slot, NEW jmg, NEW tlot,
         Reading(f, ns, id, img, slot), Reading(g, ns, id, jmg, tlot),
         NEW n \in Nat, n # 0, Agree(f, g, img, slot, jmg, tlot, n),
         NEW i, i = n + 1, i \in DOMAIN f.tree
  PROVE  /\ i \in DOMAIN g.tree /\ img[i] = jmg[i]
         /\ f.tree[i].parent = g.tree[i].parent /\ slot[i] = tlot[i]
         /\ GapBefore(f, i) = GapBefore(g, i)
<1>1. /\ DOMAIN f.tree = 1..Len(f.tree) /\ Len(f.tree) \in Nat
      /\ DOMAIN g.tree = 1..Len(g.tree) /\ Len(g.tree) \in Nat
  BY Trees
<1>2. PICK p : p = f.tree[i].parent
  OBVIOUS
<1>3. PICK q : q = g.tree[i].parent
  OBVIOUS
<1>4. /\ p \in 1..n /\ p \in DOMAIN f.tree /\ p \in DOMAIN g.tree /\ img[p] = jmg[p]
      /\ i \in ChildrenIn(f, p) /\ i \in DOMAIN g.tree
  BY <1>2, SlotTaken
<1>5. PICK k \in ChildrenIn(g, p) : k >= i /\ tlot[k] = slot[i]
  BY <1>2, SlotTaken
<1>6. Agree(g, f, jmg, tlot, img, slot, n)
  BY AgreeBack
<1>7. /\ q \in 1..n /\ i \in ChildrenIn(g, q)
      /\ \E m \in ChildrenIn(f, q) : m >= i /\ slot[m] = tlot[i]
  BY <1>3, <1>4, <1>6, SlotTaken
<1>8. PICK m \in ChildrenIn(f, q) : m >= i /\ slot[m] = tlot[i]
  BY <1>7
<1>9. /\ k \in DOMAIN g.tree /\ g.tree[k].parent = p /\ k \in Nat
      /\ m \in DOMAIN f.tree /\ f.tree[m].parent = q /\ m \in Nat
      /\ i \in Nat /\ p \in Nat /\ q \in Nat /\ i # 1
  <2>1. /\ k \in DOMAIN g.tree /\ g.tree[k].parent = p
        /\ m \in DOMAIN f.tree /\ f.tree[m].parent = q
    BY DEF ChildrenIn
  <2>2. k \in Nat /\ m \in Nat
    BY <1>1, <2>1
  <2>3. i \in Nat /\ p \in Nat /\ q \in Nat /\ i # 1
    BY <1>4, <1>7
  <2>4. QED  BY <2>1, <2>2, <2>3
<1>10. p = q
  <2>1. p <= q
    <3>1. CASE k = i
      BY <1>3, <1>9, <3>1
    <3>2. CASE k # i
      <4>1. p < i /\ i < k
        BY <1>4, <1>5, <1>9, <3>2
      <4>2. k # 1 /\ g.tree[k].parent < i
        BY <1>9, <4>1
      <4>3. g.tree[i].parent >= g.tree[k].parent
        BY <1>4, <1>9, <4>1, <4>2, Preorder
      <4>4. q >= p
        BY <1>3, <1>9, <4>3
      <4>5. QED  BY <1>9, <4>4
    <3>3. QED  BY <3>1, <3>2
  <2>2. q <= p
    <3>1. CASE m = i
      BY <1>2, <1>9, <3>1
    <3>2. CASE m # i
      <4>1. q < i /\ i < m
        BY <1>7, <1>8, <1>9, <3>2
      <4>2. m # 1 /\ f.tree[m].parent < i
        BY <1>9, <4>1
      <4>3. f.tree[i].parent >= f.tree[m].parent
        BY <1>9, <4>1, <4>2, Preorder
      <4>4. p >= q
        BY <1>2, <1>9, <4>3
      <4>5. QED  BY <1>9, <4>4
    <3>3. QED  BY <3>1, <3>2
  <2>3. QED  BY <1>9, <2>1, <2>2
<1>11. PICK L : L = ns[img[p]].content.children
  OBVIOUS
<1>12. /\ Ordered(f, ns, img, slot, p, L) /\ ClosedKids(f, img, p) = ChildrenIn(f, p)
  BY <1>4, <1>11, Covering
<1>13. /\ Ordered(g, ns, jmg, tlot, p, L) /\ ClosedKids(g, jmg, p) = ChildrenIn(g, p)
  <2>1. L = ns[jmg[p]].content.children /\ p \in DOMAIN g.tree
    BY <1>4, <1>11
  <2>2. QED  BY <2>1, Covering
<1>14. i \in ChildrenIn(g, p) /\ m \in ChildrenIn(f, p)
  BY <1>7, <1>8, <1>10
<1>15. /\ Placed(f, ns, img, slot, L, i) /\ Placed(g, ns, jmg, tlot, L, i)
       /\ Placed(f, ns, img, slot, L, m) /\ Placed(g, ns, jmg, tlot, L, k)
  BY <1>4, <1>12, <1>13, <1>14 DEF Ordered
<1>16. slot[i] \in Nat /\ tlot[i] \in Nat
  <2>1. Len(L) \in Nat
    BY <1>12, Lists DEF Ordered
  <2>2. QED  BY <1>15, <2>1 DEF Placed
<1>17. slot[i] = tlot[i]
  <2>1. tlot[i] <= slot[i]
    <3>1. CASE k = i
      BY <1>5, <1>16, <3>1
    <3>2. CASE k # i
      <4>1. i < k
        BY <1>5, <1>9, <3>2
      <4>2. tlot[i] < tlot[k]
        BY <1>13, <1>14, <4>1 DEF Ordered
      <4>3. QED  BY <1>5, <1>16, <4>2
    <3>3. QED  BY <3>1, <3>2
  <2>2. slot[i] <= tlot[i]
    <3>1. CASE m = i
      BY <1>8, <1>16, <3>1
    <3>2. CASE m # i
      <4>1. i < m
        BY <1>8, <1>9, <3>2
      <4>2. slot[i] < slot[m]
        BY <1>4, <1>12, <1>14, <4>1 DEF Ordered
      <4>3. QED  BY <1>8, <1>16, <4>2
    <3>3. QED  BY <3>1, <3>2
  <2>3. QED  BY <1>16, <2>1, <2>2
<1>18. img[i] = jmg[i]
  BY <1>15, <1>17 DEF Placed
<1>19. Elders(f, i) = Elders(g, i)
  <2>1. ASSUME NEW j, j < i, j \in Nat, j # 0
        PROVE  j \in ChildrenIn(f, p) <=> j \in ChildrenIn(g, p)
    <3>1. j \in 1..n
      BY <2>1
    <3>2. CASE j = 1
      <4>1. 1 \notin ChildrenIn(f, p) /\ 1 \notin ChildrenIn(g, p)
        BY <1>4, Kids
      <4>2. QED  BY <3>2, <4>1
    <3>3. CASE j # 1
      BY <3>1, <3>3 DEF Agree, ChildrenIn
    <3>4. QED  BY <3>2, <3>3
  <2>2. \A j \in ChildrenIn(f, p) : j \in Nat /\ j # 0
    BY <1>1 DEF ChildrenIn
  <2>3. \A j \in ChildrenIn(g, p) : j \in Nat /\ j # 0
    BY <1>1 DEF ChildrenIn
  <2>4. QED  BY <1>2, <1>3, <1>10, <2>1, <2>2, <2>3 DEF Elders
<1>20. SlotBefore(f, slot, i) = SlotBefore(g, tlot, i)
  <2>1. CASE Elders(f, i) # {}
    <3>1. PICK e : e = Youngest(Elders(f, i))
      OBVIOUS
    <3>2. e \in Elders(f, i)
      BY <2>1, <3>1, ElderIs
    <3>3. e \in DOMAIN f.tree /\ f.tree[e].parent = p /\ e < i
      BY <1>2, <3>2 DEF Elders, ChildrenIn
    <3>4. e \in 1..n /\ e # 1
      <4>1. e # 1
        BY <1>4, <3>3, Kids DEF ChildrenIn
      <4>2. QED  BY <1>1, <3>3, <4>1
    <3>5. slot[e] = tlot[e]
      BY <3>3, <3>4 DEF Agree
    <3>6. SlotBefore(f, slot, i) = slot[e] /\ SlotBefore(g, tlot, i) = tlot[e]
      BY <1>19, <2>1, <3>1 DEF SlotBefore
    <3>7. QED  BY <3>5, <3>6
  <2>2. CASE Elders(f, i) = {}
    BY <1>19, <2>2 DEF SlotBefore
  <2>3. QED  BY <2>1, <2>2
<1>21. GapBefore(f, i) = GapBefore(g, i)
  <2>1. PICK x : x = GapBefore(f, i)
    OBVIOUS
  <2>2. PICK y : y = GapBefore(g, i)
    OBVIOUS
  <2>3. PICK e : e = SlotBefore(f, slot, i)
    OBVIOUS
  <2>4. PICK s : s = slot[i]
    OBVIOUS
  <2>5. /\ x = <<>> => s = e + 1
        /\ x # <<>> => s = e + 2 /\ IsGap(ns, L[s - 1], x)
    BY <1>15, <2>1, <2>3, <2>4 DEF Placed
  <2>6. /\ y = <<>> => s = e + 1
        /\ y # <<>> => s = e + 2 /\ IsGap(ns, L[s - 1], y)
    BY <1>15, <1>17, <1>20, <2>2, <2>3, <2>4 DEF Placed
  <2>7. e \in Int
    <3>1. CASE Elders(f, i) = {}
      BY <2>3, <3>1 DEF SlotBefore
    <3>2. CASE Elders(f, i) # {}
      <4>1. PICK d : d = Youngest(Elders(f, i))
        OBVIOUS
      <4>2. d \in ChildrenIn(f, p)
        BY <1>2, <3>2, <4>1, ElderIs DEF Elders
      <4>3. slot[d] \in 1..Len(L)
        BY <1>12, <4>2 DEF Ordered, Placed
      <4>4. QED  BY <2>3, <3>2, <4>1, <4>3 DEF SlotBefore
    <3>3. QED  BY <3>1, <3>2
  <2>8. (x = <<>>) <=> (y = <<>>)
    BY <2>5, <2>6, <2>7
  <2>9. CASE x # <<>>
    <3>1. BlankContent(x) = BlankContent(y)
      BY <2>5, <2>6, <2>8, <2>9 DEF IsGap
    <3>2. BlankContent(x).blank = x /\ BlankContent(y).blank = y
      BY DEF BlankContent
    <3>3. QED  BY <2>1, <2>2, <3>1, <3>2
  <2>10. QED  BY <2>1, <2>2, <2>8, <2>9
<1>22. QED  BY <1>2, <1>3, <1>4, <1>10, <1>17, <1>18, <1>21

\* Two readings of one root agree on all nodes.
LEMMA ReadingsAgree ==
  ASSUME NEW f, NEW g, Parsed(f), Parsed(g), HasNodes(f), HasNodes(g), NEW ns, NEW id,
         NEW img, NEW slot, NEW jmg, NEW tlot,
         Reading(f, ns, id, img, slot), Reading(g, ns, id, jmg, tlot)
  PROVE  \A n \in Nat : Agree(f, g, img, slot, jmg, tlot, n)
<1> DEFINE T == {n \in Nat : Agree(f, g, img, slot, jmg, tlot, n)}
<1>1. 0 \in T
  BY DEF Agree
<1>2. ASSUME NEW n \in Nat, n \in T PROVE n + 1 \in T
  <2>1. PICK i : i = n + 1
    OBVIOUS
  <2>2. Agree(f, g, img, slot, jmg, tlot, n) /\ Agree(g, f, jmg, tlot, img, slot, n)
    BY <1>2, AgreeBack
  <2>3. CASE n = 0
    <3>1. \A j \in 1..(n + 1) : j = 1
      BY <2>3
    <3>2. 1 \in DOMAIN f.tree /\ 1 \in DOMAIN g.tree
      BY Trees
    <3>3. img[1] = jmg[1]
      BY DEF Reading
    <3>4. QED  BY <3>1, <3>2, <3>3 DEF Agree
  <2>4. CASE n # 0
    <3>1. i \in DOMAIN f.tree =>
            /\ i \in DOMAIN g.tree /\ img[i] = jmg[i]
            /\ f.tree[i].parent = g.tree[i].parent /\ slot[i] = tlot[i]
            /\ GapBefore(f, i) = GapBefore(g, i)
      BY <2>1, <2>2, <2>4, NextAgrees
    <3>2. i \in DOMAIN g.tree => i \in DOMAIN f.tree
      BY <2>1, <2>2, <2>4, NextAgrees
    <3>3. \A j \in 1..(n + 1) : j \in 1..n \/ j = i
      BY <2>1
    <3>4. QED  BY <2>2, <3>1, <3>2, <3>3 DEF Agree
  <2>5. QED  BY <2>3, <2>4
<1>3. Nat \subseteq T
  <2> HIDE DEF T
  <2>1. QED  BY <1>1, <1>2, Induction
<1>4. QED  BY <1>3
-----------------------------------------------------------------------------
(* Trees of the same nodes, behind the same gaps.                          *)
Alike(f, g) ==
  /\ DOMAIN f.tree = DOMAIN g.tree
  /\ \A i \in DOMAIN f.tree : i # 1 =>
       f.tree[i].parent = g.tree[i].parent /\ GapBefore(f, i) = GapBefore(g, i)

\* Have the same children and elders.
LEMMA AlikeKids ==
  ASSUME NEW f, NEW g, Parsed(f), Parsed(g), Alike(f, g)
  PROVE  /\ \A i \in DOMAIN f.tree : ChildrenIn(f, i) = ChildrenIn(g, i)
         /\ \A i \in DOMAIN f.tree : i # 1 => Elders(f, i) = Elders(g, i)
<1>1. ASSUME NEW i \in DOMAIN f.tree PROVE ChildrenIn(f, i) = ChildrenIn(g, i)
  <2>1. ASSUME NEW j \in DOMAIN f.tree PROVE f.tree[j].parent = i <=> g.tree[j].parent = i
    <3>1. CASE j = 1
      BY <3>1, Trees DEF Alike
    <3>2. CASE j # 1
      BY <3>2 DEF Alike
    <3>3. QED  BY <3>1, <3>2
  <2>2. QED  BY <2>1 DEF Alike, ChildrenIn
<1>2. ASSUME NEW i \in DOMAIN f.tree, i # 1 PROVE Elders(f, i) = Elders(g, i)
  <2>1. f.tree[i].parent = g.tree[i].parent /\ f.tree[i].parent \in DOMAIN f.tree
    BY <1>2, Trees DEF Alike
  <2>2. QED  BY <1>1, <2>1 DEF Elders
<1>3. QED  BY <1>1, <1>2

\* Leaves of the same kind and label have the same text.
LEMMA SameLeaf ==
  ASSUME NEW f, NEW g, Parsed(f), Parsed(g), NEW i \in DOMAIN f.tree, i \in DOMAIN g.tree,
         i # 1, ChildrenIn(f, i) = {}, ChildrenIn(g, i) = {},
         TypeIn(f, f.tree[i].kind) = TypeIn(g, g.tree[i].kind),
         LabelIn(f, i) = LabelIn(g, i)
  PROVE  /\ f.tree[i].named <=> g.tree[i].named
         /\ Piece(f.text, f.tree[i].start, f.tree[i].end)
              = Piece(g.text, g.tree[i].start, g.tree[i].end)
<1>1. PICK x : x = Piece(f.text, f.tree[i].start, f.tree[i].end)
  OBVIOUS
<1>2. PICK y : y = Piece(g.text, g.tree[i].start, g.tree[i].end)
  OBVIOUS
<1>3. x # None /\ y # None
  <2>1. x \in Seq(Byte)
    <3>1. /\ f.text \in Seq(Byte) /\ Len(f.text) \in Nat
          /\ f.tree[i].start \in Nat /\ f.tree[i].end \in Nat
          /\ f.tree[i].start <= f.tree[i].end /\ f.tree[i].end <= Len(f.text)
      BY Trees
    <3>2. f.tree[i].end \in 0..Len(f.text) /\ f.tree[i].start \in 0..f.tree[i].end
      BY <3>1
    <3>3. QED  BY <1>1, <3>1, <3>2, PieceIs
  <2>2. y \in Seq(Byte)
    <3>1. /\ g.text \in Seq(Byte) /\ Len(g.text) \in Nat
          /\ g.tree[i].start \in Nat /\ g.tree[i].end \in Nat
          /\ g.tree[i].start <= g.tree[i].end /\ g.tree[i].end <= Len(g.text)
      BY Trees
    <3>2. g.tree[i].end \in 0..Len(g.text) /\ g.tree[i].start \in 0..g.tree[i].end
      BY <3>1
    <3>3. QED  BY <1>2, <3>1, <3>2, PieceIs
  <2>3. QED  BY <2>1, <2>2, ConstantsAssumption
<1>4. /\ LabelIn(f, i) = IF f.tree[i].named THEN x ELSE None
      /\ LabelIn(g, i) = IF g.tree[i].named THEN y ELSE None
  BY <1>1, <1>2 DEF LabelIn
<1>5. CASE f.tree[i].named
  BY <1>1, <1>2, <1>3, <1>4, <1>5
<1>6. CASE ~f.tree[i].named
  <2>1. ~g.tree[i].named
    BY <1>3, <1>4, <1>6
  <2>2. Spelling(TypeIn(f, f.tree[i].kind)) = x
    BY <1>1, <1>6, LeafText
  <2>3. Spelling(TypeIn(g, g.tree[i].kind)) = y
    BY <1>2, <2>1, LeafText
  <2>4. QED  BY <1>1, <1>2, <1>6, <2>1, <2>2, <2>3
<1>7. QED  BY <1>5, <1>6

-----------------------------------------------------------------------------
(* So files of one root are the same.                                      *)
LEMMA OneRootOneFile ==
  ASSUME NEW f, NEW g, Parsed(f), Parsed(g), HasNodes(f), HasNodes(g), NEW ns, NEW id,
         NEW img, NEW slot, NEW jmg, NEW tlot,
         Reading(f, ns, id, img, slot), Reading(g, ns, id, jmg, tlot)
  PROVE  SameFile(f, g)
<1>1. /\ DOMAIN f.tree = 1..Len(f.tree) /\ Len(f.tree) \in Nat
      /\ DOMAIN g.tree = 1..Len(g.tree) /\ Len(g.tree) \in Nat
      /\ 1 \in DOMAIN f.tree
  BY Trees
<1>2. ASSUME NEW i \in Nat, i # 0
      PROVE  /\ i \in DOMAIN f.tree <=> i \in DOMAIN g.tree
             /\ i \in DOMAIN f.tree =>
                  /\ img[i] = jmg[i]
                  /\ i # 1 => /\ f.tree[i].parent = g.tree[i].parent /\ slot[i] = tlot[i]
                              /\ GapBefore(f, i) = GapBefore(g, i)
  <2>1. Agree(f, g, img, slot, jmg, tlot, i)
    BY ReadingsAgree
  <2>2. i \in 1..i
    BY <1>2
  <2>3. QED  BY <2>1, <2>2 DEF Agree
<1>3. DOMAIN f.tree = DOMAIN g.tree
  <2>1. \A i \in DOMAIN f.tree : i \in DOMAIN g.tree
    BY <1>1, <1>2
  <2>2. \A i \in DOMAIN g.tree : i \in DOMAIN f.tree
    BY <1>1, <1>2
  <2>3. QED  BY <2>1, <2>2
<1>4. \A i \in DOMAIN f.tree : img[i] = jmg[i] /\ (i # 1 => slot[i] = tlot[i])
  BY <1>1, <1>2
<1>5. Alike(f, g)
  BY <1>1, <1>2, <1>3 DEF Alike
<1>6. \A i \in DOMAIN f.tree : ChildrenIn(f, i) = ChildrenIn(g, i)
  BY <1>5, AlikeKids
<1>7. ASSUME NEW i \in DOMAIN f.tree
      PROVE  /\ TypeIn(f, f.tree[i].kind) = TypeIn(g, g.tree[i].kind)
             /\ (IF i = 1 THEN f.name ELSE LabelIn(f, i)) = (IF i = 1 THEN g.name ELSE LabelIn(g, i))
  <2>1. PICK c : c = ns[img[i]].content
    OBVIOUS
  <2>2. c.kind = TypeIn(f, f.tree[i].kind) /\ c.label = (IF i = 1 THEN f.name ELSE LabelIn(f, i))
    BY <2>1, ReadIs
  <2>3. i \in DOMAIN g.tree /\ c = ns[jmg[i]].content
    BY <1>3, <1>4, <2>1
  <2>4. c.kind = TypeIn(g, g.tree[i].kind) /\ c.label = (IF i = 1 THEN g.name ELSE LabelIn(g, i))
    BY <2>3, ReadIs
  <2>5. QED  BY <2>2, <2>4
<1>8. f.name = g.name
  BY <1>1, <1>7
<1>9. ASSUME NEW i \in DOMAIN f.tree, i # 1, ChildrenIn(f, i) = {}
      PROVE  /\ f.tree[i].named <=> g.tree[i].named
             /\ Piece(f.text, f.tree[i].start, f.tree[i].end)
                  = Piece(g.text, g.tree[i].start, g.tree[i].end)
  <2>1. i \in DOMAIN g.tree /\ ChildrenIn(g, i) = {}
    BY <1>3, <1>6, <1>9
  <2>2. TypeIn(f, f.tree[i].kind) = TypeIn(g, g.tree[i].kind) /\ LabelIn(f, i) = LabelIn(g, i)
    BY <1>7, <1>9
  <2>3. QED  BY <1>9, <2>1, <2>2, SameLeaf
<1>10. ASSUME NEW i \in DOMAIN f.tree PROVE SameNodeIn(f, g, i)
  <2>1. TypeIn(f, f.tree[i].kind) = TypeIn(g, g.tree[i].kind)
    BY <1>7
  <2>2. i # 1 => f.tree[i].parent = g.tree[i].parent /\ GapBefore(f, i) = GapBefore(g, i)
    BY <1>5 DEF Alike
  <2>3. i # 1 /\ ChildrenIn(f, i) = {} =>
          /\ f.tree[i].named <=> g.tree[i].named
          /\ SubSeq(f.text, f.tree[i].start + 1, f.tree[i].end)
               = SubSeq(g.text, g.tree[i].start + 1, g.tree[i].end)
    BY <1>9 DEF Piece
  <2>4. QED  BY <2>1, <2>2, <2>3 DEF SameNodeIn
<1>11. LastGap(f) = LastGap(g)
  <2>1. PICK k : k = Youngest(ChildrenIn(f, 1))
    OBVIOUS
  <2>2. k \in DOMAIN f.tree /\ k # 1 /\ k = Youngest(ChildrenIn(g, 1))
    <3>1. k \in ChildrenIn(f, 1)
      BY <2>1, LastIs DEF HasNodes
    <3>2. QED  BY <1>1, <1>6, <2>1, <3>1, Kids
  <2>3. PICK s : s = slot[k]
    OBVIOUS
  <2>4. s = tlot[k]
    BY <1>4, <2>2, <2>3
  <2>5. PICK L : L = ns[id].content.children
    OBVIOUS
  <2>6. /\ LastGap(f) = <<>> => Len(L) = s
        /\ LastGap(f) # <<>> => Len(L) = s + 1 /\ IsGap(ns, L[s + 1], LastGap(f))
    BY <2>1, <2>3, <2>5 DEF Reading, RootLaid
  <2>7. /\ LastGap(g) = <<>> => Len(L) = s
        /\ LastGap(g) # <<>> => Len(L) = s + 1 /\ IsGap(ns, L[s + 1], LastGap(g))
    BY <2>2, <2>4, <2>5 DEF Reading, RootLaid
  <2>8. s \in Nat
    <3>1. k \in ClosedKids(f, img, 1)
      <4>1. k \in ChildrenIn(f, 1)
        BY <2>1, LastIs DEF HasNodes
      <4>2. img[k] # 0
        BY <2>2 DEF Reading
      <4>3. QED  BY <4>1, <4>2 DEF ClosedKids
    <3>2. Ordered(f, ns, img, slot, 1, L)
      BY <2>5 DEF Reading, RootLaid
    <3>3. s \in 1..Len(L)
      BY <2>3, <3>1, <3>2 DEF Ordered, Placed
    <3>4. QED  BY <3>3
  <2>9. PICK x : x = LastGap(f)
    OBVIOUS
  <2>10. PICK y : y = LastGap(g)
    OBVIOUS
  <2>11. (x = <<>>) <=> (y = <<>>)
    BY <2>6, <2>7, <2>8, <2>9, <2>10
  <2>12. CASE x # <<>>
    <3>1. BlankContent(x) = BlankContent(y)
      BY <2>6, <2>7, <2>9, <2>10, <2>11, <2>12 DEF IsGap
    <3>2. BlankContent(x).blank = x /\ BlankContent(y).blank = y
      BY DEF BlankContent
    <3>3. QED  BY <2>9, <2>10, <3>1, <3>2
  <2>13. QED  BY <2>9, <2>10, <2>11, <2>12
<1>12. QED  BY <1>3, <1>8, <1>10, <1>11 DEF SameFile
-----------------------------------------------------------------------------
(* And the same file, twice, has the same root: no entity is made again.   *)
LEMMA SameFileIs ==
  ASSUME NEW f, NEW g, Parsed(f), Parsed(g), SameFile(f, g)
  PROVE  /\ Alike(f, g) /\ LastGap(f) = LastGap(g)
         /\ \A i \in DOMAIN f.tree :
              /\ TypeIn(f, f.tree[i].kind) = TypeIn(g, g.tree[i].kind)
              /\ (IF i = 1 THEN f.name ELSE LabelIn(f, i))
                   = (IF i = 1 THEN g.name ELSE LabelIn(g, i))
<1>1. \A i \in DOMAIN f.tree : SameNodeIn(f, g, i)
  BY DEF SameFile
<1>2. Alike(f, g)
  <2>1. DOMAIN f.tree = DOMAIN g.tree
    BY DEF SameFile
  <2>2. \A i \in DOMAIN f.tree : i # 1 =>
          f.tree[i].parent = g.tree[i].parent /\ GapBefore(f, i) = GapBefore(g, i)
    BY <1>1 DEF SameNodeIn
  <2>3. QED  BY <2>1, <2>2 DEF Alike
<1>3. ASSUME NEW i \in DOMAIN f.tree, i # 1 PROVE LabelIn(f, i) = LabelIn(g, i)
  <2>1. ChildrenIn(f, i) = ChildrenIn(g, i)
    BY <1>2, AlikeKids
  <2>2. CASE ChildrenIn(f, i) = {}
    <3>1. /\ f.tree[i].named <=> g.tree[i].named
          /\ f.tree[i].named => Piece(f.text, f.tree[i].start, f.tree[i].end)
                                  = Piece(g.text, g.tree[i].start, g.tree[i].end)
      BY <1>1, <1>3, <2>2 DEF SameNodeIn, Piece
    <3>2. QED  BY <2>1, <3>1 DEF LabelIn
  <2>3. CASE ChildrenIn(f, i) # {}
    BY <2>1, <2>3 DEF LabelIn
  <2>4. QED  BY <2>2, <2>3
<1>4. \A i \in DOMAIN f.tree : TypeIn(f, f.tree[i].kind) = TypeIn(g, g.tree[i].kind)
  BY <1>1 DEF SameNodeIn
<1>5. f.name = g.name /\ LastGap(f) = LastGap(g)
  BY DEF SameFile
<1>6. QED  BY <1>2, <1>3, <1>4, <1>5

\* An elder is an earlier node.
LEMMA ElderFirst ==
  ASSUME NEW f, Parsed(f), NEW k \in DOMAIN f.tree, k # 1, Elders(f, k) # {}
  PROVE  /\ Youngest(Elders(f, k)) \in DOMAIN f.tree
         /\ Youngest(Elders(f, k)) # 1 /\ Youngest(Elders(f, k)) < k
<1>1. PICK p : p = f.tree[k].parent
  OBVIOUS
<1>2. p \in DOMAIN f.tree
  BY <1>1, Trees
<1>3. PICK e : e = Youngest(Elders(f, k))
  OBVIOUS
<1>4. e \in Elders(f, k)
  BY <1>3, ElderIs
<1>5. e \in ChildrenIn(f, p) /\ e < k
  BY <1>1, <1>4 DEF Elders
<1>6. e \in DOMAIN f.tree /\ e # 1
  BY <1>2, <1>5, Kids
<1>7. QED  BY <1>3, <1>5, <1>6

\* A node is placed among the children of its parent's entity.
LEMMA PlacedIs ==
  ASSUME NEW f, Parsed(f), HasNodes(f), NEW ns, NEW id, NEW img, NEW slot,
         Reading(f, ns, id, img, slot), NEW k \in DOMAIN f.tree, k # 1
  PROVE  Placed(f, ns, img, slot, ns[img[f.tree[k].parent]].content.children, k)
<1>1. PICK p : p = f.tree[k].parent
  OBVIOUS
<1>2. p \in DOMAIN f.tree /\ k \in ChildrenIn(f, p)
  BY <1>1, Trees DEF ChildrenIn
<1>3. PICK L : L = ns[img[p]].content.children
  OBVIOUS
<1>4. Ordered(f, ns, img, slot, p, L) /\ ClosedKids(f, img, p) = ChildrenIn(f, p)
  BY <1>2, <1>3, Covering
<1>5. Placed(f, ns, img, slot, L, k)
  BY <1>2, <1>4 DEF Ordered
<1>6. QED  BY <1>1, <1>3, <1>5

\* So the children are at the same places.
LEMMA SameSlots ==
  ASSUME NEW f, NEW g, Parsed(f), Parsed(g), HasNodes(f), HasNodes(g), Alike(f, g),
         NEW ns, NEW id, NEW img, NEW slot, Reading(f, ns, id, img, slot),
         NEW jd, NEW jmg, NEW tlot, Reading(g, ns, jd, jmg, tlot)
  PROVE  \A k \in DOMAIN f.tree : k # 1 => slot[k] = tlot[k]
<1> DEFINE T == {n \in Nat : n \in DOMAIN f.tree /\ n # 1 => slot[n] = tlot[n]}
<1>1. DOMAIN f.tree = 1..Len(f.tree) /\ Len(f.tree) \in Nat /\ DOMAIN g.tree = DOMAIN f.tree
  BY Trees DEF Alike
<1>2. ASSUME NEW n \in Nat, \A m \in Nat : m < n => m \in T PROVE n \in T
  <2>1. SUFFICES ASSUME n \in DOMAIN f.tree, n # 1 PROVE slot[n] = tlot[n]
    OBVIOUS
  <2>2. SlotBefore(f, slot, n) = SlotBefore(g, tlot, n)
    <3>1. Elders(f, n) = Elders(g, n)
      BY <2>1, AlikeKids
    <3>2. PICK e : e = Youngest(Elders(f, n))
      OBVIOUS
    <3>3. Elders(f, n) # {} => e \in DOMAIN f.tree /\ e # 1 /\ e < n
      BY <2>1, <3>2, ElderFirst
    <3>4. Elders(f, n) # {} => slot[e] = tlot[e]
      BY <1>1, <1>2, <3>3
    <3>5. QED  BY <3>1, <3>2, <3>4 DEF SlotBefore
  <2>3. GapBefore(f, n) = GapBefore(g, n)
    BY <2>1 DEF Alike
  <2>4. PICK L : Placed(f, ns, img, slot, L, n)
    BY <2>1, PlacedIs
  <2>5. PICK M : Placed(g, ns, jmg, tlot, M, n)
    BY <1>1, <2>1, PlacedIs
  <2>6. QED  BY <2>2, <2>3, <2>4, <2>5 DEF Placed
<1>3. Nat \subseteq T
  <2> HIDE DEF T
  <2>1. QED  BY <1>2, StrongInduction
<1>4. QED  BY <1>1, <1>3

\* Lists of the same elements are one.
LEMMA ListsEqual ==
  ASSUME NEW s, NEW t, IsList(s), IsList(t),
         \A i \in 1..Len(s) : i \in 1..Len(t) /\ s[i] = t[i],
         \A i \in 1..Len(t) : i \in 1..Len(s)
  PROVE  s = t
<1> DEFINE S == Range(s) \cup Range(t)
<1>1. s \in Seq(S) /\ t \in Seq(S)
  BY SeqMonotonic DEF IsList
<1>2. Len(s) \in Nat /\ Len(t) \in Nat
  BY Lists
<1> HIDE DEF S
<1>3. Len(s) = Len(t)
  BY <1>2
<1>4. QED  BY <1>1, <1>3, SeqEqual

\* One gap has one entity.
LEMMA OneGap ==
  ASSUME NEW ns, Distinct(ns), NEW gap, NEW x, NEW y, IsGap(ns, x, gap), IsGap(ns, y, gap)
  PROVE  x = y
BY DEF IsGap, Distinct

\* If the children of a node are the same entities in both readings, what
\* is among the children of its entity in the one is there in the other.
LEMMA InBoth ==
  ASSUME NEW f, NEW g, Parsed(f), Parsed(g), HasNodes(f), HasNodes(g), Alike(f, g),
         LastGap(f) = LastGap(g),
         NEW ns, Distinct(ns), NEW id, NEW img, NEW slot, Reading(f, ns, id, img, slot),
         NEW jd, NEW jmg, NEW tlot, Reading(g, ns, jd, jmg, tlot),
         NEW i \in DOMAIN f.tree, \A k \in ChildrenIn(f, i) : img[k] = jmg[k],
         NEW L, L = ns[img[i]].content.children,
         NEW M, M = ns[jmg[i]].content.children, NEW t \in 1..Len(L)
  PROVE  t \in 1..Len(M) /\ M[t] = L[t]
<1>1. i \in DOMAIN g.tree /\ ChildrenIn(f, i) = ChildrenIn(g, i)
  BY AlikeKids DEF Alike
<1>2. Ordered(f, ns, img, slot, i, L) /\ ClosedKids(f, img, i) = ChildrenIn(f, i)
  BY Covering
<1>3. Ordered(g, ns, jmg, tlot, i, M) /\ ClosedKids(g, jmg, i) = ChildrenIn(f, i)
  BY <1>1, Covering
<1>4. Len(L) \in Nat /\ Len(M) \in Nat
  BY <1>2, <1>3, Lists DEF Ordered
<1>5. ASSUME NEW k \in ChildrenIn(f, i)
      PROVE  /\ Placed(f, ns, img, slot, L, k) /\ Placed(g, ns, jmg, tlot, M, k)
             /\ slot[k] = tlot[k] /\ k \in DOMAIN f.tree /\ k # 1
  <2>1. k \in DOMAIN f.tree /\ k # 1
    BY Kids
  <2>2. QED  BY <1>1, <1>2, <1>3, <2>1, SameSlots DEF Ordered
<1>6. ASSUME NEW k \in ChildrenIn(f, i), OfKid(f, slot, k, t)
      PROVE  t \in 1..Len(M) /\ M[t] = L[t]
  <2>1. CASE t = slot[k]
    BY <1>5, <2>1 DEF Placed
  <2>2. CASE t = slot[k] - 1 /\ GapBefore(f, k) # <<>>
    <3>1. PICK gap : gap = GapBefore(f, k)
      OBVIOUS
    <3>2. gap = GapBefore(g, k)
      BY <1>5, <3>1 DEF Alike
    <3>3. IsGap(ns, L[t], gap)
      BY <1>5, <2>2, <3>1 DEF Placed
    <3>4. IsGap(ns, M[t], gap) /\ slot[k] \in 1..Len(M)
      BY <1>5, <2>2, <3>1, <3>2 DEF Placed
    <3>5. t \in 1..Len(M)
      BY <1>4, <2>2, <3>4
    <3>6. L[t] = M[t]
      BY <3>3, <3>4, OneGap
    <3>7. QED  BY <3>5, <3>6
  <2>3. QED  BY <1>6, <2>1, <2>2 DEF OfKid
<1>7. ASSUME i = 1, t = slot[Youngest(ChildrenIn(f, 1))] + 1
      PROVE  t \in 1..Len(M) /\ M[t] = L[t]
  <2>1. PICK k : k = Youngest(ChildrenIn(f, 1))
    OBVIOUS
  <2>2. k \in ChildrenIn(f, i) /\ k = Youngest(ChildrenIn(g, 1))
    BY <1>1, <1>7, <2>1, LastIs DEF HasNodes
  <2>3. slot[k] = tlot[k] /\ slot[k] \in 1..Len(L)
    BY <1>5, <2>2 DEF Placed
  <2>4. PICK last : last = slot[k]
    OBVIOUS
  <2>5. PICK gap : gap = LastGap(f)
    OBVIOUS
  <2>6. /\ gap = <<>> => Len(L) = last
        /\ gap # <<>> => Len(L) = last + 1 /\ IsGap(ns, L[last + 1], gap)
    BY <1>7, <2>1, <2>4, <2>5 DEF Reading, RootLaid
  <2>7. /\ gap = <<>> => Len(M) = last
        /\ gap # <<>> => Len(M) = last + 1 /\ IsGap(ns, M[last + 1], gap)
    BY <1>7, <2>2, <2>3, <2>4, <2>5 DEF Reading, RootLaid
  <2>8. t = last + 1
    BY <1>7, <2>1, <2>4
  <2>9. gap # <<>>
    BY <1>4, <2>3, <2>4, <2>6, <2>8
  <2>10. L[t] = M[t]
    BY <2>6, <2>7, <2>8, <2>9, OneGap
  <2>11. QED  BY <1>4, <2>6, <2>7, <2>8, <2>9, <2>10
<1>8. CASE i = 1
  <2>1. (\E k \in ChildrenIn(f, 1) : OfKid(f, slot, k, t))
        \/ t = slot[Youngest(ChildrenIn(f, 1))] + 1
    BY <1>8 DEF Reading, RootLaid
  <2>2. QED  BY <1>6, <1>7, <1>8, <2>1
<1>9. CASE i # 1
  <2>1. \E k \in ClosedKids(f, img, i) : OfKid(f, slot, k, t)
    BY <1>9 DEF Reading, Read, Laid
  <2>2. QED  BY <1>2, <1>6, <2>1
<1>10. QED  BY <1>8, <1>9

\* So, from the leaves up, every node is the same entity in both.
LEMMA OneFileOneRoot ==
  ASSUME NEW f, NEW g, Parsed(f), Parsed(g), HasNodes(f), HasNodes(g), SameFile(f, g),
         NEW ns, Distinct(ns), NEW id, NEW img, NEW slot, Reading(f, ns, id, img, slot),
         NEW jd, NEW jmg, NEW tlot, Reading(g, ns, jd, jmg, tlot)
  PROVE  id = jd
<1>1. DOMAIN f.tree = 1..Len(f.tree) /\ Len(f.tree) \in Nat /\ 1 \in DOMAIN f.tree
  BY Trees
<1>2. Alike(f, g) /\ LastGap(f) = LastGap(g)
  BY SameFileIs
<1>3. DOMAIN g.tree = DOMAIN f.tree
  BY <1>2 DEF Alike
<1>4. Alike(g, f)
  BY <1>2 DEF Alike
<1>5. PICK n : n = Len(f.tree)
  OBVIOUS
<1> DEFINE T == {m \in Nat : \A i \in DOMAIN f.tree : i + m > n => img[i] = jmg[i]}
<1>6. 0 \in T
  BY <1>1, <1>5
<1>7. ASSUME NEW m \in Nat, m \in T PROVE m + 1 \in T
  <2>1. SUFFICES ASSUME NEW i \in DOMAIN f.tree, i + (m + 1) > n PROVE img[i] = jmg[i]
    OBVIOUS
  <2>2. ASSUME NEW k \in ChildrenIn(f, i) PROVE img[k] = jmg[k]
    <3>1. k \in DOMAIN f.tree /\ i < k
      BY Kids
    <3>2. k + m > n
      BY <1>1, <1>5, <2>1, <3>1
    <3>3. QED  BY <1>7, <3>1, <3>2
  <2>3. ASSUME NEW k \in ChildrenIn(g, i) PROVE jmg[k] = img[k]
    BY <1>2, <2>2, AlikeKids
  <2>4. PICK L : L = ns[img[i]].content.children
    OBVIOUS
  <2>5. PICK M : M = ns[jmg[i]].content.children
    OBVIOUS
  <2>6. i \in DOMAIN g.tree
    BY <1>3
  <2>7. \A t \in 1..Len(L) : t \in 1..Len(M) /\ M[t] = L[t]
    BY <1>2, <2>2, <2>4, <2>5, InBoth
  <2>8. \A t \in 1..Len(M) : t \in 1..Len(L)
    <3>1. SUFFICES ASSUME NEW t \in 1..Len(M) PROVE t \in 1..Len(L)
      OBVIOUS
    <3>2. t \in 1..Len(L) /\ L[t] = M[t]
      BY <1>2, <1>4, <2>3, <2>4, <2>5, <2>6, InBoth
    <3>3. QED  BY <3>2
  <2>9. IsList(L)
    BY <2>4, Covering DEF Ordered
  <2>10. IsList(M)
    BY <2>5, <2>6, Covering DEF Ordered
  <2>11. L = M
    BY <2>7, <2>8, <2>9, <2>10, ListsEqual
  <2>12. Entity(f, ns, i, img[i]) /\ Entity(g, ns, i, jmg[i])
    BY <2>6, ReadIs
  <2>13. /\ TypeIn(f, f.tree[i].kind) = TypeIn(g, g.tree[i].kind)
         /\ (IF i = 1 THEN f.name ELSE LabelIn(f, i)) = (IF i = 1 THEN g.name ELSE LabelIn(g, i))
    BY SameFileIs
  <2>14. ns[img[i]].content = ns[jmg[i]].content
    BY <2>4, <2>5, <2>11, <2>12, <2>13 DEF Entity
  <2>15. QED  BY <2>12, <2>14 DEF Entity, Distinct
<1>8. Nat \subseteq T
  <2> HIDE DEF T
  <2>1. QED  BY <1>6, <1>7, Induction
<1>9. n \in T
  BY <1>1, <1>5, <1>8
<1>10. img[1] = jmg[1]
  BY <1>1, <1>5, <1>9
<1>11. QED  BY <1>10 DEF Reading

-----------------------------------------------------------------------------
(* A reading in progress.  Of the nodes on the stack it says what children *)
(* they have so far: all of those before the next node of the path, and no *)
(* other.                                                                  *)
Full(f, img, slot, i, L) ==
  /\ Len(L) = slot[Youngest(ClosedKids(f, img, i))]
  /\ \A t \in 1..Len(L) : \E k \in ClosedKids(f, img, i) : OfKid(f, slot, k, t)

\* Before its first child the root has the lead, if it is kept.
Lead(f) == IF f.lang = Java THEN KeptGap(f, 0, f.tree[1].start) ELSE <<>>
Filled(f, ns, img, slot, i, L) ==
  /\ Ordered(f, ns, img, slot, i, L)
  /\ IF ClosedKids(f, img, i) # {} THEN Full(f, img, slot, i, L)
     ELSE IF i = 1 /\ Lead(f) # <<>> THEN Len(L) = 1 /\ IsGap(ns, L[1], Lead(f))
     ELSE Len(L) = 0

UpTo(f, img, i, m) == \A k \in ChildrenIn(f, i) : img[k] # 0 <=> k < m

Known(f, ns, img, slot, P, n) ==
  \A k \in DOMAIN f.tree : img[k] # 0 =>
    /\ Read(f, ns, img, slot, k)
    /\ img[f.tree[k].parent] # 0 \/ \E d \in 1..n : P[d] = f.tree[k].parent

InReading(f, ns, s, P, m, img, slot) ==
  /\ IsList(s) /\ IsPath(f, P, Len(s)) /\ m \in Nat
  /\ img \in [DOMAIN f.tree -> Nat] /\ slot \in [DOMAIN f.tree -> Nat]
  /\ Known(f, ns, img, slot, P, Len(s))
  /\ \A d \in 1..(Len(s) - 1) : UpTo(f, img, P[d], P[d + 1])
  /\ UpTo(f, img, P[Len(s)], m)
  /\ \A d \in 1..Len(s) : Filled(f, ns, img, slot, P[d], s[d].children)
  /\ \A d \in 2..Len(s) : s[d].padding = GapBegin(f, P[d])
-----------------------------------------------------------------------------
(* A reading of a node says something of its children only, and goes on    *)
(* being one in a larger store.                                            *)
SameKids(f, i, img, slot, jmg, tlot) ==
  \A k \in ChildrenIn(f, i) : img[k] = jmg[k] /\ slot[k] = tlot[k]

\* What is closed, and where the elder is.
LEMMA KidsSame ==
  ASSUME NEW f, Parsed(f), NEW i, NEW img, NEW slot, NEW jmg, NEW tlot,
         SameKids(f, i, img, slot, jmg, tlot)
  PROVE  /\ ClosedKids(f, img, i) = ClosedKids(f, jmg, i)
         /\ \A k \in ChildrenIn(f, i) : SlotBefore(f, slot, k) = SlotBefore(f, tlot, k)
<1>1. ClosedKids(f, img, i) = ClosedKids(f, jmg, i)
  BY DEF ClosedKids, SameKids
<1>2. ASSUME NEW k \in ChildrenIn(f, i)
      PROVE  SlotBefore(f, slot, k) = SlotBefore(f, tlot, k)
  <2>1. PICK e : e = Youngest(Elders(f, k))
    OBVIOUS
  <2>2. k \in DOMAIN f.tree /\ f.tree[k].parent = i
    BY DEF ChildrenIn
  <2>3. Elders(f, k) # {} => e \in Elders(f, k)
    BY <2>1, <2>2, ElderIs
  <2>4. Elders(f, k) # {} => slot[e] = tlot[e]
    BY <2>2, <2>3 DEF Elders, SameKids
  <2>5. QED  BY <2>1, <2>4 DEF SlotBefore
<1>3. QED  BY <1>1, <1>2

\* A place is kept.
LEMMA PlacedStays ==
  ASSUME NEW f, Parsed(f), NEW ns, NEW more, Keeps(ns, more), NEW k, NEW img, NEW slot,
         NEW jmg, NEW tlot, img[k] = jmg[k], slot[k] = tlot[k],
         SlotBefore(f, slot, k) = SlotBefore(f, tlot, k),
         NEW L, NEW M, Len(L) \in Nat, Len(M) \in Nat, Len(L) <= Len(M),
         SlotBefore(f, slot, k) \in Nat,
         \A t \in 1..Len(L) : M[t] = L[t], Placed(f, ns, img, slot, L, k)
  PROVE  Placed(f, more, jmg, tlot, M, k)
<1>2. PICK gap : gap = GapBefore(f, k)
  OBVIOUS
<1>3. PICK t : t = slot[k]
  OBVIOUS
<1>4. PICK b : b = SlotBefore(f, slot, k)
  OBVIOUS
<1>5. /\ t \in 1..Len(L) /\ L[t] = img[k]
      /\ gap = <<>> => t = b + 1
      /\ gap # <<>> => t = b + 2 /\ IsGap(ns, L[t - 1], gap)
  BY <1>2, <1>3, <1>4 DEF Placed
<1>6. t \in 1..Len(M) /\ M[t] = jmg[k]
  BY <1>5
<1>7. ASSUME gap # <<>> PROVE IsGap(more, M[t - 1], gap)
  <2>1. t - 1 \in 1..Len(L)
    BY <1>4, <1>5, <1>7
  <2>2. M[t - 1] = L[t - 1]
    BY <2>1
  <2>3. QED  BY <1>5, <1>7, <2>2 DEF IsGap, Keeps
<1>8. b = SlotBefore(f, tlot, k) /\ t = tlot[k]
  BY <1>3, <1>4
<1>9. QED  BY <1>2, <1>5, <1>6, <1>7, <1>8 DEF Placed

\* The elder has a slot.
LEMMA BeforeIsNat ==
  ASSUME NEW f, Parsed(f), NEW slot \in [DOMAIN f.tree -> Nat], NEW k \in DOMAIN f.tree
  PROVE  SlotBefore(f, slot, k) \in Nat
<1>1. PICK e : e = Youngest(Elders(f, k))
  OBVIOUS
<1>2. Elders(f, k) # {} => e \in DOMAIN f.tree
  BY <1>1, ElderIs DEF Elders, ChildrenIn
<1>3. Elders(f, k) # {} => slot[e] \in Nat
  BY <1>2
<1>4. QED  BY <1>1, <1>3 DEF SlotBefore

\* So is the order of the closed children,
LEMMA OrderedStays ==
  ASSUME NEW f, Parsed(f), NEW ns, NEW more, Keeps(ns, more), NEW i, NEW img,
         NEW slot \in [DOMAIN f.tree -> Nat], NEW jmg, NEW tlot,
         SameKids(f, i, img, slot, jmg, tlot), NEW L, Ordered(f, ns, img, slot, i, L)
  PROVE  Ordered(f, more, jmg, tlot, i, L)
<1>1. /\ ClosedKids(f, img, i) = ClosedKids(f, jmg, i)
      /\ \A k \in ChildrenIn(f, i) : SlotBefore(f, slot, k) = SlotBefore(f, tlot, k)
  BY KidsSame
<1>2. IsList(L) /\ Len(L) \in Nat
  BY Lists DEF Ordered
<1>3. ASSUME NEW k \in ClosedKids(f, img, i) PROVE Placed(f, more, jmg, tlot, L, k)
  <2>1. k \in ChildrenIn(f, i) /\ k \in DOMAIN f.tree
    BY DEF ClosedKids, ChildrenIn
  <2>2. Placed(f, ns, img, slot, L, k)
    BY <1>3 DEF Ordered
  <2>3. SlotBefore(f, slot, k) \in Nat
    BY <2>1, BeforeIsNat
  <2>4. img[k] = jmg[k] /\ slot[k] = tlot[k] /\ SlotBefore(f, slot, k) = SlotBefore(f, tlot, k)
    BY <1>1, <2>1 DEF SameKids
  <2>5. Len(L) <= Len(L)
    BY <1>2
  <2>6. QED  BY <1>2, <2>2, <2>3, <2>4, <2>5, PlacedStays
<1>4. ASSUME NEW j \in ClosedKids(f, img, i), NEW k \in ClosedKids(f, img, i), j < k
      PROVE  tlot[j] < tlot[k]
  <2>1. j \in ChildrenIn(f, i) /\ k \in ChildrenIn(f, i)
    BY DEF ClosedKids
  <2>2. slot[j] < slot[k]
    BY <1>4 DEF Ordered
  <2>3. QED  BY <2>1, <2>2 DEF SameKids
<1>5. QED  BY <1>1, <1>2, <1>3, <1>4 DEF Ordered

\* and all of the children of a node, closed or not.
LEMMA FilledStays ==
  ASSUME NEW f, Parsed(f), NEW ns, NEW more, Keeps(ns, more), NEW i, NEW img,
         NEW slot \in [DOMAIN f.tree -> Nat], NEW jmg, NEW tlot,
         SameKids(f, i, img, slot, jmg, tlot), NEW L
  PROVE  /\ Filled(f, ns, img, slot, i, L) => Filled(f, more, jmg, tlot, i, L)
         /\ Laid(f, ns, img, slot, i, L) => Laid(f, more, jmg, tlot, i, L)
<1>1. ClosedKids(f, img, i) = ClosedKids(f, jmg, i)
  BY KidsSame
<1>2. Ordered(f, ns, img, slot, i, L) => Ordered(f, more, jmg, tlot, i, L)
  BY OrderedStays
<1>3. PICK C : C = ClosedKids(f, img, i)
  OBVIOUS
<1>4. \A k \in C : slot[k] = tlot[k] /\ \A t : OfKid(f, slot, k, t) <=> OfKid(f, tlot, k, t)
  BY <1>3 DEF ClosedKids, SameKids, OfKid
<1>5. C # {} => Youngest(C) \in C
  <2>1. DOMAIN f.tree = 1..Len(f.tree) /\ Len(f.tree) \in Nat
    BY Trees
  <2>2. C \in SUBSET (0..Len(f.tree))
    BY <1>3, <2>1 DEF ClosedKids, ChildrenIn
  <2>3. QED  BY <2>1, <2>2, YoungestExists
<1>6. Full(f, img, slot, i, L) /\ C # {} => Full(f, jmg, tlot, i, L)
  BY <1>1, <1>3, <1>4, <1>5 DEF Full
<1>7. Laid(f, ns, img, slot, i, L) => Laid(f, more, jmg, tlot, i, L)
  BY <1>1, <1>2, <1>3, <1>4 DEF Laid
<1>8. \A id, gap : IsGap(ns, id, gap) => IsGap(more, id, gap)
  BY DEF IsGap, Keeps
<1>9. QED  BY <1>1, <1>2, <1>3, <1>6, <1>7, <1>8 DEF Filled

\* So is what is read of a node,
LEMMA ReadStays ==
  ASSUME NEW f, Parsed(f), NEW ns, NEW more, Dag(ns), Dag(more), Keeps(ns, more),
         NEW k, NEW img, NEW slot \in [DOMAIN f.tree -> Nat], NEW jmg, NEW tlot,
         SameKids(f, k, img, slot, jmg, tlot), img[k] = jmg[k],
         Read(f, ns, img, slot, k)
  PROVE  Read(f, more, jmg, tlot, k)
<1>1. PICK id : id = img[k]
  OBVIOUS
<1>2. id \in DOMAIN ns
  BY <1>1 DEF Read, Entity
<1>3. id \in DOMAIN more /\ more[id] = ns[id]
  BY <1>2 DEF Keeps
<1>4. Entity(f, more, k, id)
  BY <1>1, <1>3 DEF Read, Entity
<1>5. Laid(f, more, jmg, tlot, k, more[id].content.children)
  BY <1>1, <1>3, FilledStays DEF Read
<1>6. \A j \in ChildrenIn(f, k) : jmg[j] # 0
  BY DEF Read, SameKids
<1>7. QED  BY <1>1, <1>3, <1>4, <1>5, <1>6 DEF Read

\* and the reading of a whole file.
LEMMA ReadingStays ==
  ASSUME NEW f, Parsed(f), NEW ns, NEW more, Dag(ns), Dag(more), Keeps(ns, more),
         NEW id, NEW img, NEW slot \in [DOMAIN f.tree -> Nat],
         Reading(f, ns, id, img, slot)
  PROVE  Reading(f, more, id, img, slot)
<1>1. id \in DOMAIN ns
  BY DEF Reading, Entity
<1>2. id \in DOMAIN more /\ more[id] = ns[id]
  BY <1>1 DEF Keeps
<1>3. Entity(f, more, 1, id)
  BY <1>2 DEF Reading, Entity
<1>4. \A i : SameKids(f, i, img, slot, img, slot)
  BY DEF SameKids
<1>5. ASSUME NEW k \in DOMAIN f.tree, k # 1 PROVE Read(f, more, img, slot, k)
  BY <1>4, <1>5, ReadStays DEF Reading
<1>6. \A x, gap : IsGap(ns, x, gap) => IsGap(more, x, gap)
  BY DEF IsGap, Keeps
<1>7. PICK L : L = ns[id].content.children
  OBVIOUS
<1>8. RootLaid(f, ns, img, slot, L)
  BY <1>7 DEF Reading
<1>9. Ordered(f, ns, img, slot, 1, L)
  BY <1>8 DEF RootLaid
<1>10. Ordered(f, more, img, slot, 1, L)
  BY <1>4, <1>9, OrderedStays
<1>11. RootLaid(f, more, img, slot, L)
  BY <1>6, <1>8, <1>10 DEF RootLaid
<1>12. QED  BY <1>2, <1>3, <1>5, <1>7, <1>11 DEF Reading

-----------------------------------------------------------------------------
\* A path goes on in preorder.
LEMMA PathGrows ==
  ASSUME NEW f, Parsed(f), NEW n, NEW P, IsPath(f, P, n)
  PROVE  \A d, e \in 1..n : d < e => P[d] < P[e]
<1> DEFINE T == {m \in Nat : m \in 1..n => \A d \in 1..n : d < m => P[d] < P[m]}
<1>1. /\ n \in Nat /\ DOMAIN f.tree = 1..Len(f.tree) /\ Len(f.tree) \in Nat
      /\ \A d \in 1..n : P[d] \in DOMAIN f.tree
      /\ \A d \in 1..n : d # 1 => f.tree[P[d]].parent = P[d - 1]
      /\ f.tree[1].parent \notin DOMAIN f.tree
  BY Trees DEF IsPath
<1>2. 0 \in T
  BY <1>1
<1>3. ASSUME NEW m \in Nat, m \in T PROVE m + 1 \in T
  <2>1. SUFFICES ASSUME m + 1 \in 1..n, NEW d \in 1..n, d < m + 1 PROVE P[d] < P[m + 1]
    OBVIOUS
  <2>2. m \in 1..n /\ m + 1 # 1 /\ (m + 1) - 1 = m
    BY <1>1, <2>1
  <2>3. f.tree[P[m + 1]].parent = P[m] /\ P[m + 1] \in DOMAIN f.tree /\ P[m] \in DOMAIN f.tree
    BY <1>1, <2>1, <2>2
  <2>4. P[m] < P[m + 1]
    <3>1. P[m + 1] # 1
      BY <1>1, <2>3
    <3>2. QED  BY <2>3, <3>1, Trees
  <2>5. d = m \/ d < m
    BY <1>1, <2>1
  <2>6. d < m => P[d] < P[m]
    BY <1>3, <2>2
  <2>7. P[d] \in Nat /\ P[m] \in Nat /\ P[m + 1] \in Nat
    BY <1>1, <2>1, <2>2
  <2>8. QED  BY <2>4, <2>5, <2>6, <2>7
<1>4. Nat \subseteq T
  <2> HIDE DEF T
  <2>1. QED  BY <1>2, <1>3, Induction
<1>5. QED  BY <1>1, <1>4
-----------------------------------------------------------------------------
(* A node is closed: its gap and its entity go behind the children that    *)
(* its parent has.                                                         *)
\* The gap that post puts: that of the root's first child is in the lead.
PostGap(f, c) == KeptGap(f, GapBegin(f, c), f.tree[c].start)

Put(f, ns, c, id, L, M) ==
  /\ IsList(M) /\ M[Len(M)] = id
  /\ \A t \in 1..Len(L) : M[t] = L[t]
  /\ PostGap(f, c) = <<>> => Len(M) = Len(L) + 1
  /\ PostGap(f, c) # <<>> =>
       Len(M) = Len(L) + 2 /\ IsGap(ns, M[Len(L) + 1], PostGap(f, c))

PutBehind(f, ns, slot, c, L, M) ==
  /\ SlotBefore(f, slot, c) \in Nat
  /\ GapBefore(f, c) = <<>> => Len(M) = SlotBefore(f, slot, c) + 1
  /\ GapBefore(f, c) # <<>> =>
       Len(M) = SlotBefore(f, slot, c) + 2 /\ IsGap(ns, M[Len(M) - 1], GapBefore(f, c))
  /\ Elders(f, c) # {} => Len(L) = SlotBefore(f, slot, c)

\* No gap is kept as none.
LEMMA NoGap ==
  ASSUME NEW f, NEW at \in Nat
  PROVE  KeptGap(f, at, at) = <<>>
<1>1. PICK g : g = [k \in 1..(at - at) |-> Formatted(f.text[at + k])]
  OBVIOUS
<1>2. g = [k \in {} |-> Formatted(f.text[at + k])]
  <2>1. 1..(at - at) = {}
    OBVIOUS
  <2>2. QED  BY <1>1, <2>1
<1>3. g \in [1..0 -> Byte]
  BY <1>2
<1>4. g \in Seq(Byte) /\ Len(g) = 0
  BY <1>3, SeqDef
<1>5. g = <<>>
  BY <1>4, EmptySeq
<1>6. KeptGap(f, at, at) = IF \A k \in DOMAIN g : g[k] # None THEN g ELSE <<>>
  BY <1>1 DEF KeptGap
<1>7. QED  BY <1>5, <1>6

\* The gap before a node is what post puts, or the lead.
LEMMA PostGapIs ==
  ASSUME NEW f, Parsed(f), NEW c \in DOMAIN f.tree, c # 1
  PROVE  IF f.lang = Java /\ f.tree[c].parent = 1 /\ Elders(f, c) = {}
         THEN PostGap(f, c) = <<>> /\ GapBefore(f, c) = Lead(f)
         ELSE PostGap(f, c) = GapBefore(f, c)
<1>1. CASE f.lang = Java /\ f.tree[c].parent = 1 /\ Elders(f, c) = {}
  <2>1. GapStart(f, c) = 0
    BY <1>1 DEF GapStart
  <2>2. 1 \in DOMAIN f.tree /\ c \in ChildrenIn(f, 1)
    BY <1>1, Trees DEF ChildrenIn
  <2>3. f.tree[c].start = f.tree[1].start
    BY <1>1, <2>2, Preorder
  <2>4. GapBegin(f, c) = f.tree[1].start
    BY <1>1 DEF GapBegin
  <2>5. f.tree[1].start \in Nat
    BY <2>2, Trees
  <2>6. PostGap(f, c) = <<>>
    BY <2>3, <2>4, <2>5, NoGap DEF PostGap
  <2>7. QED  BY <1>1, <2>1, <2>3, <2>6 DEF GapBefore, Lead
<1>2. CASE ~(f.lang = Java /\ f.tree[c].parent = 1 /\ Elders(f, c) = {})
  <2>1. GapStart(f, c) = GapBegin(f, c)
    BY <1>2 DEF GapStart, GapBegin
  <2>2. QED  BY <1>2, <2>1 DEF GapBefore, PostGap
<1>3. QED  BY <1>1, <1>2

\* There it has its place.
LEMMA PlaceOf ==
  ASSUME NEW f, Parsed(f), NEW c \in DOMAIN f.tree, c # 1, NEW i, i = f.tree[c].parent,
         NEW ns, NEW more, Keeps(ns, more), NEW img, NEW slot \in [DOMAIN f.tree -> Nat],
         NEW L, Filled(f, ns, img, slot, i, L), UpTo(f, img, i, c),
         NEW id, NEW M, Put(f, more, c, id, L, M)
  PROVE  /\ Elders(f, c) = ClosedKids(f, img, i)
         /\ PutBehind(f, more, slot, c, L, M)
<1>1. Elders(f, c) = ClosedKids(f, img, i)
  BY DEF Elders, ClosedKids, UpTo
<1>2. i \in DOMAIN f.tree /\ c \in ChildrenIn(f, i)
  BY Trees DEF ChildrenIn
<1>3. IsList(L) /\ Len(L) \in Nat
  BY Lists DEF Filled, Ordered
<1>4. PICK b : b = SlotBefore(f, slot, c)
  OBVIOUS
<1>5. b \in Nat
  BY <1>4, BeforeIsNat
<1>6. PICK gap : gap = GapBefore(f, c)
  OBVIOUS
<1>7. PICK post : post = PostGap(f, c)
  OBVIOUS
<1>8. /\ post = <<>> => Len(M) = Len(L) + 1
      /\ post # <<>> => Len(M) = Len(L) + 2 /\ IsGap(more, M[Len(L) + 1], post)
  BY <1>7 DEF Put
<1>9. ASSUME Len(L) = b, post = gap
      PROVE  /\ gap = <<>> => Len(M) = b + 1
             /\ gap # <<>> => Len(M) = b + 2 /\ IsGap(more, M[Len(M) - 1], gap)
  <2>1. post # <<>> => Len(M) - 1 = Len(L) + 1
    BY <1>3, <1>8
  <2>2. QED  BY <1>8, <1>9, <2>1
<1>10. CASE Elders(f, c) # {}
  <2>1. Len(L) = b
    <3>1. Len(L) = slot[Youngest(ClosedKids(f, img, i))]
      BY <1>1, <1>10 DEF Filled, Full
    <3>2. QED  BY <1>1, <1>4, <1>10, <3>1 DEF SlotBefore
  <2>2. post = gap
    BY <1>6, <1>7, <1>10, PostGapIs
  <2>3. QED  BY <1>1, <1>4, <1>5, <1>6, <1>9, <2>1, <2>2 DEF PutBehind
<1>11. CASE Elders(f, c) = {} /\ i = 1 /\ f.lang = Java
  <2>1. post = <<>> /\ gap = Lead(f)
    BY <1>6, <1>7, <1>11, PostGapIs
  <2>2. Len(M) = Len(L) + 1 /\ b = 0
    BY <1>4, <1>8, <1>11, <2>1 DEF SlotBefore
  <2>3. CASE gap = <<>>
    <3>1. Len(L) = 0
      BY <1>1, <1>11, <2>1, <2>3 DEF Filled
    <3>2. Len(M) = b + 1
      BY <2>2, <3>1
    <3>3. QED  BY <1>1, <1>4, <1>5, <1>6, <1>11, <2>3, <3>2 DEF PutBehind
  <2>4. CASE gap # <<>>
    <3>1. Len(L) = 1 /\ IsGap(ns, L[1], gap)
      BY <1>1, <1>11, <2>1, <2>4 DEF Filled
    <3>2. M[1] = L[1]
      <4>1. 1 \in 1..Len(L)
        BY <3>1
      <4>2. QED  BY <4>1 DEF Put
    <3>3. IsGap(more, M[1], gap)
      BY <3>1, <3>2 DEF IsGap, Keeps
    <3>4. Len(M) = b + 2 /\ Len(M) - 1 = 1
      BY <2>2, <3>1
    <3>5. IsGap(more, M[Len(M) - 1], gap)
      BY <3>3, <3>4
    <3>6. QED  BY <1>1, <1>4, <1>5, <1>6, <1>11, <2>4, <3>4, <3>5 DEF PutBehind
  <2>5. QED  BY <2>3, <2>4
<1>12. CASE Elders(f, c) = {} /\ ~(i = 1 /\ f.lang = Java)
  <2>1. post = gap /\ b = 0
    BY <1>4, <1>6, <1>7, <1>12, PostGapIs DEF SlotBefore
  <2>2. Len(L) = 0
    BY <1>1, <1>12 DEF Filled, Lead
  <2>3. QED  BY <1>1, <1>4, <1>5, <1>6, <1>9, <1>12, <2>1, <2>2 DEF PutBehind
<1>13. QED  BY <1>10, <1>11, <1>12

OthersSame(f, i, c, img, slot, jmg, tlot) ==
  \A k \in ChildrenIn(f, i) : k # c => jmg[k] = img[k] /\ tlot[k] = slot[k]

\* And the children of the parent are as they should be.
LEMMA FilledPut ==
  ASSUME NEW f, Parsed(f), NEW c \in DOMAIN f.tree, c # 1, NEW i, i = f.tree[c].parent,
         NEW ns, NEW more, Keeps(ns, more), NEW img, NEW slot \in [DOMAIN f.tree -> Nat],
         NEW L, Filled(f, ns, img, slot, i, L), UpTo(f, img, i, c),
         NEW id, id # 0, NEW M, Put(f, more, c, id, L, M),
         NEW jmg, NEW tlot, jmg[c] = id, tlot[c] = Len(M),
         OthersSame(f, i, c, img, slot, jmg, tlot)
  PROVE  Filled(f, more, jmg, tlot, i, M) /\ UpTo(f, jmg, i, c + 1)
<1>0. \A k \in ChildrenIn(f, i) : k # c => jmg[k] = img[k] /\ tlot[k] = slot[k]
  BY DEF OthersSame
<1>1. /\ Elders(f, c) = ClosedKids(f, img, i)
      /\ PutBehind(f, more, slot, c, L, M)
  BY PlaceOf
<1>2. /\ DOMAIN f.tree = 1..Len(f.tree) /\ Len(f.tree) \in Nat /\ i \in DOMAIN f.tree
      /\ c \in ChildrenIn(f, i) /\ c \in Nat
  BY Trees DEF ChildrenIn
<1>3. /\ IsList(L) /\ Len(L) \in Nat /\ IsList(M) /\ Len(M) \in Nat
      /\ Len(L) < Len(M) /\ (\A t \in 1..Len(L) : M[t] = L[t]) /\ M[Len(M)] = id
  <2>1. IsList(L) /\ Len(L) \in Nat /\ IsList(M) /\ Len(M) \in Nat
    BY Lists DEF Filled, Ordered, Put
  <2>2. Len(M) = Len(L) + 1 \/ Len(M) = Len(L) + 2
    BY DEF Put
  <2>3. QED  BY <2>1, <2>2 DEF Put
<1>4. ClosedKids(f, jmg, i) = Elders(f, c) \cup {c}
  <2>1. \A k \in ChildrenIn(f, i) : k # c => (k \in ClosedKids(f, jmg, i) <=> k \in Elders(f, c))
    BY <1>0, <1>1 DEF ClosedKids
  <2>2. c \in ClosedKids(f, jmg, i)
    BY <1>2 DEF ClosedKids
  <2>3. Elders(f, c) \subseteq ChildrenIn(f, i) /\ ClosedKids(f, jmg, i) \subseteq ChildrenIn(f, i)
    BY DEF Elders, ClosedKids
  <2>4. QED  BY <2>1, <2>2, <2>3
<1>5. ASSUME NEW k \in ChildrenIn(f, i), k \in Elders(f, c) \cup {c}
      PROVE  /\ k \in DOMAIN f.tree /\ k \in Nat /\ k <= c
             /\ SlotBefore(f, tlot, k) = SlotBefore(f, slot, k)
             /\ SlotBefore(f, slot, k) \in Nat
  <2>1. k \in DOMAIN f.tree /\ f.tree[k].parent = i /\ k \in Nat
    BY <1>2 DEF ChildrenIn
  <2>2. k <= c
    BY <1>2, <1>5, <2>1 DEF Elders
  <2>3. PICK e : e = Youngest(Elders(f, k))
    OBVIOUS
  <2>4. Elders(f, k) # {} => e \in Elders(f, k)
    BY <2>1, <2>3, ElderIs
  <2>5. Elders(f, k) # {} => e \in ChildrenIn(f, i) /\ e # c
    <3>1. SUFFICES ASSUME Elders(f, k) # {} PROVE e \in ChildrenIn(f, i) /\ e # c
      OBVIOUS
    <3>2. e \in ChildrenIn(f, i) /\ e < k
      BY <2>1, <2>4, <3>1 DEF Elders
    <3>3. e \in Nat
      BY <1>2, <3>2 DEF ChildrenIn
    <3>4. QED  BY <1>2, <2>1, <2>2, <3>2, <3>3
  <2>6. Elders(f, k) # {} => tlot[e] = slot[e]
    BY <1>0, <2>5
  <2>7. SlotBefore(f, slot, k) \in Nat
    BY <2>1, BeforeIsNat
  <2>8. QED  BY <2>1, <2>2, <2>3, <2>6, <2>7 DEF SlotBefore
<1>6. Elders(f, c) \subseteq ChildrenIn(f, i) /\ c \notin Elders(f, c)
  <2>1. \A k \in Elders(f, c) : k < c /\ k \in ChildrenIn(f, i)
    BY DEF Elders
  <2>2. ~(c < c)
    BY <1>2
  <2>3. QED  BY <2>1, <2>2
<1>7. ASSUME NEW k \in Elders(f, c)
      PROVE  /\ Placed(f, ns, img, slot, L, k) /\ Placed(f, more, jmg, tlot, M, k)
             /\ tlot[k] = slot[k] /\ tlot[k] \in Nat /\ tlot[k] < Len(M)
  <2>1. k \in ChildrenIn(f, i) /\ k # c
    BY <1>6
  <2>2. Placed(f, ns, img, slot, L, k)
    BY <1>1 DEF Filled, Ordered
  <2>3. jmg[k] = img[k] /\ tlot[k] = slot[k]
    BY <1>0, <2>1
  <2>4. SlotBefore(f, tlot, k) = SlotBefore(f, slot, k) /\ SlotBefore(f, slot, k) \in Nat
    BY <1>5, <2>1
  <2>5. Placed(f, more, jmg, tlot, M, k)
    <3>1. Len(L) <= Len(M)
      BY <1>3
    <3>2. SlotBefore(f, slot, k) = SlotBefore(f, tlot, k) /\ img[k] = jmg[k] /\ slot[k] = tlot[k]
      BY <2>3, <2>4
    <3>3. QED  BY <1>3, <2>2, <2>4, <3>1, <3>2, PlacedStays
  <2>6. slot[k] \in 1..Len(L)
    BY <2>2 DEF Placed
  <2>7. QED  BY <1>3, <2>2, <2>3, <2>5, <2>6
<1>8. Placed(f, more, jmg, tlot, M, c)
  <2>1. SlotBefore(f, tlot, c) = SlotBefore(f, slot, c)
    BY <1>2, <1>5
  <2>2. Len(M) \in 1..Len(M)
    BY <1>3
  <2>3. QED  BY <1>1, <1>3, <2>1, <2>2 DEF Placed, PutBehind
<1>9. Ordered(f, more, jmg, tlot, i, M)
  <2>1. ASSUME NEW j \in Elders(f, c) \cup {c}, NEW k \in Elders(f, c) \cup {c}, j < k
        PROVE  tlot[j] < tlot[k]
    <3>1. CASE k = c
      <4>1. j \in Elders(f, c)
        BY <1>2, <2>1, <3>1
      <4>2. QED  BY <1>7, <3>1, <4>1
    <3>2. CASE k # c
      <4>1. k \in Elders(f, c) /\ k < c
        BY <3>2 DEF Elders
      <4>2. j \in Elders(f, c)
        <5>1. j # c
          BY <1>2, <1>6, <2>1, <4>1 DEF ChildrenIn
        <5>2. QED  BY <5>1
      <4>3. slot[j] < slot[k]
        BY <1>1, <2>1, <4>1, <4>2 DEF Filled, Ordered
      <4>4. QED  BY <1>7, <4>1, <4>2, <4>3
    <3>3. QED  BY <3>1, <3>2
  <2>2. \A k \in Elders(f, c) \cup {c} : Placed(f, more, jmg, tlot, M, k)
    BY <1>7, <1>8
  <2>3. QED  BY <1>3, <1>4, <2>1, <2>2 DEF Ordered
<1>10. Youngest(ClosedKids(f, jmg, i)) = c
  <2>1. PICK C : C = ClosedKids(f, jmg, i)
    OBVIOUS
  <2>2. C \in SUBSET (0..Len(f.tree)) /\ c \in C
    BY <1>2, <1>4, <1>6, <2>1 DEF ChildrenIn
  <2>3. PICK g : g = Youngest(C)
    OBVIOUS
  <2>4. g \in C /\ \A j \in C : j <= g
    BY <1>2, <2>2, <2>3, YoungestExists
  <2>5. g \in ChildrenIn(f, i) /\ g \in Elders(f, c) \cup {c}
    BY <1>2, <1>4, <1>6, <2>1, <2>4
  <2>6. g <= c /\ c <= g /\ g \in Nat
    BY <1>5, <2>2, <2>4, <2>5
  <2>7. QED  BY <1>2, <2>1, <2>3, <2>6
<1>11. ASSUME NEW t \in 1..Len(M)
       PROVE  \E k \in Elders(f, c) \cup {c} : OfKid(f, tlot, k, t)
  <2>1. PICK b : b = SlotBefore(f, slot, c)
    OBVIOUS
  <2>2. PICK n : n = Len(M)
    OBVIOUS
  <2>3. /\ b \in Nat /\ (GapBefore(f, c) = <<>> => n = b + 1)
        /\ (GapBefore(f, c) # <<>> => n = b + 2)
        /\ (Elders(f, c) # {} => Len(L) = b)
    BY <1>1, <2>1, <2>2 DEF PutBehind
  <2>4. CASE t = n
    BY <2>2, <2>4 DEF OfKid
  <2>5. CASE t = n - 1 /\ GapBefore(f, c) # <<>>
    BY <2>2, <2>5 DEF OfKid
  <2>6. CASE t # n /\ ~(t = n - 1 /\ GapBefore(f, c) # <<>>)
    <3>1. t <= b
      BY <1>3, <2>2, <2>3, <2>6
    <3>2. Elders(f, c) # {}
      <4>1. SUFFICES ASSUME Elders(f, c) = {} PROVE FALSE
        OBVIOUS
      <4>2. b = 0
        BY <2>1, <4>1 DEF SlotBefore
      <4>3. QED  BY <3>1, <4>2
    <3>3. t \in 1..Len(L)
      BY <1>3, <2>3, <3>1, <3>2
    <3>4. PICK k \in Elders(f, c) : OfKid(f, slot, k, t)
      BY <1>1, <3>2, <3>3 DEF Filled, Full
    <3>5. tlot[k] = slot[k]
      BY <1>7
    <3>6. QED  BY <3>4, <3>5 DEF OfKid
  <2>7. QED  BY <2>4, <2>5, <2>6
<1>12. Filled(f, more, jmg, tlot, i, M)
  <2>1. Full(f, jmg, tlot, i, M)
    BY <1>4, <1>10, <1>11 DEF Full
  <2>2. QED  BY <1>4, <1>9, <2>1 DEF Filled
<1>13. UpTo(f, jmg, i, c + 1)
  <2>1. ASSUME NEW k \in ChildrenIn(f, i) PROVE jmg[k] # 0 <=> k < c + 1
    <3>1. k \in Nat
      BY <1>2 DEF ChildrenIn
    <3>2. CASE k = c
      BY <1>2, <3>2
    <3>3. CASE k # c
      <4>1. img[k] # 0 <=> k < c
        BY DEF UpTo
      <4>2. QED  BY <1>0, <1>2, <3>1, <3>3, <4>1
    <3>4. QED  BY <3>2, <3>3
  <2>2. QED  BY <2>1 DEF UpTo
<1>14. QED  BY <1>12, <1>13

-----------------------------------------------------------------------------
\* What is read of the nodes of a path, one by one.
LEMMA PathIs ==
  ASSUME NEW f, Parsed(f), NEW n, NEW P, IsPath(f, P, n)
  PROVE  /\ n \in Nat \ {0} /\ P[1] = 1 /\ n \in 1..n
         /\ \A d \in 1..n : P[d] \in DOMAIN f.tree /\ P[d] \in Nat
         /\ \A d \in 1..n : d # 1 => /\ f.tree[P[d]].parent = P[d - 1]
                                     /\ P[d] # 1 /\ d - 1 \in 1..n
         /\ \A d, e \in 1..n : d < e => P[d] # P[e]
<1>1. /\ n \in Nat \ {0} /\ P[1] = 1
      /\ \A d \in 1..n : P[d] \in DOMAIN f.tree
      /\ \A d \in 1..n : d # 1 => f.tree[P[d]].parent = P[d - 1]
  BY DEF IsPath
<1>2. DOMAIN f.tree = 1..Len(f.tree) /\ Len(f.tree) \in Nat
      /\ f.tree[1].parent \notin DOMAIN f.tree
  BY Trees
<1>3. \A d \in 1..n : P[d] \in Nat
  BY <1>1, <1>2
<1>4. \A d \in 1..n : d # 1 => d - 1 \in 1..n
  BY <1>1
<1>5. \A d \in 1..n : d # 1 => P[d] # 1
  BY <1>1, <1>2, <1>4
<1>6. ASSUME NEW d \in 1..n, NEW e \in 1..n, d < e PROVE P[d] # P[e]
  <2>1. P[d] < P[e]
    BY <1>6, PathGrows
  <2>2. QED  BY <1>3, <2>1
<1>7. n \in 1..n
  BY <1>1
<1>8. QED  BY <1>1, <1>3, <1>4, <1>5, <1>6, <1>7

(* The cursor enters a child of which no earlier sibling is open.          *)
LEMMA ReadingEnters ==
  ASSUME NEW f, Parsed(f), NEW ns, NEW s, NEW P, NEW m, NEW img, NEW slot,
         InReading(f, ns, s, P, m, img, slot),
         NEW i, i \in ChildrenIn(f, P[Len(s)]),
         \A k \in ChildrenIn(f, P[Len(s)]) : k < i <=> k < m,
         NEW t, OneMore(s, t, Fresh(f, i, GapBegin(f, i))),
         NEW Q, \A d \in 1..Len(s) : Q[d] = P[d], Q[Len(t)] = i
  PROVE  InReading(f, ns, t, Q, 0, img, slot)
<1>1. PICK n : n = Len(s)
  OBVIOUS
<1>2. /\ IsPath(f, P, n) /\ m \in Nat
      /\ img \in [DOMAIN f.tree -> Nat] /\ slot \in [DOMAIN f.tree -> Nat]
      /\ Known(f, ns, img, slot, P, n)
      /\ \A d \in 1..(n - 1) : UpTo(f, img, P[d], P[d + 1])
      /\ UpTo(f, img, P[n], m)
      /\ \A d \in 1..n : Filled(f, ns, img, slot, P[d], s[d].children)
      /\ \A d \in 2..n : s[d].padding = GapBegin(f, P[d])
  BY <1>1 DEF InReading
<1>3. /\ n \in Nat \ {0} /\ P[1] = 1 /\ n \in 1..n
      /\ \A d \in 1..n : P[d] \in DOMAIN f.tree /\ P[d] \in Nat
      /\ \A d \in 1..n : d # 1 => /\ f.tree[P[d]].parent = P[d - 1]
                                  /\ P[d] # 1 /\ d - 1 \in 1..n
  BY <1>2, PathIs
<1>4. PICK b : b = Fresh(f, i, GapBegin(f, i))
  OBVIOUS
<1>5. /\ IsList(t) /\ Len(t) = n + 1 /\ (\A d \in 1..n : t[d] = s[d]) /\ t[n + 1] = b
      /\ b.children = <<>> /\ b.padding = GapBegin(f, i)
  BY <1>1, <1>4 DEF OneMore, Fresh
<1>6. /\ i \in DOMAIN f.tree /\ i # 1 /\ f.tree[i].parent = P[n] /\ i \in Nat
  <2>1. P[n] \in DOMAIN f.tree
    BY <1>3
  <2>2. i \in DOMAIN f.tree /\ i # 1 /\ f.tree[i].parent = P[n]
    BY <1>1, <2>1, Kids
  <2>3. QED  BY <2>2, Trees
<1>7. /\ \A d \in 1..n : Q[d] = P[d] /\ d \in 1..(n + 1)
      /\ Q[n + 1] = i /\ n + 1 \in 1..(n + 1) /\ n + 1 # 1 /\ (n + 1) - 1 = n
      /\ \A d \in 1..(n + 1) : d \in 1..n \/ d = n + 1
  BY <1>1, <1>3, <1>5
<1>8. IsPath(f, Q, n + 1)
  <2>1. ASSUME NEW d \in 1..(n + 1) PROVE Q[d] \in DOMAIN f.tree
    BY <1>3, <1>6, <1>7
  <2>2. ASSUME NEW d \in 1..(n + 1), d # 1 PROVE f.tree[Q[d]].parent = Q[d - 1]
    <3>1. CASE d \in 1..n
      <4>1. d - 1 \in 1..n
        BY <1>3, <2>2, <3>1
      <4>2. QED  BY <1>3, <1>7, <2>2, <3>1, <4>1
    <3>2. CASE d = n + 1
      BY <1>3, <1>6, <1>7, <3>2
    <3>3. QED  BY <1>7, <3>1, <3>2
  <2>3. n + 1 \in Nat \ {0} /\ Q[1] = 1
    <3>1. 1 \in 1..n
      BY <1>3
    <3>2. QED  BY <1>3, <1>7, <3>1
  <2>4. QED  BY <2>1, <2>2, <2>3 DEF IsPath
<1>9. UpTo(f, img, P[n], i)
  BY <1>1, <1>2 DEF UpTo
<1>10. img[i] = 0
  <2>1. i \in ChildrenIn(f, P[n])
    BY <1>1
  <2>2. ~(i < i)
    BY <1>6
  <2>3. QED  BY <1>9, <2>1, <2>2 DEF UpTo
<1>11. ASSUME NEW k \in ChildrenIn(f, i) PROVE img[k] = 0
  <2>1. SUFFICES ASSUME img[k] # 0 PROVE FALSE
    OBVIOUS
  <2>2. k \in DOMAIN f.tree /\ f.tree[k].parent = i
    BY DEF ChildrenIn
  <2>3. PICK d \in 1..n : P[d] = i
    BY <1>2, <1>10, <2>1, <2>2 DEF Known
  <2>4. d < n + 1
    BY <1>3
  <2>5. Q[d] # Q[n + 1]
    BY <1>7, <1>8, <2>4, PathIs
  <2>6. QED  BY <1>7, <2>3, <2>5
<1>12. Known(f, ns, img, slot, Q, n + 1)
  <2>1. ASSUME NEW k \in DOMAIN f.tree, \E d \in 1..n : P[d] = f.tree[k].parent
        PROVE  \E d \in 1..(n + 1) : Q[d] = f.tree[k].parent
    <3>1. PICK d \in 1..n : P[d] = f.tree[k].parent
      BY <2>1
    <3>2. d \in 1..(n + 1) /\ Q[d] = f.tree[k].parent
      BY <1>7, <3>1
    <3>3. QED  BY <3>2
  <2>2. QED  BY <1>2, <2>1 DEF Known
<1>13. ASSUME NEW d \in 1..n PROVE UpTo(f, img, Q[d], Q[d + 1])
  <2>1. CASE d = n
    BY <1>7, <1>9, <2>1
  <2>2. CASE d # n
    <3>1. d \in 1..(n - 1) /\ d + 1 \in 1..n
      BY <1>3, <2>2
    <3>2. QED  BY <1>2, <1>7, <3>1
  <2>3. QED  BY <2>1, <2>2
<1>14. UpTo(f, img, Q[n + 1], 0)
  <2>1. ASSUME NEW k \in ChildrenIn(f, i) PROVE ~(k < 0)
    <3>1. k \in Nat
      BY Trees DEF ChildrenIn
    <3>2. QED  BY <3>1
  <2>2. QED  BY <1>7, <1>11, <2>1 DEF UpTo
<1>15. Filled(f, ns, img, slot, i, b.children)
  <2>1. ClosedKids(f, img, i) = {}
    BY <1>11 DEF ClosedKids
  <2>2. PICK e : e = <<>>
    OBVIOUS
  <2>3. IsList(e) /\ Len(e) = 0
    BY <2>2, EmptySeq DEF IsList
  <2>4. Ordered(f, ns, img, slot, i, e)
    BY <2>1, <2>3 DEF Ordered
  <2>5. QED  BY <1>5, <1>6, <2>1, <2>2, <2>3, <2>4 DEF Filled
<1>16. ASSUME NEW d \in 1..(n + 1) PROVE Filled(f, ns, img, slot, Q[d], t[d].children)
  <2>1. CASE d \in 1..n
    BY <1>2, <1>5, <1>7, <2>1
  <2>2. CASE d = n + 1
    BY <1>5, <1>7, <1>15, <2>2
  <2>3. QED  BY <1>7, <2>1, <2>2
<1>17. ASSUME NEW d \in 2..(n + 1) PROVE t[d].padding = GapBegin(f, Q[d])
  <2>1. CASE d \in 1..n
    <3>1. d \in 2..n
      BY <1>3, <2>1
    <3>2. QED  BY <1>2, <1>5, <1>7, <2>1, <3>1
  <2>2. CASE d = n + 1
    BY <1>5, <1>7, <2>2
  <2>3. d \in 1..n \/ d = n + 1
    BY <1>3
  <2>4. QED  BY <2>1, <2>2, <2>3
<1>18. Len(t) - 1 = n /\ Len(t) = n + 1 /\ 0 \in Nat
  BY <1>3, <1>5
<1>19. QED  BY <1>2, <1>5, <1>8, <1>12, <1>13, <1>14, <1>16, <1>17, <1>18 DEF InReading
-----------------------------------------------------------------------------
\* A node that is not the root has only its children.
LEMMA FilledIsLaid ==
  ASSUME NEW f, NEW ns, NEW img, NEW slot, NEW i, i # 1, NEW L, Filled(f, ns, img, slot, i, L)
  PROVE  Laid(f, ns, img, slot, i, L)
<1>1. CASE ClosedKids(f, img, i) # {}
  BY <1>1 DEF Filled, Full, Laid
<1>2. CASE ClosedKids(f, img, i) = {}
  <2>1. Len(L) = 0
    BY <1>2 DEF Filled
  <2>2. \A t \in 1..Len(L) : FALSE
    BY <2>1
  <2>3. QED  BY <2>2 DEF Filled, Laid
<1>3. QED  BY <1>1, <1>2

\* What is put for a node that is closed.
Closes(f, ns, s, c, id, b) ==
  /\ id # 0 /\ Entity(f, ns, c, id)
  /\ ns[id].content.children = s[Len(s)].children
  /\ SameNode(s[Len(s) - 1], b)
  /\ Put(f, ns, c, id, s[Len(s) - 1].children, b.children)

(* The cursor leaves a node all of whose children are closed.              *)
LEMMA ReadingLeaves ==
  ASSUME NEW f, Parsed(f), NEW ns, NEW more, Dag(ns), Dag(more), Keeps(ns, more),
         NEW s, NEW P, NEW m, NEW img, NEW slot, InReading(f, ns, s, P, m, img, slot),
         Len(s) # 1, NEW c, c = P[Len(s)], \A k \in ChildrenIn(f, c) : k < m,
         NEW id, NEW b, Closes(f, more, s, c, id, b), NEW t, OneLess(s, t, b)
  PROVE  \E jmg, tlot : InReading(f, more, t, P, c + 1, jmg, tlot)
<1>1. PICK n : n = Len(s)
  OBVIOUS
<1>2. /\ IsPath(f, P, n) /\ m \in Nat
      /\ img \in [DOMAIN f.tree -> Nat] /\ slot \in [DOMAIN f.tree -> Nat]
      /\ Known(f, ns, img, slot, P, n)
      /\ \A d \in 1..(n - 1) : UpTo(f, img, P[d], P[d + 1])
      /\ UpTo(f, img, P[n], m)
      /\ \A d \in 1..n : Filled(f, ns, img, slot, P[d], s[d].children)
      /\ \A d \in 2..n : s[d].padding = GapBegin(f, P[d])
  BY <1>1 DEF InReading
<1>3. /\ n \in Nat \ {0} /\ P[1] = 1 /\ n \in 1..n
      /\ \A d \in 1..n : P[d] \in DOMAIN f.tree /\ P[d] \in Nat
      /\ \A d \in 1..n : d # 1 => /\ f.tree[P[d]].parent = P[d - 1]
                                  /\ P[d] # 1 /\ d - 1 \in 1..n
      /\ \A d, e \in 1..n : d < e => P[d] # P[e]
  BY <1>2, PathIs
<1>4. PICK l : l = n - 1
  OBVIOUS
<1>5. /\ n # 1 /\ l \in Nat \ {0} /\ l + 1 = n /\ l \in 1..n /\ l \in 1..(n - 1) /\ l # n /\ l < n
      /\ l \in 1..l
      /\ \A d \in 1..l : d \in 1..n /\ (d # l => d < l /\ d \in 1..(l - 1))
      /\ \A d \in 1..n : d \in 1..l \/ d = n
      /\ \A d \in 1..(l - 1) : d + 1 \in 1..n /\ d \in 1..(n - 1) /\ d \in 1..l /\ d # l
  BY <1>1, <1>3, <1>4
<1>6. PICK i : i = P[l]
  OBVIOUS
<1>7. /\ c \in DOMAIN f.tree /\ c \in Nat /\ c # 1 /\ f.tree[c].parent = i /\ c = P[n]
      /\ i \in DOMAIN f.tree /\ i # c /\ c \in ChildrenIn(f, i)
  BY <1>1, <1>3, <1>4, <1>5, <1>6 DEF ChildrenIn
<1>8. PICK M : M = b.children
  OBVIOUS
<1>9. PICK L : L = s[l].children
  OBVIOUS
<1>10. /\ id # 0 /\ Entity(f, more, c, id)
       /\ more[id].content.children = s[n].children
       /\ SameNode(s[l], b) /\ Put(f, more, c, id, L, M)
  BY <1>1, <1>4, <1>8, <1>9 DEF Closes
<1>11. /\ IsList(t) /\ Len(t) = l /\ (\A d \in 1..(l - 1) : t[d] = s[d]) /\ t[l] = b
  BY <1>1, <1>4 DEF OneLess
<1>12. UpTo(f, img, i, c) /\ Filled(f, ns, img, slot, i, L)
  BY <1>2, <1>5, <1>6, <1>7, <1>9
<1>13. img[c] = 0
  <2>1. ~(c < c)
    BY <1>7
  <2>2. QED  BY <1>7, <1>12, <2>1 DEF UpTo
<1>14. id \in Nat /\ Len(M) \in Nat
  <2>1. DOMAIN more = 1..Len(more) /\ Len(more) \in Nat /\ id \in DOMAIN more
    BY <1>10, Lists DEF Dag, Entity
  <2>2. IsList(M)
    BY <1>10 DEF Put
  <2>3. QED  BY <2>1, <2>2, Lists
<1>15. PICK jmg : jmg = [img EXCEPT ![c] = id]
  OBVIOUS
<1>16. PICK tlot : tlot = [slot EXCEPT ![c] = Len(M)]
  OBVIOUS
<1>17. /\ jmg \in [DOMAIN f.tree -> Nat] /\ tlot \in [DOMAIN f.tree -> Nat]
       /\ jmg[c] = id /\ tlot[c] = Len(M)
       /\ \A k \in DOMAIN f.tree : k # c => jmg[k] = img[k] /\ tlot[k] = slot[k]
  BY <1>2, <1>7, <1>14, <1>15, <1>16
<1>18. ASSUME NEW j, j # i PROVE SameKids(f, j, img, slot, jmg, tlot)
  <2>1. \A k \in ChildrenIn(f, j) : k \in DOMAIN f.tree /\ k # c
    BY <1>7, <1>18 DEF ChildrenIn
  <2>2. QED  BY <1>17, <2>1 DEF SameKids
<1>19. Filled(f, more, jmg, tlot, i, M) /\ UpTo(f, jmg, i, c + 1)
  <2>1. OthersSame(f, i, c, img, slot, jmg, tlot)
    BY <1>17 DEF ChildrenIn, OthersSame
  <2>2. slot \in [DOMAIN f.tree -> Nat]
    BY <1>2
  <2>3. c \in DOMAIN f.tree /\ c # 1 /\ i = f.tree[c].parent /\ id # 0
        /\ Filled(f, ns, img, slot, i, L) /\ UpTo(f, img, i, c) /\ Put(f, more, c, id, L, M)
    BY <1>7, <1>10, <1>12
  <2>4. jmg[c] = id /\ tlot[c] = Len(M)
    BY <1>17
  <2>5. QED  BY <2>1, <2>2, <2>3, <2>4, FilledPut
<1>20. Read(f, more, jmg, tlot, c)
  <2>1. Filled(f, ns, img, slot, c, s[n].children)
    BY <1>2, <1>3, <1>7
  <2>2. SameKids(f, c, img, slot, jmg, tlot)
    BY <1>7, <1>18
  <2>3. PICK K : K = s[n].children
    OBVIOUS
  <2>4. Filled(f, more, jmg, tlot, c, K)
    <3>1. slot \in [DOMAIN f.tree -> Nat] /\ Filled(f, ns, img, slot, c, K)
      BY <1>2, <2>1, <2>3
    <3>2. QED  BY <2>2, <3>1, FilledStays
  <2>5. Laid(f, more, jmg, tlot, c, K)
    BY <1>7, <2>4, FilledIsLaid
  <2>6. ASSUME NEW k \in ChildrenIn(f, c) PROVE jmg[k] # 0
    <3>1. UpTo(f, img, c, m) /\ k < m
      BY <1>2, <1>7
    <3>2. img[k] # 0
      BY <3>1 DEF UpTo
    <3>3. QED  BY <2>2, <3>2 DEF SameKids
  <2>7. QED  BY <1>7, <1>10, <1>17, <2>3, <2>5, <2>6 DEF Read
<1>21. ASSUME NEW k \in DOMAIN f.tree, k # c, jmg[k] # 0
       PROVE  /\ Read(f, more, jmg, tlot, k)
              /\ jmg[f.tree[k].parent] # 0 \/ \E d \in 1..l : P[d] = f.tree[k].parent
  <2>1. img[k] # 0 /\ jmg[k] = img[k]
    BY <1>17, <1>21
  <2>2. /\ Read(f, ns, img, slot, k)
        /\ img[f.tree[k].parent] # 0 \/ \E d \in 1..n : P[d] = f.tree[k].parent
    BY <1>2, <2>1 DEF Known
  <2>3. k # i
    BY <1>7, <1>13, <2>2 DEF Read
  <2>4. Read(f, more, jmg, tlot, k)
    <3>1. SameKids(f, k, img, slot, jmg, tlot)
      BY <1>18, <2>3
    <3>2. QED  BY <1>2, <2>1, <2>2, <3>1, ReadStays
  <2>5. PICK p : p = f.tree[k].parent
    OBVIOUS
  <2>6. p \in DOMAIN f.tree
    BY <2>2, <2>5, Trees DEF Read
  <2>7. img[p] # 0 => jmg[p] # 0
    BY <1>10, <1>17, <2>6
  <2>8. ASSUME NEW d \in 1..n, P[d] = p PROVE jmg[p] # 0 \/ \E e \in 1..l : P[e] = p
    <3>1. CASE d \in 1..l
      BY <2>8, <3>1
    <3>2. CASE d = n
      BY <1>7, <1>10, <1>17, <2>8, <3>2
    <3>3. QED  BY <1>5, <3>1, <3>2
  <2>9. QED  BY <2>2, <2>4, <2>5, <2>7, <2>8
<1>22. Known(f, more, jmg, tlot, P, l)
  <2>1. P[l] = f.tree[c].parent
    BY <1>6, <1>7
  <2>2. QED  BY <1>5, <1>20, <1>21, <2>1 DEF Known
<1>23. ASSUME NEW d \in 1..(l - 1)
       PROVE  /\ UpTo(f, jmg, P[d], P[d + 1])
              /\ Filled(f, more, jmg, tlot, P[d], t[d].children)
  <2>1. P[d] # i
    BY <1>3, <1>5, <1>6
  <2>2. SameKids(f, P[d], img, slot, jmg, tlot)
    BY <1>18, <2>1
  <2>3. UpTo(f, img, P[d], P[d + 1])
    BY <1>2, <1>5
  <2>4. Filled(f, ns, img, slot, P[d], s[d].children)
    BY <1>2, <1>5
  <2>5. PICK j : j = P[d]
    OBVIOUS
  <2>6. PICK K : K = s[d].children
    OBVIOUS
  <2>7. Filled(f, more, jmg, tlot, j, K)
    <3>1. /\ slot \in [DOMAIN f.tree -> Nat] /\ SameKids(f, j, img, slot, jmg, tlot)
          /\ Filled(f, ns, img, slot, j, K)
      BY <1>2, <2>2, <2>4, <2>5, <2>6
    <3>2. QED  BY <3>1, FilledStays
  <2>8. UpTo(f, jmg, P[d], P[d + 1])
    BY <2>2, <2>3 DEF UpTo, SameKids
  <2>9. QED  BY <1>11, <2>5, <2>6, <2>7, <2>8
<1>24. ASSUME NEW d \in 1..l PROVE Filled(f, more, jmg, tlot, P[d], t[d].children)
  <2>1. CASE d = l
    BY <1>6, <1>8, <1>11, <1>19, <2>1
  <2>2. CASE d # l
    BY <1>5, <1>23, <2>2
  <2>3. QED  BY <2>1, <2>2
<1>25. ASSUME NEW d \in 2..l PROVE t[d].padding = GapBegin(f, P[d])
  <2>1. d \in 1..l /\ d \in 2..n
    BY <1>5
  <2>2. s[d].padding = GapBegin(f, P[d])
    BY <1>2, <2>1
  <2>3. CASE d = l
    BY <1>10, <1>11, <2>2, <2>3 DEF SameNode
  <2>4. CASE d # l
    BY <1>5, <1>11, <2>1, <2>2, <2>4
  <2>5. QED  BY <2>3, <2>4
<1>26. IsPath(f, P, l)
  <2>1. \A d \in 1..l : P[d] \in DOMAIN f.tree /\ (d # 1 => f.tree[P[d]].parent = P[d - 1])
    BY <1>3, <1>5
  <2>2. QED  BY <1>3, <1>5, <2>1 DEF IsPath
<1>27. UpTo(f, jmg, P[l], c + 1) /\ c + 1 \in Nat
  BY <1>6, <1>7, <1>19
<1>28. InReading(f, more, t, P, c + 1, jmg, tlot)
  BY <1>11, <1>17, <1>22, <1>23, <1>24, <1>25, <1>26, <1>27 DEF InReading
<1>29. QED  BY <1>28

-----------------------------------------------------------------------------
(* The store never holds a content twice.                                  *)
LEMMA InternDistinct ==
  ASSUME NEW ns, IsList(ns), Distinct(ns), NEW c, NEW bl, NEW sx,
         NEW r, r = Intern(ns, c, bl, sx)
  PROVE  IsList(r.nodes) /\ Distinct(r.nodes)
<1>1. PICK known : known = {i \in DOMAIN ns : ns[i].content = c}
  OBVIOUS
<1>2. PICK e : e = [content |-> c, syntax |-> sx, bytesLen |-> bl]
  OBVIOUS
<1>3. e.content = c
  BY <1>2
<1>4. CASE known # {}
  <2>1. r = [nodes |-> ns, id |-> First(known), hit |-> TRUE]
    BY <1>1, <1>4 DEF Intern
  <2>2. QED  BY <2>1
<1>5. CASE known = {}
  <2>1. PICK more : more = Append(ns, e)
    OBVIOUS
  <2>2. r = [nodes |-> more, id |-> Len(ns) + 1, hit |-> FALSE]
    BY <1>1, <1>2, <1>5, <2>1 DEF Intern
  <2>3. /\ IsList(more) /\ DOMAIN more = 1..(Len(ns) + 1)
        /\ \A i \in DOMAIN ns : more[i] = ns[i]
        /\ more[Len(ns) + 1] = e
    BY <2>1, ListAppends
  <2>4. Len(ns) \in Nat /\ DOMAIN ns = 1..Len(ns)
    BY Lists
  <2>5. \A i \in DOMAIN more : i \in DOMAIN ns \/ i = Len(ns) + 1
    BY <2>3, <2>4
  <2>6. \A i \in DOMAIN ns : more[i].content # c
    BY <1>1, <1>5, <2>3
  <2>7. Distinct(more)
    <3>1. SUFFICES ASSUME NEW i \in DOMAIN more, NEW j \in DOMAIN more,
                          more[i].content = more[j].content
                   PROVE  i = j
      BY DEF Distinct
    <3>2. CASE i \in DOMAIN ns /\ j \in DOMAIN ns
      BY <2>3, <3>1, <3>2 DEF Distinct
    <3>3. CASE i \notin DOMAIN ns \/ j \notin DOMAIN ns
      BY <1>3, <2>3, <2>5, <2>6, <3>1, <3>3
    <3>4. QED  BY <3>2, <3>3
  <2>8. QED  BY <2>2, <2>3, <2>7
<1>6. QED  BY <1>4, <1>5

\* So after handle_spacing and make.
LEMMA AnswersDistinct ==
  ASSUME NEW ns, IsList(ns), Distinct(ns), NEW a
  PROVE  /\ \A from, to : LET h == HandleSpacing(ns, a, from, to)
                          IN  IsList(h.nodes) /\ Distinct(h.nodes)
         /\ IsList(Make(ns, a).nodes) /\ Distinct(Make(ns, a).nodes)
<1>1. ASSUME NEW from, NEW to, NEW h, h = HandleSpacing(ns, a, from, to)
      PROVE  IsList(h.nodes) /\ Distinct(h.nodes)
  <2>1. PICK gap : gap = Gap(from, to)
    OBVIOUS
  <2>2. PICK c : c = BlankContent(gap)
    OBVIOUS
  <2>3. PICK m : m = SpacesMetrics(gap)
    OBVIOUS
  <2>4. PICK bl : bl = SpacesLen(gap)
    OBVIOUS
  <2>5. PICK sx : sx = m.syntax
    OBVIOUS
  <2>6. PICK put : put = Intern(ns, c, bl, sx)
    OBVIOUS
  <2>7. CASE from = to \/ ~IsBlank(gap)
    <3>1. h = [nodes |-> ns, parent |-> a, ok |-> from = to \/ file.lang = Xml]
      BY <1>1, <2>1, <2>7 DEF HandleSpacing
    <3>2. QED  BY <3>1
  <2>8. CASE ~(from = to \/ ~IsBlank(gap))
    <3>1. h = [nodes |-> put.nodes, parent |-> Push(a, put.id, m), ok |-> TRUE]
      BY <1>1, <2>1, <2>2, <2>3, <2>4, <2>5, <2>6, <2>8 DEF HandleSpacing
    <3>2. IsList(put.nodes) /\ Distinct(put.nodes)
      BY <2>6, InternDistinct
    <3>3. QED  BY <3>1, <3>2
  <2>9. QED  BY <2>7, <2>8
<1>2. IsList(Make(ns, a).nodes) /\ Distinct(Make(ns, a).nodes)
  <2>1. PICK c : c = Content(a)
    OBVIOUS
  <2>2. PICK bl : bl = NodeLen(a)
    OBVIOUS
  <2>3. PICK sx : sx = NodeMetrics(a.kind, a.label, a.metrics).syntax
    OBVIOUS
  <2>4. PICK put : put = Intern(ns, c, bl, sx)
    OBVIOUS
  <2>5. Make(ns, a).nodes = put.nodes
    BY <2>1, <2>2, <2>3, <2>4 DEF Make
  <2>6. QED  BY <2>4, <2>5, InternDistinct
<1>3. QED  BY <1>1, <1>2
-----------------------------------------------------------------------------
\* A child that is pushed is the last.
LEMMA PushList ==
  ASSUME NEW ns, NEW a, AccGood(ns, a), NEW id, NEW m
  PROVE  Push(a, id, m).children = Append(a.children, id) /\ SameNode(a, Push(a, id, m))
<1>1. PICK b : b = [a EXCEPT !.children = Append(@, id), !.metrics = AccMetrics(@, m)]
  OBVIOUS
<1>2. DOMAIN a = {"kind", "label", "children", "start", "end", "padding", "metrics"}
  BY DEF AccGood
<1>3. b.children = Append(a.children, id) /\ SameNode(a, b)
  BY <1>1, <1>2 DEF SameNode
<1>4. QED  BY <1>1, <1>3 DEF Push

\* What handle_spacing puts of a gap that is kept.
SpacePut(ns, a, gap, h) ==
  /\ gap = <<>> => h.nodes = ns /\ h.parent = a
  /\ gap # <<>> => \E id : /\ IsGap(h.nodes, id, gap)
                           /\ h.parent.children = Append(a.children, id)

\* handle_spacing puts that.
LEMMA SpacePuts ==
  ASSUME NEW ns, Dag(ns), file.text \in Seq(Byte), NEW to \in 0..Len(file.text),
         NEW from \in 0..to, NEW a, AccGood(ns, a),
         NEW h, h = HandleSpacing(ns, a, from, to)
  PROVE  SpacePut(ns, a, KeptGap(file, from, to), h)
<1>1. PICK gap : gap = Gap(from, to)
  OBVIOUS
<1>2. PICK kept : kept = KeptGap(file, from, to)
  OBVIOUS
<1>3. /\ kept = IF IsBlank(gap) THEN gap ELSE <<>>
      /\ kept # <<>> <=> from # to /\ IsBlank(gap)
  <2>1. PICK f : f = file
    OBVIOUS
  <2>2. PICK n : n = Len(file.text)
    OBVIOUS
  <2>3. n \in Nat
    BY <2>2, LenProperties
  <2>4. from \in Nat /\ to \in Nat /\ from <= to
    BY <2>2, <2>3
  <2>5. KeptGap(f, from, to) = IF IsBlank(Gap(from, to)) THEN Gap(from, to) ELSE <<>>
    BY <2>1, KeptGapIs
  <2>6. KeptGap(f, from, to) # <<>> <=> from # to /\ IsBlank(Gap(from, to))
    BY <2>1, <2>4, GapIsNone
  <2>7. QED  BY <1>1, <1>2, <2>1, <2>5, <2>6
<1>4. CASE from = to \/ ~IsBlank(gap)
  <2>1. h = [nodes |-> ns, parent |-> a, ok |-> from = to \/ file.lang = Xml]
    BY <1>1, <1>4 DEF HandleSpacing
  <2>2. h.nodes = ns /\ h.parent = a /\ kept = <<>>
    BY <1>3, <1>4, <2>1
  <2>3. QED  BY <1>2, <2>2 DEF SpacePut
<1>5. CASE from # to /\ IsBlank(gap)
  <2>1. PICK c : c = BlankContent(gap)
    OBVIOUS
  <2>2. PICK m : m = SpacesMetrics(gap)
    OBVIOUS
  <2>3. PICK bl : bl = SpacesLen(gap)
    OBVIOUS
  <2>4. PICK sx : sx = m.syntax
    OBVIOUS
  <2>5. PICK put : put = Intern(ns, c, bl, sx)
    OBVIOUS
  <2>6. h = [nodes |-> put.nodes, parent |-> Push(a, put.id, m), ok |-> TRUE]
    BY <1>1, <1>5, <2>1, <2>2, <2>3, <2>4, <2>5 DEF HandleSpacing
  <2>7. h.nodes = put.nodes /\ h.parent = Push(a, put.id, m)
    BY <2>6
  <2>8. gap \in Seq(Byte)
    <3>1. PICK text : text = file.text
      OBVIOUS
    <3>2. text \in Seq(Byte) /\ to \in 0..Len(text) /\ IsBlank(Gap(from, to))
      BY <1>1, <1>5, <3>1
    <3>3. QED  BY <1>1, <3>1, <3>2, GapIs
  <2>9. c.kind = SpacesKind /\ c.children = <<>> /\ c.blank = gap
    BY <2>1 DEF BlankContent
  <2>10. ContentOK(c, Len(ns))
    BY <2>8, <2>9, EmptySeq DEF ContentOK
  <2>11. put.id \in DOMAIN put.nodes /\ put.nodes[put.id].content = c
    <3>1. /\ Dag(put.nodes) /\ Keeps(ns, put.nodes)
          /\ put.id \in DOMAIN put.nodes /\ put.nodes[put.id].content = c
          /\ put.hit \in BOOLEAN /\ (put.hit => put.nodes = ns)
          /\ ~put.hit =>
               /\ put.id \notin DOMAIN ns /\ DOMAIN put.nodes = DOMAIN ns \cup {put.id}
               /\ put.nodes[put.id] = [content |-> c, syntax |-> sx, bytesLen |-> bl]
      BY <2>5, <2>10, InternIs
    <3>2. QED  BY <3>1
  <2>12. kept = gap
    BY <1>3, <1>5
  <2>13. IsGap(h.nodes, put.id, kept)
    BY <2>1, <2>7, <2>11, <2>12 DEF IsGap
  <2>14. h.parent.children = Append(a.children, put.id)
    BY <2>7, PushList
  <2>15. kept # <<>>
    BY <1>3, <1>5
  <2>16. QED  BY <1>2, <2>13, <2>14, <2>15 DEF SpacePut
<1>6. QED  BY <1>4, <1>5

\* The entity that make answers has the content of its accumulator.
LEMMA MakeId ==
  ASSUME NEW ns, Dag(ns), NEW a, ContentOK(Content(a), Len(ns)), NEW r, r = Make(ns, a)
  PROVE  /\ Dag(r.nodes) /\ Keeps(ns, r.nodes)
         /\ r.id \in DOMAIN r.nodes /\ r.nodes[r.id].content = Content(a)
<1>1. PICK c : c = Content(a)
  OBVIOUS
<1>2. PICK bl : bl = NodeLen(a)
  OBVIOUS
<1>3. PICK sx : sx = NodeMetrics(a.kind, a.label, a.metrics).syntax
  OBVIOUS
<1>4. PICK put : put = Intern(ns, c, bl, sx)
  OBVIOUS
<1>5. r.nodes = put.nodes /\ r.id = put.id
  BY <1>1, <1>2, <1>3, <1>4 DEF Make
<1>6. ContentOK(c, Len(ns))
  BY <1>1
<1>7. /\ Dag(put.nodes) /\ Keeps(ns, put.nodes)
      /\ put.id \in DOMAIN put.nodes /\ put.nodes[put.id].content = c
  <2>1. /\ Dag(put.nodes) /\ Keeps(ns, put.nodes)
        /\ put.id \in DOMAIN put.nodes /\ put.nodes[put.id].content = c
        /\ put.hit \in BOOLEAN /\ (put.hit => put.nodes = ns)
        /\ ~put.hit =>
             /\ put.id \notin DOMAIN ns /\ DOMAIN put.nodes = DOMAIN ns \cup {put.id}
             /\ put.nodes[put.id] = [content |-> c, syntax |-> sx, bytesLen |-> bl]
    BY <1>4, <1>6, InternIs
  <2>2. QED  BY <2>1
<1>8. PICK more : more = put.nodes
  OBVIOUS
<1>9. PICK id : id = put.id
  OBVIOUS
<1>10. Dag(more) /\ Keeps(ns, more) /\ id \in DOMAIN more /\ more[id].content = c
  BY <1>7, <1>8, <1>9
<1>11. QED  BY <1>1, <1>5, <1>8, <1>9, <1>10

\* A content stays one in a larger store, with the same text.
LEMMA ContentStays ==
  ASSUME NEW ns, NEW more, Dag(ns), Dag(more), Keeps(ns, more), NEW c, ContentOK(c, Len(ns))
  PROVE  ContentOK(c, Len(more)) /\ TextWith(Texts(more), c) = TextWith(Texts(ns), c)
<1>1. TextWith(Texts(more), c) = TextWith(Texts(ns), c)
  BY WithMore
<1>2. /\ Len(ns) \in Nat /\ DOMAIN ns = 1..Len(ns)
      /\ Len(more) \in Nat /\ DOMAIN more = 1..Len(more)
  BY Lists DEF Dag
<1>3. Len(ns) <= Len(more)
  <2>1. CASE Len(ns) = 0
    BY <1>2, <2>1
  <2>2. CASE Len(ns) # 0
    <3>1. Len(ns) \in DOMAIN ns
      BY <1>2, <2>2
    <3>2. Len(ns) \in DOMAIN more
      BY <3>1 DEF Keeps
    <3>3. QED  BY <1>2, <3>2
  <2>3. QED  BY <2>1, <2>2
<1>4. ContentOK(c, Len(more))
  BY <1>2, <1>3, ContentLater
<1>5. QED  BY <1>1, <1>4

-----------------------------------------------------------------------------
\* The gap, if there is one, and the node, behind the children.
LEMMA PutOf ==
  ASSUME NEW f, NEW ns, NEW c, NEW id, NEW L, IsList(L), NEW K, NEW gap,
         gap = PostGap(f, c), gap = <<>> => K = L,
         gap # <<>> => \E g : K = Append(L, g) /\ IsGap(ns, g, gap),
         NEW M, M = Append(K, id)
  PROVE  Put(f, ns, c, id, L, M)
<1>1. Len(L) \in Nat /\ DOMAIN L = 1..Len(L)
  BY Lists
<1>2. CASE gap = <<>>
  <2>1. K = L
    BY <1>2
  <2>2. /\ IsList(M) /\ Len(M) = Len(L) + 1
        /\ (\A i \in DOMAIN L : M[i] = L[i]) /\ M[Len(L) + 1] = id
    BY <2>1, ListAppends
  <2>3. QED  BY <1>1, <1>2, <2>2 DEF Put
<1>3. CASE gap # <<>>
  <2>1. PICK g : K = Append(L, g) /\ IsGap(ns, g, gap)
    BY <1>3
  <2>2. /\ IsList(K) /\ Len(K) = Len(L) + 1 /\ DOMAIN K = 1..(Len(L) + 1)
        /\ (\A i \in DOMAIN L : K[i] = L[i]) /\ K[Len(L) + 1] = g
    BY <2>1, ListAppends
  <2>3. /\ IsList(M) /\ Len(M) = Len(K) + 1
        /\ (\A i \in DOMAIN K : M[i] = K[i]) /\ M[Len(K) + 1] = id
    BY <2>2, ListAppends
  <2>4. /\ Len(M) = Len(L) + 2 /\ M[Len(M)] = id /\ Len(L) + 1 \in DOMAIN K
        /\ \A i \in DOMAIN L : i \in DOMAIN K
    BY <1>1, <2>2, <2>3
  <2>5. M[Len(L) + 1] = g /\ \A t \in 1..Len(L) : M[t] = L[t]
    BY <1>1, <2>2, <2>3, <2>4
  <2>6. QED  BY <1>3, <2>1, <2>3, <2>4, <2>5 DEF Put
<1>4. QED  BY <1>2, <1>3

(* A whole file is read: all of its nodes are closed, its root is made.    *)
LEMMA ReadingEnds ==
  ASSUME NEW f, Parsed(f), HasNodes(f), NEW ns, NEW more, Dag(ns), Dag(more), Keeps(ns, more),
         NEW s, NEW P, NEW m, NEW img, NEW slot, InReading(f, ns, s, P, m, img, slot),
         Len(s) = 1, \A k \in ChildrenIn(f, 1) : k < m,
         NEW id, id # 0, Entity(f, more, 1, id),
         NEW L, L = s[1].children, NEW M, M = more[id].content.children,
         LastGap(f) = <<>> => M = L,
         LastGap(f) # <<>> =>
           \E g : M = Append(L, g) /\ IsGap(more, g, LastGap(f))
  PROVE  \E jmg, tlot : tlot \in [DOMAIN f.tree -> Nat] /\ Reading(f, more, id, jmg, tlot)
<1>1. /\ IsPath(f, P, 1) /\ m \in Nat
      /\ img \in [DOMAIN f.tree -> Nat] /\ slot \in [DOMAIN f.tree -> Nat]
      /\ Known(f, ns, img, slot, P, 1) /\ UpTo(f, img, P[1], m)
      /\ \A d \in 1..1 : Filled(f, ns, img, slot, P[d], s[d].children)
  BY DEF InReading
<1>2. UpTo(f, img, 1, m) /\ Filled(f, ns, img, slot, 1, L)
  <2>1. P[1] = 1 /\ 1 \in 1..1
    BY <1>1 DEF IsPath
  <2>2. QED  BY <1>1, <2>1
<1>3. DOMAIN f.tree = 1..Len(f.tree) /\ Len(f.tree) \in Nat /\ 1 \in DOMAIN f.tree
  BY Trees
<1>4. \A k \in ChildrenIn(f, 1) : img[k] # 0
  BY <1>2 DEF UpTo
<1>5. \A i \in DOMAIN f.tree : i # 1 => img[i] # 0
  <2> DEFINE T == {n \in Nat : \A i \in DOMAIN f.tree : i # 1 /\ i <= n => img[i] # 0}
  <2>1. 0 \in T
    BY <1>3
  <2>2. ASSUME NEW n \in Nat, n \in T PROVE n + 1 \in T
    <3>1. ASSUME NEW i \in DOMAIN f.tree, i # 1, i = n + 1 PROVE img[i] # 0
      <4>1. PICK p : p = f.tree[i].parent
        OBVIOUS
      <4>2. p \in DOMAIN f.tree /\ p < i /\ i \in ChildrenIn(f, p)
        BY <3>1, <4>1, Trees DEF ChildrenIn
      <4>3. CASE p = 1
        BY <1>4, <4>2, <4>3
      <4>4. CASE p # 1
        <5>1. p <= n
          BY <1>3, <3>1, <4>2
        <5>2. img[p] # 0
          BY <2>2, <4>2, <4>4, <5>1
        <5>3. Read(f, ns, img, slot, p)
          BY <1>1, <4>2, <5>2 DEF Known
        <5>4. QED  BY <4>2, <5>3 DEF Read
      <4>5. QED  BY <4>3, <4>4
    <3>2. \A i \in DOMAIN f.tree : i <= n + 1 => i <= n \/ i = n + 1
      BY <1>3
    <3>3. QED  BY <2>2, <3>1, <3>2
  <2>3. Nat \subseteq T
    <3> HIDE DEF T
    <3>1. QED  BY <2>1, <2>2, Induction
  <2>4. QED  BY <1>3, <2>3
<1>6. PICK jmg : jmg = [img EXCEPT ![1] = id]
  OBVIOUS
<1>7. jmg[1] = id /\ \A k \in DOMAIN f.tree : k # 1 => jmg[k] = img[k]
  BY <1>1, <1>3, <1>6
<1>8. ASSUME NEW i \in DOMAIN f.tree PROVE SameKids(f, i, img, slot, jmg, slot)
  <2>1. ASSUME NEW k \in ChildrenIn(f, i) PROVE img[k] = jmg[k]
    <3>1. k \in DOMAIN f.tree /\ k # 1
      BY Kids
    <3>2. QED  BY <1>7, <3>1
  <2>2. QED  BY <2>1 DEF SameKids
<1>9. ASSUME NEW k \in DOMAIN f.tree, k # 1 PROVE Read(f, more, jmg, slot, k)
  <2>1. Read(f, ns, img, slot, k)
    BY <1>1, <1>5, <1>9 DEF Known
  <2>2. img[k] = jmg[k] /\ SameKids(f, k, img, slot, jmg, slot)
    BY <1>7, <1>8, <1>9
  <2>3. slot \in [DOMAIN f.tree -> Nat]
    BY <1>1
  <2>4. QED  BY <2>1, <2>2, <2>3, ReadStays
<1>10. PICK last : last = slot[Youngest(ChildrenIn(f, 1))]
  OBVIOUS
<1>11. ClosedKids(f, img, 1) = ChildrenIn(f, 1) /\ ChildrenIn(f, 1) # {}
  BY <1>4 DEF ClosedKids, HasNodes
<1>12. /\ Ordered(f, ns, img, slot, 1, L) /\ Len(L) = last
       /\ \A t \in 1..Len(L) : \E k \in ChildrenIn(f, 1) : OfKid(f, slot, k, t)
  BY <1>2, <1>10, <1>11 DEF Filled, Full
<1>13. IsList(L) /\ Len(L) \in Nat /\ DOMAIN L = 1..Len(L)
  BY <1>12, Lists DEF Ordered
<1>14. /\ IsList(M) /\ Len(M) \in Nat /\ Len(L) <= Len(M) /\ (\A t \in 1..Len(L) : M[t] = L[t])
       /\ \A t \in 1..Len(M) : t \in 1..Len(L) \/ t = last + 1
       /\ LastGap(f) = <<>> => Len(M) = last
       /\ LastGap(f) # <<>> => Len(M) = last + 1 /\ IsGap(more, M[last + 1], LastGap(f))
  <2>1. CASE LastGap(f) = <<>>
    <3>1. M = L
      BY <2>1
    <3>2. QED  BY <1>12, <1>13, <2>1, <3>1
  <2>2. CASE LastGap(f) # <<>>
    <3>1. PICK g : M = Append(L, g) /\ IsGap(more, g, LastGap(f))
      BY <2>2
    <3>2. /\ IsList(M) /\ Len(M) = Len(L) + 1
          /\ (\A i \in DOMAIN L : M[i] = L[i]) /\ M[Len(L) + 1] = g
      BY <1>13, <3>1, ListAppends
    <3>3. Len(M) \in Nat /\ Len(L) <= Len(M)
          /\ \A t \in 1..Len(M) : t \in 1..Len(L) \/ t = Len(L) + 1
      BY <1>13, <3>2
    <3>4. QED  BY <1>12, <1>13, <2>2, <3>1, <3>2, <3>3
  <2>3. QED  BY <2>1, <2>2
<1>15. ClosedKids(f, jmg, 1) = ChildrenIn(f, 1)
  <2>1. SameKids(f, 1, img, slot, jmg, slot)
    BY <1>3, <1>8
  <2>2. ClosedKids(f, img, 1) = ClosedKids(f, jmg, 1)
    BY <2>1 DEF ClosedKids, SameKids
  <2>3. QED  BY <1>11, <2>2
<1>16. ASSUME NEW k \in ChildrenIn(f, 1) PROVE Placed(f, more, jmg, slot, M, k)
  <2>1. Placed(f, ns, img, slot, L, k)
    BY <1>11, <1>12, <1>16 DEF Ordered
  <2>2. k \in DOMAIN f.tree
    BY <1>16 DEF ChildrenIn
  <2>3. SlotBefore(f, slot, k) \in Nat
    BY <1>1, <2>2, BeforeIsNat
  <2>4. img[k] = jmg[k] /\ slot[k] = slot[k] /\ SlotBefore(f, slot, k) = SlotBefore(f, slot, k)
    BY <1>3, <1>8, <1>16 DEF SameKids
  <2>5. PICK tlot : tlot = slot
    OBVIOUS
  <2>6. /\ Parsed(f) /\ Keeps(ns, more) /\ img[k] = jmg[k] /\ slot[k] = tlot[k]
        /\ SlotBefore(f, slot, k) = SlotBefore(f, tlot, k)
        /\ Len(L) \in Nat /\ Len(M) \in Nat /\ Len(L) <= Len(M)
        /\ SlotBefore(f, slot, k) \in Nat
        /\ (\A t \in 1..Len(L) : M[t] = L[t]) /\ Placed(f, ns, img, slot, L, k)
    BY <1>13, <1>14, <2>1, <2>3, <2>4, <2>5
  <2>7. Placed(f, more, jmg, tlot, M, k)
    BY ONLY <2>6, PlacedStays
  <2>8. QED  BY <2>5, <2>7
<1>17. Ordered(f, more, jmg, slot, 1, M)
  BY <1>11, <1>12, <1>14, <1>15, <1>16 DEF Ordered
<1>18. \A t \in 1..Len(M) : (\E k \in ChildrenIn(f, 1) : OfKid(f, slot, k, t)) \/ t = last + 1
  BY <1>12, <1>14
<1>19. RootLaid(f, more, jmg, slot, M)
  BY <1>10, <1>14, <1>17, <1>18 DEF RootLaid
<1>20. \A k \in DOMAIN f.tree : jmg[k] # 0
  BY <1>5, <1>7
<1>21. Reading(f, more, id, jmg, slot)
  BY <1>7, <1>9, <1>19, <1>20 DEF Reading
<1>22. QED  BY <1>1, <1>21

-----------------------------------------------------------------------------
(* What post puts of a node that is closed.                                *)
LEMMA PostPuts ==
  ASSUME Parsed(file), Stores(nodes, mdCache, Roots), NEW P, Standing(P),
         Len(stack) # 1, has = Up \/ Children(cursor) = {}, NEW post \in Post,
         Top.padding = GapBegin(file, cursor)
  PROVE  /\ Dag(post.node.nodes) /\ Keeps(nodes, post.node.nodes)
         /\ Closes(file, post.node.nodes, stack, cursor, post.node.id, post.parent)
<1>1. PICK gap, node :
        /\ gap = HandleSpacing(nodes, Parent, Top.padding, Top.start)
        /\ node = Make(gap.nodes, Top)
        /\ post = [node |-> node, ok |-> gap.ok /\ node.ok,
                   parent |-> Push(gap.parent, node.id, node.metrics)]
  BY DEF Post, PostNode, PostSpaces
<1>2. post.node = node /\ post.parent = Push(gap.parent, node.id, node.metrics)
  BY <1>1
<1>3. PICK ns : ns = gap.nodes
  OBVIOUS
<1>4. PICK more : more = node.nodes
  OBVIOUS
<1>5. PICK a : a = Top
  OBVIOUS
<1>6. PICK p : p = Parent
  OBVIOUS
<1>7. PICK n : n = Len(stack)
  OBVIOUS
<1>8. PICK c : c = Content(a)
  OBVIOUS
<1>9. PICK text : text = file.text
  OBVIOUS
<1>10. PICK b : b = gap.parent
  OBVIOUS
<1>11. PICK id : id = node.id
  OBVIOUS
<1>12. /\ n \in Nat \ {0} /\ n # 1 /\ IsList(stack) /\ cursor \in DOMAIN Cst /\ cursor # 1
       /\ a.kind = TypeIn(file, Cst[cursor].kind) /\ a.label = LabelIn(file, cursor)
       /\ a.start = Cst[cursor].start /\ a.end = Cst[cursor].end
       /\ AccGood(nodes, a) /\ a.padding \in Nat /\ a.padding <= a.start
       /\ a.start \in Nat /\ a.end \in Nat /\ a.start <= a.end /\ a.end <= Len(file.text)
  BY <1>5, <1>7, TopIs
<1>13. text \in Seq(Byte) /\ Len(text) \in Nat
  BY <1>9, Trees
<1>14. Dag(nodes)
  BY DEF Stores
<1>15. ContentOK(c, Len(nodes))
  BY <1>5, <1>8, <1>14, TopText
<1>16. n - 1 \in 1..n /\ n \in 1..n
  BY <1>12
<1>17. p = stack[n - 1] /\ a = stack[n]
  BY <1>5, <1>6, <1>7 DEF Parent, Top
<1>18. AccGood(nodes, p)
  BY <1>7, <1>16, <1>17 DEF Standing, Walk, Level
<1>19. PICK from : from = a.padding
  OBVIOUS
<1>20. PICK to : to = a.start
  OBVIOUS
<1>21. /\ to \in 0..Len(text) /\ from \in 0..to
       /\ a.end \in 0..Len(text) /\ to \in 0..a.end
  BY <1>9, <1>12, <1>13, <1>19, <1>20
<1>23. gap = HandleSpacing(nodes, p, from, to)
  BY <1>1, <1>5, <1>6, <1>19, <1>20
<1>24. Dag(ns) /\ Keeps(nodes, ns) /\ AccGood(ns, b) /\ SameNode(p, b)
  <2>1. PICK roots : roots = Roots
    OBVIOUS
  <2>2. /\ Stores(nodes, mdCache, roots) /\ file.text \in Seq(Byte) /\ to \in 0..Len(file.text)
    BY <1>9, <1>13, <1>21, <2>1
  <2>3. Spaced(nodes, p, roots, from, to, gap)
    BY <1>18, <1>21, <1>23, <2>2, SpacingRight
  <2>4. QED  BY <1>3, <1>10, <2>3 DEF Spaced, Stores
<1>25. SpacePut(nodes, p, KeptGap(file, from, to), gap)
  <2>1. file.text \in Seq(Byte) /\ to \in 0..Len(file.text)
    BY <1>9, <1>13, <1>21
  <2>2. QED  BY <1>14, <1>18, <1>21, <1>23, <2>1, SpacePuts
<1>26. ContentOK(c, Len(ns))
  BY <1>14, <1>15, <1>24, ContentStays
<1>27. /\ Dag(more) /\ Keeps(ns, more) /\ id \in DOMAIN more /\ more[id].content = c
  <2>1. Dag(ns) /\ ContentOK(Content(a), Len(ns)) /\ node = Make(ns, a)
    BY <1>1, <1>3, <1>5, <1>8, <1>24, <1>26
  <2>2. /\ Dag(node.nodes) /\ Keeps(ns, node.nodes)
        /\ node.id \in DOMAIN node.nodes /\ node.nodes[node.id].content = Content(a)
    BY <2>1, MakeId
  <2>3. QED  BY <1>4, <1>8, <1>11, <2>2
<1>29. id # 0
  <2>1. DOMAIN more = 1..Len(more) /\ Len(more) \in Nat
    BY <1>27, Lists DEF Dag
  <2>2. QED  BY <1>27, <2>1
<1>30. Entity(file, more, cursor, id) /\ more[id].content.children = a.children
  <2>1. c = [kind |-> a.kind, label |-> a.label, children |-> a.children, blank |-> None]
    BY <1>8 DEF Content
  <2>2. c.children = a.children
    BY <2>1
  <2>3. c = [kind |-> TypeIn(file, file.tree[cursor].kind), label |-> LabelIn(file, cursor),
             children |-> c.children, blank |-> None]
    BY <1>12, <2>1, <2>2 DEF Cst
  <2>4. QED  BY <1>12, <1>27, <2>2, <2>3 DEF Entity
<1>31. post.parent.children = Append(b.children, id) /\ SameNode(b, post.parent)
  <2>1. PICK m : m = node.metrics
    OBVIOUS
  <2>2. post.parent = Push(b, id, m)
    BY <1>2, <1>10, <1>11, <2>1
  <2>3. QED  BY <1>24, <2>2, PushList
<1>32. SameNode(p, post.parent)
  BY <1>24, <1>31 DEF SameNode
<1>33. Put(file, more, cursor, id, p.children, post.parent.children)
  <2>1. PICK L : L = p.children
    OBVIOUS
  <2>2. PICK K : K = b.children
    OBVIOUS
  <2>3. PICK M : M = post.parent.children
    OBVIOUS
  <2>4. IsList(L)
    BY <1>18, <2>1, ListOfType DEF AccGood
  <2>5. PICK kept : kept = KeptGap(file, from, to)
    OBVIOUS
  <2>6. (kept = <<>> => K = L) /\ kept = PostGap(file, cursor)
    <3>1. from = GapBegin(file, cursor) /\ to = file.tree[cursor].start
      BY <1>5, <1>12, <1>19, <1>20 DEF Cst
    <3>2. kept = PostGap(file, cursor)
      BY <2>5, <3>1 DEF PostGap
    <3>3. kept = <<>> => b = p
      BY <1>10, <1>25, <2>5 DEF SpacePut
    <3>4. QED  BY <2>1, <2>2, <3>2, <3>3
  <2>7. ASSUME kept # <<>> PROVE \E g : K = Append(L, g) /\ IsGap(more, g, kept)
    <3>1. PICK g : IsGap(ns, g, kept) /\ K = Append(L, g)
      BY <1>3, <1>10, <1>25, <2>1, <2>2, <2>5, <2>7 DEF SpacePut
    <3>2. IsGap(more, g, kept)
      BY <1>27, <3>1 DEF IsGap, Keeps
    <3>3. QED  BY <3>1, <3>2
  <2>8. M = Append(K, id)
    BY <1>31, <2>2, <2>3
  <2>9. PICK f : f = file
    OBVIOUS
  <2>10. PICK i : i = cursor
    OBVIOUS
  <2>11. /\ IsList(L) /\ kept = PostGap(f, i) /\ (kept = <<>> => K = L)
         /\ (kept # <<>> => \E g : K = Append(L, g) /\ IsGap(more, g, kept))
         /\ M = Append(K, id)
    BY <2>4, <2>6, <2>7, <2>8, <2>9, <2>10
  <2>12. Put(f, more, i, id, L, M)
    BY ONLY <2>11, PutOf
  <2>13. QED  BY <2>1, <2>3, <2>9, <2>10, <2>12
<1>34. Keeps(nodes, more)
  BY <1>24, <1>27 DEF Keeps
<1>35. Closes(file, more, stack, cursor, id, post.parent)
  BY <1>7, <1>12, <1>17, <1>29, <1>30, <1>32, <1>33 DEF Closes, Cst
<1>36. QED  BY <1>2, <1>4, <1>11, <1>27, <1>34, <1>35

-----------------------------------------------------------------------------
\* What is put behind the last child of the root.
RootPut(f, ns, id, L) ==
  /\ LastGap(f) = <<>> => ns[id].content.children = L
  /\ LastGap(f) # <<>> =>
       \E g : ns[id].content.children = Append(L, g) /\ IsGap(ns, g, LastGap(f))

\* No child of the root ends behind the last.
LEMMA LastEnds ==
  ASSUME NEW f, Parsed(f), NEW j \in ChildrenIn(f, 1), NEW at, at = f.tree[j].end,
         \A k \in ChildrenIn(f, 1) : f.tree[k].end <= at
  PROVE  LastGap(f) = KeptGap(f, at, Len(f.text))
<1>1. PICK e : e = f.tree[Youngest(ChildrenIn(f, 1))].end
  OBVIOUS
<1>2. PICK g \in ChildrenIn(f, 1) : g = Youngest(ChildrenIn(f, 1))
  <2>1. HasNodes(f)
    BY DEF HasNodes
  <2>2. Youngest(ChildrenIn(f, 1)) \in ChildrenIn(f, 1)
    BY <2>1, EndIs DEF HasNodes
  <2>3. QED  BY <2>2
<1>3. e = f.tree[g].end /\ e <= at /\ at <= e
  <2>1. \A k \in ChildrenIn(f, 1) : f.tree[k].end <= e
    BY <1>1, EndIs
  <2>2. QED  BY <1>1, <1>2, <2>1
<1>4. e \in Nat /\ at \in Nat
  <2>1. g \in DOMAIN f.tree /\ j \in DOMAIN f.tree
    BY <1>2 DEF ChildrenIn
  <2>2. QED  BY <1>3, <2>1, Trees
<1>5. e = at
  BY <1>3, <1>4
<1>6. QED  BY <1>1, <1>5 DEF LastGap

(* The root that a file gets.                                              *)
LEMMA WholePuts ==
  ASSUME Parsed(file), HasNodes(file), Stores(nodes, mdCache, Roots), NEW P, Standing(P),
         Len(stack) = 1, has = Up, NEW whole \in Whole
  PROVE  /\ Dag(whole.nodes) /\ Keeps(nodes, whole.nodes)
         /\ whole.id # 0 /\ Entity(file, whole.nodes, 1, whole.id)
         /\ RootPut(file, whole.nodes, whole.id, stack[1].children)
<1>1. PICK last, root :
        /\ last = HandleSpacing(nodes, Top, sum,
                    IF sum < Len(file.text) THEN Len(file.text) ELSE sum)
        /\ root = Make(last.nodes, last.parent)
        /\ whole = [root EXCEPT !.ok = last.ok /\ root.ok]
  BY DEF Whole, FinalSpaces
<1>2. whole.nodes = root.nodes /\ whole.id = root.id
  <2>1. PICK ok : ok = (last.ok /\ root.ok)
    OBVIOUS
  <2>2. PICK ns : ns = last.nodes
    OBVIOUS
  <2>3. PICK a : a = last.parent
    OBVIOUS
  <2>4. root = Make(ns, a) /\ whole = [root EXCEPT !.ok = ok]
    BY <1>1, <2>1, <2>2, <2>3
  <2>5. /\ whole.ok = ok /\ whole.nodes = root.nodes /\ whole.id = root.id
        /\ whole.metrics = root.metrics /\ whole.cache = root.cache
    BY <2>4, MakeShape
  <2>6. QED  BY <2>5
<1>3. PICK ns : ns = last.nodes
  OBVIOUS
<1>4. PICK a : a = last.parent
  OBVIOUS
<1>5. PICK top : top = Top
  OBVIOUS
<1>6. PICK c : c = Content(a)
  OBVIOUS
<1>7. PICK text : text = file.text
  OBVIOUS
<1>8. PICK n : n = Len(text)
  OBVIOUS
<1>9. PICK more : more = root.nodes
  OBVIOUS
<1>10. PICK id : id = root.id
  OBVIOUS
<1>11. /\ cursor = 1 /\ cursor \in DOMAIN Cst /\ top.kind = TypeIn(file, Cst[cursor].kind)
       /\ top.label = file.name /\ AccGood(nodes, top) /\ top = stack[1]
  BY <1>5, TopIs DEF Top
<1>12. /\ text \in Seq(Byte) /\ n \in Nat
       /\ file.name \in Seq(Byte) /\ top.kind # SpacesKind
  BY <1>7, <1>8, <1>11, Trees DEF Cst
<1>13. sum \in 0..n /\ n \in 0..n /\ (IF sum < n THEN n ELSE sum) = n
  BY <1>7, <1>8, <1>12 DEF Standing
<1>14. PICK from : from = sum
  OBVIOUS
<1>15. last = HandleSpacing(nodes, top, from, n)
  BY <1>1, <1>5, <1>7, <1>8, <1>13, <1>14
<1>16. LastGap(file) = KeptGap(file, from, n)
  <2>1. PICK j \in ChildrenIn(file, 1) : from = file.tree[j].end
    BY <1>11, <1>14 DEF Standing, Children, Cst, HasNodes
  <2>2. \A k \in ChildrenIn(file, 1) : file.tree[k].end <= from
    BY <1>11, <1>14 DEF Standing, Children, Cst
  <2>3. PICK f : f = file
    OBVIOUS
  <2>4. /\ Parsed(f) /\ j \in ChildrenIn(f, 1) /\ from = f.tree[j].end
        /\ \A k \in ChildrenIn(f, 1) : f.tree[k].end <= from
    BY <2>1, <2>2, <2>3
  <2>5. LastGap(f) = KeptGap(f, from, Len(f.text))
    BY ONLY <2>4, LastEnds
  <2>6. QED  BY <1>7, <1>8, <2>3, <2>5
<1>18. /\ n \in 0..Len(file.text) /\ from \in 0..n /\ file.text \in Seq(Byte)
  BY <1>7, <1>8, <1>12, <1>13, <1>14
<1>19. Dag(nodes)
  BY DEF Stores
<1>20. Dag(ns) /\ Keeps(nodes, ns) /\ AccGood(ns, a) /\ SameNode(top, a)
  <2>1. PICK roots : roots = Roots
    OBVIOUS
  <2>2. Stores(nodes, mdCache, roots)
    BY <2>1
  <2>3. Spaced(nodes, top, roots, from, n, last)
    BY <1>11, <1>15, <1>18, <2>2, SpacingRight
  <2>4. QED  BY <1>3, <1>4, <2>3 DEF Spaced, Stores
<1>21. SpacePut(nodes, top, LastGap(file), last)
  BY <1>11, <1>15, <1>16, <1>18, <1>19, SpacePuts
<1>22. a.kind = TypeIn(file, file.tree[1].kind) /\ a.kind # SpacesKind /\ a.label = file.name
  BY <1>11, <1>12, <1>20 DEF SameNode, Cst
<1>23. /\ c = [kind |-> a.kind, label |-> a.label, children |-> a.children, blank |-> None]
       /\ c.kind = a.kind /\ c.label = a.label /\ c.children = a.children
  BY <1>6 DEF Content
<1>24. ContentOK(c, Len(ns))
  <2>1. a.children \in Seq(1..Len(ns)) /\ a.label \in Seq(Byte)
    BY <1>12, <1>20, <1>22 DEF AccGood
  <2>2. a.label # None
    BY <2>1, ConstantsAssumption
  <2>3. QED  BY <1>22, <1>23, <2>1, <2>2 DEF ContentOK
<1>25. /\ Dag(more) /\ Keeps(ns, more) /\ id \in DOMAIN more /\ more[id].content = c
  <2>1. Dag(ns) /\ ContentOK(Content(a), Len(ns)) /\ root = Make(ns, a)
    BY <1>1, <1>3, <1>4, <1>6, <1>20, <1>24
  <2>2. /\ Dag(root.nodes) /\ Keeps(ns, root.nodes)
        /\ root.id \in DOMAIN root.nodes /\ root.nodes[root.id].content = Content(a)
    BY <2>1, MakeId
  <2>3. QED  BY <1>6, <1>9, <1>10, <2>2
<1>26. id # 0
  <2>1. DOMAIN more = 1..Len(more) /\ Len(more) \in Nat
    BY <1>25, Lists DEF Dag
  <2>2. QED  BY <1>25, <2>1
<1>27. Entity(file, more, 1, id)
  <2>1. c = [kind |-> TypeIn(file, file.tree[1].kind), label |-> file.name,
             children |-> c.children, blank |-> None]
    BY <1>22, <1>23
  <2>2. QED  BY <1>25, <2>1 DEF Entity
<1>28. RootPut(file, more, id, top.children)
  <2>1. CASE LastGap(file) = <<>>
    <3>1. a = top
      BY <1>4, <1>21, <2>1 DEF SpacePut
    <3>2. QED  BY <1>23, <1>25, <2>1, <3>1 DEF RootPut
  <2>2. CASE LastGap(file) # <<>>
    <3>1. PICK g : IsGap(ns, g, LastGap(file)) /\ a.children = Append(top.children, g)
      BY <1>3, <1>4, <1>21, <2>2 DEF SpacePut
    <3>2. IsGap(more, g, LastGap(file))
      BY <1>25, <3>1 DEF IsGap, Keeps
    <3>3. QED  BY <1>23, <1>25, <2>2, <3>1, <3>2 DEF RootPut
  <2>3. QED  BY <2>1, <2>2
<1>29. Keeps(nodes, more)
  BY <1>20, <1>25 DEF Keeps
<1>30. QED  BY <1>2, <1>9, <1>10, <1>11, <1>25, <1>26, <1>27, <1>28, <1>29
-----------------------------------------------------------------------------
(* The root's accumulator, with the spaces before it.                      *)
LEMMA RootBegins ==
  ASSUME NEW f, Parsed(f), NEW ns, NEW L, IsList(L),
         Lead(f) = <<>> => Len(L) = 0,
         Lead(f) # <<>> => Len(L) = 1 /\ IsGap(ns, L[1], Lead(f)),
         NEW s, IsList(s), Len(s) = 1, s[1].children = L,
         NEW P, P[1] = 1
  PROVE  \E img, slot : InReading(f, ns, s, P, 0, img, slot)
<1>1. PICK img : img = [k \in DOMAIN f.tree |-> 0]
  OBVIOUS
<1>2. img \in [DOMAIN f.tree -> Nat] /\ \A k \in DOMAIN f.tree : img[k] = 0
  BY <1>1
<1>3. 1 \in DOMAIN f.tree /\ \A d \in 1..1 : d = 1
  BY Trees
<1>4. IsPath(f, P, 1)
  BY <1>3 DEF IsPath
<1>5. Known(f, ns, img, img, P, 1)
  BY <1>2 DEF Known
<1>6. \A k \in ChildrenIn(f, 1) : img[k] = 0 /\ ~(k < 0)
  <2>1. ASSUME NEW k \in ChildrenIn(f, 1) PROVE img[k] = 0 /\ ~(k < 0)
    <3>1. k \in DOMAIN f.tree
      BY DEF ChildrenIn
    <3>2. k \in Nat
      BY <3>1, Trees
    <3>3. QED  BY <1>2, <3>1, <3>2
  <2>2. QED  BY <2>1
<1>7. UpTo(f, img, 1, 0)
  BY <1>6 DEF UpTo
<1>8. Filled(f, ns, img, img, 1, L)
  <2>1. ClosedKids(f, img, 1) = {}
    BY <1>6 DEF ClosedKids
  <2>2. Ordered(f, ns, img, img, 1, L)
    BY <2>1 DEF Ordered
  <2>3. QED  BY <2>1, <2>2 DEF Filled
<1>9. /\ \A d \in 1..(1 - 1) : UpTo(f, img, P[d], P[d + 1])
      /\ \A d \in 1..1 : Filled(f, ns, img, img, P[d], s[d].children)
      /\ \A d \in 2..1 : s[d].padding = GapBegin(f, P[d])
  BY <1>3, <1>8
<1>10. InReading(f, ns, s, P, 0, img, img)
  BY <1>2, <1>4, <1>5, <1>7, <1>9 DEF InReading
<1>11. QED  BY <1>10

-----------------------------------------------------------------------------
(* The second inductive invariant: the store holds no content twice, every *)
(* result of a file with a node has a reading, and so has what was read so *)
(* far of the file in progress.                                            *)
ReadSo(f, ns, s, at, h) ==
  \E P, m, img, slot :
    /\ InReading(f, ns, s, P, m, img, slot) /\ P[Len(s)] = at
    /\ h = Up => \A k \in ChildrenIn(f, at) : k < m
    /\ h # Up => m = 0

HasReading(ns, r) ==
  /\ r.file \in Files
  /\ HasNodes(r.file) =>
       \E img, slot : /\ slot \in [DOMAIN r.file.tree -> Nat]
                      /\ Reading(r.file, ns, r.id, img, slot)

Readings ==
  /\ Distinct(nodes)
  /\ \A k \in DOMAIN results : HasReading(nodes, results[k])
  /\ file # None /\ stack # <<>> /\ HasNodes(file) =>
       ReadSo(file, nodes, stack, cursor, has)

\* A reading stays one in a larger store.
LEMMA ResultStays ==
  ASSUME NEW ns, NEW more, Dag(ns), Dag(more), Keeps(ns, more), NEW r, HasReading(ns, r)
  PROVE  HasReading(more, r)
<1>1. PICK f : f = r.file
  OBVIOUS
<1>2. PICK id : id = r.id
  OBVIOUS
<1>3. f \in Files
  BY <1>1 DEF HasReading
<1>4. ASSUME HasNodes(f)
      PROVE  \E img, slot : slot \in [DOMAIN f.tree -> Nat] /\ Reading(f, more, id, img, slot)
  <2>1. PICK img, slot : slot \in [DOMAIN f.tree -> Nat] /\ Reading(f, ns, id, img, slot)
    BY <1>1, <1>2, <1>4 DEF HasReading
  <2>2. Parsed(f)
    BY <1>3, FilesAssumption
  <2>3. /\ Parsed(f) /\ Dag(ns) /\ Dag(more) /\ Keeps(ns, more)
        /\ slot \in [DOMAIN f.tree -> Nat] /\ Reading(f, ns, id, img, slot)
    BY <2>1, <2>2
  <2>4. Reading(f, more, id, img, slot)
    BY ONLY <2>3, ReadingStays
  <2>5. QED  BY <2>1, <2>4
<1>5. QED  BY <1>1, <1>2, <1>3, <1>4 DEF HasReading

\* A step that returns no result keeps the readings, if what it leads to has
\* one.
LEMMA ReadingsGo ==
  ASSUME Inv, Readings, Dag(nodes'), Keeps(nodes, nodes'), Distinct(nodes'),
         results' = results,
         file' # None /\ stack' # <<>> /\ HasNodes(file') =>
           ReadSo(file', nodes', stack', cursor', has')
  PROVE  Readings'
<1>1. Dag(nodes)
  BY DEF Inv, Stores
<1>2. ASSUME NEW k \in DOMAIN results PROVE HasReading(nodes', results[k])
  <2>1. HasReading(nodes, results[k])
    BY DEF Readings
  <2>2. PICK ns : ns = nodes
    OBVIOUS
  <2>3. PICK more : more = nodes'
    OBVIOUS
  <2>4. PICK r : r = results[k]
    OBVIOUS
  <2>5. Dag(ns) /\ Dag(more) /\ Keeps(ns, more) /\ HasReading(ns, r)
    BY <1>1, <2>1, <2>2, <2>3, <2>4
  <2>6. HasReading(more, r)
    BY ONLY <2>5, ResultStays
  <2>7. QED  BY <2>3, <2>4, <2>6
<1>3. QED  BY <1>2 DEF Readings

\* No step puts a content twice.
LEMMA NodesDistinct ==
  ASSUME IsList(nodes), Distinct(nodes)
  PROVE  /\ \A post \in Post : Distinct(post.node.nodes)
         /\ \A whole \in Whole : Distinct(whole.nodes)
         /\ \A a, from, to : Distinct(HandleSpacing(nodes, a, from, to).nodes)
<1>1. ASSUME NEW post \in Post PROVE Distinct(post.node.nodes)
  <2>1. PICK gap, node :
          /\ gap = HandleSpacing(nodes, Parent, Top.padding, Top.start)
          /\ node = Make(gap.nodes, Top)
          /\ post = [node |-> node, ok |-> gap.ok /\ node.ok,
                     parent |-> Push(gap.parent, node.id, node.metrics)]
    BY DEF Post, PostNode, PostSpaces
  <2>2. post.node = node
    BY <2>1
  <2>3. PICK ns : ns = gap.nodes
    OBVIOUS
  <2>4. IsList(ns) /\ Distinct(ns)
    BY <2>1, <2>3, AnswersDistinct
  <2>5. PICK a : a = Top
    OBVIOUS
  <2>6. node = Make(ns, a)
    BY <2>1, <2>3, <2>5
  <2>7. Distinct(node.nodes)
    BY <2>4, <2>6, AnswersDistinct
  <2>8. QED  BY <2>2, <2>7
<1>2. ASSUME NEW whole \in Whole PROVE Distinct(whole.nodes)
  <2>1. PICK last, root :
          /\ last = HandleSpacing(nodes, Top, sum,
                      IF sum < Len(file.text) THEN Len(file.text) ELSE sum)
          /\ root = Make(last.nodes, last.parent)
          /\ whole = [root EXCEPT !.ok = last.ok /\ root.ok]
    BY DEF Whole, FinalSpaces
  <2>2. PICK ok : ok = (last.ok /\ root.ok)
    OBVIOUS
  <2>3. PICK ns : ns = last.nodes
    OBVIOUS
  <2>4. PICK a : a = last.parent
    OBVIOUS
  <2>5. root = Make(ns, a) /\ whole = [root EXCEPT !.ok = ok]
    BY <2>1, <2>2, <2>3, <2>4
  <2>6. /\ whole.ok = ok /\ whole.nodes = root.nodes /\ whole.id = root.id
        /\ whole.metrics = root.metrics /\ whole.cache = root.cache
    BY <2>5, MakeShape
  <2>7. IsList(ns) /\ Distinct(ns)
    BY <2>1, <2>3, AnswersDistinct
  <2>8. Distinct(root.nodes)
    BY <2>5, <2>7, AnswersDistinct
  <2>9. QED  BY <2>6, <2>8
<1>3. \A a, from, to : Distinct(HandleSpacing(nodes, a, from, to).nodes)
  BY AnswersDistinct
<1>4. QED  BY <1>1, <1>2, <1>3
-----------------------------------------------------------------------------
\* No file is in progress at first.
LEMMA InitReads == Init => Readings
<1>1. SUFFICES ASSUME Init PROVE Readings
  OBVIOUS
<1>2. PICK e : e = <<>>
  OBVIOUS
<1>3. nodes = e /\ results = e /\ DOMAIN e = {} /\ file = None
  BY <1>1, <1>2 DEF Init
<1>4. QED  BY <1>3 DEF Readings, Distinct

\* The root begins.
LEMMA InitValReads ==
  ASSUME Inv, Readings, InitVal
  PROVE  Readings'
<1>1. file \in Files /\ file # None /\ panicked = FALSE /\ stack = <<>> /\ cursor = 1
      /\ has = Down /\ sum = 0
  BY DEF Inv, InitVal, Running, InProgress
<1>2. Parsed(file)
  BY <1>1, FilesAssumption
<1>3. PICK f : f = file
  OBVIOUS
<1>4. /\ f.lang \in {Java, Xml} /\ f.text \in Seq(Byte)
      /\ Len(f.text) \in Nat /\ 1 \in DOMAIN f.tree
      /\ f.tree[1].start \in Nat /\ f.tree[1].end \in Nat
      /\ f.tree[1].start <= f.tree[1].end /\ f.tree[1].end <= Len(f.text)
  BY <1>2, <1>3, Trees
<1>5. PICK init : init = NewAcc(1, file.name, 0)
  OBVIOUS
<1>6. PICK to : to = IF file.lang = Java THEN init.start ELSE 0
  OBVIOUS
<1>7. PICK z : z = 0
  OBVIOUS
<1>8. PICK lead : lead = HandleSpacing(nodes, init, z, to)
  OBVIOUS
<1>9. IF HasType(1) /\ Indented(init.start) /\ lead.ok
      THEN /\ nodes' = lead.nodes /\ stack' = <<lead.parent>>
           /\ UNCHANGED <<mdCache, file, cursor, has, sum, results, panicked>>
      ELSE Panic
  BY <1>5, <1>6, <1>7, <1>8 DEF InitVal
<1>10. /\ init.start = f.tree[1].start /\ init.children = <<>> /\ init.metrics = NoMetrics
       /\ init = [kind |-> init.kind, label |-> init.label, children |-> init.children,
                  start |-> init.start, end |-> init.end, padding |-> init.padding,
                  metrics |-> init.metrics]
  BY <1>3, <1>5 DEF NewAcc, TypeOf, Cst
<1>11. Dag(nodes) /\ IsList(nodes) /\ Distinct(nodes)
  BY DEF Inv, Stores, Dag, Readings
<1>12. AccGood(nodes, init)
  BY <1>10, <1>11, NoneSpelt DEF AccGood
<1>13. to \in 0..Len(f.text) /\ z \in 0..to
  BY <1>3, <1>4, <1>6, <1>7, <1>10
<1>14. PICK p : p = lead.parent
  OBVIOUS
<1>15. PICK ns : ns = lead.nodes
  OBVIOUS
<1>16. Distinct(ns)
  BY <1>8, <1>11, <1>15, NodesDistinct
<1>17. Dag(ns) /\ Keeps(nodes, ns)
  <2>1. lead = HandleSpacing(nodes, init, z, to) /\ to \in 0..Len(file.text) /\ z \in 0..to
        /\ file.text \in Seq(Byte)
    BY <1>3, <1>4, <1>8, <1>13
  <2>2. Stores(nodes, mdCache, Roots)
    BY DEF Inv
  <2>3. Spaced(nodes, init, Roots, z, to, lead)
    BY <1>12, <2>1, <2>2, SpacingRight
  <2>4. QED  BY <1>15, <2>3 DEF Spaced, Stores
<1>18. (HasType(1) /\ Indented(init.start) /\ lead.ok) \in BOOLEAN
  <2>1. lead.ok = TRUE \/ lead.ok = FALSE \/ lead.ok = (file.lang = Xml)
    <3>1. lead = HandleSpacing(nodes, init, z, to) /\ to \in 0..Len(file.text) /\ z \in 0..to
          /\ file.text \in Seq(Byte)
      BY <1>3, <1>4, <1>8, <1>13
    <3>2. Stores(nodes, mdCache, Roots)
      BY DEF Inv
    <3>3. Spaced(nodes, init, Roots, z, to, lead)
      BY <1>12, <3>1, <3>2, SpacingRight
    <3>4. QED  BY <3>3 DEF Spaced
  <2>2. QED  BY <2>1
<1>19. CASE ~(HasType(1) /\ Indented(init.start) /\ lead.ok)
  <2>1. /\ nodes' = nodes /\ file' = file /\ stack' = stack /\ results' = results
    BY <1>9, <1>19 DEF Panic
  <2>2. Dag(nodes') /\ Keeps(nodes, nodes') /\ Distinct(nodes')
    BY <1>11, <2>1 DEF Keeps
  <2>3. QED  BY <1>1, <2>1, <2>2, ReadingsGo
<1>20. CASE HasType(1) /\ Indented(init.start) /\ lead.ok
  <2>1. /\ nodes' = ns /\ stack' = <<p>> /\ file' = file
        /\ cursor' = 1 /\ has' = Down /\ results' = results
    BY <1>1, <1>9, <1>14, <1>15, <1>20
  <2>2. ReadSo(f, ns, <<p>>, 1, Down)
    <3>1. PICK gap : gap = KeptGap(f, z, to)
      OBVIOUS
    <3>2. gap = Lead(f)
      <4>1. CASE f.lang = Java
        BY <1>3, <1>6, <1>7, <1>10, <3>1, <4>1 DEF Lead
      <4>2. CASE f.lang # Java
        <5>1. to = 0
          BY <1>3, <1>6, <4>2
        <5>2. KeptGap(f, 0, 0) = <<>>
          BY NoGap
        <5>3. QED  BY <1>7, <3>1, <4>2, <5>1, <5>2 DEF Lead
      <4>3. QED  BY <4>1, <4>2
    <3>3. SpacePut(nodes, init, gap, lead)
      <4>1. file.text \in Seq(Byte) /\ to \in 0..Len(file.text)
        BY <1>3, <1>4, <1>13
      <4>2. SpacePut(nodes, init, KeptGap(file, z, to), lead)
        BY <1>8, <1>11, <1>12, <1>13, <4>1, SpacePuts
      <4>3. QED  BY <1>3, <3>1, <4>2
    <3>4. PICK L : L = p.children
      OBVIOUS
    <3>5. PICK e : e = <<>>
      OBVIOUS
    <3>6. IsList(e) /\ Len(e) = 0 /\ DOMAIN e = 1..0
      BY <3>5, EmptySeq DEF IsList
    <3>7. /\ IsList(L) /\ (gap = <<>> => Len(L) = 0)
          /\ gap # <<>> => Len(L) = 1 /\ IsGap(ns, L[1], gap)
      <4>1. CASE gap = <<>>
        <5>1. p = init
          BY <1>14, <3>3, <4>1 DEF SpacePut
        <5>2. L = e
          BY <1>10, <3>4, <3>5, <5>1
        <5>3. QED  BY <3>6, <4>1, <5>2
      <4>2. CASE gap # <<>>
        <5>1. PICK g : IsGap(ns, g, gap) /\ L = Append(e, g)
          BY <1>10, <1>14, <1>15, <3>3, <3>4, <3>5, <4>2 DEF SpacePut
        <5>2. IsList(L) /\ Len(L) = Len(e) + 1 /\ L[Len(e) + 1] = g
          BY <3>6, <5>1, ListAppends
        <5>3. Len(L) = 1 /\ L[1] = g
          BY <3>6, <5>2
        <5>4. QED  BY <4>2, <5>1, <5>2, <5>3
      <4>3. QED  BY <4>1, <4>2
    <3>8. PICK s : s = <<p>>
      OBVIOUS
    <3>9. IsList(s) /\ Len(s) = 1 /\ s[1] = p
      BY <3>8, ListOfOne
    <3>10. PICK P : P = [d \in 1..1 |-> 1]
      OBVIOUS
    <3>11. P[1] = 1
      BY <3>10
    <3>12. /\ Parsed(f) /\ IsList(L) /\ (Lead(f) = <<>> => Len(L) = 0)
           /\ (Lead(f) # <<>> => Len(L) = 1 /\ IsGap(ns, L[1], Lead(f)))
           /\ IsList(s) /\ Len(s) = 1 /\ s[1].children = L /\ P[1] = 1
      BY <1>2, <1>3, <3>2, <3>4, <3>7, <3>9, <3>11
    <3>13. \E img, slot : InReading(f, ns, s, P, 0, img, slot)
      BY ONLY <3>12, RootBegins
    <3>14. Down # Up
      BY ConstantsAssumption
    <3>15. ReadSo(f, ns, s, 1, Down)
      BY <3>9, <3>11, <3>13, <3>14 DEF ReadSo
    <3>16. QED  BY <3>8, <3>15
  <2>3. Dag(nodes') /\ Keeps(nodes, nodes') /\ Distinct(nodes')
    BY <1>16, <1>17, <2>1
  <2>4. file' # None /\ stack' # <<>> /\ HasNodes(file') =>
          ReadSo(file', nodes', stack', cursor', has')
    BY <1>3, <2>1, <2>2
  <2>5. QED  BY <2>1, <2>3, <2>4, ReadingsGo
<1>21. QED  BY <1>18, <1>19, <1>20

-----------------------------------------------------------------------------
\* The path gets longer.
LEMMA EntersRead ==
  ASSUME NEW f, Parsed(f), NEW ns, NEW s, NEW P, NEW m, NEW img, NEW slot,
         InReading(f, ns, s, P, m, img, slot), NEW i, i \in ChildrenIn(f, P[Len(s)]),
         \A k \in ChildrenIn(f, P[Len(s)]) : k < i <=> k < m,
         NEW at, at = GapBegin(f, i), NEW t, OneMore(s, t, Fresh(f, i, at)),
         NEW h \in {Down, Right}
  PROVE  ReadSo(f, ns, t, i, h)
<1>1. PICK n : n = Len(s)
  OBVIOUS
<1>2. n \in Nat \ {0}
  BY <1>1 DEF InReading, IsPath
<1>3. PICK Q : Q = [d \in 1..(n + 1) |-> IF d = n + 1 THEN i ELSE P[d]]
  OBVIOUS
<1>4. Q[n + 1] = i /\ \A d \in 1..n : Q[d] = P[d]
  <2>1. n + 1 \in 1..(n + 1) /\ \A d \in 1..n : d \in 1..(n + 1) /\ d # n + 1
    BY <1>2
  <2>2. QED  BY <1>3, <2>1
<1>5. Len(t) = n + 1
  BY <1>1 DEF OneMore
<1>6. /\ Parsed(f) /\ InReading(f, ns, s, P, m, img, slot) /\ i \in ChildrenIn(f, P[Len(s)])
      /\ (\A k \in ChildrenIn(f, P[Len(s)]) : k < i <=> k < m)
      /\ OneMore(s, t, Fresh(f, i, GapBegin(f, i)))
      /\ (\A d \in 1..Len(s) : Q[d] = P[d]) /\ Q[Len(t)] = i
  BY <1>1, <1>4, <1>5
<1>7. InReading(f, ns, t, Q, 0, img, slot)
  BY ONLY <1>6, ReadingEnters
<1>8. h # Up
  BY ConstantsAssumption
<1>9. QED  BY <1>6, <1>7, <1>8 DEF ReadSo

\* Going down keeps the readings.
LEMMA DescendReads ==
  ASSUME Inv, Readings, Descend
  PROVE  Readings'
<1>1. file \in Files /\ file # None /\ panicked = FALSE /\ stack # <<>> /\ has # Up
      /\ Children(cursor) # {}
  BY DEF Inv, Descend, Running, InProgress
<1>2. Parsed(file)
  BY <1>1, FilesAssumption
<1>3. PICK P0 : Standing(P0)
  BY <1>1 DEF Inv, InProgress
<1>4. IsList(stack) /\ cursor \in DOMAIN file.tree
  BY <1>2, <1>3, TopIs DEF Cst
<1>5. PICK child : child = First(Children(cursor))
  OBVIOUS
<1>6. child \in ChildrenIn(file, cursor) /\ \A j \in ChildrenIn(file, cursor) : child <= j
  <2>1. PICK S : S = ChildrenIn(file, cursor)
    OBVIOUS
  <2>2. S \in SUBSET Nat
    <3>1. DOMAIN file.tree = 1..Len(file.tree) /\ Len(file.tree) \in Nat
      BY <1>2, Trees
    <3>2. QED  BY <2>1, <3>1 DEF ChildrenIn
  <2>3. S # {} /\ child = First(S)
    BY <1>1, <1>5, <2>1 DEF Children
  <2>4. First(S) \in S /\ \A j \in S : First(S) <= j
    BY <2>2, <2>3, LeastExists
  <2>5. QED  BY <2>1, <2>3, <2>4
<1>7. PICK at : at = file.tree[cursor].start
  OBVIOUS
<1>8. /\ cursor' = child /\ has' = Down /\ stack' = Append(stack, Fresh(file, child, at))
      /\ nodes' = nodes /\ file' = file /\ results' = results
  <2>1. /\ cursor' = child /\ sum' = at /\ has' = Down
        /\ stack' = Append(stack, NewAcc(child, ExtractLabel(child), sum'))
        /\ nodes' = nodes /\ file' = file /\ results' = results
    BY <1>5, <1>7 DEF Descend, Cst
  <2>2. QED  BY <2>1, NewAccIs
<1>9. PICK t : t = stack'
  OBVIOUS
<1>10. PICK b : b = Fresh(file, child, at)
  OBVIOUS
<1>11. OneMore(stack, t, b)
  <2>1. /\ IsList(Append(stack, b)) /\ Len(Append(stack, b)) = Len(stack) + 1
        /\ DOMAIN Append(stack, b) = 1..(Len(stack) + 1)
        /\ \A i \in DOMAIN stack : Append(stack, b)[i] = stack[i]
        /\ Append(stack, b)[Len(stack) + 1] = b
    BY <1>4, ListAppends
  <2>2. DOMAIN stack = 1..Len(stack)
    BY <1>4, Lists
  <2>3. t = Append(stack, b)
    BY <1>8, <1>9, <1>10
  <2>4. QED  BY <2>1, <2>2, <2>3 DEF OneMore
<1>12. ASSUME HasNodes(file) PROVE ReadSo(file, nodes, t, child, Down)
  <2>1. PICK P, m, img, slot :
          /\ InReading(file, nodes, stack, P, m, img, slot) /\ P[Len(stack)] = cursor
          /\ has # Up => m = 0
    BY <1>1, <1>12 DEF Readings, ReadSo
  <2>2. m = 0
    BY <1>1, <2>1
  <2>3. ASSUME NEW k \in ChildrenIn(file, cursor) PROVE k < child <=> k < m
    <3>1. child <= k /\ k \in DOMAIN file.tree /\ child \in DOMAIN file.tree
      BY <1>6 DEF ChildrenIn
    <3>2. k \in Nat /\ child \in Nat
      BY <1>2, <3>1, Trees
    <3>3. QED  BY <2>2, <3>1, <3>2
  <2>4. at = GapBegin(file, child)
    BY <1>2, <1>4, <1>6, <1>7, FirstGaps
  <2>5. PICK f : f = file
    OBVIOUS
  <2>6. PICK ns : ns = nodes
    OBVIOUS
  <2>7. PICK s : s = stack
    OBVIOUS
  <2>8. PICK h \in {Down, Right} : h = Down
    OBVIOUS
  <2>9. /\ Parsed(f) /\ InReading(f, ns, s, P, m, img, slot) /\ child \in ChildrenIn(f, P[Len(s)])
        /\ (\A k \in ChildrenIn(f, P[Len(s)]) : k < child <=> k < m)
        /\ at = GapBegin(f, child) /\ OneMore(s, t, Fresh(f, child, at)) /\ h \in {Down, Right}
    BY <1>2, <1>6, <1>10, <1>11, <2>1, <2>3, <2>4, <2>5, <2>6, <2>7
  <2>10. ReadSo(f, ns, t, child, h)
    BY ONLY <2>9, EntersRead
  <2>11. QED  BY <2>5, <2>6, <2>8, <2>10
<1>13. Dag(nodes') /\ Keeps(nodes, nodes') /\ Distinct(nodes')
  BY <1>8 DEF Inv, Stores, Keeps, Readings
<1>14. file' # None /\ stack' # <<>> /\ HasNodes(file') =>
         ReadSo(file', nodes', stack', cursor', has')
  BY <1>8, <1>9, <1>12
<1>15. QED  BY <1>8, <1>13, <1>14, ReadingsGo
-----------------------------------------------------------------------------
\* Closing a node reads it.
LEMMA PostReads ==
  ASSUME Inv, Readings, Closing, Len(stack) > 1, NEW post \in Post, post.ok,
         NEW u, u = Append(Below, post.parent), NEW more, more = post.node.nodes
  PROVE  /\ Dag(more) /\ Keeps(nodes, more) /\ Distinct(more)
         /\ HasNodes(file) => \E P, jmg, tlot :
              /\ InReading(file, more, u, P, cursor + 1, jmg, tlot)
              /\ P[Len(u)] = file.tree[cursor].parent
<1>1. PICK P0 : Standing(P0)
  BY RunningIs
<1>2. /\ file # None /\ Parsed(file) /\ Dag(nodes) /\ Stores(nodes, mdCache, Roots)
      /\ (has = Up \/ Children(cursor) = {}) /\ stack # <<>>
  BY RunningIs DEF Closing
<1>3. Len(stack) \in Nat \ {0} /\ IsList(stack) /\ cursor \in DOMAIN file.tree
      /\ Top = stack[Len(stack)]
  BY <1>1, <1>2, TopIs DEF Cst, Top
<1>4. Len(stack) # 1 /\ Len(stack) \in 2..Len(stack)
  BY <1>3
<1>5. Distinct(more)
  <2>1. IsList(nodes) /\ Distinct(nodes)
    BY <1>2 DEF Dag, Readings
  <2>2. QED  BY <2>1, NodesDistinct
<1>6. Dag(more) /\ Keeps(nodes, more)
  <2>1. Stores(more, post.node.cache, Roots) /\ Keeps(nodes, more)
    BY <1>1, <1>2, <1>4, PostRight
  <2>2. QED  BY <2>1 DEF Stores
<1>7. ASSUME HasNodes(file)
      PROVE  \E P, jmg, tlot : /\ InReading(file, more, u, P, cursor + 1, jmg, tlot)
                               /\ P[Len(u)] = file.tree[cursor].parent
  <2>1. PICK P, m, img, slot :
          /\ InReading(file, nodes, stack, P, m, img, slot) /\ P[Len(stack)] = cursor
          /\ has = Up => \A k \in ChildrenIn(file, cursor) : k < m
    BY <1>2, <1>7 DEF Readings, ReadSo
  <2>2. Top.padding = GapBegin(file, cursor)
    BY <1>3, <1>4, <2>1 DEF InReading
  <2>3. Closes(file, more, stack, cursor, post.node.id, post.parent)
    BY <1>1, <1>2, <1>4, <1>7, <2>2, PostPuts
  <2>4. \A k \in ChildrenIn(file, cursor) : k < m
    BY <1>2, <2>1 DEF Children
  <2>5. PICK f : f = file
    OBVIOUS
  <2>6. PICK ns : ns = nodes
    OBVIOUS
  <2>7. PICK s : s = stack
    OBVIOUS
  <2>8. PICK c : c = cursor
    OBVIOUS
  <2>9. PICK id : id = post.node.id
    OBVIOUS
  <2>10. PICK b : b = post.parent
    OBVIOUS
  <2>11. OneLess(s, u, b)
    BY <1>3, <2>7, <2>10, StackLess
  <2>12. /\ Parsed(f) /\ Dag(ns) /\ Dag(more) /\ Keeps(ns, more)
         /\ InReading(f, ns, s, P, m, img, slot) /\ Len(s) # 1 /\ c = P[Len(s)]
         /\ (\A k \in ChildrenIn(f, c) : k < m)
         /\ Closes(f, more, s, c, id, b) /\ OneLess(s, u, b)
    BY <1>2, <1>4, <1>6, <2>1, <2>3, <2>4, <2>5, <2>6, <2>7, <2>8, <2>9, <2>10, <2>11
  <2>13. \E jmg, tlot : InReading(f, more, u, P, c + 1, jmg, tlot)
    BY ONLY <2>12, ReadingLeaves
  <2>14. P[Len(u)] = f.tree[c].parent
    <3>1. IsPath(f, P, Len(s)) /\ Len(u) = Len(s) - 1
      BY <2>12 DEF InReading, OneLess
    <3>2. Len(s) \in 1..Len(s)
      BY <1>3, <2>7
    <3>3. f.tree[P[Len(s)]].parent = P[Len(s) - 1]
      BY <2>12, <3>1, <3>2 DEF IsPath
    <3>4. QED  BY <2>12, <3>1, <3>3
  <2>15. QED  BY <2>5, <2>8, <2>13, <2>14
<1>8. QED  BY <1>5, <1>6, <1>7

-----------------------------------------------------------------------------
\* Going to the next sibling keeps the readings.
LEMMA AdvanceReads ==
  ASSUME Inv, Readings, Advance
  PROVE  Readings'
<1>1. Closing /\ Len(stack) > 1 /\ NextSiblings(cursor) # {}
  BY DEF Advance
<1>2. PICK post \in Post :
        /\ post.ok
        /\ cursor' = First(NextSiblings(cursor))
        /\ sum' = file.tree[cursor].end
        /\ stack' = Below \o <<post.parent, NewAcc(cursor', ExtractLabel(cursor'), sum')>>
        /\ nodes' = post.node.nodes
  BY DEF Advance, Cst
<1>3. has' = Right /\ file' = file /\ results' = results
  BY DEF Advance
<1>4. file # None /\ Parsed(file)
  BY <1>1, RunningIs
<1>5. PICK P0 : Standing(P0)
  BY <1>1, RunningIs
<1>6. cursor \in DOMAIN file.tree /\ IsList(stack) /\ Len(stack) \in Nat \ {0}
      /\ (Len(stack) # 1 => cursor # 1)
  BY <1>4, <1>5, TopIs DEF Cst
<1>7. PICK u : u = Append(Below, post.parent)
  OBVIOUS
<1>8. PICK more : more = post.node.nodes
  OBVIOUS
<1>9. /\ Dag(more) /\ Keeps(nodes, more) /\ Distinct(more)
      /\ HasNodes(file) => \E P, jmg, tlot :
           /\ InReading(file, more, u, P, cursor + 1, jmg, tlot)
           /\ P[Len(u)] = file.tree[cursor].parent
  BY <1>1, <1>2, <1>7, <1>8, PostReads
<1>10. PICK p : p = file.tree[cursor].parent
  OBVIOUS
<1>11. p \in DOMAIN file.tree /\ cursor \in ChildrenIn(file, p) /\ cursor \in Nat
  <2>1. cursor # 1
    <3>1. PICK n : n = Len(stack)
      OBVIOUS
    <3>2. n \in Nat /\ n > 1
      BY <1>1, <1>6, <3>1
    <3>3. n # 1
      BY ONLY <3>2
    <3>4. QED  BY <1>6, <3>1, <3>3
  <2>2. QED  BY <1>4, <1>6, <1>10, <2>1, Trees DEF ChildrenIn
<1>12. PICK next : next = First(NextSiblings(cursor))
  OBVIOUS
<1>13. /\ next \in ChildrenIn(file, p) /\ next > cursor
       /\ \A j \in ChildrenIn(file, p) : j > cursor => next <= j
  <2>1. PICK S : S = NextSiblings(cursor)
    OBVIOUS
  <2>2. S = {j \in ChildrenIn(file, p) : j > cursor}
    BY <1>10, <2>1 DEF NextSiblings, Children, Cst
  <2>3. S \in SUBSET Nat
    <3>1. DOMAIN file.tree = 1..Len(file.tree) /\ Len(file.tree) \in Nat
      BY <1>4, Trees
    <3>2. QED  BY <2>2, <3>1 DEF ChildrenIn
  <2>4. S # {} /\ next = First(S)
    BY <1>1, <1>12, <2>1
  <2>5. First(S) \in S /\ \A j \in S : First(S) <= j
    BY <2>3, <2>4, LeastExists
  <2>6. QED  BY <2>2, <2>4, <2>5
<1>14. next \in Nat
  BY <1>4, <1>13, Trees DEF ChildrenIn
<1>15. PICK at : at = file.tree[cursor].end
  OBVIOUS
<1>16. at = GapBegin(file, next)
  <2>1. cursor < next
    BY <1>11, <1>13, <1>14
  <2>2. QED  BY <1>4, <1>11, <1>13, <1>15, <2>1, FirstGaps
<1>17. PICK t : t = stack'
  OBVIOUS
<1>18. OneMore(u, t, Fresh(file, next, at))
  <2>1. PICK b : b = post.parent
    OBVIOUS
  <2>2. PICK e : e = Fresh(file, next, at)
    OBVIOUS
  <2>3. cursor' = next /\ sum' = at
    BY <1>2, <1>12, <1>15
  <2>4. NewAcc(next, ExtractLabel(next), at) = e
    BY <2>2, NewAccIs
  <2>5. t = Below \o <<b, e>> /\ u = Append(Below, b)
    BY <1>2, <1>7, <1>17, <2>1, <2>3, <2>4
  <2>6. OneMore(Append(Below, b), Below \o <<b, e>>, e)
    BY <1>1, <1>6, StackSame
  <2>7. QED  BY <2>2, <2>5, <2>6
<1>19. ASSUME HasNodes(file) PROVE ReadSo(file, more, t, next, Right)
  <2>1. PICK P, jmg, tlot : /\ InReading(file, more, u, P, cursor + 1, jmg, tlot)
                            /\ P[Len(u)] = p
    BY <1>9, <1>10, <1>19
  <2>2. ASSUME NEW k \in ChildrenIn(file, p) PROVE k < next <=> k < cursor + 1
    <3>1. k \in Nat
      BY <1>4, Trees DEF ChildrenIn
    <3>2. k > cursor => next <= k
      BY <1>13
    <3>3. QED  BY <1>11, <1>13, <1>14, <3>1, <3>2
  <2>3. PICK f : f = file
    OBVIOUS
  <2>4. PICK m : m = cursor + 1
    OBVIOUS
  <2>5. PICK h \in {Down, Right} : h = Right
    OBVIOUS
  <2>6. /\ Parsed(f) /\ InReading(f, more, u, P, m, jmg, tlot) /\ next \in ChildrenIn(f, P[Len(u)])
        /\ (\A k \in ChildrenIn(f, P[Len(u)]) : k < next <=> k < m)
        /\ at = GapBegin(f, next) /\ OneMore(u, t, Fresh(f, next, at)) /\ h \in {Down, Right}
    BY <1>4, <1>13, <1>16, <1>18, <2>1, <2>2, <2>3, <2>4
  <2>7. ReadSo(f, more, t, next, h)
    BY ONLY <2>6, EntersRead
  <2>8. QED  BY <2>3, <2>5, <2>7
<1>20. Dag(nodes') /\ Keeps(nodes, nodes') /\ Distinct(nodes')
  BY <1>2, <1>8, <1>9
<1>21. file' # None /\ stack' # <<>> /\ HasNodes(file') =>
         ReadSo(file', nodes', stack', cursor', has')
  BY <1>2, <1>3, <1>8, <1>12, <1>17, <1>19
<1>22. QED  BY <1>3, <1>20, <1>21, ReadingsGo

\* Going up keeps the readings: the children of the parent are all closed.
LEMMA AscendReads ==
  ASSUME Inv, Readings, Ascend
  PROVE  Readings'
<1>1. Closing /\ Len(stack) > 1 /\ NextSiblings(cursor) = {}
  BY DEF Ascend
<1>2. PICK post \in Post :
        /\ post.ok
        /\ stack' = Append(Below, post.parent)
        /\ nodes' = post.node.nodes
  BY DEF Ascend
<1>3. /\ cursor' = file.tree[cursor].parent /\ has' = Up
      /\ file' = file /\ results' = results
  BY DEF Ascend, Cst
<1>4. file # None /\ Parsed(file)
  BY <1>1, RunningIs
<1>5. PICK P0 : Standing(P0)
  BY <1>1, RunningIs
<1>6. cursor \in DOMAIN file.tree
  BY <1>4, <1>5, TopIs DEF Cst
<1>7. PICK u : u = Append(Below, post.parent)
  OBVIOUS
<1>8. PICK more : more = post.node.nodes
  OBVIOUS
<1>9. /\ Dag(more) /\ Keeps(nodes, more) /\ Distinct(more)
      /\ HasNodes(file) => \E P, jmg, tlot :
           /\ InReading(file, more, u, P, cursor + 1, jmg, tlot)
           /\ P[Len(u)] = file.tree[cursor].parent
  BY <1>1, <1>2, <1>7, <1>8, PostReads
<1>10. \A k \in ChildrenIn(file, file.tree[cursor].parent) : k < cursor + 1
  <2>1. ASSUME NEW k \in ChildrenIn(file, file.tree[cursor].parent) PROVE k < cursor + 1
    <3>1. ~(k > cursor)
      BY <1>1 DEF NextSiblings, Children, Cst
    <3>2. k \in DOMAIN file.tree
      BY DEF ChildrenIn
    <3>3. k \in Nat /\ cursor \in Nat
      BY <1>4, <1>6, <3>2, Trees
    <3>4. QED  BY <3>1, <3>3
  <2>2. QED  BY <2>1
<1>11. ASSUME HasNodes(file) PROVE ReadSo(file, more, u, file.tree[cursor].parent, Up)
  <2>1. PICK P, jmg, tlot : /\ InReading(file, more, u, P, cursor + 1, jmg, tlot)
                            /\ P[Len(u)] = file.tree[cursor].parent
    BY <1>9, <1>11
  <2>2. QED  BY <1>10, <2>1 DEF ReadSo
<1>12. Dag(nodes') /\ Keeps(nodes, nodes') /\ Distinct(nodes')
  BY <1>2, <1>8, <1>9
<1>13. file' # None /\ stack' # <<>> /\ HasNodes(file') =>
         ReadSo(file', nodes', stack', cursor', has')
  BY <1>2, <1>3, <1>7, <1>8, <1>11
<1>14. QED  BY <1>3, <1>12, <1>13, ReadingsGo

\* A panic, and a file that begins, read nothing.
LEMMA RestReads ==
  ASSUME Inv, Readings, PrePanics \/ PostPanics \/ ReturnPanics \/ (\E f \in Files : GenerateFile(f))
                        \/ UNCHANGED vars
  PROVE  Readings'
<1>1. nodes' = nodes /\ results' = results
  BY DEF PrePanics, PostPanics, ReturnPanics, Panic, GenerateFile, vars
<1>2. \/ file' = file /\ stack' = stack /\ cursor' = cursor /\ has' = has
      \/ stack' = <<>>
  BY DEF PrePanics, PostPanics, ReturnPanics, Panic, GenerateFile, vars
<1>3. Dag(nodes') /\ Keeps(nodes, nodes') /\ Distinct(nodes')
  BY <1>1 DEF Inv, Stores, Keeps, Readings
<1>4. file' # None /\ stack' # <<>> /\ HasNodes(file') =>
         ReadSo(file', nodes', stack', cursor', has')
  BY <1>1, <1>2 DEF Readings
<1>5. QED  BY <1>1, <1>3, <1>4, ReadingsGo
-----------------------------------------------------------------------------
\* A file that ends has a reading.
LEMMA ReturnReads ==
  ASSUME Inv, Readings, Return
  PROVE  Readings'
<1>1. Closing /\ Len(stack) = 1
  BY DEF Return
<1>2. PICK P0 : Standing(P0)
  BY <1>1, RunningIs
<1>3. /\ file \in Files /\ file # None /\ Parsed(file) /\ Stores(nodes, mdCache, Roots)
      /\ Dag(nodes) /\ (has = Up \/ Children(cursor) = {}) /\ stack # <<>>
  BY <1>1, RunningIs DEF Closing
<1>4. PICK whole \in Whole :
        /\ whole.ok
        /\ nodes' = whole.nodes
        /\ results' = Append(results, [file |-> file, id |-> whole.id,
                                       metrics |-> whole.metrics])
  BY DEF Return
<1>5. file' = None
  BY DEF Return
<1>6. PICK more : more = whole.nodes
  OBVIOUS
<1>7. PICK id : id = whole.id
  OBVIOUS
<1>8. Dag(more) /\ Keeps(nodes, more) /\ Distinct(more)
  <2>1. Stores(more, whole.cache, Roots \cup {whole.id}) /\ Keeps(nodes, more)
    BY <1>1, <1>2, <1>3, <1>4, <1>6, WholeRight
  <2>2. Distinct(more)
    <3>1. IsList(nodes) /\ Distinct(nodes)
      BY <1>3 DEF Dag, Readings
    <3>2. QED  BY <1>6, <3>1, NodesDistinct
  <2>3. QED  BY <2>1, <2>2 DEF Stores
<1>9. cursor = 1
  BY <1>1, <1>2, <1>3, TopIs
<1>10. ASSUME HasNodes(file)
       PROVE  \E img, slot : slot \in [DOMAIN file.tree -> Nat] /\ Reading(file, more, id, img, slot)
  <2>1. has = Up
    <3>1. ChildrenIn(file, 1) # {}
      BY <1>10 DEF HasNodes
    <3>2. QED  BY <1>3, <1>9, <3>1 DEF Children
  <2>2. PICK P, m, img, slot :
          /\ InReading(file, nodes, stack, P, m, img, slot)
          /\ \A k \in ChildrenIn(file, 1) : k < m
    BY <1>3, <1>9, <1>10, <2>1 DEF Readings, ReadSo
  <2>3. /\ id # 0 /\ Entity(file, more, 1, id)
        /\ RootPut(file, more, id, stack[1].children)
    BY <1>1, <1>2, <1>3, <1>6, <1>7, <1>10, <2>1, WholePuts
  <2>4. PICK f : f = file
    OBVIOUS
  <2>5. PICK ns : ns = nodes
    OBVIOUS
  <2>6. PICK s : s = stack
    OBVIOUS
  <2>7. PICK L : L = s[1].children
    OBVIOUS
  <2>8. PICK M : M = more[id].content.children
    OBVIOUS
  <2>9. RootPut(f, more, id, L)
    BY <2>3, <2>4, <2>6, <2>7
  <2>10. /\ Parsed(f) /\ HasNodes(f) /\ Dag(ns) /\ Dag(more) /\ Keeps(ns, more)
         /\ InReading(f, ns, s, P, m, img, slot) /\ Len(s) = 1
         /\ (\A k \in ChildrenIn(f, 1) : k < m) /\ id # 0 /\ Entity(f, more, 1, id)
         /\ L = s[1].children /\ M = more[id].content.children
         /\ (LastGap(f) = <<>> => M = L)
         /\ (LastGap(f) # <<>> => \E g : M = Append(L, g) /\ IsGap(more, g, LastGap(f)))
    <3>1. /\ LastGap(f) = <<>> => M = L
          /\ LastGap(f) # <<>> => \E g : M = Append(L, g) /\ IsGap(more, g, LastGap(f))
      BY <2>8, <2>9 DEF RootPut
    <3>2. QED  BY <1>1, <1>3, <1>8, <1>10, <2>2, <2>3, <2>4, <2>5, <2>6, <2>7, <2>8, <3>1
  <2>11. \E jmg, tlot : tlot \in [DOMAIN f.tree -> Nat] /\ Reading(f, more, id, jmg, tlot)
    BY ONLY <2>10, ReadingEnds
  <2>12. QED  BY <2>4, <2>11
<1>11. PICK r : r = [file |-> file, id |-> id, metrics |-> whole.metrics]
  OBVIOUS
<1>12. r.file = file /\ r.id = id
  BY <1>11
<1>13. HasReading(more, r)
  BY <1>3, <1>10, <1>12 DEF HasReading
<1>14. IsList(results)
  BY DEF Inv, ResultsRight
<1>15. PICK t : t = Append(results, r)
  OBVIOUS
<1>16. /\ DOMAIN t = 1..(Len(results) + 1)
       /\ (\A i \in DOMAIN results : t[i] = results[i]) /\ t[Len(results) + 1] = r
  BY <1>14, <1>15, ListAppends
<1>17. \A k \in DOMAIN t : k \in DOMAIN results \/ k = Len(results) + 1
  <2>1. Len(results) \in Nat /\ DOMAIN results = 1..Len(results)
    BY <1>14, Lists
  <2>2. QED  BY <1>16, <2>1
<1>18. ASSUME NEW k \in DOMAIN results PROVE HasReading(more, results[k])
  <2>1. PICK q : q = results[k]
    OBVIOUS
  <2>2. PICK ns : ns = nodes
    OBVIOUS
  <2>3. Dag(ns) /\ Dag(more) /\ Keeps(ns, more) /\ HasReading(ns, q)
    BY <1>3, <1>8, <2>1, <2>2 DEF Readings
  <2>4. HasReading(more, q)
    BY ONLY <2>3, ResultStays
  <2>5. QED  BY <2>1, <2>4
<1>19. \A k \in DOMAIN t : HasReading(more, t[k])
  BY <1>13, <1>16, <1>17, <1>18
<1>20. nodes' = more /\ results' = t
  BY <1>4, <1>6, <1>7, <1>11, <1>15
<1>21. QED  BY <1>5, <1>8, <1>19, <1>20 DEF Readings

\* Every step keeps the readings.
LEMMA NextReads ==
  ASSUME Inv, Readings, [Next]_vars
  PROVE  Readings'
<1>1. CASE InitVal
  BY <1>1, InitValReads
<1>2. CASE Descend
  BY <1>2, DescendReads
<1>3. CASE Advance
  BY <1>3, AdvanceReads
<1>4. CASE Ascend
  BY <1>4, AscendReads
<1>5. CASE Return
  BY <1>5, ReturnReads
<1>6. CASE \/ PrePanics \/ PostPanics \/ ReturnPanics \/ (\E f \in Files : GenerateFile(f))
           \/ UNCHANGED vars
  BY <1>6, RestReads
<1>7. QED  BY <1>1, <1>2, <1>3, <1>4, <1>5, <1>6 DEF Next, Step

(* All that is read of the files generated so far holds of every state.    *)
THEOREM ReadingsAlways == Spec => []Readings
<1>1. Init => Readings
  BY InitReads
<1>2. Inv /\ Readings /\ [Next]_vars => Readings'
  BY NextReads
<1>3. Spec => []Inv
  BY InvAlways
<1>4. QED  BY <1>1, <1>2, <1>3, PTL DEF Spec

\* Two results of files with a node.
LEMMA ResultsSame ==
  ASSUME Inv, Readings
  PROVE  SameRootSameFile
<1>1. SUFFICES ASSUME NEW p \in Range(results), NEW q \in Range(results),
                      HasNodes(p.file), HasNodes(q.file)
               PROVE  p.id = q.id <=> SameFile(p.file, q.file)
  BY DEF SameRootSameFile, HasNodes
<1>2. PICK f : f = p.file
  OBVIOUS
<1>3. PICK g : g = q.file
  OBVIOUS
<1>4. PICK id : id = p.id
  OBVIOUS
<1>5. PICK jd : jd = q.id
  OBVIOUS
<1>6. PICK ns : ns = nodes
  OBVIOUS
<1>7. PICK j \in DOMAIN results, k \in DOMAIN results : p = results[j] /\ q = results[k]
  BY DEF Range
<1>8. /\ HasReading(ns, p) /\ HasReading(ns, q) /\ Distinct(ns)
  BY <1>6, <1>7 DEF Readings
<1>9. Parsed(f) /\ Parsed(g) /\ HasNodes(f) /\ HasNodes(g)
  BY <1>1, <1>2, <1>3, <1>8, FilesAssumption DEF HasReading
<1>10. PICK img, slot : Reading(f, ns, id, img, slot)
  BY <1>2, <1>4, <1>8, <1>9 DEF HasReading
<1>11. PICK jmg, tlot : Reading(g, ns, jd, jmg, tlot)
  BY <1>3, <1>5, <1>8, <1>9 DEF HasReading
<1>12. ASSUME id = jd PROVE SameFile(f, g)
  <2>1. /\ Parsed(f) /\ Parsed(g) /\ HasNodes(f) /\ HasNodes(g)
        /\ Reading(f, ns, id, img, slot) /\ Reading(g, ns, id, jmg, tlot)
    BY <1>9, <1>10, <1>11, <1>12
  <2>2. QED  BY ONLY <2>1, OneRootOneFile
<1>13. ASSUME SameFile(f, g) PROVE id = jd
  <2>1. /\ Parsed(f) /\ Parsed(g) /\ HasNodes(f) /\ HasNodes(g) /\ SameFile(f, g) /\ Distinct(ns)
        /\ Reading(f, ns, id, img, slot) /\ Reading(g, ns, jd, jmg, tlot)
    BY <1>8, <1>9, <1>10, <1>11, <1>13
  <2>2. QED  BY ONLY <2>1, OneFileOneRoot
<1>14. QED  BY <1>2, <1>3, <1>4, <1>5, <1>12, <1>13

(* Two generated files have the same root if, and only if, they are the    *)
(* same file, whatever was generated before, between and after them: the   *)
(* stores that all files share neither merge nor duplicate.                *)
THEOREM OneRootPerFile == Spec => []SameRootSameFile
<1>1. Inv /\ Readings => SameRootSameFile
  BY ResultsSame
<1>2. QED  BY <1>1, InvAlways, ReadingsAlways, PTL
=============================================================================
