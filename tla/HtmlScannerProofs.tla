------------------------- MODULE HtmlScannerProofs -------------------------
(***************************************************************************)
(* The stack of the scanner follows the open elements of the parser, for   *)
(* every size of the buffer, every set of names and every nesting.  The    *)
(* invariant is that the saved bytes are those of some stack of tags that  *)
(* agrees with the open elements; what saving and restoring does to any    *)
(* stack is shown apart, by induction over its places.                     *)
(***************************************************************************)
EXTENDS HtmlScanner, Induction

(***************************************************************************)
(* Tags                                                                    *)
(***************************************************************************)

(* No known name is CUSTOM or END_OF_VOID_TAGS.                            *)
LEMMA OtherTypes == "CUSTOM" \notin TagNames /\ "END_OF_VOID_TAGS" \notin TagNames
BY DEF TagNames, VoidTags, NotAllowedInParagraphs

(* The tag of a name, and what writing cuts of it.                         *)
LEMMA TagOfName ==
  ASSUME NEW n \in Names
  PROVE  /\ ForName(n) \in Tag /\ ForName(n) # Unknown
         /\ n \in TagNames => Cut[n] = n
         /\ Written(ForName(n)) = IF n \in TagNames THEN [type |-> n, name |-> ""]
                                  ELSE [type |-> "CUSTOM", name |-> Cut[n]]
<1>1. ForName(n) \in Tag
  BY DEF Tag
<1>2. ForName(n) # Unknown
  BY OtherTypes DEF ForName, Unknown
<1>3. n \in TagNames => Cut[n] = n
  BY NamesAssumption, KnownNamesAssumption
<1>4. CASE n \in TagNames
  BY <1>1, <1>2, <1>3, <1>4, OtherTypes DEF ForName, Written
<1>5. CASE n \notin TagNames
  <2>1. ForName(n) = [type |-> "CUSTOM", name |-> n]
    BY <1>5 DEF ForName
  <2>2. QED  BY <1>1, <1>2, <1>3, <1>5, <2>1 DEF Written
<1>6. QED  BY <1>4, <1>5

(* Cutting a name again cuts nothing.                                      *)
LEMMA CutTwice ==
  ASSUME NEW n \in Names
  PROVE  Cut[n] \in Names /\ Cut[Cut[n]] = Cut[n] /\ NameLength[Cut[n]] \in Nat
BY NamesAssumption, SizesAssumption

(* Writing a tag gives a tag of the same type and size, and all it can.    *)
LEMMA WrittenTag ==
  ASSUME NEW tag \in Tag
  PROVE  /\ Written(tag) \in Tag
         /\ Written(tag).type = tag.type
         /\ Written(Written(tag)) = Written(tag)
         /\ Cost(tag) \in Nat \ {0}
         /\ Cost(Written(tag)) = Cost(tag)
         /\ tag = Unknown <=> Written(tag) = Unknown
<1>1. CASE tag.type # "CUSTOM"
  BY <1>1 DEF Written, Cost
<1>2. CASE tag.type = "CUSTOM"
  <2>1. PICK n \in Names : tag = ForName(n) /\ n \notin TagNames
    <3>1. Unknown.type # "CUSTOM"
      BY DEF Unknown
    <3>2. PICK n \in Names : tag = ForName(n)
      BY <1>2, <3>1 DEF Tag
    <3>3. n \notin TagNames
      <4>1. n \in TagNames => ForName(n).type = n
        BY DEF ForName
      <4>2. QED  BY <1>2, <3>2, <4>1, OtherTypes
    <3>4. QED  BY <3>2, <3>3
  <2>2. tag = [type |-> "CUSTOM", name |-> n]
    BY <2>1 DEF ForName
  <2>3. Written(tag) = [type |-> "CUSTOM", name |-> Cut[n]]
    BY <2>2 DEF Written
  <2>4. Written(Written(tag)) = Written(tag)
    BY <2>3, CutTwice DEF Written
  <2>5. Written(tag) = ForName(Cut[n])
    BY <2>1, <2>3, KnownNamesAssumption DEF ForName
  <2>6. Written(tag) \in Tag
    BY <2>5, CutTwice DEF Tag
  <2>7. Cost(tag) = 2 + NameLength[Cut[n]] /\ Cost(Written(tag)) = Cost(tag)
    BY <2>2, <2>3, CutTwice DEF Cost
  <2>8. Written(tag) # Unknown /\ tag # Unknown
    <3>1. Unknown.type # "CUSTOM"
      BY DEF Unknown
    <3>2. Written(tag).type = "CUSTOM" /\ tag.type = "CUSTOM"
      BY <2>2, <2>3
    <3>3. QED  BY <3>1, <3>2
  <2>9. Cost(tag) \in Nat \ {0}
    BY <2>7, CutTwice
  <2>10. QED  BY <2>2, <2>3, <2>4, <2>6, <2>7, <2>8, <2>9
<1>3. QED  BY <1>1, <1>2

LEMMA UnknownTag == Unknown \in Tag /\ Written(Unknown) = Unknown
BY DEF Tag, Written, Unknown

(***************************************************************************)
(* Saving and restoring                                                    *)
(***************************************************************************)

\* what EndOf(tags) is the answer of
Ends(e, tags) ==
  e = [j \in 0 .. Len(tags) |-> IF j = 0 THEN 4 ELSE e[j - 1] + Cost(tags[j])]

\* the same up to the m-th tag only
EndsUpTo(e, tags, m) ==
  e = [j \in 0 .. m |-> IF j = 0 THEN 4 ELSE e[j - 1] + Cost(tags[j])]

(* The bytes of any stack have ends.                                       *)
LEMMA EndsExists ==
  ASSUME NEW tags \in Seq(Tag)
  PROVE  \E e : Ends(e, tags)
<1> DEFINE T == {m \in Nat : \E e : EndsUpTo(e, tags, m)}
<1>1. 0 \in T
  <2>1. EndsUpTo([j \in 0 .. 0 |-> 4], tags, 0)
    BY DEF EndsUpTo
  <2>2. QED  BY <2>1
<1>2. ASSUME NEW m \in Nat, m \in T PROVE m + 1 \in T
  <2>1. PICK e : EndsUpTo(e, tags, m)
    BY <1>2
  <2> DEFINE f == [j \in 0 .. m + 1 |->
                     IF j = m + 1 THEN e[m] + Cost(tags[m + 1]) ELSE e[j]]
  <2>2. \A j \in 0 .. m + 1 :
          f[j] = IF j = 0 THEN 4 ELSE f[j - 1] + Cost(tags[j])
    <3>1. \A j \in 0 .. m : e[j] = IF j = 0 THEN 4 ELSE e[j - 1] + Cost(tags[j])
      BY <2>1 DEF EndsUpTo
    <3>2. QED  BY <3>1
  <2>3. EndsUpTo(f, tags, m + 1)
    BY <2>2 DEF EndsUpTo
  <2>4. QED  BY <2>3
<1>3. Nat \subseteq T
  <2> HIDE DEF T
  <2>1. QED  BY <1>1, <1>2, Induction
<1>4. QED  BY <1>3 DEF Ends, EndsUpTo

(* EndOf is the sum of the costs it is written as.                         *)
LEMMA EndOfIsSum ==
  ASSUME NEW tags \in Seq(Tag)
  PROVE  /\ EndOf(tags)[0] = 4
         /\ \A j \in 1 .. Len(tags) :
              EndOf(tags)[j] = EndOf(tags)[j - 1] + Cost(tags[j])
<1> DEFINE e == CHOOSE f : Ends(f, tags)
<1>1. EndOf(tags) = e
  BY DEF EndOf, Ends
<1>2. Ends(e, tags)
  BY EndsExists
<1>3. \A j \in 0 .. Len(tags) : e[j] = IF j = 0 THEN 4 ELSE e[j - 1] + Cost(tags[j])
  <2> HIDE DEF e
  <2>1. QED  BY <1>2 DEF Ends
<1>4. QED
  <2> HIDE DEF e
  <2>1. QED  BY <1>1, <1>3

(* Ends are numbers, and each is after the ones before.                    *)
LEMMA EndOfGrows ==
  ASSUME NEW tags \in Seq(Tag)
  PROVE  /\ \A j \in 0 .. Len(tags) : EndOf(tags)[j] \in Nat
         /\ \A j \in 0 .. Len(tags) : \A i \in 0 .. j :
              EndOf(tags)[i] <= EndOf(tags)[j]
<1> DEFINE T == {m \in Nat : m <= Len(tags) =>
                   /\ EndOf(tags)[m] \in Nat
                   /\ \A i \in 0 .. m : EndOf(tags)[i] \in Nat
                                        /\ EndOf(tags)[i] <= EndOf(tags)[m]}
<1>1. 0 \in T
  BY EndOfIsSum
<1>2. ASSUME NEW m \in Nat, m \in T PROVE m + 1 \in T
  <2>1. SUFFICES ASSUME m + 1 <= Len(tags)
                 PROVE  /\ EndOf(tags)[m + 1] \in Nat
                        /\ \A i \in 0 .. m + 1 : EndOf(tags)[i] \in Nat
                             /\ EndOf(tags)[i] <= EndOf(tags)[m + 1]
    OBVIOUS
  <2>2. Cost(tags[m + 1]) \in Nat
    BY <2>1, WrittenTag
  <2>3. EndOf(tags)[m + 1] = EndOf(tags)[m] + Cost(tags[m + 1])
    BY <2>1, EndOfIsSum
  <2>4. /\ EndOf(tags)[m] \in Nat
        /\ \A i \in 0 .. m : EndOf(tags)[i] \in Nat /\ EndOf(tags)[i] <= EndOf(tags)[m]
    BY <1>2, <2>1
  <2>5. QED  BY <2>2, <2>3, <2>4
<1>3. Nat \subseteq T
  <2> HIDE DEF T
  <2>1. QED  BY <1>1, <1>2, Induction
<1>4. QED  BY <1>3

(* Stacks whose first tags have the same sizes have the same first ends.   *)
LEMMA EndOfAgrees ==
  ASSUME NEW s \in Seq(Tag), NEW t \in Seq(Tag), NEW m \in Nat,
         m <= Len(s), m <= Len(t),
         \A j \in 1 .. m : Cost(s[j]) = Cost(t[j])
  PROVE  \A j \in 0 .. m : EndOf(s)[j] = EndOf(t)[j]
<1> DEFINE T == {k \in Nat : k <= m => EndOf(s)[k] = EndOf(t)[k]}
<1>1. 0 \in T
  BY EndOfIsSum
<1>2. ASSUME NEW k \in Nat, k \in T PROVE k + 1 \in T
  <2>1. SUFFICES ASSUME k + 1 <= m PROVE EndOf(s)[k + 1] = EndOf(t)[k + 1]
    OBVIOUS
  <2>2. /\ EndOf(s)[k + 1] = EndOf(s)[k] + Cost(s[k + 1])
        /\ EndOf(t)[k + 1] = EndOf(t)[k] + Cost(t[k + 1])
    BY <2>1, EndOfIsSum
  <2>3. QED  BY <1>2, <2>1, <2>2
<1>3. Nat \subseteq T
  <2> HIDE DEF T
  <2>1. QED  BY <1>1, <1>2, Induction
<1>4. QED  BY <1>3

(* The tags that fit are the oldest ones, as each only takes more bytes:   *)
(* nothing is written after the first tag that does not fit.               *)
LEMMA OldestFit ==
  ASSUME NEW tags \in Seq(Tag)
  PROVE  \E fits \in 0 .. Len(tags) :
           {j \in 1 .. Len(tags) : EndOf(tags)[j] < BufferSize} = 1 .. fits
<1> DEFINE In(m) == {j \in 1 .. m : EndOf(tags)[j] < BufferSize}
           T == {m \in Nat : m <= Len(tags) =>
                   \E fits \in 0 .. m : In(m) = 1 .. fits}
<1>1. 0 \in T
  OBVIOUS
<1>2. ASSUME NEW m \in Nat, m \in T PROVE m + 1 \in T
  <2>1. SUFFICES ASSUME m + 1 <= Len(tags)
                 PROVE  \E fits \in 0 .. m + 1 : In(m + 1) = 1 .. fits
    OBVIOUS
  <2>2. PICK fits \in 0 .. m : In(m) = 1 .. fits
    BY <1>2, <2>1
  <2>3. CASE EndOf(tags)[m + 1] < BufferSize
    <3>1. \A j \in 1 .. m + 1 : EndOf(tags)[j] < BufferSize
      <4>1. \A j \in 1 .. m + 1 : /\ EndOf(tags)[j] <= EndOf(tags)[m + 1]
                                  /\ EndOf(tags)[j] \in Nat
                                  /\ EndOf(tags)[m + 1] \in Nat
        BY <2>1, EndOfGrows
      <4>2. QED  BY <2>3, <4>1, SizesAssumption
    <3>2. In(m + 1) = 1 .. m + 1
      BY <3>1
    <3>3. QED  BY <3>2
  <2>4. CASE ~(EndOf(tags)[m + 1] < BufferSize)
    <3>1. In(m + 1) = In(m)
      BY <2>4
    <3>2. QED  BY <2>2, <3>1
  <2>5. QED  BY <2>3, <2>4
<1>3. Nat \subseteq T
  <2> HIDE DEF T
  <2>1. QED  BY <1>1, <1>2, Induction
<1>4. QED  BY <1>3

(* What is saved of a stack no deeper than the count goes: its depth, and  *)
(* of its oldest tags what writing leaves of them.                         *)
LEMMA Saved ==
  ASSUME NEW tags \in Seq(Tag), Len(tags) <= CountMax
  PROVE  /\ Serialize(tags) = [count |-> Len(tags), kept |-> Serialize(tags).kept]
         /\ Serialize(tags).kept \in Seq(Tag)
         /\ Len(Serialize(tags).kept) <= Len(tags)
         /\ \A j \in DOMAIN Serialize(tags).kept :
              Serialize(tags).kept[j] = Written(tags[j])
         /\ \A j \in 1 .. Len(tags) :
              j <= Len(Serialize(tags).kept) <=> EndOf(tags)[j] < BufferSize
<1>1. PICK fits \in 0 .. Len(tags) :
        {j \in 1 .. Len(tags) : EndOf(tags)[j] < BufferSize} = 1 .. fits
  BY OldestFit
<1>2. Cardinality(1 .. fits) = fits
  BY FS_Interval
<1>3. ~(Len(tags) > CountMax)
  BY SizesAssumption
<1>4. Serialize(tags) = [count |-> Len(tags),
                         kept |-> [j \in 1 .. fits |-> Written(tags[j])]]
  BY <1>1, <1>2, <1>3 DEF Serialize
<1>5. [j \in 1 .. fits |-> Written(tags[j])] \in Seq(Tag)
  BY WrittenTag
<1>6. QED  BY <1>1, <1>4, <1>5

(* What is restored of a stack has its depth, and has each of its tags as  *)
(* writing leaves it, or a tag of which nothing is known.                  *)
LEMMA Restored ==
  ASSUME NEW tags \in Seq(Tag), Len(tags) <= CountMax
  PROVE  /\ Deserialize(Serialize(tags)) \in Seq(Tag)
         /\ Len(Deserialize(Serialize(tags))) = Len(tags)
         /\ \A j \in 1 .. Len(tags) :
              Deserialize(Serialize(tags))[j] =
                IF EndOf(tags)[j] < BufferSize THEN Written(tags[j]) ELSE Unknown
<1> DEFINE kept == Serialize(tags).kept
<1>1. Deserialize(Serialize(tags)) =
        [j \in 1 .. Len(tags) |-> IF j <= Len(kept) THEN kept[j] ELSE Unknown]
  BY Saved DEF Deserialize
<1>2. \A j \in 1 .. Len(tags) : j <= Len(kept) => j \in DOMAIN kept /\ kept[j] \in Tag
  BY Saved
<1>3. \A j \in 1 .. Len(tags) :
        (IF j <= Len(kept) THEN kept[j] ELSE Unknown) \in Tag
  BY <1>2, UnknownTag
<1>4. \A j \in 1 .. Len(tags) :
        (IF j <= Len(kept) THEN kept[j] ELSE Unknown)
          = IF EndOf(tags)[j] < BufferSize THEN Written(tags[j]) ELSE Unknown
  BY <1>2, Saved
<1> HIDE DEF kept
<1>5. QED  BY <1>1, <1>3, <1>4

(* Saving what was restored and restoring it changes nothing: what fitted  *)
(* fits again, and nothing is lost of what nothing is known of.            *)
LEMMA SavedTwice ==
  ASSUME NEW tags \in Seq(Tag), Len(tags) <= CountMax,
         NEW again, again = Deserialize(Serialize(tags))
  PROVE  Deserialize(Serialize(again)) = again
<1>1. /\ again \in Seq(Tag) /\ Len(again) = Len(tags)
      /\ \A j \in 1 .. Len(tags) :
           again[j] = IF EndOf(tags)[j] < BufferSize THEN Written(tags[j]) ELSE Unknown
  BY Restored
<1>2. \A j \in 1 .. Len(tags) :
        EndOf(tags)[j] < BufferSize => EndOf(again)[j] = EndOf(tags)[j]
  <2>1. SUFFICES ASSUME NEW j \in 1 .. Len(tags), EndOf(tags)[j] < BufferSize
                 PROVE  EndOf(again)[j] = EndOf(tags)[j]
    OBVIOUS
  <2>2. \A i \in 1 .. j : again[i] = Written(tags[i])
    <3>1. \A i \in 1 .. j : /\ EndOf(tags)[i] <= EndOf(tags)[j]
                            /\ EndOf(tags)[i] \in Nat /\ EndOf(tags)[j] \in Nat
      BY EndOfGrows
    <3>2. \A i \in 1 .. j : EndOf(tags)[i] < BufferSize
      BY <2>1, <3>1, SizesAssumption
    <3>3. QED  BY <1>1, <3>2
  <2>3. \A i \in 1 .. j : Cost(again[i]) = Cost(tags[i])
    <3>1. \A i \in 1 .. j : tags[i] \in Tag
      OBVIOUS
    <3>2. QED  BY <2>2, <3>1, WrittenTag
  <2>4. QED  BY <1>1, <2>3, EndOfAgrees
<1>3. /\ Deserialize(Serialize(again)) \in Seq(Tag)
      /\ Len(Deserialize(Serialize(again))) = Len(again)
      /\ \A j \in 1 .. Len(again) :
           Deserialize(Serialize(again))[j] =
             IF EndOf(again)[j] < BufferSize THEN Written(again[j]) ELSE Unknown
  BY <1>1, Restored
<1>4. \A j \in 1 .. Len(tags) : Deserialize(Serialize(again))[j] = again[j]
  <2>1. SUFFICES ASSUME NEW j \in 1 .. Len(tags)
                 PROVE  Deserialize(Serialize(again))[j] = again[j]
    OBVIOUS
  <2>2. CASE EndOf(tags)[j] < BufferSize
    <3>1. Written(again[j]) = again[j]
      BY <1>1, <2>2, WrittenTag
    <3>2. QED  BY <1>1, <1>2, <1>3, <2>2, <3>1
  <2>3. CASE ~(EndOf(tags)[j] < BufferSize)
    BY <1>1, <1>3, <2>3, UnknownTag
  <2>4. QED  BY <2>2, <2>3
<1>5. QED  BY <1>1, <1>3, <1>4

(***************************************************************************)
(* Stacks and open elements                                                *)
(***************************************************************************)

\* An element inside another one: allowed by tag.h, unless the name in its
\* start tag was apart from the <.
Admits(tag, element) == ~element.apart => CanContain(tag, ForName(element.name))

\* A stack has a tag for each open element: what the scanner knows of it is
\* what its start tag said, up to the cut, and admits the element inside it.
Agree(stack, elements) ==
  /\ Len(stack) = Len(elements)
  /\ \A i \in 1 .. Len(stack) :
       stack[i] # Unknown => Written(stack[i]) = Written(ForName(elements[i].name))
  /\ \A i \in 1 .. Len(stack) - 1 :
       ~IsVoid(stack[i]) /\ Admits(stack[i], elements[i + 1])

Pop(s) == SubSeq(s, 1, Len(s) - 1)

(* What tag.h says of a tag depends on its type; of one that is unknown,   *)
(* that it may contain anything.                                           *)
LEMMA RulesOfType ==
  ASSUME NEW t, NEW u, NEW child, t.type = u.type
  PROVE  /\ IsVoid(t) <=> IsVoid(u)
         /\ Admits(t, child) <=> Admits(u, child)
BY DEF IsVoid, Admits, CanContain

LEMMA RulesOfUnknown ==
  ASSUME NEW child
  PROVE  ~IsVoid(Unknown) /\ Admits(Unknown, child)
<1>1. ~IsVoid(Unknown)
  BY DEF IsVoid, Unknown, VoidTags
<1>2. Admits(Unknown, child)
  BY DEF Admits, CanContain, Unknown
<1>3. QED  BY <1>1, <1>2

(* Saving and restoring a stack, it still agrees.                          *)
LEMMA AgreeRestored ==
  ASSUME NEW tags \in Seq(Tag), Len(tags) <= CountMax,
         NEW elements \in Seq(StartTags), Agree(tags, elements)
  PROVE  Agree(Deserialize(Serialize(tags)), elements)
<1> DEFINE again == Deserialize(Serialize(tags))
<1>1. /\ again \in Seq(Tag) /\ Len(again) = Len(tags)
      /\ \A j \in 1 .. Len(tags) : tags[j] \in Tag /\ again[j] \in {Unknown, Written(tags[j])}
  BY Restored
<1> HIDE DEF again
<1>2. ASSUME NEW i \in 1 .. Len(again), again[i] # Unknown
      PROVE  Written(again[i]) = Written(ForName(elements[i].name))
  <2>1. again[i] = Written(tags[i]) /\ tags[i] # Unknown
    BY <1>1, <1>2, WrittenTag
  <2>2. Written(again[i]) = Written(tags[i])
    BY <1>1, <2>1, WrittenTag
  <2>3. QED  BY <1>1, <2>1, <2>2 DEF Agree
<1>3. ASSUME NEW i \in 1 .. Len(again) - 1
      PROVE  ~IsVoid(again[i]) /\ Admits(again[i], elements[i + 1])
  <2>1. CASE again[i] = Unknown
    BY <2>1, RulesOfUnknown
  <2>2. CASE again[i] # Unknown
    <3>1. again[i].type = tags[i].type
      BY <1>1, <2>2, WrittenTag
    <3>2. i \in 1 .. Len(tags) - 1
      BY <1>1
    <3>3. ~IsVoid(tags[i]) /\ Admits(tags[i], elements[i + 1])
      BY <3>2 DEF Agree
    <3>4. QED  BY <3>1, <3>3, RulesOfType
  <2>3. QED  BY <2>1, <2>2
<1>4. QED  BY <1>1, <1>2, <1>3 DEF Agree, again

(* Closing the innermost element, and forgetting its tag.                  *)
LEMMA AgreePopped ==
  ASSUME NEW tags \in Seq(Tag), NEW elements \in Seq(StartTags),
         Agree(tags, elements), elements # << >>
  PROVE  /\ Pop(tags) \in Seq(Tag) /\ Pop(elements) \in Seq(StartTags)
         /\ Len(Pop(tags)) = Len(tags) - 1
         /\ Agree(Pop(tags), Pop(elements))
<1>1. Len(tags) = Len(elements) /\ Len(tags) \in Nat \ {0}
  BY DEF Agree
<1>2. /\ Pop(tags) \in Seq(Tag) /\ Pop(elements) \in Seq(StartTags)
      /\ Len(Pop(tags)) = Len(tags) - 1 /\ Len(Pop(elements)) = Len(tags) - 1
      /\ \A i \in 1 .. Len(tags) - 1 :
           Pop(tags)[i] = tags[i] /\ Pop(elements)[i] = elements[i]
  BY <1>1 DEF Pop
<1> HIDE DEF Pop
<1>3. ASSUME NEW i \in 1 .. Len(tags) - 1
      PROVE  /\ Pop(tags)[i] # Unknown =>
                  Written(Pop(tags)[i]) = Written(ForName(Pop(elements)[i].name))
             /\ i # Len(tags) - 1 =>
                  /\ ~IsVoid(Pop(tags)[i])
                  /\ Admits(Pop(tags)[i], Pop(elements)[i + 1])
  <2>1. tags[i] # Unknown => Written(tags[i]) = Written(ForName(elements[i].name))
    BY <1>1 DEF Agree
  <2>2. ~IsVoid(tags[i]) /\ Admits(tags[i], elements[i + 1])
    BY <1>1 DEF Agree
  <2>3. i # Len(tags) - 1 => i + 1 \in 1 .. Len(tags) - 1
    BY <1>1
  <2>4. QED  BY <1>2, <2>1, <2>2, <2>3
<1>4. Agree(Pop(tags), Pop(elements))
  <2>1. \A i \in 1 .. Len(tags) - 1 : i \in 1 .. Len(tags) - 2 <=> i # Len(tags) - 1
    BY <1>1
  <2>2. 1 .. Len(tags) - 2 \subseteq 1 .. Len(tags) - 1 /\ Len(tags) - 1 - 1 = Len(tags) - 2
    BY <1>1
  <2>3. \A i \in 1 .. Len(Pop(tags)) - 1 :
          ~IsVoid(Pop(tags)[i]) /\ Admits(Pop(tags)[i], Pop(elements)[i + 1])
    BY <1>2, <1>3, <2>1, <2>2
  <2>4. QED  BY <1>2, <1>3, <2>3 DEF Agree
<1>5. QED  BY <1>2, <1>4

(* Opening an element in one that may contain it.                          *)
LEMMA AgreePushed ==
  ASSUME NEW tags \in Seq(Tag), NEW elements \in Seq(StartTags), NEW n \in StartTags,
         Agree(tags, elements),
         elements # << >> => /\ ~IsVoid(tags[Len(tags)])
                             /\ Admits(tags[Len(tags)], n)
  PROVE  /\ Append(tags, ForName(n.name)) \in Seq(Tag)
         /\ Append(elements, n) \in Seq(StartTags)
         /\ Len(Append(tags, ForName(n.name))) = Len(tags) + 1
         /\ Agree(Append(tags, ForName(n.name)), Append(elements, n))
<1> DEFINE s == Append(tags, ForName(n.name))
           t == Append(elements, n)
<1>1. Len(tags) = Len(elements) /\ ForName(n.name) \in Tag
  BY TagOfName DEF Agree, StartTags
<1>2. /\ s \in Seq(Tag) /\ t \in Seq(StartTags)
      /\ Len(s) = Len(tags) + 1 /\ Len(t) = Len(tags) + 1
      /\ s[Len(tags) + 1] = ForName(n.name) /\ t[Len(tags) + 1] = n
      /\ \A i \in 1 .. Len(tags) : s[i] = tags[i] /\ t[i] = elements[i]
  BY <1>1
<1> HIDE DEF s, t
<1>3. ASSUME NEW i \in 1 .. Len(s), s[i] # Unknown
      PROVE  Written(s[i]) = Written(ForName(t[i].name))
  <2>1. CASE i = Len(tags) + 1
    BY <1>2, <2>1
  <2>2. CASE i \in 1 .. Len(tags)
    BY <1>2, <1>3, <2>2 DEF Agree
  <2>3. QED  BY <1>2, <2>1, <2>2
<1>4. ASSUME NEW i \in 1 .. Len(s) - 1
      PROVE  ~IsVoid(s[i]) /\ Admits(s[i], t[i + 1])
  <2>1. CASE i = Len(tags)
    <3>1. elements # << >> /\ s[i] = tags[Len(tags)] /\ t[i + 1] = n
      BY <1>1, <1>2, <2>1
    <3>2. QED  BY <3>1
  <2>2. CASE i \in 1 .. Len(tags) - 1
    BY <1>2, <2>2 DEF Agree
  <2>3. QED  BY <1>2, <2>1, <2>2
<1>5. QED  BY <1>2, <1>3, <1>4 DEF Agree, s, t

(***************************************************************************)
(* The scanner                                                             *)
(***************************************************************************)

\* The saved bytes are those of a stack that agrees with the open elements.
Followed ==
  \E tags \in Seq(Tag) :
    Len(tags) <= MaxDepth /\ saved = Serialize(tags) /\ Agree(tags, opened)

\* The parser's side: no start tag beyond the bound, and the places that an
\* open element alone leads to.
Placed ==
  /\ opened \in Seq(StartTags) /\ Len(opened) <= MaxDepth
  /\ ctx \in Contexts /\ look \in Looks /\ result \in Results
  /\ ctx = "content" /\ look.kind = "open" => Len(opened) < MaxDepth
  /\ ctx \in {"attributes", "raw", "raw end"} => opened # << >>

Inv == Placed /\ Followed

(* The stack a scan starts with.                                           *)
LEMMA TagsFollow ==
  ASSUME Inv
  PROVE  /\ Tags \in Seq(Tag) /\ Len(Tags) = Len(opened)
         /\ Agree(Tags, opened)
         /\ \A i \in 1 .. Len(Tags) :
              Tags[i] # Unknown => Tags[i] = Written(ForName(opened[i].name))
         /\ Deserialize(Serialize(Tags)) = Tags
<1>1. PICK tags \in Seq(Tag) :
        Len(tags) <= MaxDepth /\ saved = Serialize(tags) /\ Agree(tags, opened)
  BY DEF Inv, Followed
<1>2. Tags = Deserialize(Serialize(tags)) /\ Len(tags) <= CountMax
  BY <1>1, SizesAssumption DEF Tags
<1>3. opened \in Seq(StartTags)
  BY DEF Inv, Placed
<1>4. /\ Tags \in Seq(Tag) /\ Len(Tags) = Len(tags)
      /\ \A j \in 1 .. Len(tags) : tags[j] \in Tag /\ Tags[j] \in {Unknown, Written(tags[j])}
  BY <1>2, Restored
<1>5. Agree(Tags, opened)
  BY <1>1, <1>2, <1>3, AgreeRestored
<1>6. \A i \in 1 .. Len(Tags) : Tags[i] # Unknown => Written(Tags[i]) = Tags[i]
  BY <1>4, WrittenTag
<1>7. Deserialize(Serialize(Tags)) = Tags
  BY <1>2, SavedTwice
<1>8. Len(Tags) = Len(opened)
  BY <1>5 DEF Agree
<1>9. \A i \in 1 .. Len(Tags) :
        Tags[i] # Unknown => Tags[i] = Written(ForName(opened[i].name))
  BY <1>5, <1>6 DEF Agree
<1>10. QED  BY <1>4, <1>5, <1>7, <1>8, <1>9

(* A name that is met in a document is one.                                *)
LEMMA NameMet ==
  ASSUME look \in Looks, Named("open")
  PROVE  [name |-> look.name, apart |-> look.apart] \in StartTags
<1>1. look.kind = "open" /\ look.name # ""
  BY DEF Named
<1>2. look \in {Open(n) : n \in Names} \cup {Apart(Open(n)) : n \in Names}
  <2>1. \A n : /\ Close(n).kind = "close" /\ Shadowed(n).kind = "shadowed"
               /\ Apart(Close(n)).kind = "close"
    BY DEF Close, Shadowed, Apart, Look
  <2>2. /\ Text.kind = "text" /\ Eof.kind = "eof"
        /\ Nameless("open").name = "" /\ Nameless("close").name = ""
    BY DEF Text, Eof, Nameless, Look
  <2>3. /\ look \notin {Text, Eof, Nameless("open"), Nameless("close")}
        /\ look \notin {Shadowed(n) : n \in Names}
        /\ look \notin {Close(n) : n \in Names}
        /\ look \notin {Apart(Close(n)) : n \in Names}
    <3>1. "text" # "open" /\ "eof" # "open" /\ "close" # "open" /\ "shadowed" # "open"
      OBVIOUS
    <3>2. QED  BY <1>1, <2>1, <2>2, <3>1, Zenon
  <2>4. look \in Heads \cup {Apart(l) : l \in Heads}
    BY <2>3, Zenon DEF Looks
  <2>5. CASE look \in Heads
    BY <2>3, <2>5, Zenon DEF Heads
  <2>6. ASSUME NEW l \in Heads, look = Apart(l)
        PROVE  look \in {Apart(Open(n)) : n \in Names}
    BY <2>3, <2>6, Zenon DEF Heads
  <2>7. QED  BY <2>4, <2>5, <2>6
<1>3. PICK n \in Names : look = Open(n) \/ look = Apart(Open(n))
  BY <1>2
<1>4. look.name = n /\ (look.apart = TRUE \/ look.apart = FALSE)
  BY <1>3 DEF Open, Apart, Look
<1>5. QED  BY <1>4 DEF StartTags

(* An element that is closed, with the tag on top of the stack.            *)
LEMMA Closes ==
  ASSUME Inv, opened # << >>, Emit(result', Popped),
         opened' = SubSeq(opened, 1, Len(opened) - 1)
  PROVE  /\ Followed' /\ opened' \in Seq(StartTags)
         /\ Len(opened') < MaxDepth
<1>1. opened' = Pop(opened) /\ Popped = Pop(Tags) /\ saved' = Serialize(Popped)
  BY DEF Pop, Popped, Emit
<1>2. /\ opened \in Seq(StartTags) /\ Len(opened) <= MaxDepth /\ MaxDepth \in Nat
      /\ Len(opened) \in Nat \ {0}
  <2>1. opened \in Seq(StartTags) /\ Len(opened) <= MaxDepth
    BY DEF Inv, Placed
  <2>2. Len(opened) \in Nat \ {0}
    BY <2>1
  <2>3. QED  BY <2>1, <2>2, SizesAssumption
<1>3. /\ Popped \in Seq(Tag) /\ opened' \in Seq(StartTags)
      /\ Len(Popped) = Len(opened) - 1 /\ Agree(Popped, opened')
  BY <1>1, <1>2, TagsFollow, AgreePopped
<1>4. Followed'
  BY <1>1, <1>2, <1>3 DEF Followed
<1>5. Len(opened') = Len(Popped)
  BY <1>3 DEF Agree
<1>6. QED  BY <1>2, <1>3, <1>4, <1>5

(* Tags saved as they were restored.                                       *)
LEMMA SavesTags ==
  ASSUME Inv, Emit(result', Tags), opened' = opened
  PROVE  Followed'
<1>1. /\ Tags \in Seq(Tag) /\ Len(Tags) <= MaxDepth /\ Agree(Tags, opened)
  BY TagsFollow DEF Inv, Placed
<1>2. QED  BY <1>1 DEF Followed, Emit

(* An element that is opened where the parser went on.                     *)
LEMMA Opens ==
  ASSUME Inv, StartTag
  PROVE  Followed' /\ opened' \in Seq(StartTags) /\ Len(opened') <= MaxDepth
<1>1. PICK e : e = [name |-> look.name, apart |-> look.apart]
  OBVIOUS
<1>2. /\ ctx = "content" /\ Named("open") /\ look.kind = "open"
      /\ opened' = Append(opened, e)
      /\ saved' = Serialize(Append(Tags, ForName(e.name)))
      /\ opened # << >> => ~EndsImplicitly
  BY <1>1 DEF StartTag, Emit, Proceeds, Named
<1>3. /\ e \in StartTags
      /\ opened \in Seq(StartTags) /\ Len(opened) < MaxDepth /\ MaxDepth \in Nat
  BY <1>1, <1>2, NameMet, SizesAssumption DEF Inv, Placed
<1>4. opened # << >> => ~IsVoid(Top) /\ Admits(Top, e)
  BY <1>1, <1>2 DEF EndsImplicitly, NamedAtOnce, Admits
<1>5. Tags \in Seq(Tag) /\ Len(Tags) = Len(opened) /\ Agree(Tags, opened)
  BY TagsFollow
<1>6. /\ Append(Tags, ForName(e.name)) \in Seq(Tag)
      /\ opened' \in Seq(StartTags)
      /\ Len(Append(Tags, ForName(e.name))) = Len(Tags) + 1
      /\ Agree(Append(Tags, ForName(e.name)), opened')
  BY <1>2, <1>3, <1>4, <1>5, AgreePushed DEF Top
<1>7. Followed'
  <2>1. Len(Append(Tags, ForName(e.name))) <= MaxDepth
    BY <1>3, <1>5, <1>6
  <2>2. PICK t : t = Append(Tags, ForName(e.name))
    OBVIOUS
  <2>3. QED  BY <1>2, <1>6, <2>1, <2>2 DEF Followed
<1>8. QED  BY <1>2, <1>3, <1>6, <1>7

(* A document starts with no bytes, which are those of no tags.            *)
LEMMA NothingSaved ==
  /\ << >> \in Seq(Tag) /\ Len(<< >>) <= MaxDepth
  /\ NoBytes = Serialize(<< >>) /\ Agree(<< >>, << >>)
<1>1. << >> \in Seq(Tag) /\ Len(<< >>) = 0 /\ 0 <= MaxDepth /\ 0 <= CountMax
  BY SizesAssumption
<1>2. /\ Serialize(<< >>) = [count |-> Len(<< >>), kept |-> Serialize(<< >>).kept]
      /\ Serialize(<< >>).kept \in Seq(Tag) /\ Len(Serialize(<< >>).kept) <= Len(<< >>)
  BY <1>1, Saved
<1>3. Serialize(<< >>).kept = << >>
  BY <1>1, <1>2
<1>4. Agree(<< >>, << >>)
  BY <1>1 DEF Agree
<1>5. QED  BY <1>1, <1>2, <1>3, <1>4 DEF NoBytes

LEMMA InitInv == Init => Inv
<1>1. SUFFICES ASSUME Init PROVE Inv
  OBVIOUS
<1>2. Followed
  BY <1>1, NothingSaved DEF Init, Followed
<1>3. Placed
  BY <1>1, SizesAssumption DEF Init, Placed, Contexts, Results
<1>4. QED  BY <1>2, <1>3 DEF Inv

(* What the scanner keeps, step by step.                                   *)
LEMMA FollowedNext ==
  ASSUME Inv, [Next]_vars
  PROVE  Followed' /\ opened' \in Seq(StartTags) /\ Len(opened') <= MaxDepth
<1>1. /\ opened \in Seq(StartTags) /\ Len(opened) <= MaxDepth /\ Followed
      /\ MaxDepth \in Nat
  BY SizesAssumption DEF Inv, Placed
<1>2. ASSUME saved' = saved, opened' = opened
      PROVE  Followed' /\ opened' \in Seq(StartTags) /\ Len(opened') <= MaxDepth
  BY <1>1, <1>2 DEF Followed
<1>3. ASSUME Emit(result', Tags), opened' = opened
      PROVE  Followed' /\ opened' \in Seq(StartTags) /\ Len(opened') <= MaxDepth
  BY <1>1, <1>3, SavesTags
<1>4. ASSUME opened # << >>, Emit(result', Popped),
             opened' = SubSeq(opened, 1, Len(opened) - 1)
      PROVE  Followed' /\ opened' \in Seq(StartTags) /\ Len(opened') <= MaxDepth
  <2>1. /\ Followed' /\ opened' \in Seq(StartTags) /\ Len(opened') < MaxDepth
    BY <1>4, Closes
  <2>2. QED  BY <1>1, <2>1
<1>5. CASE ImplicitEndTag
  BY <1>4, <1>5 DEF ImplicitEndTag, Emit
<1>6. CASE StartTag
  BY <1>6, Opens
<1>7. CASE EndTag
  BY <1>4, <1>7 DEF EndTag, Emit
<1>8. CASE ErroneousEndTag
  BY <1>3, <1>8 DEF ErroneousEndTag, Emit
<1>9. CASE TextOrComment
  BY <1>2, <1>3, <1>9 DEF TextOrComment, Emit
<1>10. CASE EndOfDocument \/ NoToken \/ TagDelimiter \/ RawTextGoesOn \/ UNCHANGED vars
  BY <1>2, <1>10 DEF EndOfDocument, NoToken, TagDelimiter, RawTextGoesOn, vars
<1>11. CASE SelfClosingTag
  <2>1. opened # << >>
    BY <1>11 DEF SelfClosingTag, Inv, Placed
  <2>2. QED  BY <1>4, <1>11, <2>1 DEF SelfClosingTag, Emit
<1>12. CASE RawText
  BY <1>3, <1>12 DEF RawText, Emit
<1>13. CASE RawEndTag
  <2>1. opened # << >>
    BY <1>13 DEF RawEndTag, Inv, Placed
  <2>2. QED  BY <1>4, <1>13, <2>1 DEF RawEndTag, Emit
<1>14. CASE RawEndTagOfAnother
  BY <1>3, <1>14 DEF RawEndTagOfAnother, Emit
<1>15. CASE NextDocument
  <2>1. saved' = NoBytes /\ opened' = << >>
    BY <1>15 DEF NextDocument
  <2>2. Followed'
    BY <2>1, NothingSaved DEF Followed
  <2>3. QED  BY <1>1, <2>1, <2>2
<1>16. QED
  BY <1>5, <1>6, <1>7, <1>8, <1>9, <1>10, <1>11, <1>12, <1>13, <1>14, <1>15
  DEF Next, Scan

(* Lengths of the open elements before and after one.                      *)
LEMMA OneLess ==
  ASSUME NEW s \in Seq(StartTags), s # << >>
  PROVE  Len(SubSeq(s, 1, Len(s) - 1)) < Len(s)
<1>1. Len(s) \in Nat \ {0}
  OBVIOUS
<1>2. QED  BY <1>1

LEMMA OneMore ==
  ASSUME NEW s \in Seq(StartTags), NEW n \in StartTags
  PROVE  Append(s, n) # << >>
<1>1. Len(Append(s, n)) = Len(s) + 1 /\ Len(s) \in Nat
  OBVIOUS
<1>2. Len(Append(s, n)) # 0
  BY <1>1
<1>3. Len(<< >>) = 0
  OBVIOUS
<1>4. ASSUME Append(s, n) = << >> PROVE FALSE
  BY ONLY <1>2, <1>3, <1>4
<1>5. QED  BY <1>4

LEMMA LenNat == \A s \in Seq(StartTags) : Len(s) \in Nat
OBVIOUS

(* The places of the parser, step by step.                                 *)
LEMMA PlacedNext ==
  ASSUME Inv, [Next]_vars
  PROVE  Placed'
<1>1. /\ opened' \in Seq(StartTags) /\ Len(opened') <= MaxDepth /\ MaxDepth \in Nat
      /\ opened \in Seq(StartTags) /\ Len(opened) <= MaxDepth
      /\ ctx \in Contexts /\ look \in Looks /\ result \in Results
      /\ ctx = "content" /\ look.kind = "open" => Len(opened) < MaxDepth
      /\ ctx \in {"attributes", "raw", "raw end"} => opened # << >>
  BY FollowedNext, SizesAssumption DEF Inv, Placed
<1>2. CASE ImplicitEndTag
  <2>1. opened # << >> /\ opened' = SubSeq(opened, 1, Len(opened) - 1)
    BY <1>2 DEF ImplicitEndTag
  <2>2. Len(opened') < MaxDepth
    <3>1. Len(opened') < Len(opened)
      BY <1>1, <2>1, OneLess
    <3>2. Len(opened') \in Nat /\ Len(opened) \in Nat /\ Len(opened) <= MaxDepth
      BY <1>1, LenNat
    <3>3. MaxDepth \in Nat
      BY SizesAssumption
    <3>4. QED  BY <3>1, <3>2, <3>3
  <2>3. ctx' = "content" /\ look' = look /\ result' = "IMPLICIT_END_TAG"
    BY <1>2 DEF ImplicitEndTag, Emit
  <2>4. QED  BY <1>1, <2>2, <2>3 DEF Placed, Contexts, Results
<1>3. CASE StartTag
  <2>1. opened' # << >>
    <3>1. opened' = Append(opened, [name |-> look.name, apart |-> look.apart])
      BY <1>3 DEF StartTag
    <3>2. [name |-> look.name, apart |-> look.apart] \in StartTags
      BY <1>1, <1>3, NameMet DEF StartTag
    <3>3. QED  BY <1>1, <3>1, <3>2, OneMore
  <2>2. ctx' = "attributes" /\ look' = look /\ result' \in Results
    BY <1>3 DEF StartTag, Emit, Results
  <2>3. QED  BY <1>1, <2>1, <2>2 DEF Placed, Contexts
<1>4. CASE EndTag \/ ErroneousEndTag \/ TextOrComment \/ NextDocument
  <2>1. ctx' = "content" /\ Consume
    BY <1>4 DEF EndTag, ErroneousEndTag, TextOrComment, NextDocument, Proceeds
  <2>2. result' \in Results
    BY <1>1, <1>4
    DEF EndTag, ErroneousEndTag, TextOrComment, NextDocument, Emit, Results
  <2>3. QED  BY <1>1, <2>1, <2>2 DEF Placed, Contexts, Consume
<1>5. CASE EndOfDocument \/ NoToken
  <2>1. ctx' \in {"done", "error"} /\ look' = look /\ result' = result
    BY <1>5 DEF EndOfDocument, NoToken
  <2>2. QED  BY <1>1, <2>1 DEF Placed, Contexts
<1>6. CASE TagDelimiter
  <2>1. /\ ctx' \in {"raw", "content"} /\ opened' = opened /\ opened # << >>
        /\ result' = result /\ Consume
    BY <1>1, <1>6 DEF TagDelimiter
  <2>2. QED  BY <1>1, <2>1 DEF Placed, Contexts, Consume
<1>7. CASE SelfClosingTag \/ RawEndTag
  <2>1. ctx' = "content" /\ Consume /\ result' \in Results
    BY <1>7 DEF SelfClosingTag, RawEndTag, Emit, Results
  <2>2. QED  BY <1>1, <2>1 DEF Placed, Contexts, Consume
<1>8. CASE RawTextGoesOn
  <2>1. /\ ctx' = "raw" /\ opened' = opened /\ opened # << >>
        /\ result' = result /\ Consume
    BY <1>1, <1>8 DEF RawTextGoesOn
  <2>2. QED  BY <1>1, <2>1 DEF Placed, Contexts, Consume
<1>9. CASE RawText
  <2>1. /\ ctx' \in {"error", "raw end"} /\ opened' = opened /\ opened # << >>
        /\ result' = "RAW_TEXT" /\ look' = look
    BY <1>1, <1>9 DEF RawText, Emit
  <2>2. QED  BY <1>1, <2>1 DEF Placed, Contexts, Results
<1>10. CASE RawEndTagOfAnother
  <2>1. /\ ctx' = "error" /\ look' = look /\ result' = "ERRONEOUS_END_TAG_NAME"
    BY <1>10 DEF RawEndTagOfAnother, Emit
  <2>2. QED  BY <1>1, <2>1 DEF Placed, Contexts, Results
<1>11. CASE UNCHANGED vars
  BY <1>1, <1>11 DEF Placed, vars
<1>12. QED
  BY <1>2, <1>3, <1>4, <1>5, <1>6, <1>7, <1>8, <1>9, <1>10, <1>11 DEF Next, Scan

LEMMA NextInv == Inv /\ [Next]_vars => Inv'
BY FollowedNext, PlacedNext DEF Inv

LEMMA Invariance == Spec => []Inv
BY InitInv, NextInv, PTL DEF Spec

(* Every variable has its type, whatever the buffer holds.                 *)
THEOREM TypeCorrect == Spec => []TypeOK
<1>1. Inv => TypeOK
  <2>1. SUFFICES ASSUME Inv PROVE TypeOK
    OBVIOUS
  <2>2. PICK tags \in Seq(Tag) : Len(tags) <= MaxDepth /\ saved = Serialize(tags)
    BY <2>1 DEF Inv, Followed
  <2>3. /\ saved.count = Len(tags) /\ saved.kept \in Seq(Tag)
        /\ Len(saved.kept) <= Len(tags)
    BY <2>2, Saved, SizesAssumption
  <2>4. saved.count \in 0 .. MaxDepth
    BY <2>2, <2>3, SizesAssumption
  <2>5. \A i \in DOMAIN saved.kept : saved.kept[i] \in Tag
    BY <2>3
  <2>6. /\ opened \in Seq(StartTags)
        /\ ctx \in Contexts /\ look \in Looks /\ result \in Results
    BY <2>1 DEF Inv, Placed
  <2>7. \A i \in DOMAIN opened : opened[i] \in StartTags
    BY <2>6
  <2>8. QED  BY <2>3, <2>4, <2>5, <2>6, <2>7 DEF TypeOK
<1>2. QED  BY <1>1, Invariance, PTL

(* The scanner's stack is as deep as the parser's, however often the       *)
(* buffer was too small.                                                   *)
THEOREM DepthAlwaysAgrees == Spec => []DepthAgrees
<1>1. Inv => DepthAgrees
  BY TagsFollow DEF DepthAgrees
<1>2. QED  BY <1>1, Invariance, PTL

(* It never takes one element for another.                                 *)
THEOREM BeliefsAlwaysSound == Spec => []BeliefsSound
<1>1. Inv => BeliefsSound
  BY TagsFollow DEF BeliefsSound
<1>2. QED  BY <1>1, Invariance, PTL

(* An element it remembers has no child that tag.h forbids, but for those  *)
(* whose name is apart from the <, which are not looked up in time.        *)
THEOREM ChildrenAlwaysAllowed == Spec => []ChildrenAllowed
<1>1. Inv => ChildrenAllowed
  BY TagsFollow DEF ChildrenAllowed, Agree, Admits
<1>2. QED  BY <1>1, Invariance, PTL

(* Saving what was restored loses nothing more.                            *)
THEOREM SavingAlwaysStable == Spec => []SavingIsStable
<1>1. Inv => SavingIsStable
  BY TagsFollow DEF SavingIsStable
<1>2. QED  BY <1>1, Invariance, PTL

(* The name of an end tag that equals the tag on top is the one that its   *)
(* start tag had, but for the bytes that were cut.                         *)
LEMMA NameOfTop ==
  ASSUME Inv, opened # << >>, Top = ForName(look.name)
  PROVE  look.name = Cut[opened[Len(opened)].name]
<1> DEFINE n == opened[Len(opened)].name
<1>1. n \in Names /\ Len(Tags) = Len(opened) /\ Len(opened) \in 1 .. Len(Tags)
  <2>1. opened \in Seq(StartTags) /\ Len(Tags) = Len(opened)
    BY TagsFollow DEF Inv, Placed
  <2>2. Len(opened) \in 1 .. Len(opened)
    BY <2>1
  <2>3. opened[Len(opened)] \in StartTags
    BY <2>1, <2>2
  <2>4. QED  BY <2>1, <2>2, <2>3 DEF StartTags
<1>2. Top # Unknown
  BY OtherTypes DEF ForName, Unknown
<1>3. ForName(look.name) = Written(ForName(n))
  BY <1>1, <1>2, TagsFollow DEF Top
<1>4. /\ n \in TagNames => Cut[n] = n
      /\ ForName(look.name) = IF n \in TagNames THEN [type |-> n, name |-> ""]
                              ELSE [type |-> "CUSTOM", name |-> Cut[n]]
  BY <1>1, <1>3, TagOfName
<1> HIDE DEF n
<1>5. CASE n \in TagNames
  <2>1. ForName(look.name).type = n /\ n # "CUSTOM"
    <3>1. [type |-> n, name |-> ""].type = n
      OBVIOUS
    <3>2. n # "CUSTOM"
      BY <1>5, OtherTypes
    <3>3. QED  BY <1>4, <1>5, <3>1, <3>2
  <2>2. look.name = n
    BY <2>1 DEF ForName
  <2>3. QED  BY <1>4, <1>5, <2>2 DEF n
<1>6. CASE n \notin TagNames
  <2>1. ForName(look.name) = [type |-> "CUSTOM", name |-> Cut[n]]
    BY <1>4, <1>6
  <2>2. look.name \notin TagNames
    BY <2>1, OtherTypes DEF ForName
  <2>3. look.name = Cut[n]
    BY <2>1, <2>2 DEF ForName
  <2>4. QED  BY <2>3 DEF n
<1>7. QED  BY <1>5, <1>6

(* An end tag closes the innermost element only, which is one it names.    *)
THEOREM EndTagsMatch == Spec => EndTagMatches
<1> DEFINE Matches ==
      result' = "END_TAG_NAME" /\ opened' # opened /\ ctx # "done" =>
        /\ opened' = SubSeq(opened, 1, Len(opened) - 1)
        /\ look.name = Cut[opened[Len(opened)].name]
<1>1. ASSUME Inv, [Next]_vars PROVE [Matches]_vars
  <2>1. SUFFICES ASSUME result' = "END_TAG_NAME", opened' # opened
                 PROVE  /\ opened' = SubSeq(opened, 1, Len(opened) - 1)
                        /\ look.name = Cut[opened[Len(opened)].name]
    OBVIOUS
  <2>2. EndTag \/ RawEndTag
    BY <1>1, <2>1
    DEF Next, Scan, ImplicitEndTag, StartTag, ErroneousEndTag, TextOrComment,
        EndOfDocument, NoToken, TagDelimiter, SelfClosingTag, RawTextGoesOn,
        RawText, RawEndTagOfAnother, NextDocument, Emit, vars
  <2>3. /\ opened # << >> /\ Top = ForName(look.name)
        /\ opened' = SubSeq(opened, 1, Len(opened) - 1)
    BY <1>1, <2>2 DEF EndTag, RawEndTag, Inv, Placed
  <2>4. QED  BY <1>1, <2>3, NameOfTop
<1>2. QED  BY <1>1, Invariance, PTL DEF Spec, EndTagMatches
=============================================================================
