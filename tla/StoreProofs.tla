---------------------------- MODULE StoreProofs ----------------------------
(***************************************************************************)
(* Theorems about the node store, for any contents, any hash function, any *)
(* initial capacity and any number of entities; and about the hashes.      *)
(*                                                                         *)
(* The store: the invariant that is inductive joins the types, the         *)
(* consistency of the table with the world (TableConsistent), and what     *)
(* follows from it for the callers.                                        *)
(*                                                                         *)
(* The hashes: the arithmetic of inner_node_hash that Rust checks for      *)
(* overflow in debug builds stays within a u32, for every kind, label and  *)
(* subtree; and the loop of fast_exponentiation answers the power, for     *)
(* every base and exponent and every size of the word.                     *)
(***************************************************************************)
EXTENDS NodeStore, FastExponentiation, Induction, SequenceTheorems

IInv == TypeOK /\ TableConsistent /\ NoTwins /\ HandedMeansAsked

-----------------------------------------------------------------------------
(* A content that may be asked for when the world has m entities may still *)
(* be asked for when it has n >= m.                                        *)
LEMMA ContentsGrow ==
  ASSUME NEW m \in Nat, NEW n \in Nat, m <= n
  PROVE  Contents(m) \subseteq Contents(n)
<1>1. ChildrenLists(m) \subseteq ChildrenLists(n)
  <2>1. ASSUME NEW k \in 0..MaxChildren, NEW l \in [1..k -> 1..m]
        PROVE  l \in [1..k -> 1..n]
    OBVIOUS
  <2>2. QED  BY <2>1 DEF ChildrenLists
<1>2. QED
  BY <1>1 DEF Contents, NodeContents, DirContents

(* The eq closures of the generators compare exactly what identifies their *)
(* nodes; that of the directories never holds.                             *)
LEMMA MatchIsEquality ==
  ASSUME NEW c \in Contents(MaxNodes), NEW e \in Entity
  PROVE  /\ IsShared(c) => (Matches(c, e) <=> e.content = c)
         /\ ~IsShared(c) => ~Matches(c, e)
<1> DEFINE d == e.content
<1>1. d \in Contents(MaxNodes)
  BY DEF Entity
<1>2. CASE c \in NodeContents(MaxNodes)
  <2>1. c.kind \in NodeKinds /\ c.blank = None
        /\ c = [kind |-> c.kind, label |-> c.label,
                children |-> c.children, blank |-> c.blank]
    BY <1>2 DEF NodeContents
  <2>2. d.kind = c.kind => d \in NodeContents(MaxNodes)
    BY <1>1, <2>1, KindsDisjoint
    DEF Contents, SpacesContents, DirContents
  <2>3. d \in NodeContents(MaxNodes) =>
          /\ d.blank = None
          /\ d = [kind |-> d.kind, label |-> d.label,
                  children |-> d.children, blank |-> d.blank]
    BY DEF NodeContents
  <2>4. Matches(c, e) <=> EqNode(c, e)
    BY <2>1, KindsDisjoint DEF Matches
  <2>5. QED
    BY <2>1, <2>2, <2>3, <2>4, KindsDisjoint DEF EqNode, IsShared
<1>3. CASE c \in SpacesContents
  <2>1. /\ c.kind = SpacesKind /\ c.blank \in Blanks /\ c.blank # None
        /\ c = [kind |-> SpacesKind, label |-> None,
                children |-> << >>, blank |-> c.blank]
    BY <1>3, NoneIsNothing DEF SpacesContents
  <2>2. d.blank = c.blank => d \in SpacesContents
    BY <1>1, <2>1 DEF Contents, NodeContents, DirContents
  <2>3. d \in SpacesContents =>
          d = [kind |-> SpacesKind, label |-> None,
               children |-> << >>, blank |-> d.blank]
    BY DEF SpacesContents
  <2>4. Matches(c, e) <=> EqSpaces(c, e)
    BY <2>1, KindsDisjoint DEF Matches
  <2>5. QED
    BY <2>1, <2>2, <2>3, <2>4, KindsDisjoint DEF EqSpaces, IsShared
<1>4. CASE c \in DirContents(MaxNodes)
  <2>1. c.kind \in DirKinds
    BY <1>4 DEF DirContents
  <2>2. QED
    BY <2>1, KindsDisjoint
    DEF Matches, EqDirectory, BareChildren, IsShared
<1>5. QED
  BY <1>2, <1>3, <1>4 DEF Contents

(* As equal contents hash alike, a probe finds the entity that has the     *)
(* content sought if there is one, and nothing else.                       *)
LEMMA HitsAreEqual ==
  ASSUME TypeOK, PlacedWhereSought,
         NEW c \in Contents(Len(world))
  PROVE  /\ Hits(c, HashOf(c)) \subseteq Ids
         /\ \A i \in Hits(c, HashOf(c)) : world[i].content = c
         /\ IsShared(c) =>
              \A i \in Ids : world[i].content = c => i \in Hits(c, HashOf(c))
<1>1. Len(world) \in Nat /\ DOMAIN slot = Ids /\ DOMAIN world = Ids
  BY LenProperties DEF TypeOK, Ids
<1>2. c \in Contents(MaxNodes)
  BY <1>1, ContentsGrow, BoundsNat DEF TypeOK
<1>3. \A i \in Ids : world[i] \in Entity
  BY <1>1, ElementOfSeq DEF TypeOK, Ids
<1>4. \A i \in Ids : slot[i] = HashOf(world[i].content)
  BY DEF PlacedWhereSought
<1>5. QED
  BY <1>1, <1>2, <1>3, <1>4, MatchIsEquality DEF Hits, Probed
-----------------------------------------------------------------------------
LEMMA InitIInv == Init => IInv
<1> SUFFICES ASSUME Init PROVE IInv
  OBVIOUS
<1>1. Len(world) = 0 /\ Len(slot) = 0 /\ Ids = {}
  BY EmptySeq DEF Init, Ids
<1>2. world \in Seq(Entity) /\ slot \in Seq(Hashes)
  BY EmptySeq DEF Init
<1>3. TypeOK
  BY <1>1, <1>2, CapacityPositive, BoundsNat DEF Init, TypeOK
<1>4. QED
  BY <1>1, <1>3
  DEF Init, IInv, TableConsistent, PlacedWhereSought, PendingIsCurrent,
      NoTwins, HandedMeansAsked

LEMMA PrepareIInv ==
  ASSUME IInv, NEW c \in Contents(Len(world)), PrepareInsertion(c)
  PROVE  IInv'
<1>1. /\ UNCHANGED <<world, slot, capacity, handed>> /\ Ids' = Ids
      /\ TypeOK /\ PlacedWhereSought /\ NoTwins /\ HandedMeansAsked
  BY DEF PrepareInsertion, IInv, TableConsistent, Ids
<1>2. Len(world) \in Nat /\ Ids = 1..Len(world)
  BY LenProperties DEF TypeOK, IInv, Ids
<1>3. PICK id \in Entry(c, HashOf(c)) :
        pending' = [content |-> c, hash |-> HashOf(c), found |-> id]
  BY DEF PrepareInsertion
<1>4. /\ id \in 0..Len(world)
      /\ id # 0 => id \in Ids /\ world[id].content = c
      /\ id = 0 => Len(world) < MaxNodes /\ Hits(c, HashOf(c)) = {}
  BY <1>1, <1>2, HitsAreEqual DEF Entry
<1>5. HashOf(c) \in Hashes
  BY <1>1, <1>2, ContentsGrow, BoundsNat, HashType DEF TypeOK
<1>6. TypeOK'
  BY <1>1, <1>3, <1>4, <1>5 DEF TypeOK, Ids
<1>7. PendingIsCurrent'
  <2>1. id = 0 /\ IsShared(c) => \A i \in Ids : world[i].content # c
    BY <1>1, <1>4, HitsAreEqual
  <2>2. QED
    BY <1>1, <1>3, <1>4, <2>1 DEF PendingIsCurrent, IsShared
<1>8. PlacedWhereSought' /\ NoTwins' /\ HandedMeansAsked'
  BY <1>1 DEF PlacedWhereSought, NoTwins, HandedMeansAsked
<1>9. QED
  BY <1>6, <1>7, <1>8 DEF IInv, TableConsistent

LEMMA OccupiedIInv ==
  ASSUME IInv, OccupiedId
  PROVE  IInv'
<1>1. /\ UNCHANGED <<world, slot, capacity>> /\ Ids' = Ids
      /\ TypeOK /\ TableConsistent /\ NoTwins
      /\ pending' = None
  BY DEF OccupiedId, IInv, Ids
<1>2. Len(world) \in Nat /\ Ids = 1..Len(world)
  BY LenProperties DEF TypeOK, IInv, Ids
<1>3. /\ pending.found \in Ids
      /\ pending.content \in Contents(Len(world))
      /\ world[pending.found].content = pending.content
      /\ handed' = [content |-> pending.content, id |-> pending.found]
  BY <1>1, <1>2 DEF OccupiedId, TypeOK, TableConsistent, PendingIsCurrent
<1>4. pending.content \in Contents(MaxNodes)
  BY <1>1, <1>2, <1>3, ContentsGrow, BoundsNat DEF TypeOK
<1>5. TypeOK'
  BY <1>1, <1>3, <1>4 DEF TypeOK, Ids
<1>6. HandedMeansAsked'
  BY <1>1, <1>3 DEF HandedMeansAsked
<1>7. PlacedWhereSought' /\ NoTwins' /\ PendingIsCurrent'
  BY <1>1
  DEF PlacedWhereSought, NoTwins, TableConsistent, PendingIsCurrent
<1>8. QED
  BY <1>5, <1>6, <1>7 DEF IInv, TableConsistent

(* The push: the new entity is placed last, the others keep their place or *)
(* are placed again by the hash of their stored `syntax`, which is the one *)
(* they were looked up by.                                                 *)
LEMMA InsertIInv ==
  ASSUME IInv, InsertAfterPrepare
  PROVE  IInv'
<1> PICK c : c = pending.content
  OBVIOUS
<1> DEFINE n == Len(world)
           e == [content |-> c, syntax |-> pending.hash]
<1>1. TypeOK /\ PlacedWhereSought /\ PendingIsCurrent /\ NoTwins
  BY DEF IInv, TableConsistent
<1>2. /\ n \in Nat /\ Ids = 1..n /\ Len(slot) = n
      /\ DOMAIN slot = Ids /\ DOMAIN world = Ids
  BY <1>1, LenProperties DEF TypeOK, Ids
<1>3. /\ c \in Contents(n) /\ n < MaxNodes /\ pending.hash = HashOf(c)
      /\ IsShared(c) => \A i \in Ids : world[i].content # c
      /\ c \in Contents(MaxNodes)
  <2>1. /\ c \in Contents(n) /\ n < MaxNodes /\ pending.hash = HashOf(c)
        /\ IsShared(c) => \A i \in Ids : world[i].content # c
    BY <1>1 DEF InsertAfterPrepare, TypeOK, PendingIsCurrent
  <2>2. QED
    BY <1>2, <2>1, ContentsGrow, BoundsNat
<1>4. e \in Entity /\ HashOf(c) \in Hashes
  BY <1>3, HashType DEF Entity
<1>5. /\ world' \in Seq(Entity) /\ Len(world') = n + 1
      /\ world'[n + 1] = e
      /\ \A i \in Ids : world'[i] = world[i]
  <2>1. world \in Seq(Entity) /\ world' = Append(world, e)
    BY <1>1 DEF InsertAfterPrepare, TypeOK
  <2> HIDE DEF e
  <2>2. QED
    BY <1>2, <1>4, <2>1, AppendProperties
<1>6. /\ Grown \in Seq(Hashes) /\ Len(Grown) = n
      /\ \A i \in Ids : Grown[i] = HashOf(world[i].content)
  <2>1. CASE Len(slot) = capacity
    <3>1. Grown = [i \in 1..n |-> world[i].syntax]
      BY <1>2, <2>1 DEF Grown, Rehash
    <3>2. ASSUME NEW i \in 1..n PROVE world[i].syntax \in Hashes
      <4>1. world[i] \in Entity
        BY <1>1, <1>2, ElementOfSeq DEF TypeOK
      <4>2. QED
        BY <4>1 DEF Entity
    <3>3. QED
      BY <1>1, <1>2, <3>1, <3>2, IsASeq DEF PlacedWhereSought
  <2>2. CASE Len(slot) # capacity
    BY <1>1, <1>2, <2>2 DEF Grown, TypeOK, PlacedWhereSought
  <2>3. QED  BY <2>1, <2>2
<1>7. /\ slot' \in Seq(Hashes) /\ Len(slot') = n + 1
      /\ slot'[n + 1] = HashOf(c)
      /\ \A i \in Ids : slot'[i] = HashOf(world[i].content)
  BY <1>2, <1>3, <1>4, <1>6, AppendProperties DEF InsertAfterPrepare
<1>8. Ids' = 1..(n + 1) /\ Ids' = Ids \cup {n + 1} /\ n + 1 \notin Ids
  BY <1>2, <1>5 DEF Ids
<1>9. /\ pending' = None
      /\ handed' = [content |-> c, id |-> n + 1]
  BY DEF InsertAfterPrepare
<1>10. capacity' \in Nat \ {0} /\ n + 1 <= capacity'
  <2>1. capacity \in Nat \ {0} /\ n <= capacity
    BY <1>1, <1>2 DEF TypeOK
  <2>2. capacity' = IF n = capacity THEN 2 * capacity ELSE capacity
    BY <1>2 DEF InsertAfterPrepare
  <2> HIDE DEF n
  <2>3. QED
    BY <1>2, <2>1, <2>2
<1>11. TypeOK'
  <2>1. \A i \in Ids' : world'[i].content \in Contents(i - 1)
    BY <1>1, <1>2, <1>3, <1>5, <1>8 DEF TypeOK
  <2>2. handed' \in [content : Contents(MaxNodes), id : Ids']
    BY <1>3, <1>8, <1>9
  <2>3. QED
    BY <1>2, <1>3, <1>5, <1>7, <1>8, <1>9, <1>10, <2>1, <2>2, BoundsNat
    DEF TypeOK
<1>12. PlacedWhereSought'
  BY <1>1, <1>3, <1>5, <1>7, <1>8 DEF PlacedWhereSought
<1>13. PendingIsCurrent' /\ HandedMeansAsked'
  BY <1>5, <1>8, <1>9 DEF PendingIsCurrent, HandedMeansAsked
<1>14. NoTwins'
  <2> SUFFICES ASSUME NEW i \in Ids', NEW j \in Ids',
                      world'[i].content = world'[j].content,
                      IsShared(world'[i].content)
               PROVE  i = j
    BY DEF NoTwins, IsShared
  <2>1. CASE i \in Ids /\ j \in Ids
    BY <1>1, <1>5, <2>1 DEF NoTwins
  <2>2. CASE i = n + 1 /\ j \in Ids
    BY <1>3, <1>5, <2>2
  <2>3. CASE i \in Ids /\ j = n + 1
    BY <1>3, <1>5, <2>3
  <2>4. QED  BY <1>8, <2>1, <2>2, <2>3
<1>15. QED
  BY <1>11, <1>12, <1>13, <1>14 DEF IInv, TableConsistent

LEMMA NextIInv == IInv /\ [Next]_vars => IInv'
<1> SUFFICES ASSUME IInv, [Next]_vars PROVE IInv'
  OBVIOUS
<1>1. CASE \E c \in Contents(Len(world)) : PrepareInsertion(c)
  BY <1>1, PrepareIInv
<1>2. CASE OccupiedId
  BY <1>2, OccupiedIInv
<1>3. CASE InsertAfterPrepare
  BY <1>3, InsertIInv
<1>4. CASE UNCHANGED vars
  BY <1>4
  DEF vars, IInv, TypeOK, Ids, TableConsistent, PlacedWhereSought,
      PendingIsCurrent, NoTwins, HandedMeansAsked
<1>5. QED
  BY <1>1, <1>2, <1>3, <1>4 DEF Next

(* The invariant of which every safety property below is a part.           *)
THEOREM StoreInvariant == Spec => []IInv
BY InitIInv, NextIInv, PTL DEF Spec

(* The types: in particular the children of an entity were all pushed      *)
(* before it, so that the store holds a DAG (README.md).                   *)
THEOREM StoreTypeOK == Spec => []TypeOK
<1>1. IInv => TypeOK
  BY DEF IInv
<1>2. QED
  BY <1>1, StoreInvariant, PTL

(* Hash-consing: the generators' subtrees are fully compressed.            *)
THEOREM StoreNoTwins == Spec => []NoTwins
<1>1. IInv => NoTwins
  BY DEF IInv
<1>2. QED
  BY <1>1, StoreInvariant, PTL

(* A collision of hashes never hands a caller the id of another node.      *)
THEOREM StoreHandedMeansAsked == Spec => []HandedMeansAsked
<1>1. IInv => HandedMeansAsked
  BY DEF IInv
<1>2. QED
  BY <1>1, StoreInvariant, PTL

(* The table stays consistent with the world through every rehash.         *)
THEOREM StoreTableConsistent == Spec => []TableConsistent
<1>1. IInv => TableConsistent
  BY DEF IInv
<1>2. QED
  BY <1>1, StoreInvariant, PTL
-----------------------------------------------------------------------------
(* Refinement.  A directory is never found, so what is found is shared.    *)
FoundIsShared ==
  pending # None /\ pending.found # 0 => IsShared(pending.content)

LEMMA FoundIsSharedNext ==
  ASSUME IInv, FoundIsShared, [Next]_vars
  PROVE  FoundIsShared'
<1>1. CASE \E c \in Contents(Len(world)) : PrepareInsertion(c)
  <2>1. PICK c \in Contents(Len(world)) : PrepareInsertion(c)
    BY <1>1
  <2>2. PICK id \in Entry(c, HashOf(c)) :
          pending' = [content |-> c, hash |-> HashOf(c), found |-> id]
    BY <2>1 DEF PrepareInsertion
  <2>3. id # 0 => id \in Hits(c, HashOf(c)) /\ id \in Ids
    BY HitsAreEqual DEF Entry, IInv, TableConsistent
  <2>4. /\ Len(world) \in Nat
        /\ \A i \in Ids : world[i] \in Entity
    BY LenProperties, ElementOfSeq DEF IInv, TypeOK, Ids
  <2>5. c \in Contents(MaxNodes)
    BY <2>4, ContentsGrow, BoundsNat DEF IInv, TypeOK
  <2>6. id # 0 => IsShared(c)
    BY <2>3, <2>4, <2>5, MatchIsEquality DEF Hits
  <2>7. QED  BY <2>2, <2>6 DEF FoundIsShared, IsShared
<1>2. CASE OccupiedId \/ InsertAfterPrepare
  BY <1>2 DEF OccupiedId, InsertAfterPrepare, FoundIsShared
<1>3. CASE UNCHANGED vars
  BY <1>3 DEF vars, FoundIsShared, IsShared
<1>4. QED
  BY <1>1, <1>2, <1>3 DEF Next

(* Hash-consed, a shared content has one id, and CHOOSE finds it.          *)
LEMMA OneId ==
  ASSUME NoTwins, NEW i \in Ids, IsShared(world[i].content)
  PROVE  IdOf(world[i].content) = i
<1> DEFINE c == world[i].content
           id == IdOf(c)
<1>1. id \in Ids /\ world[id].content = c
  BY DEF IdOf
<1>2. QED  BY <1>1 DEF NoTwins

(* What the world stands for does not change with the rest of the state.   *)
LEMMA SameWorldSameTable ==
  ASSUME world' = world
  PROVE  /\ [c \in SharedContents |-> IdOf(c)]' = [c \in SharedContents |-> IdOf(c)]
         /\ Ids' = Ids
<1>1. Ids' = Ids
  BY DEF Ids
<1>2. SharedContents' = SharedContents
  BY <1>1 DEF SharedContents, IsShared
<1>3. \A c : IdOf(c)' = IdOf(c)
  BY <1>1 DEF IdOf
<1>4. QED  BY <1>1, <1>2, <1>3

(* The id found is the one in the table.                                   *)
LEMMA OccupiedIsAgain ==
  ASSUME IInv, FoundIsShared, OccupiedId
  PROVE  Interning!InternerNext
<1> DEFINE c == pending.content
           id == pending.found
<1>1. /\ handed' = [content |-> c, id |-> id] /\ world' = world
      /\ id \in Ids /\ world[id].content = c /\ IsShared(c)
      /\ NoTwins
  <2>1. Len(world) \in Nat /\ Ids = 1..Len(world)
    BY LenProperties DEF TypeOK, IInv, Ids
  <2>2. QED
    BY <2>1 DEF OccupiedId, IInv, TypeOK, TableConsistent, PendingIsCurrent,
                FoundIsShared
<1>2. handed' # None
  <2>1. Len(world) \in Nat /\ id \in 1..MaxNodes
    BY <1>1, LenProperties, BoundsNat DEF IInv, TypeOK, Ids
  <2>2. c \in Contents(MaxNodes)
    BY <1>1, <2>1, ContentsGrow, BoundsNat DEF IInv, TypeOK, OccupiedId
  <2>3. QED  BY <1>1, <2>1, <2>2, NoneIsNoAnswer
<1>3. c \in SharedContents /\ IdOf(c) = id
  BY <1>1, OneId DEF SharedContents
<1>4. Interning!Again(c)
  BY <1>1, <1>3, SameWorldSameTable DEF Interning!Again, Interning!Answer
<1>5. QED
  BY <1>1, <1>2, <1>4 DEF Interning!InternerNext

(* A push gives an id to a shared content that has none, or a new id to a  *)
(* directory.                                                              *)
LEMMA InsertIsFresh ==
  ASSUME IInv, InsertAfterPrepare
  PROVE  Interning!InternerNext
<1> PICK c : c = pending.content
  OBVIOUS
<1> DEFINE n == Len(world)
           e == [content |-> c, syntax |-> pending.hash]
<1>1. /\ n \in Nat /\ Ids = 1..n /\ n < MaxNodes
      /\ world \in Seq(Entity) /\ c \in Contents(n)
      /\ IsShared(c) => c \notin SharedContents
      /\ handed' = [content |-> c, id |-> n + 1]
      /\ world' = Append(world, e)
  BY LenProperties
  DEF IInv, TypeOK, Ids, TableConsistent, PendingIsCurrent, InsertAfterPrepare,
      SharedContents
<1>2. /\ Ids' = 1..(n + 1) /\ n + 1 \notin Ids /\ Ids' = Ids \cup {n + 1}
      /\ world'[n + 1] = e
      /\ \A i \in Ids : world'[i] = world[i]
  BY <1>1 DEF Ids
<1>3. NoTwins /\ NoTwins'
  BY InsertIInv DEF IInv
<1>4. handed' # None
  <2>1. c \in Contents(MaxNodes)
    BY <1>1, ContentsGrow, BoundsNat
  <2>2. n + 1 \in 1..MaxNodes
    BY <1>1, BoundsNat
  <2>3. QED  BY <1>1, <2>1, <2>2, NoneIsNoAnswer
<1>5. \A d \in SharedContents : d \in SharedContents' /\ IdOf(d)' = IdOf(d)
  <2>1. SUFFICES ASSUME NEW d, NEW i \in Ids, IsShared(d), d = world[i].content
                 PROVE  d \in SharedContents' /\ IdOf(d)' = IdOf(d)
    BY DEF SharedContents
  <2>2. i \in Ids' /\ world'[i] = world[i]
    BY <1>2
  <2>3. IdOf(d) = i
    BY <1>3, <2>1, OneId
  <2>4. PICK j \in Ids' : world'[j].content = d /\ j = IdOf(d)'
    BY <2>1, <2>2 DEF IdOf
  <2>5. j = i
    BY <1>3, <2>1, <2>2, <2>4 DEF NoTwins, IsShared
  <2>6. QED  BY <2>1, <2>2, <2>3, <2>4, <2>5 DEF SharedContents, IsShared
<1>6. CASE IsShared(c)
  <2>1. SharedContents' = SharedContents \cup {c}
    BY <1>2, <1>5, <1>6 DEF SharedContents, IsShared
  <2>2. IdOf(c)' = n + 1
    <3>1. PICK j \in Ids' : world'[j].content = c /\ j = IdOf(c)'
      BY <1>2 DEF IdOf
    <3>2. QED  BY <1>2, <1>3, <1>6, <3>1 DEF NoTwins, IsShared
  <2>3. [d \in SharedContents |-> IdOf(d)]'
          = [d \in SharedContents \cup {c} |-> IF d = c THEN n + 1 ELSE IdOf(d)]
    BY <1>1, <1>5, <1>6, <2>1, <2>2
  <2>4. Interning!FirstTime(c, n + 1)
    BY <1>1, <1>2, <1>6, <2>3 DEF Interning!FirstTime, Interning!Answer
  <2>5. QED  BY <1>1, <1>4, <2>4 DEF Interning!InternerNext
<1>7. CASE ~IsShared(c)
  <2>1. SharedContents' = SharedContents
    BY <1>2, <1>5, <1>7 DEF SharedContents, IsShared
  <2>2. [d \in SharedContents |-> IdOf(d)]' = [d \in SharedContents |-> IdOf(d)]
    BY <1>5, <2>1
  <2>3. Interning!Unshared(c, n + 1)
    BY <1>1, <1>2, <1>7, <2>2 DEF Interning!Unshared, Interning!Answer
  <2>4. QED  BY <1>1, <1>4, <2>3 DEF Interning!InternerNext
<1>8. QED  BY <1>6, <1>7

(* The node store implements Interner: whatever the hashes collide on and  *)
(* whenever the table grows, its callers see a dictionary.                 *)
THEOREM StoreImplementsInterner == Spec => RefinesInterner
<1>1. Init => Interning!InternerInit
  <2>1. ASSUME Init PROVE SharedContents = {} /\ Ids = {}
    BY <2>1, EmptySeq DEF Init, SharedContents, Ids
  <2>2. QED  BY <2>1 DEF Init, Interning!InternerInit
<1>2. Init => FoundIsShared
  BY DEF Init, FoundIsShared
<1>3. IInv /\ FoundIsShared /\ [Next]_vars => FoundIsShared'
  BY FoundIsSharedNext
<1>4. IInv /\ FoundIsShared /\ [Next]_vars
        => [Interning!InternerNext]_(Interning!ivars)
  <2> SUFFICES ASSUME IInv, FoundIsShared, [Next]_vars
               PROVE  [Interning!InternerNext]_(Interning!ivars)
    OBVIOUS
  <2>1. CASE OccupiedId
    BY <2>1, OccupiedIsAgain
  <2>2. CASE InsertAfterPrepare
    BY <2>2, InsertIsFresh
  <2>3. CASE (\E c \in Contents(Len(world)) : PrepareInsertion(c)) \/ UNCHANGED vars
    <3>1. world' = world /\ handed' = handed
      BY <2>3 DEF PrepareInsertion, vars
    <3>2. QED  BY <3>1, SameWorldSameTable DEF Interning!ivars
  <2>4. QED  BY <2>1, <2>2, <2>3 DEF Next
<1>5. QED
  BY <1>1, <1>2, <1>3, <1>4, StoreInvariant, PTL
  DEF Spec, RefinesInterner, Interning!InternerSpec
-----------------------------------------------------------------------------
U32 == 4294967296

\* clamp_u64_to_u32 answers at most 16 bits.
LEMMA ClampedRange ==
  ASSUME NEW x \in Nat
  PROVE  Clamped(x) \in Nat /\ Clamped(x) < 65536
BY SMT DEF Clamped

(* The operands 31 * left + kind, 31 * left + label and 31 * left + ENTER  *)
(* (or LEAVE) never reach 2^32: clamp_u64_to_u32 only keeps 16 bits of the *)
(* hashes of kinds and labels.                                             *)
THEOREM InnerNodeHashNoOverflow ==
  ASSUME NEW k \in Nat, NEW l \in Nat, NEW end \in {Enter, Leave}
  PROVE  /\ 31 + Clamped(k) < U32
         /\ 31 * (31 + Clamped(k)) + Clamped(l) < U32
         /\ Mixed(Clamped(k), Clamped(l), end) < U32
<1> DEFINE kind == Clamped(k)
           label == Clamped(l)
<1>1. /\ kind \in Nat /\ kind < 65536
      /\ label \in Nat /\ label < 65536
  BY ClampedRange
<1>2. end \in Nat /\ end <= 131475286
  BY SMT DEF Enter, Leave
<1> HIDE DEF kind, label
<1>3. Mixed(kind, label, end) < U32
  BY <1>1, <1>2, SMT DEF Mixed, U32
<1>4. 31 + kind < U32 /\ 31 * (31 + kind) + label < U32
  BY <1>1, SMT DEF U32
<1>5. QED
  BY <1>3, <1>4 DEF kind, label

(* With hashes of kinds and labels of the full 32 bits, which the name of  *)
(* clamp_u64_to_u32 suggests, the same operands would overflow.            *)
THEOREM FullHashesWouldOverflow ==
  \E kind, label \in Nat : /\ kind < U32 /\ label < U32
                           /\ 31 * (31 + kind) + label >= U32
<1>1. /\ U32 - 1 \in Nat /\ 0 \in Nat
      /\ U32 - 1 < U32 /\ 0 < U32
      /\ 31 * (31 + (U32 - 1)) + 0 >= U32
  BY SMT DEF U32
<1> HIDE DEF U32
<1>2. QED
  BY <1>1
-----------------------------------------------------------------------------
(* Arithmetic modulo Word.                                                 *)
LEMMA TimesMonotone ==
  ASSUME NEW a \in Nat, NEW b \in Nat, a < b
  PROVE  Word * a + Word <= Word * b
<1>1. PICK c \in Nat : b = a + c + 1
  <2>1. b - a - 1 \in Nat /\ b = a + (b - a - 1) + 1
    OBVIOUS
  <2>2. QED  BY <2>1
<1>2. Word * b = Word * a + Word * c + Word
  BY <1>1, WordAssumption
<1>3. Word * c \in Nat /\ Word * a \in Nat
  BY WordAssumption
<1>4. QED  BY <1>2, <1>3, WordAssumption

LEMMA ModUnique ==
  ASSUME NEW q \in Nat, NEW r \in 0 .. Word - 1
  PROVE  (Word * q + r) % Word = r
<1> DEFINE x == Word * q + r
           d == x \div Word
           m == x % Word
<1>1. x \in Nat /\ Word * q \in Nat
  BY WordAssumption
<1>2. d \in Nat /\ m \in 0 .. Word - 1 /\ x = Word * d + m /\ Word * d \in Nat
  BY <1>1, WordAssumption
<1> HIDE DEF d, m
<1>3. ~ (d < q)
  BY <1>1, <1>2, TimesMonotone, WordAssumption
<1>4. ~ (q < d)
  BY <1>1, <1>2, TimesMonotone, WordAssumption
<1>5. d = q
  BY <1>2, <1>3, <1>4
<1>6. QED  BY <1>2, <1>5 DEF m

LEMMA ModPlus ==
  ASSUME NEW k \in Nat, NEW z \in Nat
  PROVE  (Word * k + z) % Word = z % Word
<1> DEFINE p == z \div Word
           r == z % Word
<1>1. p \in Nat /\ r \in 0 .. Word - 1 /\ z = Word * p + r
  BY WordAssumption
<1> HIDE DEF p, r
<1>2. Word * k + z = Word * (k + p) + r /\ k + p \in Nat
  BY <1>1, WordAssumption
<1>3. (Word * k + z) % Word = r
  BY <1>1, <1>2, ModUnique
<1>4. QED  BY <1>3 DEF r

(* An operand may be reduced before it is multiplied.                      *)
LEMMA ModTimes ==
  ASSUME NEW x \in Nat, NEW y \in Nat
  PROVE  ((x % Word) * y) % Word = (x * y) % Word
<1> DEFINE q == x \div Word
           r == x % Word
<1>1. q \in Nat /\ r \in Nat /\ x = Word * q + r
  BY WordAssumption
<1> HIDE DEF q, r
<1>2. x * y = Word * (q * y) + r * y /\ q * y \in Nat /\ r * y \in Nat
  BY <1>1, WordAssumption
<1>3. (x * y) % Word = (r * y) % Word
  BY <1>2, ModPlus
<1>4. QED  BY <1>3 DEF r

LEMMA WrappingMulType ==
  ASSUME NEW a \in Nat, NEW b \in Nat
  PROVE  WrappingMul(a, b) \in 0 .. Word - 1 /\ WrappingMul(a, b) \in Nat
<1>1. a * b \in Nat
  OBVIOUS
<1>2. QED  BY <1>1, WordAssumption DEF WrappingMul

LEMMA WrappingMulCommutes ==
  ASSUME NEW a \in Nat, NEW b \in Nat
  PROVE  WrappingMul(a, b) = WrappingMul(b, a)
<1>1. a * b = b * a
  OBVIOUS
<1>2. QED  BY <1>1 DEF WrappingMul

LEMMA WrappingMulAssociates ==
  ASSUME NEW a \in Nat, NEW b \in Nat, NEW c \in Nat
  PROVE  WrappingMul(WrappingMul(a, b), c) = WrappingMul(a, WrappingMul(b, c))
<1>1. a * b \in Nat /\ b * c \in Nat /\ (a * b) * c = a * (b * c)
  OBVIOUS
<1>2. WrappingMul(WrappingMul(a, b), c) = ((a * b) * c) % Word
  BY <1>1, ModTimes DEF WrappingMul
<1>3. WrappingMul(WrappingMul(b, c), a) = ((b * c) * a) % Word
  BY <1>1, ModTimes DEF WrappingMul
<1>4. (b * c) * a = a * (b * c)
  BY <1>1
<1>5. WrappingMul(WrappingMul(b, c), a) = WrappingMul(a, WrappingMul(b, c))
  BY WrappingMulType, WrappingMulCommutes
<1>6. QED  BY <1>1, <1>2, <1>3, <1>4, <1>5

LEMMA WrappingMulOne ==
  ASSUME NEW a \in 0 .. Word - 1
  PROVE  WrappingMul(1, a) = a /\ WrappingMul(a, 1) = a
<1>1. 1 * a = a /\ a * 1 = a /\ Word * 0 + a = a /\ a \in Nat
  BY WordAssumption
<1>2. a % Word = a
  BY <1>1, ModUnique
<1>3. QED  BY <1>1, <1>2 DEF WrappingMul
-----------------------------------------------------------------------------
(* Power: its recursion has a solution, and one only.                      *)
Solves(p, b, e) ==
  p = [k \in 0..e |-> IF k = 0 THEN 1 ELSE WrappingMul(b, p[k - 1])]

LEMMA SolutionExists ==
  ASSUME NEW b, NEW e \in Nat
  PROVE  \E p : Solves(p, b, e)
<1> DEFINE T == {n \in Nat : \E p : Solves(p, b, n)}
<1>1. 0 \in T
  <2>1. Solves([k \in 0..0 |-> 1], b, 0)
    BY DEF Solves
  <2>2. QED  BY <2>1
<1>2. ASSUME NEW n \in Nat, n \in T
      PROVE  n + 1 \in T
  <2>1. PICK p : Solves(p, b, n)
    BY <1>2
  <2> DEFINE q == [k \in 0..n + 1 |->
                     IF k <= n THEN p[k] ELSE WrappingMul(b, p[n])]
  <2>2. ASSUME NEW k \in 0..n + 1
        PROVE  q[k] = IF k = 0 THEN 1 ELSE WrappingMul(b, q[k - 1])
    <3>1. CASE k = 0
      BY <2>1, <3>1 DEF Solves
    <3>2. CASE k \in 1..n
      <4>1. p[k] = WrappingMul(b, p[k - 1]) /\ k - 1 \in 0..n
        BY <2>1, <3>2 DEF Solves
      <4>2. QED  BY <3>2, <4>1
    <3>3. CASE k = n + 1
      BY <3>3
    <3>4. QED  BY <3>1, <3>2, <3>3
  <2>3. Solves(q, b, n + 1)
    BY <2>2 DEF Solves
  <2>4. QED  BY <2>3
<1>3. QED  BY <1>1, <1>2, Induction

LEMMA PowerSolves ==
  ASSUME NEW b, NEW e \in Nat
  PROVE  \E p : Solves(p, b, e) /\ Power(b, e) = p[e]
<1> DEFINE q == CHOOSE p : Solves(p, b, e)
<1>1. Solves(q, b, e)
  BY SolutionExists
<1>2. Power(b, e) = q[e]
  BY DEF Power, Solves
<1>3. QED  BY <1>1, <1>2

LEMMA SolutionUnique ==
  ASSUME NEW b, NEW e \in Nat, NEW f \in Nat, NEW p, NEW q,
         Solves(p, b, e), Solves(q, b, f),
         NEW k \in Nat, k <= e, k <= f
  PROVE  p[k] = q[k]
<1> DEFINE T == {n \in Nat : n <= e /\ n <= f => p[n] = q[n]}
<1>1. 0 \in T
  BY DEF Solves
<1>2. ASSUME NEW n \in Nat, n \in T PROVE n + 1 \in T
  <2>1. SUFFICES ASSUME n + 1 <= e, n + 1 <= f PROVE p[n + 1] = q[n + 1]
    OBVIOUS
  <2>2. p[n] = q[n] /\ (n + 1) - 1 = n /\ n + 1 # 0
    BY <1>2, <2>1
  <2>3. p[n + 1] = WrappingMul(b, p[n])
    BY <2>1, <2>2 DEF Solves
  <2>4. q[n + 1] = WrappingMul(b, q[n])
    BY <2>1, <2>2 DEF Solves
  <2>5. QED  BY <2>2, <2>3, <2>4
<1>3. Nat \subseteq T
  <2> HIDE DEF T
  <2>1. QED  BY <1>1, <1>2, Induction
<1>4. QED  BY <1>3

LEMMA PowerZero ==
  ASSUME NEW b
  PROVE  Power(b, 0) = 1
<1>1. PICK p : Solves(p, b, 0) /\ Power(b, 0) = p[0]
  BY PowerSolves
<1>2. QED  BY <1>1 DEF Solves

LEMMA PowerNext ==
  ASSUME NEW b, NEW e \in Nat
  PROVE  Power(b, e + 1) = WrappingMul(b, Power(b, e))
<1>1. PICK p : Solves(p, b, e) /\ Power(b, e) = p[e]
  BY PowerSolves
<1>2. PICK q : Solves(q, b, e + 1) /\ Power(b, e + 1) = q[e + 1]
  BY PowerSolves
<1>3. p[e] = q[e]
  BY <1>1, <1>2, SolutionUnique
<1>4. q[e + 1] = WrappingMul(b, q[e])
  BY <1>2 DEF Solves
<1>5. QED  BY <1>1, <1>2, <1>3, <1>4

LEMMA PowerType ==
  ASSUME NEW b \in Nat, NEW e \in Nat
  PROVE  Power(b, e) \in 0 .. Word - 1 /\ Power(b, e) \in Nat
<1> DEFINE T == {n \in Nat : Power(b, n) \in 0 .. Word - 1}
<1>1. 0 \in T
  BY PowerZero, WordAssumption
<1>2. ASSUME NEW n \in Nat, n \in T PROVE n + 1 \in T
  <2>1. Power(b, n) \in Nat
    BY <1>2, WordAssumption
  <2>2. QED  BY <2>1, PowerNext, WrappingMulType
<1>3. Nat \subseteq T
  <2> HIDE DEF T
  <2>1. QED  BY <1>1, <1>2, Induction
<1>4. QED  BY <1>3, WordAssumption

(* A power of the square is a power of twice the exponent.                 *)
LEMMA PowerOfSquare ==
  ASSUME NEW b \in Nat, NEW e \in Nat
  PROVE  Power(WrappingMul(b, b), e) = Power(b, 2 * e)
<1> DEFINE c == WrappingMul(b, b)
           T == {n \in Nat : Power(c, n) = Power(b, 2 * n)}
<1>1. 0 \in T
  BY PowerZero
<1>2. ASSUME NEW n \in Nat, n \in T PROVE n + 1 \in T
  <2> DEFINE x == Power(b, 2 * n)
  <2>1. x \in Nat /\ 2 * n \in Nat
    BY PowerType
  <2>2. Power(c, n + 1) = WrappingMul(c, x)
    BY <1>2, PowerNext
  <2>3. Power(b, 2 * n + 1) = WrappingMul(b, x)
    BY <2>1, PowerNext
  <2>4. Power(b, (2 * n + 1) + 1) = WrappingMul(b, WrappingMul(b, x))
    BY <2>1, <2>3, PowerNext
  <2>5. 2 * (n + 1) = (2 * n + 1) + 1
    OBVIOUS
  <2>6. WrappingMul(c, x) = WrappingMul(b, WrappingMul(b, x))
    BY <2>1, WrappingMulAssociates
  <2>7. QED  BY <2>2, <2>4, <2>5, <2>6
<1>3. Nat \subseteq T
  <2> HIDE DEF T
  <2>1. QED  BY <1>1, <1>2, Induction
<1>4. QED  BY <1>3

LEMMA PowerOfOdd ==
  ASSUME NEW b \in Nat, NEW e \in Nat, e % 2 # 0
  PROVE  Power(b, e) = WrappingMul(b, Power(WrappingMul(b, b), e \div 2))
<1>1. PICK h \in Nat : h = e \div 2 /\ 2 * h \in Nat /\ e = 2 * h + 1
  OBVIOUS
<1>2. Power(WrappingMul(b, b), h) = Power(b, 2 * h)
  BY PowerOfSquare
<1>3. Power(b, 2 * h + 1) = WrappingMul(b, Power(b, 2 * h))
  BY <1>1, PowerNext
<1>4. QED  BY <1>1, <1>2, <1>3

LEMMA PowerOfEven ==
  ASSUME NEW b \in Nat, NEW e \in Nat, e % 2 = 0
  PROVE  Power(b, e) = Power(WrappingMul(b, b), e \div 2)
<1>1. e \div 2 \in Nat /\ e = 2 * (e \div 2)
  OBVIOUS
<1>2. QED  BY <1>1, PowerOfSquare

LEMMA PowerOne ==
  ASSUME NEW b \in 0 .. Word - 1
  PROVE  Power(b, 1) = b
<1>1. Power(b, 0 + 1) = WrappingMul(b, 1)
  BY PowerZero, PowerNext
<1>2. QED  BY <1>1, WrappingMulOne
-----------------------------------------------------------------------------
(* The loop: what was multiplied out of the result is still to come from   *)
(* the base and the exponent.                                              *)
LoopInvariant ==
  /\ base0 \in 0 .. Word - 1 /\ base \in 0 .. Word - 1
  /\ exponent0 \in Nat /\ exponent \in Nat /\ result \in Nat
  /\ exponent0 \notin {0, 1} =>
       /\ WrappingMul(result, Power(base, exponent)) = Power(base0, exponent0)
       /\ exponent = 0 => result \in 0 .. Word - 1
  /\ answer # NoAnswer => answer = Power(base0, exponent0)

LEMMA LoopStarts == LoopInit => LoopInvariant
<1> SUFFICES ASSUME LoopInit PROVE LoopInvariant
  OBVIOUS
<1>1. /\ base0 \in 0 .. Word - 1 /\ base0 \in Nat /\ exponent0 \in Nat
      /\ base = base0 /\ exponent = exponent0 /\ result = 1 /\ answer = NoAnswer
  BY ExponentsAssumption, WordAssumption DEF LoopInit
<1>2. WrappingMul(1, Power(base0, exponent0)) = Power(base0, exponent0)
  BY <1>1, PowerType, WrappingMulOne
<1>3. QED  BY <1>1, <1>2 DEF LoopInvariant

LEMMA LoopKeeps == LoopInvariant /\ [LoopNext]_loopVars => LoopInvariant'
<1> SUFFICES ASSUME LoopInvariant, [LoopNext]_loopVars PROVE LoopInvariant'
  OBVIOUS
<1>1. CASE Early
  <2>1. answer' = Power(base0, exponent0)
    BY <1>1, PowerZero, PowerOne DEF LoopInvariant, Early
  <2>2. UNCHANGED <<base0, exponent0, base, exponent, result>>
    BY <1>1 DEF Early
  <2>3. QED  BY <2>1, <2>2 DEF LoopInvariant
<1>2. CASE Iterate
  <2>1. /\ base0 \in 0 .. Word - 1 /\ base \in 0 .. Word - 1 /\ base \in Nat
        /\ exponent0 \in Nat /\ exponent \in Nat /\ result \in Nat
        /\ exponent0 \notin {0, 1} /\ exponent > 0
        /\ UNCHANGED <<base0, exponent0, answer>>
        /\ base' = WrappingMul(base, base) /\ exponent' = exponent \div 2
        /\ WrappingMul(result, Power(base, exponent)) = Power(base0, exponent0)
        /\ exponent' \in Nat
    BY <1>2, WordAssumption DEF LoopInvariant, Iterate
  <2>2. base' \in 0 .. Word - 1 /\ base' \in Nat /\ Power(base', exponent') \in Nat
    BY <2>1, WrappingMulType, PowerType
  <2>3. CASE exponent % 2 # 0
    <3>1. result' = WrappingMul(result, base)
      BY <1>2, <2>3 DEF Iterate
    <3>2. result' \in 0 .. Word - 1 /\ result' \in Nat
      BY <2>1, <3>1, WrappingMulType
    <3>3. Power(base, exponent) = WrappingMul(base, Power(base', exponent'))
      BY <2>1, <2>3, PowerOfOdd
    <3>4. WrappingMul(result', Power(base', exponent')) = Power(base0, exponent0)
      BY <2>1, <2>2, <3>1, <3>3, WrappingMulAssociates
    <3>5. QED  BY <2>1, <2>2, <3>2, <3>4 DEF LoopInvariant
  <2>4. CASE exponent % 2 = 0
    <3>1. result' = result /\ exponent' # 0
      BY <1>2, <2>1, <2>4 DEF Iterate
    <3>2. Power(base, exponent) = Power(base', exponent')
      BY <2>1, <2>4, PowerOfEven
    <3>3. QED  BY <2>1, <2>2, <3>1, <3>2 DEF LoopInvariant
  <2>5. QED  BY <2>3, <2>4
<1>3. CASE Return
  <2>1. /\ answer' = result /\ exponent = 0
        /\ UNCHANGED <<base0, exponent0, base, exponent, result>>
        /\ result \in 0 .. Word - 1
        /\ WrappingMul(result, Power(base, exponent)) = Power(base0, exponent0)
    BY <1>3 DEF LoopInvariant, Return
  <2>2. answer' = Power(base0, exponent0)
    BY <2>1, PowerZero, WrappingMulOne
  <2>3. QED  BY <2>1, <2>2 DEF LoopInvariant
<1>4. CASE UNCHANGED loopVars
  BY <1>4 DEF loopVars, LoopInvariant, NoAnswer
<1>5. QED  BY <1>1, <1>2, <1>3, <1>4 DEF LoopNext

(* HashFactor's recursion halves the exponent as the loop does; the power  *)
(* solves it, and nothing else does.                                       *)
Halves(p, n) ==
  p = [e \in 0..n |->
        [b \in 0..(Word - 1) |->
           IF e = 0 THEN 1 % Word
           ELSE WrappingMul(IF e % 2 = 1 THEN b ELSE 1,
                            p[e \div 2][WrappingMul(b, b)])]]

LEMMA PowerHalves ==
  ASSUME NEW b \in 0 .. Word - 1, NEW e \in Nat
  PROVE  Power(b, e) =
           IF e = 0 THEN 1 % Word
           ELSE WrappingMul(IF e % 2 = 1 THEN b ELSE 1,
                            Power(WrappingMul(b, b), e \div 2))
<1>1. b \in Nat /\ 1 % Word = 1
  BY WordAssumption, ModUnique
<1>2. CASE e = 0
  BY <1>1, <1>2, PowerZero
<1>3. CASE e # 0 /\ e % 2 = 1
  BY <1>1, <1>3, PowerOfOdd
<1>4. CASE e # 0 /\ e % 2 # 1
  <2>1. e % 2 = 0 /\ e \div 2 \in Nat
    BY <1>4
  <2>2. Power(WrappingMul(b, b), e \div 2) \in 0 .. Word - 1
    BY <1>1, <2>1, WrappingMulType, PowerType
  <2>3. QED  BY <1>1, <1>4, <2>1, <2>2, PowerOfEven, WrappingMulOne
<1>5. QED  BY <1>2, <1>3, <1>4

LEMMA HalvingExists ==
  ASSUME NEW n \in Nat
  PROVE  Halves([e \in 0..n |-> [b \in 0..(Word - 1) |-> Power(b, e)]], n)
<1> DEFINE p == [e \in 0..n |-> [b \in 0..(Word - 1) |-> Power(b, e)]]
<1>1. ASSUME NEW b \in 0 .. (Word - 1), NEW e \in 0 .. n, e # 0
      PROVE  p[e \div 2][WrappingMul(b, b)] = Power(WrappingMul(b, b), e \div 2)
  <2>1. e \div 2 \in 0 .. n /\ b \in Nat
    BY WordAssumption
  <2>2. WrappingMul(b, b) \in 0 .. (Word - 1)
    BY <2>1, WrappingMulType
  <2>3. QED  BY <2>1, <2>2
<1>2. ASSUME NEW b \in 0 .. (Word - 1), NEW e \in 0 .. n
      PROVE  p[e][b] = IF e = 0 THEN 1 % Word
                       ELSE WrappingMul(IF e % 2 = 1 THEN b ELSE 1,
                                        p[e \div 2][WrappingMul(b, b)])
  <2>1. p[e][b] = Power(b, e) /\ e \in Nat
    OBVIOUS
  <2>2. QED  BY <1>1, <2>1, PowerHalves
<1>3. QED  BY <1>2 DEF Halves

LEMMA HalvingUnique ==
  ASSUME NEW n \in Nat, NEW p, Halves(p, n),
         NEW b \in 0 .. Word - 1, NEW e \in 0 .. n
  PROVE  p[e][b] = Power(b, e)
<1> DEFINE T == {k \in Nat : k <= n => \A c \in 0 .. Word - 1 : p[k][c] = Power(c, k)}
<1>1. ASSUME NEW k \in Nat, \A m \in Nat : m < k => m \in T
      PROVE  k \in T
  <2>1. SUFFICES ASSUME k <= n, NEW c \in 0 .. Word - 1
                 PROVE  p[k][c] = Power(c, k)
    OBVIOUS
  <2>2. p[k][c] = IF k = 0 THEN 1 % Word
                  ELSE WrappingMul(IF k % 2 = 1 THEN c ELSE 1,
                                   p[k \div 2][WrappingMul(c, c)])
    <3> DEFINE body(j, d) ==
                 IF j = 0 THEN 1 % Word
                 ELSE WrappingMul(IF j % 2 = 1 THEN d ELSE 1,
                                  p[j \div 2][WrappingMul(d, d)])
    <3>1. p = [j \in 0..n |-> [d \in 0..(Word - 1) |-> body(j, d)]]
      BY DEF Halves
    <3>2. k \in 0 .. n
      BY <2>1
    <3>3. p[k][c] = body(k, c)
      <4> HIDE DEF body
      <4>1. QED  BY <3>1, <3>2
    <3>4. QED  BY <3>3
  <2>3. k # 0 => p[k \div 2][WrappingMul(c, c)] = Power(WrappingMul(c, c), k \div 2)
    <3>1. SUFFICES ASSUME k # 0
                   PROVE  p[k \div 2][WrappingMul(c, c)]
                            = Power(WrappingMul(c, c), k \div 2)
      OBVIOUS
    <3>2. k \div 2 \in Nat /\ k \div 2 < k /\ k \div 2 <= n /\ c \in Nat
      BY <2>1, <3>1, WordAssumption
    <3>3. WrappingMul(c, c) \in 0 .. Word - 1
      BY <3>2, WrappingMulType
    <3>4. QED  BY <1>1, <3>2, <3>3
  <2>4. QED  BY <2>2, <2>3, PowerHalves
<1>2. Nat \subseteq T
  <2> HIDE DEF T
  <2>1. QED  BY <1>1, StrongInduction
<1>3. QED  BY <1>2

(* HashFactor's square-and-multiply is the power.                          *)
THEOREM FastExponentiationIsPower ==
  ASSUME NEW b \in 0 .. Word - 1, NEW e \in Nat
  PROVE  FastExponentiation(b, e) = Power(b, e)
<1> DEFINE p == CHOOSE q : Halves(q, e)
<1>1. Halves(p, e)
  BY HalvingExists
<1>2. b % Word = b
  BY ModUnique, WordAssumption
<1>3. FastExponentiation(b, e) = p[e][b % Word]
  BY DEF FastExponentiation, Halves
<1>4. QED  BY <1>1, <1>2, <1>3, HalvingUnique

(* The loop of fast_exponentiation answers the power of its base, and what *)
(* HashFactor takes for it, for every base, exponent and word.             *)
THEOREM LoopAnswersPower == LoopSpec => []AnswerIsPower
<1>1. LoopInvariant => AnswerIsPower
  BY FastExponentiationIsPower DEF LoopInvariant, AnswerIsPower
<1>2. QED  BY <1>1, LoopStarts, LoopKeeps, PTL DEF LoopSpec
=============================================================================
