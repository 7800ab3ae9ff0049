--------------------------- MODULE PositionsProofs ---------------------------
(***************************************************************************)
(* Proofs about Positions, for every forest of trees and every store.      *)
(* Whole paths from the root are ways; a scout is at the end of one, that  *)
(* of the entry it starts from and its own (WayTo), and its trail is what  *)
(* is left of it without the nodes (StandsAt).  Going to a child, going up *)
(* and pushing keep what check, check_with and the assertions verify       *)
(* (Sound) and change the trail as one would expect.                       *)
(*                                                                         *)
(* The lengths below a node add up to the length of the text at its leaves *)
(* (PlacesCounted), and a climb from a place adds up the text before it    *)
(* (EarlierCounted).                                                       *)
(***************************************************************************)
EXTENDS Positions, Induction, SequenceTheorems
-----------------------------------------------------------------------------
(* Positions.  What check and check_with verify survives every operation   *)
(* on a scout, for every tree, store and path: going to a child, going up  *)
(* (past the entry the scout starts from, too) and pushing.  So a search   *)
(* that starts from a new store never sees them fail, however it wanders.  *)

\* The children of a node are nodes before it; the root is a node.
LEMMA ChildrenAreNodes ==
  ASSUME tree \in DOMAIN Trees
  PROVE  /\ Root \in Nodes /\ Nodes \subseteq Nat \ {0}
         /\ \A n \in Nodes :
              /\ Children(n) \in Seq(Nodes)
              /\ \A o \in DOMAIN Children(n) :
                   /\ o \in Nat \ {0} /\ Children(n)[o] \in Nodes
                   /\ Children(n)[o] < n
<1>1. Root \in Nat \ {0} /\ Nodes = 1 .. Root
  BY ChildrenFirst DEF Root, Nodes
<1>2. ASSUME NEW n \in Nodes
      PROVE  /\ Children(n) \in Seq(Nodes)
             /\ \A o \in DOMAIN Children(n) :
                  /\ o \in Nat \ {0} /\ Children(n)[o] \in Nodes
                  /\ Children(n)[o] < n
  <2>1. Children(n) \in Seq(1 .. n - 1) /\ n \in Nat
    BY <1>1, ChildrenFirst DEF Nodes, Children
  <2>2. Children(n) \in Seq(Nodes)
    BY <1>1, <2>1, SeqMonotonic
  <2>3. DOMAIN Children(n) = 1 .. Len(Children(n)) /\ Len(Children(n)) \in Nat
    BY <2>1, LenProperties
  <2>4. \A o \in 1 .. Len(Children(n)) : Children(n)[o] \in 1 .. n - 1
    BY <2>1, ElementOfSeq
  <2> QED BY <1>1, <2>1, <2>2, <2>3, <2>4
<1> QED BY <1>1, <1>2

Elements == [node : Nodes, offset : Nat]
Entries == [node : Nodes, offset : Nat, parent : Nat]

\* the parents of the entries of a store are before them
Rooted(arena) ==
  /\ arena \in Seq(Entries) /\ 1 \in DOMAIN arena
  /\ arena[1] = [node |-> Root, offset |-> 0, parent |-> 1]
  /\ \A h \in 2 .. Len(arena) : arena[h].parent \in 1 .. h - 1

On(arena, s) ==
  /\ s \in [root : Nat, path : Seq(Elements)]
  /\ s.root \in DOMAIN arena

\* a scout and its store, as check and check_with want them
Sound(arena, s) ==
  /\ Rooted(arena) /\ On(arena, s)
  /\ StoreCheck(arena) /\ CheckWith(arena, s)

\* A new store and the scout at its only entry are sound.
THEOREM NewIsSound ==
  ASSUME tree \in DOMAIN Trees
  PROVE  Sound(NewStore(Root), [root |-> 1, path |-> << >>])
BY ChildrenAreNodes DEF Sound, Rooted, On, NewStore, StoreCheck, CheckWith, Check, Entries, Elements

\* The last node of a path, without Last.
LEMMA NodeOfPath ==
  ASSUME NEW path \in Seq(Elements), path # << >>
  PROVE  NodeOf(path) = path[Len(path)].node
BY DEF NodeOf, Last

\* The node of a scout is one of the tree.
LEMMA NodeAlwaysIsNode ==
  ASSUME NEW arena, NEW s, Rooted(arena), On(arena, s)
  PROVE  NodeAlways(arena, s) \in Nodes
<1>1. arena[s.root] \in Entries
  BY DEF Rooted, On
<1>2. s.path \in Seq(Elements)
  BY DEF On
<1>3. s.path # << >> => s.path[Len(s.path)] \in Elements
  BY <1>2
<1> QED
  BY <1>1, <1>2, <1>3, NodeOfPath DEF NodeAlways, Entries, Elements

\* Scout::goto: a child given with its own offset is linked.
THEOREM GotoKeepsSound ==
  ASSUME tree \in DOMAIN Trees, NEW arena, NEW s, Sound(arena, s),
         NEW o \in DOMAIN Children(NodeAlways(arena, s))
  PROVE  Sound(arena, GotoChild(arena, s, o))
<1> DEFINE child == Children(NodeAlways(arena, s))[o]
           element == [node |-> child, offset |-> o]
           t == GotoChild(arena, s, o)
<1>1. /\ s \in [root : Nat, path : Seq(Elements)]
      /\ element \in Elements
  BY NodeAlwaysIsNode, ChildrenAreNodes DEF Sound, On, Elements
<1>2. /\ t.root = s.root
      /\ t.path = Append(s.path, element)
      /\ t \in [root : Nat, path : Seq(Elements)]
  <2>1. t = [s EXCEPT !.path = Append(s.path, element)]
    BY <1>1 DEF GotoChild, Goto
  <2>2. Append(s.path, element) \in Seq(Elements)
    BY <1>1
  <2> QED BY ONLY <1>1, <2>1, <2>2
<1>3. Linked(NodeAlways(arena, s), element)
  BY DEF Linked
<1>4. Check(s.path) /\ (s.path # << >> => Linked(arena[s.root].node, s.path[1]))
  BY DEF Sound, CheckWith
<1>5. Check(t.path)
  <2> SUFFICES ASSUME NEW i \in 2 .. Len(t.path)
               PROVE  Linked(t.path[i - 1].node, t.path[i])
    BY DEF Check
  <2>1. CASE i <= Len(s.path)
    <3>1. t.path[i - 1] = s.path[i - 1] /\ t.path[i] = s.path[i]
      BY <1>1, <1>2, <2>1
    <3> QED BY <1>1, <1>4, <2>1, <3>1 DEF Check
  <2>2. CASE i > Len(s.path)
    <3>1. s.path # << >> /\ i = Len(s.path) + 1
      BY <1>1, <1>2, <2>2
    <3>2. t.path[i] = element /\ t.path[i - 1] = s.path[Len(s.path)]
      BY <1>1, <1>2, <3>1
    <3>3. NodeAlways(arena, s) = s.path[Len(s.path)].node
      BY <1>1, <3>1, NodeOfPath DEF NodeAlways
    <3> QED BY <1>3, <3>2, <3>3
  <2> QED BY <1>1, <1>2, <2>1, <2>2
<1>6. t.path # << >> => Linked(arena[t.root].node, t.path[1])
  <2>1. CASE s.path = << >>
    BY <1>1, <1>2, <1>3, <2>1 DEF NodeAlways
  <2>2. CASE s.path # << >>
    <3>1. t.path[1] = s.path[1]
      BY <1>1, <1>2, <2>2
    <3> QED BY <1>2, <1>4, <2>2, <3>1
  <2> QED BY <2>1, <2>2
<1>7. On(arena, t)
  BY <1>2 DEF Sound, On
<1> QED
  BY <1>2, <1>5, <1>6, <1>7 DEF Sound, CheckWith

\* Scout::up: also from the entry the scout starts from to its parent.
THEOREM UpKeepsSound ==
  ASSUME NEW arena, NEW s, Sound(arena, s)
  PROVE  Sound(arena, Up(arena, s))
<1> DEFINE t == Up(arena, s)
<1>1. /\ s \in [root : Nat, path : Seq(Elements)]
      /\ arena \in Seq(Entries) /\ s.root \in 1 .. Len(arena)
  BY DEF Sound, On, Rooted
<1>2. CASE s.path # << >>
  <2>1. /\ t.root = s.root /\ t.path \in Seq(Elements)
        /\ t \in [root : Nat, path : Seq(Elements)]
        /\ Len(t.path) = Len(s.path) - 1
        /\ \A i \in 1 .. Len(t.path) : t.path[i] = s.path[i]
    <3>1. t = [s EXCEPT !.path = SubSeq(s.path, 1, Len(s.path) - 1)]
      BY <1>2 DEF Up, Front
    <3>2. s.path \in Seq(Elements) /\ Len(s.path) \in Nat \ {0}
      BY <1>1, <1>2
    <3> DEFINE path == SubSeq(s.path, 1, Len(s.path) - 1)
    <3>3. /\ path \in Seq(Elements) /\ Len(path) = Len(s.path) - 1
          /\ \A i \in 1 .. Len(path) : path[i] = s.path[i]
      BY <3>2
    <3> HIDE DEF path
    <3>4. t = [s EXCEPT !.path = path]
      BY <3>1 DEF path
    <3>5. t.root = s.root /\ t.path = path /\ t \in [root : Nat, path : Seq(Elements)]
      BY ONLY <1>1, <3>3, <3>4
    <3> QED BY <3>3, <3>5
  <2>2. Check(t.path)
    BY <1>1, <2>1 DEF Check, Sound, CheckWith
  <2>3. t.path # << >> => Linked(arena[t.root].node, t.path[1])
    BY <1>1, <1>2, <2>1 DEF Sound, CheckWith
  <2> QED BY <2>1, <2>2, <2>3 DEF Sound, On, CheckWith
<1>3. CASE s.path = << >>
  <2>1. /\ t.root = arena[s.root].parent /\ t.path = << >>
        /\ t = [s EXCEPT !.root = arena[s.root].parent]
    BY <1>1, <1>3 DEF Up
  <2>2. arena[s.root].parent \in 1 .. s.root
    BY <1>1 DEF Sound, Rooted
  <2>3. On(arena, t)
    BY <1>1, <2>1, <2>2 DEF Sound, Rooted, On
  <2>4. CheckWith(arena, t)
    BY <1>1, <2>1, <2>2 DEF Sound, CheckWith, Check
  <2> QED BY <2>3, <2>4 DEF Sound
<1> QED BY <1>2, <1>3

\* What a push adds, and that what was there stays.
LEMMA PushedEntries ==
  ASSUME NEW arena, NEW s, Sound(arena, s)
  PROVE  LET n == Len(arena)
             p == Len(s.path)
             pushed == Pushed(arena, s)
         IN  /\ pushed \in Seq(Entries) /\ Len(pushed) = n + p
             /\ n \in Nat \ {0} /\ p \in Nat
             /\ \A h \in 1 .. n : pushed[h] = arena[h]
             /\ \A k \in 1 .. p :
                  /\ pushed[n + k].node = s.path[k].node
                  /\ pushed[n + k].offset = s.path[k].offset
                  /\ pushed[n + k].parent = IF k = 1 THEN s.root ELSE n + k - 1
<1> DEFINE n == Len(arena)
           p == Len(s.path)
           pushed == Pushed(arena, s)
<1>1. /\ s \in [root : Nat, path : Seq(Elements)]
      /\ arena \in Seq(Entries) /\ s.root \in 1 .. n
      /\ n \in Nat \ {0} /\ p \in Nat
  BY DEF Sound, On, Rooted
<1> DEFINE added == [k \in 1 .. p |->
             [node |-> s.path[k].node, offset |-> s.path[k].offset,
              parent |-> IF k = 1 THEN s.root ELSE n + k - 1]]
<1>2. \A k \in 1 .. p : s.path[k] \in Elements
  BY <1>1
<1>3. added \in Seq(Entries) /\ Len(added) = p
  <2>1. ASSUME NEW k \in 1 .. p
        PROVE  added[k] \in Entries
    <3>1. s.path[k].node \in Nodes /\ s.path[k].offset \in Nat
      BY <1>2 DEF Elements
    <3>2. (IF k = 1 THEN s.root ELSE n + k - 1) \in Nat
      BY <1>1
    <3> QED BY <3>1, <3>2 DEF Entries
  <2>2. added = [k \in 1 .. p |-> added[k]]
    OBVIOUS
  <2> HIDE DEF added
  <2> QED BY <1>1, <2>1, <2>2
<1>4. pushed = arena \o added
  <2>1. DOMAIN s.path = 1 .. p
    BY <1>1, LenProperties
  <2> QED BY <2>1 DEF Pushed
<1>5. \A k \in 1 .. p :
        /\ added[k].node = s.path[k].node /\ added[k].offset = s.path[k].offset
        /\ added[k].parent = IF k = 1 THEN s.root ELSE n + k - 1
  OBVIOUS
<1> HIDE DEF added, pushed
<1>6. /\ pushed \in Seq(Entries) /\ Len(pushed) = n + p
      /\ \A h \in 1 .. n : pushed[h] = arena[h]
      /\ \A k \in 1 .. p : pushed[n + k] = added[k]
  <2>1. arena \in Seq(Entries) /\ added \in Seq(Entries) /\ n \in Nat
    BY <1>1, <1>3
  <2>2. pushed \in Seq(Entries) /\ Len(pushed) = n + p
    BY <1>3, <1>4, <2>1
  <2>3. ASSUME NEW h \in 1 .. n
        PROVE  pushed[h] = arena[h]
    BY <1>3, <1>4, <2>1
  <2>4. ASSUME NEW k \in 1 .. p
        PROVE  pushed[n + k] = added[k]
    BY <1>1, <1>3, <1>4, <2>1
  <2> QED BY <2>2, <2>3, <2>4
<1>7. \A k \in 1 .. p :
        /\ pushed[n + k].node = s.path[k].node
        /\ pushed[n + k].offset = s.path[k].offset
        /\ pushed[n + k].parent = IF k = 1 THEN s.root ELSE n + k - 1
  BY <1>5, <1>6
<1> QED BY <1>1, <1>6, <1>7 DEF pushed

\* StructuralPositionStore::push: the entries that are added hang from one
\* another and from the scout's own entry, and those that were there stay.
THEOREM PushKeepsSound ==
  ASSUME NEW arena, NEW s, Sound(arena, s)
  PROVE  Sound(Pushed(arena, s), Landed(arena, s))
<1> DEFINE n == Len(arena)
           p == Len(s.path)
           pushed == Pushed(arena, s)
           t == Landed(arena, s)
<1>1. /\ s \in [root : Nat, path : Seq(Elements)]
      /\ arena \in Seq(Entries) /\ s.root \in 1 .. n
      /\ n \in Nat /\ p \in Nat
  BY DEF Sound, On, Rooted
<1>2. /\ pushed \in Seq(Entries) /\ Len(pushed) = n + p
      /\ \A h \in 1 .. n : pushed[h] = arena[h]
      /\ \A k \in 1 .. p :
           /\ pushed[n + k].node = s.path[k].node
           /\ pushed[n + k].offset = s.path[k].offset
           /\ pushed[n + k].parent = IF k = 1 THEN s.root ELSE n + k - 1
  <2>1. pushed \in Seq(Entries) /\ Len(pushed) = n + p
    BY PushedEntries
  <2>2. \A h \in 1 .. n : pushed[h] = arena[h]
    BY PushedEntries
  <2>3. \A k \in 1 .. p :
           /\ pushed[n + k].node = s.path[k].node
           /\ pushed[n + k].offset = s.path[k].offset
           /\ pushed[n + k].parent = IF k = 1 THEN s.root ELSE n + k - 1
    BY PushedEntries
  <2> QED BY <2>1, <2>2, <2>3
<1>3. Rooted(pushed)
  <2> HIDE DEF pushed, t
  <2>1. /\ 1 \in 1 .. n /\ arena[1] = [node |-> Root, offset |-> 0, parent |-> 1]
        /\ \A h \in 2 .. n : arena[h].parent \in 1 .. h - 1
    BY <1>1 DEF Sound, Rooted
  <2>2. ASSUME NEW h \in 2 .. n + p
        PROVE  pushed[h].parent \in 1 .. h - 1
    <3>1. CASE h <= n
      <4>1. h \in 1 .. n /\ h \in 2 .. n
        BY <1>1, <3>1
      <4>2. pushed[h] = arena[h]
        BY <1>2, <4>1
      <4> QED BY <2>1, <4>1, <4>2
    <3>2. CASE h > n
      <4> DEFINE k == h - n
      <4>1. k \in 1 .. p /\ h = n + k
        BY <1>1, <3>2
      <4>2. pushed[h].parent = IF k = 1 THEN s.root ELSE n + k - 1
        BY <1>2, <4>1
      <4> QED BY <1>1, <4>1, <4>2
    <3> QED BY <1>1, <3>1, <3>2
  <2> QED BY <1>1, <1>2, <2>1, <2>2 DEF Rooted
<1>4. StoreCheck(pushed)
  <2> HIDE DEF pushed, t
  <2> SUFFICES ASSUME NEW h \in 2 .. n + p
               PROVE  Linked(pushed[pushed[h].parent].node, pushed[h])
    BY <1>2 DEF StoreCheck
  <2>1. CASE h <= n
    <3>1. arena[h].parent \in 1 .. n
      BY <1>1, <2>1 DEF Sound, Rooted
    <3> QED BY <1>1, <1>2, <2>1, <3>1 DEF Sound, StoreCheck
  <2>2. CASE h = n + 1
    <3>1. /\ pushed[h].parent = s.root /\ pushed[s.root] = arena[s.root]
          /\ pushed[h].node = s.path[1].node /\ pushed[h].offset = s.path[1].offset
          /\ s.path # << >>
      <4>1. 1 \in 1 .. p /\ h = n + 1
        BY <1>1, <2>2
      <4> QED BY <1>1, <1>2, <4>1
    <3>2. Linked(arena[s.root].node, s.path[1])
      BY <3>1 DEF Sound, CheckWith
    <3> QED BY <3>1, <3>2 DEF Linked
  <2>3. CASE h > n + 1
    <3> DEFINE k == h - n
    <3>1. k \in 2 .. p /\ h = n + k
      BY <1>1, <2>3
    <3>2. /\ pushed[h].parent = n + (k - 1)
          /\ pushed[h].node = s.path[k].node /\ pushed[h].offset = s.path[k].offset
          /\ pushed[n + (k - 1)].node = s.path[k - 1].node
      <4>1. k \in 1 .. p /\ k # 1 /\ k - 1 \in 1 .. p /\ n + k - 1 = n + (k - 1)
        BY <1>1, <3>1
      <4>2. /\ pushed[n + k].node = s.path[k].node
            /\ pushed[n + k].offset = s.path[k].offset
            /\ pushed[n + k].parent = n + k - 1
        BY <1>2, <4>1
      <4>3. pushed[n + (k - 1)].node = s.path[k - 1].node
        <5> DEFINE j == k - 1
        <5>1. j \in 1 .. p
          BY <4>1
        <5> HIDE DEF j
        <5>2. pushed[n + j].node = s.path[j].node
          BY <1>2, <5>1
        <5> QED BY <5>2 DEF j
      <4> QED BY <3>1, <4>1, <4>2, <4>3
    <3>3. Linked(s.path[k - 1].node, s.path[k])
      BY <3>1 DEF Sound, CheckWith, Check
    <3> QED BY <3>2, <3>3 DEF Linked
  <2> QED BY <1>1, <2>1, <2>2, <2>3
<1>5. On(pushed, t) /\ CheckWith(pushed, t)
  <2>1. On(pushed, t) /\ t.path = << >>
    BY <1>1, <1>2 DEF Landed, On
  <2>2. t.root \in 1 .. Len(pushed)
    BY <1>2, <2>1 DEF On
  <2> QED BY <1>2, <1>4, <2>1, <2>2 DEF CheckWith, Check, StoreCheck
<1> QED
  BY <1>3, <1>4, <1>5 DEF Sound
-----------------------------------------------------------------------------
(* Ways: whole paths from the root, and those that stores and scouts mean. *)

Way(path) ==
  /\ path \in Seq(Elements) /\ path # << >>
  /\ path[1] = [node |-> Root, offset |-> 0]
  /\ Check(path)

\* A way goes on to a child.
LEMMA WayGoesOn ==
  ASSUME NEW path, Way(path), NEW e \in Elements, Linked(NodeOf(path), e)
  PROVE  /\ Way(Append(path, e))
         /\ Len(Append(path, e)) = Len(path) + 1
         /\ NodeOf(Append(path, e)) = e.node
<1> DEFINE t == Append(path, e)
           n == Len(path)
<1>1. path \in Seq(Elements) /\ path # << >> /\ n \in Nat \ {0}
  BY EmptySeq DEF Way
<1>2. /\ t \in Seq(Elements) /\ t # << >> /\ Len(t) = n + 1
      /\ \A i \in 1 .. n : t[i] = path[i]
      /\ t[n + 1] = e
  BY <1>1, AppendProperties
<1>3. NodeOf(path) = path[n].node /\ NodeOf(t) = e.node
  BY <1>1, <1>2 DEF NodeOf, Last
<1> HIDE DEF t, n
<1>4. Check(t)
  <2>1. SUFFICES ASSUME NEW i \in 2 .. Len(t) PROVE Linked(t[i - 1].node, t[i])
    BY DEF Check
  <2>2. CASE i <= n
    <3>1. i - 1 \in 1 .. n /\ i \in 1 .. n /\ i \in 2 .. n
      BY <1>1, <2>2
    <3>2. Linked(path[i - 1].node, path[i])
      BY <3>1 DEF Way, Check, n
    <3> QED BY <1>2, <3>1, <3>2
  <2>3. CASE i > n
    <3>1. i = n + 1 /\ i - 1 = n /\ n \in 1 .. n
      BY <1>1, <1>2, <2>3
    <3> QED BY <1>2, <1>3, <3>1
  <2> QED BY <1>1, <2>2, <2>3
<1>5. t[1] = path[1]
  BY <1>1, <1>2
<1> QED BY <1>2, <1>3, <1>4, <1>5 DEF Way, t, n

\* A way back ends at the node it came from.
LEMMA WayGoesBack ==
  ASSUME NEW path, Way(path), Len(path) # 1
  PROVE  /\ Way(Front(path))
         /\ Len(Front(path)) = Len(path) - 1
         /\ \A i \in 1 .. Len(path) - 1 : Front(path)[i] = path[i]
         /\ NodeOf(Front(path)) = path[Len(path) - 1].node
         /\ Linked(NodeOf(Front(path)), path[Len(path)])
         /\ path = Append(Front(path), path[Len(path)])
<1> DEFINE n == Len(path)
           t == SubSeq(path, 1, n - 1)
<1>1. path \in Seq(Elements) /\ path # << >> /\ n \in Nat \ {0, 1}
  BY EmptySeq DEF Way
<1>2. \A i \in 1 .. n : path[i] \in Elements
  BY <1>1, ElementOfSeq
<1>3. /\ t \in Seq(Elements) /\ Len(t) = n - 1
      /\ \A i \in 1 .. n - 1 : t[i] = path[i]
  <2> HIDE DEF n
  <2>1. /\ \A i \in 1 .. n - 1 : path[i] \in Elements
        /\ 1 \in Int /\ n - 1 \in Int /\ 1 <= n - 1
        /\ (n - 1) - 1 + 1 = n - 1
    BY <1>1, <1>2
  <2>2. /\ t \in Seq(Elements) /\ Len(t) = IF 1 <= n - 1 THEN (n - 1) - 1 + 1 ELSE 0
        /\ \A i \in 1 .. (n - 1) - 1 + 1 : t[i] = path[1 + i - 1]
    BY <2>1, SubSeqProperties
  <2> QED BY <1>1, <2>1, <2>2
<1>4. t = Front(path)
  BY DEF Front
<1> HIDE DEF t
<1>5. n - 1 \in 1 .. n - 1 /\ n \in 2 .. n /\ t # << >>
  BY <1>1, <1>3
<1>6. NodeOf(t) = path[n - 1].node
  BY <1>1, <1>3, <1>5 DEF NodeOf, Last
<1>7. Check(t)
  <2>1. SUFFICES ASSUME NEW i \in 2 .. Len(t) PROVE Linked(t[i - 1].node, t[i])
    BY DEF Check
  <2>2. i - 1 \in 1 .. n - 1 /\ i \in 1 .. n - 1 /\ i \in 2 .. n
    BY <1>1, <1>3
  <2>3. Linked(path[i - 1].node, path[i])
    BY <2>2 DEF Way, Check
  <2> QED BY <1>3, <2>2, <2>3
<1>8. t[1] = path[1]
  BY <1>1, <1>3
<1>9. Way(t)
  BY <1>3, <1>5, <1>7, <1>8 DEF Way
<1>10. Linked(path[n - 1].node, path[n])
  BY <1>5 DEF Way, Check
<1>11. path = Append(t, path[n])
  <2>1. path[n] \in Elements /\ n \in 1 .. n
    BY <1>1, <1>2
  <2>2. /\ Append(t, path[n]) \in Seq(Elements) /\ Len(Append(t, path[n])) = n
        /\ \A i \in 1 .. n - 1 : Append(t, path[n])[i] = t[i]
        /\ Append(t, path[n])[n] = path[n]
    BY <1>1, <1>3, <2>1, AppendProperties
  <2>3. \A i \in 1 .. n : path[i] = Append(t, path[n])[i]
    <3>1. SUFFICES ASSUME NEW i \in 1 .. n PROVE path[i] = Append(t, path[n])[i]
      OBVIOUS
    <3>2. CASE i = n
      BY <2>2, <3>2
    <3>3. CASE i # n
      <4>1. i \in 1 .. n - 1
        BY <1>1, <3>3
      <4> QED BY <1>3, <2>2, <4>1
    <3> QED BY <3>2, <3>3
  <2> QED BY <1>1, <2>2, <2>3, SeqEqual
<1> QED BY <1>3, <1>4, <1>6, <1>9, <1>10, <1>11
-----------------------------------------------------------------------------
(* Lineage: its recursion has a solution, and what it gives.               *)

ElementOf(entry) == [node |-> entry.node, offset |-> entry.offset]

Lines(line, arena, n) ==
  line = [e \in 1 .. n |->
            IF e = 1 THEN <<ElementOf(arena[e])>>
            ELSE Append(line[arena[e].parent], ElementOf(arena[e]))]

\* There is a lineage for every entry of a store.
LEMMA LinesExist ==
  ASSUME NEW arena, Rooted(arena)
  PROVE  \E line : Lines(line, arena, Len(arena))
<1> DEFINE T == {n \in Nat : n <= Len(arena) => \E line : Lines(line, arena, n)}
<1>1. Len(arena) \in Nat
  BY DEF Rooted
<1>2. 0 \in T
  <2>1. Lines([e \in 1 .. 0 |-> 0], arena, 0)
    BY DEF Lines
  <2> QED BY <2>1
<1>3. ASSUME NEW n \in Nat, n \in T PROVE n + 1 \in T
  <2>1. SUFFICES ASSUME n + 1 <= Len(arena)
                 PROVE  \E line : Lines(line, arena, n + 1)
    OBVIOUS
  <2>2. PICK line : Lines(line, arena, n)
    BY <1>1, <1>3, <2>1
  <2> DEFINE entry(e) == ElementOf(arena[e])
             next == [e \in 1 .. n + 1 |->
                        IF e <= n THEN line[e]
                        ELSE IF e = 1 THEN <<entry(e)>>
                        ELSE Append(line[arena[e].parent], entry(e))]
  <2>3. ASSUME NEW e \in 1 .. n + 1
        PROVE  next[e] = IF e = 1 THEN <<entry(e)>>
                         ELSE Append(next[arena[e].parent], entry(e))
    <3>1. CASE e = 1
      <4>1. 1 <= n => line[1] = <<entry(1)>>
        BY <2>2 DEF Lines
      <4> QED BY <3>1, <4>1
    <3>2. CASE e # 1
      <4>1. e \in 2 .. Len(arena)
        BY <1>1, <2>1, <3>2
      <4>2. arena[e].parent \in 1 .. n /\ arena[e].parent \in 1 .. n + 1
        BY <1>1, <2>1, <4>1 DEF Rooted
      <4>3. next[arena[e].parent] = line[arena[e].parent]
        BY <4>2
      <4>4. e \in 1 .. n => line[e] = Append(line[arena[e].parent], entry(e))
        BY <2>2, <3>2, Zenon DEF Lines
      <4>5. e <= n => e \in 1 .. n
        OBVIOUS
      <4> QED BY <3>2, <4>3, <4>4, <4>5
    <3> QED BY <3>1, <3>2
  <2>4. Lines(next, arena, n + 1)
    <3>1. next = [e \in 1 .. n + 1 |-> next[e]]
      OBVIOUS
    <3> HIDE DEF next
    <3> QED BY <2>3, <3>1 DEF Lines
  <2> QED BY <2>4
<1>4. Nat \subseteq T
  <2> HIDE DEF T
  <2> QED BY <1>2, <1>3, Induction
<1> QED BY <1>1, <1>4

\* The line of the first entry, and of the others from that of their parent.
LEMMA LineageOf ==
  ASSUME NEW arena, Rooted(arena)
  PROVE  /\ Lineage(arena, 1) = <<[node |-> Root, offset |-> 0]>>
         /\ \A h \in 2 .. Len(arena) :
              Lineage(arena, h)
              = Append(Lineage(arena, arena[h].parent), ElementOf(arena[h]))
<1> DEFINE line == CHOOSE l : Lines(l, arena, Len(arena))
<1>1. Lines(line, arena, Len(arena))
  BY LinesExist
<1>2. DOMAIN arena = 1 .. Len(arena) /\ Len(arena) \in Nat \ {0}
  BY DEF Rooted
<1>3. ASSUME NEW h PROVE Lineage(arena, h) = line[h]
  BY <1>2 DEF Lineage, Lines, ElementOf
<1>4. line = [e \in 1 .. Len(arena) |->
            IF e = 1 THEN <<ElementOf(arena[e])>>
            ELSE Append(line[arena[e].parent], ElementOf(arena[e]))]
  BY <1>1 DEF Lines
<1> HIDE DEF line
<1>5. line[1] = <<ElementOf(arena[1])>>
  BY <1>2, <1>4
<1>6. ASSUME NEW h \in 2 .. Len(arena)
      PROVE  line[h] = Append(line[arena[h].parent], ElementOf(arena[h]))
  <2>1. h \in 1 .. Len(arena) /\ h # 1
    BY <1>2
  <2> QED BY <1>4, <2>1, Zenon
<1>7. ElementOf(arena[1]) = [node |-> Root, offset |-> 0]
  BY DEF ElementOf, Rooted
<1> QED BY <1>3, <1>5, <1>6, <1>7

\* Entries mean the ways to their nodes.
LEMMA LineageIsWay ==
  ASSUME tree \in DOMAIN Trees, NEW arena, Rooted(arena), StoreCheck(arena),
         NEW h \in DOMAIN arena
  PROVE  /\ Way(Lineage(arena, h))
         /\ NodeOf(Lineage(arena, h)) = arena[h].node
         /\ Len(Lineage(arena, h)) = 1 <=> h = 1
<1> DEFINE Leads(k) == /\ Way(Lineage(arena, k))
                       /\ NodeOf(Lineage(arena, k)) = arena[k].node
                       /\ Len(Lineage(arena, k)) = 1 <=> k = 1
           T == {k \in Nat : k \in 1 .. Len(arena) => Leads(k)}
<1>1. /\ DOMAIN arena = 1 .. Len(arena) /\ Len(arena) \in Nat \ {0}
      /\ \A k \in 1 .. Len(arena) : ElementOf(arena[k]) \in Elements
  <2>1. DOMAIN arena = 1 .. Len(arena) /\ Len(arena) \in Nat \ {0}
    BY DEF Rooted
  <2>2. \A k \in 1 .. Len(arena) : arena[k] \in Entries
    BY DEF Rooted
  <2> QED BY <2>1, <2>2 DEF ElementOf, Elements, Entries
<1>2. ASSUME NEW k \in Nat, \A m \in Nat : m < k => m \in T
      PROVE  k \in T
  <2>1. SUFFICES ASSUME k \in 1 .. Len(arena) PROVE Leads(k)
    OBVIOUS
  <2>2. CASE k = 1
    <3> DEFINE root == [node |-> Root, offset |-> 0]
    <3>1. Lineage(arena, 1) = <<root>> /\ root \in Elements
      BY ChildrenAreNodes, LineageOf DEF Elements
    <3>2. arena[1].node = Root /\ root.node = Root
      BY DEF Rooted
    <3> HIDE DEF root
    <3>3. Len(<<root>>) = 1 /\ <<root>>[1] = root /\ <<root>> \in Seq(Elements)
      BY <3>1
    <3>4. Way(<<root>>) /\ NodeOf(<<root>>) = Root
      BY <3>2, <3>3 DEF Way, Check, NodeOf, Last, root
    <3> QED BY <2>2, <3>1, <3>2, <3>3, <3>4
  <2>3. CASE k # 1
    <3>1. k \in 2 .. Len(arena) /\ arena[k].parent \in 1 .. k - 1
      BY <1>1, <2>1, <2>3 DEF Rooted
    <3>2. PICK up \in 1 .. k - 1 : up = arena[k].parent
      BY <3>1
    <3>3. Leads(up)
      BY <1>1, <1>2, <2>1, <3>2
    <3>4. Linked(arena[up].node, arena[k])
      BY <3>1, <3>2 DEF StoreCheck
    <3>5. PICK e \in Elements : e = ElementOf(arena[k])
      BY <1>1, <2>1
    <3>6. Linked(NodeOf(Lineage(arena, up)), e) /\ e.node = arena[k].node
      BY <3>3, <3>4, <3>5 DEF Linked, ElementOf
    <3>7. Lineage(arena, k) = Append(Lineage(arena, up), e)
      BY <3>1, <3>2, <3>5, LineageOf
    <3>8. Way(Lineage(arena, up)) /\ Len(Lineage(arena, up)) \in Nat \ {0}
      BY <3>3, EmptySeq DEF Way
    <3>9. /\ Way(Append(Lineage(arena, up), e))
          /\ Len(Append(Lineage(arena, up), e)) = Len(Lineage(arena, up)) + 1
          /\ NodeOf(Append(Lineage(arena, up), e)) = e.node
      BY <3>6, <3>8, WayGoesOn
    <3> QED BY <2>3, <3>6, <3>7, <3>8, <3>9
  <2> QED BY <2>2, <2>3
<1>3. Nat \subseteq T
  <2> HIDE DEF T
  <2> QED BY <1>2, StrongInduction
<1> QED BY <1>1, <1>3

\* Entries keep their meaning while the store grows.
Extends(st, arena) ==
  /\ Len(arena) <= Len(st)
  /\ \A h \in 1 .. Len(arena) : st[h] = arena[h]

\* So do the lineages of its entries.
LEMMA LineageStays ==
  ASSUME NEW arena, NEW st, Rooted(arena), Rooted(st), Extends(st, arena),
         NEW h \in DOMAIN arena
  PROVE  Lineage(st, h) = Lineage(arena, h)
<1> DEFINE T == {k \in Nat : k \in 1 .. Len(arena) => Lineage(st, k) = Lineage(arena, k)}
<1>1. /\ DOMAIN arena = 1 .. Len(arena) /\ Len(arena) \in Nat /\ Len(st) \in Nat
      /\ Len(arena) <= Len(st)
  BY DEF Rooted, Extends
<1>2. ASSUME NEW k \in Nat, \A m \in Nat : m < k => m \in T
      PROVE  k \in T
  <2>1. SUFFICES ASSUME k \in 1 .. Len(arena)
                 PROVE  Lineage(st, k) = Lineage(arena, k)
    OBVIOUS
  <2>2. CASE k = 1
    BY <2>2, LineageOf
  <2>3. CASE k # 1
    <3>1. k \in 2 .. Len(arena) /\ k \in 2 .. Len(st) /\ st[k] = arena[k]
      BY <1>1, <2>1, <2>3 DEF Extends
    <3>2. PICK up \in 1 .. k - 1 : up = arena[k].parent
      BY <3>1 DEF Rooted
    <3>3. Lineage(st, up) = Lineage(arena, up)
      BY <1>1, <1>2, <2>1, <3>2
    <3> QED BY <3>1, <3>2, <3>3, LineageOf
  <2> QED BY <2>2, <2>3
<1>3. Nat \subseteq T
  <2> HIDE DEF T
  <2> QED BY <1>2, StrongInduction
<1> QED BY <1>1, <1>3
-----------------------------------------------------------------------------
(* The way a scout is at the end of, and what its operations make of it.   *)

WayTo(arena, s) == Lineage(arena, s.root) \o s.path

\* It is the lineage of its entry, then its own path.
LEMMA WayToParts ==
  ASSUME tree \in DOMAIN Trees, NEW arena, NEW s, Sound(arena, s)
  PROVE  LET line == Lineage(arena, s.root)
             way == WayTo(arena, s)
         IN  /\ line \in Seq(Elements) /\ Len(line) \in Nat \ {0}
             /\ s.path \in Seq(Elements) /\ Len(s.path) \in Nat
             /\ way \in Seq(Elements) /\ Len(way) = Len(line) + Len(s.path)
             /\ \A i \in 1 .. Len(line) : way[i] = line[i]
             /\ \A i \in 1 .. Len(s.path) : way[Len(line) + i] = s.path[i]
             /\ Way(line) /\ NodeOf(line) = arena[s.root].node
             /\ (Len(line) = 1 <=> s.root = 1)
             /\ (s.path = << >> <=> Len(s.path) = 0)
             /\ (s.path = << >> => way = line)
<1> DEFINE line == Lineage(arena, s.root)
           way == WayTo(arena, s)
<1>1. s.path \in Seq(Elements) /\ s.root \in DOMAIN arena
  BY DEF Sound, On
<1>2. /\ Way(line) /\ NodeOf(line) = arena[s.root].node
      /\ (Len(line) = 1 <=> s.root = 1)
  BY <1>1, LineageIsWay DEF Sound
<1> HIDE DEF line
<1>3. line \in Seq(Elements) /\ Len(line) \in Nat \ {0}
  BY <1>2, EmptySeq DEF Way
<1>4. way = line \o s.path
  BY DEF WayTo, line
<1> HIDE DEF way
<1>5. /\ way \in Seq(Elements) /\ Len(way) = Len(line) + Len(s.path)
      /\ \A i \in 1 .. Len(line) + Len(s.path) :
           way[i] = IF i <= Len(line) THEN line[i] ELSE s.path[i - Len(line)]
  BY <1>1, <1>3, <1>4, ConcatProperties
<1>6. Len(s.path) \in Nat /\ (s.path = << >> <=> Len(s.path) = 0)
  BY <1>1, EmptySeq, LenProperties
<1>7. ASSUME NEW i \in 1 .. Len(line) PROVE way[i] = line[i]
  BY <1>3, <1>5, <1>6
<1>8. ASSUME NEW i \in 1 .. Len(s.path) PROVE way[Len(line) + i] = s.path[i]
  <2>1. /\ Len(line) + i \in 1 .. Len(line) + Len(s.path)
        /\ ~(Len(line) + i <= Len(line)) /\ (Len(line) + i) - Len(line) = i
    BY <1>3, <1>6
  <2> QED BY <1>5, <2>1
<1>9. s.path = << >> => way = line
  BY <1>3, <1>4, ConcatEmptySeq
<1> QED BY <1>1, <1>2, <1>3, <1>5, <1>6, <1>7, <1>8, <1>9 DEF line, way

\* It is a way to the node of the scout, of one step for each parent.
LEMMA WayToIsWay ==
  ASSUME tree \in DOMAIN Trees, NEW arena, NEW s, Sound(arena, s)
  PROVE  /\ Way(WayTo(arena, s))
         /\ NodeOf(WayTo(arena, s)) = NodeAlways(arena, s)
         /\ HasParents(s) <=> Len(WayTo(arena, s)) # 1
<1> DEFINE line == Lineage(arena, s.root)
           way == WayTo(arena, s)
           n == Len(line)
           p == Len(s.path)
<1>1. /\ line \in Seq(Elements) /\ n \in Nat \ {0}
      /\ s.path \in Seq(Elements) /\ p \in Nat
      /\ way \in Seq(Elements) /\ Len(way) = n + p
      /\ \A i \in 1 .. n : way[i] = line[i]
      /\ \A i \in 1 .. p : way[n + i] = s.path[i]
      /\ Way(line) /\ NodeOf(line) = arena[s.root].node
      /\ (n = 1 <=> s.root = 1)
      /\ (s.path = << >> <=> p = 0)
      /\ (s.path = << >> => way = line)
  BY WayToParts
<1>2. Check(s.path) /\ (s.path # << >> => Linked(arena[s.root].node, s.path[1]))
  BY DEF Sound, CheckWith
<1> HIDE DEF line, way, n, p
<1>3. CASE s.path = << >>
  <2>1. NodeAlways(arena, s) = arena[s.root].node
    BY <1>3 DEF NodeAlways
  <2> QED BY <1>1, <1>3, <2>1 DEF HasParents, way
<1>4. CASE s.path # << >>
  <2>1. p \in 1 .. p /\ n \in 1 .. n /\ Len(way) \in Nat /\ Len(way) # 1 /\ way # << >>
    BY <1>1, <1>4, EmptySeq
  <2>2. NodeOf(way) = NodeAlways(arena, s)
    <3>1. NodeOf(way) = way[n + p].node
      BY <1>1 DEF NodeOf, Last
    <3>2. NodeAlways(arena, s) = s.path[p].node
      BY <1>4 DEF NodeAlways, NodeOf, Last, p
    <3> QED BY <1>1, <2>1, <3>1, <3>2
  <2>3. Check(way)
    <3>1. SUFFICES ASSUME NEW i \in 2 .. n + p PROVE Linked(way[i - 1].node, way[i])
      BY <1>1 DEF Check
    <3>2. CASE i <= n
      <4>1. i - 1 \in 1 .. n /\ i \in 1 .. n /\ i \in 2 .. n
        BY <1>1, <3>2
      <4>2. Linked(line[i - 1].node, line[i])
        BY <1>1, <4>1 DEF Way, Check, n
      <4> QED BY <1>1, <4>1, <4>2
    <3>3. CASE i = n + 1
      <4>1. i - 1 = n /\ 1 \in 1 .. p
        BY <1>1, <2>1, <3>3
      <4>2. way[i - 1] = line[n] /\ way[i] = s.path[1]
        BY <1>1, <2>1, <3>3, <4>1
      <4>3. line[n].node = arena[s.root].node
        BY <1>1 DEF NodeOf, Last, n
      <4> QED BY <1>2, <1>4, <4>2, <4>3
    <3>4. CASE i > n + 1
      <4> DEFINE k == i - n
      <4>1. k \in 2 .. p /\ k \in 1 .. p /\ k - 1 \in 1 .. p
            /\ i = n + k /\ i - 1 = n + (k - 1)
        BY <1>1, <3>4
      <4> HIDE DEF k
      <4>2. way[n + k] = s.path[k] /\ way[n + (k - 1)] = s.path[k - 1]
        BY <1>1, <4>1
      <4>3. Linked(s.path[k - 1].node, s.path[k])
        BY <1>2, <4>1 DEF Check, p
      <4> QED BY <4>1, <4>2, <4>3
    <3> QED BY <1>1, <3>2, <3>3, <3>4
  <2>4. way[1] = line[1]
    BY <1>1
  <2> QED BY <1>1, <1>4, <2>1, <2>2, <2>3, <2>4 DEF Way, HasParents, way
<1> QED BY <1>3, <1>4

\* goto adds the step to the child.
LEMMA WayToGoto ==
  ASSUME tree \in DOMAIN Trees, NEW arena, NEW s, Sound(arena, s),
         NEW o \in DOMAIN Children(NodeAlways(arena, s))
  PROVE  WayTo(arena, GotoChild(arena, s, o))
         = Append(WayTo(arena, s),
                  [node |-> Children(NodeAlways(arena, s))[o], offset |-> o])
<1> DEFINE e == [node |-> Children(NodeAlways(arena, s))[o], offset |-> o]
           line == Lineage(arena, s.root)
<1>1. e \in Elements
  BY NodeAlwaysIsNode, ChildrenAreNodes DEF Sound, Elements
<1>2. s \in [root : Nat, path : Seq(Elements)]
  BY DEF Sound, On
<1> HIDE DEF e
<1>3. /\ GotoChild(arena, s, o).root = s.root
      /\ GotoChild(arena, s, o).path = Append(s.path, e)
  BY <1>2 DEF GotoChild, Goto, e
<1>4. line \in Seq(Elements) /\ s.path \in Seq(Elements)
  BY WayToParts
<1> HIDE DEF line
<1>5. line \o Append(s.path, e) = Append(line \o s.path, e)
  <2>1. Append(s.path, e) = s.path \o <<e>> /\ <<e>> \in Seq(Elements)
    BY <1>1, <1>4, AppendIsConcat
  <2>2. line \o s.path \in Seq(Elements)
    BY <1>4, ConcatProperties
  <2>3. Append(line \o s.path, e) = (line \o s.path) \o <<e>>
    BY <1>1, <2>2, AppendIsConcat
  <2>4. (line \o s.path) \o <<e>> = line \o (s.path \o <<e>>)
    <3> DEFINE last == <<e>>
    <3>1. last \in Seq(Elements)
      BY <2>1
    <3> HIDE DEF last
    <3>2. PICK path \in Seq(Elements) : path = s.path
      BY <1>4
    <3>3. line \in Seq(Elements)
      BY <1>4
    <3>4. (line \o path) \o last = line \o (path \o last)
      BY ONLY <3>1, <3>3, path \in Seq(Elements), ConcatAssociative
    <3> QED BY <3>2, <3>4 DEF last
  <2> QED BY <2>1, <2>3, <2>4
<1> QED BY <1>3, <1>5 DEF WayTo, e, line

\* The front of what was appended to.
LEMMA FrontOfAppend ==
  ASSUME NEW S, NEW x \in Seq(S), NEW e \in S
  PROVE  Front(Append(x, e)) = x
<1>1. /\ Append(x, e) = x \o <<e>> /\ <<e>> \in Seq(S)
      /\ Len(Append(x, e)) = Len(x) + 1 /\ Len(x) \in Nat
  BY AppendIsConcat, AppendProperties
<1>2. Front(Append(x, e)) = SubSeq(x \o <<e>>, 1, Len(x))
  BY <1>1 DEF Front
<1>3. CASE Len(x) = 0
  <2>1. x = << >>
    BY <1>3, EmptySeq
  <2>2. SubSeq(x \o <<e>>, 1, 0) = << >>
    BY SubSeqEmpty
  <2> QED BY <1>2, <1>3, <2>1, <2>2
<1>4. CASE Len(x) # 0
  <2>1. 1 \in 1 .. Len(x) /\ Len(x) \in 1 .. Len(x)
    BY <1>1, <1>4
  <2>2. SubSeq(x \o <<e>>, 1, Len(x)) = SubSeq(x, 1, Len(x))
    BY <1>1, <2>1, SubSeqOfConcat1
  <2> QED BY <1>2, <2>2, SubSeqFull
<1> QED BY <1>3, <1>4

\* up takes the last step back.
LEMMA WayToUp ==
  ASSUME tree \in DOMAIN Trees, NEW arena, NEW s, Sound(arena, s), HasParents(s)
  PROVE  WayTo(arena, Up(arena, s)) = Front(WayTo(arena, s))
<1> DEFINE line == Lineage(arena, s.root)
           way == WayTo(arena, s)
           n == Len(line)
           p == Len(s.path)
           t == Up(arena, s)
<1>1. /\ line \in Seq(Elements) /\ n \in Nat \ {0}
      /\ s.path \in Seq(Elements) /\ p \in Nat
      /\ way \in Seq(Elements) /\ Len(way) = n + p
      /\ \A i \in 1 .. n : way[i] = line[i]
      /\ \A i \in 1 .. p : way[n + i] = s.path[i]
      /\ Way(line) /\ NodeOf(line) = arena[s.root].node
      /\ (n = 1 <=> s.root = 1)
      /\ (s.path = << >> <=> p = 0)
      /\ (s.path = << >> => way = line)
  BY WayToParts
<1>2. s \in [root : Nat, path : Seq(Elements)]
  BY DEF Sound, On
<1>3. Way(way) /\ Len(way) # 1
  BY WayToIsWay
<1>4. /\ Way(Front(way)) /\ Len(Front(way)) = n + p - 1
      /\ \A i \in 1 .. n + p - 1 : Front(way)[i] = way[i]
  <2> HIDE DEF way, n, p, line
  <2>1. /\ Way(Front(way)) /\ Len(Front(way)) = Len(way) - 1
        /\ \A i \in 1 .. Len(way) - 1 : Front(way)[i] = way[i]
    BY <1>3, WayGoesBack
  <2> QED BY <1>1, <2>1
<1> HIDE DEF way
<1>5. CASE s.path # << >>
  <2>1. t = [s EXCEPT !.path = Front(s.path)]
    BY <1>5 DEF Up
  <2>2. t.root = s.root /\ t.path = Front(s.path)
    BY <1>2, <2>1
  <2>3. /\ Front(s.path) \in Seq(Elements) /\ Len(Front(s.path)) = p - 1
        /\ \A i \in 1 .. p - 1 : Front(s.path)[i] = s.path[i]
    <3>1. p \in Nat \ {0} /\ \A i \in 1 .. p : s.path[i] \in Elements
      BY <1>1, <1>5, ElementOfSeq
    <3>2. /\ 1 \in Int /\ p - 1 \in Int /\ (p - 1) - 1 + 1 = p - 1
          /\ \A i \in 1 .. p - 1 : s.path[i] \in Elements
      BY <3>1
    <3> HIDE DEF p
    <3>3. /\ SubSeq(s.path, 1, p - 1) \in Seq(Elements)
          /\ Len(SubSeq(s.path, 1, p - 1)) = IF 1 <= p - 1 THEN (p - 1) - 1 + 1 ELSE 0
          /\ \A i \in 1 .. (p - 1) - 1 + 1 : SubSeq(s.path, 1, p - 1)[i] = s.path[1 + i - 1]
      BY <3>2, SubSeqProperties
    <3>4. Front(s.path) = SubSeq(s.path, 1, p - 1)
      BY DEF Front, p
    <3> QED BY <3>1, <3>2, <3>3, <3>4
  <2> DEFINE front == Front(s.path)
             whole == line \o front
  <2> HIDE DEF front, line, t, n, p
  <2>4. front \in Seq(Elements) /\ Len(front) = p - 1 /\ p \in Nat \ {0}
        /\ \A i \in 1 .. p - 1 : front[i] = s.path[i]
    BY <1>1, <1>5, <2>3 DEF front
  <2>5. /\ whole \in Seq(Elements) /\ Len(whole) = n + (p - 1)
        /\ \A i \in 1 .. n + (p - 1) :
             whole[i] = IF i <= n THEN line[i] ELSE front[i - n]
    <3>1. n = Len(line)
      BY DEF n
    <3>2. /\ whole \in Seq(Elements) /\ Len(whole) = Len(line) + Len(front)
          /\ \A i \in 1 .. Len(line) + Len(front) :
               whole[i] = IF i <= Len(line) THEN line[i] ELSE front[i - Len(line)]
      BY <1>1, <2>4, ConcatProperties
    <3> QED BY <2>4, <3>1, <3>2
  <2> HIDE DEF whole
  <2>6. ASSUME NEW i \in 1 .. n + (p - 1) PROVE whole[i] = Front(way)[i]
    <3>1. CASE i <= n
      BY <1>1, <1>4, <2>4, <2>5, <3>1
    <3>2. CASE i > n
      <4>1. i - n \in 1 .. p - 1 /\ i - n \in 1 .. p /\ n + (i - n) = i
        BY <1>1, <2>4, <3>2
      <4>2. way[i] = s.path[i - n]
        BY <1>1, <4>1
      <4>3. front[i - n] = s.path[i - n]
        BY <2>4, <4>1
      <4>4. whole[i] = front[i - n]
        BY <1>1, <2>5, <3>2
      <4> QED BY <1>1, <1>4, <2>4, <4>2, <4>3, <4>4
    <3> QED BY <1>1, <3>1, <3>2
  <2>7. Front(way) \in Seq(Elements) /\ Len(Front(way)) = n + (p - 1)
    BY <1>1, <1>4 DEF Way
  <2>8. whole = Front(way)
    BY <2>5, <2>6, <2>7, SeqEqual
  <2> QED BY <2>2, <2>8 DEF WayTo, whole, way, line, front, t
<1>6. CASE s.path = << >>
  <2>1. s.root \in 2 .. Len(arena) /\ arena[s.root].parent \in 1 .. s.root - 1
    <3>1. s.root # 1 /\ s.root \in 1 .. Len(arena)
      BY <1>6 DEF HasParents, Sound, On, Rooted
    <3>2. s.root \in 2 .. Len(arena)
      BY <3>1
    <3> QED BY <3>2 DEF Sound, Rooted
  <2>2. PICK up \in 1 .. s.root - 1 : up = arena[s.root].parent
    BY <2>1
  <2>3. t.root = up /\ t.path = << >>
    BY <1>2, <1>6, <2>2 DEF Up
  <2>4. up \in DOMAIN arena
    BY <2>1 DEF Sound, Rooted
  <2>5. Way(Lineage(arena, up))
    BY <2>4, LineageIsWay DEF Sound
  <2>6. WayTo(arena, t) = Lineage(arena, up)
    BY <2>3, <2>5, ConcatEmptySeq DEF WayTo, Way
  <2>7. line = Append(Lineage(arena, up), ElementOf(arena[s.root]))
    BY <2>1, <2>2, LineageOf DEF Sound
  <2>8. ElementOf(arena[s.root]) \in Elements
    <3>1. arena[s.root] \in Entries
      BY <2>1 DEF Sound, Rooted
    <3> QED BY <3>1 DEF Entries, Elements, ElementOf
  <2> DEFINE x == Lineage(arena, up)
             e == ElementOf(arena[s.root])
  <2> HIDE DEF x, e, line
  <2>9. x \in Seq(Elements) /\ e \in Elements /\ line = Append(x, e) /\ way = line
    BY <1>1, <1>6, <2>5, <2>7, <2>8 DEF Way, x, e
  <2>10. Front(Append(x, e)) = x
    BY <2>9, FrontOfAppend
  <2> QED BY <2>6, <2>9, <2>10 DEF x, t, way
<1> QED BY <1>5, <1>6

\* The beginnings of a sequence, one by one.
LEMMA Beginning ==
  ASSUME NEW S, NEW w \in Seq(S), NEW m \in 0 .. Len(w)
  PROVE  /\ SubSeq(w, 1, m) \in Seq(S) /\ Len(SubSeq(w, 1, m)) = m
         /\ \A i \in 1 .. m : SubSeq(w, 1, m)[i] = w[i]
<1>1. Len(w) \in Nat
  BY LenProperties
<1>2. \A i \in 1 .. Len(w) : w[i] \in S
  BY ElementOfSeq
<1>3. /\ \A i \in 1 .. m : w[i] \in S
      /\ 1 \in Int /\ m \in Int /\ m - 1 + 1 = m
  BY <1>1, <1>2
<1>4. /\ SubSeq(w, 1, m) \in Seq(S)
      /\ Len(SubSeq(w, 1, m)) = IF 1 <= m THEN m - 1 + 1 ELSE 0
      /\ \A i \in 1 .. m - 1 + 1 : SubSeq(w, 1, m)[i] = w[1 + i - 1]
  BY <1>3, SubSeqProperties
<1> QED BY <1>1, <1>3, <1>4

\* Each has one element more than the one before.
LEMMA NextBeginning ==
  ASSUME NEW S, NEW w \in Seq(S), NEW m \in Nat, m + 1 <= Len(w)
  PROVE  SubSeq(w, 1, m + 1) = Append(SubSeq(w, 1, m), w[m + 1])
<1> DEFINE a == SubSeq(w, 1, m)
           b == SubSeq(w, 1, m + 1)
<1>1. Len(w) \in Nat /\ m + 1 \in 1 .. Len(w)
  BY LenProperties
<1>2. w[m + 1] \in S
  BY <1>1, ElementOfSeq
<1>3. a \in Seq(S) /\ Len(a) = m /\ \A i \in 1 .. m : a[i] = w[i]
  BY <1>1, Beginning
<1>4. b \in Seq(S) /\ Len(b) = m + 1 /\ \A i \in 1 .. m + 1 : b[i] = w[i]
  BY <1>1, Beginning
<1> HIDE DEF a, b
<1>5. PICK e \in S : e = w[m + 1]
  BY <1>2
<1>6. /\ Append(a, e) \in Seq(S) /\ Len(Append(a, e)) = m + 1
      /\ \A i \in 1 .. m : Append(a, e)[i] = a[i]
      /\ Append(a, e)[m + 1] = e
  BY <1>3, AppendProperties
<1>7. ASSUME NEW i \in 1 .. m + 1 PROVE b[i] = Append(a, e)[i]
  <2>1. CASE i = m + 1
    BY <1>4, <1>5, <1>6, <2>1
  <2>2. CASE i # m + 1
    <3>1. i \in 1 .. m
      BY <2>2
    <3> QED BY <1>3, <1>4, <1>6, <3>1
  <2> QED BY <2>1, <2>2
<1>8. b = Append(a, e)
  BY <1>4, <1>6, <1>7, SeqEqual
<1> QED BY <1>5, <1>8 DEF a, b

\* push leaves the scout, and all that was pushed before, where they were.
LEMMA WayToPushed ==
  ASSUME tree \in DOMAIN Trees, NEW arena, NEW s, Sound(arena, s)
  PROVE  /\ Extends(Pushed(arena, s), arena)
         /\ WayTo(Pushed(arena, s), Landed(arena, s)) = WayTo(arena, s)
         /\ Landed(arena, s).path = << >>
<1> DEFINE n == Len(arena)
           p == Len(s.path)
           pushed == Pushed(arena, s)
           t == Landed(arena, s)
           line == Lineage(arena, s.root)
           way == WayTo(arena, s)
           L == Len(line)
<1>1. /\ line \in Seq(Elements) /\ L \in Nat \ {0}
      /\ s.path \in Seq(Elements) /\ p \in Nat
      /\ way \in Seq(Elements) /\ Len(way) = L + p
      /\ \A i \in 1 .. L : way[i] = line[i]
      /\ \A i \in 1 .. p : way[L + i] = s.path[i]
      /\ Way(line) /\ NodeOf(line) = arena[s.root].node
      /\ (L = 1 <=> s.root = 1)
      /\ (s.path = << >> <=> p = 0)
      /\ (s.path = << >> => way = line)
  BY WayToParts
<1>2. /\ pushed \in Seq(Entries) /\ Len(pushed) = n + p
      /\ n \in Nat \ {0} /\ p \in Nat
      /\ \A h \in 1 .. n : pushed[h] = arena[h]
      /\ \A k \in 1 .. p :
           /\ pushed[n + k].node = s.path[k].node
           /\ pushed[n + k].offset = s.path[k].offset
           /\ pushed[n + k].parent = IF k = 1 THEN s.root ELSE n + k - 1
  BY PushedEntries
<1>3. /\ Rooted(arena) /\ StoreCheck(arena) /\ s.root \in DOMAIN arena
      /\ s.root \in 1 .. n
  BY DEF Sound, On, Rooted
<1>4. Rooted(pushed) /\ StoreCheck(pushed)
  BY PushKeepsSound DEF Sound
<1>5. Extends(pushed, arena)
  BY <1>2 DEF Extends
<1>6. Lineage(pushed, s.root) = line
  BY <1>3, <1>4, <1>5, LineageStays
<1>7. t.path = << >> /\ (s.path # << >> => t.root = n + p) /\ (s.path = << >> => t = s)
  BY <1>2 DEF Landed
<1> HIDE DEF t, way, line, L, pushed, n, p
<1>8. CASE s.path = << >>
  <2>1. t = s /\ WayTo(pushed, s) = Lineage(pushed, s.root) \o << >>
    BY <1>7, <1>8 DEF WayTo
  <2>2. WayTo(pushed, s) = line
    BY <1>1, <1>6, <2>1, ConcatEmptySeq
  <2> QED BY <1>1, <1>5, <1>7, <1>8, <2>1, <2>2 DEF t, way, pushed
<1>9. CASE s.path # << >>
  <2> DEFINE T == {k \in Nat : k + 1 <= p => Lineage(pushed, n + (k + 1)) = SubSeq(way, 1, L + (k + 1))}
  <2>1. SubSeq(way, 1, L) = line
    <3>1. /\ SubSeq(way, 1, L) \in Seq(Elements) /\ Len(SubSeq(way, 1, L)) = L
          /\ \A i \in 1 .. L : SubSeq(way, 1, L)[i] = way[i]
      BY <1>1, Beginning
    <3>2. /\ \A i \in 1 .. L : SubSeq(way, 1, L)[i] = line[i]
          /\ Len(line) = L
      BY <1>1, <3>1 DEF L
    <3> QED BY <1>1, <3>1, <3>2, SeqEqual
  <2>2. ASSUME NEW k \in Nat, k + 1 <= p, NEW up,
               up = IF k = 0 THEN s.root ELSE n + k,
               Lineage(pushed, up) = SubSeq(way, 1, L + k)
        PROVE  Lineage(pushed, n + (k + 1)) = SubSeq(way, 1, L + (k + 1))
    <3>1. /\ k + 1 \in 1 .. p /\ n + (k + 1) \in 2 .. Len(pushed)
          /\ L + k \in Nat /\ (L + k) + 1 <= Len(way) /\ (L + k) + 1 = L + (k + 1)
          /\ n + (k + 1) - 1 = n + k /\ (k + 1 = 1 <=> k = 0)
      BY <1>1, <1>2, <2>2
    <3>2. /\ pushed[n + (k + 1)].node = s.path[k + 1].node
          /\ pushed[n + (k + 1)].offset = s.path[k + 1].offset
          /\ pushed[n + (k + 1)].parent = up
      BY <1>2, <2>2, <3>1
    <3>3. s.path[k + 1] \in Elements
      BY <1>1, <3>1, ElementOfSeq DEF p
    <3>4. ElementOf(pushed[n + (k + 1)]) = s.path[k + 1]
      BY <3>2, <3>3 DEF ElementOf, Elements
    <3>5. Lineage(pushed, n + (k + 1)) = Append(SubSeq(way, 1, L + k), s.path[k + 1])
      BY <1>4, <2>2, <3>1, <3>2, <3>4, LineageOf
    <3>6. way[(L + k) + 1] = s.path[k + 1]
      <4>1. PICK j \in 1 .. p : j = k + 1
        BY <3>1
      <4>2. way[L + j] = s.path[j]
        BY <1>1
      <4>3. (L + k) + 1 = L + j
        BY <3>1, <4>1
      <4> QED BY ONLY <4>1, <4>2, <4>3
    <3>7. SubSeq(way, 1, (L + k) + 1) = Append(SubSeq(way, 1, L + k), way[(L + k) + 1])
      BY <1>1, <3>1, NextBeginning
    <3> QED BY <3>1, <3>5, <3>6, <3>7
  <2>3. 0 \in T
    <3>1. L + 0 = L
      BY <1>1
    <3>2. Lineage(pushed, s.root) = SubSeq(way, 1, L + 0)
      BY <1>6, <2>1, <3>1
    <3>3. 0 + 1 <= p => Lineage(pushed, n + (0 + 1)) = SubSeq(way, 1, L + (0 + 1))
      BY <2>2, <3>2
    <3> QED BY <3>3
  <2>4. ASSUME NEW k \in Nat, k \in T PROVE k + 1 \in T
    <3>1. SUFFICES ASSUME (k + 1) + 1 <= p
                   PROVE  Lineage(pushed, n + ((k + 1) + 1)) = SubSeq(way, 1, L + ((k + 1) + 1))
      OBVIOUS
    <3>2. k + 1 \in Nat /\ k + 1 # 0 /\ k + 1 <= p
      BY <1>1, <3>1
    <3>3. Lineage(pushed, n + (k + 1)) = SubSeq(way, 1, L + (k + 1))
      BY <2>4, <3>2
    <3> QED BY <2>2, <3>1, <3>2, <3>3
  <2>5. Nat \subseteq T
    <3> HIDE DEF T
    <3> QED BY <2>3, <2>4, Induction
  <2>6. Lineage(pushed, n + p) = way
    <3>1. p - 1 \in Nat /\ (p - 1) + 1 = p
      BY <1>1, <1>9
    <3>2. Lineage(pushed, n + p) = SubSeq(way, 1, L + p)
      BY <2>5, <3>1
    <3> QED BY <1>1, <3>2, SubSeqFull
  <2>7. WayTo(pushed, t) = way \o << >>
    BY <1>7, <1>9, <2>6 DEF WayTo
  <2>8. WayTo(pushed, t) = way
    BY <1>1, <2>7, ConcatEmptySeq
  <2> QED BY <1>5, <1>7, <2>8 DEF t, way, pushed
<1> QED BY <1>8, <1>9

\* A sound scout stays where it is when the store grows.
LEMMA SoundStays ==
  ASSUME tree \in DOMAIN Trees, NEW arena, NEW s, Sound(arena, s),
         NEW st, Rooted(st), StoreCheck(st), Extends(st, arena)
  PROVE  /\ Sound(st, s)
         /\ WayTo(st, s) = WayTo(arena, s)
         /\ NodeAlways(st, s) = NodeAlways(arena, s)
<1>1. /\ Rooted(arena) /\ s.root \in 1 .. Len(arena) /\ s.root \in DOMAIN arena
      /\ Len(arena) \in Nat /\ Len(st) \in Nat /\ DOMAIN st = 1 .. Len(st)
      /\ Len(arena) <= Len(st)
  BY DEF Sound, On, Rooted, Extends
<1>2. st[s.root] = arena[s.root]
  BY <1>1 DEF Extends
<1>3. On(st, s)
  BY <1>1 DEF Sound, On
<1>4. CheckWith(st, s)
  <2>1. \A h \in 2 .. s.root : h \in 2 .. Len(st)
    BY <1>1
  <2> QED BY <1>2, <2>1 DEF Sound, CheckWith, StoreCheck
<1>5. WayTo(st, s) = WayTo(arena, s)
  BY <1>1, LineageStays DEF WayTo
<1>6. NodeAlways(st, s) = NodeAlways(arena, s)
  BY <1>2 DEF NodeAlways
<1> QED BY <1>3, <1>4, <1>5, <1>6 DEF Sound
-----------------------------------------------------------------------------
(* Trails: what is left of a way without its nodes. *)

\* A trail is the offsets of its way, without the one of the root.
LEMMA TrailFacts ==
  ASSUME NEW path, Way(path)
  PROVE  /\ TrailOf(path) \in Seq(Nat) /\ Len(TrailOf(path)) = Len(path) - 1
         /\ \A i \in 1 .. Len(path) - 1 : TrailOf(path)[i] = path[i + 1].offset
<1> DEFINE offsets == Offsets(path)
<1>1. path \in Seq(Elements) /\ path # << >>
  BY DEF Way
<1>2. /\ Len(path) \in Nat \ {0} /\ DOMAIN path = 1 .. Len(path)
      /\ \A i \in 1 .. Len(path) : path[i] \in Elements
  BY <1>1, EmptySeq, LenProperties, ElementOfSeq
<1>3. \A i \in 1 .. Len(path) : path[i].offset \in Nat
  BY <1>2 DEF Elements
<1>4. offsets = [i \in 1 .. Len(path) |-> path[i].offset]
  BY <1>2 DEF Offsets
<1>5. offsets \in Seq(Nat) /\ Len(offsets) = Len(path) /\ offsets # << >>
  <2>1. offsets \in Seq(Nat)
    BY <1>2, <1>3, <1>4, IsASeq
  <2>2. DOMAIN offsets = 1 .. Len(path)
    BY <1>4
  <2>3. Len(offsets) = Len(path)
    BY <1>2, <2>1, <2>2, LenProperties
  <2> QED BY <1>2, <2>1, <2>3, EmptySeq
<1>6. \A i \in 1 .. Len(path) : offsets[i] = path[i].offset
  BY <1>4
<1> HIDE DEF offsets
<1>7. /\ Tail(offsets) \in Seq(Nat) /\ Len(Tail(offsets)) = Len(offsets) - 1
      /\ \A i \in 1 .. Len(Tail(offsets)) : Tail(offsets)[i] = offsets[i + 1]
  BY <1>5, HeadTailProperties
<1>8. ASSUME NEW i \in 1 .. Len(path) - 1
      PROVE  Tail(offsets)[i] = path[i + 1].offset
  <2>1. i \in 1 .. Len(Tail(offsets)) /\ i + 1 \in 1 .. Len(path)
    BY <1>2, <1>5, <1>7
  <2> QED BY <1>6, <1>7, <2>1
<1> QED BY <1>5, <1>7, <1>8 DEF TrailOf, offsets

\* A goto appends its offset, an up takes the last one off.
LEMMA TrailGoesOn ==
  ASSUME NEW path, Way(path), NEW e \in Elements, Linked(NodeOf(path), e)
  PROVE  TrailOf(Append(path, e)) = Append(TrailOf(path), e.offset)
<1> DEFINE on == Append(path, e)
           trail == TrailOf(path)
           n == Len(path)
<1>1. Way(on) /\ Len(on) = n + 1
  BY WayGoesOn
<1>2. /\ path \in Seq(Elements) /\ n \in Nat \ {0}
      /\ \A i \in 1 .. n : on[i] = path[i]
      /\ on[n + 1] = e
  <2>1. path \in Seq(Elements) /\ n \in Nat \ {0}
    BY EmptySeq DEF Way
  <2> QED BY <2>1, AppendProperties
<1> HIDE DEF on
<1>3. /\ TrailOf(on) \in Seq(Nat) /\ Len(TrailOf(on)) = n
      /\ \A i \in 1 .. n : TrailOf(on)[i] = on[i + 1].offset
  <2> HIDE DEF n
  <2>1. /\ TrailOf(on) \in Seq(Nat) /\ Len(TrailOf(on)) = Len(on) - 1
        /\ \A i \in 1 .. Len(on) - 1 : TrailOf(on)[i] = on[i + 1].offset
    BY <1>1, TrailFacts
  <2>2. Len(on) - 1 = n
    BY <1>1, <1>2
  <2> QED BY <2>1, <2>2
<1>4. /\ trail \in Seq(Nat) /\ Len(trail) = n - 1
      /\ \A i \in 1 .. n - 1 : trail[i] = path[i + 1].offset
  BY TrailFacts
<1>5. PICK o \in Nat : o = e.offset
  BY DEF Elements
<1> HIDE DEF trail, n
<1>6. /\ Append(trail, o) \in Seq(Nat) /\ Len(Append(trail, o)) = n
      /\ \A i \in 1 .. n - 1 : Append(trail, o)[i] = trail[i]
      /\ Append(trail, o)[n] = o
  <2>1. (n - 1) + 1 = n
    BY <1>2
  <2> QED BY <1>2, <1>4, <2>1, AppendProperties
<1>7. ASSUME NEW i \in 1 .. n PROVE TrailOf(on)[i] = Append(trail, o)[i]
  <2>1. CASE i = n
    BY <1>2, <1>3, <1>5, <1>6, <2>1
  <2>2. CASE i # n
    <3>1. i \in 1 .. n - 1 /\ i + 1 \in 1 .. n
      BY <1>2, <2>2
    <3> QED BY <1>2, <1>3, <1>4, <1>6, <3>1
  <2> QED BY <2>1, <2>2
<1>8. TrailOf(on) = Append(trail, o)
  BY <1>3, <1>6, <1>7, SeqEqual
<1> QED BY <1>5, <1>8 DEF on, trail

\* It is empty at the root, and loses its last offset with the way.
LEMMA TrailGoesBack ==
  ASSUME NEW path, Way(path)
  PROVE  /\ Len(path) = 1 <=> TrailOf(path) = << >>
         /\ Len(path) # 1 =>
              /\ TrailOf(Front(path)) = Front(TrailOf(path))
              /\ TrailOf(path) = Append(TrailOf(Front(path)), path[Len(path)].offset)
<1>1. TrailOf(path) \in Seq(Nat) /\ Len(TrailOf(path)) = Len(path) - 1
  BY TrailFacts
<1>2. Len(path) \in Nat \ {0} /\ path \in Seq(Elements)
  BY EmptySeq DEF Way
<1>3. Len(path) = 1 <=> TrailOf(path) = << >>
  <2>1. Len(TrailOf(path)) = 0 <=> TrailOf(path) = << >>
    BY <1>1, EmptySeq
  <2> QED BY <1>1, <1>2, <2>1
<1>4. ASSUME Len(path) # 1
      PROVE  /\ TrailOf(Front(path)) = Front(TrailOf(path))
             /\ TrailOf(path) = Append(TrailOf(Front(path)), path[Len(path)].offset)
  <2> DEFINE front == Front(path)
             e == path[Len(path)]
  <2>1. Way(front) /\ Linked(NodeOf(front), e) /\ path = Append(front, e)
    BY <1>4, WayGoesBack
  <2>2. e \in Elements /\ e.offset \in Nat
    <3>1. e \in Elements
      BY <1>2, ElementOfSeq
    <3> QED BY <3>1 DEF Elements
  <2> HIDE DEF front, e
  <2>3. TrailOf(path) = Append(TrailOf(front), e.offset)
    BY <2>1, <2>2, TrailGoesOn
  <2>4. TrailOf(front) \in Seq(Nat)
    BY <2>1, TrailFacts
  <2>5. PICK t \in Seq(Nat) : t = TrailOf(front)
    BY <2>4
  <2>6. PICK o \in Nat : o = e.offset
    BY <2>2
  <2>7. Front(Append(t, o)) = t
    BY ONLY t \in Seq(Nat), o \in Nat, FrontOfAppend
  <2> QED BY <2>3, <2>5, <2>6, <2>7 DEF front, e
<1> QED BY <1>3, <1>4
-----------------------------------------------------------------------------
(* The trails of a tree, by the recursion that gives them.                 *)

Beneath(n, below) ==
  {<< >>} \cup UNION {{<<o>> \o trail : trail \in below[Children(n)[o]]} :
                        o \in DOMAIN Children(n)}
Belows(below, n) == below = [m \in 1 .. n |-> Beneath(m, below)]

AlikeFor(n, a, b) == \A o \in DOMAIN Children(n) : a[Children(n)[o]] = b[Children(n)[o]]

\* It only looks at what is below the children.
LEMMA BeneathAlike ==
  ASSUME NEW n, NEW a, NEW b, AlikeFor(n, a, b)
  PROVE  Beneath(n, a) = Beneath(n, b)
<1>1. \A o \in DOMAIN Children(n) :
        {<<o>> \o trail : trail \in a[Children(n)[o]]}
        = {<<o>> \o trail : trail \in b[Children(n)[o]]}
  BY DEF AlikeFor
<1> DEFINE A(o) == {<<o>> \o trail : trail \in a[Children(n)[o]]}
           B(o) == {<<o>> \o trail : trail \in b[Children(n)[o]]}
<1>2. \A o \in DOMAIN Children(n) : A(o) = B(o)
  BY <1>1
<1> HIDE DEF A, B
<1>3. {A(o) : o \in DOMAIN Children(n)} = {B(o) : o \in DOMAIN Children(n)}
  BY <1>2
<1> QED BY <1>3 DEF Beneath, A, B

\* A function does what the recursion says, for every node.
LEMMA BelowsExist ==
  ASSUME tree \in DOMAIN Trees
  PROVE  \E below : Belows(below, Root)
<1> DEFINE T == {n \in Nat : n <= Root => \E below : Belows(below, n)}
<1>1. Root \in Nat \ {0} /\ Nodes = 1 .. Root
  BY ChildrenFirst DEF Root, Nodes
<1>2. 0 \in T
  <2>1. Belows([m \in 1 .. 0 |-> 0], 0)
    BY DEF Belows
  <2> QED BY <2>1
<1>3. ASSUME NEW n \in Nat, n \in T PROVE n + 1 \in T
  <2>1. SUFFICES ASSUME n + 1 <= Root
                 PROVE  \E below : Belows(below, n + 1)
    OBVIOUS
  <2>2. PICK below : Belows(below, n)
    BY <1>1, <1>3, <2>1
  <2> DEFINE next == [m \in 1 .. n + 1 |->
                        IF m <= n THEN below[m] ELSE Beneath(m, below)]
  <2>3. ASSUME NEW m \in 1 .. n + 1 PROVE next[m] = Beneath(m, next)
    <3>1. m \in Nodes
      BY <1>1, <2>1
    <3>2. \A o \in DOMAIN Children(m) : Children(m)[o] \in Nodes /\ Children(m)[o] < m
      BY <3>1, ChildrenAreNodes
    <3>3. \A o \in DOMAIN Children(m) : Children(m)[o] \in 1 .. n
      BY <1>1, <2>1, <3>2
    <3>4. AlikeFor(m, next, below)
      BY <3>3 DEF AlikeFor
    <3>5. Beneath(m, next) = Beneath(m, below)
      BY <3>4, BeneathAlike
    <3>6. CASE m <= n
      <4>1. m \in 1 .. n
        BY <3>6
      <4>2. below[m] = Beneath(m, below)
        BY <2>2, <4>1, Zenon DEF Belows
      <4> QED BY <3>5, <3>6, <4>2
    <3>7. CASE ~(m <= n)
      BY <3>5, <3>7
    <3> QED BY <3>6, <3>7
  <2>4. next = [m \in 1 .. n + 1 |-> next[m]]
    OBVIOUS
  <2> HIDE DEF next
  <2>5. Belows(next, n + 1)
    BY <2>3, <2>4 DEF Belows
  <2> QED BY <2>5
<1>4. Nat \subseteq T
  <2> HIDE DEF T
  <2> QED BY <1>2, <1>3, Induction
<1> QED BY <1>1, <1>4

\* the trails from a node to the nodes below it
TrailsBelow == CHOOSE below : Belows(below, Root)

\* They are what the recursion says.
LEMMA TrailsAreThose ==
  ASSUME tree \in DOMAIN Trees
  PROVE  /\ Trails = TrailsBelow[Root]
         /\ \A n \in Nodes : TrailsBelow[n] = Beneath(n, TrailsBelow)
<1>1. Belows(TrailsBelow, Root)
  BY BelowsExist DEF TrailsBelow
<1>2. Nodes = 1 .. Root
  BY ChildrenFirst DEF Root, Nodes
<1>3. \A n \in Nodes : TrailsBelow[n] = Beneath(n, TrailsBelow)
  <2>1. TrailsBelow = [m \in 1 .. Root |-> Beneath(m, TrailsBelow)]
    BY <1>1 DEF Belows
  <2> HIDE DEF TrailsBelow
  <2> QED BY <1>2, <2>1, Zenon
<1>4. DOMAIN NodesAt(Trees[tree]) = TrailsBelow[Root]
  BY <1>2 DEF NodesAt, TrailsBelow, Belows, Beneath, Children, Nodes, Root
<1>5. Trails = DOMAIN NodesAt(Trees[tree])
  BY DEF Trails, Places, WithLeaves, Described
<1> QED BY <1>3, <1>4, <1>5

\* Their steps are numbers.
LEMMA TrailsBelowAreTrails ==
  ASSUME tree \in DOMAIN Trees, NEW n \in Nodes
  PROVE  TrailsBelow[n] \subseteq Seq(Nat)
<1> DEFINE T == {k \in Nat : k \in Nodes => TrailsBelow[k] \subseteq Seq(Nat)}
<1>1. ASSUME NEW k \in Nat, \A m \in Nat : m < k => m \in T
      PROVE  k \in T
  <2>1. SUFFICES ASSUME k \in Nodes, NEW t \in TrailsBelow[k] PROVE t \in Seq(Nat)
    OBVIOUS
  <2>2. t \in Beneath(k, TrailsBelow)
    BY <2>1, TrailsAreThose
  <2>3. CASE t = << >>
    BY <2>3, EmptySeq
  <2>4. CASE t # << >>
    <3>0. PICK o \in DOMAIN Children(k) :
            t \in {<<o>> \o trail : trail \in TrailsBelow[Children(k)[o]]}
      BY <2>2, <2>4 DEF Beneath
    <3>1. PICK tail \in TrailsBelow[Children(k)[o]] : t = <<o>> \o tail
      BY <3>0
    <3>2. o \in Nat /\ Children(k)[o] \in Nodes /\ Children(k)[o] \in Nat /\ Children(k)[o] < k
      BY <2>1, ChildrenAreNodes
    <3>3. tail \in Seq(Nat)
      BY <1>1, <3>2
    <3>4. <<o>> \in Seq(Nat)
      BY <3>2
    <3> QED BY <3>1, <3>3, <3>4, ConcatProperties
  <2> QED BY <2>3, <2>4
<1>2. Nat \subseteq T
  <2> HIDE DEF T
  <2> QED BY <1>1, StrongInduction
<1> QED BY <1>2, ChildrenAreNodes

\* there goes on below node n, that is at trail
Leads(n, trail, there) == \E tail \in TrailsBelow[n] : there = trail \o tail

\* It goes on below one of the children, the one it names next,
LEMMA LeadsOn ==
  ASSUME tree \in DOMAIN Trees, NEW n \in Nodes, NEW trail \in Seq(Nat), NEW there,
         Leads(n, trail, there), Len(trail) < Len(there)
  PROVE  /\ there[Len(trail) + 1] \in DOMAIN Children(n)
         /\ Leads(Children(n)[there[Len(trail) + 1]],
                  Append(trail, there[Len(trail) + 1]), there)
<1>1. PICK tail \in TrailsBelow[n] : there = trail \o tail
  BY DEF Leads
<1>2. tail \in Seq(Nat) /\ Len(trail) \in Nat
  BY TrailsBelowAreTrails, LenProperties
<1>3. /\ Len(there) = Len(trail) + Len(tail) /\ Len(tail) \in Nat
      /\ \A i \in 1 .. Len(trail) + Len(tail) :
           there[i] = IF i <= Len(trail) THEN trail[i] ELSE tail[i - Len(trail)]
  BY <1>1, <1>2, ConcatProperties, LenProperties
<1>4. tail # << >> /\ 1 \in 1 .. Len(tail)
  BY <1>2, <1>3, EmptySeq
<1>5. tail \in Beneath(n, TrailsBelow)
  BY TrailsAreThose
<1>6. PICK o \in DOMAIN Children(n) :
        tail \in {<<o>> \o t : t \in TrailsBelow[Children(n)[o]]}
  BY <1>4, <1>5 DEF Beneath
<1>7. PICK rest \in TrailsBelow[Children(n)[o]] : tail = <<o>> \o rest
  BY <1>6
<1>8. o \in Nat /\ Children(n)[o] \in Nodes
  BY ChildrenAreNodes
<1>9. rest \in Seq(Nat) /\ <<o>> \in Seq(Nat) /\ Len(<<o>>) = 1 /\ <<o>>[1] = o
  BY <1>8, TrailsBelowAreTrails
<1>10. tail[1] = o
  BY <1>4, <1>7, <1>9, ConcatProperties
<1>11. there[Len(trail) + 1] = o
  <2>1. /\ Len(trail) + 1 \in 1 .. Len(trail) + Len(tail)
        /\ ~(Len(trail) + 1 <= Len(trail)) /\ (Len(trail) + 1) - Len(trail) = 1
    BY <1>2, <1>3, <1>4
  <2> QED BY <1>3, <1>10, <2>1
<1>12. there = Append(trail, o) \o rest
  <2> DEFINE step == <<o>>
  <2>1. step \in Seq(Nat)
    BY <1>9
  <2> HIDE DEF step
  <2>2. (trail \o step) \o rest = trail \o (step \o rest)
    <3> DEFINE S == Nat
    <3>1. trail \in Seq(S) /\ step \in Seq(S) /\ rest \in Seq(S)
      BY <1>9, <2>1
    <3> HIDE DEF S
    <3> QED BY ONLY <3>1, ConcatAssociative
  <2>3. Append(trail, o) = trail \o step
    BY <1>8, AppendIsConcat DEF step
  <2> QED BY <1>1, <1>7, <2>2, <2>3 DEF step
<1> QED BY <1>11, <1>12 DEF Leads

\* or ends there.
LEMMA LeadsTo ==
  ASSUME tree \in DOMAIN Trees, NEW n \in Nodes, NEW trail \in Seq(Nat), NEW there,
         Leads(n, trail, there), Len(trail) = Len(there)
  PROVE  trail = there
<1>1. PICK tail \in TrailsBelow[n] : there = trail \o tail
  BY DEF Leads
<1>2. tail \in Seq(Nat) /\ Len(trail) \in Nat
  BY TrailsBelowAreTrails, LenProperties
<1>3. Len(there) = Len(trail) + Len(tail) /\ Len(tail) \in Nat
  BY <1>1, <1>2, ConcatProperties, LenProperties
<1>4. tail = << >>
  BY <1>2, <1>3, EmptySeq
<1> QED BY <1>1, <1>4, ConcatEmptySeq

\* A way whose trail begins a trail of the tree is on the way there.
LEMMA WayLeads ==
  ASSUME tree \in DOMAIN Trees, NEW there \in Trails,
         NEW path, Way(path), IsPrefix(TrailOf(path), there)
  PROVE  Leads(NodeOf(path), TrailOf(path), there)
<1> DEFINE Fits(w) == /\ Len(TrailOf(w)) <= Len(there)
                      /\ \A i \in 1 .. Len(TrailOf(w)) : TrailOf(w)[i] = there[i]
           Goes(w) == Way(w) /\ Fits(w) => Leads(NodeOf(w), TrailOf(w), there)
           T == {k \in Nat : \A w : Len(w) = k + 1 => Goes(w)}
<1>1. /\ there \in Seq(Nat) /\ there \in TrailsBelow[Root] /\ Root \in Nodes
      /\ Len(there) \in Nat
  BY TrailsAreThose, TrailsBelowAreTrails, ChildrenAreNodes, LenProperties
<1>2. 0 \in T
  <2>1. SUFFICES ASSUME NEW w, Len(w) = 1, Way(w)
                 PROVE  Leads(NodeOf(w), TrailOf(w), there)
    OBVIOUS
  <2>2. TrailOf(w) = << >> /\ NodeOf(w) = Root
    BY <2>1, TrailGoesBack DEF Way, NodeOf, Last
  <2>3. there = << >> \o there
    BY <1>1, ConcatEmptySeq
  <2> QED BY <1>1, <2>2, <2>3 DEF Leads
<1>3. ASSUME NEW k \in Nat, k \in T PROVE k + 1 \in T
  <2>1. SUFFICES ASSUME NEW w, Len(w) = (k + 1) + 1, Way(w), Fits(w)
                 PROVE  Leads(NodeOf(w), TrailOf(w), there)
    OBVIOUS
  <2> DEFINE front == Front(w)
             e == w[Len(w)]
  <2>2. /\ Len(w) # 1 /\ Way(front) /\ Len(front) = Len(w) - 1
        /\ Linked(NodeOf(front), e) /\ w = Append(front, e)
        /\ NodeOf(w) = e.node
    <3>1. Len(w) # 1
      BY <2>1
    <3> QED BY <2>1, <3>1, WayGoesBack DEF NodeOf, Last
  <2>3. TrailOf(w) = Append(TrailOf(front), e.offset)
    BY <2>1, <2>2, TrailGoesBack
  <2>4. /\ TrailOf(front) \in Seq(Nat) /\ Len(TrailOf(front)) = k
        /\ TrailOf(w) \in Seq(Nat) /\ Len(TrailOf(w)) = k + 1
    <3>1. Len(front) - 1 = k /\ Len(w) - 1 = k + 1
      BY <2>1, <2>2
    <3> HIDE DEF front
    <3> QED BY <2>1, <2>2, <3>1, TrailFacts
  <2>5. PICK x \in Seq(Nat) : x = TrailOf(front)
    BY <2>4
  <2>6. e \in Elements /\ e.offset \in Nat /\ e.node = Children(NodeOf(front))[e.offset]
    <3>1. w \in Seq(Elements) /\ w # << >>
      BY <2>1 DEF Way
    <3>2. Len(w) \in 1 .. Len(w)
      BY <3>1, EmptySeq
    <3>3. e \in Elements
      BY <3>1, <3>2, ElementOfSeq
    <3> QED BY <2>2, <3>3 DEF Elements, Linked
  <2>7. PICK o \in Nat : o = e.offset
    BY <2>6
  <2> HIDE DEF front, e
  <2>8. /\ Append(x, o) \in Seq(Nat) /\ \A i \in 1 .. k : Append(x, o)[i] = x[i]
        /\ Append(x, o)[k + 1] = o
    BY <2>4, <2>5, AppendProperties
  <2>9. k + 1 <= Len(there) /\ \A i \in 1 .. k + 1 : Append(x, o)[i] = there[i]
    BY <2>1, <2>3, <2>4, <2>5, <2>7
  <2>10. Fits(front) /\ there[k + 1] = o /\ Len(x) = k
    <3>1. \A i \in 1 .. k : i \in 1 .. k + 1
      OBVIOUS
    <3>2. \A i \in 1 .. k : x[i] = there[i]
      BY <2>8, <2>9, <3>1
    <3>3. Len(x) = k /\ k <= Len(there) /\ k + 1 \in 1 .. k + 1
      BY <1>1, <2>4, <2>5, <2>9
    <3> QED BY <2>5, <2>8, <2>9, <3>2, <3>3
  <2>11. Leads(NodeOf(front), x, there)
    <3>1. Len(front) = k + 1
      BY <2>1, <2>2
    <3>2. Goes(front)
      BY <1>3, <3>1
    <3> QED BY <2>2, <2>5, <2>10, <3>2
  <2>12. NodeOf(front) \in Nodes
    <3>1. front \in Seq(Elements) /\ front # << >>
      BY <2>2 DEF Way
    <3>2. Len(front) \in 1 .. Len(front)
      BY <3>1, EmptySeq
    <3>3. front[Len(front)] \in Elements
      BY <3>1, <3>2, ElementOfSeq
    <3> QED BY <3>3 DEF NodeOf, Last, Elements
  <2>13. there[Len(x) + 1] = o /\ Len(x) < Len(there)
    BY <1>1, <2>9, <2>10
  <2>14. Leads(Children(NodeOf(front))[o], Append(x, o), there)
    BY <2>11, <2>12, <2>13, LeadsOn
  <2> QED BY <2>2, <2>3, <2>5, <2>6, <2>7, <2>14
<1>4. Nat \subseteq T
  <2> HIDE DEF T
  <2> QED BY <1>2, <1>3, Induction
<1>5. Fits(path)
  <2> DEFINE trail == TrailOf(path)
             m == Len(trail)
  <2>1. trail \in Seq(Nat) /\ m \in Nat /\ m <= Len(there)
        /\ SubSeq(trail, 1, m) = SubSeq(there, 1, m)
    BY TrailFacts, LenProperties DEF IsPrefix
  <2>2. m \in 0 .. Len(trail) /\ m \in 0 .. Len(there)
    BY <1>1, <2>1
  <2> HIDE DEF trail, m
  <2>3. \A i \in 1 .. m : SubSeq(trail, 1, m)[i] = trail[i]
    BY <2>1, <2>2, Beginning
  <2>4. \A i \in 1 .. m : SubSeq(there, 1, m)[i] = there[i]
    BY <1>1, <2>2, Beginning
  <2> QED BY <2>1, <2>3, <2>4 DEF trail, m
<1>6. Len(path) - 1 \in Nat /\ (Len(path) - 1) + 1 = Len(path)
  BY EmptySeq DEF Way
<1>7. Goes(path)
  BY <1>4, <1>6
<1> QED BY <1>5, <1>7
-----------------------------------------------------------------------------
(* Scouts and the trails they are at.                                      *)

StandsAt(arena, s, trail) == Sound(arena, s) /\ TrailOf(WayTo(arena, s)) = trail

\* A scout that stands somewhere has a parent exactly when it is not at the root.
LEMMA StandsAtTrail ==
  ASSUME tree \in DOMAIN Trees, NEW arena, NEW s, NEW trail, StandsAt(arena, s, trail)
  PROVE  /\ trail \in Seq(Nat)
         /\ NodeAlways(arena, s) \in Nodes
         /\ HasParents(s) <=> trail # << >>
         /\ ~HasParents(s) => NodeAlways(arena, s) = Root
         /\ ScoutTrail(arena, s) = trail
         /\ s.path = << >> => HandleTrail(arena, s.root) = trail
         /\ s.root \in DOMAIN arena
<1> DEFINE line == Lineage(arena, s.root)
           way == WayTo(arena, s)
<1>1. /\ Way(way) /\ NodeOf(way) = NodeAlways(arena, s)
      /\ HasParents(s) <=> Len(way) # 1
  BY WayToIsWay DEF StandsAt
<1>2. trail = TrailOf(way)
  BY DEF StandsAt
<1>3. /\ Way(line) /\ line \in Seq(Elements) /\ s.path \in Seq(Elements)
      /\ way = line \o s.path /\ (s.path = << >> => way = line)
      /\ Len(way) = Len(line) + Len(s.path)
      /\ \A i \in 1 .. Len(line) : way[i] = line[i]
      /\ \A i \in 1 .. Len(s.path) : way[Len(line) + i] = s.path[i]
      /\ Len(line) \in Nat \ {0} /\ Len(s.path) \in Nat
  <2>1. way = line \o s.path
    BY DEF WayTo
  <2>2. Sound(arena, s)
    BY DEF StandsAt
  <2>3. /\ line \in Seq(Elements) /\ Len(line) \in Nat \ {0}
        /\ s.path \in Seq(Elements) /\ Len(s.path) \in Nat
        /\ way \in Seq(Elements) /\ Len(way) = Len(line) + Len(s.path)
        /\ \A i \in 1 .. Len(line) : way[i] = line[i]
        /\ \A i \in 1 .. Len(s.path) : way[Len(line) + i] = s.path[i]
        /\ Way(line) /\ NodeOf(line) = arena[s.root].node
        /\ (Len(line) = 1 <=> s.root = 1)
        /\ (s.path = << >> <=> Len(s.path) = 0)
        /\ (s.path = << >> => way = line)
    BY <2>2, WayToParts
  <2> HIDE DEF line, way
  <2> QED BY <2>1, <2>3
<1>4. NodeAlways(arena, s) \in Nodes
  BY NodeAlwaysIsNode DEF StandsAt, Sound
<1>5. s.root \in DOMAIN arena /\ Rooted(arena)
  BY DEF StandsAt, Sound, On
<1> HIDE DEF line, way
<1>6. trail \in Seq(Nat) /\ (HasParents(s) <=> trail # << >>)
  BY <1>1, <1>2, TrailFacts, TrailGoesBack
<1>7. ~HasParents(s) => NodeAlways(arena, s) = Root
  BY <1>5 DEF HasParents, NodeAlways, Rooted
<1>8. s.path = << >> => HandleTrail(arena, s.root) = trail
  BY <1>2, <1>3 DEF HandleTrail, line
<1>9. ScoutTrail(arena, s) = trail
  <2> DEFINE front == TrailOf(line)
             rest == Offsets(s.path)
             n == Len(line)
             p == Len(s.path)
  <2>1. /\ front \in Seq(Nat) /\ Len(front) = n - 1
        /\ \A i \in 1 .. n - 1 : front[i] = line[i + 1].offset
    BY <1>3, TrailFacts
  <2>2. /\ rest \in Seq(Nat) /\ Len(rest) = p
        /\ \A i \in 1 .. p : rest[i] = s.path[i].offset
    <3>1. DOMAIN s.path = 1 .. p /\ \A i \in 1 .. p : s.path[i] \in Elements
      BY <1>3, LenProperties, ElementOfSeq
    <3>2. rest = [i \in 1 .. p |-> s.path[i].offset]
      BY <3>1 DEF Offsets
    <3>3. \A i \in 1 .. p : s.path[i].offset \in Nat
      BY <3>1 DEF Elements
    <3>4. rest \in Seq(Nat)
      BY <1>3, <3>2, <3>3, IsASeq
    <3>5. DOMAIN rest = 1 .. p /\ Len(rest) = p
      BY <1>3, <3>2, <3>4, LenProperties
    <3> QED BY <3>2, <3>4, <3>5
  <2>3. /\ trail \in Seq(Nat) /\ Len(trail) = Len(way) - 1
        /\ \A i \in 1 .. Len(way) - 1 : trail[i] = way[i + 1].offset
    BY <1>1, <1>2, TrailFacts
  <2>4. /\ n \in Nat \ {0} /\ p \in Nat /\ Len(way) = n + p
        /\ \A i \in 1 .. n : way[i] = line[i]
        /\ \A i \in 1 .. p : way[n + i] = s.path[i]
    BY <1>3
  <2> HIDE DEF front, rest
  <2>5. /\ front \o rest \in Seq(Nat) /\ Len(front \o rest) = (n - 1) + p
        /\ \A i \in 1 .. (n - 1) + p :
             (front \o rest)[i] = IF i <= n - 1 THEN front[i] ELSE rest[i - (n - 1)]
    <3> HIDE DEF n, p
    <3>1. /\ front \o rest \in Seq(Nat) /\ Len(front \o rest) = Len(front) + Len(rest)
          /\ \A i \in 1 .. Len(front) + Len(rest) :
               (front \o rest)[i] = IF i <= Len(front) THEN front[i] ELSE rest[i - Len(front)]
      BY <2>1, <2>2, ConcatProperties
    <3> QED BY <2>1, <2>2, <3>1
  <2> HIDE DEF n, p
  <2>6. ASSUME NEW i \in 1 .. (n - 1) + p PROVE (front \o rest)[i] = trail[i]
    <3>0. i \in 1 .. Len(way) - 1
      BY <2>4
    <3>1. CASE i <= n - 1
      <4>1. i \in 1 .. n - 1 /\ i + 1 \in 1 .. n
        BY <2>4, <3>1
      <4> QED BY <2>1, <2>3, <2>4, <2>5, <3>0, <3>1, <4>1
    <3>2. CASE ~(i <= n - 1)
      <4>1. PICK j \in 1 .. p : j = i - (n - 1)
        BY <2>4, <3>2
      <4>2. i + 1 = n + j
        BY <2>4, <4>1
      <4>3. trail[i] = s.path[j].offset
        BY <2>3, <2>4, <3>0, <4>2
      <4>4. (front \o rest)[i] = rest[j]
        BY <2>5, <3>2, <4>1
      <4> QED BY <2>2, <4>3, <4>4
    <3> QED BY <3>1, <3>2
  <2>7. Len(trail) = (n - 1) + p
    BY <2>3, <2>4
  <2>8. front \o rest = trail
    BY <2>3, <2>5, <2>6, <2>7, SeqEqual
  <2> QED BY <2>8 DEF ScoutTrail, HandleTrail, front, rest, line
<1> QED BY <1>4, <1>5, <1>6, <1>7, <1>8, <1>9

\* The scout of a path is at its trail.
LEMMA ScoutOfStands ==
  ASSUME tree \in DOMAIN Trees, NEW arena, Rooted(arena), StoreCheck(arena),
         NEW path, Way(path)
  PROVE  /\ StandsAt(arena, ScoutOf(path), TrailOf(path))
         /\ NodeAlways(arena, ScoutOf(path)) = NodeOf(path)
<1> DEFINE s == ScoutOf(path)
           below == Tail(path)
           n == Len(path)
           root == [node |-> Root, offset |-> 0]
<1>1. /\ path \in Seq(Elements) /\ path # << >> /\ n \in Nat \ {0}
      /\ path[1] = root
  BY EmptySeq DEF Way
<1>2. /\ below \in Seq(Elements) /\ Len(below) = n - 1
      /\ \A i \in 1 .. n - 1 : below[i] = path[i + 1]
  <2>1. /\ below \in Seq(Elements) /\ Len(below) = n - 1
        /\ \A i \in 1 .. Len(below) : below[i] = path[i + 1]
    BY <1>1, HeadTailProperties
  <2> QED BY <2>1
<1>3. s.root = 1 /\ s.path = below /\ s = [root |-> 1, path |-> below]
  BY DEF ScoutOf
<1> HIDE DEF below, s, n, root
<1>4. On(arena, s)
  BY <1>2, <1>3 DEF On, Rooted
<1>5. Check(below)
  <2>1. SUFFICES ASSUME NEW i \in 2 .. n - 1 PROVE Linked(below[i - 1].node, below[i])
    BY <1>2 DEF Check
  <2>2. i - 1 \in 1 .. n - 1 /\ i \in 1 .. n - 1 /\ i + 1 \in 2 .. n /\ (i - 1) + 1 = i
        /\ (i + 1) - 1 = i
    BY <1>1, <2>1
  <2>3. Linked(path[(i + 1) - 1].node, path[i + 1])
    BY <2>2 DEF Way, Check, n
  <2>4. below[i - 1] = path[i] /\ below[i] = path[i + 1]
    BY <1>2, <2>2
  <2> QED BY <2>2, <2>3, <2>4
<1>6. arena[1] = [node |-> Root, offset |-> 0, parent |-> 1]
  BY DEF Rooted
<1>7. below # << >> => Linked(arena[1].node, below[1])
  <2>1. SUFFICES ASSUME below # << >> PROVE Linked(arena[1].node, below[1])
    OBVIOUS
  <2>2. 2 \in 2 .. n /\ 1 \in 1 .. n - 1
    BY <1>1, <1>2, <2>1, EmptySeq
  <2>3. Linked(path[2 - 1].node, path[2])
    BY <2>2 DEF Way, Check, n
  <2>4. below[1] = path[2] /\ path[2 - 1] = path[1]
    BY <1>2, <2>2
  <2> QED BY <1>1, <1>6, <2>3, <2>4 DEF root
<1>8. Sound(arena, s)
  <2>1. \A h \in 2 .. 1 : FALSE
    OBVIOUS
  <2> QED BY <1>3, <1>4, <1>5, <1>7, <2>1 DEF Sound, CheckWith
<1>9. WayTo(arena, s) = path
  <2>1. Lineage(arena, 1) = <<root>> /\ root \in Elements /\ <<root>> \in Seq(Elements)
        /\ Len(<<root>>) = 1 /\ <<root>>[1] = root
    <3>1. Lineage(arena, 1) = <<root>> /\ root \in Elements
      BY ChildrenAreNodes, LineageOf DEF Elements, root
    <3> QED BY <3>1
  <2> DEFINE first == <<root>>
  <2> HIDE DEF first
  <2>2. first \in Seq(Elements) /\ Len(first) = 1 /\ first[1] = root
    BY <2>1 DEF first
  <2>3. /\ first \o below \in Seq(Elements) /\ Len(first \o below) = 1 + (n - 1)
        /\ \A i \in 1 .. 1 + (n - 1) :
             (first \o below)[i] = IF i <= 1 THEN first[i] ELSE below[i - 1]
    <3>1. /\ first \o below \in Seq(Elements) /\ Len(first \o below) = Len(first) + Len(below)
          /\ \A i \in 1 .. Len(first) + Len(below) :
               (first \o below)[i] = IF i <= Len(first) THEN first[i] ELSE below[i - Len(first)]
      <4>1. first \in Seq(Elements) /\ below \in Seq(Elements)
        BY <1>2, <2>2
      <4> QED BY ONLY <4>1, ConcatProperties
    <3> QED BY <1>2, <2>2, <3>1
  <2>4. ASSUME NEW i \in 1 .. n PROVE (first \o below)[i] = path[i]
    <3>1. 1 + (n - 1) = n
      BY <1>1
    <3>2. CASE i = 1
      BY <1>1, <2>2, <2>3, <3>1, <3>2
    <3>3. CASE i # 1
      <4>1. i - 1 \in 1 .. n - 1 /\ (i - 1) + 1 = i /\ ~(i <= 1)
        BY <1>1, <3>3
      <4>2. below[i - 1] = path[i]
        BY <1>2, <4>1
      <4> QED BY <2>3, <3>1, <4>1, <4>2
    <3> QED BY <3>2, <3>3
  <2>5. Len(first \o below) = Len(path) /\ Len(first \o below) = n
    BY <1>1, <2>3 DEF n
  <2>6. first \o below = path
    BY <1>1, <2>3, <2>4, <2>5, SeqEqual
  <2> QED BY <1>3, <2>1, <2>6 DEF WayTo, first
<1>10. NodeAlways(arena, s) = NodeOf(path)
  BY <1>8, <1>9, WayToIsWay
<1> QED BY <1>8, <1>9, <1>10 DEF StandsAt, s

\* goto, up and push take a scout from the trail it is at to the next.
LEMMA GotoStands ==
  ASSUME tree \in DOMAIN Trees, NEW arena, NEW s, NEW trail, StandsAt(arena, s, trail),
         NEW o \in DOMAIN Children(NodeAlways(arena, s))
  PROVE  /\ StandsAt(arena, GotoChild(arena, s, o), Append(trail, o))
         /\ NodeAlways(arena, GotoChild(arena, s, o)) = Children(NodeAlways(arena, s))[o]
<1> DEFINE e == [node |-> Children(NodeAlways(arena, s))[o], offset |-> o]
           t == GotoChild(arena, s, o)
<1>1. Sound(arena, s) /\ Sound(arena, t)
  BY GotoKeepsSound DEF StandsAt
<1>2. Way(WayTo(arena, s)) /\ NodeOf(WayTo(arena, s)) = NodeAlways(arena, s)
  BY <1>1, WayToIsWay
<1>3. WayTo(arena, t) = Append(WayTo(arena, s), e)
  BY <1>1, WayToGoto
<1>4. e \in Elements /\ Linked(NodeAlways(arena, s), e) /\ e.offset = o
  BY <1>1, NodeAlwaysIsNode, ChildrenAreNodes DEF Sound, Elements, Linked
<1>5. e.node = Children(NodeAlways(arena, s))[o]
  OBVIOUS
<1> HIDE DEF e, t
<1>6. /\ TrailOf(Append(WayTo(arena, s), e)) = Append(TrailOf(WayTo(arena, s)), e.offset)
      /\ NodeOf(Append(WayTo(arena, s), e)) = e.node
  BY <1>2, <1>4, TrailGoesOn, WayGoesOn
<1>7. NodeAlways(arena, t) = NodeOf(WayTo(arena, t))
  BY <1>1, WayToIsWay
<1> QED BY <1>1, <1>3, <1>4, <1>5, <1>6, <1>7 DEF StandsAt, t

\* An up takes it to the trail without its last step.
LEMMA UpStands ==
  ASSUME tree \in DOMAIN Trees, NEW arena, NEW s, NEW trail, StandsAt(arena, s, trail),
         HasParents(s)
  PROVE  /\ StandsAt(arena, Up(arena, s), Front(trail))
         /\ s.path = << >> => Up(arena, s).path = << >>
         /\ \E o \in DOMAIN Children(NodeAlways(arena, Up(arena, s))) :
              /\ NodeAlways(arena, s) = Children(NodeAlways(arena, Up(arena, s)))[o]
              /\ trail = Append(Front(trail), o)
<1> DEFINE way == WayTo(arena, s)
           t == Up(arena, s)
           e == way[Len(way)]
<1>1. Sound(arena, s) /\ Sound(arena, t)
  BY UpKeepsSound DEF StandsAt
<1>2. Way(way) /\ NodeOf(way) = NodeAlways(arena, s) /\ Len(way) # 1
  BY <1>1, WayToIsWay
<1>3. WayTo(arena, t) = Front(way)
  BY <1>1, WayToUp
<1>4. TrailOf(way) = trail
  BY DEF StandsAt
<1>5. NodeAlways(arena, t) = NodeOf(WayTo(arena, t))
  BY <1>1, WayToIsWay
<1>6. e.node = NodeOf(way)
  BY DEF NodeOf, Last
<1> HIDE DEF way, e
<1>7. TrailOf(Front(way)) = Front(trail) /\ trail = Append(Front(trail), e.offset)
  BY <1>2, <1>4, TrailGoesBack DEF e
<1>8. Linked(NodeOf(Front(way)), e)
  BY <1>2, WayGoesBack DEF e
<1>9. s.path = << >> => t.path = << >>
  <2>1. s \in [root : Nat, path : Seq(Elements)]
    BY <1>1 DEF Sound, On
  <2> QED BY <2>1 DEF Up
<1> HIDE DEF t
<1>10. StandsAt(arena, t, Front(trail))
  BY <1>1, <1>3, <1>7 DEF StandsAt
<1>11. /\ e.offset \in DOMAIN Children(NodeAlways(arena, t))
       /\ NodeAlways(arena, s) = Children(NodeAlways(arena, t))[e.offset]
  BY <1>2, <1>3, <1>5, <1>6, <1>8 DEF Linked
<1> QED BY <1>7, <1>9, <1>10, <1>11 DEF t

\* A push leaves it where it is, on an entry of its own.
LEMMA PushStands ==
  ASSUME tree \in DOMAIN Trees, NEW arena, NEW s, NEW trail, StandsAt(arena, s, trail)
  PROVE  /\ StandsAt(Pushed(arena, s), Landed(arena, s), trail)
         /\ NodeAlways(Pushed(arena, s), Landed(arena, s)) = NodeAlways(arena, s)
         /\ Landed(arena, s).path = << >>
         /\ Extends(Pushed(arena, s), arena)
         /\ Rooted(Pushed(arena, s)) /\ StoreCheck(Pushed(arena, s))
<1> DEFINE pushed == Pushed(arena, s)
           t == Landed(arena, s)
<1>1. Sound(arena, s) /\ Sound(pushed, t)
  BY PushKeepsSound DEF StandsAt
<1>2. Extends(pushed, arena) /\ WayTo(pushed, t) = WayTo(arena, s) /\ t.path = << >>
  BY <1>1, WayToPushed
<1>3. /\ NodeAlways(arena, s) = NodeOf(WayTo(arena, s))
      /\ NodeAlways(pushed, t) = NodeOf(WayTo(pushed, t))
  BY <1>1, WayToIsWay
<1> QED BY <1>1, <1>2, <1>3 DEF StandsAt, Sound

\* It stays there while the store grows.
LEMMA StandsStill ==
  ASSUME tree \in DOMAIN Trees, NEW arena, NEW s, NEW trail, StandsAt(arena, s, trail),
         NEW st, Rooted(st), StoreCheck(st), Extends(st, arena)
  PROVE  /\ StandsAt(st, s, trail)
         /\ NodeAlways(st, s) = NodeAlways(arena, s)
BY SoundStays DEF StandsAt

\* Later pushes extend what earlier ones did.
LEMMA ExtendsOn ==
  ASSUME NEW a, NEW b, NEW c, Rooted(a), Rooted(b), Rooted(c), Extends(b, a), Extends(c, b)
  PROVE  Extends(c, a)
<1>1. Len(a) \in Nat /\ Len(b) \in Nat /\ Len(c) \in Nat
  BY DEF Rooted
<1> QED BY <1>1 DEF Extends

\* A new store has all that a scout needs.
LEMMA NewStoreStands ==
  ASSUME tree \in DOMAIN Trees
  PROVE  Rooted(NewStore(Root)) /\ StoreCheck(NewStore(Root))
BY NewIsSound DEF Sound

\* A way ends at a node of the tree; the shortest one at the root.
LEMMA WayEnds ==
  ASSUME NEW path, Way(path)
  PROVE  NodeOf(path) \in Nodes /\ (Len(path) = 1 => NodeOf(path) = Root)
<1>1. path \in Seq(Elements) /\ path # << >>
  BY DEF Way
<1>2. Len(path) \in 1 .. Len(path)
  BY <1>1, EmptySeq, LenProperties
<1>3. path[Len(path)] \in Elements
  BY <1>1, <1>2, ElementOfSeq
<1> QED BY <1>3 DEF NodeOf, Last, Elements, Way
-----------------------------------------------------------------------------
(* Sums over finite sets: the recursion of Total and Text takes the chosen *)
(* element out first; any other gives the same.                            *)

Pick(s) == CHOOSE x \in s : TRUE

SumRest(f, iter, s) == IF s = {} THEN 0 ELSE f[Pick(s)] + iter[s \ {Pick(s)}]
Sums(iter, f, S) == iter = [s \in SUBSET S |-> SumRest(f, iter, s)]
Summed(f, S) == CHOOSE iter : Sums(iter, f, S)
SumOf(f, S) == Summed(f, S)[S]

Small(S, n) == {s \in SUBSET S : Cardinality(s) <= n}

\* What is left of a set without the chosen element is smaller.
LEMMA PickedOut ==
  ASSUME NEW s, IsFiniteSet(s), s # {}
  PROVE  /\ Pick(s) \in s /\ IsFiniteSet(s \ {Pick(s)})
         /\ Cardinality(s) \in Nat \ {0}
         /\ Cardinality(s \ {Pick(s)}) = Cardinality(s) - 1
<1>1. Pick(s) \in s
  BY DEF Pick
<1>2. Cardinality(s) \in Nat /\ Cardinality(s) # 0
  BY FS_CardinalityType, FS_EmptySet
<1> QED BY <1>1, <1>2, FS_RemoveElement

\* So the sums of all subsets exist.
LEMMA SumExists ==
  ASSUME NEW f, NEW S, IsFiniteSet(S)
  PROVE  Sums(Summed(f, S), f, S)
<1> DEFINE Till(iter, n) == iter = [s \in Small(S, n) |-> SumRest(f, iter, s)]
           T == {n \in Nat : \E iter : Till(iter, n)}
<1>1. \A s \in SUBSET S : IsFiniteSet(s) /\ Cardinality(s) \in Nat
  BY FS_Subset, FS_CardinalityType
<1>2. 0 \in T
  <2> DEFINE iter == [s \in Small(S, 0) |-> 0]
  <2>1. \A s \in Small(S, 0) : s = {}
    BY <1>1, FS_EmptySet DEF Small
  <2>2. \A s \in Small(S, 0) : SumRest(f, iter, s) = 0
    BY <2>1 DEF SumRest
  <2>3. Till(iter, 0)
    BY <2>2
  <2> QED BY <2>3
<1>3. ASSUME NEW n \in Nat, n \in T PROVE n + 1 \in T
  <2>1. PICK iter : Till(iter, n)
    BY <1>3
  <2> DEFINE next == [s \in Small(S, n + 1) |-> SumRest(f, iter, s)]
  <2>2. ASSUME NEW s \in Small(S, n + 1) PROVE SumRest(f, iter, s) = SumRest(f, next, s)
    <3>1. CASE s = {}
      BY <3>1 DEF SumRest
    <3>2. CASE s # {}
      <4>1. IsFiniteSet(s) /\ Cardinality(s) <= n + 1
        BY <1>1 DEF Small
      <4>2. PICK r : r = s \ {Pick(s)}
        OBVIOUS
      <4>3. Cardinality(s) \in Nat /\ Cardinality(r) = Cardinality(s) - 1
        BY <3>2, <4>1, <4>2, PickedOut
      <4>4. r \in Small(S, n) /\ r \in Small(S, n + 1)
        BY <4>1, <4>2, <4>3 DEF Small
      <4>5. iter[r] = SumRest(f, iter, r)
        BY <2>1, <4>4, Zenon
      <4>6. next[r] = SumRest(f, iter, r)
        BY <4>4
      <4> QED BY <3>2, <4>2, <4>5, <4>6 DEF SumRest
    <3> QED BY <3>1, <3>2
  <2>3. next = [s \in Small(S, n + 1) |-> SumRest(f, next, s)]
    BY <2>2
  <2> HIDE DEF next
  <2> QED BY <2>3
<1>4. Nat \subseteq T
  <2> HIDE DEF T
  <2> QED BY <1>2, <1>3, Induction
<1>5. Cardinality(S) \in T
  BY <1>4, FS_CardinalityType
<1>6. Small(S, Cardinality(S)) = SUBSET S
  <2>1. \A s \in SUBSET S : Cardinality(s) <= Cardinality(S)
    BY FS_Subset
  <2> QED BY <2>1 DEF Small
<1>7. \E iter : Sums(iter, f, S)
  BY <1>5, <1>6 DEF Sums
<1> QED BY <1>7 DEF Summed

\* Two solutions that add the same numbers are the same.
LEMMA SumsAgree ==
  ASSUME NEW f, NEW g, NEW S, NEW R, IsFiniteSet(S), IsFiniteSet(R),
         NEW a, NEW b, Sums(a, f, S), Sums(b, g, R),
         NEW s, s \in SUBSET S, s \in SUBSET R, \A x \in s : f[x] = g[x]
  PROVE  a[s] = b[s]
<1> DEFINE T == {n \in Nat : \A r \in SUBSET s : Cardinality(r) = n => a[r] = b[r]}
<1>1. ASSUME NEW r \in SUBSET s PROVE a[r] = SumRest(f, a, r) /\ b[r] = SumRest(g, b, r)
  <2>1. r \in SUBSET S /\ r \in SUBSET R
    OBVIOUS
  <2>2. a[r] = SumRest(f, a, r)
    BY <2>1, Zenon DEF Sums
  <2>3. b[r] = SumRest(g, b, r)
    BY <2>1, Zenon DEF Sums
  <2> QED BY <2>2, <2>3
<1>2. \A r \in SUBSET s : IsFiniteSet(r) /\ Cardinality(r) \in Nat
  BY FS_Subset, FS_CardinalityType
<1>3. ASSUME NEW n \in Nat, \A m \in Nat : m < n => m \in T PROVE n \in T
  <2>1. SUFFICES ASSUME NEW r \in SUBSET s, Cardinality(r) = n PROVE a[r] = b[r]
    OBVIOUS
  <2>2. CASE r = {}
    BY <1>1, <2>2 DEF SumRest
  <2>3. CASE r # {}
    <3>1. PICK x, q : x = Pick(r) /\ q = r \ {Pick(r)}
      OBVIOUS
    <3>2. x \in r /\ Cardinality(q) = n - 1 /\ n - 1 \in Nat
      BY <1>2, <2>1, <2>3, <3>1, PickedOut
    <3>3. q \in SUBSET s /\ n - 1 < n
      BY <3>1
    <3>4. a[q] = b[q]
      BY <1>3, <3>2, <3>3
    <3> QED BY <1>1, <2>3, <3>1, <3>2, <3>4 DEF SumRest
  <2> QED BY <2>2, <2>3
<1>4. Nat \subseteq T
  <2> HIDE DEF T
  <2> QED BY <1>3, StrongInduction
<1> QED BY <1>2, <1>4

\* The sum only depends on the numbers that are added.
LEMMA SumAlike ==
  ASSUME NEW f, NEW g, NEW S, IsFiniteSet(S), \A x \in S : f[x] = g[x]
  PROVE  SumOf(f, S) = SumOf(g, S)
<1>1. Sums(Summed(f, S), f, S) /\ Sums(Summed(g, S), g, S)
  BY SumExists
<1>2. S \in SUBSET S
  OBVIOUS
<1> QED BY <1>1, <1>2, SumsAgree DEF SumOf

\* Nothing adds up to 0.
LEMMA SumEmpty ==
  ASSUME NEW f
  PROVE  SumOf(f, {}) = 0
<1>1. IsFiniteSet({}) /\ {} \in SUBSET {}
  BY FS_EmptySet
<1>2. Sums(Summed(f, {}), f, {})
  BY <1>1, SumExists
<1>3. Summed(f, {})[{}] = SumRest(f, Summed(f, {}), {})
  BY <1>1, <1>2, Zenon DEF Sums
<1> QED BY <1>3 DEF SumOf, SumRest

\* The sum of the set without the chosen element, and any other.
LEMMA SumWithout ==
  ASSUME NEW f, NEW S, IsFiniteSet(S), \A y \in S : f[y] \in Nat, NEW x \in S
  PROVE  /\ SumOf(f, S \ {x}) \in Nat
         /\ SumOf(f, S) = f[x] + SumOf(f, S \ {x})
<1> DEFINE T == {n \in Nat : \A r \in SUBSET S : Cardinality(r) = n =>
                   SumOf(f, r) \in Nat /\ \A y \in r : SumOf(f, r) = f[y] + SumOf(f, r \ {y})}
<1>1. \A r \in SUBSET S : IsFiniteSet(r) /\ Cardinality(r) \in Nat
  BY FS_Subset, FS_CardinalityType
<1>2. ASSUME NEW r \in SUBSET S, r # {}
      PROVE  SumOf(f, r) = f[Pick(r)] + SumOf(f, r \ {Pick(r)})
  <2>1. PICK q : q = r \ {Pick(r)}
    OBVIOUS
  <2>2. IsFiniteSet(r) /\ IsFiniteSet(q) /\ r \in SUBSET r /\ q \in SUBSET r /\ q \in SUBSET q
    BY <1>1, <2>1
  <2>3. Sums(Summed(f, r), f, r) /\ Sums(Summed(f, q), f, q)
    BY <2>2, SumExists
  <2>4. Summed(f, r)[r] = SumRest(f, Summed(f, r), r)
    BY <2>2, <2>3, Zenon DEF Sums
  <2>5. Summed(f, r)[q] = Summed(f, q)[q]
    BY <2>2, <2>3, SumsAgree
  <2> QED BY <1>2, <2>1, <2>4, <2>5 DEF SumOf, SumRest
<1>3. ASSUME NEW n \in Nat, \A m \in Nat : m < n => m \in T PROVE n \in T
  <2>1. SUFFICES ASSUME NEW r \in SUBSET S, Cardinality(r) = n
                 PROVE  SumOf(f, r) \in Nat /\ \A y \in r : SumOf(f, r) = f[y] + SumOf(f, r \ {y})
    OBVIOUS
  <2>2. CASE r = {}
    BY <2>2, SumEmpty
  <2>3. CASE r # {}
    <3>1. PICK c, q : c = Pick(r) /\ q = r \ {c}
      OBVIOUS
    <3>2. /\ c \in r /\ q \in SUBSET S /\ Cardinality(q) = n - 1 /\ n - 1 \in Nat /\ n - 1 < n
      BY <1>1, <2>1, <2>3, <3>1, PickedOut
    <3>3. SumOf(f, q) \in Nat /\ \A y \in q : SumOf(f, q) = f[y] + SumOf(f, q \ {y})
      BY <1>3, <3>2
    <3>4. SumOf(f, r) = f[c] + SumOf(f, q) /\ f[c] \in Nat
      BY <1>2, <2>3, <3>1, <3>2
    <3>5. ASSUME NEW y \in r, y # c PROVE SumOf(f, r) = f[y] + SumOf(f, r \ {y})
      <4>1. PICK p, o : p = r \ {y} /\ o = q \ {y}
        OBVIOUS
      <4>2. y \in q /\ c \in p /\ p \in SUBSET S /\ o = p \ {c} /\ o \in SUBSET S
        BY <3>1, <3>2, <3>5, <4>1
      <4>3. Cardinality(p) = n - 1 /\ Cardinality(o) = (n - 1) - 1 /\ (n - 1) - 1 \in Nat
        <5>1. Cardinality(p) = n - 1
          BY <1>1, <2>1, <4>1, FS_RemoveElement
        <5>2. Cardinality(o) = (n - 1) - 1
          BY <1>1, <3>2, <4>1, <4>2, FS_RemoveElement
        <5> QED BY <1>1, <4>2, <5>1, <5>2
      <4>4. /\ SumOf(f, p) \in Nat /\ SumOf(f, p) = f[c] + SumOf(f, o)
        BY <1>3, <3>2, <4>2, <4>3
      <4>5. SumOf(f, o) \in Nat
        <5>1. (n - 1) - 1 < n
          BY <3>2
        <5> QED BY <1>3, <4>2, <4>3, <5>1
      <4>6. SumOf(f, q) = f[y] + SumOf(f, o) /\ f[y] \in Nat
        BY <3>3, <4>1, <4>2, <3>2
      <4> QED BY <3>4, <4>1, <4>4, <4>5, <4>6
    <3>6. SumOf(f, r) \in Nat
      BY <3>3, <3>4
    <3>7. ASSUME NEW y \in r, y = c PROVE SumOf(f, r) = f[y] + SumOf(f, r \ {y})
      BY <3>1, <3>4, <3>7
    <3> QED BY <3>5, <3>6, <3>7
  <2> QED BY <2>2, <2>3
<1>4. Nat \subseteq T
  <2> HIDE DEF T
  <2> QED BY <1>3, StrongInduction
<1>5. S \in SUBSET S /\ S \ {x} \in SUBSET S
  OBVIOUS
<1> QED BY <1>1, <1>4, <1>5

\* A sum of numbers is a number.
LEMMA SumIsNat ==
  ASSUME NEW f, NEW S, IsFiniteSet(S), \A y \in S : f[y] \in Nat
  PROVE  SumOf(f, S) \in Nat
<1>1. CASE S = {}
  BY <1>1, SumEmpty
<1>2. CASE S # {}
  <2>1. PICK x \in S : TRUE
    BY <1>2
  <2>2. SumOf(f, S \ {x}) \in Nat /\ SumOf(f, S) = f[x] + SumOf(f, S \ {x})
    BY <2>1, SumWithout
  <2>3. f[x] \in Nat
    BY <2>1
  <2> QED BY <2>2, <2>3
<1> QED BY <1>1, <1>2

\* Sums of sets with nothing in common.
LEMMA SumJoined ==
  ASSUME NEW f, NEW A, NEW B, IsFiniteSet(A), IsFiniteSet(B), A \cap B = {},
         \A y \in A \cup B : f[y] \in Nat
  PROVE  /\ SumOf(f, A \cup B) = SumOf(f, A) + SumOf(f, B)
         /\ SumOf(f, A) \in Nat /\ SumOf(f, B) \in Nat
<1> DEFINE T == {n \in Nat : \A R \in SUBSET B : Cardinality(R) = n =>
                   SumOf(f, A \cup R) = SumOf(f, A) + SumOf(f, R)}
<1>1. \A R \in SUBSET B : /\ IsFiniteSet(R) /\ Cardinality(R) \in Nat
                          /\ IsFiniteSet(A \cup R)
                          /\ SumOf(f, R) \in Nat
  <2>1. SUFFICES ASSUME NEW R \in SUBSET B
                 PROVE  /\ IsFiniteSet(R) /\ Cardinality(R) \in Nat
                        /\ IsFiniteSet(A \cup R) /\ SumOf(f, R) \in Nat
    OBVIOUS
  <2>2. IsFiniteSet(R) /\ Cardinality(R) \in Nat
    BY FS_Subset, FS_CardinalityType
  <2>3. IsFiniteSet(A \cup R)
    BY <2>2, FS_Union
  <2>4. \A y \in R : f[y] \in Nat
    OBVIOUS
  <2> QED BY <2>2, <2>3, <2>4, SumIsNat
<1>2. SumOf(f, A) \in Nat
  BY SumIsNat
<1>3. ASSUME NEW n \in Nat, \A m \in Nat : m < n => m \in T PROVE n \in T
  <2>1. SUFFICES ASSUME NEW R \in SUBSET B, Cardinality(R) = n
                 PROVE  SumOf(f, A \cup R) = SumOf(f, A) + SumOf(f, R)
    OBVIOUS
  <2>2. CASE R = {}
    <3>1. A \cup R = A
      BY <2>2
    <3> QED BY <1>2, <2>2, <3>1, SumEmpty
  <2>3. CASE R # {}
    <3>1. PICK x \in R : TRUE
      BY <2>3
    <3>2. PICK q, u : q = R \ {x} /\ u = A \cup R
      OBVIOUS
    <3>3. u \ {x} = A \cup q /\ x \in u /\ q \in SUBSET B
      BY <3>1, <3>2
    <3>4. /\ Cardinality(R) \in Nat /\ Cardinality(q) = Cardinality(R) - 1
          /\ Cardinality(q) \in Nat
      BY <1>1, <3>1, <3>2, <3>3, FS_RemoveElement
    <3>5. SumOf(f, A \cup q) = SumOf(f, A) + SumOf(f, q)
      <4>1. Cardinality(q) < n
        BY <2>1, <3>4
      <4> QED BY <1>3, <3>3, <3>4, <4>1
    <3>6. SumOf(f, u) = f[x] + SumOf(f, A \cup q)
      <4>1. IsFiniteSet(u) /\ \A y \in u : f[y] \in Nat
        BY <1>1, <3>2
      <4>2. SumOf(f, u) = f[x] + SumOf(f, u \ {x})
        BY <3>3, <4>1, SumWithout
      <4> QED BY <3>3, <4>2
    <3>7. SumOf(f, R) = f[x] + SumOf(f, q)
      <4>1. IsFiniteSet(R) /\ \A y \in R : f[y] \in Nat
        BY <1>1
      <4>2. SumOf(f, R) = f[x] + SumOf(f, R \ {x})
        BY <3>1, <4>1, SumWithout
      <4> QED BY <3>2, <4>2
    <3>8. f[x] \in Nat /\ SumOf(f, q) \in Nat
      BY <1>1, <3>1, <3>3
    <3>9. SumOf(f, u) = SumOf(f, A) + SumOf(f, R)
      BY <1>2, <3>5, <3>6, <3>7, <3>8
    <3> QED BY <3>2, <3>9
  <2> QED BY <2>2, <2>3
<1>4. Nat \subseteq T
  <2> HIDE DEF T
  <2> QED BY <1>3, StrongInduction
<1>5. B \in SUBSET B
  OBVIOUS
<1> QED BY <1>1, <1>2, <1>4, <1>5

\* Total is such a sum,
LEMMA TotalIsSum ==
  ASSUME NEW numbers
  PROVE  Total(numbers) = SumOf(numbers, DOMAIN numbers)
BY DEF Total, SumOf, Summed, Sums, SumRest, Pick, FoldSeq, FoldFunction,
       FoldFunctionOnSet, MapThenFoldSet

TextRest(T, node, iter, s) ==
  IF s = {} THEN 0 ELSE T[node[Pick(s)]].bytes + iter[s \ {Pick(s)}]
Texts(iter, T, node, trails) ==
  iter = [s \in SUBSET trails |-> TextRest(T, node, iter, s)]

\* and so is the length of a text.
LEMMA TextIsSum ==
  ASSUME NEW T, NEW node, NEW trails, IsFiniteSet(trails),
         NEW f, \A t \in trails : f[t] = T[node[t]].bytes
  PROVE  Text(T, node, trails) = SumOf(f, trails)
<1>1. ASSUME NEW iter, NEW s \in SUBSET trails
      PROVE  TextRest(T, node, iter, s) = SumRest(f, iter, s)
  <2>1. CASE s = {}
    BY <2>1 DEF TextRest, SumRest
  <2>2. CASE s # {}
    <3>1. Pick(s) \in trails
      BY <2>2 DEF Pick
    <3> QED BY <2>2, <3>1 DEF TextRest, SumRest
  <2> QED BY <2>1, <2>2
<1>2. ASSUME NEW iter PROVE Texts(iter, T, node, trails) <=> Sums(iter, f, trails)
  <2>1. [s \in SUBSET trails |-> TextRest(T, node, iter, s)]
        = [s \in SUBSET trails |-> SumRest(f, iter, s)]
    BY <1>1
  <2> QED BY <2>1 DEF Texts, Sums
<1> DEFINE chosen == CHOOSE iter : Texts(iter, T, node, trails)
<1>3. Texts(chosen, T, node, trails)
  <2>1. \E iter : Texts(iter, T, node, trails)
    BY <1>2, SumExists
  <2> QED BY <2>1
<1>4. Text(T, node, trails) = chosen[trails]
  BY DEF Text, MapThenSumSet, MapThenFoldSet, TextRest, Pick, Texts
<1> HIDE DEF chosen
<1>5. trails \in SUBSET trails /\ Sums(Summed(f, trails), f, trails)
  BY SumExists
<1> QED BY <1>2, <1>3, <1>4, <1>5, SumsAgree DEF SumOf
-----------------------------------------------------------------------------
(* The node at a trail: the last one of the way there.                     *)

\* Finite sets of numbers have a greatest element.
LEMMA MaxIsGreatest ==
  ASSUME NEW n \in Nat, NEW S \in SUBSET (1 .. n), S # {}
  PROVE  Max(S) \in S /\ \A y \in S : Max(S) >= y
<1> DEFINE T == {k \in Nat : \A R \in SUBSET (1 .. k) :
                   R # {} => \E x \in R : \A y \in R : x >= y}
<1>1. 0 \in T
  <2>1. \A R \in SUBSET (1 .. 0) : R = {}
    OBVIOUS
  <2> QED BY <2>1
<1>2. ASSUME NEW k \in Nat, k \in T PROVE k + 1 \in T
  <2>1. SUFFICES ASSUME NEW R \in SUBSET (1 .. k + 1), R # {}
                 PROVE  \E x \in R : \A y \in R : x >= y
    OBVIOUS
  <2>2. CASE k + 1 \in R
    <3>1. \A y \in R : k + 1 >= y
      OBVIOUS
    <3> QED BY <2>2, <3>1
  <2>3. CASE k + 1 \notin R
    <3>1. R \in SUBSET (1 .. k)
      <4>1. \A x \in R : x \in 1 .. k + 1 /\ x # k + 1
        BY <2>3
      <4> QED BY <4>1
    <3> QED BY <1>2, <2>1, <3>1
  <2> QED BY <2>2, <2>3
<1>3. Nat \subseteq T
  <2> HIDE DEF T
  <2> QED BY <1>1, <1>2, Induction
<1>4. \E x \in S : \A y \in S : x >= y
  BY <1>3
<1> QED BY <1>4 DEF Max

AtRest(T, trail, at, s) ==
  IF s = {} THEN Len(T) ELSE T[at[s \ {Max(s)}]].children[trail[Max(s)]]
Ats(at, T, trail) == at = [s \in SUBSET DOMAIN trail |-> AtRest(T, trail, at, s)]
AtsOf(T, trail) == CHOOSE at : Ats(at, T, trail)

\* A function finds the node at each beginning of a trail.
LEMMA AtsExist ==
  ASSUME NEW T, NEW trail \in Seq(Nat)
  PROVE  Ats(AtsOf(T, trail), T, trail)
<1> DEFINE S == DOMAIN trail
           Till(at, n) == at = [s \in Small(S, n) |-> AtRest(T, trail, at, s)]
           R == {n \in Nat : \E at : Till(at, n)}
<1>1. S = 1 .. Len(trail) /\ Len(trail) \in Nat /\ IsFiniteSet(S)
  BY LenProperties, FS_Interval
<1>2. \A s \in SUBSET S : IsFiniteSet(s) /\ Cardinality(s) \in Nat
  BY <1>1, FS_Subset, FS_CardinalityType
<1>3. 0 \in R
  <2> DEFINE at == [s \in Small(S, 0) |-> Len(T)]
  <2>1. \A s \in Small(S, 0) : s = {}
    BY <1>2, FS_EmptySet DEF Small
  <2>2. \A s \in Small(S, 0) : AtRest(T, trail, at, s) = Len(T)
    BY <2>1 DEF AtRest
  <2>3. Till(at, 0)
    BY <2>2
  <2> QED BY <2>3
<1>4. ASSUME NEW n \in Nat, n \in R PROVE n + 1 \in R
  <2>1. PICK at : Till(at, n)
    BY <1>4
  <2> DEFINE next == [s \in Small(S, n + 1) |-> AtRest(T, trail, at, s)]
  <2>2. ASSUME NEW s \in Small(S, n + 1) PROVE AtRest(T, trail, at, s) = AtRest(T, trail, next, s)
    <3>1. CASE s = {}
      BY <3>1 DEF AtRest
    <3>2. CASE s # {}
      <4>1. IsFiniteSet(s) /\ Cardinality(s) <= n + 1 /\ s \in SUBSET S
        BY <1>2 DEF Small
      <4>2. PICK r : r = s \ {Max(s)}
        OBVIOUS
      <4>3. Cardinality(s) \in Nat /\ Cardinality(r) \in Nat /\ Cardinality(r) = Cardinality(s) - 1
        <5>1. Max(s) \in s
          BY <1>1, <3>2, <4>1, MaxIsGreatest
        <5>2. r \in SUBSET S
          BY <4>1, <4>2
        <5> QED BY <1>2, <4>1, <4>2, <5>1, <5>2, FS_RemoveElement
      <4>4. r \in Small(S, n) /\ r \in Small(S, n + 1)
        BY <4>1, <4>2, <4>3 DEF Small
      <4>5. at[r] = AtRest(T, trail, at, r)
        BY <2>1, <4>4, Zenon
      <4>6. next[r] = AtRest(T, trail, at, r)
        BY <4>4
      <4> QED BY <3>2, <4>2, <4>5, <4>6 DEF AtRest
    <3> QED BY <3>1, <3>2
  <2>3. next = [s \in Small(S, n + 1) |-> AtRest(T, trail, next, s)]
    BY <2>2
  <2> HIDE DEF next
  <2> QED BY <2>3
<1>5. Nat \subseteq R
  <2> HIDE DEF R
  <2> QED BY <1>3, <1>4, Induction
<1>6. Cardinality(S) \in R
  BY <1>1, <1>5, FS_CardinalityType
<1>7. Small(S, Cardinality(S)) = SUBSET S
  <2>1. \A s \in SUBSET S : Cardinality(s) <= Cardinality(S)
    BY <1>1, FS_Subset
  <2> QED BY <2>1 DEF Small
<1>8. \E at : Ats(at, T, trail)
  BY <1>6, <1>7 DEF Ats
<1> QED BY <1>8 DEF AtsOf

\* What Places says of this tree.
LEMMA PlacesOfTree ==
  ASSUME tree \in DOMAIN Trees
  PROVE  LET T == Trees[tree]
             node == NodesAt(T)
         IN  /\ Trails = DOMAIN node
             /\ \A trail : At(trail) = node[trail]
             /\ Leaves = {t \in DOMAIN node : T[node[t]].children = << >>}
             /\ TrailsInFiles = {t \in DOMAIN node : FilesAround(T, node, Front(t)) # {}}
             /\ \A trail \in DOMAIN node :
                  PositionAt(trail) =
                    IF FilesAround(T, node, trail) = {}
                    THEN PositionIn(T, node, {}, trail, trail)
                    ELSE PositionIn(T, node, Leaves, trail,
                                    CHOOSE f \in FilesAround(T, node, trail) : TRUE)
<1> DEFINE T == Trees[tree]
<1>1. PICK node : node = NodesAt(T)
  OBVIOUS
<1> DEFINE leaves == {t \in DOMAIN node : T[node[t]].children = << >>}
<1>2. Places[tree] = Described(T, node, leaves)
  <2>1. Places[tree] = WithLeaves(T, NodesAt(T))
    BY DEF Places
  <2> QED BY <1>1, <2>1 DEF WithLeaves
<1>3. /\ Places[tree].node = node /\ Places[tree].leaves = leaves
      /\ Places[tree].inFile = {t \in DOMAIN node : FilesAround(T, node, Front(t)) # {}}
      /\ Places[tree].position =
           [t \in DOMAIN node |->
              IF FilesAround(T, node, t) = {}
              THEN PositionIn(T, node, {}, t, t)
              ELSE PositionIn(T, node, leaves, t, CHOOSE f \in FilesAround(T, node, t) : TRUE)]
  BY <1>2 DEF Described
<1>4. Leaves = leaves
  BY <1>3 DEF Leaves
<1> HIDE DEF leaves
<1>5. \A t \in DOMAIN node : PositionAt(t) =
        IF FilesAround(T, node, t) = {}
        THEN PositionIn(T, node, {}, t, t)
        ELSE PositionIn(T, node, Leaves, t, CHOOSE f \in FilesAround(T, node, t) : TRUE)
  BY <1>3, <1>4 DEF PositionAt
<1>6. Trails = DOMAIN node /\ \A trail : At(trail) = node[trail]
  BY <1>3 DEF Trails, At
<1>7. Leaves = {t \in DOMAIN node : T[node[t]].children = << >>}
  BY <1>4 DEF leaves
<1>8. TrailsInFiles = {t \in DOMAIN node : FilesAround(T, node, Front(t)) # {}}
  BY <1>3 DEF TrailsInFiles
<1> QED BY <1>1, <1>5, <1>6, <1>7, <1>8

\* At is the node found so.
LEMMA AtIsThat ==
  ASSUME tree \in DOMAIN Trees, NEW trail \in Trails
  PROVE  At(trail) = AtsOf(Trees[tree], trail)[DOMAIN trail]
<1>1. trail \in DOMAIN NodesAt(Trees[tree]) /\ At(trail) = NodesAt(Trees[tree])[trail]
  BY PlacesOfTree
<1>2. NodesAt(Trees[tree])[trail] = AtsOf(Trees[tree], trail)[DOMAIN trail]
  BY <1>1 DEF NodesAt, FoldLeft, MapThenFoldSet, AtsOf, Ats, AtRest
<1> QED BY <1>1, <1>2

\* The trails of the tree are those of its ways.
LEMMA WayIsTrail ==
  ASSUME tree \in DOMAIN Trees, NEW path, Way(path)
  PROVE  TrailOf(path) \in Trails
<1> DEFINE n == Len(path)
           trail == TrailOf(path)
           m == Len(trail)
           T == {k \in Nat : k <= m => \E tail \in TrailsBelow[path[n - k].node] :
                   Len(tail) = k /\ \A i \in 1 .. k : tail[i] = trail[m - k + i]}
<1>1. /\ path \in Seq(Elements) /\ n \in Nat \ {0}
      /\ \A i \in 1 .. n : path[i] \in Elements
      /\ path[1] = [node |-> Root, offset |-> 0]
      /\ \A i \in 2 .. n : Linked(path[i - 1].node, path[i])
  BY EmptySeq, LenProperties, ElementOfSeq DEF Way, Check
<1>2. /\ trail \in Seq(Nat) /\ m = n - 1
      /\ \A i \in 1 .. n - 1 : trail[i] = path[i + 1].offset
  BY TrailFacts
<1> HIDE DEF n, m, trail
<1>3. 0 \in T
  <2>1. path[n].node \in Nodes
    BY <1>1 DEF Elements
  <2>2. << >> \in TrailsBelow[path[n].node]
    BY <2>1, TrailsAreThose DEF Beneath
  <2>3. n - 0 = n /\ Len(<< >>) = 0
    BY <1>1
  <2> QED BY <2>2, <2>3
<1>4. ASSUME NEW k \in Nat, k \in T PROVE k + 1 \in T
  <2>1. SUFFICES ASSUME k + 1 <= m
                 PROVE  \E tail \in TrailsBelow[path[n - (k + 1)].node] :
                          /\ Len(tail) = k + 1
                          /\ \A i \in 1 .. k + 1 : tail[i] = trail[m - (k + 1) + i]
    OBVIOUS
  <2>2. PICK j \in 1 .. n - 1 : j = n - (k + 1) /\ j + 1 = n - k
    BY <1>1, <1>2, <2>1
  <2>3. PICK rest \in TrailsBelow[path[j + 1].node] :
          Len(rest) = k /\ \A i \in 1 .. k : rest[i] = trail[m - k + i]
    BY <1>1, <1>2, <1>4, <2>1, <2>2
  <2>4. /\ path[j].node \in Nodes /\ path[j + 1].node \in Nodes
        /\ path[j + 1].offset \in DOMAIN Children(path[j].node)
        /\ Children(path[j].node)[path[j + 1].offset] = path[j + 1].node
        /\ path[j + 1].offset \in Nat
    <3>1. j + 1 \in 2 .. n /\ (j + 1) - 1 = j /\ j \in 1 .. n /\ j + 1 \in 1 .. n
      BY <1>1, <2>2
    <3>2. Linked(path[j].node, path[j + 1])
      BY <1>1, <3>1
    <3> QED BY <1>1, <3>1, <3>2 DEF Linked, Elements
  <2>5. PICK o \in Nat : o = path[j + 1].offset
    BY <2>4
  <2>6. rest \in Seq(Nat)
    BY <2>3, <2>4, TrailsBelowAreTrails
  <2>7. PICK tail : tail = <<o>> \o rest
    OBVIOUS
  <2>8. tail \in TrailsBelow[path[j].node]
    <3>1. tail \in {<<o>> \o t : t \in TrailsBelow[Children(path[j].node)[o]]}
      BY <2>3, <2>4, <2>5, <2>7
    <3>2. tail \in Beneath(path[j].node, TrailsBelow)
      BY <2>4, <2>5, <3>1 DEF Beneath
    <3> QED BY <2>4, <3>2, TrailsAreThose
  <2>9. /\ Len(tail) = k + 1
        /\ \A i \in 1 .. k + 1 : tail[i] = IF i <= 1 THEN o ELSE rest[i - 1]
    <3>1. <<o>> \in Seq(Nat) /\ Len(<<o>>) = 1 /\ <<o>>[1] = o
      OBVIOUS
    <3>2. /\ Len(tail) = 1 + k
          /\ \A i \in 1 .. 1 + k : tail[i] = IF i <= 1 THEN <<o>>[i] ELSE rest[i - 1]
      BY <2>3, <2>6, <2>7, <3>1, ConcatProperties
    <3>3. \A i \in 1 .. k + 1 : i <= 1 => i = 1
      OBVIOUS
    <3>4. 1 + k = k + 1
      OBVIOUS
    <3> QED BY <3>1, <3>2, <3>3, <3>4
  <2>10. ASSUME NEW i \in 1 .. k + 1 PROVE tail[i] = trail[m - (k + 1) + i]
    <3>1. CASE i = 1
      <4>1. m - (k + 1) + 1 = j
        BY <1>2, <1>1, <2>2
      <4> QED BY <1>2, <2>2, <2>5, <2>9, <3>1, <4>1
    <3>2. CASE i # 1
      <4>1. PICK h \in 1 .. k : h = i - 1
        BY <3>2
      <4>2. m - k + h = m - (k + 1) + i
        BY <1>1, <1>2, <4>1
      <4>3. ~(i <= 1)
        BY <3>2
      <4> QED BY <2>3, <2>9, <4>1, <4>2, <4>3
    <3> QED BY <3>1, <3>2
  <2> QED BY <2>2, <2>8, <2>9, <2>10
<1>5. Nat \subseteq T
  <2> HIDE DEF T
  <2> QED BY <1>3, <1>4, Induction
<1>6. m \in Nat /\ m <= m /\ n - m = 1 /\ \A i \in 1 .. m : m - m + i = i
  BY <1>1, <1>2
<1>7. PICK tail \in TrailsBelow[path[n - m].node] :
        Len(tail) = m /\ \A i \in 1 .. m : tail[i] = trail[m - m + i]
  BY <1>5, <1>6
<1>8. tail \in TrailsBelow[Root]
  BY <1>1, <1>6, <1>7
<1>9. tail \in Trails /\ tail \in Seq(Nat)
  BY <1>8, TrailsAreThose, TrailsBelowAreTrails, ChildrenAreNodes
<1>10. tail = trail
  <2>1. Len(trail) = m
    BY DEF m
  <2>2. \A i \in 1 .. m : tail[i] = trail[i]
    BY <1>6, <1>7
  <2> QED BY <1>2, <1>7, <1>9, <2>1, <2>2, SeqEqual
<1> QED BY <1>9, <1>10 DEF trail

\* And the node at the trail of a way is the one the way ends at.
LEMMA WayEndsAt ==
  ASSUME tree \in DOMAIN Trees, NEW path, Way(path)
  PROVE  At(TrailOf(path)) = NodeOf(path)
<1> DEFINE n == Len(path)
           T == Trees[tree]
           trail == TrailOf(path)
           at == AtsOf(T, trail)
           R == {k \in Nat : k < n => at[1 .. k] = path[k + 1].node}
<1>1. /\ path \in Seq(Elements) /\ n \in Nat \ {0}
      /\ path[1] = [node |-> Root, offset |-> 0]
      /\ \A i \in 2 .. n : Linked(path[i - 1].node, path[i])
  BY EmptySeq, LenProperties DEF Way, Check
<1>2. /\ trail \in Seq(Nat) /\ Len(trail) = n - 1 /\ DOMAIN trail = 1 .. n - 1
      /\ \A i \in 1 .. n - 1 : trail[i] = path[i + 1].offset
  BY TrailFacts, LenProperties
<1>3. At(trail) = at[1 .. n - 1]
  BY <1>2, WayIsTrail, AtIsThat
<1>4. Ats(at, T, trail)
  BY <1>2, AtsExist
<1> HIDE DEF n, at, trail
<1>5. ASSUME NEW s \in SUBSET (1 .. n - 1)
      PROVE  at[s] = AtRest(T, trail, at, s)
  BY <1>2, <1>4, <1>5, Zenon DEF Ats
<1>6. 0 \in R
  <2>1. 1 .. 0 = {} /\ 0 + 1 = 1
    OBVIOUS
  <2>2. at[{}] = Root
    BY <1>5 DEF AtRest, Root
  <2> QED BY <1>1, <2>1, <2>2
<1>7. ASSUME NEW k \in Nat, k \in R PROVE k + 1 \in R
  <2>1. SUFFICES ASSUME k + 1 < n PROVE at[1 .. k + 1] = path[(k + 1) + 1].node
    OBVIOUS
  <2>2. PICK s : s = 1 .. k + 1
    OBVIOUS
  <2>3. s \in SUBSET (1 .. n - 1) /\ s # {} /\ k + 1 \in s /\ \A y \in s : y <= k + 1
    <3>1. k + 1 \in 1 .. k + 1 /\ k + 1 <= n - 1
      BY <1>1, <2>1
    <3>2. \A y \in 1 .. k + 1 : y \in 1 .. n - 1 /\ y <= k + 1
      BY <1>1, <2>1
    <3> QED BY <2>2, <3>1, <3>2
  <2>4. Max(s) = k + 1
    <3>1. Max(s) \in s /\ \A y \in s : Max(s) >= y
      <4>1. PICK l \in Nat : l = n - 1
        BY <1>1
      <4>2. s \in SUBSET (1 .. l)
        BY <2>3, <4>1
      <4> QED BY <2>3, <4>2, MaxIsGreatest
    <3>2. Max(s) <= k + 1 /\ Max(s) >= k + 1 /\ Max(s) \in Nat
      BY <1>1, <2>2, <2>3, <3>1
    <3> QED BY <3>2
  <2>5. s \ {k + 1} = 1 .. k
    BY <2>2
  <2>6. at[s] = T[at[1 .. k]].children[trail[k + 1]]
    BY <1>5, <2>3, <2>4, <2>5 DEF AtRest
  <2>7. at[1 .. k] = path[k + 1].node
    BY <1>1, <1>7, <2>1
  <2>8. trail[k + 1] = path[(k + 1) + 1].offset
    BY <1>1, <1>2, <2>1
  <2>9. Linked(path[k + 1].node, path[(k + 1) + 1])
    <3>1. (k + 1) + 1 \in 2 .. n /\ ((k + 1) + 1) - 1 = k + 1
      BY <1>1, <2>1
    <3> QED BY <1>1, <3>1
  <2> QED BY <2>2, <2>6, <2>7, <2>8, <2>9 DEF Linked, Children
<1>8. Nat \subseteq R
  <2> HIDE DEF R
  <2> QED BY <1>6, <1>7, Induction
<1>9. n - 1 \in Nat /\ n - 1 < n /\ (n - 1) + 1 = n
  BY <1>1
<1>10. at[1 .. n - 1] = path[n].node
  BY <1>8, <1>9
<1> QED BY <1>3, <1>10 DEF NodeOf, Last, trail, n
-----------------------------------------------------------------------------
(* Trails, element by element.                                             *)

\* A prefix is not longer and agrees where it is.
LEMMA PrefixElements ==
  ASSUME NEW a \in Seq(Nat), NEW b \in Seq(Nat)
  PROVE  IsPrefix(a, b) <=> /\ Len(a) <= Len(b)
                            /\ \A i \in 1 .. Len(a) : a[i] = b[i]
<1>1. CASE ~(Len(a) <= Len(b))
  BY <1>1 DEF IsPrefix
<1>2. CASE Len(a) <= Len(b)
  <2>1. Len(a) \in Nat /\ Len(b) \in Nat /\ Len(a) \in 0 .. Len(a) /\ Len(a) \in 0 .. Len(b)
    BY <1>2, LenProperties
  <2>2. PICK x, y : x = SubSeq(a, 1, Len(a)) /\ y = SubSeq(b, 1, Len(a))
    OBVIOUS
  <2>3. x \in Seq(Nat) /\ Len(x) = Len(a) /\ \A i \in 1 .. Len(a) : x[i] = a[i]
    BY <2>1, <2>2, Beginning
  <2>4. y \in Seq(Nat) /\ Len(y) = Len(a) /\ \A i \in 1 .. Len(a) : y[i] = b[i]
    BY <2>1, <2>2, Beginning
  <2>5. x = y <=> \A i \in 1 .. Len(a) : x[i] = y[i]
    BY <2>1, <2>3, <2>4, SeqEqual
  <2> QED BY <1>2, <2>2, <2>3, <2>4, <2>5 DEF IsPrefix
<1> QED BY <1>1, <1>2

\* One trail comes before another when its step is smaller where they part.
LEMMA BeforeElements ==
  ASSUME NEW a \in Seq(Nat), NEW b \in Seq(Nat)
  PROVE  Before(a, b) <=>
           \E i \in 1 .. Len(a) : /\ i <= Len(b) /\ a[i] < b[i]
                                  /\ \A j \in 1 .. i - 1 : a[j] = b[j]
<1>1. /\ Len(a) \in Nat /\ Len(b) \in Nat
      /\ DOMAIN a = 1 .. Len(a) /\ DOMAIN b = 1 .. Len(b)
  BY LenProperties
<1>2. ASSUME NEW i \in 1 .. Len(a), i <= Len(b)
      PROVE  SubSeq(a, 1, i - 1) = SubSeq(b, 1, i - 1) <=> \A j \in 1 .. i - 1 : a[j] = b[j]
  <2>1. PICK m \in Nat : m = i - 1
    BY <1>1
  <2>2. m \in 0 .. Len(a) /\ m \in 0 .. Len(b)
    BY <1>1, <1>2, <2>1
  <2>3. PICK x, y : x = SubSeq(a, 1, m) /\ y = SubSeq(b, 1, m)
    OBVIOUS
  <2>4. x \in Seq(Nat) /\ Len(x) = m /\ \A j \in 1 .. m : x[j] = a[j]
    BY <2>2, <2>3, Beginning
  <2>5. y \in Seq(Nat) /\ Len(y) = m /\ \A j \in 1 .. m : y[j] = b[j]
    BY <2>2, <2>3, Beginning
  <2>6. x = y <=> \A j \in 1 .. m : x[j] = y[j]
    BY <2>1, <2>4, <2>5, SeqEqual
  <2> QED BY <2>1, <2>3, <2>4, <2>5, <2>6
<1>3. ASSUME NEW i PROVE i \in DOMAIN a \cap DOMAIN b <=> i \in 1 .. Len(a) /\ i <= Len(b)
  BY <1>1
<1> QED BY <1>2, <1>3 DEF Before

\* What a trail and the next offset are.
LEMMA OneMore ==
  ASSUME NEW t \in Seq(Nat), NEW o \in Nat
  PROVE  /\ Append(t, o) \in Seq(Nat) /\ Len(Append(t, o)) = Len(t) + 1
         /\ Len(t) \in Nat
         /\ \A i \in 1 .. Len(t) : Append(t, o)[i] = t[i]
         /\ Append(t, o)[Len(t) + 1] = o
BY AppendProperties, LenProperties
-----------------------------------------------------------------------------
(* The trails of the tree are those of its ways.                           *)

\* The root is on a way of its own, with no trail.
LEMMA RootIsWay ==
  ASSUME tree \in DOMAIN Trees
  PROVE  /\ Way(New(Root)) /\ Len(New(Root)) = 1
         /\ TrailOf(New(Root)) = << >> /\ NodeOf(New(Root)) = Root
<1>1. Root \in Nodes
  BY ChildrenAreNodes
<1>2. [node |-> Root, offset |-> 0] \in Elements
  BY <1>1 DEF Elements
<1>3. PICK e \in Elements : e = [node |-> Root, offset |-> 0]
  BY <1>2
<1>4. /\ <<e>> \in Seq(Elements) /\ Len(<<e>>) = 1 /\ <<e>>[1] = e
      /\ <<e>> # << >>
  OBVIOUS
<1>5. Way(<<e>>)
  BY <1>3, <1>4 DEF Way, Check
<1>6. New(Root) = <<e>>
  BY <1>3 DEF New
<1>7. TrailOf(<<e>>) = << >>
  BY <1>4, <1>5, TrailGoesBack
<1>8. NodeOf(<<e>>) = Root
  BY <1>3, <1>4 DEF NodeOf, Last
<1> QED BY <1>4, <1>5, <1>6, <1>7, <1>8

\* Each beginning of a trail of the tree is the trail of a way.
LEMMA TrailIsWay ==
  ASSUME tree \in DOMAIN Trees, NEW there \in Trails, NEW m \in 0 .. Len(there)
  PROVE  \E path : Way(path) /\ TrailOf(path) = SubSeq(there, 1, m)
<1> DEFINE There(k) == \E path : Way(path) /\ TrailOf(path) = SubSeq(there, 1, k)
           T == {k \in Nat : k <= Len(there) => There(k)}
<1>1. there \in Seq(Nat) /\ Len(there) \in Nat
  BY TrailsAreThose, TrailsBelowAreTrails, ChildrenAreNodes, LenProperties
<1>2. 0 \in T
  <2>1. SubSeq(there, 1, 0) = << >>
    BY <1>1, SubSeqEmpty
  <2> QED BY <2>1, RootIsWay
<1>3. ASSUME NEW k \in Nat, k \in T PROVE k + 1 \in T
  <2>1. SUFFICES ASSUME k + 1 <= Len(there) PROVE There(k + 1)
    OBVIOUS
  <2>2. PICK path : Way(path) /\ TrailOf(path) = SubSeq(there, 1, k)
    BY <1>1, <1>3, <2>1
  <2>3. PICK t \in Seq(Nat) : t = TrailOf(path)
    BY <2>2, TrailFacts
  <2>4. k \in 0 .. Len(there) /\ k < Len(there)
    BY <1>1, <2>1
  <2>5. Len(t) = k /\ \A i \in 1 .. k : t[i] = there[i]
    BY <1>1, <2>2, <2>3, <2>4, Beginning
  <2>6. IsPrefix(t, there)
    <3>1. Len(t) <= Len(there) /\ \A i \in 1 .. Len(t) : t[i] = there[i]
      BY <2>4, <2>5
    <3> QED BY <1>1, <3>1, PrefixElements
  <2>7. Leads(NodeOf(path), t, there)
    BY <2>2, <2>3, <2>6, WayLeads
  <2>8. NodeOf(path) \in Nodes
    BY <2>2, WayEnds
  <2>9. there[k + 1] \in DOMAIN Children(NodeOf(path))
    BY <2>4, <2>5, <2>7, <2>8, LeadsOn
  <2>10. PICK e : e = [node |-> Children(NodeOf(path))[there[k + 1]], offset |-> there[k + 1]]
    OBVIOUS
  <2>11. e \in Elements /\ Linked(NodeOf(path), e) /\ e.offset = there[k + 1]
    BY <2>8, <2>9, <2>10, ChildrenAreNodes DEF Elements, Linked
  <2>12. Way(Append(path, e)) /\ TrailOf(Append(path, e)) = Append(t, there[k + 1])
    BY <2>2, <2>3, <2>11, WayGoesOn, TrailGoesOn
  <2>13. SubSeq(there, 1, k + 1) = Append(SubSeq(there, 1, k), there[k + 1])
    BY <1>1, <2>1, NextBeginning
  <2> QED BY <2>2, <2>3, <2>12, <2>13
<1>4. Nat \subseteq T
  <2> HIDE DEF T
  <2> QED BY <1>2, <1>3, Induction
<1> QED BY <1>1, <1>4

\* So a trail can be cut anywhere, and goes on to the children of its node.
LEMMA TrailsAreCut ==
  ASSUME tree \in DOMAIN Trees, NEW t \in Trails
  PROVE  /\ t \in Seq(Nat) /\ Len(t) \in Nat /\ At(t) \in Nodes
         /\ \E path : Way(path) /\ TrailOf(path) = t /\ NodeOf(path) = At(t)
         /\ \A m \in 0 .. Len(t) : SubSeq(t, 1, m) \in Trails
<1>1. t \in Seq(Nat) /\ Len(t) \in Nat
  BY TrailsAreThose, TrailsBelowAreTrails, ChildrenAreNodes, LenProperties
<1>2. ASSUME NEW m \in 0 .. Len(t) PROVE SubSeq(t, 1, m) \in Trails
  BY TrailIsWay, WayIsTrail
<1>3. SubSeq(t, 1, Len(t)) = t /\ Len(t) \in 0 .. Len(t)
  BY <1>1, SubSeqFull
<1>4. PICK path : Way(path) /\ TrailOf(path) = t
  BY <1>3, TrailIsWay
<1>5. NodeOf(path) = At(t) /\ NodeOf(path) \in Nodes
  BY <1>4, WayEndsAt, WayEnds
<1> QED BY <1>1, <1>2, <1>4, <1>5

\* A child is a step further.
LEMMA TrailsGoOn ==
  ASSUME tree \in DOMAIN Trees, NEW t \in Trails, NEW o \in DOMAIN Children(At(t))
  PROVE  /\ Append(t, o) \in Trails /\ o \in Nat \ {0}
         /\ At(Append(t, o)) = Children(At(t))[o]
<1>1. PICK path : Way(path) /\ TrailOf(path) = t /\ NodeOf(path) = At(t)
  BY TrailsAreCut
<1>2. PICK e : e = [node |-> Children(NodeOf(path))[o], offset |-> o]
  OBVIOUS
<1>3. NodeOf(path) \in Nodes
  BY <1>1, WayEnds
<1>4. e \in Elements /\ Linked(NodeOf(path), e) /\ e.offset = o /\ e.node = Children(At(t))[o]
  BY <1>1, <1>2, <1>3, ChildrenAreNodes DEF Elements, Linked
<1>5. /\ Way(Append(path, e)) /\ TrailOf(Append(path, e)) = Append(t, o)
      /\ NodeOf(Append(path, e)) = Children(At(t))[o]
  BY <1>1, <1>4, WayGoesOn, TrailGoesOn
<1>6. o \in Nat \ {0}
  BY <1>1, <1>3, ChildrenAreNodes
<1> QED BY <1>5, <1>6, WayIsTrail, WayEndsAt

\* The next offset of a longer trail is one of a child.
LEMMA TrailsNext ==
  ASSUME tree \in DOMAIN Trees, NEW t \in Trails, NEW l \in Trails,
         IsPrefix(t, l), Len(t) < Len(l)
  PROVE  /\ l[Len(t) + 1] \in DOMAIN Children(At(t))
         /\ IsPrefix(Append(t, l[Len(t) + 1]), l)
<1>1. PICK path : Way(path) /\ TrailOf(path) = t /\ NodeOf(path) = At(t)
  BY TrailsAreCut
<1>2. Leads(At(t), t, l)
  BY <1>1, WayLeads
<1>3. /\ t \in Seq(Nat) /\ At(t) \in Nodes /\ l \in Seq(Nat)
      /\ Len(t) \in Nat /\ Len(l) \in Nat
  BY TrailsAreCut
<1>4. PICK o : o = l[Len(t) + 1]
  OBVIOUS
<1>5. o \in DOMAIN Children(At(t))
  BY <1>2, <1>3, <1>4, LeadsOn
<1>6. o \in Nat
  BY <1>3, <1>5, ChildrenAreNodes
<1>7. IsPrefix(Append(t, o), l)
  <2>1. \A i \in 1 .. Len(t) : t[i] = l[i]
    BY <1>3, PrefixElements
  <2>2. PICK a \in Seq(Nat) : a = Append(t, o)
    BY <1>3, <1>6, OneMore
  <2>3. /\ Len(a) = Len(t) + 1 /\ \A i \in 1 .. Len(t) : a[i] = t[i]
        /\ a[Len(t) + 1] = o
    BY <1>3, <1>6, <2>2, OneMore
  <2>4. \A i \in 1 .. Len(a) : a[i] = l[i]
    <3>1. SUFFICES ASSUME NEW i \in 1 .. Len(a) PROVE a[i] = l[i]
      OBVIOUS
    <3>2. i \in 1 .. Len(t) \/ i = Len(t) + 1
      BY <1>3, <2>3
    <3> QED BY <1>4, <2>1, <2>3, <3>2
  <2>5. Len(a) <= Len(l)
    BY <1>3, <2>3
  <2> QED BY <1>3, <2>2, <2>4, <2>5, PrefixElements
<1> QED BY <1>4, <1>5, <1>7
-----------------------------------------------------------------------------
(* The lengths of the texts of the nodes (get_bytes_len).                  *)

\* A total is a number, and grows with its numbers.
LEMMA TotalIsNat ==
  ASSUME NEW n \in Nat, NEW f, \A i \in 1 .. n : f[i] \in Nat
  PROVE  Total([i \in 1 .. n |-> f[i]]) \in Nat
<1> DEFINE g == [i \in 1 .. n |-> f[i]]
<1>1. DOMAIN g = 1 .. n /\ IsFiniteSet(1 .. n) /\ \A i \in 1 .. n : g[i] \in Nat
  BY FS_Interval
<1>2. Total(g) = SumOf(g, DOMAIN g)
  BY TotalIsSum
<1> HIDE DEF g
<1>3. Total(g) \in Nat
  BY <1>1, <1>2, SumIsNat
<1> QED BY <1>3 DEF g

\* One number more adds that number,
LEMMA TotalNext ==
  ASSUME NEW n \in Nat, NEW f, \A i \in 1 .. n + 1 : f[i] \in Nat
  PROVE  Total([i \in 1 .. n + 1 |-> f[i]]) = Total([i \in 1 .. n |-> f[i]]) + f[n + 1]
<1> DEFINE g == [i \in 1 .. n |-> f[i]]
           h == [i \in 1 .. n + 1 |-> f[i]]
<1>1. DOMAIN g = 1 .. n /\ DOMAIN h = 1 .. n + 1 /\ IsFiniteSet(1 .. n) /\ IsFiniteSet(1 .. n + 1)
  BY FS_Interval
<1>2. Total(g) = SumOf(g, DOMAIN g) /\ Total(h) = SumOf(h, DOMAIN h)
  BY TotalIsSum
<1>3. /\ n + 1 \in 1 .. n + 1 /\ h[n + 1] = f[n + 1]
      /\ \A i \in 1 .. n + 1 : h[i] \in Nat
      /\ \A i \in 1 .. n : g[i] = h[i] /\ g[i] \in Nat
  OBVIOUS
<1> HIDE DEF g, h
<1>4. (1 .. n + 1) \ {n + 1} = 1 .. n
  OBVIOUS
<1>5. SumOf(h, 1 .. n + 1) = h[n + 1] + SumOf(h, (1 .. n + 1) \ {n + 1})
  BY <1>1, <1>3, SumWithout
<1>6. SumOf(g, 1 .. n) = SumOf(h, 1 .. n)
  BY <1>1, <1>3, SumAlike
<1>7. SumOf(g, 1 .. n) \in Nat
  BY <1>1, <1>3, SumIsNat
<1>8. Total(h) = Total(g) + f[n + 1]
  <2>1. Total(g) = SumOf(g, 1 .. n) /\ Total(h) = SumOf(h, 1 .. n + 1)
    BY <1>1, <1>2
  <2>2. Total(h) = f[n + 1] + SumOf(g, 1 .. n)
    BY <1>3, <1>4, <1>5, <1>6, <2>1
  <2>3. f[n + 1] \in Nat
    BY <1>3
  <2> QED BY <1>7, <2>1, <2>2, <2>3
<1> QED BY <1>8 DEF g, h

\* and none add up to 0.
LEMMA TotalOfNone ==
  ASSUME NEW f
  PROVE  Total([i \in 1 .. 0 |-> f[i]]) = 0
<1>1. DOMAIN [i \in 1 .. 0 |-> f[i]] = {}
  OBVIOUS
<1> QED BY <1>1, TotalIsSum, SumEmpty

LenRest(len, n) ==
  IF Children(n) = << >> THEN Trees[tree][n].bytes
  ELSE Total([i \in DOMAIN Children(n) |-> len[Children(n)[i]]])
Lens(len, n) == len = [m \in 1 .. n |-> LenRest(len, m)]

\* A function gives every node its length.
LEMMA LensExist ==
  ASSUME tree \in DOMAIN Trees
  PROVE  \E len : Lens(len, Root)
<1> DEFINE T == {n \in Nat : n <= Root => \E len : Lens(len, n)}
<1>1. Root \in Nat \ {0} /\ Nodes = 1 .. Root
  BY ChildrenFirst DEF Root, Nodes
<1>2. 0 \in T
  <2>1. Lens([m \in 1 .. 0 |-> 0], 0)
    BY DEF Lens
  <2> QED BY <2>1
<1>3. ASSUME NEW n \in Nat, n \in T PROVE n + 1 \in T
  <2>1. SUFFICES ASSUME n + 1 <= Root
                 PROVE  \E len : Lens(len, n + 1)
    OBVIOUS
  <2>2. PICK len : Lens(len, n)
    BY <1>1, <1>3, <2>1
  <2> DEFINE next == [m \in 1 .. n + 1 |->
                        IF m <= n THEN len[m] ELSE LenRest(len, m)]
  <2>3. ASSUME NEW m \in 1 .. n + 1 PROVE next[m] = LenRest(next, m)
    <3>1. m \in Nodes
      BY <1>1, <2>1
    <3>2. \A o \in DOMAIN Children(m) : Children(m)[o] \in Nodes /\ Children(m)[o] < m
      BY <3>1, ChildrenAreNodes
    <3>3. \A o \in DOMAIN Children(m) : Children(m)[o] \in 1 .. n
      BY <1>1, <2>1, <3>2
    <3>4. \A o \in DOMAIN Children(m) : next[Children(m)[o]] = len[Children(m)[o]]
      BY <3>3
    <3>5. LenRest(next, m) = LenRest(len, m)
      <4>1. [i \in DOMAIN Children(m) |-> next[Children(m)[i]]]
            = [i \in DOMAIN Children(m) |-> len[Children(m)[i]]]
        BY <3>4
      <4> HIDE DEF next
      <4> QED BY <4>1 DEF LenRest
    <3>6. CASE m <= n
      <4>1. m \in 1 .. n
        BY <3>6
      <4>2. len[m] = LenRest(len, m)
        BY <2>2, <4>1, Zenon DEF Lens
      <4> QED BY <3>5, <3>6, <4>2
    <3>7. CASE ~(m <= n)
      BY <3>5, <3>7
    <3> QED BY <3>6, <3>7
  <2>4. next = [m \in 1 .. n + 1 |-> next[m]]
    OBVIOUS
  <2> HIDE DEF next
  <2>5. Lens(next, n + 1)
    BY <2>3, <2>4 DEF Lens
  <2> QED BY <2>5
<1>4. Nat \subseteq T
  <2> HIDE DEF T
  <2> QED BY <1>2, <1>3, Induction
<1> QED BY <1>1, <1>4

LensOfTree == CHOOSE len : Lens(len, Root)

\* The length of a node is that of its text, or of all its children.
LEMMA BytesLenIs ==
  ASSUME tree \in DOMAIN Trees, NEW n \in Nodes
  PROVE  BytesLen[n] = LenRest(BytesLen, n)
<1>1. Lens(LensOfTree, Root)
  BY LensExist DEF LensOfTree
<1>2. Nodes = 1 .. Root
  BY ChildrenFirst DEF Root, Nodes
<1>3. BytesLen = [m \in Nodes |-> LensOfTree[m]]
  BY <1>2 DEF BytesLen, BytesLens, LensOfTree, Lens, LenRest, Children, Nodes, Root
<1>4. BytesLen = LensOfTree
  <2>1. LensOfTree = [m \in Nodes |-> LenRest(LensOfTree, m)]
    BY <1>1, <1>2, Zenon DEF Lens
  <2>2. LensOfTree = [m \in Nodes |-> LensOfTree[m]]
    <3> HIDE DEF LensOfTree
    <3> QED BY <2>1
  <2> QED BY <1>3, <2>2
<1>5. LensOfTree[n] = LenRest(LensOfTree, n)
  <2> HIDE DEF LensOfTree
  <2> QED BY <1>1, <1>2, Zenon DEF Lens
<1> QED BY <1>4, <1>5

\* A length is a number.
LEMMA BytesLenIsNat ==
  ASSUME tree \in DOMAIN Trees, NEW n \in Nodes
  PROVE  BytesLen[n] \in Nat
<1> DEFINE T == {k \in Nat : k \in Nodes => BytesLen[k] \in Nat}
<1>1. ASSUME NEW k \in Nat, \A m \in Nat : m < k => m \in T PROVE k \in T
  <2>1. SUFFICES ASSUME k \in Nodes PROVE BytesLen[k] \in Nat
    OBVIOUS
  <2>2. CASE Children(k) = << >>
    <3>1. Trees[tree][k].bytes \in Nat
      BY <2>1, BytesAssumption DEF Nodes
    <3> QED BY <2>1, <2>2, <3>1, BytesLenIs DEF LenRest
  <2>3. CASE Children(k) # << >>
    <3> DEFINE f == [i \in DOMAIN Children(k) |-> BytesLen[Children(k)[i]]]
    <3>1. PICK c \in Nat : DOMAIN Children(k) = 1 .. c
      BY <2>1, ChildrenAreNodes, LenProperties
    <3>2. \A i \in 1 .. c : Children(k)[i] \in Nodes /\ Children(k)[i] < k /\ Children(k)[i] \in Nat
      BY <2>1, <3>1, ChildrenAreNodes
    <3>3. \A i \in 1 .. c : BytesLen[Children(k)[i]] \in Nat
      BY <1>1, <3>2
    <3>4. f = [i \in 1 .. c |-> f[i]] /\ \A i \in 1 .. c : f[i] \in Nat
      BY <3>1, <3>3
    <3>5. BytesLen[k] = Total(f)
      BY <2>1, <2>3, BytesLenIs DEF LenRest
    <3> HIDE DEF f
    <3>6. Total([i \in 1 .. c |-> f[i]]) \in Nat
      BY <3>4, TotalIsNat
    <3> QED BY <3>4, <3>5, <3>6
  <2> QED BY <2>2, <2>3
<1>2. Nat \subseteq T
  <2> HIDE DEF T
  <2> QED BY <1>1, StrongInduction
<1> QED BY <1>2, ChildrenAreNodes

\* How far below the start of a node its children are, one after the other.
LEMMA PrecedingNext ==
  ASSUME tree \in DOMAIN Trees, NEW n \in Nodes
  PROVE  /\ Preceding(n, 1) = 0
         /\ \A o \in DOMAIN Children(n) :
              /\ Preceding(n, o) \in Nat
              /\ Preceding(n, o + 1) = Preceding(n, o) + BytesLen[Children(n)[o]]
         /\ Children(n) # << >> => BytesLen[n] = Preceding(n, Len(Children(n)) + 1)
<1>1. PICK c \in Nat : DOMAIN Children(n) = 1 .. c /\ Len(Children(n)) = c
  BY ChildrenAreNodes, LenProperties
<1> DEFINE f == [i \in 1 .. c |-> BytesLen[Children(n)[i]]]
<1>2. \A i \in 1 .. c : f[i] = BytesLen[Children(n)[i]] /\ f[i] \in Nat
  BY <1>1, ChildrenAreNodes, BytesLenIsNat
<1>3. ASSUME NEW o \in Nat \ {0}, o <= c + 1
      PROVE  Preceding(n, o) = Total([i \in 1 .. o - 1 |-> f[i]])
  <2>1. \A i \in 1 .. o - 1 : i \in 1 .. c
    BY <1>3
  <2>2. [i \in 1 .. o - 1 |-> f[i]] = [i \in 1 .. o - 1 |-> BytesLen[Children(n)[i]]]
    BY <1>2, <2>1
  <2> QED BY <2>2 DEF Preceding
<1>4. f = [i \in 1 .. c |-> f[i]] /\ f = [i \in DOMAIN Children(n) |-> BytesLen[Children(n)[i]]]
  BY <1>1
<1> HIDE DEF f
<1>5. Preceding(n, 1) = 0
  <2>1. 1 - 1 = 0 /\ 1 \in Nat \ {0} /\ 1 <= c + 1
    BY <1>1
  <2> QED BY <1>3, <2>1, TotalOfNone
<1>6. ASSUME NEW o \in 1 .. c
      PROVE  /\ Preceding(n, o) \in Nat
             /\ Preceding(n, o + 1) = Preceding(n, o) + BytesLen[Children(n)[o]]
  <2>1. PICK m \in Nat : m = o - 1 /\ m + 1 = o /\ (o + 1) - 1 = m + 1
    OBVIOUS
  <2>2. o \in Nat \ {0} /\ o <= c + 1 /\ o + 1 \in Nat \ {0} /\ o + 1 <= c + 1
    BY <1>1
  <2>3. \A i \in 1 .. m + 1 : f[i] \in Nat
    BY <1>1, <1>2, <2>1
  <2>4. Total([i \in 1 .. m + 1 |-> f[i]]) = Total([i \in 1 .. m |-> f[i]]) + f[m + 1]
    BY <2>3, TotalNext
  <2>5. Total([i \in 1 .. m |-> f[i]]) \in Nat
    BY <2>3, TotalIsNat
  <2>6. Preceding(n, o) = Total([i \in 1 .. m |-> f[i]])
    BY <1>3, <2>1, <2>2
  <2>7. Preceding(n, o + 1) = Total([i \in 1 .. m + 1 |-> f[i]])
    BY <1>3, <2>1, <2>2
  <2> QED BY <1>2, <2>1, <2>4, <2>5, <2>6, <2>7
<1>7. Children(n) # << >> => BytesLen[n] = Preceding(n, c + 1)
  <2>1. Children(n) # << >> => BytesLen[n] = Total(f)
    BY <1>4, BytesLenIs DEF LenRest
  <2>2. (c + 1) - 1 = c /\ c + 1 \in Nat \ {0} /\ c + 1 <= c + 1
    OBVIOUS
  <2>3. Preceding(n, c + 1) = Total([i \in 1 .. c |-> f[i]])
    BY <1>3, <2>2
  <2> QED BY <1>4, <2>1, <2>3
<1> QED BY <1>1, <1>5, <1>6, <1>7
-----------------------------------------------------------------------------
(* The text below a place is as long as its node says.                     *)

Covered(t) == {l \in Leaves : IsPrefix(t, l)}

\* what lies below the children before the o-th
Parts(t, o) == {l \in Leaves : IsPrefix(t, l) /\ Len(t) < Len(l) /\ l[Len(t) + 1] < o}

LeafBytes == [l \in Leaves |-> Trees[tree][At(l)].bytes]

\* The leaves are the trails to nodes without children.
LEMMA LeavesAre ==
  ASSUME tree \in DOMAIN Trees
  PROVE  /\ \A l : l \in Leaves <=> l \in Trails /\ Children(At(l)) = << >>
         /\ \A l \in Leaves : LeafBytes[l] = BytesLen[At(l)] /\ LeafBytes[l] \in Nat
<1>1. Leaves = {t \in Trails : Children(At(t)) = << >>}
  BY PlacesOfTree DEF Children
<1>2. ASSUME NEW l \in Leaves
      PROVE  LeafBytes[l] = BytesLen[At(l)] /\ LeafBytes[l] \in Nat
  <2>1. l \in Trails /\ Children(At(l)) = << >>
    BY <1>1
  <2>2. At(l) \in Nodes
    BY <2>1, TrailsAreCut
  <2>3. BytesLen[At(l)] = Trees[tree][At(l)].bytes
    BY <2>1, <2>2, BytesLenIs DEF LenRest
  <2>4. BytesLen[At(l)] \in Nat
    BY <2>2, BytesLenIsNat
  <2> QED BY <2>3, <2>4 DEF LeafBytes
<1> QED BY <1>1, <1>2

\* What is below a child goes on with its offset.
LEMMA AppendPrefix ==
  ASSUME NEW t \in Seq(Nat), NEW o \in Nat, NEW l \in Seq(Nat)
  PROVE  IsPrefix(Append(t, o), l)
         <=> IsPrefix(t, l) /\ Len(t) < Len(l) /\ l[Len(t) + 1] = o
<1>1. PICK a \in Seq(Nat) : a = Append(t, o)
  BY OneMore
<1>2. /\ Len(a) = Len(t) + 1 /\ Len(t) \in Nat /\ Len(l) \in Nat
      /\ \A i \in 1 .. Len(t) : a[i] = t[i]
      /\ a[Len(t) + 1] = o
  BY <1>1, OneMore, LenProperties
<1>3. IsPrefix(a, l) <=> Len(a) <= Len(l) /\ \A i \in 1 .. Len(a) : a[i] = l[i]
  BY PrefixElements
<1>4. IsPrefix(t, l) <=> Len(t) <= Len(l) /\ \A i \in 1 .. Len(t) : t[i] = l[i]
  BY PrefixElements
<1>5. ASSUME \A i \in 1 .. Len(a) : a[i] = l[i]
      PROVE  (\A i \in 1 .. Len(t) : t[i] = l[i]) /\ l[Len(t) + 1] = o
  <2>1. \A i \in 1 .. Len(t) : i \in 1 .. Len(a)
    BY <1>2
  <2>2. Len(t) + 1 \in 1 .. Len(a)
    BY <1>2
  <2> QED BY <1>2, <1>5, <2>1, <2>2
<1>6. ASSUME \A i \in 1 .. Len(t) : t[i] = l[i], l[Len(t) + 1] = o
      PROVE  \A i \in 1 .. Len(a) : a[i] = l[i]
  <2>1. SUFFICES ASSUME NEW i \in 1 .. Len(a) PROVE a[i] = l[i]
    OBVIOUS
  <2>2. i \in 1 .. Len(t) \/ i = Len(t) + 1
    BY <1>2
  <2> QED BY <1>2, <1>6, <2>2
<1>7. Len(a) <= Len(l) <=> Len(t) < Len(l)
  BY <1>2
<1>8. Len(t) < Len(l) => Len(t) <= Len(l)
  BY <1>2
<1> QED BY <1>1, <1>3, <1>4, <1>5, <1>6, <1>7, <1>8

\* The parts of a place, child after child.
LEMMA PartsGrow ==
  ASSUME tree \in DOMAIN Trees, NEW t \in Trails
  PROVE  /\ Parts(t, 1) = {}
         /\ \A o \in DOMAIN Children(At(t)) :
              /\ Parts(t, o + 1) = Parts(t, o) \cup Covered(Append(t, o))
              /\ Parts(t, o) \cap Covered(Append(t, o)) = {}
         /\ Children(At(t)) = << >> => Covered(t) = {t}
         /\ Children(At(t)) # << >> => Covered(t) = Parts(t, Len(Children(At(t))) + 1)
<1>1. /\ t \in Seq(Nat) /\ Len(t) \in Nat /\ At(t) \in Nodes
  BY TrailsAreCut
<1>2. ASSUME NEW l \in Leaves
      PROVE  /\ l \in Trails /\ l \in Seq(Nat) /\ Len(l) \in Nat
             /\ Len(t) < Len(l) => l[Len(t) + 1] \in Nat
             /\ IsPrefix(t, l) /\ Len(t) < Len(l) =>
                  l[Len(t) + 1] \in DOMAIN Children(At(t))
             /\ IsPrefix(t, l) /\ ~(Len(t) < Len(l)) => l = t
  <2>1. l \in Trails
    BY LeavesAre
  <2>2. l \in Seq(Nat) /\ Len(l) \in Nat
    BY <2>1, TrailsAreCut
  <2>3. Len(t) < Len(l) => l[Len(t) + 1] \in Nat
    <3>1. Len(t) < Len(l) => Len(t) + 1 \in 1 .. Len(l)
      BY <1>1, <2>2
    <3> QED BY <2>2, <3>1, ElementOfSeq
  <2>4. IsPrefix(t, l) /\ Len(t) < Len(l) => l[Len(t) + 1] \in DOMAIN Children(At(t))
    BY <2>1, TrailsNext
  <2>5. ASSUME IsPrefix(t, l), ~(Len(t) < Len(l)) PROVE l = t
    <3>1. Len(t) <= Len(l) /\ \A i \in 1 .. Len(t) : t[i] = l[i]
      BY <1>1, <2>2, <2>5, PrefixElements
    <3>2. Len(t) = Len(l)
      BY <1>1, <2>2, <2>5, <3>1
    <3> QED BY <1>1, <2>2, <3>1, <3>2, SeqEqual
  <2> QED BY <2>1, <2>2, <2>3, <2>4, <2>5
<1>3. PICK c \in Nat : DOMAIN Children(At(t)) = 1 .. c /\ Len(Children(At(t))) = c
  BY <1>1, ChildrenAreNodes, LenProperties
<1>4. Children(At(t)) = << >> <=> c = 0
  BY <1>1, <1>3, ChildrenAreNodes, EmptySeq
<1>5. Parts(t, 1) = {}
  <2>1. \A l \in Leaves : IsPrefix(t, l) /\ Len(t) < Len(l) => ~(l[Len(t) + 1] < 1)
    BY <1>2, <1>3
  <2> QED BY <2>1 DEF Parts
<1>6. ASSUME NEW o \in 1 .. c
      PROVE  /\ Parts(t, o + 1) = Parts(t, o) \cup Covered(Append(t, o))
             /\ Parts(t, o) \cap Covered(Append(t, o)) = {}
  <2>1. \A l \in Leaves : IsPrefix(Append(t, o), l)
          <=> IsPrefix(t, l) /\ Len(t) < Len(l) /\ l[Len(t) + 1] = o
    BY <1>1, <1>2, AppendPrefix
  <2>2. ASSUME NEW l \in Leaves, Len(t) < Len(l)
        PROVE  /\ l[Len(t) + 1] < o + 1 <=> l[Len(t) + 1] < o \/ l[Len(t) + 1] = o
               /\ ~(l[Len(t) + 1] < o /\ l[Len(t) + 1] = o)
    <3>1. PICK k \in Nat : k = l[Len(t) + 1]
      BY <1>2, <2>2
    <3>2. /\ k < o + 1 <=> k < o \/ k = o
          /\ ~(k < o /\ k = o)
      OBVIOUS
    <3> QED BY <3>1, <3>2
  <2>3. Parts(t, o) \cap Covered(Append(t, o)) = {}
    BY <2>1, <2>2 DEF Parts, Covered
  <2>4. ASSUME NEW l \in Leaves
        PROVE  l \in Parts(t, o + 1) <=> l \in Parts(t, o) \/ l \in Covered(Append(t, o))
    BY <2>1, <2>2 DEF Parts, Covered
  <2>5. /\ Parts(t, o + 1) \subseteq Leaves /\ Parts(t, o) \subseteq Leaves
        /\ Covered(Append(t, o)) \subseteq Leaves
    BY DEF Parts, Covered
  <2> QED BY <2>3, <2>4, <2>5
<1>7. ASSUME Children(At(t)) = << >> PROVE Covered(t) = {t}
  <2>1. t \in Leaves /\ IsPrefix(t, t)
    BY <1>1, <1>7, LeavesAre, PrefixElements
  <2>2. \A l \in Leaves : IsPrefix(t, l) => l = t
    BY <1>2, <1>3, <1>4, <1>7
  <2> QED BY <2>1, <2>2 DEF Covered
<1>8. ASSUME Children(At(t)) # << >> PROVE Covered(t) = Parts(t, c + 1)
  <2>1. t \notin Leaves
    BY <1>8, LeavesAre
  <2>2. ASSUME NEW l \in Leaves, IsPrefix(t, l)
        PROVE  Len(t) < Len(l) /\ l[Len(t) + 1] < c + 1
    <3>1. Len(t) < Len(l)
      BY <1>2, <2>1, <2>2
    <3>2. l[Len(t) + 1] \in 1 .. c
      BY <1>2, <1>3, <2>2, <3>1
    <3> QED BY <3>1, <3>2
  <2> QED BY <2>2 DEF Covered, Parts
<1> QED BY <1>3, <1>5, <1>6, <1>7, <1>8

Counted(t) == IsFiniteSet(Covered(t)) /\ SumOf(LeafBytes, Covered(t)) = BytesLen[At(t)]

\* Once the children are counted, so are the parts of a place.
LEMMA PartsCounted ==
  ASSUME tree \in DOMAIN Trees, NEW t \in Trails,
         \A o \in DOMAIN Children(At(t)) : Counted(Append(t, o))
  PROVE  \A o \in 1 .. Len(Children(At(t))) + 1 :
           /\ IsFiniteSet(Parts(t, o))
           /\ SumOf(LeafBytes, Parts(t, o)) = Preceding(At(t), o)
<1> DEFINE n == At(t)
           Fine(o) == /\ IsFiniteSet(Parts(t, o))
                      /\ SumOf(LeafBytes, Parts(t, o)) = Preceding(n, o)
           T == {k \in Nat : k <= Len(Children(n)) => Fine(k + 1)}
<1>1. n \in Nodes
  BY TrailsAreCut
<1>2. PICK c \in Nat : DOMAIN Children(n) = 1 .. c /\ Len(Children(n)) = c
  BY <1>1, ChildrenAreNodes, LenProperties
<1> HIDE DEF n
<1>3. 0 \in T
  <2>1. Parts(t, 1) = {}
    BY PartsGrow
  <2>2. IsFiniteSet(Parts(t, 1)) /\ SumOf(LeafBytes, Parts(t, 1)) = 0
    BY <2>1, FS_EmptySet, SumEmpty
  <2>3. Preceding(n, 1) = 0 /\ 0 + 1 = 1
    BY <1>1, PrecedingNext
  <2> QED BY <2>2, <2>3
<1>4. ASSUME NEW k \in Nat, k \in T PROVE k + 1 \in T
  <2>1. SUFFICES ASSUME k + 1 <= c PROVE Fine((k + 1) + 1)
    BY <1>2
  <2>2. PICK o \in 1 .. c : o = k + 1
    BY <2>1
  <2>3. Fine(o)
    BY <1>2, <1>4, <2>1, <2>2
  <2>4. /\ Parts(t, o + 1) = Parts(t, o) \cup Covered(Append(t, o))
        /\ Parts(t, o) \cap Covered(Append(t, o)) = {}
    BY <1>2, PartsGrow DEF n
  <2>5. Counted(Append(t, o)) /\ At(Append(t, o)) = Children(n)[o]
    BY <1>2, TrailsGoOn DEF n
  <2>6. Preceding(n, o + 1) = Preceding(n, o) + BytesLen[Children(n)[o]]
    BY <1>1, <1>2, PrecedingNext
  <2>7. PICK A, B : A = Parts(t, o) /\ B = Covered(Append(t, o))
    OBVIOUS
  <2>8. IsFiniteSet(A) /\ IsFiniteSet(B) /\ A \cap B = {}
    BY <2>3, <2>4, <2>5, <2>7 DEF Counted
  <2>9. \A l \in A \cup B : LeafBytes[l] \in Nat
    BY <2>7, LeavesAre DEF Parts, Covered
  <2>10. SumOf(LeafBytes, A \cup B) = SumOf(LeafBytes, A) + SumOf(LeafBytes, B)
    BY <2>8, <2>9, SumJoined
  <2>11. IsFiniteSet(A \cup B)
    BY <2>8, FS_Union
  <2> QED BY <2>2, <2>3, <2>4, <2>5, <2>6, <2>7, <2>10, <2>11 DEF Counted
<1>5. Nat \subseteq T
  <2> HIDE DEF T
  <2> QED BY <1>3, <1>4, Induction
<1>6. ASSUME NEW o \in 1 .. c + 1 PROVE Fine(o)
  <2>1. PICK k \in Nat : k = o - 1 /\ k <= c /\ k + 1 = o
    BY <1>6
  <2>2. k \in T
    BY <1>5
  <2> QED BY <1>2, <2>1, <2>2
<1> QED BY <1>2, <1>6 DEF n

\* What is counted at the leaves below a place is the length of its node.
LEMMA PlacesCounted ==
  ASSUME tree \in DOMAIN Trees, NEW t \in Trails
  PROVE  Counted(t)
<1> DEFINE T == {k \in Nat : \A u \in Trails : At(u) = k => Counted(u)}
<1>1. ASSUME NEW k \in Nat, \A m \in Nat : m < k => m \in T PROVE k \in T
  <2>1. SUFFICES ASSUME NEW u \in Trails, At(u) = k PROVE Counted(u)
    OBVIOUS
  <2>2. k \in Nodes
    BY <2>1, TrailsAreCut
  <2>3. PICK c \in Nat : DOMAIN Children(k) = 1 .. c /\ Len(Children(k)) = c
    BY <2>2, ChildrenAreNodes, LenProperties
  <2>4. CASE Children(k) = << >>
    <3>1. Covered(u) = {u} /\ u \in Leaves
      BY <2>1, <2>4, PartsGrow, LeavesAre
    <3>2. IsFiniteSet({u})
      BY FS_Singleton
    <3>3. {u} \ {u} = {} /\ u \in {u}
      OBVIOUS
    <3>4. LeafBytes[u] = BytesLen[At(u)] /\ LeafBytes[u] \in Nat
      BY <3>1, LeavesAre
    <3>5. SumOf(LeafBytes, {u}) = LeafBytes[u] + SumOf(LeafBytes, {u} \ {u})
      BY <3>2, <3>4, SumWithout
    <3>6. SumOf(LeafBytes, {u}) = LeafBytes[u]
      BY <3>3, <3>4, <3>5, SumEmpty
    <3> QED BY <3>1, <3>2, <3>4, <3>6 DEF Counted
  <2>5. CASE Children(k) # << >>
    <3>1. ASSUME NEW o \in DOMAIN Children(k) PROVE Counted(Append(u, o))
      <4>1. Children(k)[o] \in Nodes /\ Children(k)[o] < k /\ Children(k)[o] \in Nat
        BY <2>2, ChildrenAreNodes
      <4>2. Append(u, o) \in Trails /\ At(Append(u, o)) = Children(k)[o]
        BY <2>1, TrailsGoOn
      <4> QED BY <1>1, <4>1, <4>2
    <3>2. \A o \in 1 .. Len(Children(At(u))) + 1 :
           /\ IsFiniteSet(Parts(u, o))
           /\ SumOf(LeafBytes, Parts(u, o)) = Preceding(At(u), o)
      BY <2>1, <3>1, PartsCounted
    <3>3. c + 1 \in 1 .. c + 1
      OBVIOUS
    <3>4. Covered(u) = Parts(u, c + 1)
      BY <2>1, <2>3, <2>5, PartsGrow
    <3>5. BytesLen[k] = Preceding(k, c + 1)
      BY <2>2, <2>3, <2>5, PrecedingNext
    <3> QED BY <2>1, <2>3, <3>2, <3>3, <3>4, <3>5 DEF Counted
  <2> QED BY <2>4, <2>5
<1>2. Nat \subseteq T
  <2> HIDE DEF T
  <2> QED BY <1>1, StrongInduction
<1>3. At(t) \in Nat
  BY TrailsAreCut, ChildrenAreNodes
<1> QED BY <1>2, <1>3
-----------------------------------------------------------------------------
(* The offset of a place in its file.                                      *)

Earlier(f, t) == {l \in Leaves : IsPrefix(f, l) /\ Before(l, t)}

\* nothing in a place comes before it
LEMMA NotBefore ==
  ASSUME NEW l \in Seq(Nat), NEW t \in Seq(Nat), IsPrefix(t, l)
  PROVE  ~Before(l, t)
<1>1. \A i \in 1 .. Len(t) : t[i] = l[i]
  BY PrefixElements
<1>2. SUFFICES ASSUME NEW i \in 1 .. Len(l), i <= Len(t), l[i] < t[i] PROVE FALSE
  BY BeforeElements
<1>3. i \in 1 .. Len(t) /\ l[i] \in Nat /\ t[i] \in Nat
  BY <1>2, LenProperties, ElementOfSeq
<1> QED BY <1>1, <1>2, <1>3

\* Before the o-th child: what is before its parent, and the children before.
LEMMA EarlierGrows ==
  ASSUME tree \in DOMAIN Trees, NEW f \in Trails, NEW t \in Trails, IsPrefix(f, t),
         NEW o \in DOMAIN Children(At(t))
  PROVE  /\ Earlier(f, Append(t, o)) = Earlier(f, t) \cup Parts(t, o)
         /\ Earlier(f, t) \cap Parts(t, o) = {}
<1>1. /\ t \in Seq(Nat) /\ Len(t) \in Nat /\ f \in Seq(Nat) /\ o \in Nat
      /\ Len(f) \in Nat
  BY TrailsAreCut, TrailsGoOn
<1>2. PICK a \in Seq(Nat) : a = Append(t, o)
  BY <1>1, OneMore
<1>3. /\ Len(a) = Len(t) + 1 /\ \A i \in 1 .. Len(t) : a[i] = t[i]
      /\ a[Len(t) + 1] = o
  BY <1>1, <1>2, OneMore
<1>4. ASSUME NEW l \in Leaves
      PROVE  /\ l \in Earlier(f, a) <=> l \in Earlier(f, t) \/ l \in Parts(t, o)
             /\ ~(l \in Earlier(f, t) /\ l \in Parts(t, o))
  <2>1. l \in Seq(Nat) /\ Len(l) \in Nat
    BY LeavesAre, TrailsAreCut
  <2>2. Before(l, a) <=> \E i \in 1 .. Len(l) : /\ i <= Len(a) /\ l[i] < a[i]
                                               /\ \A j \in 1 .. i - 1 : l[j] = a[j]
    BY <2>1, BeforeElements
  <2>3. Before(l, t) <=> \E i \in 1 .. Len(l) : /\ i <= Len(t) /\ l[i] < t[i]
                                               /\ \A j \in 1 .. i - 1 : l[j] = t[j]
    BY <1>1, <2>1, BeforeElements
  <2>4. IsPrefix(t, l) <=> Len(t) <= Len(l) /\ \A i \in 1 .. Len(t) : t[i] = l[i]
    BY <1>1, <2>1, PrefixElements
  <2>5. ASSUME Before(l, t) PROVE Before(l, a)
    <3>1. PICK i \in 1 .. Len(l) : /\ i <= Len(t) /\ l[i] < t[i]
                                   /\ \A j \in 1 .. i - 1 : l[j] = t[j]
      BY <2>3, <2>5
    <3>2. i \in 1 .. Len(t) /\ i <= Len(a) /\ \A j \in 1 .. i - 1 : j \in 1 .. Len(t)
      BY <1>1, <1>3, <2>1, <3>1
    <3>3. l[i] < a[i] /\ \A j \in 1 .. i - 1 : l[j] = a[j]
      BY <1>3, <3>1, <3>2
    <3> QED BY <2>2, <3>2, <3>3
  <2>6. ASSUME IsPrefix(t, l), Len(t) < Len(l), l[Len(t) + 1] < o PROVE Before(l, a)
    <3>1. PICK i \in 1 .. Len(l) : i = Len(t) + 1
      BY <1>1, <2>1, <2>6
    <3>2. i <= Len(a) /\ l[i] < a[i]
      BY <1>1, <1>3, <2>6, <3>1
    <3>3. \A j \in 1 .. i - 1 : j \in 1 .. Len(t)
      BY <1>1, <3>1
    <3>4. \A j \in 1 .. i - 1 : l[j] = a[j]
      BY <1>3, <2>4, <2>6, <3>3
    <3> QED BY <2>2, <3>2, <3>4
  <2>7. ASSUME Before(l, a), ~Before(l, t)
        PROVE  IsPrefix(t, l) /\ Len(t) < Len(l) /\ l[Len(t) + 1] < o
    <3>1. PICK i \in 1 .. Len(l) : /\ i <= Len(a) /\ l[i] < a[i]
                                   /\ \A j \in 1 .. i - 1 : l[j] = a[j]
      BY <2>2, <2>7
    <3>2. CASE i <= Len(t)
      <4>1. i \in 1 .. Len(t) /\ \A j \in 1 .. i - 1 : j \in 1 .. Len(t)
        BY <1>1, <2>1, <3>2
      <4>2. l[i] < t[i] /\ \A j \in 1 .. i - 1 : l[j] = t[j]
        BY <1>3, <3>1, <4>1
      <4> QED BY <2>3, <2>7, <3>2, <4>2
    <3>3. CASE ~(i <= Len(t))
      <4>1. i = Len(t) + 1
        BY <1>1, <1>3, <2>1, <3>1, <3>3
      <4>2. Len(t) < Len(l) /\ Len(t) <= Len(l) /\ l[Len(t) + 1] < o
        BY <1>1, <1>3, <2>1, <3>1, <4>1
      <4>3. \A j \in 1 .. Len(t) : j \in 1 .. i - 1
        BY <1>1, <4>1
      <4>4. \A j \in 1 .. Len(t) : t[j] = l[j]
        BY <1>3, <3>1, <4>3
      <4> QED BY <2>4, <4>2, <4>4
    <3> QED BY <3>2, <3>3
  <2>8. IsPrefix(t, l) => ~Before(l, t)
    BY <1>1, <2>1, NotBefore
  <2>9. ASSUME IsPrefix(t, l) PROVE IsPrefix(f, l)
    <3>1. Len(f) <= Len(t) /\ \A i \in 1 .. Len(f) : f[i] = t[i]
      BY <1>1, PrefixElements
    <3>2. \A i \in 1 .. Len(f) : i \in 1 .. Len(t)
      BY <1>1, <3>1
    <3>3. Len(f) <= Len(l) /\ \A i \in 1 .. Len(f) : f[i] = l[i]
      BY <1>1, <2>1, <2>4, <2>9, <3>1, <3>2
    <3> QED BY <1>1, <2>1, <3>3, PrefixElements
  <2> QED BY <2>5, <2>6, <2>7, <2>8, <2>9 DEF Earlier, Parts
<1>5. Earlier(f, a) \subseteq Leaves /\ Earlier(f, t) \subseteq Leaves /\ Parts(t, o) \subseteq Leaves
  BY DEF Earlier, Parts
<1> QED BY <1>2, <1>4, <1>5

\* what is added up between two elements of a path
ClimbedTo(path, first, last) ==
  Total([k \in 1 .. last - first |->
           Preceding(path[first + k - 1].node, path[first + k].offset)])

Adds(path, first, last) ==
  \A i \in first .. last - 1 : Preceding(path[i].node, path[i + 1].offset) \in Nat

\* One element more adds what precedes it.
LEMMA ClimbedNext ==
  ASSUME NEW path, NEW first \in Nat, NEW last \in Nat, first <= last,
         Adds(path, first, last + 1)
  PROVE  /\ ClimbedTo(path, first, first) = 0
         /\ ClimbedTo(path, first, last) \in Nat
         /\ ClimbedTo(path, first, last + 1)
            = ClimbedTo(path, first, last) + Preceding(path[last].node, path[last + 1].offset)
<1> DEFINE f == [k \in 1 .. (last - first) + 1 |->
                   Preceding(path[first + k - 1].node, path[first + k].offset)]
<1>1. PICK n \in Nat : n = last - first
  OBVIOUS
<1>2. first - first = 0 /\ (last + 1) - first = n + 1 /\ first + (n + 1) - 1 = last
      /\ first + (n + 1) = last + 1
  BY <1>1
<1>3. ASSUME NEW k \in 1 .. n + 1 PROVE f[k] \in Nat
  <2>1. PICK i \in first .. (last + 1) - 1 : i = first + k - 1 /\ i + 1 = first + k
    BY <1>1
  <2>2. Preceding(path[i].node, path[i + 1].offset) \in Nat
    BY <2>1 DEF Adds
  <2> QED BY <1>1, <2>1, <2>2
<1>4. f[n + 1] = Preceding(path[last].node, path[last + 1].offset)
  BY <1>1, <1>2
<1>5. ASSUME NEW m \in 0 .. n + 1
      PROVE  [k \in 1 .. m |-> f[k]]
             = [k \in 1 .. m |-> Preceding(path[first + k - 1].node, path[first + k].offset)]
  <2>1. \A k \in 1 .. m : k \in 1 .. (last - first) + 1
    BY <1>1
  <2> QED BY <2>1
<1> HIDE DEF f
<1>6. Total([k \in 1 .. n + 1 |-> f[k]]) = Total([k \in 1 .. n |-> f[k]]) + f[n + 1]
  BY <1>3, TotalNext
<1>7. Total([k \in 1 .. n |-> f[k]]) \in Nat
  <2>1. \A k \in 1 .. n : f[k] \in Nat
    BY <1>3
  <2> QED BY <2>1, TotalIsNat
<1>8. Total([k \in 1 .. 0 |-> f[k]]) = 0
  BY TotalOfNone
<1>9. 0 \in 0 .. n + 1 /\ n \in 0 .. n + 1 /\ n + 1 \in 0 .. n + 1
  OBVIOUS
<1>10. /\ ClimbedTo(path, first, first) = Total([k \in 1 .. 0 |-> f[k]])
       /\ ClimbedTo(path, first, last) = Total([k \in 1 .. n |-> f[k]])
       /\ ClimbedTo(path, first, last + 1) = Total([k \in 1 .. n + 1 |-> f[k]])
  <2>1. ClimbedTo(path, first, first) = Total([k \in 1 .. 0 |-> f[k]])
    BY <1>2, <1>5, <1>9 DEF ClimbedTo
  <2>2. ClimbedTo(path, first, last) = Total([k \in 1 .. n |-> f[k]])
    BY <1>1, <1>5, <1>9 DEF ClimbedTo
  <2>3. ClimbedTo(path, first, last + 1) = Total([k \in 1 .. n + 1 |-> f[k]])
    BY <1>2, <1>5, <1>9 DEF ClimbedTo
  <2> QED BY <2>1, <2>2, <2>3
<1> QED BY <1>4, <1>6, <1>7, <1>8, <1>10

\* n elements after one of p, and of q
Alike(p, a, q, b, n) == \A k \in 0 .. n : p[a + k] = q[b + k]

\* Paths that agree there climb over the same length.
LEMMA ClimbedAlike ==
  ASSUME NEW p, NEW q, NEW a \in Nat, NEW b \in Nat, NEW n \in Nat,
         Alike(p, a, q, b, n),
         NEW c, c = a + n, NEW d, d = b + n
  PROVE  ClimbedTo(p, a, c) = ClimbedTo(q, b, d)
<1>1. (a + n) - a = n /\ (b + n) - b = n
  OBVIOUS
<1>2. ASSUME NEW k \in 1 .. n
      PROVE  p[a + k - 1] = q[b + k - 1] /\ p[a + k] = q[b + k]
  <2>1. k \in 0 .. n
    OBVIOUS
  <2>2. PICK m \in 0 .. n : m = k - 1
    OBVIOUS
  <2>3. a + k - 1 = a + m /\ b + k - 1 = b + m
    BY <2>2
  <2> QED BY <2>1, <2>2, <2>3 DEF Alike
<1>3. [k \in 1 .. n |-> Preceding(p[a + k - 1].node, p[a + k].offset)]
      = [k \in 1 .. n |-> Preceding(q[b + k - 1].node, q[b + k].offset)]
  BY <1>2
<1>4. ClimbedTo(p, a, a + n) = ClimbedTo(q, b, b + n)
  BY <1>1, <1>3 DEF ClimbedTo
<1> QED BY <1>4

\* A climb is one to the middle and one from there.
LEMMA ClimbedJoined ==
  ASSUME NEW path, NEW first \in Nat, NEW mid \in Nat, NEW last \in Nat,
         first <= mid, mid <= last, Adds(path, first, last)
  PROVE  /\ ClimbedTo(path, first, last)
            = ClimbedTo(path, first, mid) + ClimbedTo(path, mid, last)
         /\ ClimbedTo(path, first, mid) \in Nat /\ ClimbedTo(path, mid, last) \in Nat
<1>1. PICK n \in Nat : mid + n = last
  <2>1. last - mid \in Nat /\ mid + (last - mid) = last
    OBVIOUS
  <2> QED BY <2>1
<1> DEFINE Joined(k) == /\ ClimbedTo(path, first, mid + k)
                           = ClimbedTo(path, first, mid) + ClimbedTo(path, mid, mid + k)
                        /\ ClimbedTo(path, mid, mid + k) \in Nat
           T == {k \in Nat : k <= n => Joined(k)}
<1>2. ClimbedTo(path, first, mid) \in Nat
  <2>1. CASE first = mid
    <3>1. first - first = 0
      OBVIOUS
    <3>2. ClimbedTo(path, first, first) = 0
      BY <3>1, TotalOfNone DEF ClimbedTo
    <3> QED BY <2>1, <3>2
  <2>2. CASE first # mid
    <3>1. PICK l \in Nat : l + 1 = mid /\ first <= l
      BY <2>2
    <3>2. Adds(path, first, l + 1)
      BY <3>1 DEF Adds
    <3>3. Preceding(path[l].node, path[l + 1].offset) \in Nat
      BY <3>1, <3>2 DEF Adds
    <3>4. ClimbedTo(path, first, l) \in Nat
      BY <3>1, <3>2, ClimbedNext
    <3>5. ClimbedTo(path, first, l + 1)
          = ClimbedTo(path, first, l) + Preceding(path[l].node, path[l + 1].offset)
      BY <3>1, <3>2, ClimbedNext
    <3> QED BY <3>1, <3>3, <3>4, <3>5
  <2> QED BY <2>1, <2>2
<1>3. 0 \in T
  <2>1. mid + 0 = mid /\ mid - mid = 0
    OBVIOUS
  <2>2. ClimbedTo(path, mid, mid) = 0
    BY <2>1, TotalOfNone DEF ClimbedTo
  <2> QED BY <1>2, <2>1, <2>2
<1>4. ASSUME NEW k \in Nat, k \in T PROVE k + 1 \in T
  <2>1. SUFFICES ASSUME k + 1 <= n PROVE Joined(k + 1)
    OBVIOUS
  <2>2. Joined(k)
    BY <1>4, <2>1
  <2>3. PICK l \in Nat : l = mid + k /\ mid <= l /\ first <= l /\ mid + (k + 1) = l + 1
    OBVIOUS
  <2>4. Adds(path, first, l + 1) /\ Adds(path, mid, l + 1)
    BY <1>1, <2>1, <2>3 DEF Adds
  <2>5. PICK x : x = Preceding(path[l].node, path[l + 1].offset)
    OBVIOUS
  <2>6. x \in Nat
    BY <2>3, <2>4, <2>5 DEF Adds
  <2>7. ClimbedTo(path, first, l + 1) = ClimbedTo(path, first, l) + x
    BY <2>3, <2>4, <2>5, ClimbedNext
  <2>8. ClimbedTo(path, mid, l + 1) = ClimbedTo(path, mid, l) + x
    BY <2>3, <2>4, <2>5, ClimbedNext
  <2> QED BY <1>2, <2>2, <2>3, <2>6, <2>7, <2>8
<1>5. Nat \subseteq T
  <2> HIDE DEF T
  <2> QED BY <1>3, <1>4, Induction
<1>6. Joined(n)
  BY <1>5
<1> QED BY <1>1, <1>2, <1>6

\* Every step of a way adds a number to the offset.
LEMMA WayAdds ==
  ASSUME tree \in DOMAIN Trees, NEW path, Way(path)
  PROVE  /\ Adds(path, 1, Len(path))
         /\ \A first : Climbed(path, first) = ClimbedTo(path, first, Len(path))
<1>1. /\ path \in Seq(Elements) /\ Len(path) \in Nat \ {0}
      /\ \A i \in 2 .. Len(path) : Linked(path[i - 1].node, path[i])
  BY EmptySeq, LenProperties DEF Way, Check
<1>2. ASSUME NEW i \in 1 .. Len(path) - 1
      PROVE  Preceding(path[i].node, path[i + 1].offset) \in Nat
  <2>1. i \in 1 .. Len(path) /\ i + 1 \in 2 .. Len(path) /\ (i + 1) - 1 = i
    BY <1>1
  <2>2. path[i].node \in Nodes
    <3>1. path[i] \in Elements
      BY <1>1, <2>1, ElementOfSeq
    <3> QED BY <3>1 DEF Elements
  <2>3. Linked(path[i].node, path[i + 1])
    BY <1>1, <2>1
  <2> QED BY <2>2, <2>3, PrecedingNext DEF Linked
<1>3. \A first : Climbed(path, first) = ClimbedTo(path, first, Len(path))
  BY DEF Climbed, ClimbedTo
<1> QED BY <1>2, <1>3 DEF Adds

\* The nodes at the beginnings of its trail are those of a way.
LEMMA NodesAlong ==
  ASSUME tree \in DOMAIN Trees, NEW path, Way(path), NEW i \in 1 .. Len(path)
  PROVE  /\ SubSeq(TrailOf(path), 1, i - 1) \in Trails
         /\ At(SubSeq(TrailOf(path), 1, i - 1)) = path[i].node
<1> DEFINE n == Len(path)
           there == TrailOf(path)
<1>1. /\ there \in Seq(Nat) /\ there \in Trails
      /\ Len(there) = n - 1
      /\ \A j \in 1 .. n - 1 : there[j] = path[j + 1].offset
  BY TrailFacts, WayIsTrail
<1>2. /\ path \in Seq(Elements) /\ path # << >>
      /\ path[1] = [node |-> Root, offset |-> 0]
      /\ \A j \in 2 .. n : Linked(path[j - 1].node, path[j])
  BY DEF Way, Check
<1>3. n \in Nat /\ i \in Nat \ {0} /\ i <= n
  BY <1>2, LenProperties
<1> HIDE DEF n, there
<1>4. PICK w : w = SubSeq(path, 1, i)
  OBVIOUS
<1>5. /\ w \in Seq(Elements) /\ Len(w) = i /\ \A j \in 1 .. i : w[j] = path[j]
  <2>1. i \in 0 .. Len(path)
    OBVIOUS
  <2> QED BY <1>2, <1>4, <2>1, Beginning
<1>6. Way(w)
  <2>1. w # << >> /\ w[1] = path[1]
    BY <1>3, <1>5, EmptySeq
  <2>2. ASSUME NEW j \in 2 .. Len(w) PROVE Linked(w[j - 1].node, w[j])
    <3>1. j \in 2 .. n /\ j \in 1 .. i /\ j - 1 \in 1 .. i
      <4>1. j \in 2 .. i
        BY <1>5
      <4> QED BY <1>3, <4>1
    <3> QED BY <1>2, <1>5, <3>1
  <2> QED BY <1>2, <1>5, <2>1, <2>2 DEF Way, Check
<1>7. PICK t : t = SubSeq(there, 1, i - 1)
  OBVIOUS
<1>8. t \in Trails /\ t \in Seq(Nat) /\ Len(t) = i - 1 /\ \A j \in 1 .. i - 1 : t[j] = there[j]
  <2>1. i - 1 \in 0 .. Len(there)
    BY <1>1, <1>3
  <2> QED BY <1>1, <1>7, <2>1, TrailsAreCut, Beginning
<1>9. TrailOf(w) = t
  <2>1. PICK x : x = TrailOf(w)
    OBVIOUS
  <2>2. /\ x \in Seq(Nat) /\ Len(x) = i - 1
        /\ \A j \in 1 .. i - 1 : x[j] = w[j + 1].offset
    BY <1>5, <1>6, <2>1, TrailFacts
  <2>3. ASSUME NEW j \in 1 .. i - 1 PROVE x[j] = t[j]
    <3>1. j + 1 \in 1 .. i /\ j \in 1 .. n - 1
      BY <1>3
    <3> QED BY <1>1, <1>5, <1>8, <2>2, <3>1
  <2> QED BY <1>8, <2>1, <2>2, <2>3, SeqEqual
<1>10. NodeOf(w) = path[i].node
  <2>1. i \in 1 .. i
    BY <1>3
  <2>2. NodeOf(w) = w[i].node
    BY <1>5 DEF NodeOf, Last
  <2> QED BY <1>5, <2>1, <2>2
<1>11. At(t) = path[i].node
  BY <1>6, <1>9, <1>10, WayEndsAt
<1> QED BY <1>7, <1>8, <1>11 DEF there

\* The text before a place, from the start of one around it.
LEMMA EarlierCounted ==
  ASSUME tree \in DOMAIN Trees, NEW path, Way(path), NEW stop \in 1 .. Len(path),
         NEW f, f = SubSeq(TrailOf(path), 1, stop - 1)
  PROVE  /\ f \in Trails /\ IsPrefix(f, TrailOf(path))
         /\ IsFiniteSet(Earlier(f, TrailOf(path)))
         /\ SumOf(LeafBytes, Earlier(f, TrailOf(path))) = Climbed(path, stop)
<1> DEFINE n == Len(path)
           there == TrailOf(path)
           part(k) == SubSeq(there, 1, (stop - 1) + k)
           Fine(t, k) == /\ IsFiniteSet(Earlier(f, t))
                         /\ SumOf(LeafBytes, Earlier(f, t)) = ClimbedTo(path, stop, stop + k)
           T == {k \in Nat : k <= n - stop => Fine(part(k), k)}
<1>1. /\ n \in Nat \ {0} /\ there \in Trails /\ there \in Seq(Nat)
      /\ Len(there) = n - 1 /\ stop \in Nat \ {0}
      /\ \A i \in 1 .. n - 1 : there[i] = path[i + 1].offset
      /\ path \in Seq(Elements)
      /\ \A i \in 2 .. n : Linked(path[i - 1].node, path[i])
  BY TrailFacts, WayIsTrail, EmptySeq, LenProperties DEF Way, Check
<1>2. Adds(path, 1, n)
  BY WayAdds
<1>3. Climbed(path, stop) = ClimbedTo(path, stop, n)
  BY WayAdds
<1>0. n \in Nat /\ stop \in Nat /\ stop <= n
  BY <1>1
<1> HIDE DEF n, there
<1>4. ASSUME NEW k \in Nat, k <= n - stop
      PROVE  /\ part(k) \in Trails /\ part(k) \in Seq(Nat) /\ Len(part(k)) = (stop - 1) + k
             /\ \A i \in 1 .. (stop - 1) + k : part(k)[i] = there[i]
  <2>1. PICK m \in 0 .. Len(there) : m = (stop - 1) + k
    BY <1>1, <1>4
  <2> QED BY <1>1, <2>1, TrailsAreCut, Beginning
<1>5. /\ f = part(0) /\ f \in Trails /\ f \in Seq(Nat) /\ Len(f) = stop - 1
      /\ \A i \in 1 .. stop - 1 : f[i] = there[i]
  <2>1. f = part(0) /\ 0 \in Nat /\ 0 <= n - stop /\ (stop - 1) + 0 = stop - 1
    BY <1>1 DEF there, n
  <2> HIDE DEF part
  <2> QED BY <1>4, <2>1
<1>6. ASSUME NEW k \in Nat, k <= n - stop PROVE IsPrefix(f, part(k))
  <2>1. PICK t : t = part(k)
    OBVIOUS
  <2>2. t \in Seq(Nat) /\ Len(t) = (stop - 1) + k /\ \A i \in 1 .. (stop - 1) + k : t[i] = there[i]
    BY <1>4, <1>6, <2>1
  <2>3. Len(f) <= Len(t) /\ \A i \in 1 .. Len(f) : f[i] = t[i]
    BY <1>1, <1>5, <2>2
  <2> QED BY <1>5, <2>1, <2>2, <2>3, PrefixElements
<1>7. 0 \in T
  <2>1. ASSUME NEW l \in Earlier(f, f) PROVE FALSE
    <3>1. l \in Leaves /\ IsPrefix(f, l) /\ Before(l, f)
      BY <2>1 DEF Earlier
    <3>2. l \in Seq(Nat)
      BY <3>1, LeavesAre, TrailsAreCut
    <3> QED BY <1>5, <3>1, <3>2, NotBefore
  <2>2. Earlier(f, f) = {}
    BY <2>1
  <2>3. stop + 0 = stop /\ stop - stop = 0
    BY <1>1
  <2>4. ClimbedTo(path, stop, stop) = 0
    BY <2>3, TotalOfNone DEF ClimbedTo
  <2>5. Fine(f, 0)
    BY <2>2, <2>3, <2>4, FS_EmptySet, SumEmpty
  <2> HIDE DEF part
  <2> QED BY <1>5, <2>5
<1>8. ASSUME NEW k \in Nat, k \in T PROVE k + 1 \in T
  <2>1. SUFFICES ASSUME k + 1 <= n - stop PROVE Fine(part(k + 1), k + 1)
    OBVIOUS
  <2>2. PICK t, u : t = part(k) /\ u = part(k + 1)
    OBVIOUS
  <2>3. Fine(t, k)
    BY <1>1, <1>8, <2>1, <2>2
  <2>4. k <= n - stop
    BY <1>1, <2>1
  <2>5. t \in Trails /\ t \in Seq(Nat) /\ IsPrefix(f, t)
    BY <1>4, <1>6, <2>2, <2>4
  <2>6. PICK i \in 1 .. n - 1 : i = stop + k
    BY <1>1, <2>1
  <2>7. u = Append(t, there[i])
    <3>1. PICK m \in Nat : m = (stop - 1) + k
      BY <1>1
    <3>2. m + 1 <= Len(there) /\ m + 1 = i /\ (stop - 1) + (k + 1) = m + 1
      BY <1>1, <2>1, <2>6, <3>1
    <3> QED BY <1>1, <2>2, <3>1, <3>2, NextBeginning
  <2>8. /\ i \in 1 .. n /\ i + 1 \in 2 .. n /\ (i + 1) - 1 = i
        /\ there[i] = path[i + 1].offset
    <3>1. i \in 1 .. n /\ i + 1 \in 2 .. n /\ (i + 1) - 1 = i
      BY <1>0
    <3>2. there[i] = path[i + 1].offset
      BY <1>1
    <3> QED BY <3>1, <3>2
  <2>9. Linked(path[i].node, path[i + 1])
    BY <1>1, <2>8
  <2>10. At(t) = path[i].node
    <3>1. (stop - 1) + k = i - 1 /\ i \in 1 .. Len(path)
      BY <1>0, <2>6, <2>8 DEF n
    <3>2. t = SubSeq(TrailOf(path), 1, i - 1)
      BY <2>2, <3>1 DEF there
    <3> QED BY <3>1, <3>2, NodesAlong
  <2>11. there[i] \in DOMAIN Children(At(t))
    BY <2>8, <2>9, <2>10 DEF Linked
  <2>12. PICK o \in DOMAIN Children(At(t)) : o = there[i]
    BY <2>11
  <2>13. /\ Earlier(f, u) = Earlier(f, t) \cup Parts(t, o)
         /\ Earlier(f, t) \cap Parts(t, o) = {}
    BY <1>5, <2>5, <2>7, <2>12, EarlierGrows
  <2>14. /\ IsFiniteSet(Parts(t, o))
         /\ SumOf(LeafBytes, Parts(t, o)) = Preceding(At(t), o)
    <3>1. \A x \in DOMAIN Children(At(t)) : Counted(Append(t, x))
      BY <2>5, TrailsGoOn, PlacesCounted
    <3>2. o \in 1 .. Len(Children(At(t))) + 1
      <4>1. At(t) \in Nodes
        BY <2>5, TrailsAreCut
      <4>2. DOMAIN Children(At(t)) = 1 .. Len(Children(At(t))) /\ Len(Children(At(t))) \in Nat
        BY <4>1, ChildrenAreNodes, LenProperties
      <4> QED BY <4>2
    <3> QED BY <2>5, <3>1, <3>2, PartsCounted
  <2>15. PICK A, B : A = Earlier(f, t) /\ B = Parts(t, o)
    OBVIOUS
  <2>16. IsFiniteSet(A) /\ IsFiniteSet(B) /\ A \cap B = {} /\ IsFiniteSet(A \cup B)
    BY <2>3, <2>13, <2>14, <2>15, FS_Union
  <2>17. \A l \in A \cup B : LeafBytes[l] \in Nat
    BY <2>15, LeavesAre DEF Earlier, Parts
  <2>18. SumOf(LeafBytes, A \cup B) = SumOf(LeafBytes, A) + SumOf(LeafBytes, B)
    BY <2>16, <2>17, SumJoined
  <2>19. Adds(path, stop, (stop + k) + 1) /\ stop + k \in Nat /\ stop <= stop + k
    BY <1>1, <1>2, <2>1 DEF Adds
  <2>20. ClimbedTo(path, stop, (stop + k) + 1)
         = ClimbedTo(path, stop, stop + k) + Preceding(path[stop + k].node, path[(stop + k) + 1].offset)
    BY <1>1, <2>19, ClimbedNext
  <2>21. Preceding(At(t), o) = Preceding(path[stop + k].node, path[(stop + k) + 1].offset)
    BY <2>6, <2>8, <2>10, <2>12
  <2>22. stop + (k + 1) = (stop + k) + 1
    BY <1>1
  <2>23. SumOf(LeafBytes, A) = ClimbedTo(path, stop, stop + k)
    BY <2>3, <2>15
  <2>24. SumOf(LeafBytes, A \cup B) = ClimbedTo(path, stop, stop + (k + 1))
    BY <2>14, <2>15, <2>18, <2>20, <2>21, <2>22, <2>23
  <2>25. Earlier(f, u) = A \cup B
    BY <2>13, <2>15
  <2> QED BY <2>2, <2>16, <2>24, <2>25
<1>9. Nat \subseteq T
  <2> HIDE DEF T
  <2> QED BY <1>7, <1>8, Induction
<1>10. PICK k \in Nat : k = n - stop
  BY <1>0
<1>11. (stop - 1) + k = Len(there) /\ stop + k = n /\ SubSeq(there, 1, Len(there)) = there
  BY <1>1, <1>10, SubSeqFull
<1>12. part(k) = there
  BY <1>11
<1>13. k <= n - stop /\ k \in T
  BY <1>1, <1>9, <1>10
<1>14. Fine(part(k), k) /\ IsPrefix(f, part(k))
  BY <1>6, <1>13
<1> HIDE DEF part
<1> QED BY <1>3, <1>5, <1>11, <1>12, <1>14 DEF there
=============================================================================
