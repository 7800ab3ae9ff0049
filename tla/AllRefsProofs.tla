--------------------------- MODULE AllRefsProofs ---------------------------
(***************************************************************************)
(* Proofs about AllRefs, for every forest of trees, every number of        *)
(* matches and every climb from them.  The inductive invariant (Inv) says  *)
(* that the frames of the iterators are on the way to the node they look   *)
(* at (IteratorRight), that the scout of a search stands at the trail of   *)
(* its cursor (CursorRight), with the kinds of node that each stage of     *)
(* the walk can be at (SearchRight: the root is none of them), and that    *)
(* the references are at their trails (RefsRight).  From it follow TypeOK, *)
(* TrailsRight and the checks of AlwaysLinked.                             *)
(*                                                                         *)
(* That the positions are right rests on the sums of PositionsProofs:      *)
(* make_position climbs over the text between the start of the file and    *)
(* its place (PositionsRight).  That a search stays in its folder needs a  *)
(* second invariant about how far out each stage can be (InFolder,         *)
(* Bounded), and gives LimitHonoured.  That it leaves no gap needs a third *)
(* one about what each stage has passed (Covers), and gives ScopeCovered.  *)
(* Covers also says that between a type and the cursor are only types and  *)
(* their bodies (Within), so that a panic of the walk is one of Stops.     *)
(***************************************************************************)
EXTENDS AllRefs, PositionsProofs
-----------------------------------------------------------------------------
(* find_all's walk down to a match, and relax_to_type's up from it.        *)

\* the function that Reached defines
Goings(gone, place, there, a, b) ==
  gone = [n \in a .. b |->
            IF n = a THEN place ELSE GotoChild(store, gone[n - 1], there[n])]

\* The walk exists as a function of how far it went.
LEMMA GoingsExist ==
  ASSUME NEW place, NEW there, NEW a \in Nat, NEW b \in Nat, a <= b
  PROVE  \E gone : Goings(gone, place, there, a, b)
<1> DEFINE T == {k \in Nat : \E gone : Goings(gone, place, there, a, a + k)}
<1>1. 0 \in T
  <2>1. a .. a + 0 = {a}
    OBVIOUS
  <2>2. Goings([n \in a .. a + 0 |-> place], place, there, a, a + 0)
    BY <2>1 DEF Goings
  <2> QED BY <2>2
<1>2. ASSUME NEW k \in Nat, k \in T PROVE k + 1 \in T
  <2>1. PICK gone : Goings(gone, place, there, a, a + k)
    BY <1>2
  <2> DEFINE next == [n \in a .. a + (k + 1) |->
                        IF n <= a + k THEN gone[n]
                        ELSE GotoChild(store, gone[n - 1], there[n])]
  <2>2. ASSUME NEW n \in a .. a + (k + 1)
        PROVE  next[n] = IF n = a THEN place ELSE GotoChild(store, next[n - 1], there[n])
    <3>1. CASE n = a
      <4>1. a \in a .. a + k /\ a <= a + k
        OBVIOUS
      <4>2. gone[a] = place
        BY <2>1, <4>1, Zenon DEF Goings
      <4> QED BY <3>1, <4>1, <4>2
    <3>2. CASE n # a
      <4>1. n - 1 \in a .. a + k /\ n - 1 \in a .. a + (k + 1) /\ n - 1 <= a + k
        BY <3>2
      <4>2. next[n - 1] = gone[n - 1]
        BY <4>1
      <4>3. n <= a + k => n \in a .. a + k
        OBVIOUS
      <4>4. n <= a + k => gone[n] = GotoChild(store, gone[n - 1], there[n])
        BY <2>1, <3>2, <4>3, Zenon DEF Goings
      <4> QED BY <3>2, <4>2, <4>4
    <3> QED BY <3>1, <3>2
  <2>3. next = [n \in a .. a + (k + 1) |-> next[n]]
    OBVIOUS
  <2> HIDE DEF next
  <2>4. Goings(next, place, there, a, a + (k + 1))
    BY <2>2, <2>3 DEF Goings
  <2> QED BY <2>4
<1>3. Nat \subseteq T
  <2> HIDE DEF T
  <2> QED BY <1>1, <1>2, Induction
<1>4. b - a \in Nat /\ a + (b - a) = b
  OBVIOUS
<1> QED BY <1>3, <1>4

\* Going down along a trail leads to the place the trail names.
LEMMA ReachedStands ==
  ASSUME tree \in DOMAIN Trees, NEW place, NEW trail, StandsAt(store, place, trail),
         NEW there \in Trails, IsPrefix(trail, there)
  PROVE  StandsAt(store, Reached(place, trail, there), there)
<1> DEFINE a == Len(trail)
           b == Len(there)
           gone == CHOOSE g : Goings(g, place, there, a, b)
           way == WayTo(store, place)
<1>1. there \in Seq(Nat) /\ trail \in Seq(Nat)
  <2>1. Root \in Nodes
    BY ChildrenAreNodes
  <2>2. there \in Seq(Nat)
    BY <2>1, TrailsAreThose, TrailsBelowAreTrails
  <2> QED BY <2>2, StandsAtTrail
<1>2. a \in Nat /\ b \in Nat /\ a <= b
  BY <1>1, LenProperties DEF IsPrefix
<1>3. Goings(gone, place, there, a, b)
  BY <1>2, GoingsExist
<1>4. Reached(place, trail, there) = gone[b]
  BY DEF Reached, Goings
<1>5. Way(way) /\ NodeOf(way) = NodeAlways(store, place) /\ TrailOf(way) = trail
  BY WayToIsWay DEF StandsAt
<1>6. Leads(NodeAlways(store, place), trail, there)
  <2> HIDE DEF way
  <2> QED BY <1>5, WayLeads
<1> HIDE DEF gone, a, b, way
<1>7. gone[a] = place
  <2>1. a \in a .. b
    BY <1>2
  <2> QED BY <1>3, <2>1, Zenon DEF Goings
<1>8. ASSUME NEW n \in a + 1 .. b
      PROVE  gone[n] = GotoChild(store, gone[n - 1], there[n])
  <2>1. n \in a .. b /\ n # a
    BY <1>2
  <2> QED BY <1>3, <2>1, Zenon DEF Goings
<1> DEFINE Right(n, t) == /\ StandsAt(store, gone[n], t) /\ Len(t) = n
                          /\ Leads(NodeAlways(store, gone[n]), t, there)
           T == {k \in Nat : a + k <= b => \E t : Right(a + k, t)}
<1>9. 0 \in T
  <2>1. Right(a + 0, trail)
    BY <1>2, <1>6, <1>7 DEF a
  <2> QED BY <2>1
<1>10. ASSUME NEW k \in Nat, k \in T PROVE k + 1 \in T
  <2>1. SUFFICES ASSUME a + (k + 1) <= b PROVE \E t : Right(a + (k + 1), t)
    OBVIOUS
  <2>2. PICK n \in a .. b : n = a + k
    BY <1>2, <2>1
  <2>3. n + 1 = a + (k + 1) /\ n + 1 \in a + 1 .. b /\ (n + 1) - 1 = n /\ n < b /\ n \in Nat
    BY <1>2, <2>1, <2>2
  <2>4. PICK t : Right(n, t)
    BY <1>2, <1>10, <2>1, <2>2
  <2>5. t \in Seq(Nat) /\ NodeAlways(store, gone[n]) \in Nodes /\ Len(t) = n
    BY <2>4, StandsAtTrail
  <2> DEFINE o == there[n + 1]
  <2>6. /\ o \in DOMAIN Children(NodeAlways(store, gone[n]))
        /\ Leads(Children(NodeAlways(store, gone[n]))[o], Append(t, o), there)
    BY <2>3, <2>4, <2>5, LeadsOn DEF b
  <2>7. gone[n + 1] = GotoChild(store, gone[n], o)
    BY <1>8, <2>3
  <2>8. o \in Nat
    BY <2>5, <2>6, ChildrenAreNodes
  <2> HIDE DEF o
  <2>9. /\ StandsAt(store, gone[n + 1], Append(t, o))
        /\ NodeAlways(store, gone[n + 1]) = Children(NodeAlways(store, gone[n]))[o]
    BY <2>4, <2>6, <2>7, GotoStands
  <2>10. Len(Append(t, o)) = n + 1
    BY <2>5, <2>8, AppendProperties
  <2>11. Right(n + 1, Append(t, o))
    BY <2>6, <2>9, <2>10
  <2> QED BY <2>3, <2>11
<1>11. Nat \subseteq T
  <2> HIDE DEF T
  <2> QED BY <1>9, <1>10, Induction
<1>12. PICK t : Right(b, t)
  <2>1. b - a \in Nat /\ a + (b - a) = b
    BY <1>2
  <2> QED BY <1>2, <1>11, <2>1
<1>13. t = there
  <2>1. t \in Seq(Nat) /\ NodeAlways(store, gone[b]) \in Nodes
    BY <1>12, StandsAtTrail
  <2> QED BY <1>12, <2>1, LeadsTo DEF b
<1> QED BY <1>4, <1>12, <1>13

\* the function that Stepped defines
Climbs(up, scout, st, m) ==
  up = [n \in 0 .. m |-> IF n = 0 THEN scout ELSE Up(st, up[n - 1])]

\* So does the climb, as a function of the steps it took.
LEMMA ClimbsExist ==
  ASSUME NEW scout, NEW st, NEW m \in Nat
  PROVE  \E up : Climbs(up, scout, st, m)
<1> DEFINE T == {k \in Nat : \E up : Climbs(up, scout, st, k)}
<1>1. 0 \in T
  <2>1. 0 .. 0 = {0}
    OBVIOUS
  <2>2. Climbs([n \in 0 .. 0 |-> scout], scout, st, 0)
    BY <2>1 DEF Climbs
  <2> QED BY <2>2
<1>2. ASSUME NEW k \in Nat, k \in T PROVE k + 1 \in T
  <2>1. PICK up : Climbs(up, scout, st, k)
    BY <1>2
  <2> DEFINE next == [n \in 0 .. k + 1 |-> IF n <= k THEN up[n] ELSE Up(st, up[n - 1])]
  <2>2. ASSUME NEW n \in 0 .. k + 1
        PROVE  next[n] = IF n = 0 THEN scout ELSE Up(st, next[n - 1])
    <3>1. CASE n = 0
      <4>1. 0 \in 0 .. k /\ 0 <= k
        OBVIOUS
      <4>2. up[0] = scout
        BY <2>1, <4>1, Zenon DEF Climbs
      <4> QED BY <3>1, <4>1, <4>2
    <3>2. CASE n # 0
      <4>1. n - 1 \in 0 .. k /\ n - 1 \in 0 .. k + 1 /\ n - 1 <= k
        BY <3>2
      <4>2. next[n - 1] = up[n - 1]
        BY <4>1
      <4>3. n <= k => n \in 0 .. k
        OBVIOUS
      <4>4. n <= k => up[n] = Up(st, up[n - 1])
        BY <2>1, <3>2, <4>3, Zenon DEF Climbs
      <4> QED BY <3>2, <4>2, <4>4
    <3> QED BY <3>1, <3>2
  <2>3. next = [n \in 0 .. k + 1 |-> next[n]]
    OBVIOUS
  <2> HIDE DEF next
  <2>4. Climbs(next, scout, st, k + 1)
    BY <2>2, <2>3 DEF Climbs
  <2> QED BY <2>4
<1>3. Nat \subseteq T
  <2> HIDE DEF T
  <2> QED BY <1>1, <1>2, Induction
<1> QED BY <1>3

\* Each step of the climb takes the last offset off the trail; the scout of a
\* handle stays one.
LEMMA SteppedStands ==
  ASSUME tree \in DOMAIN Trees, NEW st, NEW scout, NEW there,
         StandsAt(st, scout, there), scout.path = << >>,
         NEW ups \in Nat, ups < Len(there)
  PROVE  /\ StandsAt(st, Stepped(scout, ups, st), SubSeq(there, 1, Len(there) - ups))
         /\ Stepped(scout, ups, st).path = << >>
<1> DEFINE up == CHOOSE u : Climbs(u, scout, st, ups)
           b == Len(there)
<1>1. there \in Seq(Nat) /\ b \in Nat /\ ups < b
  BY StandsAtTrail, LenProperties
<1>2. Climbs(up, scout, st, ups)
  BY ClimbsExist
<1>3. Stepped(scout, ups, st) = up[ups]
  BY DEF Stepped, Climbs
<1> HIDE DEF up
<1>4. up[0] = scout
  <2>1. 0 \in 0 .. ups
    OBVIOUS
  <2> QED BY <1>2, <2>1, Zenon DEF Climbs
<1>5. ASSUME NEW n \in 0 .. ups, n # 0
      PROVE  up[n] = Up(st, up[n - 1])
  BY <1>2, <1>5, Zenon DEF Climbs
<1> DEFINE Right(n) == /\ StandsAt(st, up[n], SubSeq(there, 1, b - n))
                       /\ up[n].path = << >>
           T == {k \in Nat : k <= ups => Right(k)}
<1>6. 0 \in T
  <2>1. SubSeq(there, 1, b - 0) = there
    BY <1>1, SubSeqFull
  <2> QED BY <1>4, <2>1
<1>7. ASSUME NEW k \in Nat, k \in T PROVE k + 1 \in T
  <2>1. SUFFICES ASSUME k + 1 <= ups PROVE Right(k + 1)
    OBVIOUS
  <2>2. Right(k)
    BY <1>7, <2>1
  <2> DEFINE m == b - (k + 1)
  <2>3. m \in Nat /\ m + 1 = b - k /\ m = b - (k + 1) /\ b = Len(there)
    BY <1>1, <2>1
  <2> HIDE DEF m, b
  <2>4. m + 1 <= Len(there) /\ m + 1 \in 0 .. Len(there) /\ m \in 0 .. Len(there)
    BY <1>1, <2>3
  <2>5. SubSeq(there, 1, m + 1) = Append(SubSeq(there, 1, m), there[m + 1])
    BY <1>1, <2>4, NextBeginning
  <2>6. /\ SubSeq(there, 1, m) \in Seq(Nat) /\ SubSeq(there, 1, m + 1) \in Seq(Nat)
        /\ Len(SubSeq(there, 1, m + 1)) = m + 1
    BY <1>1, <2>4, Beginning
  <2>7. there[m + 1] \in Nat
    <3>1. m + 1 \in 1 .. Len(there)
      BY <2>4
    <3> QED BY <1>1, <3>1, ElementOfSeq
  <2>8. Front(SubSeq(there, 1, m + 1)) = SubSeq(there, 1, m)
    <3>1. PICK x \in Seq(Nat) : x = SubSeq(there, 1, m)
      BY <2>6
    <3>2. PICK o \in Nat : o = there[m + 1]
      BY <2>7
    <3>3. Front(Append(x, o)) = x
      BY ONLY x \in Seq(Nat), o \in Nat, FrontOfAppend
    <3> QED BY <2>5, <3>1, <3>2, <3>3
  <2>9. SubSeq(there, 1, m + 1) # << >>
    <3> DEFINE x == SubSeq(there, 1, m + 1)
    <3>1. x \in Seq(Nat) /\ Len(x) = m + 1
      BY <2>6
    <3> HIDE DEF x
    <3>2. x # << >>
      BY <2>3, <3>1, EmptySeq
    <3> QED BY <3>2 DEF x
  <2>10. StandsAt(st, up[k], SubSeq(there, 1, m + 1)) /\ up[k].path = << >>
    BY <2>2, <2>3
  <2>11. HasParents(up[k])
    BY <2>9, <2>10, StandsAtTrail
  <2>12. /\ StandsAt(st, Up(st, up[k]), SubSeq(there, 1, m))
         /\ Up(st, up[k]).path = << >>
    <3> DEFINE at == up[k]
               trail == SubSeq(there, 1, m + 1)
    <3> HIDE DEF at, trail
    <3>1. StandsAt(st, at, trail) /\ HasParents(at) /\ at.path = << >>
      BY <2>10, <2>11 DEF at, trail
    <3>2. StandsAt(st, Up(st, at), Front(trail)) /\ Up(st, at).path = << >>
      BY <3>1, UpStands
    <3> QED BY <2>8, <3>2 DEF at, trail
  <2>13. up[k + 1] = Up(st, up[k])
    <3>1. k + 1 \in 0 .. ups /\ k + 1 # 0 /\ (k + 1) - 1 = k
      BY <2>1
    <3> QED BY <1>5, <3>1
  <2> QED BY <2>3, <2>12, <2>13
<1>8. Nat \subseteq T
  <2> HIDE DEF T
  <2> QED BY <1>6, <1>7, Induction
<1> QED BY <1>3, <1>8
-----------------------------------------------------------------------------
(* The file of a place, and its position.                                  *)

Outer == DirKinds \cup FileKinds

\* directories, to a file and what is in it
InDirectories(path) == \A i \in 1 .. Len(path) : Kind(path[i].node) \in DirKinds
FileIn(path, p) ==
  /\ Kind(path[p].node) = "Program"
  /\ \A i \in 1 .. p - 1 : Kind(path[i].node) \in DirKinds
  /\ \A i \in p + 1 .. Len(path) : Kind(path[i].node) \notin Outer

\* Below a directory are directories and files, below nothing else.
LEMMA LayersDown ==
  ASSUME tree \in DOMAIN Trees, NEW n \in Nodes, NEW e, Linked(n, e)
  PROVE  /\ Kind(e.node) \in Outer <=> Kind(n) \in DirKinds
         /\ Kind(n) # "xml_SourceFile"
<1>1. e.offset \in DOMAIN Children(n) /\ Children(n)[e.offset] = e.node
  BY DEF Linked
<1>2. n \in DOMAIN Trees[tree]
  BY DEF Nodes
<1>3. /\ Trees[tree][Trees[tree][n].children[e.offset]].kind \in DirKinds \cup FileKinds
         <=> Trees[tree][n].kind \in DirKinds
      /\ Trees[tree][n].kind = "xml_SourceFile" => Trees[tree][n].children = << >>
  BY <1>1, <1>2, LayersAssumption DEF Children
<1>4. Children(n) # << >>
  BY <1>1
<1> QED BY <1>1, <1>3, <1>4 DEF Kind, Children, Outer

\* A way is in directories all along, or passes one file.
LEMMA LayersOfWay ==
  ASSUME tree \in DOMAIN Trees, NEW path, Way(path), Kind(NodeOf(path)) # "xml_SourceFile"
  PROVE  InDirectories(path) \/ \E p \in 1 .. Len(path) : FileIn(path, p)
<1> DEFINE n == Len(path)
           kind(i) == Kind(path[i].node)
           Dirs(k) == \A i \in 1 .. k : kind(i) \in DirKinds
           File(k) == \E p \in 1 .. k : /\ kind(p) = "Program"
                                        /\ \A i \in 1 .. p - 1 : kind(i) \in DirKinds
                                        /\ \A i \in p + 1 .. k : kind(i) \notin Outer
           T == {k \in Nat : k + 1 <= n => Dirs(k + 1) \/ File(k + 1)}
<1>1. /\ path \in Seq(Elements) /\ n \in Nat \ {0}
      /\ path[1] = [node |-> Root, offset |-> 0]
      /\ \A i \in 2 .. n : Linked(path[i - 1].node, path[i])
  BY EmptySeq, LenProperties DEF Way, Check
<1>2. \A i \in 1 .. n : path[i].node \in Nodes
  <2>1. \A i \in 1 .. n : path[i] \in Elements
    BY <1>1, ElementOfSeq
  <2> QED BY <2>1 DEF Elements
<1>3. kind(n) # "xml_SourceFile"
  BY DEF NodeOf, Last
<1>4. ASSUME NEW i \in 1 .. n, i + 1 <= n
      PROVE  (kind(i + 1) \in Outer <=> kind(i) \in DirKinds) /\ kind(i) # "xml_SourceFile"
  <2>1. i + 1 \in 2 .. n /\ (i + 1) - 1 = i
    BY <1>1, <1>4
  <2>2. Linked(path[i].node, path[i + 1])
    BY <1>1, <2>1
  <2> QED BY <1>2, <2>2, LayersDown
<1>5. "Program" \notin DirKinds /\ Outer = DirKinds \cup {"Program", "xml_SourceFile"}
  BY DEF DirKinds, Outer, FileKinds
<1>6. kind(1) \in DirKinds
  BY <1>1, KindsAssumption DEF Kind, Root
<1> HIDE DEF n, kind
<1>7. 0 \in T
  <2>1. \A i \in 1 .. 0 + 1 : i = 1
    OBVIOUS
  <2> QED BY <1>6, <2>1
<1>8. ASSUME NEW k \in Nat, k \in T PROVE k + 1 \in T
  <2>1. SUFFICES ASSUME (k + 1) + 1 <= n PROVE Dirs((k + 1) + 1) \/ File((k + 1) + 1)
    OBVIOUS
  <2>2. PICK m \in 1 .. n : m = k + 1 /\ m + 1 <= n
    BY <1>1, <2>1
  <2>3. Dirs(m) \/ File(m)
    BY <1>1, <1>8, <2>2
  <2>4. CASE Dirs(m)
    <3>1. kind(m + 1) \in Outer
      BY <1>4, <2>2, <2>4
    <3>2. kind(m + 1) # "xml_SourceFile"
      <4>1. CASE m + 1 = n
        BY <1>3, <4>1
      <4>2. CASE m + 1 # n
        <5>1. m + 1 \in 1 .. n /\ (m + 1) + 1 <= n
          BY <1>1, <2>2, <4>2
        <5> QED BY <1>4, <5>1
      <4> QED BY <4>1, <4>2
    <3>3. \A i \in 1 .. m + 1 : i \in 1 .. m \/ i = m + 1
      BY <1>1
    <3>4. CASE kind(m + 1) \in DirKinds
      BY <2>2, <2>4, <3>3, <3>4
    <3>5. CASE kind(m + 1) = "Program"
      <4>1. m + 1 \in 1 .. m + 1 /\ (m + 1) - 1 = m /\ \A i \in (m + 1) + 1 .. m + 1 : FALSE
        BY <1>1
      <4>2. File(m + 1)
        BY <2>4, <3>5, <4>1
      <4> QED BY <2>2, <4>2
    <3> QED BY <1>5, <3>1, <3>2, <3>4, <3>5
  <2>5. CASE File(m)
    <3>1. PICK p \in 1 .. m : /\ kind(p) = "Program"
                              /\ \A i \in 1 .. p - 1 : kind(i) \in DirKinds
                              /\ \A i \in p + 1 .. m : kind(i) \notin Outer
      BY <2>5
    <3>2. kind(m) \notin DirKinds
      <4>1. CASE m = p
        BY <1>5, <3>1, <4>1
      <4>2. CASE m # p
        <5>1. m \in p + 1 .. m
          BY <3>1, <4>2
        <5> QED BY <1>5, <3>1, <5>1
      <4> QED BY <4>1, <4>2
    <3>3. kind(m + 1) \notin Outer
      BY <1>4, <2>2, <3>2
    <3>4. p \in 1 .. m + 1 /\ \A i \in p + 1 .. m + 1 : i \in p + 1 .. m \/ i = m + 1
      BY <1>1, <3>1
    <3>5. File(m + 1)
      BY <3>1, <3>3, <3>4
    <3> QED BY <2>2, <3>5
  <2> QED BY <2>3, <2>4, <2>5
<1>9. Nat \subseteq T
  <2> HIDE DEF T
  <2> QED BY <1>7, <1>8, Induction
<1>10. PICK k \in Nat : k + 1 = n
  BY <1>1
<1>11. Dirs(n) \/ File(n)
  BY <1>9, <1>10
<1> QED BY <1>11 DEF InDirectories, FileIn, n, kind

\* So a way out of the files has no program, and any other one.
LEMMA ProgramsOfWay ==
  ASSUME tree \in DOMAIN Trees, NEW path, Way(path)
  PROVE  /\ InDirectories(path) => Programs(path) = {}
         /\ \A p \in 1 .. Len(path) : FileIn(path, p) => Programs(path) = {p}
<1>1. path \in Seq(Elements) /\ DOMAIN path = 1 .. Len(path) /\ Len(path) \in Nat
  BY LenProperties DEF Way
<1>2. "Program" \notin DirKinds /\ "Program" \in Outer
  BY DEF DirKinds, Outer, FileKinds
<1>3. InDirectories(path) => Programs(path) = {}
  BY <1>1, <1>2 DEF InDirectories, Programs
<1>4. ASSUME NEW p \in 1 .. Len(path), FileIn(path, p) PROVE Programs(path) = {p}
  <2>1. ASSUME NEW i \in 1 .. Len(path), Kind(path[i].node) = "Program" PROVE i = p
    <3>1. i \in 1 .. p - 1 \/ i = p \/ i \in p + 1 .. Len(path)
      BY <1>1
    <3> QED BY <1>2, <1>4, <2>1, <3>1 DEF FileIn
  <2> QED BY <1>1, <1>4, <2>1 DEF Programs, FileIn
<1> QED BY <1>3, <1>4

\* The places above one that are files.
LEMMA FilesOfWay ==
  ASSUME tree \in DOMAIN Trees, NEW path, Way(path), NEW node, node = NodesAt(Trees[tree])
  PROVE  FilesAround(Trees[tree], node, TrailOf(path))
         = {SubSeq(TrailOf(path), 1, i - 1) : i \in Programs(path)}
<1> DEFINE n == Len(path)
           there == TrailOf(path)
<1>1. /\ path \in Seq(Elements) /\ n \in Nat \ {0} /\ DOMAIN path = 1 .. n
      /\ there \in Seq(Nat) /\ Len(there) = n - 1
  BY EmptySeq, LenProperties, TrailFacts DEF Way
<1>2. \A i \in 1 .. n : At(SubSeq(there, 1, i - 1)) = path[i].node
  BY NodesAlong
<1>3. \A t : At(t) = node[t]
  BY PlacesOfTree
<1> HIDE DEF n, there
<1>4. \A i \in 1 .. n : Trees[tree][node[SubSeq(there, 1, i - 1)]].kind = Kind(path[i].node)
  BY <1>2, <1>3 DEF Kind
<1>5. Above(there) = {SubSeq(there, 1, i - 1) : i \in 1 .. n}
  <2>1. ASSUME NEW j \in 0 .. Len(there) PROVE \E i \in 1 .. n : j = i - 1
    <3>1. j + 1 \in 1 .. n /\ j = (j + 1) - 1
      BY <1>1
    <3> QED BY <3>1
  <2>2. ASSUME NEW i \in 1 .. n PROVE i - 1 \in 0 .. Len(there)
    BY <1>1
  <2> QED BY <2>1, <2>2 DEF Above
<1>6. Programs(path) = {i \in 1 .. n : Kind(path[i].node) = "Program"}
  BY <1>1 DEF Programs
<1>7. ASSUME NEW t
      PROVE  t \in FilesAround(Trees[tree], node, there)
             <=> \E i \in Programs(path) : t = SubSeq(there, 1, i - 1)
  <2>1. t \in Above(there) <=> \E i \in 1 .. n : t = SubSeq(there, 1, i - 1)
    BY <1>5
  <2>2. t \in FilesAround(Trees[tree], node, there)
        <=> t \in Above(there) /\ Trees[tree][node[t]].kind = "Program"
    BY DEF FilesAround
  <2> QED BY <1>4, <1>6, <2>1, <2>2
<1>8. FilesAround(Trees[tree], node, there) = {SubSeq(there, 1, i - 1) : i \in Programs(path)}
  BY <1>7
<1> QED BY <1>8 DEF there

\* The length of the text of a place.
LEMMA TextBelow ==
  ASSUME tree \in DOMAIN Trees, NEW t \in Trails, NEW node, node = NodesAt(Trees[tree])
  PROVE  Text(Trees[tree], node, Covered(t)) = BytesLen[At(t)]
<1>1. IsFiniteSet(Covered(t)) /\ SumOf(LeafBytes, Covered(t)) = BytesLen[At(t)]
  BY PlacesCounted DEF Counted
<1>2. \A l \in Covered(t) : LeafBytes[l] = Trees[tree][node[l]].bytes
  BY PlacesOfTree DEF Covered, LeafBytes
<1> QED BY <1>1, <1>2, TextIsSum

\* No place has no text.
LEMMA TextOfNone ==
  ASSUME NEW T, NEW node
  PROVE  Text(T, node, {}) = 0
<1> DEFINE f == [t \in {} |-> 0]
<1>1. IsFiniteSet({}) /\ \A t \in {} : f[t] = T[node[t]].bytes
  BY FS_EmptySet
<1>2. Text(T, node, {}) = SumOf(f, {})
  BY <1>1, TextIsSum
<1> QED BY <1>2, SumEmpty

\* make_position of a whole path: the position of its place in the text.
LEMMA PathRight ==
  ASSUME tree \in DOMAIN Trees, NEW path, Way(path), Kind(NodeOf(path)) # "xml_SourceFile"
  PROVE  PathPosition(path) = PositionAt(TrailOf(path))
<1> DEFINE n == Len(path)
           there == TrailOf(path)
           T == Trees[tree]
<1>1. PICK node : node = NodesAt(Trees[tree])
  OBVIOUS
<1>2. /\ path \in Seq(Elements) /\ n \in Nat \ {0} /\ DOMAIN path = 1 .. n
      /\ there \in Seq(Nat) /\ Len(there) = n - 1 /\ there \in Trails
      /\ Check(path) /\ NodeOf(path) = path[n].node
  BY EmptySeq, LenProperties, TrailFacts, WayIsTrail DEF Way, NodeOf, Last
<1>3. /\ \A t : At(t) = node[t]
      /\ PositionAt(there) = IF FilesAround(T, node, there) = {}
                             THEN PositionIn(T, node, {}, there, there)
                             ELSE PositionIn(T, node, Leaves, there,
                                             CHOOSE f \in FilesAround(T, node, there) : TRUE)
  BY <1>1, <1>2, PlacesOfTree
<1>4. /\ \A i \in 1 .. n : At(SubSeq(there, 1, i - 1)) = path[i].node
      /\ At(there) = NodeOf(path)
  BY NodesAlong, WayEndsAt
<1>5. FilesAround(T, node, there) = {SubSeq(there, 1, i - 1) : i \in Programs(path)}
  BY <1>1, FilesOfWay
<1>6. \A i \in 1 .. n : T[node[SubSeq(there, 1, i - 1)]].label = Label(path[i].node)
  BY <1>3, <1>4 DEF Label
<1> HIDE DEF n, there
\* the names of the file
<1>7. ASSUME NEW p \in 1 .. n, NEW f, f = SubSeq(there, 1, p - 1)
      PROVE  [i \in 1 .. Len(f) + 1 |-> T[node[SubSeq(f, 1, i - 1)]].label]
             = Labels(SubSeq(path, 1, p))
  <2>1. /\ f \in Seq(Nat) /\ Len(f) = p - 1 /\ \A i \in 1 .. p - 1 : f[i] = there[i]
    <3>1. p - 1 \in 0 .. Len(there)
      BY <1>2
    <3> QED BY <1>2, <1>7, <3>1, Beginning
  <2>2. PICK w : w = SubSeq(path, 1, p)
    OBVIOUS
  <2>3. w \in Seq(Elements) /\ Len(w) = p /\ \A i \in 1 .. p : w[i] = path[i]
    <3>1. p \in 0 .. Len(path)
      BY <1>2 DEF n
    <3> QED BY <1>2, <2>2, <3>1, Beginning
  <2>4. ASSUME NEW i \in 1 .. p PROVE SubSeq(f, 1, i - 1) = SubSeq(there, 1, i - 1)
    <3>1. PICK m \in Nat : m = i - 1 /\ m \in 0 .. Len(f) /\ m \in 0 .. Len(there)
      BY <1>2, <2>1
    <3>2. PICK x, y : x = SubSeq(f, 1, m) /\ y = SubSeq(there, 1, m)
      OBVIOUS
    <3>3. x \in Seq(Nat) /\ Len(x) = m /\ \A j \in 1 .. m : x[j] = f[j]
      BY <2>1, <3>1, <3>2, Beginning
    <3>4. y \in Seq(Nat) /\ Len(y) = m /\ \A j \in 1 .. m : y[j] = there[j]
      BY <1>2, <3>1, <3>2, Beginning
    <3>5. \A j \in 1 .. m : j \in 1 .. p - 1
      BY <3>1
    <3>6. \A j \in 1 .. m : x[j] = y[j]
      BY <2>1, <3>3, <3>4, <3>5
    <3> QED BY <3>1, <3>2, <3>3, <3>4, <3>6, SeqEqual
  <2>5. \A i \in 1 .. p : i \in 1 .. n
    BY <1>2
  <2>6. \A i \in 1 .. p : T[node[SubSeq(f, 1, i - 1)]].label = Label(w[i].node)
    BY <1>6, <2>3, <2>4, <2>5
  <2>7. Len(f) + 1 = p /\ DOMAIN w = 1 .. p
    BY <2>1, <2>3, LenProperties
  <2> QED BY <2>2, <2>6, <2>7 DEF Labels
<1>8. CASE InDirectories(path)
  <2>1. Programs(path) = {} /\ FilesAround(T, node, there) = {}
    BY <1>5, <1>8, ProgramsOfWay
  <2>2. Kind(NodeOf(path)) \in DirKinds
    <3>1. n \in 1 .. n
      BY <1>2
    <3> QED BY <1>2, <1>8, <3>1 DEF InDirectories, n
  <2>3. PathPosition(path) = [file |-> Labels(SubSeq(path, 1, n)), offset |-> Climbed(path, n), len |-> 0]
    BY <1>2, <2>1, <2>2 DEF PathPosition, InFile, HasLen, LenAt, n
  <2>4. Climbed(path, n) = 0
    <3>1. n - n = 0
      BY <1>2
    <3>2. Climbed(path, n) = ClimbedTo(path, n, n)
      BY WayAdds DEF n
    <3> QED BY <3>1, <3>2, TotalOfNone DEF ClimbedTo
  <2>5. there = SubSeq(there, 1, n - 1) /\ n \in 1 .. n
    BY <1>2, SubSeqFull
  <2>6. [i \in 1 .. Len(there) + 1 |-> T[node[SubSeq(there, 1, i - 1)]].label]
        = Labels(SubSeq(path, 1, n))
    BY <1>7, <2>5
  <2>7. PositionIn(T, node, {}, there, there)
        = [file |-> Labels(SubSeq(path, 1, n)), offset |-> Text(T, node, {}), len |-> Text(T, node, {})]
    <3>1. /\ {l \in {} : IsPrefix(there, l) /\ Before(l, there)} = {}
          /\ {l \in {} : IsPrefix(there, l)} = {}
      OBVIOUS
    <3> QED BY <2>6, <3>1 DEF PositionIn
  <2> QED BY <1>3, <2>1, <2>3, <2>4, <2>7, TextOfNone DEF there
<1>9. ASSUME NEW p \in 1 .. n, FileIn(path, p)
      PROVE  PathPosition(path) = PositionAt(there)
  <2>1. Programs(path) = {p}
    BY <1>9, ProgramsOfWay DEF n
  <2>2. PICK f : f = SubSeq(there, 1, p - 1)
    OBVIOUS
  <2>3. FilesAround(T, node, there) = {f}
    BY <1>5, <2>1, <2>2
  <2>4. (CHOOSE x \in {f} : TRUE) = f /\ (CHOOSE i \in {p} : TRUE) = p
    OBVIOUS
  <2>5. PositionAt(there) = PositionIn(T, node, Leaves, there, f)
    BY <1>3, <2>3, <2>4
  <2>6. Kind(NodeOf(path)) \notin DirKinds
    <3>1. n = p \/ n \in p + 1 .. n
      BY <1>2
    <3>2. "Program" \notin DirKinds
      BY DEF DirKinds
    <3> QED BY <1>2, <1>9, <3>1, <3>2 DEF FileIn, Outer, n
  <2>7. PathPosition(path) = [file |-> Labels(SubSeq(path, 1, p)), offset |-> Climbed(path, p),
                              len |-> BytesLen[NodeOf(path)]]
    BY <1>2, <2>1, <2>4, <2>6 DEF PathPosition, HasLen, LenAt
  <2>8. Text(T, node, Covered(there)) = BytesLen[NodeOf(path)]
    BY <1>1, <1>2, <1>4, TextBelow
  <2>9. Text(T, node, Earlier(f, there)) = Climbed(path, p)
    <3>1. /\ IsFiniteSet(Earlier(f, there))
          /\ SumOf(LeafBytes, Earlier(f, there)) = Climbed(path, p)
      BY <2>2, EarlierCounted DEF n, there
    <3>2. \A l \in Earlier(f, there) : LeafBytes[l] = T[node[l]].bytes
      BY <1>3 DEF Earlier, LeafBytes
    <3> QED BY <3>1, <3>2, TextIsSum
  <2>10. [i \in 1 .. Len(f) + 1 |-> T[node[SubSeq(f, 1, i - 1)]].label] = Labels(SubSeq(path, 1, p))
    BY <1>7, <2>2
  <2> QED BY <2>5, <2>7, <2>8, <2>9, <2>10 DEF PositionIn, Covered, Earlier
<1>10. InDirectories(path) \/ \E p \in 1 .. n : FileIn(path, p)
  BY LayersOfWay DEF n
<1> QED BY <1>8, <1>9, <1>10 DEF there
-----------------------------------------------------------------------------
(* make_position of handles and of scouts: that of their whole path.       *)

Names == {Label(n) : n \in Nodes}

\* There is a label for each element of a path.
LEMMA LabelsAre ==
  ASSUME NEW path \in Seq(Elements)
  PROVE  /\ Labels(path) \in Seq(Names) /\ Len(Labels(path)) = Len(path)
         /\ \A i \in 1 .. Len(path) : Labels(path)[i] = Label(path[i].node)
<1>1. DOMAIN path = 1 .. Len(path) /\ Len(path) \in Nat
  BY LenProperties
<1>2. PICK n \in Nat : n = Len(path)
  BY <1>1
<1>3. Labels(path) = [i \in 1 .. n |-> Label(path[i].node)]
  BY <1>1, <1>2 DEF Labels
<1>4. \A i \in 1 .. n : Label(path[i].node) \in Names
  <2>1. \A i \in 1 .. n : path[i] \in Elements
    BY <1>2, ElementOfSeq
  <2>2. \A i \in 1 .. n : path[i].node \in Nodes
    BY <2>1 DEF Elements
  <2> QED BY <2>2 DEF Names
<1>5. Labels(path) \in Seq(Names)
  BY <1>3, <1>4, IsASeq
<1>6. DOMAIN Labels(path) = 1 .. n
  BY <1>3
<1>7. Len(Labels(path)) = n
  BY <1>5, <1>6, LenProperties
<1> QED BY <1>2, <1>3, <1>5, <1>7

\* The labels of two paths, one after the other.
LEMMA LabelsJoined ==
  ASSUME NEW a \in Seq(Elements), NEW b \in Seq(Elements)
  PROVE  Labels(a \o b) = Labels(a) \o Labels(b)
<1>0. PICK c : c = a \o b
  OBVIOUS
<1>1. /\ c \in Seq(Elements) /\ c = a \o b /\ Len(c) = Len(a) + Len(b)
      /\ \A i \in 1 .. Len(a) + Len(b) : c[i] = IF i <= Len(a) THEN a[i] ELSE b[i - Len(a)]
  BY <1>0, ConcatProperties
<1>2. /\ Labels(a) \in Seq(Names) /\ Len(Labels(a)) = Len(a)
      /\ \A i \in 1 .. Len(a) : Labels(a)[i] = Label(a[i].node)
  BY LabelsAre
<1>3. /\ Labels(b) \in Seq(Names) /\ Len(Labels(b)) = Len(b)
      /\ \A i \in 1 .. Len(b) : Labels(b)[i] = Label(b[i].node)
  BY LabelsAre
<1>4. /\ Labels(c) \in Seq(Names) /\ Len(Labels(c)) = Len(c)
      /\ \A i \in 1 .. Len(c) : Labels(c)[i] = Label(c[i].node)
  BY <1>1, LabelsAre
<1>5. PICK x, y, z : x = Labels(a) /\ y = Labels(b) /\ z = x \o y
  OBVIOUS
<1>6. /\ z \in Seq(Names) /\ Len(z) = Len(x) + Len(y)
      /\ \A i \in 1 .. Len(x) + Len(y) : z[i] = IF i <= Len(x) THEN x[i] ELSE y[i - Len(x)]
  <2>1. x \in Seq(Names) /\ y \in Seq(Names)
    BY <1>2, <1>3, <1>5
  <2> QED BY <1>5, <2>1, ConcatProperties
<1>7. Len(a) \in Nat /\ Len(b) \in Nat
  BY LenProperties
<1>8. ASSUME NEW i \in 1 .. Len(a) + Len(b) PROVE Labels(c)[i] = z[i]
  <2>1. CASE i <= Len(a)
    <3>1. i \in 1 .. Len(a)
      BY <1>7, <2>1
    <3> QED BY <1>1, <1>2, <1>3, <1>4, <1>5, <1>6, <2>1, <3>1
  <2>2. CASE ~(i <= Len(a))
    <3>0. i - Len(a) \in 1 .. Len(b)
      BY <1>7, <2>2
    <3>1. PICK j \in 1 .. Len(b) : j = i - Len(a)
      BY <3>0
    <3>2. c[i] = b[j] /\ z[i] = y[j]
      BY <1>1, <1>2, <1>3, <1>5, <1>6, <2>2, <3>1
    <3> QED BY <1>1, <1>3, <1>4, <1>5, <3>2
  <2> QED BY <2>1, <2>2
<1>9. Labels(c) = z
  <2>1. Len(Labels(c)) = Len(a) + Len(b) /\ Len(z) = Len(a) + Len(b)
    BY <1>1, <1>2, <1>3, <1>4, <1>5, <1>6
  <2> QED BY <1>4, <1>6, <1>8, <2>1, SeqEqual
<1> QED BY <1>1, <1>5, <1>9

\* A file name that starts with no other is its own.
LEMMA NoMoreLabels ==
  ASSUME NEW path \in Seq(Elements)
  PROVE  Labels(path) \o << >> = Labels(path)
BY LabelsAre, ConcatEmptySeq

\* The position of a directory or a file, and of what is in a file.
LEMMA PositionOutside ==
  ASSUME tree \in DOMAIN Trees, NEW path, Way(path), Kind(NodeOf(path)) # "xml_SourceFile",
         ~InFile(NodeOf(path))
  PROVE  PathPosition(path) = [file |-> Labels(path), offset |-> 0, len |-> LenAt(NodeOf(path))]
<1> DEFINE n == Len(path)
<1>1. /\ path \in Seq(Elements) /\ n \in Nat \ {0} /\ Check(path)
      /\ NodeOf(path) = path[n].node
  BY EmptySeq, LenProperties DEF Way, NodeOf, Last
<1>2. "Program" \notin DirKinds /\ "Program" \in Outer
  BY DEF DirKinds, Outer, FileKinds
<1>3. Programs(path) = {} \/ Programs(path) = {n}
  <2>1. CASE InDirectories(path)
    BY <2>1, ProgramsOfWay
  <2>2. ASSUME NEW p \in 1 .. n, FileIn(path, p) PROVE Programs(path) = {n}
    <3>1. Kind(path[n].node) \in DirKinds \cup {"Program"}
      BY <1>1 DEF InFile, HasLen
    <3>2. n \in 1 .. p - 1 \/ n = p \/ n \in p + 1 .. n
      BY <1>1
    <3>3. n = p
      BY <1>1, <1>2, <2>2, <3>1, <3>2 DEF FileIn, Outer
    <3> QED BY <2>2, <3>3, ProgramsOfWay
  <2> QED BY <2>1, <2>2, LayersOfWay
<1>4. (CHOOSE i \in {n} : TRUE) = n
  OBVIOUS
<1>5. SubSeq(path, 1, n) = path
  BY <1>1, SubSeqFull
<1>6. Climbed(path, n) = 0
  <2>1. n - n = 0
    BY <1>1
  <2>2. Climbed(path, n) = ClimbedTo(path, n, n)
    BY WayAdds
  <2> QED BY <2>1, <2>2, TotalOfNone DEF ClimbedTo
<1> QED BY <1>1, <1>3, <1>4, <1>5, <1>6 DEF PathPosition

\* Inside a file it is the labels down to the file and what was climbed over.
LEMMA PositionInside ==
  ASSUME tree \in DOMAIN Trees, NEW path, Way(path), Kind(NodeOf(path)) # "xml_SourceFile",
         InFile(NodeOf(path))
  PROVE  \E p \in 1 .. Len(path) - 1 :
           /\ FileIn(path, p) /\ Programs(path) = {p}
           /\ PathPosition(path) = [file |-> Labels(SubSeq(path, 1, p)),
                                    offset |-> Climbed(path, p), len |-> LenAt(NodeOf(path))]
<1> DEFINE n == Len(path)
<1>1. /\ path \in Seq(Elements) /\ n \in Nat \ {0} /\ Check(path)
      /\ NodeOf(path) = path[n].node
  BY EmptySeq, LenProperties DEF Way, NodeOf, Last
<1>2. Kind(path[n].node) \notin DirKinds /\ Kind(path[n].node) # "Program"
  BY <1>1 DEF InFile, HasLen
<1>3. ~InDirectories(path)
  BY <1>1, <1>2 DEF InDirectories
<1>4. PICK p \in 1 .. n : FileIn(path, p)
  BY <1>3, LayersOfWay
<1>5. p # n
  BY <1>2, <1>4 DEF FileIn
<1>6. Programs(path) = {p} /\ (CHOOSE i \in {p} : TRUE) = p
  BY <1>4, ProgramsOfWay
<1>7. p \in 1 .. n - 1
  BY <1>1, <1>5
<1> QED BY <1>1, <1>4, <1>6, <1>7 DEF PathPosition

\* What is climbed over is a number.
LEMMA ClimbedIsNat ==
  ASSUME NEW path, NEW n \in Nat, NEW p \in 1 .. n, Adds(path, 1, n)
  PROVE  ClimbedTo(path, p, n) \in Nat
<1>1. 1 \in Nat /\ p \in Nat /\ 1 <= p /\ p <= n
  OBVIOUS
<1> QED BY <1>1, ClimbedJoined

\* A handle has the position of its lineage.
LEMMA HandleRight ==
  ASSUME tree \in DOMAIN Trees, NEW arena, Rooted(arena), StoreCheck(arena),
         NEW h \in DOMAIN arena, Kind(arena[h].node) # "xml_SourceFile"
  PROVE  /\ PositionAux(arena, h, InFile(arena[h].node), LenAt(arena[h].node), 0, << >>)
            = PositionAt(HandleTrail(arena, h))
         /\ HandlePosition(arena, h) = PositionAt(HandleTrail(arena, h))
<1> DEFINE line == Lineage(arena, h)
           n == Len(line)
           node == arena[h].node
<1>1. Way(line) /\ NodeOf(line) = node
  BY LineageIsWay
<1>2. line \in Seq(Elements) /\ n \in Nat \ {0}
  BY <1>1, EmptySeq, LenProperties DEF Way
<1>3. PathPosition(line) = PositionAt(HandleTrail(arena, h))
  BY <1>1, PathRight DEF HandleTrail
<1>4. Labels(line) \o << >> = Labels(line)
  BY <1>2, NoMoreLabels
<1>5. PositionAux(arena, h, InFile(node), LenAt(node), 0, << >>) = PathPosition(line)
  <2>1. CASE ~InFile(node)
    <3>1. PathPosition(line) = [file |-> Labels(line), offset |-> 0, len |-> LenAt(node)]
      <4> HIDE DEF line
      <4> QED BY <1>1, <2>1, PositionOutside
    <3> QED BY <1>4, <2>1, <3>1 DEF PositionAux
  <2>2. CASE InFile(node)
    <3>1. PICK p \in 1 .. n - 1 :
            /\ Programs(line) = {p}
            /\ PathPosition(line) = [file |-> Labels(SubSeq(line, 1, p)),
                                     offset |-> Climbed(line, p), len |-> LenAt(node)]
      <4> HIDE DEF line
      <4> QED BY <1>1, <2>2, PositionInside
    <3>2. {i \in Programs(line) : i < Len(line)} = {p} /\ (CHOOSE i \in {p} : TRUE) = p /\ {p} # {}
      BY <1>2, <3>1
    <3>3. PositionAux(arena, h, TRUE, LenAt(node), 0, << >>)
          = [file |-> Labels(SubSeq(line, 1, p)) \o << >>,
             offset |-> 0 + Climbed(line, p), len |-> LenAt(node)]
      BY <3>2 DEF PositionAux
    <3>4. Labels(SubSeq(line, 1, p)) \o << >> = Labels(SubSeq(line, 1, p))
      <4>1. SubSeq(line, 1, p) \in Seq(Elements)
        <5>1. p \in 0 .. Len(line)
          BY <1>2
        <5> QED BY <1>2, <5>1, Beginning
      <4> QED BY <4>1, NoMoreLabels
    <3>5. 0 + Climbed(line, p) = Climbed(line, p)
      <4>1. Climbed(line, p) \in Nat
        <5>1. Adds(line, 1, n) /\ Climbed(line, p) = ClimbedTo(line, p, n)
          BY <1>1, WayAdds
        <5>2. ClimbedTo(line, p, n) \in Nat
          <6> HIDE DEF n, line
          <6> QED BY <1>2, <5>1, ClimbedIsNat
        <5> QED BY <5>1, <5>2
      <4> QED BY <4>1
    <3> QED BY <2>2, <3>1, <3>3, <3>4, <3>5
  <2> QED BY <2>1, <2>2
<1>6. HandlePosition(arena, h) = PositionAux(arena, h, InFile(node), LenAt(node), 0, << >>)
  BY DEF HandlePosition
<1> QED BY <1>3, <1>5, <1>6
-----------------------------------------------------------------------------
\* a way that goes on along a path
Onward(way, line, path) ==
  /\ way = line \o path /\ way \in Seq(Elements)
  /\ line \in Seq(Elements) /\ path \in Seq(Elements)
  /\ Len(line) \in Nat \ {0} /\ Len(path) \in Nat \ {0}
  /\ Len(way) = Len(line) + Len(path)
  /\ \A i \in 1 .. Len(line) : way[i] = line[i]
  /\ \A i \in 1 .. Len(path) : way[Len(line) + i] = path[i]

\* It begins like its first part, and goes on like the path.
LEMMA BeginningOnward ==
  ASSUME NEW way, NEW line, NEW path, Onward(way, line, path)
  PROVE  /\ \A q \in 1 .. Len(line) : SubSeq(way, 1, q) = SubSeq(line, 1, q)
         /\ SubSeq(way, 1, Len(line)) = line
         /\ \A r \in 1 .. Len(path) :
              SubSeq(way, 1, Len(line) + r) = line \o SubSeq(path, 1, r)
<1>1. PICK n \in Nat \ {0}, p \in Nat \ {0} : n = Len(line) /\ p = Len(path)
  BY DEF Onward
<1>2. /\ way \in Seq(Elements) /\ line \in Seq(Elements) /\ path \in Seq(Elements)
      /\ Len(way) = n + p
      /\ \A i \in 1 .. n : way[i] = line[i]
      /\ \A i \in 1 .. p : way[n + i] = path[i]
  BY <1>1 DEF Onward
<1>3. ASSUME NEW q \in 1 .. n PROVE SubSeq(way, 1, q) = SubSeq(line, 1, q)
  <2>1. q \in 0 .. Len(way) /\ q \in 0 .. Len(line)
    BY <1>1, <1>2
  <2>2. PICK a, b : a = SubSeq(way, 1, q) /\ b = SubSeq(line, 1, q)
    OBVIOUS
  <2>3. a \in Seq(Elements) /\ Len(a) = q /\ \A i \in 1 .. q : a[i] = way[i]
    BY <1>2, <2>1, <2>2, Beginning
  <2>4. b \in Seq(Elements) /\ Len(b) = q /\ \A i \in 1 .. q : b[i] = line[i]
    BY <1>2, <2>1, <2>2, Beginning
  <2>5. \A i \in 1 .. q : i \in 1 .. n
    OBVIOUS
  <2>6. \A i \in 1 .. q : a[i] = b[i]
    BY <1>2, <2>3, <2>4, <2>5
  <2>7. a = b
    BY <2>3, <2>4, <2>6, SeqEqual
  <2> QED BY <2>2, <2>7
<1>4. SubSeq(line, 1, n) = line
  BY <1>1, <1>2, SubSeqFull
<1>5. n \in 1 .. n
  OBVIOUS
<1>6. SubSeq(way, 1, n) = line
  BY <1>3, <1>4, <1>5
<1>7. ASSUME NEW r \in 1 .. p PROVE SubSeq(way, 1, n + r) = line \o SubSeq(path, 1, r)
  <2>1. n + r \in 0 .. Len(way) /\ r \in 0 .. Len(path)
    BY <1>1, <1>2
  <2>2. PICK a, b, c : a = SubSeq(way, 1, n + r) /\ b = SubSeq(path, 1, r) /\ c = line \o b
    OBVIOUS
  <2>3. a \in Seq(Elements) /\ Len(a) = n + r /\ \A i \in 1 .. n + r : a[i] = way[i]
    BY <1>2, <2>1, <2>2, Beginning
  <2>4. b \in Seq(Elements) /\ Len(b) = r /\ \A i \in 1 .. r : b[i] = path[i]
    BY <1>2, <2>1, <2>2, Beginning
  <2>5. /\ c \in Seq(Elements) /\ Len(c) = Len(line) + Len(b)
        /\ \A i \in 1 .. Len(line) + Len(b) :
             c[i] = IF i <= Len(line) THEN line[i] ELSE b[i - Len(line)]
    BY <1>2, <2>2, <2>4, ConcatProperties
  <2>6. ASSUME NEW i \in 1 .. n + r PROVE a[i] = c[i]
    <3>1. CASE i <= n
      <4>1. i \in 1 .. n
        BY <3>1
      <4> QED BY <1>1, <1>2, <2>3, <2>4, <2>5, <3>1, <4>1
    <3>2. CASE ~(i <= n)
      <4>1. i - n \in 1 .. r /\ i - n \in 1 .. p /\ n + (i - n) = i
        BY <3>2
      <4>2. PICK j : j = i - n
        OBVIOUS
      <4>3. way[n + j] = path[j] /\ b[j] = path[j] /\ n + j = i
        BY <1>2, <2>4, <4>1, <4>2
      <4>4. c[i] = b[j]
        BY <1>1, <2>4, <2>5, <3>2, <4>2
      <4> QED BY <2>3, <4>3, <4>4
    <3> QED BY <3>1, <3>2
  <2>7. Len(c) = n + r
    BY <1>1, <2>4, <2>5
  <2>8. a = c
    BY <2>3, <2>5, <2>6, <2>7, SeqEqual
  <2> QED BY <2>2, <2>8
<1> QED BY <1>1, <1>3, <1>6, <1>7

\* What is climbed over along it adds up where the two meet.
LEMMA ClimbedOnward ==
  ASSUME tree \in DOMAIN Trees, NEW way, NEW line, NEW path, Onward(way, line, path), Way(way)
  PROVE  /\ \A r \in 1 .. Len(path) : Climbed(way, Len(line) + r) = Climbed(path, r)
         /\ \A q \in 1 .. Len(line) :
              /\ Climbed(way, q)
                 = (Climbed(path, 1) + Preceding(Last(line).node, path[1].offset)) + Climbed(line, q)
              /\ q = Len(line) =>
                   Climbed(way, q) = Climbed(path, 1) + Preceding(Last(line).node, path[1].offset)
<1>1. PICK n \in Nat \ {0}, p \in Nat \ {0} : n = Len(line) /\ p = Len(path)
  BY DEF Onward
<1>2. /\ Len(way) = n + p
      /\ \A i \in 1 .. n : way[i] = line[i]
      /\ \A i \in 1 .. p : way[n + i] = path[i]
  BY <1>1 DEF Onward
<1>3. Adds(way, 1, n + p) /\ \A first : Climbed(way, first) = ClimbedTo(way, first, n + p)
  BY <1>2, WayAdds
<1>4. /\ \A first : Climbed(line, first) = ClimbedTo(line, first, n)
      /\ \A first : Climbed(path, first) = ClimbedTo(path, first, p)
  BY <1>1 DEF Climbed, ClimbedTo
<1>5. ASSUME NEW r \in 1 .. p PROVE ClimbedTo(way, n + r, n + p) = ClimbedTo(path, r, p)
  <2>1. p - r \in Nat /\ n + r \in Nat /\ r \in Nat /\ (n + r) + (p - r) = n + p /\ r + (p - r) = p
    OBVIOUS
  <2>2. PICK k \in Nat, a \in Nat, b \in Nat : k = p - r /\ a = n + r /\ b = r
    BY <2>1
  <2>3. a + k = n + p /\ b + k = p
    BY <2>1, <2>2
  <2>4. Alike(way, a, path, b, k)
    <3>1. ASSUME NEW j \in 0 .. k PROVE way[a + j] = path[b + j]
      <4>1. b + j \in 1 .. p /\ n + (b + j) = a + j
        BY <2>2
      <4> QED BY <1>2, <4>1
    <3> QED BY <3>1 DEF Alike
  <2>5. ClimbedTo(way, a, n + p) = ClimbedTo(path, b, p)
    BY <2>3, <2>4, ClimbedAlike
  <2> QED BY <2>2, <2>5
<1>6. ASSUME NEW q \in 1 .. n PROVE ClimbedTo(way, q, n) = ClimbedTo(line, q, n)
  <2>1. n - q \in Nat /\ q \in Nat /\ q + (n - q) = n
    OBVIOUS
  <2>2. PICK k \in Nat, a \in Nat : k = n - q /\ a = q
    BY <2>1
  <2>3. a + k = n
    BY <2>1, <2>2
  <2>4. Alike(way, a, line, a, k)
    <3>1. ASSUME NEW j \in 0 .. k PROVE way[a + j] = line[a + j]
      <4>1. a + j \in 1 .. n
        BY <2>2
      <4> QED BY <1>2, <4>1
    <3> QED BY <3>1 DEF Alike
  <2>5. ClimbedTo(way, a, n) = ClimbedTo(line, a, n)
    BY <2>3, <2>4, ClimbedAlike
  <2> QED BY <2>2, <2>5
<1>7. PICK step : step = Preceding(Last(line).node, path[1].offset)
  OBVIOUS
<1>8. step = Preceding(way[n].node, way[n + 1].offset)
  <2>1. n \in 1 .. n /\ 1 \in 1 .. p
    OBVIOUS
  <2>2. way[n] = line[n] /\ way[n + 1] = path[1]
    BY <1>2, <2>1
  <2>3. Last(line) = line[n]
    BY <1>1 DEF Last
  <2> QED BY <1>7, <2>2, <2>3
<1>9. PICK up : up = Climbed(path, 1)
  OBVIOUS
<1>10. /\ ClimbedTo(way, n, n + 1) = step /\ step \in Nat
       /\ ClimbedTo(way, n, n + p) = up + step /\ up \in Nat
  <2>1. n \in Nat /\ n <= n
    OBVIOUS
  <2>2. PICK m \in Nat, last \in Nat : m = n + 1 /\ last = n + p /\ n <= m /\ m <= last
    <3>1. n + 1 \in Nat /\ n + p \in Nat /\ n <= n + 1 /\ n + 1 <= n + p
      OBVIOUS
    <3> QED BY <3>1
  <2>4. Adds(way, n, last)
    BY <1>3, <2>2 DEF Adds
  <2>5. /\ ClimbedTo(way, n, last) = ClimbedTo(way, n, m) + ClimbedTo(way, m, last)
        /\ ClimbedTo(way, m, last) \in Nat
    <3>1. PICK k \in Nat : k = n
      BY <2>1
    <3>2. k <= m /\ m <= last /\ Adds(way, k, last)
      BY <2>2, <2>4, <3>1
    <3>3. ClimbedTo(way, k, last) = ClimbedTo(way, k, m) + ClimbedTo(way, m, last)
      BY <3>2, ClimbedJoined
    <3>4. ClimbedTo(way, m, last) \in Nat
      BY <3>2, ClimbedJoined
    <3> QED BY <3>1, <3>3, <3>4
  <2>6. Adds(way, n, n + 1)
    BY <1>3 DEF Adds
  <2>7. /\ ClimbedTo(way, n, n) = 0
        /\ ClimbedTo(way, n, n + 1) = ClimbedTo(way, n, n) + Preceding(way[n].node, way[n + 1].offset)
    BY <2>1, <2>6, ClimbedNext
  <2>8. step \in Nat
    <3>1. n \in n .. (n + 1) - 1
      OBVIOUS
    <3> QED BY <1>8, <2>6, <3>1 DEF Adds
  <2>9. ClimbedTo(way, n, n + 1) = step
    BY <1>8, <2>7, <2>8
  <2>10. 1 \in 1 .. p
    OBVIOUS
  <2>11. ClimbedTo(way, n + 1, n + p) = up
    BY <1>4, <1>5, <1>9, <2>10
  <2>12. ClimbedTo(way, m, last) = up /\ ClimbedTo(way, n, m) = step
    BY <2>2, <2>9, <2>11
  <2> QED BY <2>2, <2>5, <2>8, <2>9, <2>12
<1>11. ASSUME NEW q \in 1 .. n PROVE ClimbedTo(way, q, n + p) = (up + step) + ClimbedTo(line, q, n)
  <2>1. q \in Nat /\ n \in Nat /\ q <= n
    OBVIOUS
  <2>2. PICK last \in Nat : last = n + p /\ n <= last
    <3>1. n + p \in Nat /\ n <= n + p
      OBVIOUS
    <3> QED BY <3>1
  <2>3. Adds(way, q, last)
    BY <1>3, <2>1, <2>2 DEF Adds
  <2>4. /\ ClimbedTo(way, q, last) = ClimbedTo(way, q, n) + ClimbedTo(way, n, last)
        /\ ClimbedTo(way, q, n) \in Nat
    BY <2>1, <2>2, <2>3, ClimbedJoined
  <2> QED BY <1>6, <1>10, <2>2, <2>4
<1> QED BY <1>1, <1>3, <1>4, <1>5, <1>7, <1>9, <1>10, <1>11

\* The way to a scout goes on from its entry along its path.
LEMMA WayOnward ==
  ASSUME tree \in DOMAIN Trees, NEW arena, NEW s, Sound(arena, s), s.path # << >>
  PROVE  /\ Onward(WayTo(arena, s), Lineage(arena, s.root), s.path)
         /\ NodeOf(Lineage(arena, s.root)) = arena[s.root].node
         /\ Way(Lineage(arena, s.root))
<1> DEFINE line == Lineage(arena, s.root)
           way == WayTo(arena, s)
           n == Len(line)
           p == Len(s.path)
<1>1. /\ line \in Seq(Elements) /\ n \in Nat \ {0}
      /\ s.path \in Seq(Elements) /\ p \in Nat
      /\ way \in Seq(Elements) /\ Len(way) = n + p
      /\ \A i \in 1 .. n : way[i] = line[i]
      /\ \A i \in 1 .. p : way[n + i] = s.path[i]
      /\ Way(line) /\ NodeOf(line) = arena[s.root].node
      /\ (n = 1 <=> s.root = 1)
      /\ (s.path = << >> <=> p = 0)
      /\ (s.path = << >> => way = line)
  BY WayToParts
<1>2. way = line \o s.path
  BY DEF WayTo
<1> HIDE DEF line, way, n, p
<1>3. p # 0
  BY <1>1
<1> QED BY <1>1, <1>2, <1>3 DEF Onward, line, way, n, p

\* A scout has the position of its way, wherever its root is.
LEMMA ScoutRight ==
  ASSUME tree \in DOMAIN Trees, NEW arena, NEW s, NEW trail, StandsAt(arena, s, trail),
         Kind(NodeAlways(arena, s)) # "xml_SourceFile"
  PROVE  ScoutPosition(arena, s) = PositionAt(trail)
<1> DEFINE line == Lineage(arena, s.root)
           way == WayTo(arena, s)
           node == NodeAlways(arena, s)
           n == Len(line)
<1>1. Sound(arena, s) /\ TrailOf(way) = trail
  BY DEF StandsAt
<1>2. Way(way) /\ NodeOf(way) = node
  BY <1>1, WayToIsWay
<1>3. PathPosition(way) = PositionAt(trail)
  <2> HIDE DEF way, node
  <2> QED BY <1>1, <1>2, PathRight DEF node
<1>4. Check(s.path) /\ Rooted(arena) /\ StoreCheck(arena) /\ s.root \in DOMAIN arena
  BY <1>1 DEF Sound, On, CheckWith
<1>5. CASE s.path = << >>
  <2>1. node = arena[s.root].node
    BY <1>5 DEF NodeAlways
  <2>2. HandleTrail(arena, s.root) = trail
    BY <1>5, StandsAtTrail
  <2>3. PositionAux(arena, s.root, InFile(node), LenAt(node), 0, << >>) = PositionAt(trail)
    BY <1>4, <2>1, <2>2, HandleRight
  <2> QED BY <1>4, <1>5, <2>3 DEF ScoutPosition
<1>6. CASE s.path # << >>
  <2>1. /\ Onward(way, line, s.path) /\ NodeOf(line) = arena[s.root].node
        /\ Way(line)
    BY <1>1, <1>6, WayOnward
  <2>2. PICK p \in Nat \ {0} : p = Len(s.path)
    BY <2>1 DEF Onward
  <2>3. /\ line \in Seq(Elements) /\ s.path \in Seq(Elements) /\ n \in Nat \ {0}
        /\ way = line \o s.path /\ Len(way) = n + p
        /\ \A i \in 1 .. n : way[i] = line[i]
        /\ \A i \in 1 .. p : way[n + i] = s.path[i]
        /\ DOMAIN line = 1 .. n /\ DOMAIN s.path = 1 .. p
    BY <2>1, <2>2, LenProperties DEF Onward
  <2>4. Last(line).node = arena[s.root].node
    BY <2>1 DEF NodeOf
  <2> HIDE DEF way, node, line, n
  <2>5. CASE ~InFile(node)
    <3>1. PathPosition(way) = [file |-> Labels(way), offset |-> 0, len |-> LenAt(node)]
      BY <1>2, <2>5, PositionOutside DEF node
    <3>2. Labels(way) = Labels(line) \o Labels(s.path)
      BY <2>3, LabelsJoined
    <3>3. ScoutPosition(arena, s)
          = PositionAux(arena, s.root, FALSE, LenAt(node), 0, Labels(s.path))
      BY <1>4, <1>6, <2>5 DEF ScoutPosition, node
    <3>4. ScoutPosition(arena, s)
          = [file |-> Labels(line) \o Labels(s.path), offset |-> 0, len |-> LenAt(node)]
      BY <3>3 DEF PositionAux, line
    <3> QED BY <1>3, <3>1, <3>2, <3>4
  <2>6. CASE InFile(node)
    <3>1. PICK q \in 1 .. Len(way) - 1 :
            /\ Programs(way) = {q}
            /\ PathPosition(way) = [file |-> Labels(SubSeq(way, 1, q)),
                                    offset |-> Climbed(way, q), len |-> LenAt(node)]
      BY <1>2, <2>6, PositionInside DEF node
    <3>2. q \in 1 .. n + p
      BY <2>3, <3>1
    <3>3. \A i \in 1 .. n + p : Kind(way[i].node) = "Program" <=> i = q
      <4>1. DOMAIN way = 1 .. n + p
        BY <2>1, <2>3, LenProperties DEF Onward
      <4> QED BY <3>1, <4>1 DEF Programs
    <3>4. \A i \in 1 .. n : i \in Programs(line) <=> i = q
      <4>1. \A i \in 1 .. n : i \in 1 .. n + p
        BY <2>3
      <4> QED BY <2>3, <3>3, <4>1 DEF Programs
    <3>5. \A i \in 1 .. p : i \in Programs(s.path) <=> n + i = q
      <4>1. \A i \in 1 .. p : n + i \in 1 .. n + p
        BY <2>3
      <4> QED BY <2>3, <3>3, <4>1 DEF Programs
    <3>6. Programs(line) \subseteq 1 .. n /\ Programs(s.path) \subseteq 1 .. p
      BY <2>3 DEF Programs
    <3>7. CASE q > n
      <4>1. q - n \in 1 .. p /\ n + (q - n) = q
        BY <2>3, <3>2, <3>7
      <4>2. PICK r \in 1 .. p : r = q - n
        BY <4>1
      <4>3. n + r = q /\ \A i \in 1 .. p : n + i = q <=> i = r
        BY <2>3, <3>2, <4>2
      <4>4. Programs(s.path) = {r}
        BY <3>5, <3>6, <4>3
      <4>5. (CHOOSE i \in {r} : TRUE) = r /\ {r} # {}
        OBVIOUS
      <4>6. ScoutPosition(arena, s)
            = PositionAux(arena, s.root, FALSE, LenAt(node),
                          Climbed(s.path, r), Labels(SubSeq(s.path, 1, r)))
        BY <1>4, <1>6, <2>6, <4>4, <4>5 DEF ScoutPosition, node
      <4>7. ScoutPosition(arena, s)
            = [file |-> Labels(line) \o Labels(SubSeq(s.path, 1, r)),
               offset |-> Climbed(s.path, r), len |-> LenAt(node)]
        BY <4>6 DEF PositionAux, line
      <4>8. Climbed(way, n + r) = Climbed(s.path, r)
        BY <1>2, <2>1, <2>2, ClimbedOnward DEF n
      <4>9. SubSeq(way, 1, q) = line \o SubSeq(s.path, 1, r)
        BY <2>1, <2>2, <4>3, BeginningOnward DEF n
      <4>10. SubSeq(s.path, 1, r) \in Seq(Elements)
        <5>1. r \in 0 .. Len(s.path)
          BY <2>2
        <5> QED BY <2>3, <5>1, Beginning
      <4>11. Labels(line \o SubSeq(s.path, 1, r)) = Labels(line) \o Labels(SubSeq(s.path, 1, r))
        BY <2>3, <4>10, LabelsJoined
      <4> QED BY <1>3, <3>1, <4>3, <4>7, <4>8, <4>9, <4>11
    <3>8. CASE ~(q > n)
      <4>1. q \in 1 .. n /\ \A i \in 1 .. p : n + i # q
        BY <2>3, <3>2, <3>8
      <4>2. Programs(s.path) = {}
        BY <3>5, <3>6, <4>1
      <4>3. PICK up : up = Climbed(s.path, 1) + Preceding(arena[s.root].node, s.path[1].offset)
        OBVIOUS
      <4>4. ScoutPosition(arena, s)
            = PositionAux(arena, s.root, Kind(arena[s.root].node) # "Program", LenAt(node), up, << >>)
        BY <1>4, <1>6, <2>6, <4>2, <4>3 DEF ScoutPosition, node
      <4>5. /\ Climbed(way, q) = up + Climbed(line, q)
            /\ q = n => Climbed(way, q) = up
        BY <1>2, <2>1, <2>4, <4>1, <4>3, ClimbedOnward DEF n
      <4>6. SubSeq(way, 1, q) = SubSeq(line, 1, q) /\ (q = n => SubSeq(way, 1, q) = line)
        BY <2>1, <4>1, BeginningOnward DEF n
      <4>7. Programs(line) = {q}
        BY <3>4, <3>6, <4>1
      <4>8. Kind(arena[s.root].node) = "Program" <=> q = n
        <5>1. n \in 1 .. n /\ Last(line) = line[n]
          BY <2>3 DEF Last, n
        <5> QED BY <2>3, <2>4, <3>4, <5>1 DEF Programs
      <4>9. CASE q = n
        <5>1. ScoutPosition(arena, s)
              = [file |-> Labels(line) \o << >>, offset |-> up, len |-> LenAt(node)]
          BY <4>4, <4>8, <4>9 DEF PositionAux, line
        <5>2. Labels(line) \o << >> = Labels(line)
          BY <2>3, NoMoreLabels
        <5> QED BY <1>3, <3>1, <4>5, <4>6, <4>9, <5>1, <5>2
      <4>10. CASE q # n
        <5>1. {i \in Programs(line) : i < Len(line)} = {q}
          <6>1. q < Len(line)
            BY <2>3, <4>1, <4>10 DEF n
          <6> QED BY <4>7, <6>1
        <5>2. (CHOOSE i \in {q} : TRUE) = q /\ {q} # {}
          OBVIOUS
        <5>3. ScoutPosition(arena, s)
              = [file |-> Labels(SubSeq(line, 1, q)) \o << >>,
                 offset |-> up + Climbed(line, q), len |-> LenAt(node)]
          BY <4>4, <4>8, <4>10, <5>1, <5>2 DEF PositionAux, line
        <5>4. SubSeq(line, 1, q) \in Seq(Elements)
          <6>1. q \in 0 .. Len(line)
            BY <4>1 DEF n
          <6> QED BY <2>3, <6>1, Beginning
        <5>5. Labels(SubSeq(line, 1, q)) \o << >> = Labels(SubSeq(line, 1, q))
          BY <5>4, NoMoreLabels
        <5> QED BY <1>3, <3>1, <4>5, <4>6, <5>3, <5>5
      <4> QED BY <4>9, <4>10
    <3> QED BY <3>7, <3>8
  <2> QED BY <2>5, <2>6
<1> QED BY <1>5, <1>6
-----------------------------------------------------------------------------
(* The references and the store while it grows.                            *)

Grows(st, old) == Rooted(st) /\ StoreCheck(st) /\ Extends(st, old)

\* make_position is modelled for it
HasPosition(n) == Kind(n) # "xml_SourceFile"

RefsRight(st, rs, fs) ==
  /\ rs \in Seq(Nat) /\ fs \in Seq(Seq(Nat)) /\ Len(rs) = Len(fs)
  /\ \A i \in 1 .. Len(rs) : /\ rs[i] \in DOMAIN st /\ HandleTrail(st, rs[i]) = fs[i]
                             /\ HasPosition(st[rs[i]].node)

\* What is in a file is no directory and no file.
LEMMA InFilesNoFile ==
  ASSUME tree \in DOMAIN Trees, NEW t \in TrailsInFiles, t # << >>
  PROVE  t \in Trails /\ Kind(At(t)) \notin Outer
<1>1. PICK node : node = NodesAt(Trees[tree])
  OBVIOUS
<1>2. t \in Trails /\ FilesAround(Trees[tree], node, Front(t)) # {}
  BY <1>1, PlacesOfTree
<1>3. PICK path : Way(path) /\ TrailOf(path) = t /\ NodeOf(path) = At(t)
  BY <1>2, TrailsAreCut
<1>4. Len(path) # 1
  BY <1>3, TrailGoesBack
<1>5. PICK front : front = Front(path)
  OBVIOUS
<1>6. Way(front) /\ Linked(NodeOf(front), path[Len(path)]) /\ TrailOf(front) = Front(t)
  BY <1>3, <1>4, <1>5, WayGoesBack, TrailGoesBack
<1>7. Programs(front) # {}
  BY <1>1, <1>2, <1>6, FilesOfWay
<1>8. Kind(NodeOf(front)) # "xml_SourceFile" /\ NodeOf(front) \in Nodes
  <2>1. NodeOf(front) \in Nodes
    BY <1>6, WayEnds
  <2> QED BY <1>6, <2>1, LayersDown
<1>9. PICK p \in 1 .. Len(front) : FileIn(front, p)
  BY <1>6, <1>7, <1>8, LayersOfWay, ProgramsOfWay
<1>10. Kind(NodeOf(front)) \notin DirKinds
  <2>1. Len(front) \in Nat \ {0} /\ NodeOf(front) = front[Len(front)].node
    BY <1>6, EmptySeq, LenProperties DEF Way, NodeOf, Last
  <2>2. Len(front) = p \/ Len(front) \in p + 1 .. Len(front)
    BY <2>1
  <2> QED BY <1>9, <2>1, <2>2 DEF FileIn, Outer, DirKinds
<1>11. Kind(path[Len(path)].node) \notin Outer
  BY <1>6, <1>8, <1>10, LayersDown
<1> QED BY <1>2, <1>3, <1>11 DEF NodeOf, Last

\* The node of a scout is the one at its trail.
LEMMA StandsIsAt ==
  ASSUME tree \in DOMAIN Trees, NEW arena, NEW s, NEW trail, StandsAt(arena, s, trail)
  PROVE  trail \in Trails /\ At(trail) = NodeAlways(arena, s)
<1>1. /\ Way(WayTo(arena, s)) /\ NodeOf(WayTo(arena, s)) = NodeAlways(arena, s)
      /\ TrailOf(WayTo(arena, s)) = trail
  BY WayToIsWay DEF StandsAt
<1> QED BY <1>1, WayIsTrail, WayEndsAt

\* The handles of the references are still where they were in a longer store.
LEMMA RefsStay ==
  ASSUME NEW st, NEW old, Rooted(old), Grows(st, old), NEW rs, NEW fs, RefsRight(old, rs, fs)
  PROVE  RefsRight(st, rs, fs)
<1>1. ASSUME NEW i \in 1 .. Len(rs)
      PROVE  /\ rs[i] \in DOMAIN st /\ HandleTrail(st, rs[i]) = fs[i]
             /\ HasPosition(st[rs[i]].node)
  <2>1. /\ rs[i] \in DOMAIN old /\ HandleTrail(old, rs[i]) = fs[i]
        /\ HasPosition(old[rs[i]].node)
    BY DEF RefsRight
  <2>2. Lineage(st, rs[i]) = Lineage(old, rs[i])
    BY <2>1, LineageStays DEF Grows
  <2>3. rs[i] \in DOMAIN st
    <3>1. /\ DOMAIN old = 1 .. Len(old) /\ DOMAIN st = 1 .. Len(st)
          /\ Len(old) \in Nat /\ Len(st) \in Nat /\ Len(old) <= Len(st)
      BY DEF Grows, Rooted, Extends
    <3> QED BY <2>1, <3>1
  <2>4. st[rs[i]] = old[rs[i]]
    <3>1. DOMAIN old = 1 .. Len(old)
      BY DEF Rooted
    <3> QED BY <2>1, <3>1 DEF Grows, Extends
  <2> QED BY <2>1, <2>2, <2>3, <2>4 DEF HandleTrail
<1> QED BY <1>1 DEF RefsRight

\* One more handle and its trail.
LEMMA RefsAppend ==
  ASSUME NEW st, Rooted(st), NEW rs, NEW fs, RefsRight(st, rs, fs),
         NEW h \in DOMAIN st, NEW t \in Seq(Nat), HandleTrail(st, h) = t,
         HasPosition(st[h].node)
  PROVE  RefsRight(st, Append(rs, h), Append(fs, t))
<1>1. h \in Nat
  BY DEF Rooted
<1> DEFINE Tr == Seq(Nat)
           n == Len(rs)
<1>2. /\ rs \in Seq(Nat) /\ fs \in Seq(Tr) /\ Len(fs) = n /\ n \in Nat /\ t \in Tr
      /\ \A i \in 1 .. n : /\ rs[i] \in DOMAIN st /\ HandleTrail(st, rs[i]) = fs[i]
                           /\ HasPosition(st[rs[i]].node)
  BY LenProperties DEF RefsRight
<1> HIDE DEF Tr
<1>3. /\ Append(rs, h) \in Seq(Nat) /\ Len(Append(rs, h)) = n + 1
      /\ \A i \in 1 .. n : Append(rs, h)[i] = rs[i]
      /\ Append(rs, h)[n + 1] = h
  BY <1>1, <1>2, AppendProperties
<1>4. /\ Append(fs, t) \in Seq(Tr) /\ Len(Append(fs, t)) = n + 1
      /\ \A i \in 1 .. n : Append(fs, t)[i] = fs[i]
      /\ Append(fs, t)[n + 1] = t
  BY <1>2, AppendProperties
<1> HIDE DEF n
<1>5. ASSUME NEW i \in 1 .. n + 1
      PROVE  /\ Append(rs, h)[i] \in DOMAIN st
             /\ HandleTrail(st, Append(rs, h)[i]) = Append(fs, t)[i]
             /\ HasPosition(st[Append(rs, h)[i]].node)
  <2>1. CASE i = n + 1
    BY <1>3, <1>4, <2>1
  <2>2. CASE i # n + 1
    <3>1. i \in 1 .. n
      BY <1>2, <2>2
    <3> QED BY <1>2, <1>3, <1>4, <3>1
  <2> QED BY <2>1, <2>2
<1> QED BY <1>3, <1>4, <1>5 DEF RefsRight, Tr

\* Two elements at once are one after the other.
LEMMA AppendTwo ==
  ASSUME NEW S, NEW s \in Seq(S), NEW a \in S, NEW b \in S
  PROVE  s \o <<a, b>> = Append(Append(s, a), b)
<1> DEFINE x == <<a>>
           y == <<b>>
           z == <<a, b>>
<1>1. /\ x \in Seq(S) /\ y \in Seq(S) /\ z \in Seq(S)
      /\ Len(x) = 1 /\ Len(y) = 1 /\ Len(z) = 2
      /\ x[1] = a /\ y[1] = b /\ z[1] = a /\ z[2] = b
  OBVIOUS
<1>2. Append(s, a) = s \o x /\ Append(s, a) \in Seq(S)
  BY AppendIsConcat, AppendProperties
<1>3. Append(Append(s, a), b) = Append(s, a) \o y
  BY <1>2, AppendIsConcat
<1> HIDE DEF x, y, z
<1>5. z = x \o y
  <2>1. /\ x \o y \in Seq(S) /\ Len(x \o y) = Len(x) + Len(y)
        /\ \A i \in 1 .. Len(x) + Len(y) :
             (x \o y)[i] = IF i <= Len(x) THEN x[i] ELSE y[i - Len(x)]
    BY <1>1, ConcatProperties
  <2>2. \A i \in 1 .. 2 : i = 1 \/ i = 2
    OBVIOUS
  <2>3. Len(x \o y) = 2 /\ (x \o y)[1] = a /\ (x \o y)[2] = b
    BY <1>1, <2>1
  <2> QED BY <1>1, <2>1, <2>2, <2>3, SeqEqual
<1>4. (s \o x) \o y = s \o (x \o y)
  BY <1>1, ConcatAssociative
<1> QED BY <1>2, <1>3, <1>4, <1>5 DEF z

\* What successful_match returns for an expression: its handle, or those of the
\* body and of what the creation is wrapped in, are at the trails they get.
LEMMA RecordRight ==
  ASSUME tree \in DOMAIN Trees, NEW st, Rooted(st), StoreCheck(st),
         NEW scout, NEW at, StandsAt(st, scout, at), scout.path = << >>,
         HasPosition(NodeAlways(st, scout)),
         RefsRight(st, refs, found), Record(st, scout, at)
  PROVE  Grows(store', st) /\ RefsRight(store', refs', found')
<1> DEFINE node == NodeAlways(st, scout)
           last == Len(Children(node))
           isCreation == Kind(node) = "ObjectCreationExpression"
           wrapped == isCreation /\ Kind(NodeAlways(st, Up(st, scout))) \in Wrappers
           ref == IF wrapped THEN Up(st, scout).root ELSE scout.root
           place == IF wrapped THEN Front(at) ELSE at
           body == GotoChild(st, scout, last)
           hasBody == isCreation /\ Kind(Children(node)[last]) = "ClassBody"
<1>1. node \in Nodes /\ at \in Seq(Nat)
  BY StandsAtTrail
<1>2. isCreation => HasParents(scout)
  <2>1. Kind(Root) \in DirKinds
    BY KindsAssumption DEF Kind, Root
  <2>2. isCreation => node # Root
    BY <2>1 DEF DirKinds
  <2> QED BY <2>2, StandsAtTrail
<1>3. /\ place \in Seq(Nat) /\ ref \in DOMAIN st
      /\ HandleTrail(st, ref) = place /\ HasPosition(st[ref].node)
  <2>1. CASE wrapped
    <3>1. StandsAt(st, Up(st, scout), Front(at)) /\ Up(st, scout).path = << >>
      BY <1>2, <2>1, UpStands
    <3>2. NodeAlways(st, Up(st, scout)) = st[Up(st, scout).root].node
      BY <3>1 DEF NodeAlways
    <3>3. HasPosition(st[Up(st, scout).root].node)
      BY <2>1, <3>2 DEF HasPosition, Wrappers
    <3> QED BY <2>1, <3>1, <3>3, StandsAtTrail
  <2>2. CASE ~wrapped
    <3>1. NodeAlways(st, scout) = st[scout.root].node
      BY DEF NodeAlways
    <3> QED BY <2>2, <3>1, StandsAtTrail
  <2> QED BY <2>1, <2>2
<1>4. /\ hasBody  => /\ store' = Pushed(st, body)
                     /\ refs' = refs \o <<Landed(st, body).root, ref>>
                     /\ found' = found \o <<Append(at, last), place>>
      /\ ~hasBody => /\ store' = st /\ refs' = Append(refs, ref)
                     /\ found' = Append(found, place)
  BY DEF Record
<1>5. isCreation => last \in DOMAIN Children(node)
  <2>1. isCreation => Children(node) # << >>
    BY <1>1, KindsAssumption DEF Kind, Nodes, Children
  <2>2. Children(node) \in Seq(Nodes)
    BY <1>1, ChildrenAreNodes
  <2> QED BY <2>1, <2>2, EmptySeq, LenProperties
<1> HIDE DEF node, last, isCreation, wrapped, ref, place
<1>6. CASE ~hasBody
  <2>1. Extends(st, st)
    BY DEF Extends, Rooted
  <2> QED BY <1>3, <1>4, <1>6, <2>1, RefsAppend DEF Grows
<1>7. CASE hasBody
  <2>1. /\ StandsAt(st, body, Append(at, last))
        /\ NodeAlways(st, body) = Children(node)[last]
    BY <1>5, <1>7, GotoStands DEF node
  <2>0. HasPosition(NodeAlways(st, body))
    BY <1>7, <2>1 DEF HasPosition
  <2> HIDE DEF body
  <2> DEFINE on == Pushed(st, body)
             land == Landed(st, body)
  <2>2. /\ StandsAt(on, land, Append(at, last)) /\ land.path = << >>
        /\ Extends(on, st) /\ Rooted(on) /\ StoreCheck(on)
    BY <2>1, PushStands
  <2>11. HasPosition(on[land.root].node)
    <3>1. NodeAlways(on, land) = NodeAlways(st, body)
      BY <2>1, PushStands
    <3>2. NodeAlways(on, land) = on[land.root].node
      BY <2>2 DEF NodeAlways
    <3> QED BY <2>0, <3>1, <3>2
  <2> HIDE DEF on, land
  <2>3. Grows(on, st)
    BY <2>2 DEF Grows
  <2>4. /\ Append(at, last) \in Seq(Nat) /\ land.root \in DOMAIN on
        /\ HandleTrail(on, land.root) = Append(at, last)
    BY <2>2, StandsAtTrail
  <2>5. RefsRight(on, refs, found)
    BY <2>3, RefsStay
  <2>6. RefsRight(on, Append(refs, land.root), Append(found, Append(at, last)))
    BY <2>2, <2>4, <2>5, <2>11, RefsAppend
  <2>7. ref \in DOMAIN on /\ HandleTrail(on, ref) = place /\ HasPosition(on[ref].node)
    <3>1. Lineage(on, ref) = Lineage(st, ref)
      BY <1>3, <2>2, LineageStays
    <3>2. /\ DOMAIN st = 1 .. Len(st) /\ DOMAIN on = 1 .. Len(on)
          /\ Len(st) \in Nat /\ Len(on) \in Nat /\ Len(st) <= Len(on)
      BY <2>2 DEF Rooted, Extends
    <3>3. on[ref] = st[ref]
      BY <1>3, <2>2, <3>2 DEF Extends
    <3> QED BY <1>3, <3>1, <3>2, <3>3 DEF HandleTrail
  <2>8. RefsRight(on, Append(Append(refs, land.root), ref),
                  Append(Append(found, Append(at, last)), place))
    BY <1>3, <2>2, <2>6, <2>7, RefsAppend
  <2>9. refs \o <<land.root, ref>> = Append(Append(refs, land.root), ref)
    <3>1. refs \in Seq(Nat) /\ land.root \in Nat /\ ref \in Nat
      BY <2>2, <2>4, <2>7 DEF RefsRight, Rooted
    <3> QED BY <3>1, AppendTwo
  <2>10. found \o <<Append(at, last), place>>
         = Append(Append(found, Append(at, last)), place)
    <3> DEFINE Tr == Seq(Nat)
    <3>1. found \in Seq(Tr) /\ Append(at, last) \in Tr /\ place \in Tr
      BY <1>3, <2>4 DEF RefsRight
    <3>2. PICK t \in Tr : t = Append(at, last)
      BY <3>1
    <3> HIDE DEF Tr
    <3>3. found \o <<t, place>> = Append(Append(found, t), place)
      BY <3>1, AppendTwo
    <3> QED BY <3>2, <3>3
  <2> QED BY <1>4, <1>7, <2>3, <2>8, <2>9, <2>10 DEF on, land
<1> QED BY <1>6, <1>7

\* A match below the place find_all was given, and what is climbed from it.
LEMMA MatchingRight ==
  ASSUME tree \in DOMAIN Trees, Rooted(store), StoreCheck(store),
         RefsRight(store, refs, found),
         NEW place, NEW trail, StandsAt(store, place, trail), Matching(place, trail)
  PROVE  Grows(store', store) /\ RefsRight(store', refs', found')
<1>1. PICK there \in {t \in Trails : IsPrefix(trail, t)}, ups \in 0 .. MaxUps :
        /\ ups < Len(there)
        /\ SubSeq(there, 1, Len(there) - ups) \in TrailsInFiles
        /\ \E reached \in {Reached(place, trail, there)} :
           \E st \in {Pushed(store, reached)} :
             \/ store' = st /\ UNCHANGED <<refs, found>>
             \/ \E relaxed \in {Stepped(Landed(store, reached), ups, st)} :
                  Record(st, relaxed, SubSeq(there, 1, Len(there) - ups))
  BY DEF Matching
<1> DEFINE reached == Reached(place, trail, there)
           st == Pushed(store, reached)
           land == Landed(store, reached)
           relaxed == Stepped(land, ups, st)
           at == SubSeq(there, 1, Len(there) - ups)
<1>2. \/ store' = st /\ UNCHANGED <<refs, found>>
      \/ Record(st, relaxed, at)
  BY <1>1
<1>3. ups \in Nat
  BY BoundsAssumption
<1>4. StandsAt(store, reached, there)
  BY ReachedStands
<1> HIDE DEF reached
<1>5. /\ StandsAt(st, land, there) /\ land.path = << >>
      /\ Extends(st, store) /\ Rooted(st) /\ StoreCheck(st)
  BY <1>4, PushStands
<1> HIDE DEF st, land
<1>6. StandsAt(st, relaxed, at) /\ relaxed.path = << >>
  BY <1>1, <1>3, <1>5, SteppedStands
<1>10. HasPosition(NodeAlways(st, relaxed))
  <2>1. at # << >>
    <3>1. there \in Seq(Nat) /\ Len(there) \in Nat
      BY TrailsAreCut
    <3>2. Len(there) - ups \in 0 .. Len(there) /\ Len(there) - ups # 0
      BY <1>1, <1>3, <3>1
    <3>3. PICK m \in 0 .. Len(there) : m = Len(there) - ups /\ m # 0
      BY <3>2
    <3>4. at \in Seq(Nat) /\ Len(at) # 0
      <4>1. SubSeq(there, 1, m) \in Seq(Nat) /\ Len(SubSeq(there, 1, m)) = m
        BY <3>1, Beginning
      <4> QED BY <3>3, <4>1
    <3> HIDE DEF at
    <3> QED BY <3>4, EmptySeq
  <2> HIDE DEF relaxed, at
  <2>2. Kind(At(at)) \notin Outer
    BY <1>1, <2>1, InFilesNoFile DEF at
  <2>3. At(at) = NodeAlways(st, relaxed)
    BY <1>6, StandsIsAt
  <2> QED BY <2>2, <2>3 DEF HasPosition, Outer, FileKinds
<1> HIDE DEF relaxed, at
<1>7. Grows(st, store) /\ RefsRight(st, refs, found)
  <2>1. Grows(st, store)
    BY <1>5 DEF Grows
  <2> QED BY <2>1, RefsStay
<1>8. CASE store' = st /\ UNCHANGED <<refs, found>>
  BY <1>7, <1>8
<1>9. CASE Record(st, relaxed, at)
  <2>1. Grows(store', st) /\ RefsRight(store', refs', found')
    BY <1>5, <1>6, <1>7, <1>9, <1>10, RecordRight
  <2>2. Grows(store', store)
    BY <1>7, <2>1, ExtendsOn DEF Grows
  <2> QED BY <2>1, <2>2
<1> QED BY <1>2, <1>8, <1>9
-----------------------------------------------------------------------------
(* The iterators: their frames are on the way to the node they look at.    *)

Frames == [node : Nodes, next : Nat, open : BOOLEAN]
Iterators == [path : Seq(Elements), stack : Seq(Frames)]

\* a frame whose node is at place i of the path
FrameRight(path, f, i) ==
  /\ path[i].node = f.node
  /\ f.next <= Len(Children(f.node))
  /\ f.next # 0 => f.open /\ path[i + 1].offset = f.next
  /\ f.open => Children(f.node) # << >>

\* the stack is above the first b elements of the path
Standing(it, b) ==
  /\ Way(it.path)
  /\ it.stack # << >>
  /\ Len(it.path) = b + Len(it.stack) + (IF Top(it).next = 0 THEN 0 ELSE 1)
  /\ \A i \in 1 .. Len(it.stack) : FrameRight(it.path, it.stack[i], b + i)
  /\ \A i \in 1 .. Len(it.stack) - 1 : it.stack[i].next # 0

\* an iterator after a step still is where it began
StaysOn(next, it, b) ==
  next.stack # << >> =>
    Standing(next, b) /\ \A i \in 1 .. b + 1 : next.path[i] = it.path[i]

IteratorRight(it) ==
  /\ it \in Iterators
  /\ \/ it.stack = << >> /\ (it.path = << >> \/ Way(it.path))
     \/ \E b \in Nat : Standing(it, b)

\* What lies below the top frame, and the part of the path that leads to it.
Base(it) == IF Top(it).next = 0 THEN it.path ELSE Front(it.path)

\* The base ends at the node of the top frame; the path is the base, or goes on
\* from it to the child that was looked at last.
LEMMA BaseLeads ==
  ASSUME tree \in DOMAIN Trees, NEW it \in Iterators, NEW b \in Nat, Standing(it, b)
  PROVE  LET n == Len(it.stack) IN
         /\ n \in Nat \ {0} /\ Top(it) = it.stack[n] /\ Top(it) \in Frames
         /\ Way(Base(it)) /\ Len(Base(it)) = b + n
         /\ NodeOf(Base(it)) = Top(it).node
         /\ \A i \in 1 .. b + n : Base(it)[i] = it.path[i]
         /\ Top(it).next # 0 =>
              /\ it.path = Append(Base(it), it.path[b + n + 1])
              /\ Linked(Top(it).node, it.path[b + n + 1])
              /\ NodeOf(it.path) = Below(it)[Top(it).next]
              /\ Last(it.path).offset = Top(it).next
<1> DEFINE n == Len(it.stack)
           P == it.path
           top == Top(it)
<1>1. /\ P \in Seq(Elements) /\ it.stack \in Seq(Frames) /\ it.stack # << >>
      /\ Way(P)
  BY DEF Iterators, Standing
<1>2. n \in Nat \ {0} /\ top = it.stack[n] /\ top \in Frames
  <2>1. n \in Nat \ {0}
    BY <1>1, EmptySeq, LenProperties
  <2>2. n \in 1 .. Len(it.stack)
    BY <2>1
  <2> QED BY <1>1, <2>1, <2>2, ElementOfSeq DEF Top, Last
<1>3. /\ Len(P) = b + n + (IF top.next = 0 THEN 0 ELSE 1)
      /\ FrameRight(P, top, b + n)
  BY <1>2 DEF Standing
<1> HIDE DEF n, P, top
<1>4. CASE top.next = 0
  <2>1. Base(it) = P
    BY <1>4 DEF Base, P, top
  <2>2. Len(P) = b + n
    BY <1>2, <1>3, <1>4
  <2>3. NodeOf(P) = top.node
    BY <1>3, <2>2 DEF NodeOf, Last, FrameRight
  <2> QED BY <1>1, <1>2, <1>4, <2>1, <2>2, <2>3 DEF n, P, top
<1>5. CASE top.next # 0
  <2>1. Base(it) = Front(P)
    BY <1>5 DEF Base, P, top
  <2>2. Len(P) = b + n + 1 /\ Len(P) # 1 /\ Len(P) - 1 = b + n
    BY <1>2, <1>3, <1>5
  <2>3. /\ Way(Front(P)) /\ Len(Front(P)) = Len(P) - 1
        /\ \A i \in 1 .. Len(P) - 1 : Front(P)[i] = P[i]
        /\ NodeOf(Front(P)) = P[Len(P) - 1].node
        /\ Linked(NodeOf(Front(P)), P[Len(P)])
        /\ P = Append(Front(P), P[Len(P)])
    BY <1>1, <2>2, WayGoesBack
  <2>4. P[b + n].node = top.node /\ P[b + n + 1].offset = top.next
    BY <1>3, <1>5 DEF FrameRight
  <2>5. NodeOf(P) = P[b + n + 1].node /\ Last(P) = P[b + n + 1]
    BY <2>2 DEF NodeOf, Last
  <2>6. /\ Way(Front(P)) /\ Len(Front(P)) = b + n
        /\ \A i \in 1 .. b + n : Front(P)[i] = P[i]
        /\ NodeOf(Front(P)) = top.node
        /\ Linked(top.node, P[b + n + 1])
        /\ P = Append(Front(P), P[b + n + 1])
    BY <2>2, <2>3, <2>4
  <2>7. NodeOf(P) = Children(top.node)[top.next]
    BY <2>4, <2>5, <2>6 DEF Linked
  <2> QED BY <1>2, <1>5, <2>1, <2>4, <2>5, <2>6, <2>7 DEF n, P, top, Below
<1> QED BY <1>4, <1>5

\* the assertions of the loop hold
LEMMA StandingAgrees ==
  ASSUME tree \in DOMAIN Trees, NEW it \in Iterators, NEW b \in Nat, Standing(it, b)
  PROVE  Agrees(it)
<1>1. Check(it.path)
  BY DEF Standing, Way
<1>2. NodeOf(it.path) = IF Top(it).next = 0 THEN Top(it).node ELSE Below(it)[Top(it).next]
  <2>1. Top(it).next = 0 => NodeOf(it.path) = Top(it).node
    BY BaseLeads DEF Base
  <2>2. Top(it).next # 0 => NodeOf(it.path) = Below(it)[Top(it).next]
    BY BaseLeads
  <2> QED BY <2>1, <2>2
<1> QED BY <1>1, <1>2 DEF Agrees

\* a sequence and its last element
LEMMA FrontThen ==
  ASSUME NEW S, NEW s \in Seq(S), s # << >>
  PROVE  /\ Front(s) \in Seq(S) /\ Len(Front(s)) = Len(s) - 1
         /\ \A i \in 1 .. Len(s) - 1 : Front(s)[i] = s[i]
<1> DEFINE m == Len(s) - 1
<1>1. m \in 0 .. Len(s)
  BY EmptySeq, LenProperties
<1> HIDE DEF m
<1>2. /\ SubSeq(s, 1, m) \in Seq(S) /\ Len(SubSeq(s, 1, m)) = m
      /\ \A i \in 1 .. m : SubSeq(s, 1, m)[i] = s[i]
  BY <1>1, Beginning
<1> QED BY <1>2 DEF Front, m

\* Leaving a node takes its last child off the path.
LEMMA LeaveStands ==
  ASSUME tree \in DOMAIN Trees, NEW it \in Iterators, NEW b \in Nat, Standing(it, b),
         Top(it).next # 0
  PROVE  IteratorRight(Leave(it)) /\ StaysOn(Leave(it), it, b)
<1> DEFINE n == Len(it.stack)
           path == Front(it.path)
           stack == Front(it.stack)
           left == Leave(it)
<1>1. /\ n \in Nat \ {0} /\ Way(Base(it)) /\ Len(Base(it)) = b + n
      /\ \A i \in 1 .. b + n : Base(it)[i] = it.path[i]
  BY BaseLeads
<1>2. path = Base(it)
  BY DEF Base
<1>3. it.stack \in Seq(Frames) /\ it.stack # << >>
  BY DEF Iterators, Standing
<1>4. /\ stack \in Seq(Frames) /\ Len(stack) = n - 1
      /\ \A i \in 1 .. n - 1 : stack[i] = it.stack[i]
  BY <1>3, FrontThen
<1>5. left = [path |-> path, stack |-> stack]
  BY DEF Leave
<1> HIDE DEF path, stack, left
<1>6. path \in Seq(Elements) /\ left \in Iterators /\ left.path = path /\ left.stack = stack
  BY <1>1, <1>2, <1>4, <1>5 DEF Way, Iterators
<1>7. CASE n = 1
  <2>1. stack = << >>
    BY <1>4, <1>7, EmptySeq
  <2> QED BY <1>1, <1>2, <1>6, <2>1 DEF IteratorRight, StaysOn, left
<1>8. CASE n # 1
  <2>1. n - 1 \in 1 .. n - 1 /\ n \in 1 .. n /\ stack # << >>
    <3> HIDE DEF n
    <3>1. n - 1 \in 1 .. n - 1 /\ n \in 1 .. n /\ n - 1 # 0
      BY <1>1, <1>8
    <3>2. stack # << >>
      BY <1>4, <3>1, EmptySeq
    <3> QED BY <3>1, <3>2
  <2>2. Top(left) = it.stack[n - 1]
    BY <1>4, <1>6, <2>1 DEF Top, Last
  <2>3. \A i \in 1 .. n - 1 : it.stack[i].next # 0
    BY DEF Standing
  <2>4. Len(path) = b + Len(stack) + 1
    BY <1>1, <1>2, <1>4
  <2>5. ASSUME NEW i \in 1 .. n - 1 PROVE FrameRight(path, stack[i], b + i)
    <3>1. i \in 1 .. n /\ b + i \in 1 .. b + n /\ (b + i) + 1 \in 1 .. b + n
      BY <1>1
    <3>2. FrameRight(it.path, it.stack[i], b + i)
      BY <3>1 DEF Standing
    <3>3. path[b + i] = it.path[b + i] /\ path[(b + i) + 1] = it.path[(b + i) + 1]
      BY <1>1, <1>2, <3>1
    <3>4. stack[i] = it.stack[i]
      BY <1>4
    <3> QED BY <3>2, <3>3, <3>4 DEF FrameRight
  <2>6. Standing(left, b)
    <3>1. \A i \in 1 .. (n - 1) - 1 : i \in 1 .. n - 1
      BY <1>1
    <3> QED BY <1>1, <1>2, <1>4, <1>6, <2>1, <2>2, <2>3, <2>4, <2>5, <3>1 DEF Standing
  <2>7. \A i \in 1 .. b + 1 : left.path[i] = it.path[i]
    <3>1. \A i \in 1 .. b + 1 : i \in 1 .. b + n
      BY <1>1
    <3> QED BY <1>1, <1>2, <1>6, <3>1
  <2> QED BY <1>6, <2>6, <2>7 DEF IteratorRight, StaysOn, left
<1> QED BY <1>7, <1>8

\* A frame that is looked at is opened, or dropped.
LEMMA LookStands ==
  ASSUME tree \in DOMAIN Trees, NEW it \in Iterators, NEW b \in Nat, Standing(it, b),
         ~Top(it).open, NEW deadEnd
  PROVE  IteratorRight(Look(it, deadEnd)) /\ StaysOn(Look(it, deadEnd), it, b)
<1> DEFINE n == Len(it.stack)
           front == Front(it.stack)
           ends == deadEnd \/ Below(it) = << >>
           opened == Opened(Top(it).node)
           looked == Look(it, deadEnd)
<1>1. n \in Nat \ {0} /\ Top(it) = it.stack[n] /\ Top(it) \in Frames
  BY BaseLeads
<1>2. it.stack \in Seq(Frames) /\ it.stack # << >> /\ it.path \in Seq(Elements)
  BY DEF Iterators, Standing
<1>3. /\ front \in Seq(Frames) /\ Len(front) = n - 1
      /\ \A i \in 1 .. n - 1 : front[i] = it.stack[i]
  BY <1>2, FrontThen
<1>4. Top(it).next = 0
  BY <1>1 DEF Standing, FrameRight
<1>5. Way(it.path) /\ Len(it.path) = b + n
  BY <1>1, <1>4 DEF Standing
<1>6. opened \in Frames /\ opened = [node |-> Top(it).node, next |-> 0, open |-> TRUE]
  BY <1>1 DEF Frames, Opened
<1>7. ASSUME NEW i \in 1 .. n
      PROVE  FrameRight(it.path, it.stack[i], b + i)
  BY DEF Standing
<1>8. \A i \in 1 .. n - 1 : it.stack[i].next # 0
  BY DEF Standing
<1> HIDE DEF front, opened, n
<1>9. CASE ends
  <2>1. looked = [it EXCEPT !.stack = front \o << >>]
    BY <1>9 DEF Look, front
  <2>2. front \o << >> = front
    BY <1>3, ConcatEmptySeq
  <2>3. looked \in Iterators /\ looked.path = it.path /\ looked.stack = front
    BY <1>3, <2>1, <2>2 DEF Iterators
  <2>4. CASE n = 1
    <3>1. front = << >>
      BY <1>3, <2>4, EmptySeq
    <3> QED BY <1>5, <2>3, <3>1 DEF IteratorRight, StaysOn
  <2>5. CASE n # 1
    <3>1. n - 1 \in 1 .. n - 1 /\ n - 1 # 0
      BY <1>1, <2>5
    <3>2. front # << >>
      BY <1>3, <3>1, EmptySeq
    <3>3. Top(looked) = it.stack[n - 1] /\ Top(looked).next # 0
      BY <1>3, <1>8, <2>3, <3>1 DEF Top, Last
    <3>4. \A i \in 1 .. n - 1 : FrameRight(it.path, front[i], b + i)
      BY <1>1, <1>3, <1>7
    <3>5. \A i \in 1 .. (n - 1) - 1 : front[i].next # 0
      BY <1>1, <1>3, <1>8
    <3>6. Len(it.path) = b + Len(front) + 1
      BY <1>1, <1>3, <1>5
    <3>7. Standing(looked, b)
      BY <1>3, <1>5, <2>3, <3>2, <3>3, <3>4, <3>5, <3>6 DEF Standing
    <3> QED BY <2>3, <3>7 DEF IteratorRight, StaysOn
  <2> QED BY <2>4, <2>5
<1>10. CASE ~ends
  <2> DEFINE stack == front \o <<opened>>
  <2>1. looked = [it EXCEPT !.stack = stack]
    BY <1>10 DEF Look, front, opened
  <2>2. stack = Append(front, opened)
    BY <1>3, <1>6, AppendIsConcat
  <2>3. /\ stack \in Seq(Frames) /\ Len(stack) = n
        /\ \A i \in 1 .. n - 1 : stack[i] = it.stack[i]
        /\ stack[n] = opened
    <3>1. /\ Append(front, opened) \in Seq(Frames)
          /\ Len(Append(front, opened)) = Len(front) + 1
          /\ \A i \in 1 .. Len(front) : Append(front, opened)[i] = front[i]
          /\ Append(front, opened)[Len(front) + 1] = opened
      BY <1>3, <1>6, AppendProperties
    <3>2. Len(front) + 1 = n
      BY <1>1, <1>3
    <3> HIDE DEF stack
    <3> QED BY <1>3, <2>2, <3>1, <3>2
  <2> HIDE DEF stack
  <2>4. looked \in Iterators /\ looked.path = it.path /\ looked.stack = stack
    BY <2>1, <2>3 DEF Iterators
  <2>5. Top(looked) = opened /\ stack # << >>
    BY <1>1, <2>3, <2>4, EmptySeq DEF Top, Last
  <2>6. ASSUME NEW i \in 1 .. n PROVE FrameRight(it.path, stack[i], b + i)
    <3>1. CASE i = n
      <4>1. FrameRight(it.path, it.stack[n], b + n)
        BY <1>7, <3>1
      <4>2. Children(Top(it).node) # << >> /\ Len(Children(Top(it).node)) \in Nat
        <5>1. Children(Top(it).node) \in Seq(Nodes)
          BY <1>1, ChildrenAreNodes DEF Frames
        <5> QED BY <1>10, <5>1, LenProperties DEF Below
      <4> QED BY <1>1, <1>6, <2>3, <3>1, <4>1, <4>2 DEF FrameRight
    <3>2. CASE i # n
      <4>1. i \in 1 .. n - 1
        BY <1>1, <3>2
      <4> QED BY <1>7, <2>3, <4>1
    <3> QED BY <3>1, <3>2
  <2>7. \A i \in 1 .. n - 1 : stack[i].next # 0
    BY <1>8, <2>3
  <2>8. Standing(looked, b)
    BY <1>1, <1>5, <1>6, <2>3, <2>4, <2>5, <2>6, <2>7 DEF Standing
  <2> QED BY <2>4, <2>8 DEF IteratorRight, StaysOn
<1> QED BY <1>9, <1>10

\* Going down to the first or the next child puts it on the path.
LEMMA DownStands ==
  ASSUME tree \in DOMAIN Trees, NEW it \in Iterators, NEW b \in Nat, Standing(it, b),
         Top(it).open, Top(it).next < Len(Below(it))
  PROVE  IteratorRight(Down(it)) /\ Way(Down(it).path) /\ StaysOn(Down(it), it, b)
<1> DEFINE n == Len(it.stack)
           k == Top(it).next
           child == Below(it)[k + 1]
           e == [node |-> child, offset |-> k + 1]
           base == Base(it)
           front == Front(it.stack)
           passed == [Top(it) EXCEPT !.next = @ + 1]
           closed == Closed(child)
           path == Append(base, e)
           down == Down(it)
<1>1. /\ n \in Nat \ {0} /\ Top(it) = it.stack[n] /\ Top(it) \in Frames
      /\ Way(base) /\ Len(base) = b + n
      /\ NodeOf(base) = Top(it).node
      /\ \A i \in 1 .. b + n : base[i] = it.path[i]
      /\ k # 0 => Last(it.path).offset = k
  BY BaseLeads
<1>2. k \in Nat /\ Top(it).node \in Nodes
  BY <1>1 DEF Frames
<1>3. /\ k + 1 \in DOMAIN Children(Top(it).node) /\ child \in Nodes
      /\ k + 1 <= Len(Children(Top(it).node)) /\ Children(Top(it).node) # << >>
  <2>1. Children(Top(it).node) \in Seq(Nodes)
    BY <1>2, ChildrenAreNodes
  <2>2. /\ Len(Children(Top(it).node)) \in Nat
        /\ DOMAIN Children(Top(it).node) = 1 .. Len(Children(Top(it).node))
    BY <2>1, LenProperties
  <2>3. k + 1 \in 1 .. Len(Children(Top(it).node))
    BY <1>2, <2>2 DEF Below
  <2>4. child \in Nodes
    BY <2>1, <2>3, ElementOfSeq DEF Below
  <2> QED BY <2>1, <2>2, <2>3, <2>4, EmptySeq
<1>4. e \in Elements /\ Linked(NodeOf(base), e)
  BY <1>1, <1>2, <1>3 DEF Elements, Linked, Below
<1>5. base \in Seq(Elements)
  BY <1>1 DEF Way
<1>6. down.path = path
  <2>1. CASE k = 0
    BY <2>1 DEF Down, Goto, Base
  <2>2. CASE k # 0
    <3>1. down.path = Front(it.path) \o <<e>>
      BY <1>1, <2>2 DEF Down, Inc
    <3>2. Front(it.path) \o <<e>> = Append(base, e)
      <4> HIDE DEF e
      <4>1. Front(it.path) = base
        BY <2>2 DEF Base
      <4> QED BY <1>4, <1>5, <4>1, AppendIsConcat
    <3> QED BY <3>1, <3>2
  <2> QED BY <2>1, <2>2
<1>7. down = [path |-> down.path, stack |-> front \o <<passed, closed>>]
  BY DEF Down
<1>8. /\ passed \in Frames /\ passed.node = Top(it).node /\ passed.next = k + 1
      /\ passed.open = Top(it).open
      /\ closed \in Frames /\ closed.node = child /\ closed.next = 0 /\ closed.open = FALSE
  <2>1. PICK top \in Frames : top = Top(it)
    BY <1>1
  <2>2. /\ [top EXCEPT !.next = @ + 1] \in Frames
        /\ [top EXCEPT !.next = @ + 1].node = top.node
        /\ [top EXCEPT !.next = @ + 1].next = top.next + 1
        /\ [top EXCEPT !.next = @ + 1].open = top.open
    BY DEF Frames
  <2>3. PICK c \in Nodes : c = child
    BY <1>3
  <2>4. /\ Closed(c) \in Frames /\ Closed(c).node = c
        /\ Closed(c).next = 0 /\ Closed(c).open = FALSE
    BY DEF Frames, Closed
  <2> QED BY <2>1, <2>2, <2>3, <2>4
<1>9. e.node = child /\ e.offset = k + 1
  OBVIOUS
<1>10. /\ front \in Seq(Frames) /\ Len(front) = n - 1
       /\ \A i \in 1 .. n - 1 : front[i] = it.stack[i]
  <2>1. it.stack \in Seq(Frames) /\ it.stack # << >>
    BY DEF Iterators, Standing
  <2> QED BY <2>1, FrontThen
<1>11. \A i \in 1 .. n : FrameRight(it.path, it.stack[i], b + i)
  BY DEF Standing
<1>12. \A i \in 1 .. n - 1 : it.stack[i].next # 0
  BY DEF Standing
<1> HIDE DEF n, k, child, e, base, front, passed, closed, path, down
<1>13. /\ Way(path) /\ Len(path) = b + n + 1
       /\ \A i \in 1 .. b + n : path[i] = it.path[i]
       /\ path[b + n + 1] = e
  <2>1. Way(path) /\ Len(path) = Len(base) + 1
    BY <1>1, <1>4, WayGoesOn DEF path
  <2>2. /\ \A i \in 1 .. Len(base) : path[i] = base[i]
        /\ path[Len(base) + 1] = e
    BY <1>4, <1>5, AppendProperties DEF path
  <2> QED BY <1>1, <2>1, <2>2
<1> DEFINE stack == front \o <<passed, closed>>
<1>14. /\ stack \in Seq(Frames) /\ Len(stack) = n + 1
       /\ \A i \in 1 .. n - 1 : stack[i] = it.stack[i]
       /\ stack[n] = passed /\ stack[n + 1] = closed
  <2> DEFINE two == <<passed, closed>>
  <2>1. /\ two \in Seq(Frames) /\ Len(two) = 2 /\ two[1] = passed /\ two[2] = closed
    BY <1>8
  <2>2. stack = front \o two
    OBVIOUS
  <2> HIDE DEF two, stack
  <2>3. /\ stack \in Seq(Frames) /\ Len(stack) = Len(front) + Len(two)
        /\ \A i \in 1 .. Len(front) + Len(two) :
             stack[i] = IF i <= Len(front) THEN front[i] ELSE two[i - Len(front)]
    <3>1. front \in Seq(Frames) /\ two \in Seq(Frames)
      BY <1>10, <2>1
    <3> QED BY ONLY <2>2, <3>1, ConcatProperties
  <2>4. Len(front) + Len(two) = n + 1 /\ Len(front) = n - 1
    BY <1>1, <1>10, <2>1
  <2>5. ASSUME NEW i \in 1 .. n - 1 PROVE stack[i] = it.stack[i]
    <3>1. i \in 1 .. n + 1 /\ i <= n - 1
      BY <1>1
    <3>2. stack[i] = front[i]
      BY <2>3, <2>4, <3>1
    <3> QED BY <1>10, <3>2
  <2>6. stack[n] = passed /\ stack[n + 1] = closed
    <3>1. /\ n \in 1 .. n + 1 /\ n + 1 \in 1 .. n + 1
          /\ ~(n <= n - 1) /\ ~(n + 1 <= n - 1)
          /\ n - (n - 1) = 1 /\ (n + 1) - (n - 1) = 2
      BY <1>1
    <3> QED BY <2>1, <2>3, <2>4, <3>1
  <2> QED BY <2>3, <2>4, <2>5, <2>6
<1> HIDE DEF stack
<1>15. down \in Iterators /\ down.path = path /\ down.stack = stack
  <2>1. down = [path |-> path, stack |-> stack]
    BY <1>6, <1>7 DEF stack
  <2>2. path \in Seq(Elements) /\ stack \in Seq(Frames)
    BY <1>13, <1>14 DEF Way
  <2> QED BY <2>1, <2>2 DEF Iterators
<1>16. ASSUME NEW i \in 1 .. n + 1 PROVE FrameRight(path, stack[i], b + i)
  <2>1. CASE i < n
    <3>1. /\ i \in 1 .. n /\ i \in 1 .. n - 1 /\ b + i \in 1 .. b + n
          /\ (b + i) + 1 \in 1 .. b + n
      BY <1>1, <2>1
    <3> QED BY <1>11, <1>13, <1>14, <3>1 DEF FrameRight
  <2>2. CASE i = n
    <3>1. n \in 1 .. n /\ b + n \in 1 .. b + n /\ (b + n) + 1 = b + n + 1
      BY <1>1
    <3>2. it.path[b + n].node = Top(it).node
      BY <1>1, <1>11, <3>1 DEF FrameRight
    <3>3. passed.open = TRUE /\ passed.next # 0
      BY <1>2, <1>8 DEF Frames
    <3> QED BY <1>3, <1>8, <1>9, <1>13, <1>14, <2>2, <3>1, <3>2, <3>3 DEF FrameRight
  <2>3. CASE i = n + 1
    <3>1. b + i = b + n + 1
      BY <1>1, <2>3
    <3>2. Len(Children(child)) \in Nat
      BY <1>3, ChildrenAreNodes, LenProperties
    <3> QED BY <1>8, <1>9, <1>13, <1>14, <2>3, <3>1, <3>2 DEF FrameRight
  <2> QED BY <1>1, <2>1, <2>2, <2>3
<1>17. ASSUME NEW i \in 1 .. (n + 1) - 1 PROVE stack[i].next # 0
  <2>1. CASE i = n
    BY <1>2, <1>8, <1>14, <2>1
  <2>2. CASE i # n
    <3>1. i \in 1 .. n - 1
      BY <1>1, <2>2
    <3> QED BY <1>12, <1>14, <3>1
  <2> QED BY <2>1, <2>2
<1>18. Top(down).next = 0 /\ stack # << >>
  <2>1. Len(stack) # 0
    BY <1>1, <1>14
  <2> QED BY <1>8, <1>14, <1>15, <2>1, EmptySeq DEF Top, Last
<1>19. Len(path) = b + Len(stack) + 0
  BY <1>1, <1>13, <1>14
<1>20. Standing(down, b)
  BY <1>13, <1>14, <1>15, <1>16, <1>17, <1>18, <1>19 DEF Standing
<1>21. StaysOn(down, it, b)
  <2>1. \A i \in 1 .. b + 1 : i \in 1 .. b + n
    BY <1>1
  <2> QED BY <1>13, <1>15, <1>20, <2>1 DEF StaysOn
<1> QED BY <1>13, <1>15, <1>20, <1>21 DEF IteratorRight, down

\* Together: the loop keeps its iterator right, and its assertions hold.
LEMMA ClimbStands ==
  ASSUME tree \in DOMAIN Trees, NEW it, IteratorRight(it), ~IsOver(it), Top(it).open
  PROVE  /\ IteratorRight(Climb(it)) /\ Check(Climb(it).path)
         /\ Agrees(it)
         /\ \A b \in Nat : Standing(it, b) => StaysOn(Climb(it), it, b)
<1>1. PICK b \in Nat : Standing(it, b)
  BY DEF IteratorRight, IsOver
<1>2. it \in Iterators
  BY DEF IteratorRight
<1>3. CASE Top(it).next < Len(Below(it))
  <2>1. /\ IteratorRight(Down(it)) /\ Way(Down(it).path)
        /\ \A c \in Nat : Standing(it, c) => StaysOn(Down(it), it, c)
    BY <1>1, <1>2, <1>3, DownStands
  <2> QED BY <1>1, <1>2, <1>3, <2>1, StandingAgrees DEF Climb, Way
<1>4. CASE ~(Top(it).next < Len(Below(it)))
  <2>1. Top(it).next # 0
    <3> DEFINE n == Len(it.stack)
    <3>1. n \in Nat \ {0} /\ Top(it) = it.stack[n] /\ Top(it) \in Frames
      BY <1>1, <1>2, BaseLeads
    <3>2. n \in 1 .. n
      BY <3>1
    <3>3. Children(Top(it).node) # << >>
      BY <1>1, <3>1, <3>2 DEF Standing, FrameRight
    <3>4. Children(Top(it).node) \in Seq(Nodes)
      BY <3>1, ChildrenAreNodes DEF Frames
    <3>5. Len(Children(Top(it).node)) \in Nat \ {0}
      BY <3>3, <3>4, EmptySeq, LenProperties
    <3> QED BY <1>4, <3>5 DEF Below
  <2>2. /\ IteratorRight(Leave(it))
        /\ \A c \in Nat : Standing(it, c) => StaysOn(Leave(it), it, c)
    BY <1>1, <1>2, <2>1, LeaveStands
  <2>3. Check(Leave(it).path)
    <3>1. Leave(it).path = Base(it)
      BY <2>1 DEF Leave, Base
    <3> QED BY <1>1, <1>2, <3>1, BaseLeads DEF Way
  <2> QED BY <1>1, <1>2, <1>4, <2>2, <2>3, StandingAgrees DEF Climb
<1> QED BY <1>3, <1>4

Ways == {path \in Seq(Elements) : Way(path)}
Folders == [path : Ways, others : Seq(Ways)]

\* A new iterator.
LEMMA IteratorStands ==
  ASSUME tree \in DOMAIN Trees, NEW path, Way(path)
  PROVE  IteratorRight(Iterator(path)) /\ Standing(Iterator(path), Len(path) - 1)
<1> DEFINE it == Iterator(path)
           frame == Closed(NodeOf(path))
           stack == <<frame>>
           b == Len(path) - 1
<1>1. NodeOf(path) \in Nodes
  BY WayEnds
<1>2. /\ frame \in Frames /\ frame.node = NodeOf(path)
      /\ frame.next = 0 /\ frame.open = FALSE
  <2>1. PICK node \in Nodes : node = NodeOf(path)
    BY <1>1
  <2>2. /\ Closed(node) \in Frames /\ Closed(node).node = node
        /\ Closed(node).next = 0 /\ Closed(node).open = FALSE
    BY DEF Frames, Closed
  <2> QED BY <2>1, <2>2
<1>3. path \in Seq(Elements) /\ Len(path) \in Nat \ {0}
  BY EmptySeq, LenProperties DEF Way
<1>4. it = [path |-> path, stack |-> stack]
  BY DEF Iterator
<1>5. NodeOf(path) = path[Len(path)].node
  BY DEF NodeOf, Last
<1> HIDE DEF it, frame
<1>6. stack \in Seq(Frames) /\ Len(stack) = 1 /\ stack[1] = frame
  BY <1>2
<1> HIDE DEF stack
<1>7. it \in Iterators /\ it.path = path /\ it.stack = stack
  BY <1>3, <1>4, <1>6 DEF Iterators
<1>8. Top(it) = frame /\ stack # << >>
  <2>1. Top(it) = frame
    BY <1>6, <1>7 DEF Top, Last
  <2>2. Len(stack) # 0
    BY <1>6
  <2> QED BY <1>6, <2>1, <2>2, EmptySeq
<1>9. b \in Nat /\ b + 1 = Len(path) /\ Len(path) = b + Len(stack) + 0
  BY <1>3, <1>6
<1>10. Len(Children(frame.node)) \in Nat
  BY <1>1, <1>2, ChildrenAreNodes, LenProperties
<1> HIDE DEF b
<1>11. FrameRight(path, stack[1], b + 1)
  BY <1>2, <1>5, <1>6, <1>9, <1>10 DEF FrameRight
<1>12. \A i \in 1 .. Len(stack) : i = 1
  BY <1>6
<1>13. \A i \in 1 .. Len(stack) - 1 : FALSE
  BY <1>6
<1>14. Standing(it, b)
  BY <1>2, <1>7, <1>8, <1>9, <1>11, <1>12, <1>13 DEF Standing
<1> QED BY <1>7, <1>9, <1>14 DEF IteratorRight, it, b

\* goto_by_name leads from ways to ways.
LEMMA GotoByNameIsWays ==
  ASSUME tree \in DOMAIN Trees, NEW paths \in SUBSET Ways, NEW name
  PROVE  GotoByName(paths, name) \subseteq Ways
<1>1. SUFFICES ASSUME NEW q \in GotoByName(paths, name) PROVE q \in Ways
  OBVIOUS
<1>2. PICK p \in paths :
        q \in {Goto(p, Children(NodeOf(p))[o], o) :
                 o \in {i \in DOMAIN Children(NodeOf(p)) :
                          Label(Children(NodeOf(p))[i]) = name}}
  BY <1>1 DEF GotoByName
<1>3. PICK o \in DOMAIN Children(NodeOf(p)) : q = Goto(p, Children(NodeOf(p))[o], o)
  BY <1>2
<1>4. Way(p) /\ NodeOf(p) \in Nodes
  BY WayEnds DEF Ways
<1> DEFINE e == [node |-> Children(NodeOf(p))[o], offset |-> o]
<1>5. e \in Elements /\ Linked(NodeOf(p), e)
  BY <1>4, ChildrenAreNodes DEF Elements, Linked
<1>6. q = Append(p, e)
  BY <1>3 DEF Goto
<1> HIDE DEF e
<1>7. Way(q)
  BY <1>4, <1>5, <1>6, WayGoesOn
<1> QED BY <1>7 DEF Ways, Way

\* So do three of them, for the folder of a module.
LEMMA FolderIsWay ==
  ASSUME tree \in DOMAIN Trees, NEW path \in Ways, NEW names
  PROVE  Folder(path, names) \in Seq(Ways)
<1> DEFINE first == GotoByName({path}, names[1])
           outer == GotoByName(first, names[2])
           reached == GotoByName(outer, names[3])
<1>1. {path} \in SUBSET Ways
  OBVIOUS
<1>2. first \in SUBSET Ways
  BY <1>1, GotoByNameIsWays
<1> HIDE DEF first
<1>3. outer \in SUBSET Ways
  BY <1>2, GotoByNameIsWays
<1> HIDE DEF outer
<1>4. reached \in SUBSET Ways
  BY <1>3, GotoByNameIsWays
<1>5. Folder(path, names) = IF reached = {} THEN << >> ELSE <<CHOOSE p \in reached : TRUE>>
  BY DEF Folder, reached, outer, first
<1> HIDE DEF reached
<1>6. reached # {} => (CHOOSE p \in reached : TRUE) \in Ways
  BY <1>4
<1>7. reached # {} => <<CHOOSE p \in reached : TRUE>> \in Seq(Ways)
  BY <1>6
<1>8. << >> \in Seq(Ways)
  BY EmptySeq
<1> QED BY <1>5, <1>7, <1>8

\* The folders of a module are ways, and so are their other folders.
LEMMA FoldersAreWays ==
  ASSUME tree \in DOMAIN Trees, NEW path \in Ways
  PROVE  MavenModuleFolders(path) \in Seq(Folders)
<1> DEFINE tests == Folder(path, SourceFolders[1])
           sources == Folder(path, SourceFolders[2])
           a == [i \in DOMAIN tests |-> [path |-> tests[i], others |-> << >>]]
           c == [i \in DOMAIN sources |-> [path |-> sources[i], others |-> tests]]
<1>1. tests \in Seq(Ways) /\ sources \in Seq(Ways)
  BY FolderIsWay
<1>2. MavenModuleFolders(path) = a \o c
  BY DEF MavenModuleFolders
<1> HIDE DEF tests, sources
<1>3. /\ DOMAIN tests = 1 .. Len(tests) /\ DOMAIN sources = 1 .. Len(sources)
      /\ Len(tests) \in Nat /\ Len(sources) \in Nat
      /\ \A i \in 1 .. Len(tests) : tests[i] \in Ways
      /\ \A i \in 1 .. Len(sources) : sources[i] \in Ways
  BY <1>1, LenProperties, ElementOfSeq
<1>4. << >> \in Seq(Ways)
  BY EmptySeq
<1>5. \A i \in 1 .. Len(tests) : [path |-> tests[i], others |-> << >>] \in Folders
  BY <1>3, <1>4 DEF Folders
<1>6. \A i \in 1 .. Len(sources) : [path |-> sources[i], others |-> tests] \in Folders
  BY <1>1, <1>3 DEF Folders
<1>7. a \in Seq(Folders)
  BY <1>3, <1>5, IsASeq
<1>8. c \in Seq(Folders)
  BY <1>3, <1>6, IsASeq
<1> HIDE DEF a, c
<1> QED BY <1>2, <1>7, <1>8, ConcatProperties

-----------------------------------------------------------------------------
(* The cursor of a search, and the invariant.                              *)

CursorRight(st, c) ==
  /\ DOMAIN c = DOMAIN Idle
  /\ c.again \in BOOLEAN
  /\ StandsAt(st, c.scout, c.at)
  /\ c.curr = NodeAlways(st, c.scout)
  /\ c.prev \in Nodes \cup {0} /\ c.next \in Nat \ {0}

\* a cursor above its declaration, or another place
CursorAround(st, c) == CursorRight(st, c) /\ Children(c.curr) # << >>

\* with the cursor to go on from when the walk is done again
WalkFrom(st, s) ==
  /\ CursorRight(st, s)
  /\ s.again => CursorAround(st, s.saved[1]) /\ ~s.saved[1].again

WalkRight(st, s) == WalkFrom(st, s) /\ Children(s.curr) # << >>

SearchRight(st, s) ==
  /\ WalkRight(st, s)
  /\ s.stage # "idle"
  /\ s.stage = "body" => Kind(s.curr) \in TypeBodies
  /\ s.stage = "enum" => Kind(s.curr) = "EnumBody"
  /\ s.stage = "program" => Kind(s.curr) = "Program" /\ ~s.again

IteratorsRight ==
  /\ tree \in DOMAIN Trees
  /\ IteratorRight(modules) /\ IteratorRight(declarations)
  /\ folders \in Seq(Folders)
  /\ ~IsOver(declarations) \/ decl # << >> => folders # << >>
  /\ decl # << >> => Way(decl) /\ Declares(decl)
  /\ panicked \in BOOLEAN

FinderRight ==
  /\ RefsRight(store, refs, found)
  /\ search = Idle => store = << >>
  /\ search # Idle => /\ Rooted(store) /\ StoreCheck(store)
                      /\ SearchRight(store, search)
                      /\ decl # << >> /\ NodeOf(decl) # Root

Inv == IteratorsRight /\ FinderRight

\* The tree does not change, and what is said of it is said of it next.
LEMMA SameTree ==
  ASSUME tree' = tree
  PROVE  /\ IteratorRight(modules)' <=> IteratorRight(modules')
         /\ IteratorRight(declarations)' <=> IteratorRight(declarations')
         /\ Folders' = Folders
         /\ Way(decl)' <=> Way(decl')
         /\ Declares(decl)' <=> Declares(decl')
<1>1. Nodes' = Nodes /\ Root' = Root /\ Elements' = Elements /\ Frames' = Frames
  BY DEF Nodes, Root, Elements, Frames
<1>2. ASSUME NEW n PROVE Children(n)' = Children(n) /\ Kind(n)' = Kind(n)
  BY DEF Children, Kind
<1>7. ASSUME NEW p PROVE Declares(p)' <=> Declares(p)
  BY <1>2 DEF Declares
<1>3. ASSUME NEW p PROVE Way(p)' <=> Way(p)
  BY <1>1, <1>2 DEF Way, Check, Linked
<1>4. Ways' = Ways
  BY <1>1, <1>3 DEF Ways
<1>5. Folders' = Folders
  BY <1>4 DEF Folders
<1>6. ASSUME NEW it PROVE IteratorRight(it)' <=> IteratorRight(it)
  <2>1. Iterators' = Iterators
    BY <1>1 DEF Iterators
  <2>2. ASSUME NEW path, NEW f, NEW i PROVE FrameRight(path, f, i)' <=> FrameRight(path, f, i)
    BY <1>2 DEF FrameRight
  <2>3. ASSUME NEW b PROVE Standing(it, b)' <=> Standing(it, b)
    BY <1>3, <2>2 DEF Standing, Top
  <2> QED BY <1>3, <2>1, <2>3 DEF IteratorRight
<1> QED BY <1>3, <1>5, <1>6, <1>7

\* The first half of the invariant, after a step.
LEMMA IteratorsNext ==
  ASSUME IteratorsRight, tree' = tree,
         IteratorRight(modules'), IteratorRight(declarations'),
         folders' \in Seq(Folders),
         declarations'.stack # << >> \/ decl' # << >> => folders' # << >>,
         decl' # << >> => Way(decl') /\ Declares(decl'),
         panicked' \in BOOLEAN
  PROVE  IteratorsRight'
BY SameTree DEF IteratorsRight, IsOver

SameFinderTree ==
  /\ (Rooted(store)' <=> Rooted(store'))
  /\ (StoreCheck(store)' <=> StoreCheck(store'))
  /\ (SearchRight(store, search)' <=> SearchRight(store', search'))
  /\ (RefsRight(store, refs, found)' <=> RefsRight(store', refs', found'))

\* What is said of the finder in the same tree.
LEMMA SameTreeFinder ==
  ASSUME tree' = tree
  PROVE  SameFinderTree
<1>1. Nodes' = Nodes /\ Root' = Root /\ Elements' = Elements /\ Entries' = Entries
  BY DEF Nodes, Root, Elements, Entries
<1>2. ASSUME NEW n PROVE Children(n)' = Children(n) /\ Kind(n)' = Kind(n)
  BY DEF Children, Kind
<1>3. ASSUME NEW st PROVE Rooted(st)' <=> Rooted(st)
  BY <1>1 DEF Rooted
<1>4. ASSUME NEW st PROVE StoreCheck(st)' <=> StoreCheck(st)
  BY <1>2 DEF StoreCheck, Linked
<1>5. ASSUME NEW st, NEW s PROVE Sound(st, s)' <=> Sound(st, s)
  <2>1. On(st, s)' <=> On(st, s)
    BY <1>1 DEF On
  <2>2. CheckWith(st, s)' <=> CheckWith(st, s)
    BY <1>2 DEF CheckWith, Check, Linked
  <2> QED BY <1>3, <1>4, <2>1, <2>2 DEF Sound
<1>6. ASSUME NEW st, NEW s, NEW t PROVE StandsAt(st, s, t)' <=> StandsAt(st, s, t)
  BY <1>5 DEF StandsAt
<1>7. ASSUME NEW st, NEW c PROVE CursorRight(st, c)' <=> CursorRight(st, c)
  BY <1>1, <1>6 DEF CursorRight
<1>8. ASSUME NEW st, NEW s PROVE SearchRight(st, s)' <=> SearchRight(st, s)
  BY <1>2, <1>7 DEF SearchRight, WalkRight, WalkFrom, CursorAround
<1>9. ASSUME NEW st, NEW rs, NEW fs PROVE RefsRight(st, rs, fs)' <=> RefsRight(st, rs, fs)
  BY <1>2 DEF RefsRight, HasPosition
<1>10. Rooted(store)' <=> Rooted(store')
  BY <1>3
<1>11. StoreCheck(store)' <=> StoreCheck(store')
  BY <1>4
<1>12. SearchRight(store, search)' <=> SearchRight(store', search')
  BY <1>8
<1>13. RefsRight(store, refs, found)' <=> RefsRight(store', refs', found')
  BY <1>9
<1> QED BY <1>10, <1>11, <1>12, <1>13 DEF SameFinderTree

\* The second half of the invariant, after a step.
LEMMA FinderNext ==
  ASSUME tree' = tree, RefsRight(store', refs', found'),
         search' = Idle => store' = << >>,
         search' # Idle => /\ Rooted(store') /\ StoreCheck(store')
                           /\ SearchRight(store', search')
                           /\ decl' # << >> /\ NodeOf(decl') # Root
  PROVE  FinderRight'
<1>1. Root' = Root /\ NodeOf(decl)' = NodeOf(decl')
  BY DEF Root, NodeOf
<1> QED BY <1>1, SameTreeFinder DEF SameFinderTree, FinderRight

\* The iterators and the folders, while no declaration is searched.
LEMMA IterateKeeps ==
  ASSUME Inv, Iterate
  PROVE  Inv'
<1> USE DEF iterators, finder
<1>1. IteratorsRight /\ FinderRight /\ tree \in DOMAIN Trees
  BY DEF Inv, IteratorsRight
<1>2. ASSUME UNCHANGED <<tree, finder>>, search # Idle => decl' = decl
      PROVE  FinderRight'
  BY <1>1, <1>2, FinderNext DEF FinderRight
<1>3. ASSUME NEW fs \in Seq(Folders), StartOn(fs)
      PROVE  /\ IteratorRight(declarations') /\ folders' \in Seq(Folders)
             /\ declarations'.stack # << >> => folders' # << >>
  <2>1. CASE fs = << >>
    <3>1. declarations' = Exhausted /\ folders' = << >>
      BY <1>3, <2>1 DEF StartOn
    <3>2. IteratorRight(Exhausted) /\ Exhausted.stack = << >>
      BY EmptySeq DEF IteratorRight, Exhausted, Iterators
    <3> QED BY <1>3, <2>1, <3>1, <3>2
  <2>2. CASE fs # << >>
    <3>1. declarations' = Iterator(fs[1].path) /\ folders' = fs
      BY <1>3, <2>2 DEF StartOn
    <3>2. fs[1] \in Folders
      <4>1. 1 \in 1 .. Len(fs)
        BY <2>2, EmptySeq, LenProperties
      <4> QED BY <4>1, ElementOfSeq
    <3>3. Way(fs[1].path)
      BY <3>2 DEF Folders, Ways
    <3> QED BY <1>1, <2>2, <3>1, <3>3, IteratorStands
  <2> QED BY <2>1, <2>2
<1>4. CASE ClimbModules
  <2>1. /\ modules' = Climb(modules)
        /\ panicked' = ~(Agrees(modules) /\ Check(Climb(modules).path))
        /\ UNCHANGED <<tree, folders, declarations, decl, finder, written>>
        /\ ~IsOver(modules) /\ Top(modules).open
    BY <1>4 DEF ClimbModules, ModulesMove
  <2>2. IteratorRight(modules') /\ panicked' = FALSE
    BY <1>1, <2>1, ClimbStands DEF IteratorsRight
  <2>3. IteratorsRight'
    BY <1>1, <2>1, <2>2, IteratorsNext DEF IteratorsRight, IsOver
  <2> QED BY <1>2, <2>1, <2>3 DEF Inv
<1>5. CASE LookForModule
  <2>1. /\ modules' = Look(modules, OutOfModules(Top(modules).node))
        /\ ~IsOver(modules) /\ ~Top(modules).open
        /\ UNCHANGED <<tree, decl, finder, written, panicked>>
        /\ folders = << >>
    BY <1>5 DEF LookForModule, ModulesMove
  <2>2. PICK b \in Nat : Standing(modules, b)
    BY <1>1, <2>1 DEF IteratorsRight, IteratorRight, IsOver
  <2>3. IteratorRight(modules')
    BY <1>1, <2>1, <2>2, LookStands DEF IteratorsRight, IteratorRight
  <2>4. CASE UNCHANGED <<folders, declarations>>
    <3>1. IteratorsRight'
      BY <1>1, <2>1, <2>3, <2>4, IteratorsNext DEF IteratorsRight, IsOver
    <3> QED BY <1>2, <2>1, <3>1 DEF Inv
  <2>5. CASE StartOn(MavenModuleFolders(modules.path))
    <3>1. modules.path \in Ways
      BY <2>2 DEF Standing, Ways, Way
    <3>2. MavenModuleFolders(modules.path) \in Seq(Folders)
      BY <1>1, <3>1, FoldersAreWays
    <3>3. /\ IteratorRight(declarations') /\ folders' \in Seq(Folders)
          /\ declarations'.stack # << >> => folders' # << >>
      BY <1>3, <2>5, <3>2
    <3>4. decl = << >>
      BY <1>1, <2>1 DEF IteratorsRight
    <3>5. IteratorsRight'
      BY <1>1, <2>1, <2>3, <3>3, <3>4, IteratorsNext DEF IteratorsRight
    <3> QED BY <1>2, <2>1, <3>5 DEF Inv
  <2> QED BY <1>5, <2>4, <2>5 DEF LookForModule
<1>6. CASE NextFolder
  <2>1. /\ folders # << >> /\ decl = << >> /\ StartOn(Tail(folders))
        /\ UNCHANGED <<tree, modules, decl, finder, written, panicked>>
    BY <1>6 DEF NextFolder
  <2>2. Tail(folders) \in Seq(Folders)
    BY <1>1, <2>1, HeadTailProperties DEF IteratorsRight
  <2>3. /\ IteratorRight(declarations') /\ folders' \in Seq(Folders)
        /\ declarations'.stack # << >> => folders' # << >>
    BY <1>3, <2>1, <2>2
  <2>4. IteratorsRight'
    BY <1>1, <2>1, <2>3, IteratorsNext DEF IteratorsRight
  <2> QED BY <1>2, <2>1, <2>4 DEF Inv
<1>7. CASE ClimbDeclarations
  <2>1. /\ declarations' = Climb(declarations)
        /\ panicked' = ~(Agrees(declarations) /\ Check(Climb(declarations).path))
        /\ UNCHANGED <<tree, modules, folders, decl, finder, written>>
        /\ ~IsOver(declarations) /\ Top(declarations).open
    BY <1>7 DEF ClimbDeclarations, DeclarationsMove
  <2>2. IteratorRight(declarations') /\ panicked' = FALSE
    BY <1>1, <2>1, ClimbStands DEF IteratorsRight
  <2>3. IteratorsRight'
    BY <1>1, <2>1, <2>2, IteratorsNext DEF IteratorsRight
  <2> QED BY <1>2, <2>1, <2>3 DEF Inv
<1>8. CASE LookForDeclaration
  <2>1. /\ declarations' = Look(declarations, Kind(Top(declarations).node) \in Ignored)
        /\ decl' = IF Declares(declarations.path) THEN declarations.path ELSE << >>
        /\ ~IsOver(declarations) /\ ~Top(declarations).open /\ decl = << >>
        /\ UNCHANGED <<tree, modules, folders, finder, written, panicked>>
    BY <1>8 DEF LookForDeclaration, DeclarationsMove
  <2>2. PICK b \in Nat : Standing(declarations, b)
    BY <1>1, <2>1 DEF IteratorsRight, IteratorRight, IsOver
  <2>3. IteratorRight(declarations')
    BY <1>1, <2>1, <2>2, LookStands DEF IteratorsRight, IteratorRight
  <2>4. decl' # << >> => Way(decl') /\ Declares(decl')
    BY <2>1, <2>2 DEF Standing
  <2>5. IteratorsRight'
    BY <1>1, <2>1, <2>3, <2>4, IteratorsNext DEF IteratorsRight
  <2>6. search = Idle
    BY <1>1, <2>1 DEF FinderRight
  <2> QED BY <1>2, <2>1, <2>5, <2>6 DEF Inv
<1>9. CASE Unsearched
  <2>1. /\ search = Idle /\ decl' = << >>
        /\ UNCHANGED <<tree, iterators, finder, written, panicked>>
    BY <1>9 DEF Unsearched
  <2>2. IteratorsRight'
    BY <1>1, <2>1, IteratorsNext DEF IteratorsRight, IsOver
  <2> QED BY <1>2, <2>1, <2>2 DEF Inv
<1> QED BY <1>4, <1>5, <1>6, <1>7, <1>8, <1>9 DEF Iterate

-----------------------------------------------------------------------------
(* What the walk outward makes of its cursor.                              *)

\* RefsFinder::up goes to the parent, and to no node (0) only from the root.
LEMMA CursorUpFrom ==
  ASSUME tree \in DOMAIN Trees, NEW st, NEW c, WalkFrom(st, c)
  PROVE  /\ c.curr # Root => HasParents(c.scout)
         /\ HasParents(c.scout) => /\ WalkRight(st, CursorUp(st, c))
                                   /\ CursorUp(st, c).curr # 0
         /\ ~HasParents(c.scout) => CursorUp(st, c).curr = 0
         /\ CursorUp(st, c).stage = c.stage /\ CursorUp(st, c).again = c.again
         /\ CursorUp(st, c).saved = c.saved
<1> DEFINE u == CursorUp(st, c)
<1>1. /\ DOMAIN c = DOMAIN Idle /\ c.again \in BOOLEAN
      /\ StandsAt(st, c.scout, c.at) /\ c.curr = NodeAlways(st, c.scout)
      /\ c.again => CursorAround(st, c.saved[1]) /\ ~c.saved[1].again
  BY DEF WalkFrom, CursorRight
<1>2. DOMAIN Idle = {"stage", "again", "scout", "at", "prev", "curr", "next",
                     "matches", "outcome", "saved"}
  BY DEF Idle
<1>3. /\ DOMAIN u = DOMAIN Idle /\ u.stage = c.stage /\ u.again = c.again
      /\ u.saved = c.saved /\ u.scout = Up(st, c.scout) /\ u.prev = c.curr /\ u.next = 1
      /\ u.curr = IF HasParents(c.scout) THEN NodeAlways(st, Up(st, c.scout)) ELSE 0
      /\ u.at = IF c.at = << >> THEN c.at ELSE Front(c.at)
  <2>1. DOMAIN c = {"stage", "again", "scout", "at", "prev", "curr", "next",
                    "matches", "outcome", "saved"}
    BY <1>1, <1>2
  <2> QED BY <1>2, <2>1 DEF CursorUp
<1> HIDE DEF u
<1>4. c.curr # Root => HasParents(c.scout)
  BY <1>1, StandsAtTrail
<1>5. ASSUME HasParents(c.scout)
      PROVE  CursorRight(st, u) /\ u.curr # 0 /\ Children(u.curr) # << >>
  <2>1. c.at # << >>
    BY <1>1, <1>5, StandsAtTrail
  <2>2. StandsAt(st, u.scout, u.at)
    BY <1>1, <1>3, <1>5, <2>1, UpStands
  <2>3. u.curr = NodeAlways(st, u.scout) /\ u.curr \in Nodes /\ u.curr # 0
    BY <1>3, <1>5, <2>2, StandsAtTrail, ChildrenAreNodes
  <2>4. u.prev \in Nodes \cup {0}
    BY <1>1, <1>3, StandsAtTrail
  <2>5. Children(u.curr) # << >>
    <3>1. \E o \in DOMAIN Children(NodeAlways(st, u.scout)) : TRUE
      BY <1>1, <1>3, <1>5, UpStands
    <3>2. DOMAIN << >> = {}
      OBVIOUS
    <3> QED BY <2>3, <3>1, <3>2
  <2> QED BY <1>1, <1>3, <2>2, <2>3, <2>4, <2>5 DEF CursorRight
<1> QED BY <1>1, <1>3, <1>4, <1>5 DEF WalkFrom, WalkRight, u

\* The cursor stays right, and tells when there was no parent.
LEMMA CursorUpRight ==
  ASSUME tree \in DOMAIN Trees, NEW st, NEW c, WalkRight(st, c)
  PROVE  /\ c.curr # Root => HasParents(c.scout)
         /\ HasParents(c.scout) => /\ WalkRight(st, CursorUp(st, c))
                                   /\ CursorUp(st, c).curr # 0
         /\ ~HasParents(c.scout) => CursorUp(st, c).curr = 0
         /\ CursorUp(st, c).stage = c.stage /\ CursorUp(st, c).again = c.again
         /\ CursorUp(st, c).saved = c.saved
BY CursorUpFrom DEF WalkRight

\* A cursor with another stage, at the first child of its node.
LEMMA ToRight ==
  ASSUME NEW st, NEW c, WalkRight(st, c), NEW stage, stage # "idle",
         stage = "body" => Kind(c.curr) \in TypeBodies,
         stage = "enum" => Kind(c.curr) = "EnumBody",
         stage = "program" => Kind(c.curr) = "Program" /\ ~c.again
  PROVE  SearchRight(st, To(stage, c))
<1> DEFINE t == To(stage, c)
<1>1. DOMAIN c = {"stage", "again", "scout", "at", "prev", "curr", "next",
                  "matches", "outcome", "saved"}
  BY DEF WalkRight, WalkFrom, CursorRight, Idle
<1>2. /\ DOMAIN t = DOMAIN c /\ t.stage = stage /\ t.again = c.again /\ t.saved = c.saved
      /\ t.scout = c.scout /\ t.at = c.at /\ t.curr = c.curr /\ t.prev = c.prev
      /\ t.next = 1
  BY <1>1 DEF To
<1> HIDE DEF t
<1> QED BY <1>2 DEF SearchRight, WalkRight, WalkFrom, CursorRight, t

\* A step of a loop, a match and the end of a search leave the cursor there.
LEMMA OnRight ==
  ASSUME NEW st, NEW c, SearchRight(st, c)
  PROVE  /\ SearchRight(st, [c EXCEPT !.next = @ + 1])
         /\ \A n : SearchRight(st, [c EXCEPT !.matches = n])
         /\ \A o : SearchRight(st, [c EXCEPT !.stage = "over", !.outcome = o])
<1>1. DOMAIN c = {"stage", "again", "scout", "at", "prev", "curr", "next",
                  "matches", "outcome", "saved"}
  BY DEF SearchRight, WalkRight, WalkFrom, CursorRight, Idle
<1>2. SearchRight(st, [c EXCEPT !.next = @ + 1])
  <2> DEFINE t == [c EXCEPT !.next = @ + 1]
  <2>1. /\ DOMAIN t = DOMAIN c /\ t.stage = c.stage /\ t.again = c.again /\ t.saved = c.saved
        /\ t.scout = c.scout /\ t.at = c.at /\ t.curr = c.curr /\ t.prev = c.prev
        /\ t.next = c.next + 1
    BY <1>1
  <2>2. c.next + 1 \in Nat \ {0}
    BY DEF SearchRight, WalkRight, WalkFrom, CursorRight
  <2> HIDE DEF t
  <2>3. SearchRight(st, t)
    BY <2>1, <2>2 DEF SearchRight, WalkRight, WalkFrom, CursorRight
  <2> QED BY <2>3 DEF t
<1>3. ASSUME NEW n PROVE SearchRight(st, [c EXCEPT !.matches = n])
  <2> DEFINE t == [c EXCEPT !.matches = n]
  <2>1. /\ DOMAIN t = DOMAIN c /\ t.stage = c.stage /\ t.again = c.again /\ t.saved = c.saved
        /\ t.scout = c.scout /\ t.at = c.at /\ t.curr = c.curr /\ t.prev = c.prev
        /\ t.next = c.next
    BY <1>1
  <2> HIDE DEF t
  <2>2. SearchRight(st, t)
    BY <2>1 DEF SearchRight, WalkRight, WalkFrom, CursorRight
  <2> QED BY <2>2 DEF t
<1>4. ASSUME NEW o PROVE SearchRight(st, [c EXCEPT !.stage = "over", !.outcome = o])
  <2> DEFINE t == [c EXCEPT !.stage = "over", !.outcome = o]
  <2>1. /\ DOMAIN t = DOMAIN c /\ t.stage = "over" /\ t.again = c.again /\ t.saved = c.saved
        /\ t.scout = c.scout /\ t.at = c.at /\ t.curr = c.curr /\ t.prev = c.prev
        /\ t.next = c.next
    BY <1>1
  <2> HIDE DEF t
  <2>2. SearchRight(st, t)
    BY <2>1 DEF SearchRight, WalkRight, WalkFrom, CursorRight
  <2> QED BY <2>2 DEF t
<1> QED BY <1>2, <1>3, <1>4

\* All of it stays right while the store grows.
LEMMA SearchStays ==
  ASSUME tree \in DOMAIN Trees, NEW old, NEW st, Grows(st, old),
         NEW s, SearchRight(old, s)
  PROVE  SearchRight(st, s)
<1>1. ASSUME NEW c, CursorRight(old, c) PROVE CursorRight(st, c)
  <2>1. StandsAt(old, c.scout, c.at)
    BY <1>1 DEF CursorRight
  <2>2. StandsAt(st, c.scout, c.at) /\ NodeAlways(st, c.scout) = NodeAlways(old, c.scout)
    BY <2>1, StandsStill DEF Grows
  <2> QED BY <1>1, <2>2 DEF CursorRight
<1> QED BY <1>1 DEF SearchRight, WalkRight, WalkFrom, CursorAround

\* The two ways a step of a search goes on.
LEMMA GoingOnKeeps ==
  ASSUME Inv, search # Idle, ~panicked, NEW s, SearchRight(store, s), GoingOn(s)
  PROVE  Inv'
<1>1. /\ search' = s
      /\ UNCHANGED <<tree, modules, folders, declarations, decl, store, refs, found, panicked>>
  BY DEF GoingOn, iterators
<1>2. s # Idle
  BY DEF SearchRight, Idle
<1>3. FinderRight'
  BY <1>1, <1>2, FinderNext DEF Inv, FinderRight
<1>4. IteratorsRight'
  BY <1>1, IteratorsNext DEF Inv, IteratorsRight, IsOver
<1> QED BY <1>3, <1>4 DEF Inv

\* find_all was given a place: the store and the references may have grown.
LEMMA SearchingKeeps ==
  ASSUME Inv, search # Idle, ~panicked, NEW s, SearchRight(store, s),
         NEW place, NEW trail, StandsAt(store, place, trail), Searching(s, place, trail)
  PROVE  Inv'
<1>1. UNCHANGED <<tree, modules, folders, declarations, decl, panicked>>
  BY DEF Searching, iterators
<1>2. /\ tree \in DOMAIN Trees /\ Rooted(store) /\ StoreCheck(store)
      /\ RefsRight(store, refs, found) /\ decl # << >> /\ NodeOf(decl) # Root
  BY DEF Inv, IteratorsRight, FinderRight
<1>3. /\ Grows(store', store) /\ RefsRight(store', refs', found')
      /\ SearchRight(store, search')
  <2>1. CASE search' = s /\ UNCHANGED <<store, refs, found>>
    <3>1. Grows(store, store)
      BY <1>2 DEF Grows, Extends, Rooted
    <3> QED BY <1>2, <2>1, <3>1
  <2>2. CASE search' = [s EXCEPT !.matches = @ + 1] /\ Matching(place, trail)
    BY <1>2, <2>2, MatchingRight, OnRight
  <2> QED BY <2>1, <2>2 DEF Searching
<1>4. SearchRight(store', search')
  BY <1>2, <1>3, SearchStays
<1>5. search' # Idle
  BY <1>3 DEF SearchRight, Idle
<1>6. FinderRight'
  BY <1>1, <1>2, <1>3, <1>4, <1>5, FinderNext DEF Grows
<1>7. IteratorsRight'
  BY <1>1, IteratorsNext DEF Inv, IteratorsRight, IsOver
<1> QED BY <1>6, <1>7 DEF Inv

-----------------------------------------------------------------------------
(* The steps of a search.                                                  *)

\* A node of a kind that no directory has is not the root.
LEMMA NotRoot ==
  ASSUME tree \in DOMAIN Trees, NEW n, Kind(n) \notin DirKinds
  PROVE  n # Root
BY KindsAssumption DEF Kind, Root

\* The kinds that the walk outward looks for are not those of directories.
LEMMA KindsBelow ==
  /\ TypeBodies \cap DirKinds = {} /\ TypeDeclarations \cap DirKinds = {}
  /\ ParameterLists \cap DirKinds = {} /\ Parameters \cap DirKinds = {}
BY DEF TypeBodies, TypeDeclarations, ParameterLists, Parameters, DirKinds

\* A cursor at another stage, at the same child.
LEMMA StageRight ==
  ASSUME NEW st, NEW c, WalkRight(st, c), NEW stage, stage \notin {"idle", "body", "enum", "program"}
  PROVE  SearchRight(st, [c EXCEPT !.stage = stage])
<1> DEFINE t == [c EXCEPT !.stage = stage]
<1>1. DOMAIN c = {"stage", "again", "scout", "at", "prev", "curr", "next",
                  "matches", "outcome", "saved"}
  BY DEF WalkRight, WalkFrom, CursorRight, Idle
<1>2. /\ DOMAIN t = DOMAIN c /\ t.stage = stage /\ t.again = c.again /\ t.saved = c.saved
      /\ t.scout = c.scout /\ t.at = c.at /\ t.curr = c.curr /\ t.prev = c.prev
      /\ t.next = c.next
  BY <1>1
<1> HIDE DEF t
<1>3. SearchRight(st, t)
  BY <1>2 DEF SearchRight, WalkRight, WalkFrom, CursorRight
<1> QED BY <1>3 DEF t

\* The cursor out of a list, which is not the root.
LEMMA PassListsRight ==
  ASSUME tree \in DOMAIN Trees, NEW st, NEW c, WalkRight(st, c)
  PROVE  WalkRight(st, PassLists(st, c))
<1>1. CASE Kind(c.curr) \in ParameterLists
  <2>1. c.curr # Root
    BY <1>1, NotRoot, KindsBelow
  <2> QED BY <1>1, <2>1, CursorUpRight DEF PassLists
<1>2. CASE Kind(c.curr) \notin ParameterLists
  BY <1>2 DEF PassLists
<1> QED BY <1>1, <1>2

\* The cursor above the declaration.
LEMMA CursorAboveRight ==
  ASSUME tree \in DOMAIN Trees, NEW st, NEW on, StandsAt(st, on, TrailOf(decl)),
         NodeAlways(st, on) = NodeOf(decl), NodeOf(decl) # Root,
         NEW s, s = Idle \/ WalkRight(st, s)
  PROVE  WalkRight(st, CursorAbove(st, s, on))
<1> DEFINE c == [s EXCEPT !.scout = on, !.curr = NodeOf(decl), !.at = TrailOf(decl)]
<1> HIDE DEF c
<1>1. /\ DOMAIN s = DOMAIN Idle /\ s.again \in BOOLEAN
      /\ s.again => CursorAround(st, s.saved[1]) /\ ~s.saved[1].again
      /\ s.prev \in Nodes \cup {0} /\ s.next \in Nat \ {0}
  <2>1. Idle.again = FALSE /\ Idle.prev = 0 /\ Idle.next = 1
    BY DEF Idle
  <2>2. CASE s = Idle
    <3>1. s.again = FALSE
      BY <2>1, <2>2
    <3>2. s.prev = 0 /\ s.next = 1 /\ DOMAIN s = DOMAIN Idle
      BY <2>1, <2>2
    <3>3. s.again \in BOOLEAN /\ ~s.again
      BY <3>1, Zenon
    <3>4. s.prev \in Nodes \cup {0} /\ s.next \in Nat \ {0}
      BY <3>2
    <3> QED BY <3>2, <3>3, <3>4
  <2>3. CASE WalkRight(st, s)
    BY <2>3 DEF WalkRight, WalkFrom, CursorRight
  <2> QED BY <2>2, <2>3
<1>2. DOMAIN s = {"stage", "again", "scout", "at", "prev", "curr", "next",
                  "matches", "outcome", "saved"}
  BY <1>1 DEF Idle
<1>3. /\ DOMAIN c = DOMAIN s /\ c.again = s.again /\ c.saved = s.saved
      /\ c.prev = s.prev /\ c.next = s.next
      /\ c.scout = on /\ c.curr = NodeOf(decl) /\ c.at = TrailOf(decl)
  BY <1>2 DEF c
<1>4. WalkFrom(st, c)
  BY <1>1, <1>3 DEF WalkFrom, CursorRight
<1>5. WalkRight(st, CursorUp(st, c))
  BY <1>3, <1>4, CursorUpFrom
<1> QED BY <1>5 DEF CursorAbove, c

\* The part of the invariant that a step of a search starts from.
Searches ==
  /\ tree \in DOMAIN Trees
  /\ Rooted(store) /\ StoreCheck(store) /\ RefsRight(store, refs, found)
  /\ SearchRight(store, search) /\ WalkRight(store, search)
  /\ folders \in Seq(Folders) /\ folders # << >>
  /\ decl # << >> /\ Way(decl) /\ NodeOf(decl) # Root

\* It holds at every stage but idle.
LEMMA SearchesWhen ==
  ASSUME Inv, search.stage # "idle"
  PROVE  search # Idle /\ Searches
BY DEF Inv, IteratorsRight, FinderRight, Searches, SearchRight, Idle

\* The cursor one up.
LEMMA OutwardRight ==
  ASSUME Searches
  PROVE  /\ search.curr # Root => WalkRight(store, Outward)
         /\ Outward.curr # 0 => WalkRight(store, Outward)
         /\ Outward.again = search.again
BY CursorUpRight DEF Searches, Outward

\* go_through_directories goes one up, or ends where there are no parents.
LEMMA NextDirectoryRight ==
  ASSUME Searches
  PROVE  SearchRight(store, NextDirectory)
<1>1. CASE Outward.curr = 0
  <2>1. SearchRight(store, Over("nomore"))
    BY OnRight DEF Searches, Over
  <2> QED BY <1>1, <2>1 DEF NextDirectory
<1>2. CASE Outward.curr # 0
  <2>1. SearchRight(store, To("directories", Outward))
    BY <1>2, OutwardRight, ToRight
  <2> QED BY <1>2, <2>1 DEF NextDirectory
<1> QED BY <1>1, <1>2

\* What a loop over children goes through, and the scout on it.
LEMMA ScannedStands ==
  ASSUME Searches
  PROVE  /\ StandsAt(store, ScannedFrom, ScannedAt)
         /\ NodeAlways(store, ScannedFrom) = Scanned
<1>1. CASE OfDecl
  BY <1>1, ScoutOfStands DEF Searches, ScannedFrom, ScannedAt, Scanned
<1>2. CASE ~OfDecl
  BY <1>2 DEF Searches, WalkRight, WalkFrom, CursorRight, ScannedFrom, ScannedAt, Scanned
<1> QED BY <1>1, <1>2

\* What the guards of the steps say of the stage.
LEMMA StagesSearch ==
  /\ Scanning => search.stage # "idle"
  /\ \A stage : stage # "idle" /\ After(stage) => search.stage # "idle" /\ ~panicked
  /\ \A kinds : AmongTypes(kinds) => /\ search.stage = "types" /\ ~panicked
                                     /\ Kind(search.curr) \in kinds
BY DEF Scanning, OfDecl, After, AmongTypes

\* A search begins in a store of its own, above its declaration.
LEMMA BeginKeeps ==
  ASSUME Inv, BeginSearch
  PROVE  Inv'
<1>1. /\ decl # << >> /\ search = Idle /\ ~panicked /\ (IsType \/ IsBody \/ IsLocal)
      /\ UNCHANGED <<tree, modules, folders, declarations, decl, refs, found, panicked>>
  BY DEF BeginSearch, iterators
<1>2. /\ tree \in DOMAIN Trees /\ Way(decl) /\ store = << >>
      /\ RefsRight(store, refs, found)
  BY <1>1 DEF Inv, IteratorsRight, FinderRight
<1>3. NodeOf(decl) # Root
  <2>1. Kind(NodeOf(decl)) \notin DirKinds
    BY <1>1 DEF IsType, SearchedTypes, IsBody, IsLocal, Parameters, DirKinds
  <2> QED BY <1>2, <2>1, NotRoot
<1> DEFINE fresh == NewStore(Root)
           scout == ScoutOf(decl)
           st == IF IsBody THEN fresh ELSE Pushed(fresh, scout)
           on == IF IsBody THEN scout ELSE Landed(fresh, scout)
           cursor == CursorAbove(st, Idle, on)
<1>4. /\ store' = st
      /\ search' = IF IsType THEN [cursor EXCEPT !.stage = "own"]
                   ELSE IF IsBody THEN [cursor EXCEPT !.stage = "this"]
                   ELSE [PassLists(st, cursor) EXCEPT !.stage = "block"]
  BY DEF BeginSearch
<1>5. /\ Rooted(fresh) /\ StoreCheck(fresh) /\ StandsAt(fresh, scout, TrailOf(decl))
      /\ NodeAlways(fresh, scout) = NodeOf(decl)
  BY <1>2, NewStoreStands, ScoutOfStands
<1> HIDE DEF fresh, scout
<1>6. /\ Rooted(st) /\ StoreCheck(st) /\ StandsAt(st, on, TrailOf(decl))
      /\ NodeAlways(st, on) = NodeOf(decl)
  BY <1>2, <1>5, PushStands
<1> HIDE DEF st, on
<1>7. WalkRight(st, cursor)
  BY <1>2, <1>3, <1>6, CursorAboveRight
<1> HIDE DEF cursor
<1>8. WalkRight(st, PassLists(st, cursor))
  BY <1>2, <1>7, PassListsRight
<1>9. SearchRight(st, search')
  BY <1>4, <1>7, <1>8, StageRight
<1>10. RefsRight(st, refs, found)
  <2>1. Len(refs) = 0
    <3>1. Len(refs) \in Nat
      BY <1>2, LenProperties DEF RefsRight
    <3>2. ASSUME 1 <= Len(refs) PROVE FALSE
      <4>1. 1 \in 1 .. Len(refs)
        BY <3>1, <3>2
      <4>2. refs[1] \in DOMAIN << >>
        BY <1>2, <4>1 DEF RefsRight
      <4> QED BY <4>2
    <3> QED BY <3>1, <3>2
  <2> QED BY <1>2, <2>1 DEF RefsRight
<1>11. search' # Idle
  BY <1>9 DEF SearchRight, Idle
<1>12. FinderRight'
  BY <1>1, <1>2, <1>3, <1>4, <1>6, <1>9, <1>10, <1>11, FinderNext
<1>13. IteratorsRight'
  BY <1>1, IteratorsNext DEF Inv, IteratorsRight, IsOver
<1> QED BY <1>12, <1>13 DEF Inv

\* A search ends: nothing is left of its store and its references.
LEMMA EndKeeps ==
  ASSUME Inv, EndSearch
  PROVE  Inv'
<1>1. /\ search.stage = "over" /\ decl' = << >> /\ search' = Idle /\ store' = << >>
      /\ refs' = << >> /\ found' = << >>
      /\ UNCHANGED <<tree, modules, folders, declarations, panicked>>
  BY DEF EndSearch, iterators
<1>2. RefsRight(<< >>, << >>, << >>)
  BY EmptySeq DEF RefsRight
<1>3. FinderRight'
  BY <1>1, <1>2, FinderNext
<1>4. IteratorsRight'
  BY <1>1, IteratorsNext DEF Inv, IteratorsRight, IsOver
<1> QED BY <1>3, <1>4 DEF Inv

\* A child is searched or skipped, or blocks the search.
LEMMA ScanKeeps ==
  ASSUME Inv, SearchChild \/ SkipChild \/ LeavePackageNameless
  PROVE  Inv'
<1>1. ~panicked /\ Scanning /\ MoreToScan
  BY DEF SearchChild, SkipChild, LeavePackageNameless
<1>2. search # Idle /\ Searches
  BY <1>1, StagesSearch, SearchesWhen
<1>3. SearchRight(store, [search EXCEPT !.next = @ + 1])
  BY <1>2, OnRight DEF Searches
<1>4. CASE SearchChild
  <2>1. StandsAt(store, ScannedFrom, ScannedAt) /\ NodeAlways(store, ScannedFrom) = Scanned
    BY <1>2, ScannedStands
  <2>2. search.next \in DOMAIN Children(Scanned)
    <3>1. Scanned \in Nodes
      BY <1>2, <2>1, StandsAtTrail DEF Searches
    <3>2. Children(Scanned) \in Seq(Nodes)
      BY <1>2, <3>1, ChildrenAreNodes DEF Searches
    <3>3. search.next \in Nat \ {0} /\ search.next <= Len(Children(Scanned))
      BY <1>1, <1>2 DEF Searches, WalkRight, WalkFrom, CursorRight, MoreToScan
    <3>4. DOMAIN Children(Scanned) = 1 .. Len(Children(Scanned)) /\ Len(Children(Scanned)) \in Nat
      BY <3>2, LenProperties
    <3> QED BY <3>3, <3>4
  <2>3. StandsAt(store, GotoChild(store, ScannedFrom, search.next),
                 Append(ScannedAt, search.next))
    BY <1>2, <2>1, <2>2, GotoStands DEF Searches
  <2>4. Searching([search EXCEPT !.next = @ + 1],
                  GotoChild(store, ScannedFrom, search.next),
                  Append(ScannedAt, search.next))
    BY <1>4 DEF SearchChild
  <2> QED BY <1>1, <1>2, <1>3, <2>3, <2>4, SearchingKeeps
<1>5. CASE SkipChild
  BY <1>1, <1>2, <1>3, <1>5, GoingOnKeeps DEF SkipChild
<1>6. CASE LeavePackageNameless
  <2>1. SearchRight(store, Over("blocked"))
    BY <1>2, OnRight DEF Over, Searches
  <2> QED BY <1>1, <1>2, <1>6, <2>1, GoingOnKeeps DEF LeavePackageNameless
<1> QED BY <1>4, <1>5, <1>6

\* The three panics leave all as it is.
LEMMA StopKeeps ==
  ASSUME Inv, StopAtNameless \/ StopAtBody \/ StopAtOther
  PROVE  Inv'
<1>1. /\ panicked' = TRUE
      /\ UNCHANGED <<tree, modules, folders, declarations, decl, search, store, refs, found>>
  BY DEF StopAtNameless, StopAtBody, StopAtOther, iterators, finder
<1>2. FinderRight'
  BY <1>1, FinderNext DEF Inv, FinderRight
<1>3. IteratorsRight'
  BY <1>1, IteratorsNext DEF Inv, IteratorsRight, IsOver
<1> QED BY <1>2, <1>3 DEF Inv

\* Outward through types and their bodies; none of them is the root.
LEMMA LeaveTypeKeeps ==
  ASSUME Inv, LeaveOwn \/ EnterBody \/ LeaveCreation \/ EnterEnum
              \/ LeaveType \/ LeaveBlockOfType
  PROVE  Inv'
<1>1. search.stage # "idle" /\ ~panicked
  BY DEF LeaveOwn, EnterBody, LeaveCreation, EnterEnum, LeaveType, LeaveBlockOfType,
         After, AmongTypes
<1>2. search # Idle /\ Searches /\ tree \in DOMAIN Trees
  BY <1>1, SearchesWhen DEF Searches
<1>3. WalkRight(store, search) /\ SearchRight(store, search)
  BY <1>2 DEF Searches
<1>4. ASSUME NEW o PROVE SearchRight(store, Over(o))
  BY <1>3, OnRight DEF Over
<1>5. After("body") \/ After("enum") => WalkRight(store, Outward)
  <2>1. ASSUME After("body") \/ After("enum") PROVE search.curr # Root
    <3>1. Kind(search.curr) \in TypeBodies
      BY <1>3, <2>1 DEF SearchRight, After, TypeBodies
    <3> QED BY <1>2, <3>1, NotRoot, KindsBelow
  <2> QED BY <1>2, <2>1, OutwardRight
<1>6. CASE LeaveOwn
  <2>1. SearchRight(store, To("types", search))
    BY <1>3, ToRight
  <2> QED BY <1>1, <1>2, <1>6, <2>1, GoingOnKeeps DEF LeaveOwn
<1>7. CASE EnterBody
  <2>1. Kind(search.curr) \in TypeBodies
    BY <1>7 DEF EnterBody, AmongTypes
  <2>2. SearchRight(store, To("body", search))
    BY <1>3, <2>1, ToRight
  <2> QED BY <1>1, <1>2, <1>7, <2>2, GoingOnKeeps DEF EnterBody
<1>8. CASE LeaveCreation
  BY <1>1, <1>2, <1>4, <1>8, GoingOnKeeps DEF LeaveCreation
<1>9. CASE EnterEnum
  <2>1. SearchRight(store, To("enum", Outward))
    BY <1>5, <1>9, ToRight DEF EnterEnum
  <2> QED BY <1>1, <1>2, <1>9, <2>1, GoingOnKeeps DEF EnterEnum
<1>10. CASE LeaveType
  <2>1. WalkRight(store, Outward) /\ Kind(Outward.curr) \in TypeDeclarations
    BY <1>5, <1>10 DEF LeaveType
  <2>2. Outward.curr # Root
    BY <1>2, <2>1, NotRoot, KindsBelow
  <2>3. WalkRight(store, CursorUp(store, Outward))
    BY <1>2, <2>1, <2>2, CursorUpRight
  <2>4. SearchRight(store, To("types", CursorUp(store, Outward)))
    BY <2>3, ToRight
  <2>5. StandsAt(store, Outward.scout, Outward.at)
    BY <2>1 DEF WalkRight, WalkFrom, CursorRight
  <2> QED BY <1>1, <1>2, <1>10, <2>4, <2>5, SearchingKeeps DEF LeaveType
<1>11. CASE LeaveBlockOfType
  <2>1. StandsAt(store, search.scout, search.at)
    BY <1>3 DEF WalkRight, WalkFrom, CursorRight
  <2>2. \/ Searching(Over("blocked"), search.scout, search.at)
        \/ GoingOn(Over("blocked"))
    BY <1>11 DEF LeaveBlockOfType
  <2> QED BY <1>1, <1>2, <1>4, <2>1, <2>2, SearchingKeeps, GoingOnKeeps
<1> QED BY <1>6, <1>7, <1>8, <1>9, <1>10, <1>11

\* The file is passed twice, the second time with the saved cursor.
LEMMA LeaveFileKeeps ==
  ASSUME Inv, EnterProgram \/ LeaveProgram
  PROVE  Inv'
<1>1. search.stage # "idle" /\ ~panicked
  BY DEF EnterProgram, LeaveProgram, After, AmongTypes
<1>2. search # Idle /\ Searches /\ tree \in DOMAIN Trees
  BY <1>1, SearchesWhen DEF Searches
<1>3. WalkRight(store, search) /\ SearchRight(store, search)
  BY <1>2 DEF Searches
<1>4. CASE EnterProgram /\ search.again
  <2> DEFINE saved == search.saved[1]
             back == [saved EXCEPT !.matches = search.matches]
  <2>1. CursorRight(store, saved) /\ ~saved.again /\ Children(saved.curr) # << >>
    BY <1>3, <1>4 DEF WalkRight, WalkFrom, CursorAround
  <2>2. DOMAIN saved = {"stage", "again", "scout", "at", "prev", "curr", "next",
                        "matches", "outcome", "saved"}
    BY <2>1 DEF CursorRight, Idle
  <2> HIDE DEF saved
  <2>3. /\ DOMAIN back = DOMAIN saved /\ back.again = saved.again
        /\ back.scout = saved.scout /\ back.at = saved.at /\ back.curr = saved.curr
        /\ back.prev = saved.prev /\ back.next = saved.next
    BY <2>2
  <2> HIDE DEF back
  <2>4. WalkRight(store, back)
    BY <2>1, <2>3 DEF WalkRight, WalkFrom, CursorRight
  <2>5. SearchRight(store, To("package", back))
    BY <2>4, ToRight
  <2>6. GoingOn(To("package", back))
    BY <1>4 DEF EnterProgram, back, saved
  <2> QED BY <1>1, <1>2, <2>5, <2>6, GoingOnKeeps
<1>5. CASE EnterProgram /\ ~search.again
  <2>1. Kind(search.curr) = "Program" /\ GoingOn(To("program", search))
    BY <1>5 DEF EnterProgram, AmongTypes
  <2>2. SearchRight(store, To("program", search))
    BY <1>3, <1>5, <2>1, ToRight
  <2> QED BY <1>1, <1>2, <2>1, <2>2, GoingOnKeeps
<1>6. CASE LeaveProgram
  <2> DEFINE above == CursorAbove(store, search, ScoutOf(decl))
             next == [above EXCEPT !.stage = "types", !.again = TRUE, !.saved = <<Outward>>]
  <2>1. search.stage = "program" /\ GoingOn(next)
    BY <1>6 DEF LeaveProgram, After
  <2>2. Kind(search.curr) = "Program" /\ ~search.again
    BY <1>3, <2>1 DEF SearchRight
  <2>3. search.curr # Root
    BY <1>2, <2>2, NotRoot DEF DirKinds
  <2>4. CursorAround(store, Outward) /\ ~Outward.again
    BY <1>2, <2>2, <2>3, OutwardRight DEF WalkRight, WalkFrom, CursorAround
  <2>5. WalkRight(store, above)
    <3>1. /\ StandsAt(store, ScoutOf(decl), TrailOf(decl))
          /\ NodeAlways(store, ScoutOf(decl)) = NodeOf(decl)
      BY <1>2, ScoutOfStands DEF Searches
    <3> QED BY <1>2, <1>3, <3>1, CursorAboveRight DEF Searches
  <2> HIDE DEF above
  <2>6. DOMAIN above = {"stage", "again", "scout", "at", "prev", "curr", "next",
                        "matches", "outcome", "saved"}
    BY <2>5 DEF WalkRight, WalkFrom, CursorRight, Idle
  <2>7. PICK outward : outward = Outward
    OBVIOUS
  <2>8. next = [above EXCEPT !.stage = "types", !.again = TRUE, !.saved = <<outward>>]
    BY <2>7
  <2> HIDE DEF next
  <2>9. /\ DOMAIN next = DOMAIN above /\ next.stage = "types" /\ next.again = TRUE
        /\ next.saved = <<outward>>
        /\ next.scout = above.scout /\ next.at = above.at /\ next.curr = above.curr
        /\ next.prev = above.prev /\ next.next = above.next
    BY <2>6, <2>8
  <2>10. SearchRight(store, next)
    <3>1. next.saved[1] = outward
      BY <2>9
    <3>2. CursorRight(store, next) /\ Children(next.curr) # << >>
      BY <2>5, <2>9 DEF WalkRight, WalkFrom, CursorRight
    <3>3. CursorAround(store, next.saved[1]) /\ ~next.saved[1].again
      BY <2>4, <2>7, <3>1
    <3> QED BY <2>9, <3>2, <3>3 DEF SearchRight, WalkRight, WalkFrom
  <2> QED BY <1>1, <1>2, <2>1, <2>10, GoingOnKeeps
<1> QED BY <1>4, <1>5, <1>6

\* Outward through directories, folders and blocks.
LEMMA LeaveFoldersKeeps ==
  ASSUME Inv, LeavePackage \/ LeaveDirectories \/ SearchFolder \/ SkipFolder
              \/ LeaveFolders \/ LeaveBlock \/ LeaveThis
  PROVE  Inv'
<1>1. search.stage # "idle" /\ ~panicked
  BY DEF LeavePackage, LeaveDirectories, SearchFolder, SkipFolder, AmongOthers, LeaveFolders,
         LeaveBlock, LeaveThis, After
<1>2. search # Idle /\ Searches /\ tree \in DOMAIN Trees
  BY <1>1, SearchesWhen DEF Searches
<1>3. WalkRight(store, search) /\ SearchRight(store, search)
  BY <1>2 DEF Searches
<1>4. ASSUME NEW o PROVE SearchRight(store, Over(o))
  BY <1>3, OnRight DEF Over
<1>5. SearchRight(store, NextDirectory)
  BY <1>2, NextDirectoryRight
<1>6. CASE LeavePackage
  BY <1>1, <1>2, <1>5, <1>6, GoingOnKeeps DEF LeavePackage
<1>7. CASE LeaveDirectories
  <2>1. SearchRight(store, To("folders", search))
    BY <1>3, ToRight
  <2>2. CASE search.curr = Limit
    <3>1. GoingOn(To("folders", search))
      BY <1>7, <2>2 DEF LeaveDirectories
    <3> QED BY <1>1, <1>2, <2>1, <3>1, GoingOnKeeps
  <2>3. CASE search.curr # Limit
    <3>1. GoingOn(NextDirectory)
      BY <1>7, <2>3 DEF LeaveDirectories
    <3> QED BY <1>1, <1>2, <1>5, <3>1, GoingOnKeeps
  <2> QED BY <2>2, <2>3
<1>8. CASE SearchFolder
  <2> DEFINE other == folders[1].others[1]
  <2>1. /\ folders[1].others # << >>
        /\ Searching([search EXCEPT !.next = @ + 1], ScoutOf(other), TrailOf(other))
    BY <1>8 DEF SearchFolder, AmongOthers
  <2>2. Way(other)
    <3>1. 1 \in 1 .. Len(folders)
      BY <1>2, EmptySeq, LenProperties DEF Searches
    <3>2. folders[1] \in Folders
      BY <1>2, <3>1, ElementOfSeq DEF Searches
    <3>3. folders[1].others \in Seq(Ways)
      BY <3>2 DEF Folders
    <3>4. 1 \in 1 .. Len(folders[1].others)
      BY <2>1, <3>3, EmptySeq, LenProperties
    <3>5. other \in Ways
      BY <3>3, <3>4, ElementOfSeq
    <3> QED BY <3>5 DEF Ways
  <2> HIDE DEF other
  <2>3. StandsAt(store, ScoutOf(other), TrailOf(other))
    BY <1>2, <2>2, ScoutOfStands DEF Searches
  <2>4. SearchRight(store, [search EXCEPT !.next = @ + 1])
    BY <1>3, OnRight
  <2> QED BY <1>1, <1>2, <2>1, <2>3, <2>4, SearchingKeeps
<1>9. CASE LeaveFolders
  BY <1>1, <1>2, <1>4, <1>9, GoingOnKeeps DEF LeaveFolders
<1>12. CASE SkipFolder
  <2>1. SearchRight(store, [search EXCEPT !.next = @ + 1])
    BY <1>3, OnRight
  <2> QED BY <1>1, <1>2, <1>12, <2>1, GoingOnKeeps DEF SkipFolder
<1>10. CASE LeaveBlock
  <2> DEFINE kinds == {"ResourceSpecification", "EnhancedForStatement", "TypeParameters"}
  <2>1. CASE Kind(search.curr) \in kinds
    <3>1. search.curr # Root
      BY <1>2, <2>1, NotRoot DEF DirKinds
    <3>2. WalkRight(store, PassLists(store, Outward))
      BY <1>2, <3>1, OutwardRight, PassListsRight
    <3>3. SearchRight(store, To("block", PassLists(store, Outward)))
      BY <3>2, ToRight
    <3>4. GoingOn(To("block", PassLists(store, Outward)))
      BY <1>10, <2>1 DEF LeaveBlock
    <3> QED BY <1>1, <1>2, <3>3, <3>4, GoingOnKeeps
  <2>2. CASE Kind(search.curr) \notin kinds
    <3>1. GoingOn(Over("ok"))
      BY <1>10, <2>2 DEF LeaveBlock
    <3> QED BY <1>1, <1>2, <1>4, <3>1, GoingOnKeeps
  <2> QED BY <2>1, <2>2
<1>11. CASE LeaveThis
  BY <1>1, <1>2, <1>4, <1>11, GoingOnKeeps DEF LeaveThis
<1> QED BY <1>6, <1>7, <1>8, <1>9, <1>10, <1>11, <1>12

\* The first state.
LEMMA InvInit ==
  ASSUME Init
  PROVE  Inv
<1>1. tree \in DOMAIN Trees
  BY DEF Init
<1>2. Way(New(Root))
  <2>1. Root \in Nodes
    BY <1>1, ChildrenAreNodes
  <2>2. [node |-> Root, offset |-> 0] \in Elements
    BY <2>1 DEF Elements
  <2>3. PICK e \in Elements : e = [node |-> Root, offset |-> 0]
    BY <2>2
  <2>4. /\ <<e>> \in Seq(Elements) /\ Len(<<e>>) = 1 /\ <<e>>[1] = e
        /\ <<e>> # << >>
    OBVIOUS
  <2>5. Way(<<e>>)
    BY <2>3, <2>4 DEF Way, Check
  <2> QED BY <2>3, <2>5 DEF New
<1>3. IteratorRight(Iterator(New(Root)))
  BY <1>1, <1>2, IteratorStands
<1>4. IteratorRight(Exhausted) /\ Exhausted.stack = << >>
  BY EmptySeq DEF IteratorRight, Exhausted, Iterators
<1>5. RefsRight(<< >>, << >>, << >>)
  BY EmptySeq DEF RefsRight
<1>6. folders \in Seq(Folders)
  BY EmptySeq DEF Init
<1>7. IteratorsRight
  BY <1>1, <1>3, <1>4, <1>6 DEF Init, IteratorsRight, IsOver
<1>8. FinderRight
  BY <1>5 DEF Init, FinderRight
<1> QED BY <1>7, <1>8 DEF Inv

\* Every step keeps the invariant: the iterators, then the search.
LEMMA InvNext ==
  ASSUME Inv, [Next]_vars
  PROVE  Inv'
<1>1. CASE Iterate
  BY <1>1, IterateKeeps
<1>2. CASE GoThrough
  BY <1>2, BeginKeeps, EndKeeps, ScanKeeps, StopKeeps, LeaveTypeKeeps, LeaveFileKeeps,
     LeaveFoldersKeeps DEF GoThrough
<1>3. CASE UNCHANGED vars
  <2>1. UNCHANGED <<tree, modules, folders, declarations, decl, search, store, refs,
                    found, panicked>>
    BY <1>3 DEF vars, iterators, finder
  <2>2. FinderRight'
    BY <2>1, FinderNext DEF Inv, FinderRight
  <2>3. IteratorsRight'
    BY <2>1, IteratorsNext DEF Inv, IteratorsRight, IsOver
  <2> QED BY <2>2, <2>3 DEF Inv
<1> QED BY <1>1, <1>2, <1>3 DEF Next

\* So it holds in every reachable state, of every forest of trees, whatever
\* find_all matches and as often as it does.
THEOREM InvAlways == Spec => []Inv
<1>1. Init => Inv
  BY InvInit
<1>2. Inv /\ [Next]_vars => Inv'
  BY InvNext
<1> QED BY <1>1, <1>2, PTL DEF Spec
-----------------------------------------------------------------------------
\* What a path of the walk is made of.
LEMMA ElementsArePath ==
  ASSUME tree \in DOMAIN Trees, NEW path \in Seq(Elements)
  PROVE  IsPath(path)
<1>1. DOMAIN path = 1 .. Len(path)
  BY LenProperties
<1>2. ASSUME NEW i \in DOMAIN path PROVE path[i].node \in Nodes /\ path[i].offset \in Nat
  <2>1. path[i] \in Elements
    BY <1>1, ElementOfSeq
  <2> QED BY <2>1 DEF Elements
<1> QED BY <1>2 DEF IsPath

\* What the type invariant says of an iterator.
LEMMA IteratorIs ==
  ASSUME tree \in DOMAIN Trees, NEW it, IteratorRight(it)
  PROVE  IsIterator(it) /\ Check(it.path)
<1>1. it.path \in Seq(Elements) /\ it.stack \in Seq(Frames)
  BY DEF IteratorRight, Iterators
<1>2. IsPath(it.path)
  BY <1>1, ElementsArePath
<1>3. Check(it.path)
  <2>1. Check(<< >>)
    BY DEF Check
  <2> QED BY <2>1 DEF IteratorRight, Standing, Way
<1>4. ASSUME NEW i \in DOMAIN it.stack PROVE IsFrame(it.stack[i])
  <2>1. i \in 1 .. Len(it.stack)
    BY <1>1, LenProperties
  <2>2. PICK b \in Nat : Standing(it, b)
    <3>1. it.stack # << >>
      BY <1>4
    <3> QED BY <3>1 DEF IteratorRight
  <2>3. FrameRight(it.path, it.stack[i], b + i)
    BY <2>1, <2>2 DEF Standing
  <2>4. it.stack[i] \in Frames
    BY <1>1, <2>1, ElementOfSeq
  <2>5. Len(Children(it.stack[i].node)) \in Nat
    BY <2>4, ChildrenAreNodes, LenProperties DEF Frames
  <2> QED BY <2>3, <2>4, <2>5 DEF FrameRight, IsFrame, Frames
<1> QED BY <1>2, <1>3, <1>4 DEF IsIterator

\* The invariant implies the type invariant.
LEMMA InvTypeOK ==
  ASSUME Inv
  PROVE  TypeOK
<1>1. /\ tree \in DOMAIN Trees /\ IteratorRight(modules) /\ IteratorRight(declarations)
      /\ decl # << >> => Way(decl)
      /\ panicked \in BOOLEAN
  BY DEF Inv, IteratorsRight
<1>2. IsIterator(modules) /\ IsIterator(declarations)
  BY <1>1, IteratorIs
<1>3. IsPath(decl)
  <2>1. decl \in Seq(Elements)
    BY <1>1, EmptySeq DEF Way
  <2> QED BY <1>1, <2>1, ElementsArePath
<1>4. /\ search = Idle => store = << >>
      /\ search # Idle => /\ Rooted(store) /\ SearchRight(store, search)
                          /\ decl # << >>
  BY DEF Inv, FinderRight
<1>5. search # Idle => store # << >>
  <2>1. search # Idle => 1 \in DOMAIN store
    BY <1>4 DEF Rooted
  <2> QED BY <2>1
<1>6. \A h \in DOMAIN store :
        /\ store[h].node \in Nodes
        /\ store[h].parent \in 1 .. h /\ (h > 1 => store[h].parent < h)
  <2>1. CASE search = Idle
    BY <1>4, <2>1
  <2>2. CASE search # Idle
    <3>1. Rooted(store)
      BY <1>4, <2>2
    <3>2. ASSUME NEW h \in DOMAIN store
          PROVE  /\ store[h].node \in Nodes
                 /\ store[h].parent \in 1 .. h /\ (h > 1 => store[h].parent < h)
      <4>1. store \in Seq(Entries) /\ h \in 1 .. Len(store)
        BY <3>1, LenProperties DEF Rooted
      <4>2. store[h].node \in Nodes /\ h \in Nat \ {0}
        <5>1. store[h] \in Entries
          BY <4>1, ElementOfSeq
        <5>2. h \in Nat \ {0}
          BY <4>1, LenProperties
        <5> QED BY <5>1, <5>2 DEF Entries
      <4>3. CASE h = 1
        BY <3>1, <4>2, <4>3 DEF Rooted
      <4>4. CASE h # 1
        <5>1. h \in 2 .. Len(store)
          BY <4>1, <4>4, LenProperties
        <5>2. store[h].parent \in 1 .. h - 1
          BY <3>1, <5>1 DEF Rooted
        <5> QED BY <4>2, <5>2
      <4> QED BY <4>3, <4>4
    <3> QED BY <3>2
  <2> QED BY <2>1, <2>2
<1>7. search # Idle => /\ search.scout.root \in DOMAIN store
                       /\ IsPath(search.scout.path)
                       /\ search.curr \in Nodes /\ search.prev \in Nodes \cup {0}
  <2>1. SUFFICES ASSUME search # Idle
                 PROVE  /\ search.scout.root \in DOMAIN store
                        /\ IsPath(search.scout.path)
                        /\ search.curr \in Nodes /\ search.prev \in Nodes \cup {0}
    OBVIOUS
  <2>2. /\ StandsAt(store, search.scout, search.at)
        /\ search.curr = NodeAlways(store, search.scout)
        /\ search.prev \in Nodes \cup {0}
    BY <1>4, <2>1 DEF SearchRight, WalkRight, WalkFrom, CursorRight
  <2>3. search.scout.path \in Seq(Elements)
    BY <2>2 DEF StandsAt, Sound, On
  <2> QED BY <1>1, <2>2, <2>3, StandsAtTrail, ElementsArePath
<1>8. search = Idle => search.curr = 0 /\ search.prev = 0
  BY DEF Idle
<1>9. Len(refs) = Len(found) /\ \A i \in DOMAIN refs : refs[i] \in DOMAIN store
  <2>1. RefsRight(store, refs, found)
    BY DEF Inv, FinderRight
  <2>2. DOMAIN refs = 1 .. Len(refs)
    BY <2>1, LenProperties DEF RefsRight
  <2> QED BY <2>1, <2>2 DEF RefsRight
<1> QED BY <1>1, <1>2, <1>3, <1>4, <1>5, <1>6, <1>7, <1>8, <1>9 DEF TypeOK

\* It implies that every check answers Ok.
LEMMA InvLinked ==
  ASSUME Inv
  PROVE  /\ Check(modules.path) /\ Check(declarations.path) /\ Check(decl)
         /\ search # Idle => StoreCheck(store) /\ CheckWith(store, search.scout)
<1>1. /\ tree \in DOMAIN Trees /\ IteratorRight(modules) /\ IteratorRight(declarations)
      /\ decl # << >> => Way(decl)
  BY DEF Inv, IteratorsRight
<1>2. Check(modules.path) /\ Check(declarations.path)
  BY <1>1, IteratorIs
<1>3. Check(decl)
  <2>1. Check(<< >>)
    BY DEF Check
  <2> QED BY <1>1, <2>1 DEF Way
<1>4. search # Idle => StoreCheck(store) /\ CheckWith(store, search.scout)
  BY DEF Inv, FinderRight, SearchRight, WalkRight, WalkFrom, CursorRight, StandsAt, Sound
<1> QED BY <1>2, <1>3, <1>4

\* It implies that handles and cursor are where they were found and walked to.
LEMMA InvTrailsRight ==
  ASSUME Inv
  PROVE  TrailsRight
<1>1. tree \in DOMAIN Trees /\ RefsRight(store, refs, found)
  BY DEF Inv, IteratorsRight, FinderRight
<1>2. ASSUME NEW i \in DOMAIN refs PROVE HandleTrail(store, refs[i]) = found[i]
  <2>1. i \in 1 .. Len(refs)
    BY <1>1, LenProperties DEF RefsRight
  <2> QED BY <1>1, <2>1 DEF RefsRight
<1>3. ASSUME search # Idle PROVE ScoutTrail(store, search.scout) = search.at
  <2>1. StandsAt(store, search.scout, search.at)
    BY <1>3 DEF Inv, FinderRight, SearchRight, WalkRight, WalkFrom, CursorRight
  <2> QED BY <1>1, <2>1, StandsAtTrail
<1> QED BY <1>2, <1>3 DEF TrailsRight

\* A node with children is in a file or above, where positions are modelled.
LEMMA InnerHasPosition ==
  ASSUME tree \in DOMAIN Trees, NEW n \in Nodes, Children(n) # << >>
  PROVE  Kind(n) # "xml_SourceFile"
BY LayersAssumption DEF Nodes, Children, Kind

\* It implies that positions are those of the places in the text: of the
\* declaration, of the references, and of the cursor.
LEMMA InvPositionsRight ==
  ASSUME Inv
  PROVE  PositionsRight
<1>1. tree \in DOMAIN Trees /\ RefsRight(store, refs, found)
  BY DEF Inv, IteratorsRight, FinderRight
<1>2. TrailsRight
  BY InvTrailsRight
<1>3. ASSUME decl # << >> PROVE PathPosition(decl) = PositionAt(TrailOf(decl))
  <2>1. Way(decl) /\ Declares(decl)
    BY <1>3 DEF Inv, IteratorsRight
  <2>2. Kind(NodeOf(decl)) # "xml_SourceFile"
    BY <2>1 DEF Declares, TypeDeclarations, Parameters
  <2> QED BY <1>1, <2>1, <2>2, PathRight
<1>4. ASSUME NEW i \in DOMAIN refs
      PROVE  HandlePosition(store, refs[i]) = PositionAt(found[i])
  <2>1. i \in 1 .. Len(refs)
    BY <1>1, LenProperties DEF RefsRight
  <2>2. /\ refs[i] \in DOMAIN store /\ HandleTrail(store, refs[i]) = found[i]
        /\ HasPosition(store[refs[i]].node)
    BY <1>1, <2>1 DEF RefsRight
  <2>3. Rooted(store) /\ StoreCheck(store)
    <3>1. search # Idle
      BY <2>2 DEF Inv, FinderRight
    <3> QED BY <3>1 DEF Inv, FinderRight
  <2> QED BY <1>1, <2>2, <2>3, HandleRight DEF HasPosition
<1>5. ASSUME search # Idle
      PROVE  ScoutPosition(store, search.scout) = PositionAt(search.at)
  <2>1. /\ StandsAt(store, search.scout, search.at)
        /\ search.curr = NodeAlways(store, search.scout) /\ Children(search.curr) # << >>
    BY <1>5 DEF Inv, FinderRight, SearchRight, WalkRight, WalkFrom, CursorRight
  <2>2. search.curr \in Nodes
    BY <1>1, <2>1, StandsAtTrail
  <2>3. Kind(search.curr) # "xml_SourceFile"
    BY <1>1, <2>1, <2>2, InnerHasPosition
  <2> QED BY <1>1, <2>1, <2>3, ScoutRight
<1> QED BY <1>2, <1>3, <1>4, <1>5 DEF PositionsRight

\* Iterators stay in the tree, the entries of the store have their parents
\* before them, references are entries, and there is a store exactly while a
\* declaration is searched.
THEOREM TypeSafe == Spec => []TypeOK
<1>1. Inv => TypeOK
  BY InvTypeOK
<1> QED BY <1>1, InvAlways, PTL

\* The handles of the references and the cursor name, offset by offset, the
\* places where the matches were found and where the walk is, though equal
\* subtrees are one node and the store grew since.
THEOREM PlacesStay == Spec => []TrailsRight
<1>1. Inv => TrailsRight
  BY InvTrailsRight
<1> QED BY <1>1, InvAlways, PTL

\* The file, offset and length that make_position gives of the declaration, of
\* each reference and of the cursor are those of its place in the text: the
\* labels to its file, the bytes of the leaves before it there, and below it.
\* Each of the three forms (path, handle, scout) adds them up another way.
THEOREM PositionsAlwaysRight == Spec => []PositionsRight
<1>1. Inv => PositionsRight
  BY InvPositionsRight
<1> QED BY <1>1, InvAlways, PTL
-----------------------------------------------------------------------------
(* The walk outward from a type stays in its source folder.                *)

\* a path goes on from a folder
Under(folder, path) ==
  /\ Len(folder) <= Len(path)
  /\ \A i \in 1 .. Len(folder) : path[i] = folder[i]

\* an iterator that started in a folder
Starts(it, folder) ==
  it.stack # << >> =>
    /\ Standing(it, Len(folder) - 1)
    /\ \A i \in 1 .. Len(folder) : it.path[i] = folder[i]

\* folders are directories, with at most one other
AreSourceFolders(fs) ==
  \A i \in 1 .. Len(fs) : Kind(NodeOf(fs[i].path)) \in DirKinds /\ Len(fs[i].others) <= 1

InFolder ==
  /\ AreSourceFolders(folders)
  /\ folders # << >> =>
       /\ Starts(declarations, folders[1].path)
       /\ decl # << >> => Under(folders[1].path, decl)

\* the trail of a place around the declaration, m steps from the root
Cut(m) == SubSeq(TrailOf(decl), 1, m)

InFileStages == {"own", "types", "body", "enum", "program"}

\* how far out the cursor is at each stage: the folder and the file of the
\* declaration are f and p steps from the root
Walks(s, f, p) ==
  /\ s.stage \in InFileStages \cup {"package", "directories", "folders", "over"}
  /\ s.stage \in InFileStages => \E m \in p .. Len(TrailOf(decl)) - 1 : s.at = Cut(m)
  /\ s.stage = "package" => s.at = Cut(p - 1)
  /\ s.stage = "directories" => \E m \in f .. p - 1 : s.at = Cut(m)
  /\ s.outcome # "nomore"
  /\ s.again => s.saved[1].at = Cut(p - 1) /\ s.saved[1].outcome # "nomore"

InFolders(trail) == \E f \in FolderTrails : IsPrefix(f, trail)

\* a type of a package below its source folder
Packaged(f, p) ==
  /\ f = Len(folders[1].path) - 1 /\ f < p - 1
  /\ p \in 1 .. Len(TrailOf(decl)) /\ FileIn(decl, p + 1)

Bounded ==
  /\ search = Idle => searched = {}
  /\ search # Idle /\ IsType =>
       \A f \in Nat, p \in Nat : Packaged(f, p) =>
         Walks(search, f, p) /\ \A t \in searched : InFolders(t)

\* The iterator over declarations, in its folder.
LEMMA ClimbStarts ==
  ASSUME tree \in DOMAIN Trees, NEW it, IteratorRight(it), ~IsOver(it), Top(it).open,
         NEW folder, Way(folder), Starts(it, folder)
  PROVE  Starts(Climb(it), folder)
<1> DEFINE climbed == Climb(it)
<1>1. PICK b \in Nat : b = Len(folder) - 1 /\ b + 1 = Len(folder)
  <2>1. Len(folder) \in Nat \ {0}
    BY EmptySeq DEF Way
  <2> QED BY <2>1
<1>2. Standing(it, b) /\ \A i \in 1 .. b + 1 : it.path[i] = folder[i]
  BY <1>1 DEF Starts, IsOver
<1>3. StaysOn(climbed, it, b)
  BY <1>1, <1>2, ClimbStands
<1> HIDE DEF climbed
<1> QED BY <1>1, <1>2, <1>3 DEF StaysOn, Starts, climbed

\* A look leaves it where it is, below the folder.
LEMMA LookStarts ==
  ASSUME tree \in DOMAIN Trees, NEW it, IteratorRight(it), ~IsOver(it), ~Top(it).open,
         NEW folder, Way(folder), Starts(it, folder), NEW deadEnd
  PROVE  Starts(Look(it, deadEnd), folder) /\ Under(folder, it.path)
<1> DEFINE looked == Look(it, deadEnd)
<1>1. PICK b \in Nat : b = Len(folder) - 1 /\ b + 1 = Len(folder)
  <2>1. Len(folder) \in Nat \ {0}
    BY EmptySeq DEF Way
  <2> QED BY <2>1
<1>2. Standing(it, b) /\ \A i \in 1 .. b + 1 : it.path[i] = folder[i]
  BY <1>1 DEF Starts, IsOver
<1>3. it \in Iterators
  BY DEF IteratorRight
<1>4. StaysOn(looked, it, b)
  BY <1>2, <1>3, LookStands
<1>5. Len(folder) <= Len(it.path)
  <2>1. /\ Len(it.stack) \in Nat \ {0}
        /\ Len(it.path) = b + Len(it.stack) + (IF Top(it).next = 0 THEN 0 ELSE 1)
    BY <1>2, <1>3, BaseLeads DEF Standing
  <2>2. PICK n \in Nat \ {0} : n = Len(it.stack)
    BY <2>1
  <2>3. Len(it.path) = b + n \/ Len(it.path) = b + n + 1
    <3>1. CASE Top(it).next = 0
      <4>1. Len(it.path) = b + n + 0
        BY <2>1, <2>2, <3>1
      <4> QED BY <2>2, <4>1
    <3>2. CASE Top(it).next # 0
      <4>1. Len(it.path) = b + n + 1
        BY <2>1, <2>2, <3>2
      <4> QED BY <2>2, <4>1
    <3> QED BY <3>1, <3>2
  <2> QED BY <1>1, <2>2, <2>3
<1> HIDE DEF looked
<1> QED BY <1>1, <1>2, <1>4, <1>5 DEF StaysOn, Starts, Under, looked

\* A new one starts in its folder.
LEMMA IteratorStarts ==
  ASSUME tree \in DOMAIN Trees, NEW path, Way(path)
  PROVE  Starts(Iterator(path), path)
<1>1. Iterator(path).path = path
  BY DEF Iterator
<1>2. Standing(Iterator(path), Len(path) - 1)
  BY IteratorStands
<1> QED BY <1>1, <1>2 DEF Starts

DirectoryWays == {path \in Ways : Kind(NodeOf(path)) \in DirKinds}

\* What is called like a step to a source folder is a directory.
LEMMA GotoDirectories ==
  ASSUME tree \in DOMAIN Trees, NEW paths \in SUBSET DirectoryWays,
         NEW folder \in ToSet(SourceFolders), NEW name \in ToSet(folder)
  PROVE  GotoByName(paths, name) \subseteq DirectoryWays
<1>1. SUFFICES ASSUME NEW q \in GotoByName(paths, name) PROVE q \in DirectoryWays
  OBVIOUS
<1>2. q \in Ways
  <2>1. paths \in SUBSET Ways
    BY DEF DirectoryWays
  <2> QED BY <2>1, GotoByNameIsWays
<1>3. PICK p \in paths :
        q \in {Goto(p, Children(NodeOf(p))[o], o) :
                 o \in {i \in DOMAIN Children(NodeOf(p)) :
                          Label(Children(NodeOf(p))[i]) = name}}
  BY <1>1 DEF GotoByName
<1>4. PICK o \in DOMAIN Children(NodeOf(p)) :
        q = Goto(p, Children(NodeOf(p))[o], o) /\ Label(Children(NodeOf(p))[o]) = name
  BY <1>3
<1>5. Way(p) /\ NodeOf(p) \in Nodes /\ Kind(NodeOf(p)) \in DirKinds
  BY WayEnds DEF Ways, DirectoryWays
<1> DEFINE child == Children(NodeOf(p))[o]
           e == [node |-> child, offset |-> o]
<1>6. e \in Elements /\ Linked(NodeOf(p), e) /\ child \in Nodes /\ e.node = child
  BY <1>5, ChildrenAreNodes DEF Elements, Linked
<1>7. NodeOf(q) = child
  <2>1. q = Append(p, e)
    BY <1>4 DEF Goto
  <2> HIDE DEF e
  <2> QED BY <1>5, <1>6, <2>1, WayGoesOn
<1>8. Kind(child) \in Outer
  BY <1>5, <1>6, LayersDown
<1>9. Kind(child) \notin FileKinds
  <2>1. Kind(child) \in FileKinds => Label(child) \notin ToSet(folder)
    BY <1>6, LayersAssumption DEF Nodes, Kind, Label
  <2> QED BY <1>4, <2>1
<1> QED BY <1>2, <1>7, <1>8, <1>9 DEF DirectoryWays, Outer

\* So a source folder is one.
LEMMA FolderIsDirectory ==
  ASSUME tree \in DOMAIN Trees, NEW path \in DirectoryWays, NEW k \in 1 .. 2
  PROVE  Folder(path, SourceFolders[k]) \in Seq(DirectoryWays)
<1> DEFINE names == SourceFolders[k]
           first == GotoByName({path}, names[1])
           outer == GotoByName(first, names[2])
           reached == GotoByName(outer, names[3])
<1>1. names \in ToSet(SourceFolders) /\ \A i \in 1 .. 3 : names[i] \in ToSet(names)
  BY DEF SourceFolders, ToSet
<1>2. Folder(path, names) = IF reached = {} THEN << >> ELSE <<CHOOSE p \in reached : TRUE>>
  BY DEF Folder
<1> HIDE DEF names
<1>3. first \in SUBSET DirectoryWays
  BY <1>1, GotoDirectories
<1> HIDE DEF first
<1>4. outer \in SUBSET DirectoryWays
  BY <1>1, <1>3, GotoDirectories
<1> HIDE DEF outer
<1>5. reached \in SUBSET DirectoryWays
  BY <1>1, <1>4, GotoDirectories
<1> HIDE DEF reached
<1>6. reached # {} => (CHOOSE p \in reached : TRUE) \in DirectoryWays
  BY <1>5
<1>7. << >> \in Seq(DirectoryWays)
  BY EmptySeq
<1> QED BY <1>2, <1>6, <1>7 DEF names

\* All the folders of a module are.
LEMMA FoldersAreSourceFolders ==
  ASSUME tree \in DOMAIN Trees, NEW path \in DirectoryWays
  PROVE  AreSourceFolders(MavenModuleFolders(path))
<1> DEFINE tests == Folder(path, SourceFolders[1])
           sources == Folder(path, SourceFolders[2])
           D == [path : DirectoryWays, others : {<< >>, tests}]
           a == [i \in DOMAIN tests |-> [path |-> tests[i], others |-> << >>]]
           c == [i \in DOMAIN sources |-> [path |-> sources[i], others |-> tests]]
<1>1. tests \in Seq(DirectoryWays) /\ sources \in Seq(DirectoryWays)
  BY FolderIsDirectory
<1>2. MavenModuleFolders(path) = a \o c
  BY DEF MavenModuleFolders
<1>10. Len(tests) <= 1
  BY DEF Folder
<1> HIDE DEF tests, sources
<1>3. /\ DOMAIN tests = 1 .. Len(tests) /\ DOMAIN sources = 1 .. Len(sources)
      /\ Len(tests) \in Nat /\ Len(sources) \in Nat
      /\ \A i \in 1 .. Len(tests) : tests[i] \in DirectoryWays
      /\ \A i \in 1 .. Len(sources) : sources[i] \in DirectoryWays
  BY <1>1, LenProperties, ElementOfSeq
<1>4. \A i \in 1 .. Len(tests) : [path |-> tests[i], others |-> << >>] \in D
  BY <1>3
<1>5. \A i \in 1 .. Len(sources) : [path |-> sources[i], others |-> tests] \in D
  BY <1>3
<1>6. \A f \in D : Kind(NodeOf(f.path)) \in DirKinds /\ Len(f.others) <= 1
  BY <1>3, <1>10 DEF DirectoryWays
<1> HIDE DEF D
<1>7. a \in Seq(D)
  BY <1>3, <1>4, IsASeq
<1>8. c \in Seq(D)
  BY <1>3, <1>5, IsASeq
<1> HIDE DEF a, c
<1>9. a \o c \in Seq(D)
  BY <1>7, <1>8, ConcatProperties
<1> QED BY <1>2, <1>6, <1>9, ElementOfSeq DEF AreSourceFolders

\* The first half of the invariant, after a step.
LEMMA InFolderNext ==
  ASSUME tree' = tree, AreSourceFolders(folders'),
         folders' # << >> => /\ Starts(declarations', folders'[1].path)
                             /\ decl' # << >> => Under(folders'[1].path, decl')
  PROVE  InFolder'
<1>1. Nodes' = Nodes /\ Root' = Root /\ Elements' = Elements
  BY DEF Nodes, Root, Elements
<1>2. ASSUME NEW n PROVE Children(n)' = Children(n) /\ Kind(n)' = Kind(n)
  BY DEF Children, Kind
<1>3. ASSUME NEW fs PROVE AreSourceFolders(fs)' <=> AreSourceFolders(fs)
  BY <1>2 DEF AreSourceFolders
<1>4. ASSUME NEW path PROVE Way(path)' <=> Way(path)
  BY <1>1, <1>2 DEF Way, Check, Linked
<1>5. ASSUME NEW it, NEW b PROVE Standing(it, b)' <=> Standing(it, b)
  <2>1. ASSUME NEW path, NEW f, NEW i PROVE FrameRight(path, f, i)' <=> FrameRight(path, f, i)
    BY <1>2 DEF FrameRight
  <2> QED BY <1>4, <2>1 DEF Standing, Top
<1>6. ASSUME NEW it, NEW folder PROVE Starts(it, folder)' <=> Starts(it, folder)
  BY <1>5 DEF Starts
<1>7. AreSourceFolders(folders)' <=> AreSourceFolders(folders')
  BY <1>3
<1>8. Starts(declarations, folders[1].path)' <=> Starts(declarations', folders'[1].path)
  BY <1>6
<1>9. Under(folders[1].path, decl)' <=> Under(folders'[1].path, decl')
  BY DEF Under
<1> QED BY <1>7, <1>8, <1>9 DEF InFolder

\* A step of a search moves no iterator and no folder.
LEMMA SearchStandsStill ==
  ASSUME GoThrough
  PROVE  /\ UNCHANGED <<tree, folders, declarations>>
         /\ EndSearch \/ decl' = decl
<1> DEFINE Still == UNCHANGED <<tree, folders, declarations, decl>>
<1>1. ASSUME NEW s, GoingOn(s) PROVE Still
  BY <1>1 DEF GoingOn, iterators
<1>2. ASSUME NEW s, NEW place, NEW trail, Searching(s, place, trail) PROVE Still
  BY <1>2 DEF Searching, iterators
<1> HIDE DEF Still
<1>3. CASE SearchChild \/ SkipChild
  BY <1>1, <1>2, <1>3 DEF SearchChild, SkipChild, Still
<1>4. CASE LeaveOwn \/ EnterBody \/ LeaveCreation \/ EnterEnum \/ LeavePackageNameless
  BY <1>1, <1>4 DEF LeaveOwn, EnterBody, LeaveCreation, EnterEnum, LeavePackageNameless, Still
<1>5. CASE LeaveType \/ LeaveBlockOfType
  BY <1>1, <1>2, <1>5 DEF LeaveType, LeaveBlockOfType, Still
<1>6. CASE EnterProgram \/ LeaveProgram \/ LeavePackage \/ LeaveDirectories
  <2>1. \E s : GoingOn(s)
    BY <1>6 DEF EnterProgram, LeaveProgram, LeavePackage, LeaveDirectories
  <2> QED BY <1>1, <2>1 DEF Still
<1>7. CASE SearchFolder
  <2>1. \E s, place, trail : Searching(s, place, trail)
    BY <1>7 DEF SearchFolder
  <2> QED BY <1>2, <2>1 DEF Still
<1>8. CASE SkipFolder \/ LeaveFolders \/ LeaveBlock \/ LeaveThis
  <2>1. \E s : GoingOn(s)
    BY <1>8 DEF SkipFolder, LeaveFolders, LeaveBlock, LeaveThis
  <2> QED BY <1>1, <2>1 DEF Still
<1>9. CASE BeginSearch
  BY <1>9 DEF BeginSearch, iterators
<1>10. CASE StopAtNameless \/ StopAtBody \/ StopAtOther
  BY <1>10 DEF StopAtNameless, StopAtBody, StopAtOther, iterators
<1>11. CASE EndSearch
  BY <1>11 DEF EndSearch, iterators
<1> QED BY <1>3, <1>4, <1>5, <1>6, <1>7, <1>8, <1>9, <1>10, <1>11 DEF GoThrough

\* Folders are directories, and what is below them is given.
LEMMA InFolderKept ==
  ASSUME Inv, InFolder, [Next]_vars
  PROVE  InFolder'
<1> USE DEF iterators, finder
<1>1. /\ IteratorsRight /\ tree \in DOMAIN Trees
      /\ IteratorRight(modules) /\ IteratorRight(declarations)
      /\ folders \in Seq(Folders)
      /\ ~IsOver(declarations) \/ decl # << >> => folders # << >>
  BY DEF Inv, IteratorsRight
<1>2. ASSUME NEW fs \in Seq(Folders), fs # << >> PROVE Way(fs[1].path)
  <2>1. 1 \in 1 .. Len(fs)
    BY <1>2, EmptySeq, LenProperties
  <2>2. fs[1] \in Folders
    BY <2>1, ElementOfSeq
  <2> QED BY <2>2 DEF Folders, Ways
<1>3. ASSUME UNCHANGED <<tree, folders, declarations>>, decl' = decl \/ decl' = << >>
      PROVE  InFolder'
  BY <1>3, InFolderNext DEF InFolder
<1>4. ASSUME NEW fs \in Seq(Folders), AreSourceFolders(fs), StartOn(fs), tree' = tree, decl' = << >>
      PROVE  InFolder'
  <2>1. folders' = fs
    BY <1>4 DEF StartOn
  <2>2. fs # << >> => Starts(declarations', fs[1].path)
    <3>1. ASSUME fs # << >> PROVE Starts(declarations', fs[1].path)
      <4>1. declarations' = Iterator(fs[1].path)
        BY <1>4, <3>1 DEF StartOn
      <4> QED BY <1>1, <1>2, <3>1, <4>1, IteratorStarts
    <3> QED BY <3>1
  <2> QED BY <1>4, <2>1, <2>2, InFolderNext
<1>5. CASE ClimbModules
  BY <1>3, <1>5 DEF ClimbModules
<1>6. CASE LookForModule
  <2>1. /\ ~IsOver(modules) /\ ~Top(modules).open
        /\ UNCHANGED <<tree, decl>> /\ folders = << >>
    BY <1>6 DEF LookForModule, ModulesMove
  <2>2. CASE UNCHANGED <<folders, declarations>>
    BY <1>3, <2>1, <2>2
  <2>3. CASE StartOn(MavenModuleFolders(modules.path)) /\ ~OutOfModules(Top(modules).node)
    <3>1. PICK b \in Nat : Standing(modules, b)
      BY <1>1, <2>1 DEF IteratorRight, IsOver
    <3>2. modules \in Iterators
      BY <1>1 DEF IteratorRight
    <3>3. modules.path \in Ways
      BY <3>1 DEF Standing, Ways, Way
    <3>4. Top(modules).next = 0
      <4>1. Len(modules.stack) \in Nat \ {0} /\ Top(modules) = modules.stack[Len(modules.stack)]
        BY <1>1, <3>1, <3>2, BaseLeads
      <4>2. Len(modules.stack) \in 1 .. Len(modules.stack)
        BY <4>1
      <4> QED BY <2>1, <3>1, <4>1, <4>2 DEF Standing, FrameRight
    <3>5. NodeOf(modules.path) = Top(modules).node
      BY <1>1, <3>1, <3>2, <3>4, BaseLeads DEF Base
    <3>6. modules.path \in DirectoryWays
      BY <2>3, <3>3, <3>5 DEF DirectoryWays, OutOfModules, DirKinds
    <3>7. MavenModuleFolders(modules.path) \in Seq(Folders)
      BY <1>1, <3>3, FoldersAreWays
    <3>8. AreSourceFolders(MavenModuleFolders(modules.path))
      BY <1>1, <3>6, FoldersAreSourceFolders
    <3>9. decl = << >>
      BY <1>1, <2>1
    <3> QED BY <1>4, <2>1, <2>3, <3>7, <3>8, <3>9
  <2> QED BY <1>6, <2>2, <2>3 DEF LookForModule
<1>7. CASE NextFolder
  <2>1. /\ folders # << >> /\ decl = << >> /\ StartOn(Tail(folders))
        /\ UNCHANGED <<tree, decl>>
    BY <1>7 DEF NextFolder
  <2>2. /\ Tail(folders) \in Seq(Folders) /\ Len(Tail(folders)) = Len(folders) - 1
        /\ \A i \in 1 .. Len(Tail(folders)) : Tail(folders)[i] = folders[i + 1]
    BY <1>1, <2>1, HeadTailProperties
  <2>3. AreSourceFolders(Tail(folders))
    <3>1. Len(folders) \in Nat
      BY <1>1, LenProperties
    <3>2. \A i \in 1 .. Len(Tail(folders)) : i + 1 \in 1 .. Len(folders)
      BY <2>2, <3>1
    <3> QED BY <2>2, <3>2 DEF AreSourceFolders, InFolder
  <2> QED BY <1>4, <2>1, <2>2, <2>3
<1>8. CASE ClimbDeclarations
  <2>1. /\ declarations' = Climb(declarations)
        /\ UNCHANGED <<tree, folders, decl>>
        /\ ~IsOver(declarations) /\ Top(declarations).open
    BY <1>8 DEF ClimbDeclarations, DeclarationsMove
  <2>2. folders # << >> /\ Way(folders[1].path) /\ Starts(declarations, folders[1].path)
    BY <1>1, <1>2, <2>1 DEF InFolder
  <2>3. Starts(declarations', folders[1].path)
    BY <1>1, <2>1, <2>2, ClimbStarts
  <2> QED BY <2>1, <2>3, InFolderNext DEF InFolder
<1>9. CASE LookForDeclaration
  <2>1. /\ declarations' = Look(declarations, Kind(Top(declarations).node) \in Ignored)
        /\ decl' = IF Declares(declarations.path) THEN declarations.path ELSE << >>
        /\ ~IsOver(declarations) /\ ~Top(declarations).open
        /\ UNCHANGED <<tree, folders>>
    BY <1>9 DEF LookForDeclaration, DeclarationsMove
  <2>2. folders # << >> /\ Way(folders[1].path) /\ Starts(declarations, folders[1].path)
    BY <1>1, <1>2, <2>1 DEF InFolder
  <2>3. Starts(declarations', folders[1].path) /\ Under(folders[1].path, declarations.path)
    BY <1>1, <2>1, <2>2, LookStarts
  <2> QED BY <2>1, <2>3, InFolderNext DEF InFolder
<1>10. CASE Unsearched
  BY <1>3, <1>10 DEF Unsearched
<1>11. CASE GoThrough
  <2>1. EndSearch => decl' = << >>
    BY DEF EndSearch
  <2> QED BY <1>3, <1>11, <2>1, SearchStandsStill
<1>12. CASE UNCHANGED vars
  BY <1>3, <1>12 DEF vars
<1> QED BY <1>5, <1>6, <1>7, <1>8, <1>9, <1>10, <1>11, <1>12 DEF Next, Iterate

\* The places around the declaration, one by one.
LEMMA CutFacts ==
  ASSUME tree \in DOMAIN Trees, Way(decl), NEW m \in Nat, m <= Len(TrailOf(decl))
  PROVE  /\ Cut(m) \in Seq(Nat) /\ Len(Cut(m)) = m
         /\ \A i \in 1 .. m : Cut(m)[i] = TrailOf(decl)[i]
         /\ At(Cut(m)) = decl[m + 1].node
         /\ m # 0 => Cut(m) # << >> /\ Front(Cut(m)) = Cut(m - 1)
<1> DEFINE trail == TrailOf(decl)
           n == Len(decl)
<1>1. trail \in Seq(Nat) /\ Len(trail) = n - 1 /\ n \in Nat \ {0}
  BY TrailFacts, EmptySeq DEF Way
<1>2. PICK cut : cut = Cut(m) /\ cut = SubSeq(trail, 1, m)
  BY DEF Cut
<1>3. m \in 0 .. Len(trail) /\ m + 1 \in 1 .. n /\ (m + 1) - 1 = m
  BY <1>1
<1>4. cut \in Seq(Nat) /\ Len(cut) = m /\ \A i \in 1 .. m : cut[i] = trail[i]
  BY <1>1, <1>2, <1>3, Beginning
<1>5. At(cut) = decl[m + 1].node
  BY <1>2, <1>3, NodesAlong
<1>6. ASSUME m # 0 PROVE cut # << >> /\ Front(cut) = Cut(m - 1)
  <2>1. cut # << >>
    BY <1>4, <1>6, EmptySeq
  <2>2. PICK k \in Nat : k = m - 1 /\ k + 1 = m /\ k \in 0 .. Len(trail)
    BY <1>3, <1>6
  <2>3. PICK before : before = Cut(k) /\ before = SubSeq(trail, 1, k)
    BY DEF Cut
  <2>4. before \in Seq(Nat) /\ Len(before) = k /\ \A i \in 1 .. k : before[i] = trail[i]
    BY <1>1, <2>2, <2>3, Beginning
  <2>5. PICK front : front = Front(cut)
    OBVIOUS
  <2>6. front \in Seq(Nat) /\ Len(front) = m - 1 /\ \A i \in 1 .. m - 1 : front[i] = cut[i]
    BY <1>4, <2>1, <2>5, FrontThen
  <2>7. \A i \in 1 .. k : i \in 1 .. m
    BY <2>2
  <2>8. \A i \in 1 .. k : front[i] = before[i]
    BY <1>4, <2>2, <2>4, <2>6, <2>7
  <2>9. front = before
    BY <2>2, <2>4, <2>6, <2>8, SeqEqual
  <2> QED BY <2>1, <2>2, <2>3, <2>5, <2>9
<1> QED BY <1>2, <1>4, <1>5, <1>6

\* Those in the folder, and what is below them.
LEMMA CutInFolder ==
  ASSUME tree \in DOMAIN Trees, Way(decl), NEW m \in Nat, m <= Len(TrailOf(decl)),
         Way(folders[1].path), Under(folders[1].path, decl),
         Len(folders[1].path) - 1 <= m
  PROVE  InFolders(Cut(m)) /\ \A o \in Nat : InFolders(Append(Cut(m), o))
<1> DEFINE folder == folders[1].path
<1>1. PICK ft, trail : ft = TrailOf(folder) /\ trail = TrailOf(decl)
  OBVIOUS
<1>2. /\ ft \in Seq(Nat) /\ Len(ft) = Len(folder) - 1
      /\ \A i \in 1 .. Len(folder) - 1 : ft[i] = folder[i + 1].offset
      /\ trail \in Seq(Nat) /\ Len(trail) = Len(decl) - 1
      /\ \A i \in 1 .. Len(decl) - 1 : trail[i] = decl[i + 1].offset
  BY <1>1, TrailFacts
<1>3. Len(folder) \in Nat \ {0} /\ Len(decl) \in Nat \ {0} /\ Len(folder) <= Len(decl)
  BY EmptySeq, LenProperties DEF Way, Under
<1>4. PICK cut : cut = Cut(m)
  OBVIOUS
<1>5. cut \in Seq(Nat) /\ Len(cut) = m /\ \A i \in 1 .. m : cut[i] = trail[i]
  BY <1>1, <1>4, CutFacts
<1>6. \A i \in 1 .. Len(ft) : ft[i] = cut[i]
  <2>1. ASSUME NEW i \in 1 .. Len(ft) PROVE ft[i] = cut[i]
    <3>1. /\ i \in 1 .. Len(folder) - 1 /\ i + 1 \in 1 .. Len(folder)
          /\ i \in 1 .. Len(decl) - 1 /\ i \in 1 .. m
      BY <1>2, <1>3
    <3>2. decl[i + 1] = folder[i + 1]
      BY <3>1 DEF Under
    <3> QED BY <1>2, <1>5, <3>1, <3>2
  <2> QED BY <2>1
<1>7. Len(ft) <= Len(cut)
  BY <1>2, <1>5
<1>8. IsPrefix(ft, cut)
  BY <1>2, <1>5, <1>6, <1>7, PrefixElements
<1>9. ASSUME NEW o \in Nat PROVE IsPrefix(ft, Append(cut, o))
  <2>1. PICK on : on = Append(cut, o)
    OBVIOUS
  <2>2. /\ on \in Seq(Nat) /\ Len(on) = Len(cut) + 1
        /\ \A i \in 1 .. Len(cut) : on[i] = cut[i]
    BY <1>5, <2>1, AppendProperties
  <2>3. /\ Len(ft) <= Len(on) /\ \A i \in 1 .. Len(ft) : i \in 1 .. Len(cut)
    BY <1>2, <1>5, <1>7, <2>2, LenProperties
  <2>4. \A i \in 1 .. Len(ft) : ft[i] = on[i]
    BY <1>6, <2>2, <2>3
  <2> QED BY <1>2, <2>1, <2>2, <2>3, <2>4, PrefixElements
<1>10. ft \in FolderTrails
  BY <1>1 DEF FolderTrails
<1> QED BY <1>4, <1>8, <1>9, <1>10 DEF InFolders

\* What a step of a search starts from, for a type of a package below its folder.
Walking(f, p) ==
  /\ Searches /\ f \in Nat /\ p \in Nat
  /\ IsType /\ Packaged(f, p)
  /\ Way(folders[1].path) /\ Under(folders[1].path, decl)
  /\ Walks(search, f, p)

\* Above it is the file, and above the file the folder.
LEMMA WalkingFacts ==
  ASSUME NEW f, NEW p, Walking(f, p)
  PROVE  /\ tree \in DOMAIN Trees /\ Way(decl) /\ WalkRight(store, search)
         /\ f \in Nat /\ p \in Nat \ {0} /\ f + 1 < p /\ f = Len(folders[1].path) - 1
         /\ Len(TrailOf(decl)) \in Nat /\ p < Len(TrailOf(decl))
         /\ Kind(At(Cut(p))) = "Program"
         /\ \A m \in p .. Len(TrailOf(decl)) : Kind(At(Cut(m))) \in Outer => m = p
<1> DEFINE n == Len(TrailOf(decl))
<1>1. /\ tree \in DOMAIN Trees /\ Way(decl) /\ WalkRight(store, search)
      /\ f \in Nat /\ p \in Nat /\ p \in 1 .. n /\ FileIn(decl, p + 1)
      /\ f = Len(folders[1].path) - 1 /\ f < p - 1
  BY DEF Walking, Packaged, Searches
<1>2. n \in Nat /\ Len(decl) = n + 1
  <2>1. Len(decl) \in Nat \ {0} /\ Len(TrailOf(decl)) = Len(decl) - 1
    BY <1>1, EmptySeq, TrailFacts DEF Way
  <2> QED BY <2>1
<1>3. \A m \in 0 .. n : At(Cut(m)) = decl[m + 1].node
  BY <1>1, <1>2, CutFacts
<1>4. Kind(At(Cut(p))) = "Program"
  BY <1>1, <1>3 DEF FileIn
<1>5. \A m \in p .. n : Kind(At(Cut(m))) \in Outer => m = p
  <2>1. ASSUME NEW m \in p .. n, m # p PROVE Kind(At(Cut(m))) \notin Outer
    <3>1. m \in 0 .. n /\ m + 1 \in p + 1 + 1 .. Len(decl)
      BY <1>1, <1>2, <2>1
    <3>2. Kind(decl[m + 1].node) \notin Outer
      BY <1>1, <3>1 DEF FileIn
    <3> QED BY <1>3, <3>1, <3>2
  <2> QED BY <2>1
<1>6. p # n
  <2>1. NodeOf(decl) = decl[n + 1].node
    BY <1>2 DEF NodeOf, Last
  <2>2. Kind(NodeOf(decl)) # "Program"
    BY DEF Walking, IsType, SearchedTypes
  <2>3. n \in 0 .. n
    BY <1>2
  <2> QED BY <1>3, <1>4, <2>1, <2>2, <2>3
<1> QED BY <1>1, <1>2, <1>4, <1>5, <1>6

\* The cursor one up.
LEMMA UpAt ==
  ASSUME tree \in DOMAIN Trees, Way(decl), NEW st, NEW c, WalkRight(st, c),
         NEW m \in Nat \ {0}, m <= Len(TrailOf(decl)), c.at = Cut(m)
  PROVE  LET u == CursorUp(st, c) IN
         /\ WalkRight(st, u) /\ u.curr # 0 /\ u.curr = At(Cut(m - 1))
         /\ u.at = Cut(m - 1) /\ u.stage = c.stage /\ u.outcome = c.outcome
         /\ u.again = c.again /\ u.saved = c.saved
<1> DEFINE u == CursorUp(st, c)
<1>1. Cut(m) # << >> /\ Front(Cut(m)) = Cut(m - 1)
  BY CutFacts
<1>2. StandsAt(st, c.scout, c.at) /\ DOMAIN c = DOMAIN Idle
  BY DEF WalkRight, WalkFrom, CursorRight
<1>3. HasParents(c.scout)
  BY <1>1, <1>2, StandsAtTrail
<1>4. /\ WalkRight(st, u) /\ u.curr # 0
      /\ u.stage = c.stage /\ u.again = c.again /\ u.saved = c.saved
  BY <1>3, CursorUpRight
<1>5. u.at = Cut(m - 1) /\ u.outcome = c.outcome
  <2>1. DOMAIN c = {"stage", "again", "scout", "at", "prev", "curr", "next",
                    "matches", "outcome", "saved"}
    BY <1>2 DEF Idle
  <2>2. u.at = (IF c.at = << >> THEN c.at ELSE Front(c.at)) /\ u.outcome = c.outcome
    BY <2>1 DEF CursorUp
  <2> QED BY <1>1, <2>2
<1> HIDE DEF u
<1>6. u.curr = At(u.at)
  <2>1. StandsAt(st, u.scout, u.at) /\ u.curr = NodeAlways(st, u.scout)
    BY <1>4 DEF WalkRight, WalkFrom, CursorRight
  <2> QED BY <2>1, StandsIsAt
<1> QED BY <1>4, <1>5, <1>6 DEF u

\* The node of the cursor is the one at its trail.
LEMMA CurrAt ==
  ASSUME tree \in DOMAIN Trees, NEW st, NEW c, WalkRight(st, c)
  PROVE  c.curr = At(c.at)
BY StandsIsAt DEF WalkRight, WalkFrom, CursorRight

\* What the operations on a search leave as it was.
LikeBefore(s, t) ==
  /\ DOMAIN s = DOMAIN t /\ s.at = t.at /\ s.again = t.again /\ s.saved = t.saved

\* They change what they name and leave the place.
LEMMA FieldsOf ==
  ASSUME NEW c, DOMAIN c = DOMAIN Idle
  PROVE  /\ \A n : LET s == [c EXCEPT !.matches = n] IN
                   LikeBefore(s, c) /\ s.stage = c.stage /\ s.outcome = c.outcome
         /\ LET s == [c EXCEPT !.next = @ + 1] IN
            LikeBefore(s, c) /\ s.stage = c.stage /\ s.outcome = c.outcome
         /\ \A stage : /\ LikeBefore(To(stage, c), c)
                       /\ To(stage, c).stage = stage /\ To(stage, c).outcome = c.outcome
         /\ \A stage : LET s == [c EXCEPT !.stage = stage] IN
                       LikeBefore(s, c) /\ s.stage = stage /\ s.outcome = c.outcome
         /\ \A o : LET s == [c EXCEPT !.stage = "over", !.outcome = o] IN
                   LikeBefore(s, c) /\ s.stage = "over" /\ s.outcome = o
<1>1. DOMAIN c = {"stage", "again", "scout", "at", "prev", "curr", "next",
                  "matches", "outcome", "saved"}
  BY DEF Idle
<1>2. ASSUME NEW n PROVE LET s == [c EXCEPT !.matches = n] IN
                         LikeBefore(s, c) /\ s.stage = c.stage /\ s.outcome = c.outcome
  BY <1>1 DEF LikeBefore
<1>3. LET s == [c EXCEPT !.next = @ + 1] IN
      LikeBefore(s, c) /\ s.stage = c.stage /\ s.outcome = c.outcome
  BY <1>1 DEF LikeBefore
<1>4. ASSUME NEW stage PROVE /\ LikeBefore(To(stage, c), c)
                             /\ To(stage, c).stage = stage /\ To(stage, c).outcome = c.outcome
  BY <1>1 DEF LikeBefore, To
<1>5. ASSUME NEW stage PROVE LET s == [c EXCEPT !.stage = stage] IN
                             LikeBefore(s, c) /\ s.stage = stage /\ s.outcome = c.outcome
  BY <1>1 DEF LikeBefore
<1>6. ASSUME NEW o PROVE LET s == [c EXCEPT !.stage = "over", !.outcome = o] IN
                         LikeBefore(s, c) /\ s.stage = "over" /\ s.outcome = o
  BY <1>1 DEF LikeBefore
<1> QED BY <1>2, <1>3, <1>4, <1>5, <1>6

\* The stages of the walk are told apart, and no type is a file or a directory.
LEMMA StagesDiffer ==
  /\ InFileStages \cap {"package", "directories", "folders", "over", "idle"} = {}
  /\ TypeBodies \cap Outer = {} /\ TypeDeclarations \cap Outer = {}
  /\ "EnumBody" \notin Outer /\ "Program" \in Outer
BY DEF InFileStages, TypeBodies, TypeDeclarations, Outer, DirKinds, FileKinds

\* The same stage, or another one in the file, or the last ones.
LEMMA WalksOn ==
  ASSUME NEW f, NEW p, NEW t, Walks(t, f, p), NEW s, LikeBefore(s, t)
  PROVE  /\ s.stage = t.stage /\ s.outcome = t.outcome => Walks(s, f, p)
         /\ s.stage \in InFileStages /\ t.stage \in InFileStages /\ s.outcome = t.outcome
              => Walks(s, f, p)
         /\ s.stage \in {"folders", "over"} /\ s.outcome # "nomore" => Walks(s, f, p)
<1>1. CASE s.stage = t.stage /\ s.outcome = t.outcome
  BY <1>1, StagesDiffer DEF Walks, LikeBefore
<1>2. CASE s.stage \in InFileStages /\ t.stage \in InFileStages /\ s.outcome = t.outcome
  BY <1>2, StagesDiffer DEF Walks, LikeBefore
<1>3. CASE s.stage \in {"folders", "over"} /\ s.outcome # "nomore"
  BY <1>3, StagesDiffer DEF Walks, LikeBefore
<1> QED BY <1>1, <1>2, <1>3

\* Where a search in the file is.
LEMMA InFileAt ==
  ASSUME NEW f, NEW p, Walking(f, p), search.stage \in InFileStages
  PROVE  \E m \in p .. Len(TrailOf(decl)) - 1 :
           /\ search.at = Cut(m) /\ search.curr = At(Cut(m))
           /\ m \in Nat \ {0} /\ m <= Len(TrailOf(decl))
           /\ Kind(search.curr) = "Program" => m = p
           /\ Kind(search.curr) \notin Outer => p < m
<1>1. PICK m \in p .. Len(TrailOf(decl)) - 1 : search.at = Cut(m)
  BY DEF Walking, Walks
<1>2. search.curr = At(Cut(m))
  BY <1>1, WalkingFacts, CurrAt
<1>3. m \in Nat \ {0} /\ m <= Len(TrailOf(decl)) /\ m \in p .. Len(TrailOf(decl))
  BY <1>1, WalkingFacts
<1>4. Kind(search.curr) = "Program" => m = p
  BY <1>2, <1>3, WalkingFacts, StagesDiffer
<1>5. ASSUME Kind(search.curr) \notin Outer PROVE p < m
  <2>1. m # p
    BY <1>2, <1>5, WalkingFacts, StagesDiffer
  <2> QED BY <1>1, <2>1, WalkingFacts
<1> QED BY <1>1, <1>2, <1>3, <1>4, <1>5

\* Every place around it, up to the folder, is in the folder.
LEMMA PlacesInFolder ==
  ASSUME NEW f, NEW p, Walking(f, p), NEW m \in Nat, f <= m, m <= Len(TrailOf(decl))
  PROVE  InFolders(Cut(m)) /\ \A o \in Nat : InFolders(Append(Cut(m), o))
<1>1. /\ tree \in DOMAIN Trees /\ Way(decl) /\ f = Len(folders[1].path) - 1
      /\ Way(folders[1].path) /\ Under(folders[1].path, decl)
  BY WalkingFacts DEF Walking
<1> QED BY <1>1, CutInFolder

\* The children of the declaration, or of the node of the cursor.
LEMMA ScanWalks ==
  ASSUME NEW f, NEW p, Walking(f, p)
  PROVE  /\ Walks([search EXCEPT !.next = @ + 1], f, p)
         /\ Scanning => InFolders(Append(ScannedAt, search.next))
<1>1. DOMAIN search = DOMAIN Idle /\ search.next \in Nat /\ Walks(search, f, p)
  BY WalkingFacts DEF WalkRight, WalkFrom, CursorRight, Walking
<1>2. Walks([search EXCEPT !.next = @ + 1], f, p)
  BY <1>1, FieldsOf, WalksOn
<1>3. ASSUME Scanning PROVE InFolders(Append(ScannedAt, search.next))
  <2>1. CASE OfDecl
    <3>1. PICK n \in Nat : n = Len(TrailOf(decl)) /\ f <= n
      BY WalkingFacts
    <3>2. TrailOf(decl) \in Seq(Nat)
      BY WalkingFacts, TrailFacts
    <3>3. ScannedAt = Cut(n)
      BY <2>1, <3>1, <3>2, SubSeqFull DEF ScannedAt, Cut
    <3> QED BY <1>1, <3>1, <3>3, PlacesInFolder
  <2>2. CASE ~OfDecl
    <3>1. \E m \in Nat : search.at = Cut(m) /\ f <= m /\ m <= Len(TrailOf(decl))
      <4>1. CASE search.stage \in InFileStages
        <5>1. PICK m \in p .. Len(TrailOf(decl)) - 1 : search.at = Cut(m) /\ m \in Nat \ {0}
          BY <4>1, InFileAt
        <5>2. f <= m /\ m <= Len(TrailOf(decl))
          BY <5>1, WalkingFacts
        <5> QED BY <5>1, <5>2
      <4>2. CASE search.stage = "package"
        <5>1. search.at = Cut(p - 1)
          BY <1>1, <4>2 DEF Walks
        <5>2. p - 1 \in Nat /\ f <= p - 1 /\ p - 1 <= Len(TrailOf(decl))
          BY WalkingFacts
        <5> QED BY <5>1, <5>2
      <4>3. CASE search.stage = "directories"
        <5>1. PICK m \in f .. p - 1 : search.at = Cut(m)
          BY <1>1, <4>3 DEF Walks
        <5>2. m \in Nat /\ f <= m /\ m <= Len(TrailOf(decl))
          BY <5>1, WalkingFacts
        <5> QED BY <5>1, <5>2
      <4> QED BY <1>1, <1>3, <2>2, <4>1, <4>2, <4>3 DEF Walks, Scanning, OfDecl, InFileStages
    <3>2. ScannedAt = search.at
      BY <2>2 DEF ScannedAt
    <3> QED BY <1>1, <3>1, <3>2, PlacesInFolder
  <2> QED BY <2>1, <2>2
<1> QED BY <1>2, <1>3

\* Outward through the types around the declaration.
LEMMA TypesWalk ==
  ASSUME NEW f, NEW p, Walking(f, p)
  PROVE  /\ search.stage \in InFileStages =>
              \A stage \in InFileStages : Walks(To(stage, search), f, p)
         /\ \A o : o # "nomore" => Walks(Over(o), f, p)
         /\ search.stage \in InFileStages => InFolders(search.at)
         /\ After("body") \/ After("enum") =>
              /\ Walks(To("enum", Outward), f, p)
              /\ Kind(Outward.curr) \in TypeDeclarations =>
                   /\ Walks(To("types", CursorUp(store, Outward)), f, p)
                   /\ InFolders(Outward.at)
<1>1. /\ DOMAIN search = DOMAIN Idle /\ Walks(search, f, p) /\ SearchRight(store, search)
      /\ tree \in DOMAIN Trees /\ Way(decl) /\ WalkRight(store, search)
  BY WalkingFacts DEF WalkRight, WalkFrom, CursorRight, Walking, Searches
<1>2. ASSUME search.stage \in InFileStages, NEW stage \in InFileStages
      PROVE  Walks(To(stage, search), f, p)
  <2>1. PICK s : s = To(stage, search)
    OBVIOUS
  <2>2. LikeBefore(s, search) /\ s.stage = stage /\ s.outcome = search.outcome
    BY <1>1, <2>1, FieldsOf
  <2>3. Walks(s, f, p)
    BY <1>1, <1>2, <2>2, WalksOn
  <2> QED BY <2>1, <2>3
<1>3. ASSUME NEW o, o # "nomore" PROVE Walks(Over(o), f, p)
  <2>1. PICK s : s = Over(o) /\ s = [search EXCEPT !.stage = "over", !.outcome = o]
    BY DEF Over
  <2>2. LikeBefore(s, search) /\ s.stage = "over" /\ s.outcome = o
    <3>1. DOMAIN search = {"stage", "again", "scout", "at", "prev", "curr", "next",
                           "matches", "outcome", "saved"}
      BY <1>1 DEF Idle
    <3> QED BY <2>1, <3>1 DEF LikeBefore
  <2>3. Walks(s, f, p)
    BY <1>1, <1>3, <2>2, WalksOn
  <2> QED BY <2>1, <2>3
<1>4. ASSUME search.stage \in InFileStages PROVE InFolders(search.at)
  <2>1. PICK m \in p .. Len(TrailOf(decl)) - 1 : search.at = Cut(m) /\ m \in Nat \ {0}
    BY <1>4, InFileAt
  <2>2. f <= m /\ m <= Len(TrailOf(decl))
    BY <2>1, WalkingFacts
  <2> QED BY <2>1, <2>2, PlacesInFolder
<1>5. ASSUME After("body") \/ After("enum")
      PROVE  /\ Walks(To("enum", Outward), f, p)
             /\ Kind(Outward.curr) \in TypeDeclarations =>
                  /\ Walks(To("types", CursorUp(store, Outward)), f, p)
                  /\ InFolders(Outward.at)
  <2>1. search.stage \in {"body", "enum"} /\ search.stage \in InFileStages
    BY <1>5 DEF After, InFileStages
  <2>2. Kind(search.curr) \notin Outer
    BY <1>1, <2>1, StagesDiffer DEF SearchRight
  <2>3. PICK m \in p .. Len(TrailOf(decl)) - 1 :
          /\ search.at = Cut(m) /\ m \in Nat \ {0} /\ m <= Len(TrailOf(decl)) /\ p < m
    BY <2>1, <2>2, InFileAt
  <2>4. PICK o : o = Outward
    OBVIOUS
  <2>5. /\ WalkRight(store, o) /\ o.curr = At(Cut(m - 1)) /\ o.at = Cut(m - 1)
        /\ o.outcome = search.outcome /\ o.again = search.again /\ o.saved = search.saved
    BY <1>1, <2>3, <2>4, UpAt DEF Outward
  <2>6. PICK k \in Nat \ {0} : k = m - 1 /\ k \in p .. Len(TrailOf(decl)) - 1
                               /\ k <= Len(TrailOf(decl)) /\ f <= k
    BY <2>3, WalkingFacts
  <2>7. Walks(To("enum", o), f, p)
    <3>1. DOMAIN o = DOMAIN Idle
      BY <2>5 DEF WalkRight, WalkFrom, CursorRight
    <3>2. PICK s : s = To("enum", o)
      OBVIOUS
    <3>3. LikeBefore(s, o) /\ s.stage = "enum" /\ s.outcome = o.outcome
      BY <3>1, <3>2, FieldsOf
    <3>4. s.stage \in InFileStages
      BY <3>3 DEF InFileStages
    <3>5. s.at = Cut(k) /\ s.outcome = search.outcome /\ s.again = search.again
          /\ s.saved = search.saved
      BY <2>5, <2>6, <3>3 DEF LikeBefore
    <3> QED BY <1>1, <2>6, <3>2, <3>4, <3>5, StagesDiffer DEF Walks
  <2>8. ASSUME Kind(o.curr) \in TypeDeclarations
        PROVE  Walks(To("types", CursorUp(store, o)), f, p) /\ InFolders(o.at)
    <3>1. k # p
      BY <2>5, <2>6, <2>8, WalkingFacts, StagesDiffer
    <3>2. PICK l \in Nat : l = k - 1 /\ l \in p .. Len(TrailOf(decl)) - 1
      BY <2>6, <3>1, WalkingFacts
    <3>3. PICK u : u = CursorUp(store, o)
      OBVIOUS
    <3>4. /\ WalkRight(store, u) /\ u.at = Cut(k - 1)
          /\ u.outcome = o.outcome /\ u.again = o.again /\ u.saved = o.saved
      BY <1>1, <2>5, <2>6, <3>3, UpAt
    <3>5. DOMAIN u = DOMAIN Idle
      BY <3>4 DEF WalkRight, WalkFrom, CursorRight
    <3>6. PICK s : s = To("types", u)
      OBVIOUS
    <3>7. LikeBefore(s, u) /\ s.stage = "types" /\ s.outcome = u.outcome
      BY <3>5, <3>6, FieldsOf
    <3>8. s.stage \in InFileStages
      BY <3>7 DEF InFileStages
    <3>9. s.at = Cut(l) /\ s.outcome = search.outcome /\ s.again = search.again
          /\ s.saved = search.saved
      BY <2>5, <3>2, <3>4, <3>7 DEF LikeBefore
    <3>10. Walks(s, f, p)
      BY <1>1, <3>2, <3>8, <3>9, StagesDiffer DEF Walks
    <3>11. InFolders(o.at)
      BY <2>5, <2>6, PlacesInFolder
    <3> QED BY <3>3, <3>6, <3>10, <3>11
  <2> QED BY <2>4, <2>7, <2>8
<1> QED BY <1>2, <1>3, <1>4, <1>5

\* The file is passed twice, the second time with the saved cursor.
LEMMA FileWalks ==
  ASSUME NEW f, NEW p, Walking(f, p)
  PROVE  /\ search.stage = "types" /\ search.again =>
              Walks(To("package", [search.saved[1] EXCEPT !.matches = search.matches]), f, p)
         /\ search.stage = "program" =>
              Walks([CursorAbove(store, search, ScoutOf(decl)) EXCEPT
                       !.stage = "types", !.again = TRUE, !.saved = <<Outward>>], f, p)
<1>1. /\ DOMAIN search = DOMAIN Idle /\ Walks(search, f, p) /\ SearchRight(store, search)
      /\ tree \in DOMAIN Trees /\ Way(decl) /\ WalkRight(store, search)
      /\ decl # << >> /\ NodeOf(decl) # Root
  BY WalkingFacts DEF WalkRight, WalkFrom, CursorRight, Walking, Searches
<1>2. DOMAIN search = {"stage", "again", "scout", "at", "prev", "curr", "next",
                       "matches", "outcome", "saved"}
  BY <1>1 DEF Idle
<1>3. ASSUME search.stage = "types", search.again
      PROVE  Walks(To("package", [search.saved[1] EXCEPT !.matches = search.matches]), f, p)
  <2>1. PICK saved : saved = search.saved[1]
    OBVIOUS
  <2>2. DOMAIN saved = DOMAIN Idle /\ ~saved.again
    BY <1>1, <1>3, <2>1 DEF WalkRight, WalkFrom, CursorAround, CursorRight
  <2>3. saved.at = Cut(p - 1) /\ saved.outcome # "nomore"
    BY <1>1, <1>3, <2>1 DEF Walks
  <2>4. PICK n : n = search.matches
    OBVIOUS
  <2>5. PICK back : back = [saved EXCEPT !.matches = n]
    OBVIOUS
  <2>6. LikeBefore(back, saved) /\ back.outcome = saved.outcome
    BY <2>2, <2>5, FieldsOf
  <2>7. DOMAIN back = DOMAIN Idle
    BY <2>2, <2>6 DEF LikeBefore
  <2>8. PICK s : s = To("package", back)
    OBVIOUS
  <2>9. LikeBefore(s, back) /\ s.stage = "package" /\ s.outcome = back.outcome
    BY <2>7, <2>8, FieldsOf
  <2>10. s.at = Cut(p - 1) /\ ~s.again /\ s.outcome # "nomore"
    BY <2>2, <2>3, <2>6, <2>9 DEF LikeBefore
  <2>11. Walks(s, f, p)
    BY <2>9, <2>10, StagesDiffer DEF Walks
  <2> QED BY <2>1, <2>4, <2>5, <2>8, <2>11
<1>4. ASSUME search.stage = "program"
      PROVE  Walks([CursorAbove(store, search, ScoutOf(decl)) EXCEPT
                      !.stage = "types", !.again = TRUE, !.saved = <<Outward>>], f, p)
  <2>1. Kind(search.curr) = "Program" /\ search.stage \in InFileStages
    BY <1>1, <1>4 DEF SearchRight, InFileStages
  <2>2. search.at = Cut(p)
    BY <2>1, InFileAt
  <2>3. PICK out : out = Outward
    OBVIOUS
  <2>4. p \in Nat \ {0} /\ p <= Len(TrailOf(decl))
    BY WalkingFacts
  <2>5. out.at = Cut(p - 1) /\ out.outcome = search.outcome
    BY <1>1, <2>2, <2>3, <2>4, UpAt DEF Outward
  <2>6. PICK scout : scout = ScoutOf(decl)
    OBVIOUS
  <2>7. PICK from : from = [search EXCEPT !.scout = scout, !.curr = NodeOf(decl),
                                          !.at = TrailOf(decl)]
    OBVIOUS
  <2>8. /\ DOMAIN from = DOMAIN search /\ from.at = TrailOf(decl)
        /\ from.outcome = search.outcome
    BY <1>2, <2>7
  <2>9. PICK above : above = CursorAbove(store, search, scout) /\ above = CursorUp(store, from)
    BY <2>7 DEF CursorAbove
  <2>10. /\ DOMAIN above = DOMAIN search /\ above.outcome = search.outcome
         /\ above.at = IF TrailOf(decl) = << >> THEN TrailOf(decl) ELSE Front(TrailOf(decl))
    <3>1. DOMAIN from = {"stage", "again", "scout", "at", "prev", "curr", "next",
                         "matches", "outcome", "saved"}
      BY <1>2, <2>8
    <3> QED BY <1>2, <2>8, <2>9, <3>1 DEF CursorUp
  <2>11. PICK n \in Nat \ {0} : n = Len(TrailOf(decl)) /\ n - 1 \in p .. Len(TrailOf(decl)) - 1
    BY WalkingFacts
  <2>12. above.at = Cut(n - 1)
    <3>1. TrailOf(decl) \in Seq(Nat)
      BY <1>1, TrailFacts
    <3>2. Cut(n) = TrailOf(decl)
      BY <2>11, <3>1, SubSeqFull DEF Cut
    <3>3. Cut(n) # << >> /\ Front(Cut(n)) = Cut(n - 1)
      <4>1. n \in Nat /\ n <= Len(TrailOf(decl)) /\ n # 0
        BY <2>11
      <4> QED BY <1>1, <4>1, CutFacts
    <3> QED BY <2>10, <3>2, <3>3
  <2>13. PICK s : s = [above EXCEPT !.stage = "types", !.again = TRUE, !.saved = <<out>>]
    OBVIOUS
  <2>14. /\ s.stage = "types" /\ s.at = above.at /\ s.outcome = above.outcome
         /\ s.saved = <<out>>
    BY <1>2, <2>10, <2>13
  <2>15. s.saved[1] = out
    BY <2>14
  <2>16. search.outcome # "nomore"
    BY <1>1 DEF Walks
  <2>17. "types" \in InFileStages
    BY DEF InFileStages
  <2>18. Walks(s, f, p)
    BY <2>5, <2>10, <2>11, <2>12, <2>14, <2>15, <2>16, <2>17, StagesDiffer DEF Walks
  <2> QED BY <2>3, <2>6, <2>9, <2>13, <2>18
<1> QED BY <1>3, <1>4

\* Outward through the directories, to the folder.
LEMMA DirectoriesWalk ==
  ASSUME NEW f, NEW p, Walking(f, p)
  PROVE  /\ search.stage = "package" => Walks(NextDirectory, f, p)
         /\ search.stage = "directories" =>
              Walks(IF search.curr = Limit THEN To("folders", search) ELSE NextDirectory, f, p)
<1>1. /\ DOMAIN search = DOMAIN Idle /\ Walks(search, f, p)
      /\ tree \in DOMAIN Trees /\ Way(decl) /\ WalkRight(store, search)
  BY WalkingFacts DEF WalkRight, WalkFrom, CursorRight, Walking
<1>2. ASSUME NEW m \in Nat, search.at = Cut(m), f < m, m <= p - 1
      PROVE  Walks(NextDirectory, f, p)
  <2>1. m \in Nat \ {0} /\ m <= Len(TrailOf(decl)) /\ m - 1 \in f .. p - 1
    BY <1>2, WalkingFacts
  <2>2. PICK o : o = Outward
    OBVIOUS
  <2>3. /\ WalkRight(store, o) /\ o.curr # 0 /\ o.at = Cut(m - 1)
        /\ o.outcome = search.outcome /\ o.again = search.again /\ o.saved = search.saved
    BY <1>1, <1>2, <2>1, <2>2, UpAt DEF Outward
  <2>4. PICK s : s = To("directories", o)
    OBVIOUS
  <2>5. DOMAIN o = DOMAIN Idle
    BY <2>3 DEF WalkRight, WalkFrom, CursorRight
  <2>6. LikeBefore(s, o) /\ s.stage = "directories" /\ s.outcome = o.outcome
    BY <2>4, <2>5, FieldsOf
  <2>7. /\ s.at = Cut(m - 1) /\ s.outcome = search.outcome /\ s.again = search.again
        /\ s.saved = search.saved
    BY <2>3, <2>6 DEF LikeBefore
  <2>8. Walks(s, f, p)
    BY <1>1, <2>1, <2>6, <2>7, StagesDiffer DEF Walks
  <2> QED BY <2>2, <2>3, <2>4, <2>8 DEF NextDirectory
<1>3. ASSUME search.stage = "package" PROVE Walks(NextDirectory, f, p)
  <2>1. PICK m \in Nat : m = p - 1 /\ f < m /\ m <= p - 1
    BY WalkingFacts
  <2>2. search.at = Cut(m)
    BY <1>1, <1>3, <2>1 DEF Walks
  <2> QED BY <1>2, <2>1, <2>2
<1>4. ASSUME search.stage = "directories", search.curr # Limit
      PROVE  Walks(NextDirectory, f, p)
  <2>1. PICK m \in f .. p - 1 : search.at = Cut(m)
    BY <1>1, <1>4 DEF Walks
  <2>2. search.curr = At(Cut(m))
    BY <1>1, <2>1, CurrAt
  <2>3. At(Cut(f)) = Limit
    <3>1. f \in Nat /\ f <= Len(TrailOf(decl)) /\ f + 1 = Len(folders[1].path)
      <4>1. Len(folders[1].path) \in Nat
        BY EmptySeq DEF Walking, Way
      <4> QED BY <4>1, WalkingFacts
    <3>2. At(Cut(f)) = decl[f + 1].node
      BY <1>1, <3>1, CutFacts
    <3>3. decl[f + 1] = folders[1].path[f + 1]
      <4>1. f + 1 \in 1 .. Len(folders[1].path)
        BY <3>1
      <4> QED BY <4>1 DEF Walking, Under
    <3> QED BY <3>1, <3>2, <3>3 DEF Limit, NodeOf, Last
  <2>4. m # f
    BY <1>4, <2>2, <2>3
  <2>5. m \in Nat /\ f < m /\ m <= p - 1
    BY <2>4, WalkingFacts
  <2> QED BY <1>2, <2>1, <2>5
<1>5. ASSUME search.stage = "directories" PROVE Walks(To("folders", search), f, p)
  <2>1. PICK s : s = To("folders", search)
    OBVIOUS
  <2>2. LikeBefore(s, search) /\ s.stage = "folders" /\ s.outcome = search.outcome
    BY <1>1, <2>1, FieldsOf
  <2>3. s.outcome # "nomore"
    BY <1>1, <2>2 DEF Walks
  <2> QED BY <1>1, <2>1, <2>2, <2>3, WalksOn
<1> QED BY <1>3, <1>4, <1>5

\* The other folder.
LEMMA FoldersWalk ==
  ASSUME NEW f, NEW p, Walking(f, p), folders[1].others # << >>
  PROVE  InFolders(TrailOf(folders[1].others[1]))
<1> DEFINE other == folders[1].others[1]
<1>1. folders \in Seq(Folders) /\ folders # << >>
  BY DEF Walking, Searches
<1>2. 1 \in 1 .. Len(folders)
  BY <1>1, EmptySeq, LenProperties
<1>3. folders[1] \in Folders
  BY <1>1, <1>2, ElementOfSeq
<1>4. folders[1].others \in Seq(Ways)
  BY <1>3 DEF Folders
<1>5. 1 \in 1 .. Len(folders[1].others) /\ 1 \in DOMAIN folders[1].others
  BY <1>4, EmptySeq, LenProperties
<1>6. other \in Ways
  BY <1>4, <1>5, ElementOfSeq
<1>7. TrailOf(other) \in Seq(Nat)
  BY <1>6, TrailFacts DEF Ways
<1>8. IsPrefix(TrailOf(other), TrailOf(other))
  BY <1>7, PrefixElements, LenProperties
<1>9. TrailOf(other) \in FolderTrails
  BY <1>5 DEF FolderTrails, ToSet
<1> QED BY <1>8, <1>9 DEF InFolders

\* The second half of the invariant, after a step.
LEMMA BoundedNext ==
  ASSUME UNCHANGED <<tree, folders, decl>>,
         search' = Idle => searched' = {},
         search' # Idle /\ IsType => \A f \in Nat, p \in Nat : Packaged(f, p) =>
           Walks(search', f, p) /\ \A t \in searched' : InFolders(t)
  PROVE  Bounded'
<1>1. ASSUME NEW n PROVE Kind(n)' = Kind(n)
  BY DEF Kind
<1>2. IsType' <=> IsType
  BY <1>1 DEF IsType, NodeOf
<1>3. ASSUME NEW f, NEW p PROVE Packaged(f, p)' <=> Packaged(f, p)
  BY <1>1 DEF Packaged, FileIn
<1>4. ASSUME NEW f, NEW p PROVE Walks(search, f, p)' <=> Walks(search', f, p)
  BY DEF Walks, Cut
<1>5. ASSUME NEW t PROVE InFolders(t)' <=> InFolders(t)
  BY DEF InFolders, FolderTrails
<1> QED BY <1>2, <1>3, <1>4, <1>5 DEF Bounded

\* The walk, while a type is searched.
LEMMA WalkingWhen ==
  ASSUME Inv, InFolder, Bounded, search # Idle, IsType,
         NEW f \in Nat, NEW p \in Nat, Packaged(f, p)
  PROVE  Walking(f, p) /\ \A t \in searched : InFolders(t)
<1>1. Searches
  <2>1. search.stage # "idle"
    BY DEF Inv, FinderRight, SearchRight
  <2> QED BY <2>1, SearchesWhen
<1>2. folders \in Seq(Folders) /\ folders # << >> /\ decl # << >>
  BY <1>1 DEF Searches
<1>3. Way(folders[1].path)
  <2>1. 1 \in 1 .. Len(folders)
    BY <1>2, EmptySeq, LenProperties
  <2>2. folders[1] \in Folders
    BY <1>2, <2>1, ElementOfSeq
  <2> QED BY <2>2 DEF Folders, Ways
<1> QED BY <1>1, <1>2, <1>3 DEF Walking, InFolder, Bounded

\* The two ways a step of a search goes on.
LEMMA GoingOnBounded ==
  ASSUME Inv, InFolder, Bounded, search # Idle, NEW s, GoingOn(s), s.stage # "idle",
         \A f, p : Walking(f, p) => Walks(s, f, p)
  PROVE  Bounded'
<1>1. UNCHANGED <<tree, folders, decl, searched>> /\ search' = s /\ search' # Idle
  BY DEF GoingOn, iterators, Idle
<1>2. ASSUME IsType, NEW f \in Nat, NEW p \in Nat, Packaged(f, p)
      PROVE  Walks(search', f, p) /\ \A t \in searched' : InFolders(t)
  BY <1>1, <1>2, WalkingWhen
<1> QED BY <1>1, <1>2, BoundedNext

\* It gives find_all a place, or does not.
LEMMA SearchingBounded ==
  ASSUME Inv, InFolder, Bounded, search # Idle, NEW s, NEW place, NEW trail,
         Searching(s, place, trail), DOMAIN s = DOMAIN Idle, s.stage # "idle",
         \A f, p : Walking(f, p) => Walks(s, f, p) /\ InFolders(trail)
  PROVE  Bounded'
<1>1. UNCHANGED <<tree, folders, decl>> /\ searched' = searched \cup {trail}
  BY DEF Searching, iterators
<1>2. search' = s \/ search' = [s EXCEPT !.matches = @ + 1]
  BY DEF Searching
<1>3. /\ LikeBefore(search', s) /\ search'.stage = s.stage /\ search'.outcome = s.outcome
  <2>1. DOMAIN s = {"stage", "again", "scout", "at", "prev", "curr", "next",
                    "matches", "outcome", "saved"}
    BY DEF Idle
  <2> QED BY <1>2, <2>1 DEF LikeBefore
<1>4. search' # Idle
  BY <1>3 DEF Idle
<1>5. ASSUME IsType, NEW f \in Nat, NEW p \in Nat, Packaged(f, p)
      PROVE  Walks(search', f, p) /\ \A t \in searched' : InFolders(t)
  <2>1. Walking(f, p) /\ \A t \in searched : InFolders(t)
    BY <1>5, WalkingWhen
  <2>2. PICK next : next = search'
    OBVIOUS
  <2>3. Walks(next, f, p)
    BY <1>3, <2>1, <2>2, WalksOn
  <2> QED BY <1>1, <2>1, <2>2, <2>3
<1> QED BY <1>1, <1>4, <1>5, BoundedNext

\* A search for a type begins above it, in its file.
LEMMA BeginBounded ==
  ASSUME Inv, InFolder, Bounded, BeginSearch
  PROVE  Bounded'
<1>1. UNCHANGED <<tree, folders, decl, searched>> /\ search = Idle /\ decl # << >>
  BY DEF BeginSearch, iterators
<1>2. searched' = {}
  BY <1>1 DEF Bounded
<1>3. tree \in DOMAIN Trees /\ Way(decl)
  BY <1>1 DEF Inv, IteratorsRight
<1>4. ASSUME IsType, NEW f \in Nat, NEW p \in Nat, Packaged(f, p)
      PROVE  Walks(search', f, p)
  <2>1. \E st, on : search' = [CursorAbove(st, Idle, on) EXCEPT !.stage = "own"]
    BY <1>4 DEF BeginSearch
  <2>2. PICK st, on : search' = [CursorAbove(st, Idle, on) EXCEPT !.stage = "own"]
    BY <2>1
  <2>3. PICK from : from = [Idle EXCEPT !.scout = on, !.curr = NodeOf(decl), !.at = TrailOf(decl)]
    OBVIOUS
  <2>4. /\ DOMAIN from = DOMAIN Idle /\ from.at = TrailOf(decl) /\ from.again = FALSE
        /\ from.outcome = "ok"
    BY <2>3 DEF Idle
  <2>5. PICK above : above = CursorAbove(st, Idle, on) /\ above = CursorUp(st, from)
    BY <2>3 DEF CursorAbove
  <2>6. DOMAIN from = {"stage", "again", "scout", "at", "prev", "curr", "next",
                       "matches", "outcome", "saved"}
    BY <2>4 DEF Idle
  <2>7. /\ DOMAIN above = DOMAIN from /\ above.outcome = "ok" /\ above.again = FALSE
        /\ above.at = IF TrailOf(decl) = << >> THEN TrailOf(decl) ELSE Front(TrailOf(decl))
    BY <2>4, <2>5, <2>6 DEF CursorUp
  <2>8. PICK s : s = [above EXCEPT !.stage = "own"]
    OBVIOUS
  <2>9. s.stage = "own" /\ s.at = above.at /\ s.outcome = "ok" /\ s.again = FALSE
    BY <2>6, <2>7, <2>8
  <2>10. PICK trail : trail = TrailOf(decl)
    OBVIOUS
  <2>11. trail \in Seq(Nat) /\ Len(trail) \in Nat /\ p \in 1 .. Len(trail)
    BY <1>3, <1>4, <2>10, TrailFacts, LenProperties DEF Packaged
  <2>12. PICK n \in Nat \ {0} : n = Len(trail)
    BY <2>11
  <2>13. p # n
    <3>1. NodeOf(decl) = decl[n + 1].node
      <4>1. Len(decl) = n + 1
        <5>1. Len(decl) \in Nat \ {0} /\ Len(trail) = Len(decl) - 1
          BY <1>3, <2>10, EmptySeq, TrailFacts DEF Way
        <5> QED BY <2>12, <5>1
      <4> QED BY <4>1 DEF NodeOf, Last
    <3>2. Kind(NodeOf(decl)) # "Program" /\ Kind(decl[p + 1].node) = "Program"
      BY <1>4 DEF IsType, SearchedTypes, Packaged, FileIn
    <3> QED BY <3>1, <3>2
  <2>14. n - 1 \in p .. n - 1
    BY <2>11, <2>12, <2>13
  <2>15. s.at = Cut(n - 1)
    <3>1. Cut(n) = trail
      BY <2>10, <2>11, <2>12, SubSeqFull DEF Cut
    <3>2. Cut(n) # << >> /\ Front(Cut(n)) = Cut(n - 1)
      <4>1. n \in Nat /\ n <= Len(TrailOf(decl)) /\ n # 0
        BY <2>10, <2>12
      <4> QED BY <1>3, <4>1, CutFacts
    <3> QED BY <2>7, <2>9, <2>10, <3>1, <3>2
  <2>16. "own" \in InFileStages
    BY DEF InFileStages
  <2>17. \E m \in p .. Len(TrailOf(decl)) - 1 : s.at = Cut(m)
    BY <2>10, <2>12, <2>14, <2>15
  <2>18. Walks(s, f, p)
    BY <2>9, <2>16, <2>17, StagesDiffer DEF Walks
  <2> QED BY <2>2, <2>5, <2>8, <2>18
<1> QED BY <1>1, <1>2, <1>4, BoundedNext

\* What the end of a stage leaves.
LEMMA StagedAs ==
  ASSUME NEW c, DOMAIN c = DOMAIN Idle, NEW stage, NEW s, s = To(stage, c)
  PROVE  s.stage = stage /\ DOMAIN s = DOMAIN Idle
<1>1. DOMAIN c = {"stage", "again", "scout", "at", "prev", "curr", "next",
                  "matches", "outcome", "saved"}
  BY DEF Idle
<1> QED BY <1>1 DEF To

\* The end of a search is over.
LEMMA OverAs ==
  ASSUME DOMAIN search = DOMAIN Idle, NEW o, NEW s, s = Over(o)
  PROVE  s.stage = "over" /\ DOMAIN s = DOMAIN Idle
<1>1. DOMAIN search = {"stage", "again", "scout", "at", "prev", "curr", "next",
                       "matches", "outcome", "saved"}
  BY DEF Idle
<1> QED BY <1>1 DEF Over

\* An up keeps the fields of a cursor.
LEMMA DomainUp ==
  ASSUME NEW st, NEW c
  PROVE  DOMAIN CursorUp(st, c) = DOMAIN c
BY DEF CursorUp

\* The places that find_all is given are in the folders, and the walk ends at
\* its folder.
LEMMA BoundedKept ==
  ASSUME Inv, InFolder, Bounded, [Next]_vars
  PROVE  Bounded'
<1>1. ASSUME UNCHANGED <<tree, folders, decl, search, searched>> PROVE Bounded'
  <2>1. search' = Idle => searched' = {}
    BY <1>1 DEF Bounded
  <2>2. search' # Idle /\ IsType => \A f \in Nat, p \in Nat : Packaged(f, p) =>
          Walks(search', f, p) /\ \A t \in searched' : InFolders(t)
    BY <1>1 DEF Bounded
  <2> QED BY <1>1, <2>1, <2>2, BoundedNext
<1>2. ASSUME search = Idle, search' = Idle, searched' = searched PROVE Bounded'
  BY <1>2 DEF Bounded
<1>3. CASE Iterate
  <2>1. UNCHANGED finder
    BY <1>3 DEF Iterate, ClimbModules, LookForModule, NextFolder, ClimbDeclarations,
                LookForDeclaration, Unsearched
  <2>2. search = Idle
    <3>1. CASE ClimbModules \/ LookForModule
      <4>1. folders = << >>
        BY <3>1 DEF ClimbModules, LookForModule, ModulesMove
      <4> QED BY <4>1 DEF Inv, IteratorsRight, FinderRight
    <3>2. CASE NextFolder \/ ClimbDeclarations \/ LookForDeclaration
      <4>1. decl = << >>
        BY <3>2 DEF NextFolder, ClimbDeclarations, LookForDeclaration, DeclarationsMove
      <4> QED BY <4>1 DEF Inv, FinderRight
    <3>3. CASE Unsearched
      BY <3>3 DEF Unsearched
    <3> QED BY <1>3, <3>1, <3>2, <3>3 DEF Iterate
  <2> QED BY <1>2, <2>1, <2>2 DEF finder
<1>4. ASSUME search.stage # "idle"
      PROVE  /\ search # Idle /\ Searches /\ DOMAIN search = DOMAIN Idle
             /\ tree \in DOMAIN Trees
  <2>1. search # Idle /\ Searches
    BY <1>4, SearchesWhen
  <2> QED BY <2>1 DEF Searches, WalkRight, WalkFrom, CursorRight
<1>5. ASSUME DOMAIN search = DOMAIN Idle
      PROVE  /\ DOMAIN [search EXCEPT !.next = @ + 1] = DOMAIN Idle
             /\ [search EXCEPT !.next = @ + 1].stage = search.stage
  <2>1. DOMAIN search = {"stage", "again", "scout", "at", "prev", "curr", "next",
                         "matches", "outcome", "saved"}
    BY <1>5 DEF Idle
  <2> QED BY <1>5, <2>1
<1>6. CASE BeginSearch
  BY <1>6, BeginBounded
<1>7. CASE SearchChild \/ SkipChild
  <2>1. Scanning
    BY <1>7 DEF SearchChild, SkipChild
  <2>2. search.stage # "idle"
    BY <2>1, StagesSearch
  <2>3. PICK s : s = [search EXCEPT !.next = @ + 1]
    OBVIOUS
  <2>4. DOMAIN s = DOMAIN Idle /\ s.stage # "idle" /\ search # Idle
    BY <1>4, <1>5, <2>2, <2>3
  <2>5. \A f, p : Walking(f, p) => Walks(s, f, p) /\ InFolders(Append(ScannedAt, search.next))
    BY <2>1, <2>3, ScanWalks
  <2>6. CASE SearchChild
    <3>1. Searching(s, GotoChild(store, ScannedFrom, search.next), Append(ScannedAt, search.next))
      BY <2>3, <2>6 DEF SearchChild
    <3> QED BY <2>4, <2>5, <3>1, SearchingBounded
  <2>7. CASE SkipChild
    <3>1. GoingOn(s)
      BY <2>3, <2>7 DEF SkipChild
    <3> QED BY <2>4, <2>5, <3>1, GoingOnBounded
  <2> QED BY <1>7, <2>6, <2>7
<1>8. CASE LeaveOwn \/ EnterBody \/ (EnterProgram /\ ~search.again)
  <2>1. search.stage \in {"own", "types"}
    BY <1>8 DEF LeaveOwn, EnterBody, EnterProgram, After, AmongTypes
  <2>2. PICK stage \in {"types", "body", "program"} : GoingOn(To(stage, search))
    BY <1>8 DEF LeaveOwn, EnterBody, EnterProgram
  <2>3. PICK s : s = To(stage, search)
    OBVIOUS
  <2>4. search.stage \in InFileStages /\ stage \in InFileStages /\ search.stage # "idle"
        /\ stage # "idle"
    BY <2>1 DEF InFileStages
  <2>5. s.stage # "idle" /\ search # Idle
    BY <1>4, <2>3, <2>4, FieldsOf
  <2>6. \A f, p : Walking(f, p) => Walks(s, f, p)
    BY <2>3, <2>4, TypesWalk
  <2> QED BY <2>2, <2>3, <2>5, <2>6, GoingOnBounded
<1>9. CASE \/ LeaveCreation \/ LeaveFolders \/ LeavePackageNameless
           \/ LeaveBlockOfType /\ GoingOn(Over("blocked"))
  <2>1. search.stage # "idle"
    BY <1>9, StagesSearch
       DEF LeaveCreation, LeaveFolders, LeavePackageNameless, LeaveBlockOfType, After
  <2>2. PICK o \in {"blocked", "ok"} : GoingOn(Over(o))
    BY <1>9 DEF LeaveCreation, LeaveFolders, LeavePackageNameless
  <2>3. PICK s : s = Over(o)
    OBVIOUS
  <2>4. \A f, p : Walking(f, p) => Walks(s, f, p)
    BY <2>3, TypesWalk
  <2>5. s.stage # "idle" /\ search # Idle
    <3>1. DOMAIN search = {"stage", "again", "scout", "at", "prev", "curr", "next",
                           "matches", "outcome", "saved"}
      BY <1>4, <2>1 DEF Idle
    <3> QED BY <1>4, <2>1, <2>3, <3>1 DEF Over
  <2> QED BY <2>2, <2>3, <2>4, <2>5, GoingOnBounded
<1>10. CASE EnterEnum
  <2>1. search.stage # "idle" /\ After("body") /\ Kind(Outward.curr) = "EnumBody"
        /\ GoingOn(To("enum", Outward))
    BY <1>10 DEF EnterEnum, After
  <2>2. PICK s : s = To("enum", Outward)
    OBVIOUS
  <2>3. \A f, p : Walking(f, p) => Walks(s, f, p)
    BY <2>1, <2>2, TypesWalk
  <2>4. search # Idle /\ DOMAIN Outward = DOMAIN Idle
    BY <1>4, <2>1, DomainUp DEF Outward
  <2>5. s.stage = "enum"
    BY <2>2, <2>4, StagedAs
  <2> QED BY <2>1, <2>2, <2>3, <2>4, <2>5, GoingOnBounded
<1>11. CASE LeaveType
  <2>1. /\ search.stage \in {"body", "enum"} /\ (After("body") \/ After("enum"))
        /\ Kind(Outward.curr) \in TypeDeclarations
        /\ Searching(To("types", CursorUp(store, Outward)), Outward.scout, Outward.at)
    BY <1>11 DEF LeaveType, After
  <2>2. PICK s : s = To("types", CursorUp(store, Outward))
    OBVIOUS
  <2>3. \A f, p : Walking(f, p) => Walks(s, f, p) /\ InFolders(Outward.at)
    BY <2>1, <2>2, TypesWalk
  <2>4. search # Idle /\ DOMAIN CursorUp(store, Outward) = DOMAIN Idle
    <3>1. search # Idle /\ DOMAIN search = DOMAIN Idle
      BY <1>4, <2>1 DEF After
    <3>2. DOMAIN Outward = DOMAIN Idle
      BY <3>1, DomainUp DEF Outward
    <3> QED BY <3>1, <3>2, DomainUp
  <2>5. DOMAIN s = DOMAIN Idle /\ s.stage = "types"
    BY <2>2, <2>4, StagedAs
  <2> QED BY <2>1, <2>2, <2>3, <2>4, <2>5, SearchingBounded
<1>12. CASE LeaveBlockOfType /\ ~GoingOn(Over("blocked"))
  <2>1. search.stage = "types" /\ Searching(Over("blocked"), search.scout, search.at)
    BY <1>12 DEF LeaveBlockOfType, AmongTypes
  <2>2. PICK s : s = Over("blocked")
    OBVIOUS
  <2>3. search.stage \in InFileStages /\ search.stage # "idle"
    BY <2>1 DEF InFileStages
  <2>4. \A f, p : Walking(f, p) => Walks(s, f, p) /\ InFolders(search.at)
    BY <2>2, <2>3, TypesWalk
  <2>5. DOMAIN s = DOMAIN Idle /\ s.stage # "idle" /\ search # Idle
    <3>1. DOMAIN search = {"stage", "again", "scout", "at", "prev", "curr", "next",
                           "matches", "outcome", "saved"}
      BY <1>4, <2>3 DEF Idle
    <3> QED BY <1>4, <2>2, <2>3, <3>1 DEF Over
  <2> QED BY <2>1, <2>2, <2>4, <2>5, SearchingBounded
<1>13. CASE StopAtNameless \/ StopAtBody \/ StopAtOther
  BY <1>1, <1>13 DEF StopAtNameless, StopAtBody, StopAtOther, iterators, finder
<1>14. CASE EnterProgram /\ search.again
  <2>1. /\ search.stage = "types"
        /\ GoingOn(To("package", [search.saved[1] EXCEPT !.matches = search.matches]))
    BY <1>14 DEF EnterProgram, AmongTypes
  <2>2. PICK s : s = To("package", [search.saved[1] EXCEPT !.matches = search.matches])
    OBVIOUS
  <2>3. \A f, p : Walking(f, p) => Walks(s, f, p)
    BY <1>14, <2>1, <2>2, FileWalks
  <2>4. search # Idle /\ s.stage # "idle"
    <3>1. PICK saved : saved = search.saved[1]
      OBVIOUS
    <3>2. DOMAIN saved = DOMAIN Idle
      BY <1>4, <1>14, <2>1, <3>1 DEF Searches, WalkRight, WalkFrom, CursorAround, CursorRight
    <3>3. PICK back : back = [saved EXCEPT !.matches = search.matches]
      OBVIOUS
    <3>4. DOMAIN back = DOMAIN Idle
      BY <3>2, <3>3
    <3>5. s = To("package", back)
      BY <2>2, <3>1, <3>3
    <3>6. s.stage = "package"
      BY <3>4, <3>5, StagedAs
    <3> QED BY <1>4, <2>1, <3>6
  <2> QED BY <2>1, <2>2, <2>3, <2>4, GoingOnBounded
<1>15. CASE LeaveProgram
  <2>1. PICK above, out : above = CursorAbove(store, search, ScoutOf(decl)) /\ out = Outward
    OBVIOUS
  <2>2. PICK s : s = [above EXCEPT !.stage = "types", !.again = TRUE, !.saved = <<out>>]
    OBVIOUS
  <2>3. search.stage = "program" /\ GoingOn(s)
    BY <1>15, <2>1, <2>2 DEF LeaveProgram, After
  <2>4. \A f, p : Walking(f, p) => Walks(s, f, p)
    BY <2>1, <2>2, <2>3, FileWalks
  <2>5. search # Idle /\ s.stage # "idle"
    <3>1. Way(decl) /\ NodeOf(decl) # Root /\ WalkRight(store, search)
      BY <1>4, <2>3 DEF Searches
    <3>2. /\ StandsAt(store, ScoutOf(decl), TrailOf(decl))
          /\ NodeAlways(store, ScoutOf(decl)) = NodeOf(decl)
      BY <1>4, <2>3, ScoutOfStands DEF Searches
    <3>3. WalkRight(store, above)
      BY <1>4, <2>1, <2>3, <3>1, <3>2, CursorAboveRight
    <3>4. DOMAIN above = {"stage", "again", "scout", "at", "prev", "curr", "next",
                          "matches", "outcome", "saved"}
      BY <3>3 DEF WalkRight, WalkFrom, CursorRight, Idle
    <3> QED BY <1>4, <2>2, <2>3, <3>4
  <2> QED BY <2>3, <2>4, <2>5, GoingOnBounded
<1>16. CASE LeavePackage \/ LeaveDirectories
  <2> DEFINE next == IF search.curr = Limit THEN To("folders", search) ELSE NextDirectory
  <2>1. /\ search.stage \in {"package", "directories"}
        /\ search.stage = "package" => GoingOn(NextDirectory)
        /\ search.stage = "directories" => GoingOn(next)
    BY <1>16 DEF LeavePackage, LeaveDirectories, After
  <2>2. search # Idle /\ Searches /\ DOMAIN search = DOMAIN Idle
    BY <1>4, <2>1
  <2>3. NextDirectory.stage # "idle"
    BY <2>2, NextDirectoryRight DEF SearchRight
  <2>4. To("folders", search).stage # "idle"
    <3>1. To("folders", search).stage = "folders"
      BY <2>2, StagedAs
    <3> QED BY <3>1
  <2>5. CASE search.stage = "package"
    BY <2>1, <2>2, <2>3, <2>5, DirectoriesWalk, GoingOnBounded
  <2>6. CASE search.stage = "directories"
    <3>1. next.stage # "idle"
      BY <2>3, <2>4
    <3>2. GoingOn(next) /\ \A f, p : Walking(f, p) => Walks(next, f, p)
      BY <2>1, <2>6, DirectoriesWalk
    <3> HIDE DEF next
    <3> QED BY <2>2, <3>1, <3>2, GoingOnBounded
  <2> QED BY <2>1, <2>5, <2>6
<1>17. CASE SearchFolder
  <2>1. /\ search.stage = "folders" /\ folders[1].others # << >>
        /\ Searching([search EXCEPT !.next = @ + 1], ScoutOf(folders[1].others[1]),
                     TrailOf(folders[1].others[1]))
    BY <1>17 DEF SearchFolder, AmongOthers
  <2>2. PICK s : s = [search EXCEPT !.next = @ + 1]
    OBVIOUS
  <2>3. DOMAIN s = DOMAIN Idle /\ s.stage # "idle" /\ search # Idle
    BY <1>4, <1>5, <2>1, <2>2
  <2>4. \A f, p : Walking(f, p) => Walks(s, f, p) /\ InFolders(TrailOf(folders[1].others[1]))
    BY <2>1, <2>2, ScanWalks, FoldersWalk
  <2> QED BY <2>1, <2>2, <2>3, <2>4, SearchingBounded
<1>21. CASE SkipFolder
  <2>1. search.stage = "folders" /\ GoingOn([search EXCEPT !.next = @ + 1])
    BY <1>21 DEF SkipFolder, AmongOthers
  <2>2. PICK s : s = [search EXCEPT !.next = @ + 1]
    OBVIOUS
  <2>3. s.stage # "idle" /\ search # Idle
    BY <1>4, <1>5, <2>1, <2>2
  <2>4. \A f, p : Walking(f, p) => Walks(s, f, p)
    BY <2>2, ScanWalks
  <2> QED BY <2>1, <2>2, <2>3, <2>4, GoingOnBounded
<1>18. CASE LeaveBlock \/ LeaveThis
  <2>1. search.stage \in {"block", "this"} /\ search # Idle /\ DOMAIN search = DOMAIN Idle
    <3>1. search.stage \in {"block", "this"}
      BY <1>18 DEF LeaveBlock, LeaveThis, After
    <3> QED BY <1>4, <3>1
  <2>2. PICK on : on = PassLists(store, Outward)
    OBVIOUS
  <2>3. DOMAIN on = DOMAIN Idle
    BY <2>1, <2>2 DEF PassLists, Outward, CursorUp
  <2>4. PICK over, block : over = Over("ok") /\ block = To("block", on)
    OBVIOUS
  <2>5. over.stage = "over" /\ block.stage = "block"
    BY <2>1, <2>3, <2>4, StagedAs, OverAs
  <2>6. GoingOn(over) \/ GoingOn(block)
    BY <1>18, <2>2, <2>4 DEF LeaveBlock, LeaveThis
  <2>7. ASSUME NEW f, NEW p PROVE ~Walking(f, p)
    BY <2>1 DEF Walking, Walks, InFileStages
  <2> QED BY <2>1, <2>5, <2>6, <2>7, GoingOnBounded
<1>19. CASE EndSearch
  BY <1>19 DEF EndSearch, Bounded
<1>20. CASE UNCHANGED vars
  BY <1>1, <1>20 DEF vars, iterators, finder
<1>22. LeaveBlockOfType => Bounded'
  BY <1>9, <1>12
<1>23. LeaveCreation \/ LeaveFolders \/ LeavePackageNameless => Bounded'
  BY <1>9
<1>24. LeaveOwn \/ EnterBody \/ EnterProgram => Bounded'
  BY <1>8, <1>14
<1> QED BY <1>3, <1>6, <1>7, <1>10, <1>11, <1>13, <1>15, <1>16, <1>17, <1>18, <1>19, <1>20,
           <1>21, <1>22, <1>23, <1>24 DEF Next, GoThrough

\* The iterators have not started, and no search has begun.
LEMMA BoundedAtFirst ==
  ASSUME Init
  PROVE  InFolder /\ Bounded
<1>1. folders = << >> /\ search = Idle /\ searched = {}
  BY DEF Init
<1>2. InFolder
  BY <1>1 DEF InFolder, AreSourceFolders
<1> QED BY <1>1, <1>2 DEF Bounded

\* The file of a declaration in a package, and its folder around it.
LEMMA FileOfDeclaration ==
  ASSUME tree \in DOMAIN Trees, Way(decl), NEW p \in Nat \ {0},
         p <= Len(TrailOf(decl)), FileIn(decl, p + 1)
  PROVE  FileAt(TrailOf(decl)) = {Cut(p)} /\ Front(Cut(p)) = Cut(p - 1)
<1> DEFINE n == Len(TrailOf(decl))
<1>1. n \in Nat /\ Len(decl) = n + 1
  <2>1. Len(decl) \in Nat \ {0} /\ Len(TrailOf(decl)) = Len(decl) - 1
    BY EmptySeq, TrailFacts DEF Way
  <2> QED BY <2>1
<1>2. ASSUME NEW m \in 0 .. n PROVE m \in Nat /\ m <= n /\ At(Cut(m)) = decl[m + 1].node
  <2>1. m \in Nat /\ m <= n
    BY <1>1
  <2> QED BY <2>1, CutFacts
<1>3. "Program" \notin DirKinds /\ "Program" \in Outer
  BY DEF DirKinds, Outer, FileKinds
<1>4. ASSUME NEW m \in 0 .. n, Kind(At(Cut(m))) = "Program" PROVE m = p
  <2>1. Kind(decl[m + 1].node) = "Program"
    BY <1>2, <1>4
  <2>2. m \in Nat
    BY <1>1
  <2>3. CASE m < p
    <3>1. m + 1 \in 1 .. (p + 1) - 1
      BY <2>2, <2>3
    <3> QED BY <1>3, <2>1, <3>1 DEF FileIn
  <2>4. CASE p < m
    <3>1. m + 1 \in (p + 1) + 1 .. Len(decl)
      BY <1>1, <2>2, <2>4
    <3> QED BY <1>3, <2>1, <3>1 DEF FileIn
  <2> QED BY <2>2, <2>3, <2>4
<1>5. p \in 0 .. n
  BY <1>1
<1>6. Kind(At(Cut(p))) = "Program"
  BY <1>2, <1>5 DEF FileIn
<1>7. Above(TrailOf(decl)) = {Cut(m) : m \in 0 .. n}
  BY DEF Above, Cut
<1>8. FileAt(TrailOf(decl)) = {Cut(p)}
  BY <1>4, <1>5, <1>6, <1>7 DEF FileAt
<1>9. Front(Cut(p)) = Cut(p - 1)
  BY CutFacts
<1> QED BY <1>8, <1>9

\* A type is below a file, and its folder is outside of it.
LEMMA FolderOfDeclaration ==
  ASSUME Inv, InFolder, search # Idle, IsType
  PROVE  \E f \in Nat, p \in Nat \ {0} :
           /\ f = Len(folders[1].path) - 1 /\ f < p
           /\ p <= Len(TrailOf(decl)) /\ FileIn(decl, p + 1)
<1>1. /\ tree \in DOMAIN Trees /\ Way(decl) /\ decl # << >>
      /\ folders \in Seq(Folders) /\ folders # << >>
  <2>1. search.stage # "idle"
    BY DEF Inv, FinderRight, SearchRight
  <2> QED BY <2>1, SearchesWhen DEF Searches
<1>2. PICK n \in Nat : n = Len(TrailOf(decl)) /\ Len(decl) = n + 1
  <2>1. Len(decl) \in Nat \ {0} /\ Len(TrailOf(decl)) = Len(decl) - 1
    BY <1>1, EmptySeq, TrailFacts DEF Way
  <2> QED BY <2>1
<1>3. 1 \in 1 .. Len(folders) /\ Way(folders[1].path)
  <2>1. 1 \in 1 .. Len(folders)
    BY <1>1, EmptySeq, LenProperties
  <2>2. folders[1] \in Folders
    BY <1>1, <2>1, ElementOfSeq
  <2> QED BY <2>1, <2>2 DEF Folders, Ways
<1>4. PICK f \in Nat : f = Len(folders[1].path) - 1 /\ Len(folders[1].path) = f + 1
  <2>1. Len(folders[1].path) \in Nat \ {0}
    BY <1>3, EmptySeq DEF Way
  <2>2. PICK k \in Nat \ {0} : k = Len(folders[1].path)
    BY <2>1
  <2>3. k - 1 \in Nat /\ k = (k - 1) + 1
    OBVIOUS
  <2> QED BY <2>2, <2>3
<1>5. f + 1 <= n + 1 /\ decl[f + 1] = folders[1].path[f + 1]
  <2>1. Under(folders[1].path, decl)
    BY <1>1 DEF InFolder
  <2>2. f + 1 \in 1 .. Len(folders[1].path)
    BY <1>4
  <2> QED BY <1>2, <1>4, <2>1, <2>2 DEF Under
<1>6. Kind(decl[f + 1].node) \in DirKinds
  <2>1. Kind(NodeOf(folders[1].path)) \in DirKinds
    BY <1>3 DEF InFolder, AreSourceFolders
  <2>2. NodeOf(folders[1].path) = folders[1].path[f + 1].node
    BY <1>4 DEF NodeOf, Last
  <2> QED BY <1>5, <2>1, <2>2
<1>7. Kind(decl[n + 1].node) \notin Outer
  <2>1. NodeOf(decl) = decl[n + 1].node
    BY <1>2 DEF NodeOf, Last
  <2> QED BY <2>1 DEF IsType, SearchedTypes, Outer, DirKinds, FileKinds
<1>8. PICK q \in 1 .. Len(decl) : FileIn(decl, q)
  <2>1. ~InDirectories(decl)
    <3>1. n + 1 \in 1 .. Len(decl)
      BY <1>2
    <3> QED BY <1>7, <3>1 DEF InDirectories, Outer
  <2>2. Kind(NodeOf(decl)) # "xml_SourceFile"
    BY DEF IsType, SearchedTypes
  <2> QED BY <1>1, <2>1, <2>2, LayersOfWay
<1>9. f + 1 < q
  <2>1. f + 1 \in 1 .. Len(decl) /\ q \in Nat
    BY <1>2, <1>5
  <2>2. "Program" \notin DirKinds /\ DirKinds \subseteq Outer
    BY DEF DirKinds, Outer
  <2>3. f + 1 # q
    BY <1>6, <1>8, <2>2 DEF FileIn
  <2>4. ~ q < f + 1
    <3>1. SUFFICES ASSUME q < f + 1 PROVE FALSE
      OBVIOUS
    <3>2. f + 1 \in q + 1 .. Len(decl)
      BY <2>1, <3>1
    <3> QED BY <1>6, <1>8, <2>2, <3>2 DEF FileIn
  <2> QED BY <2>1, <2>3, <2>4
<1>10. PICK p \in Nat \ {0} : p + 1 = q /\ f < p /\ p <= n
  <2>1. q \in Nat /\ q <= n + 1
    BY <1>2
  <2>2. q - 1 \in Nat \ {0} /\ (q - 1) + 1 = q /\ f < q - 1 /\ q - 1 <= n
    BY <1>9, <2>1
  <2> QED BY <2>2
<1> QED BY <1>2, <1>4, <1>8, <1>10

\* The folder of the declaration is one of the places around it.
LEMMA FolderIsCut ==
  ASSUME tree \in DOMAIN Trees, Way(decl), Way(folders[1].path),
         Under(folders[1].path, decl), NEW f, f = Len(folders[1].path) - 1
  PROVE  f \in Nat /\ f <= Len(TrailOf(decl)) /\ Cut(f) = TrailOf(folders[1].path)
<1>1. /\ Len(folders[1].path) \in Nat \ {0}
      /\ Len(decl) \in Nat \ {0}
  BY EmptySeq DEF Way
<1>2. PICK c, d : c = Len(folders[1].path) /\ d = Len(decl)
  OBVIOUS
<1>3. c \in Nat \ {0} /\ d \in Nat \ {0} /\ c <= d /\ f = c - 1
  BY <1>1, <1>2 DEF Under
<1>4. f \in Nat /\ f <= d - 1 /\ d - 1 \in Nat
  BY <1>3
<1>5. /\ TrailOf(folders[1].path) \in Seq(Nat)
      /\ Len(TrailOf(folders[1].path)) = f
      /\ \A i \in 1 .. f : TrailOf(folders[1].path)[i] = folders[1].path[i + 1].offset
  BY TrailFacts
<1>6. /\ Len(TrailOf(decl)) = d - 1
      /\ \A i \in 1 .. d - 1 : TrailOf(decl)[i] = decl[i + 1].offset
  BY <1>2, TrailFacts
<1>7. Cut(f) \in Seq(Nat) /\ Len(Cut(f)) = f /\ \A i \in 1 .. f : Cut(f)[i] = TrailOf(decl)[i]
  <2>1. f <= Len(TrailOf(decl))
    BY <1>4, <1>6
  <2> QED BY <1>4, <2>1, CutFacts
<1>8. ASSUME NEW i \in 1 .. f PROVE Cut(f)[i] = TrailOf(folders[1].path)[i]
  <2>1. i + 1 \in 1 .. c /\ i \in 1 .. d - 1
    BY <1>3, <1>4
  <2>2. decl[i + 1] = folders[1].path[i + 1]
    BY <1>2, <2>1 DEF Under
  <2> QED BY <1>5, <1>6, <1>7, <2>1, <2>2
<1>9. Cut(f) = TrailOf(folders[1].path)
  BY <1>5, <1>7, <1>8, SeqEqual
<1> QED BY <1>4, <1>6, <1>9

\* What is kept is what is promised.
LEMMA HonouredThen ==
  ASSUME Inv, InFolder, Bounded
  PROVE  LimitHonoured
<1>1. SUFFICES ASSUME search # Idle, IsType,
                      Front(CHOOSE t \in FileAt(TrailOf(decl)) : TRUE)
                        # TrailOf(folders[1].path)
               PROVE  /\ \A t \in searched : InFolders(t)
                      /\ search.outcome # "nomore"
  BY DEF LimitHonoured, InFolders
<1>2. /\ tree \in DOMAIN Trees /\ Way(decl) /\ decl # << >>
      /\ folders \in Seq(Folders) /\ folders # << >>
  <2>1. search.stage # "idle"
    BY <1>1 DEF Inv, FinderRight, SearchRight
  <2> QED BY <2>1, SearchesWhen DEF Searches
<1>3. PICK f \in Nat, p \in Nat \ {0} :
        /\ f = Len(folders[1].path) - 1 /\ f < p
        /\ p <= Len(TrailOf(decl)) /\ FileIn(decl, p + 1)
  BY <1>1, FolderOfDeclaration
<1>4. FileAt(TrailOf(decl)) = {Cut(p)} /\ Front(Cut(p)) = Cut(p - 1)
  BY <1>2, <1>3, FileOfDeclaration
<1>5. Cut(p - 1) # TrailOf(folders[1].path)
  <2>1. (CHOOSE t \in FileAt(TrailOf(decl)) : TRUE) = Cut(p)
    BY <1>4
  <2> QED BY <1>1, <1>4, <2>1
<1>6. f < p - 1
  <2>1. SUFFICES ASSUME f = p - 1 PROVE FALSE
    BY <1>3
  <2>2. Cut(f) = TrailOf(folders[1].path)
    <3>1. Way(folders[1].path)
      <4>1. 1 \in 1 .. Len(folders)
        BY <1>2, EmptySeq, LenProperties
      <4>2. folders[1] \in Folders
        BY <1>2, <4>1, ElementOfSeq
      <4> QED BY <4>2 DEF Folders, Ways
    <3>2. Under(folders[1].path, decl)
      BY <1>2 DEF InFolder
    <3> QED BY <1>2, <1>3, <3>1, <3>2, FolderIsCut
  <2> QED BY <1>5, <2>1, <2>2
<1>7. Packaged(f, p)
  <2>1. Len(TrailOf(decl)) \in Nat
    BY <1>2, TrailFacts, LenProperties
  <2>2. p \in 1 .. Len(TrailOf(decl))
    BY <1>3, <2>1
  <2> QED BY <1>3, <1>6, <2>2 DEF Packaged
<1>8. /\ Walks(search, f, p) /\ \A t \in searched : InFolders(t)
  BY <1>1, <1>3, <1>7 DEF Bounded
<1> QED BY <1>8 DEF Walks

\* The search for a type of a package below its source folder gives find_all no
\* place out of that folder and the folder of the tests, and never runs out of
\* parents: go_through_directories stops at its limit.
THEOREM LimitAlwaysHonoured == Spec => []LimitHonoured
<1> DEFINE Kept == Inv /\ InFolder /\ Bounded
<1>1. Init => Kept
  BY InvInit, BoundedAtFirst
<1>2. Kept /\ [Next]_vars => Kept'
  BY InvNext, InFolderKept, BoundedKept
<1>3. Kept => LimitHonoured
  BY HonouredThen
<1> QED BY <1>1, <1>2, <1>3, PTL DEF Spec
-----------------------------------------------------------------------------
(* What a search has covered.                                              *)

\* a leaf below a place that find_all was given, or a twin
GivenIn(S, leaf) == (\E t \in S : IsPrefix(t, leaf)) \/ Twin(leaf, TrailOf(decl))

\* all leaves below a place are, those of X excepted, and all below its first
\* children
Passed(S, t, X) == \A leaf \in Covered(t) : leaf \in X \/ GivenIn(S, leaf)
Begun(S, t, k, X) == \A leaf \in Parts(t, k) : leaf \in X \/ GivenIn(S, leaf)

\* What was given stays given.
LEMMA GivenStays ==
  ASSUME NEW S, NEW R, S \subseteq R
  PROVE  /\ \A t, X : Passed(S, t, X) => Passed(R, t, X)
         /\ \A t, k, X : Begun(S, t, k, X) => Begun(R, t, k, X)
BY DEF Passed, Begun, GivenIn

\* A place that was given is passed.
LEMMA GivenIsPassed ==
  ASSUME NEW S, NEW t \in S, NEW X
  PROVE  Passed(S, t, X)
BY DEF Passed, GivenIn, Covered

\* The children of a place, one after the other, are all of it.
LEMMA BegunGoesOn ==
  ASSUME tree \in DOMAIN Trees, NEW t \in Trails, NEW S, NEW X
  PROVE  /\ Begun(S, t, 1, X)
         /\ \A k \in DOMAIN Children(At(t)) :
              Begun(S, t, k, X) /\ Passed(S, Append(t, k), X) => Begun(S, t, k + 1, X)
<1>1. Begun(S, t, 1, X)
  BY PartsGrow DEF Begun
<1>2. ASSUME NEW k \in DOMAIN Children(At(t)), Begun(S, t, k, X), Passed(S, Append(t, k), X)
      PROVE  Begun(S, t, k + 1, X)
  <2>1. Parts(t, k + 1) = Parts(t, k) \cup Covered(Append(t, k))
    BY PartsGrow
  <2> QED BY <1>2, <2>1 DEF Begun, Passed
<1> QED BY <1>1, <1>2

\* Past the last of them, it is passed.
LEMMA BegunEnds ==
  ASSUME tree \in DOMAIN Trees, NEW t \in Trails, Children(At(t)) # << >>, NEW S, NEW X,
         NEW k \in Nat, ~(k <= Len(Children(At(t)))), Begun(S, t, k, X)
  PROVE  Passed(S, t, X)
<1>1. At(t) \in Nodes /\ t \in Seq(Nat) /\ Len(t) \in Nat
  BY TrailsAreCut
<1>2. PICK n \in Nat : n = Len(Children(At(t)))
  <2>1. Children(At(t)) \in Seq(Nodes)
    BY <1>1, ChildrenAreNodes
  <2> QED BY <2>1, LenProperties
<1>3. Covered(t) = Parts(t, n + 1)
  BY <1>2, PartsGrow
<1>4. n + 1 <= k
  BY <1>2
<1>5. ASSUME NEW leaf \in Parts(t, n + 1) PROVE leaf \in Parts(t, k)
  <2>1. leaf \in Leaves /\ IsPrefix(t, leaf) /\ Len(t) < Len(leaf) /\ leaf[Len(t) + 1] < n + 1
    BY DEF Parts
  <2>2. leaf \in Seq(Nat)
    BY <2>1, LeavesAre, TrailsAreCut
  <2>3. PICK i : i = Len(t) + 1
    OBVIOUS
  <2>4. i \in 1 .. Len(leaf)
    <3>1. Len(leaf) \in Nat
      BY <2>2, LenProperties
    <3> QED BY <1>1, <2>1, <2>3, <3>1
  <2>5. PICK e \in Nat : e = leaf[i]
    BY <2>2, <2>4, ElementOfSeq
  <2>6. e < n + 1
    BY <2>1, <2>3, <2>5
  <2>7. e < k
    BY <1>2, <1>4, <2>5, <2>6
  <2> QED BY <2>1, <2>3, <2>5, <2>7 DEF Parts
<1> QED BY <1>3, <1>5 DEF Passed, Begun

\* The trail of the declaration is the last of its cuts.
LEMMA LastCut ==
  ASSUME tree \in DOMAIN Trees, Way(decl)
  PROVE  /\ Len(TrailOf(decl)) \in Nat /\ Len(decl) = Len(TrailOf(decl)) + 1
         /\ Cut(Len(TrailOf(decl))) = TrailOf(decl)
         /\ At(TrailOf(decl)) = NodeOf(decl) /\ TrailOf(decl) \in Trails
         /\ \A m \in 0 .. Len(TrailOf(decl)) : Cut(m) \in Trails
<1>1. TrailOf(decl) \in Seq(Nat) /\ Len(TrailOf(decl)) = Len(decl) - 1
  BY TrailFacts
<1>2. Len(decl) \in Nat \ {0}
  BY EmptySeq DEF Way
<1>3. Cut(Len(TrailOf(decl))) = TrailOf(decl)
  BY <1>1, SubSeqFull DEF Cut
<1>4. At(TrailOf(decl)) = NodeOf(decl) /\ TrailOf(decl) \in Trails
  BY WayEndsAt, WayIsTrail
<1>5. \A m \in 0 .. Len(TrailOf(decl)) : Cut(m) \in Trails
  BY <1>4, TrailsAreCut DEF Cut
<1> QED BY <1>1, <1>2, <1>3, <1>4, <1>5

\* Below a sibling of a place around the declaration that is the same node,
\* there are twins.
LEMMA TwinsBelow ==
  ASSUME tree \in DOMAIN Trees, Way(decl), NEW m \in Nat, m < Len(TrailOf(decl)),
         NEW k \in DOMAIN Children(At(Cut(m))), Children(At(Cut(m)))[k] = At(Cut(m + 1)),
         k # TrailOf(decl)[m + 1], NEW leaf \in Covered(Append(Cut(m), k))
  PROVE  Twin(leaf, TrailOf(decl))
<1>1. PICK trail : trail = TrailOf(decl)
  OBVIOUS
<1>2. PICK n \in Nat : n = Len(trail) /\ m < n
  BY <1>1, LastCut
<1>3. PICK cut : cut = Cut(m)
  OBVIOUS
<1>4. cut \in Seq(Nat) /\ Len(cut) = m /\ cut \in Trails /\ cut = SubSeq(trail, 1, m)
  <2>1. m <= Len(TrailOf(decl)) /\ m \in 0 .. Len(TrailOf(decl))
    BY <1>1, <1>2
  <2> QED BY <1>1, <1>3, <2>1, CutFacts, LastCut DEF Cut
<1>5. k \in Nat /\ At(Append(cut, k)) = At(Cut(m + 1))
  BY <1>3, <1>4, TrailsGoOn
<1>6. leaf \in Leaves /\ leaf \in Seq(Nat) /\ IsPrefix(Append(cut, k), leaf)
  BY <1>3, LeavesAre, TrailsAreCut DEF Covered
<1>7. PICK on : on = Append(cut, k)
  OBVIOUS
<1>8. /\ on \in Seq(Nat) /\ Len(on) = m + 1 /\ on[m + 1] = k
      /\ \A i \in 1 .. m : on[i] = cut[i]
  BY <1>4, <1>5, <1>7, OneMore
<1>9. Len(on) <= Len(leaf) /\ \A i \in 1 .. Len(on) : on[i] = leaf[i]
  BY <1>6, <1>7, <1>8, PrefixElements
<1>10. m + 1 \in 1 .. n /\ m + 1 <= Len(leaf) /\ (m + 1) - 1 = m
  BY <1>2, <1>8, <1>9
<1>11. SubSeq(leaf, 1, m + 1) = on /\ SubSeq(leaf, 1, m) = cut
  <2>1. Len(leaf) \in Nat
    BY <1>6, LenProperties
  <2>2. m + 1 \in 0 .. Len(leaf) /\ m \in 0 .. Len(leaf)
    BY <1>10, <2>1
  <2>3. PICK a, b : a = SubSeq(leaf, 1, m + 1) /\ b = SubSeq(leaf, 1, m)
    OBVIOUS
  <2>4. a \in Seq(Nat) /\ Len(a) = m + 1 /\ \A i \in 1 .. m + 1 : a[i] = leaf[i]
    BY <1>6, <2>2, <2>3, Beginning
  <2>5. b \in Seq(Nat) /\ Len(b) = m /\ \A i \in 1 .. m : b[i] = leaf[i]
    BY <1>6, <2>2, <2>3, Beginning
  <2>6. \A i \in 1 .. m + 1 : a[i] = on[i]
    <3>1. Len(on) = m + 1 /\ \A i \in 1 .. Len(on) : on[i] = leaf[i]
      BY <1>8, <1>9
    <3> QED BY <2>4, <3>1
  <2>7. \A i \in 1 .. m : b[i] = cut[i]
    <3>1. \A i \in 1 .. m : i \in 1 .. m + 1
      OBVIOUS
    <3>2. Len(on) = m + 1 /\ \A i \in 1 .. Len(on) : on[i] = leaf[i]
      BY <1>8, <1>9
    <3> QED BY <1>8, <2>5, <3>1, <3>2
  <2>8. a = on
    <3>1. /\ a \in Seq(Nat) /\ on \in Seq(Nat) /\ Len(a) = Len(on)
          /\ \A i \in 1 .. Len(a) : a[i] = on[i]
      BY <1>8, <2>4, <2>6
    <3> QED BY <3>1, SeqEqual
  <2>9. b = cut
    <3>1. /\ b \in Seq(Nat) /\ cut \in Seq(Nat) /\ Len(b) = Len(cut)
          /\ \A i \in 1 .. Len(b) : b[i] = cut[i]
      BY <1>4, <2>5, <2>7
    <3> QED BY <3>1, SeqEqual
  <2> QED BY <2>3, <2>8, <2>9
<1>12. leaf[m + 1] = k
  <2>1. m + 1 \in 1 .. Len(on)
    BY <1>8
  <2> QED BY <1>8, <1>9, <2>1
<1>13. PICK j : j = m + 1 /\ j - 1 = m
  BY <1>10
<1>14. /\ j \in 1 .. Len(trail) /\ j <= Len(leaf)
       /\ SubSeq(leaf, 1, j - 1) = SubSeq(trail, 1, j - 1) /\ leaf[j] # trail[j]
       /\ At(SubSeq(leaf, 1, j)) = At(SubSeq(trail, 1, j))
  BY <1>1, <1>2, <1>4, <1>5, <1>7, <1>10, <1>11, <1>12, <1>13 DEF Cut
<1>15. Twin(leaf, trail)
  BY <1>14 DEF Twin
<1> QED BY <1>1, <1>15

\* So a child that is skipped, since it is the node the cursor came from, is
\* passed as that was.
LEMMA SkippedIsPassed ==
  ASSUME tree \in DOMAIN Trees, Way(decl), NEW m \in Nat, m < Len(TrailOf(decl)),
         NEW k \in DOMAIN Children(At(Cut(m))), Children(At(Cut(m)))[k] = At(Cut(m + 1)),
         NEW S, NEW X, Passed(S, Cut(m + 1), X)
  PROVE  Passed(S, Append(Cut(m), k), X)
<1>1. CASE k # TrailOf(decl)[m + 1]
  <2>1. \A leaf \in Covered(Append(Cut(m), k)) : Twin(leaf, TrailOf(decl))
    BY <1>1, TwinsBelow
  <2> QED BY <2>1 DEF Passed, GivenIn
<1>2. CASE k = TrailOf(decl)[m + 1]
  <2>1. PICK n \in Nat : n = Len(TrailOf(decl)) /\ m < n
    BY LastCut
  <2>2. PICK cut, next, on : cut = Cut(m) /\ next = Cut(m + 1) /\ on = Append(cut, k)
    OBVIOUS
  <2>3. cut \in Seq(Nat) /\ Len(cut) = m /\ \A i \in 1 .. m : cut[i] = TrailOf(decl)[i]
    <3>1. m <= Len(TrailOf(decl))
      BY <2>1
    <3> QED BY <2>2, <3>1, CutFacts
  <2>4. next \in Seq(Nat) /\ Len(next) = m + 1 /\ \A i \in 1 .. m + 1 : next[i] = TrailOf(decl)[i]
    <3>1. m + 1 <= Len(TrailOf(decl)) /\ m + 1 \in Nat
      BY <2>1
    <3> QED BY <2>2, <3>1, CutFacts
  <2>5. k \in Nat
    <3>1. m \in 0 .. Len(TrailOf(decl))
      BY <2>1
    <3>2. Cut(m) \in Trails
      BY <3>1, LastCut
    <3> QED BY <3>2, TrailsGoOn
  <2>6. /\ on \in Seq(Nat) /\ Len(on) = m + 1 /\ on[m + 1] = k
        /\ \A i \in 1 .. m : on[i] = cut[i]
    BY <2>2, <2>3, <2>5, OneMore
  <2>7. ASSUME NEW i \in 1 .. m + 1 PROVE on[i] = next[i]
    <3>1. CASE i = m + 1
      BY <1>2, <2>4, <2>6, <3>1
    <3>2. CASE i # m + 1
      <4>1. i \in 1 .. m
        BY <3>2
      <4> QED BY <2>3, <2>4, <2>6, <4>1
    <3> QED BY <3>1, <3>2
  <2>8. on = next
    BY <2>4, <2>6, <2>7, SeqEqual
  <2> QED BY <2>2, <2>8
<1> QED BY <1>1, <1>2
-----------------------------------------------------------------------------
(* What each stage of a search has covered.                                *)

Steps == Len(TrailOf(decl))

\* a cursor that came from the declaration to the place m steps from the root
Came(c, m) == c.at = Cut(m) /\ c.prev = At(Cut(m + 1))

\* and has passed what is below the place it came from, and some children
Around(S, c, m, X) ==
  /\ m \in 0 .. Steps - 1 /\ Came(c, m)
  /\ Passed(S, Cut(m + 1), X) /\ Begun(S, Cut(m), c.next, X)

\* the fields of a search that this is about
Fields(s) == <<s.stage, s.again, s.at, s.prev, s.curr, s.next, s.outcome, s.saved>>

\* The fields after the operations on a cursor.
LEMMA FieldsAfter ==
  ASSUME NEW c, DOMAIN c = DOMAIN Idle
  PROVE  /\ \A n : Fields([c EXCEPT !.matches = n]) = Fields(c)
         /\ Fields([c EXCEPT !.next = @ + 1])
              = <<c.stage, c.again, c.at, c.prev, c.curr, c.next + 1, c.outcome, c.saved>>
         /\ \A stage : Fields(To(stage, c))
              = <<stage, c.again, c.at, c.prev, c.curr, 1, c.outcome, c.saved>>
         /\ \A stage : Fields([c EXCEPT !.stage = stage])
              = <<stage, c.again, c.at, c.prev, c.curr, c.next, c.outcome, c.saved>>
         /\ \A o : Fields([c EXCEPT !.stage = "over", !.outcome = o])
              = <<"over", c.again, c.at, c.prev, c.curr, c.next, o, c.saved>>
         /\ \A saved : Fields([c EXCEPT !.stage = "types", !.again = TRUE, !.saved = saved])
              = <<"types", TRUE, c.at, c.prev, c.curr, c.next, c.outcome, saved>>
<1>1. DOMAIN c = {"stage", "again", "scout", "at", "prev", "curr", "next",
                  "matches", "outcome", "saved"}
  BY DEF Idle
<1>2. ASSUME NEW n PROVE Fields([c EXCEPT !.matches = n]) = Fields(c)
  BY <1>1 DEF Fields
<1>3. Fields([c EXCEPT !.next = @ + 1])
        = <<c.stage, c.again, c.at, c.prev, c.curr, c.next + 1, c.outcome, c.saved>>
  BY <1>1 DEF Fields
<1>4. ASSUME NEW stage
      PROVE  Fields(To(stage, c))
               = <<stage, c.again, c.at, c.prev, c.curr, 1, c.outcome, c.saved>>
  BY <1>1 DEF Fields, To
<1>5. ASSUME NEW stage
      PROVE  Fields([c EXCEPT !.stage = stage])
               = <<stage, c.again, c.at, c.prev, c.curr, c.next, c.outcome, c.saved>>
  BY <1>1 DEF Fields
<1>6. ASSUME NEW o
      PROVE  Fields([c EXCEPT !.stage = "over", !.outcome = o])
               = <<"over", c.again, c.at, c.prev, c.curr, c.next, o, c.saved>>
  BY <1>1 DEF Fields
<1>7. ASSUME NEW saved
      PROVE  Fields([c EXCEPT !.stage = "types", !.again = TRUE, !.saved = saved])
               = <<"types", TRUE, c.at, c.prev, c.curr, c.next, c.outcome, saved>>
  BY <1>1 DEF Fields
<1> QED BY <1>2, <1>3, <1>4, <1>5, <1>6, <1>7

\* The fields of a cursor one up, from a place around the declaration.
LEMMA FieldsUp ==
  ASSUME tree \in DOMAIN Trees, Way(decl), NEW st, NEW c, WalkRight(st, c),
         NEW m \in Nat \ {0}, m <= Steps, c.at = Cut(m)
  PROVE  /\ Fields(CursorUp(st, c))
              = <<c.stage, c.again, Cut(m - 1), At(Cut(m)), At(Cut(m - 1)), 1,
                  c.outcome, c.saved>>
         /\ WalkRight(st, CursorUp(st, c)) /\ CursorUp(st, c).curr # 0
<1>1. PICK u : u = CursorUp(st, c)
  OBVIOUS
<1>2. /\ WalkRight(st, u) /\ u.curr # 0 /\ u.curr = At(Cut(m - 1))
      /\ u.at = Cut(m - 1) /\ u.stage = c.stage /\ u.outcome = c.outcome
      /\ u.again = c.again /\ u.saved = c.saved
  BY <1>1, UpAt DEF Steps
<1>3. c.curr = At(Cut(m))
  BY CurrAt
<1>4. u.prev = c.curr /\ u.next = 1
  <2>1. DOMAIN c = {"stage", "again", "scout", "at", "prev", "curr", "next",
                    "matches", "outcome", "saved"}
    BY DEF WalkRight, WalkFrom, CursorRight, Idle
  <2> QED BY <1>1, <2>1 DEF CursorUp
<1>5. Fields(u) = <<c.stage, c.again, Cut(m - 1), At(Cut(m)), At(Cut(m - 1)), 1,
                    c.outcome, c.saved>>
  BY <1>2, <1>3, <1>4 DEF Fields
<1> QED BY <1>1, <1>2, <1>5

\* A place that was passed is around the next place out, with nothing begun.
LEMMA AroundUp ==
  ASSUME tree \in DOMAIN Trees, Way(decl), NEW m \in 1 .. Steps, NEW S, NEW X,
         Passed(S, Cut(m), X), NEW u, u.at = Cut(m - 1), u.prev = At(Cut(m)), u.next = 1
  PROVE  Around(S, u, m - 1, X)
<1>1. PICK k \in Nat : k = m - 1 /\ k + 1 = m /\ k \in 0 .. Steps - 1 /\ k \in 0 .. Steps
  <2>1. Steps \in Nat
    BY LastCut DEF Steps
  <2> QED BY <2>1
<1>2. Cut(k) \in Trails
  BY <1>1, LastCut DEF Steps
<1>3. Begun(S, Cut(k), 1, X)
  BY <1>2, BegunGoesOn
<1> QED BY <1>1, <1>3 DEF Around, Came

\* A place around which all children were passed is passed.
LEMMA AroundEnds ==
  ASSUME tree \in DOMAIN Trees, Way(decl), NEW st, NEW c, WalkRight(st, c),
         NEW S, NEW m, NEW X, Around(S, c, m, X), ~(c.next <= Len(Children(c.curr)))
  PROVE  Passed(S, Cut(m), X)
<1>1. Steps \in Nat /\ m \in 0 .. Steps /\ m \in Nat
  <2>1. Steps \in Nat
    BY LastCut DEF Steps
  <2> QED BY <2>1 DEF Around
<1>2. Cut(m) \in Trails
  BY <1>1, LastCut DEF Steps
<1>3. c.curr = At(Cut(m))
  BY CurrAt DEF Around, Came
<1>4. c.next \in Nat /\ Children(c.curr) # << >>
  BY DEF WalkRight, WalkFrom, CursorRight
<1> QED BY <1>2, <1>3, <1>4, BegunEnds DEF Around

\* The next child around a place is passed: it was given, or it is the node the
\* cursor came from.
LEMMA AroundNext ==
  ASSUME tree \in DOMAIN Trees, Way(decl), NEW st, NEW c, WalkRight(st, c),
         NEW S, NEW m, NEW X, Around(S, c, m, X), c.next <= Len(Children(c.curr)),
         NEW R, S \subseteq R,
         Append(c.at, c.next) \in R \/ Children(c.curr)[c.next] = c.prev,
         NEW d, d.at = c.at, d.prev = c.prev, d.next = c.next + 1
  PROVE  Around(R, d, m, X)
<1>1. Steps \in Nat /\ m \in 0 .. Steps /\ m \in Nat /\ m < Steps
  <2>1. Steps \in Nat
    BY LastCut DEF Steps
  <2> QED BY <2>1 DEF Around
<1>2. Cut(m) \in Trails
  BY <1>1, LastCut DEF Steps
<1>3. c.curr = At(Cut(m)) /\ c.at = Cut(m) /\ c.prev = At(Cut(m + 1))
  BY CurrAt DEF Around, Came
<1>4. PICK k : k = c.next
  OBVIOUS
<1>5. k \in DOMAIN Children(At(Cut(m)))
  <2>1. At(Cut(m)) \in Nodes
    BY <1>2, TrailsAreCut
  <2>2. Children(At(Cut(m))) \in Seq(Nodes)
    BY <2>1, ChildrenAreNodes
  <2>3. k \in Nat \ {0} /\ k <= Len(Children(At(Cut(m))))
    BY <1>3, <1>4 DEF WalkRight, WalkFrom, CursorRight
  <2>4. /\ DOMAIN Children(At(Cut(m))) = 1 .. Len(Children(At(Cut(m))))
        /\ Len(Children(At(Cut(m)))) \in Nat
    BY <2>2, LenProperties
  <2> QED BY <2>3, <2>4
<1>6. Passed(R, Cut(m + 1), X) /\ Begun(R, Cut(m), k, X)
  BY <1>4, GivenStays DEF Around
<1>7. Passed(R, Append(Cut(m), k), X)
  <2>1. CASE Append(Cut(m), k) \in R
    BY <2>1, GivenIsPassed
  <2>2. CASE Children(At(Cut(m)))[k] = At(Cut(m + 1))
    BY <1>1, <1>5, <1>6, <2>2, SkippedIsPassed DEF Steps
  <2> QED BY <1>3, <1>4, <2>1, <2>2
<1>8. Begun(R, Cut(m), k + 1, X)
  BY <1>2, <1>5, <1>6, <1>7, BegunGoesOn
<1> QED BY <1>3, <1>4, <1>6, <1>8 DEF Around, Came

\* the list of parameters that the declaration is in, or itself: a use there is
\* none of its scope
ListTrail ==
  IF Kind(At(Front(TrailOf(decl)))) \in ParameterLists THEN Front(TrailOf(decl))
  ELSE TrailOf(decl)

\* what the walk from a local passes outward
Passing ==
  ParameterLists \cup {"ResourceSpecification", "EnhancedForStatement", "TypeParameters"}

LocalKnown(S) ==
  \E m \in 0 .. Steps - 1 :
    /\ Passed(S, Cut(m), Covered(ListTrail))
    /\ \/ IsNotList(Cut(m))
       \/ m = Steps - 1 /\ Kind(At(Cut(m))) = "SwitchBlockStatementGroup"

CoversLocal(S, s) ==
  /\ s.stage \in {"block", "over"}
  /\ s.stage = "block" => /\ Kind(s.curr) \notin ParameterLists
                          /\ \E m : /\ Around(S, s, m, Covered(ListTrail))
                                    /\ m = Steps - 1 \/ Kind(At(Cut(m + 1))) \in Passing
  /\ s.stage = "over" => LocalKnown(S)

CoversBody(S, s) ==
  /\ s.stage \in {"this", "over"}
  /\ s.stage = "this" => Begun(S, TrailOf(decl), s.next, {})
  /\ s.stage = "over" => Passed(S, TrailOf(decl), {})

\* from a place around the type, m steps from the root, there are only types
Within(m) == \A i \in m .. Steps : Kind(At(Cut(i))) \in TypeBodies \cup TypeDeclarations

\* the walk ended around the outermost type, m steps from the root: in a creation
\* whose body was passed, in a block that was passed or has too few children, or
\* at a package without a name
TypeBlocked(S) ==
  \E m \in 0 .. Steps - 1 :
    /\ Within(m + 1) /\ Passed(S, Cut(m + 1), {})
    /\ \/ Kind(At(Cut(m))) = "ObjectCreationExpression" /\ IsInnards(Cut(m + 1))
       \/ /\ Kind(At(Cut(m))) \in Innards
          /\ \/ Passed(S, Cut(m), {})
             \/ Len(Children(At(Cut(m)))) < Last(TrailOf(decl))
       \/ /\ Kind(At(Cut(m))) = "Program"
          /\ \E c \in ToSet(Children(At(Cut(m)))) : NamelessPackage(c)

\* what comes before the types of a file, p steps from the root
NotTypes(p) ==
  {leaf \in Covered(Cut(p)) : Kind(At(SubSeq(leaf, 1, p + 1))) \notin TypeDeclarations}

\* the other folder was given, as far as its children are other nodes than that
\* below the limit, f steps from the root
OtherBegun(S, f, k) ==
  folders[1].others # << >> =>
    LET other == folders[1].others[1]
    IN  \A o \in 1 .. Len(Children(NodeOf(other))) :
          o < k => TrailOf(other) \in S \/ Children(NodeOf(other))[o] = At(Cut(f + 1))

OtherPassed(S, f) ==
  folders[1].others # << >> =>
    LET other == folders[1].others[1]
    IN  TrailOf(other) \in S
        \/ \A o \in 1 .. Len(Children(NodeOf(other))) :
             Children(NodeOf(other))[o] = At(Cut(f + 1))

TypeKnown(S, f, p) ==
  /\ Passed(S, Cut(p), NotTypes(p)) /\ Passed(S, Cut(f), Covered(Cut(p)))
  /\ OtherPassed(S, f) /\ Within(p + 1)

CoversType(S, s, f, p) ==
  /\ s.stage \in InFileStages \cup {"package", "directories", "folders", "over"}
  /\ s.stage # "over" => s.outcome = "ok"
  /\ s.stage = "own" => /\ Came(s, Steps - 1) /\ ~s.again
                        /\ Begun(S, TrailOf(decl), s.next, {})
  /\ s.stage \in InFileStages \ {"own"} => Passed(S, TrailOf(decl), {})
  /\ s.stage = "types" =>
       \E m \in 0 .. Steps - 1 :
         /\ Came(s, m) /\ Passed(S, Cut(m + 1), {})
         /\ Within(m + 1) /\ Kind(At(Cut(m + 1))) \in TypeDeclarations
  /\ s.stage \in {"body", "enum"} => \E m : Around(S, s, m, {}) /\ Within(m)
  /\ s.stage = "program" => /\ s.at = Cut(p) /\ Begun(S, Cut(p), s.next, NotTypes(p))
                            /\ Passed(S, Cut(p + 1), {}) /\ Within(p + 1)
  /\ s.stage \in {"package", "directories", "folders"} \/ s.again =>
       Passed(S, Cut(p), NotTypes(p)) /\ Within(p + 1)
  /\ s.again => Came(s.saved[1], p - 1) /\ s.saved[1].outcome = "ok"
  /\ s.stage \in {"package", "directories"} =>
       \E m \in 0 .. p - 1 : Around(S, s, m, Covered(Cut(p)))
  /\ s.stage = "folders" => /\ s.prev = At(Cut(f + 1))
                            /\ Passed(S, Cut(f), Covered(Cut(p)))
                            /\ OtherBegun(S, f, s.next)
  /\ s.stage = "over" => /\ s.outcome = "blocked" => TypeBlocked(S)
                         /\ s.outcome = "ok" => TypeKnown(S, f, p)
                         /\ s.outcome \in {"ok", "blocked", "nomore"}

\* f and p steps from the root, the folder and the file of the declaration are
Located(f, p) ==
  /\ f = Len(folders[1].path) - 1 /\ f < p
  /\ p <= Len(TrailOf(decl)) /\ FileIn(decl, p + 1)

CoversFor(S, s) ==
  /\ IsLocal \/ IsBody \/ IsType
  /\ IsLocal => CoversLocal(S, s)
  /\ IsBody => CoversBody(S, s)
  /\ IsType => \A f \in Nat, p \in Nat \ {0} : Located(f, p) => CoversType(S, s, f, p)

Covers == search # Idle => CoversFor(searched, search)

\* The invariant, after a step of a search.
LEMMA CoversNext ==
  ASSUME UNCHANGED <<tree, folders, decl>>,
         search' # Idle => CoversFor(searched', search')
  PROVE  Covers'
<1>1. ASSUME NEW n PROVE Kind(n)' = Kind(n) /\ Children(n)' = Children(n)
  BY DEF Kind, Children
<1>2. /\ IsType' <=> IsType
      /\ IsBody' <=> IsBody
      /\ IsLocal' <=> IsLocal
  BY <1>1 DEF IsType, IsBody, IsLocal, NodeOf
<1>3. Steps' = Steps /\ Leaves' = Leaves /\ TrailOf(decl)' = TrailOf(decl)
  BY DEF Steps, Leaves
<1>4. ASSUME NEW t PROVE At(t)' = At(t) /\ Covered(t)' = Covered(t)
  BY <1>3 DEF At, Covered
<1>5. ASSUME NEW t, NEW k PROVE Parts(t, k)' = Parts(t, k)
  BY <1>3 DEF Parts
<1>6. ASSUME NEW l, NEW t PROVE Twin(l, t)' <=> Twin(l, t)
  BY <1>4 DEF Twin
<1>7. ASSUME NEW S, NEW l PROVE GivenIn(S, l)' <=> GivenIn(S, l)
  BY <1>3, <1>6 DEF GivenIn
<1>8. ASSUME NEW S, NEW t, NEW X PROVE Passed(S, t, X)' <=> Passed(S, t, X)
  BY <1>4, <1>7 DEF Passed
<1>9. ASSUME NEW S, NEW t, NEW k, NEW X PROVE Begun(S, t, k, X)' <=> Begun(S, t, k, X)
  BY <1>5, <1>7 DEF Begun
<1>10. ASSUME NEW m PROVE Cut(m)' = Cut(m)
  BY <1>3 DEF Cut
<1>11. ASSUME NEW c, NEW m PROVE Came(c, m)' <=> Came(c, m)
  BY <1>4, <1>10 DEF Came
<1>12. ASSUME NEW S, NEW c, NEW m, NEW X PROVE Around(S, c, m, X)' <=> Around(S, c, m, X)
  BY <1>3, <1>8, <1>9, <1>10, <1>11 DEF Around
<1>13. ListTrail' = ListTrail /\ Covered(ListTrail)' = Covered(ListTrail)
  BY <1>1, <1>3, <1>4 DEF ListTrail
<1>14. ASSUME NEW t PROVE /\ IsNotList(t)' <=> IsNotList(t)
                          /\ IsInnards(t)' <=> IsInnards(t)
  BY <1>1, <1>4 DEF IsNotList, IsInnards
<1>24. ASSUME NEW m PROVE Within(m)' <=> Within(m)
  BY <1>1, <1>3, <1>4, <1>10 DEF Within
<1>25. ASSUME NEW c PROVE NamelessPackage(c)' <=> NamelessPackage(c)
  BY <1>1 DEF NamelessPackage
<1>26. ASSUME NEW S PROVE LocalKnown(S)' <=> LocalKnown(S)
  BY <1>1, <1>3, <1>4, <1>8, <1>10, <1>13, <1>14 DEF LocalKnown
<1>27. ASSUME NEW S PROVE TypeBlocked(S)' <=> TypeBlocked(S)
  BY <1>1, <1>3, <1>4, <1>8, <1>10, <1>14, <1>24, <1>25 DEF TypeBlocked
<1>15. ASSUME NEW S PROVE /\ LocalKnown(S)' <=> LocalKnown(S)
                          /\ TypeBlocked(S)' <=> TypeBlocked(S)
  BY <1>26, <1>27
<1>16. ASSUME NEW S, NEW s PROVE /\ CoversLocal(S, s)' <=> CoversLocal(S, s)
                                 /\ CoversBody(S, s)' <=> CoversBody(S, s)
  BY <1>1, <1>3, <1>4, <1>8, <1>9, <1>10, <1>12, <1>13, <1>15 DEF CoversLocal, CoversBody
<1>17. ASSUME NEW p PROVE NotTypes(p)' = NotTypes(p)
  BY <1>1, <1>4, <1>10 DEF NotTypes
<1>18. ASSUME NEW S, NEW f, NEW k PROVE /\ OtherBegun(S, f, k)' <=> OtherBegun(S, f, k)
                                        /\ OtherPassed(S, f)' <=> OtherPassed(S, f)
  BY <1>1, <1>4, <1>10 DEF OtherBegun, OtherPassed
<1>19. ASSUME NEW S, NEW f, NEW p PROVE TypeKnown(S, f, p)' <=> TypeKnown(S, f, p)
  BY <1>4, <1>8, <1>10, <1>17, <1>18, <1>24 DEF TypeKnown
<1>20. ASSUME NEW S, NEW s, NEW f, NEW p PROVE CoversType(S, s, f, p)' <=> CoversType(S, s, f, p)
  BY <1>1, <1>3, <1>4, <1>8, <1>9, <1>10, <1>11, <1>12, <1>15, <1>17, <1>18, <1>19, <1>24
     DEF CoversType
<1>21. ASSUME NEW f, NEW p PROVE Located(f, p)' <=> Located(f, p)
  BY <1>1, <1>3 DEF Located, FileIn
<1>22. ASSUME NEW S, NEW s PROVE CoversFor(S, s)' <=> CoversFor(S, s)
  BY <1>2, <1>16, <1>20, <1>21 DEF CoversFor
<1>23. CoversFor(searched, search)' <=> CoversFor(searched', search')
  BY <1>22
<1> QED BY <1>23 DEF Covers

\* The kinds of declarations are told apart.
LEMMA OneSort ==
  /\ IsType => ~IsBody /\ ~IsLocal
  /\ IsBody => ~IsLocal
BY DEF IsType, SearchedTypes, IsBody, IsLocal, Parameters

\* The two ways a step of a search goes on.
LEMMA StepGives ==
  ASSUME NEW s, DOMAIN s = DOMAIN Idle
  PROVE  /\ GoingOn(s) => /\ Fields(search') = Fields(s) /\ searched' = searched
                          /\ UNCHANGED <<tree, folders, decl>>
         /\ \A place, trail : Searching(s, place, trail) =>
              /\ Fields(search') = Fields(s) /\ searched' = searched \cup {trail}
              /\ UNCHANGED <<tree, folders, decl>>
<1>1. \A n : Fields([s EXCEPT !.matches = n]) = Fields(s)
  BY FieldsAfter
<1>2. Fields([s EXCEPT !.matches = @ + 1]) = Fields(s)
  BY <1>1
<1>3. ASSUME GoingOn(s)
      PROVE  /\ Fields(search') = Fields(s) /\ searched' = searched
             /\ UNCHANGED <<tree, folders, decl>>
  BY <1>3 DEF GoingOn, iterators
<1>4. ASSUME NEW place, NEW trail, Searching(s, place, trail)
      PROVE  /\ Fields(search') = Fields(s) /\ searched' = searched \cup {trail}
             /\ UNCHANGED <<tree, folders, decl>>
  <2>1. search' = s \/ search' = [s EXCEPT !.matches = @ + 1]
    BY <1>4 DEF Searching
  <2>2. PICK n : n = search'
    OBVIOUS
  <2>3. Fields(n) = Fields(s)
    BY <1>2, <2>1, <2>2
  <2> QED BY <1>4, <2>2, <2>3 DEF Searching, iterators
<1> QED BY <1>3, <1>4

\* What a step of a loop over children leaves.
LEMMA ScanGives ==
  ASSUME Searches, SearchChild \/ SkipChild
  PROVE  /\ Scanning /\ MoreToScan /\ searched \subseteq searched'
         /\ Append(ScannedAt, search.next) \in searched' \/ ~Wanted
         /\ Fields(search') = <<search.stage, search.again, search.at, search.prev,
                                search.curr, search.next + 1, search.outcome, search.saved>>
         /\ UNCHANGED <<tree, folders, decl>>
<1>1. DOMAIN search = DOMAIN Idle
  BY DEF Searches, WalkRight, WalkFrom, CursorRight
<1>2. PICK s : s = [search EXCEPT !.next = @ + 1]
  OBVIOUS
<1>3. /\ DOMAIN s = DOMAIN Idle
      /\ Fields(s) = <<search.stage, search.again, search.at, search.prev,
                       search.curr, search.next + 1, search.outcome, search.saved>>
  <2>1. DOMAIN s = DOMAIN search
    BY <1>2
  <2> QED BY <1>1, <1>2, <2>1, FieldsAfter
<1>4. CASE SearchChild
  <2>1. Searching(s, GotoChild(store, ScannedFrom, search.next), Append(ScannedAt, search.next))
    BY <1>2, <1>4 DEF SearchChild
  <2>2. PICK place, trail : Searching(s, place, trail) /\ trail = Append(ScannedAt, search.next)
    BY <2>1
  <2>3. /\ Fields(search') = Fields(s) /\ searched' = searched \cup {trail}
        /\ UNCHANGED <<tree, folders, decl>>
    BY <1>3, <2>2, StepGives
  <2>4. Scanning /\ MoreToScan
    BY <1>4 DEF SearchChild
  <2> QED BY <1>3, <2>2, <2>3, <2>4
<1>5. CASE SkipChild
  <2>1. GoingOn(s) /\ Scanning /\ MoreToScan /\ ~Wanted
    BY <1>2, <1>5 DEF SkipChild
  <2>2. Fields(search') = Fields(s) /\ searched' = searched /\ UNCHANGED <<tree, folders, decl>>
    BY <1>3, <2>1, StepGives
  <2> QED BY <1>3, <2>1, <2>2
<1> QED BY <1>4, <1>5

\* The next child of the node that is scanned is one.
LEMMA NextIsChild ==
  ASSUME Searches, MoreToScan
  PROVE  search.next \in DOMAIN Children(Scanned)
<1>1. Scanned \in Nodes
  BY ScannedStands, StandsAtTrail DEF Searches
<1>2. Children(Scanned) \in Seq(Nodes)
  BY <1>1, ChildrenAreNodes DEF Searches
<1>3. search.next \in Nat \ {0} /\ search.next <= Len(Children(Scanned))
  BY DEF Searches, WalkRight, WalkFrom, CursorRight, MoreToScan
<1>4. DOMAIN Children(Scanned) = 1 .. Len(Children(Scanned)) /\ Len(Children(Scanned)) \in Nat
  BY <1>2, LenProperties
<1> QED BY <1>3, <1>4

\* All children of the declaration are given.
LEMMA ScanOwn ==
  ASSUME Searches, OfDecl, Begun(searched, TrailOf(decl), search.next, {}),
         SearchChild \/ SkipChild
  PROVE  Begun(searched', TrailOf(decl), search.next + 1, {})
<1>1. PICK k, R : k = search.next /\ R = searched'
  OBVIOUS
<1>2. /\ tree \in DOMAIN Trees /\ TrailOf(decl) \in Trails
      /\ At(TrailOf(decl)) = NodeOf(decl)
  BY LastCut DEF Searches
<1>3. Append(TrailOf(decl), k) \in R /\ searched \subseteq R
  <2>1. Wanted /\ ScannedAt = TrailOf(decl)
    BY DEF Wanted, ScannedAt, OfDecl
  <2> QED BY <1>1, <2>1, ScanGives
<1>4. k \in DOMAIN Children(At(TrailOf(decl)))
  <2>1. MoreToScan /\ Scanned = NodeOf(decl)
    BY ScanGives DEF Scanned
  <2> QED BY <1>1, <1>2, <2>1, NextIsChild
<1>5. Begun(R, TrailOf(decl), k, {})
  BY <1>1, <1>3, GivenStays
<1>6. Passed(R, Append(TrailOf(decl), k), {})
  BY <1>3, GivenIsPassed
<1>7. Begun(R, TrailOf(decl), k + 1, {})
  BY <1>2, <1>4, <1>5, <1>6, BegunGoesOn
<1> QED BY <1>1, <1>7

\* When the loop ends, the declaration is passed.
LEMMA OwnEnds ==
  ASSUME Searches, OfDecl, Begun(searched, TrailOf(decl), search.next, {}),
         ~MoreToScan, IsType \/ IsBody
  PROVE  Passed(searched, TrailOf(decl), {})
<1>1. /\ tree \in DOMAIN Trees /\ TrailOf(decl) \in Trails
      /\ At(TrailOf(decl)) = NodeOf(decl) /\ NodeOf(decl) \in Nodes
  BY LastCut, WayEnds DEF Searches
<1>2. Children(NodeOf(decl)) # << >>
  BY <1>1, GrammarAssumption DEF IsType, SearchedTypes, IsBody, Kind, Children, Nodes
<1>3. ~(search.next <= Len(Children(NodeOf(decl)))) /\ search.next \in Nat
  BY DEF MoreToScan, Scanned, Searches, WalkRight, WalkFrom, CursorRight
<1> QED BY <1>1, <1>2, <1>3, BegunEnds

\* Around a place, a step of the loop over its children goes on.
LEMMA ScanAround ==
  ASSUME Searches, search.stage \notin {"own", "this", "program"}, NEW m, NEW X,
         Around(searched, search, m, X), SearchChild \/ SkipChild
  PROVE  Around(searched', search', m, X)
<1>1. PICK R, d : R = searched' /\ d = search'
  OBVIOUS
<1>2. /\ MoreToScan /\ searched \subseteq R
      /\ Append(ScannedAt, search.next) \in R \/ ~Wanted
      /\ Fields(d) = <<search.stage, search.again, search.at, search.prev,
                       search.curr, search.next + 1, search.outcome, search.saved>>
  BY <1>1, ScanGives
<1>3. /\ d.at = search.at /\ d.prev = search.prev /\ d.next = search.next + 1
  BY <1>2 DEF Fields
<1>4. ~OfDecl /\ Scanned = search.curr /\ ScannedAt = search.at
  BY DEF OfDecl, Scanned, ScannedAt
<1>5. Append(search.at, search.next) \in R \/ Children(search.curr)[search.next] = search.prev
  BY <1>2, <1>4 DEF Wanted, Child
<1>6. search.next <= Len(Children(search.curr))
  BY <1>2, <1>4 DEF MoreToScan
<1>7. tree \in DOMAIN Trees /\ Way(decl) /\ WalkRight(store, search)
  BY DEF Searches
<1>8. Around(R, d, m, X)
  BY <1>2, <1>3, <1>5, <1>6, <1>7, AroundNext
<1> QED BY <1>1, <1>8

\* At the end of the loop, its place is passed.
LEMMA ScanEnds ==
  ASSUME Searches, search.stage \notin {"own", "this"}, ~MoreToScan, NEW m, NEW X,
         Around(searched, search, m, X)
  PROVE  Passed(searched, Cut(m), X)
<1>1. ~(search.next <= Len(Children(search.curr)))
  BY DEF MoreToScan, Scanned, OfDecl
<1>2. tree \in DOMAIN Trees /\ Way(decl) /\ WalkRight(store, search)
  BY DEF Searches
<1> QED BY <1>1, <1>2, AroundEnds
-----------------------------------------------------------------------------
(* Locals and bodies.                                                      *)

\* The loop over the children of a body, and its end.
LEMMA BodyCovers ==
  ASSUME Searches, IsBody, CoversBody(searched, search)
  PROVE  /\ SearchChild \/ SkipChild => CoversBody(searched', search')
         /\ LeaveThis => CoversBody(searched', search')
<1>1. PICK R, d : R = searched' /\ d = search'
  OBVIOUS
<1>2. ASSUME SearchChild \/ SkipChild PROVE CoversBody(R, d)
  <2>1. /\ Scanning
        /\ Fields(d) = <<search.stage, search.again, search.at, search.prev,
                         search.curr, search.next + 1, search.outcome, search.saved>>
    BY <1>1, <1>2, ScanGives
  <2>2. search.stage = "this" /\ OfDecl
    BY <2>1 DEF Scanning, OfDecl, CoversBody
  <2>3. d.stage = "this" /\ d.next = search.next + 1
    BY <2>1, <2>2 DEF Fields
  <2>4. Begun(R, TrailOf(decl), search.next + 1, {})
    BY <1>1, <1>2, <2>2, ScanOwn DEF CoversBody
  <2> QED BY <2>3, <2>4 DEF CoversBody
<1>3. ASSUME LeaveThis PROVE CoversBody(R, d)
  <2>1. search.stage = "this" /\ ~MoreToScan /\ GoingOn(Over("ok"))
    BY <1>3 DEF LeaveThis, After
  <2>2. Passed(searched, TrailOf(decl), {})
    BY <2>1, OwnEnds DEF CoversBody, OfDecl
  <2>3. PICK s : s = Over("ok")
    OBVIOUS
  <2>4. DOMAIN search = DOMAIN Idle
    BY DEF Searches, WalkRight, WalkFrom, CursorRight
  <2>5. s.stage = "over" /\ DOMAIN s = DOMAIN Idle
    BY <2>3, <2>4, OverAs
  <2>6. Fields(d) = Fields(s) /\ R = searched
    BY <1>1, <2>1, <2>3, <2>5, StepGives
  <2>7. d.stage = "over"
    BY <2>5, <2>6 DEF Fields
  <2> QED BY <2>2, <2>6, <2>7 DEF CoversBody
<1> QED BY <1>1, <1>2, <1>3

\* Each place around the declaration holds the next, and the first is the root.
LEMMA CutsGoOn ==
  ASSUME tree \in DOMAIN Trees, Way(decl)
  PROVE  /\ Steps \in Nat /\ At(Cut(0)) = Root
         /\ \A m \in 1 .. Steps :
              /\ At(Cut(m)) \in ToSet(Children(At(Cut(m - 1))))
              /\ At(Cut(m)) < At(Cut(m - 1))
         /\ \A m \in 0 .. Steps : At(Cut(m)) \in Nodes
<1>1. Steps \in Nat /\ Len(decl) = Steps + 1
  BY LastCut DEF Steps
<1>2. ASSUME NEW m \in 0 .. Steps PROVE m \in Nat /\ At(Cut(m)) = decl[m + 1].node
  <2>1. m \in Nat /\ m <= Len(TrailOf(decl))
    BY <1>1 DEF Steps
  <2> QED BY <2>1, CutFacts
<1>3. At(Cut(0)) = Root
  <2>1. 0 \in 0 .. Steps
    BY <1>1
  <2>2. decl[0 + 1].node = Root
    BY DEF Way
  <2> QED BY <1>2, <2>1, <2>2
<1>4. ASSUME NEW m \in 0 .. Steps PROVE At(Cut(m)) \in Nodes
  <2>1. Cut(m) \in Trails
    BY LastCut DEF Steps
  <2> QED BY <2>1, TrailsAreCut
<1>5. ASSUME NEW m \in 1 .. Steps
      PROVE  /\ At(Cut(m)) \in ToSet(Children(At(Cut(m - 1))))
             /\ At(Cut(m)) < At(Cut(m - 1))
  <2>1. PICK k \in Nat : k = m - 1 /\ k + 1 = m
    BY <1>1
  <2>2. k \in 0 .. Steps /\ m \in 0 .. Steps /\ m + 1 \in 2 .. Len(decl)
    BY <1>1, <2>1
  <2>3. At(Cut(m)) = decl[m + 1].node /\ At(Cut(k)) = decl[m].node
    BY <1>2, <2>1, <2>2
  <2>4. Linked(decl[(m + 1) - 1].node, decl[m + 1])
    BY <2>2 DEF Way, Check
  <2>5. (m + 1) - 1 = m
    OBVIOUS
  <2>6. PICK o : o \in DOMAIN Children(At(Cut(k))) /\ Children(At(Cut(k)))[o] = At(Cut(m))
    BY <2>3, <2>4, <2>5 DEF Linked
  <2>7. At(Cut(k)) \in Nodes
    BY <1>4, <2>2
  <2>8. At(Cut(m)) < At(Cut(k))
    BY <2>6, <2>7, ChildrenAreNodes
  <2> QED BY <2>1, <2>6, <2>8 DEF ToSet
<1> QED BY <1>1, <1>3, <1>4, <1>5

\* A place with a kind that is none of a directory is below another.
LEMMA CutNotRoot ==
  ASSUME tree \in DOMAIN Trees, Way(decl), NEW m \in 0 .. Steps,
         Kind(At(Cut(m))) \notin DirKinds
  PROVE  m \in Nat \ {0} /\ m \in 1 .. Steps
<1>1. Steps \in Nat
  BY CutsGoOn
<1>2. m # 0
  BY CutsGoOn, NotRoot
<1> QED BY <1>1, <1>2

\* What the grammar says of the child on the way.
LEMMA GrammarAround ==
  ASSUME tree \in DOMAIN Trees, Way(decl), NEW m \in 1 .. Steps
  PROVE  /\ Kind(At(Cut(m - 1))) \in ParameterLists =>
              Kind(At(Cut(m))) \notin ParameterLists
                \cup {"TypeParameters", "ResourceSpecification", "EnhancedForStatement"}
         /\ Kind(At(Cut(m - 1))) = "SwitchBlockStatementGroup" =>
              Kind(At(Cut(m))) \notin ParameterLists
                \cup {"TypeParameters", "ResourceSpecification"}
         /\ Kind(At(Cut(m - 1))) = "ObjectCreationExpression" =>
              (Kind(At(Cut(m))) \in TypeBodies \cup TypeDeclarations =>
                 Kind(At(Cut(m))) = "ClassBody")
         /\ Kind(At(Cut(m - 1))) \in TypeDeclarations =>
              Kind(At(Cut(m))) \notin TypeDeclarations
         /\ Kind(At(Cut(m - 1))) \in TypeBodies \cup {"Program", "Block", "ConstructorBody"} =>
              (Kind(At(Cut(m))) \in TypeBodies =>
                 /\ Kind(At(Cut(m - 1))) = "EnumBody"
                 /\ Kind(At(Cut(m))) = "EnumBodyDeclarations")
<1>1. PICK n, c : n = At(Cut(m - 1)) /\ c = At(Cut(m))
  OBVIOUS
<1>2. c \in ToSet(Children(n))
  BY <1>1, CutsGoOn
<1>3. n \in Nodes
  <2>1. m - 1 \in 0 .. Steps
    BY CutsGoOn
  <2> QED BY <1>1, <2>1, CutsGoOn
<1> DEFINE Kinds == {Trees[tree][k].kind : k \in ToSet(Trees[tree][n].children)}
<1>4. Kind(c) \in Kinds
  BY <1>2 DEF Kind, Children
<1>5. /\ Kind(n) \in {"FormalParameters", "InferredParameters"} =>
           Kinds \cap {"FormalParameters", "InferredParameters", "TypeParameters",
                      "ResourceSpecification", "EnhancedForStatement"} = {}
      /\ Kind(n) = "SwitchBlockStatementGroup" =>
           Kinds \cap {"FormalParameters", "InferredParameters", "TypeParameters",
                      "ResourceSpecification"} = {}
      /\ Kind(n) = "ObjectCreationExpression" =>
           Kinds \cap (TypeDeclarations \cup TypeBodies) \subseteq {"ClassBody"}
      /\ Kind(n) \in TypeDeclarations => Kinds \cap TypeDeclarations = {}
      /\ Kind(n) \in TypeBodies \cup {"Program", "Block", "ConstructorBody"} =>
           Kinds \cap TypeBodies \subseteq
             IF Kind(n) = "EnumBody" THEN {"EnumBodyDeclarations"} ELSE {}
  BY <1>3, GrammarAssumption DEF Kind, Nodes
<1> HIDE DEF Kinds
<1>6. PICK kind, below : kind = Kind(n) /\ below = Kind(c)
  OBVIOUS
<1>7. /\ kind \in ParameterLists =>
           below \notin ParameterLists
             \cup {"TypeParameters", "ResourceSpecification", "EnhancedForStatement"}
      /\ kind = "SwitchBlockStatementGroup" =>
           below \notin ParameterLists \cup {"TypeParameters", "ResourceSpecification"}
  BY <1>4, <1>5, <1>6 DEF ParameterLists
<1>8. /\ kind = "ObjectCreationExpression" /\ below \in TypeBodies \cup TypeDeclarations =>
           below = "ClassBody"
      /\ kind \in TypeDeclarations => below \notin TypeDeclarations
  BY <1>4, <1>5, <1>6
<1>9. kind \in TypeBodies \cup {"Program", "Block", "ConstructorBody"} /\ below \in TypeBodies =>
        kind = "EnumBody" /\ below = "EnumBodyDeclarations"
  BY <1>4, <1>5, <1>6
<1>10. Kind(At(Cut(m - 1))) = kind /\ Kind(At(Cut(m))) = below
  BY <1>1, <1>6
<1> QED BY ONLY <1>7, <1>8, <1>9, <1>10

\* The fields of the cursor above the declaration.
LEMMA FieldsAbove ==
  ASSUME tree \in DOMAIN Trees, Way(decl), NEW st, NEW on, StandsAt(st, on, TrailOf(decl)),
         NodeAlways(st, on) = NodeOf(decl), NodeOf(decl) # Root,
         NEW s, s = Idle \/ WalkRight(st, s)
  PROVE  /\ Fields(CursorAbove(st, s, on))
              = <<s.stage, s.again, Cut(Steps - 1), At(Cut(Steps)), At(Cut(Steps - 1)), 1,
                  s.outcome, s.saved>>
         /\ WalkRight(st, CursorAbove(st, s, on))
         /\ Steps \in Nat \ {0}
<1>1. Steps \in Nat /\ Cut(Steps) = TrailOf(decl) /\ At(TrailOf(decl)) = NodeOf(decl)
  BY LastCut DEF Steps
<1>2. Steps # 0
  <2>1. At(Cut(0)) = Root
    BY CutsGoOn
  <2> QED BY <1>1, <2>1
<1>3. PICK n \in Nat \ {0} : n = Steps
  BY <1>1, <1>2
<1>4. Cut(n) # << >> /\ Front(Cut(n)) = Cut(n - 1)
  <2>1. n \in Nat /\ n <= Len(TrailOf(decl)) /\ n # 0
    BY <1>3 DEF Steps
  <2> QED BY <2>1, CutFacts
<1>5. PICK u : u = CursorAbove(st, s, on)
  OBVIOUS
<1>6. WalkRight(st, u)
  BY <1>5, CursorAboveRight
<1>7. DOMAIN s = {"stage", "again", "scout", "at", "prev", "curr", "next",
                  "matches", "outcome", "saved"}
  <2>1. s = Idle \/ DOMAIN s = DOMAIN Idle
    BY DEF WalkRight, WalkFrom, CursorRight
  <2> QED BY <2>1 DEF Idle
<1>8. PICK from : from = [s EXCEPT !.scout = on, !.curr = NodeOf(decl), !.at = TrailOf(decl)]
  OBVIOUS
<1>9. u = CursorUp(st, from)
  BY <1>5, <1>8 DEF CursorAbove
<1>10. /\ from.curr = NodeOf(decl) /\ from.at = TrailOf(decl) /\ from.stage = s.stage
       /\ from.again = s.again /\ from.outcome = s.outcome /\ from.saved = s.saved
       /\ DOMAIN from = {"stage", "again", "scout", "at", "prev", "curr", "next",
                         "matches", "outcome", "saved"}
  BY <1>7, <1>8
<1>11. /\ u.prev = from.curr /\ u.next = 1 /\ u.stage = from.stage /\ u.again = from.again
       /\ u.outcome = from.outcome /\ u.saved = from.saved
       /\ u.at = IF from.at = << >> THEN from.at ELSE Front(from.at)
  BY <1>9, <1>10 DEF CursorUp
<1>12. u.at = Cut(n - 1) /\ u.prev = At(Cut(n))
  BY <1>1, <1>3, <1>4, <1>10, <1>11
<1>13. u.curr = At(Cut(n - 1))
  BY <1>6, <1>12, CurrAt
<1>14. Fields(u) = <<s.stage, s.again, Cut(n - 1), At(Cut(n)), At(Cut(n - 1)), 1,
                     s.outcome, s.saved>>
  BY <1>10, <1>11, <1>12, <1>13 DEF Fields
<1> QED BY <1>3, <1>5, <1>6, <1>14

\* The walk out of blocks and lists.
LEMMA LocalCovers ==
  ASSUME Searches, CoversLocal(searched, search)
  PROVE  /\ SearchChild \/ SkipChild => CoversLocal(searched', search')
         /\ LeaveBlock => CoversLocal(searched', search')
<1>1. PICK R, d : R = searched' /\ d = search'
  OBVIOUS
<1>2. /\ tree \in DOMAIN Trees /\ Way(decl) /\ WalkRight(store, search)
      /\ DOMAIN search = DOMAIN Idle
  BY DEF Searches, WalkRight, WalkFrom, CursorRight
<1>3. PICK X : X = Covered(ListTrail)
  OBVIOUS
<1>4. ASSUME SearchChild \/ SkipChild PROVE CoversLocal(R, d)
  <2>1. /\ Scanning
        /\ Fields(d) = <<search.stage, search.again, search.at, search.prev,
                         search.curr, search.next + 1, search.outcome, search.saved>>
    BY <1>1, <1>4, ScanGives
  <2>2. search.stage = "block"
    BY <2>1 DEF Scanning, OfDecl, CoversLocal
  <2>3. d.stage = "block" /\ d.curr = search.curr
    BY <2>1, <2>2 DEF Fields
  <2>4. PICK m : /\ Around(searched, search, m, X)
                 /\ m = Steps - 1 \/ Kind(At(Cut(m + 1))) \in Passing
    BY <1>3, <2>2 DEF CoversLocal
  <2>5. Around(R, d, m, X)
    BY <1>1, <1>4, <2>2, <2>4, ScanAround
  <2> QED BY <1>3, <2>2, <2>3, <2>4, <2>5 DEF CoversLocal
<1>5. ASSUME LeaveBlock PROVE CoversLocal(R, d)
  <2>1. search.stage = "block" /\ ~MoreToScan
    BY <1>5 DEF LeaveBlock, After
  <2>2. PICK m : /\ Around(searched, search, m, X)
                 /\ m = Steps - 1 \/ Kind(At(Cut(m + 1))) \in Passing
    BY <1>3, <2>1 DEF CoversLocal
  <2>3. Passed(searched, Cut(m), X)
    BY <2>1, <2>2, ScanEnds
  <2>4. search.curr = At(Cut(m)) /\ search.at = Cut(m) /\ m \in 0 .. Steps - 1
    BY <1>2, <2>2, CurrAt DEF Around, Came
  <2>5. CASE Kind(search.curr) \in
               {"ResourceSpecification", "EnhancedForStatement", "TypeParameters"}
    <3>1. m \in Nat \ {0} /\ m \in 1 .. Steps /\ m <= Steps
      <4>1. m \in 0 .. Steps
        BY <1>2, <2>4, CutsGoOn
      <4>2. Kind(At(Cut(m))) \notin DirKinds
        BY <2>4, <2>5 DEF DirKinds
      <4> QED BY <1>2, <4>1, <4>2, CutNotRoot
    <3>2. PICK o : o = Outward /\ o = CursorUp(store, search)
      BY DEF Outward
    <3>3. /\ Fields(o) = <<search.stage, search.again, Cut(m - 1), At(Cut(m)),
                           At(Cut(m - 1)), 1, search.outcome, search.saved>>
          /\ WalkRight(store, o)
      BY <1>2, <2>4, <3>1, <3>2, FieldsUp
    <3>4. Kind(At(Cut(m - 1))) \notin ParameterLists
      BY <1>2, <2>4, <2>5, <3>1, GrammarAround
    <3>5. o.curr = At(Cut(m - 1)) /\ o.at = Cut(m - 1) /\ o.prev = At(Cut(m))
      BY <3>3 DEF Fields
    <3>6. PassLists(store, o) = o
      BY <3>4, <3>5 DEF PassLists
    <3>7. PICK s : s = To("block", o)
      OBVIOUS
    <3>8. DOMAIN o = DOMAIN Idle
      BY <3>3 DEF WalkRight, WalkFrom, CursorRight
    <3>9. s.stage = "block" /\ DOMAIN s = DOMAIN Idle
      BY <3>7, <3>8, StagedAs
    <3>10. Fields(s) = <<"block", o.again, o.at, o.prev, o.curr, 1, o.outcome, o.saved>>
      BY <3>7, <3>8, FieldsAfter
    <3>11. GoingOn(s)
      BY <1>5, <2>5, <3>2, <3>6, <3>7 DEF LeaveBlock
    <3>12. Fields(d) = Fields(s) /\ R = searched
      BY <1>1, <3>9, <3>11, StepGives
    <3>13. d.stage = "block" /\ d.at = o.at /\ d.prev = o.prev /\ d.curr = o.curr /\ d.next = 1
      BY <3>10, <3>12 DEF Fields
    <3>14. Around(R, d, m - 1, X)
      BY <1>2, <2>3, <3>1, <3>5, <3>12, <3>13, AroundUp
    <3>15. Kind(At(Cut((m - 1) + 1))) \in Passing
      <4>1. (m - 1) + 1 = m
        BY <3>1
      <4> QED BY <2>4, <2>5, <4>1 DEF Passing
    <3> QED BY <1>3, <3>4, <3>5, <3>13, <3>14, <3>15 DEF CoversLocal
  <2>6. CASE Kind(search.curr) \notin
               {"ResourceSpecification", "EnhancedForStatement", "TypeParameters"}
    <3>1. PICK s : s = Over("ok")
      OBVIOUS
    <3>2. s.stage = "over" /\ DOMAIN s = DOMAIN Idle
      BY <1>2, <3>1, OverAs
    <3>3. GoingOn(s)
      BY <1>5, <2>6, <3>1 DEF LeaveBlock
    <3>4. Fields(d) = Fields(s) /\ R = searched
      BY <1>1, <3>2, <3>3, StepGives
    <3>5. d.stage = "over"
      BY <3>2, <3>4 DEF Fields
    <3>6. IsNotList(Cut(m)) \/ Kind(At(Cut(m))) = "SwitchBlockStatementGroup"
      BY <2>1, <2>4, <2>6 DEF IsNotList, CoversLocal
    <3>8. ASSUME Kind(At(Cut(m))) = "SwitchBlockStatementGroup", m # Steps - 1
          PROVE  LocalKnown(R)
      <4>1. PICK k \in 0 .. Steps - 1 : k = m + 1 /\ k - 1 = m /\ k \in 1 .. Steps
        BY <1>2, <2>4, <3>8, CutsGoOn
      <4>2. Kind(At(Cut(k))) \in Passing
        BY <2>2, <3>8, <4>1
      <4>3. Kind(At(Cut(k))) \notin ParameterLists
              \cup {"TypeParameters", "ResourceSpecification"}
        BY <1>2, <3>8, <4>1, GrammarAround
      <4>4. IsNotList(Cut(k))
        BY <4>2, <4>3 DEF IsNotList, Passing
      <4>5. Passed(R, Cut(k), X)
        BY <2>2, <3>4, <4>1 DEF Around
      <4> QED BY <1>3, <4>1, <4>4, <4>5 DEF LocalKnown
    <3>7. LocalKnown(R)
      BY <1>3, <2>3, <2>4, <3>4, <3>6, <3>8 DEF LocalKnown
    <3> QED BY <3>5, <3>7 DEF CoversLocal
  <2> QED BY <2>5, <2>6
<1> QED BY <1>1, <1>4, <1>5
-----------------------------------------------------------------------------
(* Types.                                                                  *)

\* Further in, the nodes around the declaration are smaller.
LEMMA CutsDiffer ==
  ASSUME tree \in DOMAIN Trees, Way(decl), NEW m \in 0 .. Steps, NEW k \in 0 .. Steps,
         At(Cut(m)) = At(Cut(k))
  PROVE  m = k
<1>1. Steps \in Nat
  BY CutsGoOn
<1>2. ASSUME NEW i \in Nat, NEW j \in Nat, i < j, j <= Steps
      PROVE  At(Cut(j)) < At(Cut(i))
  <2> DEFINE T == {n \in Nat : i + 1 + n <= Steps => At(Cut(i + 1 + n)) < At(Cut(i))}
  <2>1. 0 \in T
    <3>1. SUFFICES ASSUME i + 1 <= Steps PROVE At(Cut(i + 1)) < At(Cut(i))
      OBVIOUS
    <3>2. PICK a \in Nat : a = i + 1 /\ a - 1 = i /\ a \in 1 .. Steps
      BY <1>1, <3>1
    <3> QED BY <3>2, CutsGoOn
  <2>2. ASSUME NEW n \in Nat, n \in T PROVE n + 1 \in T
    <3>1. SUFFICES ASSUME i + 1 + (n + 1) <= Steps
                   PROVE  At(Cut(i + 1 + (n + 1))) < At(Cut(i))
      OBVIOUS
    <3>2. PICK a \in Nat : a = i + 1 + (n + 1) /\ a - 1 = i + 1 + n /\ a \in 1 .. Steps
      BY <1>1, <3>1
    <3>3. PICK b \in Nat : b = a - 1 /\ b = i + 1 + n /\ b <= Steps /\ b \in 0 .. Steps
      BY <1>1, <3>2
    <3>4. At(Cut(a)) < At(Cut(b))
      BY <3>2, <3>3, CutsGoOn
    <3>5. At(Cut(b)) < At(Cut(i))
      BY <2>2, <3>3
    <3>6. PICK x, y, z : x = At(Cut(a)) /\ y = At(Cut(b)) /\ z = At(Cut(i))
      OBVIOUS
    <3>7. x \in Nat /\ y \in Nat /\ z \in Nat
      <4>1. i \in 0 .. Steps /\ a \in 0 .. Steps
        BY <1>1, <1>2, <3>2
      <4> QED BY <3>3, <3>6, <4>1, CutsGoOn, ChildrenAreNodes
    <3>8. x < z
      BY <3>4, <3>5, <3>6, <3>7
    <3> QED BY <3>2, <3>6, <3>8
  <2>3. Nat \subseteq T
    <3> HIDE DEF T
    <3> QED BY <2>1, <2>2, Induction
  <2>4. PICK n \in Nat : n = j - (i + 1) /\ i + 1 + n = j
    <3>1. j - (i + 1) \in Nat
      BY <1>2
    <3>2. i + 1 + (j - (i + 1)) = j
      OBVIOUS
    <3> QED BY <3>1, <3>2
  <2>5. n \in T
    BY <2>3
  <2> QED BY <1>2, <2>4, <2>5
<1>3. m \in Nat /\ k \in Nat /\ m <= Steps /\ k <= Steps
  BY <1>1
<1>4. At(Cut(m)) \in Nat /\ At(Cut(k)) \in Nat
  BY CutsGoOn, ChildrenAreNodes
<1>5. ~(m < k)
  BY <1>2, <1>3, <1>4
<1>6. ~(k < m)
  BY <1>2, <1>3, <1>4
<1> QED BY <1>3, <1>5, <1>6

\* What a step of a search for a type starts from.
TypeWalking(f, p) ==
  /\ Searches /\ IsType /\ f \in Nat /\ p \in Nat \ {0} /\ Located(f, p)
  /\ Way(folders[1].path) /\ Under(folders[1].path, decl)
  /\ CoversType(searched, search, f, p)

\* The type is below its file, and that below the folder.
LEMMA TypeWalkingFacts ==
  ASSUME NEW f, NEW p, TypeWalking(f, p)
  PROVE  /\ tree \in DOMAIN Trees /\ Way(decl) /\ WalkRight(store, search)
         /\ SearchRight(store, search) /\ DOMAIN search = DOMAIN Idle
         /\ Steps \in Nat \ {0} /\ f \in 0 .. Steps /\ p \in 1 .. Steps - 1
         /\ f \in Nat /\ p \in Nat \ {0} /\ f < p
         /\ Kind(At(Cut(p))) = "Program" /\ At(Cut(f)) = Limit
         /\ \A m \in 0 .. Steps : /\ Kind(At(Cut(m))) = "Program" => m = p
                                  /\ At(Cut(m)) = Limit => m = f
<1>1. /\ tree \in DOMAIN Trees /\ Way(decl) /\ WalkRight(store, search)
      /\ SearchRight(store, search) /\ DOMAIN search = DOMAIN Idle
      /\ f \in Nat /\ p \in Nat \ {0} /\ f < p /\ p <= Steps
      /\ f = Len(folders[1].path) - 1 /\ FileIn(decl, p + 1)
  BY DEF TypeWalking, Searches, WalkRight, WalkFrom, CursorRight, Located, Steps
<1>2. Steps \in Nat /\ Len(decl) = Steps + 1 /\ Cut(Steps) = TrailOf(decl)
      /\ At(TrailOf(decl)) = NodeOf(decl)
  BY <1>1, LastCut DEF Steps
<1>3. ASSUME NEW m \in 0 .. Steps PROVE At(Cut(m)) = decl[m + 1].node
  <2>1. m \in Nat /\ m <= Len(TrailOf(decl))
    BY <1>2 DEF Steps
  <2> QED BY <1>1, <2>1, CutFacts
<1>4. p \in 0 .. Steps /\ f \in 0 .. Steps
  BY <1>1, <1>2
<1>5. Kind(At(Cut(p))) = "Program"
  BY <1>1, <1>3, <1>4 DEF FileIn
<1>6. ASSUME NEW m \in 0 .. Steps, Kind(At(Cut(m))) = "Program" PROVE m = p
  <2>1. Kind(decl[m + 1].node) = "Program" /\ m \in Nat
    BY <1>2, <1>3, <1>6
  <2>2. "Program" \notin DirKinds /\ "Program" \in Outer
    BY DEF DirKinds, Outer, FileKinds
  <2>3. CASE m < p
    <3>1. m + 1 \in 1 .. (p + 1) - 1
      BY <1>1, <2>1, <2>3
    <3> QED BY <1>1, <2>1, <2>2, <3>1 DEF FileIn
  <2>4. CASE p < m
    <3>1. m + 1 \in (p + 1) + 1 .. Len(decl)
      BY <1>1, <1>2, <2>1, <2>4
    <3> QED BY <1>1, <2>1, <2>2, <3>1 DEF FileIn
  <2> QED BY <1>1, <2>1, <2>3, <2>4
<1>7. p # Steps
  <2>1. Kind(NodeOf(decl)) # "Program"
    BY DEF TypeWalking, IsType, SearchedTypes
  <2> QED BY <1>2, <1>5, <2>1
<1>8. At(Cut(f)) = Limit
  <2>1. f + 1 = Len(folders[1].path) /\ f + 1 \in 1 .. Len(folders[1].path)
    <3>1. Len(folders[1].path) \in Nat
      BY EmptySeq DEF TypeWalking, Way
    <3> QED BY <1>1, <3>1
  <2>2. decl[f + 1] = folders[1].path[f + 1]
    BY <2>1 DEF TypeWalking, Under
  <2> QED BY <1>3, <1>4, <2>1, <2>2 DEF Limit, NodeOf, Last
<1>9. ASSUME NEW m \in 0 .. Steps, At(Cut(m)) = Limit PROVE m = f
  BY <1>1, <1>4, <1>8, <1>9, CutsDiffer
<1>10. Steps \in Nat \ {0} /\ p \in 1 .. Steps - 1
  BY <1>1, <1>2, <1>7
<1> QED BY <1>1, <1>4, <1>5, <1>6, <1>8, <1>9, <1>10

\* The stages with a loop over the children, and the loop over the other folder.
LEMMA TypeScans ==
  ASSUME NEW f, NEW p, TypeWalking(f, p), SearchChild \/ SkipChild
  PROVE  CoversType(searched', search', f, p)
<1>1. PICK R, d : R = searched' /\ d = search'
  OBVIOUS
<1>2. /\ Scanning /\ MoreToScan /\ searched \subseteq R
      /\ Append(ScannedAt, search.next) \in R \/ ~Wanted
      /\ Fields(d) = <<search.stage, search.again, search.at, search.prev,
                       search.curr, search.next + 1, search.outcome, search.saved>>
      /\ Searches /\ CoversType(searched, search, f, p)
  BY <1>1, ScanGives DEF TypeWalking
<1>3. /\ d.stage = search.stage /\ d.again = search.again /\ d.at = search.at
      /\ d.prev = search.prev /\ d.curr = search.curr /\ d.next = search.next + 1
      /\ d.outcome = search.outcome /\ d.saved = search.saved
  BY <1>2 DEF Fields
<1>4. /\ \A t, X : Passed(searched, t, X) => Passed(R, t, X)
      /\ \A t, k, X : Begun(searched, t, k, X) => Begun(R, t, k, X)
  BY <1>2, GivenStays
<1>5. search.stage \in {"own", "body", "enum", "program", "package", "directories"}
  BY <1>2 DEF Scanning, OfDecl, CoversType, InFileStages
<1>6. CASE search.stage = "own"
  <2>1. Begun(R, TrailOf(decl), search.next + 1, {})
    BY <1>1, <1>2, <1>6, ScanOwn DEF CoversType, OfDecl
  <2> QED BY <1>1, <1>2, <1>3, <1>4, <1>6, <2>1 DEF CoversType, Came
<1>7. CASE search.stage \in {"body", "enum"}
  <2>1. PICK m : Around(searched, search, m, {}) /\ Within(m)
    BY <1>2, <1>7 DEF CoversType
  <2>2. Around(R, d, m, {})
    BY <1>1, <1>2, <1>7, <2>1, ScanAround
  <2>3. d.stage \in InFileStages \ {"own"} /\ d.stage \notin {"types", "program"}
        /\ d.stage \notin {"package", "directories", "folders", "over"}
    BY <1>3, <1>7 DEF InFileStages
  <2> QED BY <1>1, <1>2, <1>3, <1>4, <1>7, <2>1, <2>2, <2>3 DEF CoversType
<1>8. CASE search.stage = "program"
  <2>1. search.at = Cut(p) /\ Begun(searched, Cut(p), search.next, NotTypes(p))
    BY <1>2, <1>8 DEF CoversType
  <2>2. ~OfDecl /\ ScannedAt = search.at /\ Scanned = search.curr
    BY <1>8 DEF OfDecl, ScannedAt, Scanned
  <2>3. tree \in DOMAIN Trees /\ Way(decl) /\ p \in 0 .. Steps /\ WalkRight(store, search)
    BY TypeWalkingFacts
  <2>4. Cut(p) \in Trails /\ search.curr = At(Cut(p))
    BY <2>1, <2>3, LastCut, CurrAt DEF Steps
  <2>5. PICK k : k = search.next
    OBVIOUS
  <2>6. k \in DOMAIN Children(At(Cut(p)))
    BY <1>2, <2>2, <2>4, <2>5, NextIsChild
  <2>7. Passed(R, Append(Cut(p), k), NotTypes(p))
    <3>1. CASE Append(Cut(p), k) \in R
      BY <3>1, GivenIsPassed
    <3>2. CASE Kind(Children(At(Cut(p)))[k]) \notin TypeDeclarations
      <4>1. PICK cut, on : cut = Cut(p) /\ on = Append(cut, k)
        OBVIOUS
      <4>2. cut \in Seq(Nat) /\ Len(cut) = p
        <5>1. p \in Nat /\ p <= Len(TrailOf(decl))
          BY TypeWalkingFacts DEF Steps
        <5> QED BY <2>3, <4>1, <5>1, CutFacts
      <4>3. k \in Nat /\ At(on) = Children(At(Cut(p)))[k] /\ on \in Trails
        BY <2>3, <2>4, <2>6, <4>1, TrailsGoOn
      <4>4. on \in Seq(Nat) /\ Len(on) = p + 1 /\ \A i \in 1 .. p : on[i] = cut[i]
        BY <4>1, <4>2, <4>3, OneMore
      <4>5. ASSUME NEW leaf \in Covered(on) PROVE leaf \in NotTypes(p)
        <5>1. leaf \in Leaves /\ IsPrefix(on, leaf) /\ leaf \in Seq(Nat)
          BY <2>3, <4>5, LeavesAre, TrailsAreCut DEF Covered
        <5>2. Len(on) <= Len(leaf) /\ \A i \in 1 .. Len(on) : on[i] = leaf[i]
          BY <4>4, <5>1, PrefixElements
        <5>3. IsPrefix(cut, leaf)
          <6>1. Len(leaf) \in Nat /\ p \in Nat
            BY <5>1, LenProperties, TypeWalkingFacts
          <6>2. Len(cut) <= Len(leaf)
            BY <4>2, <4>4, <5>2, <6>1
          <6>3. \A i \in 1 .. p : i \in 1 .. p + 1
            BY <6>1
          <6>4. \A i \in 1 .. Len(cut) : cut[i] = leaf[i]
            BY <4>2, <4>4, <5>2, <6>3
          <6> QED BY <4>2, <5>1, <6>2, <6>4, PrefixElements
        <5>4. SubSeq(leaf, 1, p + 1) = on
          <6>1. Len(leaf) \in Nat /\ p + 1 \in Nat /\ p + 1 <= Len(leaf)
            BY <4>4, <5>1, <5>2, LenProperties, TypeWalkingFacts
          <6>2. p + 1 \in 0 .. Len(leaf)
            BY <6>1
          <6>3. PICK a : a = SubSeq(leaf, 1, p + 1)
            OBVIOUS
          <6>4. a \in Seq(Nat) /\ Len(a) = p + 1 /\ \A i \in 1 .. p + 1 : a[i] = leaf[i]
            BY <5>1, <6>2, <6>3, Beginning
          <6>5. /\ a \in Seq(Nat) /\ on \in Seq(Nat) /\ Len(a) = Len(on)
                /\ \A i \in 1 .. Len(a) : a[i] = on[i]
            BY <4>4, <5>2, <6>4
          <6>6. a = on
            BY ONLY <6>5, SeqEqual
          <6> QED BY <6>3, <6>6
        <5> QED BY <3>2, <4>1, <4>3, <5>1, <5>3, <5>4 DEF NotTypes, Covered
      <4> QED BY <4>1, <4>5 DEF Passed
    <3> QED BY <1>2, <1>8, <2>1, <2>2, <2>4, <2>5, <3>1, <3>2 DEF Wanted, Child, OfDecl
  <2>8. Begun(R, Cut(p), k + 1, NotTypes(p))
    BY <1>4, <2>1, <2>3, <2>4, <2>5, <2>6, <2>7, BegunGoesOn
  <2>9. d.stage \in InFileStages \ {"own"}
    BY <1>3, <1>8 DEF InFileStages
  <2> QED BY <1>1, <1>2, <1>3, <1>4, <1>8, <2>1, <2>5, <2>8, <2>9 DEF CoversType
<1>9. CASE search.stage \in {"package", "directories"}
  <2>1. PICK m \in 0 .. p - 1 : Around(searched, search, m, Covered(Cut(p)))
    BY <1>2, <1>9 DEF CoversType
  <2>2. Around(R, d, m, Covered(Cut(p)))
    BY <1>1, <1>2, <1>9, <2>1, ScanAround
  <2>3. d.stage \notin InFileStages /\ d.stage \notin {"own", "types", "body", "enum",
                                                      "program", "folders", "over"}
    BY <1>3, <1>9 DEF InFileStages
  <2> QED BY <1>1, <1>2, <1>3, <1>4, <1>9, <2>2, <2>3 DEF CoversType
<1> QED BY <1>5, <1>6, <1>7, <1>8, <1>9

\* There are only types from a place on when it is one, and from the next.
LEMMA WithinGoesOn ==
  ASSUME Steps \in Nat, NEW m \in 0 .. Steps, Within(m + 1),
         Kind(At(Cut(m))) \in TypeBodies \cup TypeDeclarations
  PROVE  Within(m)
<1>1. ASSUME NEW i \in m .. Steps PROVE Kind(At(Cut(i))) \in TypeBodies \cup TypeDeclarations
  <2>1. CASE i = m
    BY <2>1
  <2>2. CASE i # m
    <3>1. i \in m + 1 .. Steps
      BY <2>2
    <3> QED BY <3>1 DEF Within
  <2> QED BY <2>1, <2>2
<1> QED BY <1>1 DEF Within

\* The type itself is one.
LEMMA TypeFromItself ==
  ASSUME tree \in DOMAIN Trees, Way(decl), IsType
  PROVE  Within(Steps) /\ Kind(At(Cut(Steps))) \in TypeDeclarations
<1>1. Steps \in Nat /\ Cut(Steps) = TrailOf(decl) /\ At(TrailOf(decl)) = NodeOf(decl)
  BY LastCut DEF Steps
<1>2. Kind(At(Cut(Steps))) \in TypeDeclarations
  BY <1>1 DEF IsType, SearchedTypes, TypeDeclarations
<1>3. ASSUME NEW i \in Steps .. Steps PROVE i = Steps
  BY <1>1
<1> QED BY <1>2, <1>3 DEF Within

\* Where the walk is when it has passed a body.
LEMMA BodyEnds ==
  ASSUME NEW f, NEW p, TypeWalking(f, p), After("body") \/ After("enum")
  PROVE  \E m \in 1 .. Steps :
           /\ m \in Nat \ {0} /\ m <= Steps /\ search.at = Cut(m) /\ m \in 0 .. Steps - 1
           /\ Passed(searched, Cut(m), {}) /\ search.curr = At(Cut(m)) /\ Within(m)
           /\ WalkRight(store, Outward)
           /\ Fields(Outward) = <<search.stage, search.again, Cut(m - 1), At(Cut(m)),
                                  At(Cut(m - 1)), 1, search.outcome, search.saved>>
<1>1. /\ tree \in DOMAIN Trees /\ Way(decl) /\ WalkRight(store, search)
      /\ SearchRight(store, search) /\ Steps \in Nat \ {0}
      /\ Searches /\ CoversType(searched, search, f, p)
  BY TypeWalkingFacts DEF TypeWalking
<1>2. search.stage \in {"body", "enum"} /\ ~MoreToScan
  BY DEF After
<1>3. PICK m : Around(searched, search, m, {}) /\ Within(m)
  BY <1>1, <1>2 DEF CoversType
<1>4. search.at = Cut(m) /\ search.curr = At(Cut(m)) /\ m \in 0 .. Steps - 1
  BY <1>1, <1>3, CurrAt DEF Around, Came
<1>5. m \in Nat \ {0} /\ m \in 1 .. Steps /\ m <= Steps
  <2>1. m \in 0 .. Steps
    BY <1>1, <1>4
  <2>2. Kind(At(Cut(m))) \in TypeBodies
    BY <1>1, <1>2, <1>4 DEF SearchRight, TypeBodies
  <2>3. Kind(At(Cut(m))) \notin DirKinds
    BY <2>2, KindsBelow
  <2> QED BY <1>1, <2>1, <2>3, CutNotRoot
<1>6. Passed(searched, Cut(m), {})
  BY <1>1, <1>2, <1>3, ScanEnds
<1> QED BY <1>1, <1>3, <1>4, <1>5, <1>6, FieldsUp DEF Outward

\* Through the types around the declaration.
LEMMA TypeGoesOut ==
  ASSUME NEW f, NEW p, TypeWalking(f, p)
  PROVE  /\ LeaveOwn \/ EnterBody => CoversType(searched', search', f, p)
         /\ EnterEnum => CoversType(searched', search', f, p)
         /\ LeaveType => CoversType(searched', search', f, p)
<1>1. PICK R, d : R = searched' /\ d = search'
  OBVIOUS
<1>2. /\ tree \in DOMAIN Trees /\ Way(decl) /\ WalkRight(store, search)
      /\ SearchRight(store, search) /\ DOMAIN search = DOMAIN Idle
      /\ Steps \in Nat \ {0} /\ Cut(Steps) = TrailOf(decl) /\ Steps - 1 \in 0 .. Steps - 1
      /\ Searches /\ IsType /\ CoversType(searched, search, f, p)
  <2>1. Cut(Steps) = TrailOf(decl)
    BY TypeWalkingFacts, LastCut DEF Steps
  <2> QED BY <2>1, TypeWalkingFacts DEF TypeWalking
<1>3. ASSUME LeaveOwn PROVE CoversType(R, d, f, p)
  <2>1. search.stage = "own" /\ ~MoreToScan /\ GoingOn(To("types", search))
    BY <1>3 DEF LeaveOwn, After
  <2>2. Passed(searched, TrailOf(decl), {})
    BY <1>2, <2>1, OwnEnds DEF CoversType, OfDecl
  <2>3. PICK s : s = To("types", search)
    OBVIOUS
  <2>4. /\ DOMAIN s = DOMAIN Idle
        /\ Fields(s) = <<"types", search.again, search.at, search.prev, search.curr, 1,
                         search.outcome, search.saved>>
    BY <1>2, <2>3, StagedAs, FieldsAfter
  <2>5. Fields(d) = Fields(s) /\ R = searched
    BY <1>1, <2>1, <2>3, <2>4, StepGives
  <2>6. /\ d.stage = "types" /\ d.again = search.again /\ d.at = search.at
        /\ d.prev = search.prev /\ d.outcome = search.outcome /\ d.saved = search.saved
    BY <2>4, <2>5 DEF Fields
  <2>7. PICK m \in 0 .. Steps - 1 : m = Steps - 1 /\ m + 1 = Steps
    BY <1>2
  <2>8. Came(d, m) /\ ~d.again /\ d.outcome = "ok"
    BY <1>2, <2>1, <2>6, <2>7 DEF CoversType, Came
  <2>9. Passed(R, Cut(m + 1), {})
    BY <1>2, <2>2, <2>5, <2>7
  <2>10. d.stage \in InFileStages
    BY <2>6 DEF InFileStages
  <2>11. Within(m + 1) /\ Kind(At(Cut(m + 1))) \in TypeDeclarations
    BY <1>2, <2>7, TypeFromItself
  <2> QED BY <2>2, <2>5, <2>6, <2>8, <2>9, <2>10, <2>11 DEF CoversType
<1>4. ASSUME EnterBody PROVE CoversType(R, d, f, p)
  <2>1. search.stage = "types" /\ GoingOn(To("body", search))
    BY <1>4 DEF EnterBody, AmongTypes
  <2>2. PICK s : s = To("body", search)
    OBVIOUS
  <2>3. /\ DOMAIN s = DOMAIN Idle
        /\ Fields(s) = <<"body", search.again, search.at, search.prev, search.curr, 1,
                         search.outcome, search.saved>>
    BY <1>2, <2>2, StagedAs, FieldsAfter
  <2>4. Fields(d) = Fields(s) /\ R = searched
    BY <1>1, <2>1, <2>2, <2>3, StepGives
  <2>5. /\ d.stage = "body" /\ d.again = search.again /\ d.at = search.at /\ d.next = 1
        /\ d.prev = search.prev /\ d.outcome = search.outcome /\ d.saved = search.saved
    BY <2>3, <2>4 DEF Fields
  <2>6. PICK m \in 0 .. Steps - 1 :
          Came(search, m) /\ Passed(searched, Cut(m + 1), {}) /\ Within(m + 1)
    BY <1>2, <2>1 DEF CoversType
  <2>7. m \in 0 .. Steps
    BY <1>2
  <2>8. Begun(R, Cut(m), 1, {})
    BY <1>2, <2>7, LastCut, BegunGoesOn DEF Steps
  <2>9. Around(R, d, m, {})
    BY <2>4, <2>5, <2>6, <2>8 DEF Around, Came
  <2>10. d.stage \in InFileStages /\ search.stage \in InFileStages \ {"own"}
    BY <2>1, <2>5 DEF InFileStages
  <2>11. Within(m)
    <3>1. Kind(At(Cut(m))) \in TypeBodies
      <4>1. search.curr = At(Cut(m))
        BY <1>2, <2>6, CurrAt DEF Came
      <4> QED BY <1>4, <4>1 DEF EnterBody, AmongTypes
    <3> QED BY <1>2, <2>6, <2>7, <3>1, WithinGoesOn
  <2> QED BY <1>2, <2>1, <2>4, <2>5, <2>9, <2>10, <2>11 DEF CoversType
<1>5. ASSUME After("body") \/ After("enum")
      PROVE  \E m \in 1 .. Steps :
               /\ m \in Nat \ {0} /\ m <= Steps /\ search.at = Cut(m) /\ m \in 0 .. Steps - 1
               /\ Passed(searched, Cut(m), {}) /\ search.curr = At(Cut(m)) /\ Within(m)
               /\ WalkRight(store, Outward)
               /\ Fields(Outward) = <<search.stage, search.again, Cut(m - 1), At(Cut(m)),
                                      At(Cut(m - 1)), 1, search.outcome, search.saved>>
  BY <1>5, BodyEnds
<1>6. ASSUME EnterEnum PROVE CoversType(R, d, f, p)
  <2>1. After("body") /\ search.stage = "body" /\ GoingOn(To("enum", Outward))
    BY <1>6 DEF EnterEnum, After
  <2>2. PICK m \in 1 .. Steps :
          /\ m \in Nat \ {0} /\ Passed(searched, Cut(m), {}) /\ Within(m)
          /\ WalkRight(store, Outward)
          /\ Fields(Outward) = <<search.stage, search.again, Cut(m - 1), At(Cut(m)),
                                 At(Cut(m - 1)), 1, search.outcome, search.saved>>
    BY <1>5, <2>1
  <2>3. PICK o : o = Outward
    OBVIOUS
  <2>4. /\ o.again = search.again /\ o.at = Cut(m - 1) /\ o.prev = At(Cut(m))
        /\ o.outcome = search.outcome /\ o.saved = search.saved /\ DOMAIN o = DOMAIN Idle
    BY <2>2, <2>3 DEF Fields, WalkRight, WalkFrom, CursorRight
  <2>5. PICK s : s = To("enum", o)
    OBVIOUS
  <2>6. /\ DOMAIN s = DOMAIN Idle
        /\ Fields(s) = <<"enum", o.again, o.at, o.prev, o.curr, 1, o.outcome, o.saved>>
    BY <2>4, <2>5, StagedAs, FieldsAfter
  <2>7. Fields(d) = Fields(s) /\ R = searched
    BY <1>1, <2>1, <2>3, <2>5, <2>6, StepGives
  <2>8. /\ d.stage = "enum" /\ d.again = search.again /\ d.at = Cut(m - 1) /\ d.next = 1
        /\ d.prev = At(Cut(m)) /\ d.outcome = search.outcome /\ d.saved = search.saved
    BY <2>4, <2>6, <2>7 DEF Fields
  <2>9. Around(R, d, m - 1, {})
    BY <1>2, <2>2, <2>7, <2>8, AroundUp
  <2>10. d.stage \in InFileStages /\ search.stage \in InFileStages \ {"own"}
    BY <2>1, <2>8 DEF InFileStages
  <2>11. Within(m - 1)
    <3>1. Kind(At(Cut(m - 1))) \in TypeBodies
      BY <1>6, <2>2, <2>3 DEF EnterEnum, Fields, TypeBodies
    <3>2. m - 1 \in 0 .. Steps /\ (m - 1) + 1 = m
      BY <1>2
    <3> QED BY <1>2, <2>2, <3>1, <3>2, WithinGoesOn
  <2> QED BY <1>2, <2>1, <2>7, <2>8, <2>9, <2>10, <2>11 DEF CoversType
<1>7. ASSUME LeaveType PROVE CoversType(R, d, f, p)
  <2>1. /\ After("body") \/ After("enum")
        /\ search.stage \in {"body", "enum"} /\ Kind(Outward.curr) \in TypeDeclarations
        /\ Searching(To("types", CursorUp(store, Outward)), Outward.scout, Outward.at)
    BY <1>7 DEF LeaveType, After
  <2>2. PICK m \in 1 .. Steps :
          /\ m \in Nat \ {0} /\ Passed(searched, Cut(m), {}) /\ m \in 0 .. Steps - 1
          /\ Within(m) /\ WalkRight(store, Outward)
          /\ Fields(Outward) = <<search.stage, search.again, Cut(m - 1), At(Cut(m)),
                                 At(Cut(m - 1)), 1, search.outcome, search.saved>>
    BY <1>5, <2>1
  <2>3. PICK o : o = Outward /\ WalkRight(store, o)
    BY <2>2
  <2>4. /\ o.again = search.again /\ o.at = Cut(m - 1) /\ o.curr = At(Cut(m - 1))
        /\ o.outcome = search.outcome /\ o.saved = search.saved
    BY <2>2, <2>3 DEF Fields
  <2>5. PICK k \in Nat : k = m - 1 /\ k \in 0 .. Steps /\ k <= Steps
    BY <1>2, <2>2
  <2>6. k \in Nat \ {0} /\ k \in 1 .. Steps
    <3>1. Kind(At(Cut(k))) \notin DirKinds
      BY <2>1, <2>3, <2>4, <2>5, KindsBelow
    <3> QED BY <1>2, <2>5, <3>1, CutNotRoot
  <2>7. PICK u : u = CursorUp(store, o)
    OBVIOUS
  <2>8. /\ Fields(u) = <<o.stage, o.again, Cut(k - 1), At(Cut(k)), At(Cut(k - 1)), 1,
                         o.outcome, o.saved>>
        /\ WalkRight(store, u)
    BY <1>2, <2>3, <2>4, <2>5, <2>6, <2>7, FieldsUp
  <2>9. /\ u.again = search.again /\ u.at = Cut(k - 1) /\ u.prev = At(Cut(k))
        /\ u.outcome = search.outcome /\ u.saved = search.saved /\ DOMAIN u = DOMAIN Idle
    BY <2>4, <2>8 DEF Fields, WalkRight, WalkFrom, CursorRight
  <2>10. PICK s : s = To("types", u)
    OBVIOUS
  <2>11. /\ DOMAIN s = DOMAIN Idle
         /\ Fields(s) = <<"types", u.again, u.at, u.prev, u.curr, 1, u.outcome, u.saved>>
    BY <2>9, <2>10, StagedAs, FieldsAfter
  <2>12. PICK place, trail : Searching(s, place, trail) /\ trail = Cut(k)
    BY <2>1, <2>3, <2>4, <2>5, <2>7, <2>10
  <2>13. Fields(d) = Fields(s) /\ R = searched \cup {trail}
    BY <1>1, <2>11, <2>12, StepGives
  <2>14. /\ d.stage = "types" /\ d.again = search.again /\ d.at = Cut(k - 1)
         /\ d.prev = At(Cut(k)) /\ d.outcome = search.outcome /\ d.saved = search.saved
    BY <2>9, <2>11, <2>13 DEF Fields
  <2>15. searched \subseteq R /\ Cut(k) \in R
    BY <2>12, <2>13
  <2>16. /\ \A t, X : Passed(searched, t, X) => Passed(R, t, X)
         /\ Passed(R, Cut(k), {})
    BY <2>15, GivenStays, GivenIsPassed
  <2>17. PICK j \in 0 .. Steps - 1 : j = k - 1 /\ j + 1 = k
    BY <1>2, <2>5, <2>6
  <2>18. Came(d, j) /\ Passed(R, Cut(j + 1), {})
    BY <2>14, <2>16, <2>17 DEF Came
  <2>19. d.stage \in InFileStages /\ search.stage \in InFileStages \ {"own"}
    BY <2>1, <2>14 DEF InFileStages
  <2>20. Within(j + 1) /\ Kind(At(Cut(j + 1))) \in TypeDeclarations
    <3>1. Kind(At(Cut(k))) \in TypeDeclarations
      BY <2>1, <2>3, <2>4, <2>5
    <3>2. k + 1 = m
      BY <2>5
    <3> QED BY <1>2, <2>2, <2>5, <2>17, <3>1, <3>2, WithinGoesOn
  <2> QED BY <1>2, <2>1, <2>14, <2>16, <2>18, <2>19, <2>20 DEF CoversType
<1> QED BY <1>1, <1>3, <1>4, <1>6, <1>7

\* The last step of the trail, and the children of a place, are numbers.
LEMMA LastOfTrail ==
  ASSUME tree \in DOMAIN Trees, Way(decl), Steps \in Nat \ {0}, NEW m \in 0 .. Steps - 1,
         ~(Last(decl).offset <= Len(Children(At(Cut(m)))))
  PROVE  Len(Children(At(Cut(m)))) < Last(TrailOf(decl))
<1>1. /\ TrailOf(decl) \in Seq(Nat) /\ Len(decl) = Steps + 1 /\ Len(TrailOf(decl)) = Steps
      /\ \A i \in 1 .. Steps : TrailOf(decl)[i] = decl[i + 1].offset
  <2>1. /\ TrailOf(decl) \in Seq(Nat) /\ Len(TrailOf(decl)) = Len(decl) - 1
        /\ \A i \in 1 .. Len(decl) - 1 : TrailOf(decl)[i] = decl[i + 1].offset
    BY TrailFacts
  <2>2. Len(decl) = Steps + 1
    BY LastCut DEF Steps
  <2>3. Len(decl) - 1 = Steps
    BY <2>2
  <2> QED BY <2>1, <2>2, <2>3
<1>2. Steps \in 1 .. Steps
  OBVIOUS
<1>3. Last(TrailOf(decl)) = Last(decl).offset /\ Last(TrailOf(decl)) \in Nat
  BY <1>1, <1>2, ElementOfSeq DEF Last
<1>4. Len(Children(At(Cut(m)))) \in Nat
  <2>1. m \in 0 .. Steps
    OBVIOUS
  <2>2. Children(At(Cut(m))) \in Seq(Nodes)
    BY <2>1, CutsGoOn, ChildrenAreNodes
  <2> QED BY <2>2, LenProperties
<1> QED BY <1>3, <1>4

\* The walk ends in the body of a creation, in a block, and at a package.
LEMMA TypeIsBlocked ==
  ASSUME NEW f, NEW p, TypeWalking(f, p),
         LeaveCreation \/ LeaveBlockOfType \/ LeavePackageNameless
  PROVE  CoversType(searched', search', f, p)
<1>1. PICK R, d : R = searched' /\ d = search'
  OBVIOUS
<1>2. /\ tree \in DOMAIN Trees /\ Way(decl) /\ WalkRight(store, search)
      /\ SearchRight(store, search) /\ DOMAIN search = DOMAIN Idle
      /\ Steps \in Nat \ {0} /\ Searches /\ CoversType(searched, search, f, p)
  BY TypeWalkingFacts DEF TypeWalking
<1>3. PICK s : s = Over("blocked") /\ s = [search EXCEPT !.stage = "over", !.outcome = "blocked"]
  BY DEF Over
<1>4. /\ DOMAIN s = DOMAIN Idle
      /\ Fields(s) = <<"over", search.again, search.at, search.prev, search.curr,
                       search.next, "blocked", search.saved>>
  BY <1>2, <1>3, OverAs, FieldsAfter
<1>5. ASSUME Fields(d) = Fields(s), searched \subseteq R, TypeBlocked(R)
      PROVE  CoversType(R, d, f, p)
  <2>1. /\ d.stage = "over" /\ d.again = search.again /\ d.outcome = "blocked"
        /\ d.saved = search.saved
    BY <1>4, <1>5 DEF Fields
  <2>2. \A t, X : Passed(searched, t, X) => Passed(R, t, X)
    BY <1>5, GivenStays
  <2>3. d.stage \notin InFileStages
    BY <2>1 DEF InFileStages
  <2> QED BY <1>2, <1>5, <2>1, <2>2, <2>3 DEF CoversType
<1>6. CASE LeaveCreation
  <2>1. /\ search.stage = "body" /\ ~MoreToScan /\ GoingOn(s)
        /\ Kind(Outward.curr) = "ObjectCreationExpression"
    BY <1>3, <1>6 DEF LeaveCreation, After
  <2>2. PICK m : Around(searched, search, m, {}) /\ Within(m)
    BY <1>2, <2>1 DEF CoversType
  <2>3. search.at = Cut(m) /\ search.curr = At(Cut(m)) /\ m \in 0 .. Steps - 1
    BY <1>2, <2>2, CurrAt DEF Around, Came
  <2>4. Kind(At(Cut(m))) \in TypeBodies
    BY <1>2, <2>1, <2>3 DEF SearchRight
  <2>5. m \in Nat \ {0} /\ m \in 1 .. Steps /\ m <= Steps
    <3>1. m \in 0 .. Steps
      BY <1>2, <2>3
    <3>2. Kind(At(Cut(m))) \notin DirKinds
      BY <2>4, KindsBelow
    <3> QED BY <1>2, <3>1, <3>2, CutNotRoot
  <2>6. Passed(searched, Cut(m), {})
    BY <1>2, <2>1, <2>2, ScanEnds
  <2>7. Outward.curr = At(Cut(m - 1))
    BY <1>2, <2>3, <2>5, UpAt DEF Outward, Steps
  <2>8. Kind(At(Cut(m))) = "ClassBody"
    BY <1>2, <2>1, <2>4, <2>5, <2>7, GrammarAround
  <2>9. Cut(m) # << >> /\ Front(Cut(m)) = Cut(m - 1)
    <3>1. m \in Nat /\ m # 0 /\ m <= Len(TrailOf(decl))
      BY <2>5 DEF Steps
    <3> QED BY <1>2, <3>1, CutFacts
  <2>10. IsInnards(Cut(m))
    BY <2>1, <2>7, <2>8, <2>9 DEF IsInnards
  <2>11. PICK k \in 0 .. Steps - 1 : k = m - 1 /\ k + 1 = m
    BY <1>2, <2>5
  <2>12. TypeBlocked(searched)
    BY <2>1, <2>2, <2>6, <2>7, <2>10, <2>11 DEF TypeBlocked
  <2>13. Fields(d) = Fields(s) /\ R = searched
    BY <1>1, <1>4, <2>1, StepGives
  <2> QED BY <1>1, <1>5, <2>12, <2>13
<1>7. CASE LeaveBlockOfType
  <2>1. search.stage = "types" /\ Kind(search.curr) \in Blockers
    BY <1>7 DEF LeaveBlockOfType, AmongTypes
  <2>2. PICK m \in 0 .. Steps - 1 :
          /\ Came(search, m) /\ Passed(searched, Cut(m + 1), {})
          /\ Within(m + 1) /\ Kind(At(Cut(m + 1))) \in TypeDeclarations
    BY <1>2, <2>1 DEF CoversType
  <2>3. search.at = Cut(m) /\ search.curr = At(Cut(m))
    BY <1>2, <2>2, CurrAt DEF Came
  <2>4. Kind(At(Cut(m))) \in Innards
    <3>1. m + 1 \in 1 .. Steps /\ (m + 1) - 1 = m
      BY <1>2, <2>2
    <3>2. Kind(At(Cut(m))) # "ObjectCreationExpression"
      <4>1. Kind(At(Cut(m + 1))) # "ClassBody"
        BY <2>2 DEF TypeDeclarations
      <4>2. Kind(At(Cut((m + 1) - 1))) = "ObjectCreationExpression" =>
              (Kind(At(Cut(m + 1))) \in TypeBodies \cup TypeDeclarations =>
                 Kind(At(Cut(m + 1))) = "ClassBody")
        BY <1>2, <3>1, GrammarAround
      <4> QED BY <2>2, <3>1, <4>1, <4>2
    <3> QED BY <2>1, <2>3, <3>2 DEF Blockers
  <2>5. CASE Last(decl).offset <= Len(Children(search.curr))
    <3>1. PICK place, trail : Searching(s, place, trail) /\ trail = Cut(m)
      BY <1>3, <1>7, <2>3, <2>4, <2>5 DEF LeaveBlockOfType
    <3>2. Fields(d) = Fields(s) /\ R = searched \cup {trail}
      BY <1>1, <1>4, <3>1, StepGives
    <3>3. Passed(R, Cut(m), {})
      BY <3>1, <3>2, GivenIsPassed
    <3>4. Passed(R, Cut(m + 1), {})
      BY <2>2, <3>2, GivenStays
    <3>5. TypeBlocked(R)
      BY <2>2, <2>4, <3>3, <3>4 DEF TypeBlocked
    <3> QED BY <1>1, <1>5, <3>2, <3>5
  <2>6. CASE ~(Last(decl).offset <= Len(Children(search.curr)))
    <3>1. GoingOn(s)
      BY <1>3, <1>7, <2>6 DEF LeaveBlockOfType
    <3>2. Fields(d) = Fields(s) /\ R = searched
      BY <1>1, <1>4, <3>1, StepGives
    <3>3. Len(Children(At(Cut(m)))) < Last(TrailOf(decl))
      BY <1>2, <2>2, <2>3, <2>6, LastOfTrail
    <3>4. TypeBlocked(R)
      BY <2>2, <2>4, <3>2, <3>3 DEF TypeBlocked
    <3> QED BY <1>1, <1>5, <3>2, <3>4
  <2> QED BY <2>5, <2>6
<1>8. CASE LeavePackageNameless
  <2>1. search.stage = "program" /\ NamelessPackage(Child) /\ MoreToScan /\ GoingOn(s)
    BY <1>3, <1>8 DEF LeavePackageNameless, Blocking
  <2>2. search.at = Cut(p) /\ Passed(searched, Cut(p + 1), {}) /\ Within(p + 1)
    BY <1>2, <2>1 DEF CoversType
  <2>3. p \in 0 .. Steps - 1 /\ Kind(At(Cut(p))) = "Program"
    BY TypeWalkingFacts
  <2>4. Child \in ToSet(Children(At(Cut(p))))
    <3>1. Scanned = At(Cut(p))
      BY <1>2, <2>1, <2>2, CurrAt DEF Scanned, OfDecl
    <3>2. search.next \in DOMAIN Children(Scanned)
      BY <1>2, <2>1, NextIsChild
    <3> QED BY <3>1, <3>2 DEF Child, ToSet
  <2>5. Fields(d) = Fields(s) /\ R = searched
    BY <1>1, <1>4, <2>1, StepGives
  <2>6. TypeBlocked(R)
    BY <2>1, <2>2, <2>3, <2>4, <2>5 DEF TypeBlocked
  <2> QED BY <1>1, <1>5, <2>5, <2>6
<1> QED BY <1>6, <1>7, <1>8

\* The file is passed twice, the second time with the saved cursor.
LEMMA TypePassesFile ==
  ASSUME NEW f, NEW p, TypeWalking(f, p), EnterProgram \/ LeaveProgram
  PROVE  CoversType(searched', search', f, p)
<1>1. PICK R, d : R = searched' /\ d = search'
  OBVIOUS
<1>2. /\ tree \in DOMAIN Trees /\ Way(decl) /\ WalkRight(store, search)
      /\ SearchRight(store, search) /\ DOMAIN search = DOMAIN Idle
      /\ Steps \in Nat \ {0} /\ p \in 1 .. Steps - 1 /\ p \in Nat \ {0}
      /\ Searches /\ CoversType(searched, search, f, p)
  BY TypeWalkingFacts DEF TypeWalking
<1>3. p \in 0 .. Steps /\ p - 1 \in 0 .. p - 1 /\ p <= Steps /\ Cut(p) \in Trails
  <2>1. p \in 0 .. Steps /\ p - 1 \in 0 .. p - 1 /\ p <= Steps
    BY <1>2
  <2> QED BY <1>2, <2>1, LastCut DEF Steps
<1>4. CASE EnterProgram /\ ~search.again
  <2>1. /\ search.stage = "types" /\ Kind(search.curr) = "Program"
        /\ GoingOn(To("program", search))
    BY <1>4 DEF EnterProgram, AmongTypes
  <2>2. PICK m \in 0 .. Steps - 1 :
          Came(search, m) /\ Passed(searched, Cut(m + 1), {}) /\ Within(m + 1)
    BY <1>2, <2>1 DEF CoversType
  <2>3. search.at = Cut(m) /\ search.curr = At(Cut(m)) /\ m \in 0 .. Steps
    BY <1>2, <2>2, CurrAt DEF Came
  <2>4. search.at = Cut(p) /\ Passed(searched, Cut(p + 1), {}) /\ Within(p + 1)
    BY <2>1, <2>2, <2>3, TypeWalkingFacts
  <2>5. PICK s : s = To("program", search)
    OBVIOUS
  <2>6. /\ DOMAIN s = DOMAIN Idle
        /\ Fields(s) = <<"program", search.again, search.at, search.prev, search.curr, 1,
                         search.outcome, search.saved>>
    BY <1>2, <2>5, StagedAs, FieldsAfter
  <2>7. Fields(d) = Fields(s) /\ R = searched
    BY <1>1, <2>1, <2>5, <2>6, StepGives
  <2>8. /\ d.stage = "program" /\ ~d.again /\ d.at = Cut(p) /\ d.next = 1
        /\ d.outcome = search.outcome
    BY <1>4, <2>4, <2>6, <2>7 DEF Fields
  <2>9. Begun(R, Cut(p), 1, NotTypes(p))
    BY <1>2, <1>3, BegunGoesOn
  <2>10. d.stage \in InFileStages /\ search.stage \in InFileStages \ {"own"}
    BY <2>1, <2>8 DEF InFileStages
  <2> QED BY <1>1, <1>2, <2>1, <2>4, <2>7, <2>8, <2>9, <2>10 DEF CoversType
<1>5. CASE EnterProgram /\ search.again
  <2>1. /\ search.stage = "types"
        /\ GoingOn(To("package", [search.saved[1] EXCEPT !.matches = search.matches]))
    BY <1>5 DEF EnterProgram, AmongTypes
  <2>2. PICK saved : saved = search.saved[1]
    OBVIOUS
  <2>3. /\ DOMAIN saved = DOMAIN Idle /\ ~saved.again
        /\ Came(saved, p - 1) /\ saved.outcome = "ok" /\ Passed(searched, Cut(p), NotTypes(p))
        /\ Within(p + 1)
    BY <1>2, <1>5, <2>1, <2>2 DEF SearchRight, WalkRight, WalkFrom, CursorAround, CursorRight,
                                  CoversType
  <2>4. PICK back : back = [saved EXCEPT !.matches = search.matches]
    OBVIOUS
  <2>5. Fields(back) = Fields(saved) /\ DOMAIN back = DOMAIN Idle
    BY <2>3, <2>4, FieldsAfter
  <2>6. PICK s : s = To("package", back)
    OBVIOUS
  <2>7. /\ DOMAIN s = DOMAIN Idle
        /\ Fields(s) = <<"package", back.again, back.at, back.prev, back.curr, 1,
                         back.outcome, back.saved>>
    BY <2>5, <2>6, StagedAs, FieldsAfter
  <2>8. Fields(d) = Fields(s) /\ R = searched
    BY <1>1, <2>1, <2>2, <2>4, <2>6, <2>7, StepGives
  <2>9. /\ d.stage = "package" /\ ~d.again /\ d.at = saved.at /\ d.prev = saved.prev
        /\ d.next = 1 /\ d.outcome = "ok"
    BY <2>3, <2>5, <2>7, <2>8 DEF Fields
  <2>10. Passed(R, Cut(p), Covered(Cut(p)))
    BY DEF Passed
  <2>11. p \in 1 .. Steps /\ d.at = Cut(p - 1) /\ d.prev = At(Cut(p))
    <3>1. (p - 1) + 1 = p
      BY <1>2
    <3> QED BY <1>2, <2>3, <2>9, <3>1 DEF Came
  <2>12. Around(R, d, p - 1, Covered(Cut(p)))
    BY <1>2, <2>9, <2>10, <2>11, AroundUp
  <2>13. d.stage \notin InFileStages
    BY <2>9 DEF InFileStages
  <2> QED BY <1>1, <1>3, <2>3, <2>8, <2>9, <2>12, <2>13 DEF CoversType
<1>6. CASE LeaveProgram
  <2>1. PICK above, out : above = CursorAbove(store, search, ScoutOf(decl)) /\ out = Outward
    OBVIOUS
  <2>2. PICK s : s = [above EXCEPT !.stage = "types", !.again = TRUE, !.saved = <<out>>]
    OBVIOUS
  <2>3. search.stage = "program" /\ ~MoreToScan /\ GoingOn(s)
    BY <1>6, <2>1, <2>2 DEF LeaveProgram, After
  <2>4. /\ search.at = Cut(p) /\ Begun(searched, Cut(p), search.next, NotTypes(p))
        /\ Within(p + 1)
    BY <1>2, <2>3 DEF CoversType
  <2>5. Passed(searched, Cut(p), NotTypes(p))
    <3>1. search.curr = At(Cut(p))
      BY <1>2, <2>4, CurrAt
    <3>2. ~(search.next <= Len(Children(search.curr)))
      BY <2>3 DEF MoreToScan, Scanned, OfDecl
    <3>3. search.next \in Nat /\ Children(search.curr) # << >>
      BY <1>2 DEF WalkRight, WalkFrom, CursorRight
    <3> QED BY <1>2, <1>3, <2>4, <3>1, <3>2, <3>3, BegunEnds
  <2>6. /\ Fields(out) = <<search.stage, search.again, Cut(p - 1), At(Cut(p)),
                           At(Cut(p - 1)), 1, search.outcome, search.saved>>
        /\ WalkRight(store, out)
    BY <1>2, <1>3, <2>1, <2>4, FieldsUp DEF Outward
  <2>7. Came(out, p - 1) /\ out.outcome = "ok"
    <3>1. (p - 1) + 1 = p
      BY <1>2
    <3>2. out.at = Cut(p - 1) /\ out.prev = At(Cut(p)) /\ out.outcome = search.outcome
      BY <2>6 DEF Fields
    <3> QED BY <1>2, <2>3, <3>1, <3>2 DEF Came, CoversType
  <2>8. /\ Fields(above) = <<search.stage, search.again, Cut(Steps - 1), At(Cut(Steps)),
                             At(Cut(Steps - 1)), 1, search.outcome, search.saved>>
        /\ WalkRight(store, above)
    <3>1. /\ StandsAt(store, ScoutOf(decl), TrailOf(decl))
          /\ NodeAlways(store, ScoutOf(decl)) = NodeOf(decl) /\ NodeOf(decl) # Root
      BY <1>2, ScoutOfStands DEF Searches
    <3> QED BY <1>2, <2>1, <3>1, FieldsAbove
  <2>9. above.at = Cut(Steps - 1) /\ above.prev = At(Cut(Steps)) /\ above.outcome = "ok"
        /\ DOMAIN above = DOMAIN Idle
    <3>1. search.outcome = "ok"
      BY <1>2, <2>3 DEF CoversType
    <3> QED BY <2>8, <3>1 DEF Fields, WalkRight, WalkFrom, CursorRight
  <2>10. /\ Fields(s) = <<"types", TRUE, above.at, above.prev, above.curr, above.next,
                          above.outcome, <<out>>>>
         /\ DOMAIN s = DOMAIN Idle
    BY <2>2, <2>9, FieldsAfter
  <2>11. Fields(d) = Fields(s) /\ R = searched
    BY <1>1, <2>3, <2>10, StepGives
  <2>12. /\ d.stage = "types" /\ d.again = TRUE /\ d.at = Cut(Steps - 1)
         /\ d.prev = At(Cut(Steps)) /\ d.outcome = "ok" /\ d.saved = <<out>>
    BY <2>9, <2>10, <2>11 DEF Fields
  <2>13. d.saved[1] = out
    BY <2>12
  <2>14. Passed(R, TrailOf(decl), {})
    <3>1. search.stage \in InFileStages \ {"own"}
      BY <2>3 DEF InFileStages
    <3> QED BY <1>2, <2>11, <3>1 DEF CoversType
  <2>15. PICK m \in 0 .. Steps - 1 : m = Steps - 1 /\ m + 1 = Steps
    BY <1>2
  <2>16. Came(d, m) /\ Passed(R, Cut(m + 1), {})
    <3>1. Cut(Steps) = TrailOf(decl)
      BY <1>2, LastCut DEF Steps
    <3> QED BY <2>12, <2>14, <2>15, <3>1 DEF Came
  <2>17. d.stage \in InFileStages
    BY <2>12 DEF InFileStages
  <2>18. Within(m + 1) /\ Kind(At(Cut(m + 1))) \in TypeDeclarations
    <3>1. IsType
      BY DEF TypeWalking
    <3> QED BY <1>2, <2>15, <3>1, TypeFromItself
  <2> QED BY <1>1, <2>4, <2>5, <2>7, <2>11, <2>12, <2>13, <2>14, <2>16, <2>17, <2>18
          DEF CoversType
<1> QED BY <1>4, <1>5, <1>6

\* Through the directories, to the folder.
LEMMA TypeLeavesDirectory ==
  ASSUME NEW f, NEW p, TypeWalking(f, p), LeavePackage \/ LeaveDirectories
  PROVE  CoversType(searched', search', f, p)
<1>1. PICK R, d : R = searched' /\ d = search'
  OBVIOUS
<1>2. /\ tree \in DOMAIN Trees /\ Way(decl) /\ WalkRight(store, search)
      /\ DOMAIN search = DOMAIN Idle
      /\ Steps \in Nat \ {0} /\ p \in 1 .. Steps - 1 /\ p \in Nat \ {0} /\ f \in Nat
      /\ Searches /\ CoversType(searched, search, f, p)
  BY TypeWalkingFacts DEF TypeWalking
<1>3. search.stage \in {"package", "directories"} /\ ~MoreToScan
  BY DEF LeavePackage, LeaveDirectories, After
<1>4. PICK X : X = Covered(Cut(p))
  OBVIOUS
<1>5. PICK m \in 0 .. p - 1 : Around(searched, search, m, X)
  BY <1>2, <1>3, <1>4 DEF CoversType
<1>6. /\ search.at = Cut(m) /\ search.curr = At(Cut(m)) /\ search.prev = At(Cut(m + 1))
      /\ m \in 0 .. Steps
  BY <1>2, <1>5, CurrAt DEF Around, Came
<1>7. Passed(searched, Cut(m), X)
  BY <1>2, <1>3, <1>5, ScanEnds
<1>8. Passed(searched, Cut(p), NotTypes(p)) /\ search.outcome = "ok" /\ Within(p + 1)
  BY <1>2, <1>3 DEF CoversType
<1>9. ASSUME GoingOn(NextDirectory) PROVE CoversType(R, d, f, p)
  <2>1. CASE Outward.curr = 0
    <3>1. PICK s : s = Over("nomore") /\ s = [search EXCEPT !.stage = "over", !.outcome = "nomore"]
      BY DEF Over
    <3>2. /\ DOMAIN s = DOMAIN Idle
          /\ Fields(s) = <<"over", search.again, search.at, search.prev, search.curr,
                           search.next, "nomore", search.saved>>
      BY <1>2, <3>1, OverAs, FieldsAfter
    <3>3. GoingOn(s)
      BY <1>9, <2>1, <3>1 DEF NextDirectory
    <3>4. Fields(d) = Fields(s) /\ R = searched
      BY <1>1, <3>2, <3>3, StepGives
    <3>5. d.stage = "over" /\ d.again = search.again /\ d.outcome = "nomore"
          /\ d.saved = search.saved
      BY <3>2, <3>4 DEF Fields
    <3>6. d.stage \notin InFileStages
      BY <3>5 DEF InFileStages
    <3> QED BY <1>2, <1>8, <3>4, <3>5, <3>6 DEF CoversType
  <2>2. CASE Outward.curr # 0
    <3>1. m # 0
      <4>1. SUFFICES ASSUME m = 0 PROVE FALSE
        OBVIOUS
      <4>2. search.at = << >>
        <5>1. Len(Cut(0)) = 0 /\ Cut(0) \in Seq(Nat)
          <6>1. 0 \in Nat /\ 0 <= Len(TrailOf(decl))
            BY <1>2 DEF Steps
          <6> QED BY <1>2, <6>1, CutFacts
        <5> QED BY <1>6, <4>1, <5>1, EmptySeq
      <4>3. ~HasParents(search.scout)
        BY <1>2, <4>2, StandsAtTrail DEF WalkRight, WalkFrom, CursorRight
      <4>4. Outward.curr = 0
        BY <1>2, <4>3, CursorUpRight DEF Outward
      <4> QED BY <2>2, <4>4
    <3>2. m \in Nat \ {0} /\ m <= Steps /\ m \in 1 .. Steps /\ m - 1 \in 0 .. p - 1
      BY <1>2, <1>5, <3>1
    <3>3. PICK o : o = Outward
      OBVIOUS
    <3>4. /\ Fields(o) = <<search.stage, search.again, Cut(m - 1), At(Cut(m)),
                           At(Cut(m - 1)), 1, search.outcome, search.saved>>
          /\ WalkRight(store, o)
      BY <1>2, <1>6, <3>2, <3>3, FieldsUp DEF Outward
    <3>5. /\ o.again = search.again /\ o.at = Cut(m - 1) /\ o.prev = At(Cut(m))
          /\ o.outcome = search.outcome /\ o.saved = search.saved /\ DOMAIN o = DOMAIN Idle
      BY <3>4 DEF Fields, WalkRight, WalkFrom, CursorRight
    <3>6. PICK s : s = To("directories", o)
      OBVIOUS
    <3>7. /\ DOMAIN s = DOMAIN Idle
          /\ Fields(s) = <<"directories", o.again, o.at, o.prev, o.curr, 1, o.outcome, o.saved>>
      BY <3>5, <3>6, StagedAs, FieldsAfter
    <3>8. GoingOn(s)
      BY <1>9, <2>2, <3>3, <3>6 DEF NextDirectory
    <3>9. Fields(d) = Fields(s) /\ R = searched
      BY <1>1, <3>7, <3>8, StepGives
    <3>10. /\ d.stage = "directories" /\ d.again = search.again /\ d.at = Cut(m - 1)
           /\ d.prev = At(Cut(m)) /\ d.next = 1 /\ d.outcome = "ok" /\ d.saved = search.saved
      BY <1>8, <3>5, <3>7, <3>9 DEF Fields
    <3>11. Around(R, d, m - 1, X)
      BY <1>2, <1>7, <3>2, <3>9, <3>10, AroundUp
    <3>12. d.stage \notin InFileStages
      BY <3>10 DEF InFileStages
    <3> QED BY <1>2, <1>4, <1>8, <3>2, <3>9, <3>10, <3>11, <3>12 DEF CoversType
  <2> QED BY <2>1, <2>2
<1>10. ASSUME search.curr = Limit, GoingOn(To("folders", search)) PROVE CoversType(R, d, f, p)
  <2>1. m = f
    BY <1>6, <1>10, TypeWalkingFacts
  <2>2. PICK s : s = To("folders", search)
    OBVIOUS
  <2>3. /\ DOMAIN s = DOMAIN Idle
        /\ Fields(s) = <<"folders", search.again, search.at, search.prev, search.curr, 1,
                         search.outcome, search.saved>>
    BY <1>2, <2>2, StagedAs, FieldsAfter
  <2>4. Fields(d) = Fields(s) /\ R = searched
    BY <1>1, <1>10, <2>2, <2>3, StepGives
  <2>5. /\ d.stage = "folders" /\ d.again = search.again /\ d.prev = search.prev
        /\ d.next = 1 /\ d.outcome = "ok" /\ d.saved = search.saved
    BY <1>8, <2>3, <2>4 DEF Fields
  <2>6. OtherBegun(R, f, 1)
    BY DEF OtherBegun
  <2>7. d.stage \notin InFileStages
    BY <2>5 DEF InFileStages
  <2> QED BY <1>2, <1>4, <1>6, <1>7, <1>8, <2>1, <2>4, <2>5, <2>6, <2>7 DEF CoversType
<1>11. \/ GoingOn(NextDirectory)
       \/ search.curr = Limit /\ GoingOn(To("folders", search))
  BY DEF LeavePackage, LeaveDirectories
<1> QED BY <1>1, <1>9, <1>10, <1>11

\* The other folder, for each of its children.
LEMMA TypeInOther ==
  ASSUME NEW f, NEW p, TypeWalking(f, p), SearchFolder \/ SkipFolder \/ LeaveFolders
  PROVE  CoversType(searched', search', f, p)
<1>1. PICK R, d : R = searched' /\ d = search'
  OBVIOUS
<1>2. /\ DOMAIN search = DOMAIN Idle /\ search.next \in Nat \ {0}
      /\ CoversType(searched, search, f, p) /\ search.stage = "folders"
  BY TypeWalkingFacts DEF TypeWalking, WalkRight, WalkFrom, CursorRight, SearchFolder,
                          SkipFolder, LeaveFolders, AmongOthers
<1>3. /\ search.prev = At(Cut(f + 1)) /\ Passed(searched, Cut(f), Covered(Cut(p)))
      /\ OtherBegun(searched, f, search.next) /\ Passed(searched, Cut(p), NotTypes(p))
      /\ search.outcome = "ok" /\ Within(p + 1)
  BY <1>2 DEF CoversType
<1>4. PICK k \in Nat \ {0} : k = search.next
  BY <1>2
<1>5. ASSUME Fields(d) = <<search.stage, search.again, search.at, search.prev,
                           search.curr, k + 1, search.outcome, search.saved>>,
             searched \subseteq R, OtherBegun(R, f, k + 1)
      PROVE  CoversType(R, d, f, p)
  <2>1. /\ d.stage = "folders" /\ d.again = search.again /\ d.prev = search.prev
        /\ d.next = k + 1 /\ d.outcome = "ok" /\ d.saved = search.saved
    BY <1>2, <1>3, <1>5 DEF Fields
  <2>2. \A t, X : Passed(searched, t, X) => Passed(R, t, X)
    BY <1>5, GivenStays
  <2>3. d.stage \notin InFileStages
    BY <2>1 DEF InFileStages
  <2> QED BY <1>2, <1>3, <1>5, <2>1, <2>2, <2>3 DEF CoversType
<1>6. PICK t : t = [search EXCEPT !.next = @ + 1]
  OBVIOUS
<1>7. /\ DOMAIN t = DOMAIN Idle
      /\ Fields(t) = <<search.stage, search.again, search.at, search.prev,
                       search.curr, k + 1, search.outcome, search.saved>>
  BY <1>2, <1>4, <1>6, FieldsAfter
<1>8. CASE SearchFolder
  <2>1. PICK place, trail : /\ trail = TrailOf(folders[1].others[1])
                            /\ Searching(t, place, trail)
    BY <1>6, <1>8 DEF SearchFolder
  <2>2. Fields(d) = Fields(t) /\ R = searched \cup {trail}
    BY <1>1, <1>7, <2>1, StepGives
  <2>3. OtherBegun(R, f, k + 1)
    BY <2>1, <2>2 DEF OtherBegun
  <2> QED BY <1>1, <1>5, <1>7, <2>2, <2>3
<1>9. CASE SkipFolder
  <2>1. GoingOn(t) /\ OtherChild = search.prev
    BY <1>6, <1>9 DEF SkipFolder
  <2>2. Fields(d) = Fields(t) /\ R = searched
    BY <1>1, <1>7, <2>1, StepGives
  <2>3. OtherBegun(R, f, k + 1)
    <3>1. SUFFICES ASSUME folders[1].others # << >>,
                          NEW o \in 1 .. Len(Children(NodeOf(folders[1].others[1]))), o < k + 1
                   PROVE  \/ TrailOf(folders[1].others[1]) \in R
                          \/ Children(NodeOf(folders[1].others[1]))[o] = At(Cut(f + 1))
      BY DEF OtherBegun
    <3>2. CASE o = k
      BY <1>3, <1>4, <2>1, <3>2 DEF OtherChild
    <3>3. CASE o # k
      <4>1. o \in Nat
        OBVIOUS
      <4>2. o < k
        BY <3>1, <3>3, <4>1
      <4> QED BY <1>3, <1>4, <2>2, <3>1, <4>2 DEF OtherBegun
    <3> QED BY <3>2, <3>3
  <2> QED BY <1>1, <1>5, <1>7, <2>2, <2>3
<1>10. CASE LeaveFolders
  <2>1. PICK s : s = Over("ok") /\ s = [search EXCEPT !.stage = "over", !.outcome = "ok"]
    BY DEF Over
  <2>2. /\ DOMAIN s = DOMAIN Idle
        /\ Fields(s) = <<"over", search.again, search.at, search.prev, search.curr,
                         search.next, "ok", search.saved>>
    BY <1>2, <2>1, OverAs, FieldsAfter
  <2>3. GoingOn(s) /\ (folders[1].others # << >> =>
                         k > Len(Children(NodeOf(folders[1].others[1]))))
    BY <1>4, <1>10, <2>1 DEF LeaveFolders
  <2>4. Fields(d) = Fields(s) /\ R = searched
    BY <1>1, <2>2, <2>3, StepGives
  <2>5. d.stage = "over" /\ d.again = search.again /\ d.outcome = "ok" /\ d.saved = search.saved
    BY <2>2, <2>4 DEF Fields
  <2>6. OtherPassed(R, f)
    <3>1. SUFFICES ASSUME folders[1].others # << >>,
                          NEW o \in 1 .. Len(Children(NodeOf(folders[1].others[1])))
                   PROVE  \/ TrailOf(folders[1].others[1]) \in R
                          \/ Children(NodeOf(folders[1].others[1]))[o] = At(Cut(f + 1))
      BY DEF OtherPassed
    <3>2. PICK n : n = Len(Children(NodeOf(folders[1].others[1])))
      OBVIOUS
    <3>3. n \in Nat /\ o \in 1 .. n /\ k > n
      <4>1. Children(NodeOf(folders[1].others[1])) \in Seq(Nodes)
        <5>1. folders \in Seq(Folders) /\ folders # << >> /\ tree \in DOMAIN Trees
          BY DEF TypeWalking, Searches
        <5>2. 1 \in 1 .. Len(folders)
          BY <5>1, EmptySeq, LenProperties
        <5>3. folders[1].others \in Seq(Ways)
          <6>1. folders[1] \in Folders
            BY <5>1, <5>2, ElementOfSeq
          <6> QED BY <6>1 DEF Folders
        <5>4. 1 \in 1 .. Len(folders[1].others)
          BY <3>1, <5>3, EmptySeq, LenProperties
        <5>5. Way(folders[1].others[1])
          BY <5>3, <5>4, ElementOfSeq DEF Ways
        <5> QED BY <5>1, <5>5, WayEnds, ChildrenAreNodes
      <4> QED BY <2>3, <3>1, <3>2, <4>1, LenProperties
    <3>4. o < k
      BY <3>3
    <3> QED BY <1>3, <1>4, <2>4, <3>1, <3>4 DEF OtherBegun
  <2>7. TypeKnown(R, f, p)
    BY <1>3, <2>4, <2>6 DEF TypeKnown
  <2>8. d.stage \notin InFileStages
    BY <2>5 DEF InFileStages
  <2> QED BY <1>1, <1>2, <2>4, <2>5, <2>7, <2>8 DEF CoversType
<1> QED BY <1>8, <1>9, <1>10
-----------------------------------------------------------------------------
(* From the begin of a search to its end.                                  *)

\* What a search that begins has covered.
LEMMA BeginCovers ==
  ASSUME Inv, BeginSearch
  PROVE  /\ UNCHANGED <<tree, folders, decl>>
         /\ CoversFor(searched', search')
<1>1. /\ decl # << >> /\ search = Idle /\ (IsType \/ IsBody \/ IsLocal)
      /\ UNCHANGED <<tree, folders, decl>>
  BY DEF BeginSearch, iterators
<1>2. tree \in DOMAIN Trees /\ Way(decl)
  BY <1>1 DEF Inv, IteratorsRight
<1>3. NodeOf(decl) # Root
  <2>1. Kind(NodeOf(decl)) \notin DirKinds
    BY <1>1 DEF IsType, SearchedTypes, IsBody, IsLocal, Parameters, DirKinds
  <2> QED BY <1>2, <2>1, NotRoot
<1> DEFINE fresh == NewStore(Root)
           scout == ScoutOf(decl)
           st == IF IsBody THEN fresh ELSE Pushed(fresh, scout)
           on == IF IsBody THEN scout ELSE Landed(fresh, scout)
           cursor == CursorAbove(st, Idle, on)
<1>4. search' = IF IsType THEN [cursor EXCEPT !.stage = "own"]
                ELSE IF IsBody THEN [cursor EXCEPT !.stage = "this"]
                ELSE [PassLists(st, cursor) EXCEPT !.stage = "block"]
  BY DEF BeginSearch
<1>5. /\ Rooted(fresh) /\ StoreCheck(fresh) /\ StandsAt(fresh, scout, TrailOf(decl))
      /\ NodeAlways(fresh, scout) = NodeOf(decl)
  BY <1>2, NewStoreStands, ScoutOfStands
<1> HIDE DEF fresh, scout
<1>6. StandsAt(st, on, TrailOf(decl)) /\ NodeAlways(st, on) = NodeOf(decl)
  BY <1>2, <1>5, PushStands
<1> HIDE DEF st, on
<1>7. /\ Fields(cursor) = <<"idle", FALSE, Cut(Steps - 1), At(Cut(Steps)),
                            At(Cut(Steps - 1)), 1, "ok", << >>>>
      /\ WalkRight(st, cursor) /\ Steps \in Nat \ {0}
  <2>1. PICK s : s = Idle
    OBVIOUS
  <2>2. /\ Fields(CursorAbove(st, s, on))
             = <<s.stage, s.again, Cut(Steps - 1), At(Cut(Steps)), At(Cut(Steps - 1)), 1,
                 s.outcome, s.saved>>
        /\ WalkRight(st, CursorAbove(st, s, on)) /\ Steps \in Nat \ {0}
    BY <1>2, <1>3, <1>6, <2>1, FieldsAbove
  <2>3. s.stage = "idle" /\ s.again = FALSE /\ s.outcome = "ok" /\ s.saved = << >>
    BY <2>1 DEF Idle
  <2> QED BY <2>1, <2>2, <2>3
<1> HIDE DEF cursor
<1>8. PICK c, R, d : c = cursor /\ R = searched' /\ d = search'
  OBVIOUS
<1>9. DOMAIN c = DOMAIN Idle
  BY <1>7, <1>8 DEF WalkRight, WalkFrom, CursorRight
<1>10. TrailOf(decl) \in Trails /\ Cut(Steps) = TrailOf(decl)
  BY <1>2, LastCut DEF Steps
<1>11. Begun(R, TrailOf(decl), 1, {})
  BY <1>2, <1>10, BegunGoesOn
<1>12. CASE IsType
  <2>1. Fields(d) = <<"own", c.again, c.at, c.prev, c.curr, c.next, c.outcome, c.saved>>
    BY <1>4, <1>8, <1>9, <1>12, FieldsAfter
  <2>2. /\ d.stage = "own" /\ d.again = FALSE /\ d.at = Cut(Steps - 1)
        /\ d.prev = At(Cut(Steps)) /\ d.next = 1 /\ d.outcome = "ok"
    BY <1>7, <1>8, <2>1 DEF Fields
  <2>3. Came(d, Steps - 1)
    <3>1. (Steps - 1) + 1 = Steps
      BY <1>7
    <3> QED BY <2>2, <3>1 DEF Came
  <2>4. d.stage \in InFileStages
    BY <2>2 DEF InFileStages
  <2>5. ASSUME NEW f, NEW p PROVE CoversType(R, d, f, p)
    BY <1>11, <2>2, <2>3, <2>4 DEF CoversType
  <2> QED BY <1>1, <1>8, <1>12, <2>5, OneSort DEF CoversFor
<1>13. CASE IsBody
  <2>1. Fields(d) = <<"this", c.again, c.at, c.prev, c.curr, c.next, c.outcome, c.saved>>
    BY <1>4, <1>8, <1>9, <1>13, OneSort, FieldsAfter
  <2>2. d.stage = "this" /\ d.next = 1
    BY <1>7, <1>8, <2>1 DEF Fields
  <2>3. CoversBody(R, d)
    BY <1>11, <2>2 DEF CoversBody
  <2> QED BY <1>1, <1>8, <1>13, <2>3, OneSort DEF CoversFor
<1>14. CASE IsLocal
  <2>1. /\ c.curr = At(Cut(Steps - 1)) /\ c.at = Cut(Steps - 1) /\ c.prev = At(Cut(Steps))
        /\ c.next = 1
    BY <1>7, <1>8 DEF Fields
  <2>2. Front(TrailOf(decl)) = Cut(Steps - 1)
    <3>1. Steps \in Nat /\ Steps # 0 /\ Steps <= Len(TrailOf(decl))
      BY <1>7 DEF Steps
    <3> QED BY <1>2, <1>10, <3>1, CutFacts
  <2>3. PICK u : u = PassLists(st, c)
    OBVIOUS
  <2>4. d = [u EXCEPT !.stage = "block"]
    BY <1>4, <1>8, <1>14, <2>3, OneSort
  <2>5. PICK m \in 1 .. Steps :
          /\ DOMAIN u = DOMAIN Idle /\ ListTrail = Cut(m)
          /\ u.at = Cut(m - 1) /\ u.prev = At(Cut(m)) /\ u.curr = At(Cut(m - 1)) /\ u.next = 1
          /\ Kind(u.curr) \notin ParameterLists
          /\ m = Steps \/ Kind(At(Cut(m))) \in ParameterLists
    <3>1. CASE Kind(c.curr) \in ParameterLists
      <4>1. PICK n : n = Steps - 1
        OBVIOUS
      <4>2. n \in Nat \ {0} /\ n \in 1 .. Steps /\ n <= Steps
        <5>1. n \in 0 .. Steps /\ n <= Steps
          BY <1>7, <4>1
        <5>2. Kind(At(Cut(n))) \notin DirKinds
          BY <2>1, <3>1, <4>1 DEF ParameterLists, DirKinds
        <5> QED BY <1>2, <5>1, <5>2, CutNotRoot
      <4>3. u = CursorUp(st, c)
        BY <2>3, <3>1 DEF PassLists
      <4>4. /\ Fields(u) = <<c.stage, c.again, Cut(n - 1), At(Cut(n)), At(Cut(n - 1)), 1,
                             c.outcome, c.saved>>
            /\ WalkRight(st, u)
        BY <1>2, <1>7, <1>8, <2>1, <4>1, <4>2, <4>3, FieldsUp
      <4>5. u.at = Cut(n - 1) /\ u.prev = At(Cut(n)) /\ u.curr = At(Cut(n - 1)) /\ u.next = 1
        BY <4>4 DEF Fields
      <4>6. Kind(At(Cut(n - 1))) \notin ParameterLists
        BY <1>2, <2>1, <3>1, <4>1, <4>2, GrammarAround
      <4>7. ListTrail = Cut(n)
        BY <2>1, <2>2, <3>1, <4>1 DEF ListTrail
      <4>8. DOMAIN u = DOMAIN Idle
        BY <4>4 DEF WalkRight, WalkFrom, CursorRight
      <4>9. Kind(At(Cut(n))) \in ParameterLists
        BY <2>1, <3>1, <4>1
      <4> QED BY <4>2, <4>5, <4>6, <4>7, <4>8, <4>9
    <3>2. CASE Kind(c.curr) \notin ParameterLists
      <4>1. u = c
        BY <2>3, <3>2 DEF PassLists
      <4>2. ListTrail = Cut(Steps)
        BY <1>10, <2>1, <2>2, <3>2 DEF ListTrail
      <4>3. Steps \in 1 .. Steps
        BY <1>7
      <4> QED BY <1>9, <2>1, <3>2, <4>1, <4>2, <4>3
    <3> QED BY <3>1, <3>2
  <2>6. Fields(d) = <<"block", u.again, u.at, u.prev, u.curr, u.next, u.outcome, u.saved>>
    BY <2>4, <2>5, FieldsAfter
  <2>7. /\ d.stage = "block" /\ d.at = Cut(m - 1) /\ d.prev = At(Cut(m)) /\ d.next = 1
        /\ d.curr = u.curr
    BY <2>5, <2>6 DEF Fields
  <2>8. PICK X : X = Covered(ListTrail)
    OBVIOUS
  <2>9. Passed(R, Cut(m), X)
    BY <2>5, <2>8 DEF Passed
  <2>10. Around(R, d, m - 1, X)
    BY <1>2, <2>7, <2>9, AroundUp
  <2>12. m - 1 = Steps - 1 \/ Kind(At(Cut((m - 1) + 1))) \in Passing
    <3>1. (m - 1) + 1 = m
      BY <1>7
    <3> QED BY <2>5, <3>1 DEF Passing
  <2>11. CoversLocal(R, d)
    BY <2>5, <2>7, <2>8, <2>10, <2>12 DEF CoversLocal
  <2> QED BY <1>1, <1>8, <1>14, <2>11, OneSort DEF CoversFor
<1> QED BY <1>1, <1>12, <1>13, <1>14

\* The walk, while a type is searched.
LEMMA TypeWalkingWhen ==
  ASSUME Inv, InFolder, Covers, search # Idle, IsType,
         NEW f \in Nat, NEW p \in Nat \ {0}, Located(f, p)
  PROVE  TypeWalking(f, p)
<1>1. Searches
  <2>1. search.stage # "idle"
    BY DEF Inv, FinderRight, SearchRight
  <2> QED BY <2>1, SearchesWhen
<1>2. folders \in Seq(Folders) /\ folders # << >> /\ decl # << >>
  BY <1>1 DEF Searches
<1>3. Way(folders[1].path)
  <2>1. 1 \in 1 .. Len(folders)
    BY <1>2, EmptySeq, LenProperties
  <2>2. folders[1] \in Folders
    BY <1>2, <2>1, ElementOfSeq
  <2> QED BY <2>2 DEF Folders, Ways
<1>4. Under(folders[1].path, decl)
  BY <1>2 DEF InFolder
<1>5. CoversType(searched, search, f, p)
  BY DEF Covers, CoversFor
<1> QED BY <1>1, <1>3, <1>4, <1>5 DEF TypeWalking

\* Which stages a search goes through, for each kind of declaration.
LEMMA StagesOf ==
  ASSUME Inv, InFolder, Covers, search # Idle
  PROVE  /\ IsLocal => search.stage \in {"block", "over"}
         /\ IsBody => search.stage \in {"this", "over"}
         /\ IsType => search.stage \in InFileStages \cup
                        {"package", "directories", "folders", "over"}
<1>1. IsLocal => search.stage \in {"block", "over"}
  BY DEF Covers, CoversFor, CoversLocal
<1>2. IsBody => search.stage \in {"this", "over"}
  BY DEF Covers, CoversFor, CoversBody
<1>3. ASSUME IsType
      PROVE  search.stage \in InFileStages \cup {"package", "directories", "folders", "over"}
  <2>1. PICK f \in Nat, p \in Nat \ {0} :
          /\ f = Len(folders[1].path) - 1 /\ f < p
          /\ p <= Len(TrailOf(decl)) /\ FileIn(decl, p + 1)
    BY <1>3, FolderOfDeclaration
  <2>2. Located(f, p)
    BY <2>1 DEF Located
  <2> QED BY <1>3, <2>2 DEF Covers, CoversFor, CoversType
<1> QED BY <1>1, <1>2, <1>3 DEF CoversFor

\* A step of a search, in terms of what it has covered.
LEMMA CoversStep ==
  ASSUME Inv, InFolder, Covers, search # Idle,
         \/ SearchChild \/ SkipChild \/ LeaveOwn \/ EnterBody \/ LeaveCreation \/ EnterEnum
         \/ LeaveType \/ LeaveBlockOfType \/ LeavePackageNameless \/ EnterProgram
         \/ LeaveProgram \/ LeavePackage \/ LeaveDirectories \/ SearchFolder \/ SkipFolder
         \/ LeaveFolders \/ LeaveBlock \/ LeaveThis
  PROVE  CoversFor(searched', search')
<1>1. PICK R, d : R = searched' /\ d = search'
  OBVIOUS
<1>2. Searches
  <2>1. search.stage # "idle"
    BY DEF Inv, FinderRight, SearchRight
  <2> QED BY <2>1, SearchesWhen
<1>3. LeaveOwn \/ EnterBody \/ LeaveCreation \/ EnterEnum \/ LeaveType \/ LeaveBlockOfType
      \/ LeavePackageNameless \/ EnterProgram \/ LeaveProgram \/ LeavePackage
      \/ LeaveDirectories \/ SearchFolder \/ SkipFolder \/ LeaveFolders =>
        search.stage \notin {"block", "this", "over"}
  BY DEF LeaveOwn, EnterBody, LeaveCreation, EnterEnum, LeaveType, LeaveBlockOfType,
         LeavePackageNameless, Blocking, EnterProgram, LeaveProgram, LeavePackage,
         LeaveDirectories, SearchFolder, SkipFolder, LeaveFolders, After, AmongTypes, AmongOthers
<1>4. /\ LeaveBlock => search.stage = "block"
      /\ LeaveThis => search.stage = "this"
  BY DEF LeaveBlock, LeaveThis, After
<1>5. ASSUME IsLocal PROVE CoversLocal(R, d)
  <2>1. search.stage \in {"block", "over"} /\ CoversLocal(searched, search)
    BY <1>5, StagesOf DEF Covers, CoversFor
  <2>2. SearchChild \/ SkipChild \/ LeaveBlock
    BY <1>3, <1>4, <2>1
  <2> QED BY <1>1, <1>2, <2>1, <2>2, LocalCovers
<1>6. ASSUME IsBody PROVE CoversBody(R, d)
  <2>1. search.stage \in {"this", "over"} /\ CoversBody(searched, search)
    BY <1>6, StagesOf DEF Covers, CoversFor
  <2>2. SearchChild \/ SkipChild \/ LeaveThis
    BY <1>3, <1>4, <2>1
  <2> QED BY <1>1, <1>2, <1>6, <2>1, <2>2, BodyCovers
<1>7. ASSUME IsType, NEW f \in Nat, NEW p \in Nat \ {0}, Located(f, p)
      PROVE  CoversType(R, d, f, p)
  <2>1. TypeWalking(f, p)
    BY <1>7, TypeWalkingWhen
  <2>2. search.stage \notin {"block", "this"}
    BY <1>7, StagesOf DEF InFileStages
  <2>3. ~LeaveBlock /\ ~LeaveThis
    BY <1>4, <2>2
  <2>4. CASE SearchChild \/ SkipChild
    BY <1>1, <2>1, <2>4, TypeScans
  <2>5. CASE LeaveOwn \/ EnterBody \/ EnterEnum \/ LeaveType
    BY <1>1, <2>1, <2>5, TypeGoesOut
  <2>6. CASE LeaveCreation \/ LeaveBlockOfType \/ LeavePackageNameless
    BY <1>1, <2>1, <2>6, TypeIsBlocked
  <2>7. CASE EnterProgram \/ LeaveProgram
    BY <1>1, <2>1, <2>7, TypePassesFile
  <2>8. CASE LeavePackage \/ LeaveDirectories
    BY <1>1, <2>1, <2>8, TypeLeavesDirectory
  <2>9. CASE SearchFolder \/ SkipFolder \/ LeaveFolders
    BY <1>1, <2>1, <2>9, TypeInOther
  <2> QED BY <2>3, <2>4, <2>5, <2>6, <2>7, <2>8, <2>9
<1>8. IsLocal \/ IsBody \/ IsType
  BY DEF Covers, CoversFor
<1>9. CoversFor(R, d)
  BY <1>5, <1>6, <1>7, <1>8 DEF CoversFor
<1> QED BY <1>1, <1>9

\* What a search has covered stays covered, and each step adds what it passes.
LEMMA CoversKept ==
  ASSUME Inv, InFolder, Covers, [Next]_vars
  PROVE  Covers'
<1>1. ASSUME UNCHANGED <<tree, folders, decl, search, searched>> PROVE Covers'
  BY <1>1, CoversNext DEF Covers
<1>2. CASE Iterate
  <2>1. UNCHANGED finder
    BY <1>2 DEF Iterate, ClimbModules, LookForModule, NextFolder, ClimbDeclarations,
                LookForDeclaration, Unsearched
  <2>2. search = Idle
    <3>1. CASE ClimbModules \/ LookForModule
      <4>1. folders = << >>
        BY <3>1 DEF ClimbModules, LookForModule, ModulesMove
      <4> QED BY <4>1 DEF Inv, IteratorsRight, FinderRight
    <3>2. CASE NextFolder \/ ClimbDeclarations \/ LookForDeclaration
      <4>1. decl = << >>
        BY <3>2 DEF NextFolder, ClimbDeclarations, LookForDeclaration, DeclarationsMove
      <4> QED BY <4>1 DEF Inv, FinderRight
    <3>3. CASE Unsearched
      BY <3>3 DEF Unsearched
    <3> QED BY <1>2, <3>1, <3>2, <3>3 DEF Iterate
  <2> QED BY <2>1, <2>2 DEF finder, Covers
<1>3. CASE BeginSearch
  <2>1. UNCHANGED <<tree, folders, decl>> /\ CoversFor(searched', search')
    BY <1>3, BeginCovers
  <2> QED BY <2>1, CoversNext
<1>4. CASE StopAtNameless \/ StopAtBody \/ StopAtOther
  BY <1>1, <1>4 DEF StopAtNameless, StopAtBody, StopAtOther, iterators, finder
<1>5. CASE EndSearch
  BY <1>5 DEF EndSearch, Covers
<1>6. CASE UNCHANGED vars
  BY <1>1, <1>6 DEF vars, iterators, finder
<1>7. CASE \/ SearchChild \/ SkipChild \/ LeaveOwn \/ EnterBody \/ LeaveCreation \/ EnterEnum
           \/ LeaveType \/ LeaveBlockOfType \/ LeavePackageNameless \/ EnterProgram
           \/ LeaveProgram \/ LeavePackage \/ LeaveDirectories \/ SearchFolder \/ SkipFolder
           \/ LeaveFolders \/ LeaveBlock \/ LeaveThis
  <2>1. CASE search = Idle
    <3>1. search.stage = "idle"
      BY <2>1 DEF Idle
    <3>2. FALSE
      BY <1>7, <3>1 DEF SearchChild, SkipChild, LeaveOwn, EnterBody, LeaveCreation, EnterEnum,
           LeaveType, LeaveBlockOfType, LeavePackageNameless, Blocking, EnterProgram,
           LeaveProgram, LeavePackage, LeaveDirectories, SearchFolder, SkipFolder, LeaveFolders, LeaveBlock, LeaveThis,
           After, AmongTypes, AmongOthers, Scanning, OfDecl
    <3> QED BY <3>2
  <2>2. CASE search # Idle
    <3>1. CoversFor(searched', search')
      BY <1>7, <2>2, CoversStep
    <3>2. UNCHANGED <<tree, folders, decl>>
      <4>1. ~EndSearch
        <5>1. ASSUME EndSearch PROVE FALSE
          <6>1. search.stage = "over"
            BY <5>1 DEF EndSearch
          <6> QED BY <1>7, <6>1 DEF SearchChild, SkipChild, LeaveOwn, EnterBody, LeaveCreation,
                EnterEnum, LeaveType, LeaveBlockOfType, LeavePackageNameless, Blocking,
                EnterProgram, LeaveProgram, LeavePackage,
                LeaveDirectories, SearchFolder, SkipFolder, LeaveFolders, LeaveBlock, LeaveThis,
                After, AmongTypes, AmongOthers, Scanning, OfDecl
        <5> QED BY <5>1
      <4>2. GoThrough
        BY <1>7 DEF GoThrough
      <4> QED BY <4>1, <4>2, SearchStandsStill
    <3> QED BY <3>1, <3>2, CoversNext
  <2> QED BY <2>1, <2>2
<1> QED BY <1>2, <1>3, <1>4, <1>5, <1>6, <1>7 DEF Next, GoThrough
-----------------------------------------------------------------------------
(* What a search that is over has covered is the scope of its declaration. *)

\* Of the places around the declaration, the deepest of a kind is at least as
\* deep as any of it.
LEMMA DeepestAround ==
  ASSUME tree \in DOMAIN Trees, Way(decl), NEW T, T \subseteq {Cut(i) : i \in 0 .. Steps - 1},
         NEW m \in 0 .. Steps - 1, Cut(m) \in T
  PROVE  \E k \in 0 .. Steps - 1 :
           /\ m <= k /\ Cut(k) \in T
           /\ (CHOOSE t \in T : \A u \in T : Len(u) <= Len(t)) = Cut(k)
<1>1. PICK last \in Nat : last = Steps - 1
  <2>1. Steps \in Nat
    BY CutsGoOn
  <2> QED BY <2>1
<1>2. \A i \in 0 .. last : Len(Cut(i)) = i
  <2>1. ASSUME NEW i \in 0 .. last PROVE Len(Cut(i)) = i
    <3>1. i \in Nat /\ i <= Len(TrailOf(decl))
      BY <1>1, CutsGoOn DEF Steps
    <3> QED BY <3>1, CutFacts
  <2> QED BY <2>1
<1> DEFINE I == {i \in 0 .. last : Cut(i) \in T}
           G == {n \in Nat : (\E i \in I : i <= n) =>
                   \E k \in I : k <= n /\ \A j \in I : j <= n => j <= k}
<1>3. 0 \in G
  OBVIOUS
<1>4. ASSUME NEW n \in Nat, n \in G PROVE n + 1 \in G
  <2>1. SUFFICES ASSUME \E i \in I : i <= n + 1
                 PROVE  \E k \in I : k <= n + 1 /\ \A j \in I : j <= n + 1 => j <= k
    OBVIOUS
  <2>2. CASE n + 1 \in I
    BY <2>2
  <2>3. CASE n + 1 \notin I
    <3>1. \A i \in I : i <= n + 1 => i <= n
      BY <2>3
    <3>2. \A i \in I : i <= n => i <= n + 1
      OBVIOUS
    <3>3. PICK k \in I : k <= n /\ \A j \in I : j <= n => j <= k
      BY <1>4, <2>1, <3>1
    <3> QED BY <3>1, <3>2, <3>3
  <2> QED BY <2>2, <2>3
<1>5. Nat \subseteq G
  <2> HIDE DEF G
  <2> QED BY <1>3, <1>4, Induction
<1>6. last \in G /\ m \in I /\ m <= last /\ \A i \in I : i <= last
  <2>1. last \in G
    BY <1>5
  <2>2. m \in 0 .. last /\ m <= last
    BY <1>1
  <2>3. m \in I
    BY <2>2
  <2>4. \A i \in I : i <= last
    OBVIOUS
  <2> HIDE DEF G, I
  <2> QED BY <2>1, <2>2, <2>3, <2>4
<1>7. PICK k \in I : \A j \in I : j <= k
  BY <1>1, <1>6
<1>8. \A u \in T : Len(u) <= Len(Cut(k))
  <2>1. SUFFICES ASSUME NEW u \in T PROVE Len(u) <= Len(Cut(k))
    OBVIOUS
  <2>2. PICK j \in 0 .. last : u = Cut(j)
    BY <1>1
  <2> QED BY <1>2, <1>7, <2>2
<1>9. PICK t : t = CHOOSE v \in T : \A u \in T : Len(u) <= Len(v)
  OBVIOUS
<1>10. t \in T /\ \A u \in T : Len(u) <= Len(t)
  BY <1>7, <1>8, <1>9
<1>11. PICK j \in 0 .. last : t = Cut(j)
  BY <1>1, <1>10
<1>12. m <= j
  <2>1. Len(Cut(m)) <= Len(Cut(j)) /\ m \in 0 .. last
    BY <1>1, <1>10, <1>11
  <2> QED BY <1>2, <1>11, <2>1
<1> QED BY <1>1, <1>9, <1>10, <1>11, <1>12

\* The places around the declaration are its cuts.
LEMMA CutsAreAround ==
  ASSUME tree \in DOMAIN Trees, Way(decl), Steps # 0
  PROVE  Above(Front(TrailOf(decl))) = {Cut(i) : i \in 0 .. Steps - 1}
<1>1. PICK n \in Nat : n = Steps - 1 /\ n + 1 = Steps
  <2>1. Steps \in Nat
    BY CutsGoOn
  <2> QED BY <2>1
<1>2. PICK trail, front : trail = TrailOf(decl) /\ front = Cut(n)
  OBVIOUS
<1>3. trail \in Seq(Nat) /\ Len(trail) = n + 1
  BY <1>1, <1>2, TrailFacts DEF Steps
<1>4. Front(TrailOf(decl)) = front
  <2>1. Steps \in Nat /\ Steps # 0 /\ Steps <= Len(TrailOf(decl)) /\ Cut(Steps) = TrailOf(decl)
    BY <1>1, LastCut DEF Steps
  <2>2. Front(Cut(Steps)) = Cut(Steps - 1)
    BY <2>1, CutFacts
  <2> QED BY <1>1, <1>2, <2>1, <2>2
<1>5. front \in Seq(Nat) /\ Len(front) = n /\ \A i \in 1 .. n : front[i] = trail[i]
  <2>1. n <= Len(TrailOf(decl))
    BY <1>2, <1>3
  <2> QED BY <1>2, <2>1, CutFacts
<1>6. ASSUME NEW i \in 0 .. n PROVE SubSeq(front, 1, i) = Cut(i)
  <2>1. PICK a, b : a = SubSeq(front, 1, i) /\ b = Cut(i) /\ b = SubSeq(trail, 1, i)
    BY <1>2 DEF Cut
  <2>2. i \in 0 .. Len(front) /\ i \in 0 .. Len(trail)
    BY <1>3, <1>5
  <2>3. a \in Seq(Nat) /\ Len(a) = i /\ \A j \in 1 .. i : a[j] = front[j]
    BY <1>5, <2>1, <2>2, Beginning
  <2>4. b \in Seq(Nat) /\ Len(b) = i /\ \A j \in 1 .. i : b[j] = trail[j]
    BY <1>3, <2>1, <2>2, Beginning
  <2>5. \A j \in 1 .. i : a[j] = b[j]
    <3>1. \A j \in 1 .. i : j \in 1 .. n
      OBVIOUS
    <3> QED BY <1>5, <2>3, <2>4, <3>1
  <2>6. a = b
    BY <2>3, <2>4, <2>5, SeqEqual
  <2> QED BY <2>1, <2>6
<1>7. Above(front) = {SubSeq(front, 1, i) : i \in 0 .. n}
  BY <1>5 DEF Above
<1> QED BY <1>1, <1>4, <1>6, <1>7

\* What is below a place is below those around it.
LEMMA CoveredInner ==
  ASSUME tree \in DOMAIN Trees, Way(decl), NEW m \in Nat, NEW k \in Nat, m <= k, k <= Steps
  PROVE  Covered(Cut(k)) \subseteq Covered(Cut(m))
<1>1. SUFFICES ASSUME NEW leaf \in Covered(Cut(k)) PROVE leaf \in Covered(Cut(m))
  OBVIOUS
<1>2. leaf \in Leaves /\ IsPrefix(Cut(k), leaf) /\ leaf \in Seq(Nat)
  BY LeavesAre, TrailsAreCut DEF Covered
<1>3. PICK a, b : a = Cut(m) /\ b = Cut(k)
  OBVIOUS
<1>4. /\ a \in Seq(Nat) /\ Len(a) = m /\ \A i \in 1 .. m : a[i] = TrailOf(decl)[i]
      /\ b \in Seq(Nat) /\ Len(b) = k /\ \A i \in 1 .. k : b[i] = TrailOf(decl)[i]
  <2>1. Len(TrailOf(decl)) \in Nat /\ m <= Len(TrailOf(decl)) /\ k <= Len(TrailOf(decl))
    BY CutsGoOn DEF Steps
  <2> QED BY <1>3, <2>1, CutFacts
<1>5. Len(b) <= Len(leaf) /\ \A i \in 1 .. Len(b) : b[i] = leaf[i]
  BY <1>2, <1>3, <1>4, PrefixElements
<1>6. Len(leaf) \in Nat
  BY <1>2, LenProperties
<1>7. Len(a) <= Len(leaf)
  BY <1>4, <1>5, <1>6
<1>8. \A i \in 1 .. Len(a) : i \in 1 .. k
  BY <1>4
<1>9. \A i \in 1 .. Len(a) : a[i] = leaf[i]
  BY <1>4, <1>5, <1>8
<1>10. IsPrefix(a, leaf)
  BY <1>2, <1>4, <1>7, <1>9, PrefixElements
<1> QED BY <1>2, <1>3, <1>10 DEF Covered

\* A leaf that was given is no gap.
GivenOrLike(leaf) ==
  \/ \E t \in searched : IsPrefix(t, leaf)
  \/ Twin(leaf, TrailOf(decl))
  \/ TwinFolder(leaf)

\* What is below the deepest of some places around the declaration is below each.
LEMMA InNearest ==
  ASSUME tree \in DOMAIN Trees, Way(decl), Steps # 0,
         NEW T, T \subseteq Above(Front(TrailOf(decl))),
         NEW m \in 0 .. Steps - 1, Cut(m) \in T,
         NEW leaf \in Covered(CHOOSE t \in T : \A u \in T : Len(u) <= Len(t))
  PROVE  leaf \in Covered(Cut(m))
<1>1. Above(Front(TrailOf(decl))) = {Cut(i) : i \in 0 .. Steps - 1} /\ Steps \in Nat
  BY CutsAreAround, CutsGoOn
<1>2. PICK k \in 0 .. Steps - 1 :
        m <= k /\ (CHOOSE t \in T : \A u \in T : Len(u) <= Len(t)) = Cut(k)
  BY <1>1, DeepestAround
<1>3. leaf \in Covered(Cut(k))
  BY <1>2
<1>4. m \in Nat /\ k \in Nat /\ k <= Steps
  BY <1>1
<1> QED BY <1>2, <1>3, <1>4, CoveredInner

\* The place a type stands in is where the types around it end.
LEMMA GroundIs ==
  ASSUME tree \in DOMAIN Trees, Way(decl), Steps # 0, NEW m \in 0 .. Steps - 1,
         Within(m + 1), Kind(At(Cut(m))) \notin TypeBodies \cup TypeDeclarations
  PROVE  Ground(TrailOf(decl)) = Cut(m)
<1>1. Above(Front(TrailOf(decl))) = {Cut(i) : i \in 0 .. Steps - 1} /\ Steps \in Nat
  BY CutsAreAround, CutsGoOn
<1>2. PICK T : T = {t \in Above(Front(TrailOf(decl))) : IsGround(t)}
  OBVIOUS
<1>3. Ground(TrailOf(decl)) = CHOOSE t \in T : \A u \in T : Len(u) <= Len(t)
  BY <1>2 DEF Ground, Nearest
<1>4. Cut(m) \in T /\ T \subseteq {Cut(i) : i \in 0 .. Steps - 1}
  <2>1. IsGround(Cut(m))
    BY DEF IsGround
  <2> QED BY <1>1, <1>2, <2>1
<1>5. PICK k \in 0 .. Steps - 1 :
        /\ m <= k /\ Cut(k) \in T
        /\ (CHOOSE t \in T : \A u \in T : Len(u) <= Len(t)) = Cut(k)
  BY <1>4, DeepestAround
<1>6. k = m
  <2>1. IsGround(Cut(k))
    BY <1>2, <1>5
  <2>2. k \notin m + 1 .. Steps
    BY <2>1 DEF IsGround, Within
  <2> QED BY <1>1, <1>5, <2>2
<1> QED BY <1>3, <1>5, <1>6

\* A local is known in what is around its list, or in its group of a switch.
LEMMA LocalCovered ==
  ASSUME tree \in DOMAIN Trees, Way(decl), Steps # 0, IsLocal, LocalKnown(searched),
         NEW leaf \in Covered(Nearest(TrailOf(decl), IsNotList)),
         Kind(At(Front(TrailOf(decl)))) \in ParameterLists =>
           leaf \notin Covered(Front(TrailOf(decl)))
  PROVE  GivenOrLike(leaf) \/ PassedOver(leaf, TrailOf(decl))
<1>1. Above(Front(TrailOf(decl))) = {Cut(i) : i \in 0 .. Steps - 1} /\ Steps \in Nat
  BY CutsAreAround, CutsGoOn
<1>2. leaf \in Leaves
  BY DEF Covered
<1>3. PICK m \in 0 .. Steps - 1 :
        /\ Passed(searched, Cut(m), Covered(ListTrail))
        /\ \/ IsNotList(Cut(m))
           \/ m = Steps - 1 /\ Kind(At(Cut(m))) = "SwitchBlockStatementGroup"
  BY DEF LocalKnown
<1>4. CASE leaf \in Covered(ListTrail)
  <2>1. leaf \in Covered(TrailOf(decl))
    BY <1>4 DEF ListTrail
  <2> QED BY <2>1 DEF Covered, PassedOver
<1>5. CASE leaf \in Covered(Cut(m)) /\ leaf \notin Covered(ListTrail)
  BY <1>3, <1>5 DEF Passed, GivenIn, GivenOrLike
<1>6. CASE IsNotList(Cut(m))
  <2>1. PICK T : T = {t \in Above(Front(TrailOf(decl))) : IsNotList(t)}
    OBVIOUS
  <2>2. Nearest(TrailOf(decl), IsNotList) = CHOOSE t \in T : \A u \in T : Len(u) <= Len(t)
    BY <2>1 DEF Nearest
  <2>3. Cut(m) \in T /\ T \subseteq Above(Front(TrailOf(decl)))
    BY <1>1, <1>6, <2>1
  <2>4. leaf \in Covered(Cut(m))
    BY <2>2, <2>3, InNearest
  <2> QED BY <1>4, <1>5, <2>4
<1>7. CASE /\ m = Steps - 1 /\ Kind(At(Cut(m))) = "SwitchBlockStatementGroup"
           /\ leaf \notin Covered(Cut(m))
  <2>1. Front(TrailOf(decl)) = Cut(m)
    <3>1. Steps \in Nat /\ Steps # 0 /\ Steps <= Len(TrailOf(decl)) /\ Cut(Steps) = TrailOf(decl)
      BY <1>1, LastCut DEF Steps
    <3>2. Front(Cut(Steps)) = Cut(Steps - 1)
      BY <3>1, CutFacts
    <3> QED BY <1>7, <3>1, <3>2
  <2> QED BY <1>2, <1>7, <2>1 DEF Covered, PassedOver
<1> QED BY <1>3, <1>4, <1>5, <1>6, <1>7

\* A type whose walk ended around the types is known in its block or creation,
\* but for what the walk was cut short of.
LEMMA BlockedCovered ==
  ASSUME tree \in DOMAIN Trees, Way(decl), Steps # 0, IsType, TypeBlocked(searched),
         NEW leaf \in Leaves,
         Kind(At(Ground(TrailOf(decl)))) # "Program" =>
           leaf \in Covered(Nearest(TrailOf(decl), IsInnards))
  PROVE  GivenOrLike(leaf) \/ PassedOver(leaf, TrailOf(decl))
<1>1. Above(Front(TrailOf(decl))) = {Cut(i) : i \in 0 .. Steps - 1} /\ Steps \in Nat
  BY CutsAreAround, CutsGoOn
<1>2. PICK m \in 0 .. Steps - 1 :
        /\ Within(m + 1) /\ Passed(searched, Cut(m + 1), {})
        /\ \/ Kind(At(Cut(m))) = "ObjectCreationExpression" /\ IsInnards(Cut(m + 1))
           \/ /\ Kind(At(Cut(m))) \in Innards
              /\ \/ Passed(searched, Cut(m), {})
                 \/ Len(Children(At(Cut(m)))) < Last(TrailOf(decl))
           \/ /\ Kind(At(Cut(m))) = "Program"
              /\ \E c \in ToSet(Children(At(Cut(m)))) : NamelessPackage(c)
  BY DEF TypeBlocked
<1>3. Ground(TrailOf(decl)) = Cut(m)
  <2>1. Kind(At(Cut(m))) \in {"ObjectCreationExpression", "Program"} \cup Innards
    BY <1>2
  <2>2. Kind(At(Cut(m))) \notin TypeBodies \cup TypeDeclarations
    BY <2>1 DEF Innards, TypeBodies, TypeDeclarations
  <2> QED BY <1>2, <2>2, GroundIs
<1>4. SubSeq(TrailOf(decl), 1, Len(Ground(TrailOf(decl))) + 1) = Cut(m + 1)
  <2>1. Len(Cut(m)) = m
    <3>1. m \in Nat /\ m <= Len(TrailOf(decl))
      BY <1>1 DEF Steps
    <3> QED BY <3>1, CutFacts
  <2> QED BY <1>3, <2>1 DEF Cut
<1>5. CASE IsPrefix(Cut(m + 1), leaf)
  BY <1>2, <1>5 DEF Covered, Passed, GivenIn, GivenOrLike
<1>6. CASE CutShort(TrailOf(decl)) /\ ~IsPrefix(Cut(m + 1), leaf)
  BY <1>4, <1>6 DEF PassedOver
<1>7. CASE \/ Kind(At(Cut(m))) = "Program" /\ \E c \in ToSet(Children(At(Cut(m)))) : NamelessPackage(c)
           \/ Kind(At(Cut(m))) \in Innards /\ Len(Children(At(Cut(m)))) < Last(TrailOf(decl))
  <2>1. "Program" \notin Innards
    BY DEF Innards
  <2>2. CutShort(TrailOf(decl))
    BY <1>3, <1>7, <2>1 DEF CutShort
  <2> QED BY <1>5, <1>6, <2>2
<1>8. ASSUME NEW k \in 0 .. Steps - 1, IsInnards(Cut(k)), Passed(searched, Cut(k), {}),
             Kind(At(Cut(m))) # "Program"
      PROVE  GivenOrLike(leaf)
  <2>1. PICK T : T = {t \in Above(Front(TrailOf(decl))) : IsInnards(t)}
    OBVIOUS
  <2>2. Nearest(TrailOf(decl), IsInnards) = CHOOSE t \in T : \A u \in T : Len(u) <= Len(t)
    BY <2>1 DEF Nearest
  <2>3. Cut(k) \in T /\ T \subseteq Above(Front(TrailOf(decl)))
    BY <1>1, <1>8, <2>1
  <2>4. leaf \in Covered(CHOOSE t \in T : \A u \in T : Len(u) <= Len(t))
    BY <1>3, <1>8, <2>2
  <2>5. leaf \in Covered(Cut(k))
    BY <2>3, <2>4, InNearest
  <2> QED BY <1>8, <2>5 DEF Passed, GivenIn, GivenOrLike
<1>9. CASE Kind(At(Cut(m))) = "ObjectCreationExpression" /\ IsInnards(Cut(m + 1))
  <2>1. m + 1 # Steps
    <3>1. Cut(Steps) = TrailOf(decl) /\ At(TrailOf(decl)) = NodeOf(decl)
      BY <1>1, LastCut DEF Steps
    <3>2. ASSUME IsInnards(Cut(Steps)) PROVE FALSE
      BY <3>1, <3>2 DEF IsInnards, Innards, IsType, SearchedTypes
    <3> QED BY <1>9, <3>2
  <2>2. m + 1 \in 0 .. Steps - 1
    BY <1>1, <2>1
  <2> QED BY <1>2, <1>8, <1>9, <2>2
<1>10. CASE Kind(At(Cut(m))) \in Innards /\ Passed(searched, Cut(m), {})
  <2>1. IsInnards(Cut(m)) /\ Kind(At(Cut(m))) # "Program"
    BY <1>10 DEF IsInnards, Innards
  <2> QED BY <1>8, <1>10, <2>1
<1> QED BY <1>2, <1>7, <1>9, <1>10

\* A type that is known everywhere has all of its folders searched.
LEMMA KnownCovers ==
  ASSUME Inv, InFolder, search # Idle, IsType, NEW f \in Nat, NEW p \in Nat \ {0},
         Located(f, p), TypeKnown(searched, f, p),
         NEW leaf \in Leaves, NEW folder \in FolderTrails, IsPrefix(folder, leaf),
         IsPrefix(Cut(p), leaf) =>
           Kind(At(SubSeq(leaf, 1, Len(Cut(p)) + 1))) \in TypeDeclarations
  PROVE  GivenOrLike(leaf)
<1>1. /\ tree \in DOMAIN Trees /\ Way(decl) /\ decl # << >>
      /\ folders \in Seq(Folders) /\ folders # << >>
  <2>1. search.stage # "idle"
    BY DEF Inv, FinderRight, SearchRight
  <2> QED BY <2>1, SearchesWhen DEF Searches
<1>2. 1 \in 1 .. Len(folders) /\ folders[1] \in Folders
  <2>1. 1 \in 1 .. Len(folders)
    BY <1>1, EmptySeq, LenProperties
  <2> QED BY <1>1, <2>1, ElementOfSeq
<1>3. Way(folders[1].path) /\ folders[1].others \in Seq(Ways)
  BY <1>2 DEF Folders, Ways
<1>4. Len(folders[1].others) <= 1 /\ Under(folders[1].path, decl)
  BY <1>1, <1>2 DEF InFolder, AreSourceFolders
<1>5. f = Len(folders[1].path) - 1 /\ Len(folders[1].path) \in Nat
  BY <1>3, EmptySeq DEF Located, Way
<1>6. /\ Passed(searched, Cut(p), NotTypes(p)) /\ Passed(searched, Cut(f), Covered(Cut(p)))
      /\ OtherPassed(searched, f)
  BY DEF TypeKnown
<1>7. CASE IsPrefix(Cut(p), leaf)
  <2>1. Len(Cut(p)) = p
    BY <1>1, CutFacts DEF Located
  <2>2. leaf \notin NotTypes(p)
    BY <1>7, <2>1 DEF NotTypes
  <2>3. leaf \in Covered(Cut(p))
    BY <1>7 DEF Covered
  <2> QED BY <1>6, <2>2, <2>3 DEF Passed, GivenIn, GivenOrLike
<1>8. CASE ~IsPrefix(Cut(p), leaf) /\ folder = TrailOf(folders[1].path)
  <2>1. folder = Cut(f)
    BY <1>1, <1>3, <1>4, <1>5, <1>8, FolderIsCut
  <2>2. leaf \in Covered(Cut(f)) /\ leaf \notin Covered(Cut(p))
    BY <1>8, <2>1 DEF Covered
  <2> QED BY <1>6, <2>2 DEF Passed, GivenIn, GivenOrLike
<1>9. CASE folder # TrailOf(folders[1].path)
  <2>1. PICK o \in ToSet(folders[1].others) : folder = TrailOf(o)
    BY <1>9 DEF FolderTrails
  <2>2. o = folders[1].others[1] /\ folders[1].others # << >> /\ Way(o)
    <3>1. PICK i \in DOMAIN folders[1].others : o = folders[1].others[i]
      BY <2>1 DEF ToSet
    <3>2. i \in 1 .. Len(folders[1].others) /\ Len(folders[1].others) \in Nat
      BY <1>3, <3>1, LenProperties
    <3>3. i = 1
      BY <1>4, <3>2
    <3>4. o \in Ways
      BY <1>3, <3>1, <3>2, ElementOfSeq
    <3>5. folders[1].others # << >>
      BY <3>1
    <3> QED BY <3>1, <3>3, <3>4, <3>5 DEF Ways
  <2>3. CASE TrailOf(o) \in searched
    BY <2>1, <2>3 DEF GivenOrLike
  <2>4. CASE \A i \in 1 .. Len(Children(NodeOf(o))) : Children(NodeOf(o))[i] = At(Cut(f + 1))
    <3>1. Cut(f + 1) = SubSeq(TrailOf(decl), 1, Len(folders[1].path))
      BY <1>5 DEF Cut
    <3>2. Children(NodeOf(o)) \in Seq(Nodes)
      BY <1>1, <2>2, WayEnds, ChildrenAreNodes
    <3>3. DOMAIN Children(NodeOf(o)) = 1 .. Len(Children(NodeOf(o)))
      BY <3>2, LenProperties
    <3>4. \A child \in ToSet(Children(NodeOf(o))) :
            child = At(SubSeq(TrailOf(decl), 1, Len(folders[1].path)))
      <4>1. PICK below, v, n : /\ below = Children(NodeOf(o)) /\ n = Len(below)
                               /\ v = At(SubSeq(TrailOf(decl), 1, Len(folders[1].path)))
        OBVIOUS
      <4>2. DOMAIN below = 1 .. n /\ \A i \in 1 .. n : below[i] = v
        BY <2>4, <3>1, <3>3, <4>1
      <4>3. \A child \in ToSet(below) : child = v
        BY <4>2 DEF ToSet
      <4> QED BY <4>1, <4>3
    <3>5. TwinFolder(leaf)
      BY <2>1, <3>4 DEF TwinFolder
    <3> QED BY <3>5 DEF GivenOrLike
  <2>5. TrailOf(o) \in searched
        \/ \A i \in 1 .. Len(Children(NodeOf(o))) : Children(NodeOf(o))[i] = At(Cut(f + 1))
    BY <1>6, <2>2 DEF OtherPassed
  <2> QED BY <2>3, <2>4, <2>5
<1> QED BY <1>7, <1>8, <1>9

\* What is kept is what is promised.
LEMMA CoveredThen ==
  ASSUME Inv, InFolder, Covers
  PROVE  ScopeCovered
<1>1. SUFFICES ASSUME search.stage = "over", search.outcome # "nomore", NEW leaf \in Scope
               PROVE  GivenOrLike(leaf) \/ PassedOver(leaf, TrailOf(decl))
  BY DEF ScopeCovered, GivenOrLike
<1>2. search # Idle /\ tree \in DOMAIN Trees /\ Way(decl) /\ NodeOf(decl) # Root
      /\ CoversFor(searched, search)
  <2>1. search.stage # "idle"
    BY <1>1
  <2> QED BY <2>1, SearchesWhen DEF Searches, Covers
<1>3. Steps # 0
  <2>1. At(Cut(0)) = Root /\ Cut(Steps) = TrailOf(decl) /\ At(TrailOf(decl)) = NodeOf(decl)
    BY <1>2, CutsGoOn, LastCut DEF Steps
  <2> QED BY <1>2, <2>1
<1>4. /\ leaf \in Leaves
      /\ IsType /\ Kind(At(Ground(TrailOf(decl)))) # "Program" =>
           leaf \in Covered(Nearest(TrailOf(decl), IsInnards))
  <2>1. CASE IsType /\ Kind(At(Ground(TrailOf(decl)))) = "Program"
    BY <1>1, <2>1, OneSort DEF Scope
  <2>2. CASE IsType /\ Kind(At(Ground(TrailOf(decl)))) # "Program"
    BY <1>1, <2>2, OneSort DEF Scope, Covered
  <2>3. CASE ~IsType
    BY <1>1, <1>2, <2>3, OneSort DEF Scope, CoversFor
  <2> QED BY <2>1, <2>2, <2>3
<1>5. CASE IsType
  <2>1. PICK f \in Nat, p \in Nat \ {0} : Located(f, p)
    BY <1>2, <1>5, FolderOfDeclaration DEF Located
  <2>2. CoversType(searched, search, f, p)
    BY <1>2, <1>5, <2>1 DEF CoversFor
  <2>3. CASE search.outcome = "blocked"
    <3>1. TypeBlocked(searched)
      BY <1>1, <2>2, <2>3 DEF CoversType
    <3> QED BY <1>2, <1>3, <1>4, <1>5, <3>1, BlockedCovered
  <2>4. CASE search.outcome = "ok"
    <3>1. TypeKnown(searched, f, p)
      BY <1>1, <2>2, <2>4 DEF CoversType
    <3>2. Kind(At(Ground(TrailOf(decl)))) = "Program"
      <4>1. TypeWalking(f, p)
        BY <1>2, <1>5, <2>1, TypeWalkingWhen
      <4>2. p \in 0 .. Steps - 1 /\ Kind(At(Cut(p))) = "Program"
        BY <4>1, TypeWalkingFacts
      <4>3. Kind(At(Cut(p))) \notin TypeBodies \cup TypeDeclarations
        BY <4>2 DEF TypeBodies, TypeDeclarations
      <4>4. Ground(TrailOf(decl)) = Cut(p)
        BY <1>2, <1>3, <3>1, <4>2, <4>3, GroundIs DEF TypeKnown
      <4> QED BY <4>2, <4>4
    <3>3. (CHOOSE t \in FileAt(TrailOf(decl)) : TRUE) = Cut(p)
      <4>1. FileAt(TrailOf(decl)) = {Cut(p)}
        BY <1>2, <2>1, FileOfDeclaration DEF Located
      <4> QED BY <4>1
    <3>4. PICK folder \in FolderTrails :
            /\ leaf \in Leaves /\ IsPrefix(folder, leaf)
            /\ IsPrefix(Cut(p), leaf) =>
                 Kind(At(SubSeq(leaf, 1, Len(Cut(p)) + 1))) \in TypeDeclarations
      BY <1>1, <1>5, <3>2, <3>3, OneSort DEF Scope
    <3> QED BY <1>2, <1>5, <2>1, <3>1, <3>4, KnownCovers
  <2> QED BY <1>1, <2>2, <2>3, <2>4 DEF CoversType
<1>6. CASE IsBody
  <2>1. leaf \in Covered(TrailOf(decl))
    BY <1>1, <1>6, OneSort DEF Scope, Covered
  <2>2. Passed(searched, TrailOf(decl), {})
    BY <1>1, <1>2, <1>6 DEF CoversFor, CoversBody
  <2> QED BY <2>1, <2>2 DEF Passed, GivenIn, GivenOrLike
<1>7. CASE IsLocal
  <2>1. /\ leaf \in Covered(Nearest(TrailOf(decl), IsNotList))
        /\ Kind(At(Front(TrailOf(decl)))) \in ParameterLists =>
             leaf \notin Covered(Front(TrailOf(decl)))
    BY <1>1, <1>7, OneSort DEF Scope, Covered
  <2>2. LocalKnown(searched)
    BY <1>1, <1>2, <1>7 DEF CoversFor, CoversLocal
  <2> QED BY <1>2, <1>3, <1>7, <2>1, <2>2, LocalCovered
<1>8. IsType \/ IsBody \/ IsLocal
  BY <1>2 DEF CoversFor
<1> QED BY <1>5, <1>6, <1>7, <1>8

\* A search that is over has given find_all every place where the name of its
\* declaration may be used: the walk outward through blocks, types, the file,
\* the directories and the other folder leaves no gap but twins, which it cannot
\* tell apart, and what PassedOver names: a walk out of types that is cut short,
\* a local's own initializer, and what is outside its group of a switch.
THEOREM ScopeAlwaysCovered == Spec => []ScopeCovered
<1> DEFINE Kept == Inv /\ InFolder /\ Covers
<1>1. Init => Kept
  <2>1. Init => Covers
    BY DEF Init, Covers
  <2> QED BY <2>1, InvInit, BoundedAtFirst
<1>2. Kept /\ [Next]_vars => Kept'
  BY InvNext, InFolderKept, CoversKept
<1>3. Kept => ScopeCovered
  BY CoveredThen
<1> QED BY <1>1, <1>2, <1>3, PTL DEF Spec
-----------------------------------------------------------------------------
(* Which declarations stop the walk.                                       *)

StopsRight == panicked => decl # << >> /\ Stops(TrailOf(decl))

\* What stops depends on the tree and the declaration only.
LEMMA StopsNext ==
  ASSUME UNCHANGED <<tree, decl>>
  PROVE  Stops(TrailOf(decl))' <=> Stops(TrailOf(decl))
<1>1. ASSUME NEW n PROVE Kind(n)' = Kind(n) /\ Children(n)' = Children(n)
  BY DEF Kind, Children
<1>2. ASSUME NEW n PROVE Nameless(n)' <=> Nameless(n)
  BY <1>1 DEF Nameless
<1>3. TrailOf(decl)' = TrailOf(decl)
  OBVIOUS
<1>4. ASSUME NEW t PROVE At(t)' = At(t)
  BY DEF At
<1>5. ASSUME NEW t PROVE IsGround(t)' <=> IsGround(t)
  BY <1>1, <1>4 DEF IsGround
<1>6. ASSUME NEW t PROVE Ground(t)' = Ground(t)
  BY <1>5 DEF Ground, Nearest
<1> QED BY <1>1, <1>2, <1>3, <1>4, <1>6 DEF Stops

\* A type whose walk finds around its types no file, block or creation.
LEMMA TypeStops ==
  ASSUME Searches, IsType, NEW m \in 0 .. Steps - 1, Within(m + 1),
         Kind(At(Cut(m))) \notin TypeBodies \cup TypeDeclarations,
         Kind(At(Cut(m))) \notin {"Program"} \cup Blockers
  PROVE  decl # << >> /\ Stops(TrailOf(decl))
<1>1. tree \in DOMAIN Trees /\ Way(decl) /\ decl # << >>
  BY DEF Searches
<1>2. Steps # 0 /\ At(TrailOf(decl)) = NodeOf(decl)
  <2>1. Steps \in Nat /\ At(TrailOf(decl)) = NodeOf(decl)
    BY <1>1, LastCut DEF Steps
  <2> QED BY <2>1
<1>3. Ground(TrailOf(decl)) = Cut(m)
  BY <1>1, <1>2, GroundIs
<1>4. Kind(At(TrailOf(decl))) \in SearchedTypes
  BY <1>2 DEF IsType
<1> QED BY <1>1, <1>3, <1>4 DEF Stops

\* The three panics of the walk.
LEMMA StoppedRight ==
  ASSUME Inv, InFolder, Covers, StopAtNameless \/ StopAtBody \/ StopAtOther
  PROVE  decl # << >> /\ Stops(TrailOf(decl))
<1>1. CASE StopAtNameless
  <2>1. decl # << >> /\ Nameless(NodeOf(decl))
    BY <1>1 DEF StopAtNameless
  <2>2. tree \in DOMAIN Trees /\ Way(decl)
    BY <2>1 DEF Inv, IteratorsRight
  <2>3. At(TrailOf(decl)) = NodeOf(decl)
    BY <2>2, LastCut
  <2> QED BY <2>1, <2>3 DEF Stops
<1>2. ASSUME search.stage \in {"types", "body", "enum"}
      PROVE  /\ Searches /\ IsType
             /\ \E f \in Nat, p \in Nat \ {0} : TypeWalking(f, p)
  <2>1. search # Idle /\ Searches
    BY <1>2, SearchesWhen
  <2>2. IsType
    BY <1>2, <2>1, StagesOf DEF Covers, CoversFor
  <2>3. tree \in DOMAIN Trees /\ Way(decl)
    BY <2>1 DEF Searches
  <2>4. PICK f \in Nat, p \in Nat \ {0} : Located(f, p)
    BY <2>1, <2>2, FolderOfDeclaration DEF Located
  <2>5. TypeWalking(f, p)
    BY <2>1, <2>2, <2>4, TypeWalkingWhen
  <2> QED BY <2>1, <2>2, <2>5
<1>3. CASE StopAtBody
  <2>1. /\ search.stage \in {"body", "enum"}
        /\ After("body") \/ After("enum")
        /\ Kind(Outward.curr) \notin TypeDeclarations
        /\ search.stage = "body" =>
             Kind(Outward.curr) \notin {"ObjectCreationExpression", "EnumBody"}
    BY <1>3 DEF StopAtBody, After
  <2>2. PICK f \in Nat, p \in Nat \ {0} : TypeWalking(f, p)
    BY <1>2, <2>1
  <2>3. PICK m \in 1 .. Steps :
          /\ m \in Nat \ {0} /\ search.curr = At(Cut(m)) /\ Within(m)
          /\ Fields(Outward) = <<search.stage, search.again, Cut(m - 1), At(Cut(m)),
                                 At(Cut(m - 1)), 1, search.outcome, search.saved>>
    BY <2>1, <2>2, BodyEnds
  <2>4. Outward.curr = At(Cut(m - 1))
    BY <2>3 DEF Fields
  <2>5. /\ tree \in DOMAIN Trees /\ Way(decl) /\ SearchRight(store, search)
        /\ Steps \in Nat \ {0}
    BY <2>2, TypeWalkingFacts
  <2>6. PICK inner, outer : inner = Kind(At(Cut(m))) /\ outer = Kind(At(Cut(m - 1)))
    OBVIOUS
  <2>7. /\ inner \in TypeBodies
        /\ search.stage = "enum" => inner = "EnumBody"
    BY <2>1, <2>3, <2>5, <2>6 DEF SearchRight, TypeBodies
  <2>8. outer \notin TypeBodies \cup {"Program", "Block", "ConstructorBody"}
    <3>1. outer \in TypeBodies \cup {"Program", "Block", "ConstructorBody"} =>
            outer = "EnumBody" /\ inner = "EnumBodyDeclarations"
      BY <2>5, <2>6, <2>7, GrammarAround
    <3> QED BY <2>1, <2>4, <2>6, <2>7, <3>1
  <2>9. outer # "ObjectCreationExpression"
    <3>1. outer = "ObjectCreationExpression" => inner = "ClassBody"
      BY <2>5, <2>6, <2>7, GrammarAround
    <3> QED BY <2>1, <2>4, <2>6, <2>7, <3>1
  <2>10. PICK k \in 0 .. Steps - 1 : k = m - 1 /\ k + 1 = m
    BY <2>3, <2>5
  <2>11. outer \notin TypeDeclarations
    BY <2>1, <2>4, <2>6
  <2>12. outer \notin {"Program"} \cup Blockers
    BY <2>8, <2>9 DEF Blockers, Innards
  <2>13. Searches /\ IsType
    BY <1>2, <2>1
  <2> QED BY <2>3, <2>6, <2>8, <2>10, <2>11, <2>12, <2>13, TypeStops
<1>4. CASE StopAtOther
  <2>1. /\ search.stage = "types"
        /\ Kind(search.curr) \notin TypeBodies \cup {"Program"} \cup Blockers
    BY <1>4 DEF StopAtOther
  <2>2. PICK f \in Nat, p \in Nat \ {0} : TypeWalking(f, p)
    BY <1>2, <2>1
  <2>3. /\ tree \in DOMAIN Trees /\ Way(decl) /\ WalkRight(store, search)
        /\ CoversType(searched, search, f, p) /\ Searches /\ IsType
    BY <2>2, TypeWalkingFacts DEF TypeWalking
  <2>4. PICK m \in 0 .. Steps - 1 :
          /\ Came(search, m) /\ Within(m + 1) /\ Kind(At(Cut(m + 1))) \in TypeDeclarations
    BY <2>1, <2>3 DEF CoversType
  <2>5. search.curr = At(Cut(m))
    BY <2>3, <2>4, CurrAt DEF Came
  <2>6. Kind(At(Cut(m))) \notin TypeDeclarations
    <3>1. m + 1 \in 1 .. Steps /\ (m + 1) - 1 = m
      BY <2>2, TypeWalkingFacts
    <3>2. Kind(At(Cut((m + 1) - 1))) \in TypeDeclarations =>
            Kind(At(Cut(m + 1))) \notin TypeDeclarations
      BY <2>3, <3>1, GrammarAround
    <3> QED BY <2>4, <3>1, <3>2
  <2> QED BY <2>1, <2>3, <2>4, <2>5, <2>6, TypeStops
<1> QED BY <1>1, <1>3, <1>4

\* Only those steps panic, and none comes after them.
LEMMA StopsKept ==
  ASSUME Inv, InFolder, Covers, StopsRight, [Next]_vars
  PROVE  StopsRight'
<1>1. CASE StopAtNameless \/ StopAtBody \/ StopAtOther
  <2>1. UNCHANGED <<tree, decl>>
    BY <1>1 DEF StopAtNameless, StopAtBody, StopAtOther
  <2>2. decl # << >> /\ Stops(TrailOf(decl))
    BY <1>1, StoppedRight
  <2> QED BY <2>1, <2>2, StopsNext DEF StopsRight
<1>2. CASE ClimbModules
  <2>1. IteratorRight(modules) /\ ~IsOver(modules) /\ Top(modules).open
        /\ panicked' = ~(Agrees(modules) /\ Check(Climb(modules).path))
    BY <1>2 DEF Inv, IteratorsRight, ClimbModules, ModulesMove
  <2>2. panicked' = FALSE
    BY <2>1, ClimbStands DEF Inv, IteratorsRight
  <2> QED BY <2>2 DEF StopsRight
<1>3. CASE ClimbDeclarations
  <2>1. IteratorRight(declarations) /\ ~IsOver(declarations) /\ Top(declarations).open
        /\ panicked' = ~(Agrees(declarations) /\ Check(Climb(declarations).path))
    BY <1>3 DEF Inv, IteratorsRight, ClimbDeclarations, DeclarationsMove
  <2>2. panicked' = FALSE
    BY <2>1, ClimbStands DEF Inv, IteratorsRight
  <2> QED BY <2>2 DEF StopsRight
<1>4. CASE LookForModule \/ NextFolder \/ LookForDeclaration \/ Unsearched
  <2>1. ~panicked /\ panicked' = panicked
    BY <1>4 DEF LookForModule, ModulesMove, NextFolder, LookForDeclaration,
                DeclarationsMove, Unsearched
  <2> QED BY <2>1 DEF StopsRight
<1>5. CASE BeginSearch \/ SearchChild \/ SkipChild \/ LeaveOwn \/ EnterBody \/ LeaveCreation
           \/ EnterEnum \/ LeaveType \/ LeaveBlockOfType \/ LeavePackageNameless
  <2>1. ~panicked /\ panicked' = panicked
    BY <1>5 DEF BeginSearch, SearchChild, SkipChild, LeaveOwn, EnterBody, LeaveCreation,
         EnterEnum, LeaveType, LeaveBlockOfType, LeavePackageNameless, After, AmongTypes,
         GoingOn, Searching
  <2> QED BY <2>1 DEF StopsRight
<1>6. CASE EnterProgram \/ LeaveProgram \/ LeavePackage \/ LeaveDirectories \/ SearchFolder
           \/ SkipFolder \/ LeaveFolders \/ LeaveBlock \/ LeaveThis \/ EndSearch
  <2>1. ~panicked /\ panicked' = panicked
    BY <1>6 DEF EnterProgram, LeaveProgram, LeavePackage, LeaveDirectories, SearchFolder,
         SkipFolder, LeaveFolders, LeaveBlock, LeaveThis, EndSearch, After, AmongTypes,
         AmongOthers, GoingOn, Searching
  <2> QED BY <2>1 DEF StopsRight
<1>7. CASE UNCHANGED vars
  <2>1. UNCHANGED <<tree, decl, panicked>>
    BY <1>7 DEF vars
  <2> QED BY <2>1, StopsNext DEF StopsRight
<1> QED BY <1>1, <1>2, <1>3, <1>4, <1>5, <1>6, <1>7 DEF Next, Iterate, GoThrough

\* The checks of every path hold and no assertion of the iterators fails; the
\* walk panics at declarations that Stops names and at no other: a resource
\* that is a field, a type of a record, a type below a statement without braces.
THEOREM LinksHold == Spec => []AlwaysLinked
<1> DEFINE Kept == Inv /\ InFolder /\ Covers /\ StopsRight
<1>1. Init => Kept
  <2>1. Init => Covers /\ StopsRight
    BY DEF Init, Covers, StopsRight
  <2> QED BY <2>1, InvInit, BoundedAtFirst
<1>2. Kept /\ [Next]_vars => Kept'
  BY InvNext, InFolderKept, CoversKept, StopsKept
<1>3. Kept => AlwaysLinked
  BY InvLinked DEF AlwaysLinked, StopsRight
<1> QED BY <1>1, <1>2, <1>3, PTL DEF Spec
=============================================================================
