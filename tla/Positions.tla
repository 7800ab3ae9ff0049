----------------------------- MODULE Positions -----------------------------
(***************************************************************************)
(* Positions in hyper syntax trees (hyper_ast/src/position.rs).  Equal     *)
(* subtrees are one node, so a node does not say where it is: a place is   *)
(* a path from the root.  A StructuralPosition is a whole path; a Scout is *)
(* the path from an entry (root) of a StructuralPositionStore, whose       *)
(* entries name the entry of their parent and are shared by all that was   *)
(* pushed.  An SpHandle is such an entry.  make_position turns the three   *)
(* into a file, an offset and a length; its assertions are in the operator *)
(* Linked, and a position it does not reach is Nowhere.                    *)
(*                                                                         *)
(* Indexes are those of TLA+: entry 1 is the root of the store, and        *)
(* offset o is the o-th child, as in the code (goto pushes i + 1).         *)
(***************************************************************************)
EXTENDS Naturals, SequencesExt

CONSTANT
  Trees       \* sequences of nodes: kind, label, children, bytes

\* each has a root, its last node, and children before their parents
ASSUME ChildrenFirst ==
  \A t \in DOMAIN Trees :
    /\ Len(Trees[t]) \in Nat \ {0} /\ DOMAIN Trees[t] = 1 .. Len(Trees[t])
    /\ \A n \in DOMAIN Trees[t] : Trees[t][n].children \in Seq(1 .. n - 1)

ASSUME BytesAssumption ==
  \A t \in DOMAIN Trees : \A n \in DOMAIN Trees[t] : Trees[t][n].bytes \in Nat

VARIABLE
  tree        \* which of them the node store holds

Nodes == DOMAIN Trees[tree]
Kind(n) == Trees[tree][n].kind
Label(n) == Trees[tree][n].label
Children(n) == Trees[tree][n].children

DirKinds == {"MavenDirectory", "Directory"}
HasLen(n) == Kind(n) \notin DirKinds

Total(numbers) == FoldSeq(+, 0, numbers)

\* get_bytes_len of every node, which is that of its text
BytesLens ==
  [t \in DOMAIN Trees |->
     LET T == Trees[t]
         len[n \in DOMAIN T] ==
           IF T[n].children = << >> THEN T[n].bytes
           ELSE Total([i \in DOMAIN T[n].children |-> len[T[n].children[i]]])
     IN  [n \in DOMAIN T |-> len[n]]]
BytesLen == BytesLens[tree]

\* how far below its start a node has its o-th child
Preceding(n, o) ==
  Total([i \in 1 .. o - 1 |-> BytesLen[Children(n)[i]]])

\* what check, check_with and the assertions verify of a parent and a child
Linked(parent, element) ==
  /\ element.offset \in DOMAIN Children(parent)
  /\ Children(parent)[element.offset] = element.node
-----------------------------------------------------------------------------
(* StructuralPosition: sequences of [node, offset].                        *)

New(node) == <<[node |-> node, offset |-> 0]>>

NodeOf(path) == Last(path).node
Check(path) == \A i \in 2 .. Len(path) : Linked(path[i - 1].node, path[i])

\* mutant: offsets from zero
GotoZero(path, node, o) == Append(path, [node |-> node, offset |-> o - 1])

Goto(path, node, o) == Append(path, [node |-> node, offset |-> o])
Inc(path, node) ==
  Front(path) \o <<[node |-> node, offset |-> Last(path).offset + 1]>>

Labels(path) == [i \in DOMAIN path |-> Label(path[i].node)]

Programs(path) == {i \in DOMAIN path : Kind(path[i].node) = "Program"}

\* the offset that the elements of a path above first add up to
Climbed(path, first) ==
  Total([k \in 1 .. Len(path) - first |->
           Preceding(path[first + k - 1].node, path[first + k].offset)])

Nowhere == [file |-> << >>, offset |-> 0, len |-> 0]

InFile(node) == HasLen(node) /\ Kind(node) # "Program"

LenAt(node) == IF HasLen(node) THEN BytesLen[node] ELSE 0

\* StructuralPosition::make_position, in a file or above
PathPosition(path) ==
  LET stop == IF Programs(path) = {} THEN Len(path)
              ELSE CHOOSE i \in Programs(path) : TRUE
  IN  IF ~Check(path) \/ (InFile(NodeOf(path)) /\ Programs(path) = {}) THEN Nowhere
      ELSE [file |-> Labels(SubSeq(path, 1, stop)),
            offset |-> Climbed(path, stop),
            len |-> LenAt(NodeOf(path))]
-----------------------------------------------------------------------------
(* Scouts [root, path] and the entries [node, offset, parent] of a store.  *)

NewStore(node) == <<[node |-> node, offset |-> 0, parent |-> 1]>>

\* the Scout of a path that starts at the root
ScoutOf(path) == [root |-> 1, path |-> Tail(path)]

NodeAlways(store, s) ==
  IF s.path = << >> THEN store[s.root].node ELSE NodeOf(s.path)

HasParents(s) == s.path # << >> \/ s.root # 1

Up(store, s) ==
  IF s.path # << >> THEN [s EXCEPT !.path = Front(@)]
  ELSE [s EXCEPT !.root = store[@].parent]

GotoChild(store, s, o) ==
  [s EXCEPT !.path = Goto(@, Children(NodeAlways(store, s))[o], o)]

\* mutant: an entry hangs from its own place in the store
PushedOnItself(store, s) ==
  store \o [k \in DOMAIN s.path |->
              [node |-> s.path[k].node, offset |-> s.path[k].offset,
               parent |-> IF k = 1 THEN s.root ELSE Len(store) + k]]

\* mutant: all that is pushed hangs from the root of the scout
PushedFlat(store, s) ==
  store \o [k \in DOMAIN s.path |->
              [node |-> s.path[k].node, offset |-> s.path[k].offset,
               parent |-> s.root]]

Pushed(store, s) ==
  store \o [k \in DOMAIN s.path |->
              [node |-> s.path[k].node, offset |-> s.path[k].offset,
               parent |-> IF k = 1 THEN s.root ELSE Len(store) + k - 1]]

\* the scout after its push; its root is the handle that push returns
Landed(store, s) ==
  IF s.path = << >> THEN s
  ELSE [root |-> Len(store) + Len(s.path), path |-> << >>]

StoreCheck(store) ==
  \A h \in 2 .. Len(store) : Linked(store[store[h].parent].node, store[h])

CheckWith(store, s) ==
  /\ Check(s.path)
  /\ s.path # << >> => Linked(store[s.root].node, s.path[1])
  /\ \A h \in 2 .. s.root : Linked(store[store[h].parent].node, store[h])

\* the entries from the root of the store to h, as a path
Lineage(store, h) ==
  LET line[e \in DOMAIN store] ==
        LET element == [node |-> store[e].node, offset |-> store[e].offset]
        IN  IF e = 1 THEN <<element>>
            ELSE Append(line[store[e].parent], element)
  IN  line[h]

\* make_position_aux from h, given what the scout found out below it
PositionAux(store, h, fromFile, len, offset, file) ==
  LET line == Lineage(store, h)
      files == {i \in Programs(line) : i < Len(line)}
      stop == CHOOSE i \in files : TRUE
  IN  IF ~fromFile
        THEN [file |-> Labels(line) \o file, offset |-> offset, len |-> len]
      ELSE IF files = {} THEN Nowhere
      ELSE [file |-> Labels(SubSeq(line, 1, stop)) \o file,
            offset |-> offset + Climbed(line, stop), len |-> len]

\* ExploreStructuralPositions::make_position
HandlePosition(store, h) ==
  IF ~StoreCheck(store) THEN Nowhere
  ELSE PositionAux(store, h, InFile(store[h].node), LenAt(store[h].node), 0, << >>)

\* Scout::make_position
ScoutPosition(store, s) ==
  LET node == NodeAlways(store, s)
      root == store[s.root].node
      stop == CHOOSE i \in Programs(s.path) : TRUE
  IN  IF ~Check(s.path) THEN Nowhere
      ELSE IF s.path = << >>
        THEN PositionAux(store, s.root, InFile(node), LenAt(node), 0, << >>)
      ELSE IF ~InFile(node)
        THEN PositionAux(store, s.root, FALSE, LenAt(node), 0, Labels(s.path))
      ELSE IF Programs(s.path) # {}
        THEN PositionAux(store, s.root, FALSE, LenAt(node),
                         Climbed(s.path, stop), Labels(SubSeq(s.path, 1, stop)))
      ELSE PositionAux(store, s.root, Kind(root) # "Program", LenAt(node),
                       Climbed(s.path, 1) + Preceding(root, s.path[1].offset),
                       << >>)
-----------------------------------------------------------------------------
(* Places by their trail, the offsets from the root of the tree to them:   *)
(* what the positions must say, whichever way a place was reached.         *)

Offsets(path) == [i \in DOMAIN path |-> path[i].offset]
TrailOf(path) == Tail(Offsets(path))

HandleTrail(store, h) == TrailOf(Lineage(store, h))
ScoutTrail(store, s) == HandleTrail(store, s.root) \o Offsets(s.path)

Root == Len(Trees[tree])

\* the nodes of a tree by the trails from its root to them
NodesAt(T) ==
  LET below[n \in DOMAIN T] ==
        {<< >>} \cup UNION {{<<o>> \o trail : trail \in below[T[n].children[o]]} :
                              o \in DOMAIN T[n].children}
  IN  [trail \in below[Len(T)] |->
         FoldLeft(LAMBDA n, o : T[n].children[o], Len(T), trail)]

\* a comes before b in the text, and is not around it
Before(a, b) ==
  \E i \in DOMAIN a \cap DOMAIN b :
    SubSeq(a, 1, i - 1) = SubSeq(b, 1, i - 1) /\ a[i] < b[i]

Above(trail) == {SubSeq(trail, 1, i) : i \in 0 .. Len(trail)}

FilesAround(T, node, trail) == {t \in Above(trail) : T[node[t]].kind = "Program"}

Text(T, node, trails) == MapThenSumSet(LAMBDA t : T[node[t]].bytes, trails)

PositionIn(T, node, leaves, trail, file) ==
  [file |-> [i \in 1 .. Len(file) + 1 |-> T[node[SubSeq(file, 1, i - 1)]].label],
   offset |-> Text(T, node, {l \in leaves : IsPrefix(file, l) /\ Before(l, trail)}),
   len |-> Text(T, node, {l \in leaves : IsPrefix(trail, l)})]

Described(T, node, leaves) ==
  [node |-> node, leaves |-> leaves,
   inFile |-> {t \in DOMAIN node : FilesAround(T, node, Front(t)) # {}},
   position |-> [t \in DOMAIN node |->
      IF FilesAround(T, node, t) = {}
        THEN PositionIn(T, node, {}, t, t)
      ELSE PositionIn(T, node, leaves, t, CHOOSE f \in FilesAround(T, node, t) : TRUE)]]

WithLeaves(T, node) ==
  Described(T, node, {t \in DOMAIN node : T[node[t]].children = << >>})

\* The places of each tree: their nodes, and their file, offset and length as
\* they are read off the leaves, the text, of the tree.
Places == [t \in DOMAIN Trees |-> WithLeaves(Trees[t], NodesAt(Trees[t]))]

Trails == DOMAIN Places[tree].node
TrailsInFiles == Places[tree].inFile
Leaves == Places[tree].leaves
At(trail) == Places[tree].node[trail]
PositionAt(trail) == Places[tree].position[trail]
FileAt(trail) == {t \in Above(trail) : Kind(At(t)) = "Program"}
=============================================================================
