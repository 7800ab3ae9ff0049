------------------------------ MODULE TreeGen ------------------------------
(***************************************************************************)
(* From concrete to hyper syntax trees: TreeGen::gen of hyper_ast/src/     *)
(* tree_gen/mod.rs walks the tree that tree-sitter parsed, with the        *)
(* callbacks of JavaTreeGen and XmlTreeGen, which fill the same stores.    *)
(*                                                                         *)
(* A step of this module is an iteration of the loop of `gen`.  The node   *)
(* store answers here as Interner says it does (NodeStore implements it):  *)
(* a content has one id.  The PartialAnalysis kept next to the metrics is  *)
(* left out.                                                               *)
(***************************************************************************)
EXTENDS NodeHash, Sequences, SequencesExt

CONSTANTS
  Java, Xml,        \* the generators
  Error,            \* tree-sitter's ERROR kind, Type::Error of both
  SpacesKind,       \* Type::Spaces
  None,             \* an absent component, cursor, or length
  Down, Up, Right,  \* enum Has
  Byte,             \* what texts are made of
  Files,            \* [lang, name, text, tree] that may be parsed
  Untyped,          \* the kinds of nodes without a Type, as <<lang, kind>>
  Spelling(_),      \* Type::to_string of the kinds of keywords
  Formatted(_),     \* Space of a byte, or None: format_indentation
  LineBreak,        \* line_break, as a byte
  KindHash(_), LabelHash(_), BlankHash(_),   \* clamped DefaultHasher hashes
  MaxFiles          \* bound: files generated

VARIABLES
  nodes,     \* stores.node_store: the entities
  mdCache,   \* the md_cache of JavaTreeGen, kept from file to file
  file,      \* the file in progress, or None
  cursor,    \* the node of its tree under the cursor
  has, stack, sum,   \* the locals of gen
  results,   \* what generate_file returned: [file, id, metrics]
  panicked   \* whether a panic ended the process

vars == <<nodes, mdCache, file, cursor, has, stack, sum, results, panicked>>
ASSUME ConstantsAssumption ==
  /\ Java # Xml
  /\ Down # Up /\ Right # Up
  /\ None \notin Files /\ None \notin Byte /\ None \notin Seq(Byte)
-----------------------------------------------------------------------------
(* The concrete tree: nodes in preorder, [kind, named, start, end, parent]. *)

ChildrenIn(f, i) == {j \in DOMAIN f.tree : f.tree[j].parent = i}

\* Types of the two languages are distinct, but for ERROR
TypeIn(f, kind) == IF kind = Error THEN kind ELSE <<f.lang, kind>>

\* What tree-sitter says of a text: nodes lie in their parents, one after the
\* other, and a leaf without a name is its keyword (one that the parser
\* supposed, MISSING, is not: it has no text).  All tokens of the grammar of
\* Java are nodes, so a node ends with its last child, and the root starts with
\* its first; that of XML hides some, as the end of a prolog.
Parsed(f) ==
  /\ f.lang \in {Java, Xml} /\ f.name \in Seq(Byte) /\ f.text \in Seq(Byte)
  /\ f.tree \in Seq(Range(f.tree)) /\ 1 \in DOMAIN f.tree
  /\ f.tree[1].parent \notin DOMAIN f.tree
  /\ f.lang = Java /\ ChildrenIn(f, 1) # {} =>
       \E j \in ChildrenIn(f, 1) : f.tree[j].start = f.tree[1].start
  /\ \A i \in DOMAIN f.tree : LET n == f.tree[i] IN
       /\ i # 1 => n.parent \in 1..(i - 1)
       /\ i # 1 => \A j \in (n.parent + 1)..(i - 1) : f.tree[j].parent >= n.parent
       /\ n.start \in 0..n.end /\ n.end \in 0..Len(f.text)
       /\ TypeIn(f, n.kind) # SpacesKind
       /\ TypeIn(f, n.kind) = Error => n.kind = Error
       /\ \A j \in ChildrenIn(f, i) :
            /\ n.start <= f.tree[j].start /\ f.tree[j].end <= n.end
            /\ \A k \in ChildrenIn(f, i) : j < k => f.tree[j].end <= f.tree[k].start
       /\ f.lang = Java /\ i # 1 /\ ChildrenIn(f, i) # {} =>
            \E j \in ChildrenIn(f, i) : f.tree[j].end = n.end
       /\ i # 1 /\ ChildrenIn(f, i) = {} /\ ~n.named =>
            Spelling(TypeIn(f, n.kind)) = SubSeq(f.text, n.start + 1, n.end)

ASSUME FilesAssumption == \A f \in Files : Parsed(f)

ASSUME FormattedAssumption ==
  \A b \in Byte : Formatted(b) # None =>
    Formatted(b) \in Byte /\ Formatted(Formatted(b)) = Formatted(b)

Cst == file.tree
Children(i) == ChildrenIn(file, i)
NextSiblings(i) == {j \in Children(Cst[i].parent) : j > i}
First(S) == CHOOSE i \in S : \A j \in S : i <= j

\* text[from..to]
Slice(from, to) == SubSeq(file.text, from + 1, to)

\* get and get_xml of the type store, which panic on a kind they do not know
HasType(i) == TypeIn(file, Cst[i].kind) \notin Untyped
TypeOf(kind) == TypeIn(file, kind)

ExtractLabel(i) ==
  IF Children(i) = {} /\ Cst[i].named THEN Slice(Cst[i].start, Cst[i].end)
  ELSE None
-----------------------------------------------------------------------------
(* Metrics: the size, height and syntax hash of SubTreeMetrics.            *)

NoMetrics == [size |-> 0, height |-> 0, syntax |-> 0]

AccMetrics(m, o) ==
  [size |-> m.size + o.size,
   height |-> IF m.height < o.height THEN o.height ELSE m.height,
   syntax |-> WrappingAdd(m.syntax, o.syntax)]

NodeMetrics(kind, label, m) ==
  [size |-> m.size + 1,
   height |-> m.height + 1,
   syntax |-> InnerNodeHash(KindHash(kind), LabelHash(label),
                            m.size, m.syntax)]

SpacesMetrics(blank) == [size |-> 1, height |-> 1, syntax |-> BlankHash(blank)]
-----------------------------------------------------------------------------
(* Accumulators, and the entities made of them.                            *)

\* mutant: the accumulator forgets where its gap begins
NewAccUnpadded(i, label, padding) ==
  [kind |-> TypeOf(Cst[i].kind), label |-> label, children |-> << >>,
   start |-> Cst[i].start, end |-> Cst[i].end, padding |-> Cst[i].start,
   metrics |-> NoMetrics]

NewAcc(i, label, padding) ==
  [kind |-> TypeOf(Cst[i].kind), label |-> label, children |-> << >>,
   start |-> Cst[i].start, end |-> Cst[i].end, padding |-> padding,
   metrics |-> NoMetrics]

Push(acc, id, metrics) ==
  [acc EXCEPT !.children = Append(@, id),
              !.metrics = AccMetrics(@, metrics)]

\* mutant: the label of a node that has children is left out
ContentUnlabelled(acc) ==
  [kind |-> acc.kind,
   label |-> IF acc.children = << >> THEN acc.label ELSE None,
   children |-> acc.children, blank |-> None]

Content(acc) ==
  [kind |-> acc.kind, label |-> acc.label, children |-> acc.children,
   blank |-> None]

BlankContent(blank) ==
  [kind |-> SpacesKind, label |-> None, children |-> << >>, blank |-> blank]

\* BytesLen: on the nodes of the one generator, on the spaces of the other
\* mutant: the length includes the gap
NodeLenPadded(acc) == IF file.lang = Java THEN acc.end - acc.padding ELSE None

NodeLen(acc) == IF file.lang = Java THEN acc.end - acc.start ELSE None
SpacesLen(blank) == IF file.lang = Xml THEN Len(blank) ELSE None

\* mutant: the id of a fresh entity is read before it is pushed
InternEarly(ns, content, bytesLen, syntax) ==
  LET known == {i \in DOMAIN ns : ns[i].content = content}
  IN  IF known # {}
      THEN [nodes |-> ns, id |-> First(known), hit |-> TRUE]
      ELSE [nodes |-> Append(ns, [content |-> content, syntax |-> syntax,
                                  bytesLen |-> bytesLen]),
            id |-> Len(ns), hit |-> FALSE]

\* An answer of the store: [nodes, id, hit]
Intern(ns, content, bytesLen, syntax) ==
  LET known == {i \in DOMAIN ns : ns[i].content = content}
  IN  IF known # {}
      THEN [nodes |-> ns, id |-> First(known), hit |-> TRUE]
      ELSE [nodes |-> Append(ns, [content |-> content, syntax |-> syntax,
                                  bytesLen |-> bytesLen]),
            id |-> Len(ns) + 1, hit |-> FALSE]

(* handle_spacing: the gap before a node becomes a child of its parent.    *)
(* get_spacing panics on a byte that is not a Space, try_get_spacing gives *)
(* the gap up.                                                             *)

Gap(from, to) == [k \in 1..(to - from) |-> Formatted(file.text[from + k])]
IsBlank(gap) == \A k \in DOMAIN gap : gap[k] # None

HandleSpacing(ns, parent, from, to) ==
  LET gap == Gap(from, to)
      m == SpacesMetrics(gap)
      put == Intern(ns, BlankContent(gap), SpacesLen(gap), m.syntax)
  IN  IF from = to \/ ~IsBlank(gap)
      THEN [nodes |-> ns, parent |-> parent, ok |-> from = to \/ file.lang = Xml]
      ELSE [nodes |-> put.nodes, parent |-> Push(parent, put.id, m), ok |-> TRUE]

\* mutant: a childless node is not remembered
MakeForgetful(ns, acc) ==
  LET m == NodeMetrics(acc.kind, acc.label, acc.metrics)
      put == Intern(ns, Content(acc), NodeLen(acc), m.syntax)
      ok == put.hit => put.id \in DOMAIN mdCache
  IN  [nodes |-> put.nodes, id |-> put.id, ok |-> ok,
       metrics |-> IF put.hit /\ ok THEN mdCache[put.id] ELSE m,
       cache |-> IF ~put.hit /\ acc.children # << >>
                 THEN [i \in DOMAIN mdCache \cup {put.id} |->
                         IF i = put.id THEN m ELSE mdCache[i]]
                 ELSE mdCache]

(* make: intern the node.  JavaTreeGen takes the metrics of a node that is *)
(* already there from md_cache, and panics if it has none; XmlTreeGen      *)
(* computes them again.                                                    *)
Make(ns, acc) ==
  LET m == NodeMetrics(acc.kind, acc.label, acc.metrics)
      put == Intern(ns, Content(acc), NodeLen(acc), m.syntax)
      cached == file.lang = Java /\ put.hit
      ok == cached => put.id \in DOMAIN mdCache
  IN  [nodes |-> put.nodes, id |-> put.id, ok |-> ok,
       metrics |-> IF cached /\ ok THEN mdCache[put.id] ELSE m,
       cache |-> IF file.lang = Java /\ ~put.hit
                 THEN [i \in DOMAIN mdCache \cup {put.id} |->
                         IF i = put.id THEN m ELSE mdCache[i]]
                 ELSE mdCache]
-----------------------------------------------------------------------------
Init ==
  /\ nodes = << >>
  /\ mdCache = << >>
  /\ file = None
  /\ cursor = None
  /\ has = None
  /\ stack = << >>
  /\ sum = 0
  /\ results = << >>
  /\ panicked = FALSE

Panic ==
  /\ panicked' = TRUE
  /\ UNCHANGED <<nodes, mdCache, file, cursor, has, stack, sum, results>>

Running == file # None /\ ~panicked

\* generate_file, before gen.  The label of the root is the file's name;
\* only JavaTreeGen handles the spaces before the root.
GenerateFile(f) ==
  /\ file = None
  /\ Len(results) < MaxFiles
  /\ file' = f
  /\ cursor' = 1
  /\ has' = Down
  /\ sum' = 0
  /\ stack' = << >>
  /\ UNCHANGED <<nodes, mdCache, results, panicked>>

Top == stack[Len(stack)]
Parent == stack[Len(stack) - 1]
Below == SubSeq(stack, 1, Len(stack) - 2)

\* compute_indentation, which panics at a byte without format after the last
\* line break.  handle_spacing formats the same gap, but for the one before the
\* root of an XML file.
Indented(to) ==
  \A k \in 1..to :
    /\ \E j \in 1..k : file.text[j] = LineBreak
    /\ \A j \in k..to : file.text[j] # LineBreak
    => Formatted(file.text[k]) # None

InitVal ==
  /\ Running
  /\ stack = << >>
  /\ LET init == NewAcc(1, file.name, 0)
         lead == HandleSpacing(nodes, init, 0, IF file.lang = Java
                                               THEN init.start ELSE 0)
     IN  IF HasType(1) /\ Indented(init.start) /\ lead.ok
         THEN /\ nodes' = lead.nodes
              /\ stack' = <<lead.parent>>
              /\ UNCHANGED <<mdCache, file, cursor, has, sum, results, panicked>>
         ELSE Panic

\* cursor.goto_first_child(): pre
Descend ==
  /\ Running
  /\ stack # << >>
  /\ has # Up
  /\ Children(cursor) # {}
  /\ LET child == First(Children(cursor))
     IN  /\ HasType(child)
         /\ cursor' = child
         /\ sum' = Cst[cursor].start
         /\ stack' = Append(stack, NewAcc(child, ExtractLabel(child), sum'))
  /\ has' = Down
  /\ UNCHANGED <<nodes, mdCache, file, results, panicked>>

\* mutant: only a leaf is closed
ClosingLeaf == Running /\ stack # << >> /\ Children(cursor) = {}

Closing == Running /\ stack # << >> /\ (has = Up \/ Children(cursor) = {})

\* stack.pop() and post: the spaces before the node, then the node.  The one
\* outcome is bound by \E, for TLC to compute it once.
PostSpaces == {HandleSpacing(nodes, Parent, Top.padding, Top.start)}
PostNode(gap) ==
  {[node |-> node, ok |-> gap.ok /\ node.ok,
    parent |-> Push(gap.parent, node.id, node.metrics)] :
     node \in {Make(gap.nodes, Top)}}
Post == UNION {PostNode(gap) : gap \in PostSpaces}

\* after post, cursor.goto_next_sibling(): pre
Advance ==
  /\ Closing
  /\ Len(stack) > 1
  /\ NextSiblings(cursor) # {}
  /\ \E post \in Post :
       /\ post.ok
       /\ HasType(First(NextSiblings(cursor)))
       /\ cursor' = First(NextSiblings(cursor))
       /\ sum' = Cst[cursor].end
       /\ stack' = Below \o <<post.parent,
                              NewAcc(cursor', ExtractLabel(cursor'), sum')>>
       /\ nodes' = post.node.nodes
       /\ mdCache' = post.node.cache
  /\ has' = Right
  /\ UNCHANGED <<file, results, panicked>>

\* after post, cursor.goto_parent()
Ascend ==
  /\ Closing
  /\ Len(stack) > 1
  /\ NextSiblings(cursor) = {}
  /\ \E post \in Post :
       /\ post.ok
       /\ stack' = Append(Below, post.parent)
       /\ nodes' = post.node.nodes
       /\ mdCache' = post.node.cache
  /\ cursor' = Cst[cursor].parent
  /\ sum' = Cst[cursor].end
  /\ has' = Up
  /\ UNCHANGED <<file, results, panicked>>

PostPanics ==
  /\ Closing
  /\ Len(stack) > 1
  /\ \E post \in Post : ~post.ok
  /\ Panic

\* pre, on a node whose kind has no Type
PrePanics ==
  /\ Running
  /\ stack # << >>
  /\ IF has # Up /\ Children(cursor) # {}
     THEN ~HasType(First(Children(cursor)))
     ELSE Len(stack) > 1 /\ NextSiblings(cursor) # {}
          /\ ~HasType(First(NextSiblings(cursor)))
  /\ Panic

\* gen returned `sum`: handle_final_space and the root's make
FinalSpaces == {HandleSpacing(nodes, Top, sum,
                  IF sum < Len(file.text) THEN Len(file.text) ELSE sum)}
Whole ==
  UNION {{[root EXCEPT !.ok = last.ok /\ root.ok] :
            root \in {Make(last.nodes, last.parent)}} : last \in FinalSpaces}

Return ==
  /\ Closing
  /\ Len(stack) = 1
  /\ \E whole \in Whole :
       /\ whole.ok
       /\ nodes' = whole.nodes
       /\ mdCache' = whole.cache
       /\ results' = Append(results, [file |-> file, id |-> whole.id,
                                      metrics |-> whole.metrics])
  /\ file' = None
  /\ cursor' = None
  /\ has' = None
  /\ stack' = << >>
  /\ sum' = 0
  /\ UNCHANGED panicked

ReturnPanics ==
  /\ Closing
  /\ Len(stack) = 1
  /\ \E whole \in Whole : ~whole.ok
  /\ Panic

Step == InitVal \/ Descend \/ Advance \/ Ascend \/ PrePanics \/ PostPanics
        \/ Return \/ ReturnPanics

Next == Step \/ \E f \in Files : GenerateFile(f)

Spec == Init /\ [][Next]_vars

\* generate_file runs to its end: nothing in it waits
FairSpec == Spec /\ WF_vars(Step)
-----------------------------------------------------------------------------
(* What an entity stands for: its text, as `serialize` of hyper_ast/src/   *)
(* nodes.rs prints it, and its metrics, by the definitions above.          *)

TextOf ==
  LET text[i \in DOMAIN nodes] ==
        LET c == nodes[i].content
        IN  IF c.kind = SpacesKind THEN c.blank
            ELSE IF c.children # << >>
                 THEN FlattenSeq([k \in DOMAIN c.children |-> text[c.children[k]]])
            ELSE IF c.label # None THEN c.label
            ELSE Spelling(c.kind)
  IN  text

Accumulated(metrics) ==
  LET upTo[k \in 0..Len(metrics)] ==
        IF k = 0 THEN NoMetrics ELSE AccMetrics(upTo[k - 1], metrics[k])
  IN  upTo[Len(metrics)]

MetricsOf ==
  LET metrics[i \in DOMAIN nodes] ==
        LET c == nodes[i].content
        IN  IF c.kind = SpacesKind THEN SpacesMetrics(c.blank)
            ELSE NodeMetrics(c.kind, c.label,
                   Accumulated([k \in DOMAIN c.children |-> metrics[c.children[k]]]))
  IN  metrics

\* A text up to the bytes (form feeds) that are formatted as another Space.
Canonical(text) ==
  [k \in DOMAIN text |->
     IF Formatted(text[k]) = None THEN text[k] ELSE Formatted(text[k])]

(* What the generators keep of a file: its leaves, and its gaps, but for   *)
(* those that XmlTreeGen gives up.  A gap reaches from the node before, or *)
(* from the start of the parent, to a node; the last one, to the end of the *)
(* file; JavaTreeGen also handles what precedes the root.                  *)
Youngest(S) == CHOOSE i \in S : \A j \in S : j <= i
Elders(f, i) == {j \in ChildrenIn(f, f.tree[i].parent) : j < i}
GapStart(f, i) ==
  IF Elders(f, i) # {} THEN f.tree[Youngest(Elders(f, i))].end
  ELSE IF f.tree[i].parent = 1 /\ f.lang = Java THEN 0
  ELSE f.tree[f.tree[i].parent].start

KeptGap(f, from, to) ==
  LET gap == [k \in 1..(to - from) |-> Formatted(f.text[from + k])]
  IN  IF \A k \in DOMAIN gap : gap[k] # None THEN gap ELSE << >>
GapBefore(f, i) == KeptGap(f, GapStart(f, i), f.tree[i].start)
LastGap(f) == KeptGap(f, f.tree[Youngest(ChildrenIn(f, 1))].end, Len(f.text))

\* byte k is kept
Within(k, from, to) == from < k /\ k <= to
InLeaf(f, k) ==
  \E i \in DOMAIN f.tree \ {1} :
    ChildrenIn(f, i) = {} /\ Within(k, f.tree[i].start, f.tree[i].end)
Kept(f, k) ==
  \/ InLeaf(f, k)
  \/ \E i \in DOMAIN f.tree \ {1} :
       GapBefore(f, i) # << >> /\ Within(k, GapStart(f, i), f.tree[i].start)
  \/ LastGap(f) # << >>
     /\ Within(k, f.tree[Youngest(ChildrenIn(f, 1))].end, Len(f.text))

\* what is kept of text[from..to], as serialize prints it
Reads(f, from, to) ==
  FlattenSeq([k \in 1..(to - from) |->
                IF Kept(f, from + k) THEN <<f.text[from + k]>> ELSE << >>])

(* Type correctness: a DAG of entities, accumulators whose children are    *)
(* entities, and a cache of entities.                                      *)
TypeOK ==
  /\ \A i \in DOMAIN nodes :
       \A k \in DOMAIN nodes[i].content.children :
         nodes[i].content.children[k] \in 1..(i - 1)
  /\ DOMAIN mdCache \subseteq DOMAIN nodes
  /\ file = None => cursor = None /\ has = None /\ stack = << >> /\ sum = 0
  /\ file # None =>
       /\ file.lang \in {Java, Xml}
       /\ cursor \in DOMAIN Cst
       /\ has \in {Down, Right, Up}
       /\ sum \in 0..Len(file.text)
       /\ \A d \in DOMAIN stack :
            \A k \in DOMAIN stack[d].children :
              stack[d].children[k] \in DOMAIN nodes
  /\ panicked \in BOOLEAN

(* At every step of the traversal the gaps and the children accumulated so *)
(* far, from the bottom of the stack to its top, spell what is kept of the *)
(* text before the next byte to handle: nothing else is lost, nothing is   *)
(* repeated or reordered by the order in which spaces, nodes and           *)
(* accumulators are pushed.  A file without any node is apart.             *)
Spelled(children) ==
  FlattenSeq([k \in DOMAIN children |-> TextOf[children[k]]])

OnStack(d) ==
  (IF d = 1 THEN << >> ELSE Reads(file, stack[d].padding, stack[d].start))
  \o Spelled(stack[d].children)

NothingLost ==
  Running /\ stack # << >> /\ Children(1) # {} =>
    Canonical(FlattenSeq([d \in DOMAIN stack |-> OnStack(d)]))
      = Canonical(Reads(file, 0, IF has = Up THEN sum ELSE Top.start))

(* And so a generated file reads back as what is kept of its text, the     *)
(* whole of it for Java, whatever files were generated before it.          *)
ReadsBackKept(r) ==
  /\ Canonical(TextOf[r.id]) = Canonical(Reads(r.file, 0, Len(r.file.text)))
  /\ r.file.lang = Java => Canonical(TextOf[r.id]) = Canonical(r.file.text)

RoundTrip ==
  /\ NothingLost
  /\ \A r \in Range(results) :
       ChildrenIn(r.file, 1) # {} => ReadsBackKept(r)

(* handle_final_space is called "to be a bijection": whatever the file is. *)
ReadsBack ==
  \A r \in Range(results) : Canonical(TextOf[r.id]) = Canonical(r.file.text)

(* The metrics that md_cache or make return for an id, and the hash stored *)
(* with it, are those of the subtree it stands for, whichever file or      *)
(* generator made it.  So the hash of a lookup depends only on the content *)
(* looked up, as NodeStore assumes.  The BytesLen kept with it, which eq    *)
(* does not compare, is the length of its text wherever it is shared, but  *)
(* for roots, whose length leaves their leading spaces out.                *)
Roots == {r.id : r \in Range(results)}
MetricsFaithful ==
  LET metrics == MetricsOf
  IN  /\ \A i \in DOMAIN mdCache : mdCache[i] = metrics[i]
      /\ \A r \in Range(results) : r.metrics = metrics[r.id]
      /\ \A i \in DOMAIN nodes : nodes[i].syntax = metrics[i].syntax
      /\ \A i \in DOMAIN nodes \ Roots :
           nodes[i].bytesLen # None => nodes[i].bytesLen = Len(TextOf[i])

(* The same file: the same tree, but for the names of inner nodes, over the *)
(* same leaves, and gaps that are kept as the same spaces.                 *)
SameNodeIn(f, g, i) ==
  LET m == f.tree[i]
      n == g.tree[i]
  IN  /\ TypeIn(f, m.kind) = TypeIn(g, n.kind)
      /\ i # 1 => m.parent = n.parent /\ GapBefore(f, i) = GapBefore(g, i)
      /\ i # 1 /\ ChildrenIn(f, i) = {} =>
           /\ m.named <=> n.named
           /\ m.named => SubSeq(f.text, m.start + 1, m.end)
                           = SubSeq(g.text, n.start + 1, n.end)

SameFile(f, g) ==
  /\ f.name = g.name
  /\ DOMAIN f.tree = DOMAIN g.tree
  /\ \A i \in DOMAIN f.tree : SameNodeIn(f, g, i)
  /\ LastGap(f) = LastGap(g)

(* Two generated files have the same root if, and only if, they are the    *)
(* same file: full compression neither merges nor duplicates, but for what *)
(* is given up.  Two XML files that differ in attribute values only share  *)
(* a root, as do two whose gaps hold other text without a format.          *)
SameRootSameFile ==
  \A p, q \in {r \in Range(results) : ChildrenIn(r.file, 1) # {}} :
    p.id = q.id <=> SameFile(p.file, q.file)

(* No unwrap or format of the generators fails, whatever the store holds   *)
(* and the cache lacks of the files before, but on ERROR nodes, on a kind  *)
(* without a Type, on a byte before the root that is not a Space and, for  *)
(* Java, on any such byte outside of the leaves.                           *)
NoPanic ==
  panicked =>
    \/ \E i \in DOMAIN Cst : Cst[i].kind = Error \/ ~HasType(i)
    \/ file.lang = Java /\ \E k \in DOMAIN file.text :
         ~InLeaf(file, k) /\ Formatted(file.text[k]) = None
    \/ \E k \in 1..Cst[1].start : Formatted(file.text[k]) = None

(* Every file that is begun ends, by a result or a panic.                  *)
Terminates == file # None ~> (file = None \/ panicked)
=============================================================================
