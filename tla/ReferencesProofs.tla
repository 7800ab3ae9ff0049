-------------------------- MODULE ReferencesProofs --------------------------
(***************************************************************************)
(* Theorems about solvers, for any labels and kinds of nodes, any hash and *)
(* any filters, and any number of nodes, references and subtrees.  The     *)
(* invariant that is inductive says that every list of nodes is sound      *)
(* (typed, grounded and without twins) and, during a plain copy, that the  *)
(* cache maps the nodes of the child one-to-one to nodes that are made of  *)
(* the same, renamed: which is why the assertion `similar' cannot fail.    *)
(* The walks along nodes (Hashes, Counts, Meanings, PartsOf) and Sum are   *)
(* functions chosen by their equations; the second half shows, by          *)
(* induction on places and on subsets, that such functions exist, and so   *)
(* what the filters hold, what copies stand for and what leaves a block.   *)
(***************************************************************************)
EXTENDS References, Induction, FiniteSetTheorems, SequenceTheorems, TLAPS

Sound(nodes) ==
  /\ nodes \in Seq(Node) /\ Len(nodes) >= 2
  /\ \A i \in DOMAIN nodes : \A j \in Below(nodes[i]) : j \in DOMAIN nodes /\ j < i
  /\ \A i, j \in DOMAIN nodes : nodes[i] = nodes[j] => i = j

\* Places of nodes that are no primitives.
RefsOf(nodes, refs) ==
  \A r \in refs : r \in DOMAIN nodes /\ ~IsPrimitive(nodes, r)

AccOK ==
  /\ acc = [nodes |-> acc.nodes, refs |-> acc.refs, decls |-> acc.decls]
  /\ Sound(acc.nodes)
  /\ RefsOf(acc.nodes, acc.refs)
  /\ \A v \in DOMAIN acc.decls : acc.decls[v] \in DOMAIN acc.nodes

StoredOK == \A e \in stored : Sound(e.nodes) /\ RefsOf(e.nodes, e.refs)

JobOK ==
  /\ job = [mode |-> job.mode, nodes |-> job.nodes, refs |-> job.refs,
            current |-> job.current, cache |-> job.cache]
  /\ \A k \in DOMAIN job.cache :
       k \in DOMAIN job.nodes /\ job.cache[k] \in DOMAIN acc.nodes
  /\ job.mode # "none" => Sound(job.nodes) /\ RefsOf(job.nodes, job.refs)

\* A plain copy is one-to-one and keeps what a node is made of.
Faithful ==
  job.mode \in {"extend", "resolve"} =>
    /\ \A k \in DOMAIN job.cache :
         /\ Below(job.nodes[k]) \subseteq DOMAIN job.cache
         /\ acc.nodes[job.cache[k]] = Renamed(job.nodes[k], job.cache)
    /\ \A k, l \in DOMAIN job.cache : job.cache[k] = job.cache[l] => k = l

NeverFails == "class" \notin Modes => job.mode # "class" /\ ~failed

\* What a step keeps of the places, until the walk goes on to another subtree.
Grows ==
  acc' # NoSolver =>
    \A i \in DOMAIN acc.nodes : i \in DOMAIN acc'.nodes /\ acc'.nodes[i] = acc.nodes[i]

IInv == /\ AccOK /\ StoredOK /\ JobOK /\ Faithful /\ NeverFails
        /\ failed \in BOOLEAN

-----------------------------------------------------------------------------
(* intern gives a place to a node and leaves every other where it was.     *)
LEMMA InternSound ==
  ASSUME NEW nodes, Sound(nodes), NEW n \in Node, Below(n) \subseteq DOMAIN nodes
  PROVE  /\ Sound(Intern(nodes, n).nodes)
         /\ Intern(nodes, n).at \in DOMAIN Intern(nodes, n).nodes
         /\ Intern(nodes, n).nodes[Intern(nodes, n).at] = n
         /\ \A i \in DOMAIN nodes : /\ i \in DOMAIN Intern(nodes, n).nodes
                                    /\ Intern(nodes, n).nodes[i] = nodes[i]
<1>1. CASE \E i \in DOMAIN nodes : nodes[i] = n
  <2>1. PICK i \in DOMAIN nodes : nodes[i] = n
    BY <1>1
  <2>2. /\ Intern(nodes, n).nodes = nodes
        /\ Intern(nodes, n).at = CHOOSE j \in DOMAIN nodes : nodes[j] = n
    BY <1>1 DEF Intern
  <2>3. QED  BY <2>1, <2>2
<1>2. CASE ~ \E i \in DOMAIN nodes : nodes[i] = n
  <2> DEFINE more == Append(nodes, n)
             top == Len(nodes) + 1
  <2>1. Intern(nodes, n).nodes = more /\ Intern(nodes, n).at = top
    BY <1>2 DEF Intern
  <2>2. /\ nodes \in Seq(Node) /\ more \in Seq(Node)
        /\ Len(nodes) \in Nat /\ Len(more) = top
        /\ DOMAIN nodes = 1 .. Len(nodes) /\ DOMAIN more = 1 .. top
        /\ more[top] = n
        /\ \A i \in DOMAIN nodes : more[i] = nodes[i]
    BY AppendProperties, LenProperties DEF Sound
  <2>3. \A i \in DOMAIN more : i \in DOMAIN nodes \/ i = top
    BY <2>2
  <2>4. ASSUME NEW i \in DOMAIN more, NEW j \in Below(more[i])
        PROVE  j \in DOMAIN more /\ j < i
    <3>1. CASE i \in DOMAIN nodes
      BY <3>1, <2>2 DEF Sound
    <3>2. CASE i = top
      BY <3>2, <2>2
    <3>3. QED  BY <2>3, <3>1, <3>2
  <2>5. ASSUME NEW i \in DOMAIN more, NEW j \in DOMAIN more, more[i] = more[j]
        PROVE  i = j
    BY <2>2, <2>3, <2>5, <1>2 DEF Sound
  <2>6. Sound(more)
    BY <2>2, <2>4, <2>5 DEF Sound
  <2>7. QED
    BY <2>1, <2>2, <2>6
<1>3. QED  BY <1>1, <1>2

(* When a record is a node made of the places in P.                        *)
IsRecord(n) == n = [kind |-> n.kind, label |-> n.label, object |-> n.object,
                    args |-> n.args, any |-> n.any]

(* A node is the record of its fields.                                     *)
LEMMA NodeRecord ==
  ASSUME NEW n, IsRecord(n), n.kind \in Kinds, n.label \in Labels \cup {""},
         n.object \in Nat, n.args \in Seq(Nat), n.any \in SUBSET Nat,
         n.object = 0 <=> n.kind \in Leafs \cup {"Or"}
  PROVE  n \in Node
<1> DEFINE L == Labels \cup {""}
           R == [kind : Kinds, label : L, object : Nat, args : Seq(Nat), any : SUBSET Nat]
<1>1. n.label \in L
  OBVIOUS
<1> HIDE DEF L
<1>2. n \in R
  BY <1>1 DEF IsRecord
<1> USE DEF L
<1> HIDE DEF R
<1>3. Node = {m \in R : m.object = 0 <=> m.kind \in Leafs \cup {"Or"}}
  BY DEF Node, R
<1>4. QED  BY <1>2, <1>3

(* The places a node names are those of its parts.                         *)
LEMMA BelowWithin ==
  ASSUME NEW P, NEW n, n.object \in P \cup {0}, Elements(n.args) \subseteq P,
         n.any \subseteq P
  PROVE  Below(n) \subseteq P
BY DEF Below

(* A node renamed by a cache is a node, made of what the cache answers.    *)
LEMMA RenamedIsNode ==
  ASSUME NEW n \in Node, NEW cache, NEW P \in SUBSET Nat,
         Below(n) \subseteq DOMAIN cache,
         \A k \in DOMAIN cache : cache[k] \in P, 0 \notin P
  PROVE  /\ Renamed(n, cache) \in Node
         /\ Below(Renamed(n, cache)) \subseteq P
<1> DEFINE o == IF n.object = 0 THEN 0 ELSE cache[n.object]
           a == [i \in DOMAIN n.args |-> cache[n.args[i]]]
           y == {cache[x] : x \in n.any}
<1>1. /\ n.object \in Nat /\ n.args \in Seq(Nat) /\ n.any \in SUBSET Nat
      /\ n.kind \in Kinds /\ n.label \in Labels \cup {""}
      /\ n.object = 0 <=> n.kind \in Leafs \cup {"Or"}
  BY DEF Node
<1>2. /\ n.object # 0 => n.object \in DOMAIN cache
      /\ \A i \in DOMAIN n.args : n.args[i] \in DOMAIN cache
      /\ \A x \in n.any : x \in DOMAIN cache
  BY <1>1 DEF Below, Elements
<1>3. o \in P \cup {0} /\ o \in Nat /\ y \in SUBSET P /\ y \in SUBSET Nat
      /\ (o = 0 <=> n.object = 0)
  BY <1>2
<1>4. /\ DOMAIN n.args = 1 .. Len(n.args) /\ Len(n.args) \in Nat
      /\ \A i \in 1 .. Len(n.args) : a[i] \in P
  BY <1>1, <1>2, LenProperties
<1>5. a \in Seq(Nat) /\ Elements(a) \subseteq P
  <2>1. a \in [1 .. Len(n.args) -> Nat]
    BY <1>4
  <2>2. a \in Seq(Nat) /\ DOMAIN a = 1 .. Len(n.args)
    BY <2>1, <1>4
  <2>3. \A i \in DOMAIN a : a[i] \in P
    BY <2>2, <1>4
  <2> HIDE DEF a
  <2>4. QED  BY <2>2, <2>3 DEF Elements
<1> HIDE DEF o, a, y
<1> DEFINE m == [kind |-> n.kind, label |-> n.label, object |-> o, args |-> a, any |-> y]
<1>6. /\ m.kind = n.kind /\ m.label = n.label /\ m.object = o /\ m.args = a
      /\ m.any = y /\ IsRecord(m)
  BY DEF IsRecord
<1>7. m = Renamed(n, cache)
  BY DEF Renamed, o, a, y
<1> HIDE DEF m
<1>8. m \in Node /\ Below(m) \subseteq P
  BY <1>1, <1>3, <1>5, <1>6, NodeRecord, BelowWithin
<1>9. QED  BY <1>7, <1>8

(* Renaming by a cache that knows more gives the same.                     *)
LEMMA RenamedAgrees ==
  ASSUME NEW n \in Node, NEW f, NEW g, Below(n) \subseteq DOMAIN f,
         \A x \in DOMAIN f : x \in DOMAIN g /\ g[x] = f[x]
  PROVE  Renamed(n, g) = Renamed(n, f)
<1>1. /\ n.object # 0 => n.object \in DOMAIN f
      /\ \A i \in DOMAIN n.args : n.args[i] \in DOMAIN f
      /\ \A x \in n.any : x \in DOMAIN f
  BY DEF Below, Elements, Node
<1>2. (IF n.object = 0 THEN 0 ELSE g[n.object]) = IF n.object = 0 THEN 0 ELSE f[n.object]
  BY <1>1
<1>3. [i \in DOMAIN n.args |-> g[n.args[i]]] = [i \in DOMAIN n.args |-> f[n.args[i]]]
  BY <1>1
<1>4. {g[x] : x \in n.any} = {f[x] : x \in n.any}
  BY <1>1
<1>5. QED  BY <1>2, <1>3, <1>4 DEF Renamed

(* A one-to-one cache tells apart what differs.                            *)
LEMMA RenamingInjective ==
  ASSUME NEW m \in Node, NEW n \in Node, NEW f,
         Below(m) \subseteq DOMAIN f, Below(n) \subseteq DOMAIN f,
         \A x, y \in DOMAIN f : f[x] = f[y] => x = y,
         \A x \in DOMAIN f : f[x] # 0,
         Renamed(m, f) = Renamed(n, f)
  PROVE  m = n
<1>1. /\ m.object # 0 => m.object \in DOMAIN f
      /\ \A i \in DOMAIN m.args : m.args[i] \in DOMAIN f
      /\ \A x \in m.any : x \in DOMAIN f
  BY DEF Below, Elements, Node
<1>2. /\ n.object # 0 => n.object \in DOMAIN f
      /\ \A i \in DOMAIN n.args : n.args[i] \in DOMAIN f
      /\ \A x \in n.any : x \in DOMAIN f
  BY DEF Below, Elements, Node
<1>3. /\ m.kind = n.kind /\ m.label = n.label
      /\ (IF m.object = 0 THEN 0 ELSE f[m.object]) = IF n.object = 0 THEN 0 ELSE f[n.object]
      /\ [i \in DOMAIN m.args |-> f[m.args[i]]] = [i \in DOMAIN n.args |-> f[n.args[i]]]
      /\ {f[x] : x \in m.any} = {f[x] : x \in n.any}
  BY DEF Renamed
<1>4. m.object = n.object
  BY <1>1, <1>2, <1>3
<1>5. m.any = n.any
  <2>1. \A x \in m.any : \E y \in n.any : f[x] = f[y]
    BY <1>3
  <2>2. \A y \in n.any : \E x \in m.any : f[x] = f[y]
    BY <1>3
  <2>3. \A x : x \in m.any <=> x \in n.any
    BY <1>1, <1>2, <2>1, <2>2
  <2>4. m.any \in SUBSET Nat /\ n.any \in SUBSET Nat
    BY DEF Node
  <2>5. QED  BY <2>3, <2>4
<1>6. m.args = n.args
  <2>1. DOMAIN m.args = DOMAIN n.args
    BY <1>3
  <2>2. ASSUME NEW i \in DOMAIN m.args PROVE m.args[i] = n.args[i]
    <3>1. [j \in DOMAIN m.args |-> f[m.args[j]]][i] = f[m.args[i]]
      OBVIOUS
    <3>2. [j \in DOMAIN n.args |-> f[n.args[j]]][i] = f[n.args[i]]
      BY <2>1
    <3>3. QED  BY <1>1, <1>2, <1>3, <2>1, <3>1, <3>2
  <2>3. /\ m.args \in Seq(Nat) /\ n.args \in Seq(Nat)
        /\ DOMAIN m.args = 1 .. Len(m.args) /\ DOMAIN n.args = 1 .. Len(n.args)
        /\ Len(m.args) \in Nat /\ Len(n.args) \in Nat
    BY LenProperties DEF Node
  <2>4. Len(m.args) = Len(n.args)
    <3>1. \A a, b \in Nat : 1 .. a = 1 .. b => a = b
      <4>1. SUFFICES ASSUME NEW a \in Nat, NEW b \in Nat, 1 .. a = 1 .. b
                     PROVE  a <= b
        OBVIOUS
      <4>2. CASE a = 0
        BY <4>2
      <4>3. CASE a > 0
        <5>1. a \in 1 .. a
          BY <4>3
        <5>2. QED  BY <4>1, <5>1
      <4>4. QED  BY <4>2, <4>3
    <3>2. QED  BY <2>1, <2>3, <3>1
  <2>5. QED  BY <2>2, <2>3, <2>4, SeqEqual
<1>7. IsRecord(m) /\ IsRecord(n)
  BY DEF Node, IsRecord
<1>8. QED
  BY <1>3, <1>4, <1>5, <1>6, <1>7 DEF IsRecord

(* Choices that are told apart stay as many when they are renamed.         *)
LEMMA RenamingKeepsCardinality ==
  ASSUME NEW S, IsFiniteSet(S), NEW f, S \subseteq DOMAIN f,
         \A x, y \in S : f[x] = f[y] => x = y
  PROVE  Cardinality({f[x] : x \in S}) = Cardinality(S)
<1> DEFINE T == {f[x] : x \in S}
           g == [x \in S |-> f[x]]
<1>1. g \in Bijection(S, T)
  BY DEF Bijection, Injection, Surjection, IsInjective
<1>2. ExistsBijection(S, T)
  BY <1>1 DEF ExistsBijection
<1>3. QED  BY <1>2, FS_Bijection

(* The nodes a subtree adds of its own are made of what is there.          *)
LEMMA TermsAreNodes ==
  ASSUME NEW nodes, Sound(nodes), NEW n \in Terms(nodes)
  PROVE  n \in Node /\ Below(n) \subseteq DOMAIN nodes
<1> DEFINE P == DOMAIN nodes
           A == Arguments(P)
           Y == Choices(P)
           L == Labels \cup {""}
           O == P \cup {0}
<1>1. P \subseteq Nat
  BY LenProperties DEF Sound
<1>2. n \in [kind : Used, label : L, object : O, args : A, any : Y]
  BY Zenon DEF Terms
<1>3. \A a \in A : a \in Seq(Nat) /\ Elements(a) \subseteq P
  <2>1. << >> \in Seq(Nat) /\ Elements(<< >>) = {}
    BY EmptySeq DEF Elements
  <2>2. \A a \in P : <<a>> \in Seq(Nat) /\ Elements(<<a>>) = {a}
    BY <1>1 DEF Elements
  <2>3. QED  BY <2>1, <2>2 DEF Arguments
<1>4. \A y \in Y : y \subseteq P
  BY DEF Choices
<1>5. \A o \in O : o \in Nat
  BY <1>1
<1>6. Used \subseteq Kinds
  BY UsedAssumption DEF Kinds, Leafs, Labelled, Plain, Calls
<1> HIDE DEF A, Y, L, O
<1>7. n.object = 0 <=> n.kind \in Leafs \cup {"Or"}
  BY DEF Terms, Shape
<1>8. /\ IsRecord(n) /\ n.kind \in Used /\ n.label \in L /\ n.object \in O
      /\ n.args \in A /\ n.any \in Y
  BY <1>2 DEF IsRecord
<1>9. n.object \in Nat /\ n.args \in Seq(Nat) /\ n.any \in SUBSET Nat
  BY <1>1, <1>3, <1>4, <1>5, <1>8
<1>10. n.label \in Labels \cup {""} /\ n.object \in P \cup {0}
  BY <1>8 DEF L, O
<1>11. n.kind \in Kinds /\ Elements(n.args) \subseteq P /\ n.any \subseteq P
  BY <1>3, <1>4, <1>6, <1>8
<1>12. QED
  BY <1>7, <1>8, <1>9, <1>10, <1>11, NodeRecord, BelowWithin

-----------------------------------------------------------------------------
(* An empty list of nodes is sound.                                       *)
LEMMA NoNodesSound == Sound(NoNodes)
<1>1. /\ Leaf("Root", "") \in Node /\ Below(Leaf("Root", "")) = {}
      /\ Leaf("MaybeMissing", "") \in Node /\ Below(Leaf("MaybeMissing", "")) = {}
  <2>1. \A k \in Kinds : /\ IsRecord(Leaf(k, "")) /\ Leaf(k, "").kind = k
                          /\ Leaf(k, "").label = "" /\ Leaf(k, "").object = 0
                          /\ Leaf(k, "").args = << >> /\ Leaf(k, "").any = {}
    BY DEF Leaf, IsRecord
  <2>2. \A k \in Leafs : k \in Kinds
    BY DEF Kinds
  <2>3. << >> \in Seq(Nat) /\ Elements(<< >>) = {} /\ {} \in SUBSET Nat /\ 0 \in Nat
        /\ "" \in Labels \cup {""}
    BY EmptySeq DEF Elements
  <2>4. \A k \in Leafs : Leaf(k, "") \in Node
    BY <2>1, <2>2, <2>3, NodeRecord
  <2>5. \A k \in Leafs : Below(Leaf(k, "")) = {}
    BY <2>1, <2>2, <2>3 DEF Below
  <2>6. "Root" \in Leafs /\ "MaybeMissing" \in Leafs
    BY DEF Leafs
  <2>7. QED  BY <2>4, <2>5, <2>6
<1>2. Leaf("Root", "") # Leaf("MaybeMissing", "")
  BY DEF Leaf
<1>3. /\ NoNodes \in Seq(Node) /\ Len(NoNodes) = 2 /\ DOMAIN NoNodes = 1 .. 2
      /\ NoNodes[1] = Leaf("Root", "") /\ NoNodes[2] = Leaf("MaybeMissing", "")
  <2> DEFINE a == Leaf("Root", "")
             b == Leaf("MaybeMissing", "")
  <2>1. a \in Node /\ b \in Node
    BY <1>1
  <2> HIDE DEF a, b
  <2>2. /\ <<a, b>> \in Seq(Node) /\ Len(<<a, b>>) = 2 /\ DOMAIN <<a, b>> = 1 .. 2
        /\ <<a, b>>[1] = a /\ <<a, b>>[2] = b
    BY <2>1
  <2>3. QED  BY <2>2 DEF NoNodes, a, b
<1>4. \A i \in DOMAIN NoNodes : Below(NoNodes[i]) = {}
  <2>1. \A i \in 1 .. 2 : i = 1 \/ i = 2
    OBVIOUS
  <2>2. QED  BY <1>1, <1>3, <2>1
<1>5. \A i, j \in DOMAIN NoNodes : NoNodes[i] = NoNodes[j] => i = j
  <2>1. \A i \in 1 .. 2 : i = 1 \/ i = 2
    OBVIOUS
  <2>2. NoNodes[1] # NoNodes[2]
    BY <1>2, <1>3
  <2>3. QED  BY <1>3, <2>1, <2>2
<1>6. Len(NoNodes) >= 2
  <2>1. Len(NoNodes) = 2
    BY <1>3
  <2>2. QED  BY <2>1
<1>7. QED
  BY <1>3, <1>4, <1>5, <1>6 DEF Sound

(* The invariant holds before anything is interned.                        *)
LEMMA InitIInv == Init => IInv
<1> SUFFICES ASSUME Init PROVE IInv
  OBVIOUS
<1>1. AccOK
  BY NoNodesSound DEF Init, NoSolver, AccOK, RefsOf
<1>2. JobOK /\ Faithful /\ NeverFails
  BY DEF Init, NoJob, JobOK, Faithful, NeverFails
<1>3. QED
  BY <1>1, <1>2 DEF Init, IInv, StoredOK

(* As long as a list of nodes only grows, what was said of places in it    *)
(* stays true.                                                             *)
LEMMA GrowthKeeps ==
  ASSUME NEW nodes, NEW more, NEW refs, RefsOf(nodes, refs),
         \A i \in DOMAIN nodes : i \in DOMAIN more /\ more[i] = nodes[i]
  PROVE  RefsOf(more, refs)
BY DEF RefsOf, IsPrimitive

(* A subtree adds a node of its own.                                       *)
LEMMA InternOwnIInv ==
  ASSUME IInv, NEW n \in Terms(acc.nodes), NEW asRef \in BOOLEAN, InternOwn(n, asRef)
  PROVE  IInv' /\ Grows
<1> DEFINE r == Intern(acc.nodes, n)
<1>1. n \in Node /\ Below(n) \subseteq DOMAIN acc.nodes /\ Sound(acc.nodes)
  BY TermsAreNodes DEF IInv, AccOK
<1>2. /\ Sound(r.nodes) /\ r.at \in DOMAIN r.nodes /\ r.nodes[r.at] = n
      /\ \A i \in DOMAIN acc.nodes : i \in DOMAIN r.nodes /\ r.nodes[i] = acc.nodes[i]
  BY <1>1, InternSound
<1>3. /\ acc' = [nodes |-> r.nodes, decls |-> acc.decls,
                 refs |-> IF asRef THEN acc.refs \cup {r.at} ELSE acc.refs]
      /\ UNCHANGED <<job, stored, failed>> /\ job = NoJob
      /\ asRef => n.kind # "Primitive"
  <2>1. acc = [nodes |-> acc.nodes, refs |-> acc.refs, decls |-> acc.decls]
    BY DEF IInv, AccOK
  <2>2. acc' = [acc EXCEPT !.nodes = r.nodes,
                          !.refs = IF asRef THEN @ \cup {r.at} ELSE @]
    BY DEF InternOwn
  <2> HIDE DEF r
  <2>3. QED  BY <2>1, <2>2 DEF InternOwn, Leafs
<1> HIDE DEF r
<1>4. RefsOf(acc'.nodes, acc'.refs)
  <2>1. RefsOf(r.nodes, acc.refs)
    BY <1>2, GrowthKeeps DEF IInv, AccOK
  <2>2. QED  BY <1>2, <1>3, <2>1 DEF RefsOf, IsPrimitive
<1>5. AccOK'
  BY <1>2, <1>3, <1>4 DEF IInv, AccOK
<1>6. JobOK' /\ Faithful' /\ NeverFails'
  BY <1>3 DEF IInv, JobOK, Faithful, NeverFails, NoJob
<1>7. QED
  BY <1>2, <1>3, <1>5, <1>6 DEF IInv, StoredOK, Grows

(* A declaration of the subtree.                                           *)
LEMMA DeclareIInv ==
  ASSUME IInv, NEW v \in DOMAIN acc.nodes, NEW t \in DOMAIN acc.nodes, Declare(v, t)
  PROVE  IInv' /\ Grows
<1>1. /\ acc' = [nodes |-> acc.nodes, refs |-> acc.refs,
                 decls |-> [x \in DOMAIN acc.decls \cup {v} |->
                              IF x = v THEN t ELSE acc.decls[x]]]
      /\ UNCHANGED <<job, stored, failed>> /\ job = NoJob
  BY DEF Declare, IInv, AccOK
<1>2. AccOK'
  BY <1>1 DEF IInv, AccOK
<1>3. JobOK' /\ Faithful' /\ NeverFails'
  BY <1>1 DEF IInv, JobOK, Faithful, NeverFails, NoJob
<1>4. QED
  BY <1>1, <1>2, <1>3 DEF IInv, StoredOK, Grows

(* Extend and LocalSolveExtend.                                            *)
LEMMA CopyStartIInv ==
  ASSUME IInv, NEW e \in stored, Extend(e) \/ LocalSolveExtend(e)
  PROVE  IInv' /\ Grows
<1>1. PICK mode \in {"extend", "local"} :
        job' = [mode |-> mode, nodes |-> e.nodes, refs |-> e.refs,
                current |-> {}, cache |-> << >>]
  BY DEF Extend, LocalSolveExtend, Copying
<1>2. UNCHANGED <<acc, stored, failed>>
  BY DEF Extend, LocalSolveExtend
<1>3. JobOK' /\ Faithful' /\ NeverFails'
  BY <1>1, <1>2 DEF IInv, StoredOK, JobOK, Faithful, NeverFails
<1>4. QED
  BY <1>2, <1>3 DEF IInv, AccOK, StoredOK, Grows

(* The solver may drop or replace references of what is accumulated.       *)
LEMMA ResolveIInv ==
  ASSUME IInv, NEW refs, NEW current, Resolve(refs, current),
         \A r \in refs : r \in DOMAIN acc.nodes /\ ~IsBare(acc.nodes, r)
  PROVE  IInv' /\ Grows
<1>1. /\ job' = [mode |-> "resolve", nodes |-> acc.nodes, refs |-> refs,
                 current |-> current, cache |-> << >>]
      /\ acc' = NoSolver /\ UNCHANGED <<stored, failed>>
  BY DEF Resolve
<1>2. RefsOf(acc.nodes, refs) /\ Sound(acc.nodes)
  BY DEF RefsOf, IsBare, IsPrimitive, Leafs, IInv, AccOK
<1>3. AccOK'
  BY <1>1, NoNodesSound DEF NoSolver, AccOK, RefsOf
<1>4. JobOK'
  BY <1>1, <1>2 DEF JobOK
<1>5. Faithful' /\ NeverFails'
  BY <1>1 DEF IInv, Faithful, NeverFails
<1>6. QED
  BY <1>1, <1>3, <1>4, <1>5 DEF IInv, StoredOK, Grows

(* The end of a copy: the references move along with their nodes, those to *)
(* primitives dropped.                                                     *)
LEMMA ExtendedIInv ==
  ASSUME IInv, Extended
  PROVE  IInv' /\ Grows
<1> DEFINE more == Lasting(acc.nodes, {job.cache[r] : r \in job.refs})
<1>1. /\ acc' = [nodes |-> acc.nodes, refs |-> acc.refs \cup more, decls |-> acc.decls]
      /\ job' = NoJob /\ UNCHANGED <<stored, failed>>
  BY DEF Extended, IInv, AccOK
<1>2. \A r \in job.refs : job.cache[r] \in DOMAIN acc.nodes
  BY DEF Extended, Copied, IInv, JobOK
<1>3. \A x \in more : x \in DOMAIN acc.nodes /\ ~IsPrimitive(acc.nodes, x)
  BY <1>2 DEF Lasting
<1> HIDE DEF more
<1>4. RefsOf(acc.nodes, acc.refs \cup more)
  BY <1>3 DEF RefsOf, IInv, AccOK
<1>5. AccOK'
  BY <1>1, <1>4 DEF IInv, AccOK
<1>6. JobOK' /\ Faithful' /\ NeverFails'
  BY <1>1 DEF IInv, JobOK, Faithful, NeverFails, NoJob
<1>7. QED
  BY <1>1, <1>5, <1>6 DEF IInv, StoredOK, Grows

(* A subtree is stored with what was copied of its references: as the copy *)
(* was plain, none of them became a primitive.                             *)
LEMMA StoreIInv ==
  ASSUME IInv, Store
  PROVE  IInv' /\ Grows
<1> DEFINE refs == {job.cache[r] : r \in job.refs}
           current == {job.cache[c] : c \in job.current}
           e == Entry(acc.nodes, refs, current)
<1>1. /\ stored' = stored \cup {e} /\ acc' = NoSolver /\ job' = NoJob
      /\ UNCHANGED failed
  BY DEF Store
<1>2. e.nodes = acc.nodes /\ e.refs = refs
  BY DEF Entry
<1>3. ASSUME NEW r \in job.refs
      PROVE  job.cache[r] \in DOMAIN acc.nodes /\ ~IsPrimitive(acc.nodes, job.cache[r])
  <2>1. r \in DOMAIN job.cache /\ job.mode = "resolve"
    BY DEF Store, Copied
  <2>2. /\ job.cache[r] \in DOMAIN acc.nodes
        /\ acc.nodes[job.cache[r]] = Renamed(job.nodes[r], job.cache)
    BY <2>1 DEF IInv, JobOK, Faithful
  <2>3. Renamed(job.nodes[r], job.cache).kind = job.nodes[r].kind
    BY DEF Renamed
  <2>4. ~IsPrimitive(job.nodes, r)
    BY <2>1 DEF IInv, JobOK, RefsOf
  <2>5. QED  BY <2>2, <2>3, <2>4 DEF IsPrimitive
<1>4. RefsOf(acc.nodes, refs) /\ Sound(acc.nodes)
  BY <1>3 DEF RefsOf, IInv, AccOK
<1> HIDE DEF e, refs
<1>5. StoredOK'
  BY <1>1, <1>2, <1>4 DEF IInv, StoredOK
<1>6. AccOK'
  BY <1>1, NoNodesSound DEF NoSolver, AccOK, RefsOf
<1>7. JobOK' /\ Faithful' /\ NeverFails'
  BY <1>1 DEF IInv, JobOK, Faithful, NeverFails, NoJob
<1>8. QED
  BY <1>1, <1>5, <1>6, <1>7 DEF IInv, Grows

-----------------------------------------------------------------------------
(* One node of a plain copy: the cache stays one-to-one, as a node that was *)
(* found equal to the renamed one would have been copied from the same.    *)
LEMMA InternExternalIInv ==
  ASSUME IInv, NEW k \in DOMAIN job.nodes, InternExternal(k)
  PROVE  IInv' /\ Grows
<1> DEFINE n == Renamed(job.nodes[k], job.cache)
           r == Intern(acc.nodes, n)
<1>1. /\ job.mode \in {"extend", "class", "resolve"} /\ k \notin DOMAIN job.cache
      /\ Below(job.nodes[k]) \subseteq DOMAIN job.cache
  BY DEF InternExternal, Ready
<1>2. /\ Sound(acc.nodes) /\ Sound(job.nodes) /\ RefsOf(job.nodes, job.refs)
      /\ \A x \in DOMAIN job.cache :
           x \in DOMAIN job.nodes /\ job.cache[x] \in DOMAIN acc.nodes
  BY <1>1 DEF IInv, AccOK, JobOK
<1>3. /\ DOMAIN acc.nodes \in SUBSET Nat /\ 0 \notin DOMAIN acc.nodes
      /\ \A x \in DOMAIN job.nodes : job.nodes[x] \in Node
  BY <1>2, LenProperties, ElementOfSeq DEF Sound
<1>4. n \in Node /\ Below(n) \subseteq DOMAIN acc.nodes
  BY <1>1, <1>2, <1>3, RenamedIsNode
<1>5. /\ Sound(r.nodes) /\ r.at \in DOMAIN r.nodes /\ r.nodes[r.at] = n
      /\ \A i \in DOMAIN acc.nodes : i \in DOMAIN r.nodes /\ r.nodes[i] = acc.nodes[i]
  BY <1>2, <1>4, InternSound
<1> DEFINE c == Cached(k, r.at)
<1>6. /\ acc' = [nodes |-> r.nodes, refs |-> acc.refs, decls |-> acc.decls]
      /\ job' = [mode |-> job.mode, nodes |-> job.nodes, refs |-> job.refs,
                 current |-> job.current, cache |-> c]
      /\ failed' = ~Similar(r.nodes[r.at], job.nodes[k])
      /\ UNCHANGED stored
  <2>1. /\ acc = [nodes |-> acc.nodes, refs |-> acc.refs, decls |-> acc.decls]
        /\ job = [mode |-> job.mode, nodes |-> job.nodes, refs |-> job.refs,
                  current |-> job.current, cache |-> job.cache]
    BY DEF IInv, AccOK, JobOK
  <2>2. /\ acc' = [acc EXCEPT !.nodes = r.nodes]
        /\ job' = [job EXCEPT !.cache = c]
        /\ failed' = ~Similar(r.nodes[r.at], job.nodes[k])
        /\ UNCHANGED stored
    BY DEF InternExternal
  <2> HIDE DEF n, r, c
  <2>3. QED  BY <2>1, <2>2
<1>7. /\ DOMAIN c = DOMAIN job.cache \cup {k} /\ c[k] = r.at
      /\ \A x \in DOMAIN job.cache : c[x] = job.cache[x]
  BY <1>1 DEF Cached
<1> HIDE DEF r, c
<1>8. AccOK'
  <2>1. RefsOf(r.nodes, acc.refs)
    BY <1>5, GrowthKeeps DEF IInv, AccOK
  <2>2. QED  BY <1>5, <1>6, <2>1 DEF IInv, AccOK
<1>9. JobOK'
  <2>1. \A x \in DOMAIN c : x \in DOMAIN job.nodes /\ c[x] \in DOMAIN r.nodes
    BY <1>2, <1>5, <1>7
  <2>2. QED  BY <1>2, <1>6, <2>1 DEF JobOK
<1>10. Faithful'
  <2> SUFFICES ASSUME job.mode \in {"extend", "resolve"}
               PROVE
                 /\ \A x \in DOMAIN c : /\ Below(job.nodes[x]) \subseteq DOMAIN c
                                        /\ r.nodes[c[x]] = Renamed(job.nodes[x], c)
                 /\ \A x, y \in DOMAIN c : c[x] = c[y] => x = y
    BY <1>6 DEF Faithful
  <2>1. /\ \A x \in DOMAIN job.cache :
             /\ Below(job.nodes[x]) \subseteq DOMAIN job.cache
             /\ acc.nodes[job.cache[x]] = Renamed(job.nodes[x], job.cache)
        /\ \A x, y \in DOMAIN job.cache : job.cache[x] = job.cache[y] => x = y
    BY DEF IInv, Faithful
  <2>2. \A x \in DOMAIN c : /\ x \in DOMAIN job.nodes
                           /\ Below(job.nodes[x]) \subseteq DOMAIN job.cache
                           /\ r.nodes[c[x]] = Renamed(job.nodes[x], job.cache)
    BY <1>1, <1>2, <1>5, <1>7, <2>1
  <2>3. \A x \in DOMAIN c : Renamed(job.nodes[x], c) = Renamed(job.nodes[x], job.cache)
    <3>1. \A x \in DOMAIN job.cache : x \in DOMAIN c /\ c[x] = job.cache[x]
      BY <1>7
    <3>2. QED  BY <1>3, <2>2, <3>1, RenamedAgrees
  <2>4. ASSUME NEW y \in DOMAIN job.cache, c[k] = c[y] PROVE FALSE
    <3>1. Renamed(job.nodes[k], job.cache) = Renamed(job.nodes[y], job.cache)
      BY <1>7, <2>2, <2>4
    <3>2. \A x \in DOMAIN job.cache : job.cache[x] # 0
      BY <1>2, <1>3
    <3>3. job.nodes[k] = job.nodes[y]
      BY <1>1, <1>2, <1>3, <2>1, <3>1, <3>2, RenamingInjective
    <3>4. QED  BY <1>1, <1>2, <3>3 DEF Sound
  <2>5. \A x, y \in DOMAIN c : c[x] = c[y] => x = y
    BY <1>7, <2>1, <2>4
  <2>6. QED
    BY <1>7, <2>2, <2>3, <2>5
<1>11. NeverFails'
  <2> SUFFICES ASSUME "class" \notin Modes, job.mode \in {"extend", "resolve"}
               PROVE  Similar(n, job.nodes[k])
    BY <1>1, <1>5, <1>6 DEF NeverFails, IInv
  <2> DEFINE m == job.nodes[k]
             S == m.any
  <2>1. S \subseteq DOMAIN job.cache /\ S \subseteq DOMAIN job.nodes /\ m \in Node
    BY <1>1, <1>2, <1>3 DEF Below
  <2>2. IsFiniteSet(S)
    <3>1. DOMAIN job.nodes = 1 .. Len(job.nodes) /\ Len(job.nodes) \in Nat
      BY <1>2, LenProperties DEF Sound
    <3>2. IsFiniteSet(DOMAIN job.nodes)
      BY <3>1, FS_Interval
    <3>3. QED  BY <2>1, <3>2, FS_Subset
  <2>3. Cardinality({job.cache[x] : x \in S}) = Cardinality(S)
    <3>1. \A x, y \in S : job.cache[x] = job.cache[y] => x = y
      BY <2>1 DEF IInv, Faithful
    <3>2. QED  BY <2>1, <2>2, <3>1, RenamingKeepsCardinality
  <2>4. Len([i \in DOMAIN m.args |-> job.cache[m.args[i]]]) = Len(m.args)
    <3>1. m.args \in Seq(Nat)
      BY <2>1 DEF Node
    <3>2. QED  BY <3>1, LenProperties
  <2>5. QED
    BY <2>3, <2>4 DEF Similar, Renamed
<1>12. QED
  BY <1>5, <1>6, <1>8, <1>9, <1>10, <1>11 DEF IInv, StoredOK, Grows

(* A set of choices is a node.                                             *)
LEMMA OrIsNode ==
  ASSUME NEW P \in SUBSET Nat, NEW y \in SUBSET P
  PROVE  Or(y) \in Node /\ Below(Or(y)) \subseteq P
<1> DEFINE n == Or(y)
<1>1. /\ IsRecord(n) /\ n.kind = "Or" /\ n.label = ""
      /\ n.object = 0 /\ n.args = << >> /\ n.any = y
  BY DEF Or, IsRecord
<1> HIDE DEF n
<1>2. n.args \in Seq(Nat) /\ Elements(n.args) = {}
  <2>1. << >> \in Seq(Nat) /\ Elements(<< >>) = {}
    BY EmptySeq DEF Elements
  <2>2. QED  BY <1>1, <2>1
<1>3. n.kind \in Kinds /\ n.label \in Labels \cup {""} /\ n.kind \in Leafs \cup {"Or"}
  BY <1>1 DEF Kinds
<1>4. n.any \in SUBSET Nat /\ n.any \subseteq P
        /\ n.object \in Nat /\ n.object \in P \cup {0}
  <2>1. y \in SUBSET Nat
    OBVIOUS
  <2>2. 0 \in Nat /\ 0 \in P \cup {0}
    OBVIOUS
  <2>3. QED  BY <1>1, <2>1, <2>2
<1>5. n \in Node
  BY <1>1, <1>2, <1>3, <1>4, NodeRecord
<1>6. Below(n) \subseteq P
  BY <1>2, <1>4, BelowWithin
<1>7. QED  BY <1>5, <1>6 DEF n

(* The place of a node that a local variable may have been solved in.      *)
LEMMA LocalNodeSound ==
  ASSUME AccOK, NEW n \in Node, Below(n) \subseteq DOMAIN acc.nodes,
         NEW k, n = Renamed(job.nodes[k], job.cache)
  PROVE  /\ Sound(LocalNode(k).nodes)
         /\ LocalNode(k).at \in DOMAIN LocalNode(k).nodes
         /\ \A i \in DOMAIN acc.nodes :
              i \in DOMAIN LocalNode(k).nodes /\ LocalNode(k).nodes[i] = acc.nodes[i]
<1> DEFINE o == IF n.kind = "Or" THEN Or(Flat(acc.nodes, n.any)) ELSE n
           access == n.kind = "ArrayAccess" /\ acc.nodes[n.object].kind = "Array"
           r == IF access
                THEN [nodes |-> acc.nodes, at |-> acc.nodes[n.object].object]
                ELSE Intern(acc.nodes, o)
<1>1. /\ Sound(acc.nodes) /\ DOMAIN acc.nodes \in SUBSET Nat /\ 0 \notin DOMAIN acc.nodes
      /\ \A i \in DOMAIN acc.nodes :
           acc.nodes[i] \in Node /\ Below(acc.nodes[i]) \subseteq DOMAIN acc.nodes
  BY LenProperties, ElementOfSeq DEF AccOK, Sound
<1>2. o \in Node /\ Below(o) \subseteq DOMAIN acc.nodes
  <2>1. CASE n.kind # "Or"
    BY <2>1
  <2>2. CASE n.kind = "Or"
    <3>1. \A x \in n.any : x \in DOMAIN acc.nodes
      BY DEF Below
    <3>2. \A x \in DOMAIN acc.nodes : acc.nodes[x].any \subseteq DOMAIN acc.nodes
      BY <1>1 DEF Below
    <3>3. Flat(acc.nodes, n.any) \in SUBSET DOMAIN acc.nodes
      BY <3>1, <3>2 DEF Flat
    <3>4. QED  BY <1>1, <2>2, <3>3, OrIsNode
  <2>3. QED  BY <2>1, <2>2
<1> HIDE DEF o
<1>3. /\ Sound(r.nodes) /\ r.at \in DOMAIN r.nodes
      /\ \A i \in DOMAIN acc.nodes : i \in DOMAIN r.nodes /\ r.nodes[i] = acc.nodes[i]
  <2>1. CASE access
    <3>1. n.object \in DOMAIN acc.nodes
      BY <2>1 DEF Node, Below, Leafs
    <3>2. acc.nodes[n.object].object \in DOMAIN acc.nodes
      BY <1>1, <2>1, <3>1 DEF Node, Below, Leafs
    <3>3. QED  BY <1>1, <2>1, <3>2
  <2>2. CASE ~access
    <3> DEFINE i == Intern(acc.nodes, o)
    <3>1. /\ Sound(i.nodes) /\ i.at \in DOMAIN i.nodes
          /\ \A j \in DOMAIN acc.nodes : j \in DOMAIN i.nodes /\ i.nodes[j] = acc.nodes[j]
      BY <1>1, <1>2, InternSound, Zenon
    <3>2. r = i
      BY <2>2
    <3> HIDE DEF i, r
    <3>3. QED  BY <3>1, <3>2
  <2>3. QED  BY <2>1, <2>2
<1>4. LocalNode(k) = IF r.at \in DOMAIN acc.decls
                     THEN [r EXCEPT !.at = acc.decls[r.at]] ELSE r
  BY DEF LocalNode, o
<1>5. r = [nodes |-> r.nodes, at |-> r.at]
  BY DEF Intern
<1> HIDE DEF r
<1>6. QED
  BY <1>3, <1>4, <1>5 DEF AccOK

(* One node of a copy that solves local variables.                         *)
LEMMA LocalSolveIInv ==
  ASSUME IInv, NEW k \in DOMAIN job.nodes, LocalSolveInternExternal(k)
  PROVE  IInv' /\ Grows
<1> DEFINE r == LocalNode(k)
           c == Cached(k, r.at)
<1>1. /\ job.mode = "local" /\ k \notin DOMAIN job.cache
      /\ Below(job.nodes[k]) \subseteq DOMAIN job.cache
  BY DEF LocalSolveInternExternal, Ready
<1>2. /\ AccOK /\ Sound(acc.nodes) /\ Sound(job.nodes) /\ RefsOf(job.nodes, job.refs)
      /\ \A x \in DOMAIN job.cache :
           x \in DOMAIN job.nodes /\ job.cache[x] \in DOMAIN acc.nodes
  BY <1>1 DEF IInv, AccOK, JobOK
<1>3. /\ DOMAIN acc.nodes \in SUBSET Nat /\ 0 \notin DOMAIN acc.nodes
      /\ job.nodes[k] \in Node
  BY <1>2, LenProperties, ElementOfSeq DEF Sound
<1>4. /\ Renamed(job.nodes[k], job.cache) \in Node
      /\ Below(Renamed(job.nodes[k], job.cache)) \subseteq DOMAIN acc.nodes
  BY <1>1, <1>2, <1>3, RenamedIsNode
<1>5. /\ Sound(r.nodes) /\ r.at \in DOMAIN r.nodes
      /\ \A i \in DOMAIN acc.nodes : i \in DOMAIN r.nodes /\ r.nodes[i] = acc.nodes[i]
  BY <1>2, <1>4, LocalNodeSound
<1>6. /\ acc' = [nodes |-> r.nodes, refs |-> acc.refs, decls |-> acc.decls]
      /\ job' = [mode |-> job.mode, nodes |-> job.nodes, refs |-> job.refs,
                 current |-> job.current, cache |-> c]
      /\ UNCHANGED <<stored, failed>>
  <2>1. /\ acc = [nodes |-> acc.nodes, refs |-> acc.refs, decls |-> acc.decls]
        /\ job = [mode |-> job.mode, nodes |-> job.nodes, refs |-> job.refs,
                  current |-> job.current, cache |-> job.cache]
    BY DEF IInv, AccOK, JobOK
  <2>2. /\ acc' = [acc EXCEPT !.nodes = r.nodes]
        /\ job' = [job EXCEPT !.cache = c]
        /\ UNCHANGED <<stored, failed>>
    BY DEF LocalSolveInternExternal
  <2> HIDE DEF r, c
  <2>3. QED  BY <2>1, <2>2
<1>7. /\ DOMAIN c = DOMAIN job.cache \cup {k} /\ c[k] = r.at
      /\ \A x \in DOMAIN job.cache : c[x] = job.cache[x]
  BY <1>1 DEF Cached
<1> HIDE DEF r, c
<1>8. AccOK'
  <2>1. RefsOf(r.nodes, acc.refs)
    BY <1>5, GrowthKeeps DEF IInv, AccOK
  <2>2. QED  BY <1>5, <1>6, <2>1 DEF IInv, AccOK
<1>9. JobOK'
  <2>1. \A x \in DOMAIN c : x \in DOMAIN job.nodes /\ c[x] \in DOMAIN r.nodes
    BY <1>2, <1>5, <1>7
  <2>2. QED  BY <1>2, <1>6, <2>1 DEF JobOK
<1>10. Faithful' /\ NeverFails'
  BY <1>1, <1>6 DEF IInv, Faithful, NeverFails
<1>11. QED
  BY <1>5, <1>6, <1>8, <1>9, <1>10 DEF IInv, StoredOK, Grows

(* No arguments, and the place of ?.                                       *)
LEMMA NoArguments ==
  /\ << >> \in Seq(Nat) /\ Elements(<< >>) = {}
  /\ MM \in Nat /\ MM # 0
BY EmptySeq DEF Elements, MM

(* A node on ? is a node.                                                  *)
LEMMA OnMissingIsNode ==
  ASSUME NEW P, MM \in P, NEW k \in Kinds,
         k \notin Leafs \cup {"Or"}, NEW l \in Labels \cup {""}
  PROVE  /\ On(k, l, MM) \in Node
         /\ Below(On(k, l, MM)) \subseteq P
<1> DEFINE n == On(k, l, MM)
<1>1. /\ IsRecord(n) /\ n.kind = k /\ n.label = l
      /\ n.object = MM /\ n.args = << >> /\ n.any = {}
  BY DEF On, IsRecord
<1>2. /\ << >> \in Seq(Nat) /\ Elements(<< >>) = {}
      /\ MM \in Nat /\ MM # 0
  BY NoArguments
<1>3. /\ n.any \in SUBSET Nat /\ n.any \subseteq P
      /\ n.object \in P \cup {0}
  BY <1>1
<1> HIDE DEF n
<1>4. n \in Node
  BY <1>1, <1>2, <1>3, NodeRecord
<1>5. Below(n) \subseteq P
  BY <1>1, <1>2, <1>3, BelowWithin
<1>6. QED  BY <1>4, <1>5 DEF n

(* The body of a class: the names and ? are cached before the copy.        *)
LEMMA ExtendClassBodyIInv ==
  ASSUME IInv, NEW e \in stored, NEW id \in DOMAIN acc.nodes,
         NEW supers \in SUBSET DOMAIN acc.nodes, ExtendClassBody(e, id, supers),
         "class" \in Modes
  PROVE  IInv' /\ Grows
<1> DEFINE this == Intern(acc.nodes, On("This", "", MM))
           n == On("TypeIdentifier", acc.nodes[id].label, MM)
           named == Intern(this.nodes, n)
           types == {named.at} \cup supers
           any == Intern(named.nodes, Or(types \cup {MM}))
           names == {x \in DOMAIN e.nodes :
                       \E t \in types : e.nodes[x] =
                         On("ScopedIdentifier", any.nodes[t].label, MM)}
           super == {x \in DOMAIN e.nodes : e.nodes[x] = On("Super", "", MM)}
           of(x) == CHOOSE t \in types :
                      /\ any.nodes[t].label = e.nodes[x].label
                      /\ t \notin supers =>
                           \A s \in supers : any.nodes[s].label # e.nodes[x].label
           c == [x \in names \cup super \cup {MM} |->
                   CASE x = MM -> any.at [] x \in super -> id [] OTHER -> of(x)]
<1>1. /\ acc' = [acc EXCEPT !.nodes = any.nodes]
      /\ job' = [mode |-> "class", nodes |-> e.nodes, refs |-> e.refs,
                 current |-> {}, cache |-> c]
      /\ UNCHANGED <<stored, failed>>
  BY DEF ExtendClassBody, Copying
<1>2. /\ Sound(acc.nodes) /\ DOMAIN acc.nodes \in SUBSET Nat /\ 0 \notin DOMAIN acc.nodes
      /\ MM \in DOMAIN acc.nodes /\ acc.nodes[id] \in Node
      /\ Sound(e.nodes) /\ RefsOf(e.nodes, e.refs) /\ MM \in DOMAIN e.nodes
  BY LenProperties, ElementOfSeq DEF IInv, AccOK, StoredOK, Sound, MM
<1>3. /\ Sound(this.nodes)
      /\ \A i \in DOMAIN acc.nodes :
           i \in DOMAIN this.nodes /\ this.nodes[i] = acc.nodes[i]
  <2>1. "This" \in Kinds /\ "This" \notin Leafs \cup {"Or"}
    BY DEF Kinds, Plain, Leafs
  <2>2. /\ On("This", "", MM) \in Node
        /\ Below(On("This", "", MM)) \subseteq DOMAIN acc.nodes
    BY <1>2, <2>1, OnMissingIsNode
  <2>3. QED  BY <1>2, <2>2, InternSound
<1> HIDE DEF this
<1>4. /\ Sound(named.nodes) /\ named.at \in DOMAIN named.nodes
      /\ \A i \in DOMAIN acc.nodes :
           i \in DOMAIN named.nodes /\ named.nodes[i] = acc.nodes[i]
  <2>1. "TypeIdentifier" \in Kinds /\ "TypeIdentifier" \notin Leafs \cup {"Or"}
    BY DEF Kinds, Labelled, Leafs
  <2>2. acc.nodes[id].label \in Labels \cup {""} /\ MM \in DOMAIN this.nodes
    BY <1>2, <1>3 DEF Node
  <2>3. n \in Node /\ Below(n) \subseteq DOMAIN this.nodes
    BY <2>1, <2>2, OnMissingIsNode
  <2> HIDE DEF n
  <2>4. /\ Sound(named.nodes) /\ named.at \in DOMAIN named.nodes
        /\ \A i \in DOMAIN this.nodes :
             i \in DOMAIN named.nodes /\ named.nodes[i] = this.nodes[i]
    BY <1>3, <2>3, InternSound
  <2>5. QED  BY <1>3, <2>4
<1> HIDE DEF named
<1>5. /\ Or(types \cup {MM}) \in Node
      /\ Below(Or(types \cup {MM})) \subseteq DOMAIN named.nodes
  <2>1. types \cup {MM} \in SUBSET DOMAIN named.nodes
    BY <1>2, <1>4
  <2>2. DOMAIN named.nodes \in SUBSET Nat
    BY <1>4, LenProperties DEF Sound
  <2>3. QED  BY <2>1, <2>2, OrIsNode
<1>6. /\ Sound(any.nodes) /\ any.at \in DOMAIN any.nodes
      /\ \A i \in DOMAIN named.nodes :
           i \in DOMAIN any.nodes /\ any.nodes[i] = named.nodes[i]
  BY <1>4, <1>5, InternSound
<1>7. types \subseteq DOMAIN any.nodes
  BY <1>4, <1>6
<1> HIDE DEF any
<1>8. ASSUME NEW x \in names PROVE of(x) \in types
  <2>1. PICK t \in types : e.nodes[x] = On("ScopedIdentifier", any.nodes[t].label, MM)
    OBVIOUS
  <2>2. any.nodes[t].label = e.nodes[x].label
    BY <2>1 DEF On
  <2>3. \E u \in types : /\ any.nodes[u].label = e.nodes[x].label
                         /\ u \notin supers =>
                              \A s \in supers : any.nodes[s].label # e.nodes[x].label
    <3>1. CASE \E s \in supers : any.nodes[s].label = e.nodes[x].label
      BY <3>1
    <3>2. CASE \A s \in supers : any.nodes[s].label # e.nodes[x].label
      BY <2>2, <3>2
    <3>3. QED  BY <3>1, <3>2
  <2>4. QED  BY <2>3
<1>9. \A x \in DOMAIN c : x \in DOMAIN e.nodes /\ c[x] \in DOMAIN any.nodes
  <2>1. \A x \in names : of(x) \in DOMAIN any.nodes
    BY <1>7, <1>8
  <2>2. /\ DOMAIN c = names \cup super \cup {MM}
        /\ \A x \in DOMAIN c :
             c[x] = CASE x = MM -> any.at [] x \in super -> id [] OTHER -> of(x)
    OBVIOUS
  <2>3. names \cup super \subseteq DOMAIN e.nodes /\ id \in DOMAIN any.nodes
    BY <1>4, <1>6
  <2> HIDE DEF c, of, names, super
  <2>4. \A x \in DOMAIN c : c[x] = any.at \/ c[x] = id \/ (x \in names /\ c[x] = of(x))
    BY <2>2
  <2>5. QED  BY <1>2, <1>6, <2>1, <2>2, <2>3, <2>4
<1> HIDE DEF c
<1>10. /\ acc' = [nodes |-> any.nodes, refs |-> acc.refs, decls |-> acc.decls]
       /\ \A i \in DOMAIN acc.nodes : i \in DOMAIN any.nodes /\ any.nodes[i] = acc.nodes[i]
  BY <1>1, <1>4, <1>6 DEF IInv, AccOK
<1>11. AccOK'
  <2>1. RefsOf(any.nodes, acc.refs)
    BY <1>10, GrowthKeeps DEF IInv, AccOK
  <2>2. QED  BY <1>6, <1>10, <2>1 DEF IInv, AccOK
<1>12. JobOK'
  BY <1>1, <1>2, <1>9, <1>10 DEF JobOK
<1>13. Faithful' /\ NeverFails'
  BY <1>1 DEF Faithful, NeverFails
<1>14. QED
  BY <1>1, <1>10, <1>11, <1>12, <1>13 DEF IInv, StoredOK, Grows

-----------------------------------------------------------------------------
(* Every step keeps the invariant, and the lists of nodes only grow.       *)
LEMMA NextIInv == IInv /\ [Next]_vars => IInv' /\ Grows
<1> SUFFICES ASSUME IInv, [Next]_vars PROVE IInv' /\ Grows
  OBVIOUS
<1>1. CASE Own
  BY <1>1, InternOwnIInv DEF Own
<1>2. ASSUME NEW v \in DOMAIN acc.nodes, NEW t \in DOMAIN acc.nodes, Declare(v, t)
      PROVE  IInv' /\ Grows
  BY <1>2, DeclareIInv
<1>3. ASSUME NEW e \in stored, Child(e) PROVE IInv' /\ Grows
  <2>1. CASE Extend(e) \/ LocalSolveExtend(e)
    BY <2>1, CopyStartIInv
  <2>2. ASSUME NEW id \in DOMAIN acc.nodes, NEW supers \in SUBSET DOMAIN acc.nodes,
               "class" \in Modes, ExtendClassBody(e, id, supers)
        PROVE  IInv' /\ Grows
    BY <2>2, ExtendClassBodyIInv
  <2>3. QED  BY <1>3, <2>1, <2>2 DEF Child
<1>4. CASE Finish
  <2>1. PICK refs \in SUBSET {i \in DOMAIN acc.nodes : ~IsBare(acc.nodes, i)},
             current \in {{}, {Len(acc.nodes)}} : Resolve(refs, current)
    BY <1>4 DEF Finish
  <2>2. QED  BY <2>1, ResolveIInv
<1>5. ASSUME NEW k \in DOMAIN job.nodes, InternExternal(k) PROVE IInv' /\ Grows
  BY <1>5, InternExternalIInv
<1>6. ASSUME NEW k \in DOMAIN job.nodes, LocalSolveInternExternal(k) PROVE IInv' /\ Grows
  BY <1>6, LocalSolveIInv
<1>7. CASE Extended
  BY <1>7, ExtendedIInv
<1>8. CASE Store
  BY <1>8, StoreIInv
<1>9. CASE UNCHANGED vars
  BY <1>9 DEF vars, IInv, AccOK, StoredOK, JobOK, Faithful, NeverFails, Grows
<1>10. QED
  BY <1>1, <1>2, <1>3, <1>4, <1>5, <1>6, <1>7, <1>8, <1>9 DEF Next

(* The inductive invariant holds of every behaviour of the solver: places  *)
(* name places before them, no node is twice, a copy's cache is one-to-one *)
(* and faithful to what it copies.                                         *)
THEOREM Invariance == Spec => []IInv
BY InitIInv, NextIInv, PTL DEF Spec

-----------------------------------------------------------------------------
(* Every solver, the one under construction and the stored ones, is made   *)
(* of nodes that refer to its own nodes, and so is the cache of a copy.    *)
THEOREM TypeCorrect == Spec => []TypeOK
<1>1. IInv => TypeOK
  BY DEF IInv, AccOK, StoredOK, JobOK, TypeOK, WellFormed, Sound, RefsOf
<1>2. QED  BY <1>1, Invariance, PTL

(* intern keeps one place per node through every copy of solvers into      *)
(* others, the ones that solve variables and bodies of classes included.   *)
THEOREM NeverTwice == Spec => []NoTwins
<1>1. IInv => NoTwins
  BY DEF IInv, AccOK, StoredOK, NoTwins, Sound
<1>2. QED  BY <1>1, Invariance, PTL

(* The objects, arguments and choices of a node come before it, so that    *)
(* the walks along them end, whatever solved them.                         *)
THEOREM AlwaysGrounded == Spec => []Grounded
<1>1. IInv => Grounded
  BY DEF IInv, AccOK, StoredOK, Grounded, Sound
<1>2. QED  BY <1>1, Invariance, PTL

(* As long as no body of a class is copied with its names mapped, the      *)
(* assertion `similar' of intern_external never fails, and no reference is *)
(* one to a primitive.                                                     *)
THEOREM PlainCopiesDoNotPanic == "class" \notin Modes => (Spec => []NoPanic)
<1>1. "class" \notin Modes /\ IInv => NoPanic
  BY DEF IInv, AccOK, StoredOK, NeverFails, NoPanic, RefsOf
<1>2. "class" \notin Modes => (IInv => NoPanic)
  BY <1>1
<1>3. SUFFICES ASSUME "class" \notin Modes PROVE Spec => []NoPanic
  OBVIOUS
<1>4. IInv => NoPanic
  BY <1>2, <1>3
<1>5. QED  BY <1>4, Invariance, PTL

(* A place handed out stays the place of the same node for as long as the  *)
(* solver lives.                                                           *)
THEOREM PlacesAreStable == Spec => PlacesStable
<1>1. IInv /\ [Next]_vars => Grows
  BY NextIInv
<1>2. Grows => [Grows]_vars
  OBVIOUS
<1>3. QED  BY <1>1, Invariance, PTL DEF Spec, PlacesStable, Grows
-----------------------------------------------------------------------------
(* The parts that a walk along a node goes through next.                   *)
LEMMA Parts ==
  ASSUME NEW nodes, Sound(nodes), NEW i \in DOMAIN nodes
  PROVE  /\ DOMAIN nodes = 1 .. Len(nodes) /\ Len(nodes) \in Nat
         /\ nodes[i] \in Node
         /\ nodes[i].kind \notin Leafs \cup {"Or"} => nodes[i].object \in Below(nodes[i])
         /\ nodes[i].any \subseteq Below(nodes[i])
         /\ \A j \in Below(nodes[i]) : j \in 1 .. i - 1 /\ j \in DOMAIN nodes
<1>1. DOMAIN nodes = 1 .. Len(nodes) /\ Len(nodes) \in Nat /\ nodes[i] \in Node
  BY LenProperties, ElementOfSeq DEF Sound
<1>2. \A j \in Below(nodes[i]) : j \in DOMAIN nodes /\ j < i
  BY DEF Sound
<1>3. \A j \in Below(nodes[i]) : j \in 1 .. i - 1
  BY <1>1, <1>2
<1>4. nodes[i].object = 0 <=> nodes[i].kind \in Leafs \cup {"Or"}
  BY <1>1 DEF Node
<1>5. QED  BY <1>1, <1>2, <1>3, <1>4 DEF Below

(* What Hashes, Counts, Meanings and PartsOf say of a place, from what     *)
(* they say of the places below.                                           *)
HashesAt(m, nodes, f, i) ==
  LET n == nodes[i] IN
  CASE n.kind \in Leafs -> {Step(m, 0, Text(n))}
    [] n.kind = "Or" -> UNION {f[x] : x \in n.any}
    [] n.kind = "Mask" -> f[n.object]
    [] OTHER -> {Step(m, h, Text(n)) : h \in f[n.object]}

IsHashes(m, nodes, k, f) == f = [i \in 1 .. k |-> HashesAt(m, nodes, f, i)]

(* What a place hashes to depends on the hashes of its parts alone.        *)
LEMMA HashesAtAgree ==
  ASSUME NEW m, NEW nodes, Sound(nodes), NEW i \in DOMAIN nodes, NEW f, NEW g,
         \A j \in Below(nodes[i]) : f[j] = g[j]
  PROVE  HashesAt(m, nodes, f, i) = HashesAt(m, nodes, g, i)
<1> DEFINE n == nodes[i]
<1>1. /\ n.kind \notin Leafs \cup {"Or"} => f[n.object] = g[n.object]
      /\ \A x \in n.any : f[x] = g[x]
  BY Parts
<1>2. {f[x] : x \in n.any} = {g[x] : x \in n.any}
  BY <1>1
<1>3. CASE n.kind \in Leafs
  <2>1. n.kind # "Or" /\ n.kind # "Mask"
    BY <1>3 DEF Leafs
  <2>2. \A h : HashesAt(m, nodes, h, i) = {Step(m, 0, Text(n))}
    BY <1>3, <2>1, Zenon DEF HashesAt
  <2>3. QED  BY <2>2
<1>4. CASE n.kind = "Or"
  BY <1>2, <1>4 DEF HashesAt
<1>5. CASE n.kind \notin Leafs \cup {"Or"}
  BY <1>1, <1>5 DEF HashesAt
<1>6. QED  BY <1>3, <1>4, <1>5

(* By induction on the number of places, some function hashes every place *)
(* from the hashes of the places below.                                    *)
LEMMA HashesExist ==
  ASSUME NEW m, NEW nodes, Sound(nodes)
  PROVE  \E f : IsHashes(m, nodes, Len(nodes), f)
<1> DEFINE T == {k \in Nat : k <= Len(nodes) => \E f : IsHashes(m, nodes, k, f)}
<1>1. Len(nodes) \in Nat /\ DOMAIN nodes = 1 .. Len(nodes)
  BY LenProperties DEF Sound
<1>2. 0 \in T
  <2>1. IsHashes(m, nodes, 0, [i \in 1 .. 0 |-> {}])
    BY DEF IsHashes
  <2>2. QED  BY <2>1
<1>3. ASSUME NEW k \in Nat, k \in T PROVE k + 1 \in T
  <2>1. SUFFICES ASSUME k + 1 <= Len(nodes) PROVE \E f : IsHashes(m, nodes, k + 1, f)
    OBVIOUS
  <2>2. PICK f : IsHashes(m, nodes, k, f)
    BY <1>1, <1>3, <2>1
  <2> DEFINE g == [i \in 1 .. k + 1 |->
                     IF i <= k THEN f[i] ELSE HashesAt(m, nodes, f, i)]
  <2>3. ASSUME NEW i \in 1 .. k + 1 PROVE g[i] = HashesAt(m, nodes, g, i)
    <3>1. i \in DOMAIN nodes
      BY <1>1, <2>1
    <3>2. \A j \in Below(nodes[i]) : j \in 1 .. k + 1 /\ j <= k
      BY <1>1, <2>1, <3>1, Parts
    <3>3. \A j \in Below(nodes[i]) : g[j] = f[j]
      BY <3>2
    <3>4. i <= k => f[i] = HashesAt(m, nodes, f, i)
      <4>1. i <= k => i \in 1 .. k
        OBVIOUS
      <4>2. QED  BY <2>2, <4>1, Zenon DEF IsHashes
    <3>5. g[i] = HashesAt(m, nodes, f, i)
      BY <3>4
    <3> HIDE DEF g
    <3>6. HashesAt(m, nodes, g, i) = HashesAt(m, nodes, f, i)
      BY <3>1, <3>3, HashesAtAgree
    <3>7. QED  BY <3>5, <3>6
  <2>4. g = [i \in 1 .. k + 1 |-> g[i]]
    OBVIOUS
  <2> HIDE DEF g
  <2>5. IsHashes(m, nodes, k + 1, g)
    BY <2>3, <2>4 DEF IsHashes
  <2>6. QED  BY <2>5
<1>4. Nat \subseteq T
  <2> HIDE DEF T
  <2>1. QED  BY <1>2, <1>3, Induction
<1>5. QED  BY <1>1, <1>4

(* So Hashes, which chooses that function, satisfies its own equation.     *)
LEMMA HashesAre ==
  ASSUME NEW m, NEW nodes, Sound(nodes), NEW i \in DOMAIN nodes
  PROVE  Hashes(m, nodes)[i] = HashesAt(m, nodes, Hashes(m, nodes), i)
<1> DEFINE f == CHOOSE f : f = [j \in DOMAIN nodes |-> HashesAt(m, nodes, f, j)]
<1>1. Hashes(m, nodes) = f
  BY DEF Hashes, HashesAt
<1>2. DOMAIN nodes = 1 .. Len(nodes)
  BY LenProperties DEF Sound
<1>3. \E g : g = [j \in DOMAIN nodes |-> HashesAt(m, nodes, g, j)]
  <2>1. \E g : g = [j \in 1 .. Len(nodes) |-> HashesAt(m, nodes, g, j)]
    BY HashesExist, Zenon DEF IsHashes
  <2>2. QED  BY <1>2, <2>1, Zenon
<1>4. f = [j \in DOMAIN nodes |-> HashesAt(m, nodes, f, j)]
  BY <1>3
<1> HIDE DEF f
<1>5. QED  BY <1>1, <1>4, Zenon
-----------------------------------------------------------------------------
(* A family of sets that has the empty set, and every subset of S with     *)
(* that subset without its chosen element, has all subsets of S.           *)
Fewer(T) == T \ {CHOOSE x \in T : TRUE}

(* Leaving out the chosen element leaves one element less.                 *)
LEMMA FewerIsSmaller ==
  ASSUME NEW S, IsFiniteSet(S), NEW T \in SUBSET S, T # {}
  PROVE  /\ (CHOOSE x \in T : TRUE) \in T
         /\ Fewer(T) \in SUBSET S /\ Fewer(T) \subseteq T
         /\ IsFiniteSet(T) /\ Cardinality(T) \in Nat \ {0}
         /\ Cardinality(Fewer(T)) = Cardinality(T) - 1
<1> DEFINE x == CHOOSE x \in T : TRUE
<1>1. x \in T
  OBVIOUS
<1>2. IsFiniteSet(T)
  BY FS_Subset
<1>3. Cardinality(T) \in Nat /\ Cardinality(T) # 0
  BY <1>2, FS_CardinalityType, FS_EmptySet
<1>4. Cardinality(Fewer(T)) = Cardinality(T) - 1
  BY <1>1, <1>2, FS_RemoveElement DEF Fewer
<1>5. QED  BY <1>1, <1>2, <1>3, <1>4 DEF Fewer

(* Such a family has every subset of S.                                    *)
LEMMA SubsetInduction ==
  ASSUME NEW S, IsFiniteSet(S), NEW F, {} \in F,
         \A T \in SUBSET S : T # {} /\ Fewer(T) \in F => T \in F
  PROVE  SUBSET S \subseteq F
<1> DEFINE G == {n \in Nat : \A T \in SUBSET S : Cardinality(T) = n => T \in F}
<1>1. 0 \in G
  <2>1. \A T \in SUBSET S : Cardinality(T) = 0 => T = {}
    BY FS_Subset, FS_EmptySet
  <2>2. QED  BY <2>1
<1>2. ASSUME NEW n \in Nat, n \in G PROVE n + 1 \in G
  <2>1. ASSUME NEW T \in SUBSET S, Cardinality(T) = n + 1 PROVE T \in F
    <3>1. T # {}
      BY <2>1, FS_EmptySet
    <3>2. Fewer(T) \in SUBSET S /\ Cardinality(Fewer(T)) = n
      BY <2>1, <3>1, FewerIsSmaller
    <3>3. QED  BY <1>2, <3>1, <3>2
  <2>2. QED  BY <2>1
<1>3. Nat \subseteq G
  <2> HIDE DEF G
  <2>1. QED  BY <1>1, <1>2, Induction
<1>4. ASSUME NEW T \in SUBSET S PROVE T \in F
  <2>1. Cardinality(T) \in Nat
    BY FS_Subset, FS_CardinalityType
  <2>2. QED  BY <1>3, <2>1
<1>5. QED  BY <1>4

(* The function that Sum defines exists.                                   *)
SumAt(f, s, T) ==
  IF T = {} THEN 0 ELSE LET x == CHOOSE x \in T : TRUE IN f[x] + s[T \ {x}]

Sums(f, S) == CHOOSE s : s = [T \in SUBSET S |-> SumAt(f, s, T)]

(* Sum is the value of that function.                                      *)
LEMMA SumIs ==
  ASSUME NEW f, NEW S
  PROVE  Sum(f, S) = Sums(f, S)[S]
BY DEF Sum, Sums, SumAt

(* By induction on subsets, that function satisfies its own equation.      *)
LEMMA SumsAre ==
  ASSUME NEW f, NEW S, IsFiniteSet(S), NEW T \in SUBSET S
  PROVE  Sums(f, S)[T] = IF T = {} THEN 0
                         ELSE f[CHOOSE x \in T : TRUE] + Sums(f, S)[Fewer(T)]
<1> DEFINE Few(n) == {U \in SUBSET S : Cardinality(U) <= n}
           A(s, n) == s = [U \in Few(n) |-> SumAt(f, s, U)]
           G == {n \in Nat : \E s : A(s, n)}
<1>1. 0 \in G
  <2> DEFINE s == [U \in Few(0) |-> 0]
  <2>1. ASSUME NEW U \in Few(0) PROVE s[U] = SumAt(f, s, U)
    <3>1. Cardinality(U) = 0
      BY FS_Subset, FS_CardinalityType
    <3>2. U = {}
      BY <3>1, FS_Subset, FS_EmptySet
    <3>3. QED  BY <3>2 DEF SumAt
  <2>2. s = [U \in Few(0) |-> s[U]]
    OBVIOUS
  <2> HIDE DEF s, Few
  <2>3. A(s, 0)
    BY <2>1, <2>2
  <2>4. QED  BY <2>3
<1>2. ASSUME NEW n \in Nat, n \in G PROVE n + 1 \in G
  <2>1. PICK s : A(s, n)
    BY <1>2
  <2> DEFINE g == [U \in Few(n + 1) |->
                     IF Cardinality(U) <= n THEN s[U] ELSE SumAt(f, s, U)]
  <2>2. ASSUME NEW U \in Few(n + 1) PROVE g[U] = SumAt(f, g, U)
    <3>1. U = {} => SumAt(f, g, U) = SumAt(f, s, U)
      BY DEF SumAt
    <3>2. U # {} => SumAt(f, g, U) = SumAt(f, s, U)
      <4>1. SUFFICES ASSUME U # {} PROVE SumAt(f, g, U) = SumAt(f, s, U)
        OBVIOUS
      <4>2. /\ Fewer(U) \in SUBSET S /\ Cardinality(Fewer(U)) <= n
            /\ Fewer(U) \in Few(n + 1)
        BY <4>1, FewerIsSmaller
      <4>3. g[Fewer(U)] = s[Fewer(U)]
        BY <4>2
      <4> HIDE DEF g
      <4>4. QED  BY <4>1, <4>3 DEF SumAt, Fewer
    <3>3. Cardinality(U) <= n => s[U] = SumAt(f, s, U)
      <4>1. Cardinality(U) <= n => U \in Few(n)
        OBVIOUS
      <4>2. QED  BY <2>1, <4>1, Zenon
    <3>4. g[U] = SumAt(f, s, U)
      BY <3>3
    <3>5. QED  BY <3>1, <3>2, <3>4
  <2>3. g = [U \in Few(n + 1) |-> g[U]]
    OBVIOUS
  <2> HIDE DEF g, Few
  <2>4. A(g, n + 1)
    BY <2>2, <2>3
  <2>5. QED  BY <2>4
<1>3. Nat \subseteq G
  <2> HIDE DEF G
  <2>1. QED  BY <1>1, <1>2, Induction
<1>4. Cardinality(S) \in Nat /\ Few(Cardinality(S)) = SUBSET S
  BY FS_CardinalityType, FS_Subset
<1>5. PICK g : A(g, Cardinality(S))
  BY <1>3, <1>4
<1>6. g = [U \in SUBSET S |-> SumAt(f, g, U)]
  <2> HIDE DEF Few
  <2>1. QED  BY <1>4, <1>5
<1>7. Sums(f, S) = [U \in SUBSET S |-> SumAt(f, Sums(f, S), U)]
  BY <1>6 DEF Sums
<1>8. Sums(f, S)[T] = SumAt(f, Sums(f, S), T)
  BY <1>7, Zenon
<1>9. QED  BY <1>8 DEF SumAt, Fewer

(* Sums of naturals are naturals, and depend on what is summed alone.      *)
LEMMA SumIsNat ==
  ASSUME NEW f, NEW S, IsFiniteSet(S), \A x \in S : f[x] \in Nat
  PROVE  Sum(f, S) \in Nat
<1> DEFINE F == {T \in SUBSET S : Sums(f, S)[T] \in Nat}
<1>1. {} \in F
  BY SumsAre
<1>2. ASSUME NEW T \in SUBSET S, T # {}, Fewer(T) \in F PROVE T \in F
  <2>1. (CHOOSE x \in T : TRUE) \in S
    BY <1>2, FewerIsSmaller
  <2>2. Sums(f, S)[T] = f[CHOOSE x \in T : TRUE] + Sums(f, S)[Fewer(T)]
    BY <1>2, SumsAre
  <2>3. QED  BY <1>2, <2>1, <2>2
<1>3. SUBSET S \subseteq F
  <2> HIDE DEF F
  <2>1. QED  BY <1>1, <1>2, SubsetInduction
<1>4. QED  BY <1>3, SumIs

(* Functions that agree on a set have the same sum over it.                *)
LEMMA SumAgrees ==
  ASSUME NEW f, NEW g, NEW S, IsFiniteSet(S), \A x \in S : f[x] = g[x]
  PROVE  Sum(f, S) = Sum(g, S)
<1> DEFINE F == {T \in SUBSET S : Sums(f, S)[T] = Sums(g, S)[T]}
<1>1. {} \in F
  BY SumsAre
<1>2. ASSUME NEW T \in SUBSET S, T # {}, Fewer(T) \in F PROVE T \in F
  <2>1. (CHOOSE x \in T : TRUE) \in S
    BY <1>2, FewerIsSmaller
  <2>2. /\ Sums(f, S)[T] = f[CHOOSE x \in T : TRUE] + Sums(f, S)[Fewer(T)]
        /\ Sums(g, S)[T] = g[CHOOSE x \in T : TRUE] + Sums(g, S)[Fewer(T)]
    BY <1>2, SumsAre
  <2>3. QED  BY <1>2, <2>1, <2>2
<1>3. SUBSET S \subseteq F
  <2> HIDE DEF F
  <2>1. QED  BY <1>1, <1>2, SubsetInduction
<1>4. QED  BY <1>3, SumIs

(* A union has at most as many elements as the sets of it together.        *)
LEMMA SumBounds ==
  ASSUME NEW f, NEW h, NEW S, IsFiniteSet(S),
         \A x \in S : /\ f[x] \in Nat
                      /\ IsFiniteSet(h[x]) /\ Cardinality(h[x]) <= f[x]
  PROVE  /\ IsFiniteSet(UNION {h[x] : x \in S})
         /\ Cardinality(UNION {h[x] : x \in S}) <= Sum(f, S)
<1> DEFINE All(T) == UNION {h[x] : x \in T}
           F == {T \in SUBSET S : /\ Sums(f, S)[T] \in Nat /\ IsFiniteSet(All(T))
                                  /\ Cardinality(All(T)) <= Sums(f, S)[T]}
<1>1. {} \in F
  <2>1. All({}) = {}
    OBVIOUS
  <2>2. Sums(f, S)[{}] = 0
    BY SumsAre
  <2> HIDE DEF All
  <2>3. QED  BY <2>1, <2>2, FS_EmptySet
<1>2. ASSUME NEW T \in SUBSET S, T # {}, Fewer(T) \in F PROVE T \in F
  <2> DEFINE y == CHOOSE x \in T : TRUE
             U == Fewer(T)
  <2>1. y \in S /\ y \in T
    BY <1>2, FewerIsSmaller
  <2>2. Sums(f, S)[T] = f[y] + Sums(f, S)[U]
    BY <1>2, SumsAre
  <2>3. T = U \cup {y}
    BY <2>1 DEF Fewer
  <2> HIDE DEF y, U
  <2>4. All(T) = All(U) \cup h[y]
    BY <2>3
  <2>5. /\ IsFiniteSet(All(U)) /\ Cardinality(All(U)) <= Sums(f, S)[U]
        /\ Sums(f, S)[U] \in Nat
    BY <1>2 DEF U
  <2>6. IsFiniteSet(h[y]) /\ Cardinality(h[y]) <= f[y] /\ f[y] \in Nat
    BY <2>1
  <2> HIDE DEF All
  <2>7. /\ IsFiniteSet(All(T))
        /\ Cardinality(All(T)) =
             Cardinality(All(U)) + Cardinality(h[y]) - Cardinality(All(U) \cap h[y])
    BY <2>4, <2>5, <2>6, FS_Union
  <2>8. /\ Cardinality(All(U)) \in Nat /\ Cardinality(h[y]) \in Nat
        /\ Cardinality(All(U) \cap h[y]) \in Nat
    BY <2>5, <2>6, FS_Intersection, FS_CardinalityType
  <2>9. QED  BY <2>2, <2>5, <2>6, <2>7, <2>8
<1>3. SUBSET S \subseteq F
  <2> HIDE DEF F
  <2>1. QED  BY <1>1, <1>2, SubsetInduction
<1>4. S \in F
  BY <1>3
<1> HIDE DEF All
<1>5. QED  BY <1>4, SumIs DEF All
-----------------------------------------------------------------------------
(* The same for the numbers of choices that references_count finds.        *)
CountsAt(nodes, f, i) ==
  LET n == nodes[i] IN
  CASE n.kind \in Leafs -> 1
    [] n.kind = "Or" -> Sum(f, n.any)
    [] OTHER -> f[n.object]

IsCounts(nodes, k, f) == f = [i \in 1 .. k |-> CountsAt(nodes, f, i)]

(* A choice is between finitely many nodes.                                *)
LEMMA ChoicesFinite ==
  ASSUME NEW nodes, Sound(nodes), NEW i \in DOMAIN nodes
  PROVE  IsFiniteSet(nodes[i].any)
<1>1. IsFiniteSet(1 .. Len(nodes))
  BY Parts, FS_Interval
<1>2. nodes[i].any \in SUBSET (1 .. Len(nodes))
  BY Parts
<1>3. QED  BY <1>1, <1>2, FS_Subset

(* What a place counts depends on the counts of its parts alone.           *)
LEMMA CountsAtAgree ==
  ASSUME NEW nodes, Sound(nodes), NEW i \in DOMAIN nodes, NEW f, NEW g,
         \A j \in Below(nodes[i]) : f[j] = g[j]
  PROVE  CountsAt(nodes, f, i) = CountsAt(nodes, g, i)
<1> DEFINE n == nodes[i]
<1>1. /\ n.kind \notin Leafs \cup {"Or"} => f[n.object] = g[n.object]
      /\ \A x \in n.any : f[x] = g[x]
  BY Parts
<1>2. Sum(f, n.any) = Sum(g, n.any)
  BY <1>1, ChoicesFinite, SumAgrees
<1>3. CASE n.kind \in Leafs
  <2>1. n.kind # "Or"
    BY <1>3 DEF Leafs
  <2>2. \A h : CountsAt(nodes, h, i) = 1
    BY <1>3, <2>1, Zenon DEF CountsAt
  <2>3. QED  BY <2>2
<1>4. CASE n.kind = "Or"
  BY <1>2, <1>4 DEF CountsAt
<1>5. CASE n.kind \notin Leafs \cup {"Or"}
  BY <1>1, <1>5 DEF CountsAt
<1>6. QED  BY <1>3, <1>4, <1>5

(* By induction, some function counts every place from those below.        *)
LEMMA CountsExist ==
  ASSUME NEW nodes, Sound(nodes)
  PROVE  \E f : IsCounts(nodes, Len(nodes), f)
<1> DEFINE T == {k \in Nat : k <= Len(nodes) => \E f : IsCounts(nodes, k, f)}
<1>1. Len(nodes) \in Nat /\ DOMAIN nodes = 1 .. Len(nodes)
  BY LenProperties DEF Sound
<1>2. 0 \in T
  <2>1. IsCounts(nodes, 0, [i \in 1 .. 0 |-> {}])
    BY DEF IsCounts
  <2>2. QED  BY <2>1
<1>3. ASSUME NEW k \in Nat, k \in T PROVE k + 1 \in T
  <2>1. SUFFICES ASSUME k + 1 <= Len(nodes) PROVE \E f : IsCounts(nodes, k + 1, f)
    OBVIOUS
  <2>2. PICK f : IsCounts(nodes, k, f)
    BY <1>1, <1>3, <2>1
  <2> DEFINE g == [i \in 1 .. k + 1 |->
                     IF i <= k THEN f[i] ELSE CountsAt(nodes, f, i)]
  <2>3. ASSUME NEW i \in 1 .. k + 1 PROVE g[i] = CountsAt(nodes, g, i)
    <3>1. i \in DOMAIN nodes
      BY <1>1, <2>1
    <3>2. \A j \in Below(nodes[i]) : j \in 1 .. k + 1 /\ j <= k
      BY <1>1, <2>1, <3>1, Parts
    <3>3. \A j \in Below(nodes[i]) : g[j] = f[j]
      BY <3>2
    <3>4. i <= k => f[i] = CountsAt(nodes, f, i)
      <4>1. i <= k => i \in 1 .. k
        OBVIOUS
      <4>2. QED  BY <2>2, <4>1, Zenon DEF IsCounts
    <3>5. g[i] = CountsAt(nodes, f, i)
      BY <3>4
    <3> HIDE DEF g
    <3>6. CountsAt(nodes, g, i) = CountsAt(nodes, f, i)
      BY <3>1, <3>3, CountsAtAgree
    <3>7. QED  BY <3>5, <3>6
  <2>4. g = [i \in 1 .. k + 1 |-> g[i]]
    OBVIOUS
  <2> HIDE DEF g
  <2>5. IsCounts(nodes, k + 1, g)
    BY <2>3, <2>4 DEF IsCounts
  <2>6. QED  BY <2>5
<1>4. Nat \subseteq T
  <2> HIDE DEF T
  <2>1. QED  BY <1>2, <1>3, Induction
<1>5. QED  BY <1>1, <1>4

(* So Counts satisfies its own equation, and its values are naturals.      *)
LEMMA CountsAre ==
  ASSUME NEW nodes, Sound(nodes), NEW i \in DOMAIN nodes
  PROVE  Counts(nodes)[i] = CountsAt(nodes, Counts(nodes), i)
<1> DEFINE f == CHOOSE f : f = [j \in DOMAIN nodes |-> CountsAt(nodes, f, j)]
<1>1. Counts(nodes) = f
  BY DEF Counts, CountsAt
<1>2. DOMAIN nodes = 1 .. Len(nodes)
  BY LenProperties DEF Sound
<1>3. \E g : g = [j \in DOMAIN nodes |-> CountsAt(nodes, g, j)]
  <2>1. \E g : g = [j \in 1 .. Len(nodes) |-> CountsAt(nodes, g, j)]
    BY CountsExist, Zenon DEF IsCounts
  <2>2. QED  BY <1>2, <2>1, Zenon
<1>4. f = [j \in DOMAIN nodes |-> CountsAt(nodes, f, j)]
  BY <1>3
<1> HIDE DEF f
<1>5. QED  BY <1>1, <1>4, Zenon

(* The same for what the places stand for.                                 *)
MeaningsAt(nodes, f, i) ==
  LET n == nodes[i] IN
  CASE n.kind \in Leafs -> {<<Text(n)>>}
    [] n.kind = "Or" -> UNION {f[x] : x \in n.any}
    [] n.kind = "Mask" -> f[n.object]
    [] OTHER -> {Append(c, Text(n)) : c \in f[n.object]}

IsMeanings(nodes, k, f) == f = [i \in 1 .. k |-> MeaningsAt(nodes, f, i)]

(* What a place stands for depends on what its parts stand for alone.      *)
LEMMA MeaningsAtAgree ==
  ASSUME NEW nodes, Sound(nodes), NEW i \in DOMAIN nodes, NEW f, NEW g,
         \A j \in Below(nodes[i]) : f[j] = g[j]
  PROVE  MeaningsAt(nodes, f, i) = MeaningsAt(nodes, g, i)
<1> DEFINE n == nodes[i]
<1>1. /\ n.kind \notin Leafs \cup {"Or"} => f[n.object] = g[n.object]
      /\ \A x \in n.any : f[x] = g[x]
  BY Parts
<1>2. {f[x] : x \in n.any} = {g[x] : x \in n.any}
  BY <1>1
<1>3. CASE n.kind \in Leafs
  <2>1. n.kind # "Or" /\ n.kind # "Mask"
    BY <1>3 DEF Leafs
  <2>2. \A h : MeaningsAt(nodes, h, i) = {<<Text(n)>>}
    BY <1>3, <2>1, Zenon DEF MeaningsAt
  <2>3. QED  BY <2>2
<1>4. CASE n.kind = "Or"
  BY <1>2, <1>4 DEF MeaningsAt
<1>5. CASE n.kind \notin Leafs \cup {"Or"}
  BY <1>1, <1>5 DEF MeaningsAt
<1>6. QED  BY <1>3, <1>4, <1>5

(* By induction, some function gives every place what it stands for.       *)
LEMMA MeaningsExist ==
  ASSUME NEW nodes, Sound(nodes)
  PROVE  \E f : IsMeanings(nodes, Len(nodes), f)
<1> DEFINE T == {k \in Nat : k <= Len(nodes) => \E f : IsMeanings(nodes, k, f)}
<1>1. Len(nodes) \in Nat /\ DOMAIN nodes = 1 .. Len(nodes)
  BY LenProperties DEF Sound
<1>2. 0 \in T
  <2>1. IsMeanings(nodes, 0, [i \in 1 .. 0 |-> {}])
    BY DEF IsMeanings
  <2>2. QED  BY <2>1
<1>3. ASSUME NEW k \in Nat, k \in T PROVE k + 1 \in T
  <2>1. SUFFICES ASSUME k + 1 <= Len(nodes) PROVE \E f : IsMeanings(nodes, k + 1, f)
    OBVIOUS
  <2>2. PICK f : IsMeanings(nodes, k, f)
    BY <1>1, <1>3, <2>1
  <2> DEFINE g == [i \in 1 .. k + 1 |->
                     IF i <= k THEN f[i] ELSE MeaningsAt(nodes, f, i)]
  <2>3. ASSUME NEW i \in 1 .. k + 1 PROVE g[i] = MeaningsAt(nodes, g, i)
    <3>1. i \in DOMAIN nodes
      BY <1>1, <2>1
    <3>2. \A j \in Below(nodes[i]) : j \in 1 .. k + 1 /\ j <= k
      BY <1>1, <2>1, <3>1, Parts
    <3>3. \A j \in Below(nodes[i]) : g[j] = f[j]
      BY <3>2
    <3>4. i <= k => f[i] = MeaningsAt(nodes, f, i)
      <4>1. i <= k => i \in 1 .. k
        OBVIOUS
      <4>2. QED  BY <2>2, <4>1, Zenon DEF IsMeanings
    <3>5. g[i] = MeaningsAt(nodes, f, i)
      BY <3>4
    <3> HIDE DEF g
    <3>6. MeaningsAt(nodes, g, i) = MeaningsAt(nodes, f, i)
      BY <3>1, <3>3, MeaningsAtAgree
    <3>7. QED  BY <3>5, <3>6
  <2>4. g = [i \in 1 .. k + 1 |-> g[i]]
    OBVIOUS
  <2> HIDE DEF g
  <2>5. IsMeanings(nodes, k + 1, g)
    BY <2>3, <2>4 DEF IsMeanings
  <2>6. QED  BY <2>5
<1>4. Nat \subseteq T
  <2> HIDE DEF T
  <2>1. QED  BY <1>2, <1>3, Induction
<1>5. QED  BY <1>1, <1>4

(* So Meanings satisfies its own equation.                                 *)
LEMMA MeaningsAre ==
  ASSUME NEW nodes, Sound(nodes), NEW i \in DOMAIN nodes
  PROVE  Meanings(nodes)[i] = MeaningsAt(nodes, Meanings(nodes), i)
<1> DEFINE f == CHOOSE f : f = [j \in DOMAIN nodes |-> MeaningsAt(nodes, f, j)]
<1>1. Meanings(nodes) = f
  BY DEF Meanings, MeaningsAt
<1>2. DOMAIN nodes = 1 .. Len(nodes)
  BY LenProperties DEF Sound
<1>3. \E g : g = [j \in DOMAIN nodes |-> MeaningsAt(nodes, g, j)]
  <2>1. \E g : g = [j \in 1 .. Len(nodes) |-> MeaningsAt(nodes, g, j)]
    BY MeaningsExist, Zenon DEF IsMeanings
  <2>2. QED  BY <1>2, <2>1, Zenon
<1>4. f = [j \in DOMAIN nodes |-> MeaningsAt(nodes, f, j)]
  BY <1>3
<1> HIDE DEF f
<1>5. QED  BY <1>1, <1>4, Zenon

(* The same for the parts of the places.                                   *)
PartsAt(nodes, f, i) == {i} \cup UNION {f[j] : j \in Below(nodes[i])}

IsParts(nodes, k, f) == f = [i \in 1 .. k |-> PartsAt(nodes, f, i)]

\* The function that PartsOf and Needed define.
PartsIn(nodes) == CHOOSE f : f = [i \in DOMAIN nodes |-> PartsAt(nodes, f, i)]

(* The parts of a place depend on the parts of those below alone.          *)
LEMMA PartsAtAgree ==
  ASSUME NEW nodes, NEW i, NEW f, NEW g, \A j \in Below(nodes[i]) : f[j] = g[j]
  PROVE  PartsAt(nodes, f, i) = PartsAt(nodes, g, i)
BY DEF PartsAt

(* By induction, some function gives every place its parts.                *)
LEMMA PartsExist ==
  ASSUME NEW nodes, Sound(nodes)
  PROVE  \E f : IsParts(nodes, Len(nodes), f)
<1> DEFINE T == {k \in Nat : k <= Len(nodes) => \E f : IsParts(nodes, k, f)}
<1>1. Len(nodes) \in Nat /\ DOMAIN nodes = 1 .. Len(nodes)
  BY LenProperties DEF Sound
<1>2. 0 \in T
  <2>1. IsParts(nodes, 0, [i \in 1 .. 0 |-> {}])
    BY DEF IsParts
  <2>2. QED  BY <2>1
<1>3. ASSUME NEW k \in Nat, k \in T PROVE k + 1 \in T
  <2>1. SUFFICES ASSUME k + 1 <= Len(nodes) PROVE \E f : IsParts(nodes, k + 1, f)
    OBVIOUS
  <2>2. PICK f : IsParts(nodes, k, f)
    BY <1>1, <1>3, <2>1
  <2> DEFINE g == [i \in 1 .. k + 1 |->
                     IF i <= k THEN f[i] ELSE PartsAt(nodes, f, i)]
  <2>3. ASSUME NEW i \in 1 .. k + 1 PROVE g[i] = PartsAt(nodes, g, i)
    <3>1. i \in DOMAIN nodes
      BY <1>1, <2>1
    <3>2. \A j \in Below(nodes[i]) : j \in 1 .. k + 1 /\ j <= k
      BY <1>1, <2>1, <3>1, Parts
    <3>3. \A j \in Below(nodes[i]) : g[j] = f[j]
      BY <3>2
    <3>4. i <= k => f[i] = PartsAt(nodes, f, i)
      <4>1. i <= k => i \in 1 .. k
        OBVIOUS
      <4>2. QED  BY <2>2, <4>1, Zenon DEF IsParts
    <3>5. g[i] = PartsAt(nodes, f, i)
      BY <3>4
    <3> HIDE DEF g
    <3>6. PartsAt(nodes, g, i) = PartsAt(nodes, f, i)
      BY <3>1, <3>3, PartsAtAgree
    <3>7. QED  BY <3>5, <3>6
  <2>4. g = [i \in 1 .. k + 1 |-> g[i]]
    OBVIOUS
  <2> HIDE DEF g
  <2>5. IsParts(nodes, k + 1, g)
    BY <2>3, <2>4 DEF IsParts
  <2>6. QED  BY <2>5
<1>4. Nat \subseteq T
  <2> HIDE DEF T
  <2>1. QED  BY <1>2, <1>3, Induction
<1>5. QED  BY <1>1, <1>4

(* So PartsIn satisfies its own equation.                                  *)
LEMMA PartsAre ==
  ASSUME NEW nodes, Sound(nodes), NEW i \in DOMAIN nodes
  PROVE  PartsIn(nodes)[i] = PartsAt(nodes, PartsIn(nodes), i)
<1> DEFINE f == CHOOSE f : f = [j \in DOMAIN nodes |-> PartsAt(nodes, f, j)]
<1>1. PartsIn(nodes) = f
  BY DEF PartsIn, PartsAt
<1>2. DOMAIN nodes = 1 .. Len(nodes)
  BY LenProperties DEF Sound
<1>3. \E g : g = [j \in DOMAIN nodes |-> PartsAt(nodes, g, j)]
  <2>1. \E g : g = [j \in 1 .. Len(nodes) |-> PartsAt(nodes, g, j)]
    BY PartsExist, Zenon DEF IsParts
  <2>2. QED  BY <1>2, <2>1, Zenon
<1>4. f = [j \in DOMAIN nodes |-> PartsAt(nodes, f, j)]
  BY <1>3
<1> HIDE DEF f
<1>5. QED  BY <1>1, <1>4, Zenon
-----------------------------------------------------------------------------
(* The hash of texts, one text after the other.                            *)
IsHashing(m, texts, k, f) ==
  f = [j \in 0 .. k |-> IF j = 0 THEN 0 ELSE Step(m, f[j - 1], texts[j])]

Hashing(m, texts) == CHOOSE f : IsHashing(m, texts, Len(texts), f)

(* The function that hashes the first texts of any list exists.            *)
LEMMA HashingExists ==
  ASSUME NEW m, NEW texts, Len(texts) \in Nat
  PROVE  IsHashing(m, texts, Len(texts), Hashing(m, texts))
<1> DEFINE T == {k \in Nat : \E f : IsHashing(m, texts, k, f)}
<1>1. 0 \in T
  <2>1. IsHashing(m, texts, 0, [j \in 0 .. 0 |-> 0])
    BY DEF IsHashing
  <2>2. QED  BY <2>1
<1>2. ASSUME NEW k \in Nat, k \in T PROVE k + 1 \in T
  <2>1. PICK f : IsHashing(m, texts, k, f)
    BY <1>2
  <2> DEFINE g == [j \in 0 .. k + 1 |->
                     IF j <= k THEN f[j] ELSE Step(m, f[j - 1], texts[j])]
  <2>2. ASSUME NEW j \in 0 .. k + 1
        PROVE  g[j] = IF j = 0 THEN 0 ELSE Step(m, g[j - 1], texts[j])
    <3>1. CASE j = 0
      <4>1. 0 \in 0 .. k
        OBVIOUS
      <4>2. f[0] = 0
        BY <2>1, <4>1, Zenon DEF IsHashing
      <4>3. QED  BY <3>1, <4>2
    <3>2. CASE j # 0
      <4>1. j - 1 \in 0 .. k + 1 /\ j - 1 <= k
        BY <3>2
      <4>2. g[j - 1] = f[j - 1]
        BY <4>1
      <4>3. j <= k => j \in 0 .. k
        OBVIOUS
      <4>4. j <= k => f[j] = Step(m, f[j - 1], texts[j])
        BY <2>1, <3>2, <4>3, Zenon DEF IsHashing
      <4>5. QED  BY <3>2, <4>2, <4>4
    <3>3. QED  BY <3>1, <3>2
  <2>3. g = [j \in 0 .. k + 1 |-> g[j]]
    OBVIOUS
  <2> HIDE DEF g
  <2>4. IsHashing(m, texts, k + 1, g)
    BY <2>2, <2>3 DEF IsHashing
  <2>5. QED  BY <2>4
<1>3. Nat \subseteq T
  <2> HIDE DEF T
  <2>1. QED  BY <1>1, <1>2, Induction
<1>4. QED  BY <1>3 DEF Hashing

(* It goes one Step per text.                                              *)
LEMMA HashingSteps ==
  ASSUME NEW m, NEW texts, Len(texts) \in Nat
  PROVE  /\ HashOf(m, texts) = Hashing(m, texts)[Len(texts)]
         /\ Hashing(m, texts)[0] = 0
         /\ \A j \in 1 .. Len(texts) :
              Hashing(m, texts)[j] = Step(m, Hashing(m, texts)[j - 1], texts[j])
<1>1. HashOf(m, texts) = Hashing(m, texts)[Len(texts)]
  BY DEF HashOf, Hashing, IsHashing
<1>2. \A j \in 0 .. Len(texts) :
        Hashing(m, texts)[j] = IF j = 0 THEN 0
                               ELSE Step(m, Hashing(m, texts)[j - 1], texts[j])
  <2> DEFINE F == Hashing(m, texts)
  <2>1. IsHashing(m, texts, Len(texts), F)
    BY HashingExists
  <2> HIDE DEF F
  <2>2. F = [j \in 0 .. Len(texts) |-> IF j = 0 THEN 0 ELSE Step(m, F[j - 1], texts[j])]
    BY <2>1 DEF IsHashing
  <2>3. \A j \in 0 .. Len(texts) : F[j] = IF j = 0 THEN 0 ELSE Step(m, F[j - 1], texts[j])
    BY <2>2, Zenon
  <2>4. QED  BY <2>3 DEF F
<1>3. 0 \in 0 .. Len(texts) /\ \A j \in 1 .. Len(texts) : j \in 0 .. Len(texts) /\ j # 0
  OBVIOUS
<1>4. QED  BY <1>1, <1>2, <1>3

(* The hash of a longer text is one more Step.                             *)
LEMMA HashOfAppend ==
  ASSUME NEW m, NEW S, NEW c \in Seq(S), NEW x \in S
  PROVE  HashOf(m, Append(c, x)) = Step(m, HashOf(m, c), x)
<1> DEFINE d == Append(c, x)
           F == Hashing(m, c)
           G == Hashing(m, d)
           T == {k \in Nat : k <= Len(c) => F[k] = G[k]}
<1>1. /\ Len(c) \in Nat /\ Len(d) = Len(c) + 1 /\ d[Len(c) + 1] = x
      /\ \A j \in 1 .. Len(c) : d[j] = c[j]
  BY AppendProperties, LenProperties
<1> HIDE DEF d
<1>2. /\ F[0] = 0 /\ G[0] = 0
      /\ \A j \in 1 .. Len(c) : F[j] = Step(m, F[j - 1], c[j])
      /\ \A j \in 1 .. Len(c) + 1 : G[j] = Step(m, G[j - 1], d[j])
      /\ HashOf(m, c) = F[Len(c)] /\ HashOf(m, d) = G[Len(c) + 1]
  BY <1>1, HashingSteps
<1> HIDE DEF F, G
<1>3. Nat \subseteq T
  <2>1. 0 \in T
    BY <1>2
  <2>2. ASSUME NEW k \in Nat, k \in T PROVE k + 1 \in T
    <3>1. SUFFICES ASSUME k + 1 <= Len(c) PROVE F[k + 1] = G[k + 1]
      OBVIOUS
    <3>2. F[k] = G[k] /\ k + 1 \in 1 .. Len(c) /\ k + 1 \in 1 .. Len(c) + 1
          /\ (k + 1) - 1 = k
      BY <1>1, <2>2, <3>1
    <3>3. QED  BY <1>1, <1>2, <3>2
  <2> HIDE DEF T
  <2>3. QED  BY <2>1, <2>2, Induction
<1>4. F[Len(c)] = G[Len(c)]
  BY <1>1, <1>3
<1>5. Len(c) + 1 \in 1 .. Len(c) + 1 /\ (Len(c) + 1) - 1 = Len(c)
  BY <1>1
<1>6. G[Len(c) + 1] = Step(m, G[Len(c)], x)
  BY <1>1, <1>2, <1>5
<1>7. QED  BY <1>2, <1>4, <1>6 DEF d

(* The hash of a single text is the Step from 0.                           *)
LEMMA HashOfOne ==
  ASSUME NEW m, NEW S, NEW x \in S
  PROVE  HashOf(m, <<x>>) = Step(m, 0, x)
<1>1. <<x>> \in Seq(S) /\ Len(<<x>>) = 1 /\ <<x>>[1] = x
  OBVIOUS
<1>2. 1 \in 1 .. 1 /\ 1 - 1 = 0
  OBVIOUS
<1>3. QED  BY <1>1, <1>2, HashingSteps

-----------------------------------------------------------------------------
(* The texts of a list of nodes.                                           *)
TextsOf(nodes) == {Text(nodes[i]) : i \in DOMAIN nodes}

(* The hashes of a node are those of what it stands for.                   *)
LEMMA HashesOfMeanings ==
  ASSUME NEW m, NEW nodes, Sound(nodes), NEW i \in DOMAIN nodes
  PROVE  /\ Meanings(nodes)[i] \subseteq Seq(TextsOf(nodes))
         /\ Hashes(m, nodes)[i] = {HashOf(m, t) : t \in Meanings(nodes)[i]}
<1> DEFINE M == Meanings(nodes)
           H == Hashes(m, nodes)
           S == TextsOf(nodes)
           T == {k \in Nat : k \in DOMAIN nodes =>
                   /\ M[k] \subseteq Seq(S)
                   /\ H[k] = {HashOf(m, t) : t \in M[k]}}
<1>1. ASSUME NEW k \in Nat, \A l \in Nat : l < k => l \in T PROVE k \in T
  <2>1. SUFFICES ASSUME k \in DOMAIN nodes
                 PROVE  M[k] \subseteq Seq(S) /\ H[k] = {HashOf(m, t) : t \in M[k]}
    OBVIOUS
  <2> DEFINE n == nodes[k]
             x == Text(n)
  <2>2. /\ n.kind \notin Leafs \cup {"Or"} => n.object \in Below(n)
        /\ n.any \subseteq Below(n)
        /\ \A j \in Below(n) : j \in 1 .. k - 1 /\ j \in DOMAIN nodes
    BY <2>1, Parts
  <2>3. \A j \in Below(n) : M[j] \subseteq Seq(S) /\ H[j] = {HashOf(m, t) : t \in M[j]}
    <3>1. ASSUME NEW j \in Below(n)
          PROVE  M[j] \subseteq Seq(S) /\ H[j] = {HashOf(m, t) : t \in M[j]}
      <4>1. j \in Nat /\ j < k /\ j \in DOMAIN nodes
        BY <2>2
      <4>2. QED  BY <1>1, <4>1
    <3>2. QED  BY <3>1
  <2>4. H[k] = HashesAt(m, nodes, H, k) /\ M[k] = MeaningsAt(nodes, M, k)
    BY <2>1, HashesAre, MeaningsAre
  <2>5. x \in S
    BY <2>1 DEF TextsOf
  <2> HIDE DEF M, H, S, x
  <2>6. CASE n.kind \in Leafs
    <3>1. n.kind # "Or" /\ n.kind # "Mask"
      BY <2>6 DEF Leafs
    <3>2. H[k] = {Step(m, 0, x)} /\ M[k] = {<<x>>}
      BY <2>4, <2>6, <3>1, Zenon DEF HashesAt, MeaningsAt, x
    <3>3. <<x>> \in Seq(S) /\ HashOf(m, <<x>>) = Step(m, 0, x)
      BY <2>5, HashOfOne
    <3>4. QED  BY <3>2, <3>3
  <2>7. CASE n.kind = "Or"
    <3>1. n.kind \notin Leafs /\ n.kind # "Mask"
      BY <2>7 DEF Leafs
    <3>2. H[k] = UNION {H[y] : y \in n.any} /\ M[k] = UNION {M[y] : y \in n.any}
      BY <2>4, <2>7, <3>1, Zenon DEF HashesAt, MeaningsAt
    <3>3. \A y \in n.any : M[y] \subseteq Seq(S) /\ H[y] = {HashOf(m, t) : t \in M[y]}
      BY <2>2, <2>3
    <3>4. ASSUME NEW h \in H[k] PROVE h \in {HashOf(m, t) : t \in M[k]}
      <4>1. PICK y \in n.any : h \in H[y]
        BY <3>2
      <4>2. PICK t \in M[y] : h = HashOf(m, t)
        BY <3>3, <4>1
      <4>3. t \in M[k]
        BY <3>2
      <4>4. QED  BY <4>2, <4>3
    <3>5. ASSUME NEW t \in M[k] PROVE HashOf(m, t) \in H[k] /\ t \in Seq(S)
      <4>1. PICK y \in n.any : t \in M[y]
        BY <3>2
      <4>2. HashOf(m, t) \in H[y] /\ t \in Seq(S)
        BY <3>3, <4>1
      <4>3. QED  BY <3>2, <4>2
    <3>6. QED  BY <3>4, <3>5
  <2>8. CASE n.kind = "Mask"
    <3>1. n.kind \notin Leafs /\ n.kind # "Or"
      BY <2>8 DEF Leafs
    <3>2. H[k] = H[n.object] /\ M[k] = M[n.object]
      BY <2>4, <2>8, <3>1, Zenon DEF HashesAt, MeaningsAt
    <3>3. QED  BY <2>2, <2>3, <3>1, <3>2
  <2>9. CASE n.kind \notin Leafs \cup {"Or", "Mask"}
    <3>1. /\ H[k] = {Step(m, h, x) : h \in H[n.object]}
          /\ M[k] = {Append(c, x) : c \in M[n.object]}
      BY <2>4, <2>9, Zenon DEF HashesAt, MeaningsAt, x
    <3>2. /\ M[n.object] \subseteq Seq(S)
          /\ H[n.object] = {HashOf(m, t) : t \in M[n.object]}
      BY <2>2, <2>3, <2>9
    <3>3. \A c \in M[n.object] : /\ Append(c, x) \in Seq(S)
                                 /\ HashOf(m, Append(c, x)) = Step(m, HashOf(m, c), x)
      BY <2>5, <3>2, HashOfAppend, AppendProperties
    <3>4. ASSUME NEW h \in H[k] PROVE h \in {HashOf(m, t) : t \in M[k]}
      <4>1. PICK g \in H[n.object] : h = Step(m, g, x)
        BY <3>1
      <4>2. PICK c \in M[n.object] : g = HashOf(m, c)
        BY <3>2
      <4>3. Append(c, x) \in M[k] /\ h = HashOf(m, Append(c, x))
        BY <3>1, <3>3, <4>1, <4>2
      <4>4. QED  BY <4>3
    <3>5. ASSUME NEW t \in M[k] PROVE HashOf(m, t) \in H[k] /\ t \in Seq(S)
      <4>1. PICK c \in M[n.object] : t = Append(c, x)
        BY <3>1
      <4>2. HashOf(m, c) \in H[n.object]
        BY <3>2
      <4>3. Step(m, HashOf(m, c), x) \in H[k]
        BY <3>1, <4>2
      <4>4. QED  BY <3>3, <4>1, <4>3
    <3>6. QED  BY <3>4, <3>5
  <2>10. QED  BY <2>6, <2>7, <2>8, <2>9
<1>2. Nat \subseteq T
  <2> HIDE DEF T
  <2>1. QED  BY <1>1, StrongInduction
<1>3. i \in Nat
  BY Parts
<1>4. QED  BY <1>2, <1>3
-----------------------------------------------------------------------------
(* A node has at most as many hashes as it is counted.                     *)
LEMMA StepsAreFewer ==
  ASSUME NEW m, NEW x, NEW H, IsFiniteSet(H)
  PROVE  /\ IsFiniteSet({Step(m, h, x) : h \in H})
         /\ Cardinality({Step(m, h, x) : h \in H}) <= Cardinality(H)
<1> DEFINE T == {Step(m, h, x) : h \in H}
           f == [h \in H |-> Step(m, h, x)]
<1>1. f \in Surjection(H, T)
  BY DEF Surjection
<1>2. QED  BY <1>1, FS_Surjection

(* The number of hashes of a node is at most what references_count says.   *)
LEMMA CountsBound ==
  ASSUME NEW m, NEW nodes, Sound(nodes), NEW i \in DOMAIN nodes
  PROVE  /\ Counts(nodes)[i] \in Nat
         /\ IsFiniteSet(Hashes(m, nodes)[i])
         /\ Cardinality(Hashes(m, nodes)[i]) <= Counts(nodes)[i]
<1> DEFINE C == Counts(nodes)
           H == Hashes(m, nodes)
           Fits(k) == C[k] \in Nat /\ IsFiniteSet(H[k]) /\ Cardinality(H[k]) <= C[k]
           T == {k \in Nat : k \in DOMAIN nodes => Fits(k)}
<1>1. ASSUME NEW k \in Nat, \A l \in Nat : l < k => l \in T PROVE k \in T
  <2>1. SUFFICES ASSUME k \in DOMAIN nodes PROVE Fits(k)
    OBVIOUS
  <2> DEFINE n == nodes[k]
             x == Text(n)
  <2>2. /\ n.kind \notin Leafs \cup {"Or"} => n.object \in Below(n)
        /\ n.any \subseteq Below(n)
        /\ \A j \in Below(n) : j \in 1 .. k - 1 /\ j \in DOMAIN nodes
    BY <2>1, Parts
  <2>3. \A j \in Below(n) : Fits(j)
    <3>1. ASSUME NEW j \in Below(n) PROVE Fits(j)
      <4>1. j \in Nat /\ j < k /\ j \in DOMAIN nodes
        BY <2>2
      <4>2. QED  BY <1>1, <4>1
    <3>2. QED  BY <3>1
  <2>4. H[k] = HashesAt(m, nodes, H, k) /\ C[k] = CountsAt(nodes, C, k)
    BY <2>1, HashesAre, CountsAre
  <2>5. IsFiniteSet(n.any)
    BY <2>1, ChoicesFinite
  <2> HIDE DEF C, H, x
  <2>6. CASE n.kind \in Leafs
    <3>1. n.kind # "Or" /\ n.kind # "Mask"
      BY <2>6 DEF Leafs
    <3>2. H[k] = {Step(m, 0, x)} /\ C[k] = 1
      BY <2>4, <2>6, <3>1, Zenon DEF HashesAt, CountsAt, x
    <3>3. IsFiniteSet(H[k]) /\ Cardinality(H[k]) = 1
      <4>1. \A y : IsFiniteSet({y}) /\ Cardinality({y}) = 1
        BY FS_Singleton
      <4>2. QED  BY <3>2, <4>1
    <3>4. QED  BY <3>2, <3>3
  <2>7. CASE n.kind = "Or"
    <3>1. n.kind \notin Leafs /\ n.kind # "Mask"
      BY <2>7 DEF Leafs
    <3>2. H[k] = UNION {H[y] : y \in n.any} /\ C[k] = Sum(C, n.any)
      BY <2>4, <2>7, <3>1, Zenon DEF HashesAt, CountsAt
    <3>3. \A y \in n.any : Fits(y)
      BY <2>2, <2>3
    <3>4. C[k] \in Nat
      BY <2>5, <3>2, <3>3, SumIsNat
    <3>5. IsFiniteSet(H[k]) /\ Cardinality(H[k]) <= C[k]
      <4>1. \A y \in n.any : C[y] \in Nat /\ IsFiniteSet(H[y]) /\ Cardinality(H[y]) <= C[y]
        BY <3>3
      <4>2. /\ IsFiniteSet(UNION {H[y] : y \in n.any})
            /\ Cardinality(UNION {H[y] : y \in n.any}) <= Sum(C, n.any)
        BY <2>5, <4>1, SumBounds
      <4>3. QED  BY <3>2, <4>2
    <3>6. QED  BY <3>4, <3>5
  <2>8. CASE n.kind = "Mask"
    <3>1. n.kind \notin Leafs /\ n.kind # "Or"
      BY <2>8 DEF Leafs
    <3>2. H[k] = H[n.object] /\ C[k] = C[n.object]
      BY <2>4, <2>8, <3>1, Zenon DEF HashesAt, CountsAt
    <3>3. QED  BY <2>2, <2>3, <3>1, <3>2
  <2>9. CASE n.kind \notin Leafs \cup {"Or", "Mask"}
    <3>1. H[k] = {Step(m, h, x) : h \in H[n.object]} /\ C[k] = C[n.object]
      BY <2>4, <2>9, Zenon DEF HashesAt, CountsAt, x
    <3>2. Fits(n.object)
      BY <2>2, <2>3, <2>9
    <3>3. IsFiniteSet(H[k]) /\ Cardinality(H[k]) <= Cardinality(H[n.object])
      BY <3>1, <3>2, StepsAreFewer
    <3>4. Cardinality(H[k]) \in Nat /\ Cardinality(H[n.object]) \in Nat
      BY <3>2, <3>3, FS_CardinalityType
    <3>5. QED  BY <3>1, <3>2, <3>3, <3>4
  <2>10. QED  BY <2>6, <2>7, <2>8, <2>9
<1>2. Nat \subseteq T
  <2> HIDE DEF T
  <2>1. QED  BY <1>1, StrongInduction
<1>3. i \in Nat
  BY Parts
<1>4. QED  BY <1>2, <1>3

(* The hashes of a node are places of the filter.                          *)
LEMMA HashesInRange ==
  ASSUME NEW m \in DOMAIN Limits, NEW nodes, Sound(nodes), NEW i \in DOMAIN nodes
  PROVE  Hashes(m, nodes)[i] \subseteq 0 .. m - 1
<1> DEFINE H == Hashes(m, nodes)
           T == {k \in Nat : k \in DOMAIN nodes => H[k] \subseteq 0 .. m - 1}
<1>0. m \in Nat \ {0} /\ 0 \in 0 .. m - 1
  BY LimitsAssumption
<1>1. ASSUME NEW k \in Nat, \A l \in Nat : l < k => l \in T PROVE k \in T
  <2>1. SUFFICES ASSUME k \in DOMAIN nodes PROVE H[k] \subseteq 0 .. m - 1
    OBVIOUS
  <2> DEFINE n == nodes[k]
             x == Text(n)
  <2>2. /\ n.kind \notin Leafs \cup {"Or"} => n.object \in Below(n)
        /\ n.any \subseteq Below(n) /\ n \in Node
        /\ \A j \in Below(n) : j \in 1 .. k - 1 /\ j \in DOMAIN nodes
    BY <2>1, Parts
  <2>3. \A j \in Below(n) : H[j] \subseteq 0 .. m - 1
    <3>1. ASSUME NEW j \in Below(n) PROVE H[j] \subseteq 0 .. m - 1
      <4>1. j \in Nat /\ j < k /\ j \in DOMAIN nodes
        BY <2>2
      <4>2. QED  BY <1>1, <4>1
    <3>2. QED  BY <3>1
  <2>4. H[k] = HashesAt(m, nodes, H, k)
    BY <2>1, HashesAre
  <2>5. \A h \in 0 .. m - 1 : Step(m, h, x) \in 0 .. m - 1
    <3>1. n.kind \in Kinds /\ n.label \in Labels \cup {""}
      BY <2>2 DEF Node
    <3>2. Leaf(n.kind, n.label).kind = n.kind /\ Leaf(n.kind, n.label).label = n.label
      BY DEF Leaf
    <3>3. Text(Leaf(n.kind, n.label)) = x
      BY <3>2 DEF Text
    <3>4. QED  BY <3>1, <3>3, StepAssumption
  <2> HIDE DEF H, x
  <2>6. CASE n.kind \in Leafs
    <3>1. n.kind # "Or" /\ n.kind # "Mask"
      BY <2>6 DEF Leafs
    <3>2. H[k] = {Step(m, 0, x)}
      BY <2>4, <2>6, <3>1, Zenon DEF HashesAt, x
    <3>3. QED  BY <1>0, <2>5, <3>2
  <2>7. CASE n.kind = "Or"
    <3>1. n.kind \notin Leafs /\ n.kind # "Mask"
      BY <2>7 DEF Leafs
    <3>2. H[k] = UNION {H[y] : y \in n.any}
      BY <2>4, <2>7, <3>1, Zenon DEF HashesAt
    <3>3. QED  BY <2>2, <2>3, <3>2
  <2>8. CASE n.kind = "Mask"
    <3>1. n.kind \notin Leafs /\ n.kind # "Or"
      BY <2>8 DEF Leafs
    <3>2. H[k] = H[n.object]
      BY <2>4, <2>8, <3>1, Zenon DEF HashesAt
    <3>3. QED  BY <2>2, <2>3, <3>1, <3>2
  <2>9. CASE n.kind \notin Leafs \cup {"Or", "Mask"}
    <3>1. H[k] = {Step(m, h, x) : h \in H[n.object]}
      BY <2>4, <2>9, Zenon DEF HashesAt, x
    <3>2. QED  BY <2>2, <2>3, <2>5, <2>9, <3>1
  <2>10. QED  BY <2>6, <2>7, <2>8, <2>9
<1>2. Nat \subseteq T
  <2> HIDE DEF T
  <2>1. QED  BY <1>1, StrongInduction
<1>3. i \in Nat
  BY Parts
<1>4. QED  BY <1>2, <1>3

(* There is a filter for every number of references up to Full, with more  *)
(* places than that.                                                       *)
Suits(estimate, m) ==
  /\ estimate > Limits[m]
  /\ \A k \in DOMAIN Limits : estimate > Limits[k] => Limits[k] <= Limits[m]

(* The largest of the limits that the number exceeds is such a filter.     *)
LEMMA SomeSuits ==
  ASSUME NEW estimate \in Nat \ {0}
  PROVE  \E m \in DOMAIN Limits : Suits(estimate, m)
<1> DEFINE T == {d \in Nat : \A m \in DOMAIN Limits :
                   estimate > Limits[m] /\ d = estimate - Limits[m] =>
                     \E k \in DOMAIN Limits : Suits(estimate, k)}
<1>0. \A m \in DOMAIN Limits : Limits[m] \in Nat
  BY LimitsAssumption
<1>1. ASSUME NEW d \in Nat, \A c \in Nat : c < d => c \in T PROVE d \in T
  <2>1. SUFFICES ASSUME NEW m \in DOMAIN Limits,
                        estimate > Limits[m], d = estimate - Limits[m]
                 PROVE  \E k \in DOMAIN Limits : Suits(estimate, k)
    OBVIOUS
  <2>2. CASE \E l \in DOMAIN Limits : estimate > Limits[l] /\ Limits[l] > Limits[m]
    <3>1. PICK l \in DOMAIN Limits : estimate > Limits[l] /\ Limits[l] > Limits[m]
      BY <2>2
    <3>2. estimate - Limits[l] \in Nat /\ estimate - Limits[l] < d
      BY <1>0, <2>1, <3>1
    <3>3. QED  BY <1>1, <3>1, <3>2
  <2>3. CASE \A l \in DOMAIN Limits : estimate > Limits[l] => ~ (Limits[l] > Limits[m])
    <3>1. Suits(estimate, m)
      BY <1>0, <2>1, <2>3 DEF Suits
    <3>2. QED  BY <3>1
  <2>4. QED  BY <2>2, <2>3
<1>2. Nat \subseteq T
  <2> HIDE DEF T
  <2>1. QED  BY <1>1, StrongInduction
<1>3. PICK m \in DOMAIN Limits : Limits[m] = 0
  BY LimitsAssumption
<1>4. estimate > Limits[m] /\ estimate - Limits[m] \in Nat
  BY <1>3
<1>5. QED  BY <1>2, <1>4

(* The filter that is chosen is such a filter.                             *)
LEMMA SizeForSuits ==
  ASSUME NEW estimate \in Nat
  PROVE  /\ SizeFor(estimate) = None => estimate = 0
         /\ SizeFor(estimate) # Much /\ SizeFor(estimate) # None =>
              SizeFor(estimate) \in DOMAIN Limits /\ estimate < SizeFor(estimate)
         /\ SizeFor(estimate) \in DOMAIN Limits =>
              SizeFor(estimate) # Much /\ SizeFor(estimate) # None
<1> DEFINE m == SizeFor(estimate)
<1>1. Much \notin DOMAIN Limits /\ None \notin DOMAIN Limits /\ Full \in Nat
  BY LimitsAssumption DEF Much, None
<1>2. CASE estimate > Full
  <2>1. m = Much
    BY <1>2 DEF SizeFor
  <2>2. Much # None
    BY DEF Much, None
  <2>3. QED  BY <1>1, <2>1, <2>2
<1>3. CASE estimate = 0
  <2>1. ~ (estimate > Full)
    BY <1>1, <1>3
  <2>2. m = None
    BY <1>3, <2>1 DEF SizeFor
  <2>3. QED  BY <1>1, <1>3, <2>2
<1>4. CASE ~ (estimate > Full) /\ estimate # 0
  <2>1. m = CHOOSE k \in DOMAIN Limits : Suits(estimate, k)
    BY <1>4 DEF SizeFor, Suits
  <2>2. m \in DOMAIN Limits /\ Suits(estimate, m)
    BY <1>4, <2>1, SomeSuits
  <2> HIDE DEF m
  <2>3. estimate < m
    <3>1. m \in Nat /\ \A k \in DOMAIN Limits : Limits[k] \in Nat
      BY <2>2, LimitsAssumption
    <3>2. CASE Full < m
      BY <1>1, <1>4, <3>1, <3>2
    <3>3. CASE \E k \in DOMAIN Limits : Limits[m] < Limits[k] /\ Limits[k] < m
      <4>1. PICK k \in DOMAIN Limits : Limits[m] < Limits[k] /\ Limits[k] < m
        BY <3>3
      <4>2. ~ (estimate > Limits[k])
        BY <2>2, <3>1, <4>1 DEF Suits
      <4>3. QED  BY <3>1, <4>1, <4>2
    <3>4. QED  BY <2>2, <3>2, <3>3, FullAssumption
  <2>4. m # None /\ m # Much
    BY <1>1, <2>2
  <2>5. QED  BY <2>2, <2>3, <2>4 DEF m
<1>5. QED  BY <1>2, <1>3, <1>4
-----------------------------------------------------------------------------
(* A subtree is stored with the filter of the references stored with it.   *)
Filtered ==
  \A e \in stored : \E current \in SUBSET DOMAIN e.nodes :
    e = Entry(e.nodes, e.refs, current)

(* An entry keeps the nodes and references it is made of.                  *)
LEMMA EntryHas ==
  ASSUME NEW nodes, NEW refs, NEW current
  PROVE  /\ Entry(nodes, refs, current).nodes = nodes
         /\ Entry(nodes, refs, current).refs = refs
BY DEF Entry

(* Storing a subtree stores it with that filter.                           *)
LEMMA StoreFiltered ==
  ASSUME IInv, Filtered, Store
  PROVE  Filtered'
<1> DEFINE refs == {job.cache[r] : r \in job.refs}
           current == {job.cache[c] : c \in job.current}
           e == Entry(acc.nodes, refs, current)
<1>1. stored' = stored \cup {e} /\ job.refs \cup job.current \subseteq DOMAIN job.cache
  BY DEF Store, Copied
<1>2. current \in SUBSET DOMAIN acc.nodes
  BY <1>1 DEF IInv, JobOK
<1>3. e.nodes = acc.nodes /\ e.refs = refs
  BY EntryHas
<1>4. e = Entry(e.nodes, e.refs, current) /\ current \in SUBSET DOMAIN e.nodes
  BY <1>2, <1>3
<1> HIDE DEF e, refs, current
<1>5. QED  BY <1>1, <1>4 DEF Filtered

(* Starting a class body needs no job to be under way, and stores nothing. *)
LEMMA ClassBodyAlone ==
  ASSUME NEW e, NEW id, NEW supers, ExtendClassBody(e, id, supers)
  PROVE  job = NoJob /\ UNCHANGED <<stored, failed>>
<1>1. job = NoJob
  BY ZenonT(60) DEF ExtendClassBody
<1>2. UNCHANGED <<stored, failed>>
  BY ZenonT(60) DEF ExtendClassBody
<1>3. QED  BY <1>1, <1>2

(* No step changes what was stored, and only Store stores.                 *)
LEMMA NextFiltered == IInv /\ Filtered /\ [Next]_vars => Filtered'
<1> SUFFICES ASSUME IInv, Filtered, [Next]_vars PROVE Filtered'
  OBVIOUS
<1>1. CASE Store
  BY <1>1, StoreFiltered
<1>2. CASE UNCHANGED stored
  BY <1>2 DEF Filtered
<1>3. /\ Own => UNCHANGED stored
      /\ \A v, t : Declare(v, t) => UNCHANGED stored
      /\ \A k : InternExternal(k) => UNCHANGED stored
      /\ \A k : LocalSolveInternExternal(k) => UNCHANGED stored
      /\ Extended => UNCHANGED stored
  BY Zenon DEF Own, InternOwn, Declare, InternExternal, LocalSolveInternExternal,
     Extended
<1>4. /\ \A e : Extend(e) => UNCHANGED stored
      /\ \A e : LocalSolveExtend(e) => UNCHANGED stored
      /\ \A e, id, supers : ExtendClassBody(e, id, supers) => UNCHANGED stored
      /\ \A refs, current : Resolve(refs, current) => UNCHANGED stored
  <2>1. \A e : Extend(e) => UNCHANGED stored
    BY Zenon DEF Extend
  <2>2. \A e : LocalSolveExtend(e) => UNCHANGED stored
    BY Zenon DEF LocalSolveExtend
  <2>3. \A e, id, supers : ExtendClassBody(e, id, supers) => UNCHANGED stored
    BY ClassBodyAlone, Zenon
  <2>4. \A refs, current : Resolve(refs, current) => UNCHANGED stored
    BY Zenon DEF Resolve
  <2>5. QED  BY <2>1, <2>2, <2>3, <2>4
<1>5. \A e : Child(e) => UNCHANGED stored
  BY <1>4, Zenon DEF Child
<1>6. Finish => UNCHANGED stored
  BY <1>4, Zenon DEF Finish
<1>7. Store \/ UNCHANGED stored
  BY <1>3, <1>5, <1>6, Zenon DEF Next, vars
<1>8. QED  BY <1>1, <1>2, <1>7

(* The filter stored with a subtree is the one that the node store makes   *)
(* of the references stored with it, sized by what references_count says   *)
(* of them: no later step leaves a subtree with a filter of other nodes.   *)
THEOREM FiltersAreThose == Spec => []Filtered
<1>1. Init => Filtered
  BY DEF Init, Filtered
<1>2. QED  BY <1>1, Invariance, NextFiltered, PTL DEF Spec

(* What the size of a filter is chosen for.                                *)
LEMMA FilterOf ==
  ASSUME IInv, Filtered, NEW e \in stored
  PROVE  /\ Sound(e.nodes) /\ e.refs \subseteq DOMAIN e.nodes /\ IsFiniteSet(e.refs)
         /\ \E estimate \in Nat :
              /\ e.size = SizeFor(estimate)
              /\ estimate = 0 => e.refs = {}
              /\ Sum(Counts(e.nodes), e.refs) <= estimate
         /\ e.size \in DOMAIN Limits =>
              e.bits = UNION {Hashes(e.size, e.nodes)[r] : r \in e.refs}
<1> DEFINE nodes == e.nodes
           refs == e.refs
           counts == Counts(nodes)
<1>1. Sound(nodes) /\ refs \subseteq DOMAIN nodes
  BY DEF IInv, StoredOK, RefsOf
<1>2. PICK current \in SUBSET DOMAIN nodes : e = Entry(nodes, refs, current)
  BY DEF Filtered
<1>3. /\ IsFiniteSet(refs) /\ IsFiniteSet(current)
      /\ \A i \in DOMAIN nodes : counts[i] \in Nat
  <2>1. IsFiniteSet(DOMAIN nodes)
    <3>1. IsFiniteSet(1 .. Len(nodes)) /\ DOMAIN nodes = 1 .. Len(nodes)
      BY <1>1, LenProperties, FS_Interval DEF Sound
    <3>2. QED  BY <3>1
  <2>2. IsFiniteSet(refs) /\ IsFiniteSet(current)
    BY <1>1, <1>2, <2>1, FS_Subset
  <2>3. \A i \in DOMAIN nodes : counts[i] \in Nat
    BY <1>1, CountsBound
  <2>4. QED  BY <2>2, <2>3
<1> DEFINE count == Sum(counts, refs) + Sum(counts, current)
           estimate == Larger(count, 2 * Cardinality(refs))
<1>4. /\ Sum(counts, refs) \in Nat /\ Sum(counts, current) \in Nat
      /\ Cardinality(refs) \in Nat
  BY <1>1, <1>2, <1>3, SumIsNat, FS_CardinalityType
<1>5. /\ estimate \in Nat /\ Sum(counts, refs) <= estimate
      /\ 2 * Cardinality(refs) <= estimate
  <2> DEFINE a == Sum(counts, refs)
             b == Sum(counts, current)
             d == Cardinality(refs)
  <2>1. a \in Nat /\ b \in Nat /\ d \in Nat
    BY <1>4
  <2> HIDE DEF a, b, d
  <2>2. Larger(a + b, 2 * d) \in Nat /\ a <= Larger(a + b, 2 * d)
        /\ 2 * d <= Larger(a + b, 2 * d)
    BY <2>1 DEF Larger
  <2>3. QED  BY <2>2 DEF a, b, d
<1>6. estimate = 0 => refs = {}
  <2>1. estimate = 0 => Cardinality(refs) = 0
    <3> HIDE DEF estimate
    <3>1. QED  BY <1>4, <1>5
  <2>2. QED  BY <1>3, <2>1, FS_EmptySet
<1>7. /\ e.size = SizeFor(estimate)
      /\ e.size \in DOMAIN Limits => e.bits = UNION {Hashes(e.size, nodes)[r] : r \in refs}
  <2> DEFINE size == SizeFor(estimate)
  <2>1. Entry(nodes, refs, current).size = size
    BY DEF Entry
  <2>2. size \in DOMAIN Limits => Entry(nodes, refs, current).bits =
                                    UNION {Hashes(size, nodes)[r] : r \in refs}
    BY DEF Entry
  <2> HIDE DEF size, nodes, refs
  <2>3. QED  BY <1>2, <2>1, <2>2 DEF size
<1> HIDE DEF estimate
<1>8. QED  BY <1>1, <1>3, <1>5, <1>6, <1>7

(* The filter of a subtree never denies one of its references, however the *)
(* search wrote it, whatever the sizes of filters and the hasher.          *)
THEOREM NeverDenied == Spec => []NoFalseNegative
<1>1. ASSUME IInv, Filtered PROVE NoFalseNegative
  <2>1. SUFFICES ASSUME NEW e \in stored, e.size # Much, NEW t \in Meaning(e)
                 PROVE  e.size # None /\ HashOf(e.size, t) \in e.bits
    BY DEF NoFalseNegative
  <2>2. PICK r \in e.refs : t \in Meanings(e.nodes)[r]
    BY <2>1 DEF Meaning
  <2>3. PICK estimate \in Nat : /\ e.size = SizeFor(estimate)
                                /\ estimate = 0 => e.refs = {}
    BY <1>1, FilterOf
  <2>4. e.size # None
    BY <2>2, <2>3, SizeForSuits
  <2>5. e.size \in DOMAIN Limits
    BY <2>1, <2>3, <2>4, SizeForSuits
  <2>6. Sound(e.nodes) /\ r \in DOMAIN e.nodes
        /\ e.bits = UNION {Hashes(e.size, e.nodes)[x] : x \in e.refs}
    BY <1>1, <2>5, FilterOf
  <2>7. HashOf(e.size, t) \in Hashes(e.size, e.nodes)[r]
    <3>1. Hashes(e.size, e.nodes)[r] = {HashOf(e.size, c) : c \in Meanings(e.nodes)[r]}
      BY <2>6, HashesOfMeanings
    <3>2. QED  BY <2>2, <3>1
  <2>8. QED  BY <2>4, <2>6, <2>7
<1>2. IInv /\ Filtered => NoFalseNegative
  BY <1>1
<1>3. QED  BY <1>2, Invariance, FiltersAreThose, PTL

(* A filter has more places than it gets hashes, choices told apart, and   *)
(* all of them are places of it.                                           *)
THEOREM NeverFull == Spec => []FilterLoad
<1>1. ASSUME IInv, Filtered PROVE FilterLoad
  <2>1. SUFFICES ASSUME NEW e \in stored, e.size \in DOMAIN Limits
                 PROVE  Cardinality(e.bits) < e.size /\ e.bits \subseteq 0 .. e.size - 1
    BY DEF FilterLoad
  <2> DEFINE m == e.size
             H == Hashes(m, e.nodes)
             C == Counts(e.nodes)
  <2>2. /\ Sound(e.nodes) /\ e.refs \subseteq DOMAIN e.nodes /\ IsFiniteSet(e.refs)
        /\ e.bits = UNION {H[x] : x \in e.refs}
    BY <1>1, <2>1, FilterOf
  <2>3. PICK estimate \in Nat : m = SizeFor(estimate) /\ Sum(C, e.refs) <= estimate
    BY <1>1, FilterOf
  <2>4. estimate < m /\ m \in Nat
    <3>1. m # Much /\ m # None
      BY <2>1, <2>3, SizeForSuits
    <3>2. QED  BY <2>1, <2>3, <3>1, SizeForSuits, LimitsAssumption
  <2>5. \A x \in e.refs : C[x] \in Nat /\ IsFiniteSet(H[x]) /\ Cardinality(H[x]) <= C[x]
    BY <2>2, CountsBound
  <2>6. \A x \in e.refs : H[x] \subseteq 0 .. m - 1
    BY <2>1, <2>2, HashesInRange
  <2> HIDE DEF m, H, C
  <2>7. /\ IsFiniteSet(UNION {H[x] : x \in e.refs})
        /\ Cardinality(UNION {H[x] : x \in e.refs}) <= Sum(C, e.refs)
    BY <2>2, <2>5, SumBounds
  <2>8. Cardinality(e.bits) \in Nat /\ Sum(C, e.refs) \in Nat
    BY <2>2, <2>5, <2>7, FS_CardinalityType, SumIsNat
  <2>9. Cardinality(e.bits) < m
    BY <2>2, <2>3, <2>4, <2>7, <2>8
  <2>10. e.bits \subseteq 0 .. m - 1
    BY <2>2, <2>6
  <2>11. QED  BY <2>9, <2>10 DEF m
<1>2. IInv /\ Filtered => FilterLoad
  BY <1>1
<1>3. QED  BY <1>2, Invariance, FiltersAreThose, PTL
-----------------------------------------------------------------------------
(* What a plain copy makes of a node stands for the same.                  *)
LEMMA CopyMeans ==
  ASSUME IInv, job.mode \in {"extend", "resolve"}, NEW i \in DOMAIN job.cache
  PROVE  Meanings(acc.nodes)[job.cache[i]] = Meanings(job.nodes)[i]
<1> DEFINE M == Meanings(job.nodes)
           N == Meanings(acc.nodes)
           c == job.cache
           T == {k \in Nat : k \in DOMAIN c => N[c[k]] = M[k]}
<1>1. /\ Sound(acc.nodes) /\ Sound(job.nodes)
      /\ \A k \in DOMAIN c : /\ k \in DOMAIN job.nodes /\ c[k] \in DOMAIN acc.nodes
                             /\ Below(job.nodes[k]) \subseteq DOMAIN c
                             /\ acc.nodes[c[k]] = Renamed(job.nodes[k], c)
  BY DEF IInv, AccOK, JobOK, Faithful
<1>2. ASSUME NEW k \in Nat, \A l \in Nat : l < k => l \in T PROVE k \in T
  <2>1. SUFFICES ASSUME k \in DOMAIN c PROVE N[c[k]] = M[k]
    OBVIOUS
  <2> DEFINE n == job.nodes[k]
             o == acc.nodes[c[k]]
             x == Text(n)
  <2>2. /\ n.kind \notin Leafs \cup {"Or"} => n.object \in Below(n)
        /\ n.any \subseteq Below(n) /\ n \in Node
        /\ \A j \in Below(n) : j \in 1 .. k - 1
    BY <1>1, <2>1, Parts
  <2>3. \A j \in Below(n) : N[c[j]] = M[j]
    <3>1. ASSUME NEW j \in Below(n) PROVE N[c[j]] = M[j]
      <4>1. j \in Nat /\ j < k /\ j \in DOMAIN c
        BY <1>1, <2>1, <2>2
      <4>2. QED  BY <1>2, <4>1
    <3>2. QED  BY <3>1
  <2>4. M[k] = MeaningsAt(job.nodes, M, k) /\ N[c[k]] = MeaningsAt(acc.nodes, N, c[k])
    BY <1>1, <2>1, MeaningsAre
  <2>5. /\ o.kind = n.kind /\ o.label = n.label
        /\ n.kind \notin Leafs \cup {"Or"} => o.object = c[n.object]
        /\ o.any = {c[y] : y \in n.any}
    <3>1. n.object = 0 <=> n.kind \in Leafs \cup {"Or"}
      BY <2>2 DEF Node
    <3>2. o = Renamed(n, c)
      BY <1>1, <2>1
    <3> HIDE DEF n, o, c
    <3>3. o.kind = n.kind /\ o.label = n.label /\ o.any = {c[y] : y \in n.any}
      BY <3>2, Zenon DEF Renamed
    <3>4. n.object # 0 => o.object = c[n.object]
      BY <3>2, Zenon DEF Renamed
    <3>5. QED  BY <3>1, <3>3, <3>4
  <2>6. Text(o) = x
    BY <2>5 DEF Text
  <2> HIDE DEF M, N, x
  <2>7. CASE n.kind \in Leafs
    <3>1. n.kind # "Or" /\ n.kind # "Mask"
      BY <2>7 DEF Leafs
    <3>2. M[k] = {<<x>>}
      BY <2>4, <2>7, <3>1, Zenon DEF MeaningsAt, x
    <3>3. N[c[k]] = {<<Text(o)>>}
      BY <2>4, <2>5, <2>7, <3>1, Zenon DEF MeaningsAt
    <3>4. QED  BY <2>6, <3>2, <3>3
  <2>8. CASE n.kind = "Or"
    <3>1. n.kind \notin Leafs
      BY <2>8 DEF Leafs
    <3>2. M[k] = UNION {M[y] : y \in n.any}
      BY <2>4, <2>8, <3>1, Zenon DEF MeaningsAt
    <3>3. N[c[k]] = UNION {N[y] : y \in o.any}
      BY <2>4, <2>5, <2>8, <3>1, Zenon DEF MeaningsAt
    <3>4. {N[y] : y \in o.any} = {M[y] : y \in n.any}
      BY <2>2, <2>3, <2>5
    <3>5. QED  BY <3>2, <3>3, <3>4
  <2>9. CASE n.kind = "Mask"
    <3>1. n.kind \notin Leafs /\ n.kind # "Or"
      BY <2>9 DEF Leafs
    <3>2. M[k] = M[n.object] /\ N[c[k]] = N[o.object]
      BY <2>4, <2>5, <2>9, <3>1, Zenon DEF MeaningsAt
    <3>3. QED  BY <2>2, <2>3, <2>5, <3>1, <3>2
  <2>10. CASE n.kind \notin Leafs \cup {"Or", "Mask"}
    <3>1. M[k] = {Append(t, x) : t \in M[n.object]}
      BY <2>4, <2>10, Zenon DEF MeaningsAt, x
    <3>2. N[c[k]] = {Append(t, Text(o)) : t \in N[o.object]}
      BY <2>4, <2>5, <2>10, Zenon DEF MeaningsAt
    <3>3. N[o.object] = M[n.object]
      BY <2>2, <2>3, <2>5, <2>10
    <3>4. QED  BY <2>6, <3>1, <3>2, <3>3
  <2>11. QED  BY <2>7, <2>8, <2>9, <2>10
<1>3. Nat \subseteq T
  <2> HIDE DEF T
  <2>1. QED  BY <1>2, StrongInduction
<1>4. i \in Nat
  BY <1>1, Parts
<1>5. QED  BY <1>3, <1>4

(* A plain copy drops the references that do not last, and no other.       *)
LEMMA CopyLasts ==
  ASSUME IInv, job.mode = "extend", job.refs \subseteq DOMAIN job.cache
  PROVE  Lasting(acc.nodes, {job.cache[r] : r \in job.refs}) =
           {job.cache[r] : r \in Lasting(job.nodes, job.refs)}
<1> DEFINE c == job.cache
<1>1. ASSUME NEW k \in DOMAIN c
      PROVE  /\ IsPrimitive(acc.nodes, c[k]) <=> IsPrimitive(job.nodes, k)
             /\ acc.nodes[c[k]].kind = job.nodes[k].kind
  <2>1. acc.nodes[c[k]] = Renamed(job.nodes[k], c)
    BY DEF IInv, Faithful
  <2>2. acc.nodes[c[k]].kind = job.nodes[k].kind
    BY <2>1 DEF Renamed
  <2>3. QED  BY <2>2 DEF IsPrimitive
<1>2. ASSUME NEW k \in DOMAIN c, job.nodes[k].kind = "Array"
      PROVE  IsPrimitive(acc.nodes, acc.nodes[c[k]].object) <=>
               IsPrimitive(job.nodes, job.nodes[k].object)
  <2>1. /\ acc.nodes[c[k]] = Renamed(job.nodes[k], c) /\ k \in DOMAIN job.nodes
        /\ Below(job.nodes[k]) \subseteq DOMAIN c /\ Sound(job.nodes)
    BY DEF IInv, Faithful, JobOK
  <2>2. job.nodes[k].object \in DOMAIN c /\ job.nodes[k].object # 0
    <3>1. job.nodes[k].kind \notin Leafs \cup {"Or"}
      BY <1>2 DEF Leafs
    <3>2. job.nodes[k] \in Node
      BY <2>1, Parts
    <3>3. QED  BY <2>1, <3>1, <3>2, Parts DEF Node
  <2>3. acc.nodes[c[k]].object = c[job.nodes[k].object]
    BY <2>1, <2>2 DEF Renamed
  <2>4. QED  BY <1>1, <2>2, <2>3
<1>3. \A r \in job.refs : r \in DOMAIN c
  OBVIOUS
<1> HIDE DEF c
<1>4. \A r \in job.refs : c[r] \in Lasting(acc.nodes, {c[q] : q \in job.refs})
                            <=> r \in Lasting(job.nodes, job.refs)
  BY <1>1, <1>2, <1>3 DEF Lasting
<1>5. /\ Lasting(acc.nodes, {c[q] : q \in job.refs}) \subseteq {c[q] : q \in job.refs}
      /\ Lasting(job.nodes, job.refs) \subseteq job.refs
  BY DEF Lasting
<1>6. Lasting(acc.nodes, {c[r] : r \in job.refs}) = {c[r] : r \in Lasting(job.nodes, job.refs)}
  BY <1>4, <1>5
<1>7. QED  BY <1>6 DEF c

(* Only the end of a copy leaves nothing to copy.                          *)
LEMMA CopyEnds ==
  ASSUME IInv, [Next]_vars, job.mode \in {"extend", "local"}, job' = NoJob
  PROVE  Extended
<1>1. job # NoJob /\ NoJob.mode = "none" /\ ~ (job.mode = "resolve")
  BY DEF NoJob
<1>2. ASSUME NEW c, job' = [job EXCEPT !.cache = c] PROVE FALSE
  <2>1. job'.mode = job.mode
    BY <1>2 DEF IInv, JobOK
  <2>2. QED  BY <1>1, <2>1
<1>3. /\ ~ Own /\ ~ Finish
      /\ \A v, t : ~ Declare(v, t)
      /\ \A e : ~ Child(e)
  <2>1. /\ Own => job = NoJob
        /\ \A v, t : Declare(v, t) => job = NoJob
        /\ \A e : Extend(e) => job = NoJob
        /\ \A e : LocalSolveExtend(e) => job = NoJob
        /\ \A refs, current : Resolve(refs, current) => job = NoJob
    BY Zenon DEF Own, InternOwn, Declare, Extend, LocalSolveExtend, Resolve
  <2>2. \A e, id, supers : ExtendClassBody(e, id, supers) => job = NoJob
    BY ClassBodyAlone, Zenon
  <2>3. Finish => job = NoJob
    BY <2>1, Zenon DEF Finish
  <2>4. \A e : Child(e) => job = NoJob
    BY <2>1, <2>2, Zenon DEF Child
  <2>5. QED  BY <1>1, <2>1, <2>3, <2>4
<1>4. \A k : ~ InternExternal(k) /\ ~ LocalSolveInternExternal(k)
  BY <1>2, Zenon DEF InternExternal, LocalSolveInternExternal
<1>5. ~ Store /\ ~ UNCHANGED vars
  BY <1>1 DEF Store, vars
<1>6. QED  BY <1>3, <1>4, <1>5, Zenon DEF Next

(* Copying the references of a child loses none but those that do not      *)
(* last, and invents none, for any kinds of nodes and any other copies.    *)
THEOREM CopiesKeepMeaning == Spec => ExtendKeepsMeaning
<1> DEFINE Kept == Meaning(acc') = Meaning(acc) \cup
                     Meaning([nodes |-> job.nodes, refs |-> Lasting(job.nodes, job.refs)])
           A == job.mode = "extend" /\ job' = NoJob => Kept
<1>1. ASSUME IInv, [Next]_vars PROVE A
  <2>1. SUFFICES ASSUME job.mode = "extend", job' = NoJob PROVE Kept
    OBVIOUS
  <2>2. Extended
    BY <1>1, <2>1, CopyEnds
  <2> DEFINE last == Lasting(job.nodes, job.refs)
             more == Lasting(acc.nodes, {job.cache[r] : r \in job.refs})
             N == Meanings(acc.nodes)
             M == Meanings(job.nodes)
  <2>3. /\ acc'.nodes = acc.nodes /\ acc'.refs = acc.refs \cup more
        /\ job.refs \subseteq DOMAIN job.cache
    <3>1. acc = [nodes |-> acc.nodes, refs |-> acc.refs, decls |-> acc.decls]
      BY <1>1 DEF IInv, AccOK
    <3>2. acc' = [acc EXCEPT !.refs = @ \cup more] /\ Copied
      BY <2>2 DEF Extended
    <3> HIDE DEF more
    <3>3. QED  BY <3>1, <3>2 DEF Copied
  <2>4. more = {job.cache[r] : r \in last}
    BY <1>1, <2>1, <2>3, CopyLasts
  <2>5. \A r \in last : N[job.cache[r]] = M[r]
    <3>1. last \subseteq DOMAIN job.cache
      BY <2>3 DEF Lasting
    <3>2. QED  BY <1>1, <2>1, <3>1, CopyMeans
  <2>6. Meaning(acc') = UNION {N[r] : r \in acc.refs \cup more}
    BY <2>3 DEF Meaning
  <2>7. Meaning(acc) = UNION {N[r] : r \in acc.refs}
    BY DEF Meaning
  <2>8. Meaning([nodes |-> job.nodes, refs |-> last]) = UNION {M[r] : r \in last}
    BY DEF Meaning
  <2> HIDE DEF last, more, N, M
  <2>9. {N[r] : r \in more} = {M[r] : r \in last}
    BY <2>4, <2>5
  <2>10. UNION {N[r] : r \in acc.refs \cup more} =
           (UNION {N[r] : r \in acc.refs}) \cup (UNION {N[r] : r \in more})
    OBVIOUS
  <2>11. QED  BY <2>6, <2>7, <2>8, <2>9, <2>10 DEF last
<1>2. IInv /\ [Next]_vars => [A]_vars
  BY <1>1
<1>3. QED  BY <1>2, Invariance, PTL DEF Spec, ExtendKeepsMeaning
-----------------------------------------------------------------------------
(* The parts of nodes do not change when a list grows.                     *)
LEMMA PartsStay ==
  ASSUME NEW nodes, NEW more, Sound(nodes), Sound(more),
         \A i \in DOMAIN nodes : i \in DOMAIN more /\ more[i] = nodes[i],
         NEW i \in DOMAIN nodes
  PROVE  PartsIn(more)[i] = PartsIn(nodes)[i]
<1> DEFINE P == PartsIn(nodes)
           Q == PartsIn(more)
           T == {k \in Nat : k \in DOMAIN nodes => Q[k] = P[k]}
<1>1. ASSUME NEW k \in Nat, \A l \in Nat : l < k => l \in T PROVE k \in T
  <2>1. SUFFICES ASSUME k \in DOMAIN nodes PROVE Q[k] = P[k]
    OBVIOUS
  <2>2. k \in DOMAIN more /\ more[k] = nodes[k]
    BY <2>1
  <2>3. P[k] = PartsAt(nodes, P, k) /\ Q[k] = PartsAt(more, Q, k)
    BY <2>1, <2>2, PartsAre
  <2>4. ASSUME NEW j \in Below(nodes[k]) PROVE Q[j] = P[j]
    <3>1. j \in Nat /\ j < k /\ j \in DOMAIN nodes
      <4>1. j \in 1 .. k - 1 /\ j \in DOMAIN nodes
        BY <2>1, Parts
      <4>2. QED  BY <4>1
    <3>2. QED  BY <1>1, <3>1
  <2> HIDE DEF P, Q
  <2>5. {Q[j] : j \in Below(nodes[k])} = {P[j] : j \in Below(nodes[k])}
    BY <2>4
  <2>6. QED  BY <2>2, <2>3, <2>5 DEF PartsAt
<1>2. Nat \subseteq T
  <2> HIDE DEF T
  <2>1. QED  BY <1>1, StrongInduction
<1>3. i \in Nat
  BY Parts
<1>4. QED  BY <1>2, <1>3

(* PartsOf is made of that function.                                       *)
LEMMA PartsOfIs ==
  ASSUME NEW nodes, NEW refs
  PROVE  PartsOf(nodes, refs) = UNION {PartsIn(nodes)[r] : r \in refs}
BY DEF PartsOf, PartsIn, PartsAt

\* No part of a place is a local variable, but those that types are made of.
Solved(nodes, decls, p) ==
  PartsIn(nodes)[p] \cap DOMAIN decls \subseteq PartsOf(nodes, Elements(decls))

(* The parts of a solved node are solved.                                  *)
LEMMA SolvedBelow ==
  ASSUME NEW nodes, Sound(nodes), NEW decls, NEW p \in DOMAIN nodes,
         Solved(nodes, decls, p), NEW q \in Below(nodes[p])
  PROVE  Solved(nodes, decls, q)
<1>1. PartsIn(nodes)[p] = PartsAt(nodes, PartsIn(nodes), p)
  BY PartsAre
<1>2. PartsIn(nodes)[q] \subseteq PartsIn(nodes)[p]
  BY <1>1 DEF PartsAt
<1>3. QED  BY <1>2 DEF Solved

(* A node that is no local variable and whose parts are solved is solved.  *)
LEMMA SolvedAbove ==
  ASSUME NEW nodes, Sound(nodes), NEW decls, NEW p \in DOMAIN nodes,
         p \notin DOMAIN decls,
         \A q \in Below(nodes[p]) : Solved(nodes, decls, q)
  PROVE  Solved(nodes, decls, p)
<1>1. PartsIn(nodes)[p] = {p} \cup UNION {PartsIn(nodes)[q] : q \in Below(nodes[p])}
  BY PartsAre DEF PartsAt
<1>2. QED  BY <1>1 DEF Solved

(* The type of a local variable is solved, whatever it is made of.         *)
LEMMA SolvedDeclared ==
  ASSUME NEW nodes, NEW decls, NEW v \in DOMAIN decls
  PROVE  Solved(nodes, decls, decls[v])
BY PartsOfIs DEF Solved, Elements

(* A node stays solved when the list grows.                                *)
LEMMA SolvedStays ==
  ASSUME NEW nodes, NEW more, Sound(nodes), Sound(more), NEW decls,
         \A i \in DOMAIN nodes : i \in DOMAIN more /\ more[i] = nodes[i],
         \A v \in DOMAIN decls : decls[v] \in DOMAIN nodes,
         NEW p \in DOMAIN nodes, Solved(nodes, decls, p)
  PROVE  Solved(more, decls, p)
<1>1. \A i \in DOMAIN nodes : PartsIn(more)[i] = PartsIn(nodes)[i]
  BY PartsStay
<1>2. Elements(decls) \subseteq DOMAIN nodes
  BY DEF Elements
<1>3. PartsOf(more, Elements(decls)) = PartsOf(nodes, Elements(decls))
  <2>1. {PartsIn(more)[r] : r \in Elements(decls)} = {PartsIn(nodes)[r] : r \in Elements(decls)}
    BY <1>1, <1>2
  <2>2. QED  BY <2>1, PartsOfIs
<1>4. QED  BY <1>1, <1>3 DEF Solved

\* What was copied of a block is solved.
BlockSolved ==
  job.mode = "local" =>
    \A k \in DOMAIN job.cache : Solved(acc.nodes, acc.decls, job.cache[k])

(* What local_solve_intern_external makes of a node, once its parts are     *)
(* solved, is solved: a copy of it, its type, or the elements of an array. *)
LEMMA LocalNodeSolved ==
  ASSUME IInv, BlockSolved, NEW k \in DOMAIN job.nodes, LocalSolveInternExternal(k)
  PROVE  /\ Sound(LocalNode(k).nodes)
         /\ \A i \in DOMAIN acc.nodes : /\ i \in DOMAIN LocalNode(k).nodes
                                        /\ LocalNode(k).nodes[i] = acc.nodes[i]
         /\ Solved(LocalNode(k).nodes, acc.decls, LocalNode(k).at)
<1> DEFINE n == Renamed(job.nodes[k], job.cache)
           o == IF n.kind = "Or" THEN Or(Flat(acc.nodes, n.any)) ELSE n
           access == n.kind = "ArrayAccess" /\ acc.nodes[n.object].kind = "Array"
           r == IF access
                THEN [nodes |-> acc.nodes, at |-> acc.nodes[n.object].object]
                ELSE Intern(acc.nodes, o)
           P == {p \in DOMAIN acc.nodes : Solved(acc.nodes, acc.decls, p)}
<1>1. /\ Sound(acc.nodes) /\ Sound(job.nodes) /\ job.mode = "local"
      /\ Below(job.nodes[k]) \subseteq DOMAIN job.cache
      /\ \A x \in DOMAIN job.cache :
           x \in DOMAIN job.nodes /\ job.cache[x] \in DOMAIN acc.nodes
      /\ \A v \in DOMAIN acc.decls : acc.decls[v] \in DOMAIN acc.nodes
  BY DEF LocalSolveInternExternal, Ready, IInv, AccOK, JobOK
<1>2. /\ DOMAIN acc.nodes \in SUBSET Nat /\ 0 \notin DOMAIN acc.nodes
      /\ job.nodes[k] \in Node
      /\ \A i \in DOMAIN acc.nodes :
           acc.nodes[i] \in Node /\ Below(acc.nodes[i]) \subseteq DOMAIN acc.nodes
  BY <1>1, LenProperties, ElementOfSeq DEF Sound
<1>3. /\ P \in SUBSET Nat /\ 0 \notin P /\ P \subseteq DOMAIN acc.nodes
      /\ \A x \in DOMAIN job.cache : job.cache[x] \in P
      /\ \A p \in P : Below(acc.nodes[p]) \subseteq P
  <2>1. \A x \in DOMAIN job.cache : job.cache[x] \in P
    BY <1>1 DEF BlockSolved
  <2>2. ASSUME NEW p \in P, NEW q \in Below(acc.nodes[p]) PROVE q \in P
    BY <1>1, <1>2, SolvedBelow
  <2>3. QED  BY <1>2, <2>1, <2>2
<1> HIDE DEF P
<1>4. n \in Node /\ Below(n) \subseteq P
  BY <1>1, <1>2, <1>3, RenamedIsNode
<1> HIDE DEF n
<1>5. o \in Node /\ Below(o) \subseteq P
  <2>1. CASE n.kind # "Or"
    BY <1>4, <2>1
  <2>2. CASE n.kind = "Or"
    <3>1. \A x \in n.any : x \in P
      BY <1>4 DEF Below
    <3>2. \A x \in P : acc.nodes[x].any \subseteq P
      BY <1>3 DEF Below
    <3>3. Flat(acc.nodes, n.any) \in SUBSET P
      BY <3>1, <3>2 DEF Flat
    <3>4. QED  BY <1>3, <2>2, <3>3, OrIsNode
  <2>3. QED  BY <2>1, <2>2
<1> HIDE DEF o
<1>6. /\ Sound(r.nodes) /\ r.at \in DOMAIN r.nodes
      /\ \A i \in DOMAIN acc.nodes : i \in DOMAIN r.nodes /\ r.nodes[i] = acc.nodes[i]
      /\ r.at \in P \/ r.nodes[r.at] = o
  <2>1. CASE access
    <3>1. n.object \in P
      BY <1>4, <2>1 DEF Node, Below, Leafs
    <3>2. acc.nodes[n.object].object \in P
      BY <1>2, <1>3, <2>1, <3>1 DEF Node, Below, Leafs
    <3>3. QED  BY <1>1, <1>3, <2>1, <3>2
  <2>2. CASE ~access
    <3>1. Below(o) \subseteq DOMAIN acc.nodes
      BY <1>3, <1>5
    <3>2. QED  BY <1>1, <1>5, <2>2, <3>1, InternSound
  <2>3. QED  BY <2>1, <2>2
<1>7. LocalNode(k) = IF r.at \in DOMAIN acc.decls
                     THEN [r EXCEPT !.at = acc.decls[r.at]] ELSE r
  BY DEF LocalNode, o, n
<1>8. r = [nodes |-> r.nodes, at |-> r.at]
  BY DEF Intern
<1> HIDE DEF r
<1>9. \A p \in P : Solved(r.nodes, acc.decls, p)
  BY <1>1, <1>6, SolvedStays DEF P
<1>10. r.at \notin DOMAIN acc.decls => Solved(r.nodes, acc.decls, r.at)
  <2>1. SUFFICES ASSUME r.at \notin DOMAIN acc.decls, r.nodes[r.at] = o
                 PROVE  Solved(r.nodes, acc.decls, r.at)
    BY <1>6, <1>9
  <2>2. \A q \in Below(r.nodes[r.at]) : Solved(r.nodes, acc.decls, q)
    BY <1>5, <1>9, <2>1
  <2>3. QED  BY <1>6, <2>1, <2>2, SolvedAbove
<1>11. r.at \in DOMAIN acc.decls => Solved(r.nodes, acc.decls, acc.decls[r.at])
  BY SolvedDeclared
<1>12. /\ LocalNode(k).nodes = r.nodes
       /\ LocalNode(k).at = IF r.at \in DOMAIN acc.decls THEN acc.decls[r.at] ELSE r.at
  BY <1>7, <1>8
<1>13. QED  BY <1>6, <1>10, <1>11, <1>12

(* So copying one more node of the block keeps what was copied solved.     *)
LEMMA LocalSolveKeepsSolved ==
  ASSUME IInv, BlockSolved, NEW k \in DOMAIN job.nodes, LocalSolveInternExternal(k)
  PROVE  BlockSolved'
<1> DEFINE r == LocalNode(k)
<1>1. /\ acc'.nodes = r.nodes /\ acc'.decls = acc.decls
      /\ job'.cache = Cached(k, r.at)
  <2>1. acc' = [acc EXCEPT !.nodes = r.nodes] /\ job' = [job EXCEPT !.cache = Cached(k, r.at)]
    BY DEF LocalSolveInternExternal
  <2>2. /\ acc = [nodes |-> acc.nodes, refs |-> acc.refs, decls |-> acc.decls]
        /\ job = [mode |-> job.mode, nodes |-> job.nodes, refs |-> job.refs,
                  current |-> job.current, cache |-> job.cache]
    BY DEF IInv, AccOK, JobOK
  <2> HIDE DEF r
  <2>3. QED  BY <2>1, <2>2
<1>2. /\ Sound(r.nodes)
      /\ \A i \in DOMAIN acc.nodes : i \in DOMAIN r.nodes /\ r.nodes[i] = acc.nodes[i]
      /\ Solved(r.nodes, acc.decls, r.at)
  BY LocalNodeSolved
<1>3. /\ job.mode = "local" /\ Sound(acc.nodes)
      /\ \A x \in DOMAIN job.cache : job.cache[x] \in DOMAIN acc.nodes
      /\ \A v \in DOMAIN acc.decls : acc.decls[v] \in DOMAIN acc.nodes
  BY DEF LocalSolveInternExternal, IInv, AccOK, JobOK
<1> HIDE DEF r
<1>4. \A x \in DOMAIN job.cache : Solved(r.nodes, acc.decls, job.cache[x])
  BY <1>2, <1>3, SolvedStays DEF BlockSolved
<1>5. /\ DOMAIN Cached(k, r.at) = DOMAIN job.cache \cup {k}
      /\ \A x \in DOMAIN Cached(k, r.at) :
           Cached(k, r.at)[x] = IF x = k THEN r.at ELSE job.cache[x]
  BY DEF Cached
<1>6. \A x \in DOMAIN Cached(k, r.at) : Solved(r.nodes, acc.decls, Cached(k, r.at)[x])
  BY <1>2, <1>4, <1>5
<1>7. QED  BY <1>1, <1>6 DEF BlockSolved

(* No other step copies nodes of a block.                                  *)
LEMMA NextBlockSolved == IInv /\ BlockSolved /\ [Next]_vars => BlockSolved'
<1> SUFFICES ASSUME IInv, BlockSolved, [Next]_vars PROVE BlockSolved'
  OBVIOUS
<1>1. ASSUME job'.mode # "local" PROVE BlockSolved'
  BY <1>1 DEF BlockSolved
<1>2. ASSUME job' = NoJob PROVE BlockSolved'
  BY <1>1, <1>2 DEF NoJob
<1>3. ASSUME UNCHANGED job, job = NoJob PROVE BlockSolved'
  BY <1>2, <1>3
<1>4. CASE Own
  BY <1>3, <1>4, Zenon DEF Own, InternOwn
<1>5. ASSUME NEW v, NEW t, Declare(v, t) PROVE BlockSolved'
  BY <1>3, <1>5, Zenon DEF Declare
<1>6. ASSUME NEW e, Child(e) PROVE BlockSolved'
  <2>1. CASE Extend(e) \/ LocalSolveExtend(e)
    <3>1. PICK mode : job' = [mode |-> mode, nodes |-> e.nodes, refs |-> e.refs,
                              current |-> {}, cache |-> << >>]
      BY <2>1 DEF Extend, LocalSolveExtend, Copying
    <3>2. DOMAIN job'.cache = {}
      BY <3>1
    <3>3. QED  BY <3>2 DEF BlockSolved
  <2>2. ASSUME NEW id, NEW supers, ExtendClassBody(e, id, supers) PROVE BlockSolved'
    <3>1. \E c : Copying("class", e, c)
      BY <2>2, Zenon DEF ExtendClassBody
    <3>2. job'.mode = "class"
      BY <3>1 DEF Copying
    <3>3. QED  BY <1>1, <3>2
  <2>3. QED  BY <1>6, <2>1, <2>2, Zenon DEF Child
<1>7. CASE Finish
  <2>1. PICK refs, current : Resolve(refs, current)
    BY <1>7, Zenon DEF Finish
  <2>2. job'.mode = "resolve"
    BY <2>1 DEF Resolve
  <2>3. QED  BY <1>1, <2>2
<1>8. ASSUME NEW k \in DOMAIN job.nodes, InternExternal(k) PROVE BlockSolved'
  <2>1. job.mode # "local" /\ \E c : job' = [job EXCEPT !.cache = c]
    BY <1>8 DEF InternExternal
  <2>2. job'.mode = job.mode
    BY <2>1 DEF IInv, JobOK
  <2>3. QED  BY <1>1, <2>1, <2>2
<1>9. ASSUME NEW k \in DOMAIN job.nodes, LocalSolveInternExternal(k) PROVE BlockSolved'
  BY <1>9, LocalSolveKeepsSolved
<1>10. CASE Extended \/ Store
  BY <1>2, <1>10, Zenon DEF Extended, Store
<1>11. CASE UNCHANGED vars
  BY <1>11 DEF vars, BlockSolved
<1>12. QED
  BY <1>4, <1>5, <1>6, <1>7, <1>8, <1>9, <1>10, <1>11, Zenon DEF Next

(* Nothing copied out of a block refers to a local variable of it.         *)
THEOREM BlocksSolved == Spec => []BlockSolved
<1>1. Init => BlockSolved
  BY DEF Init, NoJob, BlockSolved
<1>2. QED  BY <1>1, Invariance, NextBlockSolved, PTL DEF Spec

(* Local variables do not leave the block that declares them, arguments    *)
(* and choices included, but where a type starts like a variable.          *)
THEOREM LocalsStayInside == Spec => LocalsSolved
<1> DEFINE Inside == PartsOf(acc'.nodes, acc'.refs \ acc.refs) \cap DOMAIN acc.decls
                       \subseteq PartsOf(acc.nodes, Elements(acc.decls))
           A == job.mode = "local" /\ job' = NoJob => Inside
<1>1. ASSUME IInv, BlockSolved, [Next]_vars PROVE A
  <2>1. SUFFICES ASSUME job.mode = "local", job' = NoJob PROVE Inside
    OBVIOUS
  <2>2. Extended
    BY <1>1, <2>1, CopyEnds
  <2> DEFINE more == Lasting(acc.nodes, {job.cache[r] : r \in job.refs})
  <2>3. /\ acc'.nodes = acc.nodes /\ acc'.refs = acc.refs \cup more
        /\ job.refs \subseteq DOMAIN job.cache
    <3>1. acc = [nodes |-> acc.nodes, refs |-> acc.refs, decls |-> acc.decls]
      BY <1>1 DEF IInv, AccOK
    <3>2. acc' = [acc EXCEPT !.refs = @ \cup more] /\ Copied
      BY <2>2 DEF Extended
    <3> HIDE DEF more
    <3>3. QED  BY <3>1, <3>2 DEF Copied
  <2>4. \A p \in more : Solved(acc.nodes, acc.decls, p)
    BY <1>1, <2>1, <2>3 DEF Lasting, BlockSolved
  <2>5. PartsOf(acc'.nodes, acc'.refs \ acc.refs) =
          UNION {PartsIn(acc.nodes)[r] : r \in acc'.refs \ acc.refs}
    BY <2>3, PartsOfIs
  <2>6. \A p \in acc'.refs \ acc.refs : Solved(acc.nodes, acc.decls, p)
    BY <2>3, <2>4
  <2>7. QED  BY <2>5, <2>6 DEF Solved
<1>2. IInv /\ BlockSolved /\ [Next]_vars => [A]_vars
  BY <1>1
<1>3. QED  BY <1>2, Invariance, BlocksSolved, PTL DEF Spec, LocalsSolved
=============================================================================
