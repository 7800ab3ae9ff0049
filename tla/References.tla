----------------------------- MODULE References -----------------------------
(***************************************************************************)
(* The references found in a subtree (impact/solver.rs, element.rs) and    *)
(* the bloom filter stored with it (store/nodes/legion.rs, filter).        *)
(*                                                                         *)
(* A solver is a list of nodes that refer to earlier nodes by their place, *)
(* and the set of places that are references.  While a subtree is built,   *)
(* the solvers of its children are copied into its own; when it is done,   *)
(* what is left unsolved is copied into a fresh solver, and hashed into a  *)
(* filter that tells later which subtrees a search may skip.               *)
(*                                                                         *)
(* `acc' is the solver of the subtree under construction and `stored' the  *)
(* finished ones.  A copy is made node by node (`job'), the parts of a     *)
(* node before it: the recursion of intern_external in any order.          *)
(***************************************************************************)
EXTENDS Integers, Sequences, FiniteSets

CONSTANTS
  Labels,         \* the identifiers and the primitive types in use
  Used,           \* the kinds of nodes in use
  Step(_, _, _),  \* Step(m, h, text): hasher of m places after text
  Limits,         \* size of a filter -> it is used above that many references
  Full,           \* above, no filter is made
  Modes,          \* the ways children are copied, but the plain one
  MaxOwn,         \* bounds of the model: nodes of the next subtree before
                  \* its children are copied, references of a subtree,
  MaxRefs,        \* subtrees stored
  MaxStored

ASSUME UsedAssumption ==
  Used \subseteq
    {"Primitive", "ScopedIdentifier", "TypeIdentifier", "MethodReference",
     "ConstructorReference", "Array", "This", "Super", "ArrayAccess",
     "Invocation", "ConstructorInvocation", "Mask", "Or"}

ASSUME LimitsAssumption ==
  /\ DOMAIN Limits \subseteq Nat \ {0}
  /\ \A m \in DOMAIN Limits : Limits[m] \in Nat
  /\ \E m \in DOMAIN Limits : Limits[m] = 0
  /\ Full \in Nat

VARIABLES
  acc,     \* the solver under construction
  job,     \* the copy in progress
  stored,  \* the finished subtrees
  failed   \* an assertion failed

vars == <<acc, job, stored, failed>>

\* A filter that may be asked to hold as many references as it has places
\* gives way to a larger one before (a u16 at 9, a u32 at 16, ...).
ASSUME FullAssumption ==
  \A m \in DOMAIN Limits :
    Full < m \/ \E k \in DOMAIN Limits : Limits[m] < Limits[k] /\ Limits[k] < m

-----------------------------------------------------------------------------
(* Nodes (RefsEnum).  Arguments::Unknown is left to kinds of their own.    *)

Leafs == {"Root", "MaybeMissing", "Primitive"}
Labelled == {"ScopedIdentifier", "TypeIdentifier", "MethodReference"}
Plain == {"ConstructorReference", "Array", "This", "Super", "ArrayAccess"}
Calls == {"Invocation", "ConstructorInvocation"}

Leaf(kind, label) ==
  [kind |-> kind, label |-> label, object |-> 0, args |-> <<>>, any |-> {}]
On(kind, label, o) ==
  [kind |-> kind, label |-> label, object |-> o, args |-> <<>>, any |-> {}]
Or(any) ==
  [kind |-> "Or", label |-> "", object |-> 0, args |-> <<>>, any |-> any]

Kinds == Leafs \cup Labelled \cup Plain \cup Calls \cup {"Mask", "Or"}
Node ==
  {n \in [kind : Kinds, label : Labels \cup {""}, object : Nat,
          args : Seq(Nat), any : SUBSET Nat] :
     n.object = 0 <=> n.kind \in Leafs \cup {"Or"}}

Elements(s) == {s[i] : i \in DOMAIN s}

\* The places a node refers to.
Below(n) == ({n.object} \ {0}) \cup Elements(n.args) \cup n.any

\* A slip: the PartialEq of RefsEnum in the place of strict_eq.
Loosely(n) ==
  IF n.kind = "TypeIdentifier" THEN [n EXCEPT !.kind = "ScopedIdentifier"]
                               ELSE n
InternLoosely(nodes, n) ==
  IF \E i \in DOMAIN nodes : Loosely(nodes[i]) = Loosely(n)
  THEN [nodes |-> nodes,
        at |-> CHOOSE i \in DOMAIN nodes : Loosely(nodes[i]) = Loosely(n)]
  ELSE [nodes |-> Append(nodes, n), at |-> Len(nodes) + 1]

\* A slip: looking for the node among the recent ones only.
InternRecent(nodes, n) ==
  IF nodes[Len(nodes)] = n
  THEN [nodes |-> nodes, at |-> Len(nodes)]
  ELSE [nodes |-> Append(nodes, n), at |-> Len(nodes) + 1]

\* A slip: bringing a node that was found nearer to the front.
InternMovingUp(nodes, n) ==
  IF \E i \in DOMAIN nodes : nodes[i] = n
  THEN LET i == CHOOSE i \in DOMAIN nodes : nodes[i] = n
           j == IF i > 2 THEN i - 1 ELSE i
       IN  [nodes |-> [nodes EXCEPT ![i] = nodes[j], ![j] = n], at |-> j]
  ELSE [nodes |-> Append(nodes, n), at |-> Len(nodes) + 1]

\* Solver::intern; strict_eq compares lists of choices as sets.
Intern(nodes, n) ==
  IF \E i \in DOMAIN nodes : nodes[i] = n
  THEN [nodes |-> nodes, at |-> CHOOSE i \in DOMAIN nodes : nodes[i] = n]
  ELSE [nodes |-> Append(nodes, n), at |-> Len(nodes) + 1]

Similar(m, n) ==
  /\ m.kind = n.kind /\ m.label = n.label
  /\ m.kind = "Mask" => Len(m.args) = Len(n.args)
  /\ m.kind = "Or" => Cardinality(m.any) = Cardinality(n.any)

\* Solver::default, and the places of its two nodes.
NoNodes == <<Leaf("Root", ""), Leaf("MaybeMissing", "")>>
MM == 2
NoSolver == [nodes |-> NoNodes, refs |-> {}, decls |-> <<>>]

IsPrimitive(nodes, i) == nodes[i].kind = "Primitive"
IsBare(nodes, i) == nodes[i].kind \in Leafs

-----------------------------------------------------------------------------
(* Hashing (MySerialize, BulkHasher, CachedHasher) and filters             *)

\* What serialize writes for a node, after its object.
Text(n) ==
  CASE n.kind = "Root" -> <<"/">>
    [] n.kind = "MaybeMissing" -> <<"?">>
    [] n.kind = "Primitive" -> <<"p", n.label>>
    [] n.kind \in {"ScopedIdentifier", "TypeIdentifier"} -> <<".", n.label>>
    [] n.kind = "MethodReference" -> <<"::", n.label>>
    [] n.kind = "ConstructorReference" -> <<"::new">>
    [] n.kind = "Invocation" -> <<"()">>
    [] n.kind = "ConstructorInvocation" -> <<"#()">>
    [] n.kind = "Array" -> <<"]">>
    [] n.kind = "ArrayAccess" -> <<"[?]">>
    [] n.kind = "This" -> <<".pthis">>
    [] OTHER -> <<".psuper">>

\* A hash is a place of the filter.
ASSUME StepAssumption ==
  \A m \in DOMAIN Limits : \A h \in 0 .. m - 1, k \in Kinds, l \in Labels \cup {""} :
    Step(m, h, Text(Leaf(k, l))) \in 0 .. m - 1

\* A slip: hashing a masked node without what it masks, or a choice alone.
HashesMaskedApart(m, nodes) ==
  LET hashes[i \in DOMAIN nodes] ==
        LET n == nodes[i] IN
        CASE n.kind \in Leafs -> {Step(m, 0, Text(n))}
          [] n.kind = "Or" -> UNION {hashes[x] : x \in n.any}
          [] OTHER -> {Step(m, h, Text(n)) : h \in hashes[n.object]}
  IN  hashes

\* The hashes of a node: as many as it has choices, masks left aside.
Hashes(m, nodes) ==
  LET hashes[i \in DOMAIN nodes] ==
        LET n == nodes[i] IN
        CASE n.kind \in Leafs -> {Step(m, 0, Text(n))}
          [] n.kind = "Or" -> UNION {hashes[x] : x \in n.any}
          [] n.kind = "Mask" -> hashes[n.object]
          [] OTHER -> {Step(m, h, Text(n)) : h \in hashes[n.object]}
  IN  hashes

Sum(f, S) ==
  LET sum[T \in SUBSET S] ==
        IF T = {} THEN 0
        ELSE LET x == CHOOSE x \in T : TRUE IN f[x] + sum[T \ {x}]
  IN  sum[S]

\* A slip: one for a node with choices.
CountsUnbranched(nodes) == [i \in DOMAIN nodes |-> 1]

\* CountedRefPtr::count.
Counts(nodes) ==
  LET counts[i \in DOMAIN nodes] ==
        LET n == nodes[i] IN
        CASE n.kind \in Leafs -> 1
          [] n.kind = "Or" -> Sum(counts, n.any)
          [] OTHER -> counts[n.object]
  IN  counts

Larger(a, b) == IF a > b THEN a ELSE b

\* BloomSize::None and BloomSize::Much.
None == 0
Much == -1

\* The size of the filter for an estimated number of references.
SizeFor(estimate) ==
  IF estimate > Full THEN Much
  ELSE IF estimate = 0 THEN None
  ELSE CHOOSE m \in DOMAIN Limits :
         /\ estimate > Limits[m]
         /\ \A k \in DOMAIN Limits : estimate > Limits[k] => Limits[k] <= Limits[m]

\* NodeStore entry of a subtree, as far as references are concerned.
Entry(nodes, refs, current) ==
  LET counts == Counts(nodes)
      count == Sum(counts, refs) + Sum(counts, current)
      size == SizeFor(Larger(count, 2 * Cardinality(refs)))
      hashes == IF size \in DOMAIN Limits THEN Hashes(size, nodes) ELSE <<>>
  IN  [nodes |-> nodes, refs |-> refs, size |-> size,
       bits |-> IF size \in DOMAIN Limits
                THEN UNION {hashes[r] : r \in refs} ELSE {}]

\* HashedNodeRef::check: TRUE is MaybeContain.
Check(e, nodes, i) ==
  \/ e.size = Much
  \/ /\ e.size \in DOMAIN Limits
     /\ Hashes(e.size, nodes)[i] \cap e.bits # {}

-----------------------------------------------------------------------------
(* Building a subtree's solver *)

NoJob == [mode |-> "none", nodes |-> <<>>, refs |-> {}, current |-> {},
          cache |-> <<>>]

\* Which parts a node of a kind has.
Shape(n) ==
  /\ n.label # "" <=> n.kind \in {"Primitive", "Invocation"} \cup Labelled
  /\ n.object = 0 <=> n.kind \in Leafs \cup {"Or"}
  /\ n.args # <<>> <=> n.kind \in Calls \cup {"Mask"}
  /\ n.any # {} <=> n.kind = "Or"

\* The nodes that the analysis may add to a solver: one argument and three
\* choices at most.
Arguments(P) == {<<>>} \cup {<<a>> : a \in P}
Choices(P) == {{}} \cup {{i, j, k} : i \in P, j \in P, k \in P}
Terms(nodes) ==
  LET P == DOMAIN nodes IN
  {n \in [kind : Used, label : Labels \cup {""}, object : P \cup {0},
          args : Arguments(P), any : Choices(P)] :
     /\ Shape(n)
     /\ n.object # 0 => ~IsPrimitive(nodes, n.object)}

\* intern and intern_ref, on behalf of PartialAnalysis; intern_ref panics on
\* a primitive, and its callers know it.
InternOwn(n, asRef) ==
  /\ job = NoJob /\ ~failed
  /\ asRef => n.kind \notin Leafs
  /\ LET r == Intern(acc.nodes, n) IN
     acc' = [acc EXCEPT !.nodes = r.nodes,
                        !.refs = IF asRef THEN @ \cup {r.at} ELSE @]
  /\ UNCHANGED <<job, stored, failed>>

\* add_decl of a local variable, an unqualified name, with its type.
Declare(v, t) ==
  /\ job = NoJob /\ ~failed
  /\ acc.nodes[v] = On("ScopedIdentifier", acc.nodes[v].label, MM)
  /\ acc.nodes[t].kind \in {"TypeIdentifier", "Array", "Primitive"}
  /\ v \notin DOMAIN acc.decls
  /\ acc' = [acc EXCEPT !.decls = [x \in DOMAIN @ \cup {v} |->
                                     IF x = v THEN t ELSE @[x]]]
  /\ UNCHANGED <<job, stored, failed>>

Copying(mode, e, cache) ==
  job' = [mode |-> mode, nodes |-> e.nodes, refs |-> e.refs,
          current |-> {}, cache |-> cache]

\* Solver::extend and local_solve_extend with the solver of a child.
Extend(e) ==
  /\ job = NoJob /\ ~failed
  /\ Copying("extend", e, <<>>)
  /\ UNCHANGED <<acc, stored, failed>>

LocalSolveExtend(e) ==
  /\ job = NoJob /\ ~failed
  /\ DOMAIN acc.decls # {}
  /\ Copying("local", e, <<>>)
  /\ UNCHANGED <<acc, stored, failed>>

\* The body of a class: extend_map with ? standing for a member of the class
\* `id', of its super types or for what it was, with their names for
\* themselves and super for the class.  What is declared around the copy only
\* serves the search.
ExtendClassBody(e, id, supers) ==
  /\ job = NoJob /\ ~failed
  /\ acc.nodes[id] = On("ScopedIdentifier", acc.nodes[id].label, MM)
  /\ \A s \in supers :
       /\ acc.nodes[s].kind \in {"ScopedIdentifier", "TypeIdentifier"}
       /\ acc.nodes[acc.nodes[s].object].kind # "Root"
       /\ acc.nodes[s].object = MM => acc.nodes[s].label # acc.nodes[id].label
  /\ LET this == Intern(acc.nodes, On("This", "", MM))
         named == Intern(this.nodes, On("TypeIdentifier", acc.nodes[id].label, MM))
         types == {named.at} \cup supers
         any == Intern(named.nodes, Or(types \cup {MM}))
         names == {x \in DOMAIN e.nodes :
                     \E t \in types : e.nodes[x] =
                       On("ScopedIdentifier", any.nodes[t].label, MM)}
         super == {x \in DOMAIN e.nodes : e.nodes[x] = On("Super", "", MM)}
         of(x) == CHOOSE t \in types :
                    /\ any.nodes[t].label = e.nodes[x].label
                    /\ t \notin supers =>
                         \A s \in supers : any.nodes[s].label # e.nodes[x].label
     IN  /\ acc' = [acc EXCEPT !.nodes = any.nodes]
         /\ Copying("class", e,
              [x \in names \cup super \cup {MM} |->
                 CASE x = MM -> any.at [] x \in super -> id [] OTHER -> of(x)])
  /\ UNCHANGED <<stored, failed>>

\* resolve, without the search that decides which references are solved: any
\* may be dropped, and any node may take their place (solver.rs, solve_aux).
\* What is left is copied into a fresh solver, the state of the walk too.
Resolve(refs, current) ==
  /\ job = NoJob /\ ~failed
  /\ job' = [mode |-> "resolve", nodes |-> acc.nodes, refs |-> refs,
             current |-> current, cache |-> <<>>]
  /\ acc' = NoSolver
  /\ UNCHANGED <<stored, failed>>

-----------------------------------------------------------------------------
(* Copying *)

\* What the copy needs: all that the references are made of, up to the nodes
\* a map has an answer for.
Needed ==
  LET stop == IF job.mode = "class" THEN DOMAIN job.cache ELSE {}
      parts[i \in DOMAIN job.nodes] ==
        {i} \cup UNION {parts[j] : j \in Below(job.nodes[i]) \ stop}
  IN  UNION {parts[r] : r \in (job.refs \cup job.current) \ stop}

\* A slip: what is masked and what masks it change places.
RenamedSwapped(n, cache) ==
  [n EXCEPT !.object = IF n.object = 0 THEN 0
                       ELSE cache[IF n.kind = "Mask" THEN n.args[1] ELSE n.object],
            !.args = [i \in DOMAIN n.args |->
                       cache[IF n.kind = "Mask" THEN n.object ELSE n.args[i]]],
            !.any = {cache[x] : x \in n.any}]

Renamed(n, cache) ==
  [kind |-> n.kind, label |-> n.label,
   object |-> IF n.object = 0 THEN 0 ELSE cache[n.object],
   args |-> [i \in DOMAIN n.args |-> cache[n.args[i]]],
   any |-> {cache[x] : x \in n.any}]

Cached(k, at) ==
  [x \in DOMAIN job.cache \cup {k} |-> IF x = k THEN at ELSE job.cache[x]]

Ready(k) ==
  /\ k \in Needed \ DOMAIN job.cache
  /\ Below(job.nodes[k]) \subseteq DOMAIN job.cache

\* intern_external and counted_intern_external.
InternExternal(k) ==
  /\ job.mode \in {"extend", "class", "resolve"} /\ ~failed
  /\ Ready(k)
  /\ LET r == Intern(acc.nodes, Renamed(job.nodes[k], job.cache)) IN
     /\ acc' = [acc EXCEPT !.nodes = r.nodes]
     /\ job' = [job EXCEPT !.cache = Cached(k, r.at)]
     /\ failed' = ~Similar(r.nodes[r.at], job.nodes[k])
  /\ UNCHANGED stored

\* Slips: no look at the declarations; a variable turned into its type where
\* it is.
LocalNodeUnsolved(k) == Intern(acc.nodes, Renamed(job.nodes[k], job.cache))
LocalNodeInPlace(k) ==
  LET r == Intern(acc.nodes, Renamed(job.nodes[k], job.cache))
  IN  IF r.at \in DOMAIN acc.decls
      THEN [r EXCEPT !.nodes[r.at] = r.nodes[acc.decls[r.at]]] ELSE r

Flat(nodes, any) ==
  UNION {IF nodes[x].kind = "Or" THEN nodes[x].any ELSE {x} : x \in any}

\* The element of an array instead of an access to it; no choices in choices.
LocalNode(k) ==
  LET n == Renamed(job.nodes[k], job.cache)
      r == IF n.kind = "ArrayAccess" /\ acc.nodes[n.object].kind = "Array"
           THEN [nodes |-> acc.nodes, at |-> acc.nodes[n.object].object]
           ELSE Intern(acc.nodes, IF n.kind = "Or"
                                   THEN Or(Flat(acc.nodes, n.any)) ELSE n)
  IN  IF r.at \in DOMAIN acc.decls
      THEN [r EXCEPT !.at = acc.decls[r.at]] ELSE r

\* local_solve_intern_external.
LocalSolveInternExternal(k) ==
  /\ job.mode = "local" /\ ~failed
  /\ Ready(k)
  /\ LET r == LocalNode(k) IN
     /\ acc' = [acc EXCEPT !.nodes = r.nodes]
     /\ job' = [job EXCEPT !.cache = Cached(k, r.at)]
  /\ UNCHANGED <<stored, failed>>

Copied ==
  /\ job.mode # "none" /\ ~failed
  /\ job.refs \cup job.current \subseteq DOMAIN job.cache

\* Neither a primitive nor an array of primitives is worth a reference.
Lasting(nodes, refs) ==
  {r \in refs : /\ ~IsPrimitive(nodes, r)
                /\ nodes[r].kind = "Array" => ~IsPrimitive(nodes, nodes[r].object)}

\* A slip: marking the places the references had in the child.
ExtendedUnmapped ==
  /\ Copied /\ job.mode # "resolve"
  /\ acc' = [acc EXCEPT !.refs = @ \cup job.refs]
  /\ job' = NoJob
  /\ UNCHANGED <<stored, failed>>

\* The end of extend, extend_map and local_solve_extend.
Extended ==
  /\ Copied /\ job.mode # "resolve"
  /\ acc' = [acc EXCEPT !.refs =
               @ \cup Lasting(acc.nodes, {job.cache[r] : r \in job.refs})]
  /\ job' = NoJob
  /\ UNCHANGED <<stored, failed>>

\* The end of counted_extend; the subtree is stored with its filter, and the
\* construction of another begins.
Store ==
  /\ Copied /\ job.mode = "resolve"
  /\ stored' = stored \cup
       {Entry(acc.nodes, {job.cache[r] : r \in job.refs},
                         {job.cache[c] : c \in job.current})}
  /\ acc' = NoSolver
  /\ job' = NoJob
  /\ UNCHANGED failed

-----------------------------------------------------------------------------

Init ==
  /\ acc = NoSolver
  /\ job = NoJob
  /\ stored = {}
  /\ failed = FALSE

\* The bounds of the model.
Small == Len(acc.nodes) <= MaxOwn[Cardinality(stored) + 1]

Own ==
  /\ Len(acc.nodes) < MaxOwn[Cardinality(stored) + 1]
  /\ \E n \in Terms(acc.nodes), asRef \in BOOLEAN : InternOwn(n, asRef)

Child(e) ==
  /\ Small
  /\ \/ Extend(e)
     \/ "local" \in Modes /\ LocalSolveExtend(e)
     \/ "class" \in Modes /\
          \E id \in DOMAIN acc.nodes, supers \in SUBSET DOMAIN acc.nodes :
            Cardinality(supers) <= 1 /\ ExtendClassBody(e, id, supers)

Finish ==
  /\ Cardinality(stored) < MaxStored
  /\ \E refs \in SUBSET {i \in DOMAIN acc.nodes : ~IsBare(acc.nodes, i)},
        current \in {{}, {Len(acc.nodes)}} :
       Cardinality(refs) <= MaxRefs /\ Resolve(refs, current)

Next ==
  \/ Own
  \/ "local" \in Modes /\ \E v, t \in DOMAIN acc.nodes : Declare(v, t)
  \/ \E e \in stored : Child(e)
  \/ Finish
  \/ \E k \in DOMAIN job.nodes : InternExternal(k)
  \/ \E k \in DOMAIN job.nodes : LocalSolveInternExternal(k)
  \/ Extended
  \/ Store

Spec == Init /\ [][Next]_vars

-----------------------------------------------------------------------------
(* Properties *)

\* Every node refers to nodes that exist, references are nodes.
WellFormed(s) ==
  /\ s.nodes \in Seq(Node) /\ Len(s.nodes) >= 2
  /\ \A i \in DOMAIN s.nodes : Below(s.nodes[i]) \subseteq DOMAIN s.nodes
  /\ s.refs \subseteq DOMAIN s.nodes
TypeOK ==
  /\ WellFormed(acc)
  /\ \A e \in stored : WellFormed(e)
  /\ DOMAIN job.cache \subseteq DOMAIN job.nodes
  /\ \A k \in DOMAIN job.cache : job.cache[k] \in DOMAIN acc.nodes
  /\ failed \in BOOLEAN

\* No solver ever holds a node twice, whatever was copied into it: places can
\* be compared instead of what they stand for.
NoTwins ==
  \A s \in stored \cup {acc} :
    \A i, j \in DOMAIN s.nodes : s.nodes[i] = s.nodes[j] => i = j

\* A node refers to earlier nodes only, so that following objects, printing
\* and hashing end (element.rs asserts it one node at a time).
Grounded ==
  \A s \in stored \cup {acc} : \A i \in DOMAIN s.nodes :
    \A j \in Below(s.nodes[i]) : j < i

\* What a copy makes of a node is similar to it (solver.rs, intern_external),
\* and no solver has a primitive for a reference (reference.rs, next).  Under
\* the map of a class body this needs that no choice is between a name and the
\* absolute super type that the map gives that name: none is within the bounds.
NoPanic ==
  /\ ~failed
  /\ \A s \in stored \cup {acc} : \A r \in s.refs : ~IsPrimitive(s.nodes, r)

\* What a node stands for: the texts from one end of its object chain to the
\* other, one per choice, masks left aside.
Meanings(nodes) ==
  LET meanings[i \in DOMAIN nodes] ==
        LET n == nodes[i] IN
        CASE n.kind \in Leafs -> {<<Text(n)>>}
          [] n.kind = "Or" -> UNION {meanings[x] : x \in n.any}
          [] n.kind = "Mask" -> meanings[n.object]
          [] OTHER -> {Append(c, Text(n)) : c \in meanings[n.object]}
  IN  meanings
Meaning(s) == UNION {Meanings(s.nodes)[r] : r \in s.refs}

\* The hash of one of them, without any node.
HashOf(m, texts) ==
  LET hash[k \in 0 .. Len(texts)] ==
        IF k = 0 THEN 0 ELSE Step(m, hash[k - 1], texts[k])
  IN  hash[Len(texts)]

\* The filter of a subtree with references never denies one of its
\* references, however the search wrote it: with or without masks, with fewer
\* choices, as a type or as a name.
NoFalseNegative ==
  \A e \in stored : e.size # Much =>
    \A t \in Meaning(e) : e.size # None /\ HashOf(e.size, t) \in e.bits

\* A filter is chosen for at least as many hashes as it gets, choices told
\* apart, so that it is never full and does deny something.
FilterLoad ==
  \A e \in stored : e.size \in DOMAIN Limits =>
    /\ Cardinality(e.bits) < e.size
    /\ e.bits \subseteq 0 .. e.size - 1

\* Copying the references of a child loses none but those that last no
\* longer, and invents none.
ExtendKeepsMeaning ==
  [][(job.mode = "extend" /\ job' = NoJob) =>
       Meaning(acc') = Meaning(acc) \cup
         Meaning([nodes |-> job.nodes, refs |-> Lasting(job.nodes, job.refs)])]_vars

\* A place handed out for a node stays the place of this node as long as the
\* solver lives.
PlacesStable ==
  [][acc' # NoSolver =>
       \A i \in DOMAIN acc.nodes : i \in DOMAIN acc'.nodes /\ acc'.nodes[i] = acc.nodes[i]]_vars

\* The parts of the references of a solver.
PartsOf(nodes, refs) ==
  LET parts[i \in DOMAIN nodes] ==
        {i} \cup UNION {parts[j] : j \in Below(nodes[i])}
  IN  UNION {parts[r] : r \in refs}

\* Local variables do not leave the block that declares them: no reference
\* that comes out of it is made of one, arguments and choices included, but
\* where the type of a variable starts like a variable.
LocalsSolved ==
  [][(job.mode = "local" /\ job' = NoJob) =>
       PartsOf(acc'.nodes, acc'.refs \ acc.refs) \cap DOMAIN acc.decls
         \subseteq PartsOf(acc.nodes, Elements(acc.decls))]_vars

\* partial_analysis.rs, body of a class: the names of its super types are in
\* the map "?.X -> ?.X to protect from masking"; whatever a name stood for in
\* the body, it still may stand for.
BodyKeepsMeaning ==
  [][(job.mode = "class" /\ job' = NoJob) =>
       Meaning([nodes |-> job.nodes, refs |-> Lasting(job.nodes, job.refs)])
         \subseteq Meaning(acc')]_vars
=============================================================================
