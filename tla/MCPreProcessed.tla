--------------------------- MODULE MCPreProcessed ---------------------------
(* Histories of one or two commits over two modules "a" and "b".           *)
EXTENDS PreProcessed

CONSTANTS
  Pom, Pom2, One, Two, Mid, Big, Text, Bytes   \* Bytes is not UTF-8

File(name, blob) == <<[name |-> name, object |-> blob]>>
In(name, tree) == <<[name |-> name, object |-> tree]>>

\* source directories: of packages, with small and big files
Small == File("A.java", One)
Both == File("A.java", One) \o File("B.java", Two)
Middle == File("B.java", Mid)
Large == File("A.java", Big) \o File("n.txt", Text) \o File("z.java", Bytes)

Src(content) == In("src", In("main", In("java", content)))
SrcAndTest(content, test) ==
  In("src", In("main", In("java", content)) \o In("test", In("java", test)))

WithPom(pom, src) == File("pom.xml", pom) \o src

SomeModules ==
  {WithPom(Pom, Src(Small)),
   WithPom(Pom, Src(In("o", Small) \o In("p", Large))),
   WithPom(Pom, SrcAndTest(Both, Small)),
   WithPom(Pom2, Src(In("p", Both))),
   WithPom(Pom, Src(In("q", In("p", Large)))),
   WithPom(Pom, Src(In("o", Small) \o Middle)),
   WithPom(Bytes, Src(Both)),
   Src(Both)}

\* one module, before and after it gets its pom.xml
LateModules == {Src(Small), WithPom(Pom, Src(Small))}

\* a package directory that is renamed as the source directory is
JavaModules ==
  {WithPom(Pom, Src(In(n, Small) \o File("B.java", Two))) : n \in {"ja", "java"}}

RootsOf(modules) ==
  {In("a", m) \o File("pom.xml", Pom) : m \in modules}
  \cup {In("a", m) \o In("b", n) \o File("pom.xml", Pom) :
          <<m, n>> \in modules \X modules}

\* every subtree
RECURSIVE TreesOf(_, _)
TreesOf(tree, all) ==
  {tree} \cup UNION {TreesOf(e.object, all) :
                       e \in {x \in Range(tree) : x.object \notin all}}
\* the occurrences of trees below a directory: name, and directories searched
RECURSIVE Occurrences(_, _, _)
Occurrences(name, tree, dirs) ==
  LET own == IF \E e \in Range(tree) : IsPom(e) /\ e.object \notin Unreadable
             THEN SourceDirs
             ELSE dirs
  IN  {<<tree, name, dirs>>} \cup
      (IF << >> \in dirs THEN {}
       ELSE UNION {Occurrences(e.name, e.object, Drained(own, e.name)) :
                     e \in {x \in Range(tree) : x.object \notin Blobs}})

\* no directory has two names, or is a module's for one occurrence only
Unambiguous(h) ==
  LET all == UNION {Occurrences("", h[i], {}) : i \in DOMAIN h}
      searched == {o \in all : << >> \notin o[3]}
  IN  Cardinality(searched) = Cardinality({o[1] : o \in searched})

\* A module that moves down, under its own name or another one.
Moves ==
  LET m == Src(Both) \o File("pom.xml", Pom)
  IN  {<<In("a", m), In("a", In(n, m))>> : n \in {"a", "b"}}

Histories(modules) ==
  {<<m>> \o n : m \in RootsOf(modules), n \in {<< >>} \cup {<<m>> : m \in RootsOf(modules)}}
Clean(modules) == {h \in Histories(modules) : Unambiguous(h)}

Asking(histories, op, at) ==
  {[i \in DOMAIN h |-> [tree |-> h[i], path |-> at, op |-> op]] : h \in histories}

\* Sessions of one kind of requests, in which no directory changes its role.
MCSessions ==
  Asking(Clean(SomeModules), "maven", << >>)
  \cup Asking(Clean(SomeModules \cup JavaModules), "single", <<"a">>)
  \cup Asking(Clean(JavaModules) \cup Moves, "java", <<"a">>)

LateSessions == Asking(Histories(LateModules), "maven", << >>)

\* of the sessions of all runs
MCTrees ==
  UNION {TreesOf(root, Blobs) :
           root \in RootsOf(SomeModules \cup JavaModules) \cup RootsOf(LateModules)
                   \cup UNION {Range(h) : h \in Moves}}

MCIsJava(name) == name \in {"A.java", "B.java", "z.java"}
MCAnaOf(blob) ==
  IF blob = One THEN [refs |-> {"s", "t"}, decls |-> {"a"}]
  ELSE IF blob = Two THEN [refs |-> {"a"}, decls |-> {"b", "t"}]
  ELSE IF blob = Mid THEN [refs |-> {"b", "s", "u"}, decls |-> {}]
  ELSE [refs |-> {"s", "t", "u", "v"}, decls |-> {}]
MCResolve(ana) == [ana EXCEPT !.refs = @ \ ana.decls]

(* The walks of a session, and what the first one makes of a tree: all of  *)
(* the sessions have one meaning, as the theorem about SourcesComplete     *)
(* demands, and most of the late ones have not.                            *)
RECURSIVE Walks(_)
Walks(w) ==
  {w} \cup UNION {Walks(Deeper(w, e)) : e \in {x \in Range(w.tree) : Descends(w, x)}}
RECURSIVE MadeOf(_)
MadeOf(w) ==
  LET below(e) == IF Descends(w, e) THEN [o \in {e.object} |-> MadeOf(Deeper(w, e))]
                  ELSE << >>
  IN  UNION {Under(e.name, Gives(w, e, below(e))) : e \in Range(w.tree)}

MeansOneThing(s) ==
  LET walks == UNION {Walks(Occurrence(r)) : r \in Range(s)}
      value == [t \in {w.tree : w \in walks} |->
                  MadeOf(CHOOSE w \in walks : w.tree = t)]
  IN  Consistent(walks, value)

ASSUME SessionsMeanOneThing ==
  \A s \in MCSessions : MeansOneThing(s) /\ \A r \in Range(s) : LaidOut(r)
ASSUME LateSessionsDoNot == \E s \in LateSessions : ~MeansOneThing(s)
=============================================================================
