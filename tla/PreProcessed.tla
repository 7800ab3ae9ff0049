---------------------------- MODULE PreProcessed ----------------------------
(***************************************************************************)
(* PreProcessedRepository (cvs/git/src/preprocessed.rs) turns the commits  *)
(* of a git repository into hyper syntax trees: handle_maven_module walks  *)
(* a root tree in search of Maven modules, fast_fwd goes to a directory,   *)
(* handle_java_src walks the source directories they find, and all keep    *)
(* what they made of a git object in maps that later directories and       *)
(* commits are served from.  A session is what one repository is asked for *)
(* during its life: commits, each with a dir_path and an operation.        *)
(*                                                                         *)
(* Git objects are their contents, as an Oid is a hash of the content: a   *)
(* tree is the sequence of its entries [name, object].  A step is an       *)
(* iteration of one of the two loops.  A Java or XML file is generated in  *)
(* one step (TreeGen has the steps).  The analyses (PartialAnalysis) are   *)
(* the references and declarations they count.                             *)
(***************************************************************************)
EXTENDS Naturals, FiniteSets, SequencesExt

CONSTANTS
  Trees, Blobs,     \* git objects
  Sessions,         \* sequences of requests [tree, path, op]: the root tree of
                    \* a commit, dir_path, and "maven" (pre_process), "single"
                    \* (no search of modules) or "java" (pre_process_no_maven)
  IsJava(_),        \* names that end with ".java"
  Unreadable,       \* blobs that are not UTF-8
  Symbols,          \* references and declarations, resolved or not
  AnaOf(_),         \* the analysis of a Java blob: [refs, decls]
  Resolve(_),       \* PartialAnalysis::resolve
  None, Much,       \* no blob; BloomSize::Much
  MuchRefs,         \* 2048: a filter for more references is not stored
  MaxRefs           \* MAX_REFS: an analysis of more is not accumulated

ASSUME SomeFiltersAreTooBig == MuchRefs \in Nat /\ MaxRefs \in Nat \ {0}
                               /\ MuchRefs < MaxRefs
ASSUME DistinctNames ==
  \A t \in Trees : \A i, j \in DOMAIN t : t[i].name = t[j].name => i = j

Objects == Trees \cup Blobs
EntryNames == UNION {{t[i].name : i \in DOMAIN t} : t \in Trees}
Entries == [name : EntryNames, object : Objects]
Requests == [tree : Trees, path : Seq(STRING), op : {"maven", "single", "java"}]

ASSUME ObjectsAssumption ==
  /\ Trees \cap Blobs = {}
  /\ \A t \in Trees : t \in Seq(Entries)
  /\ \A s \in Sessions : s \in Seq(Requests)

Analyses == [refs : SUBSET Symbols, decls : SUBSET Symbols]

\* a directory of nothing refers to nothing
ASSUME AnalysesAssumption ==
  /\ IsFiniteSet(Symbols)
  /\ \A b \in Blobs : AnaOf(b) \in Analyses
  /\ \A ana \in Analyses : Resolve(ana) \in Analyses
  /\ Resolve([refs |-> {}, decls |-> {}]).refs = {}

VARIABLES
  session,          \* the requests still to answer
  path,             \* what remains of dir_path
  maven, java,      \* the stacks of handle_maven_module and handle_java_src
  nodes,            \* main_stores.node_store
  objectMap, objectMapPom, objectMapJava,
  commits,          \* in processing order: [request, root]
  panicked

caches == <<objectMap, objectMapPom, objectMapJava>>
vars == <<session, path, maven, java, nodes, caches, commits, panicked>>
-----------------------------------------------------------------------------
(* Directories to explore, and what is accumulated of them.                *)

IsTree(entry) == entry.object \notin Blobs
IsPom(entry) == entry.name = "pom.xml" /\ ~IsTree(entry)

\* What handle_pom_file answers for every pom.xml; it has no submodules.
SourceDirs == {<<"src", "main", "java">>, <<"src", "test", "java">>}

\* mutant: the pom.xml of a directory waits for its turn
ExplorationPomLast(tree, rest) == Reverse(tree)

\* prepare_dir_exploration, in the order entries are popped: the first entry
\* and pom.xml change places when there is one, the whole is reversed if not
Exploration(tree, rest) ==
  LET poms == {i \in DOMAIN tree : IsPom(tree[i])}
  IN  IF rest = << >> /\ poms # {}
      THEN [i \in DOMAIN tree |->
              IF i = 1 THEN tree[CHOOSE p \in poms : TRUE]
              ELSE IF i \in poms THEN tree[1] ELSE tree[i]]
      ELSE Reverse(tree)

MavenAcc(tree, name, rest, dirs) ==
  [tree |-> tree, todo |-> Exploration(tree, rest), name |-> name,
   names |-> << >>, children |-> << >>, dirs |-> dirs]

NoAna == [refs |-> {}, decls |-> {}]

JavaAcc(tree, name) ==
  [tree |-> tree, todo |-> tree, name |-> name, names |-> << >>,
   children |-> << >>, ana |-> NoAna, skiped |-> FALSE]

\* mutant: the name is not pushed
PushUnnamed(acc, name, id) == [acc EXCEPT !.children = Append(@, id)]

\* mutant: names are stacked while children are queued
PushNameFirst(acc, name, id) ==
  [acc EXCEPT !.names = <<name>> \o @, !.children = Append(@, id)]

PushChild(acc, name, id) ==
  [acc EXCEPT !.names = Append(@, name), !.children = Append(@, id)]

PushPom(acc, id) == [PushChild(acc, "pom.xml", id) EXCEPT !.dirs = SourceDirs]

EstimatedRefs(ana) == Cardinality(ana.refs)

\* mutant: a directory whose analysis was skipped is accumulated all the same
PushBlindly(acc, name, node) ==
  [PushChild(acc, name, node.id) EXCEPT
     !.skiped = @ \/ EstimatedRefs(node.ana) >= MaxRefs,
     !.ana = IF EstimatedRefs(node.ana) >= MaxRefs \/ acc.skiped THEN @
             ELSE [refs |-> @.refs \cup node.ana.refs,
                   decls |-> @.decls \cup node.ana.decls]]

\* JavaAcc::push and push_dir, given [id, ana, skiped]
Push(acc, name, node) ==
  LET skip == \/ EstimatedRefs(node.ana) >= MaxRefs
              \/ node.skiped
              \/ acc.skiped
  IN  [PushChild(acc, name, node.id) EXCEPT
         !.skiped = skip,
         !.ana = IF skip THEN @
                 ELSE [refs |-> @.refs \cup node.ana.refs,
                       decls |-> @.decls \cup node.ana.decls]]

Popped(stack) == [stack EXCEPT ![Len(stack)].todo = Tail(@)]
OnTop(stack, acc) == [stack EXCEPT ![Len(stack)] = acc]

\* drain_filter_strip
Drained(dirs, name) == {Tail(d) : d \in {s \in dirs : Head(s) = name}}
Kept(dirs, name) == {d \in dirs : Head(d) # name}
-----------------------------------------------------------------------------
(* Entities.  A directory is never found again (EqDirectory of NodeStore), *)
(* a file is.                                                              *)

FileNode(name, blob) ==
  [kind |-> "file", name |-> name, names |-> << >>, children |-> << >>,
   blob |-> blob, refs |-> {}]

IdOf(ns, node) ==
  IF \E i \in DOMAIN ns : ns[i] = node
  THEN CHOOSE i \in DOMAIN ns : ns[i] = node
  ELSE Len(ns) + 1
Interned(ns, node) == IF IdOf(ns, node) > Len(ns) THEN Append(ns, node) ELSE ns

DirNode(kind, acc, refs) ==
  [kind |-> kind, name |-> acc.name, names |-> acc.names,
   children |-> acc.children, blob |-> None, refs |-> refs]

\* the analysis of a source directory, and the filter stored with it
DirAna(acc) ==
  IF acc.skiped \/ EstimatedRefs(acc.ana) >= MaxRefs THEN acc.ana
  ELSE Resolve(acc.ana)

Filter(acc) ==
  IF acc.children = << >> THEN {}
  ELSE IF EstimatedRefs(DirAna(acc)) > MuchRefs \/ acc.skiped THEN Much
  ELSE DirAna(acc).refs

With(map, key, value) ==
  [k \in DOMAIN map \cup {key} |-> IF k = key THEN value ELSE map[k]]

\* mutant: the name of an object is not part of the key
JavaKeyOid(object, name) == <<object, "">>

\* the keys of object_map_java
JavaKey(object, name) == <<object, name>>
-----------------------------------------------------------------------------
Init ==
  /\ session \in Sessions
  /\ path = << >>
  /\ maven = << >>
  /\ java = << >>
  /\ nodes = << >>
  /\ objectMap = << >>
  /\ objectMapPom = << >>
  /\ objectMapJava = << >>
  /\ commits = << >>
  /\ panicked = FALSE

Request == Head(session)

\* handle_maven_commit and handle_java_commit
HandleCommit ==
  /\ session # << >>
  /\ maven = << >>
  /\ ~panicked
  /\ path' = Request.path
  /\ maven' = <<MavenAcc(Request.tree, "", Request.path, {})>>
  /\ UNCHANGED <<session, java, nodes, caches, commits, panicked>>

(* handle_maven_module and fast_fwd.                                       *)

Module == Last(maven)
InMaven == maven # << >> /\ java = << >> /\ ~panicked
Exploring == InMaven /\ Module.todo # << >>
Entry == Head(Module.todo)

ForwardToModule ==
  /\ Exploring
  /\ IsTree(Entry)
  /\ path # << >>
  /\ Entry.name = Head(path)
  /\ path' = Tail(path)
  /\ maven' = Append(OnTop(maven, [Module EXCEPT !.todo = << >>]),
                     MavenAcc(Entry.object, Entry.name, path', {}))
  /\ UNCHANGED <<session, java, nodes, caches, commits, panicked>>

\* mutant: a directory that is not searched is never popped
IgnoreBlobEntry ==
  /\ Exploring
  /\ ~IsTree(Entry)
  /\ (path = << >> /\ Request.op # "java" /\ IsPom(Entry))
       => Entry.object \in Unreadable
  /\ maven' = Popped(maven)
  /\ UNCHANGED <<session, path, java, nodes, caches, commits, panicked>>

IgnoreEntry ==
  /\ Exploring
  /\ \/ path # << >> /\ (IsTree(Entry) => Entry.name # Head(path))
     \/ path = << >> /\ ~IsTree(Entry)
          /\ (Request.op # "java" /\ IsPom(Entry) => Entry.object \in Unreadable)
     \/ path = << >> /\ IsTree(Entry) /\ Entry.object \notin DOMAIN objectMap
          /\ Request.op = "single" /\ Drained(Module.dirs, Entry.name) = {}
  /\ maven' = Popped(maven)
  /\ UNCHANGED <<session, path, java, nodes, caches, commits, panicked>>

\* already in object_map; only fast_fwd looks at the name it had
ReuseDirectory ==
  /\ Exploring
  /\ IsTree(Entry)
  /\ path = << >>
  /\ Entry.object \in DOMAIN objectMap
  /\ Request.op = "java" => nodes[objectMap[Entry.object]].name = Entry.name
  /\ maven' = OnTop(maven, PushChild(Last(Popped(maven)), Entry.name,
                                     objectMap[Entry.object]))
  /\ UNCHANGED <<session, path, java, nodes, caches, commits, panicked>>

ReuseDirectoryPanics ==
  /\ Exploring
  /\ IsTree(Entry)
  /\ path = << >>
  /\ Entry.object \in DOMAIN objectMap
  /\ Request.op = "java" /\ nodes[objectMap[Entry.object]].name # Entry.name
  /\ panicked' = TRUE
  /\ UNCHANGED <<session, path, maven, java, nodes, caches, commits>>

ToExplore ==
  /\ Exploring
  /\ IsTree(Entry)
  /\ path = << >>
  /\ Entry.object \notin DOMAIN objectMap

\* no source directory contains another one; all directories are source
\* directories for fast_fwd
EnterSources ==
  /\ ToExplore
  /\ Request.op = "java" \/ << >> \in Drained(Module.dirs, Entry.name)
  /\ maven' = OnTop(maven, [Last(Popped(maven)) EXCEPT
                              !.dirs = Kept(@, Entry.name)])
  /\ java' = <<JavaAcc(Entry.object, Entry.name)>>
  /\ UNCHANGED <<session, path, nodes, caches, commits, panicked>>

EnterDirectory ==
  LET dirs == Drained(Module.dirs, Entry.name)
  IN  /\ ToExplore
      /\ Request.op # "java" /\ << >> \notin dirs
      /\ Request.op = "single" => dirs # {}
      /\ maven' = Append(OnTop(maven, [Last(Popped(maven)) EXCEPT
                                         !.dirs = Kept(@, Entry.name)]),
                         MavenAcc(Entry.object, Entry.name, path, dirs))
      /\ UNCHANGED <<session, path, java, nodes, caches, commits, panicked>>

\* a pom.xml, generated unless object_map_pom has it
AtPom ==
  /\ Exploring
  /\ Request.op # "java"
  /\ path = << >>
  /\ IsPom(Entry)

ReusePom ==
  /\ AtPom
  /\ Entry.object \in DOMAIN objectMapPom
  /\ maven' = OnTop(maven, PushPom(Last(Popped(maven)),
                                   objectMapPom[Entry.object]))
  /\ UNCHANGED <<session, path, java, nodes, caches, commits, panicked>>

GeneratePom ==
  /\ AtPom
  /\ Entry.object \notin DOMAIN objectMapPom \cup Unreadable
  /\ LET node == FileNode(Entry.name, Entry.object)
         id == IdOf(nodes, node)
     IN  /\ nodes' = Interned(nodes, node)
         /\ objectMapPom' = With(objectMapPom, Entry.object, id)
         /\ maven' = OnTop(maven, PushPom(Last(Popped(maven)), id))
  /\ UNCHANGED <<session, path, java, objectMap, objectMapJava, commits,
                 panicked>>

\* commit node: the root of the commit when the stack is empty
CommitModule ==
  LET id == Len(nodes) + 1
      below == Front(maven)
  IN  /\ InMaven
      /\ Module.todo = << >>
      /\ nodes' = Append(nodes, DirNode("MavenDirectory", Module, Much))
      /\ objectMap' = With(objectMap, Module.tree, id)
      /\ maven' = IF below = << >> THEN << >>
                  ELSE OnTop(below, PushChild(Last(below), Module.name, id))
      /\ IF below = << >>
         THEN /\ commits' = Append(commits, [request |-> Request, root |-> id])
              /\ session' = Tail(session)
         ELSE UNCHANGED <<commits, session>>
      /\ UNCHANGED <<path, java, objectMapPom, objectMapJava, panicked>>

(* handle_java_src.                                                        *)

Package == Last(java)
InJava == java # << >> /\ ~panicked
Reading == InJava /\ Package.todo # << >>
Item == Head(Package.todo)
Known == JavaKey(Item.object, Item.name) \in DOMAIN objectMapJava
Already == objectMapJava[JavaKey(Item.object, Item.name)]

IgnoreBlob ==
  /\ Reading
  /\ ~IsTree(Item)
  /\ ~Known
  /\ ~IsJava(Item.name) \/ Item.object \in Unreadable
  /\ java' = Popped(java)
  /\ UNCHANGED <<session, path, maven, nodes, caches, commits, panicked>>

\* a directory or a file of object_map_java, if it has the name it had
ReuseItem ==
  /\ Reading
  /\ Known
  /\ nodes[Already.id].name = Item.name
  /\ java' = OnTop(java, Push(Last(Popped(java)), Item.name, Already))
  /\ UNCHANGED <<session, path, maven, nodes, caches, commits, panicked>>

ReusePanics ==
  /\ Reading
  /\ Known
  /\ nodes[Already.id].name # Item.name
  /\ panicked' = TRUE
  /\ UNCHANGED <<session, path, maven, java, nodes, caches, commits>>

GenerateJava ==
  /\ Reading
  /\ ~IsTree(Item)
  /\ ~Known
  /\ IsJava(Item.name)
  /\ Item.object \notin Unreadable
  /\ LET node == FileNode(Item.name, Item.object)
         made == [id |-> IdOf(nodes, node), ana |-> AnaOf(Item.object),
                  skiped |-> FALSE]
     IN  /\ nodes' = Interned(nodes, node)
         /\ objectMapJava' =
              With(objectMapJava, JavaKey(Item.object, Item.name), made)
         /\ java' = OnTop(java, Push(Last(Popped(java)), Item.name, made))
  /\ UNCHANGED <<session, path, maven, objectMap, objectMapPom, commits,
                 panicked>>

EnterPackage ==
  /\ Reading
  /\ IsTree(Item)
  /\ ~Known
  /\ java' = Append(Popped(java), JavaAcc(Item.object, Item.name))
  /\ UNCHANGED <<session, path, maven, nodes, caches, commits, panicked>>

\* commit node: kept under the name of the directory handle_java_src was
\* called on, also when it is a directory inside of it
CommitPackage ==
  LET id == Len(nodes) + 1
      made == [id |-> id, ana |-> DirAna(Package), skiped |-> Package.skiped]
      below == Front(java)
  IN  /\ InJava
      /\ Package.todo = << >>
      /\ nodes' = Append(nodes, DirNode("Directory", Package, Filter(Package)))
      /\ objectMapJava' =
           With(objectMapJava, JavaKey(Package.tree, java[1].name), made)
      /\ IF below = << >>
         THEN /\ java' = << >>
              /\ maven' = OnTop(maven, PushChild(Module, Package.name, id))
         ELSE /\ java' = OnTop(below, Push(Last(below), Package.name, made))
              /\ UNCHANGED maven
      /\ UNCHANGED <<session, path, objectMap, objectMapPom, commits, panicked>>

Step ==
  \/ HandleCommit \/ ForwardToModule \/ IgnoreEntry
  \/ ReuseDirectory \/ ReuseDirectoryPanics
  \/ EnterSources \/ EnterDirectory \/ ReusePom \/ GeneratePom \/ CommitModule
  \/ IgnoreBlob \/ ReuseItem \/ ReusePanics \/ GenerateJava \/ EnterPackage
  \/ CommitPackage

Next == Step

Spec == Init /\ [][Next]_vars

\* nothing in the two loops waits
FairSpec == Spec /\ WF_vars(Step)
-----------------------------------------------------------------------------
(* Type correctness: a DAG of entities, and stacks and maps that point to  *)
(* it.                                                                     *)
TypeOK ==
  /\ \A i \in DOMAIN nodes :
       /\ Len(nodes[i].names) = Len(nodes[i].children)
       /\ Range(nodes[i].children) \subseteq 1..(i - 1)
  /\ \A d \in DOMAIN maven : Range(maven[d].children) \subseteq DOMAIN nodes
  /\ \A d \in DOMAIN java : Range(java[d].children) \subseteq DOMAIN nodes
  /\ java # << >> => maven # << >>
  /\ Range(objectMap) \cup Range(objectMapPom) \subseteq DOMAIN nodes
  /\ \A made \in Range(objectMapJava) : made.id \in DOMAIN nodes
  /\ \A c \in Range(commits) : c.root \in DOMAIN nodes
  /\ panicked \in BOOLEAN

\* how deep a tree is; a git object is named by its content, so that no tree
\* is in itself
Height ==
  LET height[t \in Trees] ==
        1 + Max({0} \cup {height[e.object] : e \in {x \in Range(t) : IsTree(x)}})
  IN  height

ASSUME HeightAssumption ==
  \A t \in Trees :
    /\ Height[t] \in Nat
    /\ \A e \in Range(t) : IsTree(e) => Height[e.object] < Height[t]

(* The files of a git tree and of an entity: their paths and blobs.        *)
Under(name, files) ==
  {[path |-> <<name>> \o f.path, blob |-> f.blob] : f \in files}

GitFiles ==
  LET files[t \in Trees] ==
        UNION {Under(e.name, IF IsTree(e) THEN files[e.object]
                             ELSE {[path |-> << >>, blob |-> e.object]}) :
                 e \in Range(t)}
  IN  files

AstFiles ==
  LET files[i \in DOMAIN nodes] ==
        IF nodes[i].kind = "file"
        THEN {[path |-> << >>, blob |-> nodes[i].blob]}
        ELSE UNION {Under(nodes[i].names[k], files[nodes[i].children[k]]) :
                      k \in DOMAIN nodes[i].children}
  IN  files

\* the files of `tree` that are below `at`
Below(tree, at) ==
  {f \in GitFiles[tree] : IsStrictPrefix(at, f.path)}

(* What Maven's layout makes of it: the directories with a pom.xml are     *)
(* modules (only the first one if modules are not searched for), and the   *)
(* sources of a module are the Java files of its source directories.       *)
(* Without Maven, all Java files below the directories of a directory.     *)
Readable(files) == {f \in files : f.blob \notin Unreadable}
Poms(files) == {f \in Readable(files) : Last(f.path) = "pom.xml"}
JavaFiles(files) == {f \in Readable(files) : IsJava(Last(f.path))}

ModulesOf(r, files) ==
  {d \in {Front(f.path) : f \in Poms(files)} : r.op = "single" => d = r.path}

MavenFiles(r, files) ==
  {f \in Poms(files) : Front(f.path) \in ModulesOf(r, files)} \cup
  {f \in JavaFiles(files) : \E d \in ModulesOf(r, files), s \in SourceDirs :
                              IsStrictPrefix(d \o s, f.path)}

WantedFiles(r) ==
  LET files == Below(r.tree, r.path)
  IN  IF r.op = "java" THEN {f \in JavaFiles(files) : Len(f.path) > Len(r.path) + 1}
      ELSE MavenFiles(r, files)

(* The tree made for a commit has, at their paths and with their contents, *)
(* the pom.xml and the Java sources that were asked for and nothing else,  *)
(* whatever was processed and cached before (entities never change, so     *)
(* that it is enough to look at it when its commit is done).               *)
SourcesComplete ==
  maven = << >> /\ commits # << >> =>
    AstFiles[Last(commits).root] = WantedFiles(Last(commits).request)

(* A directory lists its children under the names they have themselves:    *)
(* get_child_by_name, and the paths made of labels, agree.                 *)
NamesAgree ==
  \A i \in DOMAIN nodes : \A k \in DOMAIN nodes[i].children :
    nodes[nodes[i].children[k]].name = nodes[i].names[k]

(* The filter of a directory that is not BloomSize::Much was made of the   *)
(* complete analysis of everything below it: no file whose analysis was    *)
(* too big to be accumulated, directly or behind a cached directory, is    *)
(* missing from it, and a negative answer can be believed.                 *)
FullAna ==
  LET ana[i \in DOMAIN nodes] ==
        LET made == {ana[c] : c \in Range(nodes[i].children)}
        IN  IF nodes[i].kind = "file" THEN AnaOf(nodes[i].blob)
            ELSE Resolve([refs |-> UNION {a.refs : a \in made},
                          decls |-> UNION {a.decls : a \in made}])
  IN  ana

FiltersComplete ==
  \A i \in DOMAIN nodes :
    nodes[i].kind = "Directory" /\ nodes[i].refs # Much =>
      nodes[i].refs = FullAna[i].refs

(* The only cached objects met under another name are directories that     *)
(* fast_fwd finds moved, and packages that have the name of a source       *)
(* directory, under which handle_java_src keeps all directories.           *)
SourceDirNames ==
  LET parents == {nodes[i] : i \in DOMAIN nodes} \cup Range(maven)
      found == UNION {Range(p.children) : p \in {x \in parents :
                        "kind" \in DOMAIN x => x.kind = "MavenDirectory"}}
  IN  {java[1].name} \cup
      {nodes[c].name : c \in {x \in found : nodes[x].kind = "Directory"}}
OnlyNamesakesPanic ==
  panicked => IF java = << >> THEN Request.op = "java" /\ IsTree(Entry)
                              ELSE IsTree(Item) /\ Item.name \in SourceDirNames

(* Every request is answered, unless a panic ends the process.             *)
Finishes == <>(session = << >> \/ panicked)
-----------------------------------------------------------------------------
(* When SourcesComplete can be relied on.  What is made of a tree depends  *)
(* on where it is, but object_map serves it wherever it is met: the walks  *)
(* of a session must make the same of a tree everywhere.                   *)

\* What is made of a tree is decided by its occurrence in a walk: the tree,
\* what remained of dir_path, the source directories that were expected in it
\* and the operation.
Occurrence(r) == [tree |-> r.tree, rest |-> r.path, dirs |-> {}, op |-> r.op]

PomRead(e) == IsPom(e) /\ e.object \notin Unreadable

\* the source directories expected below the tree, and below an entry of it
OwnDirs(w) ==
  IF w.op # "java" /\ w.rest = << >> /\ \E e \in Range(w.tree) : PomRead(e)
  THEN SourceDirs ELSE w.dirs
DirsOf(w, e) == Drained(OwnDirs(w), e.name)

\* the walk goes on in a directory, which occurs so, or reads it as sources
Descends(w, e) ==
  /\ IsTree(e)
  /\ IF w.rest # << >> THEN e.name = Head(w.rest)
     ELSE /\ w.op # "java" /\ << >> \notin DirsOf(w, e)
          /\ w.op = "single" => DirsOf(w, e) # {}
Deeper(w, e) ==
  [tree |-> e.object, rest |-> IF w.rest = << >> THEN << >> ELSE Tail(w.rest),
   dirs |-> IF w.rest = << >> THEN DirsOf(w, e) ELSE {}, op |-> w.op]
SourcesAt(w, e) ==
  IsTree(e) /\ w.rest = << >> /\ (w.op = "java" \/ << >> \in DirsOf(w, e))

Single(blob) == {[path |-> << >>, blob |-> blob]}
JavaBelow(tree) == JavaFiles(GitFiles[tree])

\* the files an entry gives, when value has those of the trees walked in
Gives(w, e, value) ==
  IF Descends(w, e) THEN value[e.object]
  ELSE IF SourcesAt(w, e) THEN JavaBelow(e.object)
  ELSE IF PomRead(e) /\ w.rest = << >> /\ w.op # "java" THEN Single(e.object)
  ELSE {}

(* The occurrences W of the trees of some walks are consistent: a tree     *)
(* gives the same files, value, in all of them, also where it would not be *)
(* walked in, because that is what object_map serves.                      *)
Consistent(W, value) ==
  \A w \in W :
    /\ value[w.tree] =
         UNION {Under(e.name, Gives(w, e, value)) : e \in Range(w.tree)}
    /\ \A e \in Range(w.tree) : Descends(w, e) => Deeper(w, e) \in W
    /\ w.rest = << >> =>
         \A e \in Range(w.tree), v \in W :
           IsTree(e) /\ e.object = v.tree => Gives(w, e, value) = value[e.object]

OneMeaning(s) ==
  \E W, value : Consistent(W, value) /\ \A r \in Range(s) : Occurrence(r) \in W

(* No pom.xml of the directory that is asked for is below the "src" of one *)
(* of its modules.                                                         *)
LaidOut(r) ==
  r.op = "java" \/
    \A f, g \in Poms(Below(r.tree, r.path)) :
      ~IsPrefix(Front(f.path) \o <<"src">>, Front(g.path))
=============================================================================
