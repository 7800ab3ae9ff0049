------------------------------ MODULE AllRefs ------------------------------
(***************************************************************************)
(* write_referencial_relations (cvs/git/src/allrefs.rs): for each Maven    *)
(* module of a tree (IterMavenModules), for each declaration of its source *)
(* folders (IterDeclarations), a RefsFinder walks outward from the         *)
(* declaration and has usage::RefsFinder::find_all look for references in  *)
(* the places it passes.  What find_all matches is left open: it may find  *)
(* a reference anywhere below the place it is given; what it does with the *)
(* position of a match is not (successful_match).                          *)
(*                                                                         *)
(* A step is an iteration of one of the loops.  found is a history         *)
(* variable, the trail of each reference, and so is search.at, the trail   *)
(* of the cursor: neither looks at the store or the scout.                 *)
(***************************************************************************)
EXTENDS Positions, FiniteSets

CONSTANTS
  MaxMatches,  \* matches of one search in each tree
  MaxUps       \* ancestors relax_to_type climbs

ASSUME BoundsAssumption ==
  MaxMatches \in [DOMAIN Trees -> Nat] /\ MaxUps \in Nat

\* handle_maven_commit makes the root a directory; successful_match asserts
\* that a creation has children
ASSUME KindsAssumption ==
  \A t \in DOMAIN Trees :
    /\ Trees[t][Len(Trees[t])].kind \in DirKinds
    /\ \A n \in DOMAIN Trees[t] :
         Trees[t][n].kind = "ObjectCreationExpression" => Trees[t][n].children # << >>

FileKinds == {"Program", "xml_SourceFile"}
SourceFolders == <<<<"src", "test", "java">>, <<"src", "main", "java">>>>

\* A directory holds directories and files; nothing else holds one.  Files that
\* do not parse (their root is an ERROR) are left out, and so is what is in a
\* pom.xml.  A file is not called like a step to a source folder: what is not a
\* pom.xml ends in .java (handle_maven_commit, handle_java_src).
ASSUME LayersAssumption ==
  \A t \in DOMAIN Trees : \A n \in DOMAIN Trees[t] :
    LET node == Trees[t][n]
    IN  /\ \A i \in DOMAIN node.children :
             Trees[t][node.children[i]].kind \in DirKinds \cup FileKinds
             <=> node.kind \in DirKinds
        /\ node.kind = "xml_SourceFile" => node.children = << >>
        /\ node.kind \in FileKinds =>
             \A folder \in ToSet(SourceFolders) : node.label \notin ToSet(folder)

TypeDeclarations ==
  {"ClassDeclaration", "InterfaceDeclaration", "AnnotationTypeDeclaration",
   "EnumDeclaration", "EnumConstant"}
TypeBodies ==
  {"ClassBody", "InterfaceBody", "AnnotationTypeBody", "EnumBody",
   "EnumBodyDeclarations"}

\* What Java's grammar says of the nodes that a search starts from and passes:
\* a type and its body have braces, a list of parameters holds parameters, the
\* body of a creation is that of a class, types stand in bodies and bodies in
\* types, a group of a switch holds statements, and a package declaration is a
\* keyword, a space and a name at least.
ASSUME GrammarAssumption ==
  \A t \in DOMAIN Trees : \A n \in DOMAIN Trees[t] :
    LET node == Trees[t][n]
        Below == {Trees[t][c].kind : c \in ToSet(node.children)}
    IN  /\ node.kind \in {"ClassDeclaration", "InterfaceDeclaration",
                          "AnnotationTypeDeclaration", "ClassBody"} =>
             node.children # << >>
        /\ node.kind \in {"PackageDeclaration", "ScopedAbsoluteIdentifier"} =>
             Len(node.children) > 2
        /\ node.kind \in TypeDeclarations => Below \cap TypeDeclarations = {}
        /\ node.kind \in TypeBodies \cup {"Program", "Block", "ConstructorBody"} =>
             Below \cap TypeBodies \subseteq
               IF node.kind = "EnumBody" THEN {"EnumBodyDeclarations"} ELSE {}
        /\ node.kind \in {"FormalParameters", "InferredParameters"} =>
             Below \cap {"FormalParameters", "InferredParameters", "TypeParameters",
                        "ResourceSpecification", "EnhancedForStatement"} = {}
        /\ node.kind = "SwitchBlockStatementGroup" =>
             Below \cap {"FormalParameters", "InferredParameters", "TypeParameters",
                        "ResourceSpecification"} = {}
        /\ node.kind = "ObjectCreationExpression" =>
             Below \cap (TypeDeclarations \cup TypeBodies) \subseteq {"ClassBody"}

VARIABLES
  modules,     \* IterMavenModules
  folders,     \* the source folders still to go through, with the others
  declarations,\* IterDeclarations
  decl,        \* the declaration it gave, if it was not searched yet
  search,      \* the RefsFinder
  store,       \* its StructuralPositionStore
  refs,        \* the handles it returns
  found,       \* the trails of its matches
  searched,    \* the trails of the places find_all was given
  written,     \* the trails of the declarations whose search is over
  panicked

iterators == <<modules, folders, declarations>>
finder == <<search, store, refs, found, searched>>
vars == <<tree, iterators, decl, finder, written, panicked>>
-----------------------------------------------------------------------------
(* The loop of both iterators: [path, stack], the frames [node, next,      *)
(* open] on the stack are nodes to look at, or nodes to go on below.       *)

Closed(node) == [node |-> node, next |-> 0, open |-> FALSE]
Opened(node) == [node |-> node, next |-> 0, open |-> TRUE]

Iterator(path) == [path |-> path, stack |-> <<Closed(NodeOf(path))>>]
Exhausted == [path |-> << >>, stack |-> << >>]

Top(it) == Last(it.stack)
IsOver(it) == it.stack = << >>
Below(it) == Children(Top(it).node)

\* to the first or the next child
Down(it) ==
  LET child == Below(it)[Top(it).next + 1]
  IN  [path |-> IF Top(it).next = 0 THEN Goto(it.path, child, 1)
                ELSE Inc(it.path, child),
       stack |-> Front(it.stack)
                 \o <<[Top(it) EXCEPT !.next = @ + 1], Closed(child)>>]

Leave(it) == [path |-> Front(it.path), stack |-> Front(it.stack)]

\* mutant: the last child is left out
ClimbEarly(it) == IF Top(it).next + 1 < Len(Below(it)) THEN Down(it) ELSE Leave(it)

Climb(it) == IF Top(it).next < Len(Below(it)) THEN Down(it) ELSE Leave(it)

\* what the assertions of the loop verify before the path changes
Agrees(it) ==
  /\ Check(it.path)
  /\ Top(it).next < Len(Below(it)) =>
       NodeOf(it.path) = IF Top(it).next = 0 THEN Top(it).node
                         ELSE Below(it)[Top(it).next]

Look(it, deadEnd) ==
  [it EXCEPT !.stack =
     Front(@) \o IF deadEnd \/ Below(it) = << >> THEN << >>
                 ELSE <<Opened(Top(it).node)>>]
-----------------------------------------------------------------------------
(* Modules, their folders, declarations.                                   *)

\* IterMavenModules::is_dead_end and is_matching
OutOfModules(n) == Label(n) = "src" \/ Kind(n) # "MavenDirectory"
IsModule(n) ==
  \E i \in DOMAIN Children(n) :
    /\ Kind(Children(n)[i]) = "xml_SourceFile"
    /\ Label(Children(n)[i]) = "pom.xml"

GotoByName(paths, name) ==
  UNION {{Goto(p, Children(NodeOf(p))[o], o) :
            o \in {i \in DOMAIN Children(NodeOf(p)) :
                     Label(Children(NodeOf(p))[i]) = name}} : p \in paths}

Folder(path, names) ==
  LET outer == GotoByName(GotoByName({path}, names[1]), names[2])
      reached == GotoByName(outer, names[3])
  IN  IF reached = {} THEN << >> ELSE <<CHOOSE p \in reached : TRUE>>

\* maven_module_folders: the tests are also the other folder of the sources
MavenModuleFolders(path) ==
  LET tests == Folder(path, SourceFolders[1])
      sources == Folder(path, SourceFolders[2])
  IN  [i \in DOMAIN tests |-> [path |-> tests[i], others |-> << >>]]
      \o [i \in DOMAIN sources |-> [path |-> sources[i], others |-> tests]]

Parameters ==
  {"FormalParameter", "SpreadParameter", "CatchFormalParameter",
   "TypeParameter", "Resource"}

Ignored ==
  {"Spaces", "Comment", "PackageDeclaration", "ImportDeclaration", "Identifier"}

\* what IterDeclarations gives
Declares(path) ==
  LET kind == Kind(NodeOf(path))
      above == Kind(NodeOf(Front(path)))
  IN  \/ kind \in TypeDeclarations \cup Parameters
      \/ kind \in {"LocalVariableDeclaration", "EnhancedForVariable"}
      \/ kind = "Identifier" /\ above = "LambdaExpression" /\ Last(path).offset = 1
      \/ kind = "Identifier" /\ above = "InferredParameters"
      \/ kind = "ClassBody" /\ above \in {"ObjectCreationExpression", "EnumDeclaration"}
-----------------------------------------------------------------------------
(* A search: its cursor (scout, prev, curr, and at), the stage of the walk *)
(* outward and the next child to pass there; 0 is no node.                 *)

Idle ==
  [stage |-> "idle", again |-> FALSE, scout |-> [root |-> 1, path |-> << >>],
   at |-> << >>, prev |-> 0, curr |-> 0, next |-> 1, matches |-> 0,
   outcome |-> "ok", saved |-> << >>]

\* RefsFinder::up
CursorUp(st, s) ==
  LET scout == Up(st, s.scout)
  IN  [s EXCEPT !.scout = scout, !.prev = s.curr, !.next = 1,
                !.curr = IF HasParents(s.scout) THEN NodeAlways(st, scout) ELSE 0,
                !.at = IF @ = << >> THEN @ ELSE Front(@)]

\* the cursor above the declaration, from a scout on it
CursorAbove(st, s, scout) ==
  CursorUp(st, [s EXCEPT !.scout = scout, !.curr = NodeOf(decl),
                         !.at = TrailOf(decl)])

SearchedTypes ==
  {"ClassDeclaration", "InterfaceDeclaration", "AnnotationTypeDeclaration"}

IsType == Kind(NodeOf(decl)) \in SearchedTypes
IsBody == Kind(NodeOf(decl)) = "ClassBody"
IsLocal == Kind(NodeOf(decl)) \in
             Parameters \cup {"LocalVariableDeclaration", "EnhancedForVariable",
                              "Identifier"}

ParameterLists == {"FormalParameters", "InferredParameters"}

\* mutant: the search stays in the list
StayInList(st, s) == s

\* go_through_block, up to the node whose children it searches
PassLists(st, s) == IF Kind(s.curr) \in ParameterLists THEN CursorUp(st, s) ELSE s

Stepped(scout, ups, st) ==
  LET up[n \in 0 .. ups] == IF n = 0 THEN scout ELSE Up(st, up[n - 1])
  IN  up[ups]

Wrappers == {"ExpressionStatement", "CastExpression", "ParenthesizedExpression"}

Reached(place, trail, there) ==
  LET gone[n \in Len(trail) .. Len(there)] ==
        IF n = Len(trail) THEN place ELSE GotoChild(store, gone[n - 1], there[n])
  IN  gone[Len(there)]

\* what successful_match returns for an expression: of a creation with a body
\* the body, and what the creation is wrapped in
Record(st, scout, at) ==
  LET node == NodeAlways(st, scout)
      last == Len(Children(node))
      isCreation == Kind(node) = "ObjectCreationExpression"
      wrapped == isCreation /\ Kind(NodeAlways(st, Up(st, scout))) \in Wrappers
      ref == IF wrapped THEN Up(st, scout).root ELSE scout.root
      place == IF wrapped THEN Front(at) ELSE at
  IN  IF isCreation /\ Kind(Children(node)[last]) = "ClassBody"
        THEN \E body \in {GotoChild(st, scout, last)} :
               /\ store' = Pushed(st, body)
               /\ refs' = refs \o <<Landed(st, body).root, ref>>
               /\ found' = found \o <<Append(at, last), place>>
      ELSE /\ store' = st
           /\ refs' = Append(refs, ref)
           /\ found' = Append(found, place)

\* successful_match, of a scout that went from a place to a match below it:
\* relax_to_type and relax_to_typed climb from there, or do not want it
Matching(place, trail) ==
  \E there \in {t \in Trails : IsPrefix(trail, t)}, ups \in 0 .. MaxUps :
    /\ ups < Len(there)
    /\ SubSeq(there, 1, Len(there) - ups) \in TrailsInFiles
    /\ \E reached \in {Reached(place, trail, there)} :
       \E st \in {Pushed(store, reached)} :
         \/ store' = st /\ UNCHANGED <<refs, found>>
         \/ \E relaxed \in {Stepped(Landed(store, reached), ups, st)} :
              Record(st, relaxed, SubSeq(there, 1, Len(there) - ups))

\* the search goes on as s after find_all was given a place
Searching(s, place, trail) ==
  /\ \/ /\ search' = s
        /\ UNCHANGED <<store, refs, found>>
     \/ /\ search.matches < MaxMatches[tree]
        /\ search' = [s EXCEPT !.matches = @ + 1]
        /\ Matching(place, trail)
  /\ searched' = searched \cup {trail}
  /\ UNCHANGED <<tree, iterators, decl, written, panicked>>

GoingOn(s) ==
  /\ search' = s
  /\ UNCHANGED <<tree, iterators, decl, store, refs, found, searched, written,
                 panicked>>
-----------------------------------------------------------------------------
Init ==
  /\ tree \in DOMAIN Trees
  /\ modules = Iterator(New(Root))
  /\ folders = << >>
  /\ declarations = Exhausted
  /\ decl = << >>
  /\ search = Idle
  /\ store = << >>
  /\ refs = << >>
  /\ found = << >>
  /\ searched = {}
  /\ written = << >>
  /\ panicked = FALSE

(* The iterators.  None moves while what it gave is not done with.         *)

ModulesMove == ~panicked /\ folders = << >> /\ ~IsOver(modules)

ClimbModules ==
  /\ ModulesMove
  /\ Top(modules).open
  /\ \E climbed \in {Climb(modules)} :
       /\ modules' = climbed
       /\ panicked' = ~(Agrees(modules) /\ Check(climbed.path))
  /\ UNCHANGED <<tree, folders, declarations, decl, finder, written>>

StartOn(fs) ==
  /\ folders' = fs
  /\ declarations' = IF fs = << >> THEN Exhausted ELSE Iterator(fs[1].path)

LookForModule ==
  /\ ModulesMove
  /\ ~Top(modules).open
  /\ modules' = Look(modules, OutOfModules(Top(modules).node))
  /\ IF OutOfModules(Top(modules).node) \/ ~IsModule(Top(modules).node)
       THEN UNCHANGED <<folders, declarations>>
       ELSE StartOn(MavenModuleFolders(modules.path))
  /\ UNCHANGED <<tree, decl, finder, written, panicked>>

NextFolder ==
  /\ ~panicked /\ folders # << >> /\ IsOver(declarations) /\ decl = << >>
  /\ StartOn(Tail(folders))
  /\ UNCHANGED <<tree, modules, decl, finder, written, panicked>>

DeclarationsMove == ~panicked /\ decl = << >> /\ ~IsOver(declarations)

ClimbDeclarations ==
  /\ DeclarationsMove
  /\ Top(declarations).open
  /\ \E climbed \in {Climb(declarations)} :
       /\ declarations' = climbed
       /\ panicked' = ~(Agrees(declarations) /\ Check(climbed.path))
  /\ UNCHANGED <<tree, modules, folders, decl, finder, written>>

LookForDeclaration ==
  /\ DeclarationsMove
  /\ ~Top(declarations).open
  /\ declarations' = Look(declarations, Kind(Top(declarations).node) \in Ignored)
  /\ decl' = IF Declares(declarations.path) THEN declarations.path ELSE << >>
  /\ UNCHANGED <<tree, modules, folders, finder, written, panicked>>

\* find_declaration_references knows no search for it
Unsearched ==
  /\ ~panicked /\ decl # << >> /\ search = Idle
  /\ ~IsType /\ ~IsBody /\ ~IsLocal
  /\ decl' = << >>
  /\ UNCHANGED <<tree, iterators, finder, written, panicked>>

(* find_type_declaration_references, find_localvar_declaration_references  *)
(* and find_this: all start from a store of their own.                     *)

\* extract_identifier: the resource of a try statement may be a field, which
\* has no name of its own.  All other declarations have their name, by the
\* grammar; trees may leave it out.
Nameless(n) ==
  Kind(n) = "Resource" /\ \A c \in ToSet(Children(n)) : Kind(c) # "Identifier"

\* the unwrap in init_localvar_decl
StopAtNameless ==
  /\ decl # << >> /\ search = Idle /\ ~panicked
  /\ Nameless(NodeOf(decl))
  /\ panicked' = TRUE
  /\ UNCHANGED <<tree, iterators, decl, finder, written>>

BeginSearch ==
  /\ decl # << >> /\ search = Idle /\ ~panicked
  /\ IsType \/ IsBody \/ IsLocal
  /\ ~Nameless(NodeOf(decl))
  /\ LET fresh == NewStore(Root)
         scout == ScoutOf(decl)
     IN  \E st \in {IF IsBody THEN fresh ELSE Pushed(fresh, scout)},
            on \in {IF IsBody THEN scout ELSE Landed(fresh, scout)} :
         \E cursor \in {CursorAbove(st, Idle, on)} :
           /\ store' = st
           /\ search' = IF IsType THEN [cursor EXCEPT !.stage = "own"]
                        ELSE IF IsBody THEN [cursor EXCEPT !.stage = "this"]
                        ELSE [PassLists(st, cursor) EXCEPT !.stage = "block"]
  /\ UNCHANGED <<tree, iterators, decl, refs, found, searched, written, panicked>>

(* The loops over children, of the declaration or of the cursor's node.    *)

OfDecl == search.stage \in {"own", "this"}
Scanning == OfDecl \/ search.stage \in
              {"block", "body", "enum", "program", "package", "directories"}
Scanned == IF OfDecl THEN NodeOf(decl) ELSE search.curr
ScannedFrom == IF OfDecl THEN ScoutOf(decl) ELSE search.scout
ScannedAt == IF OfDecl THEN TrailOf(decl) ELSE search.at
MoreToScan == search.next <= Len(Children(Scanned))
Child == Children(Scanned)[search.next]

Wanted ==
  CASE OfDecl                     -> TRUE
    [] search.stage = "program"   -> Kind(Child) \in TypeDeclarations
    [] OTHER                      -> Child # search.prev

SearchChild ==
  /\ ~panicked /\ Scanning /\ MoreToScan /\ Wanted
  /\ Searching([search EXCEPT !.next = @ + 1],
               GotoChild(store, ScannedFrom, search.next),
               Append(ScannedAt, search.next))

\* remake_pkg_ref finds the name of a package where there is no annotation
\* or comment before it, and none of its dots has a space or a comment
PackageNames ==
  [t \in DOMAIN Trees |->
     LET T == Trees[t]
         named[n \in DOMAIN T] ==
           CASE T[n].kind = "Identifier" -> TRUE
             [] T[n].kind = "PackageDeclaration" -> named[T[n].children[3]]
             [] T[n].kind = "ScopedAbsoluteIdentifier" ->
                  /\ named[T[n].children[1]]
                  /\ T[T[n].children[3]].kind \in {"Identifier", "Comment"}
             [] OTHER -> FALSE
     IN  {n \in DOMAIN T : named[n]}]

NamelessPackage(n) == Kind(n) = "PackageDeclaration" /\ n \notin PackageNames[tree]

\* go_through_program cannot go on with such a package
Blocking == search.stage = "program" /\ NamelessPackage(Child)

SkipChild ==
  /\ ~panicked /\ Scanning /\ MoreToScan /\ ~Wanted /\ ~Blocking
  /\ GoingOn([search EXCEPT !.next = @ + 1])

After(stage) == ~panicked /\ search.stage = stage /\ ~MoreToScan
To(stage, s) == [s EXCEPT !.stage = stage, !.next = 1]
Over(outcome) == [search EXCEPT !.stage = "over", !.outcome = outcome]
Outward == CursorUp(store, search)

(* Outward from a type declaration: go_through_type_declarations, and once *)
(* more (again) with the qualified name and another cursor.                *)

LeavePackageNameless ==
  /\ ~panicked /\ Scanning /\ MoreToScan /\ Blocking
  /\ GoingOn(Over("blocked"))

AmongTypes(kinds) == ~panicked /\ search.stage = "types" /\ Kind(search.curr) \in kinds

LeaveOwn == After("own") /\ GoingOn(To("types", search))

EnterBody == AmongTypes(TypeBodies) /\ GoingOn(To("body", search))

LeaveCreation ==
  /\ After("body") /\ Kind(Outward.curr) = "ObjectCreationExpression"
  /\ GoingOn(Over("blocked"))

EnterEnum ==
  /\ After("body") /\ Kind(Outward.curr) = "EnumBody"
  /\ GoingOn(To("enum", Outward))

\* the declaration around the body is given to find_all as a whole
LeaveType ==
  /\ After("body") \/ After("enum")
  /\ Kind(Outward.curr) \in TypeDeclarations
  /\ Searching(To("types", CursorUp(store, Outward)), Outward.scout, Outward.at)

Innards == {"Block", "ConstructorBody"}
Blockers == Innards \cup {"ObjectCreationExpression"}

\* one search of the whole block for each child that skip(prev_offset) leaves,
\* then the end; prev_offset is that of the declaration in its own parent
LeaveBlockOfType ==
  /\ AmongTypes(Blockers)
  /\ IF Kind(search.curr) \in Innards
        /\ Last(decl).offset <= Len(Children(search.curr))
       THEN Searching(Over("blocked"), search.scout, search.at)
       ELSE GoingOn(Over("blocked"))

\* panic!: the body is that of a record
StopAtBody ==
  /\ After("body") \/ After("enum")
  /\ Kind(Outward.curr) \notin
       TypeDeclarations \cup IF search.stage = "enum" THEN {}
                            ELSE {"ObjectCreationExpression", "EnumBody"}
  /\ panicked' = TRUE
  /\ UNCHANGED <<tree, iterators, decl, finder, written>>

\* todo!
StopAtOther ==
  /\ ~panicked /\ search.stage = "types"
  /\ Kind(search.curr) \notin TypeBodies \cup {"Program"} \cup Blockers
  /\ panicked' = TRUE
  /\ UNCHANGED <<tree, iterators, decl, finder, written>>

EnterProgram ==
  /\ AmongTypes({"Program"})
  /\ IF search.again THEN GoingOn(To("package", [search.saved[1] EXCEPT !.matches = search.matches]))
     ELSE GoingOn(To("program", search))

LeaveProgram ==
  /\ After("program")
  /\ GoingOn([CursorAbove(store, search, ScoutOf(decl)) EXCEPT
                !.stage = "types", !.again = TRUE, !.saved = <<Outward>>])

NextDirectory == IF Outward.curr = 0 THEN Over("nomore") ELSE To("directories", Outward)

LeavePackage == After("package") /\ GoingOn(NextDirectory)

\* the folder of the declaration
Limit == NodeOf(folders[1].path)

\* mutant: the limit is looked for above the directory
LeaveDirectoriesAbove ==
  /\ After("directories")
  /\ GoingOn(IF search.prev = Limit THEN To("folders", search)
             ELSE NextDirectory)

LeaveDirectories ==
  /\ After("directories")
  /\ GoingOn(IF search.curr = Limit THEN To("folders", search)
             ELSE NextDirectory)

\* go_through_folders gives find_all the folder for each of its children, but
\* for one that is the node the cursor came from
AmongOthers ==
  /\ ~panicked /\ search.stage = "folders" /\ folders[1].others # << >>
  /\ search.next <= Len(Children(NodeOf(folders[1].others[1])))
OtherChild == Children(NodeOf(folders[1].others[1]))[search.next]

SearchFolder ==
  /\ AmongOthers /\ OtherChild # search.prev
  /\ LET other == folders[1].others[1]
     IN  Searching([search EXCEPT !.next = @ + 1], ScoutOf(other), TrailOf(other))

SkipFolder ==
  /\ AmongOthers /\ OtherChild = search.prev
  /\ GoingOn([search EXCEPT !.next = @ + 1])

LeaveFolders ==
  /\ ~panicked /\ search.stage = "folders"
  /\ folders[1].others # << >> =>
       search.next > Len(Children(NodeOf(folders[1].others[1])))
  /\ GoingOn(Over("ok"))

LeaveBlock ==
  /\ After("block")
  /\ GoingOn(IF Kind(search.curr) \in
                  {"ResourceSpecification", "EnhancedForStatement", "TypeParameters"}
             THEN To("block", PassLists(store, Outward))
             ELSE Over("ok"))

LeaveThis == After("this") /\ GoingOn(Over("ok"))

\* ends_positions, and the next declaration
EndSearch ==
  /\ ~panicked /\ search.stage = "over"
  /\ written' = Append(written, TrailOf(decl))
  /\ decl' = << >>
  /\ search' = Idle
  /\ store' = << >>
  /\ refs' = << >>
  /\ found' = << >>
  /\ searched' = {}
  /\ UNCHANGED <<tree, iterators, panicked>>

Iterate ==
  \/ ClimbModules \/ LookForModule \/ NextFolder
  \/ ClimbDeclarations \/ LookForDeclaration \/ Unsearched

GoThrough ==
  \/ StopAtNameless \/ BeginSearch \/ SearchChild \/ SkipChild \/ LeaveOwn
  \/ EnterBody \/ LeaveCreation \/ EnterEnum \/ LeaveType \/ LeaveBlockOfType
  \/ StopAtBody \/ StopAtOther \/ LeavePackageNameless \/ EnterProgram
  \/ LeaveProgram \/ LeavePackage \/ LeaveDirectories \/ SearchFolder \/ SkipFolder
  \/ LeaveFolders \/ LeaveBlock \/ LeaveThis \/ EndSearch

Next == Iterate \/ GoThrough

Spec == Init /\ [][Next]_vars

\* write_referencial_relations is one loop that nothing suspends
FairSpec == Spec /\ WF_vars(Next)
-----------------------------------------------------------------------------
IsPath(path) == \A i \in DOMAIN path : path[i].node \in Nodes /\ path[i].offset \in Nat
IsFrame(f) == f.node \in Nodes /\ f.next \in 0 .. Len(Children(f.node))
IsIterator(it) == IsPath(it.path) /\ \A i \in DOMAIN it.stack : IsFrame(it.stack[i])

\* Iterators stay in the tree, entries have their parents before them, and
\* there is a store exactly while a declaration is searched.
TypeOK ==
  /\ tree \in DOMAIN Trees
  /\ IsIterator(modules) /\ IsIterator(declarations) /\ IsPath(decl)
  /\ \A h \in DOMAIN store :
       /\ store[h].node \in Nodes
       /\ store[h].parent \in 1 .. h /\ (h > 1 => store[h].parent < h)
  /\ (store = << >>) = (search = Idle)
  /\ store # << >> => /\ decl # << >>
                      /\ search.scout.root \in DOMAIN store
                      /\ IsPath(search.scout.path)
  /\ search.curr \in Nodes \cup {0} /\ search.prev \in Nodes \cup {0}
  /\ Len(refs) = Len(found) /\ \A i \in DOMAIN refs : refs[i] \in DOMAIN store
  /\ panicked \in BOOLEAN

\* The handles of the references and the cursor are still at the places they
\* were found at and walked to, though the store has grown and nodes do not
\* tell one place from another.
TrailsRight ==
  /\ \A i \in DOMAIN refs : HandleTrail(store, refs[i]) = found[i]
  /\ search # Idle => ScoutTrail(store, search.scout) = search.at

\* The file, offset and length written for a declaration and for a reference
\* are those of its place in the text, though the nodes on the way may be
\* shared and the store has grown since (make_position, ends_positions); so
\* is the position of the cursor.
PositionsRight ==
  /\ TrailsRight
  /\ decl # << >> => PathPosition(decl) = PositionAt(TrailOf(decl))
  /\ \A i \in DOMAIN refs : HandlePosition(store, refs[i]) = PositionAt(found[i])
  /\ search # Idle /\ search.curr # 0 =>
       ScoutPosition(store, search.scout) = PositionAt(search.at)

\* the trail of the nearest place around one that passes a test
Nearest(trail, Test(_)) ==
  LET around == {t \in Above(Front(trail)) : Test(t)}
  IN  CHOOSE t \in around : \A u \in around : Len(u) <= Len(t)

\* the place that a type stands in, the types around it included
IsGround(trail) == Kind(At(trail)) \notin TypeBodies \cup TypeDeclarations
Ground(trail) == Nearest(trail, IsGround)

\* The declarations whose search panics: a resource that is a field, and a type
\* that stands, with the types around it, in something else than a file, a
\* block or the body of a creation: in a record, or in a switch or below
\* another statement without braces.
Stops(trail) ==
  \/ Nameless(At(trail))
  \/ /\ Kind(At(trail)) \in SearchedTypes
     /\ Kind(At(Ground(trail))) \notin {"Program"} \cup Blockers

\* Every check and check_with of the walk answers Ok and the assertions of the
\* iterators hold: every path names, at each step, a child of the node before,
\* with its offset.  Of the panics of the walk (its unwrap of a name, its two
\* panic! of a body, its todo!) none is met but for a declaration that Stops.
\* The panics inside find_all and the solver are not those of the walk.
AlwaysLinked ==
  /\ Check(modules.path) /\ Check(declarations.path) /\ Check(decl)
  /\ search # Idle => StoreCheck(store) /\ CheckWith(store, search.scout)
  /\ panicked => decl # << >> /\ Stops(TrailOf(decl))

FolderTrails ==
  {TrailOf(folders[1].path)} \cup {TrailOf(o) : o \in ToSet(folders[1].others)}

IsInnards(trail) ==
  \/ Kind(At(trail)) \in Innards
  \/ /\ trail # << >> /\ Kind(At(trail)) = "ClassBody"
     /\ Kind(At(Front(trail))) = "ObjectCreationExpression"

IsNotList(trail) ==
  Kind(At(trail)) \notin
    ParameterLists \cup {"ResourceSpecification", "TypeParameters",
                        "SwitchBlockStatementGroup"}

\* The leaves where the name of the declaration may be used.  A type that stands
\* in a file is known to the types of the file and all over its folder and the
\* test folder, one that stands in a block or a creation only there.  A local is
\* known in the place around it, or around its list, its own initializer or
\* bound included.  What is before the types of the file (its imports), and the
\* other parameters of a list, may name it but are left out.
Scope ==
  LET trail == TrailOf(decl)
      file == CHOOSE t \in FileAt(trail) : TRUE
      Beneath(t) == {leaf \in Leaves : IsPrefix(t, leaf)}
  IN  CASE IsType /\ Kind(At(Ground(trail))) = "Program" ->
             {leaf \in UNION {Beneath(f) : f \in FolderTrails} :
                IsPrefix(file, leaf) =>
                  Kind(At(SubSeq(leaf, 1, Len(file) + 1))) \in TypeDeclarations}
        [] IsType /\ Kind(At(Ground(trail))) # "Program" ->
             Beneath(Nearest(trail, IsInnards))
        [] IsBody -> Beneath(trail)
        [] IsLocal ->
             Beneath(Nearest(trail, IsNotList))
             \ (IF Kind(At(Front(trail))) \in ParameterLists
                  THEN Beneath(Front(trail)) ELSE {})

\* The leaf is below a sibling that is the same node as the way to the
\* declaration: the walk tells them apart by their nodes, not their offsets.
Twin(leaf, trail) ==
  \E n \in 1 .. Len(trail) :
    /\ n <= Len(leaf)
    /\ SubSeq(leaf, 1, n - 1) = SubSeq(trail, 1, n - 1) /\ leaf[n] # trail[n]
    /\ At(SubSeq(leaf, 1, n)) = At(SubSeq(trail, 1, n))

\* The leaf is in the other folder, and that has nothing but the node in which
\* the declaration is in its own folder: go_through_folders skips what is equal.
TwinFolder(leaf) ==
  \E o \in ToSet(folders[1].others) :
    /\ IsPrefix(TrailOf(o), leaf)
    /\ \A child \in ToSet(Children(NodeOf(o))) :
         child = At(SubSeq(TrailOf(decl), 1, Len(folders[1].path)))

\* The walk out of the types ends with them: the block has no more children than
\* the first type has before it in its own parent, or the package of the file
\* has no name that remake_pkg_ref finds.
CutShort(trail) ==
  LET ground == At(Ground(trail))
  IN  IF Kind(ground) = "Program" THEN \E c \in ToSet(Children(ground)) : NamelessPackage(c)
      ELSE Kind(ground) \in Innards /\ Len(Children(ground)) < Last(trail)

\* What the walk from a declaration never looks at: of a type whose walk is cut
\* short, all but the outermost type around it; of a local, its own initializer
\* or bound, and what is outside its group of a switch.
PassedOver(leaf, trail) ==
  \/ IsType /\ CutShort(trail) /\ ~IsPrefix(SubSeq(trail, 1, Len(Ground(trail)) + 1), leaf)
  \/ IsLocal /\ IsPrefix(trail, leaf)
  \/ IsLocal /\ Kind(At(Front(trail))) = "SwitchBlockStatementGroup"
            /\ ~IsPrefix(Front(trail), leaf)

\* A search that is over has given find_all every place where the declared
\* name may be used, but for twins and the three gaps of PassedOver (the walk
\* outward, its skips, stops and errors).
ScopeCovered ==
  search.stage = "over" /\ search.outcome # "nomore" =>
    \A leaf \in Scope :
      \/ \E t \in searched : IsPrefix(t, leaf)
      \/ Twin(leaf, TrailOf(decl))
      \/ TwinFolder(leaf)
      \/ PassedOver(leaf, TrailOf(decl))

\* The search for a type of a package below the source folder never leaves
\* its source folder and the other one, and does not run out of parents.
LimitHonoured ==
  LET file == CHOOSE t \in FileAt(TrailOf(decl)) : TRUE
  IN  search # Idle /\ IsType /\ Front(file) # TrailOf(folders[1].path) =>
        /\ \A t \in searched : \E f \in FolderTrails : IsPrefix(f, t)
        /\ search.outcome # "nomore"

\* The declarations that have to be searched in each tree: those in a source
\* folder of a module, a directory with a pom.xml that is not below a src.
Expected ==
  [n \in DOMAIN Trees |->
    LET trails == DOMAIN Places[n].node
        KindAt(t) == Trees[n][Places[n].node[t]].kind
        LabelAt(t) == Trees[n][Places[n].node[t]].label
        poms == {t \in trails : KindAt(t) = "xml_SourceFile" /\ LabelAt(t) = "pom.xml"}
        homes == {m \in {Front(t) : t \in poms} : \A u \in Above(m) : LabelAt(u) # "src"}
        folder == {t \in trails :
                     \E m \in homes, names \in ToSet(SourceFolders) :
                       /\ IsPrefix(m, t) /\ Len(t) = Len(m) + 3
                       /\ \A i \in 1 .. 3 :
                            LabelAt(SubSeq(t, 1, Len(m) + i)) = names[i]}
    IN  {t \in trails \ {<< >>} :
           /\ \E f \in folder : IsPrefix(f, t)
           /\ LET kind == KindAt(t)
                  parent == KindAt(Front(t))
              IN  \/ kind \in Parameters
                  \/ kind \in TypeDeclarations \ {"EnumDeclaration", "EnumConstant"}
                  \/ kind \in {"LocalVariableDeclaration", "EnhancedForVariable"}
                  \/ kind = "ClassBody" /\ parent = "ObjectCreationExpression"
                  \/ kind = "Identifier" /\ parent = "InferredParameters"
                  \/ kind = "Identifier" /\ parent = "LambdaExpression" /\ Last(t) = 1}]

\* Every declaration of every module is searched and written, once for each
\* place it is at, unless one of them stops the walk; then it stops there.
AllSearched ==
  <>(\/ /\ IsOver(modules) /\ folders = << >>
        /\ IsInjective(written) /\ ToSet(written) = Expected[tree]
        /\ \A trail \in Expected[tree] : ~Stops(trail)
     \/ panicked /\ Stops(TrailOf(decl)))
=============================================================================
