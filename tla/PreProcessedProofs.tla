------------------------- MODULE PreProcessedProofs -------------------------
(***************************************************************************)
(* What the caches of a PreProcessedRepository are trusted for, for every  *)
(* history of commits: entities and stacks are well formed, a directory of *)
(* sources lists its children under their own names, and the assertions on *)
(* names that a cached object meets fail for namesakes of a source         *)
(* directory only.                                                         *)
(***************************************************************************)
EXTENDS PreProcessed, Induction, SequenceTheorems

(***************************************************************************)
(* Stacks                                                                  *)
(***************************************************************************)

(* The top of a stack, and a stack with another one.                       *)
LEMMA StackTop ==
  ASSUME NEW S, NEW s \in Seq(S), s # << >>, NEW a \in S
  PROVE  /\ Len(s) \in DOMAIN s /\ Last(s) = s[Len(s)] /\ Last(s) \in S
         /\ OnTop(s, a) \in Seq(S) /\ OnTop(s, a) # << >>
         /\ DOMAIN OnTop(s, a) = DOMAIN s /\ Len(OnTop(s, a)) = Len(s)
         /\ \A d \in DOMAIN s : OnTop(s, a)[d] = IF d = Len(s) THEN a ELSE s[d]
<1>1. Len(s) \in Nat \ {0} /\ DOMAIN s = 1 .. Len(s)
  BY EmptySeq, LenProperties
<1>2. Len(s) \in 1 .. Len(s)
  BY <1>1
<1>3. /\ OnTop(s, a) \in Seq(S) /\ Len(OnTop(s, a)) = Len(s)
      /\ \A d \in 1 .. Len(s) : OnTop(s, a)[d] = IF d = Len(s) THEN a ELSE s[d]
  BY <1>2, ExceptSeq DEF OnTop
<1>4. DOMAIN OnTop(s, a) = 1 .. Len(s)
  BY <1>3, LenProperties
<1>5. OnTop(s, a) # << >>
  BY <1>1, <1>3, EmptySeq
<1>6. Last(s) = s[Len(s)] /\ Last(s) \in S
  BY <1>2, ElementOfSeq DEF Last
<1>7. QED  BY <1>1, <1>2, <1>3, <1>4, <1>5, <1>6

LEMMA TopIn ==
  ASSUME NEW S, NEW s \in Seq(S), s # << >>
  PROVE  /\ Last(s) = s[Len(s)] /\ Len(s) \in DOMAIN s /\ Last(s) \in S
         /\ 1 \in DOMAIN s /\ Len(s) \in Nat \ {0} /\ DOMAIN s = 1 .. Len(s)
<1>1. Len(s) \in Nat \ {0} /\ DOMAIN s = 1 .. Len(s)
  BY EmptySeq, LenProperties
<1>2. Last(s) = s[Len(s)] /\ Len(s) \in DOMAIN s /\ 1 \in DOMAIN s
  BY <1>1 DEF Last
<1>3. s[Len(s)] \in S
  BY <1>1, <1>2, ElementOfSeq
<1>4. QED  BY <1>1, <1>2, <1>3

LEMMA StackPush ==
  ASSUME NEW S, NEW s \in Seq(S), NEW a \in S
  PROVE  /\ Append(s, a) \in Seq(S) /\ Append(s, a) # << >>
         /\ DOMAIN Append(s, a) = DOMAIN s \cup {Len(s) + 1}
         /\ Len(Append(s, a)) = Len(s) + 1
         /\ \A d \in DOMAIN s : Append(s, a)[d] = s[d]
         /\ Append(s, a)[Len(s) + 1] = a
<1>1. Append(s, a) \in Seq(S) /\ Len(Append(s, a)) = Len(s) + 1 /\ Len(s) \in Nat
  OBVIOUS
<1>2. Append(s, a) # << >>
  <2>1. Len(<< >>) = 0
    OBVIOUS
  <2>2. QED  BY <1>1, <2>1
<1>3. DOMAIN Append(s, a) = DOMAIN s \cup {Len(s) + 1}
  BY <1>1
<1>4. QED  BY <1>1, <1>2, <1>3

LEMMA StackPop ==
  ASSUME NEW S, NEW s \in Seq(S), s # << >>
  PROVE  /\ Front(s) \in Seq(S) /\ Len(Front(s)) = Len(s) - 1
         /\ DOMAIN Front(s) = DOMAIN s \ {Len(s)}
         /\ \A d \in DOMAIN Front(s) : Front(s)[d] = s[d]
<1>1. Len(s) \in Nat \ {0} /\ DOMAIN s = 1 .. Len(s)
  BY EmptySeq, LenProperties
<1>2. \A i \in 1 .. Len(s) - 1 : s[i] \in S
  BY <1>1, ElementOfSeq
<1>3. 1 \in Int /\ Len(s) - 1 \in Int
  BY <1>1
<1>4. /\ Front(s) \in Seq(S)
      /\ Len(Front(s)) = IF 1 <= Len(s) - 1 THEN Len(s) - 1 - 1 + 1 ELSE 0
      /\ \A i \in 1 .. Len(s) - 1 - 1 + 1 : Front(s)[i] = s[1 + i - 1]
  BY <1>2, <1>3, SubSeqProperties DEF Front
<1>5. Len(Front(s)) = Len(s) - 1 /\ \A i \in 1 .. Len(s) - 1 : Front(s)[i] = s[i]
  <2>1. PICK n \in Nat \ {0} : n = Len(s)
    BY <1>1
  <2>2. /\ (IF 1 <= n - 1 THEN n - 1 - 1 + 1 ELSE 0) = n - 1
        /\ n - 1 - 1 + 1 = n - 1 /\ \A i \in 1 .. n - 1 : 1 + i - 1 = i
    OBVIOUS
  <2>3. Len(Front(s)) = n - 1
    BY <1>4, <2>1, <2>2
  <2>4. \A i \in 1 .. n - 1 : Front(s)[i] = s[1 + i - 1]
    BY <1>4, <2>1, <2>2
  <2>5. QED  BY <2>1, <2>2, <2>3, <2>4
<1>6. DOMAIN Front(s) = 1 .. Len(s) - 1
  BY <1>4, <1>5, LenProperties
<1>7. 1 .. Len(s) - 1 = (1 .. Len(s)) \ {Len(s)}
  BY <1>1
<1>8. QED  BY <1>1, <1>4, <1>5, <1>6, <1>7

(* What is left to do after the first, and all but the entries done.       *)
LEMMA TailSeq ==
  ASSUME NEW S, NEW s \in Seq(S), s # << >>
  PROVE  Head(s) \in S /\ Tail(s) \in Seq(S)
OBVIOUS

(* Popped replaces the top by itself with the rest to do.                  *)
LEMMA PoppedTop ==
  ASSUME NEW S, NEW s \in Seq(S), s # << >>,
         [Last(s) EXCEPT !.todo = Tail(@)] \in S
  PROVE  /\ Popped(s) = OnTop(s, [Last(s) EXCEPT !.todo = Tail(@)])
         /\ Last(Popped(s)) = [Last(s) EXCEPT !.todo = Tail(@)]
<1>1. Last(s) = s[Len(s)]
  BY DEF Last
<1>2. Popped(s) = OnTop(s, [Last(s) EXCEPT !.todo = Tail(@)])
  BY <1>1 DEF Popped, OnTop
<1>3. PICK a \in S : a = [Last(s) EXCEPT !.todo = Tail(@)]
  OBVIOUS
<1>4. Last(OnTop(s, a)) = a
  BY StackTop DEF Last
<1>5. QED  BY <1>2, <1>3, <1>4

(* Changing the top of what was popped.                                    *)
LEMMA OnTopTwice ==
  ASSUME NEW S, NEW s \in Seq(S), s # << >>, NEW a \in S, NEW b \in S
  PROVE  OnTop(OnTop(s, a), b) = OnTop(s, b)
<1>1. Len(OnTop(s, a)) = Len(s) /\ OnTop(s, a) \in Seq(S) /\ OnTop(s, a) # << >>
  BY StackTop
<1>2. QED  BY <1>1 DEF OnTop

(***************************************************************************)
(* Types of what is accumulated                                            *)
(***************************************************************************)

\* what is left of the source directories on the way to them
DirPaths ==
  {<<"src", "main", "java">>, <<"src", "test", "java">>,
   <<"main", "java">>, <<"test", "java">>, <<"java">>}

\* names of entries, and those that are given to roots and files
Names == EntryNames \cup {"", "pom.xml"}

MavenAccs ==
  [tree : Trees, todo : Seq(Entries), name : Names, names : Seq(Names),
   children : Seq(Nat), dirs : SUBSET DirPaths]

JavaAccs ==
  [tree : Trees, todo : Seq(Entries), name : Names, names : Seq(Names),
   children : Seq(Nat), ana : Analyses, skiped : BOOLEAN]

Entities ==
  [kind : {"file", "Directory", "MavenDirectory"}, name : Names,
   names : Seq(Names), children : Seq(Nat), blob : Blobs \cup {None},
   refs : (SUBSET Symbols) \cup {Much}]

\* what object_map_java has of an object
Mades == [id : Nat, ana : Analyses, skiped : BOOLEAN]

(* Every entry of a tree is explored, in some order.                       *)
LEMMA ExplorationType ==
  ASSUME NEW tree \in Seq(Entries), NEW rest
  PROVE  Exploration(tree, rest) \in Seq(Entries)
<1> DEFINE poms == {i \in DOMAIN tree : IsPom(tree[i])}
           first == tree[CHOOSE p \in poms : TRUE]
           swapped == [i \in DOMAIN tree |->
                         IF i = 1 THEN first ELSE IF i \in poms THEN tree[1] ELSE tree[i]]
<1>1. DOMAIN tree = 1 .. Len(tree) /\ Len(tree) \in Nat
  BY LenProperties
<1>2. CASE rest = << >> /\ poms # {}
  <2>1. first \in Entries
    <3>1. (CHOOSE p \in poms : TRUE) \in poms
      BY <1>2
    <3>2. QED  BY <1>1, <3>1, ElementOfSeq
  <2>2. \A i \in 1 .. Len(tree) : tree[i] \in Entries /\ tree[1] \in Entries
    BY <1>1, ElementOfSeq
  <2> HIDE DEF first, poms
  <2>3. \A i \in 1 .. Len(tree) : swapped[i] \in Entries
    BY <1>1, <2>1, <2>2
  <2>4. swapped = [i \in 1 .. Len(tree) |-> swapped[i]]
    BY <1>1
  <2>5. swapped \in Seq(Entries)
    <3> HIDE DEF swapped
    <3>1. QED  BY <1>1, <2>3, <2>4
  <2>6. Exploration(tree, rest) = swapped
    BY <1>2 DEF Exploration, poms, first
  <2>7. QED  BY <2>5, <2>6
<1>3. CASE ~(rest = << >> /\ poms # {})
  <2>1. Exploration(tree, rest) = Reverse(tree)
    BY <1>3 DEF Exploration
  <2> DEFINE reversed == [i \in 1 .. Len(tree) |-> tree[(Len(tree) - i) + 1]]
  <2>2. \A i \in 1 .. Len(tree) : tree[(Len(tree) - i) + 1] \in Entries
    <3>1. \A i \in 1 .. Len(tree) : (Len(tree) - i) + 1 \in 1 .. Len(tree)
      BY <1>1
    <3>2. QED  BY <3>1, ElementOfSeq
  <2>3. \A i \in 1 .. Len(tree) : reversed[i] \in Entries
    BY <2>2
  <2>4. reversed = [i \in 1 .. Len(tree) |-> reversed[i]]
    OBVIOUS
  <2>5. reversed \in Seq(Entries)
    <3> HIDE DEF reversed
    <3>1. QED  BY <1>1, <2>3, <2>4
  <2>6. QED  BY <2>1, <2>5 DEF Reverse
<1>4. QED  BY <1>2, <1>3

(* What is left of source directories below a directory.                   *)
LEMMA DrainedType ==
  ASSUME NEW dirs \in SUBSET DirPaths, NEW name, << >> \notin Drained(dirs, name)
  PROVE  Drained(dirs, name) \in SUBSET DirPaths
<1>1. \A d \in DirPaths : Tail(d) \in DirPaths \cup {<< >>}
  <2>1. /\ Tail(<<"src", "main", "java">>) = <<"main", "java">>
        /\ Tail(<<"src", "test", "java">>) = <<"test", "java">>
    OBVIOUS
  <2>2. /\ Tail(<<"main", "java">>) = <<"java">>
        /\ Tail(<<"test", "java">>) = <<"java">>
        /\ Tail(<<"java">>) = << >>
    OBVIOUS
  <2>3. QED  BY <2>1, <2>2 DEF DirPaths
<1>2. QED  BY <1>1 DEF Drained

LEMMA MavenAccType ==
  ASSUME NEW tree \in Trees, NEW name \in Names, NEW rest,
         NEW dirs \in SUBSET DirPaths
  PROVE  /\ MavenAcc(tree, name, rest, dirs) \in MavenAccs
         /\ MavenAcc(tree, name, rest, dirs).names = << >>
         /\ MavenAcc(tree, name, rest, dirs).children = << >>
         /\ MavenAcc(tree, name, rest, dirs).name = name
         /\ MavenAcc(tree, name, rest, dirs).tree = tree
<1>1. tree \in Seq(Entries)
  BY ObjectsAssumption
<1>2. Exploration(tree, rest) \in Seq(Entries)
  BY <1>1, ExplorationType
<1>3. << >> \in Seq(Names) /\ << >> \in Seq(Nat)
  BY EmptySeq
<1>4. QED  BY <1>2, <1>3 DEF MavenAcc, MavenAccs

LEMMA JavaAccType ==
  ASSUME NEW tree \in Trees, NEW name \in Names
  PROVE  /\ JavaAcc(tree, name) \in JavaAccs
         /\ JavaAcc(tree, name).names = << >>
         /\ JavaAcc(tree, name).children = << >>
         /\ JavaAcc(tree, name).name = name
<1>1. tree \in Seq(Entries)
  BY ObjectsAssumption
<1>2. << >> \in Seq(Names) /\ << >> \in Seq(Nat) /\ NoAna \in Analyses
  BY EmptySeq DEF NoAna, Analyses
<1>3. QED  BY <1>1, <1>2 DEF JavaAcc, JavaAccs

(* An entry less to look at.                                               *)
LEMMA MavenRest ==
  ASSUME NEW acc \in MavenAccs, acc.todo # << >>
  PROVE  /\ [acc EXCEPT !.todo = Tail(@)] \in MavenAccs
         /\ [acc EXCEPT !.todo = Tail(@)].names = acc.names
         /\ [acc EXCEPT !.todo = Tail(@)].children = acc.children
         /\ [acc EXCEPT !.todo = Tail(@)].name = acc.name
         /\ [acc EXCEPT !.todo = Tail(@)].dirs = acc.dirs
         /\ Head(acc.todo) \in Entries
<1>1. acc.todo \in Seq(Entries)
  BY DEF MavenAccs
<1>2. Tail(acc.todo) \in Seq(Entries) /\ Head(acc.todo) \in Entries
  BY <1>1, TailSeq
<1>3. QED  BY <1>2 DEF MavenAccs

LEMMA JavaRest ==
  ASSUME NEW acc \in JavaAccs, acc.todo # << >>
  PROVE  /\ [acc EXCEPT !.todo = Tail(@)] \in JavaAccs
         /\ [acc EXCEPT !.todo = Tail(@)].names = acc.names
         /\ [acc EXCEPT !.todo = Tail(@)].children = acc.children
         /\ [acc EXCEPT !.todo = Tail(@)].name = acc.name
         /\ [acc EXCEPT !.todo = Tail(@)].ana = acc.ana
         /\ [acc EXCEPT !.todo = Tail(@)].skiped = acc.skiped
         /\ Head(acc.todo) \in Entries
<1>1. acc.todo \in Seq(Entries)
  BY DEF JavaAccs
<1>2. Tail(acc.todo) \in Seq(Entries) /\ Head(acc.todo) \in Entries
  BY <1>1, TailSeq
<1>3. QED  BY <1>2 DEF JavaAccs

(* A child more.                                                           *)
LEMMA MavenPushed ==
  ASSUME NEW acc \in MavenAccs, NEW name \in Names, NEW id \in Nat
  PROVE  /\ PushChild(acc, name, id) \in MavenAccs
         /\ PushChild(acc, name, id).names = Append(acc.names, name)
         /\ PushChild(acc, name, id).children = Append(acc.children, id)
         /\ PushChild(acc, name, id).name = acc.name
<1>1. acc.names \in Seq(Names) /\ acc.children \in Seq(Nat)
  BY DEF MavenAccs
<1>2. Append(acc.names, name) \in Seq(Names) /\ Append(acc.children, id) \in Seq(Nat)
  BY <1>1
<1>3. QED  BY <1>2 DEF PushChild, MavenAccs

LEMMA PomPushed ==
  ASSUME NEW acc \in MavenAccs, NEW id \in Nat
  PROVE  /\ PushPom(acc, id) \in MavenAccs
         /\ PushPom(acc, id).names = Append(acc.names, "pom.xml")
         /\ PushPom(acc, id).children = Append(acc.children, id)
         /\ PushPom(acc, id).name = acc.name
<1>1. SourceDirs \in SUBSET DirPaths
  BY DEF SourceDirs, DirPaths
<1> DEFINE pushed == PushChild(acc, "pom.xml", id)
<1>2. /\ pushed \in MavenAccs
      /\ pushed.names = Append(acc.names, "pom.xml")
      /\ pushed.children = Append(acc.children, id)
      /\ pushed.name = acc.name
  <2>1. PICK name \in Names : name = "pom.xml"
    BY DEF Names
  <2>2. /\ PushChild(acc, name, id) \in MavenAccs
        /\ PushChild(acc, name, id).names = Append(acc.names, name)
        /\ PushChild(acc, name, id).children = Append(acc.children, id)
        /\ PushChild(acc, name, id).name = acc.name
    BY MavenPushed
  <2>3. QED  BY <2>1, <2>2
<1>3. PushPom(acc, id) = [pushed EXCEPT !.dirs = SourceDirs]
  BY DEF PushPom
<1> HIDE DEF pushed
<1>4. QED  BY <1>1, <1>2, <1>3 DEF MavenAccs

LEMMA JavaPushed ==
  ASSUME NEW acc \in JavaAccs, NEW name \in Names, NEW made \in Mades
  PROVE  /\ Push(acc, name, made) \in JavaAccs
         /\ Push(acc, name, made).names = Append(acc.names, name)
         /\ Push(acc, name, made).children = Append(acc.children, made.id)
         /\ Push(acc, name, made).name = acc.name
<1>1. /\ acc.names \in Seq(Names) /\ acc.children \in Seq(Nat)
      /\ acc.ana \in Analyses /\ acc.skiped \in BOOLEAN
      /\ made.id \in Nat /\ made.ana \in Analyses /\ made.skiped \in BOOLEAN
  BY DEF JavaAccs, Mades
<1>2. /\ Append(acc.names, name) \in Seq(Names)
      /\ Append(acc.children, made.id) \in Seq(Nat)
  BY <1>1
<1> DEFINE skip == EstimatedRefs(made.ana) >= MaxRefs \/ made.skiped \/ acc.skiped
           both == [refs |-> acc.ana.refs \cup made.ana.refs,
                    decls |-> acc.ana.decls \cup made.ana.decls]
<1>3. both \in Analyses
  BY <1>1 DEF Analyses
<1>4. Push(acc, name, made) =
        [PushChild(acc, name, made.id) EXCEPT
           !.skiped = skip, !.ana = IF skip THEN acc.ana ELSE both]
  BY DEF Push, PushChild, JavaAccs
<1>5. skip \in BOOLEAN
  OBVIOUS
<1> HIDE DEF skip, both
<1>6. /\ PushChild(acc, name, made.id) \in JavaAccs
      /\ PushChild(acc, name, made.id).names = Append(acc.names, name)
      /\ PushChild(acc, name, made.id).children = Append(acc.children, made.id)
      /\ PushChild(acc, name, made.id).name = acc.name
  BY <1>2 DEF PushChild, JavaAccs
<1>7. (IF skip THEN acc.ana ELSE both) \in Analyses
  BY <1>1, <1>3
<1>8. QED
  <2> DEFINE pushed == PushChild(acc, name, made.id)
             ana == IF skip THEN acc.ana ELSE both
  <2>1. Push(acc, name, made) = [pushed EXCEPT !.skiped = skip, !.ana = ana]
    BY <1>4
  <2>2. ana \in Analyses
    BY <1>7
  <2> HIDE DEF pushed, ana
  <2>3. QED  BY <1>5, <1>6, <2>1, <2>2 DEF JavaAccs, pushed

(***************************************************************************)
(* Children                                                                *)
(***************************************************************************)

\* ns2 has the entities of ns, at the same places
Grows(ns, ns2) ==
  DOMAIN ns \subseteq DOMAIN ns2 /\ \A i \in DOMAIN ns : ns2[i] = ns[i]

\* a directory that is accumulated or made has as many names as children
Listed(ns, dir) ==
  /\ Len(dir.names) = Len(dir.children)
  /\ \A k \in DOMAIN dir.children : dir.children[k] \in DOMAIN ns

\* the names are those of the children
Named(ns, dir) ==
  \A k \in DOMAIN dir.children : ns[dir.children[k]].name = dir.names[k]

\* all: the directories that modules are searched in name their children too
NodesOK(ns, all) ==
  /\ ns \in Seq(Entities)
  /\ \A i \in DOMAIN ns :
       /\ Len(ns[i].names) = Len(ns[i].children)
       /\ Range(ns[i].children) \subseteq 1 .. i - 1
       /\ all \/ ns[i].kind # "MavenDirectory" => Named(ns, ns[i])

MavenOK(ns, stack, all) ==
  /\ stack \in Seq(MavenAccs)
  /\ \A d \in DOMAIN stack : Listed(ns, stack[d]) /\ (all => Named(ns, stack[d]))

JavaOK(ns, stack) ==
  /\ stack \in Seq(JavaAccs)
  /\ \A d \in DOMAIN stack : Listed(ns, stack[d]) /\ Named(ns, stack[d])

\* only directories of modules are in object_map, only pom.xml in the other
MapsOK(ns, modules, poms) ==
  /\ \A o \in DOMAIN modules :
       modules[o] \in DOMAIN ns /\ ns[modules[o]].kind = "MavenDirectory"
  /\ \A o \in DOMAIN poms :
       poms[o] \in DOMAIN ns /\ ns[poms[o]].name = "pom.xml"

MadesOK(ns, mades) ==
  \A k \in DOMAIN mades : mades[k] \in Mades /\ mades[k].id \in DOMAIN ns

LEMMA GrowsTwice ==
  ASSUME NEW ns, NEW ns2, NEW ns3, Grows(ns, ns2), Grows(ns2, ns3)
  PROVE  Grows(ns, ns3)
BY DEF Grows

LEMMA GrowsByOne ==
  ASSUME NEW ns \in Seq(Entities), NEW e \in Entities
  PROVE  /\ Append(ns, e) \in Seq(Entities) /\ Grows(ns, Append(ns, e))
         /\ DOMAIN Append(ns, e) = DOMAIN ns \cup {Len(ns) + 1}
         /\ Len(ns) + 1 \in Nat /\ Len(ns) + 1 \notin DOMAIN ns
         /\ DOMAIN ns = 1 .. Len(ns)
         /\ Append(ns, e)[Len(ns) + 1] = e
<1>1. DOMAIN ns = 1 .. Len(ns) /\ Len(ns) \in Nat
  BY LenProperties
<1>2. QED  BY <1>1, StackPush DEF Grows

(* What is listed and named stays so.                                      *)
LEMMA ListedStays ==
  ASSUME NEW ns, NEW ns2, Grows(ns, ns2), NEW dir, Listed(ns, dir)
  PROVE  /\ Listed(ns2, dir)
         /\ Named(ns, dir) => Named(ns2, dir)
BY DEF Grows, Listed, Named

LEMMA OKStays ==
  ASSUME NEW ns, NEW ns2, Grows(ns, ns2)
  PROVE  /\ \A stack, all : MavenOK(ns, stack, all) => MavenOK(ns2, stack, all)
         /\ \A stack : JavaOK(ns, stack) => JavaOK(ns2, stack)
         /\ \A modules, poms : MapsOK(ns, modules, poms) => MapsOK(ns2, modules, poms)
         /\ \A mades : MadesOK(ns, mades) => MadesOK(ns2, mades)
<1>1. \A stack, all : MavenOK(ns, stack, all) => MavenOK(ns2, stack, all)
  BY ListedStays DEF MavenOK
<1>2. \A stack : JavaOK(ns, stack) => JavaOK(ns2, stack)
  BY ListedStays DEF JavaOK
<1>3. \A modules, poms : MapsOK(ns, modules, poms) => MapsOK(ns2, modules, poms)
  BY DEF MapsOK, Grows
<1>4. \A mades : MadesOK(ns, mades) => MadesOK(ns2, mades)
  BY DEF MadesOK, Grows
<1>5. QED  BY <1>1, <1>2, <1>3, <1>4

(* A child more, that is there.                                            *)
LEMMA ListedPushed ==
  ASSUME NEW ns, NEW dir, dir.names \in Seq(Names), dir.children \in Seq(Nat),
         Listed(ns, dir), NEW name \in Names, NEW id \in Nat, id \in DOMAIN ns,
         NEW pushed, pushed.names = Append(dir.names, name),
         pushed.children = Append(dir.children, id)
  PROVE  /\ Listed(ns, pushed)
         /\ Named(ns, dir) /\ ns[id].name = name => Named(ns, pushed)
<1>1. PICK n \in Nat : Len(dir.names) = n /\ Len(dir.children) = n
  BY LenProperties DEF Listed
<1>2. /\ DOMAIN dir.children = 1 .. n /\ DOMAIN dir.names = 1 .. n
      /\ DOMAIN pushed.children = (1 .. n) \cup {n + 1}
      /\ Len(pushed.children) = n + 1 /\ Len(pushed.names) = n + 1
      /\ pushed.children[n + 1] = id /\ pushed.names[n + 1] = name
      /\ \A k \in 1 .. n : /\ pushed.children[k] = dir.children[k]
                            /\ pushed.names[k] = dir.names[k]
  <2>1. DOMAIN dir.children = 1 .. n /\ DOMAIN dir.names = 1 .. n
    BY <1>1, LenProperties
  <2>2. QED  BY <1>1, <2>1, StackPush
<1>3. Listed(ns, pushed)
  BY <1>2 DEF Listed
<1>4. Named(ns, dir) /\ ns[id].name = name => Named(ns, pushed)
  BY <1>2 DEF Named
<1>5. QED  BY <1>3, <1>4

LEMMA RangeAppended ==
  ASSUME NEW s \in Seq(Nat), NEW id \in Nat
  PROVE  Range(Append(s, id)) = Range(s) \cup {id}
<1>1. /\ DOMAIN Append(s, id) = DOMAIN s \cup {Len(s) + 1}
      /\ \A d \in DOMAIN s : Append(s, id)[d] = s[d]
      /\ Append(s, id)[Len(s) + 1] = id
  BY StackPush
<1>2. QED  BY <1>1 DEF Range

(* An entity that is made of a directory, or of nothing.                   *)
LEMMA NodesGrow ==
  ASSUME NEW ns, NEW all, NodesOK(ns, all), NEW e \in Entities, Listed(ns, e),
         all \/ e.kind # "MavenDirectory" => Named(ns, e)
  PROVE  /\ NodesOK(Append(ns, e), all) /\ Grows(ns, Append(ns, e))
         /\ Len(ns) + 1 \in DOMAIN Append(ns, e) /\ Len(ns) + 1 \in Nat
         /\ Append(ns, e)[Len(ns) + 1] = e
<1> DEFINE ns2 == Append(ns, e)
<1>1. ns \in Seq(Entities)
  BY DEF NodesOK
<1>2. /\ ns2 \in Seq(Entities) /\ Grows(ns, ns2)
      /\ DOMAIN ns2 = DOMAIN ns \cup {Len(ns) + 1}
      /\ Len(ns) + 1 \in Nat /\ ns2[Len(ns) + 1] = e /\ DOMAIN ns = 1 .. Len(ns)
  BY <1>1, GrowsByOne
<1> HIDE DEF ns2
<1>3. ASSUME NEW i \in DOMAIN ns
      PROVE  /\ Len(ns2[i].names) = Len(ns2[i].children)
             /\ Range(ns2[i].children) \subseteq 1 .. i - 1
             /\ all \/ ns2[i].kind # "MavenDirectory" => Named(ns2, ns2[i])
  <2>1. /\ ns2[i] = ns[i] /\ Len(ns[i].names) = Len(ns[i].children)
        /\ Range(ns[i].children) \subseteq 1 .. i - 1
        /\ all \/ ns[i].kind # "MavenDirectory" => Named(ns, ns[i])
    BY <1>2, <1>3 DEF Grows, NodesOK
  <2>2. 1 .. i - 1 \subseteq DOMAIN ns
    BY <1>1, <1>2, <1>3, LenProperties
  <2>3. \A k \in DOMAIN ns[i].children : ns[i].children[k] \in DOMAIN ns
    BY <2>1, <2>2 DEF Range
  <2>4. Named(ns, ns[i]) => Named(ns2, ns[i])
    BY <1>2, <2>3 DEF Named, Grows
  <2>5. QED  BY <2>1, <2>4
<1>4. /\ Len(e.names) = Len(e.children)
      /\ Range(e.children) \subseteq 1 .. Len(ns) + 1 - 1
      /\ all \/ e.kind # "MavenDirectory" => Named(ns2, e)
  <2>1. Len(ns) + 1 - 1 = Len(ns)
    BY <1>1, LenProperties
  <2>2. Range(e.children) \subseteq 1 .. Len(ns)
    BY <1>2 DEF Listed, Range
  <2>3. QED  BY <1>2, <2>1, <2>2, ListedStays DEF Listed
<1>5. NodesOK(ns2, all)
  BY <1>2, <1>3, <1>4 DEF NodesOK
<1>6. QED  BY <1>2, <1>5 DEF ns2

(* A file is found or made.                                                *)
LEMMA FileInterned ==
  ASSUME NEW ns, NEW all, NodesOK(ns, all), NEW name \in Names, NEW blob \in Blobs
  PROVE  LET node == FileNode(name, blob) IN
         /\ NodesOK(Interned(ns, node), all) /\ Grows(ns, Interned(ns, node))
         /\ IdOf(ns, node) \in DOMAIN Interned(ns, node) /\ IdOf(ns, node) \in Nat
         /\ Interned(ns, node)[IdOf(ns, node)] = node
<1> DEFINE node == FileNode(name, blob)
<1>1. /\ node \in Entities /\ node.kind = "file"
      /\ node.names = << >> /\ node.children = << >>
  <2>1. << >> \in Seq(Names) /\ << >> \in Seq(Nat)
    BY EmptySeq
  <2>2. QED  BY <2>1 DEF FileNode, Entities
<1> HIDE DEF node
<1>2. Listed(ns, node) /\ Named(ns, node)
  <2>1. DOMAIN << >> = {}
    OBVIOUS
  <2>2. QED  BY <1>1, <2>1 DEF Listed, Named
<1>3. DOMAIN ns = 1 .. Len(ns) /\ Len(ns) \in Nat
  BY LenProperties DEF NodesOK
<1>4. CASE \E i \in DOMAIN ns : ns[i] = node
  <2>1. IdOf(ns, node) \in DOMAIN ns /\ ns[IdOf(ns, node)] = node
    BY <1>4 DEF IdOf
  <2>2. ~(IdOf(ns, node) > Len(ns)) /\ IdOf(ns, node) \in Nat
    BY <1>3, <2>1
  <2>3. QED  BY <2>1, <2>2 DEF Interned, Grows, node
<1>5. CASE ~ \E i \in DOMAIN ns : ns[i] = node
  <2>1. IdOf(ns, node) = Len(ns) + 1
    BY <1>5 DEF IdOf
  <2>2. IdOf(ns, node) > Len(ns)
    BY <1>3, <2>1
  <2>3. Interned(ns, node) = Append(ns, node)
    BY <2>2 DEF Interned
  <2>4. QED  BY <1>1, <1>2, <2>1, <2>3, NodesGrow DEF node
<1>6. QED  BY <1>4, <1>5

(* Stacks with another top, one more or one less.                          *)
LEMMA MavenChanges ==
  ASSUME NEW ns, NEW all, NEW stack, MavenOK(ns, stack, all),
         NEW acc \in MavenAccs, Listed(ns, acc), all => Named(ns, acc)
  PROVE  /\ MavenOK(ns, Append(stack, acc), all)
         /\ stack # << >> => /\ MavenOK(ns, OnTop(stack, acc), all)
                             /\ MavenOK(ns, Front(stack), all)
<1>1. /\ stack \in Seq(MavenAccs)
      /\ \A d \in DOMAIN stack : Listed(ns, stack[d]) /\ (all => Named(ns, stack[d]))
  BY DEF MavenOK
<1>2. MavenOK(ns, Append(stack, acc), all)
  BY <1>1, StackPush DEF MavenOK
<1>3. ASSUME stack # << >>  PROVE MavenOK(ns, OnTop(stack, acc), all)
  <2>1. /\ OnTop(stack, acc) \in Seq(MavenAccs)
        /\ DOMAIN OnTop(stack, acc) = DOMAIN stack
        /\ \A d \in DOMAIN stack :
             OnTop(stack, acc)[d] = IF d = Len(stack) THEN acc ELSE stack[d]
    BY <1>1, <1>3, StackTop
  <2>2. \A d \in DOMAIN stack : /\ Listed(ns, OnTop(stack, acc)[d])
                                /\ all => Named(ns, OnTop(stack, acc)[d])
    BY <1>1, <2>1
  <2>3. QED  BY <2>1, <2>2 DEF MavenOK
<1>4. stack # << >> => MavenOK(ns, Front(stack), all)
  BY <1>1, StackPop DEF MavenOK
<1>5. QED  BY <1>2, <1>3, <1>4

LEMMA JavaChanges ==
  ASSUME NEW ns, NEW stack, JavaOK(ns, stack),
         NEW acc \in JavaAccs, Listed(ns, acc), Named(ns, acc)
  PROVE  /\ JavaOK(ns, Append(stack, acc))
         /\ stack # << >> => JavaOK(ns, OnTop(stack, acc)) /\ JavaOK(ns, Front(stack))
<1>1. /\ stack \in Seq(JavaAccs)
      /\ \A d \in DOMAIN stack : Listed(ns, stack[d]) /\ Named(ns, stack[d])
  BY DEF JavaOK
<1>2. JavaOK(ns, Append(stack, acc))
  BY <1>1, StackPush DEF JavaOK
<1>3. ASSUME stack # << >>  PROVE JavaOK(ns, OnTop(stack, acc))
  <2>1. /\ OnTop(stack, acc) \in Seq(JavaAccs)
        /\ DOMAIN OnTop(stack, acc) = DOMAIN stack
        /\ \A d \in DOMAIN stack :
             OnTop(stack, acc)[d] = IF d = Len(stack) THEN acc ELSE stack[d]
    BY <1>1, <1>3, StackTop
  <2>2. \A d \in DOMAIN stack : /\ Listed(ns, OnTop(stack, acc)[d])
                                /\ Named(ns, OnTop(stack, acc)[d])
    BY <1>1, <2>1
  <2>3. QED  BY <2>1, <2>2 DEF JavaOK
<1>4. stack # << >> => JavaOK(ns, Front(stack))
  BY <1>1, StackPop DEF JavaOK
<1>5. QED  BY <1>2, <1>3, <1>4

(* A stack whose top has fewer entries to do.                              *)
LEMMA MavenPopped ==
  ASSUME NEW ns, NEW all, NEW stack, MavenOK(ns, stack, all), stack # << >>,
         Last(stack).todo # << >>
  PROVE  /\ Last(stack) \in MavenAccs /\ Head(Last(stack).todo) \in Entries
         /\ Last(Popped(stack)) \in MavenAccs
         /\ Last(Popped(stack)) = [Last(stack) EXCEPT !.todo = Tail(@)]
         /\ Last(Popped(stack)).names = Last(stack).names
         /\ Last(Popped(stack)).children = Last(stack).children
         /\ Last(Popped(stack)).dirs = Last(stack).dirs
         /\ Listed(ns, Last(Popped(stack)))
         /\ all => Named(ns, Last(Popped(stack)))
         /\ Popped(stack) = OnTop(stack, Last(Popped(stack)))
<1>1. /\ stack \in Seq(MavenAccs)
      /\ \A d \in DOMAIN stack : Listed(ns, stack[d]) /\ (all => Named(ns, stack[d]))
  BY DEF MavenOK
<1>2. /\ Last(stack) \in MavenAccs /\ Listed(ns, Last(stack))
      /\ all => Named(ns, Last(stack))
  <2>1. PICK acc : acc \in MavenAccs
    BY <1>1, EmptySeq, LenProperties, ElementOfSeq
  <2>2. QED  BY <1>1, <2>1, StackTop
<1>3. /\ [Last(stack) EXCEPT !.todo = Tail(@)] \in MavenAccs
      /\ [Last(stack) EXCEPT !.todo = Tail(@)].names = Last(stack).names
      /\ [Last(stack) EXCEPT !.todo = Tail(@)].children = Last(stack).children
      /\ [Last(stack) EXCEPT !.todo = Tail(@)].dirs = Last(stack).dirs
      /\ Head(Last(stack).todo) \in Entries
  BY <1>2, MavenRest
<1>4. /\ Popped(stack) = OnTop(stack, [Last(stack) EXCEPT !.todo = Tail(@)])
      /\ Last(Popped(stack)) = [Last(stack) EXCEPT !.todo = Tail(@)]
  BY <1>1, <1>3, PoppedTop
<1>5. QED  BY <1>2, <1>3, <1>4 DEF Listed, Named

LEMMA JavaPopped ==
  ASSUME NEW ns, NEW stack, JavaOK(ns, stack), stack # << >>, Last(stack).todo # << >>
  PROVE  /\ Last(stack) \in JavaAccs /\ Head(Last(stack).todo) \in Entries
         /\ Last(Popped(stack)) \in JavaAccs
         /\ Last(Popped(stack)) = [Last(stack) EXCEPT !.todo = Tail(@)]
         /\ Last(Popped(stack)).names = Last(stack).names
         /\ Last(Popped(stack)).children = Last(stack).children
         /\ Last(Popped(stack)).name = Last(stack).name
         /\ Last(Popped(stack)).ana = Last(stack).ana
         /\ Last(Popped(stack)).skiped = Last(stack).skiped
         /\ Listed(ns, Last(Popped(stack))) /\ Named(ns, Last(Popped(stack)))
         /\ Popped(stack) = OnTop(stack, Last(Popped(stack)))
<1>1. /\ stack \in Seq(JavaAccs)
      /\ \A d \in DOMAIN stack : Listed(ns, stack[d]) /\ Named(ns, stack[d])
  BY DEF JavaOK
<1>2. Last(stack) \in JavaAccs /\ Listed(ns, Last(stack)) /\ Named(ns, Last(stack))
  <2>1. PICK acc : acc \in JavaAccs
    BY <1>1, EmptySeq, LenProperties, ElementOfSeq
  <2>2. QED  BY <1>1, <2>1, StackTop
<1>3. /\ [Last(stack) EXCEPT !.todo = Tail(@)] \in JavaAccs
      /\ [Last(stack) EXCEPT !.todo = Tail(@)].names = Last(stack).names
      /\ [Last(stack) EXCEPT !.todo = Tail(@)].children = Last(stack).children
      /\ [Last(stack) EXCEPT !.todo = Tail(@)].name = Last(stack).name
      /\ [Last(stack) EXCEPT !.todo = Tail(@)].ana = Last(stack).ana
      /\ [Last(stack) EXCEPT !.todo = Tail(@)].skiped = Last(stack).skiped
      /\ Head(Last(stack).todo) \in Entries
  BY <1>2, JavaRest
<1>4. /\ Popped(stack) = OnTop(stack, [Last(stack) EXCEPT !.todo = Tail(@)])
      /\ Last(Popped(stack)) = [Last(stack) EXCEPT !.todo = Tail(@)]
  BY <1>1, <1>3, PoppedTop
<1>5. QED  BY <1>2, <1>3, <1>4 DEF Listed, Named

(***************************************************************************)
(* Type correctness, and names                                             *)
(***************************************************************************)

CommitsOK(ns, cs) ==
  /\ cs \in Seq([request : Requests, root : Nat])
  /\ \A c \in DOMAIN cs : cs[c].root \in DOMAIN ns

Inv(all) ==
  /\ session \in Seq(Requests)
  /\ NodesOK(nodes, all)
  /\ MavenOK(nodes, maven, all)
  /\ JavaOK(nodes, java)
  /\ MapsOK(nodes, objectMap, objectMapPom)
  /\ MadesOK(nodes, objectMapJava)
  /\ CommitsOK(nodes, commits)
  /\ panicked \in BOOLEAN
  /\ java # << >> => maven # << >>
  /\ maven # << >> => session # << >>

(* What a step of the search for modules meets.                            *)
LEMMA AtEntry ==
  ASSUME NEW all, Inv(all), Exploring
  PROVE  /\ maven # << >> /\ java = << >> /\ session # << >>
         /\ maven \in Seq(MavenAccs) /\ Module \in MavenAccs /\ Entry \in Entries
         /\ Last(Popped(maven)) \in MavenAccs
         /\ Last(Popped(maven)).names = Module.names
         /\ Last(Popped(maven)).children = Module.children
         /\ Last(Popped(maven)).dirs = Module.dirs
         /\ Listed(nodes, Last(Popped(maven)))
         /\ all => Named(nodes, Last(Popped(maven)))
         /\ Popped(maven) = OnTop(maven, Last(Popped(maven)))
         /\ Entry.name \in Names
         /\ IsTree(Entry) => Entry.object \in Trees
         /\ ~IsTree(Entry) => Entry.object \in Blobs
<1>1. maven # << >> /\ Last(maven).todo # << >> /\ MavenOK(nodes, maven, all)
  BY DEF Exploring, InMaven, Module, Inv
<1>2. /\ Last(maven) \in MavenAccs /\ Head(Last(maven).todo) \in Entries
      /\ Last(Popped(maven)) \in MavenAccs
      /\ Last(Popped(maven)).names = Last(maven).names
      /\ Last(Popped(maven)).children = Last(maven).children
      /\ Last(Popped(maven)).dirs = Last(maven).dirs
      /\ Listed(nodes, Last(Popped(maven)))
      /\ all => Named(nodes, Last(Popped(maven)))
      /\ Popped(maven) = OnTop(maven, Last(Popped(maven)))
  BY <1>1, MavenPopped
<1>3. Entry.name \in Names /\ Entry.object \in Trees \cup Blobs
  BY <1>2 DEF Entry, Module, Entries, Names, Objects
<1>4. QED
  BY <1>1, <1>2, <1>3 DEF Module, Entry, Exploring, InMaven, Inv, MavenOK, IsTree

(* What a step in a source directory meets.                                *)
LEMMA AtItem ==
  ASSUME NEW all, Inv(all), Reading
  PROVE  /\ maven # << >> /\ java # << >> /\ session # << >>
         /\ java \in Seq(JavaAccs) /\ Package \in JavaAccs /\ Item \in Entries
         /\ Last(Popped(java)) \in JavaAccs
         /\ Last(Popped(java)).names = Package.names
         /\ Last(Popped(java)).children = Package.children
         /\ Last(Popped(java)).name = Package.name
         /\ Last(Popped(java)).ana = Package.ana
         /\ Last(Popped(java)).skiped = Package.skiped
         /\ Listed(nodes, Last(Popped(java))) /\ Named(nodes, Last(Popped(java)))
         /\ Popped(java) = OnTop(java, Last(Popped(java)))
         /\ Item.name \in Names /\ Item.name \in EntryNames
         /\ IsTree(Item) => Item.object \in Trees
         /\ ~IsTree(Item) => Item.object \in Blobs
<1>1. java # << >> /\ Last(java).todo # << >> /\ JavaOK(nodes, java)
  BY DEF Reading, InJava, Package, Inv
<1>2. /\ Last(java) \in JavaAccs /\ Head(Last(java).todo) \in Entries
      /\ Last(Popped(java)) \in JavaAccs
      /\ Last(Popped(java)).names = Last(java).names
      /\ Last(Popped(java)).children = Last(java).children
      /\ Last(Popped(java)).name = Last(java).name
      /\ Last(Popped(java)).ana = Last(java).ana
      /\ Last(Popped(java)).skiped = Last(java).skiped
      /\ Listed(nodes, Last(Popped(java))) /\ Named(nodes, Last(Popped(java)))
      /\ Popped(java) = OnTop(java, Last(Popped(java)))
  BY <1>1, JavaPopped
<1>3. Item.name \in Names /\ Item.name \in EntryNames /\ Item.object \in Trees \cup Blobs
  BY <1>2 DEF Item, Package, Entries, Names, Objects
<1>4. QED
  BY <1>1, <1>2, <1>3 DEF Package, Item, Reading, InJava, Inv, JavaOK, IsTree

LEMMA HandleCommitKeeps ==
  ASSUME NEW all, Inv(all), HandleCommit
  PROVE  Inv(all)'
<1>1. /\ maven' = <<MavenAcc(Request.tree, "", Request.path, {})>>
      /\ session # << >> /\ maven = << >> /\ java = << >>
      /\ UNCHANGED <<session, java, nodes, caches, commits, panicked>>
  BY DEF HandleCommit, Inv
<1>2. Request.tree \in Trees /\ session \in Seq(Requests)
  <2>1. session \in Seq(Requests)
    BY DEF Inv
  <2>2. Request \in Requests
    BY <1>1, <2>1, TailSeq DEF Request
  <2>3. QED  BY <2>1, <2>2 DEF Requests
<1> DEFINE root == MavenAcc(Request.tree, "", Request.path, {})
<1>3. root \in MavenAccs /\ root.names = << >> /\ root.children = << >>
  <2>1. PICK name \in Names : name = ""
    BY DEF Names
  <2>2. {} \in SUBSET DirPaths
    OBVIOUS
  <2>3. PICK tree \in Trees : tree = Request.tree
    BY <1>2
  <2>4. PICK rest : rest = Request.path
    OBVIOUS
  <2>5. /\ MavenAcc(tree, name, rest, {}) \in MavenAccs
        /\ MavenAcc(tree, name, rest, {}).names = << >>
        /\ MavenAcc(tree, name, rest, {}).children = << >>
    BY <2>2, MavenAccType
  <2>6. QED  BY <2>1, <2>3, <2>4, <2>5
<1>7. maven' = <<root>>
  BY <1>1
<1> HIDE DEF root
<1>4. Listed(nodes, root) /\ Named(nodes, root)
  <2>1. DOMAIN << >> = {}
    OBVIOUS
  <2>2. QED  BY <1>3, <2>1 DEF Listed, Named
<1>5. MavenOK(nodes, maven', all)
  <2>1. MavenOK(nodes, maven, all)
    BY DEF Inv
  <2>2. Append(<< >>, root) = <<root>>
    OBVIOUS
  <2>3. maven' = Append(maven, root)
    BY <1>1, <1>7, <2>2
  <2>4. QED  BY <1>3, <1>4, <2>1, <2>3, MavenChanges
<1>6. QED  BY <1>1, <1>5 DEF Inv, caches

(* A step that changes the stack of modules only.                          *)
LEMMA MavenStep ==
  ASSUME NEW all, Inv(all), maven # << >>, NEW acc \in MavenAccs,
         Listed(nodes, acc), all => Named(nodes, acc),
         maven' = OnTop(maven, acc),
         UNCHANGED <<session, nodes, caches, commits, panicked>>,
         java' = java \/ JavaOK(nodes, java')
  PROVE  Inv(all)'
<1>1. MavenOK(nodes, maven', all)
  BY MavenChanges DEF Inv
<1>2. maven \in Seq(MavenAccs)
  BY DEF Inv, MavenOK
<1>3. maven' # << >>
  BY <1>2, StackTop
<1>4. QED  BY <1>1, <1>3 DEF Inv, caches

LEMMA MavenPushStep ==
  ASSUME NEW all, Inv(all), maven # << >>, NEW acc \in MavenAccs,
         Listed(nodes, acc), all => Named(nodes, acc),
         NEW tree \in Trees, NEW name \in Names, NEW rest, NEW dirs \in SUBSET DirPaths,
         maven' = Append(OnTop(maven, acc), MavenAcc(tree, name, rest, dirs)),
         UNCHANGED <<session, java, nodes, caches, commits, panicked>>
  PROVE  Inv(all)'
<1> DEFINE deeper == MavenAcc(tree, name, rest, dirs)
<1>1. deeper \in MavenAccs /\ deeper.names = << >> /\ deeper.children = << >>
  BY MavenAccType
<1>2. maven' = Append(OnTop(maven, acc), deeper)
  OBVIOUS
<1> HIDE DEF deeper
<1>3. Listed(nodes, deeper) /\ Named(nodes, deeper)
  <2>1. DOMAIN << >> = {}
    OBVIOUS
  <2>2. QED  BY <1>1, <2>1 DEF Listed, Named
<1>4. MavenOK(nodes, OnTop(maven, acc), all)
  BY MavenChanges DEF Inv
<1>5. MavenOK(nodes, maven', all)
  BY <1>1, <1>2, <1>3, <1>4, MavenChanges
<1>6. maven' # << >>
  BY <1>1, <1>2, <1>4, StackPush DEF MavenOK
<1>7. QED  BY <1>5, <1>6 DEF Inv, caches

LEMMA ForwardToModuleKeeps ==
  ASSUME NEW all, Inv(all), ForwardToModule
  PROVE  Inv(all)'
<1>1. Exploring /\ IsTree(Entry)
  BY DEF ForwardToModule
<1> DEFINE acc == [Module EXCEPT !.todo = << >>]
<1>2. /\ maven' = Append(OnTop(maven, acc), MavenAcc(Entry.object, Entry.name, path', {}))
      /\ UNCHANGED <<session, java, nodes, caches, commits, panicked>>
  BY DEF ForwardToModule
<1>3. /\ Module \in MavenAccs /\ Listed(nodes, Module) /\ (all => Named(nodes, Module))
      /\ maven # << >> /\ Entry.object \in Trees /\ Entry.name \in Names
  BY <1>1, AtEntry DEF Listed, Named
<1>4. /\ acc \in MavenAccs /\ acc.names = Module.names
      /\ acc.children = Module.children
  <2>1. << >> \in Seq(Entries)
    BY EmptySeq
  <2>2. QED  BY <1>3, <2>1 DEF MavenAccs
<1> HIDE DEF acc
<1>5. Listed(nodes, acc) /\ (all => Named(nodes, acc))
  BY <1>3, <1>4 DEF Listed, Named
<1>6. {} \in SUBSET DirPaths
  OBVIOUS
<1>7. QED  BY <1>2, <1>3, <1>4, <1>5, <1>6, MavenPushStep

LEMMA IgnoreEntryKeeps ==
  ASSUME NEW all, Inv(all), IgnoreEntry
  PROVE  Inv(all)'
<1>1. Exploring /\ maven' = Popped(maven)
      /\ UNCHANGED <<session, java, nodes, caches, commits, panicked>>
  BY DEF IgnoreEntry
<1>2. QED  BY <1>1, AtEntry, MavenStep

(* A child that is known is pushed.                                        *)
LEMMA MavenChildKeeps ==
  ASSUME NEW all, Inv(all), Exploring, NEW id \in DOMAIN nodes, NEW name \in Names,
         all => nodes[id].name = name,
         NEW pushed \in MavenAccs, pushed.names = Append(Module.names, name),
         pushed.children = Append(Module.children, id),
         maven' = OnTop(maven, pushed),
         UNCHANGED <<session, java, nodes, caches, commits, panicked>>
  PROVE  Inv(all)'
<1> DEFINE acc == Last(Popped(maven))
<1>1. /\ maven # << >> /\ acc \in MavenAccs /\ acc.names = Module.names
      /\ acc.children = Module.children
      /\ Listed(nodes, acc) /\ (all => Named(nodes, acc))
  BY AtEntry
<1> HIDE DEF acc
<1>2. acc.names \in Seq(Names) /\ acc.children \in Seq(Nat) /\ id \in Nat
  <2>1. id \in Nat
    BY LenProperties DEF Inv, NodesOK
  <2>2. QED  BY <1>1, <2>1 DEF MavenAccs
<1>3. /\ Listed(nodes, pushed)
      /\ Named(nodes, acc) /\ nodes[id].name = name => Named(nodes, pushed)
  BY <1>1, <1>2, ListedPushed
<1>4. QED  BY <1>1, <1>3, MavenStep

LEMMA ReuseDirectoryKeeps ==
  ASSUME NEW all, Inv(all), ReuseDirectory,
         all => nodes[objectMap[Entry.object]].name = Entry.name
  PROVE  Inv(all)'
<1> DEFINE id == objectMap[Entry.object]
           acc == Last(Popped(maven))
<1>1. /\ Exploring /\ Entry.object \in DOMAIN objectMap
      /\ maven' = OnTop(maven, PushChild(acc, Entry.name, id))
      /\ UNCHANGED <<session, java, nodes, caches, commits, panicked>>
  BY DEF ReuseDirectory
<1>2. /\ acc \in MavenAccs /\ acc.names = Module.names
      /\ acc.children = Module.children /\ Entry.name \in Names
  BY <1>1, AtEntry
<1>3. id \in DOMAIN nodes /\ id \in Nat
  BY <1>1, LenProperties DEF Inv, MapsOK, NodesOK
<1>4. /\ PushChild(acc, Entry.name, id) \in MavenAccs
      /\ PushChild(acc, Entry.name, id).names = Append(acc.names, Entry.name)
      /\ PushChild(acc, Entry.name, id).children = Append(acc.children, id)
  BY <1>2, <1>3, MavenPushed
<1>5. all => nodes[id].name = Entry.name
  OBVIOUS
<1> HIDE DEF id, acc
<1>6. QED  BY <1>1, <1>2, <1>3, <1>4, <1>5, MavenChildKeeps

LEMMA ReusePomKeeps ==
  ASSUME NEW all, Inv(all), ReusePom
  PROVE  Inv(all)'
<1> DEFINE id == objectMapPom[Entry.object]
           acc == Last(Popped(maven))
<1>1. /\ Exploring /\ Entry.object \in DOMAIN objectMapPom
      /\ maven' = OnTop(maven, PushPom(acc, id))
      /\ UNCHANGED <<session, java, nodes, caches, commits, panicked>>
  BY DEF ReusePom, AtPom
<1>2. /\ acc \in MavenAccs /\ acc.names = Module.names
      /\ acc.children = Module.children
  BY <1>1, AtEntry
<1>3. id \in DOMAIN nodes /\ id \in Nat /\ nodes[id].name = "pom.xml"
  BY <1>1, LenProperties DEF Inv, MapsOK, NodesOK
<1>4. /\ PushPom(acc, id) \in MavenAccs
      /\ PushPom(acc, id).names = Append(acc.names, "pom.xml")
      /\ PushPom(acc, id).children = Append(acc.children, id)
  BY <1>2, <1>3, PomPushed
<1>5. "pom.xml" \in Names
  BY DEF Names
<1> HIDE DEF id, acc
<1>6. QED  BY <1>1, <1>2, <1>3, <1>4, <1>5, MavenChildKeeps

LEMMA EnterDirectoryKeeps ==
  ASSUME NEW all, Inv(all), EnterDirectory
  PROVE  Inv(all)'
<1> DEFINE acc == Last(Popped(maven))
           dirs == Drained(Module.dirs, Entry.name)
           kept == [acc EXCEPT !.dirs = Kept(@, Entry.name)]
<1>1. /\ Exploring /\ IsTree(Entry) /\ << >> \notin dirs
      /\ maven' = Append(OnTop(maven, kept), MavenAcc(Entry.object, Entry.name, path, dirs))
      /\ UNCHANGED <<session, java, nodes, caches, commits, panicked>>
  BY DEF EnterDirectory, ToExplore
<1>2. /\ acc \in MavenAccs /\ Listed(nodes, acc) /\ (all => Named(nodes, acc))
      /\ maven # << >> /\ Entry.object \in Trees /\ Entry.name \in Names
      /\ Module \in MavenAccs
  BY <1>1, AtEntry
<1>3. dirs \in SUBSET DirPaths
  <2>1. Module.dirs \in SUBSET DirPaths
    BY <1>2 DEF MavenAccs
  <2>2. QED  BY <1>1, <2>1, DrainedType
<1>4. kept \in MavenAccs /\ kept.names = acc.names /\ kept.children = acc.children
  <2>1. Kept(acc.dirs, Entry.name) \in SUBSET DirPaths
    BY <1>2 DEF Kept, MavenAccs
  <2> HIDE DEF acc
  <2>2. QED  BY <1>2, <2>1 DEF MavenAccs
<1> HIDE DEF acc, dirs, kept
<1>5. Listed(nodes, kept) /\ (all => Named(nodes, kept))
  BY <1>2, <1>4 DEF Listed, Named
<1>6. QED  BY <1>1, <1>2, <1>3, <1>4, <1>5, MavenPushStep

LEMMA EnterSourcesKeeps ==
  ASSUME NEW all, Inv(all), EnterSources
  PROVE  Inv(all)'
<1> DEFINE acc == Last(Popped(maven))
           kept == [acc EXCEPT !.dirs = Kept(@, Entry.name)]
           source == JavaAcc(Entry.object, Entry.name)
<1>1. /\ Exploring /\ IsTree(Entry)
      /\ maven' = OnTop(maven, kept) /\ java' = <<source>>
      /\ UNCHANGED <<session, nodes, caches, commits, panicked>>
  BY DEF EnterSources, ToExplore
<1>2. /\ acc \in MavenAccs /\ Listed(nodes, acc) /\ (all => Named(nodes, acc))
      /\ maven # << >> /\ Entry.object \in Trees /\ Entry.name \in Names
      /\ java = << >>
  BY <1>1, AtEntry
<1>3. kept \in MavenAccs /\ kept.names = acc.names /\ kept.children = acc.children
  <2>1. Kept(acc.dirs, Entry.name) \in SUBSET DirPaths
    BY <1>2 DEF Kept, MavenAccs
  <2> HIDE DEF acc
  <2>2. QED  BY <1>2, <2>1 DEF MavenAccs
<1>4. source \in JavaAccs /\ source.names = << >> /\ source.children = << >>
  BY <1>2, JavaAccType
<1> HIDE DEF acc, kept, source
<1>5. Listed(nodes, kept) /\ (all => Named(nodes, kept))
  BY <1>2, <1>3 DEF Listed, Named
<1>6. JavaOK(nodes, java')
  <2>1. DOMAIN << >> = {}
    OBVIOUS
  <2>2. Listed(nodes, source) /\ Named(nodes, source)
    BY <1>4, <2>1 DEF Listed, Named
  <2>3. java' = Append(<< >>, source) /\ JavaOK(nodes, << >>)
    BY <1>1, <1>2 DEF Inv
  <2>4. QED  BY <1>4, <2>2, <2>3, JavaChanges
<1>7. QED  BY <1>1, <1>2, <1>3, <1>5, <1>6, MavenStep

LEMMA GeneratePomKeeps ==
  ASSUME NEW all, Inv(all), GeneratePom
  PROVE  Inv(all)'
<1> DEFINE node == FileNode(Entry.name, Entry.object)
           id == IdOf(nodes, node)
           acc == Last(Popped(maven))
<1>1. /\ Exploring /\ IsPom(Entry) /\ ~IsTree(Entry) /\ Entry.name = "pom.xml"
      /\ nodes' = Interned(nodes, node)
      /\ objectMapPom' = With(objectMapPom, Entry.object, id)
      /\ maven' = OnTop(maven, PushPom(acc, id))
      /\ UNCHANGED <<session, java, objectMap, objectMapJava, commits, panicked>>
  BY DEF GeneratePom, AtPom, IsPom
<1>2. /\ maven # << >> /\ acc \in MavenAccs /\ Listed(nodes, acc)
      /\ all => Named(nodes, acc)
      /\ Entry.name \in Names /\ Entry.object \in Blobs
  BY <1>1, AtEntry
<1>3. /\ NodesOK(nodes', all) /\ Grows(nodes, nodes')
      /\ id \in DOMAIN nodes' /\ id \in Nat /\ nodes'[id] = node
  BY <1>1, <1>2, FileInterned DEF Inv
<1>4. nodes'[id].name = "pom.xml"
  BY <1>1, <1>3 DEF FileNode
<1>5. /\ PushPom(acc, id) \in MavenAccs
      /\ PushPom(acc, id).names = Append(acc.names, "pom.xml")
      /\ PushPom(acc, id).children = Append(acc.children, id)
  BY <1>2, <1>3, PomPushed
<1>6. /\ Listed(nodes', PushPom(acc, id))
      /\ all => Named(nodes', PushPom(acc, id))
  <2>1. Listed(nodes', acc) /\ (all => Named(nodes', acc))
    BY <1>2, <1>3, ListedStays
  <2>2. acc.names \in Seq(Names) /\ acc.children \in Seq(Nat) /\ "pom.xml" \in Names
    BY <1>2 DEF MavenAccs, Names
  <2> HIDE DEF acc, id
  <2>3. QED  BY <1>3, <1>4, <1>5, <2>1, <2>2, ListedPushed
<1>7. MavenOK(nodes', maven', all)
  <2>1. MavenOK(nodes', maven, all)
    BY <1>3, OKStays DEF Inv
  <2> HIDE DEF acc, id
  <2>2. QED  BY <1>1, <1>2, <1>5, <1>6, <2>1, MavenChanges
<1>8. /\ JavaOK(nodes', java') /\ MadesOK(nodes', objectMapJava')
      /\ CommitsOK(nodes', commits')
  <2>1. JavaOK(nodes', java) /\ MadesOK(nodes', objectMapJava)
    BY <1>3, OKStays DEF Inv
  <2>2. CommitsOK(nodes', commits)
    BY <1>3 DEF Inv, CommitsOK, Grows
  <2>3. QED  BY <1>1, <2>1, <2>2
<1>9. MapsOK(nodes', objectMap', objectMapPom')
  <2>1. MapsOK(nodes', objectMap, objectMapPom)
    BY <1>3, OKStays DEF Inv
  <2> HIDE DEF id
  <2>2. QED  BY <1>1, <1>3, <1>4, <2>1 DEF MapsOK, With
<1>10. maven' # << >>
  <2> HIDE DEF acc, id
  <2>1. QED  BY <1>1, <1>2, <1>5, StackTop DEF Inv, MavenOK
<1>11. QED  BY <1>1, <1>2, <1>3, <1>7, <1>8, <1>9, <1>10, AtEntry DEF Inv

(* The entity of a directory is a new one.                                 *)
LEMMA DirectoryMade ==
  ASSUME NEW ns, NEW all, NodesOK(ns, all),
         NEW kind \in {"Directory", "MavenDirectory"},
         NEW refs \in (SUBSET Symbols) \cup {Much},
         NEW acc, acc.name \in Names, acc.names \in Seq(Names),
         acc.children \in Seq(Nat), Listed(ns, acc),
         all \/ kind # "MavenDirectory" => Named(ns, acc)
  PROVE  LET node == DirNode(kind, acc, refs)
             ns2 == Append(ns, node)
             id == Len(ns) + 1 IN
         /\ NodesOK(ns2, all) /\ Grows(ns, ns2)
         /\ id \in Nat /\ id \in DOMAIN ns2 /\ ns2[id] = node
         /\ node.kind = kind /\ node.name = acc.name
<1> DEFINE node == DirNode(kind, acc, refs)
<1>1. /\ node \in Entities /\ node.kind = kind /\ node.name = acc.name
      /\ node.names = acc.names /\ node.children = acc.children
  BY DEF DirNode, Entities
<1> HIDE DEF node
<1>2. Listed(ns, node) /\ (all \/ node.kind # "MavenDirectory" => Named(ns, node))
  BY <1>1 DEF Listed, Named
<1>3. QED  BY <1>1, <1>2, NodesGrow DEF node

LEMMA CommitModuleKeeps ==
  ASSUME NEW all, Inv(all), CommitModule
  PROVE  Inv(all)'
<1> DEFINE id == Len(nodes) + 1
           node == DirNode("MavenDirectory", Module, Much)
           below == Front(maven)
<1>1. /\ InMaven
      /\ nodes' = Append(nodes, node)
      /\ objectMap' = With(objectMap, Module.tree, id)
      /\ maven' = IF below = << >> THEN << >>
                  ELSE OnTop(below, PushChild(Last(below), Module.name, id))
      /\ IF below = << >>
         THEN /\ commits' = Append(commits, [request |-> Request, root |-> id])
              /\ session' = Tail(session)
         ELSE UNCHANGED <<commits, session>>
      /\ UNCHANGED <<path, java, objectMapPom, objectMapJava, panicked>>
  BY DEF CommitModule
<1>2. /\ maven # << >> /\ java = << >> /\ session # << >> /\ maven \in Seq(MavenAccs)
      /\ session \in Seq(Requests)
  BY <1>1 DEF InMaven, Inv, MavenOK
<1>3. Module \in MavenAccs /\ Listed(nodes, Module) /\ (all => Named(nodes, Module))
  <2>1. PICK a : a \in MavenAccs
    BY <1>2, EmptySeq, LenProperties, ElementOfSeq
  <2>2. Module = maven[Len(maven)] /\ Len(maven) \in DOMAIN maven /\ Module \in MavenAccs
    BY <1>2, <2>1, StackTop DEF Module
  <2>3. QED  BY <2>2 DEF Inv, MavenOK
<1>4. /\ NodesOK(nodes', all) /\ Grows(nodes, nodes')
      /\ id \in Nat /\ id \in DOMAIN nodes' /\ nodes'[id] = node
      /\ node.kind = "MavenDirectory" /\ node.name = Module.name
  <2>1. /\ Module.name \in Names /\ Module.names \in Seq(Names)
        /\ Module.children \in Seq(Nat)
    BY <1>3 DEF MavenAccs
  <2>2. PICK kind \in {"Directory", "MavenDirectory"} : kind = "MavenDirectory"
    OBVIOUS
  <2>3. PICK refs \in (SUBSET Symbols) \cup {Much} : refs = Much
    OBVIOUS
  <2>4. PICK acc : acc = Module
    OBVIOUS
  <2>5. /\ NodesOK(nodes, all) /\ Listed(nodes, acc)
        /\ acc.name \in Names /\ acc.names \in Seq(Names) /\ acc.children \in Seq(Nat)
        /\ all \/ kind # "MavenDirectory" => Named(nodes, acc)
    BY <1>3, <2>1, <2>2, <2>4 DEF Inv
  <2>6. LET n == DirNode(kind, acc, refs)
            ns2 == Append(nodes, n) IN
        /\ NodesOK(ns2, all) /\ Grows(nodes, ns2)
        /\ id \in Nat /\ id \in DOMAIN ns2 /\ ns2[id] = n
        /\ n.kind = kind /\ n.name = acc.name
    BY <2>5, DirectoryMade
  <2>7. QED  BY <1>1, <2>2, <2>3, <2>4, <2>6
<1>5. /\ MavenOK(nodes', below, all)
      /\ JavaOK(nodes', java') /\ MadesOK(nodes', objectMapJava')
  <2>1. MavenOK(nodes, below, all)
    BY <1>2, <1>3, MavenChanges DEF Inv
  <2>2. MavenOK(nodes', below, all)
    BY <1>4, <2>1, OKStays
  <2>3. JavaOK(nodes', java) /\ MadesOK(nodes', objectMapJava)
    BY <1>4, OKStays DEF Inv
  <2>4. QED  BY <1>1, <2>2, <2>3
<1>6. MapsOK(nodes', objectMap', objectMapPom')
  <2>1. MapsOK(nodes', objectMap, objectMapPom)
    BY <1>4, OKStays DEF Inv
  <2> HIDE DEF id, node
  <2>2. QED  BY <1>1, <1>4, <2>1 DEF MapsOK, With
<1>7. CommitsOK(nodes', commits)
  BY <1>4 DEF Inv, CommitsOK, Grows
<1>8. CASE below = << >>
  <2>1. maven' = << >> /\ session' = Tail(session)
    BY <1>1, <1>8
  <2>2. session' \in Seq(Requests) /\ Request \in Requests
    BY <1>2, <2>1, TailSeq DEF Request
  <2>3. CommitsOK(nodes', commits')
    <3>1. PICK c \in [request : Requests, root : Nat] :
            c = [request |-> Request, root |-> id]
      BY <1>4, <2>2
    <3>2. c.root \in DOMAIN nodes' /\ commits' = Append(commits, c)
      BY <1>1, <1>4, <1>8, <3>1
    <3>3. QED  BY <1>7, <3>2, StackPush DEF CommitsOK
  <2>4. MavenOK(nodes', << >>, all)
    BY <1>5, <1>8
  <2>5. QED  BY <1>1, <1>2, <1>4, <1>5, <1>6, <2>1, <2>2, <2>3, <2>4 DEF Inv
<1>9. CASE below # << >>
  <2> DEFINE parent == Last(below)
             pushed == PushChild(parent, Module.name, id)
  <2>1. maven' = OnTop(below, pushed) /\ UNCHANGED <<commits, session>>
    BY <1>1, <1>9
  <2>2. parent \in MavenAccs /\ Listed(nodes', parent) /\ (all => Named(nodes', parent))
    <3>1. below \in Seq(MavenAccs)
      BY <1>5 DEF MavenOK
    <3>2. parent = below[Len(below)] /\ Len(below) \in DOMAIN below /\ parent \in MavenAccs
      BY <1>3, <1>9, <3>1, StackTop
    <3>3. QED  BY <1>5, <3>2 DEF MavenOK
  <2>3. Module.name \in Names
    BY <1>3 DEF MavenAccs
  <2>4. /\ pushed \in MavenAccs
        /\ pushed.names = Append(parent.names, Module.name)
        /\ pushed.children = Append(parent.children, id)
    BY <1>4, <2>2, <2>3, MavenPushed
  <2>5. nodes'[id].name = Module.name
    BY <1>4
  <2>6. parent.names \in Seq(Names) /\ parent.children \in Seq(Nat)
    BY <2>2 DEF MavenAccs
  <2> HIDE DEF parent, pushed, id, node, below
  <2>7. Listed(nodes', pushed) /\ (all => Named(nodes', pushed))
    BY <1>4, <2>2, <2>3, <2>4, <2>5, <2>6, ListedPushed
  <2>8. MavenOK(nodes', maven', all)
    BY <1>5, <1>9, <2>1, <2>4, <2>7, MavenChanges
  <2>9. QED  BY <1>1, <1>2, <1>4, <1>5, <1>6, <1>7, <2>1, <2>8 DEF Inv
<1>10. QED  BY <1>8, <1>9

(* Steps in a source directory.                                            *)
LEMMA IgnoreBlobKeeps ==
  ASSUME NEW all, Inv(all), IgnoreBlob
  PROVE  Inv(all)'
<1>1. /\ Reading /\ java' = Popped(java)
      /\ UNCHANGED <<session, maven, nodes, caches, commits, panicked>>
  BY DEF IgnoreBlob
<1>2. /\ java # << >> /\ java' = OnTop(java, Last(Popped(java)))
      /\ Last(Popped(java)) \in JavaAccs
      /\ Listed(nodes, Last(Popped(java))) /\ Named(nodes, Last(Popped(java)))
      /\ maven # << >>
  BY <1>1, AtItem
<1>3. JavaOK(nodes, java')
  BY <1>2, JavaChanges DEF Inv
<1>4. QED  BY <1>1, <1>2, <1>3 DEF Inv, caches

(* A child is pushed with what was made of it.                             *)
LEMMA JavaChild ==
  ASSUME NEW ns, NEW acc \in JavaAccs, Listed(ns, acc), Named(ns, acc),
         NEW name \in Names, NEW made \in Mades,
         made.id \in DOMAIN ns, ns[made.id].name = name
  PROVE  /\ Push(acc, name, made) \in JavaAccs
         /\ Listed(ns, Push(acc, name, made)) /\ Named(ns, Push(acc, name, made))
         /\ Range(Push(acc, name, made).children) = Range(acc.children) \cup {made.id}
<1> DEFINE pushed == Push(acc, name, made)
<1>1. /\ pushed \in JavaAccs
      /\ pushed.names = Append(acc.names, name)
      /\ pushed.children = Append(acc.children, made.id)
  BY JavaPushed
<1>2. acc.names \in Seq(Names) /\ acc.children \in Seq(Nat) /\ made.id \in Nat
  BY DEF JavaAccs, Mades
<1> HIDE DEF pushed
<1>3. /\ Listed(ns, pushed) /\ Named(ns, pushed)
      /\ Range(pushed.children) = Range(acc.children) \cup {made.id}
  <2>1. PICK id \in Nat : id = made.id
    BY <1>2
  <2>2. id \in DOMAIN ns /\ ns[id].name = name /\ pushed.children = Append(acc.children, id)
    BY <1>1, <2>1
  <2>3. PICK dir : dir = acc
    OBVIOUS
  <2>4. /\ dir.names \in Seq(Names) /\ dir.children \in Seq(Nat) /\ Listed(ns, dir)
        /\ pushed.names = Append(dir.names, name)
        /\ pushed.children = Append(dir.children, id)
    BY <1>1, <1>2, <2>2, <2>3
  <2>5. /\ Listed(ns, pushed)
        /\ Named(ns, dir) /\ ns[id].name = name => Named(ns, pushed)
    BY <2>2, <2>4, ListedPushed
  <2>6. Range(pushed.children) = Range(dir.children) \cup {id}
    <3>1. PICK s \in Seq(Nat) : s = dir.children
      BY <2>4
    <3>2. Range(Append(s, id)) = Range(s) \cup {id}
      BY RangeAppended
    <3>3. Append(s, id) = pushed.children
      BY <2>4, <3>1
    <3>4. QED  BY <3>1, <3>2, <3>3
  <2>7. QED  BY <2>1, <2>2, <2>3, <2>5, <2>6
<1>4. QED  BY <1>1, <1>3 DEF pushed

LEMMA ReuseItemKeeps ==
  ASSUME NEW all, Inv(all), ReuseItem
  PROVE  Inv(all)'
<1> DEFINE acc == Last(Popped(java))
           pushed == Push(acc, Item.name, Already)
<1>1. /\ Reading /\ Known /\ nodes[Already.id].name = Item.name
      /\ java' = OnTop(java, pushed)
      /\ UNCHANGED <<session, maven, nodes, caches, commits, panicked>>
  BY DEF ReuseItem
<1>2. /\ java # << >> /\ acc \in JavaAccs /\ Listed(nodes, acc) /\ Named(nodes, acc)
      /\ maven # << >> /\ Item.name \in Names
  BY <1>1, AtItem
<1>3. Already \in Mades /\ Already.id \in DOMAIN nodes
  BY <1>1 DEF Known, Already, Inv, MadesOK
<1>4. pushed \in JavaAccs /\ Listed(nodes, pushed) /\ Named(nodes, pushed)
  BY <1>1, <1>2, <1>3, JavaChild
<1> HIDE DEF acc, pushed
<1>5. JavaOK(nodes, java')
  BY <1>1, <1>2, <1>4, JavaChanges DEF Inv
<1>6. QED  BY <1>1, <1>2, <1>5 DEF Inv, caches

LEMMA GenerateJavaKeeps ==
  ASSUME NEW all, Inv(all), GenerateJava
  PROVE  Inv(all)'
<1> DEFINE node == FileNode(Item.name, Item.object)
           made == [id |-> IdOf(nodes, node), ana |-> AnaOf(Item.object),
                    skiped |-> FALSE]
           acc == Last(Popped(java))
           pushed == Push(acc, Item.name, made)
<1>1. /\ Reading /\ ~IsTree(Item)
      /\ nodes' = Interned(nodes, node)
      /\ objectMapJava' = With(objectMapJava, JavaKey(Item.object, Item.name), made)
      /\ java' = OnTop(java, pushed)
      /\ UNCHANGED <<session, maven, objectMap, objectMapPom, commits, panicked>>
  BY DEF GenerateJava
<1>2. /\ java # << >> /\ acc \in JavaAccs /\ Listed(nodes, acc) /\ Named(nodes, acc)
      /\ maven # << >> /\ Item.name \in Names /\ Item.object \in Blobs
  BY <1>1, AtItem
<1>3. /\ NodesOK(nodes', all) /\ Grows(nodes, nodes')
      /\ made.id \in DOMAIN nodes' /\ made.id \in Nat /\ nodes'[made.id] = node
  BY <1>1, <1>2, FileInterned DEF Inv
<1>4. made \in Mades /\ nodes'[made.id].name = Item.name
  BY <1>2, <1>3, AnalysesAssumption DEF Mades, FileNode
<1>5. /\ MavenOK(nodes', maven', all) /\ JavaOK(nodes', java)
      /\ MapsOK(nodes', objectMap', objectMapPom') /\ MadesOK(nodes', objectMapJava)
  <2>1. /\ MavenOK(nodes', maven, all) /\ JavaOK(nodes', java)
        /\ MapsOK(nodes', objectMap, objectMapPom) /\ MadesOK(nodes', objectMapJava)
    BY <1>3, OKStays DEF Inv
  <2>2. QED  BY <1>1, <2>1
<1>6. pushed \in JavaAccs /\ Listed(nodes', pushed) /\ Named(nodes', pushed)
  <2>1. Listed(nodes', acc) /\ Named(nodes', acc)
    BY <1>2, <1>3, ListedStays
  <2> HIDE DEF made, acc
  <2>2. QED  BY <1>2, <1>3, <1>4, <2>1, JavaChild
<1>7. CommitsOK(nodes', commits')
  BY <1>1, <1>3 DEF Inv, CommitsOK, Grows
<1> HIDE DEF made, acc, pushed
<1>8. JavaOK(nodes', java')
  BY <1>1, <1>2, <1>5, <1>6, JavaChanges
<1>9. MadesOK(nodes', objectMapJava')
  BY <1>1, <1>3, <1>4, <1>5 DEF MadesOK, With
<1>10. QED  BY <1>1, <1>2, <1>3, <1>5, <1>7, <1>8, <1>9 DEF Inv

LEMMA EnterPackageKeeps ==
  ASSUME NEW all, Inv(all), EnterPackage
  PROVE  Inv(all)'
<1> DEFINE acc == Last(Popped(java))
           deeper == JavaAcc(Item.object, Item.name)
<1>1. /\ Reading /\ IsTree(Item)
      /\ java' = Append(Popped(java), deeper)
      /\ UNCHANGED <<session, maven, nodes, caches, commits, panicked>>
  BY DEF EnterPackage
<1>2. /\ java # << >> /\ acc \in JavaAccs /\ Listed(nodes, acc) /\ Named(nodes, acc)
      /\ maven # << >> /\ Item.name \in Names /\ Item.object \in Trees
      /\ Popped(java) = OnTop(java, acc)
  BY <1>1, AtItem
<1>3. deeper \in JavaAccs /\ deeper.names = << >> /\ deeper.children = << >>
  BY <1>2, JavaAccType
<1> HIDE DEF acc, deeper
<1>4. Listed(nodes, deeper) /\ Named(nodes, deeper)
  <2>1. DOMAIN << >> = {}
    OBVIOUS
  <2>2. QED  BY <1>3, <2>1 DEF Listed, Named
<1>5. JavaOK(nodes, Popped(java))
  BY <1>2, JavaChanges DEF Inv
<1>6. JavaOK(nodes, java')
  BY <1>1, <1>3, <1>4, <1>5, JavaChanges
<1>7. QED  BY <1>1, <1>2, <1>6 DEF Inv, caches

(* What is made of a source directory.                                     *)
LEMMA DirAnaType ==
  ASSUME NEW acc \in JavaAccs
  PROVE  DirAna(acc) \in Analyses /\ Filter(acc) \in (SUBSET Symbols) \cup {Much}
<1>1. DirAna(acc) \in Analyses
  BY AnalysesAssumption DEF DirAna, JavaAccs
<1>2. DirAna(acc).refs \in SUBSET Symbols
  BY <1>1 DEF Analyses
<1>3. QED  BY <1>1, <1>2 DEF Filter

LEMMA JavaTop ==
  ASSUME NEW ns, NEW stack, JavaOK(ns, stack), stack # << >>
  PROVE  /\ Last(stack) \in JavaAccs /\ Listed(ns, Last(stack)) /\ Named(ns, Last(stack))
         /\ Last(stack) = stack[Len(stack)] /\ Len(stack) \in DOMAIN stack
         /\ 1 \in DOMAIN stack /\ stack[1] \in JavaAccs
<1>1. stack \in Seq(JavaAccs) /\ Len(stack) \in Nat \ {0} /\ DOMAIN stack = 1 .. Len(stack)
  BY EmptySeq, LenProperties DEF JavaOK
<1>2. Last(stack) = stack[Len(stack)] /\ Len(stack) \in DOMAIN stack /\ 1 \in DOMAIN stack
  BY <1>1 DEF Last
<1>3. stack[1] \in JavaAccs /\ stack[Len(stack)] \in JavaAccs
  BY <1>1, <1>2, ElementOfSeq
<1>4. QED  BY <1>2, <1>3 DEF JavaOK

(* The entity of a package, and what is kept of it.                        *)
LEMMA PackageMade ==
  ASSUME NEW all, Inv(all), CommitPackage
  PROVE  LET id == Len(nodes) + 1
             node == DirNode("Directory", Package, Filter(Package))
             made == [id |-> id, ana |-> DirAna(Package), skiped |-> Package.skiped]
         IN  /\ NodesOK(nodes', all) /\ Grows(nodes, nodes')
             /\ id \in DOMAIN nodes' /\ nodes'[id] = node /\ node.kind = "Directory"
             /\ node.name = Package.name
             /\ Package \in JavaAccs /\ java # << >> /\ Listed(nodes, Package)
             /\ made \in Mades /\ id \in Nat /\ id \notin DOMAIN nodes
<1> DEFINE id == Len(nodes) + 1
           node == DirNode("Directory", Package, Filter(Package))
           made == [id |-> id, ana |-> DirAna(Package), skiped |-> Package.skiped]
<1>1. InJava /\ nodes' = Append(nodes, node)
  BY DEF CommitPackage
<1>2. java # << >> /\ JavaOK(nodes, java) /\ NodesOK(nodes, all)
  BY <1>1 DEF InJava, Inv
<1>3. Package \in JavaAccs /\ Listed(nodes, Package) /\ Named(nodes, Package)
  BY <1>2, JavaTop DEF Package
<1>4. DirAna(Package) \in Analyses /\ Filter(Package) \in (SUBSET Symbols) \cup {Much}
  BY <1>3, DirAnaType
<1>5. PICK kind \in {"Directory", "MavenDirectory"} : kind = "Directory"
  OBVIOUS
<1>6. PICK refs \in (SUBSET Symbols) \cup {Much} : refs = Filter(Package)
  BY <1>4
<1>7. PICK acc \in JavaAccs : acc = Package
  BY <1>3
<1>8. /\ Listed(nodes, acc) /\ Named(nodes, acc) /\ acc.name \in Names
      /\ acc.names \in Seq(Names) /\ acc.children \in Seq(Nat)
  BY <1>3, <1>7 DEF JavaAccs
<1>9. LET n == DirNode(kind, acc, refs)
          ns2 == Append(nodes, n) IN
      /\ NodesOK(ns2, all) /\ Grows(nodes, ns2)
      /\ id \in Nat /\ id \in DOMAIN ns2 /\ ns2[id] = n
      /\ n.kind = kind /\ n.name = acc.name
  BY <1>2, <1>8, DirectoryMade
<1>10. /\ NodesOK(nodes', all) /\ Grows(nodes, nodes')
       /\ id \in DOMAIN nodes' /\ nodes'[id] = node /\ node.kind = "Directory"
       /\ node.name = Package.name /\ id \in Nat
  BY <1>1, <1>5, <1>6, <1>7, <1>9
<1>11. made \in Mades
  BY <1>3, <1>4, <1>10 DEF Mades, JavaAccs
<1>12. id \notin DOMAIN nodes
  BY <1>2, LenProperties DEF NodesOK
<1>13. QED  BY <1>2, <1>3, <1>10, <1>11, <1>12

LEMMA CommitPackageKeeps ==
  ASSUME NEW all, Inv(all), CommitPackage
  PROVE  Inv(all)'
<1> DEFINE id == Len(nodes) + 1
           made == [id |-> id, ana |-> DirAna(Package), skiped |-> Package.skiped]
           below == Front(java)
<1>1. /\ InJava
      /\ objectMapJava' =
           With(objectMapJava, JavaKey(Package.tree, java[1].name), made)
      /\ IF below = << >>
         THEN /\ java' = << >>
              /\ maven' = OnTop(maven, PushChild(Module, Package.name, id))
         ELSE /\ java' = OnTop(below, Push(Last(below), Package.name, made))
              /\ UNCHANGED maven
      /\ UNCHANGED <<session, path, objectMap, objectMapPom, commits, panicked>>
  BY DEF CommitPackage
<1>2. /\ NodesOK(nodes', all) /\ Grows(nodes, nodes')
      /\ id \in DOMAIN nodes' /\ nodes'[id].name = Package.name
      /\ Package \in JavaAccs /\ java # << >> /\ made \in Mades /\ id \in Nat
  BY PackageMade
<1>3. maven # << >> /\ made.id = id /\ Package.name \in Names
  BY <1>2 DEF Inv, JavaAccs
<1>4. /\ MavenOK(nodes', maven, all) /\ JavaOK(nodes', java)
      /\ MapsOK(nodes', objectMap', objectMapPom') /\ MadesOK(nodes', objectMapJava)
  <2>1. /\ MavenOK(nodes', maven, all) /\ JavaOK(nodes', java)
        /\ MapsOK(nodes', objectMap, objectMapPom) /\ MadesOK(nodes', objectMapJava)
    BY <1>2, OKStays DEF Inv
  <2>2. QED  BY <1>1, <2>1
<1>5. CommitsOK(nodes', commits')
  BY <1>1, <1>2 DEF Inv, CommitsOK, Grows
<1> HIDE DEF made
<1>6. MadesOK(nodes', objectMapJava')
  BY <1>1, <1>2, <1>3, <1>4 DEF MadesOK, With
<1>7. JavaOK(nodes', below)
  BY <1>2, <1>4, JavaTop, JavaChanges
<1>8. CASE below = << >>
  <2> DEFINE pushed == PushChild(Module, Package.name, id)
  <2>1. Module \in MavenAccs /\ Listed(nodes', Module) /\ (all => Named(nodes', Module))
    <3>1. maven \in Seq(MavenAccs)
      BY DEF Inv, MavenOK
    <3>2. PICK a : a \in MavenAccs
      BY <1>3, <3>1, EmptySeq, LenProperties, ElementOfSeq
    <3>3. /\ Module = maven[Len(maven)] /\ Len(maven) \in DOMAIN maven
          /\ Module \in MavenAccs
      BY <1>3, <3>1, <3>2, StackTop DEF Module
    <3>4. QED  BY <1>4, <3>3 DEF MavenOK
  <2>2. /\ pushed \in MavenAccs
        /\ pushed.names = Append(Module.names, Package.name)
        /\ pushed.children = Append(Module.children, id)
    BY <1>2, <1>3, <2>1, MavenPushed
  <2>3. Module.names \in Seq(Names) /\ Module.children \in Seq(Nat)
    BY <2>1 DEF MavenAccs
  <2>4. maven' = OnTop(maven, pushed) /\ java' = << >>
    BY <1>1, <1>8
  <2> HIDE DEF pushed, id, below
  <2>5. Listed(nodes', pushed) /\ (all => Named(nodes', pushed))
    BY <1>2, <1>3, <2>1, <2>2, <2>3, ListedPushed
  <2>6. MavenOK(nodes', maven', all)
    BY <1>3, <1>4, <2>2, <2>4, <2>5, MavenChanges
  <2>7. maven' # << >>
    BY <1>3, <2>2, <2>4, StackTop DEF Inv, MavenOK
  <2>8. JavaOK(nodes', java')
    BY <1>7, <1>8, <2>4
  <2>9. QED  BY <1>1, <1>2, <1>3, <1>4, <1>5, <1>6, <2>4, <2>6, <2>7, <2>8 DEF Inv
<1>9. CASE below # << >>
  <2> DEFINE pushed == Push(Last(below), Package.name, made)
  <2>1. java' = OnTop(below, pushed) /\ maven' = maven
    BY <1>1, <1>9
  <2>2. /\ Last(below) \in JavaAccs /\ Listed(nodes', Last(below))
        /\ Named(nodes', Last(below))
    BY <1>7, <1>9, JavaTop
  <2>3. pushed \in JavaAccs /\ Listed(nodes', pushed) /\ Named(nodes', pushed)
    BY <1>2, <1>3, <2>2, JavaChild
  <2> HIDE DEF pushed, id, below
  <2>4. JavaOK(nodes', java')
    BY <1>7, <1>9, <2>1, <2>3, JavaChanges
  <2>5. QED  BY <1>1, <1>2, <1>3, <1>4, <1>5, <1>6, <2>1, <2>4 DEF Inv
<1>10. QED  BY <1>8, <1>9

LEMMA Begins ==
  ASSUME NEW all, Init
  PROVE  Inv(all)
<1>1. /\ nodes = << >> /\ maven = << >> /\ java = << >> /\ commits = << >>
      /\ objectMap = << >> /\ objectMapPom = << >> /\ objectMapJava = << >>
      /\ panicked = FALSE /\ session \in Seq(Requests)
  BY ObjectsAssumption DEF Init
<1>2. DOMAIN << >> = {}
  OBVIOUS
<1>3. NodesOK(nodes, all) /\ MavenOK(nodes, maven, all) /\ JavaOK(nodes, java)
  BY <1>1, <1>2, EmptySeq DEF NodesOK, MavenOK, JavaOK
<1>4. /\ MapsOK(nodes, objectMap, objectMapPom) /\ MadesOK(nodes, objectMapJava)
      /\ CommitsOK(nodes, commits)
  BY <1>1, <1>2, EmptySeq DEF MapsOK, MadesOK, CommitsOK
<1>5. QED  BY <1>1, <1>3, <1>4 DEF Inv

\* served from object_map under the name it was made with
SameName == ReuseDirectory => nodes[objectMap[Entry.object]].name = Entry.name

LEMMA NextKeeps ==
  ASSUME NEW all, Inv(all), [Next]_vars, all => SameName
  PROVE  Inv(all)'
<1>1. CASE HandleCommit
  BY <1>1, HandleCommitKeeps
<1>2. CASE ForwardToModule
  BY <1>2, ForwardToModuleKeeps
<1>3. CASE IgnoreEntry
  BY <1>3, IgnoreEntryKeeps
<1>4. CASE ReuseDirectory
  BY <1>4, ReuseDirectoryKeeps DEF SameName
<1>5. CASE ReuseDirectoryPanics
  BY <1>5 DEF ReuseDirectoryPanics, Inv, caches
<1>6. CASE EnterSources
  BY <1>6, EnterSourcesKeeps
<1>7. CASE EnterDirectory
  BY <1>7, EnterDirectoryKeeps
<1>8. CASE ReusePom
  BY <1>8, ReusePomKeeps
<1>9. CASE GeneratePom
  BY <1>9, GeneratePomKeeps
<1>10. CASE CommitModule
  BY <1>10, CommitModuleKeeps
<1>11. CASE IgnoreBlob
  BY <1>11, IgnoreBlobKeeps
<1>12. CASE ReuseItem
  BY <1>12, ReuseItemKeeps
<1>13. CASE ReusePanics
  BY <1>13 DEF ReusePanics, Inv, caches
<1>14. CASE GenerateJava
  BY <1>14, GenerateJavaKeeps
<1>15. CASE EnterPackage
  BY <1>15, EnterPackageKeeps
<1>16. CASE CommitPackage
  BY <1>16, CommitPackageKeeps
<1>17. CASE UNCHANGED vars
  BY <1>17 DEF vars, caches, Inv
<1>18. QED
  BY <1>1, <1>2, <1>3, <1>4, <1>5, <1>6, <1>7, <1>8, <1>9, <1>10, <1>11,
     <1>12, <1>13, <1>14, <1>15, <1>16, <1>17 DEF Next, Step

LEMMA InvTypeOK ==
  ASSUME NEW all, Inv(all)
  PROVE  TypeOK
<1>1. DOMAIN nodes = 1 .. Len(nodes) /\ Len(nodes) \in Nat
  BY LenProperties DEF Inv, NodesOK
<1>2. \A i \in DOMAIN nodes :
        /\ Len(nodes[i].names) = Len(nodes[i].children)
        /\ Range(nodes[i].children) \subseteq 1..(i - 1)
  BY DEF Inv, NodesOK
<1>3. \A d \in DOMAIN maven : Range(maven[d].children) \subseteq DOMAIN nodes
  BY DEF Inv, MavenOK, Listed, Range
<1>4. \A d \in DOMAIN java : Range(java[d].children) \subseteq DOMAIN nodes
  BY DEF Inv, JavaOK, Listed, Range
<1>5. Range(objectMap) \cup Range(objectMapPom) \subseteq DOMAIN nodes
  BY DEF Inv, MapsOK, Range
<1>6. \A made \in Range(objectMapJava) : made.id \in DOMAIN nodes
  BY DEF Inv, MadesOK, Range
<1>7. \A c \in Range(commits) : c.root \in DOMAIN nodes
  BY DEF Inv, CommitsOK, Range
<1>8. QED  BY <1>2, <1>3, <1>4, <1>5, <1>6, <1>7 DEF TypeOK, Inv

(* Whatever the history, entities point to entities made before them, and  *)
(* stacks and maps of preprocessed.rs to entities of the store.            *)
THEOREM TypeCorrect == Spec => []TypeOK
<1>1. Init => Inv(FALSE)
  BY Begins
<1>2. Inv(FALSE) /\ [Next]_vars => Inv(FALSE)'
  BY NextKeeps
<1>3. Inv(FALSE) => TypeOK
  BY InvTypeOK
<1>4. QED  BY <1>1, <1>2, <1>3, PTL DEF Spec

(* Directories of sources, which handle_java_src makes, name their         *)
(* children as the children do, whatever is served from object_map_java.   *)
SourcesNamed ==
  \A i \in DOMAIN nodes : nodes[i].kind # "MavenDirectory" =>
    \A k \in DOMAIN nodes[i].children :
      nodes[nodes[i].children[k]].name = nodes[i].names[k]

\* Every directory of sources does, in every session.
THEOREM SourcesAlwaysNamed == Spec => []SourcesNamed
<1>1. Init => Inv(FALSE)
  BY Begins
<1>2. Inv(FALSE) /\ [Next]_vars => Inv(FALSE)'
  BY NextKeeps
<1>3. Inv(FALSE) => SourcesNamed
  BY DEF Inv, NodesOK, Named, SourcesNamed
<1>4. QED  BY <1>1, <1>2, <1>3, PTL DEF Spec

(* NamesAgree can only be broken by the search for modules, when it serves *)
(* a directory from object_map under another name than it was made with.   *)
THEOREM NamesAgreeUnlessRenamed ==
  Spec /\ [][SameName]_vars => []NamesAgree
<1>1. Init => Inv(TRUE)
  BY Begins
<1>2. Inv(TRUE) /\ [Next]_vars /\ [SameName]_vars => Inv(TRUE)'
  <2>1. SUFFICES ASSUME Inv(TRUE), [Next]_vars, [SameName]_vars
                 PROVE  Inv(TRUE)'
    OBVIOUS
  <2>2. CASE SameName
    BY <2>1, <2>2, NextKeeps
  <2>3. CASE UNCHANGED vars
    BY <2>1, <2>3 DEF vars, caches, Inv
  <2>4. QED  BY <2>1, <2>2, <2>3
<1>3. Inv(TRUE) => NamesAgree
  BY DEF Inv, NodesOK, Named, NamesAgree
<1>4. QED  BY <1>1, <1>2, <1>3, PTL DEF Spec

(***************************************************************************)
(* Assertions on the names of what is cached                               *)
(***************************************************************************)

\* a child of a directory of modules, made or accumulated
IsChild(ns, stack, c) ==
  \/ \E i \in DOMAIN ns : ns[i].kind = "MavenDirectory" /\ c \in Range(ns[i].children)
  \/ \E d \in DOMAIN stack : c \in Range(stack[d].children)

\* a source directory was found under this name
IsFound(ns, stack, name) ==
  \E c \in DOMAIN ns :
    ns[c].kind = "Directory" /\ ns[c].name = name /\ IsChild(ns, stack, c)

IsNamesake(ns, stack, sources, k) ==
  /\ k[1] \notin Blobs
  /\ IsFound(ns, stack, k[2]) \/ (sources # << >> /\ k[2] = sources[1].name)

\* what was made of an object has the name it is kept under, unless it is a
\* directory in a source directory of that name
Kin(ns, stack, sources, mades) ==
  \A k \in DOMAIN mades :
    ns[mades[k].id].name = k[2] \/ IsNamesake(ns, stack, sources, k)

Namesakes == Kin(nodes, maven, java, objectMapJava)

\* children stay children
ChildrenKept(ns2, stack, stack2) ==
  \A d \in DOMAIN stack : \A c \in Range(stack[d].children) : IsChild(ns2, stack2, c)

LEMMA FoundStays ==
  ASSUME NEW ns, NEW ns2, Grows(ns, ns2), NEW stack, NEW stack2,
         ChildrenKept(ns2, stack, stack2), NEW name, IsFound(ns, stack, name)
  PROVE  IsFound(ns2, stack2, name)
<1>1. PICK c \in DOMAIN ns :
        ns[c].kind = "Directory" /\ ns[c].name = name /\ IsChild(ns, stack, c)
  BY DEF IsFound
<1>2. c \in DOMAIN ns2 /\ ns2[c] = ns[c]
  BY DEF Grows
<1>3. IsChild(ns2, stack2, c)
  <2>1. CASE \E i \in DOMAIN ns : /\ ns[i].kind = "MavenDirectory"
                                  /\ c \in Range(ns[i].children)
    BY <2>1 DEF IsChild, Grows
  <2>2. CASE \E d \in DOMAIN stack : c \in Range(stack[d].children)
    BY <2>2 DEF ChildrenKept
  <2>3. QED  BY <1>1, <2>1, <2>2 DEF IsChild
<1>4. QED  BY <1>1, <1>2, <1>3 DEF IsFound

\* the source directory that is walked is the same, or it was found
SameSource(ns2, stack2, sources, sources2) ==
  sources # << >> =>
    \/ sources2 # << >> /\ sources2[1].name = sources[1].name
    \/ IsFound(ns2, stack2, sources[1].name)

LEMMA KinStays ==
  ASSUME NEW ns, NEW ns2, Grows(ns, ns2), NEW stack, NEW stack2,
         ChildrenKept(ns2, stack, stack2), NEW sources, NEW sources2,
         SameSource(ns2, stack2, sources, sources2),
         NEW mades, MadesOK(ns, mades), Kin(ns, stack, sources, mades)
  PROVE  Kin(ns2, stack2, sources2, mades)
<1>1. SUFFICES ASSUME NEW k \in DOMAIN mades
               PROVE  \/ ns2[mades[k].id].name = k[2]
                      \/ IsNamesake(ns2, stack2, sources2, k)
  BY DEF Kin
<1>2. ns2[mades[k].id] = ns[mades[k].id]
  BY DEF MadesOK, Grows
<1>3. CASE ns[mades[k].id].name = k[2]
  BY <1>2, <1>3
<1>4. CASE IsNamesake(ns, stack, sources, k)
  <2>1. IsFound(ns, stack, k[2]) => IsFound(ns2, stack2, k[2])
    BY FoundStays
  <2>2. QED  BY <1>4, <2>1 DEF IsNamesake, SameSource
<1>5. QED  BY <1>3, <1>4 DEF Kin

(* One more object is kept.                                                *)
LEMMA KinMade ==
  ASSUME NEW ns, NEW stack, NEW sources, NEW mades, Kin(ns, stack, sources, mades),
         NEW k, NEW made,
         ns[made.id].name = k[2] \/ IsNamesake(ns, stack, sources, k)
  PROVE  Kin(ns, stack, sources, With(mades, k, made))
BY DEF Kin, With

LEMMA Wider ==
  ASSUME NEW S, NEW T, S \subseteq T, NEW s \in Seq(S)
  PROVE  s \in Seq(T)
<1>1. s = [i \in 1 .. Len(s) |-> s[i]] /\ Len(s) \in Nat
  BY LenProperties
<1>2. \A i \in 1 .. Len(s) : s[i] \in T
  BY ElementOfSeq
<1>3. QED  BY <1>1, <1>2

(* Stacks that keep their children and the name of their first.            *)
LEMMA TopKept ==
  ASSUME NEW ns2, NEW stack \in Seq(MavenAccs), stack # << >>, NEW acc,
         Range(Last(stack).children) \subseteq Range(acc.children), NEW deeper
  PROVE  /\ ChildrenKept(ns2, stack, OnTop(stack, acc))
         /\ ChildrenKept(ns2, stack, Append(OnTop(stack, acc), deeper))
<1> DEFINE S == MavenAccs \cup {acc, deeper}
<1>0. stack \in Seq(S) /\ acc \in S /\ deeper \in S
  BY Wider
<1> HIDE DEF S
<1>1. /\ OnTop(stack, acc) \in Seq(S)
      /\ DOMAIN OnTop(stack, acc) = DOMAIN stack /\ Last(stack) = stack[Len(stack)]
      /\ \A d \in DOMAIN stack : OnTop(stack, acc)[d] = IF d = Len(stack) THEN acc ELSE stack[d]
  BY <1>0, StackTop
<1>2. /\ DOMAIN stack \subseteq DOMAIN Append(OnTop(stack, acc), deeper)
      /\ \A d \in DOMAIN stack : Append(OnTop(stack, acc), deeper)[d] = OnTop(stack, acc)[d]
  BY <1>0, <1>1, StackPush
<1>3. ASSUME NEW d \in DOMAIN stack, NEW c \in Range(stack[d].children)
      PROVE  c \in Range(OnTop(stack, acc)[d].children)
  BY <1>1, <1>3
<1>4. ChildrenKept(ns2, stack, OnTop(stack, acc))
  BY <1>1, <1>3 DEF ChildrenKept, IsChild
<1>5. ChildrenKept(ns2, stack, Append(OnTop(stack, acc), deeper))
  BY <1>1, <1>2, <1>3 DEF ChildrenKept, IsChild
<1>6. QED  BY <1>4, <1>5

LEMMA FirstKept ==
  ASSUME NEW stack \in Seq(JavaAccs), stack # << >>, NEW acc,
         acc.name = Last(stack).name, NEW deeper
  PROVE  /\ OnTop(stack, acc) # << >> /\ OnTop(stack, acc)[1].name = stack[1].name
         /\ Append(OnTop(stack, acc), deeper) # << >>
         /\ Append(OnTop(stack, acc), deeper)[1].name = stack[1].name
<1> DEFINE S == JavaAccs \cup {acc, deeper}
<1>0. stack \in Seq(S) /\ acc \in S /\ deeper \in S
  BY Wider
<1> HIDE DEF S
<1>1. /\ OnTop(stack, acc) \in Seq(S) /\ OnTop(stack, acc) # << >>
      /\ DOMAIN OnTop(stack, acc) = DOMAIN stack /\ Last(stack) = stack[Len(stack)]
      /\ \A d \in DOMAIN stack : OnTop(stack, acc)[d] = IF d = Len(stack) THEN acc ELSE stack[d]
  BY <1>0, StackTop
<1>2. 1 \in DOMAIN stack
  BY EmptySeq, LenProperties
<1>3. /\ Append(OnTop(stack, acc), deeper) # << >>
      /\ Append(OnTop(stack, acc), deeper)[1] = OnTop(stack, acc)[1]
  BY <1>0, <1>1, <1>2, StackPush
<1>4. QED  BY <1>1, <1>2, <1>3

(* Steps of the search for modules: nothing is made of Java sources.       *)
LEMMA ModulesNamesakes ==
  ASSUME NEW all, Inv(all), Namesakes, Exploring, Grows(nodes, nodes'),
         NEW acc, Range(Module.children) \subseteq Range(acc.children),
         \/ maven' = OnTop(maven, acc)
         \/ \E deeper : maven' = Append(OnTop(maven, acc), deeper),
         UNCHANGED objectMapJava
  PROVE  Namesakes'
<1>1. maven # << >> /\ java = << >> /\ maven \in Seq(MavenAccs)
  BY AtEntry
<1>2. ChildrenKept(nodes', maven, maven')
  <2>1. Range(Last(maven).children) \subseteq Range(acc.children)
    BY DEF Module
  <2>2. \A deeper : /\ ChildrenKept(nodes', maven, OnTop(maven, acc))
                    /\ ChildrenKept(nodes', maven, Append(OnTop(maven, acc), deeper))
    BY <1>1, <2>1, TopKept
  <2>3. QED  BY <2>2
<1>3. SameSource(nodes', maven', java, java')
  BY <1>1 DEF SameSource
<1>4. MadesOK(nodes, objectMapJava) /\ Kin(nodes, maven, java, objectMapJava)
  BY DEF Inv, Namesakes
<1>5. Kin(nodes', maven', java', objectMapJava)
  BY <1>2, <1>3, <1>4, KinStays
<1>6. QED  BY <1>5 DEF Namesakes

LEMMA ExploringNamesakes ==
  ASSUME Inv(FALSE), Namesakes,
         \/ ForwardToModule \/ IgnoreEntry \/ ReuseDirectory \/ EnterSources
         \/ EnterDirectory \/ ReusePom \/ GeneratePom
  PROVE  Namesakes'
<1> DEFINE acc == Last(Popped(maven))
<1>1. Grows(nodes, nodes)
  BY DEF Grows
<1>2. CASE ForwardToModule
  <2>1. [Module EXCEPT !.todo = << >>].children = Module.children
    BY <1>2, AtEntry DEF MavenAccs, ForwardToModule
  <2>2. QED
    BY <1>1, <1>2, <2>1, ModulesNamesakes DEF ForwardToModule, caches
<1>3. CASE IgnoreEntry
  <2>1. Exploring /\ maven' = Popped(maven) /\ UNCHANGED <<nodes, objectMapJava>>
    BY <1>3 DEF IgnoreEntry, caches
  <2>2. acc.children = Module.children /\ Popped(maven) = OnTop(maven, acc)
    BY <2>1, AtEntry
  <2>3. QED  BY <1>1, <2>1, <2>2, ModulesNamesakes
<1>4. ASSUME NEW name \in Names, NEW id \in Nat, Exploring
      PROVE  /\ Range(Module.children) \subseteq Range(PushChild(acc, name, id).children)
             /\ Range(Module.children) \subseteq Range(PushPom(acc, id).children)
  <2>1. acc \in MavenAccs /\ acc.children = Module.children /\ acc.children \in Seq(Nat)
    BY <1>4, AtEntry DEF MavenAccs
  <2>2. /\ PushChild(acc, name, id).children = Append(acc.children, id)
        /\ PushPom(acc, id).children = Append(acc.children, id)
    BY <2>1, MavenPushed, PomPushed
  <2>3. Range(Append(acc.children, id)) = Range(acc.children) \cup {id}
    BY <2>1, RangeAppended
  <2>4. QED  BY <2>1, <2>2, <2>3
<1>5. \A i \in DOMAIN nodes : i \in Nat
  BY LenProperties DEF Inv, NodesOK
<1>6. CASE ReuseDirectory
  <2>1. /\ Exploring /\ objectMap[Entry.object] \in DOMAIN nodes
        /\ maven' = OnTop(maven, PushChild(acc, Entry.name, objectMap[Entry.object]))
        /\ UNCHANGED <<nodes, objectMapJava>>
    BY <1>6 DEF ReuseDirectory, Inv, MapsOK, caches
  <2>2. Entry.name \in Names
    BY <2>1, AtEntry
  <2> HIDE DEF acc
  <2>3. QED  BY <1>1, <1>4, <1>5, <2>1, <2>2, ModulesNamesakes
<1>7. CASE ReusePom
  <2>1. /\ Exploring /\ objectMapPom[Entry.object] \in DOMAIN nodes
        /\ maven' = OnTop(maven, PushPom(acc, objectMapPom[Entry.object]))
        /\ UNCHANGED <<nodes, objectMapJava>>
    BY <1>7 DEF ReusePom, AtPom, Inv, MapsOK, caches
  <2>2. Entry.name \in Names
    BY <2>1, AtEntry
  <2> HIDE DEF acc
  <2>3. QED  BY <1>1, <1>4, <1>5, <2>1, <2>2, ModulesNamesakes
<1>8. CASE GeneratePom
  <2> DEFINE node == FileNode(Entry.name, Entry.object)
             id == IdOf(nodes, node)
  <2>1. /\ Exploring /\ ~IsTree(Entry)
        /\ maven' = OnTop(maven, PushPom(acc, id))
        /\ nodes' = Interned(nodes, node) /\ UNCHANGED objectMapJava
    BY <1>8 DEF GeneratePom, AtPom, IsPom
  <2>2. Entry.name \in Names /\ Entry.object \in Blobs
    BY <2>1, AtEntry
  <2>3. Grows(nodes, nodes') /\ id \in Nat
    BY <2>1, <2>2, FileInterned DEF Inv
  <2> HIDE DEF acc, id
  <2>4. QED  BY <1>4, <2>1, <2>2, <2>3, ModulesNamesakes
<1>9. ASSUME NEW name, Exploring
      PROVE  [acc EXCEPT !.dirs = Kept(@, name)].children = Module.children
  <2>1. acc \in MavenAccs /\ acc.children = Module.children
    BY <1>9, AtEntry
  <2> HIDE DEF acc
  <2>2. QED  BY <2>1 DEF MavenAccs
<1>10. CASE EnterSources
  <2>1. /\ Exploring /\ UNCHANGED <<nodes, objectMapJava>>
        /\ maven' = OnTop(maven, [acc EXCEPT !.dirs = Kept(@, Entry.name)])
    BY <1>10 DEF EnterSources, ToExplore, caches
  <2> HIDE DEF acc
  <2>2. QED  BY <1>1, <1>9, <2>1, ModulesNamesakes
<1>11. CASE EnterDirectory
  <2>1. /\ Exploring /\ UNCHANGED <<nodes, objectMapJava>>
        /\ \E deeper :
             maven' = Append(OnTop(maven, [acc EXCEPT !.dirs = Kept(@, Entry.name)]), deeper)
    BY <1>11 DEF EnterDirectory, ToExplore, caches
  <2> HIDE DEF acc
  <2>2. QED  BY <1>1, <1>9, <2>1, ModulesNamesakes
<1>12. QED  BY <1>2, <1>3, <1>6, <1>7, <1>8, <1>10, <1>11

LEMMA HandleCommitNamesakes ==
  ASSUME Inv(FALSE), Namesakes, HandleCommit
  PROVE  Namesakes'
<1>1. maven = << >> /\ java = << >> /\ UNCHANGED <<java, nodes, objectMapJava>>
  BY DEF HandleCommit, Inv, caches
<1>2. DOMAIN << >> = {}
  OBVIOUS
<1>3. ChildrenKept(nodes, maven, maven') /\ Grows(nodes, nodes)
  BY <1>1, <1>2 DEF ChildrenKept, Grows
<1>4. SameSource(nodes, maven', java, java')
  BY <1>1 DEF SameSource
<1>5. Kin(nodes, maven', java', objectMapJava)
  BY <1>3, <1>4, KinStays DEF Inv, Namesakes
<1>6. QED  BY <1>1, <1>5 DEF Namesakes

(* The children of a directory of modules go to its entity.                *)
LEMMA CommitModuleNamesakes ==
  ASSUME Inv(FALSE), Namesakes, CommitModule
  PROVE  Namesakes'
<1> DEFINE id == Len(nodes) + 1
           node == DirNode("MavenDirectory", Module, Much)
           below == Front(maven)
           pushed == PushChild(Last(below), Module.name, id)
<1>1. /\ maven # << >> /\ java = << >> /\ UNCHANGED <<java, objectMapJava>>
      /\ nodes' = Append(nodes, node)
      /\ maven' = IF below = << >> THEN << >> ELSE OnTop(below, pushed)
  BY DEF CommitModule, InMaven
<1>2. nodes \in Seq(Entities) /\ maven \in Seq(MavenAccs)
  BY DEF Inv, NodesOK, MavenOK
<1>3. /\ Grows(nodes, nodes') /\ id \in DOMAIN nodes' /\ id \in Nat
      /\ nodes'[id].kind = "MavenDirectory" /\ nodes'[id].children = Module.children
  <2>1. DOMAIN nodes = 1 .. Len(nodes) /\ Len(nodes) \in Nat
    BY <1>2, LenProperties
  <2>2. nodes'[id] = node /\ id \in DOMAIN nodes' /\ Grows(nodes, nodes')
    BY <1>1, <1>2, <2>1, AppendProperties DEF Grows
  <2>3. QED  BY <2>1, <2>2 DEF DirNode
<1>4. /\ below \in Seq(MavenAccs) /\ DOMAIN below = DOMAIN maven \ {Len(maven)}
      /\ \A d \in DOMAIN below : below[d] = maven[d]
      /\ Module = maven[Len(maven)]
  BY <1>1, <1>2, StackPop DEF Module, Last
<1>5. ChildrenKept(nodes', below, maven')
  <2>1. CASE below = << >>
    <3>1. DOMAIN << >> = {}
      OBVIOUS
    <3>2. QED  BY <2>1, <3>1 DEF ChildrenKept
  <2>2. CASE below # << >>
    <3>1. Last(below) \in MavenAccs
      BY <1>4, <2>2, TopIn
    <3>2. Module \in MavenAccs
      BY <1>1, <1>2, TopIn DEF Module
    <3>3. pushed.children = Append(Last(below).children, id)
      BY <1>3, <3>1, <3>2, MavenPushed DEF MavenAccs
    <3>4. Last(below).children \in Seq(Nat)
      BY <3>1 DEF MavenAccs
    <3>5. Range(Last(below).children) \subseteq Range(pushed.children)
      BY <1>3, <3>3, <3>4, RangeAppended
    <3> HIDE DEF pushed, below
    <3>6. ChildrenKept(nodes', below, OnTop(below, pushed))
      BY <1>4, <2>2, <3>5, TopKept
    <3>7. QED  BY <1>1, <2>2, <3>6
  <2>3. QED  BY <2>1, <2>2
<1>6. ChildrenKept(nodes', maven, maven')
  BY <1>3, <1>4, <1>5 DEF ChildrenKept, IsChild
<1>7. SameSource(nodes', maven', java, java')
  BY <1>1 DEF SameSource
<1>8. Kin(nodes', maven', java', objectMapJava)
  BY <1>3, <1>6, <1>7, KinStays DEF Inv, Namesakes
<1>9. QED  BY <1>1, <1>8 DEF Namesakes

(* Steps in a source directory that stay in it.                            *)
LEMMA SourcesNamesakes ==
  ASSUME Inv(FALSE), Namesakes, Reading, Grows(nodes, nodes'),
         NEW acc, acc.name = Package.name,
         \/ java' = OnTop(java, acc)
         \/ \E deeper : java' = Append(OnTop(java, acc), deeper),
         UNCHANGED maven
  PROVE  /\ Kin(nodes', maven', java', objectMapJava)
         /\ java' # << >> /\ java'[1].name = java[1].name
<1>1. java # << >> /\ java \in Seq(JavaAccs)
  BY AtItem
<1>2. java' # << >> /\ java'[1].name = java[1].name
  BY <1>1, FirstKept DEF Package
<1>3. ChildrenKept(nodes', maven, maven')
  BY DEF ChildrenKept, IsChild
<1>4. SameSource(nodes', maven', java, java')
  BY <1>2 DEF SameSource
<1>5. QED  BY <1>2, <1>3, <1>4, KinStays DEF Inv, Namesakes

LEMMA ReadingNamesakes ==
  ASSUME Inv(FALSE), Namesakes,
         IgnoreBlob \/ ReuseItem \/ GenerateJava \/ EnterPackage
  PROVE  Namesakes'
<1> DEFINE acc == Last(Popped(java))
<1>1. Grows(nodes, nodes)
  BY DEF Grows
<1>2. ASSUME NEW name \in Names, NEW made \in Mades, Reading
      PROVE  Push(acc, name, made).name = Package.name
  BY <1>2, AtItem, JavaPushed
<1>3. CASE IgnoreBlob
  <2>1. Reading /\ java' = Popped(java) /\ UNCHANGED <<maven, nodes, objectMapJava>>
    BY <1>3 DEF IgnoreBlob, caches
  <2>2. acc.name = Package.name /\ Popped(java) = OnTop(java, acc)
    BY <2>1, AtItem
  <2>3. QED  BY <1>1, <2>1, <2>2, SourcesNamesakes DEF Namesakes
<1>4. CASE ReuseItem
  <2>1. /\ Reading /\ Known /\ UNCHANGED <<maven, nodes, objectMapJava>>
        /\ java' = OnTop(java, Push(acc, Item.name, Already))
    BY <1>4 DEF ReuseItem, caches
  <2>2. Already \in Mades /\ Item.name \in Names
    BY <2>1, AtItem DEF Known, Already, Inv, MadesOK
  <2> HIDE DEF acc
  <2>3. QED  BY <1>1, <1>2, <2>1, <2>2, SourcesNamesakes DEF Namesakes
<1>5. CASE EnterPackage
  <2>1. /\ Reading /\ UNCHANGED <<maven, nodes, objectMapJava>>
        /\ \E deeper : java' = Append(Popped(java), deeper)
    BY <1>5 DEF EnterPackage, caches
  <2>2. acc.name = Package.name /\ Popped(java) = OnTop(java, acc)
    BY <2>1, AtItem
  <2>3. QED  BY <1>1, <2>1, <2>2, SourcesNamesakes DEF Namesakes
<1>6. CASE GenerateJava
  <2> DEFINE node == FileNode(Item.name, Item.object)
             made == [id |-> IdOf(nodes, node), ana |-> AnaOf(Item.object),
                      skiped |-> FALSE]
             key == JavaKey(Item.object, Item.name)
  <2>1. /\ Reading /\ ~IsTree(Item) /\ UNCHANGED maven
        /\ nodes' = Interned(nodes, node)
        /\ objectMapJava' = With(objectMapJava, key, made)
        /\ java' = OnTop(java, Push(acc, Item.name, made))
    BY <1>6 DEF GenerateJava
  <2>2. Item.name \in Names /\ Item.object \in Blobs
    BY <2>1, AtItem
  <2>3. /\ Grows(nodes, nodes') /\ made.id \in Nat /\ nodes'[made.id] = node
    BY <2>1, <2>2, FileInterned DEF Inv
  <2>4. made \in Mades /\ nodes'[made.id].name = key[2]
    BY <2>2, <2>3, AnalysesAssumption DEF Mades, FileNode, JavaKey
  <2> HIDE DEF made, key, node, acc
  <2>5. Kin(nodes', maven', java', objectMapJava)
    BY <1>2, <2>1, <2>2, <2>3, <2>4, SourcesNamesakes
  <2>6. Kin(nodes', maven', java', With(objectMapJava, key, made))
    BY <2>4, <2>5, KinMade
  <2>7. QED  BY <2>1, <2>6 DEF Namesakes
<1>7. QED  BY <1>3, <1>4, <1>5, <1>6

(* A source directory is found from now on when its walk ends.             *)
LEMMA CommitPackageNamesakes ==
  ASSUME Inv(FALSE), Namesakes, CommitPackage
  PROVE  Namesakes'
<1> DEFINE id == Len(nodes) + 1
           node == DirNode("Directory", Package, Filter(Package))
           made == [id |-> id, ana |-> DirAna(Package), skiped |-> Package.skiped]
           below == Front(java)
           key == JavaKey(Package.tree, java[1].name)
           pushed == PushChild(Module, Package.name, id)
           more == Push(Last(below), Package.name, made)
<1>1. /\ objectMapJava' = With(objectMapJava, key, made)
      /\ IF below = << >>
         THEN java' = << >> /\ maven' = OnTop(maven, pushed)
         ELSE java' = OnTop(below, more) /\ UNCHANGED maven
  BY DEF CommitPackage
<1>2. /\ Grows(nodes, nodes') /\ id \in DOMAIN nodes' /\ id \in Nat
      /\ nodes'[id].name = Package.name /\ nodes'[id].kind = "Directory"
      /\ Package \in JavaAccs /\ java # << >> /\ made \in Mades
  BY PackageMade
<1>3. /\ JavaOK(nodes, java) /\ java \in Seq(JavaAccs) /\ maven # << >>
      /\ maven \in Seq(MavenAccs) /\ Package.name \in Names
  BY <1>2 DEF Inv, JavaOK, MavenOK, JavaAccs
<1>4. /\ below \in Seq(JavaAccs) /\ Len(below) = Len(java) - 1
      /\ DOMAIN below = DOMAIN java \ {Len(java)}
      /\ \A d \in DOMAIN below : below[d] = java[d]
  BY <1>2, <1>3, StackPop
<1>5. ChildrenKept(nodes', maven, maven')
      /\ (IF below = << >> THEN IsFound(nodes', maven', java[1].name)
          ELSE java' # << >> /\ java'[1].name = java[1].name)
  <2>1. CASE below = << >>
    <3>1. Package.name = java[1].name
      <4>1. Len(java) \in Nat \ {0} /\ Last(java) = java[Len(java)]
        BY <1>2, <1>3, TopIn
      <4>2. Len(below) = 0
        BY <2>1
      <4>3. Len(java) = 1
        BY <1>4, <4>1, <4>2
      <4>4. QED  BY <4>1, <4>3 DEF Package
    <3>2. Module \in MavenAccs /\ Module = Last(maven)
      BY <1>3, TopIn DEF Module
    <3>3. pushed.children = Append(Module.children, id) /\ Module.children \in Seq(Nat)
          /\ pushed \in MavenAccs
      <4>1. Module.children \in Seq(Nat)
        BY <3>2 DEF MavenAccs
      <4>2. QED  BY <1>2, <1>3, <3>2, <4>1, MavenPushed
    <3>4. Range(pushed.children) = Range(Module.children) \cup {id}
      BY <1>2, <3>3, RangeAppended
    <3> HIDE DEF pushed, id, below
    <3>5. ChildrenKept(nodes', maven, OnTop(maven, pushed))
      BY <1>3, <3>2, <3>4, TopKept
    <3>6. Len(maven) \in DOMAIN maven' /\ maven'[Len(maven)] = pushed
      BY <1>1, <1>3, <2>1, <3>3, StackTop
    <3>7. IsChild(nodes', maven', id)
      BY <3>4, <3>6 DEF IsChild
    <3>8. IsFound(nodes', maven', java[1].name)
      BY <1>2, <3>1, <3>7 DEF IsFound
    <3>9. QED  BY <1>1, <2>1, <3>5, <3>8
  <2>2. CASE below # << >>
    <3>1. JavaOK(nodes, below)
      BY <1>2, <1>3, JavaTop, JavaChanges
    <3>2. Last(below) \in JavaAccs /\ 1 \in DOMAIN below
      BY <2>2, <3>1, JavaTop
    <3>3. more.name = Last(below).name
      BY <1>2, <1>3, <3>2, JavaPushed
    <3> HIDE DEF more, below
    <3>4. OnTop(below, more) # << >> /\ OnTop(below, more)[1].name = below[1].name
      BY <1>4, <2>2, <3>3, FirstKept
    <3>5. java' # << >> /\ java'[1].name = java[1].name
      BY <1>1, <1>4, <2>2, <3>2, <3>4
    <3>6. ChildrenKept(nodes', maven, maven')
      BY <1>1, <2>2 DEF ChildrenKept, IsChild
    <3>7. QED  BY <2>2, <3>5, <3>6
  <2>3. QED  BY <2>1, <2>2
<1> HIDE DEF below, made, id
<1>6. SameSource(nodes', maven', java, java')
  BY <1>5 DEF SameSource
<1>7. Kin(nodes', maven', java', objectMapJava)
  BY <1>2, <1>5, <1>6, KinStays DEF Inv, Namesakes
<1>8. IsNamesake(nodes', maven', java', key)
  <2>1. key[1] = Package.tree /\ key[2] = java[1].name
    BY DEF JavaKey
  <2>2. Package.tree \notin Blobs
    BY <1>2, ObjectsAssumption DEF JavaAccs
  <2>3. QED  BY <1>5, <2>1, <2>2 DEF IsNamesake
<1>9. Kin(nodes', maven', java', With(objectMapJava, key, made))
  BY <1>7, <1>8, KinMade
<1>10. QED  BY <1>1, <1>9 DEF Namesakes

LEMMA NamesakesStep ==
  ASSUME Inv(FALSE), Namesakes, [Next]_vars
  PROVE  Namesakes'
<1>1. CASE \/ ForwardToModule \/ IgnoreEntry \/ ReuseDirectory \/ EnterSources
           \/ EnterDirectory \/ ReusePom \/ GeneratePom
  BY <1>1, ExploringNamesakes
<1>2. CASE IgnoreBlob \/ ReuseItem \/ GenerateJava \/ EnterPackage
  BY <1>2, ReadingNamesakes
<1>3. CASE HandleCommit
  BY <1>3, HandleCommitNamesakes
<1>4. CASE CommitModule
  BY <1>4, CommitModuleNamesakes
<1>5. CASE CommitPackage
  BY <1>5, CommitPackageNamesakes
<1>6. CASE ReuseDirectoryPanics \/ ReusePanics
  BY <1>6 DEF ReuseDirectoryPanics, ReusePanics, caches, Namesakes
<1>7. CASE UNCHANGED vars
  BY <1>7 DEF vars, caches, Namesakes
<1>8. QED  BY <1>1, <1>2, <1>3, <1>4, <1>5, <1>6, <1>7 DEF Next, Step

(* What is found has its name among those of source directories.           *)
LEMMA FoundNames ==
  ASSUME Inv(FALSE), NEW name, IsFound(nodes, maven, name)
  PROVE  name \in SourceDirNames
<1> DEFINE parents == {nodes[i] : i \in DOMAIN nodes} \cup Range(maven)
           searched == {x \in parents : "kind" \in DOMAIN x => x.kind = "MavenDirectory"}
           found == UNION {Range(p.children) : p \in searched}
<1>1. PICK c \in DOMAIN nodes :
        /\ nodes[c].kind = "Directory" /\ nodes[c].name = name
        /\ IsChild(nodes, maven, c)
  BY DEF IsFound
<1>2. c \in found
  <2>1. CASE \E i \in DOMAIN nodes : /\ nodes[i].kind = "MavenDirectory"
                                     /\ c \in Range(nodes[i].children)
    BY <2>1
  <2>2. CASE \E d \in DOMAIN maven : c \in Range(maven[d].children)
    <3>1. PICK d \in DOMAIN maven : c \in Range(maven[d].children)
      BY <2>2
    <3>2. maven[d] \in MavenAccs
      BY LenProperties, ElementOfSeq DEF Inv, MavenOK
    <3>3. PICK acc \in MavenAccs : acc = maven[d]
      BY <3>2
    <3>4. "kind" \notin DOMAIN acc
      BY DEF MavenAccs
    <3>5. acc \in parents
      BY <3>3 DEF Range
    <3>6. QED  BY <3>1, <3>3, <3>4, <3>5
  <2>3. QED  BY <1>1, <2>1, <2>2 DEF IsChild
<1>3. QED  BY <1>1, <1>2 DEF SourceDirNames

(* The assertions on the name of a cached object can only fail for a       *)
(* directory that fast_fwd meets under another name, and for a package     *)
(* that has the name of a source directory, which handle_java_src keeps    *)
(* all packages under.                                                     *)
THEOREM OnlyNamesakesEverPanic == Spec => []OnlyNamesakesPanic
<1>1. Init => Inv(FALSE) /\ Namesakes /\ OnlyNamesakesPanic
  <2>1. Init => DOMAIN objectMapJava = {} /\ ~panicked
    BY DEF Init
  <2>2. QED  BY <2>1, Begins DEF Namesakes, Kin, OnlyNamesakesPanic
<1>2. ASSUME Inv(FALSE), Namesakes, OnlyNamesakesPanic, [Next]_vars
      PROVE  Inv(FALSE)' /\ Namesakes' /\ OnlyNamesakesPanic'
  <2>1. Inv(FALSE)' /\ Namesakes'
    BY <1>2, NextKeeps, NamesakesStep
  <2>2. CASE ReusePanics
    <3>1. /\ Reading /\ Known /\ nodes[Already.id].name # Item.name
          /\ UNCHANGED <<session, path, maven, java, nodes, caches, commits>>
      BY <2>2 DEF ReusePanics
    <3>2. IsNamesake(nodes, maven, java, JavaKey(Item.object, Item.name))
      BY <1>2, <3>1 DEF Known, Already, Namesakes, Kin, JavaKey
    <3>3. /\ Item.object \notin Blobs
          /\ IsFound(nodes, maven, Item.name) \/ Item.name = java[1].name
      BY <3>2 DEF IsNamesake, JavaKey
    <3>4. Item.name \in SourceDirNames
      BY <1>2, <3>3, FoundNames DEF SourceDirNames
    <3>5. java # << >> /\ IsTree(Item)
      BY <3>1, <3>3 DEF Reading, InJava, IsTree
    <3>6. UNCHANGED <<java, Item, SourceDirNames>>
      BY <3>1 DEF Item, Package, SourceDirNames
    <3>7. QED  BY <2>1, <3>4, <3>5, <3>6 DEF OnlyNamesakesPanic, IsTree
  <2>3. CASE ReuseDirectoryPanics
    <3>1. /\ Exploring /\ IsTree(Entry) /\ Request.op = "java"
          /\ UNCHANGED <<session, maven, java>>
      BY <2>3 DEF ReuseDirectoryPanics
    <3>2. java = << >> /\ UNCHANGED <<Request, Entry>>
      BY <3>1 DEF Exploring, InMaven, Request, Entry, Module
    <3>3. QED  BY <2>1, <3>1, <3>2 DEF OnlyNamesakesPanic, IsTree
  <2>4. CASE UNCHANGED vars
    <3>1. UNCHANGED <<panicked, java, Request, Entry, Item, SourceDirNames>>
      BY <2>4 DEF vars, Request, Entry, Module, Item, Package, SourceDirNames
    <3>2. QED  BY <1>2, <2>1, <3>1 DEF OnlyNamesakesPanic, IsTree
  <2>5. CASE Next /\ ~ReusePanics /\ ~ReuseDirectoryPanics
    <3>1. ~panicked'
      BY <2>5 DEF Next, Step, HandleCommit, ForwardToModule, IgnoreEntry,
                  ReuseDirectory, EnterSources, EnterDirectory, ToExplore, ReusePom,
                  AtPom, GeneratePom, CommitModule, Exploring, InMaven, IgnoreBlob,
                  ReuseItem, GenerateJava, EnterPackage, CommitPackage, Reading, InJava
    <3>2. QED  BY <2>1, <3>1 DEF OnlyNamesakesPanic
  <2>6. QED  BY <1>2, <2>2, <2>3, <2>4, <2>5
<1>3. QED  BY <1>1, <1>2, PTL DEF Spec

(***************************************************************************)
(* Filters of directories                                                  *)
(***************************************************************************)

\* everything that entities with these analyses refer to and declare
Union(ana, entities) ==
  [refs |-> UNION {ana[c].refs : c \in entities},
   decls |-> UNION {ana[c].decls : c \in entities}]

\* ana is the complete analysis of every entity
Complete(ns, ana) ==
  ana = [i \in DOMAIN ns |->
           IF ns[i].kind = "file" THEN AnaOf(ns[i].blob)
           ELSE Resolve(Union(ana, Range(ns[i].children)))]

(* An entity is made of earlier ones, hence there is such a function.      *)
LEMMA CompleteExists ==
  ASSUME NEW all, NEW ns, NodesOK(ns, all)
  PROVE  \E ana : Complete(ns, ana)
<1> DEFINE Value(ana, i) == IF ns[i].kind = "file" THEN AnaOf(ns[i].blob)
                            ELSE Resolve(Union(ana, Range(ns[i].children)))
           Upto(n, ana) == /\ DOMAIN ana = 1 .. n
                           /\ \A i \in 1 .. n : ana[i] = Value(ana, i)
           Good == {n \in Nat : n <= Len(ns) => \E ana : Upto(n, ana)}
<1>1. Len(ns) \in Nat /\ DOMAIN ns = 1 .. Len(ns)
  BY LenProperties DEF NodesOK
<1>2. 0 \in Good
  <2>1. Upto(0, [i \in 1 .. 0 |-> i])
    OBVIOUS
  <2>2. QED  BY <2>1
<1>3. ASSUME NEW n \in Good PROVE n + 1 \in Good
  <2>1. SUFFICES ASSUME n + 1 <= Len(ns) PROVE \E ana : Upto(n + 1, ana)
    BY <1>3
  <2>2. PICK old : Upto(n, old)
    BY <1>1, <1>3, <2>1
  <2> DEFINE new == [i \in 1 .. n + 1 |-> IF i \in 1 .. n THEN old[i] ELSE Value(old, i)]
  <2>3. ASSUME NEW i \in 1 .. n + 1
        PROVE  Union(new, Range(ns[i].children)) = Union(old, Range(ns[i].children))
    <3>1. Range(ns[i].children) \subseteq 1 .. i - 1
      BY <1>1, <1>3, <2>1, <2>3 DEF NodesOK
    <3>2. \A c \in Range(ns[i].children) : new[c] = old[c]
      BY <1>3, <2>3, <3>1
    <3> HIDE DEF new
    <3>3. QED  BY <3>2 DEF Union
  <2>4. \A i \in 1 .. n + 1 : new[i] = Value(old, i)
    BY <1>3, <2>2
  <2>5. \A i \in 1 .. n + 1 : Value(new, i) = Value(old, i)
    BY <2>3
  <2>6. Upto(n + 1, new)
    BY <2>4, <2>5
  <2>7. QED  BY <2>6
<1>4. Len(ns) \in Good
  <2> HIDE DEF Good
  <2>1. Good \subseteq Nat
    BY DEF Good
  <2>2. QED  BY <1>1, <1>2, <1>3, <2>1, Induction
<1>5. PICK ana : Upto(Len(ns), ana)
  BY <1>1, <1>4
<1> DEFINE table == [i \in DOMAIN ns |-> Value(ana, i)]
<1>6. \A i \in DOMAIN ns : table[i] = ana[i]
  BY <1>1, <1>5
<1>7. ASSUME NEW i \in DOMAIN ns
      PROVE  Union(table, Range(ns[i].children)) = Union(ana, Range(ns[i].children))
  <2>1. Range(ns[i].children) \subseteq DOMAIN ns
    <3>1. Range(ns[i].children) \subseteq 1 .. i - 1
      BY <1>7 DEF NodesOK
    <3>2. 1 .. i - 1 \subseteq DOMAIN ns
      BY <1>1
    <3>3. QED  BY <3>1, <3>2
  <2> HIDE DEF table
  <2>2. QED  BY <1>6, <2>1 DEF Union
<1>8. \A i \in DOMAIN ns : Value(table, i) = Value(ana, i)
  BY <1>7
<1>9. Complete(ns, table)
  BY <1>8 DEF Complete
<1>10. QED  BY <1>9

LEMMA FullAnaComplete ==
  ASSUME NEW all, Inv(all)
  PROVE  Complete(nodes, FullAna)
<1> DEFINE Body(ana) ==
             [i \in DOMAIN nodes |->
                LET made == {ana[c] : c \in Range(nodes[i].children)}
                IN  IF nodes[i].kind = "file" THEN AnaOf(nodes[i].blob)
                    ELSE Resolve([refs |-> UNION {a.refs : a \in made},
                                  decls |-> UNION {a.decls : a \in made}])]
<1>1. ASSUME NEW ana PROVE Complete(nodes, ana) <=> ana = Body(ana)
  <2>1. ASSUME NEW i PROVE
          Union(ana, Range(nodes[i].children)) =
            [refs |-> UNION {a.refs : a \in {ana[c] : c \in Range(nodes[i].children)}},
             decls |-> UNION {a.decls : a \in {ana[c] : c \in Range(nodes[i].children)}}]
    BY DEF Union
  <2>2. QED  BY <2>1 DEF Complete
<1>2. PICK ana : Complete(nodes, ana)
  BY CompleteExists DEF Inv
<1>3. ana = Body(ana)
  BY <1>1, <1>2
<1>4. FullAna = CHOOSE a : a = Body(a)
  BY DEF FullAna
<1> HIDE DEF Body
<1>5. FullAna = Body(FullAna)
  BY <1>3, <1>4
<1>6. QED  BY <1>1, <1>5

\* the analyses of what is there stay the same
Agree(ns, ana, ana2) == \A i \in DOMAIN ns : ana2[i] = ana[i]

(* What an entity is made of never changes, nor does its analysis.         *)
LEMMA CompleteStays ==
  ASSUME NEW ns, NEW ns2, NodesOK(ns, FALSE), Grows(ns, ns2),
         NEW ana, Complete(ns, ana), NEW ana2, Complete(ns2, ana2)
  PROVE  Agree(ns, ana, ana2)
<1> DEFINE Good == {i \in Nat : i \in DOMAIN ns => ana2[i] = ana[i]}
<1>1. DOMAIN ns = 1 .. Len(ns) /\ Len(ns) \in Nat
  BY LenProperties DEF NodesOK
<1>2. ASSUME NEW i \in Nat, \A j \in 0 .. i - 1 : j \in Good
      PROVE  i \in Good
  <2>1. SUFFICES ASSUME i \in DOMAIN ns PROVE ana2[i] = ana[i]
    BY <1>2
  <2>2. i \in DOMAIN ns2 /\ ns2[i] = ns[i]
    BY <2>1 DEF Grows
  <2>3. \A c \in Range(ns[i].children) : ana2[c] = ana[c]
    <3>1. Range(ns[i].children) \subseteq 1 .. i - 1
      BY <2>1 DEF NodesOK
    <3>2. 1 .. i - 1 \subseteq DOMAIN ns /\ 1 .. i - 1 \subseteq 0 .. i - 1
      BY <1>1, <2>1
    <3>3. QED  BY <1>2, <3>1, <3>2
  <2>4. Union(ana2, Range(ns[i].children)) = Union(ana, Range(ns[i].children))
    BY <2>3 DEF Union
  <2>5. ana[i] = IF ns[i].kind = "file" THEN AnaOf(ns[i].blob)
                 ELSE Resolve(Union(ana, Range(ns[i].children)))
    BY <2>1 DEF Complete
  <2>6. ana2[i] = IF ns[i].kind = "file" THEN AnaOf(ns[i].blob)
                  ELSE Resolve(Union(ana2, Range(ns[i].children)))
    BY <2>2 DEF Complete
  <2>7. QED  BY <2>4, <2>5, <2>6
<1>3. \A i \in Nat : i \in Good
  <2> HIDE DEF Good
  <2>1. Good \subseteq Nat
    BY DEF Good
  <2>2. QED  BY <1>2, <2>1, StrongInduction
<1>4. QED  BY <1>1, <1>3 DEF Agree

LEMMA RefsCounted ==
  ASSUME NEW ana \in Analyses
  PROVE  EstimatedRefs(ana) \in Nat
<1>1. IsFiniteSet(ana.refs)
  BY AnalysesAssumption, FS_Subset DEF Analyses
<1>2. QED  BY <1>1, FS_CardinalityType DEF EstimatedRefs

\* what a source directory accumulated is all that its children have, unless
\* it knows that it skipped some
AccFull(ana, acc) == acc.skiped \/ acc.ana = Union(ana, Range(acc.children))

\* what is kept of an object is complete, or never accumulated
MadeFull(ana, made) ==
  \/ made.skiped
  \/ EstimatedRefs(made.ana) >= MaxRefs
  \/ made.ana = ana[made.id]

NodesFull(ns, ana) ==
  \A i \in DOMAIN ns :
    ns[i].kind = "Directory" /\ ns[i].refs # Much => ns[i].refs = ana[i].refs

StackFull(stack, ana) == \A d \in DOMAIN stack : AccFull(ana, stack[d])
MadesFull(mades, ana) == \A k \in DOMAIN mades : MadeFull(ana, mades[k])

Full ==
  /\ NodesFull(nodes, FullAna)
  /\ StackFull(java, FullAna)
  /\ MadesFull(objectMapJava, FullAna)

LEMMA AccFullPushed ==
  ASSUME NEW ana, NEW acc \in JavaAccs, AccFull(ana, acc), NEW name \in Names,
         NEW made \in Mades, MadeFull(ana, made)
  PROVE  AccFull(ana, Push(acc, name, made))
<1> DEFINE pushed == Push(acc, name, made)
           skip == EstimatedRefs(made.ana) >= MaxRefs \/ made.skiped \/ acc.skiped
           both == [refs |-> acc.ana.refs \cup made.ana.refs,
                    decls |-> acc.ana.decls \cup made.ana.decls]
<1>1. /\ pushed.children = Append(acc.children, made.id)
      /\ acc.children \in Seq(Nat) /\ made.id \in Nat
  BY JavaPushed DEF JavaAccs, Mades
<1>2. Range(pushed.children) = Range(acc.children) \cup {made.id}
  BY <1>1, RangeAppended
<1>3. pushed.skiped = skip /\ (~skip => pushed.ana = both)
  BY DEF Push, PushChild, JavaAccs
<1>4. CASE skip
  BY <1>3, <1>4 DEF AccFull
<1>5. CASE ~skip
  <2>1. acc.ana = Union(ana, Range(acc.children)) /\ made.ana = ana[made.id]
    BY <1>5 DEF AccFull, MadeFull
  <2>2. /\ acc.ana.refs = UNION {ana[c].refs : c \in Range(acc.children)}
        /\ acc.ana.decls = UNION {ana[c].decls : c \in Range(acc.children)}
    BY <2>1 DEF Union
  <2>3. /\ both.refs = UNION {ana[c].refs : c \in Range(acc.children) \cup {made.id}}
        /\ both.decls = UNION {ana[c].decls : c \in Range(acc.children) \cup {made.id}}
    BY <2>1, <2>2
  <2>4. both = Union(ana, Range(acc.children) \cup {made.id})
    BY <2>3 DEF Union
  <2>5. pushed.ana = Union(ana, Range(pushed.children))
    BY <1>2, <1>3, <1>5, <2>4
  <2>6. QED  BY <2>5 DEF AccFull
<1>6. QED  BY <1>4, <1>5

(* The entity of a directory that is committed, and what is kept of it.    *)
LEMMA DirectoryFull ==
  ASSUME NEW ana, NEW acc \in JavaAccs, AccFull(ana, acc), NEW id,
         ana[id] = Resolve(Union(ana, Range(acc.children)))
  PROVE  /\ MadeFull(ana, [id |-> id, ana |-> DirAna(acc), skiped |-> acc.skiped])
         /\ Filter(acc) # Much => Filter(acc) = ana[id].refs
<1>1. /\ acc.ana \in Analyses /\ acc.skiped \in BOOLEAN /\ acc.children \in Seq(Nat)
      /\ DirAna(acc) \in Analyses
  BY DirAnaType DEF JavaAccs
<1>2. /\ EstimatedRefs(acc.ana) \in Nat /\ EstimatedRefs(DirAna(acc)) \in Nat
      /\ MuchRefs \in Nat /\ MaxRefs \in Nat /\ MuchRefs < MaxRefs
  BY <1>1, RefsCounted, SomeFiltersAreTooBig
<1>3. CASE acc.skiped
  <2>1. CASE acc.children = << >>
    \* nothing was skipped by a directory of nothing: its filter is empty
    <3>1. Filter(acc) = {}
      BY <2>1 DEF Filter
    <3>2. Range(acc.children) = {}
      BY <2>1 DEF Range
    <3>3. Union(ana, {}) = [refs |-> {}, decls |-> {}]
      BY DEF Union
    <3>4. ana[id].refs = {}
      BY <3>2, <3>3, AnalysesAssumption
    <3>5. QED  BY <1>3, <3>1, <3>4 DEF MadeFull
  <2>2. CASE acc.children # << >>
    BY <1>3, <2>2 DEF MadeFull, Filter
  <2>3. QED  BY <2>1, <2>2
<1>4. CASE ~acc.skiped /\ EstimatedRefs(acc.ana) >= MaxRefs
  <2>1. DirAna(acc) = acc.ana
    BY <1>4 DEF DirAna
  <2>2. EstimatedRefs(DirAna(acc)) > MuchRefs
    BY <1>2, <1>4, <2>1
  <2>3. acc.children # << >>
    <3>1. SUFFICES ASSUME acc.children = << >> PROVE FALSE
      OBVIOUS
    <3>2. Range(acc.children) = {}
      BY <3>1 DEF Range
    <3>3. acc.ana.refs = {}
      BY <1>4, <3>2 DEF AccFull, Union
    <3>4. EstimatedRefs(acc.ana) = 0
      BY <3>3, FS_EmptySet DEF EstimatedRefs
    <3>5. QED  BY <1>4, <3>4, SomeFiltersAreTooBig
  <2>4. Filter(acc) = Much
    BY <2>2, <2>3 DEF Filter
  <2>5. QED  BY <1>4, <2>1, <2>4 DEF MadeFull
<1>5. CASE ~acc.skiped /\ ~(EstimatedRefs(acc.ana) >= MaxRefs)
  <2>1. DirAna(acc) = ana[id]
    BY <1>5 DEF DirAna, AccFull
  <2>2. CASE acc.children = << >>
    <3>1. Filter(acc) = {}
      BY <2>2 DEF Filter
    <3>2. Range(acc.children) = {}
      BY <2>2 DEF Range
    <3>3. Union(ana, {}) = [refs |-> {}, decls |-> {}]
      BY DEF Union
    <3>4. ana[id].refs = {}
      BY <3>2, <3>3, AnalysesAssumption
    <3>5. QED  BY <2>1, <3>1, <3>4 DEF MadeFull
  <2>3. CASE acc.children # << >>
    BY <2>1, <2>3 DEF MadeFull, Filter
  <2>4. QED  BY <2>2, <2>3
<1>6. QED  BY <1>3, <1>4, <1>5

(* More entities leave what was complete complete.                         *)
LEMMA FullStays ==
  ASSUME NEW ns, NEW ana, NEW ana2,
         \A i \in DOMAIN ns : ana2[i] = ana[i]
  PROVE  /\ \A dir : Listed(ns, dir) /\ AccFull(ana, dir) => AccFull(ana2, dir)
         /\ \A stack : JavaOK(ns, stack) /\ StackFull(stack, ana) => StackFull(stack, ana2)
         /\ \A mades : MadesOK(ns, mades) /\ MadesFull(mades, ana) => MadesFull(mades, ana2)
<1>1. ASSUME NEW dir, Listed(ns, dir), AccFull(ana, dir)
      PROVE  AccFull(ana2, dir)
  <2>1. \A c \in Range(dir.children) : ana2[c] = ana[c]
    BY <1>1 DEF Listed, Range
  <2>2. Union(ana2, Range(dir.children)) = Union(ana, Range(dir.children))
    BY <2>1 DEF Union
  <2>3. QED  BY <1>1, <2>2 DEF AccFull
<1>2. \A stack : JavaOK(ns, stack) /\ StackFull(stack, ana) => StackFull(stack, ana2)
  BY <1>1 DEF JavaOK, StackFull
<1>3. \A mades : MadesOK(ns, mades) /\ MadesFull(mades, ana) => MadesFull(mades, ana2)
  BY DEF MadesOK, MadesFull, MadeFull
<1>4. QED  BY <1>1, <1>2, <1>3

LEMMA FullAnaTable == Inv(FALSE) => Complete(nodes, FullAna)
BY FullAnaComplete

LEMMA FullAnaStays ==
  Inv(FALSE) /\ Inv(FALSE)' /\ Grows(nodes, nodes') =>
    /\ \A i \in DOMAIN nodes : FullAna'[i] = FullAna[i]
    /\ Complete(nodes', FullAna')
<1>1. SUFFICES ASSUME Inv(FALSE), Inv(FALSE)', Grows(nodes, nodes')
               PROVE  /\ \A i \in DOMAIN nodes : FullAna'[i] = FullAna[i]
                      /\ Complete(nodes', FullAna')
  OBVIOUS
<1>2. (Inv(FALSE) => Complete(nodes, FullAna))'
  BY FullAnaTable, PTL
<1>3. Complete(nodes', FullAna')
  BY <1>1, <1>2
<1>4. Complete(nodes, FullAna) /\ NodesOK(nodes, FALSE)
  BY <1>1, FullAnaTable DEF Inv
<1>5. Agree(nodes, FullAna, FullAna')
  <2>1. PICK ns : ns = nodes
    OBVIOUS
  <2>2. PICK ns2 : ns2 = nodes'
    OBVIOUS
  <2>3. PICK ana : ana = FullAna
    OBVIOUS
  <2>4. PICK ana2 : ana2 = FullAna'
    OBVIOUS
  <2>5. NodesOK(ns, FALSE) /\ Grows(ns, ns2)
    BY <1>1, <1>4, <2>1, <2>2
  <2>6. Complete(ns, ana) /\ Complete(ns2, ana2)
    BY <1>3, <1>4, <2>1, <2>2, <2>3, <2>4
  <2>7. Agree(ns, ana, ana2)
    BY <2>5, <2>6, CompleteStays
  <2>8. QED  BY <2>1, <2>3, <2>4, <2>7
<1>6. QED  BY <1>3, <1>5 DEF Agree

(* Stacks of directories that are complete.                                *)
LEMMA StackFullChanges ==
  ASSUME NEW ana, NEW stack \in Seq(JavaAccs), StackFull(stack, ana), stack # << >>,
         NEW acc, AccFull(ana, acc)
  PROVE  /\ StackFull(OnTop(stack, acc), ana) /\ StackFull(Append(stack, acc), ana)
         /\ StackFull(Front(stack), ana) /\ AccFull(ana, Last(stack))
<1> DEFINE S == JavaAccs \cup {acc}
<1>1. stack \in Seq(S) /\ acc \in S
  BY Wider
<1> HIDE DEF S
<1>2. /\ DOMAIN OnTop(stack, acc) = DOMAIN stack
      /\ \A d \in DOMAIN stack : OnTop(stack, acc)[d] = IF d = Len(stack) THEN acc ELSE stack[d]
  BY <1>1, StackTop
<1>3. StackFull(OnTop(stack, acc), ana)
  BY <1>2 DEF StackFull
<1>4. StackFull(Append(stack, acc), ana)
  BY <1>1, StackPush DEF StackFull
<1>5. StackFull(Front(stack), ana)
  BY <1>1, StackPop DEF StackFull
<1>6. AccFull(ana, Last(stack))
  BY <1>1, TopIn DEF StackFull
<1>7. QED  BY <1>3, <1>4, <1>5, <1>6

LEMMA MadesFullWith ==
  ASSUME NEW ana, NEW mades, MadesFull(mades, ana), NEW k, NEW made, MadeFull(ana, made)
  PROVE  MadesFull(With(mades, k, made), ana)
BY DEF MadesFull, With

(* A step that makes no directory of sources.                              *)
LEMMA OtherStepsFull ==
  ASSUME Inv(FALSE), Inv(FALSE)', Full, Grows(nodes, nodes'),
         \A i \in DOMAIN nodes' \ DOMAIN nodes : nodes'[i].kind # "Directory",
         UNCHANGED objectMapJava,
         java' = java \/ StackFull(java', FullAna')
  PROVE  Full'
<1>1. \A i \in DOMAIN nodes : FullAna'[i] = FullAna[i]
  BY FullAnaStays
<1>2. JavaOK(nodes, java) /\ MadesOK(nodes, objectMapJava)
  BY DEF Inv
<1>3. StackFull(java, FullAna') /\ MadesFull(objectMapJava, FullAna')
  BY <1>1, <1>2, FullStays DEF Full
<1>4. NodesFull(nodes', FullAna')
  BY <1>1 DEF Full, NodesFull, Grows
<1>5. StackFull(java', FullAna') /\ MadesFull(objectMapJava', FullAna')
  BY <1>3
<1>6. QED  BY <1>4, <1>5 DEF Full

LEMMA MavenFull ==
  ASSUME Inv(FALSE), Inv(FALSE)', Full,
         \/ HandleCommit \/ ForwardToModule \/ IgnoreEntry \/ ReuseDirectory
         \/ EnterSources \/ EnterDirectory \/ ReusePom \/ GeneratePom \/ CommitModule
  PROVE  Full'
<1>1. CASE \/ HandleCommit \/ ForwardToModule \/ IgnoreEntry \/ ReuseDirectory
           \/ EnterDirectory \/ ReusePom
  <2>1. UNCHANGED <<java, nodes, objectMapJava>>
    BY <1>1 DEF HandleCommit, ForwardToModule, IgnoreEntry, ReuseDirectory,
                EnterDirectory, ReusePom, caches
  <2>2. Grows(nodes, nodes') /\ DOMAIN nodes' \ DOMAIN nodes = {}
    BY <2>1 DEF Grows
  <2>3. QED  BY <2>1, <2>2, OtherStepsFull
<1>2. CASE EnterSources
  <2>1. /\ UNCHANGED <<nodes, objectMapJava>>
        /\ java' = <<JavaAcc(Entry.object, Entry.name)>>
    BY <1>2 DEF EnterSources, caches
  <2>2. Grows(nodes, nodes') /\ DOMAIN nodes' \ DOMAIN nodes = {}
    BY <2>1 DEF Grows
  <2>3. PICK acc : acc = JavaAcc(Entry.object, Entry.name)
    OBVIOUS
  <2>4. AccFull(FullAna', acc)
    <3>1. acc.children = << >> /\ acc.ana = [refs |-> {}, decls |-> {}]
      BY <2>3 DEF JavaAcc, NoAna
    <3>2. Range(acc.children) = {}
      BY <3>1 DEF Range
    <3>3. QED  BY <3>1, <3>2 DEF AccFull, Union
  <2>5. StackFull(java', FullAna')
    <3>1. java' = <<acc>>
      BY <2>1, <2>3
    <3>2. DOMAIN <<acc>> = {1} /\ <<acc>>[1] = acc
      OBVIOUS
    <3>3. QED  BY <2>4, <3>1, <3>2 DEF StackFull
  <2>6. QED  BY <2>1, <2>2, <2>5, OtherStepsFull
<1>3. CASE GeneratePom
  <2> DEFINE node == FileNode(Entry.name, Entry.object)
  <2>1. /\ Exploring /\ ~IsTree(Entry) /\ nodes' = Interned(nodes, node)
        /\ UNCHANGED <<java, objectMapJava>>
    BY <1>3 DEF GeneratePom, AtPom, IsPom
  <2>2. Entry.name \in Names /\ Entry.object \in Blobs
    BY <2>1, AtEntry
  <2>3. Grows(nodes, nodes')
    BY <2>1, <2>2, FileInterned DEF Inv
  <2>4. node.kind = "file"
    BY DEF FileNode
  <2> HIDE DEF node
  <2>5. \A i \in DOMAIN nodes' \ DOMAIN nodes : nodes'[i] = node
    BY <2>1, AppendProperties DEF Interned, Inv, NodesOK
  <2>6. QED  BY <2>1, <2>3, <2>4, <2>5, OtherStepsFull
<1>4. CASE CommitModule
  <2> DEFINE node == DirNode("MavenDirectory", Module, Much)
  <2>1. nodes' = Append(nodes, node) /\ UNCHANGED <<java, objectMapJava>>
    BY <1>4 DEF CommitModule
  <2>2. node.kind = "MavenDirectory"
    BY DEF DirNode
  <2>3. nodes \in Seq(Entities) /\ nodes' \in Seq(Entities)
    BY DEF Inv, NodesOK
  <2> HIDE DEF node
  <2>4. DOMAIN nodes = 1 .. Len(nodes) /\ Len(nodes) \in Nat
    BY <2>3, LenProperties
  <2>5. /\ DOMAIN nodes' = 1 .. Len(nodes) + 1 /\ nodes'[Len(nodes) + 1] = node
        /\ \A i \in DOMAIN nodes : nodes'[i] = nodes[i]
    BY <2>1, <2>3, <2>4, AppendProperties
  <2>6. /\ Grows(nodes, nodes')
        /\ \A i \in DOMAIN nodes' \ DOMAIN nodes : nodes'[i] = node
    BY <2>4, <2>5 DEF Grows
  <2>7. QED  BY <2>1, <2>2, <2>6, OtherStepsFull
<1>5. QED  BY <1>1, <1>2, <1>3, <1>4

LEMMA ReadingFull ==
  ASSUME Inv(FALSE), Inv(FALSE)', Full,
         IgnoreBlob \/ ReuseItem \/ EnterPackage \/ GenerateJava
  PROVE  Full'
<1> DEFINE top == Last(Popped(java))
<1>1. ASSUME Reading
      PROVE  /\ top \in JavaAccs /\ top.children = Package.children
             /\ top.ana = Package.ana /\ top.skiped = Package.skiped
             /\ Popped(java) = OnTop(java, top) /\ java \in Seq(JavaAccs) /\ java # << >>
             /\ Item.name \in Names /\ Listed(nodes, top)
  BY <1>1, AtItem
<1>2. ASSUME Reading PROVE AccFull(FullAna, top)
  <2>1. AccFull(FullAna, Package)
    BY <1>1, <1>2, TopIn DEF Full, StackFull, Package
  <2>2. QED  BY <1>1, <1>2, <2>1 DEF AccFull
<1>3. Grows(nodes, nodes)
  BY DEF Grows
<1>4. CASE IgnoreBlob \/ ReuseItem \/ EnterPackage
  <2>1. Reading /\ UNCHANGED <<nodes, objectMapJava>>
    BY <1>4 DEF IgnoreBlob, ReuseItem, EnterPackage, caches
  <2>2. Grows(nodes, nodes') /\ DOMAIN nodes' \ DOMAIN nodes = {}
    BY <2>1 DEF Grows
  <2>3. PICK ana : ana = FullAna
    OBVIOUS
  <2>4. /\ AccFull(ana, top) /\ StackFull(java, ana) /\ MadesFull(objectMapJava, ana)
    BY <1>2, <2>1, <2>3 DEF Full
  <2>5. FullAna' = FullAna
    BY <2>1 DEF FullAna
  <2>6. StackFull(OnTop(java, top), ana)
    <3> HIDE DEF top
    <3>1. QED  BY <1>1, <2>1, <2>4, StackFullChanges
  <2>7. CASE IgnoreBlob
    <3>1. java' = OnTop(java, top)
      BY <1>1, <2>1, <2>7 DEF IgnoreBlob
    <3>2. StackFull(java', FullAna')
      BY <2>3, <2>5, <2>6, <3>1
    <3>3. QED  BY <2>1, <2>2, <3>2, OtherStepsFull
  <2>8. CASE ReuseItem
    <3>1. /\ java' = OnTop(java, Push(top, Item.name, Already)) /\ Known
      BY <2>8 DEF ReuseItem
    <3>2. Already \in Mades /\ MadeFull(ana, Already)
      BY <2>4, <3>1 DEF Known, Already, Inv, MadesOK, MadesFull
    <3> HIDE DEF top
    <3>3. AccFull(ana, Push(top, Item.name, Already))
      BY <1>1, <2>1, <2>4, <3>2, AccFullPushed
    <3>4. StackFull(java', ana)
      BY <1>1, <2>1, <2>4, <3>1, <3>3, StackFullChanges
    <3>5. StackFull(java', FullAna')
      BY <2>3, <2>5, <3>4
    <3>6. QED  BY <2>1, <2>2, <3>5, OtherStepsFull
  <2>9. CASE EnterPackage
    <3>1. PICK acc : acc = JavaAcc(Item.object, Item.name)
      OBVIOUS
    <3>2. java' = Append(OnTop(java, top), acc)
      BY <1>1, <2>1, <2>9, <3>1 DEF EnterPackage
    <3>3. AccFull(ana, acc)
      <4>1. acc.children = << >> /\ acc.ana = [refs |-> {}, decls |-> {}]
        BY <3>1 DEF JavaAcc, NoAna
      <4>2. Range(acc.children) = {}
        BY <4>1 DEF Range
      <4>3. QED  BY <4>1, <4>2 DEF AccFull, Union
    <3> HIDE DEF top
    <3>4. OnTop(java, top) \in Seq(JavaAccs) /\ OnTop(java, top) # << >>
      BY <1>1, <2>1, StackTop
    <3>5. StackFull(java', ana)
      BY <2>6, <3>2, <3>3, <3>4, StackFullChanges
    <3>6. StackFull(java', FullAna')
      BY <2>3, <2>5, <3>5
    <3>7. QED  BY <2>1, <2>2, <3>6, OtherStepsFull
  <2>10. QED  BY <1>4, <2>7, <2>8, <2>9
<1>5. CASE GenerateJava
  <2> DEFINE node == FileNode(Item.name, Item.object)
             id == IdOf(nodes, node)
             made == [id |-> id, ana |-> AnaOf(Item.object), skiped |-> FALSE]
             key == JavaKey(Item.object, Item.name)
  <2>1. /\ Reading /\ ~IsTree(Item)
        /\ nodes' = Interned(nodes, node)
        /\ objectMapJava' = With(objectMapJava, key, made)
        /\ java' = OnTop(java, Push(top, Item.name, made))
    BY <1>5 DEF GenerateJava
  <2>2. Item.name \in Names /\ Item.object \in Blobs
    BY <2>1, AtItem
  <2>3. /\ Grows(nodes, nodes') /\ id \in Nat /\ nodes'[id] = node /\ id \in DOMAIN nodes'
    BY <2>1, <2>2, FileInterned DEF Inv
  <2>4. /\ \A i \in DOMAIN nodes : FullAna'[i] = FullAna[i]
        /\ Complete(nodes', FullAna')
    BY <2>3, FullAnaStays
  <2>5. PICK ana : ana = FullAna'
    OBVIOUS
  <2>6. ana[id] = AnaOf(Item.object)
    <3>1. node.kind = "file" /\ node.blob = Item.object
      BY DEF FileNode
    <3> HIDE DEF node, id
    <3>2. QED  BY <2>3, <2>4, <2>5, <3>1 DEF Complete
  <2>7. made \in Mades /\ MadeFull(ana, made)
    BY <2>2, <2>3, <2>6, AnalysesAssumption DEF Mades, MadeFull
  <2>8. /\ StackFull(java, ana) /\ MadesFull(objectMapJava, ana) /\ AccFull(ana, top)
    BY <1>1, <1>2, <2>1, <2>4, <2>5, FullStays DEF Full, Inv
  <2>9. NodesFull(nodes', ana)
    <3>1. node.kind = "file"
      BY DEF FileNode
    <3> HIDE DEF node
    <3>2. \A i \in DOMAIN nodes' \ DOMAIN nodes : nodes'[i] = node
      BY <2>1, AppendProperties DEF Interned, Inv, NodesOK
    <3>3. QED  BY <2>3, <2>4, <2>5, <3>1, <3>2 DEF Full, NodesFull, Grows
  <2> HIDE DEF top, made, key
  <2>10. AccFull(ana, Push(top, Item.name, made))
    BY <1>1, <2>1, <2>7, <2>8, AccFullPushed
  <2>11. StackFull(java', ana)
    BY <1>1, <2>1, <2>8, <2>10, StackFullChanges
  <2>12. MadesFull(objectMapJava', ana)
    BY <2>1, <2>7, <2>8, MadesFullWith
  <2>13. QED  BY <2>5, <2>9, <2>11, <2>12 DEF Full
<1>6. QED  BY <1>4, <1>5

LEMMA CommitPackageFull ==
  ASSUME Inv(FALSE), Inv(FALSE)', Full, CommitPackage
  PROVE  Full'
<1> DEFINE id == Len(nodes) + 1
           node == DirNode("Directory", Package, Filter(Package))
           made == [id |-> id, ana |-> DirAna(Package), skiped |-> Package.skiped]
           below == Front(java)
           key == JavaKey(Package.tree, java[1].name)
           more == Push(Last(below), Package.name, made)
<1>1. /\ nodes' = Append(nodes, node)
      /\ objectMapJava' = With(objectMapJava, key, made)
      /\ java' = IF below = << >> THEN << >> ELSE OnTop(below, more)
  BY DEF CommitPackage
<1>2. /\ Grows(nodes, nodes') /\ id \in DOMAIN nodes' /\ id \in Nat
      /\ nodes'[id] = node /\ node.kind = "Directory"
      /\ Package \in JavaAccs /\ java # << >> /\ Listed(nodes, Package)
      /\ made \in Mades
  BY PackageMade
<1>3. /\ JavaOK(nodes, java) /\ java \in Seq(JavaAccs) /\ Package.name \in Names
  BY <1>2 DEF Inv, JavaOK, JavaAccs
<1>4. /\ \A i \in DOMAIN nodes : FullAna'[i] = FullAna[i]
      /\ Complete(nodes', FullAna')
  BY <1>2, FullAnaStays
<1>5. PICK ana : ana = FullAna'
  OBVIOUS
<1>6. /\ StackFull(java, ana) /\ MadesFull(objectMapJava, ana)
  BY <1>4, <1>5, FullStays DEF Full, Inv
<1>7. AccFull(ana, Package)
  BY <1>2, <1>3, <1>6, TopIn DEF StackFull, Package
<1>8. ana[id] = Resolve(Union(ana, Range(Package.children)))
  <2>1. node.kind = "Directory" /\ node.children = Package.children
    BY DEF DirNode
  <2> HIDE DEF node, id
  <2>2. QED  BY <1>2, <1>4, <1>5, <2>1 DEF Complete
<1>9. /\ MadeFull(ana, made)
      /\ Filter(Package) # Much => Filter(Package) = ana[id].refs
  <2>1. PICK acc \in JavaAccs : acc = Package
    BY <1>2
  <2>2. AccFull(ana, acc) /\ ana[id] = Resolve(Union(ana, Range(acc.children)))
    BY <1>7, <1>8, <2>1
  <2>3. /\ MadeFull(ana, [id |-> id, ana |-> DirAna(acc), skiped |-> acc.skiped])
        /\ Filter(acc) # Much => Filter(acc) = ana[id].refs
    BY <2>2, DirectoryFull
  <2>4. QED  BY <2>1, <2>3
<1>10. NodesFull(nodes', ana)
  <2>1. node.refs = Filter(Package)
    BY DEF DirNode
  <2>2. DOMAIN nodes' = DOMAIN nodes \cup {id}
    <3>1. nodes \in Seq(Entities)
      BY DEF Inv, NodesOK
    <3>2. DOMAIN nodes = 1 .. Len(nodes) /\ Len(nodes) \in Nat
      BY <3>1, LenProperties
    <3> HIDE DEF node
    <3>3. QED  BY <1>1, <3>1, <3>2, AppendProperties
  <2> HIDE DEF node, id
  <2>3. QED  BY <1>2, <1>4, <1>5, <1>9, <2>1, <2>2 DEF Full, NodesFull, Grows
<1> HIDE DEF made, key, node, id
<1>11. MadesFull(objectMapJava', ana)
  BY <1>1, <1>6, <1>9, MadesFullWith
<1>12. StackFull(java', ana)
  <2>1. StackFull(below, ana) /\ JavaOK(nodes, below)
    BY <1>2, <1>3, <1>6, <1>7, StackFullChanges, JavaTop, JavaChanges
  <2>2. CASE below = << >>
    BY <1>1, <2>1, <2>2
  <2>3. CASE below # << >>
    <3>1. below \in Seq(JavaAccs) /\ Last(below) \in JavaAccs /\ AccFull(ana, Last(below))
      BY <2>1, <2>3, TopIn DEF JavaOK, StackFull
    <3>2. AccFull(ana, more)
      BY <1>2, <1>3, <1>9, <3>1, AccFullPushed
    <3> HIDE DEF more, below
    <3>3. QED  BY <1>1, <2>1, <2>3, <3>1, <3>2, StackFullChanges
  <2>4. QED  BY <2>2, <2>3
<1>13. QED  BY <1>5, <1>10, <1>11, <1>12 DEF Full

(* A filter that is not BloomSize::Much misses no reference of any file    *)
(* below its directory, whatever was cached, skipped or too big.           *)
THEOREM FiltersAlwaysComplete == Spec => []FiltersComplete
<1>1. Init => Inv(FALSE) /\ Full
  <2>1. Init => DOMAIN objectMapJava = {} /\ DOMAIN java = {} /\ DOMAIN nodes = {}
    BY DEF Init
  <2>2. QED
    BY <2>1, Begins DEF Full, NodesFull, StackFull, MadesFull
<1>2. ASSUME Inv(FALSE), Full, [Next]_vars
      PROVE  Inv(FALSE)' /\ Full'
  <2>1. Inv(FALSE)'
    BY <1>2, NextKeeps
  <2>2. CASE UNCHANGED vars
    <3>1. UNCHANGED <<nodes, java, objectMapJava, FullAna>>
      BY <2>2 DEF vars, caches, FullAna
    <3>2. QED  BY <1>2, <2>1, <3>1 DEF Full
  <2>3. CASE ReuseDirectoryPanics \/ ReusePanics
    <3>1. UNCHANGED <<nodes, java, objectMapJava, FullAna>>
      BY <2>3 DEF ReuseDirectoryPanics, ReusePanics, caches, FullAna
    <3>2. QED  BY <1>2, <2>1, <3>1 DEF Full
  <2>4. QED
    BY <1>2, <2>1, <2>2, <2>3, MavenFull, ReadingFull, CommitPackageFull DEF Next, Step
<1>3. Full => FiltersComplete
  BY DEF Full, NodesFull, FiltersComplete
<1>4. QED  BY <1>1, <1>2, <1>3, PTL DEF Spec

(***************************************************************************)
(* Sessions in which no directory is renamed                               *)
(***************************************************************************)

JavaRequests == {r \in Requests : r.op = "java"}

(* fast_fwd checks the name of what it finds in object_map: repositories   *)
(* that are asked for handle_java_commit only have NamesAgree whatever     *)
(* their history.                                                          *)
THEOREM FastForwardNames == Spec /\ session \in Seq(JavaRequests) => []NamesAgree
<1> DEFINE Only == Inv(FALSE) /\ session \in Seq(JavaRequests)
<1>1. Init /\ session \in Seq(JavaRequests) => Only
  BY Begins
<1>2. Only /\ [Next]_vars => Only' /\ [SameName]_vars
  <2>1. SUFFICES ASSUME Only, [Next]_vars PROVE Only' /\ SameName
    OBVIOUS
  <2>2. Inv(FALSE)'
    BY <2>1, NextKeeps
  <2>3. session' = session \/ (session # << >> /\ session' = Tail(session))
    <3>1. CASE CommitModule
      <4>1. session # << >>
        BY <2>1, <3>1 DEF CommitModule, InMaven, Inv
      <4>2. QED  BY <3>1, <4>1 DEF CommitModule
    <3>2. CASE ~CommitModule
      BY <2>1, <3>2 DEF Next, Step, vars, HandleCommit, ForwardToModule, IgnoreEntry,
           ReuseDirectory, ReuseDirectoryPanics, EnterSources, EnterDirectory, ReusePom,
           GeneratePom, IgnoreBlob, ReuseItem, ReusePanics, GenerateJava, EnterPackage,
           CommitPackage
    <3>3. QED  BY <3>1, <3>2
  <2>4. session' \in Seq(JavaRequests)
    BY <2>1, <2>3, TailSeq
  <2>5. SameName
    <3>1. SUFFICES ASSUME ReuseDirectory
                   PROVE  nodes[objectMap[Entry.object]].name = Entry.name
      BY DEF SameName
    <3>2. session # << >>
      BY <2>1, <3>1, AtEntry DEF ReuseDirectory
    <3>3. Request \in JavaRequests
      BY <2>1, <3>2, TailSeq DEF Request
    <3>4. QED  BY <3>1, <3>3 DEF ReuseDirectory, JavaRequests
  <2>6. QED  BY <2>2, <2>4, <2>5
<1>3. QED  BY <1>1, <1>2, NamesAgreeUnlessRenamed, PTL DEF Spec

\* W has the trees that walks of the requests of s can meet, with their
\* names, and none of them has two
Walked(W, s) ==
  /\ \A i \in DOMAIN s : <<s[i].tree, "">> \in W
  /\ \A w \in W : \A e \in Range(w[1]) : IsTree(e) => <<e.object, e.name>> \in W
  /\ \A v, w \in W : v[1] = w[1] => v[2] = w[2]

OneName(s) == \E W : Walked(W, s)

\* an accumulator of a directory that is met, and of entries of it
OfWalk(W, acc) ==
  /\ <<acc.tree, acc.name>> \in W
  /\ \A e \in Range(acc.todo) : IsTree(e) => <<e.object, e.name>> \in W

InWalk(W) ==
  /\ Walked(W, session)
  /\ \A d \in DOMAIN maven : OfWalk(W, maven[d])
  /\ \A o \in DOMAIN objectMap : <<o, nodes[objectMap[o]].name>> \in W

(* Nothing is explored that is not an entry.                               *)
LEMMA ExplorationRange ==
  ASSUME NEW tree \in Seq(Entries), NEW rest
  PROVE  Range(Exploration(tree, rest)) \subseteq Range(tree)
<1> DEFINE poms == {i \in DOMAIN tree : IsPom(tree[i])}
<1>1. DOMAIN tree = 1 .. Len(tree) /\ Len(tree) \in Nat
  BY LenProperties
<1>2. CASE rest = << >> /\ poms # {}
  <2>1. (CHOOSE p \in poms : TRUE) \in DOMAIN tree
    BY <1>2
  <2>2. Exploration(tree, rest) =
          [i \in DOMAIN tree |->
             IF i = 1 THEN tree[CHOOSE p \in poms : TRUE]
             ELSE IF i \in poms THEN tree[1] ELSE tree[i]]
    BY <1>2 DEF Exploration
  <2>3. \A i \in DOMAIN tree : 1 \in DOMAIN tree
    BY <1>1
  <2> HIDE DEF poms
  <2>4. QED  BY <2>1, <2>2, <2>3 DEF Range
<1>3. CASE ~(rest = << >> /\ poms # {})
  <2>1. Exploration(tree, rest) = [i \in 1 .. Len(tree) |-> tree[(Len(tree) - i) + 1]]
    BY <1>3 DEF Exploration, Reverse
  <2>2. \A i \in 1 .. Len(tree) : (Len(tree) - i) + 1 \in 1 .. Len(tree)
    BY <1>1
  <2>3. QED  BY <1>1, <2>1, <2>2 DEF Range
<1>4. QED  BY <1>2, <1>3

LEMMA TailRange ==
  ASSUME NEW S, NEW s \in Seq(S), s # << >>
  PROVE  /\ Head(s) \in Range(s) /\ Range(Tail(s)) \subseteq Range(s)
         /\ Head(s) = s[1]
<1>1. /\ Len(s) \in Nat \ {0} /\ DOMAIN s = 1 .. Len(s)
  BY TopIn
<1>2. /\ Head(s) = s[1] /\ Tail(s) \in Seq(S) /\ Len(Tail(s)) = Len(s) - 1
      /\ \A i \in 1 .. Len(Tail(s)) : Tail(s)[i] = s[i + 1]
  BY HeadTailProperties
<1>3. DOMAIN Tail(s) = 1 .. Len(s) - 1
  BY <1>2, LenProperties
<1>4. \A i \in 1 .. Len(s) - 1 : i + 1 \in 1 .. Len(s)
  BY <1>1
<1>5. QED  BY <1>1, <1>2, <1>3, <1>4 DEF Range

LEMMA MetWithName ==
  ASSUME NEW W, NEW s, Walked(W, s), NEW tree \in Trees, NEW name, NEW rest, NEW dirs,
         <<tree, name>> \in W
  PROVE  OfWalk(W, MavenAcc(tree, name, rest, dirs))
<1> DEFINE acc == MavenAcc(tree, name, rest, dirs)
<1>1. acc.tree = tree /\ acc.name = name /\ acc.todo = Exploration(tree, rest)
  BY DEF MavenAcc
<1>2. Range(Exploration(tree, rest)) \subseteq Range(tree)
  BY ExplorationRange, ObjectsAssumption
<1>3. PICK w \in W : w = <<tree, name>>
  OBVIOUS
<1>4. \A e \in Range(tree) : IsTree(e) => <<e.object, e.name>> \in W
  BY <1>3 DEF Walked
<1> HIDE DEF acc
<1>5. OfWalk(W, acc)
  BY <1>1, <1>2, <1>4 DEF OfWalk
<1>6. QED  BY <1>5 DEF acc

(* The accumulator at the top, and what it is replaced by.                 *)
LEMMA MetAtEntry ==
  ASSUME NEW W, Inv(FALSE), InWalk(W), Exploring
  PROVE  /\ IsTree(Entry) => <<Entry.object, Entry.name>> \in W
         /\ OfWalk(W, [Module EXCEPT !.todo = << >>])
         /\ OfWalk(W, Last(Popped(maven)))
         /\ \A name : OfWalk(W, [Last(Popped(maven)) EXCEPT !.dirs = Kept(@, name)])
         /\ \A name, id : OfWalk(W, PushChild(Last(Popped(maven)), name, id))
         /\ \A id : OfWalk(W, PushPom(Last(Popped(maven)), id))
<1> DEFINE acc == Last(Popped(maven))
<1>1. /\ maven # << >> /\ maven \in Seq(MavenAccs) /\ Module \in MavenAccs
      /\ acc \in MavenAccs
  BY AtEntry
<1>2. OfWalk(W, Module)
  BY <1>1, TopIn DEF InWalk, Module
<1>3. Module.todo \in Seq(Entries) /\ Module.todo # << >>
  BY <1>1 DEF MavenAccs, Exploring
<1>4. acc = [Module EXCEPT !.todo = Tail(@)]
  BY <1>3, MavenPopped DEF Exploring, InMaven, Module, Inv
<1>5. /\ Entry \in Range(Module.todo)
      /\ Range(Tail(Module.todo)) \subseteq Range(Module.todo)
  BY <1>3, TailRange DEF Entry
<1>6. acc.tree = Module.tree /\ acc.name = Module.name /\ acc.todo = Tail(Module.todo)
  BY <1>1, <1>4 DEF MavenAccs
<1>7. OfWalk(W, acc)
  BY <1>2, <1>5, <1>6 DEF OfWalk
<1>8. ASSUME NEW other, other.tree = acc.tree, other.name = acc.name,
             other.todo = acc.todo
      PROVE  OfWalk(W, other)
  BY <1>7, <1>8 DEF OfWalk
<1>9. OfWalk(W, [Module EXCEPT !.todo = << >>])
  <2>1. PICK other : other = [Module EXCEPT !.todo = << >>]
    OBVIOUS
  <2>2. other.tree = Module.tree /\ other.name = Module.name /\ other.todo = << >>
    BY <1>1, <2>1 DEF MavenAccs
  <2>3. Range(<< >>) = {}
    BY DEF Range
  <2>4. QED  BY <1>2, <2>1, <2>2, <2>3 DEF OfWalk
<1> HIDE DEF acc
<1>10. ASSUME NEW name PROVE OfWalk(W, [acc EXCEPT !.dirs = Kept(@, name)])
  <2>1. PICK other : other = [acc EXCEPT !.dirs = Kept(@, name)]
    OBVIOUS
  <2>2. other.tree = acc.tree /\ other.name = acc.name /\ other.todo = acc.todo
    BY <1>1, <2>1 DEF MavenAccs
  <2>3. QED  BY <1>8, <2>1, <2>2
<1>11. ASSUME NEW name, NEW id PROVE OfWalk(W, PushChild(acc, name, id))
  <2>1. PICK other : other = PushChild(acc, name, id)
    OBVIOUS
  <2>2. other.tree = acc.tree /\ other.name = acc.name /\ other.todo = acc.todo
    BY <1>1, <2>1 DEF MavenAccs, PushChild
  <2>3. QED  BY <1>8, <2>1, <2>2
<1>12. ASSUME NEW id PROVE OfWalk(W, PushPom(acc, id))
  <2>1. PICK other : other = PushPom(acc, id)
    OBVIOUS
  <2>2. other.tree = acc.tree /\ other.name = acc.name /\ other.todo = acc.todo
    BY <1>1, <2>1 DEF MavenAccs, PushChild, PushPom
  <2>3. QED  BY <1>8, <2>1, <2>2
<1>13. IsTree(Entry) => <<Entry.object, Entry.name>> \in W
  BY <1>2, <1>5 DEF OfWalk
<1>14. QED  BY <1>7, <1>9, <1>10, <1>11, <1>12, <1>13 DEF acc

LEMMA WalkChanges ==
  ASSUME NEW W, NEW stack \in Seq(MavenAccs), stack # << >>,
         \A d \in DOMAIN stack : OfWalk(W, stack[d]), NEW acc, OfWalk(W, acc)
  PROVE  /\ \A d \in DOMAIN OnTop(stack, acc) : OfWalk(W, OnTop(stack, acc)[d])
         /\ \A deeper : OfWalk(W, deeper) =>
              \A d \in DOMAIN Append(OnTop(stack, acc), deeper) :
                OfWalk(W, Append(OnTop(stack, acc), deeper)[d])
<1>1. \A d \in DOMAIN OnTop(stack, acc) : OfWalk(W, OnTop(stack, acc)[d])
  <2> DEFINE S == MavenAccs \cup {acc}
  <2>1. stack \in Seq(S) /\ acc \in S
    BY Wider
  <2> HIDE DEF S
  <2>2. /\ DOMAIN OnTop(stack, acc) = DOMAIN stack
        /\ \A d \in DOMAIN stack :
             OnTop(stack, acc)[d] = IF d = Len(stack) THEN acc ELSE stack[d]
    BY <2>1, StackTop
  <2>3. QED  BY <2>2
<1>2. ASSUME NEW deeper, OfWalk(W, deeper)
      PROVE  \A d \in DOMAIN Append(OnTop(stack, acc), deeper) :
               OfWalk(W, Append(OnTop(stack, acc), deeper)[d])
  <2> DEFINE S == MavenAccs \cup {acc, deeper}
  <2>1. stack \in Seq(S) /\ acc \in S /\ deeper \in S
    BY Wider
  <2> HIDE DEF S
  <2>2. OnTop(stack, acc) \in Seq(S)
    BY <2>1, StackTop
  <2>3. PICK top \in Seq(S) : top = OnTop(stack, acc)
    BY <2>2
  <2>4. \A d \in DOMAIN Append(top, deeper) : OfWalk(W, Append(top, deeper)[d])
    BY <1>1, <1>2, <2>1, <2>3, StackPush
  <2>5. QED  BY <2>3, <2>4
<1>3. QED  BY <1>1, <1>2

(* A step that changes the stack of modules only.                          *)
LEMMA WalkStep ==
  ASSUME NEW W, Inv(FALSE), InWalk(W), Exploring, NEW acc, OfWalk(W, acc),
         \/ maven' = OnTop(maven, acc)
         \/ \E deeper : OfWalk(W, deeper) /\ maven' = Append(OnTop(maven, acc), deeper),
         Grows(nodes, nodes'), UNCHANGED <<session, objectMap>>
  PROVE  InWalk(W)'
<1>1. maven # << >> /\ maven \in Seq(MavenAccs)
  BY AtEntry
<1>2. \A d \in DOMAIN maven' : OfWalk(W, maven'[d])
  BY <1>1, WalkChanges DEF InWalk
<1>3. \A o \in DOMAIN objectMap : nodes'[objectMap[o]] = nodes[objectMap[o]]
  BY DEF Inv, MapsOK, Grows
<1>4. QED  BY <1>2, <1>3 DEF InWalk

LEMMA ExploringWalk ==
  ASSUME NEW W, Inv(FALSE), InWalk(W),
         \/ ForwardToModule \/ IgnoreEntry \/ ReuseDirectory \/ EnterSources
         \/ EnterDirectory \/ ReusePom \/ GeneratePom
  PROVE  InWalk(W)'
<1>1. Exploring /\ UNCHANGED <<session, objectMap>>
  BY DEF ForwardToModule, IgnoreEntry, ReuseDirectory, EnterSources, EnterDirectory,
         ToExplore, ReusePom, AtPom, GeneratePom, caches
<1>2. Grows(nodes, nodes)
  BY DEF Grows
<1>3. ASSUME IsTree(Entry), NEW rest, NEW dirs
      PROVE  OfWalk(W, MavenAcc(Entry.object, Entry.name, rest, dirs))
  <2>1. Entry.object \in Trees /\ <<Entry.object, Entry.name>> \in W
    BY <1>1, <1>3, AtEntry, MetAtEntry
  <2>2. PICK tree \in Trees : tree = Entry.object
    BY <2>1
  <2>3. PICK name : name = Entry.name
    OBVIOUS
  <2>4. Walked(W, session)
    BY DEF InWalk
  <2>5. OfWalk(W, MavenAcc(tree, name, rest, dirs))
    BY <2>1, <2>2, <2>3, <2>4, MetWithName
  <2>6. QED  BY <2>2, <2>3, <2>5
<1>4. CASE ForwardToModule
  <2>1. /\ maven' = Append(OnTop(maven, [Module EXCEPT !.todo = << >>]),
                           MavenAcc(Entry.object, Entry.name, path', {}))
        /\ UNCHANGED nodes /\ IsTree(Entry)
    BY <1>4 DEF ForwardToModule
  <2>2. OfWalk(W, MavenAcc(Entry.object, Entry.name, path', {}))
    BY <1>3, <2>1
  <2>3. OfWalk(W, [Module EXCEPT !.todo = << >>])
    BY <1>1, MetAtEntry
  <2>4. QED  BY <1>1, <1>2, <2>1, <2>2, <2>3, WalkStep
<1>5. CASE EnterDirectory
  <2> DEFINE kept == [Last(Popped(maven)) EXCEPT !.dirs = Kept(@, Entry.name)]
             deeper == MavenAcc(Entry.object, Entry.name, path,
                                Drained(Module.dirs, Entry.name))
  <2>1. maven' = Append(OnTop(maven, kept), deeper) /\ UNCHANGED nodes /\ IsTree(Entry)
    BY <1>5 DEF EnterDirectory, ToExplore
  <2>2. OfWalk(W, deeper) /\ OfWalk(W, kept)
    BY <1>1, <1>3, <2>1, MetAtEntry
  <2> HIDE DEF kept, deeper
  <2>3. QED  BY <1>1, <1>2, <2>1, <2>2, WalkStep
<1>6. CASE IgnoreEntry
  <2>1. maven' = OnTop(maven, Last(Popped(maven))) /\ UNCHANGED nodes
    BY <1>1, <1>6, AtEntry DEF IgnoreEntry
  <2>2. QED  BY <1>1, <1>2, <2>1, MetAtEntry, WalkStep
<1>7. CASE ReuseDirectory
  <2> DEFINE acc == PushChild(Last(Popped(maven)), Entry.name, objectMap[Entry.object])
  <2>1. maven' = OnTop(maven, acc) /\ UNCHANGED nodes
    BY <1>7 DEF ReuseDirectory
  <2>2. OfWalk(W, acc)
    BY <1>1, MetAtEntry
  <2> HIDE DEF acc
  <2>3. QED  BY <1>1, <1>2, <2>1, <2>2, WalkStep
<1>8. CASE EnterSources
  <2> DEFINE acc == [Last(Popped(maven)) EXCEPT !.dirs = Kept(@, Entry.name)]
  <2>1. maven' = OnTop(maven, acc) /\ UNCHANGED nodes
    BY <1>8 DEF EnterSources
  <2>2. OfWalk(W, acc)
    BY <1>1, MetAtEntry
  <2> HIDE DEF acc
  <2>3. QED  BY <1>1, <1>2, <2>1, <2>2, WalkStep
<1>9. CASE ReusePom
  <2> DEFINE acc == PushPom(Last(Popped(maven)), objectMapPom[Entry.object])
  <2>1. maven' = OnTop(maven, acc) /\ UNCHANGED nodes
    BY <1>9 DEF ReusePom
  <2>2. OfWalk(W, acc)
    BY <1>1, MetAtEntry
  <2> HIDE DEF acc
  <2>3. QED  BY <1>1, <1>2, <2>1, <2>2, WalkStep
<1>10. CASE GeneratePom
  <2> DEFINE node == FileNode(Entry.name, Entry.object)
             acc == PushPom(Last(Popped(maven)), IdOf(nodes, node))
  <2>1. maven' = OnTop(maven, acc) /\ nodes' = Interned(nodes, node) /\ ~IsTree(Entry)
    BY <1>10 DEF GeneratePom, AtPom, IsPom
  <2>2. Grows(nodes, nodes')
    BY <1>1, <2>1, AtEntry, FileInterned DEF Inv
  <2>3. OfWalk(W, acc)
    BY <1>1, MetAtEntry
  <2> HIDE DEF acc, node
  <2>4. QED  BY <1>1, <2>1, <2>2, <2>3, WalkStep
<1>11. QED  BY <1>4, <1>5, <1>6, <1>7, <1>8, <1>9, <1>10

(* A child pushed on the top of a stack that is left.                      *)
LEMMA WalkPushed ==
  ASSUME NEW W, NEW stack \in Seq(MavenAccs), stack # << >>,
         \A d \in DOMAIN stack : OfWalk(W, stack[d]), NEW name, NEW id
  PROVE  LET more == OnTop(stack, PushChild(Last(stack), name, id))
         IN  \A d \in DOMAIN more : OfWalk(W, more[d])
<1>1. OfWalk(W, Last(stack)) /\ Last(stack) \in MavenAccs
  BY TopIn
<1>2. PICK acc : acc = PushChild(Last(stack), name, id)
  OBVIOUS
<1>3. acc.tree = Last(stack).tree /\ acc.name = Last(stack).name /\ acc.todo = Last(stack).todo
  BY <1>1, <1>2 DEF PushChild, MavenAccs
<1>4. OfWalk(W, acc)
  BY <1>1, <1>3 DEF OfWalk
<1>5. \A d \in DOMAIN OnTop(stack, acc) : OfWalk(W, OnTop(stack, acc)[d])
  BY <1>4, WalkChanges
<1>6. QED  BY <1>2, <1>5

LEMMA OtherWalk ==
  ASSUME NEW W, Inv(FALSE), InWalk(W),
         \/ HandleCommit \/ CommitModule \/ IgnoreBlob \/ ReuseItem \/ GenerateJava
         \/ EnterPackage \/ CommitPackage
  PROVE  InWalk(W)'
<1>1. maven \in Seq(MavenAccs) /\ session \in Seq(Requests) /\ nodes \in Seq(Entities)
  BY DEF Inv, MavenOK, NodesOK
<1>2. /\ \A d \in DOMAIN maven : OfWalk(W, maven[d])
      /\ Walked(W, session)
      /\ \A o \in DOMAIN objectMap : <<o, nodes[objectMap[o]].name>> \in W
  BY DEF InWalk
<1>3. CASE HandleCommit
  <2>1. /\ session # << >> /\ UNCHANGED <<session, nodes, objectMap>>
        /\ maven' = <<MavenAcc(Request.tree, "", Request.path, {})>>
    BY <1>3 DEF HandleCommit, caches
  <2>2. Request = session[1] /\ 1 \in DOMAIN session /\ Request \in Requests
    <3>1. 1 \in DOMAIN session
      BY <1>1, <2>1, TopIn
    <3>2. Head(session) = session[1] /\ Head(session) \in Requests
      BY <1>1, <2>1, TailRange, TailSeq
    <3>3. QED  BY <3>1, <3>2 DEF Request
  <2>3. Request.tree \in Trees /\ <<Request.tree, "">> \in W
    BY <1>2, <2>2 DEF Walked, Requests
  <2>4. PICK tree \in Trees : tree = Request.tree
    BY <2>3
  <2>5. PICK name : name = ""
    OBVIOUS
  <2>6. PICK rest : rest = Request.path
    OBVIOUS
  <2>7. OfWalk(W, MavenAcc(tree, name, rest, {}))
    BY <1>2, <2>3, <2>4, <2>5, MetWithName
  <2>8. PICK acc : acc = MavenAcc(tree, name, rest, {})
    OBVIOUS
  <2>9. maven' = <<acc>> /\ OfWalk(W, acc)
    BY <2>1, <2>4, <2>5, <2>6, <2>7, <2>8
  <2>10. DOMAIN <<acc>> = {1} /\ <<acc>>[1] = acc
    OBVIOUS
  <2>11. \A d \in DOMAIN maven' : OfWalk(W, maven'[d])
    BY <2>9, <2>10
  <2>12. QED  BY <1>2, <2>1, <2>11 DEF InWalk
<1>4. CASE CommitModule
  <2> DEFINE id == Len(nodes) + 1
             node == DirNode("MavenDirectory", Module, Much)
             below == Front(maven)
  <2>1. /\ maven # << >> /\ session # << >> /\ nodes' = Append(nodes, node)
        /\ objectMap' = With(objectMap, Module.tree, id)
        /\ maven' = IF below = << >> THEN << >>
                    ELSE OnTop(below, PushChild(Last(below), Module.name, id))
        /\ session' = session \/ session' = Tail(session)
    BY <1>4 DEF CommitModule, InMaven, Inv
  <2>2. OfWalk(W, Module)
    BY <1>1, <1>2, <2>1, TopIn DEF Module
  <2>3. /\ below \in Seq(MavenAccs) /\ \A d \in DOMAIN below : OfWalk(W, below[d])
    BY <1>1, <1>2, <2>1, StackPop
  <2>4. \A d \in DOMAIN maven' : OfWalk(W, maven'[d])
    <3>1. CASE below = << >>
      <4>1. DOMAIN << >> = {}
        OBVIOUS
      <4>2. QED  BY <2>1, <3>1, <4>1
    <3>2. CASE below # << >>
      <4> HIDE DEF below, id
      <4>1. QED  BY <2>1, <2>3, <3>2, WalkPushed
    <3>3. QED  BY <3>1, <3>2
  <2>5. Walked(W, session')
    <3>1. Tail(session) \in Seq(Requests) /\ Len(session) \in Nat \ {0}
          /\ DOMAIN session = 1 .. Len(session)
          /\ DOMAIN Tail(session) = 1 .. Len(session) - 1
          /\ \A i \in 1 .. Len(session) - 1 : Tail(session)[i] = session[i + 1]
      BY <1>1, <2>1, TopIn, HeadTailProperties, LenProperties
    <3>2. \A i \in 1 .. Len(session) - 1 : i + 1 \in 1 .. Len(session)
      BY <3>1
    <3>3. Walked(W, Tail(session))
      BY <1>2, <3>1, <3>2 DEF Walked
    <3>4. QED  BY <1>2, <2>1, <3>3
  <2>6. \A o \in DOMAIN objectMap' : <<o, nodes'[objectMap'[o]].name>> \in W
    <3>1. DOMAIN nodes = 1 .. Len(nodes) /\ Len(nodes) \in Nat
      BY <1>1, LenProperties
    <3>2. node.name = Module.name
      BY DEF DirNode
    <3> HIDE DEF node
    <3>3. nodes'[id] = node /\ \A i \in DOMAIN nodes : nodes'[i] = nodes[i]
      BY <1>1, <2>1, <3>1, AppendProperties
    <3>4. \A o \in DOMAIN objectMap : nodes'[objectMap[o]] = nodes[objectMap[o]]
      BY <3>3 DEF Inv, MapsOK
    <3>5. <<Module.tree, nodes'[id].name>> \in W
      BY <2>2, <3>2, <3>3 DEF OfWalk
    <3> HIDE DEF id
    <3>6. QED  BY <1>2, <2>1, <3>4, <3>5 DEF With
  <2>7. QED  BY <2>4, <2>5, <2>6 DEF InWalk
<1>5. CASE IgnoreBlob \/ ReuseItem \/ GenerateJava \/ EnterPackage \/ CommitPackage
  <2>1. UNCHANGED <<session, objectMap>>
    BY <1>5 DEF IgnoreBlob, ReuseItem, GenerateJava, EnterPackage, CommitPackage, caches
  <2>2. Grows(nodes, nodes')
    <3>1. CASE IgnoreBlob \/ ReuseItem \/ EnterPackage
      BY <3>1 DEF IgnoreBlob, ReuseItem, EnterPackage, Grows
    <3>2. CASE GenerateJava
      <4>1. /\ Reading /\ ~IsTree(Item)
            /\ nodes' = Interned(nodes, FileNode(Item.name, Item.object))
        BY <3>2 DEF GenerateJava
      <4>2. QED  BY <4>1, AtItem, FileInterned DEF Inv
    <3>3. CASE CommitPackage
      BY <3>3, PackageMade
    <3>4. QED  BY <1>5, <3>1, <3>2, <3>3
  <2>3. \A d \in DOMAIN maven' : OfWalk(W, maven'[d])
    <3>1. CASE maven' = maven
      BY <1>2, <3>1
    <3>2. CASE CommitPackage /\ maven' # maven
      <4>1. maven' = OnTop(maven, PushChild(Module, Package.name, Len(nodes) + 1))
        BY <3>2 DEF CommitPackage
      <4>2. maven # << >>
        BY <3>2 DEF CommitPackage, InJava, Inv
      <4>3. QED  BY <1>1, <1>2, <4>1, <4>2, WalkPushed DEF Module
    <3>3. QED
      BY <1>5, <3>1, <3>2 DEF IgnoreBlob, ReuseItem, GenerateJava, EnterPackage
  <2>4. \A o \in DOMAIN objectMap : nodes'[objectMap[o]] = nodes[objectMap[o]]
    BY <2>2 DEF Inv, MapsOK, Grows
  <2>5. QED  BY <1>2, <2>1, <2>3, <2>4 DEF InWalk
<1>6. QED  BY <1>3, <1>4, <1>5

(* A session in which no directory occurs under two names has NamesAgree,  *)
(* whatever it is asked for: what object_map has of a directory has the    *)
(* name under which the walk meets it again.                               *)
THEOREM NamesAgreeWithoutRenames == Spec /\ OneName(session) => []NamesAgree
<1> DEFINE Good(W) == Inv(FALSE) /\ InWalk(W)
<1>1. ASSUME NEW W PROVE Spec /\ Walked(W, session) => []NamesAgree
  <2>1. Init /\ Walked(W, session) => Good(W)
    <3>1. Init => DOMAIN maven = {} /\ DOMAIN objectMap = {}
      BY DEF Init
    <3>2. QED  BY <3>1, Begins DEF InWalk
  <2>2. Good(W) /\ [Next]_vars => Good(W)' /\ [SameName]_vars
    <3>1. SUFFICES ASSUME Inv(FALSE), InWalk(W), [Next]_vars
                   PROVE  Good(W)' /\ SameName
      OBVIOUS
    <3>2. Inv(FALSE)'
      BY <3>1, NextKeeps
    <3>3. InWalk(W)'
      <4>1. CASE UNCHANGED vars
        BY <3>1, <4>1 DEF vars, caches, InWalk
      <4>2. CASE ReuseDirectoryPanics \/ ReusePanics
        BY <3>1, <4>2 DEF ReuseDirectoryPanics, ReusePanics, caches, InWalk
      <4>3. QED
        BY <3>1, <4>1, <4>2, ExploringWalk, OtherWalk DEF Next, Step
    <3>4. SameName
      <4>1. SUFFICES ASSUME ReuseDirectory
                     PROVE  nodes[objectMap[Entry.object]].name = Entry.name
        BY DEF SameName
      <4>2. /\ <<Entry.object, Entry.name>> \in W
            /\ <<Entry.object, nodes[objectMap[Entry.object]].name>> \in W
        BY <3>1, <4>1, MetAtEntry DEF ReuseDirectory, InWalk
      <4>3. QED  BY <3>1, <4>2 DEF InWalk, Walked
    <3>5. QED  BY <3>2, <3>3, <3>4
  <2> HIDE DEF Good
  <2>3. QED  BY <2>1, <2>2, NamesAgreeUnlessRenamed, PTL DEF Spec
<1>2. QED  BY <1>1 DEF OneName
-----------------------------------------------------------------------------
(***************************************************************************)
(* The files of trees and of entities                                      *)
(***************************************************************************)

(* What holds of a tree when it does of the trees in it holds of all.      *)
LEMMA HeightInduction ==
  ASSUME NEW S,
         \A t \in Trees : (\A e \in Range(t) : IsTree(e) => e.object \in S) => t \in S
  PROVE  Trees \subseteq S
<1> DEFINE T == {n \in Nat : \A t \in Trees : Height[t] = n => t \in S}
<1>1. ASSUME NEW n \in Nat, \A m \in Nat : m < n => m \in T
      PROVE  n \in T
  <2>1. SUFFICES ASSUME NEW t \in Trees, Height[t] = n
                 PROVE  t \in S
    OBVIOUS
  <2>2. ASSUME NEW e \in Range(t), IsTree(e) PROVE e.object \in S
    <3>1. e \in Entries
      <4>1. t \in Seq(Entries)
        BY ObjectsAssumption
      <4>2. QED  BY <4>1, LenProperties, ElementOfSeq DEF Range
    <3>2. e.object \in Trees
      BY <2>2, <3>1 DEF IsTree, Entries, Objects
    <3>3. Height[e.object] \in Nat /\ Height[e.object] < n
      BY <2>1, <2>2, <3>2, HeightAssumption
    <3>4. QED  BY <1>1, <3>2, <3>3
  <2>3. QED  BY <2>2
<1>2. Nat \subseteq T
  <2> HIDE DEF T
  <2>1. QED  BY <1>1, StrongInduction
<1>3. QED  BY <1>2, HeightAssumption

LEMMA EntryTypes ==
  ASSUME NEW t \in Trees, NEW e \in Range(t)
  PROVE  /\ e \in Entries /\ e.name \in EntryNames
         /\ IsTree(e) => e.object \in Trees
         /\ ~IsTree(e) => e.object \in Blobs
<1>1. t \in Seq(Entries)
  BY ObjectsAssumption
<1>2. e \in Entries
  BY <1>1, LenProperties, ElementOfSeq DEF Range
<1>3. QED  BY <1>2 DEF IsTree, Entries, Objects

\* the files of a tree when those of the trees in it are known
Layer(files, t) ==
  UNION {Under(e.name, IF IsTree(e) THEN files[e.object]
                       ELSE {[path |-> << >>, blob |-> e.object]}) : e \in Range(t)}

LEMMA LayerAlike ==
  ASSUME NEW t \in Trees, NEW f, NEW g,
         \A e \in Range(t) : IsTree(e) => f[e.object] = g[e.object]
  PROVE  Layer(f, t) = Layer(g, t)
BY DEF Layer

(* Trees have heights, hence there are such files.                         *)
LEMMA LayersExist == \E files : files = [t \in Trees |-> Layer(files, t)]
<1> DEFINE Upto(n, f) == \A t \in Trees : Height[t] <= n => f[t] = Layer(f, t)
           Good == {n \in Nat : \E f : Upto(n, f)}
<1>1. ASSUME NEW n \in Nat, NEW f, Upto(n, f)
      PROVE  Upto(n + 1, [t \in Trees |-> Layer(f, t)])
  <2> DEFINE g == [t \in Trees |-> Layer(f, t)]
  <2>1. SUFFICES ASSUME NEW t \in Trees, Height[t] <= n + 1
                 PROVE  g[t] = Layer(g, t)
    OBVIOUS
  <2>2. ASSUME NEW e \in Range(t), IsTree(e) PROVE g[e.object] = f[e.object]
    <3>1. e.object \in Trees
      BY <2>2, EntryTypes
    <3>2. Height[e.object] < Height[t] /\ Height[e.object] \in Nat /\ Height[t] \in Nat
      BY <2>2, <3>1, HeightAssumption
    <3>3. Height[e.object] <= n
      BY <2>1, <3>2
    <3>4. f[e.object] = Layer(f, e.object)
      BY <1>1, <3>1, <3>3
    <3>5. QED  BY <3>1, <3>4
  <2>3. g[t] = Layer(f, t)
    OBVIOUS
  <2> HIDE DEF g
  <2>4. QED  BY <2>2, <2>3, LayerAlike
<1>2. 0 \in Good
  <2> DEFINE g == [t \in Trees |-> Layer(<< >>, t)]
  <2>1. ASSUME NEW t \in Trees, Height[t] <= 0 PROVE g[t] = Layer(g, t)
    <3>1. ASSUME NEW e \in Range(t), IsTree(e) PROVE FALSE
      <4>1. e.object \in Trees
        BY <3>1, EntryTypes
      <4>2. Height[e.object] < Height[t] /\ Height[e.object] \in Nat /\ Height[t] \in Nat
        BY <3>1, <4>1, HeightAssumption
      <4>3. QED  BY <2>1, <4>2
    <3>2. g[t] = Layer(<< >>, t)
      OBVIOUS
    <3> HIDE DEF g
    <3>3. QED  BY <3>1, <3>2, LayerAlike
  <2>2. Upto(0, g)
    BY <2>1
  <2>3. QED  BY <2>2
<1>3. ASSUME NEW n \in Nat, n \in Good PROVE n + 1 \in Good
  <2>1. PICK f : Upto(n, f)
    BY <1>3
  <2>2. PICK g : g = [t \in Trees |-> Layer(f, t)]
    OBVIOUS
  <2>3. Upto(n + 1, g)
    BY <1>1, <2>1, <2>2
  <2>4. QED  BY <2>3
<1>4. Nat \subseteq Good
  <2> HIDE DEF Good
  <2>1. QED  BY <1>2, <1>3, Induction
<1>5. ASSUME NEW n \in Nat, NEW m \in Nat, NEW f, NEW g, Upto(n, f), Upto(m, g)
      PROVE  \A t \in Trees : Height[t] <= n /\ Height[t] <= m => f[t] = g[t]
  <2> DEFINE S == {t \in Trees : Height[t] <= n /\ Height[t] <= m => f[t] = g[t]}
  <2>1. ASSUME NEW t \in Trees, \A e \in Range(t) : IsTree(e) => e.object \in S
        PROVE  t \in S
    <3>1. SUFFICES ASSUME Height[t] <= n, Height[t] <= m PROVE f[t] = g[t]
      OBVIOUS
    <3>2. ASSUME NEW e \in Range(t), IsTree(e) PROVE f[e.object] = g[e.object]
      <4>1. e.object \in Trees /\ e.object \in S
        BY <2>1, <3>2, EntryTypes
      <4>2. Height[e.object] < Height[t] /\ Height[e.object] \in Nat /\ Height[t] \in Nat
        BY <3>2, <4>1, HeightAssumption
      <4>3. Height[e.object] <= n /\ Height[e.object] <= m
        BY <3>1, <4>2
      <4>4. QED  BY <4>1, <4>3
    <3>3. QED  BY <1>5, <3>1, <3>2, LayerAlike
  <2>2. Trees \subseteq S
    <3> HIDE DEF S
    <3>1. QED  BY <2>1, HeightInduction
  <2>3. QED  BY <2>2
<1> DEFINE upto == [n \in Nat |-> CHOOSE f : Upto(n, f)]
           files == [t \in Trees |-> upto[Height[t]][t]]
<1>6. \A n \in Nat : Upto(n, upto[n])
  BY <1>4
<1>7. ASSUME NEW t \in Trees PROVE files[t] = Layer(files, t)
  <2>1. PICK n \in Nat : n = Height[t]
    BY HeightAssumption
  <2>2. PICK f : f = upto[n]
    OBVIOUS
  <2>3. files[t] = Layer(f, t)
    <3>1. Upto(n, f)
      BY <1>6, <2>2
    <3>2. QED  BY <2>1, <2>2, <3>1
  <2>4. ASSUME NEW e \in Range(t), IsTree(e) PROVE f[e.object] = files[e.object]
    <3>1. e.object \in Trees
      BY <2>4, EntryTypes
    <3>2. PICK m \in Nat : m = Height[e.object]
      BY <3>1, HeightAssumption
    <3>3. m < n
      BY <2>1, <2>4, <3>2, HeightAssumption
    <3>4. Upto(n, f) /\ Upto(m, upto[m])
      BY <1>6, <2>2
    <3>5. PICK g : g = upto[m]
      OBVIOUS
    <3> HIDE DEF Upto, upto
    <3>6. \A u \in Trees : Height[u] <= n /\ Height[u] <= m => f[u] = g[u]
      BY <1>5, <3>4, <3>5
    <3>7. f[e.object] = g[e.object]
      BY <3>1, <3>2, <3>3, <3>6
    <3>8. QED  BY <3>1, <3>2, <3>5, <3>7
  <2> HIDE DEF files
  <2>5. QED  BY <2>3, <2>4, LayerAlike
<1>8. files = [t \in Trees |-> Layer(files, t)]
  BY <1>7
<1>9. QED  BY <1>8

LEMMA GitFilesAre == GitFiles = [t \in Trees |-> Layer(GitFiles, t)]
<1> DEFINE Body(f) ==
             [t \in Trees |->
                UNION {Under(e.name, IF IsTree(e) THEN f[e.object]
                                     ELSE {[path |-> << >>, blob |-> e.object]}) :
                         e \in Range(t)}]
<1>1. \A f : Body(f) = [t \in Trees |-> Layer(f, t)]
  BY DEF Layer
<1>2. PICK f : f = Body(f)
  BY <1>1, LayersExist
<1>3. GitFiles = CHOOSE f_1 : f_1 = Body(f_1)
  BY DEF GitFiles
<1> HIDE DEF Body
<1>4. GitFiles = Body(GitFiles)
  BY <1>2, <1>3
<1>5. QED  BY <1>1, <1>4

\* the files below some directory
Files == [path : Seq(EntryNames), blob : Blobs]

(* A name put before a path.                                               *)
LEMMA NameFirst ==
  ASSUME NEW S, NEW name \in S, NEW p \in Seq(S)
  PROVE  /\ <<name>> \o p \in Seq(S) /\ <<name>> \o p # << >>
         /\ Len(<<name>> \o p) = Len(p) + 1 /\ (<<name>> \o p)[1] = name
         /\ \A i \in 1 .. Len(p) : (<<name>> \o p)[i + 1] = p[i]
         /\ Last(<<name>> \o p) = IF p = << >> THEN name ELSE Last(p)
         /\ Head(<<name>> \o p) = name /\ Tail(<<name>> \o p) = p
<1>1. <<name>> \in Seq(S) /\ Len(<<name>>) = 1 /\ <<name>>[1] = name
  OBVIOUS
<1> DEFINE q == <<name>> \o p
<1>2. /\ q \in Seq(S) /\ Len(q) = Len(p) + 1 /\ Len(p) \in Nat
      /\ \A i \in 1 .. Len(q) : q[i] = IF i <= 1 THEN <<name>>[i] ELSE p[i - 1]
  <2>1. Len(p) \in Nat
    BY LenProperties
  <2>2. QED  BY <1>1, <2>1, ConcatProperties
<1> HIDE DEF q
<1>3. q # << >>
  BY <1>2, EmptySeq
<1>4. q[1] = name /\ \A i \in 1 .. Len(p) : q[i + 1] = p[i]
  <2>1. 1 \in 1 .. Len(q)
    BY <1>2
  <2>2. \A i \in 1 .. Len(p) : i + 1 \in 1 .. Len(q) /\ ~(i + 1 <= 1) /\ (i + 1) - 1 = i
    BY <1>2
  <2>3. QED  BY <1>1, <1>2, <2>1, <2>2
<1>5. Last(q) = IF p = << >> THEN name ELSE Last(p)
  <2>1. CASE p = << >>
    BY <1>2, <1>4, <2>1, EmptySeq DEF Last
  <2>2. CASE p # << >>
    <3>1. Len(p) \in 1 .. Len(p)
      BY <1>2, <2>2, EmptySeq
    <3>2. QED  BY <1>2, <1>4, <2>2, <3>1 DEF Last
  <2>3. QED  BY <2>1, <2>2
<1>6. Head(q) = name /\ Tail(q) = p
  <2>1. /\ Head(q) = q[1] /\ Tail(q) \in Seq(S) /\ Len(Tail(q)) = Len(q) - 1
        /\ \A i \in 1 .. Len(Tail(q)) : Tail(q)[i] = q[i + 1]
    BY <1>2, <1>3, HeadTailProperties
  <2>2. Len(Tail(q)) = Len(p)
    BY <1>2, <2>1
  <2>3. \A i \in 1 .. Len(p) : Tail(q)[i] = p[i]
    BY <1>4, <2>1, <2>2
  <2>4. QED  BY <1>4, <2>1, <2>2, <2>3, SeqEqual
<1>7. QED  BY <1>2, <1>3, <1>4, <1>5, <1>6 DEF q

(* The files of a tree are those of its entries, at paths of names.        *)
LEMMA GitFilesTypes ==
  ASSUME NEW t \in Trees
  PROVE  /\ GitFiles[t] \subseteq {f \in Files : f.path # << >>}
         /\ GitFiles[t] = Layer(GitFiles, t)
<1> DEFINE S == {u \in Trees : GitFiles[u] \subseteq {f \in Files : f.path # << >>}}
<1>1. \A u \in Trees : GitFiles[u] = Layer(GitFiles, u)
  <2>1. PICK f : f = GitFiles
    OBVIOUS
  <2>2. f = [u \in Trees |-> Layer(f, u)]
    BY <2>1, GitFilesAre
  <2>3. \A u \in Trees : f[u] = Layer(f, u)
    BY <2>2
  <2>4. QED  BY <2>1, <2>3
<1>2. ASSUME NEW u \in Trees, \A e \in Range(u) : IsTree(e) => e.object \in S
      PROVE  u \in S
  <2>1. SUFFICES ASSUME NEW f \in Layer(GitFiles, u)
                 PROVE  f \in Files /\ f.path # << >>
    BY <1>1
  <2>2. PICK e \in Range(u) :
          f \in Under(e.name, IF IsTree(e) THEN GitFiles[e.object]
                              ELSE {[path |-> << >>, blob |-> e.object]})
    BY DEF Layer
  <2>3. PICK g \in (IF IsTree(e) THEN GitFiles[e.object]
                    ELSE {[path |-> << >>, blob |-> e.object]}) :
          f = [path |-> <<e.name>> \o g.path, blob |-> g.blob]
    BY <2>2 DEF Under
  <2>4. g.path \in Seq(EntryNames) /\ g.blob \in Blobs /\ e.name \in EntryNames
    <3>1. CASE IsTree(e)
      BY <1>2, <2>3, <3>1, EntryTypes DEF Files
    <3>2. CASE ~IsTree(e)
      <4>1. << >> \in Seq(EntryNames)
        BY EmptySeq
      <4>2. g = [path |-> << >>, blob |-> e.object]
        BY <2>3, <3>2
      <4>3. g.path = << >> /\ g.blob = e.object /\ e.object \in Blobs
        BY <3>2, <4>2, EntryTypes
      <4>4. QED  BY <4>1, <4>3, EntryTypes
    <3>3. QED  BY <3>1, <3>2, EntryTypes
  <2>5. <<e.name>> \o g.path \in Seq(EntryNames) /\ <<e.name>> \o g.path # << >>
    BY <2>4, NameFirst
  <2>6. QED  BY <2>3, <2>4, <2>5 DEF Files
<1>3. Trees \subseteq S
  <2> HIDE DEF S
  <2>1. QED  BY <1>2, HeightInduction
<1>4. QED  BY <1>1, <1>3

(***************************************************************************)
(* The files of entities                                                   *)
(***************************************************************************)

LEMMA SingleUnder ==
  ASSUME NEW name, NEW blob, NEW p, p = <<name>> \o << >>
  PROVE  Under(name, Single(blob)) = {[path |-> p, blob |-> blob]}
<1>1. PICK z : z = << >>
  OBVIOUS
<1>2. PICK f : f = [path |-> z, blob |-> blob]
  OBVIOUS
<1>3. Single(blob) = {f} /\ f.path = z /\ f.blob = blob /\ p = <<name>> \o z
  BY <1>1, <1>2 DEF Single
<1>4. Under(name, {f}) = {[path |-> <<name>> \o f.path, blob |-> f.blob]}
  BY DEF Under
<1>5. QED  BY <1>3, <1>4

\* the files of a directory when those of its children are known
Held(files, dir) ==
  UNION {Under(dir.names[k], files[dir.children[k]]) : k \in DOMAIN dir.children}

\* files has those of every entity
FileTable(ns, files) ==
  files = [i \in DOMAIN ns |->
             IF ns[i].kind = "file" THEN Single(ns[i].blob) ELSE Held(files, ns[i])]

LEMMA HeldAlike ==
  ASSUME NEW f, NEW g, NEW dir, \A c \in Range(dir.children) : f[c] = g[c]
  PROVE  Held(f, dir) = Held(g, dir)
<1>1. \A k \in DOMAIN dir.children : f[dir.children[k]] = g[dir.children[k]]
  BY DEF Range
<1>2. QED  BY <1>1 DEF Held

(* An entity is made of earlier ones, hence there is such a function.      *)
LEMMA FileTableExists ==
  ASSUME NEW all, NEW ns, NodesOK(ns, all)
  PROVE  \E files : FileTable(ns, files)
<1> DEFINE Value(f, i) == IF ns[i].kind = "file" THEN Single(ns[i].blob)
                          ELSE Held(f, ns[i])
           Upto(n, f) == DOMAIN f = 1 .. n /\ \A i \in 1 .. n : f[i] = Value(f, i)
           Good == {n \in Nat : n <= Len(ns) => \E f : Upto(n, f)}
<1>1. Len(ns) \in Nat /\ DOMAIN ns = 1 .. Len(ns)
  BY LenProperties DEF NodesOK
<1>2. 0 \in Good
  <2>1. Upto(0, [i \in 1 .. 0 |-> i])
    OBVIOUS
  <2>2. QED  BY <2>1
<1>3. ASSUME NEW n \in Good PROVE n + 1 \in Good
  <2>1. SUFFICES ASSUME n + 1 <= Len(ns) PROVE \E f : Upto(n + 1, f)
    BY <1>3
  <2>2. PICK old : Upto(n, old)
    BY <1>1, <1>3, <2>1
  <2> DEFINE new == [i \in 1 .. n + 1 |-> IF i \in 1 .. n THEN old[i] ELSE Value(old, i)]
  <2>3. ASSUME NEW i \in 1 .. n + 1 PROVE Held(new, ns[i]) = Held(old, ns[i])
    <3>0. i \in DOMAIN ns
      BY <1>1, <1>3, <2>1, <2>3
    <3>1. Range(ns[i].children) \subseteq 1 .. i - 1
      BY <3>0 DEF NodesOK
    <3>2. \A c \in Range(ns[i].children) : new[c] = old[c]
      BY <1>3, <2>3, <3>1
    <3> HIDE DEF new
    <3>3. QED  BY <3>2, HeldAlike
  <2>4. \A i \in 1 .. n + 1 : new[i] = Value(old, i)
    BY <1>3, <2>2
  <2>5. \A i \in 1 .. n + 1 : Value(new, i) = Value(old, i)
    BY <2>3
  <2>6. Upto(n + 1, new)
    BY <2>4, <2>5
  <2>7. QED  BY <2>6
<1>4. Len(ns) \in Good
  <2> HIDE DEF Good
  <2>1. Good \subseteq Nat
    BY DEF Good
  <2>2. QED  BY <1>1, <1>2, <1>3, <2>1, Induction
<1>5. PICK f : Upto(Len(ns), f)
  BY <1>1, <1>4
<1> DEFINE table == [i \in DOMAIN ns |-> Value(f, i)]
<1>6. \A i \in DOMAIN ns : table[i] = f[i]
  BY <1>1, <1>5
<1>7. ASSUME NEW i \in DOMAIN ns PROVE Held(table, ns[i]) = Held(f, ns[i])
  <2>1. Range(ns[i].children) \subseteq DOMAIN ns
    <3>1. Range(ns[i].children) \subseteq 1 .. i - 1
      BY <1>7 DEF NodesOK
    <3>2. 1 .. i - 1 \subseteq DOMAIN ns
      BY <1>1
    <3>3. QED  BY <3>1, <3>2
  <2> HIDE DEF table
  <2>2. QED  BY <1>6, <2>1, HeldAlike
<1>8. \A i \in DOMAIN ns : Value(table, i) = Value(f, i)
  BY <1>7
<1>9. FileTable(ns, table)
  BY <1>8 DEF FileTable
<1>10. QED  BY <1>9

LEMMA AstFilesTable == Inv(FALSE) => FileTable(nodes, AstFiles)
<1> SUFFICES ASSUME Inv(FALSE) PROVE FileTable(nodes, AstFiles)
  OBVIOUS
<1> DEFINE Body(files) ==
             [i \in DOMAIN nodes |->
                IF nodes[i].kind = "file"
                THEN {[path |-> << >>, blob |-> nodes[i].blob]}
                ELSE UNION {Under(nodes[i].names[k], files[nodes[i].children[k]]) :
                              k \in DOMAIN nodes[i].children}]
<1>1. ASSUME NEW f PROVE FileTable(nodes, f) <=> f = Body(f)
  BY DEF FileTable, Held, Single
<1>2. PICK f : FileTable(nodes, f)
  BY FileTableExists DEF Inv
<1>3. f = Body(f)
  BY <1>1, <1>2
<1>4. AstFiles = CHOOSE g : g = Body(g)
  BY DEF AstFiles
<1> HIDE DEF Body
<1>5. AstFiles = Body(AstFiles)
  BY <1>3, <1>4
<1>6. QED  BY <1>1, <1>5

(* What an entity is made of never changes, nor do its files.              *)
LEMMA FileTableStays ==
  ASSUME NEW ns, NEW ns2, NodesOK(ns, FALSE), Grows(ns, ns2),
         NEW f, FileTable(ns, f), NEW g, FileTable(ns2, g)
  PROVE  Agree(ns, f, g)
<1> DEFINE Good == {i \in Nat : i \in DOMAIN ns => g[i] = f[i]}
<1>1. DOMAIN ns = 1 .. Len(ns) /\ Len(ns) \in Nat
  BY LenProperties DEF NodesOK
<1>2. ASSUME NEW i \in Nat, \A j \in Nat : j < i => j \in Good
      PROVE  i \in Good
  <2>1. SUFFICES ASSUME i \in DOMAIN ns PROVE g[i] = f[i]
    BY <1>2
  <2>2. i \in DOMAIN ns2 /\ ns2[i] = ns[i]
    BY <2>1 DEF Grows
  <2>3. \A c \in Range(ns[i].children) : g[c] = f[c]
    <3>1. Range(ns[i].children) \subseteq 1 .. i - 1
      BY <2>1 DEF NodesOK
    <3>2. \A c \in 1 .. i - 1 : c \in Nat /\ c < i /\ c \in DOMAIN ns
      BY <1>1, <2>1
    <3>3. QED  BY <1>2, <3>1, <3>2
  <2>4. Held(g, ns[i]) = Held(f, ns[i])
    BY <2>3, HeldAlike
  <2>5. f[i] = IF ns[i].kind = "file" THEN Single(ns[i].blob) ELSE Held(f, ns[i])
    BY <2>1 DEF FileTable
  <2>6. g[i] = IF ns[i].kind = "file" THEN Single(ns[i].blob) ELSE Held(g, ns[i])
    BY <2>2 DEF FileTable
  <2>7. QED  BY <2>4, <2>5, <2>6
<1>3. Nat \subseteq Good
  <2> HIDE DEF Good
  <2>1. QED  BY <1>2, StrongInduction
<1>4. QED  BY <1>1, <1>3 DEF Agree

LEMMA AstFilesStay ==
  Inv(FALSE) /\ Inv(FALSE)' /\ Grows(nodes, nodes') =>
    /\ \A i \in DOMAIN nodes : AstFiles'[i] = AstFiles[i]
    /\ FileTable(nodes', AstFiles')
<1>1. SUFFICES ASSUME Inv(FALSE), Inv(FALSE)', Grows(nodes, nodes')
               PROVE  /\ \A i \in DOMAIN nodes : AstFiles'[i] = AstFiles[i]
                      /\ FileTable(nodes', AstFiles')
  OBVIOUS
<1>2. (Inv(FALSE) => FileTable(nodes, AstFiles))'
  BY AstFilesTable, PTL
<1>3. FileTable(nodes', AstFiles')
  BY <1>1, <1>2
<1>4. FileTable(nodes, AstFiles) /\ NodesOK(nodes, FALSE)
  BY <1>1, AstFilesTable DEF Inv
<1>5. \A i \in DOMAIN nodes : AstFiles'[i] = AstFiles[i]
  <2>1. PICK ns : ns = nodes
    OBVIOUS
  <2>2. PICK ns2 : ns2 = nodes'
    OBVIOUS
  <2>3. PICK f : f = AstFiles
    OBVIOUS
  <2>4. PICK g : g = AstFiles'
    OBVIOUS
  <2>5. NodesOK(ns, FALSE) /\ Grows(ns, ns2)
    BY <1>1, <1>4, <2>1, <2>2
  <2>6. FileTable(ns, f) /\ FileTable(ns2, g)
    BY <1>3, <1>4, <2>1, <2>2, <2>3, <2>4
  <2>7. Agree(ns, f, g)
    BY <2>5, <2>6, FileTableStays
  <2>8. QED  BY <2>1, <2>3, <2>4, <2>7 DEF Agree
<1>6. QED  BY <1>3, <1>5

LEMMA HeldStays ==
  ASSUME NEW ns, NEW f, NEW g, Agree(ns, f, g), NEW dir, Listed(ns, dir)
  PROVE  Held(g, dir) = Held(f, dir)
BY HeldAlike DEF Agree, Listed, Range

(* A child more, and its files under its name.                             *)
LEMMA HeldPushed ==
  ASSUME NEW ns, NEW dir, dir.names \in Seq(Names), dir.children \in Seq(Nat),
         Listed(ns, dir), NEW name \in Names, NEW id \in Nat, NEW files,
         NEW pushed, pushed.names = Append(dir.names, name),
         pushed.children = Append(dir.children, id)
  PROVE  Held(files, pushed) = Held(files, dir) \cup Under(name, files[id])
<1>1. PICK n \in Nat : Len(dir.names) = n /\ Len(dir.children) = n
  BY LenProperties DEF Listed
<1>2. /\ DOMAIN dir.children = 1 .. n /\ DOMAIN dir.names = 1 .. n
      /\ DOMAIN pushed.children = (1 .. n) \cup {n + 1}
      /\ pushed.children[n + 1] = id /\ pushed.names[n + 1] = name
      /\ \A k \in 1 .. n : /\ pushed.children[k] = dir.children[k]
                            /\ pushed.names[k] = dir.names[k]
  <2>1. DOMAIN dir.children = 1 .. n /\ DOMAIN dir.names = 1 .. n
    BY <1>1, LenProperties
  <2>2. /\ DOMAIN pushed.children = DOMAIN dir.children \cup {n + 1}
        /\ pushed.children[n + 1] = id
        /\ \A k \in DOMAIN dir.children : pushed.children[k] = dir.children[k]
    BY <1>1, StackPush
  <2>3. /\ pushed.names[n + 1] = name
        /\ \A k \in DOMAIN dir.names : pushed.names[k] = dir.names[k]
    BY <1>1, StackPush
  <2>4. QED  BY <2>1, <2>2, <2>3
<1> DEFINE Of(k) == Under(pushed.names[k], files[pushed.children[k]])
<1>3. Held(files, pushed) = UNION {Of(k) : k \in (1 .. n) \cup {n + 1}}
  BY <1>2 DEF Held
<1>4. Of(n + 1) = Under(name, files[id])
  BY <1>2
<1>5. \A k \in 1 .. n : Of(k) = Under(dir.names[k], files[dir.children[k]])
  BY <1>2
<1>6. Held(files, dir) = UNION {Under(dir.names[k], files[dir.children[k]]) : k \in 1 .. n}
  BY <1>2 DEF Held
<1> HIDE DEF Of
<1>7. Held(files, dir) = UNION {Of(k) : k \in 1 .. n}
  BY <1>5, <1>6
<1>8. QED  BY <1>3, <1>4, <1>7

(***************************************************************************)
(* Packages: what handle_java_src makes of a tree                          *)
(***************************************************************************)

\* what it makes of an entry
OfItem(e) ==
  IF IsTree(e) THEN JavaBelow(e.object)
  ELSE IF IsJava(e.name) /\ e.object \notin Unreadable THEN Single(e.object)
  ELSE {}

LEMMA JavaLayer ==
  ASSUME NEW t \in Trees
  PROVE  JavaBelow(t) = UNION {Under(e.name, OfItem(e)) : e \in Range(t)}
<1> DEFINE Below1(e) == IF IsTree(e) THEN GitFiles[e.object] ELSE Single(e.object)
           Kept1(e) == {f \in Under(e.name, Below1(e)) :
                         f.blob \notin Unreadable /\ IsJava(Last(f.path))}
<1>1. GitFiles[t] = UNION {Under(e.name, Below1(e)) : e \in Range(t)}
  BY GitFilesTypes DEF Layer, Single
<1>2. JavaBelow(t) = UNION {Kept1(e) : e \in Range(t)}
  BY <1>1 DEF JavaBelow, JavaFiles, Readable
<1>3. ASSUME NEW e \in Range(t) PROVE Kept1(e) = Under(e.name, OfItem(e))
  <2>1. e.name \in EntryNames
    BY EntryTypes
  <2>2. CASE IsTree(e)
    <3>1. e.object \in Trees
      BY <2>2, EntryTypes
    <3>2. \A f \in GitFiles[e.object] :
            /\ f.path \in Seq(EntryNames) /\ f.path # << >>
            /\ Last(<<e.name>> \o f.path) = Last(f.path)
      BY <2>1, <3>1, GitFilesTypes, NameFirst DEF Files
    <3>3. OfItem(e) = {f \in GitFiles[e.object] : f.blob \notin Unreadable /\ IsJava(Last(f.path))}
      BY <2>2 DEF OfItem, JavaBelow, JavaFiles, Readable
    <3>4. ASSUME NEW f \in Kept1(e) PROVE f \in Under(e.name, OfItem(e))
      <4>1. PICK g \in GitFiles[e.object] :
              f = [path |-> <<e.name>> \o g.path, blob |-> g.blob]
        BY <2>2, <3>4 DEF Under
      <4>2. f.path = <<e.name>> \o g.path /\ f.blob = g.blob
        BY <4>1
      <4>3. g \in OfItem(e)
        BY <3>2, <3>3, <3>4, <4>1, <4>2
      <4>4. QED  BY <4>1, <4>3 DEF Under
    <3>5. ASSUME NEW f \in Under(e.name, OfItem(e)) PROVE f \in Kept1(e)
      <4>1. PICK g \in OfItem(e) : f = [path |-> <<e.name>> \o g.path, blob |-> g.blob]
        BY <3>5 DEF Under
      <4>2. f.path = <<e.name>> \o g.path /\ f.blob = g.blob
        BY <4>1
      <4>3. g \in GitFiles[e.object] /\ f.blob \notin Unreadable /\ IsJava(Last(f.path))
        BY <3>2, <3>3, <4>1, <4>2
      <4>4. f \in Under(e.name, Below1(e))
        BY <2>2, <4>1, <4>3 DEF Under
      <4>5. QED  BY <4>3, <4>4
    <3>6. QED  BY <3>4, <3>5
  <2>3. CASE ~IsTree(e)
    <3>1. PICK p : p = <<e.name>> \o << >>
      OBVIOUS
    <3>2. Under(e.name, Single(e.object)) = {[path |-> p, blob |-> e.object]}
      BY <3>1, SingleUnder
    <3>3. Last(p) = e.name
      <4>1. PICK z \in Seq(EntryNames) : z = << >>
        BY EmptySeq
      <4>2. QED  BY <2>1, <3>1, <4>1, NameFirst
    <3>4. Kept1(e) = IF e.object \notin Unreadable /\ IsJava(e.name)
                    THEN {[path |-> p, blob |-> e.object]} ELSE {}
      BY <2>3, <3>2, <3>3
    <3>5. Under(e.name, OfItem(e)) = IF e.object \notin Unreadable /\ IsJava(e.name)
                                     THEN {[path |-> p, blob |-> e.object]} ELSE {}
      <4>1. Under(e.name, {}) = {}
        BY DEF Under
      <4>2. QED  BY <2>3, <3>2, <4>1 DEF OfItem
    <3>6. QED  BY <3>4, <3>5
  <2>4. QED  BY <2>2, <2>3
<1> HIDE DEF Kept1
<1>4. QED  BY <1>2, <1>3

\* what is made of the entries that are left
Left(acc) == UNION {Under(e.name, OfItem(e)) : e \in Range(acc.todo)}

\* a package has what was made of its entries, what will be, and what is due:
\* made of the entry that is being read
PackageWhole(files, acc, due) ==
  Held(files, acc) \cup Left(acc) \cup due = JavaBelow(acc.tree)

\* what the directory above gets of a package
Gets(acc) == Under(acc.name, JavaBelow(acc.tree))
DueAt(stack, d) == IF d + 1 \in DOMAIN stack THEN Gets(stack[d + 1]) ELSE {}
DueFirst(stack) == IF stack = << >> THEN {} ELSE Gets(stack[1])

PackagesWhole(files, stack) ==
  \A d \in DOMAIN stack : PackageWhole(files, stack[d], DueAt(stack, d))
PackagesBelow(files, stack) ==
  \A d \in DOMAIN stack \ {Len(stack)} : PackageWhole(files, stack[d], DueAt(stack, d))

\* what is kept of an object is what is made of an entry for it
MadesWhole(files, mades) ==
  \A e \in Entries : JavaKey(e.object, e.name) \in DOMAIN mades =>
    files[mades[JavaKey(e.object, e.name)].id] = OfItem(e)

Whole ==
  /\ PackagesWhole(AstFiles, java)
  /\ MadesWhole(AstFiles, objectMapJava)

LEMMA RangeSplit ==
  ASSUME NEW S, NEW s \in Seq(S), s # << >>
  PROVE  Range(s) = {Head(s)} \cup Range(Tail(s))
<1>1. Len(s) \in Nat \ {0} /\ DOMAIN s = 1 .. Len(s)
  BY TopIn
<1>2. /\ Head(s) = s[1] /\ Tail(s) \in Seq(S) /\ Len(Tail(s)) = Len(s) - 1
      /\ \A i \in 1 .. Len(Tail(s)) : Tail(s)[i] = s[i + 1]
  BY HeadTailProperties
<1>3. DOMAIN Tail(s) = 1 .. Len(s) - 1
  BY <1>2, LenProperties
<1>4. \A i \in 1 .. Len(s) : i # 1 => i - 1 \in 1 .. Len(s) - 1 /\ (i - 1) + 1 = i
  BY <1>1
<1>5. ASSUME NEW x \in Range(s) PROVE x = Head(s) \/ x \in Range(Tail(s))
  <2>1. PICK i \in 1 .. Len(s) : x = s[i]
    BY <1>1 DEF Range
  <2>2. CASE i # 1
    BY <1>2, <1>3, <1>4, <2>1, <2>2 DEF Range
  <2>3. QED  BY <1>2, <2>1, <2>2
<1>6. Head(s) \in Range(s) /\ Range(Tail(s)) \subseteq Range(s)
  BY TailRange
<1>7. QED  BY <1>5, <1>6

\* what is made of an entry, and of those left after it
LEMMA LeftSplit ==
  ASSUME NEW acc, acc.todo \in Seq(Entries), acc.todo # << >>,
         NEW rest, rest.todo = Tail(acc.todo)
  PROVE  Left(acc) = Under(Head(acc.todo).name, OfItem(Head(acc.todo))) \cup Left(rest)
BY RangeSplit DEF Left

LEMMA PackageStarts ==
  ASSUME NEW files, NEW tree \in Trees, NEW name
  PROVE  PackageWhole(files, JavaAcc(tree, name), {})
<1> DEFINE acc == JavaAcc(tree, name)
<1>1. acc.tree = tree /\ acc.todo = tree /\ acc.children = << >>
  BY DEF JavaAcc
<1> HIDE DEF acc
<1>2. Held(files, acc) = {}
  <2>1. DOMAIN << >> = {}
    OBVIOUS
  <2>2. QED  BY <1>1, <2>1 DEF Held
<1>3. Left(acc) = JavaBelow(tree)
  BY <1>1, JavaLayer DEF Left
<1>4. PackageWhole(files, acc, {})
  BY <1>1, <1>2, <1>3 DEF PackageWhole
<1>5. QED  BY <1>4 DEF acc

(* Stacks with another top, one more or one less.                          *)
LEMMA PackagesChange ==
  ASSUME NEW files, NEW stack \in Seq(JavaAccs), stack # << >>,
         PackagesBelow(files, stack),
         NEW acc \in JavaAccs, acc.tree = Last(stack).tree, acc.name = Last(stack).name
  PROVE  /\ DueFirst(OnTop(stack, acc)) = DueFirst(stack)
         /\ PackageWhole(files, acc, {}) => PackagesWhole(files, OnTop(stack, acc))
         /\ \A deeper \in JavaAccs :
              /\ DueFirst(Append(OnTop(stack, acc), deeper)) = DueFirst(stack)
              /\ PackageWhole(files, deeper, {}) /\ PackageWhole(files, acc, Gets(deeper))
                   => PackagesWhole(files, Append(OnTop(stack, acc), deeper))
<1> DEFINE top == OnTop(stack, acc)
<1>1. /\ top \in Seq(JavaAccs) /\ top # << >> /\ Len(top) = Len(stack)
      /\ DOMAIN top = DOMAIN stack
      /\ \A d \in DOMAIN stack : top[d] = IF d = Len(stack) THEN acc ELSE stack[d]
  BY StackTop
<1>2. /\ Len(stack) \in Nat \ {0} /\ DOMAIN stack = 1 .. Len(stack)
      /\ Last(stack) = stack[Len(stack)]
  BY TopIn
<1> HIDE DEF top
<1>3. \A d \in DOMAIN stack : top[d].tree = stack[d].tree /\ top[d].name = stack[d].name
  BY <1>1, <1>2
<1>4. \A d \in DOMAIN stack : Gets(top[d]) = Gets(stack[d])
  BY <1>3 DEF Gets
<1>5. \A d \in DOMAIN stack : DueAt(top, d) = DueAt(stack, d)
  BY <1>1, <1>4 DEF DueAt
<1>6. DueFirst(top) = DueFirst(stack)
  BY <1>1, <1>2, <1>4 DEF DueFirst
<1>7. \A d \in DOMAIN stack \ {Len(stack)} : PackageWhole(files, top[d], DueAt(top, d))
  BY <1>1, <1>5 DEF PackagesBelow
<1>8. DueAt(top, Len(stack)) = {}
  BY <1>1, <1>2 DEF DueAt
<1>9. PackageWhole(files, acc, {}) => PackagesWhole(files, top)
  BY <1>1, <1>2, <1>7, <1>8 DEF PackagesWhole
<1>10. ASSUME NEW deeper \in JavaAccs
       PROVE  /\ DueFirst(Append(top, deeper)) = DueFirst(stack)
              /\ PackageWhole(files, deeper, {}) /\ PackageWhole(files, acc, Gets(deeper))
                   => PackagesWhole(files, Append(top, deeper))
  <2> DEFINE more == Append(top, deeper)
  <2>1. /\ more # << >> /\ DOMAIN more = DOMAIN stack \cup {Len(stack) + 1}
        /\ \A d \in DOMAIN stack : more[d] = top[d]
        /\ more[Len(stack) + 1] = deeper
    BY <1>1, StackPush
  <2> HIDE DEF more
  <2>2. DueFirst(more) = DueFirst(stack)
    BY <1>2, <1>4, <2>1 DEF DueFirst
  <2>3. \A d \in DOMAIN stack \ {Len(stack)} : DueAt(more, d) = DueAt(top, d)
    BY <1>1, <1>2, <2>1 DEF DueAt
  <2>4. DueAt(more, Len(stack)) = Gets(deeper) /\ DueAt(more, Len(stack) + 1) = {}
    BY <1>2, <2>1 DEF DueAt
  <2>5. PackageWhole(files, deeper, {}) /\ PackageWhole(files, acc, Gets(deeper))
           => PackagesWhole(files, more)
    BY <1>1, <1>2, <1>7, <2>1, <2>3, <2>4 DEF PackagesWhole
  <2>6. QED  BY <2>2, <2>5 DEF more
<1>11. QED  BY <1>6, <1>9, <1>10 DEF top

LEMMA PackagesTop ==
  ASSUME NEW files, NEW stack \in Seq(JavaAccs), stack # << >>,
         PackagesWhole(files, stack)
  PROVE  /\ PackageWhole(files, Last(stack), {}) /\ PackagesBelow(files, stack)
         /\ Front(stack) # << >> =>
              /\ PackagesBelow(files, Front(stack)) /\ DueFirst(Front(stack)) = DueFirst(stack)
              /\ PackageWhole(files, Last(Front(stack)), Gets(Last(stack)))
         /\ Front(stack) = << >> => DueFirst(stack) = Gets(Last(stack))
<1>1. /\ Len(stack) \in Nat \ {0} /\ DOMAIN stack = 1 .. Len(stack)
      /\ Last(stack) = stack[Len(stack)] /\ Len(stack) \in DOMAIN stack
  BY TopIn
<1>2. DueAt(stack, Len(stack)) = {}
  BY <1>1 DEF DueAt
<1>3. PackageWhole(files, Last(stack), {}) /\ PackagesBelow(files, stack)
  BY <1>1, <1>2 DEF PackagesWhole, PackagesBelow
<1> DEFINE below == Front(stack)
<1>4. /\ below \in Seq(JavaAccs) /\ Len(below) = Len(stack) - 1
      /\ DOMAIN below = 1 .. Len(stack) - 1
      /\ \A d \in DOMAIN below : below[d] = stack[d]
  <2>1. 1 .. Len(stack) - 1 = (1 .. Len(stack)) \ {Len(stack)}
    BY <1>1
  <2>2. QED  BY <1>1, <2>1, StackPop
<1> HIDE DEF below
<1>5. ASSUME below # << >>
      PROVE  /\ PackagesBelow(files, below) /\ DueFirst(below) = DueFirst(stack)
             /\ PackageWhole(files, Last(below), Gets(Last(stack)))
  <2>1. Len(below) \in Nat \ {0} /\ Last(below) = below[Len(below)]
    BY <1>4, <1>5, TopIn
  <2>2. \A d \in DOMAIN below \ {Len(below)} : DueAt(below, d) = DueAt(stack, d)
    BY <1>1, <1>4 DEF DueAt
  <2>3. PackagesBelow(files, below)
    BY <1>1, <1>4, <2>2 DEF PackagesWhole, PackagesBelow
  <2>4. 1 \in DOMAIN below /\ Len(below) \in DOMAIN below /\ Len(below) + 1 = Len(stack)
    BY <1>1, <1>4, <2>1
  <2>5. DueFirst(below) = DueFirst(stack)
    BY <1>4, <1>5, <2>4 DEF DueFirst
  <2>6. DueAt(stack, Len(below)) = Gets(Last(stack))
    BY <1>1, <2>4 DEF DueAt
  <2>7. QED  BY <1>1, <1>4, <2>1, <2>3, <2>4, <2>5, <2>6 DEF PackagesWhole
<1>6. ASSUME below = << >> PROVE DueFirst(stack) = Gets(Last(stack))
  <2>1. Len(stack) = 1
    BY <1>1, <1>4, <1>6, EmptySeq
  <2>2. QED  BY <1>1, <2>1 DEF DueFirst
<1>7. QED  BY <1>3, <1>5, <1>6 DEF below

(* More entities leave what was whole whole.                               *)
LEMMA WholeStays ==
  ASSUME NEW ns, NEW f, NEW g, Agree(ns, f, g)
  PROVE  /\ \A stack : JavaOK(ns, stack) /\ PackagesWhole(f, stack) => PackagesWhole(g, stack)
         /\ \A mades : MadesOK(ns, mades) /\ MadesWhole(f, mades) => MadesWhole(g, mades)
<1>1. ASSUME NEW dir, Listed(ns, dir) PROVE Held(g, dir) = Held(f, dir)
  BY <1>1, HeldStays
<1>2. ASSUME NEW stack, JavaOK(ns, stack), PackagesWhole(f, stack)
      PROVE  PackagesWhole(g, stack)
  <2>1. \A d \in DOMAIN stack : Held(g, stack[d]) = Held(f, stack[d])
    BY <1>1, <1>2 DEF JavaOK
  <2>2. QED  BY <1>2, <2>1 DEF PackagesWhole, PackageWhole
<1>3. \A mades : MadesOK(ns, mades) /\ MadesWhole(f, mades) => MadesWhole(g, mades)
  BY DEF MadesOK, MadesWhole, Agree
<1>4. QED  BY <1>2, <1>3

LEMMA MadesWholeWith ==
  ASSUME NEW files, NEW mades, MadesWhole(files, mades), NEW object, NEW name, NEW made,
         \A e \in Entries : e.object = object /\ e.name = name
                           => files[made.id] = OfItem(e)
  PROVE  MadesWhole(files, With(mades, JavaKey(object, name), made))
<1> DEFINE key == JavaKey(object, name)
           more == With(mades, key, made)
<1>1. SUFFICES ASSUME NEW e \in Entries, JavaKey(e.object, e.name) \in DOMAIN more
               PROVE  files[more[JavaKey(e.object, e.name)].id] = OfItem(e)
  BY DEF MadesWhole
<1>2. PICK k : k = JavaKey(e.object, e.name)
  OBVIOUS
<1>3. DOMAIN more = DOMAIN mades \cup {key}
      /\ \A x \in DOMAIN more : more[x] = IF x = key THEN made ELSE mades[x]
  BY DEF With
<1>4. CASE k = key
  <2>1. e.object = object /\ e.name = name
    BY <1>2, <1>4 DEF JavaKey
  <2>2. QED  BY <1>1, <1>2, <1>3, <1>4, <2>1
<1> HIDE DEF more, key
<1>5. CASE k # key
  BY <1>1, <1>2, <1>3, <1>5 DEF MadesWhole
<1>6. QED  BY <1>4, <1>5

(* Entities are never lost.                                                *)
LEMMA EntitiesStay ==
  ASSUME Inv(FALSE), Step
  PROVE  Grows(nodes, nodes')
<1>1. CASE \/ HandleCommit \/ ForwardToModule \/ IgnoreEntry \/ ReuseDirectory
           \/ ReuseDirectoryPanics \/ EnterSources \/ EnterDirectory \/ ReusePom
           \/ IgnoreBlob \/ ReuseItem \/ ReusePanics \/ EnterPackage
  <2>1. UNCHANGED nodes
    BY <1>1 DEF HandleCommit, ForwardToModule, IgnoreEntry, ReuseDirectory,
         ReuseDirectoryPanics, EnterSources, EnterDirectory, ReusePom, IgnoreBlob,
         ReuseItem, ReusePanics, EnterPackage
  <2>2. QED  BY <2>1 DEF Grows
<1>2. CASE GeneratePom
  <2>1. /\ Exploring /\ ~IsTree(Entry)
        /\ nodes' = Interned(nodes, FileNode(Entry.name, Entry.object))
    BY <1>2 DEF GeneratePom, AtPom, IsPom
  <2>2. QED  BY <2>1, AtEntry, FileInterned DEF Inv
<1>3. CASE GenerateJava
  <2>1. /\ Reading /\ ~IsTree(Item)
        /\ nodes' = Interned(nodes, FileNode(Item.name, Item.object))
    BY <1>3 DEF GenerateJava
  <2>2. QED  BY <2>1, AtItem, FileInterned DEF Inv
<1>4. CASE CommitPackage
  BY <1>4, PackageMade
<1>5. CASE CommitModule
  <2>1. PICK node : nodes' = Append(nodes, node)
    BY <1>5 DEF CommitModule
  <2>2. nodes \in Seq(Entities) /\ nodes' \in Seq(Entities \cup {node})
    BY <2>1, Wider DEF Inv, NodesOK
  <2>3. /\ DOMAIN nodes \subseteq DOMAIN nodes'
        /\ \A i \in DOMAIN nodes : nodes'[i] = nodes[i]
    <3> DEFINE S == Entities \cup {node}
    <3>1. nodes \in Seq(S) /\ node \in S
      BY <2>2, Wider
    <3> HIDE DEF S
    <3>2. QED  BY <2>1, <3>1, StackPush
  <2>4. QED  BY <2>3 DEF Grows
<1>6. QED  BY <1>1, <1>2, <1>3, <1>4, <1>5 DEF Step

(* The package at the top, and what it is replaced by.                     *)
LEMMA WholeAtItem ==
  ASSUME Inv(FALSE), Whole, Reading,
         NEW acc, acc = Last(Popped(java))
  PROVE  /\ acc \in JavaAccs /\ acc.tree = Package.tree /\ acc.name = Package.name
         /\ PackageWhole(AstFiles, acc, Under(Item.name, OfItem(Item)))
         /\ java \in Seq(JavaAccs) /\ java # << >> /\ PackagesBelow(AstFiles, java)
         /\ Popped(java) = OnTop(java, acc) /\ Package = Last(java)
         /\ Listed(nodes, acc)
<1>1. /\ java # << >> /\ java \in Seq(JavaAccs) /\ Package \in JavaAccs
      /\ acc \in JavaAccs /\ Popped(java) = OnTop(java, acc)
      /\ acc.children = Package.children /\ acc.names = Package.names
      /\ acc.name = Package.name /\ Listed(nodes, acc)
  BY AtItem
<1>2. PackageWhole(AstFiles, Package, {}) /\ PackagesBelow(AstFiles, java)
  BY <1>1, PackagesTop DEF Whole, Package
<1>3. Package.todo \in Seq(Entries) /\ Package.todo # << >>
  BY <1>1 DEF JavaAccs, Reading
<1>4. acc = [Package EXCEPT !.todo = Tail(@)]
  BY <1>3, JavaPopped DEF Reading, InJava, Package, Inv
<1>5. acc.tree = Package.tree /\ acc.todo = Tail(Package.todo)
  BY <1>1, <1>4 DEF JavaAccs
<1>6. Held(AstFiles, acc) = Held(AstFiles, Package)
  BY <1>1 DEF Held
<1>7. Left(Package) = Under(Item.name, OfItem(Item)) \cup Left(acc)
  <2>1. PICK pack : pack = Package
    OBVIOUS
  <2>2. pack.todo \in Seq(Entries) /\ pack.todo # << >> /\ acc.todo = Tail(pack.todo)
    BY <1>3, <1>5, <2>1
  <2>3. Left(pack) = Under(Head(pack.todo).name, OfItem(Head(pack.todo))) \cup Left(acc)
    BY <2>2, LeftSplit
  <2>4. QED  BY <2>1, <2>3 DEF Item
<1>8. PackageWhole(AstFiles, acc, Under(Item.name, OfItem(Item)))
  BY <1>2, <1>5, <1>6, <1>7 DEF PackageWhole
<1>9. QED  BY <1>1, <1>2, <1>5, <1>8 DEF Package

(* A child that has the files that were due.                               *)
LEMMA PackagePushed ==
  ASSUME NEW ns, NEW files, NEW acc \in JavaAccs, Listed(ns, acc), NEW name \in Names,
         NEW made \in Mades, PackageWhole(files, acc, Under(name, files[made.id]))
  PROVE  /\ Push(acc, name, made) \in JavaAccs
         /\ Push(acc, name, made).tree = acc.tree /\ Push(acc, name, made).name = acc.name
         /\ PackageWhole(files, Push(acc, name, made), {})
<1> DEFINE pushed == Push(acc, name, made)
<1>1. /\ pushed \in JavaAccs /\ pushed.names = Append(acc.names, name)
      /\ pushed.children = Append(acc.children, made.id) /\ pushed.name = acc.name
  BY JavaPushed
<1>2. /\ acc.names \in Seq(Names) /\ acc.children \in Seq(Nat) /\ made.id \in Nat
  BY DEF JavaAccs, Mades
<1>3. pushed.tree = acc.tree /\ pushed.todo = acc.todo
  BY DEF Push, PushChild, JavaAccs
<1> HIDE DEF pushed
<1>4. Held(files, pushed) = Held(files, acc) \cup Under(name, files[made.id])
  <2>1. PICK id \in Nat : id = made.id
    BY <1>2
  <2>2. pushed.children = Append(acc.children, id)
    BY <1>1, <2>1
  <2>3. Held(files, pushed) = Held(files, acc) \cup Under(name, files[id])
    BY <1>1, <1>2, <2>2, HeldPushed
  <2>4. QED  BY <2>1, <2>3
<1>5. Left(pushed) = Left(acc)
  BY <1>3 DEF Left
<1>6. PackageWhole(files, pushed, {})
  BY <1>3, <1>4, <1>5 DEF PackageWhole
<1>7. QED  BY <1>1, <1>3, <1>6 DEF pushed

(* A step that leaves object_map_java alone.                               *)
LEMMA OtherStepsWhole ==
  ASSUME Inv(FALSE), Inv(FALSE)', Whole, Grows(nodes, nodes'),
         UNCHANGED objectMapJava,
         java' = java \/ PackagesWhole(AstFiles', java')
  PROVE  Whole'
<1>1. /\ \A i \in DOMAIN nodes : AstFiles'[i] = AstFiles[i]
  BY AstFilesStay
<1>2. JavaOK(nodes, java) /\ MadesOK(nodes, objectMapJava)
  BY DEF Inv
<1>3. Agree(nodes, AstFiles, AstFiles')
  BY <1>1 DEF Agree
<1>4. PackagesWhole(AstFiles', java) /\ MadesWhole(AstFiles', objectMapJava)
  BY <1>2, <1>3, WholeStays DEF Whole
<1>5. QED  BY <1>4 DEF Whole

LEMMA MavenWhole ==
  ASSUME Inv(FALSE), Inv(FALSE)', Whole,
         \/ HandleCommit \/ ForwardToModule \/ IgnoreEntry \/ ReuseDirectory
         \/ EnterSources \/ EnterDirectory \/ ReusePom \/ GeneratePom \/ CommitModule
  PROVE  Whole'
<1>1. Grows(nodes, nodes')
  BY EntitiesStay DEF Step
<1>2. UNCHANGED objectMapJava
  BY DEF HandleCommit, ForwardToModule, IgnoreEntry, ReuseDirectory, EnterSources,
         EnterDirectory, ReusePom, GeneratePom, CommitModule, caches
<1>3. CASE java' = java
  BY <1>1, <1>2, <1>3, OtherStepsWhole
<1>4. CASE java' # java
  <2>1. EnterSources
    BY <1>4 DEF HandleCommit, ForwardToModule, IgnoreEntry, ReuseDirectory,
         EnterDirectory, ReusePom, GeneratePom, CommitModule, caches
  <2>2. java' = <<JavaAcc(Entry.object, Entry.name)>> /\ Exploring /\ IsTree(Entry)
    BY <2>1 DEF EnterSources, ToExplore
  <2>3. Entry.object \in Trees
    BY <2>2, AtEntry
  <2>4. PICK acc : acc = JavaAcc(Entry.object, Entry.name)
    OBVIOUS
  <2>5. PICK files : files = AstFiles'
    OBVIOUS
  <2>6. PackageWhole(files, acc, {})
    <3>1. PICK tree \in Trees : tree = Entry.object
      BY <2>3
    <3>2. PICK name : name = Entry.name
      OBVIOUS
    <3>3. PackageWhole(files, JavaAcc(tree, name), {})
      BY PackageStarts
    <3>4. QED  BY <2>4, <3>1, <3>2, <3>3
  <2>7. DOMAIN <<acc>> = {1} /\ <<acc>>[1] = acc
    OBVIOUS
  <2>8. PackagesWhole(files, <<acc>>)
    BY <2>6, <2>7 DEF PackagesWhole, DueAt
  <2>9. QED  BY <1>1, <1>2, <2>2, <2>4, <2>5, <2>8, OtherStepsWhole
<1>5. QED  BY <1>3, <1>4

LEMMA ReadingWhole ==
  ASSUME Inv(FALSE), Inv(FALSE)', Whole, IgnoreBlob \/ ReuseItem \/ EnterPackage
  PROVE  Whole' /\ DueFirst(java') = DueFirst(java)
<1>1. Reading /\ UNCHANGED <<nodes, objectMapJava>>
  BY DEF IgnoreBlob, ReuseItem, EnterPackage, caches
<1>2. Grows(nodes, nodes')
  BY <1>1 DEF Grows
<1>3. PICK files : files = AstFiles
  OBVIOUS
<1>4. AstFiles' = files
  BY <1>1, <1>3 DEF AstFiles
<1>5. PICK acc : acc = Last(Popped(java))
  OBVIOUS
<1>6. /\ acc \in JavaAccs /\ acc.tree = Last(java).tree /\ acc.name = Last(java).name
      /\ PackageWhole(files, acc, Under(Item.name, OfItem(Item)))
      /\ java \in Seq(JavaAccs) /\ java # << >> /\ PackagesBelow(files, java)
      /\ Popped(java) = OnTop(java, acc) /\ Listed(nodes, acc)
  BY <1>1, <1>3, <1>5, WholeAtItem
<1>7. /\ Item \in Entries /\ Item.name \in Names
      /\ IsTree(Item) => Item.object \in Trees
  BY <1>1, AtItem
<1>8. CASE IgnoreBlob
  <2>1. java' = OnTop(java, acc) /\ OfItem(Item) = {}
    BY <1>6, <1>8 DEF IgnoreBlob, OfItem
  <2>2. PackageWhole(files, acc, {})
    BY <1>6, <2>1 DEF Under
  <2>3. DueFirst(java') = DueFirst(java) /\ PackagesWhole(files, java')
    BY <1>6, <2>1, <2>2, PackagesChange
  <2>4. QED  BY <1>1, <1>2, <1>4, <2>3, OtherStepsWhole
<1>9. CASE ReuseItem
  <2>1. Known /\ java' = OnTop(java, Push(acc, Item.name, Already))
    BY <1>5, <1>9 DEF ReuseItem
  <2>2. Already \in Mades /\ files[Already.id] = OfItem(Item)
    BY <1>3, <1>7, <2>1 DEF Known, Already, Whole, MadesWhole, Inv, MadesOK
  <2>3. PICK pushed : pushed = Push(acc, Item.name, Already)
    OBVIOUS
  <2>4. /\ pushed \in JavaAccs /\ pushed.tree = acc.tree /\ pushed.name = acc.name
        /\ PackageWhole(files, pushed, {})
    BY <1>6, <1>7, <2>2, <2>3, PackagePushed
  <2>5. DueFirst(java') = DueFirst(java) /\ PackagesWhole(files, java')
    BY <1>6, <2>1, <2>3, <2>4, PackagesChange
  <2>6. QED  BY <1>1, <1>2, <1>4, <2>5, OtherStepsWhole
<1>10. CASE EnterPackage
  <2>1. PICK deeper : deeper = JavaAcc(Item.object, Item.name)
    OBVIOUS
  <2>2. IsTree(Item) /\ java' = Append(OnTop(java, acc), deeper)
    BY <1>6, <1>10, <2>1 DEF EnterPackage
  <2>3. PICK tree \in Trees : tree = Item.object
    BY <1>7, <2>2
  <2>4. PICK name \in Names : name = Item.name
    BY <1>7
  <2>5. /\ deeper \in JavaAccs /\ deeper.name = name /\ deeper.tree = tree
        /\ PackageWhole(files, deeper, {})
    <3>1. deeper = JavaAcc(tree, name)
      BY <2>1, <2>3, <2>4
    <3>2. QED  BY <3>1, JavaAccType, PackageStarts DEF JavaAcc
  <2>6. Gets(deeper) = Under(Item.name, OfItem(Item))
    BY <2>2, <2>3, <2>4, <2>5 DEF Gets, OfItem
  <2>7. DueFirst(java') = DueFirst(java) /\ PackagesWhole(files, java')
    BY <1>6, <2>2, <2>5, <2>6, PackagesChange
  <2>8. QED  BY <1>1, <1>2, <1>4, <2>7, OtherStepsWhole
<1>11. QED  BY <1>8, <1>9, <1>10

LEMMA GenerateJavaWhole ==
  ASSUME Inv(FALSE), Inv(FALSE)', Whole, GenerateJava
  PROVE  Whole' /\ DueFirst(java') = DueFirst(java)
<1> DEFINE node == FileNode(Item.name, Item.object)
           id == IdOf(nodes, node)
           made == [id |-> id, ana |-> AnaOf(Item.object), skiped |-> FALSE]
<1>1. PICK acc : acc = Last(Popped(java))
  OBVIOUS
<1>2. /\ Reading /\ ~IsTree(Item) /\ IsJava(Item.name) /\ Item.object \notin Unreadable
      /\ nodes' = Interned(nodes, node)
      /\ objectMapJava' = With(objectMapJava, JavaKey(Item.object, Item.name), made)
      /\ java' = OnTop(java, Push(acc, Item.name, made))
  BY <1>1 DEF GenerateJava
<1>3. Item.name \in Names /\ Item.object \in Blobs
  BY <1>2, AtItem
<1>4. /\ Grows(nodes, nodes') /\ id \in Nat /\ nodes'[id] = node /\ id \in DOMAIN nodes'
  BY <1>2, <1>3, FileInterned DEF Inv
<1>5. /\ \A i \in DOMAIN nodes : AstFiles'[i] = AstFiles[i]
      /\ FileTable(nodes', AstFiles')
  BY <1>4, AstFilesStay
<1>6. PICK files : files = AstFiles'
  OBVIOUS
<1>7. OfItem(Item) = Single(Item.object)
  BY <1>2 DEF OfItem
<1>8. files[id] = OfItem(Item)
  <2>1. node.kind = "file" /\ node.blob = Item.object
    BY DEF FileNode
  <2> HIDE DEF node, id
  <2>2. QED  BY <1>4, <1>5, <1>6, <1>7, <2>1 DEF FileTable
<1>9. made \in Mades /\ made.id = id
  BY <1>3, <1>4, AnalysesAssumption DEF Mades
<1>10. Agree(nodes, AstFiles, files)
  BY <1>5, <1>6 DEF Agree
<1>11. PackagesWhole(files, java) /\ MadesWhole(files, objectMapJava)
  BY <1>10, WholeStays DEF Whole, Inv
<1>12. /\ acc \in JavaAccs /\ acc.tree = Last(java).tree /\ acc.name = Last(java).name
       /\ java \in Seq(JavaAccs) /\ java # << >> /\ Listed(nodes, acc)
       /\ PackageWhole(AstFiles, acc, Under(Item.name, OfItem(Item)))
  BY <1>1, <1>2, WholeAtItem
<1>13. PackagesBelow(files, java)
  BY <1>11, <1>12, PackagesTop
<1>14. PackageWhole(files, acc, Under(Item.name, files[made.id]))
  <2>1. Held(files, acc) = Held(AstFiles, acc)
    BY <1>10, <1>12, HeldStays
  <2> HIDE DEF made
  <2>2. QED  BY <1>8, <1>9, <1>12, <2>1 DEF PackageWhole
<1> HIDE DEF made, id
<1>15. PICK pushed : pushed = Push(acc, Item.name, made)
  OBVIOUS
<1>16. /\ pushed \in JavaAccs /\ pushed.tree = acc.tree /\ pushed.name = acc.name
       /\ PackageWhole(files, pushed, {})
  BY <1>3, <1>9, <1>12, <1>14, <1>15, PackagePushed
<1>17. DueFirst(java') = DueFirst(java) /\ PackagesWhole(files, java')
  BY <1>2, <1>12, <1>13, <1>15, <1>16, PackagesChange
<1>18. MadesWhole(files, objectMapJava')
  <2>1. \A e \in Entries : e.object = Item.object /\ e.name = Item.name
                              => files[made.id] = OfItem(e)
    BY <1>2, <1>7, <1>8, <1>9 DEF OfItem, IsTree
  <2>2. QED  BY <1>2, <1>11, <2>1, MadesWholeWith
<1>19. QED  BY <1>6, <1>17, <1>18 DEF Whole

(* The entity of a package has the Java files of its tree.                 *)
LEMMA CommitPackageWhole ==
  ASSUME Inv(FALSE), Inv(FALSE)', Whole, CommitPackage
  PROVE  /\ Whole'
         /\ AstFiles'[Len(nodes) + 1] = JavaBelow(Package.tree)
         /\ Front(java) # << >> => DueFirst(java') = DueFirst(java)
         /\ Front(java) = << >> => DueFirst(java) = Gets(Package) /\ java' = << >>
<1> DEFINE id == Len(nodes) + 1
           node == DirNode("Directory", Package, Filter(Package))
           made == [id |-> id, ana |-> DirAna(Package), skiped |-> Package.skiped]
           below == Front(java)
           key == JavaKey(Package.tree, java[1].name)
           more == Push(Last(below), Package.name, made)
<1>1. /\ nodes' = Append(nodes, node) /\ Package.todo = << >>
      /\ objectMapJava' = With(objectMapJava, key, made)
      /\ java' = IF below = << >> THEN << >> ELSE OnTop(below, more)
  BY DEF CommitPackage
<1>2. /\ Grows(nodes, nodes') /\ id \in DOMAIN nodes' /\ id \in Nat
      /\ nodes'[id] = node /\ node.kind = "Directory"
      /\ Package \in JavaAccs /\ java # << >> /\ Listed(nodes, Package)
      /\ made \in Mades
  BY PackageMade
<1>3. /\ JavaOK(nodes, java) /\ java \in Seq(JavaAccs) /\ Package.name \in Names
      /\ Package.tree \in Trees
  BY <1>2 DEF Inv, JavaOK, JavaAccs
<1>4. /\ \A i \in DOMAIN nodes : AstFiles'[i] = AstFiles[i]
      /\ FileTable(nodes', AstFiles')
  BY <1>2, AstFilesStay
<1>5. PICK files : files = AstFiles'
  OBVIOUS
<1>6. Agree(nodes, AstFiles, files)
  BY <1>4, <1>5 DEF Agree
<1>7. PackagesWhole(files, java) /\ MadesWhole(files, objectMapJava)
  BY <1>6, WholeStays DEF Whole, Inv
<1>8. /\ PackageWhole(files, Package, {})
      /\ below # << >> =>
           /\ PackagesBelow(files, below) /\ DueFirst(below) = DueFirst(java)
           /\ PackageWhole(files, Last(below), Gets(Package))
      /\ below = << >> => DueFirst(java) = Gets(Package)
  BY <1>2, <1>3, <1>7, PackagesTop DEF Package
<1>9. files[id] = JavaBelow(Package.tree)
  <2>1. /\ node.kind = "Directory" /\ node.children = Package.children
        /\ node.names = Package.names
    BY DEF DirNode
  <2> HIDE DEF node, id
  <2>2. Held(files, node) = Held(files, Package)
    BY <2>1 DEF Held
  <2>3. files[id] = Held(files, node)
    BY <1>2, <1>4, <1>5, <2>1 DEF FileTable
  <2>4. Left(Package) = {}
    <3>1. Range(<< >>) = {}
      BY DEF Range
    <3>2. QED  BY <1>1, <3>1 DEF Left
  <2>5. QED  BY <1>8, <2>2, <2>3, <2>4 DEF PackageWhole
<1>10. made.id = id
  OBVIOUS
<1> HIDE DEF made, node, id
<1>11. MadesWhole(files, objectMapJava')
  <2>1. \A e \in Entries : e.object = Package.tree /\ e.name = java[1].name
                              => files[made.id] = OfItem(e)
    BY <1>3, <1>9, <1>10, ObjectsAssumption DEF OfItem, IsTree
  <2>2. QED  BY <1>1, <1>7, <2>1, MadesWholeWith
<1>12. CASE below = << >>
  <2>1. java' = << >> /\ DueFirst(java) = Gets(Package)
    BY <1>1, <1>8, <1>12
  <2>2. PackagesWhole(files, java')
    <3>1. DOMAIN << >> = {}
      OBVIOUS
    <3>2. QED  BY <2>1, <3>1 DEF PackagesWhole
  <2>3. QED  BY <1>5, <1>9, <1>11, <1>12, <2>1, <2>2 DEF Whole, id
<1>13. CASE below # << >>
  <2>1. below \in Seq(JavaAccs) /\ JavaOK(nodes, below)
    BY <1>2, <1>3, StackPop, JavaTop, JavaChanges
  <2>2. PICK acc \in JavaAccs : acc = Last(below)
    BY <1>13, <2>1, TopIn
  <2>3. Listed(nodes, acc)
    BY <1>13, <2>1, <2>2, JavaTop
  <2>4. Gets(Package) = Under(Package.name, files[made.id])
    BY <1>9, <1>10 DEF Gets
  <2>5. PackageWhole(files, acc, Under(Package.name, files[made.id]))
    BY <1>8, <1>13, <2>2, <2>4
  <2>6. PICK pushed : pushed = Push(acc, Package.name, made)
    OBVIOUS
  <2>7. /\ pushed \in JavaAccs /\ pushed.tree = acc.tree /\ pushed.name = acc.name
        /\ PackageWhole(files, pushed, {})
    BY <1>2, <1>3, <2>3, <2>5, <2>6, PackagePushed
  <2>8. java' = OnTop(below, pushed)
    BY <1>1, <1>13, <2>2, <2>6
  <2> HIDE DEF below
  <2>9. DueFirst(java') = DueFirst(java) /\ PackagesWhole(files, java')
    BY <1>8, <1>13, <2>1, <2>2, <2>7, <2>8, PackagesChange
  <2>10. QED  BY <1>5, <1>9, <1>11, <1>13, <2>9 DEF Whole, id, below
<1>14. QED  BY <1>12, <1>13

LEMMA WholeStep ==
  ASSUME Inv(FALSE), Whole, Inv(FALSE)', [Next]_vars
  PROVE  Whole'
<1>1. CASE UNCHANGED vars
  <2>1. UNCHANGED <<nodes, java, objectMapJava, AstFiles>>
    BY <1>1 DEF vars, caches, AstFiles
  <2>2. QED  BY <2>1 DEF Whole
<1>2. CASE ReuseDirectoryPanics \/ ReusePanics
  <2>1. UNCHANGED <<nodes, java, objectMapJava>>
    BY <1>2 DEF ReuseDirectoryPanics, ReusePanics, caches
  <2>2. UNCHANGED AstFiles
    BY <2>1 DEF AstFiles
  <2>3. QED  BY <2>1, <2>2 DEF Whole
<1>3. QED
  BY <1>1, <1>2, MavenWhole, ReadingWhole, GenerateJavaWhole, CommitPackageWhole
     DEF Next, Step

LEMMA WholeBegins == Init => Whole
<1>1. Init => DOMAIN objectMapJava = {} /\ DOMAIN java = {}
  BY DEF Init
<1>2. QED  BY <1>1 DEF Whole, PackagesWhole, MadesWhole

(***************************************************************************)
(* Modules: what handle_maven_module and fast_fwd make of a tree           *)
(***************************************************************************)

Distinct(s) == \A i, j \in DOMAIN s : s[i].name = s[j].name => i = j

\* the source directories expected below the entries that are left are those
\* of the occurrence, as soon as its pom.xml, the first entry, is done
Steady(w, acc) ==
  w.op # "java" /\ w.rest = << >> =>
    /\ \A e \in Range(acc.todo) : PomRead(e) => e = Head(acc.todo)
    /\ (\A e \in Range(acc.todo) : ~PomRead(e)) =>
         \A e \in Range(acc.todo) : Drained(acc.dirs, e.name) = DirsOf(w, e)

\* acc accumulates what is made of the occurrence
OfRole(w, acc, at) ==
  /\ w.tree = acc.tree /\ w.op = at.op
  /\ Range(acc.todo) \subseteq Range(w.tree)
  /\ acc.todo # << >> => w.rest = at.rest
  /\ Distinct(acc.todo)
  /\ Steady(w, acc)

LeftOf(w, value, acc) ==
  UNION {Under(e.name, Gives(w, e, value)) : e \in Range(acc.todo)}

ModuleWhole(W, value, files, at, acc, due) ==
  \E w \in W : /\ OfRole(w, acc, at)
               /\ Held(files, acc) \cup LeftOf(w, value, acc) \cup due = value[acc.tree]

LEMMA DistinctTail ==
  ASSUME NEW S, NEW s \in Seq(S), s # << >>, Distinct(s)
  PROVE  Distinct(Tail(s)) /\ \A e \in Range(Tail(s)) : e.name # Head(s).name
<1>1. Len(s) \in Nat \ {0} /\ DOMAIN s = 1 .. Len(s)
  BY TopIn
<1>2. /\ Head(s) = s[1] /\ Tail(s) \in Seq(S) /\ Len(Tail(s)) = Len(s) - 1
      /\ \A i \in 1 .. Len(Tail(s)) : Tail(s)[i] = s[i + 1]
  BY HeadTailProperties
<1>3. DOMAIN Tail(s) = 1 .. Len(s) - 1
  BY <1>2, LenProperties
<1>4. \A i \in 1 .. Len(s) - 1 : i + 1 \in 1 .. Len(s) /\ 1 \in 1 .. Len(s) /\ i + 1 # 1
  BY <1>1
<1>5. Distinct(Tail(s))
  <2>1. SUFFICES ASSUME NEW i \in 1 .. Len(s) - 1, NEW j \in 1 .. Len(s) - 1,
                        Tail(s)[i].name = Tail(s)[j].name
                 PROVE  i = j
    BY <1>3 DEF Distinct
  <2>2. s[i + 1].name = s[j + 1].name
    BY <1>2, <2>1
  <2>3. i + 1 = j + 1
    BY <1>1, <1>4, <2>2 DEF Distinct
  <2>4. QED  BY <1>1, <2>3
<1>6. ASSUME NEW e \in Range(Tail(s)), e.name = Head(s).name PROVE FALSE
  <2>1. PICK i \in 1 .. Len(s) - 1 : e = Tail(s)[i]
    BY <1>3 DEF Range
  <2>2. e = s[i + 1]
    BY <1>2, <2>1
  <2>3. i + 1 = 1
    BY <1>1, <1>2, <1>4, <1>6, <2>2 DEF Distinct
  <2>4. QED  BY <1>4, <2>3
<1>7. QED  BY <1>5, <1>6

(* Every entry is explored once, a pom.xml first.                          *)
LEMMA Explored ==
  ASSUME NEW tree \in Trees, NEW rest
  PROVE  /\ Range(Exploration(tree, rest)) = Range(tree)
         /\ Distinct(Exploration(tree, rest))
         /\ rest = << >> =>
              \A e \in Range(tree) : IsPom(e) => e = Head(Exploration(tree, rest))
<1> DEFINE poms == {i \in DOMAIN tree : IsPom(tree[i])}
           order == Exploration(tree, rest)
<1>1. tree \in Seq(Entries) /\ DOMAIN tree = 1 .. Len(tree) /\ Len(tree) \in Nat
  BY ObjectsAssumption, LenProperties
<1>2. \A i, j \in DOMAIN tree : tree[i].name = tree[j].name => i = j
  BY DistinctNames
<1>3. CASE rest = << >> /\ poms # {}
  <2>1. PICK p \in poms : p = CHOOSE q \in poms : TRUE
    BY <1>3
  <2>2. p \in 1 .. Len(tree) /\ IsPom(tree[p]) /\ 1 \in 1 .. Len(tree)
    BY <1>1, <2>1
  <2>3. poms = {p}
    BY <1>1, <1>2, <2>2 DEF IsPom
  <2> DEFINE place == [i \in 1 .. Len(tree) |-> IF i = 1 THEN p ELSE IF i = p THEN 1 ELSE i]
  <2>4. order = [i \in 1 .. Len(tree) |->
                   IF i = 1 THEN tree[p] ELSE IF i = p THEN tree[1] ELSE tree[i]]
    BY <1>1, <1>3, <2>1, <2>3 DEF Exploration
  <2>5. order = [i \in 1 .. Len(tree) |-> tree[place[i]]]
    BY <2>4
  <2>6. /\ \A i \in 1 .. Len(tree) : place[i] \in 1 .. Len(tree) /\ place[place[i]] = i
        /\ place[1] = p
    BY <2>2
  <2> HIDE DEF place, order, poms
  <2>7. DOMAIN order = 1 .. Len(tree)
    BY <2>5
  <2>8. \A i \in 1 .. Len(tree) : order[i] = tree[place[i]] /\ tree[i] = order[place[i]]
    BY <2>5, <2>6
  <2>9. Range(order) = Range(tree)
    BY <1>1, <2>6, <2>7, <2>8 DEF Range
  <2>10. Distinct(order)
    <3>1. SUFFICES ASSUME NEW i \in 1 .. Len(tree), NEW j \in 1 .. Len(tree),
                          order[i].name = order[j].name
                   PROVE  i = j
      BY <2>7 DEF Distinct
    <3>2. place[i] = place[j]
      BY <1>1, <1>2, <2>6, <2>8, <3>1
    <3>3. QED  BY <2>6, <3>2
  <2>11. Head(order) = tree[p]
    <3>1. order \in Seq(Entries)
      BY <1>1, ExplorationType DEF order
    <3>2. Head(order) = order[1]
      <4>1. order # << >>
        BY <1>1, <2>2, <2>7, <3>1, EmptySeq, LenProperties
      <4>2. QED  BY <3>1, <4>1, TailRange
    <3>3. QED  BY <2>2, <2>6, <2>8, <3>2
  <2>12. ASSUME NEW e \in Range(tree), IsPom(e) PROVE e = tree[p]
    <3>1. PICK i \in 1 .. Len(tree) : e = tree[i]
      BY <1>1 DEF Range
    <3>2. i \in poms
      BY <1>1, <2>12, <3>1 DEF poms
    <3>3. QED  BY <2>3, <3>1, <3>2
  <2>13. QED  BY <2>9, <2>10, <2>11, <2>12 DEF order
<1>4. CASE ~(rest = << >> /\ poms # {})
  <2>1. order = [i \in 1 .. Len(tree) |-> tree[(Len(tree) - i) + 1]]
    BY <1>4 DEF Exploration, Reverse
  <2>2. \A i \in 1 .. Len(tree) :
          (Len(tree) - i) + 1 \in 1 .. Len(tree) /\ (Len(tree) - ((Len(tree) - i) + 1)) + 1 = i
    BY <1>1
  <2> HIDE DEF order
  <2>3. DOMAIN order = 1 .. Len(tree)
    BY <2>1
  <2>4. \A i \in 1 .. Len(tree) : /\ order[i] = tree[(Len(tree) - i) + 1]
                                  /\ tree[i] = order[(Len(tree) - i) + 1]
    BY <2>1, <2>2
  <2>5. Range(order) = Range(tree)
    BY <1>1, <2>2, <2>3, <2>4 DEF Range
  <2>6. Distinct(order)
    <3>1. SUFFICES ASSUME NEW i \in 1 .. Len(tree), NEW j \in 1 .. Len(tree),
                          order[i].name = order[j].name
                   PROVE  i = j
      BY <2>3 DEF Distinct
    <3>2. (Len(tree) - i) + 1 = (Len(tree) - j) + 1
      BY <1>1, <1>2, <2>2, <2>4, <3>1
    <3>3. QED  BY <1>1, <3>2
  <2>7. ASSUME rest = << >>, NEW e \in Range(tree), IsPom(e) PROVE FALSE
    BY <1>4, <2>7 DEF Range
  <2>8. QED  BY <2>5, <2>6, <2>7 DEF order
<1>5. QED  BY <1>3, <1>4

\* what an entry adds to the source directories of others
LEMMA KeptOthers ==
  ASSUME NEW dirs, NEW name, NEW other, other # name
  PROVE  Drained(Kept(dirs, name), other) = Drained(dirs, other)
BY DEF Drained, Kept

(* An accumulator of an occurrence, with everything to do.                 *)
LEMMA ModuleStarts ==
  ASSUME NEW W, NEW value, Consistent(W, value), NEW w \in W, w.tree \in Trees,
         NEW files, NEW name, NEW at, at.op = w.op, at.rest = w.rest, NEW acc,
         acc = MavenAcc(w.tree, name, w.rest, w.dirs)
  PROVE  ModuleWhole(W, value, files, at, acc, {})
<1>1. /\ acc.tree = w.tree /\ acc.todo = Exploration(w.tree, w.rest)
      /\ acc.children = << >> /\ acc.dirs = w.dirs
  BY DEF MavenAcc
<1>2. /\ Range(acc.todo) = Range(w.tree) /\ Distinct(acc.todo)
      /\ w.rest = << >> => \A e \in Range(w.tree) : IsPom(e) => e = Head(acc.todo)
  BY <1>1, Explored
<1>3. Steady(w, acc)
  <2>1. (\A e \in Range(w.tree) : ~PomRead(e)) => OwnDirs(w) = w.dirs
    BY DEF OwnDirs
  <2>2. QED  BY <1>1, <1>2, <2>1 DEF Steady, DirsOf, PomRead
<1>4. OfRole(w, acc, at)
  BY <1>1, <1>2, <1>3 DEF OfRole
<1>5. Held(files, acc) = {}
  <2>1. DOMAIN << >> = {}
    OBVIOUS
  <2>2. QED  BY <1>1, <2>1 DEF Held
<1>6. LeftOf(w, value, acc) = value[acc.tree]
  BY <1>1, <1>2 DEF LeftOf, Consistent
<1>7. QED  BY <1>4, <1>5, <1>6 DEF ModuleWhole

LEMMA LeftTaken ==
  ASSUME NEW w, NEW value, NEW mod, mod.todo \in Seq(Entries), mod.todo # << >>,
         NEW acc, acc.todo = Tail(mod.todo)
  PROVE  LeftOf(w, value, mod) =
           Under(Head(mod.todo).name, Gives(w, Head(mod.todo), value))
             \cup LeftOf(w, value, acc)
BY RangeSplit DEF LeftOf

\* the source directories expected once the first entry of mod is done
DirsTaken(mod, acc) ==
  IF PomRead(Head(mod.todo)) THEN acc.dirs = SourceDirs
  ELSE \A name : name # Head(mod.todo).name =>
         Drained(acc.dirs, name) = Drained(mod.dirs, name)

(* An entry less to do.                                                    *)
LEMMA RoleTaken ==
  ASSUME NEW w, NEW at, NEW mod, mod.todo \in Seq(Entries), mod.todo # << >>,
         OfRole(w, mod, at), NEW acc, acc.tree = mod.tree, acc.todo = Tail(mod.todo),
         at.op # "java" /\ at.rest = << >> => DirsTaken(mod, acc)
  PROVE  OfRole(w, acc, at)
<1> DEFINE first == Head(mod.todo)
<1>1. /\ Range(mod.todo) = {first} \cup Range(acc.todo)
      /\ Distinct(acc.todo) /\ \A e \in Range(acc.todo) : e.name # first.name
  BY RangeSplit, DistinctTail DEF OfRole
<1>2. /\ w.tree = mod.tree /\ w.op = at.op /\ w.rest = at.rest
      /\ Range(mod.todo) \subseteq Range(w.tree) /\ Steady(w, mod)
  BY DEF OfRole
<1> HIDE DEF first
<1>3. Steady(w, acc)
  <2>1. SUFFICES ASSUME w.op # "java", w.rest = << >>
                 PROVE  /\ \A e \in Range(acc.todo) : ~PomRead(e)
                        /\ \A e \in Range(acc.todo) :
                             Drained(acc.dirs, e.name) = DirsOf(w, e)
    BY DEF Steady
  <2>2. \A e \in Range(acc.todo) : ~PomRead(e)
    BY <1>1, <1>2, <2>1 DEF Steady, first
  <2>3. CASE PomRead(first)
    <3>1. first \in Range(w.tree)
      BY <1>1, <1>2
    <3>2. OwnDirs(w) = SourceDirs
      BY <2>1, <2>3, <3>1 DEF OwnDirs
    <3>3. acc.dirs = SourceDirs
      BY <1>2, <2>1, <2>3 DEF first, DirsTaken
    <3>4. QED  BY <2>2, <3>2, <3>3 DEF DirsOf
  <2>4. CASE ~PomRead(first)
    <3>1. \A e \in Range(mod.todo) : ~PomRead(e)
      BY <1>1, <2>2, <2>4
    <3>2. \A e \in Range(mod.todo) : Drained(mod.dirs, e.name) = DirsOf(w, e)
      BY <1>2, <2>1, <3>1 DEF Steady
    <3>3. \A name : name # first.name => Drained(acc.dirs, name) = Drained(mod.dirs, name)
      BY <1>2, <2>1, <2>4 DEF first, DirsTaken
    <3>4. \A e \in Range(acc.todo) : Drained(acc.dirs, e.name) = DirsOf(w, e)
      BY <1>1, <3>2, <3>3
    <3>5. QED  BY <2>2, <3>4
  <2>5. QED  BY <2>3, <2>4
<1>4. OfRole(w, acc, at)
  BY <1>1, <1>2, <1>3 DEF OfRole
<1>5. QED  BY <1>4

\* what the directory above gets of a module, or of the sources being read
ModuleGets(value, acc) == Under(acc.name, value[acc.tree])
ModuleDue(value, stack, d, due) ==
  IF d + 1 \in DOMAIN stack THEN ModuleGets(value, stack[d + 1]) ELSE due

\* all of them but the top; while dir_path is followed they have no entry left
ModulesBelow(W, value, files, at, stack) ==
  \A d \in DOMAIN stack \ {Len(stack)} :
    /\ ModuleWhole(W, value, files, at, stack[d], ModuleDue(value, stack, d, {}))
    /\ at.rest # << >> => stack[d].todo = << >>

ModulesWhole(W, value, files, at, stack, due) ==
  /\ ModulesBelow(W, value, files, at, stack)
  /\ ModuleWhole(W, value, files, at, Last(stack), due)

LEMMA ModulesChange ==
  ASSUME NEW W, NEW value, NEW files, NEW at, NEW stack \in Seq(MavenAccs), stack # << >>,
         ModulesBelow(W, value, files, at, stack),
         NEW acc, acc.tree = Last(stack).tree, acc.name = Last(stack).name
  PROVE  /\ OnTop(stack, acc)[1].tree = stack[1].tree
         /\ \A due : ModuleWhole(W, value, files, at, acc, due)
                       => ModulesWhole(W, value, files, at, OnTop(stack, acc), due)
         /\ \A deeper, due :
              /\ Append(OnTop(stack, acc), deeper)[1].tree = stack[1].tree
              /\ /\ ModuleWhole(W, value, files, at, deeper, due)
                 /\ ModuleWhole(W, value, files, at, acc, ModuleGets(value, deeper))
                 /\ at.rest # << >> => acc.todo = << >>
                 => ModulesWhole(W, value, files, at, Append(OnTop(stack, acc), deeper), due)
<1> DEFINE top == OnTop(stack, acc)
           T == MavenAccs \cup {acc}
<1>0. stack \in Seq(T) /\ acc \in T
  BY Wider
<1> HIDE DEF T
<1>1. /\ top \in Seq(T) /\ top # << >> /\ Len(top) = Len(stack)
      /\ DOMAIN top = DOMAIN stack
      /\ \A d \in DOMAIN stack : top[d] = IF d = Len(stack) THEN acc ELSE stack[d]
  BY <1>0, StackTop
<1>2. /\ Len(stack) \in Nat \ {0} /\ DOMAIN stack = 1 .. Len(stack)
      /\ Last(stack) = stack[Len(stack)]
  BY TopIn
<1>3. Last(top) = acc
  BY <1>1, <1>2 DEF Last
<1> HIDE DEF top
<1>4. \A d \in DOMAIN stack : top[d].tree = stack[d].tree /\ top[d].name = stack[d].name
  BY <1>1, <1>2
<1>5. \A d \in DOMAIN stack : ModuleGets(value, top[d]) = ModuleGets(value, stack[d])
  BY <1>4 DEF ModuleGets
<1>6. \A d \in DOMAIN stack \ {Len(stack)} :
        ModuleDue(value, top, d, {}) = ModuleDue(value, stack, d, {})
  BY <1>1, <1>5 DEF ModuleDue
<1>7. \A d \in DOMAIN stack \ {Len(stack)} :
        /\ ModuleWhole(W, value, files, at, top[d], ModuleDue(value, top, d, {}))
        /\ at.rest # << >> => top[d].todo = << >>
  BY <1>1, <1>6 DEF ModulesBelow
<1>8. ASSUME NEW due, ModuleWhole(W, value, files, at, acc, due)
      PROVE  ModulesWhole(W, value, files, at, top, due)
  BY <1>1, <1>3, <1>7, <1>8 DEF ModulesWhole, ModulesBelow
<1>9. ASSUME NEW deeper
      PROVE  LET more == Append(top, deeper) IN
             /\ more[1].tree = stack[1].tree
             /\ \A due : /\ ModuleWhole(W, value, files, at, deeper, due)
                         /\ ModuleWhole(W, value, files, at, acc, ModuleGets(value, deeper))
                         /\ at.rest # << >> => acc.todo = << >>
                         => ModulesWhole(W, value, files, at, more, due)
  <2> DEFINE more == Append(top, deeper)
             U == T \cup {deeper}
  <2>1. top \in Seq(U) /\ deeper \in U
    BY <1>1, Wider
  <2> HIDE DEF U
  <2>2. /\ more # << >> /\ DOMAIN more = DOMAIN stack \cup {Len(stack) + 1}
        /\ Len(more) = Len(stack) + 1
        /\ \A d \in DOMAIN stack : more[d] = top[d]
        /\ more[Len(stack) + 1] = deeper
    BY <1>1, <2>1, StackPush
  <2> HIDE DEF more
  <2>3. more[1].tree = stack[1].tree /\ Last(more) = deeper
    BY <1>2, <1>4, <2>2 DEF Last
  <2>4. \A d \in DOMAIN stack \ {Len(stack)} :
          ModuleDue(value, more, d, {}) = ModuleDue(value, top, d, {})
    BY <1>1, <1>2, <2>2 DEF ModuleDue
  <2>5. ModuleDue(value, more, Len(stack), {}) = ModuleGets(value, deeper)
    BY <1>2, <2>2 DEF ModuleDue
  <2>6. ASSUME NEW due, ModuleWhole(W, value, files, at, deeper, due),
               ModuleWhole(W, value, files, at, acc, ModuleGets(value, deeper)),
               at.rest # << >> => acc.todo = << >>
        PROVE  ModulesWhole(W, value, files, at, more, due)
    <3>1. \A d \in DOMAIN stack :
            /\ ModuleWhole(W, value, files, at, more[d], ModuleDue(value, more, d, {}))
            /\ at.rest # << >> => more[d].todo = << >>
      BY <1>1, <1>7, <2>2, <2>4, <2>5, <2>6
    <3>2. DOMAIN more \ {Len(more)} = DOMAIN stack
      BY <1>2, <2>2
    <3>3. QED  BY <2>3, <2>6, <3>1, <3>2 DEF ModulesWhole, ModulesBelow
  <2>7. QED  BY <2>3, <2>6 DEF more
<1>10. top[1].tree = stack[1].tree
  BY <1>2, <1>4
<1>11. QED  BY <1>8, <1>9, <1>10 DEF top

LEMMA ModulesPop ==
  ASSUME NEW W, NEW value, NEW files, NEW at, NEW stack \in Seq(MavenAccs), stack # << >>,
         ModulesBelow(W, value, files, at, stack)
  PROVE  /\ Front(stack) # << >> =>
              /\ ModulesBelow(W, value, files, at, Front(stack))
              /\ Front(stack)[1] = stack[1]
              /\ ModuleWhole(W, value, files, at, Last(Front(stack)),
                             ModuleGets(value, Last(stack)))
         /\ Front(stack) = << >> => Last(stack) = stack[1]
<1>1. /\ Len(stack) \in Nat \ {0} /\ DOMAIN stack = 1 .. Len(stack)
      /\ Last(stack) = stack[Len(stack)] /\ Len(stack) \in DOMAIN stack
  BY TopIn
<1> DEFINE below == Front(stack)
<1>2. /\ below \in Seq(MavenAccs) /\ Len(below) = Len(stack) - 1
      /\ DOMAIN below = 1 .. Len(stack) - 1
      /\ \A d \in DOMAIN below : below[d] = stack[d]
  <2>1. 1 .. Len(stack) - 1 = (1 .. Len(stack)) \ {Len(stack)}
    BY <1>1
  <2>2. QED  BY <1>1, <2>1, StackPop
<1> HIDE DEF below
<1>3. ASSUME below # << >>
      PROVE  /\ ModulesBelow(W, value, files, at, below) /\ below[1] = stack[1]
             /\ ModuleWhole(W, value, files, at, Last(below), ModuleGets(value, Last(stack)))
  <2>1. Len(below) \in Nat \ {0} /\ Last(below) = below[Len(below)]
    BY <1>2, <1>3, TopIn
  <2>2. \A d \in DOMAIN below \ {Len(below)} :
          ModuleDue(value, below, d, {}) = ModuleDue(value, stack, d, {})
    BY <1>1, <1>2 DEF ModuleDue
  <2>3. 1 \in DOMAIN below /\ Len(below) \in DOMAIN below /\ Len(below) + 1 = Len(stack)
    BY <1>1, <1>2, <2>1
  <2>4. \A d \in DOMAIN below : d \in DOMAIN stack \ {Len(stack)}
    BY <1>1, <1>2
  <2>5. ModulesBelow(W, value, files, at, below)
    BY <1>2, <2>2, <2>4 DEF ModulesBelow
  <2>6. ModuleDue(value, stack, Len(below), {}) = ModuleGets(value, Last(stack))
    BY <1>1, <2>3 DEF ModuleDue
  <2>7. ModuleWhole(W, value, files, at, Last(below), ModuleGets(value, Last(stack)))
    BY <1>2, <2>1, <2>3, <2>4, <2>6 DEF ModulesBelow
  <2>8. QED  BY <1>2, <2>3, <2>5, <2>7
<1>4. ASSUME below = << >> PROVE Last(stack) = stack[1]
  <2>1. Len(stack) = 1
    BY <1>1, <1>2, <1>4, EmptySeq
  <2>2. QED  BY <1>1, <2>1
<1>5. QED  BY <1>3, <1>4 DEF below

(* Following dir_path further changes nothing for those below.             *)
LEMMA ModulesForward ==
  ASSUME NEW W, NEW value, NEW files, NEW at, NEW at2, at2.op = at.op, at.rest # << >>,
         NEW stack, ModulesBelow(W, value, files, at, stack)
  PROVE  ModulesBelow(W, value, files, at2, stack)
<1>1. SUFFICES ASSUME NEW d \in DOMAIN stack \ {Len(stack)}
               PROVE  ModuleWhole(W, value, files, at2, stack[d], ModuleDue(value, stack, d, {}))
                      /\ stack[d].todo = << >>
  BY DEF ModulesBelow
<1>2. /\ ModuleWhole(W, value, files, at, stack[d], ModuleDue(value, stack, d, {}))
      /\ stack[d].todo = << >>
  BY DEF ModulesBelow
<1>3. \A w : OfRole(w, stack[d], at) => OfRole(w, stack[d], at2)
  BY <1>2 DEF OfRole
<1>4. QED  BY <1>2, <1>3 DEF ModuleWhole

(* More entities leave what was whole whole.                               *)
LEMMA ModulesStay ==
  ASSUME NEW ns, NEW f, NEW g, Agree(ns, f, g), NEW W, NEW value, NEW at
  PROVE  /\ \A acc, due : Listed(ns, acc) /\ ModuleWhole(W, value, f, at, acc, due)
                             => ModuleWhole(W, value, g, at, acc, due)
         /\ \A stack : MavenOK(ns, stack, FALSE) /\ ModulesBelow(W, value, f, at, stack)
                             => ModulesBelow(W, value, g, at, stack)
<1>1. ASSUME NEW acc, NEW due, Listed(ns, acc), ModuleWhole(W, value, f, at, acc, due)
      PROVE  ModuleWhole(W, value, g, at, acc, due)
  <2>1. Held(g, acc) = Held(f, acc)
    BY <1>1, HeldStays
  <2>2. QED  BY <1>1, <2>1 DEF ModuleWhole
<1>2. ASSUME NEW stack, MavenOK(ns, stack, FALSE), ModulesBelow(W, value, f, at, stack)
      PROVE  ModulesBelow(W, value, g, at, stack)
  BY <1>1, <1>2 DEF MavenOK, ModulesBelow
<1>3. QED  BY <1>1, <1>2

\* the requests of s occur in W, where their trees give the files they want
Meant(W, value, s) ==
  \A r \in Range(s) : Occurrence(r) \in W /\ value[r.tree] = WantedFiles(r)

At == [op |-> Request.op, rest |-> path]

StackWhole(W, value) ==
  maven # << >> =>
    /\ ModulesWhole(W, value, AstFiles, At, maven, DueFirst(java))
    /\ maven[1].tree = Request.tree

\* what object_map, object_map_pom and the commits have
MapWhole(W, value, files, map) ==
  \A o \in DOMAIN map : (\E w \in W : w.tree = o) /\ files[map[o]] = value[o]
PomsWhole(files, poms) ==
  \A o \in DOMAIN poms : o \notin Unreadable /\ files[poms[o]] = Single(o)
CommitsWhole(files, cs) ==
  cs # << >> => files[Last(cs).root] = WantedFiles(Last(cs).request)

MapsWhole(W, value) ==
  /\ MapWhole(W, value, AstFiles, objectMap)
  /\ PomsWhole(AstFiles, objectMapPom)
  /\ CommitsWhole(AstFiles, commits)

WholeModules(W, value) ==
  /\ Consistent(W, value) /\ Meant(W, value, session)
  /\ StackWhole(W, value)
  /\ MapsWhole(W, value)

LEMMA MapsWholeStay ==
  ASSUME Inv(FALSE), Inv(FALSE)', Grows(nodes, nodes'), NEW W, NEW value,
         MapsWhole(W, value)
  PROVE  /\ MapWhole(W, value, AstFiles', objectMap)
         /\ PomsWhole(AstFiles', objectMapPom)
         /\ CommitsWhole(AstFiles', commits)
<1>1. \A i \in DOMAIN nodes : AstFiles'[i] = AstFiles[i]
  BY AstFilesStay
<1>2. PICK f : f = AstFiles
  OBVIOUS
<1>3. PICK g : g = AstFiles'
  OBVIOUS
<1>4. \A i \in DOMAIN nodes : g[i] = f[i]
  BY <1>1, <1>2, <1>3
<1>5. MapWhole(W, value, g, objectMap)
  BY <1>2, <1>4 DEF MapsWhole, MapWhole, Inv, MapsOK
<1>6. PomsWhole(g, objectMapPom)
  BY <1>2, <1>4 DEF MapsWhole, PomsWhole, Inv, MapsOK
<1>7. CommitsWhole(g, commits)
  <2>1. commits # << >> => Last(commits).root \in DOMAIN nodes
    BY TopIn DEF Inv, CommitsOK
  <2>2. QED  BY <1>2, <1>4, <2>1 DEF MapsWhole, CommitsWhole
<1>8. QED  BY <1>3, <1>5, <1>6, <1>7

(* The module at the top and what is left of it after its first entry.     *)
LEMMA ModuleRest ==
  ASSUME Inv(FALSE), Exploring, NEW acc, acc = Last(Popped(maven))
  PROVE  /\ acc \in MavenAccs /\ acc.tree = Module.tree /\ acc.name = Module.name
         /\ acc.todo = Tail(Module.todo) /\ acc.dirs = Module.dirs
         /\ acc.names = Module.names /\ acc.children = Module.children
         /\ \A files : Held(files, acc) = Held(files, Module)
         /\ Listed(nodes, acc) /\ Popped(maven) = OnTop(maven, acc)
         /\ Module \in MavenAccs /\ Module = Last(maven) /\ Listed(nodes, Module)
         /\ Module.todo \in Seq(Entries) /\ Module.todo # << >>
         /\ maven \in Seq(MavenAccs) /\ maven # << >> /\ java = << >>
<1>1. /\ maven # << >> /\ maven \in Seq(MavenAccs) /\ Module \in MavenAccs
      /\ acc \in MavenAccs /\ Listed(nodes, acc) /\ Popped(maven) = OnTop(maven, acc)
      /\ acc.names = Module.names /\ acc.children = Module.children /\ acc.dirs = Module.dirs
      /\ java = << >>
  BY AtEntry
<1>2. Module.todo \in Seq(Entries) /\ Module.todo # << >>
  BY <1>1 DEF MavenAccs, Exploring
<1>3. acc = [Module EXCEPT !.todo = Tail(@)]
  BY <1>2, MavenPopped DEF Exploring, InMaven, Module, Inv
<1>4. acc.tree = Module.tree /\ acc.name = Module.name /\ acc.todo = Tail(Module.todo)
  BY <1>1, <1>3 DEF MavenAccs
<1>5. \A files : Held(files, acc) = Held(files, Module)
  BY <1>1 DEF Held
<1>6. Listed(nodes, Module)
  BY <1>1, TopIn DEF Inv, MavenOK, Module
<1>7. QED  BY <1>1, <1>2, <1>4, <1>5, <1>6 DEF Module

\* the source directories expected in a directory are known when it is reached
LEMMA DirsKnown ==
  ASSUME NEW w, NEW mod, NEW at, OfRole(w, mod, at), mod.todo \in Seq(Entries),
         mod.todo # << >>, at.op # "java", at.rest = << >>, IsTree(Head(mod.todo))
  PROVE  Drained(mod.dirs, Head(mod.todo).name) = DirsOf(w, Head(mod.todo))
<1>1. Head(mod.todo) \in Range(mod.todo) /\ ~PomRead(Head(mod.todo))
  BY TailRange DEF PomRead, IsPom
<1>2. w.op # "java" /\ w.rest = << >>
  BY DEF OfRole
<1>3. \A e \in Range(mod.todo) : ~PomRead(e)
  BY <1>1, <1>2 DEF OfRole, Steady
<1>4. QED  BY <1>1, <1>2, <1>3 DEF OfRole, Steady

(* An entry is done: what it gave was got, or is due by the sources that   *)
(* are read now.                                                           *)
LEMMA EntryDone ==
  ASSUME Inv(FALSE), Inv(FALSE)', NEW W, NEW value, StackWhole(W, value),
         Exploring, Grows(nodes, nodes'), UNCHANGED <<session, path>>,
         NEW acc, acc.tree = Module.tree, acc.name = Module.name,
         acc.todo = Tail(Module.todo),
         Request.op # "java" /\ path = << >> => DirsTaken(Module, acc),
         NEW got, Held(AstFiles', acc) = Held(AstFiles', Module) \cup got,
         \A w \in W : OfRole(w, Module, At) /\ w.rest = path =>
           Under(Entry.name, Gives(w, Entry, value)) = got \cup DueFirst(java'),
         maven' = OnTop(maven, acc)
  PROVE  StackWhole(W, value)'
<1>1. /\ Module \in MavenAccs /\ Module = Last(maven) /\ Listed(nodes, Module)
      /\ Module.todo \in Seq(Entries) /\ Module.todo # << >>
      /\ maven \in Seq(MavenAccs) /\ maven # << >> /\ java = << >>
  BY ModuleRest
<1>2. PICK at : at = At
  OBVIOUS
<1>3. At' = at /\ at.op = Request.op /\ at.rest = path
  BY <1>2 DEF At, Request
<1>4. PICK files : files = AstFiles'
  OBVIOUS
<1>5. Agree(nodes, AstFiles, files)
  BY <1>4, AstFilesStay DEF Agree
<1>6. /\ ModulesBelow(W, value, AstFiles, at, maven)
      /\ ModuleWhole(W, value, AstFiles, at, Module, {}) /\ maven[1].tree = Request.tree
  BY <1>1, <1>2 DEF StackWhole, ModulesWhole, DueFirst
<1>7. /\ ModulesBelow(W, value, files, at, maven)
      /\ ModuleWhole(W, value, files, at, Module, {})
  BY <1>1, <1>5, <1>6, ModulesStay DEF Inv
<1>8. PICK w \in W : /\ OfRole(w, Module, at)
                     /\ Held(files, Module) \cup LeftOf(w, value, Module) = value[Module.tree]
  BY <1>7 DEF ModuleWhole
<1>9. w.rest = path
  BY <1>1, <1>3, <1>8 DEF OfRole
<1>10. /\ OfRole(w, acc, at)
       /\ LeftOf(w, value, Module) =
            Under(Entry.name, Gives(w, Entry, value)) \cup LeftOf(w, value, acc)
  <2>1. PICK mod : mod = Module
    OBVIOUS
  <2>2. mod.todo \in Seq(Entries) /\ mod.todo # << >> /\ OfRole(w, mod, at)
        /\ acc.tree = mod.tree /\ acc.todo = Tail(mod.todo)
    BY <1>1, <1>8, <2>1
  <2>3. at.op # "java" /\ at.rest = << >> => DirsTaken(mod, acc)
    BY <1>3, <2>1
  <2>4. OfRole(w, acc, at)
    BY <2>2, <2>3, RoleTaken
  <2>5. LeftOf(w, value, mod) =
          Under(Head(mod.todo).name, Gives(w, Head(mod.todo), value))
            \cup LeftOf(w, value, acc)
    BY <2>2, LeftTaken
  <2>6. QED  BY <2>1, <2>4, <2>5 DEF Entry
<1>11. Under(Entry.name, Gives(w, Entry, value)) = got \cup DueFirst(java')
  BY <1>2, <1>8, <1>9
<1>12. ModuleWhole(W, value, files, at, acc, DueFirst(java'))
  BY <1>4, <1>8, <1>10, <1>11 DEF ModuleWhole
<1>13. PICK due : due = DueFirst(java')
  OBVIOUS
<1>14. /\ ModulesWhole(W, value, files, at, maven', due)
       /\ maven'[1].tree = maven[1].tree
  BY <1>1, <1>7, <1>12, <1>13, ModulesChange
<1>15. Request' = Request
  BY DEF Request
<1>16. QED  BY <1>3, <1>4, <1>6, <1>13, <1>14, <1>15 DEF StackWhole

(* A child more of a module.                                               *)
LEMMA ModulePushed ==
  ASSUME NEW ns, NEW acc \in MavenAccs, Listed(ns, acc), NEW name \in Names, NEW id \in Nat
  PROVE  /\ PushChild(acc, name, id).tree = acc.tree
         /\ PushChild(acc, name, id).name = acc.name
         /\ PushChild(acc, name, id).todo = acc.todo
         /\ PushChild(acc, name, id).dirs = acc.dirs
         /\ \A files : Held(files, PushChild(acc, name, id)) =
                         Held(files, acc) \cup Under(name, files[id])
<1> DEFINE pushed == PushChild(acc, name, id)
<1>1. /\ pushed.names = Append(acc.names, name)
      /\ pushed.children = Append(acc.children, id)
  BY MavenPushed
<1>2. acc.names \in Seq(Names) /\ acc.children \in Seq(Nat)
  BY DEF MavenAccs
<1>3. /\ pushed.tree = acc.tree /\ pushed.name = acc.name
      /\ pushed.todo = acc.todo /\ pushed.dirs = acc.dirs
  BY DEF PushChild, MavenAccs
<1> HIDE DEF pushed
<1>4. ASSUME NEW files PROVE Held(files, pushed) = Held(files, acc) \cup Under(name, files[id])
  BY <1>1, <1>2, HeldPushed
<1>5. QED  BY <1>3, <1>4 DEF pushed

LEMMA PomPushedWhole ==
  ASSUME NEW ns, NEW acc \in MavenAccs, Listed(ns, acc), NEW id \in Nat
  PROVE  /\ PushPom(acc, id).tree = acc.tree /\ PushPom(acc, id).name = acc.name
         /\ PushPom(acc, id).todo = acc.todo /\ PushPom(acc, id).dirs = SourceDirs
         /\ \A files : Held(files, PushPom(acc, id)) =
                         Held(files, acc) \cup Under("pom.xml", files[id])
<1> DEFINE pushed == PushPom(acc, id)
<1>1. /\ pushed.names = Append(acc.names, "pom.xml")
      /\ pushed.children = Append(acc.children, id)
  BY PomPushed
<1>2. acc.names \in Seq(Names) /\ acc.children \in Seq(Nat)
  BY DEF MavenAccs
<1>3. /\ pushed.tree = acc.tree /\ pushed.name = acc.name
      /\ pushed.todo = acc.todo /\ pushed.dirs = SourceDirs
  BY DEF PushPom, PushChild, MavenAccs
<1> HIDE DEF pushed
<1>4. \A files : Held(files, pushed) = Held(files, acc) \cup Under("pom.xml", files[id])
  <2>1. PICK name \in Names : name = "pom.xml"
    BY DEF Names
  <2>2. pushed.names = Append(acc.names, name) /\ pushed.children = Append(acc.children, id)
    BY <1>1, <2>1
  <2>3. SUFFICES ASSUME NEW files
                 PROVE  Held(files, pushed) = Held(files, acc) \cup Under("pom.xml", files[id])
    OBVIOUS
  <2>4. Held(files, pushed) = Held(files, acc) \cup Under(name, files[id])
    BY <1>2, <2>2, HeldPushed
  <2>5. QED  BY <2>1, <2>4
<1>5. QED  BY <1>3, <1>4 DEF pushed

(* A step that makes no module and no pom.xml.                             *)
LEMMA NothingMade ==
  ASSUME Inv(FALSE), Inv(FALSE)', Grows(nodes, nodes'), NEW W, NEW value,
         WholeModules(W, value), StackWhole(W, value)',
         UNCHANGED <<session, objectMap, objectMapPom, commits>>
  PROVE  WholeModules(W, value)'
<1>1. /\ MapWhole(W, value, AstFiles', objectMap)
      /\ PomsWhole(AstFiles', objectMapPom)
      /\ CommitsWhole(AstFiles', commits)
  BY MapsWholeStay DEF WholeModules
<1>2. MapsWhole(W, value)'
  BY <1>1 DEF MapsWhole
<1>3. QED  BY <1>2 DEF WholeModules

(* The modules on the stack, after entities were added.                    *)
LEMMA StackRead ==
  ASSUME Inv(FALSE), Inv(FALSE)', Grows(nodes, nodes'), NEW W, NEW value,
         StackWhole(W, value), maven # << >>,
         NEW at, at = At, NEW files, files = AstFiles'
  PROVE  /\ ModulesBelow(W, value, files, at, maven)
         /\ ModuleWhole(W, value, files, at, Module, DueFirst(java))
         /\ maven[1].tree = Request.tree /\ maven \in Seq(MavenAccs)
         /\ Module = Last(maven) /\ Module \in MavenAccs /\ Listed(nodes, Module)
<1>1. maven \in Seq(MavenAccs) /\ Module = Last(maven)
  BY DEF Inv, MavenOK, Module
<1>2. Module \in MavenAccs /\ Listed(nodes, Module)
  BY <1>1, TopIn DEF Inv, MavenOK
<1>3. Agree(nodes, AstFiles, files)
  BY AstFilesStay DEF Agree
<1>4. /\ ModulesBelow(W, value, AstFiles, at, maven)
      /\ ModuleWhole(W, value, AstFiles, at, Module, DueFirst(java))
      /\ maven[1].tree = Request.tree
  BY <1>1 DEF StackWhole, ModulesWhole
<1>5. ModulesBelow(W, value, files, at, maven)
  BY <1>3, <1>4, ModulesStay DEF Inv
<1>6. ModuleWhole(W, value, files, at, Module, DueFirst(java))
  <2>1. PICK acc : acc = Module
    OBVIOUS
  <2>2. PICK due : due = DueFirst(java)
    OBVIOUS
  <2>3. ModuleWhole(W, value, files, at, acc, due)
    BY <1>2, <1>3, <1>4, <2>1, <2>2, ModulesStay
  <2>4. QED  BY <2>1, <2>2, <2>3
<1>7. QED  BY <1>1, <1>2, <1>4, <1>5, <1>6

LEMMA RoleSame ==
  ASSUME NEW w, NEW at, NEW acc, NEW more, more.tree = acc.tree,
         more.todo = acc.todo, more.dirs = acc.dirs
  PROVE  /\ OfRole(w, acc, at) => OfRole(w, more, at)
         /\ \A value : LeftOf(w, value, more) = LeftOf(w, value, acc)
BY DEF OfRole, Steady, LeftOf

(* A child that has the files that were due.                               *)
LEMMA DuePushed ==
  ASSUME NEW ns, NEW acc \in MavenAccs, Listed(ns, acc), NEW name \in Names, NEW id \in Nat,
         NEW W, NEW value, NEW files, NEW at,
         ModuleWhole(W, value, files, at, acc, Under(name, files[id]))
  PROVE  ModuleWhole(W, value, files, at, PushChild(acc, name, id), {})
<1>1. PICK more : more = PushChild(acc, name, id)
  OBVIOUS
<1>2. /\ more.tree = acc.tree /\ more.todo = acc.todo /\ more.dirs = acc.dirs
      /\ Held(files, more) = Held(files, acc) \cup Under(name, files[id])
  BY <1>1, ModulePushed
<1>3. PICK w \in W :
        /\ OfRole(w, acc, at)
        /\ Held(files, acc) \cup LeftOf(w, value, acc) \cup Under(name, files[id])
             = value[acc.tree]
  BY DEF ModuleWhole
<1>4. OfRole(w, more, at) /\ LeftOf(w, value, more) = LeftOf(w, value, acc)
  BY <1>2, <1>3, RoleSame
<1>5. ModuleWhole(W, value, files, at, more, {})
  BY <1>2, <1>3, <1>4 DEF ModuleWhole
<1>6. QED  BY <1>1, <1>5

\* while nothing is read as sources
LEMMA NothingDue == DueFirst(<< >>) = {} /\ \A name : Under(name, {}) = {}
BY DEF DueFirst, Under

LEMMA IgnoreEntryModules ==
  ASSUME Inv(FALSE), Inv(FALSE)', NEW W, NEW value, WholeModules(W, value), IgnoreEntry
  PROVE  WholeModules(W, value)'
<1>1. /\ Exploring /\ Grows(nodes, nodes')
      /\ UNCHANGED <<session, path, java, objectMap, objectMapPom, commits>>
  BY DEF IgnoreEntry, caches, Grows
<1>2. PICK acc : acc = Last(Popped(maven))
  OBVIOUS
<1>3. /\ acc.tree = Module.tree /\ acc.name = Module.name /\ acc.todo = Tail(Module.todo)
      /\ acc.dirs = Module.dirs /\ \A files : Held(files, acc) = Held(files, Module)
      /\ Popped(maven) = OnTop(maven, acc) /\ java = << >>
      /\ Module.todo \in Seq(Entries) /\ Module.todo # << >>
  BY <1>1, <1>2, ModuleRest
<1>4. path = << >> /\ Request.op # "java" => ~PomRead(Entry)
  BY DEF IgnoreEntry, PomRead, IsPom
<1>5. Request.op # "java" /\ path = << >> => DirsTaken(Module, acc)
  BY <1>3, <1>4 DEF DirsTaken, Entry
<1>6. ASSUME NEW w \in W, OfRole(w, Module, At), w.rest = path
      PROVE  Gives(w, Entry, value) = {}
  <2>1. w.op = Request.op
    BY <1>6 DEF OfRole, At
  <2>2. CASE path # << >> /\ (IsTree(Entry) => Entry.name # Head(path))
    BY <1>6, <2>2 DEF Gives, Descends, SourcesAt
  <2>3. CASE path = << >> /\ ~IsTree(Entry)
    BY <1>4, <1>6, <2>1, <2>3 DEF Gives, Descends, SourcesAt
  <2>4. CASE /\ path = << >> /\ IsTree(Entry) /\ Request.op = "single"
             /\ Drained(Module.dirs, Entry.name) = {}
    <3>1. PICK mod : mod = Module
      OBVIOUS
    <3>2. PICK at : at = At
      OBVIOUS
    <3>3. /\ mod.todo \in Seq(Entries) /\ mod.todo # << >> /\ OfRole(w, mod, at)
          /\ at.op # "java" /\ at.rest = << >> /\ IsTree(Head(mod.todo))
      BY <1>3, <1>6, <2>4, <3>1, <3>2 DEF At, Entry
    <3>4. Drained(mod.dirs, Head(mod.todo).name) = DirsOf(w, Head(mod.todo))
      BY <3>3, DirsKnown
    <3>5. DirsOf(w, Entry) = {}
      BY <2>4, <3>1, <3>4 DEF Entry
    <3>6. ~Descends(w, Entry) /\ ~SourcesAt(w, Entry) /\ ~PomRead(Entry)
      BY <1>4, <1>6, <2>1, <2>4, <3>5 DEF Descends, SourcesAt
    <3>7. QED  BY <3>6 DEF Gives
  <2>5. QED  BY <2>2, <2>3, <2>4 DEF IgnoreEntry
<1>7. PICK got : got = {}
  OBVIOUS
<1>8. \A w \in W : OfRole(w, Module, At) /\ w.rest = path =>
        Under(Entry.name, Gives(w, Entry, value)) = got \cup DueFirst(java')
  BY <1>1, <1>3, <1>6, <1>7, NothingDue
<1>9. Held(AstFiles', acc) = Held(AstFiles', Module) \cup got
  BY <1>3, <1>7
<1>10. maven' = OnTop(maven, acc)
  BY <1>3 DEF IgnoreEntry
<1>11. StackWhole(W, value)'
  BY <1>1, <1>3, <1>5, <1>8, <1>9, <1>10, EntryDone DEF WholeModules
<1>12. QED  BY <1>1, <1>11, NothingMade

LEMMA ReuseDirectoryModules ==
  ASSUME Inv(FALSE), Inv(FALSE)', NEW W, NEW value, WholeModules(W, value), ReuseDirectory
  PROVE  WholeModules(W, value)'
<1>1. /\ Exploring /\ Grows(nodes, nodes') /\ UNCHANGED nodes
      /\ IsTree(Entry) /\ path = << >> /\ Entry.object \in DOMAIN objectMap
      /\ UNCHANGED <<session, path, java, objectMap, objectMapPom, commits>>
  BY DEF ReuseDirectory, caches, Grows
<1>2. PICK rest : rest = Last(Popped(maven))
  OBVIOUS
<1>3. /\ rest \in MavenAccs /\ Listed(nodes, rest)
      /\ rest.tree = Module.tree /\ rest.name = Module.name /\ rest.todo = Tail(Module.todo)
      /\ rest.dirs = Module.dirs /\ \A files : Held(files, rest) = Held(files, Module)
      /\ java = << >>
      /\ Module.todo \in Seq(Entries) /\ Module.todo # << >>
  BY <1>1, <1>2, ModuleRest
<1>4. PICK id : id = objectMap[Entry.object]
  OBVIOUS
<1>5. PICK files : files = AstFiles'
  OBVIOUS
<1>6. /\ id \in Nat /\ Entry.name \in Names
      /\ files[id] = value[Entry.object] /\ \E v \in W : v.tree = Entry.object
  <2>1. id \in DOMAIN nodes /\ Entry.name \in Names
    BY <1>1, <1>4, AtEntry DEF Inv, MapsOK
  <2>2. id \in Nat
    BY <2>1, LenProperties DEF Inv, NodesOK
  <2>3. files = AstFiles
    BY <1>1, <1>5 DEF AstFiles
  <2>4. QED  BY <1>1, <1>4, <2>1, <2>2, <2>3 DEF WholeModules, MapsWhole, MapWhole
<1>7. PICK acc : acc = PushChild(rest, Entry.name, id)
  OBVIOUS
<1>8. /\ acc.tree = Module.tree /\ acc.name = Module.name /\ acc.todo = Tail(Module.todo)
      /\ acc.dirs = Module.dirs
      /\ Held(files, acc) = Held(files, Module) \cup Under(Entry.name, files[id])
  <2>1. PICK name \in Names : name = Entry.name
    BY <1>6
  <2>2. /\ acc.tree = rest.tree /\ acc.name = rest.name /\ acc.todo = rest.todo
        /\ acc.dirs = rest.dirs
        /\ Held(files, acc) = Held(files, rest) \cup Under(name, files[id])
    <3>1. acc = PushChild(rest, name, id)
      BY <1>7, <2>1
    <3>2. QED  BY <1>3, <1>6, <3>1, ModulePushed
  <2>3. QED  BY <1>3, <2>1, <2>2
<1>9. Request.op # "java" /\ path = << >> => DirsTaken(Module, acc)
  BY <1>1, <1>8 DEF DirsTaken, Entry, PomRead, IsPom
<1>10. PICK got : got = Under(Entry.name, files[id])
  OBVIOUS
<1>11. ASSUME NEW w \in W, OfRole(w, Module, At), w.rest = path
       PROVE  Gives(w, Entry, value) = value[Entry.object]
  <2>1. Entry \in Range(w.tree)
    BY <1>3, <1>11, TailRange DEF OfRole, Entry
  <2>2. QED  BY <1>1, <1>6, <1>11, <2>1 DEF WholeModules, Consistent
<1>12. \A w \in W : OfRole(w, Module, At) /\ w.rest = path =>
         Under(Entry.name, Gives(w, Entry, value)) = got \cup DueFirst(java')
  BY <1>1, <1>3, <1>6, <1>10, <1>11, NothingDue
<1>13. Held(AstFiles', acc) = Held(AstFiles', Module) \cup got
  BY <1>5, <1>8, <1>10
<1>14. maven' = OnTop(maven, acc)
  BY <1>2, <1>4, <1>7 DEF ReuseDirectory
<1>15. StackWhole(W, value)'
  BY <1>1, <1>8, <1>9, <1>12, <1>13, <1>14, EntryDone DEF WholeModules
<1>16. QED  BY <1>1, <1>15, NothingMade

LEMMA EnterSourcesModules ==
  ASSUME Inv(FALSE), Inv(FALSE)', NEW W, NEW value, WholeModules(W, value), EnterSources
  PROVE  WholeModules(W, value)'
<1>1. /\ Exploring /\ Grows(nodes, nodes')
      /\ IsTree(Entry) /\ path = << >>
      /\ Request.op = "java" \/ << >> \in Drained(Module.dirs, Entry.name)
      /\ java' = <<JavaAcc(Entry.object, Entry.name)>>
      /\ UNCHANGED <<session, path, objectMap, objectMapPom, commits>>
  BY DEF EnterSources, ToExplore, caches, Grows
<1>2. PICK rest : rest = Last(Popped(maven))
  OBVIOUS
<1>3. /\ rest \in MavenAccs
      /\ rest.tree = Module.tree /\ rest.name = Module.name /\ rest.todo = Tail(Module.todo)
      /\ rest.dirs = Module.dirs /\ \A files : Held(files, rest) = Held(files, Module)
      /\ rest.names = Module.names /\ rest.children = Module.children
      /\ Module.todo \in Seq(Entries) /\ Module.todo # << >>
  BY <1>1, <1>2, ModuleRest
<1>4. PICK acc : acc = [rest EXCEPT !.dirs = Kept(@, Entry.name)]
  OBVIOUS
<1>5. /\ acc.tree = Module.tree /\ acc.name = Module.name /\ acc.todo = Tail(Module.todo)
      /\ acc.dirs = Kept(Module.dirs, Entry.name)
      /\ acc.names = rest.names /\ acc.children = rest.children
  BY <1>3, <1>4 DEF MavenAccs
<1>6. \A files : Held(files, acc) = Held(files, Module)
  BY <1>3, <1>5 DEF Held
<1>7. DirsTaken(Module, acc)
  <2>1. ~PomRead(Head(Module.todo))
    BY <1>1 DEF PomRead, IsPom, Entry
  <2>2. \A name : name # Entry.name => Drained(acc.dirs, name) = Drained(Module.dirs, name)
    BY <1>5, KeptOthers
  <2>3. QED  BY <2>1, <2>2 DEF DirsTaken, Entry
<1>8. DueFirst(java') = Under(Entry.name, JavaBelow(Entry.object))
  <2>1. PICK source : source = JavaAcc(Entry.object, Entry.name)
    OBVIOUS
  <2>2. source.name = Entry.name /\ source.tree = Entry.object
    BY <2>1 DEF JavaAcc
  <2>3. <<source>> # << >> /\ <<source>>[1] = source
    OBVIOUS
  <2>4. QED  BY <1>1, <2>1, <2>2, <2>3 DEF DueFirst, Gets
<1>9. ASSUME NEW w \in W, OfRole(w, Module, At), w.rest = path
      PROVE  Gives(w, Entry, value) = JavaBelow(Entry.object)
  <2>1. w.op = Request.op
    BY <1>9 DEF OfRole, At
  <2>2. w.op = "java" \/ << >> \in DirsOf(w, Entry)
    <3>1. PICK mod : mod = Module
      OBVIOUS
    <3>2. PICK at : at = At
      OBVIOUS
    <3>3. /\ mod.todo \in Seq(Entries) /\ mod.todo # << >> /\ OfRole(w, mod, at)
          /\ at.op = Request.op /\ at.rest = << >> /\ IsTree(Head(mod.todo))
      BY <1>1, <1>3, <1>9, <3>1, <3>2 DEF At, Entry
    <3>4. at.op # "java" => Drained(mod.dirs, Head(mod.todo).name) = DirsOf(w, Head(mod.todo))
      BY <3>3, DirsKnown
    <3>5. QED  BY <1>1, <2>1, <3>1, <3>3, <3>4 DEF Entry
  <2>3. ~Descends(w, Entry) /\ SourcesAt(w, Entry)
    BY <1>1, <1>9, <2>2 DEF Descends, SourcesAt
  <2>4. QED  BY <2>3 DEF Gives
<1>10. PICK got : got = {}
  OBVIOUS
<1>11. \A w \in W : OfRole(w, Module, At) /\ w.rest = path =>
         Under(Entry.name, Gives(w, Entry, value)) = got \cup DueFirst(java')
  BY <1>8, <1>9, <1>10
<1>12. Held(AstFiles', acc) = Held(AstFiles', Module) \cup got
  BY <1>6, <1>10
<1>13. maven' = OnTop(maven, acc)
  BY <1>2, <1>4 DEF EnterSources
<1>14. StackWhole(W, value)'
  BY <1>1, <1>5, <1>7, <1>11, <1>12, <1>13, EntryDone DEF WholeModules
<1>15. QED  BY <1>1, <1>14, NothingMade

(* A pom.xml is the only file it gives.                                    *)
LEMMA PomDone ==
  ASSUME Inv(FALSE), Inv(FALSE)', Grows(nodes, nodes'), NEW W, NEW value,
         StackWhole(W, value), AtPom, Entry.object \notin Unreadable,
         UNCHANGED <<session, path, java>>,
         NEW id \in Nat, AstFiles'[id] = Single(Entry.object),
         maven' = OnTop(maven, PushPom(Last(Popped(maven)), id))
  PROVE  StackWhole(W, value)'
<1>1. /\ Exploring /\ Request.op # "java" /\ path = << >> /\ ~IsTree(Entry)
      /\ Entry.name = "pom.xml" /\ PomRead(Entry)
  BY DEF AtPom, IsPom, PomRead
<1>2. PICK rest : rest = Last(Popped(maven))
  OBVIOUS
<1>3. /\ rest \in MavenAccs /\ Listed(nodes, rest)
      /\ rest.tree = Module.tree /\ rest.name = Module.name /\ rest.todo = Tail(Module.todo)
      /\ \A files : Held(files, rest) = Held(files, Module)
      /\ java = << >>
  BY <1>1, <1>2, ModuleRest
<1>4. PICK files : files = AstFiles'
  OBVIOUS
<1>5. PICK acc : acc = PushPom(rest, id)
  OBVIOUS
<1>6. /\ acc.tree = Module.tree /\ acc.name = Module.name /\ acc.todo = Tail(Module.todo)
      /\ acc.dirs = SourceDirs
      /\ Held(files, acc) = Held(files, Module) \cup Under("pom.xml", files[id])
  BY <1>3, <1>5, PomPushedWhole
<1>7. DirsTaken(Module, acc)
  BY <1>1, <1>6 DEF DirsTaken, Entry
<1>8. PICK got : got = Under("pom.xml", files[id])
  OBVIOUS
<1>9. ASSUME NEW w \in W, OfRole(w, Module, At), w.rest = path
      PROVE  Gives(w, Entry, value) = Single(Entry.object)
  <2>1. w.op # "java" /\ w.rest = << >>
    BY <1>1, <1>9 DEF OfRole, At
  <2>2. QED  BY <1>1, <2>1 DEF Gives, Descends, SourcesAt
<1>10. \A w \in W : OfRole(w, Module, At) /\ w.rest = path =>
         Under(Entry.name, Gives(w, Entry, value)) = got \cup DueFirst(java')
  BY <1>1, <1>3, <1>4, <1>8, <1>9, NothingDue
<1>11. Held(AstFiles', acc) = Held(AstFiles', Module) \cup got
  BY <1>4, <1>6, <1>8
<1>12. maven' = OnTop(maven, acc)
  BY <1>2, <1>5
<1>13. QED  BY <1>1, <1>6, <1>7, <1>10, <1>11, <1>12, EntryDone

LEMMA ReusePomModules ==
  ASSUME Inv(FALSE), Inv(FALSE)', NEW W, NEW value, WholeModules(W, value), ReusePom
  PROVE  WholeModules(W, value)'
<1>1. /\ AtPom /\ Grows(nodes, nodes') /\ UNCHANGED nodes
      /\ Entry.object \in DOMAIN objectMapPom
      /\ maven' = OnTop(maven, PushPom(Last(Popped(maven)), objectMapPom[Entry.object]))
      /\ UNCHANGED <<session, path, java, objectMap, objectMapPom, commits>>
  BY DEF ReusePom, caches, Grows
<1>2. PICK id : id = objectMapPom[Entry.object]
  OBVIOUS
<1>3. id \in Nat /\ Entry.object \notin Unreadable /\ AstFiles'[id] = Single(Entry.object)
  <2>1. id \in DOMAIN nodes
    BY <1>1, <1>2 DEF Inv, MapsOK
  <2>2. AstFiles' = AstFiles
    BY <1>1 DEF AstFiles
  <2>3. QED
    BY <1>1, <1>2, <2>1, <2>2, LenProperties
       DEF Inv, NodesOK, WholeModules, MapsWhole, PomsWhole
<1>4. StackWhole(W, value)'
  BY <1>1, <1>2, <1>3, PomDone DEF WholeModules
<1>5. QED  BY <1>1, <1>4, NothingMade

LEMMA GeneratePomModules ==
  ASSUME Inv(FALSE), Inv(FALSE)', NEW W, NEW value, WholeModules(W, value), GeneratePom
  PROVE  WholeModules(W, value)'
<1> DEFINE node == FileNode(Entry.name, Entry.object)
<1>1. PICK id : id = IdOf(nodes, node)
  OBVIOUS
<1>2. /\ AtPom /\ Exploring /\ ~IsTree(Entry) /\ Entry.object \notin Unreadable
      /\ nodes' = Interned(nodes, node)
      /\ objectMapPom' = With(objectMapPom, Entry.object, id)
      /\ maven' = OnTop(maven, PushPom(Last(Popped(maven)), id))
      /\ UNCHANGED <<session, path, java, objectMap, commits>>
  BY <1>1 DEF GeneratePom, AtPom, IsPom
<1>3. /\ Grows(nodes, nodes') /\ id \in Nat /\ nodes'[id] = node /\ id \in DOMAIN nodes'
  BY <1>1, <1>2, AtEntry, FileInterned DEF Inv
<1>4. AstFiles'[id] = Single(Entry.object)
  <2>1. FileTable(nodes', AstFiles')
    BY <1>3, AstFilesStay
  <2>2. node.kind = "file" /\ node.blob = Entry.object
    BY DEF FileNode
  <2> HIDE DEF node
  <2>3. QED  BY <1>3, <2>1, <2>2 DEF FileTable
<1>5. StackWhole(W, value)'
  BY <1>2, <1>3, <1>4, PomDone DEF WholeModules
<1>6. PICK files : files = AstFiles'
  OBVIOUS
<1>7. /\ MapWhole(W, value, files, objectMap) /\ PomsWhole(files, objectMapPom)
      /\ CommitsWhole(files, commits)
  BY <1>3, <1>6, MapsWholeStay DEF WholeModules
<1>8. PomsWhole(files, objectMapPom')
  BY <1>2, <1>4, <1>6, <1>7 DEF PomsWhole, With
<1>9. MapsWhole(W, value)'
  BY <1>2, <1>6, <1>7, <1>8 DEF MapsWhole
<1>10. QED  BY <1>2, <1>5, <1>9 DEF WholeModules

LEMMA EnterDirectoryModules ==
  ASSUME Inv(FALSE), Inv(FALSE)', NEW W, NEW value, WholeModules(W, value), EnterDirectory
  PROVE  WholeModules(W, value)'
<1>1. /\ Exploring /\ Grows(nodes, nodes') /\ IsTree(Entry) /\ path = << >>
      /\ Request.op # "java" /\ << >> \notin Drained(Module.dirs, Entry.name)
      /\ Request.op = "single" => Drained(Module.dirs, Entry.name) # {}
      /\ UNCHANGED <<session, path, java, objectMap, objectMapPom, commits>>
  BY DEF EnterDirectory, ToExplore, caches, Grows
<1>2. PICK rest : rest = Last(Popped(maven))
  OBVIOUS
<1>3. /\ rest \in MavenAccs
      /\ rest.tree = Module.tree /\ rest.name = Module.name /\ rest.todo = Tail(Module.todo)
      /\ rest.dirs = Module.dirs
      /\ rest.names = Module.names /\ rest.children = Module.children
      /\ Module.todo \in Seq(Entries) /\ Module.todo # << >> /\ java = << >>
      /\ maven # << >>
  BY <1>1, <1>2, ModuleRest
<1>4. PICK acc : acc = [rest EXCEPT !.dirs = Kept(@, Entry.name)]
  OBVIOUS
<1>5. PICK dirs : dirs = Drained(Module.dirs, Entry.name)
  OBVIOUS
<1>6. PICK deeper : deeper = MavenAcc(Entry.object, Entry.name, path, dirs)
  OBVIOUS
<1>7. maven' = Append(OnTop(maven, acc), deeper)
  BY <1>2, <1>4, <1>5, <1>6 DEF EnterDirectory
<1>8. /\ acc.tree = Module.tree /\ acc.name = Module.name /\ acc.todo = Tail(Module.todo)
      /\ acc.dirs = Kept(Module.dirs, Entry.name)
      /\ acc.names = Module.names /\ acc.children = Module.children
  BY <1>3, <1>4 DEF MavenAccs
<1>9. PICK files : files = AstFiles'
  OBVIOUS
<1>10. PICK at : at = At
  OBVIOUS
<1>11. /\ ModulesBelow(W, value, files, at, maven)
       /\ ModuleWhole(W, value, files, at, Module, {})
       /\ maven[1].tree = Request.tree /\ maven \in Seq(MavenAccs) /\ Module = Last(maven)
  BY <1>1, <1>3, <1>9, <1>10, StackRead, NothingDue DEF WholeModules
<1>12. PICK mod : mod = Module
  OBVIOUS
<1>13. PICK w \in W : /\ OfRole(w, mod, at)
                      /\ Held(files, mod) \cup LeftOf(w, value, mod) = value[mod.tree]
  BY <1>11, <1>12 DEF ModuleWhole
<1>14. /\ at.op = Request.op /\ at.rest = << >> /\ w.op = Request.op /\ w.rest = << >>
       /\ mod.todo \in Seq(Entries) /\ mod.todo # << >> /\ Head(mod.todo) = Entry
  BY <1>1, <1>3, <1>10, <1>12, <1>13 DEF OfRole, At, Entry
<1>15. dirs = DirsOf(w, Entry)
  BY <1>1, <1>5, <1>12, <1>13, <1>14, DirsKnown
<1>16. Descends(w, Entry)
  BY <1>1, <1>5, <1>14, <1>15 DEF Descends
<1>17. Entry \in Range(w.tree)
  <2>1. Entry \in Range(mod.todo)
    BY <1>14, TailRange
  <2>2. QED  BY <1>13, <2>1 DEF OfRole
<1>18. Deeper(w, Entry) \in W
  BY <1>16, <1>17 DEF WholeModules, Consistent
<1>19. OfRole(w, acc, at)
  <2>1. DirsTaken(mod, acc)
    <3>1. ~PomRead(Head(mod.todo))
      BY <1>1, <1>14 DEF PomRead, IsPom
    <3>2. \A name : name # Entry.name => Drained(acc.dirs, name) = Drained(mod.dirs, name)
      BY <1>8, <1>12, KeptOthers
    <3>3. QED  BY <1>14, <3>1, <3>2 DEF DirsTaken
  <2>2. acc.tree = mod.tree /\ acc.todo = Tail(mod.todo)
    BY <1>8, <1>12
  <2>3. QED  BY <1>13, <1>14, <2>1, <2>2, RoleTaken
<1>20. deeper.tree = Entry.object /\ deeper.name = Entry.name
  BY <1>6 DEF MavenAcc
<1>21. ModuleWhole(W, value, files, at, acc, ModuleGets(value, deeper))
  <2>1. Held(files, acc) = Held(files, mod)
    BY <1>8, <1>12 DEF Held
  <2>2. LeftOf(w, value, mod) =
          Under(Head(mod.todo).name, Gives(w, Head(mod.todo), value))
            \cup LeftOf(w, value, acc)
    BY <1>8, <1>12, <1>14, LeftTaken
  <2>3. Gives(w, Entry, value) = value[Entry.object]
    BY <1>16 DEF Gives
  <2>4. ModuleGets(value, deeper) = Under(Entry.name, value[Entry.object])
    BY <1>20 DEF ModuleGets
  <2>5. Held(files, acc) \cup LeftOf(w, value, acc) \cup ModuleGets(value, deeper)
          = value[acc.tree]
    BY <1>8, <1>12, <1>13, <1>14, <2>1, <2>2, <2>3, <2>4
  <2>6. QED  BY <1>19, <2>5 DEF ModuleWhole
<1>22. ModuleWhole(W, value, files, at, deeper, {})
  <2>1. PICK v \in W : v = Deeper(w, Entry)
    BY <1>18
  <2>2. v.tree = Entry.object /\ v.rest = << >> /\ v.dirs = dirs /\ v.op = w.op
    BY <1>14, <1>15, <2>1 DEF Deeper
  <2>3. v.tree \in Trees /\ at.op = v.op /\ at.rest = v.rest
    BY <1>1, <1>14, <2>2, AtEntry
  <2>4. PICK name : name = Entry.name
    OBVIOUS
  <2>5. deeper = MavenAcc(v.tree, name, v.rest, v.dirs)
    BY <1>1, <1>6, <2>2, <2>4
  <2>6. Consistent(W, value)
    BY DEF WholeModules
  <2>7. QED  BY <2>3, <2>5, <2>6, ModuleStarts
<1>23. /\ ModulesWhole(W, value, files, at, maven', {})
       /\ maven'[1].tree = maven[1].tree
  <2>1. PICK due : due = {}
    OBVIOUS
  <2>2. acc.tree = Last(maven).tree /\ acc.name = Last(maven).name
    BY <1>8, <1>11
  <2>3. /\ Append(OnTop(maven, acc), deeper)[1].tree = maven[1].tree
        /\ ModulesWhole(W, value, files, at, Append(OnTop(maven, acc), deeper), due)
    BY <1>3, <1>11, <1>14, <1>21, <1>22, <2>1, <2>2, ModulesChange
  <2>4. QED  BY <1>7, <2>1, <2>3
<1>24. StackWhole(W, value)'
  <2>1. At' = at /\ Request' = Request /\ DueFirst(java') = {}
    BY <1>1, <1>3, <1>10, NothingDue DEF At, Request
  <2>2. QED  BY <1>9, <1>11, <1>23, <2>1 DEF StackWhole
<1>25. QED  BY <1>1, <1>24, NothingMade

(* Nothing else of a directory that dir_path goes through is looked at.    *)
LEMMA ForwardToModuleModules ==
  ASSUME Inv(FALSE), Inv(FALSE)', NEW W, NEW value, WholeModules(W, value), ForwardToModule
  PROVE  WholeModules(W, value)'
<1>1. /\ Exploring /\ Grows(nodes, nodes') /\ IsTree(Entry) /\ path # << >>
      /\ Entry.name = Head(path) /\ path' = Tail(path)
      /\ UNCHANGED <<session, java, objectMap, objectMapPom, commits>>
  BY DEF ForwardToModule, caches, Grows
<1>2. /\ Module \in MavenAccs /\ Module.todo \in Seq(Entries) /\ Module.todo # << >>
      /\ java = << >> /\ maven # << >>
  BY <1>1, ModuleRest
<1>3. PICK acc : acc = [Module EXCEPT !.todo = << >>]
  OBVIOUS
<1>4. PICK rest : rest = Tail(path)
  OBVIOUS
<1>5. PICK deeper : deeper = MavenAcc(Entry.object, Entry.name, rest, {})
  OBVIOUS
<1>6. maven' = Append(OnTop(maven, acc), deeper)
  BY <1>1, <1>3, <1>4, <1>5 DEF ForwardToModule
<1>7. /\ acc.tree = Module.tree /\ acc.name = Module.name /\ acc.todo = << >>
      /\ acc.names = Module.names /\ acc.children = Module.children
  BY <1>2, <1>3 DEF MavenAccs
<1>8. PICK files : files = AstFiles'
  OBVIOUS
<1>9. PICK at : at = At
  OBVIOUS
<1>10. PICK at2 : at2 = [op |-> Request.op, rest |-> rest]
  OBVIOUS
<1>11. /\ ModulesBelow(W, value, files, at, maven)
       /\ ModuleWhole(W, value, files, at, Module, {})
       /\ maven[1].tree = Request.tree /\ maven \in Seq(MavenAccs) /\ Module = Last(maven)
  BY <1>1, <1>2, <1>8, <1>9, StackRead, NothingDue DEF WholeModules
<1>12. PICK mod : mod = Module
  OBVIOUS
<1>13. PICK w \in W : /\ OfRole(w, mod, at)
                      /\ Held(files, mod) \cup LeftOf(w, value, mod) = value[mod.tree]
  BY <1>11, <1>12 DEF ModuleWhole
<1>14. /\ at.op = Request.op /\ at.rest = path /\ w.op = Request.op /\ w.rest = path
       /\ at2.op = Request.op /\ at2.rest = rest
       /\ mod.todo \in Seq(Entries) /\ mod.todo # << >> /\ Head(mod.todo) = Entry
  BY <1>2, <1>9, <1>10, <1>12, <1>13 DEF OfRole, At, Entry
<1>15. Descends(w, Entry) /\ w.rest # << >>
  BY <1>1, <1>14 DEF Descends
<1>16. Entry \in Range(w.tree)
  <2>1. Entry \in Range(mod.todo)
    BY <1>14, TailRange
  <2>2. QED  BY <1>13, <2>1 DEF OfRole
<1>17. Deeper(w, Entry) \in W
  BY <1>15, <1>16 DEF WholeModules, Consistent
<1>18. deeper.tree = Entry.object /\ deeper.name = Entry.name
  BY <1>5 DEF MavenAcc
<1>19. OfRole(w, acc, at2)
  <2>1. Range(<< >>) = {} /\ DOMAIN << >> = {}
    BY DEF Range
  <2>2. w.tree = acc.tree /\ w.op = at2.op
    BY <1>7, <1>12, <1>13, <1>14 DEF OfRole
  <2>3. QED  BY <1>7, <2>1, <2>2 DEF OfRole, Distinct, Steady
<1>20. ModuleWhole(W, value, files, at2, acc, ModuleGets(value, deeper))
  <2>1. Held(files, acc) = Held(files, mod)
    BY <1>7, <1>12 DEF Held
  <2>2. PICK more : more = [mod EXCEPT !.todo = Tail(@)]
    OBVIOUS
  <2>3. more.todo = Tail(mod.todo)
    BY <1>2, <1>12, <2>2 DEF MavenAccs
  <2>4. LeftOf(w, value, mod) =
          Under(Head(mod.todo).name, Gives(w, Head(mod.todo), value))
            \cup LeftOf(w, value, more)
    BY <1>14, <2>3, LeftTaken
  <2>5. LeftOf(w, value, more) = {} /\ LeftOf(w, value, acc) = {}
    <3>1. Distinct(mod.todo)
      BY <1>13 DEF OfRole
    <3>2. \A e \in Range(more.todo) : e.name # Entry.name
      BY <1>14, <2>3, <3>1, DistinctTail
    <3>3. \A e \in Range(more.todo) : Gives(w, e, value) = {}
      BY <1>1, <1>14, <1>15, <3>2 DEF Gives, Descends, SourcesAt
    <3>4. Range(<< >>) = {}
      BY DEF Range
    <3>5. LeftOf(w, value, more) = {}
      BY <3>3, NothingDue DEF LeftOf
    <3>6. QED  BY <1>7, <3>4, <3>5 DEF LeftOf
  <2>6. Gives(w, Entry, value) = value[Entry.object]
    BY <1>15 DEF Gives
  <2>7. ModuleGets(value, deeper) = Under(Entry.name, value[Entry.object])
    BY <1>18 DEF ModuleGets
  <2>8. Held(files, acc) \cup LeftOf(w, value, acc) \cup ModuleGets(value, deeper)
          = value[acc.tree]
    BY <1>7, <1>12, <1>13, <1>14, <2>1, <2>4, <2>5, <2>6, <2>7
  <2>9. QED  BY <1>19, <2>8 DEF ModuleWhole
<1>21. ModuleWhole(W, value, files, at2, deeper, {})
  <2>1. PICK v \in W : v = Deeper(w, Entry)
    BY <1>17
  <2>2. v.tree = Entry.object /\ v.rest = rest /\ v.dirs = {} /\ v.op = w.op
    BY <1>4, <1>14, <1>15, <2>1 DEF Deeper
  <2>3. v.tree \in Trees /\ at2.op = v.op /\ at2.rest = v.rest
    BY <1>1, <1>14, <2>2, AtEntry
  <2>4. PICK name : name = Entry.name
    OBVIOUS
  <2>5. deeper = MavenAcc(v.tree, name, v.rest, v.dirs)
    BY <1>5, <2>2, <2>4
  <2>6. Consistent(W, value)
    BY DEF WholeModules
  <2>7. QED  BY <2>3, <2>5, <2>6, ModuleStarts
<1>22. ModulesBelow(W, value, files, at2, maven)
  BY <1>1, <1>11, <1>14, ModulesForward
<1>23. /\ ModulesWhole(W, value, files, at2, maven', {})
       /\ maven'[1].tree = maven[1].tree
  <2>1. PICK due : due = {}
    OBVIOUS
  <2>2. acc.tree = Last(maven).tree /\ acc.name = Last(maven).name
    BY <1>7, <1>11
  <2>3. /\ Append(OnTop(maven, acc), deeper)[1].tree = maven[1].tree
        /\ ModulesWhole(W, value, files, at2, Append(OnTop(maven, acc), deeper), due)
    BY <1>2, <1>7, <1>11, <1>20, <1>21, <1>22, <2>1, <2>2, ModulesChange
  <2>4. QED  BY <1>6, <2>1, <2>3
<1>24. StackWhole(W, value)'
  <2>1. At' = at2 /\ Request' = Request /\ DueFirst(java') = {}
    BY <1>1, <1>2, <1>4, <1>10, NothingDue DEF At, Request
  <2>2. QED  BY <1>8, <1>11, <1>23, <2>1 DEF StackWhole
<1>25. QED  BY <1>1, <1>24, NothingMade

LEMMA HandleCommitModules ==
  ASSUME Inv(FALSE), Inv(FALSE)', NEW W, NEW value, WholeModules(W, value), HandleCommit
  PROVE  WholeModules(W, value)'
<1>1. /\ Grows(nodes, nodes') /\ session # << >> /\ maven = << >> /\ path' = Request.path
      /\ maven' = <<MavenAcc(Request.tree, "", Request.path, {})>>
      /\ UNCHANGED <<session, java, objectMap, objectMapPom, commits>>
  BY DEF HandleCommit, caches, Grows
<1>2. Request \in Range(session) /\ Request.tree \in Trees /\ java = << >>
  <2>1. session \in Seq(Requests)
    BY DEF Inv
  <2>2. Request \in Range(session) /\ Request \in Requests
    BY <1>1, <2>1, TailRange, TailSeq DEF Request
  <2>3. QED  BY <1>1, <2>2 DEF Requests, Inv
<1>3. PICK r : r = Request
  OBVIOUS
<1>4. PICK w \in W : w = Occurrence(r)
  BY <1>2, <1>3 DEF WholeModules, Meant
<1>5. w.tree = r.tree /\ w.rest = r.path /\ w.dirs = {} /\ w.op = r.op
  BY <1>4 DEF Occurrence
<1>6. PICK at : at = [op |-> r.op, rest |-> r.path]
  OBVIOUS
<1>7. at.op = w.op /\ at.rest = w.rest /\ w.tree \in Trees
  BY <1>2, <1>3, <1>5, <1>6
<1>8. PICK name : name = ""
  OBVIOUS
<1>9. PICK root : root = MavenAcc(w.tree, name, w.rest, w.dirs)
  OBVIOUS
<1>10. PICK files : files = AstFiles'
  OBVIOUS
<1>11. Consistent(W, value)
  BY DEF WholeModules
<1>12. ModuleWhole(W, value, files, at, root, {})
  BY <1>7, <1>9, <1>11, ModuleStarts
<1>13. maven' = <<root>> /\ root.tree = r.tree
  BY <1>1, <1>3, <1>5, <1>8, <1>9 DEF MavenAcc
<1>14. ModulesWhole(W, value, files, at, <<root>>, {}) /\ <<root>>[1].tree = r.tree
  <2>1. DOMAIN <<root>> = {1} /\ Len(<<root>>) = 1 /\ <<root>>[1] = root
    OBVIOUS
  <2>2. Last(<<root>>) = root /\ DOMAIN <<root>> \ {Len(<<root>>)} = {}
    BY <2>1 DEF Last
  <2>3. QED  BY <1>12, <1>13, <2>1, <2>2 DEF ModulesWhole, ModulesBelow
<1>15. StackWhole(W, value)'
  <2>1. Request' = r /\ DueFirst(java') = {}
    BY <1>1, <1>2, <1>3, NothingDue DEF Request
  <2>2. At' = at
    BY <1>1, <1>3, <1>6, <2>1 DEF At
  <2>3. QED  BY <1>10, <1>13, <1>14, <2>1, <2>2 DEF StackWhole
<1>16. QED  BY <1>1, <1>15, NothingMade

(* The entity of a module has the files of its tree, that of a commit what *)
(* the request wants.                                                      *)
LEMMA CommitModuleModules ==
  ASSUME Inv(FALSE), Inv(FALSE)', NEW W, NEW value, WholeModules(W, value), CommitModule
  PROVE  WholeModules(W, value)'
<1> DEFINE node == DirNode("MavenDirectory", Module, Much)
<1>1. PICK id : id = Len(nodes) + 1
  OBVIOUS
<1>2. PICK below : below = Front(maven)
  OBVIOUS
<1>3. /\ nodes' = Append(nodes, node) /\ Module.todo = << >>
      /\ maven # << >> /\ java = << >>
      /\ objectMap' = With(objectMap, Module.tree, id)
      /\ maven' = IF below = << >> THEN << >>
                  ELSE OnTop(below, PushChild(Last(below), Module.name, id))
      /\ IF below = << >>
         THEN /\ commits' = Append(commits, [request |-> Request, root |-> id])
              /\ session' = Tail(session)
         ELSE UNCHANGED <<commits, session>>
      /\ UNCHANGED <<path, java, objectMapPom>>
  BY <1>1, <1>2 DEF CommitModule, InMaven
<1>4. Grows(nodes, nodes')
  BY EntitiesStay DEF Step
<1>5. /\ FileTable(nodes', AstFiles')
  BY <1>4, AstFilesStay
<1>6. id \in Nat /\ id \in DOMAIN nodes' /\ nodes'[id] = node
  <2>1. PICK n : n = node
    OBVIOUS
  <2>2. nodes \in Seq(Entities \cup {n})
    BY Wider DEF Inv, NodesOK
  <2>3. n \in Entities \cup {n} /\ Len(nodes) \in Nat
    BY <2>2
  <2>4. PICK S : S = Entities \cup {n}
    OBVIOUS
  <2>5. nodes \in Seq(S) /\ n \in S
    BY <2>2, <2>3, <2>4
  <2>6. DOMAIN Append(nodes, n) = DOMAIN nodes \cup {Len(nodes) + 1}
        /\ Append(nodes, n)[Len(nodes) + 1] = n
    BY <2>5, StackPush
  <2>7. QED  BY <1>1, <1>3, <2>1, <2>3, <2>6
<1>7. PICK files : files = AstFiles'
  OBVIOUS
<1>8. PICK at : at = At
  OBVIOUS
<1>9. /\ ModulesBelow(W, value, files, at, maven)
      /\ ModuleWhole(W, value, files, at, Module, {})
      /\ maven[1].tree = Request.tree /\ maven \in Seq(MavenAccs) /\ Module = Last(maven)
      /\ Module \in MavenAccs /\ Listed(nodes, Module)
  BY <1>3, <1>4, <1>7, <1>8, StackRead, NothingDue DEF WholeModules
<1>10. PICK mod \in MavenAccs : mod = Module
  BY <1>9
<1>11. files[id] = value[mod.tree] /\ \E w \in W : w.tree = mod.tree
  <2>1. /\ node.kind = "MavenDirectory" /\ node.children = mod.children
        /\ node.names = mod.names
    BY <1>10 DEF DirNode
  <2> HIDE DEF node
  <2>2. Held(files, node) = Held(files, mod)
    BY <2>1 DEF Held
  <2>3. files[id] = Held(files, node)
    BY <1>5, <1>6, <1>7, <2>1 DEF FileTable
  <2>4. PICK w \in W : /\ OfRole(w, mod, at)
                       /\ Held(files, mod) \cup LeftOf(w, value, mod) = value[mod.tree]
    BY <1>9, <1>10 DEF ModuleWhole
  <2>5. LeftOf(w, value, mod) = {}
    <3>1. Range(<< >>) = {}
      BY DEF Range
    <3>2. QED  BY <1>3, <1>10, <3>1 DEF LeftOf
  <2>6. QED  BY <2>2, <2>3, <2>4, <2>5 DEF OfRole
<1>12. /\ MapWhole(W, value, files, objectMap) /\ PomsWhole(files, objectMapPom)
       /\ CommitsWhole(files, commits)
  BY <1>4, <1>7, MapsWholeStay DEF WholeModules
<1>13. MapWhole(W, value, files, objectMap')
  BY <1>3, <1>10, <1>11, <1>12 DEF MapWhole, With
<1>14. /\ below # << >> =>
            /\ ModulesBelow(W, value, files, at, below) /\ below[1] = maven[1]
            /\ ModuleWhole(W, value, files, at, Last(below), ModuleGets(value, mod))
       /\ below = << >> => mod = maven[1]
  BY <1>2, <1>3, <1>9, <1>10, ModulesPop
<1>15. CASE below = << >>
  <2>1. maven' = << >> /\ session' = Tail(session)
        /\ commits' = Append(commits, [request |-> Request, root |-> id])
    BY <1>3, <1>15
  <2>2. session # << >> /\ session \in Seq(Requests)
    BY <1>3 DEF Inv
  <2>3. Meant(W, value, session')
    <3>1. Range(session') \subseteq Range(session)
      BY <2>1, <2>2, TailRange
    <3>2. QED  BY <3>1 DEF WholeModules, Meant
  <2>4. value[Request.tree] = WantedFiles(Request)
    <3>1. Request \in Range(session)
      BY <2>2, TailRange DEF Request
    <3>2. QED  BY <3>1 DEF WholeModules, Meant
  <2>5. CommitsWhole(files, commits')
    <3>1. PICK c : c = [request |-> Request, root |-> id]
      OBVIOUS
    <3>2. c.root = id /\ c.request = Request
      BY <3>1
    <3>3. PICK S : S = [request : Requests, root : Nat] \cup {c}
      OBVIOUS
    <3>4. commits \in Seq(S) /\ c \in S
      <4>1. commits \in Seq([request : Requests, root : Nat] \cup {c})
        BY Wider DEF Inv, CommitsOK
      <4>2. QED  BY <3>3, <4>1
    <3>5. Last(Append(commits, c)) = c
      <4>1. /\ Append(commits, c) \in Seq(S) /\ Append(commits, c) # << >>
            /\ Len(Append(commits, c)) = Len(commits) + 1
            /\ Append(commits, c)[Len(commits) + 1] = c
        BY <3>4, StackPush
      <4>2. QED  BY <4>1, TopIn
    <3>6. mod.tree = Request.tree
      BY <1>9, <1>14, <1>15
    <3>7. files[id] = WantedFiles(Request)
      BY <1>11, <2>4, <3>6
    <3>8. commits' = Append(commits, c)
      BY <2>1, <3>1
    <3>9. QED  BY <3>2, <3>5, <3>7, <3>8 DEF CommitsWhole
  <2>6. MapsWhole(W, value)'
    BY <1>3, <1>7, <1>12, <1>13, <2>5 DEF MapsWhole
  <2>7. StackWhole(W, value)'
    BY <2>1 DEF StackWhole
  <2>8. QED  BY <2>3, <2>6, <2>7 DEF WholeModules
<1>16. CASE below # << >>
  <2>1. PICK parent : parent = Last(below)
    OBVIOUS
  <2>2. PICK pushed : pushed = PushChild(parent, mod.name, id)
    OBVIOUS
  <2>3. maven' = OnTop(below, pushed) /\ UNCHANGED <<commits, session>>
    BY <1>3, <1>10, <1>16, <2>1, <2>2
  <2>4. below \in Seq(MavenAccs) /\ parent \in MavenAccs
    BY <1>2, <1>3, <1>9, <1>16, <2>1, StackPop, TopIn
  <2>5. Listed(nodes, parent)
    <3>1. \A d \in DOMAIN below : d \in DOMAIN maven /\ below[d] = maven[d]
      BY <1>2, <1>3, <1>9, StackPop
    <3>2. Len(below) \in DOMAIN below /\ parent = below[Len(below)]
      BY <1>16, <2>1, <2>4, TopIn
    <3>3. QED  BY <3>1, <3>2 DEF Inv, MavenOK
  <2>6. mod.name \in Names
    BY DEF MavenAccs
  <2>7. PICK name \in Names : name = mod.name
    BY <2>6
  <2>8. ModuleWhole(W, value, files, at, parent, Under(name, files[id]))
    BY <1>11, <1>14, <1>16, <2>1, <2>7 DEF ModuleGets
  <2>9. ModuleWhole(W, value, files, at, PushChild(parent, name, id), {})
    BY <1>6, <2>4, <2>5, <2>8, DuePushed
  <2>10. pushed.tree = parent.tree /\ pushed.name = parent.name
         /\ ModuleWhole(W, value, files, at, pushed, {})
    <3>1. pushed = PushChild(parent, name, id)
      BY <2>2, <2>7
    <3>2. QED  BY <1>6, <2>4, <2>5, <2>9, <3>1, ModulePushed
  <2>11. PICK due : due = {}
    OBVIOUS
  <2>12. /\ OnTop(below, pushed)[1].tree = below[1].tree
         /\ ModulesWhole(W, value, files, at, OnTop(below, pushed), due)
    BY <1>14, <1>16, <2>1, <2>4, <2>10, <2>11, ModulesChange
  <2>13. StackWhole(W, value)'
    <3>1. At' = at /\ Request' = Request /\ DueFirst(java') = {}
      BY <1>3, <1>8, <2>3, NothingDue DEF At, Request
    <3>2. QED  BY <1>7, <1>9, <1>14, <1>16, <2>3, <2>11, <2>12, <3>1 DEF StackWhole
  <2>14. MapsWhole(W, value)'
    BY <1>3, <1>7, <1>12, <1>13, <2>3 DEF MapsWhole
  <2>15. QED  BY <2>3, <2>13, <2>14 DEF WholeModules
<1>17. QED  BY <1>15, <1>16

(* Steps in a source directory: the module above waits for its files.      *)
LEMMA SourcesModules ==
  ASSUME Inv(FALSE), Inv(FALSE)', Grows(nodes, nodes'), NEW W, NEW value,
         WholeModules(W, value), DueFirst(java') = DueFirst(java),
         UNCHANGED <<session, path, maven, objectMap, objectMapPom, commits>>
  PROVE  WholeModules(W, value)'
<1>1. PICK files : files = AstFiles'
  OBVIOUS
<1>2. PICK at : at = At
  OBVIOUS
<1>3. PICK due : due = DueFirst(java)
  OBVIOUS
<1>4. maven # << >> =>
        /\ ModulesWhole(W, value, files, at, maven, due)
        /\ maven[1].tree = Request.tree
  <2>1. SUFFICES ASSUME maven # << >>
                 PROVE  ModulesWhole(W, value, files, at, maven, due)
                        /\ maven[1].tree = Request.tree
    OBVIOUS
  <2>2. /\ ModulesBelow(W, value, files, at, maven)
        /\ ModuleWhole(W, value, files, at, Module, DueFirst(java))
        /\ maven[1].tree = Request.tree /\ Module = Last(maven)
    BY <1>1, <1>2, <2>1, StackRead DEF WholeModules
  <2>3. QED  BY <1>3, <2>2 DEF ModulesWhole
<1>5. At' = at /\ Request' = Request /\ DueFirst(java') = due
  BY <1>2, <1>3 DEF At, Request
<1>6. StackWhole(W, value)'
  BY <1>1, <1>4, <1>5 DEF StackWhole
<1>7. QED  BY <1>6, NothingMade

LEMMA CommitPackageModules ==
  ASSUME Inv(FALSE), Inv(FALSE)', Whole, NEW W, NEW value, WholeModules(W, value),
         CommitPackage
  PROVE  WholeModules(W, value)'
<1>1. PICK id : id = Len(nodes) + 1
  OBVIOUS
<1>2. PICK below : below = Front(java)
  OBVIOUS
<1>3. /\ IF below = << >>
         THEN maven' = OnTop(maven, PushChild(Module, Package.name, id))
         ELSE UNCHANGED maven
      /\ UNCHANGED <<session, path, objectMap, objectMapPom, commits>>
  BY <1>1, <1>2 DEF CommitPackage
<1>4. /\ AstFiles'[id] = JavaBelow(Package.tree)
      /\ below # << >> => DueFirst(java') = DueFirst(java)
      /\ below = << >> => DueFirst(java) = Gets(Package) /\ java' = << >>
  BY <1>1, <1>2, CommitPackageWhole
<1>5. /\ Grows(nodes, nodes') /\ id \in Nat /\ Package \in JavaAccs /\ java # << >>
  BY <1>1, PackageMade
<1>6. CASE below # << >>
  BY <1>3, <1>4, <1>5, <1>6, SourcesModules
<1>7. CASE below = << >>
  <2>1. maven # << >>
    BY <1>5 DEF Inv
  <2>2. PICK files : files = AstFiles'
    OBVIOUS
  <2>3. PICK at : at = At
    OBVIOUS
  <2>4. /\ ModulesBelow(W, value, files, at, maven)
        /\ ModuleWhole(W, value, files, at, Module, DueFirst(java))
        /\ maven[1].tree = Request.tree /\ maven \in Seq(MavenAccs) /\ Module = Last(maven)
        /\ Module \in MavenAccs /\ Listed(nodes, Module)
    BY <1>5, <2>1, <2>2, <2>3, StackRead DEF WholeModules
  <2>5. PICK mod \in MavenAccs : mod = Module
    BY <2>4
  <2>6. PICK name \in Names : name = Package.name
    BY <1>5 DEF JavaAccs
  <2>7. ModuleWhole(W, value, files, at, mod, Under(name, files[id]))
    BY <1>4, <1>7, <2>2, <2>4, <2>5, <2>6 DEF Gets
  <2>8. PICK pushed : pushed = PushChild(mod, name, id)
    OBVIOUS
  <2>9. pushed.tree = mod.tree /\ pushed.name = mod.name
        /\ ModuleWhole(W, value, files, at, pushed, {})
    BY <1>5, <2>4, <2>5, <2>7, <2>8, ModulePushed, DuePushed
  <2>10. PICK due : due = {}
    OBVIOUS
  <2>11. maven' = OnTop(maven, pushed)
    BY <1>3, <1>7, <2>5, <2>6, <2>8
  <2>12. /\ OnTop(maven, pushed)[1].tree = maven[1].tree
         /\ ModulesWhole(W, value, files, at, OnTop(maven, pushed), due)
    BY <2>1, <2>4, <2>5, <2>9, <2>10, ModulesChange
  <2>13. StackWhole(W, value)'
    <3>1. At' = at /\ Request' = Request /\ DueFirst(java') = {}
      BY <1>3, <1>4, <1>7, <2>3, NothingDue DEF At, Request
    <3>2. QED  BY <2>2, <2>4, <2>10, <2>11, <2>12, <3>1 DEF StackWhole
  <2>14. QED  BY <1>3, <1>5, <2>13, NothingMade
<1>8. QED  BY <1>6, <1>7

LEMMA WholeModulesStep ==
  ASSUME Inv(FALSE), Inv(FALSE)', Whole, NEW W, NEW value, WholeModules(W, value),
         [Next]_vars
  PROVE  WholeModules(W, value)'
<1>1. CASE UNCHANGED vars \/ ReuseDirectoryPanics \/ ReusePanics
  <2>1. /\ UNCHANGED <<session, path, maven, java, nodes, objectMap, objectMapPom, commits>>
        /\ Grows(nodes, nodes')
    BY <1>1 DEF vars, caches, ReuseDirectoryPanics, ReusePanics, Grows
  <2>2. QED  BY <2>1, SourcesModules
<1>2. CASE IgnoreBlob \/ ReuseItem \/ EnterPackage
  <2>1. DueFirst(java') = DueFirst(java)
    BY <1>2, ReadingWhole
  <2>2. /\ UNCHANGED <<session, path, maven, objectMap, objectMapPom, commits>>
        /\ Grows(nodes, nodes')
    BY <1>2 DEF caches, IgnoreBlob, ReuseItem, EnterPackage, Grows
  <2>3. QED  BY <2>1, <2>2, SourcesModules
<1>3. CASE GenerateJava
  <2>1. DueFirst(java') = DueFirst(java)
    BY <1>3, GenerateJavaWhole
  <2>2. Grows(nodes, nodes')
    BY <1>3, EntitiesStay DEF Step
  <2>3. UNCHANGED <<session, path, maven, objectMap, objectMapPom, commits>>
    BY <1>3 DEF GenerateJava
  <2>4. QED  BY <2>1, <2>2, <2>3, SourcesModules
<1>4. QED
  BY <1>1, <1>2, <1>3, CommitPackageModules, HandleCommitModules, ForwardToModuleModules,
     IgnoreEntryModules, ReuseDirectoryModules, EnterSourcesModules, EnterDirectoryModules,
     ReusePomModules, GeneratePomModules, CommitModuleModules DEF Next, Step

LEMMA WholeModulesBegin ==
  ASSUME Init, NEW W, NEW value, Consistent(W, value), Meant(W, value, session)
  PROVE  WholeModules(W, value)
<1>1. DOMAIN << >> = {}
  OBVIOUS
<1>2. QED
  BY <1>1 DEF Init, WholeModules, StackWhole, MapsWhole, MapWhole, PomsWhole, CommitsWhole

(***************************************************************************)
(* Paths                                                                   *)
(***************************************************************************)

LEMMA PrefixIs ==
  ASSUME NEW S, NEW s \in Seq(S), NEW t \in Seq(S)
  PROVE  IsPrefix(s, t) <=> Len(s) <= Len(t) /\ \A i \in 1 .. Len(s) : s[i] = t[i]
<1>1. Len(s) \in Nat /\ Len(t) \in Nat /\ DOMAIN s = 1 .. Len(s) /\ DOMAIN t = 1 .. Len(t)
  BY LenProperties
<1>2. SUFFICES ASSUME Len(s) <= Len(t)
               PROVE  SubSeq(s, 1, Len(s)) = SubSeq(t, 1, Len(s))
                        <=> \A i \in 1 .. Len(s) : s[i] = t[i]
  BY DEF IsPrefix
<1>3. PICK n \in Nat : n = Len(s)
  BY <1>1
<1>4. (\A i \in 1 .. n : s[i] \in S) /\ (\A i \in 1 .. n : t[i] \in S)
  BY <1>1, <1>2, <1>3, ElementOfSeq
<1>5. 1 \in Int /\ n \in Int /\ (n - 1) + 1 = n /\ \A i \in 1 .. n : (1 + i) - 1 = i
  BY <1>3
<1>6. /\ SubSeq(s, 1, n) \in Seq(S) /\ SubSeq(t, 1, n) \in Seq(S)
      /\ Len(SubSeq(s, 1, n)) = n /\ Len(SubSeq(t, 1, n)) = n
  BY <1>4, <1>5, SubSeqProperties
<1>7. (\A i \in 1 .. n : SubSeq(s, 1, n)[i] = s[i])
  BY <1>4, <1>5, SubSeqProperties
<1>8. (\A i \in 1 .. n : SubSeq(t, 1, n)[i] = t[i])
  BY <1>4, <1>5, SubSeqProperties
<1>9. (\A i \in 1 .. n : s[i] = t[i]) => SubSeq(s, 1, n) = SubSeq(t, 1, n)
  BY <1>6, <1>7, <1>8, SeqEqual
<1>10. QED  BY <1>3, <1>7, <1>8, <1>9

(* Paths below a name.                                                     *)
LEMMA PrefixFirst ==
  ASSUME NEW S, NEW n \in S, NEW m \in S, NEW s \in Seq(S), NEW t \in Seq(S)
  PROVE  /\ IsPrefix(<<n>> \o s, <<m>> \o t) <=> n = m /\ IsPrefix(s, t)
         /\ IsStrictPrefix(<<n>> \o s, <<m>> \o t) <=> n = m /\ IsStrictPrefix(s, t)
<1> DEFINE a == <<n>> \o s
           b == <<m>> \o t
<1>1. /\ a \in Seq(S) /\ Len(a) = Len(s) + 1 /\ a[1] = n
      /\ \A i \in 1 .. Len(s) : a[i + 1] = s[i]
      /\ Head(a) = n /\ Tail(a) = s
  BY NameFirst
<1>2. /\ b \in Seq(S) /\ Len(b) = Len(t) + 1 /\ b[1] = m
      /\ \A i \in 1 .. Len(t) : b[i + 1] = t[i]
      /\ Head(b) = m /\ Tail(b) = t
  BY NameFirst
<1>3. n = m /\ s = t => a = b
  OBVIOUS
<1> HIDE DEF a, b
<1>4. Len(s) \in Nat /\ Len(t) \in Nat
  BY LenProperties
<1>5. IsPrefix(a, b) <=> Len(a) <= Len(b) /\ \A i \in 1 .. Len(a) : a[i] = b[i]
  <2>1. a \in Seq(S) /\ b \in Seq(S)
    BY <1>1, <1>2
  <2>2. QED  BY <2>1, PrefixIs
<1>6. IsPrefix(s, t) <=> Len(s) <= Len(t) /\ \A i \in 1 .. Len(s) : s[i] = t[i]
  BY PrefixIs
<1>7. ASSUME IsPrefix(a, b) PROVE n = m /\ IsPrefix(s, t)
  <2>1. 1 \in 1 .. Len(a) /\ Len(s) <= Len(t)
    BY <1>1, <1>2, <1>4, <1>5, <1>7
  <2>2. ASSUME NEW i \in 1 .. Len(s) PROVE s[i] = t[i]
    <3>1. i + 1 \in 1 .. Len(a) /\ i \in 1 .. Len(t)
      BY <1>1, <1>4, <2>1
    <3>2. a[i + 1] = b[i + 1]
      BY <1>5, <1>7, <3>1
    <3>3. QED  BY <1>1, <1>2, <3>1, <3>2
  <2>3. n = m
    BY <1>1, <1>2, <1>5, <1>7, <2>1
  <2>4. QED  BY <1>6, <2>1, <2>2, <2>3
<1>8. ASSUME n = m, IsPrefix(s, t) PROVE IsPrefix(a, b)
  <2>1. Len(a) <= Len(b) /\ Len(s) <= Len(t)
    BY <1>1, <1>2, <1>4, <1>6, <1>8
  <2>2. ASSUME NEW i \in 1 .. Len(a) PROVE a[i] = b[i]
    <3>1. CASE i = 1
      BY <1>1, <1>2, <1>8, <3>1
    <3>2. CASE i # 1
      <4>1. i - 1 \in 1 .. Len(s) /\ i - 1 \in 1 .. Len(t) /\ (i - 1) + 1 = i
        BY <1>1, <1>4, <2>1, <3>2
      <4>2. s[i - 1] = t[i - 1]
        BY <1>6, <1>8, <4>1
      <4>3. a[(i - 1) + 1] = s[i - 1] /\ b[(i - 1) + 1] = t[i - 1]
        BY <1>1, <1>2, <4>1
      <4>4. QED  BY <4>1, <4>2, <4>3
    <3>3. QED  BY <3>1, <3>2
  <2>3. QED  BY <1>5, <2>1, <2>2
<1>9. a = b <=> n = m /\ s = t
  BY <1>1, <1>2, <1>3
<1>10. QED  BY <1>7, <1>8, <1>9 DEF IsStrictPrefix, a, b

LEMMA PrefixNone ==
  ASSUME NEW S, NEW t \in Seq(S)
  PROVE  /\ IsStrictPrefix(<< >>, t) <=> t # << >>
         /\ ~IsStrictPrefix(t, << >>)
<1>1. << >> \in Seq(S) /\ Len(<< >>) = 0 /\ Len(t) \in Nat
  BY EmptySeq, LenProperties
<1>2. IsPrefix(<< >>, t)
  <2>1. PICK z \in Seq(S) : z = << >>
    BY <1>1
  <2>2. Len(z) <= Len(t) /\ \A i \in 1 .. Len(z) : z[i] = t[i]
    BY <1>1, <2>1
  <2>3. IsPrefix(z, t)
    BY <2>2, PrefixIs
  <2>4. QED  BY <2>1, <2>3
<1>3. IsPrefix(t, << >>) => t = << >>
  <2>1. IsPrefix(t, << >>) => Len(t) <= Len(<< >>)
    BY <1>1, PrefixIs
  <2>2. Len(t) <= 0 => t = << >>
    BY <1>1, EmptySeq
  <2>3. QED  BY <1>1, <2>1, <2>2
<1>4. QED  BY <1>2, <1>3 DEF IsStrictPrefix

\* a path that is not empty is a name and a path
LEMMA FirstAndRest ==
  ASSUME NEW S, NEW s \in Seq(S), s # << >>
  PROVE  Head(s) \in S /\ Tail(s) \in Seq(S) /\ s = <<Head(s)>> \o Tail(s)
<1>1. /\ Head(s) \in S /\ Tail(s) \in Seq(S) /\ Len(Tail(s)) = Len(s) - 1 /\ Head(s) = s[1]
      /\ \A i \in 1 .. Len(Tail(s)) : Tail(s)[i] = s[i + 1]
  BY HeadTailProperties
<1>2. Len(s) \in Nat \ {0}
  BY TopIn
<1> DEFINE b == <<Head(s)>> \o Tail(s)
<1>3. /\ b \in Seq(S) /\ Len(b) = Len(Tail(s)) + 1 /\ b[1] = Head(s)
      /\ \A i \in 1 .. Len(Tail(s)) : b[i + 1] = Tail(s)[i]
  BY <1>1, NameFirst
<1> HIDE DEF b
<1>4. Len(b) = Len(s)
  BY <1>1, <1>2, <1>3
<1>5. ASSUME NEW i \in 1 .. Len(s) PROVE s[i] = b[i]
  <2>1. CASE i = 1
    BY <1>1, <1>3, <2>1
  <2>2. CASE i # 1
    <3>1. i - 1 \in 1 .. Len(Tail(s)) /\ (i - 1) + 1 = i
      BY <1>1, <1>2, <2>2
    <3>2. b[(i - 1) + 1] = Tail(s)[i - 1] /\ Tail(s)[i - 1] = s[(i - 1) + 1]
      BY <1>1, <1>3, <3>1
    <3>3. QED  BY <3>1, <3>2
  <2>3. QED  BY <2>1, <2>2
<1>6. s = b
  BY <1>3, <1>4, <1>5, SeqEqual
<1>7. QED  BY <1>1, <1>6 DEF b

\* where a path that is not empty goes below a name
LEMMA PrefixBelow ==
  ASSUME NEW S, NEW s \in Seq(S), s # << >>, NEW n \in S, NEW t \in Seq(S)
  PROVE  /\ IsStrictPrefix(s, <<n>> \o t) <=> Head(s) = n /\ IsStrictPrefix(Tail(s), t)
         /\ IsPrefix(s, <<n>> \o t) <=> Head(s) = n /\ IsPrefix(Tail(s), t)
<1>1. Head(s) \in S /\ Tail(s) \in Seq(S) /\ s = <<Head(s)>> \o Tail(s)
  BY FirstAndRest
<1>2. PICK m \in S : m = Head(s)
  BY <1>1
<1>3. PICK r \in Seq(S) : r = Tail(s)
  BY <1>1
<1>4. /\ IsStrictPrefix(<<m>> \o r, <<n>> \o t) <=> m = n /\ IsStrictPrefix(r, t)
      /\ IsPrefix(<<m>> \o r, <<n>> \o t) <=> m = n /\ IsPrefix(r, t)
  BY PrefixFirst
<1>5. QED  BY <1>1, <1>2, <1>3, <1>4

LEMMA FrontFirst ==
  ASSUME NEW S, NEW n \in S, NEW p \in Seq(S)
  PROVE  /\ p = << >> => Front(<<n>> \o p) = << >>
         /\ p # << >> => Front(<<n>> \o p) = <<n>> \o Front(p) /\ Front(p) \in Seq(S)
         /\ Front(<<n>> \o p) \in Seq(S)
<1> DEFINE a == <<n>> \o p
<1>1. /\ a \in Seq(S) /\ a # << >> /\ Len(a) = Len(p) + 1 /\ a[1] = n
      /\ \A i \in 1 .. Len(p) : a[i + 1] = p[i]
  BY NameFirst
<1> HIDE DEF a
<1>2. /\ Front(a) \in Seq(S) /\ Len(Front(a)) = Len(a) - 1
      /\ \A d \in DOMAIN Front(a) : Front(a)[d] = a[d]
  BY <1>1, StackPop
<1>3. Len(p) \in Nat
  BY LenProperties
<1>4. Len(Front(a)) = Len(p) /\ DOMAIN Front(a) = 1 .. Len(p)
  BY <1>1, <1>2, <1>3, LenProperties
<1>5. p = << >> => Front(a) = << >>
  <2>1. p = << >> => Len(p) = 0
    BY EmptySeq
  <2>2. Len(Front(a)) = 0 => Front(a) = << >>
    BY <1>2, EmptySeq
  <2>3. QED  BY <1>4, <2>1, <2>2
<1>6. ASSUME p # << >> PROVE Front(a) = <<n>> \o Front(p) /\ Front(p) \in Seq(S)
  <2>1. /\ Front(p) \in Seq(S) /\ Len(Front(p)) = Len(p) - 1
        /\ \A d \in DOMAIN Front(p) : Front(p)[d] = p[d]
    BY <1>6, StackPop
  <2>2. DOMAIN Front(p) = 1 .. Len(p) - 1 /\ Len(p) \in Nat \ {0}
    BY <1>6, <2>1, LenProperties, TopIn
  <2> DEFINE b == <<n>> \o Front(p)
  <2>3. /\ b \in Seq(S) /\ Len(b) = Len(Front(p)) + 1 /\ b[1] = n
        /\ \A i \in 1 .. Len(Front(p)) : b[i + 1] = Front(p)[i]
    BY <2>1, NameFirst
  <2> HIDE DEF b
  <2>4. Len(b) = Len(Front(a))
    BY <1>4, <2>1, <2>2, <2>3
  <2>5. ASSUME NEW i \in 1 .. Len(Front(a)) PROVE Front(a)[i] = b[i]
    <3>1. i \in 1 .. Len(p) /\ Front(a)[i] = a[i]
      BY <1>2, <1>4
    <3>2. CASE i = 1
      BY <1>1, <2>3, <3>1, <3>2
    <3>3. CASE i # 1
      <4>1. /\ i - 1 \in 1 .. Len(Front(p)) /\ (i - 1) + 1 = i /\ i - 1 \in 1 .. Len(p)
            /\ i - 1 \in DOMAIN Front(p)
        BY <2>1, <2>2, <3>1, <3>3
      <4>2. /\ b[(i - 1) + 1] = Front(p)[i - 1] /\ Front(p)[i - 1] = p[i - 1]
            /\ a[(i - 1) + 1] = p[i - 1]
        BY <1>1, <2>1, <2>3, <4>1
      <4>3. QED  BY <3>1, <4>1, <4>2
    <3>4. QED  BY <3>2, <3>3
  <2>6. Front(a) = b
    BY <1>2, <2>3, <2>4, <2>5, SeqEqual
  <2>7. QED  BY <2>1, <2>6 DEF b
<1>7. QED  BY <1>2, <1>5, <1>6 DEF a

(***************************************************************************)
(* What a walk wants of a tree                                             *)
(***************************************************************************)

PathNames == EntryNames \cup STRING \cup {"src", "main", "test", "java"}

\* an entry of a tree and what is in it
Inside(e) == IF IsTree(e) THEN GitFiles[e.object] ELSE Single(e.object)
Put(name, f) == [path |-> <<name>> \o f.path, blob |-> f.blob]

LEMMA InTree ==
  ASSUME NEW t \in Trees
  PROVE  GitFiles[t] = UNION {{Put(e.name, f) : f \in Inside(e)} : e \in Range(t)}
BY GitFilesTypes DEF Layer, Under, Put, Inside, Single

LEMMA PutFacts ==
  ASSUME NEW t \in Trees, NEW e \in Range(t), NEW f \in Inside(e)
  PROVE  /\ e.name \in PathNames /\ f.path \in Seq(PathNames)
         /\ Put(e.name, f).path = <<e.name>> \o f.path /\ Put(e.name, f).blob = f.blob
         /\ IsTree(e) => f.path # << >> /\ Front(f.path) \in Seq(PathNames)
                         /\ Last(Put(e.name, f).path) = Last(f.path)
                         /\ Front(Put(e.name, f).path) = <<e.name>> \o Front(f.path)
         /\ ~IsTree(e) => f.path = << >> /\ f.blob = e.object
                          /\ Last(Put(e.name, f).path) = e.name
                          /\ Front(Put(e.name, f).path) = << >>
<1>1. e.name \in PathNames /\ (IsTree(e) => e.object \in Trees)
  BY EntryTypes DEF PathNames
<1>2. CASE IsTree(e)
  <2>1. f \in Files /\ f.path # << >>
    BY <1>1, <1>2, GitFilesTypes DEF Inside
  <2>2. PICK q \in Seq(EntryNames) : q = f.path
    BY <2>1 DEF Files
  <2>3. q \in Seq(PathNames)
    BY Wider, EntryNames \subseteq PathNames DEF PathNames
  <2>4. PICK p \in Seq(PathNames) : p = f.path
    BY <2>2, <2>3
  <2>5. PICK n \in PathNames : n = e.name
    BY <1>1
  <2>6. p # << >>
    BY <2>1, <2>4
  <2>7. Last(<<n>> \o p) = Last(p)
    BY <2>6, NameFirst
  <2>8. Front(<<n>> \o p) = <<n>> \o Front(p) /\ Front(p) \in Seq(PathNames)
    BY <2>6, FrontFirst
  <2>9. /\ Last(<<e.name>> \o p) = Last(p) /\ Front(<<e.name>> \o p) = <<e.name>> \o Front(p)
        /\ Front(p) \in Seq(PathNames)
    BY <2>5, <2>7, <2>8
  <2>10. Put(e.name, f).path = <<e.name>> \o p /\ Put(e.name, f).blob = f.blob
    BY <2>4 DEF Put
  <2>11. QED  BY <1>1, <1>2, <2>1, <2>4, <2>9, <2>10
<1>3. CASE ~IsTree(e)
  <2>1. PICK p \in Seq(PathNames) : p = << >>
    BY EmptySeq
  <2>2. f = [path |-> p, blob |-> e.object]
    BY <1>3, <2>1 DEF Inside, Single
  <2>3. f.path = p /\ f.blob = e.object
    BY <2>2
  <2>4. PICK n \in PathNames : n = e.name
    BY <1>1
  <2>5. Last(<<n>> \o p) = n
    BY <2>1, NameFirst
  <2>6. Front(<<n>> \o p) = << >>
    BY <2>1, FrontFirst
  <2>7. Last(<<e.name>> \o p) = e.name /\ Front(<<e.name>> \o p) = << >>
    BY <2>4, <2>5, <2>6
  <2>8. Put(e.name, f).path = <<e.name>> \o p /\ Put(e.name, f).blob = f.blob
    BY <2>3 DEF Put
  <2>9. QED  BY <1>1, <1>3, <2>1, <2>3, <2>7, <2>8
<1>4. QED  BY <1>2, <1>3

\* the directories of the tree that a walk makes modules of
TreePoms(op, t) == {f \in Poms(GitFiles[t]) : op = "single" => Front(f.path) = << >>}
ModulesIn(op, t) == {Front(f.path) : f \in TreePoms(op, t)}

(* The files of a tree that a walk gives when some source directories are  *)
(* expected in it.                                                         *)
Sourced(op, t, dirs, p) ==
  \/ \E d \in ModulesIn(op, t), s \in SourceDirs : IsStrictPrefix(d \o s, p)
  \/ \E s \in dirs : IsStrictPrefix(s, p)
Taken(op, t, dirs, f) ==
  /\ f.blob \notin Unreadable
  /\ \/ Last(f.path) = "pom.xml" /\ (op = "single" => Front(f.path) = << >>)
     \/ IsJava(Last(f.path)) /\ Sourced(op, t, dirs, f.path)
FilesOf(op, t, dirs) == {f \in GitFiles[t] : Taken(op, t, dirs, f)}

(* No pom.xml is below the "src" of a module, or where sources are         *)
(* expected.                                                               *)
Laid(t, dirs) ==
  /\ \A f, g \in Poms(GitFiles[t]) : ~IsPrefix(Front(f.path) \o <<"src">>, Front(g.path))
  /\ dirs # {} => Poms(GitFiles[t]) = {}

HasPom(t) == \E e \in Range(t) : PomRead(e)

LEMMA PomsIn ==
  ASSUME NEW t \in Trees
  PROVE  /\ \A e \in Range(t) : IsTree(e) =>
              \A f \in Poms(GitFiles[e.object]) : Put(e.name, f) \in Poms(GitFiles[t])
         /\ \A e \in Range(t) : PomRead(e) =>
              \E f \in Poms(GitFiles[t]) : Front(f.path) = << >>
         /\ \A f \in Poms(GitFiles[t]) :
              \/ HasPom(t) /\ Front(f.path) = << >>
              \/ \E e \in Range(t) : IsTree(e) /\
                   \E g \in Poms(GitFiles[e.object]) : f = Put(e.name, g)
<1>1. \A e \in Range(t) : \A f \in Inside(e) : Put(e.name, f) \in GitFiles[t]
  BY InTree
<1>2. ASSUME NEW e \in Range(t), IsTree(e), NEW f \in Poms(GitFiles[e.object])
      PROVE  Put(e.name, f) \in Poms(GitFiles[t])
  <2>1. f \in Inside(e) /\ f.blob \notin Unreadable /\ Last(f.path) = "pom.xml"
    BY <1>2 DEF Inside, Poms, Readable
  <2>2. /\ Put(e.name, f).blob = f.blob /\ Last(Put(e.name, f).path) = Last(f.path)
    BY <1>2, <2>1, PutFacts
  <2>3. QED  BY <1>1, <2>1, <2>2 DEF Poms, Readable
<1>3. ASSUME NEW e \in Range(t), PomRead(e)
      PROVE  \E f \in Poms(GitFiles[t]) : Front(f.path) = << >>
  <2>1. ~IsTree(e) /\ e.name = "pom.xml" /\ e.object \notin Unreadable
    BY <1>3 DEF PomRead, IsPom
  <2>2. PICK f : f \in Inside(e)
    BY <2>1 DEF Inside, Single
  <2>3. /\ Put(e.name, f).blob = e.object /\ Last(Put(e.name, f).path) = "pom.xml"
        /\ Front(Put(e.name, f).path) = << >>
    BY <2>1, <2>2, PutFacts
  <2>4. Put(e.name, f) \in Poms(GitFiles[t])
    BY <1>1, <2>1, <2>2, <2>3 DEF Poms, Readable
  <2>5. QED  BY <2>3, <2>4
<1>4. ASSUME NEW f \in Poms(GitFiles[t])
      PROVE  \/ HasPom(t) /\ Front(f.path) = << >>
             \/ \E e \in Range(t) : IsTree(e) /\
                  \E g \in Poms(GitFiles[e.object]) : f = Put(e.name, g)
  <2>1. f \in GitFiles[t] /\ f.blob \notin Unreadable /\ Last(f.path) = "pom.xml"
    BY DEF Poms, Readable
  <2>2. PICK e \in Range(t) : \E g \in Inside(e) : f = Put(e.name, g)
    BY <2>1, InTree
  <2>3. PICK g \in Inside(e) : f = Put(e.name, g)
    BY <2>2
  <2>4. CASE IsTree(e)
    <3>1. Last(g.path) = "pom.xml" /\ g.blob \notin Unreadable /\ g \in GitFiles[e.object]
      BY <2>1, <2>3, <2>4, PutFacts DEF Inside
    <3>2. QED  BY <2>3, <2>4, <3>1 DEF Poms, Readable
  <2>5. CASE ~IsTree(e)
    <3>1. /\ e.name = "pom.xml" /\ e.object \notin Unreadable /\ Front(f.path) = << >>
      BY <2>1, <2>3, <2>5, PutFacts
    <3>2. QED  BY <2>5, <3>1 DEF HasPom, PomRead, IsPom
  <2>6. QED  BY <2>4, <2>5
<1>5. QED  BY <1>2, <1>3, <1>4

LEMMA PathsFit ==
  /\ DirPaths \subseteq Seq(PathNames) /\ SourceDirs \subseteq DirPaths
  /\ \A s \in DirPaths : s # << >>
  /\ \A s \in SourceDirs : Head(s) = "src"
  /\ "src" \in PathNames /\ <<"src">> \in Seq(PathNames) /\ <<"src">> # << >>
  /\ << >> \in Seq(PathNames)
<1>1. /\ "src" \in PathNames /\ "main" \in PathNames /\ "test" \in PathNames
      /\ "java" \in PathNames
  BY DEF PathNames
<1>2. PICK S : S = PathNames
  OBVIOUS
<1>3. /\ <<"src", "main", "java">> \in Seq(S) /\ <<"src", "test", "java">> \in Seq(S)
      /\ <<"main", "java">> \in Seq(S) /\ <<"test", "java">> \in Seq(S)
      /\ <<"java">> \in Seq(S) /\ <<"src">> \in Seq(S) /\ << >> \in Seq(S)
  BY <1>1, <1>2
<1>4. /\ <<"src", "main", "java">> # << >> /\ <<"src", "test", "java">> # << >>
      /\ <<"main", "java">> # << >> /\ <<"test", "java">> # << >>
      /\ <<"java">> # << >> /\ <<"src">> # << >>
  OBVIOUS
<1>5. Head(<<"src", "main", "java">>) = "src" /\ Head(<<"src", "test", "java">>) = "src"
  OBVIOUS
<1>6. DirPaths \subseteq Seq(S) /\ \A s \in DirPaths : s # << >>
  BY <1>3, <1>4 DEF DirPaths
<1>7. SourceDirs \subseteq DirPaths
  BY DEF DirPaths, SourceDirs
<1>8. \A s \in SourceDirs : Head(s) = "src"
  BY <1>5 DEF SourceDirs
<1>9. QED  BY <1>1, <1>2, <1>3, <1>4, <1>6, <1>7, <1>8

LEMMA FrontsFit ==
  ASSUME NEW t \in Trees
  PROVE  /\ \A f \in Poms(GitFiles[t]) : Front(f.path) \in Seq(PathNames)
         /\ \A op : ModulesIn(op, t) \subseteq Seq(PathNames)
<1>1. ASSUME NEW f \in Poms(GitFiles[t]) PROVE Front(f.path) \in Seq(PathNames)
  <2>1. f \in Files /\ f.path # << >>
    BY GitFilesTypes DEF Poms, Readable
  <2>2. PICK q \in Seq(EntryNames) : q = f.path
    BY <2>1 DEF Files
  <2>3. q \in Seq(PathNames) /\ q # << >>
    BY <2>1, <2>2, Wider, EntryNames \subseteq PathNames DEF PathNames
  <2>4. PICK n \in PathNames, r \in Seq(PathNames) : q = <<n>> \o r
    BY <2>3, FirstAndRest
  <2>5. QED  BY <2>2, <2>4, FrontFirst
<1>2. QED  BY <1>1 DEF ModulesIn, TreePoms

LEMMA ModulesAre ==
  ASSUME NEW t \in Trees, NEW op
  PROVE  /\ HasPom(t) <=> << >> \in ModulesIn(op, t)
         /\ \A e \in Range(t) : IsTree(e) /\ op # "single" =>
              \A d \in ModulesIn(op, e.object) : <<e.name>> \o d \in ModulesIn(op, t)
<1>1. ASSUME NEW e \in Range(t), IsTree(e), NEW f \in Poms(GitFiles[e.object])
      PROVE  /\ Front(Put(e.name, f).path) = <<e.name>> \o Front(f.path)
             /\ Front(Put(e.name, f).path) # << >>
  <2>1. f \in Inside(e)
    BY <1>1 DEF Inside, Poms, Readable
  <2>2. /\ Front(Put(e.name, f).path) = <<e.name>> \o Front(f.path)
        /\ e.name \in PathNames /\ Front(f.path) \in Seq(PathNames)
    BY <1>1, <2>1, PutFacts
  <2>3. QED  BY <2>2, NameFirst
<1>2. HasPom(t) => << >> \in ModulesIn(op, t)
  BY PomsIn DEF HasPom, ModulesIn, TreePoms
<1>3. ASSUME << >> \in ModulesIn(op, t) PROVE HasPom(t)
  <2>1. PICK f \in Poms(GitFiles[t]) : Front(f.path) = << >>
    BY <1>3 DEF ModulesIn, TreePoms
  <2>2. QED  BY <1>1, <2>1, PomsIn
<1>4. ASSUME NEW e \in Range(t), IsTree(e), op # "single", NEW d \in ModulesIn(op, e.object)
      PROVE  <<e.name>> \o d \in ModulesIn(op, t)
  <2>1. PICK f \in Poms(GitFiles[e.object]) : d = Front(f.path)
    BY DEF ModulesIn, TreePoms
  <2>2. Put(e.name, f) \in Poms(GitFiles[t])
    BY <1>4, PomsIn
  <2>3. QED  BY <1>1, <1>4, <2>1, <2>2 DEF ModulesIn, TreePoms
<1>5. QED  BY <1>2, <1>3, <1>4

Joined(name, p) == <<name>> \o p

LEMMA ModuleFrom ==
  ASSUME NEW t \in Trees, NEW op, NEW d \in ModulesIn(op, t), d # << >>
  PROVE  /\ op # "single"
         /\ \E x \in Range(t) : IsTree(x) /\
              \E y \in ModulesIn(op, x.object) : d = Joined(x.name, y)
<1>1. PICK f \in TreePoms(op, t) : d = Front(f.path)
  BY DEF ModulesIn
<1>2. f \in Poms(GitFiles[t]) /\ op # "single"
  BY <1>1 DEF TreePoms
<1>3. PICK x \in Range(t) : IsTree(x) /\
        \E g \in Poms(GitFiles[x.object]) : f = Put(x.name, g)
  BY <1>1, <1>2, PomsIn
<1>4. PICK g \in Poms(GitFiles[x.object]) : f = Put(x.name, g)
  BY <1>3
<1>5. g \in Inside(x)
  BY <1>3 DEF Inside, Poms, Readable
<1>6. Front(g.path) \in ModulesIn(op, x.object)
  BY <1>2 DEF ModulesIn, TreePoms
<1>7. d = Joined(x.name, Front(g.path))
  BY <1>1, <1>3, <1>4, <1>5, PutFacts DEF Joined
<1>8. QED  BY <1>2, <1>3, <1>6, <1>7

(* A walk that is at its directory, and searches it for modules.           *)
Searched(w) ==
  /\ w.op # "java" /\ w.rest = << >> /\ w.tree \in Trees
  /\ w.dirs \subseteq DirPaths /\ Laid(w.tree, w.dirs)

(* A name before two paths.                                                *)
LEMMA NameBefore ==
  ASSUME NEW S, NEW n \in S, NEW p \in Seq(S), NEW q \in Seq(S)
  PROVE  (<<n>> \o p) \o q = <<n>> \o (p \o q) /\ p \o q \in Seq(S)
<1>0. <<n>> \in Seq(S)
  OBVIOUS
<1>1. PICK s \in Seq(S) : s = <<n>>
  BY <1>0
<1>2. (s \o p) \o q = s \o (p \o q)
  BY ConcatAssociative
<1>3. p \o q \in Seq(S)
  BY ConcatProperties
<1>4. QED  BY <1>1, <1>2, <1>3

LEMMA OwnDirsAre ==
  ASSUME NEW w, Searched(w)
  PROVE  /\ HasPom(w.tree) => OwnDirs(w) = SourceDirs
         /\ ~HasPom(w.tree) => OwnDirs(w) = w.dirs
         /\ OwnDirs(w) \subseteq DirPaths
         /\ \A s \in OwnDirs(w) : s \in Seq(PathNames) /\ s # << >> /\
              Head(s) \in PathNames /\ Tail(s) \in Seq(PathNames)
<1>1. /\ HasPom(w.tree) => OwnDirs(w) = SourceDirs
      /\ ~HasPom(w.tree) => OwnDirs(w) = w.dirs
  BY DEF Searched, OwnDirs, HasPom
<1>2. OwnDirs(w) \subseteq DirPaths
  BY <1>1, PathsFit DEF Searched
<1>3. \A s \in OwnDirs(w) : s \in Seq(PathNames) /\ s # << >>
  BY <1>2, PathsFit
<1>4. \A s \in OwnDirs(w) : Head(s) \in PathNames /\ Tail(s) \in Seq(PathNames)
  BY <1>3, FirstAndRest
<1>5. QED  BY <1>1, <1>2, <1>3, <1>4

(* Below the directories where sources are expected there is no pom.xml,   *)
(* nor below the "src" of a module.                                        *)
LEMMA LaidBelow ==
  ASSUME NEW w, Searched(w), NEW e \in Range(w.tree), IsTree(e)
  PROVE  Laid(e.object, DirsOf(w, e))
<1>1. /\ e.name \in PathNames /\ e.object \in Trees /\ w.tree \in Trees
      /\ \A f \in Poms(GitFiles[e.object]) :
           /\ f \in Inside(e) /\ Front(f.path) \in Seq(PathNames)
           /\ Put(e.name, f) \in Poms(GitFiles[w.tree])
           /\ Front(Put(e.name, f).path) = <<e.name>> \o Front(f.path)
  <2>1. e.object \in Trees /\ w.tree \in Trees /\ e.name \in PathNames
    BY EntryTypes DEF Searched, PathNames
  <2>2. ASSUME NEW f \in Poms(GitFiles[e.object])
        PROVE  /\ f \in Inside(e) /\ Front(f.path) \in Seq(PathNames)
               /\ Put(e.name, f) \in Poms(GitFiles[w.tree])
               /\ Front(Put(e.name, f).path) = <<e.name>> \o Front(f.path)
    <3>1. f \in Inside(e)
      BY DEF Inside, Poms, Readable
    <3>2. Put(e.name, f) \in Poms(GitFiles[w.tree])
      BY <2>1, PomsIn
    <3>3. QED  BY <2>1, <3>1, <3>2, PutFacts
  <2>3. QED  BY <2>1, <2>2
<1>2. ASSUME NEW f \in Poms(GitFiles[e.object]), NEW g \in Poms(GitFiles[e.object])
      PROVE  ~IsPrefix(Front(f.path) \o <<"src">>, Front(g.path))
  <2>1. PICK n \in PathNames : n = e.name
    BY <1>1
  <2>2. PICK p \in Seq(PathNames) : p = Front(f.path)
    BY <1>1
  <2>3. PICK q \in Seq(PathNames) : q = Front(g.path)
    BY <1>1
  <2>4. PICK src \in Seq(PathNames) : src = <<"src">>
    BY PathsFit
  <2>5. ~IsPrefix((<<n>> \o p) \o src, <<n>> \o q)
    BY <1>1, <2>1, <2>2, <2>3, <2>4 DEF Searched, Laid
  <2>6. (<<n>> \o p) \o src = <<n>> \o (p \o src) /\ p \o src \in Seq(PathNames)
    BY NameBefore
  <2>7. ~IsPrefix(p \o src, q)
    BY <2>5, <2>6, PrefixFirst
  <2>8. QED  BY <2>2, <2>3, <2>4, <2>7
<1>3. ASSUME DirsOf(w, e) # {}, NEW f \in Poms(GitFiles[e.object])
      PROVE  FALSE
  <2>1. PICK s \in OwnDirs(w) : Head(s) = e.name
    BY <1>3 DEF DirsOf, Drained
  <2>2. CASE ~HasPom(w.tree)
    BY <1>1, <2>1, <2>2, OwnDirsAre DEF Searched, Laid
  <2>3. CASE HasPom(w.tree)
    <3>1. e.name = "src"
      BY <2>1, <2>3, OwnDirsAre, PathsFit
    <3>2. PICK own \in Poms(GitFiles[w.tree]) : Front(own.path) = << >>
      BY <1>1, <2>3, PomsIn DEF HasPom
    <3>3. PICK none \in Seq(PathNames) : none = << >>
      BY PathsFit
    <3>4. PICK q \in Seq(PathNames) : q = Front(f.path)
      BY <1>1
    <3>5. PICK n \in PathNames : n = "src"
      BY PathsFit
    <3>6. <<n>> \in Seq(PathNames)
      BY <3>5, PathsFit
    <3>7. PICK src \in Seq(PathNames) : src = <<n>>
      BY <3>6
    <3>8. none \o src = <<n>> \o none
      BY <3>3, <3>7, ConcatEmptySeq
    <3>9. ~IsPrefix(none \o src, <<n>> \o q)
      BY <1>1, <3>1, <3>2, <3>3, <3>4, <3>5, <3>7 DEF Searched, Laid
    <3>10. ~IsPrefix(none, q)
      BY <3>8, <3>9, PrefixFirst
    <3>11. IsPrefix(none, q)
      <4>1. Len(none) = 0 /\ Len(q) \in Nat
        BY <3>3, LenProperties, EmptySeq
      <4>2. IsPrefix(none, q) <=> Len(none) <= Len(q) /\ \A i \in 1 .. Len(none) : none[i] = q[i]
        BY PrefixIs
      <4>3. QED  BY <4>1, <4>2
    <3>12. QED  BY <3>10, <3>11
  <2>4. QED  BY <2>2, <2>3
<1>4. QED  BY <1>2, <1>3 DEF Laid

(* The Java files of an entry that a walk gives.                           *)
SourcedIn(w, e, p) ==
  \/ /\ IsTree(e) /\ w.op # "single"
     /\ \E d \in ModulesIn(w.op, e.object), s \in SourceDirs : IsStrictPrefix(d \o s, p)
  \/ \E s \in DirsOf(w, e) : IsStrictPrefix(s, p)

LEMMA SourcedBelow ==
  ASSUME NEW w, Searched(w), NEW e \in Range(w.tree), NEW p \in Seq(PathNames)
  PROVE  Sourced(w.op, w.tree, w.dirs, <<e.name>> \o p) <=>
           IF IsTree(e) THEN SourcedIn(w, e, p)
           ELSE \E s \in DirsOf(w, e) : IsStrictPrefix(s, p)
<1>1. PICK n \in PathNames : n = e.name
  BY EntryTypes DEF Searched, PathNames
<1>2. PICK t \in Trees : t = w.tree
  BY DEF Searched
<1>3. PICK ours : ours = OwnDirs(w)
  OBVIOUS
<1>4. /\ \A s \in ours : s \in Seq(PathNames) /\ s # << >>
      /\ HasPom(t) => ours = SourceDirs
      /\ ~HasPom(t) => ours = w.dirs
  BY <1>2, <1>3, OwnDirsAre
<1>5. \A s \in SourceDirs : s \in Seq(PathNames) /\ s # << >>
  BY PathsFit
<1>6. \A s \in w.dirs : s \in Seq(PathNames) /\ s # << >>
  BY PathsFit DEF Searched
<1>7. \A s \in ours : IsStrictPrefix(s, <<n>> \o p) <=>
                        Head(s) = n /\ IsStrictPrefix(Tail(s), p)
  BY <1>4, PrefixBelow
<1>8. (\E s \in ours : IsStrictPrefix(s, <<n>> \o p)) <=>
      \E s \in DirsOf(w, e) : IsStrictPrefix(s, p)
  BY <1>1, <1>3, <1>7 DEF DirsOf, Drained
<1>9. \A s \in SourceDirs : << >> \o s = s
  BY <1>5, ConcatEmptySeq
<1>10. ASSUME NEW x \in Range(t), IsTree(x), NEW d \in ModulesIn(w.op, x.object),
              NEW s \in SourceDirs
       PROVE  IsStrictPrefix((<<x.name>> \o d) \o s, <<n>> \o p)
                <=> x = e /\ IsStrictPrefix(d \o s, p)
  <2>1. PICK m \in PathNames : m = x.name
    BY <1>10, EntryTypes DEF PathNames
  <2>2. d \in Seq(PathNames) /\ s \in Seq(PathNames)
    BY <1>5, <1>10, EntryTypes, FrontsFit
  <2>3. PICK u \in Seq(PathNames) : u = d
    BY <2>2
  <2>4. PICK v \in Seq(PathNames) : v = s
    BY <2>2
  <2>5. (<<m>> \o u) \o v = <<m>> \o (u \o v) /\ u \o v \in Seq(PathNames)
    BY NameBefore
  <2>6. PICK q \in Seq(PathNames) : q = d \o s /\ (<<m>> \o d) \o s = <<m>> \o q
    BY <2>3, <2>4, <2>5
  <2>7. IsStrictPrefix(<<m>> \o q, <<n>> \o p) <=> m = n /\ IsStrictPrefix(q, p)
    BY PrefixFirst
  <2>8. m = n <=> x = e
    BY <1>1, <1>2, <2>1, DistinctNames DEF Range
  <2>9. QED  BY <2>1, <2>6, <2>7, <2>8
<1>11. w.dirs # {} => ~HasPom(t)
  BY <1>2, PomsIn DEF Searched, Laid, HasPom
<1>12. ASSUME NEW d \in ModulesIn(w.op, t), d # << >>
      PROVE  \E x \in Range(t) : w.op # "single" /\ IsTree(x) /\
               \E y \in ModulesIn(w.op, x.object) : d = Joined(x.name, y)
  BY <1>2, <1>12, ModuleFrom
<1>13. ASSUME Sourced(w.op, t, w.dirs, <<n>> \o p)
       PROVE  \/ IsTree(e) /\ SourcedIn(w, e, p)
              \/ \E s \in DirsOf(w, e) : IsStrictPrefix(s, p)
  <2>1. CASE \E s \in w.dirs : IsStrictPrefix(s, <<n>> \o p)
    BY <1>4, <1>8, <1>11, <2>1
  <2>2. ASSUME NEW d \in ModulesIn(w.op, t), NEW s \in SourceDirs,
               IsStrictPrefix(d \o s, <<n>> \o p)
        PROVE  \/ IsTree(e) /\ SourcedIn(w, e, p)
               \/ \E x \in DirsOf(w, e) : IsStrictPrefix(x, p)
    <3>1. CASE d = << >>
      <4>1. HasPom(t) /\ IsStrictPrefix(s, <<n>> \o p)
        BY <1>9, <2>2, <3>1, ModulesAre
      <4>2. QED  BY <1>4, <1>8, <4>1
    <3>2. CASE d # << >>
      <4>1. PICK x \in Range(t) : w.op # "single" /\ IsTree(x) /\
              \E y \in ModulesIn(w.op, x.object) : d = Joined(x.name, y)
        BY <1>12, <3>2
      <4>2. PICK y \in ModulesIn(w.op, x.object) : d = Joined(x.name, y)
        BY <4>1
      <4>3. x = e /\ IsStrictPrefix(y \o s, p)
        BY <1>10, <2>2, <4>1, <4>2 DEF Joined
      <4>4. QED  BY <4>1, <4>3 DEF SourcedIn
    <3>3. QED  BY <3>1, <3>2
  <2>3. QED  BY <1>13, <2>1, <2>2 DEF Sourced
<1>14. ASSUME NEW x \in DirsOf(w, e), IsStrictPrefix(x, p)
       PROVE  Sourced(w.op, t, w.dirs, <<n>> \o p)
  <2>1. PICK s \in ours : IsStrictPrefix(s, <<n>> \o p)
    BY <1>8, <1>14
  <2>2. CASE ~HasPom(t)
    BY <1>4, <2>1, <2>2 DEF Sourced
  <2>3. CASE HasPom(t)
    <3>1. << >> \in ModulesIn(w.op, t)
      BY <2>3, ModulesAre
    <3>2. s \in SourceDirs /\ << >> \o s = s
      BY <1>4, <1>9, <2>1, <2>3
    <3>3. QED  BY <2>1, <3>1, <3>2 DEF Sourced
  <2>4. QED  BY <2>2, <2>3
<1>15. ASSUME IsTree(e), w.op # "single", NEW d \in ModulesIn(w.op, e.object),
              NEW s \in SourceDirs, IsStrictPrefix(d \o s, p)
       PROVE  Sourced(w.op, t, w.dirs, <<n>> \o p)
  <2>1. e \in Range(t)
    BY <1>2
  <2>2. <<e.name>> \o d \in ModulesIn(w.op, t)
    BY <1>15, <2>1, ModulesAre
  <2>3. IsStrictPrefix((<<e.name>> \o d) \o s, <<n>> \o p)
    BY <1>10, <1>15, <2>1
  <2>4. QED  BY <2>2, <2>3 DEF Sourced
<1>16. QED  BY <1>1, <1>2, <1>13, <1>14, <1>15 DEF SourcedIn

(* Which files of an entry a walk gives.                                   *)
TakenIn(w, e) == {f \in Inside(e) : Taken(w.op, w.tree, w.dirs, Put(e.name, f))}

LEMMA TakenOfTree ==
  ASSUME NEW w, Searched(w), NEW e \in Range(w.tree), IsTree(e), NEW f \in GitFiles[e.object]
  PROVE  /\ f.path # << >>
         /\ Taken(w.op, w.tree, w.dirs, Put(e.name, f)) <=>
              /\ f.blob \notin Unreadable
              /\ \/ Last(f.path) = "pom.xml" /\ w.op # "single"
                 \/ IsJava(Last(f.path)) /\ SourcedIn(w, e, f.path)
         /\ \A s \in DirsOf(w, e) : s \in Seq(PathNames)
<1>1. w.tree \in Trees /\ f \in Inside(e)
  BY DEF Searched, Inside
<1>2. /\ f.path \in Seq(PathNames) /\ f.path # << >> /\ e.name \in PathNames
      /\ Put(e.name, f).path = <<e.name>> \o f.path /\ Put(e.name, f).blob = f.blob
      /\ Last(Put(e.name, f).path) = Last(f.path)
      /\ Front(Put(e.name, f).path) = <<e.name>> \o Front(f.path)
      /\ Front(f.path) \in Seq(PathNames)
  BY <1>1, PutFacts
<1>3. <<e.name>> \o Front(f.path) # << >>
  BY <1>2, NameFirst
<1>4. PICK p \in Seq(PathNames) : p = f.path
  BY <1>2
<1>5. Sourced(w.op, w.tree, w.dirs, <<e.name>> \o p) <=> SourcedIn(w, e, p)
  BY SourcedBelow
<1>6. \A s \in DirsOf(w, e) : s \in Seq(PathNames)
  BY OwnDirsAre DEF DirsOf, Drained
<1>7. Sourced(w.op, w.tree, w.dirs, Put(e.name, f).path) <=> SourcedIn(w, e, f.path)
  BY <1>2, <1>4, <1>5
<1>8. QED  BY <1>2, <1>3, <1>6, <1>7 DEF Taken

LEMMA TakenOfBlob ==
  ASSUME NEW w, Searched(w), NEW e \in Range(w.tree), ~IsTree(e), NEW f \in Inside(e)
  PROVE  /\ Taken(w.op, w.tree, w.dirs, Put(e.name, f)) <=> PomRead(e)
         /\ Inside(e) = Single(e.object)
<1>1. w.tree \in Trees /\ Inside(e) = Single(e.object)
  BY DEF Searched, Inside
<1>2. /\ f.path = << >> /\ f.blob = e.object
      /\ Put(e.name, f).path = <<e.name>> \o f.path /\ Put(e.name, f).blob = f.blob
      /\ Last(Put(e.name, f).path) = e.name /\ Front(Put(e.name, f).path) = << >>
  BY <1>1, PutFacts
<1>3. PICK p \in Seq(PathNames) : p = << >>
  BY PathsFit
<1>4. \A s \in DirsOf(w, e) : ~IsStrictPrefix(s, p)
  <2>1. \A s \in DirsOf(w, e) : s \in Seq(PathNames)
    BY OwnDirsAre DEF DirsOf, Drained
  <2>2. QED  BY <1>3, <2>1, PrefixNone
<1>5. ~Sourced(w.op, w.tree, w.dirs, <<e.name>> \o p)
  BY <1>4, SourcedBelow
<1>6. ~Sourced(w.op, w.tree, w.dirs, Put(e.name, f).path)
  BY <1>2, <1>3, <1>5
<1>7. QED  BY <1>1, <1>2, <1>6 DEF Taken, PomRead, IsPom

(* Sources expected below an entry: no pom.xml is there.                   *)
LEMMA NoPomThere ==
  ASSUME NEW w, Searched(w), NEW e \in Range(w.tree), IsTree(e), DirsOf(w, e) # {}
  PROVE  /\ \A f \in GitFiles[e.object] :
              f.blob \notin Unreadable => Last(f.path) # "pom.xml"
         /\ \A op : ModulesIn(op, e.object) = {}
<1>1. Poms(GitFiles[e.object]) = {}
  BY LaidBelow DEF Laid
<1>2. QED  BY <1>1 DEF Poms, Readable, ModulesIn, TreePoms

LEMMA GivesTaken ==
  ASSUME NEW w, Searched(w), NEW value, NEW e \in Range(w.tree),
         Descends(w, e) => value[e.object] = FilesOf(w.op, e.object, DirsOf(w, e))
  PROVE  Gives(w, e, value) = TakenIn(w, e)
<1>1. w.rest = << >> /\ w.op # "java"
  BY DEF Searched
<1>2. CASE ~IsTree(e)
  <2>1. Gives(w, e, value) = IF PomRead(e) THEN Single(e.object) ELSE {}
    BY <1>1, <1>2 DEF Gives, Descends, SourcesAt
  <2>2. \A f \in Inside(e) : Taken(w.op, w.tree, w.dirs, Put(e.name, f)) <=> PomRead(e)
    BY <1>2, TakenOfBlob
  <2>3. Inside(e) = Single(e.object)
    BY <1>2 DEF Inside
  <2>4. QED  BY <2>1, <2>2, <2>3 DEF TakenIn
<1>3. CASE IsTree(e)
  <2> DEFINE there == GitFiles[e.object]
  <2>1. TakenIn(w, e) = {f \in there :
            /\ f.blob \notin Unreadable
            /\ \/ Last(f.path) = "pom.xml" /\ w.op # "single"
               \/ IsJava(Last(f.path)) /\ SourcedIn(w, e, f.path)}
    BY <1>3, TakenOfTree DEF TakenIn, Inside
  <2>2. ~PomRead(e)
    BY <1>3 DEF PomRead, IsPom
  <2>3. CASE Descends(w, e)
    <3>1. Gives(w, e, value) = FilesOf(w.op, e.object, DirsOf(w, e))
      BY <2>3 DEF Gives
    <3>2. ASSUME NEW f \in there
          PROVE  Taken(w.op, e.object, DirsOf(w, e), f) <=>
                   /\ f.blob \notin Unreadable
                   /\ \/ Last(f.path) = "pom.xml" /\ w.op # "single"
                      \/ IsJava(Last(f.path)) /\ SourcedIn(w, e, f.path)
      <4>1. CASE w.op # "single"
        BY <1>3, <4>1 DEF Taken, Sourced, SourcedIn
      <4>2. CASE w.op = "single"
        <5>1. DirsOf(w, e) # {}
          BY <1>1, <2>3, <4>2 DEF Descends
        <5>2. /\ f.blob \notin Unreadable => Last(f.path) # "pom.xml"
              /\ ModulesIn(w.op, e.object) = {}
          BY <1>3, <5>1, NoPomThere
        <5>3. QED  BY <4>2, <5>2 DEF Taken, Sourced, SourcedIn
      <4>3. QED  BY <4>1, <4>2
    <3>3. QED  BY <2>1, <3>1, <3>2 DEF FilesOf
  <2>4. CASE ~Descends(w, e) /\ SourcesAt(w, e)
    <3>1. Gives(w, e, value) = JavaBelow(e.object) /\ << >> \in DirsOf(w, e)
      BY <1>1, <2>4 DEF Gives, SourcesAt
    <3>2. ASSUME NEW f \in there PROVE SourcedIn(w, e, f.path)
      <4>1. f.path # << >>
        BY <1>3, TakenOfTree
      <4>2. f \in Inside(e) /\ w.tree \in Trees
        BY <1>3 DEF Inside, Searched
      <4>3. PICK p \in Seq(PathNames) : p = f.path
        BY <4>2, PutFacts
      <4>4. IsStrictPrefix(<< >>, p)
        BY <4>1, <4>3, PrefixNone
      <4>5. QED  BY <3>1, <4>3, <4>4 DEF SourcedIn
    <3>3. \A f \in there : f.blob \notin Unreadable => Last(f.path) # "pom.xml"
      BY <1>3, <3>1, NoPomThere
    <3>4. QED  BY <2>1, <3>1, <3>2, <3>3 DEF JavaBelow, JavaFiles, Readable
  <2>5. CASE ~Descends(w, e) /\ ~SourcesAt(w, e)
    <3>1. Gives(w, e, value) = {}
      BY <2>2, <2>5 DEF Gives
    <3>2. w.op = "single" /\ DirsOf(w, e) = {}
      BY <1>1, <1>3, <2>5 DEF Descends, SourcesAt
    <3>3. QED  BY <2>1, <3>1, <3>2 DEF SourcedIn
  <2>6. QED  BY <2>3, <2>4, <2>5
<1>4. QED  BY <1>2, <1>3

(* What a walk wants of a tree is what it wants of the entries.            *)
LEMMA FilesOfEntries ==
  ASSUME NEW w, Searched(w)
  PROVE  FilesOf(w.op, w.tree, w.dirs) =
           UNION {Under(e.name, TakenIn(w, e)) : e \in Range(w.tree)}
<1>1. GitFiles[w.tree] = UNION {{Put(e.name, f) : f \in Inside(e)} : e \in Range(w.tree)}
  BY InTree DEF Searched
<1>2. \A e \in Range(w.tree) :
        Under(e.name, TakenIn(w, e)) = {Put(e.name, f) : f \in TakenIn(w, e)}
  BY DEF Under, Put
<1>3. ASSUME NEW g PROVE g \in FilesOf(w.op, w.tree, w.dirs) <=>
        \E e \in Range(w.tree) : g \in {Put(e.name, f) : f \in TakenIn(w, e)}
  BY <1>1 DEF FilesOf, TakenIn
<1>4. QED  BY <1>2, <1>3

LEMMA DeeperSearched ==
  ASSUME NEW w, Searched(w), NEW e \in Range(w.tree), Descends(w, e)
  PROVE  /\ Searched(Deeper(w, e)) /\ Deeper(w, e).tree = e.object
         /\ Deeper(w, e).op = w.op /\ Deeper(w, e).dirs = DirsOf(w, e)
<1>1. w.rest = << >> /\ w.op # "java" /\ IsTree(e) /\ << >> \notin DirsOf(w, e)
  BY DEF Searched, Descends
<1>2. Deeper(w, e) = [tree |-> e.object, rest |-> << >>, dirs |-> DirsOf(w, e), op |-> w.op]
  BY <1>1 DEF Deeper
<1>3. e.object \in Trees /\ Laid(e.object, DirsOf(w, e))
  BY <1>1, EntryTypes, LaidBelow DEF Searched
<1>4. DirsOf(w, e) \subseteq DirPaths
  BY <1>1, OwnDirsAre, DrainedType DEF DirsOf
<1>5. QED  BY <1>1, <1>2, <1>3, <1>4 DEF Searched

LEMMA WalkGives ==
  ASSUME NEW W, NEW value, Consistent(W, value), NEW w \in W, Searched(w)
  PROVE  value[w.tree] = FilesOf(w.op, w.tree, w.dirs)
<1> DEFINE S == {t \in Trees : \A v \in W : Searched(v) /\ v.tree = t =>
                   value[t] = FilesOf(v.op, t, v.dirs)}
<1>1. ASSUME NEW t \in Trees, \A e \in Range(t) : IsTree(e) => e.object \in S
      PROVE  t \in S
  <2>1. SUFFICES ASSUME NEW v \in W, Searched(v), v.tree = t
                 PROVE  value[t] = FilesOf(v.op, t, v.dirs)
    OBVIOUS
  <2>2. value[t] = UNION {Under(e.name, Gives(v, e, value)) : e \in Range(v.tree)}
    BY <2>1 DEF Consistent
  <2>3. ASSUME NEW e \in Range(v.tree) PROVE Gives(v, e, value) = TakenIn(v, e)
    <3>1. ASSUME Descends(v, e)
          PROVE  value[e.object] = FilesOf(v.op, e.object, DirsOf(v, e))
      <4>1. Deeper(v, e) \in W /\ IsTree(e)
        BY <2>1, <3>1 DEF Consistent, Descends
      <4>2. /\ Searched(Deeper(v, e)) /\ Deeper(v, e).tree = e.object
            /\ Deeper(v, e).op = v.op /\ Deeper(v, e).dirs = DirsOf(v, e)
        BY <2>1, <3>1, DeeperSearched
      <4>3. e.object \in S
        BY <1>1, <2>1, <4>1
      <4>4. QED  BY <4>1, <4>2, <4>3
    <3>2. QED  BY <2>1, <3>1, GivesTaken
  <2>4. QED  BY <2>1, <2>2, <2>3, FilesOfEntries
<1>2. Trees \subseteq S
  <2> HIDE DEF S
  <2>1. QED  BY <1>1, HeightInduction
<1>3. w.tree \in Trees
  BY DEF Searched
<1>4. QED  BY <1>2, <1>3

LEMMA JoinedFacts ==
  ASSUME NEW n \in PathNames, NEW p \in Seq(PathNames)
  PROVE  /\ Joined(n, p) \in Seq(PathNames) /\ Joined(n, p) # << >>
         /\ Len(Joined(n, p)) = Len(p) + 1 /\ Len(p) \in Nat
         /\ Head(Joined(n, p)) = n /\ Tail(Joined(n, p)) = p
         /\ \A q \in Seq(PathNames) : Joined(n, p) = Joined(n, q) => p = q
         /\ \A q \in Seq(PathNames), s \in Seq(PathNames) :
              /\ IsStrictPrefix(Joined(n, p) \o s, Joined(n, q)) <=> IsStrictPrefix(p \o s, q)
              /\ IsPrefix(Joined(n, p) \o s, Joined(n, q)) <=> IsPrefix(p \o s, q)
<1>1. /\ Joined(n, p) \in Seq(PathNames) /\ Joined(n, p) # << >>
      /\ Len(Joined(n, p)) = Len(p) + 1 /\ Len(p) \in Nat
      /\ Head(Joined(n, p)) = n /\ Tail(Joined(n, p)) = p
  BY NameFirst, LenProperties DEF Joined
<1>2. \A q \in Seq(PathNames) : Tail(Joined(n, q)) = q
  BY NameFirst DEF Joined
<1>3. ASSUME NEW q \in Seq(PathNames), NEW s \in Seq(PathNames)
      PROVE  /\ IsStrictPrefix(Joined(n, p) \o s, Joined(n, q)) <=> IsStrictPrefix(p \o s, q)
             /\ IsPrefix(Joined(n, p) \o s, Joined(n, q)) <=> IsPrefix(p \o s, q)
  <2>1. (<<n>> \o p) \o s = <<n>> \o (p \o s) /\ p \o s \in Seq(PathNames)
    BY NameBefore
  <2>2. PICK u \in Seq(PathNames) : u = p \o s
    BY <2>1
  <2>3. /\ IsStrictPrefix(<<n>> \o u, <<n>> \o q) <=> IsStrictPrefix(u, q)
        /\ IsPrefix(<<n>> \o u, <<n>> \o q) <=> IsPrefix(u, q)
    BY PrefixFirst
  <2>4. QED  BY <2>1, <2>2, <2>3 DEF Joined
<1>4. QED  BY <1>1, <1>2, <1>3

(* The files of a directory, seen from the one it is in.                   *)
Seen(n, files) == {Put(n, f) : f \in files}

LEMMA PutJoined ==
  ASSUME NEW n \in PathNames, NEW f, f.path \in Seq(PathNames), f.path # << >>
  PROVE  /\ Put(n, f).path = Joined(n, f.path) /\ Put(n, f).blob = f.blob
         /\ Last(Put(n, f).path) = Last(f.path)
         /\ Front(Put(n, f).path) = Joined(n, Front(f.path))
         /\ Front(f.path) \in Seq(PathNames)
<1>1. PICK p \in Seq(PathNames) : p = f.path
  OBVIOUS
<1>2. Put(n, f).path = <<n>> \o p /\ Put(n, f).blob = f.blob
  BY <1>1 DEF Put
<1>3. Last(<<n>> \o p) = Last(p)
  BY <1>1, NameFirst
<1>4. Front(<<n>> \o p) = <<n>> \o Front(p) /\ Front(p) \in Seq(PathNames)
  BY <1>1, FrontFirst
<1>5. QED  BY <1>1, <1>2, <1>3, <1>4 DEF Joined

LEMMA MavenSeen ==
  ASSUME NEW n \in PathNames, NEW files,
         \A f \in files : f.path \in Seq(PathNames) /\ f.path # << >>,
         NEW r, NEW below, r.op = below.op, below.path \in Seq(PathNames),
         r.path = Joined(n, below.path)
  PROVE  /\ MavenFiles(r, Seen(n, files)) = Seen(n, MavenFiles(below, files))
         /\ \A f \in Poms(files) : Put(n, f) \in Poms(Seen(n, files))
<1> DEFINE all == Seen(n, files)
<1>1. \A f \in files :
        /\ Put(n, f) \in all
        /\ Put(n, f).path = Joined(n, f.path) /\ Put(n, f).blob = f.blob
        /\ Last(Put(n, f).path) = Last(f.path)
        /\ Front(Put(n, f).path) = Joined(n, Front(f.path))
        /\ Front(f.path) \in Seq(PathNames) /\ f.path \in Seq(PathNames)
  BY PutJoined DEF Seen
<1>2. \A g \in all : \E f \in files : g = Put(n, f)
  BY DEF Seen
<1> HIDE DEF all
<1>3. \A f \in files : /\ Put(n, f) \in Poms(all) <=> f \in Poms(files)
                       /\ Put(n, f) \in JavaFiles(all) <=> f \in JavaFiles(files)
  BY <1>1 DEF Poms, JavaFiles, Readable
<1>4. Poms(all) \subseteq all /\ Poms(files) \subseteq files
  BY DEF Poms, Readable
<1>5. /\ \A d \in ModulesOf(r, all) :
           \E y \in Seq(PathNames) : d = Joined(n, y) /\ y \in ModulesOf(below, files)
      /\ \A y \in ModulesOf(below, files) :
           y \in Seq(PathNames) /\ Joined(n, y) \in ModulesOf(r, all)
  <2>1. ASSUME NEW d \in ModulesOf(r, all)
        PROVE  \E y \in Seq(PathNames) : d = Joined(n, y) /\ y \in ModulesOf(below, files)
    <3>1. PICK g \in Poms(all) : d = Front(g.path)
      BY DEF ModulesOf
    <3>2. PICK f \in files : g = Put(n, f)
      BY <1>2, <1>4, <3>1
    <3>3. f \in Poms(files) /\ d = Joined(n, Front(f.path)) /\ Front(f.path) \in Seq(PathNames)
      BY <1>1, <1>3, <3>1, <3>2
    <3>4. r.op = "single" => Front(f.path) = below.path
      <4>1. PICK y \in Seq(PathNames) : y = Front(f.path)
        BY <3>3
      <4>2. PICK q \in Seq(PathNames) : q = below.path
        OBVIOUS
      <4>3. r.op = "single" => Joined(n, y) = Joined(n, q)
        BY <3>3, <4>1, <4>2 DEF ModulesOf
      <4>4. Joined(n, y) = Joined(n, q) => y = q
        BY JoinedFacts
      <4>5. QED  BY <4>1, <4>2, <4>3, <4>4
    <3>5. Front(f.path) \in ModulesOf(below, files)
      BY <3>3, <3>4 DEF ModulesOf
    <3>6. QED  BY <3>3, <3>5
  <2>2. ASSUME NEW y \in ModulesOf(below, files)
        PROVE  y \in Seq(PathNames) /\ Joined(n, y) \in ModulesOf(r, all)
    <3>1. PICK f \in Poms(files) : y = Front(f.path)
      BY DEF ModulesOf
    <3>2. /\ Put(n, f) \in Poms(all) /\ Front(Put(n, f).path) = Joined(n, y)
          /\ y \in Seq(PathNames)
      BY <1>1, <1>3, <1>4, <3>1
    <3>3. r.op = "single" => y = below.path
      BY DEF ModulesOf
    <3>4. r.op = "single" => Joined(n, y) = r.path
      BY <3>3
    <3>5. Joined(n, y) \in {Front(g.path) : g \in Poms(all)}
      BY <3>2
    <3>6. QED  BY <3>2, <3>4, <3>5 DEF ModulesOf
  <2>3. QED  BY <2>1, <2>2
<1>6. ASSUME NEW f \in files
      PROVE  Front(Put(n, f).path) \in ModulesOf(r, all) <=>
               Front(f.path) \in ModulesOf(below, files)
  <2>1. PICK y \in Seq(PathNames) : y = Front(f.path)
    BY <1>1
  <2>2. \A q \in Seq(PathNames) : Joined(n, y) = Joined(n, q) => y = q
    BY JoinedFacts
  <2>3. Front(Put(n, f).path) = Joined(n, y)
    BY <1>1, <2>1
  <2>4. QED  BY <1>5, <2>1, <2>2, <2>3
<1>7. ASSUME NEW f \in files
      PROVE  (\E d \in ModulesOf(r, all), s \in SourceDirs :
                IsStrictPrefix(d \o s, Put(n, f).path))
             <=> \E y \in ModulesOf(below, files), s \in SourceDirs :
                   IsStrictPrefix(y \o s, f.path)
  <2>1. \A y \in Seq(PathNames), s \in SourceDirs :
          IsStrictPrefix(Joined(n, y) \o s, Put(n, f).path) <=>
            IsStrictPrefix(y \o s, f.path)
    <3>1. PICK p \in Seq(PathNames) : p = f.path
      BY <1>1
    <3>2. SourceDirs \subseteq Seq(PathNames)
      BY PathsFit
    <3>3. \A y \in Seq(PathNames), s \in SourceDirs :
            IsStrictPrefix(Joined(n, y) \o s, Joined(n, p)) <=> IsStrictPrefix(y \o s, p)
      BY <3>2, JoinedFacts
    <3>4. QED  BY <1>1, <3>1, <3>3
  <2>2. QED  BY <1>5, <2>1
<1>8. \A f \in files : Put(n, f) \in MavenFiles(r, all) <=> f \in MavenFiles(below, files)
  BY <1>3, <1>6, <1>7 DEF MavenFiles
<1>9. MavenFiles(r, all) \subseteq all /\ MavenFiles(below, files) \subseteq files
  BY <1>4 DEF MavenFiles, JavaFiles, Readable
<1>10. MavenFiles(r, all) = Seen(n, MavenFiles(below, files))
  BY <1>2, <1>8, <1>9 DEF Seen
<1>11. QED  BY <1>3, <1>4, <1>10 DEF all

Ask(tree, at, op) == [tree |-> tree, path |-> at, op |-> op]

LEMMA BelowRoot ==
  ASSUME NEW t \in Trees
  PROVE  Below(t, << >>) = GitFiles[t]
<1>1. ASSUME NEW f \in GitFiles[t] PROVE IsStrictPrefix(<< >>, f.path)
  <2>1. f \in Files /\ f.path # << >>
    BY GitFilesTypes
  <2>2. PICK p \in Seq(EntryNames) : p = f.path
    BY <2>1 DEF Files
  <2>3. QED  BY <2>1, <2>2, PrefixNone
<1>2. QED  BY <1>1 DEF Below

LEMMA BelowName ==
  ASSUME NEW t \in Trees, NEW rest \in Seq(PathNames), rest # << >>
  PROVE  /\ Head(rest) \in PathNames /\ Tail(rest) \in Seq(PathNames)
         /\ \A e \in Range(t) : IsTree(e) /\ e.name = Head(rest) =>
              Below(t, rest) = Seen(e.name, Below(e.object, Tail(rest)))
         /\ (\A e \in Range(t) : IsTree(e) => e.name # Head(rest)) => Below(t, rest) = {}
<1>1. Head(rest) \in PathNames /\ Tail(rest) \in Seq(PathNames)
  BY FirstAndRest
<1>2. ASSUME NEW x \in Range(t), NEW f \in Inside(x)
      PROVE  IsStrictPrefix(rest, Put(x.name, f).path) <=>
               IsTree(x) /\ x.name = Head(rest) /\ IsStrictPrefix(Tail(rest), f.path)
  <2>1. PICK p \in Seq(PathNames) : p = f.path
    BY PutFacts
  <2>2. PICK n \in PathNames : n = x.name
    BY PutFacts
  <2>3. Put(x.name, f).path = <<n>> \o p
    BY <2>1, <2>2 DEF Put
  <2>4. IsStrictPrefix(rest, <<n>> \o p) <=> Head(rest) = n /\ IsStrictPrefix(Tail(rest), p)
    BY PrefixBelow
  <2>5. CASE IsTree(x)
    BY <2>1, <2>2, <2>3, <2>4, <2>5
  <2>6. CASE ~IsTree(x)
    <3>1. p = << >>
      BY <2>1, <2>6, PutFacts
    <3>2. ~IsStrictPrefix(Tail(rest), p)
      BY <1>1, <3>1, PrefixNone
    <3>3. QED  BY <2>3, <2>4, <2>6, <3>2
  <2>7. QED  BY <2>5, <2>6
<1>3. \A g : g \in GitFiles[t] <=> \E x \in Range(t) : \E f \in Inside(x) : g = Put(x.name, f)
  BY InTree
<1>4. \A g : g \in Below(t, rest) <=>
        \E x \in Range(t) : /\ IsTree(x) /\ x.name = Head(rest)
                            /\ \E f \in Below(x.object, Tail(rest)) : g = Put(x.name, f)
  BY <1>2, <1>3 DEF Below, Inside
<1>5. ASSUME NEW e \in Range(t), IsTree(e), e.name = Head(rest)
      PROVE  Below(t, rest) = Seen(e.name, Below(e.object, Tail(rest)))
  <2>1. \A x \in Range(t) : x.name = e.name => x = e
    BY DistinctNames DEF Range
  <2>2. \A g : g \in Below(t, rest) <=>
          \E f \in Below(e.object, Tail(rest)) : g = Put(e.name, f)
    BY <1>4, <1>5, <2>1
  <2>3. QED  BY <2>2 DEF Seen
<1>6. QED  BY <1>1, <1>4, <1>5

LEMMA BelowFit ==
  ASSUME NEW t \in Trees, NEW at, NEW f \in Below(t, at)
  PROVE  f.path \in Seq(PathNames) /\ f.path # << >>
<1>1. f \in Files /\ f.path # << >>
  BY GitFilesTypes DEF Below
<1>2. PICK p \in Seq(EntryNames) : p = f.path
  BY <1>1 DEF Files
<1>3. EntryNames \subseteq PathNames
  BY DEF PathNames
<1>4. p \in Seq(PathNames)
  BY <1>3, Wider
<1>5. QED  BY <1>1, <1>2, <1>4

(* What is asked of a directory is what is asked of the one it is in, seen *)
(* from there.                                                             *)
LEMMA WantedBelow ==
  ASSUME NEW t \in Trees, NEW rest \in Seq(PathNames), rest # << >>, NEW op
  PROVE  /\ \A e \in Range(t) : IsTree(e) /\ e.name = Head(rest) =>
              /\ WantedFiles(Ask(t, rest, op)) =
                   Under(e.name, WantedFiles(Ask(e.object, Tail(rest), op)))
              /\ LaidOut(Ask(t, rest, op)) => LaidOut(Ask(e.object, Tail(rest), op))
         /\ (\A e \in Range(t) : IsTree(e) => e.name # Head(rest)) =>
              WantedFiles(Ask(t, rest, op)) = {}
<1> DEFINE r == Ask(t, rest, op)
<1>1. r.tree = t /\ r.path = rest /\ r.op = op
  BY DEF Ask
<1>2. ASSUME \A e \in Range(t) : IsTree(e) => e.name # Head(rest)
      PROVE  WantedFiles(r) = {}
  <2>1. Below(t, rest) = {}
    BY <1>2, BelowName
  <2>2. QED  BY <1>1, <2>1 DEF WantedFiles, MavenFiles, JavaFiles, Poms, Readable
<1>3. ASSUME NEW e \in Range(t), IsTree(e), e.name = Head(rest)
      PROVE  /\ WantedFiles(r) = Under(e.name, WantedFiles(Ask(e.object, Tail(rest), op)))
             /\ LaidOut(r) => LaidOut(Ask(e.object, Tail(rest), op))
  <2> DEFINE below == Ask(e.object, Tail(rest), op)
  <2>1. below.tree = e.object /\ below.path = Tail(rest) /\ below.op = op
    BY DEF Ask
  <2>2. PICK files : files = Below(e.object, Tail(rest))
    OBVIOUS
  <2>3. PICK n \in PathNames : n = Head(rest)
    BY BelowName
  <2>4. /\ Tail(rest) \in Seq(PathNames) /\ rest = Joined(n, Tail(rest))
        /\ Below(t, rest) = Seen(n, files) /\ n = e.name
    <3>1. rest = <<Head(rest)>> \o Tail(rest) /\ Tail(rest) \in Seq(PathNames)
      BY FirstAndRest
    <3>2. Below(t, rest) = Seen(e.name, Below(e.object, Tail(rest)))
      BY <1>3, BelowName
    <3>3. rest = Joined(n, Tail(rest))
      BY <2>3, <3>1 DEF Joined
    <3>4. QED  BY <1>3, <2>2, <2>3, <3>1, <3>2, <3>3
  <2>5. \A f \in files : f.path \in Seq(PathNames) /\ f.path # << >>
    BY <1>3, <2>2, EntryTypes, BelowFit
  <2> HIDE DEF r, below
  <2>6. r.op = below.op /\ below.path \in Seq(PathNames) /\ r.path = Joined(n, below.path)
    BY <1>1, <2>1, <2>4
  <2>7. /\ MavenFiles(r, Seen(n, files)) = Seen(n, MavenFiles(below, files))
        /\ \A f \in Poms(files) : Put(n, f) \in Poms(Seen(n, files))
    BY <2>5, <2>6, MavenSeen
  <2>8. \A some : Under(n, some) = Seen(n, some)
    BY DEF Under, Seen, Put
  <2>9. CASE op # "java"
    <3>1. WantedFiles(r) = MavenFiles(r, Seen(n, files))
      BY <1>1, <2>4, <2>9 DEF WantedFiles
    <3>2. WantedFiles(below) = MavenFiles(below, files)
      BY <2>1, <2>2, <2>9 DEF WantedFiles
    <3>3. WantedFiles(r) = Under(n, WantedFiles(below))
      BY <2>7, <2>8, <3>1, <3>2
    <3>4. ASSUME LaidOut(r), NEW f \in Poms(files), NEW g \in Poms(files)
          PROVE  ~IsPrefix(Front(f.path) \o <<"src">>, Front(g.path))
      <4>1. f \in files /\ g \in files
        BY DEF Poms, Readable
      <4>2. PICK p \in Seq(PathNames) : p = Front(f.path) /\ Front(Put(n, f).path) = Joined(n, p)
        BY <2>5, <4>1, PutJoined
      <4>3. PICK q \in Seq(PathNames) : q = Front(g.path) /\ Front(Put(n, g).path) = Joined(n, q)
        BY <2>5, <4>1, PutJoined
      <4>4. PICK src \in Seq(PathNames) : src = <<"src">>
        BY PathsFit
      <4>5. Put(n, f) \in Poms(Below(r.tree, r.path)) /\ Put(n, g) \in Poms(Below(r.tree, r.path))
        BY <1>1, <2>4, <2>7
      <4>6. ~IsPrefix(Front(Put(n, f).path) \o <<"src">>, Front(Put(n, g).path))
        BY <1>1, <2>9, <3>4, <4>5 DEF LaidOut
      <4>7. IsPrefix(Joined(n, p) \o src, Joined(n, q)) <=> IsPrefix(p \o src, q)
        BY JoinedFacts
      <4>8. QED  BY <4>2, <4>3, <4>4, <4>6, <4>7
    <3>5. LaidOut(r) => LaidOut(below)
      BY <2>1, <2>2, <3>4 DEF LaidOut
    <3>6. QED  BY <2>4, <3>3, <3>5 DEF below
  <2>10. CASE op = "java"
    <3>1. /\ Len(rest) = Len(Tail(rest)) + 1 /\ Len(Tail(rest)) \in Nat
      BY <2>4, JoinedFacts
    <3>2. ASSUME NEW f \in files
          PROVE  /\ Put(n, f).blob = f.blob /\ Last(Put(n, f).path) = Last(f.path)
                 /\ Len(Put(n, f).path) > Len(rest) + 1 <=> Len(f.path) > Len(Tail(rest)) + 1
      <4>1. PICK p \in Seq(PathNames) : p = f.path
        BY <2>5
      <4>2. /\ Put(n, f).blob = f.blob /\ Last(Put(n, f).path) = Last(f.path)
            /\ Put(n, f).path = Joined(n, p)
        BY <2>5, <4>1, PutJoined
      <4>3. Len(Joined(n, p)) = Len(p) + 1 /\ Len(p) \in Nat
        BY JoinedFacts
      <4>4. QED  BY <3>1, <4>1, <4>2, <4>3
    <3>3. WantedFiles(r) = {f \in JavaFiles(Seen(n, files)) : Len(f.path) > Len(rest) + 1}
      BY <1>1, <2>4, <2>10 DEF WantedFiles
    <3>4. WantedFiles(below) = {f \in JavaFiles(files) : Len(f.path) > Len(Tail(rest)) + 1}
      BY <2>1, <2>2, <2>10 DEF WantedFiles
    <3>5. WantedFiles(r) = Seen(n, WantedFiles(below))
      <4>1. \A f \in files : Put(n, f) \in WantedFiles(r) <=> f \in WantedFiles(below)
        BY <3>2, <3>3, <3>4 DEF JavaFiles, Readable, Seen
      <4>2. \A g \in WantedFiles(r) : \E f \in files : g = Put(n, f)
        BY <3>3 DEF JavaFiles, Readable, Seen
      <4>3. WantedFiles(below) \subseteq files
        BY <3>4 DEF JavaFiles, Readable
      <4>4. QED  BY <4>1, <4>2, <4>3 DEF Seen
    <3>6. LaidOut(below)
      BY <2>1, <2>10 DEF LaidOut
    <3>7. QED  BY <2>4, <2>8, <3>5, <3>6 DEF below
  <2>11. QED  BY <2>9, <2>10
<1>4. QED  BY <1>2, <1>3

LEMMA WalkRoot ==
  ASSUME NEW W, NEW value, Consistent(W, value), NEW w \in W,
         w.tree \in Trees, w.dirs = {}, w.rest = << >>, LaidOut(Ask(w.tree, w.rest, w.op))
  PROVE  value[w.tree] = WantedFiles(Ask(w.tree, w.rest, w.op))
<1> DEFINE r == Ask(w.tree, w.rest, w.op)
           files == GitFiles[w.tree]
<1>1. r.tree = w.tree /\ r.path = << >> /\ r.op = w.op /\ Below(r.tree, r.path) = files
  BY BelowRoot DEF Ask
<1> HIDE DEF r
<1>2. CASE w.op # "java"
  <2>1. Laid(w.tree, {})
    BY <1>1, <1>2 DEF LaidOut, Laid, r
  <2>2. Searched(w)
    BY <1>2, <2>1 DEF Searched
  <2>3. value[w.tree] = FilesOf(w.op, w.tree, {})
    BY <2>2, WalkGives
  <2>4. WantedFiles(r) = MavenFiles(r, files)
    BY <1>1, <1>2 DEF WantedFiles
  <2>5. ModulesOf(r, files) = ModulesIn(w.op, w.tree)
    BY <1>1 DEF ModulesOf, ModulesIn, TreePoms
  <2>6. ASSUME NEW f \in files
        PROVE  f \in MavenFiles(r, files) <=> Taken(w.op, w.tree, {}, f)
    <3>1. f \in Poms(files) /\ Front(f.path) \in ModulesIn(w.op, w.tree) <=>
            /\ f.blob \notin Unreadable /\ Last(f.path) = "pom.xml"
            /\ w.op = "single" => Front(f.path) = << >>
      BY DEF Poms, Readable, ModulesIn, TreePoms
    <3>2. QED  BY <2>5, <3>1 DEF MavenFiles, Taken, Sourced, Poms, JavaFiles, Readable
  <2>7. MavenFiles(r, files) \subseteq files
    BY DEF MavenFiles, Poms, JavaFiles, Readable
  <2>8. QED  BY <2>3, <2>4, <2>6, <2>7 DEF FilesOf, r
<1>3. CASE w.op = "java"
  <2>1. value[w.tree] = UNION {Under(e.name, Gives(w, e, value)) : e \in Range(w.tree)}
    BY DEF Consistent
  <2>2. \A e \in Range(w.tree) :
          Gives(w, e, value) = IF IsTree(e) THEN JavaBelow(e.object) ELSE {}
    BY <1>3 DEF Gives, Descends, SourcesAt
  <2>3. \A g : g \in files <=>
          \E e \in Range(w.tree) : \E f \in Inside(e) : g = Put(e.name, f)
    BY InTree
  <2>4. ASSUME NEW e \in Range(w.tree), NEW f \in Inside(e)
        PROVE  Put(e.name, f) \in JavaFiles(files) /\ Len(Put(e.name, f).path) > 1 <=>
                 IsTree(e) /\ f \in JavaBelow(e.object)
    <3>1. PICK n \in PathNames : n = e.name
      BY PutFacts
    <3>2. PICK p \in Seq(PathNames) : p = f.path
      BY PutFacts
    <3>3. Len(Put(e.name, f).path) = Len(p) + 1 /\ Len(p) \in Nat
      BY <3>1, <3>2, JoinedFacts DEF Put, Joined
    <3>4. Put(e.name, f) \in files
      BY <2>3
    <3>5. CASE IsTree(e)
      <4>1. /\ f \in GitFiles[e.object] /\ Put(e.name, f).blob = f.blob /\ p # << >>
            /\ Last(Put(e.name, f).path) = Last(f.path)
        BY <3>2, <3>5, PutFacts DEF Inside
      <4>2. Len(p) > 0
        BY <3>3, <4>1, EmptySeq
      <4>3. QED  BY <3>3, <3>4, <3>5, <4>1, <4>2 DEF JavaBelow, JavaFiles, Readable
    <3>6. CASE ~IsTree(e)
      <4>1. p = << >>
        BY <3>2, <3>6, PutFacts
      <4>2. Len(p) = 0
        BY <4>1
      <4>3. QED  BY <3>3, <3>6, <4>2
    <3>7. QED  BY <3>5, <3>6
  <2>5. WantedFiles(r) = {f \in JavaFiles(files) : Len(f.path) > 1}
    BY <1>1, <1>3 DEF WantedFiles
  <2>6. JavaFiles(files) \subseteq files
    BY DEF JavaFiles, Readable
  <2>7. \A g : g \in value[w.tree] <=>
          \E e \in Range(w.tree) : IsTree(e) /\
            \E f \in JavaBelow(e.object) : g = Put(e.name, f)
    <3>1. \A e \in Range(w.tree) : Under(e.name, Gives(w, e, value)) =
            IF IsTree(e) THEN {Put(e.name, f) : f \in JavaBelow(e.object)} ELSE {}
      BY <2>2 DEF Under, Put
    <3>2. \A g : g \in value[w.tree] <=>
            \E e \in Range(w.tree) : g \in Under(e.name, Gives(w, e, value))
      BY <2>1
    <3>3. \A g : \A e \in Range(w.tree) : g \in Under(e.name, Gives(w, e, value)) <=>
            IsTree(e) /\ \E f \in JavaBelow(e.object) : g = Put(e.name, f)
      BY <3>1
    <3>4. QED  BY <3>2, <3>3, Zenon
  <2>8. \A e \in Range(w.tree) : IsTree(e) => JavaBelow(e.object) \subseteq Inside(e)
    BY DEF JavaBelow, JavaFiles, Readable, Inside
  <2>9. \A g : g \in WantedFiles(r) <=> g \in value[w.tree]
    <3>1. ASSUME NEW g \in WantedFiles(r) PROVE g \in value[w.tree]
      <4>1. g \in files /\ g \in JavaFiles(files) /\ Len(g.path) > 1
        BY <2>5, <2>6
      <4>2. PICK e \in Range(w.tree) : \E f \in Inside(e) : g = Put(e.name, f)
        BY <2>3, <4>1
      <4>3. PICK f \in Inside(e) : g = Put(e.name, f)
        BY <4>2
      <4>4. IsTree(e) /\ f \in JavaBelow(e.object)
        BY <2>4, <4>1, <4>3
      <4>5. QED  BY <2>7, <4>3, <4>4
    <3>2. ASSUME NEW g \in value[w.tree] PROVE g \in WantedFiles(r)
      <4>1. PICK e \in Range(w.tree) : IsTree(e) /\
              \E f \in JavaBelow(e.object) : g = Put(e.name, f)
        BY <2>7
      <4>2. PICK f \in JavaBelow(e.object) : g = Put(e.name, f)
        BY <4>1
      <4>3. f \in Inside(e)
        BY <2>8, <4>1
      <4>4. QED  BY <2>4, <2>5, <4>1, <4>2, <4>3
    <3>3. QED  BY <3>1, <3>2
  <2>10. QED  BY <2>9 DEF r
<1>4. QED  BY <1>2, <1>3

(* A walk from the root of a commit gives what is asked for.               *)
Starting(w) ==
  /\ w.tree \in Trees /\ w.dirs = {} /\ w.rest \in Seq(PathNames)
  /\ LaidOut(Ask(w.tree, w.rest, w.op))

LEMMA WalkMeans ==
  ASSUME NEW W, NEW value, Consistent(W, value), NEW w \in W, Starting(w)
  PROVE  value[w.tree] = WantedFiles(Ask(w.tree, w.rest, w.op))
<1> DEFINE T == {k \in Nat : \A v \in W : Starting(v) /\ Len(v.rest) = k =>
                   value[v.tree] = WantedFiles(Ask(v.tree, v.rest, v.op))}
<1>1. 0 \in T
  <2>1. SUFFICES ASSUME NEW v \in W, Starting(v), Len(v.rest) = 0
                 PROVE  value[v.tree] = WantedFiles(Ask(v.tree, v.rest, v.op))
    OBVIOUS
  <2>2. v.rest = << >>
    BY <2>1, EmptySeq DEF Starting
  <2>3. QED  BY <2>1, <2>2, WalkRoot DEF Starting
<1>2. ASSUME NEW k \in Nat, k \in T PROVE k + 1 \in T
  <2>1. SUFFICES ASSUME NEW v \in W, Starting(v), Len(v.rest) = k + 1
                 PROVE  value[v.tree] = WantedFiles(Ask(v.tree, v.rest, v.op))
    OBVIOUS
  <2>2. PICK t \in Trees : t = v.tree
    BY <2>1 DEF Starting
  <2>3. PICK rest \in Seq(PathNames) : rest = v.rest
    BY <2>1 DEF Starting
  <2>4. rest # << >> /\ Tail(rest) \in Seq(PathNames) /\ Len(Tail(rest)) = k
    BY <2>1, <2>3, EmptySeq
  <2>5. value[t] = UNION {Under(e.name, Gives(v, e, value)) : e \in Range(t)}
    BY <2>2 DEF Consistent
  <2>6. \A e \in Range(t) :
          Gives(v, e, value) =
            IF IsTree(e) /\ e.name = Head(rest) THEN value[e.object] ELSE {}
    BY <2>2, <2>3, <2>4 DEF Gives, Descends, SourcesAt
  <2>7. CASE \A e \in Range(t) : IsTree(e) => e.name # Head(rest)
    <3>1. WantedFiles(Ask(t, rest, v.op)) = {}
      BY <2>2, <2>3, <2>4, <2>7, WantedBelow
    <3>2. \A name : Under(name, {}) = {}
      BY DEF Under
    <3>3. value[t] = {}
      BY <2>5, <2>6, <2>7, <3>2
    <3>4. QED  BY <2>2, <2>3, <3>1, <3>3
  <2>8. ASSUME NEW e \in Range(t), IsTree(e), e.name = Head(rest)
        PROVE  value[t] = WantedFiles(Ask(t, rest, v.op))
    <3>1. /\ WantedFiles(Ask(t, rest, v.op)) =
               Under(e.name, WantedFiles(Ask(e.object, Tail(rest), v.op)))
          /\ LaidOut(Ask(e.object, Tail(rest), v.op))
      BY <2>1, <2>2, <2>3, <2>4, <2>8, WantedBelow DEF Starting
    <3>2. \A x \in Range(t) : x.name = e.name => x = e
      BY <2>2, DistinctNames DEF Range
    <3>3. value[t] = Under(e.name, value[e.object])
      <4>1. \A name : Under(name, {}) = {}
        BY DEF Under
      <4>2. \A x \in Range(t) : Under(x.name, Gives(v, x, value)) =
              IF x = e THEN Under(e.name, value[e.object]) ELSE {}
        BY <2>6, <2>8, <3>2, <4>1
      <4>3. QED  BY <2>5, <4>2
    <3>4. Deeper(v, e) \in W
      BY <2>2, <2>3, <2>4, <2>8 DEF Consistent, Descends
    <3>5. Deeper(v, e) = [tree |-> e.object, rest |-> Tail(rest), dirs |-> {}, op |-> v.op]
      BY <2>3, <2>4 DEF Deeper
    <3>6. e.object \in Trees
      BY <2>2, <2>8, EntryTypes
    <3>7. PICK u \in W : u = Deeper(v, e)
      BY <3>4
    <3>8. u.tree = e.object /\ u.rest = Tail(rest) /\ u.op = v.op /\ u.dirs = {}
      BY <3>5, <3>7
    <3>9. Starting(u) /\ Len(u.rest) = k
      BY <2>4, <3>1, <3>6, <3>8 DEF Starting
    <3>10. value[e.object] = WantedFiles(Ask(e.object, Tail(rest), v.op))
      BY <1>2, <3>8, <3>9
    <3>11. QED  BY <3>1, <3>3, <3>10
  <2>9. QED  BY <2>2, <2>3, <2>7, <2>8
<1>3. Nat \subseteq T
  <2> HIDE DEF T
  <2>1. QED  BY <1>1, <1>2, Induction
<1>4. Len(w.rest) \in Nat
  BY LenProperties DEF Starting
<1>5. QED  BY <1>3, <1>4

(* The requests of a session are in the walks that make one thing of a     *)
(* tree, which is then what is wanted of it.                               *)
LEMMA RequestMeant ==
  ASSUME NEW W, NEW value, Consistent(W, value), NEW r \in Requests,
         Occurrence(r) \in W, LaidOut(r)
  PROVE  value[r.tree] = WantedFiles(r)
<1>1. PICK w \in W : w = Occurrence(r)
  OBVIOUS
<1>2. w.tree = r.tree /\ w.rest = r.path /\ w.dirs = {} /\ w.op = r.op
  BY <1>1 DEF Occurrence
<1>3. Ask(w.tree, w.rest, w.op) = r
  BY <1>2 DEF Ask, Requests
<1>4. r.tree \in Trees /\ r.path \in Seq(PathNames)
  <2>1. PICK p \in Seq(STRING) : p = r.path
    BY DEF Requests
  <2>2. STRING \subseteq PathNames
    BY DEF PathNames
  <2>3. p \in Seq(PathNames)
    BY <2>2, Wider
  <2>4. QED  BY <2>1, <2>3 DEF Requests
<1>5. Starting(w)
  BY <1>2, <1>3, <1>4 DEF Starting
<1>6. QED  BY <1>2, <1>3, <1>5, WalkMeans

(* What handle_java_src makes of a directory is complete in all sessions,  *)
(* whatever was cached: a package being walked has, with what is left of   *)
(* it and what is being made, its Java files, and object_map_java has for  *)
(* every entry the files below it.                                         *)
THEOREM PackagesAlwaysWhole == Spec => []Whole
<1> DEFINE Good == Inv(FALSE) /\ Whole
<1>1. Init => Good
  BY Begins, WholeBegins
<1>2. Good /\ [Next]_vars => Good'
  <2>1. SUFFICES ASSUME Inv(FALSE), Whole, [Next]_vars PROVE Good'
    OBVIOUS
  <2>2. Inv(FALSE)'
    BY <2>1, NextKeeps
  <2>3. Whole'
    BY <2>1, <2>2, WholeStep
  <2>4. QED  BY <2>2, <2>3
<1>3. Good => Whole
  OBVIOUS
<1> HIDE DEF Good
<1>4. QED  BY <1>1, <1>2, <1>3, PTL DEF Spec

(* The tree made for a commit has the pom.xml and the Java sources that    *)
(* were asked for and nothing else, at their paths and with their          *)
(* contents, if the session makes the same of a directory wherever it      *)
(* finds it, and no module has a pom.xml below its "src".                  *)
THEOREM SourcesCompleteWithOneMeaning ==
  Spec /\ OneMeaning(session) /\ (\A r \in Range(session) : LaidOut(r))
    => []SourcesComplete
<1> DEFINE Good(W, value) == Inv(FALSE) /\ Whole /\ WholeModules(W, value)
           Starts(W, value) ==
             /\ Consistent(W, value)
             /\ \A r \in Range(session) : Occurrence(r) \in W /\ LaidOut(r)
<1>1. ASSUME NEW W, NEW value
      PROVE  Spec /\ Starts(W, value) => []SourcesComplete
  <2>1. Init /\ Starts(W, value) => Good(W, value)
    <3>1. SUFFICES ASSUME Init, Starts(W, value) PROVE Good(W, value)
      OBVIOUS
    <3>2. Inv(FALSE) /\ Whole
      BY <3>1, Begins, WholeBegins
    <3>3. Range(session) \subseteq Requests
      BY <3>2, ElementOfSeq DEF Inv, Range
    <3>4. \A r \in Range(session) : value[r.tree] = WantedFiles(r)
      BY <3>1, <3>3, RequestMeant
    <3>5. Meant(W, value, session)
      BY <3>1, <3>4 DEF Meant
    <3>6. QED  BY <3>1, <3>2, <3>5, WholeModulesBegin
  <2>2. Good(W, value) /\ [Next]_vars => Good(W, value)'
    <3>1. SUFFICES ASSUME Inv(FALSE), Whole, WholeModules(W, value), [Next]_vars
                   PROVE  Good(W, value)'
      OBVIOUS
    <3>2. Inv(FALSE)'
      BY <3>1, NextKeeps
    <3>3. Whole'
      BY <3>1, <3>2, WholeStep
    <3>4. WholeModules(W, value)'
      BY <3>1, <3>2, WholeModulesStep
    <3>5. QED  BY <3>2, <3>3, <3>4
  <2>3. Good(W, value) => SourcesComplete
    BY DEF WholeModules, MapsWhole, CommitsWhole, SourcesComplete
  <2> HIDE DEF Good, Starts
  <2>4. QED  BY <2>1, <2>2, <2>3, PTL DEF Spec
<1>2. QED  BY <1>1 DEF OneMeaning
=============================================================================
