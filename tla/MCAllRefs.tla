----------------------------- MODULE MCAllRefs -----------------------------
(* Small trees, whose nodes are listed with their children before them;    *)
(* what is used twice is shared.                                           *)
EXTENDS AllRefs

Of(kind, label, children, bytes) ==
  [kind |-> kind, label |-> label, children |-> children, bytes |-> bytes]

Leaf(kind, bytes) == Of(kind, "", << >>, bytes)
Node(kind, children) == Of(kind, "", children, 0)
Titled(kind, label, children) == Of(kind, label, children, 0)

\* a class with an inner class, in two files of a package and in a test
SharedTypes == <<
  Leaf("Identifier", 1),
  Leaf("Other", 2),
  Node("ClassBody", <<2>>),
  Node("ClassDeclaration", <<1, 3>>),
  Node("ClassBody", <<2, 4, 2>>),
  Node("ClassDeclaration", <<1, 5>>),
  Node("PackageDeclaration", <<2, 2, 1>>),
  Titled("Program", "A.java", <<7, 6>>),
  Titled("Program", "B.java", <<4, 6>>),
  Titled("Directory", "p", <<8, 9>>),
  Titled("Directory", "java", <<10>>),
  Titled("MavenDirectory", "main", <<11>>),
  Titled("Program", "T.java", <<2, 4>>),
  Titled("Directory", "java", <<8, 13>>),
  Titled("MavenDirectory", "test", <<14>>),
  Titled("MavenDirectory", "src", <<12, 15>>),
  Titled("xml_SourceFile", "pom.xml", << >>),
  Titled("MavenDirectory", "", <<17, 16>>)>>

\* n nodes of a file, in two Maven modules, one inside the other
Project(n, code, program) ==
  code \o <<
    Titled("Program", "A.java", program),
    Titled("Directory", "p", <<n + 1>>),
    Titled("Directory", "java", <<n + 2>>),
    Titled("MavenDirectory", "resources", << >>),
    Titled("MavenDirectory", "main", <<n + 3, n + 4>>),
    Titled("MavenDirectory", "src", <<n + 5>>),
    Titled("xml_SourceFile", "pom.xml", << >>),
    Titled("MavenDirectory", "m", <<n + 7, n + 6>>),
    Titled("MavenDirectory", "", <<n + 7, n + 8>>)>>

\* locals, parameters, anonymous and local classes in a method
Locals == Project(17, <<
  Leaf("Identifier", 1),
  Leaf("Other", 2),
  Node("LambdaExpression", <<1, 2, 1>>),
  Node("InferredParameters", <<2, 1>>),
  Node("LambdaExpression", <<4, 2, 3>>),
  Node("ClassBody", <<2>>),
  Node("ClassDeclaration", <<1, 6>>),
  Node("ClassBody", <<2, 7>>),
  Node("ObjectCreationExpression", <<2, 8>>),
  Node("ExpressionStatement", <<9>>),
  Node("LocalVariableDeclaration", <<2, 1>>),
  Node("Block", <<2, 11, 10, 7, 2>>),
  Node("FormalParameter", <<2, 1>>),
  Node("FormalParameters", <<2, 13>>),
  Node("MethodDeclaration", <<1, 14, 12>>),
  Node("ClassBody", <<15, 5>>),
  Node("ClassDeclaration", <<1, 16>>)>>, <<17>>)

\* an enum whose constant has a class in its body, and statements with heads
Enums == Project(15, <<
  Leaf("Identifier", 1),
  Leaf("Other", 2),
  Node("ClassBody", <<2>>),
  Node("ClassDeclaration", <<1, 3>>),
  Node("ClassBody", <<4, 2>>),
  Node("EnumConstant", <<1, 5>>),
  Node("Resource", <<1, 2>>),
  Node("ResourceSpecification", <<2, 7>>),
  Node("TryStatement", <<8, 2>>),
  Node("EnhancedForVariable", <<2, 1>>),
  Node("EnhancedForStatement", <<10, 2>>),
  Node("Block", <<9, 11>>),
  Node("EnumBodyDeclarations", <<12, 4>>),
  Node("EnumBody", <<6, 2, 13>>),
  Node("EnumDeclaration", <<1, 14>>)>>, <<15, 2>>)

\* a file of one class with some code in its body
Lone(n, code, body) ==
  Project(n + 2, code \o <<Node("ClassBody", body), Node("ClassDeclaration", <<1, n + 1>>)>>,
          <<n + 2>>)

\* a local, and a class, in a case of a switch
Switch == Lone(8, <<
  Leaf("Identifier", 1),
  Leaf("Other", 2),
  Node("ClassBody", <<2>>),
  Node("ClassDeclaration", <<1, 3>>),
  Node("LocalVariableDeclaration", <<2, 1>>),
  Node("SwitchBlockStatementGroup", <<2, 5, 2>>),
  Node("SwitchBlockStatementGroup", <<1, 4>>),
  Node("SwitchBlock", <<6, 7>>)>>, <<2, 8>>)

\* a class in a record
RecordType == Lone(5, <<
  Leaf("Identifier", 1),
  Node("ClassBody", <<1>>),
  Node("ClassDeclaration", <<1, 2>>),
  Node("ClassBody", <<3, 1>>),
  Node("RecordDeclaration", <<1, 4>>)>>, <<5>>)

\* a field as the resource of a try statement
FieldResource == Lone(4, <<
  Leaf("Identifier", 1),
  Leaf("FieldAccess", 2),
  Node("Resource", <<2>>),
  Node("ResourceSpecification", <<1, 3>>)>>, <<4>>)

\* a local class, with a class that has more before it than the block has nodes
LocalTypes == Lone(7, <<
  Leaf("Identifier", 1),
  Leaf("Other", 2),
  Node("ClassBody", <<1>>),
  Node("ClassDeclaration", <<1, 3>>),
  Node("ClassBody", <<2, 1, 2, 4>>),
  Node("ClassDeclaration", <<1, 5>>),
  Node("Block", <<2, 6>>)>>, <<7, 2>>)

\* a package with a comment before its name, and one whose name has a dot
Packages == <<
  Leaf("Identifier", 1),
  Leaf("Other", 1),
  Leaf("Comment", 2),
  Node("ClassBody", <<1>>),
  Node("ClassDeclaration", <<1, 4>>),
  Node("PackageDeclaration", <<2, 2, 3, 1>>),
  Titled("Program", "A.java", <<6, 5, 2>>),
  Node("ScopedAbsoluteIdentifier", <<1, 2, 1>>),
  Node("PackageDeclaration", <<2, 2, 8>>),
  Titled("Program", "B.java", <<9, 5>>),
  Titled("Directory", "p", <<7, 10>>),
  Titled("Directory", "java", <<11>>),
  Titled("MavenDirectory", "main", <<12>>),
  Titled("MavenDirectory", "src", <<13>>),
  Titled("xml_SourceFile", "pom.xml", << >>),
  Titled("MavenDirectory", "", <<15, 14>>)>>

\* a class of no package, in the source folder itself
NoPackage == <<
  Leaf("Identifier", 1),
  Node("ClassBody", <<1>>),
  Node("ClassDeclaration", <<1, 2>>),
  Titled("Program", "A.java", <<3>>),
  Titled("Directory", "java", <<4>>),
  Titled("MavenDirectory", "main", <<5>>),
  Titled("MavenDirectory", "src", <<6>>),
  Titled("xml_SourceFile", "pom.xml", << >>),
  Titled("MavenDirectory", "", <<8, 7>>)>>

\* the same sources in both folders
TwinFolders == <<
  Leaf("Identifier", 1),
  Node("ClassBody", <<1>>),
  Node("ClassDeclaration", <<1, 2>>),
  Titled("Program", "A.java", <<3>>),
  Titled("Directory", "p", <<4>>),
  Titled("Directory", "java", <<5>>),
  Titled("MavenDirectory", "main", <<6>>),
  Titled("MavenDirectory", "test", <<6>>),
  Titled("MavenDirectory", "src", <<7, 8>>),
  Titled("xml_SourceFile", "pom.xml", << >>),
  Titled("MavenDirectory", "", <<10, 9>>)>>

MCTrees ==
  <<SharedTypes, Locals, Enums, Switch, NoPackage, TwinFolders,
    RecordType, FieldResource, LocalTypes, Packages>>
MCMaxMatches == <<1, 1, 1, 2, 2, 2, 2, 2, 2, 1>>
=============================================================================
