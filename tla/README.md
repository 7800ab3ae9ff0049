# The HyperAST, specified

HyperAST (Rust, under `src/hyperAST`) turns the history of a git repository into
one directed acyclic graph of syntax nodes: every file of every commit is parsed,
every subtree is stored once, and what was computed of a subtree or of a git
object is kept and reused by the later files and commits. Reference analysis and
reference search run on that graph.

The program is sequential (only the offline evaluation tool uses threads) and
keeps nothing on disk. What is hard about it is **reuse**: hash-consing under
colliding hashes, metadata and whole directories served from caches that were
filled in another context, filters that must not deny what they summarise,
traversals of shared subtrees that must still know where they are, and text that
must read back byte for byte. Those are the subject here.

## 1. Inventory

| Component (source) | State | Operations | Correct when |
|---|---|---|---|
| Node store (`hyper_ast/src/store/nodes/legion.rs`) | legion `World`; raw hash table `dedup` | `prepare_insertion`, `occupied_id`, `vacant` + `insert_after_prepare`, `resolve` | equal content, one id; one id, one content; also after the table is rehashed |
| Label store (`store/labels`) | string interner | `get_or_insert`, `get`, `resolve` | as the node store, for strings |
| Syntax hashes (`hashed.rs`, `utils.rs`) | none | `inner_node_hash`, `hash_factor`, `fast_exponentiation`, `clamp_u64_to_u32` | no unintended overflow; the power is the power |
| HTML scanner (`gen/tree-sitter/html/tree-sitter-html/src/scanner.cc`, `tag.h`) | `vector<Tag>`, saved in a fixed buffer after each token | `scan_*`, `serialize`, `deserialize` | end tags close the element they name, with what is left of the saved tags |
| Tree generation (`tree_gen/mod.rs`, `parser.rs`) | cursor, `has`, stack of accumulators, `sum_byte_length` | `gen` | terminates; loses no text |
| Java generator (`gen/tree-sitter/java/src/java_tree_gen_full_compress_legion_ref.rs`) | shared stores, `md_cache` | `init_val`, `pre`, `post`, `make`, `handle_spacing`, `handle_final_space`, `generate_file` | reads back as the file; cached metrics are right; no panic |
| XML generator (`gen/tree-sitter/xml/src/xml_tree_gen.rs`) | the same stores, no `md_cache` | the same | the same |
| Serialisation (`nodes.rs`) | none | `serialize`, `format_indentation` | inverse of generation |
| Filters (`filter/`, `impact/serialize.rs`) | bit arrays stored with nodes; hash `Table` | `bulk_insert`, `check_raw`, `CachedHasher` | never deny what was inserted |
| Reference analysis (`gen/tree-sitter/java/src/impact`) | `Solver`'s nodes, references, declarations; `PartialAnalysis` | `intern`, `extend`, `extend_map`, `local_solve_extend`, `counted_extend`, `resolve` | a copied reference means what it meant; places do not move |
| Preprocessed repository (`cvs/git/src/preprocessed.rs`) | stores, `object_map`, `object_map_pom`, `object_map_java`, commits | `pre_process`, `pre_process_single`, `handle_maven_commit`, `handle_java_commit`, `handle_maven_module`, `handle_java_src`, `fast_fwd`, `purge_caches` | each commit's tree is what the commit alone would give |
| Maven and Java accumulators (`maven.rs`, `java.rs`) | expected source directories; children, names, analysis | `push_*`, `drain_filter_strip` | poms precede what they declare; skipped analyses are known to be skipped |
| Positions (`position.rs`) | arena of parents and offsets; paths from its entries | `goto`, `inc`, `up`, `push`, `check`, `make_position` | a position designates the node it was made for |
| Reference search (`allrefs.rs`, `usage.rs`, `declarations.rs`, `maven.rs`) | two iterators, the search's scout and limit | `write_referencial_relations`, `find_*` | every declaration is searched, in all of its scope |
| Git access (`git.rs`) | none | revision walks | I/O |
| Benchmarks, client, evaluation, refsolver, notebooks | – | – | drivers and measurements |

Interaction: `pre_process` walks commits and calls `handle_maven_module`, which
calls `handle_java_src` on source directories; both call a generator for a file
not in their object map; the generator calls `gen`, which calls it back
(`pre`, `post`); `post` and `make` call the node store with an `eq` closure, and
`make` reads `md_cache`, extends the solver of the parent by those of the
children and stores a filter with the node; directories go directly to the node
store. `write_referencial_relations` then iterates over the declarations of a
finished tree and searches each one's references outward. All of them share
`SimpleStores`. Calls are synchronous; there are no messages or locks. The one
C++ part, the HTML scanner, is called back by the generated parser, which keeps
its own stack.

Hard to test, in one line each (`PROJECT.json` has the lines of code): stale or
context-dependent cache entries; caches that disagree with the store they shadow;
collisions and rehashes; order of pushes in the traversal; blank, empty and
unusual files; limits (`MAX_REFS`, filter thresholds, 32-bit arithmetic, the
scanner's buffer); renamings in the middle of a copy; identical subtrees on the
way of a search; loops that must leave.

## 2. Modules

| Module | Models | Composes |
|---|---|---|
| `Interner` | what callers expect of the store (abstract) | |
| `NodeStore` | `legion.rs` and the `eq` closures of its callers | refines `Interner` |
| `NodeHash` | `hashed.rs`, `clamp_u64_to_u32` | |
| `FastExponentiation` | the loop of `fast_exponentiation` | extends `NodeHash` |
| `StoreProofs` | theorems of `NodeStore`, of `NodeHash` and of the loop | extends `NodeStore`, `FastExponentiation`, `Induction` |
| `HtmlScanner` | `scanner.cc`, `tag.h`, and the contexts of the grammar that call them | |
| `HtmlScannerProofs` | theorems of `HtmlScanner` | extends `HtmlScanner`, `Induction` |
| `TreeGen` | `gen` with both generators, and `serialize` | extends `NodeHash`; takes the store as `Interner` describes it |
| `TreeGenProofs` | theorems of `TreeGen` | extends `TreeGen`, `Induction` |
| `References` | solvers and their copies (`impact/solver.rs`, the protocol of `partial_analysis.rs`), hashing of references and bloom filters | |
| `ReferencesProofs` | theorems of `References` | extends `References`, `Induction` |
| `PreProcessed` | `preprocessed.rs`, `maven.rs`, `java.rs` | takes a file's generation as one step (`TreeGen` has the steps), its analysis as a set (`References` has the nodes), and directories as `NodeStore` stores them (never found again) |
| `PreProcessedProofs` | theorems of `PreProcessed` | extends `PreProcessed`, `Induction` |
| `Positions` | `position.rs` | |
| `AllRefs` | `allrefs.rs`, `declarations.rs`, `IterMavenModules`, `successful_match` and `relax_*` of `usage.rs` | extends `Positions` |
| `PositionsProofs` | theorems of `Positions` | extends `Positions`, `Induction` |
| `AllRefsProofs` | theorems of `AllRefs` | extends `AllRefs`, `PositionsProofs` |
| `Induction` | induction over the natural numbers, for the proofs | |
| `MC*` | constants of the runs | extend the above |

### NodeStore
`world` is the legion world, a sequence of entities; an entity id is an index,
which is all the code uses of it (fresh, and comparable). Every push also goes to
`dedup`, so the table is the sequence `slot` of the hashes under which each id
sits; `capacity` is the number of items after which hashbrown reserves, and
`Grown` re-places every item by the hasher `insert_with_hasher` was given.
`pending` is the `PendingInsert`, which borrows the store mutably: the borrow
checker allows only one. `prepare_insertion` probes by hash and takes any entity
that the caller's closure accepts (`EqNode`, `EqSpaces`, `EqDirectory`); which
one, if several, depends on the table, hence `\E`. `handed` records the last
answer, for the properties.

The environment asks for any content whose children exist. `HashOf` is
uninterpreted but a function of the content; that the callers' hash is one is
`MetricsFaithful` of `TreeGen`.

### NodeHash, FastExponentiation
u32 arithmetic modulo `Word`; TLC's integers make a small word necessary in the
runs, and the proofs use 2^32. `Clamped` is what the expression of
`clamp_u64_to_u32` computes (its first operand is always 0), not what its name
suggests.

### HtmlScanner
tree-sitter never keeps the scanner's stack: before each external token it hands
the scanner the bytes saved with the previous one, so the stack *is*
`Deserialize(saved)`. What does not fit in the buffer comes back as `Unknown`
tags, while the parser still has its open elements, `opened`. A step is one call
of `scan` in a context of the grammar; the text is what the lexer would see next
(`look`), chosen as it is needed. `opened` is what makes `DepthAgrees` and
`EndTagMatches` statements about two parties.

`scan` passes over white space before it looks at anything, but not after the `<`
and `</` that it consumes itself to look for an implicit end. A name may be `apart`
from its bracket, then: `scan_implicit_end_tag` finds an empty name and answers
nothing (`NamedAtOnce`), the parser takes the bracket, and the next call finds the
name behind the space (`Named`). In `<p>< p>` the second paragraph is so opened in
the first, and in `<div><span></ div>` the end tag is an erroneous one, as no
implicit end of the span came before it. `opened` keeps of each element whether its
name was apart.

What the code does that its comments do not lead one to expect: a top-level `</x>`
never gets a token, though `grammar.js` allows an erroneous end tag in a fragment;
a script element that the buffer forgot is read as raw text up to `</STYLE`;
`<</script>` is missed, as `scan_raw_text` restarts the delimiter after the
character that broke it; and unknown tags are not closed "regardless of the next
closing tag" (`tag.h:313`) but only for one that names a remembered element.
`BeliefsSound`, `EndTagCloses` and the others are stated so that they hold with
these: `ChildrenAllowed` is about children whose name was not apart (void elements
have no child at all), and `EndTagCloses` about end tags whose name is not.

### TreeGen
One step is one iteration of the loop of `gen`: `Descend` (`goto_first_child`,
`pre`), `Advance` (`post`, `goto_next_sibling`, `pre`), `Ascend` (`post`,
`goto_parent`), preceded by `InitVal` and followed by `Return`
(`handle_final_space` and the root's `make`). `post` is the spaces before the
node (`HandleSpacing`), then `Make`. `Make` interns and, for Java, reads or fills
`md_cache`; a missing entry, or a blank that cannot be formatted, ends the
process (`PostPanics`, `ReturnPanics`). `compute_indentation` formats the gap before
a node from its last line break on, to no use here but for its panic: in `init_val`
that is `Indented`; in `pre` it fails only for a gap that `post`, for Java, fails for
later (for XML it does not panic), and is not modelled. The concrete tree is an
input: a preorder sequence with byte ranges. `Parsed` says what the generators may
take for granted of it, tree-sitter's contract: nodes lie in their parents, one after
the other, in preorder, and a leaf without a name is the text of its keyword. In Java,
where every token of the grammar is a node, an inner node also ends where its last
child does and the root starts where its first child does. In XML it need not: the
prolog ends after a hidden `_S`, the root starts with the text, and the characters of
attribute values, comments and CDATA are hidden tokens (`grammar.js:88-140, 170-220`),
that is, bytes between nodes, or behind the last child of a node. A token that the
parser supposed (`MISSING`) is a keyword of no text, and is left out of `Parsed`: it
reads back as its keyword, which the file does not have. `TextOf` is `serialize`.

What the XML generator makes of hidden text is in the model: `handle_spacing` drops a
gap that `try_get_spacing` cannot format, whole, and nothing looks at what is between
the end of an inner node's last child and its own end. `Kept` says which bytes of a
file are kept: those of leaves, and those of gaps that are kept whole; a gap goes
from the end of the elder sibling, or the start of the parent, to a node. `RoundTrip`
is about what is kept, which is everything in Java, and `SameRootSameFile` says that
what is not kept makes no difference. So the newline after `<?xml ...?>`, the end of
a prolog, is lost, and a `pom.xml` reads back without the values of its attributes
and the text of its comments, and two that differ only there are one file of the graph.
`xml_tree_gen.rs:597-598` says that the spaces at the end are kept "to be a bijection";
it is one up to what `Kept` says, and no more.

`TypeOf` is one `Type` per kind, `ERROR` being the same for both languages, and
`HasType` where there is one: `parse_xml` panics (`types.rs:1059`) on five kinds of
its grammar, `PI`, `ExternalID`, `PublicID`, `GEDecl` and `ignoreSectContents`, which
is the constant `Untyped`. `init_val` and `pre` ask for the type before anything else
(`InitVal`, `PrePanics`). Java's `Type::new` knows all visible kinds of its grammar.

Where the code gives up, and `RoundTrip` and `NoPanic` say so: an ERROR leaf the XML
generator stored has no entry in `md_cache`, and panics the Java generator that meets
it; so does a processing instruction the XML generator itself (`HasType`); a vertical
tab is white space for the Java grammar and panics `format_indentation`, as does, for
XML, a byte that is no blank on the line of the root, before it; an XML file that
starts with blanks loses them (`generate_file` of `xml_tree_gen.rs:628` has no leading
spaces to handle); an empty file reads back as its name; a file of blanks is doubled
(section 5).

### References
A solver is a list of nodes that refer to earlier ones by place. `acc` is the
solver under construction, `stored` the finished subtrees, `job` the copy in
progress: a solver is copied into another node by node, the parts of a node
before it, which is the recursion of `intern_external` in every order that it may
take. The copies differ by what they rename: `extend` nothing, `extend_map` by
the map a class body primes (`ExtendClassBody`), `local_solve_extend` by the
declarations of local variables; `resolve` is the plain copy after a search that
may drop or replace any reference (`solve_aux`, 1300 lines of heuristics by kind
of node, is left open, as is the dispatch that decides which references a
construct makes: any reference may be added). `counted_extend` ends a subtree: a
size of filter is chosen by the count of the copy, and the filter is filled with
the hashes of what was copied. A filter is its set of bits and its hasher a
constant, `Step`, so that the theorems hold for any.
The table that memoises hashes has no state of its own to get wrong but its
widths, which are a hazard without a property. Declarations around a class body
only serve the search left open.

### PreProcessed
One step is one iteration of the loop of `handle_maven_module` or of
`handle_java_src`. A git object *is* its content (an Oid is a hash of it), so a
map keyed by Oid is a function on trees and blobs. The stacks hold accumulators;
the labels, names and children lists are those of the entities. A *session* is a
sequence of calls on one repository, each with a tree, a `dir_path` and an
operation: `pre_process` (commits between two revisions, `handle_maven_commit`),
`pre_process_single` and `handle_java_commit`; `fast_fwd` follows the `dir_path`.
The two expected lists `main_dirs` and `test_dirs` are treated alike by the code
but for the name of the push and are one set, `dirs`; `handle_pom_file` answers
constants and no submodule, so `is_maven_module` is never true and the `..` case
(a `todo!`) is not reachable. An analysis is the set of its references and
declarations with an uninterpreted `Resolve`; the filter stored with a directory
is the set it was made of, or `Much`.

Two facts beside the findings: of two equal directories under two names both get
the label of the first, and `handle_java_src` keys a nested directory by the name
of its source directory, so that one that has this name itself panics when it is
met again (`OnlyNamesakesPanic`: nothing else does).

### Positions, AllRefs
A place is a path from the root, since equal subtrees are one node. `Positions`
has the three forms the code gives a path (`StructuralPosition`, a `Scout` on an
entry of the `StructuralPositionStore`, an `SpHandle`), what each operation makes
of them, what `check` and `check_with` verify (`Linked`), and the positions
`make_position` computes. `AllRefs` has two iterators (modules, then the
declarations of their source folders) as frames on a stack beside a path, and
the walk of a search outward from a declaration: a step is an iteration of one of
the loops. `find_all` may match any place below the one it is given;
what is then done with the position (`successful_match`, the climb of
`relax_to_type`) is modelled. `search.at` and `found` are trails that the
operations on the store are compared with.

Facts of the search, all of them in the model: a sibling that is the same node as the
one the walk comes from is skipped (`ScopeCovered` exempts exactly these twins, as in
`x -> x`), and so is a package of the other folder that is the node the walk came from
in its own, so that a test folder that has nothing else is never searched
(`SkipFolder`; `TwinFolder` is the exemption); from a type in the default package the
walk leaves its limit without meeting it, and the folders around are not gone through;
the whole other folder is given to `find_all` once per child that is not skipped, so
matches come more than once; in a block the loop moves a scout over the children from
the declaration on, at offsets counted from 0 (`.skip(prev_offset).enumerate()`), but
searches below `cursor.scout`, the whole block, once per child; out of types,
`prev_offset` is the place of the declaration in its *own* parent (`allrefs.rs:369`),
which the climb does not follow, so that for a class inside a local class the loop
over the block may have no child left and the block is not searched at all
(`LeaveBlockOfType`, `CutShort`); a package declaration in which `remake_pkg_ref`
finds no name, since there is a comment or an annotation before it or a space at one
of its dots, ends the search as blocked before the rest of its file, the package and
the folders (`LeavePackageNameless`); mirror packages are never found, as
`find_package_in_other_folders` is given the same path twice; `is_parameter` includes
`Resource`, so the later branch for it is dead; enum declarations are iterated over
but not searched; a local's own initializer (`int a = 1, b = a;`, or the bound of a
type parameter) is the child the walk comes from, and is not searched; in a `switch`,
a local is searched in its own group of statements only.

The walk panics, and the whole run ends, from a declaration that `Stops`: a resource
that is a field access, which has no identifier of its own (`try (this.r) {}`, the
unwrap of `allrefs.rs:537`; `StopAtNameless`); a type in a record, whose body is a
class body but which is not a type declaration (`panic!`, `allrefs.rs:835` and `:748`;
`StopAtBody`); a type in a `switch`, or directly below a statement without braces
(`todo!`, `allrefs.rs:890`; `StopAtOther`). `try_solve_node_with` could only fail at a
second package declaration, which the grammar does not give a file.
 Outside of it: `StructuralPositionStore::from` of
a longer path would make its entries their own parents, and positions of XML
nodes would panic; neither is asked for. The climb after a wrapped creation
(`relax_to_typed` through casts and parentheses) is left out.

## 3. Runs

| Run | Question | Result |
|---|---|---|
| `node_store` | collisions, growth, lookups | holds; implements `Interner` |
| `node_store_dirs` | are directories compressed too? | no: `eq` looks for a component no entity has |
| `fast_exponentiation` | power modulo the word | yes, and the loop ends |
| `html_scanner` | does a stack that is saved in too small a buffer still close the right elements? | yes, and it gets to the end tag, if its name follows at once |
| `tree_gen` | pairs of Java and XML files over one store, ERROR nodes, odd blanks, hidden text and unknown kinds included | all hold: files read back as what is kept of them, Java ones whole, no wrong metric or hash is kept, and `gen` ends |
| `tree_gen_blank` | does a blank file read back? | no |
| `references` | solvers built from solvers, and the filters made of them | all hold |
| `references_local` | blocks that declare local variables | no local leaves its block |
| `references_body` | does a class body keep what its names may mean? | no, if a qualified super type has the name of the class |
| `pre_processed` | sessions of several calls, `dir_path`, plain Java, Maven modules with and without search | all hold where no directory changes its role; it ends |
| `pre_processed_late` | a directory that comes into a module | reused without its sources |
| `all_refs` | the search of references over trees with shared subtrees | all hold; every declaration is searched, unless one stops the program |

**What the properties say.** `NoTwins` and `HandedMeansAsked` are the two directions
of hash-consing; `RefinesInterner` is the whole contract. `RoundTrip` holds at *every*
step of the walk (`NothingLost`: the stacked gaps and children spell what is kept of
the text up to the cursor) and for finished files. `MetricsFaithful`: size, height and
hash of every cached or stored subtree, recomputed from the graph, and `BytesLen`,
which `eq` does not compare, against every occurrence of a shared node.
`SameRootSameFile`: two files have one root if and only if they are the same
(`SameFile`): the same name, tree, text of the named leaves, and gaps kept as the same
spaces; all else, the names of inner nodes, hidden text and which of the blanks
formatted alike lay there, makes no difference. For Java that is the whole text, up to
the formats of blanks; for XML, two texts that differ in hidden text only share a
root. `NoPanic` is about every file, and excepts `ERROR` nodes, kinds without a `Type`
and bytes that have no format, before the root and, for Java, between leaves.

`DepthAgrees`, `BeliefsSound` and `ChildrenAllowed` relate the scanner's stack,
after any number of lossy saves, to the elements the parser has open;
`SavingIsStable`: saving what was restored loses nothing more, so that comments and
text, which save again, do no harm. `EndTagMatches` and `EndTagCloses`: an end tag
closes the element that has its name, and one that names a remembered element, without
a space before the name, does get there, by as many implicit ends as it takes.

`ExtendKeepsMeaning` compares the texts that a solver's references stand for
before and after a copy, `NoFalseNegative` those of a stored subtree with the bits
of its filter, and `FilterLoad` the filter with the count it was chosen by.
`PlacesStable`, `NoTwins` and `Grounded` are why places can be kept and compared
while solvers grow; `NoPanic` is the assertion of `intern_external`. `LocalsSolved`:
nothing made of a local variable leaves the block.

`SourcesComplete` states what Maven's layout makes of a commit (`WantedFiles`,
defined from the git tree and not from the loops) and compares it with the files
of the tree that was built. `NamesAgree`: a child's label is the name it is listed
under. `FiltersComplete`: a filter that can deny was made of the complete
analysis below it.

`PositionsRight`: files and offsets of declarations, references and of the cursor,
computed through the shared store, against those of their trails in the text.
`AlwaysLinked`: no `check` or assertion fails on the way, and no panic of the walk is
met but from a declaration that `Stops`; those inside `find_all` and the solver are not
in the model. `ScopeCovered` and `LimitHonoured` compare what `find_all` was given with
the scope of the declared name (`Scope`: for a type that stands in a file, the types of
the file, its folder and the test folder; for one that stands in a block or a creation,
that; for a local the place around it, its own initializer included). The leaves it may
miss are named: twins, and the three gaps of `PassedOver`, a walk out of types that is
`CutShort` by `skip(prev_offset)` or by a package without a name, a local's initializer,
and the other groups of its `switch`. `AllSearched`: every declaration of every module
is searched, once per place, and the program ends, or it stops at one that `Stops`.

**Bounds.**
- `NodeStore`: `MaxNodes` 3 and `InitialCapacity` 1 grow the table twice and leave
  lookups after each growth; `MCHashOf` gives one hash to lists of the same length
  and to a label and a child, and `Tag` keeps its parity only, so that probes meet
  entities of other hashes.
- `FastExponentiation`: all bases of a small word (`Word` 16) and exponents past the
  point where products wrap.
- `HtmlScanner`: a buffer of 8 bytes, of which 4 are the header and the last is never
  used, holds three known tags, or a custom one alone and only as the first;
  `MaxDepth` 3 elements include every case that does not fit, up to two forgotten
  ones. The names are one of each kind the code tells apart: one that paragraphs
  forbid, void, raw text, one that starts like the raw text's end, and custom ones
  with and without bytes to cut (`NameMax` 1).
- `TreeGen`: Java files of up to 3 bytes over an identifier, a keyword and a blank,
  Java ones of up to 2 bytes over an identifier, an ERROR, a form feed and a vertical
  tab, XML ones of up to 2 bytes over an identifier, a blank and a byte that has no
  format, or of an ERROR or a kind without a `Type`, each with all trees of up to 4
  nodes above the tokens, under two names, in all ordered pairs: the second file meets
  every sharing with the first, and 3 bytes have a gap before, between and after
  tokens. Inner nodes of XML end with their last leaf or before the next one, so that
  hidden text lies between nodes and inside of them.
- `References`: one name and four kinds of node (a name, a type, choices, masks), up
  to 4, 3 and 2 nodes of their own in a subtree in a subtree in another, as it takes
  two copies to meet what a copy made; filters of 3 and 8 places whose hashes collide.
  The local run has arrays, accesses to them and primitives instead, which is what the
  types of variables and their uses are made of. Places of `super` are mapped in the
  module and exercised by the theorems only.
- `PreProcessed`: histories of one or two commits, with one or two modules each: two
  commits are what a stale entry needs, two modules what a shared or renamed
  directory needs; `MaxRefs` 4 and `MuchRefs` 2 are met by files of 1 to 4
  references. `Clean` restricts histories to those where every directory content
  has one name and one set of expected source directories (`Unambiguous`), as
  `pre_processed_late` shows what happens otherwise; the plain Java sessions have
  renamed packages and a module that moves down.
- `AllRefs`: ten trees, each for the branches of one part of the walk: types shared by
  two files and a test, everything local to a method, enums and statements with heads,
  a local and a class in a switch, a class of no package, the same package in both
  folders, a class in a record, a field as a resource, a class in a local class with
  more before it than the block has, packages with and without a name. One or two
  matches per search (`MaxMatches`) and two levels of climbing (`MaxUps`) meet every
  continuation of a match.

`CHECK_DEADLOCK FALSE` is used in the runs whose system stops: stores fill up to
their bounds, files, histories and searches end. `html_scanner` starts another
document instead.

**Fairness.** `FairSpec` of `TreeGen`, `PreProcessed`, `AllRefs` and `HtmlScanner` (the
parser asks for tokens until its input ends), and `LoopSpec` of `FastExponentiation`,
assume weak fairness of the step of the loop: one thread runs it and nothing in it
waits. Files, sessions and documents to process are not assumed to come.

## 4. Proofs

Every theorem is for all values of the constants that satisfy the named
assumptions of its module, which TLC evaluates in the runs.

**`StoreProofs`**, about `NodeStore`, for every set of kinds, labels and blanks, every hash
function and tag, every bound and initial capacity: `Spec` implies `[]TypeOK`,
`[]NoTwins`, `[]HandedMeansAsked` and `[]TableConsistent`, and implements
`Interner`. The assumptions are those of `NodeStore` (disjoint kinds, `None` is not a
label, a positive capacity, natural bounds, `HashOf` maps contents to hashes).

None of the four is inductive alone. `NoTwins` needs that a vacant entry means
"no such entity", which needs that each entity sits under the hash its lookup
uses, *also after a growth*, which needs that its `syntax` component is that
hash; and `HandedMeansAsked` needs that a pending hit was compared on all that
identifies a node, which for spaces (compared by `blank` alone) needs that only
spaces have blanks: the shape of contents in `TypeOK`. The conjunction of the four
is inductive (`IInv`); its proof has a step per action. Directories are
in the invariant's scope (they are never found, and always fresh) but
not in `NoTwins`, which `IsShared` restricts: `AllCompressed` is false.
The refinement maps every step to a step or a stutter of `Interner`; a probe that
hits is a lookup there only because what is found has the content asked for, which
is one more invariant (`FoundIsShared`).

About `NodeHash` and `FastExponentiation`: no unwrapped sum or product of
`inner_node_hash` exceeds 2^32 - 1, so debug builds cannot panic there, and this rests
on `clamp_u64_to_u32` keeping 16 bits: with 32 it would overflow.
`fast_exponentiation` is the power modulo the word for every base and exponent, by
induction over the halvings of the exponent (`Halves`); the loop, a step per
iteration, keeps "answer times base to the exponent" (`LoopInvariant`), hence
`[]AnswerIsPower`.

**`HtmlScannerProofs`**, for every buffer of more than its header, every depth and
every set of names whose known ones fit in a saved tag (`KnownNamesAssumption`, as
they do in `tag.h`): all the invariants and `EndTagMatches`. The inductive invariant
says that the saved bytes are those of *some* stack of tags (`Followed`), one per
open element, each either unknown or the tag of its element, and that the parser is
where an open element leads (`Placed`). What `serialize` and `deserialize` do to any
stack, whichever prefix fits, is shown apart (`Restored`), by induction over the
tags written. Only `EndTagCloses`, a liveness property, stays with TLC.

**`ReferencesProofs`**, for any labels and kinds of node, any hasher, filters and
bounds (the assumptions of `References`): `[]TypeOK`, `[]NoTwins`, `[]Grounded`,
`PlacesStable`, and `[]NoPanic` where no class body is copied. The inductive
invariant `IInv` says that every list of nodes is sound (typed, grounded, without
twins: `AccOK`, `StoredOK`, `JobOK`) and, during a plain copy, that the cache maps
nodes one-to-one to nodes made of the same parts, renamed (`Faithful`): without
it the assertion of similarity could fail for two nodes that were copied to one.
`PlacesStable` follows from what a step keeps of the places (`Grows`). For class
bodies `Faithful` is false, since the map sends different nodes to one, and
`NoPanic` is only model-checked: it does *not* hold for all constants. Copied under a
map that sends `?.C` to an absolute super type `/p.C`, a choice between just these two
becomes a choice of one, and `similar` fails (`solver.rs:252`). Such a choice takes
more nodes than the bounds of run `references` allow; whether `PartialAnalysis` makes
one is decided by the heuristics that are not modelled.

The other theorems are about what the lists of nodes mean. The walks along nodes
(`Hashes`, `Counts`, `Meanings`, `PartsOf`) and `Sum` are functions that TLA+ chooses
by their equations, so that these first have to be shown to have a solution: by
induction on places, since parts come before the node (`Grounded`), and on subsets.
Then: copying the references of a child loses none but those that do not last, and
invents none (`ExtendKeepsMeaning`, from `Faithful`, of which `CopyMeans` is the
consequence); every stored subtree has the filter of its own references (`Filtered`),
whose bits are the hashes of what they stand for (`HashesOfMeanings`), so that it
never denies one (`NoFalseNegative`) and has more places than hashes (`FilterLoad`,
with `CountsBound`: no node has more hashes than `references_count` says); and
nothing copied out of a block refers to a variable of the block, arguments and choices
included (`LocalsSolved`, from the invariant `BlockSolved`).
Two assumptions serve `FilterLoad` alone: hashes are places of the filter
(`StepAssumption`), and a filter gives way to a larger one before it is asked to hold
as many references as it has places (`FullAssumption`). The table of
`java_tree_gen_full_compress_legion_ref.rs:1808` satisfies it at every limit. That of
directories (`preprocessed.rs:1266`) keeps 2048 places up to 2048 references, and so
satisfies it for all counts but 2048 itself, at which the filter of a directory could
be full, and deny nothing.

**`PreProcessedProofs`**, for every forest of git objects, all sessions over it and
any analyses (`ObjectsAssumption`: trees are lists of named objects;
`AnalysesAssumption`: analyses are over finitely many symbols and resolving nothing
gives nothing): `[]TypeOK`; directories of sources list their children under their
own labels, always (`SourcesNamed`); all directories do (`NamesAgree`) as long as no
step takes a directory from a cache under another name than it was stored with,
which is so in sessions where each content has one name, and in sessions of plain
Java calls whatever is renamed; only namesakes of a source directory panic; and a
filter that can deny was made of the complete analysis below it. The invariant
`Inv(all)` says of the stacks, entities and maps that their names and children
correspond (`all` adds the directories of modules to it); `Namesakes` says that
what was made of an object has the name it is kept under, or is a directory inside a
source directory of that name; `Full` that entities, stacks and map hold the complete
analysis of what is below them, or are marked as skipped; `InWalk` that what is on
the stacks and in the caches is reached from the trees of the session.
Sessions where modules and names do collide are those of the findings.

`[]Whole` holds of all sessions: a package being walked has, with what its entries
left to do will give and what is being made of the one it waits for, exactly the Java
files below its tree, and `object_map_java` has for every entry what is below it,
whatever was cached before. With modules this cannot hold of all sessions (the third
disagreement of section 5), so `[]SourcesComplete` is proved where it can be relied
on, for sessions that have `OneMeaning` and whose requests are `LaidOut`. What is
made of a tree is decided by its *occurrence*: the tree, what remains of `dir_path`
there, the source directories expected below and the operation. A session has one
meaning if there is a set of occurrences, with those of its requests and closed under
the walk (`Deeper`), and one set of files per tree that all of its occurrences give
(`Consistent`), also where the walk would not enter the tree, as `object_map` answers
there too. Laid out means that no `pom.xml` is below the `src` of a module: the walk
does not look for one there, `WantedFiles` does. All 8522 sessions of the run
`pre_processed` satisfy both and 12 of the 42 of `pre_processed_late` do;
`MCPreProcessed` assumes the first and that not all of the late ones do, so that TLC
evaluates it (`SessionsMeanOneThing`, `LateSessionsDoNot`). The inductive invariant
(`WholeModules`) says of every module on the stack that some occurrence of its tree
accounts for it (`OfRole`: the entries left are some of the tree's, the directories
expected below them are those of the occurrence once the `pom.xml`, the first entry,
is read) and that the files it has, those its entries will give and those it waits
for are those of its tree; and of `object_map` that it has the files of the tree.
That those files are the ones Maven's layout names (`RequestMeant`) is shown by two
inductions: over the height of trees for a walk that searches modules (`WalkGives`),
and over the length of `dir_path` (`WalkMeans`). `HeightAssumption` says that trees
have a height: a git object is named by its content, so that no tree is in itself.

**`TreeGenProofs`**, for any set of files that are `Parsed` (`FilesAssumption`), with
any hidden text and kinds without a `Type`, generated in any order and number into one
store, any formats that are stable (`FormattedAssumption`: what a byte is formatted as
is formatted as itself) and any hash functions: `[]TypeOK`, `[]RoundTrip`,
`[]MetricsFaithful`, `[]NoPanic` and `[]SameRootSameFile`. The inductive invariant
`Inv` has three parts. Of the store (`Stores`): every entity has the hash, and but for
roots the length, of what it stands for; the cache has the metrics of entities, and of
*every* entity of a kind that only Java makes, without which `unwrap` could fail. Of
the results (`ResultsRight`): they have the metrics of their entity and, if their file
has a node, what is kept of its text. Of the traversal (`InProgress`): the stack holds
the accumulators of a path from the root to the cursor, each within the one below,
each with the metrics of its children, and each of which spells what is kept of the
text from where its node begins (the root: the file) to the gap before the next
(`Walk`, `TextTo`). That a gap on the path, of which nothing is a leaf, is kept whole
or not at all, and what follows the last child of a node not at all, is shown from the
tree, byte by byte. The argument for a step is in four lemmas: `Spaced` and `Made` say
what `handle_spacing` and `make` do to the store and the text, `Enters` and `Leaves`
what the cursor does to the path. `NothingLost` then concatenates what the levels
spell (`StackSpells`). The length stored with the root of a Java file leaves out its
leading spaces, so that roots are exempt from the part about lengths. `TextOf` and
`MetricsOf` are functions chosen by their equations, which are shown to have a
solution (by induction on ids: children come first).

`[]SameRootSameFile` rests on a second invariant, `Readings`: no content is stored
twice (`Distinct`), and every generated file with a node has a `Reading`, as has what
was generated so far of the one in progress (`InReading`). A reading says of each node
which entity it became (`img`) and where that is among the children of its parent's
entity (`slot`): the children's entities in their order, each behind the entity of the
gap before it if one is kept, and nothing else (`Laid`); the root also has the spaces
before its first and behind its last child (`RootLaid`). It is needed because ids
alone do not tell which child was a node of the file and which a gap. Each move keeps
it: entering a child (`ReadingEnters`), closing a node, which puts its gap and its
entity behind what its parent has (`PutOf`, `ReadingLeaves`), and the root's `make`
(`WholePuts`). Then, in one direction, two readings of one root agree from the root
down, node after node in preorder, with the spaces between them for the gaps
(`OneRootOneFile`); in the other, the nodes of equal trees are the same entities from
the leaves up, since a content has one id (`OneFileOneRoot`).

**`PositionsProofs`**, for every tree whose nodes come after their children
(`ChildrenFirst`): a new store and its scout are `Sound` (parents before children,
the scout on an entry, `check` and `check_with` answer Ok), and `goto`, `up` (past the
entry the scout starts from, too) and `push` keep it so. Then where they stand: the
entries above a handle, read from the root, are a path from the root of the tree
(`LineageIsWay`), which `goto` extends, `up` shortens and `push` leaves as it is
(`GotoStands`, `UpStands`, `PushStands`), in a store that may have grown since
(`StandsStill`); the offsets of a path say all about it (`WayLeads`).

**`AllRefsProofs`**, for every such forest whose roots are directories and whose
creations have children (`KindsAssumption`; `successful_match` asserts the second),
any number of matches and any climb from them: `[]TypeOK`, `[]AlwaysLinked` (no
check, and no assertion of the iterators, ever fails, and of the panics of the walk
none is met but from a declaration that `Stops`), `[]TrailsRight` (a handle
handed out for a reference still means the place of the match, though the store grew
and equal subtrees are one node), `[]PositionsRight`, `[]LimitHonoured` and
`[]ScopeCovered`. The
inductive invariant `Inv` has the frames of both iterators on the way to the node
they look at (`Standing`: which frames have a child in the path, and which one), the
folders on ways, and of the search: its scout stands at the trail the walk is at,
also the saved cursor of the second round (`WalkRight`), the stages are at kinds of
node that are not the root, so that going up finds a parent (`SearchRight`), and each
reference is at its trail (`RefsRight`).

`[]PositionsRight` needs no more of the state, but two assumptions on the trees and
the meaning of lengths. `BytesAssumption`: the text of a leaf has a length (that what
the generators store with a node is the length of its text is `MetricsFaithful` of
`TreeGen`). `LayersAssumption`: a directory holds directories and files, nothing else
holds one, a `pom.xml` is left without what is in it, and no file is called `src`,
`main`, `test` or `java` (`handle_maven_commit` and `handle_java_src` store nothing
else). A total does not depend on the order in which it is added up (`TotalIsSum`), so
that the length of a node is that of the text at the leaves below its place
(`PlacesCounted`, by induction on the nodes). What precedes a child is then the text
of the leaves between its parent's start and its own, and `Climbed`, what
`make_position` adds up on its way from a place to its file, the text between the
file's start and the place (`EarlierCounted`). A way is in directories all along or
passes exactly one file (`LayersOfWay`), which gives the file. Last, `make_position`
of a handle climbs in two parts, along the entries of the store and along the path of
the scout, and the parts join (`ClimbedJoined`, `ClimbedOnward`).

`[]LimitHonoured` rests on a second invariant, which TLC checked before it was
proved (over the trees of the run `all_refs`). `InFolder`: the folders are
directories, the iterator over declarations stays below its folder, and so does the
declaration. `Bounded`: for a type whose file is
not directly in its folder, how far out the cursor is at each stage (`Walks`: among
the places of the file, then at the directory of the file, then between it and the
folder) and that every place given to `find_all` is in the folders. It is needed
because `go_through_directories` only stops at its limit if it has not passed it: for
a file directly in the folder it starts above the limit and runs out of parents,
which is why the property leaves these files out.

`[]ScopeCovered` rests on a third invariant, `Covers`: what each stage of a walk has
already passed. A place is *passed* when each leaf below it was given to `find_all`
or is a twin, with the leaves of a set excepted (`Passed`), *begun* when this holds
of its first children (`Begun`); a cursor that came from the declaration is *around*
the place it stands at when the one it came from is passed and its own begun
(`Around`). Each iteration keeps that: a child is given, or it is the node the cursor
came from and then passed, as the way itself or as a twin of it (`SkippedIsPassed`,
`AroundNext`); when all children are begun the place is passed (`AroundEnds`), and
one further out nothing is begun (`AroundUp`). `CoversLocal`, `CoversBody` and
`CoversType` say it stage by stage: a local excepts its own list of parameters, a
type the package and the imports of its file and, further out, its file; the second
round of a type starts from a cursor saved at the directory of the file. At the end,
the deepest block, anonymous class or list that `Scope` names lies within the one the
walk stopped at (`DeepestAround`). A walk out of types ends blocked only at the place
its declaration stands in (`Ground`), as the places climbed are types and bodies; with
no child left to search there, or a package without a name, it is `CutShort`, and what
it had passed by then, the outermost type around the declaration, is still covered
(`BlockedCovered`, `LocalCovered`). It needs what Java's grammar says of the nodes on
the way (`GrammarAssumption`): types and bodies have braces (a loop over no
children passes nothing), types stand in bodies and bodies in types, a list of
parameters holds no list and no statement, a group of a `switch` no list, the
body of a creation is a `ClassBody`. The attempt to prove it found that the model
lacked the comparison in `go_through_folders`; the step (`SkipFolder`), the exemption
and a tree that meets them were added.

`[]AlwaysLinked` is proved last, as what panics is told by the same invariant: while the
walk is out of types, all places between the declaration and the cursor are types and
bodies (`Within`, a part of `Covers`), so that the first that is neither is its `Ground`,
and the kind of that alone decides whether the walk goes on, ends or panics
(`StoppedRight`). That a panic was such a one (`StopsRight`) is then inductive.

`Induction` has induction over the natural numbers for a *set* of them, derived from
the cardinality of finite sets, so that it can be cited: the lemmas of the other
modules are about recursive functions of any length (paths, climbs, stacks written
into a buffer, powers).

Model-checked only: `NoPanic` of `References` where class bodies are copied. Of
`SourcesComplete` in sessions without one meaning nothing is proved; some of them
violate it. Out of the prover's reach: the liveness properties
(`Terminates`, `Finishes`, `Answers`, `EndTagCloses`, `AllSearched`). `MCPreProcessed` has
`RECURSIVE` operators and is used by runs only.

## 5. Disagreements between code and documentation

Each is a run that expects a violation; `PROJECT.json` quotes the lines.

1. Equal directories are stored again at each lookup (`preprocessed.rs:490, 865, 1157`).
2. A Java file of blanks reads back doubled
   (`java_tree_gen_full_compress_legion_ref.rs:1298`).
3. `object_map` answers by Oid alone: a directory cached outside of a module is
   reused without its sources once it is inside one (`preprocessed.rs:680`).
4. The map of a class body, meant to protect names from masking, lets a qualified
   super type with the simple name of the class take over every unqualified use
   of that name (`partial_analysis.rs:1334`).

Other behaviours that surprise, but that no line of the repository denies, are
told in section 2, with the modules they are in.

## 6. Not modelled, and the plan

Not modelled, and open to it: `purge_caches` (called only after the last commit),
the navigation helpers of `PreProcessedRepository`, `IterMavenModules2` (an older
copy), the searches for fields (never called), `write_serializer.rs`, the
heuristics of `solve_aux` and the dispatch of `PartialAnalysis` by kind of node
(left open rather than modelled: about 4300 lines of decisions on Java's syntax),
the table of cached hashes, and `extract_position` and its relatives.

Left out for good: drivers, plots and measurements (`benchmark`, `client`,
`ref-mining-evaluation`, notebooks), the Spoon baseline (`refsolver`), prototypes of
stores and copies of modules that nothing calls, libgit2 access, and the generated
parsers: 134,000 of the repository's 136,535 lines of C and C++ are their tables of
numbers, which no action could translate. What is C++ logic, `scanner.cc` and `tag.h`,
is modelled but for the recovery from errors that tree-sitter does around it and
nesting past 65535 elements.
