----------------------------- MODULE NodeStore -----------------------------
(***************************************************************************)
(* The node store of the HyperAST (hyper_ast/src/store/nodes/legion.rs):   *)
(* a legion World that owns the entities and a raw hash table `dedup` of   *)
(* entity ids, used to hash-cons them.  A caller first looks for its node  *)
(* with prepare_insertion, giving a hash and a closure that compares       *)
(* components, and then either takes the id that was found or pushes a new *)
(* entity with insert_after_prepare.  The `PendingInsert` in between holds *)
(* the store borrowed, so that only one is ever open.                      *)
(*                                                                         *)
(* Every push also goes to `dedup`: the table is the sequence of the       *)
(* hashes under which each entity currently sits.                          *)
(***************************************************************************)
EXTENDS Naturals, Sequences

CONSTANTS
  NodeKinds,        \* Type of the nodes made by the Java and XML generators
  DirKinds,         \* Type::Directory and Type::MavenDirectory
  SpacesKind,       \* Type::Spaces
  Labels,           \* interned labels
  Blanks,           \* the Box<[Space]> of spaces nodes
  None,             \* an absent component, no pending insertion, no result
  Hashes,           \* values of hsyntax
  HashOf(_),        \* the hsyntax callers compute from a content
  Tag(_),           \* the bits of a hash a probe of the raw table compares
  InitialCapacity,  \* entities the table takes before it first grows
  MaxNodes,         \* bound: entities in the world
  MaxChildren       \* bound: children of a node

ASSUME KindsDisjoint ==
  /\ NodeKinds \cap DirKinds = {}
  /\ SpacesKind \notin NodeKinds \cup DirKinds
ASSUME NoneIsNothing == None \notin Labels \cup Blanks
ASSUME CapacityPositive == InitialCapacity \in Nat \ {0}
ASSUME BoundsNat == MaxNodes \in Nat /\ MaxChildren \in Nat

VARIABLES
  world,     \* internal: the entities, an id is an index
  slot,      \* dedup: slot[id] is the hash under which id is placed
  capacity,  \* dedup: items it holds before the next reserve_rehash
  pending,   \* the open PendingInsert, or None
  handed     \* the last id a caller obtained and the content it asked for

vars == <<world, slot, capacity, pending, handed>>
-----------------------------------------------------------------------------
(* What identifies a node: the components the eq closures look at.         *)

ChildrenLists(n) == UNION {[1..k -> 1..n] : k \in 0..MaxChildren}

\* acc.simple of JavaTreeGen::make and XmlTreeGen::make
NodeContents(n) ==
  [kind : NodeKinds, label : Labels \cup {None},
   children : ChildrenLists(n), blank : {None}]

\* the spaces of handle_spacing
SpacesContents ==
  [kind : {SpacesKind}, label : {None}, children : {<< >>}, blank : Blanks]

\* acc of the directory commits of PreProcessedRepository
DirContents(n) ==
  [kind : DirKinds, label : Labels, children : ChildrenLists(n),
   blank : {None}]

\* what a caller may ask for when the world has n entities
Contents(n) == NodeContents(n) \cup SpacesContents \cup DirContents(n)

Entity == [content : Contents(MaxNodes), syntax : Hashes]

Ids == 1..Len(world)

ASSUME NoneIsNoAnswer == None \notin [content : Contents(MaxNodes), id : 1..MaxNodes]
ASSUME HashType == \A c \in Contents(MaxNodes) : HashOf(c) \in Hashes

IsShared(c) == c.kind \notin DirKinds

(* The eq closures, one per group of callers.                              *)

\* mutant: the children are not compared
EqNodeChildless(c, e) ==
  e.content.kind = c.kind /\ e.content.label = c.label

EqNode(c, e) ==
  /\ e.content.kind = c.kind
  /\ e.content.label = c.label
  /\ e.content.children = c.children

EqSpaces(c, e) == e.content.blank = c.blank

\* Directories are stored with CS(children) and looked up by a component
\* Vec<NodeIdentifier>, which no entity has.
BareChildren(e) == {}

EqDirectory(c, e) ==
  /\ e.content.kind = c.kind
  /\ e.content.label = c.label
  /\ c.children \in BareChildren(e)

Matches(c, e) ==
  \/ c.kind \in NodeKinds /\ EqNode(c, e)
  \/ c.kind = SpacesKind /\ EqSpaces(c, e)
  \/ c.kind \in DirKinds /\ EqDirectory(c, e)

\* The entities a probe of the raw table compares, and those that match.
Probed(h) == {i \in DOMAIN slot : Tag(slot[i]) = Tag(h)}
Hits(c, h) == {i \in Probed(h) : Matches(c, world[i])}

\* raw_entry_mut().from_hash: Occupied by the first match, or Vacant (0)
\* while the world is within its bound
Entry(c, h) ==
  Hits(c, h) \cup
    (IF Hits(c, h) = {} /\ Len(world) < MaxNodes THEN {0} ELSE {})

\* mutant: re-placed by the structural hash, that ignores labels
RehashStruct(e) == HashOf([e.content EXCEPT !.label = None])

\* The hasher insert_with_hasher gets: HashedNodeRef hashes as its `syntax`.
Rehash(e) == e.syntax
-----------------------------------------------------------------------------
Init ==
  /\ world = << >>
  /\ slot = << >>
  /\ capacity = InitialCapacity
  /\ pending = None
  /\ handed = None

PrepareInsertion(c) ==
  /\ pending = None
  /\ \E id \in Entry(c, HashOf(c)) :
       pending' = [content |-> c, hash |-> HashOf(c), found |-> id]
  /\ UNCHANGED <<world, slot, capacity, handed>>

OccupiedId ==
  /\ pending # None
  /\ pending.found # 0
  /\ handed' = [content |-> pending.content, id |-> pending.found]
  /\ pending' = None
  /\ UNCHANGED <<world, slot, capacity>>

\* mutant: the table that grows starts empty
GrownEmpty == IF Len(slot) = capacity THEN << >> ELSE slot

\* reserve_rehash of the raw table: placed again, by the hasher, when full
Grown == IF Len(slot) = capacity
         THEN [i \in DOMAIN slot |-> Rehash(world[i])]
         ELSE slot

InsertAfterPrepare ==
  /\ pending # None
  /\ pending.found = 0
  /\ world' = Append(world, [content |-> pending.content,
                             syntax |-> pending.hash])
  /\ slot' = Append(Grown, pending.hash)
  /\ capacity' = IF Len(slot) = capacity THEN 2 * capacity ELSE capacity
  /\ handed' = [content |-> pending.content, id |-> Len(world) + 1]
  /\ pending' = None

Next ==
  \/ \E c \in Contents(Len(world)) : PrepareInsertion(c)
  \/ OccupiedId
  \/ InsertAfterPrepare

Spec == Init /\ [][Next]_vars
-----------------------------------------------------------------------------
(* Type correctness: ids are dense, children point to entities pushed      *)
(* before their parent (the DAG of README.md), and the table has one place *)
(* per entity.                                                             *)
TypeOK ==
  /\ world \in Seq(Entity)
  /\ Len(world) <= MaxNodes
  /\ \A i \in Ids : world[i].content \in Contents(i - 1)
  /\ slot \in Seq(Hashes)
  /\ Len(slot) = Len(world)
  /\ capacity \in Nat \ {0}
  /\ Len(slot) <= capacity
  /\ \/ pending = None
     \/ pending \in [content : Contents(Len(world)), hash : Hashes,
                     found : 0..Len(world)]
  /\ \/ handed = None
     \/ handed \in [content : Contents(MaxNodes), id : Ids]

(* No two entities made by a generator have the same kind, label and       *)
(* children (or the same spaces): subtrees are fully compressed, whatever  *)
(* the collisions of the hash and however often the table was rehashed     *)
(* between the two insertions.                                             *)
NoTwins ==
  \A i, j \in Ids :
    world[i].content = world[j].content /\ IsShared(world[i].content) => i = j

(* The id a caller gets, found or fresh, is one of a node with exactly the *)
(* content it asked for: no hash collision ever merges two nodes.          *)
HandedMeansAsked ==
  handed # None => world[handed.id].content = handed.content

(* The table and the world agree: an entity is placed under the hash its   *)
(* next lookup will use, before and after any rehash, and while a vacant   *)
(* entry is open no entity has the content about to be pushed.             *)
PlacedWhereSought ==
  \A i \in Ids : /\ world[i].syntax = HashOf(world[i].content)
               /\ slot[i] = HashOf(world[i].content)

PendingIsCurrent ==
  pending # None =>
    /\ pending.hash = HashOf(pending.content)
    /\ pending.found # 0 => world[pending.found].content = pending.content
    /\ pending.found = 0 =>
         /\ Len(world) < MaxNodes
         /\ IsShared(pending.content) =>
              \A i \in Ids : world[i].content # pending.content

TableConsistent == PlacedWhereSought /\ PendingIsCurrent

(* The store interns: a shared content is given an id once, the same id    *)
(* ever after, and every other answer is a fresh id.                       *)
SharedContents == {world[i].content : i \in {j \in Ids : IsShared(world[j].content)}}
IdOf(c) == CHOOSE i \in Ids : world[i].content = c

Interning == INSTANCE Interner WITH
  table <- [c \in SharedContents |-> IdOf(c)],
  used <- Ids

RefinesInterner == Interning!InternerSpec

(* Like NoTwins, for every entity: what README.md's Merkle DAG promises of *)
(* directories too.  The eq closures of the directory commits break it.    *)
AllCompressed ==
  \A i, j \in Ids : world[i].content = world[j].content => i = j
=============================================================================
