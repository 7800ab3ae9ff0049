---------------------------- MODULE MCNodeStore ----------------------------
(* A world of a handful of entities whose hashes collide: the lists of     *)
(* children of one length hash alike, a label counts as a child does, and  *)
(* the tag of a probe tells even hashes from odd ones only.                *)
EXTENDS NodeStore

CONSTANTS Leaf, Inner, Directory, Length, Blank

MCHashOf(c) ==
  (IF c.kind = Leaf THEN 0 ELSE IF c.kind = Inner THEN 1
   ELSE IF c.kind = SpacesKind THEN 2 ELSE 3)
  + (IF c.label = None THEN 0 ELSE 1) + Len(c.children)

MCTag(h) == h % 2
=============================================================================
