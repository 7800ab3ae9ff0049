---------------------------- MODULE MCReferences ----------------------------
(***************************************************************************)
(* Few kinds of nodes at a time, one name, at most two nodes of a          *)
(* subtree's own; filters of 3 and 8 places, whose hashes collide.         *)
(***************************************************************************)
EXTENDS References

MCStep(m, h, text) ==
  (h + (CASE text[1] = "/" -> 0 [] text[1] \in {"?", "."} -> 1
          [] text[1] = "]" -> 5 [] text[1] = "[?]" -> 7 [] OTHER -> 4)) % m
MCLimits == [m \in {3, 8} |-> IF m = 3 THEN 0 ELSE 2]
MCLabels == {"a"}

\* Subtrees and classes: a subtree in a subtree in another.
MCUsed == {"ScopedIdentifier", "TypeIdentifier", "Or", "Mask"}
MCMaxOwn == <<4, 3, 2>>

\* Blocks that declare local variables.
MCUsedLocal == {"ScopedIdentifier", "Array", "ArrayAccess", "Primitive"}
MCMaxOwnLocal == <<4, 4>>

\* A class with a qualified super type.
MCMaxOwnBody == <<4, 4>>
=============================================================================
