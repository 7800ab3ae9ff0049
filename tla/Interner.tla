------------------------------ MODULE Interner ------------------------------
(***************************************************************************)
(* What the callers of the node store rely on: interning.  Shared contents *)
(* have one id, given at the first request and handed out at every later   *)
(* one; an id never changes its meaning.  Contents that are not shared     *)
(* (directories) get a fresh id at each request.                           *)
(***************************************************************************)
EXTENDS Naturals

CONSTANTS None, IsShared(_)

VARIABLES
  table,   \* the id of each shared content interned so far
  used,    \* every id given so far, to shared contents or not
  handed   \* the last answer

ivars == <<table, used, handed>>

InternerInit ==
  /\ table = << >>
  /\ used = {}
  /\ handed = None

Answer(c, id) == handed' = [content |-> c, id |-> id]

Again(c) ==
  /\ c \in DOMAIN table
  /\ Answer(c, table[c])
  /\ UNCHANGED <<table, used>>

FirstTime(c, id) ==
  /\ IsShared(c)
  /\ c \notin DOMAIN table
  /\ id \notin used
  /\ table' = [d \in DOMAIN table \cup {c} |-> IF d = c THEN id ELSE table[d]]
  /\ used' = used \cup {id}
  /\ Answer(c, id)

Unshared(c, id) ==
  /\ ~IsShared(c)
  /\ id \notin used
  /\ used' = used \cup {id}
  /\ Answer(c, id)
  /\ UNCHANGED table

\* the id and the content are those of the answer
InternerNext ==
  /\ handed' # None
  /\ LET c == handed'.content
         id == handed'.id
     IN  Again(c) \/ FirstTime(c, id) \/ Unshared(c, id)

InternerSpec == InternerInit /\ [][InternerNext]_ivars
=============================================================================
