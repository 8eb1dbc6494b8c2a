----------------------------- MODULE Allocator -----------------------------
(***************************************************************************)
(* What get_new_cache and recycle_cache promise (io/common_io.h): a caller *)
(* gets a cache that nobody else has, with room for what it asked for and  *)
(* all zero, and keeps it until it recycles it.                            *)
(***************************************************************************)
EXTENDS Integers

CONSTANTS
  Cache,    \* the caches there may ever be
  Ask,      \* the sizes callers ask for
  Room      \* the sizes caches come in

VARIABLE inUse    \* the caches callers have, each with what was asked for, its room, and
                  \* whether its bytes are still all zero

Init == inUse = [c \in {} |-> 0]

\* Nobody has the cache, and it comes zeroed and large enough.
Get(n) ==
  \E c \in Cache \ DOMAIN inUse : \E room \in Room :
    /\ room >= n
    /\ inUse' = [d \in DOMAIN inUse \cup {c} |->
                   IF d = c THEN [asked |-> n, room |-> room, content |-> "zero"] ELSE inUse[d]]

Fill(c) == inUse' = [inUse EXCEPT ![c].content = "data"]

Recycle(c) == inUse' = [d \in DOMAIN inUse \ {c} |-> inUse[d]]

Next == (\E n \in Ask : Get(n)) \/ (\E c \in DOMAIN inUse : Fill(c) \/ Recycle(c))

Spec == Init /\ [][Next]_inUse
=============================================================================
