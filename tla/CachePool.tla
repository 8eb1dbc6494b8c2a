----------------------------- MODULE CachePool -----------------------------
(***************************************************************************)
(* The pool of io/cache.c, from which the nodes of every buffer and the    *)
(* scratch space of the reading and the writing thread come.  Each call    *)
(* runs under the module's spin lock and is one step, but for the window   *)
(* in get_new_cache after free(cache_node), whose memory the lock does not *)
(* protect.  A cache is a number, in the order of their creation; any      *)
(* thread may recycle it (a message is queued by one and written by the    *)
(* other).  Contents are abstracted to whether every byte is zero.         *)
(***************************************************************************)
EXTENDS Integers, Sequences

CONSTANTS
  Size,         \* specified_cache_size
  NOverread,    \* ints past its end that make_sure_cache_mm reads
  Stray,        \* what such an int may hold
  Ask,          \* the sizes callers ask for
  MaxCaches     \* bound: caches ever made

Cache == 1..MaxCaches
Nothing == [cache |-> 0, ask |-> 0]

ASSUME SizeAssumption ==
  /\ Size \in Seq(Nat) /\ Size # <<>>
  /\ \A i, j \in DOMAIN Size : i < j => Size[i] < Size[j]
ASSUME OverreadAssumption == NOverread \in Nat /\ Stray \subseteq Int
\* A node is 512 bytes, a name at most 29, and a TO-C target lies in a line of at most a node.
\* (Left out: a TO-C line without a colon, for which try_to_handle_msg looks for one past the
\* end of the message, in memory that is not its own, and may ask for any size.)
ASSUME AskAssumption == Ask \subseteq Nat /\ \A n \in Ask : n <= Size[Len(Size)]
ASSUME BoundAssumption == MaxCaches \in Nat

VARIABLES
  module,                  \* "off", "ready", "down" (destroyed, or the process has died)
  available_cache_node,    \* per size class, its size and its free caches
  made,                    \* all_node: the caches made so far
  allocated_size, cache_size,
  zeroed,                  \* caches whose bytes are all zero
  held,                    \* caches that callers have
  taking                   \* the cache that get_new_cache has taken off its list and not returned

vars == <<module, available_cache_node, made, allocated_size, cache_size, zeroed, held, taking>>

Class == [size : Int, list : Seq(Cache)]

Init ==
  /\ module = "off" /\ available_cache_node = <<>> /\ made = 0
  /\ allocated_size = [c \in Cache |-> 0] /\ cache_size = [c \in Cache |-> 0]
  /\ zeroed = {} /\ held = {} /\ taking = Nothing

\* Without a return statement: main goes on only if the value it finds is 0.
initialise_cache_module ==
  /\ module = "off" /\ module' \in {"ready", "down"}
  /\ UNCHANGED <<available_cache_node, made, allocated_size, cache_size, zeroed, held, taking>>

\* The classes, built by the first call.  The loop counts the bytes of the array, not its
\* elements, so that classes of whatever size follow the real ones.
make_sure_cache_mm ==
  IF available_cache_node # <<>> THEN {available_cache_node}
  ELSE {[k \in 1..(Len(Size) + NOverread) |->
           [size |-> IF k <= Len(Size) THEN Size[k] ELSE stray[k - Len(Size)], list |-> <<>>]] :
        stray \in [1..NOverread -> Stray]}

\* Mutant: the class must be larger than what is asked for.
Larger(p, n) == {k \in DOMAIN p : p[k].size > n /\ \A i \in 1..(k - 1) : p[i].size <= n}

\* The first class that is large enough.
Fitting(p, n) == {k \in DOMAIN p : p[k].size >= n /\ \A i \in 1..(k - 1) : p[i].size < n}

\* The first class of the cache's size.
ClassOf(p, c) ==
  {k \in DOMAIN p : /\ p[k].size = allocated_size[c]
                    /\ \A i \in 1..(k - 1) : p[i].size # allocated_size[c]}

\* Mutant: always malloc.
AnyList(p, k) == TRUE

NoneFree(p, k) == p[k].list = <<>>

\* get_new_cache, the free list is empty: a new cache.
get_new_cache(n) ==
  /\ module = "ready" /\ taking = Nothing /\ made < MaxCaches
  /\ \E p \in make_sure_cache_mm : \E k \in Fitting(p, n) :
       /\ NoneFree(p, k)
       /\ available_cache_node' = p
       /\ made' = made + 1
       /\ allocated_size' = [allocated_size EXCEPT ![made + 1] = p[k].size]
       /\ cache_size' = [cache_size EXCEPT ![made + 1] = n]
       /\ zeroed' = zeroed \cup {made + 1}
       /\ held' = held \cup {made + 1}
  /\ UNCHANGED <<module, taking>>

\* Mutant: the node is not taken off the list.
KeepFirst(s) == s

DropFirst(s) == Tail(s)

\* get_new_cache, there is a free cache: its node leaves the list and is freed.
TakeFirst(n) ==
  /\ module = "ready" /\ taking = Nothing
  /\ \E p \in make_sure_cache_mm : \E k \in Fitting(p, n) :
       /\ p[k].list # <<>>
       /\ taking' = [cache |-> Head(p[k].list), ask |-> n]
       /\ available_cache_node' = [p EXCEPT ![k].list = DropFirst(@)]
  /\ UNCHANGED <<module, made, allocated_size, cache_size, zeroed, held>>

\* The freed node still holds the cache.
ReadFreedNode ==
  /\ module = "ready" /\ taking # Nothing
  /\ cache_size' = [cache_size EXCEPT ![taking.cache] = taking.ask]
  /\ held' = held \cup {taking.cache}
  /\ taking' = Nothing
  /\ UNCHANGED <<module, available_cache_node, made, allocated_size, zeroed>>

\* The malloc of another thread has got the freed node: what get_new_cache then writes to
\* and returns is undefined, and the model ends.
NodeReused ==
  /\ module = "ready" /\ taking # Nothing /\ module' = "down"
  /\ UNCHANGED <<available_cache_node, made, allocated_size, cache_size, zeroed, held, taking>>

\* The caller writes into its cache.
Fill(c) ==
  /\ module = "ready" /\ c \in held /\ zeroed' = zeroed \ {c}
  /\ UNCHANGED <<module, available_cache_node, made, allocated_size, cache_size, held, taking>>

\* Mutant: the bytes stay.
NotCleared(c) == zeroed

Cleared(c) == zeroed \cup {c}

recycle_cache(c) ==
  /\ module = "ready" /\ taking = Nothing /\ c \in held
  /\ \E p \in make_sure_cache_mm : \E k \in ClassOf(p, c) :
       available_cache_node' = [p EXCEPT ![k].list = Append(@, c)]
  /\ zeroed' = Cleared(c)
  /\ cache_size' = [cache_size EXCEPT ![c] = 0]
  /\ held' = held \ {c}
  /\ UNCHANGED <<module, made, allocated_size, taking>>

\* No result of malloc is looked at: the call that gets null ends the process.
OutOfMemory ==
  /\ module = "ready" /\ taking = Nothing /\ module' = "down"
  /\ UNCHANGED <<available_cache_node, made, allocated_size, cache_size, zeroed, held, taking>>

\* Destroys the lock; the caches stay where they are.
release_cache_module ==
  /\ module = "ready" /\ taking = Nothing /\ module' = "down"
  /\ UNCHANGED <<available_cache_node, made, allocated_size, cache_size, zeroed, held, taking>>

Next ==
  \/ initialise_cache_module \/ ReadFreedNode \/ NodeReused
  \/ OutOfMemory \/ release_cache_module
  \/ \E n \in Ask : get_new_cache(n) \/ TakeFirst(n)
  \/ \E c \in Cache : Fill(c) \/ recycle_cache(c)

Spec == Init /\ [][Next]_vars

-----------------------------------------------------------------------------
(* Properties *)

PoolTypes ==
  /\ module \in {"off", "ready", "down"}
  /\ available_cache_node \in Seq(Class)
  /\ made \in 0..MaxCaches
  /\ allocated_size \in [Cache -> Int] /\ cache_size \in [Cache -> Nat]
  /\ zeroed \subseteq 1..made /\ held \subseteq 1..made
  /\ taking = Nothing \/ taking \in [cache : 1..made, ask : Ask]

\* Once there are classes the real ones come first, and there is no cache before.
ClassesInv ==
  \/ available_cache_node = <<>> /\ made = 0
  \/ /\ Len(available_cache_node) = Len(Size) + NOverread
     /\ \A k \in DOMAIN Size : available_cache_node[k].size = Size[k]

\* A free cache is zero, neither held nor being taken, and once in its class's list.
FreeInv ==
  \A k \in DOMAIN available_cache_node :
    LET s == available_cache_node[k].list IN
    /\ \A i \in DOMAIN s :
         /\ s[i] \in zeroed \ held /\ s[i] # taking.cache
         /\ k \in DOMAIN Size /\ allocated_size[s[i]] = Size[k]
    /\ \A i, j \in DOMAIN s : s[i] = s[j] => i = j

\* A cache that is out, or being taken, is of a real class and has room for what was asked.
OutInv ==
  /\ taking.cache \notin held
  /\ \A c \in held : allocated_size[c] >= cache_size[c]
  /\ \A c \in 1..made : \E k \in DOMAIN Size : allocated_size[c] = Size[k]
  /\ taking # Nothing =>
       allocated_size[taking.cache] >= taking.ask /\ taking.cache \in zeroed

InList(c) ==
  \E k \in DOMAIN available_cache_node :
    \E i \in DOMAIN available_cache_node[k].list : available_cache_node[k].list[i] = c

\* No cache is lost: it is held, being taken, or free.
NoneLost == \A c \in 1..made : c \in held \/ c = taking.cache \/ InList(c)

\* Every cache ever made is in exactly one place: with one caller, in the hands of
\* get_new_cache, or once in the free list of its own size; and recycle_cache finds that list.
PoolInv == PoolTypes /\ ClassesInv /\ FreeInv /\ OutInv /\ NoneLost

\* The classes that make_sure_cache_mm reads past the array, whatever their sizes, never
\* hold a cache, and no cache is of any other size than the array's.
OverreadHarmless ==
  /\ \A k \in DOMAIN available_cache_node :
       k > Len(Size) => available_cache_node[k].list = <<>>
  /\ \A c \in 1..made : \E k \in DOMAIN Size : allocated_size[c] = Size[k]

\* get_new_cache mallocs a cache only when callers have all those of that size: the pool
\* grows with the largest demand, not with the number of calls.
GrowsOnlyWhenAllInUse ==
  [][\A c \in 1..made :
       made' # made /\ allocated_size[c] = allocated_size'[made'] => c \in held]_vars

Content(c) == IF c \in zeroed THEN "zero" ELSE "data"

A == INSTANCE Allocator WITH
       Room  <- {Size[k] : k \in DOMAIN Size},
       inUse <- [c \in held |-> [asked |-> cache_size[c], room |-> allocated_size[c],
                                 content |-> Content(c)]]

\* The free lists implement the promise of io/common_io.h: whoever gets a cache has it alone,
\* zeroed and large enough (the callers use it as an empty string and search it with strchr).
AllocatorSpec == A!Spec
=============================================================================
