-------------------------- MODULE CachePoolProofs --------------------------
(***************************************************************************)
(* The cache pool for every array of ascending sizes, every memory that    *)
(* follows it, every sequence of calls: a cache is in one place only, and  *)
(* the pool implements an allocator of zeroed memory.                      *)
(***************************************************************************)
EXTENDS CachePool, TLAPS

\* What make_sure_cache_mm leaves: the lists there were, or empty ones before the first cache.
Built(p) ==
  /\ p \in Seq(Class) /\ Len(p) = Len(Size) + NOverread
  /\ \A k \in DOMAIN Size : k \in DOMAIN p /\ p[k].size = Size[k]
  /\ \/ p = available_cache_node
     \/ made = 0 /\ available_cache_node = <<>> /\ \A k \in DOMAIN p : p[k].list = <<>>

LEMMA SizeFacts ==
  /\ Len(Size) \in Nat \ {0} /\ DOMAIN Size = 1..Len(Size)
  /\ \A k \in DOMAIN Size : Size[k] \in Nat
  /\ \A i, j \in DOMAIN Size : Size[i] = Size[j] => i = j
<1>1. Len(Size) \in Nat \ {0} /\ DOMAIN Size = 1..Len(Size)
  BY SizeAssumption
<1>2. \A k \in DOMAIN Size : Size[k] \in Nat
  BY SizeAssumption
<1>3. ASSUME NEW i \in DOMAIN Size, NEW j \in DOMAIN Size, Size[i] = Size[j] PROVE i = j
  <2>1. ~(i < j) /\ ~(j < i)
    BY <1>2, <1>3, SizeAssumption
  <2> QED BY <2>1, <1>1
<1> QED BY <1>1, <1>2, <1>3

LEMMA MakeSure == ASSUME PoolInv, NEW p \in make_sure_cache_mm PROVE Built(p)
<1>1. CASE available_cache_node # <<>>
  <2>1. p = available_cache_node
    BY <1>1 DEF make_sure_cache_mm
  <2>2. DOMAIN p = 1..Len(p)
    BY <2>1 DEF PoolInv, PoolTypes
  <2>3. /\ Len(p) = Len(Size) + NOverread
        /\ \A k \in DOMAIN Size : p[k].size = Size[k]
    BY <1>1, <2>1 DEF PoolInv, ClassesInv
  <2>4. \A k \in DOMAIN Size : k \in DOMAIN p
    BY <2>2, <2>3, SizeFacts, OverreadAssumption
  <2>5. p \in Seq(Class)
    BY <2>1 DEF PoolInv, PoolTypes
  <2> QED BY <2>1, <2>3, <2>4, <2>5 DEF Built
<1>2. CASE available_cache_node = <<>>
  <2>1. PICK stray \in [1..NOverread -> Stray] :
          p = [k \in 1..(Len(Size) + NOverread) |->
                 [size |-> IF k <= Len(Size) THEN Size[k] ELSE stray[k - Len(Size)],
                  list |-> <<>>]]
    BY <1>2 DEF make_sure_cache_mm
  <2>2. ASSUME NEW k \in 1..(Len(Size) + NOverread)
        PROVE p[k] \in Class /\ p[k].list = <<>> /\ (k <= Len(Size) => p[k].size = Size[k])
    <3>1. k <= Len(Size) => Size[k] \in Int
      <4> SUFFICES ASSUME k <= Len(Size) PROVE Size[k] \in Int
        OBVIOUS
      <4>1. k \in DOMAIN Size
        BY SizeFacts, OverreadAssumption
      <4> QED BY <4>1, SizeFacts
    <3>2. ~(k <= Len(Size)) => stray[k - Len(Size)] \in Int
      <4> SUFFICES ASSUME ~(k <= Len(Size)) PROVE stray[k - Len(Size)] \in Int
        OBVIOUS
      <4>1. k - Len(Size) \in 1..NOverread
        BY SizeFacts, OverreadAssumption
      <4>2. stray[k - Len(Size)] \in Stray
        BY <4>1
      <4> QED BY <4>2, OverreadAssumption
    <3>3. <<>> \in Seq(Cache)
      OBVIOUS
    <3> QED BY <2>1, <3>1, <3>2, <3>3 DEF Class
  <2>3. DOMAIN p = 1..(Len(Size) + NOverread) /\ Len(Size) + NOverread \in Nat
    BY <2>1, SizeFacts, OverreadAssumption
  <2>4. p \in Seq(Class) /\ Len(p) = Len(Size) + NOverread
    <3>1. p \in [1..(Len(Size) + NOverread) -> Class]
      BY <2>1, <2>2
    <3> QED BY <2>3, <3>1
  <2>5. made = 0
    <3>1. Len(available_cache_node) = 0
      BY <1>2
    <3> QED BY <3>1, SizeFacts, OverreadAssumption DEF PoolInv, ClassesInv
  <2> QED BY <1>2, <2>2, <2>3, <2>4, <2>5, SizeFacts, OverreadAssumption DEF Built
<1> QED BY <1>1, <1>2

\* The class that get_new_cache finds is a real one and large enough.
LEMMA FittingClass ==
  ASSUME NEW p, Built(p), NEW n \in Ask, NEW k \in Fitting(p, n)
  PROVE  k \in DOMAIN Size /\ k \in DOMAIN p /\ p[k].size = Size[k] /\ Size[k] >= n
<1>1. n \in Nat /\ n <= Size[Len(Size)]
  BY AskAssumption
<1>2. k \in 1..Len(p) /\ p[k].size >= n /\ \A i \in 1..(k - 1) : p[i].size < n
  BY DEF Fitting, Built
<1>3. p[Len(Size)].size = Size[Len(Size)] /\ Size[Len(Size)] \in Nat
  BY SizeFacts DEF Built
<1>4. ~(Len(Size) < k)
  <2> SUFFICES ASSUME Len(Size) < k PROVE FALSE
    OBVIOUS
  <2>1. Len(Size) \in 1..(k - 1)
    BY <1>2, SizeFacts
  <2> QED BY <1>1, <1>2, <1>3, <2>1
<1>5. k \in DOMAIN Size
  BY <1>2, <1>4, SizeFacts
<1> QED BY <1>2, <1>5 DEF Built

\* The class that recycle_cache finds is that of the cache.
LEMMA OwnClass ==
  ASSUME NEW p, Built(p), NEW c, NEW j \in DOMAIN Size, allocated_size[c] = Size[j],
         NEW k \in ClassOf(p, c)
  PROVE  k = j
<1>1. k \in 1..Len(p) /\ p[k].size = Size[j] /\ \A i \in 1..(k - 1) : p[i].size # Size[j]
  BY DEF ClassOf, Built
<1>2. j \in DOMAIN p /\ p[j].size = Size[j] /\ j \in 1..Len(Size)
  BY SizeFacts DEF Built
<1>3. ~(j < k)
  <2> SUFFICES ASSUME j < k PROVE FALSE
    OBVIOUS
  <2>1. j \in 1..(k - 1)
    BY <1>1, <1>2
  <2> QED BY <1>1, <1>2, <2>1
<1>4. k \in DOMAIN Size
  BY <1>1, <1>2, <1>3, SizeFacts
<1> QED BY <1>1, <1>4, SizeFacts DEF Built

-----------------------------------------------------------------------------
(* Every step keeps the invariant. *)

LEMMA InitPool == Init => PoolInv
<1> SUFFICES ASSUME Init PROVE PoolInv
  OBVIOUS
<1>1. PoolTypes
  BY BoundAssumption DEF Init, PoolTypes, Cache
<1>2. ClassesInv /\ FreeInv /\ OutInv /\ NoneLost
  BY DEF Init, ClassesInv, FreeInv, OutInv, NoneLost, Nothing
<1> QED BY <1>1, <1>2 DEF PoolInv

\* The parts of the invariant mention the module's state and the caller's bytes only through
\* the types and the zeroed free caches.
LEMMA SamePool ==
  ASSUME PoolInv, module' \in {"off", "ready", "down"},
         UNCHANGED <<available_cache_node, made, allocated_size, cache_size, zeroed, held, taking>>
  PROVE  PoolInv'
  BY DEF PoolInv, PoolTypes, ClassesInv, FreeInv, OutInv, NoneLost, InList

LEMMA FillKeeps == ASSUME PoolInv, NEW c \in Cache, Fill(c) PROVE PoolInv'
<1> USE DEF Fill
<1>1. PoolTypes' /\ ClassesInv'
  BY DEF PoolInv, PoolTypes, ClassesInv
<1>2. FreeInv'
  BY DEF PoolInv, FreeInv
<1>3. OutInv' /\ NoneLost'
  BY DEF PoolInv, OutInv, NoneLost, InList
<1> QED BY <1>1, <1>2, <1>3 DEF PoolInv

LEMMA ReturnKeeps == ASSUME PoolInv, ReadFreedNode PROVE PoolInv'
<1>0. taking.cache \in 1..made /\ taking.ask \in Nat /\ taking.cache \in Cache
  <2>1. taking \in [cache : 1..made, ask : Ask]
    BY DEF PoolInv, PoolTypes, ReadFreedNode
  <2>2. taking.cache \in 1..made /\ taking.ask \in Ask
    BY <2>1
  <2>3. made \in 0..MaxCaches
    BY DEF PoolInv, PoolTypes
  <2>4. taking.cache \in Cache
    BY <2>2, <2>3, BoundAssumption DEF Cache
  <2>5. taking.ask \in Nat
    BY <2>2, AskAssumption
  <2> QED BY <2>2, <2>4, <2>5
<1>1. PoolTypes' /\ ClassesInv'
  <2>1. cache_size' \in [Cache -> Nat]
    BY <1>0 DEF PoolInv, PoolTypes, ReadFreedNode
  <2>2. held' \subseteq 1..made'
    BY <1>0 DEF PoolInv, PoolTypes, ReadFreedNode
  <2> QED BY <2>1, <2>2 DEF PoolInv, PoolTypes, ClassesInv, ReadFreedNode
<1>2. taking'.cache = 0 /\ \A c \in 1..made : c # 0
  BY DEF ReadFreedNode, Nothing, PoolInv, PoolTypes
<1>3. FreeInv'
  <2>1. zeroed \subseteq 1..made
    BY DEF PoolInv, PoolTypes
  <2> QED BY <1>0, <1>2, <2>1 DEF PoolInv, FreeInv, ReadFreedNode
<1>4. OutInv'
  <2>1. ASSUME NEW c \in held' PROVE allocated_size'[c] >= cache_size'[c]
    <3>1. CASE c = taking.cache
      BY <1>0, <3>1 DEF PoolInv, PoolTypes, OutInv, ReadFreedNode
    <3>2. CASE c # taking.cache
      <4>1. c \in held
        BY <3>2, <2>1 DEF ReadFreedNode
      <4>2. cache_size'[c] = cache_size[c]
        BY <3>2, <4>1, <1>0 DEF ReadFreedNode, PoolInv, PoolTypes
      <4> QED BY <4>1, <4>2 DEF PoolInv, OutInv, ReadFreedNode
    <3> QED BY <3>1, <3>2
  <2>2. taking' = Nothing /\ 0 \notin held'
    BY <1>0, <1>2 DEF ReadFreedNode, PoolInv, PoolTypes
  <2> QED BY <1>2, <2>1, <2>2 DEF PoolInv, OutInv, ReadFreedNode
<1>5. NoneLost'
  BY DEF PoolInv, NoneLost, InList, ReadFreedNode
<1> QED BY <1>1, <1>3, <1>4, <1>5 DEF PoolInv
LEMMA NewKeeps == ASSUME PoolInv, NEW n \in Ask, get_new_cache(n) PROVE PoolInv'
<1> DEFINE c == made + 1
<1>1. PICK p \in make_sure_cache_mm : \E k \in Fitting(p, n) :
        /\ NoneFree(p, k)
        /\ available_cache_node' = p
        /\ made' = c
        /\ allocated_size' = [allocated_size EXCEPT ![c] = p[k].size]
        /\ cache_size' = [cache_size EXCEPT ![c] = n]
        /\ zeroed' = zeroed \cup {c}
        /\ held' = held \cup {c}
  BY DEF get_new_cache
<1>2. PICK k \in Fitting(p, n) :
        /\ made' = c
        /\ allocated_size' = [allocated_size EXCEPT ![c] = p[k].size]
        /\ cache_size' = [cache_size EXCEPT ![c] = n]
        /\ zeroed' = zeroed \cup {c}
        /\ held' = held \cup {c}
  BY <1>1
<1>3. Built(p) /\ available_cache_node' = p /\ UNCHANGED <<module, taking>> /\ taking = Nothing
  BY <1>1, MakeSure DEF get_new_cache
<1>4. k \in DOMAIN Size /\ p[k].size = Size[k] /\ Size[k] >= n /\ Size[k] \in Nat /\ n \in Nat
  BY <1>3, FittingClass, SizeFacts, AskAssumption
<1>5. /\ made \in Nat /\ c \in Cache /\ c \notin 1..made /\ c # 0
      /\ made' \in 0..MaxCaches /\ 1..made' = (1..made) \cup {c}
  BY <1>2, BoundAssumption DEF PoolInv, PoolTypes, get_new_cache, Cache
<1>6. /\ allocated_size'[c] = Size[k] /\ cache_size'[c] = n
      /\ \A d \in 1..made : allocated_size'[d] = allocated_size[d] /\ cache_size'[d] = cache_size[d]
  BY <1>2, <1>4, <1>5, BoundAssumption DEF PoolInv, PoolTypes, Cache
<1> HIDE DEF c
<1>7. PoolTypes'
  <2>1. allocated_size' \in [Cache -> Int] /\ cache_size' \in [Cache -> Nat]
    BY <1>2, <1>4, <1>5 DEF PoolInv, PoolTypes
  <2>2. zeroed' \subseteq 1..made' /\ held' \subseteq 1..made'
    BY <1>2, <1>5 DEF PoolInv, PoolTypes
  <2> QED BY <1>3, <1>5, <2>1, <2>2 DEF PoolInv, PoolTypes, Built
<1>8. ClassesInv'
  BY <1>3 DEF Built, ClassesInv
<1>9. ASSUME NEW j \in DOMAIN p
      PROVE  /\ \A i \in DOMAIN p[j].list :
                  /\ p[j].list[i] \in zeroed \ held
                  /\ j \in DOMAIN Size /\ allocated_size[p[j].list[i]] = Size[j]
             /\ \A i, h \in DOMAIN p[j].list : p[j].list[i] = p[j].list[h] => i = h
  <2>1. CASE p = available_cache_node
    BY <2>1 DEF PoolInv, FreeInv
  <2>2. CASE p[j].list = <<>>
    BY <2>2
  <2> QED BY <1>3, <2>1, <2>2 DEF Built
<1>10. FreeInv'
  <2>1. ASSUME NEW j \in DOMAIN p, NEW i \in DOMAIN p[j].list
        PROVE  /\ p[j].list[i] \in zeroed' \ held' /\ p[j].list[i] # taking'.cache
               /\ j \in DOMAIN Size /\ allocated_size'[p[j].list[i]] = Size[j]
    <3>1. p[j].list[i] \in 1..made
      BY <1>9 DEF PoolInv, PoolTypes
    <3>2. p[j].list[i] # c /\ p[j].list[i] # 0
      BY <1>5, <3>1
    <3>3. taking'.cache = 0
      BY <1>3 DEF Nothing
    <3> QED BY <1>2, <1>6, <1>9, <3>1, <3>2, <3>3
  <2> QED BY <1>3, <1>9, <2>1 DEF FreeInv
<1>11. OutInv'
  <2>1. taking' = Nothing /\ taking'.cache = 0
    BY <1>3 DEF Nothing
  <2>2. 0 \notin held'
    BY <1>2, <1>5 DEF PoolInv, PoolTypes
  <2>3. \A d \in held' : allocated_size'[d] >= cache_size'[d]
    <3>1. \A d \in held : d \in 1..made /\ allocated_size[d] >= cache_size[d]
      BY DEF PoolInv, PoolTypes, OutInv
    <3> QED BY <1>2, <1>4, <1>6, <3>1
  <2>4. \A d \in 1..made' : \E j \in DOMAIN Size : allocated_size'[d] = Size[j]
    BY <1>4, <1>5, <1>6 DEF PoolInv, OutInv
  <2> QED BY <2>1, <2>2, <2>3, <2>4 DEF OutInv
<1>12. NoneLost'
  <2> SUFFICES ASSUME NEW d \in 1..made', d # c
               PROVE  d \in held' \/ d = taking'.cache \/ InList(d)'
    BY <1>2 DEF NoneLost
  <2>1. d \in 1..made
    BY <1>5
  <2>2. p = available_cache_node
    BY <2>1, <1>3 DEF Built
  <2> QED BY <1>2, <1>3, <2>1, <2>2 DEF PoolInv, NoneLost, InList
<1> QED BY <1>7, <1>8, <1>10, <1>11, <1>12 DEF PoolInv
LEMMA ClassFacts ==
  ASSUME NEW p \in Seq(Class), NEW k \in DOMAIN p
  PROVE  p[k] \in Class /\ p[k].list \in Seq(Cache) /\ p[k].size \in Int
<1>1. p[k] \in Class
  OBVIOUS
<1> QED BY <1>1 DEF Class

\* A pool with one list replaced.
Replaced(p, k, t) == [p EXCEPT ![k].list = t]

LEMMA ReplacedFacts ==
  ASSUME NEW p \in Seq(Class), NEW k \in DOMAIN p, NEW t \in Seq(Cache)
  PROVE  /\ Replaced(p, k, t) \in Seq(Class) /\ Len(Replaced(p, k, t)) = Len(p)
         /\ DOMAIN Replaced(p, k, t) = DOMAIN p
         /\ Replaced(p, k, t)[k].list = t /\ Replaced(p, k, t)[k].size = p[k].size
         /\ \A j \in DOMAIN p : j # k => Replaced(p, k, t)[j] = p[j]
<1> DEFINE r == [p[k] EXCEPT !.list = t]
           q == [p EXCEPT ![k] = r]
<1>1. p[k] \in [size : Int, list : Seq(Cache)]
  BY ClassFacts DEF Class
<1>2. r \in [size : Int, list : Seq(Cache)] /\ r.list = t /\ r.size = p[k].size
  BY <1>1
<1>3. r \in Class
  BY <1>2 DEF Class
<1>4. Replaced(p, k, t) = q
  BY DEF Replaced
<1> HIDE DEF r
<1>5. /\ DOMAIN q = DOMAIN p /\ q[k] = r
      /\ \A j \in DOMAIN p : j # k => q[j] = p[j]
  OBVIOUS
<1>6. Len(p) \in Nat /\ DOMAIN p = 1..Len(p) /\ \A j \in DOMAIN p : p[j] \in Class
  OBVIOUS
<1>7. q \in [1..Len(p) -> Class]
  BY <1>3, <1>6
<1> HIDE DEF q
<1>8. q \in Seq(Class) /\ Len(q) = Len(p)
  BY <1>6, <1>7
<1> QED BY <1>2, <1>4, <1>5, <1>8

LEMMA TailFacts ==
  ASSUME NEW S, NEW s \in Seq(S), s # <<>>
  PROVE  /\ Tail(s) \in Seq(S) /\ Head(s) = s[1] /\ 1 \in DOMAIN s
         /\ \A i \in DOMAIN Tail(s) : i + 1 \in DOMAIN s /\ i # 0 /\ i \in Int /\ Tail(s)[i] = s[i + 1]
         /\ \A i \in DOMAIN s : i # 1 => i - 1 \in DOMAIN Tail(s) /\ Tail(s)[i - 1] = s[i]
  OBVIOUS

LEMMA TakeKeeps == ASSUME PoolInv, NEW n \in Ask, TakeFirst(n) PROVE PoolInv'
<1>1. PICK p \in make_sure_cache_mm : \E k \in Fitting(p, n) :
        /\ p[k].list # <<>>
        /\ taking' = [cache |-> Head(p[k].list), ask |-> n]
        /\ available_cache_node' = [p EXCEPT ![k].list = DropFirst(@)]
  BY DEF TakeFirst
<1>2. PICK k \in Fitting(p, n) :
        /\ p[k].list # <<>>
        /\ taking' = [cache |-> Head(p[k].list), ask |-> n]
        /\ available_cache_node' = [p EXCEPT ![k].list = DropFirst(@)]
  BY <1>1
<1>3. Built(p)
  BY MakeSure
<1>4. k \in DOMAIN Size /\ k \in DOMAIN p /\ p[k].size = Size[k] /\ Size[k] >= n
  BY <1>3, FittingClass
<1>5. p = available_cache_node
  BY <1>2, <1>3, <1>4 DEF Built
<1> DEFINE s == p[k].list
           c == s[1]
           q == available_cache_node'
<1>6. /\ module' = module /\ made' = made /\ allocated_size' = allocated_size
      /\ cache_size' = cache_size /\ zeroed' = zeroed /\ held' = held /\ taking = Nothing
  BY DEF TakeFirst
<1>7. p \in Seq(Class) /\ s \in Seq(Cache)
  <2>1. p \in Seq(Class)
    BY <1>3 DEF Built
  <2> QED BY <2>1, <1>4, ClassFacts
<1>8. /\ Tail(s) \in Seq(Cache) /\ 1 \in DOMAIN s
      /\ \A i \in DOMAIN Tail(s) : i + 1 \in DOMAIN s /\ i # 0 /\ i \in Int /\ Tail(s)[i] = s[i + 1]
      /\ \A i \in DOMAIN s : i # 1 => i - 1 \in DOMAIN Tail(s) /\ Tail(s)[i - 1] = s[i]
  BY <1>2, <1>7, TailFacts
<1>9. taking' = [cache |-> c, ask |-> n] /\ taking'.cache = c /\ taking'.ask = n
  BY <1>2, <1>7, TailFacts
<1>10. /\ q \in Seq(Class) /\ Len(q) = Len(p) /\ DOMAIN q = DOMAIN p
       /\ q[k].list = Tail(s) /\ q[k].size = p[k].size
       /\ \A j \in DOMAIN p : j # k => q[j] = p[j]
  <2>1. q = Replaced(p, k, Tail(s))
    BY <1>2 DEF DropFirst, Replaced
  <2> DEFINE t == Tail(s)
  <2>2. t \in Seq(Cache) /\ k \in DOMAIN p /\ p \in Seq(Class) /\ q = Replaced(p, k, t)
    BY <2>1, <1>4, <1>7, <1>8
  <2> HIDE DEF q, s, t
  <2>3. /\ q \in Seq(Class) /\ Len(q) = Len(p) /\ DOMAIN q = DOMAIN p
        /\ q[k].list = t /\ q[k].size = p[k].size
        /\ \A j \in DOMAIN p : j # k => q[j] = p[j]
    BY <2>2, ReplacedFacts
  <2> QED BY <2>3 DEF t
<1>11. \A j \in DOMAIN p :
         /\ \A i \in DOMAIN p[j].list :
              /\ p[j].list[i] \in zeroed \ held
              /\ j \in DOMAIN Size /\ allocated_size[p[j].list[i]] = Size[j]
         /\ \A i, h \in DOMAIN p[j].list : p[j].list[i] = p[j].list[h] => i = h
  BY <1>5 DEF PoolInv, FreeInv
<1>12. /\ c \in zeroed \ held /\ allocated_size[c] = Size[k] /\ c \in 1..made /\ c # 0
       /\ \A i, j \in DOMAIN s : s[i] = s[j] => i = j
  <2>1. c \in zeroed \ held /\ allocated_size[c] = Size[k]
    BY <1>4, <1>8, <1>11
  <2>2. \A i, j \in DOMAIN s : s[i] = s[j] => i = j
    BY <1>4, <1>11
  <2> HIDE DEF c
  <2>3. c \in 1..made /\ c # 0
    BY <2>1 DEF PoolInv, PoolTypes
  <2> QED BY <2>1, <2>2, <2>3
<1> HIDE DEF q, c, s
<1>13. PoolTypes'
  <2>1. taking' \in [cache : 1..made', ask : Ask]
    BY <1>6, <1>9, <1>12
  <2> QED BY <1>6, <1>10, <2>1 DEF PoolInv, PoolTypes, q
<1>14. ClassesInv'
  <2>1. \A j \in DOMAIN Size : q[j].size = Size[j]
    BY <1>3, <1>4, <1>10 DEF Built
  <2> QED BY <1>3, <1>10, <2>1 DEF Built, ClassesInv, q
<1>15. FreeInv'
  <2> SUFFICES ASSUME NEW j \in DOMAIN q
      PROVE  /\ \A i \in DOMAIN q[j].list :
                  /\ q[j].list[i] \in zeroed \ held /\ q[j].list[i] # c
                  /\ j \in DOMAIN Size /\ allocated_size[q[j].list[i]] = Size[j]
             /\ \A i, h \in DOMAIN q[j].list : q[j].list[i] = q[j].list[h] => i = h
    BY <1>6, <1>9 DEF FreeInv, q
  <2>1. CASE j = k
    <3> DEFINE t == Tail(s)
    <3>0. q[j].list = t
      BY <1>10, <2>1
    <3>1. ASSUME NEW i \in DOMAIN t
          PROVE  t[i] \in zeroed \ held /\ t[i] # c /\ allocated_size[t[i]] = Size[k]
      <4>1. i + 1 \in DOMAIN s /\ t[i] = s[i + 1] /\ i + 1 # 1
        BY <1>8
      <4>2. s[i + 1] \in zeroed \ held /\ allocated_size[s[i + 1]] = Size[k]
        BY <4>1, <1>4, <1>11 DEF s
      <4>3. s[i + 1] # c
        BY <4>1, <1>8, <1>12 DEF c
      <4> QED BY <4>1, <4>2, <4>3
    <3>2. ASSUME NEW i \in DOMAIN t, NEW h \in DOMAIN t, t[i] = t[h] PROVE i = h
      <4>1. i + 1 \in DOMAIN s /\ h + 1 \in DOMAIN s /\ s[i + 1] = s[h + 1]
        BY <1>8, <3>2
      <4>2. i + 1 = h + 1 /\ i \in Int /\ h \in Int
        BY <4>1, <1>8, <1>12
      <4> QED BY <4>2
    <3> HIDE DEF t
    <3> QED BY <3>0, <3>1, <3>2, <2>1, <1>4
  <2>2. CASE j # k
    <3>1. q[j] = p[j] /\ j \in DOMAIN p
      BY <2>2, <1>10
    <3>2. ASSUME NEW i \in DOMAIN p[j].list PROVE p[j].list[i] # c
      BY <2>2, <3>1, <1>4, <1>12, <1>11, SizeFacts
    <3> QED BY <3>1, <3>2, <1>11
  <2> QED BY <2>1, <2>2
<1>16. OutInv'
  <2>1. /\ \A d \in held : allocated_size[d] >= cache_size[d]
        /\ \A d \in 1..made : \E j \in DOMAIN Size : allocated_size[d] = Size[j]
    BY DEF PoolInv, OutInv
  <2> QED BY <1>4, <1>6, <1>9, <1>12, <2>1 DEF OutInv
<1>17. NoneLost'
  <2> SUFFICES ASSUME NEW d \in 1..made, d \notin held, d # c
               PROVE  \E j \in DOMAIN q : \E i \in DOMAIN q[j].list : q[j].list[i] = d
    BY <1>6, <1>9 DEF NoneLost, InList, q
  <2>1. d # 0 /\ taking.cache = 0
    BY <1>6 DEF Nothing, PoolInv, PoolTypes
  <2>2. PICK j \in DOMAIN p : \E i \in DOMAIN p[j].list : p[j].list[i] = d
    BY <2>1, <1>5 DEF PoolInv, NoneLost, InList
  <2>3. PICK i \in DOMAIN p[j].list : p[j].list[i] = d
    BY <2>2
  <2>4. CASE j # k
    BY <2>3, <2>4, <1>10
  <2>5. CASE j = k
    <3>1. i \in DOMAIN s /\ s[i] = d /\ i # 1
      BY <2>3, <2>5 DEF s, c
    <3>2. i - 1 \in DOMAIN Tail(s) /\ Tail(s)[i - 1] = d
      BY <3>1, <1>8
    <3> QED BY <3>2, <1>4, <1>10
  <2> QED BY <2>4, <2>5
<1> QED BY <1>13, <1>14, <1>15, <1>16, <1>17 DEF PoolInv
LEMMA AppendFacts ==
  ASSUME NEW S, NEW s \in Seq(S), NEW c \in S
  PROVE  /\ Append(s, c) \in Seq(S) /\ Len(s) + 1 \in DOMAIN Append(s, c)
         /\ Append(s, c)[Len(s) + 1] = c
         /\ \A i \in DOMAIN s : i \in DOMAIN Append(s, c) /\ Append(s, c)[i] = s[i]
         /\ \A i \in DOMAIN Append(s, c) : i \in DOMAIN s \/ i = Len(s) + 1
  OBVIOUS

LEMMA RecycleKeeps == ASSUME PoolInv, NEW c \in Cache, recycle_cache(c) PROVE PoolInv'
<1>1. c \in held /\ c \in 1..made /\ c # 0 /\ made # 0
  BY DEF recycle_cache, PoolInv, PoolTypes
<1>2. PICK p \in make_sure_cache_mm : \E k \in ClassOf(p, c) :
        available_cache_node' = [p EXCEPT ![k].list = Append(@, c)]
  BY DEF recycle_cache
<1>3. PICK k \in ClassOf(p, c) : available_cache_node' = [p EXCEPT ![k].list = Append(@, c)]
  BY <1>2
<1>4. Built(p) /\ p = available_cache_node
  <2>1. Built(p)
    BY MakeSure
  <2> QED BY <2>1, <1>1 DEF Built
<1>5. k \in DOMAIN Size /\ k \in DOMAIN p /\ allocated_size[c] = Size[k]
  <2>1. PICK j \in DOMAIN Size : allocated_size[c] = Size[j]
    BY <1>1 DEF PoolInv, OutInv
  <2>2. k = j
    BY <2>1, <1>4, OwnClass
  <2> QED BY <2>1, <2>2, <1>4 DEF Built
<1> DEFINE s == p[k].list
           t == Append(s, c)
           q == available_cache_node'
<1>6. /\ module' = module /\ made' = made /\ allocated_size' = allocated_size
      /\ cache_size' = [cache_size EXCEPT ![c] = 0] /\ zeroed' = zeroed \cup {c}
      /\ held' = held \ {c} /\ taking' = taking /\ taking = Nothing /\ taking.cache = 0
  BY DEF recycle_cache, Cleared, Nothing
<1>7. p \in Seq(Class) /\ s \in Seq(Cache)
  <2>1. p \in Seq(Class)
    BY <1>4 DEF Built
  <2> QED BY <2>1, <1>5, ClassFacts
<1>8. /\ t \in Seq(Cache) /\ Len(s) + 1 \in DOMAIN t /\ t[Len(s) + 1] = c
      /\ \A i \in DOMAIN s : i \in DOMAIN t /\ t[i] = s[i]
      /\ \A i \in DOMAIN t : i \in DOMAIN s \/ i = Len(s) + 1
  BY <1>7, AppendFacts
<1>9. q = Replaced(p, k, t)
  BY <1>3 DEF Replaced
<1>10. \A j \in DOMAIN p :
         /\ \A i \in DOMAIN p[j].list :
              /\ p[j].list[i] \in zeroed \ held /\ p[j].list[i] # 0
              /\ j \in DOMAIN Size /\ allocated_size[p[j].list[i]] = Size[j]
         /\ \A i, h \in DOMAIN p[j].list : p[j].list[i] = p[j].list[h] => i = h
  BY <1>4, <1>6 DEF PoolInv, FreeInv
<1>11. /\ \A i \in DOMAIN s : s[i] \in zeroed \ held /\ s[i] # 0 /\ allocated_size[s[i]] = Size[k]
       /\ \A i, h \in DOMAIN s : s[i] = s[h] => i = h
  BY <1>5, <1>10
<1> HIDE DEF q, t, s
<1>12. /\ q \in Seq(Class) /\ Len(q) = Len(p) /\ DOMAIN q = DOMAIN p
       /\ q[k].list = t /\ q[k].size = p[k].size
       /\ \A j \in DOMAIN p : j # k => q[j] = p[j]
  BY <1>5, <1>7, <1>8, <1>9, ReplacedFacts
<1>13. PoolTypes'
  <2>1. cache_size' \in [Cache -> Nat]
    BY <1>6 DEF PoolInv, PoolTypes
  <2>2. zeroed' \subseteq 1..made' /\ held' \subseteq 1..made'
    BY <1>1, <1>6 DEF PoolInv, PoolTypes
  <2> QED BY <1>6, <1>12, <2>1, <2>2 DEF PoolInv, PoolTypes, q
<1>14. ClassesInv'
  <2>1. \A j \in DOMAIN Size : q[j].size = Size[j]
    BY <1>4, <1>5, <1>12 DEF Built
  <2> QED BY <1>4, <1>12, <2>1 DEF Built, ClassesInv, q
<1>15. FreeInv'
  <2> SUFFICES ASSUME NEW j \in DOMAIN q
      PROVE  /\ \A i \in DOMAIN q[j].list :
                  /\ q[j].list[i] \in zeroed' \ held' /\ q[j].list[i] # 0
                  /\ j \in DOMAIN Size /\ allocated_size[q[j].list[i]] = Size[j]
             /\ \A i, h \in DOMAIN q[j].list : q[j].list[i] = q[j].list[h] => i = h
    BY <1>6 DEF FreeInv, q
  <2>1. CASE j = k
    <3>0. q[j].list = t
      BY <1>12, <2>1
    <3>1. ASSUME NEW i \in DOMAIN t
          PROVE  t[i] \in zeroed' \ held' /\ t[i] # 0 /\ allocated_size[t[i]] = Size[k]
      <4>1. CASE i \in DOMAIN s
        BY <4>1, <1>6, <1>8, <1>11
      <4>2. CASE i = Len(s) + 1
        BY <4>2, <1>1, <1>5, <1>6, <1>8
      <4> QED BY <4>1, <4>2, <1>8
    <3>2. ASSUME NEW i \in DOMAIN t, NEW h \in DOMAIN t, t[i] = t[h] PROVE i = h
      BY <3>2, <1>1, <1>8, <1>11
    <3> QED BY <3>0, <3>1, <3>2, <2>1, <1>5
  <2>2. CASE j # k
    <3>1. q[j] = p[j] /\ j \in DOMAIN p
      BY <2>2, <1>12
    <3> QED BY <3>1, <1>6, <1>10
  <2> QED BY <2>1, <2>2
<1>16. OutInv'
  <2>1. /\ \A d \in held : d \in Cache /\ allocated_size[d] >= cache_size[d]
        /\ \A d \in 1..made : \E j \in DOMAIN Size : allocated_size[d] = Size[j]
    <3>1. made \in 0..MaxCaches /\ held \subseteq 1..made
      BY DEF PoolInv, PoolTypes
    <3>2. held \subseteq Cache
      BY <3>1, BoundAssumption DEF Cache
    <3> QED BY <3>2 DEF PoolInv, OutInv
  <2>2. \A d \in held' : d \in held /\ d # c /\ cache_size'[d] = cache_size[d]
    BY <1>6, <2>1 DEF PoolInv, PoolTypes
  <2>3. taking'.cache \notin held'
    BY <1>6 DEF PoolInv, OutInv
  <2> QED BY <1>6, <2>1, <2>2, <2>3 DEF OutInv
<1>17. NoneLost'
  <2> SUFFICES ASSUME NEW d \in 1..made, d \notin held'
               PROVE  \E j \in DOMAIN q : \E i \in DOMAIN q[j].list : q[j].list[i] = d
    BY <1>6 DEF NoneLost, InList, q
  <2>1. CASE d = c
    BY <2>1, <1>5, <1>8, <1>12
  <2>2. CASE d # c
    <3>1. d \notin held /\ d # taking.cache
      BY <2>2, <1>6 DEF PoolInv, PoolTypes
    <3>2. PICK j \in DOMAIN p : \E i \in DOMAIN p[j].list : p[j].list[i] = d
      BY <3>1, <1>4 DEF PoolInv, NoneLost, InList
    <3>3. PICK i \in DOMAIN p[j].list : p[j].list[i] = d
      BY <3>2
    <3>4. CASE j # k
      BY <3>3, <3>4, <1>12
    <3>5. CASE j = k
      <4>1. i \in DOMAIN s /\ s[i] = d
        BY <3>3, <3>5 DEF s
      <4> QED BY <4>1, <1>5, <1>8, <1>12
    <3> QED BY <3>4, <3>5
  <2> QED BY <2>1, <2>2
<1> QED BY <1>13, <1>14, <1>15, <1>16, <1>17 DEF PoolInv

LEMMA NextPool == ASSUME PoolInv, [Next]_vars PROVE PoolInv'
<1>1. CASE UNCHANGED vars
  <2>1. module' \in {"off", "ready", "down"}
    BY <1>1 DEF vars, PoolInv, PoolTypes
  <2> QED BY <1>1, <2>1, SamePool DEF vars
<1>2. CASE initialise_cache_module \/ NodeReused \/ OutOfMemory \/ release_cache_module
  <2>1. module' \in {"off", "ready", "down"}
    BY <1>2 DEF initialise_cache_module, NodeReused, OutOfMemory, release_cache_module
  <2> QED BY <1>2, <2>1, SamePool
          DEF initialise_cache_module, NodeReused, OutOfMemory, release_cache_module
<1>3. CASE ReadFreedNode
  BY <1>3, ReturnKeeps
<1>4. CASE \E n \in Ask : get_new_cache(n) \/ TakeFirst(n)
  BY <1>4, NewKeeps, TakeKeeps
<1>5. CASE \E c \in Cache : Fill(c) \/ recycle_cache(c)
  BY <1>5, FillKeeps, RecycleKeeps
<1> QED BY <1>1, <1>2, <1>3, <1>4, <1>5 DEF Next

\* Every cache ever made is with one caller, in the hands of get_new_cache, or once in the
\* free list of its own size, whatever the threads call and in whatever order.
THEOREM PoolIsSound == Spec => []PoolInv
<1>1. Init => PoolInv
  BY InitPool
<1>2. PoolInv /\ [Next]_vars => PoolInv'
  BY NextPool
<1> QED BY <1>1, <1>2, PTL DEF Spec

\* The size classes that make_sure_cache_mm reads past its array never matter, whatever is
\* in that memory.
THEOREM OverreadIsHarmless == Spec => []OverreadHarmless
<1>1. PoolInv => OverreadHarmless
  <2> SUFFICES ASSUME PoolInv PROVE OverreadHarmless
    OBVIOUS
  <2>1. ASSUME NEW k \in DOMAIN available_cache_node, k > Len(Size)
        PROVE  available_cache_node[k].list = <<>>
    <3>1. k \notin DOMAIN Size
      BY <2>1, SizeFacts
    <3>2. \A i \in DOMAIN available_cache_node[k].list : FALSE
      BY <3>1 DEF PoolInv, FreeInv
    <3>3. available_cache_node[k].list \in Seq(Cache)
      BY ClassFacts DEF PoolInv, PoolTypes
    <3> DEFINE s == available_cache_node[k].list
    <3>4. s \in Seq(Cache) /\ \A i \in DOMAIN s : FALSE
      BY <3>2, <3>3
    <3> HIDE DEF s
    <3>5. s = <<>>
      BY <3>4
    <3> QED BY <3>5 DEF s
  <2> QED BY <2>1 DEF OverreadHarmless, PoolInv, OutInv
<1> QED BY <1>1, PoolIsSound, PTL
\* A class without free caches: get_new_cache found it so, and all its caches are held.
LEMMA AllInUse ==
  ASSUME PoolInv, NEW n \in Ask, get_new_cache(n),
         NEW c \in 1..made, allocated_size[c] = allocated_size'[made']
  PROVE  c \in held
<1>1. PICK p \in make_sure_cache_mm : \E k \in Fitting(p, n) :
        /\ NoneFree(p, k) /\ made' = made + 1
        /\ allocated_size' = [allocated_size EXCEPT ![made + 1] = p[k].size]
  BY DEF get_new_cache
<1>2. PICK k \in Fitting(p, n) :
        /\ NoneFree(p, k) /\ made' = made + 1
        /\ allocated_size' = [allocated_size EXCEPT ![made + 1] = p[k].size]
  BY <1>1
<1>3. Built(p)
  BY MakeSure
<1>4. k \in DOMAIN Size /\ k \in DOMAIN p /\ p[k].size = Size[k]
  BY <1>3, FittingClass
<1>5. p = available_cache_node
  BY <1>3 DEF Built
<1>6. made + 1 \in Cache
  BY BoundAssumption DEF get_new_cache, PoolInv, PoolTypes, Cache
<1>7. allocated_size[c] = Size[k]
  BY <1>2, <1>4, <1>6 DEF PoolInv, PoolTypes
<1>8. ~InList(c)
  <2> SUFFICES ASSUME NEW j \in DOMAIN p, NEW i \in DOMAIN p[j].list, p[j].list[i] = c
               PROVE  FALSE
    BY <1>5 DEF InList
  <2>1. j \in DOMAIN Size /\ allocated_size[c] = Size[j]
    BY <1>5 DEF PoolInv, FreeInv
  <2>2. j = k
    BY <2>1, <1>4, <1>7, SizeFacts
  <2>3. p[k].list = <<>>
    BY <1>2 DEF NoneFree
  <2> QED BY <2>2, <2>3
<1>9. taking.cache = 0 /\ c # 0
  BY DEF get_new_cache, Nothing, PoolInv, PoolTypes
<1> QED BY <1>8, <1>9 DEF PoolInv, NoneLost

\* A cache is only ever made when all others of its size are with callers.
THEOREM GrowsWithDemand == Spec => GrowsOnlyWhenAllInUse
<1> DEFINE Step ==
      \A c \in 1..made :
        made' # made /\ allocated_size[c] = allocated_size'[made'] => c \in held
<1>1. PoolInv /\ [Next]_vars => [Step]_vars
  <2> SUFFICES ASSUME PoolInv, Next, NEW c \in 1..made, made' # made,
                      allocated_size[c] = allocated_size'[made']
               PROVE  c \in held
    BY DEF vars
  <2>1. PICK n \in Ask : get_new_cache(n)
    BY DEF Next, initialise_cache_module, NodeReused, OutOfMemory, release_cache_module,
           ReadFreedNode, TakeFirst, Fill, recycle_cache
  <2> QED BY <2>1, AllInUse
<1> QED BY <1>1, PoolIsSound, PTL DEF Spec, GrowsOnlyWhenAllInUse

-----------------------------------------------------------------------------
(* The pool implements Allocator. *)

InUse == [c \in held |-> [asked |-> cache_size[c], room |-> allocated_size[c],
                          content |-> Content(c)]]

\* A step that leaves what callers see alone.
LEMMA SameUse ==
  ASSUME UNCHANGED <<held, cache_size, allocated_size, zeroed>> PROVE InUse' = InUse
  BY DEF InUse, Content
\* A cache handed out: nobody had it, and it is large enough and zero.
LEMMA HandedOut ==
  ASSUME NEW c \in Cache \ held, NEW n \in Ask, NEW k \in DOMAIN Size,
         Size[k] >= n, held' = held \cup {c},
         cache_size'[c] = n, allocated_size'[c] = Size[k], c \in zeroed',
         \A d \in held : cache_size'[d] = cache_size[d] /\ allocated_size'[d] = allocated_size[d],
         zeroed' \cap held = zeroed \cap held
  PROVE  A!Next
<1> DEFINE Rec == [asked |-> n, room |-> Size[k], content |-> "zero"]
<1>1. InUse' = [d \in held \cup {c} |-> [asked |-> cache_size'[d], room |-> allocated_size'[d],
                                        content |-> Content(d)']]
  BY DEF InUse
<1>2. Content(c)' = "zero"
  BY DEF Content
<1>3. \A d \in held : Content(d)' = Content(d)
  BY DEF Content
<1>4. InUse' = [d \in held \cup {c} |-> IF d = c THEN Rec ELSE InUse[d]]
  BY <1>1, <1>2, <1>3 DEF InUse
<1>5. DOMAIN InUse = held
  BY DEF InUse
<1>6. A!Get(n)
  <2>1. c \in Cache \ DOMAIN InUse /\ Size[k] \in {Size[j] : j \in DOMAIN Size}
    BY <1>5
  <2> QED BY <1>4, <1>5, <2>1 DEF A!Get, InUse
<1> QED BY <1>6 DEF A!Next
LEMMA NewIsGet == ASSUME PoolInv, NEW n \in Ask, get_new_cache(n) PROVE A!Next
<1> DEFINE c == made + 1
<1>1. PICK p \in make_sure_cache_mm : \E k \in Fitting(p, n) :
        /\ allocated_size' = [allocated_size EXCEPT ![c] = p[k].size]
        /\ cache_size' = [cache_size EXCEPT ![c] = n]
        /\ zeroed' = zeroed \cup {c} /\ held' = held \cup {c}
  BY DEF get_new_cache
<1>2. PICK k \in Fitting(p, n) :
        /\ allocated_size' = [allocated_size EXCEPT ![c] = p[k].size]
        /\ cache_size' = [cache_size EXCEPT ![c] = n]
        /\ zeroed' = zeroed \cup {c} /\ held' = held \cup {c}
  BY <1>1
<1>3. k \in DOMAIN Size /\ p[k].size = Size[k] /\ Size[k] >= n
  BY MakeSure, FittingClass
<1>4. c \in Cache /\ \A d \in held : d # c
  BY BoundAssumption DEF get_new_cache, PoolInv, PoolTypes, Cache
<1>5. \A d \in held : d \in Cache
  <2>1. made \in 0..MaxCaches /\ held \subseteq 1..made
    BY DEF PoolInv, PoolTypes
  <2> QED BY <2>1, BoundAssumption DEF Cache
<1> HIDE DEF c
<1>6. allocated_size \in [Cache -> Int] /\ cache_size \in [Cache -> Nat]
  BY DEF PoolInv, PoolTypes
<1>7. /\ cache_size'[c] = n /\ allocated_size'[c] = Size[k] /\ c \in zeroed'
      /\ \A d \in held : cache_size'[d] = cache_size[d] /\ allocated_size'[d] = allocated_size[d]
      /\ zeroed' \cap held = zeroed \cap held
  BY <1>2, <1>3, <1>4, <1>5, <1>6
<1>8. c \in Cache \ held /\ held' = held \cup {c}
  BY <1>2, <1>4
<1> QED BY <1>3, <1>7, <1>8, HandedOut

LEMMA ReturnIsGet == ASSUME PoolInv, ReadFreedNode PROVE A!Next
<1> DEFINE c == taking.cache
           n == taking.ask
<1>1. taking \in [cache : 1..made, ask : Ask]
  BY DEF PoolInv, PoolTypes, ReadFreedNode
<1>2. c \in 1..made /\ n \in Ask
  BY <1>1
<1>3. made \in 0..MaxCaches /\ held \subseteq 1..made /\ cache_size \in [Cache -> Nat]
  BY DEF PoolInv, PoolTypes
<1>4. c \in Cache \ held /\ \A d \in held : d \in Cache
  BY <1>2, <1>3, BoundAssumption DEF Cache, PoolInv, OutInv
<1>5. allocated_size[c] >= n /\ c \in zeroed
  BY DEF PoolInv, OutInv, ReadFreedNode
<1>6. PICK k \in DOMAIN Size : allocated_size[c] = Size[k]
  BY <1>2 DEF PoolInv, OutInv
<1>7. /\ cache_size' = [cache_size EXCEPT ![c] = n] /\ held' = held \cup {c}
      /\ allocated_size' = allocated_size /\ zeroed' = zeroed
  BY DEF ReadFreedNode
<1> HIDE DEF c, n
<1>8. /\ cache_size'[c] = n
      /\ \A d \in held : cache_size'[d] = cache_size[d]
  BY <1>3, <1>4, <1>7
<1> QED BY <1>2, <1>4, <1>5, <1>6, <1>7, <1>8, HandedOut

LEMMA FillIsFill == ASSUME PoolInv, NEW c \in Cache, Fill(c) PROVE A!Next
<1>1. /\ c \in held /\ zeroed' = zeroed \ {c} /\ held' = held
      /\ cache_size' = cache_size /\ allocated_size' = allocated_size
  BY DEF Fill
<1>2. DOMAIN InUse = held
  BY DEF InUse
<1> DEFINE Rec(d, z) == [asked |-> cache_size[d], room |-> allocated_size[d], content |-> z]
<1>3. InUse = [d \in held |-> Rec(d, Content(d))]
  BY DEF InUse
<1>4. InUse' = [d \in held |-> Rec(d, Content(d)')]
  BY <1>1 DEF InUse
<1>5. \A d \in held : d # c => Content(d)' = Content(d)
  BY <1>1 DEF Content
<1>6. Content(c)' = "data"
  BY <1>1 DEF Content
<1>7. [InUse[c] EXCEPT !.content = "data"] = Rec(c, "data")
  BY <1>1, <1>3
<1>8. InUse' = [InUse EXCEPT ![c] = Rec(c, "data")]
  <2>1. \A d \in held : Rec(d, Content(d)') = IF d = c THEN Rec(c, "data") ELSE InUse[d]
    BY <1>3, <1>5, <1>6
  <2> HIDE DEF Rec
  <2> QED BY <1>1, <1>2, <1>3, <1>4, <2>1
<1>9. A!Fill(c)
  BY <1>7, <1>8 DEF A!Fill, InUse
<1> HIDE DEF Rec
<1>10. \E d \in DOMAIN InUse : A!Fill(d) \/ A!Recycle(d)
  BY <1>1, <1>2, <1>9
<1> QED BY <1>10 DEF A!Next, InUse

LEMMA RecycleIsRecycle == ASSUME PoolInv, NEW c \in Cache, recycle_cache(c) PROVE A!Next
<1>1. /\ c \in held /\ held' = held \ {c} /\ allocated_size' = allocated_size
      /\ cache_size' = [cache_size EXCEPT ![c] = 0] /\ zeroed' = zeroed \cup {c}
  BY DEF recycle_cache, Cleared
<1>2. DOMAIN InUse = held
  BY DEF InUse
<1>3. \A d \in held \ {c} : /\ cache_size'[d] = cache_size[d]
                             /\ Content(d)' = Content(d)
  <2>1. made \in 0..MaxCaches /\ held \subseteq 1..made /\ cache_size \in [Cache -> Nat]
    BY DEF PoolInv, PoolTypes
  <2>2. held \subseteq Cache
    BY <2>1, BoundAssumption DEF Cache
  <2> QED BY <1>1, <2>1, <2>2 DEF Content
<1>4. InUse' = [d \in held \ {c} |-> InUse[d]]
  BY <1>1, <1>3 DEF InUse
<1>5. A!Recycle(c)
  BY <1>2, <1>4 DEF A!Recycle, InUse
<1> QED BY <1>1, <1>2, <1>5 DEF A!Next, InUse

\* The pool gives every caller what common_io.h promises: a cache of its own, zeroed and
\* large enough, until the caller recycles it.
THEOREM PoolImplementsAllocator == Spec => AllocatorSpec
<1>1. Init => A!Init
  <2> SUFFICES ASSUME held = {} PROVE A!Init
    BY DEF Init
  <2>1. InUse = [c \in {} |-> 0]
    BY DEF InUse
  <2> QED BY <2>1 DEF A!Init, InUse
<1>2. PoolInv /\ [Next]_vars => [A!Next]_InUse
  <2> SUFFICES ASSUME PoolInv, [Next]_vars PROVE A!Next \/ InUse' = InUse
    OBVIOUS
  <2>1. CASE UNCHANGED <<held, cache_size, allocated_size, zeroed>>
    BY <2>1, SameUse
  <2>2. CASE ReadFreedNode
    BY <2>2, ReturnIsGet
  <2>3. CASE \E n \in Ask : get_new_cache(n)
    BY <2>3, NewIsGet
  <2>4. CASE \E c \in Cache : Fill(c) \/ recycle_cache(c)
    BY <2>4, FillIsFill, RecycleIsRecycle
  <2> QED BY <2>1, <2>2, <2>3, <2>4
          DEF Next, vars, initialise_cache_module, NodeReused, OutOfMemory,
              release_cache_module, TakeFirst
<1> QED BY <1>1, <1>2, PoolIsSound, PTL DEF Spec, AllocatorSpec, A!Spec, InUse
=============================================================================
