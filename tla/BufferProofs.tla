---------------------------- MODULE BufferProofs ----------------------------
(***************************************************************************)
(* BufferInv is an invariant of Buffer for every node size, every bound    *)
(* and every kind of failure.                                              *)
(***************************************************************************)
EXTENDS Buffer, TLAPS

\* A new buffer satisfies the invariant.
LEMMA InitInv == Init => BufferInv
<1> SUFFICES ASSUME Init PROVE BufferInv
  OBVIOUS
<1> USE BufferAssumption DEF Init
<1>1. TypeOK
  BY DEF TypeOK
<1>2. Chain(cache_list) /\ Chain(tmp_list) /\ Bases
  BY DEF Chain, Bases
<1>3. Linked /\ AtRest /\ IdleState
  BY DEF Linked, AtRest, IdleState
<1>4. FrontInv /\ BackIsLast
  BY DEF FrontInv, FrontByte, Appending, BackIsLast, NoNodes
<1>5. AppendState /\ MeasureState /\ GetState 
  BY DEF AppendState, MeasureState, GetState, Appending
<1>6. StrayInv
  BY DEF StrayInv
<1> QED BY <1>1, <1>2, <1>3, <1>4, <1>5, <1>6 DEF BufferInv, NodesInv, UseInv, Appending

\* The members of a list of nodes are nodes.
LEMMA NodesAreNodes ==
  ASSUME NEW s \in Seq(Node)
  PROVE  /\ Len(s) \in Nat /\ DOMAIN s = 1..Len(s)
         /\ \A i \in DOMAIN s : /\ s[i] \in Node /\ s[i].base \in Int
                                /\ s[i].r_offset \in Int /\ s[i].w_offset \in Int
<1>1. Len(s) \in Nat /\ DOMAIN s = 1..Len(s) /\ \A i \in DOMAIN s : s[i] \in Node
  OBVIOUS
<1>2. \A n \in Node : n.base \in Int /\ n.r_offset \in Int /\ n.w_offset \in Int
  BY DEF Node
<1> QED BY <1>1, <1>2

\* A list of nodes that is not empty has a first and a last node.
LEMMA NodeFacts ==
  ASSUME NEW s \in Seq(Node), s # <<>>
  PROVE  /\ Len(s) \in Nat \ {0} /\ DOMAIN s = 1..Len(s)
         /\ Head(s) = s[1] /\ s[1] \in Node /\ LastOf(s) = s[Len(s)] /\ LastOf(s) \in Node
         /\ s[1].base \in Int /\ s[1].r_offset \in Int /\ s[1].w_offset \in Int
         /\ LastOf(s).base \in Int /\ LastOf(s).r_offset \in Int /\ LastOf(s).w_offset \in Int
<1>1. Len(s) \in Nat \ {0} /\ DOMAIN s = 1..Len(s)
  OBVIOUS
<1>2. Head(s) = s[1]
  OBVIOUS
<1>3. s[1] \in Node /\ s[Len(s)] \in Node
  BY <1>1
<1> QED BY <1>1, <1>2, <1>3 DEF LastOf, Node

\* A new node is a node.
LEMMA NewNodeFacts ==
  ASSUME NEW b \in Int
  PROVE  /\ NewNode(b) \in Node /\ NewNode(b).base = b /\ NewNode(b).r_offset = 0
         /\ NewNode(b).w_offset = 0
  BY DEF NewNode, Node

\* A step that leaves the front of the nodes where it is.
LEMMA FrontKept ==
  ASSUME FrontInv, FrontByte' = FrontByte, got' = got, torn' = torn,
         got <= (IF Appending' THEN had'[1] ELSE put')
  PROVE  FrontInv'
  BY DEF FrontInv

\* The position of the next byte is a number.
LEMMA FrontByteType ==
  ASSUME TypeOK
  PROVE  FrontByte \in Int
<1>1. put \in Int /\ cache_list \in Seq(Node) /\ tmp_list \in Seq(Node)
  BY DEF TypeOK
<1>2. CASE NoNodes
  BY <1>1, <1>2 DEF FrontByte
<1>3. CASE cache_list # <<>>
  <2>1. ~NoNodes /\ Front = cache_list[1]
    BY <1>1, <1>3, NodeFacts DEF NoNodes, Front, First
  <2>2. cache_list[1].base \in Int /\ cache_list[1].r_offset \in Int
    BY <1>1, <1>3, NodeFacts
  <2> QED BY <2>1, <2>2 DEF FrontByte
<1>4. CASE cache_list = <<>> /\ tmp_list # <<>>
  <2>1. ~NoNodes /\ Front = tmp_list[1]
    BY <1>1, <1>4, NodeFacts DEF NoNodes, Front
  <2>2. tmp_list[1].base \in Int /\ tmp_list[1].r_offset \in Int
    BY <1>1, <1>4, NodeFacts
  <2> QED BY <2>1, <2>2 DEF FrontByte
<1> QED BY <1>2, <1>3, <1>4 DEF NoNodes

\* The call that begins read_into_buffer or write_into_buffer keeps the invariant.
LEMMA AppendInv ==
  ASSUME BufferInv, NEW o \in {"read_into", "write_into"}, NEW n \in 0..MaxOp, Append_(o, n),
         o = "write_into" => n > 0
  PROVE  NodesInv'
<1> USE BufferAssumption
<1>0. TypeOK /\ pc = "idle" /\ UNCHANGED <<cache_list, put, got, torn, stray>>
  BY DEF BufferInv, NodesInv, Append_
<1>l. cache_list # <<>> =>
        /\ Len(cache_list) \in Nat \ {0} /\ DOMAIN cache_list = 1..Len(cache_list)
        /\ Head(cache_list) = cache_list[1] /\ LastOf(cache_list) = cache_list[Len(cache_list)]
        /\ LastOf(cache_list).base \in Int /\ LastOf(cache_list).w_offset \in Int
        /\ LastOf(cache_list).r_offset \in Int
  BY <1>0, NodeFacts DEF TypeOK
<1>n. /\ NewNode(put + 1) \in Node /\ NewNode(put + 1).base = put + 1
      /\ NewNode(put + 1).r_offset = 0 /\ NewNode(put + 1).w_offset = 0
  BY <1>0, NewNodeFacts DEF TypeOK
<1>a. CASE /\ NeedsNode /\ op' = o /\ size' = n /\ had' = <<put, got>> /\ pc' = "append"
           /\ tmp_list' = <<NewNode(put + 1)>> /\ held' = held + 1
           /\ UNCHANGED <<last_w_offset, already, expected, index, ret, faults>>
  <2>1. TypeOK'
    BY <1>0, <1>a, <1>n DEF TypeOK
  <2>2. ASSUME InUse' PROVE UseInv'
    <3>1. InUse /\ UseInv
      BY <1>0, <2>2 DEF InUse, BufferInv, NodesInv, UseInv
    <3>2. Chain(cache_list)'
      BY <1>0, <3>1 DEF UseInv, Chain
    <3>3. Chain(tmp_list)' /\ Bases'
      BY <1>0, <1>a, <1>n, <3>1 DEF Chain, TypeOK, UseInv, Bases, Appending
    <3>4. BackIsLast'
      BY <1>0, <1>a, <1>n DEF BackIsLast, Current, LastOf, TypeOK
    <3>5. Linked' /\ FrontByte' = FrontByte
      <4>1. CASE cache_list = <<>>
        <5>1. FrontByte = put + 1
          BY <1>0, <3>1, <4>1 DEF UseInv, FrontByte, NoNodes, AtRest, Appending
        <5>2. Linked'
          BY <1>0, <1>a, <1>n, <4>1 DEF Linked
        <5>3. ~NoNodes' /\ Front' = NewNode(put + 1)
          BY <1>0, <1>a, <4>1 DEF NoNodes, Front
        <5>4. FrontByte' = put + 1
          BY <1>0, <1>n, <5>3 DEF FrontByte, TypeOK
        <5> QED BY <5>1, <5>2, <5>4
      <4>2. CASE cache_list # <<>>
        <5>1. Current = LastOf(cache_list) /\ ~NoNodes /\ tmp_list = <<>>
          BY <1>0, <3>1, <4>2 DEF Current, NoNodes, UseInv, AtRest, Appending
        <5>2. LastOf(cache_list).w_offset = CACHE_SIZE
              /\ LastOf(cache_list).base + CACHE_SIZE = put + 1
          BY <1>0, <1>a, <1>l, <3>1, <4>2, <5>1 DEF UseInv, BackIsLast, NeedsNode
        <5>3. Linked'
          BY <1>0, <1>a, <1>n, <4>2, <5>2 DEF Linked, LastOf
        <5>4. FrontByte' = FrontByte
          BY <1>0, <4>2 DEF FrontByte, NoNodes, Front, First
        <5> QED BY <5>3, <5>4
      <4> QED BY <4>1, <4>2
    <3>f. FrontInv'
      <4>1. FrontInv /\ got <= put
        BY <1>0, <3>1 DEF UseInv, FrontInv, Appending
      <4>2. Appending' /\ had'[1] = put
        BY <1>a DEF Appending
      <4> QED BY <1>0, <3>5, <4>1, <4>2, FrontKept
    <3>6. AppendState'
      <4>1. last_w_offset = -1 /\ already = 0
        BY <1>0, <3>1 DEF UseInv, AtRest, Appending, IdleState
      <4>2. tmp_list' # <<>> /\ tmp_list'[1] = NewNode(put + 1) /\ Current' = NewNode(put + 1)
        BY <1>a DEF Current, LastOf
      <4>3. had'[1] = put /\ put \in Int /\ n \in Nat
        BY <1>0, <1>a DEF TypeOK
      <4>4. put - put = 0 /\ 0 < CACHE_SIZE
        BY <4>3
      <4> QED BY <1>0, <1>a, <1>n, <4>1, <4>2, <4>3, <4>4 DEF AppendState
    <3>7. AtRest' /\ MeasureState' /\ GetState' /\ IdleState'
      BY <1>a DEF AtRest, Appending, MeasureState, GetState, IdleState
    <3> QED BY <3>2, <3>3, <3>4, <3>5, <3>f, <3>6, <3>7 DEF UseInv
  <2> QED BY <1>a, <2>1, <2>2 DEF BufferInv, NodesInv, NoNodes
<1>b. CASE /\ ~NeedsNode /\ op' = o /\ size' = n /\ had' = <<put, got>> /\ pc' = "append"
           /\ last_w_offset' = LastOf(cache_list).w_offset
           /\ UNCHANGED <<tmp_list, held, already, expected, index, ret, faults>>
  <2>0. cache_list # <<>> /\ LastOf(cache_list).w_offset # CACHE_SIZE
    BY <1>b DEF NeedsNode
  <2>1. TypeOK'
    BY <1>0, <1>b, <1>l, <2>0 DEF TypeOK
  <2>2. ASSUME InUse' PROVE UseInv'
    <3>1. InUse /\ UseInv /\ tmp_list = <<>> /\ already = 0
      BY <1>0, <2>2 DEF InUse, BufferInv, NodesInv, UseInv, AtRest, Appending, IdleState
    <3>2. Chain(cache_list)' /\ Chain(tmp_list)' /\ Bases'
      BY <1>0, <1>b, <3>1 DEF UseInv, Chain, Bases, Appending
    <3>3. Linked' /\ BackIsLast'
      BY <1>0, <1>b, <3>1
      DEF UseInv, Linked, BackIsLast, NoNodes, Current, LastOf
    <3>f. FrontInv'
      <4>1. FrontInv /\ got <= put
        BY <1>0, <3>1 DEF UseInv, FrontInv, Appending
      <4>2. Appending' /\ had'[1] = put
        BY <1>b DEF Appending
      <4>3. FrontByte' = FrontByte
        BY <1>0, <1>b DEF FrontByte, NoNodes, Front, First
      <4> QED BY <1>0, <4>1, <4>2, <4>3, FrontKept
    <3>4. LastOf(cache_list).base + LastOf(cache_list).w_offset = put + 1
      BY <1>0, <2>0, <3>1 DEF UseInv, BackIsLast, NoNodes, Current
    <3>5. /\ LastOf(cache_list).r_offset <= LastOf(cache_list).w_offset
          /\ 0 <= LastOf(cache_list).w_offset /\ LastOf(cache_list).w_offset <= CACHE_SIZE
      BY <1>l, <2>0, <3>1 DEF UseInv, Chain
    <3>6. AppendState'
      <4>1. /\ LastOf(cache_list).w_offset # -1 /\ LastOf(cache_list).w_offset < CACHE_SIZE
            /\ put - put = 0
        <5>1. put \in Int /\ LastOf(cache_list).w_offset \in Int
          BY <1>0, <1>l, <2>0 DEF TypeOK
        <5> QED BY <5>1, <2>0, <3>5
      <4>2. Current' = LastOf(cache_list) /\ LastOf(cache_list)' = LastOf(cache_list)
        BY <1>0, <1>b, <3>1 DEF Current, LastOf
      <4>3. had'[1] = put /\ n \in Nat
        BY <1>b
      <4> QED BY <1>0, <1>b, <2>0, <3>1, <3>4, <3>5, <4>1, <4>2, <4>3 DEF AppendState
    <3>7. AtRest' /\ MeasureState' /\ GetState' /\ IdleState'
      BY <1>b DEF AtRest, Appending, MeasureState, GetState, IdleState
    <3> QED BY <3>2, <3>3, <3>f, <3>6, <3>7 DEF UseInv
  <2> QED BY <1>0, <2>0, <2>1, <2>2 DEF BufferInv, NodesInv, NoNodes
<1>c. CASE NeedsNode /\ Fault("alloc") /\ Returns(-1) /\ UNCHANGED <<pc, held>>
  <2>1. TypeOK'
    BY <1>0, <1>c DEF TypeOK, Returns, Fault
  <2>2. ASSUME InUse' PROVE UseInv'
    <3>1. InUse /\ UseInv
      BY <1>0, <1>c, <2>2 DEF InUse, BufferInv, NodesInv, UseInv
    <3>2. tmp_list = <<>>
      BY <1>0, <3>1 DEF UseInv, AtRest, Appending
    <3>3. FrontByte' = FrontByte /\ ~Appending /\ ~Appending'
      BY <1>0, <1>c, <3>2 DEF Returns, FrontByte, NoNodes, Front, First, Appending
    <3>4. FrontInv'
      <4>1. FrontInv /\ got <= put
        BY <3>1, <3>3 DEF UseInv, FrontInv
      <4> QED BY <1>0, <3>3, <4>1, FrontKept
    <3>5. Chain(cache_list)' /\ Chain(tmp_list)' /\ Bases' /\ Linked' /\ BackIsLast'
      BY <1>0, <1>c, <3>1, <3>2, <3>3
      DEF Returns, UseInv, Chain, Bases, Linked, BackIsLast, NoNodes, Current, LastOf
    <3>6. AtRest' /\ AppendState' /\ MeasureState' /\ GetState' /\ IdleState'
      BY <1>0, <1>c, <3>3 DEF Returns, AtRest, AppendState, MeasureState, GetState, IdleState
    <3> QED BY <3>4, <3>5, <3>6 DEF UseInv
  <2> QED BY <1>0, <1>c, <2>1, <2>2 DEF BufferInv, NodesInv, Appending
<1> QED
  BY <1>a, <1>b, <1>c DEF Append_

-----------------------------------------------------------------------------
(* Storing bytes *)

\* Giving the last node of a list another w_offset changes nothing else.
LEMMA FillFacts ==
  ASSUME NEW s \in Seq(Node), s # <<>>, NEW w \in Int
  PROVE  LET t == EndAt(s, w) IN
         /\ t \in Seq(Node) /\ t # <<>> /\ Len(t) = Len(s) /\ DOMAIN t = DOMAIN s
         /\ \A i \in DOMAIN s : i # Len(s) => t[i] = s[i]
         /\ \A i \in DOMAIN s : t[i].base = s[i].base /\ t[i].r_offset = s[i].r_offset
         /\ LastOf(t).w_offset = w /\ LastOf(t).base = LastOf(s).base
         /\ LastOf(t).r_offset = LastOf(s).r_offset
         /\ Head(t).base = Head(s).base /\ Head(t).r_offset = Head(s).r_offset
<1>1. /\ Len(s) \in Nat \ {0} /\ DOMAIN s = 1..Len(s) /\ Head(s) = s[1]
      /\ LastOf(s) = s[Len(s)] /\ LastOf(s) \in Node
  BY NodeFacts
<1> DEFINE n == [LastOf(s) EXCEPT !.w_offset = w]
           t == EndAt(s, w)
<1>2. n \in Node /\ n.base = LastOf(s).base /\ n.r_offset = LastOf(s).r_offset /\ n.w_offset = w
  BY <1>1 DEF Node
<1>x. t = [s EXCEPT ![Len(s)] = n]
  BY DEF EndAt
<1> HIDE DEF n, t
<1>3. t \in Seq(Node) /\ Len(t) = Len(s) /\ DOMAIN t = DOMAIN s /\ t # <<>>
  BY <1>1, <1>2, <1>x
<1>4. \A i \in DOMAIN s : t[i] = IF i = Len(s) THEN n ELSE s[i]
  BY <1>1, <1>2, <1>x
<1>5. LastOf(t) = n
  BY <1>1, <1>3, <1>4 DEF LastOf
<1>h. Head(t) = t[1]
  BY <1>3, NodeFacts
<1>6. \A i \in DOMAIN s : t[i].base = s[i].base /\ t[i].r_offset = s[i].r_offset
  BY <1>1, <1>2, <1>4
<1>7. Head(t).base = Head(s).base /\ Head(t).r_offset = Head(s).r_offset
  BY <1>1, <1>h, <1>6
<1> QED BY <1>2, <1>3, <1>4, <1>5, <1>6, <1>7 DEF t

\* Nodes stay consecutive when the last one gets another w_offset inside its cache.
LEMMA FillChain ==
  ASSUME NEW s \in Seq(Node), s # <<>>, Chain(s), NEW w \in Int,
         LastOf(s).r_offset <= w, 0 <= w, w <= CACHE_SIZE
  PROVE  Chain(EndAt(s, w))
<1> DEFINE t == EndAt(s, w)
<1>1. /\ Len(t) = Len(s) /\ DOMAIN t = DOMAIN s
      /\ \A i \in DOMAIN s : i # Len(s) => t[i] = s[i]
      /\ \A i \in DOMAIN s : t[i].base = s[i].base /\ t[i].r_offset = s[i].r_offset
      /\ LastOf(t).w_offset = w
  BY FillFacts
<1> HIDE DEF t
<1>2. Len(s) \in Nat \ {0} /\ DOMAIN s = 1..Len(s) /\ \A i \in DOMAIN s : s[i] \in Node
  BY NodeFacts
<1>3. LastOf(t) = t[Len(s)] /\ LastOf(s) = s[Len(s)]
  BY <1>1 DEF LastOf
<1> SUFFICES ASSUME NEW i \in DOMAIN s
             PROVE  /\ (torn = 0 => 0 <= t[i].r_offset) /\ 0 <= t[i].w_offset /\ t[i].r_offset <= t[i].w_offset /\ t[i].w_offset <= CACHE_SIZE
                    /\ i > 1 => t[i].r_offset = 0
                    /\ i < Len(s) => t[i].w_offset = CACHE_SIZE /\ t[i + 1].base = t[i].base + CACHE_SIZE
  BY <1>1 DEF Chain, t
<1>4. /\ (torn = 0 => 0 <= s[i].r_offset) /\ 0 <= s[i].w_offset /\ s[i].r_offset <= s[i].w_offset /\ s[i].w_offset <= CACHE_SIZE
      /\ i > 1 => s[i].r_offset = 0
      /\ i < Len(s) => s[i].w_offset = CACHE_SIZE /\ s[i + 1].base = s[i].base + CACHE_SIZE
  BY DEF Chain
<1>5. CASE i = Len(s)
  BY <1>1, <1>2, <1>3, <1>4, <1>5
<1>6. CASE i # Len(s)
  <2>1. i < Len(s) /\ i + 1 \in DOMAIN s
    BY <1>2, <1>6
  <2> QED BY <1>1, <1>4, <1>6, <2>1
<1> QED BY <1>5, <1>6

\* One iteration of read_into_buffer or write_into_buffer keeps the invariant.
LEMMA AppendStepInv ==
  ASSUME BufferInv, AppendStep
  PROVE  NodesInv'
<1> USE BufferAssumption
<1> DEFINE piece == Least(size - already, CACHE_SIZE - Current.w_offset)
<1>0. /\ TypeOK /\ pc = "append" /\ already < size /\ ~NoNodes
      /\ UNCHANGED <<op, size, expected, last_w_offset, index, got, had, held, faults, torn, stray>>
  BY DEF BufferInv, NodesInv, AppendStep, Appending
<1>1. PICK k \in (IF op = "read_into" THEN 0..piece ELSE {piece}) :
        /\ Fill(k)
        /\ IF already + k = size \/ k < piece
           THEN ret' = already + k /\ pc' = "merge"
           ELSE pc' = "grow" /\ UNCHANGED ret
  BY DEF AppendStep
<1>2. Current \in Node /\ Current.w_offset \in Int /\ Current.base \in Int
  BY <1>0, NodeFacts DEF Current, NoNodes, TypeOK
<1>3. /\ k \in Int /\ piece \in Int /\ k <= piece
      /\ piece <= size - already /\ piece <= CACHE_SIZE - Current.w_offset
      /\ piece = size - already \/ piece = CACHE_SIZE - Current.w_offset
  BY <1>0, <1>1, <1>2 DEF Least, TypeOK
<1>4. put' = put + k /\ already' = already + k
  BY <1>1 DEF Fill
<1> HIDE DEF piece
<1>5. \/ pc' = "merge" /\ ret' = already + k
      \/ pc' = "grow" /\ ret' = ret /\ k = piece /\ k = CACHE_SIZE - Current.w_offset
         /\ already + k < size
  BY <1>0, <1>1, <1>3 DEF TypeOK
<1>y. /\ put \in Int /\ got \in Int /\ already \in Int /\ size \in Nat
      /\ had[1] \in Int /\ had[2] \in Int /\ last_w_offset \in Int
  BY <1>0 DEF TypeOK
<1>w. Current.w_offset + k \in Int
  BY <1>2, <1>3
<1>t. CASE tmp_list # <<>>
  <2>1. Current = LastOf(tmp_list)
    BY <1>t DEF Current
  <2>2. /\ tmp_list' = EndAt(tmp_list, Current.w_offset + k)
        /\ cache_list' = cache_list
    BY <1>1, <1>t, <2>1 DEF Fill
  <2>3. /\ tmp_list' \in Seq(Node) /\ tmp_list' # <<>> /\ DOMAIN tmp_list' = DOMAIN tmp_list
        /\ \A i \in DOMAIN tmp_list : /\ tmp_list'[i].base = tmp_list[i].base
                                      /\ tmp_list'[i].r_offset = tmp_list[i].r_offset
        /\ LastOf(tmp_list').w_offset = Current.w_offset + k
        /\ LastOf(tmp_list').base = Current.base
        /\ Head(tmp_list').base = Head(tmp_list).base
        /\ Head(tmp_list').r_offset = Head(tmp_list).r_offset
    <3>1. tmp_list \in Seq(Node)
      BY <1>0 DEF TypeOK
    <3> QED BY <1>t, <1>w, <2>1, <2>2, <3>1, FillFacts
  <2>4. Current' = LastOf(tmp_list')
    BY <2>3 DEF Current
  <2>5. TypeOK'
    BY <1>0, <1>3, <1>4, <1>5, <2>2, <2>3 DEF TypeOK
  <2>6. ASSUME InUse' PROVE UseInv'
    <3>1. InUse /\ UseInv
      BY <1>0, <2>6 DEF InUse, BufferInv, NodesInv
    <3>2. Chain(tmp_list)'
      <4>1. /\ (torn = 0 => 0 <= Current.r_offset) /\ 0 <= Current.w_offset
            /\ Current.r_offset <= Current.w_offset /\ Current.r_offset \in Int
            /\ Current.w_offset <= CACHE_SIZE
        <5>1. tmp_list \in Seq(Node) /\ Chain(tmp_list)
          BY <1>0, <3>1 DEF UseInv, TypeOK
        <5>2. /\ Len(tmp_list) \in DOMAIN tmp_list /\ Current = tmp_list[Len(tmp_list)]
              /\ Current.r_offset \in Int
          BY <1>t, <2>1, <5>1, NodeFacts
        <5> QED BY <5>1, <5>2 DEF Chain
      <4>2. 0 <= k
        BY <1>0, <1>1, <1>2, <1>3, <4>1 DEF TypeOK
      <4>0. tmp_list \in Seq(Node) /\ Chain(tmp_list)
        BY <1>0, <3>1 DEF TypeOK, UseInv
      <4>w. /\ LastOf(tmp_list).r_offset <= Current.w_offset + k /\ Current.w_offset + k <= CACHE_SIZE
            /\ 0 <= Current.w_offset + k
        BY <1>2, <1>3, <2>1, <4>1, <4>2
      <4>c. Chain(EndAt(tmp_list, Current.w_offset + k))
        BY <1>t, <1>w, <4>0, <4>w, FillChain
      <4>3. Chain(tmp_list')
        BY <2>2, <4>c
      <4> QED BY <1>0, <4>3 DEF Chain
    <3>k. 0 <= k
      <4>1. Current.w_offset <= CACHE_SIZE
        BY <1>0, <1>t, <2>1, <3>1, NodeFacts DEF UseInv, Chain, TypeOK
      <4> QED BY <1>0, <1>1, <1>2, <1>3, <4>1 DEF TypeOK
    <3>3. Chain(cache_list)'
      BY <1>0, <2>2, <3>1 DEF UseInv, Chain
    <3>p. op = "write_into" => size > 0 /\ k > 0
      <4>1. Current.w_offset < CACHE_SIZE /\ (op = "write_into" => size > 0)
        BY <1>0, <3>1 DEF UseInv, AppendState, Appending
      <4>2. op = "write_into" => k = piece
        BY <1>1
      <4> QED BY <1>0, <1>2, <1>3, <1>y, <4>1, <4>2
    <3>4. Bases'
      <4>1. \A i \in DOMAIN cache_list : cache_list[i].base <= had[1] + 1
        BY <1>0, <3>1 DEF UseInv, Bases, Appending
      <4>2. \A i \in DOMAIN tmp_list : tmp_list[i].base <= put + 1 /\ tmp_list[i].base \in Int
        <5>2. \A i \in DOMAIN tmp_list : tmp_list[i].base \in Int
          BY <1>0, NodesAreNodes DEF TypeOK
        <5> QED BY <3>1, <5>2 DEF UseInv, Bases
      <4>3. \A i \in DOMAIN tmp_list' : tmp_list'[i].base <= put' + 1
        <5> SUFFICES ASSUME NEW i \in DOMAIN tmp_list' PROVE tmp_list'[i].base <= put' + 1
          OBVIOUS
        <5>1. tmp_list'[i].base \in Int /\ tmp_list'[i].base <= put + 1
          BY <2>3, <4>2
        <5> QED BY <1>3, <1>4, <1>y, <3>k, <5>1
      <4> QED BY <1>0, <1>5, <2>2, <4>1, <4>3 DEF Bases, Appending
    <3>5. Linked'
      <4>1. 1 \in DOMAIN tmp_list
        BY <1>0, <1>t, NodeFacts DEF TypeOK
      <4> QED BY <1>t, <2>2, <2>3, <3>1, <4>1 DEF UseInv, Linked, LastOf
    <3>6. FrontInv'
      <4>1. FrontByte' = FrontByte
        BY <1>t, <2>2, <2>3 DEF FrontByte, NoNodes, Front, First
      <4>2. FrontInv /\ got <= had[1] /\ Appending'
        BY <1>0, <1>5, <3>1 DEF UseInv, FrontInv, Appending
      <4> QED BY <1>0, <4>1, <4>2, FrontKept
    <3>7. BackIsLast'
      <4>1. Current.base + Current.w_offset = put + 1
        BY <1>0, <3>1 DEF UseInv, BackIsLast
      <4>2. Current'.base = Current.base /\ Current'.w_offset = Current.w_offset + k
        BY <2>3, <2>4
      <4>3. Current'.base + Current'.w_offset = put' + 1
        BY <1>2, <1>3, <1>4, <1>y, <4>1, <4>2
      <4> QED BY <4>3 DEF BackIsLast
    <3>8. AppendState'
      <4>1. tmp_list'[1].base = tmp_list[1].base
        BY <1>0, <1>t, <2>3, NodeFacts DEF TypeOK
      <4>2. AppendState
        BY <3>1 DEF UseInv
      <4>0. /\ op \in {"read_into", "write_into"} /\ already = put - had[1]
            /\ 0 <= already /\ already <= size
        BY <1>0, <4>2 DEF AppendState, Appending
      <4>3. /\ op' \in {"read_into", "write_into"} /\ already' = put' - had'[1]
            /\ 0 <= already' /\ already' <= size'
        BY <1>0, <1>3, <1>4, <1>y, <3>k, <4>0
      <4>4. pc' = "grow" => already' < size' /\ Current'.w_offset = CACHE_SIZE
        BY <1>0, <1>2, <1>4, <1>5, <2>3, <2>4
      <4>5. pc' = "merge" => ret' = already'
        BY <1>4, <1>5
      <4>6. IF last_w_offset' = -1
            THEN tmp_list' # <<>> /\ tmp_list'[1].base = had'[1] + 1
            ELSE /\ cache_list' # <<>> /\ 0 <= last_w_offset' /\ last_w_offset' < CACHE_SIZE
                 /\ LastOf(cache_list').r_offset <= last_w_offset'
                 /\ LastOf(cache_list').base + last_w_offset' = had'[1] + 1
                 /\ tmp_list' # <<>> => already' > 0
        <5>1. already > 0 => already' > 0
          BY <1>3, <1>4, <1>y, <3>k
        <5>2. IF last_w_offset = -1
              THEN tmp_list[1].base = had[1] + 1
              ELSE /\ cache_list # <<>> /\ 0 <= last_w_offset /\ last_w_offset < CACHE_SIZE
                   /\ LastOf(cache_list).r_offset <= last_w_offset
                   /\ LastOf(cache_list).base + last_w_offset = had[1] + 1
                   /\ already > 0
          BY <1>0, <1>t, <4>2 DEF AppendState, Appending
        <5> QED BY <1>0, <2>2, <2>3, <4>1, <5>1, <5>2
      <4>7. op' = "write_into" => size' > 0 /\ already' > 0
        BY <1>0, <1>3, <1>4, <1>y, <3>p, <4>0
      <4> QED BY <1>5, <4>3, <4>4, <4>5, <4>6, <4>7 DEF AppendState, LastOf
    <3>9. AtRest' /\ MeasureState' /\ GetState' /\ IdleState'
      BY <1>5 DEF AtRest, Appending, MeasureState, GetState, IdleState
    <3> QED BY <3>2, <3>3, <3>4, <3>5, <3>6, <3>7, <3>8, <3>9 DEF UseInv
  <2> QED BY <2>3, <2>5, <2>6 DEF BufferInv, NodesInv, NoNodes
<1>c. CASE tmp_list = <<>>
  <2>1. Current = LastOf(cache_list) /\ cache_list # <<>>
    BY <1>0, <1>c DEF Current, NoNodes
  <2>2. /\ cache_list' = EndAt(cache_list, Current.w_offset + k)
        /\ tmp_list' = <<>>
    BY <1>1, <1>c, <2>1 DEF Fill
  <2>3. /\ cache_list' \in Seq(Node) /\ cache_list' # <<>> /\ DOMAIN cache_list' = DOMAIN cache_list
        /\ \A i \in DOMAIN cache_list : cache_list'[i].base = cache_list[i].base
        /\ LastOf(cache_list').w_offset = Current.w_offset + k
        /\ LastOf(cache_list').base = Current.base
        /\ LastOf(cache_list').r_offset = Current.r_offset
        /\ Head(cache_list').base = Head(cache_list).base
        /\ Head(cache_list').r_offset = Head(cache_list).r_offset
    <3>1. cache_list \in Seq(Node)
      BY <1>0 DEF TypeOK
    <3> QED BY <1>w, <2>1, <2>2, <3>1, FillFacts
  <2>4. Current' = LastOf(cache_list')
    BY <2>2 DEF Current, LastOf
  <2>5. TypeOK'
    BY <1>0, <1>3, <1>4, <1>5, <2>2, <2>3 DEF TypeOK
  <2>6. ASSUME InUse' PROVE UseInv'
    <3>1. InUse /\ UseInv
      BY <1>0, <2>6 DEF InUse, BufferInv, NodesInv
    <3>2. /\ (torn = 0 => 0 <= Current.r_offset) /\ 0 <= Current.w_offset /\ Current.r_offset <= Current.w_offset /\ Current.r_offset \in Int
          /\ Current.w_offset <= CACHE_SIZE
      BY <1>0, <2>1, <3>1, NodeFacts DEF UseInv, Chain, TypeOK
    <3>k. 0 <= k
      BY <1>0, <1>1, <1>2, <1>3, <3>2 DEF TypeOK
    <3>3. Chain(cache_list)' /\ Chain(tmp_list)'
      <4>0. cache_list \in Seq(Node) /\ Chain(cache_list)
        BY <1>0, <3>1 DEF TypeOK, UseInv
      <4>w. /\ LastOf(cache_list).r_offset <= Current.w_offset + k /\ Current.w_offset + k <= CACHE_SIZE
            /\ 0 <= Current.w_offset + k
        BY <1>2, <1>3, <2>1, <3>2, <3>k
      <4>c. Chain(EndAt(cache_list, Current.w_offset + k))
        BY <1>w, <2>1, <4>0, <4>w, FillChain
      <4>1. Chain(cache_list')
        BY <2>2, <4>c
      <4> QED BY <1>0, <2>2, <4>1 DEF Chain
    <3>p. op = "write_into" => size > 0 /\ k > 0
      <4>1. Current.w_offset < CACHE_SIZE /\ (op = "write_into" => size > 0)
        BY <1>0, <3>1 DEF UseInv, AppendState, Appending
      <4>2. op = "write_into" => k = piece
        BY <1>1
      <4> QED BY <1>0, <1>2, <1>3, <1>y, <4>1, <4>2
    <3>4. Bases'
      BY <1>0, <1>5, <2>2, <2>3, <3>1 DEF UseInv, Bases, Appending
    <3>5. Linked'
      BY <2>2 DEF Linked
    <3>6. FrontInv'
      <4>1. FrontByte' = FrontByte
        BY <2>1, <2>3 DEF FrontByte, NoNodes, Front, First
      <4>2. FrontInv /\ got <= had[1] /\ Appending'
        BY <1>0, <1>5, <3>1 DEF UseInv, FrontInv, Appending
      <4> QED BY <1>0, <4>1, <4>2, FrontKept
    <3>7. BackIsLast'
      <4>1. Current.base + Current.w_offset = put + 1
        BY <1>0, <3>1 DEF UseInv, BackIsLast
      <4>2. Current'.base = Current.base /\ Current'.w_offset = Current.w_offset + k
        BY <2>3, <2>4
      <4>3. Current'.base + Current'.w_offset = put' + 1
        BY <1>2, <1>3, <1>4, <1>y, <4>1, <4>2
      <4> QED BY <4>3 DEF BackIsLast
    <3>8. AppendState'
      <4>2. AppendState
        BY <3>1 DEF UseInv
      <4>0. /\ op \in {"read_into", "write_into"} /\ already = put - had[1]
            /\ 0 <= already /\ already <= size
        BY <1>0, <4>2 DEF AppendState, Appending
      <4>3. /\ op' \in {"read_into", "write_into"} /\ already' = put' - had'[1]
            /\ 0 <= already' /\ already' <= size'
        BY <1>0, <1>3, <1>4, <1>y, <3>k, <4>0
      <4>4. pc' = "grow" => already' < size' /\ Current'.w_offset = CACHE_SIZE
        BY <1>0, <1>2, <1>4, <1>5, <2>3, <2>4
      <4>5. pc' = "merge" => ret' = already'
        BY <1>4, <1>5
      <4>6. /\ last_w_offset' # -1 /\ cache_list' # <<>>
            /\ 0 <= last_w_offset' /\ last_w_offset' < CACHE_SIZE
            /\ LastOf(cache_list').r_offset <= last_w_offset'
            /\ LastOf(cache_list').base + last_w_offset' = had'[1] + 1
        BY <1>0, <1>c, <2>1, <2>3, <4>2 DEF AppendState, Appending
      <4>7. op' = "write_into" => size' > 0 /\ already' > 0
        BY <1>0, <1>3, <1>4, <1>y, <3>p, <4>0
      <4> QED BY <1>5, <2>2, <4>3, <4>4, <4>5, <4>6, <4>7 DEF AppendState, LastOf
    <3>9. AtRest' /\ MeasureState' /\ GetState' /\ IdleState'
      BY <1>5 DEF AtRest, Appending, MeasureState, GetState, IdleState
    <3> QED BY <3>3, <3>4, <3>5, <3>6, <3>7, <3>8, <3>9 DEF UseInv
  <2> QED BY <2>3, <2>5, <2>6 DEF BufferInv, NodesInv, NoNodes
<1> QED BY <1>t, <1>c

\* A step between two points of the loops that leaves the lists and the bytes alone keeps
\* what the invariant says of them.
LEMMA ListsUnmoved ==
  ASSUME BufferInv, torn' = torn, InUse, UNCHANGED <<cache_list, tmp_list, put, got>>,
         Appending => had' = had, Appending' <=> Appending
  PROVE  /\ InUse /\ UseInv
         /\ (Chain(cache_list) /\ Chain(tmp_list) /\ Bases /\ Linked /\ FrontInv /\ BackIsLast)'
<1>1. InUse /\ UseInv
  BY DEF BufferInv, NodesInv
<1>2. (Chain(cache_list) /\ Chain(tmp_list) /\ Linked)'
  BY <1>1 DEF UseInv, Chain, Linked, LastOf
<1>3. Bases'
  BY <1>1 DEF UseInv, Bases
<1>f. FrontByte' = FrontByte
  BY DEF FrontByte, NoNodes, Front, First
<1>4. FrontInv'
  BY <1>1, <1>f DEF UseInv, FrontInv
<1>5. BackIsLast'
  BY <1>1 DEF UseInv, BackIsLast, NoNodes, Current, LastOf
<1> QED BY <1>1, <1>2, <1>3, <1>4, <1>5

\* A call for nothing keeps the invariant.
LEMMA AppendNothingInv ==
  ASSUME BufferInv, AppendNothing
  PROVE  NodesInv'
<1>0. /\ TypeOK /\ pc = "append" /\ size = 0 /\ ret' = 0 /\ pc' = "merge" /\ ~NoNodes
      /\ UNCHANGED <<op, size, already, expected, cache_list, tmp_list, last_w_offset, index, put,
                     got, had, held, faults, torn, stray>>
  BY DEF BufferInv, NodesInv, AppendNothing, Appending
<1>1. TypeOK'
  BY <1>0 DEF TypeOK
<1>2. ASSUME InUse' PROVE UseInv'
  <2>1. /\ InUse /\ UseInv
        /\ (Chain(cache_list) /\ Chain(tmp_list) /\ Bases /\ Linked /\ FrontInv /\ BackIsLast)'
    BY <1>0, <1>2, ListsUnmoved DEF Appending, InUse
  <2>2. already = 0
    BY <1>0, <2>1 DEF UseInv, AppendState, Appending, TypeOK
  <2>3. AppendState'
    BY <1>0, <2>1, <2>2 DEF UseInv, AppendState, Appending, LastOf
  <2>4. AtRest' /\ MeasureState' /\ GetState' /\ IdleState'
    BY <1>0 DEF AtRest, Appending, MeasureState, GetState, IdleState
  <2> QED BY <2>1, <2>3, <2>4 DEF UseInv
<1> QED BY <1>0, <1>1, <1>2 DEF BufferInv, NodesInv, NoNodes

\* The next node of a call, or no memory for it, keeps the invariant.
LEMMA GrowInv ==
  ASSUME BufferInv, Grow
  PROVE  NodesInv'
<1> USE BufferAssumption
<1>0. /\ TypeOK /\ pc = "grow" /\ ~NoNodes
      /\ UNCHANGED <<op, size, already, expected, cache_list, last_w_offset, index, put, got, had, torn, stray>>
  BY DEF BufferInv, NodesInv, Grow, Appending
<1>y. /\ put \in Int /\ got \in Int /\ already \in Int /\ size \in Nat
      /\ had[1] \in Int /\ had[2] \in Int /\ last_w_offset \in Int
  BY <1>0 DEF TypeOK
<1>n. /\ NewNode(put + 1) \in Node /\ NewNode(put + 1).base = put + 1
      /\ NewNode(put + 1).r_offset = 0 /\ NewNode(put + 1).w_offset = 0
  BY <1>y, NewNodeFacts
<1>a. CASE /\ tmp_list' = Append(tmp_list, NewNode(put + 1)) /\ held' = held + 1
           /\ pc' = "append" /\ UNCHANGED <<ret, faults>>
  <2> DEFINE t == tmp_list'
  <2>1. /\ t \in Seq(Node) /\ t # <<>> /\ Len(t) = Len(tmp_list) + 1 /\ Len(tmp_list) \in Nat
        /\ DOMAIN t = 1..(Len(tmp_list) + 1) /\ DOMAIN tmp_list = 1..Len(tmp_list)
        /\ \A i \in DOMAIN tmp_list : t[i] = tmp_list[i]
        /\ t[Len(t)] = NewNode(put + 1)
    BY <1>0, <1>a, <1>n DEF TypeOK
  <2>2. TypeOK'
    BY <1>0, <1>a, <2>1 DEF TypeOK
  <2>3. LastOf(t) = NewNode(put + 1) /\ Current' = LastOf(t)
    BY <2>1 DEF LastOf, Current
  <2>4. ASSUME InUse' PROVE UseInv'
    <3>1. InUse /\ UseInv
      BY <1>0, <2>4 DEF InUse, BufferInv, NodesInv
    <3>2. Current.base + CACHE_SIZE = put + 1 /\ Current.w_offset = CACHE_SIZE
      BY <1>0, <3>1 DEF UseInv, BackIsLast, AppendState, Appending
    <3>3. Chain(cache_list)' /\ BackIsLast'
      BY <1>0, <1>y, <1>n, <2>3, <3>1 DEF UseInv, Chain, BackIsLast
    <3>4. Chain(tmp_list)'
      <4> SUFFICES ASSUME NEW i \in DOMAIN t
                   PROVE  /\ (torn = 0 => 0 <= t[i].r_offset) /\ 0 <= t[i].w_offset /\ t[i].r_offset <= t[i].w_offset
                          /\ t[i].w_offset <= CACHE_SIZE
                          /\ i > 1 => t[i].r_offset = 0
                          /\ i < Len(t) => /\ t[i].w_offset = CACHE_SIZE
                                           /\ t[i + 1].base = t[i].base + CACHE_SIZE
        BY <1>0 DEF Chain
      <4>1. CASE i = Len(t)
        BY <1>n, <2>1, <4>1
      <4>2. CASE i # Len(t)
        <5>1. i \in DOMAIN tmp_list /\ t[i] = tmp_list[i] /\ i <= Len(tmp_list) /\ i + 1 \in DOMAIN t
          BY <2>1, <4>2
        <5>2. /\ (torn = 0 => 0 <= t[i].r_offset) /\ 0 <= t[i].w_offset /\ t[i].r_offset <= t[i].w_offset
              /\ t[i].w_offset <= CACHE_SIZE
              /\ i > 1 => t[i].r_offset = 0
          BY <3>1, <5>1 DEF UseInv, Chain
        <5>3. CASE i = Len(tmp_list)
          <6>1. tmp_list # <<>> /\ Current = t[i]
            BY <1>0, <5>1, <5>3 DEF Current, LastOf
          <6>2. t[i + 1] = NewNode(put + 1)
            BY <2>1, <5>3
          <6> QED BY <1>n, <3>2, <5>2, <6>1, <6>2
        <5>4. CASE i # Len(tmp_list)
          <6>1. i < Len(tmp_list) /\ i + 1 \in DOMAIN tmp_list /\ t[i + 1] = tmp_list[i + 1]
            BY <2>1, <5>1, <5>4
          <6> QED BY <3>1, <5>1, <5>2, <6>1 DEF UseInv, Chain
        <5> QED BY <5>3, <5>4
      <4> QED BY <4>1, <4>2
    <3>5. Bases'
      <4>1. \A i \in DOMAIN t : t[i].base <= put + 1
        BY <1>n, <1>y, <2>1, <3>1 DEF UseInv, Bases
      <4> QED BY <1>0, <1>a, <3>1, <4>1 DEF UseInv, Bases, Appending
    <3>6. t[1].r_offset = 0 /\ t[1] = (IF tmp_list = <<>> THEN NewNode(put + 1) ELSE tmp_list[1])
      <4>1. CASE tmp_list = <<>>
        BY <1>n, <2>1, <4>1
      <4>2. CASE tmp_list # <<>>
        <5>1. 1 \in DOMAIN tmp_list
          BY <1>0, <4>2, NodeFacts DEF TypeOK
        <5>2. t[1] = tmp_list[1]
          BY <2>1, <5>1
        <5> QED BY <3>1, <4>2, <5>2 DEF UseInv, Linked
      <4> QED BY <4>1, <4>2
    <3>7. Linked'
      <4>1. CASE tmp_list = <<>>
        <5>1. cache_list # <<>> /\ Current = LastOf(cache_list)
          BY <1>0, <4>1 DEF NoNodes, Current
        <5> QED BY <1>0, <1>n, <3>2, <3>6, <4>1, <5>1 DEF Linked, LastOf
      <4>2. CASE tmp_list # <<>>
        BY <1>0, <3>1, <3>6, <4>2 DEF UseInv, Linked, LastOf
      <4> QED BY <4>1, <4>2
    <3>b. FrontByte' = FrontByte
      <4>1. CASE cache_list # <<>>
        BY <1>0, <4>1 DEF FrontByte, NoNodes, Front, First
      <4>2. CASE cache_list = <<>>
        <5>1. tmp_list # <<>>
          BY <1>0, <4>2 DEF NoNodes
        <5>2. Head(t) = t[1] /\ Head(tmp_list) = tmp_list[1]
          BY <1>0, <2>1, <5>1, NodeFacts DEF TypeOK
        <5> QED
          BY <1>0, <2>1, <3>6, <4>2, <5>1, <5>2 DEF FrontByte, NoNodes, Front
      <4> QED BY <4>1, <4>2
    <3>8. FrontInv'
      <4>1. FrontInv /\ got <= had[1] /\ Appending'
        BY <1>0, <1>a, <3>1 DEF UseInv, FrontInv, Appending
      <4> QED BY <1>0, <3>b, <4>1, FrontKept
    <3>9. AppendState'
      <4>1. AppendState
        BY <3>1 DEF UseInv
      <4>2. /\ op \in {"read_into", "write_into"} /\ already = put - had[1]
            /\ 0 <= already /\ already <= size
        BY <1>0, <4>1 DEF AppendState, Appending
      <4>5. Current'.w_offset < CACHE_SIZE /\ (op = "write_into" => size > 0)
        BY <1>0, <1>n, <2>3, <4>1 DEF AppendState, Appending
      <4>3. CASE last_w_offset = -1
        BY <1>0, <1>a, <1>n, <2>1, <2>3, <3>6, <4>1, <4>2, <4>3, <4>5 DEF AppendState, Appending
      <4>4. CASE last_w_offset # -1
        <5>1. /\ cache_list # <<>> /\ 0 <= last_w_offset /\ last_w_offset < CACHE_SIZE
              /\ LastOf(cache_list).r_offset <= last_w_offset
              /\ LastOf(cache_list).base + last_w_offset = had[1] + 1
              /\ tmp_list # <<>> => already > 0
          BY <1>0, <4>1, <4>4 DEF AppendState, Appending
        <5>2. ASSUME tmp_list = <<>> PROVE already > 0
          <6>1. Current = LastOf(cache_list)
            BY <5>2 DEF Current
          <6>2. LastOf(cache_list).base \in Int
            BY <1>0, <5>1, NodeFacts DEF TypeOK
          <6>3. LastOf(cache_list).base + CACHE_SIZE = put + 1
            BY <3>2, <6>1
          <6>4. LastOf(cache_list).base + last_w_offset = had[1] + 1 /\ last_w_offset < CACHE_SIZE
            BY <5>1
          <6>5. already = put - had[1]
            BY <4>2
          <6> QED BY <1>y, <6>2, <6>3, <6>4, <6>5
        <5> QED BY <1>0, <1>a, <2>1, <4>2, <4>4, <4>5, <5>1, <5>2 DEF AppendState, Appending, LastOf
      <4> QED BY <4>3, <4>4
    <3>10. AtRest' /\ MeasureState' /\ GetState' /\ IdleState'
      BY <1>a DEF AtRest, Appending, MeasureState, GetState, IdleState
    <3> QED BY <3>3, <3>4, <3>5, <3>7, <3>8, <3>9, <3>10 DEF UseInv
  <2> QED BY <2>1, <2>2, <2>4 DEF BufferInv, NodesInv, NoNodes
<1>b. CASE Fault("alloc") /\ ret' = already /\ pc' = "merge" /\ UNCHANGED <<tmp_list, held>>
  <2>1. TypeOK'
    BY <1>0, <1>b DEF TypeOK, Fault
  <2>2. ASSUME InUse' PROVE UseInv'
    <3>1. /\ InUse /\ UseInv
          /\ (Chain(cache_list) /\ Chain(tmp_list) /\ Bases /\ Linked /\ FrontInv /\ BackIsLast)'
      BY <1>0, <1>b, <2>2, ListsUnmoved DEF Appending, InUse
    <3>2. AppendState'
      BY <1>0, <1>b, <3>1 DEF UseInv, AppendState, Appending, LastOf
    <3>3. AtRest' /\ MeasureState' /\ GetState' /\ IdleState'
      BY <1>b DEF AtRest, Appending, MeasureState, GetState, IdleState
    <3> QED BY <3>1, <3>2, <3>3 DEF UseInv
  <2> QED BY <1>0, <1>b, <2>1, <2>2 DEF BufferInv, NodesInv, NoNodes
<1> QED BY <1>a, <1>b DEF Grow

\* Two lists of consecutive nodes, the second of which goes on where the first ends, are
\* one such list together.
LEMMA SpliceFacts ==
  ASSUME NEW s \in Seq(Node), NEW t \in Seq(Node), s # <<>>, t # <<>>
  PROVE  /\ s \o t \in Seq(Node) /\ s \o t # <<>> /\ Len(s \o t) = Len(s) + Len(t)
         /\ DOMAIN (s \o t) = 1..(Len(s) + Len(t))
         /\ Len(s) \in Nat \ {0} /\ Len(t) \in Nat \ {0}
         /\ DOMAIN s = 1..Len(s) /\ DOMAIN t = 1..Len(t)
         /\ \A i \in DOMAIN s : (s \o t)[i] = s[i]
         /\ \A i \in (Len(s) + 1)..(Len(s) + Len(t)) : (s \o t)[i] = t[i - Len(s)]
         /\ LastOf(s \o t) = LastOf(t) /\ Head(s \o t) = Head(s)
<1>1. /\ Len(s) \in Nat \ {0} /\ Len(t) \in Nat \ {0}
      /\ DOMAIN s = 1..Len(s) /\ DOMAIN t = 1..Len(t) /\ Head(s) = s[1]
  BY NodeFacts
<1>2. s \o t \in Seq(Node) /\ Len(s \o t) = Len(s) + Len(t)
  OBVIOUS
<1>3. DOMAIN (s \o t) = 1..(Len(s) + Len(t)) /\ s \o t # <<>>
  BY <1>1, <1>2
<1>4. \A i \in DOMAIN s : (s \o t)[i] = s[i]
  BY <1>1
<1>5. \A i \in (Len(s) + 1)..(Len(s) + Len(t)) : (s \o t)[i] = t[i - Len(s)]
  BY <1>1
<1>6. LastOf(s \o t) = LastOf(t)
  <2>1. Len(s) + Len(t) \in (Len(s) + 1)..(Len(s) + Len(t)) /\ Len(s) + Len(t) - Len(s) = Len(t)
    BY <1>1
  <2> QED BY <1>2, <1>5, <2>1 DEF LastOf
<1>7. Head(s \o t) = (s \o t)[1]
  BY <1>2, <1>3, NodeFacts
<1>8. Head(s \o t) = Head(s)
  BY <1>1, <1>4, <1>7
<1> QED BY <1>1, <1>2, <1>3, <1>4, <1>5, <1>6, <1>8

\* So are the nodes of the two lists.
LEMMA SpliceChain ==
  ASSUME NEW s \in Seq(Node), NEW t \in Seq(Node), s # <<>>, t # <<>>, Chain(s), Chain(t),
         LastOf(s).w_offset = CACHE_SIZE, t[1].base = LastOf(s).base + CACHE_SIZE,
         t[1].r_offset = 0
  PROVE  Chain(s \o t)
<1> DEFINE u == s \o t
<1>1. /\ Len(u) = Len(s) + Len(t) /\ DOMAIN u = 1..(Len(s) + Len(t))
      /\ Len(s) \in Nat \ {0} /\ Len(t) \in Nat \ {0} /\ DOMAIN s = 1..Len(s) /\ DOMAIN t = 1..Len(t)
      /\ \A i \in DOMAIN s : u[i] = s[i]
      /\ \A i \in (Len(s) + 1)..(Len(s) + Len(t)) : u[i] = t[i - Len(s)]
  BY SpliceFacts
<1> HIDE DEF u
<1> SUFFICES ASSUME NEW i \in DOMAIN u
             PROVE  /\ (torn = 0 => 0 <= u[i].r_offset) /\ 0 <= u[i].w_offset /\ u[i].r_offset <= u[i].w_offset /\ u[i].w_offset <= CACHE_SIZE
                    /\ i > 1 => u[i].r_offset = 0
                    /\ i < Len(u) => u[i].w_offset = CACHE_SIZE /\ u[i + 1].base = u[i].base + CACHE_SIZE
  BY DEF Chain, u
<1>2. CASE i \in DOMAIN s /\ i # Len(s)
  <2>1. i < Len(s) /\ i + 1 \in DOMAIN s /\ u[i] = s[i] /\ u[i + 1] = s[i + 1]
    BY <1>1, <1>2
  <2> QED BY <1>2, <2>1 DEF Chain
<1>3. CASE i = Len(s)
  <2>1. u[i] = s[i] /\ LastOf(s) = s[i] /\ i \in DOMAIN s
    BY <1>1, <1>3 DEF LastOf
  <2>2. i + 1 - Len(s) = 1 /\ i + 1 \in (Len(s) + 1)..(Len(s) + Len(t))
    BY <1>1, <1>3
  <2>3. u[i + 1] = t[1]
    BY <1>1, <2>2
  <2> QED BY <2>1, <2>3 DEF Chain
<1>4. CASE i \notin DOMAIN s
  <2>1. /\ i - Len(s) \in DOMAIN t /\ u[i] = t[i - Len(s)] /\ (i > 1)
        /\ i < Len(u) => i - Len(s) < Len(t) /\ i + 1 \in (Len(s) + 1)..(Len(s) + Len(t))
        /\ (i + 1) - Len(s) = (i - Len(s)) + 1
    BY <1>1, <1>4
  <2>2. i < Len(u) => u[i + 1] = t[(i - Len(s)) + 1]
    BY <1>1, <2>1
  <2> DEFINE j == i - Len(s)
  <2>3. /\ j \in DOMAIN t /\ u[i] = t[j] /\ (j = 1 \/ j > 1)
        /\ i < Len(u) => j < Len(t) /\ u[i + 1] = t[j + 1]
    BY <1>1, <2>1, <2>2
  <2> HIDE DEF j
  <2> QED BY <2>3 DEF Chain
<1> QED BY <1>2, <1>3, <1>4

\* The end of a call, which merges tmp_list, keeps the invariant.
LEMMA MergeInv ==
  ASSUME BufferInv, Merge
  PROVE  NodesInv'
<1> USE BufferAssumption
<1>0. /\ TypeOK /\ pc = "merge" /\ pc' = "idle" /\ Returns(ret) /\ ~NoNodes
      /\ cache_list' = IF ret > 0 THEN cache_list \o tmp_list ELSE cache_list
      /\ UNCHANGED <<put, got, held, faults, torn, stray>>
  BY DEF BufferInv, NodesInv, Merge, Appending, Splice
<1>y. /\ put \in Int /\ got \in Int /\ already \in Int /\ ret \in Int
      /\ had[1] \in Int /\ had[2] \in Int /\ last_w_offset \in Int
      /\ cache_list \in Seq(Node) /\ tmp_list \in Seq(Node)
  BY <1>0 DEF TypeOK
<1>1. TypeOK'
  <2>1. cache_list' \in Seq(Node)
    BY <1>0, <1>y
  <2> QED BY <1>0, <2>1 DEF TypeOK, Returns
<1>2. ASSUME InUse' PROVE UseInv'
  <2>1. InUse /\ UseInv
    BY <1>0, <1>2 DEF InUse, BufferInv, NodesInv
  <2>2. /\ ret = already /\ already = put - had[1] /\ 0 <= already
        /\ IF last_w_offset = -1
           THEN tmp_list # <<>> /\ tmp_list[1].base = had[1] + 1
           ELSE /\ cache_list # <<>> /\ last_w_offset < CACHE_SIZE
                /\ LastOf(cache_list).r_offset <= last_w_offset
                /\ LastOf(cache_list).base + last_w_offset = had[1] + 1
                /\ tmp_list # <<>> => already > 0
    BY <1>0, <2>1 DEF UseInv, AppendState, Appending
  <2>3. tmp_list' = <<>> /\ AtRest' /\ AppendState' /\ MeasureState' /\ GetState' /\ IdleState'
    BY <1>0 DEF Returns, AtRest, Appending, AppendState, MeasureState, GetState, IdleState
  <2>4. Linked' /\ Chain(tmp_list)'
    BY <2>3 DEF Linked, Chain
  <2>c. Chain(cache_list) /\ Chain(tmp_list)
    BY <2>1 DEF UseInv
  <2>d. \A i \in DOMAIN cache_list : cache_list[i].base <= put + 1
    <3>1. \A i \in DOMAIN cache_list : cache_list[i].base <= had[1] + 1 /\ cache_list[i].base \in Int
      BY <1>0, <1>y, <2>1, NodesAreNodes DEF UseInv, Bases, Appending
    <3> QED BY <1>y, <2>2, <3>1
  <2>e. \A i \in DOMAIN tmp_list : tmp_list[i].base <= put + 1
    BY <2>1 DEF UseInv, Bases
  <2>f. Front.base + Front.r_offset = FrontByte /\ Current.base + Current.w_offset = put + 1
    BY <1>0, <2>1 DEF UseInv, FrontByte, BackIsLast
  <2>5. Chain(cache_list') /\ (\A i \in DOMAIN cache_list' : cache_list'[i].base <= put + 1)
        /\ (cache_list' = <<>> => FrontByte = put + 1)
        /\ (cache_list' # <<>> =>
              /\ Head(cache_list').base + Head(cache_list').r_offset = FrontByte
              /\ LastOf(cache_list').base + LastOf(cache_list').w_offset = put + 1)
    <3>1. CASE tmp_list = <<>>
      <4>1. cache_list' = cache_list /\ cache_list # <<>>
        BY <1>0, <1>y, <3>1 DEF NoNodes
      <4> QED BY <2>c, <2>d, <2>f, <3>1, <4>1 DEF Front, First, Current
    <3>2. CASE tmp_list # <<>> /\ ret > 0 /\ cache_list = <<>>
      <4>1. cache_list' = tmp_list
        BY <1>0, <1>y, <3>2
      <4> QED BY <2>c, <2>e, <2>f, <3>2, <4>1 DEF Front, Current
    <3>3. CASE tmp_list # <<>> /\ ret > 0 /\ cache_list # <<>>
      <4>1. cache_list' = cache_list \o tmp_list
        BY <1>0, <3>3
      <4>2. /\ LastOf(cache_list).w_offset = CACHE_SIZE /\ tmp_list[1].r_offset = 0
            /\ tmp_list[1].base = LastOf(cache_list).base + CACHE_SIZE
        BY <2>1, <3>3 DEF UseInv, Linked
      <4>3. Chain(cache_list')
        BY <1>y, <2>c, <3>3, <4>1, <4>2, SpliceChain
      <4>4. /\ cache_list' # <<>> /\ LastOf(cache_list') = LastOf(tmp_list)
            /\ Head(cache_list') = Head(cache_list)
        BY <1>y, <3>3, <4>1, SpliceFacts
      <4>5. \A i \in DOMAIN cache_list' : cache_list'[i].base <= put + 1
        <5> DEFINE m == Len(cache_list)
                   u == cache_list'
        <5>1. /\ m \in Nat /\ Len(tmp_list) \in Nat /\ DOMAIN u = 1..(m + Len(tmp_list))
              /\ DOMAIN cache_list = 1..m /\ DOMAIN tmp_list = 1..Len(tmp_list)
              /\ \A i \in DOMAIN cache_list : u[i] = cache_list[i]
              /\ \A i \in (m + 1)..(m + Len(tmp_list)) : u[i] = tmp_list[i - m]
          BY <1>y, <3>3, <4>1, SpliceFacts
        <5> SUFFICES ASSUME NEW i \in DOMAIN u PROVE u[i].base <= put + 1
          OBVIOUS
        <5> HIDE DEF m, u
        <5>2. CASE i \in DOMAIN cache_list
          BY <2>d, <5>1, <5>2
        <5>3. CASE i \notin DOMAIN cache_list
          <6>1. i \in (m + 1)..(m + Len(tmp_list)) /\ i - m \in DOMAIN tmp_list
            BY <5>1, <5>3
          <6>2. u[i] = tmp_list[i - m]
            BY <5>1, <6>1
          <6> QED BY <2>e, <6>1, <6>2
        <5> QED BY <5>2, <5>3
      <4> QED BY <2>f, <3>3, <4>3, <4>4, <4>5 DEF Front, First, Current
    <3>4. CASE tmp_list # <<>> /\ ~(ret > 0)
      <4>1. cache_list' = cache_list
        BY <1>0, <3>4
      <4>2. already = 0 /\ put = had[1] /\ last_w_offset = -1
        BY <1>y, <2>2, <3>4
      <4>3. tmp_list[1].base = put + 1
        BY <2>2, <4>2
      <4>4. CASE cache_list # <<>>
        <5>1. LastOf(cache_list).w_offset = CACHE_SIZE
              /\ tmp_list[1].base = LastOf(cache_list).base + CACHE_SIZE
          BY <2>1, <3>4, <4>4 DEF UseInv, Linked
        <5> QED BY <2>c, <2>d, <2>f, <4>1, <4>3, <4>4, <5>1 DEF Front, First
      <4>5. CASE cache_list = <<>>
        <5>1. Front = tmp_list[1] /\ tmp_list[1].r_offset = 0
          BY <1>y, <2>1, <3>4, <4>5, NodeFacts DEF Front, UseInv, Linked
        <5>2. FrontByte = put + 1
          BY <1>y, <2>f, <4>3, <5>1
        <5> QED BY <4>1, <4>5, <5>2 DEF Chain
      <4> QED BY <4>4, <4>5
    <3> QED BY <3>1, <3>2, <3>3, <3>4
  <2>6. Chain(cache_list)'
    BY <1>0, <2>5 DEF Chain
  <2>7. Bases'
    BY <1>0, <2>3, <2>5 DEF Bases, Appending
  <2>8. FrontInv' /\ BackIsLast'
    <3>1. NoNodes' <=> cache_list' = <<>>
      BY <2>3 DEF NoNodes
    <3>2. cache_list' # <<>> => Front' = Head(cache_list')
      BY DEF Front, First
    <3>3. Current' = LastOf(cache_list')
      BY <2>3 DEF Current, LastOf
    <3>4. FrontByte' = FrontByte
      BY <1>0, <2>5, <3>1, <3>2 DEF FrontByte
    <3>5. FrontInv /\ got <= put /\ ~Appending'
      <4>1. FrontInv /\ got <= had[1]
        BY <1>0, <2>1 DEF UseInv, FrontInv, Appending
      <4> QED BY <1>0, <1>y, <2>2, <4>1 DEF Appending
    <3>6. FrontInv'
      BY <1>0, <3>4, <3>5, FrontKept
    <3> QED BY <1>0, <2>5, <3>1, <3>3, <3>6 DEF BackIsLast
  <2> QED BY <2>3, <2>4, <2>6, <2>7, <2>8 DEF UseInv
<1> QED BY <1>0, <1>1, <1>2 DEF BufferInv, NodesInv, Appending

\* A failed read(), which takes back the bytes of its call, keeps the invariant.
LEMMA ReadErrorInv ==
  ASSUME BufferInv, ReadError
  PROVE  NodesInv'
<1> USE BufferAssumption
<1>0. /\ TypeOK /\ pc = "append" /\ put' = had[1] /\ held' = held - Len(tmp_list) /\ Returns(-1)
      /\ cache_list # <<>> => cache_list' = EndAt(cache_list, last_w_offset)
      /\ cache_list = <<>> => cache_list' = cache_list
      /\ pc' = (IF last_w_offset = -1 THEN "corrupt" ELSE "idle")
      /\ UNCHANGED <<got, torn, stray>> /\ Fault("read")
  BY DEF BufferInv, NodesInv, ReadError, RestoredEnd, TmpRecycled
<1>y. /\ put \in Int /\ got \in Int /\ had[1] \in Int /\ had[2] \in Int /\ last_w_offset \in Int
      /\ cache_list \in Seq(Node) /\ tmp_list \in Seq(Node)
  BY <1>0 DEF TypeOK
<1>1. TypeOK'
  <2>1. cache_list' \in Seq(Node)
    BY <1>0, <1>y, FillFacts
  <2>2. held' \in Int
    BY <1>0, <1>y, NodesAreNodes DEF TypeOK
  <2> QED BY <1>0, <2>1, <2>2 DEF TypeOK, Returns, Fault
<1>2. ASSUME InUse' PROVE UseInv'
  <2>1. last_w_offset # -1 /\ pc' = "idle" /\ InUse /\ UseInv
    BY <1>0, <1>2 DEF InUse, BufferInv, NodesInv
  <2>2. /\ cache_list # <<>> /\ 0 <= last_w_offset /\ last_w_offset < CACHE_SIZE
        /\ LastOf(cache_list).r_offset <= last_w_offset
        /\ LastOf(cache_list).base + last_w_offset = had[1] + 1
    BY <1>0, <2>1 DEF UseInv, AppendState, Appending
  <2>3. tmp_list' = <<>> /\ AtRest' /\ AppendState' /\ MeasureState' /\ GetState' /\ IdleState'
    BY <1>0, <2>1 DEF Returns, AtRest, Appending, AppendState, MeasureState, GetState, IdleState
  <2>4. Linked' /\ Chain(tmp_list)'
    BY <2>3 DEF Linked, Chain
  <2>5. /\ cache_list' # <<>> /\ DOMAIN cache_list' = DOMAIN cache_list
        /\ \A i \in DOMAIN cache_list : cache_list'[i].base = cache_list[i].base
        /\ LastOf(cache_list').w_offset = last_w_offset
        /\ LastOf(cache_list').base = LastOf(cache_list).base
        /\ Head(cache_list').base = Head(cache_list).base
        /\ Head(cache_list').r_offset = Head(cache_list).r_offset
    <3>1. cache_list' = EndAt(cache_list, last_w_offset)
      BY <1>0, <2>2
    <3>2. LET t == EndAt(cache_list, last_w_offset) IN
          /\ t # <<>> /\ DOMAIN t = DOMAIN cache_list
          /\ \A i \in DOMAIN cache_list : /\ t[i].base = cache_list[i].base
                                          /\ t[i].r_offset = cache_list[i].r_offset
          /\ LastOf(t).w_offset = last_w_offset /\ LastOf(t).base = LastOf(cache_list).base
          /\ Head(t).base = Head(cache_list).base /\ Head(t).r_offset = Head(cache_list).r_offset
      BY <1>y, <2>2, FillFacts
    <3> QED BY <3>1, <3>2
  <2>6. Chain(cache_list)'
    <3>1. Chain(cache_list) /\ last_w_offset <= CACHE_SIZE
      BY <1>y, <2>1, <2>2 DEF UseInv
    <3>2. Chain(EndAt(cache_list, last_w_offset))
      BY <1>y, <2>2, <3>1, FillChain
    <3>3. Chain(cache_list')
      BY <1>0, <2>2, <3>2
    <3> QED BY <1>0, <3>3 DEF Chain
  <2>7. Bases'
    BY <1>0, <2>1, <2>3, <2>5 DEF UseInv, Bases, Appending
  <2>8. FrontInv'
    <3>1. FrontByte' = FrontByte
      BY <2>2, <2>5 DEF FrontByte, NoNodes, Front, First
    <3>2. FrontInv /\ got <= had[1] /\ ~Appending'
      BY <1>0, <2>1 DEF UseInv, FrontInv, Appending
    <3> QED BY <1>0, <3>1, <3>2, FrontKept
  <2>9. BackIsLast'
    <3>1. Current' = LastOf(cache_list')
      BY <2>3 DEF Current, LastOf
    <3> QED BY <1>0, <2>2, <2>5, <3>1 DEF BackIsLast
  <2> QED BY <2>3, <2>4, <2>6, <2>7, <2>8, <2>9 DEF UseInv
<1> QED BY <1>0, <1>1, <1>2 DEF BufferInv, NodesInv, Appending

-----------------------------------------------------------------------------
(* Handing bytes out *)

\* The beginning of read_from_buffer or flush_messages keeps the invariant.
LEMMA MeasureInv ==
  ASSUME BufferInv, NEW o \in {"read_from", "flush"}, NEW n \in 0..MaxOp, Measure(o, n)
  PROVE  NodesInv'
<1>0. /\ TypeOK /\ pc = "idle" /\ pc' = "measure" /\ op' = o /\ size' = n /\ had' = <<put, got>>
      /\ UNCHANGED <<already, expected, cache_list, tmp_list, last_w_offset, index, put, got, held,
                     ret, faults, torn, stray>>
  BY DEF BufferInv, NodesInv, Measure
<1>y. put \in Int /\ got \in Int /\ cache_list \in Seq(Node)
  BY <1>0 DEF TypeOK
<1>1. TypeOK'
  BY <1>0 DEF TypeOK
<1>2. ASSUME InUse' PROVE UseInv'
  <2>1. /\ InUse /\ UseInv
        /\ (Chain(cache_list) /\ Chain(tmp_list) /\ Bases /\ Linked /\ FrontInv /\ BackIsLast)'
    BY <1>0, <1>2, ListsUnmoved DEF Appending, InUse
  <2>2. tmp_list = <<>> /\ last_w_offset = -1 /\ already = 0 /\ expected = 0 /\ index = 1
    BY <1>0, <2>1 DEF UseInv, AtRest, Appending, IdleState
  <2>3. (IF 1 \in DOMAIN cache_list THEN cache_list[1].base + cache_list[1].r_offset ELSE put + 1)
          = FrontByte
    <3>1. CASE cache_list = <<>>
      BY <2>2, <3>1 DEF FrontByte, NoNodes
    <3>2. CASE cache_list # <<>>
      <4>1. 1 \in DOMAIN cache_list /\ First = cache_list[1]
        BY <1>y, <3>2, NodeFacts DEF First
      <4> QED BY <3>2, <4>1 DEF FrontByte, NoNodes, Front
    <3> QED BY <3>1, <3>2
  <2>4. MeasureState'
    <3>1. Len(cache_list) \in Nat /\ n \in Nat
      BY <1>y
    <3>2. FrontByte' = FrontByte /\ FrontByte \in Int
      BY <1>0, FrontByteType DEF FrontByte, NoNodes, Front, First
    <3>3. expected' = FrontByte - FrontByte
      BY <1>0, <2>2, <3>2
    <3> QED BY <1>0, <2>2, <2>3, <3>1, <3>2, <3>3 DEF MeasureState
  <2>5. AtRest' /\ AppendState' /\ GetState' /\ IdleState'
    BY <1>0, <2>2 DEF AtRest, Appending, AppendState, GetState, IdleState
  <2> QED BY <2>1, <2>4, <2>5 DEF UseInv
<1> QED BY <1>0, <1>1, <1>2 DEF BufferInv, NodesInv, Appending

\* Measuring one node keeps the invariant.
LEMMA MeasureStepInv ==
  ASSUME BufferInv, MeasureStep
  PROVE  NodesInv'
<1> USE BufferAssumption
<1> DEFINE e == expected + NODE_SIZE(cache_list[index])
<1>0. /\ TypeOK /\ pc = "measure" /\ index \in DOMAIN cache_list
      /\ UNCHANGED <<op, size, already, cache_list, tmp_list, last_w_offset, put, got, had, held,
                     ret, faults, torn, stray>>
  BY DEF BufferInv, NodesInv, MeasureStep
<1>c. \/ op = "read_from" /\ e >= size /\ expected' = size /\ pc' = "copy" /\ index' = index
      \/ ~(op = "read_from" /\ e >= size) /\ expected' = e /\ index' = index + 1 /\ pc' = pc
  BY DEF MeasureStep
<1>y. /\ put \in Int /\ got \in Int /\ cache_list \in Seq(Node) /\ size \in Nat /\ expected \in Int
      /\ index \in Nat /\ DOMAIN cache_list = 1..Len(cache_list) /\ Len(cache_list) \in Nat
      /\ cache_list[index].base \in Int /\ cache_list[index].r_offset \in Int
      /\ cache_list[index].w_offset \in Int
  BY <1>0, NodesAreNodes DEF TypeOK
<1>e. e = expected + (cache_list[index].w_offset - cache_list[index].r_offset) /\ e \in Int
  BY <1>y DEF NODE_SIZE
<1> HIDE DEF e
<1>1. TypeOK'
  <2>1. expected' \in Int /\ index' \in Nat /\ pc' \in {"measure", "copy"}
    <3>1. size \in Int /\ e \in Int /\ index \in Nat /\ index + 1 \in Nat
      BY <1>y, <1>e
    <3> QED BY <1>0, <1>c, <3>1
  <2> QED BY <1>0, <2>1 DEF TypeOK
<1>2. ASSUME InUse' PROVE UseInv'
  <2>1. /\ InUse /\ UseInv
        /\ (Chain(cache_list) /\ Chain(tmp_list) /\ Bases /\ Linked /\ FrontInv /\ BackIsLast)'
    BY <1>0, <1>2, <1>c, ListsUnmoved DEF Appending, InUse
  <2>2. tmp_list = <<>> /\ last_w_offset = -1
    BY <1>0, <2>1 DEF UseInv, AtRest, Appending
  <2>3. /\ op \in {"read_from", "flush"} /\ had = <<put, got>> /\ already = 0
        /\ op = "read_from" => expected <= size
    BY <1>0, <2>1 DEF UseInv, MeasureState
  <2>m. expected = (cache_list[index].base + cache_list[index].r_offset) - FrontByte
    BY <1>0, <2>1 DEF UseInv, MeasureState
  <2>f. FrontByte \in Int /\ FrontByte' = FrontByte /\ (torn = 0 => FrontByte = got + 1)
    BY <1>0, <2>1, FrontByteType DEF FrontByte, NoNodes, Front, First, UseInv, FrontInv
  <2>4. e = (IF index + 1 \in DOMAIN cache_list
             THEN cache_list[index + 1].base + cache_list[index + 1].r_offset
             ELSE put + 1) - FrontByte
    <3>1. e = (cache_list[index].base + cache_list[index].w_offset) - FrontByte
      <4>1. e = (((cache_list[index].base + cache_list[index].r_offset) - FrontByte)
                   + (cache_list[index].w_offset - cache_list[index].r_offset))
        BY <1>e, <2>m
      <4> QED BY <1>y, <2>f, <4>1
    <3>2. CASE index = Len(cache_list)
      <4>1. Current = cache_list[index] /\ ~NoNodes
        BY <1>0, <1>y, <2>2, <3>2 DEF Current, LastOf, NoNodes
      <4>2. cache_list[index].base + cache_list[index].w_offset = put + 1
        BY <2>1, <4>1 DEF UseInv, BackIsLast
      <4>3. index + 1 \notin DOMAIN cache_list
        BY <1>y, <3>2
      <4> QED BY <3>1, <4>2, <4>3
    <3>3. CASE index # Len(cache_list)
      <4>1. index < Len(cache_list) /\ index + 1 \in DOMAIN cache_list /\ index + 1 > 1
        BY <1>0, <1>y, <3>3
      <4>2. /\ cache_list[index].w_offset = CACHE_SIZE
            /\ cache_list[index + 1].base = cache_list[index].base + CACHE_SIZE
            /\ cache_list[index + 1].r_offset = 0
        BY <1>0, <2>1, <4>1 DEF UseInv, Chain
      <4> QED BY <1>y, <3>1, <4>1, <4>2
    <3> QED BY <3>2, <3>3
  <2>5. e <= put + 1 - FrontByte
    <3>1. CASE index + 1 \in DOMAIN cache_list
      <4>1. /\ cache_list[index + 1].r_offset = 0 /\ cache_list[index + 1].base <= put + 1
            /\ cache_list[index + 1].base \in Int
        BY <1>0, <1>y, <2>1, <3>1, NodesAreNodes DEF UseInv, Chain, Bases, Appending
      <4>2. e = (cache_list[index + 1].base + cache_list[index + 1].r_offset) - FrontByte
        BY <2>4, <3>1
      <4>3. e = cache_list[index + 1].base - FrontByte
        BY <2>f, <4>1, <4>2
      <4> QED BY <1>y, <2>f, <4>1, <4>3
    <3>2. CASE index + 1 \notin DOMAIN cache_list
      BY <1>y, <1>e, <2>f, <2>4, <3>2
    <3> QED BY <3>1, <3>2
  <2>7. AtRest' /\ AppendState' /\ IdleState'
    BY <1>0, <1>c, <2>2 DEF AtRest, Appending, AppendState, IdleState
  <2>8. CASE op = "read_from" /\ e >= size /\ expected' = size /\ pc' = "copy" /\ index' = index
    <3>0. /\ size <= put + 1 - FrontByte
          /\ torn = 0 => size = Least(size, put - got) /\ got = got + 0
      BY <1>y, <1>e, <2>f, <2>5, <2>8 DEF Least
    <3>1. GetState'
      <4>1. had'[1] = put /\ had'[2] = got
        BY <1>0, <2>3
      <4>2. 0 <= size /\ size - 0 = size
        BY <1>y
      <4> QED BY <1>0, <2>3, <2>f, <2>8, <3>0, <4>1, <4>2 DEF GetState
    <3>2. MeasureState'
      BY <2>8 DEF MeasureState
    <3> QED BY <2>1, <2>7, <3>1, <3>2 DEF UseInv
  <2>9. CASE ~(op = "read_from" /\ e >= size) /\ expected' = e /\ index' = index + 1 /\ pc' = pc
    <3>1. GetState'
      BY <1>0, <2>9 DEF GetState
    <3>2. MeasureState'
      <4>1. 1 <= index' /\ index' <= Len(cache_list') + 1
        BY <1>0, <1>y, <2>9
      <4>2. op' = "read_from" => expected' <= size'
        BY <1>0, <1>y, <1>e, <2>9
      <4>3. expected' = (IF index' \in DOMAIN cache_list'
                         THEN cache_list'[index'].base + cache_list'[index'].r_offset
                         ELSE put' + 1) - FrontByte'
        BY <1>0, <2>4, <2>9, <2>f
      <4> QED BY <1>0, <2>3, <4>1, <4>2, <4>3 DEF MeasureState
    <3> QED BY <2>1, <2>7, <3>1, <3>2 DEF UseInv
  <2> QED BY <1>c, <2>8, <2>9
<1> QED BY <1>0, <1>c, <1>1, <1>2 DEF BufferInv, NodesInv, Appending

\* The end of the measuring loop keeps the invariant.
LEMMA MeasureEndInv ==
  ASSUME BufferInv, MeasureEnd
  PROVE  NodesInv'
<1>0. /\ TypeOK /\ pc = "measure" /\ index > Len(cache_list)
      /\ pc' = (IF op = "read_from" THEN "copy" ELSE "write")
      /\ UNCHANGED <<op, size, already, expected, cache_list, tmp_list, last_w_offset, index, put,
                     got, had, held, ret, faults, torn, stray>>
  BY DEF BufferInv, NodesInv, MeasureEnd
<1>y. /\ put \in Int /\ got \in Int /\ size \in Nat /\ expected \in Int /\ index \in Nat
      /\ DOMAIN cache_list = 1..Len(cache_list) /\ Len(cache_list) \in Nat
  BY <1>0, NodesAreNodes DEF TypeOK
<1>1. TypeOK'
  BY <1>0 DEF TypeOK
<1>2. ASSUME InUse' PROVE UseInv'
  <2>1. /\ InUse /\ UseInv
        /\ (Chain(cache_list) /\ Chain(tmp_list) /\ Bases /\ Linked /\ FrontInv /\ BackIsLast)'
    BY <1>0, <1>2, ListsUnmoved DEF Appending, InUse
  <2>i. index \notin DOMAIN cache_list
    BY <1>0, <1>y
  <2>2. /\ op \in {"read_from", "flush"} /\ had = <<put, got>> /\ already = 0
        /\ op = "read_from" => expected <= size
        /\ expected = put + 1 - FrontByte
    <3>1. MeasureState /\ pc = "measure"
      BY <1>0, <2>1 DEF UseInv
    <3>2. expected = (IF index \in DOMAIN cache_list
                      THEN cache_list[index].base + cache_list[index].r_offset
                      ELSE put + 1) - FrontByte
      BY <3>1 DEF MeasureState
    <3>3. expected = put + 1 - FrontByte
      <4>1. FrontByte \in Int
        BY <1>0, FrontByteType
      <4> QED BY <1>y, <2>i, <3>2, <4>1
    <3>4. /\ op \in {"read_from", "flush"} /\ had = <<put, got>> /\ already = 0
          /\ op = "read_from" => expected <= size
      BY <3>1 DEF MeasureState
    <3> QED BY <3>3, <3>4
  <2>3. /\ FrontByte \in Int /\ FrontByte' = FrontByte /\ FrontByte <= got + 1 /\ got <= put
        /\ torn = 0 => FrontByte = got + 1
    BY <1>0, <2>1, FrontByteType
    DEF FrontByte, NoNodes, Front, First, UseInv, FrontInv, Appending
  <2>e. /\ 0 <= expected /\ expected - 0 = put + 1 - FrontByte
        /\ torn = 0 => expected = put - got /\ got = got + 0
        /\ torn = 0 /\ op = "read_from" => expected = Least(size, put - got)
    BY <1>y, <2>2, <2>3 DEF Least
  <2>4. GetState'
    <3>1. had'[1] = put /\ had'[2] = got /\ put + 1 - FrontByte <= put + 1 - FrontByte
      BY <1>0, <1>y, <2>2, <2>3
    <3> QED BY <1>0, <2>2, <2>3, <2>e, <3>1 DEF GetState
  <2>5. AtRest' /\ AppendState' /\ MeasureState' /\ IdleState'
    BY <1>0, <2>1 DEF UseInv, AtRest, Appending, AppendState, MeasureState, IdleState
  <2> QED BY <2>1, <2>4, <2>5 DEF UseInv
<1> QED BY <1>0, <1>1, <1>2 DEF BufferInv, NodesInv, Appending

\* Giving the first node of a list another r_offset changes nothing else.
LEMMA StartFacts ==
  ASSUME NEW s \in Seq(Node), s # <<>>, NEW r \in Int
  PROVE  LET t == StartAt(s, r) IN
         /\ t \in Seq(Node) /\ t # <<>> /\ Len(t) = Len(s) /\ DOMAIN t = DOMAIN s
         /\ \A i \in DOMAIN s : t[i].base = s[i].base /\ t[i].w_offset = s[i].w_offset
         /\ \A i \in DOMAIN s : t[i].r_offset = IF i = 1 THEN r ELSE s[i].r_offset
         /\ LastOf(t).w_offset = LastOf(s).w_offset /\ LastOf(t).base = LastOf(s).base
         /\ Head(t).base = Head(s).base /\ Head(t).r_offset = r
<1>1. /\ Len(s) \in Nat \ {0} /\ DOMAIN s = 1..Len(s) /\ Head(s) = s[1] /\ s[1] \in Node
      /\ LastOf(s) = s[Len(s)]
  BY NodeFacts
<1> DEFINE n == [Head(s) EXCEPT !.r_offset = r]
           t == StartAt(s, r)
<1>2. n \in Node /\ n.base = s[1].base /\ n.w_offset = s[1].w_offset /\ n.r_offset = r
  BY <1>1 DEF Node
<1>3. t = [s EXCEPT ![1] = n]
  BY DEF StartAt
<1> HIDE DEF n, t
<1>4. t \in Seq(Node) /\ Len(t) = Len(s) /\ DOMAIN t = DOMAIN s /\ t # <<>>
  BY <1>1, <1>2, <1>3
<1>5. \A i \in DOMAIN s : t[i] = IF i = 1 THEN n ELSE s[i]
  BY <1>1, <1>2, <1>3
<1>6. \A i \in DOMAIN s : /\ t[i].base = s[i].base /\ t[i].w_offset = s[i].w_offset
                          /\ t[i].r_offset = IF i = 1 THEN r ELSE s[i].r_offset
  BY <1>1, <1>2, <1>5
<1>7. LastOf(t) = t[Len(s)] /\ Head(t) = t[1]
  BY <1>4, NodeFacts
<1>8. LastOf(t).w_offset = LastOf(s).w_offset /\ LastOf(t).base = LastOf(s).base
  BY <1>1, <1>6, <1>7
<1>9. Head(t).base = Head(s).base /\ Head(t).r_offset = r
  BY <1>1, <1>6, <1>7
<1> QED BY <1>4, <1>6, <1>8, <1>9 DEF t

\* The rest of a list of nodes.
LEMMA TailFacts ==
  ASSUME NEW s \in Seq(Node), s # <<>>
  PROVE  /\ Tail(s) \in Seq(Node) /\ Len(Tail(s)) = Len(s) - 1
         /\ DOMAIN Tail(s) = 1..(Len(s) - 1)
         /\ \A i \in DOMAIN Tail(s) : Tail(s)[i] = s[i + 1] /\ i + 1 \in DOMAIN s
         /\ Tail(s) = <<>> <=> Len(s) = 1
         /\ Tail(s) # <<>> => LastOf(Tail(s)) = LastOf(s) /\ Head(Tail(s)) = s[2] /\ 2 \in DOMAIN s
<1>1. Len(s) \in Nat \ {0} /\ DOMAIN s = 1..Len(s) /\ LastOf(s) = s[Len(s)]
  BY NodeFacts
<1>2. Tail(s) \in Seq(Node) /\ Len(Tail(s)) = Len(s) - 1
  BY <1>1
<1>3. DOMAIN Tail(s) = 1..(Len(s) - 1)
  BY <1>1, <1>2
<1>4. \A i \in DOMAIN Tail(s) : Tail(s)[i] = s[i + 1] /\ i + 1 \in DOMAIN s
  BY <1>1, <1>3
<1>5. Tail(s) = <<>> <=> Len(s) = 1
  <2>1. \A q \in Seq(Node) : q = <<>> <=> Len(q) = 0
    OBVIOUS
  <2>2. Tail(s) = <<>> <=> Len(Tail(s)) = 0
    BY <1>2, <2>1
  <2> QED BY <1>1, <1>2, <2>2
<1>6. ASSUME Tail(s) # <<>>
      PROVE  LastOf(Tail(s)) = LastOf(s) /\ Head(Tail(s)) = s[2] /\ 2 \in DOMAIN s
  <2>1. Len(s) - 1 \in DOMAIN Tail(s) /\ 1 \in DOMAIN Tail(s) /\ (Len(s) - 1) + 1 = Len(s)
    BY <1>1, <1>3, <1>5, <1>6
  <2>2. LastOf(Tail(s)) = Tail(s)[Len(s) - 1] /\ Head(Tail(s)) = Tail(s)[1]
    BY <1>2, <1>6, NodeFacts
  <2>3. Tail(s)[Len(s) - 1] = s[Len(s)]
    BY <1>4, <2>1
  <2>4. Tail(s)[1] = s[2] /\ 2 \in DOMAIN s
    BY <1>4, <2>1
  <2> QED BY <1>1, <2>2, <2>3, <2>4
<1> QED BY <1>2, <1>3, <1>4, <1>5, <1>6

\* k bytes that leave the first node, by memcpy or by write(), keep the invariant.
LEMMA HandOutInv ==
  ASSUME BufferInv, pc \in {"copy", "write"}, already < expected, cache_list # <<>>,
         NEW k \in Int, HandOut(k), k <= Least(NODE_SIZE(First), expected - already),
         k >= 0 \/ k = Least(NODE_SIZE(First), expected - already),
         UNCHANGED <<pc, op, size, expected, tmp_list, last_w_offset, index, put, had, ret, faults, torn>>
  PROVE  NodesInv'
<1> USE BufferAssumption
<1>t. TypeOK
  BY DEF BufferInv, NodesInv
<1>y. /\ put \in Int /\ got \in Int /\ already \in Int /\ expected \in Int /\ held \in Int
      /\ cache_list \in Seq(Node)
  BY <1>t DEF TypeOK
<1>n. /\ First = cache_list[1] /\ First.base \in Int /\ First.r_offset \in Int /\ First.w_offset \in Int
      /\ 1 \in DOMAIN cache_list /\ Len(cache_list) \in Nat \ {0}
      /\ DOMAIN cache_list = 1..Len(cache_list)
  BY <1>y, NodeFacts DEF First
<1>k. /\ k <= First.w_offset - First.r_offset /\ k <= expected - already
      /\ 0 <= First.w_offset - First.r_offset => 0 <= k
  BY <1>y, <1>n DEF Least, NODE_SIZE
<1>g. /\ got' = (IF k <= Before(First.r_offset) THEN got ELSE First.base + First.r_offset + k - 1)
      /\ stray' = stray + Least(k, Before(First.r_offset))
      /\ already' = already + k /\ Drop(k)
  BY DEF HandOut, Sends
<1>b. /\ Before(First.r_offset) \in Nat /\ (0 <= First.r_offset => Before(First.r_offset) = 0)
      /\ First.r_offset < 0 => Before(First.r_offset) = -First.r_offset
  BY <1>n DEF Before
<1>s. First.r_offset <= First.w_offset
  BY <1>n DEF BufferInv, NodesInv, InUse, UseInv, Chain
<1>d. \/ /\ First.r_offset + k = First.w_offset
         /\ cache_list' = Tail(cache_list) /\ held' = held - 1
      \/ /\ First.r_offset + k # First.w_offset
         /\ cache_list' = StartAt(cache_list, First.r_offset + k) /\ held' = held
  BY <1>g DEF Drop
<1>1. TypeOK'
  <2>1. cache_list' \in Seq(Node)
    <3>1. Tail(cache_list) \in Seq(Node)
      BY <1>y, TailFacts
    <3>2. First.r_offset + k \in Int
      BY <1>n
    <3>3. StartAt(cache_list, First.r_offset + k) \in Seq(Node)
      BY <1>y, <3>2, StartFacts
    <3> QED BY <1>d, <3>1, <3>3
  <2>2. got' \in Int /\ already' \in Int /\ held' \in Int /\ stray' \in Nat
    <3>1. got' \in Int /\ already' \in Int
      BY <1>g, <1>n, <1>y, <1>b
    <3>3. 0 <= k
      BY <1>k, <1>n, <1>s
    <3>4. stray' \in Nat
      BY <1>g, <1>b, <1>t, <3>3 DEF Least, TypeOK
    <3>2. held' \in Int
      BY <1>d, <1>y
    <3> QED BY <3>1, <3>2, <3>4
  <2> QED BY <1>t, <2>1, <2>2 DEF TypeOK
<1>2. ASSUME InUse' PROVE UseInv'
  <2>1. InUse /\ UseInv /\ StrayInv
    BY <1>2 DEF InUse, BufferInv, NodesInv
  <2>2. tmp_list = <<>> /\ last_w_offset = -1 /\ ~NoNodes
    BY <2>1 DEF UseInv, AtRest, Appending, NoNodes
  <2>3. /\ First.base + First.r_offset = FrontByte /\ FrontByte \in Int
        /\ FrontByte <= got + 1 /\ (torn = 0 => FrontByte = got + 1) /\ got <= put
    BY <1>t, <2>1, <2>2, FrontByteType DEF UseInv, FrontInv, FrontByte, Front, Appending
  <2>4. LastOf(cache_list).base + LastOf(cache_list).w_offset = put + 1
    BY <2>1, <2>2 DEF UseInv, BackIsLast, Current
  <2>c. Chain(cache_list) /\ (\A i \in DOMAIN cache_list : cache_list[i].base <= put + 1)
    BY <2>1 DEF UseInv, Bases, Appending
  <2>f. /\ torn = 0 => 0 <= First.r_offset
        /\ 0 <= First.w_offset /\ First.r_offset <= First.w_offset /\ First.w_offset <= CACHE_SIZE
    BY <1>n, <2>c DEF Chain
  <2>k. 0 <= k
    BY <1>k, <1>n, <2>f
  <2>5. /\ k > Before(First.r_offset) => got' = FrontByte + k - 1
        /\ k <= Before(First.r_offset) => got' = got /\ FrontByte + k <= got + 1
        /\ torn = 0 => got' = got + k
    <3>1. k > Before(First.r_offset) => got' = FrontByte + k - 1
      BY <1>g, <1>n, <1>y, <1>b, <2>3
    <3>2. ASSUME k <= Before(First.r_offset) PROVE got' = got /\ FrontByte + k <= got + 1
      <4>1. CASE 0 <= First.r_offset
        BY <1>g, <1>n, <1>y, <1>b, <2>3, <2>k, <3>2, <4>1
      <4>2. CASE First.r_offset < 0
        <5>1. First.base <= got + 1
          BY <2>1, <4>2 DEF StrayInv
        <5> QED BY <1>g, <1>n, <1>y, <1>b, <2>3, <3>2, <4>2, <5>1
      <4> QED BY <1>n, <4>1, <4>2
    <3>3. ASSUME torn = 0 PROVE got' = got + k
      <4>1. Before(First.r_offset) = 0 /\ FrontByte = got + 1
        BY <1>b, <2>3, <2>f, <3>3
      <4> QED BY <1>y, <2>k, <3>1, <3>2, <4>1
    <3> QED BY <3>1, <3>2, <3>3
  <2>6. /\ Chain(cache_list') /\ (\A i \in DOMAIN cache_list' : cache_list'[i].base <= put + 1)
        /\ cache_list' = <<>> => put + 1 = FrontByte + k
        /\ cache_list' # <<>> =>
             /\ Head(cache_list').base + Head(cache_list').r_offset = FrontByte + k
             /\ LastOf(cache_list').base + LastOf(cache_list').w_offset = put + 1
    <3>1. CASE First.r_offset + k = First.w_offset /\ cache_list' = Tail(cache_list)
      <4> DEFINE u == Tail(cache_list)
      <4>1. /\ DOMAIN u = 1..(Len(cache_list) - 1) /\ Len(u) = Len(cache_list) - 1
            /\ \A i \in DOMAIN u : u[i] = cache_list[i + 1] /\ i + 1 \in DOMAIN cache_list
            /\ u = <<>> <=> Len(cache_list) = 1
            /\ u # <<>> => /\ LastOf(u) = LastOf(cache_list) /\ Head(u) = cache_list[2]
                           /\ 2 \in DOMAIN cache_list
        BY <1>y, TailFacts
      <4> HIDE DEF u
      <4>2. Chain(u)
        <5> SUFFICES ASSUME NEW i \in DOMAIN u
                     PROVE  /\ (torn = 0 => 0 <= u[i].r_offset) /\ 0 <= u[i].w_offset /\ u[i].r_offset <= u[i].w_offset
                            /\ u[i].w_offset <= CACHE_SIZE
                            /\ i > 1 => u[i].r_offset = 0
                            /\ i < Len(u) => /\ u[i].w_offset = CACHE_SIZE
                                             /\ u[i + 1].base = u[i].base + CACHE_SIZE
          BY DEF Chain
        <5> DEFINE j == i + 1
        <5>1. /\ j \in DOMAIN cache_list /\ u[i] = cache_list[j] /\ j > 1
              /\ i < Len(u) => j < Len(cache_list) /\ u[i + 1] = cache_list[j + 1]
          BY <1>n, <4>1
        <5> HIDE DEF j
        <5> QED BY <2>c, <5>1 DEF Chain
      <4>3. \A i \in DOMAIN u : u[i].base <= put + 1
        BY <2>c, <4>1
      <4>4. ASSUME u = <<>> PROVE put + 1 = FrontByte + k
        <5>1. LastOf(cache_list) = First
          BY <1>n, <4>1, <4>4 DEF LastOf
        <5>2. First.base + First.w_offset = put + 1
          BY <2>4, <5>1
        <5>3. First.base + First.w_offset = FrontByte + k
          BY <1>n, <2>3, <3>1
        <5> QED BY <5>2, <5>3
      <4>5. ASSUME u # <<>>
            PROVE  /\ Head(u).base + Head(u).r_offset = FrontByte + k
                   /\ LastOf(u).base + LastOf(u).w_offset = put + 1
        <5>1. 1 < Len(cache_list) /\ 1 + 1 = 2
          BY <1>n, <4>1, <4>5
        <5>2. /\ First.w_offset = CACHE_SIZE /\ cache_list[2].base = First.base + CACHE_SIZE
              /\ cache_list[2].r_offset = 0
          BY <1>n, <2>c, <4>1, <4>5, <5>1 DEF Chain
        <5>3. Head(u).base + Head(u).r_offset = FrontByte + k
          <6>1. Head(u).base = First.base + First.w_offset /\ Head(u).r_offset = 0
            BY <4>1, <4>5, <5>2
          <6>2. First.base + First.w_offset = FrontByte + k
            BY <1>n, <2>3, <3>1
          <6>3. First.base + First.w_offset + 0 = First.base + First.w_offset
            BY <1>n
          <6> QED BY <6>1, <6>2, <6>3
        <5> QED BY <2>4, <4>1, <4>5, <5>3
      <4> QED BY <3>1, <4>2, <4>3, <4>4, <4>5 DEF u
    <3>2. CASE /\ First.r_offset + k # First.w_offset
               /\ cache_list' = StartAt(cache_list, First.r_offset + k)
      <4> DEFINE r == First.r_offset + k
                 u == StartAt(cache_list, r)
      <4>0. r \in Int /\ (torn = 0 => 0 <= r) /\ r <= First.w_offset
        BY <1>k, <1>n, <2>f, <2>k
      <4> HIDE DEF r
      <4>1. /\ u # <<>> /\ DOMAIN u = DOMAIN cache_list /\ Len(u) = Len(cache_list)
            /\ \A i \in DOMAIN u : u[i].base = cache_list[i].base /\ u[i].w_offset = cache_list[i].w_offset
            /\ \A i \in DOMAIN u : u[i].r_offset = IF i = 1 THEN r ELSE cache_list[i].r_offset
            /\ LastOf(u).w_offset = LastOf(cache_list).w_offset
            /\ LastOf(u).base = LastOf(cache_list).base
            /\ Head(u).base = First.base /\ Head(u).r_offset = r
        BY <1>y, <4>0, StartFacts DEF First
      <4> HIDE DEF u
      <4>2. Chain(u)
        <5> SUFFICES ASSUME NEW i \in DOMAIN u
                     PROVE  /\ (torn = 0 => 0 <= u[i].r_offset) /\ 0 <= u[i].w_offset /\ u[i].r_offset <= u[i].w_offset
                            /\ u[i].w_offset <= CACHE_SIZE
                            /\ i > 1 => u[i].r_offset = 0
                            /\ i < Len(u) => /\ u[i].w_offset = CACHE_SIZE
                                             /\ u[i + 1].base = u[i].base + CACHE_SIZE
          BY DEF Chain
        <5>1. i < Len(u) => i + 1 \in DOMAIN u
          BY <1>n, <4>1
        <5>2. CASE i = 1
          <6>1. u[i].r_offset = r /\ u[i].base = First.base /\ u[i].w_offset = First.w_offset
            BY <1>n, <4>1, <5>2
          <6>2. ASSUME i < Len(u)
                PROVE  First.w_offset = CACHE_SIZE /\ u[i + 1].base = First.base + CACHE_SIZE
            BY <1>n, <2>c, <4>1, <5>1, <5>2, <6>2 DEF Chain
          <6> QED BY <2>f, <4>0, <5>2, <6>1, <6>2
        <5>3. CASE i # 1
          BY <1>n, <2>c, <4>1, <5>1, <5>3 DEF Chain
        <5> QED BY <5>2, <5>3
      <4>3. \A i \in DOMAIN u : u[i].base <= put + 1
        BY <2>c, <4>1
      <4>4. Head(u).base + Head(u).r_offset = FrontByte + k
        <5>1. Head(u).base = First.base /\ Head(u).r_offset = First.r_offset + k
          BY <4>1 DEF r
        <5>2. First.base + (First.r_offset + k) = (First.base + First.r_offset) + k
          BY <1>n
        <5> QED BY <2>3, <5>1, <5>2
      <4> QED BY <2>4, <3>2, <4>1, <4>2, <4>3, <4>4 DEF u, r
    <3> QED BY <1>d, <3>1, <3>2
  <2>7. Chain(cache_list)' /\ Chain(tmp_list)' /\ Linked'
    BY <2>2, <2>6 DEF Chain, Linked
  <2>8. Bases'
    BY <2>2, <2>6 DEF Bases, Appending
  <2>g. /\ op = (IF pc = "copy" THEN "read_from" ELSE "flush")
        /\ put = had[1] /\ expected - already <= put + 1 - FrontByte
        /\ pc = "write" => expected - already = put + 1 - FrontByte
        /\ torn = 0 =>
             /\ got = had[2] + already
             /\ pc = "copy" => expected = Least(size, had[1] - had[2])
    BY <2>1 DEF UseInv, GetState
  <2>9. FrontByte' = FrontByte + k /\ FrontInv' /\ BackIsLast'
    <3>1. NoNodes' <=> cache_list' = <<>>
      BY <2>2 DEF NoNodes
    <3>2. cache_list' # <<>> => Front' = Head(cache_list')
      BY DEF Front, First
    <3>3. Current' = LastOf(cache_list')
      BY <2>2 DEF Current, LastOf
    <3>4. FrontByte' = FrontByte + k
      BY <2>6, <3>1, <3>2 DEF FrontByte
    <3>5. /\ FrontByte + k <= got' + 1 /\ (torn = 0 => FrontByte + k = got' + 1) /\ got' <= put
      <4>1. FrontByte + k <= put + 1
        BY <1>k, <1>y, <2>3, <2>g
      <4>2. CASE k > Before(First.r_offset)
        <5>1. got' = FrontByte + k - 1
          BY <2>5, <4>2
        <5>2. got' + 1 = FrontByte + k
          BY <2>3, <5>1
        <5> QED BY <1>y, <2>3, <4>1, <5>1, <5>2
      <4>3. CASE k <= Before(First.r_offset)
        <5>1. got' = got /\ FrontByte + k <= got + 1
          BY <2>5, <4>3
        <5>2. torn = 0 => got' = got + k /\ FrontByte = got + 1
          BY <2>3, <2>5
        <5> QED BY <1>y, <2>3, <5>1, <5>2
      <4> QED BY <1>b, <4>2, <4>3
    <3>6. FrontInv'
      BY <3>4, <3>5 DEF FrontInv, Appending
    <3> QED BY <2>6, <3>1, <3>3, <3>4, <3>6 DEF BackIsLast
  <2>10. GetState'
    <3>1. already' = already + k /\ had[2] \in Int
      BY <1>g, <1>t DEF TypeOK
    <3>2. /\ already' <= expected /\ expected - already' <= put + 1 - (FrontByte + k)
          /\ pc = "write" => expected - already' = put + 1 - (FrontByte + k)
      <4>1. already' <= expected
        BY <1>k, <1>y, <3>1
      <4>2. \A x \in Int : expected - already <= x => expected - (already + k) <= x - k
        BY <1>y
      <4>3. expected - already = put + 1 - FrontByte =>
              expected - (already + k) = put + 1 - (FrontByte + k)
        BY <1>y, <2>3
      <4>4. put + 1 - FrontByte \in Int /\ (put + 1 - FrontByte) - k = put + 1 - (FrontByte + k)
        BY <1>y, <2>3
      <4> QED BY <2>g, <3>1, <4>1, <4>2, <4>3, <4>4
    <3>3. ASSUME torn = 0 PROVE got' = had[2] + already'
      <4>1. got' = got + k
        BY <2>5, <3>3
      <4>2. got = had[2] + already
        BY <2>g, <3>3
      <4> QED BY <1>y, <3>1, <4>1, <4>2
    <3> QED BY <2>9, <2>g, <3>2, <3>3 DEF GetState
  <2>11. AtRest' /\ AppendState' /\ MeasureState' /\ IdleState'
    BY <2>2 DEF AtRest, Appending, AppendState, MeasureState, IdleState
  <2> QED BY <2>7, <2>8, <2>9, <2>10, <2>11 DEF UseInv
<1> QED BY <1>1, <1>2 DEF BufferInv, NodesInv, Appending

\* One iteration of the copying loop of read_from_buffer keeps the invariant.
LEMMA CopyStepInv ==
  ASSUME BufferInv, CopyStep
  PROVE  NodesInv'
<1> DEFINE piece == Least(NODE_SIZE(First), expected - already)
<1>1. piece \in Int
  <2>1. First.r_offset \in Int /\ First.w_offset \in Int
    BY NodeFacts DEF CopyStep, First, BufferInv, NodesInv, TypeOK
  <2> QED BY <2>1 DEF Least, NODE_SIZE, BufferInv, NodesInv, TypeOK
<1>2. HandOut(piece) /\ pc = "copy" /\ already < expected /\ cache_list # <<>>
      /\ UNCHANGED <<pc, op, size, expected, tmp_list, last_w_offset, index, put, had, ret, faults, torn>>
  BY DEF CopyStep
<1>3. piece <= Least(NODE_SIZE(First), expected - already)
  BY <1>1
<1> HIDE DEF piece
<1>4. piece = Least(NODE_SIZE(First), expected - already)
  BY DEF piece
<1> QED BY <1>1, <1>2, <1>3, <1>4, HandOutInv

\* One write() of write_from_buffer that succeeds keeps the invariant.
LEMMA WriteStepInv ==
  ASSUME BufferInv, WriteStep
  PROVE  NodesInv'
<1> DEFINE piece == Least(NODE_SIZE(First), expected - already)
<1>1. piece \in Int
  <2>1. First.r_offset \in Int /\ First.w_offset \in Int
    BY NodeFacts DEF WriteStep, First, BufferInv, NodesInv, TypeOK
  <2> QED BY <2>1 DEF Least, NODE_SIZE, BufferInv, NodesInv, TypeOK
<1>2. PICK k \in (IF piece = 0 THEN {0} ELSE 1..piece) : HandOut(k)
  BY DEF WriteStep
<1>3. pc = "write" /\ already < expected /\ cache_list # <<>>
      /\ UNCHANGED <<pc, op, size, expected, tmp_list, last_w_offset, index, put, had, ret, faults, torn>>
  BY DEF WriteStep
<1>4. k \in Int /\ k >= 0 /\ k <= Least(NODE_SIZE(First), expected - already)
  BY <1>1, <1>2
<1> HIDE DEF piece
<1> QED BY <1>2, <1>3, <1>4, HandOutInv

\* A failed write() puts the front of the nodes back by one byte, and keeps the invariant.
LEMMA WriteErrorInv ==
  ASSUME BufferInv, WriteError
  PROVE  NodesInv'
<1> USE BufferAssumption
<1>0. /\ TypeOK /\ pc = "write" /\ cache_list # <<>> /\ torn' = torn + 1 /\ Fault("write")
      /\ cache_list' = StartAt(cache_list, First.r_offset - 1)
      /\ \/ pc' = "idle" /\ Returns(-1)
         \/ already' = already - 1
            /\ UNCHANGED <<pc, op, size, expected, tmp_list, last_w_offset, index, had, ret>>
      /\ UNCHANGED <<put, got, held, stray>>
  BY DEF WriteError, BufferInv, NodesInv, StepBack
<1>y. /\ put \in Int /\ got \in Int /\ already \in Int /\ expected \in Int
      /\ cache_list \in Seq(Node)
  BY <1>0 DEF TypeOK
<1>n. /\ First = cache_list[1] /\ First.base \in Int /\ First.r_offset \in Int /\ First.w_offset \in Int
      /\ 1 \in DOMAIN cache_list /\ Len(cache_list) \in Nat \ {0}
      /\ DOMAIN cache_list = 1..Len(cache_list)
  BY <1>0, <1>y, NodeFacts DEF First
<1> DEFINE u == cache_list'
<1>u. /\ u \in Seq(Node) /\ u # <<>> /\ DOMAIN u = DOMAIN cache_list /\ Len(u) = Len(cache_list)
      /\ \A i \in DOMAIN u : u[i].base = cache_list[i].base /\ u[i].w_offset = cache_list[i].w_offset
      /\ \A i \in DOMAIN u : u[i].r_offset = IF i = 1 THEN First.r_offset - 1 ELSE cache_list[i].r_offset
      /\ LastOf(u).w_offset = LastOf(cache_list).w_offset
      /\ LastOf(u).base = LastOf(cache_list).base
      /\ Head(u).base = First.base /\ Head(u).r_offset = First.r_offset - 1
  <2>1. First.r_offset - 1 \in Int
    BY <1>n
  <2> QED BY <1>0, <1>y, <2>1, StartFacts DEF First
<1>f. torn' \in Nat /\ torn' # 0 /\ faults' \in 0..MaxFaults
  BY <1>0 DEF TypeOK, Fault
<1>2. TypeOK'
  <2>1. CASE pc' = "idle" /\ Returns(-1)
    BY <1>0, <1>u, <1>f, <2>1 DEF TypeOK, Returns
  <2>2. CASE already' = already - 1
             /\ UNCHANGED <<pc, op, size, expected, tmp_list, last_w_offset, index, had, ret>>
    BY <1>0, <1>u, <1>f, <2>2 DEF TypeOK
  <2> QED BY <1>0, <2>1, <2>2
<1>3. ~Appending' /\ ~Appending /\ InUse
  BY <1>0 DEF Appending, InUse
<1>4. UseInv'
  <2>1. UseInv
    BY <1>3 DEF BufferInv, NodesInv
  <2>2. tmp_list = <<>> /\ last_w_offset = -1 /\ ~NoNodes /\ tmp_list' = <<>> /\ last_w_offset' = -1
    BY <1>0, <1>3, <2>1 DEF UseInv, AtRest, NoNodes, Returns
  <2>3. /\ First.base + First.r_offset = FrontByte /\ FrontByte \in Int
        /\ FrontByte <= got + 1 /\ got <= put
    BY <1>0, <1>3, <2>1, <2>2, FrontByteType DEF UseInv, FrontInv, FrontByte, Front
  <2>4. Chain(cache_list) /\ (\A i \in DOMAIN cache_list : cache_list[i].base <= put + 1)
    BY <1>3, <2>1 DEF UseInv, Bases
  <2>5. Chain(cache_list)'
    <3> SUFFICES ASSUME NEW i \in DOMAIN u
                 PROVE  /\ 0 <= u[i].w_offset /\ u[i].r_offset <= u[i].w_offset
                        /\ u[i].w_offset <= CACHE_SIZE
                        /\ i > 1 => u[i].r_offset = 0
                        /\ i < Len(u) => /\ u[i].w_offset = CACHE_SIZE
                                         /\ u[i + 1].base = u[i].base + CACHE_SIZE
      BY <1>f DEF Chain
    <3> HIDE DEF u
    <3>1. i < Len(u) => i + 1 \in DOMAIN u
      BY <1>n, <1>u
    <3>2. CASE i = 1
      <4>1. /\ u[i].r_offset = First.r_offset - 1 /\ u[i].base = First.base
            /\ u[i].w_offset = First.w_offset
        BY <1>n, <1>u, <3>2
      <4>2. /\ 0 <= First.w_offset /\ First.r_offset - 1 <= First.w_offset
            /\ First.w_offset <= CACHE_SIZE
        BY <1>n, <2>4 DEF Chain
      <4>3. ASSUME i < Len(u)
            PROVE  First.w_offset = CACHE_SIZE /\ u[i + 1].base = First.base + CACHE_SIZE
        BY <1>n, <1>u, <2>4, <3>1, <3>2, <4>3 DEF Chain
      <4> QED BY <3>2, <4>1, <4>2, <4>3
    <3>3. CASE i # 1
      BY <1>n, <1>u, <2>4, <3>1, <3>3 DEF Chain
    <3> QED BY <3>2, <3>3
  <2>6. Chain(tmp_list)' /\ Linked' /\ Bases'
    BY <1>0, <1>3, <1>u, <2>2, <2>4 DEF Chain, Linked, Bases
  <2>7. FrontByte' = FrontByte - 1 /\ FrontInv'
    <3>1. ~NoNodes' /\ Front' = Head(u)
      BY <1>u DEF NoNodes, Front, First
    <3>2. FrontByte' = FrontByte - 1
      BY <1>n, <1>u, <2>3, <3>1 DEF FrontByte
    <3>3. FrontByte - 1 <= got + 1
      BY <1>y, <2>3
    <3> QED BY <1>0, <1>3, <1>f, <2>3, <3>2, <3>3 DEF FrontInv
  <2>8. BackIsLast'
    <3>1. Current' = LastOf(u) /\ Current = LastOf(cache_list)
      BY <2>2 DEF Current, LastOf
    <3> QED BY <1>0, <1>3, <1>u, <2>1, <2>2, <3>1 DEF UseInv, BackIsLast
  <2>9. AtRest' /\ AppendState'
    BY <1>3, <2>2 DEF AtRest, AppendState
  <2>10. MeasureState' /\ GetState' /\ IdleState'
    <3>1. CASE pc' = "idle" /\ Returns(-1)
      BY <3>1 DEF Returns, MeasureState, GetState, IdleState
    <3>2. CASE already' = already - 1
               /\ UNCHANGED <<pc, op, size, expected, tmp_list, last_w_offset, index, had, ret>>
      <4>1. /\ op = "flush" /\ put = had[1] /\ already <= expected
            /\ expected - already = put + 1 - FrontByte
        BY <1>0, <2>1 DEF UseInv, GetState
      <4>2. already - 1 <= expected /\ expected - (already - 1) = put + 1 - (FrontByte - 1)
        BY <1>y, <2>3, <4>1
      <4>3. put + 1 - (FrontByte - 1) <= put + 1 - (FrontByte - 1)
        BY <1>y, <2>3
      <4> QED BY <1>0, <1>f, <2>7, <3>2, <4>1, <4>2, <4>3 DEF MeasureState, GetState, IdleState
    <3> QED BY <1>0, <3>1, <3>2
  <2> QED BY <2>5, <2>6, <2>7, <2>8, <2>9, <2>10 DEF UseInv
<1> QED BY <1>2, <1>3, <1>4 DEF BufferInv, NodesInv

\* The end of read_from_buffer and of write_from_buffer keeps the invariant.
LEMMA ReturnInv ==
  ASSUME BufferInv, Return
  PROVE  NodesInv'
<1>0. /\ TypeOK /\ pc \in {"copy", "write"} /\ pc' = "idle" /\ Returns(already)
      /\ UNCHANGED <<cache_list, put, got, held, faults, torn, stray>>
  BY DEF Return, BufferInv, NodesInv
<1>1. TypeOK'
  BY <1>0, BufferAssumption DEF TypeOK, Returns
<1>2. ASSUME InUse' PROVE UseInv'
  <2>1. tmp_list = <<>> /\ last_w_offset = -1 /\ tmp_list' = tmp_list
    BY <1>0, <1>2 DEF Returns, BufferInv, NodesInv, UseInv, AtRest, Appending, InUse
  <2>2. /\ InUse /\ UseInv
        /\ (Chain(cache_list) /\ Chain(tmp_list) /\ Bases /\ Linked /\ FrontInv /\ BackIsLast)'
    BY <1>0, <1>2, <2>1, ListsUnmoved DEF Appending, InUse
  <2>3. AtRest' /\ AppendState' /\ MeasureState' /\ GetState' /\ IdleState'
    BY <1>0 DEF Returns, AtRest, Appending, AppendState, MeasureState, GetState, IdleState
  <2> QED BY <2>2, <2>3 DEF UseInv
<1> QED BY <1>0, <1>1, <1>2 DEF BufferInv, NodesInv, Appending

\* destroy_buffer ends the life of the buffer.
LEMMA DestroyInv ==
  ASSUME BufferInv, destroy_buffer
  PROVE  NodesInv'
<1>1. TypeOK'
  <2>1. Len(cache_list) \in Nat /\ held \in Int
    BY NodesAreNodes DEF BufferInv, NodesInv, TypeOK
  <2> QED BY <2>1 DEF destroy_buffer, BufferInv, NodesInv, TypeOK
<1> QED BY <1>1 DEF destroy_buffer, BufferInv, NodesInv, Appending, InUse

\* malloc() failing in read_from_buffer ends the process.
LEMMA CopyNoMemoryInv ==
  ASSUME BufferInv, CopyNoMemory
  PROVE  NodesInv'
<1>1. TypeOK'
  BY BufferAssumption DEF CopyNoMemory, Fault, BufferInv, NodesInv, TypeOK
<1> QED BY <1>1 DEF CopyNoMemory, NodesInv, Appending, InUse

-----------------------------------------------------------------------------
(* The bytes before the cache of the first node *)

\* CopyStep and WriteStep hand out a number of bytes.
LEMMA StepsHandOut ==
  ASSUME BufferInv, CopyStep \/ WriteStep
  PROVE  \E k \in Nat : HandOut(k)
<1>0. cache_list # <<>> /\ already < expected /\ TypeOK /\ Chain(cache_list)
  BY DEF CopyStep, WriteStep, BufferInv, NodesInv, InUse, UseInv
<1>1. /\ First.r_offset \in Int /\ First.w_offset \in Int /\ expected \in Int /\ already \in Int
      /\ First = cache_list[1] /\ 1 \in DOMAIN cache_list
  BY <1>0, NodeFacts DEF First, TypeOK
<1>2. First.r_offset <= First.w_offset
  BY <1>0, <1>1 DEF Chain
<1>3. Least(NODE_SIZE(First), expected - already) \in Nat
  BY <1>0, <1>1, <1>2 DEF Least, NODE_SIZE
<1>4. CASE CopyStep
  BY <1>3, <1>4 DEF CopyStep
<1>5. CASE WriteStep
  BY <1>3, <1>5 DEF WriteStep
<1> QED BY <1>4, <1>5

\* A step after which the first node begins where it did, or is a fresh one, or is gone.
LEMMA StrayUnmoved ==
  ASSUME TypeOK, StrayInv, UNCHANGED <<got, stray, torn>>,
         \/ cache_list' = cache_list
         \/ cache_list' = <<>>
         \/ Head(cache_list').r_offset = 0
         \/ /\ cache_list # <<>> /\ Head(cache_list').base = First.base
            /\ Head(cache_list').r_offset = First.r_offset
  PROVE  StrayInv'
<1>1. /\ stray \in Nat /\ torn \in Nat
      /\ cache_list # <<>> => First.r_offset \in Int
  BY NodeFacts DEF TypeOK, First
<1>2. stray <= torn
  BY <1>1 DEF StrayInv, Before
<1>3. CASE cache_list' = cache_list
  BY <1>3 DEF StrayInv, First
<1>4. CASE cache_list' = <<>>
  BY <1>1, <1>2, <1>4 DEF StrayInv
<1>5. CASE Head(cache_list').r_offset = 0
  <2>1. Before(0) = 0 /\ First'.r_offset = 0
    BY <1>5 DEF Before, First
  <2> QED BY <1>1, <1>2, <2>1 DEF StrayInv, First
<1>6. CASE /\ cache_list # <<>> /\ Head(cache_list').base = First.base
           /\ Head(cache_list').r_offset = First.r_offset
  <2>1. First'.base = First.base /\ First'.r_offset = First.r_offset
    BY <1>6 DEF First
  <2> QED BY <1>1, <1>2, <1>6, <2>1 DEF StrayInv
<1> QED BY <1>3, <1>4, <1>5, <1>6

\* The bytes that are sent from before the cache are no longer there to be sent.
LEMMA StrayHandOut ==
  ASSUME BufferInv, InUse, cache_list # <<>>, NEW k \in Nat, HandOut(k), torn' = torn
  PROVE  StrayInv'
<1>1. /\ TypeOK /\ StrayInv /\ Chain(cache_list) /\ cache_list \in Seq(Node)
  BY DEF BufferInv, NodesInv, UseInv, TypeOK
<1>2. /\ stray \in Nat /\ torn \in Nat /\ got \in Int
      /\ First.base \in Int /\ First.r_offset \in Int /\ First.w_offset \in Int
  BY <1>1, NodeFacts DEF TypeOK, First
<1>3. /\ got' = (IF k <= Before(First.r_offset) THEN got ELSE First.base + First.r_offset + k - 1)
      /\ stray' = stray + Least(k, Before(First.r_offset))
      /\ stray + Before(First.r_offset) <= torn
      /\ First.r_offset < 0 => First.base <= got + 1
  BY <1>1 DEF HandOut, Sends, StrayInv
<1>4. /\ Before(First.r_offset) \in Nat /\ Before(First.r_offset + k) \in Nat
      /\ Least(k, Before(First.r_offset)) \in Nat
      /\ Least(k, Before(First.r_offset)) <= Before(First.r_offset)
      /\ Least(k, Before(First.r_offset)) + Before(First.r_offset + k) = Before(First.r_offset)
      /\ First.r_offset + k < 0 => First.r_offset < 0 /\ k <= Before(First.r_offset)
  BY <1>2 DEF Before, Least
<1>5. stray' <= torn
  BY <1>2, <1>3, <1>4
<1>6. CASE cache_list' = Tail(cache_list)
  <2>1. CASE cache_list' = <<>>
    BY <1>2, <1>3, <1>4, <1>5, <2>1 DEF StrayInv
  <2>2. CASE cache_list' # <<>>
    <3>1. Head(cache_list') = cache_list[2] /\ 2 \in DOMAIN cache_list
      BY <1>1, <1>6, <2>2, TailFacts
    <3>2. First'.r_offset = 0
      BY <1>1, <3>1 DEF First, Chain
    <3> QED BY <1>2, <1>3, <1>4, <1>5, <3>2 DEF StrayInv, Before
  <2> QED BY <2>1, <2>2
<1>7. CASE cache_list' = StartAt(cache_list, First.r_offset + k)
  <2>1. First.r_offset + k \in Int
    BY <1>2
  <2>2. /\ cache_list' # <<>> /\ First'.base = First.base
        /\ First'.r_offset = First.r_offset + k
    BY <1>1, <1>7, <2>1, StartFacts DEF First
  <2>3. stray' + Before(First.r_offset + k) <= torn
    BY <1>2, <1>3, <1>4
  <2>4. First.r_offset + k < 0 => First.base <= got' + 1
    BY <1>2, <1>3, <1>4
  <2> QED BY <2>2, <2>3, <2>4 DEF StrayInv
<1> QED BY <1>6, <1>7 DEF HandOut, Drop

\* A failed write() adds one byte before the cache, at most.
LEMMA StrayWriteError ==
  ASSUME BufferInv, WriteError
  PROVE  StrayInv'
<1>1. /\ TypeOK /\ UseInv /\ StrayInv /\ cache_list # <<>> /\ cache_list \in Seq(Node)
      /\ torn' = torn + 1 /\ got' = got /\ stray' = stray
      /\ cache_list' = StartAt(cache_list, First.r_offset - 1)
  BY DEF WriteError, StepBack, BufferInv, NodesInv, InUse, TypeOK
<1>2. /\ stray \in Nat /\ torn \in Nat /\ got \in Int
      /\ First.base \in Int /\ First.r_offset \in Int
  BY <1>1, NodeFacts DEF TypeOK, First
<1>3. First.r_offset - 1 \in Int
  BY <1>2
<1>4. cache_list' # <<>> /\ First'.base = First.base /\ First'.r_offset = First.r_offset - 1
  BY <1>1, <1>3, StartFacts DEF First
<1>5. First.base + First.r_offset <= got + 1
  BY <1>1 DEF UseInv, FrontInv, FrontByte, NoNodes, Front
<1>6. First.r_offset < 0 => First.base <= got + 1
  BY <1>1 DEF StrayInv
<1>7. First.r_offset - 1 < 0 => First.base <= got + 1
  BY <1>2, <1>5, <1>6
<1>8. /\ Before(First.r_offset) \in Nat /\ Before(First.r_offset - 1) \in Nat
      /\ Before(First.r_offset - 1) <= Before(First.r_offset) + 1
  BY <1>2 DEF Before
<1>9. stray + Before(First.r_offset) <= torn
  BY <1>1 DEF StrayInv
<1>10. stray + Before(First.r_offset - 1) <= torn + 1
  BY <1>2, <1>8, <1>9
<1> QED BY <1>1, <1>4, <1>7, <1>10 DEF StrayInv

\* Every step of every call keeps the count of those bytes.
LEMMA StrayKept ==
  ASSUME BufferInv, [Next]_vars, InUse'
  PROVE  StrayInv'
<1>0. TypeOK /\ cache_list \in Seq(Node) /\ tmp_list \in Seq(Node) /\ (InUse => UseInv /\ StrayInv)
  BY DEF BufferInv, NodesInv, TypeOK
<1>1. CASE AppendStep
  <2>1. PICK k \in Int : Fill(k)
    <3>1. InUse /\ UseInv /\ ~NoNodes
      BY <1>0, <1>1 DEF AppendStep, InUse, BufferInv, NodesInv, Appending
    <3>2. Current.w_offset \in Int
      BY <1>0, <3>1, NodeFacts DEF Current, NoNodes
    <3>3. Least(size - already, CACHE_SIZE - Current.w_offset) \in Int
      BY <1>0, <3>2, BufferAssumption DEF Least, TypeOK
    <3> QED BY <1>1, <3>3 DEF AppendStep
  <2>2. /\ UNCHANGED <<got, stray, torn>> /\ InUse
        /\ cache_list' = cache_list \/
           (tmp_list = <<>> /\ cache_list' = EndAt(cache_list, Current.w_offset + k))
    BY <1>1, <2>1 DEF AppendStep, Fill, InUse
  <2>3. CASE tmp_list = <<>> /\ cache_list' = EndAt(cache_list, Current.w_offset + k)
    <3>1. cache_list # <<>>
      BY <1>1, <2>3 DEF AppendStep, BufferInv, NodesInv, Appending, NoNodes
    <3>2. Current.w_offset + k \in Int
      BY <1>0, <2>3, <3>1, NodeFacts DEF Current
    <3>3. Head(cache_list').base = First.base /\ Head(cache_list').r_offset = First.r_offset
      BY <1>0, <2>3, <3>1, <3>2, FillFacts DEF First
    <3> QED BY <1>0, <2>2, <3>1, <3>3, StrayUnmoved
  <2> QED BY <1>0, <2>2, <2>3, StrayUnmoved
<1>2. CASE Merge
  <2>1. /\ UNCHANGED <<got, stray, torn>> /\ InUse /\ UseInv
        /\ cache_list' = cache_list \/ cache_list' = cache_list \o tmp_list
    BY <1>0, <1>2 DEF Merge, Splice, InUse
  <2>2. CASE cache_list' = cache_list \o tmp_list /\ cache_list # <<>> /\ tmp_list # <<>>
    <3>1. Head(cache_list') = First
      BY <1>0, <2>2, SpliceFacts DEF First
    <3> QED BY <1>0, <2>1, <2>2, <3>1, StrayUnmoved
  <2>3. CASE cache_list' = cache_list \o tmp_list /\ cache_list = <<>>
    <3>1. cache_list' = tmp_list
      BY <1>0, <2>3
    <3>2. tmp_list # <<>> => Head(tmp_list).r_offset = 0
      BY <1>0, <2>1, NodeFacts DEF UseInv, Linked
    <3> QED BY <1>0, <2>1, <3>1, <3>2, StrayUnmoved
  <2>4. CASE cache_list' = cache_list \o tmp_list /\ tmp_list = <<>>
    <3>1. cache_list' = cache_list
      BY <1>0, <2>4
    <3> QED BY <1>0, <2>1, <3>1, StrayUnmoved
  <2> QED BY <1>0, <2>1, <2>2, <2>3, <2>4, StrayUnmoved
<1>3. CASE ReadError
  <2>1. /\ UNCHANGED <<got, stray, torn>> /\ InUse
        /\ cache_list' = cache_list \/
           (cache_list # <<>> /\ cache_list' = EndAt(cache_list, last_w_offset))
    BY <1>3 DEF ReadError, RestoredEnd, InUse
  <2>2. CASE cache_list # <<>> /\ cache_list' = EndAt(cache_list, last_w_offset)
    <3>1. last_w_offset \in Int
      BY <1>0 DEF TypeOK
    <3>2. Head(cache_list').base = First.base /\ Head(cache_list').r_offset = First.r_offset
      BY <1>0, <2>2, <3>1, FillFacts DEF First
    <3> QED BY <1>0, <2>1, <2>2, <3>2, StrayUnmoved
  <2> QED BY <1>0, <2>1, <2>2, StrayUnmoved
<1>4. CASE CopyStep \/ WriteStep
  <2>1. InUse /\ cache_list # <<>> /\ torn' = torn
    BY <1>4 DEF CopyStep, WriteStep, InUse
  <2>2. PICK k \in Nat : HandOut(k)
    BY <1>4, StepsHandOut
  <2> QED BY <2>1, <2>2, StrayHandOut
<1>5. CASE read_into_buffer \/ write_into_buffer
  <2>1. UNCHANGED <<got, stray, torn, cache_list>> /\ InUse
    BY <1>5 DEF read_into_buffer, write_into_buffer, Append_, InUse
  <2> QED BY <1>0, <2>1, StrayUnmoved
<1>6. CASE \/ AppendNothing \/ Grow \/ read_from_buffer \/ flush_messages \/ MeasureStep \/ MeasureEnd
           \/ Return
  <2>1. UNCHANGED <<got, stray, torn, cache_list>> /\ InUse
    BY <1>6 DEF AppendNothing, Grow, read_from_buffer, flush_messages, Measure, MeasureStep,
                MeasureEnd, Return, InUse
  <2> QED BY <1>0, <2>1, StrayUnmoved
<1>7. CASE UNCHANGED vars
  <2>1. UNCHANGED <<got, stray, torn, cache_list>> /\ InUse
    BY <1>7 DEF vars, InUse
  <2> QED BY <1>0, <2>1, StrayUnmoved
<1>8. ~destroy_buffer /\ ~CopyNoMemory
  BY DEF destroy_buffer, CopyNoMemory, InUse
<1> QED BY <1>1, <1>2, <1>3, <1>4, <1>5, <1>6, <1>7, <1>8, StrayWriteError DEF Next

-----------------------------------------------------------------------------
(* The theorems *)

\* Every step of every call keeps the nodes in order.
LEMMA NodesKept ==
  ASSUME BufferInv, [Next]_vars
  PROVE  NodesInv'
<1>1. CASE read_into_buffer
  BY <1>1, AppendInv, BufferAssumption DEF read_into_buffer
<1>2. CASE write_into_buffer
  BY <1>2, AppendInv, BufferAssumption DEF write_into_buffer
<1>3. CASE read_from_buffer
  BY <1>3, MeasureInv, BufferAssumption DEF read_from_buffer
<1>4. CASE flush_messages
  BY <1>4, MeasureInv, BufferAssumption DEF flush_messages
<1>5. CASE UNCHANGED vars
  <2>1. NodesInv' <=> NodesInv
    BY <1>5 DEF vars, NodesInv, TypeOK, Intact, InUse, UseInv, Chain, Bases, Linked, FrontInv,
       FrontByte, BackIsLast, AtRest, AppendState, MeasureState, GetState, IdleState, Appending, NoNodes, Front,
       First, Current, LastOf
  <2> QED BY <2>1 DEF BufferInv
<1> QED
  BY <1>1, <1>2, <1>3, <1>4, <1>5, AppendStepInv, AppendNothingInv, GrowInv, MergeInv, ReadErrorInv,
     MeasureStepInv, MeasureEndInv, CopyNoMemoryInv, CopyStepInv, WriteStepInv, WriteErrorInv, ReturnInv, DestroyInv
  DEF Next

\* Every step of every call keeps the invariant.
LEMMA NextInv ==
  ASSUME BufferInv, [Next]_vars
  PROVE  BufferInv'
  BY NodesKept, StrayKept DEF BufferInv

\* BufferInv holds throughout, for every node size, all bounds and all kinds of failure.
THEOREM BufferInvariant == Spec => []BufferInv
  BY InitInv, NextInv, PTL DEF Spec

\* The buffer hands out its bytes in order, none skipped and none twice.
THEOREM HandsOutInOrder == Spec => []FrontIsNext
<1>1. ASSUME BufferInv PROVE FrontIsNext
  <2> SUFFICES ASSUME Intact
               PROVE  IF NoNodes THEN got = put ELSE Front.base + Front.r_offset = got + 1
    BY DEF FrontIsNext
  <2>1. FrontByte = got + 1 /\ put \in Int /\ got \in Int
    BY <1>1 DEF Intact, BufferInv, NodesInv, UseInv, FrontInv, TypeOK
  <2> QED BY <2>1 DEF FrontByte
<1> QED BY <1>1, BufferInvariant, PTL

\* The buffer keeps every byte it has accepted.
THEOREM KeepsWhatItAccepts == Spec => []BackIsLast
<1>1. BufferInv => BackIsLast
  BY DEF BufferInv, NodesInv, UseInv, BackIsLast
<1> QED BY <1>1, BufferInvariant, PTL

\* read_from_buffer returns what was asked for or, if that is less, all there was.
THEOREM ReadsAll == Spec => []ReadsWhatThereIs
<1>1. ASSUME BufferInv PROVE ReadsWhatThereIs
  <2> SUFFICES ASSUME Intact, op = "read_from", pc = "copy", already >= expected \/ cache_list = <<>>
               PROVE  already = Least(size, had[1] - had[2])
    BY DEF ReadsWhatThereIs
  <2>1. /\ put = had[1] /\ got = had[2] + already /\ already <= expected
        /\ expected = Least(size, had[1] - had[2])
    BY <1>1 DEF BufferInv, NodesInv, UseInv, GetState, Intact
  <2>2. /\ already \in Int /\ expected \in Int /\ had[1] \in Int /\ had[2] \in Int /\ size \in Nat
    BY <1>1 DEF BufferInv, NodesInv, TypeOK
  <2>3. CASE already >= expected
    BY <2>1, <2>2, <2>3
  <2>4. CASE cache_list = <<>>
    <3>1. got = put
      <4>1. FrontByte = got + 1 /\ NoNodes /\ put \in Int /\ got \in Int
        BY <1>1, <2>4
        DEF Intact, BufferInv, NodesInv, UseInv, AtRest, Appending, FrontInv, NoNodes, TypeOK
      <4> QED BY <4>1 DEF FrontByte
    <3> QED BY <2>1, <2>2, <3>1 DEF Least
  <2> QED BY <2>3, <2>4
<1> QED BY <1>1, BufferInvariant, PTL
\* flush_messages writes all that was buffered, however write() cuts it into pieces and
\* whatever failed before.
THEOREM FlushWritesAll == Spec => []FlushEmpties
<1>1. ASSUME BufferInv PROVE FlushEmpties
  <2> SUFFICES ASSUME pc = "write", already >= expected \/ cache_list = <<>>
               PROVE  got = put
    BY DEF FlushEmpties
  <2>1. UseInv /\ ~Appending /\ TypeOK
    BY <1>1 DEF BufferInv, NodesInv, InUse, Appending
  <2>2. /\ put \in Int /\ got \in Int /\ already \in Int /\ expected \in Int /\ FrontByte \in Int
    BY <2>1, FrontByteType DEF TypeOK
  <2>3. FrontByte <= got + 1 /\ got <= put
    BY <2>1 DEF UseInv, FrontInv
  <2>4. FrontByte = put + 1
    <3>1. CASE already >= expected
      <4>1. already <= expected /\ expected - already = put + 1 - FrontByte
        BY <2>1 DEF UseInv, GetState
      <4> QED BY <2>2, <3>1, <4>1
    <3>2. CASE cache_list = <<>>
      BY <2>1, <3>2 DEF UseInv, AtRest, FrontByte, NoNodes
    <3> QED BY <3>1, <3>2
  <2> QED BY <2>2, <2>3, <2>4
<1> QED BY <1>1, BufferInvariant, PTL

\* After failed write()s the buffer still skips no byte of the stream, and sends no more bytes
\* from before a cache than there were failures.
THEOREM SkipsNothing == Spec => []NothingSkipped
<1>1. ASSUME BufferInv PROVE NothingSkipped
  <2> SUFFICES ASSUME InUse PROVE /\ ~NoNodes => NextByte(Front) <= got + 1
                                  /\ stray + (IF NoNodes THEN 0 ELSE Before(Front.r_offset)) <= torn
    BY DEF NothingSkipped
  <2>1. /\ TypeOK /\ UseInv /\ StrayInv /\ cache_list \in Seq(Node) /\ tmp_list \in Seq(Node)
        /\ stray \in Nat /\ torn \in Nat /\ got \in Int
    BY <1>1 DEF BufferInv, NodesInv, TypeOK
  <2>2. CASE cache_list # <<>>
    <3>1. ~NoNodes /\ Front = First /\ First.base \in Int /\ First.r_offset \in Int
      BY <2>1, <2>2, NodeFacts DEF NoNodes, Front, First
    <3>2. First.base + First.r_offset <= got + 1
      BY <2>1, <3>1 DEF UseInv, FrontInv, FrontByte
    <3>3. First.r_offset < 0 => First.base <= got + 1
      BY <2>1, <2>2 DEF StrayInv
    <3>4. NextByte(First) <= got + 1
      BY <2>1, <3>1, <3>2, <3>3 DEF NextByte
    <3>5. stray + Before(First.r_offset) <= torn
      BY <2>1, <2>2 DEF StrayInv
    <3> QED BY <3>1, <3>4, <3>5
  <2>3. CASE cache_list = <<>> /\ tmp_list # <<>>
    <3>1. /\ ~NoNodes /\ Front = tmp_list[1] /\ tmp_list[1].base \in Int
          /\ tmp_list[1].r_offset = 0
      BY <2>1, <2>3, NodeFacts DEF NoNodes, Front, UseInv, Linked
    <3>2. tmp_list[1].base + 0 <= got + 1
      BY <2>1, <3>1 DEF UseInv, FrontInv, FrontByte
    <3>3. NextByte(tmp_list[1]) <= got + 1
      BY <3>1, <3>2 DEF NextByte
    <3>4. stray + 0 <= torn /\ Before(0) = 0
      BY <2>1, <2>3 DEF StrayInv, Before
    <3> QED BY <3>1, <3>3, <3>4
  <2>4. CASE NoNodes
    BY <2>1, <2>4 DEF StrayInv, NoNodes
  <2> QED BY <2>2, <2>3, <2>4 DEF NoNodes
<1> QED BY <1>1, BufferInvariant, PTL

-----------------------------------------------------------------------------
(* Where the caches go *)

\* A step of read_into_buffer or write_into_buffer up to their loop takes the cache it adds.
LEMMA AppendKeepsCaches ==
  ASSUME BufferInv, NEW o, NEW n, Append_(o, n)
  PROVE  Forgotten' = Forgotten
<1>0. TypeOK /\ pc = "idle" /\ UseInv /\ cache_list' = cache_list
  BY DEF Append_, BufferInv, NodesInv, InUse
<1>1. held \in Int /\ Len(cache_list) \in Nat /\ tmp_list = <<>>
  BY <1>0, NodesAreNodes DEF TypeOK, UseInv, AtRest, Appending
<1>2. \/ tmp_list' = <<NewNode(put + 1)>> /\ held' = held + 1
      \/ tmp_list' = tmp_list /\ held' = held
      \/ tmp_list' = <<>> /\ held' = held
  BY DEF Append_, Returns
<1>3. CASE tmp_list' = <<NewNode(put + 1)>> /\ held' = held + 1
  <2>1. Len(tmp_list') = 1 /\ Len(tmp_list) = 0
    BY <1>1, <1>3
  <2> QED BY <1>0, <1>1, <1>3, <2>1 DEF Forgotten
<1>4. CASE tmp_list' = <<>> /\ held' = held
  BY <1>0, <1>1, <1>4 DEF Forgotten
<1> QED BY <1>1, <1>2, <1>3, <1>4

\* Filling a node takes no cache.
LEMMA AppendStepKeepsCaches ==
  ASSUME BufferInv, AppendStep
  PROVE  Forgotten' = Forgotten
<1>0. TypeOK /\ held' = held /\ ~NoNodes
  BY DEF AppendStep, BufferInv, NodesInv, Appending
<1>1. \E k \in Int : Fill(k)
  <2>1. Current.w_offset \in Int
    BY <1>0, NodeFacts DEF Current, NoNodes, TypeOK
  <2>2. Least(size - already, CACHE_SIZE - Current.w_offset) \in Int
    BY <1>0, <2>1, BufferAssumption DEF Least, TypeOK
  <2> QED BY <2>2 DEF AppendStep
<1>2. PICK k \in Int : Fill(k)
  BY <1>1
<1>3. Current.w_offset + k \in Int
  BY <1>0, NodeFacts DEF Current, NoNodes, TypeOK
<1>4. tmp_list \in Seq(Node) /\ cache_list \in Seq(Node)
  BY <1>0 DEF TypeOK
<1>5. CASE tmp_list # <<>>
  <2>1. tmp_list' = EndAt(tmp_list, Current.w_offset + k) /\ cache_list' = cache_list
    BY <1>2, <1>5 DEF Fill
  <2>2. Len(tmp_list') = Len(tmp_list)
    BY <1>3, <1>4, <1>5, <2>1, FillFacts
  <2> QED BY <1>0, <2>1, <2>2 DEF Forgotten
<1>6. CASE tmp_list = <<>>
  <2>1. cache_list' = EndAt(cache_list, Current.w_offset + k) /\ tmp_list' = tmp_list
        /\ cache_list # <<>>
    BY <1>0, <1>2, <1>6 DEF Fill, NoNodes
  <2>2. Len(cache_list') = Len(cache_list)
    BY <1>3, <1>4, <2>1, FillFacts
  <2> QED BY <1>0, <2>1, <2>2 DEF Forgotten
<1> QED BY <1>5, <1>6

\* The next node takes one cache.
LEMMA GrowKeepsCaches ==
  ASSUME BufferInv, Grow
  PROVE  Forgotten' = Forgotten
<1>1. /\ held \in Int /\ Len(cache_list) \in Nat /\ Len(tmp_list) \in Nat /\ tmp_list \in Seq(Node)
      /\ cache_list' = cache_list /\ NewNode(put + 1) \in Node
  BY NodesAreNodes, NewNodeFacts DEF Grow, BufferInv, NodesInv, TypeOK
<1>2. CASE tmp_list' = Append(tmp_list, NewNode(put + 1)) /\ held' = held + 1
  <2>1. Len(tmp_list') = Len(tmp_list) + 1
    BY <1>1, <1>2
  <2> QED BY <1>1, <1>2, <2>1 DEF Forgotten
<1>3. CASE tmp_list' = tmp_list /\ held' = held
  BY <1>1, <1>3 DEF Forgotten
<1> QED BY <1>2, <1>3 DEF Grow

\* The end of a call forgets its nodes only if it is a read that has stored nothing.
LEMMA MergeCaches ==
  ASSUME BufferInv, Merge, ~(op = "read_into" /\ ret = 0)
  PROVE  Forgotten' = Forgotten
<1>0. /\ TypeOK /\ UseInv /\ Appending /\ pc = "merge" /\ held' = held /\ tmp_list' = <<>>
      /\ cache_list' = IF ret > 0 THEN cache_list \o tmp_list ELSE cache_list
  BY DEF Merge, Returns, BufferInv, NodesInv, InUse, Appending, Splice
<1>1. /\ held \in Int /\ Len(cache_list) \in Nat /\ Len(tmp_list) \in Nat
      /\ cache_list \in Seq(Node) /\ tmp_list \in Seq(Node) /\ ret \in Int
  BY <1>0, NodesAreNodes DEF TypeOK
<1>2. /\ ret = already /\ 0 <= already /\ op \in {"read_into", "write_into"}
      /\ op = "write_into" => already > 0
  BY <1>0 DEF UseInv, AppendState
<1>3. ret > 0
  BY <1>1, <1>2
<1>4. Len(cache_list') = Len(cache_list) + Len(tmp_list) /\ Len(tmp_list') = 0
  BY <1>0, <1>1, <1>3
<1> QED BY <1>0, <1>1, <1>4 DEF Forgotten

\* A failed read() gives back the caches of its call.
LEMMA ReadErrorKeepsCaches ==
  ASSUME BufferInv, ReadError
  PROVE  Forgotten' = Forgotten
<1>0. /\ TypeOK /\ held' = held - Len(tmp_list) /\ tmp_list' = <<>>
      /\ cache_list # <<>> => cache_list' = EndAt(cache_list, last_w_offset)
      /\ cache_list = <<>> => cache_list' = cache_list
  BY DEF BufferInv, NodesInv, ReadError, RestoredEnd, TmpRecycled, Returns
<1>1. /\ held \in Int /\ Len(cache_list) \in Nat /\ Len(tmp_list) \in Nat
      /\ cache_list \in Seq(Node) /\ last_w_offset \in Int
  BY <1>0, NodesAreNodes DEF TypeOK
<1>2. Len(cache_list') = Len(cache_list)
  <2>1. CASE cache_list # <<>>
    BY <1>0, <1>1, <2>1, FillFacts
  <2>2. CASE cache_list = <<>>
    BY <1>0, <2>2
  <2> QED BY <2>1, <2>2
<1>3. Len(tmp_list') = 0
  BY <1>0
<1> QED BY <1>0, <1>1, <1>2, <1>3 DEF Forgotten

\* A node that leaves the list gives back its cache.
LEMMA HandOutKeepsCaches ==
  ASSUME TypeOK, cache_list # <<>>, NEW k \in Int, HandOut(k), tmp_list' = tmp_list
  PROVE  Forgotten' = Forgotten
<1>1. /\ held \in Int /\ Len(cache_list) \in Nat /\ Len(tmp_list) \in Nat /\ cache_list \in Seq(Node)
  BY NodesAreNodes DEF TypeOK
<1>2. First.r_offset + k \in Int
  BY <1>1, NodeFacts DEF First
<1>3. CASE cache_list' = Tail(cache_list) /\ held' = held - 1
  <2>1. Len(cache_list') = Len(cache_list) - 1
    BY <1>1, <1>3, TailFacts
  <2> QED BY <1>1, <1>3, <2>1 DEF Forgotten
<1>4. CASE cache_list' = StartAt(cache_list, First.r_offset + k) /\ held' = held
  <2>1. Len(cache_list') = Len(cache_list)
    BY <1>1, <1>2, <1>4, StartFacts
  <2> QED BY <1>4, <2>1 DEF Forgotten
<1> QED BY <1>3, <1>4 DEF HandOut, Drop

\* A failed write() takes and gives back no cache.
LEMMA WriteErrorKeepsCaches ==
  ASSUME BufferInv, WriteError
  PROVE  Forgotten' = Forgotten
<1>0. /\ TypeOK /\ UseInv /\ held' = held /\ cache_list # <<>> /\ pc = "write"
      /\ cache_list' = StartAt(cache_list, First.r_offset - 1)
      /\ tmp_list' = tmp_list \/ tmp_list' = <<>>
  BY DEF WriteError, BufferInv, NodesInv, StepBack, Returns, InUse
<1>1. tmp_list' = tmp_list
  BY <1>0 DEF UseInv, AtRest, Appending
<1>2. cache_list \in Seq(Node) /\ First.r_offset - 1 \in Int
  BY <1>0, NodeFacts DEF First, TypeOK
<1>3. Len(cache_list') = Len(cache_list)
  BY <1>0, <1>2, StartFacts
<1> QED BY <1>0, <1>1, <1>3 DEF Forgotten

\* destroy_buffer gives back the caches of the buffer.
LEMMA DestroyKeepsCaches ==
  ASSUME BufferInv, destroy_buffer
  PROVE  Forgotten' = Forgotten
<1>1. held \in Int /\ Len(cache_list) \in Nat /\ Len(tmp_list) \in Nat
  BY NodesAreNodes DEF BufferInv, NodesInv, TypeOK
<1>2. cache_list' = <<>> /\ held' = held - Len(cache_list) /\ tmp_list' = tmp_list
  BY DEF destroy_buffer
<1>3. Len(cache_list') = 0
  BY <1>2
<1> QED BY <1>1, <1>2, <1>3 DEF Forgotten

\* The only step that loses a cache is the end of a read_into_buffer that stored nothing.
THEOREM LosesCachesOnlyOnEmptyRead == Spec => CachesLostOnlyByEmptyRead
<1>1. ASSUME BufferInv, [Next]_vars
      PROVE  [Forgotten' = Forgotten \/ (pc = "merge" /\ op = "read_into" /\ ret = 0)]_vars
  <2>1. CASE read_into_buffer \/ write_into_buffer
    BY <1>1, <2>1, AppendKeepsCaches DEF read_into_buffer, write_into_buffer
  <2>2. CASE Merge
    BY <1>1, <2>2, MergeCaches DEF Merge
  <2>3. CASE CopyStep \/ WriteStep
    <3>1. TypeOK /\ cache_list # <<>> /\ tmp_list' = tmp_list
      BY <1>1, <2>3 DEF BufferInv, NodesInv, CopyStep, WriteStep
    <3>2. PICK k \in Nat : HandOut(k)
      BY <1>1, <2>3, StepsHandOut
    <3> QED BY <3>1, <3>2, HandOutKeepsCaches
  <2>4. CASE Return
    <3>1. tmp_list = <<>> /\ tmp_list' = <<>> /\ UNCHANGED <<held, cache_list>>
      BY <1>1, <2>4 DEF Return, Returns, BufferInv, NodesInv, InUse, UseInv, AtRest, Appending
    <3> QED BY <3>1 DEF Forgotten
  <2>5. CASE \/ AppendNothing \/ read_from_buffer \/ flush_messages \/ MeasureStep \/ MeasureEnd
             \/ CopyNoMemory
    <3>1. UNCHANGED <<held, cache_list, tmp_list>>
      BY <2>5 DEF AppendNothing, read_from_buffer, flush_messages, Measure, MeasureStep, MeasureEnd,
                  CopyNoMemory
    <3> QED BY <3>1 DEF Forgotten
  <2> QED BY <1>1, <2>1, <2>2, <2>3, <2>4, <2>5, AppendStepKeepsCaches, GrowKeepsCaches,
             ReadErrorKeepsCaches, WriteErrorKeepsCaches, DestroyKeepsCaches
      DEF Next
<1> QED BY <1>1, BufferInvariant, PTL DEF Spec, CachesLostOnlyByEmptyRead
-----------------------------------------------------------------------------
(* The buffer implements the queue of ByteQueue *)

\* The last byte of the calls that have returned.
Accepted == IF Appending THEN had[1] ELSE put

\* What the nodes hold of those calls, as two numbers.
StoredInv == Stored = IF Intact THEN Accepted - got ELSE 0

\* The nodes hold the bytes between the last that left and the last accepted.
LEMMA StoredIsBetween == BufferInv => StoredInv
<1> SUFFICES ASSUME BufferInv PROVE StoredInv
  OBVIOUS
<1>1. CASE ~Intact
  BY <1>1 DEF StoredInv, Stored
<1>2. CASE Intact /\ NoNodes
  <2>1. FrontByte = got + 1 /\ ~Appending /\ put \in Int /\ got \in Int
    BY <1>2 DEF BufferInv, NodesInv, Intact, UseInv, FrontInv, TypeOK
  <2>2. put - got = 0 - 0
    BY <1>2, <2>1 DEF FrontByte
  <2> QED BY <1>2, <2>1, <2>2 DEF StoredInv, Stored, Accepted
<1>3. CASE Intact /\ ~NoNodes
  <2>1. TypeOK /\ UseInv /\ torn = 0
    BY <1>3 DEF BufferInv, NodesInv, Intact
  <2>2. /\ put \in Int /\ got \in Int /\ had[1] \in Int
        /\ cache_list \in Seq(Node) /\ tmp_list \in Seq(Node)
    BY <2>1 DEF TypeOK
  <2>3. Current.base \in Int /\ Current.w_offset \in Int
    BY <1>3, <2>2, NodeFacts DEF Current, NoNodes
  <2>4. Front.base \in Int /\ Front.r_offset \in Int
    BY <1>3, <2>2, NodeFacts DEF Front, First, NoNodes
  <2>5. Front.base + Front.r_offset = got + 1 /\ Current.base + Current.w_offset = put + 1
    BY <1>3, <2>1 DEF UseInv, FrontInv, FrontByte, BackIsLast, Intact
  <2>6. Current.base + Current.w_offset - Front.base - Front.r_offset = put - got
    <3> DEFINE a == Current.base
               b == Current.w_offset
               c == Front.base
               d == Front.r_offset
    <3>1. a \in Int /\ b \in Int /\ c \in Int /\ d \in Int /\ c + d = got + 1 /\ a + b = put + 1
      BY <2>3, <2>4, <2>5
    <3> HIDE DEF a, b, c, d
    <3>2. a + b - c - d = put - got
      BY <2>2, <3>1
    <3> QED BY <3>2 DEF a, b, c, d
  <2>7. (put - got) - (put - had[1]) = had[1] - got /\ (put - got) - 0 = put - got
    BY <2>2
  <2> QED BY <1>3, <2>6, <2>7 DEF StoredInv, Stored, Accepted
<1> QED BY <1>1, <1>2, <1>3

\* The queue does not move when neither end of it does.
LEMMA QueueUnmoved ==
  ASSUME StoredInv, StoredInv', Intact, Intact', got' = got, Accepted' = Accepted
  PROVE  UNCHANGED <<Intact, got, Stored>>
<1>1. Stored = Accepted - got /\ Stored' = Accepted' - got'
  BY DEF StoredInv
<1>2. Intact' = Intact
  BY DEF Intact
<1> QED BY <1>1, <1>2

\* The queue ends with the step after which the buffer is no longer intact.
LEMMA QueueEnds ==
  ASSUME StoredInv', Intact, ~Intact', got' = got
  PROVE  Queue!Destroy
<1>1. Stored' = 0
  BY DEF StoredInv
<1>2. Intact' = FALSE
  BY DEF Intact
<1> QED BY <1>1, <1>2 DEF Queue!Destroy

\* A buffer that is not intact never becomes so again.
LEMMA StaysClosed ==
  ASSUME BufferInv, [Next]_vars, ~Intact
  PROVE  ~Intact'
<1>1. torn' = torn \/ torn' = torn + 1
  BY DEF Next, vars, read_into_buffer, write_into_buffer, Append_, AppendStep, AppendNothing, Grow,
         Merge, ReadError, read_from_buffer, flush_messages, Measure, MeasureStep, MeasureEnd,
         CopyNoMemory, CopyStep, WriteStep, WriteError, Return, destroy_buffer
<1>2. CASE torn # 0
  <2>1. torn \in Nat
    BY DEF BufferInv, NodesInv, TypeOK
  <2> QED BY <1>1, <1>2, <2>1 DEF Intact
<1>3. CASE ~InUse
  <2>1. pc' = pc
    BY <1>3
    DEF InUse, Next, vars, read_into_buffer, write_into_buffer, Append_, AppendStep, AppendNothing,
        Grow, Merge, ReadError, read_from_buffer, flush_messages, Measure, MeasureStep, MeasureEnd,
        CopyNoMemory, CopyStep, WriteStep, WriteError, Return, destroy_buffer
  <2> QED BY <1>3, <2>1 DEF Intact, InUse
<1> QED BY <1>2, <1>3 DEF Intact

\* Every step of the buffer is a step of the queue, or leaves the queue as it is.
LEMMA StepsOfTheQueue ==
  ASSUME BufferInv, BufferInv', StoredInv, StoredInv', [Next]_vars
  PROVE  [Queue!Next]_<<Intact, got, Stored>>
<1>t. /\ put \in Int /\ got \in Int /\ already \in Int /\ had[1] \in Int /\ size \in 0..MaxOp
      /\ cache_list \in Seq(Node) /\ torn \in Nat
  BY DEF BufferInv, NodesInv, TypeOK
<1>1. CASE ~Intact
  <2>1. ~Intact'
    BY <1>1, StaysClosed
  <2>2. Stored = 0 /\ Stored' = 0
    BY <1>1, <2>1 DEF StoredInv
  <2>3. Intact' = Intact
    BY <1>1, <2>1 DEF Intact
  <2> QED BY <1>1, <2>2, <2>3 DEF Queue!Next, Queue!Closed
<1>2. CASE Intact
  <2>0. UseInv /\ InUse /\ torn = 0
    BY <1>2 DEF BufferInv, NodesInv, Intact
  <2>1. CASE read_into_buffer \/ write_into_buffer
    <3>1. PICK o, n : Append_(o, n)
      BY <2>1 DEF read_into_buffer, write_into_buffer
    <3>2. /\ pc = "idle" /\ UNCHANGED <<put, got, torn, stray>>
          /\ \/ pc' = "append" /\ had' = <<put, got>>
             \/ pc' = pc
      BY <3>1 DEF Append_
    <3>3. Intact' /\ Accepted' = Accepted
      BY <2>0, <3>2 DEF Intact, InUse, Accepted, Appending
    <3> QED BY <1>2, <3>2, <3>3, QueueUnmoved
  <2>2. CASE AppendStep \/ AppendNothing \/ Grow
    <3>1. /\ pc \in {"append", "grow"} /\ pc' \in {"append", "grow", "merge"}
          /\ UNCHANGED <<had, got, torn, stray>>
      BY <2>2 DEF AppendStep, AppendNothing, Grow
    <3>2. Intact' /\ Accepted' = Accepted
      BY <2>0, <3>1 DEF Intact, InUse, Accepted, Appending
    <3> QED BY <1>2, <3>1, <3>2, QueueUnmoved
  <2>3. CASE Merge
    <3>1. pc = "merge" /\ pc' = "idle" /\ UNCHANGED <<put, got, torn, stray>>
      BY <2>3 DEF Merge
    <3>2. Intact' /\ Accepted = had[1] /\ Accepted' = put
      BY <2>0, <3>1 DEF Intact, InUse, Accepted, Appending
    <3>3. already = put - had[1] /\ 0 <= already /\ already <= size
      BY <2>0, <3>1 DEF UseInv, AppendState, Appending
    <3>4. Stored = had[1] - got /\ Stored' = put - got
      BY <1>2, <3>1, <3>2 DEF StoredInv
    <3>5. CASE already = 0
      <4>1. put = had[1]
        BY <1>t, <3>3, <3>5
      <4> QED BY <1>2, <3>1, <3>2, <4>1, QueueUnmoved
    <3>6. CASE already # 0
      <4>1. already \in 1..MaxOp /\ Stored' = Stored + already
        <5>1. already \in 1..MaxOp
          BY <1>t, <3>3, <3>6, BufferAssumption
        <5>2. put - got = (had[1] - got) + (put - had[1])
          BY <1>t
        <5> QED BY <3>3, <3>4, <5>1, <5>2
      <4>2. Intact' = Intact
        BY <1>2, <3>2 DEF Intact
      <4> QED BY <1>2, <3>1, <4>1, <4>2 DEF Queue!Next, Queue!Put
    <3> QED BY <3>5, <3>6
  <2>4. CASE ReadError
    <3>1. /\ pc = "append" /\ put' = had[1] /\ UNCHANGED <<got, torn, stray>>
          /\ pc' \in {"corrupt", "idle"}
      BY <2>4 DEF ReadError
    <3>2. CASE pc' = "corrupt"
      BY <1>2, <3>1, <3>2, QueueEnds DEF Intact, InUse, Queue!Next
    <3>3. CASE pc' = "idle"
      <4>1. Intact' /\ Accepted' = Accepted
        BY <2>0, <3>1, <3>3 DEF Intact, InUse, Accepted, Appending
      <4> QED BY <1>2, <3>1, <4>1, QueueUnmoved
    <3> QED BY <3>1, <3>2, <3>3
  <2>5. CASE read_from_buffer \/ flush_messages \/ MeasureStep \/ MeasureEnd \/ Return
    <3>1. /\ pc \in {"idle", "measure", "copy", "write"} /\ pc' \in {"idle", "measure", "copy", "write"}
          /\ UNCHANGED <<put, got, torn, stray>>
      BY <2>5 DEF read_from_buffer, flush_messages, Measure, MeasureStep, MeasureEnd, Return
    <3>2. Intact' /\ Accepted' = Accepted
      BY <2>0, <3>1 DEF Intact, InUse, Accepted, Appending
    <3> QED BY <1>2, <3>1, <3>2, QueueUnmoved
  <2>6. CASE CopyStep \/ WriteStep
    <3>1. PICK k \in Nat : HandOut(k)
      BY <2>6, StepsHandOut
    <3>2. pc \in {"copy", "write"} /\ cache_list # <<>> /\ UNCHANGED <<pc, put, torn>>
      BY <2>6 DEF CopyStep, WriteStep
    <3>3. Intact' /\ Accepted = put /\ Accepted' = put
      BY <2>0, <3>2 DEF Intact, InUse, Accepted, Appending
    <3>4. First.base + First.r_offset = got + 1 /\ First.base \in Int /\ First.r_offset \in Int
      <4>1. FrontByte = got + 1 /\ ~NoNodes /\ Front = First
        BY <2>0, <3>2 DEF UseInv, FrontInv, NoNodes, Front
      <4>2. First.base \in Int /\ First.r_offset \in Int
        BY <1>t, <3>2, NodeFacts DEF First
      <4> QED BY <4>1, <4>2 DEF FrontByte
    <3>5. got' = got + k
      <4>1. 0 <= First.r_offset
        BY <1>t, <2>0, <3>2, NodeFacts DEF UseInv, Chain, First
      <4>2. Before(First.r_offset) = 0
        BY <3>4, <4>1 DEF Before
      <4>3. got' = IF k <= 0 THEN got ELSE First.base + First.r_offset + k - 1
        BY <3>1, <4>2 DEF HandOut, Sends
      <4> QED BY <1>t, <3>4, <4>3
    <3>6. Stored = put - got /\ Stored' = put - got'
      BY <1>2, <3>2, <3>3 DEF StoredInv
    <3>7. got' <= put
      <4>1. UseInv' /\ ~Appending'
        BY <3>2, <3>3 DEF BufferInv, NodesInv, Intact, Appending
      <4> QED BY <3>2, <4>1 DEF UseInv, FrontInv
    <3>8. CASE k = 0
      <4>1. got' = got
        BY <1>t, <3>5, <3>8
      <4> QED BY <1>2, <3>3, <4>1, QueueUnmoved
    <3>9. CASE k # 0
      <4>1. k \in 1..Stored /\ Stored' = Stored - k
        BY <1>t, <3>5, <3>6, <3>7, <3>9
      <4>2. Intact' = Intact
        BY <1>2, <3>3 DEF Intact
      <4> QED BY <1>2, <3>5, <4>1, <4>2 DEF Queue!Next, Queue!Get
    <3> QED BY <3>8, <3>9
  <2>7. CASE WriteError
    <3>1. torn' # 0 /\ got' = got
      BY <1>t, <2>7 DEF WriteError
    <3> QED BY <1>2, <3>1, QueueEnds DEF Intact, Queue!Next
  <2>8. CASE destroy_buffer
    <3>1. pc' = "destroyed" /\ got' = got
      BY <2>8 DEF destroy_buffer
    <3> QED BY <1>2, <3>1, QueueEnds DEF Intact, InUse, Queue!Next
  <2>9. CASE CopyNoMemory
    <3>1. pc' = "crashed" /\ got' = got
      BY <2>9 DEF CopyNoMemory
    <3> QED BY <1>2, <3>1, QueueEnds DEF Intact, InUse, Queue!Next
  <2>10. CASE UNCHANGED vars
    <3>1. Intact' /\ Accepted' = Accepted /\ got' = got
      BY <1>2, <2>10 DEF vars, Intact, InUse, Accepted, Appending
    <3> QED BY <1>2, <3>1, QueueUnmoved
  <2> QED BY <2>1, <2>2, <2>3, <2>4, <2>5, <2>6, <2>7, <2>8, <2>9, <2>10 DEF Next
<1> QED BY <1>1, <1>2

\* The buffer implements the abstract queue: what goes in comes out once and in order, and
\* the bytes of a call count, all at once, when it returns.
THEOREM BufferIsAQueue == Spec => QueueSpec
<1>1. Init => Queue!Init
  <2> SUFFICES ASSUME Init PROVE Queue!Init
    OBVIOUS
  <2>1. Intact = TRUE /\ got = 0
    BY DEF Init, Intact, InUse
  <2>2. Stored = 0
    BY DEF Init, Stored, NoNodes, Appending
  <2> QED BY <2>1, <2>2 DEF Queue!Init
<1> QED BY <1>1, BufferInvariant, StoredIsBetween, StepsOfTheQueue, PTL
        DEF Spec, QueueSpec, Queue!Spec
=============================================================================
