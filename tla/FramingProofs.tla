--------------------------- MODULE FramingProofs ----------------------------
(***************************************************************************)
(* The properties of Framing, for every node size and every stream.        *)
(***************************************************************************)
EXTENDS Framing, TLAPS

\* The inductive invariant: the next byte to be read is in the first node, the stream fits
\* size_t, and the loop of try_to_handle_msg leaves a line only if it is blocked.
FramingInv ==
  /\ TypeOK /\ sent <= MaxBytes
  /\ got < put => base <= got + 1 /\ got + 1 <= base + CACHE_SIZE - 1
  /\ LeftOnlyIfBlocked

-----------------------------------------------------------------------------
(* What fetch_msg_from_client takes *)

\* size_t arithmetic does not wrap below the number of its values.
LEMMA NoWrap == \A a \in 0..(SizeT - 1) : a % SizeT = a
  BY FramingAssumption

\* The size computed from SIZE_MAX, "not found", wraps to 0.
LEMMA Wraps == (SizeT - 1 + 1) % SizeT = 0
  BY FramingAssumption

\* A message that fetch_msg_from_client returns ends with the first '\n' of the first node.
LEMMA TakesFirstLine ==
  ASSUME FramingInv, NEW i \in 0..(SizeT - 1), find_in_buffer(i), Taken(ReadSize(i)) > 0
  PROVE  /\ got + Taken(ReadSize(i)) \in Visible
         /\ \A f \in Visible : got + Taken(ReadSize(i)) <= f
<1> USE FramingAssumption DEF FramingInv, TypeOK
<1>1. CASE got = put
  <2>1. i = 0
    BY <1>1 DEF find_in_buffer
  <2>2. ReadSize(i) = 1
    BY <2>1, NoWrap DEF ReadSize
  <2> QED BY <1>1, <2>2 DEF Taken
<1>2. CASE got # put /\ Visible = {}
  <2>1. i = SizeT - 1
    BY <1>2 DEF find_in_buffer
  <2>2. ReadSize(i) = 0
    BY <2>1, Wraps DEF ReadSize
  <2> QED BY <1>2, <2>2 DEF Taken
<1>3. CASE got # put /\ Visible # {}
  <2>1. PICK e \in Visible : (\A f \in Visible : e <= f) /\ i = e - got - 1
    BY <1>3 DEF find_in_buffer
  <2>2. e \in Nat /\ got < e /\ e <= put /\ put <= MaxBytes
    BY <2>1 DEF Visible, FirstNodeEnd
  <2>3. ReadSize(i) = e - got
    BY <2>1, <2>2, NoWrap DEF ReadSize
  <2>4. got + Taken(ReadSize(i)) = e
    BY <2>2, <2>3 DEF Taken
  <2> QED BY <2>1, <2>4
<1> QED BY <1>1, <1>2, <1>3

\* When it returns nothing, there is no '\n' in the first node, or no node.
LEMMA TakesNothing ==
  ASSUME FramingInv, NEW i \in 0..(SizeT - 1), find_in_buffer(i), Taken(ReadSize(i)) = 0
  PROVE  got = put \/ Visible = {}
<1> USE FramingAssumption DEF FramingInv, TypeOK
<1> SUFFICES ASSUME got # put, Visible # {} PROVE FALSE
  OBVIOUS
<1>1. PICK e \in Visible : i = e - got - 1
  BY DEF find_in_buffer
<1>2. e \in Nat /\ got < e /\ e <= put /\ put <= MaxBytes
  BY <1>1 DEF Visible, FirstNodeEnd
<1>3. ReadSize(i) = e - got
  BY <1>1, <1>2, NoWrap DEF ReadSize
<1> QED BY <1>2, <1>3 DEF Taken

\* A step of fetch_msg_from_client moves got to the next '\n', inside the first node.
LEMMA FetchMsgStep ==
  ASSUME FramingInv, FetchMsg
  PROVE  /\ got' \in lineEnds /\ got < got' /\ got' <= put /\ got' <= base + CACHE_SIZE - 1
         /\ \A e \in lineEnds : got < e => got' <= e
<1> USE FramingAssumption DEF FramingInv, TypeOK
<1>1. PICK i \in 0..(SizeT - 1) :
        find_in_buffer(i) /\ Taken(ReadSize(i)) > 0 /\ got' = got + Taken(ReadSize(i))
  BY DEF FetchMsg
<1>2. got' \in Visible /\ \A f \in Visible : got' <= f
  BY <1>1, TakesFirstLine
<1>3. got' \in lineEnds /\ got < got' /\ got' <= FirstNodeEnd
  BY <1>2 DEF Visible
<1>4. got' <= put /\ got' <= base + CACHE_SIZE - 1
  BY <1>3 DEF FirstNodeEnd
<1>5. ASSUME NEW e \in lineEnds, got < e PROVE got' <= e
  <2>1. CASE e \in Visible
    BY <2>1, <1>2
  <2>2. CASE e \notin Visible
    <3> SUFFICES ASSUME e < got' PROVE FALSE
      BY <1>3, <1>5
    <3>1. e <= FirstNodeEnd /\ StopsBefore(e)
      BY <1>3, <1>4, <1>5, <2>2 DEF Visible, FirstNodeEnd
    <3>2. ~StopsBefore(got')
      BY <1>2 DEF Visible
    <3> QED BY <1>3, <3>1, <3>2 DEF StopsBefore
  <2> QED BY <2>1, <2>2
<1> QED BY <1>3, <1>4, <1>5

\* fetch_msg_from_client finds nothing to do with a line that runs over the first node or
\* has a NUL byte in it.
LEMMA BlockedStops ==
  ASSUME FramingInv, Blocked
  PROVE  ~FetchMsg
<1> SUFFICES ASSUME FetchMsg PROVE FALSE
  OBVIOUS
<1>1. got' \in lineEnds /\ got < got' /\ got' <= base + CACHE_SIZE - 1
  BY FetchMsgStep
<1>2. got' \in Visible
  BY TakesFirstLine DEF FetchMsg
<1>3. ~StopsBefore(got')
  BY <1>2 DEF Visible
<1> QED BY <1>1, <1>3, FramingAssumption DEF Blocked, StopsBefore, FramingInv, TypeOK

-----------------------------------------------------------------------------
(* The invariant *)

\* A new connection satisfies it.
LEMMA InitInv == Init => FramingInv
  BY FramingAssumption DEF Init, FramingInv, TypeOK, LeftOnlyIfBlocked

\* A line that is blocked stays so after anything the peer sends and anything the server
\* reads.
LEMMA BlockedStays ==
  ASSUME FramingInv, Blocked, [Next]_vars
  PROVE  got' = got /\ Blocked'
<1> USE FramingAssumption DEF FramingInv, TypeOK
<1>1. CASE SendLine
  <2>1. PICK n \in 1..MaxLine : sent' = sent + n /\ lineEnds' = lineEnds \cup {sent + n}
    BY <1>1 DEF SendLine
  <2>2. nuls \subseteq nuls' /\ UNCHANGED <<put, got, base>> /\ n \in Nat \ {0}
    BY <1>1 DEF SendLine
  <2>3. PICK f \in lineEnds : got < f
    BY DEF Blocked
  <2>4. f > base + CACHE_SIZE - 1 \/ \E z \in nuls : got < z /\ z < f
    BY <2>3 DEF Blocked
  <2>5. sent + n > f
    BY <2>2, <2>3
  <2>6. sent + n > base + CACHE_SIZE - 1 \/ \E z \in nuls' : got < z /\ z < sent + n
    BY <2>2, <2>3, <2>4, <2>5
  <2>7. \A e \in lineEnds : got < e => e > base + CACHE_SIZE - 1 \/ \E z \in nuls' : got < z /\ z < e
    BY <2>2 DEF Blocked
  <2> QED BY <2>1, <2>2, <2>3, <2>6, <2>7 DEF Blocked
<1>2. CASE Fetch
  BY <1>2 DEF Fetch, Blocked
<1>3. CASE FetchMsg
  BY <1>3, BlockedStops
<1>4. CASE Close \/ FetchError \/ FetchNothing \/ FetchNoMsg \/ UNCHANGED vars
  BY <1>4 DEF Close, FetchError, FetchNothing, FetchNoMsg, Blocked, vars
<1> QED BY <1>1, <1>2, <1>3, <1>4 DEF Next

\* Every step keeps the invariant.
LEMMA NextInv ==
  ASSUME FramingInv, [Next]_vars
  PROVE  FramingInv'
<1> USE FramingAssumption
<1>1. CASE SendLine
  <2>1. PICK n \in 1..MaxLine :
          sent + n <= MaxBytes /\ sent' = sent + n /\ lineEnds' = lineEnds \cup {sent + n}
    BY <1>1 DEF SendLine
  <2>2. UNCHANGED <<pc, peer, put, got, base>>
    BY <1>1 DEF SendLine
  <2>3. TypeOK'
    <3>1. sent \in Nat /\ sent' \in Nat /\ sent <= sent' /\ nuls \subseteq 1..sent
      BY <2>1 DEF FramingInv, TypeOK
    <3>2. \A z \in nuls' : z \in nuls \/ z \in 1..sent'
      BY <1>1, <3>1 DEF SendLine
    <3>3. \A z \in 1..sent : z \in 1..sent'
      BY <3>1
    <3>4. nuls' \subseteq 1..sent'
      BY <3>1, <3>2, <3>3, Zenon
    <3> QED BY <2>1, <2>2, <3>4 DEF FramingInv, TypeOK
  <2>4. LeftOnlyIfBlocked'
    <3> SUFFICES ASSUME pc = "poll", NEW e \in lineEnds', got < e, e <= put PROVE Blocked'
      BY <2>2 DEF LeftOnlyIfBlocked
    <3>1. e \in lineEnds
      BY <2>1 DEF FramingInv, TypeOK
    <3>2. Blocked
      BY <3>1 DEF FramingInv, LeftOnlyIfBlocked
    <3> QED BY <3>2, BlockedStays
  <2> QED BY <2>1, <2>2, <2>3, <2>4 DEF FramingInv
<1>2. CASE Fetch
  BY <1>2 DEF Fetch, FramingInv, TypeOK, LeftOnlyIfBlocked
<1>3. CASE FetchMsg
  <2>1. got < got' /\ got' <= put /\ got' <= base + CACHE_SIZE - 1 /\ got' \in lineEnds
    BY <1>3, FetchMsgStep
  <2>2. base' = (IF got' = base + CACHE_SIZE - 1 THEN base + CACHE_SIZE ELSE base)
    BY <1>3 DEF FetchMsg
  <2> QED BY <1>3, <2>1, <2>2 DEF FetchMsg, FramingInv, TypeOK, LeftOnlyIfBlocked
<1>4. CASE FetchNoMsg
  <2>1. got = put \/ Visible = {}
    BY <1>4, TakesNothing DEF FetchNoMsg
  <2>2. LeftOnlyIfBlocked'
    <3> SUFFICES ASSUME NEW e \in lineEnds, got < e, e <= put PROVE Blocked
      BY <1>4 DEF FetchNoMsg, LeftOnlyIfBlocked, Blocked
    <3>1. Visible = {} /\ got < put
      BY <2>1 DEF FramingInv, TypeOK
    <3>2. e \in Nat /\ put \in Nat /\ got \in Nat /\ base \in Nat /\ lineEnds \subseteq Nat
      BY DEF FramingInv, TypeOK
    <3>3. ASSUME NEW f \in lineEnds, got < f, f <= base + CACHE_SIZE - 1 PROVE StopsBefore(f)
      <4>1. CASE f <= put
        BY <3>1, <3>2, <3>3, <4>1 DEF Visible, FirstNodeEnd
      <4>2. CASE put < f
        <5>1. e <= FirstNodeEnd /\ e < f
          BY <3>2, <3>3, <4>2 DEF FirstNodeEnd
        <5>2. StopsBefore(e)
          BY <3>1, <5>1 DEF Visible
        <5> QED BY <3>2, <5>1, <5>2 DEF StopsBefore, FramingInv, TypeOK
      <4> QED BY <3>2, <4>1, <4>2
    <3> QED BY <3>1, <3>2, <3>3 DEF Blocked, StopsBefore
  <2> QED BY <1>4, <2>2 DEF FetchNoMsg, FramingInv, TypeOK
<1>5. CASE Close \/ FetchError \/ FetchNothing \/ UNCHANGED vars
  BY <1>5 DEF Close, FetchError, FetchNothing, vars, FramingInv, TypeOK, LeftOnlyIfBlocked,
              Blocked
<1> QED BY <1>1, <1>2, <1>3, <1>4, <1>5 DEF Next

\* FramingInv holds throughout.
THEOREM FramingInvariant == Spec => []FramingInv
  BY InitInv, NextInv, PTL DEF Spec

-----------------------------------------------------------------------------
(* The properties *)

\* When the reading thread is back at poll(), the only complete lines left in the buffer
\* are behind one that find_in_buffer cannot find: it runs over the end of the first node,
\* or there is a NUL byte in it.
THEOREM OnlyBlockedLeft == Spec => []LeftOnlyIfBlocked
<1>1. FramingInv => LeftOnlyIfBlocked
  BY DEF FramingInv
<1> QED BY <1>1, FramingInvariant, PTL

\* fetch_msg_from_client returns exactly the next line, every time, in order.
THEOREM LinesInOrder == Spec => LineByLine
<1>1. ASSUME FramingInv, [Next]_vars
      PROVE  [got' # got => /\ got' \in lineEnds /\ got < got'
                            /\ \A e \in lineEnds : got < e => got' <= e]_vars
  <2>1. CASE FetchMsg
    BY <1>1, <2>1, FetchMsgStep
  <2>2. CASE ~FetchMsg
    BY <1>1, <2>2 DEF Next, vars, SendLine, Close, Fetch, FetchError, FetchNothing, FetchNoMsg
  <2> QED BY <2>1, <2>2
<1> QED BY <1>1, FramingInvariant, PTL DEF Spec, LineByLine

\* A line that runs over the first node, or has a NUL byte in it, is never handled, nor is
\* any line after it.
THEOREM BlockedStaysBlocked == Spec => BlockedForEver
<1>1. ASSUME FramingInv, [Next]_vars PROVE [Blocked => got' = got /\ Blocked']_vars
  BY <1>1, BlockedStays
<1> QED BY <1>1, FramingInvariant, PTL DEF Spec, BlockedForEver

\* The reading buffer never runs ahead of what the peer has sent, nor the lines handled ahead
\* of what was read.
THEOREM FramingTypeCorrect == Spec => []TypeOK
<1>1. FramingInv => TypeOK
  BY DEF FramingInv
<1> QED BY <1>1, FramingInvariant, PTL
=============================================================================
