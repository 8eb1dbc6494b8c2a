------------------------------- MODULE Buffer -------------------------------
(***************************************************************************)
(* io/buffer.c: a byte queue kept in a list of nodes of CACHE_SIZE bytes.  *)
(*                                                                         *)
(* A byte is its position in the stream of the bytes the buffer keeps:     *)
(* a node that begins with byte `base' holds byte base + k at offset k;    *)
(* what lies before offset 0 is no byte of the stream.  (Bytes that a      *)
(* failing read_into_buffer took from the socket and does not keep are     *)
(* lost to the connection; the next ones it gets have their numbers.)      *)
(* Callers serialise the operations (the reading thread alone uses a       *)
(* reading buffer, a spin lock guards a writing buffer), so one operation  *)
(* runs at a time; a step is one iteration of one of its loops, because    *)
(* memory or the system call may fail in any of them.                      *)
(***************************************************************************)
EXTENDS Integers, Sequences

CONSTANTS
  CACHE_SIZE,   \* bytes in a node (512 in the code)
  MaxOp,        \* bound: bytes one call asks for
  MaxBytes,     \* bound: bytes accepted in a behaviour
  MaxHeld,      \* bound: caches held when a call begins
  MaxFaults,    \* bound: failures in a behaviour
  Faults        \* the failures that may happen: "alloc", "read", "write"

ASSUME BufferAssumption ==
  /\ CACHE_SIZE \in Nat \ {0} /\ MaxOp \in Nat /\ MaxBytes \in Nat
  /\ MaxHeld \in Nat /\ MaxFaults \in Nat
  /\ Faults \subseteq {"alloc", "read", "write"}

VARIABLES
  pc,               \* "idle" between operations, else the loop that runs
  op,               \* the operation
  size, already, expected,   \* its argument and counters
  cache_list,       \* the buffer
  tmp_list,         \* nodes read_into_buffer and write_into_buffer have not merged yet
  last_w_offset,    \* w_offset of the reused node, or -1
  index,            \* position of list_for_each
  put, got,         \* last byte accepted, last byte handed out
  had,              \* history: <<put, got>> when the operation began
  held,             \* caches obtained and not recycled
  ret,              \* what the last operation returned
  torn,             \* history: how many write() have failed
  stray,            \* history: how many bytes from before a cache have left
  faults

vars == <<pc, op, size, already, expected, cache_list, tmp_list, last_w_offset, index,
          put, got, had, held, ret, torn, stray, faults>>

Node == [base : Int, r_offset : Int, w_offset : Int]

\* Mutant: the bytes already read still count.
NodeFill(n)  == n.w_offset
NODE_SIZE(n) == n.w_offset - n.r_offset
LastOf(s)    == s[Len(s)]
Least(a, b)  == IF a < b THEN a ELSE b

TypeOK ==
  /\ pc \in {"idle", "append", "grow", "merge", "measure", "copy", "write", "corrupt",
          "crashed", "destroyed"}
  /\ op \in {"none", "read_into", "write_into", "read_from", "flush"}
  /\ size \in 0..MaxOp /\ already \in Int /\ expected \in Int
  /\ cache_list \in Seq(Node) /\ tmp_list \in Seq(Node)
  /\ last_w_offset \in Int
  /\ index \in Nat
  /\ put \in Int /\ got \in Int /\ had \in Int \X Int
  /\ held \in Int /\ ret \in Int /\ torn \in Nat /\ stray \in Nat
  /\ faults \in 0..MaxFaults

\* create_new_buffer
Init ==
  /\ pc = "idle" /\ op = "none" /\ size = 0 /\ already = 0 /\ expected = 0
  /\ cache_list = <<>> /\ tmp_list = <<>> /\ last_w_offset = -1 /\ index = 1
  /\ put = 0 /\ got = 0 /\ had = <<0, 0>> /\ held = 0 /\ ret = 0
  /\ torn = 0 /\ stray = 0 /\ faults = 0

\* An operation returns v; its local variables are gone.
Returns(v) ==
  /\ ret' = v /\ op' = "none" /\ size' = 0 /\ already' = 0 /\ expected' = 0
  /\ tmp_list' = <<>> /\ last_w_offset' = -1 /\ index' = 1 /\ had' = <<0, 0>>

Fault(kind) == kind \in Faults /\ faults < MaxFaults /\ faults' = faults + 1

-----------------------------------------------------------------------------
(* read_into_buffer and write_into_buffer: the same loop over another source. *)

NeedsNode == cache_list # <<>> => LastOf(cache_list).w_offset = CACHE_SIZE

NewNode(first) == [base |-> first, r_offset |-> 0, w_offset |-> 0]

\* The call up to the loop: take the last node if it has room, else a new one.
Append_(o, n) ==
  /\ pc = "idle" /\ held < MaxHeld
  /\ \/ /\ op' = o /\ size' = n /\ had' = <<put, got>> /\ pc' = "append"
        /\ IF NeedsNode
           THEN tmp_list' = <<NewNode(put + 1)>> /\ held' = held + 1 /\ UNCHANGED last_w_offset
           ELSE last_w_offset' = LastOf(cache_list).w_offset /\ UNCHANGED <<tmp_list, held>>
        /\ UNCHANGED <<already, expected, index, ret, faults>>
     \/ NeedsNode /\ Fault("alloc") /\ Returns(-1) /\ UNCHANGED <<pc, held>>
  /\ UNCHANGED <<cache_list, put, got, torn, stray>>

read_into_buffer  == \E n \in 0..MaxOp : put + n <= MaxBytes /\ Append_("read_into", n)
write_into_buffer == \E n \in 1..MaxOp : put + n <= MaxBytes /\ Append_("write_into", n)

\* The node being filled: the last of tmp_list, or the reused last node of the buffer.
Current == IF tmp_list # <<>> THEN LastOf(tmp_list) ELSE LastOf(cache_list)

\* The last node of a list gets another w_offset.
EndAt(s, w) == [s EXCEPT ![Len(s)] = [LastOf(s) EXCEPT !.w_offset = w]]

\* k more bytes go into the current node.
Fill(k) ==
  /\ put' = put + k /\ already' = already + k
  /\ IF tmp_list # <<>>
     THEN tmp_list' = EndAt(tmp_list, Current.w_offset + k) /\ UNCHANGED cache_list
     ELSE cache_list' = EndAt(cache_list, Current.w_offset + k) /\ UNCHANGED tmp_list

\* One iteration: memcpy takes the whole piece, read() may return less of it.
AppendStep ==
  /\ pc = "append" /\ already < size
  /\ LET piece == Least(size - already, CACHE_SIZE - Current.w_offset) IN
     \E k \in (IF op = "read_into" THEN 0..piece ELSE {piece}) :
       /\ Fill(k)
       /\ IF already + k = size \/ k < piece
          THEN ret' = already + k /\ pc' = "merge"
          ELSE pc' = "grow" /\ UNCHANGED ret
  /\ UNCHANGED <<op, size, expected, last_w_offset, index, got, had, held, faults, torn, stray>>

\* A call for nothing never enters the loop, and returns SUCC, which is 0.
AppendNothing ==
  /\ pc = "append" /\ size = 0 /\ ret' = 0 /\ pc' = "merge"
  /\ UNCHANGED <<op, size, already, expected, cache_list, tmp_list, last_w_offset, index, put,
                 got, had, held, faults, torn, stray>>

\* The next node; without memory the call returns what it has stored so far.
Grow ==
  /\ pc = "grow"
  /\ \/ /\ tmp_list' = Append(tmp_list, NewNode(put + 1)) /\ held' = held + 1
        /\ pc' = "append" /\ UNCHANGED <<ret, faults>>
     \/ /\ Fault("alloc") /\ ret' = already /\ pc' = "merge" /\ UNCHANGED <<tmp_list, held>>
  /\ UNCHANGED <<op, size, already, expected, cache_list, last_w_offset, index, put, got, had, torn, stray>>

\* Mutant: list_splice at the head of cache_list instead of its tail.
SpliceAtHead == tmp_list \o cache_list
Splice == cache_list \o tmp_list

\* tmp_list joins the buffer if something was stored; else it is forgotten.
Merge ==
  /\ pc = "merge" /\ pc' = "idle" /\ Returns(ret)
  /\ cache_list' = IF ret > 0 THEN Splice ELSE cache_list
  /\ UNCHANGED <<put, got, held, faults, torn, stray>>

\* Mutant: the nodes of tmp_list are forgotten.
TmpForgotten == held
\* The caches held after tmp_list has been recycled.
TmpRecycled == held - Len(tmp_list)

\* Mutant: what was read into the reused node stays in it.
UnrestoredEnd == LastOf(cache_list).w_offset
\* What w_offset of the last node is set to.
RestoredEnd == last_w_offset

\* read() fails: what the call has read before goes out of the buffer again, and is lost to
\* the connection, since the socket does not hold it any more.  last_w_offset is unsigned,
\* so the test for "the last node was used" always succeeds, and stores -1 when it was not
\* (or, with an empty list, overwrites the memory before the list head): the end of the model.
ReadError ==
  /\ pc = "append" /\ op = "read_into" /\ already < size /\ Fault("read")
  /\ put' = had[1] /\ held' = TmpRecycled /\ Returns(-1)
  /\ IF cache_list # <<>>
     THEN cache_list' = EndAt(cache_list, RestoredEnd)
     ELSE UNCHANGED cache_list
  /\ pc' = IF last_w_offset = -1 THEN "corrupt" ELSE "idle"
  /\ UNCHANGED <<got, torn, stray>>

-----------------------------------------------------------------------------
(* read_from_buffer, and write_from_buffer as flush_messages calls it. *)

\* read_from_buffer measures what it can read; flush_messages calls buffer_size.
Measure(o, n) ==
  /\ pc = "idle" /\ pc' = "measure" /\ op' = o /\ size' = n /\ had' = <<put, got>>
  /\ UNCHANGED <<already, expected, cache_list, tmp_list, last_w_offset, index, put, got, held,
                 ret, faults, torn, stray>>

read_from_buffer == \E n \in 0..MaxOp : Measure("read_from", n)
flush_messages   == Measure("flush", 0)

\* One node of the list; read_from_buffer stops when it has found enough.
MeasureStep ==
  /\ pc = "measure" /\ index \in DOMAIN cache_list
  /\ LET e == expected + NODE_SIZE(cache_list[index]) IN
     IF op = "read_from" /\ e >= size
     THEN expected' = size /\ pc' = "copy" /\ UNCHANGED index
     ELSE expected' = e /\ index' = index + 1 /\ UNCHANGED pc
  /\ UNCHANGED <<op, size, already, cache_list, tmp_list, last_w_offset, put, got, had, held,
                 ret, faults, torn, stray>>

MeasureEnd ==
  /\ pc = "measure" /\ index > Len(cache_list)
  /\ pc' = IF op = "read_from" THEN "copy" ELSE "write"
  /\ UNCHANGED <<op, size, already, expected, cache_list, tmp_list, last_w_offset, index, put,
                 got, had, held, ret, faults, torn, stray>>

First == Head(cache_list)

\* The first node of a list gets another r_offset.
StartAt(s, r) == [s EXCEPT ![1] = [Head(s) EXCEPT !.r_offset = r]]

\* Mutant: the read offset of a node that stays moves one byte too far.
DropOneMore(k) ==
  IF First.r_offset + k = First.w_offset
  THEN cache_list' = Tail(cache_list) /\ held' = held - 1
  ELSE cache_list' = StartAt(cache_list, First.r_offset + k + 1) /\ UNCHANGED held

\* k bytes leave the first node; an exhausted node leaves the list, its cache is recycled.
Drop(k) ==
  IF First.r_offset + k = First.w_offset
  THEN cache_list' = Tail(cache_list) /\ held' = held - 1
  ELSE cache_list' = StartAt(cache_list, First.r_offset + k) /\ UNCHANGED held

\* How many bytes before the cache lie from offset r on.
Before(r) == IF r < 0 THEN -r ELSE 0

\* k bytes go out from the read offset of the first node on; with a negative offset they
\* are whatever is in memory before the cache.
Sends(k) ==
  /\ got' = IF k <= Before(First.r_offset) THEN got ELSE First.base + First.r_offset + k - 1
  /\ stray' = stray + Least(k, Before(First.r_offset))

HandOut(k) == Sends(k) /\ already' = already + k /\ Drop(k)

\* malloc() of the result fails: memset through the null pointer ends the process.
CopyNoMemory ==
  /\ pc = "copy" /\ already = 0 /\ expected > 0 /\ Fault("alloc") /\ pc' = "crashed"
  /\ UNCHANGED <<op, size, already, expected, cache_list, tmp_list, last_w_offset, index, put,
                 got, had, held, ret, torn, stray>>

CopyStep ==
  /\ pc = "copy" /\ already < expected /\ cache_list # <<>>
  /\ HandOut(Least(NODE_SIZE(First), expected - already))
  /\ UNCHANGED <<pc, op, size, expected, tmp_list, last_w_offset, index, put, had, ret,
                 faults, torn>>

\* Mutant: a partial write() counts as the whole piece.
WriteUnchecked ==
  /\ pc = "write" /\ already < expected /\ cache_list # <<>>
  /\ LET piece == Least(NODE_SIZE(First), expected - already) IN
     \E k \in (IF piece = 0 THEN {0} ELSE 1..piece) :
       /\ Sends(k) /\ already' = already + piece /\ Drop(k)
  /\ UNCHANGED <<pc, op, size, expected, tmp_list, last_w_offset, index, put, had, ret,
                 faults, torn>>

\* write() may take only a part; of an empty node it takes nothing.
WriteStep ==
  /\ pc = "write" /\ already < expected /\ cache_list # <<>>
  /\ LET piece == Least(NODE_SIZE(First), expected - already) IN
     \E k \in (IF piece = 0 THEN {0} ELSE 1..piece) : HandOut(k)
  /\ UNCHANGED <<pc, op, size, expected, tmp_list, last_w_offset, index, put, had, ret,
                 faults, torn>>

\* Mutant: the byte that failed counts as written.
StepForward(r) == r + 1
\* r_offset += tmp_write_size, which is (size_t) -1.
StepBack(r) == r - 1

\* write() = -1 is added to the counters: r_offset goes back by one, before the cache when
\* it was 0, and the unsigned counter wraps, which ends the loop, only if nothing had been
\* written before.
WriteError ==
  /\ pc = "write" /\ already < expected /\ cache_list # <<>> /\ Fault("write") /\ torn' = torn + 1
  /\ cache_list' = StartAt(cache_list, StepBack(First.r_offset))
  /\ IF already = 0
     THEN pc' = "idle" /\ Returns(-1)
     ELSE /\ already' = already - 1
          /\ UNCHANGED <<pc, op, size, expected, tmp_list, last_w_offset, index, had, ret>>
  /\ UNCHANGED <<put, got, held, stray>>

\* The loop ends; its counter is the result.
Return ==
  /\ pc \in {"copy", "write"} /\ (already >= expected \/ cache_list = <<>>)
  /\ pc' = "idle" /\ Returns(already)
  /\ UNCHANGED <<cache_list, put, got, held, faults, torn, stray>>

destroy_buffer ==
  /\ pc = "idle" /\ pc' = "destroyed"
  /\ cache_list' = <<>> /\ held' = held - Len(cache_list)
  /\ UNCHANGED <<op, size, already, expected, tmp_list, last_w_offset, index, put, got, had, ret,
                 faults, torn, stray>>

Next ==
  \/ read_into_buffer \/ write_into_buffer \/ AppendStep \/ AppendNothing \/ Grow \/ Merge
  \/ ReadError \/ read_from_buffer \/ flush_messages \/ MeasureStep \/ MeasureEnd \/ CopyStep
  \/ CopyNoMemory \/ WriteStep \/ WriteError \/ Return \/ destroy_buffer

Spec == Init /\ [][Next]_vars

-----------------------------------------------------------------------------
(* Properties *)

InUse  == pc \notin {"corrupt", "crashed", "destroyed"}
Intact == InUse /\ torn = 0
Appending == pc \in {"append", "grow", "merge"}
NoNodes == cache_list = <<>> /\ tmp_list = <<>>
Front == IF cache_list # <<>> THEN First ELSE Head(tmp_list)

\* The next byte to leave is the one after the last that left: none is skipped, repeated
\* or overtaken, whatever calls, short reads, partial writes and failures to allocate or
\* to read came before (a failed write() is another matter: NothingSkipped).
FrontIsNext ==
  Intact => IF NoNodes THEN got = put ELSE Front.base + Front.r_offset = got + 1

\* The last byte accepted is the last one stored: no call loses a byte it accepted, also
\* when memory runs out in the middle of it, and a call whose read() fails leaves none of
\* the bytes it took from the socket behind.
BackIsLast ==
  InUse /\ ~NoNodes => Current.base + Current.w_offset = put + 1

\* read_from_buffer gives what was asked for or, if that is less, all there was: what its
\* first loop measures is what its second loop copies.
ReadsWhatThereIs ==
  Intact /\ op = "read_from" /\ pc = "copy" /\ (already >= expected \/ cache_list = <<>>) =>
    already = Least(size, had[1] - had[2])

\* flush_messages writes all that was buffered, however write() cuts it into pieces.
FlushEmpties ==
  op = "flush" /\ pc = "write" /\ (already >= expected \/ cache_list = <<>>) =>
    got = put

\* The first byte of the stream that a node still hands out.
NextByte(n) == n.base + (IF n.r_offset < 0 THEN 0 ELSE n.r_offset)

\* After a failed write() the buffer sends a byte again, or, at the start of a node, sends
\* the byte of memory before the cache: at most one such byte for each failure, and none
\* of the stream is ever skipped.
NothingSkipped ==
  InUse => /\ ~NoNodes => NextByte(Front) <= got + 1
           /\ stray + (IF NoNodes THEN 0 ELSE Before(Front.r_offset)) <= torn

Forgotten == held - Len(cache_list) - Len(tmp_list)

\* No cache is lost on any path, the error paths included, but one: a read_into_buffer that
\* stored nothing (the peer has closed) forgets the node it took.
CachesLostOnlyByEmptyRead ==
  [][Forgotten' = Forgotten \/ (pc = "merge" /\ op = "read_into" /\ ret = 0)]_vars

\* The bytes in the nodes that calls which have returned put there.
Stored ==
  (IF NoNodes \/ ~Intact THEN 0
   ELSE Current.base + Current.w_offset - Front.base - Front.r_offset)
  - (IF Appending /\ Intact THEN put - had[1] ELSE 0)

\* The buffer implements the queue: the bytes of a call count when it returns, and what
\* leaves the nodes is what the callers get.  A failed write(), a failed read() that stores
\* the offset -1, and the crash without memory for the result end the queue.
Queue == INSTANCE ByteQueue WITH open <- Intact, out <- got, stored <- Stored
QueueSpec == Queue!Spec

-----------------------------------------------------------------------------
(* The inductive invariant behind these properties. *)

\* The nodes of a list hold consecutive bytes: offsets are inside the cache (a failed write()
\* may put r_offset before it), all nodes but the last are full, each goes on where the one
\* before ends, only the first is read from.
Chain(s) ==
  \A i \in DOMAIN s :
    /\ torn = 0 => 0 <= s[i].r_offset
    /\ 0 <= s[i].w_offset /\ s[i].r_offset <= s[i].w_offset /\ s[i].w_offset <= CACHE_SIZE
    /\ i > 1 => s[i].r_offset = 0
    /\ i < Len(s) => s[i].w_offset = CACHE_SIZE /\ s[i + 1].base = s[i].base + CACHE_SIZE

\* No node begins after the byte to come; as a call may take back its own bytes, the nodes
\* it found do not begin after the byte that was to come when it began.
Bases ==
  /\ \A i \in DOMAIN cache_list :
       cache_list[i].base <= (IF Appending THEN had[1] ELSE put) + 1
  /\ \A i \in DOMAIN tmp_list : tmp_list[i].base <= put + 1

\* tmp_list goes on where cache_list ends, and nothing has been read from it.
Linked ==
  tmp_list # <<>> =>
    /\ tmp_list[1].r_offset = 0
    /\ cache_list # <<>> =>
         /\ LastOf(cache_list).w_offset = CACHE_SIZE
         /\ tmp_list[1].base = LastOf(cache_list).base + CACHE_SIZE

\* The byte that leaves next: the first one in the nodes, or the one to come.
FrontByte == IF NoNodes THEN put + 1 ELSE Front.base + Front.r_offset

\* It has left before only if a write() has failed; what a call may still take back has not.
FrontInv ==
  /\ FrontByte <= got + 1 /\ (torn = 0 => FrontByte = got + 1)
  /\ got <= (IF Appending THEN had[1] ELSE put)

\* Before the cache of the first node there are as many bytes to send as write() has failed
\* for, at most, and the node's own bytes are the next.
StrayInv ==
  /\ cache_list # <<>> /\ First.r_offset < 0 => First.base <= got + 1
  /\ stray + (IF cache_list = <<>> THEN 0 ELSE Before(First.r_offset)) <= torn

AtRest ==
  ~Appending => tmp_list = <<>> /\ last_w_offset = -1

\* While a call stores bytes: what it stored lies behind what it found, and there is room
\* for more in the node it fills; write_into_buffer always stores something.
AppendState ==
  Appending =>
    /\ op \in {"read_into", "write_into"}
    /\ already = put - had[1] /\ 0 <= already /\ already <= size
    /\ pc = "append" => Current.w_offset < CACHE_SIZE
    /\ pc = "grow" => already < size /\ Current.w_offset = CACHE_SIZE
    /\ pc = "merge" => ret = already
    /\ op = "write_into" => size > 0 /\ (pc # "append" => already > 0)
    /\ IF last_w_offset = -1
       THEN tmp_list # <<>> /\ tmp_list[1].base = had[1] + 1
       ELSE /\ cache_list # <<>> /\ 0 <= last_w_offset /\ last_w_offset < CACHE_SIZE
            /\ LastOf(cache_list).r_offset <= last_w_offset
            /\ LastOf(cache_list).base + last_w_offset = had[1] + 1
            /\ tmp_list # <<>> => already > 0

\* The bytes before the node at index have been counted.
MeasureState ==
  pc = "measure" =>
    /\ op \in {"read_from", "flush"} /\ had = <<put, got>> /\ already = 0
    /\ 1 <= index /\ index <= Len(cache_list) + 1
    /\ op = "read_from" => expected <= size
    /\ expected = (IF index \in DOMAIN cache_list
                   THEN cache_list[index].base + cache_list[index].r_offset
                   ELSE put + 1) - FrontByte

\* The bytes still to be handed out are there, and a flush hands out all there are.
GetState ==
  pc \in {"copy", "write"} =>
    /\ op = (IF pc = "copy" THEN "read_from" ELSE "flush")
    /\ put = had[1] /\ already <= expected /\ expected - already <= put + 1 - FrontByte
    /\ pc = "write" => expected - already = put + 1 - FrontByte
    /\ torn = 0 =>
         /\ got = had[2] + already
         /\ pc = "copy" => expected = Least(size, had[1] - had[2])

IdleState == pc = "idle" => already = 0 /\ expected = 0 /\ index = 1

UseInv ==
  /\ Chain(cache_list) /\ Chain(tmp_list) /\ Bases /\ Linked /\ FrontInv /\ BackIsLast
  /\ AtRest /\ AppendState /\ MeasureState /\ GetState /\ IdleState

\* Together they are kept by every step of every call for as long as the buffer is used, also
\* after a write() has failed; FrontIsNext and BackIsLast alone are not.
NodesInv == TypeOK /\ (Appending => ~NoNodes) /\ (InUse => UseInv)
BufferInv == NodesInv /\ (InUse => StrayInv)
=============================================================================
