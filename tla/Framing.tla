------------------------------ MODULE Framing -------------------------------
(***************************************************************************)
(* How the bytes of one client become the lines the server handles:        *)
(* fetch_from_client and fetch_msg_from_client of entity/client_info.c,    *)
(* find_in_buffer of io/buffer.c, and the loop of try_to_handle_msg.       *)
(*                                                                         *)
(* A byte is its position in the stream; lineEnds are the positions of     *)
(* '\n', nuls those of NUL bytes, where the string function index() ends.  *)
(* The reading buffer holds the bytes got+1..put in nodes of CACHE_SIZE    *)
(* bytes, of which the first begins with byte base (Buffer).               *)
(***************************************************************************)
EXTENDS Integers, FiniteSets

CONSTANTS
  CACHE_SIZE,   \* bytes in a node (512 in the code)
  MaxLine,      \* bound: bytes in a line, with its '\n'
  MaxBytes,     \* bound: bytes a client sends
  MaxNuls,      \* bound: NUL bytes a client sends in a behaviour
  SizeT         \* the number of values of size_t

ASSUME FramingAssumption ==
  /\ CACHE_SIZE \in Nat \ {0} /\ MaxLine \in Nat /\ MaxBytes \in Nat /\ MaxNuls \in Nat
  /\ SizeT \in Nat /\ SizeT > MaxBytes + 1

VARIABLES
  pc,           \* "poll", "handle" (in try_to_handle_msg), "failed" (marked FAIL)
  peer,         \* "open", "closed"
  sent, lineEnds, nuls,   \* the peer's side of the stream
  put, got, base    \* the reading buffer

vars == <<pc, peer, sent, lineEnds, nuls, put, got, base>>

TypeOK ==
  /\ pc \in {"poll", "handle", "failed"} /\ peer \in {"open", "closed"}
  /\ sent \in Nat /\ lineEnds \subseteq 1..sent /\ nuls \subseteq 1..sent
  /\ put \in 0..sent /\ got \in 0..put /\ base \in Nat

Init ==
  /\ pc = "poll" /\ peer = "open" /\ sent = 0 /\ lineEnds = {} /\ nuls = {}
  /\ put = 0 /\ got = 0 /\ base = 1

-----------------------------------------------------------------------------
(* The peer *)

\* A line, with a NUL byte in it or without (the search never gets behind a first one).
SendLine ==
  /\ peer = "open"
  /\ \E n \in 1..MaxLine :
       /\ sent + n <= MaxBytes /\ sent' = sent + n /\ lineEnds' = lineEnds \cup {sent + n}
       /\ \/ UNCHANGED nuls
          \/ /\ Cardinality(nuls) < MaxNuls
             /\ \E z \in (sent + 1)..(sent + n - 1) : nuls' = nuls \cup {z}
  /\ UNCHANGED <<pc, peer, put, got, base>>

Close == peer = "open" /\ peer' = "closed" /\ UNCHANGED <<pc, sent, lineEnds, nuls, put, got, base>>

-----------------------------------------------------------------------------
(* The reading thread *)

\* fetch_from_client: read_into_buffer stores what FIONREAD announced, any part of what
\* was sent; into an empty buffer it goes to a new node.
Fetch ==
  /\ pc = "poll"
  /\ \E n \in 1..(sent - put) : put' = put + n
  /\ base' = IF got = put THEN put + 1 ELSE base
  /\ pc' = "handle" /\ UNCHANGED <<peer, sent, lineEnds, nuls, got>>

\* ioctl() failed or there was no memory: -1, which is not 0.
FetchError ==
  /\ pc = "poll" /\ put < sent /\ pc' = "handle"
  /\ UNCHANGED <<peer, sent, lineEnds, nuls, put, got, base>>

\* POLLIN and nothing to read: the client has gone.
FetchNothing ==
  /\ pc = "poll" /\ peer = "closed" /\ put = sent /\ pc' = "failed"
  /\ UNCHANGED <<peer, sent, lineEnds, nuls, put, got, base>>

\* Mutant: the whole buffer is searched as one node.
WholeBuffer == put
\* The last byte of the first node.
FirstNodeEnd == IF put < base + CACHE_SIZE - 1 THEN put ELSE base + CACHE_SIZE - 1

\* index() stops at a NUL byte before it comes to e.
StopsBefore(e) == \E z \in nuls : got < z /\ z < e

\* check_command_suffix on the first node: the line ends it sees.
Visible == {e \in lineEnds : got < e /\ e <= FirstNodeEnd /\ ~StopsBefore(e)}

\* A size_t is never negative, so the first node's result, found or not, ends the search:
\* the offset of the first '\n' in it, SIZE_MAX without one, 0 if there is no node.
find_in_buffer(i) ==
  IF got = put THEN i = 0
  ELSE IF Visible = {} THEN i = SizeT - 1
  ELSE \E e \in Visible : (\A f \in Visible : e <= f) /\ i = e - got - 1

\* Mutants: the size is the offset, without the '\n'; and one byte more than the line.
SizeWithoutEnd(i) == i % SizeT
SizePastEnd(i) == (i + 2) % SizeT
\* The size passed to read_from_buffer, which wraps.
ReadSize(i) == (i + 1) % SizeT

\* Mutant: read_from_buffer does not look at what there is.
TakenUnchecked(n) == n
\* read_from_buffer takes what was asked for, if there is as much, from the first node on.
Taken(n) == IF n < put - got THEN n ELSE put - got

\* fetch_msg_from_client finds a line, and try_to_handle_msg handles it.
FetchMsg ==
  /\ pc = "handle"
  /\ \E i \in 0..(SizeT - 1) :
       /\ find_in_buffer(i) /\ Taken(ReadSize(i)) > 0
       /\ got' = got + Taken(ReadSize(i))
       /\ base' = IF got' = base + CACHE_SIZE - 1 THEN base + CACHE_SIZE ELSE base
  /\ UNCHANGED <<pc, peer, sent, lineEnds, nuls, put>>

\* It returns 0: the loop is over.
FetchNoMsg ==
  /\ pc = "handle"
  /\ \E i \in 0..(SizeT - 1) : find_in_buffer(i) /\ Taken(ReadSize(i)) = 0
  /\ pc' = "poll"
  /\ UNCHANGED <<peer, sent, lineEnds, nuls, put, got, base>>

Next == SendLine \/ Close \/ Fetch \/ FetchError \/ FetchNothing \/ FetchMsg \/ FetchNoMsg

Spec == Init /\ [][Next]_vars

-----------------------------------------------------------------------------
(* Properties *)

\* The next line of a buffer that is not empty runs over the end of its first node, or has
\* a NUL byte in it.
Blocked ==
  /\ got < put /\ \E e \in lineEnds : got < e
  /\ \A e \in lineEnds :
       got < e => e > base + CACHE_SIZE - 1 \/ \E z \in nuls : got < z /\ z < e

\* What try_to_handle_msg gets is one line, the whole line and nothing but the line, and
\* the lines come in order: each time the bytes up to the next '\n' are taken.
LineByLine ==
  [][got' # got => /\ got' \in lineEnds /\ got < got'
                   /\ \A e \in lineEnds : got < e => got' <= e]_vars

\* When the reading thread goes back to poll(), a complete line is left in the buffer only
\* if the next line runs over the end of the first node, the only one that find_in_buffer
\* searches, or has a NUL byte in it, where index() stops.
LeftOnlyIfBlocked ==
  pc = "poll" => \A e \in lineEnds : got < e /\ e <= put => Blocked

\* Such a line is never handled, nor is any line after it, whatever else arrives.
BlockedForEver == [][Blocked => got' = got /\ Blocked']_vars

\* README: the reading thread checks "if the data in the buffer contains a whole message.
\* If so, reads the whole message from the reading buffer".
WholeMessageIsRead ==
  pc = "poll" => \A e \in lineEnds : ~(got < e /\ e <= put)
=============================================================================
