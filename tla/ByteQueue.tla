----------------------------- MODULE ByteQueue ------------------------------
(***************************************************************************)
(* What io/buffer.c promises its callers: a queue of bytes that hands out  *)
(* every accepted byte once, in the order of acceptance.  The bytes are    *)
(* numbered, so its content is given by two numbers: `out' bytes have been *)
(* handed out, and the `stored' bytes after them wait.                     *)
(***************************************************************************)
EXTENDS Integers

CONSTANT MaxOp      \* the most bytes one call accepts

VARIABLES open, out, stored

Init == open = TRUE /\ out = 0 /\ stored = 0

\* A call stores all of its bytes, or a prefix when memory runs out, at once.
Put ==
  /\ open /\ \E n \in 1..MaxOp : stored' = stored + n
  /\ UNCHANGED <<open, out>>

Get ==
  /\ open /\ \E n \in 1..stored : out' = out + n /\ stored' = stored - n
  /\ UNCHANGED open

Destroy == open /\ open' = FALSE /\ stored' = 0 /\ UNCHANGED out

\* A queue that is no longer open holds nothing and promises nothing.
Closed == ~open /\ UNCHANGED <<open, stored>>

Next == Put \/ Get \/ Destroy \/ Closed

Spec == Init /\ [][Next]_<<open, out, stored>>
=============================================================================
