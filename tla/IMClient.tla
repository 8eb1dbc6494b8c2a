------------------------------ MODULE IMClient ------------------------------
(***************************************************************************)
(* The client program of src/IMClient.c: one thread that polls the         *)
(* terminal and the socket, sends what is typed and shows what arrives.    *)
(*                                                                         *)
(* What one read() of the terminal returns is a chunk: a line, or, when    *)
(* the line is longer than the buffer or the user presses ctrl-d in it,    *)
(* one part of a line; ctrl-d after a complete line gives an empty chunk.  *)
(* What the client puts on the connection is a sequence of tokens: the     *)
(* LOGIN line, TO-ALL prefixes, and chunks.  The server is the             *)
(* environment; ctrl-c, which ends the program anywhere, only cuts a       *)
(* behaviour short.                                                        *)
(***************************************************************************)
EXTENDS Integers, Sequences

CONSTANTS
  MaxChunks,    \* bound: chunks the user types
  MaxNews,      \* bound: messages the server sends
  SockCap,      \* bound: unread writes before write() blocks
  MaxFaults     \* bound: failed allocations and system calls

ASSUME BoundsAssumption ==
  MaxChunks \in Nat /\ MaxNews \in Nat /\ SockCap \in Nat \ {0} /\ MaxFaults \in Nat

VARIABLES
  pc, is_online,
  revents,      \* what poll() stored for the terminal and the socket
  buff,         \* tokens to be written
  sock,         \* "none", "up", "fin" (the server closed), "reset", "pipe" (broken)
  unread,       \* writes the server has not read yet
  news,         \* pieces of messages in the socket's receive queue
  sent,         \* messages the server has sent
  tty,          \* chunks the terminal has ready
  typed,        \* chunks typed so far
  line,         \* the number of the line being typed
  wire,         \* history: tokens the server's side has received
  faults

vars == <<pc, is_online, revents, buff, sock, unread, news, sent, tty, typed, line, wire, faults>>
serverVars == <<sock, unread, news, sent>>
userVars == <<tty, typed, line>>

\* A chunk: its line, whether it begins with a whole TO-C-name:, whether it ends the line.
Chunk == [kind : {"text", "eof"}, n : Nat, line : Nat, address : BOOLEAN, last : BOOLEAN]
Token == [kind : {"login", "prefix", "bare", "text"}, n : Nat, line : Nat,
          address : BOOLEAN, last : BOOLEAN]
Mark(kind, n, last) ==
  [kind |-> kind, n |-> n, line |-> 0, address |-> FALSE, last |-> last]

NoEvents == [stdin |-> FALSE, socket |-> "none"]

Ended == pc \in {"exited", "killed"}
Online == ~Ended /\ pc \notin {"connect", "login"}

TypeOK ==
  /\ pc \in {"connect", "login", "poll", "stdin", "write", "socket", "exited", "killed"}
  /\ is_online \in BOOLEAN
  /\ revents \in [stdin : BOOLEAN, socket : {"none", "in", "hup"}]
  /\ buff \in Seq(Token) /\ wire \in Seq(Token) /\ tty \in Seq(Chunk)
  /\ sock \in {"none", "up", "fin", "reset", "pipe"}
  /\ unread \in 0..SockCap /\ news \in 0..(2 * sent) /\ sent \in 0..MaxNews
  /\ typed \in 0..MaxChunks /\ line \in Nat
  /\ faults \in 0..MaxFaults

Init ==
  /\ pc = "connect" /\ is_online = TRUE
  /\ revents = NoEvents /\ buff = <<>>
  /\ sock = "none" /\ unread = 0 /\ news = 0 /\ sent = 0
  /\ tty = <<>> /\ typed = 0 /\ line = 1
  /\ wire = <<>> /\ faults = 0

Fault == faults < MaxFaults /\ faults' = faults + 1

-----------------------------------------------------------------------------
(* The user and the server. *)

\* A chunk of text: any of them may begin with an address, also the continuation of a line,
\* and ctrl-d may cut an address.  (The terminal keeps what is typed before the loop: it
\* comes with the first poll.)
Type(address, last) ==
  /\ Online /\ typed < MaxChunks
  /\ tty' = Append(tty, [kind |-> "text", n |-> typed + 1, line |-> line,
                         address |-> address, last |-> last])
  /\ typed' = typed + 1
  /\ line' = IF last THEN line + 1 ELSE line
  /\ UNCHANGED <<pc, is_online, revents, buff, serverVars, wire, faults>>

\* ctrl-d with nothing before it: read() returns 0.
EndOfFile ==
  /\ Online /\ typed < MaxChunks
  /\ tty' = Append(tty, [kind |-> "eof", n |-> typed + 1, line |-> line,
                         address |-> FALSE, last |-> FALSE])
  /\ typed' = typed + 1
  /\ UNCHANGED <<pc, is_online, revents, buff, serverVars, line, wire, faults>>

\* A message comes in two pieces, which one read() may return together or not.
ServerSends ==
  /\ ~Ended /\ sock = "up" /\ sent < MaxNews /\ sent' = sent + 1 /\ news' = news + 2
  /\ UNCHANGED <<pc, is_online, revents, buff, sock, unread, userVars, wire, faults>>

ServerReads ==
  /\ ~Ended /\ sock = "up" /\ unread > 0 /\ unread' = unread - 1
  /\ UNCHANGED <<pc, is_online, revents, buff, sock, news, sent, userVars, wire, faults>>

\* A socket closed with data unread is reset.
ServerCloses ==
  /\ ~Ended /\ sock = "up" /\ sock' \in {"reset"} \cup (IF unread = 0 THEN {"fin"} ELSE {})
  /\ UNCHANGED <<pc, is_online, revents, buff, unread, news, sent, userVars, wire, faults>>

-----------------------------------------------------------------------------
(* main *)

\* Address, socket and connect.
Connect ==
  /\ pc = "connect"
  /\ \/ pc' = "login" /\ sock' = "up" /\ UNCHANGED faults
     \/ Fault /\ pc' = "exited" /\ UNCHANGED sock
  /\ UNCHANGED <<is_online, revents, buff, unread, news, sent, userVars, wire>>

\* send() of the LOGIN line, which a server that is gone does not get.
SendsLogin ==
  IF sock = "up"
  THEN wire' = <<Mark("login", 0, TRUE)>> /\ unread' = unread + 1 /\ UNCHANGED sock
  ELSE sock = "fin" /\ sock' \in {"fin", "pipe"} /\ UNCHANGED <<wire, unread>>

\* A failure ends the program: of malloc() for the line or of send(), or of malloc() for the
\* loop, when LOGIN has been sent.
SendLogin ==
  /\ pc = "login"
  /\ \/ SendsLogin /\ pc' = "poll" /\ UNCHANGED faults
     \/ SendsLogin /\ Fault /\ pc' = "exited"
     \/ sock = "reset" /\ pc' = "exited" /\ UNCHANGED <<sock, unread, wire, faults>>
     \/ Fault /\ pc' = "exited" /\ UNCHANGED <<sock, unread, wire>>
  /\ UNCHANGED <<is_online, revents, buff, news, sent, userVars>>

\* Mutants: the first entry, or the second, is left out of poll().
StdinLeftOut == {FALSE}
SocketLeftOut == {"none"}

StdinEvents == {tty # <<>>}
SocketEvents ==
  IF news > 0 \/ sock = "fin" THEN {"in"}
  ELSE IF sock \in {"reset", "pipe"} THEN {"in", "hup"} ELSE {"none"}

\* poll() without a timeout; an error leaves the loop.
Poll ==
  /\ pc = "poll"
  /\ \/ /\ \E i \in StdinEvents, s \in SocketEvents :
             (i \/ s # "none") /\ revents' = [stdin |-> i, socket |-> s]
        /\ pc' = "stdin" /\ UNCHANGED faults
     \/ Fault /\ pc' = "exited" /\ UNCHANGED revents
  /\ UNCHANGED <<is_online, buff, serverVars, userVars, wire>>

\* Mutants: a read of 0 bytes is taken for text; the prefix is not counted, which cuts the
\* end off.
EofAsText(c) == IF c.address THEN <<c>> ELSE <<Mark("prefix", c.n, FALSE), c>>
PrefixNotCounted(c) ==
  IF c.kind = "eof" THEN <<Mark("bare", c.n, FALSE)>>
  ELSE IF c.address THEN <<c>> ELSE <<Mark("prefix", c.n, FALSE), [c EXCEPT !.last = FALSE]>>

\* A chunk that begins with an address goes as it is, any other behind TO-ALL:.
Composed(c) ==
  IF c.kind = "eof" THEN <<Mark("bare", c.n, FALSE)>>
  ELSE IF c.address THEN <<c>> ELSE <<Mark("prefix", c.n, FALSE), c>>

\* Index 0: a failed read (-1) leaves seven bytes of the prefix to be written.
ReadStdin ==
  /\ pc = "stdin" /\ revents.stdin /\ pc' = "write"
  /\ \/ buff' = Composed(Head(tty)) /\ tty' = Tail(tty) /\ UNCHANGED faults
     \/ Fault /\ buff' = <<Mark("bare", 0, FALSE)>> /\ UNCHANGED tty
  /\ UNCHANGED <<is_online, revents, serverVars, typed, line, wire>>

SkipStdin ==
  /\ pc = "stdin" /\ ~revents.stdin /\ pc' = "socket"
  /\ UNCHANGED <<is_online, revents, buff, serverVars, userVars, wire, faults>>

\* write() blocks while the server's side is full.  What goes to a socket that the server has
\* closed is answered with a reset, sooner or later, and breaks the connection; a reset that
\* comes first makes write() fail once; a write to a broken connection kills the program.
WriteSocket ==
  /\ pc = "write"
  /\ \/ /\ sock = "up" /\ unread < SockCap /\ unread' = unread + 1 /\ wire' = wire \o buff
        /\ pc' = "socket" /\ UNCHANGED <<is_online, sock>>
     \/ /\ sock = "fin" /\ sock' \in {"fin", "pipe"} /\ pc' = "socket"
        /\ UNCHANGED <<is_online, unread, wire>>
     \/ /\ sock = "reset" /\ sock' = "pipe" /\ is_online' = FALSE /\ pc' = "socket"
        /\ UNCHANGED <<unread, wire>>
     \/ /\ sock = "pipe" /\ pc' = "killed" /\ UNCHANGED <<is_online, sock, unread, wire>>
  /\ buff' = <<>>
  /\ UNCHANGED <<revents, news, sent, userVars, faults>>

\* Mutant: the socket is read whatever poll() said.
AnyEvent == "in"

SocketEvent == revents.socket
NextRound == IF is_online THEN "poll" ELSE "exited"

\* The end of the for loop; poll() overwrites the events.
Leave(to) == pc' = to /\ revents' = NoEvents

\* Index 1: what has arrived is shown; the buffer may be smaller than that.
ReadSocket ==
  /\ pc = "socket" /\ SocketEvent = "in" /\ news > 0
  /\ \E n \in 1..news : news' = news - n
  /\ Leave(NextRound)
  /\ UNCHANGED <<is_online, buff, sock, unread, sent, userVars, wire, faults>>

\* read() returns -1 once after a reset; the loop goes on.
ReadError ==
  /\ pc = "socket" /\ SocketEvent = "in" /\ news = 0 /\ sock = "reset"
  /\ sock' = "pipe" /\ Leave(NextRound)
  /\ UNCHANGED <<is_online, buff, unread, news, sent, userVars, wire, faults>>

\* Mutant: the end of the stream is nothing to show.
EndIgnored == NextRound

AfterEnd == "exited"

\* read() returns 0: the server is down.
ReadEnd ==
  /\ pc = "socket" /\ SocketEvent = "in" /\ news = 0 /\ sock \in {"fin", "pipe"}
  /\ Leave(AfterEnd)
  /\ UNCHANGED <<is_online, buff, serverVars, userVars, wire, faults>>

\* POLLERR or POLLHUP alone.
HangUp ==
  /\ pc = "socket" /\ SocketEvent = "hup" /\ Leave("exited")
  /\ UNCHANGED <<is_online, buff, serverVars, userVars, wire, faults>>

SkipSocket ==
  /\ pc = "socket" /\ SocketEvent = "none" /\ Leave(NextRound)
  /\ UNCHANGED <<is_online, buff, serverVars, userVars, wire, faults>>

Main == Connect \/ SendLogin \/ Poll \/ ReadStdin \/ SkipStdin \/ WriteSocket
        \/ ReadSocket \/ ReadError \/ ReadEnd \/ HangUp \/ SkipSocket

Next ==
  \/ Main
  \/ \E address, last \in BOOLEAN : Type(address, last)
  \/ EndOfFile
  \/ ServerSends \/ ServerReads \/ ServerCloses

\* The program runs; nothing makes the user type, the server read, send or close, or a call
\* fail.
Spec == Init /\ [][Next]_vars /\ WF_vars(Main /\ UNCHANGED faults)

-----------------------------------------------------------------------------
(* Properties *)

Texts == {i \in DOMAIN wire : wire[i].kind = "text"}

\* A newline is on the connection exactly where the user pressed enter: two chunks share a
\* line there iff they share one on the terminal, although a long line is read, prefixed
\* and written in parts; and they are in order, none left out.
LinesWhole ==
  /\ \A i, j \in Texts : i < j =>
       (\A k \in i..(j - 1) : ~wire[k].last) <=> wire[i].line = wire[j].line
  /\ \A j \in DOMAIN wire : \A n \in 1..(wire[j].n - 1) :
       \E i \in 1..(j - 1) : wire[i].n = n

\* Where the server takes a line to begin.
Starts == {i \in DOMAIN wire : i = 1 \/ wire[i - 1].last}

FirstOfLine(i) == \A j \in Texts : wire[j].line = wire[i].line => i <= j

\* main prints "Add prefix 'TO-C-{user_name}: ' to the message to only send message to
\* user_name": a line that the user begins so is one that the server sees begin so.
PrivateStaysPrivate == \A i \in Texts : wire[i].address /\ FirstOfLine(i) => i \in Starts

\* main uses the events of one poll() for two reads with a blocking write between them: a
\* read finds what poll() announced, so that neither blocks.
ReadsDoNotBlock ==
  /\ pc = "stdin" /\ revents.stdin => tty # <<>>
  /\ pc = "socket" /\ SocketEvent = "in" => news > 0 \/ sock # "up"

\* When the server is gone the program ends, in whichever of its calls it finds out.
ServerGoneEnds == (sock \in {"fin", "reset", "pipe"}) ~> Ended

\* The client is stuck in write(): the server does not read (Chat shows how that happens).
Blocked == pc = "write" /\ sock = "up" /\ unread = SockCap

\* Unless it stays stuck, what is typed is sent, with LinesWhole all of it, or the program
\* ends: no chunk stays in the terminal or in the buffer.
TypedIsSent == <>[]Blocked \/ []<>((tty = <<>> /\ pc # "write") \/ Ended)

\* Unless it stays stuck, what arrives is shown: a slow write() only delays it, and no event
\* of the socket is lost between the two polls around it.
NewsIsShown == <>[]Blocked \/ []<>(news = 0 \/ Ended)
=============================================================================
