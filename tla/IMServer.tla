------------------------------ MODULE IMServer ------------------------------
(***************************************************************************)
(* The chat server of src/IMServer.c with the parts of client_info.c and   *)
(* message.c its threads call: three threads (handle_listen, read_sockets, *)
(* write_sockets) and main share a list of ClientInfo pointers, a flag     *)
(* that asks for a flush, and one writing buffer per client.               *)
(*                                                                         *)
(* A connection is a number, in the order accept() returns them; it names  *)
(* the socket, the ClientInfo made for it and the peer.  A line that a     *)
(* client sends is one command; how bytes become lines is the subject of   *)
(* the Buffer and Framing modules.  Every mutex-protected block is one     *)
(* step: the list, the count and the flush flag are touched nowhere else.  *)
(***************************************************************************)
EXTENDS Integers, Sequences, FiniteSets

CONSTANTS
  NClients,     \* how many connections the server accepts in a behaviour
  NFds,         \* descriptors available for accepted sockets
  Name,         \* user names
  Script,       \* the lines each client sends, LOGIN first
  Leaver,       \* the clients that may close their connection
  SockCap,      \* bound: unread messages a peer's socket holds before write() blocks
  MaxFaults     \* bound: failed allocations and system calls in a behaviour

Unknown == "unknown"      \* UNKNOWN_CLIENT, message.h
ToAll   == "TO-ALL:"      \* CMD_TO_ALL as a message target, message.h
Blank   == ""             \* a name between memset and strncpy
NoFd    == -1

Client  == 1..NClients
Fd      == 1..NFds
Names   == Name \cup {Unknown, Blank}
Lines(c) == Len(Script[c])
LogoutSeq(c) == Lines(c) + 1   \* a logout notice follows every line of its client

ASSUME SizesAssumption ==
  /\ NClients \in Nat \ {0} /\ NFds \in Nat \ {0}
  /\ SockCap \in Nat \ {0} /\ MaxFaults \in Nat
ASSUME NameAssumption == {Unknown, ToAll, Blank} \cap Name = {}
ASSUME ScriptAssumption ==
  /\ Script \in [1..NClients -> Seq([op : {"login", "all", "to", "bad"}, name : Name])]
  /\ Leaver \subseteq 1..NClients

VARIABLES
  (* connections, as the kernel of the server sees them *)
  sock,         \* "none", "up", "fin" (peer closed), "reset", "pipe" (broken)
  room,         \* free message slots in the socket
  inq,          \* lines in the socket's receive queue
  ncmd,         \* lines the peer has sent so far
  out,          \* history: messages written to the socket
  opened,       \* connections whose descriptor the process holds open
  (* ClientInfo *)
  mem,          \* "none", "live", "freed"
  name, pub, socket_id,
  writing_buffer,
  writing_lock, \* clients whose spin lock the writing thread holds
  (* ServerInfo *)
  clients, client_count, is_running, sign_to_flush_msg,
  (* the process *)
  alive,        \* FALSE once the process has died or returned from main
  faults,
  (* handle_listen and main *)
  lpc, accepted,
  (* read_sockets *)
  rpc, polling, rindex, msgs, redirect_msg, rtargets, rpos, need_to_flush_msg,
  (* write_sockets *)
  wpc, wclients, windex, already_written, wtargets, wpos, sent_count,
  due           \* history: clients online throughout the running announcement

connVars   == <<sock, room, inq, ncmd, out, opened>>
infoVars   == <<mem, name, pub, socket_id, writing_buffer, writing_lock>>
serverVars == <<clients, client_count, is_running, sign_to_flush_msg>>
procVars   == <<alive, faults>>
lVars      == <<lpc, accepted>>
rVars      == <<rpc, polling, rindex, msgs, redirect_msg, rtargets, rpos, need_to_flush_msg>>
wVars      == <<wpc, wclients, windex, already_written, wtargets, wpos, sent_count, due>>
vars == <<connVars, infoVars, serverVars, procVars, lVars, rVars, wVars>>

Members(s) == {s[i] : i \in DOMAIN s}
\* Mutant: list_del of the node before the matching one.
RemovePrevious(s, k) == [i \in 1..(Len(s) - 1) |-> IF i < k - 1 THEN s[i] ELSE s[i + 1]]
RemoveAt(s, k) == [i \in 1..(Len(s) - 1) |-> IF i < k THEN s[i] ELSE s[i + 1]]

Line    == [op : {"login", "all", "to", "bad"}, name : Name, seq : Nat]
Note    == [src : Client, seq : Nat]   \* a message (or, without memory, its beginning), by origin
Redirect == [src : Client, seq : Nat,
             target : Name \cup {ToAll}, exclude : Names]
NoMsg == [src |-> 1, seq |-> 0, target |-> ToAll, exclude |-> Unknown]   \* null
PollEntry == [info : Client, fd : Fd \cup {NoFd}, revents : {"none", "in", "hup"}]

TypeOK ==
  /\ sock \in [Client -> {"none", "up", "fin", "reset", "pipe"}]
  /\ room \in [Client -> 0..SockCap]
  /\ inq \in [Client -> Seq(Line)]
  /\ ncmd \in [Client -> Nat]
  /\ out \in [Client -> Seq(Note)]
  /\ opened \subseteq Client
  /\ mem \in [Client -> {"none", "live", "freed"}]
  /\ name \in [Client -> Names]
  /\ pub \in [Client -> {"SUCC", "FAIL"}]
  /\ socket_id \in [Client -> Fd \cup {NoFd}]
  /\ writing_buffer \in [Client -> Seq(Note)]
  /\ writing_lock \subseteq Client
  /\ clients \in Seq(Client)
  /\ client_count \in Int
  /\ is_running \in BOOLEAN /\ sign_to_flush_msg \in BOOLEAN
  /\ alive \in BOOLEAN /\ faults \in 0..MaxFaults
  /\ lpc \in {"accept", "add", "reader", "writer", "stop", "joinr", "joinw",
              "release", "returned"}
  /\ accepted \in 0..NClients
  /\ rpc \in {"off", "snapshot", "list", "poll", "event", "handle", "login", "targets",
              "deliver", "notify", "exit"}
  /\ polling \in Seq(PollEntry)
  /\ rindex \in Nat /\ rpos \in Nat
  /\ msgs \in Seq(Line)
  /\ redirect_msg \in Redirect
  /\ rtargets \in Seq(Client)
  /\ need_to_flush_msg \in BOOLEAN
  /\ wpc \in {"off", "snapshot", "flush", "write", "scan", "announce", "deliver",
              "close", "release", "sign", "check", "wait", "woken", "exit"}
  /\ wclients \in Seq(Client)
  /\ windex \in Nat /\ wpos \in Nat
  /\ wtargets \in Seq(Client)
  /\ already_written \in BOOLEAN /\ sent_count \in BOOLEAN
  /\ due \subseteq Client

Init ==
  /\ sock = [c \in Client |-> "none"] /\ room = [c \in Client |-> SockCap]
  /\ inq = [c \in Client |-> <<>>] /\ ncmd = [c \in Client |-> 0]
  /\ out = [c \in Client |-> <<>>] /\ opened = {}
  /\ mem = [c \in Client |-> "none"] /\ name = [c \in Client |-> Unknown]
  /\ pub = [c \in Client |-> "SUCC"] /\ socket_id = [c \in Client |-> NoFd]
  /\ writing_buffer = [c \in Client |-> <<>>] /\ writing_lock = {}
  /\ clients = <<>> /\ client_count = 0
  /\ is_running = TRUE /\ sign_to_flush_msg = FALSE
  /\ alive = TRUE /\ faults = 0
  /\ lpc = "accept" /\ accepted = 0
  /\ rpc = "off" /\ polling = <<>> /\ rindex = 1 /\ msgs = <<>>
  /\ redirect_msg = NoMsg
  /\ rtargets = <<>> /\ rpos = 1 /\ need_to_flush_msg = FALSE
  /\ wpc = "off" /\ wclients = <<>> /\ windex = 1
  /\ wtargets = <<>> /\ wpos = 1 /\ already_written = FALSE /\ sent_count = FALSE /\ due = {}

-----------------------------------------------------------------------------
(* The peers, and the kernel's view of their sockets. *)

Fault == faults < MaxFaults /\ faults' = faults + 1

\* A client sends its next line.
SendLine(c) ==
  /\ sock[c] = "up" /\ ncmd[c] < Lines(c)
  /\ LET l == Script[c][ncmd[c] + 1] IN
     inq' = [inq EXCEPT ![c] = Append(@, [op |-> l.op, name |-> l.name, seq |-> ncmd[c] + 1])]
  /\ ncmd' = [ncmd EXCEPT ![c] = @ + 1]
  /\ UNCHANGED <<sock, room, out, opened, infoVars, serverVars, procVars, lVars, rVars, wVars>>

\* The peer empties its socket once it is full (reading earlier changes nothing
\* the server can see).
PeerRead(c) ==
  /\ sock[c] = "up" /\ room[c] = 0
  /\ room' = [room EXCEPT ![c] = SockCap]
  /\ UNCHANGED <<sock, inq, ncmd, out, opened, infoVars, serverVars, procVars, lVars, rVars, wVars>>

\* close() with nothing unread sends FIN; with unread data, or a crash, RST.
PeerClose(c) ==
  /\ sock[c] = "up" /\ c \in Leaver
  /\ \E how \in {"fin", "reset"} : sock' = [sock EXCEPT ![c] = how]
  /\ UNCHANGED <<room, inq, ncmd, out, opened, infoVars, serverVars, procVars, lVars, rVars, wVars>>

Peer == \E c \in Client : SendLine(c) \/ PeerRead(c) \/ PeerClose(c)

-----------------------------------------------------------------------------
(* handle_listen, and main after it has joined the thread. *)

FreeFds == Fd \ {socket_id[c] : c \in opened}

\* A ClientInfo named UNKNOWN_CLIENT with two empty buffers, or no memory for it.
new_client_info(c) ==
  \/ mem' = [mem EXCEPT ![c] = "live"] /\ UNCHANGED faults
  \/ Fault /\ UNCHANGED mem

\* accept() returns the next connection, with the lowest free descriptor; without a
\* ClientInfo for it the loop goes on, with the descriptor open.
Accept ==
  /\ lpc = "accept" /\ is_running /\ accepted < NClients
  /\ LET c == accepted + 1 IN
     /\ \E f \in FreeFds :
          /\ \A g \in FreeFds : f <= g
          /\ socket_id' = [socket_id EXCEPT ![c] = f]
     /\ opened' = opened \cup {c}
     /\ sock' = [sock EXCEPT ![c] = "up"]
     /\ accepted' = c
     /\ new_client_info(c)
     /\ lpc' = IF mem'[c] = "live" THEN "add" ELSE "accept"
  /\ UNCHANGED <<room, inq, ncmd, out, name, pub, writing_buffer, writing_lock,
                 serverVars, alive, rVars, wVars>>

\* The new ClientNode goes to the tail of the list; the first one starts the threads.
AddClient ==
  /\ lpc = "add"
  /\ clients' = Append(clients, accepted)
  /\ client_count' = client_count + 1
  /\ lpc' = IF rpc = "off" THEN "reader" ELSE "accept"
  /\ UNCHANGED <<connVars, infoVars, is_running, sign_to_flush_msg, procVars, accepted,
                 rVars, wVars>>

StartReader ==
  /\ lpc = "reader"
  /\ \/ rpc' = "snapshot" /\ lpc' = "writer" /\ UNCHANGED faults
     \/ Fault /\ lpc' = "stop" /\ UNCHANGED rpc
  /\ UNCHANGED <<connVars, infoVars, serverVars, alive, accepted, polling, rindex, msgs,
                 redirect_msg, rtargets, rpos, need_to_flush_msg, wVars>>

StartWriter ==
  /\ lpc = "writer"
  /\ \/ wpc' = "snapshot" /\ lpc' = "accept" /\ UNCHANGED faults
     \/ Fault /\ lpc' = "stop" /\ UNCHANGED wpc
  /\ UNCHANGED <<connVars, infoVars, serverVars, alive, accepted, rVars, wclients, windex,
                 already_written, wtargets, wpos, sent_count, due>>

StopListening ==
  /\ lpc = "stop" /\ is_running' = FALSE /\ lpc' = "joinr"
  /\ UNCHANGED <<connVars, infoVars, clients, client_count, sign_to_flush_msg, procVars,
                 accepted, rVars, wVars>>

\* Mutant: the reading thread is not joined.
ReaderNotJoined ==
  /\ lpc = "joinr" /\ lpc' = "joinw"
  /\ UNCHANGED <<connVars, infoVars, serverVars, procVars, accepted, rVars, wVars>>

\* pthread_join of a thread that was created; a thread id still -1 is not joined.
JoinReader ==
  /\ lpc = "joinr" /\ rpc \in {"off", "exit"} /\ lpc' = "joinw"
  /\ UNCHANGED <<connVars, infoVars, serverVars, procVars, accepted, rVars, wVars>>

JoinWriter ==
  /\ lpc = "joinw" /\ wpc \in {"off", "exit"} /\ lpc' = "release"
  /\ UNCHANGED <<connVars, infoVars, serverVars, procVars, accepted, rVars, wVars>>

\* main frees the ServerInfo and the cache module and returns.
MainRelease ==
  /\ lpc = "release" /\ lpc' = "returned"
  /\ is_running' = FALSE /\ alive' = FALSE
  /\ UNCHANGED <<connVars, infoVars, clients, client_count, sign_to_flush_msg, faults,
                 accepted, rVars, wVars>>

Listener == Accept \/ AddClient \/ StartReader \/ StartWriter \/ StopListening
            \/ JoinReader \/ JoinWriter \/ MainRelease

-----------------------------------------------------------------------------
(* message.c: who gets a message. *)

\* Mutants: every message goes to all; the sender is not left out; nor are the clients
\* that have not logged in.
EveryMsgToAll(m) == TRUE
FilterUnknownOnly(m, n) == n = Unknown
FilterSenderOnly(m, n) == n = m.exclude

is_msg_to_all(m) == m.target = ToAll
is_target(m, n)  == m.target = n
filter_out(m, n) == n = m.exclude \/ n = Unknown

\* create_sys_msg_base_on_content, with the exclude its two callers add: a notice about c.
SysMsg(c, seq, n) == [src |-> c, seq |-> seq, target |-> ToAll, exclude |-> n]

\* create_p2p_msg_base_on_content: line m of client c, called n.
P2PMsg(c, m, n) ==
  [src |-> c, seq |-> m.seq, exclude |-> n, target |-> IF m.op = "all" THEN ToAll ELSE m.name]

\* The test deliver_msg_to_all_clients makes of one client that is not marked FAIL.
Wants(m, d) ==
  /\ ~filter_out(m, name[d])
  /\ is_msg_to_all(m) \/ is_target(m, name[d])

\* Mutant: the copy stops one entry short.
ShortClientList == SubSeq(clients, 1, Len(clients) - 1)

\* A copy of the pointers in the list, taken under the lock.
get_client_list == clients

\* Mutant: list_splice at the head of cache_list instead of its tail.
EnqueueFirst(m, d) ==
  writing_buffer' = [writing_buffer EXCEPT ![d] = <<[src |-> m.src, seq |-> m.seq]>> \o @]

\* send_msg_to_client: appends to the writing buffer under the spin lock.
Enqueue(m, d) ==
  writing_buffer' = [writing_buffer EXCEPT ![d] = Append(@, [src |-> m.src, seq |-> m.seq])]

-----------------------------------------------------------------------------
(* read_sockets *)

\* Mutant: a client marked FAIL is polled like the others.
PollAlways(c) == socket_id[c]

\* get_polling_and_client_list: a client marked FAIL is listed but not polled.
PollFd(c) == IF pub[c] = "SUCC" THEN socket_id[c] ELSE NoFd

PollSnapshot ==
  /\ rpc = "snapshot"
  /\ \/ /\ polling' = [i \in 1..Len(clients) |->
             [info |-> clients[i], fd |-> PollFd(clients[i]), revents |-> "none"]]
        /\ rpc' = "list" /\ UNCHANGED faults
     \/ Fault /\ rpc' = "exit" /\ UNCHANGED polling
  /\ rindex' = 1
  /\ UNCHANGED <<connVars, infoVars, serverVars, alive, lVars, msgs, redirect_msg,
                 rtargets, rpos, need_to_flush_msg, wVars>>

\* DEBUG_BLOCK, which common.h compiles in: before poll(), and without the lock, every entry
\* of the copy is listed with info->socket_id, also of a client marked FAIL, which the writing
\* thread may have freed; what reading freed memory does is undefined.
PollList ==
  /\ rpc = "list"
  /\ \/ rpc' = "poll" /\ UNCHANGED alive
     \/ /\ \E i \in DOMAIN polling : mem[polling[i].info] = "freed"
        /\ alive' = FALSE /\ UNCHANGED rpc
  /\ UNCHANGED <<connVars, infoVars, serverVars, faults, lVars, polling, rindex, msgs,
                 redirect_msg, rtargets, rpos, need_to_flush_msg, wVars>>

NextRound == IF is_running THEN "snapshot" ELSE "exit"
HungUp(e) == e.fd # NoFd /\ sock[e.info] # "up"
Ready(e)  == e.fd # NoFd /\ (inq[e.info] # <<>> \/ sock[e.info] # "up")

\* What poll() stores in an entry: a hang-up without POLLIN, POLLIN, or nothing.
Revents(i, ready, bare) ==
  IF i \in bare THEN "hup" ELSE IF i \in ready THEN "in" ELSE "none"

\* poll() reports every polled socket with data or a hang-up; a hang-up may come
\* without POLLIN.  A timeout or an error starts the next round.
Poll ==
  /\ rpc = "poll"
  /\ LET ready == {i \in DOMAIN polling : Ready(polling[i])} IN
     \/ /\ ready # {}
        /\ \E bare \in SUBSET {i \in ready : HungUp(polling[i])} :
             polling' = [i \in DOMAIN polling |->
                           [polling[i] EXCEPT !.revents = Revents(i, ready, bare)]]
        /\ rpc' = "event" /\ UNCHANGED faults
     \/ /\ ready = {} \/ faults < MaxFaults
        /\ faults' = IF ready = {} THEN faults ELSE faults + 1
        /\ rpc' = NextRound /\ polling' = <<>>
  /\ UNCHANGED <<connVars, infoVars, serverVars, alive, lVars, rindex, msgs, redirect_msg,
                 rtargets, rpos, need_to_flush_msg, wVars>>

Current == polling[rindex]
Active(e) == e.fd # NoFd /\ e.fd = socket_id[e.info] /\ e.revents # "none"

EventsDone ==
  /\ rpc = "event" /\ rindex > Len(polling)
  /\ rpc' = NextRound /\ polling' = <<>> /\ rindex' = 1
  /\ UNCHANGED <<connVars, infoVars, serverVars, procVars, lVars, msgs, redirect_msg,
                 rtargets, rpos, need_to_flush_msg, wVars>>

EventSkip ==
  /\ rpc = "event" /\ rindex \in DOMAIN polling /\ ~Active(Current)
  /\ rindex' = rindex + 1
  /\ UNCHANGED <<connVars, infoVars, serverVars, procVars, lVars, rpc, polling, msgs,
                 redirect_msg, rtargets, rpos, need_to_flush_msg, wVars>>

\* fetch_from_client takes all bytes FIONREAD announced; when ioctl or read fails
\* it returns -1, which counts as having read something.
EventRead ==
  /\ rpc = "event" /\ rindex \in DOMAIN polling /\ Active(Current)
  /\ Current.revents = "in" /\ rpc' = "handle"
  /\ \/ /\ inq[Current.info] # <<>> /\ msgs' = inq[Current.info]
        /\ inq' = [inq EXCEPT ![Current.info] = <<>>] /\ UNCHANGED faults
     \/ Fault /\ msgs' = <<>> /\ UNCHANGED inq
  /\ UNCHANGED <<sock, room, ncmd, out, opened, infoVars, serverVars, alive, lVars, polling,
                 rindex, redirect_msg, rtargets, rpos, need_to_flush_msg, wVars>>

\* Mutant: the exception leaves the client as it is.
MarkNothing(c) == UNCHANGED pub

\* info->pub = FAIL, which makes the writing thread log the client out.
MarkAbnormal(c) == pub' = [pub EXCEPT ![c] = "FAIL"]

\* handle_socket_exception: POLLIN with nothing to read, or no POLLIN at all.
EventException ==
  /\ rpc = "event" /\ rindex \in DOMAIN polling /\ Active(Current)
  /\ Current.revents = "hup" \/ inq[Current.info] = <<>>
  /\ MarkAbnormal(Current.info)
  /\ rindex' = rindex + 1
  /\ UNCHANGED <<connVars, mem, name, socket_id, writing_buffer, writing_lock, serverVars,
                 procVars, lVars, rpc, polling, msgs, redirect_msg, rtargets, rpos,
                 need_to_flush_msg, wVars>>

(* try_to_handle_msg, called for the client at rindex *)

\* No further message: wake the writer if something was queued, go to the next socket.
HandleDone ==
  /\ rpc = "handle" /\ msgs = <<>>
  /\ IF need_to_flush_msg THEN rpc' = "notify" /\ UNCHANGED rindex
                          ELSE rpc' = "event" /\ rindex' = rindex + 1
  /\ need_to_flush_msg' = FALSE
  /\ UNCHANGED <<connVars, infoVars, serverVars, procVars, lVars, polling, msgs, redirect_msg,
                 rtargets, rpos, wVars>>

\* LOGIN, first half: update_client_name clears the name with memset ...
HandleLogin ==
  /\ rpc = "handle" /\ msgs # <<>> /\ Head(msgs).op = "login"
  /\ name' = [name EXCEPT ![Current.info] = Blank]
  /\ rpc' = "login"
  /\ UNCHANGED <<connVars, mem, pub, socket_id, writing_buffer, writing_lock, serverVars,
                 procVars, lVars, polling, rindex, msgs, redirect_msg, rtargets, rpos,
                 need_to_flush_msg, wVars>>

\* ... second half: strncpy stores the new one and user_login builds the notice.
FinishLogin ==
  /\ rpc = "login"
  /\ LET c == Current.info   m == Head(msgs) IN
     /\ name' = [name EXCEPT ![c] = m.name]
     /\ due' = due \ {c}
     /\ \/ /\ redirect_msg' = SysMsg(c, m.seq, m.name)
           /\ rpc' = "targets" /\ UNCHANGED <<msgs, faults>>
        \/ Fault /\ rpc' = "handle" /\ msgs' = Tail(msgs) /\ UNCHANGED redirect_msg
  /\ UNCHANGED <<connVars, mem, pub, socket_id, writing_buffer, writing_lock, serverVars, alive,
                 lVars, polling, rindex, rtargets, rpos, need_to_flush_msg, wpc, wclients,
                 windex, already_written, wtargets, wpos, sent_count>>

\* TO-ALL and TO-C lines: create_p2p_msg_base_on_content, from this client to the target.
HandleChat ==
  /\ rpc = "handle" /\ msgs # <<>> /\ Head(msgs).op \in {"all", "to"}
  /\ LET c == Current.info   m == Head(msgs) IN
     \/ /\ redirect_msg' = P2PMsg(c, m, name[c])
        /\ rpc' = "targets" /\ UNCHANGED <<msgs, faults>>
     \/ Fault /\ msgs' = Tail(msgs) /\ UNCHANGED <<rpc, redirect_msg>>
  /\ UNCHANGED <<connVars, infoVars, serverVars, alive, lVars, polling, rindex, rtargets, rpos,
                 need_to_flush_msg, wVars>>

\* A line with no known prefix, or TO-C without a colon, is dropped.
HandleBad ==
  /\ rpc = "handle" /\ msgs # <<>> /\ Head(msgs).op = "bad"
  /\ msgs' = Tail(msgs)
  /\ UNCHANGED <<connVars, infoVars, serverVars, procVars, lVars, rpc, polling, rindex,
                 redirect_msg, rtargets, rpos, need_to_flush_msg, wVars>>

\* deliver_msg_to_all_clients: copies the pointers in the list, under the lock ...
DeliverSnapshot ==
  /\ rpc = "targets" /\ rpc' = "deliver" /\ rpos' = 1
  /\ \/ rtargets' = get_client_list /\ UNCHANGED faults
     \/ Fault /\ rtargets' = <<>>
  /\ UNCHANGED <<connVars, infoVars, serverVars, alive, lVars, polling, rindex, msgs,
                 redirect_msg, need_to_flush_msg, wVars>>

\* ... and then looks at each ClientInfo without it.  A freed ClientInfo usually
\* still shows pub = FAIL; once the memory is reused, anything may happen.  A message
\* that finds no memory is lost, or, when some of its bytes are already stored, loses its
\* end, and counts as sent all the same.
DeliverOne ==
  /\ rpc = "deliver" /\ rpos \in DOMAIN rtargets
  /\ LET d == rtargets[rpos] IN
     \/ /\ pub[d] = "FAIL" \/ ~Wants(redirect_msg, d)
        /\ rpos' = rpos + 1 /\ UNCHANGED <<writing_buffer, need_to_flush_msg, alive, faults>>
     \/ /\ pub[d] = "SUCC" /\ Wants(redirect_msg, d) /\ d \notin writing_lock
        /\ \/ Enqueue(redirect_msg, d) /\ (UNCHANGED faults \/ Fault)
           \/ Fault /\ UNCHANGED writing_buffer
        /\ need_to_flush_msg' = TRUE /\ rpos' = rpos + 1 /\ UNCHANGED alive
     \/ /\ mem[d] = "freed" /\ alive' = FALSE
        /\ UNCHANGED <<rpos, writing_buffer, need_to_flush_msg, faults>>
  /\ UNCHANGED <<connVars, mem, name, pub, socket_id, writing_lock, serverVars, lVars,
                 rpc, polling, rindex, msgs, redirect_msg, rtargets, wVars>>

DeliverDone ==
  /\ rpc = "deliver" /\ rpos > Len(rtargets)
  /\ rpc' = "handle" /\ msgs' = Tail(msgs)
  /\ redirect_msg' = NoMsg /\ rtargets' = <<>> /\ rpos' = 1
  /\ UNCHANGED <<connVars, infoVars, serverVars, procVars, lVars, polling, rindex,
                 need_to_flush_msg, wVars>>

\* Sets the flush flag and signals con_to_flush, under the lock.
Notify ==
  /\ rpc = "notify" /\ rpc' = "event" /\ rindex' = rindex + 1
  /\ sign_to_flush_msg' = TRUE
  /\ wpc' = IF wpc = "wait" THEN "woken" ELSE wpc
  /\ UNCHANGED <<connVars, infoVars, clients, client_count, is_running, procVars, lVars, polling,
                 msgs, redirect_msg, rtargets, rpos, need_to_flush_msg, wclients, windex,
                 already_written, wtargets, wpos, sent_count, due>>

Reader == PollSnapshot \/ PollList \/ Poll \/ EventsDone \/ EventSkip \/ EventRead \/ EventException
          \/ HandleDone \/ HandleLogin \/ FinishLogin \/ HandleChat \/ HandleBad
          \/ DeliverSnapshot \/ DeliverOne \/ DeliverDone \/ Notify

-----------------------------------------------------------------------------
(* write_sockets *)

WCurrent == wclients[windex]

WriterSnapshot ==
  /\ wpc = "snapshot" /\ windex' = 1
  /\ \/ wclients' = get_client_list /\ wpc' = "flush" /\ UNCHANGED faults
     \/ Fault /\ wpc' = "exit" /\ wclients' = <<>>
  /\ UNCHANGED <<connVars, infoVars, serverVars, alive, lVars, rVars, already_written, wtargets,
                 wpos, sent_count, due>>

\* First loop: a FAIL client or an empty buffer is passed over ...
FlushSkip ==
  /\ wpc = "flush" /\ windex \in DOMAIN wclients
  /\ pub[WCurrent] = "FAIL" \/ writing_buffer[WCurrent] = <<>>
  /\ windex' = windex + 1
  /\ UNCHANGED <<connVars, infoVars, serverVars, procVars, lVars, rVars, wpc, wclients,
                 already_written, wtargets, wpos, sent_count, due>>

\* ... and flush_messages keeps the spin lock of any other until its buffer is written.
FlushBegin ==
  /\ wpc = "flush" /\ windex \in DOMAIN wclients
  /\ pub[WCurrent] = "SUCC" /\ writing_buffer[WCurrent] # <<>>
  /\ writing_lock' = writing_lock \cup {WCurrent}
  /\ wpc' = "write"
  /\ UNCHANGED <<connVars, mem, name, pub, socket_id, writing_buffer, serverVars, procVars,
                 lVars, rVars, wclients, windex, already_written, wtargets, wpos, sent_count, due>>

\* Mutant: flush_messages returns without SPIN_UNLOCK.
FlushLeaveLocked ==
  /\ wpc' = "flush" /\ windex' = windex + 1 /\ already_written' = FALSE
  /\ UNCHANGED writing_lock

\* Leaving flush_messages: the lock is released and the loop goes on.
FlushLeave ==
  /\ wpc' = "flush" /\ windex' = windex + 1 /\ already_written' = FALSE
  /\ writing_lock' = writing_lock \ {WCurrent}

\* write() blocks while the socket is full; after the peer has closed it succeeds
\* once more, and the answer is a reset.
WriteSocket ==
  /\ wpc = "write" /\ writing_buffer[WCurrent] # <<>>
  /\ LET c == WCurrent IN
     /\ \/ /\ sock[c] = "up" /\ room[c] > 0
           /\ room' = [room EXCEPT ![c] = @ - 1] /\ UNCHANGED sock
        \/ /\ sock[c] = "fin"
           /\ \E after \in {"fin", "pipe"} : sock' = [sock EXCEPT ![c] = after]
           /\ UNCHANGED room
     /\ out' = [out EXCEPT ![c] = Append(@, Head(writing_buffer[c]))]
     /\ writing_buffer' = [writing_buffer EXCEPT ![c] = Tail(@)]
     /\ IF Len(writing_buffer[c]) = 1
        THEN FlushLeave
        ELSE already_written' = TRUE /\ UNCHANGED <<wpc, windex, writing_lock>>
  /\ UNCHANGED <<inq, ncmd, opened, mem, name, pub, socket_id, serverVars, procVars, lVars,
                 rVars, wclients, wtargets, wpos, sent_count, due>>

\* write() = -1 as a size_t is not below 0: the loop of write_from_buffer ends only
\* when nothing was written before it in this call.
WriteError ==
  /\ wpc = "write" /\ sock[WCurrent] = "reset"
  /\ sock' = [sock EXCEPT ![WCurrent] = "pipe"]
  /\ IF already_written THEN UNCHANGED <<wpc, windex, already_written, writing_lock>>
                        ELSE FlushLeave
  /\ UNCHANGED <<room, inq, ncmd, out, opened, mem, name, pub, socket_id, writing_buffer,
                 serverVars, procVars, lVars, rVars, wclients, wtargets, wpos, sent_count, due>>

\* Writing to a broken connection raises SIGPIPE, which nothing catches.
WriteSignal ==
  /\ wpc = "write" /\ sock[WCurrent] = "pipe" /\ alive' = FALSE
  /\ UNCHANGED <<connVars, infoVars, serverVars, faults, lVars, rVars, wVars>>

FlushDone ==
  /\ wpc = "flush" /\ windex > Len(wclients)
  /\ wpc' = "scan" /\ windex' = 1
  /\ UNCHANGED <<connVars, infoVars, serverVars, procVars, lVars, rVars, wclients,
                 already_written, wtargets, wpos, sent_count, due>>

\* Second loop: the clients marked FAIL are logged out.
ScanSkip ==
  /\ wpc = "scan" /\ windex \in DOMAIN wclients /\ pub[WCurrent] = "SUCC"
  /\ windex' = windex + 1
  /\ UNCHANGED <<connVars, infoVars, serverVars, procVars, lVars, rVars, wpc, wclients,
                 already_written, wtargets, wpos, sent_count, due>>

ScanDone ==
  /\ wpc = "scan" /\ windex > Len(wclients)
  /\ wpc' = "check" /\ wclients' = <<>> /\ windex' = 1
  /\ UNCHANGED <<connVars, infoVars, serverVars, procVars, lVars, rVars, already_written,
                 wtargets, wpos, sent_count, due>>

\* Mutants: the client is looked for by name; or never found.
MatchingName(c) == {i \in DOMAIN clients : name[clients[i]] = name[c]}
MatchingNone(c) == {}

\* The list entries user_logout takes for the client: those with its descriptor.
Matching(c) == {i \in DOMAIN clients : socket_id[clients[i]] = socket_id[c]}

\* user_logout: the first match leaves the list, under the lock.
LogoutRemove ==
  /\ wpc = "scan" /\ windex \in DOMAIN wclients /\ pub[WCurrent] = "FAIL"
  /\ \/ \E k \in Matching(WCurrent) :
          /\ \A i \in Matching(WCurrent) : k <= i
          /\ clients' = RemoveAt(clients, k) /\ client_count' = client_count - 1
     \/ Matching(WCurrent) = {} /\ UNCHANGED <<clients, client_count>>
  /\ wpc' = "announce"
  /\ UNCHANGED <<connVars, infoVars, is_running, sign_to_flush_msg, procVars, lVars, rVars,
                 wclients, windex, already_written, wtargets, wpos, sent_count, due>>

\* Mutant: the notice is addressed to the client that left.
LogoutMsgToLeaver(c) ==
  [src |-> c, seq |-> LogoutSeq(c), target |-> name[c], exclude |-> name[c]]
LogoutMsg(c) == SysMsg(c, LogoutSeq(c), name[c])

\* The notice is delivered to a copy of the list; without memory for the notice
\* or the copy nobody gets it.
LogoutSnapshot ==
  /\ wpc = "announce" /\ wpos' = 1
  /\ \/ /\ wtargets' = get_client_list /\ wpc' = "deliver" /\ UNCHANGED faults
        /\ due' = {d \in Members(clients) : pub[d] = "SUCC" /\ name[d] \notin {Unknown, Blank}}
     \/ Fault /\ wtargets' = <<>> /\ wpc' = "close" /\ due' = {}
  /\ UNCHANGED <<connVars, infoVars, serverVars, alive, lVars, rVars, wclients, windex,
                 already_written, sent_count>>

LogoutDeliver ==
  /\ wpc = "deliver" /\ wpos \in DOMAIN wtargets
  /\ LET d == wtargets[wpos]   m == LogoutMsg(WCurrent) IN
     IF pub[d] = "SUCC" /\ Wants(m, d)
     THEN /\ sent_count' = TRUE
          /\ \/ Enqueue(m, d) /\ (UNCHANGED faults \/ Fault)
             \/ Fault /\ UNCHANGED writing_buffer
     ELSE UNCHANGED <<writing_buffer, sent_count, faults>>
  /\ wpos' = wpos + 1
  /\ UNCHANGED <<connVars, mem, name, pub, socket_id, writing_lock, serverVars, alive, lVars,
                 rVars, wpc, wclients, windex, already_written, wtargets, due>>

LogoutDelivered ==
  /\ wpc = "deliver" /\ wpos > Len(wtargets)
  /\ wpc' = "close" /\ wtargets' = <<>> /\ wpos' = 1
  /\ UNCHANGED <<connVars, infoVars, serverVars, procVars, lVars, rVars, wclients, windex,
                 already_written, sent_count, due>>

LogoutClose ==
  /\ wpc = "close" /\ wpc' = "release" /\ due' = {}
  /\ opened' = opened \ {WCurrent}
  /\ UNCHANGED <<sock, room, inq, ncmd, out, infoVars, serverVars, procVars, lVars, rVars,
                 wclients, windex, already_written, wtargets, wpos, sent_count>>

\* release_client_info destroys the buffers and frees the ClientInfo.
LogoutRelease ==
  /\ wpc = "release"
  /\ mem' = [mem EXCEPT ![WCurrent] = "freed"]
  /\ writing_buffer' = [writing_buffer EXCEPT ![WCurrent] = <<>>]
  /\ IF sent_count THEN wpc' = "sign" /\ UNCHANGED windex
                   ELSE wpc' = "scan" /\ windex' = windex + 1
  /\ sent_count' = FALSE
  /\ UNCHANGED <<connVars, name, pub, socket_id, writing_lock, serverVars, procVars, lVars,
                 rVars, wclients, already_written, wtargets, wpos, due>>

LogoutSign ==
  /\ wpc = "sign" /\ sign_to_flush_msg' = TRUE
  /\ wpc' = "scan" /\ windex' = windex + 1
  /\ UNCHANGED <<connVars, infoVars, clients, client_count, is_running, procVars, lVars, rVars,
                 wclients, already_written, wtargets, wpos, sent_count, due>>

\* Mutant: the loop goes on while there is something to flush.
WhileFlag == IF sign_to_flush_msg THEN "snapshot" ELSE "exit"

WNextRound == IF is_running THEN "snapshot" ELSE "exit"

\* The flag decides, under the lock, between waiting and the next round.
CheckFlag ==
  /\ wpc = "check"
  /\ wpc' = IF sign_to_flush_msg THEN WNextRound ELSE "wait"
  /\ UNCHANGED <<connVars, infoVars, serverVars, procVars, lVars, rVars, wclients, windex,
                 already_written, wtargets, wpos, sent_count, due>>

\* pthread_cond_timedwait returns: signalled ("woken"), after 100 ms, or at once when
\* tv_nsec is out of range ("wait").  The flag is cleared before the lock is released.
WakeUp ==
  /\ wpc \in {"wait", "woken"}
  /\ sign_to_flush_msg' = FALSE /\ wpc' = WNextRound
  /\ UNCHANGED <<connVars, infoVars, clients, client_count, is_running, procVars, lVars, rVars,
                 wclients, windex, already_written, wtargets, wpos, sent_count, due>>

Writer == WriterSnapshot \/ FlushSkip \/ FlushBegin \/ WriteSocket \/ WriteError \/ WriteSignal
          \/ FlushDone \/ ScanSkip \/ ScanDone \/ LogoutRemove \/ LogoutSnapshot
          \/ LogoutDeliver \/ LogoutDelivered \/ LogoutClose \/ LogoutRelease \/ LogoutSign
          \/ CheckFlag \/ WakeUp

-----------------------------------------------------------------------------
Next == alive /\ (Peer \/ Listener \/ Reader \/ Writer)

Spec == Init /\ [][Next]_vars

\* The scheduler runs every thread that can move; poll and pthread_cond_timedwait
\* have timeouts.  Nothing makes a client connect, send, read or leave.
Fairness ==
  /\ WF_vars(alive /\ (AddClient \/ StartReader \/ StartWriter \/ StopListening
                       \/ JoinReader \/ JoinWriter \/ MainRelease))
  /\ WF_vars(alive /\ Reader)
  /\ WF_vars(alive /\ Writer)

FairSpec == Spec /\ Fairness

-----------------------------------------------------------------------------
(* Properties *)

Stream(c) == out[c] \o writing_buffer[c]     \* all that c was ever sent, in order

\* The list holds each online client once, every entry points to a live ClientInfo with an
\* open descriptor, and client_count (which sizes every copy of the list) is its length.
ClientListSound ==
  /\ client_count = Len(clients)
  /\ \A i, j \in DOMAIN clients : i # j => clients[i] # clients[j]
  /\ \A c \in Members(clients) : mem[c] = "live" /\ c \in opened

InLogout(c) == wpc \in {"announce", "deliver", "close", "release"} /\ c = WCurrent

\* No client drops out of the list except by its own logout: user_logout looks for a
\* descriptor number, and the number of a closed socket is soon another client's.
OnlineIsListed ==
  \A c \in Client : mem[c] = "live" =>
    c \in Members(clients) \/ InLogout(c) \/ (lpc = "add" /\ c = accepted)

ReaderInLoop == rpc \in {"list", "poll", "event", "handle", "login", "targets", "deliver", "notify"}

\* read_sockets works on a copy of the list that it took before poll(), while the writing
\* thread frees clients: every socket that is polled, and not yet passed, is open, has the
\* polled number, and its ClientInfo is not freed.  The entries of clients marked FAIL (-1)
\* may be freed; the loop after poll() ignores them, the listing before it does not
\* (ReaderUsesLiveClients).
PolledClientsLive ==
  ReaderInLoop => \A i \in DOMAIN polling :
    i >= rindex /\ polling[i].fd # NoFd =>
      LET c == polling[i].info IN
      mem[c] = "live" /\ c \in opened /\ socket_id[c] = polling[i].fd

\* The clients of its snapshot the writing thread still has to visit.
ToVisit ==
  {i \in DOMAIN wclients :
     \/ wpc \in {"flush", "write"}
     \/ wpc \in {"scan", "announce", "deliver", "close", "release"} /\ i >= windex
     \/ wpc = "sign" /\ i > windex}

\* write_sockets works on a copy of the list too: what it still has to visit, and the
\* clients a running logout notice still goes to, are not freed.
WriterClientsLive ==
  /\ \A i \in ToVisit : mem[wclients[i]] = "live"
  /\ \A i \in DOMAIN wtargets : mem[wtargets[i]] = "live"

\* What one client gets from another arrives in the order it was sent, once, and nothing
\* of a client follows the notice that it has logged out.
StreamsOrdered ==
  \A c \in Client : LET s == Stream(c) IN
    \A i, j \in DOMAIN s : i < j /\ s[i].src = s[j].src => s[i].seq < s[j].seq

\* No client is sent its own message or a notice about itself (exclude).
NoEcho == \A c \in Client : \A i \in DOMAIN Stream(c) : Stream(c)[i].src # c

\* Nothing is queued for a client before the server has begun to handle its LOGIN
\* (filter_out); in the middle of a LOGIN the name is blank, no longer UNKNOWN_CLIENT, and
\* a logout notice may then be queued.
SilentUntilLogin == \A c \in Client : Stream(c) # <<>> => name[c] # Unknown

\* A TO-C message reaches only clients of that name (in scripts with one LOGIN each).
DirectToTarget ==
  \A c \in Client : \A i \in DOMAIN Stream(c) :
    LET m == Stream(c)[i] IN
    m.seq <= Lines(m.src) /\ Script[m.src][m.seq].op = "to"
      => name[c] = Script[m.src][m.seq].name

\* When the reading thread has delivered a message to all, every client in the list that
\* has logged in under another name has been sent it: a client added since the copy of
\* the list was taken cannot have logged in yet.  (Without memory for a copy, or for the
\* message, some get nothing.)
ToAllReachesEveryone ==
  faults = 0 /\ rpc = "deliver" /\ rpos > Len(rtargets) /\ redirect_msg.target = ToAll =>
    \A d \in Members(clients) :
      pub[d] = "SUCC" /\ name[d] \notin {Unknown, redirect_msg.exclude} =>
        \E i \in DOMAIN Stream(d) :
          Stream(d)[i] = [src |-> redirect_msg.src, seq |-> redirect_msg.seq]

Announced(d) ==
  \E i \in DOMAIN Stream(d) : Stream(d)[i] = [src |-> WCurrent, seq |-> LogoutSeq(WCurrent)]

\* When user_logout closes the socket, every client that was online under another name all
\* the while has been sent the notice, if there was memory for it.
LogoutAnnounced ==
  faults = 0 /\ wpc = "close" => \A d \in due :
    pub[d] = "SUCC" /\ name[d] \notin {Blank, name[WCurrent]} => Announced(d)

\* main frees the ServerInfo only when no thread uses it any more.
ThreadsJoinedBeforeRelease ==
  lpc \in {"release", "returned"} => rpc \in {"off", "exit"} /\ wpc \in {"off", "exit"}

\* A copy of the list holds "all the online clients": no ClientInfo is freed that the reading
\* thread is about to use, in the listing before poll() and in deliver_msg_to_all_clients.
ReaderUsesLiveClients ==
  /\ rpc = "list" => \A i \in DOMAIN polling : mem[polling[i].info] = "live"
  /\ rpc = "deliver" /\ rpos \in DOMAIN rtargets => mem[rtargets[rpos]] = "live"

\* README: a client with "some error in specified socket" is marked and logged out; so the
\* writing thread does not write to a broken connection (which would end the process).
NoWriteToBrokenSocket == wpc = "write" => sock[WCurrent] # "pipe"

NothingToDo ==
  /\ alive /\ wpc # "off" /\ rpc \in {"snapshot", "list", "poll"}
  /\ \A c \in Client : writing_buffer[c] = <<>>
  /\ \A c \in Members(clients) : pub[c] = "SUCC"

\* write_sockets: "no messages need to flush, wait for a while".
WriterWaitsWhenIdle == <>[]NothingToDo => []<>(wpc = "wait")
=============================================================================
