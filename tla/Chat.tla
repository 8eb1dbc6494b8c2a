-------------------------------- MODULE Chat --------------------------------
(***************************************************************************)
(* The server of IMServer.tla with IMClient processes as its peers.  A     *)
(* client is one thread: while it is blocked in write(), because the       *)
(* server has not read what it sent, it does not read its socket; and the  *)
(* server blocks in write() while that socket is full.                     *)
(***************************************************************************)
EXTENDS IMServer

CONSTANT InCap    \* lines the server's end of a connection holds before write() blocks

VARIABLE cpc      \* per client, "poll" or "write": where IMClient is

chatVars == <<vars, cpc>>

\* The user has pressed enter, the client has read the line and calls write() (or send(),
\* for the LOGIN line).
ClientStdin(c) ==
  /\ cpc[c] = "poll" /\ sock[c] = "up" /\ ncmd[c] < Lines(c)
  /\ cpc' = [cpc EXCEPT ![c] = "write"] /\ UNCHANGED vars

\* write() returns when there is room for the line at the other end.
ClientWrite(c) ==
  /\ cpc[c] = "write" /\ Len(inq[c]) < InCap /\ SendLine(c)
  /\ cpc' = [cpc EXCEPT ![c] = "poll"]

\* Mutant: the socket is left out of poll().
ClientNeverReads(c) == FALSE

\* POLLIN on the socket: the client reads and displays all there is.
ClientRead(c) == cpc[c] = "poll" /\ PeerRead(c) /\ UNCHANGED cpc

\* ctrl-c, wherever the client is.
ClientQuit(c) == PeerClose(c) /\ UNCHANGED cpc

ChatPeer == \E c \in Client : ClientStdin(c) \/ ClientWrite(c) \/ ClientRead(c) \/ ClientQuit(c)

ChatInit == Init /\ cpc = [c \in Client |-> "poll"]

ServerStep == (Listener \/ Reader \/ Writer) /\ UNCHANGED cpc

ChatNext == alive /\ (ChatPeer \/ ServerStep)

ChatSpec == ChatInit /\ [][ChatNext]_chatVars

\* Fairness for the threads as in IMServer, and for each client's process; nothing makes a
\* user type or leave.
ChatFairness ==
  /\ WF_chatVars(alive /\ UNCHANGED cpc
                 /\ (AddClient \/ StartReader \/ StartWriter \/ StopListening
                     \/ JoinReader \/ JoinWriter \/ MainRelease))
  /\ WF_chatVars(alive /\ Reader /\ UNCHANGED cpc)
  /\ WF_chatVars(alive /\ Writer /\ UNCHANGED cpc)
  /\ \A c \in Client : WF_chatVars(alive /\ (ClientWrite(c) \/ ClientRead(c)))

FairChatSpec == ChatSpec /\ ChatFairness

-----------------------------------------------------------------------------
(* Properties *)

\* README: "If there is data in the socket, just reads it and output": no client leaves its
\* socket full for ever, as long as the connection is up.
SocketDataIsRead ==
  \A c \in Client : []<>(room[c] > 0 \/ sock[c] # "up" \/ ~alive)

\* Why it does not always: a client is in write() because the server has not read what it
\* sent, the writing thread in write() because the client has not read, with the client's
\* spin lock, and the reading thread spins for that lock to queue a message for the client.
LockCycle ==
  \E c \in Client :
    /\ cpc[c] = "write" /\ Len(inq[c]) >= InCap
    /\ wpc = "write" /\ WCurrent = c /\ sock[c] = "up" /\ room[c] = 0
    /\ rpc = "deliver" /\ rpos \in DOMAIN rtargets /\ rtargets[rpos] = c
    /\ pub[c] = "SUCC" /\ Wants(redirect_msg, c)

\* It is the only way: unless the three wait for each other for ever, the data is read.
DataIsReadUnlessLocked == <>[]LockCycle \/ SocketDataIsRead

\* Unless they do, no client that has left stays: it is logged out and its ClientInfo freed,
\* although marking it does not wake the writing thread.
DepartedIsLoggedOut ==
  \/ <>[]LockCycle
  \/ \A c \in Client : []<>(sock[c] \in {"none", "up"} \/ mem[c] # "live" \/ ~alive)

\* Unless they do, the reading thread comes back to poll() again and again with the lines of
\* each client handled to the end, or the client given up: a client that is slow to read, or
\* whose lock the writing thread holds, only delays the others.
LinesHandled ==
  \/ <>[]LockCycle
  \/ \A c \in Client :
       []<>(\/ inq[c] = <<>> /\ rpc \in {"poll", "exit"}
            \/ c \notin Members(clients) \/ pub[c] = "FAIL" \/ ~alive)

\* Unless they do, no message stays queued: it is written to the socket or dropped with its
\* client.
QueuedIsFlushed ==
  \/ <>[]LockCycle
  \/ \A c \in Client : []<>(writing_buffer[c] = <<>> \/ ~alive)
=============================================================================
