-------------------------- MODULE ServerInvariants --------------------------
(***************************************************************************)
(* The inductive invariants of IMServer: LifeInv for the memory of the     *)
(* clients, DeliveryInv for who gets which message, in which order.        *)
(***************************************************************************)
EXTENDS IMServer

-----------------------------------------------------------------------------
(* The clients' memory *)

LifeTypes ==
  /\ mem \in [Client -> {"none", "live", "freed"}]
  /\ pub \in [Client -> {"SUCC", "FAIL"}]
  /\ socket_id \in [Client -> Fd \cup {NoFd}]
  /\ opened \subseteq Client /\ accepted \in 0..NClients
  /\ clients \in Seq(Client)
  /\ polling \in Seq(PollEntry) /\ rindex \in Nat \ {0}
  /\ wclients \in Seq(Client) /\ windex \in Nat \ {0} /\ wtargets \in Seq(Client)

\* Open descriptors differ; a connection to come has left no trace; only a client marked
\* FAIL is freed; the client about to be added is online and not listed yet.
ConnectionInv ==
  /\ \A c \in opened : socket_id[c] # NoFd
  /\ \A c, d \in opened : socket_id[c] = socket_id[d] => c = d
  /\ \A c \in Client : c > accepted => mem[c] = "none" /\ c \notin opened /\ pub[c] = "SUCC"
  /\ \A c \in Client : mem[c] = "freed" => pub[c] = "FAIL"
  /\ lpc = "add" => /\ accepted \in opened /\ mem[accepted] = "live" /\ pub[accepted] = "SUCC"
                    /\ accepted \notin Members(clients)

\* What the reading thread still has to look at is listed and not marked: only a client
\* that this thread has marked, and passed, is logged out.
PollingInv ==
  ReaderInLoop =>
    /\ \A i, j \in DOMAIN polling : i # j => polling[i].info # polling[j].info
    /\ \A i \in DOMAIN polling : i >= rindex /\ polling[i].fd # NoFd =>
         LET c == polling[i].info IN
         c \in Members(clients) /\ pub[c] = "SUCC" /\ socket_id[c] = polling[i].fd

LoggingOut == wpc \in {"announce", "deliver", "close", "release"}

\* What the writing thread still has to visit is listed, but for the client that it is
\* logging out, which is marked and no longer listed; so are the targets of the notice.
VisitInv ==
  /\ \A i, j \in DOMAIN wclients : i # j => wclients[i] # wclients[j]
  /\ \A i \in ToVisit : (LoggingOut /\ i = windex) \/ wclients[i] \in Members(clients)
  /\ LoggingOut => /\ windex \in DOMAIN wclients
                   /\ pub[WCurrent] = "FAIL" /\ mem[WCurrent] = "live"
                   /\ WCurrent \notin Members(clients)
  /\ wpc # "deliver" => wtargets = <<>>
  /\ \A i \in DOMAIN wtargets : wtargets[i] \in Members(clients)

\* The first client starts the reading thread, and that one done, the writing thread.
StartInv ==
  /\ lpc = "reader" => rpc = "off"
  /\ lpc = "writer" => rpc # "off" /\ wpc = "off"
  /\ rpc = "off" => wpc = "off"

\* No ClientInfo that the poll loop or the writing thread uses is freed, whatever the three
\* threads do: kept by every step, with the list and OnlineIsListed.
LifeInv ==
  /\ LifeTypes /\ StartInv
  /\ ClientListSound /\ OnlineIsListed
  /\ ConnectionInv /\ PollingInv /\ VisitInv

-----------------------------------------------------------------------------
(* The messages *)

\* A line of the client at rindex is in the reading thread's hands.
Handling == rpc \in {"handle", "login", "targets", "deliver"}

\* Line q of client s, as it travels.
LineOf(s, q) == [op |-> Script[s][q].op, name |-> Script[s][q].name, seq |-> q]

\* How many lines of s the reading thread has done with.
Finished(s) ==
  ncmd[s] - Len(inq[s]) - (IF Handling /\ s = Current.info THEN Len(msgs) ELSE 0)

\* The clients that the running delivery of each thread has not come to.
Rest(s, p) == {s[i] : i \in {j \in DOMAIN s : j >= p}}
RWaiting == Rest(rtargets, rpos)
WWaiting == Rest(wtargets, wpos)

\* While its lines are handled, a client is one of those polled.
HandlingInv ==
  /\ Handling \/ rpc = "notify" => rindex \in DOMAIN polling /\ Current.fd # NoFd
  /\ rpc \in {"login", "targets", "deliver"} => msgs # <<>>

\* The lines in the socket, and before them those in hand, are the ones that the client
\* sent, each with its number, and none is missing between them.
LinesInv ==
  \A s \in Client :
    /\ ncmd[s] <= Lines(s) /\ Finished(s) >= 0
    /\ \A i \in DOMAIN inq[s] : inq[s][i] = LineOf(s, ncmd[s] - Len(inq[s]) + i)
    /\ Handling /\ s = Current.info =>
         \A i \in DOMAIN msgs : msgs[i] = LineOf(s, Finished(s) + i)

\* What is delivered is the line in hand, and leaves out the name its client has then.
RedirectInv ==
  rpc \in {"targets", "deliver"} =>
    /\ redirect_msg.src = Current.info /\ redirect_msg.seq = Head(msgs).seq
    /\ redirect_msg.exclude = name[Current.info]
    /\ redirect_msg.target = IF Head(msgs).op = "to" THEN Head(msgs).name ELSE ToAll

\* A client has no name before its LOGIN is handled, so none when it is put into the list;
\* between memset and strncpy the name is blank.
NamesInv ==
  /\ \A c \in Client : c > accepted => name[c] = Unknown
  /\ lpc = "add" => name[accepted] = Unknown
  /\ rpc = "login" => Head(msgs).op = "login" /\ name[Current.info] = Blank
  /\ \A d \in due : name[d] # Unknown

\* Both threads deliver to each client at most once.
TargetsInv ==
  /\ rpc = "deliver" => \A i, j \in DOMAIN rtargets : i # j => rtargets[i] # rtargets[j]
  /\ \A i, j \in DOMAIN wtargets : i # j => wtargets[i] # wtargets[j]

\* Where a message that c was sent comes from: a line done with, the line in hand, if c has
\* had its turn, or the logout of a client that is gone or about to be.
Explained(c, m) ==
  LET s == m.src IN
  /\ m.seq >= 1
  /\ \/ m.seq <= Finished(s)
     \/ /\ m.seq = Finished(s) + 1 /\ rpc = "deliver" /\ s = Current.info
        /\ c \notin RWaiting
     \/ /\ m.seq = LogoutSeq(s)
        /\ \/ mem[s] = "freed"
           \/ LoggingOut /\ wpc # "announce" /\ s = WCurrent /\ c \notin WWaiting

OriginInv == \A c \in Client : \A i \in DOMAIN Stream(c) : Explained(c, Stream(c)[i])

Got(d, s, q) == \E i \in DOMAIN Stream(d) : Stream(d)[i] = [src |-> s, seq |-> q]

\* As long as nothing has failed, a client that is to get the message to all has got it or
\* is still to come in the copy of the list; likewise for a logout notice.
ReachInv ==
  faults = 0 =>
    /\ rpc = "deliver" /\ redirect_msg.target = ToAll =>
         \A d \in Members(clients) :
           pub[d] = "SUCC" /\ name[d] \notin {Unknown, redirect_msg.exclude} =>
             d \in RWaiting \/ Got(d, redirect_msg.src, redirect_msg.seq)
    /\ wpc \in {"deliver", "close"} =>
         \A d \in due :
           pub[d] = "SUCC" /\ name[d] \notin {Blank, name[WCurrent]} =>
             d \in WWaiting \/ Got(d, WCurrent, LogoutSeq(WCurrent))

-----------------------------------------------------------------------------
(* Clients that log in once, as IMClient does *)

OneLogin ==
  \A c \in Client : \A p, q \in 1..Lines(c) :
    Script[c][p].op = "login" /\ Script[c][q].op = "login" => p = q

\* A client that has a name has no LOGIN to come.
LoginInv ==
  \A c \in Client : name[c] # Unknown =>
    \A q \in 1..Lines(c) : q > Finished(c) /\ Script[c][q].op = "login" =>
      rpc \in {"login", "targets", "deliver"} /\ c = Current.info /\ q = Finished(c) + 1

\* So the client that a TO-C line has reached keeps the name it was found under.
DirectInv == OneLogin => LoginInv /\ DirectToTarget

-----------------------------------------------------------------------------
\* Every message that any client was sent has one origin and came in its turn.
DeliveryInv ==
  /\ TypeOK /\ HandlingInv /\ LinesInv /\ RedirectInv /\ NamesInv /\ TargetsInv
  /\ OriginInv /\ StreamsOrdered /\ NoEcho /\ SilentUntilLogin /\ ReachInv /\ DirectInv
=============================================================================
