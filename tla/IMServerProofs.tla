--------------------------- MODULE IMServerProofs ---------------------------
(***************************************************************************)
(* The life of a ClientInfo in IMServer, for every number of clients and   *)
(* descriptors, every script and every interleaving of the three threads:  *)
(* the list, the poll loop and the writing thread never reach a freed one. *)
(***************************************************************************)
EXTENDS ServerInvariants, TLAPS

sharedVars == <<mem, pub, socket_id, opened, clients, client_count>>
loopVars   == <<rpc, polling, rindex>>
visitVars  == <<wpc, wclients, windex, wtargets>>
lifeVars   == <<sharedVars, loopVars, visitVars, lVars>>

-----------------------------------------------------------------------------
(* Sequences and sets *)

\* A connection descriptor is never -1.
LEMMA FdIsNumber == NoFd \notin Fd
  BY DEF NoFd, Fd

\* The tail insertion of a ClientNode.
LEMMA MembersAppend ==
  ASSUME NEW s \in Seq(Client), NEW c \in Client
  PROVE  Members(Append(s, c)) = Members(s) \cup {c}
<1>1. /\ DOMAIN Append(s, c) = DOMAIN s \cup {Len(s) + 1}
      /\ Append(s, c)[Len(s) + 1] = c
      /\ \A i \in DOMAIN s : Append(s, c)[i] = s[i]
  OBVIOUS
<1> QED BY <1>1 DEF Members

\* The removal of an entry from a list without duplicates takes out that client only.
LEMMA RemoveAtRemoves ==
  ASSUME NEW s \in Seq(Client), NEW k \in DOMAIN s,
         \A i, j \in DOMAIN s : i # j => s[i] # s[j]
  PROVE  /\ RemoveAt(s, k) \in Seq(Client)
         /\ Len(RemoveAt(s, k)) = Len(s) - 1
         /\ \A i, j \in DOMAIN RemoveAt(s, k) : i # j => RemoveAt(s, k)[i] # RemoveAt(s, k)[j]
         /\ Members(RemoveAt(s, k)) = Members(s) \ {s[k]}
<1> DEFINE t == RemoveAt(s, k)
           at(i) == IF i < k THEN i ELSE i + 1
<1>1. Len(s) \in Nat /\ DOMAIN s = 1..Len(s) /\ k \in 1..Len(s)
  OBVIOUS
<1>2. DOMAIN t = 1..(Len(s) - 1)
  BY DEF RemoveAt
<1>3. \A i \in DOMAIN t : at(i) \in DOMAIN s /\ at(i) # k /\ t[i] = s[at(i)]
  BY <1>1, <1>2 DEF RemoveAt
<1>4. t \in Seq(Client) /\ Len(t) = Len(s) - 1
  <2>1. \A i \in 1..(Len(s) - 1) : t[i] \in Client
    BY <1>2, <1>3
  <2>2. t = [i \in 1..(Len(s) - 1) |-> t[i]]
    BY DEF RemoveAt
  <2>3. Len(s) - 1 \in Nat
    BY <1>1
  <2> HIDE DEF t
  <2>4. t \in [1..(Len(s) - 1) -> Client]
    BY <2>1, <2>2
  <2> QED BY <2>3, <2>4
<1>5. \A i, j \in DOMAIN t : i # j => at(i) # at(j)
  BY <1>1, <1>2
<1>6. \A i, j \in DOMAIN t : i # j => t[i] # t[j]
  BY <1>3, <1>5
<1>7. Members(t) \subseteq Members(s) \ {s[k]}
  BY <1>1, <1>3 DEF Members
<1>8. ASSUME NEW i \in DOMAIN s, i # k PROVE s[i] \in Members(t)
  <2> DEFINE j == IF i < k THEN i ELSE i - 1
  <2>1. j \in DOMAIN t /\ at(j) = i
    BY <1>1, <1>2, <1>8
  <2>2. t[j] = s[i]
    BY <1>3, <2>1
  <2> QED BY <2>1, <2>2 DEF Members
<1>9. Members(s) \ {s[k]} \subseteq Members(t)
  BY <1>8 DEF Members
<1> QED BY <1>4, <1>6, <1>7, <1>9

-----------------------------------------------------------------------------
(* Consequences of the invariant *)

\* Every listed client is a live ClientInfo with an open descriptor of its own.
LEMMA Listed ==
  ASSUME LifeInv, NEW c \in Members(clients)
  PROVE  c \in Client /\ mem[c] = "live" /\ c \in opened /\ c <= accepted
<1>1. c \in Client /\ mem[c] = "live" /\ c \in opened
  BY DEF LifeInv, LifeTypes, ClientListSound, Members
<1> QED BY <1>1 DEF LifeInv, ConnectionInv, LifeTypes, Client

\* The writing thread has taken the client it is logging out from the list; its descriptor
\* is not -1 and its ClientInfo not the one handle_listen is adding.
LEMMA BeingLoggedOut ==
  ASSUME LifeInv, LoggingOut
  PROVE  /\ WCurrent \in Client /\ WCurrent \notin Members(clients)
         /\ mem[WCurrent] = "live" /\ pub[WCurrent] = "FAIL"
         /\ lpc = "add" => WCurrent # accepted
<1>1. /\ windex \in DOMAIN wclients /\ wclients \in Seq(Client)
      /\ WCurrent \notin Members(clients)
      /\ mem[WCurrent] = "live" /\ pub[WCurrent] = "FAIL"
  BY DEF LifeInv, LifeTypes, VisitInv
<1>2. WCurrent \in Client
  BY <1>1 DEF WCurrent
<1>3. lpc = "add" => pub[accepted] = "SUCC"
  BY DEF LifeInv, ConnectionInv
<1> QED BY <1>1, <1>2, <1>3

\* What the poll loop still has to look at is live.
LEMMA LoopIsSafe == LifeInv => PolledClientsLive
<1> SUFFICES ASSUME LifeInv, ReaderInLoop, NEW i \in DOMAIN polling,
                    i >= rindex, polling[i].fd # NoFd
             PROVE  LET c == polling[i].info IN
                    mem[c] = "live" /\ c \in opened /\ socket_id[c] = polling[i].fd
  BY DEF PolledClientsLive
<1>1. LET c == polling[i].info IN
      c \in Members(clients) /\ socket_id[c] = polling[i].fd
  BY DEF LifeInv, PollingInv
<1> QED BY <1>1, Listed

\* What the writing thread still has to visit is live.
LEMMA VisitIsSafe == LifeInv => WriterClientsLive
<1> SUFFICES ASSUME LifeInv PROVE WriterClientsLive
  OBVIOUS
<1>1. ASSUME NEW i \in ToVisit PROVE mem[wclients[i]] = "live"
  <2>1. CASE LoggingOut /\ i = windex
    BY <2>1, BeingLoggedOut DEF WCurrent
  <2>2. CASE wclients[i] \in Members(clients)
    BY <2>2, Listed
  <2> QED BY <2>1, <2>2 DEF LifeInv, VisitInv
<1>2. ASSUME NEW i \in DOMAIN wtargets PROVE mem[wtargets[i]] = "live"
  BY Listed DEF LifeInv, VisitInv
<1> QED BY <1>1, <1>2 DEF WriterClientsLive

-----------------------------------------------------------------------------
(* Steps that leave part of the state alone *)

\* A step of the reading thread that marks nobody keeps all but its own loop's invariant.
LEMMA ReaderFrame ==
  ASSUME LifeInv, UNCHANGED <<sharedVars, lVars, wclients, windex, wtargets>>,
         wpc' = wpc \/ (wpc = "wait" /\ wpc' = "woken"),
         rpc' = rpc \/ (rpc # "off" /\ rpc' # "off"),
         polling' \in Seq(PollEntry), rindex' \in Nat \ {0}, PollingInv'
  PROVE  LifeInv'
<1> USE DEF sharedVars, lVars
<1>1. LifeTypes'
  BY DEF LifeInv, LifeTypes
<1>2. ClientListSound'
  BY DEF LifeInv, ClientListSound, Members
<1>3. ConnectionInv'
  BY DEF LifeInv, ConnectionInv, Members
<1>4. (LoggingOut' = LoggingOut) /\ (ToVisit' = ToVisit) /\ (WCurrent' = WCurrent)
      /\ Members(clients)' = Members(clients) /\ (wpc' # "deliver" => wpc # "deliver")
  BY DEF LoggingOut, ToVisit, WCurrent, Members
<1>5. VisitInv'
  BY <1>4 DEF LifeInv, VisitInv
<1>6. OnlineIsListed'
  BY <1>4 DEF LifeInv, OnlineIsListed, InLogout, LoggingOut
<1>7. StartInv'
  BY DEF LifeInv, StartInv
<1> QED BY <1>1, <1>2, <1>3, <1>5, <1>6, <1>7 DEF LifeInv

\* The loop of read_sockets goes on, or it is left.
LEMMA LoopGoesOn ==
  ASSUME LifeInv, UNCHANGED <<clients, pub, socket_id, polling>>,
         rindex' \in Nat, rindex' >= rindex, ReaderInLoop' => ReaderInLoop
  PROVE  PollingInv'
<1> SUFFICES ASSUME ReaderInLoop, ReaderInLoop' PROVE PollingInv'
  BY DEF PollingInv
<1>1. rindex \in Nat /\ polling \in Seq(PollEntry)
  BY DEF LifeInv, LifeTypes
<1>2. \A i \in DOMAIN polling : i >= rindex' => i >= rindex
  BY <1>1
<1>3. Members(clients)' = Members(clients)
  BY DEF Members
<1> QED BY <1>2, <1>3 DEF LifeInv, PollingInv

LEMMA LoopIsLeft ==
  ASSUME ~ReaderInLoop'
  PROVE  PollingInv'
  BY DEF PollingInv

\* A step of the writing thread within the same snapshot, or outside of its loops, that
\* changes neither the list nor a ClientInfo.
LEMMA WriterFrame ==
  ASSUME LifeInv, UNCHANGED <<sharedVars, lVars, loopVars>>,
         wclients' \in Seq(Client), windex' \in Nat \ {0}, wtargets' \in Seq(Client),
         wpc # "off", wpc' # "off",
         VisitInv', \A c \in Client : InLogout(c) => InLogout(c)'
  PROVE  LifeInv'
<1> USE DEF sharedVars, lVars, loopVars
<1>1. LifeTypes'
  BY DEF LifeInv, LifeTypes
<1>2. ClientListSound'
  BY DEF LifeInv, ClientListSound, Members
<1>3. ConnectionInv'
  BY DEF LifeInv, ConnectionInv, Members
<1>4. Members(clients)' = Members(clients) /\ ReaderInLoop' = ReaderInLoop
  BY DEF Members, ReaderInLoop
<1>5. PollingInv'
  BY <1>4 DEF LifeInv, PollingInv
<1>6. OnlineIsListed'
  BY <1>4 DEF LifeInv, OnlineIsListed
<1>7. StartInv'
  BY DEF LifeInv, StartInv
<1> QED BY <1>1, <1>2, <1>3, <1>5, <1>6, <1>7 DEF LifeInv

\* A step of handle_listen or main that starts or joins a thread.
LEMMA ListenerFrame ==
  ASSUME LifeInv, UNCHANGED <<sharedVars, accepted, polling, rindex, wclients, windex, wtargets>>,
         lpc # "add", lpc' # "add", rpc' = rpc \/ rpc' = "snapshot",
         wpc' = wpc \/ (wpc = "off" /\ wpc' = "snapshot"), StartInv'
  PROVE  LifeInv'
<1> USE DEF sharedVars
<1>1. LifeTypes'
  BY DEF LifeInv, LifeTypes
<1>2. ClientListSound'
  BY DEF LifeInv, ClientListSound, Members
<1>3. ConnectionInv'
  BY DEF LifeInv, ConnectionInv, Members
<1>4. (LoggingOut' = LoggingOut) /\ (ToVisit' = ToVisit) /\ (WCurrent' = WCurrent)
      /\ Members(clients)' = Members(clients) /\ (wpc' # "deliver" => wpc # "deliver")
  BY DEF LoggingOut, ToVisit, WCurrent, Members
<1>5. VisitInv'
  BY <1>4 DEF LifeInv, VisitInv
<1>6. OnlineIsListed'
  BY <1>4 DEF LifeInv, OnlineIsListed, InLogout, LoggingOut
<1>7. PollingInv'
  <2>1. ReaderInLoop' => ReaderInLoop
    BY DEF ReaderInLoop
  <2> QED BY <2>1, LoopGoesOn DEF LifeInv, LifeTypes
<1> QED BY <1>1, <1>2, <1>3, <1>5, <1>6, <1>7 DEF LifeInv

\* A step that none of this is about.
LEMMA NothingMoves ==
  ASSUME LifeInv, UNCHANGED lifeVars
  PROVE  LifeInv'
<1>1. UNCHANGED <<sharedVars, lVars, wclients, windex, wtargets, wpc, polling, rindex, rpc>>
  BY DEF lifeVars, loopVars, visitVars
<1>2. polling \in Seq(PollEntry) /\ rindex \in Nat \ {0}
  BY DEF LifeInv, LifeTypes
<1>3. PollingInv'
  BY <1>1, <1>2, LoopGoesOn DEF ReaderInLoop, sharedVars
<1> QED BY <1>1, <1>2, <1>3, ReaderFrame

-----------------------------------------------------------------------------
(* The steps *)

LEMMA InitLife == Init => LifeInv
<1> SUFFICES ASSUME Init PROVE LifeInv
  OBVIOUS
<1> USE DEF Init
<1>1. LifeTypes
  BY SizesAssumption DEF LifeTypes, Client, NoFd
<1>2. Members(clients) = {} /\ ToVisit = {} /\ ~LoggingOut /\ ~ReaderInLoop
  BY DEF Members, ToVisit, LoggingOut, ReaderInLoop
<1>3. ClientListSound
  BY <1>2 DEF ClientListSound
<1>4. ConnectionInv
  BY DEF ConnectionInv
<1>5. PollingInv /\ VisitInv
  BY <1>2 DEF PollingInv, VisitInv
<1>6. OnlineIsListed
  BY DEF OnlineIsListed
<1>7. StartInv
  BY DEF StartInv
<1> QED BY <1>1, <1>3, <1>4, <1>5, <1>6, <1>7 DEF LifeInv

LEMMA PeerStep == LifeInv /\ Peer => LifeInv'
<1> SUFFICES ASSUME LifeInv, NEW c \in Client, SendLine(c) \/ PeerRead(c) \/ PeerClose(c)
             PROVE  LifeInv'
  BY DEF Peer
<1>1. UNCHANGED lifeVars
  BY DEF SendLine, PeerRead, PeerClose, lifeVars, sharedVars, loopVars, visitVars, lVars,
         infoVars, serverVars, procVars, rVars, wVars
<1> QED BY <1>1, NothingMoves

\* The new connection gets a number that no open descriptor has, and no thread knows it yet.
LEMMA AcceptStep == LifeInv /\ Accept => LifeInv'
<1> SUFFICES ASSUME LifeInv, Accept PROVE LifeInv'
  OBVIOUS
<1> DEFINE c == accepted + 1
<1>1. /\ lpc = "accept" /\ accepted < NClients /\ accepted' = c /\ opened' = opened \cup {c}
      /\ lpc' \in {"add", "accept"}
      /\ UNCHANGED <<pub, clients, client_count>> /\ UNCHANGED loopVars
      /\ UNCHANGED visitVars
  BY DEF Accept, serverVars, rVars, wVars, loopVars, visitVars
<1>2. c \in Client /\ accepted \in Nat /\ NClients \in Nat /\ c > accepted
  BY <1>1, SizesAssumption DEF LifeInv, LifeTypes, Client
<1>3. PICK f \in FreeFds : socket_id' = [socket_id EXCEPT ![c] = f]
  BY DEF Accept
<1>4. \/ mem' = [mem EXCEPT ![c] = "live"] /\ lpc' = "add"
      \/ mem' = mem /\ lpc' = "accept"
  <2>1. mem \in [Client -> {"none", "live", "freed"}] /\ mem[c] = "none"
    BY <1>2 DEF LifeInv, LifeTypes, ConnectionInv
  <2> QED BY <1>2, <2>1 DEF Accept, new_client_info
<1>5. /\ c \notin opened /\ c \notin Members(clients)
      /\ \A d \in Members(clients) : d \in opened /\ d \in Client
  BY <1>2, Listed DEF LifeInv, ConnectionInv
<1>6. f \in Fd /\ f # NoFd /\ (\A d \in opened : socket_id[d] # f)
  BY FdIsNumber DEF FreeFds
<1>7. Members(clients)' = Members(clients)
  BY <1>1 DEF Members
<1>8. \A d \in Client : d # c => socket_id'[d] = socket_id[d] /\ mem'[d] = mem[d]
  BY <1>3, <1>4 DEF LifeInv, LifeTypes
<1>9. socket_id'[c] = f /\ (lpc' = "add" => mem'[c] = "live") /\ pub[c] = "SUCC"
      /\ (mem'[c] = "live" => lpc' = "add") /\ mem'[c] # "freed"
  BY <1>2, <1>3, <1>4 DEF LifeInv, LifeTypes, ConnectionInv
<1> HIDE DEF c
<1>10. LifeTypes'
  <2>1. socket_id' \in [Client -> Fd \cup {NoFd}] /\ mem' \in [Client -> {"none", "live", "freed"}]
    BY <1>2, <1>3, <1>4, <1>6 DEF LifeInv, LifeTypes
  <2>2. accepted' \in 0..NClients /\ opened' \subseteq Client
    BY <1>1, <1>2 DEF LifeInv, LifeTypes, Client
  <2> QED BY <1>1, <2>1, <2>2 DEF LifeInv, LifeTypes, loopVars, visitVars
<1>11. ClientListSound'
  <2>1. \A d \in Members(clients) : mem'[d] = "live" /\ d \in opened'
    BY <1>1, <1>5, <1>8, Listed
  <2> QED BY <1>1, <1>7, <2>1 DEF LifeInv, ClientListSound
<1>12. ConnectionInv'
  <2>1. \A d \in opened' : socket_id'[d] # NoFd
    BY <1>1, <1>5, <1>6, <1>8, <1>9 DEF LifeInv, ConnectionInv, LifeTypes
  <2>2. \A d, e \in opened' : socket_id'[d] = socket_id'[e] => d = e
    BY <1>1, <1>5, <1>6, <1>8, <1>9 DEF LifeInv, ConnectionInv, LifeTypes
  <2>3. \A d \in Client : d > accepted' => d # c /\ d > accepted
    BY <1>1, <1>2 DEF c, Client
  <2>4. \A d \in Client : d > accepted' => mem'[d] = "none" /\ d \notin opened' /\ pub'[d] = "SUCC"
    BY <1>1, <1>8, <2>3 DEF LifeInv, ConnectionInv
  <2>5. \A d \in Client : mem'[d] = "freed" => pub'[d] = "FAIL"
    BY <1>1, <1>8, <1>9 DEF LifeInv, ConnectionInv
  <2>6. lpc' = "add" => /\ accepted' \in opened' /\ mem'[accepted'] = "live"
                        /\ pub'[accepted'] = "SUCC" /\ accepted' \notin Members(clients)
    BY <1>1, <1>5, <1>9
  <2> QED BY <1>7, <2>1, <2>2, <2>4, <2>5, <2>6 DEF ConnectionInv
<1>13. PollingInv'
  <2>1. ReaderInLoop' = ReaderInLoop
    BY <1>1 DEF ReaderInLoop, loopVars
  <2>2. \A d \in Members(clients) : socket_id'[d] = socket_id[d]
    BY <1>5, <1>8
  <2> QED BY <1>1, <1>7, <2>1, <2>2 DEF LifeInv, PollingInv, loopVars
<1>14. VisitInv'
  <2>1. LoggingOut' = LoggingOut /\ ToVisit' = ToVisit /\ WCurrent' = WCurrent
    BY <1>1 DEF LoggingOut, ToVisit, WCurrent, visitVars
  <2>2. LoggingOut => WCurrent # c /\ WCurrent \in Client /\ mem[WCurrent] = "live"
    BY <1>2, BeingLoggedOut DEF LifeInv, ConnectionInv
  <2>3. LoggingOut => mem'[WCurrent] = "live"
    BY <1>8, <2>2
  <2> QED BY <1>1, <1>7, <2>1, <2>3 DEF LifeInv, VisitInv, visitVars
<1>15. OnlineIsListed'
  <2>1. \A d : InLogout(d) => InLogout(d)'
    BY <1>1 DEF InLogout, WCurrent, visitVars
  <2> QED BY <1>1, <1>7, <1>8, <1>9, <2>1 DEF LifeInv, OnlineIsListed
<1>16. StartInv'
  BY <1>1 DEF LifeInv, StartInv, loopVars, visitVars
<1> QED BY <1>10, <1>11, <1>12, <1>13, <1>14, <1>15, <1>16 DEF LifeInv

LEMMA AddClientStep == LifeInv /\ AddClient => LifeInv'
<1> SUFFICES ASSUME LifeInv, AddClient PROVE LifeInv'
  OBVIOUS
<1>1. /\ lpc = "add" /\ lpc' # "add" /\ clients' = Append(clients, accepted)
      /\ client_count' = client_count + 1
      /\ UNCHANGED <<mem, pub, socket_id, opened, accepted>> /\ UNCHANGED loopVars
      /\ UNCHANGED visitVars
  BY DEF AddClient, connVars, infoVars, rVars, wVars, loopVars, visitVars
<1>2. /\ accepted \in opened /\ mem[accepted] = "live" /\ accepted \in Client
      /\ accepted \notin Members(clients) /\ clients \in Seq(Client)
  BY <1>1 DEF LifeInv, ConnectionInv, LifeTypes
<1>3. Members(clients)' = Members(clients) \cup {accepted}
  BY <1>1, <1>2, MembersAppend DEF Members
<1>4. LifeTypes'
  BY <1>1, <1>2 DEF LifeInv, LifeTypes, loopVars, visitVars
<1>5. ClientListSound'
  <2>1. client_count' = Len(clients)'
    BY <1>1, <1>2 DEF LifeInv, ClientListSound
  <2>2. \A i \in DOMAIN clients : clients[i] # accepted
    BY <1>2 DEF Members
  <2>3. \A i, j \in DOMAIN clients' : i # j => clients'[i] # clients'[j]
    BY <1>1, <1>2, <2>2 DEF LifeInv, ClientListSound
  <2>4. \A d \in Members(clients)' : mem'[d] = "live" /\ d \in opened'
    BY <1>1, <1>2, <1>3, Listed
  <2> QED BY <2>1, <2>3, <2>4 DEF ClientListSound
<1>6. ConnectionInv'
  BY <1>1 DEF LifeInv, ConnectionInv
<1>7. PollingInv'
  BY <1>1, <1>3 DEF LifeInv, PollingInv, ReaderInLoop, loopVars
<1>8. VisitInv'
  <2>1. LoggingOut' = LoggingOut /\ ToVisit' = ToVisit /\ WCurrent' = WCurrent
    BY <1>1 DEF LoggingOut, ToVisit, WCurrent, visitVars
  <2>2. LoggingOut => WCurrent # accepted
    BY <1>1, BeingLoggedOut
  <2> QED BY <1>1, <1>3, <2>1, <2>2 DEF LifeInv, VisitInv, visitVars
<1>9. OnlineIsListed'
  <2>1. \A d : InLogout(d) => InLogout(d)'
    BY <1>1 DEF InLogout, WCurrent, visitVars
  <2> QED BY <1>1, <1>3, <2>1 DEF LifeInv, OnlineIsListed
<1>10. StartInv'
  <2>1. (lpc' = "reader" => rpc = "off") /\ lpc' # "writer"
    BY DEF AddClient
  <2> QED BY <1>1, <2>1 DEF LifeInv, StartInv, loopVars, visitVars
<1> QED BY <1>4, <1>5, <1>6, <1>7, <1>8, <1>9, <1>10 DEF LifeInv

\* handle_listen and main: besides a new client, a thread starts or has ended.
LEMMA ListenerStep == LifeInv /\ Listener => LifeInv'
<1> SUFFICES ASSUME LifeInv, Listener PROVE LifeInv'
  OBVIOUS
<1>1. StartInv
  BY DEF LifeInv
<1>2. CASE Accept \/ AddClient
  BY <1>2, AcceptStep, AddClientStep
<1>3. CASE StartReader \/ StartWriter
  <2>1. /\ UNCHANGED <<sharedVars, accepted, polling, rindex, wclients, windex, wtargets>>
        /\ lpc # "add" /\ lpc' # "add" /\ (rpc' = rpc \/ rpc' = "snapshot")
        /\ (wpc' = wpc \/ (wpc = "off" /\ wpc' = "snapshot")) /\ StartInv'
    BY <1>1, <1>3 DEF StartReader, StartWriter, StartInv, sharedVars, lVars, rVars, wVars,
                      connVars, infoVars, serverVars
  <2> QED BY <2>1, ListenerFrame
<1>4. CASE StopListening \/ JoinReader \/ JoinWriter \/ MainRelease
  <2>1. /\ UNCHANGED <<sharedVars, accepted, rpc, polling, rindex, wpc, wclients, windex, wtargets>>
        /\ lpc # "add" /\ lpc' # "add" /\ StartInv'
    BY <1>1, <1>4 DEF StopListening, JoinReader, JoinWriter, MainRelease, StartInv, sharedVars,
                      lVars, rVars, wVars, connVars, infoVars, serverVars
  <2> QED BY <2>1, ListenerFrame
<1> QED BY <1>2, <1>3, <1>4 DEF Listener

\* A new copy of the list: the clients in it that are polled are listed and not marked.
LEMMA PollSnapshotStep == LifeInv /\ PollSnapshot => LifeInv'
<1> SUFFICES ASSUME LifeInv, PollSnapshot PROVE LifeInv'
  OBVIOUS
<1>1. /\ UNCHANGED <<sharedVars, lVars>> /\ UNCHANGED visitVars
      /\ rpc = "snapshot" /\ rpc' # "off" /\ rindex' = 1
  BY DEF PollSnapshot, sharedVars, visitVars, lVars, wVars, connVars, infoVars, serverVars
<1>2. CASE rpc' = "exit" /\ polling' = polling
  <2>1. PollingInv'
    BY <1>2, LoopIsLeft DEF ReaderInLoop
  <2> QED BY <1>1, <1>2, <2>1, ReaderFrame DEF LifeInv, LifeTypes, visitVars
<1>3. CASE polling' = [i \in 1..Len(clients) |->
             [info |-> clients[i], fd |-> PollFd(clients[i]), revents |-> "none"]]
  <2>1. clients \in Seq(Client) /\ DOMAIN clients = 1..Len(clients) /\ Len(clients) \in Nat
    BY DEF LifeInv, LifeTypes
  <2>2. \A c \in Client : /\ PollFd(c) \in Fd \cup {NoFd}
                          /\ PollFd(c) # NoFd => PollFd(c) = socket_id[c] /\ pub[c] = "SUCC"
    BY DEF LifeInv, LifeTypes, PollFd
  <2>3. \A i \in 1..Len(clients) :
          [info |-> clients[i], fd |-> PollFd(clients[i]), revents |-> "none"] \in PollEntry
    BY <2>1, <2>2 DEF PollEntry
  <2>4. polling' \in Seq(PollEntry) /\ DOMAIN polling' = 1..Len(clients)
    BY <1>3, <2>1, <2>3
  <2>5. \A i \in DOMAIN polling' : /\ polling'[i].info = clients[i]
                                   /\ polling'[i].fd = PollFd(clients[i])
    BY <1>3
  <2>6. PollingInv'
    <3>1. \A i, j \in DOMAIN polling' : i # j => polling'[i].info # polling'[j].info
      BY <2>1, <2>4, <2>5 DEF LifeInv, ClientListSound
    <3>2. \A i \in DOMAIN polling' :
             /\ polling'[i].info \in Members(clients) /\ polling'[i].info \in Client
             /\ polling'[i].fd = PollFd(polling'[i].info)
      BY <2>1, <2>4, <2>5 DEF Members
    <3>3. UNCHANGED <<clients, pub, socket_id>> /\ Members(clients)' = Members(clients)
      BY <1>1 DEF sharedVars, Members
    <3> QED BY <2>2, <3>1, <3>2, <3>3 DEF PollingInv
  <2> QED BY <1>1, <2>4, <2>6, ReaderFrame DEF visitVars
<1> QED BY <1>2, <1>3 DEF PollSnapshot

\* poll() changes nothing but the revents of the entries.
LEMMA PollStep == LifeInv /\ Poll => LifeInv'
<1> SUFFICES ASSUME LifeInv, Poll PROVE LifeInv'
  OBVIOUS
<1>1. /\ UNCHANGED <<sharedVars, lVars>> /\ UNCHANGED visitVars
      /\ rpc = "poll" /\ rpc' # "off" /\ rindex' = rindex
  BY DEF Poll, NextRound, sharedVars, visitVars, lVars, wVars, connVars, infoVars, serverVars
<1>2. polling \in Seq(PollEntry) /\ rindex \in Nat \ {0}
  BY DEF LifeInv, LifeTypes
<1>3. CASE rpc' = NextRound /\ polling' = <<>>
  <2>1. PollingInv'
    BY <1>3, LoopIsLeft DEF ReaderInLoop, NextRound
  <2>2. polling' \in Seq(PollEntry)
    BY <1>3
  <2> QED BY <1>1, <1>2, <2>1, <2>2, ReaderFrame DEF visitVars
<1> DEFINE ready == {i \in DOMAIN polling : Ready(polling[i])}
<1>4. ASSUME NEW bare \in SUBSET {i \in ready : HungUp(polling[i])},
             polling' = [i \in DOMAIN polling |->
                           [polling[i] EXCEPT !.revents = Revents(i, ready, bare)]]
      PROVE  LifeInv'
  <2>1. \A i : Revents(i, ready, bare) \in {"none", "in", "hup"}
    BY DEF Revents
  <2>2. DOMAIN polling' = DOMAIN polling
    BY <1>4
  <2>3. \A i \in DOMAIN polling : /\ polling'[i] \in PollEntry
                                  /\ polling'[i].info = polling[i].info
                                  /\ polling'[i].fd = polling[i].fd
    <3> TAKE i \in DOMAIN polling
    <3> DEFINE r == Revents(i, ready, bare)
    <3>1. polling[i] \in PollEntry /\ r \in {"none", "in", "hup"}
      BY <1>2, <2>1
    <3>2. polling'[i] = [polling[i] EXCEPT !.revents = r]
      BY <1>4
    <3> HIDE DEF r
    <3> QED BY <3>1, <3>2 DEF PollEntry
  <2>4. polling' \in Seq(PollEntry)
    <3>1. polling' = [i \in DOMAIN polling |-> polling'[i]]
      BY <1>4
    <3>2. polling' \in [DOMAIN polling -> PollEntry]
      BY <2>3, <3>1
    <3>3. DOMAIN polling = 1..Len(polling) /\ Len(polling) \in Nat
      BY <1>2
    <3> QED BY <3>2, <3>3
  <2>5. PollingInv'
    <3>1. ReaderInLoop
      BY <1>1 DEF ReaderInLoop
    <3>2. UNCHANGED <<clients, pub, socket_id>> /\ Members(clients)' = Members(clients)
      BY <1>1 DEF sharedVars, Members
    <3> QED BY <1>1, <2>2, <2>3, <3>1, <3>2 DEF LifeInv, PollingInv
  <2> QED BY <1>1, <1>2, <2>4, <2>5, ReaderFrame DEF visitVars
<1> QED BY <1>3, <1>4 DEF Poll

\* Only a listed client is marked FAIL, and the loop has passed it then.
LEMMA ExceptionStep == LifeInv /\ EventException => LifeInv'
<1> SUFFICES ASSUME LifeInv, EventException PROVE LifeInv'
  OBVIOUS
<1> DEFINE c == Current.info
<1>1. /\ UNCHANGED <<mem, socket_id, opened, clients, client_count, rpc, polling, lpc, accepted>>
      /\ UNCHANGED visitVars
      /\ rpc = "event" /\ rindex \in DOMAIN polling /\ polling[rindex].fd # NoFd
      /\ pub' = [pub EXCEPT ![c] = "FAIL"] /\ rindex' = rindex + 1
  BY DEF EventException, MarkAbnormal, Active, Current, visitVars, lVars, wVars, connVars,
         serverVars
<1>2. rindex \in Nat \ {0} /\ polling \in Seq(PollEntry) /\ pub \in [Client -> {"SUCC", "FAIL"}]
  BY DEF LifeInv, LifeTypes
<1>3. /\ ReaderInLoop /\ c = polling[rindex].info
      /\ c \in Members(clients)
  BY <1>1, <1>2 DEF LifeInv, PollingInv, ReaderInLoop, Current
<1>4. c \in Client /\ mem[c] = "live"
  BY <1>3, Listed
<1>5. pub'[c] = "FAIL" /\ (\A d \in Client : d # c => pub'[d] = pub[d])
  BY <1>1, <1>2, <1>4
<1>6. Members(clients)' = Members(clients) /\ ReaderInLoop' = ReaderInLoop
  BY <1>1 DEF Members, ReaderInLoop
<1>7. LifeTypes'
  <2>1. pub' \in [Client -> {"SUCC", "FAIL"}] /\ rindex' \in Nat \ {0}
    BY <1>1, <1>2, <1>4
  <2> QED BY <1>1, <2>1 DEF LifeInv, LifeTypes, visitVars
<1> HIDE DEF c
<1>8. ClientListSound'
  BY <1>1, <1>6 DEF LifeInv, ClientListSound
<1>9. ConnectionInv'
  <2>1. \A d \in Client : d > accepted => d # c
    BY <1>4 DEF LifeInv, ConnectionInv
  <2>2. lpc = "add" => accepted # c /\ accepted \in Client
    BY <1>3, Listed DEF LifeInv, LifeTypes, ConnectionInv
  <2>3. \A d \in Client : d > accepted => pub'[d] = "SUCC"
    BY <1>5, <2>1 DEF LifeInv, ConnectionInv
  <2>4. \A d \in Client : mem[d] = "freed" => pub'[d] = "FAIL"
    BY <1>4, <1>5 DEF LifeInv, ConnectionInv
  <2>5. lpc = "add" => pub'[accepted] = "SUCC"
    BY <1>5, <2>2 DEF LifeInv, ConnectionInv
  <2> QED BY <1>1, <1>6, <2>3, <2>4, <2>5 DEF LifeInv, ConnectionInv
<1>10. PollingInv'
  <2>1. ASSUME NEW i \in DOMAIN polling, i >= rindex', polling[i].fd # NoFd
        PROVE  LET d == polling[i].info IN
               d \in Members(clients) /\ pub'[d] = "SUCC" /\ socket_id[d] = polling[i].fd
    <3>1. i >= rindex /\ i # rindex
      BY <1>1, <1>2, <2>1
    <3>2. polling[i].info # c
      BY <1>1, <1>3, <3>1 DEF LifeInv, PollingInv
    <3>3. LET d == polling[i].info IN
          d \in Members(clients) /\ pub[d] = "SUCC" /\ socket_id[d] = polling[i].fd
      BY <1>3, <2>1, <3>1 DEF LifeInv, PollingInv
    <3> QED BY <1>5, <3>2, <3>3, Listed
  <2> QED BY <1>1, <1>3, <1>6, <2>1 DEF LifeInv, PollingInv
<1>11. VisitInv'
  <2>1. LoggingOut' = LoggingOut /\ ToVisit' = ToVisit /\ WCurrent' = WCurrent
    BY <1>1 DEF LoggingOut, ToVisit, WCurrent, visitVars
  <2>2. LoggingOut => WCurrent \in Client /\ WCurrent # c
    BY <1>3, BeingLoggedOut
  <2>3. LoggingOut => pub'[WCurrent] = "FAIL"
    BY <1>5, <2>2, BeingLoggedOut
  <2> QED BY <1>1, <1>6, <2>1, <2>3 DEF LifeInv, VisitInv, visitVars
<1>12. OnlineIsListed'
  <2>1. \A d : InLogout(d) => InLogout(d)'
    BY <1>1 DEF InLogout, WCurrent, visitVars
  <2> QED BY <1>1, <1>6, <2>1 DEF LifeInv, OnlineIsListed
<1>13. StartInv'
  BY <1>1 DEF LifeInv, StartInv, visitVars
<1> QED BY <1>7, <1>8, <1>9, <1>10, <1>11, <1>12, <1>13 DEF LifeInv

\* The reading thread: besides these three steps it moves on in its loop or leaves it.
LEMMA ReaderStep == LifeInv /\ Reader => LifeInv'
<1> SUFFICES ASSUME LifeInv, Reader PROVE LifeInv'
  OBVIOUS
<1>1. polling \in Seq(PollEntry) /\ rindex \in Nat \ {0}
  BY DEF LifeInv, LifeTypes
<1> USE DEF sharedVars, lVars, rVars, wVars, connVars, infoVars, serverVars
<1>2. CASE PollSnapshot \/ Poll \/ EventException
  BY <1>2, PollSnapshotStep, PollStep, ExceptionStep
<1>3. CASE EventsDone
  <2>1. /\ UNCHANGED <<sharedVars, lVars, wclients, windex, wtargets, wpc>>
        /\ rpc = "event" /\ rpc' # "off" /\ ~ReaderInLoop' /\ polling' = <<>> /\ rindex' = 1
    BY <1>3 DEF EventsDone, NextRound, ReaderInLoop
  <2> QED BY <2>1, LoopIsLeft, ReaderFrame
<1>4. ASSUME UNCHANGED <<sharedVars, lVars, wclients, windex, wtargets, polling>>,
             wpc' = wpc \/ (wpc = "wait" /\ wpc' = "woken"),
             rindex' = rindex \/ rindex' = rindex + 1, ReaderInLoop, rpc' # "off"
      PROVE  LifeInv'
  <2>1. rindex' \in Nat \ {0} /\ rindex' >= rindex /\ rpc # "off"
    BY <1>1, <1>4 DEF ReaderInLoop
  <2>2. PollingInv'
    BY <1>4, <2>1, LoopGoesOn
  <2> QED BY <1>1, <1>4, <2>1, <2>2, ReaderFrame
<1>5. CASE PollList \/ EventSkip \/ EventRead \/ HandleDone \/ HandleBad
  BY <1>4, <1>5 DEF PollList, EventSkip, EventRead, HandleDone, HandleBad, ReaderInLoop
<1>6. CASE HandleLogin \/ FinishLogin \/ HandleChat
  BY <1>4, <1>6 DEF HandleLogin, FinishLogin, HandleChat, ReaderInLoop
<1>7. CASE DeliverSnapshot \/ DeliverOne \/ DeliverDone \/ Notify
  BY <1>4, <1>7 DEF DeliverSnapshot, DeliverOne, DeliverDone, Notify, ReaderInLoop
<1> QED BY <1>2, <1>3, <1>5, <1>6, <1>7 DEF Reader

-----------------------------------------------------------------------------
(* The writing thread *)

\* A new copy of the list: everything in it is listed.
LEMMA WriterSnapshotStep == LifeInv /\ WriterSnapshot => LifeInv'
<1> SUFFICES ASSUME LifeInv, WriterSnapshot PROVE LifeInv'
  OBVIOUS
<1>1. /\ UNCHANGED <<sharedVars, lVars, loopVars>> /\ wtargets' = wtargets
      /\ wpc = "snapshot" /\ wpc' \in {"flush", "exit"} /\ windex' = 1
      /\ wclients' = clients \/ wclients' = <<>>
  BY DEF WriterSnapshot, get_client_list, sharedVars, loopVars, lVars, rVars, connVars,
         infoVars, serverVars
<1>2. clients \in Seq(Client) /\ wtargets = <<>>
  BY <1>1 DEF LifeInv, LifeTypes, VisitInv
<1>3. wclients' \in Seq(Client) /\ wtargets' \in Seq(Client)
  <2>1. <<>> \in Seq(Client)
    OBVIOUS
  <2> QED BY <1>1, <1>2, <2>1 DEF sharedVars
<1>4. Members(clients)' = Members(clients)
  BY <1>1 DEF Members, sharedVars
<1>5. VisitInv'
  <2>1. ~LoggingOut'
    BY <1>1 DEF LoggingOut
  <2>2. \A i, j \in DOMAIN wclients' : i # j => wclients'[i] # wclients'[j]
    BY <1>1 DEF LifeInv, ClientListSound
  <2>3. \A i \in DOMAIN wclients' : wclients'[i] \in Members(clients)
    BY <1>1 DEF Members
  <2> QED BY <1>1, <1>2, <1>4, <2>1, <2>2, <2>3 DEF VisitInv, ToVisit
<1>6. \A c \in Client : ~InLogout(c)
  BY <1>1 DEF InLogout
<1> QED BY <1>1, <1>3, <1>5, <1>6, WriterFrame

\* Within its loops the writing thread moves on, or starts over.
LEMMA VisitGoesOn ==
  ASSUME LifeInv, UNCHANGED <<sharedVars, lVars, loopVars, wclients>>,
         windex' \in Nat \ {0}, wtargets' = <<>>, ~LoggingOut, ~LoggingOut',
         wpc # "off", wpc' # "off",
         ToVisit' \subseteq ToVisit
  PROVE  LifeInv'
<1>1. Members(clients)' = Members(clients)
  BY DEF Members, sharedVars
<1>2. VisitInv'
  BY <1>1 DEF LifeInv, VisitInv
<1>3. \A c \in Client : ~InLogout(c)
  BY DEF InLogout, LoggingOut
<1> QED BY <1>2, <1>3, WriterFrame DEF LifeInv, LifeTypes

\* Flushing, and the end of the loops.
LEMMA FlushStep ==
  ASSUME LifeInv, FlushSkip \/ FlushBegin \/ WriteSocket \/ WriteError \/ WriteSignal
                  \/ FlushDone \/ ScanSkip
  PROVE  LifeInv'
<1>1. /\ UNCHANGED <<sharedVars, lVars, loopVars, wclients, wtargets>>
      /\ \/ /\ wpc \in {"flush", "write"} /\ wpc' \in {"flush", "write"}
            /\ windex' = windex \/ windex' = windex + 1
         \/ wpc = "flush" /\ wpc' = "scan" /\ windex' = 1
         \/ wpc = "scan" /\ wpc' = "scan" /\ windex' = windex + 1
  BY DEF FlushSkip, FlushBegin, WriteSocket, WriteError, WriteSignal, FlushDone, ScanSkip,
         FlushLeave, sharedVars, loopVars, lVars, rVars, wVars, connVars, infoVars, serverVars
<1>2. /\ windex \in Nat \ {0} /\ wclients \in Seq(Client) /\ wtargets = <<>>
      /\ DOMAIN wclients \subseteq Nat
  BY <1>1 DEF LifeInv, LifeTypes, VisitInv
<1>3. ToVisit' \subseteq ToVisit
  BY <1>1, <1>2 DEF ToVisit
<1>4. ~LoggingOut /\ ~LoggingOut'
  BY <1>1 DEF LoggingOut
<1> QED BY <1>1, <1>2, <1>3, <1>4, VisitGoesOn

LEMMA RoundStep ==
  ASSUME LifeInv, ScanDone \/ CheckFlag \/ WakeUp
  PROVE  LifeInv'
<1>1. /\ UNCHANGED <<sharedVars, lVars, loopVars, wtargets>>
      /\ wpc \in {"scan", "check", "wait", "woken"}
      /\ wpc' \in {"check", "wait", "snapshot", "exit"}
      /\ wclients' = wclients \/ wclients' = <<>>
      /\ windex' = windex \/ windex' = 1
  BY DEF ScanDone, CheckFlag, WakeUp, WNextRound, sharedVars, loopVars, lVars, rVars, connVars,
         infoVars, serverVars
<1>2. wclients' \in Seq(Client) /\ windex' \in Nat \ {0} /\ wtargets = <<>>
  BY <1>1 DEF LifeInv, LifeTypes, VisitInv
<1>3. ToVisit' = {} /\ ~LoggingOut'
  BY <1>1 DEF ToVisit, LoggingOut
<1>4. \A i, j \in DOMAIN wclients' : i # j => wclients'[i] # wclients'[j]
  BY <1>1 DEF LifeInv, VisitInv
<1>5. VisitInv'
  BY <1>1, <1>2, <1>3, <1>4 DEF VisitInv
<1>6. \A c \in Client : ~InLogout(c)
  BY <1>1 DEF InLogout
<1> QED BY <1>1, <1>2, <1>5, <1>6, WriterFrame

\* The descriptor identifies the client in the list: open descriptors differ.
LEMMA MatchesItself ==
  ASSUME LifeInv, NEW c \in Members(clients)
  PROVE  Matching(c) = {i \in DOMAIN clients : clients[i] = c}
<1>1. \A i \in DOMAIN clients : clients[i] \in opened
  BY Listed DEF Members
<1>2. c \in opened
  BY Listed
<1> QED BY <1>1, <1>2 DEF Matching, LifeInv, ConnectionInv

\* user_logout takes exactly the client it is called for from the list.
LEMMA RemoveStep == LifeInv /\ LogoutRemove => LifeInv'
<1> SUFFICES ASSUME LifeInv, LogoutRemove PROVE LifeInv'
  OBVIOUS
<1> DEFINE c == WCurrent
<1>1. /\ UNCHANGED <<mem, pub, socket_id, opened, lpc, accepted>> /\ UNCHANGED loopVars
      /\ UNCHANGED <<wclients, windex, wtargets>>
      /\ wpc = "scan" /\ wpc' = "announce" /\ windex \in DOMAIN wclients /\ pub[c] = "FAIL"
  BY DEF LogoutRemove, loopVars, lVars, rVars, connVars, infoVars
<1>2. /\ wclients \in Seq(Client) /\ clients \in Seq(Client) /\ windex \in Nat \ {0}
      /\ wtargets = <<>> /\ DOMAIN wclients \subseteq Nat
  BY <1>1 DEF LifeInv, LifeTypes, VisitInv
<1>3. ~LoggingOut /\ LoggingOut' /\ windex \in ToVisit
  BY <1>1, <1>2 DEF LoggingOut, ToVisit
<1>4. c \in Members(clients)
  BY <1>3 DEF LifeInv, VisitInv, WCurrent
<1>5. Matching(c) = {i \in DOMAIN clients : clients[i] = c}
  BY <1>4, MatchesItself
<1>6. PICK k \in DOMAIN clients : /\ clients[k] = c /\ clients' = RemoveAt(clients, k)
                                  /\ client_count' = client_count - 1
  <2>1. Matching(c) # {}
    BY <1>4, <1>5 DEF Members
  <2> QED BY <1>5, <2>1 DEF LogoutRemove
<1>7. c \in Client /\ mem[c] = "live" /\ c \in opened
  BY <1>4, Listed
<1> HIDE DEF c
<1>8. \A i, j \in DOMAIN clients : i # j => clients[i] # clients[j]
  BY DEF LifeInv, ClientListSound
<1>9. /\ clients' \in Seq(Client) /\ Len(clients') = Len(clients) - 1
      /\ \A i, j \in DOMAIN clients' : i # j => clients'[i] # clients'[j]
      /\ Members(clients') = Members(clients) \ {c}
  BY <1>2, <1>6, <1>8, RemoveAtRemoves
<1>10. Members(clients)' = Members(clients) \ {c}
  BY <1>9 DEF Members
<1>11. LifeTypes'
  BY <1>1, <1>9 DEF LifeInv, LifeTypes, loopVars
<1>12. ClientListSound'
  <2>1. client_count' = Len(clients')
    BY <1>6, <1>9 DEF LifeInv, ClientListSound
  <2> QED BY <1>1, <1>9, <1>10, <2>1 DEF LifeInv, ClientListSound
<1>13. ConnectionInv'
  BY <1>1, <1>10 DEF LifeInv, ConnectionInv
<1>14. PollingInv'
  <2>1. ReaderInLoop' = ReaderInLoop
    BY <1>1 DEF ReaderInLoop, loopVars
  <2>2. \A d \in Members(clients) : pub[d] = "SUCC" => d \in Members(clients)'
    BY <1>1, <1>10
  <2> QED BY <1>1, <2>1, <2>2 DEF LifeInv, PollingInv, loopVars
<1>15. VisitInv'
  <2>1. WCurrent' = c
    BY <1>1 DEF WCurrent, c
  <2>2. ASSUME NEW i \in ToVisit' PROVE i = windex \/ wclients[i] \in Members(clients)'
    <3>1. i \in ToVisit /\ i \in DOMAIN wclients
      BY <1>1 DEF ToVisit
    <3>2. wclients[i] \in Members(clients)
      BY <1>3, <3>1 DEF LifeInv, VisitInv
    <3>3. i # windex => wclients[i] # c
      BY <1>1, <3>1 DEF LifeInv, VisitInv, WCurrent, c
    <3> QED BY <1>10, <3>2, <3>3
  <2>3. c \notin Members(clients)'
    BY <1>10
  <2> QED BY <1>1, <1>2, <1>3, <1>7, <2>1, <2>2, <2>3 DEF LifeInv, VisitInv
<1>16. OnlineIsListed'
  <2>1. \A d \in Client : ~InLogout(d) /\ (d = c => InLogout(d)')
    BY <1>1 DEF InLogout, WCurrent, c
  <2> QED BY <1>1, <1>10, <2>1 DEF LifeInv, OnlineIsListed
<1>17. StartInv'
  BY <1>1 DEF LifeInv, StartInv, loopVars
<1> QED BY <1>11, <1>12, <1>13, <1>14, <1>15, <1>16, <1>17 DEF LifeInv

\* The notice goes to clients of the list, which only this thread shortens.
LEMMA AnnounceStep ==
  ASSUME LifeInv, LogoutSnapshot \/ LogoutDeliver \/ LogoutDelivered
  PROVE  LifeInv'
<1>1. /\ UNCHANGED <<sharedVars, lVars, loopVars, wclients, windex>>
      /\ \/ /\ wpc = "announce" /\ wpc' = "deliver" /\ wtargets' = clients
         \/ /\ wpc = "announce" /\ wpc' = "close" /\ wtargets' = <<>>
         \/ /\ wpc = "deliver" /\ wpc' = "deliver" /\ wtargets' = wtargets
         \/ /\ wpc = "deliver" /\ wpc' = "close" /\ wtargets' = <<>>
  BY DEF LogoutSnapshot, LogoutDeliver, LogoutDelivered, get_client_list, sharedVars, loopVars,
         lVars, rVars, connVars, infoVars, serverVars
<1>2. /\ wclients \in Seq(Client) /\ windex \in Nat \ {0}
      /\ clients \in Seq(Client) /\ wtargets \in Seq(Client) /\ <<>> \in Seq(Client)
  BY DEF LifeInv, LifeTypes
<1>3. wtargets' \in Seq(Client)
  BY <1>1, <1>2
<1>4. /\ LoggingOut /\ LoggingOut' /\ ToVisit' = ToVisit /\ WCurrent' = WCurrent
      /\ Members(clients)' = Members(clients)
  BY <1>1 DEF LoggingOut, ToVisit, WCurrent, Members, sharedVars
<1>5. VisitInv'
  <2>1. \A i \in DOMAIN wtargets' : wtargets'[i] \in Members(clients)
    BY <1>1 DEF LifeInv, VisitInv, Members
  <2>2. wpc' # "deliver" => wtargets' = <<>>
    BY <1>1
  <2> QED BY <1>1, <1>4, <2>1, <2>2 DEF LifeInv, VisitInv, sharedVars
<1>6. \A d \in Client : InLogout(d) => InLogout(d)'
  BY <1>1, <1>4 DEF InLogout
<1> QED BY <1>1, <1>2, <1>3, <1>5, <1>6, WriterFrame

LEMMA CloseStep == LifeInv /\ LogoutClose => LifeInv'
<1> SUFFICES ASSUME LifeInv, LogoutClose PROVE LifeInv'
  OBVIOUS
<1>1. /\ UNCHANGED <<mem, pub, socket_id, clients, client_count, lpc, accepted>>
      /\ UNCHANGED loopVars /\ UNCHANGED <<wclients, windex, wtargets>>
      /\ wpc = "close" /\ wpc' = "release" /\ opened' = opened \ {WCurrent}
  BY DEF LogoutClose, loopVars, lVars, rVars, infoVars, serverVars
<1>2. LoggingOut /\ LoggingOut' /\ ToVisit' = ToVisit /\ WCurrent' = WCurrent
      /\ Members(clients)' = Members(clients) /\ ReaderInLoop' = ReaderInLoop
  BY <1>1 DEF LoggingOut, ToVisit, WCurrent, Members, ReaderInLoop, loopVars
<1>3. /\ WCurrent \notin Members(clients)
      /\ lpc = "add" => WCurrent # accepted
  BY <1>2, BeingLoggedOut
<1>4. LifeTypes'
  BY <1>1 DEF LifeInv, LifeTypes, loopVars
<1>5. ClientListSound'
  BY <1>1, <1>2, <1>3 DEF LifeInv, ClientListSound
<1>6. ConnectionInv'
  BY <1>1, <1>2, <1>3 DEF LifeInv, ConnectionInv
<1>7. PollingInv'
  BY <1>1, <1>2 DEF LifeInv, PollingInv, loopVars
<1>8. VisitInv'
  BY <1>1, <1>2 DEF LifeInv, VisitInv
<1>9. OnlineIsListed'
  <2>1. \A d \in Client : InLogout(d) => InLogout(d)'
    BY <1>1, <1>2 DEF InLogout
  <2> QED BY <1>1, <1>2, <2>1 DEF LifeInv, OnlineIsListed
<1>10. StartInv'
  BY <1>1 DEF LifeInv, StartInv, loopVars
<1> QED BY <1>4, <1>5, <1>6, <1>7, <1>8, <1>9, <1>10 DEF LifeInv

\* What is freed is marked, is in no list, and is not visited again.
LEMMA ReleaseStep == LifeInv /\ LogoutRelease => LifeInv'
<1> SUFFICES ASSUME LifeInv, LogoutRelease PROVE LifeInv'
  OBVIOUS
<1> DEFINE c == WCurrent
<1>1. /\ UNCHANGED <<pub, socket_id, opened, clients, client_count, lpc, accepted>>
      /\ UNCHANGED loopVars /\ UNCHANGED <<wclients, wtargets>>
      /\ wpc = "release" /\ mem' = [mem EXCEPT ![c] = "freed"]
      /\ \/ wpc' = "sign" /\ windex' = windex
         \/ wpc' = "scan" /\ windex' = windex + 1
  BY DEF LogoutRelease, loopVars, lVars, rVars, connVars, serverVars
<1>2. LoggingOut /\ ~LoggingOut'
  BY <1>1 DEF LoggingOut
<1>3. /\ c \in Client /\ c \notin Members(clients) /\ mem[c] = "live" /\ pub[c] = "FAIL"
      /\ lpc = "add" => c # accepted
  BY <1>2, BeingLoggedOut
<1>4. /\ windex \in Nat \ {0} /\ windex \in DOMAIN wclients /\ wclients \in Seq(Client)
      /\ DOMAIN wclients \subseteq Nat
      /\ mem \in [Client -> {"none", "live", "freed"}] /\ wtargets = <<>>
  BY <1>1, <1>2 DEF LifeInv, LifeTypes, VisitInv
<1>5. mem'[c] = "freed" /\ (\A d \in Client : d # c => mem'[d] = mem[d])
  BY <1>1, <1>3, <1>4
<1>6. Members(clients)' = Members(clients) /\ ReaderInLoop' = ReaderInLoop
  BY <1>1 DEF Members, ReaderInLoop, loopVars
<1>7. \A d \in Members(clients) : d \in Client /\ d # c /\ mem'[d] = "live"
  BY <1>3, <1>5, Listed
<1> HIDE DEF c
<1>8. LifeTypes'
  <2>1. mem' \in [Client -> {"none", "live", "freed"}] /\ windex' \in Nat \ {0}
    BY <1>1, <1>3, <1>4
  <2> QED BY <1>1, <2>1 DEF LifeInv, LifeTypes, loopVars
<1>9. ClientListSound'
  BY <1>1, <1>6, <1>7 DEF LifeInv, ClientListSound
<1>10. ConnectionInv'
  <2>1. \A d \in Client : d > accepted => d # c
    BY <1>3 DEF LifeInv, ConnectionInv
  <2>2. \A d \in Client : d > accepted => mem'[d] = "none"
    BY <1>5, <2>1 DEF LifeInv, ConnectionInv
  <2>3. \A d \in Client : mem'[d] = "freed" => pub[d] = "FAIL"
    BY <1>3, <1>5 DEF LifeInv, ConnectionInv
  <2>4. lpc = "add" => mem'[accepted] = "live"
    BY <1>3, <1>5 DEF LifeInv, LifeTypes, ConnectionInv
  <2> QED BY <1>1, <1>6, <2>2, <2>3, <2>4 DEF LifeInv, ConnectionInv
<1>11. PollingInv'
  BY <1>1, <1>6 DEF LifeInv, PollingInv, loopVars
<1>12. VisitInv'
  <2>1. ASSUME NEW i \in ToVisit' PROVE wclients[i] \in Members(clients)
    <3>1. i \in ToVisit /\ i # windex
      BY <1>1, <1>4 DEF ToVisit
    <3> QED BY <3>1 DEF LifeInv, VisitInv
  <2> QED BY <1>1, <1>2, <1>4, <1>6, <2>1 DEF LifeInv, VisitInv
<1>13. OnlineIsListed'
  <2>1. \A d \in Client : InLogout(d) => d = c
    BY DEF InLogout, c
  <2>2. ASSUME NEW d \in Client, mem'[d] = "live"
        PROVE  d \in Members(clients) \/ (lpc = "add" /\ d = accepted)
    BY <1>5, <2>1, <2>2 DEF LifeInv, OnlineIsListed
  <2> QED BY <1>1, <1>6, <2>2 DEF OnlineIsListed
<1>14. StartInv'
  BY <1>1 DEF LifeInv, StartInv, loopVars
<1> QED BY <1>8, <1>9, <1>10, <1>11, <1>12, <1>13, <1>14 DEF LifeInv

LEMMA SignStep == LifeInv /\ LogoutSign => LifeInv'
<1> SUFFICES ASSUME LifeInv, LogoutSign PROVE LifeInv'
  OBVIOUS
<1>1. /\ UNCHANGED <<sharedVars, lVars, loopVars, wclients, wtargets>>
      /\ wpc = "sign" /\ wpc' = "scan" /\ windex' = windex + 1
  BY DEF LogoutSign, sharedVars, loopVars, lVars, rVars, connVars, infoVars
<1>2. /\ windex \in Nat \ {0} /\ wclients \in Seq(Client) /\ DOMAIN wclients \subseteq Nat
      /\ wtargets = <<>>
  BY <1>1 DEF LifeInv, LifeTypes, VisitInv
<1>3. ToVisit' \subseteq ToVisit /\ ~LoggingOut /\ ~LoggingOut'
  BY <1>1, <1>2 DEF ToVisit, LoggingOut
<1> QED BY <1>1, <1>2, <1>3, VisitGoesOn

-----------------------------------------------------------------------------
(* The theorems *)

\* Every step keeps the invariant.
LEMMA NextLife == LifeInv /\ [Next]_vars => LifeInv'
<1> SUFFICES ASSUME LifeInv, [Next]_vars PROVE LifeInv'
  OBVIOUS
<1>1. CASE Peer \/ Listener \/ Reader
  BY <1>1, PeerStep, ListenerStep, ReaderStep
<1>2. CASE Writer
  BY <1>2, WriterSnapshotStep, FlushStep, RoundStep, RemoveStep, AnnounceStep, CloseStep,
     ReleaseStep, SignStep DEF Writer
<1>3. CASE UNCHANGED vars
  <2>1. UNCHANGED lifeVars
    BY <1>3 DEF vars, lifeVars, sharedVars, loopVars, visitVars, lVars, rVars, wVars, connVars,
                infoVars, serverVars
  <2> QED BY <2>1, NothingMoves
<1> QED BY <1>1, <1>2, <1>3 DEF Next

\* Whatever the peers and the three threads do, and whichever calls fail, the client list,
\* the copies that read_sockets and write_sockets work on, and the descriptors agree.
THEOREM Lifetimes == Spec => []LifeInv
<1>1. Init => LifeInv
  BY InitLife
<1>2. LifeInv /\ [Next]_vars => LifeInv'
  BY NextLife
<1> QED BY <1>1, <1>2, PTL DEF Spec

\* The list holds each online client once and no freed ClientInfo, and client_count is its
\* length.
THEOREM ListIsSound == Spec => []ClientListSound
<1>1. LifeInv => ClientListSound
  BY DEF LifeInv
<1> QED BY <1>1, Lifetimes, PTL

\* user_logout never takes another client from the list, although it looks for a descriptor
\* number, and the kernel hands out the numbers of closed sockets again.
THEOREM NobodyIsLost == Spec => []OnlineIsListed
<1>1. LifeInv => OnlineIsListed
  BY DEF LifeInv
<1> QED BY <1>1, Lifetimes, PTL

\* The sockets that read_sockets polls are open and their ClientInfos not freed until it has
\* passed them, whatever write_sockets frees meanwhile.  (Not so the entries marked FAIL, which
\* are not polled: see ReaderUsesLiveClients.)
THEOREM PolledAreLive == Spec => []PolledClientsLive
  BY Lifetimes, LoopIsSafe, PTL

\* write_sockets never visits, or sends a logout notice to, a ClientInfo it has freed.
THEOREM WriterIsSafe == Spec => []WriterClientsLive
  BY Lifetimes, VisitIsSafe, PTL

-----------------------------------------------------------------------------
(* The end of the program *)

\* A joined thread stays where it has ended; the reading thread is joined first.
JoinInv ==
  /\ lpc \in {"joinw", "release", "returned"} => rpc \in {"off", "exit"}
  /\ ThreadsJoinedBeforeRelease

\* A thread that has not started, or has ended, takes no step, and handle_listen starts
\* none once it has left its loop.
LEMMA NextJoin == JoinInv /\ [Next]_vars => JoinInv'
<1> SUFFICES ASSUME JoinInv, [Next]_vars PROVE JoinInv'
  OBVIOUS
<1> USE DEF JoinInv, ThreadsJoinedBeforeRelease, lVars, rVars, wVars
<1>1. CASE Peer
  BY <1>1 DEF Peer, SendLine, PeerRead, PeerClose
<1>2. CASE Listener
  <2>1. CASE Accept \/ AddClient \/ StartReader \/ StartWriter \/ StopListening
    <3>1. lpc' \notin {"joinw", "release", "returned"}
      BY <2>1 DEF Accept, AddClient, StartReader, StartWriter, StopListening
    <3> QED BY <3>1
  <2>2. CASE JoinReader \/ JoinWriter \/ MainRelease
    BY <2>2 DEF JoinReader, JoinWriter, MainRelease
  <2> QED BY <1>2, <2>1, <2>2 DEF Listener
<1>3. CASE Reader
  <2>1. rpc \notin {"off", "exit"} /\ lpc' = lpc
    BY <1>3 DEF Reader, PollSnapshot, PollList, Poll, EventsDone, EventSkip, EventRead,
                EventException, HandleDone, HandleLogin, FinishLogin, HandleChat, HandleBad,
                DeliverSnapshot, DeliverOne, DeliverDone, Notify
  <2> QED BY <2>1
<1>4. CASE Writer
  <2>1. wpc \notin {"off", "exit"} /\ lpc' = lpc /\ rpc' = rpc
    BY <1>4 DEF Writer, WriterSnapshot, FlushSkip, FlushBegin, WriteSocket, WriteError,
                WriteSignal, FlushDone, ScanSkip, ScanDone, LogoutRemove, LogoutSnapshot,
                LogoutDeliver, LogoutDelivered, LogoutClose, LogoutRelease, LogoutSign,
                CheckFlag, WakeUp
  <2> QED BY <2>1
<1>5. CASE UNCHANGED vars
  BY <1>5 DEF vars
<1> QED BY <1>1, <1>2, <1>3, <1>4, <1>5 DEF Next

\* main frees the ServerInfo only when no thread uses it any more.
THEOREM ReleaseIsSafe == Spec => []ThreadsJoinedBeforeRelease
<1>1. Init => JoinInv
  BY DEF Init, JoinInv, ThreadsJoinedBeforeRelease
<1>2. JoinInv => ThreadsJoinedBeforeRelease
  BY DEF JoinInv
<1> QED BY <1>1, <1>2, NextJoin, PTL DEF Spec
=============================================================================
