-------------------------- MODULE ServerTypeProofs --------------------------
(***************************************************************************)
(* The types of IMServer's variables.  LifeInv has those of the variables  *)
(* it speaks of; TypeInv, in groups that change together, has the others.  *)
(***************************************************************************)
EXTENDS IMServerProofs

\* A function changed at one point, which need not be in its domain.
LEMMA ExceptType ==
  ASSUME NEW S, NEW T, NEW f \in [S -> T], NEW x, NEW v, x \in S => v \in T
  PROVE  [f EXCEPT ![x] = v] \in [S -> T]
  OBVIOUS

SockTypes ==
  /\ sock \in [Client -> {"none", "up", "fin", "reset", "pipe"}]
  /\ room \in [Client -> 0..SockCap]
  /\ inq \in [Client -> Seq(Line)]
  /\ ncmd \in [Client -> Nat]
  /\ out \in [Client -> Seq(Note)]

InfoTypes ==
  /\ name \in [Client -> Names]
  /\ writing_buffer \in [Client -> Seq(Note)]
  /\ writing_lock \subseteq Client

FlagTypes ==
  /\ is_running \in BOOLEAN /\ sign_to_flush_msg \in BOOLEAN /\ alive \in BOOLEAN
  /\ need_to_flush_msg \in BOOLEAN /\ already_written \in BOOLEAN /\ sent_count \in BOOLEAN

ProcTypes ==
  /\ faults \in 0..MaxFaults
  /\ lpc \in {"accept", "add", "reader", "writer", "stop", "joinr", "joinw",
              "release", "returned"}

ReaderTypes ==
  /\ rpc \in {"off", "snapshot", "list", "poll", "event", "handle", "login", "targets",
              "deliver", "notify", "exit"}
  /\ rpos \in Nat
  /\ msgs \in Seq(Line)
  /\ redirect_msg \in Redirect
  /\ rtargets \in Seq(Client)

WriterTypes ==
  /\ wpc \in {"off", "snapshot", "flush", "write", "scan", "announce", "deliver",
              "close", "release", "sign", "check", "wait", "woken", "exit"}
  /\ wpos \in Nat
  /\ due \subseteq Client

TypeInv ==
  SockTypes /\ InfoTypes /\ FlagTypes /\ ProcTypes /\ ReaderTypes /\ WriterTypes /\ HandlingInv

LEMMA TypeInvIsTypeOK == LifeInv /\ TypeInv => TypeOK
<1> SUFFICES ASSUME LifeInv, TypeInv PROVE TypeOK
  OBVIOUS
<1>1. LifeTypes /\ client_count = Len(clients)
  BY DEF LifeInv, ClientListSound
<1>2. client_count \in Int /\ rindex \in Nat /\ windex \in Nat
  BY <1>1 DEF LifeTypes
<1> QED BY <1>1, <1>2 DEF LifeTypes, TypeInv, SockTypes, InfoTypes, FlagTypes, ProcTypes,
                          ReaderTypes, WriterTypes, TypeOK

LEMMA InitTypes == Init => TypeInv
<1> SUFFICES ASSUME Init PROVE TypeInv
  OBVIOUS
<1> USE SizesAssumption DEF Init
<1>1. SockTypes
  BY DEF SockTypes
<1>2. InfoTypes
  BY DEF InfoTypes, Names
<1>3. ProcTypes
  <2>1. faults = 0 /\ 0 \in 0..MaxFaults
    BY DEF SizesAssumption
  <2> QED BY <2>1 DEF ProcTypes
<1>4. ReaderTypes
  <2>1. NoMsg \in Redirect
    BY DEF Redirect, NoMsg, Client, Names, SizesAssumption
  <2>2. msgs \in Seq(Line) /\ rtargets \in Seq(Client) /\ rpos \in Nat
    OBVIOUS
  <2>3. redirect_msg \in Redirect
    BY <2>1
  <2> QED BY <2>2, <2>3 DEF ReaderTypes
<1>5. WriterTypes
  BY DEF WriterTypes
<1>6. HandlingInv
  BY DEF HandlingInv, Handling
<1>7. FlagTypes
  BY DEF FlagTypes
<1> QED BY <1>1, <1>2, <1>3, <1>4, <1>5, <1>6, <1>7 DEF TypeInv

\* The client whose socket the reading thread looks at.
LEMMA CurrentIsClient ==
  ASSUME LifeTypes, rindex \in DOMAIN polling
  PROVE  Current \in PollEntry /\ Current.info \in Client
<1>1. Current \in PollEntry
  BY DEF LifeTypes, Current
<1> QED BY <1>1 DEF PollEntry

\* A line that a client sends carries its text and its number.
LEMMA SentLine ==
  ASSUME TypeInv, NEW c \in Client, SendLine(c)
  PROVE  LineOf(c, ncmd[c] + 1) \in Line /\ ncmd[c] + 1 \in 1..Lines(c)
         /\ inq' = [inq EXCEPT ![c] = Append(@, LineOf(c, ncmd[c] + 1))]
<1>1. ncmd[c] \in Nat /\ ncmd[c] < Lines(c)
  BY DEF TypeInv, SockTypes, SendLine
<1>2. Script[c] \in Seq([op : {"login", "all", "to", "bad"}, name : Name])
  BY ScriptAssumption DEF Client
<1>3. ncmd[c] + 1 \in 1..Lines(c) /\ Lines(c) \in Nat
  BY <1>1, <1>2 DEF Lines
<1>4. Script[c][ncmd[c] + 1] \in [op : {"login", "all", "to", "bad"}, name : Name]
  <2> DEFINE T == [op : {"login", "all", "to", "bad"}, name : Name]
             k == ncmd[c] + 1
  <2>1. Script[c] \in Seq(T) /\ k \in 1..Len(Script[c])
    BY <1>2, <1>3 DEF Lines
  <2> HIDE DEF T, k
  <2>2. Script[c][k] \in T
    BY <2>1
  <2> QED BY <2>2 DEF T, k
<1>5. LineOf(c, ncmd[c] + 1) \in Line
  BY <1>1, <1>4 DEF LineOf, Line
<1> QED BY <1>3, <1>5 DEF SendLine, LineOf

LEMMA SockTypesStep ==
  ASSUME LifeInv, TypeInv, [Next]_vars
  PROVE  SockTypes'
<1> USE DEF connVars
<1>1. LifeTypes /\ SockTypes /\ InfoTypes
  BY DEF LifeInv, TypeInv
<1>2. CASE Peer
  <2> PICK c \in Client : SendLine(c) \/ PeerRead(c) \/ PeerClose(c)
    BY <1>2 DEF Peer
  <2>1. CASE SendLine(c)
    <3>1. Append(inq[c], LineOf(c, ncmd[c] + 1)) \in Seq(Line)
      BY <1>1, <2>1, SentLine DEF SockTypes
    <3>2. inq' = [inq EXCEPT ![c] = Append(inq[c], LineOf(c, ncmd[c] + 1))]
          /\ inq \in [Client -> Seq(Line)]
      BY <1>1, <2>1, SentLine DEF SockTypes
    <3>4. inq' \in [Client -> Seq(Line)]
      BY <3>1, <3>2, ExceptType
    <3>3. ncmd' \in [Client -> Nat]
      BY <1>1, <2>1 DEF SockTypes, SendLine
    <3> QED BY <1>1, <2>1, <3>3, <3>4 DEF SockTypes, SendLine
  <2>2. CASE PeerRead(c)
    BY <1>1, <2>2, SizesAssumption DEF SockTypes, PeerRead
  <2>3. CASE PeerClose(c)
    BY <1>1, <2>3 DEF SockTypes, PeerClose
  <2> QED BY <2>1, <2>2, <2>3
<1>3. CASE Listener
  <2>1. CASE Accept
    BY <1>1, <2>1 DEF SockTypes, Accept
  <2>2. CASE ~Accept
    BY <1>1, <1>3, <2>2 DEF SockTypes, Listener, AddClient, StartReader, StartWriter,
       StopListening, JoinReader, JoinWriter, MainRelease
  <2> QED BY <2>1, <2>2
<1>4. CASE Reader
  <2>1. CASE EventRead
    <3>1. inq' = inq \/ inq' = [inq EXCEPT ![Current.info] = <<>>]
      BY <2>1 DEF EventRead
    <3>2. inq' \in [Client -> Seq(Line)]
      <4>1. inq \in [Client -> Seq(Line)] /\ <<>> \in Seq(Line)
        BY <1>1 DEF SockTypes
      <4> QED BY <3>1, <4>1, ExceptType
    <3> QED BY <1>1, <2>1, <3>2 DEF SockTypes, EventRead
  <2>2. CASE ~EventRead
    BY <1>1, <1>4, <2>2 DEF SockTypes, Reader, PollSnapshot, PollList, Poll, EventsDone,
       EventSkip, EventException, HandleDone, HandleLogin, FinishLogin, HandleChat, HandleBad,
       DeliverSnapshot, DeliverOne, DeliverDone, Notify
  <2> QED BY <2>1, <2>2
<1>5. CASE Writer
  <2>1. CASE WriteSocket
    <3>1. /\ out' = [out EXCEPT ![WCurrent] = Append(@, Head(writing_buffer[WCurrent]))]
          /\ writing_buffer[WCurrent] # <<>> /\ UNCHANGED <<inq, ncmd>>
          /\ \/ room' = room
             \/ room' = [room EXCEPT ![WCurrent] = @ - 1] /\ room[WCurrent] > 0
          /\ \/ sock' = sock
             \/ \E after \in {"fin", "pipe"} : sock' = [sock EXCEPT ![WCurrent] = after]
      BY <2>1 DEF WriteSocket
    <3>2. sock' \in [Client -> {"none", "up", "fin", "reset", "pipe"}]
      BY <1>1, <3>1 DEF SockTypes
    <3>3. room' \in [Client -> 0..SockCap]
      BY <1>1, <3>1, SizesAssumption DEF SockTypes
    <3>4. WCurrent \in Client =>
            Append(out[WCurrent], Head(writing_buffer[WCurrent])) \in Seq(Note)
      BY <1>1, <3>1 DEF InfoTypes, SockTypes
    <3>5. out' \in [Client -> Seq(Note)]
      BY <1>1, <3>1, <3>4, ExceptType DEF SockTypes
    <3> QED BY <1>1, <3>1, <3>2, <3>3, <3>5 DEF SockTypes
  <2>2. CASE WriteError
    BY <1>1, <2>2 DEF SockTypes, WriteError
  <2>3. CASE ~WriteSocket /\ ~WriteError
    BY <1>1, <1>5, <2>3 DEF SockTypes, Writer, WriterSnapshot, FlushSkip, FlushBegin,
       WriteSignal, FlushDone, ScanSkip, ScanDone, LogoutRemove, LogoutSnapshot, LogoutDeliver,
       LogoutDelivered, LogoutClose, LogoutRelease, LogoutSign, CheckFlag, WakeUp
  <2> QED BY <2>1, <2>2, <2>3
<1>6. CASE UNCHANGED vars
  BY <1>1, <1>6 DEF SockTypes, vars
<1> QED BY <1>2, <1>3, <1>4, <1>5, <1>6 DEF Next

\* A note of the message that one of the threads delivers.
LEMMA EnqueueType ==
  ASSUME LifeTypes, InfoTypes, NEW m \in Redirect, NEW d \in Client, Enqueue(m, d)
  PROVE  writing_buffer' \in [Client -> Seq(Note)]
<1>1. [src |-> m.src, seq |-> m.seq] \in Note
  BY DEF Redirect, Note
<1>2. Append(writing_buffer[d], [src |-> m.src, seq |-> m.seq]) \in Seq(Note)
  BY <1>1 DEF InfoTypes
<1> QED BY <1>2, ExceptType DEF InfoTypes, Enqueue

LEMMA LogoutMsgType ==
  ASSUME LifeInv, TypeInv, LoggingOut
  PROVE  LogoutMsg(WCurrent) \in Redirect
<1>1. WCurrent \in Client
  BY BeingLoggedOut
<1>2. name[WCurrent] \in Names /\ LogoutSeq(WCurrent) \in Nat
  BY <1>1, ScriptAssumption DEF TypeInv, InfoTypes, LogoutSeq, Lines, Client
<1> QED BY <1>1, <1>2 DEF LogoutMsg, SysMsg, Redirect

LEMMA InfoTypesStep ==
  ASSUME LifeInv, TypeInv, [Next]_vars
  PROVE  InfoTypes'
<1> USE DEF infoVars
<1>1. LifeTypes /\ SockTypes /\ InfoTypes /\ ReaderTypes
  BY DEF LifeInv, TypeInv
<1>2. CASE Peer
  BY <1>1, <1>2 DEF InfoTypes, Peer, SendLine, PeerRead, PeerClose
<1>3. CASE Listener
  BY <1>1, <1>3 DEF InfoTypes, Listener, Accept, AddClient, StartReader, StartWriter,
     StopListening, JoinReader, JoinWriter, MainRelease
<1>4. CASE Reader
  <2>1. CASE HandleLogin
    <3>1. name' \in [Client -> Names]
      BY <1>1, <2>1, ExceptType DEF InfoTypes, HandleLogin, Names
    <3> QED BY <1>1, <2>1, <3>1 DEF InfoTypes, HandleLogin
  <2>2. CASE FinishLogin
    <3>1. name' = [name EXCEPT ![Current.info] = Head(msgs).name] /\ rpc = "login"
      BY <2>2 DEF FinishLogin
    <3>2. Head(msgs) \in Line
      BY <1>1, <3>1 DEF TypeInv, HandlingInv, ReaderTypes
    <3>3. Head(msgs).name \in Names
      BY <3>2 DEF Line, Names
    <3>4. name' \in [Client -> Names]
      BY <1>1, <3>1, <3>3, ExceptType DEF InfoTypes
    <3> QED BY <1>1, <2>2, <3>4 DEF InfoTypes, FinishLogin
  <2>3. CASE DeliverOne
    <3>1. /\ UNCHANGED <<name, writing_lock>> /\ rpos \in DOMAIN rtargets
          /\ writing_buffer' = writing_buffer \/ Enqueue(redirect_msg, rtargets[rpos])
      BY <2>3 DEF DeliverOne
    <3>2. rtargets[rpos] \in Client /\ redirect_msg \in Redirect
      BY <1>1, <3>1 DEF ReaderTypes
    <3>3. writing_buffer' \in [Client -> Seq(Note)]
      BY <1>1, <3>1, <3>2, EnqueueType DEF InfoTypes
    <3> QED BY <1>1, <3>1, <3>3 DEF InfoTypes
  <2>4. CASE ~HandleLogin /\ ~FinishLogin /\ ~DeliverOne
    BY <1>1, <1>4, <2>4 DEF InfoTypes, Reader, PollSnapshot, PollList, Poll, EventsDone,
       EventSkip, EventRead, EventException, HandleDone, HandleChat, HandleBad, DeliverSnapshot,
       DeliverDone, Notify
  <2> QED BY <2>1, <2>2, <2>3, <2>4
<1>5. CASE Writer
  <2>1. CASE FlushBegin
    <3>1. WCurrent \in Client
      BY <1>1, <2>1 DEF FlushBegin, WCurrent, LifeTypes
    <3> QED BY <1>1, <2>1, <3>1 DEF InfoTypes, FlushBegin
  <2>2. CASE WriteSocket
    <3>1. /\ writing_buffer[WCurrent] # <<>> /\ UNCHANGED name
          /\ writing_buffer' = [writing_buffer EXCEPT ![WCurrent] = Tail(@)]
          /\ writing_lock' \subseteq writing_lock
      BY <2>2 DEF WriteSocket, FlushLeave
    <3>2. WCurrent \in Client => Tail(writing_buffer[WCurrent]) \in Seq(Note)
      BY <1>1, <3>1 DEF InfoTypes
    <3>3. writing_buffer' \in [Client -> Seq(Note)]
      BY <1>1, <3>1, <3>2, ExceptType DEF InfoTypes
    <3> QED BY <1>1, <3>1, <3>3 DEF InfoTypes
  <2>3. CASE WriteError
    BY <1>1, <2>3 DEF InfoTypes, WriteError, FlushLeave
  <2>4. CASE LogoutDeliver
    <3>1. /\ UNCHANGED <<name, writing_lock>> /\ wpos \in DOMAIN wtargets /\ wpc = "deliver"
          /\ writing_buffer' = writing_buffer \/ Enqueue(LogoutMsg(WCurrent), wtargets[wpos])
      BY <2>4 DEF LogoutDeliver
    <3>2. wtargets[wpos] \in Client /\ LogoutMsg(WCurrent) \in Redirect
      BY <1>1, <3>1, LogoutMsgType DEF LifeTypes, LoggingOut
    <3>3. writing_buffer' \in [Client -> Seq(Note)]
      BY <1>1, <3>1, <3>2, EnqueueType DEF InfoTypes
    <3> QED BY <1>1, <3>1, <3>3 DEF InfoTypes
  <2>5. CASE LogoutRelease
    <3>1. writing_buffer' \in [Client -> Seq(Note)]
      BY <1>1, <2>5, ExceptType DEF InfoTypes, LogoutRelease
    <3> QED BY <1>1, <2>5, <3>1 DEF InfoTypes, LogoutRelease
  <2>6. CASE ~FlushBegin /\ ~WriteSocket /\ ~WriteError /\ ~LogoutDeliver /\ ~LogoutRelease
    BY <1>1, <1>5, <2>6 DEF InfoTypes, Writer, WriterSnapshot, FlushSkip,
       WriteSignal, FlushDone, ScanSkip, ScanDone, LogoutRemove, LogoutSnapshot,
       LogoutDelivered, LogoutClose, LogoutSign, CheckFlag, WakeUp
  <2> QED BY <2>1, <2>2, <2>3, <2>4, <2>5, <2>6
<1>6. CASE UNCHANGED vars
  BY <1>1, <1>6 DEF InfoTypes, vars
<1> QED BY <1>2, <1>3, <1>4, <1>5, <1>6 DEF Next

\* A flag is left alone, set or cleared.
Flag(x, y) == y = x \/ y = TRUE \/ y = FALSE

LEMMA FlagTypesStep ==
  ASSUME LifeInv, TypeInv, [Next]_vars
  PROVE  FlagTypes'
<1> USE DEF Flag, procVars, serverVars, rVars, wVars
<1> SUFFICES /\ Flag(is_running, is_running') /\ Flag(sign_to_flush_msg, sign_to_flush_msg')
             /\ Flag(alive, alive') /\ Flag(need_to_flush_msg, need_to_flush_msg')
             /\ Flag(already_written, already_written') /\ Flag(sent_count, sent_count')
  <2>1. FlagTypes
    BY DEF TypeInv
  <2> QED BY <2>1, Zenon DEF FlagTypes
<1>2. CASE Peer
  BY <1>2 DEF Peer, SendLine, PeerRead, PeerClose
<1>3. CASE Listener
  BY <1>3 DEF Listener, Accept, AddClient, StartReader, StartWriter, StopListening,
     JoinReader, JoinWriter, MainRelease
<1>4. CASE Reader
  BY <1>4 DEF Reader, PollSnapshot, PollList, Poll, EventsDone, EventSkip, EventRead,
     EventException, HandleDone, HandleLogin, FinishLogin, HandleChat, HandleBad,
     DeliverSnapshot, DeliverOne, DeliverDone, Notify
<1>5. CASE Writer
  BY <1>5 DEF Writer, WriterSnapshot, FlushSkip, FlushBegin, WriteSocket, WriteError,
     WriteSignal, FlushDone, ScanSkip, ScanDone, LogoutRemove, LogoutSnapshot, LogoutDeliver,
     LogoutDelivered, LogoutClose, LogoutRelease, LogoutSign, CheckFlag, WakeUp, FlushLeave
<1>6. CASE UNCHANGED vars
  BY <1>6 DEF vars
<1> QED BY <1>2, <1>3, <1>4, <1>5, <1>6 DEF Next

LEMMA ProcTypesStep ==
  ASSUME LifeInv, TypeInv, [Next]_vars
  PROVE  ProcTypes'
<1> USE DEF procVars, lVars, Fault
<1>1. LifeTypes /\ ProcTypes /\ MaxFaults \in Nat
  BY SizesAssumption DEF LifeInv, TypeInv
<1>2. CASE Peer
  BY <1>1, <1>2 DEF ProcTypes, Peer, SendLine, PeerRead, PeerClose
<1>3. CASE Listener
  <2>1. CASE Accept
    <3>1. /\ lpc' \in {"add", "accept"}
          /\ faults' = faults \/ (faults < MaxFaults /\ faults' = faults + 1)
      BY <2>1 DEF Accept, new_client_info
    <3> QED BY <1>1, <3>1 DEF ProcTypes
  <2>2. CASE ~Accept
    BY <1>1, <1>3, <2>2 DEF ProcTypes, Listener, AddClient, StartReader, StartWriter,
       StopListening, JoinReader, JoinWriter, MainRelease
  <2> QED BY <2>1, <2>2
<1>4. CASE Reader
  <2>1. /\ UNCHANGED lpc
        /\ faults' = faults \/ (faults < MaxFaults /\ faults' = faults + 1)
    BY <1>4 DEF Reader, PollSnapshot, PollList, Poll, EventsDone, EventSkip, EventRead,
       EventException, HandleDone, HandleLogin, FinishLogin, HandleChat, HandleBad,
       DeliverSnapshot, DeliverOne, DeliverDone, Notify
  <2> QED BY <1>1, <2>1 DEF ProcTypes
<1>5. CASE Writer
  <2>1. /\ UNCHANGED lpc
        /\ faults' = faults \/ (faults < MaxFaults /\ faults' = faults + 1)
    BY <1>5 DEF Writer, WriterSnapshot, FlushSkip, FlushBegin, WriteSocket, WriteError,
       WriteSignal, FlushDone, ScanSkip, ScanDone, LogoutRemove, LogoutSnapshot, LogoutDeliver,
       LogoutDelivered, LogoutClose, LogoutRelease, LogoutSign, CheckFlag, WakeUp
  <2> QED BY <1>1, <2>1 DEF ProcTypes
<1>6. CASE UNCHANGED vars
  BY <1>1, <1>6 DEF ProcTypes, vars
<1> QED BY <1>2, <1>3, <1>4, <1>5, <1>6 DEF Next

\* The message that the reading thread builds from the line in hand.
LEMMA P2PType ==
  ASSUME LifeTypes, InfoTypes, NEW c \in Client, NEW m \in Line
  PROVE  P2PMsg(c, m, name[c]) \in Redirect /\ SysMsg(c, m.seq, m.name) \in Redirect
<1>1. name[c] \in Names /\ m.name \in Name /\ m.seq \in Nat /\ m.name \in Names
  BY DEF InfoTypes, Line, Names
<1>2. (IF m.op = "all" THEN ToAll ELSE m.name) \in Name \cup {ToAll}
  BY <1>1
<1> QED BY <1>1, <1>2 DEF P2PMsg, SysMsg, Redirect

LEMMA ReaderTypesStep ==
  ASSUME LifeInv, TypeInv, [Next]_vars
  PROVE  ReaderTypes'
<1> USE DEF rVars
<1>1. LifeTypes /\ SockTypes /\ InfoTypes /\ ReaderTypes
  BY DEF LifeInv, TypeInv
<1>2. CASE Peer
  BY <1>1, <1>2 DEF ReaderTypes, Peer, SendLine, PeerRead, PeerClose
<1>3. CASE Listener
  BY <1>1, <1>3 DEF ReaderTypes, Listener, Accept, AddClient, StartReader, StartWriter,
     StopListening, JoinReader, JoinWriter, MainRelease
<1>4. CASE Reader
  <2>1. CASE EventRead
    <3>1. /\ UNCHANGED <<rpos, redirect_msg, rtargets>> /\ rpc' = "handle"
          /\ msgs' = <<>> \/ (msgs' = inq[Current.info] /\ rindex \in DOMAIN polling)
      BY <2>1 DEF EventRead
    <3>2. msgs' \in Seq(Line)
      <4>1. CASE msgs' = <<>>
        BY <4>1
      <4>2. CASE msgs' = inq[Current.info] /\ rindex \in DOMAIN polling
        <5>1. Current.info \in Client /\ inq \in [Client -> Seq(Line)]
          BY <1>1, <4>2, CurrentIsClient DEF SockTypes
        <5> QED BY <4>2, <5>1
      <4> QED BY <3>1, <4>1, <4>2
    <3> QED BY <1>1, <3>1, <3>2 DEF ReaderTypes
  <2>2. CASE FinishLogin \/ HandleChat
    <3>1. /\ UNCHANGED <<rpos, rtargets>> /\ msgs # <<>>
          /\ rindex \in DOMAIN polling /\ rpc' \in {"targets", "handle"}
          /\ msgs' = msgs \/ msgs' = Tail(msgs)
          /\ \/ redirect_msg' = redirect_msg
             \/ redirect_msg' = P2PMsg(Current.info, Head(msgs), name[Current.info])
             \/ redirect_msg' = SysMsg(Current.info, Head(msgs).seq, Head(msgs).name)
      BY <2>2 DEF FinishLogin, HandleChat, TypeInv, HandlingInv, Handling
    <3>2. Head(msgs) \in Line /\ Tail(msgs) \in Seq(Line) /\ Current.info \in Client
      BY <1>1, <3>1, CurrentIsClient DEF ReaderTypes
    <3>3. redirect_msg' \in Redirect
      BY <1>1, <3>1, <3>2, P2PType DEF ReaderTypes
    <3> QED BY <1>1, <3>1, <3>2, <3>3 DEF ReaderTypes
  <2>3. CASE HandleBad
    <3>1. Tail(msgs) \in Seq(Line)
      BY <1>1, <2>3 DEF HandleBad, ReaderTypes
    <3> QED BY <1>1, <2>3, <3>1 DEF ReaderTypes, HandleBad
  <2>4. CASE DeliverSnapshot
    <3>1. /\ UNCHANGED <<msgs, redirect_msg>> /\ rpc' = "deliver" /\ rpos' = 1
          /\ rtargets' = clients \/ rtargets' = <<>>
      BY <2>4 DEF DeliverSnapshot, get_client_list
    <3>2. rtargets' \in Seq(Client)
      <4>1. clients \in Seq(Client) /\ <<>> \in Seq(Client)
        BY <1>1 DEF LifeTypes
      <4> QED BY <3>1, <4>1
    <3> QED BY <1>1, <3>1, <3>2 DEF ReaderTypes
  <2>5. CASE DeliverOne
    <3>1. /\ UNCHANGED <<rpc, msgs, redirect_msg, rtargets>>
          /\ rpos' = rpos \/ rpos' = rpos + 1
      BY <2>5 DEF DeliverOne
    <3> QED BY <1>1, <3>1 DEF ReaderTypes
  <2>6. CASE DeliverDone
    <3>1. /\ rpc' = "handle" /\ rpos' = 1 /\ msgs' = Tail(msgs)
          /\ redirect_msg' = NoMsg /\ rtargets' = <<>> /\ msgs # <<>>
      BY <2>6 DEF DeliverDone, TypeInv, HandlingInv
    <3>2. NoMsg \in Redirect
      BY SizesAssumption DEF Redirect, NoMsg, Client, Names
    <3>3. Tail(msgs) \in Seq(Line) /\ rtargets' \in Seq(Client)
      BY <1>1, <3>1 DEF ReaderTypes
    <3> HIDE DEF rVars
    <3> QED BY <1>1, <3>1, <3>2, <3>3 DEF ReaderTypes
  <2>7. CASE ~EventRead /\ ~FinishLogin /\ ~HandleChat /\ ~HandleBad /\ ~DeliverSnapshot
             /\ ~DeliverOne /\ ~DeliverDone
    BY <1>1, <1>4, <2>7 DEF ReaderTypes, Reader, PollSnapshot, PollList, Poll, EventsDone,
       EventSkip, EventException, HandleDone, HandleLogin, Notify, NextRound
  <2> QED BY <2>1, <2>2, <2>3, <2>4, <2>5, <2>6, <2>7
<1>5. CASE Writer
  BY <1>1, <1>5 DEF ReaderTypes, Writer, WriterSnapshot, FlushSkip, FlushBegin, WriteSocket,
     WriteError, WriteSignal, FlushDone, ScanSkip, ScanDone, LogoutRemove, LogoutSnapshot,
     LogoutDeliver, LogoutDelivered, LogoutClose, LogoutRelease, LogoutSign, CheckFlag, WakeUp
<1>6. CASE UNCHANGED vars
  BY <1>1, <1>6 DEF ReaderTypes, vars
<1> QED BY <1>2, <1>3, <1>4, <1>5, <1>6 DEF Next

LEMMA WriterTypesStep ==
  ASSUME LifeInv, TypeInv, [Next]_vars
  PROVE  WriterTypes'
<1> USE DEF wVars
<1>1. LifeTypes /\ WriterTypes
  BY DEF LifeInv, TypeInv
<1>2. CASE Peer
  BY <1>1, <1>2 DEF WriterTypes, Peer, SendLine, PeerRead, PeerClose
<1>3. CASE Listener
  BY <1>1, <1>3 DEF WriterTypes, Listener, Accept, AddClient, StartReader, StartWriter,
     StopListening, JoinReader, JoinWriter, MainRelease
<1>4. CASE Reader
  BY <1>1, <1>4 DEF WriterTypes, Reader, PollSnapshot, PollList, Poll, EventsDone, EventSkip,
     EventRead, EventException, HandleDone, HandleLogin, FinishLogin, HandleChat, HandleBad,
     DeliverSnapshot, DeliverOne, DeliverDone, Notify
<1>5. CASE Writer
  <2>1. CASE LogoutSnapshot
    <3>1. /\ wpos' = 1
          /\ wpc' \in {"deliver", "close"} /\ due' \subseteq Members(clients)
      BY <2>1 DEF LogoutSnapshot
    <3>2. Members(clients) \subseteq Client
      BY <1>1 DEF Members, LifeTypes
    <3> QED BY <1>1, <3>1, <3>2 DEF WriterTypes
  <2>2. CASE LogoutDeliver
    <3>1. UNCHANGED <<wpc, due>> /\ wpos' = wpos + 1
      BY <2>2 DEF LogoutDeliver
    <3> QED BY <1>1, <3>1 DEF WriterTypes
  <2>3. CASE WriteSocket \/ WriteError \/ WriteSignal
    BY <1>1, <2>3 DEF WriterTypes, WriteSocket, WriteError, WriteSignal, FlushLeave
  <2>4. CASE ~LogoutSnapshot /\ ~LogoutDeliver /\ ~(WriteSocket \/ WriteError \/ WriteSignal)
    BY <1>1, <1>5, <2>4 DEF WriterTypes, Writer, WriterSnapshot, FlushSkip, FlushBegin,
       FlushDone, ScanSkip, ScanDone, LogoutRemove, LogoutDelivered, LogoutClose,
       LogoutRelease, LogoutSign, CheckFlag, WakeUp, WNextRound
  <2> QED BY <2>1, <2>2, <2>3, <2>4
<1>6. CASE UNCHANGED vars
  BY <1>1, <1>6 DEF WriterTypes, vars
<1> QED BY <1>2, <1>3, <1>4, <1>5, <1>6 DEF Next

LEMMA HandlingStep ==
  ASSUME LifeInv, TypeInv, [Next]_vars
  PROVE  HandlingInv'
<1> USE DEF rVars
<1>1. HandlingInv
  BY DEF TypeInv
<1>2. CASE Peer
  BY <1>1, <1>2 DEF HandlingInv, Handling, Current, Peer, SendLine, PeerRead, PeerClose
<1>3. CASE Listener
  BY <1>1, <1>3 DEF HandlingInv, Handling, Current, Listener, Accept, AddClient, StartReader,
     StartWriter, StopListening, JoinReader, JoinWriter, MainRelease
<1>4. CASE Reader
  <2>1. CASE EventRead
    BY <2>1 DEF HandlingInv, Handling, Current, EventRead, Active
  <2>2. CASE HandleDone \/ HandleLogin \/ FinishLogin \/ HandleChat \/ HandleBad
    BY <1>1, <2>2 DEF HandlingInv, Handling, Current, HandleDone, HandleLogin, FinishLogin,
       HandleChat, HandleBad
  <2>3. CASE DeliverSnapshot \/ DeliverOne \/ DeliverDone
    BY <1>1, <2>3 DEF HandlingInv, Handling, Current, DeliverSnapshot, DeliverOne, DeliverDone
  <2>4. CASE \/ PollSnapshot \/ PollList \/ Poll \/ EventsDone \/ EventSkip
             \/ EventException \/ Notify
    <3>1. ~Handling' /\ rpc' # "notify"
      BY <2>4 DEF Handling, PollSnapshot, PollList, Poll, EventsDone, EventSkip,
         EventException, Notify, NextRound
    <3> QED BY <3>1 DEF HandlingInv, Handling
  <2> QED BY <1>4, <2>1, <2>2, <2>3, <2>4 DEF Reader
<1>5. CASE Writer
  BY <1>1, <1>5 DEF HandlingInv, Handling, Current, Writer, WriterSnapshot, FlushSkip,
     FlushBegin, WriteSocket, WriteError, WriteSignal, FlushDone, ScanSkip, ScanDone,
     LogoutRemove, LogoutSnapshot, LogoutDeliver, LogoutDelivered, LogoutClose, LogoutRelease,
     LogoutSign, CheckFlag, WakeUp
<1>6. CASE UNCHANGED vars
  BY <1>1, <1>6 DEF HandlingInv, Handling, Current, vars
<1> QED BY <1>2, <1>3, <1>4, <1>5, <1>6 DEF Next

LEMMA NextTypes == LifeInv /\ TypeInv /\ [Next]_vars => TypeInv'
  BY SockTypesStep, InfoTypesStep, FlagTypesStep, ProcTypesStep, ReaderTypesStep,
     WriterTypesStep, HandlingStep DEF TypeInv

\* The types with the groups and the facts of HandlingInv that their proof needs.
THEOREM TypesHold == Spec => [](LifeInv /\ TypeInv)
  BY Lifetimes, InitTypes, NextTypes, PTL DEF Spec

\* Every variable of the server keeps its type, and the program counters of its three
\* threads take only the values listed for them.
THEOREM TypeCorrect == Spec => []TypeOK
  BY TypesHold, TypeInvIsTypeOK, PTL
=============================================================================
