--------------------------- MODULE DeliveryProofs ---------------------------
(***************************************************************************)
(* Who gets which message in IMServer, and in which order, for every       *)
(* number of clients, every script and every interleaving of the threads.  *)
(***************************************************************************)
EXTENDS ServerTypeProofs, SequenceTheorems

-----------------------------------------------------------------------------
(* The lines on their way *)

\* The reading thread goes on to the next line in hand.
TakesNext ==
  /\ Handling /\ Handling' /\ msgs # <<>> /\ msgs' = Tail(msgs)
  /\ UNCHANGED <<ncmd, inq, polling, rindex>>

\* The lines stay where they are, and a thread that leaves the client has done with them.
LinesStay ==
  /\ UNCHANGED <<ncmd, inq>>
  /\ \/ Handling /\ Handling' /\ UNCHANGED <<msgs, polling, rindex>>
     \/ (Handling => msgs = <<>>) /\ ~Handling'

LEMMA LinesCases ==
  ASSUME LifeInv, TypeInv, [Next]_vars
  PROVE  LinesStay \/ TakesNext \/ EventRead \/ (\E c \in Client : SendLine(c))
<1> USE DEF rVars, connVars, Handling
<1>1. HandlingInv
  BY DEF TypeInv
<1>2. CASE Peer
  BY <1>2 DEF LinesStay, Peer, PeerRead, PeerClose
<1>3. CASE Listener
  <2>1. LinesStay
    BY <1>3 DEF LinesStay, Listener, Accept, AddClient, StartReader, StartWriter,
       StopListening, JoinReader, JoinWriter, MainRelease, StartInv, LifeInv
  <2> QED BY <2>1
<1>4. CASE Reader
  <2>1. CASE HandleLogin \/ DeliverSnapshot \/ DeliverOne
    BY <2>1 DEF LinesStay, HandleLogin, DeliverSnapshot, DeliverOne
  <2>2. CASE FinishLogin \/ HandleChat
    BY <1>1, <2>2 DEF LinesStay, TakesNext, FinishLogin, HandleChat, HandlingInv
  <2>3. CASE HandleBad \/ DeliverDone
    BY <1>1, <2>3 DEF TakesNext, HandleBad, DeliverDone, HandlingInv
  <2>4. CASE \/ PollSnapshot \/ PollList \/ Poll \/ EventsDone \/ EventSkip
             \/ EventException \/ Notify \/ HandleDone
    BY <2>4 DEF LinesStay, PollSnapshot, PollList, Poll, EventsDone, EventSkip, EventException,
       Notify, NextRound, HandleDone
  <2> QED BY <1>4, <2>1, <2>2, <2>3, <2>4 DEF Reader
<1>5. CASE Writer
  <2>1. UNCHANGED <<ncmd, inq, rpc, msgs, polling, rindex>>
    BY <1>5 DEF Writer, WriterSnapshot, FlushSkip,
       FlushBegin, WriteSocket, WriteError, WriteSignal, FlushDone, ScanSkip, ScanDone,
       LogoutRemove, LogoutSnapshot, LogoutDeliver, LogoutDelivered, LogoutClose,
       LogoutRelease, LogoutSign, CheckFlag, WakeUp
  <2> QED BY <2>1 DEF LinesStay
<1>6. CASE UNCHANGED vars
  BY <1>6 DEF LinesStay, vars
<1> QED BY <1>2, <1>3, <1>4, <1>5, <1>6 DEF Next

\* What the next lemmas need of the types.
LEMMA LineTypes ==
  ASSUME LifeInv, TypeInv, NEW s \in Client
  PROVE  /\ ncmd[s] \in Nat /\ inq[s] \in Seq(Line) /\ msgs \in Seq(Line)
         /\ Len(inq[s]) \in Nat /\ Len(msgs) \in Nat /\ Finished(s) \in Int
         /\ Handling => Current.info \in Client
<1>1. ncmd[s] \in Nat /\ inq[s] \in Seq(Line) /\ msgs \in Seq(Line)
  BY DEF TypeInv, SockTypes, ReaderTypes
<1>2. Len(inq[s]) \in Nat /\ Len(msgs) \in Nat
  BY <1>1
<1>3. Finished(s) \in Int
  BY <1>1, <1>2 DEF Finished
<1>4. Handling => Current.info \in Client
  BY CurrentIsClient DEF LifeInv, TypeInv, HandlingInv
<1> QED BY <1>1, <1>2, <1>3, <1>4

\* The reading thread finishes the lines of a client one by one; to send one and to read
\* one from the socket does not change how many are done.
LEMMA FinishedStep ==
  ASSUME LifeInv, TypeInv, [Next]_vars, NEW s \in Client
  PROVE  Finished(s)' = IF TakesNext /\ s = Current.info THEN Finished(s) + 1 ELSE Finished(s)
<1> USE DEF Finished
<1>1. /\ ncmd[s] \in Nat /\ inq[s] \in Seq(Line) /\ msgs \in Seq(Line)
      /\ Len(inq[s]) \in Nat /\ Len(msgs) \in Nat
  BY LineTypes
<1>2. CASE LinesStay
  <2>1. ~TakesNext
    <3> SUFFICES ASSUME TakesNext PROVE FALSE
      OBVIOUS
    <3>1. Len(Tail(msgs)) = Len(msgs) - 1
      BY <1>1 DEF TakesNext
    <3>2. Tail(msgs) = msgs
      BY <1>2 DEF TakesNext, LinesStay
    <3>3. Len(msgs) = Len(msgs) - 1
      BY <3>1, <3>2, Zenon
    <3> QED BY <1>1, <3>3
  <2>2. CASE Handling /\ Handling' /\ UNCHANGED <<msgs, polling, rindex>>
    BY <1>2, <2>1, <2>2 DEF LinesStay, Current
  <2>3. CASE (Handling => msgs = <<>>) /\ ~Handling'
    BY <1>1, <1>2, <2>1, <2>3 DEF LinesStay
  <2> QED BY <1>2, <2>2, <2>3 DEF LinesStay
<1>3. CASE TakesNext
  <2>1. Len(msgs') = Len(msgs) - 1
    BY <1>1, <1>3 DEF TakesNext
  <2> QED BY <1>1, <1>3, <2>1 DEF TakesNext, Current
<1>4. CASE EventRead
  <2>1. /\ rpc = "event" /\ rpc' = "handle" /\ UNCHANGED <<ncmd, polling, rindex>>
        /\ rindex \in DOMAIN polling
        /\ \/ msgs' = inq[Current.info] /\ inq' = [inq EXCEPT ![Current.info] = <<>>]
           \/ msgs' = <<>> /\ UNCHANGED inq
    BY <1>4 DEF EventRead
  <2>2. Current' = Current /\ ~Handling /\ Handling' /\ ~TakesNext
    BY <2>1 DEF Current, Handling, TakesNext
  <2>3. CASE msgs' = inq[Current.info] /\ inq' = [inq EXCEPT ![Current.info] = <<>>]
    <3>1. inq \in [Client -> Seq(Line)]
      BY DEF TypeInv, SockTypes
    <3>2. CASE s = Current.info
      <4>1. inq'[s] = <<>> /\ msgs' = inq[s]
        BY <2>3, <3>1, <3>2
      <4>2. Len(inq'[s]) = 0
        BY <4>1
      <4> QED BY <1>1, <2>1, <2>2, <3>2, <4>1, <4>2
    <3>3. CASE s # Current.info
      <4>1. inq'[s] = inq[s]
        BY <2>3, <3>1, <3>3
      <4> QED BY <1>1, <2>1, <2>2, <3>3, <4>1
    <3> QED BY <3>2, <3>3
  <2>4. CASE msgs' = <<>> /\ UNCHANGED inq
    BY <1>1, <2>1, <2>2, <2>4
  <2> QED BY <2>1, <2>3, <2>4
<1>5. ASSUME NEW c \in Client, SendLine(c) PROVE Finished(s)' = Finished(s) /\ ~TakesNext
  <2>1. /\ inq' = [inq EXCEPT ![c] = Append(@, LineOf(c, ncmd[c] + 1))]
        /\ ncmd' = [ncmd EXCEPT ![c] = @ + 1] /\ UNCHANGED <<rpc, polling, rindex, msgs>>
    BY <1>5, SentLine DEF SendLine, rVars
  <2>2. inq \in [Client -> Seq(Line)] /\ ncmd \in [Client -> Nat]
    BY DEF TypeInv, SockTypes
  <2>3. CASE s = c
    <3>1. ncmd'[s] = ncmd[s] + 1 /\ inq'[s] = Append(inq[s], LineOf(c, ncmd[c] + 1))
      BY <2>1, <2>2, <2>3
    <3>2. Len(inq'[s]) = Len(inq[s]) + 1
      BY <1>1, <3>1
    <3>3. ncmd'[s] # ncmd[s]
      BY <1>1, <3>1
    <3> QED BY <1>1, <2>1, <3>1, <3>2, <3>3 DEF Handling, Current, TakesNext
  <2>4. CASE s # c
    <3>1. ncmd'[s] = ncmd[s] /\ inq'[s] = inq[s]
      BY <2>1, <2>2, <2>4
    <3>2. ncmd'[c] # ncmd[c]
      BY <2>1, <2>2
    <3> QED BY <1>1, <2>1, <3>1, <3>2 DEF Handling, Current, TakesNext
  <2> QED BY <2>3, <2>4
<1> QED BY <1>2, <1>3, <1>4, <1>5, LinesCases

LEMMA LinesStep ==
  ASSUME LifeInv, TypeInv, LinesInv, [Next]_vars
  PROVE  LinesInv'
<1> SUFFICES ASSUME NEW s \in Client
             PROVE  /\ ncmd'[s] <= Lines(s) /\ Finished(s)' >= 0
                    /\ \A i \in DOMAIN inq'[s] :
                         inq'[s][i] = LineOf(s, ncmd'[s] - Len(inq'[s]) + i)
                    /\ (Handling /\ s = Current.info)' =>
                         \A i \in DOMAIN msgs' : msgs'[i] = LineOf(s, Finished(s)' + i)
  BY DEF LinesInv, Lines, LineOf
<1>1. /\ ncmd[s] <= Lines(s) /\ Finished(s) >= 0
      /\ \A i \in DOMAIN inq[s] : inq[s][i] = LineOf(s, ncmd[s] - Len(inq[s]) + i)
      /\ Handling /\ s = Current.info =>
           \A i \in DOMAIN msgs : msgs[i] = LineOf(s, Finished(s) + i)
  BY DEF LinesInv
<1>2. /\ ncmd[s] \in Nat /\ inq[s] \in Seq(Line) /\ msgs \in Seq(Line)
      /\ Len(inq[s]) \in Nat /\ Len(msgs) \in Nat /\ Finished(s) \in Int
  BY LineTypes
<1>3. inq \in [Client -> Seq(Line)] /\ ncmd \in [Client -> Nat]
  BY DEF TypeInv, SockTypes
<1>4. Finished(s)' = IF TakesNext /\ s = Current.info THEN Finished(s) + 1 ELSE Finished(s)
  BY FinishedStep
<1>5. Finished(s)' >= 0
  BY <1>1, <1>2, <1>4
<1>6. CASE LinesStay \/ TakesNext
  <2>1. UNCHANGED <<ncmd, inq>>
    BY <1>6 DEF LinesStay, TakesNext
  <2>2. ASSUME Handling', s = Current'.info, NEW i \in DOMAIN msgs'
        PROVE  msgs'[i] = LineOf(s, Finished(s)' + i)
    <3>1. Handling /\ UNCHANGED <<polling, rindex>>
      BY <1>6, <2>2 DEF LinesStay, TakesNext
    <3>2. s = Current.info
      BY <2>2, <3>1 DEF Current
    <3>3. CASE TakesNext
      <4>1. msgs # <<>> /\ msgs' = Tail(msgs)
        BY <3>3 DEF TakesNext
      <4>2. i \in Nat /\ i + 1 \in DOMAIN msgs /\ msgs'[i] = msgs[i + 1]
        BY <1>2, <2>2, <4>1
      <4>3. msgs[i + 1] = LineOf(s, Finished(s) + (i + 1))
        BY <1>1, <3>1, <3>2, <4>2
      <4>4. Finished(s) + (i + 1) = Finished(s)' + i
        BY <1>2, <1>4, <3>2, <3>3, <4>2
      <4> QED BY <4>2, <4>3, <4>4
    <3>4. CASE ~TakesNext
      <4>1. msgs' = msgs /\ Finished(s)' = Finished(s)
        BY <1>4, <1>6, <2>2, <3>4 DEF LinesStay
      <4> QED BY <1>1, <2>2, <3>1, <3>2, <4>1
    <3> QED BY <3>3, <3>4
  <2> QED BY <1>1, <1>5, <2>1, <2>2
<1>7. CASE EventRead
  <2>1. /\ rpc = "event" /\ rpc' = "handle" /\ UNCHANGED <<ncmd, polling, rindex>>
        /\ \/ msgs' = inq[Current.info] /\ inq' = [inq EXCEPT ![Current.info] = <<>>]
           \/ msgs' = <<>> /\ UNCHANGED inq
    BY <1>7 DEF EventRead
  <2>2. Current' = Current /\ ~Handling /\ ~TakesNext
    BY <2>1 DEF Current, Handling, TakesNext
  <2>3. Finished(s)' = Finished(s) /\ Finished(s) = ncmd[s] - Len(inq[s])
    BY <1>2, <1>4, <2>2 DEF Finished
  <2>4. inq'[s] = inq[s] \/ inq'[s] = <<>>
    BY <1>3, <2>1
  <2>5. \A i \in DOMAIN inq'[s] : inq'[s][i] = LineOf(s, ncmd'[s] - Len(inq'[s]) + i)
    BY <1>1, <2>1, <2>4
  <2>6. ASSUME s = Current'.info, NEW i \in DOMAIN msgs'
        PROVE  msgs'[i] = LineOf(s, Finished(s)' + i)
    <3>1. msgs' = inq[s]
      BY <2>1, <2>2, <2>6
    <3> QED BY <1>1, <2>3, <2>6, <3>1
  <2> QED BY <1>1, <1>5, <2>1, <2>5, <2>6
<1>8. ASSUME NEW c \in Client, SendLine(c)
      PROVE  /\ ncmd'[s] <= Lines(s)
             /\ \A i \in DOMAIN inq'[s] :
                  inq'[s][i] = LineOf(s, ncmd'[s] - Len(inq'[s]) + i)
             /\ (Handling /\ s = Current.info)' =>
                  \A i \in DOMAIN msgs' : msgs'[i] = LineOf(s, Finished(s)' + i)
  <2>1. /\ inq' = [inq EXCEPT ![c] = Append(@, LineOf(c, ncmd[c] + 1))]
        /\ ncmd' = [ncmd EXCEPT ![c] = @ + 1] /\ UNCHANGED <<rpc, polling, rindex, msgs>>
        /\ ncmd[c] + 1 \in 1..Lines(c) /\ LineOf(c, ncmd[c] + 1) \in Line
    BY <1>8, SentLine DEF SendLine, rVars
  <2>2. ~TakesNext
    <3>1. ncmd'[c] # ncmd[c]
      BY <1>3, <2>1
    <3> QED BY <3>1 DEF TakesNext
  <2>3. (Handling' <=> Handling) /\ Current' = Current /\ Finished(s)' = Finished(s)
    BY <1>4, <2>1, <2>2 DEF Handling, Current
  <2>4. (Handling /\ s = Current.info)' =>
          \A i \in DOMAIN msgs' : msgs'[i] = LineOf(s, Finished(s)' + i)
    BY <1>1, <2>1, <2>3
  <2>5. CASE s # c
    <3>1. ncmd'[s] = ncmd[s] /\ inq'[s] = inq[s]
      BY <1>3, <2>1, <2>5
    <3> QED BY <1>1, <2>4, <3>1
  <2>6. CASE s = c
    <3>1. ncmd'[s] = ncmd[s] + 1 /\ inq'[s] = Append(inq[s], LineOf(s, ncmd[s] + 1))
      BY <1>3, <2>1, <2>6
    <3>2. ncmd'[s] <= Lines(s)
      BY <2>1, <2>6, <3>1
    <3>3. Len(inq'[s]) = Len(inq[s]) + 1
      BY <1>2, <2>1, <2>6, <3>1
    <3>4. ncmd'[s] - Len(inq'[s]) = ncmd[s] - Len(inq[s])
      <4>1. ncmd'[s] = ncmd[s] + 1 /\ ncmd[s] \in Nat /\ Len(inq[s]) \in Nat
        BY <1>2, <3>1
      <4> QED BY <3>3, <4>1
    <3>5. ASSUME NEW i \in DOMAIN inq'[s]
          PROVE  inq'[s][i] = LineOf(s, ncmd'[s] - Len(inq'[s]) + i)
      <4>1. CASE i \in DOMAIN inq[s]
        <5>1. inq'[s][i] = inq[s][i]
          BY <1>2, <2>1, <2>6, <3>1, <4>1
        <5> QED BY <1>1, <3>4, <4>1, <5>1
      <4>2. CASE i \notin DOMAIN inq[s]
        <5>1. i = Len(inq[s]) + 1
          BY <1>2, <2>1, <2>6, <3>1, <3>3, <3>5, <4>2
        <5>2. inq'[s][i] = LineOf(s, ncmd[s] + 1)
          BY <1>2, <2>1, <2>6, <3>1, <5>1
        <5>3. ncmd'[s] - Len(inq'[s]) + i = ncmd[s] + 1
          BY <1>2, <3>4, <5>1
        <5> QED BY <5>2, <5>3
      <4> QED BY <4>1, <4>2
    <3> QED BY <2>4, <3>2, <3>5
  <2> QED BY <2>5, <2>6
<1> QED BY <1>5, <1>6, <1>7, <1>8, LinesCases

-----------------------------------------------------------------------------
(* The line in hand and the clients' names *)

\* Only read_sockets moves its own variables, but for the thread's start.
LEMMA ReaderAlone ==
  ASSUME [Next]_vars
  PROVE  Reader \/ (UNCHANGED <<rVars, name>> /\ (lpc' = "add" => lpc = "add" \/ Accept))
         \/ StartReader
<1>1. CASE Peer
  BY <1>1 DEF infoVars, lVars, Peer, SendLine, PeerRead, PeerClose
<1>2. CASE Listener
  BY <1>2 DEF infoVars, Listener, Accept, AddClient, StartWriter, StopListening,
     JoinReader, JoinWriter, MainRelease
<1>3. CASE Writer
  BY <1>3 DEF infoVars, lVars, Writer, WriterSnapshot, FlushSkip, FlushBegin, WriteSocket,
     WriteError, WriteSignal, FlushDone, ScanSkip, ScanDone, LogoutRemove, LogoutSnapshot,
     LogoutDeliver, LogoutDelivered, LogoutClose, LogoutRelease, LogoutSign, CheckFlag, WakeUp
<1>4. CASE UNCHANGED vars
  BY <1>4 DEF vars, infoVars, lVars
<1> QED BY <1>1, <1>2, <1>3, <1>4 DEF Next

\* The client whose lines are in hand is online, although write_sockets may be logging
\* others out.
LEMMA CurrentListed ==
  ASSUME LifeInv, TypeInv, Handling \/ rpc = "notify"
  PROVE  /\ Current.info \in Client /\ Current.info \in Members(clients)
         /\ pub[Current.info] = "SUCC" /\ mem[Current.info] = "live"
         /\ Current.info <= accepted
         /\ lpc = "add" => Current.info # accepted
<1>1. rindex \in DOMAIN polling /\ Current.fd # NoFd /\ rindex \in Nat
  BY DEF TypeInv, HandlingInv, LifeInv, LifeTypes
<1>2. ReaderInLoop /\ PollingInv
  BY DEF Handling, ReaderInLoop, LifeInv
<1>3. Current.info \in Members(clients) /\ pub[Current.info] = "SUCC"
  BY <1>1, <1>2 DEF PollingInv, Current
<1>4. lpc = "add" => accepted \notin Members(clients)
  BY DEF LifeInv, ConnectionInv
<1> QED BY <1>3, <1>4, Listed

\* A name changes only by the LOGIN in hand.
LEMMA NameCases ==
  ASSUME [Next]_vars
  PROVE  UNCHANGED name \/ HandleLogin \/ FinishLogin
<1>1. CASE Reader
  BY <1>1 DEF infoVars, Reader, PollSnapshot, PollList, Poll, EventsDone, EventSkip, EventRead,
     EventException, HandleDone, HandleChat, HandleBad, DeliverSnapshot, DeliverOne,
     DeliverDone, Notify
<1>2. CASE StartReader
  BY <1>2 DEF StartReader, infoVars
<1> QED BY <1>1, <1>2, ReaderAlone

LEMMA NameStep ==
  ASSUME LifeInv, TypeInv, NamesInv, [Next]_vars, NEW c \in Client
  PROVE  /\ name'[c] = name[c] \/ (Handling /\ c = Current.info)
         /\ name[c] # Unknown => name'[c] # Unknown
<1>1. name \in [Client -> Names]
  BY DEF TypeInv, InfoTypes
<1>2. CASE HandleLogin
  <2>1. name' = [name EXCEPT ![Current.info] = Blank] /\ Handling
    BY <1>2 DEF HandleLogin, Handling
  <2> QED BY <1>1, <2>1 DEF Blank, Unknown
<1>3. CASE FinishLogin
  <2>1. name' = [name EXCEPT ![Current.info] = Head(msgs).name] /\ Handling /\ rpc = "login"
    BY <1>3 DEF FinishLogin, Handling
  <2>2. Head(msgs) \in Line
    BY <2>1 DEF TypeInv, HandlingInv, ReaderTypes
  <2>3. Head(msgs).name # Unknown
    BY <2>2, NameAssumption DEF Line
  <2> QED BY <1>1, <2>1, <2>3
<1> QED BY <1>2, <1>3, NameCases

LEMMA NamesStep ==
  ASSUME LifeInv, TypeInv, NamesInv, [Next]_vars
  PROVE  NamesInv'
<1>1. accepted \in Nat /\ accepted' \in Nat /\ accepted <= accepted'
      /\ (accepted' # accepted => Accept /\ accepted' = accepted + 1 /\ accepted' \in Client)
  <2>1. accepted \in 0..NClients /\ NClients \in Nat
    BY SizesAssumption DEF LifeInv, LifeTypes
  <2>2. UNCHANGED accepted \/ (Accept /\ accepted' = accepted + 1 /\ accepted < NClients)
    <3>1. CASE Peer \/ Listener
      BY <3>1 DEF lVars, Peer, SendLine, PeerRead, PeerClose, Listener, Accept, AddClient,
         StartReader, StartWriter, StopListening, JoinReader, JoinWriter, MainRelease
    <3>2. CASE Reader
      BY <3>2 DEF lVars, Reader, PollSnapshot, PollList, Poll, EventsDone, EventSkip,
         EventRead, EventException, HandleDone, HandleLogin, FinishLogin, HandleChat, HandleBad,
         DeliverSnapshot, DeliverOne, DeliverDone, Notify
    <3>3. CASE Writer
      BY <3>3 DEF lVars, Writer, WriterSnapshot, FlushSkip, FlushBegin, WriteSocket,
         WriteError, WriteSignal, FlushDone, ScanSkip, ScanDone, LogoutRemove, LogoutSnapshot,
         LogoutDeliver, LogoutDelivered, LogoutClose, LogoutRelease, LogoutSign, CheckFlag,
         WakeUp
    <3>4. CASE UNCHANGED vars
      BY <3>4 DEF vars, lVars
    <3> QED BY <3>1, <3>2, <3>3, <3>4 DEF Next
  <2> QED BY <2>1, <2>2 DEF Client
<1>2. ASSUME NEW c \in Client, c > accepted' PROVE name'[c] = Unknown
  <2>1. c > accepted /\ c \in Nat
    BY <1>1, <1>2 DEF Client
  <2>2. ~(Handling /\ c = Current.info)
    BY <1>1, <2>1, CurrentListed
  <2> QED BY <2>1, <2>2, NameStep DEF NamesInv
<1>3. ASSUME lpc' = "add" PROVE name'[accepted'] = Unknown
  <2>1. CASE Accept
    <3>1. accepted' = accepted + 1 /\ UNCHANGED name /\ accepted' \in Client
      BY <1>1, <2>1 DEF Accept
    <3>2. accepted' > accepted
      BY <1>1, <3>1
    <3> QED BY <3>1, <3>2 DEF NamesInv
  <2>2. CASE ~Accept
    <3>1. lpc = "add" /\ accepted' = accepted
      <4>1. CASE Reader
        BY <1>1, <1>3, <2>2, <4>1 DEF lVars, Reader, PollSnapshot, PollList, Poll, EventsDone,
           EventSkip, EventRead, EventException, HandleDone, HandleLogin, FinishLogin, HandleChat,
           HandleBad, DeliverSnapshot, DeliverOne, DeliverDone, Notify
      <4>2. CASE StartReader
        BY <1>3, <4>2 DEF StartReader
      <4> QED BY <1>1, <1>3, <2>2, <4>1, <4>2, ReaderAlone
    <3>2. accepted \in Client
      BY <3>1 DEF LifeInv, LifeTypes, ConnectionInv
    <3>3. ~(Handling /\ accepted = Current.info)
      BY <3>1, CurrentListed
    <3> QED BY <3>1, <3>2, <3>3, NameStep DEF NamesInv
  <2> QED BY <2>1, <2>2
<1>4. ASSUME rpc' = "login" PROVE Head(msgs').op = "login" /\ name'[Current'.info] = Blank
  <2>1. CASE HandleLogin
    <3>1. /\ name' = [name EXCEPT ![Current.info] = Blank] /\ UNCHANGED <<polling, rindex, msgs>>
          /\ Head(msgs).op = "login" /\ Handling
      BY <2>1 DEF HandleLogin, Handling
    <3>2. name'[Current.info] = Blank
      BY <3>1, CurrentListed DEF TypeInv, InfoTypes
    <3> QED BY <3>1, <3>2 DEF Current
  <2>2. CASE Reader /\ ~HandleLogin
    BY <1>4, <2>2 DEF Reader, PollSnapshot, PollList, Poll, EventsDone, EventSkip, EventRead,
       EventException, HandleDone, FinishLogin, HandleChat, HandleBad, DeliverSnapshot,
       DeliverOne, DeliverDone, Notify, NextRound
  <2>3. CASE UNCHANGED <<rVars, name>>
    BY <1>4, <2>3 DEF NamesInv, rVars, Current
  <2>4. CASE StartReader
    BY <1>4, <2>4 DEF StartReader, LifeInv, StartInv
  <2> QED BY <2>1, <2>2, <2>3, <2>4, ReaderAlone
<1>5. ASSUME NEW d \in due' PROVE name'[d] # Unknown
  <2>1. due' \subseteq due \/ (LogoutSnapshot /\ d \in Members(clients) /\ name[d] # Unknown)
    <3>1. CASE Peer \/ Listener
      BY <3>1 DEF wVars, Peer, SendLine, PeerRead, PeerClose, Listener, Accept, AddClient,
         StartReader, StartWriter, StopListening, JoinReader, JoinWriter, MainRelease
    <3>2. CASE Reader
      BY <3>2 DEF wVars, Reader, PollSnapshot, PollList, Poll, EventsDone, EventSkip,
         EventRead, EventException, HandleDone, HandleLogin, FinishLogin, HandleChat, HandleBad,
         DeliverSnapshot, DeliverOne, DeliverDone, Notify
    <3>3. CASE LogoutSnapshot
      BY <1>5, <3>3 DEF LogoutSnapshot
    <3>4. CASE Writer /\ ~LogoutSnapshot
      BY <3>4 DEF wVars, Writer, WriterSnapshot, FlushSkip, FlushBegin, WriteSocket,
         WriteError, WriteSignal, FlushDone, ScanSkip, ScanDone, LogoutRemove,
         LogoutDeliver, LogoutDelivered, LogoutClose, LogoutRelease, LogoutSign, CheckFlag,
         WakeUp
    <3>5. CASE UNCHANGED vars
      BY <3>5 DEF vars, wVars
    <3> QED BY <3>1, <3>2, <3>3, <3>4, <3>5 DEF Next
  <2>2. d \in Client /\ name[d] # Unknown
    BY <1>5, <2>1, Listed DEF NamesInv, TypeInv, WriterTypes
  <2> QED BY <2>2, NameStep
<1> QED BY <1>2, <1>3, <1>4, <1>5 DEF NamesInv

LEMMA RedirectStep ==
  ASSUME LifeInv, TypeInv, NamesInv, RedirectInv, [Next]_vars
  PROVE  RedirectInv'
<1> SUFFICES ASSUME rpc' \in {"targets", "deliver"} PROVE RedirectInv'
  BY DEF RedirectInv
<1>1. CASE FinishLogin \/ HandleChat
  <2> DEFINE c == Current.info   m == Head(msgs)
  <2>1. /\ UNCHANGED <<polling, rindex, msgs>> /\ Handling
        /\ \/ /\ redirect_msg' = P2PMsg(c, m, name[c]) /\ m.op \in {"all", "to"}
              /\ UNCHANGED name
           \/ /\ redirect_msg' = SysMsg(c, m.seq, m.name) /\ rpc = "login"
              /\ name' = [name EXCEPT ![c] = m.name]
    BY <1>1 DEF FinishLogin, HandleChat, Handling, infoVars
  <2>2. Current' = Current /\ c \in Client /\ name \in [Client -> Names]
    BY <2>1, CurrentListed DEF Current, TypeInv, InfoTypes
  <2>3. CASE redirect_msg' = P2PMsg(c, m, name[c]) /\ m.op \in {"all", "to"} /\ UNCHANGED name
    BY <2>1, <2>2, <2>3 DEF RedirectInv, P2PMsg
  <2>4. CASE redirect_msg' = SysMsg(c, m.seq, m.name) /\ rpc = "login"
             /\ name' = [name EXCEPT ![c] = m.name]
    <3>1. m.op = "login" /\ name'[c] = m.name
      BY <2>2, <2>4 DEF NamesInv
    <3>2. Current'.info = c /\ msgs' = msgs
      BY <2>1, <2>2
    <3> HIDE DEF c, m
    <3>3. redirect_msg'.src = c /\ redirect_msg'.seq = m.seq /\ redirect_msg'.exclude = m.name
          /\ redirect_msg'.target = ToAll
      BY <2>4 DEF SysMsg
    <3>4. Head(msgs') = m
      BY <3>2 DEF m
    <3> QED BY <3>1, <3>2, <3>3, <3>4 DEF RedirectInv
  <2> QED BY <2>1, <2>3, <2>4
<1>2. CASE DeliverSnapshot \/ DeliverOne
  <2>1. UNCHANGED <<polling, rindex, msgs, redirect_msg, name>> /\ rpc \in {"targets", "deliver"}
    BY <1>2 DEF DeliverSnapshot, DeliverOne, infoVars
  <2> QED BY <2>1 DEF RedirectInv, Current
<1>3. CASE Reader /\ ~(FinishLogin \/ HandleChat) /\ ~(DeliverSnapshot \/ DeliverOne)
  BY <1>3 DEF Reader, PollSnapshot, PollList, Poll, EventsDone, EventSkip, EventRead,
     EventException, HandleDone, HandleLogin, HandleBad, DeliverDone, Notify, NextRound
<1>4. CASE UNCHANGED <<rVars, name>>
  BY <1>4 DEF RedirectInv, rVars, Current
<1>5. CASE StartReader
  BY <1>5 DEF StartReader, LifeInv, StartInv
<1> QED BY <1>1, <1>2, <1>3, <1>4, <1>5, ReaderAlone

-----------------------------------------------------------------------------
(* The two deliveries *)

LEMMA RestIsLess ==
  ASSUME NEW s \in Seq(Client), NEW p \in DOMAIN s,
         \A i, j \in DOMAIN s : i # j => s[i] # s[j]
  PROVE  s[p] \in Rest(s, p) /\ Rest(s, p + 1) = Rest(s, p) \ {s[p]}
<1>1. p \in Nat /\ DOMAIN s \subseteq Nat
  OBVIOUS
<1>2. s[p] \in Rest(s, p)
  BY <1>1 DEF Rest
<1>3. \A i \in DOMAIN s : (i >= p + 1) <=> (i >= p /\ i # p)
  BY <1>1
<1>4. Rest(s, p + 1) = Rest(s, p) \ {s[p]}
  BY <1>1, <1>3 DEF Rest
<1> QED BY <1>2, <1>4

LEMMA RestOfAll ==
  ASSUME NEW s \in Seq(Client)
  PROVE  Rest(s, 1) = Members(s) /\ \A p \in Nat : p > Len(s) => Rest(s, p) = {}
<1>1. \A i \in DOMAIN s : i >= 1
  OBVIOUS
<1>2. \A p \in Nat : p > Len(s) => ~ \E i \in DOMAIN s : i >= p
  OBVIOUS
<1> QED BY <1>1, <1>2 DEF Rest, Members

\* What else than write_sockets moves its variables: its start, the signal that wakes it, and
\* the history of the clients that are due a notice.
LEMMA WriterAlone ==
  ASSUME LifeInv, [Next]_vars
  PROVE  \/ Writer
         \/ /\ UNCHANGED <<wclients, windex, wtargets, wpos, mem>> /\ due' \subseteq due
            /\ wpc' = wpc \/ (wpc \in {"off", "wait"} /\ wpc' \in {"snapshot", "woken"})
         \/ Accept
<1> USE DEF wVars, infoVars
<1>1. CASE Peer
  BY <1>1 DEF Peer, SendLine, PeerRead, PeerClose
<1>2. CASE Listener
  <2>1. CASE StartWriter
    <3>1. /\ UNCHANGED <<wclients, windex, wtargets, wpos, mem, due>>
          /\ wpc' = wpc \/ (wpc = "off" /\ wpc' = "snapshot")
      BY <2>1 DEF StartWriter, LifeInv, StartInv
    <3> QED BY <3>1
  <2> QED BY <1>2, <2>1 DEF Listener, AddClient, StartReader, StopListening,
     JoinReader, JoinWriter, MainRelease
<1>3. CASE Reader
  BY <1>3 DEF Reader, PollSnapshot, PollList, Poll, EventsDone, EventSkip, EventRead,
     EventException, HandleDone, HandleLogin, FinishLogin, HandleChat, HandleBad,
     DeliverSnapshot, DeliverOne, DeliverDone, Notify
<1>4. CASE UNCHANGED vars
  BY <1>4 DEF vars
<1> QED BY <1>1, <1>2, <1>3, <1>4 DEF Next

LEMMA TargetsStep ==
  ASSUME LifeInv, TypeInv, TargetsInv, [Next]_vars
  PROVE  TargetsInv'
<1>1. \A i, j \in DOMAIN clients : i # j => clients[i] # clients[j]
  BY DEF LifeInv, ClientListSound
<1>2. ASSUME rpc' = "deliver", NEW i \in DOMAIN rtargets', NEW j \in DOMAIN rtargets', i # j
      PROVE  rtargets'[i] # rtargets'[j]
  <2>1. CASE DeliverSnapshot
    <3>1. rtargets' = clients \/ rtargets' = <<>>
      BY <2>1 DEF DeliverSnapshot, get_client_list
    <3> QED BY <1>1, <1>2, <3>1
  <2>2. CASE Reader /\ ~DeliverSnapshot
    <3>1. rpc = "deliver" /\ UNCHANGED rtargets
      BY <1>2, <2>2 DEF Reader, PollSnapshot, PollList, Poll, EventsDone, EventSkip, EventRead,
         EventException, HandleDone, HandleLogin, FinishLogin, HandleChat, HandleBad,
         DeliverOne, DeliverDone, Notify, NextRound
    <3> QED BY <1>2, <3>1 DEF TargetsInv
  <2>3. CASE UNCHANGED rVars
    BY <1>2, <2>3 DEF TargetsInv, rVars
  <2>4. CASE StartReader
    BY <1>2, <2>4 DEF StartReader, LifeInv, StartInv
  <2> QED BY <2>1, <2>2, <2>3, <2>4, ReaderAlone
<1>3. ASSUME NEW i \in DOMAIN wtargets', NEW j \in DOMAIN wtargets', i # j
      PROVE  wtargets'[i] # wtargets'[j]
  <2>1. wtargets' = wtargets \/ wtargets' = clients \/ wtargets' = <<>>
    <3>1. CASE Writer
      BY <3>1 DEF Writer, WriterSnapshot, FlushSkip, FlushBegin, WriteSocket,
         WriteError, WriteSignal, FlushDone, ScanSkip, ScanDone, LogoutRemove, LogoutSnapshot,
         LogoutDeliver, LogoutDelivered, LogoutClose, LogoutRelease, LogoutSign, CheckFlag,
         WakeUp, wVars, get_client_list
    <3>2. CASE Accept
      BY <3>2 DEF Accept, wVars
    <3> QED BY <3>1, <3>2, WriterAlone
  <2> QED BY <1>1, <1>3, <2>1 DEF TargetsInv
<1> QED BY <1>2, <1>3 DEF TargetsInv

\* While read_sockets delivers a line it keeps to it, and nobody is put off until later.
LEMMA ReaderDelivers ==
  ASSUME LifeInv, TypeInv, TargetsInv, [Next]_vars, rpc = "deliver"
  PROVE  \/ DeliverDone
         \/ /\ rpc' = "deliver" /\ UNCHANGED <<polling, rindex, msgs, redirect_msg, rtargets, name>>
            /\ \/ RWaiting' = RWaiting
               \/ /\ DeliverOne /\ rpos \in DOMAIN rtargets /\ rpos' = rpos + 1
                  /\ rtargets[rpos] \in RWaiting /\ RWaiting' = RWaiting \ {rtargets[rpos]}
<1>1. CASE DeliverOne
  <2>1. /\ rpos \in DOMAIN rtargets /\ rpc' = "deliver"
        /\ rpos' = rpos \/ rpos' = rpos + 1
        /\ UNCHANGED <<polling, rindex, msgs, redirect_msg, rtargets, name>>
    BY <1>1 DEF DeliverOne
  <2>2. rtargets \in Seq(Client) /\ \A i, j \in DOMAIN rtargets : i # j => rtargets[i] # rtargets[j]
    BY DEF TypeInv, ReaderTypes, TargetsInv
  <2>3. /\ rtargets[rpos] \in RWaiting
        /\ Rest(rtargets, rpos + 1) = RWaiting \ {rtargets[rpos]}
    BY <2>1, <2>2, RestIsLess DEF RWaiting
  <2> QED BY <1>1, <2>1, <2>3 DEF RWaiting
<1>2. CASE Reader /\ ~DeliverOne
  BY <1>2 DEF Reader, PollSnapshot, PollList, Poll, EventsDone, EventSkip, EventRead,
     EventException, HandleDone, HandleLogin, FinishLogin, HandleChat, HandleBad,
     DeliverSnapshot, Notify
<1>3. CASE UNCHANGED <<rVars, name>>
  BY <1>3 DEF rVars, RWaiting
<1>4. CASE StartReader
  BY <1>4 DEF StartReader, LifeInv, StartInv
<1> QED BY <1>1, <1>2, <1>3, <1>4, ReaderAlone

\* So does write_sockets with the notice about the client that it logs out.
LEMMA WriterDelivers ==
  ASSUME LifeInv, TypeInv, TargetsInv, [Next]_vars, LoggingOut, wpc # "announce"
  PROVE  \/ LogoutRelease
         \/ /\ LoggingOut' /\ wpc' # "announce" /\ UNCHANGED <<wclients, windex>>
            /\ due' \subseteq due
            /\ \/ WWaiting' = WWaiting
               \/ WWaiting = {} /\ WWaiting' = {}
               \/ /\ LogoutDeliver /\ wpos \in DOMAIN wtargets
                  /\ wtargets[wpos] \in WWaiting /\ WWaiting' = WWaiting \ {wtargets[wpos]}
<1> USE DEF LoggingOut
<1>0. wtargets \in Seq(Client) /\ \A i, j \in DOMAIN wtargets : i # j => wtargets[i] # wtargets[j]
  BY DEF LifeInv, LifeTypes, TargetsInv
<1>1. CASE LogoutDeliver
  <2>1. /\ wpos \in DOMAIN wtargets /\ wpc = "deliver" /\ wpos' = wpos + 1
        /\ UNCHANGED <<wpc, wclients, windex, wtargets, due>>
    BY <1>1 DEF LogoutDeliver
  <2>2. /\ wtargets[wpos] \in WWaiting
        /\ Rest(wtargets, wpos + 1) = WWaiting \ {wtargets[wpos]}
    BY <1>0, <2>1, RestIsLess DEF WWaiting
  <2> QED BY <1>1, <2>1, <2>2 DEF WWaiting
<1>2. CASE LogoutDelivered
  <2>1. /\ wpc' = "close" /\ wpos > Len(wtargets) /\ wtargets' = <<>> /\ wpos' = 1
        /\ UNCHANGED <<wclients, windex, due>>
    BY <1>2 DEF LogoutDelivered
  <2>2. WWaiting = {}
    BY <1>0, <2>1, RestOfAll DEF WWaiting, TypeInv, WriterTypes
  <2>3. WWaiting' = {}
    BY <2>1 DEF WWaiting, Rest
  <2> QED BY <2>1, <2>2, <2>3
<1>3. CASE LogoutClose
  BY <1>3 DEF LogoutClose, WWaiting
<1>4. CASE Writer /\ ~LogoutDeliver /\ ~LogoutDelivered /\ ~LogoutClose
  BY <1>4 DEF Writer, WriterSnapshot, FlushSkip, FlushBegin, WriteSocket,
     WriteError, WriteSignal, FlushDone, ScanSkip, ScanDone, LogoutRemove, LogoutSnapshot,
     LogoutSign, CheckFlag, WakeUp
<1>5. CASE Accept
  BY <1>5 DEF Accept, wVars, WWaiting
<1>6. CASE /\ UNCHANGED <<wclients, windex, wtargets, wpos, mem>> /\ due' \subseteq due
           /\ wpc' = wpc \/ (wpc \in {"off", "wait"} /\ wpc' \in {"snapshot", "woken"})
  BY <1>6 DEF WWaiting
<1> QED BY <1>1, <1>2, <1>3, <1>4, <1>5, <1>6, WriterAlone

-----------------------------------------------------------------------------
(* What a client is sent *)

\* flush_messages moves the first message of the buffer to the socket.
LEMMA MoveHead ==
  ASSUME NEW o \in Seq(Note), NEW w \in Seq(Note), w # <<>>
  PROVE  Append(o, Head(w)) \o Tail(w) = o \o w
<1> DEFINE h == Head(w)
           t == Tail(w)
<1>1. h \in Note /\ t \in Seq(Note) /\ <<h>> \in Seq(Note) /\ <<h>> \o t = w
  OBVIOUS
<1> HIDE DEF h, t
<1>2. Append(o, h) = o \o <<h>>
  BY <1>1, AppendIsConcat
<1>3. (o \o <<h>>) \o t = o \o (<<h>> \o t)
  BY <1>1, ConcatAssociative
<1>4. Append(o, h) \o t = o \o w
  BY <1>1, <1>2, <1>3
<1> QED BY <1>4 DEF h, t

\* A message is queued behind all that was sent before.
LEMMA QueueLast ==
  ASSUME NEW o \in Seq(Note), NEW w \in Seq(Note), NEW m \in Note
  PROVE  o \o Append(w, m) = Append(o \o w, m)
  OBVIOUS

LEMMA StreamType ==
  ASSUME TypeInv, NEW c \in Client
  PROVE  /\ out[c] \in Seq(Note) /\ writing_buffer[c] \in Seq(Note) /\ Stream(c) \in Seq(Note)
         /\ \A i \in DOMAIN out[c] : i \in DOMAIN Stream(c) /\ Stream(c)[i] = out[c][i]
<1> DEFINE o == out[c]
           w == writing_buffer[c]
<1>1. o \in Seq(Note) /\ w \in Seq(Note)
  BY DEF TypeInv, SockTypes, InfoTypes
<1> HIDE DEF o, w
<1>2. /\ o \o w \in Seq(Note) /\ Len(o \o w) = Len(o) + Len(w)
      /\ \A i \in 1..(Len(o) + Len(w)) :
           (o \o w)[i] = IF i <= Len(o) THEN o[i] ELSE w[i - Len(o)]
  BY <1>1, ConcatProperties
<1>3. \A i \in DOMAIN o : i \in DOMAIN (o \o w) /\ (o \o w)[i] = o[i]
  BY <1>1, <1>2
<1> QED BY <1>1, <1>2, <1>3 DEF Stream, o, w

\* The message that the step puts into c's buffer.
Sends(c, m) ==
  \/ /\ DeliverOne /\ rpos \in DOMAIN rtargets /\ c = rtargets[rpos] /\ rpos' = rpos + 1
     /\ Wants(redirect_msg, c)
     /\ m = [src |-> redirect_msg.src, seq |-> redirect_msg.seq]
  \/ /\ LogoutDeliver /\ wpos \in DOMAIN wtargets /\ c = wtargets[wpos]
     /\ Wants(LogoutMsg(WCurrent), c)
     /\ m = [src |-> WCurrent, seq |-> LogoutSeq(WCurrent)]

\* What a client was sent does not change, but for the buffer that is thrown away with it.
LEMMA StreamCases ==
  ASSUME LifeInv, TypeInv, [Next]_vars, NEW c \in Client
  PROVE  \/ Stream(c)' = Stream(c)
         \/ \E m \in Note : Sends(c, m) /\ Stream(c)' = Append(Stream(c), m)
         \/ LogoutRelease /\ c = WCurrent /\ Stream(c)' = out[c]
<1> USE DEF Stream
<1>1. /\ out[c] \in Seq(Note) /\ writing_buffer[c] \in Seq(Note)
      /\ out \in [Client -> Seq(Note)] /\ writing_buffer \in [Client -> Seq(Note)]
  BY StreamType DEF TypeInv, SockTypes, InfoTypes
<1>2. CASE WriteSocket
  <2>1. /\ writing_buffer[WCurrent] # <<>>
        /\ out' = [out EXCEPT ![WCurrent] = Append(@, Head(writing_buffer[WCurrent]))]
        /\ writing_buffer' = [writing_buffer EXCEPT ![WCurrent] = Tail(@)]
    BY <1>2 DEF WriteSocket
  <2>2. CASE c # WCurrent
    <3>1. out'[c] = out[c] /\ writing_buffer'[c] = writing_buffer[c]
      BY <1>1, <2>1, <2>2
    <3> QED BY <3>1
  <2>3. CASE c = WCurrent
    <3>1. /\ out'[c] = Append(out[c], Head(writing_buffer[c]))
          /\ writing_buffer'[c] = Tail(writing_buffer[c])
      BY <1>1, <2>1, <2>3
    <3>2. Append(out[c], Head(writing_buffer[c])) \o Tail(writing_buffer[c])
            = out[c] \o writing_buffer[c]
      BY <1>1, <2>1, <2>3, MoveHead
    <3> QED BY <3>1, <3>2
  <2> QED BY <2>2, <2>3
<1>3. CASE DeliverOne
  <2>1. /\ out' = out /\ rpos \in DOMAIN rtargets
        /\ \/ writing_buffer' = writing_buffer
           \/ /\ Enqueue(redirect_msg, rtargets[rpos]) /\ rpos' = rpos + 1
              /\ Wants(redirect_msg, rtargets[rpos])
    BY <1>3 DEF DeliverOne, connVars
  <2>2. CASE writing_buffer' = writing_buffer \/ c # rtargets[rpos]
    <3>1. writing_buffer'[c] = writing_buffer[c]
      BY <1>1, <2>1, <2>2 DEF Enqueue
    <3> QED BY <2>1, <3>1
  <2>3. CASE ~(writing_buffer' = writing_buffer) /\ c = rtargets[rpos]
    <3> DEFINE m == [src |-> redirect_msg.src, seq |-> redirect_msg.seq]
    <3>1. m \in Note
      BY DEF TypeInv, ReaderTypes, Redirect, Note
    <3>2. writing_buffer'[c] = Append(writing_buffer[c], m)
      BY <1>1, <2>1, <2>3 DEF Enqueue
    <3>3. Sends(c, m)
      BY <1>3, <2>1, <2>3 DEF Sends
    <3> HIDE DEF m
    <3>4. out'[c] \o writing_buffer'[c] = Append(out[c] \o writing_buffer[c], m)
      BY <1>1, <2>1, <3>1, <3>2, QueueLast
    <3> QED BY <3>1, <3>3, <3>4
  <2> QED BY <2>2, <2>3
<1>4. CASE LogoutDeliver
  <2>1. /\ out' = out /\ wpos \in DOMAIN wtargets /\ wpc = "deliver"
        /\ \/ writing_buffer' = writing_buffer
           \/ /\ Enqueue(LogoutMsg(WCurrent), wtargets[wpos])
              /\ Wants(LogoutMsg(WCurrent), wtargets[wpos])
    BY <1>4 DEF LogoutDeliver, connVars
  <2>2. CASE writing_buffer' = writing_buffer \/ c # wtargets[wpos]
    <3>1. writing_buffer'[c] = writing_buffer[c]
      BY <1>1, <2>1, <2>2 DEF Enqueue
    <3> QED BY <2>1, <3>1
  <2>3. CASE ~(writing_buffer' = writing_buffer) /\ c = wtargets[wpos]
    <3> DEFINE m == [src |-> WCurrent, seq |-> LogoutSeq(WCurrent)]
    <3>0. LogoutMsg(WCurrent).src = WCurrent /\ LogoutMsg(WCurrent).seq = LogoutSeq(WCurrent)
      BY DEF LogoutMsg, SysMsg
    <3>1. m \in Note
      BY <2>1, <3>0, LogoutMsgType DEF LoggingOut, Redirect, Note
    <3>2. writing_buffer'[c] = Append(writing_buffer[c], m)
      BY <1>1, <2>1, <2>3, <3>0 DEF Enqueue
    <3>3. Sends(c, m)
      BY <1>4, <2>1, <2>3 DEF Sends
    <3> HIDE DEF m
    <3>4. out'[c] \o writing_buffer'[c] = Append(out[c] \o writing_buffer[c], m)
      BY <1>1, <2>1, <3>1, <3>2, QueueLast
    <3> QED BY <3>1, <3>3, <3>4
  <2> QED BY <2>2, <2>3
<1>5. CASE LogoutRelease
  <2>1. out' = out /\ writing_buffer' = [writing_buffer EXCEPT ![WCurrent] = <<>>]
    BY <1>5 DEF LogoutRelease, connVars
  <2>2. CASE c # WCurrent
    <3>1. out'[c] = out[c] /\ writing_buffer'[c] = writing_buffer[c]
      BY <1>1, <2>1, <2>2
    <3> QED BY <3>1
  <2>3. CASE c = WCurrent
    <3>1. out'[c] = out[c] /\ writing_buffer'[c] = <<>>
      BY <1>1, <2>1, <2>3
    <3>2. out[c] \o <<>> = out[c]
      BY <1>1
    <3> QED BY <1>5, <2>3, <3>1, <3>2
  <2> QED BY <2>2, <2>3
<1>6. CASE UNCHANGED <<out, writing_buffer>>
  BY <1>6
<1>7. ASSUME ~WriteSocket, ~DeliverOne, ~LogoutDeliver, ~LogoutRelease
      PROVE  UNCHANGED <<out, writing_buffer>>
  <2> USE DEF connVars, infoVars
  <2>1. CASE Peer
    BY <2>1 DEF Peer, SendLine, PeerRead, PeerClose
  <2>2. CASE Listener
    BY <2>2 DEF Listener, Accept, AddClient, StartReader, StartWriter, StopListening,
       JoinReader, JoinWriter, MainRelease
  <2>3. CASE Reader
    BY <1>7, <2>3 DEF Reader, PollSnapshot, PollList, Poll, EventsDone, EventSkip, EventRead,
       EventException, HandleDone, HandleLogin, FinishLogin, HandleChat, HandleBad,
       DeliverSnapshot, DeliverDone, Notify
  <2>4. CASE Writer
    BY <1>7, <2>4 DEF Writer, WriterSnapshot, FlushSkip, FlushBegin,
       WriteError, WriteSignal, FlushDone, ScanSkip, ScanDone, LogoutRemove, LogoutSnapshot,
       LogoutDelivered, LogoutClose, LogoutSign, CheckFlag, WakeUp
  <2>5. CASE UNCHANGED vars
    BY <2>5 DEF vars
  <2> QED BY <2>1, <2>2, <2>3, <2>4, <2>5 DEF Next
<1> QED BY <1>2, <1>3, <1>4, <1>5, <1>6, <1>7

\* Each message a client has after a step is one it had, at the same place, or the one the
\* step has sent.
LEMMA EntryCases ==
  ASSUME LifeInv, TypeInv, [Next]_vars, NEW c \in Client, NEW i \in DOMAIN Stream(c)'
  PROVE  /\ Stream(c)'[i] \in Note /\ i \in Nat
         /\ \/ i \in DOMAIN Stream(c) /\ Stream(c)'[i] = Stream(c)[i]
            \/ i = Len(Stream(c)) + 1 /\ Sends(c, Stream(c)'[i])
<1>1. /\ Stream(c) \in Seq(Note) /\ out[c] \in Seq(Note)
      /\ \A k \in DOMAIN out[c] : k \in DOMAIN Stream(c) /\ Stream(c)[k] = out[c][k]
  BY StreamType
<1>2. CASE Stream(c)' = Stream(c)
  BY <1>1, <1>2
<1>3. ASSUME NEW m \in Note, Sends(c, m), Stream(c)' = Append(Stream(c), m)
      PROVE  /\ Stream(c)'[i] \in Note /\ i \in Nat
             /\ \/ i \in DOMAIN Stream(c) /\ Stream(c)'[i] = Stream(c)[i]
                \/ i = Len(Stream(c)) + 1 /\ Stream(c)'[i] = m
  <2> DEFINE s == Stream(c)
             t == Stream(c)'
  <2>1. s \in Seq(Note) /\ t = Append(s, m) /\ i \in DOMAIN t
    BY <1>1, <1>3
  <2> HIDE DEF s, t
  <2>2. /\ t[i] \in Note /\ i \in Nat
        /\ \/ i \in DOMAIN s /\ t[i] = s[i]
           \/ i = Len(s) + 1 /\ t[i] = m
    BY <2>1
  <2> QED BY <2>2 DEF s, t
<1>4. CASE Stream(c)' = out[c]
  BY <1>1, <1>4
<1> QED BY <1>2, <1>3, <1>4, StreamCases

\* A client keeps what it was sent until it is freed.
LEMMA EntriesStay ==
  ASSUME LifeInv, TypeInv, [Next]_vars, NEW c \in Client, ~(LogoutRelease /\ c = WCurrent),
         NEW i \in DOMAIN Stream(c)
  PROVE  i \in DOMAIN Stream(c)' /\ Stream(c)'[i] = Stream(c)[i]
<1>1. Stream(c) \in Seq(Note)
  BY StreamType
<1>2. ASSUME NEW m \in Note, Stream(c)' = Append(Stream(c), m)
      PROVE  i \in DOMAIN Stream(c)' /\ Stream(c)'[i] = Stream(c)[i]
  <2> DEFINE s == Stream(c)
             t == Stream(c)'
  <2>1. s \in Seq(Note) /\ t = Append(s, m) /\ i \in DOMAIN s
    BY <1>1, <1>2
  <2> HIDE DEF s, t
  <2>2. i \in DOMAIN t /\ t[i] = s[i]
    BY <2>1
  <2> QED BY <2>2 DEF s, t
<1> QED BY <1>2, StreamCases

LEMMA NotTaken ==
  ASSUME TypeInv, msgs' = msgs
  PROVE  ~TakesNext
<1> SUFFICES ASSUME TakesNext PROVE FALSE
  OBVIOUS
<1>1. msgs \in Seq(Line) /\ msgs # <<>>
  BY DEF TakesNext, TypeInv, ReaderTypes
<1>2. Len(Tail(msgs)) = Len(msgs) - 1 /\ Len(msgs) \in Nat
  BY <1>1
<1>3. Tail(msgs) = msgs
  BY DEF TakesNext
<1>4. Len(msgs) = Len(msgs) - 1
  BY <1>2, <1>3, Zenon
<1> QED BY <1>2, <1>4

LEMMA FreedStays ==
  ASSUME LifeInv, [Next]_vars, NEW s \in Client, mem[s] = "freed"
  PROVE  mem'[s] = "freed"
<1>1. mem \in [Client -> {"none", "live", "freed"}]
  BY DEF LifeInv, LifeTypes
<1>2. CASE Accept
  <2>1. mem' = mem \/ mem' = [mem EXCEPT ![accepted + 1] = "live"]
    BY <1>2 DEF Accept, new_client_info
  <2>2. s # accepted + 1
    <3>1. accepted \in Nat /\ s \in Nat
      BY SizesAssumption DEF LifeInv, LifeTypes, Client
    <3>2. s > accepted => mem[s] = "none"
      BY DEF LifeInv, ConnectionInv
    <3> QED BY <3>1, <3>2
  <2> QED BY <1>1, <2>1, <2>2
<1>3. CASE LogoutRelease
  BY <1>1, <1>3 DEF LogoutRelease
<1>4. CASE Writer /\ ~LogoutRelease
  BY <1>4 DEF Writer, WriterSnapshot, FlushSkip, FlushBegin, WriteSocket,
     WriteError, WriteSignal, FlushDone, ScanSkip, ScanDone, LogoutRemove, LogoutSnapshot,
     LogoutDeliver, LogoutDelivered, LogoutClose, LogoutSign, CheckFlag, WakeUp, infoVars
<1> QED BY <1>2, <1>3, <1>4, WriterAlone

LEMMA StaysExplained ==
  ASSUME LifeInv, TypeInv, TargetsInv, [Next]_vars,
         NEW c \in Client, NEW m \in Note, Explained(c, m)
  PROVE  Explained(c, m)'
<1> DEFINE s == m.src
<1>1. s \in Client /\ m.seq \in Nat /\ m.seq >= 1
  BY DEF Note, Explained
<1>2. /\ Finished(s) \in Int
      /\ Finished(s)' = IF TakesNext /\ s = Current.info THEN Finished(s) + 1 ELSE Finished(s)
  BY <1>1, LineTypes, FinishedStep
<1>3. CASE m.seq <= Finished(s)
  <2>1. m.seq <= Finished(s)'
    BY <1>1, <1>2, <1>3
  <2> QED BY <1>1, <2>1 DEF Explained
<1>4. CASE m.seq = Finished(s) + 1 /\ rpc = "deliver" /\ s = Current.info /\ c \notin RWaiting
  <2>1. CASE DeliverDone
    <3>1. TakesNext
      BY <2>1 DEF DeliverDone, TakesNext, Handling, TypeInv, HandlingInv, connVars
    <3>2. m.seq <= Finished(s)'
      BY <1>1, <1>2, <1>4, <3>1
    <3> QED BY <1>1, <3>2 DEF Explained
  <2>2. CASE ~DeliverDone
    <3>1. /\ rpc' = "deliver" /\ UNCHANGED <<polling, rindex, msgs>>
          /\ RWaiting' \subseteq RWaiting
      BY <1>4, <2>2, ReaderDelivers
    <3>2. Finished(s)' = Finished(s) /\ Current' = Current
      BY <1>2, <3>1, NotTaken DEF Current
    <3>3. m.seq = Finished(s)' + 1 /\ s = Current'.info /\ c \notin RWaiting'
      BY <1>4, <3>1, <3>2
    <3> QED BY <1>1, <3>1, <3>3 DEF Explained
  <2> QED BY <2>1, <2>2
<1>5. CASE m.seq = LogoutSeq(s) /\ mem[s] = "freed"
  <2>1. mem'[s] = "freed"
    BY <1>1, <1>5, FreedStays
  <2> QED BY <1>1, <1>5, <2>1 DEF Explained, LogoutSeq, Lines
<1>6. CASE m.seq = LogoutSeq(s) /\ LoggingOut /\ wpc # "announce" /\ s = WCurrent /\ c \notin WWaiting
  <2>1. CASE LogoutRelease
    <3>1. mem'[s] = "freed"
      BY <1>1, <1>6, <2>1 DEF LogoutRelease, LifeInv, LifeTypes
    <3> QED BY <1>1, <1>6, <3>1 DEF Explained, LogoutSeq, Lines
  <2>2. CASE ~LogoutRelease
    <3>1. /\ LoggingOut' /\ wpc' # "announce" /\ UNCHANGED <<wclients, windex>>
          /\ WWaiting' \subseteq WWaiting
      BY <1>6, <2>2, WriterDelivers
    <3>2. s = WCurrent' /\ c \notin WWaiting'
      BY <1>6, <3>1 DEF WCurrent
    <3> QED BY <1>1, <1>6, <3>1, <3>2 DEF Explained, LogoutSeq, Lines
  <2> QED BY <2>1, <2>2
<1> QED BY <1>3, <1>4, <1>5, <1>6 DEF Explained

\* What is delivered: the first line that is not done, of a client that is online ...
LEMMA HeadInHand ==
  ASSUME LifeInv, TypeInv, LinesInv, Handling, msgs # <<>>
  PROVE  /\ Head(msgs) = LineOf(Current.info, Finished(Current.info) + 1)
         /\ Finished(Current.info) + 1 \in 1..Lines(Current.info)
<1> DEFINE s == Current.info
<1>1. /\ s \in Client /\ msgs \in Seq(Line) /\ Finished(s) \in Int /\ ncmd[s] \in Nat
      /\ Len(inq[s]) \in Nat /\ Len(msgs) \in Nat
  BY CurrentListed, LineTypes
<1>2. 1 \in DOMAIN msgs /\ Head(msgs) = msgs[1] /\ Len(msgs) >= 1
  BY <1>1
<1>3. msgs[1] = LineOf(s, Finished(s) + 1) /\ Finished(s) >= 0 /\ ncmd[s] <= Lines(s)
  BY <1>1, <1>2 DEF LinesInv
<1>4. Finished(s) + 1 <= ncmd[s] /\ Lines(s) \in Nat
  BY <1>1, <1>2, ScriptAssumption DEF Finished, Lines, Client
<1> QED BY <1>1, <1>2, <1>3, <1>4

LEMMA InHand ==
  ASSUME LifeInv, TypeInv, LinesInv, RedirectInv, rpc \in {"targets", "deliver"}
  PROVE  /\ redirect_msg.src = Current.info /\ Current.info \in Client
         /\ redirect_msg.seq = Finished(Current.info) + 1
         /\ redirect_msg.exclude = name[Current.info]
<1>1. Handling /\ Current.info \in Client /\ msgs # <<>>
  BY CurrentListed DEF Handling, TypeInv, HandlingInv
<1>2. Head(msgs).seq = Finished(Current.info) + 1
  BY <1>1, HeadInHand DEF LineOf
<1> QED BY <1>1, <1>2 DEF RedirectInv

\* A message is sent to a client in its turn, which is over then.
LEMMA SendsInTurn ==
  ASSUME LifeInv, TypeInv, TargetsInv, NEW c \in Client, NEW m \in Note, Sends(c, m)
  PROVE  \/ /\ rpc = "deliver" /\ rpc' = "deliver" /\ UNCHANGED <<polling, rindex, msgs>>
            /\ c \in RWaiting /\ c \notin RWaiting' /\ Wants(redirect_msg, c)
            /\ m = [src |-> redirect_msg.src, seq |-> redirect_msg.seq]
         \/ /\ wpc = "deliver" /\ wpc' = "deliver" /\ UNCHANGED <<wclients, windex>>
            /\ c \in WWaiting /\ c \notin WWaiting' /\ Wants(LogoutMsg(WCurrent), c)
            /\ m = [src |-> WCurrent, seq |-> LogoutSeq(WCurrent)]
<1>1. CASE /\ DeliverOne /\ rpos \in DOMAIN rtargets /\ c = rtargets[rpos] /\ rpos' = rpos + 1
           /\ Wants(redirect_msg, c)
           /\ m = [src |-> redirect_msg.src, seq |-> redirect_msg.seq]
  <2>1. rpc = "deliver" /\ rpc' = "deliver" /\ UNCHANGED <<polling, rindex, msgs, rtargets>>
    BY <1>1 DEF DeliverOne
  <2>2. rtargets \in Seq(Client) /\ \A i, j \in DOMAIN rtargets : i # j => rtargets[i] # rtargets[j]
    BY <2>1 DEF TypeInv, ReaderTypes, TargetsInv
  <2>3. c \in RWaiting /\ Rest(rtargets, rpos + 1) = RWaiting \ {c}
    BY <1>1, <2>2, RestIsLess DEF RWaiting
  <2>4. RWaiting' = Rest(rtargets, rpos + 1)
    BY <1>1, <2>1 DEF RWaiting
  <2> QED BY <1>1, <2>1, <2>3, <2>4
<1>2. CASE /\ LogoutDeliver /\ wpos \in DOMAIN wtargets /\ c = wtargets[wpos]
           /\ Wants(LogoutMsg(WCurrent), c)
           /\ m = [src |-> WCurrent, seq |-> LogoutSeq(WCurrent)]
  <2>1. wpc = "deliver" /\ wpc' = "deliver" /\ UNCHANGED <<wclients, windex, wtargets>>
        /\ wpos' = wpos + 1
    BY <1>2 DEF LogoutDeliver
  <2>2. wtargets \in Seq(Client) /\ \A i, j \in DOMAIN wtargets : i # j => wtargets[i] # wtargets[j]
    BY DEF LifeInv, LifeTypes, TargetsInv
  <2>3. c \in WWaiting /\ Rest(wtargets, wpos + 1) = WWaiting \ {c}
    BY <1>2, <2>2, RestIsLess DEF WWaiting
  <2>4. WWaiting' = Rest(wtargets, wpos + 1)
    BY <2>1 DEF WWaiting
  <2> QED BY <1>2, <2>1, <2>3, <2>4
<1> QED BY <1>1, <1>2 DEF Sends

LEMMA OriginStep ==
  ASSUME LifeInv, TypeInv, LinesInv, RedirectInv, TargetsInv, OriginInv, [Next]_vars
  PROVE  OriginInv'
<1> SUFFICES ASSUME NEW c \in Client, NEW i \in DOMAIN Stream(c)',
                    NEW n \in Note, n = Stream(c)'[i]
             PROVE  Explained(c, n)'
  BY EntryCases DEF OriginInv, Explained
<1>2. CASE i \in DOMAIN Stream(c) /\ n = Stream(c)[i]
  BY <1>2, StaysExplained DEF OriginInv
<1>3. CASE Sends(c, n)
  <2>1. CASE /\ rpc = "deliver" /\ rpc' = "deliver" /\ UNCHANGED <<polling, rindex, msgs>>
             /\ c \notin RWaiting' /\ n = [src |-> redirect_msg.src, seq |-> redirect_msg.seq]
    <3>1. n.src = Current.info /\ n.src \in Client /\ n.seq = Finished(n.src) + 1
      BY <2>1, InHand
    <3>2. Current' = Current /\ Finished(n.src)' = Finished(n.src)
      BY <2>1, <3>1, FinishedStep, NotTaken DEF Current
    <3>3. n.seq >= 1
      BY <3>1, LineTypes DEF LinesInv
    <3> QED BY <2>1, <3>1, <3>2, <3>3 DEF Explained
  <2>2. CASE /\ wpc = "deliver" /\ wpc' = "deliver" /\ UNCHANGED <<wclients, windex>>
             /\ c \notin WWaiting' /\ n = [src |-> WCurrent, seq |-> LogoutSeq(WCurrent)]
    <3>1. WCurrent' = WCurrent /\ LoggingOut'
      BY <2>2 DEF WCurrent, LoggingOut
    <3>2. n.src = WCurrent' /\ n.seq = LogoutSeq(n.src)
      BY <2>2, <3>1
    <3>3. n.seq >= 1
      BY <3>2, ScriptAssumption DEF Note, LogoutSeq, Lines, Client
    <3> QED BY <2>2, <3>1, <3>2, <3>3 DEF Explained, LogoutSeq, Lines
  <2> QED BY <1>3, <2>1, <2>2, SendsInTurn
<1> QED BY <1>2, <1>3, EntryCases

\* The lines of a client in the order it sent them, each once, then its logout.
LEMMA OrderStep ==
  ASSUME LifeInv, TypeInv, LinesInv, RedirectInv, TargetsInv, OriginInv, StreamsOrdered,
         [Next]_vars
  PROVE  StreamsOrdered'
<1> SUFFICES ASSUME NEW c \in Client, NEW i \in DOMAIN Stream(c)', NEW j \in DOMAIN Stream(c)',
                    i < j, Stream(c)'[i].src = Stream(c)'[j].src
             PROVE  Stream(c)'[i].seq < Stream(c)'[j].seq
  BY DEF StreamsOrdered
<1> DEFINE m == Stream(c)'[i]
           n == Stream(c)'[j]
           s == m.src
<1>1. m \in Note /\ n \in Note /\ i \in Nat /\ j \in Nat
  BY EntryCases
<1>2. s \in Client /\ m.seq \in Nat /\ n.seq \in Nat
  BY <1>1 DEF Note
<1>3. CASE j \in DOMAIN Stream(c) /\ n = Stream(c)[j]
  <2>1. i \in DOMAIN Stream(c) /\ m = Stream(c)[i]
    <3>1. Stream(c) \in Seq(Note)
      BY StreamType
    <3>2. Len(Stream(c)) \in Nat /\ j <= Len(Stream(c))
      BY <1>3, <3>1
    <3>3. i # Len(Stream(c)) + 1
      BY <1>1, <3>2
    <3> QED BY <3>3, EntryCases
  <2> QED BY <1>3, <2>1 DEF StreamsOrdered
<1>4. CASE j = Len(Stream(c)) + 1 /\ Sends(c, n)
  <2>1. i \in DOMAIN Stream(c) /\ m = Stream(c)[i]
    <3>1. i # Len(Stream(c)) + 1
      BY <1>1, <1>4
    <3> QED BY <3>1, EntryCases
  <2>2. Explained(c, m)
    BY <2>1 DEF OriginInv
  <2>3. /\ ncmd[s] \in Nat /\ ncmd[s] <= Lines(s) /\ Lines(s) \in Nat /\ LogoutSeq(s) = Lines(s) + 1
        /\ Finished(s) \in Int /\ Finished(s) <= ncmd[s]
    <3>1. ncmd[s] \in Nat /\ Len(inq[s]) \in Nat /\ Len(msgs) \in Nat /\ Finished(s) \in Int
      BY <1>2, LineTypes
    <3>2. Finished(s) <= ncmd[s]
      BY <3>1 DEF Finished
    <3> QED BY <1>2, <3>1, <3>2, ScriptAssumption DEF LinesInv, LogoutSeq, Lines, Client
  <2> HIDE DEF m, n, s
  <2>4. m.src = s /\ n.src = s
    BY DEF m, n, s
  <2>5. ASSUME rpc = "deliver", c \in RWaiting,
               n = [src |-> redirect_msg.src, seq |-> redirect_msg.seq]
        PROVE  m.seq < n.seq
    <3>1. s = Current.info /\ n.seq = Finished(s) + 1
      BY <2>4, <2>5, InHand
    <3>2. mem[s] # "freed" /\ ~(LoggingOut /\ s = WCurrent)
      <4>1. s \in Members(clients) /\ mem[s] = "live"
        BY <2>5, <3>1, CurrentListed DEF Handling
      <4> QED BY <4>1, BeingLoggedOut
    <3>3. m.seq <= Finished(s)
      BY <2>2, <2>4, <2>5, <3>2 DEF Explained
    <3> QED BY <1>2, <2>3, <3>1, <3>3
  <2>6. ASSUME wpc = "deliver", c \in WWaiting,
               n = [src |-> WCurrent, seq |-> LogoutSeq(WCurrent)]
        PROVE  m.seq < n.seq
    <3>1. s = WCurrent /\ n.seq = LogoutSeq(s) /\ LoggingOut
      BY <2>4, <2>6 DEF LoggingOut
    <3>2. mem[s] = "live" /\ ~(rpc = "deliver" /\ s = Current.info)
      <4>1. s \notin Members(clients) /\ mem[s] = "live"
        BY <3>1, BeingLoggedOut
      <4> QED BY <4>1, CurrentListed DEF Handling
    <3>3. m.seq <= Finished(s)
      BY <2>2, <2>4, <2>6, <3>1, <3>2 DEF Explained
    <3> QED BY <1>2, <2>3, <3>1, <3>3
  <2>7. n \in Note /\ Sends(c, n)
    BY <1>1, <1>4 DEF n
  <2>8. m.seq < n.seq
    BY <2>5, <2>6, <2>7, SendsInTurn
  <2> QED BY <2>8 DEF m, n
<1> QED BY <1>3, <1>4, EntryCases

\* The sender's name is excluded, and a client that is not logged in has none.
LEMMA EchoStep ==
  ASSUME LifeInv, TypeInv, LinesInv, RedirectInv, NamesInv, TargetsInv, NoEcho,
         SilentUntilLogin, [Next]_vars
  PROVE  NoEcho' /\ SilentUntilLogin'
<1>1. ASSUME NEW c \in Client, NEW m \in Note, Sends(c, m)
      PROVE  m.src # c /\ name[c] # Unknown
  <2>1. CASE /\ rpc = "deliver" /\ Wants(redirect_msg, c)
             /\ m = [src |-> redirect_msg.src, seq |-> redirect_msg.seq]
    <3>1. m.src = Current.info /\ redirect_msg.exclude = name[Current.info]
      BY <2>1, InHand
    <3>2. name[c] # redirect_msg.exclude /\ name[c] # Unknown
      BY <2>1 DEF Wants, filter_out
    <3> QED BY <3>1, <3>2
  <2>2. CASE /\ wpc = "deliver" /\ Wants(LogoutMsg(WCurrent), c)
             /\ m = [src |-> WCurrent, seq |-> LogoutSeq(WCurrent)]
    <3>1. m.src = WCurrent /\ LogoutMsg(WCurrent).exclude = name[WCurrent]
      BY <2>2 DEF LogoutMsg, SysMsg
    <3>2. name[c] # LogoutMsg(WCurrent).exclude /\ name[c] # Unknown
      BY <2>2 DEF Wants, filter_out
    <3> QED BY <3>1, <3>2
  <2> QED BY <1>1, <2>1, <2>2, SendsInTurn
<1>2. ASSUME NEW c \in Client, NEW i \in DOMAIN Stream(c)'
      PROVE  Stream(c)'[i].src # c /\ name[c] # Unknown
  <2>1. CASE i \in DOMAIN Stream(c) /\ Stream(c)'[i] = Stream(c)[i]
    BY <2>1 DEF NoEcho, SilentUntilLogin
  <2>2. CASE Sends(c, Stream(c)'[i])
    BY <1>1, <2>2, EntryCases
  <2> QED BY <2>1, <2>2, EntryCases
<1>3. ASSUME NEW c \in Client, Stream(c)' # <<>> PROVE name'[c] # Unknown
  <2>1. Stream(c)' \in Seq(Note)
    <3>1. out'[c] \in Seq(Note) /\ writing_buffer'[c] \in Seq(Note)
      BY NextTypes DEF TypeInv, SockTypes, InfoTypes
    <3>2. out'[c] \o writing_buffer'[c] \in Seq(Note)
      BY <3>1, ConcatProperties
    <3> QED BY <3>2 DEF Stream
  <2>2. 1 \in DOMAIN Stream(c)'
    BY <1>3, <2>1
  <2> QED BY <1>2, <2>2, NameStep
<1> QED BY <1>2, <1>3 DEF NoEcho, SilentUntilLogin

-----------------------------------------------------------------------------
(* Who must get it *)

\* Calls that have failed stay failed, and no client that was given up is taken back.
LEMMA FaultsStay ==
  ASSUME TypeInv, [Next]_vars
  PROVE  /\ faults \in Nat /\ (faults' = faults \/ faults' = faults + 1)
         /\ UNCHANGED pub \/ EventException
<1> USE DEF procVars, Fault, infoVars
<1>1. faults \in Nat
  BY SizesAssumption DEF TypeInv, ProcTypes
<1>2. CASE Peer
  BY <1>1, <1>2 DEF Peer, SendLine, PeerRead, PeerClose
<1>3. CASE Listener
  BY <1>1, <1>3 DEF Listener, Accept, new_client_info, AddClient, StartReader, StartWriter,
     StopListening, JoinReader, JoinWriter, MainRelease
<1>4. CASE Reader
  BY <1>1, <1>4 DEF Reader, PollSnapshot, PollList, Poll, EventsDone, EventSkip, EventRead,
     HandleDone, HandleLogin, FinishLogin, HandleChat, HandleBad, DeliverSnapshot,
     DeliverOne, DeliverDone, Notify, EventException
<1>5. CASE Writer
  BY <1>1, <1>5 DEF Writer, WriterSnapshot, FlushSkip, FlushBegin, WriteSocket, WriteError,
     WriteSignal, FlushDone, ScanSkip, ScanDone, LogoutRemove, LogoutSnapshot, LogoutDeliver,
     LogoutDelivered, LogoutClose, LogoutRelease, LogoutSign, CheckFlag, WakeUp
<1>6. CASE UNCHANGED vars
  BY <1>1, <1>6 DEF vars
<1> QED BY <1>1, <1>2, <1>3, <1>4, <1>5, <1>6 DEF Next

LEMMA PubStep ==
  ASSUME LifeInv, TypeInv, [Next]_vars, NEW d \in Client, pub'[d] = "SUCC"
  PROVE  pub[d] = "SUCC"
<1>1. pub \in [Client -> {"SUCC", "FAIL"}]
  BY DEF LifeInv, LifeTypes
<1>2. CASE EventException
  BY <1>1, <1>2 DEF EventException, MarkAbnormal
<1> QED BY <1>2, FaultsStay

\* A client comes into the list at its tail, without a name.
LEMMA ListStep ==
  ASSUME LifeInv, [Next]_vars, NEW d \in Members(clients')
  PROVE  d \in Members(clients) \/ (AddClient /\ d = accepted)
<1> USE DEF serverVars
<1>1. CASE Peer
  BY <1>1 DEF Peer, SendLine, PeerRead, PeerClose
<1>2. CASE AddClient
  <2>1. clients' = Append(clients, accepted) /\ accepted \in Client /\ clients \in Seq(Client)
    BY <1>2 DEF AddClient, LifeInv, LifeTypes, ConnectionInv
  <2> QED BY <1>2, <2>1, MembersAppend
<1>3. CASE Listener /\ ~AddClient
  BY <1>3 DEF Listener, Accept, StartReader, StartWriter,
     StopListening, JoinReader, JoinWriter, MainRelease
<1>4. CASE Reader
  BY <1>4 DEF Reader, PollSnapshot, PollList, Poll, EventsDone, EventSkip, EventRead,
     HandleDone, HandleLogin, FinishLogin, HandleChat, HandleBad, DeliverSnapshot,
     DeliverOne, DeliverDone, Notify, EventException
<1>5. CASE LogoutRemove
  <2>1. clients' = clients \/ \E k \in DOMAIN clients : clients' = RemoveAt(clients, k)
    BY <1>5 DEF LogoutRemove, Matching
  <2>2. clients \in Seq(Client) /\ \A i, j \in DOMAIN clients : i # j => clients[i] # clients[j]
    BY DEF LifeInv, LifeTypes, ClientListSound
  <2> QED BY <2>1, <2>2, RemoveAtRemoves
<1>6. CASE Writer /\ ~LogoutRemove
  BY <1>6 DEF Writer, WriterSnapshot, FlushSkip, FlushBegin, WriteSocket, WriteError,
     WriteSignal, FlushDone, ScanSkip, ScanDone, LogoutSnapshot, LogoutDeliver,
     LogoutDelivered, LogoutClose, LogoutRelease, LogoutSign, CheckFlag, WakeUp
<1>7. CASE UNCHANGED vars
  BY <1>7 DEF vars
<1> QED BY <1>1, <1>2, <1>3, <1>4, <1>5, <1>6, <1>7 DEF Next

\* A message that a client has got, it keeps.
LEMMA GotStays ==
  ASSUME LifeInv, TypeInv, [Next]_vars, NEW d \in Client, pub[d] = "SUCC",
         NEW s, NEW q, Got(d, s, q)
  PROVE  \E i \in DOMAIN Stream(d)' : Stream(d)'[i] = [src |-> s, seq |-> q]
<1>1. ~(LogoutRelease /\ d = WCurrent)
  BY BeingLoggedOut DEF LogoutRelease, LoggingOut
<1> QED BY <1>1, EntriesStay DEF Got

LEMMA QueuedIsGot ==
  ASSUME TypeInv, NEW d \in Client, NEW m \in Redirect, Enqueue(m, d), UNCHANGED out
  PROVE  \E i \in DOMAIN Stream(d)' : Stream(d)'[i] = [src |-> m.src, seq |-> m.seq]
<1> DEFINE n == [src |-> m.src, seq |-> m.seq]
           o == out[d]
           w == writing_buffer[d]
<1>1. n \in Note /\ o \in Seq(Note) /\ w \in Seq(Note) /\ writing_buffer'[d] = Append(w, n)
  BY DEF TypeInv, SockTypes, InfoTypes, Enqueue, Redirect, Note
<1>2. Stream(d)' = o \o Append(w, n)
  BY <1>1 DEF Stream
<1> HIDE DEF n, o, w
<1>3. o \o Append(w, n) = Append(o \o w, n) /\ o \o w \in Seq(Note)
  BY <1>1, QueueLast, ConcatProperties
<1> DEFINE s == o \o w
<1>4. s \in Seq(Note) /\ Stream(d)' = Append(s, n)
  BY <1>2, <1>3
<1> HIDE DEF s
<1>5. Len(s) + 1 \in DOMAIN Append(s, n) /\ Append(s, n)[Len(s) + 1] = n
  BY <1>1, <1>4
<1> QED BY <1>4, <1>5 DEF n

LEMMA ToAllStep ==
  ASSUME LifeInv, TypeInv, LinesInv, NamesInv, RedirectInv, TargetsInv, ReachInv, [Next]_vars,
         faults' = 0, rpc' = "deliver", redirect_msg'.target = ToAll,
         NEW d \in Members(clients'), pub'[d] = "SUCC",
         name'[d] \notin {Unknown, redirect_msg'.exclude}
  PROVE  \/ d \in RWaiting'
         \/ \E i \in DOMAIN Stream(d)' :
              Stream(d)'[i] = [src |-> redirect_msg'.src, seq |-> redirect_msg'.seq]
<1>0. faults = 0 /\ d \in Client /\ pub[d] = "SUCC"
  <2>1. d \in Client
    BY NextLife DEF LifeInv, LifeTypes, Members
  <2> QED BY <2>1, FaultsStay, PubStep
<1>1. d \in Members(clients)
  <2>1. CASE AddClient /\ d = accepted
    <3>1. name' = name /\ name[accepted] = Unknown
      BY <2>1 DEF AddClient, NamesInv, infoVars
    <3> QED BY <2>1, <3>1
  <2> QED BY <2>1, ListStep
<1>2. CASE DeliverSnapshot
  <2>1. rtargets' = clients /\ rpos' = 1
    BY <1>0, <1>2 DEF DeliverSnapshot, Fault, get_client_list
  <2>2. Rest(clients, 1) = Members(clients)
    BY RestOfAll DEF LifeInv, LifeTypes
  <2> QED BY <1>1, <2>1, <2>2 DEF RWaiting
<1>3. CASE rpc = "deliver" /\ ~DeliverDone
  <2>1. UNCHANGED <<redirect_msg, rtargets, name>>
    BY <1>3, ReaderDelivers
  <2>2. d \in RWaiting \/ Got(d, redirect_msg.src, redirect_msg.seq)
    BY <1>0, <1>1, <1>3, <2>1 DEF ReachInv
  <2>3. CASE Got(d, redirect_msg.src, redirect_msg.seq)
    BY <1>0, <2>1, <2>3, GotStays
  <2>4. CASE d \in RWaiting /\ d \notin RWaiting'
    <3>1. DeliverOne /\ rpos' = rpos + 1 /\ d = rtargets[rpos]
      BY <1>3, <2>4, ReaderDelivers
    <3>2. Wants(redirect_msg, d)
      BY <2>1 DEF Wants, filter_out, is_msg_to_all
    <3>3. rpos # rpos + 1
      BY DEF TypeInv, ReaderTypes
    <3>4. Enqueue(redirect_msg, d) /\ UNCHANGED out
      BY <1>0, <3>1, <3>2, <3>3 DEF DeliverOne, Fault, connVars
    <3>5. redirect_msg \in Redirect
      BY DEF TypeInv, ReaderTypes
    <3> QED BY <1>0, <2>1, <3>4, <3>5, QueuedIsGot
  <2> QED BY <2>2, <2>3, <2>4
<1>4. DeliverSnapshot \/ (rpc = "deliver" /\ ~DeliverDone)
  <2>1. CASE Reader
    BY <2>1 DEF Reader, PollSnapshot, PollList, Poll, EventsDone, EventSkip, EventRead,
       EventException, HandleDone, HandleLogin, FinishLogin, HandleChat, HandleBad,
       DeliverOne, DeliverDone, Notify, NextRound
  <2>2. CASE UNCHANGED rVars
    BY <2>2 DEF rVars, DeliverDone
  <2>3. CASE StartReader
    BY <2>3 DEF StartReader, LifeInv, StartInv
  <2> QED BY <2>1, <2>2, <2>3, ReaderAlone
<1> QED BY <1>2, <1>3, <1>4

LEMMA NoticeStep ==
  ASSUME LifeInv, TypeInv, NamesInv, TargetsInv, ReachInv, [Next]_vars,
         faults' = 0, wpc' \in {"deliver", "close"},
         NEW d \in due', pub'[d] = "SUCC", name'[d] \notin {Blank, name'[WCurrent']}
  PROVE  \/ d \in WWaiting'
         \/ \E i \in DOMAIN Stream(d)' :
              Stream(d)'[i] = [src |-> WCurrent', seq |-> LogoutSeq(WCurrent')]
<1>0. faults = 0 /\ d \in Client /\ pub[d] = "SUCC"
  <2>1. d \in Client
    BY NextTypes DEF TypeInv, WriterTypes
  <2> QED BY <2>1, FaultsStay, PubStep
<1>1. CASE LogoutSnapshot
  <2>1. wtargets' = clients /\ wpos' = 1 /\ due' \subseteq Members(clients)
    BY <1>0, <1>1 DEF LogoutSnapshot, Fault, get_client_list
  <2>2. Rest(clients, 1) = Members(clients)
    BY RestOfAll DEF LifeInv, LifeTypes
  <2> QED BY <2>1, <2>2 DEF WWaiting
<1>2. CASE wpc \in {"deliver", "close"} /\ ~LogoutSnapshot
  <2>1. LoggingOut /\ wpc # "announce" /\ ~LogoutRelease
    BY <1>2 DEF LoggingOut, LogoutRelease
  <2>2. WCurrent' = WCurrent /\ d \in due
    BY <2>1, WriterDelivers DEF WCurrent
  <2>3. name'[WCurrent] = name[WCurrent]
    BY <2>1, BeingLoggedOut, CurrentListed, NameStep
  <2>4. name'[d] = name[d]
    <3>1. CASE HandleLogin
      <4>1. name' = [name EXCEPT ![Current.info] = Blank] /\ name \in [Client -> Names]
        BY <3>1 DEF HandleLogin, TypeInv, InfoTypes
      <4> QED BY <1>0, <4>1
    <3>2. CASE FinishLogin
      <4>1. d # Current.info /\ name' = [name EXCEPT ![Current.info] = Head(msgs).name]
        BY <3>2 DEF FinishLogin
      <4> QED BY <1>0, <4>1 DEF TypeInv, InfoTypes
    <3> QED BY <3>1, <3>2, NameCases
  <2>5. d \in WWaiting \/ Got(d, WCurrent, LogoutSeq(WCurrent))
    BY <1>0, <1>2, <2>2, <2>3, <2>4 DEF ReachInv
  <2>6. CASE Got(d, WCurrent, LogoutSeq(WCurrent))
    BY <1>0, <2>2, <2>6, GotStays
  <2>7. CASE d \in WWaiting /\ d \notin WWaiting'
    <3>1. LogoutDeliver /\ d = wtargets[wpos]
      BY <2>1, <2>7, WriterDelivers
    <3> DEFINE m == LogoutMsg(WCurrent)
    <3>2. m \in Redirect
      BY <2>1, LogoutMsgType
    <3>3. m.src = WCurrent /\ m.seq = LogoutSeq(WCurrent) /\ m.exclude = name[WCurrent]
          /\ m.target = ToAll
      BY DEF LogoutMsg, SysMsg
    <3>4. name[d] # Unknown
      BY <2>2 DEF NamesInv
    <3>5. Wants(m, d)
      BY <2>2, <2>3, <2>4, <3>3, <3>4 DEF Wants, filter_out, is_msg_to_all
    <3>6. Enqueue(m, d) /\ UNCHANGED out
      BY <1>0, <3>1, <3>5 DEF LogoutDeliver, Fault, connVars
    <3> QED BY <1>0, <2>2, <3>2, <3>3, <3>6, QueuedIsGot
  <2> QED BY <2>5, <2>6, <2>7
<1>3. LogoutSnapshot \/ wpc \in {"deliver", "close"}
  <2>1. CASE Writer
    BY <2>1 DEF Writer, WriterSnapshot, FlushSkip, FlushBegin, WriteSocket, WriteError,
       WriteSignal, FlushDone, ScanSkip, ScanDone, LogoutRemove, LogoutDeliver,
       LogoutDelivered, LogoutClose, LogoutRelease, LogoutSign, CheckFlag, WakeUp, FlushLeave,
       WNextRound, wVars
  <2>2. CASE Accept
    BY <2>2 DEF Accept, wVars
  <2> QED BY <2>1, <2>2, WriterAlone
<1> QED BY <1>1, <1>2, <1>3

LEMMA ReachStep ==
  ASSUME LifeInv, TypeInv, LinesInv, NamesInv, RedirectInv, TargetsInv, ReachInv, [Next]_vars
  PROVE  ReachInv'
  BY ToAllStep, NoticeStep DEF ReachInv, Got, LogoutSeq, Lines

-----------------------------------------------------------------------------
(* The invariant *)

\* LifeInv and DeliveryInv, with the types in the groups that the steps above use.
ServerInv ==
  /\ LifeInv /\ TypeInv /\ LinesInv /\ NamesInv /\ RedirectInv /\ TargetsInv
  /\ OriginInv /\ StreamsOrdered /\ NoEcho /\ SilentUntilLogin /\ ReachInv

LEMMA InitServer == Init => ServerInv
<1> SUFFICES ASSUME Init PROVE ServerInv
  OBVIOUS
<1>1. LifeInv /\ TypeInv
  BY InitLife, InitTypes
<1>2. \A c \in Client : Stream(c) = <<>>
  BY DEF Init, Stream
<1>3. OriginInv /\ StreamsOrdered /\ NoEcho /\ SilentUntilLogin
  BY <1>2 DEF OriginInv, StreamsOrdered, NoEcho, SilentUntilLogin
<1>4. LinesInv
  <2>1. ASSUME NEW s \in Client PROVE Lines(s) \in Nat
    BY ScriptAssumption DEF Lines, Client
  <2>2. ~Handling
    BY DEF Init, Handling
  <2>3. ASSUME NEW s \in Client PROVE ncmd[s] = 0 /\ inq[s] = <<>> /\ Len(inq[s]) = 0
    BY DEF Init
  <2> QED BY <2>1, <2>2, <2>3 DEF LinesInv, Finished
<1>5. NamesInv /\ RedirectInv /\ TargetsInv /\ ReachInv
  BY DEF Init, NamesInv, RedirectInv, TargetsInv, ReachInv
<1> QED BY <1>1, <1>3, <1>4, <1>5 DEF ServerInv

LEMMA NextServer == ServerInv /\ [Next]_vars => ServerInv'
<1> SUFFICES ASSUME ServerInv, [Next]_vars PROVE ServerInv'
  OBVIOUS
<1> USE DEF ServerInv
<1>1. LifeInv' /\ TypeInv'
  BY NextLife, NextTypes
<1>2. LinesInv' /\ NamesInv' /\ RedirectInv' /\ TargetsInv'
  BY LinesStep, NamesStep, RedirectStep, TargetsStep
<1>3. OriginInv' /\ StreamsOrdered'
  BY OriginStep, OrderStep
<1>4. NoEcho' /\ SilentUntilLogin'
  BY EchoStep
<1>5. ReachInv'
  BY ReachStep
<1> QED BY <1>1, <1>2, <1>3, <1>4, <1>5

-----------------------------------------------------------------------------
(* Clients that log in once *)

\* A client is named by its one LOGIN, which is then in hand until it is finished.
LEMMA LoginStep ==
  ASSUME OneLogin, ServerInv, LoginInv, [Next]_vars
  PROVE  LoginInv'
<1> SUFFICES ASSUME NEW c \in Client, name'[c] # Unknown, NEW q \in 1..Lines(c),
                    q > Finished(c)', Script[c][q].op = "login"
             PROVE  /\ rpc' \in {"login", "targets", "deliver"} /\ c = Current'.info
                    /\ q = Finished(c)' + 1
  BY DEF LoginInv, Lines
<1>0. LifeInv /\ TypeInv /\ LinesInv /\ NamesInv /\ name \in [Client -> Names]
  BY DEF ServerInv, TypeInv, InfoTypes
<1>1. /\ Finished(c) \in Int /\ q \in Int
      /\ Finished(c)' = IF TakesNext /\ c = Current.info THEN Finished(c) + 1 ELSE Finished(c)
  BY <1>0, LineTypes, FinishedStep
<1>2. CASE name[c] = Unknown
  <2>1. HandleLogin
    <3>1. CASE FinishLogin
      <4>1. rpc = "login" /\ name' = [name EXCEPT ![Current.info] = Head(msgs).name]
        BY <3>1 DEF FinishLogin
      <4>2. name[Current.info] = Blank
        BY <1>0, <4>1 DEF NamesInv
      <4>3. c # Current.info
        BY <1>2, <4>2 DEF Blank, Unknown
      <4> QED BY <1>0, <1>2, <4>1, <4>3
    <3> QED BY <1>2, <3>1, NameCases
  <2>2. /\ rpc' = "login" /\ UNCHANGED <<polling, rindex, msgs>> /\ msgs # <<>> /\ Handling
        /\ Head(msgs).op = "login" /\ name' = [name EXCEPT ![Current.info] = Blank]
    BY <2>1 DEF HandleLogin, Handling
  <2>3. c = Current.info /\ Current' = Current
    BY <1>0, <1>2, <2>2 DEF Current
  <2>4. Script[c][Finished(c) + 1].op = "login" /\ Finished(c) + 1 \in 1..Lines(c)
    BY <1>0, <2>2, <2>3, HeadInHand DEF LineOf
  <2>5. q = Finished(c) + 1
    BY <2>4 DEF OneLogin
  <2>6. Finished(c)' = Finished(c)
    BY <1>0, <1>1, <2>2, NotTaken
  <2> QED BY <2>2, <2>3, <2>5, <2>6
<1>3. CASE name[c] # Unknown
  <2>1. q > Finished(c)
    BY <1>1
  <2>2. rpc \in {"login", "targets", "deliver"} /\ c = Current.info /\ q = Finished(c) + 1
    BY <1>3, <2>1 DEF LoginInv
  <2>3. ~TakesNext
    BY <1>1, <2>2
  <2>4. rpc' \in {"login", "targets", "deliver"} /\ UNCHANGED <<polling, rindex>>
    <3>1. CASE Reader
      <4>1. msgs # <<>>
        BY <1>0, <2>2 DEF TypeInv, HandlingInv
      <4> QED BY <2>2, <2>3, <3>1, <4>1 DEF Reader, PollSnapshot, PollList, Poll, EventsDone,
             EventSkip, EventRead, EventException, HandleDone, HandleLogin, FinishLogin, HandleChat,
             HandleBad, DeliverSnapshot, DeliverOne, DeliverDone, Notify, TakesNext, Handling,
             connVars
    <3>2. CASE UNCHANGED rVars
      BY <2>2, <3>2 DEF rVars
    <3>3. CASE StartReader
      BY <1>0, <2>2, <3>3 DEF StartReader, LifeInv, StartInv
    <3> QED BY <3>1, <3>2, <3>3, ReaderAlone
  <2> QED BY <1>1, <2>2, <2>3, <2>4 DEF Current
<1> QED BY <1>2, <1>3

LEMMA DirectStep ==
  ASSUME ServerInv, LoginInv, DirectToTarget, [Next]_vars
  PROVE  DirectToTarget'
<1> SUFFICES ASSUME NEW c \in Client, NEW i \in DOMAIN Stream(c)',
                    NEW m \in Note, m = Stream(c)'[i], m.seq <= Lines(m.src),
                    Script[m.src][m.seq].op = "to"
             PROVE  name'[c] = Script[m.src][m.seq].name
  BY EntryCases DEF DirectToTarget, ServerInv, Lines
<1>0. /\ LifeInv /\ TypeInv /\ LinesInv /\ NamesInv /\ RedirectInv /\ TargetsInv
      /\ name \in [Client -> Names] /\ m.src \in Client /\ m.seq \in Nat
  BY DEF ServerInv, TypeInv, InfoTypes, Note
<1>1. CASE i \in DOMAIN Stream(c) /\ m = Stream(c)[i]
  <2>1. name[c] = Script[m.src][m.seq].name
    BY <1>1 DEF DirectToTarget
  <2>2. name[c] # Unknown
    <3>1. Stream(c) # <<>>
      BY <1>1
    <3> QED BY <3>1 DEF ServerInv, SilentUntilLogin
  <2>3. name[c] # Blank
    <3>1. m.seq >= 1
      BY <1>1 DEF ServerInv, OriginInv, Explained
    <3>2. Script[m.src] \in Seq([op : {"login", "all", "to", "bad"}, name : Name])
      BY <1>0, ScriptAssumption DEF Client
    <3>3. m.seq \in 1..Len(Script[m.src])
      BY <1>0, <3>1, <3>2 DEF Lines
    <3>4. Script[m.src][m.seq] \in [op : {"login", "all", "to", "bad"}, name : Name]
      BY <3>2, <3>3, ElementOfSeq
    <3> QED BY <2>1, <3>4, NameAssumption
  <2>4. ~(HandleLogin /\ c = Current.info)
    <3> SUFFICES ASSUME HandleLogin, c = Current.info PROVE FALSE
      OBVIOUS
    <3>1. rpc = "handle" /\ Handling /\ msgs # <<>> /\ Head(msgs).op = "login"
      BY DEF HandleLogin, Handling
    <3>2. Script[c][Finished(c) + 1].op = "login" /\ Finished(c) + 1 \in 1..Lines(c)
      BY <1>0, <3>1, HeadInHand DEF LineOf
    <3>3. Finished(c) + 1 > Finished(c)
      BY <1>0, LineTypes
    <3> QED BY <2>2, <3>1, <3>2, <3>3 DEF LoginInv
  <2>5. ~(FinishLogin /\ c = Current.info)
    BY <1>0, <2>3 DEF FinishLogin, NamesInv
  <2>6. name'[c] = name[c]
    BY <1>0, <2>4, <2>5, NameCases DEF HandleLogin, FinishLogin
  <2> QED BY <2>1, <2>6
<1>2. CASE Sends(c, m)
  <2>1. CASE /\ rpc = "deliver" /\ rpc' = "deliver" /\ UNCHANGED <<polling, rindex, msgs>>
             /\ Wants(redirect_msg, c)
             /\ m = [src |-> redirect_msg.src, seq |-> redirect_msg.seq]
    <3>1. Handling /\ msgs # <<>>
      BY <1>0, <2>1 DEF Handling, TypeInv, HandlingInv
    <3>2. m.src = Current.info /\ m.seq = Finished(m.src) + 1
      BY <1>0, <2>1, InHand
    <3>3. Head(msgs) = LineOf(m.src, m.seq) /\ Head(msgs) \in Line
      BY <1>0, <3>1, <3>2, HeadInHand DEF TypeInv, ReaderTypes
    <3>4. redirect_msg.target = Script[m.src][m.seq].name /\ redirect_msg.target \in Name
      BY <1>0, <2>1, <3>3 DEF RedirectInv, LineOf, Line
    <3>5. name[c] = redirect_msg.target
      BY <2>1, <3>4, NameAssumption DEF Wants, is_msg_to_all, is_target
    <3>6. UNCHANGED name
      BY <2>1, NameCases DEF HandleLogin, FinishLogin
    <3> QED BY <3>4, <3>5, <3>6
  <2>2. CASE m = [src |-> WCurrent, seq |-> LogoutSeq(WCurrent)]
    <3>1. m.seq = Lines(m.src) + 1
      BY <2>2 DEF LogoutSeq
    <3>2. Lines(m.src) \in Nat
      BY <1>0, ScriptAssumption DEF Lines, Client
    <3> QED BY <3>1, <3>2
  <2> QED BY <1>0, <1>2, <2>1, <2>2, SendsInTurn
<1> QED BY <1>0, <1>1, <1>2, EntryCases

LEMMA NextDirect == ServerInv /\ DirectInv /\ [Next]_vars => DirectInv'
<1>1. OneLogin' <=> OneLogin
  BY DEF OneLogin, Lines
<1> QED BY <1>1, LoginStep, DirectStep DEF DirectInv

-----------------------------------------------------------------------------
(* The theorems *)

\* The invariant holds whatever the peers and the three threads do, and whichever calls
\* fail.
THEOREM ServerInvariant == Spec => [](ServerInv /\ DirectInv)
<1>1. Init => DirectInv
  BY DEF Init, DirectInv, LoginInv, DirectToTarget, Stream
<1> QED BY <1>1, InitServer, NextServer, NextDirect, PTL DEF Spec

\* Every message that a client was ever sent is a line the server has finished, the line in
\* hand, or a logout: it came in its turn, whichever way the three threads interleave.
THEOREM Delivery == Spec => []DeliveryInv
<1>1. ServerInv /\ DirectInv => DeliveryInv
  BY TypeInvIsTypeOK DEF ServerInv, DeliveryInv, TypeInv
<1> QED BY <1>1, ServerInvariant, PTL

\* What a client gets from another comes in the order it was sent, each message once, and
\* the notice of the logout last: deliveries of both threads go to the same buffers.
THEOREM InOrder == Spec => []StreamsOrdered
<1>1. ServerInv => StreamsOrdered
  BY DEF ServerInv
<1> QED BY <1>1, ServerInvariant, PTL

\* No client gets its own message back, or a notice about itself.
THEOREM NoOwnMessages == Spec => []NoEcho
<1>1. ServerInv => NoEcho
  BY DEF ServerInv
<1> QED BY <1>1, ServerInvariant, PTL

\* A connection that has not sent LOGIN gets nothing.
THEOREM LoginFirst == Spec => []SilentUntilLogin
<1>1. ServerInv => SilentUntilLogin
  BY DEF ServerInv
<1> QED BY <1>1, ServerInvariant, PTL

\* When a message to all is delivered, every client online under another name has it, also
\* those that came into the list after the copy was taken: they are not logged in yet.
THEOREM ToAllIsComplete == Spec => []ToAllReachesEveryone
<1>1. ServerInv => ToAllReachesEveryone
  <2> SUFFICES ASSUME ServerInv, faults = 0, rpc = "deliver", rpos > Len(rtargets),
                      redirect_msg.target = ToAll, NEW d \in Members(clients),
                      pub[d] = "SUCC", name[d] \notin {Unknown, redirect_msg.exclude}
               PROVE  Got(d, redirect_msg.src, redirect_msg.seq)
    BY DEF ToAllReachesEveryone, Got
  <2>1. RWaiting = {}
    BY RestOfAll DEF ServerInv, TypeInv, ReaderTypes, RWaiting
  <2> QED BY <2>1 DEF ServerInv, ReachInv
<1> QED BY <1>1, ServerInvariant, PTL

\* user_logout closes the socket when everyone who was online has been told.
THEOREM LogoutIsAnnounced == Spec => []LogoutAnnounced
<1>1. ServerInv => LogoutAnnounced
  <2> SUFFICES ASSUME ServerInv, faults = 0, wpc = "close", NEW d \in due,
                      pub[d] = "SUCC", name[d] \notin {Blank, name[WCurrent]}
               PROVE  Got(d, WCurrent, LogoutSeq(WCurrent))
    BY DEF LogoutAnnounced, Announced, Got
  <2>1. wtargets = <<>>
    BY DEF ServerInv, LifeInv, VisitInv
  <2>2. WWaiting = {}
    BY <2>1 DEF WWaiting, Rest
  <2> QED BY <2>2 DEF ServerInv, ReachInv
<1> QED BY <1>1, ServerInvariant, PTL

\* A TO-C line goes only to clients of the name it gives, as long as every client logs in
\* once, as IMClient does: the name it had when the line came is the name it has.
THEOREM DirectIsPrivate ==
  ASSUME OneLogin
  PROVE  Spec => []DirectToTarget
<1>1. DirectInv => DirectToTarget
  BY DEF DirectInv
<1> QED BY <1>1, ServerInvariant, PTL
=============================================================================
