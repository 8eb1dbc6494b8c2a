----------------------------- MODULE ChatProofs -----------------------------
(***************************************************************************)
(* What is proved of the server for arbitrary peers holds with IMClient    *)
(* processes as peers: Chat implements IMServer.                           *)
(***************************************************************************)
EXTENDS Chat, DeliveryProofs

\* Every step of a client's process is a step of a peer, or none that the server can see.
LEMMA ChatStep == ChatNext => [Next]_vars
<1> SUFFICES ASSUME ChatNext PROVE [Next]_vars
  OBVIOUS
<1>1. CASE ServerStep
  BY <1>1 DEF ChatNext, ServerStep, Next
<1>2. CASE ChatPeer
  <2> PICK c \in Client : ClientStdin(c) \/ ClientWrite(c) \/ ClientRead(c) \/ ClientQuit(c)
    BY <1>2 DEF ChatPeer
  <2>1. CASE ClientStdin(c)
    BY <2>1 DEF ClientStdin
  <2>2. CASE ClientWrite(c)
    BY <2>2 DEF ClientWrite, ChatNext, Peer, Next
  <2>3. CASE ClientRead(c)
    BY <2>3 DEF ClientRead, ChatNext, Peer, Next
  <2>4. CASE ClientQuit(c)
    BY <2>4 DEF ClientQuit, ChatNext, Peer, Next
  <2> QED BY <2>1, <2>2, <2>3, <2>4
<1> QED BY <1>1, <1>2 DEF ChatNext

\* The server with client processes as its peers implements the server with arbitrary
\* peers: a client that blocks in write() does nothing that was not allowed before.
THEOREM ChatImplementsServer == ChatSpec => Spec
<1>1. ChatInit => Init
  BY DEF ChatInit
<1>2. [ChatNext]_chatVars => [Next]_vars
  BY ChatStep DEF chatVars
<1> QED BY <1>1, <1>2, PTL DEF ChatSpec, Spec

\* So no ClientInfo that the poll loop or the writing thread uses is freed, for any number
\* of client processes and any sizes of their sockets.
THEOREM ChatLifetimes == ChatSpec => []LifeInv
  BY ChatImplementsServer, Lifetimes, PTL

\* Nor does any client get a message out of its turn, twice, or that is not meant for it.
THEOREM ChatDelivery == ChatSpec => []DeliveryInv
  BY ChatImplementsServer, Delivery, PTL
=============================================================================
