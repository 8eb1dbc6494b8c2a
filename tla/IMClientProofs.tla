--------------------------- MODULE IMClientProofs ---------------------------
(***************************************************************************)
(* Proofs about IMClient: ClientInv is inductive, for any number of chunks *)
(* and messages, any capacity of the socket and any failures, and from it  *)
(* follow the safety properties of the client program.                     *)
(***************************************************************************)
EXTENDS ClientInvariants, SequenceTheorems, TLAPS

(* Sequences of tokens *)

\* What Append leaves in place and adds.
LEMMA Appended ==
  ASSUME NEW T, NEW s \in Seq(T), NEW t \in T
  PROVE  /\ Append(s, t) \in Seq(T) /\ Len(Append(s, t)) = Len(s) + 1
         /\ DOMAIN s = 1..Len(s) /\ DOMAIN Append(s, t) = 1..(Len(s) + 1)
         /\ \A i \in 1..Len(s) : Append(s, t)[i] = s[i] /\ s[i] \in T
         /\ Append(s, t)[Len(s) + 1] = t
         /\ Len(s) \in Nat
  OBVIOUS

\* A sequence of one or two elements.
LEMMA ShortSequences ==
  ASSUME NEW T, NEW p \in T, NEW c \in T
  PROVE  <<>> \in Seq(T) /\ <<c>> \in Seq(T) /\ <<p, c>> \in Seq(T)
  OBVIOUS

\* Writing one token or two tokens appends them.
LEMMA WriteAppends ==
  ASSUME NEW T, NEW s \in Seq(T), NEW p \in T, NEW c \in T
  PROVE  /\ s \o <<>> = s
         /\ s \o <<c>> = Append(s, c)
         /\ s \o <<p, c>> = Append(Append(s, p), c)
  <1>1. s \o <<>> = s
    OBVIOUS
  <1>2. s \o <<c>> = Append(s, c)
    BY AppendIsConcat
  <1>3. s \o <<p, c>> = Append(Append(s, p), c)
    <2>1. Append(s, p) = s \o <<p>> /\ Append(s, p) \in Seq(T)
      BY AppendIsConcat
    <2>2. Append(Append(s, p), c) = (s \o <<p>>) \o <<c>>
      BY <2>1, AppendIsConcat
    <2>3. <<p>> \in Seq(T) /\ <<c>> \in Seq(T) /\ <<p, c>> \in Seq(T)
      OBVIOUS
    <2>4. <<p>> \o <<c>> = Append(<<p>>, c)
      BY <2>3, AppendIsConcat
    <2>5. Append(<<p>>, c) = <<p, c>>
      <3>. DEFINE a == Append(<<p>>, c)
                 b == <<p, c>>
      <3>1. a \in Seq(T) /\ Len(a) = 2 /\ a[1] = p /\ a[2] = c
        BY <2>3
      <3>2. b \in Seq(T) /\ Len(b) = 2 /\ b[1] = p /\ b[2] = c
        BY <2>3
      <3>. HIDE DEF a, b
      <3>3. \A i \in 1..Len(a) : a[i] = b[i]
        BY <3>1, <3>2
      <3>4. a = b
        BY <3>1, <3>2, <3>3, SeqEqual
      <3>. QED  BY <3>4 DEF a, b
    <2>. QED  BY <2>2, <2>3, <2>4, <2>5, ConcatAssociative
  <1>. QED  BY <1>1, <1>2, <1>3

\* A token that the next chunk gives keeps the tokens well-formed: a text of the line that
\* is to continue, with its address or behind a prefix, or a mark without a newline.
LEMMA AppendWellFormed ==
  ASSUME NEW s \in Seq(Token), NEW t \in Token, NEW l \in Nat, NEW d \in Nat,
         WellFormed(s), Continues(s, l, d), t.n <= d + 1,
         IsText(t) => t.line = l,
         IsText(t) /\ ~t.address => Len(s) > 0 /\ s[Len(s)].kind = "prefix",
         t.kind = "prefix" => ~t.last,
         Len(s) > 0 /\ s[Len(s)].kind = "prefix" => ~t.address
  PROVE  WellFormed(Append(s, t))
  <1>. DEFINE u == Append(s, t)
             N == Len(s)
  <1>1. /\ u \in Seq(Token) /\ Len(u) = N + 1 /\ DOMAIN s = 1..N /\ DOMAIN u = 1..(N + 1)
        /\ \A i \in 1..N : u[i] = s[i] /\ s[i] \in Token
        /\ u[N + 1] = t /\ N \in Nat
    BY Appended
  <1>. HIDE DEF u, N
  <1>2. ASSUME NEW i \in DOMAIN u, NEW j \in DOMAIN u, i < j, IsText(u[i]), IsText(u[j])
        PROVE  (\A k \in i..(j - 1) : ~u[k].last) <=> u[i].line = u[j].line
    <2>1. i \in 1..N
      BY <1>1, <1>2
    <2>2. CASE j \in 1..N
      <3>1. u[i] = s[i] /\ u[j] = s[j] /\ i \in DOMAIN s /\ j \in DOMAIN s
        BY <1>1, <2>1, <2>2
      <3>2. (\A k \in i..(j - 1) : ~s[k].last) <=> s[i].line = s[j].line
        BY <3>1, <1>2 DEF WellFormed
      <3>3. \A k \in i..(j - 1) : u[k] = s[k]
        BY <1>1, <2>1, <2>2
      <3>. QED  BY <3>1, <3>2, <3>3
    <2>3. CASE j = N + 1
      <3>1. j - 1 = N /\ u[j] = t
        BY <2>3, <1>1
      <3>2. (\A k \in i..N : ~s[k].last) <=> s[i].line = l
        BY <1>1, <1>2, <2>1 DEF Continues, N
      <3>3. t.line = l
        BY <3>1, <1>2
      <3>4. \A k \in i..N : u[k] = s[k]
        BY <1>1, <2>1
      <3>. QED  BY <3>1, <3>2, <3>3, <3>4, <2>1, <1>1
    <2>. QED  BY <1>1, <2>2, <2>3
  <1>3. ASSUME NEW j \in DOMAIN u, NEW n \in 1..(u[j].n - 1)
        PROVE  \E i \in 1..(j - 1) : u[i].n = n
    <2>1. CASE j \in 1..N
      <3>1. PICK i \in 1..(j - 1) : s[i].n = n
        BY <1>1, <1>3, <2>1 DEF WellFormed
      <3>. QED  BY <3>1, <2>1, <1>1
    <2>2. CASE j = N + 1
      <3>1. n \in 1..d
        BY <1>1, <1>3, <2>2 DEF Token
      <3>2. PICK i \in 1..N : s[i].n = n
        BY <3>1, <1>1 DEF Continues
      <3>. QED  BY <3>2, <2>2, <1>1
    <2>. QED  BY <1>1, <2>1, <2>2
  <1>4. ASSUME NEW i \in DOMAIN u, IsText(u[i]), ~u[i].address
        PROVE  i > 1 /\ u[i - 1].kind = "prefix"
    <2>1. CASE i \in 1..N
      <3>1. u[i] = s[i] /\ (i > 1 => u[i - 1] = s[i - 1])
        BY <1>1, <2>1
      <3>2. i > 1 /\ s[i - 1].kind = "prefix"
        BY <1>1, <1>4, <2>1, <3>1 DEF WellFormed
      <3>. QED  BY <3>1, <3>2
    <2>2. CASE i = N + 1
      <3>1. u[i] = t /\ i - 1 = N /\ (N > 0 => i > 1 /\ u[N] = s[N])
        BY <1>1, <2>2
      <3>2. N > 0 /\ s[N].kind = "prefix"
        BY <3>1, <1>4 DEF N
      <3>. QED  BY <3>1, <3>2
    <2>. QED  BY <1>1, <2>1, <2>2
  <1>5. ASSUME NEW i \in DOMAIN u, u[i].kind = "prefix"
        PROVE  ~u[i].last /\ (i < Len(u) => ~u[i + 1].address)
    <2>1. CASE i \in 1..N
      <3>1. u[i] = s[i] /\ (i < N => u[i + 1] = s[i + 1]) /\ (i = N => u[i + 1] = t)
        BY <1>1, <2>1
      <3>2. ~s[i].last /\ (i < N => ~s[i + 1].address)
        BY <1>1, <1>5, <2>1, <3>1 DEF WellFormed, N
      <3>3. i = N => ~t.address
        BY <3>1, <1>5, <2>1, <1>1 DEF N
      <3>. QED  BY <3>1, <3>2, <3>3, <2>1, <1>1
    <2>2. CASE i = N + 1
      BY <1>1, <1>5, <2>2
    <2>. QED  BY <1>1, <2>1, <2>2
  <1>6. WellFormed(u)
    BY <1>2, <1>3, <1>4, <1>5 DEF WellFormed
  <1>. QED  BY <1>6 DEF u

\* A mark without a newline leaves the line open as it was; it may count as the next chunk.
LEMMA AppendMark ==
  ASSUME NEW s \in Seq(Token), NEW t \in Token, NEW l \in Nat, NEW d \in Nat, NEW e \in Nat,
         Continues(s, l, d), ~IsText(t), ~t.last, e = d \/ (e = d + 1 /\ t.n = e)
  PROVE  Continues(Append(s, t), l, e)
  <1>. DEFINE u == Append(s, t)
             N == Len(s)
  <1>1. /\ u \in Seq(Token) /\ Len(u) = N + 1 /\ DOMAIN s = 1..N /\ DOMAIN u = 1..(N + 1)
        /\ \A i \in 1..N : u[i] = s[i] /\ s[i] \in Token
        /\ u[N + 1] = t /\ N \in Nat
    BY Appended
  <1>. HIDE DEF u, N
  <1>2. ASSUME NEW i \in DOMAIN u, IsText(u[i])
        PROVE  u[i].line <= l /\ ((\A k \in i..Len(u) : ~u[k].last) <=> u[i].line = l)
    <2>1. i \in 1..N /\ u[i] = s[i]
      BY <1>1, <1>2
    <2>2. s[i].line <= l /\ ((\A k \in i..N : ~s[k].last) <=> s[i].line = l)
      BY <2>1, <1>1, <1>2 DEF Continues, N
    <2>3. (\A k \in i..N : ~s[k].last) <=> (\A k \in i..(N + 1) : ~u[k].last)
      <3>1. \A k \in i..N : u[k] = s[k]
        BY <1>1, <2>1
      <3>2. i..(N + 1) = (i..N) \cup {N + 1}
        BY <1>1, <2>1
      <3>. QED  BY <3>1, <3>2, <1>1
    <2>. QED  BY <2>1, <2>2, <2>3, <1>1
  <1>3. ASSUME NEW n \in 1..e
        PROVE  \E i \in DOMAIN u : u[i].n = n
    <2>1. CASE n \in 1..d
      <3>1. PICK i \in 1..N : s[i].n = n
        BY <2>1, <1>1 DEF Continues
      <3>. QED  BY <3>1, <1>1
    <2>2. CASE n = d + 1
      <3>1. t.n = n
        BY <2>2
      <3>2. N + 1 \in DOMAIN u /\ u[N + 1] = t
        BY <1>1
      <3>. QED  BY <3>1, <3>2
    <2>. QED  BY <2>1, <2>2
  <1>4. Continues(u, l, e)
    BY <1>2, <1>3 DEF Continues
  <1>. QED  BY <1>4 DEF u

\* A text of the open line leaves the line open that is typed after it.
LEMMA AppendText ==
  ASSUME NEW s \in Seq(Token), NEW t \in Token, NEW l \in Nat, NEW d \in Nat,
         Continues(s, l, d), IsText(t), t.line = l, t.n = d + 1
  PROVE  Continues(Append(s, t), LineAfter(t), d + 1)
  <1>. DEFINE u == Append(s, t)
             N == Len(s)
             m == LineAfter(t)
  <1>1. /\ u \in Seq(Token) /\ Len(u) = N + 1 /\ DOMAIN s = 1..N /\ DOMAIN u = 1..(N + 1)
        /\ \A i \in 1..N : u[i] = s[i] /\ s[i] \in Token
        /\ u[N + 1] = t /\ N \in Nat
    BY Appended
  <1>a. (t.last => m = l + 1) /\ (~t.last => m = l)
    BY DEF LineAfter
  <1>. HIDE DEF u, N, m
  <1>2. ASSUME NEW i \in DOMAIN u, IsText(u[i])
        PROVE  u[i].line <= m /\ ((\A k \in i..Len(u) : ~u[k].last) <=> u[i].line = m)
    <2>1. CASE i \in 1..N
      <3>1. u[i] = s[i] /\ s[i].line \in Nat
        BY <1>1, <2>1 DEF Token
      <3>2. s[i].line <= l /\ ((\A k \in i..N : ~s[k].last) <=> s[i].line = l)
        BY <2>1, <3>1, <1>1, <1>2 DEF Continues, N
      <3>3. \A k \in i..N : u[k] = s[k]
        BY <1>1, <2>1
      <3>4. i..(N + 1) = (i..N) \cup {N + 1}
        BY <1>1, <2>1
      <3>5. (\A k \in i..(N + 1) : ~u[k].last) <=> ((\A k \in i..N : ~s[k].last) /\ ~t.last)
        BY <3>3, <3>4, <1>1
      <3>6. CASE t.last
        BY <3>6, <3>1, <3>2, <3>5, <1>a, <1>1
      <3>7. CASE ~t.last
        BY <3>7, <3>1, <3>2, <3>5, <1>a, <1>1
      <3>. QED  BY <3>6, <3>7
    <2>2. CASE i = N + 1
      <3>1. i..Len(u) = {N + 1} /\ u[i] = t
        BY <2>2, <1>1
      <3>2. (\A k \in i..Len(u) : ~u[k].last) <=> ~t.last
        BY <3>1, <1>1
      <3>3. CASE t.last
        BY <3>3, <3>1, <3>2, <1>a
      <3>4. CASE ~t.last
        BY <3>4, <3>1, <3>2, <1>a
      <3>. QED  BY <3>3, <3>4
    <2>. QED  BY <1>1, <2>1, <2>2
  <1>3. ASSUME NEW n \in 1..(d + 1)
        PROVE  \E i \in DOMAIN u : u[i].n = n
    <2>1. CASE n \in 1..d
      <3>1. PICK i \in 1..N : s[i].n = n
        BY <2>1, <1>1 DEF Continues
      <3>. QED  BY <3>1, <1>1
    <2>2. CASE n = d + 1
      <3>2. N + 1 \in DOMAIN u /\ u[N + 1] = t
        BY <1>1
      <3>. QED  BY <2>2, <3>2
    <2>. QED  BY <2>1, <2>2
  <1>4. Continues(u, m, d + 1)
    BY <1>2, <1>3 DEF Continues
  <1>. QED  BY <1>4 DEF u, m

-----------------------------------------------------------------------------
(* The invariant holds initially *)

\* Nothing on the connection is well-formed, and any chunk may follow.
LEMMA NothingYet ==
  ASSUME NEW l, NEW d \in Int, d <= 0
  PROVE  WellFormed(<<>>) /\ Complete(<<>>) /\ Continues(<<>>, l, d)
  BY DEF WellFormed, Complete, Continues

LEMMA InitInv == Init => ClientInv
  <1>. SUFFICES ASSUME Init PROVE ClientInv
    OBVIOUS
  <1>1. TypeOK
    BY BoundsAssumption DEF Init, TypeOK, NoEvents
  <1>2. PhaseInv /\ EventsInv
    BY DEF Init, PhaseInv, EventsInv, ReadsDoNotBlock, SocketEvent, NoEvents
  <1>3. TerminalInv
    BY DEF Init, TerminalInv
  <1>4. StreamInv
    <2>1. wire = <<>> /\ buff = <<>> /\ wire \o buff = <<>> /\ sock # "up"
      BY DEF Init
    <2>. QED  BY <2>1, NothingYet DEF StreamInv
  <1>. QED  BY <1>1, <1>2, <1>3, <1>4 DEF ClientInv

-----------------------------------------------------------------------------
(* Types *)

\* What a chunk is composed to is tokens.
LEMMA ComposedType ==
  ASSUME NEW c \in Chunk
  PROVE  /\ Composed(c) \in Seq(Token)
         /\ Mark("prefix", c.n, FALSE) \in Token /\ Mark("bare", c.n, FALSE) \in Token
         /\ c.kind # "eof" => c \in Token
  <1>1. Mark("prefix", c.n, FALSE) \in Token /\ Mark("bare", c.n, FALSE) \in Token
    BY DEF Mark, Token, Chunk
  <1>2. c.kind # "eof" => c \in Token
    BY DEF Token, Chunk
  <1>3. Composed(c) \in Seq(Token)
    <2>1. CASE c.kind = "eof"
      BY <1>1, <2>1, ShortSequences, Zenon DEF Composed
    <2>2. CASE c.kind # "eof" /\ c.address
      BY <1>2, <2>2, ShortSequences, Zenon DEF Composed
    <2>3. CASE c.kind # "eof" /\ ~c.address
      BY <1>1, <1>2, <2>3, ShortSequences, Zenon DEF Composed
    <2>. QED  BY <2>1, <2>2, <2>3
  <1>. QED  BY <1>1, <1>2, <1>3

LEMMA TypeStep == ClientInv /\ [Next]_vars => TypeOK'
  <1>. SUFFICES ASSUME ClientInv, [Next]_vars PROVE TypeOK'
    OBVIOUS
  <1>. USE BoundsAssumption
  <1>0. TypeOK /\ PhaseInv /\ EventsInv
    BY DEF ClientInv
  <1>1. ASSUME NEW address \in BOOLEAN, NEW last \in BOOLEAN, Type(address, last)
        PROVE  TypeOK'
    <2>. DEFINE c == [kind |-> "text", n |-> typed + 1, line |-> line,
                      address |-> address, last |-> last]
    <2>1. c \in Chunk
      BY <1>0 DEF TypeOK, Chunk
    <2>2. tty' = Append(tty, c)
      BY <1>1 DEF Type
    <2>. HIDE DEF c
    <2>3. tty' \in Seq(Chunk)
      BY <1>0, <2>1, <2>2 DEF TypeOK
    <2>4. line' \in Nat /\ typed' \in 0..MaxChunks
      BY <1>0, <1>1 DEF TypeOK, Type
    <2>. QED  BY <1>0, <1>1, <2>3, <2>4 DEF TypeOK, Type, serverVars
  <1>2. CASE EndOfFile
    <2>. DEFINE c == [kind |-> "eof", n |-> typed + 1, line |-> line,
                      address |-> FALSE, last |-> FALSE]
    <2>1. c \in Chunk
      BY <1>0 DEF TypeOK, Chunk
    <2>2. tty' = Append(tty, c)
      BY <1>2 DEF EndOfFile
    <2>. HIDE DEF c
    <2>3. tty' \in Seq(Chunk)
      BY <1>0, <2>1, <2>2 DEF TypeOK
    <2>. QED  BY <1>0, <1>2, <2>3 DEF TypeOK, EndOfFile, serverVars
  <1>3. CASE ServerSends \/ ServerReads \/ ServerCloses
    <2>1. /\ sent' \in 0..MaxNews /\ news' \in 0..(2 * sent') /\ unread' \in 0..SockCap
          /\ sock' \in {"none", "up", "fin", "reset", "pipe"}
      <3>1. /\ sent \in 0..MaxNews /\ news \in 0..(2 * sent) /\ unread \in 0..SockCap
            /\ sock \in {"none", "up", "fin", "reset", "pipe"}
        BY <1>0 DEF TypeOK
      <3>2. CASE ServerSends
        <4>1. sent < MaxNews /\ sent' = sent + 1 /\ news' = news + 2 /\ UNCHANGED <<unread, sock>>
          BY <3>2 DEF ServerSends
        <4>. QED  BY <3>1, <4>1
      <3>3. CASE ServerReads
        <4>1. unread > 0 /\ unread' = unread - 1 /\ UNCHANGED <<sent, news, sock>>
          BY <3>3 DEF ServerReads
        <4>. QED  BY <3>1, <4>1
      <3>4. CASE ServerCloses
        <4>1. sock' \in {"reset", "fin"} /\ UNCHANGED <<sent, news, unread>>
          BY <3>4 DEF ServerCloses
        <4>. QED  BY <3>1, <4>1
      <3>. QED  BY <1>3, <3>2, <3>3, <3>4
    <2>2. UNCHANGED <<pc, is_online, revents, buff, tty, typed, line, wire, faults>>
      BY <1>3 DEF ServerSends, ServerReads, ServerCloses, userVars
    <2>. QED  BY <1>0, <2>1, <2>2 DEF TypeOK
  <1>4. CASE Connect
    BY <1>0, <1>4 DEF TypeOK, Connect, Fault, userVars
  <1>5. CASE SendLogin
    <2>1. Mark("login", 0, TRUE) \in Token
      BY DEF Mark, Token
    <2>2. unread = 0
      BY <1>0, <1>5 DEF PhaseInv, SendLogin
    <2>3. wire' \in Seq(Token)
      <3>1. wire' = wire \/ wire' = <<Mark("login", 0, TRUE)>>
        BY <1>5 DEF SendLogin, SendsLogin
      <3>2. <<Mark("login", 0, TRUE)>> \in Seq(Token)
        BY <2>1, ShortSequences, Zenon
      <3>. QED  BY <3>1, <3>2, <1>0 DEF TypeOK
    <2>a. /\ pc' \in {"poll", "exited"} /\ sock' \in {sock, "fin", "pipe"}
          /\ unread' \in {unread, unread + 1} /\ (faults' = faults \/ Fault)
      BY <1>5 DEF SendLogin, SendsLogin
    <2>4. faults' \in 0..MaxFaults
      BY <1>0, <2>a DEF TypeOK, Fault
    <2>5. unread' \in 0..SockCap
      <3>1. SockCap \in Nat \ {0}
        BY BoundsAssumption
      <3>2. unread' = 0 \/ unread' = 1
        BY <2>2, <2>a
      <3>. QED  BY <3>1, <3>2
    <2>6. UNCHANGED <<is_online, revents, buff, news, sent, tty, typed, line>>
      BY <1>5 DEF SendLogin, SendsLogin, userVars
    <2>. QED  BY <1>0, <2>3, <2>a, <2>4, <2>5, <2>6 DEF TypeOK
  <1>6. CASE Poll
    <2>1. \A s \in SocketEvents : s \in {"none", "in", "hup"}
      BY DEF SocketEvents
    <2>2. \A i \in StdinEvents : i \in BOOLEAN
      BY DEF StdinEvents
    <2>3. revents' \in [stdin : BOOLEAN, socket : {"none", "in", "hup"}]
      BY <1>0, <1>6, <2>1, <2>2 DEF TypeOK, Poll
    <2>. QED  BY <1>0, <1>6, <2>3 DEF TypeOK, Poll, Fault, serverVars, userVars
  <1>7. CASE ReadStdin
    <2>1. tty # <<>>
      BY <1>0, <1>7 DEF EventsInv, ReadsDoNotBlock, ReadStdin
    <2>2. Head(tty) \in Chunk /\ Tail(tty) \in Seq(Chunk)
      BY <2>1, <1>0 DEF TypeOK
    <2>3. Mark("bare", 0, FALSE) \in Token
      BY DEF Mark, Token
    <2>4. <<Mark("bare", 0, FALSE)>> \in Seq(Token) /\ Composed(Head(tty)) \in Seq(Token)
      BY <2>2, <2>3, ComposedType, ShortSequences, Zenon
    <2>5. buff' \in Seq(Token) /\ tty' \in Seq(Chunk)
      BY <1>0, <1>7, <2>2, <2>4 DEF ReadStdin, TypeOK
    <2>6. pc' = "write" /\ faults' \in 0..MaxFaults
      <3>1. pc' = "write" /\ (faults' = faults \/ Fault)
        BY <1>7 DEF ReadStdin
      <3>. QED  BY <1>0, <3>1 DEF Fault, TypeOK
    <2>7. UNCHANGED <<is_online, revents, sock, unread, news, sent, typed, line, wire>>
      BY <1>7 DEF ReadStdin, serverVars
    <2>. QED  BY <1>0, <2>5, <2>6, <2>7 DEF TypeOK
  <1>8. CASE WriteSocket
    <2>1. wire' \in Seq(Token) /\ buff' \in Seq(Token)
      <3>1. (wire' = wire \/ wire' = wire \o buff) /\ buff' = <<>>
        BY <1>8 DEF WriteSocket
      <3>2. wire \in Seq(Token) /\ buff \in Seq(Token)
        BY <1>0 DEF TypeOK
      <3>3. wire \o buff \in Seq(Token) /\ <<>> \in Seq(Token)
        BY <3>2, ConcatProperties
      <3>. QED  BY <3>1, <3>2, <3>3
    <2>2. /\ pc' \in {"socket", "killed"} /\ sock' \in {sock, "reset", "pipe"}
          /\ unread' \in 0..SockCap /\ is_online' \in BOOLEAN
      <3>1. /\ pc' \in {"socket", "killed"} /\ sock' \in {sock, "reset", "pipe"}
            /\ unread' = unread \/ (unread < SockCap /\ unread' = unread + 1)
            /\ is_online' = is_online \/ is_online' = FALSE
        BY <1>8 DEF WriteSocket
      <3>2. unread' \in 0..SockCap
        BY <1>0, <3>1 DEF TypeOK
      <3>3. is_online' \in BOOLEAN
        BY <1>0, <3>1, Zenon DEF TypeOK
      <3>. QED  BY <3>1, <3>2, <3>3
    <2>3. UNCHANGED <<revents, news, sent, tty, typed, line, faults>>
      BY <1>8 DEF WriteSocket, userVars
    <2>. QED  BY <1>0, <2>1, <2>2, <2>3 DEF TypeOK
  <1>9. CASE SkipStdin
    BY <1>0, <1>9 DEF TypeOK, SkipStdin, serverVars, userVars
  <1>10. CASE ReadSocket \/ ReadError \/ ReadEnd \/ HangUp \/ SkipSocket
    <2>1. pc' \in {"poll", "exited"} /\ revents' = NoEvents
      BY <1>10 DEF ReadSocket, ReadError, ReadEnd, HangUp, SkipSocket, Leave, NextRound, AfterEnd
    <2>2. news' \in 0..(2 * sent)
      BY <1>10, <1>0 DEF ReadSocket, ReadError, ReadEnd, HangUp, SkipSocket, serverVars, TypeOK
    <2>3. /\ UNCHANGED <<is_online, buff, unread, sent, userVars, wire, faults>>
          /\ sock' = sock \/ sock' = "pipe"
      BY <1>10 DEF ReadSocket, ReadError, ReadEnd, HangUp, SkipSocket, serverVars
    <2>. QED  BY <1>0, <2>1, <2>2, <2>3 DEF TypeOK, NoEvents, userVars
  <1>11. CASE UNCHANGED vars
    BY <1>0, <1>11 DEF TypeOK, vars
  <1>. QED  BY <1>1, <1>2, <1>3, <1>4, <1>5, <1>6, <1>7, <1>8, <1>9, <1>10, <1>11 DEF Next, Main

-----------------------------------------------------------------------------
(* Program counter and events *)

LEMMA PhaseStep == ClientInv /\ [Next]_vars => PhaseInv'
  <1>. SUFFICES ASSUME ClientInv, [Next]_vars PROVE PhaseInv'
    OBVIOUS
  <1>0. TypeOK /\ PhaseInv
    BY DEF ClientInv
  <1>1. ASSUME NEW address \in BOOLEAN, NEW last \in BOOLEAN, Type(address, last)
        PROVE  PhaseInv'
    BY <1>0, <1>1 DEF PhaseInv, Type, Online, serverVars
  <1>2. CASE EndOfFile \/ ServerSends \/ ServerCloses
    BY <1>0, <1>2 DEF PhaseInv, EndOfFile, ServerSends, ServerCloses, Online,
                      serverVars, userVars
  <1>3. CASE ServerReads
    BY <1>0, <1>3 DEF PhaseInv, ServerReads, userVars
  <1>4. CASE Connect \/ SendLogin \/ Poll \/ ReadStdin \/ SkipStdin
    BY <1>0, <1>4 DEF PhaseInv, Connect, SendLogin, SendsLogin, Poll, ReadStdin, SkipStdin,
                      serverVars, userVars
  <1>5. CASE WriteSocket
    BY <1>0, <1>5 DEF PhaseInv, WriteSocket
  <1>6. CASE ReadSocket \/ ReadError \/ ReadEnd \/ HangUp \/ SkipSocket
    <2>1. pc' \in {"poll", "exited"} /\ buff' = buff /\ pc = "socket"
      BY <1>6 DEF ReadSocket, ReadError, ReadEnd, HangUp, SkipSocket, Leave, NextRound, AfterEnd
    <2>. QED  BY <1>0, <2>1 DEF PhaseInv
  <1>7. CASE UNCHANGED vars
    BY <1>0, <1>7 DEF PhaseInv, vars
  <1>. QED  BY <1>1, <1>2, <1>3, <1>4, <1>5, <1>6, <1>7 DEF Next, Main

LEMMA EventsStep == ClientInv /\ [Next]_vars => EventsInv'
  <1>. SUFFICES ASSUME ClientInv, [Next]_vars PROVE EventsInv'
    OBVIOUS
  <1>0. TypeOK /\ EventsInv
    BY DEF ClientInv
  <1>. USE DEF EventsInv, ReadsDoNotBlock, SocketEvent
  <1>1. CASE \E address, last \in BOOLEAN : Type(address, last)
    <2>1. PICK c : tty' = Append(tty, c)
      BY <1>1 DEF Type
    <2>2. tty' # <<>>
      BY <1>0, <2>1 DEF TypeOK
    <2>3. UNCHANGED <<pc, revents, news, sock>>
      BY <1>1 DEF Type, serverVars
    <2>. QED  BY <1>0, <2>2, <2>3
  <1>2. CASE EndOfFile
    <2>1. PICK c : tty' = Append(tty, c)
      BY <1>2 DEF EndOfFile
    <2>2. tty' # <<>>
      BY <1>0, <2>1 DEF TypeOK
    <2>3. UNCHANGED <<pc, revents, news, sock>>
      BY <1>2 DEF EndOfFile, serverVars
    <2>. QED  BY <1>0, <2>2, <2>3
  <1>3. CASE ServerSends \/ ServerReads \/ ServerCloses
    BY <1>0, <1>3 DEF TypeOK, ServerSends, ServerReads, ServerCloses, userVars
  <1>4. CASE Connect \/ SendLogin
    BY <1>0, <1>4 DEF Connect, SendLogin, SendsLogin, Fault, userVars
  <1>5. CASE Poll
    <2>1. CASE pc' = "exited"
      BY <2>1
    <2>2. CASE pc' # "exited"
      <3>1. PICK i \in StdinEvents, s \in SocketEvents :
              revents' = [stdin |-> i, socket |-> s] /\ pc' = "stdin"
        BY <1>5, <2>2 DEF Poll
      <3>2. UNCHANGED <<tty, news, sock>>
        BY <1>5 DEF Poll, serverVars, userVars
      <3>3. i => tty # <<>>
        BY DEF StdinEvents
      <3>4. s = "in" => news > 0 \/ sock # "up"
        BY DEF SocketEvents
      <3>. QED  BY <3>1, <3>2, <3>3, <3>4
    <2>. QED  BY <2>1, <2>2
  <1>6. CASE ReadStdin \/ SkipStdin
    BY <1>0, <1>6 DEF ReadStdin, SkipStdin, serverVars, userVars
  <1>7. CASE WriteSocket
    BY <1>0, <1>7 DEF WriteSocket, userVars
  <1>8. CASE ReadSocket \/ ReadError \/ ReadEnd \/ HangUp \/ SkipSocket
    <2>1. pc' \in {"poll", "exited"}
      BY <1>8 DEF ReadSocket, ReadError, ReadEnd, HangUp, SkipSocket, Leave, NextRound, AfterEnd
    <2>. QED  BY <2>1
  <1>9. CASE UNCHANGED vars
    BY <1>0, <1>9 DEF vars
  <1>. QED  BY <1>1, <1>2, <1>3, <1>4, <1>5, <1>6, <1>7, <1>8, <1>9 DEF Next, Main

-----------------------------------------------------------------------------
(* The terminal *)

\* Typing a chunk of the current line keeps the terminal in order and changes neither what
\* was taken nor which line is next.
LEMMA TypingKeepsOrder ==
  ASSUME TypeOK, TerminalInv, NEW c \in Chunk,
         c.n = typed + 1, c.line = line, c.kind = "eof" => ~c.last,
         tty' = Append(tty, c), typed' = typed + 1, line' = LineAfter(c)
  PROVE  TerminalInv' /\ NextLine' = NextLine /\ Taken' = Taken
  <1>. DEFINE N == Len(tty)
             u == Append(tty, c)
  <1>1. tty \in Seq(Chunk) /\ typed \in Nat /\ line \in Nat
    BY DEF TypeOK
  <1>2. /\ u \in Seq(Chunk) /\ Len(u) = N + 1 /\ DOMAIN tty = 1..N /\ DOMAIN u = 1..(N + 1)
        /\ \A i \in 1..N : u[i] = tty[i] /\ tty[i] \in Chunk
        /\ u[N + 1] = c /\ N \in Nat
    BY <1>1, Appended
  <1>3. tty' = u
    OBVIOUS
  <1>4. /\ N <= typed
        /\ \A i \in 1..N : tty[i].n = typed - N + i
        /\ \A i \in 1..N : LineAfter(tty[i]) = IF i < N THEN tty[i + 1].line ELSE line
        /\ \A i \in 1..N : tty[i].kind = "eof" => ~tty[i].last
    BY <1>2 DEF TerminalInv
  <1>a. (tty = <<>>) <=> (N = 0)
    BY <1>1
  <1>b. u # <<>>
    BY <1>1
  <1>. HIDE DEF N, u
  <1>5. ASSUME NEW i \in 1..(N + 1) PROVE u[i].n = typed' - (N + 1) + i
    <2>1. CASE i = N + 1
      BY <2>1, <1>1, <1>2
    <2>2. CASE i \in 1..N
      <3>1. u[i].n = typed - N + i
        BY <2>2, <1>2, <1>4
      <3>. QED  BY <3>1, <1>1, <1>2
    <2>. QED  BY <2>1, <2>2, <1>2
  <1>6. ASSUME NEW i \in 1..(N + 1)
        PROVE  LineAfter(u[i]) = IF i < N + 1 THEN u[i + 1].line ELSE line'
    <2>1. CASE i = N + 1
      BY <2>1, <1>2
    <2>2. CASE i = N /\ i \in 1..N
      BY <2>2, <1>2, <1>4
    <2>3. CASE i < N
      <3>1. u[i] = tty[i] /\ u[i + 1] = tty[i + 1] /\ i \in 1..N
        BY <2>3, <1>2
      <3>. QED  BY <3>1, <2>3, <1>4, <1>2
    <2>. QED  BY <2>1, <2>2, <2>3, <1>2
  <1>7. ASSUME NEW i \in 1..(N + 1)
        PROVE  u[i].kind = "eof" => ~u[i].last
    <2>1. CASE i = N + 1
      BY <2>1, <1>2
    <2>2. CASE i \in 1..N
      BY <2>2, <1>2, <1>4
    <2>. QED  BY <2>1, <2>2, <1>2
  <1>8. Len(tty') <= typed'
    BY <1>1, <1>2, <1>3, <1>4
  <1>9. TerminalInv'
    <2>1. DOMAIN tty' = 1..(N + 1) /\ Len(tty') = N + 1
      BY <1>2, <1>3
    <2>2. \A i \in DOMAIN tty' : tty'[i].n = typed' - Len(tty') + i
      BY <2>1, <1>3, <1>5
    <2>3. \A i \in DOMAIN tty' :
            LineAfter(tty'[i]) = IF i < Len(tty') THEN tty'[i + 1].line ELSE line'
      BY <2>1, <1>3, <1>6
    <2>4. \A i \in DOMAIN tty' : tty'[i].kind = "eof" => ~tty'[i].last
      BY <2>1, <1>3, <1>7
    <2>. QED  BY <1>8, <2>2, <2>3, <2>4 DEF TerminalInv, LineAfter
  <1>10. Taken' = Taken
    BY <1>1, <1>2, <1>3 DEF Taken, N
  <1>11. NextLine' = NextLine
    <2>1. CASE N = 0
      <3>1. tty = <<>> /\ tty' # <<>> /\ tty'[1] = c
        BY <2>1, <1>a, <1>b, <1>2, <1>3
      <3>. QED  BY <3>1 DEF NextLine
    <2>2. CASE N > 0
      <3>1. tty # <<>> /\ tty' # <<>> /\ tty'[1] = tty[1]
        BY <2>2, <1>a, <1>b, <1>2, <1>3
      <3>. QED  BY <3>1 DEF NextLine
    <2>. QED  BY <2>1, <2>2, <1>2
  <1>. QED  BY <1>9, <1>10, <1>11

\* The user's two actions are of that kind.
LEMMA UserStep ==
  ASSUME TypeOK, TerminalInv,
         EndOfFile \/ \E address, last \in BOOLEAN : Type(address, last)
  PROVE  TerminalInv' /\ NextLine' = NextLine /\ Taken' = Taken
  <1>0. typed \in Nat /\ line \in Nat
    BY DEF TypeOK
  <1>1. ASSUME NEW address \in BOOLEAN, NEW last \in BOOLEAN, Type(address, last)
        PROVE  TerminalInv' /\ NextLine' = NextLine /\ Taken' = Taken
    <2>. DEFINE c == [kind |-> "text", n |-> typed + 1, line |-> line,
                      address |-> address, last |-> last]
    <2>1. c \in Chunk
      BY <1>0 DEF Chunk
    <2>2. c.n = typed + 1 /\ c.line = line /\ c.kind # "eof"
      OBVIOUS
    <2>4. line' = LineAfter(c)
      BY <1>1 DEF Type, LineAfter
    <2>5. tty' = Append(tty, c) /\ typed' = typed + 1
      BY <1>1 DEF Type
    <2>. HIDE DEF c
    <2>. QED  BY <2>1, <2>2, <2>4, <2>5, TypingKeepsOrder
  <1>2. ASSUME EndOfFile
        PROVE  TerminalInv' /\ NextLine' = NextLine /\ Taken' = Taken
    <2>. DEFINE c == [kind |-> "eof", n |-> typed + 1, line |-> line,
                      address |-> FALSE, last |-> FALSE]
    <2>1. c \in Chunk
      BY <1>0 DEF Chunk
    <2>2. c.n = typed + 1 /\ c.line = line /\ ~c.address /\ ~c.last
      OBVIOUS
    <2>4. line' = LineAfter(c)
      BY <1>2 DEF EndOfFile, LineAfter
    <2>5. tty' = Append(tty, c) /\ typed' = typed + 1
      BY <1>2 DEF EndOfFile
    <2>. HIDE DEF c
    <2>. QED  BY <2>1, <2>2, <2>4, <2>5, TypingKeepsOrder
  <1>. QED  BY <1>1, <1>2

\* Taking the first chunk: it is the next one, of the next line, and the line after it is
\* next; the rest stays in order.
LEMMA TakingFirst ==
  ASSUME TypeOK, TerminalInv, tty # <<>>, tty' = Tail(tty), UNCHANGED <<typed, line>>
  PROVE  /\ TerminalInv'
         /\ Head(tty) \in Chunk /\ Head(tty).n = Taken + 1 /\ Head(tty).line = NextLine
         /\ Head(tty).kind = "eof" => ~Head(tty).last
         /\ NextLine' = LineAfter(Head(tty)) /\ Taken' = Taken + 1
         /\ Taken \in Nat /\ NextLine \in Nat
  <1>. DEFINE N == Len(tty)
             u == Tail(tty)
  <1>1. tty \in Seq(Chunk) /\ typed \in Nat /\ line \in Nat
    BY DEF TypeOK
  <1>2. /\ u \in Seq(Chunk) /\ Len(u) = N - 1 /\ DOMAIN tty = 1..N /\ DOMAIN u = 1..(N - 1)
        /\ \A i \in 1..(N - 1) : u[i] = tty[i + 1]
        /\ \A i \in 1..N : tty[i] \in Chunk
        /\ N \in Nat /\ N > 0 /\ Head(tty) = tty[1]
    BY <1>1
  <1>b. (u = <<>>) <=> (N = 1)
    <2>1. u \in Seq(Chunk) /\ Len(u) = N - 1 /\ N \in Nat
      BY <1>2
    <2>. HIDE DEF u, N
    <2>2. (u = <<>>) <=> (Len(u) = 0)
      BY <2>1, EmptySeq
    <2>. QED  BY <2>1, <2>2
  <1>3. tty' = u
    OBVIOUS
  <1>4. /\ N <= typed
        /\ \A i \in 1..N : tty[i].n = typed - N + i
        /\ \A i \in 1..N : LineAfter(tty[i]) = IF i < N THEN tty[i + 1].line ELSE line
        /\ \A i \in 1..N : tty[i].kind = "eof" => ~tty[i].last
    BY <1>2 DEF TerminalInv
  <1>5. Taken = typed - N /\ NextLine = tty[1].line
    BY DEF Taken, NextLine
  <1>. HIDE DEF N, u
  <1>6. 1 \in 1..N
    BY <1>2
  <1>7. /\ Head(tty) \in Chunk /\ Head(tty).n = Taken + 1 /\ Head(tty).line = NextLine
        /\ Head(tty).kind = "eof" => ~Head(tty).last
    BY <1>1, <1>2, <1>4, <1>5, <1>6
  <1>8. Taken \in Nat /\ NextLine \in Nat
    BY <1>1, <1>2, <1>4, <1>5, <1>6 DEF Chunk
  <1>9. Taken' = Taken + 1
    BY <1>1, <1>2, <1>3, <1>5 DEF Taken
  <1>10. NextLine' = LineAfter(Head(tty))
    <2>1. CASE N = 1
      <3>1. tty' = <<>> /\ line' = line
        BY <2>1, <1>b, <1>3
      <3>2. LineAfter(tty[1]) = line
        BY <2>1, <1>4, <1>6
      <3>. QED  BY <3>1, <3>2, <1>2 DEF NextLine
    <2>2. CASE N > 1
      <3>1. tty' # <<>> /\ tty'[1] = tty[2]
        BY <2>2, <1>b, <1>2, <1>3
      <3>2. LineAfter(tty[1]) = tty[2].line
        BY <2>2, <1>4, <1>6
      <3>. QED  BY <3>1, <3>2, <1>2 DEF NextLine
    <2>. QED  BY <2>1, <2>2, <1>2
  <1>11. TerminalInv'
    <2>1. ASSUME NEW i \in 1..(N - 1)
          PROVE  /\ u[i].n = typed - (N - 1) + i
                 /\ LineAfter(u[i]) = IF i < N - 1 THEN u[i + 1].line ELSE line
                 /\ u[i].kind = "eof" => ~u[i].last
      <3>. DEFINE j == i + 1
      <3>1. j \in 1..N /\ u[i] = tty[j] /\ (i < N - 1 <=> j < N)
        BY <1>2
      <3>2. i < N - 1 => u[i + 1] = tty[j + 1]
        BY <1>2
      <3>3. typed - N + j = typed - (N - 1) + i
        BY <1>1, <1>2
      <3>. HIDE DEF j
      <3>. QED  BY <3>1, <3>2, <3>3, <1>4
    <2>2. N - 1 <= typed
      BY <1>1, <1>2, <1>4
    <2>. QED  BY <2>1, <2>2, <1>2, <1>3 DEF TerminalInv
  <1>. QED  BY <1>7, <1>8, <1>9, <1>10, <1>11

-----------------------------------------------------------------------------
(* What is on the connection *)

\* A step that writes nothing, takes nothing and does not bring the server back changes
\* nothing here.
LEMMA StreamKept ==
  ASSUME StreamInv, wire' = wire, buff' = buff, sock' = "up" => sock = "up",
         NextLine' = NextLine, Taken' = Taken
  PROVE  StreamInv'
  BY DEF StreamInv

\* What is composed of the next chunk may be written, and the chunk after it may follow.
LEMMA ComposedContinues ==
  ASSUME NEW s \in Seq(Token), NEW l \in Nat, NEW d \in Nat, NEW c \in Chunk,
         WellFormed(s), Complete(s), Continues(s, l, d),
         c.n = d + 1, c.line = l, c.kind = "eof" => ~c.last
  PROVE  /\ WellFormed(s \o Composed(c)) /\ Complete(s \o Composed(c))
         /\ Continues(s \o Composed(c), LineAfter(c), d + 1)
  <1>. DEFINE b == Mark("bare", c.n, FALSE)
             p == Mark("prefix", c.n, FALSE)
  <1>0. c.kind \in {"text", "eof"} /\ c.n \in Nat
    BY DEF Chunk
  <1>1. /\ b \in Token /\ b.kind = "bare" /\ b.n = c.n /\ b.last = FALSE /\ b.address = FALSE
        /\ p \in Token /\ p.kind = "prefix" /\ p.n = c.n /\ p.last = FALSE /\ p.address = FALSE
    BY <1>0 DEF Mark, Token
  <1>2. Composed(c) = IF c.kind = "eof" THEN <<b>> ELSE IF c.address THEN <<c>> ELSE <<p, c>>
    BY DEF Composed
  <1>. HIDE DEF b, p
  <1>3. Len(s) > 0 => s[Len(s)].kind # "prefix"
    BY DEF Complete
  <1>4. CASE c.kind = "eof"
    <2>1. s \o Composed(c) = Append(s, b)
      BY <1>1, <1>2, <1>4, WriteAppends
    <2>2. WellFormed(Append(s, b))
      BY <1>1, <1>3, AppendWellFormed DEF IsText
    <2>3. Continues(Append(s, b), l, d + 1)
      BY <1>1, AppendMark DEF IsText
    <2>4. LineAfter(c) = l
      BY <1>4 DEF LineAfter
    <2>5. Complete(Append(s, b))
      BY <1>1, Appended DEF Complete
    <2>. QED  BY <2>1, <2>2, <2>3, <2>4, <2>5
  <1>5. CASE c.kind = "text" /\ c.address
    <2>1. c \in Token
      BY <1>5, ComposedType
    <2>2. s \o Composed(c) = Append(s, c)
      BY <2>1, <1>2, <1>5, WriteAppends
    <2>3. WellFormed(Append(s, c))
      BY <2>1, <1>3, <1>5, AppendWellFormed DEF IsText
    <2>4. Continues(Append(s, c), LineAfter(c), d + 1)
      BY <2>1, <1>5, AppendText DEF IsText
    <2>5. Complete(Append(s, c))
      BY <2>1, <1>5, Appended DEF Complete
    <2>. QED  BY <2>2, <2>3, <2>4, <2>5
  <1>6. CASE c.kind = "text" /\ ~c.address
    <2>1. c \in Token
      BY <1>6, ComposedType
    <2>. DEFINE q == Append(s, p)
    <2>2. s \o Composed(c) = Append(q, c)
      BY <2>1, <1>1, <1>2, <1>6, WriteAppends
    <2>3. WellFormed(q)
      BY <1>1, <1>3, AppendWellFormed DEF IsText
    <2>4. Continues(q, l, d)
      BY <1>1, AppendMark DEF IsText
    <2>5. q \in Seq(Token) /\ Len(q) > 0 /\ q[Len(q)] = p
      BY <1>1, Appended
    <2>. HIDE DEF q
    <2>6. WellFormed(Append(q, c))
      <3>1. q[Len(q)].kind = "prefix"
        BY <2>5, <1>1
      <3>. QED  BY <2>1, <2>3, <2>4, <2>5, <3>1, <1>6, AppendWellFormed DEF IsText
    <2>7. Continues(Append(q, c), LineAfter(c), d + 1)
      BY <2>1, <2>4, <2>5, <1>6, AppendText DEF IsText
    <2>8. Complete(Append(q, c))
      BY <2>1, <2>5, <1>6, Appended DEF Complete
    <2>. QED  BY <2>2, <2>6, <2>7, <2>8
  <1>. QED  BY <1>0, <1>4, <1>5, <1>6

LEMMA StreamStep == ClientInv /\ [Next]_vars => TerminalInv' /\ StreamInv'
  <1>. SUFFICES ASSUME ClientInv, [Next]_vars PROVE TerminalInv' /\ StreamInv'
    OBVIOUS
  <1>0. TypeOK /\ PhaseInv /\ EventsInv /\ TerminalInv /\ StreamInv
    BY DEF ClientInv
  <1>a. /\ wire \in Seq(Token) /\ buff \in Seq(Token) /\ tty \in Seq(Chunk)
        /\ typed \in Nat /\ line \in Nat
    BY <1>0 DEF TypeOK
  <1>b. ASSUME UNCHANGED <<tty, typed, line>>
        PROVE  TerminalInv' /\ NextLine' = NextLine /\ Taken' = Taken
    BY <1>0, <1>b DEF TerminalInv, NextLine, Taken
  <1>c. buff = <<>> => wire \o buff = wire
    BY <1>a, WriteAppends
  <1>d. Taken \in Nat /\ NextLine \in Nat
    <2>1. Taken \in Nat
      BY <1>0, <1>a DEF TerminalInv, Taken
    <2>2. NextLine \in Nat
      <3>1. CASE tty = <<>>
        BY <3>1, <1>a DEF NextLine
      <3>2. CASE tty # <<>>
        <4>1. tty[1] \in Chunk
          BY <3>2, <1>a
        <4>. QED  BY <3>2, <4>1 DEF NextLine, Chunk
      <3>. QED  BY <3>1, <3>2
    <2>. QED  BY <2>1, <2>2
  <1>1. CASE EndOfFile \/ \E address, last \in BOOLEAN : Type(address, last)
    <2>1. UNCHANGED <<wire, buff, sock>>
      BY <1>1 DEF EndOfFile, Type, serverVars
    <2>2. TerminalInv' /\ NextLine' = NextLine /\ Taken' = Taken
      BY <1>0, <1>1, UserStep
    <2>. QED  BY <1>0, <2>1, <2>2, StreamKept
  <1>2. CASE ServerSends \/ ServerReads \/ ServerCloses
    <2>1. UNCHANGED <<wire, buff, tty, typed, line>> /\ (sock' = "up" => sock = "up")
      BY <1>2 DEF ServerSends, ServerReads, ServerCloses, userVars
    <2>. QED  BY <1>0, <1>b, <2>1, StreamKept
  <1>3. CASE Connect
    <2>1. wire = <<>> /\ buff = <<>> /\ typed = 0 /\ UNCHANGED <<wire, buff, tty, typed, line>>
      BY <1>0, <1>3 DEF PhaseInv, Connect, userVars
    <2>2. TerminalInv' /\ Taken' = Taken
      BY <1>b, <2>1
    <2>3. Taken' \in Int /\ Taken' <= 0
      BY <2>1, <2>2, <1>a DEF Taken
    <2>4. wire' = <<>> /\ wire' \o buff' = <<>>
      BY <2>1, <1>c
    <2>. QED  BY <2>2, <2>3, <2>4, NothingYet DEF StreamInv
  <1>4. CASE SendLogin
    <2>. DEFINE t == Mark("login", 0, TRUE)
    <2>1. wire = <<>> /\ buff = <<>> /\ typed = 0 /\ UNCHANGED <<buff, tty, typed, line>>
      BY <1>0, <1>4 DEF PhaseInv, SendLogin, userVars
    <2>2. TerminalInv' /\ NextLine' = NextLine /\ Taken' = Taken
      BY <1>b, <2>1
    <2>3. CASE wire' = wire /\ (sock' = "up" => sock = "up")
      BY <1>0, <2>1, <2>2, <2>3, StreamKept
    <2>4. CASE wire' = <<t>>
      <3>1. t \in Token /\ t.kind = "login" /\ t.n = 0
        BY DEF Mark, Token
      <3>. HIDE DEF t
      <3>. DEFINE u == <<t>>
      <3>2. DOMAIN u = {1} /\ Len(u) = 1 /\ u[1] = t /\ u # <<>> /\ u \in Seq(Token)
        BY <3>1
      <3>3. wire' = u
        BY <2>4
      <3>4. wire' \o buff' = u
        BY <3>1, <3>2, <3>3, <2>1, WriteAppends
      <3>. HIDE DEF u
      <3>5. WellFormed(u)
        BY <3>1, <3>2 DEF WellFormed, IsText
      <3>6. Complete(u)
        BY <3>1, <3>2 DEF Complete
      <3>7. Continues(u, NextLine', Taken')
        <4>1. Taken' \in Int /\ Taken' <= 0
          BY <2>1, <2>2, <1>a DEF Taken
        <4>. QED  BY <4>1, <3>1, <3>2 DEF Continues, IsText
      <3>. QED  BY <3>3, <3>4, <3>5, <3>6, <3>7, <2>2 DEF StreamInv
    <2>5. (wire' = wire /\ (sock' = "up" => sock = "up")) \/ wire' = <<t>>
      BY <1>4 DEF SendLogin, SendsLogin
    <2>. QED  BY <2>3, <2>4, <2>5
  <1>5. CASE Poll \/ SkipStdin
    <2>1. UNCHANGED <<wire, buff, sock, tty, typed, line>>
      BY <1>5 DEF Poll, SkipStdin, serverVars, userVars
    <2>. QED  BY <1>0, <1>b, <2>1, StreamKept
  <1>6. CASE ReadStdin
    <2>1. tty # <<>>
      BY <1>0, <1>6 DEF EventsInv, ReadsDoNotBlock, ReadStdin
    <2>2. buff = <<>> /\ UNCHANGED <<sock, typed, line, wire>>
      BY <1>0, <1>6 DEF PhaseInv, ReadStdin, serverVars
    <2>3. sock = "up" => WellFormed(wire) /\ Complete(wire) /\ Continues(wire, NextLine, Taken)
      BY <1>0, <1>c, <2>2 DEF StreamInv
    <2>4. WellFormed(wire)
      BY <1>0 DEF StreamInv
    <2>5. CASE buff' = Composed(Head(tty)) /\ tty' = Tail(tty)
      <3>. DEFINE c == Head(tty)
      <3>1. /\ TerminalInv'
            /\ c \in Chunk /\ c.n = Taken + 1 /\ c.line = NextLine
            /\ c.kind = "eof" => ~c.last
            /\ NextLine' = LineAfter(c) /\ Taken' = Taken + 1
        BY <1>0, <2>1, <2>2, <2>5, TakingFirst
      <3>2. buff' = Composed(c)
        BY <2>5
      <3>. HIDE DEF c
      <3>3. sock = "up" => /\ WellFormed(wire \o Composed(c)) /\ Complete(wire \o Composed(c))
                           /\ Continues(wire \o Composed(c), LineAfter(c), Taken + 1)
        BY <3>1, <2>3, <1>a, <1>d, ComposedContinues
      <3>. QED  BY <3>1, <3>2, <3>3, <2>2, <2>4 DEF StreamInv
    <2>6. CASE buff' = <<Mark("bare", 0, FALSE)>> /\ UNCHANGED tty
      <3>. DEFINE b == Mark("bare", 0, FALSE)
      <3>1. b \in Token /\ b.kind = "bare" /\ b.n = 0 /\ b.last = FALSE /\ b.address = FALSE
        BY DEF Mark, Token
      <3>2. buff' = <<b>>
        BY <2>6
      <3>. HIDE DEF b
      <3>3. wire \o <<b>> = Append(wire, b)
        BY <1>a, <3>1, WriteAppends
      <3>4. TerminalInv' /\ NextLine' = NextLine /\ Taken' = Taken
        BY <1>b, <2>2, <2>6
      <3>5. sock = "up" => WellFormed(Append(wire, b))
        <4>1. sock = "up" /\ Len(wire) > 0 => wire[Len(wire)].kind # "prefix"
          BY <2>3, <1>a DEF Complete
        <4>2. b.n <= Taken + 1 /\ ~IsText(b) /\ ~b.last /\ ~b.address
          BY <3>1, <1>d DEF IsText
        <4>3. ASSUME sock = "up" PROVE WellFormed(Append(wire, b))
          <5>1. WellFormed(wire) /\ Continues(wire, NextLine, Taken)
            BY <4>3, <2>3
          <5>. HIDE DEF b
          <5>. QED  BY <5>1, <4>2, <3>1, <1>a, <1>d, AppendWellFormed
        <4>. QED  BY <4>3
      <3>6. sock = "up" => Continues(Append(wire, b), NextLine, Taken)
        BY <2>3, <3>1, <1>a, <1>d, AppendMark DEF IsText
      <3>7. Complete(Append(wire, b))
        BY <1>a, <3>1, Appended DEF Complete
      <3>. QED  BY <3>2, <3>3, <3>4, <3>5, <3>6, <3>7, <2>2, <2>4 DEF StreamInv
    <2>. QED  BY <1>6, <2>5, <2>6 DEF ReadStdin
  <1>7. CASE WriteSocket
    <2>1. UNCHANGED <<tty, typed, line>> /\ buff' = <<>>
      BY <1>7 DEF WriteSocket, userVars
    <2>2. TerminalInv' /\ NextLine' = NextLine /\ Taken' = Taken
      BY <1>b, <2>1
    <2>3. CASE sock = "up" /\ wire' = wire \o buff
      <3>1. wire' \in Seq(Token)
        BY <2>3, <1>a, ConcatProperties
      <3>2. wire' \o buff' = wire'
        <4>. SUFFICES ASSUME NEW w, w = wire', w \in Seq(Token) PROVE w \o <<>> = w
          BY <3>1, <2>1
        <4>. QED  OBVIOUS
      <3>. QED  BY <2>2, <2>3, <3>2, <1>0 DEF StreamInv
    <2>4. CASE wire' = wire /\ sock' # "up"
      BY <2>2, <2>4, <1>0 DEF StreamInv
    <2>5. (sock = "up" /\ wire' = wire \o buff) \/ (wire' = wire /\ sock' # "up")
      BY <1>7 DEF WriteSocket
    <2>. QED  BY <2>3, <2>4, <2>5
  <1>8. CASE ReadSocket \/ ReadError \/ ReadEnd \/ HangUp \/ SkipSocket
    <2>1. UNCHANGED <<wire, buff, tty, typed, line>> /\ (sock' = "up" => sock = "up")
      BY <1>8 DEF ReadSocket, ReadError, ReadEnd, HangUp, SkipSocket, serverVars, userVars
    <2>. QED  BY <1>0, <1>b, <2>1, StreamKept
  <1>9. CASE UNCHANGED vars
    <2>1. UNCHANGED <<wire, buff, sock, tty, typed, line>>
      BY <1>9 DEF vars
    <2>. QED  BY <1>0, <1>b, <2>1, StreamKept
  <1>. QED  BY <1>1, <1>2, <1>3, <1>4, <1>5, <1>6, <1>7, <1>8, <1>9 DEF Next, Main

-----------------------------------------------------------------------------
(* Theorems *)

\* The inductive invariant of the client program: chunks wait in order and numbered without
\* a gap, what poll() announced stays until it is read, and what was written, with what is
\* about to be, is tokens that the server can take apart and the next chunk continues.
THEOREM ClientInvariant == Spec => []ClientInv
  <1>1. Init => ClientInv
    BY InitInv
  <1>2. ClientInv /\ [Next]_vars => ClientInv'
    BY TypeStep, PhaseStep, EventsStep, StreamStep DEF ClientInv
  <1>. QED  BY <1>1, <1>2, PTL DEF Spec

\* Type correctness: the unread writes never exceed what the socket holds, and end-of-file
\* chunks never reach the connection as text.
THEOREM ClientTypeCorrect == Spec => []TypeOK
  <1>1. ClientInv => TypeOK
    BY DEF ClientInv
  <1>. QED  BY <1>1, ClientInvariant, PTL

\* Neither of main's two reads blocks, although a write that may block for long lies between
\* poll() and the second.
THEOREM NeverBlocksInRead == Spec => []ReadsDoNotBlock
  <1>1. ClientInv => ReadsDoNotBlock
    BY DEF ClientInv, EventsInv
  <1>. QED  BY <1>1, ClientInvariant, PTL

\* What is typed arrives in order, none left out, and cut into lines where the user pressed
\* enter, however read() cuts it.
THEOREM LinesAreWhole == Spec => []LinesWhole
  <1>1. WellFormed(wire) => LinesWhole
    BY DEF WellFormed, LinesWhole, Texts, IsText
  <1>2. ClientInv => LinesWhole
    BY <1>1 DEF ClientInv, StreamInv
  <1>. QED  BY <1>2, ClientInvariant, PTL
=============================================================================
