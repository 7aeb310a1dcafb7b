----------------------------- MODULE ChatProofs -----------------------------
(* Proofs about Chat, for any clients, lines and sizes of the buffers: the *)
(* three vectors stay aligned, everybody reads one conversation, and the   *)
(* chat is the log of ChatLog.  The argument: what a client has read, what *)
(* is on its way to it and what is yet to be sent are the conversation,    *)
(* piece by piece, and so is what the server has read from each client.    *)
EXTENDS ChatInvariants, FiniteSetTheorems, TLAPS

---------------------------------------------------------------------------
(* Sequences.                                                              *)

LEMMA AppendType ==
  ASSUME NEW S, NEW s \in Seq(S), NEW e \in S
  PROVE  /\ Append(s, e) \in Seq(S) /\ Len(Append(s, e)) = Len(s) + 1
         /\ DOMAIN Append(s, e) = DOMAIN s \cup {Len(s) + 1} /\ Len(s) + 1 \notin DOMAIN s
         /\ \A k \in DOMAIN s : Append(s, e)[k] = s[k]
         /\ Append(s, e)[Len(s) + 1] = e
  OBVIOUS

LEMMA TailType ==
  ASSUME NEW S, NEW s \in Seq(S), s # <<>>
  PROVE  /\ Tail(s) \in Seq(S) /\ Len(Tail(s)) = Len(s) - 1
         /\ 1 \in DOMAIN s /\ Head(s) = s[1] /\ Head(s) \in S
         /\ \A k \in DOMAIN Tail(s) : k \in Int /\ k + 1 \in DOMAIN s /\ k + 1 # 1 /\ Tail(s)[k] = s[k + 1]
         /\ \A k \in DOMAIN s : k # 1 => k - 1 \in DOMAIN Tail(s) /\ Tail(s)[k - 1] = s[k]
  <1>1. Len(s) \in Nat /\ Len(s) # 0 /\ DOMAIN s = 1 .. Len(s)
    OBVIOUS
  <1>2. /\ Tail(s) \in Seq(S) /\ Len(Tail(s)) = Len(s) - 1 /\ DOMAIN Tail(s) = 1 .. Len(s) - 1
        /\ \A k \in 1 .. Len(s) - 1 : Tail(s)[k] = s[k + 1]
    OBVIOUS
  <1> QED
    BY <1>1, <1>2

LEMMA ElementType == ASSUME NEW S, NEW s \in Seq(S), NEW n \in DOMAIN s PROVE s[n] \in S
  OBVIOUS

LEMMA UpdateType ==
  ASSUME NEW S, NEW s \in Seq(S), NEW n \in DOMAIN s, NEW e \in S
  PROVE  /\ [s EXCEPT ![n] = e] \in Seq(S) /\ Len([s EXCEPT ![n] = e]) = Len(s)
         /\ \A k \in DOMAIN s : [s EXCEPT ![n] = e][k] = IF k = n THEN e ELSE s[k]
  OBVIOUS

LEMMA PieceType == ASSUME NEW k \in 1 .. 2 PROVE 3 - k \in 1 .. 2
  OBVIOUS

\* The first k elements of a sequence, and the others.
LEMMA CutType ==
  ASSUME NEW S, NEW s \in Seq(S), NEW k \in Upto(Len(s))
  PROVE  /\ k \in 1 .. Len(s)
         /\ SubSeq(s, 1, k) \in Seq(S) /\ Len(SubSeq(s, 1, k)) = k
         /\ \A n \in 1 .. k : SubSeq(s, 1, k)[n] = s[n]
         /\ Drop(s, k) \in Seq(S) /\ Len(Drop(s, k)) = Len(s) - k
         /\ \A n \in 1 .. Len(s) - k : Drop(s, k)[n] = s[k + n]
  <1>1. Len(s) \in Nat /\ k \in 1 .. Len(s)
    BY SizesAssumption DEF Upto
  <1>2. /\ SubSeq(s, 1, k) \in Seq(S) /\ Len(SubSeq(s, 1, k)) = k
        /\ \A n \in 1 .. k : SubSeq(s, 1, k)[n] = s[n]
    BY <1>1
  <1>3. /\ Drop(s, k) \in Seq(S) /\ Len(Drop(s, k)) = Len(s) - k
        /\ \A n \in 1 .. Len(s) - k : Drop(s, k)[n] = s[k + n]
    BY <1>1 DEF Drop
  <1> QED
    BY <1>1, <1>2, <1>3

LEMMA SwapPopType ==
  ASSUME NEW S, NEW s \in Seq(S), NEW n \in DOMAIN s
  PROVE  /\ SwapPop(s, n) \in Seq(S) /\ Len(SwapPop(s, n)) = Len(s) - 1
         /\ \A k \in 1 .. Len(s) - 1 : SwapPop(s, n)[k] = IF k = n THEN s[Len(s)] ELSE s[k]
  <1> DEFINE t == [s EXCEPT ![n] = s[Len(s)]]
  <1>1. Len(s) \in Nat /\ n \in 1 .. Len(s) /\ Len(s) \in DOMAIN s
    OBVIOUS
  <1>2. t \in Seq(S) /\ Len(t) = Len(s)
    BY <1>1
  <1>3. \A k \in 1 .. Len(s) : t[k] = IF k = n THEN s[Len(s)] ELSE s[k]
    BY <1>1
  <1> HIDE DEF t
  <1>4. /\ SubSeq(t, 1, Len(s) - 1) \in Seq(S) /\ Len(SubSeq(t, 1, Len(s) - 1)) = Len(s) - 1
        /\ \A k \in 1 .. Len(s) - 1 : SubSeq(t, 1, Len(s) - 1)[k] = t[k]
    BY <1>1, <1>2
  <1> QED
    BY <1>1, <1>3, <1>4 DEF SwapPop, t

\* Two pieces for each message.
LEMMA Halves ==
  ASSUME NEW L \in Nat, NEW n \in 1 .. 2 * L
  PROVE  /\ (n + 1) \div 2 \in 1 .. L
         /\ n % 2 = 1 => n = 2 * ((n + 1) \div 2) - 1
         /\ n % 2 # 1 => n = 2 * ((n + 1) \div 2)
  BY SMT

LEMMA HalvesOf ==
  ASSUME NEW k \in Nat
  PROVE  /\ (2 * k + 1) \div 2 = k /\ (2 * k) % 2 # 1
         /\ k > 0 => (2 * k - 1 + 1) \div 2 = k /\ (2 * k - 1) % 2 = 1
  BY SMT

LEMMA SerialType ==
  ASSUME NEW S, NEW s \in Seq(S)
  PROVE  /\ DOMAIN Serial(s) = 1 .. 2 * Len(s) /\ Len(Serial(s)) = 2 * Len(s)
         /\ Serial(s) \in Seq([msg : S, part : 1 .. 2])
         /\ \A n \in 1 .. 2 * Len(s) : Serial(s)[n] \in [msg : S, part : 1 .. 2]
         /\ \A k \in 1 .. Len(s) : /\ Serial(s)[2 * k - 1] = [msg |-> s[k], part |-> 1]
                                   /\ Serial(s)[2 * k] = [msg |-> s[k], part |-> 2]
  <1>1. Len(s) \in Nat /\ 2 * Len(s) \in Nat
    OBVIOUS
  <1>2. DOMAIN Serial(s) = 1 .. 2 * Len(s)
    BY DEF Serial
  <1>3. \A n \in 1 .. 2 * Len(s) :
            Serial(s)[n] = [msg |-> s[(n + 1) \div 2], part |-> IF n % 2 = 1 THEN 1 ELSE 2]
    BY DEF Serial
  <1>4. \A n \in 1 .. 2 * Len(s) : s[(n + 1) \div 2] \in S
    BY <1>1, Halves
  <1>5. ASSUME NEW n \in 1 .. 2 * Len(s)
        PROVE  Serial(s)[n] \in [msg : S, part : 1 .. 2]
    <2> DEFINE m == s[(n + 1) \div 2]
               p == IF n % 2 = 1 THEN 1 ELSE 2
    <2>1. m \in S
      BY <1>4
    <2>2. p \in 1 .. 2
      OBVIOUS
    <2>3. Serial(s)[n] = [msg |-> m, part |-> p]
      BY <1>3
    <2> HIDE DEF m, p
    <2> QED
      BY <2>1, <2>2, <2>3
  <1>6. Serial(s) = [n \in 1 .. 2 * Len(s) |-> Serial(s)[n]]
    BY DEF Serial
  <1>7. Serial(s) \in Seq([msg : S, part : 1 .. 2]) /\ Len(Serial(s)) = 2 * Len(s)
    <2> DEFINE f == Serial(s)
    <2>1. f = [n \in 1 .. 2 * Len(s) |-> f[n]]
      BY <1>6
    <2>2. \A n \in 1 .. 2 * Len(s) : f[n] \in [msg : S, part : 1 .. 2]
      BY <1>5
    <2> HIDE DEF f
    <2>3. f \in Seq([msg : S, part : 1 .. 2]) /\ Len(f) = 2 * Len(s)
      BY <1>1, <2>1, <2>2
    <2> QED
      BY <2>3 DEF f
  <1>8. ASSUME NEW k \in 1 .. Len(s)
        PROVE  /\ Serial(s)[2 * k - 1] = [msg |-> s[k], part |-> 1]
               /\ Serial(s)[2 * k] = [msg |-> s[k], part |-> 2]
    <2>1. 2 * k - 1 \in 1 .. 2 * Len(s) /\ 2 * k \in 1 .. 2 * Len(s) /\ k \in Nat /\ k > 0
      BY <1>1
    <2> QED
      BY <1>3, <2>1, HalvesOf
  <1> QED
    BY <1>2, <1>5, <1>7, <1>8
---------------------------------------------------------------------------
(* Types.                                                                  *)

LEMMA TypesInit == Init => TypeOK
  BY DEF Init, TypeOK, ConnStates, ClientStates, ServerStates, PollFds

LEMMA ClientTypes ==
  ASSUME TypeOK, NEW c \in Clients, ClientNext(c) \/ Quit(c) \/ Kill(c)
  PROVE  TypeOK'
  <1> USE DEF ConnStates
  <1>1. UNCHANGED server
    BY DEF ClientNext, Connect, Stdin, ClientWrite, ClientReadBuf, ClientTake, ClientEof,
           ClientPipe, Quit, Kill, Closed
  <1> SUFFICES /\ conn' \in [Clients -> ConnStates] /\ backlog' \in Seq(Clients)
               /\ up' \in [Clients -> Seq(Pieces)] /\ down' \in [Clients -> Seq(Pieces)]
               /\ cli' \in [Clients -> ClientStates]
    BY <1>1 DEF TypeOK, server
  <1>2. ASSUME NEW pc \in {"off", "poll", "send", "recv", "gone", "spins"},
               cli' = [cli EXCEPT ![c].pc = pc]
        PROVE  cli' \in [Clients -> ClientStates]
    BY <1>2 DEF TypeOK, ClientStates
  <1>3. CASE Connect(c)
    BY <1>2, <1>3, AppendType DEF Connect, TypeOK
  <1>4. CASE Stdin(c) \/ ClientPipe(c)
    BY <1>2, <1>4 DEF Stdin, ClientPipe, TypeOK
  <1>5. ASSUME NEW cached \in BOOLEAN, ClientWrite(c, cached)
        PROVE  /\ conn' \in [Clients -> ConnStates] /\ backlog' \in Seq(Clients)
               /\ up' \in [Clients -> Seq(Pieces)] /\ down' \in [Clients -> Seq(Pieces)]
               /\ cli' \in [Clients -> ClientStates]
    <2>1. cli[c].line \in Nat \ {0} /\ cli[c].part \in 1 .. 2
      BY DEF TypeOK, ClientStates
    <2>2. [msg |-> [author |-> c, line |-> cli[c].line], part |-> cli[c].part] \in Pieces
      BY <2>1 DEF Pieces, Messages
    <2>3. up' \in [Clients -> Seq(Pieces)]
      BY <1>5, <2>2, AppendType DEF ClientWrite, TypeOK
    <2>4. 3 - cli[c].part \in 1 .. 2 /\ cli[c].line + 1 \in Nat \ {0}
      BY <2>1, PieceType
    <2>5. cli' \in [Clients -> ClientStates]
      <3> DEFINE line == IF cli[c].part = 2 THEN cli[c].line + 1 ELSE cli[c].line
                 pc   == IF cli[c].part = 1 \/ cached THEN "send" ELSE "poll"
                 next == [cli[c] EXCEPT !.part = 3 - cli[c].part, !.line = line, !.pc = pc]
      <3>1. line \in Nat \ {0} /\ pc \in {"off", "poll", "send", "recv", "gone", "spins"}
        BY <2>1, <2>4
      <3>2. cli' = [cli EXCEPT ![c] = next]
        BY <1>5 DEF ClientWrite, TypeOK
      <3> HIDE DEF line, pc
      <3>3. next \in ClientStates
        BY <2>4, <3>1 DEF TypeOK, ClientStates
      <3> HIDE DEF next
      <3> QED
        BY <3>2, <3>3 DEF TypeOK
    <2> QED
      BY <1>5, <2>3, <2>5 DEF ClientWrite, TypeOK
  <1>6. ASSUME NEW k \in 1 .. MaxRead, ClientReadBuf(c, k)
        PROVE  /\ conn' \in [Clients -> ConnStates] /\ backlog' \in Seq(Clients)
               /\ up' \in [Clients -> Seq(Pieces)] /\ down' \in [Clients -> Seq(Pieces)]
               /\ cli' \in [Clients -> ClientStates]
    <2>1. SubSeq(down[c], 1, k) \in Seq(Pieces) /\ Drop(down[c], k) \in Seq(Pieces)
      BY <1>6, CutType DEF ClientReadBuf, TypeOK
    <2> QED
      BY <1>6, <2>1 DEF ClientReadBuf, TypeOK, ClientStates
  <1>7. CASE ClientTake(c)
    <2> DEFINE piece == Head(cli[c].buf)
    <2>1. cli[c].buf \in Seq(Pieces) /\ cli[c].buf # <<>> /\ cli[c].shown \in Seq(Messages)
      BY <1>7 DEF ClientTake, TypeOK, ClientStates
    <2>2. piece \in Pieces /\ Tail(cli[c].buf) \in Seq(Pieces)
      BY <2>1, TailType
    <2>3. piece.msg \in Messages /\ piece.part \in 1 .. 2
      BY <2>2 DEF Pieces
    <2> HIDE DEF piece
    <2>4. Append(cli[c].shown, piece.msg) \in Seq(Messages)
      BY <2>1, <2>3
    <2>5. cli' \in [Clients -> ClientStates]
      <3> DEFINE shown == IF piece.part = 2 THEN Append(cli[c].shown, piece.msg) ELSE cli[c].shown
                 pc    == IF piece.part = 2 /\ Len(cli[c].buf) = 1 THEN "poll" ELSE cli[c].pc
                 half  == piece.part = 1
                 next  == [cli[c] EXCEPT !.buf = Tail(cli[c].buf), !.half = half, !.shown = shown,
                                         !.pc = pc]
      <3>1. shown \in Seq(Messages) /\ half \in BOOLEAN
        BY <2>1, <2>4
      <3>2. pc \in {"off", "poll", "send", "recv", "gone", "spins"}
        BY DEF TypeOK, ClientStates
      <3>3. cli' = [cli EXCEPT ![c] = next]
        BY <1>7 DEF ClientTake, TypeOK, piece
      <3> HIDE DEF shown, pc, half
      <3>4. next \in ClientStates
        BY <2>2, <3>1, <3>2 DEF TypeOK, ClientStates
      <3> HIDE DEF next
      <3> QED
        BY <3>3, <3>4 DEF TypeOK
    <2> QED
      BY <1>7, <2>5 DEF ClientTake, TypeOK
  <1>8. CASE ClientEof(c)
    <2>1. (IF cli[c].half THEN "spins" ELSE "gone") \in {"off", "poll", "send", "recv", "gone", "spins"}
      OBVIOUS
    <2> QED
      BY <1>2, <1>8, <2>1 DEF ClientEof, TypeOK
  <1>9. CASE Closed(c)
    BY <1>2, <1>9 DEF Closed, TypeOK
  <1> QED
    BY <1>3, <1>4, <1>5, <1>6, <1>7, <1>8, <1>9 DEF ClientNext, Quit, Kill

\* The place that is read from.
LEMMA SourceType ==
  ASSUME TypeOK, VectorInv, Reading
  PROVE  /\ srv.i \in DOMAIN fds /\ srv.i # 1 /\ SockId \in DOMAIN wraps /\ SockId \in DOMAIN socks
         /\ Source \in Clients /\ wraps[SockId].buf \in Seq(Pieces)
         /\ fds[srv.i].fd = Source /\ socks[SockId] = Source
  <1>1. srv.i \in DOMAIN fds /\ srv.i # 1
    BY DEF VectorInv, Place
  <1>2. srv.i \in Nat /\ DOMAIN fds = 1 .. Len(socks) + 1 /\ DOMAIN socks = 1 .. Len(socks)
        /\ DOMAIN wraps = 1 .. Len(socks) /\ Len(socks) \in Nat
    BY DEF VectorInv, Parallel, TypeOK, ServerStates
  <1>3. SockId \in DOMAIN wraps /\ SockId \in DOMAIN socks /\ SockId + 1 = srv.i
    BY <1>1, <1>2 DEF SockId
  <1>4. wraps[SockId] \in Wrappers
    BY <1>3, ElementType DEF TypeOK
  <1> QED
    BY <1>1, <1>3, <1>4 DEF Source, VectorInv, Parallel, Wrappers

\* Only the first entry of pollFDs_ is the acceptor's.
LEMMA AcceptorIsFirst ==
  ASSUME TypeOK, VectorInv, NEW n \in DOMAIN fds, fds[n].fd = Listening
  PROVE  n = 1
  <1>1. DOMAIN fds = 1 .. Len(socks) + 1 /\ DOMAIN socks = 1 .. Len(socks) /\ Len(socks) \in Nat
    BY DEF VectorInv, Parallel, TypeOK
  <1> SUFFICES ASSUME n # 1 PROVE FALSE
    OBVIOUS
  <1>2. n - 1 \in DOMAIN socks /\ (n - 1) + 1 = n
    BY <1>1
  <1>3. socks[n - 1] = Listening
    BY <1>2 DEF VectorInv, Parallel
  <1> QED
    BY <1>2, <1>3, ElementType, ListeningAssumption DEF TypeOK

LEMMA BroadcastType ==
  ASSUME TypeOK, NEW m \in Messages
  PROVE  /\ Broadcast(m) \in Seq(Sends)
         /\ Len(Broadcast(m)) = 2 * Len(wraps)
         /\ \A n \in 1 .. 2 * Len(wraps) :
                /\ Broadcast(m)[n].to = wraps[(n + 1) \div 2].sock
                /\ Broadcast(m)[n].piece = [msg |-> m, part |-> IF n % 2 = 1 THEN 1 ELSE 2]
  <1> DEFINE e(n) == [to |-> wraps[(n + 1) \div 2].sock,
                      piece |-> [msg |-> m, part |-> IF n % 2 = 1 THEN 1 ELSE 2]]
             f == [n \in 1 .. 2 * Len(wraps) |-> e(n)]
             N == 2 * Len(wraps)
  <1>1. Len(wraps) \in Nat /\ 2 * Len(wraps) \in Nat /\ DOMAIN wraps = 1 .. Len(wraps)
    BY DEF TypeOK
  <1>2. ASSUME NEW n \in 1 .. 2 * Len(wraps)
        PROVE  /\ e(n) \in Sends
               /\ e(n).to = wraps[(n + 1) \div 2].sock
               /\ e(n).piece = [msg |-> m, part |-> IF n % 2 = 1 THEN 1 ELSE 2]
    <2> DEFINE h == (n + 1) \div 2
               p == IF n % 2 = 1 THEN 1 ELSE 2
    <2>1. h \in DOMAIN wraps
      BY <1>1, Halves
    <2>2. p \in 1 .. 2
      OBVIOUS
    <2>3. e(n) = [to |-> wraps[h].sock, piece |-> [msg |-> m, part |-> p]]
      OBVIOUS
    <2> HIDE DEF h, p, e
    <2>4. wraps[h] \in Wrappers
      BY <2>1, ElementType DEF TypeOK
    <2>5. [msg |-> m, part |-> p] \in Pieces
      BY <2>2 DEF Pieces
    <2>6. wraps[h].sock \in Clients
      BY <2>4 DEF Wrappers
    <2>7. e(n) \in Sends /\ e(n).to = wraps[h].sock
          /\ e(n).piece = [msg |-> m, part |-> p]
      BY <2>3, <2>5, <2>6 DEF Sends
    <2> QED
      BY <2>7 DEF h, p
  <1>3. f \in Seq(Sends) /\ Len(f) = 2 * Len(wraps)
        /\ \A n \in 1 .. 2 * Len(wraps) : f[n] = e(n)
    <2>1. f = [n \in 1 .. N |-> f[n]] /\ \A n \in 1 .. N : f[n] = e(n)
      OBVIOUS
    <2>2. N \in Nat /\ \A n \in 1 .. N : f[n] \in Sends
      BY <1>1, <1>2, <2>1
    <2> HIDE DEF f, N
    <2>3. f \in Seq(Sends) /\ Len(f) = N
      BY <2>1, <2>2
    <2> QED
      BY <2>1, <2>3 DEF N
  <1> HIDE DEF e
  <1>4. Broadcast(m) = f
    BY DEF Broadcast, e
  <1> HIDE DEF f
  <1> QED
    BY <1>2, <1>3, <1>4

LEMMA WritesToType ==
  ASSUME NEW c \in Clients, NEW msgs \in Seq(Messages)
  PROVE  /\ WritesTo(c, msgs) \in Seq(Sends)
         /\ Len(WritesTo(c, msgs)) = 2 * Len(msgs)
         /\ \A n \in 1 .. 2 * Len(msgs) : /\ WritesTo(c, msgs)[n].to = c
                                          /\ WritesTo(c, msgs)[n].piece = Serial(msgs)[n]
  <1> DEFINE e(n) == [to |-> c, piece |-> Serial(msgs)[n]]
             f == [n \in 1 .. 2 * Len(msgs) |-> e(n)]
  <1>1. 2 * Len(msgs) \in Nat
    OBVIOUS
  <1>2. ASSUME NEW n \in 1 .. 2 * Len(msgs)
        PROVE  /\ e(n) \in Sends /\ e(n).to = c
               /\ e(n).piece = Serial(msgs)[n]
    BY SerialType DEF Pieces, Sends
  <1> HIDE DEF e
  <1>3. f \in Seq(Sends) /\ Len(f) = 2 * Len(msgs)
        /\ \A n \in 1 .. 2 * Len(msgs) : f[n] = e(n)
    BY <1>1, <1>2
  <1>4. WritesTo(c, msgs) = f
    BY DEF WritesTo, e
  <1> HIDE DEF f
  <1> QED
    BY <1>2, <1>3, <1>4

LEMMA ServerPcType ==
  ASSUME TypeOK, NEW pc \in {"poll", "loop", "read", "write", "spins", "dead"}, NEW i \in Nat,
         srv' = [srv EXCEPT !.pc = pc, !.i = i]
  PROVE  srv' \in ServerStates
  BY DEF TypeOK, ServerStates

LEMMA ServerTypes ==
  ASSUME TypeOK, VectorInv, ServerNext
  PROVE  TypeOK'
  <1>0. srv.i \in Nat /\ srv.i + 1 \in Nat
    BY DEF TypeOK, ServerStates
  <1>1. CASE Poll
    <2>1. ASSUME NEW n \in DOMAIN fds
          PROVE  [fds[n] EXCEPT !.in = Readable(fds[n].fd)] \in PollFds
      <3>1. fds[n] \in PollFds
        BY ElementType DEF TypeOK
      <3>2. Readable(fds[n].fd) \in BOOLEAN
        BY DEF Readable
      <3> QED
        BY <3>1, <3>2 DEF PollFds
    <2>2. fds' = [n \in 1 .. Len(fds) |-> [fds[n] EXCEPT !.in = Readable(fds[n].fd)]] /\ Len(fds) \in Nat
      BY <1>1 DEF Poll, TypeOK
    <2>3. fds' \in Seq(PollFds)
      BY <2>1, <2>2
    <2>4. srv' \in ServerStates
      BY <1>1, ServerPcType DEF Poll
    <2> QED
      BY <1>1, <2>3, <2>4 DEF Poll, TypeOK, Network
  <1>2. CASE EndLoop \/ Skip \/ AcceptMessage \/ Spin \/ ReadError
    <2>1. srv' \in ServerStates
      <3>1. srv' = [srv EXCEPT !.pc = "poll", !.i = 1] \/ srv' = [srv EXCEPT !.i = srv.i + 1]
            \/ \E pc \in {"read", "spins", "dead"} : srv' = [srv EXCEPT !.pc = pc]
        BY <1>2 DEF EndLoop, Skip, AcceptMessage, Spin, ReadError, TypeOK, ServerStates
      <3>2. ASSUME srv' = [srv EXCEPT !.pc = "poll", !.i = 1]
            PROVE  srv' \in ServerStates
        BY <3>2, ServerPcType
      <3>3. ASSUME srv' = [srv EXCEPT !.i = srv.i + 1]
            PROVE  srv' \in ServerStates
        BY <1>0, <3>3 DEF TypeOK, ServerStates
      <3>4. ASSUME NEW pc \in {"read", "spins", "dead"}, srv' = [srv EXCEPT !.pc = pc]
            PROVE  srv' \in ServerStates
        BY <3>4 DEF TypeOK, ServerStates
      <3> QED
        BY <3>1, <3>2, <3>3, <3>4
    <2> QED
      BY <1>2, <2>1 DEF EndLoop, Skip, AcceptMessage, Spin, ReadError, TypeOK, Network
  <1>3. CASE AcceptClient
    <2>1. backlog # <<>>
      <3>1. srv.i = 1
        BY <1>3, AcceptorIsFirst DEF AcceptClient, At
      <3> QED
        BY <1>3, <3>1 DEF AcceptClient, At, VectorInv, Place
    <2>2. Head(backlog) \in Clients /\ Tail(backlog) \in Seq(Clients)
      BY <2>1, TailType DEF TypeOK
    <2> DEFINE c == Head(backlog)
    <2>3. WritesTo(c, history) \in Seq(Sends)
      BY <2>2, WritesToType DEF TypeOK
    <2>4. [fd |-> c, in |-> FALSE] \in PollFds
          /\ [sock |-> c, buf |-> <<>>] \in Wrappers
      BY <2>2 DEF PollFds, Wrappers
    <2>5. /\ fds' = Append(fds, [fd |-> c, in |-> FALSE])
          /\ socks' = Append(socks, c)
          /\ wraps' = Append(wraps, [sock |-> c, buf |-> <<>>])
          /\ srv' = [srv EXCEPT !.pc = "write", !.writes = WritesTo(c, history)]
          /\ backlog' = Tail(backlog)
          /\ UNCHANGED <<conn, up, down, cli, history>>
      BY <1>3 DEF AcceptClient
    <2> HIDE DEF c
    <2>6. srv' \in ServerStates
      BY <2>3, <2>5 DEF TypeOK, ServerStates
    <2>7. /\ fds' \in Seq(PollFds)
          /\ wraps' \in Seq(Wrappers)
      BY <2>4, <2>5, AppendType DEF TypeOK
    <2>8. socks' \in Seq(Clients)
      BY <2>2, <2>5, AppendType DEF TypeOK, c
    <2> QED
      BY <2>2, <2>5, <2>6, <2>7, <2>8 DEF TypeOK
  <1>4. ASSUME NEW w \in Wrappers, Reading,
               wraps' = [wraps EXCEPT ![SockId] = w]
        PROVE  wraps' \in Seq(Wrappers)
    BY <1>4, SourceType, UpdateType DEF TypeOK
  <1>5. ASSUME NEW buf \in Seq(Pieces), Reading, wraps' = [wraps EXCEPT ![SockId].buf = buf]
        PROVE  wraps' \in Seq(Wrappers)
    <2>1. [wraps[SockId] EXCEPT !.buf = buf] \in Wrappers
      <3>1. SockId \in DOMAIN wraps /\ wraps \in Seq(Wrappers)
        BY <1>5, SourceType DEF TypeOK
      <3>2. wraps[SockId] \in Wrappers
        BY <3>1, ElementType
      <3> QED
        BY <3>2 DEF Wrappers
    <2>2. wraps' = [wraps EXCEPT ![SockId] = [wraps[SockId] EXCEPT !.buf = buf]]
      BY <1>5, SourceType
    <2> QED
      BY <1>4, <1>5, <2>1, <2>2
  <1>6. ASSUME NEW k \in 1 .. MaxRead, ReadBuf(k)
        PROVE  TypeOK'
    <2>1. Source \in Clients /\ up[Source] \in Seq(Pieces)
      BY <1>6, SourceType DEF ReadBuf, TypeOK
    <2>2. SubSeq(up[Source], 1, k) \in Seq(Pieces) /\ Drop(up[Source], k) \in Seq(Pieces)
      BY <1>6, <2>1, CutType DEF ReadBuf
    <2>3. wraps' \in Seq(Wrappers)
      BY <1>5, <1>6, <2>2 DEF ReadBuf
    <2> QED
      BY <1>6, <2>1, <2>2, <2>3 DEF ReadBuf, TypeOK
  <1>7. ASSUME Reading, wraps[SockId].buf # <<>>
        PROVE  /\ Tail(wraps[SockId].buf) \in Seq(Pieces) /\ Head(wraps[SockId].buf) \in Pieces
               /\ wraps' = [wraps EXCEPT ![SockId].buf = Tail(@)] => wraps' \in Seq(Wrappers)
    <2>1. Tail(wraps[SockId].buf) \in Seq(Pieces) /\ Head(wraps[SockId].buf) \in Pieces
      BY <1>7, SourceType, TailType
    <2> QED
      BY <1>5, <1>7, <2>1
  <1>8. CASE TakeLength
    <2>1. srv' \in ServerStates
      BY <1>8 DEF TakeLength, TypeOK, ServerStates
    <2> QED
      BY <1>7, <1>8, <2>1 DEF TakeLength, TypeOK, Network
  <1>9. CASE TakeRest
    <2> DEFINE m == Head(wraps[SockId].buf).msg
    <2>1. m \in Messages
      BY <1>7, <1>9 DEF TakeRest, Pieces
    <2>2. srv' = [srv EXCEPT !.pc = "write", !.half = FALSE, !.msg = m, !.writes = Broadcast(m)]
      BY <1>9 DEF TakeRest
    <2> HIDE DEF m
    <2>3. srv' \in ServerStates
      BY <2>1, <2>2, BroadcastType DEF TypeOK, ServerStates
    <2> QED
      BY <1>7, <1>9, <2>3 DEF TakeRest, TypeOK, Network
  <1>10. CASE Bye
    <2>1. SockId \in DOMAIN wraps /\ SockId \in DOMAIN socks /\ srv.i \in DOMAIN fds
      BY <1>10, SourceType DEF Bye, AtEnd
    <2>2. /\ wraps' \in Seq(Wrappers) /\ socks' \in Seq(Clients)
          /\ fds' \in Seq(PollFds)
      <3>1. wraps \in Seq(Wrappers) /\ socks \in Seq(Clients) /\ fds \in Seq(PollFds)
        BY DEF TypeOK
      <3>2. wraps' = SwapPop(wraps, SockId) /\ socks' = SwapPop(socks, SockId) /\ fds' = SwapPop(fds, srv.i)
        BY <1>10 DEF Bye
      <3> QED
        BY <2>1, <3>1, <3>2, SwapPopType
    <2>3. srv' \in ServerStates
      BY <1>0, <1>10 DEF Bye, TypeOK, ServerStates
    <2> QED
      BY <1>10, <2>2, <2>3 DEF Bye, TypeOK, Network
  <1>11. CASE Write
    <2>1. srv.writes \in Seq(Sends) /\ srv.writes # <<>>
      BY <1>11 DEF Write, TypeOK, ServerStates
    <2>2. /\ Tail(srv.writes) \in Seq(Sends)
          /\ Head(srv.writes) \in Sends
      BY <2>1, TailType
    <2> DEFINE c == Head(srv.writes).to
               p == Head(srv.writes).piece
    <2>3. c \in Clients /\ p \in Pieces
      BY <2>2 DEF Sends
    <2>4. /\ srv' = [srv EXCEPT !.writes = Tail(srv.writes)]
          /\ down' = [down EXCEPT ![c] = Append(@, p)] \/ down' = down
          /\ conn' = conn \/ conn' = [conn EXCEPT ![c] = "broken"]
          /\ UNCHANGED <<backlog, up, cli, fds, socks, wraps, history>>
      BY <1>11 DEF Write
    <2> HIDE DEF c, p
    <2>5. srv' \in ServerStates
      BY <2>2, <2>4 DEF TypeOK, ServerStates
    <2>6. down' \in [Clients -> Seq(Pieces)]
      <3>1. Append(down[c], p) \in Seq(Pieces)
        BY <2>3, AppendType DEF TypeOK
      <3> QED
        BY <2>4, <3>1 DEF TypeOK
    <2>7. conn' \in [Clients -> ConnStates]
      BY <2>4 DEF TypeOK, ConnStates
    <2> QED
      BY <2>4, <2>5, <2>6, <2>7 DEF TypeOK
  <1>12. CASE WritePipe
    BY <1>12, <1>0 DEF WritePipe, TypeOK, Network, ServerStates
  <1>13. CASE Written
    <2>1. history' \in Seq(Messages)
      BY <1>13, AppendType DEF Written, TypeOK, ServerStates
    <2>2. srv' \in ServerStates
      BY <1>0, <1>13 DEF Written, TypeOK, ServerStates
    <2> QED
      BY <1>13, <2>1, <2>2 DEF Written, TypeOK, Network
  <1> QED
    BY <1>1, <1>2, <1>3, <1>6, <1>8, <1>9, <1>10, <1>11, <1>12, <1>13 DEF ServerNext
LEMMA TypesNext ==
  ASSUME TypeOK, VectorInv, [Next]_vars
  PROVE  TypeOK'
  <1>1. CASE ServerNext
    BY <1>1, ServerTypes
  <1>2. ASSUME NEW c \in Clients, ClientNext(c) \/ Quit(c) \/ Kill(c)
        PROVE  TypeOK'
    BY <1>2, ClientTypes
  <1>3. CASE UNCHANGED vars
    BY <1>3 DEF vars, TypeOK
  <1> QED
    BY <1>1, <1>2, <1>3 DEF Next, Ends

---------------------------------------------------------------------------
(* The vectors.                                                            *)

LEMMA VectorsInit == Init => VectorInv
  <1> SUFFICES ASSUME Init PROVE VectorInv
    OBVIOUS
  <1>1. Len(fds) = 1 /\ fds[1].fd = Listening /\ ~fds[1].in /\ Len(socks) = 0 /\ Len(wraps) = 0
    BY DEF Init
  <1>2. DOMAIN socks = {} /\ DOMAIN backlog = {}
    BY DEF Init
  <1> QED
    BY <1>1, <1>2 DEF Init, VectorInv, Parallel, Once, NotYet, Place, Reading, Waits, Serves

\* Steps that leave the sockets alone.
LEMMA SameVectors ==
  ASSUME TypeOK, VectorInv, UNCHANGED socks,
         Len(wraps') = Len(wraps), \A n \in DOMAIN socks : wraps'[n].sock = wraps[n].sock,
         Len(fds') = Len(fds), \A n \in DOMAIN fds : fds'[n].fd = fds[n].fd
  PROVE  Parallel'
  <1>1. Len(socks) \in Nat /\ DOMAIN socks = 1 .. Len(socks) /\ DOMAIN fds = 1 .. Len(socks) + 1
    BY DEF TypeOK, VectorInv, Parallel
  <1>2. 1 \in DOMAIN fds /\ \A n \in DOMAIN socks : n + 1 \in DOMAIN fds
    BY <1>1
  <1> QED
    BY <1>2 DEF VectorInv, Parallel

LEMMA SamePlaces ==
  ASSUME TypeOK, VectorInv, UNCHANGED <<socks, backlog>>,
         \A d \in Clients : (cli'[d].pc = "off") = (cli[d].pc = "off"),
         \A d \in Clients : conn'[d] # conn[d] => conn'[d] \notin {"open", "none"} /\ conn[d] # "none"
  PROVE  Once' /\ NotYet'
  <1>1. \A d \in Clients : Waits(d)' = Waits(d) /\ Serves(d)' = Serves(d)
    BY DEF Waits, Serves
  <1> QED
    BY <1>1 DEF VectorInv, Once, NotYet

LEMMA ClientVectors ==
  ASSUME TypeOK, VectorInv, NEW c \in Clients, ClientNext(c) \/ Quit(c) \/ Kill(c)
  PROVE  VectorInv'
  <1>1. UNCHANGED server
    BY DEF ClientNext, Connect, Stdin, ClientWrite, ClientReadBuf, ClientTake, ClientEof,
           ClientPipe, Quit, Kill, Closed
  <1>2. Parallel'
    BY <1>1 DEF server, VectorInv, Parallel
  <1>3. CASE Connect(c)
    <2>1. /\ backlog \in Seq(Clients) /\ backlog' = Append(backlog, c)
          /\ conn' = [conn EXCEPT ![c] = "open"] /\ cli' = [cli EXCEPT ![c].pc = "poll"]
          /\ cli[c].pc = "off"
      BY <1>3 DEF Connect, TypeOK
    <2>2. /\ DOMAIN backlog' = DOMAIN backlog \cup {Len(backlog) + 1} /\ Len(backlog) + 1 \notin DOMAIN backlog
          /\ \A k \in DOMAIN backlog : backlog'[k] = backlog[k]
          /\ backlog'[Len(backlog) + 1] = c
          /\ backlog' # <<>>
      BY <2>1, AppendType
    <2>3. ~Waits(c) /\ ~Serves(c) /\ conn[c] = "none"
      BY <2>1 DEF VectorInv, NotYet
    <2>4. \A d \in Clients : Waits(d)' <=> Waits(d) \/ d = c
      BY <2>2 DEF Waits
    <2>5. \A d \in Clients : Serves(d)' <=> Serves(d)
      BY <1>1 DEF server, Serves
    <2>6. \A d \in Clients : /\ conn'[d] = IF d = c THEN "open" ELSE conn[d]
                             /\ cli'[d].pc = IF d = c THEN "poll" ELSE cli[d].pc
      BY <2>1 DEF TypeOK, ClientStates
    <2>7. NotYet'
      BY <2>3, <2>4, <2>5, <2>6 DEF VectorInv, NotYet
    <2>8. \A m, n \in DOMAIN backlog' : backlog'[m] = backlog'[n] => m = n
      BY <2>2, <2>3 DEF VectorInv, Once, Waits
    <2>9. Once'
      BY <1>1, <2>3, <2>4, <2>5, <2>6, <2>8 DEF server, VectorInv, Once
    <2>10. Place'
      BY <1>1, <2>2 DEF server, VectorInv, Place, Reading
    <2> QED
      BY <1>2, <2>7, <2>9, <2>10 DEF VectorInv
  <1>4. CASE ~Connect(c)
    <2>1. UNCHANGED backlog
      BY <1>4 DEF ClientNext, Stdin, ClientWrite, ClientReadBuf, ClientTake, ClientEof,
                  ClientPipe, Quit, Kill, Closed
    <2>2. Place'
      BY <1>1, <2>1 DEF server, VectorInv, Place, Reading
    <2>3. \A d \in Clients : (cli'[d].pc = "off") = (cli[d].pc = "off")
      <3>1. cli \in [Clients -> ClientStates] /\ cli[c] \in ClientStates
        BY DEF TypeOK
      <3>2. cli[c].pc # "off" /\ cli'[c].pc # "off" /\ \A d \in Clients \ {c} : cli'[d] = cli[d]
        <4>1. CASE Stdin(c) \/ ClientEof(c) \/ ClientPipe(c) \/ Quit(c) \/ Kill(c)
          BY <3>1, <4>1 DEF Stdin, ClientEof, ClientPipe, Quit, Kill, Closed, ClientStates
        <4>2. CASE \E cached \in BOOLEAN : ClientWrite(c, cached)
          BY <3>1, <4>2 DEF ClientWrite, ClientStates
        <4>3. CASE \E k \in 1 .. MaxRead : ClientReadBuf(c, k)
          BY <3>1, <4>3 DEF ClientReadBuf, ClientStates
        <4>4. CASE ClientTake(c)
          BY <3>1, <4>4 DEF ClientTake, ClientStates
        <4> QED
          BY <1>4, <4>1, <4>2, <4>3, <4>4 DEF ClientNext
      <3> QED
        BY <3>2
    <2>4. \A d \in Clients : conn'[d] # conn[d] => conn'[d] \notin {"open", "none"} /\ conn[d] # "none"
      <3>1. CASE Quit(c) \/ Kill(c)
        <4>1. /\ conn' = [conn EXCEPT ![c] = IF down[c] = <<>> THEN "fin" ELSE "reset"]
              /\ cli[c].pc # "off"
          BY <3>1 DEF Quit, Kill, Closed
        <4> QED
          BY <4>1 DEF VectorInv, NotYet, TypeOK
      <3>2. CASE ClientNext(c)
        BY <1>4, <3>2 DEF ClientNext, Stdin, ClientWrite, ClientReadBuf, ClientTake, ClientEof, ClientPipe
      <3> QED
        BY <3>1, <3>2
    <2> QED
      BY <1>1, <1>2, <2>1, <2>2, <2>3, <2>4, SamePlaces DEF server, VectorInv
  <1> QED
    BY <1>3, <1>4
LEMMA ServerVectors ==
  ASSUME TypeOK, VectorInv, ServerNext
  PROVE  VectorInv'
  <1>0. /\ srv.i \in Nat /\ srv.i >= 1 /\ srv.i + 1 \in Nat /\ srv.i + 1 >= 1 /\ srv.i + 1 # 1
        /\ srv \in ServerStates
        /\ Len(socks) \in Nat /\ DOMAIN socks = 1 .. Len(socks) /\ DOMAIN wraps = 1 .. Len(socks)
        /\ DOMAIN fds = 1 .. Len(socks) + 1
    BY DEF VectorInv, Parallel, Place, TypeOK, ServerStates
  <1>1. CASE Poll
    <2>1. /\ UNCHANGED <<Network, socks, wraps>>
          /\ Len(fds') = Len(fds) /\ \A n \in DOMAIN fds : fds'[n].fd = fds[n].fd
      <3>1. \A n \in DOMAIN fds : fds[n] \in PollFds
        BY ElementType DEF TypeOK
      <3>2. fds' = [n \in 1 .. Len(fds) |-> [fds[n] EXCEPT !.in = Readable(fds[n].fd)]]
            /\ Len(fds) \in Nat /\ DOMAIN fds = 1 .. Len(fds)
        BY <1>1 DEF Poll, TypeOK
      <3>3. \A n \in DOMAIN fds : fds'[n].fd = fds[n].fd
        BY <3>1, <3>2 DEF PollFds
      <3> QED
        BY <1>1, <3>2, <3>3 DEF Poll
    <2>2. Parallel' /\ Once' /\ NotYet'
      BY <2>1, SameVectors, SamePlaces DEF Network
    <2>3. srv'.pc = "loop" /\ srv'.i = 1
      BY <1>0, <1>1 DEF Poll, ServerStates
    <2>4. fds'[1].in => backlog # <<>>
      <3>1. fds[1] \in PollFds /\ 1 \in DOMAIN fds
        BY <1>0, ElementType DEF TypeOK
      <3>2. fds'[1].in = Readable(fds[1].fd)
        BY <1>1, <3>1 DEF Poll, PollFds
      <3> QED
        BY <3>2 DEF Readable, VectorInv, Parallel
    <2> QED
      BY <2>1, <2>2, <2>3, <2>4 DEF VectorInv, Place, Reading, Network
  <1>2. CASE EndLoop \/ Skip \/ AcceptMessage \/ Spin \/ ReadError \/ WritePipe \/ Written
    <2>1. UNCHANGED <<Network, fds, socks, wraps>>
      BY <1>2 DEF EndLoop, Skip, AcceptMessage, Spin, ReadError, WritePipe, Written
    <2>2. Parallel' /\ Once' /\ NotYet'
      BY <2>1, SameVectors, SamePlaces DEF Network
    <2>3. Place'
      <3>1. CASE AcceptMessage
        <4>1. srv'.pc = "read" /\ srv'.i = srv.i /\ srv.i \in DOMAIN fds /\ fds[srv.i].fd # Listening
          BY <1>0, <3>1 DEF AcceptMessage, At, ServerStates
        <4> QED
          BY <1>0, <2>1, <4>1 DEF Place, Reading, VectorInv, Parallel
      <3>2. CASE EndLoop
        <4>1. srv'.pc = "poll" /\ srv'.i = 1
          BY <1>0, <3>2 DEF EndLoop, ServerStates
        <4> QED
          BY <4>1 DEF Place, Reading
      <3>3. CASE Skip
        <4>1. srv'.pc = "loop" /\ srv'.i = srv.i + 1
          BY <1>0, <3>3 DEF Skip, At, ServerStates
        <4> QED
          BY <1>0, <4>1 DEF Place, Reading
      <3>4. CASE Spin \/ ReadError \/ WritePipe
        <4>1. srv'.pc \in {"spins", "dead"} /\ srv'.i = srv.i
          BY <1>0, <3>4 DEF Spin, ReadError, WritePipe, ServerStates
        <4> QED
          BY <1>0, <4>1 DEF Place, Reading
      <3>5. CASE Written
        <4>1. srv'.pc = "loop" /\ srv'.i = srv.i + 1
          BY <1>0, <3>5 DEF Written, ServerStates
        <4> QED
          BY <1>0, <4>1 DEF Place, Reading
      <3> QED
        BY <1>2, <3>1, <3>2, <3>3, <3>4, <3>5
    <2> QED
      BY <2>2, <2>3 DEF VectorInv
  <1>3. CASE AcceptClient
    <2>1. srv.i = 1 /\ backlog # <<>>
      BY <1>3, AcceptorIsFirst DEF AcceptClient, At, VectorInv, Place
    <2> DEFINE c == Head(backlog)
               N == Len(socks) + 1
    <2>2. /\ c \in Clients /\ 1 \in DOMAIN backlog /\ backlog[1] = c
          /\ \A k \in DOMAIN Tail(backlog) : k \in Int /\ k + 1 \in DOMAIN backlog /\ k + 1 # 1
                                             /\ Tail(backlog)[k] = backlog[k + 1]
          /\ \A k \in DOMAIN backlog : k # 1 => k - 1 \in DOMAIN Tail(backlog) /\ Tail(backlog)[k - 1] = backlog[k]
      BY <2>1, TailType DEF TypeOK
    <2>3. /\ fds' = Append(fds, [fd |-> c, in |-> FALSE])
          /\ socks' = Append(socks, c)
          /\ wraps' = Append(wraps, [sock |-> c, buf |-> <<>>])
          /\ backlog' = Tail(backlog) /\ UNCHANGED <<conn, cli>>
          /\ srv'.pc = "write" /\ srv'.i = srv.i
      BY <1>0, <1>3 DEF AcceptClient, ServerStates
    <2> HIDE DEF c
    <2>4. Waits(c) /\ ~Serves(c)
      BY <2>2 DEF Waits, VectorInv, Once
    <2>5. /\ Len(socks') = N /\ DOMAIN socks' = DOMAIN socks \cup {N} /\ N \notin DOMAIN socks
          /\ socks'[N] = c /\ \A n \in DOMAIN socks : socks'[n] = socks[n]
      BY <2>2, <2>3, AppendType DEF TypeOK
    <2>6. /\ Len(wraps') = N /\ wraps'[N].sock = c /\ \A n \in DOMAIN socks : wraps'[n] = wraps[n]
      <3>1. [sock |-> c, buf |-> <<>>] \in Wrappers
        BY <2>2 DEF Wrappers
      <3>2. Len(wraps) = Len(socks) /\ wraps \in Seq(Wrappers)
        BY DEF VectorInv, Parallel, TypeOK
      <3>3. /\ Len(wraps') = Len(wraps) + 1 /\ wraps'[Len(wraps) + 1] = [sock |-> c, buf |-> <<>>]
            /\ \A n \in DOMAIN wraps : wraps'[n] = wraps[n]
        BY <2>3, <3>1, <3>2, AppendType
      <3> QED
        BY <1>0, <3>2, <3>3
    <2>7. Len(fds') = N + 1 /\ fds'[N + 1].fd = c /\ \A n \in DOMAIN fds : fds'[n] = fds[n]
      <3>1. [fd |-> c, in |-> FALSE] \in PollFds
        BY <2>2 DEF PollFds
      <3>2. Len(fds) = N /\ fds \in Seq(PollFds)
        BY DEF VectorInv, Parallel, TypeOK
      <3>3. /\ Len(fds') = Len(fds) + 1 /\ fds'[Len(fds) + 1] = [fd |-> c, in |-> FALSE]
            /\ \A n \in DOMAIN fds : fds'[n] = fds[n]
        BY <2>3, <3>1, <3>2, AppendType
      <3> QED
        BY <3>2, <3>3
    <2>8. 1 \in DOMAIN fds /\ \A n \in DOMAIN socks : n + 1 \in DOMAIN fds
      BY <1>0
    <2>9. Parallel'
      BY <2>5, <2>6, <2>7, <2>8 DEF VectorInv, Parallel
    <2>10. \A d \in Clients : Serves(d)' <=> Serves(d) \/ d = c
      BY <2>5 DEF Serves
    <2>11. \A d \in Clients : Waits(d)' <=> Waits(d) /\ d # c
      <3>1. ASSUME NEW d \in Clients, Waits(d)' PROVE Waits(d) /\ d # c
        <4>1. PICK k \in DOMAIN Tail(backlog) : backlog[k + 1] = d /\ k + 1 \in DOMAIN backlog /\ k + 1 # 1
          BY <2>2, <2>3, <3>1 DEF Waits
        <4> QED
          BY <2>2, <4>1 DEF Waits, VectorInv, Once
      <3>2. ASSUME NEW d \in Clients, Waits(d), d # c PROVE Waits(d)'
        <4>1. PICK k \in DOMAIN backlog : backlog[k] = d
          BY <3>2 DEF Waits
        <4> QED
          BY <2>2, <2>3, <3>2, <4>1 DEF Waits
      <3> QED
        BY <3>1, <3>2
    <2>12. \A m, n \in DOMAIN socks' : socks'[m] = socks'[n] => m = n
      BY <2>4, <2>5 DEF Serves, VectorInv, Once
    <2>13. \A m, n \in DOMAIN backlog' : backlog'[m] = backlog'[n] => m = n
      <3>1. ASSUME NEW m \in DOMAIN backlog', NEW n \in DOMAIN backlog', backlog'[m] = backlog'[n]
            PROVE  m + 1 = n + 1 /\ m \in Int /\ n \in Int
        BY <2>2, <2>3, <3>1 DEF VectorInv, Once
      <3> QED
        BY <3>1
    <2>14. Once'
      BY <2>3, <2>4, <2>10, <2>11, <2>12, <2>13 DEF VectorInv, Once
    <2>15. NotYet'
      BY <2>2, <2>3, <2>4, <2>10, <2>11 DEF VectorInv, NotYet
    <2>16. Place'
      BY <1>0, <2>3 DEF Place, Reading
    <2> QED
      BY <2>9, <2>14, <2>15, <2>16 DEF VectorInv
  <1>4. ASSUME Reading, NEW buf, wraps' = [wraps EXCEPT ![SockId].buf = buf],
               UNCHANGED <<conn, backlog, cli, fds, socks>>,
               srv'.i = srv.i, srv'.pc \in {"read", "write"}
        PROVE  VectorInv'
    <2>1. Len(wraps') = Len(wraps)
      BY <1>4 DEF TypeOK
    <2>2. ASSUME NEW n \in DOMAIN socks PROVE wraps'[n].sock = wraps[n].sock
      <3>1. n \in DOMAIN wraps /\ wraps[n] \in Wrappers
        BY <1>0, ElementType DEF TypeOK
      <3> QED
        BY <1>4, <3>1 DEF Wrappers
    <2>3. Parallel' /\ Once' /\ NotYet'
      BY <1>4, <2>1, <2>2, SameVectors, SamePlaces
    <2> QED
      BY <1>0, <1>4, <2>3 DEF VectorInv, Place, Reading
  <1>5. CASE \E k \in 1 .. MaxRead : ReadBuf(k)
    BY <1>4, <1>5 DEF ReadBuf, Reading
  <1>6. CASE TakeLength
    <2>1. srv'.i = srv.i /\ srv'.pc = "read"
      BY <1>0, <1>6 DEF TakeLength, Reading, ServerStates
    <2> QED
      BY <1>4, <1>6, <2>1 DEF TakeLength, Network
  <1>7. CASE TakeRest
    <2>1. srv'.i = srv.i /\ srv'.pc = "write"
      BY <1>0, <1>7 DEF TakeRest, ServerStates
    <2> QED
      BY <1>4, <1>7, <2>1 DEF TakeRest, Network
  <1>8. CASE Bye
    <2> DEFINE N == Len(socks)
               s == SockId
    <2>1. /\ s \in 1 .. N /\ srv.i = s + 1 /\ srv.i \in DOMAIN fds /\ N \in Nat
          /\ socks[s] = Source /\ Source \in Clients
      BY <1>0, <1>8, SourceType DEF Bye, AtEnd, SockId
    <2>2. /\ socks' = SwapPop(socks, s) /\ wraps' = SwapPop(wraps, s) /\ fds' = SwapPop(fds, srv.i)
          /\ UNCHANGED <<Network>> /\ conn[Source] # "open"
          /\ srv'.pc = "loop" /\ srv'.i = srv.i + 1
      BY <1>0, <1>8 DEF Bye, AtEnd, ServerStates
    <2> HIDE DEF s
    <2>3. s \in DOMAIN socks /\ s \in DOMAIN wraps /\ Len(wraps) = N
      BY <1>0, <2>1 DEF VectorInv, Parallel
    <2>4. wraps \in Seq(Wrappers) /\ socks \in Seq(Clients) /\ fds \in Seq(PollFds)
      BY DEF TypeOK
    <2>5. /\ Len(socks') = N - 1 /\ socks' \in Seq(Clients)
          /\ \A k \in 1 .. N - 1 : socks'[k] = IF k = s THEN socks[N] ELSE socks[k]
      BY <2>3, <2>2, <2>4, SwapPopType
    <2>6. /\ Len(wraps') = N - 1
          /\ \A k \in 1 .. N - 1 : wraps'[k] = IF k = s THEN wraps[N] ELSE wraps[k]
      <3>1. /\ Len(wraps') = Len(wraps) - 1
            /\ \A k \in 1 .. Len(wraps) - 1 : wraps'[k] = IF k = s THEN wraps[Len(wraps)] ELSE wraps[k]
        BY <2>3, <2>2, <2>4, SwapPopType
      <3> QED
        BY <2>3, <3>1
    <2>7. /\ Len(fds') = N
          /\ \A k \in 1 .. N : fds'[k] = IF k = srv.i THEN fds[N + 1] ELSE fds[k]
      <3>1. Len(fds) = N + 1 /\ Len(fds) - 1 = N
        BY <2>1 DEF VectorInv, Parallel
      <3> QED
        <4>1. /\ Len(fds') = Len(fds) - 1
              /\ \A k \in 1 .. Len(fds) - 1 : fds'[k] = IF k = srv.i THEN fds[Len(fds)] ELSE fds[k]
          BY <2>1, <2>2, <2>4, SwapPopType
        <4> QED
          BY <3>1, <4>1
    <2> HIDE DEF N
    <2>8. DOMAIN socks = 1 .. N /\ DOMAIN socks' = 1 .. N - 1 /\ 1 \in 1 .. N /\ N \in 1 .. N
      BY <1>0, <2>1, <2>5 DEF N
    <2>9. \A k \in 1 .. N : wraps[k].sock = socks[k] /\ fds[k + 1].fd = socks[k]
      BY <2>8 DEF VectorInv, Parallel
    <2>10. Parallel'
      <3>1. Len(socks') = Len(wraps') /\ Len(fds') = Len(socks') + 1
        BY <2>1, <2>5, <2>6, <2>7
      <3>2. fds'[1].fd = Listening
        BY <1>0, <2>1, <2>7, <2>8 DEF VectorInv, Parallel
      <3>3. ASSUME NEW n \in 1 .. N - 1
            PROVE  wraps'[n].sock = socks'[n] /\ fds'[n + 1].fd = socks'[n]
        <4>1. n \in 1 .. N /\ n + 1 \in 1 .. N /\ (n + 1 = srv.i <=> n = s)
          BY <2>1
        <4> QED
          BY <2>5, <2>6, <2>7, <2>8, <2>9, <4>1
      <3> QED
        BY <2>8, <3>1, <3>2, <3>3 DEF Parallel
    <2>11. \A d \in Clients : Serves(d)' <=> Serves(d) /\ d # Source
      <3>1. ASSUME NEW d \in Clients, Serves(d)' PROVE Serves(d) /\ d # Source
        <4>1. PICK k \in 1 .. N - 1 : socks'[k] = d
          BY <2>8, <3>1 DEF Serves
        <4>2. k \in 1 .. N /\ k # N
          BY <2>1, <4>1
        <4> QED
          BY <2>1, <2>5, <2>8, <4>1, <4>2 DEF Serves, VectorInv, Once
      <3>2. ASSUME NEW d \in Clients, Serves(d), d # Source PROVE Serves(d)'
        <4>1. PICK k \in 1 .. N : socks[k] = d
          BY <2>8, <3>2 DEF Serves
        <4>2. k # s
          BY <2>1, <3>2, <4>1
        <4>3. CASE k = N
          <5>1. s \in 1 .. N - 1 /\ socks'[s] = d
            BY <2>1, <2>5, <4>1, <4>2, <4>3
          <5> QED
            BY <2>8, <5>1 DEF Serves
        <4>4. CASE k # N
          <5>1. k \in 1 .. N - 1 /\ socks'[k] = d
            BY <2>1, <2>5, <4>1, <4>2, <4>4
          <5> QED
            BY <2>8, <5>1 DEF Serves
        <4> QED
          BY <4>3, <4>4
      <3> QED
        BY <3>1, <3>2
    <2>12. \A m, n \in DOMAIN socks' : socks'[m] = socks'[n] => m = n
      <3>1. SUFFICES ASSUME NEW m \in 1 .. N - 1, NEW n \in 1 .. N - 1, socks'[m] = socks'[n]
                     PROVE  m = n
        BY <2>8
      <3>2. m \in 1 .. N /\ n \in 1 .. N /\ m # N /\ n # N
        BY <2>1
      <3> QED
        BY <2>5, <2>8, <3>1, <3>2 DEF VectorInv, Once
    <2>13. \A d \in Clients : Waits(d)' <=> Waits(d)
      BY <2>2 DEF Waits, Network
    <2>14. Once'
      BY <2>2, <2>11, <2>12, <2>13 DEF VectorInv, Once, Network
    <2>15. NotYet'
      BY <2>2, <2>11, <2>13 DEF VectorInv, NotYet, Network
    <2>16. Place'
      BY <1>0, <2>2 DEF Place, Reading
    <2> QED
      BY <2>10, <2>14, <2>15, <2>16 DEF VectorInv
  <1>9. CASE Write
    <2>1. /\ UNCHANGED <<backlog, cli, fds, socks, wraps>>
          /\ srv'.pc = srv.pc /\ srv'.i = srv.i /\ srv.pc = "write"
      BY <1>0, <1>9 DEF Write, ServerStates
    <2>2. \A d \in Clients : conn'[d] # conn[d] => conn'[d] = "broken" /\ conn[d] = "fin"
      BY <1>9 DEF Write, TypeOK
    <2>3. Parallel' /\ Once' /\ NotYet'
      BY <2>1, <2>2, SameVectors, SamePlaces
    <2> QED
      BY <1>0, <2>1, <2>3 DEF VectorInv, Place, Reading
  <1> QED
    BY <1>1, <1>2, <1>3, <1>5, <1>6, <1>7, <1>8, <1>9 DEF ServerNext

LEMMA VectorsNext ==
  ASSUME TypeOK, VectorInv, [Next]_vars
  PROVE  VectorInv'
  <1>1. CASE ServerNext
    BY <1>1, ServerVectors
  <1>2. ASSUME NEW c \in Clients, ClientNext(c) \/ Quit(c) \/ Kill(c)
        PROVE  VectorInv'
    BY <1>2, ClientVectors
  <1>3. CASE UNCHANGED vars
    BY <1>3 DEF vars, VectorInv, Parallel, Once, NotYet, Place, Waits, Serves, Reading
  <1> QED
    BY <1>1, <1>2, <1>3 DEF Next, Ends
---------------------------------------------------------------------------
(* The conversation.                                                       *)

LEMMA SaidType ==
  ASSUME TypeOK
  PROVE  /\ Said \in Seq(Messages) /\ Len(Said) \in Nat /\ DOMAIN Said = 1 .. Len(Said)
         /\ history \in Seq(Messages) /\ srv.msg \in Messages \cup {NoMessage}
  <1>1. history \in Seq(Messages) /\ srv.msg \in Messages \cup {NoMessage}
    BY DEF TypeOK, ServerStates
  <1>2. CASE srv.msg = NoMessage
    BY <1>1, <1>2 DEF Said
  <1>3. CASE srv.msg # NoMessage
    <2>1. srv.msg \in Messages
      BY <1>1, <1>3
    <2>2. Append(history, srv.msg) \in Seq(Messages)
      BY <1>1, <2>1
    <2> QED
      BY <1>1, <1>3, <2>2 DEF Said
  <1> QED
    BY <1>2, <1>3

LEMMA NoMessageIsNone == NoMessage \notin Messages
  BY ListeningAssumption DEF NoMessage, Messages

\* What is in a client, and where that is in the conversation.
LEMMA ReadType ==
  ASSUME TypeOK, NEW c \in Clients
  PROVE  /\ cli[c].shown \in Seq(Messages) /\ cli[c].buf \in Seq(Pieces) /\ down[c] \in Seq(Pieces)
         /\ cli[c].half \in BOOLEAN /\ cli[c] \in ClientStates
         /\ Len(cli[c].shown) \in Nat /\ Len(cli[c].buf) \in Nat /\ Len(down[c]) \in Nat
         /\ Read(c) \in Nat /\ Received(c) \in Nat /\ Sent(c) \in Nat
         /\ Received(c) = Read(c) + Len(cli[c].buf) /\ Sent(c) = Received(c) + Len(down[c])
         /\ 2 * Len(cli[c].shown) <= Read(c)
  <1>1. /\ cli[c].shown \in Seq(Messages) /\ cli[c].buf \in Seq(Pieces) /\ down[c] \in Seq(Pieces)
        /\ cli[c].half \in BOOLEAN /\ cli[c] \in ClientStates
    BY DEF TypeOK, ClientStates
  <1>2. Len(cli[c].shown) \in Nat /\ Len(cli[c].buf) \in Nat /\ Len(down[c]) \in Nat
    BY <1>1
  <1>3. Read(c) \in Nat /\ 2 * Len(cli[c].shown) <= Read(c)
    <2> DEFINE L == Len(cli[c].shown)
               h == IF cli[c].half THEN 1 ELSE 0
    <2>1. L \in Nat /\ h \in {0, 1} /\ Read(c) = 2 * L + h
      BY <1>2 DEF Read
    <2> HIDE DEF L, h
    <2>2. Read(c) \in Nat /\ 2 * L <= Read(c)
      BY <2>1
    <2> QED
      BY <2>2 DEF L
  <1>4. Received(c) = Read(c) + Len(cli[c].buf) /\ Sent(c) = Received(c) + Len(down[c])
    BY DEF Received, Sent
  <1>5. Received(c) \in Nat /\ Sent(c) \in Nat
    <2> DEFINE b == Len(cli[c].buf)
               n == Len(down[c])
    <2>1. b \in Nat /\ n \in Nat /\ Received(c) = Read(c) + b /\ Sent(c) = Received(c) + n
      BY <1>2, <1>4
    <2>2. Read(c) \in Nat
      BY <1>3
    <2> HIDE DEF b, n
    <2>3. Received(c) \in Nat
      BY <2>1, <2>2
    <2> QED
      BY <2>1, <2>3
  <1> QED
    BY <1>1, <1>2, <1>3, <1>4, <1>5

\* A piece of the conversation belongs to one of its messages.
LEMMA NthType ==
  ASSUME TypeOK
  PROVE  /\ \A j \in 1 .. Len(Said) : /\ Nth(2 * j - 1) = [msg |-> Said[j], part |-> 1]
                                      /\ Nth(2 * j) = [msg |-> Said[j], part |-> 2]
         /\ \A n \in 1 .. 2 * Len(Said) : Nth(n) \in Pieces
  BY SaidType, SerialType DEF Nth, Pieces

LEMMA BoundsAdd ==
  ASSUME NEW L \in Nat, NEW s \in Nat, NEW b \in Nat, NEW n \in Nat, NEW r \in Nat,
         2 * s <= r, r + b + n <= 2 * L
  PROVE  /\ \A k \in 1 .. s : k \in 1 .. L
         /\ \A k \in 1 .. b : r + k \in 1 .. 2 * L
         /\ \A k \in 1 .. n : (r + b) + k \in 1 .. 2 * L
  <1>1. ASSUME NEW k \in 1 .. s PROVE k \in 1 .. L
    OBVIOUS
  <1>2. ASSUME NEW k \in 1 .. b PROVE r + k \in 1 .. 2 * L
    OBVIOUS
  <1>3. ASSUME NEW k \in 1 .. n PROVE (r + b) + k \in 1 .. 2 * L
    OBVIOUS
  <1> QED
    BY <1>1, <1>2, <1>3

LEMMA InBounds ==
  ASSUME TypeOK, NEW c \in Clients, Sent(c) <= 2 * Len(Said)
  PROVE  /\ \A k \in DOMAIN cli[c].shown : k \in 1 .. Len(Said)
         /\ \A k \in DOMAIN cli[c].buf : Read(c) + k \in 1 .. 2 * Len(Said)
         /\ \A k \in DOMAIN down[c] : Received(c) + k \in 1 .. 2 * Len(Said)
  <1> DEFINE L == Len(Said)
             s == Len(cli[c].shown)
             b == Len(cli[c].buf)
             n == Len(down[c])
             r == Read(c)
  <1>1. /\ L \in Nat /\ s \in Nat /\ b \in Nat /\ n \in Nat /\ r \in Nat /\ 2 * s <= r
        /\ DOMAIN cli[c].shown = 1 .. s /\ DOMAIN cli[c].buf = 1 .. b /\ DOMAIN down[c] = 1 .. n
        /\ Received(c) = r + b /\ r + b + n <= 2 * L
    BY ReadType, SaidType
  <1> HIDE DEF L, s, b, n, r
  <1>2. /\ \A k \in 1 .. s : k \in 1 .. L
        /\ \A k \in 1 .. b : r + k \in 1 .. 2 * L
        /\ \A k \in 1 .. n : (r + b) + k \in 1 .. 2 * L
    BY <1>1, BoundsAdd
  <1> QED
    BY <1>1, <1>2 DEF L, r

\* A client for whom nothing changes, while the conversation does not change.
LEMMA StillOrdered ==
  ASSUME TypeOK, NEW d \in Clients, Ordered(d), Said' = Said, UNCHANGED <<down[d]>>,
         cli'[d].shown = cli[d].shown, cli'[d].buf = cli[d].buf, cli'[d].half = cli[d].half
  PROVE  /\ Ordered(d)' /\ Sent(d)' = Sent(d)
         /\ \A k : Nth(k)' = Nth(k)
  <1>1. \A k : Nth(k)' = Nth(k)
    BY DEF Nth, Serial
  <1>2. Read(d)' = Read(d) /\ Received(d)' = Received(d) /\ Sent(d)' = Sent(d)
    BY DEF Read, Received, Sent
  <1> QED
    BY <1>1, <1>2 DEF Ordered

\* The conversation has become longer by a message.
LEMMA LongerOrdered ==
  ASSUME TypeOK, NEW d \in Clients, Ordered(d), NEW m \in Messages, Said' = Append(Said, m),
         UNCHANGED <<cli, down>>
  PROVE  /\ Ordered(d)' /\ Sent(d)' = Sent(d)
  <1>0. Said \in Seq(Messages) /\ Len(Said) \in Nat /\ DOMAIN Said = 1 .. Len(Said)
        /\ Said' \in Seq(Messages) /\ Len(Said') = Len(Said) + 1 /\ \A k \in 1 .. Len(Said) : Said'[k] = Said[k]
    BY SaidType
  <1>1. ASSUME NEW k \in 1 .. 2 * Len(Said)
        PROVE  Nth(k)' = Nth(k)
    <2> DEFINE h == (k + 1) \div 2
    <2>1. h \in 1 .. Len(Said) /\ k \in 1 .. 2 * Len(Said')
      BY <1>0, Halves
    <2>2. Nth(k) = [msg |-> Said[h], part |-> IF k % 2 = 1 THEN 1 ELSE 2]
      BY DEF Nth, Serial
    <2>3. Nth(k)' = [msg |-> Said'[h], part |-> IF k % 2 = 1 THEN 1 ELSE 2]
      BY <2>1 DEF Nth, Serial
    <2> QED
      BY <1>0, <2>1, <2>2, <2>3
  <1>2. Read(d)' = Read(d) /\ Received(d)' = Received(d) /\ Sent(d)' = Sent(d)
    BY DEF Read, Received, Sent
  <1>3. /\ Sent(d) <= 2 * Len(Said)
        /\ \A k \in DOMAIN cli[d].shown : k \in 1 .. Len(Said)
        /\ \A k \in DOMAIN cli[d].buf : Read(d) + k \in 1 .. 2 * Len(Said)
        /\ \A k \in DOMAIN down[d] : Received(d) + k \in 1 .. 2 * Len(Said)
    BY InBounds DEF Ordered
  <1>4. Sent(d) <= 2 * Len(Said')
    BY <1>0, <1>3, ReadType
  <1> QED
    BY <1>0, <1>1, <1>2, <1>3, <1>4 DEF Ordered
LEMMA ConversationInit == TypeOK /\ Init => ConversationInv
  <1> SUFFICES ASSUME TypeOK, Init PROVE ConversationInv
    OBVIOUS
  <1>1. /\ history = <<>> /\ srv.msg = NoMessage /\ srv.writes = <<>> /\ ~srv.half /\ srv.pc = "poll"
        /\ socks = <<>>
        /\ \A c \in Clients : /\ cli[c].shown = <<>> /\ cli[c].buf = <<>> /\ ~cli[c].half
                              /\ down[c] = <<>>
    BY DEF Init
  <1>2. Len(Said) = 0
    BY <1>1 DEF Said
  <1>3. Idle /\ New /\ Addressed
    BY <1>1 DEF Idle, New, Addressed
  <1>4. ASSUME NEW c \in Clients PROVE Ordered(c)
    <2>1. Sent(c) = 0
      <3>1. Len(cli[c].shown) = 0 /\ Len(cli[c].buf) = 0 /\ Len(down[c]) = 0
        BY <1>1
      <3> QED
        BY <1>1, <3>1 DEF Sent, Received, Read
    <2> QED
      BY <1>1, <1>2, <2>1 DEF Ordered
  <1>5. Complete
    BY <1>1 DEF Complete, Serves
  <1> QED
    BY <1>3, <1>4, <1>5 DEF ConversationInv, InOrder

\* What is yet to be sent, while nothing is said, written or read.
LEMMA RestStays ==
  ASSUME NEW d \in Clients, NEW from, NEW to, Rest(d, from, to), srv'.writes = srv.writes,
         Said' = Said, Sent(d)' = Sent(d)
  PROVE  Rest(d, from, to)'
  <1>1. \A k : Nth(k)' = Nth(k)
    BY DEF Nth, Serial
  <1>2. Coming(d)' = Coming(d)
    BY DEF Coming
  <1> QED
    BY <1>1, <1>2 DEF Rest

LEMMA CompleteStays ==
  ASSUME Complete, srv'.writes = srv.writes, Said' = Said, Alive' => Alive,
         \A d \in Clients : conn'[d] = "open" => Sent(d)' = Sent(d),
         \A d \in Clients : Serves(d)' /\ conn'[d] = "open" => Serves(d) /\ conn[d] = "open"
  PROVE  Complete'
  <1> SUFFICES ASSUME Alive', NEW d \in Clients, Serves(d)', conn'[d] = "open"
               PROVE  ToBeSent(d)'
    BY DEF Complete
  <1>1. PICK from \in 1 .. Len(srv.writes) + 1, to \in 0 .. Len(srv.writes) : Rest(d, from, to)
    BY DEF Complete, ToBeSent
  <1>2. Rest(d, from, to)'
    BY <1>1, RestStays
  <1> QED
    BY <1>1, <1>2 DEF ToBeSent

\* Steps in which nobody says, writes or reads anything.
LEMMA QuietStep ==
  ASSUME TypeOK, ConversationInv, UNCHANGED <<history, down>>,
         srv'.msg = srv.msg, srv'.writes = srv.writes, Alive' => Alive,
         \A d \in Clients : /\ cli'[d].shown = cli[d].shown /\ cli'[d].buf = cli[d].buf
                            /\ cli'[d].half = cli[d].half
                            /\ cli'[d].pc = "off" \/ Waits(d)' => cli[d].pc = "off" \/ Waits(d)
                            /\ Serves(d)' /\ conn'[d] = "open" => Serves(d) /\ conn[d] = "open"
  PROVE  New' /\ InOrder' /\ Complete'
  <1>1. Said' = Said
    BY DEF Said
  <1>2. \A d \in Clients : Ordered(d)' /\ Sent(d)' = Sent(d)
    BY <1>1, StillOrdered DEF ConversationInv, InOrder
  <1>3. New'
    BY DEF ConversationInv, New
  <1>4. Complete'
    BY <1>1, <1>2, CompleteStays DEF ConversationInv
  <1> QED
    BY <1>2, <1>3, <1>4 DEF InOrder

LEMMA ReadBufOrder ==
  ASSUME TypeOK, NEW c \in Clients, NEW k \in 1 .. MaxRead, ClientReadBuf(c, k), Ordered(c)
  PROVE  Ordered(c)' /\ Sent(c)' = Sent(c)
  <1> DEFINE b == down[c]
  <1>1. /\ cli[c].buf = <<>> /\ k \in Upto(Len(b)) /\ b \in Seq(Pieces) /\ Len(b) \in Nat
        /\ cli'[c].shown = cli[c].shown /\ cli'[c].half = cli[c].half
        /\ cli'[c].buf = SubSeq(b, 1, k) /\ down'[c] = Drop(b, k) /\ Said' = Said
    BY ReadType DEF ClientReadBuf, TypeOK, ClientStates, server, Said
  <1>2. /\ k \in 1 .. Len(b) /\ Len(cli'[c].buf) = k /\ Len(down'[c]) = Len(b) - k
        /\ cli'[c].buf \in Seq(Pieces) /\ down'[c] \in Seq(Pieces)
        /\ \A n \in 1 .. k : cli'[c].buf[n] = b[n]
        /\ \A n \in 1 .. Len(b) - k : down'[c][n] = b[k + n]
    <2>1. /\ k \in 1 .. Len(b)
          /\ SubSeq(b, 1, k) \in Seq(Pieces) /\ Len(SubSeq(b, 1, k)) = k
          /\ \A n \in 1 .. k : SubSeq(b, 1, k)[n] = b[n]
          /\ Drop(b, k) \in Seq(Pieces) /\ Len(Drop(b, k)) = Len(b) - k
          /\ \A n \in 1 .. Len(b) - k : Drop(b, k)[n] = b[k + n]
      <3>1. b \in Seq(Pieces) /\ k \in Upto(Len(b))
        BY <1>1
      <3> HIDE DEF b
      <3> QED
        BY <3>1, CutType
    <2> HIDE DEF b
    <2> QED
      BY <1>1, <2>1
  <1>3. Len(cli[c].buf) = 0
    BY <1>1
  <1> DEFINE r == Read(c)
             N == Len(b)
  <1>4. Read(c)' = r /\ r \in Nat /\ Received(c) = r /\ Received(c)' = r + k
        /\ Sent(c) = r + N /\ Sent(c)' = r + k + (N - k)
    <2>1. Read(c)' = r
      BY <1>1 DEF Read
    <2>2. Received(c)' = Read(c)' + k /\ Sent(c)' = Received(c)' + (N - k)
      BY <1>2 DEF Received, Sent
    <2>3. r \in Nat /\ Received(c) = r + 0 /\ Sent(c) = Received(c) + N
      BY <1>3, ReadType
    <2> HIDE DEF r, N
    <2>4. Received(c) = r
      BY <2>3
    <2> QED
      BY <2>1, <2>2, <2>3, <2>4
  <1>5. \A n : Nth(n)' = Nth(n)
    BY <1>1 DEF Nth, Serial
  <1>6. DOMAIN cli'[c].buf = 1 .. k /\ DOMAIN down'[c] = 1 .. N - k /\ DOMAIN b = 1 .. N
    BY <1>1, <1>2
  <1>7. /\ Sent(c) <= 2 * Len(Said)
        /\ \A n \in 1 .. N : b[n] = Nth(r + n)
        /\ \A n \in DOMAIN cli[c].shown : cli[c].shown[n] = Said[n]
    BY <1>4, <1>6 DEF Ordered
  <1> HIDE DEF r, b, N
  <1>8. N \in Nat /\ k \in 1 .. N
    BY <1>1, <1>2 DEF N
  <1>9. Sent(c)' = Sent(c)
    BY <1>4, <1>8
  <1>10. ASSUME NEW n \in 1 .. k PROVE cli'[c].buf[n] = Nth(r + n)
    <2>1. n \in 1 .. N
      BY <1>8
    <2> QED
      BY <1>2, <1>7, <2>1
  <1>11. ASSUME NEW n \in 1 .. N - k PROVE down'[c][n] = Nth((r + k) + n)
    <2>1. k + n \in 1 .. N /\ r + (k + n) = (r + k) + n
      BY <1>4, <1>8
    <2> QED
      BY <1>2, <1>7, <2>1 DEF N
  <1> QED
    BY <1>1, <1>4, <1>5, <1>6, <1>7, <1>9, <1>10, <1>11 DEF Ordered

\* The next piece is the one that ReadMessage expects: a length, or the message of
\* that length, which is the next that is shown.
LEMMA TakeOrder ==
  ASSUME TypeOK, NEW c \in Clients, ClientTake(c), Ordered(c)
  PROVE  /\ Ordered(c)' /\ Sent(c)' = Sent(c)
         /\ \/ ~cli[c].half /\ cli'[c].shown = cli[c].shown
            \/ /\ cli[c].half /\ Len(cli[c].shown) + 1 \in 1 .. Len(Said)
               /\ cli'[c].shown = Append(cli[c].shown, Said[Len(cli[c].shown) + 1])
  <1> DEFINE piece == Head(cli[c].buf)
             L == Len(Said)
             s == Len(cli[c].shown)
             b == Len(cli[c].buf)
             r == Read(c)
             m == Said[s + 1]
  <1>1. /\ cli[c].buf # <<>> /\ cli[c].half \in BOOLEAN
        /\ cli'[c].buf = Tail(cli[c].buf) /\ cli'[c].half = (piece.part = 1)
        /\ cli'[c].shown = IF piece.part = 2 THEN Append(cli[c].shown, piece.msg) ELSE cli[c].shown
        /\ down'[c] = down[c] /\ Said' = Said
    BY ReadType DEF ClientTake, TypeOK, ClientStates, server, Said
  <1>2. /\ piece = cli[c].buf[1] /\ 1 \in DOMAIN cli[c].buf
        /\ Len(cli'[c].buf) = b - 1
        /\ \A n \in DOMAIN cli'[c].buf : n \in Int /\ n + 1 \in DOMAIN cli[c].buf
                                         /\ cli'[c].buf[n] = cli[c].buf[n + 1]
    BY <1>1, ReadType, TailType
  <1>3. piece = Nth(r + 1) /\ r + 1 \in 1 .. 2 * L
    BY <1>2, InBounds DEF Ordered
  <1>4. s \in Nat /\ L \in Nat /\ r = 2 * s + (IF cli[c].half THEN 1 ELSE 0) /\ r \in Nat
    BY ReadType, SaidType DEF Read
  <1>5. \A n : Nth(n)' = Nth(n)
    BY <1>1 DEF Nth, Serial
  <1>6. Received(c) = r + b /\ Received(c)' = Read(c)' + (b - 1) /\ b \in Nat
        /\ Sent(c) = Received(c) + Len(down[c]) /\ Sent(c)' = Received(c)' + Len(down[c])
    BY <1>1, <1>2, ReadType DEF Received, Sent
  <1>7. /\ piece = [msg |-> m, part |-> IF cli[c].half THEN 2 ELSE 1]
        /\ s + 1 \in 1 .. L
    <2> HIDE DEF s, L, r, piece, m
    <2>1. CASE cli[c].half
      <3>1. r + 1 = 2 * (s + 1) /\ s + 1 \in 1 .. L
        BY <1>3, <1>4, <2>1
      <3> QED
        BY <1>3, <2>1, <3>1, NthType DEF L, m
    <2>2. CASE ~cli[c].half
      <3>1. r + 1 = 2 * (s + 1) - 1 /\ s + 1 \in 1 .. L
        BY <1>3, <1>4, <2>2
      <3> QED
        BY <1>3, <2>2, <3>1, NthType DEF L, m
    <2> QED
      BY <2>1, <2>2
  <1>8. /\ cli'[c].half = ~cli[c].half
        /\ cli'[c].shown = IF cli[c].half THEN Append(cli[c].shown, m) ELSE cli[c].shown
    <2> HIDE DEF piece, m
    <2> QED
      BY <1>1, <1>7
  <1>9. m \in Messages
    BY <1>4, <1>7, SaidType
  <1> HIDE DEF m, piece
  <1>10. /\ DOMAIN cli'[c].shown = IF cli[c].half THEN DOMAIN cli[c].shown \cup {s + 1} ELSE DOMAIN cli[c].shown
         /\ Len(cli'[c].shown) = IF cli[c].half THEN s + 1 ELSE s
         /\ \A n \in DOMAIN cli[c].shown : cli'[c].shown[n] = cli[c].shown[n]
         /\ cli[c].half => cli'[c].shown[s + 1] = m
    <2> DEFINE t == cli[c].shown
    <2>1. t \in Seq(Messages)
      BY ReadType
    <2>2. cli'[c].shown = IF cli[c].half THEN Append(t, m) ELSE t
      BY <1>8
    <2> HIDE DEF t
    <2>3. /\ DOMAIN Append(t, m) = DOMAIN t \cup {Len(t) + 1} /\ Len(Append(t, m)) = Len(t) + 1
          /\ \A n \in DOMAIN t : Append(t, m)[n] = t[n]
          /\ Append(t, m)[Len(t) + 1] = m
      BY <1>9, <2>1, AppendType
    <2> QED
      BY <2>2, <2>3 DEF t
  <1> HIDE DEF s, L, b, r
  <1>11. Read(c)' = r + 1
    <2>1. Read(c)' = 2 * Len(cli'[c].shown) + (IF cli'[c].half THEN 1 ELSE 0)
      BY DEF Read
    <2>2. CASE cli[c].half
      <3>1. Read(c)' = 2 * (s + 1) + 0 /\ r = 2 * s + 1
        BY <1>4, <1>8, <1>10, <2>1, <2>2
      <3> QED
        BY <1>4, <3>1
    <2>3. CASE ~cli[c].half
      <3>1. Read(c)' = 2 * s + 1 /\ r = 2 * s + 0
        BY <1>4, <1>8, <1>10, <2>1, <2>3
      <3> QED
        BY <1>4, <3>1
    <2> QED
      BY <2>2, <2>3
  <1>12. Received(c)' = Received(c)
    BY <1>4, <1>6, <1>11
  <1>13. Sent(c)' = Sent(c)
    BY <1>6, <1>12
  <1>14. \A n \in DOMAIN cli'[c].shown : cli'[c].shown[n] = Said[n]
    BY <1>10 DEF Ordered, m
  <1>15. ASSUME NEW n \in DOMAIN cli'[c].buf PROVE cli'[c].buf[n] = Nth((r + 1) + n)
    <2>1. n \in Int /\ n + 1 \in DOMAIN cli[c].buf /\ cli'[c].buf[n] = cli[c].buf[n + 1]
      BY <1>2
    <2>2. cli[c].buf[n + 1] = Nth(r + (n + 1))
      BY <2>1 DEF Ordered, r
    <2>3. r + (n + 1) = (r + 1) + n
      BY <1>4, <2>1
    <2> QED
      BY <2>1, <2>2, <2>3
  <1>16. Ordered(c)'
    BY <1>1, <1>5, <1>11, <1>12, <1>13, <1>14, <1>15 DEF Ordered
  <1> QED
    BY <1>7, <1>8, <1>13, <1>16 DEF s, L, m
LEMMA ClientConversation ==
  ASSUME TypeOK, VectorInv, ConversationInv, NEW c \in Clients, ClientNext(c) \/ Quit(c) \/ Kill(c)
  PROVE  ConversationInv'
  <1>1. UNCHANGED server
    BY DEF ClientNext, Connect, Stdin, ClientWrite, ClientReadBuf, ClientTake, ClientEof,
           ClientPipe, Quit, Kill, Closed
  <1>2. /\ UNCHANGED <<history, socks, srv>> /\ Said' = Said /\ Alive' = Alive
        /\ \A d \in Clients : Serves(d)' = Serves(d)
    BY <1>1 DEF server, Said, Alive, Serves
  <1>3. Idle' /\ Addressed'
    BY <1>2 DEF ConversationInv, Idle, Addressed, Serves
  <1> SUFFICES New' /\ InOrder' /\ Complete'
    BY <1>3 DEF ConversationInv
  <1>4. cli \in [Clients -> ClientStates] /\ cli[c] \in ClientStates
    BY DEF TypeOK
  <1>5. CASE Connect(c)
    <2>1. /\ backlog \in Seq(Clients) /\ backlog' = Append(backlog, c)
          /\ conn' = [conn EXCEPT ![c] = "open"] /\ cli' = [cli EXCEPT ![c].pc = "poll"]
          /\ cli[c].pc = "off" /\ UNCHANGED down
      BY <1>5 DEF Connect, TypeOK
    <2>2. /\ DOMAIN backlog' = DOMAIN backlog \cup {Len(backlog) + 1}
          /\ \A k \in DOMAIN backlog : backlog'[k] = backlog[k]
          /\ backlog'[Len(backlog) + 1] = c
      BY <2>1, AppendType
    <2>3. \A d \in Clients : Waits(d)' => Waits(d) \/ d = c
      BY <2>2 DEF Waits
    <2>4. ~Serves(c)
      BY <2>1 DEF VectorInv, NotYet
    <2>5. \A d \in Clients : /\ cli'[d].shown = cli[d].shown /\ cli'[d].buf = cli[d].buf
                             /\ cli'[d].half = cli[d].half
                             /\ cli'[d].pc = IF d = c THEN "poll" ELSE cli[d].pc
                             /\ conn'[d] = IF d = c THEN "open" ELSE conn[d]
      BY <1>4, <2>1 DEF TypeOK, ClientStates
    <2> QED
      BY <1>2, <2>1, <2>3, <2>4, <2>5, QuietStep
  <1>6. ASSUME UNCHANGED <<conn, backlog, down>>, cli[c].pc # "off",
               \A d \in Clients : /\ cli'[d].shown = cli[d].shown /\ cli'[d].buf = cli[d].buf
                                  /\ cli'[d].half = cli[d].half
                                  /\ d # c => cli'[d].pc = cli[d].pc,
               cli'[c].pc # "off"
        PROVE  New' /\ InOrder' /\ Complete'
    <2>1. \A d \in Clients : Waits(d)' = Waits(d)
      BY <1>6 DEF Waits
    <2> QED
      BY <1>2, <1>6, <2>1, QuietStep
  <1>7. CASE Stdin(c) \/ ClientEof(c) \/ ClientPipe(c)
    <2>1. PICK pc \in {"send", "spins", "gone"} :
             cli' = [cli EXCEPT ![c].pc = pc] /\ UNCHANGED <<conn, backlog, down>> /\ cli[c].pc # "off"
      BY <1>7 DEF Stdin, ClientEof, ClientPipe
    <2> QED
      BY <1>4, <1>6, <2>1 DEF ClientStates
  <1>8. ASSUME NEW cached \in BOOLEAN, ClientWrite(c, cached)
        PROVE  New' /\ InOrder' /\ Complete'
    BY <1>4, <1>6, <1>8 DEF ClientWrite, ClientStates
  <1>9. ASSUME UNCHANGED <<conn, backlog>>, cli'[c].pc # "off", ~Waits(c),
               Ordered(c)', Sent(c)' = Sent(c),
               \A d \in Clients \ {c} : cli'[d] = cli[d] /\ down'[d] = down[d]
        PROVE  New' /\ InOrder' /\ Complete'
    <2>1. \A d \in Clients \ {c} : Ordered(d)' /\ Sent(d)' = Sent(d)
      BY <1>2, <1>9, StillOrdered DEF ConversationInv, InOrder
    <2>2. InOrder' /\ \A d \in Clients : Sent(d)' = Sent(d)
      BY <1>9, <2>1 DEF InOrder
    <2>3. Complete'
      BY <1>2, <1>9, <2>2, CompleteStays DEF ConversationInv
    <2>4. \A d \in Clients : Waits(d)' = Waits(d)
      BY <1>9 DEF Waits
    <2>5. New'
      BY <1>9, <2>4 DEF ConversationInv, New
    <2> QED
      BY <2>2, <2>3, <2>5
  <1>10. ASSUME NEW k \in 1 .. MaxRead, ClientReadBuf(c, k)
         PROVE  New' /\ InOrder' /\ Complete'
    <2>1. Ordered(c)' /\ Sent(c)' = Sent(c)
      BY <1>10, ReadBufOrder DEF ConversationInv, InOrder
    <2>2. down[c] # <<>>
      <3>1. k \in 1 .. Len(down[c]) /\ Len(down[c]) \in Nat
        BY <1>10, ReadType, CutType DEF ClientReadBuf
      <3>2. Len(down[c]) # 0
        BY <3>1
      <3> QED
        BY <3>2
    <2>3. ~Waits(c)
      BY <2>2 DEF ConversationInv, New
    <2>4. /\ UNCHANGED <<conn, backlog>> /\ cli'[c].pc # "off"
          /\ \A d \in Clients \ {c} : cli'[d] = cli[d] /\ down'[d] = down[d]
      BY <1>4, <1>10 DEF ClientReadBuf, ClientStates, TypeOK
    <2> QED
      BY <1>9, <2>1, <2>3, <2>4
  <1>11. CASE ClientTake(c)
    <2>1. Ordered(c)' /\ Sent(c)' = Sent(c)
      BY <1>11, TakeOrder DEF ConversationInv, InOrder
    <2>2. ~Waits(c)
      BY <1>11 DEF ClientTake, ConversationInv, New
    <2>3. /\ UNCHANGED <<conn, backlog>> /\ cli'[c].pc # "off"
          /\ \A d \in Clients \ {c} : cli'[d] = cli[d] /\ down'[d] = down[d]
      BY <1>4, <1>11 DEF ClientTake, ClientStates
    <2> QED
      BY <1>9, <2>1, <2>2, <2>3
  <1>12. CASE Quit(c) \/ Kill(c)
    <2>1. /\ cli' = [cli EXCEPT ![c].pc = "gone"] /\ down' = [down EXCEPT ![c] = <<>>]
          /\ conn' = [conn EXCEPT ![c] = IF down[c] = <<>> THEN "fin" ELSE "reset"]
          /\ UNCHANGED backlog
      BY <1>12 DEF Quit, Kill, Closed
    <2>2. /\ conn'[c] # "open" /\ down'[c] = <<>> /\ cli'[c].pc = "gone"
          /\ \A d \in Clients \ {c} : conn'[d] = conn[d] /\ down'[d] = down[d]
          /\ \A d \in Clients : /\ cli'[d].shown = cli[d].shown /\ cli'[d].buf = cli[d].buf
                                /\ cli'[d].half = cli[d].half
                                /\ d # c => cli'[d].pc = cli[d].pc
      BY <1>4, <2>1 DEF TypeOK, ClientStates
    <2>3. \A d \in Clients \ {c} : Ordered(d)' /\ Sent(d)' = Sent(d)
      BY <1>2, <2>2, StillOrdered DEF ConversationInv, InOrder
    <2>4. Ordered(c)'
      <3>1. Read(c)' = Read(c) /\ Received(c)' = Received(c)
        BY <2>2 DEF Read, Received
      <3>2. Sent(c)' <= Sent(c)
        <4>1. Len(down'[c]) = 0
          BY <2>2
        <4>2. Sent(c)' = Received(c) + 0
          BY <3>1, <4>1 DEF Sent
        <4>3. Sent(c) = Received(c) + Len(down[c]) /\ Received(c) \in Nat /\ Len(down[c]) \in Nat
          BY ReadType
        <4> QED
          BY <4>2, <4>3
      <3>3. Sent(c)' \in Nat /\ Sent(c) \in Nat /\ Len(Said) \in Nat
        <4>1. Len(down'[c]) = 0
          BY <2>2
        <4> QED
          BY <3>1, <4>1, ReadType, SaidType DEF Sent
      <3>4. Ordered(c)
        BY DEF ConversationInv, InOrder
      <3>5. Sent(c)' <= 2 * Len(Said)
        BY <3>2, <3>3, <3>4 DEF Ordered
      <3>6. \A k : Nth(k)' = Nth(k)
        BY <1>2 DEF Nth, Serial
      <3> QED
        BY <1>2, <2>2, <3>1, <3>4, <3>5, <3>6 DEF Ordered
    <2>5. Complete'
      BY <1>2, <2>2, <2>3, CompleteStays DEF ConversationInv
    <2>6. New'
      <3>1. \A d \in Clients : Waits(d)' = Waits(d)
        BY <2>1 DEF Waits
      <3> QED
        BY <2>2, <3>1 DEF ConversationInv, New
    <2> QED
      BY <2>3, <2>4, <2>5, <2>6 DEF InOrder
  <1> QED
    BY <1>5, <1>7, <1>8, <1>10, <1>11, <1>12 DEF ClientNext
\* One place further, for what has been written.
LEMMA ShiftInterval ==
  ASSUME NEW W \in Nat, NEW from \in 1 .. W + 1, NEW to \in 0 .. W
  PROVE  /\ to < from => {n \in 1 .. W - 1 : n + 1 \in from .. to} = 1 .. 0
         /\ from <= to /\ from # 1 => {n \in 1 .. W - 1 : n + 1 \in from .. to} = from - 1 .. to - 1
         /\ from = 1 /\ 1 <= to => {n \in 1 .. W - 1 : n + 1 \in from .. to} = 1 .. to - 1
  <1>1. ASSUME to < from PROVE {n \in 1 .. W - 1 : n + 1 \in from .. to} = 1 .. 0
    BY <1>1
  <1>2. ASSUME from <= to, from # 1
        PROVE  {n \in 1 .. W - 1 : n + 1 \in from .. to} = from - 1 .. to - 1
    BY <1>2
  <1>3. ASSUME from = 1, 1 <= to
        PROVE  {n \in 1 .. W - 1 : n + 1 \in from .. to} = 1 .. to - 1
    BY <1>3
  <1> QED
    BY <1>1, <1>2, <1>3

LEMMA ComingTail ==
  ASSUME TypeOK, NEW d \in Clients, srv.writes # <<>>, srv'.writes = Tail(srv.writes)
  PROVE  /\ Len(srv.writes) \in Nat /\ Len(srv.writes) >= 1 /\ Len(srv'.writes) = Len(srv.writes) - 1
         /\ Coming(d)' = {n \in 1 .. Len(srv.writes) - 1 : n + 1 \in Coming(d)}
         /\ \A n \in 1 .. Len(srv.writes) - 1 : srv'.writes[n] = srv.writes[n + 1]
         /\ 1 \in Coming(d) <=> Head(srv.writes).to = d
         /\ Head(srv.writes) = srv.writes[1] /\ Head(srv.writes) \in Sends
  <1> DEFINE w == srv.writes
             v == srv'.writes
             W == Len(w)
  <1>1. w \in Seq(Sends) /\ w # <<>> /\ v = Tail(w)
    BY DEF TypeOK, ServerStates
  <1>2. Coming(d) = {n \in DOMAIN w : w[n].to = d} /\ Coming(d)' = {n \in DOMAIN v : v[n].to = d}
    BY DEF Coming
  <1> HIDE DEF w, v
  <1>3. /\ W \in Nat /\ W >= 1 /\ DOMAIN w = 1 .. W /\ Len(v) = W - 1 /\ DOMAIN v = 1 .. W - 1
        /\ \A n \in 1 .. W - 1 : v[n] = w[n + 1]
        /\ Head(w) = w[1] /\ Head(w) \in Sends
    BY <1>1
  <1>4. \A n \in 1 .. W - 1 : n + 1 \in 1 .. W
    BY <1>3
  <1>5. Coming(d)' = {n \in 1 .. W - 1 : n + 1 \in Coming(d)}
    BY <1>2, <1>3, <1>4
  <1>6. 1 \in Coming(d) <=> Head(w).to = d
    BY <1>2, <1>3
  <1> QED
    BY <1>3, <1>5, <1>6 DEF w, v

LEMMA RestTail ==
  ASSUME TypeOK, NEW d \in Clients, srv.writes # <<>>, srv'.writes = Tail(srv.writes), Said' = Said,
         Sent(d) <= 2 * Len(Said), ToBeSent(d),
         \/ Head(srv.writes).to # d /\ Sent(d)' = Sent(d)
         \/ Head(srv.writes).to = d /\ Sent(d)' = Sent(d) + 1
  PROVE  /\ ToBeSent(d)'
         /\ Head(srv.writes).to = d => /\ Sent(d) + 1 <= 2 * Len(Said)
                                       /\ Head(srv.writes).piece = Nth(Sent(d) + 1)
  <1> DEFINE W == Len(srv.writes)
             L == 2 * Len(Said)
             s == Sent(d)
  <1>1. PICK from \in 1 .. W + 1, to \in 0 .. W : Rest(d, from, to)
    BY DEF ToBeSent
  <1>2. /\ Coming(d) = from .. to /\ s + (to - from + 1) = L
        /\ \A k \in from .. to : srv.writes[k].piece = Nth(L - (to - k))
    BY <1>1 DEF Rest
  <1>3. W \in Nat /\ W >= 1 /\ s \in Nat /\ L \in Nat /\ from \in Int /\ to \in Int
    BY ComingTail, ReadType, SaidType
  <1>4. /\ Len(srv'.writes) = W - 1 /\ Coming(d)' = {n \in 1 .. W - 1 : n + 1 \in from .. to}
        /\ \A n \in 1 .. W - 1 : srv'.writes[n] = srv.writes[n + 1]
        /\ 1 \in from .. to <=> Head(srv.writes).to = d
        /\ Head(srv.writes) = srv.writes[1]
    BY <1>2, ComingTail
  <1>5. 2 * Len(Said') = L /\ \A k : Nth(k)' = Nth(k)
    BY DEF Nth, Serial
  <1>6. ASSUME NEW f \in 1 .. W, NEW t \in 0 .. W - 1, Coming(d)' = f .. t, Sent(d)' + (t - f + 1) = L,
               \A k \in f .. t : srv'.writes[k].piece = Nth(L - (t - k))
        PROVE  ToBeSent(d)'
    <2>1. f \in 1 .. Len(srv'.writes) + 1 /\ t \in 0 .. Len(srv'.writes)
      BY <1>3, <1>4
    <2>2. Rest(d, f, t)'
      BY <1>5, <1>6 DEF Rest
    <2> QED
      BY <2>1, <2>2 DEF ToBeSent
  <1> HIDE DEF W, L, s
  <1>7. s <= L
    BY DEF s, L
  <1>8. CASE to < from
    <2>1. s = L /\ ~(1 \in from .. to)
      BY <1>2, <1>3, <1>7, <1>8
    <2>2. Coming(d)' = 1 .. 0
      BY <1>3, <1>4, <1>8, ShiftInterval
    <2>3. Head(srv.writes).to # d /\ Sent(d)' = s
      BY <1>4, <2>1 DEF s
    <2>4. Sent(d)' + (0 - 1 + 1) = L /\ 1 \in 1 .. W /\ 0 \in 0 .. W - 1
      BY <1>3, <2>1, <2>3
    <2>5. \A k \in 1 .. 0 : FALSE
      OBVIOUS
    <2> QED
      BY <1>6, <2>2, <2>3, <2>4, <2>5
  <1>9. CASE from <= to /\ from # 1
    <2>1. ~(1 \in from .. to) /\ from - 1 \in 1 .. W /\ to - 1 \in 0 .. W - 1
      BY <1>3, <1>9
    <2>2. Coming(d)' = from - 1 .. to - 1
      BY <1>3, <1>4, <1>9, ShiftInterval
    <2>3. Head(srv.writes).to # d /\ Sent(d)' = s
      BY <1>4, <2>1 DEF s
    <2>4. Sent(d)' + ((to - 1) - (from - 1) + 1) = L
      BY <1>2, <1>3, <2>3
    <2>5. ASSUME NEW k \in from - 1 .. to - 1
          PROVE  srv'.writes[k].piece = Nth(L - ((to - 1) - k))
      <3>1. k + 1 \in from .. to /\ k \in 1 .. W - 1 /\ to - (k + 1) = (to - 1) - k
        BY <1>3, <1>9
      <3> QED
        BY <1>2, <1>4, <3>1
    <2> QED
      BY <1>6, <2>1, <2>2, <2>3, <2>4, <2>5
  <1>10. CASE from = 1 /\ 1 <= to
    <2>1. 1 \in from .. to /\ 1 \in 1 .. W /\ to - 1 \in 0 .. W - 1
      BY <1>3, <1>10
    <2>2. Coming(d)' = 1 .. to - 1
      BY <1>3, <1>4, <1>10, ShiftInterval
    <2>3. Head(srv.writes).to = d /\ Sent(d)' = s + 1
      BY <1>4, <2>1 DEF s
    <2>4. Sent(d)' + ((to - 1) - 1 + 1) = L /\ L - (to - 1) = s + 1 /\ s + 1 <= L
      BY <1>2, <1>3, <1>10, <2>3
    <2>5. ASSUME NEW k \in 1 .. to - 1
          PROVE  srv'.writes[k].piece = Nth(L - ((to - 1) - k))
      <3>1. k + 1 \in from .. to /\ k \in 1 .. W - 1 /\ to - (k + 1) = (to - 1) - k
        BY <1>3, <1>10
      <3> QED
        BY <1>2, <1>4, <3>1
    <2>6. Head(srv.writes).piece = Nth(s + 1)
      BY <1>2, <1>4, <2>1, <2>4
    <2> QED
      BY <1>6, <2>1, <2>2, <2>3, <2>4, <2>5, <2>6 DEF s, L
  <1> QED
    BY <1>3, <1>8, <1>9, <1>10
\* What is written to a client is the next that it has not been sent.
LEMMA WrittenOrder ==
  ASSUME TypeOK, NEW c \in Clients, Ordered(c), Said' = Said, UNCHANGED cli,
         NEW p \in Pieces, down'[c] = Append(down[c], p),
         Sent(c) + 1 <= 2 * Len(Said), p = Nth(Sent(c) + 1)
  PROVE  Ordered(c)' /\ Sent(c)' = Sent(c) + 1
  <1> DEFINE n == Len(down[c])
             r == Received(c)
  <1>1. /\ Len(down'[c]) = n + 1 /\ DOMAIN down'[c] = DOMAIN down[c] \cup {n + 1}
        /\ \A k \in DOMAIN down[c] : down'[c][k] = down[c][k]
        /\ down'[c][n + 1] = p
    BY ReadType, AppendType
  <1>2. Read(c)' = Read(c) /\ Received(c)' = r
    BY DEF Read, Received
  <1>3. Sent(c) = r + n /\ r \in Nat /\ n \in Nat
    BY ReadType
  <1>4. Sent(c)' = r + (n + 1)
    BY <1>1, <1>2 DEF Sent
  <1> HIDE DEF n, r
  <1>5. Sent(c)' = Sent(c) + 1 /\ r + (n + 1) = Sent(c) + 1
    BY <1>3, <1>4
  <1>6. \A k : Nth(k)' = Nth(k)
    BY DEF Nth, Serial
  <1>7. \A k \in DOMAIN down[c] : down[c][k] = Nth(r + k)
    BY DEF Ordered, r
  <1>8. \A k \in DOMAIN down'[c] : down'[c][k] = Nth(r + k)
    BY <1>1, <1>5, <1>7
  <1> QED
    BY <1>2, <1>5, <1>6, <1>8 DEF Ordered

\* The server writes the next piece.
LEMMA WriteConversation ==
  ASSUME TypeOK, VectorInv, ConversationInv, Write
  PROVE  ConversationInv'
  <1>1. srv \in ServerStates /\ srv.writes \in Seq(Sends)
    BY DEF TypeOK, ServerStates
  <1>2. PICK c \in Clients, p \in Pieces : c = Head(srv.writes).to /\ p = Head(srv.writes).piece
    <2>1. Head(srv.writes) \in Sends
      BY <1>1, TailType DEF Write
    <2> QED
      BY <2>1 DEF Sends
  <1>3. /\ srv.pc = "write" /\ srv.writes # <<>> /\ srv'.writes = Tail(srv.writes)
        /\ srv'.pc = "write" /\ srv'.msg = srv.msg /\ srv'.half = srv.half
        /\ UNCHANGED <<backlog, cli, socks, history>>
        /\ \/ conn[c] = "open" /\ down' = [down EXCEPT ![c] = Append(down[c], p)] /\ conn' = conn
           \/ conn[c] = "fin" /\ down' = down /\ conn' \in {conn, [conn EXCEPT ![c] = "broken"]}
    BY <1>1, <1>2 DEF Write, ServerStates
  <1>4. /\ Len(srv.writes) \in Nat /\ Len(srv.writes) >= 1 /\ Len(srv'.writes) = Len(srv.writes) - 1
        /\ \A n \in 1 .. Len(srv.writes) - 1 : srv'.writes[n] = srv.writes[n + 1]
        /\ Head(srv.writes) = srv.writes[1] /\ Head(srv.writes) \in Sends
        /\ srv'.writes \in Seq(Sends)
    <2>1. srv'.writes \in Seq(Sends)
      BY <1>1, <1>3, TailType
    <2> QED
      BY <1>1, <1>3, <2>1, TailType
  <1>5. Said' = Said /\ Alive /\ \A d \in Clients : Waits(d)' = Waits(d) /\ Serves(d)' = Serves(d)
    BY <1>3 DEF Said, Alive, Waits, Serves
  <1>6. Serves(c) /\ ~Waits(c) /\ cli[c].pc # "off"
    <2>1. 1 \in DOMAIN srv.writes
      BY <1>1, <1>4
    <2>2. Serves(c)
      BY <1>4, <1>2, <2>1 DEF ConversationInv, Addressed
    <2> QED
      BY <1>2, <2>2 DEF VectorInv, Once, NotYet
  <1>7. Idle'
    BY <1>3 DEF ConversationInv, Idle
  <1>8. \A d \in Clients \ {c} : down'[d] = down[d] /\ conn'[d] = conn[d]
    BY <1>3 DEF TypeOK
  <1>9. New'
    BY <1>3, <1>5, <1>6, <1>8 DEF ConversationInv, New
  <1>10. Addressed'
    <2>1. ASSUME NEW n \in DOMAIN srv'.writes PROVE \E k \in DOMAIN socks' : socks'[k] = srv'.writes[n].to
      <3>1. n \in 1 .. Len(srv.writes) - 1 /\ n + 1 \in DOMAIN srv.writes
        BY <1>1, <1>4
      <3>2. srv.writes[n + 1] \in Sends
        BY <1>1, <3>1, ElementType
      <3>3. srv.writes[n + 1].to \in Clients
        BY <3>2 DEF Sends
      <3>4. Serves(srv.writes[n + 1].to)
        BY <3>1 DEF ConversationInv, Addressed
      <3>5. srv'.writes[n] = srv.writes[n + 1]
        BY <1>4, <3>1
      <3> QED
        BY <1>3, <3>4, <3>5 DEF Serves
    <2> QED
      BY <2>1 DEF Addressed, Serves
  <1>11. \A d \in Clients \ {c} : Ordered(d)' /\ Sent(d)' = Sent(d)
    BY <1>3, <1>5, <1>8, StillOrdered DEF ConversationInv, InOrder
  <1>12. \A d \in Clients : Sent(d) <= 2 * Len(Said)
    BY DEF ConversationInv, InOrder, Ordered
  <1>13. ASSUME NEW d \in Clients, d # c, Serves(d), conn[d] = "open" PROVE ToBeSent(d)'
    <2>1. ToBeSent(d)
      BY <1>5, <1>13 DEF ConversationInv, Complete
    <2>2. Head(srv.writes).to # d /\ Sent(d)' = Sent(d)
      BY <1>2, <1>11, <1>13
    <2>3. srv.writes # <<>> /\ srv'.writes = Tail(srv.writes) /\ Said' = Said /\ Sent(d) <= 2 * Len(Said)
      BY <1>3, <1>5, <1>12
    <2> QED
      BY <2>1, <2>2, <2>3, RestTail
  <1>14. CASE conn[c] = "open" /\ down' = [down EXCEPT ![c] = Append(down[c], p)] /\ conn' = conn
    <2>1. ToBeSent(c)
      BY <1>2, <1>5, <1>6, <1>14 DEF ConversationInv, Complete
    <2>2. down'[c] = Append(down[c], p)
      BY <1>2, <1>14 DEF TypeOK
    <2>3. Sent(c)' = Sent(c) + 1
      <3>1. Len(down'[c]) = Len(down[c]) + 1 /\ Len(down[c]) \in Nat /\ Received(c) \in Nat
        BY <1>2, <2>2, ReadType, AppendType
      <3>2. Received(c)' = Received(c)
        BY <1>3 DEF Received, Read
      <3>3. Sent(c) = Received(c) + Len(down[c]) /\ Sent(c)' = Received(c) + Len(down'[c])
        BY <3>2 DEF Sent
      <3> QED
        BY <3>1, <3>3
    <2>4. ToBeSent(c)' /\ Sent(c) + 1 <= 2 * Len(Said) /\ p = Nth(Sent(c) + 1)
      BY <1>3, <1>2, <1>5, <1>12, <2>1, <2>3, RestTail
    <2>5. Ordered(c)'
      BY <1>3, <1>2, <1>5, <2>2, <2>4, WrittenOrder DEF ConversationInv, InOrder
    <2>6. InOrder'
      BY <1>11, <2>5 DEF InOrder
    <2>7. Complete'
      BY <1>5, <1>13, <1>14, <2>4 DEF Complete
    <2> QED
      BY <1>7, <1>9, <1>10, <2>6, <2>7 DEF ConversationInv
  <1>15. CASE conn[c] = "fin" /\ down' = down /\ conn' \in {conn, [conn EXCEPT ![c] = "broken"]}
    <2>1. conn'[c] # "open"
      BY <1>2, <1>15 DEF TypeOK
    <2>2. Ordered(c)'
      BY <1>3, <1>2, <1>5, <1>15, StillOrdered DEF ConversationInv, InOrder
    <2>3. InOrder'
      BY <1>11, <2>2 DEF InOrder
    <2>4. Complete'
      BY <1>5, <1>8, <1>13, <2>1 DEF Complete
    <2> QED
      BY <1>7, <1>9, <1>10, <2>3, <2>4 DEF ConversationInv
  <1> QED
    BY <1>3, <1>14, <1>15

\* The server has read a message, which is said to everybody that it knows.
LEMMA TakeRestConversation ==
  ASSUME TypeOK, VectorInv, ConversationInv, TakeRest
  PROVE  ConversationInv'
  <1> DEFINE m == Head(wraps[SockId].buf).msg
  <1>1. srv \in ServerStates
    BY DEF TypeOK
  <1>2. PICK N \in Nat, W \in Nat : N = Len(Said) /\ W = Len(wraps)
    BY SaidType DEF TypeOK
  <1>3. /\ srv.pc = "read" /\ srv.writes = <<>> /\ srv.msg = NoMessage
        /\ srv'.pc = "write" /\ ~srv'.half /\ srv'.msg = m /\ srv'.writes = Broadcast(m)
        /\ UNCHANGED <<conn, backlog, down, cli, socks, history>>
    BY <1>1 DEF TakeRest, Reading, ServerStates, Network, ConversationInv, Idle
  <1>4. m \in Messages
    <2>1. wraps[SockId].buf \in Seq(Pieces) /\ wraps[SockId].buf # <<>>
      BY SourceType DEF TakeRest
    <2>2. Head(wraps[SockId].buf) \in Pieces
      BY <2>1, TailType
    <2> QED
      BY <2>2 DEF Pieces
  <1> HIDE DEF m
  <1>5. Said = history /\ Said' = Append(Said, m)
    BY <1>3, <1>4, NoMessageIsNone DEF Said
  <1>6. \A d \in Clients : Ordered(d)' /\ Sent(d)' = Sent(d)
    BY <1>3, <1>4, <1>5, LongerOrdered DEF ConversationInv, InOrder
  <1>7. Said \in Seq(Messages) /\ N \in Nat /\ Said' \in Seq(Messages) /\ Len(Said') = N + 1
        /\ Said'[N + 1] = m
    <2>1. Said \in Seq(Messages) /\ N = Len(Said)
      BY <1>2, SaidType
    <2> QED
      BY <1>4, <1>5, <2>1, AppendType
  <1>8. /\ Nth(2 * (N + 1) - 1)' = [msg |-> m, part |-> 1]
        /\ Nth(2 * (N + 1))' = [msg |-> m, part |-> 2]
    <2>1. N + 1 \in 1 .. Len(Said')
      BY <1>7
    <2>2. \A k : Nth(k)' = Serial(Said')[k]
      BY DEF Nth, Serial
    <2> QED
      BY <1>7, <2>1, <2>2, SerialType
  <1>9. /\ srv'.writes \in Seq(Sends) /\ Len(srv'.writes) = 2 * W /\ W \in Nat
        /\ DOMAIN srv'.writes = 1 .. 2 * W
        /\ \A n \in 1 .. 2 * W :
               /\ srv'.writes[n].to = wraps[(n + 1) \div 2].sock
               /\ srv'.writes[n].piece = [msg |-> m, part |-> IF n % 2 = 1 THEN 1 ELSE 2]
    <2>1. /\ Broadcast(m) \in Seq(Sends) /\ Len(Broadcast(m)) = 2 * W
          /\ \A n \in 1 .. 2 * W :
                /\ Broadcast(m)[n].to = wraps[(n + 1) \div 2].sock
                /\ Broadcast(m)[n].piece = [msg |-> m, part |-> IF n % 2 = 1 THEN 1 ELSE 2]
      BY <1>4, <1>2, BroadcastType
    <2>2. DOMAIN Broadcast(m) = 1 .. 2 * W
      BY <2>1
    <2> QED
      BY <1>3, <2>1, <2>2
  <1>10. DOMAIN socks = 1 .. W /\ \A n \in 1 .. W : wraps[n].sock = socks[n]
    BY <1>2 DEF VectorInv, Parallel, TypeOK
  <1>11. \A d \in Clients : Waits(d)' = Waits(d) /\ Serves(d)' = Serves(d)
    BY <1>3 DEF Waits, Serves
  <1>12. Idle' /\ New'
    BY <1>3, <1>11 DEF Idle, New, ConversationInv
  <1>13. Addressed'
    <2>1. ASSUME NEW n \in DOMAIN srv'.writes PROVE \E k \in DOMAIN socks' : socks'[k] = srv'.writes[n].to
      <3>1. (n + 1) \div 2 \in 1 .. W
        BY <1>9, Halves
      <3> QED
        BY <1>3, <1>9, <1>10, <3>1 DEF Serves
    <2> QED
      BY <2>1 DEF Addressed, Serves
  <1>14. ASSUME NEW d \in Clients, Serves(d), conn[d] = "open" PROVE ToBeSent(d)'
    <2>1. Sent(d)' = 2 * N
      <3>1. Len(srv.writes) = 0 /\ Alive
        BY <1>3 DEF Alive
      <3>2. PICK from \in 1 .. 1, to \in 0 .. 0 : Rest(d, from, to)
        BY <1>14, <3>1 DEF ConversationInv, Complete, ToBeSent
      <3>3. from = 1 /\ to = 0
        OBVIOUS
      <3>4. Sent(d) + (0 - 1 + 1) = 2 * N
        BY <1>2, <3>2, <3>3 DEF Rest
      <3> QED
        BY <1>6, <3>4, ReadType
    <2>2. PICK n \in 1 .. W : socks[n] = d
      BY <1>10, <1>14 DEF Serves
    <2>3. n \in Nat /\ n > 0 /\ 2 * n - 1 \in 1 .. 2 * W /\ 2 * n \in 1 .. 2 * W
      BY <1>9
    <2>4. Coming(d)' = 2 * n - 1 .. 2 * n
      <3>1. Coming(d)' = {k \in 1 .. 2 * W : wraps[(k + 1) \div 2].sock = d}
        BY <1>9 DEF Coming
      <3>2. ASSUME NEW k \in 1 .. 2 * W, wraps[(k + 1) \div 2].sock = d
            PROVE  k \in 2 * n - 1 .. 2 * n
        <4>1. (k + 1) \div 2 \in 1 .. W
          BY <1>9, Halves
        <4>2. (k + 1) \div 2 = n
          BY <1>10, <2>2, <3>2, <4>1 DEF VectorInv, Once
        <4>3. k = 2 * n - 1 \/ k = 2 * n
          BY <1>9, <4>2, Halves
        <4> QED
          BY <2>3, <4>3
      <3>3. ASSUME NEW k \in 2 * n - 1 .. 2 * n
            PROVE  k \in 1 .. 2 * W /\ wraps[(k + 1) \div 2].sock = d
        <4>1. k = 2 * n - 1 \/ k = 2 * n
          BY <2>3
        <4>2. (k + 1) \div 2 = n
          BY <2>3, <4>1, HalvesOf
        <4> QED
          BY <1>10, <2>2, <2>3, <4>1, <4>2
      <3> QED
        BY <3>1, <3>2, <3>3
    <2>5. Sent(d)' + (2 * n - (2 * n - 1) + 1) = 2 * Len(Said')
      BY <1>7, <2>1, <2>3
    <2>6. ASSUME NEW k \in 2 * n - 1 .. 2 * n
          PROVE  srv'.writes[k].piece = Nth(2 * (N + 1) - (2 * n - k))'
      <3>1. k = 2 * n - 1 \/ k = 2 * n
        BY <2>3
      <3>2. CASE k = 2 * n - 1
        <4>1. k % 2 = 1 /\ 2 * (N + 1) - (2 * n - k) = 2 * (N + 1) - 1
          BY <1>7, <2>3, <3>2, HalvesOf
        <4>2. srv'.writes[k].piece = [msg |-> m, part |-> 1]
          BY <1>9, <2>3, <3>2, <4>1
        <4> QED
          BY <1>8, <4>1, <4>2
      <3>3. CASE k = 2 * n
        <4>1. k % 2 # 1 /\ 2 * (N + 1) - (2 * n - k) = 2 * (N + 1)
          BY <1>7, <2>3, <3>3, HalvesOf
        <4>2. srv'.writes[k].piece = [msg |-> m, part |-> 2]
          BY <1>9, <2>3, <3>3, <4>1
        <4> QED
          BY <1>8, <4>1, <4>2
      <3> QED
        BY <3>1, <3>2, <3>3
    <2>7. Rest(d, 2 * n - 1, 2 * n)'
      <3>1. \A k : Nth(2 * Len(Said) - (2 * n - k))' = Nth(2 * (N + 1) - (2 * n - k))'
        BY <1>7 DEF Nth, Serial
      <3> QED
        BY <2>4, <2>5, <2>6, <3>1 DEF Rest
    <2>8. 2 * n - 1 \in 1 .. Len(srv'.writes) + 1 /\ 2 * n \in 0 .. Len(srv'.writes)
      BY <1>9, <2>3
    <2> QED
      BY <2>7, <2>8 DEF ToBeSent
  <1>15. Complete'
    BY <1>3, <1>11, <1>14 DEF Complete
  <1> QED
    BY <1>6, <1>12, <1>13, <1>15 DEF ConversationInv, InOrder

LEMMA ServerConversation ==
  ASSUME TypeOK, VectorInv, ConversationInv, ServerNext
  PROVE  ConversationInv'
  <1>0. srv \in ServerStates /\ UNCHANGED cli
    BY DEF TypeOK, ServerNext, Poll, EndLoop, Skip, AcceptClient, AcceptMessage, ReadBuf, TakeLength,
           TakeRest, Bye, Spin, ReadError, Write, WritePipe, Written, Network
  <1>1. ASSUME UNCHANGED <<conn, backlog, down, history>>, srv'.msg = srv.msg, srv'.writes = srv.writes,
               srv.pc # "dead", \A d \in Clients : Serves(d)' => Serves(d),
               UNCHANGED socks \/ srv.writes = <<>>
        PROVE  New' /\ Addressed' /\ InOrder' /\ Complete'
    <2>1. Alive
      BY <1>1 DEF Alive
    <2>2. \A d \in Clients : Waits(d)' = Waits(d)
      BY <1>1 DEF Waits
    <2>3. New' /\ InOrder' /\ Complete'
      BY <1>0, <1>1, <2>1, <2>2, QuietStep
    <2>4. Addressed'
      BY <1>1 DEF ConversationInv, Addressed, Serves
    <2> QED
      BY <2>3, <2>4
  <1>2. CASE Poll \/ EndLoop \/ Skip \/ AcceptMessage \/ Spin \/ ReadError \/ WritePipe \/ TakeLength
             \/ \E k \in 1 .. MaxRead : ReadBuf(k)
    <2>1. UNCHANGED <<conn, backlog, down, history, socks>> /\ srv.pc # "dead"
      BY <1>2 DEF Poll, EndLoop, Skip, AcceptMessage, Spin, ReadError, WritePipe, TakeLength, ReadBuf,
                  At, AtEnd, Reading, Network
    <2>2. srv'.msg = srv.msg /\ srv'.writes = srv.writes
          /\ (srv'.pc \in {"poll", "loop", "read", "spins"} => srv.pc \in {"poll", "loop", "read", "spins"})
          /\ (srv'.half => srv'.pc \in {"read", "spins", "dead"})
      <3>1. CASE Poll \/ EndLoop \/ Skip
        BY <1>0, <3>1 DEF Poll, EndLoop, Skip, At, ServerStates, ConversationInv, Idle
      <3>2. CASE AcceptMessage
        BY <1>0, <3>2 DEF AcceptMessage, At, ServerStates
      <3>3. CASE Spin \/ ReadError \/ WritePipe
        BY <1>0, <3>3 DEF Spin, ReadError, WritePipe, AtEnd, Reading, ServerStates
      <3>4. CASE TakeLength \/ \E k \in 1 .. MaxRead : ReadBuf(k)
        BY <1>0, <3>4 DEF TakeLength, ReadBuf, Reading, ServerStates
      <3> QED
        BY <1>2, <3>1, <3>2, <3>3, <3>4
    <2>3. Idle'
      BY <2>2 DEF ConversationInv, Idle
    <2>4. New' /\ Addressed' /\ InOrder' /\ Complete'
      BY <1>1, <2>1, <2>2 DEF Serves
    <2> QED
      BY <2>3, <2>4 DEF ConversationInv
  <1>3. CASE Bye
    <2>1. /\ srv.pc = "read" /\ srv.writes = <<>> /\ srv.msg = NoMessage /\ ~srv.half
          /\ srv'.pc = "loop" /\ srv'.msg = srv.msg /\ srv'.writes = srv.writes /\ srv'.half = srv.half
          /\ UNCHANGED <<conn, backlog, down, history>>
      BY <1>0, <1>3 DEF Bye, AtEnd, Reading, ServerStates, ConversationInv, Idle, Network
    <2>2. Idle'
      BY <2>1 DEF Idle
    <2>3. ASSUME NEW d \in Clients, Serves(d)' PROVE Serves(d)
      <3>1. SockId \in DOMAIN socks /\ socks \in Seq(Clients) /\ socks' = SwapPop(socks, SockId)
        BY <1>3, SourceType DEF Bye, AtEnd, TypeOK
      <3>2. /\ socks' \in Seq(Clients) /\ Len(socks') = Len(socks) - 1
            /\ \A k \in 1 .. Len(socks) - 1 : socks'[k] = IF k = SockId THEN socks[Len(socks)] ELSE socks[k]
        BY <3>1, SwapPopType
      <3>3. DOMAIN socks = 1 .. Len(socks) /\ DOMAIN socks' = 1 .. Len(socks) - 1 /\ Len(socks) \in Nat
        BY <3>1, <3>2
      <3>4. PICK k \in 1 .. Len(socks) - 1 : socks'[k] = d
        BY <2>3, <3>3 DEF Serves
      <3>5. k \in DOMAIN socks /\ Len(socks) \in DOMAIN socks
        BY <3>3
      <3> QED
        BY <3>2, <3>4, <3>5 DEF Serves
    <2>4. New' /\ Addressed' /\ InOrder' /\ Complete'
      BY <1>1, <2>1, <2>3
    <2> QED
      BY <2>2, <2>4 DEF ConversationInv
  <1>4. CASE AcceptClient
    <2>1. /\ srv.pc = "loop" /\ srv.writes = <<>> /\ srv.msg = NoMessage /\ ~srv.half
          /\ srv.i = 1 /\ backlog # <<>>
      BY <1>4, AcceptorIsFirst DEF AcceptClient, At, ConversationInv, Idle, VectorInv, Place
    <2>2. PICK c \in Clients, L \in Nat : c = Head(backlog) /\ L = 2 * Len(history)
      <3>1. Head(backlog) \in Clients
        BY <2>1, TailType DEF TypeOK
      <3>2. Len(history) \in Nat
        BY DEF TypeOK
      <3> QED
        BY <3>1, <3>2
    <2>3. /\ srv'.pc = "write" /\ srv'.writes = WritesTo(c, history) /\ srv'.msg = NoMessage /\ ~srv'.half
          /\ socks' = Append(socks, c) /\ backlog' = Tail(backlog)
          /\ UNCHANGED <<conn, down, history>>
      BY <1>0, <1>4, <2>1, <2>2 DEF AcceptClient, ServerStates
    <2>4. c \in Clients /\ Waits(c) /\ ~Serves(c)
      BY <2>1, <2>2, TailType DEF TypeOK, Waits, VectorInv, Once
    <2>5. \A d \in Clients : Waits(d)' => Waits(d)
      <3>1. \A k \in DOMAIN Tail(backlog) : k + 1 \in DOMAIN backlog /\ Tail(backlog)[k] = backlog[k + 1]
        BY <2>1, TailType DEF TypeOK
      <3> QED
        BY <2>3, <3>1 DEF Waits
    <2>6. Said' = history /\ Said = history
      BY <2>1, <2>3 DEF Said
    <2>7. /\ srv'.writes \in Seq(Sends) /\ Len(srv'.writes) = L /\ DOMAIN srv'.writes = 1 .. L /\ L \in Nat
          /\ \A n \in 1 .. L : srv'.writes[n].to = c /\ srv'.writes[n].piece = Serial(history)[n]
      <3>1. history \in Seq(Messages)
        BY DEF TypeOK
      <3>2. /\ WritesTo(c, history) \in Seq(Sends) /\ Len(WritesTo(c, history)) = L
            /\ \A n \in 1 .. L : /\ WritesTo(c, history)[n].to = c
                                 /\ WritesTo(c, history)[n].piece = Serial(history)[n]
        BY <2>2, <3>1, WritesToType
      <3>3. DOMAIN WritesTo(c, history) = 1 .. L /\ L \in Nat
        BY <3>1, <3>2
      <3> QED
        BY <2>3, <3>2, <3>3
    <2>8. \A d \in Clients : Serves(d)' <=> Serves(d) \/ d = c
      BY <2>3, <2>4, AppendType DEF Serves, TypeOK
    <2>9. Idle'
      BY <2>3 DEF Idle
    <2>10. New'
      BY <1>0, <2>3, <2>5 DEF ConversationInv, New
    <2>11. Addressed'
      BY <2>4, <2>7, <2>8 DEF Addressed
    <2>12. \A d \in Clients : Ordered(d)' /\ Sent(d)' = Sent(d)
      BY <1>0, <2>3, <2>6, StillOrdered DEF ConversationInv, InOrder
    <2>13. ASSUME NEW d \in Clients, Serves(d)', conn'[d] = "open" PROVE ToBeSent(d)'
      <3>1. CASE d = c
        <4>1. Sent(c) = 0
          <5>1. Len(cli[c].shown) = 0 /\ Len(cli[c].buf) = 0 /\ Len(down[c]) = 0 /\ ~cli[c].half
            BY <2>4 DEF ConversationInv, New
          <5> QED
            BY <5>1 DEF Sent, Received, Read
        <4>2. Coming(c)' = 1 .. L
          BY <2>7 DEF Coming
        <4>3. Sent(c)' + (L - 1 + 1) = 2 * Len(Said')
          BY <2>6, <2>12, <2>2, <4>1
        <4>4. \A k \in 1 .. L : srv'.writes[k].piece = Nth(2 * Len(Said) - (L - k))'
          <5>1. \A k \in 1 .. L : 2 * Len(Said') - (L - k) = k
            BY <2>6, <2>2
          <5>2. \A k \in 1 .. L : Nth(2 * Len(Said) - (L - k))' = Serial(history)[2 * Len(Said') - (L - k)]
            BY <2>6 DEF Nth, Serial
          <5> QED
            BY <2>7, <5>1, <5>2
        <4>5. Rest(c, 1, L)'
          BY <4>2, <4>3, <4>4 DEF Rest
        <4>6. 1 \in 1 .. Len(srv'.writes) + 1 /\ L \in 0 .. Len(srv'.writes)
          BY <2>7
        <4> QED
          BY <3>1, <4>5, <4>6 DEF ToBeSent
      <3>2. CASE d # c
        <4>1. Serves(d) /\ conn[d] = "open" /\ Alive
          BY <2>1, <2>3, <2>8, <2>13, <3>2 DEF Alive
        <4>2. Len(srv.writes) = 0
          BY <2>1
        <4>3. PICK from \in 1 .. 1, to \in 0 .. 0 : Rest(d, from, to)
          BY <4>1, <4>2 DEF ConversationInv, Complete, ToBeSent
        <4>4. Sent(d)' + (0 - 1 + 1) = 2 * Len(Said')
          BY <2>6, <2>12, <4>3 DEF Rest
        <4>5. Coming(d)' = 1 .. 0
          BY <2>7, <3>2 DEF Coming
        <4>6. Rest(d, 1, 0)'
          <5>1. \A k \in 1 .. 0 : FALSE
            OBVIOUS
          <5> QED
            BY <4>4, <4>5, <5>1 DEF Rest
        <4>7. 1 \in 1 .. Len(srv'.writes) + 1 /\ 0 \in 0 .. Len(srv'.writes)
          BY <2>7
        <4> QED
          BY <4>6, <4>7 DEF ToBeSent
      <3> QED
        BY <3>1, <3>2
    <2> QED
      BY <2>9, <2>10, <2>11, <2>12, <2>13 DEF ConversationInv, InOrder, Complete
  <1>5. CASE TakeRest
    BY <1>5, TakeRestConversation
  <1>6. CASE Write
    BY <1>6, WriteConversation
  <1>7. CASE Written
    <2>1. /\ srv.pc = "write" /\ srv.writes = <<>> /\ ~srv.half
          /\ history' = IF srv.msg = NoMessage THEN history ELSE Append(history, srv.msg)
          /\ srv'.pc = "loop" /\ srv'.msg = NoMessage /\ srv'.writes = srv.writes /\ ~srv'.half
          /\ UNCHANGED <<conn, backlog, down, socks>>
      BY <1>0, <1>7 DEF Written, ServerStates, ConversationInv, Idle, Network
    <2>2. Said' = Said
      BY <2>1 DEF Said
    <2>3. \A d \in Clients : Ordered(d)' /\ Sent(d)' = Sent(d)
      BY <1>0, <2>1, <2>2, StillOrdered DEF ConversationInv, InOrder
    <2>4. \A d \in Clients : Waits(d)' = Waits(d) /\ Serves(d)' = Serves(d)
      BY <2>1 DEF Waits, Serves
    <2>5. Idle' /\ Addressed' /\ New'
      BY <1>0, <2>1, <2>4 DEF Idle, Addressed, ConversationInv, New
    <2>6. Complete'
      BY <2>1, <2>2, <2>3, <2>4, CompleteStays DEF ConversationInv, Alive
    <2> QED
      BY <2>3, <2>5, <2>6 DEF ConversationInv, InOrder
  <1> QED
    BY <1>2, <1>3, <1>4, <1>5, <1>6, <1>7 DEF ServerNext
LEMMA ConversationNext ==
  ASSUME TypeOK, VectorInv, ConversationInv, [Next]_vars
  PROVE  ConversationInv'
  <1>1. CASE ServerNext
    BY <1>1, ServerConversation
  <1>2. ASSUME NEW c \in Clients, ClientNext(c) \/ Quit(c) \/ Kill(c)
        PROVE  ConversationInv'
    BY <1>2, ClientConversation
  <1>3. CASE UNCHANGED vars
    <2>1. /\ UNCHANGED <<conn, backlog, down, history, socks, srv, cli>> /\ Said' = Said
          /\ \A d \in Clients : Waits(d)' = Waits(d) /\ Serves(d)' = Serves(d)
      BY <1>3 DEF vars, Waits, Serves, Said
    <2>2. New' /\ InOrder' /\ Complete'
      BY <2>1, QuietStep DEF Alive
    <2> QED
      BY <2>1, <2>2 DEF ConversationInv, Idle, Addressed, Serves
  <1> QED
    BY <1>1, <1>2, <1>3 DEF Next, Ends

LEMMA Invariants == Spec => [](TypeOK /\ VectorInv /\ ConversationInv)
  <1>1. Init => TypeOK /\ VectorInv /\ ConversationInv
    BY TypesInit, VectorsInit, ConversationInit
  <1>2. TypeOK /\ VectorInv /\ ConversationInv /\ [Next]_vars => (TypeOK /\ VectorInv /\ ConversationInv)'
    BY TypesNext, VectorsNext, ConversationNext
  <1> QED
    BY <1>1, <1>2, PTL DEF Spec

---------------------------------------------------------------------------
(* What the server promises.                                               *)

\* Every variable of the server and of its clients keeps its type: tcp/lib/Server.cpp,
\* apps/Client.cpp.
THEOREM ChatTypes == Spec => []TypeOK
  BY Invariants, PTL

\* However many clients come and go, the entries of pollFDs_, clientSockets_ and
\* clientWrappers_ at one place are about one client, and a client that is connected
\* has one place or waits to be accepted: Run, AcceptClient and AcceptMessage.
THEOREM VectorsAreAligned == Spec => []Aligned
  <1>1. TypeOK /\ VectorInv => Aligned
    <2> SUFFICES ASSUME TypeOK, VectorInv PROVE Aligned
      OBVIOUS
    <2>1. Reading => SockId \in DOMAIN wraps
      BY SourceType
    <2>2. \A c \in Clients : conn[c] = "open" =>
             (\E n \in DOMAIN socks : socks[n] = c) # (\E n \in DOMAIN backlog : backlog[n] = c)
      BY DEF VectorInv, Once, Waits, Serves
    <2> QED
      BY <2>1, <2>2 DEF Aligned, VectorInv, Parallel, Once
  <1> QED
    BY <1>1, Invariants, PTL

LEMMA ThreeParts ==
  ASSUME NEW S, NEW s \in Seq(S), NEW a \in Seq(S), NEW b \in Seq(S), NEW c \in Seq(S),
         Len(s) = Len(a) + Len(b) + Len(c),
         \A k \in 1 .. Len(a) : s[k] = a[k],
         \A k \in 1 .. Len(b) : s[Len(a) + k] = b[k],
         \A k \in 1 .. Len(c) : s[(Len(a) + Len(b)) + k] = c[k]
  PROVE  s = a \o b \o c
  <1> DEFINE ab == a \o b
             abc == ab \o c
  <1>1. /\ ab \in Seq(S) /\ Len(ab) = Len(a) + Len(b)
        /\ \A k \in 1 .. Len(a) + Len(b) : ab[k] = IF k <= Len(a) THEN a[k] ELSE b[k - Len(a)]
    OBVIOUS
  <1> HIDE DEF ab
  <1>2. /\ abc \in Seq(S) /\ Len(abc) = Len(ab) + Len(c)
        /\ \A k \in 1 .. Len(ab) + Len(c) : abc[k] = IF k <= Len(ab) THEN ab[k] ELSE c[k - Len(ab)]
    BY <1>1
  <1> HIDE DEF abc
  <1>3. /\ Len(a) \in Nat /\ Len(b) \in Nat /\ Len(c) \in Nat
        /\ Len(abc) = Len(s)
    BY <1>1, <1>2
  <1>4. ASSUME NEW k \in 1 .. Len(s) PROVE s[k] = abc[k]
    <2>1. CASE k \in 1 .. Len(a)
      <3>1. k <= Len(a) /\ k \in 1 .. Len(a) + Len(b) /\ k \in 1 .. Len(ab) + Len(c) /\ k <= Len(ab)
        BY <1>1, <1>3, <2>1
      <3>2. abc[k] = ab[k] /\ ab[k] = a[k]
        BY <1>1, <1>2, <3>1
      <3> QED
        BY <2>1, <3>2
    <2>2. CASE k > Len(a) /\ k <= Len(a) + Len(b)
      <3>1. k - Len(a) \in 1 .. Len(b) /\ Len(a) + (k - Len(a)) = k
        BY <1>3, <2>2
      <3>2. s[k] = b[k - Len(a)]
        BY <3>1
      <3>3. abc[k] = ab[k] /\ ab[k] = b[k - Len(a)]
        BY <1>1, <1>2, <1>3, <2>2
      <3> QED
        BY <3>2, <3>3
    <2>3. CASE k > Len(a) + Len(b)
      <3>1. k - Len(ab) \in 1 .. Len(c) /\ (Len(a) + Len(b)) + (k - Len(ab)) = k
        BY <1>1, <1>3, <2>3
      <3>2. s[k] = c[k - Len(ab)]
        BY <3>1
      <3>3. abc[k] = c[k - Len(ab)]
        BY <1>1, <1>2, <1>3, <2>3
      <3> QED
        BY <3>2, <3>3
    <2> QED
      BY <1>3, <2>1, <2>2, <2>3
  <1>5. s = abc
    <2>1. s = [k \in 1 .. Len(s) |-> s[k]] /\ abc = [k \in 1 .. Len(s) |-> abc[k]]
      BY <1>2, <1>3
    <2> QED
      BY <1>4, <2>1
  <1> QED
    BY <1>5 DEF abc, ab

LEMMA DropType ==
  ASSUME NEW S, NEW s \in Seq(S), NEW k \in 0 .. Len(s)
  PROVE  /\ Drop(s, k) \in Seq(S) /\ Len(Drop(s, k)) = Len(s) - k
         /\ \A n \in 1 .. Len(s) - k : Drop(s, k)[n] = s[k + n]
  BY DEF Drop

\* The conversation in places, as one sequence.
LEMMA ConversationOf ==
  ASSUME TypeOK, NEW c \in Clients, Ordered(c), ToBeSent(c)
  PROVE  /\ Len(Serial(Said)) >= Read(c)
         /\ SubSeq(Serial(Said), 1, 2 * Len(cli[c].shown)) = Serial(cli[c].shown)
         /\ \E from \in 1 .. Len(srv.writes) + 1, to \in 0 .. Len(srv.writes) :
                /\ Coming(c) = from .. to
                /\ Drop(Serial(Said), Read(c)) = cli[c].buf \o down[c] \o Writes(from, to)
  <1> DEFINE L == 2 * Len(Said)
             W == Len(srv.writes)
             all == Serial(Said)
             r == Read(c)
             s == Len(cli[c].shown)
             b == Len(cli[c].buf)
             d == Len(down[c])
  <1>1. /\ all \in Seq(Pieces) /\ Len(all) = L /\ DOMAIN all = 1 .. L /\ L \in Nat
        /\ \A k : Nth(k) = all[k]
    <2>1. Said \in Seq(Messages) /\ Len(Said) \in Nat
      BY SaidType
    <2>2. all \in Seq([msg : Messages, part : 1 .. 2]) /\ Len(all) = L /\ DOMAIN all = 1 .. L
      BY <2>1, SerialType
    <2>3. L \in Nat
      BY <2>1
    <2> QED
      BY <2>2, <2>3 DEF Nth, Pieces
  <1>2. /\ r \in Nat /\ Received(c) = r + b /\ Sent(c) = Received(c) + d
        /\ b \in Nat /\ d \in Nat /\ s \in Nat /\ 2 * s <= r
        /\ DOMAIN cli[c].buf = 1 .. b /\ DOMAIN down[c] = 1 .. d /\ DOMAIN cli[c].shown = 1 .. s
        /\ cli[c].buf \in Seq(Pieces) /\ down[c] \in Seq(Pieces) /\ cli[c].shown \in Seq(Messages)
        /\ Sent(c) <= L
    BY ReadType DEF Ordered
  <1>3. r <= L /\ 2 * s <= L
    <2> HIDE DEF L, r, b, d, s
    <2>1. r + b + d <= L
      BY <1>2
    <2> QED
      BY <1>1, <1>2, <2>1
  <1>4. SubSeq(all, 1, 2 * s) = Serial(cli[c].shown)
    <2> DEFINE sub == SubSeq(all, 1, 2 * s)
               ser == Serial(cli[c].shown)
    <2>1. sub = [k \in 1 .. 2 * s |-> all[k]]
      BY <1>1, <1>2, <1>3
    <2>2. ser = [k \in 1 .. 2 * s |-> ser[k]]
      BY DEF Serial
    <2>3. ASSUME NEW k \in 1 .. 2 * s PROVE all[k] = ser[k]
      <3>1. (k + 1) \div 2 \in 1 .. s /\ k \in 1 .. L
        BY <1>2, <1>3, Halves
      <3>2. cli[c].shown[(k + 1) \div 2] = Said[(k + 1) \div 2]
        BY <1>2, <3>1 DEF Ordered
      <3>3. all[k] = [msg |-> Said[(k + 1) \div 2], part |-> IF k % 2 = 1 THEN 1 ELSE 2]
        BY <3>1 DEF Serial
      <3>4. ser[k] = [msg |-> cli[c].shown[(k + 1) \div 2], part |-> IF k % 2 = 1 THEN 1 ELSE 2]
        BY DEF Serial
      <3> QED
        BY <3>2, <3>3, <3>4
    <2> HIDE DEF sub, ser, all
    <2>4. sub = ser
      BY <2>1, <2>2, <2>3
    <2> QED
      BY <2>4 DEF sub, ser
  <1>5. PICK from \in 1 .. W + 1, to \in 0 .. W : Rest(c, from, to)
    BY DEF ToBeSent
  <1>6. /\ Coming(c) = from .. to /\ Sent(c) + (to - from + 1) = L
        /\ \A k \in from .. to : srv.writes[k].piece = all[L - (to - k)]
    BY <1>1, <1>5 DEF Rest
  <1>7. srv.writes \in Seq(Sends) /\ W \in Nat /\ DOMAIN srv.writes = 1 .. W
    BY DEF TypeOK, ServerStates
  <1> HIDE DEF L, W, all, r, s, b, d
  <1> DEFINE n == to - from + 1
             tail == Writes(from, to)
  <1>8. n \in Nat /\ from \in Int /\ to \in Int
    <2>1. from \in Int /\ to \in Int
      BY <1>7
    <2>2. Sent(c) <= L /\ Sent(c) + n = L /\ Sent(c) \in Nat /\ n \in Int
      BY <1>2, <1>6, <2>1, ReadType
    <2> HIDE DEF n
    <2> QED
      BY <1>1, <2>1, <2>2
  <1>9. tail = [k \in 1 .. n |-> srv.writes[from + k - 1].piece]
    BY DEF Writes
  <1>10. ASSUME NEW k \in 1 .. n
         PROVE  /\ from + k - 1 \in from .. to /\ from + k - 1 \in DOMAIN srv.writes
                /\ srv.writes[from + k - 1].piece \in Pieces
                /\ to - (from + k - 1) = n - k
    <2>1. from + k - 1 \in from .. to /\ from + k - 1 \in 1 .. W /\ to - (from + k - 1) = n - k
      BY <1>7, <1>8
    <2>2. srv.writes[from + k - 1] \in Sends
      BY <1>7, <2>1, ElementType
    <2> QED
      BY <1>7, <2>1, <2>2 DEF Sends
  <1>11. tail \in Seq(Pieces) /\ Len(tail) = n /\ \A k \in 1 .. n : tail[k] = all[L - (n - k)]
    <2>1. \A k \in 1 .. n : tail[k] \in Pieces /\ tail[k] = all[L - (n - k)]
      BY <1>6, <1>9, <1>10
    <2>2. tail = [k \in 1 .. n |-> tail[k]]
      BY <1>9
    <2> HIDE DEF tail, n
    <2> QED
      BY <1>8, <2>1, <2>2
  <1> DEFINE rest == Drop(all, r)
  <1>12. /\ rest \in Seq(Pieces) /\ Len(rest) = L - r
         /\ \A k \in 1 .. L - r : rest[k] = all[r + k]
    <2>1. r \in 0 .. Len(all)
      BY <1>1, <1>2, <1>3
    <2> QED
      BY <1>1, <2>1, DropType
  <1>13. \A k \in 1 .. b : cli[c].buf[k] = all[r + k]
    BY <1>1, <1>2 DEF Ordered, r
  <1>14. \A k \in 1 .. d : down[c][k] = all[Received(c) + k]
    BY <1>1, <1>2 DEF Ordered
  <1> HIDE DEF rest, tail, n
  <1>15. /\ L - r = b + d + n /\ b \in Nat /\ d \in Nat /\ L - n = r + (b + d) /\ Received(c) = r + b
    BY <1>1, <1>2, <1>6, <1>8 DEF n
  <1>16. rest = cli[c].buf \o down[c] \o tail
    <2>1. ASSUME NEW k \in 1 .. b PROVE rest[k] = cli[c].buf[k]
      <3>1. k \in 1 .. L - r
        BY <1>8, <1>15
      <3> QED
        BY <1>12, <1>13, <3>1
    <2>2. ASSUME NEW k \in 1 .. d PROVE rest[b + k] = down[c][k]
      <3>1. b + k \in 1 .. L - r /\ r + (b + k) = Received(c) + k
        BY <1>2, <1>8, <1>15
      <3> QED
        BY <1>12, <1>14, <3>1
    <2>3. ASSUME NEW k \in 1 .. n PROVE rest[(b + d) + k] = tail[k]
      <3>1. (b + d) + k \in 1 .. L - r /\ r + ((b + d) + k) = L - (n - k)
        BY <1>1, <1>2, <1>8, <1>15
      <3> QED
        BY <1>11, <1>12, <3>1
    <2>4. Len(rest) = b + d + n
      BY <1>12, <1>15
    <2> QED
      <3> DEFINE x == cli[c].buf
                 y == down[c]
      <3>1. x \in Seq(Pieces) /\ y \in Seq(Pieces) /\ tail \in Seq(Pieces) /\ rest \in Seq(Pieces)
        BY <1>2, <1>11, <1>12
      <3>2. Len(x) = b /\ Len(y) = d /\ Len(tail) = n
        BY <1>11 DEF b, d
      <3>3. Len(rest) = Len(x) + Len(y) + Len(tail)
        BY <2>4, <3>2
      <3>4. /\ \A k \in 1 .. Len(x) : rest[k] = x[k]
            /\ \A k \in 1 .. Len(y) : rest[Len(x) + k] = y[k]
            /\ \A k \in 1 .. Len(tail) : rest[(Len(x) + Len(y)) + k] = tail[k]
        BY <2>1, <2>2, <2>3, <3>2
      <3> HIDE DEF x, y
      <3>5. rest = x \o y \o tail
        BY <3>1, <3>3, <3>4, ThreeParts
      <3> QED
        BY <3>5 DEF x, y
  <1>17. Len(all) >= r
    BY <1>1, <1>2, <1>3
  <1> QED
    BY <1>4, <1>5, <1>6, <1>16, <1>17 DEF all, r, s, W, rest, tail

\* Every client that is connected reads the same conversation from its first message
\* on, whatever pieces it comes in and whoever else comes and goes: AcceptClient,
\* AcceptMessage and ReadMessage.
THEOREM OneConversation == Spec => []SameConversation
  <1>1. TypeOK /\ ConversationInv => SameConversation
    <2> SUFFICES ASSUME TypeOK, ConversationInv, Alive, NEW n \in DOMAIN socks, conn[socks[n]] = "open"
                 PROVE  LET c == socks[n] IN
                        /\ Len(Serial(Said)) >= Read(c)
                        /\ SubSeq(Serial(Said), 1, 2 * Len(cli[c].shown)) = Serial(cli[c].shown)
                        /\ \E from \in 1 .. Len(srv.writes) + 1, to \in 0 .. Len(srv.writes) :
                               /\ Coming(c) = from .. to
                               /\ Drop(Serial(Said), Read(c)) = cli[c].buf \o down[c] \o Writes(from, to)
      BY DEF SameConversation
    <2> DEFINE c == socks[n]
    <2>1. c \in Clients
      BY ElementType DEF TypeOK
    <2>2. Ordered(c) /\ ToBeSent(c)
      BY <2>1 DEF ConversationInv, InOrder, Complete, Serves
    <2> HIDE DEF c
    <2> QED
      BY <2>1, <2>2, ConversationOf DEF c
  <1> QED
    BY <1>1, Invariants, PTL
---------------------------------------------------------------------------
(* What the clients say.                                                   *)

LEMMA SaidByType ==
  ASSUME TypeOK, NEW c
  PROVE  IsFiniteSet(SaidBy(c)) /\ Cardinality(SaidBy(c)) \in Nat /\ SaidBy(c) \subseteq 1 .. Len(Said)
  <1>1. IsFiniteSet(1 .. Len(Said))
    BY SaidType, FS_Interval
  <1>2. SaidBy(c) \subseteq 1 .. Len(Said)
    BY SaidType DEF SaidBy
  <1>3. IsFiniteSet(SaidBy(c))
    BY <1>1, <1>2, FS_Subset
  <1> QED
    BY <1>2, <1>3, FS_CardinalityType

LEMMA TakenType ==
  ASSUME TypeOK, NEW c \in Clients
  PROVE  Taken(c) \in Nat /\ Typed(c) \in Nat
  <1>1. Taken(c) \in Nat
    BY SaidByType DEF Taken
  <1>2. cli[c].line \in Nat \ {0} /\ cli[c].part \in 1 .. 2
    BY DEF TypeOK, ClientStates
  <1> QED
    BY <1>1, <1>2 DEF Typed

LEMMA SpeechInit == Init => SpeechInv
  <1>0. ASSUME Init PROVE DOMAIN wraps = {}
    BY <1>0 DEF Init
  <1> SUFFICES ASSUME Init, NEW c \in Clients PROVE SaidBy(c) = {} /\ Spoken(c, <<>>)
    BY <1>0 DEF SpeechInv
  <1>1. Said = <<>> /\ ~srv.half /\ up[c] = <<>> /\ cli[c].line = 1 /\ cli[c].part = 1
    BY DEF Init, Said
  <1>2. SaidBy(c) = {}
    BY <1>1 DEF SaidBy
  <1>3. Taken(c) = 0
    BY <1>1, <1>2, FS_EmptySet DEF Taken
  <1>4. Typed(c) = 0
    BY <1>1 DEF Typed
  <1>5. Len(up[c]) = 0 /\ Len(<<>>) = 0
    BY <1>1
  <1>6. Spoken(c, <<>>)
    BY <1>1, <1>3, <1>4, <1>5 DEF Spoken
  <1> QED
    BY <1>2, <1>6

\* What is taken from a client does not change with the place of the loop.
LEMMA TakenStays ==
  ASSUME Said' = Said, srv'.half = srv.half, srv.half => Source' = Source, NEW c
  PROVE  Taken(c)' = Taken(c) /\ SaidBy(c)' = SaidBy(c)
  <1>1. SaidBy(c)' = SaidBy(c)
    BY DEF SaidBy
  <1> QED
    BY <1>1 DEF Taken

\* Steps in which no piece of a client moves.
LEMMA SpeechStays ==
  ASSUME TypeOK, SpeechInv, UNCHANGED up,
         \A c \in Clients : /\ Taken(c)' = Taken(c) /\ SaidBy(c)' = SaidBy(c) /\ Typed(c)' = Typed(c)
                            /\ cli'[c].pc = "off" \/ Waits(c)' => cli[c].pc = "off" \/ Waits(c),
         \A n \in DOMAIN wraps' : \/ \E m \in DOMAIN wraps : wraps'[n] = wraps[m]
                                  \/ wraps'[n].buf = <<>> /\ Waits(wraps'[n].sock)
  PROVE  SpeechInv'
  <1> SUFFICES ASSUME NEW c \in Clients
               PROVE  /\ \A n \in DOMAIN wraps' : wraps'[n].sock = c => Spoken(c, wraps[n].buf)'
                      /\ cli'[c].pc = "off" \/ Waits(c)' => SaidBy(c)' = {} /\ Spoken(c, <<>>)'
    BY DEF SpeechInv
  <1>1. ASSUME NEW n \in DOMAIN wraps', wraps'[n].sock = c PROVE Spoken(c, wraps[n].buf)'
    <2>1. Spoken(c, wraps'[n].buf)
      BY <1>1 DEF SpeechInv
    <2> QED
      BY <2>1 DEF Spoken
  <1>2. ASSUME cli'[c].pc = "off" \/ Waits(c)' PROVE SaidBy(c)' = {} /\ Spoken(c, <<>>)'
    BY <1>2 DEF SpeechInv, Spoken
  <1> QED
    BY <1>1, <1>2

LEMMA ClientSpeech ==
  ASSUME TypeOK, VectorInv, SpeechInv, NEW c \in Clients, ClientNext(c) \/ Quit(c) \/ Kill(c)
  PROVE  SpeechInv'
  <1>1. UNCHANGED server
    BY DEF ClientNext, Connect, Stdin, ClientWrite, ClientReadBuf, ClientTake, ClientEof,
           ClientPipe, Quit, Kill, Closed
  <1>2. /\ Said' = Said /\ UNCHANGED <<wraps, srv>>
        /\ \A d \in Clients : Taken(d)' = Taken(d) /\ SaidBy(d)' = SaidBy(d)
    <2>1. Said' = Said /\ UNCHANGED <<wraps, srv>> /\ Source' = Source
      BY <1>1 DEF server, Said, Source, SockId
    <2> QED
      BY <2>1, TakenStays
  <1>3. cli \in [Clients -> ClientStates] /\ cli[c] \in ClientStates
    BY DEF TypeOK
  <1>4. ASSUME UNCHANGED up, \A d \in Clients : Typed(d)' = Typed(d),
               \A d \in Clients : cli'[d].pc = "off" \/ Waits(d)' => cli[d].pc = "off" \/ Waits(d)
        PROVE  SpeechInv'
    BY <1>2, <1>4, SpeechStays
  <1>5. CASE Connect(c)
    <2>1. /\ backlog \in Seq(Clients) /\ backlog' = Append(backlog, c) /\ cli' = [cli EXCEPT ![c].pc = "poll"]
          /\ cli[c].pc = "off" /\ UNCHANGED up
      BY <1>5 DEF Connect, TypeOK
    <2>2. \A d \in Clients : Waits(d)' => Waits(d) \/ d = c
      BY <2>1, AppendType DEF Waits
    <2>3. \A d \in Clients : Typed(d)' = Typed(d) /\ (cli'[d].pc = "off" => cli[d].pc = "off")
      BY <1>3, <2>1 DEF ClientStates, Typed
    <2> QED
      BY <1>4, <2>1, <2>2, <2>3
  <1>6. CASE ~Connect(c)
    <2>1. UNCHANGED backlog
      BY <1>6 DEF ClientNext, Stdin, ClientWrite, ClientReadBuf, ClientTake, ClientEof,
                  ClientPipe, Quit, Kill, Closed
    <2>2. \A d \in Clients : Waits(d)' = Waits(d)
      BY <2>1 DEF Waits
    <2>3. cli[c].pc # "off" /\ cli'[c].pc # "off" /\ \A d \in Clients \ {c} : cli'[d] = cli[d]
      <3>1. CASE Stdin(c) \/ ClientEof(c) \/ ClientPipe(c) \/ Quit(c) \/ Kill(c)
        BY <1>3, <3>1 DEF Stdin, ClientEof, ClientPipe, Quit, Kill, Closed, ClientStates
      <3>2. CASE \E cached \in BOOLEAN : ClientWrite(c, cached)
        BY <1>3, <3>2 DEF ClientWrite, ClientStates
      <3>3. CASE \E k \in 1 .. MaxRead : ClientReadBuf(c, k)
        BY <1>3, <3>3 DEF ClientReadBuf, ClientStates
      <3>4. CASE ClientTake(c)
        BY <1>3, <3>4 DEF ClientTake, ClientStates
      <3> QED
        BY <1>6, <3>1, <3>2, <3>3, <3>4 DEF ClientNext
    <2>4. ASSUME UNCHANGED up, cli'[c].line = cli[c].line, cli'[c].part = cli[c].part
          PROVE  SpeechInv'
      BY <1>4, <2>2, <2>3, <2>4 DEF Typed
    <2>5. CASE Stdin(c) \/ ClientEof(c) \/ ClientPipe(c) \/ Quit(c) \/ Kill(c)
      BY <1>3, <2>4, <2>5 DEF Stdin, ClientEof, ClientPipe, Quit, Kill, Closed, ClientStates
    <2>6. CASE \E k \in 1 .. MaxRead : ClientReadBuf(c, k)
      BY <1>3, <2>4, <2>6 DEF ClientReadBuf, ClientStates
    <2>7. CASE ClientTake(c)
      BY <1>3, <2>4, <2>7 DEF ClientTake, ClientStates
    <2>8. ASSUME NEW cached \in BOOLEAN, ClientWrite(c, cached)
          PROVE  SpeechInv'
      <3> DEFINE p == [msg |-> [author |-> c, line |-> cli[c].line], part |-> cli[c].part]
                 t == Typed(c)
      <3>1. /\ up' = [up EXCEPT ![c] = Append(up[c], p)] /\ cli[c].pc = "send"
            /\ cli'[c].part = 3 - cli[c].part
            /\ cli'[c].line = IF cli[c].part = 2 THEN cli[c].line + 1 ELSE cli[c].line
            /\ cli[c].line \in Nat \ {0} /\ cli[c].part \in 1 .. 2
        BY <1>3, <2>8 DEF ClientWrite, ClientStates
      <3>2. t \in Nat /\ t = 2 * (cli[c].line - 1) + cli[c].part - 1
        BY TakenType DEF Typed
      <3>3. Typed(c)' = t + 1
        <4>1. Typed(c)' = 2 * (cli'[c].line - 1) + cli'[c].part - 1
          BY DEF Typed
        <4> HIDE DEF t
        <4>2. CASE cli[c].part = 2
          BY <3>1, <3>2, <4>1, <4>2
        <4>3. CASE cli[c].part = 1
          BY <3>1, <3>2, <4>1, <4>3
        <4> QED
          BY <3>1, <4>2, <4>3
      <3>4. p = PieceOf(c, t + 1)
        <4> HIDE DEF t
        <4>1. CASE cli[c].part = 2
          <5>1. t + 1 = 2 * cli[c].line /\ cli[c].line \in Nat
            BY <3>1, <3>2, <4>1
          <5>2. ((t + 1) + 1) \div 2 = cli[c].line /\ (t + 1) % 2 # 1
            BY <5>1, HalvesOf
          <5> QED
            BY <4>1, <5>2 DEF PieceOf
        <4>2. CASE cli[c].part = 1
          <5>1. t + 1 = 2 * cli[c].line - 1 /\ cli[c].line \in Nat /\ cli[c].line > 0
            BY <3>1, <3>2, <4>2
          <5>2. ((t + 1) + 1) \div 2 = cli[c].line /\ (t + 1) % 2 = 1
            BY <5>1, HalvesOf
          <5> QED
            BY <4>2, <5>2 DEF PieceOf
        <4> QED
          BY <3>1, <4>1, <4>2
      <3>5. p \in Pieces
        BY <3>1 DEF Pieces, Messages
      <3> HIDE DEF p, t
      <3>6. /\ up[c] \in Seq(Pieces) /\ up'[c] = Append(up[c], p) /\ \A d \in Clients \ {c} : up'[d] = up[d]
        BY <3>1 DEF TypeOK
      <3>7. /\ Len(up'[c]) = Len(up[c]) + 1 /\ DOMAIN up'[c] = DOMAIN up[c] \cup {Len(up[c]) + 1}
            /\ \A k \in DOMAIN up[c] : up'[c][k] = up[c][k]
            /\ up'[c][Len(up[c]) + 1] = p /\ Len(up[c]) \in Nat
        BY <3>5, <3>6, AppendType
      <3>8. ASSUME NEW b \in Seq(Pieces), Spoken(c, b) PROVE Spoken(c, b)'
        <4>1. /\ t = Taken(c) + Len(b) + Len(up[c]) /\ Taken(c) \in Nat /\ Len(b) \in Nat
              /\ \A k \in DOMAIN b : b[k] = PieceOf(c, Taken(c) + k)
              /\ \A k \in DOMAIN up[c] : up[c][k] = PieceOf(c, Taken(c) + Len(b) + k)
          BY <3>8, TakenType DEF Spoken, t
        <4>2. t + 1 = Taken(c) + Len(b) + (Len(up[c]) + 1)
          BY <3>2, <3>7, <4>1
        <4>3. \A k \in DOMAIN up'[c] : up'[c][k] = PieceOf(c, Taken(c) + Len(b) + k)
          BY <3>4, <3>7, <4>1, <4>2
        <4> QED
          BY <1>2, <3>3, <3>7, <4>1, <4>2, <4>3 DEF Spoken
      <3>9. \A d \in Clients \ {c} : Typed(d)' = Typed(d)
        BY <2>3 DEF Typed
      <3>10. ASSUME NEW d \in Clients, NEW b \in Seq(Pieces), Spoken(d, b) PROVE Spoken(d, b)'
        <4>1. CASE d = c
          BY <3>8, <3>10, <4>1
        <4>2. CASE d # c
          BY <1>2, <3>6, <3>9, <3>10, <4>2 DEF Spoken
        <4> QED
          BY <4>1, <4>2
      <3>11. <<>> \in Seq(Pieces) /\ \A n \in DOMAIN wraps : wraps[n].buf \in Seq(Pieces)
        <4>1. \A n \in DOMAIN wraps : wraps[n] \in Wrappers
          BY ElementType DEF TypeOK
        <4> QED
          BY <4>1 DEF Wrappers
      <3>12. ASSUME NEW d \in Clients, NEW n \in DOMAIN wraps, wraps[n].sock = d
             PROVE  Spoken(d, wraps[n].buf)'
        <4> DEFINE b == wraps[n].buf
        <4>1. b \in Seq(Pieces) /\ Spoken(d, b) /\ b' = b
          BY <1>2, <3>11, <3>12 DEF SpeechInv
        <4>2. PICK rigid \in Seq(Pieces) : rigid = b
          BY <4>1
        <4>3. Spoken(d, rigid)'
          BY <3>10, <4>1, <4>2
        <4> QED
          BY <1>2, <4>2, <4>3 DEF Spoken
      <3>13. \A d \in Clients : cli'[d].pc = "off" \/ Waits(d)' => SaidBy(d)' = {} /\ Spoken(d, <<>>)'
        BY <1>2, <2>2, <2>3, <3>10, <3>11 DEF SpeechInv
      <3> QED
        BY <1>2, <3>12, <3>13 DEF SpeechInv
    <2> QED
      BY <1>6, <2>5, <2>6, <2>7, <2>8 DEF ClientNext
  <1> QED
    BY <1>5, <1>6
\* The client that is read from is in one place, and is not waiting.
LEMMA SourceIsOne ==
  ASSUME TypeOK, VectorInv, Reading
  PROVE  \E c \in Clients, s \in DOMAIN wraps :
            /\ c = Source /\ s = SockId /\ wraps[s] \in Wrappers /\ wraps[s].sock = c
            /\ \A n \in DOMAIN wraps : wraps[n].sock = c => n = s
            /\ cli[c].pc # "off" /\ ~Waits(c)
  <1>1. SockId \in DOMAIN wraps /\ SockId \in DOMAIN socks /\ Source \in Clients /\ socks[SockId] = Source
    BY SourceType
  <1>2. DOMAIN wraps = DOMAIN socks /\ \A n \in DOMAIN wraps : wraps[n].sock = socks[n]
    BY DEF VectorInv, Parallel, TypeOK
  <1>3. \A n \in DOMAIN wraps : wraps[n].sock = Source => n = SockId
    BY <1>1, <1>2 DEF VectorInv, Once
  <1>4. Serves(Source) /\ wraps[SockId].sock = Source
    BY <1>1, <1>2 DEF Serves
  <1>5. cli[Source].pc # "off" /\ ~Waits(Source)
    BY <1>1, <1>4 DEF VectorInv, Once, NotYet
  <1>6. wraps[SockId] \in Wrappers
    BY <1>1, ElementType DEF TypeOK
  <1> QED
    BY <1>1, <1>3, <1>4, <1>5, <1>6

\* A piece of the client that is read from is taken out of its buffer.
LEMMA TakenSpeech ==
  ASSUME TypeOK, VectorInv, SpeechInv, Reading, wraps[SockId].buf # <<>>,
         wraps' = [wraps EXCEPT ![SockId].buf = Tail(wraps[SockId].buf)],
         UNCHANGED <<up, cli, backlog>>,
         \A d \in Clients : IF d = Source THEN Taken(d)' = Taken(d) + 1
                            ELSE Taken(d)' = Taken(d) /\ SaidBy(d)' = SaidBy(d)
  PROVE  SpeechInv'
  <1>1. PICK c \in Clients, s \in DOMAIN wraps :
            /\ c = Source /\ s = SockId /\ wraps[s] \in Wrappers /\ wraps[s].sock = c
            /\ \A n \in DOMAIN wraps : wraps[n].sock = c => n = s
            /\ cli[c].pc # "off" /\ ~Waits(c)
    BY SourceIsOne
  <1>2. PICK b \in Seq(Pieces) : b = wraps[s].buf
    BY <1>1 DEF Wrappers
  <1>3. /\ b # <<>> /\ DOMAIN wraps' = DOMAIN wraps /\ wraps'[s] = [sock |-> c, buf |-> Tail(b)]
        /\ \A n \in DOMAIN wraps \ {s} : wraps'[n] = wraps[n]
    BY <1>1, <1>2 DEF Wrappers, TypeOK
  <1>4. \A d \in Clients : Typed(d)' = Typed(d) /\ Waits(d)' = Waits(d)
    BY DEF Typed, Waits
  <1>5. Spoken(c, Tail(b))'
    <2>1. Spoken(c, b)
      BY <1>1, <1>2 DEF SpeechInv
    <2>2. /\ Taken(c) \in Nat /\ Taken(c)' = Taken(c) + 1
          /\ Len(b) \in Nat /\ Len(up[c]) \in Nat /\ Typed(c) \in Nat
      BY <1>1, TakenType DEF TypeOK
    <2>3. /\ Len(Tail(b)) = Len(b) - 1 /\ DOMAIN up[c] = 1 .. Len(up[c])
          /\ \A k \in DOMAIN Tail(b) : k \in Int /\ k + 1 \in DOMAIN b /\ Tail(b)[k] = b[k + 1]
      BY <1>3, TailType DEF TypeOK
    <2>4. ASSUME NEW k \in DOMAIN Tail(b) PROVE Tail(b)[k] = PieceOf(c, (Taken(c) + 1) + k)
      <3>1. Tail(b)[k] = PieceOf(c, Taken(c) + (k + 1)) /\ k \in Int
        BY <2>1, <2>3 DEF Spoken
      <3>2. Taken(c) + (k + 1) = (Taken(c) + 1) + k
        BY <2>2, <3>1
      <3> QED
        BY <3>1, <3>2
    <2>5. (Taken(c) + 1) + (Len(b) - 1) = Taken(c) + Len(b)
      BY <2>2
    <2> QED
      BY <1>4, <2>1, <2>2, <2>3, <2>4, <2>5 DEF Spoken
  <1>6. ASSUME NEW d \in Clients, d # c PROVE /\ Taken(d)' = Taken(d) /\ SaidBy(d)' = SaidBy(d)
    BY <1>1, <1>6
  <1>7. ASSUME NEW d \in Clients, NEW n \in DOMAIN wraps', wraps'[n].sock = d
        PROVE  Spoken(d, wraps[n].buf)'
    <2>1. CASE n = s
      <3>1. d = c /\ wraps'[n].buf = Tail(b)
        BY <1>3, <1>7, <2>1
      <3> QED
        BY <1>5, <3>1 DEF Spoken
    <2>2. CASE n # s
      <3>1. n \in DOMAIN wraps /\ wraps[n].sock = d /\ wraps'[n] = wraps[n] /\ d # c
        BY <1>1, <1>3, <1>7, <2>2
      <3>2. Spoken(d, wraps[n].buf)
        BY <3>1 DEF SpeechInv
      <3> QED
        BY <1>4, <1>6, <3>1, <3>2 DEF Spoken
    <2> QED
      BY <2>1, <2>2
  <1>8. ASSUME NEW d \in Clients, cli'[d].pc = "off" \/ Waits(d)' PROVE SaidBy(d)' = {} /\ Spoken(d, <<>>)'
    <2>1. d # c /\ (cli[d].pc = "off" \/ Waits(d))
      BY <1>1, <1>4, <1>8
    <2>2. SaidBy(d) = {} /\ Spoken(d, <<>>)
      BY <2>1 DEF SpeechInv
    <2> QED
      BY <1>4, <1>6, <2>1, <2>2 DEF Spoken
  <1> QED
    BY <1>7, <1>8 DEF SpeechInv

\* The message that is read is the next line of its author.
LEMMA TakeRestSays ==
  ASSUME TypeOK, VectorInv, ConversationInv, SpeechInv, TakeRest
  PROVE  \E c \in Clients :
            /\ c = Source
            /\ Said' = Append(Said, [author |-> c, line |-> Cardinality(SaidBy(c)) + 1])
            /\ Len(Said) + 1 \notin SaidBy(c)
            /\ \A d \in Clients : SaidBy(d)' = IF d = c THEN SaidBy(d) \cup {Len(Said) + 1} ELSE SaidBy(d)
  <1>1. PICK c \in Clients, s \in DOMAIN wraps :
            /\ c = Source /\ s = SockId /\ wraps[s] \in Wrappers /\ wraps[s].sock = c
            /\ \A n \in DOMAIN wraps : wraps[n].sock = c => n = s
            /\ cli[c].pc # "off" /\ ~Waits(c)
    BY SourceIsOne DEF TakeRest
  <1>2. PICK b \in Seq(Pieces) : b = wraps[s].buf
    BY <1>1 DEF Wrappers
  <1>3. PICK N \in Nat : N = Cardinality(SaidBy(c))
    BY SaidByType
  <1>4. b # <<>> /\ srv.half /\ srv.msg = NoMessage /\ srv \in ServerStates
    BY <1>1, <1>2 DEF TakeRest, Reading, ConversationInv, Idle, TypeOK
  <1> DEFINE m == [author |-> c, line |-> N + 1]
  <1>5. Head(b).msg = m
    <2>1. Spoken(c, b)
      BY <1>1, <1>2 DEF SpeechInv
    <2>2. 1 \in DOMAIN b /\ Head(b) = b[1]
      BY <1>4, TailType
    <2>3. Head(b) = PieceOf(c, Taken(c) + 1)
      BY <2>1, <2>2 DEF Spoken
    <2>4. Taken(c) + 1 = 2 * (N + 1)
      BY <1>1, <1>3, <1>4 DEF Taken
    <2>5. (2 * (N + 1) + 1) \div 2 = N + 1
      BY <1>3, HalvesOf
    <2> QED
      BY <2>3, <2>4, <2>5 DEF PieceOf
  <1>6. m \in Messages /\ m # NoMessage
    <2>1. m \in Messages
      BY <1>3 DEF Messages
    <2> QED
      BY <2>1, NoMessageIsNone
  <1>7. srv'.msg = m /\ UNCHANGED history
    BY <1>1, <1>2, <1>4, <1>5 DEF TakeRest, ServerStates
  <1> HIDE DEF m
  <1>8. Said' = Append(Said, m)
    BY <1>4, <1>6, <1>7 DEF Said
  <1>9. /\ Said \in Seq(Messages) /\ DOMAIN Said' = DOMAIN Said \cup {Len(Said) + 1}
        /\ Len(Said) + 1 \notin DOMAIN Said
        /\ \A k \in DOMAIN Said : Said'[k] = Said[k]
        /\ Said'[Len(Said) + 1] = m
    BY <1>6, <1>8, SaidType, AppendType
  <1>10. Len(Said) + 1 \notin SaidBy(c)
    BY <1>9 DEF SaidBy
  <1>11. m.author = c
    BY DEF m
  <1>12. \A d \in Clients : SaidBy(d)' = IF d = c THEN SaidBy(d) \cup {Len(Said) + 1} ELSE SaidBy(d)
    <2>1. \A d : SaidBy(d)' = {k \in DOMAIN Said' : Said'[k].author = d}
      BY DEF SaidBy
    <2> QED
      BY <1>9, <1>11, <2>1 DEF SaidBy
  <1> QED
    BY <1>1, <1>3, <1>8, <1>10, <1>12 DEF m

\* What is on its way from a client comes into the server's buffer for it.
LEMMA ReadBufSpeech ==
  ASSUME TypeOK, VectorInv, SpeechInv, NEW k \in 1 .. MaxRead, ReadBuf(k)
  PROVE  SpeechInv'
  <1>1. PICK c \in Clients, s \in DOMAIN wraps :
            /\ c = Source /\ s = SockId /\ wraps[s] \in Wrappers /\ wraps[s].sock = c
            /\ \A n \in DOMAIN wraps : wraps[n].sock = c => n = s
            /\ cli[c].pc # "off" /\ ~Waits(c)
    BY SourceIsOne DEF ReadBuf
  <1>2. PICK u \in Seq(Pieces) : u = up[c]
    BY DEF TypeOK
  <1> DEFINE b == SubSeq(u, 1, k)
             v == Drop(u, k)
  <1>3. /\ wraps[s].buf = <<>> /\ k \in Upto(Len(u)) /\ up'[c] = v
        /\ DOMAIN wraps' = DOMAIN wraps /\ wraps'[s] = [sock |-> c, buf |-> b]
        /\ \A n \in DOMAIN wraps \ {s} : wraps'[n] = wraps[n]
        /\ \A d \in Clients \ {c} : up'[d] = up[d]
        /\ UNCHANGED <<backlog, cli, srv, history>>
    BY <1>1, <1>2 DEF ReadBuf, Wrappers, TypeOK
  <1>4. /\ k \in 1 .. Len(u) /\ Len(u) \in Nat /\ DOMAIN u = 1 .. Len(u)
        /\ b \in Seq(Pieces) /\ Len(b) = k /\ DOMAIN b = 1 .. k
        /\ v \in Seq(Pieces) /\ Len(v) = Len(u) - k /\ DOMAIN v = 1 .. Len(u) - k
        /\ \A n \in 1 .. k : b[n] = u[n]
        /\ \A n \in 1 .. Len(u) - k : v[n] = u[k + n]
    <2>1. /\ k \in 1 .. Len(u)
          /\ b \in Seq(Pieces) /\ Len(b) = k
          /\ v \in Seq(Pieces) /\ Len(v) = Len(u) - k
          /\ \A n \in 1 .. k : b[n] = u[n]
          /\ \A n \in 1 .. Len(u) - k : v[n] = u[k + n]
      BY <1>3, CutType
    <2> HIDE DEF b, v
    <2> QED
      BY <2>1
  <1> HIDE DEF b, v
  <1>5. Source' = Source /\ Said' = Said
    BY <1>1, <1>3 DEF Source, SockId, Said
  <1>6. \A d \in Clients : /\ Taken(d)' = Taken(d) /\ SaidBy(d)' = SaidBy(d)
                           /\ Typed(d)' = Typed(d) /\ Waits(d)' = Waits(d)
    BY <1>3, <1>5, TakenStays DEF Typed, Waits
  <1>7. /\ Taken(c) \in Nat /\ Typed(c) = Taken(c) + Len(u)
        /\ \A n \in DOMAIN u : u[n] = PieceOf(c, Taken(c) + n)
    <2>1. Spoken(c, <<>>)
      BY <1>1, <1>3 DEF SpeechInv
    <2>2. Len(<<>>) = 0 /\ Taken(c) \in Nat /\ Taken(c) + 0 = Taken(c)
      BY TakenType
    <2> QED
      BY <1>2, <2>1, <2>2 DEF Spoken
  <1>8. /\ \A n \in DOMAIN b : b[n] = PieceOf(c, Taken(c) + n)
        /\ \A n \in DOMAIN v : v[n] = PieceOf(c, Taken(c) + Len(b) + n)
        /\ Typed(c) = Taken(c) + Len(b) + Len(v)
    <2>1. ASSUME NEW n \in 1 .. k PROVE b[n] = PieceOf(c, Taken(c) + n)
      <3>1. n \in DOMAIN u
        BY <1>4
      <3> QED
        BY <1>4, <1>7, <3>1
    <2>2. ASSUME NEW n \in 1 .. Len(u) - k PROVE v[n] = PieceOf(c, Taken(c) + k + n)
      <3>1. k + n \in DOMAIN u /\ Taken(c) + (k + n) = Taken(c) + k + n
        BY <1>4, <1>7
      <3> QED
        BY <1>4, <1>7, <3>1
    <2>3. Typed(c) = Taken(c) + k + (Len(u) - k)
      BY <1>4, <1>7
    <2> QED
      BY <1>4, <2>1, <2>2, <2>3
  <1>9. ASSUME NEW d \in Clients, NEW n \in DOMAIN wraps', wraps'[n].sock = d
        PROVE  Spoken(d, wraps[n].buf)'
    <2>1. CASE n = s
      <3>1. d = c /\ wraps'[n].buf = b /\ up'[d] = v
        BY <1>3, <1>9, <2>1
      <3> QED
        BY <1>6, <1>8, <3>1 DEF Spoken
    <2>2. CASE n # s
      <3>1. n \in DOMAIN wraps /\ wraps[n].sock = d /\ wraps'[n] = wraps[n] /\ d # c /\ up'[d] = up[d]
        BY <1>1, <1>3, <1>9, <2>2
      <3>2. Spoken(d, wraps[n].buf)
        BY <3>1 DEF SpeechInv
      <3> QED
        BY <1>6, <3>1, <3>2 DEF Spoken
    <2> QED
      BY <2>1, <2>2
  <1>10. ASSUME NEW d \in Clients, cli'[d].pc = "off" \/ Waits(d)' PROVE SaidBy(d)' = {} /\ Spoken(d, <<>>)'
    <2>1. d # c /\ (cli[d].pc = "off" \/ Waits(d)) /\ up'[d] = up[d]
      BY <1>1, <1>3, <1>6, <1>10
    <2>2. SaidBy(d) = {} /\ Spoken(d, <<>>)
      BY <2>1 DEF SpeechInv
    <2> QED
      BY <1>6, <2>1, <2>2 DEF Spoken
  <1> QED
    BY <1>9, <1>10 DEF SpeechInv

LEMMA ServerSpeech ==
  ASSUME TypeOK, VectorInv, ConversationInv, SpeechInv, ServerNext
  PROVE  SpeechInv'
  <1>0. /\ srv \in ServerStates /\ UNCHANGED cli
        /\ \A d \in Clients : Typed(d)' = Typed(d)
    BY DEF TypeOK, ServerNext, Poll, EndLoop, Skip, AcceptClient, AcceptMessage, ReadBuf, TakeLength,
           TakeRest, Bye, Spin, ReadError, Write, WritePipe, Written, Network, Typed
  <1>1. ASSUME UNCHANGED up, Said' = Said, srv'.half = srv.half, srv.half => Source' = Source,
               \A d \in Clients : Waits(d)' => Waits(d),
               \A n \in DOMAIN wraps' : \/ \E m \in DOMAIN wraps : wraps'[n] = wraps[m]
                                        \/ wraps'[n].buf = <<>> /\ Waits(wraps'[n].sock)
        PROVE  SpeechInv'
    BY <1>0, <1>1, TakenStays, SpeechStays
  <1>2. CASE Poll \/ EndLoop \/ Skip \/ AcceptMessage \/ Spin \/ ReadError \/ Write \/ WritePipe \/ Written
    <2>1. UNCHANGED <<up, backlog, wraps>>
      BY <1>2 DEF Poll, EndLoop, Skip, AcceptMessage, Spin, ReadError, Write, WritePipe, Written, Network
    <2>2. srv'.half = srv.half /\ (srv.half => srv'.i = srv.i) /\ Said' = Said
      <3>1. CASE Poll \/ EndLoop \/ Skip
        BY <1>0, <3>1 DEF Poll, EndLoop, Skip, At, ServerStates, Said, ConversationInv, Idle
      <3>2. CASE AcceptMessage \/ Spin \/ ReadError \/ WritePipe
        BY <1>0, <3>2 DEF AcceptMessage, Spin, ReadError, WritePipe, ServerStates, Said
      <3>3. CASE Write
        BY <1>0, <3>3 DEF Write, ServerStates, Said
      <3>4. CASE Written
        <4>1. /\ srv'.half = srv.half /\ ~srv.half /\ srv'.msg = NoMessage
              /\ history' = IF srv.msg = NoMessage THEN history ELSE Append(history, srv.msg)
          BY <1>0, <3>4 DEF Written, ServerStates, ConversationInv, Idle
        <4> QED
          BY <4>1 DEF Said
      <3> QED
        BY <1>2, <3>1, <3>2, <3>3, <3>4
    <2>3. srv.half => Source' = Source
      BY <2>1, <2>2 DEF Source, SockId
    <2> QED
      BY <1>1, <2>1, <2>2, <2>3 DEF Waits
  <1>3. CASE AcceptClient
    <2>1. /\ srv.pc = "loop" /\ ~srv.half /\ srv.i = 1 /\ backlog # <<>>
      BY <1>3, AcceptorIsFirst DEF AcceptClient, At, ConversationInv, Idle, VectorInv, Place
    <2>2. /\ srv'.half = srv.half /\ srv'.msg = srv.msg /\ UNCHANGED <<up, history>>
          /\ wraps' = Append(wraps, [sock |-> Head(backlog), buf |-> <<>>]) /\ backlog' = Tail(backlog)
      BY <1>0, <1>3 DEF AcceptClient, ServerStates
    <2>3. Head(backlog) \in Clients /\ Waits(Head(backlog))
      BY <2>1, TailType DEF TypeOK, Waits
    <2>4. [sock |-> Head(backlog), buf |-> <<>>] \in Wrappers
      BY <2>3 DEF Wrappers
    <2>5. \A d \in Clients : Waits(d)' => Waits(d)
      <3>1. \A k \in DOMAIN Tail(backlog) : k + 1 \in DOMAIN backlog /\ Tail(backlog)[k] = backlog[k + 1]
        BY <2>1, TailType DEF TypeOK
      <3> QED
        BY <2>2, <3>1 DEF Waits
    <2>6. ASSUME NEW n \in DOMAIN wraps'
          PROVE  \/ \E m \in DOMAIN wraps : wraps'[n] = wraps[m]
                 \/ wraps'[n].buf = <<>> /\ Waits(wraps'[n].sock)
      <3>1. /\ DOMAIN wraps' = DOMAIN wraps \cup {Len(wraps) + 1}
            /\ \A k \in DOMAIN wraps : wraps'[k] = wraps[k]
            /\ wraps'[Len(wraps) + 1] = [sock |-> Head(backlog), buf |-> <<>>]
        BY <2>2, <2>4, AppendType DEF TypeOK
      <3> QED
        BY <2>3, <3>1
    <2>7. Said' = Said
      BY <2>2 DEF Said
    <2> QED
      BY <1>1, <2>1, <2>2, <2>5, <2>6, <2>7
  <1>4. CASE Bye
    <2>1. /\ ~srv.half /\ srv'.half = srv.half /\ srv'.msg = srv.msg /\ UNCHANGED <<up, history, backlog>>
          /\ wraps' = SwapPop(wraps, SockId) /\ SockId \in DOMAIN wraps
      BY <1>0, <1>4, SourceType DEF Bye, AtEnd, ServerStates, Network
    <2>2. wraps \in Seq(Wrappers) /\ Len(wraps) \in Nat /\ DOMAIN wraps = 1 .. Len(wraps)
      BY DEF TypeOK
    <2>3. /\ wraps' \in Seq(Wrappers) /\ Len(wraps') = Len(wraps) - 1
           /\ \A k \in 1 .. Len(wraps) - 1 : wraps'[k] = IF k = SockId THEN wraps[Len(wraps)] ELSE wraps[k]
      BY <2>1, <2>2, SwapPopType
    <2>4. ASSUME NEW n \in DOMAIN wraps' PROVE \E m \in DOMAIN wraps : wraps'[n] = wraps[m]
      <3>1. n \in 1 .. Len(wraps) - 1 /\ n \in DOMAIN wraps /\ Len(wraps) \in DOMAIN wraps
        BY <2>2, <2>3
      <3> QED
        BY <2>3, <3>1
    <2> QED
      BY <1>1, <2>1, <2>4 DEF Said, Waits
  <1>5. CASE TakeLength
    <2>1. /\ Reading /\ wraps[SockId].buf # <<>> /\ ~srv.half /\ srv'.half /\ srv'.msg = srv.msg
          /\ wraps' = [wraps EXCEPT ![SockId].buf = Tail(wraps[SockId].buf)]
          /\ UNCHANGED <<up, cli, backlog, history>> /\ srv'.i = srv.i
      BY <1>0, <1>5 DEF TakeLength, ServerStates, Network
    <2>2. Source' = Source /\ Said' = Said
      <3>1. SockId \in DOMAIN wraps /\ wraps[SockId] \in Wrappers /\ wraps \in Seq(Wrappers)
        BY <2>1, SourceType, ElementType DEF TypeOK
      <3>2. wraps'[SockId].sock = wraps[SockId].sock
        BY <2>1, <3>1 DEF Wrappers
      <3> QED
        BY <2>1, <3>2 DEF Said, Source, SockId
    <2>3. \A d \in Clients : /\ SaidBy(d)' = SaidBy(d)
                             /\ Taken(d)' = IF d = Source THEN Taken(d) + 1 ELSE Taken(d)
      <3>1. \A d : SaidBy(d)' = SaidBy(d)
        BY <2>2 DEF SaidBy
      <3>2. \A d : Cardinality(SaidBy(d)) \in Nat
        BY SaidByType
      <3> QED
        BY <2>1, <2>2, <3>1, <3>2 DEF Taken
    <2> QED
      BY <2>1, <2>3, TakenSpeech
  <1>6. CASE TakeRest
    <2>1. /\ Reading /\ wraps[SockId].buf # <<>> /\ srv.half /\ ~srv'.half
          /\ wraps' = [wraps EXCEPT ![SockId].buf = Tail(wraps[SockId].buf)]
          /\ UNCHANGED <<up, cli, backlog>>
      BY <1>0, <1>6 DEF TakeRest, ServerStates, Network
    <2>2. PICK c \in Clients :
            /\ c = Source /\ Len(Said) + 1 \notin SaidBy(c)
            /\ \A d \in Clients : SaidBy(d)' = IF d = c THEN SaidBy(d) \cup {Len(Said) + 1} ELSE SaidBy(d)
      BY <1>6, TakeRestSays
    <2>3. ASSUME NEW d \in Clients
          PROVE  IF d = Source THEN Taken(d)' = Taken(d) + 1
                 ELSE Taken(d)' = Taken(d) /\ SaidBy(d)' = SaidBy(d)
      <3>1. IsFiniteSet(SaidBy(d)) /\ Cardinality(SaidBy(d)) \in Nat
        BY SaidByType
      <3>2. Taken(d)' = 2 * Cardinality(SaidBy(d)') + 0
        BY <2>1 DEF Taken
      <3>3. CASE d = c
        <4>1. Cardinality(SaidBy(d)') = Cardinality(SaidBy(d)) + 1
          BY <2>2, <3>1, <3>3, FS_AddElement
        <4>2. Taken(d) = 2 * Cardinality(SaidBy(d)) + 1
          BY <2>1, <2>2, <3>3 DEF Taken
        <4> QED
          BY <2>2, <3>1, <3>2, <3>3, <4>1, <4>2
      <3>4. CASE d # c
        <4>1. SaidBy(d)' = SaidBy(d)
          BY <2>2, <3>4
        <4>2. Taken(d) = 2 * Cardinality(SaidBy(d))
          BY <2>1, <2>2, <3>1, <3>4 DEF Taken
        <4> QED
          BY <2>2, <3>1, <3>2, <3>4, <4>1, <4>2
      <3> QED
        BY <3>3, <3>4
    <2> QED
      BY <2>1, <2>3, TakenSpeech
  <1>7. ASSUME NEW k \in 1 .. MaxRead, ReadBuf(k)
        PROVE  SpeechInv'
    BY <1>7, ReadBufSpeech
  <1> QED
    BY <1>2, <1>3, <1>4, <1>5, <1>6, <1>7 DEF ServerNext
LEMMA SpeechNext ==
  ASSUME TypeOK, VectorInv, ConversationInv, SpeechInv, [Next]_vars
  PROVE  SpeechInv'
  <1>1. CASE ServerNext
    BY <1>1, ServerSpeech
  <1>2. CASE Ends \/ \E c \in Clients : ClientNext(c)
    <2>1. PICK c \in Clients : ClientNext(c) \/ Quit(c) \/ Kill(c)
      BY <1>2 DEF Ends
    <2> QED
      BY <2>1, ClientSpeech
  <1>3. CASE UNCHANGED vars
    <2>1. UNCHANGED <<up, cli, wraps, backlog, srv, history>>
      BY <1>3 DEF vars, server, Network
    <2>2. Said' = Said /\ Source' = Source
      BY <2>1 DEF Said, Source, SockId
    <2>3. \A d \in Clients : /\ Taken(d)' = Taken(d) /\ SaidBy(d)' = SaidBy(d) /\ Typed(d)' = Typed(d)
                             /\ cli'[d].pc = "off" \/ Waits(d)' => cli[d].pc = "off" \/ Waits(d)
      BY <2>1, <2>2, TakenStays DEF Typed, Waits
    <2> QED
      BY <2>1, <2>3, SpeechStays
  <1> QED
    BY <1>1, <1>2, <1>3 DEF Next

---------------------------------------------------------------------------
(* The chat is the log.                                                    *)

\* A server's step shows nobody anything, and says something only when a message is
\* complete.
LEMMA ServerIsLog ==
  ASSUME TypeOK, VectorInv, ConversationInv, SpeechInv, ServerNext
  PROVE  \/ Log!Next
         \/ UNCHANGED Log!vars
  <1>1. [c \in Clients |-> cli'[c].shown] = [c \in Clients |-> cli[c].shown]
    <2>1. UNCHANGED cli
      BY DEF ServerNext, Poll, EndLoop, Skip, AcceptClient, AcceptMessage, Spin, ReadError, Bye,
             ReadBuf, TakeLength, TakeRest, Write, WritePipe, Written, Network
    <2> QED
      BY <2>1
  <1>2. CASE TakeRest
    <2>1. PICK c \in Clients :
            Said' = Append(Said, [author |-> c, line |-> Cardinality(SaidBy(c)) + 1])
      BY <1>2, TakeRestSays
    <2>2. Log!SaidBy(c) = SaidBy(c)
      BY DEF Log!SaidBy, SaidBy
    <2>3. Log!Cardinality(SaidBy(c)) = Cardinality(SaidBy(c))
      BY DEF Log!Cardinality, Cardinality
    <2>4. Log!Say(c)
      BY <1>1, <2>1, <2>2, <2>3 DEF Log!Say
    <2> QED
      BY <2>4 DEF Log!Next
  <1>3. CASE ~TakeRest
    <2>0. srv \in ServerStates
      BY DEF TypeOK
    <2>1. Said' = Said
      <3>1. CASE Poll \/ EndLoop \/ Skip
        BY <2>0, <3>1 DEF Poll, EndLoop, Skip, At, ServerStates, Said
      <3>2. CASE AcceptClient \/ AcceptMessage \/ Spin \/ ReadError \/ WritePipe \/ Write
        BY <2>0, <3>2 DEF AcceptClient, AcceptMessage, Spin, ReadError, WritePipe, Write, ServerStates, Said
      <3>3. CASE Bye \/ TakeLength
        BY <2>0, <3>3 DEF Bye, AtEnd, TakeLength, ServerStates, Said
      <3>4. ASSUME NEW k \in 1 .. MaxRead, ReadBuf(k) PROVE Said' = Said
        BY <2>0, <3>4 DEF ReadBuf, ServerStates, Said
      <3>5. CASE Written
        <4>1. /\ srv'.msg = NoMessage
              /\ history' = IF srv.msg = NoMessage THEN history ELSE Append(history, srv.msg)
          BY <2>0, <3>5 DEF Written, ServerStates, ConversationInv, Idle
        <4> QED
          BY <4>1 DEF Said
      <3> QED
        BY <1>3, <3>1, <3>2, <3>3, <3>4, <3>5 DEF ServerNext
    <2> QED
      BY <1>1, <2>1 DEF Log!vars
  <1> QED
    BY <1>2, <1>3

\* A client's step says nothing, and shows it the next message when that is complete.
LEMMA ClientIsLog ==
  ASSUME TypeOK, ConversationInv, NEW c \in Clients, ClientNext(c) \/ Quit(c) \/ Kill(c)
  PROVE  \/ Log!Next
         \/ UNCHANGED Log!vars
  <1> DEFINE shown == [d \in Clients |-> cli[d].shown]
  <1>1. Said' = Said
    BY DEF ClientNext, Connect, Stdin, ClientWrite, ClientReadBuf, ClientTake, ClientEof,
           ClientPipe, Quit, Kill, Closed, server, Said
  <1>2. \A d \in Clients : d # c => cli'[d].shown = cli[d].shown
    BY DEF TypeOK, ClientNext, Connect, Stdin, ClientWrite, ClientReadBuf, ClientTake, ClientEof,
           ClientPipe, Quit, Kill, Closed
  <1>3. CASE cli'[c].shown = cli[c].shown
    <2>1. shown' = shown
      BY <1>2, <1>3
    <2> QED
      BY <1>1, <2>1 DEF Log!vars
  <1>4. CASE cli'[c].shown # cli[c].shown
    <2>1. ClientTake(c)
      <3>1. cli[c] \in ClientStates /\ cli \in [Clients -> ClientStates]
        BY DEF TypeOK
      <3> QED
        BY <1>4, <3>1 DEF ClientNext, Connect, Stdin, ClientWrite, ClientReadBuf, ClientEof,
               ClientPipe, Quit, Kill, Closed, ClientStates
    <2>2. /\ Len(cli[c].shown) + 1 \in 1 .. Len(Said)
          /\ cli'[c].shown = Append(cli[c].shown, Said[Len(cli[c].shown) + 1])
      BY <1>4, <2>1, TakeOrder DEF ConversationInv, InOrder
    <2>3. Len(cli[c].shown) < Len(Said)
      BY <2>2, ReadType, SaidType
    <2>4. shown' = [shown EXCEPT ![c] = Append(@, Said[Len(@) + 1])]
      BY <1>2, <2>2
    <2>5. Log!Hear(c)
      BY <1>1, <2>3, <2>4 DEF Log!Hear
    <2> QED
      BY <2>5 DEF Log!Next
  <1> QED
    BY <1>3, <1>4

\* SaidAndHeard, for any number of clients, whatever they type, whatever pieces it comes
\* in and whoever leaves: TakeRest, of ReadMessage and the broadcast, is one who says
\* something, and OnServerRead of the client's one who hears it.
THEOREM ChatIsLog == Spec => SaidAndHeard
  <1>1. Init => Log!Init
    BY DEF Init, Log!Init, Said
  <1>2. TypeOK /\ VectorInv /\ ConversationInv /\ SpeechInv /\ [Next]_vars => [Log!Next]_(Log!vars)
    <2> SUFFICES ASSUME TypeOK, VectorInv, ConversationInv, SpeechInv, [Next]_vars
                 PROVE  Log!Next \/ UNCHANGED Log!vars
      OBVIOUS
    <2>1. CASE ServerNext
      BY <2>1, ServerIsLog
    <2>2. CASE Ends \/ \E c \in Clients : ClientNext(c)
      <3>1. PICK c \in Clients : ClientNext(c) \/ Quit(c) \/ Kill(c)
        BY <2>2 DEF Ends
      <3> QED
        BY <3>1, ClientIsLog
    <2>3. CASE UNCHANGED vars
      BY <2>3 DEF vars, server, Log!vars, Said
    <2> QED
      BY <2>1, <2>2, <2>3 DEF Next
  <1>3. Spec => []SpeechInv
    BY SpeechInit, SpeechNext, Invariants, PTL DEF Spec
  <1> QED
    BY <1>1, <1>2, <1>3, Invariants, PTL DEF Spec, SaidAndHeard, Log!Spec
=============================================================================
