---------------------------- MODULE TftpProofs ----------------------------
(***************************************************************************)
(* Proofs about Tftp, for any clients, files, sizes and numbers of faults: *)
(* its types, the server's rounds, its files, and Read and Write, which    *)
(* implement FileTransfer whatever the network does.                       *)
(***************************************************************************)
EXTENDS TftpTransfers, SequenceFacts

---------------------------------------------------------------------------
(* The operators on packets, streams and datagrams.                        *)

LEMMA IdRangeType == IdRange \in Nat /\ IdRange > 16
  BY DEF IdRange

LEMMA Remainder ==
  ASSUME NEW n \in Nat, NEW r \in Nat, r > 0
  PROVE  n % r \in 0 .. r - 1
  BY SMT

LEMMA WireIdNat ==
  ASSUME NEW n \in Nat
  PROVE  WireId(n) \in Nat /\ WireId(n) <= n
  BY SMT DEF WireId

\* The number that arrives is never above the number sent.
LEMMA WireIdBound ==
  ASSUME NEW id \in Ids
  PROVE  WireId(id) \in Ids /\ WireId(id) <= id
  <1>1. id \in Nat
    BY IdRangeType DEF Ids
  <1>2. WireId(id) \in Nat /\ WireId(id) <= id
    BY <1>1, WireIdNat
  <1> QED
    BY <1>1, <1>2, IdRangeType DEF Ids

LEMMA NextIdType ==
  ASSUME NEW id \in Ids
  PROVE  NextId(id) \in Ids
  <1>1. id + 1 \in Nat
    BY IdRangeType DEF Ids
  <1> QED
    BY <1>1, Remainder, IdRangeType DEF NextId, Ids

LEMMA SmallRemainder ==
  ASSUME NEW n \in Nat, NEW r \in Nat, n < r
  PROVE  n % r = n
  BY SMT

LEMMA NextIdSmall ==
  ASSUME NEW n \in Nat, n <= 16
  PROVE  NextId(n) = n + 1 /\ n % IdRange = n /\ n \in Ids
  <1>1. n + 1 \in Nat /\ n < IdRange /\ n + 1 <= IdRange
    BY IdRangeType
  <1>2. n % IdRange = n /\ n \in Ids
    BY <1>1, SmallRemainder, IdRangeType DEF Ids
  <1>3. n + 1 < IdRange
    BY DEF IdRange
  <1> QED
    BY <1>1, <1>2, <1>3, SmallRemainder, IdRangeType DEF NextId

LEMMA WireIdFixed ==
  ASSUME NEW n \in Nat, n <= 16, WireId(n) = n
  PROVE  n <= 15
  BY SMT DEF WireId

LEMMA ShortBlock ==
  ASSUME NEW src \in Sources, NEW k \in Nat, src.ok
  PROVE  /\ Length(src, k) < BlockSize => k >= src.full + 1
         /\ ~(Length(src, k) < BlockSize) => k <= src.full
  <1>1. /\ BlockSize \in Nat /\ src.tail \in 0 .. BlockSize - 1
        /\ src.full \in Nat /\ BlockSize > 0
    BY SizesAssumption DEF Sources
  <1> QED
    BY <1>1 DEF Length

LEMMA LengthType ==
  ASSUME NEW src \in Sources, NEW k \in Nat
  PROVE  Length(src, k) \in 0 .. BlockSize
  <1>1. BlockSize \in Nat /\ src.tail \in 0 .. BlockSize - 1 /\ src.full \in Nat /\ src.ok \in BOOLEAN
    BY SizesAssumption DEF Sources
  <1> QED
    BY <1>1 DEF Length

LEMMA FileChunkType ==
  ASSUME NEW f \in Files, NEW k \in Nat
  PROVE  FileChunk(f, k) \in Chunks
  <1>1. FileSrc[f] \in Sources
    BY WorkAssumption
  <1> QED
    BY <1>1, LengthType DEF FileChunk, Chunk, Chunks

LEMMA InputChunkType ==
  ASSUME NEW c \in Clients, NEW k \in Nat
  PROVE  InputChunk(c, k) \in Chunks
  <1>1. Input[c] \in Sources
    BY WorkAssumption
  <1> QED
    BY <1>1, LengthType DEF InputChunk, Chunk, Chunks

LEMMA WirePackets ==
  ASSUME NEW pkt \in Packets
  PROVE  Wire(pkt) \in Packets
  <1>1. CASE pkt \in DataPackets(Chunks)
    BY <1>1, WireIdBound DEF DataPackets, Wire, Packets
  <1>2. CASE pkt \in AckPackets
    BY <1>2, WireIdBound DEF AckPackets, Wire, Packets
  <1>3. CASE pkt \in RequestPackets(Files, {"octet", "netascii"})
    BY <1>3 DEF RequestPackets, Wire
  <1>4. CASE pkt \in ErrorPackets \cup {Garbled}
    BY <1>4 DEF ErrorPackets, Garbled, Wire
  <1> QED
    BY <1>1, <1>2, <1>3, <1>4 DEF Packets

LEMMA DatagramType ==
  ASSUME NEW c \in Clients, NEW port \in ServerPorts, NEW pkts \in SUBSET Packets
  PROVE  Up(c, port, pkts) \subseteq Datagrams /\ Down(c, port, pkts) \subseteq Datagrams
  BY WirePackets DEF Up, Down, Datagram, Datagrams

LEMMA PacketTypes ==
  /\ \A f \in Files, m \in {"octet", "netascii"}, op \in {"RRQ", "WRQ"} : Request(op, f, m) \in Packets
  /\ \A id \in Ids, ch \in Chunks : Data(id, ch) \in Packets
  /\ \A id \in Ids : Ack(id) \in Packets
  /\ \A code \in ErrorCodes : Error(code) \in Packets
  /\ Garbled \in Packets
  BY DEF Packets, RequestPackets, DataPackets, AckPackets, ErrorPackets, Request, Data, Ack, Error

LEMMA PacketFields ==
  ASSUME NEW pkt \in Packets
  PROVE  /\ pkt.op = "DATA" => pkt.id \in Ids /\ pkt.chunk \in Chunks
         /\ pkt.op = "ACK" => pkt.id \in Ids
         /\ IsRequest(pkt) => pkt.file \in Files /\ pkt.mode \in {"octet", "netascii"}
         /\ pkt.op = "GARBLED" <=> pkt = Garbled
         /\ pkt.op \in {"RRQ", "WRQ", "DATA", "ACK", "ERROR", "GARBLED"}
  BY DEF Packets, RequestPackets, DataPackets, AckPackets, ErrorPackets, Garbled, IsRequest

\* The datagrams a step sends.
LEMMA SentFields ==
  ASSUME NEW c \in Clients, NEW port, NEW pkts
  PROVE  /\ \A e \in Up(c, port, pkts) : /\ e.dir = "up" /\ e.c = c /\ e.port = port
                                        /\ \E q \in pkts : e.pkt = Wire(q)
         /\ \A e \in Down(c, port, pkts) : /\ e.dir = "down" /\ e.c = c /\ e.port = port
                                          /\ \E q \in pkts : e.pkt = Wire(q)
  BY DEF Up, Down, Datagram

LEMMA WireOp ==
  ASSUME NEW q \in Packets
  PROVE  Wire(q).op = q.op /\ (IsRequest(Wire(q)) <=> IsRequest(q))
  BY DEF Wire, IsRequest, Packets, DataPackets, AckPackets, RequestPackets, ErrorPackets, Garbled

---------------------------------------------------------------------------
(* What handling a packet returns.                                         *)

LEMMA HandleAckType ==
  ASSUME NEW x \in Transfers
  PROVE  HandleAck(x).x \in Transfers /\ HandleAck(x).send \subseteq Packets
  <1> DEFINE y == [x EXCEPT !.id = NextId(@)]
  <1>1. y \in Transfers /\ y.id \in Ids
    BY NextIdType DEF Transfers
  <1>2. CASE Eof(x)
    BY <1>1, <1>2 DEF HandleAck, Ended, Transfers
  <1>3. CASE ~Eof(x)
    <2>1. y.pos + 1 \in Nat /\ x.pos = y.pos /\ x.file \in Files
      BY DEF Transfers
    <2>2. [y EXCEPT !.pos = @ + 1] \in Transfers
      BY <1>1, <2>1 DEF Transfers
    <2>3. Data(y.id, FileChunk(x.file, x.pos + 1)) \in Packets
      BY <1>1, <2>1, FileChunkType, PacketTypes
    <2> QED
      BY <1>3, <2>2, <2>3 DEF HandleAck, Handled, Transfers
  <1> QED
    BY <1>2, <1>3

LEMMA HandleDataType ==
  ASSUME NEW x \in Transfers, NEW pkt \in Packets, IsRequest(pkt) \/ pkt.op = "DATA"
  PROVE  HandleData(x, pkt).x \in Transfers /\ HandleData(x, pkt).send \subseteq Packets
  <1> DEFINE chunks == IF IsRequest(pkt) THEN <<>> ELSE <<pkt.chunk>>
             y      == [x EXCEPT !.id = NextId(@), !.got = @ \o chunks]
  <1>1. chunks \in Seq(Chunks)
    BY PacketFields
  <1>2. x.got \o chunks \in Seq(Chunks)
    BY <1>1 DEF Transfers
  <1>3. y \in Transfers
    BY <1>2, NextIdType DEF Transfers
  <1>4. Ack(x.id) \in Packets
    BY PacketTypes DEF Transfers
  <1> QED
    BY <1>3, <1>4 DEF HandleData, Handled, Ended, Transfers

LEMMA HandlePacketType ==
  ASSUME NEW x \in Transfers, NEW pkt \in Packets
  PROVE  HandlePacket(x, pkt).x \in Transfers /\ HandlePacket(x, pkt).send \subseteq Packets
  <1>1. /\ Illegal \in Packets /\ Error("FILE_NOT_FOUND") \in Packets
        /\ AnswerError(x, pkt) \subseteq Packets
    BY PacketTypes DEF Illegal, ErrorCodes, AnswerError
  <1>2. \A pkts \in SUBSET Packets :
           /\ Ended(x, "failed", pkts).x \in Transfers /\ Ended(x, "failed", pkts).send \subseteq Packets
           /\ Handled(x, pkts).x \in Transfers /\ Handled(x, pkts).send \subseteq Packets
    BY DEF Ended, Handled, Transfers
  <1>3. CASE pkt = Garbled \/ pkt.op = "ERROR" \/ AnswerError(x, pkt) # {} \/ VisitedId(pkt) # x.id
    BY <1>1, <1>2, <1>3 DEF HandlePacket
  <1>4. CASE ~(pkt = Garbled \/ pkt.op = "ERROR" \/ AnswerError(x, pkt) # {} \/ VisitedId(pkt) # x.id)
    <2>1. CASE x.kind = "read"
      BY <1>4, <2>1, HandleAckType DEF HandlePacket
    <2>2. CASE x.kind # "read"
      <3>1. IsRequest(pkt) \/ pkt.op = "DATA"
        BY <1>4, <2>2, PacketFields DEF AnswerError, IsRequest
      <3> QED
        BY <1>4, <2>2, <3>1, HandleDataType DEF HandlePacket
    <2> QED
      BY <2>1, <2>2
  <1> QED
    BY <1>3, <1>4

\* Handled and Ended change two fields only, and no transfer is late after them.
LEMMA HandledFields ==
  ASSUME NEW x \in Transfers, NEW pkts, NEW st
  PROVE  /\ Ended(x, st, pkts).send = pkts /\ Handled(x, pkts).send = pkts
         /\ Ended(x, st, pkts).x.st = st /\ Handled(x, pkts).x.st = x.st
         /\ ~Ended(x, st, pkts).x.late /\ ~Handled(x, pkts).x.late
         /\ LET y == Ended(x, st, pkts).x
            IN  /\ y.kind = x.kind /\ y.file = x.file /\ y.peer = x.peer /\ y.mode = x.mode
                /\ y.id = x.id /\ y.pos = x.pos /\ y.got = x.got
         /\ LET y == Handled(x, pkts).x
            IN  /\ y.kind = x.kind /\ y.file = x.file /\ y.peer = x.peer /\ y.mode = x.mode
                /\ y.id = x.id /\ y.pos = x.pos /\ y.got = x.got
  BY DEF Ended, Handled, Transfers

LEMMA HandleAckFields ==
  ASSUME NEW x \in Transfers
  PROVE  LET y == HandleAck(x).x
             s == HandleAck(x).send
         IN  /\ y.kind = x.kind /\ y.file = x.file /\ y.peer = x.peer /\ y.mode = x.mode
             /\ y.got = x.got /\ y.id = NextId(x.id) /\ ~y.late
             /\ \/ y.pos = x.pos /\ y.st = "over" /\ s = {}
                \/ /\ y.pos = x.pos + 1 /\ y.st = x.st
                   /\ s = {Data(y.id, FileChunk(x.file, y.pos))}
  <1> DEFINE y == [x EXCEPT !.id = NextId(@)]
             z == [y EXCEPT !.pos = @ + 1]
  <1>1. y \in Transfers
    BY NextIdType DEF Transfers
  <1>2. y.pos + 1 \in Nat
    BY <1>1 DEF Transfers
  <1>3. z \in Transfers
    BY <1>1, <1>2 DEF Transfers
  <1>4. /\ y.kind = x.kind /\ y.file = x.file /\ y.peer = x.peer /\ y.mode = x.mode
        /\ y.id = NextId(x.id) /\ y.pos = x.pos /\ y.st = x.st /\ y.got = x.got
    BY DEF Transfers
  <1>5. /\ z.kind = x.kind /\ z.file = x.file /\ z.peer = x.peer /\ z.mode = x.mode
        /\ z.id = NextId(x.id) /\ z.pos = x.pos + 1 /\ z.st = x.st /\ z.got = x.got
    BY DEF Transfers
  <1>6. HandleAck(x) = IF Eof(x) THEN Ended(y, "over", {})
                       ELSE Handled(z, {Data(y.id, FileChunk(x.file, x.pos + 1))})
    BY DEF HandleAck
  <1> HIDE DEF y, z
  <1>7. CASE Eof(x)
    BY <1>1, <1>4, <1>6, <1>7, HandledFields
  <1>8. CASE ~Eof(x)
    BY <1>3, <1>4, <1>5, <1>6, <1>8, HandledFields
  <1> QED
    BY <1>7, <1>8

LEMMA HandleDataFields ==
  ASSUME NEW x \in Transfers, NEW pkt \in Packets, IsRequest(pkt) \/ pkt.op = "DATA"
  PROVE  LET y == HandleData(x, pkt).x
         IN  /\ y.kind = x.kind /\ y.file = x.file /\ y.peer = x.peer /\ y.mode = x.mode
             /\ y.id = NextId(x.id) /\ y.pos = x.pos /\ ~y.late
             /\ y.got = IF IsRequest(pkt) THEN x.got ELSE Append(x.got, pkt.chunk)
             /\ y.st = IF NextId(x.id) = 1 \/ (~IsRequest(pkt) /\ pkt.chunk.len = BlockSize)
                       THEN x.st ELSE "over"
             /\ HandleData(x, pkt).send = {Ack(x.id)}
  <1> DEFINE chunks == IF IsRequest(pkt) THEN <<>> ELSE <<pkt.chunk>>
             z == [x EXCEPT !.id = NextId(@), !.got = @ \o chunks]
  <1>1. chunks \in Seq(Chunks)
    BY PacketFields
  <1>2. x.got \o chunks \in Seq(Chunks) /\ NextId(x.id) \in Ids
    BY <1>1, NextIdType DEF Transfers
  <1>3. z \in Transfers
    BY <1>2 DEF Transfers
  <1>4. /\ z.kind = x.kind /\ z.file = x.file /\ z.peer = x.peer /\ z.mode = x.mode
        /\ z.id = NextId(x.id) /\ z.pos = x.pos /\ z.st = x.st /\ z.got = x.got \o chunks
    BY DEF Transfers
  <1>5. HandleData(x, pkt) = IF z.id = 1 \/ (~IsRequest(pkt) /\ pkt.chunk.len = BlockSize)
                             THEN Handled(z, {Ack(x.id)}) ELSE Ended(z, "over", {Ack(x.id)})
    BY DEF HandleData
  <1> HIDE DEF z
  <1> DEFINE h == HandleData(x, pkt)
  <1>6. /\ h.x.kind = z.kind /\ h.x.file = z.file /\ h.x.peer = z.peer /\ h.x.mode = z.mode
        /\ h.x.id = z.id /\ h.x.pos = z.pos /\ h.x.got = z.got /\ ~h.x.late
        /\ h.x.st = IF z.id = 1 \/ (~IsRequest(pkt) /\ pkt.chunk.len = BlockSize) THEN z.st ELSE "over"
        /\ h.send = {Ack(x.id)}
    BY <1>3, <1>5, HandledFields
  <1>7. x.got \o chunks = IF IsRequest(pkt) THEN x.got ELSE Append(x.got, pkt.chunk)
    <2>1. x.got \in Seq(Chunks)
      BY DEF Transfers
    <2>2. CASE IsRequest(pkt)
      BY <2>1, <2>2
    <2>3. CASE ~IsRequest(pkt)
      BY <2>1, <2>3, PacketFields
    <2> QED
      BY <2>2, <2>3
  <1> QED
    BY <1>4, <1>6, <1>7

\* What handling a packet leaves alone, and what it does whatever the packet is: the
\* transfer is not late any more, and only a DATA packet gives a writer a block.
LEMMA HandlePacketFrame ==
  ASSUME NEW x \in Transfers, NEW pkt \in Packets
  PROVE  LET y == HandlePacket(x, pkt).x
         IN  /\ y.kind = x.kind /\ y.file = x.file /\ y.peer = x.peer /\ y.mode = x.mode
             /\ ~y.late
             /\ \/ y.got = x.got
                \/ x.kind = "write" /\ pkt.op = "DATA" /\ y.got = Append(x.got, pkt.chunk)
  <1>1. CASE pkt = Garbled \/ pkt.op = "ERROR" \/ AnswerError(x, pkt) # {} \/ VisitedId(pkt) # x.id
    BY <1>1, HandledFields DEF HandlePacket
  <1>2. CASE ~(pkt = Garbled \/ pkt.op = "ERROR" \/ AnswerError(x, pkt) # {} \/ VisitedId(pkt) # x.id)
    <2>1. CASE x.kind = "read"
      BY <1>2, <2>1, HandleAckFields DEF HandlePacket
    <2>2. CASE x.kind # "read"
      <3>1. IsRequest(pkt) \/ pkt.op = "DATA"
        BY <1>2, <2>2, PacketFields DEF AnswerError, IsRequest
      <3>2. x.kind = "write"
        BY <2>2 DEF Transfers
      <3>3. HandlePacket(x, pkt) = HandleData(x, pkt)
        BY <1>2, <2>2 DEF HandlePacket
      <3> DEFINE y == HandleData(x, pkt).x
      <3>4. /\ y.kind = x.kind /\ y.file = x.file /\ y.peer = x.peer /\ y.mode = x.mode /\ ~y.late
            /\ y.got = IF IsRequest(pkt) THEN x.got ELSE Append(x.got, pkt.chunk)
        BY <3>1, HandleDataFields
      <3> HIDE DEF y
      <3>5. HandlePacket(x, pkt).x = y
        BY <3>3 DEF y
      <3> QED
        BY <3>1, <3>2, <3>4, <3>5
    <2> QED
      BY <2>1, <2>2
  <1> QED
    BY <1>1, <1>2

---------------------------------------------------------------------------
(* Type correctness.  It is inductive together with the fact that a client *)
(* in Write's loop has a transferID: the loop sends there.                 *)

\* One assignment of a client's next state, one datagram taken, packets sent.
LEMMA ClientStepType ==
  ASSUME TypeInv, NEW c \in Clients, NEW d \in net, NEW next \in ClientStates,
         NEW port \in ServerPorts, NEW pkts \in SUBSET Packets,
         next.pc = "writing" => next.peer # NoPort,
         ClientStep(c, d, next, port, pkts)
  PROVE  TypeInv'
  <1>1. net' \subseteq Datagrams
    BY DatagramType DEF ClientStep, TypeInv, TypeOK
  <1>2. cl' \in [Clients -> ClientStates]
    BY DEF ClientStep, TypeInv, TypeOK
  <1>3. WritersBound'
    BY DEF ClientStep, TypeInv, TypeOK, WritersBound
  <1> QED
    BY <1>1, <1>2, <1>3 DEF ClientStep, TypeInv, TypeOK

LEMMA Remainder16 ==
  ASSUME NEW n \in Nat
  PROVE  n % IdRange \in Ids /\ NextId(n) \in Ids /\ NextId(n) \in Nat
  <1>1. n + 1 \in Nat
    OBVIOUS
  <1>2. n % IdRange \in 0 .. IdRange - 1 /\ (n + 1) % IdRange \in 0 .. IdRange - 1
    BY <1>1, Remainder, IdRangeType
  <1> QED
    BY <1>2, IdRangeType DEF NextId, Ids

LEMMA ReceivedType ==
  ASSUME TypeInv, NEW c \in Clients, NEW d \in net
  PROVE  /\ d \in Datagrams /\ d.pkt \in Packets /\ d.port \in ServerPorts
         /\ d.port # NoPort
         /\ cl[c] \in ClientStates /\ Failed(c) \in ClientStates /\ Bound(c, d) \in ClientStates
         /\ cl[c].pc = "writing" => cl[c].peer \in ServerPorts
         /\ {Illegal} \in SUBSET Packets /\ {} \in SUBSET Packets
         /\ {Error("UNKNOWN_TRANSFER_ID")} \in SUBSET Packets
  <1>1. d \in Datagrams /\ cl[c] \in ClientStates
    BY DEF TypeInv, TypeOK
  <1>2. d.pkt \in Packets /\ d.port \in ServerPorts
    BY <1>1 DEF Datagrams
  <1>3. d.port # NoPort
    BY <1>2 DEF ServerPorts, RequestPort, NoPort
  <1>4. Failed(c) \in ClientStates
    BY <1>1 DEF Failed, ClientStates
  <1>5. Bound(c, d) \in ClientStates
    BY <1>1, <1>2 DEF Bound, ClientStates
  <1>6. cl[c].pc = "writing" => cl[c].peer \in ServerPorts
    BY <1>1 DEF TypeInv, WritersBound, ClientStates
  <1>7. /\ {Illegal} \in SUBSET Packets /\ {} \in SUBSET Packets
        /\ {Error("UNKNOWN_TRANSFER_ID")} \in SUBSET Packets
    BY PacketTypes DEF Illegal, ErrorCodes
  <1> QED
    BY <1>1, <1>2, <1>3, <1>4, <1>5, <1>6, <1>7

LEMMA ClientNextType ==
  ASSUME TypeInv, NEW c \in Clients, ClientNext(c)
  PROVE  TypeInv'
  <1>1. CASE Start(c)
    <2> DEFINE pkt == Request(IF Op[c] = "read" THEN "RRQ" ELSE "WRQ", Target[c], Mode[c])
    <2>1. pkt \in Packets
      BY WorkAssumption, PacketTypes
    <2>2. Up(c, RequestPort, {pkt}) \subseteq Datagrams
      BY <2>1, DatagramType DEF ServerPorts
    <2>3. net' \subseteq Datagrams
      BY <1>1, <2>2 DEF Start, TypeInv, TypeOK
    <2> DEFINE next == [cl[c] EXCEPT !.pc = IF Op[c] = "read" THEN "reading" ELSE "wrq",
                                     !.block = IF Op[c] = "read" THEN 1 ELSE 0]
    <2>4. next \in ClientStates /\ next.pc # "writing"
      BY DEF TypeInv, TypeOK, ClientStates
    <2>5. cl' = [cl EXCEPT ![c] = next]
      BY <1>1 DEF Start, TypeInv, TypeOK
    <2> HIDE DEF next
    <2>6. cl' \in [Clients -> ClientStates] /\ WritersBound'
      BY <2>4, <2>5 DEF TypeInv, TypeOK, WritersBound
    <2> QED
      BY <1>1, <2>3, <2>6 DEF Start, TypeInv, TypeOK
  <1>2. CASE ClientTimeout(c)
    BY <1>2 DEF ClientTimeout, TypeInv, TypeOK, ClientStates, WritersBound
  <1>3. ASSUME NEW d \in net, ClientGarbled(c, d)
        PROVE  TypeInv'
    <2>1. Failed(c) \in ClientStates /\ Failed(c).pc # "writing"
      BY ReceivedType DEF Failed, ClientStates
    <2> DEFINE port == IF cl[c].pc = "writing" THEN cl[c].peer ELSE d.port
    <2>2. port \in ServerPorts
      BY ReceivedType
    <2>3. ClientStep(c, d, Failed(c), port, {Illegal})
      BY <1>3 DEF ClientGarbled
    <2> HIDE DEF port
    <2> QED
      BY <2>1, <2>2, <2>3, ReceivedType, ClientStepType
  <1>4. ASSUME NEW d \in net, ReadStranger(c, d)
        PROVE  TypeInv'
    BY <1>4, ReceivedType, ClientStepType DEF ReadStranger
  <1>5. ASSUME NEW d \in net, ReadRefused(c, d)
        PROVE  TypeInv'
    <2> DEFINE next == [Bound(c, d) EXCEPT !.pc = "failed"]
    <2>1. next \in ClientStates /\ next.pc # "writing"
      BY ReceivedType DEF ClientStates
    <2>2. Bound(c, d).peer \in ServerPorts
      BY ReceivedType DEF Bound, ClientStates
    <2> QED
      BY <1>5, <2>1, <2>2, ReceivedType, ClientStepType DEF ReadRefused
  <1>6. ASSUME NEW d \in net, ReadDuplicate(c, d)
        PROVE  TypeInv'
    <2>1. Bound(c, d).pc # "writing"
      BY <1>6, ReceivedType DEF ReadDuplicate, Bound, ClientStates
    <2> QED
      BY <1>6, <2>1, ReceivedType, ClientStepType DEF ReadDuplicate
  <1>7. ASSUME NEW d \in net, ReadBlock(c, d)
        PROVE  TypeInv'
    <2> DEFINE b    == Bound(c, d)
               next == [b EXCEPT !.pc = IF d.pkt.chunk.len < BlockSize THEN "done" ELSE @,
                                 !.out = Append(@, d.pkt.chunk), !.block = @ + 1]
    <2>1. b \in ClientStates /\ b.pc = "reading" /\ d.pkt.chunk \in Chunks
      BY <1>7, ReceivedType, PacketFields DEF ReadBlock, Bound, ClientStates
    <2>2. Append(b.out, d.pkt.chunk) \in Seq(Chunks) /\ b.block + 1 \in Nat
      BY <2>1 DEF ClientStates
    <2>3. next \in ClientStates /\ next.pc # "writing"
      BY <2>1, <2>2 DEF ClientStates
    <2>4. cl[c].block % IdRange \in Ids
      BY ReceivedType, Remainder16 DEF ClientStates
    <2>5. {Ack(cl[c].block % IdRange)} \in SUBSET Packets
      BY <2>4, PacketTypes
    <2> QED
      BY <1>7, <2>3, <2>5, ReceivedType, ClientStepType DEF ReadBlock
  <1>8. ASSUME NEW d \in net, WriteRefused(c, d)
        PROVE  TypeInv'
    <2> DEFINE port == IF cl[c].pc = "wrq" THEN d.port ELSE cl[c].peer
               next == [Failed(c) EXCEPT !.peer = port]
    <2>1. port \in ServerPorts
      BY <1>8, ReceivedType DEF WriteRefused
    <2>2. next \in ClientStates /\ next.pc # "writing"
      BY <2>1, ReceivedType DEF ClientStates, Failed
    <2> QED
      BY <1>8, <2>1, <2>2, ReceivedType, ClientStepType DEF WriteRefused
  <1>9. ASSUME NEW d \in net, WriteAccepted(c, d)
        PROVE  TypeInv'
    <2> DEFINE next == [cl[c] EXCEPT !.pc = "writing", !.peer = d.port, !.block = 1]
               fail == [Failed(c) EXCEPT !.peer = d.port]
    <2>1. next \in ClientStates /\ next.peer # NoPort /\ fail \in ClientStates /\ fail.pc # "writing"
      BY ReceivedType DEF ClientStates, Failed
    <2>2. {Data(1, InputChunk(c, 1))} \in SUBSET Packets
      BY InputChunkType, PacketTypes, IdRangeType DEF Ids
    <2> QED
      BY <1>9, <2>1, <2>2, ReceivedType, ClientStepType DEF WriteAccepted
  <1>10. ASSUME NEW d \in net, WriteDuplicate(c, d)
         PROVE  TypeInv'
    <2>1. cl[c].peer # NoPort
      BY <1>10 DEF WriteDuplicate, TypeInv, WritersBound
    <2> QED
      BY <1>10, <2>1, ReceivedType, ClientStepType DEF WriteDuplicate
  <1>11. ASSUME NEW d \in net, WriteNext(c, d)
         PROVE  TypeInv'
    <2> DEFINE id   == NextId(cl[c].block)
               end  == OctetEof(Input[c], cl[c].block)
               next == [cl[c] EXCEPT !.block = id, !.pc = IF end THEN "done" ELSE @]
               pkts == IF end THEN {} ELSE {Data(id, InputChunk(c, id))}
    <2>1. id \in Ids /\ id \in Nat
      BY ReceivedType, Remainder16 DEF ClientStates
    <2>2. next \in ClientStates
      BY <2>1, ReceivedType DEF ClientStates
    <2>3. pkts \in SUBSET Packets
      BY <2>1, InputChunkType, PacketTypes
    <2>4. cl[c].pc = "writing" /\ cl[c].peer # NoPort /\ next.peer = cl[c].peer
      BY <1>11, ReceivedType DEF WriteNext, TypeInv, WritersBound, ClientStates
    <2>5. ClientStep(c, d, next, cl[c].peer, pkts)
      BY <1>11 DEF WriteNext
    <2> HIDE DEF next, pkts
    <2> QED
      BY <2>2, <2>3, <2>4, <2>5, ReceivedType, ClientStepType
  <1> QED
    BY <1>1, <1>2, <1>3, <1>4, <1>5, <1>6, <1>7, <1>8, <1>9, <1>10, <1>11 DEF ClientNext

---------------------------------------------------------------------------
(* Files: the bytes of a block, of what a transfer has been given, and of  *)
(* a file after a write.                                                   *)

LEMMA BytesType ==
  ASSUME NEW chunk \in Chunks
  PROVE  Bytes(chunk) \in Seq(Byte)
  <1>1. /\ chunk.of \in Files \cup Clients /\ chunk.blk \in Int /\ chunk.len \in Nat
        /\ BlockSize \in Int
    BY SizesAssumption DEF Chunks
  <1>2. Text[chunk.of] \in Seq(Byte) /\ Text[chunk.of] # <<>>
    BY <1>1, WorkAssumption
  <1>3. Len(Text[chunk.of]) \in Nat \ {0}
    BY <1>2, EmptySeq, LenProperties
  <1>4. ASSUME NEW i \in 1 .. chunk.len
        PROVE  ByteAt(chunk.of, (chunk.blk - 1) * BlockSize + i) \in Byte
    <2> DEFINE text == Text[chunk.of]
               r    == Len(text)
               m    == ((chunk.blk - 1) * BlockSize + i) - 1
    <2>1. m \in Int /\ r \in Nat \ {0} /\ text \in Seq(Byte)
      BY <1>1, <1>2, <1>3
    <2> HIDE DEF m, text
    <2>2. (m % r) + 1 \in 1 .. r
      BY <2>1, SMT
    <2>3. text[(m % r) + 1] \in Byte
      BY <2>1, <2>2, ElementOfSeq
    <2> QED
      BY <2>3, Zenon DEF ByteAt, m, text
  <1>5. Bytes(chunk) \in [1 .. chunk.len -> Byte]
    BY <1>4 DEF Bytes
  <1> QED
    BY <1>1, <1>5

LEMMA GivenType ==
  ASSUME NEW x \in Transfers
  PROVE  /\ GivenBlocks(x) \in Seq(Seq(Byte)) /\ Len(GivenBlocks(x)) = Len(x.got)
         /\ \A k \in 1 .. Len(x.got) : GivenBlocks(x)[k] = Bytes(x.got[k])
         /\ Given(x) \in Seq(Byte)
  <1>1. x.got \in Seq(Chunks) /\ Len(x.got) \in Nat /\ DOMAIN x.got = 1 .. Len(x.got)
    BY LenProperties DEF Transfers
  <1>2. \A k \in 1 .. Len(x.got) : Bytes(x.got[k]) \in Seq(Byte)
    BY <1>1, BytesType, ElementOfSeq
  <1>3. GivenBlocks(x) \in [1 .. Len(x.got) -> Seq(Byte)]
    BY <1>1, <1>2 DEF GivenBlocks
  <1>4. GivenBlocks(x) \in Seq(Seq(Byte)) /\ Len(GivenBlocks(x)) = Len(x.got)
    BY <1>1, <1>3
  <1> QED
    BY <1>1, <1>4, FlattenType DEF Given, GivenBlocks

\* Nothing was put anywhere by a transfer that was given nothing.
LEMMA GivenNothing ==
  ASSUME NEW x, x.got = <<>>
  PROVE  Given(x) = <<>>
  <1>1. GivenBlocks(x) = <<>>
    BY DEF GivenBlocks
  <1> QED
    BY <1>1, FlattenEmpty DEF Given

\* A block more.
LEMMA GivenAppend ==
  ASSUME NEW x \in Transfers, NEW y \in Transfers, NEW chunk \in Chunks,
         y.got = Append(x.got, chunk)
  PROVE  Given(y) = Given(x) \o Bytes(chunk)
  <1> DEFINE n == Len(x.got)
  <1>1. /\ n \in Nat /\ Len(y.got) = n + 1 /\ y.got[n + 1] = chunk
        /\ \A k \in 1 .. n : y.got[k] = x.got[k]
    BY AppendProperties, LenProperties DEF Transfers
  <1>2. /\ GivenBlocks(x) \in Seq(Seq(Byte)) /\ Len(GivenBlocks(x)) = n
        /\ \A k \in 1 .. n : GivenBlocks(x)[k] = Bytes(x.got[k])
    BY GivenType
  <1>3. /\ GivenBlocks(y) \in Seq(Seq(Byte)) /\ Len(GivenBlocks(y)) = n + 1
        /\ \A k \in 1 .. n + 1 : GivenBlocks(y)[k] = Bytes(y.got[k])
    BY <1>1, GivenType
  <1>4. Bytes(chunk) \in Seq(Byte)
    BY BytesType
  <1>5. GivenBlocks(y) = Append(GivenBlocks(x), Bytes(chunk))
    <2> DEFINE a == GivenBlocks(y)
               b == Append(GivenBlocks(x), Bytes(chunk))
    <2>1. /\ b \in Seq(Seq(Byte)) /\ Len(b) = n + 1 /\ b[n + 1] = Bytes(chunk)
          /\ \A k \in 1 .. n : b[k] = Bytes(x.got[k])
      BY <1>2, <1>4, AppendProperties
    <2>2. \A k \in 1 .. n + 1 : a[k] = b[k]
      BY <1>1, <1>3, <2>1
    <2> HIDE DEF a, b
    <2>3. a = b
      BY <1>1, <1>3, <2>1, <2>2, SeqEqual DEF a
    <2> QED
      BY <2>3 DEF a, b
  <1> QED
    BY <1>2, <1>4, <1>5, FlattenAppend DEF Given

LEMMA TextType ==
  ASSUME NEW s \in Seq(Byte)
  PROVE  FromNetASCII(s) \in Seq(Byte)
  <1> DEFINE t == [k \in DOMAIN s |-> Taken(s, k)]
  <1>1. Len(s) \in Nat /\ DOMAIN s = 1 .. Len(s) /\ \A k \in 1 .. Len(s) : s[k] \in Byte
    BY LenProperties, ElementOfSeq
  <1>2. ASSUME NEW k \in 1 .. Len(s)
        PROVE  Taken(s, k) \in Seq(Byte)
    <2>1. LF \in Byte
      BY DEF LF, Byte
    <2>2. <<>> \in Seq(Byte) /\ <<LF>> \in Seq(Byte) /\ <<s[k]>> \in Seq(Byte)
      BY <1>1, <2>1
    <2> QED
      BY <2>2 DEF Taken
  <1>3. t \in [1 .. Len(s) -> Seq(Byte)]
    BY <1>1, <1>2
  <1>4. t \in Seq(Seq(Byte))
    BY <1>1, <1>3
  <1> QED
    BY <1>4, FlattenType DEF FromNetASCII

LEMMA NoText == FromNetASCII(<<>>) = <<>>
  <1>1. [k \in DOMAIN <<>> |-> Taken(<<>>, k)] = <<>>
    OBVIOUS
  <1> QED
    BY <1>1, FlattenEmpty DEF FromNetASCII

\* What stands where after a write.
LEMMA OverwriteBytes ==
  ASSUME NEW file \in Seq(Byte), NEW at \in Nat, NEW bytes \in Seq(Byte)
  PROVE  LET r == Overwrite(file, at, bytes)
         IN  /\ r \in Seq(Byte) /\ Len(r) >= Len(file)
             /\ bytes = <<>> => r = file
             /\ bytes # <<>> =>
                  /\ Len(r) >= at + Len(bytes)
                  /\ \A k \in 1 .. Len(r) :
                       r[k] = IF k \in at + 1 .. at + Len(bytes) THEN bytes[k - at]
                              ELSE IF k <= Len(file) THEN file[k] ELSE NUL
                  /\ \A k \in 1 .. Len(r) : k <= Len(file) \/ k <= at + Len(bytes)
  <1>1. /\ Len(file) \in Nat /\ Len(bytes) \in Nat
        /\ \A k \in 1 .. Len(file) : file[k] \in Byte
        /\ \A k \in 1 .. Len(bytes) : bytes[k] \in Byte
        /\ NUL \in Byte
    BY LenProperties, ElementOfSeq DEF NUL, Byte
  <1>2. CASE bytes = <<>>
    BY <1>1, <1>2 DEF Overwrite
  <1>3. CASE bytes # <<>>
    <2> DEFINE end  == at + Len(bytes)
               size == IF Len(file) > end THEN Len(file) ELSE end
               byte(k) == IF k \in at + 1 .. end THEN bytes[k - at]
                          ELSE IF k <= Len(file) THEN file[k] ELSE NUL
               r == [k \in 1 .. size |-> byte(k)]
    <2>1. /\ size \in Nat /\ size >= Len(file) /\ size >= end
          /\ \A k \in 1 .. size : k <= Len(file) \/ k <= end
      BY <1>1
    <2>2. ASSUME NEW k \in 1 .. size
          PROVE  byte(k) \in Byte
      <3>1. k \in at + 1 .. end => k - at \in 1 .. Len(bytes)
        BY <1>1
      <3>2. k <= Len(file) => k \in 1 .. Len(file)
        BY <1>1, <2>1
      <3> QED
        BY <1>1, <3>1, <3>2
    <2>3. Overwrite(file, at, bytes) = r
      BY <1>3 DEF Overwrite
    <2> HIDE DEF size, byte
    <2>4. r \in Seq(Byte) /\ Len(r) = size /\ \A k \in 1 .. size : r[k] = byte(k)
      BY <2>1, <2>2
    <2> HIDE DEF r
    <2> QED
      BY <1>3, <2>1, <2>3, <2>4 DEF byte
  <1> QED
    BY <1>2, <1>3

\* A write at the end of a file is what it says.
LEMMA OverwriteEnd ==
  ASSUME NEW file \in Seq(Byte), NEW bytes \in Seq(Byte)
  PROVE  Overwrite(file, Len(file), bytes) = file \o bytes
  <1> DEFINE n == Len(file)
             r == Overwrite(file, n, bytes)
             s == file \o bytes
  <1>1. n \in Nat /\ Len(bytes) \in Nat
    BY LenProperties
  <1>2. CASE bytes = <<>>
    BY <1>1, <1>2, OverwriteBytes, ConcatEmptySeq
  <1>3. CASE bytes # <<>>
    <2>1. /\ r \in Seq(Byte) /\ Len(r) >= n + Len(bytes)
          /\ \A k \in 1 .. Len(r) :
               r[k] = IF k \in n + 1 .. n + Len(bytes) THEN bytes[k - n]
                      ELSE IF k <= n THEN file[k] ELSE NUL
          /\ \A k \in 1 .. Len(r) : k <= n \/ k <= n + Len(bytes)
      BY <1>1, <1>3, OverwriteBytes
    <2>2. /\ s \in Seq(Byte) /\ Len(s) = n + Len(bytes)
          /\ \A k \in 1 .. Len(s) : s[k] = IF k <= n THEN file[k] ELSE bytes[k - n]
      BY ConcatProperties
    <2> HIDE DEF r, s, n
    <2>3. Len(r) \in Nat /\ Len(r) = Len(s)
      <3>1. Len(r) \in Nat
        BY <2>1, LenProperties
      <3>2. ~(Len(r) > n + Len(bytes))
        <4>1. SUFFICES ASSUME Len(r) > n + Len(bytes)
                       PROVE  FALSE
          OBVIOUS
        <4>2. n + Len(bytes) + 1 \in 1 .. Len(r)
          BY <1>1, <3>1, <4>1
        <4> QED
          BY <1>1, <2>1, <4>2
      <3> QED
        BY <1>1, <2>1, <2>2, <3>1, <3>2
    <2>4. \A k \in 1 .. Len(r) : r[k] = s[k]
      BY <1>1, <2>1, <2>2, <2>3
    <2>5. r = s
      BY <2>1, <2>2, <2>3, <2>4, SeqEqual
    <2> QED
      BY <2>5 DEF r, s, n
  <1> QED
    BY <1>2, <1>3

\* What a handled packet, or a destructor, leaves in the files.
LEMMA StoredType ==
  ASSUME TypeInv, NEW x \in Transfers, NEW y \in Transfers
  PROVE  /\ WrittenThrough(x, y) \in [Files -> Seq(Byte)]
         /\ WrittenAtEnd(x) \in [Files -> Seq(Byte)]
  <1>1. x.got \in Seq(Chunks) /\ y.got \in Seq(Chunks) /\ x.file \in Files
    BY DEF Transfers
  <1>2. stored \in [Files -> Seq(Byte)]
    BY DEF TypeInv, TypeOK
  <1>3. Given(x) \in Seq(Byte) /\ Len(Given(x)) \in Nat
    BY GivenType, LenProperties
  <1>4. WrittenThrough(x, y) \in [Files -> Seq(Byte)]
    <2>1. CASE Len(y.got) > Len(x.got)
      <3>1. Len(y.got) \in 1 .. Len(y.got)
        BY <1>1, <2>1
      <3>2. Bytes(y.got[Len(y.got)]) \in Seq(Byte)
        BY <1>1, <3>1, ElementOfSeq, BytesType
      <3>3. Overwrite(stored[x.file], Len(Given(x)), Bytes(y.got[Len(y.got)])) \in Seq(Byte)
        BY <1>1, <1>2, <1>3, <3>2, OverwriteBytes
      <3> QED
        BY <1>1, <1>2, <3>3 DEF WrittenThrough
    <2>2. CASE ~(Len(y.got) > Len(x.got))
      BY <1>2, <2>2 DEF WrittenThrough
    <2> QED
      BY <2>1, <2>2
  <1>5. WrittenAtEnd(x) \in [Files -> Seq(Byte)]
    BY <1>1, <1>2, <1>3, TextType DEF WrittenAtEnd
  <1> QED
    BY <1>4, <1>5

---------------------------------------------------------------------------
(* Type correctness, continued: the server.                                *)

LEMMA PortTypes ==
  ASSUME TypeInv
  PROVE  /\ Ports = 1 .. Len(xfer) /\ Len(xfer) \in Nat
         /\ \A p \in Ports : xfer[p] \in Transfers /\ p \in ServerPorts
         /\ Len(xfer) + 1 \in ServerPorts /\ RequestPort \in ServerPorts
         /\ \A d \in srv.ready : d \in Datagrams /\ d.pkt \in Packets /\ d.c \in Clients
         /\ srv \in ServerStates
  <1>1. xfer \in Seq(Transfers) /\ srv \in ServerStates
    BY DEF TypeInv, TypeOK
  <1>2. Ports = 1 .. Len(xfer) /\ Len(xfer) \in Nat /\ \A p \in Ports : xfer[p] \in Transfers
    BY <1>1 DEF Ports
  <1>3. \A p \in Ports : p \in ServerPorts
    BY <1>2 DEF ServerPorts
  <1>4. Len(xfer) + 1 \in ServerPorts /\ RequestPort \in ServerPorts
    BY <1>2 DEF ServerPorts
  <1>5. \A d \in srv.ready : d \in Datagrams /\ d.pkt \in Packets /\ d.c \in Clients
    BY <1>1 DEF ServerStates, Datagrams
  <1> QED
    BY <1>1, <1>2, <1>3, <1>4, <1>5

LEMMA PollingType ==
  ASSUME TypeInv
  PROVE  Polling \in ServerStates
  BY DEF TypeInv, TypeOK, Polling, ServerStates

LEMMA ServerNextType ==
  ASSUME TypeInv, ServerNext
  PROVE  TypeInv'
  <1> USE DEF TypeInv
  <1>1. ASSUME NEW arrived \in SUBSET net, Poll(arrived)
        PROVE  TypeInv'
    <2>1. net' \subseteq Datagrams /\ arrived \subseteq Datagrams
      BY <1>1 DEF Poll, TypeOK
    <2>2. \A d \in arrived : d.port \in ServerPorts
      BY <2>1 DEF Datagrams
    <2>3. {d.port : d \in arrived} \ {RequestPort} \subseteq Nat
      BY <2>2 DEF ServerPorts
    <2>4. {p \in Ports : Live(p) /\ xfer[p].late} \subseteq Nat
      BY PortTypes
    <2>5. srv' \in ServerStates
      BY <1>1, <2>1, <2>3, <2>4 DEF Poll, ServerStates
    <2> QED
      BY <1>1, <2>1, <2>5 DEF Poll, TypeOK, WritersBound
  <1>2. ASSUME NEW p \in Ports, NEW d \in srv.ready, ServeReady(p, d)
        PROVE  TypeInv'
    <2> DEFINE h == HandlePacket(xfer[p], d.pkt)
    <2>1. xfer[p] \in Transfers /\ d.pkt \in Packets /\ p \in ServerPorts /\ p \in Nat
      BY PortTypes
    <2>2. h.x \in Transfers /\ h.send \in SUBSET Packets
      BY <2>1, HandlePacketType
    <2>3. /\ xfer' = [xfer EXCEPT ![p] = h.x]
          /\ net' = net \cup Down(xfer[p].peer, p, h.send)
          /\ stored' = WrittenThrough(xfer[p], h.x)
          /\ srv' = [srv EXCEPT !.ready = @ \ {d}, !.todo = @ \ {p},
                               !.dead = IF h.x.st = "live" THEN @ ELSE @ \cup {p}]
          /\ UNCHANGED <<cl, faults>>
      BY <1>2 DEF ServeReady
    <2> HIDE DEF h
    <2>4. xfer' \in Seq(Transfers)
      BY <2>2, <2>3 DEF TypeOK, Ports
    <2>5. net' \subseteq Datagrams
      <3>1. xfer[p].peer \in Clients
        BY <2>1 DEF Transfers
      <3> QED
        BY <2>1, <2>2, <2>3, <3>1, DatagramType DEF TypeOK
    <2>6. srv' \in ServerStates
      BY <2>1, <2>3 DEF TypeOK, ServerStates
    <2>7. stored' \in [Files -> Seq(Byte)]
      BY <2>1, <2>2, <2>3, StoredType
    <2> QED
      BY <2>3, <2>4, <2>5, <2>6, <2>7 DEF TypeOK, WritersBound
  <1>3. ASSUME NEW p \in Ports, ServeExpired(p)
        PROVE  TypeInv'
    <2>1. xfer[p] \in Transfers /\ p \in Nat
      BY PortTypes
    <2>2. [xfer[p] EXCEPT !.st = "expired"] \in Transfers
      BY <2>1 DEF Transfers
    <2>3. xfer' \in Seq(Transfers)
      BY <1>3, <2>2 DEF ServeExpired, TypeOK, Ports
    <2>4. srv' \in ServerStates
      BY <1>3, <2>1 DEF ServeExpired, TypeOK, ServerStates
    <2> QED
      BY <1>3, <2>3, <2>4 DEF ServeExpired, TypeOK, WritersBound
  <1>4. ASSUME NEW p \in Ports, Sweep(p)
        PROVE  TypeInv'
    <2>1. stored' \in [Files -> Seq(Byte)]
      BY <1>4, PortTypes, StoredType DEF Sweep
    <2>2. srv' \in ServerStates
      BY <1>4 DEF Sweep, TypeOK, ServerStates
    <2> QED
      BY <1>4, <2>1, <2>2 DEF Sweep, TypeOK, WritersBound
  <1>5. CASE EndRound
    BY <1>5, PollingType DEF EndRound, TypeOK, WritersBound
  <1>6. ASSUME NEW d \in srv.ready, RejectRequest(d)
        PROVE  TypeInv'
    <2>1. Down(d.c, RequestPort, IF d.pkt.op = "ERROR" THEN {} ELSE {Illegal}) \subseteq Datagrams
      <3>1. (IF d.pkt.op = "ERROR" THEN {} ELSE {Illegal}) \in SUBSET Packets
        BY PacketTypes DEF Illegal, ErrorCodes
      <3> QED
        BY <3>1, PortTypes, DatagramType
    <2> QED
      BY <1>6, <2>1, PollingType DEF RejectRequest, TypeOK, WritersBound
  <1>7. ASSUME NEW d \in srv.ready, AcceptClient(d)
        PROVE  TypeInv'
    <2> DEFINE x == NewTransfer(d)
               h == HandlePacket(x, d.pkt)
    <2>1. d.pkt \in Packets /\ d.c \in Clients
      BY PortTypes
    <2>2. x \in Transfers
      <3>1. d.pkt.file \in Files /\ d.pkt.mode \in {"octet", "netascii"}
        BY <1>7, <2>1, PacketFields DEF AcceptClient
      <3>2. 0 \in Ids /\ <<>> \in Seq(Chunks)
        BY IdRangeType DEF Ids
      <3> QED
        BY <2>1, <3>1, <3>2 DEF NewTransfer, Transfers
    <2>3. h.x \in Transfers /\ h.send \in SUBSET Packets
      BY <2>1, <2>2, HandlePacketType
    <2>4. /\ xfer' = Append(xfer, h.x)
          /\ net' = net \cup Down(d.c, Len(xfer) + 1, h.send)
          /\ stored' \in {stored, [stored EXCEPT ![x.file] = <<>>]}
          /\ srv' = Polling
          /\ UNCHANGED <<cl, faults>>
      BY <1>7 DEF AcceptClient
    <2> HIDE DEF h, x
    <2>5. xfer' \in Seq(Transfers)
      BY <2>3, <2>4 DEF TypeOK
    <2>6. net' \subseteq Datagrams
      BY <2>1, <2>3, <2>4, PortTypes, DatagramType DEF TypeOK
    <2>7. stored' \in [Files -> Seq(Byte)]
      <3>1. <<>> \in Seq(Byte) /\ stored \in [Files -> Seq(Byte)]
        BY EmptySeq DEF TypeOK
      <3> QED
        BY <2>4, <3>1
    <2> QED
      BY <2>4, <2>5, <2>6, <2>7, PollingType DEF TypeOK, WritersBound
  <1> QED
    BY <1>1, <1>2, <1>3, <1>4, <1>5, <1>6, <1>7 DEF ServerNext

LEMMA TypeInvInit == Init => TypeInv
  BY SizesAssumption DEF Init, TypeInv, TypeOK, WritersBound, ClientStates, ServerStates

LEMMA TypeInvNext == TypeInv /\ [Next]_vars => TypeInv'
  <1> SUFFICES ASSUME TypeInv, [Next]_vars
               PROVE  TypeInv'
    OBVIOUS
  <1>1. ASSUME NEW c \in Clients, ClientNext(c)
        PROVE  TypeInv'
    BY <1>1, ClientNextType
  <1>2. CASE ServerNext
    BY <1>2, ServerNextType
  <1>3. ASSUME NEW p \in Ports, GrowLate(p)
        PROVE  TypeInv'
    <2>1. [xfer[p] EXCEPT !.late = TRUE] \in Transfers
      BY PortTypes DEF Transfers
    <2>2. xfer' \in Seq(Transfers)
      BY <1>3, <2>1 DEF GrowLate, TypeInv, TypeOK, Ports
    <2> QED
      BY <1>3, <2>2 DEF GrowLate, TypeInv, TypeOK, WritersBound
  <1>4. ASSUME NEW d \in net, Discard(d)
        PROVE  TypeInv'
    BY <1>4 DEF Discard, TypeInv, TypeOK, WritersBound
  <1>5. CASE Faults
    <2>0. /\ faults \in [dups : 0 .. MaxDups, garbled : 0 .. MaxGarbled, lost : BOOLEAN]
          /\ faults.dups \in 0 .. MaxDups /\ faults.garbled \in 0 .. MaxGarbled
      BY DEF TypeInv, TypeOK
    <2>1. ASSUME NEW d \in net, Lose(d)
          PROVE  TypeInv'
      BY <2>1 DEF Lose, TypeInv, TypeOK, WritersBound
    <2>2. ASSUME NEW d \in net, Duplicate(d)
          PROVE  TypeInv'
      <3>1. [d EXCEPT !.copy = faults.dups + 1] \in Datagrams
        <4>1. faults.dups + 1 \in Nat
          BY <2>0, SizesAssumption
        <4> QED
          BY <4>1 DEF TypeInv, TypeOK, Datagrams
      <3>2. faults' \in [dups : 0 .. MaxDups, garbled : 0 .. MaxGarbled, lost : BOOLEAN]
        <4>1. faults.dups + 1 \in 0 .. MaxDups
          BY <2>0, <2>2, SizesAssumption DEF Duplicate
        <4> QED
          BY <2>0, <2>2, <4>1 DEF Duplicate
      <3> QED
        BY <2>2, <3>1, <3>2 DEF Duplicate, TypeInv, TypeOK, WritersBound
    <2>3. ASSUME NEW d \in net, Garble(d)
          PROVE  TypeInv'
      <3>1. [d EXCEPT !.pkt = Garbled] \in Datagrams
        BY PacketTypes DEF TypeInv, TypeOK, Datagrams
      <3>2. faults' \in [dups : 0 .. MaxDups, garbled : 0 .. MaxGarbled, lost : BOOLEAN]
        <4>1. faults.garbled + 1 \in 0 .. MaxGarbled
          BY <2>0, <2>3, SizesAssumption DEF Garble
        <4> QED
          BY <2>0, <2>3, <4>1 DEF Garble
      <3> QED
        BY <2>3, <3>1, <3>2 DEF Garble, TypeInv, TypeOK, WritersBound
    <2> QED
      BY <1>5, <2>1, <2>2, <2>3 DEF Faults
  <1>6. CASE UNCHANGED vars
    BY <1>6 DEF vars, TypeInv, TypeOK, WritersBound
  <1> QED
    BY <1>1, <1>2, <1>3, <1>4, <1>5, <1>6 DEF Next

\* Tftp.tla's variables keep their types: no operation of the client or of the
\* server, and no fault of the network, leaves the states the code can be in.
THEOREM TypeCorrect == Spec => []TypeOK
  <1>1. TypeInv => TypeOK
    BY DEF TypeInv
  <1> QED
    BY <1>1, TypeInvInit, TypeInvNext, PTL DEF Spec

---------------------------------------------------------------------------
(* What the server's rounds do to its transfers and its files: a transfer  *)
(* that has ended stays as it is, one that is late ends, and the files     *)
(* hold what the transfers were given.                                     *)

(* The steps, by what they do to the transfers, the round and the files.   *)

LEMMA NextShapes ==
  ASSUME [Next]_vars
  PROVE  \/ UNCHANGED <<xfer, srv, stored>>
         \/ \E arrived \in SUBSET net : Poll(arrived)
         \/ \E p \in Ports : \/ \E d \in srv.ready : ServeReady(p, d)
                            \/ ServeExpired(p)
                            \/ Sweep(p)
                            \/ GrowLate(p)
         \/ EndRound
         \/ \E d \in srv.ready : RejectRequest(d) \/ AcceptClient(d)
  <1>1. ASSUME NEW c \in Clients, ClientNext(c)
        PROVE  UNCHANGED <<xfer, srv, stored>>
    BY <1>1 DEF ClientNext, Start, ClientTimeout, ClientGarbled, ReadStranger, ReadRefused,
                ReadDuplicate, ReadBlock, WriteRefused, WriteAccepted, WriteDuplicate, WriteNext,
                ClientStep
  <1>2. ASSUME NEW d \in net, Discard(d)
        PROVE  UNCHANGED <<xfer, srv, stored>>
    BY <1>2 DEF Discard
  <1>3. CASE Faults
    BY <1>3 DEF Faults, Lose, Duplicate, Garble
  <1>4. CASE UNCHANGED vars
    BY <1>4 DEF vars
  <1> QED
    BY <1>1, <1>2, <1>3, <1>4 DEF Next, ServerNext

LEMMA ServeReadyFields ==
  ASSUME TypeInv, RoundLocals, NEW p \in Ports, NEW d \in srv.ready, ServeReady(p, d)
  PROVE  LET x == xfer[p]
             y == xfer'[p]
         IN  /\ d.pkt \in Packets /\ x \in Transfers /\ x.st = "live" /\ p \in srv.todo
             /\ y = HandlePacket(x, d.pkt).x /\ y \in Transfers
             /\ Ports' = Ports /\ \A q \in Ports \ {p} : xfer'[q] = xfer[q]
             /\ stored' = WrittenThrough(x, y)
             /\ srv.phase = "round" /\ srv'.phase = "round"
             /\ srv'.ready \subseteq srv.ready /\ srv'.todo = srv.todo \ {p}
             /\ srv'.dead = IF y.st = "live" THEN srv.dead ELSE srv.dead \cup {p}
  <1> DEFINE h == HandlePacket(xfer[p], d.pkt)
  <1>1. d.pkt \in Packets /\ xfer[p] \in Transfers /\ xfer \in Seq(Transfers) /\ srv \in ServerStates
    BY PortTypes DEF TypeInv, TypeOK
  <1>2. h.x \in Transfers
    BY <1>1, HandlePacketType
  <1>3. /\ p \in srv.todo /\ srv.phase = "round"
        /\ xfer' = [xfer EXCEPT ![p] = h.x]
        /\ stored' = WrittenThrough(xfer[p], h.x)
        /\ srv' = [srv EXCEPT !.ready = @ \ {d}, !.todo = @ \ {p},
                              !.dead = IF h.x.st = "live" THEN @ ELSE @ \cup {p}]
    BY DEF ServeReady, Visits
  <1> HIDE DEF h
  <1>4. xfer'[p] = h.x /\ Ports' = Ports /\ \A q \in Ports \ {p} : xfer'[q] = xfer[q]
    BY <1>1, <1>3 DEF Ports
  <1>5. /\ srv'.phase = srv.phase /\ srv'.ready = srv.ready \ {d} /\ srv'.todo = srv.todo \ {p}
        /\ srv'.dead = IF h.x.st = "live" THEN srv.dead ELSE srv.dead \cup {p}
    BY <1>1, <1>3 DEF ServerStates
  <1>6. xfer[p].st = "live"
    BY <1>3 DEF RoundLocals, Live
  <1> QED
    BY <1>1, <1>2, <1>3, <1>4, <1>5, <1>6 DEF h

LEMMA ServeExpiredFields ==
  ASSUME TypeInv, RoundLocals, NEW p \in Ports, ServeExpired(p)
  PROVE  LET x == xfer[p]
             y == xfer'[p]
         IN  /\ x.st = "live" /\ p \in srv.todo /\ y.st = "expired"
             /\ y.kind = x.kind /\ y.mode = x.mode /\ y.peer = x.peer /\ y.file = x.file
             /\ y.id = x.id /\ y.pos = x.pos /\ y.got = x.got
             /\ Ports' = Ports /\ \A q \in Ports \ {p} : xfer'[q] = xfer[q]
             /\ stored' = stored
             /\ srv.phase = "round" /\ srv'.phase = "round"
             /\ srv'.ready = srv.ready /\ srv'.todo = srv.todo \ {p} /\ srv'.dead = srv.dead \cup {p}
  <1>1. xfer[p] \in Transfers /\ xfer \in Seq(Transfers) /\ srv \in ServerStates
    BY PortTypes DEF TypeInv, TypeOK
  <1> DEFINE y == [xfer[p] EXCEPT !.st = "expired"]
  <1>2. /\ p \in srv.todo /\ srv.phase = "round" /\ stored' = stored
        /\ xfer' = [xfer EXCEPT ![p] = y]
        /\ srv' = [srv EXCEPT !.todo = @ \ {p}, !.dead = @ \cup {p}]
    BY DEF ServeExpired, Visits
  <1>3. /\ y.st = "expired"
        /\ y.kind = xfer[p].kind /\ y.mode = xfer[p].mode /\ y.peer = xfer[p].peer
        /\ y.file = xfer[p].file /\ y.id = xfer[p].id /\ y.pos = xfer[p].pos /\ y.got = xfer[p].got
    BY <1>1 DEF Transfers
  <1> HIDE DEF y
  <1>4. xfer'[p] = y /\ Ports' = Ports /\ \A q \in Ports \ {p} : xfer'[q] = xfer[q]
    BY <1>1, <1>2 DEF Ports
  <1>5. /\ srv'.phase = srv.phase /\ srv'.ready = srv.ready
        /\ srv'.todo = srv.todo \ {p} /\ srv'.dead = srv.dead \cup {p}
    BY <1>1, <1>2 DEF ServerStates
  <1>6. xfer[p].st = "live"
    BY <1>2 DEF RoundLocals, Live
  <1> QED
    BY <1>2, <1>3, <1>4, <1>5, <1>6

\* Time passes for a transfer: nothing of it changes but its age.
LEMMA GrowLateFields ==
  ASSUME TypeInv, NEW p \in Ports, GrowLate(p)
  PROVE  /\ Ports' = Ports /\ UNCHANGED <<srv, stored>> /\ srv.phase = "poll" /\ Live(p)
         /\ \A q \in Ports \ {p} : xfer'[q] = xfer[q]
         /\ \A q \in Ports :
              /\ xfer'[q].kind = xfer[q].kind /\ xfer'[q].mode = xfer[q].mode
              /\ xfer'[q].peer = xfer[q].peer /\ xfer'[q].file = xfer[q].file
              /\ xfer'[q].id = xfer[q].id /\ xfer'[q].pos = xfer[q].pos
              /\ xfer'[q].got = xfer[q].got /\ xfer'[q].st = xfer[q].st
  <1>1. xfer[p] \in Transfers /\ xfer \in Seq(Transfers)
    BY PortTypes DEF TypeInv, TypeOK
  <1> DEFINE y == [xfer[p] EXCEPT !.late = TRUE]
  <1>2. /\ xfer' = [xfer EXCEPT ![p] = y] /\ UNCHANGED <<srv, stored>>
        /\ srv.phase = "poll" /\ Live(p)
    BY DEF GrowLate
  <1>3. /\ y.kind = xfer[p].kind /\ y.mode = xfer[p].mode /\ y.peer = xfer[p].peer
        /\ y.file = xfer[p].file /\ y.id = xfer[p].id /\ y.pos = xfer[p].pos /\ y.got = xfer[p].got
        /\ y.st = xfer[p].st
    BY <1>1 DEF Transfers
  <1> HIDE DEF y
  <1>4. xfer'[p] = y /\ Ports' = Ports /\ \A q \in Ports \ {p} : xfer'[q] = xfer[q]
    BY <1>1, <1>2 DEF Ports
  <1> QED
    BY <1>2, <1>3, <1>4

\* A new transfer gets a port of its own; it has been given nothing.
LEMMA AcceptFields ==
  ASSUME TypeInv, NEW d \in srv.ready, AcceptClient(d)
  PROVE  LET n == Len(xfer) + 1
             x == NewTransfer(d)
             y == xfer'[n]
         IN  /\ n \in Nat \ {0} /\ n \notin Ports /\ Ports' = Ports \cup {n}
             /\ d.pkt \in Packets /\ IsRequest(d.pkt) /\ x \in Transfers
             /\ x.kind = (IF d.pkt.op = "RRQ" THEN "read" ELSE "write") /\ x.mode = d.pkt.mode
             /\ x.peer = d.c /\ x.file = d.pkt.file
             /\ x.id = 0 /\ x.pos = 0 /\ x.got = <<>> /\ x.st = "live"
             /\ y = HandlePacket(x, d.pkt).x /\ y \in Transfers
             /\ y.kind = x.kind /\ y.mode = x.mode /\ y.peer = x.peer /\ y.file = x.file
             /\ y.got = <<>>
             /\ \A q \in Ports : xfer'[q] = xfer[q]
             /\ stored' = IF x.kind = "write" /\ x.mode = "octet" /\ x.file \in Writable
                          THEN [stored EXCEPT ![x.file] = <<>>] ELSE stored
             /\ Swept /\ srv'.phase = "poll" /\ srv'.ready = {}
             /\ srv'.todo = srv.todo /\ srv'.dead = srv.dead
             /\ net' = net \cup Down(x.peer, n, HandlePacket(x, d.pkt).send) /\ UNCHANGED cl
  <1> DEFINE n == Len(xfer) + 1
             x == NewTransfer(d)
             h == HandlePacket(x, d.pkt)
  <1>1. /\ d.pkt \in Packets /\ d.c \in Clients /\ IsRequest(d.pkt) /\ xfer \in Seq(Transfers)
        /\ Ports = 1 .. Len(xfer) /\ Len(xfer) \in Nat /\ srv \in ServerStates
    BY PortTypes DEF AcceptClient, TypeInv, TypeOK
  <1>2. /\ x \in Transfers /\ x.mode = d.pkt.mode /\ x.peer = d.c /\ x.file = d.pkt.file
        /\ x.kind = IF d.pkt.op = "RRQ" THEN "read" ELSE "write"
        /\ x.id = 0 /\ x.pos = 0 /\ x.got = <<>> /\ x.st = "live"
    <2>1. d.pkt.file \in Files /\ d.pkt.mode \in {"octet", "netascii"}
      BY <1>1, PacketFields
    <2>2. 0 \in Ids /\ <<>> \in Seq(Chunks)
      BY IdRangeType DEF Ids
    <2> QED
      BY <1>1, <2>1, <2>2 DEF NewTransfer, Transfers
  <1>3. /\ Swept /\ xfer' = Append(xfer, h.x) /\ srv' = Polling /\ UNCHANGED cl
        /\ net' = net \cup Down(d.c, n, h.send)
        /\ stored' = IF x.kind = "write" /\ x.mode = "octet" /\ x.file \in Writable
                     THEN [stored EXCEPT ![x.file] = <<>>] ELSE stored
    BY DEF AcceptClient
  <1> HIDE DEF x
  <1>4. h.x \in Transfers
    BY <1>1, <1>2, HandlePacketType
  <1>5. /\ h.x.kind = x.kind /\ h.x.mode = x.mode /\ h.x.peer = x.peer /\ h.x.file = x.file
        /\ h.x.got = x.got \/ d.pkt.op = "DATA"
    BY <1>1, <1>2, HandlePacketFrame
  <1>6. d.pkt.op # "DATA"
    BY <1>1 DEF IsRequest
  <1> HIDE DEF h
  <1>7. xfer'[n] = h.x /\ Ports' = Ports \cup {n} /\ n \notin Ports /\ n \in Nat \ {0}
        /\ \A q \in Ports : xfer'[q] = xfer[q]
    BY <1>1, <1>3, <1>4 DEF Ports
  <1>8. srv'.phase = "poll" /\ srv'.ready = {} /\ srv'.todo = srv.todo /\ srv'.dead = srv.dead
    BY <1>1, <1>3 DEF Polling, ServerStates
  <1> QED
    BY <1>1, <1>2, <1>3, <1>4, <1>5, <1>6, <1>7, <1>8 DEF h, x

LEMMA SweepFields ==
  ASSUME TypeInv, NEW p \in Ports, Sweep(p)
  PROVE  /\ xfer' = xfer /\ stored' = WrittenAtEnd(xfer[p]) /\ p \in srv.dead
         /\ srv.phase = "round" /\ srv'.phase = "round" /\ srv'.ready = srv.ready
         /\ srv.todo = {} /\ srv'.todo = {} /\ srv'.dead = srv.dead \ {p}
  BY PortTypes DEF Sweep, ServerStates

\* The round is over: nobody is left to be visited or swept.
LEMMA PollingFields ==
  ASSUME TypeInv, EndRound \/ \E d \in srv.ready : RejectRequest(d)
  PROVE  /\ UNCHANGED <<xfer, stored>> /\ Swept
         /\ srv'.phase = "poll" /\ srv'.ready = {} /\ srv'.todo = {} /\ srv'.dead = {}
  BY PortTypes DEF EndRound, RejectRequest, Swept, Polling, ServerStates
---------------------------------------------------------------------------
(* Rounds.                                                                 *)

LEMMA RoundInvInit == Init => RoundInv
  BY DEF Init, RoundInv, RoundLocals, Live, Ports

LEMMA RoundInvNext == TypeInv /\ RoundInv /\ [Next]_vars => RoundInv'
  <1> SUFFICES ASSUME TypeInv, RoundInv, [Next]_vars
               PROVE  RoundInv'
    OBVIOUS
  <1> USE DEF RoundInv
  <1>1. CASE UNCHANGED <<xfer, srv, stored>>
    BY <1>1 DEF RoundLocals, Live, Ports
  <1>2. ASSUME NEW arrived \in SUBSET net, Poll(arrived)
        PROVE  RoundInv'
    <2>1. /\ \A d \in arrived : d.dir = "up" /\ Deliverable(d)
          /\ xfer' = xfer /\ srv'.ready = arrived /\ srv'.phase = "round" /\ srv'.dead = {}
          /\ srv'.todo = ({d.port : d \in arrived} \ {RequestPort})
                         \cup {p \in Ports : Live(p) /\ xfer[p].late}
      BY <1>2 DEF Poll
    <2>2. \A p \in srv'.todo : Live(p)
      BY <2>1 DEF Deliverable
    <2>3. \A p \in Ports : Live(p) /\ xfer[p].late => p \in srv'.todo
      BY <2>1
    <2> QED
      BY <2>1, <2>2, <2>3 DEF RoundLocals, Live, Ports
  <1>3. ASSUME NEW p \in Ports, NEW d \in srv.ready, ServeReady(p, d)
        PROVE  RoundInv'
    <2> DEFINE y == xfer'[p]
    <2>1. /\ Live(p) /\ Ports' = Ports /\ \A q \in Ports \ {p} : xfer'[q] = xfer[q]
          /\ srv.phase = "round" /\ srv'.phase = "round"
          /\ srv'.ready \subseteq srv.ready /\ srv'.todo = srv.todo \ {p}
          /\ srv'.dead = IF y.st = "live" THEN srv.dead ELSE srv.dead \cup {p}
      BY <1>3, ServeReadyFields DEF Live
    <2>2. ~y.late
      <3>1. y = HandlePacket(xfer[p], d.pkt).x /\ xfer[p] \in Transfers /\ d.pkt \in Packets
        BY <1>3, ServeReadyFields
      <3> HIDE DEF y
      <3> QED
        BY <3>1, HandlePacketFrame
    <2> HIDE DEF y
    <2>3. \A q \in Ports : Live(q)' <=> IF q = p THEN y.st = "live" ELSE Live(q)
      BY <2>1 DEF Live, y
    <2>4. \A q \in Ports : Live(q)' /\ xfer'[q].late => q # p /\ Live(q) /\ xfer[q].late
      BY <2>1, <2>2, <2>3 DEF y
    <2>5. RoundLocals'
      BY <2>1, <2>3 DEF RoundLocals, Live
    <2>6. srv'.dead \subseteq Ports' /\ \A q \in srv'.dead : ~Live(q)'
      BY <2>1, <2>3
    <2> QED
      BY <2>1, <2>4, <2>5, <2>6
  <1>4. ASSUME NEW p \in Ports, ServeExpired(p)
        PROVE  RoundInv'
    <2>1. /\ Live(p) /\ Ports' = Ports /\ \A q \in Ports \ {p} : xfer'[q] = xfer[q]
          /\ xfer'[p].st = "expired" /\ srv.phase = "round" /\ srv'.phase = "round"
          /\ srv'.ready = srv.ready /\ srv'.todo = srv.todo \ {p} /\ srv'.dead = srv.dead \cup {p}
      BY <1>4, ServeExpiredFields DEF Live
    <2>2. \A q \in Ports : Live(q)' <=> q # p /\ Live(q)
      BY <2>1 DEF Live
    <2>3. \A q \in Ports : Live(q)' /\ xfer'[q].late => q # p /\ Live(q) /\ xfer[q].late
      BY <2>1, <2>2
    <2>4. RoundLocals'
      BY <2>1, <2>2 DEF RoundLocals, Live
    <2> QED
      BY <2>1, <2>2, <2>3, <2>4
  <1>5. ASSUME NEW p \in Ports, Sweep(p)
        PROVE  RoundInv'
    BY <1>5, SweepFields DEF RoundLocals, Live, Ports
  <1>6. ASSUME NEW p \in Ports, GrowLate(p)
        PROVE  RoundInv'
    <2>1. \A q \in Ports : Live(q)' <=> Live(q)
      BY <1>6, GrowLateFields DEF Live
    <2> QED
      BY <1>6, <2>1, GrowLateFields DEF RoundLocals, Live
  <1>7. CASE EndRound \/ \E d \in srv.ready : RejectRequest(d)
    BY <1>7, PollingFields DEF RoundLocals, Live, Ports
  <1>8. ASSUME NEW d \in srv.ready, AcceptClient(d)
        PROVE  RoundInv'
    <2>1. srv'.phase = "poll" /\ srv'.ready = {} /\ srv'.todo = {} /\ srv'.dead = {}
      BY <1>8, AcceptFields DEF Swept
    <2> QED
      BY <2>1 DEF RoundLocals
  <1> QED
    BY <1>1, <1>2, <1>3, <1>4, <1>5, <1>6, <1>7, <1>8, NextShapes

LEMMA Rounds == Spec => [](TypeInv /\ RoundInv)
  BY TypeInvInit, TypeInvNext, RoundInvInit, RoundInvNext, PTL DEF Spec

\* RoundEndsTheLate, for any number of transfers: when a round of Run is over, every
\* transfer that had been silent for too long when poll returned has ended, or has
\* handled a datagram in that round.
THEOREM LateEnds == Spec => []RoundEndsTheLate
  <1>1. RoundInv => RoundEndsTheLate
    BY DEF RoundInv, RoundEndsTheLate, Swept, Live
  <1> QED
    BY <1>1, Rounds, PTL

\* EndedIsFinal, for any number of transfers and datagrams: once Handle has returned
\* that a transfer is over, or it has expired, nothing changes it any more.
THEOREM EndsForGood == Spec => EndedIsFinal
  <1>1. TypeInv /\ RoundInv /\ [Next]_vars
           => [\A p \in Ports : xfer[p].st # "live" => xfer'[p] = xfer[p]]_vars
    <2> SUFFICES ASSUME TypeInv, RoundInv, [Next]_vars, NEW q \in Ports, xfer[q].st # "live"
                 PROVE  xfer'[q] = xfer[q]
      OBVIOUS
    <2>1. RoundLocals
      BY DEF RoundInv
    <2>2. ASSUME NEW p \in Ports, NEW d \in srv.ready, ServeReady(p, d)
          PROVE  xfer'[q] = xfer[q]
      BY <2>1, <2>2, ServeReadyFields
    <2>3. ASSUME NEW p \in Ports, ServeExpired(p)
          PROVE  xfer'[q] = xfer[q]
      BY <2>1, <2>3, ServeExpiredFields
    <2>4. ASSUME NEW p \in Ports, GrowLate(p)
          PROVE  xfer'[q] = xfer[q]
      BY <2>4, GrowLateFields DEF Live
    <2>5. ASSUME NEW d \in srv.ready, AcceptClient(d)
          PROVE  xfer'[q] = xfer[q]
      BY <2>5, AcceptFields
    <2>6. ASSUME NEW p \in Ports, Sweep(p)
          PROVE  xfer'[q] = xfer[q]
      BY <2>6, SweepFields
    <2>7. CASE EndRound \/ \E d \in srv.ready : RejectRequest(d)
      BY <2>7, PollingFields
    <2> QED
      BY <2>2, <2>3, <2>4, <2>5, <2>6, <2>7, NextShapes DEF Poll
  <1> QED
    BY <1>1, Rounds, PTL DEF Spec, EndedIsFinal
---------------------------------------------------------------------------
(* Files.                                                                  *)

\* What a handled packet changes in the files: nothing, or the bytes an octet transfer
\* was given go behind those it was given before.
LEMMA WrittenFields ==
  ASSUME TypeInv, NEW x \in Transfers, NEW pkt \in Packets
  PROVE  LET y == HandlePacket(x, pkt).x
         IN  /\ y.kind = x.kind /\ y.mode = x.mode /\ y.file = x.file
             /\ \/ y.got = x.got /\ WrittenThrough(x, y) = stored
                \/ /\ x.kind = "write" /\ pkt.chunk \in Chunks /\ y.got = Append(x.got, pkt.chunk)
                   /\ WrittenThrough(x, y) =
                        IF x.mode = "octet" /\ x.file \in Writable
                        THEN [stored EXCEPT ![x.file] = Overwrite(@, Len(Given(x)), Bytes(pkt.chunk))]
                        ELSE stored
  <1> DEFINE y == HandlePacket(x, pkt).x
  <1>1. y \in Transfers /\ x.got \in Seq(Chunks) /\ y.got \in Seq(Chunks)
    BY HandlePacketType DEF Transfers
  <1>2. /\ y.kind = x.kind /\ y.mode = x.mode /\ y.file = x.file
        /\ \/ y.got = x.got
           \/ x.kind = "write" /\ pkt.op = "DATA" /\ y.got = Append(x.got, pkt.chunk)
    BY HandlePacketFrame
  <1> HIDE DEF y
  <1>3. CASE y.got = x.got
    <2>1. ~(Len(y.got) > Len(x.got))
      BY <1>1, <1>3
    <2> QED
      BY <1>1, <1>2, <1>3, <2>1 DEF WrittenThrough, y
  <1>4. CASE x.kind = "write" /\ pkt.op = "DATA" /\ y.got = Append(x.got, pkt.chunk)
    <2>1. pkt.chunk \in Chunks
      BY <1>4, PacketFields
    <2>2. Len(y.got) = Len(x.got) + 1 /\ y.got[Len(y.got)] = pkt.chunk /\ Len(y.got) > Len(x.got)
      BY <1>1, <1>4, <2>1
    <2>3. WrittenThrough(x, y) =
            IF x.mode = "octet" /\ x.file \in Writable
            THEN [stored EXCEPT ![x.file] = Overwrite(@, Len(Given(x)), Bytes(pkt.chunk))]
            ELSE stored
      BY <2>2 DEF WrittenThrough
    <2> QED
      BY <1>1, <1>2, <1>4, <2>1, <2>3 DEF y
  <1> QED
    BY <1>2, <1>3, <1>4

LEMMA PutType ==
  ASSUME TypeInv, NEW p \in Ports
  PROVE  /\ Given(xfer[p]) \in Seq(Byte) /\ Put(p) \in Seq(Byte)
         /\ xfer[p].mode = "octet" => Put(p) = Given(xfer[p])
  <1>1. xfer[p] \in Transfers
    BY PortTypes
  <1>2. Given(xfer[p]) \in Seq(Byte) /\ xfer[p].mode \in {"octet", "netascii"}
    BY <1>1, GivenType DEF Transfers
  <1> QED
    BY <1>2, TextType, EmptySeq DEF Put

\* A step, by what it does to file f and to the transfers that write to it.  What a
\* transfer has put stays as it was,
KeepsPut(q) == /\ xfer'[q].mode = xfer[q].mode /\ Put(q)' = Put(q)
               /\ xfer[q].mode = "netascii" => (Destroyed(q)' <=> Destroyed(q))
\* and so does the file;
Untouched(f) == /\ WritersOf(f)' = WritersOf(f) /\ stored'[f] = stored[f]
                /\ \A q \in WritersOf(f) : KeepsPut(q)
\* or an octet transfer writes more;
WritesOn(f, p, bytes) == /\ WritersOf(f)' = WritersOf(f)
                       /\ stored'[f] = Overwrite(stored[f], Len(Put(p)), bytes)
                       /\ xfer[p].mode = "octet" /\ xfer'[p].mode = "octet"
                       /\ Put(p)' = Put(p) \o bytes
                       /\ \A q \in WritersOf(f) \ {p} : KeepsPut(q)
\* or a netascii transfer is destroyed;
Destroys(f, p) == /\ WritersOf(f)' = WritersOf(f)
                  /\ stored'[f] = Put(p)'
                  /\ xfer[p].mode = "netascii" /\ xfer'[p].mode = "netascii"
                  /\ ~Destroyed(p) /\ Destroyed(p)'
                  /\ \A q \in WritersOf(f) \ {p} : KeepsPut(q)
\* or a transfer is opened, an octet one with an empty file.
Opens(f, n) == /\ WritersOf(f)' = WritersOf(f) \cup {n}
               /\ xfer'[n].mode \in {"octet", "netascii"}
               /\ \A q \in WritersOf(f) : q < n /\ KeepsPut(q)
               /\ Put(n)' = <<>>
               /\ stored'[f] = IF xfer'[n].mode = "octet" THEN <<>> ELSE stored[f]

LEMMA FileSteps ==
  ASSUME TypeInv, RoundInv, [Next]_vars, NEW f \in Writable
  PROVE  \/ Untouched(f)
         \/ \E p \in WritersOf(f), bytes \in Seq(Byte) : WritesOn(f, p, bytes)
         \/ \E p \in WritersOf(f) : Destroys(f, p)
         \/ \E n : Opens(f, n)
  <1>0. stored \in [Files -> Seq(Byte)] /\ RoundLocals /\ f \in Files
    BY WorkAssumption DEF TypeInv, TypeOK, RoundInv
  \* A transfer that has been given nothing more, and is as much destroyed as before.
  <1>a. ASSUME NEW q \in Ports, xfer'[q].mode = xfer[q].mode, xfer'[q].got = xfer[q].got,
               Destroyed(q)' <=> Destroyed(q)
        PROVE  KeepsPut(q)
    <2>1. Given(xfer'[q]) = Given(xfer[q])
      BY <1>a DEF Given, GivenBlocks
    <2> QED
      BY <1>a, <2>1 DEF KeepsPut, Put
  \* A step that does so to all transfers, or to all but one that does not write to f.
  <1>b. ASSUME Ports' = Ports, stored'[f] = stored[f],
               \A q \in Ports : xfer'[q].kind = xfer[q].kind /\ xfer'[q].file = xfer[q].file,
               \A q \in WritersOf(f) : /\ xfer'[q].mode = xfer[q].mode /\ xfer'[q].got = xfer[q].got
                                       /\ Destroyed(q)' <=> Destroyed(q)
        PROVE  Untouched(f)
    <2>1. WritersOf(f)' = WritersOf(f) /\ WritersOf(f) \subseteq Ports
      BY <1>b DEF WritersOf
    <2> QED
      BY <1>a, <1>b, <2>1 DEF Untouched
  <1>1. CASE UNCHANGED <<xfer, stored>> /\ srv'.dead = srv.dead
    BY <1>1, <1>b DEF Ports, Destroyed, Live
  <1>2. ASSUME NEW r \in Ports, NEW d \in srv.ready, ServeReady(r, d)
        PROVE  \/ Untouched(f)
               \/ \E p \in WritersOf(f), bytes \in Seq(Byte) : WritesOn(f, p, bytes)
    <2> DEFINE x == xfer[r]
               y == xfer'[r]
    <2>1. /\ d.pkt \in Packets /\ x \in Transfers /\ y \in Transfers /\ x.st = "live"
          /\ y = HandlePacket(x, d.pkt).x /\ stored' = WrittenThrough(x, y)
          /\ Ports' = Ports /\ \A q \in Ports \ {r} : xfer'[q] = xfer[q]
          /\ srv'.dead = IF y.st = "live" THEN srv.dead ELSE srv.dead \cup {r}
      BY <1>0, <1>2, ServeReadyFields
    <2> HIDE DEF x, y
    <2>2. /\ y.kind = x.kind /\ y.mode = x.mode /\ y.file = x.file
          /\ \/ y.got = x.got /\ stored' = stored
             \/ /\ x.kind = "write" /\ d.pkt.chunk \in Chunks /\ y.got = Append(x.got, d.pkt.chunk)
                /\ stored' = IF x.mode = "octet" /\ x.file \in Writable
                             THEN [stored EXCEPT ![x.file] =
                                       Overwrite(@, Len(Given(x)), Bytes(d.pkt.chunk))]
                             ELSE stored
      BY <2>1, WrittenFields
    <2>3. \A q \in Ports : xfer'[q].kind = xfer[q].kind /\ xfer'[q].file = xfer[q].file
                           /\ xfer'[q].mode = xfer[q].mode
      BY <2>1, <2>2 DEF x, y
    <2>4. \A q \in Ports : Destroyed(q)' <=> Destroyed(q)
      <3>1. ~Destroyed(r) /\ ~Destroyed(r)'
        BY <2>1 DEF Destroyed, Live, x, y
      <3>2. \A q \in Ports \ {r} : Destroyed(q)' <=> Destroyed(q)
        BY <2>1 DEF Destroyed, Live
      <3> QED
        BY <3>1, <3>2
    <2>5. WritersOf(f) \subseteq Ports /\ WritersOf(f)' = WritersOf(f)
      BY <2>1, <2>3 DEF WritersOf
    <2>6. CASE stored'[f] = stored[f] /\ (y.got = x.got \/ r \notin WritersOf(f))
      <3>1. \A q \in WritersOf(f) : xfer'[q].got = xfer[q].got
        BY <2>1, <2>5, <2>6 DEF x, y
      <3> QED
        BY <1>b, <2>1, <2>3, <2>4, <2>5, <2>6, <3>1
    <2>7. CASE r \in WritersOf(f) /\ x.mode = "netascii" /\ y.got # x.got
      <3>1. stored' = stored
        BY <2>2, <2>7
      <3>2. ~Destroyed(r) /\ ~Destroyed(r)'
        BY <2>1 DEF Destroyed, Live, x, y
      <3>3. KeepsPut(r)
        BY <2>2, <2>7, <3>2 DEF KeepsPut, Put, x, y
      <3>4. \A q \in WritersOf(f) \ {r} : KeepsPut(q)
        BY <1>a, <2>1, <2>4, <2>5
      <3> QED
        BY <2>5, <3>1, <3>3, <3>4 DEF Untouched
    <2>8. CASE r \in WritersOf(f) /\ x.mode # "netascii" /\ y.got # x.got
      <3> DEFINE bytes == Bytes(d.pkt.chunk)
      <3>1. x.mode = "octet" /\ x.file = f
        BY <2>1, <2>8 DEF Transfers, WritersOf, x
      <3>2. bytes \in Seq(Byte) /\ Given(y) = Given(x) \o bytes
        BY <2>1, <2>2, <2>8, BytesType, GivenAppend
      <3>3. Put(r) = Given(x) /\ Put(r)' = Given(y)
        BY <2>2, <3>1 DEF Put, x, y
      <3>4. stored'[f] = Overwrite(stored[f], Len(Given(x)), bytes)
        BY <1>0, <2>2, <2>8, <3>1
      <3>5. \A q \in WritersOf(f) \ {r} : KeepsPut(q)
        BY <1>a, <2>1, <2>4, <2>5
      <3> HIDE DEF bytes
      <3>6. WritesOn(f, r, bytes)
        BY <2>2, <2>5, <3>1, <3>2, <3>3, <3>4, <3>5 DEF WritesOn, x, y
      <3> QED
        BY <2>8, <3>2, <3>6
    <2>9. r \notin WritersOf(f) => stored'[f] = stored[f]
      BY <1>0, <1>2, <2>2 DEF WritersOf, x
    <2> QED
      BY <2>2, <2>6, <2>7, <2>8, <2>9
  <1>3. ASSUME NEW r \in Ports, ServeExpired(r)
        PROVE  Untouched(f)
    <2>1. /\ xfer[r].st = "live" /\ xfer'[r].st = "expired" /\ stored' = stored /\ Ports' = Ports
          /\ \A q \in Ports : /\ xfer'[q].kind = xfer[q].kind /\ xfer'[q].file = xfer[q].file
                              /\ xfer'[q].mode = xfer[q].mode /\ xfer'[q].got = xfer[q].got
          /\ \A q \in Ports \ {r} : xfer'[q] = xfer[q]
          /\ srv'.dead = srv.dead \cup {r}
      BY <1>0, <1>3, ServeExpiredFields
    <2>2. \A q \in Ports : Destroyed(q)' <=> Destroyed(q)
      BY <2>1 DEF Destroyed, Live
    <2>3. WritersOf(f) \subseteq Ports
      BY DEF WritersOf
    <2> QED
      BY <1>b, <2>1, <2>2, <2>3
  <1>4. ASSUME NEW r \in Ports, Sweep(r)
        PROVE  Untouched(f) \/ \E p \in WritersOf(f) : Destroys(f, p)
    <2>1. /\ xfer' = xfer /\ Ports' = Ports /\ xfer[r] \in Transfers /\ r \in srv.dead /\ ~Live(r)
          /\ stored' = WrittenAtEnd(xfer[r]) /\ srv'.dead = srv.dead \ {r}
      BY <1>4, SweepFields, PortTypes DEF Ports, RoundInv
    <2>2. /\ ~Destroyed(r) /\ Destroyed(r)'
          /\ \A q \in Ports \ {r} : Destroyed(q)' <=> Destroyed(q)
      BY <2>1 DEF Destroyed, Live
    <2>3. WritersOf(f) \subseteq Ports /\ WritersOf(f)' = WritersOf(f)
      BY <2>1 DEF WritersOf
    <2>4. \A q \in WritersOf(f) \ {r} : KeepsPut(q)
      BY <1>a, <2>1, <2>2, <2>3
    <2>5. CASE r \in WritersOf(f) /\ xfer[r].mode = "netascii"
      <3>1. xfer[r].kind = "write" /\ xfer[r].file = f
        BY <2>5 DEF WritersOf
      <3>2. stored'[f] = FromNetASCII(Given(xfer[r]))
        BY <1>0, <2>1, <2>5, <3>1 DEF WrittenAtEnd
      <3>3. Put(r)' = FromNetASCII(Given(xfer[r]))
        BY <2>1, <2>2, <2>5 DEF Put
      <3> QED
        BY <2>1, <2>2, <2>3, <2>4, <2>5, <3>2, <3>3 DEF Destroys
    <2>6. CASE r \in WritersOf(f) /\ xfer[r].mode # "netascii"
      <3>1. stored' = stored /\ xfer[r].mode = "octet"
        BY <2>1, <2>6 DEF WrittenAtEnd, Transfers
      <3>2. KeepsPut(r)
        BY <2>1, <3>1 DEF KeepsPut, Put
      <3> QED
        BY <2>3, <2>4, <3>1, <3>2 DEF Untouched
    <2>7. CASE r \notin WritersOf(f)
      <3>1. stored'[f] = stored[f]
        BY <1>0, <1>4, <2>1, <2>7 DEF WrittenAtEnd, WritersOf
      <3> QED
        BY <2>3, <2>4, <2>7, <3>1 DEF Untouched
    <2> QED
      BY <2>5, <2>6, <2>7
  <1>5. ASSUME NEW r \in Ports, GrowLate(r)
        PROVE  Untouched(f)
    <2>1. /\ Ports' = Ports /\ UNCHANGED <<srv, stored>>
          /\ \A q \in Ports : /\ xfer'[q].kind = xfer[q].kind /\ xfer'[q].file = xfer[q].file
                              /\ xfer'[q].mode = xfer[q].mode /\ xfer'[q].got = xfer[q].got
                              /\ xfer'[q].st = xfer[q].st
      BY <1>5, GrowLateFields
    <2>2. \A q \in Ports : Destroyed(q)' <=> Destroyed(q)
      BY <2>1 DEF Destroyed, Live
    <2>3. WritersOf(f) \subseteq Ports
      BY DEF WritersOf
    <2> QED
      BY <1>b, <2>1, <2>2, <2>3
  <1>6. ASSUME NEW d \in srv.ready, AcceptClient(d)
        PROVE  Untouched(f) \/ \E n : Opens(f, n)
    <2>0. PICK n : n = Len(xfer) + 1
      OBVIOUS
    <2> DEFINE y == xfer'[n]
    <2>1. /\ n \notin Ports /\ Ports' = Ports \cup {n} /\ y \in Transfers
          /\ \A q \in Ports : xfer'[q] = xfer[q]
          /\ y.got = <<>> /\ srv'.dead = srv.dead
          /\ stored' = IF y.kind = "write" /\ y.mode = "octet" /\ y.file \in Writable
                       THEN [stored EXCEPT ![y.file] = <<>>] ELSE stored
      BY <1>6, <2>0, AcceptFields
    <2>2. Ports = 1 .. Len(xfer) /\ Len(xfer) \in Nat /\ \A q \in Ports : q < n
      BY <2>0, PortTypes
    <2>3. \A q \in Ports : KeepsPut(q)
      <3>1. \A q \in Ports : Destroyed(q)' <=> Destroyed(q)
        BY <2>1 DEF Destroyed, Live
      <3> QED
        BY <1>a, <2>1, <3>1
    <2> HIDE DEF y
    <2>4. WritersOf(f) \subseteq Ports
      BY DEF WritersOf
    <2>5. CASE y.kind = "write" /\ y.file = f
      <3>1. WritersOf(f)' = WritersOf(f) \cup {n}
        BY <2>1, <2>5 DEF WritersOf, y
      <3>2. y.mode \in {"octet", "netascii"} /\ Given(y) = <<>>
        BY <2>1, GivenNothing DEF Transfers
      <3>3. Put(n)' = <<>>
        <4>1. xfer'[n] = y
          BY DEF y
        <4>2. CASE y.mode = "octet"
          BY <3>2, <4>1, <4>2 DEF Put
        <4>3. CASE y.mode = "netascii" /\ Destroyed(n)'
          BY <3>2, <4>1, <4>3, NoText DEF Put
        <4>4. CASE y.mode = "netascii" /\ ~Destroyed(n)'
          BY <3>2, <4>1, <4>4 DEF Put
        <4> QED
          BY <3>2, <4>2, <4>3, <4>4
      <3>4. stored'[f] = IF y.mode = "octet" THEN <<>> ELSE stored[f]
        BY <1>0, <2>1, <2>5
      <3>5. Opens(f, n)
        BY <2>2, <2>3, <2>4, <3>1, <3>2, <3>3, <3>4 DEF Opens, y
      <3> QED
        BY <3>5
    <2>6. CASE ~(y.kind = "write" /\ y.file = f)
      <3>1. WritersOf(f)' = WritersOf(f)
        BY <2>1, <2>6 DEF WritersOf, y
      <3>2. stored'[f] = stored[f]
        BY <1>0, <2>1, <2>6
      <3> QED
        BY <2>3, <2>4, <3>1, <3>2 DEF Untouched
    <2> QED
      BY <2>5, <2>6
  <1>7. CASE \E arrived \in SUBSET net : Poll(arrived)
    BY <1>1, <1>7 DEF Poll, RoundInv
  <1>8. CASE EndRound \/ \E d \in srv.ready : RejectRequest(d)
    BY <1>1, <1>8, PollingFields DEF Swept
  <1>9. CASE UNCHANGED <<xfer, srv, stored>>
    BY <1>1, <1>9
  <1> QED
    BY <1>2, <1>3, <1>4, <1>5, <1>6, <1>7, <1>8, <1>9, NextShapes

\* The byte of file f at place k is there for a reason that p gives.
Explains(f, k, p) == \/ k \in DOMAIN Put(p) /\ stored[f][k] = Put(p)[k]
                     \/ /\ stored[f][k] = NUL /\ k <= Len(Put(p))
                        /\ xfer[p].mode = "octet" /\ Emptied(f, p)

\* File f: it is as long as what an octet transfer has put into it, unless another
\* one has emptied it since; every byte is explained; and it is as it was given.
FileInv(f) ==
  /\ \A p \in WritersOf(f) : xfer[p].mode = "octet" =>
         Len(Put(p)) <= Len(stored[f]) \/ Emptied(f, p)
  /\ \A k \in DOMAIN stored[f] : \E p \in WritersOf(f) : Explains(f, k, p)
  /\ \A p \in WritersOf(f) : WritersOf(f) = {p} => stored[f] = Put(p)
FilesInv == \A f \in Writable : FileInv(f)

\* What an argument about a file takes for granted.
LEMMA FileTypes ==
  ASSUME TypeInv, NEW f \in Writable
  PROVE  /\ stored[f] \in Seq(Byte) /\ Len(stored[f]) \in Nat /\ DOMAIN stored[f] = 1 .. Len(stored[f])
         /\ \A q \in WritersOf(f) :
              /\ xfer[q].mode \in {"octet", "netascii"}
              /\ Put(q) \in Seq(Byte) /\ Len(Put(q)) \in Nat /\ DOMAIN Put(q) = 1 .. Len(Put(q))
  <1>1. stored[f] \in Seq(Byte)
    BY WorkAssumption DEF TypeInv, TypeOK
  <1>2. ASSUME NEW q \in WritersOf(f)
        PROVE  xfer[q].mode \in {"octet", "netascii"} /\ Put(q) \in Seq(Byte)
    <2>1. q \in Ports
      BY DEF WritersOf
    <2> QED
      BY <2>1, PutType, PortTypes DEF Transfers
  <1> QED
    BY <1>1, <1>2, LenProperties

\* What has been emptied stays so.
LEMMA StaysEmptied ==
  ASSUME NEW f, NEW p, Emptied(f, p), WritersOf(f) \subseteq WritersOf(f)',
         \A q \in WritersOf(f) : /\ xfer'[q].mode = xfer[q].mode
                                 /\ xfer[q].mode \in {"octet", "netascii"}
                                 /\ xfer[q].mode = "netascii" /\ Destroyed(q) => Destroyed(q)'
  PROVE  Emptied(f, p)'
  <1>1. PICK q \in WritersOf(f) \ {p} : IF xfer[q].mode = "octet" THEN q > p ELSE Destroyed(q)
    BY DEF Emptied
  <1>2. q \in WritersOf(f)' /\ q # p /\ IF xfer'[q].mode = "octet" THEN q > p ELSE Destroyed(q)'
    BY <1>1
  <1> QED
    BY <1>2 DEF Emptied

LEMMA FileUntouched ==
  ASSUME TypeInv, NEW f \in Writable, FileInv(f), Untouched(f)
  PROVE  FileInv(f)'
  <1>1. /\ WritersOf(f)' = WritersOf(f) /\ stored'[f] = stored[f]
        /\ \A q \in WritersOf(f) : KeepsPut(q) /\ xfer[q].mode \in {"octet", "netascii"}
    BY FileTypes DEF Untouched
  <1>2. ASSUME NEW p, Emptied(f, p)
        PROVE  Emptied(f, p)'
    BY <1>1, <1>2, StaysEmptied DEF KeepsPut
  <1>3. \A p \in WritersOf(f)' : xfer'[p].mode = "octet" =>
            Len(Put(p)') <= Len(stored'[f]) \/ Emptied(f, p)'
    BY <1>1, <1>2 DEF KeepsPut, FileInv
  <1>4. ASSUME NEW k \in DOMAIN stored'[f]
        PROVE  \E p \in WritersOf(f)' : Explains(f, k, p)'
    <2>1. PICK p \in WritersOf(f) : Explains(f, k, p)
      BY <1>1, <1>4 DEF FileInv
    <2>2. Explains(f, k, p)'
      BY <1>1, <1>2, <2>1 DEF Explains, KeepsPut
    <2> QED
      BY <1>1, <2>2
  <1>5. \A p \in WritersOf(f)' : WritersOf(f)' = {p} => stored'[f] = Put(p)'
    BY <1>1 DEF KeepsPut, FileInv
  <1> QED
    BY <1>3, <1>4, <1>5 DEF FileInv

LEMMA FileWritten ==
  ASSUME TypeInv, NEW f \in Writable, FileInv(f),
         NEW p \in WritersOf(f), NEW bytes \in Seq(Byte), WritesOn(f, p, bytes)
  PROVE  FileInv(f)'
  <1> DEFINE s == stored[f]
             t == stored'[f]
             n == Len(Put(p))
             m == Len(bytes)
  <1>1. /\ WritersOf(f)' = WritersOf(f) /\ t = Overwrite(s, n, bytes)
        /\ xfer[p].mode = "octet" /\ xfer'[p].mode = "octet" /\ Put(p)' = Put(p) \o bytes
        /\ \A q \in WritersOf(f) \ {p} : KeepsPut(q)
    BY DEF WritesOn
  <1>2. /\ s \in Seq(Byte) /\ Len(s) \in Nat /\ DOMAIN s = 1 .. Len(s) /\ n \in Nat /\ m \in Nat
        /\ \A q \in WritersOf(f) :
             /\ xfer[q].mode \in {"octet", "netascii"}
             /\ Put(q) \in Seq(Byte) /\ Len(Put(q)) \in Nat /\ DOMAIN Put(q) = 1 .. Len(Put(q))
    BY FileTypes, LenProperties
  <1>3. /\ Len(Put(p)') = n + m /\ DOMAIN Put(p)' = 1 .. n + m
        /\ \A k \in 1 .. n + m : Put(p)'[k] = IF k <= n THEN Put(p)[k] ELSE bytes[k - n]
    <2>1. /\ Put(p) \o bytes \in Seq(Byte) /\ Len(Put(p) \o bytes) = n + m
          /\ \A k \in 1 .. Len(Put(p) \o bytes) :
               (Put(p) \o bytes)[k] = IF k <= n THEN Put(p)[k] ELSE bytes[k - n]
      BY <1>2, ConcatProperties
    <2> QED
      BY <1>1, <2>1, LenProperties
  <1>4. /\ t \in Seq(Byte) /\ Len(t) \in Nat /\ DOMAIN t = 1 .. Len(t) /\ Len(t) >= Len(s)
        /\ bytes = <<>> => t = s /\ m = 0
        /\ bytes # <<>> =>
             /\ Len(t) >= n + m
             /\ \A k \in 1 .. Len(t) : t[k] = IF k \in n + 1 .. n + m THEN bytes[k - n]
                                              ELSE IF k <= Len(s) THEN s[k] ELSE NUL
             /\ \A k \in 1 .. Len(t) : k <= Len(s) \/ k <= n + m
    BY <1>1, <1>2, OverwriteBytes, LenProperties
  <1>5. ASSUME NEW q, Emptied(f, q)
        PROVE  Emptied(f, q)'
    BY <1>1, <1>2, <1>5, StaysEmptied DEF KeepsPut
  <1>6. ASSUME NEW q \in WritersOf(f), NEW k \in DOMAIN t, k <= Len(s), Explains(f, k, q), t[k] = s[k]
        PROVE  Explains(f, k, q)'
    <2>1. CASE q # p
      BY <1>1, <1>5, <1>6, <2>1 DEF Explains, KeepsPut
    <2>2. CASE q = p /\ k \in DOMAIN Put(p) /\ s[k] = Put(p)[k]
      <3>1. k \in 1 .. n /\ k \in DOMAIN Put(p)' /\ Put(p)'[k] = Put(p)[k]
        BY <1>2, <1>3, <2>2
      <3> QED
        BY <1>6, <2>2, <3>1 DEF Explains
    <2>3. CASE q = p /\ s[k] = NUL /\ k <= n /\ Emptied(f, p)
      <3>1. k <= Len(Put(p)') /\ Emptied(f, p)'
        <4>1. k \in Nat
          BY <1>4
        <4> QED
          BY <1>2, <1>3, <1>5, <2>3, <4>1
      <3> QED
        BY <1>1, <1>6, <2>3, <3>1 DEF Explains
    <2>4. q = p => \/ k \in DOMAIN Put(p) /\ s[k] = Put(p)[k]
                   \/ s[k] = NUL /\ k <= n /\ Emptied(f, p)
      BY <1>6 DEF Explains
    <2> QED
      BY <2>1, <2>2, <2>3, <2>4
  <1> HIDE DEF s, t, n, m
  <1>7. ASSUME NEW q \in WritersOf(f)', xfer'[q].mode = "octet"
        PROVE  Len(Put(q)') <= Len(stored'[f]) \/ Emptied(f, q)'
    <2>1. CASE q # p
      BY <1>1, <1>2, <1>4, <1>5, <1>7, <2>1 DEF FileInv, KeepsPut, s, t
    <2>2. CASE q = p /\ bytes = <<>>
      BY <1>1, <1>2, <1>3, <1>4, <1>5, <2>2 DEF FileInv, s, t, n
    <2>3. CASE q = p /\ bytes # <<>>
      BY <1>3, <1>4, <2>3 DEF t
    <2> QED
      BY <2>1, <2>2, <2>3
  <1>8. ASSUME NEW k \in DOMAIN stored'[f]
        PROVE  \E q \in WritersOf(f)' : Explains(f, k, q)'
    <2>1. k \in 1 .. Len(t)
      BY <1>4, <1>8 DEF t
    <2>2. CASE bytes # <<>> /\ k \in n + 1 .. n + m
      <3>1. k \in DOMAIN Put(p)' /\ stored'[f][k] = Put(p)'[k]
        BY <1>2, <1>3, <1>4, <2>1, <2>2 DEF t
      <3> QED
        BY <1>1, <3>1 DEF Explains
    <2>3. CASE k <= Len(s) /\ ~(bytes # <<>> /\ k \in n + 1 .. n + m)
      <3>1. t[k] = s[k] /\ k \in DOMAIN s
        BY <1>2, <1>4, <2>1, <2>3
      <3>2. PICK q \in WritersOf(f) : Explains(f, k, q)
        BY <3>1 DEF FileInv, s
      <3>3. Explains(f, k, q)'
        BY <1>4, <1>6, <2>1, <2>3, <3>1, <3>2
      <3> QED
        BY <1>1, <3>3
    <2>4. CASE ~(k <= Len(s)) /\ ~(bytes # <<>> /\ k \in n + 1 .. n + m)
      <3>1. bytes # <<>> /\ t[k] = NUL /\ k <= n /\ n > Len(s)
        BY <1>2, <1>4, <2>1, <2>4
      <3>2. Emptied(f, p)'
        BY <1>1, <1>2, <1>5, <3>1 DEF FileInv, s, n
      <3>3. k <= Len(Put(p)')
        BY <1>2, <1>3, <2>1, <3>1
      <3> QED
        BY <1>1, <3>1, <3>2, <3>3 DEF Explains, t
    <2> QED
      BY <2>2, <2>3, <2>4
  <1>9. ASSUME NEW q \in WritersOf(f)', WritersOf(f)' = {q}
        PROVE  stored'[f] = Put(q)'
    <2>1. q = p /\ s = Put(p)
      BY <1>1, <1>9 DEF FileInv, s
    <2>2. t = s \o bytes
      BY <1>1, <1>2, <2>1, OverwriteEnd DEF n
    <2> QED
      BY <1>1, <2>1, <2>2 DEF t
  <1> QED
    BY <1>7, <1>8, <1>9 DEF FileInv

LEMMA FileDestroyed ==
  ASSUME TypeInv, NEW f \in Writable, FileInv(f), NEW p \in WritersOf(f), Destroys(f, p)
  PROVE  FileInv(f)'
  <1>1. /\ WritersOf(f)' = WritersOf(f) /\ stored'[f] = Put(p)'
        /\ xfer'[p].mode = "netascii" /\ Destroyed(p)'
    BY DEF Destroys
  <1>2. \A q \in WritersOf(f)' : xfer'[q].mode = "octet" => Emptied(f, q)'
    BY <1>1 DEF Emptied
  <1>3. \A k \in DOMAIN stored'[f] : Explains(f, k, p)'
    BY <1>1 DEF Explains
  <1>4. \A q \in WritersOf(f)' : WritersOf(f)' = {q} => stored'[f] = Put(q)'
    BY <1>1
  <1> QED
    BY <1>1, <1>2, <1>3, <1>4 DEF FileInv

LEMMA FileOpened ==
  ASSUME TypeInv, NEW f \in Writable, FileInv(f), NEW n, Opens(f, n)
  PROVE  FileInv(f)'
  <1>1. /\ WritersOf(f)' = WritersOf(f) \cup {n} /\ xfer'[n].mode \in {"octet", "netascii"}
        /\ \A q \in WritersOf(f) : q < n /\ KeepsPut(q)
        /\ Put(n)' = <<>>
        /\ stored'[f] = IF xfer'[n].mode = "octet" THEN <<>> ELSE stored[f]
    BY DEF Opens
  <1>2. /\ stored[f] \in Seq(Byte) /\ Len(stored[f]) \in Nat /\ DOMAIN stored[f] = 1 .. Len(stored[f])
        /\ \A q \in WritersOf(f) :
             q \in Nat /\ xfer[q].mode \in {"octet", "netascii"} /\ Len(Put(q)) \in Nat
    <2>1. \A q \in WritersOf(f) : q \in Nat
      BY PortTypes DEF WritersOf
    <2> QED
      BY <2>1, FileTypes
  <1>3. n \notin WritersOf(f)
    BY <1>1, <1>2
  <1>4. CASE xfer'[n].mode = "octet"
    <2>1. stored'[f] = <<>>
      BY <1>1, <1>4
    <2>2. ASSUME NEW q \in WritersOf(f)
          PROVE  Emptied(f, q)'
      <3>1. n \in WritersOf(f)' \ {q} /\ n > q
        BY <1>1, <1>3
      <3> QED
        BY <1>4, <3>1 DEF Emptied
    <2>3. Len(Put(n)') <= Len(stored'[f])
      BY <1>1, <2>1
    <2>4. \A q \in WritersOf(f)' : xfer'[q].mode = "octet" =>
              Len(Put(q)') <= Len(stored'[f]) \/ Emptied(f, q)'
      BY <1>1, <2>2, <2>3
    <2>5. DOMAIN stored'[f] = {}
      BY <2>1
    <2>6. \A q \in WritersOf(f)' : WritersOf(f)' = {q} => stored'[f] = Put(q)'
      BY <1>1, <2>1
    <2> QED
      BY <2>4, <2>5, <2>6 DEF FileInv
  <1>5. CASE xfer'[n].mode = "netascii"
    <2>1. stored'[f] = stored[f]
      BY <1>1, <1>5
    <2>2. ASSUME NEW q, Emptied(f, q)
          PROVE  Emptied(f, q)'
      BY <1>1, <1>2, <2>2, StaysEmptied DEF KeepsPut
    <2>3. \A q \in WritersOf(f)' : xfer'[q].mode = "octet" =>
              Len(Put(q)') <= Len(stored'[f]) \/ Emptied(f, q)'
      BY <1>1, <1>5, <2>1, <2>2 DEF FileInv, KeepsPut
    <2>4. ASSUME NEW k \in DOMAIN stored'[f]
          PROVE  \E q \in WritersOf(f)' : Explains(f, k, q)'
      <3>1. PICK q \in WritersOf(f) : Explains(f, k, q)
        BY <2>1, <2>4 DEF FileInv
      <3>2. Explains(f, k, q)'
        BY <1>1, <2>1, <2>2, <3>1 DEF Explains, KeepsPut
      <3> QED
        BY <1>1, <3>2
    <2>5. ASSUME NEW q \in WritersOf(f)', WritersOf(f)' = {q}
          PROVE  stored'[f] = Put(q)'
      <3>1. q = n /\ WritersOf(f) = {}
        BY <1>1, <1>3, <2>5
      <3>2. DOMAIN stored[f] = {}
        BY <3>1 DEF FileInv
      <3>3. Len(stored[f]) = 0
        <4>1. 1 \notin 1 .. Len(stored[f])
          BY <1>2, <3>2
        <4> QED
          BY <1>2, <4>1
      <3>4. stored[f] = <<>>
        BY <1>2, <3>3, EmptySeq
      <3> QED
        BY <1>1, <2>1, <3>1, <3>4
    <2> QED
      BY <2>3, <2>4, <2>5 DEF FileInv
  <1> QED
    BY <1>1, <1>4, <1>5

LEMMA FilesInvInit == Init => FilesInv
  <1> SUFFICES ASSUME Init, NEW f \in Writable
               PROVE  FileInv(f)
    BY DEF FilesInv
  <1>1. f \in Files /\ xfer = <<>> /\ stored[f] = <<>>
    BY WorkAssumption DEF Init
  <1>2. WritersOf(f) = {} /\ DOMAIN stored[f] = {}
    BY <1>1 DEF WritersOf, Ports
  <1> QED
    BY <1>2 DEF FileInv

LEMMA FilesInvNext == TypeInv /\ RoundInv /\ FilesInv /\ [Next]_vars => FilesInv'
  <1> SUFFICES ASSUME TypeInv, RoundInv, FilesInv, [Next]_vars, NEW f \in Writable
               PROVE  FileInv(f)'
    BY DEF FilesInv
  <1>1. FileInv(f)
    BY DEF FilesInv
  <1> QED
    BY <1>1, FileSteps, FileUntouched, FileWritten, FileDestroyed, FileOpened

LEMMA FilesHold == Spec => []FilesInv
  BY Rounds, FilesInvInit, FilesInvNext, PTL DEF Spec

\* StoredInPlace, for any number of transfers, files, lengths and texts: an octet
\* transfer writes behind what it has written, a netascii one empties the file and
\* writes its text when it is destroyed, so what others have put there stays, or is
\* gone, or leaves a hole of zeros where an octet transfer had got further.
THEOREM BlocksInPlace == Spec => []StoredInPlace
  <1>1. FilesInv => StoredInPlace
    BY DEF FilesInv, FileInv, Explains, StoredInPlace
  <1> QED
    BY <1>1, FilesHold, PTL

\* StoredAsGiven, for any number of transfers, files, lengths and texts: a file only one
\* transfer was opened on holds the octets it was given so far, or, once it has been
\* destroyed, the text they encode, and otherwise nothing.
THEOREM FilesAsGiven == Spec => []StoredAsGiven
  <1>1. FilesInv => StoredAsGiven
    BY DEF FilesInv, FileInv, StoredAsGiven
  <1> QED
    BY <1>1, FilesHold, PTL

---------------------------------------------------------------------------
(* Read delivers a prefix of the file, block by block, whatever the        *)
(* network does.  The argument: the number of a block on the wire is at    *)
(* most its real number, the server has sent no block beyond the one the   *)
(* client expects, so a block whose number matches is the expected one.    *)

\* A reading transfer moves on, by one block, only on the ACK (or the request) it
\* waits for, and sends a block only then.
LEMMA HandlePacketRead ==
  ASSUME NEW x \in Transfers, NEW pkt \in Packets, x.kind = "read"
  PROVE  LET y == HandlePacket(x, pkt).x
             s == HandlePacket(x, pkt).send
         IN  \/ /\ y.pos = x.pos /\ y.id = x.id /\ y.st \in {x.st, "failed"}
                /\ \A q \in s : q.op = "ERROR"
             \/ /\ IsRequest(pkt) \/ pkt.op = "ACK"
                /\ VisitedId(pkt) = x.id /\ y.id = NextId(x.id)
                /\ \/ y.pos = x.pos /\ y.st = "over" /\ s = {}
                   \/ /\ y.pos = x.pos + 1 /\ y.st = x.st
                      /\ s = {Data(y.id, FileChunk(x.file, y.pos))}
  <1>1. CASE pkt = Garbled \/ pkt.op = "ERROR" \/ AnswerError(x, pkt) # {} \/ VisitedId(pkt) # x.id
    <2>1. \A q \in AnswerError(x, pkt) \cup {Illegal} : q.op = "ERROR"
      BY DEF AnswerError, Illegal, Error
    <2>2. \/ \E pkts \in {{}, {Illegal}, AnswerError(x, pkt)} : HandlePacket(x, pkt) = Ended(x, "failed", pkts)
          \/ HandlePacket(x, pkt) = Handled(x, {})
      BY <1>1 DEF HandlePacket
    <2>3. ASSUME NEW pkts \in {{}, {Illegal}, AnswerError(x, pkt)},
                 HandlePacket(x, pkt) = Ended(x, "failed", pkts)
          PROVE  /\ HandlePacket(x, pkt).x.pos = x.pos /\ HandlePacket(x, pkt).x.id = x.id
                 /\ HandlePacket(x, pkt).x.st = "failed"
                 /\ \A q \in HandlePacket(x, pkt).send : q.op = "ERROR"
      <3>1. \A q \in pkts : q.op = "ERROR"
        BY <2>1
      <3> QED
        BY <2>3, <3>1, HandledFields
    <2>4. CASE HandlePacket(x, pkt) = Handled(x, {})
      BY <2>4, HandledFields
    <2> QED
      BY <2>2, <2>3, <2>4
  <1>2. CASE ~(pkt = Garbled \/ pkt.op = "ERROR" \/ AnswerError(x, pkt) # {} \/ VisitedId(pkt) # x.id)
    <2>1. HandlePacket(x, pkt) = HandleAck(x)
      BY <1>2 DEF HandlePacket
    <2>2. IsRequest(pkt) \/ pkt.op = "ACK"
      BY <1>2, PacketFields DEF AnswerError, IsRequest
    <2>3. VisitedId(pkt) = x.id
      BY <1>2
    <2> QED
      BY <2>1, <2>2, <2>3, HandleAckFields
  <1> QED
    BY <1>1, <1>2

---------------------------------------------------------------------------
(* The inductive invariant, one lemma for each shape of step.              *)

\* A step of client c that takes datagram d: it may bind itself to d's port,
\* accept a block, and send one packet that is no request.
LEMMA ClientStepRead ==
  ASSUME TypeInv, ReadInv,
         NEW c \in Clients, NEW d \in net, NEW next \in ClientStates, NEW port,
         NEW pkts \in SUBSET Packets,
         Received(c, d), ClientStep(c, d, next, port, pkts),
         cl[c].pc # "idle", next.pc # "idle",
         next.peer \in {cl[c].peer, d.port}, port \in {d.port, next.peer}, port # NoPort,
         \A q \in pkts : ~IsRequest(q),
         c \in Readers => /\ cl[c].peer \in {NoPort, next.peer}
                          /\ cl[c].block >= 1 /\ next.block >= cl[c].block
                          /\ ReaderLocal(c, next)
                          /\ \A q \in pkts : q.op = "ACK" => /\ port = next.peer
                                                             /\ Wire(q).id < next.block
  PROVE  ReadInv'
  <1>1. /\ cl' = [cl EXCEPT ![c] = next] /\ net' = (net \ {d}) \cup Up(c, port, pkts)
        /\ xfer' = xfer /\ srv' = srv
    BY DEF ClientStep
  <1>2. cl \in [Clients -> ClientStates] /\ cl'[c] = next
        /\ \A e \in Clients \ {c} : cl'[e] = cl[e]
    BY <1>1 DEF TypeInv, TypeOK
  <1>3. \A e \in net' : e \in net \/ e \in Up(c, port, pkts)
    BY <1>1
  <1>4. \A e \in InFlight' : e \in InFlight \/ e \in Up(c, port, pkts)
    BY <1>1 DEF InFlight
  <1>5. \A e \in Up(c, port, pkts) : /\ e.dir = "up" /\ e.c = c /\ e.port = port
                                    /\ ~IsRequest(e.pkt)
                                    /\ \E q \in pkts : e.pkt = Wire(q) /\ e.pkt.op = q.op
    BY SentFields, WireOp
  <1>6. d.port # RequestPort => d.port \in Ports /\ xfer[d.port].peer = c
    BY DEF Received, ReadInv, OwnPorts, InFlight
  <1>7. next.peer \notin {NoPort, RequestPort} => next.peer \in Ports /\ xfer[next.peer].peer = c
    BY <1>6 DEF ReadInv, OwnPorts
  <1>8. OwnPorts'
    <2>1. \A e \in Clients : cl'[e].peer \notin {NoPort, RequestPort}
                               => cl'[e].peer \in Ports' /\ xfer'[cl'[e].peer].peer = e
      BY <1>1, <1>2, <1>7 DEF ReadInv, OwnPorts, Ports
    <2>2. \A e \in InFlight' : e.port # RequestPort => e.port \in Ports' /\ xfer'[e.port].peer = e.c
      BY <1>1, <1>4, <1>5, <1>6, <1>7 DEF ReadInv, OwnPorts, Ports
    <2> QED
      BY <2>1, <2>2 DEF OwnPorts
  <1>9. RoundLocals'
    BY <1>1 DEF ReadInv, RoundLocals, Live, Ports
  <1>10. ReaderLocals'
    BY <1>2 DEF ReadInv, ReaderLocals, Readers, ReaderLocal
  <1>11. ReadTransfers'
    <2> SUFFICES ASSUME NEW p \in Ports, xfer[p].peer \in Readers
                 PROVE  LET e == xfer[p].peer
                        IN  /\ xfer[p].kind = "read" /\ xfer[p].file = Target[e]
                            /\ cl'[e].pc # "idle"
                            /\ Live(p) => xfer[p].id = xfer[p].pos
                            /\ xfer[p].pos <= IF cl'[e].peer = p THEN cl'[e].block ELSE 1
      BY <1>1 DEF ReadTransfers, Ports, Live, Readers
    <2>1. xfer[p].peer \in Clients /\ p # NoPort /\ xfer[p].pos \in Nat
      BY PortTypes DEF Transfers, NoPort
    <2>2. CASE xfer[p].peer # c
      BY <1>2, <2>1, <2>2 DEF ReadInv, ReadTransfers
    <2>3. CASE xfer[p].peer = c
      <3>1. /\ xfer[p].kind = "read" /\ xfer[p].file = Target[c]
            /\ Live(p) => xfer[p].id = xfer[p].pos
            /\ xfer[p].pos <= IF cl[c].peer = p THEN cl[c].block ELSE 1
        BY <2>3 DEF ReadInv, ReadTransfers
      <3>2. next.block \in Nat /\ cl[c].block \in Nat
        BY <1>2 DEF ClientStates
      <3>3. xfer[p].pos <= IF next.peer = p THEN next.block ELSE 1
        BY <2>1, <2>3, <3>1, <3>2
      <3> QED
        BY <1>2, <2>3, <3>1, <3>3
    <2> QED
      BY <2>2, <2>3
  <1>12. DataInFlight'
    BY <1>1, <1>3, <1>5 DEF ReadInv, DataInFlight, Ports, Readers
  <1>13. FromReaders'
    <2> SUFFICES ASSUME NEW e \in InFlight', e.dir = "up", e.c \in Readers
                 PROVE  /\ IsRequest(e.pkt) => /\ e.port = RequestPort
                                               /\ e.pkt.op = "RRQ" /\ e.pkt.file = Target[e.c]
                                               /\ cl'[e.c].pc # "idle"
                        /\ e.pkt.op = "ACK" => e.port = cl'[e.c].peer /\ e.pkt.id < cl'[e.c].block
      BY DEF FromReaders, Readers
    <2>1. CASE e \in Up(c, port, pkts)
      BY <1>2, <1>5, <2>1
    <2>2. CASE e \in InFlight /\ e.c # c
      BY <1>2, <2>2 DEF ReadInv, FromReaders, Readers
    <2>3. CASE e \in InFlight /\ e.c = c
      <3>1. e \in Datagrams /\ e.pkt \in Packets /\ e.port # NoPort
        BY <2>3 DEF InFlight, TypeInv, TypeOK, ServerStates, Datagrams, ServerPorts, RequestPort, NoPort
      <3>2. e.pkt.op = "ACK" => e.pkt.id \in Nat
        BY <3>1, PacketFields, IdRangeType DEF Ids
      <3>3. next.block \in Nat /\ cl[c].block \in Nat
        BY <1>2 DEF ClientStates
      <3>4. /\ IsRequest(e.pkt) => e.port = RequestPort /\ e.pkt.op = "RRQ" /\ e.pkt.file = Target[c]
            /\ e.pkt.op = "ACK" => e.port = cl[c].peer /\ e.pkt.id < cl[c].block
        BY <2>3 DEF ReadInv, FromReaders
      <3> QED
        BY <1>2, <2>3, <3>1, <3>2, <3>3, <3>4
    <2> QED
      BY <1>4, <2>1, <2>2, <2>3
  <1> QED
    BY <1>8, <1>9, <1>10, <1>11, <1>12, <1>13 DEF ReadInv

\* The argument of this module: the block a Read accepts is the one it expects, and
\* the last one its transfer has sent.
LEMMA ExpectedBlock ==
  ASSUME TypeInv, ReadInv, NEW c \in Readers, NEW d \in net, ReadBlock(c, d)
  PROVE  LET block == cl[c].block
         IN  /\ d.port \in Ports /\ xfer[d.port].peer = c /\ xfer[d.port].pos = block
             /\ d.pkt.chunk = FileChunk(Target[c], block)
             /\ WireId(block) = block /\ block <= 15
  <1> DEFINE me == cl[c]
  <1>1. /\ d.dir = "down" /\ d.c = c /\ d.pkt.op = "DATA" /\ d.pkt.id = me.block
        /\ me.pc = "reading"
    BY DEF ReadBlock, Received
  <1>2. ReaderLocal(c, me) /\ me.block \in Nat /\ me.block >= 1 /\ me.block <= 16
    BY <1>1 DEF ReadInv, ReaderLocals, ReaderLocal, Readers, TypeInv, TypeOK, ClientStates
  <1>3. d.port \in Ports
    BY <1>1 DEF ReadInv, DataInFlight
  <1>4. PICK k \in 1 .. xfer[d.port].pos : d.pkt.id = WireId(k) /\ d.pkt.chunk = FileChunk(Target[c], k)
    BY <1>1 DEF ReadInv, DataInFlight
  <1>5. xfer[d.port].peer = c /\ xfer[d.port].pos \in Nat
    <2>1. d.port # RequestPort
      BY <1>3, PortTypes DEF RequestPort
    <2> QED
      BY <1>1, <1>3, <2>1, PortTypes DEF ReadInv, OwnPorts, InFlight, Transfers
  <1>6. xfer[d.port].pos <= IF me.peer = d.port THEN me.block ELSE 1
    BY <1>3, <1>5 DEF ReadInv, ReadTransfers
  <1>7. k \in Nat /\ k <= xfer[d.port].pos /\ xfer[d.port].pos <= me.block /\ WireId(k) = me.block
    BY <1>1, <1>2, <1>4, <1>5, <1>6
  <1>8. k = me.block /\ xfer[d.port].pos = me.block
    BY <1>2, <1>5, <1>7, WireIdNat
  <1>9. me.block <= 15
    BY <1>2, <1>7, <1>8, WireIdFixed
  <1> QED
    BY <1>3, <1>4, <1>5, <1>7, <1>8, <1>9

LEMMA ClientNextRead ==
  ASSUME TypeInv, ReadInv, NEW c \in Clients, ClientNext(c)
  PROVE  ReadInv'
  <1> DEFINE me == cl[c]
  <1>1. /\ me \in ClientStates /\ cl \in [Clients -> ClientStates]
        /\ c \in Readers => ReaderLocal(c, me)
    BY DEF TypeInv, TypeOK, ReadInv, ReaderLocals
  <1>2. c \in Readers => me.pc \in {"idle", "reading", "done", "failed"}
    BY <1>1 DEF ReaderLocal
  <1>3. c \in Readers /\ me.pc # "idle" => me.block >= 1
    BY <1>1 DEF ReaderLocal, ClientStates
  <1>4. \A q \in {Illegal, Error("UNKNOWN_TRANSFER_ID")} : ~IsRequest(q) /\ q.op # "ACK"
    BY DEF Illegal, Error, IsRequest
  <1>5. ASSUME NEW r \in ClientStates, c \in Readers, me.pc # "idle",
               r.pc = "failed" \/ r.pc = me.pc, r.block = me.block, r.out = me.out
        PROVE  ReaderLocal(c, r)
    BY <1>1, <1>5 DEF ReaderLocal
  <1>6. CASE Start(c)
    <2> DEFINE pkt == Request(IF Op[c] = "read" THEN "RRQ" ELSE "WRQ", Target[c], Mode[c])
    <2>1. /\ net' = net \cup Up(c, RequestPort, {pkt}) /\ xfer' = xfer /\ srv' = srv
          /\ \A e \in Clients \ {c} : cl'[e] = cl[e]
          /\ cl'[c].peer = me.peer /\ cl'[c].out = me.out /\ me.pc = "idle"
          /\ c \in Readers => cl'[c].pc = "reading" /\ cl'[c].block = 1
      BY <1>1, <1>6 DEF Start, Readers, ClientStates
    <2>2. Wire(pkt) = pkt /\ IsRequest(pkt) /\ pkt.file = Target[c]
          /\ (c \in Readers => pkt.op = "RRQ")
      BY DEF Wire, Request, IsRequest, Readers
    <2>3. \A e \in Up(c, RequestPort, {pkt}) : e.dir = "up" /\ e.c = c /\ e.port = RequestPort /\ e.pkt = pkt
      BY <2>2 DEF Up, Datagram
    <2> HIDE DEF pkt
    <2>4. \A e \in InFlight' : e \in InFlight \/ e \in Up(c, RequestPort, {pkt})
      BY <2>1 DEF InFlight
    <2>5. OwnPorts'
      <3>1. \A e \in Clients : cl'[e].peer = cl[e].peer
        BY <2>1
      <3>2. Ports' = Ports /\ \A e \in InFlight' : e \in InFlight \/ e.port = RequestPort
        BY <2>1, <2>3, <2>4 DEF Ports
      <3>3. ASSUME NEW e \in Clients, cl'[e].peer \notin {NoPort, RequestPort}
            PROVE  cl'[e].peer \in Ports' /\ xfer'[cl'[e].peer].peer = e
        BY <2>1, <3>1, <3>2, <3>3 DEF ReadInv, OwnPorts
      <3>4. ASSUME NEW e \in InFlight', e.port # RequestPort
            PROVE  e.port \in Ports' /\ xfer'[e.port].peer = e.c
        BY <2>1, <3>2, <3>4 DEF ReadInv, OwnPorts
      <3> QED
        BY <3>3, <3>4 DEF OwnPorts
    <2>6. RoundLocals' /\ DataInFlight'
      BY <2>1, <2>3 DEF ReadInv, RoundLocals, DataInFlight, Ports, Live, Readers
    <2>7. ReaderLocals'
      <3>1. c \in Readers => ReaderLocal(c, cl'[c])
        <4>1. c \in Readers => me.out = <<>>
          BY <1>1, <2>1 DEF ReaderLocal
        <4>2. c \in Readers /\ FileSrc[Target[c]].ok => Len(<<>>) <= FileSrc[Target[c]].full
          BY WorkAssumption DEF Sources, Readers
        <4> QED
          BY <2>1, <4>1, <4>2 DEF ReaderLocal
      <3> QED
        BY <2>1, <3>1 DEF ReadInv, ReaderLocals, Readers, ReaderLocal
    <2>8. ReadTransfers'
      \* An idle reader has no transfer yet.
      BY <2>1, PortTypes DEF ReadInv, ReadTransfers, Ports, Live, Readers, Transfers
    <2>9. FromReaders'
      <3>1. \A e \in InFlight : e.dir = "up" /\ e.c \in Readers /\ e.c = c
                => ~IsRequest(e.pkt) /\ e.pkt.op # "ACK"
        <4> SUFFICES ASSUME NEW e \in InFlight, e.dir = "up", c \in Readers, e.c = c
                     PROVE  ~IsRequest(e.pkt) /\ e.pkt.op # "ACK"
          OBVIOUS
        <4>1. ~IsRequest(e.pkt)
          BY <2>1 DEF ReadInv, FromReaders
        <4>2. e.pkt.op = "ACK" => e.port = me.peer /\ e.pkt.id < me.block
          BY DEF ReadInv, FromReaders
        <4>3. e.pkt \in Packets /\ e.port # NoPort
          BY DEF InFlight, TypeInv, TypeOK, ServerStates, Datagrams, ServerPorts, RequestPort, NoPort
        <4>4. me.block \in Nat /\ me.block = 0
          BY <1>1, <2>1 DEF ReaderLocal, ClientStates
        <4> QED
          BY <4>1, <4>2, <4>3, <4>4, PacketFields, IdRangeType DEF Ids
      <3> QED
        BY <2>1, <2>2, <2>3, <2>4, <3>1 DEF ReadInv, FromReaders, Readers
    <2> QED
      BY <2>5, <2>6, <2>7, <2>8, <2>9 DEF ReadInv
  <1>7. CASE ClientTimeout(c)
    <2> DEFINE next == [me EXCEPT !.pc = "failed"]
    <2>1. next \in ClientStates /\ next.pc = "failed" /\ next.block = me.block /\ next.out = me.out
          /\ next.peer = me.peer
      BY <1>1 DEF ClientStates
    <2>2. me.pc # "idle" /\ net' = net /\ xfer' = xfer /\ srv' = srv
          /\ cl'[c] = next /\ \A e \in Clients \ {c} : cl'[e] = cl[e]
      BY <1>1, <1>7 DEF ClientTimeout, Active
    <2> HIDE DEF next
    <2>3. c \in Readers => ReaderLocal(c, next)
      BY <1>5, <2>1, <2>2
    <2>4. OwnPorts' /\ RoundLocals' /\ DataInFlight'
      BY <2>1, <2>2 DEF ReadInv, OwnPorts, RoundLocals, DataInFlight, InFlight, Ports, Live, Readers
    <2>5. ReaderLocals'
      BY <2>2, <2>3 DEF ReadInv, ReaderLocals, Readers, ReaderLocal
    <2>6. ReadTransfers'
      BY <2>1, <2>2, PortTypes DEF ReadInv, ReadTransfers, Ports, Live, Readers, Transfers
    <2>7. FromReaders'
      BY <2>1, <2>2 DEF ReadInv, FromReaders, InFlight, Readers
    <2> QED
      BY <2>4, <2>5, <2>6, <2>7 DEF ReadInv
  <1>8. ASSUME NEW d \in net, ClientGarbled(c, d)
        PROVE  ReadInv'
    <2> DEFINE port == IF me.pc = "writing" THEN me.peer ELSE d.port
               next == Failed(c)
    <2>1. Received(c, d) /\ ClientStep(c, d, next, port, {Illegal}) /\ me.pc # "idle"
      BY <1>8 DEF ClientGarbled, Active
    <2>2. /\ next \in ClientStates /\ next.pc = "failed" /\ next.block = me.block /\ next.out = me.out
          /\ next.peer = me.peer
      BY <1>1 DEF Failed, ClientStates
    <2>3. port # NoPort /\ port \in {d.port, next.peer}
      BY <2>2, ReceivedType DEF TypeInv, WritersBound
    <2> HIDE DEF next, port
    <2>4. c \in Readers => ReaderLocal(c, next)
      BY <1>5, <2>1, <2>2
    <2>5. me.block \in Nat
      BY <1>1 DEF ClientStates
    <2> QED
      BY <1>3, <1>4, <2>1, <2>2, <2>3, <2>4, <2>5, ReceivedType, ClientStepRead
  <1>9. ASSUME NEW d \in net, ReadStranger(c, d)
        PROVE  ReadInv'
    <2>1. /\ Received(c, d) /\ ClientStep(c, d, me, d.port, {Error("UNKNOWN_TRANSFER_ID")})
          /\ me.pc = "reading"
      BY <1>9 DEF ReadStranger
    <2>2. me.block \in Nat
      BY <1>1 DEF ClientStates
    <2> QED
      BY <1>1, <1>3, <1>4, <2>1, <2>2, ReceivedType, ClientStepRead
  <1>10. ASSUME NEW d \in net, ~Stranger(c, d), me.pc = "reading"
         PROVE  LET b == Bound(c, d)
                IN  /\ b \in ClientStates /\ b.pc = me.pc /\ b.block = me.block /\ b.out = me.out
                    /\ b.peer = d.port /\ me.peer \in {NoPort, b.peer} /\ d.port # NoPort
    BY <1>1, <1>10, ReceivedType DEF Bound, Stranger, ClientStates
  <1>11. ASSUME NEW d \in net, ReadRefused(c, d)
         PROVE  ReadInv'
    <2> DEFINE b    == Bound(c, d)
               next == [b EXCEPT !.pc = "failed"]
               pkts == IF d.pkt.op = "ERROR" THEN {} ELSE {Illegal}
    <2>1. /\ Received(c, d) /\ ClientStep(c, d, next, b.peer, pkts)
          /\ me.pc = "reading" /\ ~Stranger(c, d)
      BY <1>11 DEF ReadRefused
    <2>2. /\ b \in ClientStates /\ b.pc = me.pc /\ b.block = me.block /\ b.out = me.out
          /\ b.peer = d.port /\ me.peer \in {NoPort, b.peer} /\ d.port # NoPort
      BY <1>10, <2>1
    <2> HIDE DEF b
    <2>3. /\ next \in ClientStates /\ next.pc = "failed" /\ next.block = me.block
          /\ next.out = me.out /\ next.peer = b.peer
      BY <2>2 DEF ClientStates
    <2>4. /\ pkts \in SUBSET Packets /\ \A q \in pkts : ~IsRequest(q) /\ q.op # "ACK"
      BY <1>4, ReceivedType
    <2> HIDE DEF next, pkts
    <2>5. c \in Readers => ReaderLocal(c, next)
      BY <1>5, <2>1, <2>3
    <2>6. me.block \in Nat
      BY <1>1 DEF ClientStates
    <2> QED
      BY <1>3, <2>1, <2>2, <2>3, <2>4, <2>5, <2>6, ClientStepRead
  <1>12. ASSUME NEW d \in net, ReadDuplicate(c, d)
         PROVE  ReadInv'
    <2> DEFINE b == Bound(c, d)
    <2>1. /\ Received(c, d) /\ ClientStep(c, d, b, d.port, {})
          /\ me.pc = "reading" /\ ~Stranger(c, d)
      BY <1>12 DEF ReadDuplicate
    <2>2. /\ b \in ClientStates /\ b.pc = me.pc /\ b.block = me.block /\ b.out = me.out
          /\ b.peer = d.port /\ me.peer \in {NoPort, b.peer} /\ d.port # NoPort
      BY <1>10, <2>1
    <2> HIDE DEF b
    <2>3. c \in Readers => ReaderLocal(c, b)
      BY <1>5, <2>1, <2>2
    <2>4. me.block \in Nat
      BY <1>1 DEF ClientStates
    <2> QED
      BY <1>3, <2>1, <2>2, <2>3, <2>4, ClientStepRead
  <1>13. ASSUME NEW d \in net, ReadBlock(c, d)
         PROVE  ReadInv'
    <2> DEFINE b     == Bound(c, d)
               chunk == d.pkt.chunk
               next  == [b EXCEPT !.pc = IF chunk.len < BlockSize THEN "done" ELSE @,
                                  !.out = Append(@, chunk), !.block = @ + 1]
               src   == FileSrc[Target[c]]
               ack   == Ack(me.block % IdRange)
    <2>1. /\ Received(c, d) /\ ClientStep(c, d, next, d.port, {ack})
          /\ me.pc = "reading" /\ ~Stranger(c, d)
          /\ d.pkt.op = "DATA" /\ d.pkt.id = me.block
      BY <1>13 DEF ReadBlock
    <2>2. /\ b \in ClientStates /\ b.pc = me.pc /\ b.block = me.block /\ b.out = me.out
          /\ b.peer = d.port /\ me.peer \in {NoPort, b.peer} /\ d.port # NoPort
      BY <1>10, <2>1
    <2>3. chunk \in Chunks /\ me.block \in Nat /\ me.out \in Seq(Chunks)
      BY <1>1, <2>1, ReceivedType, PacketFields DEF ClientStates
    <2>4. Append(me.out, chunk) \in Seq(Chunks) /\ Len(Append(me.out, chunk)) = Len(me.out) + 1
          /\ me.block + 1 \in Nat /\ Len(me.out) \in Nat
      BY <2>3
    <2> HIDE DEF b
    <2>5. /\ next \in ClientStates /\ next.pc = (IF chunk.len < BlockSize THEN "done" ELSE "reading")
          /\ next.block = me.block + 1 /\ next.out = Append(me.out, chunk) /\ next.peer = d.port
      BY <2>1, <2>2, <2>4 DEF ClientStates
    <2>6. ack \in Packets /\ ~IsRequest(ack) /\ Wire(ack).id = WireId(me.block % IdRange)
      <3>1. me.block % IdRange \in Ids
        BY <2>3, Remainder16
      <3> QED
        BY <3>1, PacketTypes DEF Ack, IsRequest, Wire
    <2> HIDE DEF next, ack
    <2>7. ASSUME c \in Readers
          PROVE  ReaderLocal(c, next) /\ Wire(ack).id < next.block
      <3>1. /\ chunk = FileChunk(Target[c], me.block)
            /\ WireId(me.block) = me.block /\ me.block <= 15
        BY <1>13, <2>7, ExpectedBlock
      <3>2. me.block = Len(me.out) + 1
        BY <1>1, <2>1, <2>7 DEF ReaderLocal
      <3>3. Wire(ack).id < next.block
        <4>1. me.block % IdRange = me.block
          BY <2>3, <3>1, NextIdSmall
        <4>2. Wire(ack).id = me.block
          BY <2>6, <3>1, <4>1
        <4> QED
          BY <2>3, <2>5, <4>2
      <3>4. \A j \in 1 .. Len(next.out) : next.out[j] = FileChunk(Target[c], j)
        <4>1. \A j \in 1 .. Len(me.out) : next.out[j] = FileChunk(Target[c], j)
          <5>1. \A j \in 1 .. Len(me.out) : next.out[j] = me.out[j]
            BY <2>3, <2>5
          <5>2. \A j \in 1 .. Len(me.out) : me.out[j] = FileChunk(Target[c], j)
            BY <1>1, <2>7 DEF ReaderLocal
          <5> QED
            BY <5>1, <5>2
        <4>2. next.out[Len(me.out) + 1] = FileChunk(Target[c], Len(me.out) + 1)
          BY <2>3, <2>5, <3>1, <3>2
        <4> QED
          BY <2>4, <2>5, <4>1, <4>2
      <3>5. src \in Sources /\ src.full \in Nat
        BY <2>7, WorkAssumption DEF Sources, Readers
      <3>6. chunk.len = Length(src, me.block)
        BY <3>1 DEF FileChunk, Chunk
      <3>7. src.ok => Len(me.out) <= src.full
        BY <1>1, <2>1, <2>7 DEF ReaderLocal
      <3>8. src.ok => IF chunk.len < BlockSize THEN me.block = src.full + 1 ELSE me.block <= src.full
        <4>1. src.ok => /\ chunk.len < BlockSize => me.block >= src.full + 1
                        /\ ~(chunk.len < BlockSize) => me.block <= src.full
          BY <2>3, <3>5, <3>6, ShortBlock
        <4>2. src.ok => me.block <= src.full + 1
          BY <2>4, <3>2, <3>5, <3>7
        <4> HIDE DEF src
        <4> QED
          BY <2>3, <3>5, <4>1, <4>2
      <3>9. next.block <= 16 /\ next.block = Len(next.out) + 1 /\ Len(next.out) = me.block
        BY <2>3, <2>4, <2>5, <3>1, <3>2
      <3>10. /\ next.pc = "reading" /\ src.ok => Len(next.out) <= src.full
             /\ next.pc = "done" /\ src.ok => Len(next.out) = Blocks(src)
        BY <2>5, <3>8, <3>9 DEF Blocks
      <3> QED
        BY <2>5, <3>3, <3>4, <3>9, <3>10 DEF ReaderLocal
    <2> QED
      BY <1>3, <2>1, <2>2, <2>3, <2>5, <2>6, <2>7, ClientStepRead
  <1>14. ASSUME NEW d \in net, WriteRefused(c, d)
         PROVE  ReadInv'
    <2> DEFINE port == IF me.pc = "wrq" THEN d.port ELSE me.peer
               next == [Failed(c) EXCEPT !.peer = port]
               pkts == IF d.pkt.op = "ERROR" THEN {} ELSE {Illegal}
    <2>1. Received(c, d) /\ ClientStep(c, d, next, port, pkts) /\ me.pc \in {"wrq", "writing"}
      BY <1>14 DEF WriteRefused
    <2>2. port \in ServerPorts /\ port # NoPort /\ port \in {me.peer, d.port}
      BY <2>1, ReceivedType DEF TypeInv, WritersBound
    <2>3. next \in ClientStates /\ next.pc = "failed" /\ next.peer = port
      BY <2>2, ReceivedType DEF ClientStates, Failed
    <2>4. /\ pkts \in SUBSET Packets /\ \A q \in pkts : ~IsRequest(q) /\ q.op # "ACK"
      BY <1>4, ReceivedType
    <2> HIDE DEF next, port, pkts
    <2> QED
      BY <1>2, <2>1, <2>2, <2>3, <2>4, ClientStepRead
  <1>15. ASSUME NEW d \in net, WriteAccepted(c, d)
         PROVE  ReadInv'
    <2> DEFINE next == [me EXCEPT !.pc = "writing", !.peer = d.port, !.block = 1]
               fail == [Failed(c) EXCEPT !.peer = d.port]
               data == Data(1, InputChunk(c, 1))
    <2>1. /\ Received(c, d) /\ me.pc = "wrq"
          /\ ClientStep(c, d, next, d.port, {data}) \/ ClientStep(c, d, fail, d.port, {Illegal})
      BY <1>15 DEF WriteAccepted
    <2>2. /\ next \in ClientStates /\ next.peer = d.port /\ fail \in ClientStates /\ fail.peer = d.port
          /\ next.pc = "writing" /\ fail.pc = "failed"
      BY ReceivedType DEF ClientStates, Failed
    <2>3. {data} \in SUBSET Packets /\ ~IsRequest(data)
      BY InputChunkType, PacketTypes, IdRangeType DEF Ids, Data, IsRequest
    <2> HIDE DEF next, fail, data
    <2> QED
      BY <1>2, <1>4, <2>1, <2>2, <2>3, ReceivedType, ClientStepRead
  <1>16. ASSUME NEW d \in net, WriteDuplicate(c, d)
         PROVE  ReadInv'
    <2>1. Received(c, d) /\ me.pc = "writing" /\ ClientStep(c, d, me, d.port, {})
      BY <1>16 DEF WriteDuplicate
    <2> QED
      BY <1>1, <1>2, <2>1, ReceivedType, ClientStepRead
  <1>17. ASSUME NEW d \in net, WriteNext(c, d)
         PROVE  ReadInv'
    <2> DEFINE id   == NextId(me.block)
               end  == OctetEof(Input[c], me.block)
               next == [me EXCEPT !.block = id, !.pc = IF end THEN "done" ELSE @]
               data == Data(id, InputChunk(c, id))
               pkts == IF end THEN {} ELSE {data}
    <2>1. Received(c, d) /\ me.pc = "writing" /\ ClientStep(c, d, next, me.peer, pkts)
      BY <1>17 DEF WriteNext
    <2>2. id \in Ids /\ id \in Nat
      BY <1>1, Remainder16 DEF ClientStates
    <2>3. next \in ClientStates /\ next.pc # "idle" /\ next.peer = me.peer
      BY <1>1, <2>1, <2>2 DEF ClientStates
    <2>4. data \in Packets /\ ~IsRequest(data)
      BY <2>2, InputChunkType, PacketTypes DEF Data, IsRequest
    <2> HIDE DEF next, data
    <2>5. pkts \in SUBSET Packets /\ \A q \in pkts : ~IsRequest(q)
      BY <2>4
    <2>6. me.peer # NoPort
      BY <2>1 DEF TypeInv, WritersBound
    <2> HIDE DEF pkts
    <2> QED
      BY <1>2, <2>1, <2>3, <2>5, <2>6, ReceivedType, ClientStepRead
  <1> QED
    BY <1>6, <1>7, <1>8, <1>9, <1>11, <1>12, <1>13, <1>14, <1>15, <1>16, <1>17 DEF ClientNext

\* A step of the network, or one of the server's that touches no transfer: what
\* is in flight was in flight before, perhaps garbled, or is an ERROR from the
\* request socket.
SameWay(e, d) == e.dir = d.dir /\ e.c = d.c /\ e.port = d.port /\ e.pkt \in {d.pkt, Garbled}
Rejection(e)  == e.dir = "down" /\ e.port = RequestPort /\ e.pkt.op = "ERROR"

LEMMA NetworkRead ==
  ASSUME TypeInv, ReadInv, UNCHANGED <<cl, xfer>>, RoundLocals',
         \A e \in net' : Rejection(e) \/ \E d \in net : SameWay(e, d),
         \A e \in srv'.ready : \E d \in InFlight : SameWay(e, d)
  PROVE  ReadInv'
  <1>1. \A e \in InFlight' : Rejection(e) \/ \E d \in InFlight : SameWay(e, d)
    BY DEF InFlight
  <1>2. Garbled.op = "GARBLED" /\ ~IsRequest(Garbled)
    BY DEF Garbled, IsRequest
  <1>3. OwnPorts'
    BY <1>1 DEF ReadInv, OwnPorts, Ports, SameWay, Rejection
  <1>4. ReaderLocals' /\ ReadTransfers'
    BY DEF ReadInv, ReaderLocals, ReadTransfers, Ports, Live, Readers, ReaderLocal
  <1>5. DataInFlight'
    BY <1>2 DEF ReadInv, DataInFlight, Ports, SameWay, Rejection, Readers
  <1>6. FromReaders'
    BY <1>1, <1>2 DEF ReadInv, FromReaders, SameWay, Rejection, Readers
  <1> QED
    BY <1>3, <1>4, <1>5, <1>6 DEF ReadInv

\* A transfer x on port p handles the packet of datagram d.
LEMMA HandlingRead ==
  ASSUME TypeInv, ReadInv, NEW p \in Nat \ {0}, NEW x \in Transfers, NEW d \in srv.ready,
         UNCHANGED cl, net' = net \cup Down(x.peer, p, HandlePacket(x, d.pkt).send),
         Ports' = Ports \cup {p}, xfer'[p] = HandlePacket(x, d.pkt).x,
         \A q \in Ports \ {p} : xfer'[q] = xfer[q], p \in Ports => x = xfer[p],
         srv'.ready \subseteq srv.ready, srv'.todo \subseteq srv.todo \ {p},
         x.peer \in Readers =>
           /\ x.kind = "read" /\ x.file = Target[x.peer] /\ cl[x.peer].pc # "idle"
           /\ x.st = "live" /\ x.id = x.pos /\ x.pos <= 16
           /\ x.pos <= IF cl[x.peer].peer = p THEN cl[x.peer].block ELSE 1
           /\ (IsRequest(d.pkt) \/ d.pkt.op = "ACK") /\ VisitedId(d.pkt) = x.id
                 => x.pos + 1 <= IF cl[x.peer].peer = p THEN cl[x.peer].block ELSE 1
  PROVE  ReadInv'
  <1> DEFINE h == HandlePacket(x, d.pkt)
             y == h.x
  <1>1. d.pkt \in Packets /\ x.pos \in Nat /\ x.id \in Ids /\ p # RequestPort
    BY PortTypes DEF Transfers, RequestPort
  <1>2. y.kind = x.kind /\ y.file = x.file /\ y.peer = x.peer
    BY <1>1, HandlePacketFrame
  <1>3. y \in Transfers /\ h.send \in SUBSET Packets
    BY <1>1, HandlePacketType
  <1>4. x.peer \in Clients
    BY DEF Transfers
  <1>5. x.peer \in Readers =>
          \/ /\ y.pos = x.pos
             /\ y.st = "live" => y.id = y.pos
             /\ \A q \in h.send : q.op = "ERROR"
          \/ /\ y.pos = x.pos + 1 /\ y.id = y.pos
             /\ y.pos <= IF cl[x.peer].peer = p THEN cl[x.peer].block ELSE 1
             /\ h.send = {Data(y.pos, FileChunk(x.file, y.pos))}
    <2> SUFFICES ASSUME x.peer \in Readers
                 PROVE  \/ /\ y.pos = x.pos
                           /\ y.st = "live" => y.id = y.pos
                           /\ \A q \in h.send : q.op = "ERROR"
                        \/ /\ y.pos = x.pos + 1 /\ y.id = y.pos
                           /\ y.pos <= IF cl[x.peer].peer = p THEN cl[x.peer].block ELSE 1
                           /\ h.send = {Data(y.pos, FileChunk(x.file, y.pos))}
      OBVIOUS
    <2>1. NextId(x.id) = x.pos + 1
      BY <1>1, NextIdSmall
    <2>2. x.kind = "read"
      OBVIOUS
    <2>3. \/ /\ y.pos = x.pos /\ y.id = x.id /\ y.st \in {x.st, "failed"}
             /\ \A q \in h.send : q.op = "ERROR"
          \/ /\ IsRequest(d.pkt) \/ d.pkt.op = "ACK"
             /\ VisitedId(d.pkt) = x.id /\ y.id = NextId(x.id)
             /\ \/ y.pos = x.pos /\ y.st = "over" /\ h.send = {}
                \/ /\ y.pos = x.pos + 1 /\ y.st = x.st
                   /\ h.send = {Data(y.id, FileChunk(x.file, y.pos))}
      BY <1>1, <2>2, HandlePacketRead
    <2>4. \A q \in {} : q.op = "ERROR"
      OBVIOUS
    <2> HIDE DEF h, y
    <2> QED
      BY <2>1, <2>3, <2>4
  <1> HIDE DEF h, y
  <1>6. \A e \in Down(x.peer, p, h.send) : /\ e.dir = "down" /\ e.c = x.peer /\ e.port = p
                                          /\ \E q \in h.send : e.pkt = Wire(q) /\ e.pkt.op = q.op
    BY <1>3, <1>4, SentFields, WireOp
  <1>7. xfer'[p] = y /\ net' = net \cup Down(x.peer, p, h.send)
    BY DEF h, y
  <1>8. \A e \in InFlight' : e \in InFlight \/ e \in Down(x.peer, p, h.send)
    BY <1>7 DEF InFlight
  <1>9. \A q \in Ports : q \in Ports' /\ xfer'[q].peer = xfer[q].peer
    BY <1>2, <1>7
  <1>10. OwnPorts'
    <2>1. \A e \in Clients : cl'[e].peer \notin {NoPort, RequestPort}
                               => cl'[e].peer \in Ports' /\ xfer'[cl'[e].peer].peer = e
      BY <1>9 DEF ReadInv, OwnPorts
    <2>2. \A e \in InFlight' : e.port # RequestPort => e.port \in Ports' /\ xfer'[e.port].peer = e.c
      BY <1>2, <1>6, <1>7, <1>8, <1>9 DEF ReadInv, OwnPorts
    <2> QED
      BY <2>1, <2>2 DEF OwnPorts
  <1>11. RoundLocals'
    <2>1. \A q \in srv'.todo : q \in Ports' /\ xfer'[q].st = "live"
      BY DEF ReadInv, RoundLocals, Live
    <2> QED
      BY <2>1 DEF ReadInv, RoundLocals, Live
  <1>12. ReaderLocals'
    BY DEF ReadInv, ReaderLocals, Readers, ReaderLocal
  <1>13. ReadTransfers'
    <2> SUFFICES ASSUME NEW q \in Ports', xfer'[q].peer \in Readers
                 PROVE  LET e == xfer'[q].peer
                        IN  /\ xfer'[q].kind = "read" /\ xfer'[q].file = Target[e]
                            /\ cl[e].pc # "idle"
                            /\ xfer'[q].st = "live" => xfer'[q].id = xfer'[q].pos
                            /\ xfer'[q].pos <= IF cl[e].peer = q THEN cl[e].block ELSE 1
      BY DEF ReadTransfers, Live, Readers
    <2>1. CASE q # p
      BY <2>1 DEF ReadInv, ReadTransfers, Live
    <2>2. CASE q = p
      BY <1>2, <1>5, <1>7, <2>2
    <2> QED
      BY <2>1, <2>2
  <1>14. DataInFlight'
    <2> SUFFICES ASSUME NEW e \in net', e.dir = "down", e.c \in Readers, e.pkt.op = "DATA"
                 PROVE  /\ e.port \in Ports'
                        /\ \E k \in 1 .. xfer'[e.port].pos : /\ e.pkt.id = WireId(k)
                                                             /\ e.pkt.chunk = FileChunk(Target[e.c], k)
      BY DEF DataInFlight, Readers
    <2>1. CASE e \in net
      <3>1. e.port \in Ports
        BY <2>1 DEF ReadInv, DataInFlight
      <3>2. PICK k \in 1 .. xfer[e.port].pos : e.pkt.id = WireId(k) /\ e.pkt.chunk = FileChunk(Target[e.c], k)
        BY <2>1 DEF ReadInv, DataInFlight
      <3>3. xfer[e.port].peer = e.c
        <4>1. e.port # RequestPort
          BY <3>1, PortTypes DEF RequestPort
        <4> QED
          BY <2>1, <4>1 DEF ReadInv, OwnPorts, InFlight
      <3>4. xfer'[e.port].pos \in Nat /\ xfer[e.port].pos \in Nat /\ xfer'[e.port].pos >= xfer[e.port].pos
        <4>1. CASE e.port = p
          BY <1>1, <1>5, <1>7, <3>1, <3>3, <4>1
        <4>2. CASE e.port # p
          BY <3>1, <4>2, PortTypes DEF Transfers
        <4> QED
          BY <4>1, <4>2
      <3>5. k \in 1 .. xfer'[e.port].pos
        BY <3>4
      <3> QED
        BY <3>1, <3>2, <3>5
    <2>2. CASE e \in Down(x.peer, p, h.send)
      <3>1. PICK q \in h.send : e.pkt = Wire(q) /\ q.op = "DATA"
        BY <1>6, <2>2
      <3>2. e.port = p /\ x.peer = e.c /\ e.c \in Readers
        BY <1>6, <2>2
      <3>3. /\ y.pos = x.pos + 1
            /\ q = Data(y.pos, FileChunk(x.file, y.pos)) /\ x.file = Target[e.c]
        BY <1>5, <3>1, <3>2
      <3>4. e.pkt.id = WireId(y.pos) /\ e.pkt.chunk = FileChunk(Target[e.c], y.pos)
        BY <3>1, <3>3 DEF Wire, Data
      <3>5. y.pos \in 1 .. y.pos
        BY <1>1, <3>3
      <3> QED
        BY <1>7, <3>2, <3>4, <3>5
    <2> QED
      BY <1>7, <2>1, <2>2
  <1>15. FromReaders'
    BY <1>6, <1>8 DEF ReadInv, FromReaders, Readers
  <1> QED
    BY <1>10, <1>11, <1>12, <1>13, <1>14, <1>15 DEF ReadInv

LEMMA ServerNextRead ==
  ASSUME TypeInv, ReadInv, ServerNext
  PROVE  ReadInv'
  <1>1. ASSUME NEW arrived \in SUBSET net, Poll(arrived)
        PROVE  ReadInv'
    <2>1. /\ \A d \in arrived : d.dir = "up" /\ Deliverable(d)
          /\ net' = net \ arrived /\ UNCHANGED <<cl, xfer>>
          /\ srv'.ready = arrived
          /\ srv'.todo = ({d.port : d \in arrived} \ {RequestPort})
                         \cup {p \in Ports : Live(p) /\ xfer[p].late}
      BY <1>1 DEF Poll
    <2>2. RoundLocals'
      BY <2>1 DEF RoundLocals, Deliverable, Live, Ports
    <2> QED
      BY <2>1, <2>2, NetworkRead DEF InFlight, SameWay
  <1>2. ASSUME NEW p \in Ports, NEW d \in srv.ready, ServeReady(p, d)
        PROVE  ReadInv'
    <2> DEFINE x == xfer[p]
    <2>1. x \in Transfers /\ d \in Datagrams /\ d.pkt \in Packets /\ p \in Nat \ {0} /\ xfer \in Seq(Transfers)
      BY PortTypes DEF TypeInv, TypeOK
    <2>2. /\ d.port = p /\ d.dir = "up" /\ Live(p) /\ UNCHANGED cl
          /\ xfer' = [xfer EXCEPT ![p] = HandlePacket(x, d.pkt).x]
          /\ net' = net \cup Down(x.peer, p, HandlePacket(x, d.pkt).send)
          /\ srv'.ready \subseteq srv.ready /\ srv'.todo \subseteq srv.todo \ {p}
      <3>1. srv'.ready \subseteq srv.ready /\ srv'.todo \subseteq srv.todo \ {p}
        BY <1>2, PortTypes DEF ServeReady, ServerStates
      <3> QED
        BY <1>2, <3>1 DEF ServeReady, Visits, ReadInv, RoundLocals
    <2>3. Ports' = Ports \cup {p} /\ xfer'[p] = HandlePacket(x, d.pkt).x /\ \A q \in Ports \ {p} : xfer'[q] = xfer[q]
      BY <2>1, <2>2 DEF Ports
    <2>4. p # RequestPort /\ x.peer = d.c
      <3>1. p # RequestPort
        BY <2>1 DEF RequestPort
      <3> QED
        BY <2>2, <3>1 DEF ReadInv, OwnPorts, InFlight
    <2>5. ASSUME x.peer \in Readers
          PROVE  /\ x.kind = "read" /\ x.file = Target[x.peer] /\ cl[x.peer].pc # "idle"
                 /\ x.st = "live" /\ x.id = x.pos /\ x.pos <= 16
                 /\ x.pos <= IF cl[x.peer].peer = p THEN cl[x.peer].block ELSE 1
                 /\ (IsRequest(d.pkt) \/ d.pkt.op = "ACK") /\ VisitedId(d.pkt) = x.id
                      => x.pos + 1 <= IF cl[x.peer].peer = p THEN cl[x.peer].block ELSE 1
      <3>1. /\ x.kind = "read" /\ x.file = Target[x.peer] /\ cl[x.peer].pc # "idle"
            /\ x.st = "live" /\ x.id = x.pos
            /\ x.pos <= IF cl[x.peer].peer = p THEN cl[x.peer].block ELSE 1
        BY <2>2, <2>5 DEF ReadInv, ReadTransfers, Live
      <3>2. cl[x.peer].block \in Nat /\ cl[x.peer].block <= 16 /\ x.pos \in Nat
        BY <2>1, <2>5 DEF TypeInv, TypeOK, ClientStates, ReadInv, ReaderLocals, ReaderLocal, Readers, Transfers
      <3>3. ~IsRequest(d.pkt)
        BY <2>2, <2>4, <2>5 DEF ReadInv, FromReaders, InFlight
      <3>4. d.pkt.op = "ACK" => /\ cl[x.peer].peer = p /\ d.pkt.id < cl[x.peer].block
                                /\ d.pkt.id \in Nat /\ VisitedId(d.pkt) = d.pkt.id
        BY <2>1, <2>2, <2>4, <2>5, <3>3, PacketFields, IdRangeType DEF ReadInv, FromReaders, InFlight, VisitedId, Ids
      <3> QED
        BY <3>1, <3>2, <3>3, <3>4
    <2> HIDE DEF x
    <2> QED
      BY <2>1, <2>2, <2>3, <2>5, HandlingRead DEF x
  <1>3. ASSUME NEW p \in Ports, ServeExpired(p)
        PROVE  ReadInv'
    <2>1. /\ net' = net /\ cl' = cl /\ srv'.ready = srv.ready /\ srv'.todo = srv.todo \ {p}
          /\ xfer' = [xfer EXCEPT ![p].st = "expired"]
      BY <1>3, PortTypes DEF ServeExpired, ServerStates
    <2>2. xfer \in Seq(Transfers) /\ xfer[p] \in Transfers
      BY PortTypes DEF TypeInv, TypeOK
    <2>3. Ports' = Ports /\ \A q \in Ports : /\ xfer'[q].kind = xfer[q].kind /\ xfer'[q].file = xfer[q].file
                                             /\ xfer'[q].peer = xfer[q].peer /\ xfer'[q].id = xfer[q].id
                                             /\ xfer'[q].pos = xfer[q].pos
                                             /\ xfer'[q].st = IF q = p THEN "expired" ELSE xfer[q].st
      BY <2>1, <2>2, PortTypes DEF Ports, Transfers
    <2>4. OwnPorts' /\ DataInFlight' /\ FromReaders'
      <3>1. InFlight' = InFlight
        BY <2>1 DEF InFlight
      <3>2. OwnPorts'
        BY <2>1, <2>3, <3>1 DEF ReadInv, OwnPorts
      <3>3. DataInFlight'
        BY <2>1, <2>3 DEF ReadInv, DataInFlight, Readers
      <3>4. FromReaders'
        BY <2>1, <3>1 DEF ReadInv, FromReaders, Readers
      <3> QED
        BY <3>2, <3>3, <3>4
    <2>5. RoundLocals' /\ ReaderLocals'
      BY <2>1, <2>3 DEF ReadInv, RoundLocals, Live, ReaderLocals, Readers, ReaderLocal
    <2>6. ReadTransfers'
      BY <2>1, <2>3 DEF ReadInv, ReadTransfers, Live, Readers
    <2> QED
      BY <2>4, <2>5, <2>6 DEF ReadInv
  <1>4. ASSUME NEW p \in Ports, Sweep(p)
        PROVE  ReadInv'
    <2>1. net' = net /\ UNCHANGED <<cl, xfer>> /\ srv'.ready = srv.ready /\ srv'.todo = srv.todo
      BY <1>4, PortTypes DEF Sweep, ServerStates
    <2>2. RoundLocals'
      BY <2>1 DEF ReadInv, RoundLocals, Live, Ports
    <2> QED
      BY <2>1, <2>2, NetworkRead DEF InFlight, SameWay
  <1>5. Polling.ready = {} /\ Polling.todo = srv.todo
    BY PortTypes DEF Polling, ServerStates
  <1>6. CASE EndRound
    <2>1. net' = net /\ UNCHANGED <<cl, xfer>> /\ srv'.ready = {} /\ srv'.todo = srv.todo
      BY <1>5, <1>6 DEF EndRound
    <2>2. RoundLocals'
      BY <2>1 DEF ReadInv, RoundLocals, Live, Ports
    <2> QED
      BY <2>1, <2>2, NetworkRead DEF SameWay
  <1>7. ASSUME NEW d \in srv.ready, RejectRequest(d)
        PROVE  ReadInv'
    <2> DEFINE pkts == IF d.pkt.op = "ERROR" THEN {} ELSE {Illegal}
    <2>1. /\ net' = net \cup Down(d.c, RequestPort, pkts) /\ UNCHANGED <<cl, xfer>>
          /\ srv'.ready = {} /\ srv'.todo = srv.todo
      BY <1>5, <1>7 DEF RejectRequest
    <2>2. RoundLocals'
      BY <2>1 DEF ReadInv, RoundLocals, Live, Ports
    <2>3. \A e \in Down(d.c, RequestPort, pkts) : Rejection(e)
      <3>1. \A q \in pkts : q \in Packets /\ q.op = "ERROR"
        BY PacketTypes DEF Illegal, Error, ErrorCodes
      <3> QED
        BY <3>1, PortTypes, SentFields, WireOp DEF Rejection
    <2> QED
      BY <2>1, <2>2, <2>3, NetworkRead DEF SameWay
  <1>8. ASSUME NEW d \in srv.ready, AcceptClient(d)
        PROVE  ReadInv'
    <2> DEFINE x == NewTransfer(d)
               p == Len(xfer) + 1
    <2>1. d.pkt \in Packets /\ d.c \in Clients /\ p \in Nat \ {0} /\ p \notin Ports
          /\ xfer \in Seq(Transfers) /\ Ports = 1 .. Len(xfer)
      BY PortTypes DEF TypeInv, TypeOK
    <2>2. /\ IsRequest(d.pkt) /\ UNCHANGED cl /\ srv'.ready = {} /\ srv'.todo = srv.todo /\ srv.todo = {}
          /\ xfer' = Append(xfer, HandlePacket(x, d.pkt).x)
          /\ net' = net \cup Down(x.peer, p, HandlePacket(x, d.pkt).send)
      BY <1>5, <1>8 DEF AcceptClient, NewTransfer, Swept
    <2>3. /\ x \in Transfers /\ x.peer = d.c /\ x.st = "live" /\ x.id = 0 /\ x.pos = 0
          /\ x.file = d.pkt.file /\ x.kind = IF d.pkt.op = "RRQ" THEN "read" ELSE "write"
      <3>1. d.pkt.file \in Files /\ d.pkt.mode \in {"octet", "netascii"}
        BY <2>1, <2>2, PacketFields
      <3>2. 0 \in Ids /\ <<>> \in Seq(Chunks)
        BY IdRangeType DEF Ids
      <3> QED
        BY <2>1, <3>1, <3>2 DEF NewTransfer, Transfers
    <2>4. HandlePacket(x, d.pkt).x \in Transfers
      BY <2>1, <2>3, HandlePacketType
    <2> HIDE DEF x
    <2>5. Ports' = Ports \cup {p} /\ xfer'[p] = HandlePacket(x, d.pkt).x /\ \A q \in Ports \ {p} : xfer'[q] = xfer[q]
      BY <2>1, <2>2, <2>4 DEF Ports
    <2>6. ASSUME x.peer \in Readers
          PROVE  /\ x.kind = "read" /\ x.file = Target[x.peer] /\ cl[x.peer].pc # "idle"
                 /\ cl[x.peer].block \in Nat /\ cl[x.peer].block >= 1
      <3>1. d.pkt.op = "RRQ" /\ d.pkt.file = Target[x.peer] /\ cl[x.peer].pc # "idle"
        BY <2>2, <2>3, <2>6 DEF ReadInv, FromReaders, RoundLocals, InFlight
      <3>2. cl[x.peer].block \in Nat /\ cl[x.peer].block >= 1
        BY <2>1, <2>3, <2>6, <3>1 DEF ReadInv, ReaderLocals, ReaderLocal, TypeInv, TypeOK, ClientStates
      <3> QED
        BY <2>3, <3>1, <3>2
    <2>7. srv'.ready \subseteq srv.ready /\ srv'.todo \subseteq srv.todo \ {p}
      BY <2>2
    <2> HIDE DEF p
    <2>8. ASSUME x.peer \in Readers
          PROVE  /\ x.kind = "read" /\ x.file = Target[x.peer] /\ cl[x.peer].pc # "idle"
                 /\ x.st = "live" /\ x.id = x.pos /\ x.pos <= 16
                 /\ x.pos <= IF cl[x.peer].peer = p THEN cl[x.peer].block ELSE 1
                 /\ x.pos + 1 <= IF cl[x.peer].peer = p THEN cl[x.peer].block ELSE 1
      BY <2>3, <2>6, <2>8
    <2>9. p \in Ports => x = xfer[p]
      BY <2>1
    <2>10. UNCHANGED cl
      BY <2>2
    <2> QED
      BY <2>1, <2>2, <2>3, <2>5, <2>7, <2>8, <2>9, <2>10, HandlingRead
  <1> QED
    BY <1>1, <1>2, <1>3, <1>4, <1>6, <1>7, <1>8 DEF ServerNext

LEMMA ReadInvInit == Init => ReadInv
  <1> SUFFICES ASSUME Init PROVE ReadInv
    OBVIOUS
  <1>1. Ports = {} /\ InFlight = {} /\ net = {} /\ srv.todo = {} /\ srv.ready = {}
    BY DEF Init, Ports, InFlight
  <1>2. \A c \in Clients : /\ cl[c].pc = "idle" /\ cl[c].peer = NoPort
                           /\ cl[c].block = 0 /\ cl[c].out = <<>>
    BY DEF Init
  <1>3. ReaderLocals
    BY <1>2 DEF ReaderLocals, ReaderLocal, Readers
  <1> QED
    BY <1>1, <1>2, <1>3 DEF ReadInv, OwnPorts, RoundLocals, ReadTransfers, DataInFlight, FromReaders

\* What the network does to what is in flight: it goes, it is doubled, or damaged.
LEMMA NetworkSteps ==
  ASSUME TypeInv, (\E d \in net : Discard(d)) \/ Faults \/ UNCHANGED vars
  PROVE  UNCHANGED <<cl, xfer, srv>> /\ \A e \in net' : \E d \in net : SameWay(e, d)
  <1>1. ASSUME NEW d \in net, Discard(d)
        PROVE  UNCHANGED <<cl, xfer, srv>> /\ \A e \in net' : \E f \in net : SameWay(e, f)
    BY <1>1 DEF Discard, SameWay
  <1>2. CASE Faults
    <2>1. PICK d \in net : Lose(d) \/ Duplicate(d) \/ Garble(d)
      BY <1>2 DEF Faults
    <2>2. d \in Datagrams
      BY DEF TypeInv, TypeOK
    <2>3. CASE Lose(d)
      BY <2>3 DEF Lose, SameWay
    <2>4. CASE Duplicate(d)
      <3>1. SameWay([d EXCEPT !.copy = faults.dups + 1], d)
        BY <2>2 DEF SameWay, Datagrams
      <3> QED
        BY <2>4, <3>1 DEF Duplicate, SameWay
    <2>5. CASE Garble(d)
      <3>1. SameWay([d EXCEPT !.pkt = Garbled], d)
        BY <2>2 DEF SameWay, Datagrams
      <3> QED
        BY <2>5, <3>1 DEF Garble, SameWay
    <2> QED
      BY <2>1, <2>3, <2>4, <2>5
  <1>3. CASE UNCHANGED vars
    BY <1>3 DEF vars, SameWay
  <1> QED
    BY <1>1, <1>2, <1>3

LEMMA ReadInvNext == TypeInv /\ ReadInv /\ [Next]_vars => ReadInv'
  <1> SUFFICES ASSUME TypeInv, ReadInv, [Next]_vars
               PROVE  ReadInv'
    OBVIOUS
  <1>1. ASSUME NEW c \in Clients, ClientNext(c)
        PROVE  ReadInv'
    BY <1>1, ClientNextRead
  <1>2. CASE ServerNext
    BY <1>2, ServerNextRead
  <1>3. ASSUME NEW p \in Ports, GrowLate(p)
        PROVE  ReadInv'
    <2>1. /\ UNCHANGED <<net, cl, srv>> /\ xfer' = [xfer EXCEPT ![p].late = TRUE]
      BY <1>3 DEF GrowLate
    <2>2. xfer \in Seq(Transfers) /\ xfer[p] \in Transfers
      BY PortTypes DEF TypeInv, TypeOK
    <2>3. Ports' = Ports /\ \A q \in Ports : /\ xfer'[q].kind = xfer[q].kind /\ xfer'[q].file = xfer[q].file
                                             /\ xfer'[q].peer = xfer[q].peer /\ xfer'[q].id = xfer[q].id
                                             /\ xfer'[q].pos = xfer[q].pos /\ xfer'[q].st = xfer[q].st
      BY <2>1, <2>2, PortTypes DEF Ports, Transfers
    <2>4. InFlight' = InFlight
      BY <2>1 DEF InFlight
    <2>5. OwnPorts'
      BY <2>1, <2>3, <2>4 DEF ReadInv, OwnPorts
    <2>6. DataInFlight' /\ FromReaders'
      BY <2>1, <2>3, <2>4 DEF ReadInv, DataInFlight, FromReaders, Readers
    <2>7. RoundLocals' /\ ReaderLocals' /\ ReadTransfers'
      BY <2>1, <2>3 DEF ReadInv, RoundLocals, Live, ReaderLocals, ReaderLocal, ReadTransfers, Readers
    <2> QED
      BY <2>5, <2>6, <2>7 DEF ReadInv
  <1>4. CASE (\E d \in net : Discard(d)) \/ Faults \/ UNCHANGED vars
    <2>1. UNCHANGED <<cl, xfer, srv>> /\ \A e \in net' : \E d \in net : SameWay(e, d)
      BY <1>4, NetworkSteps
    <2>2. RoundLocals'
      BY <2>1 DEF ReadInv, RoundLocals, Live, Ports
    <2> QED
      BY <2>1, <2>2, NetworkRead DEF InFlight, SameWay
  <1> QED
    BY <1>1, <1>2, <1>3, <1>4 DEF Next

\* ReadPrefix, for any number of clients, files of any size and any number of
\* faults: Read hands over the file's blocks in order, each once, none missing,
\* and returns only when it has handed over the whole file.
THEOREM ReadIsPrefix == Spec => []ReadPrefix
  <1>1. Init => TypeInv /\ ReadInv
    BY TypeInvInit, ReadInvInit
  <1>2. TypeInv /\ ReadInv /\ [Next]_vars => (TypeInv /\ ReadInv)'
    BY TypeInvNext, ReadInvNext
  <1>3. ReadInv => ReadPrefix
    BY DEF ReadInv, ReaderLocals, ReaderLocal, ReadPrefix
  <1> QED
    BY <1>1, <1>2, <1>3, PTL DEF Spec
---------------------------------------------------------------------------
(* What a step does to a Read and to the transfers that serve it.          *)

\* A step of one client changes nothing of the others, and nothing of the server.
LEMMA ClientFrame ==
  ASSUME TypeInv, NEW c \in Clients, ClientNext(c)
  PROVE  xfer' = xfer /\ \A e \in Clients \ {c} : cl'[e] = cl[e]
  BY DEF ClientNext, Start, ClientTimeout, ClientGarbled, ReadStranger, ReadRefused,
         ReadDuplicate, ReadBlock, WriteRefused, WriteAccepted, WriteDuplicate, WriteNext,
         ClientStep, TypeInv, TypeOK

\* The three things a step of a Read can be: it begins; it stays where it is or
\* fails, perhaps bound to the port that answered; it accepts the block it expects.
Begins(r, s) == /\ r.pc = "idle" /\ s.pc = "reading" /\ s.peer = r.peer
                /\ s.block = 1 /\ s.out = r.out
Waits(c, r, s) == /\ r.pc = "reading" /\ s.pc \in {"reading", "failed"}
                  /\ s.block = r.block /\ s.out = r.out
                  /\ \/ s.peer = r.peer
                     \/ r.peer = NoPort /\ \E d \in net : Received(c, d) /\ s.peer = d.port
Accepts(c, r, s) ==
    \E p \in Ports : LET chunk == FileChunk(Target[c], r.block)
                     IN  /\ r.pc = "reading" /\ r.peer \in {NoPort, p} /\ s.peer = p
                         /\ xfer[p].peer = c /\ xfer[p].pos = r.block
                         /\ s.block = r.block + 1 /\ s.out = Append(r.out, chunk)
                         /\ s.pc = IF chunk.len < BlockSize THEN "done" ELSE "reading"

LEMMA ReaderSteps ==
  ASSUME TypeInv, ReadInv, NEW c \in Readers, ClientNext(c)
  PROVE  Begins(cl[c], cl'[c]) \/ Waits(c, cl[c], cl'[c]) \/ Accepts(c, cl[c], cl'[c])
  <1> DEFINE me == cl[c]
  <1>1. /\ c \in Clients /\ Op[c] = "read" /\ me \in ClientStates /\ cl \in [Clients -> ClientStates]
        /\ ReaderLocal(c, me)
    BY DEF TypeInv, TypeOK, ReadInv, ReaderLocals, Readers
  <1>2. me.pc \in {"idle", "reading", "done", "failed"}
    BY <1>1 DEF ReaderLocal
  <1>3. ASSUME NEW d \in net, NEW next, NEW port, NEW pkts, ClientStep(c, d, next, port, pkts)
        PROVE  cl'[c] = next
    BY <1>1, <1>3 DEF ClientStep
  <1>4. ASSUME NEW d \in net, ~Stranger(c, d), me.pc = "reading"
        PROVE  LET b == Bound(c, d)
               IN  /\ b \in ClientStates /\ b.pc = me.pc /\ b.block = me.block /\ b.out = me.out
                   /\ b.peer = d.port /\ me.peer \in {NoPort, d.port} /\ d.port # NoPort
    BY <1>1, <1>4, ReceivedType DEF Bound, Stranger, ClientStates
  <1>5. CASE Start(c)
    <2>1. me.pc = "idle" /\ cl'[c] = [me EXCEPT !.pc = "reading", !.block = 1]
      BY <1>1, <1>5 DEF Start
    <2> QED
      BY <1>1, <2>1 DEF Begins, ClientStates
  <1>6. CASE ClientTimeout(c)
    <2>1. me.pc = "reading" /\ cl'[c] = [me EXCEPT !.pc = "failed"]
      BY <1>1, <1>2, <1>6 DEF ClientTimeout, Active
    <2> QED
      BY <1>1, <2>1 DEF Waits, ClientStates
  <1>7. ASSUME NEW d \in net, ClientGarbled(c, d)
        PROVE  Waits(c, me, cl'[c])
    <2>1. me.pc = "reading" /\ cl'[c] = [me EXCEPT !.pc = "failed"]
      BY <1>2, <1>3, <1>7 DEF ClientGarbled, Active, Failed
    <2> QED
      BY <1>1, <2>1 DEF Waits, ClientStates
  <1>8. ASSUME NEW d \in net, ReadStranger(c, d)
        PROVE  Waits(c, me, cl'[c])
    BY <1>3, <1>8 DEF ReadStranger, Waits
  <1>9. ASSUME NEW d \in net, ReadRefused(c, d)
        PROVE  Waits(c, me, cl'[c])
    <2> DEFINE b == Bound(c, d)
    <2>1. /\ Received(c, d) /\ me.pc = "reading" /\ ~Stranger(c, d)
          /\ cl'[c] = [b EXCEPT !.pc = "failed"]
      BY <1>3, <1>9 DEF ReadRefused
    <2>2. /\ b \in ClientStates /\ b.block = me.block /\ b.out = me.out
          /\ b.peer = d.port /\ me.peer \in {NoPort, d.port}
      BY <1>4, <2>1
    <2> HIDE DEF b
    <2>3. /\ cl'[c].pc = "failed" /\ cl'[c].block = me.block /\ cl'[c].out = me.out
          /\ cl'[c].peer = d.port
      BY <2>1, <2>2 DEF ClientStates
    <2> QED
      BY <2>1, <2>2, <2>3 DEF Waits
  <1>10. ASSUME NEW d \in net, ReadDuplicate(c, d)
         PROVE  Waits(c, me, cl'[c])
    <2>1. Received(c, d) /\ me.pc = "reading" /\ ~Stranger(c, d) /\ cl'[c] = Bound(c, d)
      BY <1>3, <1>10 DEF ReadDuplicate
    <2> QED
      BY <1>4, <2>1 DEF Waits
  <1>11. ASSUME NEW d \in net, ReadBlock(c, d)
         PROVE  Accepts(c, me, cl'[c])
    <2> DEFINE b     == Bound(c, d)
               chunk == d.pkt.chunk
    <2>1. /\ Received(c, d) /\ me.pc = "reading" /\ ~Stranger(c, d)
          /\ cl'[c] = [b EXCEPT !.pc = IF chunk.len < BlockSize THEN "done" ELSE @,
                                !.out = Append(@, chunk), !.block = @ + 1]
      BY <1>3, <1>11 DEF ReadBlock
    <2>2. /\ b \in ClientStates /\ b.block = me.block /\ b.out = me.out /\ b.pc = me.pc
          /\ b.peer = d.port /\ me.peer \in {NoPort, d.port}
      BY <1>4, <2>1
    <2>3. /\ chunk = FileChunk(Target[c], me.block) /\ d.port \in Ports
          /\ xfer[d.port].peer = c /\ xfer[d.port].pos = me.block
      BY <1>11, ExpectedBlock
    <2> HIDE DEF b, chunk
    <2>4. /\ cl'[c].pc = (IF chunk.len < BlockSize THEN "done" ELSE "reading")
          /\ cl'[c].block = me.block + 1 /\ cl'[c].out = Append(me.out, chunk)
          /\ cl'[c].peer = d.port
      BY <2>1, <2>2 DEF ClientStates
    <2> QED
      BY <2>1, <2>2, <2>3, <2>4 DEF Accepts
  <1>12. ASSUME NEW d \in net,
                WriteRefused(c, d) \/ WriteAccepted(c, d) \/ WriteDuplicate(c, d) \/ WriteNext(c, d)
         PROVE  FALSE
    BY <1>2, <1>12 DEF WriteRefused, WriteAccepted, WriteDuplicate, WriteNext
  <1> QED
    BY <1>5, <1>6, <1>7, <1>8, <1>9, <1>10, <1>11, <1>12 DEF ClientNext

\* The transfer took the ACK it waits for: it has ended, or sent the next block.
Advances(x, y) == /\ y.id = x.id + 1
                  /\ \/ y.pos = x.pos /\ y.st = "over"
                     \/ y.pos = x.pos + 1 /\ y.st = x.st

\* The steps of the server, as a reader's transfer on port p sees them: it is new; it
\* stays as it is; or it advances, on the ACK of a block the client has accepted.
LEMMA ReaderTransferSteps ==
  ASSUME TypeInv, ReadInv, ReadSync, RoundInv, [Next]_vars,
         NEW p \in Ports', xfer'[p].peer \in Readers
  PROVE  LET x == xfer[p]
             y == xfer'[p]
             c == y.peer
         IN  \/ /\ p \notin Ports /\ UNCHANGED cl /\ cl[c].peer # p
                /\ \/ y.id = 0 /\ y.pos = 0 /\ y.st \in {"live", "failed"}
                   \/ y.id = 1 /\ y.pos = 0 /\ y.st = "over"
                   \/ y.id = 1 /\ y.pos = 1 /\ y.st = "live"
             \/ p \in Ports /\ x.peer = c /\ x.id = y.id /\ x.pos = y.pos /\ x.st = y.st
             \/ /\ p \in Ports /\ UNCHANGED cl /\ x.peer = c /\ x.st = "live"
                /\ x.id = y.id /\ x.pos = y.pos /\ y.st \in {"live", "failed", "expired"}
             \/ /\ p \in Ports /\ UNCHANGED cl /\ x.peer = c /\ x.st = "live" /\ Advances(x, y)
                /\ cl[c].peer = p /\ x.id < cl[c].block
  <1> DEFINE y == xfer'[p]
             c == y.peer
  <1>0. RoundLocals
    BY DEF RoundInv
  <1>1. CASE xfer' = xfer
    BY <1>1 DEF Ports
  <1>2. ASSUME NEW q \in Ports, NEW d \in srv.ready, ServeReady(q, d)
        PROVE  \/ p \in Ports /\ xfer'[p] = xfer[p]
               \/ /\ p \in Ports /\ UNCHANGED cl /\ xfer[p].peer = c /\ xfer[p].st = "live"
                  /\ \/ xfer[p].id = y.id /\ xfer[p].pos = y.pos /\ y.st \in {"live", "failed"}
                     \/ Advances(xfer[p], y) /\ cl[c].peer = p /\ xfer[p].id < cl[c].block
    <2>1. /\ d.pkt \in Packets /\ xfer[q] \in Transfers /\ xfer[q].st = "live"
          /\ xfer'[q] = HandlePacket(xfer[q], d.pkt).x
          /\ Ports' = Ports /\ \A r \in Ports \ {q} : xfer'[r] = xfer[r]
      BY <1>0, <1>2, ServeReadyFields
    <2>2. CASE p # q
      BY <2>1, <2>2
    <2>3. CASE p = q
      <3> DEFINE x == xfer[p]
      <3>1. d.port = p /\ d.dir = "up" /\ d \in InFlight /\ UNCHANGED cl
        BY <1>0, <1>2, <2>3 DEF ServeReady, RoundLocals, InFlight
      <3>2. p \in Nat \ {0} /\ p # RequestPort
        BY <2>1, PortTypes DEF RequestPort
      <3>3. /\ x.peer = c /\ c \in Readers /\ x \in Transfers /\ x.st = "live"
            /\ y = HandlePacket(x, d.pkt).x
        <4>1. y.peer = x.peer
          BY <2>1, <2>3, HandlePacketFrame
        <4> QED
          BY <2>1, <2>3, <4>1
      <3>4. d.c = c
        BY <2>1, <3>1, <3>2, <3>3 DEF ReadInv, OwnPorts
      <3> HIDE DEF y
      <3>5. x.kind = "read" /\ x.id = x.pos /\ x.pos <= 16 /\ x.pos \in Nat
        <4>1. x.kind = "read" /\ x.id = x.pos /\ x.pos <= IF cl[c].peer = p THEN cl[c].block ELSE 1
          BY <2>1, <2>3, <3>3 DEF ReadInv, ReadTransfers, Live
        <4>2. cl[c].block <= 16 /\ cl[c].block \in Nat /\ x.pos \in Nat
          BY <3>3 DEF ReadInv, ReaderLocals, ReaderLocal, TypeInv, TypeOK, ClientStates, Readers, Transfers
        <4> QED
          BY <4>1, <4>2
      <3>6. NextId(x.id) = x.id + 1
        BY <3>5, NextIdSmall
      <3>7. ~IsRequest(d.pkt)
        BY <3>1, <3>2, <3>3, <3>4 DEF ReadInv, FromReaders
      <3>8. d.pkt.op = "ACK" => cl[c].peer = p /\ VisitedId(d.pkt) < cl[c].block
        BY <3>1, <3>3, <3>4, <3>7 DEF ReadInv, FromReaders, VisitedId
      <3>9. \/ y.pos = x.pos /\ y.id = x.id /\ y.st \in {x.st, "failed"}
            \/ /\ d.pkt.op = "ACK" /\ VisitedId(d.pkt) = x.id /\ y.id = NextId(x.id)
               /\ \/ y.pos = x.pos /\ y.st = "over"
                  \/ y.pos = x.pos + 1 /\ y.st = x.st
        BY <2>1, <3>3, <3>5, <3>7, HandlePacketRead
      <3> QED
        BY <2>1, <2>3, <3>1, <3>3, <3>6, <3>8, <3>9 DEF Advances
    <2> QED
      BY <2>2, <2>3
  <1>3. ASSUME NEW q \in Ports, ServeExpired(q)
        PROVE  \/ p \in Ports /\ xfer'[p] = xfer[p]
               \/ /\ p \in Ports /\ UNCHANGED cl /\ xfer[p].peer = c /\ xfer[p].st = "live"
                  /\ xfer[p].id = y.id /\ xfer[p].pos = y.pos /\ y.st = "expired"
    BY <1>0, <1>3, ServeExpiredFields DEF ServeExpired
  <1>4. ASSUME NEW q \in Ports, GrowLate(q)
        PROVE  /\ p \in Ports /\ xfer[p].peer = c
               /\ xfer[p].id = y.id /\ xfer[p].pos = y.pos /\ xfer[p].st = y.st
    BY <1>4, GrowLateFields
  <1>5. ASSUME NEW d \in srv.ready, AcceptClient(d)
        PROVE  \/ p \in Ports /\ xfer'[p] = xfer[p]
               \/ /\ p \notin Ports /\ UNCHANGED cl /\ cl[c].peer # p
                  /\ \/ y.id = 0 /\ y.pos = 0 /\ y.st \in {"live", "failed"}
                     \/ y.id = 1 /\ y.pos = 0 /\ y.st = "over"
                     \/ y.id = 1 /\ y.pos = 1 /\ y.st = "live"
    <2> DEFINE n == Len(xfer) + 1
               x == NewTransfer(d)
    <2>1. /\ n \in Nat \ {0} /\ n \notin Ports /\ Ports' = Ports \cup {n} /\ UNCHANGED cl
          /\ d.pkt \in Packets /\ IsRequest(d.pkt) /\ x \in Transfers
          /\ x.kind = (IF d.pkt.op = "RRQ" THEN "read" ELSE "write")
          /\ x.peer = d.c /\ x.id = 0 /\ x.pos = 0 /\ x.st = "live"
          /\ xfer'[n] = HandlePacket(x, d.pkt).x /\ xfer'[n].peer = x.peer
          /\ \A q \in Ports : xfer'[q] = xfer[q]
      BY <1>5, AcceptFields
    <2> HIDE DEF n, x
    <2>2. CASE p # n
      BY <2>1, <2>2
    <2>3. CASE p = n
      <3>1. c \in Readers /\ d.c = c
        BY <2>1, <2>3
      <3>2. x.kind = "read"
        BY <1>0, <2>1, <3>1 DEF ReadInv, FromReaders, InFlight, RoundLocals
      <3>3. cl[c].peer # p
        <4>1. p \notin {NoPort, RequestPort}
          BY <2>1, <2>3 DEF NoPort, RequestPort
        <4> QED
          BY <2>1, <2>3, <3>1, <4>1 DEF ReadInv, OwnPorts, Readers
      <3>4. NextId(0) = 1
        BY NextIdSmall
      <3>5. \/ y.pos = x.pos /\ y.id = x.id /\ y.st \in {x.st, "failed"}
            \/ /\ y.id = NextId(x.id)
               /\ \/ y.pos = x.pos /\ y.st = "over"
                  \/ y.pos = x.pos + 1 /\ y.st = x.st
        BY <2>1, <2>3, <3>2, HandlePacketRead
      <3> QED
        BY <2>1, <2>3, <3>3, <3>4, <3>5
    <2> QED
      BY <2>2, <2>3
  <1> HIDE DEF y
  <1> QED
    BY <1>1, <1>2, <1>3, <1>4, <1>5, SweepFields, PollingFields, NextShapes DEF Poll, y
\* Only its own client's step changes the locals of a Read.
LEMMA NextClients ==
  ASSUME TypeInv, [Next]_vars, NEW c \in Clients
  PROVE  \/ cl'[c] = cl[c]
         \/ xfer' = xfer /\ ClientNext(c)
  <1>1. ASSUME NEW e \in Clients, ClientNext(e)
        PROVE  \/ cl'[c] = cl[c]
               \/ xfer' = xfer /\ ClientNext(c)
    BY <1>1, ClientFrame
  <1>2. CASE ServerNext
    BY <1>2 DEF ServerNext, Poll, ServeReady, ServeExpired, Sweep, EndRound, RejectRequest, AcceptClient
  <1>3. ASSUME NEW p \in Ports, GrowLate(p)
        PROVE  cl' = cl
    BY <1>3 DEF GrowLate
  <1>4. ASSUME NEW d \in net, Discard(d)
        PROVE  cl' = cl
    BY <1>4 DEF Discard
  <1>5. CASE Faults
    BY <1>5 DEF Faults, Lose, Duplicate, Garble
  <1>6. CASE UNCHANGED vars
    BY <1>6 DEF vars
  <1> QED
    BY <1>1, <1>2, <1>3, <1>4, <1>5, <1>6 DEF Next

---------------------------------------------------------------------------
(* Where a reader's transfer stands.                                       *)

LEMMA ReadSyncInit == Init => ReadSync
  BY DEF Init, ReadSync, ReaderFull, ReadPlaces, Ports, Readers

LEMMA ReaderFullNext ==
  ASSUME TypeInv, ReadInv, ReadSync, [Next]_vars
  PROVE  ReaderFull'
  <1> DEFINE Full(r) == /\ r.pc = "reading" => \A k \in 1 .. Len(r.out) : r.out[k].len = BlockSize
                        /\ r.pc = "done" => r.out # <<>> /\ r.out[Len(r.out)].len < BlockSize
                        /\ r.peer \in {NoPort, RequestPort} => r.block <= 1
  <1>1. ASSUME NEW c \in Readers
        PROVE  Full(cl'[c])
    <2> DEFINE r == cl[c]
               s == cl'[c]
    <2> SUFFICES Full(s)
      OBVIOUS
    <2>1. /\ c \in Clients /\ r \in ClientStates /\ r.out \in Seq(Chunks) /\ r.block \in Nat
          /\ ReaderLocal(c, r)
      BY DEF TypeInv, TypeOK, ReadInv, ReaderLocals, Readers, ClientStates
    <2>2. Full(r)
      BY DEF ReadSync, ReaderFull
    <2>3. CASE s = r
      BY <2>2, <2>3
    <2>4. CASE Begins(r, s)
      <3>1. s.out = <<>> /\ s.block = 1 /\ s.pc = "reading"
        BY <2>1, <2>4 DEF Begins, ReaderLocal
      <3> QED
        BY <3>1
    <2>5. CASE Waits(c, r, s)
      <3>1. /\ r.pc = "reading" /\ s.pc \in {"reading", "failed"}
            /\ s.block = r.block /\ s.out = r.out
            /\ s.peer = r.peer \/ r.peer = NoPort
        BY <2>5 DEF Waits
      <3> HIDE DEF r, s
      <3> QED
        BY <2>2, <3>1
    <2>6. CASE Accepts(c, r, s)
      <3> DEFINE chunk == FileChunk(Target[c], r.block)
      <3>1. /\ s.peer \in Ports /\ s.out = Append(r.out, chunk) /\ r.pc = "reading"
            /\ s.pc = IF chunk.len < BlockSize THEN "done" ELSE "reading"
        BY <2>6 DEF Accepts
      <3>2. chunk \in Chunks
        BY <2>1, FileChunkType, WorkAssumption
      <3>3. chunk.len \in Nat /\ BlockSize \in Nat /\ (chunk.len < BlockSize \/ chunk.len = BlockSize)
        BY <3>2, SizesAssumption DEF Chunks
      <3>4. s.peer \notin {NoPort, RequestPort}
        BY <3>1, PortTypes DEF NoPort, RequestPort
      <3> HIDE DEF chunk, r, s
      <3>5. Len(s.out) = Len(r.out) + 1 /\ s.out[Len(s.out)] = chunk /\ s.out # <<>>
            /\ \A k \in 1 .. Len(r.out) : s.out[k] = r.out[k]
        BY <2>1, <3>1, <3>2
      <3>6. \A k \in 1 .. Len(r.out) : s.out[k].len = BlockSize
        BY <2>2, <3>1, <3>5
      <3>7. s.pc = "reading" => \A k \in 1 .. Len(s.out) : s.out[k].len = BlockSize
        <4>1. s.pc = "reading" => s.out[Len(s.out)].len = BlockSize
          BY <3>1, <3>3, <3>5
        <4>2. \A k \in 1 .. Len(s.out) : k \in 1 .. Len(r.out) \/ k = Len(s.out)
          BY <2>1, <3>5
        <4> QED
          BY <3>6, <4>1, <4>2
      <3>8. s.pc = "done" => s.out # <<>> /\ s.out[Len(s.out)].len < BlockSize
        BY <3>1, <3>5
      <3> QED
        BY <3>4, <3>7, <3>8
    <2> HIDE DEF Full
    <2> QED
      BY <2>1, <2>3, <2>4, <2>5, <2>6, NextClients, ReaderSteps
  <1> QED
    BY <1>1 DEF ReaderFull, Readers

LEMMA ReadPlacesNext ==
  ASSUME TypeInv, ReadInv, RoundInv, ReadSync, [Next]_vars
  PROVE  ReadPlaces'
  <1> DEFINE Expected(r, p) == IF r.peer = p THEN r.block ELSE 1
             Place(x, n)    == /\ x.id = IF x.st = "over" THEN x.pos + 1 ELSE x.pos
                               /\ n - 1 <= x.pos
                               /\ x.st = "over" => x.pos < n
  <1>1. ASSUME NEW p \in Ports', xfer'[p].peer \in Readers
        PROVE  Place(xfer'[p], Expected(cl'[xfer'[p].peer], p))
    <2> DEFINE x == xfer[p]
               y == xfer'[p]
               c == y.peer
               r == cl[c]
               s == cl'[c]
    <2> SUFFICES Place(y, Expected(s, p))
      OBVIOUS
    <2>1. /\ c \in Clients /\ c \in Readers /\ r \in ClientStates /\ r.block \in Nat
          /\ ReaderLocal(c, r)
      BY <1>1 DEF TypeInv, TypeOK, ReadInv, ReaderLocals, Readers, ClientStates
    <2>2. ASSUME p \in Ports, x.peer = c
          PROVE  Place(x, Expected(r, p)) /\ x.pos \in Nat /\ p # NoPort /\ r.pc # "idle"
      <3>1. x \in Transfers /\ p # NoPort
        BY <2>2, PortTypes DEF NoPort
      <3>2. Place(x, Expected(r, p))
        BY <1>1, <2>2 DEF ReadSync, ReadPlaces
      <3>3. r.pc # "idle"
        BY <1>1, <2>2 DEF ReadInv, ReadTransfers
      <3> QED
        BY <3>1, <3>2, <3>3 DEF Transfers
    <2>3. CASE /\ p \notin Ports /\ UNCHANGED cl /\ r.peer # p
               /\ \/ y.id = 0 /\ y.pos = 0 /\ y.st \in {"live", "failed"}
                  \/ y.id = 1 /\ y.pos = 0 /\ y.st = "over"
                  \/ y.id = 1 /\ y.pos = 1 /\ y.st = "live"
      <3>1. Expected(s, p) = 1
        BY <2>3
      <3> HIDE DEF y, Expected
      <3> QED
        BY <2>3, <3>1
    <2>4. CASE p \in Ports /\ x.peer = c /\ x.id = y.id /\ x.pos = y.pos /\ x.st = y.st
      <3>1. Place(x, Expected(r, p)) /\ x.pos \in Nat /\ p # NoPort /\ r.pc # "idle"
        BY <2>2, <2>4
      <3>2. CASE Expected(s, p) = Expected(r, p)
        <4> HIDE DEF Expected, x, y
        <4> QED
          BY <2>4, <3>1, <3>2
      <3>3. CASE Waits(c, r, s)
        <4>1. /\ s.block = r.block /\ r.pc = "reading"
              /\ s.peer = r.peer \/ r.peer = NoPort
          BY <3>3 DEF Waits
        <4>2. r.block >= 1 /\ (r.peer = NoPort => r.block <= 1)
          BY <2>1, <4>1 DEF ReaderLocal, ReadSync, ReaderFull, ClientStates
        <4>3. Expected(s, p) = Expected(r, p)
          BY <2>1, <3>1, <4>1, <4>2
        <4> QED
          BY <3>2, <4>3
      <3>4. CASE Accepts(c, r, s)
        <4>1. PICK q \in Ports : /\ r.peer \in {NoPort, q} /\ s.peer = q /\ xfer[q].pos = r.block
                                 /\ s.block = r.block + 1
          BY <3>4 DEF Accepts
        <4>2. CASE q # p
          <5>1. Expected(s, p) = Expected(r, p)
            BY <3>1, <4>1, <4>2
          <5> QED
            BY <3>2, <5>1
        <4>3. CASE q = p
          <5>1. Expected(s, p) = r.block + 1 /\ x.pos = r.block
            BY <4>1, <4>3
          <5> HIDE DEF Expected, x, y, r
          <5> QED
            BY <2>1, <2>4, <3>1, <5>1
        <4> QED
          BY <4>2, <4>3
      <3>5. ~Begins(r, s)
        BY <3>1 DEF Begins
      <3>6. s = r \/ Begins(r, s) \/ Waits(c, r, s) \/ Accepts(c, r, s)
        BY <2>1, NextClients, ReaderSteps
      <3> QED
        BY <3>2, <3>3, <3>4, <3>5, <3>6
    <2>5. CASE /\ p \in Ports /\ UNCHANGED cl /\ x.peer = c /\ x.st = "live"
               /\ x.id = y.id /\ x.pos = y.pos /\ y.st \in {"live", "failed", "expired"}
      <3>1. Place(x, Expected(r, p)) /\ Expected(s, p) = Expected(r, p)
        BY <2>2, <2>5
      <3> HIDE DEF Expected, x, y
      <3> QED
        BY <2>5, <3>1
    <2>6. CASE /\ p \in Ports /\ UNCHANGED cl /\ x.peer = c /\ x.st = "live" /\ Advances(x, y)
               /\ r.peer = p /\ x.id < r.block
      <3>1. Place(x, Expected(r, p)) /\ Expected(s, p) = r.block /\ Expected(r, p) = r.block /\ x.pos \in Nat
        BY <2>2, <2>6
      <3> HIDE DEF Expected, x, y, r
      <3> QED
        BY <2>1, <2>6, <3>1 DEF Advances
    <2> HIDE DEF Place, Expected
    <2> QED
      BY <1>1, <2>3, <2>4, <2>5, <2>6, ReaderTransferSteps
  <1> QED
    BY <1>1 DEF ReadPlaces, Readers

LEMMA ReadSyncNext == TypeInv /\ ReadInv /\ RoundInv /\ ReadSync /\ [Next]_vars => ReadSync'
  BY ReaderFullNext, ReadPlacesNext DEF ReadSync

LEMMA Reads == Spec => [](TypeInv /\ ReadInv /\ RoundInv /\ ReadSync)
  BY TypeInvInit, TypeInvNext, ReadInvInit, ReadInvNext, RoundInvInit, RoundInvNext,
     ReadSyncInit, ReadSyncNext, PTL DEF Spec

\* ReadInv, for any number of clients, files of any size and any number of faults.
THEOREM ReadInvHolds == Spec => []ReadInv
  BY Reads, PTL

---------------------------------------------------------------------------
(* Read implements FileTransfer.                                           *)

\* The server's half of the mapping moves on by one, on the ACK of a block the
\* client has accepted.
LEMMA ServerReading ==
  ASSUME TypeInv, ReadInv, RoundInv, ReadSync, [Next]_vars, ReadInv',
         NEW c \in Readers, cl'[c] = cl[c]
  PROVE  \/ ReadKnown(c)' = ReadKnown(c)
         \/ /\ ReadKnown(c) < Len(cl[c].out)
            /\ ReadKnown(c)' = ReadKnown(c) + 1
  <1> DEFINE r == cl[c]
             p == r.peer
  <1>1. CASE ~Bindable(c)
    BY <1>1 DEF ReadKnown, Bindable
  <1>2. CASE Bindable(c)
    <2> DEFINE x == xfer[p]
               y == xfer'[p]
    <2>1. p \in Ports /\ p \in Ports' /\ y.peer = c /\ x \in Transfers /\ c \in Clients
      <3>1. c \in Clients /\ p \notin {NoPort, RequestPort}
        BY <1>2 DEF Bindable, Readers
      <3>2. p \in Ports
        BY <3>1 DEF ReadInv, OwnPorts
      <3>3. p \in Ports' /\ y.peer = c
        BY <3>1 DEF ReadInv, OwnPorts
      <3> QED
        BY <3>1, <3>2, <3>3, PortTypes
    <2>2. /\ ReadKnown(c) = IF x.id > 0 THEN x.id - 1 ELSE 0
          /\ ReadKnown(c)' = IF y.id > 0 THEN y.id - 1 ELSE 0
      BY <1>2 DEF ReadKnown, Bindable, BoundTo
    <2>3. y.id = x.id \/ (Advances(x, y) /\ x.id < r.block)
      BY <2>1, ReaderTransferSteps
    <2>4. x.id \in Nat /\ r.block = Len(r.out) + 1 /\ Len(r.out) \in Nat
      <3>0. x.id \in Nat
        BY <2>1, IdRangeType DEF Transfers, Ids
      <3>1. ReaderLocal(c, r) /\ r.out \in Seq(Chunks)
        BY <2>1 DEF ReadInv, ReaderLocals, TypeInv, TypeOK, ClientStates
      <3>2. r.pc # "idle"
        <4>1. x.peer = c
          BY <1>2, <2>1 DEF ReadInv, OwnPorts, Bindable
        <4> QED
          BY <2>1, <4>1 DEF ReadInv, ReadTransfers
      <3> QED
        BY <3>0, <3>1, <3>2 DEF ReaderLocal
    <2>5. CASE y.id = x.id
      BY <2>2, <2>5
    <2>6. CASE y.id = x.id + 1 /\ x.id < r.block
      <3> HIDE DEF x, y
      <3>1. CASE x.id = 0
        BY <2>2, <2>6, <3>1
      <3>2. CASE x.id > 0
        <4>1. ReadKnown(c) = x.id - 1 /\ ReadKnown(c)' = x.id
          BY <2>2, <2>4, <2>6, <3>2
        <4> QED
          BY <2>4, <2>6, <4>1
      <3> QED
        BY <2>4, <3>1, <3>2
    <2> QED
      BY <2>3, <2>5, <2>6 DEF Advances
  <1> QED
    BY <1>1, <1>2

\* A transfer the client is not bound to yet knows of no block.
LEMMA UnboundKnows ==
  ASSUME TypeInv, ReadInv, ReadSync, NEW c \in Readers, cl[c].peer = NoPort,
         NEW d \in net, Received(c, d), d.port # RequestPort
  PROVE  xfer[d.port].id \in {0, 1}
  <1> DEFINE x == xfer[d.port]
  <1>1. d.port \in Ports /\ x.peer = c /\ d.port # NoPort
    BY PortTypes DEF ReadInv, OwnPorts, InFlight, Received, NoPort
  <1>2. x.pos \in Nat /\ x.pos <= 1
    BY <1>1, PortTypes DEF ReadInv, ReadTransfers, Transfers
  <1>3. /\ x.id = IF x.st = "over" THEN x.pos + 1 ELSE x.pos
        /\ x.st = "over" => x.pos < 1
    BY <1>1 DEF ReadSync, ReadPlaces
  <1> HIDE DEF x
  <1> QED
    BY <1>2, <1>3 DEF x

\* The block a Read accepts is the one the server waits to have acknowledged.
LEMMA AcceptedIsKnown ==
  ASSUME TypeInv, ReadInv, ReadSync, NEW c \in Readers, xfer' = xfer,
         Accepts(c, cl[c], cl'[c])
  PROVE  ReadKnown(c) = Len(cl[c].out) /\ ReadKnown(c)' = Len(cl[c].out)
  <1> DEFINE r == cl[c]
  <1>1. PICK p \in Ports : /\ r.pc = "reading" /\ r.peer \in {NoPort, p} /\ cl'[c].peer = p
                           /\ xfer[p].peer = c /\ xfer[p].pos = r.block
    BY DEF Accepts
  <1> DEFINE x == xfer[p]
  <1>2. r.block = Len(r.out) + 1 /\ Len(r.out) \in Nat /\ r.block \in Nat
    BY <1>1 DEF ReadInv, ReaderLocals, ReaderLocal, TypeInv, TypeOK, ClientStates, Readers
  <1>3. r.peer = NoPort => r.block <= 1
    BY DEF ReadSync, ReaderFull
  <1>4. p \notin {NoPort, RequestPort}
    BY PortTypes DEF NoPort, RequestPort
  <1>5. /\ x.id = IF x.st = "over" THEN x.pos + 1 ELSE x.pos
        /\ x.st = "over" => x.pos < IF r.peer = p THEN r.block ELSE 1
    BY <1>1 DEF ReadSync, ReadPlaces
  <1>6. x.id = r.block
    BY <1>1, <1>2, <1>3, <1>5
  <1>7. ReadKnown(c)' = Len(r.out)
    <2>1. ReadKnown(c)' = IF x.id > 0 THEN x.id - 1 ELSE 0
      BY <1>1, <1>4 DEF ReadKnown, Bindable, BoundTo
    <2> QED
      BY <1>2, <1>6, <2>1
  <1>8. ReadKnown(c) = Len(r.out)
    <2>1. CASE r.peer = p
      <3>1. ReadKnown(c) = IF x.id > 0 THEN x.id - 1 ELSE 0
        BY <1>4, <2>1 DEF ReadKnown, Bindable, BoundTo
      <3> QED
        BY <1>2, <1>6, <3>1
    <2>2. CASE r.peer = NoPort
      <3>1. ReadKnown(c) = 0
        BY <2>2 DEF ReadKnown, Bindable
      <3> QED
        BY <1>2, <1>3, <2>2, <3>1
    <2> QED
      BY <1>1, <2>1, <2>2
  <1> QED
    BY <1>7, <1>8

LEMMA ReadingNext ==
  ASSUME TypeInv, ReadInv, RoundInv, ReadSync, [Next]_vars, ReadInv', NEW c \in Readers
  PROVE  [Reading(c)!Next]_(Reading(c)!vars)
  <1> DEFINE r == cl[c]
             s == cl'[c]
  <1>1. c \in Clients /\ r.out \in Seq(Chunks) /\ Len(r.out) \in Nat /\ ReaderLocal(c, r)
    BY DEF ReadInv, ReaderLocals, Readers, TypeInv, TypeOK, ClientStates
  <1>2. CASE s = r
    <2>1. \/ ReadKnown(c)' = ReadKnown(c)
          \/ ReadKnown(c) < Len(r.out) /\ ReadKnown(c)' = ReadKnown(c) + 1
      BY <1>2, ServerReading
    <2> QED
      BY <1>2, <2>1 DEF Reading!Next, Reading!vars, Reading!Learn, Reading!Continue
  <1>3. CASE xfer' = xfer /\ Begins(r, s)
    <2>1. ReadKnown(c)' = ReadKnown(c)
      BY <1>3 DEF Begins, ReadKnown, Bindable, BoundTo
    <2>2. s.out = r.out /\ StatusOf(s.pc) = StatusOf(r.pc)
      BY <1>3 DEF Begins, StatusOf
    <2> QED
      BY <2>1, <2>2 DEF Reading!vars
  <1>4. CASE xfer' = xfer /\ Waits(c, r, s)
    <2>1. ReadKnown(c)' = ReadKnown(c)
      <3>1. CASE s.peer = r.peer
        BY <1>4, <3>1 DEF ReadKnown, Bindable, BoundTo
      <3>2. CASE s.peer # r.peer
        <4>1. PICK d \in net : r.peer = NoPort /\ Received(c, d) /\ s.peer = d.port
          BY <1>4, <3>2 DEF Waits
        <4>2. ReadKnown(c) = 0
          BY <4>1 DEF ReadKnown, Bindable
        <4>3. d.port # RequestPort => xfer[d.port].id \in {0, 1}
          BY <4>1, UnboundKnows
        <4>4. ReadKnown(c)' = 0
          BY <1>4, <4>1, <4>3 DEF ReadKnown, Bindable, BoundTo
        <4> QED
          BY <4>2, <4>4
      <3> QED
        BY <3>1, <3>2
    <2>2. /\ s.out = r.out /\ StatusOf(r.pc) = "open"
          /\ StatusOf(s.pc) \in {"open", "failed"}
      BY <1>4 DEF Waits, StatusOf
    <2> QED
      BY <2>1, <2>2 DEF Reading!vars, Reading!Next, Reading!Fail, Reading!GiveUp
  <1>5. CASE xfer' = xfer /\ Accepts(c, r, s)
    <2> DEFINE chunk == FileChunk(Target[c], r.block)
    <2>1. ReadKnown(c) = Len(r.out) /\ ReadKnown(c)' = Len(r.out)
      BY <1>5, AcceptedIsKnown
    <2>2. /\ s.out = Append(r.out, chunk) /\ r.pc = "reading"
          /\ s.pc = IF chunk.len < BlockSize THEN "done" ELSE "reading"
      BY <1>5 DEF Accepts
    <2>3. r.block = Len(r.out) + 1
      BY <1>1, <2>2 DEF ReaderLocal
    <2>4. [k \in Nat \ {0} |-> FileChunk(Target[c], k)][Len(r.out) + 1] = chunk
      <3>1. Len(r.out) + 1 \in Nat \ {0}
        BY <1>1
      <3> QED
        BY <2>3, <3>1
    <2>5. ~(r.out # <<>> /\ r.out[Len(r.out)].len < BlockSize)
      <3>1. \A k \in 1 .. Len(r.out) : r.out[k].len = BlockSize
        BY <2>2 DEF ReadSync, ReaderFull
      <3>2. r.out # <<>> => Len(r.out) \in 1 .. Len(r.out)
        BY <1>1
      <3> QED
        BY <3>1, <3>2, SizesAssumption
    <2>6. /\ StatusOf(r.pc) = "open"
          /\ \/ StatusOf(s.pc) = "open"
             \/ StatusOf(s.pc) = "done" /\ chunk.len < BlockSize
      BY <2>2 DEF StatusOf
    <2>7. s.out # <<>> /\ s.out[Len(s.out)] = chunk
      <3>1. chunk \in Chunks
        <4>1. r.block \in Nat
          BY <1>1, <2>3
        <4> QED
          BY <1>1, <4>1, FileChunkType, WorkAssumption
      <3> QED
        BY <1>1, <2>2, <3>1
    <2> HIDE DEF chunk
    <2> QED
      BY <2>1, <2>2, <2>4, <2>5, <2>6, <2>7
         DEF Reading!Next, Reading!Deliver, Reading!Whole, Reading!Continue, Reading!Return
  <1> QED
    BY <1>1, <1>2, <1>3, <1>4, <1>5, NextClients, ReaderSteps

\* ReadsTransfer, for any number of clients, files of any size and any number of
\* faults: every Read is a FileTransfer, whose theorem TransferKept then says what
\* its caller gets.
THEOREM ReadIsTransfer == Spec => ReadsTransfer
  <1>1. Init => \A c \in Readers : Reading(c)!Init
    BY DEF Init, Readers, Reading!Init, ReadKnown, Bindable, StatusOf
  <1>2. TypeInv /\ ReadInv /\ RoundInv /\ ReadSync /\ [Next]_vars
           => [\A c \in Readers : [Reading(c)!Next]_(Reading(c)!vars)]_vars
    BY ReadInvNext, ReadingNext
  <1> QED
    BY <1>1, <1>2, Reads, PTL DEF Spec, ReadsTransfer

---------------------------------------------------------------------------
(* Write hands its data to one transfer of the server, block by block,     *)
(* whatever the network does, although it does not look at the port an ACK *)
(* comes from.  The argument: the number of an ACK is at most the number   *)
(* of blocks its sender has, and only the transfer the client is bound to  *)
(* has any; and the number of a block is at most its real number, so the   *)
(* one that matches is the next.                                           *)

LEMMA TwoKinds == Clients = Readers \cup Writers /\ Readers \cap Writers = {}
  BY WorkAssumption DEF Readers, Writers

\* A writing transfer moves on, by one block, only on the block it waits for, and
\* acknowledges it.
LEMMA HandlePacketWrite ==
  ASSUME NEW x \in Transfers, NEW pkt \in Packets, x.kind = "write"
  PROVE  LET y == HandlePacket(x, pkt).x
             s == HandlePacket(x, pkt).send
         IN  \/ /\ y.got = x.got /\ y.id = x.id /\ y.st \in {x.st, "failed"}
                /\ \A q \in s : q.op = "ERROR"
                /\ ~(IsRequest(pkt) /\ x.id = 0)
             \/ /\ IsRequest(pkt) /\ x.id = 0
                /\ y.got = x.got /\ y.id = 1 /\ y.st = x.st /\ s = {Ack(0)}
             \/ /\ pkt.op = "DATA" /\ pkt.id = x.id
                /\ y.got = Append(x.got, pkt.chunk) /\ y.id = NextId(x.id) /\ s = {Ack(x.id)}
                /\ y.st = IF NextId(x.id) = 1 \/ pkt.chunk.len = BlockSize THEN x.st ELSE "over"
  <1>1. CASE pkt = Garbled \/ pkt.op = "ERROR" \/ AnswerError(x, pkt) # {} \/ VisitedId(pkt) # x.id
    <2>1. \A q \in AnswerError(x, pkt) \cup {Illegal} : q.op = "ERROR"
      BY DEF AnswerError, Illegal, Error
    <2>2. \/ \E pkts \in {{}, {Illegal}, AnswerError(x, pkt)} : HandlePacket(x, pkt) = Ended(x, "failed", pkts)
          \/ HandlePacket(x, pkt) = Handled(x, {})
      BY <1>1 DEF HandlePacket
    <2>3. ~(IsRequest(pkt) /\ x.id = 0)
      BY <1>1 DEF Garbled, IsRequest, AnswerError, VisitedId
    <2>4. ASSUME NEW pkts \in {{}, {Illegal}, AnswerError(x, pkt)},
                 HandlePacket(x, pkt) = Ended(x, "failed", pkts)
          PROVE  /\ HandlePacket(x, pkt).x.got = x.got /\ HandlePacket(x, pkt).x.id = x.id
                 /\ HandlePacket(x, pkt).x.st = "failed"
                 /\ \A q \in HandlePacket(x, pkt).send : q.op = "ERROR"
      <3>1. \A q \in pkts : q.op = "ERROR"
        BY <2>1
      <3> QED
        BY <2>4, <3>1, HandledFields
    <2>5. CASE HandlePacket(x, pkt) = Handled(x, {})
      BY <2>3, <2>5, HandledFields
    <2> QED
      BY <2>2, <2>3, <2>4, <2>5
  <1>2. CASE ~(pkt = Garbled \/ pkt.op = "ERROR" \/ AnswerError(x, pkt) # {} \/ VisitedId(pkt) # x.id)
    <2>1. HandlePacket(x, pkt) = HandleData(x, pkt)
      BY <1>2 DEF HandlePacket
    <2>2. IsRequest(pkt) \/ pkt.op = "DATA"
      BY <1>2, PacketFields DEF AnswerError, IsRequest
    <2>3. VisitedId(pkt) = x.id
      BY <1>2
    <2>4. NextId(0) = 1
      BY NextIdSmall
    <2>5. CASE IsRequest(pkt)
      BY <2>1, <2>3, <2>4, <2>5, HandleDataFields DEF VisitedId
    <2>6. CASE ~IsRequest(pkt)
      <3>1. pkt.op = "DATA" /\ pkt.id = x.id
        BY <2>2, <2>3, <2>6 DEF VisitedId
      <3> QED
        BY <2>1, <2>2, <2>6, <3>1, HandleDataFields
    <2> QED
      BY <2>5, <2>6
  <1> QED
    BY <1>1, <1>2

---------------------------------------------------------------------------
(* The two matches the argument is about.                                  *)

\* A transfer's sequence of blocks, and the locals of its client.
LEMMA WriterTypes ==
  ASSUME TypeInv, ReadInv, WriteInv
  PROVE  /\ \A c \in Writers : /\ c \in Clients /\ cl[c] \in ClientStates /\ cl[c].block \in Nat
                              /\ WriterLocal(c, cl[c]) /\ Sent(c) <= cl[c].block
                              /\ Input[c] \in Sources /\ Input[c].full \in Nat
         /\ \A p \in Ports : /\ xfer[p] \in Transfers /\ xfer[p].got \in Seq(Chunks)
                            /\ Len(xfer[p].got) \in Nat /\ p \notin {NoPort, RequestPort}
  <1>1. ASSUME NEW c \in Writers
        PROVE  /\ c \in Clients /\ cl[c] \in ClientStates /\ cl[c].block \in Nat
               /\ WriterLocal(c, cl[c]) /\ Sent(c) <= cl[c].block
               /\ Input[c] \in Sources /\ Input[c].full \in Nat
    <2>1. c \in Clients /\ cl[c] \in ClientStates /\ cl[c].block \in Nat /\ WriterLocal(c, cl[c])
      BY DEF TypeInv, TypeOK, WriteInv, WriterLocals, Writers, ClientStates
    <2>2. Input[c] \in Sources /\ Input[c].full \in Nat
      BY <2>1, WorkAssumption DEF Sources
    <2> QED
      BY <2>1, <2>2 DEF Sent
  <1>2. ASSUME NEW p \in Ports
        PROVE  /\ xfer[p] \in Transfers /\ xfer[p].got \in Seq(Chunks)
               /\ Len(xfer[p].got) \in Nat /\ p \notin {NoPort, RequestPort}
    <2>1. xfer[p] \in Transfers /\ p \notin {NoPort, RequestPort}
      BY PortTypes DEF NoPort, RequestPort
    <2>2. xfer[p].got \in Seq(Chunks)
      BY <2>1 DEF Transfers
    <2> QED
      BY <2>1, <2>2
  <1> QED
    BY <1>1, <1>2

\* The block a writing transfer appends is the next one, and the last one sent.
LEMMA ExpectedData ==
  ASSUME TypeInv, ReadInv, WriteInv, NEW p \in Ports, xfer[p].peer \in Writers,
         NEW d \in InFlight, d.dir = "up", d.port = p,
         d.pkt.op = "DATA", d.pkt.id = xfer[p].id
  PROVE  LET c == xfer[p].peer
             k == Len(xfer[p].got) + 1
         IN  /\ d.pkt.chunk = InputChunk(c, k) /\ k <= 15 /\ WireId(k) = k
             /\ cl[c].peer = p /\ cl[c].block = k /\ Sent(c) = k
  <1> DEFINE x == xfer[p]
             c == x.peer
             n == Len(x.got)
  <1>1. /\ n \in Nat /\ cl[c].block \in Nat /\ Sent(c) <= cl[c].block
        /\ p \notin {NoPort, RequestPort}
    BY WriterTypes
  <1>2. d.c = c
    BY <1>1 DEF ReadInv, OwnPorts
  <1>3. PICK k \in 1 .. Sent(c) : d.pkt.id = WireId(k) /\ d.pkt.chunk = InputChunk(c, k)
    BY <1>2 DEF WriteInv, FromWriters
  <1>4. cl[c].peer = p
    BY <1>2 DEF WriteInv, FromWriters
  <1>5. x.id = n + 1 /\ n <= 15 /\ cl[c].block - 1 <= n /\ n <= Sent(c)
    BY <1>4 DEF WriteInv, WriteTransfers
  <1> HIDE DEF x, n, c
  <1>6. Sent(c) \in Int /\ k \in Nat
    BY <1>1, <1>3 DEF Sent
  <1>7. WireId(k) \in Nat /\ WireId(k) <= k
    BY <1>6, WireIdNat
  <1>8. WireId(k) = n + 1
    BY <1>3, <1>5 DEF x
  <1>9. k = n + 1 /\ cl[c].block = n + 1 /\ Sent(c) = n + 1
    BY <1>1, <1>3, <1>5, <1>6, <1>7, <1>8
  <1>10. k <= 15
    BY <1>1, <1>5, <1>8, <1>9, WireIdFixed
  <1> QED
    BY <1>3, <1>4, <1>8, <1>9, <1>10 DEF x, n, c

\* The ACK that moves a Write on is its own transfer's, of the block just sent.
LEMMA ExpectedAck ==
  ASSUME TypeInv, ReadInv, WriteInv, NEW c \in Writers, NEW d \in net, WriteNext(c, d)
  PROVE  LET b == cl[c].block
             p == cl[c].peer
         IN  /\ p \in Ports /\ xfer[p].peer = c /\ Len(xfer[p].got) = b
             /\ b \in 1 .. 15 /\ NextId(b) = b + 1
             /\ OctetEof(Input[c], b) => Input[c].ok /\ b = Blocks(Input[c])
             /\ ~OctetEof(Input[c], b) /\ Input[c].ok => b + 1 <= Blocks(Input[c])
  <1> DEFINE b == cl[c].block
             q == d.port
             n == Len(xfer[q].got)
  <1>1. /\ c \in Clients /\ b \in Nat /\ Input[c].full \in Nat /\ WriterLocal(c, cl[c])
    BY WriterTypes
  <1>2. cl[c].pc = "writing" /\ d.dir = "down" /\ d.c = c /\ d.pkt.op = "ACK" /\ d.pkt.id = b
    BY DEF WriteNext, Received
  <1>3. b >= 1 /\ (Input[c].ok => b <= Blocks(Input[c]))
    BY <1>1, <1>2 DEF WriterLocal
  <1>4. q \in Ports /\ b <= n
    BY <1>2 DEF WriteInv, AcksInFlight
  <1>5. n \in Nat /\ q \notin {NoPort, RequestPort}
    BY <1>4, WriterTypes
  <1>6. xfer[q].peer = c
    BY <1>2, <1>4, <1>5 DEF ReadInv, OwnPorts, InFlight
  <1>7. n <= 15 /\ IF cl[c].peer = q THEN n <= Sent(c) ELSE n = 0
    BY <1>4, <1>6 DEF WriteInv, WriteTransfers
  <1>8. Sent(c) = b
    BY <1>2 DEF Sent
  <1>9. cl[c].peer = q /\ n = b /\ b <= 15
    <2> HIDE DEF b, n, q
    <2>1. cl[c].peer = q
      BY <1>1, <1>3, <1>4, <1>5, <1>7
    <2> QED
      BY <1>1, <1>4, <1>5, <1>7, <1>8, <2>1
  <1>10. NextId(b) = b + 1
    BY <1>1, <1>9, NextIdSmall
  <1>11. /\ OctetEof(Input[c], b) => Input[c].ok /\ b = Blocks(Input[c])
         /\ ~OctetEof(Input[c], b) /\ Input[c].ok => b + 1 <= Blocks(Input[c])
    BY <1>1, <1>3 DEF OctetEof, Blocks
  <1>12. b \in 1 .. 15
    <2>1. b \in Nat /\ 1 <= b /\ b <= 15
      BY <1>1, <1>3, <1>9
    <2> HIDE DEF b
    <2> QED
      BY <2>1
  <1>13. LET p == cl[c].peer IN p \in Ports /\ xfer[p].peer = c /\ Len(xfer[p].got) = b
    BY <1>4, <1>6, <1>9
  <1> QED
    BY <1>10, <1>11, <1>12, <1>13
---------------------------------------------------------------------------
(* The inductive invariant, one lemma for each shape of step.              *)

SentBy(r) == IF r.pc = "done" THEN r.block - 1 ELSE r.block

\* How many blocks a transfer on port p may have when its client's locals are r.
Holds(r, p, n) == IF r.peer = p THEN r.block - 1 <= n /\ n <= SentBy(r) ELSE n = 0

\* What a step of a Write may do: send its request, or blocks it counts as sent to
\* the port it is bound to, and bind itself once.
WriterStep(c, next, port, pkts) ==
    /\ WriterLocal(c, next) /\ next.pc # "idle"
    /\ SentBy(cl[c]) <= SentBy(next)
    /\ next.peer = cl[c].peer \/ cl[c].peer = NoPort
    /\ \A q \in pkts : IsRequest(q) => port = RequestPort /\ q.op = "WRQ"
    /\ \A q \in pkts : q.op = "DATA" =>
          /\ port = next.peer /\ port # RequestPort
          /\ \E k \in 1 .. SentBy(next) : Wire(q).id = WireId(k) /\ q.chunk = InputChunk(c, k)
    /\ \A p \in Ports : xfer[p].peer = c => Holds(next, p, Len(xfer[p].got))

LEMMA ClientStepWrite ==
  ASSUME TypeInv, ReadInv, WriteInv,
         NEW c \in Clients, NEW next \in ClientStates, NEW port, NEW pkts \in SUBSET Packets,
         cl' = [cl EXCEPT ![c] = next], UNCHANGED <<xfer, srv>>,
         \A e \in net' : e \in net \/ e \in Up(c, port, pkts),
         c \in Writers => WriterStep(c, next, port, pkts)
  PROVE  WriteInv'
  <1>1. cl'[c] = next /\ \A e \in Clients \ {c} : cl'[e] = cl[e]
    BY DEF TypeInv, TypeOK
  <1>2. \A e \in InFlight' : e \in InFlight \/ e \in Up(c, port, pkts)
    BY DEF InFlight
  <1>3. \A e \in Up(c, port, pkts) : /\ e.dir = "up" /\ e.c = c /\ e.port = port
                                    /\ \E q \in pkts : e.pkt = Wire(q) /\ q \in Packets
    BY SentFields
  <1>4. WriterLocals'
    BY <1>1 DEF WriteInv, WriterLocals, Writers, WriterStep, WriterLocal
  <1>5. \A e \in Clients : Sent(e)' = SentBy(cl'[e]) /\ Sent(e) = SentBy(cl[e])
    BY DEF Sent, SentBy
  <1>6. FromWriters'
    <2> SUFFICES ASSUME NEW e \in InFlight', e.dir = "up", e.c \in Writers
                 PROVE  /\ IsRequest(e.pkt) => /\ e.port = RequestPort /\ e.pkt.op = "WRQ"
                                               /\ cl'[e.c].pc # "idle"
                        /\ e.pkt.op = "DATA" =>
                              /\ e.port = cl'[e.c].peer /\ e.port # RequestPort
                              /\ \E k \in 1 .. SentBy(cl'[e.c]) : /\ e.pkt.id = WireId(k)
                                                                 /\ e.pkt.chunk = InputChunk(e.c, k)
      BY <1>5 DEF FromWriters, Writers
    <2>1. CASE e \in Up(c, port, pkts)
      <3>1. PICK q \in pkts : e.pkt = Wire(q) /\ q \in Packets
        BY <1>3, <2>1
      <3>2. e.c = c /\ e.port = port /\ c \in Writers
        BY <1>3, <2>1
      <3>3. e.pkt.op = q.op /\ (IsRequest(e.pkt) <=> IsRequest(q))
        BY <3>1, WireOp
      <3>4. q.op = "DATA" => e.pkt.chunk = q.chunk
        BY <3>1 DEF Wire, Packets, DataPackets, AckPackets, RequestPackets, ErrorPackets, Garbled
      <3> QED
        BY <1>1, <3>1, <3>2, <3>3, <3>4 DEF WriterStep
    <2>2. CASE e \in InFlight /\ e.c # c
      BY <1>1, <1>5, <2>2 DEF WriteInv, FromWriters, Writers
    <2>3. CASE e \in InFlight /\ e.c = c
      <3>1. WriterStep(c, next, port, pkts)
        BY <2>3
      <3>2. /\ IsRequest(e.pkt) => e.port = RequestPort /\ e.pkt.op = "WRQ"
            /\ e.pkt.op = "DATA" => /\ e.port = cl[c].peer /\ e.port # RequestPort
                                    /\ \E k \in 1 .. SentBy(cl[c]) : /\ e.pkt.id = WireId(k)
                                                                    /\ e.pkt.chunk = InputChunk(c, k)
        BY <1>5, <2>3 DEF WriteInv, FromWriters
      <3>3. e.port # NoPort
        BY <2>3 DEF InFlight, TypeInv, TypeOK, ServerStates, Datagrams, ServerPorts, RequestPort, NoPort
      <3>4. e.pkt.op = "DATA" => e.port = next.peer
        BY <3>1, <3>2, <3>3 DEF WriterStep
      <3>5. SentBy(cl[c]) \in Int /\ SentBy(next) \in Int /\ SentBy(cl[c]) <= SentBy(next)
        <4>1. cl[c].block \in Nat /\ next.block \in Nat
          BY DEF TypeInv, TypeOK, ClientStates
        <4> QED
          BY <3>1, <4>1 DEF SentBy, WriterStep
      <3>6. \A k \in 1 .. SentBy(cl[c]) : k \in 1 .. SentBy(next)
        BY <3>5
      <3> QED
        BY <1>1, <2>3, <3>1, <3>2, <3>4, <3>6 DEF WriterStep
    <2> QED
      BY <1>2, <2>1, <2>2, <2>3
  <1>7. WriteTransfers'
    <2> SUFFICES ASSUME NEW p \in Ports, xfer[p].peer \in Writers
                 PROVE  LET e == xfer[p].peer
                            n == Len(xfer[p].got)
                        IN  /\ xfer[p].kind = "write" /\ cl'[e].pc # "idle"
                            /\ xfer[p].id = n + 1 /\ n <= 15
                            /\ \A k \in 1 .. n : xfer[p].got[k] = InputChunk(e, k)
                            /\ Live(p) => \A k \in 1 .. n : xfer[p].got[k].len = BlockSize
                            /\ Holds(cl'[e], p, n)
      BY <1>5 DEF WriteTransfers, Ports, Live, Writers, Holds
    <2>1. xfer[p].peer \in Clients
      BY DEF Writers
    <2>2. CASE xfer[p].peer # c
      BY <1>1, <1>5, <2>1, <2>2 DEF WriteInv, WriteTransfers, Holds
    <2>3. CASE xfer[p].peer = c
      BY <1>1, <2>3 DEF WriteInv, WriteTransfers, WriterStep
    <2> QED
      BY <2>2, <2>3
  <1>8. AcksInFlight'
    BY <1>3 DEF WriteInv, AcksInFlight, Ports, Writers
  <1> QED
    BY <1>4, <1>6, <1>7, <1>8 DEF WriteInv
\* A Write that fails: it keeps its count, and may have bound itself to the port
\* that answered its request.
LEMMA GivesUp ==
  ASSUME TypeInv, ReadInv, WriteInv, NEW c \in Writers, NEW next \in ClientStates,
         cl[c].pc \in {"wrq", "writing"}, next.pc = "failed", next.block = cl[c].block,
         \/ next.peer = cl[c].peer
         \/ /\ cl[c].pc = "wrq"
            /\ next.peer # NoPort
  PROVE  /\ \A port, pkts : (\A q \in pkts : q.op = "ERROR") => WriterStep(c, next, port, pkts)
         /\ \A p \in Ports : xfer[p].peer = c /\ cl[c].pc = "wrq" => xfer[p].got = <<>>
  <1> DEFINE r == cl[c]
  <1>1. c \in Clients /\ r.block \in Nat /\ WriterLocal(c, r) /\ next.block \in Nat
    BY WriterTypes DEF ClientStates
  <1>2. WriterLocal(c, next) /\ SentBy(r) <= SentBy(next) /\ (next.peer = r.peer \/ r.peer = NoPort)
    BY <1>1 DEF WriterLocal, SentBy
  <1>3. ASSUME NEW p \in Ports, xfer[p].peer = c
        PROVE  /\ Holds(next, p, Len(xfer[p].got))
               /\ r.pc = "wrq" => Len(xfer[p].got) = 0
    <2> DEFINE n == Len(xfer[p].got)
    <2>1. n \in Nat /\ p # NoPort
      BY WriterTypes
    <2>2. IF r.peer = p THEN r.block - 1 <= n /\ n <= Sent(c) ELSE n = 0
      BY <1>3 DEF WriteInv, WriteTransfers
    <2>3. Sent(c) = r.block
      BY DEF Sent
    <2> HIDE DEF n
    <2>4. CASE r.pc = "wrq"
      <3>1. r.block = 0 /\ r.peer = NoPort
        BY <1>1, <2>4 DEF WriterLocal
      <3>2. n = 0
        BY <2>1, <2>2, <3>1
      <3> QED
        BY <3>1, <3>2 DEF Holds, SentBy, n
    <2>5. CASE r.pc # "wrq"
      BY <2>2, <2>3, <2>5 DEF Holds, SentBy, n
    <2> QED
      BY <2>4, <2>5
  <1>4. \A pkts : (\A q \in pkts : q.op = "ERROR") => \A q \in pkts : ~IsRequest(q) /\ q.op # "DATA"
    BY DEF IsRequest
  <1>5. \A p \in Ports : xfer[p].peer = c /\ cl[c].pc = "wrq" => xfer[p].got = <<>>
    BY <1>3, WriterTypes
  <1> QED
    BY <1>2, <1>3, <1>4, <1>5 DEF WriterStep

LEMMA ClientNextWrite ==
  ASSUME TypeInv, ReadInv, WriteInv, NEW c \in Clients, ClientNext(c)
  PROVE  WriteInv'
  <1> DEFINE me == cl[c]
  <1>1. me \in ClientStates /\ cl \in [Clients -> ClientStates] /\ me.block \in Nat
    BY DEF TypeInv, TypeOK, ClientStates
  <1>2. c \in Writers => /\ WriterLocal(c, me) /\ Op[c] = "write" /\ Input[c].full \in Nat
                         /\ me.pc \in {"idle", "wrq", "writing", "done", "failed"}
    BY WriterTypes DEF WriterLocal, Writers
  <1>3. Illegal \in Packets /\ Illegal.op = "ERROR" /\ \A q \in {} : q.op = "ERROR"
    BY PacketTypes DEF Illegal, Error, ErrorCodes
  <1>4. ASSUME NEW d \in net, NEW next \in ClientStates, NEW port, NEW pkts \in SUBSET Packets,
               ClientStep(c, d, next, port, pkts), c \in Writers => WriterStep(c, next, port, pkts)
        PROVE  WriteInv'
    <2>1. /\ cl' = [cl EXCEPT ![c] = next] /\ UNCHANGED <<xfer, srv>>
          /\ \A e \in net' : e \in net \/ e \in Up(c, port, pkts)
      BY <1>4 DEF ClientStep
    <2> QED
      BY <1>4, <2>1, ClientStepWrite
  <1>5. CASE Start(c)
    <2> DEFINE pkt  == Request(IF Op[c] = "read" THEN "RRQ" ELSE "WRQ", Target[c], Mode[c])
               next == [me EXCEPT !.pc = IF Op[c] = "read" THEN "reading" ELSE "wrq",
                                  !.block = IF Op[c] = "read" THEN 1 ELSE 0]
    <2>1. /\ next \in ClientStates
          /\ c \in Writers => next.pc = "wrq" /\ next.block = 0 /\ next.peer = me.peer
      BY <1>1, <1>2 DEF ClientStates
    <2>2. me.pc = "idle" /\ cl' = [cl EXCEPT ![c] = next] /\ UNCHANGED <<xfer, srv>>
          /\ net' = net \cup Up(c, RequestPort, {pkt})
      BY <1>1, <1>5 DEF Start
    <2>3. pkt \in Packets /\ (c \in Writers => pkt.op = "WRQ")
      BY <1>2, WorkAssumption, PacketTypes DEF Request
    <2> HIDE DEF next, pkt
    <2>4. ASSUME c \in Writers PROVE WriterStep(c, next, RequestPort, {pkt})
      <3>1. me.block = 0 /\ me.peer = NoPort
        BY <1>2, <2>2, <2>4 DEF WriterLocal
      <3>2. WriterLocal(c, next) /\ SentBy(me) <= SentBy(next)
        BY <2>1, <2>2, <2>4, <3>1 DEF WriterLocal, SentBy
      <3>3. \A p \in Ports : xfer[p].peer # c
        BY <2>2, <2>4 DEF WriteInv, WriteTransfers
      <3> QED
        BY <2>1, <2>3, <2>4, <3>2, <3>3 DEF WriterStep
    <2> QED
      BY <2>1, <2>2, <2>3, <2>4, ClientStepWrite
  <1>6. CASE ClientTimeout(c)
    <2> DEFINE next == [me EXCEPT !.pc = "failed"]
    <2>1. /\ next \in ClientStates /\ next.pc = "failed" /\ next.block = me.block /\ next.peer = me.peer
      BY <1>1 DEF ClientStates
    <2>2. /\ Active(c) /\ cl' = [cl EXCEPT ![c] = next] /\ UNCHANGED <<xfer, srv>> /\ net' = net
      BY <1>1, <1>6 DEF ClientTimeout
    <2> HIDE DEF next
    <2>3. ASSUME c \in Writers PROVE WriterStep(c, next, RequestPort, {})
      <3>1. me.pc \in {"wrq", "writing"}
        BY <1>2, <2>2, <2>3 DEF Active
      <3> QED
        BY <1>3, <2>1, <2>3, <3>1, GivesUp
    <2>4. {} \in SUBSET Packets /\ \A e \in net' : e \in net \/ e \in Up(c, RequestPort, {})
      BY <2>2
    <2> QED
      BY <2>1, <2>2, <2>3, <2>4, ClientStepWrite
  <1>7. ASSUME NEW d \in net, ClientGarbled(c, d)
        PROVE  WriteInv'
    <2> DEFINE port == IF me.pc = "writing" THEN me.peer ELSE d.port
               next == Failed(c)
    <2>1. ClientStep(c, d, next, port, {Illegal}) /\ Active(c)
      BY <1>7 DEF ClientGarbled
    <2>2. /\ next \in ClientStates /\ next.pc = "failed" /\ next.block = me.block /\ next.peer = me.peer
      BY <1>1 DEF Failed, ClientStates
    <2> HIDE DEF next, port
    <2>3. ASSUME c \in Writers PROVE WriterStep(c, next, port, {Illegal})
      <3>1. me.pc \in {"wrq", "writing"}
        BY <1>2, <2>1, <2>3 DEF Active
      <3> QED
        BY <1>3, <2>2, <2>3, <3>1, GivesUp
    <2> QED
      BY <1>3, <1>4, <2>1, <2>2, <2>3
  <1>8. ASSUME NEW d \in net, ReadStranger(c, d) \/ ReadRefused(c, d) \/ ReadDuplicate(c, d) \/ ReadBlock(c, d)
        PROVE  WriteInv'
    <2>1. c \notin Writers /\ me.pc = "reading"
      BY <1>2, <1>8 DEF ReadStranger, ReadRefused, ReadDuplicate, ReadBlock
    <2>2. PICK next, port, pkts : ClientStep(c, d, next, port, pkts)
      BY <1>8 DEF ReadStranger, ReadRefused, ReadDuplicate, ReadBlock
    <2>3. /\ xfer' = xfer /\ \A e \in Clients \ {c} : cl'[e] = cl[e]
          /\ srv' = srv /\ net' = (net \ {d}) \cup Up(c, port, pkts)
      BY <1>1, <2>2 DEF ClientStep
    <2>4. \A e \in Up(c, port, pkts) : e.dir = "up" /\ e.c \notin Writers
      BY <2>1 DEF Up, Datagram
    <2>5. \A e \in Writers : cl'[e] = cl[e] /\ (Sent(e)' = Sent(e))
      BY <2>1, <2>3 DEF Writers, Sent
    <2> QED
      BY <2>3, <2>4, <2>5
         DEF WriteInv, WriterLocals, FromWriters, WriteTransfers, AcksInFlight, InFlight, Ports, Live,
             Writers, WriterLocal
  <1>9. ASSUME NEW d \in net, WriteRefused(c, d)
        PROVE  WriteInv'
    <2> DEFINE port == IF me.pc = "wrq" THEN d.port ELSE me.peer
               next == [Failed(c) EXCEPT !.peer = port]
               pkts == IF d.pkt.op = "ERROR" THEN {} ELSE {Illegal}
    <2>1. ClientStep(c, d, next, port, pkts) /\ me.pc \in {"wrq", "writing"}
      BY <1>9 DEF WriteRefused
    <2>2. port \in ServerPorts /\ port # NoPort /\ (port = me.peer \/ me.pc = "wrq")
      BY <2>1, ReceivedType DEF TypeInv, WritersBound
    <2>3. next \in ClientStates /\ next.pc = "failed" /\ next.peer = port /\ next.block = me.block
      BY <2>2, ReceivedType DEF ClientStates, Failed
    <2>4. /\ pkts \in SUBSET Packets /\ \A q \in pkts : q.op = "ERROR"
      BY <1>3
    <2> HIDE DEF next, port, pkts
    <2>5. ASSUME c \in Writers PROVE WriterStep(c, next, port, pkts)
      BY <2>1, <2>2, <2>3, <2>4, <2>5, GivesUp
    <2> QED
      BY <1>4, <2>1, <2>3, <2>4, <2>5
  <1>10. ASSUME NEW d \in net, WriteAccepted(c, d)
         PROVE  WriteInv'
    <2> DEFINE next == [me EXCEPT !.pc = "writing", !.peer = d.port, !.block = 1]
               fail == [Failed(c) EXCEPT !.peer = d.port]
               data == Data(1, InputChunk(c, 1))
    <2>1. /\ Received(c, d) /\ me.pc = "wrq" /\ d.pkt.op = "ACK"
          /\ ClientStep(c, d, next, d.port, {data}) \/ ClientStep(c, d, fail, d.port, {Illegal})
      BY <1>10 DEF WriteAccepted
    <2>2. /\ next \in ClientStates /\ next.peer = d.port /\ next.pc = "writing" /\ next.block = 1
          /\ fail \in ClientStates /\ fail.peer = d.port /\ fail.pc = "failed" /\ fail.block = me.block
          /\ d.port # NoPort
      BY <1>1, ReceivedType DEF ClientStates, Failed
    <2>3. /\ data \in Packets /\ ~IsRequest(data) /\ Wire(data).id = WireId(1)
          /\ data.chunk = InputChunk(c, 1)
      BY InputChunkType, PacketTypes, IdRangeType DEF Ids, Data, IsRequest, Wire
    <2> HIDE DEF next, fail, data
    <2>4. ASSUME c \in Writers PROVE WriterStep(c, fail, d.port, {Illegal})
      BY <1>3, <2>1, <2>2, <2>4, GivesUp
    <2>5. ASSUME c \in Writers PROVE WriterStep(c, next, d.port, {data})
      <3>1. me.block = 0 /\ me.peer = NoPort
        BY <1>2, <2>1, <2>5 DEF WriterLocal
      <3>2. d.port \in Ports /\ d.port \notin {NoPort, RequestPort}
        BY <2>1, <2>5, WriterTypes DEF Received, WriteInv, AcksInFlight
      <3>3. WriterLocal(c, next)
        BY <1>2, <2>2, <2>5, <3>2 DEF WriterLocal, Blocks
      <3>4. SentBy(me) = 0 /\ SentBy(next) = 1
        BY <2>1, <2>2, <3>1 DEF SentBy
      <3>5. \E k \in 1 .. SentBy(next) : Wire(data).id = WireId(k) /\ data.chunk = InputChunk(c, k)
        BY <2>3, <3>4
      <3>6. \A p \in Ports : xfer[p].peer = c => Holds(next, p, Len(xfer[p].got))
        <4>1. \A p \in Ports : xfer[p].peer = c => Len(xfer[p].got) = 0
          <5>1. \A p \in Ports : xfer[p].peer = c => xfer[p].got = <<>>
            BY <2>1, <2>2, <2>5, GivesUp
          <5> QED
            BY <5>1
        <4> QED
          BY <2>2, <3>4, <4>1 DEF Holds
      <3> QED
        BY <2>2, <2>3, <3>1, <3>2, <3>3, <3>4, <3>5, <3>6 DEF WriterStep
    <2> QED
      BY <1>3, <1>4, <2>1, <2>2, <2>3, <2>4, <2>5
  <1>11. ASSUME NEW d \in net, WriteDuplicate(c, d)
         PROVE  WriteInv'
    <2>1. me.pc = "writing" /\ ClientStep(c, d, me, d.port, {})
      BY <1>11 DEF WriteDuplicate
    <2>2. ASSUME c \in Writers PROVE WriterStep(c, me, d.port, {})
      <3>1. SentBy(me) = Sent(c) /\ SentBy(me) <= SentBy(me)
        BY <1>1 DEF SentBy, Sent
      <3>2. \A p \in Ports : xfer[p].peer = c => Holds(me, p, Len(xfer[p].got))
        BY <2>2, <3>1 DEF WriteInv, WriteTransfers, Holds
      <3> QED
        BY <1>2, <2>1, <2>2, <3>1, <3>2 DEF WriterStep
    <2> QED
      BY <1>1, <1>4, <2>1, <2>2
  <1>12. ASSUME NEW d \in net, WriteNext(c, d)
         PROVE  WriteInv'
    <2> DEFINE id   == NextId(me.block)
               end  == OctetEof(Input[c], me.block)
               next == [me EXCEPT !.block = id, !.pc = IF end THEN "done" ELSE @]
               data == Data(id, InputChunk(c, id))
               pkts == IF end THEN {} ELSE {data}
    <2>1. me.pc = "writing" /\ ClientStep(c, d, next, me.peer, pkts)
      BY <1>12 DEF WriteNext
    <2>2. id \in Ids /\ id \in Nat
      BY <1>1, Remainder16
    <2>3. /\ next \in ClientStates /\ next.peer = me.peer /\ next.block = id
          /\ next.pc = IF end THEN "done" ELSE "writing"
      BY <1>1, <2>1, <2>2 DEF ClientStates
    <2>4. /\ data \in Packets /\ data.op = "DATA" /\ ~IsRequest(data)
          /\ Wire(data).id = WireId(id) /\ data.chunk = InputChunk(c, id)
      BY <2>2, InputChunkType, PacketTypes DEF Data, IsRequest, Wire
    <2>5. pkts \in SUBSET Packets
      BY <2>4
    <2>6. ASSUME c \in Writers PROVE WriterStep(c, next, me.peer, pkts)
      <3> DEFINE b == me.block
                 p == me.peer
      <3>1. /\ p \in Ports /\ xfer[p].peer = c /\ Len(xfer[p].got) = b
            /\ b \in 1 .. 15 /\ id = b + 1
            /\ end => Input[c].ok /\ b = Blocks(Input[c])
            /\ ~end /\ Input[c].ok => b + 1 <= Blocks(Input[c])
        BY <1>12, <2>6, ExpectedAck
      <3>2. p \notin {NoPort, RequestPort}
        BY <3>1, WriterTypes
      <3> HIDE DEF end, id, next, data
      <3>3. b \in Nat /\ b >= 1 /\ b <= 15
        BY <1>1, <3>1
      <3>4. /\ next.block = b + 1 /\ next.peer = p /\ next.pc = IF end THEN "done" ELSE "writing"
        BY <2>3, <3>1
      <3>5. WriterLocal(c, next)
        BY <1>2, <2>6, <3>1, <3>2, <3>3, <3>4 DEF WriterLocal
      <3>6. SentBy(me) = b /\ SentBy(next) = IF end THEN b ELSE b + 1
        BY <2>1, <3>3, <3>4 DEF SentBy
      <3>7. \A q \in pkts : /\ q.op = "DATA" /\ ~IsRequest(q)
                            /\ \E k \in 1 .. SentBy(next) : Wire(q).id = WireId(k) /\ q.chunk = InputChunk(c, k)
        <4>1. ~end => id \in 1 .. SentBy(next)
          BY <3>1, <3>3, <3>6
        <4> QED
          BY <2>4, <4>1
      <3>8. ASSUME NEW q \in Ports, xfer[q].peer = c
            PROVE  Holds(next, q, Len(xfer[q].got))
        <4>1. CASE q = p
          BY <3>1, <3>3, <3>4, <3>6, <4>1 DEF Holds
        <4>2. CASE q # p
          BY <2>6, <3>4, <3>8, <4>2 DEF Holds, WriteInv, WriteTransfers
        <4> QED
          BY <4>1, <4>2
      <3>9. SentBy(me) <= SentBy(next) /\ next.pc # "idle"
        BY <3>3, <3>4, <3>6
      <3> HIDE DEF pkts
      <3> QED
        BY <3>2, <3>4, <3>5, <3>7, <3>8, <3>9 DEF WriterStep
    <2> HIDE DEF next, pkts
    <2> QED
      BY <1>4, <2>1, <2>3, <2>5, <2>6
  <1> QED
    BY <1>5, <1>6, <1>7, <1>8, <1>9, <1>10, <1>11, <1>12 DEF ClientNext
\* Where transfer x of a writer, on port p, stands.
Takes(p, x) ==
    LET c == x.peer
        n == Len(x.got)
    IN  /\ x.kind = "write" /\ cl[c].pc # "idle"
        /\ x.id = n + 1 /\ n <= 15
        /\ \A k \in 1 .. n : x.got[k] = InputChunk(c, k)
        /\ x.st = "live" => \A k \in 1 .. n : x.got[k].len = BlockSize
        /\ Holds(cl[c], p, n)

LEMMA TakesSame ==
  ASSUME NEW p \in Ports, xfer[p].peer \in Writers
  PROVE  WriteTransfers => Takes(p, xfer[p])
  BY DEF WriteTransfers, Takes, Holds, Sent, SentBy, Live

\* A step of the network, of time, or one of the server's that handles no packet.
LEMMA StillWrite ==
  ASSUME TypeInv, WriteInv, UNCHANGED cl, Ports' = Ports,
         \A p \in Ports : /\ xfer'[p].kind = xfer[p].kind /\ xfer'[p].peer = xfer[p].peer
                          /\ xfer'[p].id = xfer[p].id /\ xfer'[p].got = xfer[p].got
                          /\ xfer'[p].st = "live" => xfer[p].st = "live",
         \A e \in net' : Rejection(e) \/ \E d \in net : SameWay(e, d),
         \A e \in srv'.ready : \E d \in InFlight : SameWay(e, d)
  PROVE  WriteInv'
  <1>1. \A e \in InFlight' : Rejection(e) \/ \E d \in InFlight : SameWay(e, d)
    BY DEF InFlight
  <1>2. Garbled.op = "GARBLED" /\ ~IsRequest(Garbled)
    BY DEF Garbled, IsRequest
  <1>3. \A c \in Clients : Sent(c)' = Sent(c)
    BY DEF Sent
  <1>4. WriterLocals'
    BY DEF WriteInv, WriterLocals, Writers, WriterLocal
  <1>5. FromWriters'
    BY <1>1, <1>2, <1>3 DEF WriteInv, FromWriters, SameWay, Rejection, Writers
  <1>6. WriteTransfers'
    BY <1>3 DEF WriteInv, WriteTransfers, Writers, Live
  <1>7. AcksInFlight'
    BY <1>2 DEF WriteInv, AcksInFlight, SameWay, Rejection, Writers
  <1> QED
    BY <1>4, <1>5, <1>6, <1>7 DEF WriteInv

\* A transfer on port p, x before, handles a packet: y after, and it sends pkts.
LEMMA HandlingWrite ==
  ASSUME TypeInv, ReadInv, WriteInv, NEW p \in Nat \ {0}, NEW x \in Transfers, NEW y \in Transfers,
         NEW pkts \in SUBSET Packets, UNCHANGED cl, net' = net \cup Down(x.peer, p, pkts),
         Ports' = Ports \cup {p}, xfer'[p] = y, y.peer = x.peer,
         \A q \in Ports \ {p} : xfer'[q] = xfer[q], p \in Ports => x = xfer[p],
         srv'.ready \subseteq srv.ready,
         x.peer \in Writers => /\ Takes(p, y) /\ Len(x.got) <= Len(y.got)
                               /\ \A q \in pkts : q.op = "ACK" => Wire(q).id <= Len(y.got)
  PROVE  WriteInv'
  <1>1. \A e \in Down(x.peer, p, pkts) : /\ e.dir = "down" /\ e.c = x.peer /\ e.port = p
                                        /\ \E q \in pkts : e.pkt = Wire(q) /\ e.pkt.op = q.op
    <2>1. x.peer \in Clients
      BY DEF Transfers
    <2> QED
      BY <2>1, SentFields, WireOp
  <1>2. \A e \in InFlight' : e \in InFlight \/ e.dir = "down"
    BY <1>1 DEF InFlight
  <1>3. WriterLocals'
    BY DEF WriteInv, WriterLocals, Writers, WriterLocal
  <1>4. FromWriters'
    <2>1. \A c \in Clients : Sent(c)' = Sent(c)
      BY DEF Sent
    <2> QED
      BY <1>2, <2>1 DEF WriteInv, FromWriters, Writers
  <1>5. WriteTransfers'
    <2>1. ASSUME NEW q \in Ports', xfer'[q].peer \in Writers
          PROVE  Takes(q, xfer'[q])
      <3>1. CASE q = p
        BY <2>1, <3>1
      <3>2. CASE q # p
        BY <2>1, <3>2, TakesSame DEF WriteInv
      <3> QED
        BY <3>1, <3>2
    <2> QED
      BY <2>1 DEF WriteTransfers, Takes, Holds, Sent, SentBy, Live, Writers
  <1>6. AcksInFlight'
    <2> SUFFICES ASSUME NEW e \in net', e.dir = "down", e.c \in Writers, e.pkt.op = "ACK"
                 PROVE  e.port \in Ports' /\ e.pkt.id <= Len(xfer'[e.port].got)
      BY DEF AcksInFlight, Writers
    <2>1. CASE e \in net
      <3>1. e.port \in Ports /\ e.pkt.id <= Len(xfer[e.port].got)
        BY <2>1 DEF WriteInv, AcksInFlight
      <3>2. CASE e.port # p
        BY <3>1, <3>2
      <3>3. CASE e.port = p
        <4>1. x = xfer[p] /\ p \notin {NoPort, RequestPort} /\ Len(x.got) \in Nat
          BY <3>1, <3>3, WriterTypes
        <4>2. x.peer \in Writers
          BY <2>1, <3>3, <4>1 DEF ReadInv, OwnPorts, InFlight
        <4>3. Len(y.got) \in Nat
          <5>1. y.got \in Seq(Chunks)
            BY DEF Transfers
          <5> QED
            BY <5>1
        <4>4. e.pkt.id \in Nat
          <5>1. e.pkt \in Packets
            BY <2>1 DEF TypeInv, TypeOK, Datagrams
          <5> QED
            BY <5>1, PacketFields, IdRangeType DEF Ids
        <4> QED
          BY <3>1, <3>3, <4>1, <4>2, <4>3, <4>4
      <3> QED
        BY <3>2, <3>3
    <2>2. CASE e \in Down(x.peer, p, pkts)
      <3>1. PICK q \in pkts : e.pkt = Wire(q) /\ e.pkt.op = q.op
        BY <1>1, <2>2
      <3> QED
        BY <1>1, <2>2, <3>1
    <2> QED
      BY <2>1, <2>2
  <1> QED
    BY <1>3, <1>4, <1>5, <1>6 DEF WriteInv

\* What a writer's open transfer does with a datagram for its port: nothing, it ends,
\* or it appends the next block.
LEMMA ServeWriter ==
  ASSUME TypeInv, ReadInv, WriteInv, NEW p \in Ports, xfer[p].peer \in Writers, Live(p),
         NEW d \in InFlight, d.dir = "up", d.port = p, d.pkt \in Packets
  PROVE  LET x == xfer[p]
             y == HandlePacket(x, d.pkt).x
             s == HandlePacket(x, d.pkt).send
             k == Len(x.got) + 1
         IN  /\ Takes(p, y)
             /\ \A q \in s : q.op = "ACK" => Wire(q).id <= Len(y.got)
             /\ \/ y.got = x.got
                \/ /\ y.got = Append(x.got, InputChunk(x.peer, k))
                   /\ cl[x.peer].peer = p /\ cl[x.peer].block = k
  <1> DEFINE x == xfer[p]
             c == x.peer
             n == Len(x.got)
             h == HandlePacket(x, d.pkt)
             y == h.x
  <1>1. /\ x \in Transfers /\ x.got \in Seq(Chunks) /\ n \in Nat /\ p \notin {NoPort, RequestPort}
        /\ x.st = "live" /\ c \in Clients /\ Takes(p, x)
    BY WriterTypes, TakesSame DEF Live, WriteInv
  <1>2. d.c = c
    BY <1>1 DEF ReadInv, OwnPorts
  <1>3. ~IsRequest(d.pkt)
    BY <1>1, <1>2 DEF WriteInv, FromWriters
  <1>4. y.kind = x.kind /\ y.peer = c
    BY <1>1, HandlePacketFrame
  <1>5. \/ y.got = x.got /\ y.id = x.id /\ y.st \in {x.st, "failed"} /\ \A q \in h.send : q.op = "ERROR"
        \/ /\ d.pkt.op = "DATA" /\ d.pkt.id = x.id
           /\ y.got = Append(x.got, d.pkt.chunk) /\ y.id = NextId(x.id) /\ h.send = {Ack(x.id)}
           /\ y.st = IF NextId(x.id) = 1 \/ d.pkt.chunk.len = BlockSize THEN x.st ELSE "over"
    <2>1. x.kind = "write"
      BY <1>1 DEF Takes
    <2> QED
      BY <1>1, <1>3, <2>1, HandlePacketWrite
  <1> HIDE DEF h
  <1>6. CASE y.got = x.got /\ y.id = x.id /\ y.st \in {x.st, "failed"} /\ \A q \in h.send : q.op = "ERROR"
    <2>1. Takes(p, y)
      BY <1>1, <1>4, <1>6 DEF Takes
    <2> QED
      BY <1>6, <2>1 DEF h
  <1>7. CASE /\ d.pkt.op = "DATA" /\ d.pkt.id = x.id
             /\ y.got = Append(x.got, d.pkt.chunk) /\ y.id = NextId(x.id) /\ h.send = {Ack(x.id)}
             /\ y.st = IF NextId(x.id) = 1 \/ d.pkt.chunk.len = BlockSize THEN x.st ELSE "over"
    <2> DEFINE k == n + 1
               chunk == InputChunk(c, k)
    <2>1. /\ d.pkt.chunk = chunk /\ k <= 15 /\ WireId(k) = k
          /\ cl[c].peer = p /\ cl[c].block = k /\ Sent(c) = k
      BY <1>7, ExpectedData
    <2>2. x.id = k /\ k \in Nat
      BY <1>1 DEF Takes
    <2>3. NextId(k) = k + 1 /\ NextId(k) # 1
      BY <2>1, <2>2, NextIdSmall, <1>1
    <2>4. chunk \in Chunks
      BY <1>1, <2>2, InputChunkType
    <2> HIDE DEF chunk
    <2>5. Len(y.got) = k /\ y.got[k] = chunk /\ \A j \in 1 .. n : y.got[j] = x.got[j]
      BY <1>1, <1>7, <2>1, <2>4
    <2>6. \A j \in 1 .. k : j \in 1 .. n \/ j = k
      BY <1>1
    <2>7. Takes(p, y)
      <3>1. y.id = Len(y.got) + 1 /\ Len(y.got) <= 15
        BY <1>7, <2>1, <2>2, <2>3, <2>5
      <3>2. \A j \in 1 .. Len(y.got) : y.got[j] = InputChunk(c, j)
        <4>1. \A j \in 1 .. n : x.got[j] = InputChunk(c, j)
          BY <1>1 DEF Takes
        <4> QED
          BY <2>5, <2>6, <4>1 DEF chunk
      <3>3. y.st = "live" => \A j \in 1 .. Len(y.got) : y.got[j].len = BlockSize
        <4>1. \A j \in 1 .. n : x.got[j].len = BlockSize
          BY <1>1 DEF Takes
        <4>2. y.st = "live" => chunk.len = BlockSize
          BY <1>7, <2>1, <2>2, <2>3
        <4> QED
          BY <2>5, <2>6, <4>1, <4>2
      <3>4. Holds(cl[c], p, Len(y.got))
        BY <2>1, <2>2, <2>5 DEF Holds, Sent, SentBy
      <3>5. y.kind = "write" /\ cl[c].pc # "idle"
        BY <1>1, <1>4 DEF Takes
      <3> HIDE DEF y, c
      <3> QED
        BY <1>4, <3>1, <3>2, <3>3, <3>4, <3>5 DEF Takes
    <2>8. \A q \in h.send : q.op = "ACK" => Wire(q).id <= Len(y.got)
      <3>1. Wire(Ack(k)).id = k
        BY <2>1 DEF Wire, Ack
      <3> QED
        BY <1>7, <2>2, <2>5, <3>1
    <2> QED
      BY <1>7, <2>1, <2>7, <2>8 DEF h, chunk
  <1> QED
    BY <1>5, <1>6, <1>7
LEMMA WriteInvInit == Init => WriteInv
  <1> SUFFICES ASSUME Init PROVE WriteInv
    OBVIOUS
  <1>1. Ports = {} /\ InFlight = {} /\ net = {}
    BY DEF Init, Ports, InFlight
  <1>2. \A c \in Clients : cl[c].pc = "idle" /\ cl[c].peer = NoPort /\ cl[c].block = 0
    BY DEF Init
  <1>3. WriterLocals
    BY <1>2 DEF WriterLocals, WriterLocal, Writers
  <1> QED
    BY <1>1, <1>3 DEF WriteInv, FromWriters, WriteTransfers, AcksInFlight

LEMMA WriteInvNext == TypeInv /\ ReadInv /\ RoundInv /\ WriteInv /\ [Next]_vars => WriteInv'
  <1> SUFFICES ASSUME TypeInv, ReadInv, RoundInv, WriteInv, [Next]_vars
               PROVE  WriteInv'
    OBVIOUS
  <1>0. RoundLocals /\ Ports = 1 .. Len(xfer)
    BY PortTypes DEF RoundInv
  <1>1. ASSUME NEW c \in Clients, ClientNext(c)
        PROVE  WriteInv'
    BY <1>1, ClientNextWrite
  <1>2. ASSUME UNCHANGED <<cl, xfer>>,
               \A e \in net' : Rejection(e) \/ \E d \in net : SameWay(e, d),
               \A e \in srv'.ready : e \in InFlight
        PROVE  WriteInv'
    BY <1>2, StillWrite DEF Ports, SameWay
  <1>3. ASSUME NEW arrived \in SUBSET net, Poll(arrived)
        PROVE  WriteInv'
    BY <1>2, <1>3 DEF Poll, InFlight, SameWay
  <1>4. ASSUME NEW p \in Ports, NEW d \in srv.ready, ServeReady(p, d)
        PROVE  WriteInv'
    <2> DEFINE x == xfer[p]
               y == HandlePacket(x, d.pkt).x
               s == HandlePacket(x, d.pkt).send
    <2>1. /\ d.pkt \in Packets /\ x \in Transfers /\ y \in Transfers /\ Live(p)
          /\ xfer'[p] = y /\ Ports' = Ports \cup {p} /\ \A q \in Ports \ {p} : xfer'[q] = xfer[q]
          /\ srv'.ready \subseteq srv.ready
      BY <1>0, <1>4, ServeReadyFields DEF Live
    <2>2. /\ d.port = p /\ d.dir = "up" /\ d \in InFlight /\ UNCHANGED cl
          /\ net' = net \cup Down(x.peer, p, s)
      BY <1>0, <1>4 DEF ServeReady, RoundLocals, InFlight
    <2>3. s \in SUBSET Packets /\ y.peer = x.peer /\ p \in Nat \ {0}
      BY <1>0, <2>1, HandlePacketType, HandlePacketFrame
    <2>4. ASSUME x.peer \in Writers
          PROVE  /\ Takes(p, y) /\ Len(x.got) <= Len(y.got)
                 /\ \A q \in s : q.op = "ACK" => Wire(q).id <= Len(y.got)
      <3>1. /\ Takes(p, y) /\ \A q \in s : q.op = "ACK" => Wire(q).id <= Len(y.got)
            /\ \/ y.got = x.got
               \/ y.got = Append(x.got, InputChunk(x.peer, Len(x.got) + 1))
        BY <2>1, <2>2, <2>4, ServeWriter
      <3>2. x.got \in Seq(Chunks) /\ Len(x.got) \in Nat /\ y.got \in Seq(Chunks)
        BY <2>1, WriterTypes DEF Transfers
      <3>3. Len(x.got) <= Len(y.got)
        <4> HIDE DEF x, y
        <4>1. CASE y.got = x.got
          BY <3>2, <4>1
        <4>2. CASE y.got = Append(x.got, InputChunk(x.peer, Len(x.got) + 1))
          <5>1. x.peer \in Clients /\ Len(x.got) + 1 \in Nat
            BY <2>1, <3>2 DEF Transfers
          <5>2. InputChunk(x.peer, Len(x.got) + 1) \in Chunks
            BY <5>1, InputChunkType
          <5>3. Len(y.got) = Len(x.got) + 1
            BY <3>2, <4>2, <5>2
          <5> QED
            BY <3>2, <5>3
        <4> QED
          BY <3>1, <4>1, <4>2
      <3> QED
        BY <3>1, <3>3
    <2> HIDE DEF y, s
    <2> QED
      BY <2>1, <2>2, <2>3, <2>4, HandlingWrite
  <1>5. ASSUME NEW p \in Ports, ServeExpired(p)
        PROVE  WriteInv'
    <2>1. /\ Ports' = Ports /\ srv'.ready = srv.ready
          /\ \A q \in Ports : /\ xfer'[q].kind = xfer[q].kind /\ xfer'[q].peer = xfer[q].peer
                              /\ xfer'[q].id = xfer[q].id /\ xfer'[q].got = xfer[q].got
                              /\ xfer'[q].st = "live" => xfer[q].st = "live"
      BY <1>0, <1>5, ServeExpiredFields
    <2>2. net' = net /\ UNCHANGED cl
      BY <1>5 DEF ServeExpired
    <2> QED
      BY <2>1, <2>2, StillWrite DEF SameWay, InFlight
  <1>6. ASSUME NEW p \in Ports, Sweep(p)
        PROVE  WriteInv'
    <2>1. UNCHANGED <<cl, xfer, net>> /\ srv'.ready = srv.ready
      BY <1>6, SweepFields DEF Sweep
    <2> QED
      BY <1>2, <2>1 DEF SameWay, InFlight
  <1>7. CASE EndRound
    BY <1>2, <1>7, PollingFields DEF EndRound, SameWay
  <1>8. ASSUME NEW d \in srv.ready, RejectRequest(d)
        PROVE  WriteInv'
    <2> DEFINE pkts == IF d.pkt.op = "ERROR" THEN {} ELSE {Illegal}
    <2>1. net' = net \cup Down(d.c, RequestPort, pkts) /\ UNCHANGED <<cl, xfer>> /\ srv'.ready = {}
      BY <1>8, PollingFields DEF RejectRequest
    <2>2. \A e \in Down(d.c, RequestPort, pkts) : Rejection(e)
      <3>1. \A q \in pkts : q \in Packets /\ q.op = "ERROR"
        BY PacketTypes DEF Illegal, Error, ErrorCodes
      <3> QED
        BY <3>1, PortTypes, SentFields, WireOp DEF Rejection
    <2> QED
      BY <1>2, <2>1, <2>2 DEF SameWay
  <1>9. ASSUME NEW d \in srv.ready, AcceptClient(d)
        PROVE  WriteInv'
    <2> DEFINE p == Len(xfer) + 1
               x == NewTransfer(d)
               y == HandlePacket(x, d.pkt).x
               s == HandlePacket(x, d.pkt).send
    <2>1. /\ p \in Nat \ {0} /\ p \notin Ports /\ Ports' = Ports \cup {p}
          /\ d.pkt \in Packets /\ IsRequest(d.pkt) /\ x \in Transfers /\ y \in Transfers
          /\ x.kind = (IF d.pkt.op = "RRQ" THEN "read" ELSE "write")
          /\ x.peer = d.c /\ x.id = 0 /\ x.got = <<>> /\ x.st = "live"
          /\ xfer'[p] = y /\ \A q \in Ports : xfer'[q] = xfer[q]
          /\ srv'.ready = {} /\ UNCHANGED cl /\ net' = net \cup Down(x.peer, p, s)
      BY <1>9, AcceptFields
    <2> HIDE DEF x, p
    <2>2. s \in SUBSET Packets /\ y.peer = x.peer /\ y.kind = x.kind
      BY <2>1, HandlePacketType, HandlePacketFrame
    <2>3. ASSUME x.peer \in Writers
          PROVE  /\ Takes(p, y) /\ Len(x.got) <= Len(y.got)
                 /\ \A q \in s : q.op = "ACK" => Wire(q).id <= Len(y.got)
      <3>1. d.pkt.op = "WRQ" /\ cl[x.peer].pc # "idle"
        BY <1>0, <2>1, <2>3 DEF WriteInv, FromWriters, InFlight, RoundLocals
      <3>2. x.kind = "write"
        BY <2>1, <3>1
      <3>3. y.got = <<>> /\ y.id = 1 /\ s = {Ack(0)}
        <4>1. d.pkt.op # "DATA"
          BY <3>1
        <4> QED
          BY <2>1, <3>2, <4>1, HandlePacketWrite
      <3>4. cl[x.peer].peer # p
        <4>1. p \notin {NoPort, RequestPort}
          BY <2>1 DEF NoPort, RequestPort
        <4> QED
          BY <2>1, <2>3, <4>1 DEF ReadInv, OwnPorts, Writers
      <3>5. Wire(Ack(0)).id = 0
        BY WireIdNat DEF Wire, Ack
      <3>6. Len(<<>>) = 0
        OBVIOUS
      <3> HIDE DEF y, s
      <3>7. Takes(p, y)
        BY <2>2, <3>1, <3>2, <3>3, <3>4, <3>6 DEF Takes, Holds
      <3> QED
        BY <2>1, <3>3, <3>5, <3>6, <3>7
    <2> HIDE DEF y, s
    <2> QED
      BY <2>1, <2>2, <2>3, HandlingWrite
  <1>10. ASSUME NEW p \in Ports, GrowLate(p)
         PROVE  WriteInv'
    <2>1. /\ Ports' = Ports /\ srv' = srv
          /\ \A q \in Ports : /\ xfer'[q].kind = xfer[q].kind /\ xfer'[q].peer = xfer[q].peer
                              /\ xfer'[q].id = xfer[q].id /\ xfer'[q].got = xfer[q].got
                              /\ xfer'[q].st = "live" => xfer[q].st = "live"
      BY <1>10, GrowLateFields
    <2>2. net' = net /\ UNCHANGED cl
      BY <1>10 DEF GrowLate
    <2> QED
      BY <2>1, <2>2, StillWrite DEF SameWay, InFlight
  <1>11. CASE (\E d \in net : Discard(d)) \/ Faults \/ UNCHANGED vars
    <2>1. UNCHANGED <<cl, xfer, srv>> /\ \A e \in net' : \E d \in net : SameWay(e, d)
      BY <1>11, NetworkSteps
    <2> QED
      BY <1>2, <2>1 DEF InFlight
  <1> QED
    BY <1>1, <1>3, <1>4, <1>5, <1>6, <1>7, <1>8, <1>9, <1>10, <1>11 DEF Next, ServerNext

LEMMA Writes == Spec => [](TypeInv /\ ReadInv /\ RoundInv /\ ReadSync /\ WriteInv)
  BY Reads, WriteInvInit, WriteInvNext, PTL DEF Spec
---------------------------------------------------------------------------
(* What the invariants say of the properties.                              *)

\* Whose transfer it is shows in its kind: a client's request is its own.
LEMMA KindOfPeer ==
  ASSUME TypeInv, ReadInv, WriteInv, NEW p \in Ports
  PROVE  /\ xfer[p].kind = "read" => xfer[p].peer \in Readers
         /\ xfer[p].kind = "write" => xfer[p].peer \in Writers
  <1>1. xfer[p].peer \in Readers \cup Writers
    BY WriterTypes, TwoKinds DEF Transfers
  <1> QED
    BY <1>1 DEF ReadInv, ReadTransfers, WriteInv, WriteTransfers

\* WritePrefix, for any number of clients, data of any size and any number of faults:
\* Append is given the data's blocks in order, each once, none missing, and only in
\* the transfer the client is bound to, however many its repeated WRQ opened.
THEOREM WriteIsPrefix == Spec => []WritePrefix
  <1>1. TypeInv /\ ReadInv /\ WriteInv => WritePrefix
    <2> SUFFICES ASSUME TypeInv, ReadInv, WriteInv, NEW p \in Ports, xfer[p].kind = "write"
                 PROVE  /\ \A k \in 1 .. Len(xfer[p].got) : xfer[p].got[k] = InputChunk(xfer[p].peer, k)
                        /\ cl[xfer[p].peer].peer # p => xfer[p].got = <<>>
      BY DEF WritePrefix
    <2>1. /\ \A k \in 1 .. Len(xfer[p].got) : xfer[p].got[k] = InputChunk(xfer[p].peer, k)
          /\ cl[xfer[p].peer].peer # p => Len(xfer[p].got) = 0
      BY KindOfPeer DEF WriteInv, WriteTransfers
    <2> QED
      BY <2>1, WriterTypes
  <1> QED
    BY <1>1, Writes, PTL

\* AckedMeansReceived, for any number of clients and faults: although Write takes an
\* ACK from any port, what it counts as sent has arrived, and when it returns the
\* server has all of the data.
THEOREM AckedIsReceived == Spec => []AckedMeansReceived
  <1>1. TypeInv /\ ReadInv /\ WriteInv => AckedMeansReceived
    <2> SUFFICES ASSUME TypeInv, ReadInv, WriteInv, NEW c \in Writers,
                        cl[c].pc \in {"writing", "done"}
                 PROVE  /\ Len(xfer[cl[c].peer].got) >= cl[c].block - 1
                        /\ cl[c].pc = "done" => Len(xfer[cl[c].peer].got) = Blocks(Input[c])
      BY DEF AckedMeansReceived
    <2> DEFINE p == cl[c].peer
               n == Len(xfer[p].got)
    <2>1. /\ c \in Clients /\ cl[c].block \in Nat /\ p \notin {NoPort, RequestPort}
          /\ Input[c].full \in Nat
          /\ cl[c].pc = "done" => cl[c].block = Blocks(Input[c]) + 1
      BY WriterTypes DEF WriterLocal
    <2>2. p \in Ports /\ xfer[p].peer = c /\ n \in Nat
      BY <2>1, WriterTypes DEF ReadInv, OwnPorts
    <2>3. cl[c].block - 1 <= n /\ n <= Sent(c)
      BY <2>2 DEF WriteInv, WriteTransfers
    <2>4. cl[c].pc = "done" => Sent(c) = Blocks(Input[c])
      BY <2>1 DEF Sent, Blocks
    <2> HIDE DEF n
    <2>5. n >= cl[c].block - 1
      BY <2>1, <2>2, <2>3
    <2>6. cl[c].pc = "done" => n = Blocks(Input[c])
      BY <2>1, <2>2, <2>3, <2>4 DEF Blocks
    <2> QED
      BY <2>5, <2>6 DEF n
  <1> QED
    BY <1>1, Writes, PTL

\* StopAndWait, for any number of clients, files of any size and any number of faults:
\* a reading transfer is at the block its client expects, or one behind.
THEOREM OneBlockAhead == Spec => []StopAndWait
  <1>1. TypeInv /\ ReadInv /\ ReadSync /\ WriteInv => StopAndWait
    <2> SUFFICES ASSUME TypeInv, ReadInv, ReadSync, WriteInv, NEW p \in Ports, xfer[p].kind = "read"
                 PROVE  LET c == xfer[p].peer
                        IN  IF cl[c].peer = p THEN xfer[p].pos \in (cl[c].block - 1) .. cl[c].block
                                              ELSE xfer[p].pos <= 1
      BY DEF StopAndWait
    <2> DEFINE x == xfer[p]
               c == x.peer
    <2>1. c \in Readers /\ c \in Clients /\ x.pos \in Nat /\ cl[c].block \in Nat
      BY KindOfPeer, PortTypes DEF Transfers, TypeInv, TypeOK, ClientStates
    <2>2. x.pos <= IF cl[c].peer = p THEN cl[c].block ELSE 1
      BY <2>1 DEF ReadInv, ReadTransfers
    <2>3. (IF cl[c].peer = p THEN cl[c].block ELSE 1) - 1 <= x.pos
      BY <2>1 DEF ReadSync, ReadPlaces
    <2> HIDE DEF x, c
    <2>4. IF cl[c].peer = p THEN x.pos \in (cl[c].block - 1) .. cl[c].block ELSE x.pos <= 1
      BY <2>1, <2>2, <2>3
    <2> QED
      BY <2>4 DEF x, c
  <1> QED
    BY <1>1, Writes, PTL

\* LongNeverEnds, for any number of clients, streams of any size and any number of
\* faults: block 16 arrives under the number 0 (Packet.cpp:50), which nobody expects, so
\* that what is longer than fifteen blocks never gets through, where RFC 1350 promises
\* 65535 of them.  The run TftpLong shows the same of one file.
THEOREM SixteenIsTheEnd == Spec => []LongNeverEnds
  <1>1. TypeInv /\ ReadInv /\ WriteInv => LongNeverEnds
    <2> SUFFICES ASSUME TypeInv, ReadInv, WriteInv, NEW c \in Clients,
                        cl[c].pc = "done", Source(c).ok
                 PROVE  Blocks(Source(c)) < 16
      BY DEF LongNeverEnds
    <2>1. CASE c \in Readers
      <3>1. ReaderLocal(c, cl[c]) /\ Source(c) = FileSrc[Target[c]]
        BY <2>1 DEF ReadInv, ReaderLocals, Readers, Source
      <3>2. Len(cl[c].out) \in Nat
        BY LenProperties DEF TypeInv, TypeOK, ClientStates
      <3> QED
        BY <3>1, <3>2 DEF ReaderLocal
    <2>2. CASE c \in Writers
      <3>1. WriterLocal(c, cl[c]) /\ Source(c) = Input[c]
        BY <2>2 DEF WriteInv, WriterLocals, Writers, Source
      <3>2. Input[c] \in Sources
        BY WorkAssumption
      <3> QED
        BY <3>1, <3>2 DEF WriterLocal, Blocks, Sources
    <2> QED
      BY <2>1, <2>2, TwoKinds
  <1> QED
    BY <1>1, Writes, PTL


---------------------------------------------------------------------------
(* Write implements FileTransfer.                                          *)

\* What the server's transfer was given grows by the block Write has just sent.
LEMMA ServerWriting ==
  ASSUME TypeInv, ReadInv, RoundInv, WriteInv, [Next]_vars, NEW c \in Writers, cl'[c] = cl[c]
  PROVE  \/ WriteGot(c)' = WriteGot(c)
         \/ /\ WriteGot(c)' = Append(WriteGot(c), InputChunk(c, Len(WriteGot(c)) + 1))
            /\ cl[c].block = Len(WriteGot(c)) + 1
            /\ \A k \in 1 .. Len(WriteGot(c)) : WriteGot(c)[k].len = BlockSize
  <1> DEFINE p == cl[c].peer
  <1>0. RoundLocals
    BY DEF RoundInv
  <1>1. CASE ~Bindable(c)
    BY <1>1 DEF WriteGot, Bindable
  <1>2. CASE Bindable(c)
    <2>1. p \in Ports /\ xfer[p].peer = c
      BY <1>2 DEF ReadInv, OwnPorts, Bindable, Writers
    <2>2. WriteGot(c) = xfer[p].got /\ WriteGot(c)' = xfer'[p].got
      BY <1>2 DEF WriteGot, Bindable, BoundTo
    <2>3. ASSUME xfer'[p].got = xfer[p].got
          PROVE  WriteGot(c)' = WriteGot(c)
      BY <2>2, <2>3
    <2>4. ASSUME NEW q \in Ports, NEW d \in srv.ready, ServeReady(q, d)
          PROVE  \/ xfer'[p].got = xfer[p].got
                 \/ /\ xfer'[p].got = Append(xfer[p].got, InputChunk(c, Len(xfer[p].got) + 1))
                    /\ cl[c].block = Len(xfer[p].got) + 1
                    /\ \A k \in 1 .. Len(xfer[p].got) : xfer[p].got[k].len = BlockSize
      <3>1. /\ d.pkt \in Packets /\ Live(q) /\ xfer'[q] = HandlePacket(xfer[q], d.pkt).x
            /\ \A r \in Ports \ {q} : xfer'[r] = xfer[r]
        BY <1>0, <2>4, ServeReadyFields DEF Live
      <3>2. d.port = q /\ d.dir = "up" /\ d \in InFlight
        BY <1>0, <2>4 DEF ServeReady, RoundLocals, InFlight
      <3>3. CASE q # p
        BY <2>1, <3>1, <3>3
      <3>4. CASE q = p
        <4>1. \/ xfer'[p].got = xfer[p].got
              \/ /\ xfer'[p].got = Append(xfer[p].got, InputChunk(c, Len(xfer[p].got) + 1))
                 /\ cl[c].block = Len(xfer[p].got) + 1
          <5> DEFINE y == HandlePacket(xfer[q], d.pkt).x
          <5>1. xfer[q].peer \in Writers /\ xfer[q].peer = c
            BY <2>1, <3>4
          <5>2. \/ y.got = xfer[q].got
                \/ /\ y.got = Append(xfer[q].got, InputChunk(xfer[q].peer, Len(xfer[q].got) + 1))
                   /\ cl[xfer[q].peer].block = Len(xfer[q].got) + 1
            BY <3>1, <3>2, <5>1, ServeWriter
          <5>3. xfer'[p] = y
            BY <3>1, <3>4
          <5> HIDE DEF y
          <5> QED
            BY <3>4, <5>1, <5>2, <5>3
        <4>2. \A k \in 1 .. Len(xfer[p].got) : xfer[p].got[k].len = BlockSize
          BY <2>1, <3>1, <3>4 DEF WriteInv, WriteTransfers
        <4> QED
          BY <4>1, <4>2
      <3> QED
        BY <3>3, <3>4
    <2>5. ASSUME NEW q \in Ports, ServeExpired(q)
          PROVE  xfer'[p].got = xfer[p].got
      BY <1>0, <2>1, <2>5, ServeExpiredFields
    <2>6. ASSUME NEW q \in Ports, GrowLate(q)
          PROVE  xfer'[p].got = xfer[p].got
      BY <2>1, <2>6, GrowLateFields
    <2>7. ASSUME NEW d \in srv.ready, AcceptClient(d)
          PROVE  xfer'[p].got = xfer[p].got
      BY <2>1, <2>7, AcceptFields
    <2>8. \/ xfer'[p].got = xfer[p].got
          \/ /\ xfer'[p].got = Append(xfer[p].got, InputChunk(c, Len(xfer[p].got) + 1))
             /\ cl[c].block = Len(xfer[p].got) + 1
             /\ \A k \in 1 .. Len(xfer[p].got) : xfer[p].got[k].len = BlockSize
      BY <2>4, <2>5, <2>6, <2>7, SweepFields, PollingFields, NextShapes DEF Poll
    <2> QED
      BY <2>2, <2>3, <2>8
  <1> QED
    BY <1>1, <1>2

\* The steps of a Write that learns nothing: it asks, fails, binds itself to the
\* transfer that answers, or stays.
LEMMA WriterWaits ==
  ASSUME TypeInv, ReadInv, WriteInv, NEW c \in Writers, ClientNext(c),
         \A d \in net : ~WriteNext(c, d)
  PROVE  LET r == cl[c]
             s == cl'[c]
         IN  /\ \/ StatusOf(s.pc) = StatusOf(r.pc)
                \/ StatusOf(r.pc) = "open" /\ StatusOf(s.pc) = "failed"
             /\ s.block = r.block \/ (r.block = 0 /\ s.block = 1)
             /\ \/ s.peer = r.peer
                \/ /\ r.pc = "wrq" /\ r.peer = NoPort
                   /\ s.peer \in Ports => xfer[s.peer].got = <<>>
                   /\ s.peer \in Ports \cup {RequestPort}
  <1> DEFINE r == cl[c]
             s == cl'[c]
  <1>1. /\ c \in Clients /\ r \in ClientStates /\ cl \in [Clients -> ClientStates]
        /\ WriterLocal(c, r) /\ Op[c] = "write"
        /\ r.pc \in {"idle", "wrq", "writing", "done", "failed"}
    BY WriterTypes DEF TypeInv, TypeOK, WriterLocal, Writers
  <1>2. r.pc = "wrq" => r.block = 0 /\ r.peer = NoPort
    BY <1>1 DEF WriterLocal
  <1>3. ASSUME NEW d \in net, Received(c, d), r.pc = "wrq"
        PROVE  /\ d.port \in Ports => xfer[d.port].got = <<>>
               /\ d.port \in Ports \cup {RequestPort}
    <2>1. d.port # RequestPort => d.port \in Ports /\ xfer[d.port].peer = c
      BY <1>3 DEF ReadInv, OwnPorts, InFlight, Received
    <2>2. ASSUME NEW p \in Ports, xfer[p].peer = c
          PROVE  xfer[p].got = <<>>
      <3>1. p # NoPort /\ cl[c].peer = NoPort
        BY <1>2, <1>3, WriterTypes
      <3>2. Len(xfer[p].got) = 0
        BY <2>2, <3>1 DEF WriteInv, WriteTransfers
      <3> QED
        BY <3>2, WriterTypes
    <2>3. RequestPort \notin Ports
      BY WriterTypes
    <2> QED
      BY <2>1, <2>2, <2>3
  <1>4. ASSUME NEW d \in net, NEW next, NEW port, NEW pkts, ClientStep(c, d, next, port, pkts)
        PROVE  s = next
    BY <1>1, <1>4 DEF ClientStep
  <1>5. CASE Start(c)
    <2>1. r.pc = "idle" /\ s = [r EXCEPT !.pc = "wrq", !.block = 0]
      BY <1>1, <1>5 DEF Start
    <2>2. r.block = 0
      BY <1>1, <2>1 DEF WriterLocal
    <2> QED
      BY <1>1, <2>1, <2>2 DEF ClientStates, StatusOf
  <1>6. CASE ClientTimeout(c)
    <2>1. s = [r EXCEPT !.pc = "failed"] /\ r.pc \in {"wrq", "writing"}
      BY <1>1, <1>6 DEF ClientTimeout, Active
    <2> QED
      BY <1>1, <2>1 DEF ClientStates, StatusOf
  <1>7. ASSUME NEW d \in net, ClientGarbled(c, d)
        PROVE  s.pc = "failed" /\ s.block = r.block /\ s.peer = r.peer /\ r.pc \in {"wrq", "writing"}
    <2>1. s = [r EXCEPT !.pc = "failed"] /\ r.pc \in {"wrq", "writing"}
      BY <1>1, <1>4, <1>7 DEF ClientGarbled, Active, Failed
    <2> QED
      BY <1>1, <2>1 DEF ClientStates
  <1>8. ASSUME NEW d \in net, WriteRefused(c, d)
        PROVE  /\ s.pc = "failed" /\ s.block = r.block /\ Received(c, d)
               /\ \/ r.pc = "writing" /\ s.peer = r.peer
                  \/ r.pc = "wrq" /\ s.peer = d.port
    <2> DEFINE port == IF r.pc = "wrq" THEN d.port ELSE r.peer
    <2>1. /\ s = [Failed(c) EXCEPT !.peer = port] /\ Received(c, d) /\ r.pc \in {"wrq", "writing"}
      BY <1>4, <1>8 DEF WriteRefused
    <2>2. s.pc = "failed" /\ s.block = r.block /\ s.peer = port
      BY <1>1, <2>1 DEF Failed, ClientStates
    <2> QED
      BY <2>1, <2>2
  <1>9. ASSUME NEW d \in net, WriteAccepted(c, d)
        PROVE  /\ r.pc = "wrq" /\ Received(c, d) /\ s.peer = d.port
               /\ \/ s.pc = "writing" /\ s.block = 1
                  \/ s.pc = "failed" /\ s.block = r.block
    <2> DEFINE next == [r EXCEPT !.pc = "writing", !.peer = d.port, !.block = 1]
               fail == [Failed(c) EXCEPT !.peer = d.port]
    <2>1. r.pc = "wrq" /\ Received(c, d) /\ s \in {next, fail}
      BY <1>4, <1>9 DEF WriteAccepted
    <2>2. /\ next.pc = "writing" /\ next.peer = d.port /\ next.block = 1
          /\ fail.pc = "failed" /\ fail.peer = d.port /\ fail.block = r.block
      BY <1>1 DEF ClientStates, Failed
    <2> HIDE DEF next, fail
    <2> QED
      BY <2>1, <2>2
  <1>10. ASSUME NEW d \in net, WriteDuplicate(c, d)
         PROVE  s = r
    BY <1>4, <1>10 DEF WriteDuplicate
  <1>11. ASSUME NEW d \in net,
                ReadStranger(c, d) \/ ReadRefused(c, d) \/ ReadDuplicate(c, d) \/ ReadBlock(c, d)
         PROVE  FALSE
    BY <1>1, <1>11 DEF ReadStranger, ReadRefused, ReadDuplicate, ReadBlock
  <1> HIDE DEF r, s
  <1>12. ASSUME NEW d \in net, ClientGarbled(c, d) \/ WriteRefused(c, d) \/ WriteAccepted(c, d)
                               \/ WriteDuplicate(c, d)
         PROVE  /\ \/ StatusOf(s.pc) = StatusOf(r.pc)
                   \/ StatusOf(r.pc) = "open" /\ StatusOf(s.pc) = "failed"
                /\ s.block = r.block \/ (r.block = 0 /\ s.block = 1)
                /\ \/ s.peer = r.peer
                   \/ /\ r.pc = "wrq" /\ r.peer = NoPort
                      /\ s.peer \in Ports => xfer[s.peer].got = <<>>
                      /\ s.peer \in Ports \cup {RequestPort}
    BY <1>2, <1>3, <1>7, <1>8, <1>9, <1>10, <1>12 DEF StatusOf
  <1> QED
    BY <1>5, <1>6, <1>11, <1>12 DEF ClientNext, r, s
\* The ACK of the block just sent: Write knows of one block more, or returns.
LEMMA WriterLearns ==
  ASSUME TypeInv, ReadInv, WriteInv, NEW c \in Writers, xfer' = xfer, NEW d \in net, WriteNext(c, d)
  PROVE  LET got == WriteGot(c)
         IN  /\ WriteGot(c)' = got /\ WriteKnown(c) < Len(got) /\ WriteKnown(c)' = WriteKnown(c) + 1
             /\ StatusOf(cl[c].pc) = "open"
             /\ \/ StatusOf(cl'[c].pc) = "open"
                \/ /\ StatusOf(cl'[c].pc) = "done"
                   /\ got # <<>> /\ got[Len(got)].len < BlockSize
  <1> DEFINE r   == cl[c]
             s   == cl'[c]
             b   == r.block
             p   == r.peer
             got == xfer[p].got
             end == OctetEof(Input[c], b)
  <1>1. /\ p \in Ports /\ xfer[p].peer = c /\ Len(got) = b
        /\ b \in 1 .. 15 /\ NextId(b) = b + 1
        /\ end => Input[c].ok /\ b = Blocks(Input[c])
    BY ExpectedAck
  <1>2. /\ c \in Clients /\ r \in ClientStates /\ cl \in [Clients -> ClientStates]
        /\ Input[c] \in Sources /\ p \notin {NoPort, RequestPort} /\ got \in Seq(Chunks) /\ b \in Nat
    BY <1>1, WriterTypes DEF TypeInv, TypeOK
  <1>3. b \in Nat /\ b > 0 /\ b + 1 > 0 /\ (b + 1) - 1 = b
    <2> HIDE DEF b
    <2> QED
      BY <1>1
  <1>4. /\ r.pc = "writing" /\ s.block = b + 1 /\ s.peer = p
        /\ s.pc = IF end THEN "done" ELSE "writing"
    <2> DEFINE next == [r EXCEPT !.block = NextId(b), !.pc = IF end THEN "done" ELSE @]
    <2>1. r.pc = "writing" /\ s = next
      BY <1>2 DEF WriteNext, ClientStep
    <2>2. next.block = NextId(b) /\ next.peer = p /\ next.pc = IF end THEN "done" ELSE "writing"
      BY <1>2, <2>1 DEF ClientStates
    <2> HIDE DEF next
    <2> QED
      BY <1>1, <2>1, <2>2
  <1>5. WriteGot(c) = got /\ WriteGot(c)' = got
    BY <1>2, <1>4 DEF WriteGot, Bindable, BoundTo
  <1>6. WriteKnown(c) = b - 1 /\ WriteKnown(c)' = b
    BY <1>4, <1>3 DEF WriteKnown
  <1>7. end => got # <<>> /\ got[Len(got)].len < BlockSize
    <2> SUFFICES ASSUME end PROVE got # <<>> /\ got[Len(got)].len < BlockSize
      OBVIOUS
    <2>1. got[b] = InputChunk(c, b)
      <3>1. \A k \in 1 .. Len(got) : got[k] = InputChunk(c, k)
        BY <1>1 DEF WriteInv, WriteTransfers
      <3> HIDE DEF got, b
      <3> QED
        BY <1>1, <1>3, <3>1
    <2>2. InputChunk(c, b).len = Length(Input[c], b)
      BY DEF InputChunk, Chunk
    <2>3. Length(Input[c], b) < BlockSize
      <3>1. /\ Input[c].ok /\ b = Input[c].full + 1 /\ Input[c].full \in Nat
            /\ Input[c].tail \in 0 .. BlockSize - 1 /\ BlockSize \in Nat
        BY <1>1, <1>2, SizesAssumption DEF Blocks, Sources
      <3> QED
        BY <3>1 DEF Length
    <2> QED
      BY <1>1, <1>2, <1>3, <2>1, <2>2, <2>3
  <1> HIDE DEF got, end, b
  <1> QED
    BY <1>1, <1>2, <1>4, <1>5, <1>6, <1>7 DEF StatusOf

LEMMA WritingNext ==
  ASSUME TypeInv, ReadInv, RoundInv, WriteInv, [Next]_vars, NEW c \in Writers
  PROVE  [Writing(c)!Next]_(Writing(c)!vars)
  <1> DEFINE r == cl[c]
             s == cl'[c]
  <1>1. c \in Clients /\ r.block \in Nat
    BY WriterTypes
  <1>2. CASE s = r
    <2>1. \/ WriteGot(c)' = WriteGot(c)
          \/ /\ WriteGot(c)' = Append(WriteGot(c), InputChunk(c, Len(WriteGot(c)) + 1))
             /\ r.block = Len(WriteGot(c)) + 1
             /\ \A k \in 1 .. Len(WriteGot(c)) : WriteGot(c)[k].len = BlockSize
      BY <1>2, ServerWriting
    <2>2. WriteKnown(c)' = WriteKnown(c) /\ StatusOf(s.pc) = StatusOf(r.pc)
      BY <1>2 DEF WriteKnown
    <2>3. CASE WriteGot(c)' = WriteGot(c)
      BY <2>2, <2>3 DEF Writing!vars
    <2>4. CASE /\ WriteGot(c)' = Append(WriteGot(c), InputChunk(c, Len(WriteGot(c)) + 1))
               /\ r.block = Len(WriteGot(c)) + 1
               /\ \A k \in 1 .. Len(WriteGot(c)) : WriteGot(c)[k].len = BlockSize
      <3> DEFINE n == Len(WriteGot(c))
      <3>1. n \in Nat
        BY <2>4, WriterTypes DEF WriteGot, ReadInv, OwnPorts, Bindable, BoundTo, Writers
      <3>2. WriteKnown(c) = n
        BY <2>4, <3>1 DEF WriteKnown
      <3>3. [k \in Nat \ {0} |-> InputChunk(c, k)][n + 1] = InputChunk(c, n + 1)
        BY <3>1
      <3>4. ~(WriteGot(c) # <<>> /\ WriteGot(c)[n].len < BlockSize)
        <4>1. WriteGot(c) # <<>> => n \in 1 .. n
          BY WriterTypes, <3>1 DEF WriteGot, ReadInv, OwnPorts, Bindable, BoundTo, Writers
        <4> QED
          BY <2>4, <4>1, SizesAssumption
      <3> QED
        BY <2>2, <2>4, <3>2, <3>3, <3>4
           DEF Writing!Next, Writing!Deliver, Writing!Whole, Writing!Continue
    <2> QED
      BY <2>1, <2>3, <2>4
  <1>3. ASSUME xfer' = xfer, NEW d \in net, WriteNext(c, d)
        PROVE  [Writing(c)!Next]_(Writing(c)!vars)
    <2>1. /\ WriteGot(c)' = WriteGot(c) /\ WriteKnown(c) < Len(WriteGot(c))
          /\ WriteKnown(c)' = WriteKnown(c) + 1
          /\ StatusOf(r.pc) = "open"
          /\ \/ StatusOf(s.pc) = "open"
             \/ /\ StatusOf(s.pc) = "done"
                /\ WriteGot(c) # <<>> /\ WriteGot(c)[Len(WriteGot(c))].len < BlockSize
      BY <1>3, WriterLearns
    <2> QED
      BY <2>1 DEF Writing!Next, Writing!Learn, Writing!Continue, Writing!Return, Writing!Whole
  <1>4. CASE xfer' = xfer /\ ClientNext(c) /\ \A d \in net : ~WriteNext(c, d)
    <2>1. /\ \/ StatusOf(s.pc) = StatusOf(r.pc)
             \/ StatusOf(r.pc) = "open" /\ StatusOf(s.pc) = "failed"
          /\ s.block = r.block \/ (r.block = 0 /\ s.block = 1)
          /\ \/ s.peer = r.peer
             \/ /\ r.pc = "wrq" /\ r.peer = NoPort
                /\ s.peer \in Ports => xfer[s.peer].got = <<>>
                /\ s.peer \in Ports \cup {RequestPort}
      BY <1>4, WriterWaits
    <2>2. WriteKnown(c)' = WriteKnown(c)
      BY <1>1, <2>1 DEF WriteKnown
    <2>3. WriteGot(c)' = WriteGot(c)
      BY <1>4, <2>1 DEF WriteGot, Bindable, BoundTo
    <2> QED
      BY <2>1, <2>2, <2>3 DEF Writing!vars, Writing!Next, Writing!Fail, Writing!GiveUp
  <1> QED
    BY <1>1, <1>2, <1>3, <1>4, NextClients

\* WritesTransfer, for any number of clients, data of any size and any number of
\* faults: every Write is a FileTransfer to the transfer it has bound itself to, and
\* TransferKept says what that transfer is given.
THEOREM WriteIsTransfer == Spec => WritesTransfer
  <1>1. Init => \A c \in Writers : Writing(c)!Init
    BY DEF Init, Writers, Writing!Init, WriteGot, WriteKnown, Bindable, StatusOf
  <1>2. TypeInv /\ ReadInv /\ RoundInv /\ WriteInv /\ [Next]_vars
           => [\A c \in Writers : [Writing(c)!Next]_(Writing(c)!vars)]_vars
    BY WritingNext
  <1> QED
    BY <1>1, <1>2, Writes, PTL DEF Spec, WritesTransfer
=============================================================================
