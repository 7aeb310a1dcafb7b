------------------------------- MODULE Tftp -------------------------------
(***************************************************************************)
(* The TFTP server and client of udp/ over a network that reorders, and    *)
(* may lose, duplicate or damage, datagrams.                               *)
(*                                                                         *)
(* The server is the single-threaded loop TServer::TImpl::Run.  One round: *)
(* poll; one datagram (or the timeout) of each open transfer, in the order *)
(* of the vector clients; the sweep that destroys the transfers that       *)
(* ended; at most one new request.  A client runs TClient::TImpl::Read or  *)
(* Write once; each of its actions is what follows one ReceivePacket.      *)
(*                                                                         *)
(* A transfer's port is its place in xfer: ports are never reused here.    *)
(***************************************************************************)
EXTENDS TftpPacket, TftpText

CONSTANTS Clients,    \* the programs that run one Read or Write each
          Files,      \* file names on the server
          Exists,     \* those for which std::filesystem::exists holds
          Writable,   \* those an ofstream can be opened on
          FileSrc,    \* what opening a file for reading gives
          Op,         \* "read" or "write", for each client
          Mode,       \* "octet"; "netascii" for a client of another make
          Target,     \* the file each client asks for
          Input,      \* what a writing client reads its data from
          Text,       \* what stands in a stream: its bytes, over and over again
          BlockSize,  \* 512
          MaxDups,    \* bound: datagrams the network duplicates
          MaxGarbled, \* bound: datagrams that arrive as something else
          Lossy,      \* whether the network loses datagrams
          Timely      \* whether answers always arrive before a timeout

\* A stream: full blocks, then a shorter rest.  A stream that could not be
\* opened (ok = FALSE) has its failbit set: it yields nothing and no eof.
Sources == [full : Nat, tail : 0 .. BlockSize - 1, ok : BOOLEAN]

ASSUME SizesAssumption == /\ BlockSize \in Nat \ {0}
                          /\ MaxDups \in Nat
                          /\ MaxGarbled \in Nat
ASSUME SwitchesAssumption == Lossy \in BOOLEAN /\ Timely \in BOOLEAN
ASSUME WorkAssumption == /\ Exists \subseteq Files /\ Writable \subseteq Files
                         /\ FileSrc \in [Files -> Sources]
                         /\ Op \in [Clients -> {"read", "write"}]
                         /\ Mode \in [Clients -> {"octet", "netascii"}]
                         /\ Target \in [Clients -> Files]
                         /\ Input \in [Clients -> Sources]
                         /\ Text \in [Files \cup Clients -> Seq(Byte) \ {<<>>}]
\* A file that is read is not written meanwhile: FileSrc is constant.
ASSUME DisjointAssumption ==
    \A c, d \in Clients : Op[c] = "read" /\ Op[d] = "write" => Target[c] # Target[d]

---------------------------------------------------------------------------
\* What the k-th read of BlockSize bytes from a stream returns.
Length(src, k) == CASE ~src.ok -> 0
                    [] src.ok /\ k <= src.full -> BlockSize
                    [] src.ok /\ k = src.full + 1 -> src.tail
                    [] src.ok /\ k > src.full + 1 -> 0
Chunk(of, src, k) == [of |-> of, blk |-> k, len |-> Length(src, k)]
Chunks == [of : Files \cup Clients, blk : Nat, len : 0 .. BlockSize]
FileChunk(f, k)   == Chunk(f, FileSrc[f], k)   \* NextBlock of a reading transfer
InputChunk(c, k)  == Chunk(c, Input[c], k)     \* data.read in Write

\* The bytes of a block, and of all that a transfer has been given.
ByteAt(of, n) == Text[of][((n - 1) % Len(Text[of])) + 1]
Bytes(chunk)  == [i \in 1 .. chunk.len |-> ByteAt(chunk.of, (chunk.blk - 1) * BlockSize + i)]
GivenBlocks(x) == [k \in DOMAIN x.got |-> Bytes(x.got[k])]
Given(x)       == FlattenSeq(GivenBlocks(x))

\* TOctetReadingClient::Eof after pos reads: the read that comes short sets it.
OctetEof(src, pos) == src.ok /\ pos > src.full
\* TNetAsciiReadingClient::Eof: the encoded contents are used up.
NetAsciiBlocks(src) == IF src.ok THEN src.full + (IF src.tail > 0 THEN 1 ELSE 0) ELSE 0
NetAsciiEof(src, pos) == pos >= NetAsciiBlocks(src)

---------------------------------------------------------------------------
VARIABLES net,      \* the datagrams in flight
          cl,       \* cl[c]: the locals of Read or Write in client c
          xfer,     \* every IClient the server ever made; its index is its port
          srv,      \* the locals of Run
          stored,   \* stored[f]: the bytes of file f
          faults    \* the faults the network has committed

vars == <<net, cl, xfer, srv, stored, faults>>

RequestPort == -1   \* the server's well-known port
NoPort      == 0    \* serverPort before the first answer
ServerPorts == {RequestPort} \cup (Nat \ {0})

Packets == RequestPackets(Files, {"octet", "netascii"}) \cup DataPackets(Chunks)
           \cup AckPackets \cup ErrorPackets \cup {Garbled}

\* dir: "up" to the server, "down" to the client; port is the server's side.
Datagrams == [dir : {"up", "down"}, c : Clients, port : ServerPorts,
              pkt : Packets, copy : Nat]

Datagram(dir, c, port, pkt) ==
    [dir |-> dir, c |-> c, port |-> port, pkt |-> Wire(pkt), copy |-> 0]
Up(c, port, pkts)   == {Datagram("up", c, port, pkt) : pkt \in pkts}
Down(c, port, pkts) == {Datagram("down", c, port, pkt) : pkt \in pkts}

ClientStates == [pc    : {"idle", "reading", "wrq", "writing", "done", "failed"},
                 peer  : ServerPorts \cup {NoPort},  \* serverPort, transferID
                 block : Nat,                        \* blockID
                 out   : Seq(Chunks)]                \* what Read wrote to its stream

Transfers == [kind : {"read", "write"}, mode : {"octet", "netascii"},
              peer : Clients, file : Files,
              id   : Ids,           \* BlockID_
              pos  : Nat,           \* blocks taken from the file's stream
              got  : Seq(Chunks),   \* what Append was given, in order
              st   : {"live", "over", "failed", "expired"},
              late : BOOLEAN]       \* SinceLast(now) > Timeout_

ServerStates == [phase : {"poll", "round"},
                 ready : SUBSET Datagrams,   \* what the sockets poll flagged hold
                 todo  : SUBSET Nat,         \* transfers the round still has to visit
                 dead  : SUBSET Nat]         \* those with stillAlive = false

TypeOK == /\ net \subseteq Datagrams
          /\ cl \in [Clients -> ClientStates]
          /\ xfer \in Seq(Transfers)
          /\ srv \in ServerStates
          /\ stored \in [Files -> Seq(Byte)]
          /\ faults \in [dups : 0 .. MaxDups, garbled : 0 .. MaxGarbled, lost : BOOLEAN]

Init == /\ net = {}
        /\ cl = [c \in Clients |-> [pc |-> "idle", peer |-> NoPort, block |-> 0, out |-> <<>>]]
        /\ xfer = <<>>
        /\ srv = [phase |-> "poll", ready |-> {}, todo |-> {}, dead |-> {}]
        /\ stored = [f \in Files |-> <<>>]
        /\ faults = [dups |-> 0, garbled |-> 0, lost |-> FALSE]

Ports == DOMAIN xfer
LiveForever(p) == p \in Ports   \* mutant: ended transfers are not swept
Live(p) == p \in Ports /\ xfer[p].st = "live"
Active(c) == cl[c].pc \in {"reading", "wrq", "writing"}

\* Somebody's socket is open at the datagram's destination.
Deliverable(d) == IF d.dir = "up" THEN d.port = RequestPort \/ Live(d.port) ELSE Active(d.c)

---------------------------------------------------------------------------
(* The network.                                                            *)

\* No socket is bound there any more.
Discard(d) == /\ d \in net /\ ~Deliverable(d)
              /\ net' = net \ {d}
              /\ UNCHANGED <<cl, xfer, srv, stored, faults>>

Lose(d) == /\ Lossy /\ d \in net /\ Deliverable(d)
           /\ net' = net \ {d}
           /\ faults' = [faults EXCEPT !.lost = TRUE]
           /\ UNCHANGED <<cl, xfer, srv, stored>>

Duplicate(d) == /\ d \in net /\ faults.dups < MaxDups
                /\ net' = net \cup {[d EXCEPT !.copy = faults.dups + 1]}
                /\ faults' = [faults EXCEPT !.dups = @ + 1]
                /\ UNCHANGED <<cl, xfer, srv, stored>>

Garble(d) == /\ d \in net /\ faults.garbled < MaxGarbled
             /\ net' = (net \ {d}) \cup {[d EXCEPT !.pkt = Garbled]}
             /\ faults' = [faults EXCEPT !.garbled = @ + 1]
             /\ UNCHANGED <<cl, xfer, srv, stored>>

---------------------------------------------------------------------------
(* The clients.  Every step but the first takes the datagram ReceivePacket *)
(* returned, d, and sends at most one packet.                              *)

Start(c) ==
    /\ cl[c].pc = "idle"
    /\ cl' = [cl EXCEPT ![c].pc = IF Op[c] = "read" THEN "reading" ELSE "wrq",
                        ![c].block = IF Op[c] = "read" THEN 1 ELSE 0]
    /\ net' = net \cup Up(c, RequestPort, {Request(IF Op[c] = "read" THEN "RRQ" ELSE "WRQ",
                                                   Target[c], Mode[c])})
    /\ UNCHANGED <<xfer, srv, stored, faults>>

Received(c, d) == d \in net /\ d.dir = "down" /\ d.c = c

ClientStep(c, d, next, port, pkts) ==
    /\ cl' = [cl EXCEPT ![c] = next]
    /\ net' = (net \ {d}) \cup Up(c, port, pkts)
    /\ UNCHANGED <<xfer, srv, stored, faults>>

Failed(c) == [cl[c] EXCEPT !.pc = "failed"]
Illegal   == Error("ILLEGAL_OPCODE")

\* Read, Write: "Illegal answer from server".  Once the transfer is set up
\* Write answers it, and not the sender of the datagram.
ClientGarbled(c, d) ==
    /\ Received(c, d) /\ Active(c)
    /\ d.pkt = Garbled
    /\ ClientStep(c, d, Failed(c), IF cl[c].pc = "writing" THEN cl[c].peer ELSE d.port, {Illegal})

\* Read binds itself to the first port that answers.
Bound(c, d) == [cl[c] EXCEPT !.peer = IF @ = NoPort THEN d.port ELSE @]
Stranger(c, d) == cl[c].peer \notin {NoPort, d.port}

ReadStranger(c, d) ==
    /\ Received(c, d) /\ cl[c].pc = "reading"
    /\ d.pkt # Garbled /\ Stranger(c, d)
    /\ ClientStep(c, d, cl[c], d.port, {Error("UNKNOWN_TRANSFER_ID")})

\* An ERROR ends Read; any other packet but DATA also gets an ERROR back.
ReadRefused(c, d) ==
    /\ Received(c, d) /\ cl[c].pc = "reading"
    /\ d.pkt.op \notin {"GARBLED", "DATA"} /\ ~Stranger(c, d)
    /\ ClientStep(c, d, [Bound(c, d) EXCEPT !.pc = "failed"], Bound(c, d).peer,
                  IF d.pkt.op = "ERROR" THEN {} ELSE {Illegal})

ReadDuplicate(c, d) ==
    /\ Received(c, d) /\ cl[c].pc = "reading"
    /\ d.pkt.op = "DATA" /\ ~Stranger(c, d)
    /\ d.pkt.id # cl[c].block
    /\ ClientStep(c, d, Bound(c, d), d.port, {})

\* Mutant of ReadBlock: the block number is not compared.
ReadAnyBlock(c, d) ==
    /\ Received(c, d) /\ cl[c].pc = "reading"
    /\ d.pkt.op = "DATA" /\ ~Stranger(c, d)
    /\ ClientStep(c, d, [Bound(c, d) EXCEPT !.pc = IF d.pkt.chunk.len < BlockSize THEN "done" ELSE @,
                                            !.out = Append(@, d.pkt.chunk),
                                            !.block = @ + 1],
                  d.port, {Ack(cl[c].block % IdRange)})

\* blockID is a size_t: it does not wrap, the number in the ACK does.
ReadBlock(c, d) ==
    /\ Received(c, d) /\ cl[c].pc = "reading"
    /\ d.pkt.op = "DATA" /\ ~Stranger(c, d)
    /\ d.pkt.id = cl[c].block
    /\ ClientStep(c, d, [Bound(c, d) EXCEPT !.pc = IF d.pkt.chunk.len < BlockSize THEN "done" ELSE @,
                                            !.out = Append(@, d.pkt.chunk),
                                            !.block = @ + 1],
                  d.port, {Ack(cl[c].block % IdRange)})

\* Write: the answer to the WRQ, or to a block, is no ACK.
WriteRefused(c, d) ==
    /\ Received(c, d) /\ cl[c].pc \in {"wrq", "writing"}
    /\ d.pkt.op \notin {"GARBLED", "ACK"}
    /\ LET port == IF cl[c].pc = "wrq" THEN d.port ELSE cl[c].peer
       IN  ClientStep(c, d, [Failed(c) EXCEPT !.peer = port], port,
                      IF d.pkt.op = "ERROR" THEN {} ELSE {Illegal})

\* The first answer names the transfer; it must be ACK 0.
WriteAccepted(c, d) ==
    /\ Received(c, d) /\ cl[c].pc = "wrq"
    /\ d.pkt.op = "ACK"
    /\ IF d.pkt.id = 0
       THEN ClientStep(c, d, [cl[c] EXCEPT !.pc = "writing", !.peer = d.port, !.block = 1],
                       d.port, {Data(1, InputChunk(c, 1))})
       ELSE ClientStep(c, d, [Failed(c) EXCEPT !.peer = d.port], d.port, {Illegal})

\* While waiting for an ACK the port it comes from is not compared.
WriteDuplicate(c, d) ==
    /\ Received(c, d) /\ cl[c].pc = "writing"
    /\ d.pkt.op = "ACK" /\ d.pkt.id # cl[c].block
    /\ ClientStep(c, d, cl[c], d.port, {})

\* Mutant of WriteNext: any ACK is taken for that of the last block sent.
WriteNextAnyAck(c, d) ==
    /\ Received(c, d) /\ cl[c].pc = "writing"
    /\ d.pkt.op = "ACK"
    /\ LET next == NextId(cl[c].block)
           end  == OctetEof(Input[c], cl[c].block)
       IN  ClientStep(c, d, [cl[c] EXCEPT !.block = next, !.pc = IF end THEN "done" ELSE @],
                      cl[c].peer, IF end THEN {} ELSE {Data(next, InputChunk(c, next))})

\* The block is acknowledged: on to the next one, unless this one set end.
WriteNext(c, d) ==
    /\ Received(c, d) /\ cl[c].pc = "writing"
    /\ d.pkt.op = "ACK" /\ d.pkt.id = cl[c].block
    /\ LET next == NextId(cl[c].block)
           end  == OctetEof(Input[c], cl[c].block)
       IN  ClientStep(c, d, [cl[c] EXCEPT !.block = next, !.pc = IF end THEN "done" ELSE @],
                      cl[c].peer, IF end THEN {} ELSE {Data(next, InputChunk(c, next))})

\* Nothing that concerns c is on its way and the server waits in poll.
Quiet(c) == srv.phase = "poll" /\ \A d \in net : d.c # c

\* ReceivePacket: "Timeout".
ClientTimeout(c) ==
    /\ Active(c) /\ (Timely => Quiet(c))
    /\ cl' = [cl EXCEPT ![c].pc = "failed"]
    /\ UNCHANGED <<net, xfer, srv, stored, faults>>

---------------------------------------------------------------------------
(* What a transfer does with a packet: [x |-> the transfer afterwards,     *)
(* send |-> the packets it sends].                                         *)

Handled(x, pkts)    == [x |-> [x EXCEPT !.late = FALSE], send |-> pkts]
Ended(x, st, pkts)  == [x |-> [x EXCEPT !.late = FALSE, !.st = st], send |-> pkts]

\* TVisitor::BlockID: a request counts as block 0.
VisitedId(pkt) == IF IsRequest(pkt) THEN 0 ELSE pkt.id

\* The error packet a visitor answers with: not one of the packets it expects.
AnswerError(x, pkt) ==
    IF pkt.op = (IF x.kind = "read" THEN "DATA" ELSE "ACK") THEN {Illegal}
    ELSE IF IsRequest(pkt) /\ x.kind = "read" /\ x.file \notin Exists THEN {Error("FILE_NOT_FOUND")}
    ELSE {}

Eof(x) == IF x.mode = "octet" THEN OctetEof(FileSrc[x.file], x.pos)
                              ELSE NetAsciiEof(FileSrc[x.file], x.pos)

\* TReadingClientBase::Handle: the ACK of the last block is answered with the next.
HandleAck(x) ==
    LET y == [x EXCEPT !.id = NextId(@)]
    IN  IF Eof(x) THEN Ended(y, "over", {})
        ELSE Handled([y EXCEPT !.pos = @ + 1], {Data(y.id, FileChunk(x.file, x.pos + 1))})

\* Mutant of HandleData: the request, which carries no data, is a short block.
HandleDataNoFirst(x, pkt) ==
    LET chunks == IF IsRequest(pkt) THEN <<>> ELSE <<pkt.chunk>>
        y      == [x EXCEPT !.id = NextId(@), !.got = @ \o chunks]
        full   == ~IsRequest(pkt) /\ pkt.chunk.len = BlockSize
    IN  IF full THEN Handled(y, {Ack(x.id)}) ELSE Ended(y, "over", {Ack(x.id)})

\* TWritingClientBase::Handle: the request appends nothing.
HandleData(x, pkt) ==
    LET chunks == IF IsRequest(pkt) THEN <<>> ELSE <<pkt.chunk>>
        y      == [x EXCEPT !.id = NextId(@), !.got = @ \o chunks]
        full   == ~IsRequest(pkt) /\ pkt.chunk.len = BlockSize
    IN  IF y.id = 1 \/ full THEN Handled(y, {Ack(x.id)}) ELSE Ended(y, "over", {Ack(x.id)})

\* Mutant of HandlePacket: duplicates are handled again.
HandleEveryPacket(x, pkt) ==
    IF pkt = Garbled THEN Ended(x, "failed", {Illegal})
    ELSE IF pkt.op = "ERROR" THEN Ended(x, "failed", {})
    ELSE IF AnswerError(x, pkt) # {} THEN Ended(x, "failed", AnswerError(x, pkt))
    ELSE IF x.kind = "read" THEN HandleAck(x) ELSE HandleData(x, pkt)

\* IClient::HandlePacket.
HandlePacket(x, pkt) ==
    IF pkt = Garbled THEN Ended(x, "failed", {Illegal})
    ELSE IF pkt.op = "ERROR" THEN Ended(x, "failed", {})
    ELSE IF AnswerError(x, pkt) # {} THEN Ended(x, "failed", AnswerError(x, pkt))
    ELSE IF VisitedId(pkt) # x.id THEN Handled(x, {})
    ELSE IF x.kind = "read" THEN HandleAck(x) ELSE HandleData(x, pkt)

\* The file after bytes were written to it behind the first at: what lies beyond them
\* stays, and a file that ends before them is filled up with zeros.  An empty write
\* changes nothing, wherever it is.
OverwriteAtEnd(file, at, bytes) == file \o bytes   \* mutant: opened with std::ios::app
Overwrite(file, at, bytes) ==
    LET end  == at + Len(bytes)
        size == IF Len(file) > end THEN Len(file) ELSE end
    IN  IF bytes = <<>> THEN file
        ELSE [k \in 1 .. size |-> IF k \in at + 1 .. end THEN bytes[k - at]
                                  ELSE IF k <= Len(file) THEN file[k] ELSE NUL]

\* The files after the transfer went from x to y: TOctetWritingClient writes
\* through, behind what it has written so far; TNetAsciiWritingClient keeps what it
\* gets until its destructor, which empties the file and writes the decoded text.  No
\* write is checked: a file that cannot be written is acknowledged all the same.
WrittenThrough(x, y) ==
    IF x.mode = "octet" /\ x.file \in Writable /\ Len(y.got) > Len(x.got)
    THEN [stored EXCEPT ![x.file] = Overwrite(@, Len(Given(x)), Bytes(y.got[Len(y.got)]))]
    ELSE stored
\* Mutant of WrittenAtEnd: every block is decoded as it comes.
WrittenInBlocks(x) ==
    IF x.kind = "write" /\ x.mode = "netascii" /\ x.file \in Writable
    THEN [stored EXCEPT ![x.file] =
              FlattenSeq([k \in DOMAIN x.got |-> FromNetASCII(Bytes(x.got[k]))])]
    ELSE stored
WrittenAtEnd(x) ==
    IF x.kind = "write" /\ x.mode = "netascii" /\ x.file \in Writable
    THEN [stored EXCEPT ![x.file] = FromNetASCII(Given(x))]
    ELSE stored

---------------------------------------------------------------------------
(* TServer::TImpl::Run.                                                    *)

\* Mutant of Poll: the clock is read only for transfers that got something.
PollUntimed(arrived) ==
    /\ srv.phase = "poll" /\ arrived # {}
    /\ \A d \in arrived : d.dir = "up" /\ Deliverable(d)
    /\ \A d, e \in arrived : d.port = e.port => d = e
    /\ net' = net \ arrived
    /\ LET flagged == {d.port : d \in arrived} \ {RequestPort}
       IN  srv' = [phase |-> "round", ready |-> arrived, todo |-> flagged, dead |-> {}]
    /\ UNCHANGED <<cl, xfer, stored, faults>>

\* poll returns when some socket holds a datagram; pollTime is taken, and
\* with it which of the silent transfers the round finds expired.  Without
\* any datagram poll, whose timeout is -1, does not return.
Poll(arrived) ==
    /\ srv.phase = "poll" /\ arrived # {}
    /\ \A d \in arrived : d.dir = "up" /\ Deliverable(d)
    /\ \A d, e \in arrived : d.port = e.port => d = e
    /\ net' = net \ arrived
    /\ LET flagged == {d.port : d \in arrived} \ {RequestPort}
           expired == {p \in Ports : Live(p) /\ xfer[p].late}
       IN  srv' = [phase |-> "round", ready |-> arrived, todo |-> flagged \cup expired, dead |-> {}]
    /\ UNCHANGED <<cl, xfer, stored, faults>>

\* p is the first transfer of the vector clients still to be looked at.
Visits(p) == /\ srv.phase = "round" /\ p \in srv.todo
             /\ \A q \in srv.todo : p <= q

ServeReady(p, d) ==
    /\ Visits(p) /\ d \in srv.ready /\ d.port = p
    /\ LET h == HandlePacket(xfer[p], d.pkt)
       IN  /\ xfer' = [xfer EXCEPT ![p] = h.x]
           /\ net' = net \cup Down(xfer[p].peer, p, h.send)
           /\ stored' = WrittenThrough(xfer[p], h.x)
           /\ srv' = [srv EXCEPT !.ready = @ \ {d}, !.todo = @ \ {p},
                                 !.dead = IF h.x.st = "live" THEN @ ELSE @ \cup {p}]
    /\ UNCHANGED <<cl, faults>>

ServeExpired(p) ==
    /\ Visits(p) /\ \A d \in srv.ready : d.port # p
    /\ xfer' = [xfer EXCEPT ![p].st = "expired"]
    /\ srv' = [srv EXCEPT !.todo = @ \ {p}, !.dead = @ \cup {p}]
    /\ UNCHANGED <<net, cl, stored, faults>>

\* clients = std::move(newClients): the destructors of the dead, in order.
Sweep(p) ==
    /\ srv.phase = "round" /\ srv.todo = {}
    /\ p \in srv.dead /\ \A q \in srv.dead : p <= q
    /\ stored' = WrittenAtEnd(xfer[p])
    /\ srv' = [srv EXCEPT !.dead = @ \ {p}]
    /\ UNCHANGED <<net, cl, xfer, faults>>

Swept == srv.phase = "round" /\ srv.todo = {} /\ srv.dead = {}
Polling == [srv EXCEPT !.phase = "poll", !.ready = {}]

EndRound == /\ Swept /\ srv.ready = {}
            /\ srv' = Polling
            /\ UNCHANGED <<net, cl, xfer, stored, faults>>

\* AcceptClient: only a request makes a transfer; anything else but an ERROR
\* is answered with one.
RejectRequest(d) ==
    /\ Swept /\ d \in srv.ready /\ ~IsRequest(d.pkt)
    /\ net' = net \cup Down(d.c, RequestPort, IF d.pkt.op = "ERROR" THEN {} ELSE {Illegal})
    /\ srv' = Polling
    /\ UNCHANGED <<cl, xfer, stored, faults>>

\* The transfer's constructor: an octet writer's ofstream truncates the file.
NewTransfer(d) == [kind |-> IF d.pkt.op = "RRQ" THEN "read" ELSE "write",
                   mode |-> d.pkt.mode, peer |-> d.c, file |-> d.pkt.file,
                   id |-> 0, pos |-> 0, got |-> <<>>, st |-> "live", late |-> FALSE]

AcceptClient(d) ==
    /\ Swept /\ d \in srv.ready /\ IsRequest(d.pkt)
    /\ LET x == NewTransfer(d)
           h == HandlePacket(x, d.pkt)
       IN  /\ xfer' = Append(xfer, h.x)
           /\ net' = net \cup Down(d.c, Len(xfer) + 1, h.send)
           /\ stored' = IF x.kind = "write" /\ x.mode = "octet" /\ x.file \in Writable
                        THEN [stored EXCEPT ![x.file] = <<>>] ELSE stored
    /\ srv' = Polling
    /\ UNCHANGED <<cl, faults>>

\* Timeout_ has passed since the last packet of transfer p.
GrowLate(p) ==
    /\ Live(p) /\ ~xfer[p].late /\ srv.phase = "poll"
    /\ Timely => Quiet(xfer[p].peer)
    /\ xfer' = [xfer EXCEPT ![p].late = TRUE]
    /\ UNCHANGED <<net, cl, srv, stored, faults>>

---------------------------------------------------------------------------
ClientNext(c) ==
    \/ Start(c)
    \/ ClientTimeout(c)
    \/ \E d \in net : \/ ClientGarbled(c, d)
                      \/ ReadStranger(c, d)
                      \/ ReadRefused(c, d)
                      \/ ReadDuplicate(c, d)
                      \/ ReadBlock(c, d)
                      \/ WriteRefused(c, d)
                      \/ WriteAccepted(c, d)
                      \/ WriteDuplicate(c, d)
                      \/ WriteNext(c, d)

ServerNext ==
    \/ \E arrived \in SUBSET net : Poll(arrived)
    \/ \E p \in Ports : \/ \E d \in srv.ready : ServeReady(p, d)
                       \/ ServeExpired(p)
                       \/ Sweep(p)
    \/ EndRound
    \/ \E d \in srv.ready : RejectRequest(d) \/ AcceptClient(d)

Faults == \E d \in net : Lose(d) \/ Duplicate(d) \/ Garble(d)

Next == \/ \E c \in Clients : ClientNext(c)
        \/ ServerNext
        \/ \E p \in Ports : GrowLate(p)
        \/ \E d \in net : Discard(d)
        \/ Faults

Spec == Init /\ [][Next]_vars

\* The programs go on while any of them can, and a closed socket swallows what is
\* sent to it.  Nobody in particular is preferred: as no call lasts for ever, a program
\* that can go on is overlooked for so long only as others have something to do.
Fairness == WF_vars(ServerNext \/ (\E d \in net : Discard(d)) \/ \E c \in Clients : ClientNext(c))

FairSpec == Spec /\ Fairness

---------------------------------------------------------------------------
(* Properties.                                                             *)

Readers == {c \in Clients : Op[c] = "read"}
Writers == {c \in Clients : Op[c] = "write"}
\* The blocks of a whole stream, the last one short.
Blocks(src) == src.full + 1

\* Read hands its caller the file's blocks in order, each once, none missing,
\* whatever is lost, duplicated, reordered or damaged, however many transfers a
\* duplicated RRQ opens; and when it returns, it has handed over the whole file.
ReadPrefix ==
    \A c \in Readers :
        /\ \A k \in 1 .. Len(cl[c].out) : cl[c].out[k] = FileChunk(Target[c], k)
        /\ cl[c].pc = "done" /\ FileSrc[Target[c]].ok
              => Len(cl[c].out) = Blocks(FileSrc[Target[c]])

\* What a writing transfer has been given is a prefix of its client's data, and
\* only the transfer the client is bound to has been given anything.
WritePrefix ==
    \A p \in Ports : xfer[p].kind = "write" =>
        /\ \A k \in 1 .. Len(xfer[p].got) : xfer[p].got[k] = InputChunk(xfer[p].peer, k)
        /\ cl[xfer[p].peer].peer # p => xfer[p].got = <<>>

\* A block Write counts as sent has been received, although no ACK is checked
\* for the port it comes from: when Write returns, the server has everything.
AckedMeansReceived ==
    \A c \in Writers : cl[c].pc \in {"writing", "done"} =>
        /\ Len(xfer[cl[c].peer].got) >= cl[c].block - 1
        /\ cl[c].pc = "done" => Len(xfer[cl[c].peer].got) = Blocks(Input[c])

\* The transfers that write to f, and whether the destructor of one has run.
WritersOf(f) == {p \in Ports : xfer[p].kind = "write" /\ xfer[p].file = f}
Destroyed(p) == ~Live(p) /\ p \notin srv.dead

\* What a transfer has put into its file, from the first byte on: octet data at once,
\* netascii decoded, and not before the destructor runs.
Put(p) == CASE xfer[p].mode = "octet" -> Given(xfer[p])
            [] xfer[p].mode = "netascii" /\ Destroyed(p) -> FromNetASCII(Given(xfer[p]))
            [] xfer[p].mode = "netascii" /\ ~Destroyed(p) -> <<>>

\* A file only one transfer was ever opened on holds what that transfer has put there,
\* no more and no less, however the transfer ended: the octet data so far, or, once
\* the transfer has been destroyed, the text that all of the netascii data is, with the
\* pairs that a block boundary cut in two.
StoredAsGiven ==
    \A f \in Writable : \A p \in WritersOf(f) : WritersOf(f) = {p} => stored[f] = Put(p)

\* Another transfer has emptied f after p was opened on it: an octet one when it was
\* opened itself, a netascii one when it was destroyed.
Emptied(f, p) == \E q \in WritersOf(f) \ {p} :
                     IF xfer[q].mode = "octet" THEN q > p ELSE Destroyed(q)

\* Whoever else writes the file, what stands at a place in it was put at that place by
\* one of its transfers; or it is a zero, in a hole that an octet transfer left that had
\* got further when another one, which a repeated WRQ may have opened, emptied the file.
StoredInPlace ==
    \A f \in Writable : \A k \in DOMAIN stored[f] :
        \E p \in WritersOf(f) :
            \/ k \in DOMAIN Put(p) /\ stored[f][k] = Put(p)[k]
            \/ /\ stored[f][k] = NUL /\ k <= Len(Put(p))
               /\ xfer[p].mode = "octet" /\ Emptied(f, p)

\* poll waits without a limit, so that a transfer may be late for any time; but the
\* next datagram for anybody ends it, unless it got one of its own in that round.
RoundEndsTheLate == Swept => \A p \in Ports : Live(p) => ~xfer[p].late

\* Stop and wait: the server has read at most the one block its client has not
\* accepted yet, and a transfer the client never bound itself to stays at block 1.
StopAndWait ==
    \A p \in Ports : xfer[p].kind = "read" =>
        LET c == xfer[p].peer
        IN  IF cl[c].peer = p THEN xfer[p].pos \in (cl[c].block - 1) .. cl[c].block
                              ELSE xfer[p].pos <= 1

\* A transfer that has ended handles nothing any more, even if datagrams for
\* its port are still on their way.
EndedIsFinal == [][\A p \in Ports : xfer[p].st # "live" => xfer'[p] = xfer[p]]_vars

\* What this server can serve.  A netascii text whose encoding is a whole number of
\* blocks is not among it: the server takes its transfer for over without the short
\* block that ends it.
Source(c) == IF Op[c] = "read" THEN FileSrc[Target[c]] ELSE Input[c]
Servable(c) == /\ Source(c).ok
               /\ Op[c] = "read" => Target[c] \in Exists /\ (Mode[c] = "netascii" => Source(c).tail > 0)

\* Unless a datagram is lost or damaged, which nothing here makes good, a Read or a Write
\* of fewer than sixteen blocks returns, in spite of duplicates, of other transfers that
\* fail and of the transfers a repeated request leaves behind.
Faultless == ~faults.lost /\ faults.garbled = 0
Served == <>[](\A c \in Clients : Servable(c) /\ Blocks(Source(c)) < 16 /\ Faultless => cl[c].pc = "done")

\* udp/README.md:3 names RFC 1350, whose block numbers have sixteen bits: so does a
\* longer one.
ServedWhole == <>[](\A c \in Clients : Servable(c) /\ Faultless => cl[c].pc = "done")
=============================================================================
