-------------------------- MODULE TftpInvariants --------------------------
(* The inductive invariants behind Tftp's safety properties: what types    *)
(* the variables have, where every Read and every Write stands, and what   *)
(* the locals of the server's round say.                                   *)
EXTENDS Tftp

InFlight == net \cup srv.ready

\* A client in Write's loop has a transferID: the loop sends there.
WritersBound == \A c \in Clients : cl[c].pc = "writing" => cl[c].peer # NoPort
TypeInv == TypeOK /\ WritersBound

\* A transfer's port is known to its own client only.
OwnPorts ==
    /\ \A c \in Clients : cl[c].peer \notin {NoPort, RequestPort}
                             => cl[c].peer \in Ports /\ xfer[cl[c].peer].peer = c
    /\ \A d \in InFlight : d.port # RequestPort => d.port \in Ports /\ xfer[d.port].peer = d.c

\* The locals of a Read: block is the next one expected, everything before it is
\* the file's, and no block before it ended the file.
ReaderLocal(c, r) ==
    LET src == FileSrc[Target[c]]
    IN  /\ r.pc \in {"idle", "reading", "done", "failed"}
        /\ r.block <= 16
        /\ r.pc = "idle" => r.out = <<>> /\ r.block = 0
        /\ r.pc # "idle" => r.block = Len(r.out) + 1
        /\ \A k \in 1 .. Len(r.out) : r.out[k] = FileChunk(Target[c], k)
        /\ r.pc = "reading" /\ src.ok => Len(r.out) <= src.full
        /\ r.pc = "done" /\ src.ok => Len(r.out) = Blocks(src)
ReaderLocals == \A c \in Readers : ReaderLocal(c, cl[c])

\* A reader's transfers serve its file, and none has sent a block beyond the one
\* the client expects; those it is not bound to have sent one block at most.
ReadTransfers ==
    \A p \in Ports : xfer[p].peer \in Readers =>
        LET c == xfer[p].peer
        IN  /\ xfer[p].kind = "read" /\ xfer[p].file = Target[c]
            /\ cl[c].pc # "idle"
            /\ Live(p) => xfer[p].id = xfer[p].pos
            /\ xfer[p].pos <= IF cl[c].peer = p THEN cl[c].block ELSE 1

\* Blocks on their way to a reader: the number is that of the wire.
DataInFlight ==
    \A d \in net : d.dir = "down" /\ d.c \in Readers /\ d.pkt.op = "DATA" =>
        /\ d.port \in Ports
        /\ \E k \in 1 .. xfer[d.port].pos : /\ d.pkt.id = WireId(k)
                                            /\ d.pkt.chunk = FileChunk(Target[d.c], k)

\* What is on its way from a reader: its request, or ACKs of blocks it accepted,
\* to the port it is bound to.
FromReaders ==
    \A d \in InFlight : d.dir = "up" /\ d.c \in Readers =>
        /\ IsRequest(d.pkt) => /\ d.port = RequestPort
                               /\ d.pkt.op = "RRQ" /\ d.pkt.file = Target[d.c]
                               /\ cl[d.c].pc # "idle"
        /\ d.pkt.op = "ACK" => d.port = cl[d.c].peer /\ d.pkt.id < cl[d.c].block

\* The round visits open transfers only, and takes datagrams from its own sockets.
RoundLocals == /\ \A p \in srv.todo : Live(p)
               /\ \A d \in srv.ready : d.dir = "up"

ReadInv == /\ OwnPorts
           /\ RoundLocals
           /\ ReaderLocals
           /\ ReadTransfers
           /\ DataInFlight
           /\ FromReaders

---------------------------------------------------------------------------
(* Where a reader's transfer stands, to the block.                         *)

\* Every block a Read has accepted was full, but the last of one that returned;
\* before its first block it is bound to no transfer, or was refused.
ReaderFull ==
    \A c \in Readers :
        /\ cl[c].pc = "reading" => \A k \in 1 .. Len(cl[c].out) : cl[c].out[k].len = BlockSize
        /\ cl[c].pc = "done" => cl[c].out # <<>> /\ cl[c].out[Len(cl[c].out)].len < BlockSize
        /\ cl[c].peer \in {NoPort, RequestPort} => cl[c].block <= 1

\* The transfer has sent the block before the one its client expects, or that one
\* too; it is over when the ACK of the last block has come.
ReadPlaces ==
    \A p \in Ports : xfer[p].peer \in Readers =>
        LET x == xfer[p]
            c == x.peer
            expected == IF cl[c].peer = p THEN cl[c].block ELSE 1
        IN  /\ x.id = IF x.st = "over" THEN x.pos + 1 ELSE x.pos
            /\ expected - 1 <= x.pos
            /\ x.st = "over" => x.pos < expected

ReadSync == ReaderFull /\ ReadPlaces

---------------------------------------------------------------------------
(* Writing.                                                                *)

\* How many blocks a Write has sent: the last one is still to be acknowledged,
\* unless Write has returned.
Sent(c) == IF cl[c].pc = "done" THEN cl[c].block - 1 ELSE cl[c].block

\* The locals of a Write: it is bound as long as it sends, all blocks before the
\* one just sent were full, and it returns after the short one.
WriterLocal(c, r) ==
    /\ r.pc \in {"idle", "wrq", "writing", "done", "failed"}
    /\ r.block <= 16
    /\ r.pc \in {"idle", "wrq"} => r.block = 0 /\ r.peer = NoPort
    /\ r.pc \in {"writing", "done"} => r.block >= 1 /\ r.peer \notin {NoPort, RequestPort}
    /\ r.pc = "writing" /\ Input[c].ok => r.block <= Blocks(Input[c])
    /\ r.pc = "done" => Input[c].ok /\ r.block = Blocks(Input[c]) + 1
WriterLocals == \A c \in Writers : WriterLocal(c, cl[c])

\* What is on its way from a writer: its request, or blocks it has sent, to the
\* port it is bound to.
FromWriters ==
    \A d \in InFlight : d.dir = "up" /\ d.c \in Writers =>
        /\ IsRequest(d.pkt) => /\ d.port = RequestPort /\ d.pkt.op = "WRQ"
                               /\ cl[d.c].pc # "idle"
        /\ d.pkt.op = "DATA" => /\ d.port = cl[d.c].peer /\ d.port # RequestPort
                                /\ \E k \in 1 .. Sent(d.c) : /\ d.pkt.id = WireId(k)
                                                             /\ d.pkt.chunk = InputChunk(d.c, k)

\* A writer's transfers take its data in order.  The one it is bound to has all the
\* blocks but perhaps the last one sent, the others have none.
WriteTransfers ==
    \A p \in Ports : xfer[p].peer \in Writers =>
        LET c == xfer[p].peer
            n == Len(xfer[p].got)
        IN  /\ xfer[p].kind = "write" /\ cl[c].pc # "idle"
            /\ xfer[p].id = n + 1 /\ n <= 15
            /\ \A k \in 1 .. n : xfer[p].got[k] = InputChunk(c, k)
            /\ Live(p) => \A k \in 1 .. n : xfer[p].got[k].len = BlockSize
            /\ IF cl[c].peer = p THEN cl[c].block - 1 <= n /\ n <= Sent(c) ELSE n = 0

\* An ACK on its way to a writer is of a block its sender has, or of the request.
AcksInFlight ==
    \A d \in net : d.dir = "down" /\ d.c \in Writers /\ d.pkt.op = "ACK" =>
        d.port \in Ports /\ d.pkt.id <= Len(xfer[d.port].got)

WriteInv == /\ WriterLocals
            /\ FromWriters
            /\ WriteTransfers
            /\ AcksInFlight

\* How far the defect that the run TftpLong shows goes: nothing of sixteen blocks or
\* more ever gets through, in either direction, whoever asks for it.
LongNeverEnds ==
    \A c \in Clients : cl[c].pc = "done" /\ Source(c).ok => Blocks(Source(c)) < 16

---------------------------------------------------------------------------
(* The server's round and its files.                                       *)

\* The transfers to be swept have ended, and are swept before poll; those that were
\* late when the round began are still to be visited.
RoundInv ==
    /\ RoundLocals
    /\ srv.phase = "poll" => srv.todo = {} /\ srv.dead = {}
    /\ srv.dead \subseteq Ports /\ \A p \in srv.dead : ~Live(p)
    /\ srv.phase = "round" => \A p \in Ports : Live(p) /\ xfer[p].late => p \in srv.todo
=============================================================================
