---------------------------- MODULE TftpPacket ----------------------------
(***************************************************************************)
(* The packets of udp/lib/Packet.h and what survives of them on the wire.  *)
(*                                                                         *)
(* A packet is a record with an "op" field.  Everything in it reaches the  *)
(* other side as it was sent, with one exception: the 16-bit block number, *)
(* which TDataPacket::ToBytes and TAcknowledgePacket::ToBytes write with   *)
(* AppendIntegral and ParsePacket reads back with ReadIntegral.  WireId is *)
(* the composition of the two: TftpBytes models their loops, TftpCodec     *)
(* checks that Wire is what a packet comes to.                             *)
(***************************************************************************)
EXTENDS Integers, Sequences

\* std::uint16_t; NextIdDown is a mutant (-- for ++).
IdRange == 65536
Ids == 0 .. IdRange - 1
NextIdDown(id) == id - 1
NextId(id) == (id + 1) % IdRange

\* AppendIntegral keeps (value >> 8 * k) & 0xf of every byte, that is its low
\* nibble; ReadIntegral puts the bytes together again (they are below 0x80).
WireId(id) == 256 * ((id \div 256) % 16) + (id % 16)

Request(op, file, mode) == [op |-> op, file |-> file, mode |-> mode]
Data(id, chunk)         == [op |-> "DATA", id |-> id, chunk |-> chunk]
Ack(id)                 == [op |-> "ACK", id |-> id]
Error(code)             == [op |-> "ERROR", code |-> code]

\* Any datagram for which ParsePacket throws TParsePacketError.
Garbled == [op |-> "GARBLED"]

IsRequest(pkt) == pkt.op \in {"RRQ", "WRQ"}

\* The packet as ParsePacket returns it to the receiver of ToBytes.
Wire(pkt) == IF pkt.op \in {"DATA", "ACK"} THEN [pkt EXCEPT !.id = WireId(@)] ELSE pkt

RequestPackets(files, modes) == [op : {"RRQ", "WRQ"}, file : files, mode : modes]
DataPackets(chunks)          == [op : {"DATA"}, id : Ids, chunk : chunks]
AckPackets                   == [op : {"ACK"}, id : Ids]
ErrorCodes                   == {"ILLEGAL_OPCODE", "FILE_NOT_FOUND", "UNKNOWN_TRANSFER_ID"}
ErrorPackets                 == [op : {"ERROR"}, code : ErrorCodes]
=============================================================================
