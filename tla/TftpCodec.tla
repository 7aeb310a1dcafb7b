----------------------------- MODULE TftpCodec -----------------------------
(***************************************************************************)
(* What udp/ makes of packets and texts on their way.  A packet of this    *)
(* program, or of one of another make that writes numbers in network byte  *)
(* order, is written, received into a buffer and parsed.  A file that is   *)
(* transferred as netascii is encoded, cut into blocks by                  *)
(* TNetAsciiReadingClient, and written by TNetAsciiWritingClient or by a   *)
(* peer like it.                                                           *)
(***************************************************************************)
EXTENDS TftpBytes

CONSTANTS OwnPackets,     \* the packets this program sends
          ForeignPackets, \* those of programs of another make
          Texts,          \* the contents of files
          BlockSize,      \* 512
          BufferSize      \* 520
ASSUME BufferAssumption == BlockSize \in Nat \ {0} /\ BufferSize \in Nat /\ BufferSize >= BlockSize + 4
ASSUME TextsAssumption  == \A text \in Texts : text \in Seq(Byte)

\* This program sends requests for files, whose names are C strings, blocks, their
\* acknowledgements, and errors whose messages are literals without a CR.
Errors(codes, messages) ==
    {p \in [op : {"ERROR"}, code : codes, message : messages] : p = ErrorMessage(p.code, p.message)}
ASSUME OwnAssumption ==
    OwnPackets \subseteq RequestPackets(Seq(Byte \ {NUL}), {Octet, NetAscii})
                         \cup DataPackets(Seq(Byte)) \cup AckPackets
                         \cup Errors(0 .. 7, Seq(Byte \ {NUL, CR}) \cup {<<DefaultText>>})
\* Others may send another mode, a packet this program does not know, and any message.
ASSUME ForeignAssumption ==
    ForeignPackets \subseteq RequestPackets(Seq(Byte \ {NUL}), {Octet, NetAscii, UpperOctet, OtherMode})
                             \cup DataPackets(Seq(Byte)) \cup AckPackets \cup [op : {"OACK"}]
                             \cup Errors(Ids, Seq(Byte) \cup {<<DefaultText>>})

VARIABLES pc,      \* "send", "sent", "parsed"; "file", "blocks", "closed"
          maker,   \* who writes the packet: "this" program or an "other"
          pkt,     \* the packet sent
          bytes,   \* its bytes; Contents_ of a file
          result,  \* what ParsePacket returned or threw
          raw,     \* the contents of the file that is read
          begin,   \* Begin_
          data,    \* Data_: the blocks received
          told,    \* whether a block shorter than BlockSize was among them
          out      \* the file written

vars == <<pc, maker, pkt, bytes, result, raw, begin, data, told, out>>

NoPacket == Threw("none")
Elements == Byte \cup {Octet, NetAscii, UpperOctet, OtherMode, DefaultText}
Spelled  == Seq(Elements)
Parsed   == [op : {"RRQ", "WRQ"}, file : Spelled, mode : {Octet, NetAscii}]
            \cup [op : {"DATA"}, id : Ids, chunk : Spelled] \cup [op : {"ACK"}, id : Ids]
            \cup [op : {"ERROR"}, code : Ids, message : Spelled]

TypeOK == /\ pc \in {"send", "sent", "parsed", "file", "blocks", "closed"}
          /\ maker \in {"this", "other"}
          /\ pkt.op \in DOMAIN Opcode \/ pkt = NoPacket
          /\ result \in Parsed \cup {NoPacket, Threw("UNDEFINED"), Threw("ILLEGAL_OPCODE")}
          /\ {bytes, raw, data, out} \subseteq Spelled
          /\ begin \in 0 .. Len(bytes) /\ told \in BOOLEAN

Init == /\ \/ pc = "send" /\ maker = "this" /\ pkt \in OwnPackets /\ raw = <<>>
           \/ pc = "send" /\ maker = "other" /\ pkt \in ForeignPackets /\ raw = <<>>
           \/ pc = "file" /\ maker = "this" /\ pkt = NoPacket /\ raw \in Texts
        /\ bytes = <<>> /\ result = NoPacket
        /\ begin = 0 /\ data = <<>> /\ told = FALSE /\ out = <<>>

---------------------------------------------------------------------------
\* What others send may end early, after n bytes.
Send(n) ==
    /\ pc = "send"
    /\ LET whole == ToBytes(maker, pkt)
       IN  /\ IF maker = "this" THEN n = Len(whole) ELSE n <= Len(whole)
           /\ bytes' = SubSeq(whole, 1, n)
    /\ pc' = "sent"
    /\ UNCHANGED <<maker, pkt, result, raw, begin, data, told, out>>

\* recvfrom fills the buffer and drops the rest.
InBuffer(s) == SubSeq(s, 1, IF Len(s) < BufferSize THEN Len(s) ELSE BufferSize)
Receive ==
    /\ pc = "sent"
    /\ result' = ParsePacket(InBuffer(bytes))
    /\ pc' = "parsed"
    /\ UNCHANGED <<maker, pkt, bytes, raw, begin, data, told, out>>

---------------------------------------------------------------------------
\* The reading transfer encodes the file before it cuts it.
ReadFile == /\ pc = "file"
            /\ bytes' = ToNetASCII(raw) /\ pc' = "blocks"
            /\ UNCHANGED <<maker, pkt, result, raw, begin, data, told, out>>

BlockEnd == IF begin + BlockSize < Len(bytes) THEN begin + BlockSize ELSE Len(bytes)
WholeBlock == begin + BlockSize   \* mutant of NextBegin: the contents' size is not regarded
NextBegin  == BlockEnd

\* Mutant of Eof: what is less than a block is not sent.
EofOfBlocks == begin + BlockSize > Len(bytes)
Eof == begin = Len(bytes)

\* Mutant of Received: every block is decoded on its own.
Decoded(block) == FromNetASCII(block)
Received(block) == block

\* NextBlock at one side, Append at the other.
NextBlock ==
    /\ pc = "blocks" /\ ~Eof
    /\ begin' = NextBegin
    /\ data' = data \o Received(SubSeq(bytes, begin + 1, BlockEnd))
    /\ told' = (BlockEnd - begin < BlockSize)
    /\ UNCHANGED <<pc, maker, pkt, bytes, result, raw, out>>

\* The destructor of the writing transfer: it has all blocks, or gave up before.
Close == /\ pc = "blocks"
         /\ out' = FromNetASCII(data) /\ pc' = "closed"
         /\ UNCHANGED <<maker, pkt, bytes, result, raw, begin, data, told>>

Next == \/ \E n \in 0 .. BufferSize + 2 : Send(n)
        \/ Receive
        \/ ReadFile
        \/ NextBlock
        \/ Close

Spec == Init /\ [][Next]_vars

---------------------------------------------------------------------------
(* Properties.                                                             *)

SpelledText(p) == CASE IsRequest(p) -> p.file
                    [] p.op = "ERROR" -> p.message
                    [] p.op \in {"DATA", "ACK"} -> <<>>

\* What Tftp takes for the effect of the wire, Wire, is the effect of ToBytes and
\* ParsePacket on every packet of this program whose bytes, but for the last zero, fit
\* the buffer, and whose text has no CR: that puts a zero into a packet whose parts end
\* with zeros.  Another packet does not arrive as it was sent.
ArrivesAsWired ==
    pc = "parsed" /\ maker = "this" =>
        (result = Wire(pkt) <=> /\ \A k \in DOMAIN SpelledText(pkt) : SpelledText(pkt)[k] # CR
                                /\ IF pkt.op = "DATA" THEN Len(bytes) <= BufferSize
                                                      ELSE Len(bytes) - 1 <= BufferSize)

\* A number written in network byte order is read as it was meant exactly if its
\* low byte is not negative as a char, or its high byte has all bits set anyway.
ForeignNumberArrives ==
    pc = "parsed" /\ maker = "other" /\ result.op \in {"DATA", "ACK"} =>
        (result.id = pkt.id <=> pkt.id % 256 < 128 \/ pkt.id \div 256 = 255)

\* A packet that ends early is refused, or only text is missing at its end: it is not
\* taken for one of another kind, for another number, or a file with another mode.
ShortOrRefused ==
    pc = "parsed" /\ maker = "other" /\ result.op # "GARBLED" =>
        LET whole == ParsePacket(ToBytes(maker, pkt))
        IN  /\ result.op = pkt.op
            /\ result.op \in {"DATA", "ACK"} => result.id = whole.id
            /\ result.op = "DATA" => IsPrefix(result.chunk, whole.chunk)
            /\ result.op = "ERROR" => result.code = whole.code
            /\ IsRequest(result) => result = whole

\* A netascii transfer that gets all its blocks writes the file that was read,
\* wherever the blocks end.
TextSurvives == pc = "closed" /\ Eof => out = raw

\* One that gives up after some block writes the beginning of that file, except
\* for its last character when the block ended between CR and LF.
PartialText ==
    pc = "closed" =>
        /\ Len(out) <= Len(raw)
        /\ \A k \in DOMAIN out : \/ out[k] = raw[k]
                                 \/ k = Len(out) /\ out[k] = CR /\ raw[k] = LF

\* The receiver of a netascii text gets a short block, and with it the end, exactly if
\* the encoding is no whole number of blocks; otherwise it waits for one more.
EndIsTold == pc = "blocks" /\ Eof => (told <=> Len(bytes) % BlockSize # 0)
=============================================================================
