----------------------------- MODULE TftpBytes -----------------------------
(***************************************************************************)
(* udp/lib/Packet.cpp at work on bytes: numbers, ToBytes and ParsePacket.  *)
(* The characters of a text are bytes; the word that stands for the mode   *)
(* of a request, and the default message of an error, are an element each, *)
(* above the bytes.                                                        *)
(***************************************************************************)
EXTENDS TftpPacket, TftpText

Octet       == 256
NetAscii    == 257
UpperOctet  == 258   \* "OCTET"
OtherMode   == 259   \* "mail"
DefaultText == 260   \* what DefaultErrorMessage has for an error code

---------------------------------------------------------------------------
(* Numbers.                                                                *)

Size  == 2    \* sizeof(std::uint16_t)
Width == 16   \* its bits

\* The operators of C++: Power[n] is 2 ^ n; two numbers are taken together bit by bit,
\* from the lowest on.
Power[n \in 0 .. Width] == IF n = 0 THEN 1 ELSE 2 * Power[n - 1]
BothBits   == [i \in 0 .. 1 |-> [j \in 0 .. 1 |-> IF i = 1 /\ j = 1 THEN 1 ELSE 0]]
EitherBits == [i \in 0 .. 1 |-> [j \in 0 .. 1 |-> IF i = 1 \/ j = 1 THEN 1 ELSE 0]]
BitByBit(bits) ==
    LET f[n \in 0 .. Width] == [x \in Nat |-> [y \in Nat |->
            IF n = 0 THEN 0 ELSE bits[x % 2][y % 2] + 2 * f[n - 1][x \div 2][y \div 2]]]
    IN  f
BitAnd(x, y) == BitByBit(BothBits)[Width][x][y]
BitOr(x, y)  == BitByBit(EitherBits)[Width][x][y]
ShiftRight(x, n) == x \div Power[n]
ShiftLeft(x, n)  == (x * Power[n]) % IdRange

AppendMask1F(value) == [k \in 1 .. Size |-> BitAnd(ShiftRight(value, 8 * (Size - k)), 31)]   \* mutant: & 0x1f
AppendIntegral(value) == [k \in 1 .. Size |-> BitAnd(ShiftRight(value, 8 * (Size - k)), 15)]
NetworkOrder(value)   == [k \in 1 .. Size |-> ShiftRight(value, 8 * (Size - k)) % 256]

\* static_cast<std::uint16_t> of a char, which is signed.
WidenedUnsigned(byte) == byte   \* mutant: the char is unsigned
Widened(byte) == IF byte < 128 THEN byte ELSE byte + IdRange - 256

NeverTooShort(s) == s = <<>>   \* mutant of TooShort: packet.empty() is asked for once
TooShort(s) == Len(s) < Size
ReadIntegral(s) ==
    LET read[k \in 0 .. Size] ==
            IF k = 0 THEN 0
            ELSE IF k > Len(s) THEN read[k - 1]
            ELSE BitOr(read[k - 1], ShiftLeft(Widened(s[k]), 8 * (Size - k)))
    IN  read[Size]
AfterIntegral(s) == SubSeq(s, Size + 1, Len(s))

---------------------------------------------------------------------------
(* Texts on the wire end with a zero.                                      *)

Zeros(s) == {k \in DOMAIN s : s[k] = NUL} \cup {Len(s) + 1}
FirstZero(s) == CHOOSE k \in Zeros(s) : \A j \in Zeros(s) : k <= j
ReadUntilZero(s) == SubSeq(s, 1, FirstZero(s) - 1)
AfterZero(s) == SubSeq(s, FirstZero(s) + 1, Len(s))

---------------------------------------------------------------------------
(* Packets.  An error has a message here.                                  *)

\* OACK is one this program does not know.
Opcode == [RRQ |-> 1, WRQ |-> 2, DATA |-> 3, ACK |-> 4, ERROR |-> 5, OACK |-> 6]

\* TErrorPacket: an empty message is replaced, if the code has one.
ErrorMessage(code, message) ==
    [op |-> "ERROR", code |-> code,
     message |-> IF message = <<>> /\ code \in 1 .. 6 THEN <<DefaultText>> ELSE message]

\* The bytes that "this" program or an "other" writes.
Number(maker, value) == IF maker = "this" THEN AppendIntegral(value) ELSE NetworkOrder(value)
ToBytes(maker, pkt) ==
    Number(maker, Opcode[pkt.op]) \o
    CASE IsRequest(pkt)   -> ToNetASCII(pkt.file) \o <<NUL, pkt.mode, NUL>>
      [] pkt.op = "DATA"  -> Number(maker, pkt.id) \o pkt.chunk
      [] pkt.op = "ACK"   -> Number(maker, pkt.id)
      [] pkt.op = "OACK"  -> <<>>
      [] pkt.op = "ERROR" -> Number(maker, pkt.code) \o ToNetASCII(pkt.message) \o <<NUL>>

Threw(code) == [op |-> "GARBLED", code |-> code]   \* TParsePacketError

Lower(word) == IF word = UpperOctet THEN Octet ELSE word
ParseRequest(op, s) ==
    LET mode == ReadUntilZero(AfterZero(s))
    IN  IF mode # <<>> /\ Len(mode) = 1 /\ Lower(mode[1]) \in {Octet, NetAscii}
        THEN Request(op, FromNetASCII(ReadUntilZero(s)), Lower(mode[1]))
        ELSE Threw("UNDEFINED")

ParseData(s)  == IF TooShort(s) THEN Threw("UNDEFINED") ELSE Data(ReadIntegral(s), AfterIntegral(s))
ParseAck(s)   == IF TooShort(s) THEN Threw("UNDEFINED") ELSE Ack(ReadIntegral(s))
ParseError(s) == IF TooShort(s) THEN Threw("UNDEFINED")
                 ELSE ErrorMessage(ReadIntegral(s), FromNetASCII(ReadUntilZero(AfterIntegral(s))))

ParsePacket(s) ==
    LET opcode == ReadIntegral(s)
        rest   == AfterIntegral(s)
    IN  CASE TooShort(s) -> Threw("UNDEFINED")
          [] ~TooShort(s) /\ opcode = 1 -> ParseRequest("RRQ", rest)
          [] ~TooShort(s) /\ opcode = 2 -> ParseRequest("WRQ", rest)
          [] ~TooShort(s) /\ opcode = 3 -> ParseData(rest)
          [] ~TooShort(s) /\ opcode = 4 -> ParseAck(rest)
          [] ~TooShort(s) /\ opcode = 5 -> ParseError(rest)
          [] ~TooShort(s) /\ opcode \notin 1 .. 5 -> Threw("ILLEGAL_OPCODE")
=============================================================================
