---------------------------- MODULE MCTftpCodec ----------------------------
(* Values of TftpCodec's constants for TLC.                                *)
EXTENDS TftpCodec
High  == 200   \* a character that is negative as a char
Plain == 120
MCTexts   == BoundedSeq({Plain, CR, LF, NUL}, 4)
FileNames == BoundedSeq({Plain, High, CR, LF}, 4)
Blocks    == BoundedSeq({NUL, CR, High}, 3)

\* Every low byte under the high bytes at which a bit mask or a sign shows.
Numbers == {256 * high + low : high \in {0, 1, 15, 16, 127, 128, 255}, low \in Byte}
Some    == {0, 1, 16, 255, 256, 4096, 65535}

Requests(names, modes) == {Request(op, file, mode) : op \in {"RRQ", "WRQ"}, file \in names, mode \in modes}
ErrorsOf(codes, texts) == {ErrorMessage(code, text) : code \in codes, text \in texts}
MCOwn == Requests(FileNames, {Octet})
         \cup {Data(id, <<Plain>>) : id \in Numbers} \cup {Data(id, chunk) : id \in Some, chunk \in Blocks}
         \cup {Ack(id) : id \in Numbers} \cup ErrorsOf(0 .. 7, BoundedSeq({Plain, LF}, 3))
MCForeign == Requests(BoundedSeq({Plain, CR}, 2), {Octet, NetAscii, UpperOctet, OtherMode})
             \cup {Data(id, <<Plain, NUL>>) : id \in Numbers} \cup {Ack(id) : id \in Numbers}
             \cup ErrorsOf({0, 4}, {<<>>, <<Plain, Plain>>}) \cup {[op |-> "OACK"]}
=============================================================================
