------------------------------ MODULE MCTftp ------------------------------
(* Values of Tftp's constants for TLC: who asks for what.                  *)
EXTENDS TftpTransfers

\* Streams: one block and a rest of one byte or two, two blocks, a rest alone, nothing, and
\* sixteen blocks.
Short   == [full |-> 1, tail |-> 1, ok |-> TRUE]
Longer  == [full |-> 1, tail |-> 2, ok |-> TRUE]
Two     == [full |-> 2, tail |-> 0, ok |-> TRUE]
Rest    == [full |-> 0, tail |-> 1, ok |-> TRUE]
Empty   == [full |-> 0, tail |-> 0, ok |-> TRUE]
Sixteen == [full |-> 15, tail |-> 1, ok |-> TRUE]

\* What stands in them; the end of a block of three cuts the pair CR LF in two.
Plain  == <<49, 50, 51>>
Broken == <<65, 66, CR, LF, 67>>

\* f and g are read, o is written.
MCFiles    == {"f", "g", "o"}
MCExists   == {"f", "g"}
MCWritable == {"o"}
MCFileSrc  == [x \in MCFiles |-> IF x = "f" THEN Two ELSE IF x = "g" THEN Sixteen ELSE Empty]
MCText     == [s \in MCFiles \cup Clients |-> IF s = "b" THEN Broken ELSE Plain]

AllOctet  == [c \in Clients |-> "octet"]
AllWrite  == [c \in Clients |-> "write"]
ToO       == [c \in Clients |-> "o"]
ShortIn   == [c \in Clients |-> Short]
RestIn    == [c \in Clients |-> Rest]

\* Clients a and b.
AReadsBWrites == [c \in Clients |-> IF c = "a" THEN "read" ELSE "write"]
FandO         == [c \in Clients |-> IF c = "a" THEN "f" ELSE "o"]
GandO         == [c \in Clients |-> IF c = "a" THEN "g" ELSE "o"]
BNetAscii     == [c \in Clients |-> IF c = "a" THEN "octet" ELSE "netascii"]
ShortLonger   == [c \in Clients |-> IF c = "a" THEN Short ELSE Longer]
ShortEmptyIn  == [c \in Clients |-> IF c = "a" THEN Short ELSE Empty]
=============================================================================
