----------------------------- MODULE TftpText -----------------------------
(***************************************************************************)
(* Texts and their netascii encoding: ToNetASCII and FromNetASCII of       *)
(* udp/lib/Packet.cpp.                                                     *)
(***************************************************************************)
EXTENDS Integers, SequencesExt

Byte == 0 .. 255
NUL == 0
LF  == 10
CR  == 13

Encoded(c) == CASE c = LF -> <<CR, LF>>
                [] c = CR -> <<CR, NUL>>
                [] c \notin {CR, LF} -> <<c>>
ToNetASCII(s) == FlattenSeq([k \in DOMAIN s |-> Encoded(s[k])])

\* FromNetASCII: CR LF is taken for LF and CR NUL for CR, and the second of the two is
\* passed over; the last character is taken as it is.  Mutant: CR NUL is kept.
PairLF(s, k) == k \in 1 .. Len(s) - 1 /\ s[k] = CR /\ s[k + 1] = LF
Pair(s, k)   == k \in 1 .. Len(s) - 1 /\ s[k] = CR /\ s[k + 1] \in {LF, NUL}
Taken(s, k)  == IF Pair(s, k - 1) THEN <<>>
                ELSE <<IF Pair(s, k) /\ s[k + 1] = LF THEN LF ELSE s[k]>>
FromNetASCII(s) == FlattenSeq([k \in DOMAIN s |-> Taken(s, k)])
=============================================================================
