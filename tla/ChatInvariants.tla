-------------------------- MODULE ChatInvariants --------------------------
(* The invariants of Chat that its proofs need: who is known to the server *)
(* by which of its vectors, and where in the conversation everybody is.    *)
EXTENDS Chat, FiniteSets

Waits(c)   == \E n \in DOMAIN backlog : backlog[n] = c
Serves(c)  == \E n \in DOMAIN socks : socks[n] = c

---------------------------------------------------------------------------
(* The vectors.                                                            *)

Parallel == /\ Len(socks) = Len(wraps) /\ Len(fds) = Len(socks) + 1
            /\ fds[1].fd = Listening
            /\ \A n \in DOMAIN socks : wraps[n].sock = socks[n] /\ fds[n + 1].fd = socks[n]

\* A connection is in one place, once: it waits to be accepted or is in the vectors.
Once == /\ \A m, n \in DOMAIN socks : socks[m] = socks[n] => m = n
        /\ \A m, n \in DOMAIN backlog : backlog[m] = backlog[n] => m = n
        /\ \A c \in Clients : /\ ~(Waits(c) /\ Serves(c))
                              /\ conn[c] = "open" => Waits(c) \/ Serves(c)

\* A client that has not started has no connection.
NotYet == \A c \in Clients : /\ conn[c] = "none" <=> cli[c].pc = "off"
                             /\ conn[c] = "none" => ~Waits(c) /\ ~Serves(c)

\* The loop reads from a client, and accepts what waits: poll has said so, and the
\* entry of the acceptor is the first.
Place == /\ Reading => srv.i \in DOMAIN fds /\ srv.i # 1
         /\ srv.i >= 1
         /\ srv.pc = "loop" /\ srv.i = 1 /\ fds[1].in => backlog # <<>>

VectorInv == Parallel /\ Once /\ NotYet /\ Place

---------------------------------------------------------------------------
(* The conversation.                                                       *)

\* Something is written while a message is being sent on, or the history; a length
\* is remembered while a message is read.
Idle == /\ srv.pc \in {"poll", "loop", "read", "spins"} => srv.writes = <<>> /\ srv.msg = NoMessage
        /\ srv.half => srv.pc \in {"read", "spins", "dead"}

\* A client that has not been accepted has been sent nothing.
New == \A c \in Clients : cli[c].pc = "off" \/ Waits(c) =>
           /\ cli[c].shown = <<>> /\ ~cli[c].half /\ cli[c].buf = <<>> /\ down[c] = <<>>

\* Whoever is written to is in the vectors.
Addressed == \A n \in DOMAIN srv.writes : Serves(srv.writes[n].to)

\* What a client has shown, has in its buffer, and is on its way to it, are pieces of
\* the conversation in order.
Nth(k)      == Serial(Said)[k]
Received(c) == Read(c) + Len(cli[c].buf)
Sent(c)     == Received(c) + Len(down[c])
Ordered(c) ==
    /\ Sent(c) <= 2 * Len(Said)
    /\ \A k \in DOMAIN cli[c].shown : cli[c].shown[k] = Said[k]
    /\ \A k \in DOMAIN cli[c].buf : cli[c].buf[k] = Nth(Read(c) + k)
    /\ \A k \in DOMAIN down[c] : down[c][k] = Nth(Received(c) + k)
InOrder == \A c \in Clients : Ordered(c)

\* What is yet to be sent to a client that is connected is the end of it.
Rest(c, from, to) ==
    /\ Coming(c) = from .. to
    /\ Sent(c) + (to - from + 1) = 2 * Len(Said)
    /\ \A k \in from .. to : srv.writes[k].piece = Nth(2 * Len(Said) - (to - k))
ToBeSent(c) == \E from \in 1 .. Len(srv.writes) + 1, to \in 0 .. Len(srv.writes) : Rest(c, from, to)
Complete == Alive => \A c \in Clients : Serves(c) /\ conn[c] = "open" => ToBeSent(c)

ConversationInv == Idle /\ New /\ Addressed /\ InOrder /\ Complete

---------------------------------------------------------------------------
(* What the clients say.                                                   *)

\* The pieces of client c, in the order in which it writes them.
PieceOf(c, n) == [msg |-> [author |-> c, line |-> (n + 1) \div 2], part |-> IF n % 2 = 1 THEN 1 ELSE 2]

SaidBy(c) == {k \in DOMAIN Said : Said[k].author = c}
\* The pieces of client c that the server has taken out of its buffer.
Taken(c) == 2 * Cardinality(SaidBy(c)) + (IF srv.half /\ Source = c THEN 1 ELSE 0)
Typed(c) == 2 * (cli[c].line - 1) + cli[c].part - 1

\* What is in the server's buffer, and on its way to it, are those that follow.
Spoken(c, buf) ==
    /\ \A k \in DOMAIN buf : buf[k] = PieceOf(c, Taken(c) + k)
    /\ \A k \in DOMAIN up[c] : up[c][k] = PieceOf(c, Taken(c) + Len(buf) + k)
    /\ Typed(c) = Taken(c) + Len(buf) + Len(up[c])
SpeechInv == \A c \in Clients :
    /\ \A n \in DOMAIN wraps : wraps[n].sock = c => Spoken(c, wraps[n].buf)
    /\ cli[c].pc = "off" \/ Waits(c) => SaidBy(c) = {} /\ Spoken(c, <<>>)
=============================================================================
