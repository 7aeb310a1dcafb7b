-------------------------------- MODULE Chat --------------------------------
(***************************************************************************)
(* The chat of tcp/: TServer::TImpl::Run, one thread over blocking         *)
(* sockets, and the clients of apps/Client.cpp, one TClient each.          *)
(*                                                                         *)
(* A message crosses a connection in two pieces: the line with its length, *)
(* by which ReadMessage tells the end of a connection, and the rest.  A    *)
(* client connects once, so that it stands for its file descriptor too.    *)
(***************************************************************************)
EXTENDS Integers, Sequences

CONSTANTS Clients,
          Lines,     \* Lines[c]: how many lines are typed into client c
          UpCap,     \* pieces that the kernel holds for a connection, to the server
          DownCap,   \* and from it
          MaxRead,   \* pieces that a read of BufSize - 1 bytes may return
          Quitters,  \* clients whose standard input ends at some time
          Killed     \* clients that a signal may end at any time

ASSUME SizesAssumption == /\ Lines \in [Clients -> Nat]
                          /\ UpCap \in Nat \ {0} /\ DownCap \in Nat \ {0} /\ MaxRead \in Nat \ {0}
ASSUME EndsAssumption == Quitters \subseteq Clients /\ Killed \subseteq Clients

Listening == "listening"   \* AcceptinngSocketFD_
ASSUME ListeningAssumption == Listening \notin Clients

VARIABLES conn,      \* conn[c]: the connection, as the server's kernel sees it
          backlog,   \* the connections that wait to be accepted
          up, down,  \* up[c], down[c]: the pieces on their way to and from the server
          cli,       \* cli[c]: what client c is about
          fds,       \* pollFDs_
          socks,     \* clientSockets_: the clients whose sockets they are
          wraps,     \* clientWrappers_: the Socket_ and Buffer_ of each
          history,   \* Messages_
          srv        \* where Run is, and its locals

vars == <<conn, backlog, up, down, cli, fds, socks, wraps, history, srv>>

Messages == [author : Clients, line : Nat \ {0}]
Pieces   == [msg : Messages, part : 1 .. 2]
NoMessage == [author |-> Listening, line |-> 0]

\* TMessage::Serialize, for a whole sequence of messages.
Serial(msgs) == [n \in 1 .. 2 * Len(msgs) |->
                    [msg |-> msgs[(n + 1) \div 2], part |-> IF n % 2 = 1 THEN 1 ELSE 2]]

\* fin: the client has closed and its FIN has come; broken: and then an RST,
\* for something was written to it; reset: an RST came straight away, for the
\* client closed with unread data.
ConnStates == {"none", "open", "fin", "broken", "reset"}
ClientStates == [pc    : {"off", "poll", "send", "recv", "gone", "spins"},
                 line  : Nat \ {0},      \* the next line of standard input
                 part  : 1 .. 2,         \* the next piece of it to be written
                 buf   : Seq(Pieces),    \* NetSocket_'s Buffer_
                 half  : BOOLEAN,        \* ReadMessage has the length
                 shown : Seq(Messages)]  \* what was written to Out_
Sends == [to : Clients, piece : Pieces]
ServerStates == [pc     : {"poll", "loop", "read", "write", "spins", "dead"},
                 i      : Nat,           \* the loop's index, from 1
                 half   : BOOLEAN,       \* ReadMessage has the length
                 msg    : Messages \cup {NoMessage},              \* message
                 writes : Seq(Sends)]                             \* yet to be written

PollFds  == [fd : Clients \cup {Listening}, in : BOOLEAN]
Wrappers == [sock : Clients, buf : Seq(Pieces)]

TypeOK == /\ conn \in [Clients -> ConnStates]
          /\ backlog \in Seq(Clients)
          /\ up \in [Clients -> Seq(Pieces)]
          /\ down \in [Clients -> Seq(Pieces)]
          /\ cli \in [Clients -> ClientStates]
          /\ fds \in Seq(PollFds)
          /\ socks \in Seq(Clients)
          /\ wraps \in Seq(Wrappers)
          /\ history \in Seq(Messages)
          /\ srv \in ServerStates

Init == /\ conn = [c \in Clients |-> "none"]
        /\ backlog = <<>>
        /\ up = [c \in Clients |-> <<>>] /\ down = [c \in Clients |-> <<>>]
        /\ cli = [c \in Clients |-> [pc |-> "off", line |-> 1, part |-> 1, buf |-> <<>>,
                                     half |-> FALSE, shown |-> <<>>]]
        /\ fds = <<[fd |-> Listening, in |-> FALSE]>>
        /\ socks = <<>> /\ wraps = <<>> /\ history = <<>>
        /\ srv = [pc |-> "poll", i |-> 1, half |-> FALSE, msg |-> NoMessage, writes |-> <<>>]

server == <<fds, socks, wraps, history, srv>>

Alive    == srv.pc # "dead"
Upto(n)  == 1 .. (IF n < MaxRead THEN n ELSE MaxRead)
Drop(s, k) == SubSeq(s, k + 1, Len(s))

---------------------------------------------------------------------------
(* The clients: the loop of apps/Client.cpp over OnServerRead, OnStdinRead. *)

Connect(c) ==
    /\ cli[c].pc = "off" /\ Alive
    /\ conn' = [conn EXCEPT ![c] = "open"]
    /\ backlog' = Append(backlog, c)
    /\ cli' = [cli EXCEPT ![c].pc = "poll"]
    /\ UNCHANGED <<up, down, server>>

\* OnStdinRead, called by the loop.
Stdin(c) ==
    /\ cli[c].pc = "poll" /\ cli[c].line <= Lines[c]
    /\ cli' = [cli EXCEPT ![c].pc = "send"]
    /\ UNCHANGED <<conn, backlog, up, down, server>>

\* Mutant of ClientWrite: the place in the message is not reset.
ClientWriteNoReset(c, cached) ==
    /\ cli[c].pc = "send" /\ Alive /\ Len(up[c]) < UpCap
    /\ up' = [up EXCEPT ![c] = Append(@, [msg |-> [author |-> c, line |-> cli[c].line],
                                          part |-> cli[c].part])]
    /\ cached => cli[c].part = 2 /\ cli[c].line < Lines[c]
    /\ cli' = [cli EXCEPT ![c].part = @ + 1,
                          ![c].line = IF cli[c].part = 2 THEN @ + 1 ELSE @,
                          ![c].pc = IF cli[c].part = 1 \/ cached THEN "send" ELSE "poll"]
    /\ UNCHANGED <<conn, backlog, down, server>>

\* Serialize blocks when the connection is full.  After the last piece
\* HasCachedInput says whether the next line came with the same read.
ClientWrite(c, cached) ==
    /\ cli[c].pc = "send" /\ Alive /\ Len(up[c]) < UpCap
    /\ up' = [up EXCEPT ![c] = Append(@, [msg |-> [author |-> c, line |-> cli[c].line],
                                          part |-> cli[c].part])]
    /\ cached => cli[c].part = 2 /\ cli[c].line < Lines[c]
    /\ cli' = [cli EXCEPT ![c].part = 3 - @,
                          ![c].line = IF cli[c].part = 2 THEN @ + 1 ELSE @,
                          ![c].pc = IF cli[c].part = 1 \/ cached THEN "send" ELSE "poll"]
    /\ UNCHANGED <<conn, backlog, down, server>>

\* ReadBuf of NetSocket_.
ClientReadBuf(c, k) ==
    /\ cli[c].pc \in {"poll", "recv"} /\ cli[c].buf = <<>>
    /\ k \in Upto(Len(down[c]))
    /\ cli' = [cli EXCEPT ![c].pc = "recv", ![c].buf = SubSeq(down[c], 1, k)]
    /\ down' = [down EXCEPT ![c] = Drop(@, k)]
    /\ UNCHANGED <<conn, backlog, up, server>>

\* OnServerRead goes on while HasCachedInput.
ClientTake(c) ==
    /\ cli[c].pc = "recv" /\ cli[c].buf # <<>>
    /\ LET piece == Head(cli[c].buf)
       IN  cli' = [cli EXCEPT ![c].buf = Tail(@),
                              ![c].half = piece.part = 1,
                              ![c].shown = IF piece.part = 2 THEN Append(@, piece.msg) ELSE @,
                              ![c].pc = IF piece.part = 2 /\ Len(cli[c].buf) = 1 THEN "poll" ELSE @]
    /\ UNCHANGED <<conn, backlog, up, down, server>>

\* The server has died: an empty first line, or ReadN without end.
ClientEof(c) ==
    /\ ~Alive /\ cli[c].pc \in {"poll", "recv"}
    /\ cli[c].buf = <<>> /\ down[c] = <<>>
    /\ cli' = [cli EXCEPT ![c].pc = IF cli[c].half THEN "spins" ELSE "gone"]
    /\ UNCHANGED <<conn, backlog, up, down, server>>

\* SIGPIPE.
ClientPipe(c) ==
    /\ ~Alive /\ cli[c].pc = "send"
    /\ cli' = [cli EXCEPT ![c].pc = "gone"]
    /\ UNCHANGED <<conn, backlog, up, down, server>>

\* The process ends, its kernel closes the connection.
Closed(c) == /\ cli' = [cli EXCEPT ![c].pc = "gone"]
             /\ conn' = [conn EXCEPT ![c] = IF down[c] = <<>> THEN "fin" ELSE "reset"]
             /\ down' = [down EXCEPT ![c] = <<>>]
             /\ UNCHANGED <<backlog, up, server>>

\* An empty line, or the end of standard input.
Quit(c) == /\ c \in Quitters /\ cli[c].pc = "poll" /\ cli[c].line > Lines[c] /\ Alive
           /\ Closed(c)

Kill(c) == /\ c \in Killed /\ cli[c].pc \in {"poll", "send", "recv"} /\ Alive
           /\ Closed(c)

---------------------------------------------------------------------------
(* The server: TServer::TImpl::Run.                                        *)

Network == <<conn, backlog, up, down, cli>>

Readable(fd) == IF fd = Listening THEN backlog # <<>> ELSE up[fd] # <<>> \/ conn[fd] # "open"

Poll ==
    /\ srv.pc = "poll" /\ \E n \in DOMAIN fds : Readable(fds[n].fd)
    /\ fds' = [n \in DOMAIN fds |-> [fds[n] EXCEPT !.in = Readable(fds[n].fd)]]
    /\ srv' = [srv EXCEPT !.pc = "loop", !.i = 1]
    /\ UNCHANGED <<Network, socks, wraps, history>>

EndLoop == /\ srv.pc = "loop" /\ srv.i > Len(fds)
           /\ srv' = [srv EXCEPT !.pc = "poll", !.i = 1]
           /\ UNCHANGED <<Network, fds, socks, wraps, history>>

At(n) == srv.pc = "loop" /\ srv.i = n /\ n \in DOMAIN fds
Skip == /\ At(srv.i) /\ ~fds[srv.i].in
        /\ srv' = [srv EXCEPT !.i = @ + 1]
        /\ UNCHANGED <<Network, fds, socks, wraps, history>>

WritesTo(c, msgs) == [n \in 1 .. 2 * Len(msgs) |-> [to |-> c, piece |-> Serial(msgs)[n]]]

\* The new client is sent what has been said so far.
AcceptClient ==
    /\ At(srv.i) /\ fds[srv.i].in /\ fds[srv.i].fd = Listening
    /\ LET c == Head(backlog)
       IN  /\ fds' = Append(fds, [fd |-> c, in |-> FALSE])
           /\ socks' = Append(socks, c)
           /\ wraps' = Append(wraps, [sock |-> c, buf |-> <<>>])
           /\ srv' = [srv EXCEPT !.pc = "write", !.writes = WritesTo(c, history)]
    /\ backlog' = Tail(backlog)
    /\ UNCHANGED <<conn, up, down, cli, history>>

AcceptMessage ==
    /\ At(srv.i) /\ fds[srv.i].in /\ fds[srv.i].fd # Listening
    /\ srv' = [srv EXCEPT !.pc = "read"]
    /\ UNCHANGED <<Network, fds, socks, wraps, history>>

\* ReadMessage(clientWrappers_[sockId]).
SockId == srv.i - 1
Reading == srv.pc = "read"
Source == wraps[SockId].sock

ReadBuf(k) ==
    /\ Reading /\ wraps[SockId].buf = <<>>
    /\ k \in Upto(Len(up[Source]))
    /\ wraps' = [wraps EXCEPT ![SockId].buf = SubSeq(up[Source], 1, k)]
    /\ up' = [up EXCEPT ![Source] = Drop(@, k)]
    /\ UNCHANGED <<conn, backlog, down, cli, fds, socks, history, srv>>

TakeLength ==
    /\ Reading /\ wraps[SockId].buf # <<>> /\ ~srv.half
    /\ wraps' = [wraps EXCEPT ![SockId].buf = Tail(@)]
    /\ srv' = [srv EXCEPT !.half = TRUE]
    /\ UNCHANGED <<Network, fds, socks, history>>

\* Mutant of Broadcast: the author's own client is left out, it has the line already.
BroadcastToOthers(m) ==
    LET others == SelectSeq(wraps, LAMBDA w : w.sock # m.author)
    IN  [n \in 1 .. 2 * Len(others) |->
            [to    |-> others[(n + 1) \div 2].sock,
             piece |-> [msg |-> m, part |-> IF n % 2 = 1 THEN 1 ELSE 2]]]

\* The message, to everybody in the order of clientWrappers_.
Broadcast(m) == [n \in 1 .. 2 * Len(wraps) |->
                    [to    |-> wraps[(n + 1) \div 2].sock,
                     piece |-> [msg |-> m, part |-> IF n % 2 = 1 THEN 1 ELSE 2]]]

\* Mutant of TakeRest: what is left in the buffer is dropped with the message.
TakeRestClears ==
    /\ Reading /\ wraps[SockId].buf # <<>> /\ srv.half
    /\ LET m == Head(wraps[SockId].buf).msg
       IN  srv' = [srv EXCEPT !.pc = "write", !.half = FALSE, !.msg = m, !.writes = Broadcast(m)]
    /\ wraps' = [wraps EXCEPT ![SockId].buf = <<>>]
    /\ UNCHANGED <<Network, fds, socks, history>>

TakeRest ==
    /\ Reading /\ wraps[SockId].buf # <<>> /\ srv.half
    /\ LET m == Head(wraps[SockId].buf).msg
       IN  srv' = [srv EXCEPT !.pc = "write", !.half = FALSE, !.msg = m, !.writes = Broadcast(m)]
    /\ wraps' = [wraps EXCEPT ![SockId].buf = Tail(@)]
    /\ UNCHANGED <<Network, fds, socks, history>>

\* read returns 0 or an error.
AtEnd == Reading /\ wraps[SockId].buf = <<>> /\ up[Source] = <<>> /\ conn[Source] # "open"

PopOnly(s, n) == SubSeq(s, 1, Len(s) - 1)   \* mutant of SwapPop: no swap

\* std::swap with back(), pop_back().
SwapPop(s, n) == SubSeq([s EXCEPT ![n] = s[Len(s)]], 1, Len(s) - 1)

\* Mutant of Bye: pollFDs_ is popped without the swap.
ByeFdsPopped ==
    /\ AtEnd /\ conn[Source] # "reset" /\ ~srv.half
    /\ wraps' = SwapPop(wraps, SockId)
    /\ socks' = SwapPop(socks, SockId)
    /\ fds' = PopOnly(fds, srv.i)
    /\ srv' = [srv EXCEPT !.pc = "loop", !.i = @ + 1]
    /\ UNCHANGED <<Network, history>>

\* Mutant of Bye: the socket itself is kept.
ByeSocketKept ==
    /\ AtEnd /\ conn[Source] # "reset" /\ ~srv.half
    /\ wraps' = SwapPop(wraps, SockId)
    /\ fds' = SwapPop(fds, srv.i)
    /\ srv' = [srv EXCEPT !.pc = "loop", !.i = @ + 1]
    /\ UNCHANGED <<Network, socks, history>>

\* "Bye!"
Bye ==
    /\ AtEnd /\ conn[Source] # "reset" /\ ~srv.half
    /\ wraps' = SwapPop(wraps, SockId)
    /\ socks' = SwapPop(socks, SockId)
    /\ fds' = SwapPop(fds, srv.i)
    /\ srv' = [srv EXCEPT !.pc = "loop", !.i = @ + 1]
    /\ UNCHANGED <<Network, history>>

\* ReadN: "while (n > 0)", and read returns 0 for ever.
Spin == /\ AtEnd /\ conn[Source] # "reset" /\ srv.half
        /\ srv' = [srv EXCEPT !.pc = "spins"]
        /\ UNCHANGED <<Network, fds, socks, wraps, history>>

\* read returns -1: Buffer_.resize(-1) throws, and main returns.
ReadError == /\ AtEnd /\ conn[Source] = "reset"
             /\ srv' = [srv EXCEPT !.pc = "dead"]
             /\ UNCHANGED <<Network, fds, socks, wraps, history>>

\* One piece; a full connection blocks.  A client that has closed may answer
\* with an RST.
Write ==
    /\ srv.pc = "write" /\ srv.writes # <<>>
    /\ LET c == Head(srv.writes).to
       IN  /\ \/ /\ conn[c] = "open" /\ Len(down[c]) < DownCap
                 /\ down' = [down EXCEPT ![c] = Append(@, Head(srv.writes).piece)]
                 /\ conn' = conn
              \/ /\ conn[c] = "fin" /\ down' = down
                 /\ conn' \in {conn, [conn EXCEPT ![c] = "broken"]}
    /\ srv' = [srv EXCEPT !.writes = Tail(@)]
    /\ UNCHANGED <<backlog, up, cli, fds, socks, wraps, history>>

\* SIGPIPE.
WritePipe == /\ srv.pc = "write" /\ srv.writes # <<>>
             /\ conn[Head(srv.writes).to] \in {"broken", "reset"}
             /\ srv' = [srv EXCEPT !.pc = "dead"]
             /\ UNCHANGED <<Network, fds, socks, wraps, history>>

\* AcceptClient or AcceptMessage returns; the latter adds the message.  Mutant: it is
\* put in front of the others.
WrittenInFront ==
    /\ srv.pc = "write" /\ srv.writes = <<>>
    /\ history' = IF srv.msg = NoMessage THEN history ELSE <<srv.msg>> \o history
    /\ srv' = [srv EXCEPT !.pc = "loop", !.i = @ + 1, !.msg = NoMessage]
    /\ UNCHANGED <<Network, fds, socks, wraps>>
Written ==
    /\ srv.pc = "write" /\ srv.writes = <<>>
    /\ history' = IF srv.msg = NoMessage THEN history ELSE Append(history, srv.msg)
    /\ srv' = [srv EXCEPT !.pc = "loop", !.i = @ + 1, !.msg = NoMessage]
    /\ UNCHANGED <<Network, fds, socks, wraps>>

---------------------------------------------------------------------------
ClientNext(c) ==
    \/ Connect(c)
    \/ Stdin(c)
    \/ \E cached \in BOOLEAN : ClientWrite(c, cached)
    \/ \E k \in 1 .. MaxRead : ClientReadBuf(c, k)
    \/ ClientTake(c)
    \/ ClientEof(c)
    \/ ClientPipe(c)

ServerNext ==
    \/ Poll \/ EndLoop \/ Skip \/ AcceptClient \/ AcceptMessage
    \/ \E k \in 1 .. MaxRead : ReadBuf(k)
    \/ TakeLength \/ TakeRest
    \/ Bye \/ Spin \/ ReadError
    \/ Write \/ WritePipe \/ Written

Ends == \E c \in Clients : Quit(c) \/ Kill(c)

Next == ServerNext \/ Ends \/ \E c \in Clients : ClientNext(c)

Spec == Init /\ [][Next]_vars

\* The programs go on while any of them can; which of them is left open, and a program is
\* overlooked only while others have something to do, of which there is an end.  Nobody
\* has to quit, or to be killed.
Fairness == WF_vars(ServerNext \/ \E c \in Clients : ClientNext(c))

FairSpec == Spec /\ Fairness

---------------------------------------------------------------------------
(* Properties.                                                             *)

\* The three vectors belong together after any number of clients have come and
\* gone: entry i of pollFDs_ is about entry i - 1 of the two others.  Whoever is
\* connected is in them once, or waits to be accepted.
Aligned ==
    /\ Len(socks) = Len(wraps) /\ Len(fds) = Len(socks) + 1
    /\ fds[1].fd = Listening
    /\ \A n \in DOMAIN socks : wraps[n].sock = socks[n] /\ fds[n + 1].fd = socks[n]
    /\ \A m, n \in DOMAIN socks : socks[m] = socks[n] => m = n
    /\ \A c \in Clients : conn[c] = "open" =>
           (\E n \in DOMAIN socks : socks[n] = c) # (\E n \in DOMAIN backlog : backlog[n] = c)
    /\ Reading => SockId \in DOMAIN wraps

\* The history, with the message that is being broadcast.
Said == IF srv.msg = NoMessage THEN history ELSE Append(history, srv.msg)
Log  == INSTANCE ChatLog WITH Members <- Clients, log <- Said, heard <- [c \in Clients |-> cli[c].shown]

\* The chat is one log that everybody adds to and reads in order: a message is said
\* when the broadcast begins, for good, and shown after those before it, whatever
\* pieces it comes in and whoever leaves.
SaidAndHeard == Log!Spec

\* What is yet to be written to client c is in one piece: from .. to.
Coming(c) == {n \in DOMAIN srv.writes : srv.writes[n].to = c}
Writes(from, to) == [k \in 1 .. to - from + 1 |-> srv.writes[from + k - 1].piece]
Read(c) == 2 * Len(cli[c].shown) + (IF cli[c].half THEN 1 ELSE 0)

\* Everybody reads the same conversation from its first message on, whenever they
\* came: what a client has shown and what it has not read yet, of what it is sent or
\* is yet to be sent, are together the history so far, with the message that is being
\* broadcast.
SameConversation ==
    Alive => \A n \in DOMAIN socks : LET c == socks[n] IN
        conn[c] = "open" =>
            /\ Len(Serial(Said)) >= Read(c)
            /\ SubSeq(Serial(Said), 1, 2 * Len(cli[c].shown)) = Serial(cli[c].shown)
            /\ \E from \in 1 .. Len(srv.writes) + 1, to \in 0 .. Len(srv.writes) :
                   /\ Coming(c) = from .. to
                   /\ Drop(Serial(Said), Read(c)) = cli[c].buf \o down[c] \o Writes(from, to)

\* The server writes to a client that does not read, for it writes to the server.
MutualWait == \E c \in Clients :
    /\ cli[c].pc = "send" /\ Len(up[c]) = UpCap
    /\ srv.pc = "write" /\ srv.writes # <<>> /\ Head(srv.writes).to = c /\ Len(down[c]) = DownCap

\* A client that has left is forgotten, unless that ends the server or leaves it reading
\* for ever, or the server waits for another client.
Forgotten ==
    <>[](\A c \in Clients : conn[c] \in {"fin", "broken"} =>
             \/ srv.pc \in {"dead", "spins"} \/ MutualWait
             \/ \A n \in DOMAIN socks : socks[n] # c)

\* All that has arrived from client c is in the buffer of its wrapper, which poll does
\* not see.
Kept(c) == /\ srv.pc = "poll" /\ up[c] = <<>>
           /\ \E n \in DOMAIN wraps : wraps[n].sock = c /\ wraps[n].buf # <<>>

\* Whatever one of two clients who stay types, the other gets to read, although others
\* leave and the loop passes over who is moved to their places.  Three things keep it
\* back, and nothing else does: that the server has ended, or reads what no longer
\* comes; that it and a client wait for each other; and that one read returned more
\* than one message of the author, the later of which the server then keeps in its
\* buffer (as SentOnAsTheyArrive is violated for).
Shown ==
    <>[](\A c, d \in Clients : \A k \in 1 .. Lines[c] :
            \/ \E n \in DOMAIN cli[d].shown : cli[d].shown[n] = [author |-> c, line |-> k]
            \/ cli[c].pc = "gone" \/ cli[d].pc = "gone"
            \/ srv.pc \in {"dead", "spins"} \/ MutualWait \/ Kept(c))

\* tcp/README.md:43: the messages are sent on as they arrive at the
\* server, so that one that is in a buffer of the server gets into the history.
SentOnAsTheyArrive ==
    \A c \in Clients : \A k \in 1 .. Lines[c] :
        LET m == [author |-> c, line |-> k]
        IN  (\E n \in DOMAIN wraps : \E j \in DOMAIN wraps[n].buf : wraps[n].buf[j] = [msg |-> m, part |-> 2])
            ~> (\E n \in DOMAIN history : history[n] = m)
=============================================================================
