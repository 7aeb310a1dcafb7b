------------------------------- MODULE Proxy -------------------------------
(***************************************************************************)
(* The HTTP proxy of individual/: TServer, its list of TSessions, and the  *)
(* boost::asio::io_context whose one thread runs all their handlers.       *)
(*                                                                         *)
(* An asynchronous operation waits (pend) until the environment lets it    *)
(* complete; then its handler and its error code are queued (ready), and   *)
(* the handlers run in that order, one at a time.  To close a socket       *)
(* queues the handler of the operation that waits on it; one that is       *)
(* queued already keeps its error code.                                    *)
(*                                                                         *)
(* A client asks once, and stands for its session.  Requests and responses *)
(* arrive in Parts pieces; the parsers are in HttpMessage.                 *)
(***************************************************************************)
EXTENDS ProxyCache, FiniteSets, SequencesExt

CONSTANTS Clients,
          Url,       \* Url[c]: what client c asks for
          Gzip,      \* Gzip[c]: whether it accepts gzip
          Controls,  \* the Cache-Control headers that origins send
          Parts,     \* bound: reads that a request or a response takes
          MaxTime,   \* bound: seconds that pass
          Signals,   \* whether a signal may end the proxy
          Faulty     \* the clients whose peers may close early, or be unreachable

ASSUME ClientsAssumption == /\ Url \in [Clients -> Urls]
                            /\ Gzip \in [Clients -> BOOLEAN]
                            /\ Controls \subseteq Seq(Directives)
ASSUME BoundsAssumption == Parts \in Nat \ {0} /\ MaxTime \in Nat
ASSUME SwitchesAssumption == Signals \in BOOLEAN /\ Faulty \subseteq Clients

VARIABLES peer,      \* peer[c]: the client
          origin,    \* origin[c]: the server at the other end of ForeignSocket_
          sessions,  \* Sessions_: the clients whose sessions are in the list
          session,   \* session[c]: the TSession, as long as it is
          pend,      \* pend[c]: the operation of that session that waits
          server,    \* the operations of TServer, and how run has ended
          ready,     \* the handlers that io_context::run has to call
          saved,     \* Database_
          now        \* steady_clock

vars == <<peer, origin, sessions, session, pend, server, ready, saved, now>>
proxy == <<sessions, session, pend, server, ready, saved>>

Operations == {"readClient", "writeForeign", "readForeign", "writeClient"}
Codes == {"ok", "error", "aborted"}
Nobody == "nobody"

\* by, at: whose request brought the response, and when it was complete.
Responses == [by : Clients, at : 0 .. MaxTime, control : Seq(Directives), gzip : BOOLEAN]
NoResponse == [by |-> Nobody]

Peers == [pc : {"off", "queued", "accepted", "served", "gone"}, sent : 0 .. Parts]
Origins == [pc : {"idle", "asked", "answering", "closed"}, sent : 0 .. Parts, control : Seq(Directives)]
TSession == [request  : 0 .. Parts,                      \* read of the request
             response : 0 .. Parts,                      \* and of the response
             reply    : Responses \cup {NoResponse},     \* Response_
             madeAt   : 0 .. MaxTime]                    \* when that was set
Handlers == [op : Operations \cup {"accept", "signal"}, c : Clients \cup {Nobody}, ec : Codes]
Ends == {"running", "returned", "threw", "undefined"}

TypeOK == /\ peer \in [Clients -> Peers]
          /\ origin \in [Clients -> Origins]
          /\ sessions \in Seq(Clients)
          /\ session \in [Clients -> TSession]
          /\ pend \in [Clients -> Operations \cup {"none"}]
          /\ server \in [accepting : BOOLEAN, open : BOOLEAN, signal : BOOLEAN, end : Ends]
          /\ ready \in Seq(Handlers)
          /\ DOMAIN saved = Urls
          /\ now \in 0 .. MaxTime

Init == /\ peer = [c \in Clients |-> [pc |-> "off", sent |-> 0]]
        /\ origin = [c \in Clients |-> [pc |-> "idle", sent |-> 0, control |-> <<>>]]
        /\ sessions = <<>>
        /\ session = [c \in Clients |-> [request |-> 0, response |-> 0,
                                         reply |-> NoResponse, madeAt |-> 0]]
        /\ pend = [c \in Clients |-> "none"]
        /\ server = [accepting |-> TRUE, open |-> TRUE, signal |-> TRUE, end |-> "running"]
        /\ ready = <<>>
        /\ saved = [u \in Urls |-> NoEntry]
        /\ now = 0

Running == server.end = "running"
Live(c) == \E n \in DOMAIN sessions : sessions[n] = c
Handler(op, c, ec) == [op |-> op, c |-> c, ec |-> ec]

---------------------------------------------------------------------------
(* The environment.                                                        *)

Connect(c) == /\ peer[c].pc = "off" /\ server.open
              /\ peer' = [peer EXCEPT ![c].pc = "queued"]
              /\ UNCHANGED <<origin, now, proxy>>

SendRequest(c) == /\ peer[c].pc \in {"queued", "accepted"} /\ peer[c].sent < Parts
                  /\ peer' = [peer EXCEPT ![c].sent = @ + 1]
                  /\ UNCHANGED <<origin, now, proxy>>

Leave(c) == /\ c \in Faulty /\ peer[c].pc = "accepted"
            /\ peer' = [peer EXCEPT ![c].pc = "gone"]
            /\ UNCHANGED <<origin, now, proxy>>

\* The origin never sees an Accept-Encoding, so that it does not compress.
Answer(c) == /\ origin[c].pc = "asked"
             /\ \E control \in Controls :
                    origin' = [origin EXCEPT ![c] = [pc |-> "answering", sent |-> 1, control |-> control]]
             /\ UNCHANGED <<peer, now, proxy>>

AnswerMore(c) == /\ origin[c].pc = "answering" /\ origin[c].sent < Parts
                 /\ origin' = [origin EXCEPT ![c].sent = @ + 1]
                 /\ UNCHANGED <<peer, now, proxy>>

OriginCloses(c) == /\ c \in Faulty /\ origin[c].pc \in {"asked", "answering"}
                   /\ origin' = [origin EXCEPT ![c].pc = "closed"]
                   /\ UNCHANGED <<peer, now, proxy>>

Tick == /\ now < MaxTime /\ Running
        /\ now' = now + 1
        /\ UNCHANGED <<peer, origin, proxy>>

---------------------------------------------------------------------------
(* The operations complete.                                                *)

\* An operation of session c ends with ec; a read has filled the buffer.
Completes(c, op, ec) ==
    /\ Running /\ pend[c] = op
    /\ pend' = [pend EXCEPT ![c] = "none"]
    /\ ready' = Append(ready, Handler(op, c, ec))
    /\ UNCHANGED <<sessions, server, saved, now>>

ClientReadable(c) ==
    /\ IF peer[c].sent > session[c].request THEN Completes(c, "readClient", "ok")
       ELSE peer[c].pc = "gone" /\ Completes(c, "readClient", "error")
    /\ session' = [session EXCEPT ![c].request = peer[c].sent]
    /\ UNCHANGED <<peer, origin>>

ForeignWritten(c) ==
    /\ \/ /\ Completes(c, "writeForeign", "ok")
          /\ origin' = [origin EXCEPT ![c].pc = "asked"]
       \/ /\ c \in Faulty /\ Completes(c, "writeForeign", "error")
          /\ UNCHANGED origin
    /\ UNCHANGED <<peer, session>>

\* Mutant: what has come before is counted again.
ForeignReadableAgain(c) ==
    /\ origin[c].sent > session[c].response /\ Completes(c, "readForeign", "ok")
    /\ session' = [session EXCEPT ![c].response = @ + origin[c].sent]
    /\ UNCHANGED <<peer, origin>>
ForeignReadable(c) ==
    /\ IF origin[c].sent > session[c].response THEN Completes(c, "readForeign", "ok")
       ELSE origin[c].pc = "closed" /\ Completes(c, "readForeign", "error")
    /\ session' = [session EXCEPT ![c].response = origin[c].sent]
    /\ UNCHANGED <<peer, origin>>

\* What a client that has gone is sent may still be taken by the kernel.
ClientWritten(c) ==
    /\ \/ /\ Completes(c, "writeClient", "ok")
          /\ peer' = [peer EXCEPT ![c].pc = IF @ = "gone" THEN @ ELSE "served"]
       \/ /\ peer[c].pc = "gone" /\ Completes(c, "writeClient", "error")
          /\ UNCHANGED peer
    /\ UNCHANGED <<origin, session>>

Accepted(c) == /\ Running /\ server.accepting
               /\ peer[c].pc = "queued"
               /\ peer' = [peer EXCEPT ![c].pc = "accepted"]
               /\ server' = [server EXCEPT !.accepting = FALSE]
               /\ ready' = Append(ready, Handler("accept", c, "ok"))
               /\ UNCHANGED <<origin, sessions, session, pend, saved, now>>

\* accept fails: no descriptor is left, or the client has gone again.
AcceptFails == /\ Faulty # {} /\ Running /\ server.accepting
               /\ server' = [server EXCEPT !.accepting = FALSE]
               /\ ready' = Append(ready, Handler("accept", Nobody, "error"))
               /\ UNCHANGED <<peer, origin, sessions, session, pend, saved, now>>

Signalled == /\ Signals /\ Running /\ server.signal
             /\ server' = [server EXCEPT !.signal = FALSE]
             /\ ready' = Append(ready, Handler("signal", Nobody, "ok"))
             /\ UNCHANGED <<peer, origin, sessions, session, pend, saved, now>>

---------------------------------------------------------------------------
(* The handlers.                                                           *)

\* io_context::run calls the next one.
Calls(op, c, ec) ==
    /\ Running /\ ready # <<>> /\ Head(ready) = Handler(op, c, ec)
    /\ ready' = Tail(ready)
    /\ UNCHANGED <<peer, now>>

Throws(end) == server' = [server EXCEPT !.end = end]

\* TServer: AsyncAccept's handler, and Serve.  Mutant: is_open is not asked.
OnAcceptUnchecked(c) ==
    /\ Calls("accept", c, "ok")
    /\ sessions' = Append(sessions, c)
    /\ pend' = [pend EXCEPT ![c] = "readClient"]
    /\ server' = [server EXCEPT !.accepting = server.open]
    /\ UNCHANGED <<origin, session, saved>>
OnAccept(c) ==
    /\ Calls("accept", c, "ok") /\ server.open
    /\ sessions' = Append(sessions, c)
    /\ pend' = [pend EXCEPT ![c] = "readClient"]
    /\ server' = [server EXCEPT !.accepting = TRUE]
    /\ UNCHANGED <<origin, session, saved>>

OnAcceptError ==
    /\ Calls("accept", Nobody, "error") /\ server.open
    /\ server' = [server EXCEPT !.accepting = TRUE]
    /\ UNCHANGED <<origin, sessions, session, pend, saved>>

\* The acceptor has been closed.  Mutant: the next accept is asked for all the
\* same, and fails at once.
OnAcceptClosedAgain(c) ==
    /\ \E ec \in Codes : Running /\ ready # <<>> /\ Head(ready) = Handler("accept", c, ec)
    /\ ~server.open
    /\ ready' = Append(Tail(ready), Handler("accept", Nobody, "aborted"))
    /\ UNCHANGED <<peer, now, origin, sessions, session, pend, server, saved>>
OnAcceptClosed(c) ==
    /\ \E ec \in Codes : Calls("accept", c, ec)
    /\ ~server.open
    /\ UNCHANGED <<origin, sessions, session, pend, server, saved>>

\* TSession::Stop: the sockets are closed, the end callback erases the session.
\* No operation waits when a handler of the session calls it.
Stop(c) == \E n \in DOMAIN sessions : sessions[n] = c /\ sessions' = RemoveAt(sessions, n)

\* The handlers that do nothing when they are aborted.
OnAborted(c, op) ==
    /\ op \in Operations \ {"writeClient"}
    /\ Calls(op, c, "aborted")
    /\ UNCHANGED <<origin, sessions, session, pend, server, saved>>

\* Any other handler of a session that is not there any more.
OnFreed(c, op, ec) ==
    /\ op \in Operations /\ (op # "writeClient" => ec # "aborted")
    /\ Calls(op, c, ec) /\ ~Live(c)
    /\ Throws("undefined")
    /\ UNCHANGED <<origin, sessions, session, pend, saved>>

\* Mutant: the return after Stop is forgotten, and the handler goes on to read.
OnErrorGoesOn(c, op) ==
    /\ op \in {"readClient", "readForeign"}
    /\ Calls(op, c, "error") /\ Live(c)
    /\ Stop(c)
    /\ pend' = [pend EXCEPT ![c] = op]
    /\ UNCHANGED <<origin, session, server, saved>>
OnError(c, op) ==
    /\ op \in Operations \ {"writeClient"}
    /\ Calls(op, c, "error") /\ Live(c)
    /\ Stop(c)
    /\ UNCHANGED <<origin, session, pend, server, saved>>

\* ReadClient's handler: the request is not complete.  Mutant: it does not ask
\* for more.
AwaitRequestForgets(c) ==
    /\ Calls("readClient", c, "ok") /\ Live(c)
    /\ session[c].request < Parts
    /\ UNCHANGED <<origin, sessions, session, pend, server, saved>>
AwaitRequest(c) ==
    /\ Calls("readClient", c, "ok") /\ Live(c)
    /\ session[c].request < Parts
    /\ pend' = [pend EXCEPT ![c] = "readClient"]
    /\ UNCHANGED <<origin, sessions, session, server, saved>>

\* It is: WriteForeign.
ParsedRequest(c) == Calls("readClient", c, "ok") /\ Live(c) /\ session[c].request = Parts

Reply(c, response) == [session EXCEPT ![c].reply = [response EXCEPT !.gzip = @ \/ Gzip[c]],
                                      ![c].madeAt = now]

ServeCached(c) ==
    /\ ParsedRequest(c) /\ StillGood(saved, Url[c], now)
    /\ session' = Reply(c, saved[Url[c]].response)
    /\ pend' = [pend EXCEPT ![c] = "writeClient"]
    /\ UNCHANGED <<origin, sessions, server, saved>>

\* resolve and connect are synchronous, and throw when they fail.
WriteForeign(c) ==
    /\ ParsedRequest(c) /\ ~StillGood(saved, Url[c], now)
    /\ saved' = AfterServe(saved, Url[c], now)
    /\ \/ /\ pend' = [pend EXCEPT ![c] = "writeForeign"]
          /\ UNCHANGED server
       \/ /\ c \in Faulty /\ Throws("threw")
          /\ UNCHANGED pend
    /\ UNCHANGED <<origin, sessions, session>>

ReadForeign(c) ==
    /\ \/ Calls("writeForeign", c, "ok")
       \/ Calls("readForeign", c, "ok") /\ session[c].response < Parts
    /\ Live(c)
    /\ pend' = [pend EXCEPT ![c] = "readForeign"]
    /\ UNCHANGED <<origin, sessions, session, server, saved>>

\* ReadForeign's handler: the response is complete.  shutdown throws if the
\* connection has been reset, and CacheResponse when Response_ is set already.
ParsedResponse(c) ==
    /\ Calls("readForeign", c, "ok") /\ Live(c) /\ session[c].response = Parts
    /\ LET response == [by |-> c, at |-> now, control |-> origin[c].control, gzip |-> FALSE]
       IN  \/ /\ session' = Reply(c, response) /\ ~CacheThrows(response.control)
              /\ \E duration \in CacheDuration(response.control) :
                     saved' = AfterCache(saved, Url[c], response, duration, now)
              /\ pend' = [pend EXCEPT ![c] = "writeClient"]
              /\ UNCHANGED server
           \/ /\ session' = Reply(c, response) /\ CacheThrows(response.control)
              /\ Throws("threw")
              /\ UNCHANGED <<saved, pend>>
           \/ /\ origin[c].pc = "closed" /\ Throws("threw")
              /\ UNCHANGED <<session, saved, pend>>
    /\ UNCHANGED <<origin, sessions>>

\* WriteClient's handler stops the session in any case.
OnWritten(c, ec) ==
    /\ Calls("writeClient", c, ec) /\ Live(c)
    /\ \/ Stop(c) /\ UNCHANGED server
       \/ /\ ec = "ok" /\ peer[c].pc = "gone" /\ Throws("threw")   \* shutdown
          /\ UNCHANGED sessions
    /\ UNCHANGED <<origin, session, pend, saved>>

\* The handler of the signals closes and erases all sessions.  It erases the
\* element its loop is at: what the loop does after that is undefined, and may be
\* what was meant.
OnSignal ==
    /\ Running /\ ready # <<>> /\ Head(ready) = Handler("signal", Nobody, "ok")
    /\ LET waiting == {n \in DOMAIN sessions : pend[sessions[n]] # "none"}
           inOrder == {order \in [1 .. Cardinality(waiting) -> waiting] :
                           \A j, k \in DOMAIN order : j < k => order[j] < order[k]}
       IN  \/ /\ \E order \in inOrder :
                     ready' = Tail(ready)
                              \o (IF server.accepting THEN <<Handler("accept", Nobody, "aborted")>> ELSE <<>>)
                              \o [k \in DOMAIN order |-> LET c == sessions[order[k]]
                                                         IN  Handler(pend[c], c, "aborted")]
              /\ sessions' = <<>>
              /\ pend' = [c \in Clients |-> "none"]
              /\ server' = [server EXCEPT !.open = FALSE, !.accepting = FALSE]
           \/ /\ sessions # <<>> /\ Throws("undefined")
              /\ UNCHANGED <<ready, sessions, pend>>
    /\ UNCHANGED <<peer, origin, session, saved, now>>

RunReturns ==
    /\ Running /\ ready = <<>> /\ ~server.accepting /\ ~server.signal
    /\ \A c \in Clients : pend[c] = "none"
    /\ Throws("returned")
    /\ UNCHANGED <<peer, origin, sessions, session, pend, ready, saved, now>>

---------------------------------------------------------------------------
Environment(c) ==
    \/ Connect(c) \/ SendRequest(c)
    \/ Answer(c) \/ AnswerMore(c)

Completion(c) ==
    \/ ClientReadable(c) \/ ForeignWritten(c) \/ ForeignReadable(c) \/ ClientWritten(c)
    \/ Accepted(c)

Run ==
    \/ \E c \in Clients : \/ OnAccept(c)
                          \/ AwaitRequest(c) \/ ServeCached(c) \/ WriteForeign(c)
                          \/ ReadForeign(c) \/ ParsedResponse(c)
                          \/ \E ec \in Codes : OnWritten(c, ec)
                          \/ \E op \in Operations : OnError(c, op) \/ OnAborted(c, op)
                          \/ \E op \in Operations, ec \in Codes : OnFreed(c, op, ec)
    \/ \E c \in Clients \cup {Nobody} : OnAcceptClosed(c)
    \/ OnAcceptError
    \/ OnSignal
    \/ RunReturns

Troubles == AcceptFails \/ \E c \in Clients : Leave(c) \/ OriginCloses(c)

Next == \/ \E c \in Clients : Environment(c) \/ Completion(c)
        \/ Run
        \/ Troubles
        \/ Signalled
        \/ Tick

Spec == Init /\ [][Next]_vars

\* The thread runs handlers as long as there are some.  Clients and origins send
\* what they have to, and the kernel completes what can be completed.
Fairness == /\ WF_vars(Run)
            /\ \A c \in Clients : WF_vars(Environment(c)) /\ WF_vars(Completion(c))

FairSpec == Spec /\ Fairness

---------------------------------------------------------------------------
(* Properties.                                                             *)

QueuedFor(c) == {n \in DOMAIN ready : ready[n].c = c /\ ready[n].op \in Operations}
InFlight(c) == Cardinality(QueuedFor(c)) + (IF pend[c] = "none" THEN 0 ELSE 1)

\* Until a signal ends them all, a session in the list has exactly one operation, waiting
\* or queued, and one that has been erased has none: nothing will call it again.  The
\* list has it once.
OneOperation ==
    Running /\ server.open => \A c \in Clients :
        /\ Live(c) => InFlight(c) = 1
        /\ ~Live(c) => InFlight(c) = 0
        /\ \A m, n \in DOMAIN sessions : sessions[m] = c /\ sessions[n] = c => m = n

\* Nobody is sent gzip without having asked for it, though others have.
\* What comes from somebody else's request was allowed to be kept, by no directive to
\* the contrary, and is not older than the last max-age it came with, if that is a number.
RightReply ==
    \A c \in Clients : LET r == session[c].reply IN
        r # NoResponse =>
            /\ r.gzip => Gzip[c]
            /\ r.by # c =>
                   /\ \A n \in DOMAIN r.control : ~Forbids(r.control[n])
                   /\ LastAge(r.control) # {}
                   /\ \A n \in LastAge(r.control) :
                          IsAge(r.control[n]) => session[c].madeAt - r.at <= r.control[n].age

\* One exception ends the sessions of all.  What brings it about is some peer: one that
\* has reset its connection, an origin that is not reached, or a max-age that is too
\* short, and never an answer that is read or sent as it should be.
ThrowsForPeers ==
    server.end = "threw" =>
        \E c \in Clients :
            \/ peer[c].pc = "gone" \/ origin[c].pc = "closed"
            \/ origin[c].pc = "idle" /\ session[c].request = Parts /\ c \in Faulty
            \/ \E n \in DOMAIN origin[c].control : origin[c].control[n] = Word("max-age")

\* Every session ends, if its peers send what they have to or close: the others do
\* not hold it up, nor does a signal, unless the proxy itself comes to an end.
SessionsEnd == \A c \in Clients : Live(c) ~> (~Live(c) \/ ~Running)

\* The signal's handler leaves no session, and none comes afterwards, though a
\* client may have been accepted before it and its handler be called after it.
NoneAfterClose == Running /\ ~server.open => sessions = <<>>

\* After a signal the proxy comes to an end, one way or another.
SignalEnds == ~server.signal ~> ~Running

\* individual/lib/Session.h:33: Stop stops all asynchronous operations, so that no handler of a
\* session runs on it afterwards.
StopIsFinal == [][\A c \in Clients, op \in Operations, ec \in Codes : ~OnFreed(c, op, ec)]_vars
=============================================================================
