-------------------------- MODULE ProxyInvariants --------------------------
(* The invariants of Proxy that its proofs need: which client is where     *)
(* between its connection and its reply, what is saved, and what is over.  *)
EXTENDS Proxy

\* Nothing has ended the sessions yet.
Serving == Running /\ server.open

IsOperation(h) == h.op \in Operations
Queued(c)  == QueuedFor(c) # {}
Waiting(c) == pend[c] # "none"

---------------------------------------------------------------------------
(* Sessions and their operations.                                          *)

\* The list has no session twice, and the queue no two handlers of one.
SessionsOnce == \A m, n \in DOMAIN sessions : sessions[m] = sessions[n] => m = n
QueuedOnce == \A m, n \in DOMAIN ready :
    IsOperation(ready[m]) /\ IsOperation(ready[n]) /\ ready[m].c = ready[n].c => m = n

\* The sessions of the list are those that have an operation, in one place or the other.
Busy == \A c \in Clients : /\ Live(c) <=> Waiting(c) \/ Queued(c)
                           /\ ~(Waiting(c) /\ Queued(c))

NoneAborted == \A n \in DOMAIN ready : ready[n].ec # "aborted"

\* TServer accepts one connection at a time.
AcceptsOnce == \A m \in DOMAIN ready : ready[m].op = "accept" =>
    ~server.accepting /\ \A n \in DOMAIN ready : ready[n].op = "accept" => m = n

\* Client c has been accepted, and its session is yet to be made.
Arrives(c) == \E n \in DOMAIN ready : ready[n] = Handler("accept", c, "ok")
Outside(c) == peer[c].pc \in {"off", "queued"}
NewAreNotLive == \A c \in Clients : Arrives(c) => ~Live(c) /\ ~Outside(c)
OutsideAreNotLive == \A c \in Clients : Outside(c) => ~Live(c)

SessionInv == Serving => /\ SessionsOnce /\ QueuedOnce /\ Busy
                         /\ NoneAborted /\ AcceptsOnce
                         /\ NewAreNotLive /\ OutsideAreNotLive

\* After the signal nothing waits, in no session.
Closed == Running /\ ~server.open => sessions = <<>> /\ \A c \in Clients : ~Waiting(c)

---------------------------------------------------------------------------
(* Exceptions.                                                             *)

\* The origin has heard nothing of a client whose request is not written yet.
Unasked(c) == \/ Outside(c) \/ Arrives(c) \/ pend[c] \in {"readClient", "writeForeign"}
              \/ \E n \in QueuedFor(c) : ready[n].op = "readClient"
OriginIdle == Serving => \A c \in Clients : Unasked(c) => origin[c].pc = "idle"

\* Nor has an origin sent a header that it has not begun to answer with.
NoControlYet == \A c \in Clients : origin[c].pc \in {"idle", "asked"} => origin[c].control = <<>>

ThrowInv == OriginIdle /\ NoControlYet /\ ThrowsForPeers

---------------------------------------------------------------------------
(* The cache.                                                              *)

\* An entry is a response as its origin sent it, and ends a duration after it came
\* that its header allows.
Entries == [response : Responses, expire : Int]
Kept(e) == /\ e \in Entries /\ ~e.response.gzip
           /\ \E d \in CacheDuration(e.response.control) :
                  d > 0 /\ e.expire = e.response.at + d
CacheInv == \A u \in Urls : saved[u] = NoEntry \/ Kept(saved[u])

Inv == TypeOK /\ CacheInv /\ SessionInv /\ Closed /\ ThrowInv /\ RightReply
=============================================================================
