---------------------------- MODULE ProxyProofs ----------------------------
(* Proofs about Proxy, for any clients, URLs, headers and bounds.  The     *)
(* argument: until the signal a session is in the list if and only if it   *)
(* has an operation, waiting or queued; and what the cache holds is what   *)
(* its origin sent, until a time that its header allows.                   *)
EXTENDS ProxyInvariants, FiniteSetTheorems, TLAPS

---------------------------------------------------------------------------
(* Sequences.                                                              *)

LEMMA ConcatType ==
  ASSUME NEW S, NEW s \in Seq(S), NEW t \in Seq(S)
  PROVE  /\ s \o t \in Seq(S) /\ Len(s \o t) = Len(s) + Len(t)
         /\ \A k \in 1 .. Len(s) : (s \o t)[k] = s[k]
         /\ \A k \in Len(s) + 1 .. Len(s) + Len(t) : (s \o t)[k] = t[k - Len(s)]
  OBVIOUS

LEMMA RemoveAtType ==
  ASSUME NEW S, NEW s \in Seq(S), NEW n \in DOMAIN s
  PROVE  /\ RemoveAt(s, n) \in Seq(S)
         /\ Len(RemoveAt(s, n)) = Len(s) - 1
         /\ \A k \in 1 .. Len(s) - 1 : RemoveAt(s, n)[k] = IF k < n THEN s[k] ELSE s[k + 1]
  <1> n \in 1 .. Len(s) /\ Len(s) \in Nat
    OBVIOUS
  <1> DEFINE front == SubSeq(s, 1, n - 1)
             back == SubSeq(s, n + 1, Len(s))
  <1>1. front \in Seq(S) /\ Len(front) = n - 1 /\ \A k \in 1 .. n - 1 : front[k] = s[k]
    OBVIOUS
  <1>2. /\ back \in Seq(S) /\ Len(back) = Len(s) - n
        /\ \A k \in 1 .. Len(s) - n : back[k] = s[k + n]
    OBVIOUS
  <1> HIDE DEF front, back
  <1>3. front \o back \in Seq(S) /\ Len(front \o back) = Len(s) - 1
    BY <1>1, <1>2
  <1>4. ASSUME NEW k \in 1 .. Len(s) - 1
        PROVE  (front \o back)[k] = IF k < n THEN s[k] ELSE s[k + 1]
    <2>1. CASE k < n
      <3>1. k \in 1 .. Len(front) /\ front[k] = s[k]
        BY <1>1, <2>1
      <3> QED
        BY <1>1, <1>2, <2>1, <3>1
    <2>2. CASE ~(k < n)
      <3>1. k - (n - 1) \in 1 .. Len(s) - n /\ (k - (n - 1)) + n = k + 1
        BY <2>2
      <3>2. back[k - (n - 1)] = s[k + 1]
        BY <1>2, <3>1
      <3>3. k \in Len(front) + 1 .. Len(front) + Len(back)
        BY <1>1, <1>2, <2>2
      <3>4. (front \o back)[k] = back[k - Len(front)]
        BY <1>1, <1>2, <3>3, ConcatType
      <3> QED
        BY <1>1, <2>2, <3>2, <3>4
    <2> QED
      BY <2>1, <2>2
  <1> QED
    BY <1>3, <1>4 DEF RemoveAt, front, back

LEMMA AppendType ==
  ASSUME NEW S, NEW s \in Seq(S), NEW e \in S
  PROVE  /\ Append(s, e) \in Seq(S) /\ Len(Append(s, e)) = Len(s) + 1
         /\ \A k \in 1 .. Len(s) : Append(s, e)[k] = s[k]
         /\ Append(s, e)[Len(s) + 1] = e
  OBVIOUS

LEMMA TailType ==
  ASSUME NEW S, NEW s \in Seq(S), s # <<>>
  PROVE  /\ Tail(s) \in Seq(S) /\ Len(Tail(s)) = Len(s) - 1
         /\ Head(s) = s[1] /\ Head(s) \in S
         /\ \A k \in 1 .. Len(s) - 1 : Tail(s)[k] = s[k + 1]
  OBVIOUS

---------------------------------------------------------------------------
(* Types.                                                                  *)

LEMMA HandlerType ==
  ASSUME NEW op \in Operations \cup {"accept", "signal"}, NEW c \in Clients \cup {Nobody},
         NEW ec \in Codes
  PROVE  Handler(op, c, ec) \in Handlers
  BY DEF Handler, Handlers

LEMMA CompletesType ==
  ASSUME TypeOK, NEW c \in Clients, NEW op \in Operations, NEW ec \in Codes,
         Completes(c, op, ec)
  PROVE  /\ pend' \in [Clients -> Operations \cup {"none"}] /\ ready' \in Seq(Handlers)
         /\ sessions' \in Seq(Clients) /\ server' = server
         /\ saved' = saved /\ now' = now
  <1>1. ready' \in Seq(Handlers)
    BY HandlerType, AppendType DEF TypeOK, Completes
  <1> QED
    BY <1>1 DEF TypeOK, Completes

LEMMA CallsType ==
  ASSUME TypeOK, NEW op, NEW c, NEW ec, Calls(op, c, ec)
  PROVE  ready' \in Seq(Handlers) /\ peer' = peer /\ now' = now
  BY TailType DEF TypeOK, Calls

LEMMA ThrowsType ==
  ASSUME TypeOK, NEW end \in Ends, Throws(end)
  PROVE  server' \in [accepting : BOOLEAN, open : BOOLEAN, signal : BOOLEAN, end : Ends]
  BY DEF TypeOK, Throws

LEMMA StopType ==
  ASSUME TypeOK, NEW c, Stop(c)
  PROVE  sessions' \in Seq(Clients)
  BY RemoveAtType DEF TypeOK, Stop

\* What is put into Response_ is a response.
LEMMA ReplyType ==
  ASSUME TypeOK, NEW c \in Clients, NEW r \in Responses
  PROVE  Reply(c, r) \in [Clients -> TSession]
  <1> DEFINE s == [r EXCEPT !.gzip = @ \/ Gzip[c]]
  <1>1. s \in Responses
    BY ClientsAssumption DEF Responses
  <1> HIDE DEF s
  <1>2. session \in [Clients -> TSession] /\ now \in 0 .. MaxTime
    BY DEF TypeOK
  <1>3. [session[c] EXCEPT !.reply = s, !.madeAt = now] \in TSession
    BY <1>1, <1>2 DEF TSession
  <1>4. [session EXCEPT ![c] = [session[c] EXCEPT !.reply = s, !.madeAt = now]] \in [Clients -> TSession]
    BY <1>2, <1>3
  <1>5. Reply(c, r) = [session EXCEPT ![c] = [session[c] EXCEPT !.reply = s, !.madeAt = now]]
    BY <1>2 DEF Reply, s, TSession
  <1> QED
    BY <1>4, <1>5
---------------------------------------------------------------------------
(* The cache.                                                              *)

LEMMA DirectiveAge ==
  ASSUME NEW d \in Directives, IsAge(d)
  PROVE  d.age \in Nat
  <1>1. d \notin [word : Words]
    <2>1. \A w \in [word : Words] : DOMAIN w = {"word"}
      OBVIOUS
    <2> QED
      BY <2>1 DEF IsAge
  <1>2. d \in [age : Ages]
    BY <1>1 DEF Directives
  <1> QED
    BY <1>2, AgesAssumption

\* A positive duration is the last max-age, and nothing forbids to keep the response.
LEMMA Durations ==
  ASSUME NEW control \in Seq(Directives), NEW d \in CacheDuration(control)
  PROVE  /\ d \in Int
         /\ d > 0 => /\ \A n \in DOMAIN control : ~Forbids(control[n])
                     /\ LastAge(control) # {}
                     /\ \A n \in LastAge(control) : IsAge(control[n]) => d = control[n].age
  <1>1. CASE LastAge(control) = {} \/ \E k \in DOMAIN control : Forbids(control[k])
    <2>1. d = 0
      BY <1>1 DEF CacheDuration
    <2> QED
      BY <2>1
  <1>2. CASE ~(LastAge(control) = {} \/ \E k \in DOMAIN control : Forbids(control[k]))
    <2>1. PICK k \in LastAge(control) : d \in Assigned(control[k])
      BY <1>2 DEF CacheDuration
    <2>2. \A n \in LastAge(control) : n = k
      BY <2>1 DEF LastAge
    <2>3. k \in DOMAIN control /\ control[k] \in Directives
      BY <2>1 DEF LastAge
    <2>4. CASE IsAge(control[k])
      <3>1. d = control[k].age
        BY <2>1, <2>4 DEF Assigned
      <3>2. d \in Nat
        BY <2>3, <2>4, <3>1, DirectiveAge
      <3> QED
        BY <1>2, <2>2, <3>1, <3>2
    <2>5. CASE ~IsAge(control[k])
      <3>1. d \in Int
        BY <2>1, <2>5, AgesAssumption DEF Assigned
      <3> QED
        BY <1>2, <2>2, <2>5, <3>1
    <2> QED
      BY <2>4, <2>5
  <1> QED
    BY <1>1, <1>2

LEMMA Served ==
  ASSUME TypeOK, CacheInv, NEW c \in Clients, StillGood(saved, Url[c], now)
  PROVE  Url[c] \in Urls /\ Kept(saved[Url[c]]) /\ saved[Url[c]].response \in Responses
  <1>1. Url[c] \in Urls
    BY ClientsAssumption
  <1>2. Kept(saved[Url[c]])
    BY <1>1 DEF CacheInv, StillGood, IsSaved
  <1> QED
    BY <1>1, <1>2 DEF Kept, Entries

LEMMA AfterServeType ==
  ASSUME TypeOK, CacheInv, NEW c \in Clients, saved' = AfterServe(saved, Url[c], now)
  PROVE  DOMAIN saved' = Urls /\ CacheInv'
  <1>1. DOMAIN saved = Urls /\ Url[c] \in Urls
    BY ClientsAssumption DEF TypeOK
  <1>2. \A u \in Urls : saved'[u] = saved[u] \/ saved'[u] = NoEntry
    BY <1>1 DEF AfterServe
  <1>3. DOMAIN saved' = Urls
    BY <1>1 DEF AfterServe
  <1> QED
    BY <1>2, <1>3 DEF CacheInv, Kept

LEMMA AfterCacheType ==
  ASSUME TypeOK, CacheInv, NEW c \in Clients,
         NEW r \in Responses, ~r.gzip, r.at = now, NEW d \in CacheDuration(r.control),
         saved' = AfterCache(saved, Url[c], r, d, now)
  PROVE  DOMAIN saved' = Urls /\ CacheInv'
  <1> DEFINE e == [response |-> r, expire |-> now + d]
  <1>1. DOMAIN saved = Urls /\ Url[c] \in Urls
    BY ClientsAssumption DEF TypeOK
  <1>2. DOMAIN saved' = Urls
    BY <1>1 DEF AfterCache
  <1>3. CASE d > 0
    <2>1. r.control \in Seq(Directives)
      BY DEF Responses
    <2>2. now \in Int /\ d \in Int
      BY <2>1, Durations, BoundsAssumption DEF TypeOK
    <2>3. e \in Entries /\ e.response = r /\ e.expire = now + d
      BY <2>2 DEF Entries
    <2>4. Kept(e)
      BY <1>3, <2>3 DEF Kept
    <2>5. \A u \in Urls : saved'[u] = saved[u] \/ saved'[u] = e
      BY <1>1, <1>3 DEF AfterCache
    <2> QED
      BY <1>2, <2>4, <2>5 DEF CacheInv, Kept
  <1>4. CASE ~(d > 0)
    BY <1>2, <1>4 DEF AfterCache, CacheInv, Kept
  <1> QED
    BY <1>2, <1>3, <1>4
---------------------------------------------------------------------------
(* Types and the cache, step by step.                                      *)

LEMMA TypesInit == Init => TypeOK /\ CacheInv
  <1> SUFFICES ASSUME Init
               PROVE  TypeOK /\ CacheInv
    OBVIOUS
  <1>1. Parts \in Nat /\ MaxTime \in Nat
    BY BoundsAssumption
  <1>2. TypeOK
    BY <1>1 DEF Init, TypeOK, Peers, Origins, TSession, Ends
  <1>3. CacheInv
    BY DEF Init, CacheInv
  <1> QED
    BY <1>2, <1>3

LEMMA PeerType ==
  ASSUME TypeOK, NEW c \in Clients,
         NEW pc \in {"off", "queued", "accepted", "served", "gone"},
         peer' = [peer EXCEPT ![c].pc = pc]
  PROVE  peer' \in [Clients -> Peers]
  BY DEF TypeOK, Peers

LEMMA OriginType ==
  ASSUME TypeOK, NEW c \in Clients, NEW pc \in {"idle", "asked", "answering", "closed"},
         origin' = [origin EXCEPT ![c].pc = pc]
  PROVE  origin' \in [Clients -> Origins]
  BY DEF TypeOK, Origins

LEMMA EnvironmentTypes ==
  ASSUME TypeOK, CacheInv, NEW c \in Clients, Environment(c) \/ Leave(c) \/ OriginCloses(c)
  PROVE  TypeOK' /\ CacheInv'
  <1>1. UNCHANGED <<now, proxy>>
    BY DEF Environment, Connect, SendRequest, Answer, AnswerMore, Leave, OriginCloses
  <1>2. peer' \in [Clients -> Peers]
    <2>1. CASE SendRequest(c)
      <3>1. peer[c].sent + 1 \in 0 .. Parts
        BY <2>1, BoundsAssumption DEF SendRequest, TypeOK, Peers
      <3> QED
        BY <2>1, <3>1 DEF SendRequest, TypeOK, Peers
    <2>2. CASE Connect(c) \/ Leave(c)
      BY <2>2, PeerType DEF Connect, Leave
    <2>3. CASE Answer(c) \/ AnswerMore(c) \/ OriginCloses(c)
      BY <2>3 DEF Answer, AnswerMore, OriginCloses, TypeOK
    <2> QED
      BY <2>1, <2>2, <2>3 DEF Environment
  <1>3. origin' \in [Clients -> Origins]
    <2>1. CASE Answer(c)
      <3>1. PICK control \in Controls :
                origin' = [origin EXCEPT ![c] = [pc |-> "answering", sent |-> 1, control |-> control]]
        BY <2>1 DEF Answer
      <3>2. control \in Seq(Directives) /\ 1 \in 0 .. Parts
        BY ClientsAssumption, BoundsAssumption
      <3>3. [pc |-> "answering", sent |-> 1, control |-> control] \in Origins
        BY <3>2 DEF Origins
      <3> QED
        BY <3>1, <3>3 DEF TypeOK
    <2>2. CASE AnswerMore(c)
      <3>1. origin[c].sent + 1 \in 0 .. Parts
        BY <2>2, BoundsAssumption DEF AnswerMore, TypeOK, Origins
      <3> QED
        BY <2>2, <3>1 DEF AnswerMore, TypeOK, Origins
    <2>3. CASE OriginCloses(c)
      BY <2>3, OriginType DEF OriginCloses
    <2>4. CASE Connect(c) \/ SendRequest(c) \/ Leave(c)
      BY <2>4 DEF Connect, SendRequest, Leave, TypeOK
    <2> QED
      BY <2>1, <2>2, <2>3, <2>4 DEF Environment
  <1> QED
    BY <1>1, <1>2, <1>3 DEF TypeOK, CacheInv, Kept, proxy

\* An operation completes, and the peers and the session change as they may.
LEMMA CompletedTypes ==
  ASSUME TypeOK, CacheInv, NEW c \in Clients, NEW op \in {"readClient", "writeForeign", "readForeign", "writeClient"},
         Completes(c, op, "ok") \/ Completes(c, op, "error"),
         peer' \in [Clients -> Peers], origin' \in [Clients -> Origins], session' \in [Clients -> TSession]
  PROVE  TypeOK' /\ CacheInv'
  <1>1. op \in Operations /\ "ok" \in Codes /\ "error" \in Codes
    BY DEF Operations, Codes
  <1>2. /\ pend' \in [Clients -> Operations \cup {"none"}] /\ ready' \in Seq(Handlers)
        /\ sessions' \in Seq(Clients) /\ server' = server
        /\ saved' = saved /\ now' = now
    BY <1>1, CompletesType
  <1>3. CacheInv'
    BY <1>2 DEF CacheInv, Kept
  <1>4. TypeOK'
    BY <1>2 DEF TypeOK
  <1> QED
    BY <1>3, <1>4

LEMMA CompletionTypes ==
  ASSUME TypeOK, CacheInv, NEW c \in Clients, Completion(c)
  PROVE  TypeOK' /\ CacheInv'
  <1>1. CASE ClientReadable(c)
    <2>1. Completes(c, "readClient", "ok") \/ Completes(c, "readClient", "error")
      BY <1>1 DEF ClientReadable
    <2>2. session' \in [Clients -> TSession]
      BY <1>1 DEF ClientReadable, TypeOK, TSession, Peers
    <2>3. peer' \in [Clients -> Peers] /\ origin' \in [Clients -> Origins]
      BY <1>1 DEF ClientReadable, TypeOK
    <2> QED
      BY <2>1, <2>2, <2>3, CompletedTypes
  <1>2. CASE ForeignWritten(c)
    <2>1. Completes(c, "writeForeign", "ok") \/ Completes(c, "writeForeign", "error")
      BY <1>2 DEF ForeignWritten
    <2>2. origin' \in [Clients -> Origins]
      BY <1>2, OriginType DEF ForeignWritten, TypeOK
    <2>3. peer' \in [Clients -> Peers] /\ session' \in [Clients -> TSession]
      BY <1>2 DEF ForeignWritten, TypeOK
    <2> QED
      BY <2>1, <2>2, <2>3, CompletedTypes
  <1>3. CASE ForeignReadable(c)
    <2>1. Completes(c, "readForeign", "ok") \/ Completes(c, "readForeign", "error")
      BY <1>3 DEF ForeignReadable
    <2>2. session' \in [Clients -> TSession]
      BY <1>3 DEF ForeignReadable, TypeOK, TSession, Origins
    <2>3. peer' \in [Clients -> Peers] /\ origin' \in [Clients -> Origins]
      BY <1>3 DEF ForeignReadable, TypeOK
    <2> QED
      BY <2>1, <2>2, <2>3, CompletedTypes
  <1>4. CASE ClientWritten(c)
    <2>1. Completes(c, "writeClient", "ok") \/ Completes(c, "writeClient", "error")
      BY <1>4 DEF ClientWritten
    <2>2. peer' \in [Clients -> Peers]
      <3>1. peer[c].pc \in {"off", "queued", "accepted", "served", "gone"}
        BY DEF TypeOK, Peers
      <3>2. (IF peer[c].pc = "gone" THEN peer[c].pc ELSE "served")
              \in {"off", "queued", "accepted", "served", "gone"}
        BY <3>1
      <3>3. CASE peer' = [peer EXCEPT ![c].pc = IF @ = "gone" THEN @ ELSE "served"]
        <4>1. peer' = [peer EXCEPT ![c].pc = IF peer[c].pc = "gone" THEN peer[c].pc ELSE "served"]
          BY <3>3 DEF TypeOK, Peers
        <4> QED
          BY <3>2, <4>1, PeerType
      <3>4. CASE peer' = peer
        BY <3>4 DEF TypeOK
      <3> QED
        BY <1>4, <3>3, <3>4 DEF ClientWritten
    <2>3. origin' \in [Clients -> Origins] /\ session' \in [Clients -> TSession]
      BY <1>4 DEF ClientWritten, TypeOK
    <2> QED
      BY <2>1, <2>2, <2>3, CompletedTypes
  <1>5. CASE Accepted(c)
    <2>1. peer' \in [Clients -> Peers]
      BY <1>5, PeerType DEF Accepted
    <2>2. ready' \in Seq(Handlers)
      BY <1>5, HandlerType, AppendType DEF Accepted, TypeOK, Codes
    <2> QED
      BY <1>5, <2>1, <2>2 DEF Accepted, TypeOK, CacheInv, Kept
  <1> QED
    BY <1>1, <1>2, <1>3, <1>4, <1>5 DEF Completion
LEMMA PendType ==
  ASSUME TypeOK, NEW c \in Clients, NEW op \in Operations, pend' = [pend EXCEPT ![c] = op]
  PROVE  pend' \in [Clients -> Operations \cup {"none"}]
  BY DEF TypeOK

LEMMA AcceptingType ==
  ASSUME TypeOK, NEW b \in BOOLEAN, server' = [server EXCEPT !.accepting = b]
  PROVE  server' \in [accepting : BOOLEAN, open : BOOLEAN, signal : BOOLEAN, end : Ends]
  BY DEF TypeOK

LEMMA SessionTypes ==
  ASSUME TypeOK, CacheInv, NEW c \in Clients,
         \/ AwaitRequest(c) \/ ServeCached(c) \/ WriteForeign(c)
         \/ ReadForeign(c) \/ ParsedResponse(c)
  PROVE  TypeOK' /\ CacheInv'
  <1> USE DEF ParsedRequest
  <1>1. CASE AwaitRequest(c)
    BY <1>1, CallsType, PendType DEF AwaitRequest, TypeOK, CacheInv, Kept, Operations
  <1>2. CASE ServeCached(c)
    <2>1. session' \in [Clients -> TSession]
      BY <1>2, Served, ReplyType DEF ServeCached
    <2> QED
      BY <1>2, <2>1, CallsType, PendType DEF ServeCached, TypeOK, CacheInv, Kept, Operations
  <1>3. CASE WriteForeign(c)
    <2>1. DOMAIN saved' = Urls /\ CacheInv'
      BY <1>3, AfterServeType DEF WriteForeign
    <2>2. /\ pend' \in [Clients -> Operations \cup {"none"}]
          /\ server' \in [accepting : BOOLEAN, open : BOOLEAN, signal : BOOLEAN, end : Ends]
      BY <1>3, PendType, ThrowsType DEF WriteForeign, TypeOK, Operations, Ends
    <2> QED
      BY <1>3, <2>1, <2>2, CallsType DEF WriteForeign, TypeOK
  <1>4. CASE ReadForeign(c)
    BY <1>4, CallsType, PendType DEF ReadForeign, TypeOK, CacheInv, Kept, Operations
  <1>5. CASE ParsedResponse(c)
    <2> DEFINE response == [by |-> c, at |-> now, control |-> origin[c].control, gzip |-> FALSE]
    <2>1. response \in Responses
      BY DEF TypeOK, Responses, Origins
    <2>2. ~response.gzip /\ response.at = now /\ response.control = origin[c].control
      OBVIOUS
    <2>3. \/ session' = Reply(c, response) \/ session' = session
      BY <1>5 DEF ParsedResponse
    <2>4. /\ \/ \E duration \in CacheDuration(response.control) :
                    saved' = AfterCache(saved, Url[c], response, duration, now)
             \/ saved' = saved
          /\ \/ pend' = [pend EXCEPT ![c] = "writeClient"] \/ pend' = pend
          /\ \/ server' = server \/ Throws("threw")
          /\ Calls("readForeign", c, "ok") /\ UNCHANGED <<origin, sessions>>
      BY <1>5 DEF ParsedResponse
    <2> HIDE DEF response
    <2>5. session' \in [Clients -> TSession]
      BY <2>1, <2>3, ReplyType DEF TypeOK
    <2>6. ASSUME saved' = saved
          PROVE  DOMAIN saved' = Urls /\ CacheInv'
      BY <2>6 DEF TypeOK, CacheInv, Kept
    <2>7. ASSUME NEW duration \in CacheDuration(response.control),
                 saved' = AfterCache(saved, Url[c], response, duration, now)
          PROVE  DOMAIN saved' = Urls /\ CacheInv'
      BY <2>1, <2>2, <2>7, AfterCacheType
    <2>8. DOMAIN saved' = Urls /\ CacheInv'
      BY <2>4, <2>6, <2>7 DEF TypeOK
    <2>9. /\ pend' \in [Clients -> Operations \cup {"none"}]
          /\ server' \in [accepting : BOOLEAN, open : BOOLEAN, signal : BOOLEAN, end : Ends]
      BY <2>4, PendType, ThrowsType DEF TypeOK, Operations, Ends
    <2> QED
      BY <2>4, <2>5, <2>8, <2>9, CallsType DEF TypeOK
  <1> QED
    BY <1>1, <1>2, <1>3, <1>4, <1>5

LEMMA EndTypes ==
  ASSUME TypeOK, CacheInv, NEW c \in Clients, NEW ec \in Codes, NEW op \in Operations,
         OnWritten(c, ec) \/ OnError(c, op) \/ OnAborted(c, op) \/ OnFreed(c, op, ec)
  PROVE  TypeOK' /\ CacheInv'
  <1>1. /\ ready' \in Seq(Handlers)
        /\ UNCHANGED <<peer, origin, session, pend, saved, now>>
    BY CallsType DEF OnWritten, OnError, OnAborted, OnFreed
  <1>2. sessions' \in Seq(Clients)
    BY StopType DEF OnWritten, OnError, OnAborted, OnFreed, TypeOK
  <1>3. server' \in [accepting : BOOLEAN, open : BOOLEAN, signal : BOOLEAN, end : Ends]
    BY ThrowsType DEF OnWritten, OnError, OnAborted, OnFreed, TypeOK, Ends
  <1> QED
    BY <1>1, <1>2, <1>3 DEF TypeOK, CacheInv, Kept

\* The signal's handler: whatever the order of the list is.
LEMMA SignalTypes ==
  ASSUME TypeOK, CacheInv, OnSignal
  PROVE  TypeOK' /\ CacheInv'
  <1> DEFINE waiting == {n \in DOMAIN sessions : pend[sessions[n]] # "none"}
             accept  == IF server.accepting THEN <<Handler("accept", Nobody, "aborted")>> ELSE <<>>
             aborted(order) == [k \in DOMAIN order |-> Handler(pend[sessions[order[k]]],
                                                              sessions[order[k]], "aborted")]
  <1>1. UNCHANGED <<peer, origin, session, saved, now>>
    BY DEF OnSignal
  <1>2. CASE sessions # <<>> /\ Throws("undefined") /\ UNCHANGED <<ready, sessions, pend>>
    BY <1>1, <1>2, ThrowsType DEF TypeOK, CacheInv, Kept, Ends
  <1>3. ASSUME NEW order \in [1 .. Cardinality(waiting) -> waiting],
               ready' = Tail(ready) \o accept \o aborted(order),
               sessions' = <<>>, pend' = [c \in Clients |-> "none"],
               server' = [server EXCEPT !.open = FALSE, !.accepting = FALSE]
        PROVE  TypeOK' /\ CacheInv'
    <2>1. Cardinality(waiting) \in Nat
      <3>1. Len(sessions) \in Nat /\ waiting \subseteq 1 .. Len(sessions)
        BY DEF TypeOK
      <3>2. IsFiniteSet(1 .. Len(sessions))
        BY <3>1, FS_Interval
      <3>3. IsFiniteSet(waiting)
        BY <3>1, <3>2, FS_Subset
      <3> QED
        BY <3>3, FS_CardinalityType
    <2>2. \A k \in DOMAIN order : Handler(pend[sessions[order[k]]], sessions[order[k]], "aborted")
                                     \in Handlers
      <3> SUFFICES ASSUME NEW k \in DOMAIN order
                   PROVE  Handler(pend[sessions[order[k]]], sessions[order[k]], "aborted") \in Handlers
        OBVIOUS
      <3>1. order[k] \in DOMAIN sessions /\ pend[sessions[order[k]]] # "none"
        OBVIOUS
      <3>2. sessions[order[k]] \in Clients
        BY <3>1 DEF TypeOK
      <3>3. pend[sessions[order[k]]] \in Operations
        BY <3>1, <3>2 DEF TypeOK
      <3> QED
        BY <3>2, <3>3, HandlerType DEF Codes
    <2>3. aborted(order) \in Seq(Handlers)
      <3>1. DOMAIN aborted(order) = 1 .. Cardinality(waiting)
        OBVIOUS
      <3> HIDE DEF waiting
      <3> QED
        BY <2>1, <2>2, <3>1
    <2>4. accept \in Seq(Handlers)
      <3>1. Handler("accept", Nobody, "aborted") \in Handlers
        BY HandlerType DEF Codes
      <3> HIDE DEF Handler
      <3> QED
        BY <3>1
    <2>5. ready # <<>> /\ Tail(ready) \in Seq(Handlers)
      BY TailType DEF OnSignal, TypeOK
    <2> HIDE DEF accept, aborted
    <2>6. ready' \in Seq(Handlers)
      BY <1>3, <2>3, <2>4, <2>5, ConcatType
    <2>7. server' \in [accepting : BOOLEAN, open : BOOLEAN, signal : BOOLEAN, end : Ends]
      BY <1>3 DEF TypeOK
    <2> QED
      BY <1>1, <1>3, <2>6, <2>7 DEF TypeOK, CacheInv, Kept
  <1> QED
    BY <1>2, <1>3 DEF OnSignal

LEMMA ServerTypes ==
  ASSUME TypeOK, CacheInv,
         \/ \E c \in Clients : OnAccept(c)
         \/ \E c \in Clients \cup {Nobody} : OnAcceptClosed(c)
         \/ OnAcceptError \/ RunReturns \/ AcceptFails \/ Signalled \/ Tick
  PROVE  TypeOK' /\ CacheInv'
  <1>1. ASSUME NEW c \in Clients, OnAccept(c)
        PROVE  TypeOK' /\ CacheInv'
    <2>1. sessions' \in Seq(Clients)
      BY <1>1, AppendType DEF OnAccept, TypeOK
    <2> QED
      BY <1>1, <2>1, CallsType, PendType, AcceptingType
         DEF OnAccept, TypeOK, CacheInv, Kept, Operations
  <1>2. ASSUME NEW c, OnAcceptClosed(c)
        PROVE  TypeOK' /\ CacheInv'
    BY <1>2, CallsType DEF OnAcceptClosed, TypeOK, CacheInv, Kept
  <1>3. CASE OnAcceptError
    BY <1>3, CallsType, AcceptingType DEF OnAcceptError, TypeOK, CacheInv, Kept
  <1>4. CASE RunReturns
    BY <1>4, ThrowsType DEF RunReturns, TypeOK, CacheInv, Kept, Ends
  <1>5. CASE AcceptFails
    <2>1. ready' \in Seq(Handlers)
      BY <1>5, HandlerType, AppendType DEF AcceptFails, TypeOK, Codes
    <2> QED
      BY <1>5, <2>1, AcceptingType DEF AcceptFails, TypeOK, CacheInv, Kept
  <1>6. CASE Signalled
    <2>1. ready' \in Seq(Handlers)
      BY <1>6, HandlerType, AppendType DEF Signalled, TypeOK, Codes
    <2>2. server' \in [accepting : BOOLEAN, open : BOOLEAN, signal : BOOLEAN, end : Ends]
      BY <1>6 DEF Signalled, TypeOK
    <2> QED
      BY <1>6, <2>1, <2>2 DEF Signalled, TypeOK, CacheInv, Kept
  <1>7. CASE Tick
    <2>1. now' \in 0 .. MaxTime
      BY <1>7, BoundsAssumption DEF Tick, TypeOK
    <2> QED
      BY <1>7, <2>1 DEF Tick, TypeOK, CacheInv, Kept, proxy
  <1> QED
    BY <1>1, <1>2, <1>3, <1>4, <1>5, <1>6, <1>7

LEMMA TypesNext == TypeOK /\ CacheInv /\ [Next]_vars => TypeOK' /\ CacheInv'
  <1> SUFFICES ASSUME TypeOK, CacheInv, [Next]_vars
               PROVE  TypeOK' /\ CacheInv'
    OBVIOUS
  <1>1. CASE \E c \in Clients : Environment(c) \/ Leave(c) \/ OriginCloses(c)
    BY <1>1, EnvironmentTypes
  <1>2. CASE \E c \in Clients : Completion(c)
    BY <1>2, CompletionTypes
  <1>3. CASE Run
    <2>1. CASE \E c \in Clients : \/ AwaitRequest(c) \/ ServeCached(c) \/ WriteForeign(c)
                                 \/ ReadForeign(c) \/ ParsedResponse(c)
      BY <2>1, SessionTypes
    <2>2. CASE \E c \in Clients, ec \in Codes, op \in Operations :
                   OnWritten(c, ec) \/ OnError(c, op) \/ OnAborted(c, op) \/ OnFreed(c, op, ec)
      BY <2>2, EndTypes
    <2>3. CASE OnSignal
      BY <2>3, SignalTypes
    <2>4. CASE \/ \E c \in Clients : OnAccept(c)
               \/ \E c \in Clients \cup {Nobody} : OnAcceptClosed(c)
               \/ OnAcceptError \/ RunReturns
      BY <2>4, ServerTypes
    <2> QED
      BY <1>3, <2>1, <2>2, <2>3, <2>4 DEF Run, Operations, Codes
  <1>4. CASE AcceptFails \/ Signalled \/ Tick
    BY <1>4, ServerTypes
  <1>5. CASE UNCHANGED vars
    BY <1>5 DEF vars, TypeOK, CacheInv, Kept
  <1> QED
    BY <1>1, <1>2, <1>3, <1>4, <1>5 DEF Next, Troubles

---------------------------------------------------------------------------
(* The queue.                                                              *)

LEMMA Enqueued ==
  ASSUME TypeOK, NEW h \in Handlers, ready' = Append(ready, h)
  PROVE  /\ DOMAIN ready' = DOMAIN ready \cup {Len(ready) + 1} /\ Len(ready) + 1 \notin DOMAIN ready
         /\ \A n \in DOMAIN ready : ready'[n] = ready[n]
         /\ ready'[Len(ready) + 1] = h
  BY AppendType DEF TypeOK

LEMMA Dequeued ==
  ASSUME TypeOK, ready # <<>>, ready' = Tail(ready)
  PROVE  /\ 1 \in DOMAIN ready /\ Head(ready) = ready[1]
         /\ \A n \in DOMAIN ready' : /\ n + 1 \in DOMAIN ready /\ n + 1 # 1 /\ n \in Int
                                     /\ ready'[n] = ready[n + 1]
         /\ \A n \in DOMAIN ready : n # 1 => n - 1 \in DOMAIN ready' /\ ready'[n - 1] = ready[n]
  <1>1. Len(ready) \in Nat /\ DOMAIN ready = 1 .. Len(ready) /\ Len(ready) # 0
    BY DEF TypeOK
  <1>2. /\ DOMAIN ready' = 1 .. Len(ready) - 1 /\ Head(ready) = ready[1]
        /\ \A k \in 1 .. Len(ready) - 1 : ready'[k] = ready[k + 1]
    BY TailType DEF TypeOK
  <1> QED
    BY <1>1, <1>2

LEMMA OperationFields ==
  ASSUME NEW op, NEW c, NEW ec
  PROVE  /\ Handler(op, c, ec).op = op /\ Handler(op, c, ec).c = c /\ Handler(op, c, ec).ec = ec
         /\ op \in Operations => op \notin {"accept", "signal"}
  BY DEF Handler, Operations

LEMMA QueuedIs ==
  ASSUME NEW c
  PROVE  /\ Queued(c) <=> \E n \in DOMAIN ready : IsOperation(ready[n]) /\ ready[n].c = c
         /\ Queued(c)' <=> \E n \in DOMAIN ready' : IsOperation(ready'[n]) /\ ready'[n].c = c
  BY DEF Queued, QueuedFor, IsOperation

\* What the queue is after an operation's handler has been called.
LEMMA CalledOperation ==
  ASSUME TypeOK, SessionInv, Serving, NEW c \in Clients, NEW op \in Operations, NEW ec,
         Calls(op, c, ec)
  PROVE  /\ Queued(c) /\ ~Queued(c)' /\ ec # "aborted"
         /\ \A d \in Clients : d # c => (Queued(d)' <=> Queued(d))
         /\ QueuedOnce' /\ NoneAborted'
         /\ \A n \in DOMAIN ready' : ready'[n] = ready[n + 1] /\ n + 1 \in DOMAIN ready /\ n \in Int
         /\ UNCHANGED peer
  <1>1. ready # <<>> /\ ready' = Tail(ready) /\ ready[1] = Handler(op, c, ec) /\ UNCHANGED peer
    BY Dequeued DEF Calls
  <1>2. ready[1].op = op /\ ready[1].c = c /\ ready[1].ec = ec /\ IsOperation(ready[1])
    BY <1>1, OperationFields DEF IsOperation
  <1>3. Queued(c)
    BY <1>1, <1>2, Dequeued, QueuedIs
  <1>4. ~Queued(c)'
    BY <1>1, <1>2, Dequeued, QueuedIs DEF SessionInv, QueuedOnce, IsOperation
  <1>5. ASSUME NEW d \in Clients, d # c
        PROVE  Queued(d)' <=> Queued(d)
    BY <1>1, <1>2, <1>5, Dequeued, QueuedIs DEF IsOperation
  <1>6. QueuedOnce'
    <2> SUFFICES ASSUME NEW m \in DOMAIN ready', NEW n \in DOMAIN ready',
                        IsOperation(ready'[m]), IsOperation(ready'[n]), ready'[m].c = ready'[n].c
                 PROVE  m = n
      BY DEF QueuedOnce, IsOperation
    <2>1. m + 1 = n + 1 /\ m \in Int /\ n \in Int
      BY <1>1, Dequeued DEF SessionInv, QueuedOnce, IsOperation
    <2> QED
      BY <2>1
  <1>7. NoneAborted' /\ ec # "aborted"
    BY <1>1, <1>2, Dequeued DEF SessionInv, NoneAborted
  <1> QED
    BY <1>1, <1>3, <1>4, <1>5, <1>6, <1>7, Dequeued

\* What it is after another handler has been.
LEMMA CalledOther ==
  ASSUME TypeOK, SessionInv, Serving, NEW c, NEW op \in {"accept", "signal"}, NEW ec,
         Calls(op, c, ec)
  PROVE  /\ \A d \in Clients : Queued(d)' <=> Queued(d)
         /\ QueuedOnce' /\ NoneAborted' /\ ec # "aborted"
         /\ op = "accept" => ~server.accepting /\ \A n \in DOMAIN ready' : ready'[n].op # "accept"
         /\ \A n \in DOMAIN ready' : ready'[n] = ready[n + 1] /\ n + 1 \in DOMAIN ready /\ n \in Int
         /\ UNCHANGED peer
  <1>1. ready # <<>> /\ ready' = Tail(ready) /\ ready[1] = Handler(op, c, ec) /\ UNCHANGED peer
    BY Dequeued DEF Calls
  <1>2. ready[1].op = op /\ ready[1].ec = ec /\ ~IsOperation(ready[1])
    BY <1>1, OperationFields DEF IsOperation
  <1>3. ASSUME NEW d \in Clients
        PROVE  Queued(d)' <=> Queued(d)
    <2>1. ASSUME Queued(d)
          PROVE  Queued(d)'
      <3>1. PICK n \in DOMAIN ready : IsOperation(ready[n]) /\ ready[n].c = d
        BY <2>1, QueuedIs
      <3>2. n - 1 \in DOMAIN ready' /\ ready'[n - 1] = ready[n]
        BY <1>1, <1>2, <3>1, Dequeued
      <3> QED
        BY <3>1, <3>2, QueuedIs
    <2>2. ASSUME Queued(d)'
          PROVE  Queued(d)
      BY <1>1, <2>2, Dequeued, QueuedIs DEF IsOperation
    <2> QED
      BY <2>1, <2>2
  <1>4. QueuedOnce'
    <2> SUFFICES ASSUME NEW m \in DOMAIN ready', NEW n \in DOMAIN ready',
                        IsOperation(ready'[m]), IsOperation(ready'[n]), ready'[m].c = ready'[n].c
                 PROVE  m = n
      BY DEF QueuedOnce, IsOperation
    <2>1. m + 1 = n + 1 /\ m \in Int /\ n \in Int
      BY <1>1, Dequeued DEF SessionInv, QueuedOnce, IsOperation
    <2> QED
      BY <2>1
  <1>5. NoneAborted' /\ ec # "aborted"
    BY <1>1, <1>2, Dequeued DEF SessionInv, NoneAborted
  <1>6. op = "accept" => ~server.accepting /\ \A n \in DOMAIN ready' : ready'[n].op # "accept"
    BY <1>1, <1>2, Dequeued DEF SessionInv, AcceptsOnce
  <1> QED
    BY <1>1, <1>3, <1>4, <1>5, <1>6, Dequeued
---------------------------------------------------------------------------
(* Sessions and their operations, one lemma for each kind of step.         *)

LEMMA SessionQuiet ==
  ASSUME SessionInv, UNCHANGED <<sessions, pend, ready>>, Serving' => Serving,
         server'.accepting = server.accepting, \A c \in Clients : Outside(c)' => Outside(c)
  PROVE  SessionInv'
  <1>1. ASSUME NEW c
        PROVE  /\ Live(c)' <=> Live(c)
               /\ Queued(c)' <=> Queued(c)
               /\ Waiting(c)' <=> Waiting(c)
               /\ Arrives(c)' <=> Arrives(c)
    BY DEF Live, Queued, QueuedFor, Waiting, Arrives
  <1>2. /\ SessionsOnce' <=> SessionsOnce
        /\ QueuedOnce' <=> QueuedOnce
        /\ NoneAborted' <=> NoneAborted
        /\ AcceptsOnce' <=> AcceptsOnce
    BY DEF SessionsOnce, QueuedOnce, NoneAborted, AcceptsOnce
  <1>3. SessionInv /\ Serving => Busy' /\ NewAreNotLive' /\ OutsideAreNotLive'
    BY <1>1 DEF SessionInv, Busy, NewAreNotLive, OutsideAreNotLive
  <1> QED
    BY <1>2, <1>3 DEF SessionInv

\* The operation of a session completes: it is queued, and does not wait any more.
LEMMA SessionCompletes ==
  ASSUME TypeOK, SessionInv, NEW c \in Clients, NEW op \in Operations, NEW ec \in {"ok", "error"},
         Completes(c, op, ec), \A d \in Clients : Outside(d)' => Outside(d)
  PROVE  SessionInv'
  <1> SUFFICES ASSUME Serving'
               PROVE  SessionInv'
    BY DEF SessionInv
  <1>1. Serving /\ UNCHANGED <<sessions, server>>
    BY DEF Serving, Running, Completes
  <1> DEFINE h == Handler(op, c, ec)
  <1>2. h \in Handlers /\ h.op = op /\ h.c = c /\ h.ec = ec /\ op \notin {"accept", "signal"}
    BY HandlerType, OperationFields DEF Codes
  <1>3. /\ pend[c] = op /\ op # "none" /\ pend' = [pend EXCEPT ![c] = "none"]
        /\ ready' = Append(ready, h)
    BY DEF Completes, Operations
  <1> HIDE DEF h
  <1>4. /\ DOMAIN ready' = DOMAIN ready \cup {Len(ready) + 1} /\ Len(ready) + 1 \notin DOMAIN ready
        /\ \A n \in DOMAIN ready : ready'[n] = ready[n]
        /\ ready'[Len(ready) + 1] = h
    BY <1>2, <1>3, Enqueued
  <1>5. Waiting(c) /\ Live(c) /\ ~Queued(c)
    BY <1>1, <1>3 DEF Waiting, SessionInv, Busy
  <1>6. ~Waiting(c)' /\ \A d \in Clients : d # c => (Waiting(d)' <=> Waiting(d))
    BY <1>3 DEF TypeOK, Waiting
  <1>7. Queued(c)' /\ \A d \in Clients : d # c => (Queued(d)' <=> Queued(d))
    BY <1>2, <1>4, QueuedIs DEF IsOperation
  <1>8. \A d : (Live(d)' <=> Live(d)) /\ (Arrives(d)' => Arrives(d))
    <2>1. \A d : h # Handler("accept", d, "ok")
      BY <1>2 DEF Handler
    <2> QED
      BY <1>1, <1>4, <2>1 DEF Live, Arrives
  <1>9. Busy'
    BY <1>1, <1>5, <1>6, <1>7, <1>8 DEF SessionInv, Busy
  <1>10. QueuedOnce'
    BY <1>1, <1>2, <1>4, <1>5, QueuedIs DEF SessionInv, QueuedOnce, IsOperation
  <1>11. NoneAborted' /\ AcceptsOnce'
    BY <1>1, <1>2, <1>4 DEF SessionInv, NoneAborted, AcceptsOnce
  <1>12. SessionsOnce' /\ NewAreNotLive' /\ OutsideAreNotLive'
    BY <1>1, <1>8 DEF SessionInv, SessionsOnce, NewAreNotLive, OutsideAreNotLive
  <1> QED
    BY <1>9, <1>10, <1>11, <1>12 DEF SessionInv

\* A handler of TServer, or its signal's, is queued.
LEMMA SessionEnqueues ==
  ASSUME TypeOK, SessionInv, Serving, NEW h \in Handlers, h.op \in {"accept", "signal"},
         h.ec # "aborted", ready' = Append(ready, h), UNCHANGED <<sessions, pend>>,
         h.op = "accept" => server.accepting /\ ~server'.accepting,
         h.op # "accept" => server'.accepting = server.accepting,
         \A c \in Clients : Outside(c)' => Outside(c),
         \A c \in Clients : h = Handler("accept", c, "ok") => Outside(c) /\ ~Outside(c)'
  PROVE  SessionInv'
  <1>1. /\ DOMAIN ready' = DOMAIN ready \cup {Len(ready) + 1} /\ Len(ready) + 1 \notin DOMAIN ready
        /\ \A n \in DOMAIN ready : ready'[n] = ready[n]
        /\ ready'[Len(ready) + 1] = h
    BY Enqueued
  <1>2. ~IsOperation(h)
    BY DEF IsOperation, Operations
  <1>3. \A c \in Clients : /\ Live(c)' <=> Live(c)
                           /\ Waiting(c)' <=> Waiting(c)
                           /\ Queued(c)' <=> Queued(c)
    BY <1>1, <1>2, QueuedIs DEF Live, Waiting, IsOperation
  <1>4. Busy' /\ SessionsOnce' /\ OutsideAreNotLive'
    BY <1>3 DEF SessionInv, Busy, SessionsOnce, OutsideAreNotLive
  <1>5. QueuedOnce' /\ NoneAborted'
    BY <1>1, <1>2 DEF SessionInv, QueuedOnce, NoneAborted, IsOperation
  <1>6. AcceptsOnce'
    BY <1>1 DEF SessionInv, AcceptsOnce
  <1>7. NewAreNotLive'
    <2> SUFFICES ASSUME NEW c \in Clients, Arrives(c)'
                 PROVE  ~Live(c)' /\ ~Outside(c)'
      BY DEF NewAreNotLive
    <2>1. CASE Arrives(c)
      BY <1>3, <2>1 DEF SessionInv, NewAreNotLive
    <2>2. CASE ~Arrives(c)
      <3>1. h = Handler("accept", c, "ok")
        BY <1>1, <2>2 DEF Arrives
      <3> QED
        BY <1>3, <3>1 DEF SessionInv, OutsideAreNotLive
    <2> QED
      BY <2>1, <2>2
  <1> QED
    BY <1>4, <1>5, <1>6, <1>7 DEF SessionInv

\* A session's handler asks for the next operation.
LEMMA SessionGoesOn ==
  ASSUME TypeOK, SessionInv, Serving, NEW c \in Clients, NEW op \in Operations, NEW ec,
         Calls(op, c, ec), Live(c), NEW next \in Operations,
         pend' = [pend EXCEPT ![c] = next], UNCHANGED <<sessions, server>>
  PROVE  SessionInv'
  <1>1. /\ Queued(c) /\ ~Queued(c)'
        /\ \A d \in Clients : d # c => (Queued(d)' <=> Queued(d))
        /\ QueuedOnce' /\ NoneAborted'
        /\ \A n \in DOMAIN ready' : ready'[n] = ready[n + 1] /\ n + 1 \in DOMAIN ready /\ n \in Int
        /\ UNCHANGED peer
    BY CalledOperation
  <1>2. Waiting(c)' /\ \A d \in Clients : d # c => (Waiting(d)' <=> Waiting(d))
    BY DEF TypeOK, Waiting, Operations
  <1>3. \A d \in Clients : /\ Live(d)' <=> Live(d)
                           /\ Outside(d)' <=> Outside(d)
                           /\ Arrives(d)' => Arrives(d)
    BY <1>1 DEF Live, Arrives, Outside
  <1>4. Busy'
    BY <1>1, <1>2, <1>3 DEF SessionInv, Busy
  <1>5. AcceptsOnce'
    BY <1>1 DEF SessionInv, AcceptsOnce
  <1>6. SessionsOnce' /\ NewAreNotLive' /\ OutsideAreNotLive'
    BY <1>3 DEF SessionInv, SessionsOnce, NewAreNotLive, OutsideAreNotLive
  <1> QED
    BY <1>1, <1>4, <1>5, <1>6 DEF SessionInv

LEMMA StopLeaves ==
  ASSUME TypeOK, NEW c, Stop(c), SessionsOnce
  PROVE  /\ SessionsOnce' /\ ~Live(c)'
         /\ \A d : d # c => (Live(d)' <=> Live(d))
  <1>1. PICK n \in DOMAIN sessions : sessions[n] = c /\ sessions' = RemoveAt(sessions, n)
    BY DEF Stop
  <1>2. /\ Len(sessions) \in Nat /\ DOMAIN sessions = 1 .. Len(sessions)
        /\ DOMAIN sessions' = 1 .. Len(sessions) - 1
        /\ \A k \in 1 .. Len(sessions) - 1 :
               sessions'[k] = IF k < n THEN sessions[k] ELSE sessions[k + 1]
    BY <1>1, RemoveAtType DEF TypeOK
  <1> DEFINE from(k) == IF k < n THEN k ELSE k + 1
  <1>3. \A k \in DOMAIN sessions' : /\ from(k) \in DOMAIN sessions /\ from(k) # n
                                    /\ sessions'[k] = sessions[from(k)] /\ k \in Int
    BY <1>1, <1>2
  <1>4. \A j \in DOMAIN sessions : j # n => \E k \in DOMAIN sessions' : from(k) = j
    <2> SUFFICES ASSUME NEW j \in DOMAIN sessions, j # n
                 PROVE  \E k \in DOMAIN sessions' : from(k) = j
      OBVIOUS
    <2>1. CASE j < n
      BY <1>1, <1>2, <2>1
    <2>2. CASE j > n
      <3>1. j - 1 \in DOMAIN sessions' /\ from(j - 1) = j
        BY <1>1, <1>2, <2>2
      <3> QED
        BY <3>1
    <2> QED
      BY <1>1, <1>2, <2>1, <2>2
  <1>5. \A j, k \in DOMAIN sessions' : from(j) = from(k) => j = k
    BY <1>1, <1>2
  <1> HIDE DEF from
  <1>6. SessionsOnce'
    BY <1>3, <1>5 DEF SessionsOnce
  <1>7. ~Live(c)'
    BY <1>1, <1>3 DEF Live, SessionsOnce
  <1>8. ASSUME NEW d, d # c
        PROVE  Live(d)' <=> Live(d)
    <2>1. Live(d)' => Live(d)
      BY <1>3 DEF Live
    <2>2. ASSUME Live(d)
          PROVE  Live(d)'
      <3>1. PICK j \in DOMAIN sessions : sessions[j] = d
        BY <2>2 DEF Live
      <3>2. PICK k \in DOMAIN sessions' : from(k) = j
        BY <1>1, <1>4, <1>8, <3>1
      <3> QED
        BY <1>3, <3>1, <3>2 DEF Live
    <2> QED
      BY <2>1, <2>2
  <1> QED
    BY <1>6, <1>7, <1>8

\* A session's handler stops it.
LEMMA SessionStops ==
  ASSUME TypeOK, SessionInv, Serving, NEW c \in Clients, NEW op \in Operations, NEW ec,
         Calls(op, c, ec), Stop(c), UNCHANGED <<pend, server>>
  PROVE  SessionInv'
  <1>1. /\ Queued(c) /\ ~Queued(c)'
        /\ \A d \in Clients : d # c => (Queued(d)' <=> Queued(d))
        /\ QueuedOnce' /\ NoneAborted'
        /\ \A n \in DOMAIN ready' : ready'[n] = ready[n + 1] /\ n + 1 \in DOMAIN ready /\ n \in Int
        /\ UNCHANGED peer
    BY CalledOperation
  <1>2. \A d \in Clients : Waiting(d)' <=> Waiting(d)
    BY DEF Waiting
  <1>3. /\ SessionsOnce' /\ ~Live(c)'
        /\ \A d : d # c => (Live(d)' <=> Live(d))
    BY StopLeaves DEF SessionInv
  <1>4. \A d \in Clients : /\ Outside(d)' <=> Outside(d)
                           /\ Arrives(d)' => Arrives(d)
    BY <1>1 DEF Arrives, Outside
  <1>5. Busy'
    BY <1>1, <1>2, <1>3 DEF SessionInv, Busy
  <1>6. AcceptsOnce'
    BY <1>1 DEF SessionInv, AcceptsOnce
  <1>7. NewAreNotLive' /\ OutsideAreNotLive'
    BY <1>3, <1>4 DEF SessionInv, NewAreNotLive, OutsideAreNotLive
  <1> QED
    BY <1>1, <1>3, <1>5, <1>6, <1>7 DEF SessionInv

\* TServer serves a client that it has accepted.
LEMMA SessionBegins ==
  ASSUME TypeOK, SessionInv, NEW c \in Clients, OnAccept(c)
  PROVE  SessionInv'
  <1> SUFFICES ASSUME Serving'
               PROVE  SessionInv'
    BY DEF SessionInv
  <1>1. Serving
    BY DEF Serving, Running, OnAccept, Calls
  <1>2. /\ \A d \in Clients : Queued(d)' <=> Queued(d)
        /\ QueuedOnce' /\ NoneAborted'
        /\ \A n \in DOMAIN ready' : ready'[n].op # "accept"
        /\ \A n \in DOMAIN ready' : ready'[n] = ready[n + 1] /\ n + 1 \in DOMAIN ready /\ n \in Int
        /\ UNCHANGED peer
    BY <1>1, CalledOther DEF OnAccept
  <1>3. Arrives(c)
    BY Dequeued DEF OnAccept, Calls, Arrives
  <1>4. ~Live(c) /\ ~Outside(c) /\ ~Queued(c) /\ ~Waiting(c)
    BY <1>1, <1>3 DEF SessionInv, NewAreNotLive, Busy
  <1>5. /\ DOMAIN sessions' = DOMAIN sessions \cup {Len(sessions) + 1}
        /\ \A n \in DOMAIN sessions : sessions'[n] = sessions[n]
        /\ sessions'[Len(sessions) + 1] = c
    BY AppendType DEF OnAccept, TypeOK
  <1>6. SessionsOnce' /\ Live(c)' /\ \A d : d # c => (Live(d)' <=> Live(d))
    BY <1>1, <1>4, <1>5 DEF SessionInv, SessionsOnce, Live
  <1>7. Waiting(c)' /\ \A d \in Clients : d # c => (Waiting(d)' <=> Waiting(d))
    BY DEF OnAccept, TypeOK, Waiting
  <1>8. Busy'
    BY <1>1, <1>2, <1>4, <1>6, <1>7 DEF SessionInv, Busy
  <1>9. AcceptsOnce'
    BY <1>2 DEF AcceptsOnce
  <1>10. NewAreNotLive'
    <2>1. \A d \in Clients : ~Arrives(d)'
      BY <1>2 DEF Arrives, Handler
    <2> QED
      BY <2>1 DEF NewAreNotLive
  <1>11. OutsideAreNotLive'
    BY <1>1, <1>2, <1>4, <1>6 DEF SessionInv, OutsideAreNotLive, Outside
  <1> QED
    BY <1>2, <1>6, <1>8, <1>9, <1>10, <1>11 DEF SessionInv

LEMMA SessionAcceptsAgain ==
  ASSUME TypeOK, SessionInv, OnAcceptError
  PROVE  SessionInv'
  <1> SUFFICES ASSUME Serving'
               PROVE  SessionInv'
    BY DEF SessionInv
  <1>1. Serving /\ UNCHANGED <<sessions, pend>>
    BY DEF Serving, Running, OnAcceptError, Calls
  <1>2. /\ \A d \in Clients : Queued(d)' <=> Queued(d)
        /\ QueuedOnce' /\ NoneAborted'
        /\ \A n \in DOMAIN ready' : ready'[n].op # "accept"
        /\ UNCHANGED peer
    BY <1>1, CalledOther DEF OnAcceptError
  <1>3. \A d \in Clients : /\ Live(d)' <=> Live(d)
                           /\ Waiting(d)' <=> Waiting(d)
                           /\ Outside(d)' <=> Outside(d)
                           /\ ~Arrives(d)'
    BY <1>1, <1>2 DEF Live, Waiting, Outside, Arrives, Handler
  <1>4. Busy' /\ SessionsOnce' /\ AcceptsOnce' /\ NewAreNotLive' /\ OutsideAreNotLive'
    BY <1>1, <1>2, <1>3
       DEF SessionInv, Busy, SessionsOnce, AcceptsOnce, NewAreNotLive, OutsideAreNotLive
  <1> QED
    BY <1>2, <1>4 DEF SessionInv
LEMMA ThrowEnds ==
  ASSUME TypeOK, NEW end \in Ends \ {"running"}, Throws(end)
  PROVE  ~Running'
  BY DEF TypeOK, Throws, Running

LEMMA SessionHandlers ==
  ASSUME TypeOK, SessionInv, Run
  PROVE  SessionInv'
  <1> SUFFICES ASSUME Serving'
               PROVE  SessionInv'
    BY DEF SessionInv
  <1> USE DEF Operations, ParsedRequest
  <1>1. ASSUME NEW c \in Clients, AwaitRequest(c)
        PROVE  SessionInv'
    <2>1. Serving
      BY <1>1 DEF AwaitRequest, Serving, Running
    <2> QED
      BY <1>1, <2>1, SessionGoesOn DEF AwaitRequest
  <1>2. ASSUME NEW c \in Clients, ServeCached(c)
        PROVE  SessionInv'
    <2>1. Serving
      BY <1>2 DEF ServeCached, Serving, Running
    <2> QED
      BY <1>2, <2>1, SessionGoesOn DEF ServeCached
  <1>3. ASSUME NEW c \in Clients, WriteForeign(c)
        PROVE  SessionInv'
    <2>1. ~Throws("threw")
      BY ThrowEnds DEF Ends, Serving
    <2>2. Serving /\ pend' = [pend EXCEPT ![c] = "writeForeign"] /\ UNCHANGED <<sessions, server>>
      BY <1>3, <2>1 DEF WriteForeign, Serving, Running
    <2> QED
      BY <1>3, <2>2, SessionGoesOn DEF WriteForeign
  <1>4. ASSUME NEW c \in Clients, ReadForeign(c)
        PROVE  SessionInv'
    <2>1. Serving
      BY <1>4 DEF ReadForeign, Serving, Running
    <2> QED
      BY <1>4, <2>1, SessionGoesOn DEF ReadForeign
  <1>5. ASSUME NEW c \in Clients, ParsedResponse(c)
        PROVE  SessionInv'
    <2>1. ~Throws("threw")
      BY ThrowEnds DEF Ends, Serving
    <2>2. Serving /\ pend' = [pend EXCEPT ![c] = "writeClient"] /\ UNCHANGED <<sessions, server>>
      BY <1>5, <2>1 DEF ParsedResponse, Serving, Running
    <2> QED
      BY <1>5, <2>2, SessionGoesOn DEF ParsedResponse
  <1>6. ASSUME NEW c \in Clients, NEW ec \in Codes, OnWritten(c, ec)
        PROVE  SessionInv'
    <2>1. ~Throws("threw")
      BY ThrowEnds DEF Ends, Serving
    <2>2. Serving /\ Stop(c) /\ UNCHANGED <<pend, server>>
      BY <1>6, <2>1 DEF OnWritten, Serving, Running
    <2> QED
      BY <1>6, <2>2, SessionStops DEF OnWritten
  <1>7. ASSUME NEW c \in Clients, NEW op \in Operations, OnError(c, op)
        PROVE  SessionInv'
    <2>1. Serving
      BY <1>7 DEF OnError, Serving, Running
    <2> QED
      BY <1>7, <2>1, SessionStops DEF OnError
  <1>8. ASSUME NEW c \in Clients, NEW op \in Operations, OnAborted(c, op)
        PROVE  FALSE
    <2>1. Serving
      BY <1>8 DEF OnAborted, Serving, Running
    <2> QED
      BY <1>8, <2>1, CalledOperation DEF OnAborted
  <1>9. ASSUME NEW c \in Clients, NEW op \in Operations, NEW ec \in Codes, OnFreed(c, op, ec)
        PROVE  FALSE
    BY <1>9, ThrowEnds DEF OnFreed, Ends, Serving
  <1>10. ASSUME NEW c, OnAcceptClosed(c)
         PROVE  FALSE
    BY <1>10 DEF OnAcceptClosed, Serving
  <1>11. CASE OnSignal
    <2>1. ~Throws("undefined")
      BY ThrowEnds DEF Ends, Serving
    <2>2. server' = [server EXCEPT !.open = FALSE, !.accepting = FALSE]
      BY <1>11, <2>1 DEF OnSignal
    <2> QED
      BY <2>2 DEF Serving, TypeOK
  <1>12. CASE RunReturns
    BY <1>12, ThrowEnds DEF RunReturns, Ends, Serving
  <1> QED
    BY <1>1, <1>2, <1>3, <1>4, <1>5, <1>6, <1>7, <1>8, <1>9, <1>10, <1>11, <1>12,
       SessionBegins, SessionAcceptsAgain DEF Run

\* Once a client has been accepted it does not come again.
LEMMA OutsideLeft ==
  ASSUME TypeOK, NEW c \in Clients,
         \/ Connect(c) \/ SendRequest(c) \/ Leave(c)
         \/ Answer(c) \/ AnswerMore(c) \/ OriginCloses(c)
         \/ ClientReadable(c) \/ ForeignWritten(c) \/ ForeignReadable(c) \/ ClientWritten(c)
         \/ Accepted(c)
  PROVE  \A d \in Clients : Outside(d)' => Outside(d)
  <1>1. \A d \in Clients : d # c => peer'[d] = peer[d]
    BY DEF Connect, SendRequest, Leave, Answer, AnswerMore, OriginCloses, ClientReadable,
           ForeignWritten, ForeignReadable, ClientWritten, Accepted, TypeOK
  <1>2. CASE Connect(c)
    BY <1>1, <1>2 DEF Connect, Outside
  <1>3. CASE SendRequest(c)
    BY <1>1, <1>3 DEF SendRequest, Outside, TypeOK, Peers
  <1>4. CASE Leave(c) \/ Accepted(c)
    BY <1>1, <1>4 DEF Leave, Accepted, Outside, TypeOK, Peers
  <1>5. CASE ClientWritten(c)
    <2>1. peer'[c] = peer[c] \/ peer'[c].pc \in {"gone", "served"}
      BY <1>5 DEF ClientWritten, TypeOK, Peers
    <2> QED
      BY <1>1, <2>1 DEF Outside
  <1>6. CASE UNCHANGED peer
    BY <1>6 DEF Outside
  <1> QED
    BY <1>2, <1>3, <1>4, <1>5, <1>6
       DEF Answer, AnswerMore, OriginCloses, ClientReadable, ForeignWritten, ForeignReadable

LEMMA SessionNext == TypeOK /\ SessionInv /\ [Next]_vars => SessionInv'
  <1> SUFFICES ASSUME TypeOK, SessionInv, [Next]_vars
               PROVE  SessionInv'
    OBVIOUS
  <1> USE DEF Codes
  <1>1. ASSUME UNCHANGED <<sessions, pend, ready, server>>, \A c \in Clients : Outside(c)' => Outside(c)
        PROVE  SessionInv'
    BY <1>1, SessionQuiet DEF Serving, Running
  <1>2. ASSUME NEW c \in Clients, Environment(c) \/ Leave(c) \/ OriginCloses(c)
        PROVE  SessionInv'
    <2>1. UNCHANGED proxy
      BY <1>2 DEF Environment, Connect, SendRequest, Answer, AnswerMore, Leave, OriginCloses
    <2>2. \A d \in Clients : Outside(d)' => Outside(d)
      BY <1>2, OutsideLeft DEF Environment
    <2> QED
      BY <1>1, <2>1, <2>2 DEF proxy
  <1>3. ASSUME NEW c \in Clients, Completion(c)
        PROVE  SessionInv'
    <2>1. \A d \in Clients : Outside(d)' => Outside(d)
      BY <1>3, OutsideLeft DEF Completion
    <2>2. CASE \E op \in Operations, ec \in {"ok", "error"} : Completes(c, op, ec)
      BY <2>1, <2>2, SessionCompletes
    <2>3. CASE Accepted(c)
      <3> SUFFICES ASSUME Serving'
                   PROVE  SessionInv'
        BY DEF SessionInv
      <3>1. Serving
        BY <2>3 DEF Accepted, Serving, Running
      <3> DEFINE h == Handler("accept", c, "ok")
      <3>2. h \in Handlers /\ h.op = "accept" /\ h.ec = "ok" /\ h.c = c
        BY HandlerType, OperationFields
      <3>3. /\ ready' = Append(ready, h) /\ UNCHANGED <<sessions, pend>>
            /\ server.accepting /\ ~server'.accepting
        BY <2>3 DEF Accepted, TypeOK
      <3>4. Outside(c) /\ ~Outside(c)'
        BY <2>3 DEF Accepted, Outside, TypeOK, Peers
      <3>5. \A d \in Clients : h = Handler("accept", d, "ok") => d = c
        BY DEF Handler
      <3> HIDE DEF h
      <3> QED
        BY <2>1, <3>1, <3>2, <3>3, <3>4, <3>5, SessionEnqueues
    <2> QED
      BY <1>3, <2>2, <2>3 DEF Completion, ClientReadable, ForeignWritten, ForeignReadable,
                              ClientWritten, Operations
  <1>4. ASSUME AcceptFails \/ Signalled
        PROVE  SessionInv'
    <2> SUFFICES ASSUME Serving'
                 PROVE  SessionInv'
      BY DEF SessionInv
    <2>1. Serving /\ UNCHANGED <<peer, sessions, pend>>
      BY <1>4 DEF AcceptFails, Signalled, Serving, Running, TypeOK
    <2>2. \A d \in Clients : Outside(d)' => Outside(d)
      BY <2>1 DEF Outside
    <2> DEFINE h1 == Handler("accept", Nobody, "error")
               h2 == Handler("signal", Nobody, "ok")
    <2>3. /\ h1 \in Handlers /\ h1.op = "accept" /\ h1.ec = "error"
          /\ h2 \in Handlers /\ h2.op = "signal" /\ h2.ec = "ok"
      BY HandlerType, OperationFields
    <2>4. \A c : h1 # Handler("accept", c, "ok") /\ h2 # Handler("accept", c, "ok")
      BY DEF Handler
    <2>5. CASE AcceptFails
      <3>1. ready' = Append(ready, h1) /\ server.accepting /\ ~server'.accepting
        BY <2>5 DEF AcceptFails, TypeOK
      <3> HIDE DEF h1
      <3> QED
        BY <2>1, <2>2, <2>3, <2>4, <3>1, SessionEnqueues
    <2>6. CASE Signalled
      <3>1. ready' = Append(ready, h2) /\ server'.accepting = server.accepting
        BY <2>6 DEF Signalled, TypeOK
      <3> HIDE DEF h2
      <3> QED
        BY <2>1, <2>2, <2>3, <2>4, <3>1, SessionEnqueues
    <2> QED
      BY <1>4, <2>5, <2>6
  <1>5. CASE Run
    BY <1>5, SessionHandlers
  <1>6. CASE Tick \/ UNCHANGED vars
    <2>1. UNCHANGED <<peer, proxy>>
      BY <1>6 DEF Tick, vars, proxy
    <2> QED
      BY <1>1, <2>1 DEF Outside, proxy
  <1> QED
    BY <1>2, <1>3, <1>4, <1>5, <1>6 DEF Next, Troubles

---------------------------------------------------------------------------
(* After the signal.                                                       *)

LEMMA ClosedNext == TypeOK /\ Closed /\ [Next]_vars => Closed'
  <1> SUFFICES ASSUME TypeOK, Closed, [Next]_vars, Running', ~server'.open
               PROVE  sessions' = <<>> /\ \A c \in Clients : ~Waiting(c)'
    BY DEF Closed
  <1> USE DEF Running
  <1>1. ASSUME UNCHANGED <<sessions, pend, server>>
        PROVE  sessions' = <<>> /\ \A c \in Clients : ~Waiting(c)'
    BY <1>1 DEF Closed, Waiting
  <1>2. CASE \E c \in Clients : Environment(c) \/ Leave(c) \/ OriginCloses(c)
    BY <1>1, <1>2 DEF Environment, Connect, SendRequest, Answer, AnswerMore, Leave, OriginCloses,
                      proxy
  <1>3. CASE \E c \in Clients : Completion(c)
    <2>1. UNCHANGED sessions /\ server'.open = server.open /\ server'.end = server.end
      BY <1>3 DEF Completion, ClientReadable, ForeignWritten, ForeignReadable, ClientWritten,
                  Accepted, Completes, TypeOK
    <2>2. \A c \in Clients : Waiting(c)' => Waiting(c)
      BY <1>3 DEF Completion, ClientReadable, ForeignWritten, ForeignReadable, ClientWritten,
                  Accepted, Completes, TypeOK, Waiting
    <2> QED
      BY <2>1, <2>2 DEF Closed
  <1>4. CASE OnSignal
    <2>1. ~Throws("undefined")
      BY ThrowEnds DEF Ends
    <2> QED
      BY <1>4, <2>1 DEF OnSignal, Waiting
  <1>6. ASSUME Run, ~OnSignal
        PROVE  UNCHANGED <<sessions, pend>> /\ server.end = "running" /\ ~server.open
    <2>1. server.end = "running"
      BY <1>6 DEF Run, OnAccept, AwaitRequest, ServeCached, WriteForeign, ReadForeign,
                  ParsedRequest, ParsedResponse, OnWritten, OnError, OnAborted, OnFreed,
                  OnAcceptClosed, OnAcceptError, RunReturns, Calls
    <2>2. ~server.open
      BY <1>6 DEF Run, OnAccept, AwaitRequest, ServeCached, WriteForeign, ReadForeign,
                  ParsedRequest, ParsedResponse, OnWritten, OnError, OnAborted, OnFreed,
                  OnAcceptClosed, OnAcceptError, RunReturns, Throws, TypeOK
    <2>3. \A c : ~Live(c)
      BY <2>1, <2>2 DEF Closed, Live
    <2> QED
      BY <1>6, <2>1, <2>2, <2>3
         DEF Run, OnAccept, AwaitRequest, ServeCached, WriteForeign, ReadForeign,
             ParsedRequest, ParsedResponse, OnWritten, OnError, OnAborted, OnFreed,
             OnAcceptClosed, OnAcceptError, RunReturns
  <1>7. CASE Run
    BY <1>4, <1>6, <1>7 DEF Closed, Waiting
  <1>8. CASE AcceptFails \/ Signalled
    BY <1>8 DEF AcceptFails, Signalled, Closed, Waiting, TypeOK
  <1>9. CASE Tick \/ UNCHANGED vars
    BY <1>1, <1>9 DEF Tick, vars, proxy
  <1> QED
    BY <1>2, <1>3, <1>7, <1>8, <1>9 DEF Next, Troubles
---------------------------------------------------------------------------
(* Origins, and exceptions.                                                *)

LEMMA ServingBefore == TypeOK /\ [Next]_vars /\ Serving' => Serving
  <1> SUFFICES ASSUME TypeOK, [Next]_vars, Serving'
               PROVE  Serving
    OBVIOUS
  <1> USE DEF Serving, Running
  <1>1. CASE \E c \in Clients : Environment(c) \/ Leave(c) \/ OriginCloses(c)
    BY <1>1 DEF Environment, Connect, SendRequest, Answer, AnswerMore, Leave, OriginCloses, proxy
  <1>2. CASE \E c \in Clients : Completion(c)
    BY <1>2 DEF Completion, ClientReadable, ForeignWritten, ForeignReadable, ClientWritten,
                Accepted, Completes, TypeOK
  <1>3. CASE Run
    <2>1. server.end = "running"
      BY <1>3 DEF Run, OnAccept, AwaitRequest, ServeCached, WriteForeign, ReadForeign,
                  ParsedRequest, ParsedResponse, OnWritten, OnError, OnAborted, OnFreed,
                  OnAcceptClosed, OnAcceptError, OnSignal, RunReturns, Calls
    <2>2. server.open
      BY <1>3 DEF Run, OnAccept, AwaitRequest, ServeCached, WriteForeign, ReadForeign,
                  ParsedRequest, ParsedResponse, OnWritten, OnError, OnAborted, OnFreed,
                  OnAcceptClosed, OnAcceptError, OnSignal, RunReturns, Throws, TypeOK
    <2> QED
      BY <2>1, <2>2
  <1>4. CASE AcceptFails \/ Signalled
    BY <1>4 DEF AcceptFails, Signalled, TypeOK
  <1>5. CASE Tick \/ UNCHANGED vars
    BY <1>5 DEF Tick, vars, proxy
  <1> QED
    BY <1>1, <1>2, <1>3, <1>4, <1>5 DEF Next, Troubles

ReadsRequest(c) == \E n \in DOMAIN ready : ready[n].op = "readClient" /\ ready[n].c = c

LEMMA UnaskedIs ==
  ASSUME NEW c
  PROVE  /\ Unasked(c) <=> \/ Outside(c) \/ Arrives(c) \/ pend[c] \in {"readClient", "writeForeign"}
                           \/ ReadsRequest(c)
         /\ Unasked(c)' <=> \/ Outside(c)' \/ Arrives(c)'
                            \/ pend'[c] \in {"readClient", "writeForeign"} \/ ReadsRequest(c)'
  BY DEF Unasked, ReadsRequest, QueuedFor, Operations

\* A handler is called: the queue has no new ones.
LEMMA CallsQueue ==
  ASSUME TypeOK, NEW op, NEW c, NEW ec, Calls(op, c, ec)
  PROVE  /\ \A d : (Arrives(d)' => Arrives(d)) /\ (ReadsRequest(d)' => ReadsRequest(d))
         /\ \A d : Outside(d)' <=> Outside(d)
         /\ op = "readClient" => ReadsRequest(c)
         /\ op = "accept" /\ ec = "ok" => Arrives(c)
  <1>1. /\ ready # <<>> /\ ready' = Tail(ready) /\ ready[1] = Handler(op, c, ec) /\ UNCHANGED peer
        /\ 1 \in DOMAIN ready
    BY Dequeued DEF Calls
  <1>2. ready[1].op = op /\ ready[1].c = c
    BY <1>1, OperationFields
  <1>3. \A d : (Arrives(d)' => Arrives(d)) /\ (ReadsRequest(d)' => ReadsRequest(d))
    BY <1>1, Dequeued DEF Arrives, ReadsRequest
  <1> QED
    BY <1>1, <1>2, <1>3 DEF Arrives, ReadsRequest, Outside

LEMMA CompletesQueue ==
  ASSUME TypeOK, NEW c \in Clients, NEW op \in Operations, NEW ec \in {"ok", "error"},
         Completes(c, op, ec)
  PROVE  /\ \A d : Arrives(d)' => Arrives(d)
         /\ \A d : ReadsRequest(d)' => ReadsRequest(d) \/ (d = c /\ op = "readClient")
         /\ pend[c] = op /\ pend'[c] = "none"
         /\ \A d \in Clients : d # c => pend'[d] = pend[d]
  <1> DEFINE h == Handler(op, c, ec)
  <1>1. h \in Handlers /\ h.op = op /\ h.c = c /\ op \notin {"accept", "signal"}
    BY HandlerType, OperationFields DEF Codes
  <1>2. ready' = Append(ready, h)
    BY DEF Completes
  <1>3. \A d : h # Handler("accept", d, "ok")
    BY <1>1 DEF Handler
  <1> HIDE DEF h
  <1>4. /\ DOMAIN ready' = DOMAIN ready \cup {Len(ready) + 1}
        /\ \A n \in DOMAIN ready : ready'[n] = ready[n]
        /\ ready'[Len(ready) + 1] = h
    BY <1>1, <1>2, Enqueued
  <1>5. \A d : Arrives(d)' => Arrives(d)
    BY <1>3, <1>4 DEF Arrives
  <1>6. \A d : ReadsRequest(d)' => ReadsRequest(d) \/ (d = c /\ op = "readClient")
    BY <1>1, <1>4 DEF ReadsRequest
  <1> QED
    BY <1>5, <1>6 DEF Completes, TypeOK

\* A client whose request has been written stays so.
LEMMA UnaskedBefore ==
  ASSUME TypeOK, Next, Serving, Serving', NEW d \in Clients, Unasked(d)'
  PROVE  Unasked(d)
  <1> USE DEF Codes, Operations
  <1>1. CASE \E c \in Clients : Environment(c) \/ Leave(c) \/ OriginCloses(c)
    <2>1. UNCHANGED <<pend, ready>> /\ (Outside(d)' => Outside(d))
      BY <1>1, OutsideLeft DEF Environment, Connect, SendRequest, Answer, AnswerMore, Leave,
                               OriginCloses, proxy
    <2> QED
      BY <2>1, UnaskedIs DEF Arrives, ReadsRequest
  <1>2. ASSUME NEW c \in Clients, Completion(c)
        PROVE  Unasked(d)
    <2>1. Outside(d)' => Outside(d)
      BY <1>2, OutsideLeft DEF Completion
    <2>2. ASSUME NEW op \in Operations, NEW ec \in {"ok", "error"}, Completes(c, op, ec)
          PROVE  Unasked(d)
      BY <2>1, <2>2, UnaskedIs, CompletesQueue
    <2>3. CASE Accepted(c)
      <3> DEFINE h == Handler("accept", c, "ok")
      <3>1. h \in Handlers /\ h.op = "accept"
        BY HandlerType, OperationFields
      <3>2. ready' = Append(ready, h) /\ UNCHANGED pend /\ Outside(c)
        BY <2>3 DEF Accepted, Outside
      <3>3. h = Handler("accept", d, "ok") => d = c
        BY DEF Handler
      <3> HIDE DEF h
      <3>4. Arrives(d)' => Arrives(d) \/ d = c
        BY <3>1, <3>2, <3>3, Enqueued DEF Arrives
      <3>5. ReadsRequest(d)' => ReadsRequest(d)
        BY <3>1, <3>2, Enqueued DEF ReadsRequest
      <3> QED
        BY <2>1, <3>2, <3>4, <3>5, UnaskedIs
    <2> QED
      BY <1>2, <2>2, <2>3 DEF Completion, ClientReadable, ForeignWritten, ForeignReadable,
                              ClientWritten
  <1>3. CASE AcceptFails \/ Signalled
    <2>1. PICK h \in Handlers : /\ ready' = Append(ready, h) /\ UNCHANGED <<pend, peer>>
                                /\ h.op # "readClient" /\ h # Handler("accept", d, "ok")
      <3>1. CASE AcceptFails
        <4>1. Handler("accept", Nobody, "error") \in Handlers
          BY HandlerType
        <4> QED
          BY <3>1, <4>1 DEF AcceptFails, Handler
      <3>2. CASE Signalled
        <4>1. Handler("signal", Nobody, "ok") \in Handlers
          BY HandlerType
        <4> QED
          BY <3>2, <4>1 DEF Signalled, Handler
      <3> QED
        BY <1>3, <3>1, <3>2
    <2>2. (Arrives(d)' => Arrives(d)) /\ (ReadsRequest(d)' => ReadsRequest(d))
      BY <2>1, Enqueued DEF Arrives, ReadsRequest
    <2> QED
      BY <2>1, <2>2, UnaskedIs DEF Outside
  <1>4. ASSUME NEW op, NEW c, NEW ec, Calls(op, c, ec),
               \/ pend'[d] \in {"none", "readForeign", "writeClient"} \/ pend'[d] = pend[d]
               \/ c = d /\ (op = "readClient" \/ (op = "accept" /\ ec = "ok"))
        PROVE  Unasked(d)
    BY <1>4, CallsQueue, UnaskedIs
  <1>5. ASSUME NEW c \in Clients, OnAccept(c) \/ AwaitRequest(c) \/ WriteForeign(c)
        PROVE  Unasked(d)
    <2>1. d # c => pend'[d] = pend[d]
      BY <1>5 DEF OnAccept, AwaitRequest, WriteForeign, TypeOK
    <2>2. Calls("accept", c, "ok") \/ Calls("readClient", c, "ok")
      BY <1>5 DEF OnAccept, AwaitRequest, WriteForeign, ParsedRequest
    <2> QED
      BY <1>4, <2>1, <2>2
  <1>6. ASSUME NEW c \in Clients, ServeCached(c) \/ ReadForeign(c) \/ ParsedResponse(c)
        PROVE  Unasked(d)
    <2>1. pend'[d] \in {"readForeign", "writeClient"} \/ pend'[d] = pend[d]
      BY <1>6 DEF ServeCached, ReadForeign, ParsedResponse, TypeOK
    <2>2. \E op \in Operations : Calls(op, c, "ok")
      BY <1>6 DEF ServeCached, ReadForeign, ParsedResponse, ParsedRequest
    <2> QED
      BY <1>4, <2>1, <2>2
  <1>7. ASSUME NEW c, NEW ec \in Codes, NEW op \in Operations,
               \/ OnWritten(c, ec) \/ OnError(c, op) \/ OnAborted(c, op) \/ OnFreed(c, op, ec)
               \/ OnAcceptClosed(c) \/ OnAcceptError
        PROVE  Unasked(d)
    <2>1. pend' = pend /\ \E h, e, f : Calls(h, e, f)
      BY <1>7 DEF OnWritten, OnError, OnAborted, OnFreed, OnAcceptClosed, OnAcceptError
    <2> QED
      BY <1>4, <2>1
  <1>8. CASE OnSignal
    <2>1. ~Throws("undefined")
      BY ThrowEnds DEF Ends, Serving
    <2>2. server' = [server EXCEPT !.open = FALSE, !.accepting = FALSE]
      BY <1>8, <2>1 DEF OnSignal
    <2> QED
      BY <2>2 DEF Serving, TypeOK
  <1>9. CASE RunReturns
    BY <1>9, ThrowEnds DEF RunReturns, Ends, Serving
  <1>10. CASE Tick
    BY <1>10, UnaskedIs DEF Tick, proxy, Outside, Arrives, ReadsRequest
  <1> QED
    BY <1>1, <1>2, <1>3, <1>5, <1>6, <1>7, <1>8, <1>9, <1>10 DEF Next, Troubles, Run
\* What waits in a session is there only while the proxy serves.
LEMMA WaitingServes ==
  ASSUME Closed, Running, NEW c \in Clients, Waiting(c) \/ Live(c)
  PROVE  Serving
  BY DEF Closed, Serving, Live

LEMMA OriginSteps ==
  ASSUME [Next]_vars, origin' # origin
  PROVE  \E c \in Clients : Answer(c) \/ AnswerMore(c) \/ OriginCloses(c) \/ ForeignWritten(c)
  BY DEF Next, Environment, Completion, Run, Troubles, vars, proxy, Connect, SendRequest, Leave,
         ClientReadable, ForeignReadable, ClientWritten, Accepted, AcceptFails, Signalled, Tick,
         OnAccept, AwaitRequest, ServeCached, WriteForeign, ReadForeign, ParsedResponse,
         OnWritten, OnError, OnAborted, OnFreed, OnAcceptClosed, OnAcceptError, OnSignal,
         RunReturns

\* The origin of a client is idle until its request has been written.
LEMMA OriginIdleNext ==
  ASSUME TypeOK, SessionInv, OriginIdle, [Next]_vars
  PROVE  OriginIdle'
  <1> SUFFICES ASSUME Serving', NEW d \in Clients, Unasked(d)'
               PROVE  origin'[d].pc = "idle"
    BY DEF OriginIdle
  <1>1. Serving
    BY ServingBefore
  <1>2. Unasked(d)
    <2>1. CASE Next
      BY <1>1, <2>1, UnaskedBefore
    <2>2. CASE UNCHANGED vars
      BY <2>2, UnaskedIs DEF vars, Outside, Arrives, ReadsRequest
    <2> QED
      BY <2>1, <2>2
  <1>3. origin[d].pc = "idle"
    BY <1>1, <1>2 DEF OriginIdle
  <1>4. CASE origin' = origin
    BY <1>3, <1>4
  <1>5. ASSUME NEW c \in Clients, Answer(c) \/ AnswerMore(c) \/ OriginCloses(c)
        PROVE  origin'[d].pc = "idle"
    <2>1. c # d /\ origin'[d] = origin[d]
      BY <1>3, <1>5 DEF Answer, AnswerMore, OriginCloses, TypeOK
    <2> QED
      BY <1>3, <2>1
  <1>6. ASSUME NEW c \in Clients, ForeignWritten(c)
        PROVE  origin'[d].pc = "idle"
    <2>1. CASE c = d
      <3>1. PICK ec \in {"ok", "error"} : Completes(c, "writeForeign", ec)
        BY <1>6 DEF ForeignWritten
      <3>2. Waiting(c)
        BY <3>1 DEF Completes, Waiting
      <3>3. Live(c) /\ ~Queued(c)
        BY <1>1, <3>2 DEF SessionInv, Busy
      <3>4. ~Outside(c) /\ ~Arrives(c)
        BY <1>1, <3>3 DEF SessionInv, NewAreNotLive, OutsideAreNotLive
      <3>5. ~ReadsRequest(c)
        BY <3>3, QueuedIs DEF ReadsRequest, IsOperation, Operations
      <3>6. /\ ~Arrives(c)' /\ ~ReadsRequest(c)' /\ pend'[c] = "none"
        BY <3>1, <3>4, <3>5, CompletesQueue DEF Operations
      <3>7. ~Outside(c)'
        BY <1>6, <3>4, OutsideLeft
      <3> QED
        BY <2>1, <3>6, <3>7, UnaskedIs
    <2>2. CASE c # d
      BY <1>3, <1>6, <2>2 DEF ForeignWritten, TypeOK
    <2> QED
      BY <2>1, <2>2
  <1> QED
    BY <1>4, <1>5, <1>6, OriginSteps

LEMMA NoControlYetNext ==
  ASSUME TypeOK, Closed, OriginIdle, NoControlYet, [Next]_vars
  PROVE  NoControlYet'
  <1> SUFFICES ASSUME NEW d \in Clients, origin'[d].pc \in {"idle", "asked"}
               PROVE  origin'[d].control = <<>>
    BY DEF NoControlYet
  <1>1. CASE origin'[d] = origin[d]
    BY <1>1 DEF NoControlYet
  <1>2. ASSUME NEW c \in Clients, Answer(c) \/ AnswerMore(c) \/ OriginCloses(c)
        PROVE  origin'[d] = origin[d]
    <2>1. \A e \in Clients : e # c => origin'[e] = origin[e]
      BY <1>2 DEF Answer, AnswerMore, OriginCloses, TypeOK
    <2>2. origin'[c].pc \in {"answering", "closed"}
      BY <1>2 DEF Answer, AnswerMore, OriginCloses, TypeOK, Origins
    <2> QED
      BY <2>1, <2>2
  <1>3. ASSUME NEW c \in Clients, ForeignWritten(c)
        PROVE  origin'[d].control = <<>>
    <2>1. pend[c] = "writeForeign" /\ Running
      BY <1>3 DEF ForeignWritten, Completes
    <2>2. Serving
      BY <2>1, WaitingServes DEF Waiting
    <2>3. origin[c].pc = "idle"
      BY <2>1, <2>2, UnaskedIs DEF OriginIdle
    <2>4. origin[c].control = <<>>
      BY <2>3 DEF NoControlYet
    <2>5. origin'[c].control = origin[c].control
      BY <1>3 DEF ForeignWritten, TypeOK, Origins
    <2>6. d # c => origin'[d] = origin[d]
      BY <1>3 DEF ForeignWritten, TypeOK
    <2> QED
      BY <1>1, <2>4, <2>5, <2>6
  <1> QED
    BY <1>1, <1>2, <1>3, OriginSteps

\* A client that explains an exception.
Explains(c) ==
    \/ peer[c].pc = "gone" \/ origin[c].pc = "closed"
    \/ origin[c].pc = "idle" /\ session[c].request = Parts /\ c \in Faulty
    \/ \E n \in DOMAIN origin[c].control : origin[c].control[n] = Word("max-age")

LEMMA ThrowsForPeersNext ==
  ASSUME TypeOK, Closed, OriginIdle, NoControlYet, ThrowsForPeers, [Next]_vars
  PROVE  ThrowsForPeers'
  <1> SUFFICES ASSUME server'.end = "threw"
               PROVE  \E c \in Clients : Explains(c)'
    BY DEF ThrowsForPeers, Explains
  <1>1. CASE server.end = "threw"
    <2>1. PICK c \in Clients : Explains(c)
      BY <1>1 DEF ThrowsForPeers, Explains
    <2>2. \/ UNCHANGED vars
          \/ \E d \in Clients : Environment(d) \/ Leave(d) \/ OriginCloses(d)
      <3>1. ~Running
        BY <1>1 DEF Running
      <3>2. ~Run /\ ~AcceptFails /\ ~Signalled /\ ~Tick /\ \A d \in Clients : ~Completion(d)
        BY <3>1 DEF Run, Completion, Completes, Calls, AcceptFails, Signalled, Tick,
                    ClientReadable, ForeignWritten, ForeignReadable, ClientWritten, Accepted,
                    OnAccept, AwaitRequest, ServeCached, WriteForeign, ReadForeign, ParsedRequest,
                    ParsedResponse, OnWritten, OnError, OnAborted, OnFreed, OnAcceptClosed,
                    OnAcceptError, OnSignal, RunReturns
      <3> QED
        BY <3>2 DEF Next, Troubles
    <2>3. CASE UNCHANGED vars
      BY <2>1, <2>3 DEF Explains, vars
    <2>4. ASSUME NEW d \in Clients, Environment(d) \/ Leave(d) \/ OriginCloses(d)
          PROVE  Explains(c)'
      <3>1. session' = session
        BY <2>4 DEF Environment, Connect, SendRequest, Answer, AnswerMore, Leave, OriginCloses,
                    proxy
      <3>2. CASE peer[c].pc = "gone"
        <4>1. peer'[c].pc = "gone"
          BY <2>4, <3>2 DEF Environment, Connect, SendRequest, Answer, AnswerMore, Leave,
                            OriginCloses, TypeOK
        <4> QED
          BY <4>1 DEF Explains
      <3>3. CASE origin[c].pc \in {"closed", "idle"}
        <4>1. origin'[c].pc = origin[c].pc
          BY <2>4, <3>3 DEF Environment, Connect, SendRequest, Answer, AnswerMore, Leave,
                            OriginCloses, TypeOK, Origins
        <4>2. origin'[c].control = origin[c].control
          BY <2>4, <3>3 DEF Environment, Connect, SendRequest, Answer, AnswerMore, Leave,
                            OriginCloses, TypeOK, Origins
        <4>3. peer[c].pc # "gone" \/ peer'[c].pc = "gone"
          BY <2>4 DEF Environment, Connect, SendRequest, Answer, AnswerMore, Leave,
                      OriginCloses, TypeOK
        <4> QED
          BY <2>1, <3>1, <4>1, <4>2, <4>3 DEF Explains
      <3>4. CASE \E n \in DOMAIN origin[c].control : origin[c].control[n] = Word("max-age")
        <4>1. origin[c].control # <<>>
          BY <3>4
        <4>2. origin[c].pc # "asked"
          BY <4>1 DEF NoControlYet
        <4>3. c # d => origin'[c] = origin[c]
          BY <2>4 DEF Environment, Connect, SendRequest, Answer, AnswerMore, Leave, OriginCloses,
                      TypeOK
        <4>4. ASSUME Answer(d)
              PROVE  origin'[c].control = origin[c].control
          BY <4>2, <4>3, <4>4 DEF Answer
        <4>5. ASSUME AnswerMore(d) \/ OriginCloses(d)
              PROVE  origin'[c].control = origin[c].control
          BY <4>3, <4>5 DEF AnswerMore, OriginCloses, TypeOK, Origins
        <4>6. ASSUME UNCHANGED origin
              PROVE  origin'[c].control = origin[c].control
          BY <4>6
        <4>7. origin'[c].control = origin[c].control
          BY <2>4, <4>4, <4>5, <4>6 DEF Environment, Connect, SendRequest, Leave
        <4> QED
          BY <3>4, <4>7 DEF Explains
      <3> QED
        BY <2>1, <3>2, <3>3, <3>4 DEF Explains
    <2> QED
      BY <2>2, <2>3, <2>4
  <1>2. CASE server.end # "threw"
    <2>1. ASSUME NEW c \in Clients, WriteForeign(c), Throws("threw"), c \in Faulty
          PROVE  Explains(c)'
      <3>1. Running /\ Live(c) /\ Calls("readClient", c, "ok") /\ session[c].request = Parts
        BY <2>1 DEF WriteForeign, ParsedRequest, Calls
      <3>2. Serving /\ Unasked(c)
        BY <3>1, WaitingServes, CallsQueue, UnaskedIs
      <3>3. origin[c].pc = "idle"
        BY <3>2 DEF OriginIdle
      <3> QED
        BY <2>1, <3>1, <3>3 DEF WriteForeign, Explains
    <2>2. ASSUME NEW c \in Clients, ParsedResponse(c), Throws("threw")
          PROVE  Explains(c)'
      <3>1. UNCHANGED origin
        BY <2>2 DEF ParsedResponse
      <3>2. server' # server
        BY <1>2
      <3>3. CacheThrows(origin[c].control) \/ origin[c].pc = "closed"
        BY <2>2, <3>2 DEF ParsedResponse
      <3> QED
        BY <3>1, <3>3 DEF CacheThrows, Explains
    <2>3. ASSUME NEW c \in Clients, NEW ec \in Codes, OnWritten(c, ec), Throws("threw")
          PROVE  Explains(c)'
      <3>1. server' # server /\ peer' = peer
        BY <1>2, <2>3 DEF OnWritten, Calls
      <3> QED
        BY <2>3, <3>1 DEF OnWritten, Explains
    <2>4. \/ \E c \in Clients : WriteForeign(c) /\ Throws("threw") /\ c \in Faulty
          \/ \E c \in Clients : ParsedResponse(c) /\ Throws("threw")
          \/ \E c \in Clients, ec \in Codes : OnWritten(c, ec) /\ Throws("threw")
      <3>1. ASSUME server'.end = server.end
            PROVE  FALSE
        BY <1>2, <3>1
      <3>2. ~\E c \in Clients : Environment(c) \/ Leave(c) \/ OriginCloses(c)
        BY <3>1 DEF Environment, Connect, SendRequest, Answer, AnswerMore, Leave, OriginCloses,
                    proxy
      <3>3. ~\E c \in Clients : Completion(c)
        BY <3>1 DEF Completion, ClientReadable, ForeignWritten, ForeignReadable, ClientWritten,
                    Accepted, Completes, TypeOK
      <3>4. ~AcceptFails /\ ~Signalled /\ ~Tick /\ ~UNCHANGED vars
        BY <3>1 DEF AcceptFails, Signalled, Tick, proxy, vars, TypeOK
      <3>5. ~Throws("undefined") /\ ~Throws("returned")
        BY DEF Throws, TypeOK
      <3>6. Run
        BY <3>2, <3>3, <3>4 DEF Next, Troubles
      <3>7. ~OnSignal /\ ~RunReturns /\ ~OnAcceptError
        BY <3>1, <3>5 DEF OnSignal, RunReturns, OnAcceptError, TypeOK
      <3>8. \A c : ~OnAccept(c) /\ ~OnAcceptClosed(c)
        BY <3>1 DEF OnAccept, OnAcceptClosed, TypeOK
      <3>9. \A c, op, ec : ~OnError(c, op) /\ ~OnAborted(c, op) /\ ~OnFreed(c, op, ec)
        BY <3>1, <3>5 DEF OnError, OnAborted, OnFreed
      <3>10. \A c : ~AwaitRequest(c) /\ ~ServeCached(c) /\ ~ReadForeign(c)
        BY <3>1 DEF AwaitRequest, ServeCached, ReadForeign
      <3>11. server' # server
        BY <3>1
      <3>12. \/ \E c \in Clients : WriteForeign(c) \/ ParsedResponse(c)
             \/ \E c \in Clients, ec \in Codes : OnWritten(c, ec)
        BY <3>6, <3>7, <3>8, <3>9, <3>10 DEF Run
      <3> QED
        BY <3>11, <3>12 DEF WriteForeign, ParsedResponse, OnWritten
    <2> QED
      BY <2>1, <2>2, <2>3, <2>4
  <1> QED
    BY <1>1, <1>2
---------------------------------------------------------------------------
(* What is replied.                                                        *)

LEMMA RightReplyNext ==
  ASSUME TypeOK, CacheInv, RightReply, [Next]_vars
  PROVE  RightReply'
  <1> DEFINE Right(c, s) ==
        LET r == s.reply IN
        r # NoResponse =>
            /\ r.gzip => Gzip[c]
            /\ r.by # c =>
                   /\ \A n \in DOMAIN r.control : ~Forbids(r.control[n])
                   /\ LastAge(r.control) # {}
                   /\ \A n \in LastAge(r.control) :
                          IsAge(r.control[n]) => s.madeAt - r.at <= r.control[n].age
  <1> SUFFICES ASSUME NEW d \in Clients
               PROVE  Right(d, session'[d])
    BY DEF RightReply
  <1>1. Right(d, session[d])
    BY DEF RightReply
  <1>2. CASE session'[d].reply = session[d].reply /\ session'[d].madeAt = session[d].madeAt
    BY <1>1, <1>2
  <1>3. ASSUME NEW r \in Responses, NEW c \in Clients, session' = Reply(c, r), ~r.gzip,
               r.by = c \/ (Kept([response |-> r, expire |-> saved[Url[c]].expire])
                             /\ ~(saved[Url[c]].expire < now))
        PROVE  Right(d, session'[d])
    <2>1. CASE d # c
      <3>1. session'[d] = session[d]
        BY <1>3, <2>1 DEF Reply, TypeOK
      <3> QED
        BY <1>1, <3>1
    <2>2. CASE d = c
      <3> DEFINE q == [r EXCEPT !.gzip = @ \/ Gzip[c]]
      <3>1. /\ q.gzip = (r.gzip \/ Gzip[c]) /\ q.by = r.by /\ q.at = r.at /\ q.control = r.control
        BY DEF Responses
      <3> HIDE DEF q
      <3>2. session'[c].reply = q /\ session'[c].madeAt = now
        BY <1>3 DEF Reply, TypeOK, TSession, q
      <3>3. ASSUME r.by # c
            PROVE  /\ \A n \in DOMAIN r.control : ~Forbids(r.control[n])
                   /\ LastAge(r.control) # {}
                   /\ \A n \in LastAge(r.control) :
                          IsAge(r.control[n]) => now - r.at <= r.control[n].age
        <4> DEFINE expire == saved[Url[c]].expire
                   e == [response |-> r, expire |-> expire]
        <4>1. e.response = r /\ e.expire = expire
          OBVIOUS
        <4> HIDE DEF expire, e
        <4>2. Kept(e) /\ ~(expire < now)
          BY <1>3, <3>3 DEF e, expire
        <4>3. expire \in Int /\ now \in Int /\ r.at \in Int /\ r.control \in Seq(Directives)
          BY <4>1, <4>2, BoundsAssumption DEF Kept, Entries, TypeOK, Responses
        <4>4. PICK dur \in CacheDuration(r.control) : dur > 0 /\ expire = r.at + dur
          BY <4>1, <4>2 DEF Kept
        <4>5. /\ dur \in Int /\ \A n \in DOMAIN r.control : ~Forbids(r.control[n])
              /\ LastAge(r.control) # {}
              /\ \A n \in LastAge(r.control) : IsAge(r.control[n]) => dur = r.control[n].age
          BY <4>3, <4>4, Durations
        <4>6. now - r.at <= dur
          BY <4>2, <4>3, <4>4, <4>5
        <4> QED
          BY <4>5, <4>6
      <3>4. Right(c, session'[c])
        BY <1>3, <3>1, <3>2, <3>3
      <3> QED
        BY <2>2, <3>4
    <2> QED
      BY <2>1, <2>2
  <1> HIDE DEF Right
  <1>4. ASSUME NEW c \in Clients, ServeCached(c)
        PROVE  Right(d, session'[d])
    <2>1. StillGood(saved, Url[c], now) /\ session' = Reply(c, saved[Url[c]].response)
      BY <1>4 DEF ServeCached
    <2>2. Kept(saved[Url[c]]) /\ saved[Url[c]].response \in Responses
      BY <2>1, Served
    <2>3. saved[Url[c]] = [response |-> saved[Url[c]].response, expire |-> saved[Url[c]].expire]
      BY <2>2 DEF Kept, Entries
    <2>4. ~(saved[Url[c]].expire < now) /\ ~saved[Url[c]].response.gzip
      BY <2>1, <2>2 DEF StillGood, Kept
    <2> QED
      BY <1>3, <2>1, <2>2, <2>3, <2>4
  <1>5. ASSUME NEW c \in Clients, ParsedResponse(c)
        PROVE  Right(d, session'[d])
    <2> DEFINE response == [by |-> c, at |-> now, control |-> origin[c].control, gzip |-> FALSE]
    <2>1. response \in Responses /\ ~response.gzip /\ response.by = c
      BY DEF TypeOK, Responses, Origins
    <2>2. session' = Reply(c, response) \/ session' = session
      BY <1>5 DEF ParsedResponse
    <2> HIDE DEF response
    <2> QED
      BY <1>2, <1>3, <2>1, <2>2
  <1>6. ASSUME NEW c \in Clients, ClientReadable(c) \/ ForeignReadable(c)
        PROVE  Right(d, session'[d])
    <2>1. session'[d].reply = session[d].reply /\ session'[d].madeAt = session[d].madeAt
      <3>1. session \in [Clients -> TSession]
        BY DEF TypeOK
      <3>2. CASE ClientReadable(c)
        <4>1. session' = [session EXCEPT ![c].request = peer[c].sent]
          BY <3>2 DEF ClientReadable
        <4> QED
          BY <3>1, <4>1 DEF TSession
      <3>3. CASE ForeignReadable(c)
        <4>1. session' = [session EXCEPT ![c].response = origin[c].sent]
          BY <3>3 DEF ForeignReadable
        <4> QED
          BY <3>1, <4>1 DEF TSession
      <3> QED
        BY <1>6, <3>2, <3>3
    <2> QED
      BY <1>2, <2>1
  <1>7. \/ session' = session
        \/ \E c \in Clients : \/ ServeCached(c) \/ ParsedResponse(c)
                              \/ ClientReadable(c) \/ ForeignReadable(c)
    BY DEF Next, Environment, Completion, Run, Troubles, vars, proxy, Connect, SendRequest, Leave,
           Answer, AnswerMore, OriginCloses, ForeignWritten, ClientWritten, Accepted, AcceptFails,
           Signalled, Tick, OnAccept, AwaitRequest, WriteForeign, ReadForeign, OnWritten, OnError,
           OnAborted, OnFreed, OnAcceptClosed, OnAcceptError, OnSignal, RunReturns
  <1> QED
    BY <1>2, <1>4, <1>5, <1>6, <1>7

---------------------------------------------------------------------------
(* The theorems.                                                           *)

LEMMA InvInit == Init => SessionInv /\ Closed /\ ThrowInv /\ RightReply
  <1> SUFFICES ASSUME Init
               PROVE  SessionInv /\ Closed /\ ThrowInv /\ RightReply
    OBVIOUS
  <1>1. /\ sessions = <<>> /\ ready = <<>> /\ server.open /\ server.accepting
        /\ server.end = "running"
        /\ \A c \in Clients : pend[c] = "none" /\ origin[c].pc = "idle" /\ origin[c].control = <<>>
                              /\ session[c].reply = NoResponse
    BY DEF Init
  <1>2. DOMAIN sessions = {} /\ DOMAIN ready = {}
    BY <1>1
  <1>3. \A c : ~Live(c) /\ ~Queued(c) /\ ~Arrives(c)
    BY <1>2 DEF Live, Queued, QueuedFor, Arrives
  <1>4. SessionInv
    BY <1>1, <1>2, <1>3 DEF SessionInv, SessionsOnce, QueuedOnce, Busy, Waiting, NoneAborted,
                            AcceptsOnce, NewAreNotLive, OutsideAreNotLive
  <1> QED
    BY <1>1, <1>4 DEF Closed, ThrowInv, OriginIdle, NoControlYet, ThrowsForPeers, RightReply

LEMMA Invariants == Spec => []Inv
  <1>1. Init => Inv
    BY TypesInit, InvInit DEF Inv
  <1>2. Inv /\ [Next]_vars => Inv'
    BY TypesNext, SessionNext, ClosedNext, OriginIdleNext, NoControlYetNext, ThrowsForPeersNext,
       RightReplyNext DEF Inv, ThrowInv
  <1> QED
    BY <1>1, <1>2, PTL DEF Spec

\* The sessions, the queue of handlers and the cache have their types, whatever the
\* clients, the origins and the io_context do: Server.cpp, Session.cpp, Database.cpp.
THEOREM ProxyTypes == Spec => []TypeOK
  <1>1. Inv => TypeOK
    BY DEF Inv
  <1> QED
    BY <1>1, Invariants, PTL

\* OneOperation, for any number of clients: until the signal a TSession that is in the
\* list has one operation under way, and one that has been erased has none, so that no
\* handler is run on it.
THEOREM OneAtATime == Spec => []OneOperation
  <1>1. Inv => OneOperation
    <2> SUFFICES ASSUME Inv, Serving, NEW c \in Clients
                 PROVE  /\ Live(c) => InFlight(c) = 1
                        /\ ~Live(c) => InFlight(c) = 0
                        /\ \A m, n \in DOMAIN sessions : sessions[m] = c /\ sessions[n] = c => m = n
      BY DEF OneOperation, Serving
    <2>1. QueuedFor(c) = {} => Cardinality(QueuedFor(c)) = 0
      BY FS_EmptySet
    <2>2. QueuedFor(c) # {} => Cardinality(QueuedFor(c)) = 1
      <3> SUFFICES ASSUME NEW n \in QueuedFor(c)
                   PROVE  Cardinality(QueuedFor(c)) = 1
        OBVIOUS
      <3>1. QueuedFor(c) = {n}
        BY DEF Inv, SessionInv, QueuedOnce, QueuedFor, IsOperation
      <3> QED
        BY <3>1, FS_Singleton
    <2>3. Live(c) => InFlight(c) = 1
      BY <2>1, <2>2 DEF Inv, SessionInv, Busy, Waiting, Queued, InFlight
    <2>4. ~Live(c) => InFlight(c) = 0
      BY <2>1 DEF Inv, SessionInv, Busy, Waiting, Queued, InFlight
    <2> QED
      BY <2>3, <2>4 DEF Inv, SessionInv, SessionsOnce
  <1> QED
    BY <1>1, Invariants, PTL

\* NoneAfterClose, for any number of clients: after the handler of the signal, in
\* TServer's Run, there is no session, and none comes.
THEOREM SignalIsLast == Spec => []NoneAfterClose
  <1>1. Inv => NoneAfterClose
    BY DEF Inv, Closed, NoneAfterClose
  <1> QED
    BY <1>1, Invariants, PTL

\* ThrowsForPeers, for any number of clients: what ends run by an exception is shutdown,
\* connect or CacheDuration, and a peer has brought it about.
THEOREM PeersThrow == Spec => []ThrowsForPeers
  <1>1. Inv => ThrowsForPeers
    BY DEF Inv, ThrowInv
  <1> QED
    BY <1>1, Invariants, PTL

\* Every entry that CacheResponse has saved may be kept, and expires when its header
\* says, whoever has fetched it.
THEOREM CacheIsRight == Spec => []CacheInv
  <1>1. Inv => CacheInv
    BY DEF Inv
  <1> QED
    BY <1>1, Invariants, PTL

\* RightReply, for any number of clients, URLs and headers: what WriteClient sends is
\* gzip for who asked for it only, and if ServeCached found it, it may be kept and is
\* fresh.
THEOREM RepliesAreRight == Spec => []RightReply
  <1>1. Inv => RightReply
    BY DEF Inv
  <1> QED
    BY <1>1, Invariants, PTL
=============================================================================
