---------------------------- MODULE HttpMessage ----------------------------
(***************************************************************************)
(* The parsers of individual/lib/HTTP.cpp, THttpRequestParser and          *)
(* THttpResponseParser, and what a session makes of a message they have    *)
(* parsed before it passes it on: WriteForeign and ReadForeign of          *)
(* Session.cpp, Compress.cpp.  A message arrives symbol by symbol, and its *)
(* body may contain CR and LF.                                             *)
(***************************************************************************)
EXTENDS HttpHeaders

CONSTANTS Symbols,    \* what texts consist of
          FirstLines, \* for each kind of message
          Bodies,     \* the bodies of messages
          Chunkings,  \* sequences of non-empty chunks
          Others,     \* sequences of headers, as texts, that say nothing of the body's length
          Gaps        \* what may stand between the colon of a header and its value

Known == {" ", ",", ":", "CR", "LF", "gzip", "chunked", "zip", "Content-Length", "Transfer-Encoding",
          "Accept-Encoding", "Content-Encoding"} \cup {Numerals[n] : n \in DOMAIN Numerals}
IsLine(text) == text \in Seq(Symbols \ {"CR", "LF"})
\* A length has one numeral, and only Gzipped makes a body that begins with "zip".
IsBody(text) == text \in Seq(Symbols) /\ Len(text) <= 9 /\ (text # <<>> => text[1] # "zip")

ASSUME SymbolsAssumption == Known \subseteq Symbols
ASSUME LinesAssumption   == \A kind \in {"request", "response"} : \A text \in FirstLines[kind] : IsLine(text)
ASSUME BodiesAssumption  == /\ \A body \in Bodies : IsBody(body)
                            /\ \A chunks \in Chunkings :
                                   /\ chunks \in Seq(Seq(Symbols))
                                   /\ \A k \in DOMAIN chunks : IsBody(chunks[k]) /\ chunks[k] # <<>>
ASSUME OthersAssumption  == \A others \in Others :
                                /\ others \in Seq(Seq(Symbols))
                                /\ \A k \in DOMAIN others :
                                       /\ IsLine(others[k]) /\ others[k] # <<>>
                                       /\ ParseHeader(others[k]).key \notin {ContentLength, TransferEncoding}
ASSUME GapsAssumption    == \A gap \in Gaps : gap \in Seq({" "})

\* The messages that clients and origins send.  The body of a message ends as its
\* Content-Length says, or it comes in chunks, or there is none.
Sent(kinds, framings, chunks) ==
    UNION {[kind : {kind}, first : FirstLines[kind], framing : framings, chunks : chunks,
            others : Others, gap : Gaps] : kind \in kinds}
Messages == Sent({"request", "response"}, {"length"}, {<<b>> : b \in Bodies})
            \cup Sent({"request", "response"}, {"none"}, {<< <<>> >>})
            \cup Sent({"response"}, {"chunked"}, Chunkings)

Body(m) == FlattenSeq(m.chunks)
HeaderLines(m) ==
    m.others \o CASE m.framing = "length"  -> <<ContentLength \o <<":">> \o m.gap \o ToText(Len(Body(m)))>>
                  [] m.framing = "chunked" -> <<TransferEncoding \o <<":">> \o m.gap \o <<"chunked">>>>
                  [] m.framing = "none"    -> <<>>
Lines(texts) == FlattenSeq([k \in DOMAIN texts |-> texts[k] \o CRLF])
Wire(m) ==
    m.first \o CRLF \o Lines(HeaderLines(m)) \o CRLF
    \o IF m.framing = "chunked"
       THEN FlattenSeq([k \in DOMAIN m.chunks |-> ToText(Len(m.chunks[k])) \o CRLF \o m.chunks[k] \o CRLF])
            \o ToText(0) \o CRLF \o CRLF
       ELSE Body(m)

---------------------------------------------------------------------------
VARIABLES message,  \* what is sent
          wire,     \* the part of it that has not been consumed
          state,    \* State_
          line,     \* Parsed_ of the TUntilParser in use
          first,    \* what those of the first line have parsed
          list,     \* HeadersParser_
          left,     \* N_ of the TNParser in use
          data,     \* its Parsed_
          chunks,   \* ChunkedData_
          out       \* what the session passes on

vars == <<message, wire, state, line, first, list, left, data, chunks, out>>

NoMessage == [first |-> <<>>, headers |-> Headers(<<>>), data |-> <<>>]

Init == /\ message \in Messages
        /\ wire = Wire(message)
        /\ state = "LINE" /\ line = <<>> /\ first = <<>> /\ list = <<>>
        /\ left = 0 /\ data = <<>> /\ chunks = <<>>
        /\ out = NoMessage

\* A symbol is consumed in state s.
Consumes(s) == /\ state = s /\ wire # <<>>
               /\ wire' = Tail(wire)
               /\ UNCHANGED <<message, out>>
LineNow == Append(line, Head(wire))

\* METHOD, URL, HTTP_VERSION or HTTP_VERSION, STATUS_CODE, REASON.
Delimiter == IF Len(first) < 2 THEN <<" ">> ELSE CRLF
ConsumeLine ==
    /\ Consumes("LINE")
    /\ IF EndsWith(LineNow, Delimiter)
       THEN /\ first' = Append(first, Before(LineNow, Delimiter))
            /\ line' = <<>>
            /\ state' = IF Len(first) = 2 THEN "HEADERS" ELSE state
       ELSE line' = LineNow /\ UNCHANGED <<first, state>>
    /\ UNCHANGED <<list, left, data, chunks>>

\* What follows the headers.  Mutant: an empty body is waited for.
AfterHeadersNoEmpty(headers) ==
    IF message.kind = "response" /\ IsChunked(headers) THEN "CHUNK_LENGTH" ELSE "DATA"
AfterHeaders(headers) ==
    IF message.kind = "response" /\ IsChunked(headers) THEN "CHUNK_LENGTH"
    ELSE IF DataLength(headers) = 0 THEN "PARSED" ELSE "DATA"

ConsumeHeaders ==
    /\ Consumes("HEADERS")
    /\ IF ~EndsWith(LineNow, CRLF) THEN line' = LineNow /\ UNCHANGED <<state, list, left>>
       ELSE /\ line' = <<>>
            /\ IF LineNow = CRLF
               THEN /\ state' = AfterHeaders(Headers(list))
                    /\ left' = DataLength(Headers(list))
                    /\ UNCHANGED list
               ELSE /\ list' = Append(list, ParseHeader(Before(LineNow, CRLF)))
                    /\ UNCHANGED <<state, left>>
    /\ UNCHANGED <<first, data, chunks>>

\* TNParser::Consume.
ConsumeData ==
    /\ Consumes("DATA")
    /\ data' = Append(data, Head(wire))
    /\ left' = left - 1
    /\ state' = IF left = 1 THEN "PARSED" ELSE state
    /\ UNCHANGED <<line, first, list, chunks>>

\* A chunk is read with the CR and the LF that end it.
ConsumeChunkLength ==
    /\ Consumes("CHUNK_LENGTH")
    /\ IF ~EndsWith(LineNow, CRLF) THEN line' = LineNow /\ UNCHANGED <<state, left, data>>
       ELSE LET length == ToNumber(LineNow)
            IN  IF length = 0 THEN state' = "PARSED" /\ UNCHANGED <<line, left, data>>
                ELSE /\ state' = "CHUNK_DATA" /\ line' = <<>>
                     /\ left' = length + 2 /\ data' = <<>>
    /\ UNCHANGED <<first, list, chunks>>

\* Mutant: only the last chunk is kept.
ConsumeChunkLast ==
    /\ Consumes("CHUNK_DATA")
    /\ data' = Append(data, Head(wire))
    /\ left' = left - 1
    /\ IF left = 1 THEN state' = "CHUNK_LENGTH" /\ chunks' = data'
       ELSE UNCHANGED <<state, chunks>>
    /\ UNCHANGED <<line, first, list>>
ConsumeChunk ==
    /\ Consumes("CHUNK_DATA")
    /\ data' = Append(data, Head(wire))
    /\ left' = left - 1
    /\ IF left = 1 THEN state' = "CHUNK_LENGTH" /\ chunks' = chunks \o data'
       ELSE UNCHANGED <<state, chunks>>
    /\ UNCHANGED <<line, first, list>>

---------------------------------------------------------------------------
\* THttpRequestLine or THttpResponseStatusLine.  Mutant: a reason loses its spaces.
FirstLineNoSpace(m) ==
    m.first[1] \o <<" ">> \o m.first[2] \o <<" ">> \o SelectSeq(m.first[3], LAMBDA s : s # " ")
FirstLine(m) == m.first[1] \o <<" ">> \o m.first[2] \o <<" ">> \o m.first[3]
SerializeMessage(m) == FirstLine(m) \o CRLF \o Serialize(m.headers) \o CRLF \o m.data

UpdateContentLength(m) ==
    [m EXCEPT !.headers = Update(@, Header(ContentLength, ToText(Len(m.data))))]

\* THttpResponseParser::Parsed.  Mutant: the length is not set.
Response(body) == [first |-> first, headers |-> Headers(list), data |-> body]
ParsedNoLength ==
    IF IsChunked(Headers(list))
    THEN [Response(chunks) EXCEPT !.headers = RemoveKey(@, TransferEncoding)]
    ELSE Response(data)
Parsed ==
    IF IsChunked(Headers(list))
    THEN [UpdateContentLength(Response(chunks)) EXCEPT !.headers = RemoveKey(@, TransferEncoding)]
    ELSE Response(data)

IsCompressed(m) == Says(m.headers, ContentEncoding, <<"gzip">>)

Expanded(h) == IF h.key = ContentEncoding THEN [h EXCEPT !.value = @ \o <<",", " ", "gzip">>] ELSE h
ExpandContentEncoding(headers) ==
    Headers([k \in DOMAIN headers.list |-> Expanded(headers.list[k])]
            \o IF HasKey(headers.list, ContentEncoding) THEN <<>>
               ELSE <<Header(ContentEncoding, <<"gzip">>)>>)

\* A compressed body is the symbol "zip" and what it unpacks to.  Mutant: the body
\* is compressed whatever it is.
Gzipped(body) == <<"zip">> \o body
CompressAny(m) ==
    UpdateContentLength([m EXCEPT !.headers = ExpandContentEncoding(@), !.data = Gzipped(@)])
Compress(m) ==
    IF IsCompressed(m) THEN m
    ELSE UpdateContentLength([m EXCEPT !.headers = ExpandContentEncoding(@), !.data = Gzipped(@)])

\* The session.
PassRequest ==
    /\ message.kind = "request" /\ state = "PARSED" /\ out = NoMessage
    /\ out' = [first |-> first, headers |-> RemoveKey(Headers(list), AcceptEncoding), data |-> data]
    /\ UNCHANGED <<message, wire, state, line, first, list, left, data, chunks>>

PassResponse ==
    /\ message.kind = "response" /\ state = "PARSED" /\ out = NoMessage
    /\ out' \in {Parsed, Compress(Parsed)}
    /\ UNCHANGED <<message, wire, state, line, first, list, left, data, chunks>>

Next == \/ ConsumeLine \/ ConsumeHeaders \/ ConsumeData
        \/ ConsumeChunkLength \/ ConsumeChunk
        \/ PassRequest \/ PassResponse

Spec == Init /\ [][Next]_vars

\* What has arrived is consumed.
FairSpec == Spec /\ WF_vars(Next)

---------------------------------------------------------------------------
(* Properties.                                                             *)

Passed == out # NoMessage

\* Whether the first line has its two spaces, and the header that tells of the body the
\* one space that ParseHeader and from_chars want; SplitValue takes more of them.
WholeLine(m)  == \E i, j \in DOMAIN m.first : i < j /\ m.first[i] = " " /\ m.first[j] = " "
Understood(m) == /\ WholeLine(m)
                 /\ \/ m.framing = "none" \/ m.gap = <<" ">>
                    \/ m.framing = "chunked" /\ m.gap # <<>>

\* The message is passed on, and all of it has been read, but for the line after
\* the last chunk.
PassedOn ==
    WholeLine(message) =>
        <>(Passed /\ (Understood(message) => wire = IF message.framing = "chunked" THEN CRLF ELSE <<>>))

\* The two views that THttpHeaders keeps tell the same.
TwoViews ==
    Passed => /\ DOMAIN out.headers.values = {out.headers.list[k].key : k \in DOMAIN out.headers.list}
              /\ \A key \in DOMAIN out.headers.values :
                     out.headers.values[key] = FirstOf(out.headers.list, key)

\* Who reads the message that is passed on finds its end where it is: every
\* Content-Length is the length of the body, and without one there is no body.  It is not
\* said to be chunked.
Framed ==
    Passed /\ Understood(message) =>
        /\ \A k \in DOMAIN out.headers.list :
               LET h == out.headers.list[k]
               IN  /\ h.key = ContentLength => h.value = ToText(Len(out.data))
                   /\ h.key # TransferEncoding
        /\ ~HasKey(out.headers.list, ContentLength) => out.data = <<>>

\* Nothing of a body is lost or doubled: what comes out, unpacked, is what went in.  A
\* response is compressed only when it was not compressed already, and then its headers
\* say so.
Unpacked(body) == IF body # <<>> /\ body[1] = "zip" THEN Tail(body) ELSE body
BodyArrives ==
    Passed /\ Understood(message) =>
        /\ message.framing # "chunked" => Unpacked(out.data) = Body(message)
        /\ out.data # Unpacked(out.data) =>
               /\ message.kind = "response" /\ IsCompressed(out)
               /\ ~Says(Headers([k \in DOMAIN message.others |-> ParseHeader(message.others[k])]),
                        ContentEncoding, <<"gzip">>)

\* What is said of chunked bodies: the chunks, joined, are what comes out.  It is not so,
\* for the CR LF that ends a chunk on the wire is taken for a part of it.
ChunksArrive ==
    Passed /\ Understood(message) /\ message.framing = "chunked" => Unpacked(out.data) = Body(message)

\* No chunk is lost, doubled, cut or out of its order, be its CR LF left at its end or not.
ChunksInOrder ==
    Passed /\ Understood(message) /\ message.framing = "chunked" =>
        \E ends \in [DOMAIN message.chunks -> {<<>>, CRLF}] :
            Unpacked(out.data) = FlattenSeq([k \in DOMAIN message.chunks |-> message.chunks[k] \o ends[k]])

\* A body whose length is not understood is left out, all of it, and nothing takes its
\* place.  (Without its spaces the first line takes what follows it for its words, be it
\* the body.)
NoOtherBody == Passed /\ WholeLine(message) /\ ~Understood(message) => Unpacked(out.data) = <<>>

\* The first line arrives as it was sent, a reason of several words or of none among
\* them; and so does every header that the proxy has no business with, unless
\* there is no space after its colon: then the line gets a colon and a space at its end.
Meddles == {AcceptEncoding, ContentEncoding, ContentLength, TransferEncoding}
LinesArrive ==
    Passed /\ WholeLine(message) =>
        LET ours(t) == ParseHeader(t).key \in Meddles
            spaced(t) == \E k \in DOMAIN t : EndsWith(SubSeq(t, 1, k), ColonSpace)
            spelled(t) == IF ours(t) THEN <<>> ELSE IF spaced(t) THEN t \o CRLF ELSE t \o ColonSpace \o CRLF
            sent == [k \in DOMAIN message.others |-> spelled(message.others[k])]
        IN  /\ IsPrefix(message.first \o CRLF, SerializeMessage(out))
            /\ IsPrefix(FlattenSeq(sent), Serialize([list |-> Without(out.headers.list, Meddles)]))
=============================================================================
