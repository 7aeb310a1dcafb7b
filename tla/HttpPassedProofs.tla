-------------------------- MODULE HttpPassedProofs --------------------------
(***************************************************************************)
(* What a session passes on, proved for all messages that the assumptions  *)
(* of HttpMessage allow.  The argument: what the parser has consumed and   *)
(* what it still has to consume are together the message on the wire       *)
(* (Reading), so that at its end first line, headers and body are those of *)
(* the message (AtEnd); what a session makes of these (Outcome) has the    *)
(* properties of the module.                                               *)
(***************************************************************************)
EXTENDS HttpMessageProofs

---------------------------------------------------------------------------
(* The headers that the proxy changes.                                     *)

ExpandedAll(l) == [k \in DOMAIN l |-> Expanded(l[k])]
GzipHeader     == Header(ContentEncoding, <<"gzip">>)
LengthHeader(n) == Header(ContentLength, ToText(n))

LEMMA ExpandedIs ==
    ASSUME NEW h \in HeaderRecord
    PROVE  /\ Expanded(h) \in HeaderRecord /\ Expanded(h).key = h.key
           /\ h.key # ContentEncoding => Expanded(h) = h
           /\ h.key = ContentEncoding =>
                  h.value \in Text /\ Expanded(h).value = h.value \o <<",", " ", "gzip">>
<1>1. h.key \in Text /\ h = Header(h.key, h.value) /\ (h.key # ContentLength => h.value \in Text)
    BY HeaderFields
<1>2. CASE h.key # ContentEncoding
    BY <1>2 DEF Expanded
<1>3. CASE h.key = ContentEncoding
    <2> DEFINE v == h.value \o <<",", " ", "gzip">>
    <2>1. h.value \in Text
        BY <1>1, <1>3, KeysDiffer
    <2>2. v \in Text
        BY <2>1, KeyTypes, ConcatType
    <2>3. Expanded(h) = [h EXCEPT !.value = v]
        BY <1>3 DEF Expanded
    <2> HIDE DEF v
    <2>4. Expanded(h) = Header(h.key, v)
        BY <1>1, <2>3 DEF Header
    <2>5. v \in Values
        BY <2>2 DEF Values
    <2>6. Header(h.key, v) \in HeaderRecord /\ Header(h.key, v).key = h.key /\ Header(h.key, v).value = v
        BY <1>1, <2>2, <2>5, HeaderIsRecord
    <2> QED BY <1>3, <2>1, <2>4, <2>6 DEF v
<1> QED BY <1>2, <1>3

LEMMA GzipHeaderIs ==
    /\ GzipHeader \in HeaderRecord
    /\ GzipHeader.key = ContentEncoding /\ GzipHeader.value = <<"gzip">>
<1>1. <<"gzip">> \in Values
    BY KeyTypes DEF Values
<1> QED BY <1>1, KeyTypes, HeaderIsRecord DEF GzipHeader

LEMMA ExpandedElements ==
    ASSUME NEW l \in HeaderList
    PROVE  /\ ExpandedAll(l) \in HeaderList /\ Len(ExpandedAll(l)) = Len(l)
           /\ \A k \in 1 .. Len(l) : ExpandedAll(l)[k] = Expanded(l[k]) /\ ExpandedAll(l)[k].key = l[k].key
<1> DEFINE n == Len(l)
           x == ExpandedAll(l)
<1>1. n \in Nat /\ DOMAIN l = 1 .. n /\ \A k \in 1 .. n : l[k] \in HeaderRecord
    BY ListElements
<1>2. \A k \in 1 .. n : Expanded(l[k]) \in HeaderRecord /\ Expanded(l[k]).key = l[k].key
    BY <1>1, ExpandedIs
<1>3. x = [k \in 1 .. n |-> Expanded(l[k])]
    BY <1>1 DEF ExpandedAll
<1>4. \A k \in 1 .. n : x[k] = Expanded(l[k])
    BY <1>3
<1>5. x \in [1 .. n -> HeaderRecord]
    BY <1>2, <1>3
<1> HIDE DEF x, n
<1>6. x \in HeaderList /\ Len(x) = n
    BY <1>1, <1>5 DEF HeaderList
<1> QED BY <1>2, <1>4, <1>6 DEF x, n

\* The list of headers after ExpandContentEncoding.
ExpandedList(l) == IF HasKey(l, ContentEncoding) THEN ExpandedAll(l) ELSE Append(ExpandedAll(l), GzipHeader)

LEMMA ExpandIs ==
    ASSUME NEW headers, headers.list \in HeaderList
    PROVE  /\ ExpandedList(headers.list) \in HeaderList
           /\ ExpandContentEncoding(headers) = Headers(ExpandedList(headers.list))
<1> DEFINE l == headers.list
           x == ExpandedAll(l)
<1>1. x \in HeaderList
    BY ExpandedElements
<1>2. ExpandContentEncoding(headers) =
          Headers(x \o IF HasKey(l, ContentEncoding) THEN <<>> ELSE <<GzipHeader>>)
    BY DEF ExpandContentEncoding, ExpandedAll, GzipHeader
<1> HIDE DEF x, l
<1>3. Append(x, GzipHeader) = x \o <<GzipHeader>> /\ Append(x, GzipHeader) \in HeaderList
    BY <1>1, GzipHeaderIs, AppendIsConcat, AppendHeaderElements DEF HeaderList
<1>4. x \o <<>> = x
    BY <1>1, ConcatEmptySeq DEF HeaderList
<1>5. CASE HasKey(l, ContentEncoding)
    <2>1. ExpandedList(l) = x /\ ExpandContentEncoding(headers) = Headers(x)
        BY <1>2, <1>4, <1>5 DEF ExpandedList, x
    <2> QED BY <1>1, <2>1 DEF l
<1>6. CASE ~HasKey(l, ContentEncoding)
    <2>1. ExpandedList(l) = Append(x, GzipHeader) /\ ExpandContentEncoding(headers) = Headers(Append(x, GzipHeader))
        BY <1>2, <1>3, <1>6 DEF ExpandedList, x
    <2> QED BY <1>3, <2>1 DEF l
<1> QED BY <1>5, <1>6

LEMMA ExpandAgrees ==
    ASSUME NEW headers, Agree(headers)
    PROVE  /\ Agree(ExpandContentEncoding(headers))
           /\ ExpandContentEncoding(headers).list = ExpandedList(headers.list)
<1>1. headers.list \in HeaderList
    BY DEF Agree
<1>2. /\ ExpandedList(headers.list) \in HeaderList
      /\ ExpandContentEncoding(headers) = Headers(ExpandedList(headers.list))
    BY <1>1, ExpandIs
<1> QED BY <1>2, HeadersAgree

\* The list of headers after Update.
UpdatedList(l, h) == IF HasKey(l, h.key) THEN Replaced(l, h) ELSE Append(l, h)

LEMMA UpdateIs ==
    ASSUME NEW headers, Agree(headers), NEW h \in HeaderRecord
    PROVE  /\ Agree(Update(headers, h))
           /\ Update(headers, h).list = UpdatedList(headers.list, h)
           /\ UpdatedList(headers.list, h) \in HeaderList
<1>1. Agree(Update(headers, h))
    BY UpdateAgrees
<1>2. HasValue(headers, h.key) <=> HasKey(headers.list, h.key)
    BY KeysAre DEF Agree, HasValue
<1>3. CASE HasKey(headers.list, h.key)
    <2>1. Update(headers, h).list = Replaced(headers.list, h)
        BY <1>2, <1>3 DEF Update, Replaced
    <2>2. Replaced(headers.list, h) \in HeaderList
        BY ReplacedElements DEF Agree
    <2> QED BY <1>1, <1>3, <2>1, <2>2 DEF UpdatedList
<1>4. CASE ~HasKey(headers.list, h.key)
    <2>1. Update(headers, h).list = Append(headers.list, h)
        BY <1>2, <1>4 DEF Update, AppendHeader
    <2>2. Append(headers.list, h) \in HeaderList
        BY AppendHeaderElements DEF Agree
    <2> QED BY <1>1, <1>4, <2>1, <2>2 DEF UpdatedList
<1> QED BY <1>3, <1>4

LEMMA RemoveIs ==
    ASSUME NEW headers, Agree(headers), NEW key
    PROVE  /\ Agree(RemoveKey(headers, key))
           /\ RemoveKey(headers, key).list = Without(headers.list, {key})
           /\ Without(headers.list, {key}) \in HeaderList
<1>1. Agree(RemoveKey(headers, key))
    BY RemoveAgrees
<1>2. RemoveKey(headers, key).list = Without(headers.list, {key})
    BY DEF RemoveKey
<1>3. Without(headers.list, {key}) \in HeaderList
    BY WithoutType DEF Agree
<1> QED BY <1>1, <1>2, <1>3

---------------------------------------------------------------------------
(* The messages that a session makes.                                      *)

LEMMA LengthUpdated ==
    ASSUME NEW f, NEW headers, NEW d \in Text, Agree(headers)
    PROVE  LET m == [first |-> f, headers |-> headers, data |-> d]
               u == UpdateContentLength(m)
               l == UpdatedList(headers.list, LengthHeader(Len(d)))
           IN  /\ u = [first |-> f, headers |-> Update(headers, LengthHeader(Len(d))), data |-> d]
               /\ Agree(u.headers) /\ u.headers.list = l /\ l \in HeaderList
<1> DEFINE n == Len(d)
           m == [first |-> f, headers |-> headers, data |-> d]
<1>1. n \in Nat
    BY TextElements
<1>2. UpdateContentLength(m) = [first |-> f, headers |-> Update(headers, LengthHeader(n)), data |-> d]
    BY DEF UpdateContentLength, LengthHeader
<1>3. LengthHeader(n) \in HeaderRecord
    BY <1>1, LengthHeaderIsRecord DEF LengthHeader
<1> HIDE DEF n
<1>4. /\ Agree(Update(headers, LengthHeader(n)))
      /\ Update(headers, LengthHeader(n)).list = UpdatedList(headers.list, LengthHeader(n))
      /\ UpdatedList(headers.list, LengthHeader(n)) \in HeaderList
    BY <1>3, UpdateIs
<1> QED BY <1>2, <1>4 DEF n
\* THttpResponseParser::Parsed.
ParsedList(l, c)    == IF IsChunked(Headers(l))
                       THEN Without(UpdatedList(l, LengthHeader(Len(c))), {TransferEncoding}) ELSE l
ParsedData(l, d, c) == IF IsChunked(Headers(l)) THEN c ELSE d

LEMMA ParsedIs ==
    ASSUME Typed
    PROVE  /\ Parsed = [first |-> first, headers |-> Parsed.headers, data |-> ParsedData(list, data, chunks)]
           /\ Agree(Parsed.headers) /\ Parsed.headers.list = ParsedList(list, chunks)
           /\ ParsedList(list, chunks) \in HeaderList /\ ParsedData(list, data, chunks) \in Text
<1>1. list \in HeaderList /\ data \in Text /\ chunks \in Text
    BY DEF Typed
<1>2. Agree(Headers(list)) /\ Headers(list).list = list
    BY <1>1, HeadersAgree
<1>3. CASE ~IsChunked(Headers(list))
    <2>1. Parsed = [first |-> first, headers |-> Headers(list), data |-> data]
        BY <1>3 DEF Parsed, Response
    <2>2. ParsedData(list, data, chunks) = data /\ ParsedList(list, chunks) = list
        BY <1>3 DEF ParsedData, ParsedList
    <2> QED BY <1>1, <1>2, <2>1, <2>2
<1>4. CASE IsChunked(Headers(list))
    <2> DEFINE u == UpdateContentLength(Response(chunks))
               new == Update(Headers(list), LengthHeader(Len(chunks)))
               l == UpdatedList(list, LengthHeader(Len(chunks)))
    <2>1. Response(chunks) = [first |-> first, headers |-> Headers(list), data |-> chunks]
        BY DEF Response
    <2>2. /\ u = [first |-> first, headers |-> new, data |-> chunks]
          /\ Agree(u.headers) /\ u.headers.list = l /\ l \in HeaderList
        BY <1>1, <1>2, <2>1, LengthUpdated
    <2>3. Parsed = [u EXCEPT !.headers = RemoveKey(@, TransferEncoding)]
        BY <1>4 DEF Parsed
    <2> HIDE DEF u, new, l
    <2>4. Parsed = [first |-> first, headers |-> RemoveKey(new, TransferEncoding), data |-> chunks]
        BY <2>2, <2>3
    <2>5. Agree(new) /\ new.list = l
        BY <2>2
    <2>6. /\ Agree(RemoveKey(new, TransferEncoding))
          /\ RemoveKey(new, TransferEncoding).list = Without(l, {TransferEncoding})
          /\ Without(l, {TransferEncoding}) \in HeaderList
        BY <2>5, RemoveIs
    <2>7. ParsedData(list, data, chunks) = chunks /\ ParsedList(list, chunks) = Without(l, {TransferEncoding})
        BY <1>4 DEF ParsedData, ParsedList, l
    <2> QED BY <1>1, <2>4, <2>6, <2>7
<1> QED BY <1>3, <1>4

\* Compress, of a response that is not compressed yet.
CompressedList(l, n) == UpdatedList(ExpandedList(l), LengthHeader(n))

LEMMA CompressIs ==
    ASSUME NEW f, NEW headers, NEW d \in Text, Agree(headers)
    PROVE  LET m == [first |-> f, headers |-> headers, data |-> d]
               c == Compress(m)
           IN  \/ c = m
               \/ /\ ~IsCompressed(m)
                  /\ c.first = f /\ c.data = Gzipped(d) /\ Gzipped(d) \in Text
                  /\ Agree(c.headers)
                  /\ c.headers.list = CompressedList(headers.list, Len(Gzipped(d)))
                  /\ CompressedList(headers.list, Len(Gzipped(d))) \in HeaderList
<1> DEFINE m == [first |-> f, headers |-> headers, data |-> d]
           x == ExpandContentEncoding(headers)
           g == Gzipped(d)
           r == [first |-> f, headers |-> x, data |-> g]
           u == UpdateContentLength(r)
<1>1. IsCompressed(m) => Compress(m) = m
    BY DEF Compress
<1>2. ASSUME ~IsCompressed(m) PROVE Compress(m) = u
    <2>1. [m EXCEPT !.headers = ExpandContentEncoding(@), !.data = Gzipped(@)] = r
        <3>1. [m EXCEPT !.headers = ExpandContentEncoding(@)] = [first |-> f, headers |-> x, data |-> d]
            OBVIOUS
        <3> DEFINE y == [m EXCEPT !.headers = ExpandContentEncoding(@)]
        <3>2. [m EXCEPT !.headers = ExpandContentEncoding(@), !.data = Gzipped(@)] = [y EXCEPT !.data = Gzipped(@)]
            OBVIOUS
        <3>3. [y EXCEPT !.data = Gzipped(@)] = r
            <4> HIDE DEF x
            <4>1. y = [first |-> f, headers |-> x, data |-> d]
                BY <3>1
            <4> HIDE DEF y, m, g
            <4>2. [y EXCEPT !.data = g] = r
                BY <4>1
            <4>3. Gzipped(y.data) = g
                BY <4>1 DEF g
            <4> QED BY <4>2, <4>3
        <3> QED BY <3>2, <3>3
    <2>2. Compress(m) = UpdateContentLength([m EXCEPT !.headers = ExpandContentEncoding(@), !.data = Gzipped(@)])
        BY <1>2 DEF Compress
    <2> QED BY <2>1, <2>2
<1>3. g \in Text
    BY KeyTypes, ConcatType DEF Gzipped
<1>4. Agree(x) /\ x.list = ExpandedList(headers.list)
    BY ExpandAgrees
<1> HIDE DEF x, g
<1>5. /\ u = [first |-> f, headers |-> Update(x, LengthHeader(Len(g))), data |-> g]
      /\ Agree(u.headers)
      /\ u.headers.list = UpdatedList(x.list, LengthHeader(Len(g)))
      /\ UpdatedList(x.list, LengthHeader(Len(g))) \in HeaderList
    BY <1>3, <1>4, LengthUpdated
<1>6. UpdatedList(x.list, LengthHeader(Len(g))) = CompressedList(headers.list, Len(g))
    BY <1>4 DEF CompressedList
<1>7. u.first = f /\ u.data = g
    BY <1>5
<1> HIDE DEF u
<1> QED BY <1>1, <1>2, <1>3, <1>5, <1>6, <1>7 DEF g

\* What the session passes on: the list of its headers, and its body.
RequestPassed(m) == /\ m.headers.list = Without(list, {AcceptEncoding})
                    /\ m.data = data
ResponsePassed(m) ==
    LET l == ParsedList(list, chunks)
        d == ParsedData(list, data, chunks)
    IN  \/ m.headers.list = l /\ m.data = d
        \/ /\ m.headers.list = CompressedList(l, Len(Gzipped(d))) /\ m.data = Gzipped(d)
           /\ ~Says(Parsed.headers, ContentEncoding, <<"gzip">>)

LEMMA PassedIs ==
    ASSUME Typed, PassRequest \/ PassResponse
    PROVE  /\ state = "PARSED" /\ out'.first = first
           /\ Agree(out'.headers) /\ out'.data \in Text
           /\ message.kind = "request" => RequestPassed(out')
           /\ message.kind = "response" => ResponsePassed(out')
           /\ message.kind \in {"request", "response"}
<1>1. list \in HeaderList /\ data \in Text /\ chunks \in Text
    BY DEF Typed
<1>2. CASE PassRequest
    <2> DEFINE h == RemoveKey(Headers(list), AcceptEncoding)
    <2>1. /\ message.kind = "request" /\ state = "PARSED"
          /\ out' = [first |-> first, headers |-> h, data |-> data]
        BY <1>2 DEF PassRequest
    <2>2. Agree(h) /\ h.list = Without(list, {AcceptEncoding})
        <3>1. Agree(Headers(list)) /\ Headers(list).list = list
            BY <1>1, HeadersAgree
        <3> HIDE DEF h
        <3>2. /\ Agree(RemoveKey(Headers(list), AcceptEncoding))
              /\ RemoveKey(Headers(list), AcceptEncoding).list = Without(list, {AcceptEncoding})
            BY <3>1, RemoveIs
        <3> QED BY <3>2 DEF h
    <2> HIDE DEF h
    <2>3. RequestPassed(out')
        BY <2>1, <2>2 DEF RequestPassed
    <2> QED BY <1>1, <2>1, <2>2, <2>3
<1>3. CASE PassResponse
    <2> DEFINE h == Parsed.headers
               d == ParsedData(list, data, chunks)
               l == ParsedList(list, chunks)
               m == [first |-> first, headers |-> h, data |-> d]
    <2>1. message.kind = "response" /\ state = "PARSED" /\ out' \in {Parsed, Compress(Parsed)}
        BY <1>3 DEF PassResponse
    <2>2. Parsed = m /\ Agree(h) /\ h.list = l /\ d \in Text
        BY ParsedIs
    <2> HIDE DEF h, d, l
    <2>3. \/ Compress(m) = m
          \/ /\ ~IsCompressed(m)
             /\ Compress(m).first = first /\ Compress(m).data = Gzipped(d) /\ Gzipped(d) \in Text
             /\ Agree(Compress(m).headers)
             /\ Compress(m).headers.list = CompressedList(h.list, Len(Gzipped(d)))
        BY <2>2, CompressIs
    <2>4. CASE out' = m
        <3>1. out'.first = first /\ out'.headers = h /\ out'.data = d
            BY <2>4
        <3>2. ResponsePassed(out')
            BY <2>2, <3>1 DEF ResponsePassed, l, d
        <3> QED BY <2>1, <2>2, <3>1, <3>2
    <2>5. CASE out' = Compress(m) /\ Compress(m) # m
        <3>1. /\ ~IsCompressed(m)
              /\ out'.first = first /\ out'.data = Gzipped(d) /\ Gzipped(d) \in Text
              /\ Agree(out'.headers)
              /\ out'.headers.list = CompressedList(l, Len(Gzipped(d)))
            BY <2>2, <2>3, <2>5
        <3>2. ~Says(h, ContentEncoding, <<"gzip">>)
            BY <3>1 DEF IsCompressed
        <3>3. ResponsePassed(out')
            BY <3>1, <3>2 DEF ResponsePassed, l, d, h
        <3> QED BY <2>1, <3>1, <3>3
    <2> QED BY <2>1, <2>2, <2>3, <2>4, <2>5
<1> QED BY <1>2, <1>3

\* The other steps pass nothing on.
LEMMA OthersPassNothing ==
    ASSUME [Next]_vars, ~PassRequest, ~PassResponse
    PROVE  out' = out /\ message' = message
<1>1. CASE ConsumeLine \/ ConsumeHeaders \/ ConsumeData \/ ConsumeChunkLength \/ ConsumeChunk
    BY <1>1 DEF ConsumeLine, ConsumeHeaders, ConsumeData, ConsumeChunkLength, ConsumeChunk, Consumes
<1>2. CASE UNCHANGED vars
    BY <1>2 DEF vars
<1> QED BY <1>1, <1>2 DEF Next

---------------------------------------------------------------------------
(* The two views.                                                          *)

TwoViewsInv == Typed /\ (Passed => Agree(out.headers))

LEMMA TwoViewsKept == Spec => []TwoViewsInv
<1>1. Init => TwoViewsInv
    <2>1. Init => out = NoMessage
        BY DEF Init
    <2> QED BY <2>1, TypedInitially DEF TwoViewsInv, Passed
<1>2. TwoViewsInv /\ [Next]_vars => TwoViewsInv'
    <2>1. SUFFICES ASSUME TwoViewsInv, [Next]_vars PROVE TwoViewsInv'
        OBVIOUS
    <2>2. Typed /\ Typed'
        BY <2>1, TypedKept DEF TwoViewsInv
    <2>3. CASE PassRequest \/ PassResponse
        <3>1. Agree(out'.headers)
            BY <2>2, <2>3, PassedIs
        <3>2. Agree(out.headers)'
            BY <3>1 DEF Agree, Keys, FirstOf, FirstWith
        <3> QED BY <2>2, <3>2 DEF TwoViewsInv
    <2>4. CASE ~PassRequest /\ ~PassResponse
        <3>1. out' = out
            BY <2>1, <2>4, OthersPassNothing
        <3>2. (Passed => Agree(out.headers))'
            BY <2>1, <3>1 DEF TwoViewsInv, Passed, Agree, Keys, FirstOf, FirstWith
        <3> QED BY <2>2, <3>2 DEF TwoViewsInv
    <2> QED BY <2>3, <2>4
<1> QED BY <1>1, <1>2, PTL DEF Spec

\* The list and the map of the headers of a message that is passed on tell the same, whatever
\* was done to them: THttpHeaders::Append, Update and Remove, and the constructor after
\* ExpandContentEncoding.
THEOREM TwoViewsAlways == Spec => []TwoViews
<1>1. TwoViewsInv => TwoViews
    BY DEF TwoViewsInv, TwoViews, Agree, Keys
<1> QED BY <1>1, TwoViewsKept, PTL
---------------------------------------------------------------------------
(* Where the parser is in the message.                                     *)

\* The body as the parser reads it: the CR LF that ends a chunk is a part of it.
Received(m) == FlattenSeq([k \in DOMAIN m.chunks |->
                   IF m.framing = "chunked" THEN m.chunks[k] \o CRLF ELSE m.chunks[k]])

ChunksUpTo(m, n) == FlattenSeq(SubSeq(Ended(m.chunks), 1, n))
NextLine(m, n)   == IF n < Len(HeaderLines(m)) THEN HeaderLines(m)[n + 1] ELSE <<>>
AfterLine(m, n)  == IF n < Len(HeaderLines(m)) THEN HeadersFrom(m, n + 2) ELSE BodyPart(m)

LEMMA LineConcat ==
    ASSUME NEW s, IsLine(s), NEW t, IsLine(t) PROVE IsLine(s \o t)
    BY ConcatProperties DEF IsLine

LEMMA ConcatNotEmpty ==
    ASSUME NEW s \in Text, NEW t \in Text, Len(t) = 1 PROVE s \o t # <<>>
<1>1. t # <<>>
    BY EmptySeq
<1> QED BY <1>1, ConcatEqualIffEmpty DEF Text

LEMMA NumeralLine ==
    ASSUME NEW n \in 0 .. 9 PROVE IsLine(ToText(n))
<1> DEFINE x == Numerals[n + 1]
<1>1. x \in Known /\ x \notin {"CR", "LF"}
    BY NumeralType DEF Known
<1>2. x \in Symbols \ {"CR", "LF"}
    BY <1>1, KnownSymbols
<1> HIDE DEF x
<1>3. <<x>> \in Seq(Symbols \ {"CR", "LF"})
    BY <1>2
<1> QED BY <1>3 DEF IsLine, ToText, x

LEMMA SymbolLines ==
    /\ IsLine(<<>>) /\ IsLine(ContentLength) /\ IsLine(TransferEncoding)
    /\ IsLine(<<":">>) /\ IsLine(<<"chunked">>)
<1> DEFINE A == Symbols \ {"CR", "LF"}
<1>1. "Content-Length" \in A /\ "Transfer-Encoding" \in A /\ ":" \in A /\ "chunked" \in A
    BY KnownSymbols DEF Known
<1> HIDE DEF A
<1>2. /\ <<"Content-Length">> \in Seq(A) /\ <<"Transfer-Encoding">> \in Seq(A)
      /\ <<":">> \in Seq(A) /\ <<"chunked">> \in Seq(A)
    BY <1>1
<1>3. <<>> \in Seq(A)
    BY EmptySeq
<1> QED BY <1>2, <1>3 DEF A, IsLine, ContentLength, TransferEncoding

LEMMA GapLine ==
    ASSUME NEW gap \in Gaps PROVE IsLine(gap)
<1>1. gap \in Seq({" "})
    BY GapsAssumption
<1>2. " " \in Symbols \ {"CR", "LF"}
    BY KnownSymbols DEF Known
<1>3. {" "} \subseteq Symbols \ {"CR", "LF"}
    BY <1>2
<1> QED BY <1>1, <1>3, SeqMonotonic DEF IsLine

LEMMA HeaderLinesPlain ==
    ASSUME NEW m \in Messages
    PROVE  /\ Len(HeaderLines(m)) \in Nat
           /\ \A k \in 1 .. Len(HeaderLines(m)) : IsLine(HeaderLines(m)[k]) /\ HeaderLines(m)[k] # <<>>
<1> DEFINE s == m.others
           t == FramingHeader(m)
<1>1. s \in Seq(Text) /\ Len(s) \in Nat /\ \A k \in 1 .. Len(s) : IsLine(s[k]) /\ s[k] # <<>>
    BY MessageParts, OthersType
<1>2. CASE m.framing = "none"
    <2>1. HeaderLines(m) = s
        BY <1>2, HeaderLinesAre
    <2> QED BY <1>1, <2>1
<1>3. CASE m.framing # "none"
    <2>1. HeaderLines(m) = Append(s, t) /\ t \in Text
        BY <1>3, HeaderLinesAre, FramingHeaderType
    <2>2. IsLine(t) /\ t # <<>>
        <3>1. IsLine(m.gap) /\ m.gap \in Text
            BY MessageParts, GapLine, GapType
        <3>2. CASE m.framing = "length"
            <4> DEFINE c == ToText(Len(Body(m)))
            <4>1. Len(Body(m)) \in 0 .. 9
                BY <3>2, ChunksType, BodyType
            <4>2. IsLine(c) /\ c \in Text /\ Len(c) = 1
                BY <4>1, NumeralLine, NumeralType
            <4>3. t = ContentLength \o <<":">> \o m.gap \o c
                BY <3>2 DEF FramingHeader
            <4> HIDE DEF c, t
            <4>4. IsLine(t)
                BY <3>1, <4>2, <4>3, SymbolLines, LineConcat
            <4>5. ContentLength \o <<":">> \o m.gap \in Text
                BY <3>1, KeyTypes, DelimiterTypes, ConcatType
            <4>6. t # <<>>
                BY <4>2, <4>3, <4>5, ConcatNotEmpty
            <4> QED BY <4>4, <4>6
        <3>3. CASE m.framing # "length"
            <4> DEFINE c == <<"chunked">>
            <4>1. IsLine(c) /\ c \in Text /\ Len(c) = 1
                BY SymbolLines, KeyTypes
            <4>2. t = TransferEncoding \o <<":">> \o m.gap \o c
                BY <3>3 DEF FramingHeader
            <4> HIDE DEF c, t
            <4>3. IsLine(t)
                BY <3>1, <4>1, <4>2, SymbolLines, LineConcat
            <4>4. TransferEncoding \o <<":">> \o m.gap \in Text
                BY <3>1, KeyTypes, DelimiterTypes, ConcatType
            <4>5. t # <<>>
                BY <4>1, <4>2, <4>4, ConcatNotEmpty
            <4> QED BY <4>3, <4>5
        <3> QED BY <3>2, <3>3
    <2> HIDE DEF s, t
    <2>3. /\ Len(Append(s, t)) = Len(s) + 1 /\ Append(s, t)[Len(s) + 1] = t
          /\ \A k \in 1 .. Len(s) : Append(s, t)[k] = s[k]
        BY <1>1, <2>1, AppendProperties
    <2> DEFINE n == Len(s)
    <2>4. n \in Nat
        BY <1>1
    <2> HIDE DEF n
    <2>5. \A k \in 1 .. n + 1 : k = n + 1 \/ k \in 1 .. n
        BY <2>4
    <2>6. \A k \in 1 .. n + 1 : IsLine(Append(s, t)[k]) /\ Append(s, t)[k] # <<>>
        BY <1>1, <2>2, <2>3, <2>5 DEF n
    <2>7. n + 1 \in Nat
        BY <2>4
    <2> QED BY <2>1, <2>3, <2>6, <2>7 DEF n
<1> QED BY <1>2, <1>3

\* The line that comes after n headers: one more of them, or the empty line.
LEMMA NextLineIs ==
    ASSUME NEW m \in Messages, NEW n \in 0 .. Len(HeaderLines(m))
    PROVE  /\ HeadersFrom(m, n + 1) = NextLine(m, n) \o (CRLF \o AfterLine(m, n))
           /\ IsLine(NextLine(m, n)) /\ AfterLine(m, n) \in Text
           /\ n < Len(HeaderLines(m)) => NextLine(m, n) # <<>>
           /\ n = Len(HeaderLines(m)) => NextLine(m, n) = <<>> /\ AfterLine(m, n) = BodyPart(m)
<1> DEFINE r == Len(HeaderLines(m))
           j == n + 1
<1>1. r \in Nat /\ n \in 0 .. r /\ j \in Nat /\ j >= 1
    BY HeaderLinesPlain
<1>2. CASE n < r
    <2>1. j \in 1 .. r /\ n + 2 = j + 1 /\ j + 1 \in Nat /\ j + 1 >= 1 /\ n # r
        BY <1>1, <1>2
    <2> HIDE DEF j, r
    <2>2. HeadersFrom(m, j) = HeaderLines(m)[j] \o (CRLF \o HeadersFrom(m, j + 1))
        BY <1>1, <2>1, HeadersFromIs DEF r
    <2>3. HeadersFrom(m, j + 1) \in Text
        BY <2>1, HeadersFromIs
    <2>4. IsLine(HeaderLines(m)[j]) /\ HeaderLines(m)[j] # <<>>
        BY <2>1, HeaderLinesPlain DEF r
    <2>5. NextLine(m, n) = HeaderLines(m)[j]
        BY <1>2 DEF NextLine, j, r
    <2>6. AfterLine(m, n) = HeadersFrom(m, j + 1)
        BY <1>2, <2>1 DEF AfterLine, r
    <2> QED BY <2>1, <2>2, <2>3, <2>4, <2>5, <2>6 DEF r, j
<1>3. CASE n = r
    <2>1. j > r /\ ~(n < r)
        BY <1>1, <1>3
    <2> HIDE DEF j, r
    <2>2. HeadersFrom(m, j) = CRLF \o BodyPart(m)
        BY <1>1, <2>1, HeadersFromIs DEF r
    <2>3. NextLine(m, n) = <<>> /\ AfterLine(m, n) = BodyPart(m)
        BY <2>1 DEF NextLine, AfterLine, r
    <2>4. BodyPart(m) \in Text /\ CRLF \o BodyPart(m) \in Text
        BY BodyPartType, DelimiterTypes, ConcatType
    <2>5. <<>> \o (CRLF \o BodyPart(m)) = CRLF \o BodyPart(m)
        BY <2>4, ConcatEmptySeq DEF Text
    <2> QED BY <2>1, <2>2, <2>3, <2>4, <2>5, SymbolLines DEF r, j
<1>4. n < r \/ n = r
    BY <1>1
<1> QED BY <1>2, <1>3, <1>4

\* The chunks read so far.
LEMMA ChunksUpToIs ==
    ASSUME NEW m \in Messages
    PROVE  /\ ChunksUpTo(m, 0) = <<>>
           /\ \A n \in 1 .. Len(m.chunks) : ChunksUpTo(m, n) = ChunksUpTo(m, n - 1) \o (m.chunks[n] \o CRLF)
           /\ m.framing = "chunked" => ChunksUpTo(m, Len(m.chunks)) = Received(m)
<1> DEFINE s == Ended(m.chunks)
<1>1. m.chunks \in Seq(Text) /\ Len(m.chunks) \in Nat
    BY ChunksType
<1>2. s \in Seq(Text) /\ Len(s) = Len(m.chunks) /\ \A k \in 1 .. Len(m.chunks) : s[k] = m.chunks[k] \o CRLF
    BY <1>1, EndedType
<1>3. ChunksUpTo(m, 0) = <<>>
    <2>1. SubSeq(s, 1, 0) = <<>>
        BY <1>2, SubSeqEmpty
    <2> QED BY <2>1, FlattenEmpty DEF ChunksUpTo
<1>4. ASSUME NEW n \in 1 .. Len(m.chunks)
      PROVE  ChunksUpTo(m, n) = ChunksUpTo(m, n - 1) \o (m.chunks[n] \o CRLF)
    <2> HIDE DEF s
    <2>1. s \in Seq(Seq(Symbols)) /\ n \in 1 .. Len(s)
        BY <1>2 DEF Text
    <2>2. FlattenSeq(SubSeq(s, 1, n)) = FlattenSeq(SubSeq(s, 1, n - 1)) \o s[n]
        BY <2>1, FlattenUpTo
    <2> QED BY <1>2, <2>2 DEF ChunksUpTo, s
<1>5. ASSUME m.framing = "chunked" PROVE ChunksUpTo(m, Len(m.chunks)) = Received(m)
    <2>1. Received(m) = FlattenSeq(s)
        BY <1>5 DEF Received, Ended
    <2> HIDE DEF s
    <2>2. SubSeq(s, 1, Len(s)) = s
        BY <1>2, SubSeqFull
    <2> QED BY <1>2, <2>1, <2>2 DEF ChunksUpTo, s
<1> QED BY <1>3, <1>4, <1>5

FirstRead   == Len(first) = 3 /\ \A k \in 1 .. 3 : first[k] = TheWords(message)[k]
HeadersRead == FirstRead /\ list = ParsedHeaders(message)

AtLine == /\ Len(first) \in 0 .. 2 /\ \A k \in 1 .. Len(first) : first[k] = TheWords(message)[k]
          /\ line \o wire = AfterWord(message, Len(first))
          /\ Len(line) < Len(TheWords(message)[Len(first) + 1]) + Len(FirstDelimiter(Len(first) + 1))
          /\ list = <<>> /\ data = <<>> /\ chunks = <<>>

AtHeaders == /\ FirstRead
             /\ Len(list) \in 0 .. Len(HeaderLines(message))
             /\ \A k \in 1 .. Len(list) : list[k] = ParseHeader(HeaderLines(message)[k])
             /\ line \o wire = HeadersFrom(message, Len(list) + 1)
             /\ Len(line) < Len(NextLine(message, Len(list))) + 2
             /\ data = <<>> /\ chunks = <<>>

AtData == /\ HeadersRead /\ ~InChunks(message) /\ Announced(message) # 0
          /\ data \o wire = Body(message)
          /\ left \in Nat \ {0} /\ Len(data) + left = Len(Body(message))

AtLength == /\ HeadersRead /\ InChunks(message)
            /\ Len(line) < 3
            /\ \E n \in 1 .. Len(message.chunks) + 1 :
                   chunks = ChunksUpTo(message, n - 1) /\ line \o wire = ChunksFrom(message, n)

AtChunk == /\ HeadersRead /\ InChunks(message)
           /\ line = <<>> /\ left \in Nat \ {0}
           /\ \E n \in 1 .. Len(message.chunks) :
                  /\ chunks = ChunksUpTo(message, n - 1)
                  /\ data \o wire = (message.chunks[n] \o CRLF) \o ChunksFrom(message, n + 1)
                  /\ Len(data) + left = Len(message.chunks[n] \o CRLF)

AtEnd == /\ HeadersRead
         /\ InChunks(message) => chunks = Received(message)
         /\ ~InChunks(message) => data = IF Announced(message) # 0 THEN Body(message) ELSE <<>>

Reading == /\ state = "LINE"         => AtLine
           /\ state = "HEADERS"      => AtHeaders
           /\ state = "DATA"         => AtData
           /\ state = "CHUNK_LENGTH" => AtLength
           /\ state = "CHUNK_DATA"   => AtChunk
           /\ state = "PARSED"       => AtEnd
---------------------------------------------------------------------------
(* A step reads on.                                                        *)

LEMMA ConcatNone ==
    ASSUME NEW t \in Text PROVE <<>> \o t = t /\ t \o <<>> = t
    BY ConcatEmptySeq DEF Text

LEMMA DelimiterLength ==
    ASSUME NEW k PROVE FirstDelimiter(k) \in Text /\ Len(FirstDelimiter(k)) \in 1 .. 2
<1>1. Len(<<" ">>) \in 1 .. 2 /\ Len(CRLF) \in 1 .. 2
    <2>1. Len(<<" ">>) = 1
        OBVIOUS
    <2>2. Len(CRLF) = 2
        BY DelimiterTypes
    <2>3. 1 \in 1 .. 2 /\ 2 \in 1 .. 2
        OBVIOUS
    <2> QED BY <2>1, <2>2, <2>3
<1>2. CASE k < 3
    <2>1. FirstDelimiter(k) = <<" ">>
        BY <1>2 DEF FirstDelimiter
    <2> QED BY <1>1, <2>1, DelimiterTypes
<1>3. CASE ~(k < 3)
    <2>1. FirstDelimiter(k) = CRLF
        BY <1>3 DEF FirstDelimiter
    <2> QED BY <1>1, <2>1, DelimiterTypes
<1> QED BY <1>2, <1>3

\* A word of the first line more, and what is left after it.
LEMMA LineStep ==
    ASSUME Typed, WholeLine(message), AtLine
    PROVE  LET k == Len(first)
               t == TheWords(message)[k + 1]
               d == FirstDelimiter(k + 1)
           IN  /\ k \in 0 .. 2 /\ t \in Text /\ Delimiter = d
               /\ EndsWith(LineNow, d) => Before(LineNow, d) = t /\ Tail(wire) = AfterWord(message, k + 1)
               /\ ~EndsWith(LineNow, d) =>
                      LineNow \o Tail(wire) = AfterWord(message, k) /\ Len(LineNow) < Len(t) + Len(d)
<1> DEFINE k == Len(first)
           j == k + 1
           t == TheWords(message)[j]
           d == FirstDelimiter(j)
           rest == AfterWord(message, j)
<1>1. k \in 0 .. 2
    BY DEF AtLine
<1>12. line \o wire = AfterWord(message, k) /\ Len(line) < Len(t) + Len(d)
    BY DEF AtLine
<1>2. message \in Messages /\ line \in Text /\ wire \in Text /\ first \in Seq(Text)
    BY DEF Typed
<1>3. j \in 1 .. 3 /\ j \in 0 .. 3 /\ (j = 1 \/ j = 2 \/ j = 3)
    <2> HIDE DEF k
    <2> QED BY <1>1
<1>4. AfterWord(message, k) = t \o (d \o rest) /\ rest \in Text
    BY <1>1, <1>2, <1>3, AfterWordIs
<1>5. Delimiter = d
    BY <1>2, DelimiterIs
<1>6. t \in Text /\ IsLine(t)
    BY <1>2, <1>3, WordsType
<1>7. d \in Text
    BY DelimiterLength
<1>8. Clean(t, d)
    <2> HIDE DEF j
    <2>1. CASE j = 1 \/ j = 2
        <3>1. IsWord(t)
            BY <1>2, <2>1, WordsType
        <3>2. d = <<" ">>
            <4>1. j < 3
                BY <2>1
            <4> QED BY <4>1 DEF FirstDelimiter
        <3> QED BY <1>6, <3>1, <3>2, CleanWord
    <2>2. CASE j = 3
        <3>1. d = CRLF
            <4>1. ~(j < 3)
                BY <2>2
            <4> QED BY <4>1 DEF FirstDelimiter
        <3> QED BY <1>6, <3>1, CleanLine
    <2> QED BY <1>3, <2>1, <2>2
<1> HIDE DEF t, d, rest, j, k
<1>9. Waits(line, wire, t, d, rest)
    BY <1>2, <1>4, <1>6, <1>7, <1>8, <1>12 DEF Waits
<1>10. LET x == Append(line, Head(wire))
       IN  /\ wire # <<>>
           /\ EndsWith(x, d) => x = t \o d /\ Before(x, d) = t /\ Tail(wire) = rest
           /\ ~EndsWith(x, d) => x \o Tail(wire) = t \o (d \o rest) /\ Len(x) < Len(t) + Len(d)
    BY <1>9, UntilStep
<1>11. /\ EndsWith(LineNow, d) => Before(LineNow, d) = t /\ Tail(wire) = rest
       /\ ~EndsWith(LineNow, d) => LineNow \o Tail(wire) = t \o (d \o rest) /\ Len(LineNow) < Len(t) + Len(d)
    BY <1>10 DEF LineNow
<1> QED BY <1>1, <1>4, <1>5, <1>6, <1>11 DEF t, d, rest, j, k

LEMMA LineRead ==
    ASSUME Typed, WholeLine(message), AtLine, ConsumeLine, Typed'
    PROVE  \/ state' = "LINE" /\ AtLine'
           \/ state' = "HEADERS" /\ AtHeaders'
<1> DEFINE k == Len(first)
           t == TheWords(message)[k + 1]
           d == FirstDelimiter(k + 1)
<1>1. /\ k \in 0 .. 2 /\ t \in Text /\ Delimiter = d
      /\ EndsWith(LineNow, d) => Before(LineNow, d) = t /\ Tail(wire) = AfterWord(message, k + 1)
      /\ ~EndsWith(LineNow, d) =>
             LineNow \o Tail(wire) = AfterWord(message, k) /\ Len(LineNow) < Len(t) + Len(d)
    BY LineStep
<1>2. /\ state = "LINE" /\ wire' = Tail(wire) /\ message' = message
      /\ list' = list /\ data' = data /\ chunks' = chunks
    BY DEF ConsumeLine, Consumes
<1>3. /\ list = <<>> /\ data = <<>> /\ chunks = <<>>
      /\ \A i \in 1 .. k : first[i] = TheWords(message)[i]
    BY DEF AtLine
<1>4. message \in Messages /\ first \in Seq(Text)
    BY DEF Typed
<1>5. CASE ~EndsWith(LineNow, d)
    <2>1. line' = LineNow /\ first' = first /\ state' = state
        BY <1>1, <1>5 DEF ConsumeLine
    <2>2. AtLine'
        BY <1>1, <1>2, <1>3, <1>5, <2>1 DEF AtLine
    <2> QED BY <1>2, <2>1, <2>2
<1>6. CASE EndsWith(LineNow, d)
    <2>1. /\ first' = Append(first, t) /\ line' = <<>>
          /\ state' = IF k = 2 THEN "HEADERS" ELSE state
        BY <1>1, <1>6 DEF ConsumeLine
    <2>2. wire' = AfterWord(message, k + 1)
        BY <1>1, <1>2, <1>6
    <2> DEFINE j == k + 1
    <2>3. j \in 0 .. 3 /\ j \in 1 .. 3 /\ k \in Nat /\ (k = 2 <=> j = 3)
        <3> HIDE DEF k
        <3>1. k \in 0 .. 2
            BY <1>1
        <3> QED BY <3>1
    <2>4. /\ Len(first') = j
          /\ \A i \in 1 .. j : first'[i] = TheWords(message)[i]
        <3>1. /\ Len(Append(first, t)) = j /\ Append(first, t)[j] = t
              /\ \A i \in 1 .. k : Append(first, t)[i] = first[i]
            BY <1>1, <1>4, AppendProperties
        <3>2. \A i \in 1 .. j : i = j \/ i \in 1 .. k
            BY <2>3
        <3> HIDE DEF k
        <3> QED BY <1>3, <2>1, <3>1, <3>2
    <2>5. AfterWord(message, j) \in Text
        BY <1>4, <2>3, AfterWordIs
    <2>6. line' \o wire' = AfterWord(message, j)
        BY <2>1, <2>2, <2>5, ConcatNone
    <2>7. Len(line') = 0
        BY <2>1
    <2>8. CASE k # 2
        <3> HIDE DEF k
        <3>1. j \in 0 .. 2 /\ j + 1 \in 1 .. 3
            BY <2>3, <2>8
        <3> DEFINE a == Len(TheWords(message)[j + 1])
                   b == Len(FirstDelimiter(j + 1))
        <3>2. a \in Nat
            BY <1>4, <3>1, WordsType, TextElements
        <3>3. b \in 1 .. 2
            BY DelimiterLength
        <3> HIDE DEF a, b, j
        <3>4. Len(line') < a + b
            BY <2>7, <3>2, <3>3
        <3>5. AtLine'
            BY <1>2, <1>3, <2>4, <2>6, <3>1, <3>4 DEF AtLine, a, b
        <3> QED BY <1>2, <2>1, <2>8, <3>5
    <2>9. CASE k = 2
        <3>1. j = 3
            BY <2>9
        <3>2. FirstRead'
            BY <1>2, <2>4, <3>1 DEF FirstRead
        <3>3. line' \o wire' = HeadersFrom(message, 1)
            <4> HIDE DEF j, k
            <4>1. AfterWord(message, 3) = HeadersFrom(message, 1)
                BY DEF AfterWord
            <4> QED BY <2>6, <3>1, <4>1
        <3>4. list' = <<>> /\ Len(list') = 0
            BY <1>2, <1>3
        <3>5. Len(HeaderLines(message)) \in Nat
            BY <1>4, HeaderLinesPlain
        <3>6. Len(NextLine(message, 0)) \in Nat
            <4>1. 0 \in 0 .. Len(HeaderLines(message))
                BY <3>5
            <4> QED BY <1>4, <4>1, NextLineIs, LineType, TextElements
        <3> HIDE DEF j, k
        <3>7. Len(list') + 1 = 1
            BY <3>4
        <3>8. Len(line') < Len(NextLine(message, 0)) + 2
            BY <2>7, <3>6
        <3>9. Len(list') \in 0 .. Len(HeaderLines(message)) /\ 1 .. Len(list') = {}
            BY <3>4, <3>5
        <3>10. message' = message /\ data' = <<>> /\ chunks' = <<>>
            BY <1>2, <1>3
        <3>11. line' \o wire' = HeadersFrom(message', Len(list') + 1)
            BY <3>3, <3>7, <3>10
        <3>12. Len(line') < Len(NextLine(message', Len(list'))) + 2
            BY <3>4, <3>8, <3>10
        <3>13. AtHeaders'
            BY <3>2, <3>9, <3>10, <3>11, <3>12 DEF AtHeaders
        <3>14. state' = "HEADERS"
            BY <2>1, <2>9
        <3> QED BY <3>13, <3>14
    <2> QED BY <2>8, <2>9
<1> QED BY <1>5, <1>6
\* A line of the headers more, and what is left after it.
LEMMA HeaderStep ==
    ASSUME Typed, AtHeaders
    PROVE  LET n == Len(list)
               t == NextLine(message, n)
           IN  /\ n \in 0 .. Len(HeaderLines(message)) /\ t \in Text
               /\ EndsWith(LineNow, CRLF) =>
                      LineNow = t \o CRLF /\ Before(LineNow, CRLF) = t /\ Tail(wire) = AfterLine(message, n)
               /\ ~EndsWith(LineNow, CRLF) =>
                      LineNow \o Tail(wire) = HeadersFrom(message, n + 1) /\ Len(LineNow) < Len(t) + 2
<1> DEFINE n == Len(list)
           t == NextLine(message, n)
           rest == AfterLine(message, n)
<1>1. n \in 0 .. Len(HeaderLines(message))
    BY DEF AtHeaders
<1>2. line \o wire = HeadersFrom(message, n + 1) /\ Len(line) < Len(t) + 2
    BY DEF AtHeaders
<1>3. message \in Messages /\ line \in Text /\ wire \in Text
    BY DEF Typed
<1>4. HeadersFrom(message, n + 1) = t \o (CRLF \o rest) /\ IsLine(t) /\ rest \in Text
    BY <1>1, <1>3, NextLineIs
<1>5. t \in Text /\ Clean(t, CRLF) /\ CRLF \in Text
    BY <1>4, CleanLine, DelimiterTypes
<1>6. Len(CRLF) = 2
    BY DelimiterTypes
<1> HIDE DEF t, rest, n
<1>7. Waits(line, wire, t, CRLF, rest)
    BY <1>2, <1>3, <1>4, <1>5, <1>6 DEF Waits
<1>8. LET x == Append(line, Head(wire))
      IN  /\ wire # <<>>
          /\ EndsWith(x, CRLF) => x = t \o CRLF /\ Before(x, CRLF) = t /\ Tail(wire) = rest
          /\ ~EndsWith(x, CRLF) => x \o Tail(wire) = t \o (CRLF \o rest) /\ Len(x) < Len(t) + Len(CRLF)
    BY <1>7, UntilStep
<1>9. /\ EndsWith(LineNow, CRLF) => LineNow = t \o CRLF /\ Before(LineNow, CRLF) = t /\ Tail(wire) = rest
      /\ ~EndsWith(LineNow, CRLF) => LineNow \o Tail(wire) = t \o (CRLF \o rest) /\ Len(LineNow) < Len(t) + Len(CRLF)
    BY <1>8 DEF LineNow
<1> QED BY <1>1, <1>4, <1>5, <1>6, <1>9 DEF t, rest, n

\* A header more.
LEMMA HeaderRead ==
    ASSUME Typed, AtHeaders, ConsumeHeaders, EndsWith(LineNow, CRLF), Len(list) # Len(HeaderLines(message))
    PROVE  state' = "HEADERS" /\ AtHeaders'
<1> DEFINE n == Len(list)
           r == Len(HeaderLines(message))
           t == NextLine(message, n)
           h == ParseHeader(t)
<1>1. /\ n \in 0 .. r /\ t \in Text
      /\ LineNow = t \o CRLF /\ Before(LineNow, CRLF) = t /\ Tail(wire) = AfterLine(message, n)
    BY HeaderStep
<1>2. message \in Messages /\ list \in HeaderList
    BY DEF Typed
<1>3. r \in Nat
    BY <1>2, HeaderLinesPlain
<1>4. /\ state = "HEADERS" /\ wire' = Tail(wire) /\ message' = message
      /\ first' = first /\ data' = data /\ chunks' = chunks
    BY DEF ConsumeHeaders, Consumes
<1>5. FirstRead /\ data = <<>> /\ chunks = <<>> /\ \A k \in 1 .. n : list[k] = ParseHeader(HeaderLines(message)[k])
    BY DEF AtHeaders
<1>6. n < r
    <2> HIDE DEF n, r
    <2>1. n # r
        BY DEF n, r
    <2> QED BY <1>1, <1>3, <2>1
<1>7. t # <<>>
    BY <1>1, <1>2, <1>6, NextLineIs
<1>8. LineNow # CRLF
    <2>1. Len(t \o CRLF) = Len(t) + 2 /\ Len(CRLF) = 2 /\ Len(t) \in Nat
        <3>1. CRLF \in Text /\ Len(CRLF) = 2
            BY DelimiterTypes
        <3> HIDE DEF t
        <3>2. t \in Text
            BY <1>1
        <3>3. Len(t \o CRLF) = Len(t) + Len(CRLF) /\ Len(t) \in Nat
            BY <3>1, <3>2, ConcatText, TextElements
        <3> QED BY <3>1, <3>3
    <2>2. Len(t) # 0
        <3> HIDE DEF t
        <3> QED BY <1>1, <1>7, EmptySeq DEF Text
    <2> DEFINE a == Len(t)
    <2>3. a + 2 # 2
        <3>1. a \in Nat /\ a # 0
            BY <2>1, <2>2
        <3> HIDE DEF a
        <3> QED BY <3>1
    <2> HIDE DEF t
    <2>4. Len(LineNow) # Len(CRLF)
        BY <1>1, <2>1, <2>3 DEF a
    <2> QED BY <2>4
<1>9. line' = <<>> /\ list' = Append(list, h) /\ state' = state
    <2> HIDE DEF t, n, r
    <2> QED BY <1>1, <1>8 DEF ConsumeHeaders
<1>10. h \in HeaderRecord
    <2> HIDE DEF t
    <2> QED BY <1>1, ParseHeaderType
<1> DEFINE j == n + 1
<1>11. n \in Nat /\ j \in 0 .. r /\ j \in 1 .. j /\ \A k \in 1 .. j : k = j \/ k \in 1 .. n
    <2> HIDE DEF n, r
    <2> QED BY <1>1, <1>3, <1>6
<1>12. /\ Len(list') = j /\ list'[j] = h
       /\ \A k \in 1 .. n : list'[k] = list[k]
    <2> HIDE DEF h
    <2> QED BY <1>2, <1>9, <1>10, AppendHeaderElements
<1>13. h = ParseHeader(HeaderLines(message)[j])
    BY <1>6 DEF NextLine
<1>14. \A k \in 1 .. j : list'[k] = ParseHeader(HeaderLines(message)[k])
    <2> HIDE DEF h, n, j
    <2> QED BY <1>5, <1>11, <1>12, <1>13
<1>15. wire' = HeadersFrom(message, j + 1) /\ wire' \in Text
    <2>1. AfterLine(message, n) = HeadersFrom(message, n + 2)
        BY <1>6 DEF AfterLine
    <2>2. n + 2 = j + 1
        <3>1. n \in Nat
            BY <1>11
        <3> HIDE DEF n
        <3> QED BY <3>1
    <2>3. AfterLine(message, n) \in Text
        BY <1>1, <1>2, NextLineIs
    <2> HIDE DEF n, j
    <2> QED BY <1>1, <1>4, <2>1, <2>2, <2>3
<1>16. line' \o wire' = HeadersFrom(message, j + 1)
    <2> HIDE DEF j
    <2> QED BY <1>9, <1>15, ConcatNone
<1>17. Len(line') < Len(NextLine(message, j)) + 2
    <2>1. Len(line') = 0
        BY <1>9
    <2> HIDE DEF j
    <2>2. Len(NextLine(message, j)) \in Nat
        BY <1>2, <1>11, NextLineIs, LineType, TextElements DEF r
    <2> QED BY <2>1, <2>2
<1>18. FirstRead'
    BY <1>4, <1>5 DEF FirstRead
<1>19. data' = <<>> /\ chunks' = <<>>
    BY <1>4, <1>5
<1> HIDE DEF j, h, t, n
<1>20. Len(list') \in 0 .. Len(HeaderLines(message'))
    BY <1>4, <1>11, <1>12 DEF r
<1>21. \A k \in 1 .. Len(list') : list'[k] = ParseHeader(HeaderLines(message')[k])
    BY <1>4, <1>12, <1>14
<1>22. line' \o wire' = HeadersFrom(message', Len(list') + 1)
    BY <1>4, <1>12, <1>16
<1>23. Len(line') < Len(NextLine(message', Len(list'))) + 2
    BY <1>4, <1>12, <1>17
<1>24. AtHeaders'
    BY <1>18, <1>19, <1>20, <1>21, <1>22, <1>23 DEF AtHeaders
<1>25. state' = "HEADERS"
    BY <1>4, <1>9
<1> QED BY <1>24, <1>25

\* The empty line after the headers.
LEMMA HeadersEnd ==
    ASSUME Typed, AtHeaders, ConsumeHeaders, EndsWith(LineNow, CRLF), Len(list) = Len(HeaderLines(message))
    PROVE  \/ state' = "CHUNK_LENGTH" /\ AtLength'
           \/ state' = "PARSED" /\ AtEnd'
           \/ state' = "DATA" /\ AtData'
<1> DEFINE n == Len(list)
           r == Len(HeaderLines(message))
           p == ParsedHeaders(message)
<1>1. message \in Messages /\ list \in HeaderList
    BY DEF Typed
<1>2. NextLine(message, n) = <<>> /\ AfterLine(message, n) = BodyPart(message)
    <2>1. n \in 0 .. r /\ n = r
        BY HeaderStep
    <2> QED BY <1>1, <2>1, NextLineIs
<1>3. LineNow = CRLF /\ Tail(wire) = BodyPart(message)
    <2>1. LineNow = <<>> \o CRLF /\ Tail(wire) = BodyPart(message)
        BY <1>2, HeaderStep
    <2> QED BY <2>1, ConcatNone, DelimiterTypes
<1>4. /\ wire' = BodyPart(message) /\ message' = message
      /\ first' = first /\ data' = data /\ chunks' = chunks
    BY <1>3 DEF ConsumeHeaders, Consumes
<1>5. FirstRead /\ data = <<>> /\ chunks = <<>> /\ \A k \in 1 .. n : list[k] = ParseHeader(HeaderLines(message)[k])
    BY DEF AtHeaders
<1>6. list = p
    <2>1. p \in HeaderList /\ Len(p) = r /\ \A k \in 1 .. r : p[k] = ParseHeader(HeaderLines(message)[k])
        BY <1>1, ParsedHeadersAre
    <2>2. Len(list) = Len(p) /\ \A k \in 1 .. Len(list) : list[k] = p[k]
        <3> HIDE DEF p
        <3> QED BY <1>5, <2>1
    <2> HIDE DEF p
    <2> QED BY <1>1, <2>1, <2>2, SeqEqual DEF HeaderList
<1>7. /\ state' = AfterHeaders(Headers(list)) /\ left' = DataLength(Headers(list))
      /\ line' = <<>> /\ list' = list
    BY <1>3 DEF ConsumeHeaders
<1>8. DataLength(Headers(list)) = Announced(message) /\ (IsChunked(Headers(list)) <=> InChunks(message))
    <2> HIDE DEF p
    <2>1. /\ DataLength(Headers(p)) = Announced(message)
          /\ IsChunked(Headers(p)) <=> InChunks(message)
        BY <1>1, AnnouncedIs DEF p
    <2> QED BY <1>6, <2>1
<1>9. HeadersRead'
    BY <1>4, <1>5, <1>6, <1>7 DEF HeadersRead, FirstRead
<1>10. CASE InChunks(message)
    <2>1. message.framing = "chunked" /\ message.kind = "response"
        BY <1>1, <1>10, MessageParts DEF InChunks
    <2>2. state' = "CHUNK_LENGTH"
        BY <1>7, <1>8, <1>10, <2>1 DEF AfterHeaders
    <2>3. wire' = ChunksFrom(message, 1)
        BY <1>4, <2>1 DEF BodyPart
    <2>4. ChunksFrom(message, 1) \in Text
        <3>1. 1 \in Nat /\ 1 >= 1
            OBVIOUS
        <3> QED BY <1>1, <3>1, ChunksFromIs
    <2>5. line' \o wire' = ChunksFrom(message, 1) /\ Len(line') < 3
        BY <1>7, <2>3, <2>4, ConcatNone
    <2>6. chunks' = ChunksUpTo(message, 0)
        BY <1>1, <1>4, <1>5, ChunksUpToIs
    <2>7. 1 \in 1 .. Len(message.chunks) + 1
        BY <1>1, ChunksType
    <2>8. \E k \in 1 .. Len(message.chunks) + 1 :
              chunks' = ChunksUpTo(message, k - 1) /\ line' \o wire' = ChunksFrom(message, k)
        <3>1. chunks' = ChunksUpTo(message, 1 - 1)
            BY <2>6
        <3> QED BY <2>5, <2>7, <3>1
    <2>9. AtLength'
        BY <1>4, <1>9, <1>10, <2>5, <2>8 DEF AtLength
    <2> QED BY <2>2, <2>9
<1>11. CASE ~InChunks(message) /\ Announced(message) = 0
    <2>1. state' = "PARSED"
        BY <1>7, <1>8, <1>11 DEF AfterHeaders
    <2>2. data' = <<>>
        BY <1>4, <1>5
    <2>3. AtEnd'
        BY <1>4, <1>9, <1>11, <2>2 DEF AtEnd
    <2> QED BY <2>1, <2>3
<1>12. CASE ~InChunks(message) /\ Announced(message) # 0
    <2>1. state' = "DATA"
        BY <1>7, <1>8, <1>12 DEF AfterHeaders
    <2>2. message.framing = "length" /\ Announced(message) = Len(Body(message))
        BY <1>12 DEF Announced
    <2>3. wire' = Body(message) /\ Body(message) \in Text
        BY <1>1, <1>4, <2>2, ChunksType DEF BodyPart
    <2>4. data' \o wire' = Body(message)
        BY <1>4, <1>5, <2>3, ConcatNone
    <2>5. Len(Body(message)) \in Nat
        BY <2>3, TextElements
    <2>6. left' = Len(Body(message)) /\ Len(data') = 0
        BY <1>4, <1>5, <1>7, <1>8, <2>2
    <2> DEFINE b == Len(Body(message))
    <2>7. b # 0
        BY <1>12, <2>2
    <2>8. left' \in Nat \ {0} /\ Len(data') + left' = b
        <3>1. b \in Nat /\ b # 0 /\ left' = b /\ Len(data') = 0
            BY <2>5, <2>6, <2>7
        <3> HIDE DEF b
        <3> QED BY <3>1
    <2>9. AtData'
        BY <1>4, <1>9, <1>12, <2>4, <2>8 DEF AtData
    <2> QED BY <2>1, <2>9
<1> QED BY <1>10, <1>11, <1>12

LEMMA HeadersStep ==
    ASSUME Typed, AtHeaders, ConsumeHeaders
    PROVE  \/ state' = "HEADERS" /\ AtHeaders'
           \/ state' = "CHUNK_LENGTH" /\ AtLength'
           \/ state' = "PARSED" /\ AtEnd'
           \/ state' = "DATA" /\ AtData'
<1>1. CASE EndsWith(LineNow, CRLF)
    BY <1>1, HeaderRead, HeadersEnd
<1>2. CASE ~EndsWith(LineNow, CRLF)
    <2>1. /\ LineNow \o Tail(wire) = HeadersFrom(message, Len(list) + 1)
          /\ Len(LineNow) < Len(NextLine(message, Len(list))) + 2
        BY <1>2, HeaderStep
    <2>2. /\ state = "HEADERS" /\ wire' = Tail(wire) /\ message' = message
          /\ first' = first /\ data' = data /\ chunks' = chunks
        BY DEF ConsumeHeaders, Consumes
    <2>3. line' = LineNow /\ list' = list /\ state' = state
        BY <1>2 DEF ConsumeHeaders
    <2>4. AtHeaders'
        BY <2>1, <2>2, <2>3 DEF AtHeaders, FirstRead
    <2> QED BY <2>2, <2>3, <2>4
<1> QED BY <1>1, <1>2
\* A symbol of a body whose length was announced.
LEMMA DataStep ==
    ASSUME Typed, AtData, ConsumeData
    PROVE  \/ state' = "DATA" /\ AtData'
           \/ state' = "PARSED" /\ AtEnd'
<1> DEFINE b == Body(message)
           x == Append(data, Head(wire))
<1>1. message \in Messages /\ data \in Text /\ wire \in Text
    BY DEF Typed
<1>2. b \in Text
    BY <1>1, ChunksType
<1>3. /\ data \o wire = b /\ left \in Nat \ {0} /\ Len(data) + left = Len(b)
      /\ HeadersRead /\ ~InChunks(message) /\ Announced(message) # 0
    BY DEF AtData
<1>4. Takes(data, wire, b, <<>>, left)
    <2>1. b \o <<>> = b /\ <<>> \in Text
        BY <1>2, ConcatNone, DelimiterTypes
    <2> HIDE DEF b
    <2> QED BY <1>1, <1>2, <1>3, <2>1 DEF Takes
<1>5. /\ x \in Text /\ x \o Tail(wire) = b \o <<>> /\ Len(x) + (left - 1) = Len(b)
      /\ left = 1 => x = b /\ Tail(wire) = <<>>
    <2> HIDE DEF b, x
    <2>1. LET y == Append(data, Head(wire))
          IN  /\ wire # <<>> /\ y \in Text
              /\ y \o Tail(wire) = b \o <<>> /\ Len(y) + (left - 1) = Len(b)
              /\ left = 1 => y = b /\ Tail(wire) = <<>>
        BY <1>4, TakeStep
    <2> QED BY <2>1 DEF x
<1>6. /\ state = "DATA" /\ message' = message /\ wire' = Tail(wire)
      /\ data' = x /\ left' = left - 1 /\ first' = first /\ list' = list
      /\ state' = IF left = 1 THEN "PARSED" ELSE state
    BY DEF ConsumeData, Consumes
<1>7. HeadersRead'
    BY <1>3, <1>6 DEF HeadersRead, FirstRead
<1>8. CASE left = 1
    <2>1. data' = b
        BY <1>5, <1>6, <1>8
    <2>2. AtEnd'
        BY <1>3, <1>6, <1>7, <2>1 DEF AtEnd
    <2>3. state' = "PARSED"
        BY <1>6, <1>8
    <2> QED BY <2>2, <2>3
<1>9. CASE left # 1
    <2>1. left' \in Nat \ {0}
        <3>1. left \in Nat /\ left # 0 /\ left' = left - 1
            BY <1>3, <1>6
        <3> QED BY <1>9, <3>1
    <2>2. Len(data') + left' = Len(b)
        BY <1>5, <1>6
    <2>3. data' \o wire' = b
        BY <1>2, <1>5, <1>6, ConcatNone
    <2>4. AtData'
        BY <1>3, <1>6, <1>7, <2>1, <2>2, <2>3 DEF AtData
    <2>5. state' = "DATA"
        BY <1>6, <1>9
    <2> QED BY <2>4, <2>5
<1> QED BY <1>8, <1>9

\* The line with the length of a chunk, or with the zero after the last one.
LEMMA LengthStep ==
    ASSUME Typed, AtLength, ConsumeChunkLength
    PROVE  \/ state' = "CHUNK_LENGTH" /\ AtLength'
           \/ state' = "CHUNK_DATA" /\ AtChunk'
           \/ state' = "PARSED" /\ AtEnd'
<1>1. /\ message \in Messages /\ line \in Text /\ wire \in Text
    BY DEF Typed
<1>2. HeadersRead /\ InChunks(message) /\ Len(line) < 3
    BY DEF AtLength
<1>3. PICK n \in 1 .. Len(message.chunks) + 1 :
          chunks = ChunksUpTo(message, n - 1) /\ line \o wire = ChunksFrom(message, n)
    BY DEF AtLength
<1> DEFINE r == Len(message.chunks)
           c == IF n <= r THEN Len(message.chunks[n]) ELSE 0
           rest == IF n <= r THEN (message.chunks[n] \o CRLF) \o ChunksFrom(message, n + 1) ELSE CRLF
           t == ToText(c)
<1>4. r \in Nat /\ n \in Nat /\ n >= 1 /\ n <= r + 1
    <2>1. r \in Nat /\ n \in 1 .. r + 1
        BY <1>1, <1>3, ChunksType
    <2> HIDE DEF r
    <2> QED BY <2>1
<1>5. message.framing = "chunked"
    BY <1>2 DEF InChunks
<1>6. /\ c \in 0 .. 9 /\ (c = 0 <=> n = r + 1) /\ rest \in Text
      /\ ChunksFrom(message, n) = t \o (CRLF \o rest)
    <2>1. CASE n <= r
        <3>1. n \in 1 .. r /\ n # r + 1 /\ n + 1 \in Nat /\ n + 1 >= 1
            <4> HIDE DEF r
            <4> QED BY <1>4, <2>1
        <3>2. IsBody(message.chunks[n]) /\ message.chunks[n] # <<>>
            BY <1>1, <1>5, <3>1, ChunksType
        <3>3. message.chunks[n] \in Text /\ c \in 0 .. 9
            BY <2>1, <3>2, BodyType
        <3>4. c # 0
            BY <2>1, <3>2, <3>3, EmptySeq DEF Text
        <3>5. ChunksFrom(message, n + 1) \in Text
            BY <1>1, <3>1, ChunksFromIs
        <3>6. rest \in Text
            <4>1. message.chunks[n] \o CRLF \in Text
                BY <3>3, DelimiterTypes, ConcatType
            <4> QED BY <2>1, <3>5, <4>1, ConcatType
        <3>7. ChunksFrom(message, n) = t \o (CRLF \o rest)
            BY <1>1, <1>4, <2>1, <3>1, ChunksFromIs
        <3> QED BY <3>1, <3>3, <3>4, <3>6, <3>7
    <2>2. CASE ~(n <= r)
        <3>1. n > r /\ n = r + 1
            <4> HIDE DEF r
            <4> QED BY <1>4, <2>2
        <3>2. c = 0 /\ rest = CRLF /\ 0 \in 0 .. 9
            BY <2>2
        <3>3. ChunksFrom(message, n) = ToText(0) \o (CRLF \o CRLF)
            BY <1>1, <1>4, <3>1, ChunksFromIs
        <3> HIDE DEF c, rest
        <3> QED BY <3>1, <3>2, <3>3, DelimiterTypes
    <2> QED BY <2>1, <2>2
<1>7. t \in Text /\ Len(t) = 1 /\ IsLine(t)
    <2> HIDE DEF c
    <2> QED BY <1>6, NumeralType, NumeralLine
<1>8. Clean(t, CRLF) /\ CRLF \in Text /\ Len(CRLF) = 2
    <2>1. Clean(t, CRLF)
        BY <1>7, CleanLine
    <2> QED BY <2>1, DelimiterTypes
<1>9. Waits(line, wire, t, CRLF, rest)
    <2>1. line \o wire = t \o (CRLF \o rest)
        BY <1>3, <1>6
    <2>2. Len(line) < Len(t) + Len(CRLF)
        BY <1>2, <1>7, <1>8
    <2> HIDE DEF t, rest
    <2> QED BY <1>1, <1>6, <1>7, <1>8, <2>1, <2>2 DEF Waits
<1>10. /\ EndsWith(LineNow, CRLF) => LineNow = t \o CRLF /\ Tail(wire) = rest
       /\ ~EndsWith(LineNow, CRLF) => LineNow \o Tail(wire) = t \o (CRLF \o rest) /\ Len(LineNow) < Len(t) + Len(CRLF)
    <2> HIDE DEF t, rest
    <2>1. LET x == Append(line, Head(wire))
          IN  /\ wire # <<>>
              /\ EndsWith(x, CRLF) => x = t \o CRLF /\ Before(x, CRLF) = t /\ Tail(wire) = rest
              /\ ~EndsWith(x, CRLF) => x \o Tail(wire) = t \o (CRLF \o rest) /\ Len(x) < Len(t) + Len(CRLF)
        BY <1>9, UntilStep
    <2> QED BY <2>1 DEF LineNow
<1>11. /\ state = "CHUNK_LENGTH" /\ message' = message /\ wire' = Tail(wire)
       /\ first' = first /\ list' = list /\ chunks' = chunks
    BY DEF ConsumeChunkLength, Consumes
<1>12. HeadersRead'
    BY <1>2, <1>11 DEF HeadersRead, FirstRead
<1>13. CASE ~EndsWith(LineNow, CRLF)
    <2>1. line' = LineNow /\ state' = state
        BY <1>13 DEF ConsumeChunkLength
    <2>2. line' \o wire' = ChunksFrom(message, n)
        BY <1>6, <1>10, <1>11, <1>13, <2>1
    <2>3. Len(line') < 3
        <3>1. Len(line') < Len(t) + Len(CRLF)
            BY <1>10, <1>13, <2>1
        <3> HIDE DEF t
        <3> QED BY <1>7, <1>8, <3>1
    <2>4. AtLength'
        BY <1>2, <1>3, <1>11, <1>12, <2>2, <2>3 DEF AtLength
    <2> QED BY <1>11, <2>1, <2>4
<1>14. CASE EndsWith(LineNow, CRLF)
    <2>1. ToNumber(LineNow) = c
        <3>1. ToNumber(ToText(c) \o CRLF) = c
            <4> HIDE DEF c
            <4> QED BY <1>6, NumberOfLine
        <3>2. LineNow = ToText(c) \o CRLF
            BY <1>10, <1>14
        <3> QED BY <3>1, <3>2
    <2>2. wire' = rest
        BY <1>10, <1>11, <1>14
    <2>3. CASE c = 0
        <3>1. state' = "PARSED"
            <4> HIDE DEF c
            <4> QED BY <1>14, <2>1, <2>3 DEF ConsumeChunkLength
        <3>2. n - 1 = r
            <4>1. n = r + 1
                BY <1>6, <2>3
            <4> HIDE DEF r
            <4> QED BY <1>4, <4>1
        <3>3. chunks' = ChunksUpTo(message, r)
            <4> HIDE DEF r
            <4> QED BY <1>3, <1>11, <3>2
        <3>4. chunks' = Received(message)
            BY <1>1, <1>5, <3>3, ChunksUpToIs
        <3>5. AtEnd'
            BY <1>2, <1>11, <1>12, <3>4 DEF AtEnd
        <3> QED BY <3>1, <3>5
    <2>4. CASE c # 0
        <3>1. state' = "CHUNK_DATA" /\ line' = <<>> /\ left' = c + 2 /\ data' = <<>>
            <4> HIDE DEF c
            <4> QED BY <1>14, <2>1, <2>4 DEF ConsumeChunkLength
        <3>2. n \in 1 .. r /\ n <= r
            <4>1. n # r + 1
                BY <1>6, <2>4
            <4> HIDE DEF r
            <4> QED BY <1>4, <4>1
        <3>3. c = Len(message.chunks[n]) /\ rest = (message.chunks[n] \o CRLF) \o ChunksFrom(message, n + 1)
            BY <3>2
        <3>4. data' \o wire' = (message.chunks[n] \o CRLF) \o ChunksFrom(message, n + 1)
            <4>1. data' \o wire' = rest
                <5> HIDE DEF rest
                <5> QED BY <1>6, <2>2, <3>1, ConcatNone
            <4> QED BY <3>3, <4>1
        <3>5. Len(data') + left' = Len(message.chunks[n] \o CRLF)
            <4>1. message.chunks[n] \in Text
                BY <1>1, <3>2, ChunksType, TextsType
            <4>2. Len(message.chunks[n] \o CRLF) = Len(message.chunks[n]) + Len(CRLF)
                BY <1>8, <4>1, ConcatText
            <4>3. Len(data') = 0
                BY <3>1
            <4>4. c + 2 = Len(message.chunks[n] \o CRLF) /\ c + 2 \in Nat
                <5>1. c \in Nat
                    BY <1>6
                <5>2. c = Len(message.chunks[n])
                    BY <3>3
                <5> HIDE DEF c
                <5> QED BY <1>8, <4>2, <5>1, <5>2
            <4> HIDE DEF c
            <4> QED BY <3>1, <4>3, <4>4
        <3>6. left' \in Nat \ {0}
            <4> HIDE DEF c
            <4>1. c \in Nat
                BY <1>6
            <4>2. c + 2 \in Nat /\ c + 2 # 0
                BY <4>1
            <4> QED BY <3>1, <4>2
        <3>7. \E k \in 1 .. Len(message.chunks) :
                  /\ chunks' = ChunksUpTo(message, k - 1)
                  /\ data' \o wire' = (message.chunks[k] \o CRLF) \o ChunksFrom(message, k + 1)
                  /\ Len(data') + left' = Len(message.chunks[k] \o CRLF)
            BY <1>3, <1>11, <3>2, <3>4, <3>5
        <3>8. AtChunk'
            BY <1>2, <1>11, <1>12, <3>1, <3>6, <3>7 DEF AtChunk
        <3> QED BY <3>1, <3>8
    <2> QED BY <2>3, <2>4
<1> QED BY <1>13, <1>14

\* A symbol of a chunk, or of the CR LF after it.
LEMMA ChunkStep ==
    ASSUME Typed, AtChunk, ConsumeChunk
    PROVE  \/ state' = "CHUNK_DATA" /\ AtChunk'
           \/ state' = "CHUNK_LENGTH" /\ AtLength'
<1>1. message \in Messages /\ data \in Text /\ wire \in Text
    BY DEF Typed
<1>2. HeadersRead /\ InChunks(message) /\ line = <<>> /\ left \in Nat \ {0}
    BY DEF AtChunk
<1>3. PICK n \in 1 .. Len(message.chunks) :
          /\ chunks = ChunksUpTo(message, n - 1)
          /\ data \o wire = (message.chunks[n] \o CRLF) \o ChunksFrom(message, n + 1)
          /\ Len(data) + left = Len(message.chunks[n] \o CRLF)
    BY DEF AtChunk
<1> DEFINE r == Len(message.chunks)
           j == n + 1
           u == message.chunks[n] \o CRLF
           rest == ChunksFrom(message, j)
           x == Append(data, Head(wire))
<1>4. r \in Nat /\ n \in 1 .. r /\ n \in Nat
    BY <1>1, <1>3, ChunksType
<1>5. j \in 1 .. r + 1 /\ j \in Nat /\ j >= 1 /\ j - 1 = n
    <2> HIDE DEF r
    <2> QED BY <1>4
<1>6. u \in Text /\ rest \in Text
    <2>1. message.chunks[n] \in Text
        BY <1>1, <1>4, ChunksType, TextsType
    <2>2. rest \in Text
        <3> HIDE DEF j
        <3> QED BY <1>1, <1>5, ChunksFromIs
    <2> QED BY <2>1, <2>2, DelimiterTypes, ConcatType
<1>7. Takes(data, wire, u, rest, left)
    <2>1. data \o wire = u \o rest /\ Len(data) + left = Len(u)
        BY <1>3
    <2> HIDE DEF u, rest
    <2> QED BY <1>1, <1>2, <1>6, <2>1 DEF Takes
<1>8. /\ x \in Text /\ x \o Tail(wire) = u \o rest /\ Len(x) + (left - 1) = Len(u)
      /\ left = 1 => x = u /\ Tail(wire) = rest
    <2> HIDE DEF u, rest, x
    <2>1. LET y == Append(data, Head(wire))
          IN  /\ wire # <<>> /\ y \in Text
              /\ y \o Tail(wire) = u \o rest /\ Len(y) + (left - 1) = Len(u)
              /\ left = 1 => y = u /\ Tail(wire) = rest
        BY <1>7, TakeStep
    <2> QED BY <2>1 DEF x
<1>9. /\ state = "CHUNK_DATA" /\ message' = message /\ wire' = Tail(wire)
      /\ data' = x /\ left' = left - 1 /\ line' = line /\ first' = first /\ list' = list
    BY DEF ConsumeChunk, Consumes
<1>10. HeadersRead'
    BY <1>2, <1>9 DEF HeadersRead, FirstRead
<1>11. CASE left = 1
    <2>1. state' = "CHUNK_LENGTH" /\ chunks' = chunks \o data'
        BY <1>11 DEF ConsumeChunk
    <2>2. data' = u /\ wire' = rest
        BY <1>8, <1>9, <1>11
    <2>3. chunks' = ChunksUpTo(message, n)
        BY <1>1, <1>3, <1>4, <2>1, <2>2, ChunksUpToIs
    <2>4. line' \o wire' = ChunksFrom(message, j) /\ Len(line') < 3
        <3>1. line' \o wire' = rest
            <4> HIDE DEF rest
            <4> QED BY <1>2, <1>6, <1>9, <2>2, ConcatNone
        <3>2. Len(line') = 0
            BY <1>2, <1>9
        <3> QED BY <3>1, <3>2
    <2>5. chunks' = ChunksUpTo(message, j - 1)
        <3> HIDE DEF j
        <3> QED BY <1>5, <2>3
    <2>6. \E k \in 1 .. Len(message.chunks) + 1 :
              chunks' = ChunksUpTo(message, k - 1) /\ line' \o wire' = ChunksFrom(message, k)
        <3> HIDE DEF j
        <3> QED BY <1>5, <2>4, <2>5
    <2>7. AtLength'
        BY <1>2, <1>9, <1>10, <2>4, <2>6 DEF AtLength
    <2> QED BY <2>1, <2>7
<1>12. CASE left # 1
    <2>1. state' = "CHUNK_DATA" /\ chunks' = chunks
        BY <1>9, <1>12 DEF ConsumeChunk
    <2>2. left' \in Nat \ {0}
        <3>1. left \in Nat /\ left # 0 /\ left' = left - 1
            BY <1>2, <1>9
        <3> QED BY <1>12, <3>1
    <2>3. data' \o wire' = u \o rest /\ Len(data') + left' = Len(u)
        BY <1>8, <1>9
    <2>4. line' = <<>>
        BY <1>2, <1>9
    <2>5. AtChunk'
        BY <1>2, <1>3, <1>9, <1>10, <2>1, <2>2, <2>3, <2>4 DEF AtChunk
    <2> QED BY <2>1, <2>5
<1> QED BY <1>11, <1>12

---------------------------------------------------------------------------
(* The inductive invariant.                                                *)

Positioned == Typed /\ (WholeLine(message) => Reading)

LEMMA ReadingInitially == Init => Positioned
<1>1. SUFFICES ASSUME Init, WholeLine(message) PROVE Reading
    BY TypedInitially DEF Positioned
<1>2. message \in Messages /\ wire = Wire(message) /\ state = "LINE"
    BY <1>1 DEF Init
<1>3. line = <<>> /\ first = <<>> /\ list = <<>> /\ data = <<>> /\ chunks = <<>>
    BY <1>1 DEF Init
<1>4. wire = AfterWord(message, 0) /\ wire \in Text
    BY <1>1, <1>2, AfterWordIs, WireIs
<1>5. Len(first) = 0 /\ Len(line) = 0
    BY <1>3
<1>6. line \o wire = AfterWord(message, Len(first))
    BY <1>3, <1>4, <1>5, ConcatNone
<1>7. Len(line) < Len(TheWords(message)[Len(first) + 1]) + Len(FirstDelimiter(Len(first) + 1))
    <2> DEFINE k == Len(first) + 1
               a == Len(TheWords(message)[k])
               b == Len(FirstDelimiter(k))
    <2>1. k \in 1 .. 3
        BY <1>5
    <2>2. a \in Nat
        BY <1>1, <1>2, <2>1, WordsType, TextElements
    <2>3. b \in 1 .. 2
        BY DelimiterLength
    <2> HIDE DEF a, b
    <2>4. 0 < a + b
        BY <2>2, <2>3
    <2> QED BY <1>5, <2>4 DEF a, b
<1>8. AtLine
    <2>1. Len(first) \in 0 .. 2 /\ 1 .. Len(first) = {}
        BY <1>5
    <2> QED BY <1>3, <1>6, <1>7, <2>1 DEF AtLine
<1> QED BY <1>2, <1>8 DEF Reading

LEMMA ReadingKept == Positioned /\ [Next]_vars => Positioned'
<1>1. SUFFICES ASSUME Positioned, [Next]_vars PROVE Positioned'
    OBVIOUS
<1>2. Typed /\ Typed'
    BY <1>1, TypedKept DEF Positioned
<1>3. message' = message
    <2>1. CASE PassRequest \/ PassResponse
        BY <2>1 DEF PassRequest, PassResponse
    <2>2. CASE ~PassRequest /\ ~PassResponse
        BY <1>1, <2>2, OthersPassNothing
    <2> QED BY <2>1, <2>2
<1>4. SUFFICES ASSUME WholeLine(message) PROVE Reading'
    <2>1. WholeLine(message)' => WholeLine(message)
        BY <1>3 DEF WholeLine
    <2> QED BY <1>2, <1>4, <2>1 DEF Positioned
<1>5. Reading
    BY <1>1, <1>4 DEF Positioned
<1>6. CASE ConsumeLine
    <2>1. AtLine
        BY <1>5, <1>6 DEF Reading, ConsumeLine, Consumes
    <2>2. (state' = "LINE" /\ AtLine') \/ (state' = "HEADERS" /\ AtHeaders')
        BY <1>2, <1>4, <1>6, <2>1, LineRead
    <2> QED BY <2>2 DEF Reading
<1>7. CASE ConsumeHeaders
    <2>1. AtHeaders
        BY <1>5, <1>7 DEF Reading, ConsumeHeaders, Consumes
    <2>2. \/ state' = "HEADERS" /\ AtHeaders'
          \/ state' = "CHUNK_LENGTH" /\ AtLength'
          \/ state' = "PARSED" /\ AtEnd'
          \/ state' = "DATA" /\ AtData'
        BY <1>2, <1>7, <2>1, HeadersStep
    <2> QED BY <2>2 DEF Reading
<1>8. CASE ConsumeData
    <2>1. AtData
        BY <1>5, <1>8 DEF Reading, ConsumeData, Consumes
    <2>2. (state' = "DATA" /\ AtData') \/ (state' = "PARSED" /\ AtEnd')
        BY <1>2, <1>8, <2>1, DataStep
    <2> QED BY <2>2 DEF Reading
<1>9. CASE ConsumeChunkLength
    <2>1. AtLength
        BY <1>5, <1>9 DEF Reading, ConsumeChunkLength, Consumes
    <2>2. \/ state' = "CHUNK_LENGTH" /\ AtLength'
          \/ state' = "CHUNK_DATA" /\ AtChunk'
          \/ state' = "PARSED" /\ AtEnd'
        BY <1>2, <1>9, <2>1, LengthStep
    <2> QED BY <2>2 DEF Reading
<1>10. CASE ConsumeChunk
    <2>1. AtChunk
        BY <1>5, <1>10 DEF Reading, ConsumeChunk, Consumes
    <2>2. (state' = "CHUNK_DATA" /\ AtChunk') \/ (state' = "CHUNK_LENGTH" /\ AtLength')
        BY <1>2, <1>10, <2>1, ChunkStep
    <2> QED BY <2>2 DEF Reading
<1>11. CASE PassRequest \/ PassResponse \/ UNCHANGED vars
    <2>1. UNCHANGED <<message, wire, state, line, first, list, left, data, chunks>>
        BY <1>11 DEF PassRequest, PassResponse, vars
    <2> QED BY <1>5, <2>1 DEF Reading, AtLine, AtHeaders, AtData, AtLength, AtChunk, AtEnd, HeadersRead, FirstRead
<1> QED BY <1>1, <1>6, <1>7, <1>8, <1>9, <1>10, <1>11 DEF Next
---------------------------------------------------------------------------
(* The headers that tell of the body, and the changed lists.               *)

\* Every Content-Length says n.
Tells(l, n) == \A k \in DOMAIN l : l[k].key = ContentLength => l[k].value = ToText(n)

LEMMA AppendTells ==
    ASSUME NEW l \in HeaderList, NEW h \in HeaderRecord, NEW n, Tells(l, n),
           h.key = ContentLength => h.value = ToText(n)
    PROVE  Tells(Append(l, h), n)
<1> DEFINE m == Append(l, h)
           r == Len(l)
<1>1. m \in HeaderList /\ Len(m) = r + 1 /\ m[r + 1] = h /\ \A k \in 1 .. r : m[k] = l[k]
    BY AppendHeaderElements
<1>2. r \in Nat /\ DOMAIN l = 1 .. r /\ DOMAIN m = 1 .. r + 1
    BY <1>1, ListElements
<1> HIDE DEF m, r
<1>3. \A k \in 1 .. r + 1 : k = r + 1 \/ k \in 1 .. r
    BY <1>2
<1>4. Tells(m, n)
    BY <1>1, <1>2, <1>3 DEF Tells
<1> QED BY <1>4 DEF m

LEMMA WithoutTells ==
    ASSUME NEW keys, NEW n
    PROVE  \A l \in HeaderList : Tells(l, n) => Tells(Without(l, keys), n)
<1> DEFINE S == {l \in HeaderList : Tells(l, n) => Tells(Without(l, keys), n)}
<1>1. <<>> \in S
    <2>1. Tells(<<>>, n)
        BY DEF Tells
    <2> QED BY <2>1, WithoutEmpty, EmptyList
<1>2. ASSUME NEW l \in HeaderList, NEW h \in HeaderRecord, l \in S PROVE Append(l, h) \in S
    <2> DEFINE m == Append(l, h)
               w == Without(l, keys)
               r == Len(l)
    <2>1. m \in HeaderList /\ Len(m) = r + 1 /\ m[r + 1] = h /\ \A k \in 1 .. r : m[k] = l[k]
        BY AppendHeaderElements
    <2>2. r \in Nat /\ DOMAIN l = 1 .. r /\ DOMAIN m = 1 .. Len(m)
        BY <2>1, ListElements
    <2> HIDE DEF m, r
    <2>3. SUFFICES ASSUME Tells(m, n) PROVE Tells(Without(m, keys), n)
        BY <2>1 DEF m
    <2>4. Tells(l, n) /\ (h.key = ContentLength => h.value = ToText(n))
        <3>1. \A k \in 1 .. r : k \in DOMAIN m
            BY <2>1, <2>2
        <3>2. r + 1 \in DOMAIN m
            BY <2>1, <2>2
        <3> QED BY <2>1, <2>2, <2>3, <3>1, <3>2 DEF Tells
    <2>5. w \in HeaderList /\ Tells(w, n)
        BY <1>2, <2>4, WithoutType
    <2>6. Without(m, keys) = IF h.key \in keys THEN w ELSE Append(w, h)
        BY WithoutAppend DEF m
    <2>7. CASE h.key \in keys
        BY <2>5, <2>6, <2>7
    <2>8. CASE h.key \notin keys
        <3> HIDE DEF w
        <3> QED BY <2>4, <2>5, <2>6, <2>8, AppendTells
    <2> QED BY <2>7, <2>8
<1>3. HeaderList \subseteq S
    <2> HIDE DEF S
    <2> QED BY <1>1, <1>2, ListInduction
<1> QED BY <1>3

\* After Update every Content-Length says what it should, and the other keys are as before.
LEMMA UpdatedIs ==
    ASSUME NEW l \in HeaderList, NEW n \in Nat
    PROVE  LET u == UpdatedList(l, LengthHeader(n))
           IN  /\ u \in HeaderList /\ Tells(u, n) /\ HasKey(u, ContentLength)
               /\ \A key : key # ContentLength =>
                      /\ HasKey(u, key) <=> HasKey(l, key)
                      /\ HasKey(l, key) => FirstOf(u, key) = FirstOf(l, key)
<1> DEFINE h == LengthHeader(n)
           u == UpdatedList(l, h)
<1>1. h \in HeaderRecord /\ h.key = ContentLength /\ h.value = ToText(n)
    BY LengthHeaderIsRecord DEF LengthHeader
<1> HIDE DEF h
<1>2. CASE HasKey(l, ContentLength)
    <2>1. u = Replaced(l, h)
        BY <1>1, <1>2 DEF UpdatedList
    <2>2. /\ u \in HeaderList /\ Len(u) = Len(l)
          /\ \A k \in 1 .. Len(l) : u[k] = IF l[k].key = h.key THEN h ELSE l[k]
        BY <1>1, <2>1, ReplacedElements
    <2>3. \A key : /\ HasKey(u, key) <=> HasKey(l, key)
                   /\ HasKey(l, key) => FirstOf(u, key) = IF key = h.key THEN h.value ELSE FirstOf(l, key)
        <3>1. SUFFICES ASSUME NEW key
                       PROVE  /\ HasKey(u, key) <=> HasKey(l, key)
                              /\ HasKey(l, key) => FirstOf(u, key) = IF key = h.key THEN h.value ELSE FirstOf(l, key)
            OBVIOUS
        <3>2. /\ HasKey(Replaced(l, h), key) <=> HasKey(l, key)
              /\ HasKey(l, key) => FirstOf(Replaced(l, h), key) = IF key = h.key THEN h.value ELSE FirstOf(l, key)
            BY <1>1, ReplacedKeys
        <3> HIDE DEF u
        <3> QED BY <2>1, <3>2
    <2> HIDE DEF u
    <2>4. Tells(u, n)
        <3>1. DOMAIN u = 1 .. Len(l)
            BY <2>2, ListElements
        <3> QED BY <1>1, <2>2, <3>1 DEF Tells
    <2>5. \A key : key # ContentLength =>
              /\ HasKey(u, key) <=> HasKey(l, key)
              /\ HasKey(l, key) => FirstOf(u, key) = FirstOf(l, key)
        BY <1>1, <2>3
    <2>6. HasKey(u, ContentLength)
        BY <1>2, <2>3
    <2> QED BY <2>2, <2>4, <2>5, <2>6 DEF u, h
<1>3. CASE ~HasKey(l, ContentLength)
    <2>1. u = Append(l, h)
        BY <1>1, <1>3 DEF UpdatedList
    <2>2. u \in HeaderList
        BY <1>1, <2>1, AppendHeaderElements
    <2>3. \A key : /\ HasKey(u, key) <=> HasKey(l, key) \/ h.key = key
                   /\ HasKey(u, key) => FirstOf(u, key) = IF HasKey(l, key) THEN FirstOf(l, key) ELSE h.value
        <3> HIDE DEF u
        <3> QED BY <1>1, <2>1, HasKeyAppend, FirstOfAppend
    <2>4. Tells(u, n)
        <3>1. Tells(l, n)
            BY <1>3 DEF Tells, HasKey
        <3> QED BY <1>1, <2>1, <3>1, AppendTells
    <2> HIDE DEF u
    <2>5. \A key : key # ContentLength =>
              /\ HasKey(u, key) <=> HasKey(l, key)
              /\ HasKey(l, key) => FirstOf(u, key) = FirstOf(l, key)
        BY <1>1, <2>3
    <2>6. HasKey(u, ContentLength)
        BY <1>1, <2>3
    <2> QED BY <2>2, <2>4, <2>5, <2>6 DEF u, h
<1> QED BY <1>2, <1>3

LEMMA ThreeOf ==
    ASSUME NEW a \in Symbols, NEW b \in Symbols, NEW c \in Symbols PROVE <<a, b>> \o <<c>> = <<a, b, c>>
<1>1. <<a, b>> \in Text /\ Append(<<a, b>>, c) = <<a, b>> \o <<c>>
    BY TwoType, AppendIsConcat DEF Text
<1> DEFINE s == <<a, b>>
           x == Append(s, c)
           t == <<a, b, c>>
<1>3. s \in Text /\ Len(s) = 2 /\ s[1] = a /\ s[2] = b
    BY TwoType
<1>4. t \in Text /\ Len(t) = 3 /\ t[1] = a /\ t[2] = b /\ t[3] = c
    BY ThreeType
<1> HIDE DEF s, t
<1>5. x \in Text /\ Len(x) = Len(s) + 1 /\ x[Len(s) + 1] = c /\ \A i \in 1 .. Len(s) : x[i] = s[i]
    <2>1. s \in Seq(Symbols)
        BY <1>3 DEF Text
    <2> HIDE DEF Text
    <2>2. x \in Seq(Symbols) /\ Len(x) = Len(s) + 1
        BY <2>1, AppendProperties
    <2>3. x[Len(s) + 1] = c
        BY <2>1, AppendProperties
    <2>4. \A i \in 1 .. Len(s) : x[i] = s[i]
        BY <2>1, AppendProperties
    <2> QED BY <2>2, <2>3, <2>4 DEF Text
<1> HIDE DEF x
<1>6. Len(x) = 3 /\ x[3] = c /\ x[1] = s[1] /\ x[2] = s[2]
    BY <1>3, <1>5
<1>7. \A i \in 1 .. Len(x) : x[i] = t[i]
    <2>1. \A i \in 1 .. 3 : i = 1 \/ i = 2 \/ i = 3
        OBVIOUS
    <2> QED BY <1>3, <1>4, <1>6, <2>1
<1>2. x = t
    BY <1>4, <1>5, <1>6, <1>7, SeqEqual DEF Text
<1> QED BY <1>1, <1>2 DEF s, t, x

\* After ExpandContentEncoding the first Content-Encoding ends with gzip, and the other keys
\* are as before.
LEMMA ExpandedListIs ==
    ASSUME NEW l \in HeaderList
    PROVE  LET x == ExpandedList(l)
           IN  /\ x \in HeaderList /\ HasKey(x, ContentEncoding)
               /\ <<"gzip">> \in SplitValue(FirstOf(x, ContentEncoding))
               /\ \A key : key # ContentEncoding => (HasKey(x, key) <=> HasKey(l, key))
<1> DEFINE x == ExpandedList(l)
           a == ExpandedAll(l)
           r == Len(l)
<1>1. /\ a \in HeaderList /\ Len(a) = r
      /\ \A k \in 1 .. r : a[k] = Expanded(l[k]) /\ a[k].key = l[k].key
    BY ExpandedElements
<1>2. DOMAIN l = 1 .. r /\ DOMAIN a = 1 .. r /\ \A k \in 1 .. r : l[k] \in HeaderRecord
    BY <1>1, ListElements
<1>3. \A key : HasKey(a, key) <=> HasKey(l, key)
    <2> HIDE DEF a, r
    <2> QED BY <1>1, <1>2 DEF HasKey
<1>4. "gzip" \in Symbols /\ "gzip" \notin Separators
    BY KnownSymbols DEF Known, Separators
<1> HIDE DEF a, r
<1>5. CASE HasKey(l, ContentEncoding)
    <2>1. x = a
        BY <1>5 DEF ExpandedList, a
    <2>2. PICK k \in 1 .. r : l[k].key = ContentEncoding /\ \A j \in 1 .. k - 1 : l[j].key # ContentEncoding
        BY <1>5, FirstWithExists DEF r
    <2>3. a[k].key = ContentEncoding /\ \A j \in 1 .. k - 1 : a[j].key # ContentEncoding
        <3>1. r \in Nat
            BY ListElements DEF r
        <3>2. \A j \in 1 .. k - 1 : j \in 1 .. r
            BY <2>2, <3>1
        <3> QED BY <1>1, <2>2, <3>2
    <2>4. FirstOf(a, ContentEncoding) = a[k].value
        BY <1>1, <2>3, FirstOfIs
    <2> DEFINE v == l[k].value
               u == v \o <<",", " ">>
    <2>5. v \in Text /\ a[k].value = v \o <<",", " ", "gzip">>
        BY <1>1, <1>2, <2>2, ExpandedIs
    <2>6. v \o <<",", " ", "gzip">> = u \o <<"gzip">> /\ u \in Text /\ u[Len(u)] \in Separators
        <3>1. "," \in Symbols /\ " " \in Symbols
            BY KnownSymbols DEF Known
        <3>2. <<",", " ">> \in Text /\ Len(<<",", " ">>) = 2 /\ <<",", " ">>[2] = " "
            BY <3>1, TwoType
        <3>3. <<",", " ">> \o <<"gzip">> = <<",", " ", "gzip">> /\ <<"gzip">> \in Text
            BY <1>4, <3>1, ThreeOf, KeyTypes
        <3> HIDE DEF v
        <3>4. (v \o <<",", " ">>) \o <<"gzip">> = v \o (<<",", " ">> \o <<"gzip">>)
            BY <2>5, <3>2, <3>3, AssociatedText
        <3>5. u \in Text
            BY <2>5, <3>2, ConcatType
        <3>6. Len(u) = Len(v) + Len(<<",", " ">>)
              /\ \A i \in 1 .. Len(v) + Len(<<",", " ">>) :
                     u[i] = IF i <= Len(v) THEN v[i] ELSE <<",", " ">>[i - Len(v)]
            BY <2>5, <3>2, ConcatText
        <3> DEFINE n == Len(v)
                   i == n + 2
        <3>7. n \in Nat
            BY <2>5, TextElements
        <3>8. i \in 1 .. n + 2 /\ ~(i <= n) /\ i - n = 2
            <4> HIDE DEF n
            <4> QED BY <3>7
        <3>9. Len(u) = i
            BY <3>2, <3>6
        <3>10. u[i] = <<",", " ">>[2]
            <4>1. i \in 1 .. n + Len(<<",", " ">>)
                BY <3>2, <3>8
            <4>2. u[i] = IF i <= n THEN v[i] ELSE <<",", " ">>[i - n]
                BY <3>6, <4>1
            <4> HIDE DEF i, n, u
            <4> QED BY <3>8, <4>2
        <3>11. " " \in Separators
            BY DEF Separators
        <3> HIDE DEF u, i
        <3>12. u[Len(u)] \in Separators
            BY <3>2, <3>9, <3>10, <3>11
        <3> QED BY <3>3, <3>4, <3>5, <3>12 DEF u
    <2>7. <<"gzip">> \in SplitValue(u \o <<"gzip">>)
        <3> HIDE DEF u
        <3> QED BY <1>4, <2>6, LastDirective
    <2>8. <<"gzip">> \in SplitValue(FirstOf(x, ContentEncoding))
        <3> HIDE DEF x
        <3>1. FirstOf(x, ContentEncoding) = u \o <<"gzip">>
            <4> HIDE DEF u
            <4> QED BY <2>1, <2>4, <2>5, <2>6
        <3> QED BY <2>7, <3>1
    <2> HIDE DEF x
    <2> QED BY <1>1, <1>3, <1>5, <2>1, <2>8 DEF x
<1>6. CASE ~HasKey(l, ContentEncoding)
    <2>1. x = Append(a, GzipHeader)
        BY <1>6 DEF ExpandedList, a
    <2>2. GzipHeader \in HeaderRecord /\ GzipHeader.key = ContentEncoding /\ GzipHeader.value = <<"gzip">>
        BY GzipHeaderIs
    <2> HIDE DEF x
    <2>3. x \in HeaderList
        BY <1>1, <2>1, <2>2, AppendHeaderElements
    <2>4. \A key : HasKey(x, key) <=> HasKey(a, key) \/ GzipHeader.key = key
        BY <1>1, <2>1, <2>2, HasKeyAppend
    <2>5. HasKey(x, ContentEncoding)
        BY <2>2, <2>4
    <2>6. FirstOf(x, ContentEncoding) = <<"gzip">>
        BY <1>1, <1>3, <1>6, <2>1, <2>2, <2>5, FirstOfAppend
    <2>7. <<"gzip">> \in SplitValue(<<"gzip">>)
        <3>1. <<>> \in Text /\ <<>> \o <<"gzip">> = <<"gzip">>
            BY DelimiterTypes, KeyTypes, ConcatNone
        <3>2. <<"gzip">> \in SplitValue(<<>> \o <<"gzip">>)
            BY <1>4, <3>1, LastDirective
        <3> QED BY <3>1, <3>2
    <2>8. \A key : key # ContentEncoding => (HasKey(x, key) <=> HasKey(l, key))
        BY <1>3, <2>2, <2>4
    <2> QED BY <2>3, <2>5, <2>6, <2>7, <2>8 DEF x
<1> QED BY <1>5, <1>6
---------------------------------------------------------------------------
(* What is passed on of a message.                                         *)

EndData(m) == IF InChunks(m) THEN Received(m) ELSE IF Announced(m) # 0 THEN Body(m) ELSE <<>>

LEMMA ReceivedIs ==
    ASSUME NEW m \in Messages
    PROVE  Received(m) \in Text /\ (m.framing # "chunked" => Received(m) = Body(m))
<1>1. m.chunks \in Seq(Text) /\ DOMAIN m.chunks = 1 .. Len(m.chunks) /\ Len(m.chunks) \in Nat
    BY ChunksType
<1>2. CASE m.framing = "chunked"
    <2>1. Received(m) = FlattenSeq(Ended(m.chunks))
        BY <1>2 DEF Received, Ended
    <2>2. FlattenSeq(Ended(m.chunks)) \in Text
        BY <1>1, EndedType, TextsType
    <2> QED BY <1>2, <2>1, <2>2
<1>3. CASE m.framing # "chunked"
    <2>1. Received(m) = FlattenSeq([k \in DOMAIN m.chunks |-> m.chunks[k]])
        BY <1>3 DEF Received
    <2>2. [k \in DOMAIN m.chunks |-> m.chunks[k]] = m.chunks
        <3> DEFINE s == m.chunks
        <3>1. s \in [1 .. Len(s) -> Text]
            BY <1>1, LenProperties
        <3> HIDE DEF s
        <3>2. [k \in DOMAIN s |-> s[k]] = s
            BY <3>1
        <3> QED BY <3>2 DEF s
    <2>3. Body(m) \in Text
        BY ChunksType
    <2> QED BY <1>3, <2>1, <2>2, <2>3 DEF Body
<1> QED BY <1>2, <1>3

\* A body of a message is not taken for a compressed one.
NotPacked(t) == t = <<>> \/ t[1] # "zip"

LEMMA ConcatBeginning ==
    ASSUME NEW s \in Text, NEW t \in Text, s # <<>> PROVE (s \o t)[1] = s[1] /\ s \o t # <<>>
<1> DEFINE n == Len(s)
           k == Len(t)
<1>1. n \in Nat /\ n # 0 /\ k \in Nat
    BY EmptySeq, TextElements DEF Text
<1>2. \A i \in 1 .. n + k : (s \o t)[i] = IF i <= n THEN s[i] ELSE t[i - n]
    BY ConcatText
<1> HIDE DEF n, k
<1>3. 1 \in 1 .. n + k /\ 1 <= n
    BY <1>1
<1>4. (s \o t)[1] = s[1]
    BY <1>2, <1>3
<1> QED BY <1>4, ConcatEqualIffEmpty DEF Text

LEMMA BodyNotPacked ==
    ASSUME NEW m \in Messages
    PROVE  NotPacked(EndData(m)) /\ EndData(m) \in Text
<1>1. EndData(m) \in Text
    BY ReceivedIs, ChunksType, DelimiterTypes DEF EndData
<1>2. CASE InChunks(m)
    <2>1. m.framing = "chunked" /\ EndData(m) = Received(m)
        BY <1>2 DEF InChunks, EndData
    <2> DEFINE s == Ended(m.chunks)
               r == Len(m.chunks)
    <2>2. m.chunks \in Seq(Text) /\ r \in Nat
        BY ChunksType
    <2>3. s \in Seq(Text) /\ Len(s) = r /\ \A k \in 1 .. r : s[k] = m.chunks[k] \o CRLF
        BY <2>2, EndedType
    <2>4. Received(m) = FlattenSeq(s)
        BY <2>1 DEF Received, Ended
    <2> HIDE DEF s
    <2>5. CASE r = 0
        <3>1. s = <<>>
            BY <2>3, <2>5, EmptySeq
        <3> QED BY <1>1, <2>1, <2>4, <3>1, FlattenEmpty DEF NotPacked
    <2>6. CASE r # 0
        <3>1. 1 \in 1 .. r /\ 1 \in Nat /\ 1 >= 1
            <4> HIDE DEF r
            <4> QED BY <2>2, <2>6
        <3>2. IsBody(m.chunks[1]) /\ m.chunks[1] # <<>>
            BY <2>1, <3>1, ChunksType
        <3>3. m.chunks[1] \in Text /\ m.chunks[1][1] # "zip"
            BY <3>2 DEF IsBody, Text
        <3> DEFINE c == m.chunks[1]
                   rest == FlattenSeq(SubSeq(s, 1 + 1, Len(s)))
        <3>4. FlattenSeq(SubSeq(s, 1, Len(s))) = s[1] \o rest /\ rest \in Text
            <4>1. 1 \in 1 .. Len(s)
                BY <2>3, <3>1
            <4>2. FlattenSeq(SubSeq(s, 1, Len(s))) = s[1] \o rest
                BY <2>3, <4>1, FlattenFrom DEF Text
            <4>3. 1 + 1 \in Nat /\ 1 + 1 >= 1
                OBVIOUS
            <4>4. rest \in Text
                BY <2>3, <4>3, PartType
            <4> QED BY <4>2, <4>4
        <3>5. SubSeq(s, 1, Len(s)) = s
            BY <2>3, SubSeqFull
        <3>6. s[1] = c \o CRLF
            BY <2>3, <3>1
        <3> HIDE DEF c, rest
        <3>7. c \in Text /\ c # <<>> /\ c[1] # "zip"
            BY <3>2, <3>3 DEF c
        <3>8. CRLF \in Text
            BY DelimiterTypes
        <3>9. (c \o CRLF)[1] = c[1] /\ c \o CRLF # <<>> /\ c \o CRLF \in Text
            BY <3>7, <3>8, ConcatBeginning, ConcatType
        <3>10. ((c \o CRLF) \o rest)[1] = (c \o CRLF)[1]
            BY <3>4, <3>9, ConcatBeginning
        <3>11. Received(m)[1] = c[1]
            BY <2>4, <3>4, <3>5, <3>6, <3>9, <3>10
        <3> QED BY <1>1, <2>1, <3>7, <3>11 DEF NotPacked
    <2> QED BY <2>5, <2>6
<1>3. CASE ~InChunks(m)
    <2>1. CASE Announced(m) = 0
        BY <1>1, <1>3, <2>1 DEF EndData, NotPacked
    <2>2. CASE Announced(m) # 0
        <3>1. EndData(m) = Body(m)
            BY <1>3, <2>2 DEF EndData
        <3>2. m.framing = "length"
            BY <2>2 DEF Announced
        <3>3. IsBody(Body(m))
            BY <3>2, ChunksType
        <3> QED BY <1>1, <3>1, <3>3 DEF NotPacked, IsBody
    <2> QED BY <2>1, <2>2
<1> QED BY <1>2, <1>3

LEMMA TailOfOne ==
    ASSUME NEW a \in Symbols, NEW t \in Text PROVE Tail(<<a>> \o t) = t
<1> DEFINE z == <<a>>
           g == z \o t
           r == Tail(g)
<1>1. z \in Text /\ z # <<>> /\ Len(z) = 1 /\ z[1] = a
    BY OneType
<1> HIDE DEF z
<1>2. g \in Text /\ g # <<>> /\ g[1] = a
    BY <1>1, ConcatBeginning, ConcatType
<1> HIDE DEF g
<1>3. Head(g) = g[1]
    BY <1>2 DEF Text
<1>4. r \in Text
    BY <1>2, HeadTailProperties DEF Text
<1>5. <<>> \in Text
    BY DelimiterTypes
<1>6. Append(<<>>, Head(g)) \o r = <<>> \o g
    BY <1>2, <1>5, OneMore
<1>7. Append(<<>>, a) = z
    <2>1. Append(<<>>, a) = <<>> \o <<a>> /\ <<a>> \in Text
        BY <1>5, AppendIsConcat, OneType DEF Text
    <2> QED BY <2>1, ConcatNone DEF z
<1>8. z \o r = z \o t
    BY <1>2, <1>3, <1>6, <1>7, ConcatNone DEF g
<1> HIDE DEF r
<1>9. r = t
    BY <1>1, <1>4, <1>8, ConcatCancel
<1> QED BY <1>9 DEF r, g, z

LEMMA UnpackedIs ==
    ASSUME NEW t \in Text, NotPacked(t)
    PROVE  Unpacked(t) = t /\ Unpacked(Gzipped(t)) = t
<1>1. Unpacked(t) = t
    BY DEF Unpacked, NotPacked
<1> DEFINE z == <<"zip">>
           g == z \o t
<1>2. z \in Text /\ z # <<>> /\ z[1] = "zip"
    BY KeyTypes
<1> HIDE DEF z
<1>3. g[1] = z[1] /\ g # <<>> /\ g \in Text
    BY <1>2, ConcatBeginning, ConcatType
<1>4. Gzipped(t) = g
    BY DEF Gzipped, z
<1>5. Tail(g) = t
    <2>1. Tail(<<"zip">> \o t) = t
        <3>1. "zip" \in Symbols
            BY KnownSymbols DEF Known
        <3> QED BY <3>1, TailOfOne
    <2> QED BY <2>1 DEF z
<1> HIDE DEF g
<1>6. Unpacked(g) = t
    BY <1>2, <1>3, <1>5 DEF Unpacked
<1> QED BY <1>1, <1>4, <1>6

\* A body whose length is understood is read whole, and one whose length is not is not read.
LEMMA EndDataIs ==
    ASSUME NEW m \in Messages, WholeLine(m)
    PROVE  /\ Understood(m) => EndData(m) = Received(m)
           /\ ~Understood(m) => EndData(m) = <<>>
<1>1. m.framing \in {"length", "none", "chunked"}
    BY MessageParts
<1>2. CASE m.framing = "none"
    <2>1. Received(m) = <<>> /\ EndData(m) = <<>>
        BY <1>2, ReceivedIs, ChunksType DEF EndData, InChunks, Announced
    <2> QED BY <1>2, <2>1 DEF Understood
<1>3. CASE m.framing = "chunked"
    <2>1. CASE m.gap = <<>>
        <3>1. EndData(m) = <<>>
            BY <1>3, <2>1 DEF EndData, InChunks, Announced
        <3>2. m.gap # <<" ">>
            BY <2>1
        <3>3. ~Understood(m)
            BY <1>3, <2>1, <3>2 DEF Understood
        <3> QED BY <3>1, <3>3
    <2>2. CASE m.gap # <<>>
        <3>1. EndData(m) = Received(m)
            BY <1>3, <2>2 DEF EndData, InChunks
        <3>2. Understood(m)
            BY <1>3, <2>2 DEF Understood
        <3> QED BY <3>1, <3>2
    <2> QED BY <2>1, <2>2
<1>4. CASE m.framing = "length"
    <2>1. ~InChunks(m) /\ m.framing # "chunked" /\ m.framing # "none"
        BY <1>4 DEF InChunks
    <2>2. Received(m) = Body(m) /\ Body(m) \in Text
        BY <2>1, ReceivedIs, ChunksType
    <2>3. CASE m.gap = <<" ">>
        <3>1. Announced(m) = Len(Body(m))
            BY <1>4, <2>3 DEF Announced
        <3>2. EndData(m) = Body(m)
            <4>1. CASE Len(Body(m)) = 0
                <5>1. Body(m) = <<>>
                    BY <2>2, <4>1, EmptySeq DEF Text
                <5> QED BY <2>1, <3>1, <4>1, <5>1 DEF EndData
            <4>2. CASE Len(Body(m)) # 0
                BY <2>1, <3>1, <4>2 DEF EndData
            <4> QED BY <4>1, <4>2
        <3>3. Understood(m)
            BY <2>3 DEF Understood
        <3> QED BY <2>2, <3>2, <3>3
    <2>4. CASE m.gap # <<" ">>
        <3>1. EndData(m) = <<>>
            BY <2>1, <2>4 DEF EndData, Announced
        <3>2. ~Understood(m)
            BY <2>1, <2>4 DEF Understood
        <3> QED BY <3>1, <3>2
    <2> QED BY <2>3, <2>4
<1> QED BY <1>1, <1>2, <1>3, <1>4

---------------------------------------------------------------------------
(* What is passed on of a message with a whole first line: its headers,    *)
(* which the proxy may change, and its body, which it may compress.        *)

RequestList(m)  == Without(ParsedHeaders(m), {AcceptEncoding})
ResponseList(m) ==
    IF InChunks(m)
    THEN Without(UpdatedList(ParsedHeaders(m), LengthHeader(Len(Received(m)))), {TransferEncoding})
    ELSE ParsedHeaders(m)
SaysGzip(l) == HasKey(l, ContentEncoding) /\ <<"gzip">> \in SplitValue(FirstOf(l, ContentEncoding))

Outcome(m, o) ==
    /\ Agree(o.headers) /\ o.data \in Text
    /\ \A k \in 1 .. 3 : o.first[k] = TheWords(m)[k]
    /\ \/ m.kind = "request" /\ o.headers.list = RequestList(m) /\ o.data = EndData(m)
       \/ m.kind = "response" /\ o.headers.list = ResponseList(m) /\ o.data = EndData(m)
       \/ /\ m.kind = "response" /\ ~SaysGzip(ResponseList(m)) /\ o.data = Gzipped(EndData(m))
          /\ o.headers.list = CompressedList(ResponseList(m), Len(Gzipped(EndData(m))))

\* The map of the headers says what their list does.
LEMMA SaysIs ==
    ASSUME NEW headers, Agree(headers)
    PROVE  Says(headers, ContentEncoding, <<"gzip">>) <=> SaysGzip(headers.list)
<1>1. /\ DOMAIN headers.values = Keys(headers.list)
      /\ \A k \in DOMAIN headers.values : headers.values[k] = FirstOf(headers.list, k)
    BY DEF Agree
<1>2. HasKey(headers.list, ContentEncoding) <=> ContentEncoding \in DOMAIN headers.values
    BY <1>1, KeysAre
<1>3. CASE ContentEncoding \in DOMAIN headers.values
    <2>1. headers.values[ContentEncoding] = FirstOf(headers.list, ContentEncoding)
        BY <1>1, <1>3
    <2> QED BY <1>2, <1>3, <2>1 DEF Says, HasValue, SaysGzip
<1>4. CASE ContentEncoding \notin DOMAIN headers.values
    BY <1>2, <1>4 DEF Says, HasValue, SaysGzip
<1> QED BY <1>3, <1>4

LEMMA OutcomeIs ==
    ASSUME Typed, WholeLine(message), AtEnd, PassRequest \/ PassResponse
    PROVE  Outcome(message, out')
<1> DEFINE m == message
<1>1. m \in Messages /\ list = ParsedHeaders(m)
    BY DEF Typed, AtEnd, HeadersRead
<1>2. \A k \in 1 .. 3 : first[k] = TheWords(m)[k]
    BY DEF AtEnd, HeadersRead, FirstRead
<1>3. /\ out'.first = first /\ Agree(out'.headers) /\ out'.data \in Text
      /\ m.kind = "request" => RequestPassed(out')
      /\ m.kind = "response" => ResponsePassed(out')
      /\ m.kind \in {"request", "response"}
    BY PassedIs
<1>4. IsChunked(Headers(list)) <=> InChunks(m)
    BY <1>1, AnnouncedIs
<1>5. ParsedData(list, data, chunks) = EndData(m)
    BY <1>4 DEF ParsedData, EndData, AtEnd
<1>6. ParsedList(list, chunks) = ResponseList(m)
    BY <1>1, <1>4 DEF ParsedList, ResponseList, AtEnd
<1>7. /\ Agree(Parsed.headers) /\ Parsed.headers.list = ResponseList(m)
    BY <1>6, ParsedIs
<1>8. Says(Parsed.headers, ContentEncoding, <<"gzip">>) <=> SaysGzip(ResponseList(m))
    BY <1>7, SaysIs
<1>9. CASE m.kind = "request"
    <2>1. ~InChunks(m)
        BY <1>1, <1>9, MessageParts DEF InChunks
    <2>2. data = EndData(m)
        BY <2>1 DEF EndData, AtEnd
    <2>3. out'.headers.list = RequestList(m) /\ out'.data = EndData(m)
        BY <1>1, <1>3, <1>9, <2>2 DEF RequestPassed, RequestList
    <2> QED BY <1>2, <1>3, <1>9, <2>3 DEF Outcome
<1>10. CASE m.kind = "response"
    <2>1. \/ out'.headers.list = ResponseList(m) /\ out'.data = EndData(m)
          \/ /\ out'.headers.list = CompressedList(ResponseList(m), Len(Gzipped(EndData(m))))
             /\ out'.data = Gzipped(EndData(m)) /\ ~SaysGzip(ResponseList(m))
        BY <1>3, <1>5, <1>6, <1>8, <1>10 DEF ResponsePassed
    <2> QED BY <1>2, <1>3, <1>10, <2>1 DEF Outcome
<1> QED BY <1>3, <1>9, <1>10

PassedInv == Positioned /\ (Passed /\ WholeLine(message) => Outcome(message, out))

LEMMA PassedInvAlways == Spec => []PassedInv
<1>1. Init => PassedInv
    <2>1. Init => out = NoMessage
        BY DEF Init
    <2> QED BY <2>1, ReadingInitially DEF PassedInv, Passed
<1>2. PassedInv /\ [Next]_vars => PassedInv'
    <2>1. SUFFICES ASSUME PassedInv, [Next]_vars PROVE PassedInv'
        OBVIOUS
    <2>2. Positioned /\ Positioned'
        BY <2>1, ReadingKept DEF PassedInv
    <2>3. SUFFICES ASSUME Passed', WholeLine(message)' PROVE Outcome(message, out)'
        BY <2>2 DEF PassedInv
    <2>4. CASE PassRequest \/ PassResponse
        <3>1. state = "PARSED" /\ message' = message
            BY <2>4 DEF PassRequest, PassResponse
        <3>2. WholeLine(message)
            BY <2>3, <3>1 DEF WholeLine
        <3>3. Typed /\ AtEnd
            BY <2>2, <3>1, <3>2 DEF Positioned, Reading
        <3>4. Outcome(message, out')
            BY <2>4, <3>2, <3>3, OutcomeIs
        <3>5. Outcome(message', out')
            BY <3>1, <3>4
        <3> QED BY <3>5 DEF Outcome, Agree, Keys, FirstOf, FirstWith
    <2>5. CASE ~PassRequest /\ ~PassResponse
        <3>1. out' = out /\ message' = message
            BY <2>1, <2>5, OthersPassNothing
        <3>2. Passed /\ WholeLine(message)
            BY <2>3, <3>1 DEF Passed, WholeLine
        <3>3. Outcome(message, out)
            BY <2>1, <3>2 DEF PassedInv
        <3> QED BY <3>1, <3>3
    <2> QED BY <2>4, <2>5
<1> QED BY <1>1, <1>2, PTL DEF Spec
\* The headers of a response whose body is understood tell its length, and nothing of chunks;
\* those of its encoding are the ones that were sent.
LEMMA ResponseListIs ==
    ASSUME NEW m \in Messages, Understood(m)
    PROVE  /\ ResponseList(m) \in HeaderList
           /\ Tells(ResponseList(m), Len(EndData(m)))
           /\ ~HasKey(ResponseList(m), TransferEncoding)
           /\ ~HasKey(ResponseList(m), ContentLength) => EndData(m) = <<>>
           /\ SaysGzip(ResponseList(m)) <=> SaysGzip(ParsedOthers(m))
<1> DEFINE l == ParsedOthers(m)
           h == ParseHeader(FramingHeader(m))
           n == Len(EndData(m))
<1>1. l \in HeaderList /\ ~HasKey(l, ContentLength) /\ ~HasKey(l, TransferEncoding)
    BY ParsedOthersAre
<1>2. EndData(m) = Received(m) /\ EndData(m) \in Text /\ n \in Nat
    <2>1. WholeLine(m)
        BY DEF Understood
    <2>2. EndData(m) \in Text
        BY BodyNotPacked
    <2> QED BY <2>1, <2>2, EndDataIs, TextElements
<1>3. m.framing \in {"length", "none", "chunked"}
    BY MessageParts
<1> HIDE DEF l, h
<1>4. CASE m.framing = "none"
    <2>1. ResponseList(m) = l
        BY <1>4 DEF ResponseList, InChunks, ParsedHeaders, l
    <2>2. EndData(m) = <<>>
        BY <1>4 DEF EndData, InChunks, Announced
    <2>3. Tells(l, n)
        BY <1>1 DEF Tells, HasKey
    <2> QED BY <1>1, <2>1, <2>2, <2>3 DEF l
<1>5. ASSUME m.framing # "none"
      PROVE  ParsedHeaders(m) = Append(l, h) /\ h \in HeaderRecord
    <2>1. FramingHeader(m) \in Text
        BY <1>5, FramingHeaderType
    <2> QED BY <1>5, <2>1, ParseHeaderType DEF ParsedHeaders, l, h
<1>6. CASE m.framing = "length"
    <2>1. m.framing # "none" /\ ~InChunks(m) /\ m.gap = <<" ">> /\ m.framing # "chunked"
        BY <1>6 DEF Understood, InChunks
    <2>2. h.key = ContentLength /\ h.value = ToText(Len(Body(m)))
        <3>1. m.gap # <<>>
            <4>1. <<" ">> # <<>>
                OBVIOUS
            <4> QED BY <2>1, <4>1
        <3>2. h.key = FramingKey(m)
            BY <2>1, <3>1, FramingParsed DEF h
        <3>3. h.value = ToText(Len(Body(m)))
            BY <1>6, <2>1, FramingParsed DEF h
        <3> QED BY <1>6, <3>2, <3>3 DEF FramingKey
    <2>3. EndData(m) = Body(m)
        BY <1>2, <2>1, ReceivedIs
    <2>4. ResponseList(m) = Append(l, h) /\ h \in HeaderRecord
        BY <1>5, <2>1 DEF ResponseList
    <2>5. Tells(l, n)
        BY <1>1 DEF Tells, HasKey
    <2>6. h.value = ToText(n)
        BY <2>2, <2>3
    <2> HIDE DEF n
    <2>7. Append(l, h) \in HeaderList /\ Tells(Append(l, h), n)
        BY <1>1, <2>4, <2>5, <2>6, AppendTells, AppendHeaderElements
    <2>8. \A key : HasKey(Append(l, h), key) <=> HasKey(l, key) \/ h.key = key
        BY <1>1, <2>4, HasKeyAppend
    <2>9. ~HasKey(Append(l, h), TransferEncoding) /\ HasKey(Append(l, h), ContentLength)
        BY <1>1, <2>2, <2>8, KeysDiffer
    <2>10. SaysGzip(Append(l, h)) <=> SaysGzip(l)
        <3>1. HasKey(Append(l, h), ContentEncoding) <=> HasKey(l, ContentEncoding)
            BY <2>2, <2>8, KeysDiffer
        <3>2. HasKey(l, ContentEncoding) => FirstOf(Append(l, h), ContentEncoding) = FirstOf(l, ContentEncoding)
            BY <1>1, <2>4, <3>1, FirstOfAppend
        <3> QED BY <3>1, <3>2 DEF SaysGzip
    <2> QED BY <2>4, <2>7, <2>9, <2>10 DEF n, l
<1>7. CASE m.framing = "chunked"
    <2> DEFINE p == Append(l, h)
               u == UpdatedList(p, LengthHeader(n))
               w == Without(u, {TransferEncoding})
    <2>1. m.framing # "none" /\ m.gap # <<>> /\ InChunks(m)
        <3>1. <<" ">> # <<>>
            OBVIOUS
        <3> QED BY <1>7, <3>1 DEF Understood, InChunks
    <2>2. h.key = TransferEncoding
        <3>1. h.key = FramingKey(m)
            BY <2>1, FramingParsed DEF h
        <3>2. FramingKey(m) = TransferEncoding
            BY <1>7 DEF FramingKey
        <3> QED BY <3>1, <3>2
    <2>3. ParsedHeaders(m) = p /\ h \in HeaderRecord
        BY <1>5, <2>1
    <2>4. ResponseList(m) = w
        BY <1>2, <2>1, <2>3 DEF ResponseList
    <2>5. p \in HeaderList
        BY <1>1, <2>3, AppendHeaderElements
    <2>6. SaysGzip(p) <=> SaysGzip(l)
        <3>1. \A key : HasKey(p, key) <=> HasKey(l, key) \/ h.key = key
            BY <1>1, <2>3, HasKeyAppend
        <3>2. HasKey(p, ContentEncoding) <=> HasKey(l, ContentEncoding)
            BY <2>2, <3>1, KeysDiffer
        <3>3. HasKey(l, ContentEncoding) => FirstOf(p, ContentEncoding) = FirstOf(l, ContentEncoding)
            BY <1>1, <2>3, <3>2, FirstOfAppend
        <3> QED BY <3>2, <3>3 DEF SaysGzip
    <2> HIDE DEF n, p
    <2>7. /\ u \in HeaderList /\ Tells(u, n) /\ HasKey(u, ContentLength)
          /\ \A key : key # ContentLength =>
                 /\ HasKey(u, key) <=> HasKey(p, key)
                 /\ HasKey(p, key) => FirstOf(u, key) = FirstOf(p, key)
        BY <1>2, <2>5, UpdatedIs
    <2>8. SaysGzip(u) <=> SaysGzip(p)
        <3>1. /\ HasKey(u, ContentEncoding) <=> HasKey(p, ContentEncoding)
              /\ HasKey(p, ContentEncoding) => FirstOf(u, ContentEncoding) = FirstOf(p, ContentEncoding)
            BY <2>7, KeysDiffer
        <3> QED BY <3>1 DEF SaysGzip
    <2> HIDE DEF u
    <2>9. w \in HeaderList /\ Tells(w, n)
        BY <2>7, WithoutType, WithoutTells
    <2>10. ~HasKey(w, TransferEncoding)
        <3>1. TransferEncoding \in {TransferEncoding}
            OBVIOUS
        <3> QED BY <2>7, <3>1, WithoutRemoves
    <2>11. ContentLength \notin {TransferEncoding} /\ ContentEncoding \notin {TransferEncoding}
        BY KeysDiffer
    <2>12. HasKey(w, ContentLength)
        BY <2>7, <2>11, WithoutKeeps
    <2>13. SaysGzip(w) <=> SaysGzip(u)
        <3>1. /\ HasKey(w, ContentEncoding) <=> HasKey(u, ContentEncoding)
              /\ HasKey(u, ContentEncoding) => FirstOf(w, ContentEncoding) = FirstOf(u, ContentEncoding)
            BY <2>7, <2>11, WithoutKeeps
        <3> QED BY <3>1 DEF SaysGzip
    <2> HIDE DEF w
    <2> QED BY <2>4, <2>6, <2>8, <2>9, <2>10, <2>12, <2>13 DEF n, l
<1> QED BY <1>3, <1>4, <1>6, <1>7

\* Those of a request, which has no chunks.
LEMMA RequestListIs ==
    ASSUME NEW m \in Messages, Understood(m), m.kind = "request"
    PROVE  /\ RequestList(m) \in HeaderList
           /\ Tells(RequestList(m), Len(EndData(m)))
           /\ ~HasKey(RequestList(m), TransferEncoding)
           /\ ~HasKey(RequestList(m), ContentLength) => EndData(m) = <<>>
<1> DEFINE l == ResponseList(m)
           w == Without(l, {AcceptEncoding})
<1>1. RequestList(m) = w
    <2>1. ~InChunks(m)
        BY MessageParts DEF InChunks
    <2> QED BY <2>1 DEF RequestList, ResponseList
<1>2. /\ l \in HeaderList /\ Tells(l, Len(EndData(m))) /\ ~HasKey(l, TransferEncoding)
      /\ ~HasKey(l, ContentLength) => EndData(m) = <<>>
    BY ResponseListIs
<1>3. ContentLength \notin {AcceptEncoding} /\ TransferEncoding \notin {AcceptEncoding}
    BY KeysDiffer
<1> HIDE DEF l
<1>4. w \in HeaderList /\ Tells(w, Len(EndData(m)))
    BY <1>2, WithoutType, WithoutTells
<1>5. /\ HasKey(w, ContentLength) <=> HasKey(l, ContentLength)
      /\ HasKey(w, TransferEncoding) <=> HasKey(l, TransferEncoding)
    BY <1>2, <1>3, WithoutKeeps
<1> HIDE DEF w
<1> QED BY <1>1, <1>2, <1>4, <1>5

\* Those of a compressed response.
LEMMA CompressedListIs ==
    ASSUME NEW l \in HeaderList, NEW n \in Nat, ~HasKey(l, TransferEncoding)
    PROVE  /\ CompressedList(l, n) \in HeaderList
           /\ Tells(CompressedList(l, n), n) /\ HasKey(CompressedList(l, n), ContentLength)
           /\ ~HasKey(CompressedList(l, n), TransferEncoding)
           /\ SaysGzip(CompressedList(l, n))
<1> DEFINE x == ExpandedList(l)
           u == UpdatedList(x, LengthHeader(n))
<1>1. /\ x \in HeaderList /\ HasKey(x, ContentEncoding)
      /\ <<"gzip">> \in SplitValue(FirstOf(x, ContentEncoding))
      /\ \A key : key # ContentEncoding => (HasKey(x, key) <=> HasKey(l, key))
    BY ExpandedListIs
<1>2. ~HasKey(x, TransferEncoding)
    BY <1>1, KeysDiffer
<1>3. CompressedList(l, n) = u
    BY DEF CompressedList
<1> HIDE DEF x
<1>4. /\ u \in HeaderList /\ Tells(u, n) /\ HasKey(u, ContentLength)
      /\ \A key : key # ContentLength =>
             /\ HasKey(u, key) <=> HasKey(x, key)
             /\ HasKey(x, key) => FirstOf(u, key) = FirstOf(x, key)
    BY <1>1, UpdatedIs
<1> HIDE DEF u
<1>5. ~HasKey(u, TransferEncoding)
    BY <1>2, <1>4, KeysDiffer
<1>6. HasKey(u, ContentEncoding) /\ FirstOf(u, ContentEncoding) = FirstOf(x, ContentEncoding)
    BY <1>1, <1>4, KeysDiffer
<1>7. SaysGzip(u)
    BY <1>1, <1>6 DEF SaysGzip
<1> QED BY <1>3, <1>4, <1>5, <1>7

---------------------------------------------------------------------------
(* Where the body ends, and what it is.                                    *)

LEMMA OutcomeFramed ==
    ASSUME NEW m \in Messages, NEW o, Outcome(m, o), Understood(m)
    PROVE  /\ o.headers.list \in HeaderList
           /\ Tells(o.headers.list, Len(o.data)) /\ ~HasKey(o.headers.list, TransferEncoding)
           /\ ~HasKey(o.headers.list, ContentLength) => o.data = <<>>
<1>1. \/ m.kind = "request" /\ o.headers.list = RequestList(m) /\ o.data = EndData(m)
      \/ m.kind = "response" /\ o.headers.list = ResponseList(m) /\ o.data = EndData(m)
      \/ /\ o.data = Gzipped(EndData(m))
         /\ o.headers.list = CompressedList(ResponseList(m), Len(Gzipped(EndData(m))))
    BY DEF Outcome
<1>2. CASE m.kind = "request" /\ o.headers.list = RequestList(m) /\ o.data = EndData(m)
    BY <1>2, RequestListIs
<1>3. CASE m.kind = "response" /\ o.headers.list = ResponseList(m) /\ o.data = EndData(m)
    BY <1>3, ResponseListIs
<1>4. CASE /\ o.data = Gzipped(EndData(m))
           /\ o.headers.list = CompressedList(ResponseList(m), Len(Gzipped(EndData(m))))
    <2> DEFINE l == ResponseList(m)
               n == Len(Gzipped(EndData(m)))
    <2>1. l \in HeaderList /\ ~HasKey(l, TransferEncoding)
        BY ResponseListIs
    <2>2. o.data \in Text
        BY DEF Outcome
    <2>3. n \in Nat
        BY <1>4, <2>2, TextElements
    <2>4. n = Len(o.data) /\ o.headers.list = CompressedList(l, n)
        BY <1>4
    <2> HIDE DEF l, n
    <2> QED BY <2>1, <2>3, <2>4, CompressedListIs
<1> QED BY <1>1, <1>2, <1>3, <1>4

\* What comes out, unpacked, is the body that was read.
LEMMA OutcomeUnpacked ==
    ASSUME NEW m \in Messages, NEW o, Outcome(m, o)
    PROVE  Unpacked(o.data) = EndData(m)
<1>1. NotPacked(EndData(m)) /\ EndData(m) \in Text
    BY BodyNotPacked
<1>2. o.data = EndData(m) \/ o.data = Gzipped(EndData(m))
    BY DEF Outcome
<1> QED BY <1>1, <1>2, UnpackedIs

\* Who reads a message that is passed on finds its end where it is, for all first lines,
\* bodies, chunks, gaps and other headers (UpdateContentLength, THttpHeaders::Update and
\* Remove, Compress.cpp).
THEOREM FramedAlways == Spec => []Framed
<1>1. PassedInv => Framed
    <2>1. SUFFICES ASSUME PassedInv, Passed, Understood(message)
                   PROVE  /\ \A k \in DOMAIN out.headers.list :
                                 /\ out.headers.list[k].key = ContentLength =>
                                        out.headers.list[k].value = ToText(Len(out.data))
                                 /\ out.headers.list[k].key # TransferEncoding
                          /\ ~HasKey(out.headers.list, ContentLength) => out.data = <<>>
        BY DEF Framed
    <2>2. message \in Messages /\ WholeLine(message)
        BY <2>1 DEF PassedInv, Positioned, Typed, Understood
    <2>3. Outcome(message, out)
        BY <2>1, <2>2 DEF PassedInv
    <2>4. /\ Tells(out.headers.list, Len(out.data)) /\ ~HasKey(out.headers.list, TransferEncoding)
          /\ ~HasKey(out.headers.list, ContentLength) => out.data = <<>>
        BY <2>1, <2>2, <2>3, OutcomeFramed
    <2> QED BY <2>4 DEF Tells, HasKey
<1> QED BY <1>1, PassedInvAlways, PTL

\* A body that does not come in chunks arrives as it was sent if its length is understood, and
\* any body is compressed only when the headers say so and when it was not compressed before
\* (TNParser, Compress.cpp).
THEOREM BodyArrivesAlways == Spec => []BodyArrives
<1>1. PassedInv => BodyArrives
    <2>1. SUFFICES ASSUME PassedInv, Passed, Understood(message)
                   PROVE  /\ message.framing # "chunked" => Unpacked(out.data) = Body(message)
                          /\ out.data # Unpacked(out.data) =>
                                 /\ message.kind = "response" /\ IsCompressed(out)
                                 /\ ~Says(Headers(ParsedOthers(message)), ContentEncoding, <<"gzip">>)
        BY DEF BodyArrives, ParsedOthers
    <2>2. message \in Messages /\ WholeLine(message)
        BY <2>1 DEF PassedInv, Positioned, Typed, Understood
    <2>3. Outcome(message, out)
        BY <2>1, <2>2 DEF PassedInv
    <2>4. EndData(message) = Received(message)
        BY <2>1, <2>2, EndDataIs
    <2>5. Unpacked(out.data) = EndData(message)
        BY <2>2, <2>3, OutcomeUnpacked
    <2>6. ASSUME message.framing # "chunked" PROVE Unpacked(out.data) = Body(message)
        BY <2>2, <2>4, <2>5, <2>6, ReceivedIs
    <2>7. ASSUME out.data # Unpacked(out.data)
          PROVE  /\ message.kind = "response" /\ IsCompressed(out)
                 /\ ~Says(Headers(ParsedOthers(message)), ContentEncoding, <<"gzip">>)
        <3> DEFINE l == ResponseList(message)
                   n == Len(out.data)
                   p == ParsedOthers(message)
        <3>1. /\ message.kind = "response"
              /\ ~SaysGzip(l) /\ out.headers.list = CompressedList(l, n)
            BY <2>3, <2>5, <2>7 DEF Outcome
        <3>2. Agree(out.headers) /\ n \in Nat
            BY <2>3, TextElements DEF Outcome
        <3>3. l \in HeaderList /\ ~HasKey(l, TransferEncoding) /\ (SaysGzip(l) <=> SaysGzip(p))
            BY <2>1, <2>2, ResponseListIs
        <3>4. SaysGzip(out.headers.list)
            <4> HIDE DEF l, n
            <4>1. SaysGzip(CompressedList(l, n))
                BY <3>2, <3>3, CompressedListIs
            <4> QED BY <3>1, <4>1
        <3>5. IsCompressed(out)
            BY <3>2, <3>4, SaysIs DEF IsCompressed
        <3>6. Agree(Headers(p)) /\ Headers(p).list = p
            BY <2>2, ParsedOthersAre, HeadersAgree
        <3>7. ~Says(Headers(p), ContentEncoding, <<"gzip">>)
            <4> HIDE DEF l, p
            <4>1. ~SaysGzip(Headers(p).list)
                BY <3>1, <3>3, <3>6
            <4> QED BY <3>6, <4>1, SaysIs
        <3> QED BY <3>1, <3>5, <3>7
    <2> QED BY <2>6, <2>7
<1> QED BY <1>1, PassedInvAlways, PTL

\* However a body is cut into chunks, each of them arrives once, whole and in its order, be
\* there a CR LF left at its end or not (THttpResponseParser::TImpl::Consume).
THEOREM ChunksInOrderAlways == Spec => []ChunksInOrder
<1>1. PassedInv => ChunksInOrder
    <2> DEFINE s == message.chunks
               ends == [k \in DOMAIN s |-> CRLF]
    <2>1. SUFFICES ASSUME PassedInv, Passed, Understood(message), message.framing = "chunked"
                   PROVE  \E e \in [DOMAIN s -> {<<>>, CRLF}] :
                              Unpacked(out.data) = FlattenSeq([k \in DOMAIN s |-> s[k] \o e[k]])
        BY DEF ChunksInOrder
    <2>2. message \in Messages /\ WholeLine(message) /\ Outcome(message, out)
        BY <2>1 DEF PassedInv, Positioned, Typed, Understood
    <2>3. Unpacked(out.data) = Received(message)
        BY <2>1, <2>2, EndDataIs, OutcomeUnpacked
    <2>4. Received(message) = FlattenSeq([k \in DOMAIN s |-> s[k] \o CRLF])
        BY <2>1 DEF Received
    <2> HIDE DEF s
    <2>5. [k \in DOMAIN s |-> s[k] \o CRLF] = [k \in DOMAIN s |-> s[k] \o ends[k]]
        OBVIOUS
    <2>6. ends \in [DOMAIN s -> {<<>>, CRLF}]
        OBVIOUS
    <2> QED BY <2>3, <2>4, <2>5, <2>6
<1> QED BY <1>1, PassedInvAlways, PTL

\* A body whose length is not understood is left out, all of it, for all messages that
\* WholeLine admits (DataLength and IsChunked of HTTP.cpp, AfterHeaders).
THEOREM NoOtherBodyAlways == Spec => []NoOtherBody
<1>1. PassedInv => NoOtherBody
    <2>1. SUFFICES ASSUME PassedInv, Passed, WholeLine(message), ~Understood(message)
                   PROVE  Unpacked(out.data) = <<>>
        BY DEF NoOtherBody
    <2>2. message \in Messages /\ Outcome(message, out)
        BY <2>1 DEF PassedInv, Positioned, Typed
    <2>3. EndData(message) = <<>>
        BY <2>1, <2>2, EndDataIs
    <2> QED BY <2>2, <2>3, OutcomeUnpacked
<1> QED BY <1>1, PassedInvAlways, PTL
---------------------------------------------------------------------------
(* What the proxy has no business with.                                    *)

\* Headers that differ only where they are left out.
LEMMA WithoutSame ==
    ASSUME NEW l \in HeaderList, NEW x \in HeaderList, NEW keys, Len(x) = Len(l),
           \A k \in 1 .. Len(l) : Kept(x[k], keys) = Kept(l[k], keys)
    PROVE  Without(x, keys) = Without(l, keys)
<1> DEFINE a == [k \in DOMAIN l |-> Kept(l[k], keys)]
           b == [k \in DOMAIN x |-> Kept(x[k], keys)]
<1>1. DOMAIN l = 1 .. Len(l) /\ DOMAIN x = 1 .. Len(l)
    BY ListElements
<1>2. Without(l, keys) = FlattenSeq(a) /\ Without(x, keys) = FlattenSeq(b)
    BY KeptsType
<1>3. a = b
    BY <1>1
<1> HIDE DEF a, b
<1> QED BY <1>2, <1>3

LEMMA WithoutUpdated ==
    ASSUME NEW l \in HeaderList, NEW h \in HeaderRecord, NEW keys, h.key \in keys
    PROVE  Without(UpdatedList(l, h), keys) = Without(l, keys)
<1>1. CASE HasKey(l, h.key)
    <2> DEFINE x == Replaced(l, h)
    <2>1. /\ x \in HeaderList /\ Len(x) = Len(l)
          /\ \A k \in 1 .. Len(l) : x[k] = IF l[k].key = h.key THEN h ELSE l[k]
        BY ReplacedElements
    <2> HIDE DEF x
    <2>2. \A k \in 1 .. Len(l) : Kept(x[k], keys) = Kept(l[k], keys)
        BY <2>1 DEF Kept
    <2>3. Without(x, keys) = Without(l, keys)
        BY <2>1, <2>2, WithoutSame
    <2> QED BY <1>1, <2>3 DEF UpdatedList, x
<1>2. CASE ~HasKey(l, h.key)
    BY <1>2, WithoutAppend DEF UpdatedList
<1> QED BY <1>1, <1>2

LEMMA WithoutExpanded ==
    ASSUME NEW l \in HeaderList, NEW keys, ContentEncoding \in keys
    PROVE  Without(ExpandedList(l), keys) = Without(l, keys)
<1> DEFINE x == ExpandedAll(l)
<1>1. /\ x \in HeaderList /\ Len(x) = Len(l)
      /\ \A k \in 1 .. Len(l) : x[k] = Expanded(l[k]) /\ x[k].key = l[k].key
    BY ExpandedElements
<1>2. \A k \in 1 .. Len(l) : l[k].key # ContentEncoding => Expanded(l[k]) = l[k]
    BY ListElements, ExpandedIs
<1> HIDE DEF x
<1>3. \A k \in 1 .. Len(l) : Kept(x[k], keys) = Kept(l[k], keys)
    BY <1>1, <1>2 DEF Kept
<1>4. Without(x, keys) = Without(l, keys)
    BY <1>1, <1>3, WithoutSame
<1>5. Without(Append(x, GzipHeader), keys) = Without(x, keys)
    BY <1>1, GzipHeaderIs, WithoutAppend
<1> QED BY <1>4, <1>5 DEF ExpandedList, x

LEMMA WithoutTwice ==
    ASSUME NEW few, NEW keys, few \subseteq keys
    PROVE  \A l \in HeaderList : Without(Without(l, few), keys) = Without(l, keys)
<1> DEFINE S == {l \in HeaderList : Without(Without(l, few), keys) = Without(l, keys)}
<1>1. <<>> \in S
    BY WithoutEmpty, EmptyList
<1>2. ASSUME NEW l \in HeaderList, NEW h \in HeaderRecord, l \in S PROVE Append(l, h) \in S
    <2> DEFINE m == Append(l, h)
               w == Without(l, few)
    <2>1. m \in HeaderList
        BY AppendHeaderElements
    <2>2. w \in HeaderList /\ Without(w, keys) = Without(l, keys)
        BY <1>2, WithoutType
    <2>3. Without(m, few) = IF h.key \in few THEN w ELSE Append(w, h)
        BY WithoutAppend
    <2>4. Without(m, keys) = IF h.key \in keys THEN Without(l, keys) ELSE Append(Without(l, keys), h)
        BY WithoutAppend
    <2> HIDE DEF m, w
    <2>5. Without(Append(w, h), keys) = IF h.key \in keys THEN Without(w, keys) ELSE Append(Without(w, keys), h)
        BY <2>2, WithoutAppend
    <2>6. Without(Without(m, few), keys) = Without(m, keys)
        BY <2>2, <2>3, <2>4, <2>5
    <2> QED BY <2>1, <2>6 DEF m
<1>3. HeaderList \subseteq S
    <2> HIDE DEF S
    <2> QED BY <1>1, <1>2, ListInduction
<1> QED BY <1>3

\* Whatever is passed on, the headers that the proxy does not touch are the ones that came.
LEMMA OutcomeUntouched ==
    ASSUME NEW m \in Messages, NEW o, Outcome(m, o)
    PROVE  Without(o.headers.list, Meddles) = Without(ParsedHeaders(m), Meddles)
<1> DEFINE p == ParsedHeaders(m)
           r == Len(Received(m))
           g == Len(Gzipped(EndData(m)))
           l == ResponseList(m)
<1>1. p \in HeaderList
    BY ParsedHeadersAre
<1>2. \A n \in Nat : LengthHeader(n) \in HeaderRecord /\ LengthHeader(n).key \in Meddles
    BY LengthHeaderIsRecord DEF LengthHeader, Meddles
<1>3. ContentEncoding \in Meddles /\ {AcceptEncoding} \subseteq Meddles /\ {TransferEncoding} \subseteq Meddles
    BY DEF Meddles
<1>4. r \in Nat
    BY ReceivedIs, TextElements
<1>5. l \in HeaderList /\ Without(l, Meddles) = Without(p, Meddles)
    <2>1. CASE InChunks(m)
        <3> DEFINE u == UpdatedList(p, LengthHeader(r))
        <3>1. l = Without(u, {TransferEncoding})
            BY <2>1 DEF ResponseList
        <3> HIDE DEF p, l, r
        <3>2. u \in HeaderList
            BY <1>1, <1>4, UpdatedIs
        <3>3. Without(u, Meddles) = Without(p, Meddles)
            BY <1>1, <1>2, <1>4, WithoutUpdated
        <3> HIDE DEF u
        <3>4. l \in HeaderList
            BY <3>1, <3>2, WithoutType
        <3>5. Without(l, Meddles) = Without(u, Meddles)
            BY <1>3, <3>1, <3>2, WithoutTwice
        <3> QED BY <3>3, <3>4, <3>5
    <2>2. CASE ~InChunks(m)
        BY <1>1, <2>2 DEF ResponseList
    <2> QED BY <2>1, <2>2
<1>6. \/ o.headers.list = RequestList(m)
      \/ o.headers.list = l
      \/ o.data = Gzipped(EndData(m)) /\ o.headers.list = CompressedList(l, g)
    BY DEF Outcome
<1>7. CASE o.headers.list = RequestList(m)
    BY <1>1, <1>3, <1>7, WithoutTwice DEF RequestList
<1>8. CASE o.headers.list = l
    BY <1>5, <1>8
<1>9. CASE o.data = Gzipped(EndData(m)) /\ o.headers.list = CompressedList(l, g)
    <2>1. g \in Nat
        <3>1. o.data \in Text
            BY DEF Outcome
        <3> QED BY <1>9, <3>1, TextElements
    <2> HIDE DEF p, l, g
    <2>2. ExpandedList(l) \in HeaderList
        BY <1>5, ExpandedListIs
    <2>3. Without(CompressedList(l, g), Meddles) = Without(ExpandedList(l), Meddles)
        BY <1>2, <2>1, <2>2, WithoutUpdated DEF CompressedList
    <2>4. Without(ExpandedList(l), Meddles) = Without(l, Meddles)
        BY <1>3, <1>5, WithoutExpanded
    <2> QED BY <1>5, <1>9, <2>3, <2>4 DEF p
<1> QED BY <1>6, <1>7, <1>8, <1>9

---------------------------------------------------------------------------
(* The lines that are written.                                             *)

\* What lines consist of.  A length of more than one digit is not spelled by symbols.
Glyphs    == Symbols \cup {Numerals[n + 1] : n \in Nat}
Serial(h) == SerializeHeader(h) \o CRLF
Serials(l) == [k \in DOMAIN l |-> Serial(l[k])]
Listed(l)  == [list |-> l]

LEMMA TextIsWritten ==
    ASSUME NEW t \in Text PROVE t \in Seq(Glyphs)
<1>1. Symbols \subseteq Glyphs
    BY DEF Glyphs
<1> QED BY <1>1, SeqMonotonic DEF Text

LEMMA SerialType ==
    ASSUME NEW h \in HeaderRecord PROVE Serial(h) \in Seq(Glyphs)
<1>1. h.key \in Seq(Glyphs) /\ ColonSpace \in Seq(Glyphs) /\ CRLF \in Seq(Glyphs)
    BY HeaderFields, DelimiterTypes, TextIsWritten
<1>2. h.value \in Seq(Glyphs)
    <2>1. h.value \in Text \/ \E n \in Nat : h.value = ToText(n)
        BY HeaderFields DEF Values
    <2>2. CASE h.value \in Text
        BY <2>2, TextIsWritten
    <2>3. ASSUME NEW n \in Nat, h.value = ToText(n) PROVE h.value \in Seq(Glyphs)
        <3> DEFINE x == Numerals[n + 1]
        <3>1. x \in Glyphs /\ h.value = <<x>>
            BY <2>3 DEF Glyphs, ToText
        <3> HIDE DEF x
        <3>2. <<x>> \in Seq(Glyphs)
            BY <3>1
        <3> QED BY <3>1, <3>2
    <2> QED BY <2>1, <2>2, <2>3
<1>3. h.key \o ColonSpace \in Seq(Glyphs)
    BY <1>1, ConcatProperties
<1>4. (h.key \o ColonSpace) \o h.value \in Seq(Glyphs)
    BY <1>2, <1>3, ConcatProperties
<1>5. SerializeHeader(h) \in Seq(Glyphs)
    BY <1>4 DEF SerializeHeader
<1> QED BY <1>1, <1>5, ConcatProperties DEF Serial

LEMMA SerialsType ==
    ASSUME NEW l \in HeaderList
    PROVE  /\ Serials(l) \in Seq(Seq(Glyphs)) /\ Len(Serials(l)) = Len(l)
           /\ \A k \in 1 .. Len(l) : Serials(l)[k] = Serial(l[k])
           /\ Serialize(Listed(l)) = FlattenSeq(Serials(l)) /\ Serialize(Listed(l)) \in Seq(Glyphs)
<1> DEFINE n == Len(l)
           s == Serials(l)
<1>1. n \in Nat /\ DOMAIN l = 1 .. n /\ \A k \in 1 .. n : l[k] \in HeaderRecord
    BY ListElements
<1>2. \A k \in 1 .. n : Serial(l[k]) \in Seq(Glyphs)
    BY <1>1, SerialType
<1>3. s = [k \in 1 .. n |-> Serial(l[k])]
    BY <1>1 DEF Serials
<1>4. s \in [1 .. n -> Seq(Glyphs)]
    BY <1>2, <1>3
<1>5. Serialize(Listed(l)) = FlattenSeq(s)
    BY DEF Serialize, Listed, Serials, Serial
<1> HIDE DEF s, n
<1>6. s \in Seq(Seq(Glyphs)) /\ Len(s) = n
    BY <1>1, <1>4
<1>7. FlattenSeq(s) \in Seq(Glyphs)
    BY <1>6, FlattenType
<1>8. \A k \in 1 .. n : s[k] = Serial(l[k])
    BY <1>3
<1> QED BY <1>5, <1>6, <1>7, <1>8 DEF s, n

LEMMA SerializeAppend ==
    ASSUME NEW l \in HeaderList, NEW h \in HeaderRecord
    PROVE  Serialize(Listed(Append(l, h))) = Serialize(Listed(l)) \o Serial(h)
<1> DEFINE m == Append(l, h)
           n == Len(l)
           s == Serials(l)
           t == Serials(m)
           u == Append(s, Serial(h))
<1>1. m \in HeaderList /\ Len(m) = n + 1 /\ m[n + 1] = h /\ \A k \in 1 .. n : m[k] = l[k]
    BY AppendHeaderElements
<1>2. /\ s \in Seq(Seq(Glyphs)) /\ Len(s) = n /\ \A k \in 1 .. n : s[k] = Serial(l[k])
      /\ Serialize(Listed(l)) = FlattenSeq(s)
    BY SerialsType
<1>3. Serial(h) \in Seq(Glyphs)
    BY SerialType
<1> HIDE DEF m, s
<1>4. /\ t \in Seq(Seq(Glyphs)) /\ Len(t) = n + 1 /\ \A k \in 1 .. n + 1 : t[k] = Serial(m[k])
      /\ Serialize(Listed(m)) = FlattenSeq(t)
    BY <1>1, SerialsType
<1>5. n \in Nat
    BY ListElements
<1> HIDE DEF t, n
<1>6. u \in Seq(Seq(Glyphs)) /\ Len(u) = n + 1
    BY <1>2, <1>3, AppendProperties
<1>7. u[n + 1] = Serial(h)
    BY <1>2, <1>3, AppendProperties
<1>8. \A k \in 1 .. n : u[k] = s[k]
    BY <1>2, <1>3, AppendProperties
<1> HIDE DEF u
<1>9. ASSUME NEW k \in 1 .. n + 1 PROVE t[k] = u[k]
    <2>1. k = n + 1 \/ k \in 1 .. n
        BY <1>5
    <2>2. CASE k = n + 1
        BY <1>1, <1>4, <1>7, <2>2
    <2>3. CASE k \in 1 .. n
        BY <1>1, <1>2, <1>4, <1>8, <2>3
    <2> QED BY <2>1, <2>2, <2>3
<1>10. t = u
    BY <1>4, <1>6, <1>9, SeqEqual
<1>11. FlattenSeq(u) = FlattenSeq(s) \o Serial(h)
    BY <1>2, <1>3, FlattenAppend DEF u
<1> QED BY <1>2, <1>4, <1>10, <1>11 DEF m

\* The lines of the headers without some keys.
Shown(h, keys)   == IF h.key \in keys THEN <<>> ELSE Serial(h)
ShownAll(l, keys) == [k \in DOMAIN l |-> Shown(l[k], keys)]

LEMMA ShownType ==
    ASSUME NEW l \in HeaderList, NEW keys
    PROVE  /\ ShownAll(l, keys) \in Seq(Seq(Glyphs)) /\ Len(ShownAll(l, keys)) = Len(l)
           /\ \A k \in 1 .. Len(l) : ShownAll(l, keys)[k] = Shown(l[k], keys)
<1> DEFINE n == Len(l)
           s == ShownAll(l, keys)
<1>1. n \in Nat /\ DOMAIN l = 1 .. n /\ \A k \in 1 .. n : l[k] \in HeaderRecord
    BY ListElements
<1>2. <<>> \in Seq(Glyphs)
    BY DelimiterTypes, TextIsWritten
<1>3. \A k \in 1 .. n : Shown(l[k], keys) \in Seq(Glyphs)
    BY <1>1, <1>2, SerialType DEF Shown
<1>4. s = [k \in 1 .. n |-> Shown(l[k], keys)]
    BY <1>1 DEF ShownAll
<1>5. s \in [1 .. n -> Seq(Glyphs)]
    BY <1>3, <1>4
<1>6. \A k \in 1 .. n : s[k] = Shown(l[k], keys)
    BY <1>4
<1> HIDE DEF s, n
<1>7. s \in Seq(Seq(Glyphs)) /\ Len(s) = n
    BY <1>1, <1>5
<1> QED BY <1>6, <1>7 DEF s, n

LEMMA ShownAppend ==
    ASSUME NEW l \in HeaderList, NEW h \in HeaderRecord, NEW keys
    PROVE  /\ FlattenSeq(ShownAll(Append(l, h), keys)) = FlattenSeq(ShownAll(l, keys)) \o Shown(h, keys)
           /\ FlattenSeq(ShownAll(l, keys)) \in Seq(Glyphs)
<1> DEFINE m == Append(l, h)
           n == Len(l)
           s == ShownAll(l, keys)
           t == ShownAll(m, keys)
           x == Shown(h, keys)
           u == Append(s, x)
<1>1. m \in HeaderList /\ Len(m) = n + 1 /\ m[n + 1] = h /\ \A k \in 1 .. n : m[k] = l[k]
    BY AppendHeaderElements
<1>2. s \in Seq(Seq(Glyphs)) /\ Len(s) = n /\ \A k \in 1 .. n : s[k] = Shown(l[k], keys)
    BY ShownType
<1>3. x \in Seq(Glyphs)
    <2>1. <<>> \in Seq(Glyphs)
        BY DelimiterTypes, TextIsWritten
    <2> QED BY <2>1, SerialType DEF Shown
<1> HIDE DEF m, s
<1>4. t \in Seq(Seq(Glyphs)) /\ Len(t) = n + 1 /\ \A k \in 1 .. n + 1 : t[k] = Shown(m[k], keys)
    BY <1>1, ShownType
<1>5. n \in Nat
    BY ListElements
<1>6. x = Shown(h, keys)
    OBVIOUS
<1> HIDE DEF t, n, x
<1>7. u \in Seq(Seq(Glyphs)) /\ Len(u) = n + 1
    BY <1>2, <1>3, AppendProperties
<1>8. u[n + 1] = x
    BY <1>2, <1>3, AppendProperties
<1>9. \A k \in 1 .. n : u[k] = s[k]
    BY <1>2, <1>3, AppendProperties
<1> HIDE DEF u
<1>10. ASSUME NEW k \in 1 .. n + 1 PROVE t[k] = u[k]
    <2>1. k = n + 1 \/ k \in 1 .. n
        BY <1>5
    <2>2. CASE k = n + 1
        BY <1>1, <1>4, <1>6, <1>8, <2>2
    <2>3. CASE k \in 1 .. n
        BY <1>1, <1>2, <1>4, <1>9, <2>3
    <2> QED BY <2>1, <2>2, <2>3
<1>11. t = u
    BY <1>4, <1>7, <1>10, SeqEqual
<1>12. FlattenSeq(u) = FlattenSeq(s) \o x
    BY <1>2, <1>3, FlattenAppend DEF u
<1>13. FlattenSeq(s) \in Seq(Glyphs)
    BY <1>2, FlattenType
<1> QED BY <1>11, <1>12, <1>13 DEF m, s, t, x

LEMMA ShownIs ==
    ASSUME NEW keys
    PROVE  \A l \in HeaderList : FlattenSeq(ShownAll(l, keys)) = Serialize(Listed(Without(l, keys)))
<1> DEFINE S == {l \in HeaderList : FlattenSeq(ShownAll(l, keys)) = Serialize(Listed(Without(l, keys)))}
<1>1. <<>> \in S
    <2>1. <<>> \in HeaderList /\ Without(<<>>, keys) = <<>>
        BY EmptyList, WithoutEmpty
    <2>2. ShownAll(<<>>, keys) = <<>> /\ Serials(<<>>) = <<>>
        BY <2>1, ShownType, SerialsType, EmptySeq
    <2>3. Serialize(Listed(<<>>)) = FlattenSeq(Serials(<<>>))
        BY <2>1, SerialsType
    <2> QED BY <2>1, <2>2, <2>3
<1>2. ASSUME NEW l \in HeaderList, NEW h \in HeaderRecord, l \in S PROVE Append(l, h) \in S
    <2> DEFINE w == Without(l, keys)
               f == FlattenSeq(ShownAll(l, keys))
    <2>1. Append(l, h) \in HeaderList
        BY AppendHeaderElements
    <2>2. w \in HeaderList /\ f = Serialize(Listed(w)) /\ f \in Seq(Glyphs)
        BY <1>2, WithoutType, ShownAppend
    <2>3. FlattenSeq(ShownAll(Append(l, h), keys)) = f \o Shown(h, keys)
        BY ShownAppend
    <2>4. Without(Append(l, h), keys) = IF h.key \in keys THEN w ELSE Append(w, h)
        BY WithoutAppend
    <2> HIDE DEF w, f
    <2>5. CASE h.key \in keys
        <3>1. f \o <<>> = f
            BY <2>2, ConcatEmptySeq
        <3> QED BY <2>1, <2>2, <2>3, <2>4, <2>5, <3>1 DEF Shown
    <2>6. CASE h.key \notin keys
        <3>1. Serialize(Listed(Append(w, h))) = Serialize(Listed(w)) \o Serial(h)
            BY <2>2, SerializeAppend
        <3> QED BY <2>1, <2>2, <2>3, <2>4, <2>6, <3>1 DEF Shown
    <2> QED BY <2>5, <2>6
<1>3. HeaderList \subseteq S
    <2> HIDE DEF S
    <2> QED BY <1>1, <1>2, ListInduction
<1> QED BY <1>3
---------------------------------------------------------------------------
(* A line is written as it was read.                                       *)

LEMMA PrefixOfConcat ==
    ASSUME NEW A, NEW s \in Seq(A), NEW t \in Seq(A) PROVE IsPrefix(s, s \o t)
<1> DEFINE n == Len(s)
           u == s \o t
<1>1. n \in Nat /\ Len(t) \in Nat /\ Len(u) = n + Len(t)
    BY ConcatProperties, LenProperties
<1>2. n <= Len(u)
    BY <1>1
<1>3. SubSeq(s, 1, n) = SubSeq(u, 1, n)
    <2>1. CASE n = 0
        <3>1. SubSeq(s, 1, 0) = <<>> /\ SubSeq(u, 1, 0) = <<>>
            BY SubSeqEmpty
        <3> QED BY <2>1, <3>1
    <2>2. CASE n # 0
        <3>1. 1 \in 1 .. Len(s) /\ n \in 1 .. Len(s)
            BY <1>1, <2>2
        <3> QED BY <3>1, SubSeqOfConcat1
    <2> QED BY <2>1, <2>2
<1> QED BY <1>2, <1>3 DEF IsPrefix

LEMMA AssociatedGlyphs ==
    ASSUME NEW s \in Seq(Glyphs), NEW t \in Seq(Glyphs), NEW u \in Seq(Glyphs)
    PROVE  (s \o t) \o u = s \o (t \o u) /\ s \o t \in Seq(Glyphs)
    BY ConcatAssociative, ConcatProperties

\* A text that ends with a delimiter.
LEMMA EndTakenApart ==
    ASSUME NEW t \in Text, NEW d \in Text, EndsWith(t, d)
    PROVE  Before(t, d) \o d = t
<1> DEFINE n == Len(t)
           k == Len(d)
           i == n - k
<1>1. n \in Nat /\ k \in Nat /\ k <= n /\ SubSeq(t, n - k + 1, n) = d
    BY TextElements DEF EndsWith
<1>2. i \in 1 - 1 .. n /\ n \in i .. n /\ 1 \in 1 .. n + 1 /\ n - k + 1 = i + 1
    <2> HIDE DEF n, k
    <2> QED BY <1>1
<1>3. SubSeq(t, 1, i) \o SubSeq(t, i + 1, n) = SubSeq(t, 1, n)
    <2> HIDE DEF i
    <2> QED BY <1>2, ConcatAdjacentSubSeq DEF Text
<1>4. SubSeq(t, 1, n) = t
    BY SubSeqFull DEF Text
<1>5. Before(t, d) = SubSeq(t, 1, i)
    BY DEF Before
<1> HIDE DEF n, k, i
<1> QED BY <1>1, <1>2, <1>3, <1>4, <1>5

\* What becomes of a header: without a space after its colon it gets one at its end.
LEMMA WrittenAsRead ==
    ASSUME NEW t \in Text
    PROVE  SerializeHeader(ParseHeader(t)) = IF Ends(t) = {} THEN t \o ColonSpace ELSE t
<1>1. CASE Ends(t) = {}
    <2>1. ParseHeader(t) = Header(t, <<>>)
        BY <1>1, ParseHeaderWithout
    <2>2. SerializeHeader(ParseHeader(t)) = (t \o ColonSpace) \o <<>>
        BY <2>1 DEF SerializeHeader, Header
    <2>3. t \o ColonSpace \in Text
        BY DelimiterTypes, ConcatType
    <2> QED BY <1>1, <2>2, <2>3, ConcatNone
<1>2. CASE Ends(t) # {}
    <2>1. PICK n \in Ends(t) : \A k \in Ends(t) : n <= k
        BY <1>2, FirstEnd
    <2> DEFINE r == Len(t)
               s == SubSeq(t, 1, n)
               v == SubSeq(t, n + 1, r)
               a == SubSeq(t, 1, n - 2)
    <2>2. n \in 2 .. r /\ ParseHeader(t) = Header(a, v) /\ r \in Nat
        BY <2>1, ParseHeaderAt, TextElements
    <2>3. EndsWith(s, ColonSpace)
        BY <2>1 DEF Ends
    <2>4. s \in Text /\ Len(s) = n
        <3>1. n \in 0 .. Len(t)
            BY <2>2
        <3> QED BY <3>1, BeginningOfText
    <2>5. Before(s, ColonSpace) = a
        <3>1. Before(s, ColonSpace) = SubSeq(s, 1, n - 2)
            <4>1. Len(ColonSpace) = 2
                BY DelimiterTypes
            <4> HIDE DEF s
            <4> QED BY <2>4, <4>1 DEF Before
        <3>2. SubSeq(s, 1, n - 2) = a
            <4>1. CASE n = 2
                <5>1. n - 2 = 0
                    BY <4>1
                <5>2. SubSeq(s, 1, 0) = <<>> /\ SubSeq(t, 1, 0) = <<>>
                    BY SubSeqEmpty
                <5> QED BY <5>1, <5>2
            <4>2. CASE n # 2
                <5> DEFINE m == n - 2
                <5>1. /\ 1 \in 1 .. Len(t) /\ n \in 1 .. Len(t) /\ m \in 1 .. n - 1 + 1 /\ 1 \in 1 .. n - 1 + 1
                      /\ 1 + 1 - 1 = 1 /\ 1 + m - 1 = m
                    BY <2>2, <4>2
                <5> HIDE DEF m
                <5>2. SubSeq(SubSeq(t, 1, n), 1, m) = SubSeq(t, 1 + 1 - 1, 1 + m - 1)
                    BY <5>1, SubSeqOfSubSeq DEF Text
                <5> QED BY <5>1, <5>2 DEF m
            <4> QED BY <4>1, <4>2
        <3> QED BY <3>1, <3>2
    <2>6. a \o ColonSpace = s
        <3> HIDE DEF a, s
        <3> QED BY <2>3, <2>4, <2>5, EndTakenApart, DelimiterTypes
    <2>7. s \o v = t
        <3>1. 1 \in 1 .. Len(t) + 1 /\ n \in 1 - 1 .. Len(t) /\ Len(t) \in n .. Len(t)
            BY <2>2
        <3>2. SubSeq(t, 1, n) \o SubSeq(t, n + 1, Len(t)) = SubSeq(t, 1, Len(t))
            BY <3>1, ConcatAdjacentSubSeq DEF Text
        <3> QED BY <3>2, SubSeqFull DEF Text
    <2>8. SerializeHeader(ParseHeader(t)) = (a \o ColonSpace) \o v
        <3> HIDE DEF a, v
        <3> QED BY <2>2 DEF SerializeHeader, Header
    <2> HIDE DEF a, s, v
    <2> QED BY <1>2, <2>6, <2>7, <2>8
<1> QED BY <1>1, <1>2

\* How a header comes out.
Spelt(t) == IF ParseHeader(t).key \in Meddles THEN <<>>
            ELSE IF Ends(t) # {} THEN t \o CRLF ELSE t \o ColonSpace \o CRLF

LEMMA SpeltIs ==
    ASSUME NEW t \in Text PROVE Spelt(t) = Shown(ParseHeader(t), Meddles)
    BY WrittenAsRead DEF Spelt, Shown, Serial

\* The other headers, in the order in which they came, are the first that come out.
LEMMA OthersWritten ==
    ASSUME NEW m \in Messages
    PROVE  IsPrefix(FlattenSeq([k \in DOMAIN m.others |-> Spelt(m.others[k])]),
                    Serialize(Listed(Without(ParsedHeaders(m), Meddles))))
<1> DEFINE l == ParsedOthers(m)
           s == [k \in DOMAIN m.others |-> Spelt(m.others[k])]
           w == Without(l, Meddles)
           n == Len(m.others)
<1>1. /\ DOMAIN m.others = 1 .. n /\ n \in Nat
      /\ \A k \in 1 .. n : m.others[k] \in Text
    BY MessageParts, OthersType
<1>2. l \in HeaderList /\ Len(l) = n /\ \A k \in 1 .. n : l[k] = ParseHeader(m.others[k])
    BY ParsedOthersAre
<1>3. DOMAIN l = 1 .. n
    BY <1>2, ListElements
<1>4. s = ShownAll(l, Meddles)
    <2>1. \A k \in 1 .. n : Spelt(m.others[k]) = Shown(l[k], Meddles)
        BY <1>1, <1>2, SpeltIs
    <2> HIDE DEF l, n
    <2> QED BY <1>1, <1>3, <2>1 DEF ShownAll
<1> HIDE DEF l, s, n
<1>5. FlattenSeq(s) = Serialize(Listed(w))
    BY <1>2, <1>4, ShownIs
<1>6. w \in HeaderList
    BY <1>2, WithoutType
<1>7. Serialize(Listed(w)) \in Seq(Glyphs)
    BY <1>6, SerialsType
<1>8. \/ Without(ParsedHeaders(m), Meddles) = w
      \/ \E h \in HeaderRecord : Without(ParsedHeaders(m), Meddles) = Append(w, h)
    <2>1. CASE m.framing = "none"
        BY <2>1 DEF ParsedHeaders, l
    <2>2. CASE m.framing # "none"
        <3> DEFINE h == ParseHeader(FramingHeader(m))
        <3>1. h \in HeaderRecord
            BY <2>2, FramingHeaderType, ParseHeaderType
        <3>2. ParsedHeaders(m) = Append(l, h)
            BY <2>2 DEF ParsedHeaders, l
        <3> HIDE DEF h
        <3>3. Without(Append(l, h), Meddles) = IF h.key \in Meddles THEN w ELSE Append(w, h)
            BY <1>2, <3>1, WithoutAppend
        <3> QED BY <3>1, <3>2, <3>3
    <2> QED BY <2>1, <2>2
<1> HIDE DEF w
<1>9. CASE Without(ParsedHeaders(m), Meddles) = w
    <2> DEFINE x == Serialize(Listed(w))
    <2>1. <<>> \in Seq(Glyphs)
        BY DelimiterTypes, TextIsWritten
    <2>2. x \o <<>> = x
        BY <1>7, ConcatEmptySeq
    <2>3. IsPrefix(x, x \o <<>>)
        <3> HIDE DEF x
        <3>1. x \in Seq(Glyphs)
            BY <1>7 DEF x
        <3> QED BY <2>1, <3>1, PrefixOfConcat
    <2> QED BY <1>5, <1>9, <2>2, <2>3 DEF s
<1>10. ASSUME NEW h \in HeaderRecord, Without(ParsedHeaders(m), Meddles) = Append(w, h)
       PROVE  IsPrefix(FlattenSeq(s), Serialize(Listed(Without(ParsedHeaders(m), Meddles))))
    <2> DEFINE x == Serialize(Listed(w))
               y == Serial(h)
    <2>1. Serialize(Listed(Append(w, h))) = x \o y
        BY <1>6, SerializeAppend
    <2>2. x \in Seq(Glyphs) /\ y \in Seq(Glyphs)
        BY <1>7, SerialType
    <2>3. FlattenSeq(s) = x
        BY <1>5
    <2> HIDE DEF x, y
    <2>4. IsPrefix(x, x \o y)
        BY <2>2, PrefixOfConcat
    <2> QED BY <1>10, <2>1, <2>3, <2>4
<1> QED BY <1>8, <1>9, <1>10 DEF s

\* The first line comes out as it went in.
LEMMA FirstLineWritten ==
    ASSUME NEW m \in Messages, WholeLine(m), NEW o, Outcome(m, o)
    PROVE  IsPrefix(m.first \o CRLF, SerializeMessage(o))
<1> DEFINE a == TheWords(m)[1]
           b == TheWords(m)[2]
           c == TheWords(m)[3]
           p == <<" ">>
           f == m.first \o CRLF
           s == Serialize(o.headers)
           d == o.data
<1>1. a \in Text /\ b \in Text /\ c \in Text /\ m.first = a \o (p \o (b \o (p \o c)))
    <2>1. 1 \in 1 .. 3 /\ 2 \in 1 .. 3 /\ 3 \in 1 .. 3
        OBVIOUS
    <2> QED BY <2>1, WordsType
<1>2. FirstLine(o) = (((a \o p) \o b) \o p) \o c
    <2>1. o.first[1] = a /\ o.first[2] = b /\ o.first[3] = c
        BY DEF Outcome
    <2> QED BY <2>1 DEF FirstLine
<1>3. p \in Text
    BY DelimiterTypes
<1> HIDE DEF a, b, c, p
<1>4. (((a \o p) \o b) \o p) \o c = a \o (p \o (b \o (p \o c)))
    <2>1. a \o p \in Text /\ p \o c \in Text
        BY <1>1, <1>3, ConcatType
    <2>2. (a \o p) \o b \in Text /\ b \o (p \o c) \in Text
        BY <1>1, <2>1, ConcatType
    <2>3. (((a \o p) \o b) \o p) \o c = ((a \o p) \o b) \o (p \o c)
        BY <1>1, <1>3, <2>2, AssociatedText
    <2>4. ((a \o p) \o b) \o (p \o c) = (a \o p) \o (b \o (p \o c))
        BY <1>1, <2>1, AssociatedText
    <2>5. (a \o p) \o (b \o (p \o c)) = a \o (p \o (b \o (p \o c)))
        BY <1>1, <1>3, <2>2, AssociatedText
    <2> QED BY <2>3, <2>4, <2>5
<1>5. FirstLine(o) = m.first
    BY <1>1, <1>2, <1>4
<1>6. f \in Seq(Glyphs) /\ CRLF \in Seq(Glyphs) /\ d \in Seq(Glyphs)
    <2>1. f \in Text /\ CRLF \in Text
        BY MessageParts, DelimiterTypes, ConcatType
    <2>2. d \in Text
        BY DEF Outcome
    <2> HIDE DEF f, d
    <2> QED BY <2>1, <2>2, TextIsWritten
<1>7. s \in Seq(Glyphs)
    <2>1. o.headers.list \in HeaderList
        BY DEF Outcome, Agree
    <2>2. s = Serialize(Listed(o.headers.list))
        BY DEF Serialize, Listed
    <2> HIDE DEF s
    <2> QED BY <2>1, <2>2, SerialsType
<1>8. SerializeMessage(o) = ((f \o s) \o CRLF) \o d
    BY <1>5 DEF SerializeMessage
<1> HIDE DEF f, s, d
<1>9. ((f \o s) \o CRLF) \o d = f \o ((s \o CRLF) \o d)
    <2> DEFINE e == CRLF
               y == s \o e
    <2>1. e \in Seq(Glyphs)
        BY <1>6
    <2> HIDE DEF e
    <2>2. (f \o s) \o e = f \o (s \o e)
        <3>1. f \in Seq(Glyphs)
            BY <1>6
        <3> QED BY <1>7, <2>1, <3>1, AssociatedGlyphs
    <2>3. y \in Seq(Glyphs)
        BY <1>7, <2>1, AssociatedGlyphs
    <2> HIDE DEF y
    <2>4. (f \o y) \o d = f \o (y \o d)
        BY <1>6, <2>3, AssociatedGlyphs
    <2> QED BY <2>2, <2>4 DEF e, y
<1>10. (s \o CRLF) \o d \in Seq(Glyphs)
    BY <1>6, <1>7, ConcatProperties
<1>11. IsPrefix(f, f \o ((s \o CRLF) \o d))
    BY <1>6, <1>10, PrefixOfConcat
<1> QED BY <1>8, <1>9, <1>11 DEF f

\* The first line arrives as it was sent, and so do the headers that the proxy has no business
\* with, in their order, for all first lines, bodies, chunks, gaps and other headers
\* (THttpHeader::Parse and Serialize, ExpandContentEncoding, THttpHeaders::Update and Remove).
THEOREM LinesArriveAlways == Spec => []LinesArrive
<1>1. PassedInv => LinesArrive
    <2>1. SUFFICES ASSUME PassedInv, Passed, WholeLine(message) PROVE LinesArrive
        BY DEF LinesArrive
    <2>2. message \in Messages /\ Outcome(message, out)
        BY <2>1 DEF PassedInv, Positioned, Typed
    <2>3. IsPrefix(message.first \o CRLF, SerializeMessage(out))
        BY <2>1, <2>2, FirstLineWritten
    <2>4. IsPrefix(FlattenSeq([k \in DOMAIN message.others |-> Spelt(message.others[k])]),
                   Serialize(Listed(Without(out.headers.list, Meddles))))
        BY <2>2, OthersWritten, OutcomeUntouched
    <2>5. \A t : Ends(t) # {} <=> \E k \in DOMAIN t : EndsWith(SubSeq(t, 1, k), ColonSpace)
        BY DEF Ends
    <2> QED BY <2>3, <2>4, <2>5 DEF LinesArrive, Spelt, Listed
<1> QED BY <1>1, PassedInvAlways, PTL
=============================================================================
