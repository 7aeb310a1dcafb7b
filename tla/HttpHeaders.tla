---------------------------- MODULE HttpHeaders ----------------------------
(***************************************************************************)
(* THttpHeader and THttpHeaders of individual/lib/HTTP.cpp: the headers of *)
(* a message, kept twice, as the list they come in and as a map from keys  *)
(* to values.  When a key comes several times, the map has its first       *)
(* value.                                                                  *)
(*                                                                         *)
(* A text is a sequence of symbols: words and numerals, and the characters *)
(* that the code looks at, " ", ",", ":", "CR" and "LF".                   *)
(***************************************************************************)
EXTENDS Integers, SequencesExt

CRLF == <<"CR", "LF">>
ColonSpace == <<":", " ">>

\* The numerals, for 0 .. 9.
Numerals == <<"0", "1", "2", "3", "4", "5", "6", "7", "8", "9">>
ToText(n) == <<Numerals[n + 1]>>
StartsWithNumber(text) == text # <<>> /\ \E n \in DOMAIN Numerals : text[1] = Numerals[n]
ToNumber(text) == (CHOOSE n \in DOMAIN Numerals : text[1] = Numerals[n]) - 1

\* TUntilParser: whether text has come to its delimiter, and what is before it.
EndsWith(text, delimiter) ==
    Len(delimiter) <= Len(text) /\ SubSeq(text, Len(text) - Len(delimiter) + 1, Len(text)) = delimiter
Before(text, delimiter) == SubSeq(text, 1, Len(text) - Len(delimiter))

---------------------------------------------------------------------------
Header(key, value) == [key |-> key, value |-> value]

\* The key ends before the first colon with a space after it; a line without one is
\* all key.
ParseHeader(text) ==
    LET ends == {n \in DOMAIN text : EndsWith(SubSeq(text, 1, n), ColonSpace)}
        first == CHOOSE n \in ends : \A k \in ends : n <= k
    IN  IF ends = {} THEN Header(text, <<>>)
        ELSE Header(Before(SubSeq(text, 1, first), ColonSpace), SubSeq(text, first + 1, Len(text)))

SerializeHeader(h) == h.key \o ColonSpace \o h.value

\* The directives between spaces and commas.
SplitValue(value) ==
    LET cuts == {0, Len(value) + 1} \cup {k \in DOMAIN value : value[k] \in {" ", ","}}
        next(k) == CHOOSE j \in cuts : k < j /\ \A i \in cuts : k < i => j <= i
    IN  {SubSeq(value, k + 1, next(k) - 1) : k \in cuts \ {Len(value) + 1}} \ {<<>>}

---------------------------------------------------------------------------
HasKey(list, key) == \E k \in DOMAIN list : list[k].key = key
FirstWith(list, key) == CHOOSE k \in DOMAIN list : list[k].key = key /\ \A j \in 1 .. k - 1 : list[j].key # key
FirstOf(list, key) == list[FirstWith(list, key)].value
Without(list, keys) == FlattenSeq([k \in DOMAIN list |-> IF list[k].key \in keys THEN <<>> ELSE <<list[k]>>])

\* The constructor.
Headers(list) == [list   |-> list,
                  values |-> [key \in {list[k].key : k \in DOMAIN list} |-> FirstOf(list, key)]]

HasValue(headers, key) == key \in DOMAIN headers.values   \* Find

AppendHeader(headers, h) ==
    [list   |-> Append(headers.list, h),
     values |-> IF HasValue(headers, h.key) THEN headers.values
                ELSE [key \in DOMAIN headers.values \cup {h.key} |->
                          IF key = h.key THEN h.value ELSE headers.values[key]]]

Update(headers, h) ==
    IF ~HasValue(headers, h.key) THEN AppendHeader(headers, h)
    ELSE [list   |-> [k \in DOMAIN headers.list |->
                         IF headers.list[k].key = h.key THEN h ELSE headers.list[k]],
          values |-> [headers.values EXCEPT ![h.key] = h.value]]

\* THttpHeaders::Remove.  Mutant: the map is left as it is.
RemoveList(headers, key) == [headers EXCEPT !.list = Without(@, {key})]
RemoveKey(headers, key) ==
    [list   |-> Without(headers.list, {key}),
     values |-> [k \in DOMAIN headers.values \ {key} |-> headers.values[k]]]

Serialize(headers) ==
    FlattenSeq([k \in DOMAIN headers.list |-> SerializeHeader(headers.list[k]) \o CRLF])

---------------------------------------------------------------------------
ContentLength    == <<"Content-Length">>
TransferEncoding == <<"Transfer-Encoding">>
AcceptEncoding   == <<"Accept-Encoding">>
ContentEncoding  == <<"Content-Encoding">>

\* The last Content-Length, if it is a number.  Mutant: the result is not initialised.
LastWith(list, key) == CHOOSE k \in DOMAIN list : list[k].key = key /\ \A j \in k + 1 .. Len(list) : list[j].key # key
LastLength(headers) == headers.list[LastWith(headers.list, ContentLength)].value
DataLengthOfGarbage(headers) ==
    IF ~HasKey(headers.list, ContentLength) THEN 0
    ELSE IF StartsWithNumber(LastLength(headers)) THEN ToNumber(LastLength(headers)) ELSE 1
DataLength(headers) ==
    IF HasKey(headers.list, ContentLength) /\ StartsWithNumber(LastLength(headers))
    THEN ToNumber(LastLength(headers)) ELSE 0

\* Whether a directive is among those of the first header with that key.
Says(headers, key, directive) == HasValue(headers, key) /\ directive \in SplitValue(headers.values[key])
IsChunked(headers) == Says(headers, TransferEncoding, <<"chunked">>)
=============================================================================
