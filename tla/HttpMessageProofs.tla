------------------------- MODULE HttpMessageProofs -------------------------
(***************************************************************************)
(* What HttpMessage does to headers, lines and bodies, proved for all      *)
(* messages that its assumptions allow.                                    *)
(***************************************************************************)
EXTENDS HttpMessage, SequenceFacts

Text == Seq(Symbols)

\* The value of a header is a text, but for a number that stands for none of one numeral.
Values       == Text \cup {ToText(n) : n \in Nat}
HeaderRecord == {h \in [key : Text, value : Values] : h.key = ContentLength \/ h.value \in Text}
HeaderList   == Seq(HeaderRecord)

---------------------------------------------------------------------------
(* The headers with a key.                                                 *)

LEMMA HeaderFields ==
    ASSUME NEW h \in HeaderRecord
    PROVE  /\ h.key \in Text /\ h.value \in Values /\ h = Header(h.key, h.value)
           /\ h.key # ContentLength => h.value \in Text
    BY DEF HeaderRecord, Header

LEMMA HeaderIsRecord ==
    ASSUME NEW k \in Text, NEW v \in Values, k = ContentLength \/ v \in Text
    PROVE  Header(k, v) \in HeaderRecord /\ Header(k, v).key = k /\ Header(k, v).value = v
    BY DEF HeaderRecord, Header

LEMMA LengthHeaderIsRecord ==
    ASSUME NEW n \in Nat
    PROVE  /\ Header(ContentLength, ToText(n)) \in HeaderRecord
           /\ Header(ContentLength, ToText(n)).key = ContentLength
           /\ Header(ContentLength, ToText(n)).value = ToText(n)
<1>1. ContentLength \in Text /\ ToText(n) \in Values
    <2>1. "Content-Length" \in Symbols
        BY SymbolsAssumption DEF Known
    <2>2. <<"Content-Length">> \in Seq(Symbols)
        BY <2>1
    <2> QED BY <2>2 DEF ContentLength, Text, Values
<1> QED BY <1>1, HeaderIsRecord

LEMMA ListElements ==
    ASSUME NEW l \in HeaderList
    PROVE  /\ Len(l) \in Nat /\ DOMAIN l = 1 .. Len(l)
           /\ \A k \in 1 .. Len(l) : l[k] \in HeaderRecord
    BY LenProperties, ElementOfSeq DEF HeaderList

LEMMA FirstWithIs ==
    ASSUME NEW l \in HeaderList, NEW key, NEW k \in 1 .. Len(l),
           l[k].key = key, \A j \in 1 .. k - 1 : l[j].key # key
    PROVE  FirstWith(l, key) = k
<1>1. Len(l) \in Nat /\ DOMAIN l = 1 .. Len(l)
    BY ListElements
<1> DEFINE P(i) == l[i].key = key /\ \A j \in 1 .. i - 1 : l[j].key # key
<1>2. ASSUME NEW i \in 1 .. Len(l), P(i) PROVE i = k
    <2>1. ~(i < k) /\ ~(k < i)
        BY <1>1, <1>2
    <2> QED BY <1>1, <2>1
<1>3. k \in DOMAIN l /\ P(k)
    BY <1>1
<1>4. (CHOOSE i \in DOMAIN l : P(i)) = k
    <2> HIDE DEF P
    <2> QED BY <1>1, <1>2, <1>3
<1> QED BY <1>4 DEF FirstWith

LEMMA FirstWithExists ==
    ASSUME NEW l \in HeaderList, NEW key, HasKey(l, key)
    PROVE  \E k \in 1 .. Len(l) : l[k].key = key /\ \A j \in 1 .. k - 1 : l[j].key # key
<1> DEFINE S == {k \in 1 .. Len(l) : l[k].key = key}
<1>1. S # {} /\ S \subseteq Nat
    BY ListElements DEF HasKey
<1>2. PICK k \in S : \A j \in S : k <= j
    <2> HIDE DEF S
    <2> QED BY <1>1, Smallest
<1>3. ASSUME NEW j \in 1 .. k - 1 PROVE l[j].key # key
    BY <1>2, ListElements
<1> QED BY <1>3

\* The first header with a key is the one that FirstOf takes.
LEMMA FirstOfIs ==
    ASSUME NEW l \in HeaderList, NEW key, NEW k \in 1 .. Len(l),
           l[k].key = key, \A j \in 1 .. k - 1 : l[j].key # key
    PROVE  FirstOf(l, key) = l[k].value
    BY FirstWithIs DEF FirstOf

LEMMA AppendHeaderElements ==
    ASSUME NEW l \in HeaderList, NEW h \in HeaderRecord
    PROVE  /\ Append(l, h) \in HeaderList /\ Len(Append(l, h)) = Len(l) + 1
           /\ \A k \in 1 .. Len(l) : Append(l, h)[k] = l[k]
           /\ Append(l, h)[Len(l) + 1] = h
    BY AppendProperties DEF HeaderList

LEMMA HasKeyAppend ==
    ASSUME NEW l \in HeaderList, NEW h \in HeaderRecord, NEW key
    PROVE  HasKey(Append(l, h), key) <=> HasKey(l, key) \/ h.key = key
<1> DEFINE m == Append(l, h)
<1>1. /\ m \in HeaderList /\ Len(m) = Len(l) + 1 /\ m[Len(l) + 1] = h
      /\ \A k \in 1 .. Len(l) : m[k] = l[k]
    BY AppendHeaderElements
<1> HIDE DEF m
<1>2. Len(l) \in Nat /\ DOMAIN l = 1 .. Len(l) /\ DOMAIN m = 1 .. Len(l) + 1
    BY <1>1, ListElements
<1>3. HasKey(m, key) <=> HasKey(l, key) \/ h.key = key
    <2>1. ASSUME NEW k \in DOMAIN m, m[k].key = key PROVE HasKey(l, key) \/ h.key = key
        <3>1. k = Len(l) + 1 \/ k \in DOMAIN l
            BY <1>2
        <3> QED BY <1>1, <1>2, <2>1, <3>1 DEF HasKey
    <2>2. ASSUME NEW k \in DOMAIN l, l[k].key = key PROVE HasKey(m, key)
        <3>1. k \in DOMAIN m /\ m[k] = l[k]
            BY <1>1, <1>2
        <3> QED BY <2>2, <3>1 DEF HasKey
    <2>3. ASSUME h.key = key PROVE HasKey(m, key)
        <3>1. Len(l) + 1 \in DOMAIN m
            BY <1>2
        <3> QED BY <1>1, <2>3, <3>1 DEF HasKey
    <2> QED BY <2>1, <2>2, <2>3 DEF HasKey
<1> QED BY <1>3 DEF m

LEMMA FirstOfAppend ==
    ASSUME NEW l \in HeaderList, NEW h \in HeaderRecord, NEW key, HasKey(Append(l, h), key)
    PROVE  FirstOf(Append(l, h), key) = IF HasKey(l, key) THEN FirstOf(l, key) ELSE h.value
<1> DEFINE m == Append(l, h)
<1>1. /\ m \in HeaderList /\ Len(m) = Len(l) + 1 /\ m[Len(l) + 1] = h
      /\ \A k \in 1 .. Len(l) : m[k] = l[k]
    BY AppendHeaderElements
<1>2. HasKey(l, key) \/ h.key = key
    BY HasKeyAppend
<1> HIDE DEF m
<1>3. Len(l) \in Nat /\ DOMAIN l = 1 .. Len(l)
    BY ListElements
<1>4. CASE HasKey(l, key)
    <2>1. PICK k \in 1 .. Len(l) : l[k].key = key /\ \A j \in 1 .. k - 1 : l[j].key # key
        BY <1>4, FirstWithExists
    <2>2. k \in 1 .. Len(m) /\ m[k] = l[k] /\ \A j \in 1 .. k - 1 : m[j] = l[j]
        BY <1>1, <1>3
    <2>3. FirstOf(m, key) = m[k].value
        BY <1>1, <2>1, <2>2, FirstOfIs
    <2>4. FirstOf(l, key) = l[k].value
        BY <2>1, FirstOfIs
    <2> QED BY <1>4, <2>2, <2>3, <2>4 DEF m
<1>5. CASE ~HasKey(l, key)
    <2> DEFINE k == Len(l) + 1
    <2>1. k \in 1 .. Len(m) /\ m[k].key = key
        BY <1>1, <1>2, <1>3, <1>5
    <2>2. ASSUME NEW j \in 1 .. k - 1 PROVE m[j].key # key
        BY <1>1, <1>3, <1>5 DEF HasKey
    <2>3. FirstOf(m, key) = m[k].value
        <3> HIDE DEF k
        <3> QED BY <1>1, <2>1, <2>2, FirstOfIs
    <2> QED BY <1>1, <1>5, <2>3 DEF m
<1> QED BY <1>4, <1>5
---------------------------------------------------------------------------
(* The headers without those of some keys.                                 *)

Kept(h, keys) == IF h.key \in keys THEN <<>> ELSE <<h>>

LEMMA KeptType ==
    ASSUME NEW h \in HeaderRecord, NEW keys
    PROVE  Kept(h, keys) \in HeaderList
    BY EmptySeq DEF Kept, HeaderList

LEMMA KeptsType ==
    ASSUME NEW l \in HeaderList, NEW keys
    PROVE  LET kept == [k \in DOMAIN l |-> Kept(l[k], keys)]
           IN  /\ kept \in Seq(HeaderList) /\ Len(kept) = Len(l)
               /\ \A k \in 1 .. Len(l) : kept[k] = Kept(l[k], keys)
               /\ Without(l, keys) = FlattenSeq(kept)
<1> DEFINE kept == [k \in DOMAIN l |-> Kept(l[k], keys)]
<1>1. Len(l) \in Nat /\ DOMAIN l = 1 .. Len(l) /\ \A k \in 1 .. Len(l) : l[k] \in HeaderRecord
    BY ListElements
<1>2. kept \in [1 .. Len(l) -> HeaderList]
    BY <1>1, KeptType
<1>3. Without(l, keys) = FlattenSeq(kept)
    BY DEF Without, Kept
<1> QED BY <1>1, <1>2, <1>3

LEMMA WithoutType ==
    ASSUME NEW l \in HeaderList, NEW keys PROVE Without(l, keys) \in HeaderList
<1>1. PICK kept \in Seq(HeaderList) : Without(l, keys) = FlattenSeq(kept)
    BY KeptsType
<1>2. HeaderList = Seq(HeaderRecord)
    BY DEF HeaderList
<1> QED BY <1>1, <1>2, FlattenType

LEMMA WithoutEmpty ==
    ASSUME NEW keys PROVE Without(<<>>, keys) = <<>>
<1>1. [k \in DOMAIN <<>> |-> IF <<>>[k].key \in keys THEN <<>> ELSE <<<<>>[k]>>] = <<>>
    OBVIOUS
<1> QED BY <1>1, FlattenEmpty DEF Without

LEMMA WithoutAppend ==
    ASSUME NEW l \in HeaderList, NEW h \in HeaderRecord, NEW keys
    PROVE  Without(Append(l, h), keys) = IF h.key \in keys THEN Without(l, keys) ELSE Append(Without(l, keys), h)
<1> DEFINE m == Append(l, h)
           n == Len(l)
           kept(u) == [k \in DOMAIN u |-> Kept(u[k], keys)]
           v == Append(kept(l), Kept(h, keys))
<1>1. /\ m \in HeaderList /\ Len(m) = n + 1 /\ m[n + 1] = h
      /\ \A k \in 1 .. n : m[k] = l[k]
    BY AppendHeaderElements
<1>2. n \in Nat
    BY ListElements
<1> HIDE DEF m
<1>3. /\ kept(l) \in Seq(HeaderList) /\ Len(kept(l)) = n
      /\ \A k \in 1 .. n : kept(l)[k] = Kept(l[k], keys)
      /\ Without(l, keys) = FlattenSeq(kept(l))
    BY KeptsType
<1>4. /\ kept(m) \in Seq(HeaderList) /\ Len(kept(m)) = n + 1
      /\ \A k \in 1 .. n + 1 : kept(m)[k] = Kept(m[k], keys)
      /\ Without(m, keys) = FlattenSeq(kept(m))
    BY <1>1, KeptsType
<1> HIDE DEF kept
<1>5. /\ v \in Seq(HeaderList) /\ Len(v) = n + 1 /\ v[n + 1] = Kept(h, keys)
      /\ \A k \in 1 .. n : v[k] = kept(l)[k]
    BY <1>3, KeptType, AppendProperties
<1> HIDE DEF v
<1>6. ASSUME NEW k \in 1 .. n + 1 PROVE kept(m)[k] = v[k]
    <2>1. CASE k = n + 1
        BY <1>1, <1>4, <1>5, <2>1
    <2>2. CASE k # n + 1
        <3>1. k \in 1 .. n
            BY <1>2, <2>2
        <3>2. v[k] = Kept(l[k], keys)
            BY <1>3, <1>5, <3>1
        <3> QED BY <1>1, <1>4, <3>1, <3>2
    <2> QED BY <2>1, <2>2
<1>7. kept(m) = v
    BY <1>4, <1>5, <1>6, SeqEqual
<1>8. FlattenSeq(v) = FlattenSeq(kept(l)) \o Kept(h, keys)
    <2>1. HeaderList = Seq(HeaderRecord) /\ Kept(h, keys) \in HeaderList
        BY KeptType DEF HeaderList
    <2> QED BY <1>3, <2>1, FlattenAppend DEF v
<1>9. Without(m, keys) = Without(l, keys) \o Kept(h, keys)
    BY <1>3, <1>4, <1>7, <1>8
<1>10. Without(l, keys) \in Seq(HeaderRecord)
    BY WithoutType DEF HeaderList
<1>11. CASE h.key \in keys
    BY <1>9, <1>10, <1>11, ConcatEmptySeq DEF Kept, m
<1>12. CASE h.key \notin keys
    BY <1>9, <1>10, <1>12, AppendIsConcat DEF Kept, m
<1> QED BY <1>11, <1>12

\* Induction over lists of headers.
LEMMA ListInduction ==
    ASSUME NEW S, <<>> \in S,
           \A l \in HeaderList, h \in HeaderRecord : l \in S => Append(l, h) \in S
    PROVE  HeaderList \subseteq S
    BY SeqInduction DEF HeaderList

LEMMA EmptyList == <<>> \in HeaderList /\ \A key : ~HasKey(<<>>, key)
    BY EmptySeq DEF HeaderList, HasKey

\* What is left has its keys and their first values as before.
LEMMA WithoutKeeps ==
    ASSUME NEW l \in HeaderList, NEW keys, NEW key, key \notin keys
    PROVE  /\ HasKey(Without(l, keys), key) <=> HasKey(l, key)
           /\ HasKey(l, key) => FirstOf(Without(l, keys), key) = FirstOf(l, key)
<1> DEFINE P(u) == /\ HasKey(Without(u, keys), key) <=> HasKey(u, key)
                   /\ HasKey(u, key) => FirstOf(Without(u, keys), key) = FirstOf(u, key)
           S == {u \in HeaderList : P(u)}
<1>1. <<>> \in S
    BY EmptyList, WithoutEmpty
<1>2. ASSUME NEW u \in HeaderList, NEW h \in HeaderRecord, u \in S PROVE Append(u, h) \in S
    <2> DEFINE m == Append(u, h)
               w == Without(u, keys)
    <2>1. m \in HeaderList /\ w \in HeaderList
        BY AppendHeaderElements, WithoutType
    <2>2. P(u)
        BY <1>2
    <2>3. HasKey(m, key) <=> HasKey(u, key) \/ h.key = key
        BY HasKeyAppend
    <2>4. CASE h.key \in keys
        <3>1. Without(m, keys) = w /\ h.key # key
            BY <2>4, WithoutAppend
        <3>2. HasKey(m, key) => FirstOf(m, key) = FirstOf(u, key)
            BY <2>3, <3>1, FirstOfAppend
        <3>3. P(m)
            <4> HIDE DEF m, w
            <4> QED BY <2>2, <2>3, <3>1, <3>2 DEF w
        <3> QED BY <2>1, <3>3
    <2>5. CASE h.key \notin keys
        <3>1. Without(m, keys) = Append(w, h)
            BY <2>5, WithoutAppend
        <3>2. HasKey(Append(w, h), key) <=> HasKey(w, key) \/ h.key = key
            BY <2>1, HasKeyAppend
        <3>3. HasKey(m, key) => FirstOf(m, key) = IF HasKey(u, key) THEN FirstOf(u, key) ELSE h.value
            BY FirstOfAppend
        <3>4. HasKey(Append(w, h), key)
                  => FirstOf(Append(w, h), key) = IF HasKey(w, key) THEN FirstOf(w, key) ELSE h.value
            BY <2>1, FirstOfAppend
        <3>5. P(m)
            <4> HIDE DEF m
            <4> QED BY <2>2, <2>3, <3>1, <3>2, <3>3, <3>4
        <3> QED BY <2>1, <3>5
    <2> QED BY <2>4, <2>5
<1>3. HeaderList \subseteq S
    <2> HIDE DEF S
    <2> QED BY <1>1, <1>2, ListInduction
<1>4. P(l)
    BY <1>3
<1> QED BY <1>4

LEMMA WithoutRemoves ==
    ASSUME NEW l \in HeaderList, NEW keys, NEW key \in keys
    PROVE  ~HasKey(Without(l, keys), key)
<1> DEFINE S == {u \in HeaderList : ~HasKey(Without(u, keys), key)}
<1>1. <<>> \in S
    BY EmptyList, WithoutEmpty
<1>2. ASSUME NEW u \in HeaderList, NEW h \in HeaderRecord, u \in S PROVE Append(u, h) \in S
    <2>1. Append(u, h) \in HeaderList /\ Without(u, keys) \in HeaderList
        BY AppendHeaderElements, WithoutType
    <2>2. CASE h.key \in keys
        BY <1>2, <2>1, <2>2, WithoutAppend
    <2>3. CASE h.key \notin keys
        <3>1. ~HasKey(Append(Without(u, keys), h), key)
            BY <1>2, <2>1, <2>3, HasKeyAppend
        <3> QED BY <2>1, <2>3, <3>1, WithoutAppend
    <2> QED BY <2>2, <2>3
<1>3. HeaderList \subseteq S
    <2> HIDE DEF S
    <2> QED BY <1>1, <1>2, ListInduction
<1> QED BY <1>3

---------------------------------------------------------------------------
(* The two views of THttpHeaders.                                          *)

Keys(l) == {l[k].key : k \in DOMAIN l}

Agree(headers) ==
    /\ headers.list \in HeaderList
    /\ DOMAIN headers.values = Keys(headers.list)
    /\ \A key \in DOMAIN headers.values : headers.values[key] = FirstOf(headers.list, key)

LEMMA KeysAre ==
    ASSUME NEW l, NEW key
    PROVE  HasKey(l, key) <=> key \in Keys(l)
    BY DEF HasKey, Keys

\* The constructor.
LEMMA HeadersAgree ==
    ASSUME NEW l \in HeaderList PROVE Agree(Headers(l)) /\ Headers(l).list = l
    BY DEF Agree, Headers, Keys

LEMMA AppendAgrees ==
    ASSUME NEW headers, Agree(headers), NEW h \in HeaderRecord
    PROVE  Agree(AppendHeader(headers, h))
<1> DEFINE l == headers.list
           m == Append(l, h)
           keys == Keys(l)
           mkeys == Keys(m)
           new == AppendHeader(headers, h)
<1>1. l \in HeaderList /\ DOMAIN headers.values = keys
    BY DEF Agree
<1>2. m \in HeaderList
    BY <1>1, AppendHeaderElements
<1>3. \A key : key \in mkeys <=> HasKey(l, key) \/ h.key = key
    BY <1>1, HasKeyAppend, KeysAre
<1>4. \A key : key \in keys <=> HasKey(l, key)
    BY KeysAre
<1>5. mkeys = keys \cup {h.key}
    <2> HIDE DEF mkeys, keys
    <2> QED BY <1>3, <1>4
<1>6. ASSUME NEW key \in mkeys PROVE FirstOf(m, key) = IF key \in keys THEN FirstOf(l, key) ELSE h.value
    BY <1>1, <1>4, <1>6, FirstOfAppend, KeysAre
<1>7. \A key \in keys : headers.values[key] = FirstOf(l, key)
    BY <1>1 DEF Agree
<1>8. new.list = m
    BY DEF AppendHeader
<1>9. DOMAIN new.values = mkeys
    <2> HIDE DEF mkeys, keys
    <2> QED BY <1>1, <1>5 DEF AppendHeader, HasValue
<1>10. ASSUME NEW key \in mkeys PROVE new.values[key] = FirstOf(m, key)
    <2> HIDE DEF mkeys, keys, m
    <2>1. CASE HasValue(headers, h.key)
        <3>1. new.values = headers.values /\ key \in keys
            BY <1>1, <1>5, <2>1 DEF AppendHeader, HasValue
        <3> QED BY <1>6, <1>7, <3>1
    <2>2. CASE ~HasValue(headers, h.key)
        <3>1. new.values = [k \in keys \cup {h.key} |-> IF k = h.key THEN h.value ELSE headers.values[k]]
              /\ h.key \notin keys
            BY <1>1, <2>2 DEF AppendHeader, HasValue
        <3> QED BY <1>5, <1>6, <1>7, <3>1
    <2> QED BY <2>1, <2>2
<1> HIDE DEF new, m
<1> QED BY <1>2, <1>8, <1>9, <1>10 DEF Agree, new
\* The headers of a list with h in place of those with its key.
Replaced(l, h) == [k \in DOMAIN l |-> IF l[k].key = h.key THEN h ELSE l[k]]

LEMMA ReplacedElements ==
    ASSUME NEW l \in HeaderList, NEW h \in HeaderRecord
    PROVE  /\ Replaced(l, h) \in HeaderList /\ Len(Replaced(l, h)) = Len(l)
           /\ \A k \in 1 .. Len(l) : /\ Replaced(l, h)[k] = IF l[k].key = h.key THEN h ELSE l[k]
                                     /\ Replaced(l, h)[k].key = l[k].key
<1>1. Len(l) \in Nat /\ DOMAIN l = 1 .. Len(l) /\ \A k \in 1 .. Len(l) : l[k] \in HeaderRecord
    BY ListElements
<1>2. Replaced(l, h) \in [1 .. Len(l) -> HeaderRecord]
    BY <1>1 DEF Replaced
<1>3. Replaced(l, h) \in HeaderList /\ Len(Replaced(l, h)) = Len(l)
    BY <1>1, <1>2 DEF HeaderList
<1> QED BY <1>1, <1>3 DEF Replaced

LEMMA ReplacedKeys ==
    ASSUME NEW l \in HeaderList, NEW h \in HeaderRecord, NEW key
    PROVE  /\ HasKey(Replaced(l, h), key) <=> HasKey(l, key)
           /\ HasKey(l, key) => FirstOf(Replaced(l, h), key) = IF key = h.key THEN h.value ELSE FirstOf(l, key)
<1> DEFINE m == Replaced(l, h)
<1>1. /\ m \in HeaderList /\ Len(m) = Len(l)
      /\ \A k \in 1 .. Len(l) : m[k] = (IF l[k].key = h.key THEN h ELSE l[k]) /\ m[k].key = l[k].key
    BY ReplacedElements
<1> HIDE DEF m
<1>2. Len(l) \in Nat /\ DOMAIN l = 1 .. Len(l) /\ DOMAIN m = 1 .. Len(l)
    BY <1>1, ListElements
<1>3. HasKey(m, key) <=> HasKey(l, key)
    BY <1>1, <1>2 DEF HasKey
<1>4. ASSUME HasKey(l, key) PROVE FirstOf(m, key) = IF key = h.key THEN h.value ELSE FirstOf(l, key)
    <2>1. PICK k \in 1 .. Len(l) : l[k].key = key /\ \A j \in 1 .. k - 1 : l[j].key # key
        BY <1>4, FirstWithExists
    <2>2. FirstOf(l, key) = l[k].value
        BY <2>1, FirstOfIs
    <2>3. m[k].key = key /\ \A j \in 1 .. k - 1 : m[j].key # key
        BY <1>1, <1>2, <2>1
    <2>4. FirstOf(m, key) = m[k].value
        BY <1>1, <2>3, FirstOfIs
    <2> QED BY <1>1, <2>1, <2>2, <2>4
<1> QED BY <1>3, <1>4 DEF m

LEMMA UpdateAgrees ==
    ASSUME NEW headers, Agree(headers), NEW h \in HeaderRecord
    PROVE  Agree(Update(headers, h))
<1> DEFINE l == headers.list
           m == Replaced(l, h)
           new == Update(headers, h)
<1>1. CASE ~HasValue(headers, h.key)
    BY <1>1, AppendAgrees DEF Update
<1>2. CASE HasValue(headers, h.key)
    <2>1. l \in HeaderList /\ DOMAIN headers.values = Keys(l)
          /\ \A key \in DOMAIN headers.values : headers.values[key] = FirstOf(l, key)
        BY DEF Agree
    <2>2. new = [list |-> m, values |-> [headers.values EXCEPT ![h.key] = h.value]]
        BY <1>2 DEF Update, Replaced
    <2>3. new.list = m /\ new.values = [headers.values EXCEPT ![h.key] = h.value]
        BY <2>2
    <2>4. m \in HeaderList
        BY <2>1, ReplacedElements
    <2> HIDE DEF l, m, new
    <2>5. \A key : key \in DOMAIN headers.values <=> HasKey(l, key)
        BY <2>1, KeysAre
    <2>6. \A key : HasKey(m, key) <=> HasKey(l, key)
        BY <2>1, ReplacedKeys DEF m
    <2>7. Keys(m) = DOMAIN headers.values
        BY <2>5, <2>6, KeysAre
    <2>8. DOMAIN new.values = DOMAIN headers.values
        BY <2>3
    <2>9. ASSUME NEW key \in DOMAIN headers.values PROVE new.values[key] = FirstOf(m, key)
        <3>1. FirstOf(m, key) = IF key = h.key THEN h.value ELSE FirstOf(l, key)
            BY <2>1, <2>5, ReplacedKeys DEF m
        <3>2. headers.values[key] = FirstOf(l, key)
            BY <2>1
        <3>3. CASE key = h.key
            BY <2>3, <3>1, <3>3
        <3>4. CASE key # h.key
            BY <2>3, <3>1, <3>2, <3>4
        <3> QED BY <3>3, <3>4
    <2>10. Agree(new)
        BY <2>3, <2>4, <2>7, <2>8, <2>9 DEF Agree
    <2> QED BY <2>10 DEF new
<1> QED BY <1>1, <1>2

LEMMA RemoveAgrees ==
    ASSUME NEW headers, Agree(headers), NEW key
    PROVE  Agree(RemoveKey(headers, key))
<1> DEFINE l == headers.list
           m == Without(l, {key})
           new == RemoveKey(headers, key)
<1>1. l \in HeaderList /\ DOMAIN headers.values = Keys(l)
      /\ \A k \in DOMAIN headers.values : headers.values[k] = FirstOf(l, k)
    BY DEF Agree
<1>2. m \in HeaderList
    BY <1>1, WithoutType
<1>3. new.list = m /\ new.values = [k \in DOMAIN headers.values \ {key} |-> headers.values[k]]
    BY DEF RemoveKey
<1>4. \A k : k \in DOMAIN headers.values <=> HasKey(l, k)
    BY <1>1, KeysAre
<1>5. \A k : HasKey(m, k) <=> k # key /\ HasKey(l, k)
    <2> TAKE k
    <2>1. CASE k = key
        <3>1. key \in {key}
            OBVIOUS
        <3> QED BY <1>1, <2>1, <3>1, WithoutRemoves
    <2>2. CASE k # key
        BY <1>1, <2>2, WithoutKeeps
    <2> QED BY <2>1, <2>2
<1>6. \A k : HasKey(m, k) => FirstOf(m, k) = FirstOf(l, k)
    BY <1>1, <1>5, WithoutKeeps
<1> HIDE DEF l, m, new
<1>7. Keys(m) = DOMAIN headers.values \ {key}
    BY <1>4, <1>5, KeysAre
<1>8. DOMAIN new.values = DOMAIN headers.values \ {key}
    BY <1>3
<1>9. ASSUME NEW k \in DOMAIN new.values PROVE new.values[k] = FirstOf(m, k)
    BY <1>1, <1>3, <1>4, <1>5, <1>6, <1>8
<1>10. Agree(new)
    BY <1>2, <1>3, <1>7, <1>8, <1>9 DEF Agree
<1> QED BY <1>10 DEF new
---------------------------------------------------------------------------
(* The ends of texts, and the header that a line is parsed to.             *)

LEMMA TextElements ==
    ASSUME NEW t \in Text
    PROVE  Len(t) \in Nat /\ DOMAIN t = 1 .. Len(t) /\ \A k \in 1 .. Len(t) : t[k] \in Symbols
    BY LenProperties, ElementOfSeq DEF Text

LEMMA BeginningOfText ==
    ASSUME NEW t \in Text, NEW n \in 0 .. Len(t)
    PROVE  /\ SubSeq(t, 1, n) \in Text /\ Len(SubSeq(t, 1, n)) = n
           /\ \A k \in 1 .. n : SubSeq(t, 1, n)[k] = t[k]
<1>1. Len(t) \in Nat /\ \A k \in 1 .. n : t[k] \in Symbols
    BY TextElements
<1>2. 1 \in Int /\ n \in Int
    BY <1>1
<1>3. /\ SubSeq(t, 1, n) \in Seq(Symbols)
      /\ Len(SubSeq(t, 1, n)) = IF 1 <= n THEN n - 1 + 1 ELSE 0
      /\ \A k \in 1 .. n - 1 + 1 : SubSeq(t, 1, n)[k] = t[1 + k - 1]
    BY <1>1, <1>2, SubSeqProperties
<1>4. n - 1 + 1 = n /\ \A k \in 1 .. n : 1 + k - 1 = k
    BY <1>1
<1>5. Len(SubSeq(t, 1, n)) = n
    BY <1>1, <1>3, <1>4
<1> QED BY <1>3, <1>4, <1>5 DEF Text

LEMMA EndOfText ==
    ASSUME NEW t \in Text, NEW m \in 1 .. Len(t) + 1
    PROVE  /\ SubSeq(t, m, Len(t)) \in Text /\ Len(SubSeq(t, m, Len(t))) = Len(t) - m + 1
           /\ \A k \in 1 .. Len(t) - m + 1 : SubSeq(t, m, Len(t))[k] = t[m + k - 1]
<1> DEFINE r == Len(t)
<1>1. r \in Nat /\ m \in Int /\ r \in Int /\ \A k \in m .. r : t[k] \in Symbols
    BY TextElements
<1>2. m \in 1 .. r + 1
    OBVIOUS
<1> HIDE DEF r
<1>3. /\ SubSeq(t, m, r) \in Seq(Symbols)
      /\ Len(SubSeq(t, m, r)) = IF m <= r THEN r - m + 1 ELSE 0
      /\ \A k \in 1 .. r - m + 1 : SubSeq(t, m, r)[k] = t[m + k - 1]
    BY <1>1, SubSeqProperties
<1>4. Len(SubSeq(t, m, r)) = r - m + 1
    BY <1>1, <1>2, <1>3
<1> QED BY <1>3, <1>4 DEF Text, r

LEMMA KnownSymbols == \A x \in Known : x \in Symbols
    BY SymbolsAssumption

\* A text that ends with a delimiter of two characters, or of one.
LEMMA EndsWithTwo ==
    ASSUME NEW t \in Text, NEW a \in Symbols, NEW b \in Symbols
    PROVE  EndsWith(t, <<a, b>>) <=> Len(t) >= 2 /\ t[Len(t) - 1] = a /\ t[Len(t)] = b
<1> DEFINE d == <<a, b>>
           n == Len(t)
<1>1. Len(d) = 2 /\ d \in Text /\ d[1] = a /\ d[2] = b /\ n \in Nat
    BY TextElements DEF Text
<1>2. CASE n >= 2
    <2> DEFINE u == SubSeq(t, n - 1, n)
    <2> DEFINE m == n - 1
    <2>1. m \in 1 .. n + 1 /\ n - m + 1 = 2 /\ m + 1 - 1 = n - 1 /\ m + 2 - 1 = n
        BY <1>1, <1>2
    <2>2. u \in Text /\ Len(u) = 2 /\ u[1] = t[m + 1 - 1] /\ u[2] = t[m + 2 - 1]
        <3>1. u = SubSeq(t, m, n)
            OBVIOUS
        <3>2. 1 \in 1 .. n - m + 1 /\ 2 \in 1 .. n - m + 1
            BY <1>1, <2>1
        <3> HIDE DEF m, u
        <3> QED BY <2>1, <3>1, <3>2, EndOfText
    <2>3. u[1] = t[n - 1] /\ u[2] = t[n]
        <3> HIDE DEF m, u
        <3> QED BY <2>1, <2>2
    <2>4. u = d <=> u[1] = a /\ u[2] = b
        <3> HIDE DEF u
        <3> QED BY <1>1, <2>2 DEF Text
    <2>5. EndsWith(t, d) <=> u = d
        BY <1>1, <1>2 DEF EndsWith
    <2> QED BY <1>2, <2>2, <2>3, <2>4, <2>5
<1>3. CASE ~(n >= 2)
    BY <1>1, <1>3 DEF EndsWith
<1> QED BY <1>2, <1>3

LEMMA EndsWithOne ==
    ASSUME NEW t \in Text, NEW a \in Symbols
    PROVE  EndsWith(t, <<a>>) <=> Len(t) >= 1 /\ t[Len(t)] = a
<1> DEFINE d == <<a>>
           n == Len(t)
<1>1. Len(d) = 1 /\ d \in Text /\ d[1] = a /\ n \in Nat
    BY TextElements DEF Text
<1>2. CASE n >= 1
    <2> DEFINE u == SubSeq(t, n, n)
    <2>1. n \in 1 .. n + 1 /\ n - n + 1 = 1 /\ n + 1 - 1 = n /\ 1 \in 1 .. n - n + 1
        BY <1>1, <1>2
    <2>2. u \in Text /\ Len(u) = 1 /\ u[1] = t[n]
        <3>1. u \in Text /\ Len(u) = n - n + 1 /\ u[1] = t[n + 1 - 1]
            BY <2>1, EndOfText
        <3> HIDE DEF u
        <3> QED BY <2>1, <3>1
    <2>3. u = d <=> u[1] = a
        <3> HIDE DEF u
        <3> QED BY <1>1, <2>2 DEF Text
    <2>4. EndsWith(t, d) <=> u = d
        BY <1>1, <1>2 DEF EndsWith
    <2> QED BY <1>2, <2>1, <2>2, <2>3, <2>4
<1>3. CASE ~(n >= 1)
    BY <1>1, <1>3 DEF EndsWith
<1> QED BY <1>2, <1>3

LEMMA BeforeType ==
    ASSUME NEW t \in Text, NEW d \in Text, EndsWith(t, d) PROVE Before(t, d) \in Text
<1>1. Len(t) - Len(d) \in 0 .. Len(t)
    BY TextElements DEF EndsWith
<1> QED BY <1>1, BeginningOfText DEF Before

LEMMA ColonSpaceAt ==
    ASSUME NEW t \in Text, NEW n \in 1 .. Len(t)
    PROVE  EndsWith(SubSeq(t, 1, n), ColonSpace) <=> n >= 2 /\ t[n - 1] = ":" /\ t[n] = " "
<1> DEFINE s == SubSeq(t, 1, n)
<1>1. n \in 0 .. Len(t) /\ n \in Nat
    BY TextElements
<1>2. s \in Text /\ Len(s) = n /\ \A k \in 1 .. n : s[k] = t[k]
    BY <1>1, BeginningOfText
<1> HIDE DEF s
<1>3. EndsWith(s, <<":", " ">>) <=> Len(s) >= 2 /\ s[Len(s) - 1] = ":" /\ s[Len(s)] = " "
    <2>1. ":" \in Symbols /\ " " \in Symbols
        BY KnownSymbols DEF Known
    <2> QED BY <1>2, <2>1, EndsWithTwo
<1>4. n >= 2 => n - 1 \in 1 .. n /\ n \in 1 .. n
    BY <1>1
<1>5. EndsWith(s, ColonSpace) <=> n >= 2 /\ t[n - 1] = ":" /\ t[n] = " "
    BY <1>1, <1>2, <1>3, <1>4 DEF ColonSpace
<1> QED BY <1>5 DEF s

Ends(t) == {n \in DOMAIN t : EndsWith(SubSeq(t, 1, n), ColonSpace)}

\* A line cut in two after n.
Divided(t, n) == Header(Before(SubSeq(t, 1, n), ColonSpace), SubSeq(t, n + 1, Len(t)))

\* What ParseHeader finds: the first colon with a space after it, if there is one.
LEMMA ParseHeaderAt ==
    ASSUME NEW t \in Text, NEW n \in Ends(t), \A k \in Ends(t) : n <= k
    PROVE  /\ n \in 2 .. Len(t)
           /\ ParseHeader(t) = Header(SubSeq(t, 1, n - 2), SubSeq(t, n + 1, Len(t)))
<1>1. Len(t) \in Nat /\ DOMAIN t = 1 .. Len(t)
    BY TextElements
<1>2. n \in 1 .. Len(t) /\ n >= 2
    BY <1>1, ColonSpaceAt DEF Ends
<1>3. (CHOOSE m \in Ends(t) : \A k \in Ends(t) : m <= k) = n
    <2>1. ASSUME NEW m \in Ends(t), \A k \in Ends(t) : m <= k PROVE m = n
        <3>1. m <= n /\ n <= m /\ m \in Nat /\ n \in Nat
            BY <1>1, <2>1 DEF Ends
        <3> QED BY <3>1
    <2> QED BY <2>1
<1>4. Before(SubSeq(t, 1, n), ColonSpace) = SubSeq(t, 1, n - 2)
    <2> DEFINE s == SubSeq(t, 1, n)
    <2>1. s \in Text /\ Len(s) = n /\ \A k \in 1 .. n : s[k] = t[k]
        BY <1>1, <1>2, BeginningOfText
    <2>2. Len(ColonSpace) = 2
        BY DEF ColonSpace
    <2>3. SubSeq(s, 1, n - 2) = SubSeq(t, 1, n - 2)
        <3>1. n - 2 \in 0 .. n /\ n - 2 \in 0 .. Len(t) /\ \A k \in 1 .. n - 2 : k \in 1 .. n
            BY <1>1, <1>2
        <3>2. SubSeq(s, 1, n - 2) \in Text /\ Len(SubSeq(s, 1, n - 2)) = n - 2
              /\ \A k \in 1 .. n - 2 : SubSeq(s, 1, n - 2)[k] = s[k]
            <4> HIDE DEF s
            <4> QED BY <2>1, <3>1, BeginningOfText
        <3>3. SubSeq(t, 1, n - 2) \in Text /\ Len(SubSeq(t, 1, n - 2)) = n - 2
              /\ \A k \in 1 .. n - 2 : SubSeq(t, 1, n - 2)[k] = t[k]
            BY <3>1, BeginningOfText
        <3> HIDE DEF s
        <3> QED BY <2>1, <3>1, <3>2, <3>3, SeqEqual DEF Text
    <2> QED BY <2>1, <2>2, <2>3 DEF Before
<1>5. Ends(t) # {}
    OBVIOUS
<1>6. ParseHeader(t) = Header(Before(SubSeq(t, 1, n), ColonSpace), SubSeq(t, n + 1, Len(t)))
    <2> DEFINE c == CHOOSE m \in Ends(t) : \A k \in Ends(t) : m <= k
    <2>1. ParseHeader(t) = IF Ends(t) = {} THEN Header(t, <<>>) ELSE Divided(t, c)
        BY DEF ParseHeader, Ends, Divided
    <2>2. c = n
        BY <1>3
    <2> HIDE DEF c
    <2>3. ParseHeader(t) = Divided(t, n)
        BY <1>5, <2>1, <2>2
    <2> QED BY <2>3 DEF Divided
<1>7. n \in 2 .. Len(t)
    BY <1>1, <1>2
<1>8. ParseHeader(t) = Header(SubSeq(t, 1, n - 2), SubSeq(t, n + 1, Len(t)))
    BY <1>4, <1>6, Zenon
<1> QED BY <1>7, <1>8

LEMMA ParseHeaderWithout ==
    ASSUME NEW t \in Text, Ends(t) = {} PROVE ParseHeader(t) = Header(t, <<>>)
    BY DEF ParseHeader, Ends

LEMMA FirstEnd ==
    ASSUME NEW t \in Text, Ends(t) # {} PROVE \E n \in Ends(t) : \A k \in Ends(t) : n <= k
<1>1. Ends(t) \in SUBSET Nat
    BY TextElements DEF Ends
<1> QED BY <1>1, Smallest

LEMMA ParseHeaderType ==
    ASSUME NEW t \in Text
    PROVE  /\ ParseHeader(t) \in HeaderRecord
           /\ ParseHeader(t).key \in Text /\ ParseHeader(t).value \in Text
<1>1. CASE Ends(t) = {}
    <2>1. t \in Text /\ <<>> \in Text /\ <<>> \in Values
        BY EmptySeq DEF Text, Values
    <2> QED BY <1>1, <2>1, ParseHeaderWithout, HeaderIsRecord
<1>2. CASE Ends(t) # {}
    <2>1. PICK n \in Ends(t) : \A k \in Ends(t) : n <= k
        BY <1>2, FirstEnd
    <2>2. n \in 2 .. Len(t) /\ ParseHeader(t) = Header(SubSeq(t, 1, n - 2), SubSeq(t, n + 1, Len(t)))
        BY <2>1, ParseHeaderAt
    <2>3. Len(t) \in Nat
        BY TextElements
    <2>4. n - 2 \in 0 .. Len(t) /\ n + 1 \in 1 .. Len(t) + 1
        BY <2>2, <2>3
    <2>5. SubSeq(t, 1, n - 2) \in Text /\ SubSeq(t, n + 1, Len(t)) \in Text
        BY <2>4, BeginningOfText, EndOfText
    <2>6. SubSeq(t, n + 1, Len(t)) \in Values
        BY <2>5 DEF Values
    <2> QED BY <2>2, <2>5, <2>6, HeaderIsRecord
<1> QED BY <1>1, <1>2
---------------------------------------------------------------------------
(* The texts that messages consist of.                                     *)

LEMMA OneType ==
    ASSUME NEW a \in Symbols
    PROVE  <<a>> \in Text /\ Len(<<a>>) = 1 /\ <<a>>[1] = a
    BY DEF Text

LEMMA TwoType ==
    ASSUME NEW a \in Symbols, NEW b \in Symbols
    PROVE  <<a, b>> \in Text /\ Len(<<a, b>>) = 2 /\ <<a, b>>[1] = a /\ <<a, b>>[2] = b
    BY DEF Text

LEMMA ThreeType ==
    ASSUME NEW a \in Symbols, NEW b \in Symbols, NEW c \in Symbols
    PROVE  <<a, b, c>> \in Text /\ Len(<<a, b, c>>) = 3
           /\ <<a, b, c>>[1] = a /\ <<a, b, c>>[2] = b /\ <<a, b, c>>[3] = c
    BY DEF Text

LEMMA DelimiterTypes ==
    /\ CRLF \in Text /\ Len(CRLF) = 2 /\ CRLF[1] = "CR" /\ CRLF[2] = "LF"
    /\ ColonSpace \in Text /\ Len(ColonSpace) = 2 /\ ColonSpace[1] = ":" /\ ColonSpace[2] = " "
    /\ <<" ">> \in Text /\ <<":">> \in Text /\ <<>> \in Text
<1>1. "CR" \in Symbols /\ "LF" \in Symbols /\ ":" \in Symbols /\ " " \in Symbols
    BY KnownSymbols DEF Known
<1>2. CRLF \in Text /\ Len(CRLF) = 2 /\ CRLF[1] = "CR" /\ CRLF[2] = "LF"
    BY <1>1, TwoType DEF CRLF
<1>3. ColonSpace \in Text /\ Len(ColonSpace) = 2 /\ ColonSpace[1] = ":" /\ ColonSpace[2] = " "
    BY <1>1, TwoType DEF ColonSpace
<1>4. <<" ">> \in Text /\ <<":">> \in Text
    BY <1>1, OneType
<1>5. <<>> \in Text
    BY EmptySeq DEF Text
<1> QED BY <1>2, <1>3, <1>4, <1>5

LEMMA KeyTypes ==
    /\ ContentLength \in Text /\ TransferEncoding \in Text
    /\ AcceptEncoding \in Text /\ ContentEncoding \in Text
    /\ <<"gzip">> \in Text /\ <<"chunked">> \in Text /\ <<"zip">> \in Text
    /\ <<",", " ", "gzip">> \in Text
<1>1. /\ "Content-Length" \in Symbols /\ "Transfer-Encoding" \in Symbols
      /\ "Accept-Encoding" \in Symbols /\ "Content-Encoding" \in Symbols
      /\ "gzip" \in Symbols /\ "chunked" \in Symbols /\ "zip" \in Symbols
      /\ "," \in Symbols /\ " " \in Symbols
    BY KnownSymbols DEF Known
<1>2. <<",", " ", "gzip">> \in Text
    BY <1>1, ThreeType
<1> QED BY <1>1, <1>2, OneType DEF ContentLength, TransferEncoding, AcceptEncoding, ContentEncoding

LEMMA KeysDiffer ==
    /\ ContentLength # TransferEncoding /\ ContentLength # AcceptEncoding
    /\ ContentLength # ContentEncoding /\ TransferEncoding # AcceptEncoding
    /\ TransferEncoding # ContentEncoding /\ AcceptEncoding # ContentEncoding
    BY DEF ContentLength, TransferEncoding, AcceptEncoding, ContentEncoding

\* A number up to 9 has a numeral of its own.
LEMMA NumeralType ==
    ASSUME NEW n \in 0 .. 9
    PROVE  /\ ToText(n) \in Text /\ Len(ToText(n)) = 1 /\ ToText(n)[1] = Numerals[n + 1]
           /\ n + 1 \in DOMAIN Numerals /\ Numerals[n + 1] \notin {"CR", "LF"}
<1>1. DOMAIN Numerals = 1 .. 10
    BY DEF Numerals
<1>2. n + 1 \in 1 .. 10
    OBVIOUS
<1>3. Numerals[n + 1] \in Known
    BY <1>1, <1>2 DEF Known
<1>4. \A k \in 1 .. 10 : Numerals[k] \notin {"CR", "LF"}
    BY DEF Numerals
<1>5. Numerals[n + 1] \in Symbols
    BY <1>3, KnownSymbols
<1> QED BY <1>1, <1>2, <1>4, <1>5 DEF ToText, Text

LEMMA ZeroType == ToText(0) \in Text
<1>1. 0 \in 0 .. 9
    OBVIOUS
<1> QED BY <1>1, NumeralType

LEMMA ConcatText ==
    ASSUME NEW s \in Text, NEW t \in Text
    PROVE  /\ s \o t \in Text /\ Len(s \o t) = Len(s) + Len(t)
           /\ \A i \in 1 .. Len(s) + Len(t) : (s \o t)[i] = IF i <= Len(s) THEN s[i] ELSE t[i - Len(s)]
    BY ConcatProperties DEF Text

LEMMA ConcatType ==
    ASSUME NEW s \in Text, NEW t \in Text PROVE s \o t \in Text
    BY ConcatText

LEMMA LineType ==
    ASSUME NEW t, IsLine(t)
    PROVE  t \in Text /\ \A k \in 1 .. Len(t) : t[k] # "CR" /\ t[k] # "LF"
<1>1. t \in Seq(Symbols \ {"CR", "LF"}) /\ Symbols \ {"CR", "LF"} \subseteq Symbols
    BY DEF IsLine
<1>2. t \in Text
    BY <1>1, SeqMonotonic DEF Text
<1> QED BY <1>1, <1>2, ElementOfSeq

LEMMA BodyType ==
    ASSUME NEW b, IsBody(b)
    PROVE  b \in Text /\ Len(b) \in 0 .. 9 /\ ToText(Len(b)) \in Text
<1>1. b \in Text /\ Len(b) <= 9
    BY DEF IsBody, Text
<1>2. Len(b) \in Nat
    BY <1>1, TextElements
<1>3. Len(b) \in 0 .. 9
    <2> DEFINE n == Len(b)
    <2>1. n \in Nat /\ n <= 9
        BY <1>1, <1>2
    <2> HIDE DEF n
    <2>2. n \in 0 .. 9
        BY <2>1
    <2> QED BY <2>2 DEF n
<1> QED BY <1>1, <1>3, NumeralType

LEMMA TextsType ==
    ASSUME NEW s \in Seq(Text)
    PROVE  /\ Len(s) \in Nat /\ DOMAIN s = 1 .. Len(s) /\ \A k \in 1 .. Len(s) : s[k] \in Text
           /\ FlattenSeq(s) \in Text
    BY LenProperties, ElementOfSeq, FlattenType DEF Text

\* Texts with CR LF after each.
Ended(texts) == [k \in DOMAIN texts |-> texts[k] \o CRLF]

LEMMA EndedType ==
    ASSUME NEW s \in Seq(Text)
    PROVE  /\ Ended(s) \in Seq(Text) /\ Len(Ended(s)) = Len(s)
           /\ \A k \in 1 .. Len(s) : Ended(s)[k] = s[k] \o CRLF
           /\ Lines(s) = FlattenSeq(Ended(s)) /\ Lines(s) \in Text
<1>1. Len(s) \in Nat /\ DOMAIN s = 1 .. Len(s) /\ \A k \in 1 .. Len(s) : s[k] \in Text
    BY TextsType
<1>2. \A k \in 1 .. Len(s) : s[k] \o CRLF \in Text
    BY <1>1, ConcatText, DelimiterTypes
<1>3. Ended(s) \in [1 .. Len(s) -> Text]
    BY <1>1, <1>2 DEF Ended
<1>4. Ended(s) \in Seq(Text) /\ Len(Ended(s)) = Len(s)
    BY <1>1, <1>3
<1>5. \A k \in 1 .. Len(s) : Ended(s)[k] = s[k] \o CRLF
    BY <1>1 DEF Ended
<1>6. Lines(s) = FlattenSeq(Ended(s))
    BY DEF Lines, Ended
<1> QED BY <1>4, <1>5, <1>6, TextsType
---------------------------------------------------------------------------
(* The messages that are sent.                                             *)

\* What a message is, whatever it is.
LEMMA MessageParts ==
    ASSUME NEW m \in Messages
    PROVE  /\ m.kind \in {"request", "response"} /\ m.framing \in {"length", "none", "chunked"}
           /\ IsLine(m.first) /\ m.first \in Text
           /\ m.others \in Others /\ m.gap \in Gaps
           /\ m.framing = "length" => \E b \in Bodies : m.chunks = <<b>>
           /\ m.framing = "none" => m.chunks = << <<>> >>
           /\ m.framing = "chunked" => m.kind = "response" /\ m.chunks \in Chunkings
<1>1. \/ m \in Sent({"request", "response"}, {"length"}, {<<b>> : b \in Bodies})
      \/ m \in Sent({"request", "response"}, {"none"}, {<< <<>> >>})
      \/ m \in Sent({"response"}, {"chunked"}, Chunkings)
    BY DEF Messages
<1>2. ASSUME NEW kinds, NEW framings, NEW cs, m \in Sent(kinds, framings, cs)
      PROVE  /\ m.kind \in kinds /\ m.framing \in framings /\ m.chunks \in cs
             /\ m.first \in FirstLines[m.kind] /\ m.others \in Others /\ m.gap \in Gaps
    BY <1>2 DEF Sent
<1>3. /\ m.kind \in {"request", "response"} /\ m.framing \in {"length", "none", "chunked"}
      /\ m.first \in FirstLines[m.kind] /\ m.others \in Others /\ m.gap \in Gaps
    BY <1>1, <1>2
<1>4. /\ m.framing = "length" => \E b \in Bodies : m.chunks = <<b>>
      /\ m.framing = "none" => m.chunks = << <<>> >>
      /\ m.framing = "chunked" => m.kind = "response" /\ m.chunks \in Chunkings
    BY <1>1, <1>2
<1>5. IsLine(m.first)
    BY <1>3, LinesAssumption
<1> QED BY <1>3, <1>4, <1>5, LineType

LEMMA OthersType ==
    ASSUME NEW others \in Others
    PROVE  /\ others \in Seq(Text) /\ Len(others) \in Nat /\ DOMAIN others = 1 .. Len(others)
           /\ \A k \in 1 .. Len(others) :
                  /\ IsLine(others[k]) /\ others[k] # <<>> /\ others[k] \in Text
                  /\ ParseHeader(others[k]).key # ContentLength
                  /\ ParseHeader(others[k]).key # TransferEncoding
<1>1. others \in Seq(Text)
    BY OthersAssumption DEF Text
<1>2. /\ Len(others) \in Nat /\ DOMAIN others = 1 .. Len(others)
      /\ \A k \in 1 .. Len(others) : others[k] \in Text
    BY <1>1, TextsType
<1>3. ASSUME NEW k \in 1 .. Len(others)
      PROVE  /\ IsLine(others[k]) /\ others[k] # <<>>
             /\ ParseHeader(others[k]).key # ContentLength
             /\ ParseHeader(others[k]).key # TransferEncoding
    BY <1>2, OthersAssumption
<1> QED BY <1>1, <1>2, <1>3

LEMMA GapType ==
    ASSUME NEW gap \in Gaps
    PROVE  gap \in Text /\ \A k \in 1 .. Len(gap) : gap[k] = " "
<1>1. gap \in Seq({" "}) /\ {" "} \subseteq Symbols
    BY GapsAssumption, KnownSymbols DEF Known
<1>2. gap \in Text
    BY <1>1, SeqMonotonic DEF Text
<1>3. \A k \in 1 .. Len(gap) : gap[k] \in {" "}
    BY <1>1, ElementOfSeq
<1> QED BY <1>2, <1>3

\* The parts of a body.
LEMMA ChunksType ==
    ASSUME NEW m \in Messages
    PROVE  /\ m.chunks \in Seq(Text) /\ Len(m.chunks) \in Nat /\ DOMAIN m.chunks = 1 .. Len(m.chunks)
           /\ \A k \in 1 .. Len(m.chunks) : IsBody(m.chunks[k]) /\ (m.framing = "chunked" => m.chunks[k] # <<>>)
           /\ Body(m) \in Text
           /\ m.framing # "chunked" => m.chunks = <<Body(m)>> /\ IsBody(Body(m))
           /\ m.framing = "none" => Body(m) = <<>>
<1>1. CASE m.framing = "chunked"
    <2>1. m.chunks \in Chunkings
        BY <1>1, MessageParts
    <2>2. m.chunks \in Seq(Text) /\ \A k \in DOMAIN m.chunks : IsBody(m.chunks[k]) /\ m.chunks[k] # <<>>
        BY <2>1, BodiesAssumption DEF Text
    <2>3. Body(m) \in Text /\ Len(m.chunks) \in Nat /\ DOMAIN m.chunks = 1 .. Len(m.chunks)
        BY <2>2, TextsType DEF Body
    <2> QED BY <1>1, <2>2, <2>3
<1>2. CASE m.framing # "chunked"
    <2>1. PICK b : m.chunks = <<b>> /\ IsBody(b) /\ (m.framing = "none" => b = <<>>)
        <3>1. CASE m.framing = "length"
            <4>1. PICK b \in Bodies : m.chunks = <<b>>
                BY <3>1, MessageParts
            <4> QED BY <3>1, <4>1, BodiesAssumption
        <3>2. CASE m.framing = "none"
            <4>1. IsBody(<<>>)
                BY EmptySeq DEF IsBody
            <4> QED BY <3>2, <4>1, MessageParts
        <3> QED BY <1>2, <3>1, <3>2, MessageParts
    <2>2. b \in Text
        BY <2>1, BodyType
    <2>3. <<b>> \in Seq(Text) /\ Len(<<b>>) = 1 /\ <<b>>[1] = b
        BY <2>2
    <2>4. FlattenSeq(<<b>>) = b
        BY <2>2, FlattenOne DEF Text
    <2>5. Body(m) = b
        BY <2>1, <2>4 DEF Body
    <2>6. \A k \in 1 .. 1 : m.chunks[k] = b
        BY <2>1
    <2> QED BY <1>2, <2>1, <2>2, <2>3, <2>5, <2>6
<1> QED BY <1>1, <1>2

\* The header that tells of the body.
FramingHeader(m) ==
    IF m.framing = "length" THEN ContentLength \o <<":">> \o m.gap \o ToText(Len(Body(m)))
    ELSE TransferEncoding \o <<":">> \o m.gap \o <<"chunked">>

LEMMA FramingHeaderType ==
    ASSUME NEW m \in Messages, m.framing # "none"
    PROVE  FramingHeader(m) \in Text
<1>1. m.gap \in Text
    BY MessageParts, GapType
<1>2. CASE m.framing = "length"
    <2>1. ToText(Len(Body(m))) \in Text
        BY <1>2, ChunksType, BodyType
    <2>2. ContentLength \o <<":">> \in Text
        BY KeyTypes, DelimiterTypes, ConcatText
    <2>3. ContentLength \o <<":">> \o m.gap \in Text
        BY <1>1, <2>2, ConcatText
    <2> QED BY <1>2, <2>1, <2>3, ConcatText DEF FramingHeader
<1>3. CASE m.framing = "chunked"
    <2>1. <<"chunked">> \in Text
        BY KeyTypes
    <2>2. TransferEncoding \o <<":">> \in Text
        BY KeyTypes, DelimiterTypes, ConcatText
    <2>3. TransferEncoding \o <<":">> \o m.gap \in Text
        BY <1>1, <2>2, ConcatText
    <2> QED BY <1>3, <2>1, <2>3, ConcatText DEF FramingHeader
<1> QED BY <1>2, <1>3, MessageParts

LEMMA HeaderLinesAre ==
    ASSUME NEW m \in Messages
    PROVE  /\ m.framing = "none" => HeaderLines(m) = m.others
           /\ m.framing # "none" => HeaderLines(m) = Append(m.others, FramingHeader(m))
           /\ HeaderLines(m) \in Seq(Text)
<1>1. m.others \in Seq(Text)
    BY MessageParts, OthersType
<1>2. CASE m.framing = "none"
    <2>1. HeaderLines(m) = m.others \o <<>>
        BY <1>2 DEF HeaderLines
    <2> QED BY <1>1, <1>2, <2>1, ConcatEmptySeq
<1>3. CASE m.framing # "none"
    <2>1. HeaderLines(m) = m.others \o <<FramingHeader(m)>>
        BY <1>3, MessageParts DEF HeaderLines, FramingHeader
    <2>2. FramingHeader(m) \in Text
        BY <1>3, FramingHeaderType
    <2> QED BY <1>1, <1>3, <2>1, <2>2, AppendIsConcat, AppendProperties
<1> QED BY <1>2, <1>3
---------------------------------------------------------------------------
(* TUntilParser: the text up to a delimiter.                               *)

\* The delimiter does not end in the text.
Clean(t, d) == \A n \in 0 .. Len(t) + Len(d) - 1 : ~EndsWith(SubSeq(t \o d, 1, n), d)

\* The shorter of two beginnings of a text is the beginning of the other.
LEMMA SameBeginning ==
    ASSUME NEW x \in Text, NEW r \in Text, NEW u \in Text, NEW rest \in Text,
           x \o r = u \o rest, Len(x) <= Len(u)
    PROVE  x = SubSeq(u, 1, Len(x))
<1> DEFINE n == Len(x)
           y == SubSeq(u, 1, n)
<1>1. n \in Nat /\ Len(u) \in Nat /\ Len(r) \in Nat /\ Len(rest) \in Nat /\ n <= Len(u)
    BY TextElements
<1>2. \A i \in 1 .. n + Len(r) : (x \o r)[i] = IF i <= n THEN x[i] ELSE r[i - n]
    BY ConcatText
<1>3. \A i \in 1 .. Len(u) + Len(rest) : (u \o rest)[i] = IF i <= Len(u) THEN u[i] ELSE rest[i - Len(u)]
    BY ConcatText
<1>4. n \in 0 .. Len(u)
    BY <1>1
<1>5. y \in Text /\ Len(y) = n /\ \A k \in 1 .. n : y[k] = u[k]
    BY <1>4, BeginningOfText
<1> HIDE DEF y, n
<1>6. ASSUME NEW i \in 1 .. n PROVE x[i] = y[i]
    <2>1. (x \o r)[i] = x[i]
        BY <1>1, <1>2
    <2>2. (u \o rest)[i] = u[i]
        BY <1>1, <1>3
    <2> QED BY <1>5, <2>1, <2>2
<1>7. x = y
    <2>1. Len(x) = n
        BY DEF n
    <2> QED BY <1>5, <1>6, <2>1, SeqEqual DEF Text
<1> QED BY <1>7 DEF y, n

LEMMA EndsWithItsEnd ==
    ASSUME NEW t \in Text, NEW d \in Text
    PROVE  EndsWith(t \o d, d) /\ Before(t \o d, d) = t
<1> DEFINE u == t \o d
           p == Len(t)
           q == Len(d)
<1>1. u \in Text /\ Len(u) = p + q /\ p \in Nat /\ q \in Nat
      /\ \A i \in 1 .. p + q : u[i] = IF i <= p THEN t[i] ELSE d[i - p]
    BY ConcatText, TextElements
<1> HIDE DEF u
<1> DEFINE v == SubSeq(u, p + 1, p + q)
<1>2. v \in Text /\ Len(v) = q /\ \A k \in 1 .. q : v[k] = d[k]
    <2> DEFINE m == p + 1
    <2>1. m \in 1 .. Len(u) + 1 /\ Len(u) - m + 1 = q /\ Len(u) = p + q
        BY <1>1
    <2>2. v \in Text /\ Len(v) = Len(u) - m + 1 /\ \A k \in 1 .. Len(u) - m + 1 : v[k] = u[m + k - 1]
        <3>1. u \in Text /\ m \in 1 .. Len(u) + 1 /\ v = SubSeq(u, m, Len(u))
            BY <1>1, <2>1
        <3> HIDE DEF v, m
        <3> QED BY <3>1, EndOfText
    <2> HIDE DEF v
    <2>3. ASSUME NEW k \in 1 .. q PROVE v[k] = d[k]
        <3> DEFINE i == m + k - 1
        <3>1. i \in 1 .. p + q /\ ~(i <= p) /\ i - p = k
            BY <1>1
        <3>2. v[k] = u[i]
            BY <2>1, <2>2
        <3> HIDE DEF i
        <3> QED BY <1>1, <3>1, <3>2
    <2> QED BY <2>1, <2>2, <2>3
<1>3. v = d
    <2> HIDE DEF v
    <2> QED BY <1>2, SeqEqual DEF Text
<1>4. EndsWith(u, d)
    <2>1. Len(u) - q + 1 = p + 1 /\ q <= Len(u)
        BY <1>1
    <2> QED BY <1>1, <1>3, <2>1 DEF EndsWith
<1>5. SubSeq(u, 1, p) = t
    <2> DEFINE y == SubSeq(u, 1, p)
    <2>1. p \in 0 .. Len(u)
        BY <1>1
    <2>2. y \in Text /\ Len(y) = p /\ \A k \in 1 .. p : y[k] = u[k]
        <3>1. u \in Text
            BY <1>1
        <3> QED BY <2>1, <3>1, BeginningOfText
    <2>3. \A k \in 1 .. p : u[k] = t[k]
        BY <1>1
    <2> HIDE DEF y
    <2> QED BY <2>2, <2>3, SeqEqual DEF Text, y
<1>6. Before(u, d) = t
    <2>1. Len(u) - q = p
        BY <1>1
    <2> QED BY <1>5, <2>1 DEF Before
<1> QED BY <1>4, <1>6 DEF u

\* l is what has been read of a text t that ends with a delimiter d, and w what is left.
Waits(l, w, t, d, rest) ==
    /\ l \in Text /\ w \in Text /\ t \in Text /\ d \in Text /\ rest \in Text
    /\ l \o w = t \o (d \o rest) /\ Len(l) < Len(t) + Len(d) /\ Clean(t, d)

\* One symbol more of it.
LEMMA UntilStep ==
    ASSUME NEW l, NEW w, NEW t, NEW d, NEW rest, Waits(l, w, t, d, rest)
    PROVE  LET x == Append(l, Head(w))
           IN  /\ w # <<>>
               /\ EndsWith(x, d) => x = t \o d /\ Before(x, d) = t /\ Tail(w) = rest
               /\ ~EndsWith(x, d) => x \o Tail(w) = t \o (d \o rest) /\ Len(x) < Len(t) + Len(d)
<1> DEFINE x == Append(l, Head(w))
           r == Tail(w)
           u == t \o d
<1>13. l \in Text /\ w \in Text /\ t \in Text /\ d \in Text /\ rest \in Text
    BY DEF Waits
<1>14. l \o w = t \o (d \o rest) /\ Len(l) < Len(t) + Len(d) /\ Clean(t, d)
    BY DEF Waits
<1>1. /\ u \in Text /\ Len(u) = Len(t) + Len(d) /\ u \o rest = t \o (d \o rest)
      /\ u \o rest \in Text /\ Len(u \o rest) = Len(u) + Len(rest)
      /\ l \o w \in Text /\ Len(l \o w) = Len(l) + Len(w)
    <2>1. u \in Text /\ Len(u) = Len(t) + Len(d) /\ l \o w \in Text /\ Len(l \o w) = Len(l) + Len(w)
        BY <1>13, ConcatText
    <2>2. u \o rest = t \o (d \o rest)
        BY <1>13, ConcatAssociative DEF Text
    <2> HIDE DEF u
    <2>3. u \o rest \in Text /\ Len(u \o rest) = Len(u) + Len(rest)
        BY <1>13, <2>1, ConcatText
    <2> QED BY <2>1, <2>2, <2>3
<1>2. Len(l) \in Nat /\ Len(w) \in Nat /\ Len(t) \in Nat /\ Len(d) \in Nat /\ Len(rest) \in Nat
    BY <1>13, TextElements
<1>3. Len(w) > 0
    BY <1>1, <1>2, <1>14
<1>4. w # <<>>
    BY <1>3, EmptySeq
<1>5. Head(w) \in Symbols /\ r \in Text
    BY <1>4, <1>13, HeadTailProperties DEF Text
<1>6. x \in Text /\ Len(x) = Len(l) + 1 /\ x = l \o <<Head(w)>> /\ <<Head(w)>> \in Text
    BY <1>5, <1>13, AppendProperties, AppendIsConcat DEF Text
<1>7. w = <<Head(w)>> \o r
    <2>1. Len(w) \in Nat /\ 1 \in 1 .. Len(w) /\ Len(w) \in 1 .. Len(w)
        BY <1>2, <1>3
    <2>2. SubSeq(w, 1, Len(w)) = <<w[1]>> \o SubSeq(w, 1 + 1, Len(w))
        BY <1>13, <2>1, SubSeqRecursiveFirst DEF Text
    <2>3. SubSeq(w, 1, Len(w)) = w /\ r = SubSeq(w, 2, Len(w)) /\ Head(w) = w[1]
        BY <1>4, <1>13, SubSeqFull, TailIsSubSeq DEF Text
    <2> QED BY <2>2, <2>3
<1> HIDE DEF x, r, u
<1>8. x \o r = u \o rest
    <2>1. x \o r = l \o (<<Head(w)>> \o r)
        BY <1>5, <1>6, <1>13, ConcatAssociative DEF Text
    <2>2. l \o w = u \o rest
        BY <1>1, <1>14
    <2>3. x \o r = l \o w
        BY <1>7, <2>1
    <2> QED BY <2>2, <2>3
<1>9. Len(x) <= Len(u) /\ Len(x) \in Nat /\ Len(u) \in Nat
    BY <1>1, <1>2, <1>6, <1>14
<1>10. x = SubSeq(u, 1, Len(x))
    <2>1. x \in Text /\ r \in Text /\ u \in Text /\ Len(x) <= Len(u)
        BY <1>1, <1>5, <1>6, <1>9
    <2> QED BY <1>8, <1>13, <2>1, SameBeginning
<1>11. CASE Len(x) < Len(u)
    <2> DEFINE n == Len(x)
    <2>1. n \in 0 .. Len(t) + Len(d) - 1
        BY <1>1, <1>2, <1>9, <1>11
    <2>2. ~EndsWith(SubSeq(u, 1, n), d)
        BY <1>14, <2>1 DEF Clean, u
    <2>3. ~EndsWith(x, d)
        BY <1>10, <2>2
    <2> QED BY <1>1, <1>4, <1>8, <1>11, <2>3 DEF x, r
<1>12. CASE ~(Len(x) < Len(u))
    <2>1. Len(x) = Len(u)
        BY <1>9, <1>12
    <2>2. x = u
        BY <1>1, <1>10, <2>1, SubSeqFull DEF Text
    <2>3. r = rest
        BY <1>1, <1>5, <1>8, <1>13, <2>2, ConcatSimplifications DEF Text
    <2>4. EndsWith(u, d) /\ Before(u, d) = t
        BY <1>13, EndsWithItsEnd DEF u
    <2> QED BY <1>4, <2>2, <2>3, <2>4 DEF x, r, u
<1> QED BY <1>11, <1>12 DEF x, r

LEMMA BeginningOfConcat ==
    ASSUME NEW t \in Text, NEW d \in Text, NEW n \in 0 .. Len(t) + Len(d)
    PROVE  /\ SubSeq(t \o d, 1, n) \in Text /\ Len(SubSeq(t \o d, 1, n)) = n
           /\ \A k \in 1 .. n : SubSeq(t \o d, 1, n)[k] = IF k <= Len(t) THEN t[k] ELSE d[k - Len(t)]
<1> DEFINE u == t \o d
<1>1. u \in Text /\ Len(u) = Len(t) + Len(d) /\ Len(t) \in Nat /\ Len(d) \in Nat
      /\ \A i \in 1 .. Len(t) + Len(d) : u[i] = IF i <= Len(t) THEN t[i] ELSE d[i - Len(t)]
    BY ConcatText, TextElements
<1> HIDE DEF u
<1>2. SubSeq(u, 1, n) \in Text /\ Len(SubSeq(u, 1, n)) = n /\ \A k \in 1 .. n : SubSeq(u, 1, n)[k] = u[k]
    BY <1>1, BeginningOfText
<1>3. \A k \in 1 .. n : k \in 1 .. Len(t) + Len(d)
    BY <1>1
<1>4. \A k \in 1 .. n : SubSeq(u, 1, n)[k] = IF k <= Len(t) THEN t[k] ELSE d[k - Len(t)]
    BY <1>1, <1>2, <1>3
<1> QED BY <1>2, <1>4 DEF u

IsWord(t) == t \in Text /\ \A k \in 1 .. Len(t) : t[k] # " "

\* A word ends with a space when it has none.
LEMMA CleanWord ==
    ASSUME NEW t \in Text, IsWord(t)
    PROVE  Clean(t, <<" ">>)
<1> DEFINE d == <<" ">>
<1>1. d \in Text /\ Len(d) = 1 /\ " " \in Symbols /\ Len(t) \in Nat
    BY DelimiterTypes, TextElements, KnownSymbols DEF Known
<1>2. ASSUME NEW x \in Text PROVE EndsWith(x, d) <=> Len(x) >= 1 /\ x[Len(x)] = " "
    BY <1>1, EndsWithOne
<1> HIDE DEF d
<1>3. ASSUME NEW n \in 0 .. Len(t) + Len(d) - 1 PROVE ~EndsWith(SubSeq(t \o d, 1, n), d)
    <2> DEFINE x == SubSeq(t \o d, 1, n)
    <2>1. n \in 0 .. Len(t) + Len(d) /\ n <= Len(t) /\ n \in Nat /\ Len(t) \in Nat
        <3> DEFINE p == Len(t)
                   q == Len(d)
        <3>1. p \in Nat /\ q = 1 /\ n \in 0 .. p + q - 1
            BY <1>1
        <3> HIDE DEF p, q
        <3>2. n \in 0 .. p + q /\ n <= p /\ n \in Nat /\ p \in Nat
            BY <3>1
        <3> QED BY <3>2 DEF p, q
    <2>2. x \in Text /\ Len(x) = n
          /\ \A k \in 1 .. n : x[k] = IF k <= Len(t) THEN t[k] ELSE d[k - Len(t)]
        BY <1>1, <2>1, BeginningOfConcat
    <2> HIDE DEF x
    <2>3. ASSUME n >= 1 PROVE x[n] = t[n] /\ n \in 1 .. Len(t)
        <3>1. n \in 1 .. n /\ n \in 1 .. Len(t)
            BY <2>1, <2>3
        <3>2. n <= Len(t)
            BY <2>1
        <3> QED BY <2>2, <3>1, <3>2
    <2>4. EndsWith(x, d) <=> n >= 1 /\ x[n] = " "
        BY <1>2, <2>2
    <2>5. ~EndsWith(x, d)
        BY <2>3, <2>4 DEF IsWord
    <2> QED BY <2>5 DEF x
<1>4. Clean(t, d)
    BY <1>3 DEF Clean
<1> QED BY <1>4 DEF d

\* A line ends with CR LF when it has neither.
LEMMA CleanLine ==
    ASSUME NEW t, IsLine(t) PROVE t \in Text /\ Clean(t, CRLF)
<1>1. t \in Text /\ Len(t) \in Nat /\ \A k \in 1 .. Len(t) : t[k] # "LF"
    BY LineType, TextElements
<1>2. CRLF \in Text /\ Len(CRLF) = 2 /\ CRLF[1] = "CR" /\ "CR" \in Symbols /\ "LF" \in Symbols
      /\ CRLF = <<"CR", "LF">>
    BY DelimiterTypes, KnownSymbols DEF Known, CRLF
<1>3. ASSUME NEW n \in 0 .. Len(t) + 2 - 1 PROVE ~EndsWith(SubSeq(t \o CRLF, 1, n), CRLF)
    <2> DEFINE x == SubSeq(t \o CRLF, 1, n)
    <2>1. n \in 0 .. Len(t) + Len(CRLF) /\ n <= Len(t) + 1 /\ n \in Nat
        BY <1>1, <1>2
    <2>2. x \in Text /\ Len(x) = n
          /\ \A k \in 1 .. n : x[k] = IF k <= Len(t) THEN t[k] ELSE CRLF[k - Len(t)]
        BY <1>1, <1>2, <2>1, BeginningOfConcat
    <2> HIDE DEF x
    <2>3. EndsWith(x, CRLF) => n >= 2 /\ x[n] = "LF"
        BY <1>2, <2>2, EndsWithTwo
    <2>4. n >= 2 => x[n] # "LF"
        <3>1. CASE n <= Len(t) /\ n >= 2
            <4>1. n \in 1 .. n /\ n \in 1 .. Len(t)
                BY <1>1, <2>1, <3>1
            <4> QED BY <1>1, <2>2, <3>1, <4>1
        <3>2. CASE n = Len(t) + 1 /\ n >= 2
            <4>1. n \in 1 .. n /\ ~(n <= Len(t)) /\ n - Len(t) = 1
                BY <1>1, <2>1, <3>2
            <4> QED BY <1>2, <2>2, <4>1
        <3> QED BY <1>1, <2>1, <3>1, <3>2
    <2>5. ~EndsWith(x, CRLF)
        BY <2>3, <2>4
    <2> QED BY <2>5 DEF x
<1> QED BY <1>1, <1>2, <1>3 DEF Clean
---------------------------------------------------------------------------
(* What is left of a message to read.                                      *)

LEMMA AssociatedText ==
    ASSUME NEW s \in Text, NEW t \in Text, NEW u \in Text
    PROVE  (s \o t) \o u = s \o (t \o u) /\ s \o (t \o u) \in Text
<1>1. t \o u \in Text
    BY ConcatText
<1>2. s \o (t \o u) \in Text
    BY <1>1, ConcatText
<1> QED BY <1>2, ConcatAssociative DEF Text

LEMMA PartType ==
    ASSUME NEW s \in Seq(Text), NEW n \in Nat, n >= 1
    PROVE  /\ SubSeq(s, n, Len(s)) \in Seq(Text)
           /\ FlattenSeq(SubSeq(s, n, Len(s))) \in Text
           /\ n > Len(s) => FlattenSeq(SubSeq(s, n, Len(s))) = <<>>
           /\ n \in 1 .. Len(s) =>
                  FlattenSeq(SubSeq(s, n, Len(s))) = s[n] \o FlattenSeq(SubSeq(s, n + 1, Len(s)))
<1>1. n \in Int /\ Len(s) \in Int /\ \A k \in n .. Len(s) : s[k] \in Text
    BY TextsType
<1>2. SubSeq(s, n, Len(s)) \in Seq(Text)
    BY <1>1, SubSeqProperties
<1>3. FlattenSeq(SubSeq(s, n, Len(s))) \in Text
    BY <1>2, TextsType
<1>4. n > Len(s) => SubSeq(s, n, Len(s)) = <<>>
    BY <1>1, SubSeqEmpty
<1> QED BY <1>2, <1>3, <1>4, FlattenEmpty, FlattenFrom DEF Text

\* A chunk as it is sent.
ChunkText(c) == ToText(Len(c)) \o CRLF \o c \o CRLF
ChunkTexts(m) == [k \in DOMAIN m.chunks |-> ChunkText(m.chunks[k])]

ChunksFrom(m, n) ==
    FlattenSeq(SubSeq(ChunkTexts(m), n, Len(ChunkTexts(m)))) \o (ToText(0) \o (CRLF \o CRLF))
BodyPart(m) == IF m.framing = "chunked" THEN ChunksFrom(m, 1) ELSE Body(m)
HeadersFrom(m, n) ==
    FlattenSeq(SubSeq(Ended(HeaderLines(m)), n, Len(Ended(HeaderLines(m))))) \o (CRLF \o BodyPart(m))

LEMMA ChunkTextType ==
    ASSUME NEW m \in Messages
    PROVE  /\ ChunkTexts(m) \in Seq(Text) /\ Len(ChunkTexts(m)) = Len(m.chunks)
           /\ \A k \in 1 .. Len(m.chunks) :
                  /\ ChunkTexts(m)[k] = ChunkText(m.chunks[k])
                  /\ ChunkText(m.chunks[k]) = ToText(Len(m.chunks[k])) \o (CRLF \o (m.chunks[k] \o CRLF))
<1>1. Len(m.chunks) \in Nat /\ DOMAIN m.chunks = 1 .. Len(m.chunks)
    BY ChunksType
<1>2. ASSUME NEW k \in 1 .. Len(m.chunks)
      PROVE  /\ ChunkText(m.chunks[k]) \in Text
             /\ ChunkText(m.chunks[k]) = ToText(Len(m.chunks[k])) \o (CRLF \o (m.chunks[k] \o CRLF))
    <2> DEFINE c == m.chunks[k]
               t == ToText(Len(c))
    <2>1. c \in Text /\ t \in Text /\ CRLF \in Text
        BY ChunksType, BodyType, DelimiterTypes
    <2> HIDE DEF c, t
    <2>2. c \o CRLF \in Text /\ t \o CRLF \in Text
        BY <2>1, ConcatText
    <2>3. ((t \o CRLF) \o c) \o CRLF = (t \o CRLF) \o (c \o CRLF)
        BY <2>1, <2>2, AssociatedText
    <2>4. (t \o CRLF) \o (c \o CRLF) = t \o (CRLF \o (c \o CRLF)) /\ t \o (CRLF \o (c \o CRLF)) \in Text
        BY <2>1, <2>2, AssociatedText
    <2> QED BY <2>3, <2>4 DEF ChunkText, c, t
<1>3. ChunkTexts(m) \in [1 .. Len(m.chunks) -> Text]
    BY <1>1, <1>2 DEF ChunkTexts
<1>4. ChunkTexts(m) \in Seq(Text) /\ Len(ChunkTexts(m)) = Len(m.chunks)
    BY <1>1, <1>3
<1>5. \A k \in 1 .. Len(m.chunks) : ChunkTexts(m)[k] = ChunkText(m.chunks[k])
    BY <1>1 DEF ChunkTexts
<1> QED BY <1>2, <1>4, <1>5

LEMMA ChunksFromIs ==
    ASSUME NEW m \in Messages, NEW n \in Nat, n >= 1
    PROVE  /\ ChunksFrom(m, n) \in Text
           /\ n > Len(m.chunks) => ChunksFrom(m, n) = ToText(0) \o (CRLF \o CRLF)
           /\ n \in 1 .. Len(m.chunks) =>
                  ChunksFrom(m, n) = ToText(Len(m.chunks[n])) \o (CRLF \o ((m.chunks[n] \o CRLF) \o ChunksFrom(m, n + 1)))
<1> DEFINE s == ChunkTexts(m)
           f(i) == FlattenSeq(SubSeq(s, i, Len(s)))
           z == ToText(0) \o (CRLF \o CRLF)
<1>1. ToText(0) \in Text /\ CRLF \in Text
    BY ZeroType, DelimiterTypes
<1>2. z \in Text
    BY <1>1, AssociatedText
<1>3. s \in Seq(Text) /\ Len(s) = Len(m.chunks)
    BY ChunkTextType
<1> HIDE DEF z
<1>4. \A i \in Nat : ChunksFrom(m, i) = f(i) \o z
    BY DEF ChunksFrom, z
<1> HIDE DEF s
<1>5. f(n) \in Text /\ (n > Len(s) => f(n) = <<>>) /\ (n \in 1 .. Len(s) => f(n) = s[n] \o f(n + 1))
    BY <1>3, PartType
<1>6. n + 1 \in Nat /\ n + 1 >= 1
    OBVIOUS
<1>7. f(n + 1) \in Text
    BY <1>3, <1>6, PartType
<1> HIDE DEF f
<1>8. ChunksFrom(m, n) \in Text /\ ChunksFrom(m, n + 1) \in Text
    BY <1>2, <1>4, <1>5, <1>6, <1>7, ConcatText
<1>9. ASSUME n > Len(m.chunks) PROVE ChunksFrom(m, n) = z
    BY <1>2, <1>3, <1>4, <1>5, <1>9, ConcatEmptySeq DEF Text
<1>10. ASSUME n \in 1 .. Len(m.chunks)
       PROVE  ChunksFrom(m, n) = ToText(Len(m.chunks[n])) \o (CRLF \o ((m.chunks[n] \o CRLF) \o ChunksFrom(m, n + 1)))
    <2> DEFINE c == m.chunks[n]
               t == ToText(Len(c))
               d == c \o CRLF
               g == f(n + 1)
               r == ChunksFrom(m, n + 1)
    <2>1. c \in Text /\ t \in Text
        BY <1>10, ChunksType, BodyType
    <2>2. f(n) = (t \o (CRLF \o d)) \o g
        BY <1>3, <1>5, <1>10, ChunkTextType DEF s
    <2>3. r = g \o z /\ g \in Text /\ ChunksFrom(m, n) = f(n) \o z
        BY <1>4, <1>6, <1>7
    <2> HIDE DEF t, g, r
    <2>4. d \in Text
        BY <1>1, <2>1, ConcatText
    <2> HIDE DEF c, d
    <2>5. CRLF \o d \in Text /\ t \o (CRLF \o d) \in Text
        BY <1>1, <2>1, <2>4, AssociatedText, ConcatText
    <2>6. ((t \o (CRLF \o d)) \o g) \o z = (t \o (CRLF \o d)) \o r
        BY <1>2, <2>3, <2>5, AssociatedText
    <2>7. r \in Text
        BY <1>2, <2>3, ConcatText
    <2>8. (t \o (CRLF \o d)) \o r = t \o ((CRLF \o d) \o r)
        BY <2>1, <2>5, <2>7, AssociatedText
    <2>9. (CRLF \o d) \o r = CRLF \o (d \o r)
        BY <1>1, <2>4, <2>7, AssociatedText
    <2>10. ChunksFrom(m, n) = t \o (CRLF \o (d \o r))
        BY <2>2, <2>3, <2>6, <2>8, <2>9
    <2> QED BY <2>10 DEF t, d, c, r
<1> QED BY <1>8, <1>9, <1>10 DEF z

LEMMA BodyPartType ==
    ASSUME NEW m \in Messages PROVE BodyPart(m) \in Text
<1>1. 1 \in Nat /\ 1 >= 1
    OBVIOUS
<1>2. ChunksFrom(m, 1) \in Text /\ Body(m) \in Text
    BY <1>1, ChunksFromIs, ChunksType
<1> QED BY <1>2 DEF BodyPart

LEMMA HeadersFromIs ==
    ASSUME NEW m \in Messages, NEW n \in Nat, n >= 1
    PROVE  /\ HeadersFrom(m, n) \in Text
           /\ n > Len(HeaderLines(m)) => HeadersFrom(m, n) = CRLF \o BodyPart(m)
           /\ n \in 1 .. Len(HeaderLines(m)) =>
                  HeadersFrom(m, n) = HeaderLines(m)[n] \o (CRLF \o HeadersFrom(m, n + 1))
<1> DEFINE h == HeaderLines(m)
           s == Ended(h)
           f(i) == FlattenSeq(SubSeq(s, i, Len(s)))
           z == CRLF \o BodyPart(m)
<1>1. CRLF \in Text /\ BodyPart(m) \in Text
    BY BodyPartType, DelimiterTypes
<1>2. z \in Text
    BY <1>1, ConcatText
<1>3. h \in Seq(Text)
    BY HeaderLinesAre
<1> HIDE DEF z
<1>4. \A i \in Nat : HeadersFrom(m, i) = f(i) \o z
    BY DEF HeadersFrom, z
<1> HIDE DEF h
<1>5. s \in Seq(Text) /\ Len(s) = Len(h) /\ \A k \in 1 .. Len(h) : h[k] \in Text /\ s[k] = h[k] \o CRLF
    BY <1>3, EndedType, TextsType
<1> HIDE DEF s
<1>6. f(n) \in Text /\ (n > Len(s) => f(n) = <<>>) /\ (n \in 1 .. Len(s) => f(n) = s[n] \o f(n + 1))
    BY <1>5, PartType
<1>7. n + 1 \in Nat /\ n + 1 >= 1
    OBVIOUS
<1>8. f(n + 1) \in Text
    BY <1>5, <1>7, PartType
<1> HIDE DEF f
<1>9. HeadersFrom(m, n) \in Text
    BY <1>2, <1>4, <1>6, ConcatText
<1>10. ASSUME n > Len(h) PROVE HeadersFrom(m, n) = z
    BY <1>2, <1>4, <1>5, <1>6, <1>10, ConcatEmptySeq DEF Text
<1>11. ASSUME n \in 1 .. Len(h) PROVE HeadersFrom(m, n) = h[n] \o (CRLF \o HeadersFrom(m, n + 1))
    <2> DEFINE t == h[n]
               g == f(n + 1)
               r == HeadersFrom(m, n + 1)
    <2>1. t \in Text /\ f(n) = (t \o CRLF) \o g
        BY <1>5, <1>6, <1>11
    <2>2. r = g \o z /\ g \in Text /\ HeadersFrom(m, n) = f(n) \o z
        BY <1>4, <1>7, <1>8
    <2> HIDE DEF t, g, r
    <2>3. t \o CRLF \in Text /\ r \in Text
        BY <1>1, <1>2, <2>1, <2>2, ConcatText
    <2>4. ((t \o CRLF) \o g) \o z = (t \o CRLF) \o r
        BY <1>2, <2>2, <2>3, AssociatedText
    <2>5. (t \o CRLF) \o r = t \o (CRLF \o r)
        BY <1>1, <2>1, <2>3, AssociatedText
    <2>6. HeadersFrom(m, n) = t \o (CRLF \o r)
        BY <2>1, <2>2, <2>4, <2>5
    <2> QED BY <2>6 DEF t, r
<1> QED BY <1>9, <1>10, <1>11 DEF h, z

LEMMA WireIs ==
    ASSUME NEW m \in Messages
    PROVE  Wire(m) \in Text /\ Wire(m) = m.first \o (CRLF \o HeadersFrom(m, 1))
<1> DEFINE h == Lines(HeaderLines(m))
           b == BodyPart(m)
           w == (((m.first \o CRLF) \o h) \o CRLF) \o b
<1>1. CRLF \in Text /\ m.first \in Text
    BY MessageParts, DelimiterTypes
<1>2. h \in Text /\ HeadersFrom(m, 1) = h \o (CRLF \o b)
    <2>1. HeaderLines(m) \in Seq(Text)
        BY HeaderLinesAre
    <2>2. h \in Text /\ h = FlattenSeq(Ended(HeaderLines(m))) /\ Ended(HeaderLines(m)) \in Seq(Text)
        BY <2>1, EndedType
    <2>3. SubSeq(Ended(HeaderLines(m)), 1, Len(Ended(HeaderLines(m)))) = Ended(HeaderLines(m))
        BY <2>2, SubSeqFull
    <2> QED BY <2>2, <2>3 DEF HeadersFrom
<1>3. b \in Text
    BY BodyPartType
<1>4. Wire(m) = w
    <2>1. CASE m.framing = "chunked"
        <3> DEFINE s == ChunkTexts(m)
                   f == FlattenSeq(s)
                   head == ((m.first \o CRLF) \o h) \o CRLF
        <3>1. f \in Text /\ ToText(0) \in Text
            BY ChunkTextType, TextsType, ZeroType
        <3>2. b = f \o (ToText(0) \o (CRLF \o CRLF))
            <4>1. SubSeq(s, 1, Len(s)) = s
                BY ChunkTextType, SubSeqFull
            <4> QED BY <2>1, <4>1 DEF BodyPart, ChunksFrom
        <3>3. (f \o ToText(0)) \o CRLF \in Text /\ f \o ToText(0) \in Text
            BY <1>1, <3>1, ConcatText
        <3>4. ((f \o ToText(0)) \o CRLF) \o CRLF = b
            <4> DEFINE t == ToText(0)
            <4> HIDE DEF f, t
            <4>1. CRLF \o CRLF \in Text
                BY <1>1, ConcatText
            <4>2. ((f \o t) \o CRLF) \o CRLF = (f \o t) \o (CRLF \o CRLF)
                BY <1>1, <3>3, AssociatedText DEF t
            <4>3. (f \o t) \o (CRLF \o CRLF) = f \o (t \o (CRLF \o CRLF))
                BY <3>1, <4>1, AssociatedText DEF t
            <4> QED BY <3>2, <4>2, <4>3 DEF t
        <3>5. Wire(m) = head \o (((f \o ToText(0)) \o CRLF) \o CRLF)
            BY <2>1 DEF Wire, ChunkTexts, ChunkText
        <3> QED BY <3>4, <3>5
    <2>2. CASE m.framing # "chunked"
        BY <2>2 DEF Wire, BodyPart
    <2> QED BY <2>1, <2>2
<1> HIDE DEF h, b
<1>5. m.first \o CRLF \in Text /\ CRLF \o b \in Text
    BY <1>1, <1>3, ConcatText
<1>6. (m.first \o CRLF) \o h \in Text /\ h \o (CRLF \o b) \in Text
    BY <1>2, <1>5, ConcatText
<1>7. w = ((m.first \o CRLF) \o h) \o (CRLF \o b)
    BY <1>1, <1>3, <1>6, AssociatedText
<1>8. ((m.first \o CRLF) \o h) \o (CRLF \o b) = (m.first \o CRLF) \o (h \o (CRLF \o b))
    BY <1>2, <1>5, AssociatedText
<1>9. (m.first \o CRLF) \o (h \o (CRLF \o b)) = m.first \o (CRLF \o (h \o (CRLF \o b)))
      /\ m.first \o (CRLF \o (h \o (CRLF \o b))) \in Text
    BY <1>1, <1>6, AssociatedText
<1> QED BY <1>2, <1>4, <1>7, <1>8, <1>9 DEF b
---------------------------------------------------------------------------
(* The words of the first line.                                            *)

FirstDelimiter(k) == IF k < 3 THEN <<" ">> ELSE CRLF
Words(m) == {ws \in [1 .. 3 -> Text] :
                /\ IsWord(ws[1]) /\ IsWord(ws[2]) /\ \A k \in 1 .. 3 : IsLine(ws[k])
                /\ m.first = ws[1] \o (<<" ">> \o (ws[2] \o (<<" ">> \o ws[3])))}
TheWords(m) == CHOOSE ws \in Words(m) : TRUE

LEMMA PartOfLine ==
    ASSUME NEW t, IsLine(t), NEW i \in 1 .. Len(t) + 1, NEW j \in 0 .. Len(t)
    PROVE  /\ IsLine(SubSeq(t, i, j)) /\ SubSeq(t, i, j) \in Text
           /\ (\A k \in 1 .. Len(t) : i <= k /\ k <= j => t[k] # " ") => IsWord(SubSeq(t, i, j))
<1> DEFINE s == SubSeq(t, i, j)
           A == Symbols \ {"CR", "LF"}
<1>1. t \in Text /\ Len(t) \in Nat /\ t \in Seq(A)
    BY LineType, TextElements DEF IsLine
<1>2. i \in Int /\ j \in Int /\ \A k \in i .. j : k \in 1 .. Len(t)
    BY <1>1
<1>3. \A k \in i .. j : t[k] \in A
    BY <1>1, <1>2, ElementOfSeq
<1> HIDE DEF A
<1>4. /\ s \in Seq(A) /\ Len(s) = (IF i <= j THEN j - i + 1 ELSE 0)
      /\ \A k \in 1 .. j - i + 1 : s[k] = t[i + k - 1]
    BY <1>2, <1>3, SubSeqProperties
<1>5. IsLine(s)
    BY <1>4 DEF IsLine, A
<1>6. s \in Text
    BY <1>5, LineType
<1>7. ASSUME \A k \in 1 .. Len(t) : i <= k /\ k <= j => t[k] # " ", NEW k \in 1 .. Len(s)
      PROVE  s[k] # " "
    <2> DEFINE n == i + k - 1
    <2>1. i <= j /\ k \in 1 .. j - i + 1
        BY <1>2, <1>4
    <2>2. n \in i .. j /\ i <= n /\ n <= j
        BY <1>2, <2>1
    <2>3. s[k] = t[n]
        BY <1>4, <2>1
    <2> HIDE DEF n, s
    <2> QED BY <1>2, <1>7, <2>2, <2>3
<1> HIDE DEF s
<1>8. (\A k \in 1 .. Len(t) : i <= k /\ k <= j => t[k] # " ") => IsWord(s)
    BY <1>6, <1>7 DEF IsWord
<1> QED BY <1>5, <1>6, <1>8 DEF s

\* A text cut at one of its symbols.
LEMMA CutAt ==
    ASSUME NEW t \in Text, NEW m \in 1 .. Len(t), NEW k \in m .. Len(t)
    PROVE  SubSeq(t, m, Len(t)) = SubSeq(t, m, k - 1) \o (<<t[k]>> \o SubSeq(t, k + 1, Len(t)))
<1> DEFINE r == Len(t)
<1>1. r \in Nat /\ m \in 1 .. r /\ k \in m .. r
    BY TextElements
<1>2. SubSeq(t, k, r) = <<t[k]>> \o SubSeq(t, k + 1, r)
    <2>1. k \in 1 .. r /\ r \in k .. r
        BY <1>1
    <2> QED BY <2>1, SubSeqRecursiveFirst DEF Text
<1>3. SubSeq(t, m, k - 1) \o SubSeq(t, k, r) = SubSeq(t, m, r)
    <2> DEFINE i == k - 1
    <2>1. m \in 1 .. r + 1 /\ i \in m - 1 .. r /\ r \in i .. r /\ i + 1 = k
        BY <1>1
    <2> HIDE DEF i
    <2>2. SubSeq(t, m, i) \o SubSeq(t, i + 1, r) = SubSeq(t, m, r)
        BY <2>1, ConcatAdjacentSubSeq DEF Text
    <2> QED BY <2>1, <2>2 DEF i
<1> QED BY <1>2, <1>3

\* The two smallest of some numbers.
LEMMA TwoSmallest ==
    ASSUME NEW S \in SUBSET Nat, NEW a \in S, NEW b \in S, a < b
    PROVE  \E i, j \in S : /\ i < j
                           /\ \A k \in S : ~(k < i)
                           /\ \A k \in S : ~(i < k /\ k < j)
<1>1. PICK i \in S : \A k \in S : i <= k
    <2>1. S # {}
        OBVIOUS
    <2> QED BY <2>1, Smallest
<1> DEFINE T == {k \in S : i < k}
<1>2. T \in SUBSET Nat /\ b \in T
    <2>1. i <= a /\ i \in Nat /\ a \in Nat /\ b \in Nat
        BY <1>1
    <2>2. i < b
        BY <2>1
    <2>3. T \subseteq S
        OBVIOUS
    <2>4. b \in T
        BY <2>2
    <2> HIDE DEF T
    <2> QED BY <2>3, <2>4
<1>3. PICK j \in T : \A k \in T : j <= k
    <2> HIDE DEF T
    <2>1. T # {}
        BY <1>2
    <2> QED BY <1>2, <2>1, Smallest
<1>4. i \in S /\ j \in S /\ i < j
    OBVIOUS
<1>5. \A k \in S : ~(k < i)
    BY <1>1
<1>6. \A k \in S : ~(i < k /\ k < j)
    BY <1>3
<1> HIDE DEF T
<1> QED BY <1>4, <1>5, <1>6

LEMMA WordsExist ==
    ASSUME NEW m \in Messages, WholeLine(m) PROVE TheWords(m) \in Words(m)
<1> DEFINE t == m.first
           r == Len(t)
           S == {k \in 1 .. r : t[k] = " "}
<1>1. IsLine(t) /\ t \in Text /\ r \in Nat /\ DOMAIN t = 1 .. r
    BY MessageParts, TextElements
<1>2. S \in SUBSET Nat /\ S \subseteq 1 .. r /\ \A k \in 1 .. r : k \in S <=> t[k] = " "
    <2>1. 1 .. r \subseteq Nat
        BY <1>1
    <2>2. S \subseteq 1 .. r
        OBVIOUS
    <2>3. \A k \in 1 .. r : k \in S <=> t[k] = " "
        OBVIOUS
    <2> HIDE DEF S
    <2> QED BY <2>1, <2>2, <2>3
<1>3. \E a, b \in S : a < b
    <2>1. \E a, b \in 1 .. r : a < b /\ t[a] = " " /\ t[b] = " "
        BY <1>1 DEF WholeLine
    <2> QED BY <2>1
<1> HIDE DEF S, r, t
<1>4. PICK i \in S, j \in S : /\ i < j
                              /\ \A k \in S : ~(k < i)
                              /\ \A k \in S : ~(i < k /\ k < j)
    BY <1>2, <1>3, TwoSmallest
<1>5. i \in 1 .. r /\ j \in 1 .. r /\ i < j /\ 1 \in 1 .. r
    <2>1. i \in 1 .. r /\ j \in 1 .. r
        BY <1>2
    <2>2. r \in Nat
        BY <1>1
    <2> QED BY <1>4, <2>1, <2>2
<1>13. t[i] = " " /\ t[j] = " "
    BY <1>2, <1>5
<1>6. \A k \in 1 .. r : k < i => t[k] # " "
    BY <1>2, <1>4
<1>7. \A k \in 1 .. r : i < k /\ k < j => t[k] # " "
    BY <1>2, <1>4
<1> DEFINE u == SubSeq(t, 1, i - 1)
           v == SubSeq(t, i + 1, j - 1)
           w == SubSeq(t, j + 1, r)
<1>8. r \in Nat /\ r = Len(t)
    BY <1>1 DEF r
<1>9. IsLine(u) /\ IsLine(v) /\ IsLine(w) /\ u \in Text /\ v \in Text /\ w \in Text
    <2>1. /\ 1 \in 1 .. r + 1 /\ i - 1 \in 0 .. r /\ i + 1 \in 1 .. r + 1
          /\ j - 1 \in 0 .. r /\ j + 1 \in 1 .. r + 1 /\ r \in 0 .. r
        BY <1>5, <1>8
    <2> QED BY <1>1, <1>8, <2>1, PartOfLine
<1>10. IsWord(u)
    <2>1. 1 \in 1 .. r + 1 /\ i - 1 \in 0 .. r
        BY <1>5, <1>8
    <2>2. \A k \in 1 .. r : 1 <= k /\ k <= i - 1 => t[k] # " "
        <3>1. \A k \in 1 .. r : k <= i - 1 => k < i
            BY <1>5, <1>8
        <3> QED BY <1>6, <3>1
    <2> QED BY <1>1, <1>8, <2>1, <2>2, PartOfLine
<1>11. IsWord(v)
    <2>1. i + 1 \in 1 .. r + 1 /\ j - 1 \in 0 .. r
        BY <1>5, <1>8
    <2>2. \A k \in 1 .. r : i + 1 <= k /\ k <= j - 1 => t[k] # " "
        <3>1. \A k \in 1 .. r : i + 1 <= k /\ k <= j - 1 => i < k /\ k < j
            BY <1>5, <1>8
        <3> QED BY <1>7, <3>1
    <2> QED BY <1>1, <1>8, <2>1, <2>2, PartOfLine
<1>12. t = u \o (<<" ">> \o (v \o (<<" ">> \o w)))
    <2>1. SubSeq(t, 1, r) = u \o (<<t[i]>> \o SubSeq(t, i + 1, r))
        <3>1. i \in 1 .. r
            BY <1>5
        <3> QED BY <1>1, <1>5, <1>8, <3>1, CutAt
    <2>2. SubSeq(t, i + 1, r) = v \o (<<t[j]>> \o w)
        <3>1. i + 1 \in 1 .. r /\ j \in i + 1 .. r
            BY <1>5, <1>8
        <3> QED BY <1>1, <1>8, <3>1, CutAt
    <2>3. SubSeq(t, 1, r) = t
        BY <1>1, <1>8, SubSeqFull DEF Text
    <2> QED BY <1>13, <2>1, <2>2, <2>3
<1> HIDE DEF u, v, w
<1> DEFINE ws == [k \in 1 .. 3 |-> IF k = 1 THEN u ELSE IF k = 2 THEN v ELSE w]
<1>16. ws[1] = u /\ ws[2] = v /\ ws[3] = w /\ \A k \in 1 .. 3 : ws[k] \in {u, v, w}
    OBVIOUS
<1>17. ws \in [1 .. 3 -> Text]
    BY <1>9
<1> HIDE DEF ws
<1>18. ws \in Words(m)
    BY <1>9, <1>10, <1>11, <1>12, <1>16, <1>17 DEF Words, t
<1> QED BY <1>18 DEF TheWords

\* What is left of a message after k words.
AfterWord(m, k) ==
    LET ws == TheWords(m)
    IN  IF k = 0 THEN ws[1] \o (<<" ">> \o (ws[2] \o (<<" ">> \o (ws[3] \o (CRLF \o HeadersFrom(m, 1))))))
        ELSE IF k = 1 THEN ws[2] \o (<<" ">> \o (ws[3] \o (CRLF \o HeadersFrom(m, 1))))
        ELSE IF k = 2 THEN ws[3] \o (CRLF \o HeadersFrom(m, 1))
        ELSE HeadersFrom(m, 1)

LEMMA WordsType ==
    ASSUME NEW m \in Messages, WholeLine(m)
    PROVE  /\ \A k \in 1 .. 3 : TheWords(m)[k] \in Text /\ IsLine(TheWords(m)[k])
           /\ IsWord(TheWords(m)[1]) /\ IsWord(TheWords(m)[2])
           /\ m.first = TheWords(m)[1] \o (<<" ">> \o (TheWords(m)[2] \o (<<" ">> \o TheWords(m)[3])))
    BY WordsExist DEF Words

LEMMA AfterWordIs ==
    ASSUME NEW m \in Messages, WholeLine(m)
    PROVE  /\ Wire(m) = AfterWord(m, 0)
           /\ \A k \in 0 .. 2 : AfterWord(m, k) = TheWords(m)[k + 1] \o (FirstDelimiter(k + 1) \o AfterWord(m, k + 1))
           /\ \A k \in 0 .. 3 : AfterWord(m, k) \in Text
<1> DEFINE a == TheWords(m)[1]
           b == TheWords(m)[2]
           c == TheWords(m)[3]
           h == HeadersFrom(m, 1)
           d == <<" ">>
<1>1. a \in Text /\ b \in Text /\ c \in Text /\ d \in Text /\ CRLF \in Text
    <2>1. d \in Text /\ CRLF \in Text
        BY DelimiterTypes
    <2>2. 1 \in 1 .. 3 /\ 2 \in 1 .. 3 /\ 3 \in 1 .. 3
        OBVIOUS
    <2>3. a \in Text /\ b \in Text /\ c \in Text
        BY <2>2, WordsType
    <2> QED BY <2>1, <2>3
<1>2. h \in Text
    <2>1. 1 \in Nat /\ 1 >= 1
        OBVIOUS
    <2> QED BY <2>1, HeadersFromIs
<1>3. Wire(m) = (a \o (d \o (b \o (d \o c)))) \o (CRLF \o h)
    BY WireIs, WordsType
<1>4. /\ AfterWord(m, 0) = a \o (d \o (b \o (d \o (c \o (CRLF \o h)))))
      /\ AfterWord(m, 1) = b \o (d \o (c \o (CRLF \o h)))
      /\ AfterWord(m, 2) = c \o (CRLF \o h)
      /\ AfterWord(m, 3) = h
    BY DEF AfterWord
<1> HIDE DEF a, b, c, h, d
<1> DEFINE z == CRLF \o h
<1>5. z \in Text
    BY <1>1, <1>2, ConcatType
<1> HIDE DEF z
<1> DEFINE cz == c \o z
           dcz == d \o cz
           bdcz == b \o dcz
           dbdcz == d \o bdcz
           dc == d \o c
           bdc == b \o dc
           dbdc == d \o bdc
<1>6. cz \in Text
    BY <1>1, <1>5, ConcatType
<1> HIDE DEF dbdc, bdc, dc, dbdcz, bdcz, dcz, cz
<1>7. dc \o z = dcz /\ dcz \in Text /\ dc \in Text
    <2>1. d \in Text /\ c \in Text /\ z \in Text /\ cz \in Text
        BY <1>1, <1>5, <1>6
    <2>2. c \o z = cz
        BY <1>6 DEF cz
    <2>3. (d \o c) \o z = d \o (c \o z)
        BY <2>1, AssociatedText
    <2>4. d \o cz \in Text
        BY <2>1, ConcatType
    <2>5. d \o c \in Text
        BY <2>1, ConcatType
    <2> QED BY <2>2, <2>3, <2>4, <2>5 DEF dc, dcz
<1>8. bdc \o z = bdcz /\ bdcz \in Text /\ bdc \in Text
    <2>1. b \in Text /\ dc \in Text /\ z \in Text /\ dcz \in Text
        BY <1>1, <1>5, <1>7
    <2>2. dc \o z = dcz
        BY <1>7
    <2>3. (b \o dc) \o z = b \o (dc \o z)
        BY <2>1, AssociatedText
    <2>4. b \o dcz \in Text
        BY <2>1, ConcatType
    <2>5. b \o dc \in Text
        BY <2>1, ConcatType
    <2> QED BY <2>2, <2>3, <2>4, <2>5 DEF bdc, bdcz
<1>9. dbdc \o z = dbdcz /\ dbdcz \in Text /\ dbdc \in Text
    <2>1. d \in Text /\ bdc \in Text /\ z \in Text /\ bdcz \in Text
        BY <1>1, <1>5, <1>8
    <2>2. bdc \o z = bdcz
        BY <1>8
    <2>3. (d \o bdc) \o z = d \o (bdc \o z)
        BY <2>1, AssociatedText
    <2>4. d \o bdcz \in Text
        BY <2>1, ConcatType
    <2>5. d \o bdc \in Text
        BY <2>1, ConcatType
    <2> QED BY <2>2, <2>3, <2>4, <2>5 DEF dbdc, dbdcz
<1>10. (a \o dbdc) \o z = a \o dbdcz /\ a \o dbdcz \in Text
    <2>1. a \in Text /\ dbdc \in Text /\ z \in Text /\ dbdcz \in Text
        BY <1>1, <1>5, <1>9
    <2>2. (a \o dbdc) \o z = a \o (dbdc \o z)
        BY <2>1, AssociatedText
    <2>3. a \o dbdcz \in Text
        BY <2>1, ConcatType
    <2> QED BY <1>9, <2>2, <2>3
<1>16. /\ (a \o (d \o (b \o (d \o c)))) \o z = a \o (d \o (b \o (d \o (c \o z))))
       /\ a \o (d \o (b \o (d \o (c \o z)))) \in Text
       /\ b \o (d \o (c \o z)) \in Text /\ c \o z \in Text
    BY <1>6, <1>8, <1>9, <1>10 DEF dbdc, bdc, dc, dbdcz, bdcz, dcz, cz
<1>11. Wire(m) = AfterWord(m, 0)
    BY <1>3, <1>4, <1>16 DEF z
<1>12. ASSUME NEW k \in 0 .. 3 PROVE AfterWord(m, k) \in Text
    <2>1. AfterWord(m, 0) \in Text /\ AfterWord(m, 1) \in Text /\ AfterWord(m, 2) \in Text /\ AfterWord(m, 3) \in Text
        BY <1>2, <1>4, <1>16 DEF z
    <2>2. k = 0 \/ k = 1 \/ k = 2 \/ k = 3
        OBVIOUS
    <2> QED BY <2>1, <2>2
<1>13. ASSUME NEW k \in 0 .. 2
       PROVE  AfterWord(m, k) = TheWords(m)[k + 1] \o (FirstDelimiter(k + 1) \o AfterWord(m, k + 1))
    <2>1. FirstDelimiter(1) = d /\ FirstDelimiter(2) = d /\ FirstDelimiter(3) = CRLF
        BY DEF FirstDelimiter, d
    <2>2. CASE k = 0
        <3>1. k + 1 = 1
            BY <2>2
        <3> QED BY <1>4, <2>1, <2>2, <3>1 DEF a
    <2>3. CASE k = 1
        <3>1. k + 1 = 2
            BY <2>3
        <3> QED BY <1>4, <2>1, <2>3, <3>1 DEF b
    <2>4. CASE k = 2
        <3>1. k + 1 = 3
            BY <2>4
        <3> QED BY <1>4, <2>1, <2>4, <3>1 DEF c
    <2>5. k = 0 \/ k = 1 \/ k = 2
        OBVIOUS
    <2> QED BY <2>2, <2>3, <2>4, <2>5
<1> QED BY <1>11, <1>12, <1>13
---------------------------------------------------------------------------
(* Numerals and directives.                                                *)

LEMMA NumeralsDiffer ==
    ASSUME NEW i \in 1 .. 10, NEW j \in 1 .. 10, Numerals[i] = Numerals[j] PROVE i = j
<1>1. \A k \in 1 .. 10 : \/ k = 1 \/ k = 2 \/ k = 3 \/ k = 4 \/ k = 5
                         \/ k = 6 \/ k = 7 \/ k = 8 \/ k = 9 \/ k = 10
    OBVIOUS
<1>2. /\ Numerals[1] = "0" /\ Numerals[2] = "1" /\ Numerals[3] = "2" /\ Numerals[4] = "3"
      /\ Numerals[5] = "4" /\ Numerals[6] = "5" /\ Numerals[7] = "6" /\ Numerals[8] = "7"
      /\ Numerals[9] = "8" /\ Numerals[10] = "9"
    BY DEF Numerals
<1> QED BY <1>1, <1>2

\* The number that a text begins with.
LEMMA NumberOf ==
    ASSUME NEW t \in Text, NEW n \in 0 .. 9, t # <<>>, t[1] = Numerals[n + 1]
    PROVE  StartsWithNumber(t) /\ ToNumber(t) = n
<1> DEFINE k == n + 1
<1>1. DOMAIN Numerals = 1 .. 10
    BY DEF Numerals
<1>2. k \in 1 .. 10 /\ k - 1 = n
    OBVIOUS
<1>3. t[1] = Numerals[k]
    OBVIOUS
<1> HIDE DEF k
<1>4. \A j \in 1 .. 10 : t[1] = Numerals[j] => j = k
    BY <1>2, <1>3, NumeralsDiffer
<1>5. (CHOOSE j \in DOMAIN Numerals : t[1] = Numerals[j]) = k
    BY <1>1, <1>2, <1>3, <1>4
<1>6. ToNumber(t) = n
    BY <1>2, <1>5 DEF ToNumber
<1>7. StartsWithNumber(t)
    BY <1>1, <1>2, <1>3 DEF StartsWithNumber
<1> QED BY <1>6, <1>7

LEMMA NumberOfNumeral ==
    ASSUME NEW n \in 0 .. 9
    PROVE  StartsWithNumber(ToText(n)) /\ ToNumber(ToText(n)) = n
<1>1. ToText(n) \in Text /\ ToText(n)[1] = Numerals[n + 1] /\ ToText(n) # <<>>
    <2>1. ToText(n) # <<>>
        BY DEF ToText
    <2> QED BY <2>1, NumeralType
<1> QED BY <1>1, NumberOf

LEMMA NumberOfLine ==
    ASSUME NEW n \in 0 .. 9
    PROVE  ToNumber(ToText(n) \o CRLF) = n
<1> DEFINE t == ToText(n) \o CRLF
           s == ToText(n)
<1>1. s \in Text /\ Len(s) = 1 /\ s[1] = Numerals[n + 1]
    BY NumeralType
<1> HIDE DEF s
<1>2. CRLF \in Text /\ Len(CRLF) = 2
    BY DelimiterTypes
<1>3. 1 \in 1 .. Len(s) + Len(CRLF) /\ 1 <= Len(s)
    BY <1>1, <1>2
<1>4. s \o CRLF \in Text /\ (s \o CRLF)[1] = s[1] /\ Len(s \o CRLF) = Len(s) + Len(CRLF)
    BY <1>1, <1>2, <1>3, ConcatText
<1>5. Len(s \o CRLF) # 0
    BY <1>1, <1>2, <1>4
<1>6. s \o CRLF # <<>>
    BY <1>5, EmptySeq
<1>7. ToNumber(s \o CRLF) = n
    BY <1>1, <1>4, <1>6, NumberOf
<1> QED BY <1>7 DEF s

LEMMA NumeralsPlain ==
    DOMAIN Numerals = 1 .. 10 /\ \A k \in 1 .. 10 : Numerals[k] # " " /\ Numerals[k] # ","
<1>1. \A k \in 1 .. 10 : \/ k = 1 \/ k = 2 \/ k = 3 \/ k = 4 \/ k = 5
                         \/ k = 6 \/ k = 7 \/ k = 8 \/ k = 9 \/ k = 10
    OBVIOUS
<1>2. /\ Numerals[1] = "0" /\ Numerals[2] = "1" /\ Numerals[3] = "2" /\ Numerals[4] = "3"
      /\ Numerals[5] = "4" /\ Numerals[6] = "5" /\ Numerals[7] = "6" /\ Numerals[8] = "7"
      /\ Numerals[9] = "8" /\ Numerals[10] = "9"
    BY DEF Numerals
<1>3. DOMAIN Numerals = 1 .. 10
    BY DEF Numerals
<1> QED BY <1>1, <1>2, <1>3

LEMMA NoNumber ==
    ASSUME NEW t \in Text, t[1] = " " PROVE ~StartsWithNumber(t)
    BY NumeralsPlain DEF StartsWithNumber

Separators == {" ", ","}
Plain      == Symbols \ Separators

\* The last directive of a value.
LEMMA LastDirective ==
    ASSUME NEW u \in Text, NEW y \in Symbols, y \notin Separators,
           u # <<>> => u[Len(u)] \in Separators
    PROVE  <<y>> \in SplitValue(u \o <<y>>)
<1> DEFINE v == u \o <<y>>
           n == Len(u)
           cuts == {0, Len(v) + 1} \cup {k \in DOMAIN v : v[k] \in Separators}
           next(k) == CHOOSE j \in cuts : k < j /\ \A i \in cuts : k < i => j <= i
<1>1. <<y>> \in Text /\ Len(<<y>>) = 1 /\ <<y>>[1] = y /\ n \in Nat
    BY OneType, TextElements
<1>2. /\ v \in Text /\ Len(v) = n + 1
      /\ \A k \in 1 .. n + 1 : v[k] = IF k <= n THEN u[k] ELSE <<y>>[k - n]
    BY <1>1, ConcatText
<1>3. v[n + 1] = y
    <2> DEFINE k == n + 1
    <2>1. k \in 1 .. n + 1 /\ ~(k <= n) /\ k - n = 1
        BY <1>1
    <2> HIDE DEF k, v
    <2>2. v[k] = <<y>>[1]
        BY <1>2, <2>1
    <2>3. v[k] = y
        BY <1>1, <2>2
    <2> QED BY <2>3 DEF k
<1>4. n # 0 => v[n] = u[n]
    <2>1. n # 0 => n \in 1 .. n + 1 /\ n <= n
        BY <1>1
    <2> HIDE DEF v, n
    <2> QED BY <1>2, <2>1
<1>5. n # 0 => v[n] \in Separators
    <2>1. n # 0 => u # <<>>
        BY EmptySeq
    <2> HIDE DEF v
    <2> QED BY <1>4, <2>1
<1>6. DOMAIN v = 1 .. n + 1
    BY <1>2, TextElements
<1>7. SplitValue(v) = {SubSeq(v, k + 1, next(k) - 1) : k \in cuts \ {Len(v) + 1}} \ {<<>>}
    BY DEF SplitValue, Separators
<1> HIDE DEF v, n
<1>8. n \in cuts /\ n + 2 \in cuts /\ n + 1 \notin cuts
    <2>1. n + 1 # 0 /\ n + 1 # n + 1 + 1 /\ n + 2 = n + 1 + 1 /\ (n # 0 => n \in 1 .. n + 1)
        BY <1>1
    <2>2. Len(v) + 1 = n + 2
        BY <1>1, <1>2
    <2>3. n \in cuts
        BY <1>5, <1>6, <2>1
    <2>4. n + 2 \in cuts
        BY <2>2
    <2>5. n + 1 \notin cuts
        <3>1. v[n + 1] \notin Separators
            BY <1>3
        <3>2. n + 1 # 0 /\ n + 1 # Len(v) + 1
            BY <2>1, <2>2
        <3> QED BY <3>1, <3>2
    <2> QED BY <2>3, <2>4, <2>5
<1>9. cuts \subseteq 0 .. n + 2
    <2>1. DOMAIN v \subseteq 0 .. n + 2 /\ 0 \in 0 .. n + 2 /\ n + 2 \in 0 .. n + 2
        BY <1>1, <1>6
    <2>2. Len(v) + 1 = n + 2
        BY <1>1, <1>2
    <2> QED BY <2>1, <2>2
<1>10. n \in cuts \ {Len(v) + 1}
    <2>1. n # Len(v) + 1
        BY <1>1, <1>2
    <2> QED BY <1>8, <2>1
<1> HIDE DEF cuts
<1>11. next(n) = n + 2
    <2> DEFINE P(j) == n < j /\ \A i \in cuts : n < i => j <= i
    <2>1. P(n + 2)
        <3>1. ASSUME NEW i \in cuts, n < i PROVE n + 2 <= i
            <4>1. i \in 0 .. n + 2 /\ i # n + 1
                BY <1>8, <1>9
            <4> QED BY <1>1, <3>1, <4>1
        <3> QED BY <1>1, <3>1
    <2>2. ASSUME NEW j \in cuts, P(j) PROVE j = n + 2
        <3>1. j \in 0 .. n + 2 /\ j # n + 1 /\ n < j
            BY <1>8, <1>9, <2>2
        <3> QED BY <1>1, <3>1
    <2> HIDE DEF P
    <2>3. (CHOOSE j \in cuts : P(j)) = n + 2
        BY <1>8, <2>1, <2>2
    <2> QED BY <2>3 DEF P
<1>12. SubSeq(v, n + 1, n + 1) = <<y>>
    <2> DEFINE m == n + 1
               s == SubSeq(v, m, m)
    <2>1. m \in 1 .. Len(v) + 1 /\ Len(v) = m /\ Len(v) - m + 1 = 1 /\ 1 \in 1 .. 1 /\ m + 1 - 1 = m
        BY <1>1, <1>2
    <2>2. s \in Text /\ Len(s) = 1 /\ s[1] = v[m]
        <3>1. s = SubSeq(v, m, Len(v)) /\ v \in Text
            BY <1>2, <2>1
        <3> HIDE DEF s, m
        <3> QED BY <2>1, <3>1, EndOfText
    <2>3. s[1] = y
        BY <1>3, <2>2
    <2> HIDE DEF s, m
    <2>4. \A k \in 1 .. 1 : s[k] = <<y>>[k]
        <3>1. \A k \in 1 .. 1 : k = 1
            OBVIOUS
        <3> QED BY <1>1, <2>3, <3>1
    <2>5. s = <<y>>
        BY <1>1, <2>2, <2>4, SeqEqual DEF Text
    <2> QED BY <2>5 DEF s, m
<1> HIDE DEF next
<1>13. SubSeq(v, n + 1, next(n) - 1) = <<y>>
    <2>1. next(n) - 1 = n + 1
        BY <1>1, <1>11
    <2> QED BY <1>12, <2>1
<1>14. <<y>> # <<>>
    OBVIOUS
<1>15. <<y>> \in SplitValue(v)
    BY <1>7, <1>10, <1>13, <1>14
<1> QED BY <1>15 DEF v
---------------------------------------------------------------------------
(* The header that tells of the body, as it is parsed.                     *)

Spelled(x, gap, y) == <<x>> \o <<":">> \o gap \o <<y>>

LEMMA SpelledElements ==
    ASSUME NEW x \in Symbols, NEW gap \in Text, NEW y \in Symbols
    PROVE  LET t == Spelled(x, gap, y)
           IN  /\ t \in Text /\ Len(t) = Len(gap) + 3 /\ Len(gap) \in Nat
               /\ t[1] = x /\ t[2] = ":" /\ t[Len(gap) + 3] = y
               /\ \A k \in 1 .. Len(gap) : t[k + 2] = gap[k]
<1> DEFINE n == Len(gap)
           a == <<x>>
           b == <<":">>
           c == <<y>>
           ab == a \o b
           abg == ab \o gap
           t == abg \o c
<1>1. a \in Text /\ Len(a) = 1 /\ a[1] = x
    BY OneType
<1>2. b \in Text /\ Len(b) = 1 /\ b[1] = ":"
    <2>1. ":" \in Symbols
        BY KnownSymbols DEF Known
    <2> QED BY <2>1, OneType
<1>3. c \in Text /\ Len(c) = 1 /\ c[1] = y
    BY OneType
<1>4. n \in Nat
    BY TextElements
<1>5. Spelled(x, gap, y) = t
    BY DEF Spelled
<1> HIDE DEF a, b, c
<1>6. ab \in Text /\ Len(ab) = 2 /\ ab[1] = a[1] /\ ab[2] = b[1]
    <2>1. /\ ab \in Text /\ Len(ab) = Len(a) + Len(b)
          /\ \A k \in 1 .. Len(a) + Len(b) : ab[k] = IF k <= Len(a) THEN a[k] ELSE b[k - Len(a)]
        BY <1>1, <1>2, ConcatText
    <2>2. Len(a) = 1 /\ Len(b) = 1
        BY <1>1, <1>2
    <2>3. ab[1] = a[1]
        <3>1. 1 \in 1 .. Len(a) + Len(b) /\ 1 <= Len(a)
            BY <2>2
        <3> HIDE DEF ab
        <3> QED BY <2>1, <3>1
    <2>4. ab[2] = b[1]
        <3>1. 2 \in 1 .. Len(a) + Len(b) /\ ~(2 <= Len(a)) /\ 2 - Len(a) = 1
            BY <2>2
        <3> HIDE DEF ab
        <3>2. ab[2] = b[2 - Len(a)]
            BY <2>1, <3>1
        <3> QED BY <3>1, <3>2
    <2>5. Len(ab) = 2
        <3> HIDE DEF ab
        <3> QED BY <2>1, <2>2
    <2> QED BY <2>1, <2>3, <2>4, <2>5
<1> HIDE DEF ab
<1>7. /\ abg \in Text /\ Len(abg) = n + 2 /\ abg[1] = ab[1] /\ abg[2] = ab[2]
      /\ \A k \in 1 .. n : abg[k + 2] = gap[k]
    <2>1. /\ abg \in Text /\ Len(abg) = Len(ab) + n
          /\ \A k \in 1 .. Len(ab) + n : abg[k] = IF k <= Len(ab) THEN ab[k] ELSE gap[k - Len(ab)]
        BY <1>6, ConcatText
    <2>2. Len(ab) = 2
        BY <1>6
    <2> HIDE DEF abg
    <2>3. abg[1] = ab[1] /\ abg[2] = ab[2] /\ Len(abg) = n + 2
        <3>1. 1 \in 1 .. Len(ab) + n /\ 1 <= Len(ab) /\ 2 \in 1 .. Len(ab) + n /\ 2 <= Len(ab)
            BY <1>4, <2>2
        <3>2. Len(ab) + n = n + 2
            BY <1>4, <2>2
        <3> QED BY <2>1, <3>1, <3>2
    <2>4. ASSUME NEW k \in 1 .. n PROVE abg[k + 2] = gap[k]
        <3> DEFINE i == k + 2
        <3>1. i \in 1 .. Len(ab) + n /\ ~(i <= Len(ab)) /\ i - Len(ab) = k
            BY <1>4, <2>2
        <3> HIDE DEF i
        <3>2. abg[i] = gap[k]
            BY <2>1, <3>1
        <3> QED BY <3>2 DEF i
    <2> QED BY <2>1, <2>3, <2>4
<1> HIDE DEF abg
<1>8. /\ t \in Text /\ Len(t) = n + 3 /\ t[n + 3] = c[1]
      /\ \A k \in 1 .. n + 2 : t[k] = abg[k]
    <2>1. /\ t \in Text /\ Len(t) = Len(abg) + Len(c)
          /\ \A k \in 1 .. Len(abg) + Len(c) : t[k] = IF k <= Len(abg) THEN abg[k] ELSE c[k - Len(abg)]
        BY <1>3, <1>7, ConcatText
    <2>2. Len(abg) = n + 2 /\ Len(c) = 1
        BY <1>3, <1>7
    <2> HIDE DEF t
    <2>3. Len(t) = n + 3
        BY <1>4, <2>1, <2>2
    <2>4. t[n + 3] = c[1]
        <3> DEFINE i == n + 3
        <3>1. i \in 1 .. Len(abg) + Len(c) /\ ~(i <= Len(abg)) /\ i - Len(abg) = 1
            BY <1>4, <2>2
        <3> HIDE DEF i
        <3>2. t[i] = c[i - Len(abg)]
            BY <2>1, <3>1
        <3> QED BY <3>1, <3>2 DEF i
    <2>5. ASSUME NEW k \in 1 .. n + 2 PROVE t[k] = abg[k]
        <3>1. k \in 1 .. Len(abg) + Len(c) /\ k <= Len(abg)
            BY <1>4, <2>2
        <3> QED BY <2>1, <3>1
    <2> QED BY <2>1, <2>3, <2>4, <2>5
<1> HIDE DEF t
<1>9. t[1] = x /\ t[2] = ":"
    <2>1. 1 \in 1 .. n + 2 /\ 2 \in 1 .. n + 2
        BY <1>4
    <2>2. t[1] = abg[1] /\ t[2] = abg[2]
        BY <1>8, <2>1
    <2>3. t[1] = a[1] /\ t[2] = b[1]
        BY <1>6, <1>7, <2>2
    <2> QED BY <1>1, <1>2, <2>3
<1>10. ASSUME NEW k \in 1 .. n PROVE t[k + 2] = gap[k]
    <2>1. k + 2 \in 1 .. n + 2
        BY <1>4
    <2> QED BY <1>7, <1>8, <2>1
<1>11. t[n + 3] = y
    BY <1>3, <1>8
<1> QED BY <1>4, <1>5, <1>8, <1>9, <1>10, <1>11

\* Without a space after the colon a line has no value.
LEMMA SpelledWithoutGap ==
    ASSUME NEW x \in Symbols, NEW y \in Plain
    PROVE  ParseHeader(Spelled(x, <<>>, y)) = Header(Spelled(x, <<>>, y), <<>>)
           /\ Spelled(x, <<>>, y) \in Text /\ Len(Spelled(x, <<>>, y)) = 3
<1> DEFINE t == Spelled(x, <<>>, y)
<1>5. y \in Symbols /\ y # " "
    BY DEF Plain, Separators
<1>1. <<>> \in Text /\ Len(<<>>) = 0
    BY EmptySeq DEF Text
<1>2. t \in Text /\ Len(t) = 3 /\ t[2] = ":" /\ t[3] = y
    <2> DEFINE g == <<>>
    <2>1. g \in Text /\ Len(g) = 0
        BY <1>1
    <2>2. t = Spelled(x, g, y)
        OBVIOUS
    <2> HIDE DEF g, t
    <2>3. t \in Text /\ Len(t) = Len(g) + 3 /\ t[2] = ":" /\ t[Len(g) + 3] = y
        <3>1. y \in Symbols /\ g \in Text
            BY <1>5, <2>1
        <3>2. LET u == Spelled(x, g, y)
              IN  u \in Text /\ Len(u) = Len(g) + 3 /\ u[2] = ":" /\ u[Len(g) + 3] = y
            BY <3>1, SpelledElements
        <3> QED BY <2>2, <3>2
    <2>4. Len(g) + 3 = 3
        BY <2>1
    <2> QED BY <2>3, <2>4
<1> HIDE DEF t
<1>3. Ends(t) = {}
    <2>1. SUFFICES ASSUME NEW n \in 1 .. 3, EndsWith(SubSeq(t, 1, n), ColonSpace) PROVE FALSE
        <3>1. DOMAIN t = 1 .. 3
            BY <1>2, TextElements
        <3> QED BY <3>1 DEF Ends
    <2>2. n >= 2 /\ t[n] = " "
        <3>1. t \in Text /\ n \in 1 .. Len(t)
            BY <1>2
        <3> QED BY <2>1, <3>1, ColonSpaceAt
    <2>3. n = 2 \/ n = 3
        <3>1. n >= 2
            BY <2>2
        <3> QED BY <3>1
    <2>4. t[2] # " " /\ t[3] # " "
        BY <1>2, <1>5
    <2> QED BY <2>2, <2>3, <2>4
<1>4. ParseHeader(t) = Header(t, <<>>)
    BY <1>2, <1>3, ParseHeaderWithout
<1> QED BY <1>2, <1>4 DEF t
Blank(gap) == gap \in Text /\ \A k \in 1 .. Len(gap) : gap[k] = " "

\* With one, the value is all that comes after it.
LEMMA SpelledWithGap ==
    ASSUME NEW x \in Symbols, NEW gap, Blank(gap), gap # <<>>, NEW y \in Plain
    PROVE  /\ ParseHeader(Spelled(x, gap, y)) = Header(<<x>>, SubSeq(gap, 2, Len(gap)) \o <<y>>)
           /\ Blank(SubSeq(gap, 2, Len(gap)))
<1> DEFINE t == Spelled(x, gap, y)
           n == Len(gap)
           u == SubSeq(gap, 2, n)
           z == <<y>>
           v == u \o z
           w == SubSeq(t, 4, n + 3)
<1>1. gap \in Text /\ y \in Symbols
    BY DEF Blank, Plain
<1>2. n \in Nat /\ n # 0 /\ \A k \in 1 .. n : gap[k] \in Symbols
    BY <1>1, TextElements, EmptySeq DEF Text
<1>3. /\ t \in Text /\ Len(t) = n + 3 /\ t[1] = x /\ t[n + 3] = y
      /\ \A k \in 1 .. n : t[k + 2] = gap[k]
    BY <1>1, SpelledElements
<1>4. t[2] = ":"
    BY <1>1, SpelledElements
<1>5. t[3] = " "
    <2>1. 1 \in 1 .. n
        BY <1>2
    <2>2. gap[1] = " " /\ t[1 + 2] = gap[1]
        BY <1>3, <2>1 DEF Blank
    <2>3. 1 + 2 = 3
        OBVIOUS
    <2> HIDE DEF t
    <2> QED BY <2>2, <2>3
<1> HIDE DEF t
<1>6. DOMAIN t = 1 .. n + 3
    BY <1>3, TextElements
<1>7. 3 \in Ends(t)
    <2>1. 3 \in 1 .. Len(t) /\ 3 \in DOMAIN t /\ 3 >= 2 /\ 3 - 1 = 2
        BY <1>2, <1>3, <1>6
    <2> DEFINE three == 3
    <2> HIDE DEF three
    <2>2. EndsWith(SubSeq(t, 1, three), ColonSpace) <=> three >= 2 /\ t[three - 1] = ":" /\ t[three] = " "
        BY <1>3, <2>1, ColonSpaceAt DEF three
    <2>3. t[three - 1] = ":" /\ t[three] = " " /\ three >= 2
        BY <1>4, <1>5, <2>1 DEF three
    <2>4. EndsWith(SubSeq(t, 1, 3), ColonSpace)
        BY <2>2, <2>3 DEF three
    <2> QED BY <2>1, <2>4 DEF Ends
<1>8. \A k \in Ends(t) : 3 <= k
    <2>1. SUFFICES ASSUME NEW k \in 1 .. n + 3, EndsWith(SubSeq(t, 1, k), ColonSpace) PROVE 3 <= k
        BY <1>6 DEF Ends
    <2>2. k \in 1 .. Len(t)
        BY <1>3
    <2>3. k >= 2 /\ t[k] = " "
        BY <1>3, <2>1, <2>2, ColonSpaceAt
    <2>4. k # 2
        BY <1>4, <2>3
    <2>5. k >= 2
        BY <2>3
    <2> QED BY <2>4, <2>5
<1>9. ParseHeader(t) = Header(SubSeq(t, 1, 3 - 2), SubSeq(t, 3 + 1, Len(t)))
    BY <1>3, <1>7, <1>8, ParseHeaderAt
<1>10. 3 - 2 = 1 /\ 3 + 1 = 4
    OBVIOUS
<1>11. ParseHeader(t) = Header(SubSeq(t, 1, 1), w)
    BY <1>3, <1>9, <1>10
<1>12. SubSeq(t, 1, 1) = <<x>>
    <2> DEFINE a == SubSeq(t, 1, 1)
    <2>1. 1 \in 0 .. Len(t) /\ 1 \in 1 .. 1
        BY <1>2, <1>3
    <2>2. a \in Text /\ Len(a) = 1 /\ a[1] = t[1]
        BY <1>3, <2>1, BeginningOfText
    <2>3. <<x>> \in Text /\ Len(<<x>>) = 1 /\ <<x>>[1] = x
        BY OneType
    <2> HIDE DEF a
    <2>4. a[1] = <<x>>[1]
        BY <1>3, <2>2, <2>3
    <2>5. \A k \in 1 .. 1 : a[k] = <<x>>[k]
        <3>1. \A k \in 1 .. 1 : k = 1
            OBVIOUS
        <3> QED BY <2>4, <3>1
    <2>6. a = <<x>>
        BY <2>2, <2>3, <2>5, SeqEqual DEF Text
    <2> QED BY <2>6 DEF a
<1>13. z \in Text /\ Len(z) = 1 /\ z[1] = y
    BY <1>1, OneType
<1> HIDE DEF z
<1>14. /\ u \in Text /\ Len(u) = n - 1
       /\ \A k \in 1 .. n - 1 : u[k] = gap[k + 1]
    <2> DEFINE two == 2
    <2>1. two \in 1 .. n + 1 /\ n - two + 1 = n - 1
        BY <1>2
    <2>2. /\ u \in Text /\ Len(u) = n - two + 1
          /\ \A k \in 1 .. n - two + 1 : u[k] = gap[two + k - 1]
        <3>1. u = SubSeq(gap, two, n)
            OBVIOUS
        <3> HIDE DEF u, two
        <3> QED BY <1>1, <2>1, <3>1, EndOfText
    <2>3. ASSUME NEW k \in 1 .. n - 1 PROVE u[k] = gap[k + 1]
        <3>1. two + k - 1 = k + 1
            BY <1>2
        <3> HIDE DEF u, two
        <3> QED BY <2>1, <2>2, <3>1
    <2> QED BY <2>1, <2>2, <2>3
<1> HIDE DEF u
<1>15. Blank(u)
    <2>1. \A k \in 1 .. n - 1 : k + 1 \in 1 .. n
        BY <1>2
    <2>2. \A k \in 1 .. n - 1 : u[k] = " "
        BY <1>14, <2>1 DEF Blank
    <2>3. Len(u) = n - 1
        BY <1>14
    <2>4. \A k \in 1 .. Len(u) : u[k] = " "
        BY <2>2, <2>3
    <2> HIDE DEF n
    <2> QED BY <1>14, <2>4 DEF Blank
<1>16. /\ v \in Text /\ Len(v) = n
       /\ \A k \in 1 .. n : v[k] = IF k <= n - 1 THEN u[k] ELSE z[k - (n - 1)]
    <2>1. /\ v \in Text /\ Len(v) = Len(u) + Len(z)
          /\ \A k \in 1 .. Len(u) + Len(z) : v[k] = IF k <= Len(u) THEN u[k] ELSE z[k - Len(u)]
        BY <1>13, <1>14, ConcatText
    <2>2. Len(u) = n - 1 /\ Len(z) = 1 /\ n - 1 + 1 = n
        BY <1>2, <1>13, <1>14
    <2> HIDE DEF v
    <2>3. Len(u) + Len(z) = n
        BY <1>2, <2>2
    <2> QED BY <2>1, <2>2, <2>3
<1>17. w \in Text /\ Len(w) = n /\ \A k \in 1 .. n : w[k] = t[k + 3]
    <2> DEFINE m == 4
    <2>1. m \in 1 .. Len(t) + 1 /\ Len(t) - m + 1 = n /\ Len(t) = n + 3
        BY <1>2, <1>3
    <2>2. w \in Text /\ Len(w) = Len(t) - m + 1 /\ \A k \in 1 .. Len(t) - m + 1 : w[k] = t[m + k - 1]
        <3>1. w = SubSeq(t, m, Len(t))
            BY <2>1
        <3> HIDE DEF m, w
        <3> QED BY <1>3, <2>1, <3>1, EndOfText
    <2> HIDE DEF w
    <2>3. ASSUME NEW k \in 1 .. n PROVE w[k] = t[k + 3]
        <3>1. m + k - 1 = k + 3
            BY <1>2
        <3> HIDE DEF m
        <3> QED BY <2>1, <2>2, <3>1
    <2> HIDE DEF m
    <2> QED BY <2>1, <2>2, <2>3
<1> HIDE DEF v, w
<1>18. ASSUME NEW k \in 1 .. n PROVE w[k] = v[k]
    <2>1. CASE k <= n - 1
        <3> DEFINE i == k + 1
        <3>1. k \in 1 .. n - 1 /\ i \in 1 .. n /\ i + 2 = k + 3
            BY <1>2, <2>1
        <3>2. u[k] = gap[i]
            BY <1>14, <3>1
        <3> HIDE DEF i
        <3>3. t[i + 2] = gap[i]
            BY <1>3, <3>1
        <3>4. v[k] = u[k]
            BY <1>16, <2>1
        <3>5. w[k] = t[k + 3]
            BY <1>17
        <3>6. t[i + 2] = t[k + 3]
            BY <3>1
        <3> QED BY <3>2, <3>3, <3>4, <3>5, <3>6
    <2>2. CASE ~(k <= n - 1)
        <3>1. k = n /\ k - (n - 1) = 1 /\ k + 3 = n + 3
            BY <1>2, <2>2
        <3>2. v[k] = z[k - (n - 1)]
            BY <1>16, <2>2
        <3>3. v[k] = y
            BY <1>13, <3>1, <3>2
        <3>4. w[k] = t[n + 3]
            BY <1>17, <3>1
        <3>5. t[n + 3] = y
            BY <1>3
        <3> QED BY <3>3, <3>4, <3>5
    <2> QED BY <2>1, <2>2
<1>19. w = v
    BY <1>16, <1>17, <1>18, SeqEqual DEF Text
<1>20. ParseHeader(t) = Header(<<x>>, v)
    BY <1>11, <1>12, <1>19
<1> QED BY <1>15, <1>20 DEF t, v, u, z
LEMMA NumeralIsPlain ==
    ASSUME NEW n \in 0 .. 9 PROVE Numerals[n + 1] \in Plain
<1> DEFINE k == n + 1
<1>1. k \in 1 .. 10
    OBVIOUS
<1>2. k \in DOMAIN Numerals
    BY <1>1, NumeralsPlain
<1> HIDE DEF k
<1>3. Numerals[k] \in Symbols
    BY <1>2, KnownSymbols DEF Known
<1>4. Numerals[k] # " " /\ Numerals[k] # ","
    BY <1>1, NumeralsPlain
<1>5. Numerals[k] \in Plain
    BY <1>3, <1>4 DEF Plain, Separators
<1> QED BY <1>5 DEF k

LEMMA GapIsBlank ==
    ASSUME NEW gap \in Gaps
    PROVE  /\ Blank(gap)
           /\ (gap = <<" ">> => SubSeq(gap, 2, Len(gap)) = <<>>)
           /\ (gap # <<>> /\ gap # <<" ">> => SubSeq(gap, 2, Len(gap)) # <<>>)
<1> DEFINE n == Len(gap)
           u == SubSeq(gap, 2, n)
           one == <<" ">>
<1>1. Blank(gap) /\ gap \in Text
    BY GapType DEF Blank
<1>2. n \in Nat
    BY <1>1, TextElements
<1>3. one \in Text /\ one[1] = " "
    BY OneType, KnownSymbols DEF Known
<1>6. Len(one) = 1
    BY OneType, KnownSymbols DEF Known
<1> HIDE DEF one
<1>4. gap = one => u = <<>>
    <2>1. SUFFICES ASSUME gap = one PROVE u = <<>>
        OBVIOUS
    <2>2. n = 1
        BY <1>6, <2>1
    <2> HIDE DEF n
    <2>3. 2 \in Int /\ n \in Int /\ n < 2
        BY <2>2
    <2> QED BY <2>3, SubSeqEmpty
<1>5. ASSUME gap # <<>>, gap # one PROVE u # <<>>
    <2>1. n # 1
        <3>1. SUFFICES ASSUME n = 1 PROVE FALSE
            OBVIOUS
        <3>2. \A k \in 1 .. 1 : k = 1
            OBVIOUS
        <3>3. gap[1] = " "
            <4>1. 1 \in 1 .. n
                BY <3>1
            <4> QED BY <1>1, <4>1 DEF Blank
        <3>4. \A k \in 1 .. 1 : gap[k] = one[k]
            BY <1>3, <3>2, <3>3
        <3>5. gap = one
            BY <1>1, <1>3, <1>6, <3>1, <3>4, SeqEqual DEF Text
        <3> QED BY <1>5, <3>5
    <2>2. n # 0
        BY <1>1, <1>5, EmptySeq DEF Text
    <2> DEFINE two == 2
    <2>6. n = Len(gap) /\ u = SubSeq(gap, two, n)
        OBVIOUS
    <2> HIDE DEF n, u
    <2>3. two \in 1 .. n + 1 /\ n - two + 1 > 0
        BY <1>2, <2>1, <2>2
    <2>4. Len(u) = n - two + 1
        <3> HIDE DEF two
        <3> QED BY <1>1, <2>3, <2>6, EndOfText
    <2>5. Len(u) # 0
        BY <2>3, <2>4
    <2> QED BY <2>5, EmptySeq
<1> HIDE DEF u
<1> QED BY <1>1, <1>4, <1>5 DEF u, one

FramingKey(m) == IF m.framing = "length" THEN ContentLength ELSE TransferEncoding

\* What the header that tells of the body is parsed to.
LEMMA FramingParsed ==
    ASSUME NEW m \in Messages, m.framing # "none"
    PROVE  LET h == ParseHeader(FramingHeader(m))
           IN  /\ m.gap = <<>> => Len(h.key) = 3
               /\ m.gap # <<>> => h.key = FramingKey(m)
               /\ m.framing = "length" /\ m.gap = <<" ">> => h.value = ToText(Len(Body(m)))
               /\ m.framing = "length" /\ m.gap # <<" ">> /\ m.gap # <<>> => ~StartsWithNumber(h.value)
               /\ m.framing = "chunked" /\ m.gap # <<>> => <<"chunked">> \in SplitValue(h.value)
<1> DEFINE gap == m.gap
           u == SubSeq(gap, 2, Len(gap))
<1>1. gap \in Gaps /\ (m.framing = "length" \/ m.framing = "chunked")
    BY MessageParts
<1>2. Blank(gap) /\ (gap = <<" ">> => u = <<>>) /\ (gap # <<>> /\ gap # <<" ">> => u # <<>>)
    BY <1>1, GapIsBlank
<1>3. ASSUME NEW x \in Symbols, NEW y \in Plain, FramingHeader(m) = Spelled(x, gap, y)
      PROVE  /\ gap = <<>> => Len(ParseHeader(FramingHeader(m)).key) = 3
             /\ gap # <<>> => /\ ParseHeader(FramingHeader(m)).key = <<x>>
                              /\ ParseHeader(FramingHeader(m)).value = u \o <<y>>
                              /\ Blank(u)
    <2>1. ASSUME gap = <<>> PROVE Len(ParseHeader(FramingHeader(m)).key) = 3
        <3>1. ParseHeader(Spelled(x, <<>>, y)) = Header(Spelled(x, <<>>, y), <<>>)
              /\ Len(Spelled(x, <<>>, y)) = 3
            BY SpelledWithoutGap
        <3> QED BY <1>3, <2>1, <3>1 DEF Header
    <2>2. ASSUME gap # <<>> PROVE ParseHeader(FramingHeader(m)) = Header(<<x>>, u \o <<y>>) /\ Blank(u)
        BY <1>2, <1>3, <2>2, SpelledWithGap
    <2> QED BY <2>1, <2>2 DEF Header
<1>4. CASE m.framing = "length"
    <2> DEFINE n == Len(Body(m))
               y == Numerals[n + 1]
    <2>1. n \in 0 .. 9
        BY <1>4, ChunksType, BodyType
    <2>2. y \in Plain /\ ToText(n) = <<y>>
        BY <2>1, NumeralIsPlain DEF ToText
    <2>3. "Content-Length" \in Symbols
        BY KnownSymbols DEF Known
    <2>4. FramingHeader(m) = ContentLength \o <<":">> \o gap \o ToText(n)
        BY <1>4 DEF FramingHeader
    <2> HIDE DEF y, n, gap
    <2>5. FramingHeader(m) = Spelled("Content-Length", gap, y)
        BY <2>2, <2>4 DEF Spelled, ContentLength
    <2>6. /\ gap = <<>> => Len(ParseHeader(FramingHeader(m)).key) = 3
          /\ gap # <<>> => /\ ParseHeader(FramingHeader(m)).key = FramingKey(m)
                           /\ ParseHeader(FramingHeader(m)).value = u \o <<y>>
                           /\ Blank(u)
        BY <1>3, <1>4, <2>2, <2>3, <2>5 DEF FramingKey, ContentLength
    <2>7. y \in Symbols /\ <<y>> \in Text
        BY <2>2, OneType DEF Plain
    <2>8. gap = <<" ">> => ParseHeader(FramingHeader(m)).value = ToText(n)
        <3>1. <<" ">> # <<>>
            OBVIOUS
        <3>2. <<>> \o <<y>> = <<y>>
            BY <2>7, ConcatEmptySeq DEF Text
        <3> HIDE DEF u
        <3> QED BY <1>2, <2>2, <2>6, <3>1, <3>2
    <2>9. ASSUME gap # <<>>, gap # <<" ">> PROVE ~StartsWithNumber(ParseHeader(FramingHeader(m)).value)
        <3> HIDE DEF u
        <3>1. Blank(u) /\ u # <<>> /\ u \in Text
            BY <1>2, <2>6, <2>9 DEF Blank
        <3>2. Len(u) \in Nat /\ Len(u) # 0
            BY <3>1, TextElements, EmptySeq DEF Text
        <3>3. 1 \in 1 .. Len(u)
            BY <3>2
        <3>4. u[1] = " "
            BY <3>1, <3>3 DEF Blank
        <3>5. u \o <<y>> \in Text /\ (u \o <<y>>)[1] = u[1]
            <4> DEFINE z == <<y>>
            <4>1. z \in Text /\ Len(z) \in Nat
                BY <2>7, TextElements
            <4> HIDE DEF z
            <4>2. 1 \in 1 .. Len(u) + Len(z) /\ 1 <= Len(u)
                BY <3>2, <4>1
            <4>3. u \o z \in Text /\ (u \o z)[1] = u[1]
                BY <3>1, <4>1, <4>2, ConcatText
            <4> QED BY <4>3 DEF z
        <3>6. ~StartsWithNumber(u \o <<y>>)
            BY <3>4, <3>5, NoNumber
        <3> QED BY <2>6, <2>9, <3>6
    <2> HIDE DEF u
    <2> QED BY <1>4, <2>6, <2>8, <2>9 DEF gap, n
<1>5. CASE m.framing = "chunked"
    <2>1. "Transfer-Encoding" \in Symbols /\ "chunked" \in Symbols
        BY KnownSymbols DEF Known
    <2>2. "chunked" \in Plain /\ "chunked" \notin Separators
        BY <2>1 DEF Plain, Separators
    <2>3. FramingHeader(m) = Spelled("Transfer-Encoding", gap, "chunked")
        BY <1>5 DEF FramingHeader, Spelled, TransferEncoding
    <2> HIDE DEF gap
    <2>4. /\ gap = <<>> => Len(ParseHeader(FramingHeader(m)).key) = 3
          /\ gap # <<>> => /\ ParseHeader(FramingHeader(m)).key = FramingKey(m)
                           /\ ParseHeader(FramingHeader(m)).value = u \o <<"chunked">>
                           /\ Blank(u)
        BY <1>3, <1>5, <2>1, <2>2, <2>3 DEF FramingKey, TransferEncoding
    <2> HIDE DEF u
    <2>5. ASSUME Blank(u) PROVE <<"chunked">> \in SplitValue(u \o <<"chunked">>)
        <3>1. u # <<>> => u[Len(u)] \in Separators
            <4>1. u # <<>> => Len(u) \in Nat /\ Len(u) # 0
                BY <2>5, TextElements, EmptySeq DEF Text, Blank
            <4>2. u # <<>> => Len(u) \in 1 .. Len(u)
                BY <4>1
            <4> QED BY <2>5, <4>2 DEF Blank, Separators
        <3>2. u \in Text
            BY <2>5 DEF Blank
        <3> QED BY <2>1, <2>2, <3>1, <3>2, LastDirective
    <2> QED BY <1>5, <2>4, <2>5 DEF gap
<1> QED BY <1>1, <1>4, <1>5
---------------------------------------------------------------------------
(* The headers of a message, as they are parsed.                           *)

ParsedOthers(m) == [k \in DOMAIN m.others |-> ParseHeader(m.others[k])]
ParsedHeaders(m) ==
    IF m.framing = "none" THEN ParsedOthers(m) ELSE Append(ParsedOthers(m), ParseHeader(FramingHeader(m)))

LEMMA ParsedOthersAre ==
    ASSUME NEW m \in Messages
    PROVE  /\ ParsedOthers(m) \in HeaderList /\ Len(ParsedOthers(m)) = Len(m.others)
           /\ \A k \in 1 .. Len(m.others) : ParsedOthers(m)[k] = ParseHeader(m.others[k])
           /\ ~HasKey(ParsedOthers(m), ContentLength) /\ ~HasKey(ParsedOthers(m), TransferEncoding)
<1> DEFINE s == m.others
           l == ParsedOthers(m)
           n == Len(s)
<1>1. n \in Nat /\ DOMAIN s = 1 .. n /\ \A k \in 1 .. n : s[k] \in Text
    BY MessageParts, OthersType
<1>2. l \in [1 .. n -> HeaderRecord] /\ \A k \in 1 .. n : l[k] = ParseHeader(s[k])
    BY <1>1, ParseHeaderType DEF ParsedOthers
<1> HIDE DEF l, n
<1>3. l \in HeaderList /\ Len(l) = n /\ DOMAIN l = 1 .. n
    BY <1>1, <1>2 DEF HeaderList
<1>4. \A k \in 1 .. n : l[k].key # ContentLength /\ l[k].key # TransferEncoding
    <2>1. \A k \in 1 .. n : ParseHeader(s[k]).key # ContentLength /\ ParseHeader(s[k]).key # TransferEncoding
        BY MessageParts, OthersType DEF n
    <2> QED BY <1>2, <2>1
<1>5. ~HasKey(l, ContentLength) /\ ~HasKey(l, TransferEncoding)
    BY <1>3, <1>4 DEF HasKey
<1> QED BY <1>2, <1>3, <1>5 DEF l, n

LEMMA ParsedHeadersAre ==
    ASSUME NEW m \in Messages
    PROVE  /\ ParsedHeaders(m) \in HeaderList /\ Len(ParsedHeaders(m)) = Len(HeaderLines(m))
           /\ \A k \in 1 .. Len(HeaderLines(m)) : ParsedHeaders(m)[k] = ParseHeader(HeaderLines(m)[k])
<1> DEFINE s == m.others
           l == ParsedOthers(m)
           n == Len(s)
<1>1. /\ l \in HeaderList /\ Len(l) = n /\ n \in Nat
      /\ \A k \in 1 .. n : l[k] = ParseHeader(s[k])
    BY ParsedOthersAre, MessageParts, OthersType
<1>2. s \in Seq(Text)
    BY MessageParts, OthersType
<1>3. CASE m.framing = "none"
    <2>1. HeaderLines(m) = s /\ ParsedHeaders(m) = l
        BY <1>3, HeaderLinesAre DEF ParsedHeaders
    <2> QED BY <1>1, <2>1
<1>4. CASE m.framing # "none"
    <2> DEFINE t == FramingHeader(m)
               h == ParseHeader(t)
    <2>1. HeaderLines(m) = Append(s, t) /\ ParsedHeaders(m) = Append(l, h)
        BY <1>4, HeaderLinesAre DEF ParsedHeaders
    <2>2. t \in Text
        BY <1>4, FramingHeaderType
    <2>3. h \in HeaderRecord
        BY <2>2, ParseHeaderType
    <2> HIDE DEF t, l, s
    <2>4. Len(Append(s, t)) = n + 1 /\ Append(s, t)[n + 1] = t /\ \A k \in 1 .. n : Append(s, t)[k] = s[k]
        BY <1>2, <2>2, AppendProperties
    <2> HIDE DEF h
    <2>5. /\ Append(l, h) \in HeaderList /\ Len(Append(l, h)) = n + 1 /\ Append(l, h)[n + 1] = h
          /\ \A k \in 1 .. n : Append(l, h)[k] = l[k]
        BY <1>1, <2>3, AppendHeaderElements
    <2> HIDE DEF n
    <2>6. \A k \in 1 .. n + 1 : Append(l, h)[k] = ParseHeader(Append(s, t)[k])
        <3>1. \A k \in 1 .. n + 1 : k = n + 1 \/ k \in 1 .. n
            BY <1>1
        <3> QED BY <1>1, <2>4, <2>5, <3>1 DEF h
    <2> QED BY <2>1, <2>4, <2>5, <2>6
<1> QED BY <1>3, <1>4

LEMMA LengthOfNone ==
    ASSUME NEW l, ~HasKey(l, ContentLength) PROVE DataLength(Headers(l)) = 0
    BY DEF DataLength, Headers

LEMMA LengthOfLast ==
    ASSUME NEW l \in HeaderList, NEW h \in HeaderRecord, h.key = ContentLength
    PROVE  DataLength(Headers(Append(l, h))) = IF StartsWithNumber(h.value) THEN ToNumber(h.value) ELSE 0
<1> DEFINE m == Append(l, h)
           n == Len(l) + 1
<1>1. m \in HeaderList /\ Len(m) = n /\ m[n] = h
    BY AppendHeaderElements
<1> HIDE DEF m
<1>2. Len(l) \in Nat /\ n \in 1 .. n /\ DOMAIN m = 1 .. n
    BY <1>1, ListElements
<1> HIDE DEF n
<1>3. HasKey(m, ContentLength)
    BY <1>1, <1>2 DEF HasKey
<1>4. LastWith(m, ContentLength) = n
    <2> DEFINE P(k) == m[k].key = ContentLength /\ \A j \in k + 1 .. Len(m) : m[j].key # ContentLength
    <2>1. n \in Nat
        BY <1>2 DEF n
    <2>2. P(n)
        <3>1. n + 1 .. n = {}
            BY <2>1
        <3> QED BY <1>1, <3>1
    <2>3. ASSUME NEW k \in 1 .. n, P(k) PROVE k = n
        <3>1. SUFFICES ASSUME k # n PROVE FALSE
            OBVIOUS
        <3>2. n \in k + 1 .. Len(m)
            BY <1>1, <2>1, <3>1
        <3> QED BY <1>1, <2>3, <3>2
    <2> HIDE DEF P
    <2>4. (CHOOSE k \in DOMAIN m : P(k)) = n
        BY <1>2, <2>2, <2>3
    <2> QED BY <2>4 DEF LastWith, P
<1>5. LastLength(Headers(m)) = h.value
    BY <1>1, <1>4 DEF LastLength, Headers
<1>6. HasKey(Headers(m).list, ContentLength)
    BY <1>3 DEF Headers
<1>7. DataLength(Headers(m)) = IF StartsWithNumber(h.value) THEN ToNumber(h.value) ELSE 0
    BY <1>5, <1>6 DEF DataLength
<1> QED BY <1>7 DEF m

\* The body that the headers announce.
Announced(m) == IF m.framing = "length" /\ m.gap = <<" ">> THEN Len(Body(m)) ELSE 0
InChunks(m)  == m.framing = "chunked" /\ m.gap # <<>>

LEMMA NotOneKey ==
    ASSUME NEW key, Len(key) = 3
    PROVE  key # ContentLength /\ key # TransferEncoding /\ key # AcceptEncoding /\ key # ContentEncoding
<1>1. Len(ContentLength) = 1 /\ Len(TransferEncoding) = 1 /\ Len(AcceptEncoding) = 1 /\ Len(ContentEncoding) = 1
    BY DEF ContentLength, TransferEncoding, AcceptEncoding, ContentEncoding
<1> QED BY <1>1

LEMMA AnnouncedIs ==
    ASSUME NEW m \in Messages
    PROVE  /\ DataLength(Headers(ParsedHeaders(m))) = Announced(m)
           /\ IsChunked(Headers(ParsedHeaders(m))) <=> InChunks(m)
           /\ HasKey(ParsedHeaders(m), ContentLength) <=> m.framing = "length" /\ m.gap # <<>>
           /\ HasKey(ParsedHeaders(m), TransferEncoding) <=> InChunks(m)
<1> DEFINE l == ParsedOthers(m)
           h == ParseHeader(FramingHeader(m))
           p == ParsedHeaders(m)
<1>1. l \in HeaderList /\ ~HasKey(l, ContentLength) /\ ~HasKey(l, TransferEncoding)
    BY ParsedOthersAre
<1>2. p \in HeaderList
    BY ParsedHeadersAre
<1>3. ASSUME ~HasKey(p, TransferEncoding) PROVE ~IsChunked(Headers(p))
    <2>1. TransferEncoding \notin DOMAIN Headers(p).values
        BY <1>3 DEF Headers, HasKey
    <2> QED BY <2>1 DEF IsChunked, Says, HasValue
<1>4. CASE m.framing = "none"
    <2>1. p = l
        BY <1>4 DEF ParsedHeaders
    <2> HIDE DEF p, l
    <2>2. ~HasKey(p, ContentLength) /\ ~HasKey(p, TransferEncoding)
        BY <1>1, <2>1
    <2>3. DataLength(Headers(p)) = 0 /\ ~IsChunked(Headers(p))
        BY <1>3, <2>2, LengthOfNone
    <2>4. m.framing # "length" /\ m.framing # "chunked"
        BY <1>4
    <2>5. Announced(m) = 0 /\ ~InChunks(m)
        BY <2>4 DEF Announced, InChunks
    <2> QED BY <2>2, <2>3, <2>4, <2>5 DEF p
<1>5. CASE m.framing # "none"
    <2>1. p = Append(l, h)
        BY <1>5 DEF ParsedHeaders
    <2>2. h \in HeaderRecord
        BY <1>5, FramingHeaderType, ParseHeaderType
    <2> HIDE DEF p, l, h
    <2>3. /\ m.gap = <<>> => Len(h.key) = 3
          /\ m.gap # <<>> => h.key = FramingKey(m)
          /\ m.framing = "length" /\ m.gap = <<" ">> => h.value = ToText(Len(Body(m)))
          /\ m.framing = "length" /\ m.gap # <<" ">> /\ m.gap # <<>> => ~StartsWithNumber(h.value)
          /\ m.framing = "chunked" /\ m.gap # <<>> => <<"chunked">> \in SplitValue(h.value)
        BY <1>5, FramingParsed DEF h
    <2>4. \A key : HasKey(p, key) <=> HasKey(l, key) \/ h.key = key
        BY <1>1, <2>1, <2>2, HasKeyAppend
    <2>5. HasKey(p, ContentLength) <=> h.key = ContentLength
        BY <1>1, <2>4
    <2>6. HasKey(p, TransferEncoding) <=> h.key = TransferEncoding
        BY <1>1, <2>4
    <2>7. CASE m.gap = <<>>
        <3>1. h.key # ContentLength /\ h.key # TransferEncoding
            BY <2>3, <2>7, NotOneKey
        <3>2. m.gap # <<" ">>
            BY <2>7
        <3>3. ~HasKey(p, ContentLength) /\ ~HasKey(p, TransferEncoding)
            BY <2>5, <2>6, <3>1
        <3>4. DataLength(Headers(p)) = 0 /\ ~IsChunked(Headers(p))
            BY <1>3, <3>3, LengthOfNone
        <3>5. Announced(m) = 0 /\ ~InChunks(m)
            BY <2>7, <3>2 DEF Announced, InChunks
        <3> QED BY <2>7, <3>3, <3>4, <3>5 DEF p
    <2>8. CASE m.gap # <<>> /\ m.framing = "length"
        <3>1. h.key = ContentLength /\ h.key # TransferEncoding
            BY <2>3, <2>8, KeysDiffer DEF FramingKey
        <3>2. DataLength(Headers(p)) = IF StartsWithNumber(h.value) THEN ToNumber(h.value) ELSE 0
            BY <1>1, <2>1, <2>2, <3>1, LengthOfLast
        <3>3. DataLength(Headers(p)) = Announced(m)
            <4>1. CASE m.gap = <<" ">>
                <5>1. Len(Body(m)) \in 0 .. 9
                    BY <2>8, ChunksType, BodyType
                <5>2. StartsWithNumber(h.value) /\ ToNumber(h.value) = Len(Body(m))
                    BY <2>3, <2>8, <4>1, <5>1, NumberOfNumeral
                <5> QED BY <2>8, <3>2, <4>1, <5>2 DEF Announced
            <4>2. CASE m.gap # <<" ">>
                BY <2>3, <2>8, <3>2, <4>2 DEF Announced
            <4> QED BY <4>1, <4>2
        <3>4. ~InChunks(m)
            BY <2>8 DEF InChunks
        <3>5. HasKey(p, ContentLength) /\ ~HasKey(p, TransferEncoding)
            BY <2>5, <2>6, <3>1
        <3>6. ~IsChunked(Headers(p))
            BY <1>3, <3>5
        <3> QED BY <2>8, <3>3, <3>4, <3>5, <3>6 DEF p
    <2>9. CASE m.gap # <<>> /\ m.framing = "chunked"
        <3>1. h.key = TransferEncoding /\ h.key # ContentLength
            BY <2>3, <2>9, KeysDiffer DEF FramingKey
        <3>2. DataLength(Headers(p)) = Announced(m)
            <4>1. ~HasKey(p, ContentLength)
                BY <2>5, <3>1
            <4> QED BY <2>9, <4>1, LengthOfNone DEF Announced
        <3>3. IsChunked(Headers(p))
            <4>1. HasKey(p, TransferEncoding)
                BY <2>6, <3>1
            <4>2. FirstOf(p, TransferEncoding) = h.value
                BY <1>1, <2>1, <2>2, <4>1, FirstOfAppend
            <4>3. TransferEncoding \in DOMAIN Headers(p).values
                BY <4>1 DEF Headers, HasKey
            <4>4. Headers(p).values[TransferEncoding] = FirstOf(p, TransferEncoding)
                BY <4>1 DEF Headers, HasKey
            <4> QED BY <2>3, <2>9, <4>2, <4>3, <4>4 DEF IsChunked, Says, HasValue
        <3>4. InChunks(m)
            BY <2>9 DEF InChunks
        <3>5. m.framing # "length"
            BY <2>9
        <3>6. ~HasKey(p, ContentLength) /\ HasKey(p, TransferEncoding)
            BY <2>5, <2>6, <3>1
        <3> QED BY <3>2, <3>3, <3>4, <3>5, <3>6 DEF p
    <2> QED BY <1>5, <2>7, <2>8, <2>9, MessageParts
<1> QED BY <1>4, <1>5
---------------------------------------------------------------------------
(* A symbol is consumed.                                                   *)

LEMMA OneMore ==
    ASSUME NEW l \in Text, NEW w \in Text, w # <<>>
    PROVE  /\ Head(w) \in Symbols /\ Tail(w) \in Text
           /\ Append(l, Head(w)) \in Text /\ Len(Append(l, Head(w))) = Len(l) + 1
           /\ Append(l, Head(w)) \o Tail(w) = l \o w
<1> DEFINE x == Append(l, Head(w))
           r == Tail(w)
           n == Len(w)
<1>1. n \in Nat /\ n # 0
    BY TextElements, EmptySeq DEF Text
<1>2. Head(w) \in Symbols /\ r \in Text
    BY HeadTailProperties DEF Text
<1>3. x \in Text /\ Len(x) = Len(l) + 1 /\ x = l \o <<Head(w)>> /\ <<Head(w)>> \in Text
    BY <1>2, AppendProperties, AppendIsConcat DEF Text
<1>4. w = <<Head(w)>> \o r
    <2>1. 1 \in 1 .. n /\ n \in 1 .. n
        BY <1>1
    <2>2. SubSeq(w, 1, n) = <<w[1]>> \o SubSeq(w, 1 + 1, n)
        BY <2>1, SubSeqRecursiveFirst DEF Text
    <2>3. SubSeq(w, 1, n) = w /\ r = SubSeq(w, 2, n) /\ Head(w) = w[1]
        BY SubSeqFull, TailIsSubSeq DEF Text
    <2> QED BY <2>2, <2>3
<1> HIDE DEF x, r
<1>5. x \o r = l \o (<<Head(w)>> \o r)
    BY <1>2, <1>3, AssociatedText
<1> QED BY <1>2, <1>3, <1>4, <1>5 DEF x, r

LEMMA ConcatCancel ==
    ASSUME NEW s \in Text, NEW t \in Text, NEW u \in Text, s \o t = s \o u PROVE t = u
    BY ConcatSimplifications DEF Text

\* TNParser: l is what has been read of a text u, w what is left, and n symbols are missing.
Takes(l, w, u, rest, n) ==
    /\ l \in Text /\ w \in Text /\ u \in Text /\ rest \in Text /\ n \in Nat \ {0}
    /\ l \o w = u \o rest /\ Len(l) + n = Len(u)

\* One symbol more of it.
LEMMA TakeStep ==
    ASSUME NEW l, NEW w, NEW u, NEW rest, NEW n, Takes(l, w, u, rest, n)
    PROVE  LET x == Append(l, Head(w))
           IN  /\ w # <<>> /\ x \in Text
               /\ x \o Tail(w) = u \o rest /\ Len(x) + (n - 1) = Len(u)
               /\ n = 1 => x = u /\ Tail(w) = rest
<1> DEFINE x == Append(l, Head(w))
           r == Tail(w)
<1>8. l \in Text /\ w \in Text /\ u \in Text /\ rest \in Text
    BY DEF Takes
<1>9. n \in Nat \ {0} /\ l \o w = u \o rest /\ Len(l) + n = Len(u)
    BY DEF Takes
<1>1. Len(l) \in Nat /\ Len(w) \in Nat /\ Len(u) \in Nat /\ Len(rest) \in Nat
    BY <1>8, TextElements
<1>2. Len(l) + Len(w) = Len(u) + Len(rest)
    <2>1. Len(l \o w) = Len(l) + Len(w)
        BY <1>8, ConcatText
    <2>2. Len(u \o rest) = Len(u) + Len(rest)
        BY <1>8, ConcatText
    <2> QED BY <1>9, <2>1, <2>2
<1>3. Len(w) # 0
    BY <1>1, <1>2, <1>9
<1>4. w # <<>>
    BY <1>3, EmptySeq
<1>5. x \in Text /\ Len(x) = Len(l) + 1 /\ x \o r = l \o w /\ r \in Text
    BY <1>4, <1>8, OneMore
<1> HIDE DEF x, r
<1>6. Len(x) + (n - 1) = Len(u)
    <2> DEFINE a == Len(l)
               b == Len(x)
               c == Len(u)
    <2>1. a \in Nat /\ b = a + 1 /\ a + n = c
        <3>1. a \in Nat
            BY <1>1
        <3>2. b = a + 1
            BY <1>5
        <3>3. a + n = c
            BY <1>9
        <3> QED BY <3>1, <3>2, <3>3
    <2> HIDE DEF a, b, c
    <2>2. b + (n - 1) = c
        BY <1>9, <2>1
    <2> QED BY <2>2 DEF b, c
<1>7. ASSUME n = 1 PROVE x = u /\ r = rest
    <2>1. Len(x) = Len(u) /\ Len(x) <= Len(u)
        BY <1>1, <1>5, <1>7, <1>9
    <2>2. x \o r = u \o rest
        BY <1>5, <1>9
    <2>3. x = SubSeq(u, 1, Len(x))
        BY <1>5, <1>8, <2>1, <2>2, SameBeginning
    <2>4. x = u
        BY <1>8, <2>1, <2>3, SubSeqFull DEF Text
    <2>5. u \o r = u \o rest
        BY <2>2, <2>4
    <2>6. r = rest
        BY <1>5, <1>8, <2>5, ConcatCancel
    <2> QED BY <2>4, <2>6
<1>10. x \o r = u \o rest
    BY <1>5, <1>9
<1> QED BY <1>4, <1>5, <1>6, <1>7, <1>10 DEF x, r

---------------------------------------------------------------------------
(* What the state holds of the message.                                    *)

Typed == /\ message \in Messages
         /\ wire \in Text /\ line \in Text /\ data \in Text /\ chunks \in Text
         /\ first \in Seq(Text) /\ list \in HeaderList

LEMMA DelimiterIs ==
    ASSUME first \in Seq(Text)
    PROVE  Delimiter = FirstDelimiter(Len(first) + 1) /\ Delimiter \in Text
<1>1. Len(first) \in Nat
    BY TextsType
<1>2. Len(first) < 2 <=> Len(first) + 1 < 3
    BY <1>1
<1> QED BY <1>2, DelimiterTypes DEF Delimiter, FirstDelimiter

LEMMA TypedInitially == Init => Typed
<1>1. SUFFICES ASSUME Init PROVE Typed
    OBVIOUS
<1>2. <<>> \in Text /\ <<>> \in Seq(Text) /\ <<>> \in HeaderList
    <2>1. <<>> \in Text
        BY EmptySeq DEF Text
    <2>2. <<>> \in Seq(Text)
        BY EmptySeq
    <2> QED BY <2>1, <2>2, EmptyList
<1>3. wire \in Text
    <2>1. message \in Messages /\ wire = Wire(message)
        BY <1>1 DEF Init
    <2> QED BY <2>1, WireIs
<1>4. message \in Messages /\ line = <<>> /\ first = <<>> /\ list = <<>> /\ data = <<>> /\ chunks = <<>>
    BY <1>1 DEF Init
<1> QED BY <1>2, <1>3, <1>4 DEF Typed

LEMMA TypedKept == Typed /\ [Next]_vars => Typed'
<1>1. SUFFICES ASSUME Typed, [Next]_vars PROVE Typed'
    OBVIOUS
<1>2. <<>> \in Text
    BY EmptySeq DEF Text
<1>3. ASSUME NEW s, Consumes(s)
      PROVE  /\ message' = message /\ wire' \in Text /\ wire # <<>>
             /\ LineNow \in Text /\ Head(wire) \in Symbols
    <2>1. wire # <<>> /\ wire' = Tail(wire) /\ message' = message
        BY <1>3 DEF Consumes
    <2>2. wire \in Text /\ line \in Text
        BY <1>1 DEF Typed
    <2> QED BY <2>1, <2>2, OneMore DEF LineNow
<1>4. CASE ConsumeLine
    <2>1. Consumes("LINE")
        BY <1>4 DEF ConsumeLine
    <2>2. message' = message /\ wire' \in Text /\ LineNow \in Text
        BY <1>3, <2>1
    <2>3. /\ EndsWith(LineNow, Delimiter) => first' = Append(first, Before(LineNow, Delimiter)) /\ line' = <<>>
          /\ ~EndsWith(LineNow, Delimiter) => first' = first /\ line' = LineNow
          /\ list' = list /\ data' = data /\ chunks' = chunks
        BY <1>4 DEF ConsumeLine
    <2>4. first \in Seq(Text) /\ Delimiter \in Text
        BY <1>1, DelimiterIs DEF Typed
    <2>5. EndsWith(LineNow, Delimiter) => Append(first, Before(LineNow, Delimiter)) \in Seq(Text)
        BY <2>2, <2>4, BeforeType, AppendProperties
    <2>6. first' \in Seq(Text) /\ line' \in Text
        BY <1>2, <2>2, <2>3, <2>4, <2>5
    <2> QED BY <1>1, <2>2, <2>3, <2>6 DEF Typed
<1>5. CASE ConsumeHeaders
    <2>1. Consumes("HEADERS")
        BY <1>5 DEF ConsumeHeaders
    <2>2. message' = message /\ wire' \in Text /\ LineNow \in Text
        BY <1>3, <2>1
    <2>3. /\ line' = LineNow \/ line' = <<>>
          /\ list' = list \/ (EndsWith(LineNow, CRLF) /\ list' = Append(list, ParseHeader(Before(LineNow, CRLF))))
          /\ first' = first /\ data' = data /\ chunks' = chunks
        <3>1. first' = first /\ data' = data /\ chunks' = chunks
            BY <1>5 DEF ConsumeHeaders
        <3>2. CASE ~EndsWith(LineNow, CRLF)
            <4>1. line' = LineNow /\ UNCHANGED <<state, list, left>>
                BY <1>5, <3>2 DEF ConsumeHeaders
            <4> QED BY <3>1, <4>1
        <3>3. CASE EndsWith(LineNow, CRLF) /\ LineNow = CRLF
            <4>1. line' = <<>> /\ UNCHANGED list
                BY <1>5, <3>3 DEF ConsumeHeaders
            <4> QED BY <3>1, <4>1
        <3>4. CASE EndsWith(LineNow, CRLF) /\ LineNow # CRLF
            BY <1>5, <3>1, <3>4 DEF ConsumeHeaders
        <3> QED BY <3>2, <3>3, <3>4
    <2>4. list \in HeaderList
        BY <1>1 DEF Typed
    <2>5. EndsWith(LineNow, CRLF) => Append(list, ParseHeader(Before(LineNow, CRLF))) \in HeaderList
        <3>1. EndsWith(LineNow, CRLF) => ParseHeader(Before(LineNow, CRLF)) \in HeaderRecord
            BY <2>2, DelimiterTypes, BeforeType, ParseHeaderType
        <3> QED BY <2>4, <3>1, AppendHeaderElements
    <2>6. list' \in HeaderList /\ line' \in Text
        BY <1>2, <2>2, <2>3, <2>4, <2>5
    <2> QED BY <1>1, <2>2, <2>3, <2>6 DEF Typed
<1>6. CASE ConsumeData \/ ConsumeChunk
    <2>1. /\ Consumes("DATA") \/ Consumes("CHUNK_DATA")
          /\ data' = Append(data, Head(wire))
          /\ chunks' = chunks \/ chunks' = chunks \o data'
          /\ line' = line /\ first' = first /\ list' = list
        BY <1>6 DEF ConsumeData, ConsumeChunk
    <2>2. message' = message /\ wire' \in Text /\ Head(wire) \in Symbols
        BY <1>3, <2>1
    <2>3. data' \in Text
        BY <1>1, <2>1, <2>2, AppendProperties DEF Typed, Text
    <2>4. chunks' \in Text
        BY <1>1, <2>1, <2>3, ConcatType DEF Typed
    <2> QED BY <1>1, <2>1, <2>2, <2>3, <2>4 DEF Typed
<1>7. CASE ConsumeChunkLength
    <2>1. Consumes("CHUNK_LENGTH")
        BY <1>7 DEF ConsumeChunkLength
    <2>2. message' = message /\ wire' \in Text /\ LineNow \in Text
        BY <1>3, <2>1
    <2>3. /\ line' = LineNow \/ line' = line \/ line' = <<>>
          /\ data' = data \/ data' = <<>>
          /\ first' = first /\ list' = list /\ chunks' = chunks
        BY <1>7 DEF ConsumeChunkLength
    <2> QED BY <1>1, <1>2, <2>2, <2>3 DEF Typed
<1>8. CASE PassRequest \/ PassResponse \/ UNCHANGED vars
    <2>1. UNCHANGED <<message, wire, line, first, list, data, chunks>>
        BY <1>8 DEF PassRequest, PassResponse, vars
    <2> QED BY <1>1, <2>1 DEF Typed
<1> QED BY <1>1, <1>4, <1>5, <1>6, <1>7, <1>8 DEF Next
=============================================================================
