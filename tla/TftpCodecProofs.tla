-------------------------- MODULE TftpCodecProofs --------------------------
(***************************************************************************)
(* What TftpCodec does to texts and packets, proved for all of them.       *)
(***************************************************************************)
EXTENDS TftpCodec, SequenceFacts

---------------------------------------------------------------------------
(* Netascii.                                                               *)

\* No text the loop of FromNetASCII has to look back into: it does not end with a CR.
Complete(s) == s = <<>> \/ s[Len(s)] # CR

Pieces(s) == [k \in DOMAIN s |-> Taken(s, k)]

\* What is taken of the characters of a text.
LEMMA PiecesType ==
    ASSUME NEW A, {LF, CR} \subseteq A, NEW s \in Seq(A)
    PROVE  /\ Pieces(s) \in Seq(Seq(A)) /\ Len(Pieces(s)) = Len(s)
           /\ \A k \in 1 .. Len(s) : Pieces(s)[k] = Taken(s, k)
<1>1. Len(s) \in Nat /\ DOMAIN s = 1 .. Len(s) /\ \A k \in 1 .. Len(s) : s[k] \in A
    BY LenProperties, ElementOfSeq
<1>2. ASSUME NEW k \in 1 .. Len(s) PROVE Taken(s, k) \in Seq(A)
    <2>1. <<>> \in Seq(A) /\ <<LF>> \in Seq(A) /\ <<s[k]>> \in Seq(A)
        BY <1>1
    <2> QED BY <2>1 DEF Taken
<1>3. Pieces(s) \in [1 .. Len(s) -> Seq(A)]
    BY <1>1, <1>2 DEF Pieces
<1> QED BY <1>1, <1>3 DEF Pieces

\* A character after a complete text is taken as it is.
LEMMA FromAppend ==
    ASSUME NEW A, {LF, CR} \subseteq A, NEW s \in Seq(A), Complete(s), NEW e \in A
    PROVE  FromNetASCII(Append(s, e)) = Append(FromNetASCII(s), e)
<1> DEFINE t == Append(s, e)
           n == Len(s)
<1>1. /\ n \in Nat /\ t \in Seq(A) /\ Len(t) = n + 1
      /\ \A k \in 1 .. n : t[k] = s[k]
      /\ t[n + 1] = e
    BY AppendProperties, LenProperties
<1>2. n # 0 => s[n] # CR
    BY EmptySeq DEF Complete
<1> HIDE DEF t
<1>3. ASSUME NEW k \in 0 .. n PROVE Pair(t, k) <=> Pair(s, k)
    BY <1>1, <1>2 DEF Pair
<1>4. ASSUME NEW k \in 1 .. n PROVE Taken(t, k) = Taken(s, k)
    <2>1. k - 1 \in 0 .. n /\ k \in 0 .. n /\ t[k] = s[k]
        BY <1>1
    <2>2. Pair(s, k) => k + 1 \in 1 .. n
        BY <1>1 DEF Pair
    <2>3. Pair(s, k) => t[k + 1] = s[k + 1]
        BY <1>1, <2>2
    <2> QED BY <1>3, <2>1, <2>3 DEF Taken
<1>5. Taken(t, n + 1) = <<e>>
    <2>1. ~Pair(t, n + 1 - 1) /\ ~Pair(t, n + 1)
        BY <1>1, <1>2 DEF Pair
    <2> QED BY <1>1, <2>1 DEF Taken
<1>6. Pieces(t) = Append(Pieces(s), <<e>>)
    <2>1. /\ Pieces(s) \in Seq(Seq(A)) /\ Len(Pieces(s)) = n
          /\ \A k \in 1 .. n : Pieces(s)[k] = Taken(s, k)
        BY PiecesType
    <2>2. /\ Pieces(t) \in Seq(Seq(A)) /\ Len(Pieces(t)) = n + 1
          /\ \A k \in 1 .. n + 1 : Pieces(t)[k] = Taken(t, k)
        BY <1>1, PiecesType
    <2> DEFINE u == Append(Pieces(s), <<e>>)
    <2>3. <<e>> \in Seq(A)
        OBVIOUS
    <2>4. /\ u \in Seq(Seq(A)) /\ Len(u) = n + 1 /\ u[n + 1] = <<e>>
          /\ \A k \in 1 .. n : u[k] = Pieces(s)[k]
        BY <2>1, <2>3, AppendProperties
    <2> HIDE DEF u
    <2>5. ASSUME NEW k \in 1 .. n + 1 PROVE Pieces(t)[k] = u[k]
        <3>1. CASE k = n + 1
            BY <1>5, <2>2, <2>4, <3>1
        <3>2. CASE k # n + 1
            <4>1. k \in 1 .. n
                BY <1>1, <3>2
            <4> QED BY <1>4, <2>1, <2>2, <2>4, <4>1
        <3> QED BY <3>1, <3>2
    <2>6. Pieces(t) = u
        BY <2>2, <2>4, <2>5, SeqEqual
    <2> QED BY <2>6 DEF u
<1>7. FromNetASCII(t) = FromNetASCII(s) \o <<e>>
    <2>1. Pieces(s) \in Seq(Seq(A)) /\ <<e>> \in Seq(A)
        BY PiecesType
    <2> QED BY <1>6, <2>1, FlattenAppend DEF FromNetASCII, Pieces
<1>8. FromNetASCII(s) \in Seq(A)
    BY PiecesType, FlattenType DEF FromNetASCII, Pieces
<1> QED BY <1>7, <1>8, AppendIsConcat DEF t

\* CR and what belongs to it make one character.
LEMMA FromPair ==
    ASSUME NEW A, {LF, CR} \subseteq A, NEW s \in Seq(A), Complete(s), NEW e \in A, e \in {LF, NUL}
    PROVE  FromNetASCII(Append(Append(s, CR), e)) = Append(FromNetASCII(s), IF e = LF THEN LF ELSE CR)
<1> DEFINE r == Append(s, CR)
           t == Append(r, e)
           n == Len(s)
           c == IF e = LF THEN LF ELSE CR
<1>1. /\ n \in Nat /\ r \in Seq(A) /\ Len(r) = n + 1
      /\ \A k \in 1 .. n : r[k] = s[k]
      /\ r[n + 1] = CR
    BY AppendProperties, LenProperties
<1> HIDE DEF r
<1>2. /\ t \in Seq(A) /\ Len(t) = n + 2
      /\ \A k \in 1 .. n + 1 : t[k] = r[k]
      /\ t[n + 2] = e
    BY <1>1, AppendProperties
<1>3. n # 0 => s[n] # CR
    BY EmptySeq DEF Complete
<1> HIDE DEF t
<1>4. \A k \in 1 .. n : t[k] = s[k]
    BY <1>1, <1>2
<1>5. t[n + 1] = CR
    BY <1>1, <1>2
<1>6. ASSUME NEW k \in 0 .. n PROVE Pair(t, k) <=> Pair(s, k)
    BY <1>1, <1>2, <1>3, <1>4 DEF Pair
<1>7. ASSUME NEW k \in 1 .. n PROVE Taken(t, k) = Taken(s, k)
    <2>1. k - 1 \in 0 .. n /\ k \in 0 .. n /\ t[k] = s[k]
        BY <1>1, <1>4
    <2>2. Pair(s, k) => k + 1 \in 1 .. n
        BY <1>1 DEF Pair
    <2>3. Pair(s, k) => t[k + 1] = s[k + 1]
        BY <1>4, <2>2
    <2> QED BY <1>6, <2>1, <2>3 DEF Taken
<1>8. Taken(t, n + 1) = <<c>>
    <2>1. ~Pair(t, n + 1 - 1)
        BY <1>1, <1>2, <1>3, <1>4 DEF Pair
    <2>2. n + 1 + 1 = n + 2
        BY <1>1
    <2>3. Pair(t, n + 1) /\ t[n + 1 + 1] = e
        BY <1>1, <1>2, <1>5, <2>2 DEF Pair
    <2> QED BY <1>5, <2>1, <2>3 DEF Taken
<1>9. Taken(t, n + 2) = <<>>
    <2>1. n + 2 - 1 = n + 1 /\ n + 1 + 1 = n + 2
        BY <1>1
    <2>2. Pair(t, n + 2 - 1)
        BY <1>1, <1>2, <1>5, <2>1 DEF Pair
    <2> QED BY <2>2 DEF Taken
<1>10. c \in A
    OBVIOUS
<1> HIDE DEF c
<1>11. Pieces(t) = Append(Append(Pieces(s), <<c>>), <<>>)
    <2>1. /\ Pieces(s) \in Seq(Seq(A)) /\ Len(Pieces(s)) = n
          /\ \A k \in 1 .. n : Pieces(s)[k] = Taken(s, k)
        BY PiecesType
    <2>2. /\ Pieces(t) \in Seq(Seq(A)) /\ Len(Pieces(t)) = n + 2
          /\ \A k \in 1 .. n + 2 : Pieces(t)[k] = Taken(t, k)
        BY <1>2, PiecesType
    <2> DEFINE u == Append(Pieces(s), <<c>>)
               v == Append(u, <<>>)
    <2>3. <<c>> \in Seq(A) /\ <<>> \in Seq(A)
        BY <1>10
    <2>4. /\ u \in Seq(Seq(A)) /\ Len(u) = n + 1 /\ u[n + 1] = <<c>>
          /\ \A k \in 1 .. n : u[k] = Pieces(s)[k]
        BY <2>1, <2>3, AppendProperties
    <2> HIDE DEF u
    <2>5. /\ v \in Seq(Seq(A)) /\ Len(v) = n + 2 /\ v[n + 2] = <<>>
          /\ \A k \in 1 .. n + 1 : v[k] = u[k]
        BY <1>1, <2>3, <2>4, AppendProperties
    <2> HIDE DEF v
    <2>6. ASSUME NEW k \in 1 .. n + 2 PROVE Pieces(t)[k] = v[k]
        <3>1. CASE k = n + 2
            BY <1>9, <2>2, <2>5, <3>1
        <3>2. CASE k = n + 1
            <4>1. k \in 1 .. n + 1
                BY <1>1, <3>2
            <4>2. v[k] = <<c>>
                BY <2>4, <2>5, <3>2, <4>1
            <4>3. Pieces(t)[k] = <<c>>
                BY <1>8, <2>2, <3>2
            <4> QED BY <4>2, <4>3
        <3>3. CASE k \notin {n + 1, n + 2}
            <4>1. k \in 1 .. n
                BY <1>1, <3>3
            <4>2. k \in 1 .. n + 1
                BY <1>1, <4>1
            <4>3. v[k] = Taken(s, k)
                BY <2>1, <2>4, <2>5, <4>1, <4>2
            <4>4. Pieces(t)[k] = Taken(s, k)
                BY <1>7, <2>2, <4>1
            <4> QED BY <4>3, <4>4
        <3> QED BY <3>1, <3>2, <3>3
    <2>7. Pieces(t) = v
        BY <2>2, <2>5, <2>6, SeqEqual
    <2> QED BY <2>7 DEF u, v
<1>12. FromNetASCII(s) \in Seq(A)
    BY PiecesType, FlattenType DEF FromNetASCII, Pieces
<1>13. FromNetASCII(t) = (FromNetASCII(s) \o <<c>>) \o <<>>
    <2>1. Pieces(s) \in Seq(Seq(A)) /\ <<c>> \in Seq(A) /\ <<>> \in Seq(A)
        BY <1>10, PiecesType
    <2>2. Append(Pieces(s), <<c>>) \in Seq(Seq(A))
        BY <2>1, AppendProperties
    <2>3. FlattenSeq(Append(Pieces(s), <<c>>)) = FlattenSeq(Pieces(s)) \o <<c>>
        BY <2>1, FlattenAppend
    <2>4. FlattenSeq(Pieces(t)) = FlattenSeq(Append(Pieces(s), <<c>>)) \o <<>>
        BY <1>11, <2>1, <2>2, FlattenAppend
    <2> QED BY <2>3, <2>4 DEF FromNetASCII, Pieces
<1>14. FromNetASCII(t) = Append(FromNetASCII(s), c)
    <2>1. FromNetASCII(s) \o <<c>> \in Seq(A) /\ FromNetASCII(s) \o <<c>> = Append(FromNetASCII(s), c)
        BY <1>10, <1>12, AppendIsConcat, AppendProperties
    <2> QED BY <1>13, <2>1, ConcatEmptySeq
<1> QED BY <1>14 DEF t, r, c

\* The code of a character.
LEMMA EncodedType ==
    ASSUME NEW A, {NUL, LF, CR} \subseteq A, NEW c \in A
    PROVE  /\ Encoded(c) \in Seq(A)
           /\ c = LF => Encoded(c) = <<CR, LF>>
           /\ c = CR => Encoded(c) = <<CR, NUL>>
           /\ c \notin {CR, LF} => Encoded(c) = <<c>>
<1>1. <<CR, LF>> \in Seq(A) /\ <<CR, NUL>> \in Seq(A) /\ <<c>> \in Seq(A)
    OBVIOUS
<1>2. LF # CR
    BY DEF LF, CR
<1> QED BY <1>1, <1>2 DEF Encoded

\* The codes of the characters of a text.
LEMMA CodesType ==
    ASSUME NEW A, {NUL, LF, CR} \subseteq A, NEW s \in Seq(A)
    PROVE  LET codes == [k \in DOMAIN s |-> Encoded(s[k])]
           IN  /\ codes \in Seq(Seq(A)) /\ Len(codes) = Len(s)
               /\ \A k \in 1 .. Len(s) : codes[k] = Encoded(s[k])
<1> DEFINE codes == [k \in DOMAIN s |-> Encoded(s[k])]
<1>1. Len(s) \in Nat /\ DOMAIN s = 1 .. Len(s) /\ \A k \in 1 .. Len(s) : s[k] \in A
    BY LenProperties, ElementOfSeq
<1>2. codes \in [1 .. Len(s) -> Seq(A)]
    BY <1>1, EncodedType
<1> QED BY <1>1, <1>2

\* The encoding of a text is a text.
LEMMA ToType ==
    ASSUME NEW A, {NUL, LF, CR} \subseteq A, NEW s \in Seq(A) PROVE ToNetASCII(s) \in Seq(A)
    BY CodesType, FlattenType DEF ToNetASCII

\* A text with one character more is encoded by the code of that one in addition.
LEMMA ToAppend ==
    ASSUME NEW A, {NUL, LF, CR} \subseteq A, NEW s \in Seq(A), NEW c \in A
    PROVE  ToNetASCII(Append(s, c)) = ToNetASCII(s) \o Encoded(c)
<1> DEFINE t == Append(s, c)
           n == Len(s)
           codes(u) == [k \in DOMAIN u |-> Encoded(u[k])]
           v == Append(codes(s), Encoded(c))
<1>1. /\ n \in Nat /\ t \in Seq(A) /\ Len(t) = n + 1
      /\ \A k \in 1 .. n : t[k] = s[k]
      /\ t[n + 1] = c
    BY AppendProperties, LenProperties
<1> HIDE DEF t
<1>2. /\ codes(s) \in Seq(Seq(A)) /\ Len(codes(s)) = n
      /\ \A k \in 1 .. n : codes(s)[k] = Encoded(s[k])
    BY CodesType
<1>3. /\ codes(t) \in Seq(Seq(A)) /\ Len(codes(t)) = n + 1
      /\ \A k \in 1 .. n + 1 : codes(t)[k] = Encoded(t[k])
    BY <1>1, CodesType
<1>4. ToNetASCII(s) = FlattenSeq(codes(s)) /\ ToNetASCII(t) = FlattenSeq(codes(t))
    BY DEF ToNetASCII
<1>5. Encoded(c) \in Seq(A)
    BY EncodedType
<1> HIDE DEF codes
<1>6. /\ v \in Seq(Seq(A)) /\ Len(v) = n + 1 /\ v[n + 1] = Encoded(c)
      /\ \A k \in 1 .. n : v[k] = codes(s)[k]
    BY <1>2, <1>5, AppendProperties
<1> HIDE DEF v
<1>7. ASSUME NEW k \in 1 .. n + 1 PROVE codes(t)[k] = v[k]
    <2>1. CASE k = n + 1
        BY <1>1, <1>3, <1>6, <2>1
    <2>2. CASE k # n + 1
        <3>1. k \in 1 .. n
            BY <1>1, <2>2
        <3> QED BY <1>1, <1>2, <1>3, <1>6, <3>1
    <2> QED BY <2>1, <2>2
<1>8. codes(t) = v
    BY <1>3, <1>6, <1>7, SeqEqual
<1>9. FlattenSeq(v) = FlattenSeq(codes(s)) \o Encoded(c)
    BY <1>2, <1>5, FlattenAppend DEF v
<1> QED BY <1>4, <1>8, <1>9 DEF t

\* The empty text.
LEMMA ToEmpty == ToNetASCII(<<>>) = <<>> /\ FromNetASCII(<<>>) = <<>>
<1>1. DOMAIN <<>> = {} /\ [k \in DOMAIN <<>> |-> Encoded(<<>>[k])] = <<>>
      /\ [k \in DOMAIN <<>> |-> Taken(<<>>, k)] = <<>>
    OBVIOUS
<1> QED BY <1>1, FlattenEmpty DEF ToNetASCII, FromNetASCII

---------------------------------------------------------------------------
\* o is the beginning of s, but for a CR at its end in place of an LF.
Beginning(o, s) ==
    /\ Len(o) <= Len(s)
    /\ \A k \in DOMAIN o : \/ o[k] = s[k]
                           \/ k = Len(o) /\ o[k] = CR /\ s[k] = LF

\* What is true of a text that is encoded and decoded again.
Survives(s) ==
    /\ Complete(ToNetASCII(s))
    /\ FromNetASCII(ToNetASCII(s)) = s
    /\ \A n \in 0 .. Len(ToNetASCII(s)) : Beginning(FromNetASCII(SubSeq(ToNetASCII(s), 1, n)), s)

\* The beginning of a text is one of a longer text, and a text is its own.
LEMMA BeginningMonotonic ==
    ASSUME NEW A, NEW s \in Seq(A), NEW o \in Seq(A), Beginning(o, s), NEW c \in A
    PROVE  Beginning(o, Append(s, c))
<1> DEFINE t == Append(s, c)
<1>1. Len(t) = Len(s) + 1 /\ \A k \in 1 .. Len(s) : t[k] = s[k]
    BY AppendProperties
<1>2. Len(s) \in Nat /\ Len(o) \in Nat /\ DOMAIN o = 1 .. Len(o) /\ Len(o) <= Len(s)
    BY LenProperties DEF Beginning
<1> HIDE DEF t
<1>3. Beginning(o, t)
    <2>1. Len(o) <= Len(t)
        BY <1>1, <1>2
    <2>2. ASSUME NEW k \in DOMAIN o PROVE t[k] = s[k]
        BY <1>1, <1>2
    <2> QED BY <2>1, <2>2 DEF Beginning
<1> QED BY <1>3 DEF t

\* The text with c, or with c's CR in place of an LF, begins the text with c.
LEMMA BeginningAppend ==
    ASSUME NEW A, NEW s \in Seq(A), NEW c \in A, NEW e \in A, e = c \/ (e = CR /\ c = LF)
    PROVE  Beginning(Append(s, e), Append(s, c))
<1> DEFINE t == Append(s, c)
           o == Append(s, e)
<1>1. /\ Len(t) = Len(s) + 1 /\ t[Len(s) + 1] = c
      /\ \A k \in 1 .. Len(s) : t[k] = s[k]
    BY AppendProperties
<1>2. /\ o \in Seq(A) /\ Len(o) = Len(s) + 1 /\ o[Len(s) + 1] = e
      /\ \A k \in 1 .. Len(s) : o[k] = s[k]
    BY AppendProperties
<1>3. Len(s) \in Nat /\ DOMAIN o = 1 .. Len(o)
    BY <1>2, LenProperties
<1> HIDE DEF t, o
<1>4. ASSUME NEW k \in DOMAIN o PROVE \/ o[k] = t[k]
                                      \/ k = Len(o) /\ o[k] = CR /\ t[k] = LF
    <2>1. CASE k = Len(s) + 1
        BY <1>1, <1>2, <2>1
    <2>2. CASE k # Len(s) + 1
        <3>1. k \in 1 .. Len(s)
            BY <1>2, <1>3, <2>2
        <3> QED BY <1>1, <1>2, <3>1
    <2> QED BY <2>1, <2>2
<1>5. Beginning(o, t)
    BY <1>1, <1>2, <1>3, <1>4 DEF Beginning
<1> QED BY <1>5 DEF t, o

\* The beginnings of a sequence with one element more.
LEMMA PrefixOfAppend ==
    ASSUME NEW A, NEW s \in Seq(A), NEW e \in A, NEW n \in 0 .. Len(s) + 1
    PROVE  SubSeq(Append(s, e), 1, n) = IF n = Len(s) + 1 THEN Append(s, e) ELSE SubSeq(s, 1, n)
<1>1. Append(s, e) \in Seq(A) /\ Len(Append(s, e)) = Len(s) + 1 /\ Len(s) \in Nat
    BY AppendProperties, LenProperties
<1>2. CASE n = Len(s) + 1
    BY <1>1, <1>2, SubSeqFull
<1>3. CASE n = 0
    BY <1>1, <1>3, SubSeqEmpty
<1>4. CASE n \notin {0, Len(s) + 1}
    <2>1. n \in 1 .. Len(s) /\ 1 \in 1 .. Len(s)
        BY <1>1, <1>4
    <2>2. <<e>> \in Seq(A) /\ Append(s, e) = s \o <<e>>
        BY AppendIsConcat
    <2>3. SubSeq(s \o <<e>>, 1, n) = SubSeq(s, 1, n)
        BY <2>1, <2>2, SubSeqOfConcat1
    <2> QED BY <1>4, <2>2, <2>3
<1> QED BY <1>2, <1>3, <1>4

\* What is decoded is a text, and so is a beginning of one.
LEMMA FromType ==
    ASSUME NEW A, {LF, CR} \subseteq A, NEW s \in Seq(A) PROVE FromNetASCII(s) \in Seq(A)
    BY PiecesType, FlattenType DEF FromNetASCII, Pieces

LEMMA PrefixType ==
    ASSUME NEW A, NEW s \in Seq(A), NEW n \in 0 .. Len(s) PROVE SubSeq(s, 1, n) \in Seq(A)
<1>1. Len(s) \in Nat /\ \A i \in 1 .. n : s[i] \in A
    BY LenProperties, ElementOfSeq
<1> QED BY <1>1, SubSeqProperties

\* A character more: one that is its own code, or one of the two that have a code of two.
LEMMA SurvivesPlain ==
    ASSUME NEW A, {NUL, LF, CR} \subseteq A, NEW s \in Seq(A), Survives(s), NEW c \in A, c \notin {CR, LF}
    PROVE  Survives(Append(s, c))
<1> DEFINE t == Append(s, c)
           E == ToNetASCII(s)
<1>1. E \in Seq(A) /\ Complete(E) /\ FromNetASCII(E) = s
    BY ToType DEF Survives
<1>2. ToNetASCII(t) = Append(E, c)
    <2>1. ToNetASCII(t) = E \o Encoded(c)
        BY ToAppend
    <2>2. Encoded(c) = <<c>>
        BY EncodedType
    <2> QED BY <1>1, <2>1, <2>2, AppendIsConcat
<1>3. Complete(Append(E, c))
    BY <1>1, AppendProperties DEF Complete
<1>4. FromNetASCII(Append(E, c)) = t
    BY <1>1, FromAppend
<1>5. ASSUME NEW n \in 0 .. Len(Append(E, c))
      PROVE  Beginning(FromNetASCII(SubSeq(Append(E, c), 1, n)), t)
    <2>1. Len(E) \in Nat /\ n \in 0 .. Len(E) + 1
        BY <1>1, AppendProperties, LenProperties
    <2>2. CASE n = Len(E) + 1
        <3>1. SubSeq(Append(E, c), 1, n) = Append(E, c)
            BY <1>1, <2>1, <2>2, PrefixOfAppend
        <3>2. Beginning(t, t)
            BY BeginningAppend
        <3> QED BY <1>4, <3>1, <3>2
    <2>3. CASE n # Len(E) + 1
        <3>1. n \in 0 .. Len(E)
            BY <2>1, <2>3
        <3>2. SubSeq(Append(E, c), 1, n) = SubSeq(E, 1, n)
            BY <1>1, <2>1, <2>3, PrefixOfAppend
        <3>3. Beginning(FromNetASCII(SubSeq(E, 1, n)), s)
            BY <3>1 DEF Survives
        <3>4. FromNetASCII(SubSeq(E, 1, n)) \in Seq(A)
            BY <1>1, <3>1, PrefixType, FromType
        <3> QED BY <3>2, <3>3, <3>4, BeginningMonotonic
    <2> QED BY <2>2, <2>3
<1> HIDE DEF E, t
<1>6. Survives(t)
    BY <1>2, <1>3, <1>4, <1>5 DEF Survives
<1> QED BY <1>6 DEF t

LEMMA SurvivesPair ==
    ASSUME NEW A, {NUL, LF, CR} \subseteq A, NEW s \in Seq(A), Survives(s), NEW c \in {CR, LF}
    PROVE  Survives(Append(s, c))
<1> DEFINE t == Append(s, c)
           E == ToNetASCII(s)
           e == IF c = LF THEN LF ELSE NUL
           half == Append(E, CR)
           whole == Append(half, e)
<1>1. E \in Seq(A) /\ Complete(E) /\ FromNetASCII(E) = s
    BY ToType DEF Survives
<1>2. c \in A /\ CR \in A /\ e \in A /\ e \in {LF, NUL} /\ c = (IF e = LF THEN LF ELSE CR) /\ e # CR
    BY DEF LF, CR, NUL
<1>3. half \in Seq(A) /\ Len(half) = Len(E) + 1 /\ whole \in Seq(A) /\ Len(whole) = Len(E) + 2
      /\ Len(E) \in Nat
    <2>1. half \in Seq(A) /\ Len(half) = Len(E) + 1 /\ Len(E) \in Nat
        BY <1>1, AppendProperties, LenProperties
    <2> HIDE DEF half
    <2>2. whole \in Seq(A) /\ Len(whole) = Len(half) + 1
        BY <1>2, <2>1, AppendProperties
    <2> QED BY <2>1, <2>2
<1>4. ToNetASCII(t) = whole
    <2>1. Encoded(c) = <<CR, e>>
        BY EncodedType, <1>2
    <2>2. <<CR>> \in Seq(A) /\ <<e>> \in Seq(A) /\ <<CR, e>> = <<CR>> \o <<e>>
        BY <1>2
    <2>3. E \o <<CR, e>> = (E \o <<CR>>) \o <<e>>
        BY <1>1, <2>2, ConcatAssociative
    <2>4. E \o <<CR>> = half
        BY <1>1, AppendIsConcat
    <2>5. half \o <<e>> = whole
        BY <1>2, <1>3, AppendIsConcat
    <2>6. ToNetASCII(t) = E \o Encoded(c)
        BY <1>2, ToAppend
    <2> QED BY <2>1, <2>3, <2>4, <2>5, <2>6
<1>5. Complete(whole)
    BY <1>2, <1>3, AppendProperties DEF Complete
<1>6. FromNetASCII(whole) = t
    BY <1>1, <1>2, FromPair
<1>7. ASSUME NEW n \in 0 .. Len(whole)
      PROVE  Beginning(FromNetASCII(SubSeq(whole, 1, n)), t)
    <2>1. CASE n = Len(E) + 2
        <3>1. SubSeq(whole, 1, n) = whole
            BY <1>3, <2>1, SubSeqFull
        <3>2. Beginning(t, t)
            BY <1>2, BeginningAppend
        <3> QED BY <1>6, <3>1, <3>2
    <2>2. CASE n = Len(E) + 1
        <3>1. SubSeq(whole, 1, n) = SubSeq(half, 1, n)
            <4>1. n \in 0 .. Len(half) + 1 /\ n # Len(half) + 1
                BY <1>3, <2>2
            <4> HIDE DEF half
            <4> QED BY <1>2, <1>3, <4>1, PrefixOfAppend
        <3>2. SubSeq(half, 1, n) = half
            BY <1>3, <2>2, SubSeqFull
        <3>3. FromNetASCII(half) = Append(s, CR)
            BY <1>1, FromAppend
        <3>4. Beginning(Append(s, CR), t)
            BY <1>2, BeginningAppend
        <3> QED BY <3>1, <3>2, <3>3, <3>4
    <2>3. CASE n \notin {Len(E) + 1, Len(E) + 2}
        <3>1. n \in 0 .. Len(E)
            BY <1>3, <2>3
        <3>2. SubSeq(whole, 1, n) = SubSeq(half, 1, n)
            <4>1. n \in 0 .. Len(half) + 1 /\ n # Len(half) + 1
                BY <1>3, <3>1
            <4> HIDE DEF half
            <4> QED BY <1>2, <1>3, <4>1, PrefixOfAppend
        <3>3. SubSeq(half, 1, n) = SubSeq(E, 1, n)
            <4>1. n \in 0 .. Len(E) + 1 /\ n # Len(E) + 1
                BY <1>3, <3>1
            <4> HIDE DEF E
            <4> QED BY <1>1, <4>1, PrefixOfAppend
        <3>4. Beginning(FromNetASCII(SubSeq(E, 1, n)), s)
            BY <3>1 DEF Survives
        <3>5. FromNetASCII(SubSeq(E, 1, n)) \in Seq(A)
            BY <1>1, <3>1, PrefixType, FromType
        <3> QED BY <1>2, <3>2, <3>3, <3>4, <3>5, BeginningMonotonic
    <2> QED BY <2>1, <2>2, <2>3
<1> HIDE DEF E, t, e, half, whole
<1>8. Survives(t)
    BY <1>4, <1>5, <1>6, <1>7 DEF Survives
<1> QED BY <1>8 DEF t

\* Every text survives.
LEMMA AllSurvive ==
    ASSUME NEW A, {NUL, LF, CR} \subseteq A PROVE \A s \in Seq(A) : Survives(s)
<1> DEFINE S == {s \in Seq(A) : Survives(s)}
<1>1. <<>> \in S
    <2>1. <<>> \in Seq(A) /\ Len(<<>>) = 0 /\ DOMAIN <<>> = {}
        BY EmptySeq
    <2>2. Complete(<<>>) /\ Beginning(<<>>, <<>>)
        BY <2>1 DEF Complete, Beginning
    <2>3. ASSUME NEW n \in 0 .. Len(<<>>) PROVE SubSeq(<<>>, 1, n) = <<>>
        BY <2>1, SubSeqEmpty
    <2> QED BY <2>1, <2>2, <2>3, ToEmpty DEF Survives
<1>2. ASSUME NEW s \in Seq(A), NEW c \in A, s \in S PROVE Append(s, c) \in S
    <2>1. Append(s, c) \in Seq(A)
        BY AppendProperties
    <2>2. CASE c \in {CR, LF}
        BY <1>2, <2>1, <2>2, SurvivesPair
    <2>3. CASE c \notin {CR, LF}
        BY <1>2, <2>1, <2>3, SurvivesPlain
    <2> QED BY <2>2, <2>3
<1>3. Seq(A) \subseteq S
    <2> HIDE DEF S
    <2> QED BY <1>1, <1>2, SeqInduction
<1> QED BY <1>3

---------------------------------------------------------------------------
(* Numbers.                                                                *)

\* A function that is defined by recursion on 0 .. m exists.
Recursive(S, a, step, m) == a \in S /\ step \in [S -> S] /\ m \in Nat
Recurs(f, S, a, step, m) == f \in [0 .. m -> S] /\ f[0] = a /\ \A n \in 1 .. m : f[n] = step[f[n - 1]]

LEMMA Recursion ==
    ASSUME NEW S, NEW a, NEW step, NEW m, Recursive(S, a, step, m)
    PROVE  \E f : Recurs(f, S, a, step, m)
<1> DEFINE Upto(f, n) == f[0] = a /\ \A i \in 1 .. n : f[i] = step[f[i - 1]]
           N == {n \in Nat : \E f \in [0 .. n -> S] : Upto(f, n)}
<1> USE DEF Recursive
<1>1. 0 \in N
    <2> DEFINE f == [i \in 0 .. 0 |-> a]
    <2>1. f \in [0 .. 0 -> S] /\ Upto(f, 0)
        OBVIOUS
    <2> QED BY <2>1
<1>2. ASSUME NEW n \in Nat, n \in N PROVE n + 1 \in N
    <2>1. PICK f \in [0 .. n -> S] : Upto(f, n)
        BY <1>2
    <2> DEFINE g == [i \in 0 .. n + 1 |-> IF i = n + 1 THEN step[f[n]] ELSE f[i]]
    <2>2. f[n] \in S /\ step[f[n]] \in S
        BY <2>1
    <2>3. /\ g \in [0 .. n + 1 -> S] /\ g[n + 1] = step[f[n]]
          /\ \A i \in 0 .. n : g[i] = f[i]
        BY <2>1, <2>2
    <2> HIDE DEF g
    <2>4. ASSUME NEW i \in 1 .. n + 1 PROVE g[i] = step[g[i - 1]]
        <3>1. CASE i = n + 1
            <4>1. i - 1 = n /\ n \in 0 .. n
                BY <3>1
            <4> QED BY <2>3, <3>1, <4>1
        <3>2. CASE i # n + 1
            <4>1. i \in 0 .. n /\ i - 1 \in 0 .. n /\ i \in 1 .. n
                BY <3>2
            <4>2. f[i] = step[f[i - 1]]
                BY <2>1, <4>1
            <4> QED BY <2>3, <4>1, <4>2
        <3> QED BY <3>1, <3>2
    <2>5. g[0] = a
        <3>1. 0 \in 0 .. n
            OBVIOUS
        <3> QED BY <2>1, <2>3, <3>1
    <2>6. Upto(g, n + 1)
        BY <2>4, <2>5
    <2> HIDE DEF Upto
    <2> QED BY <2>3, <2>6
<1>3. Nat \subseteq N
    <2> HIDE DEF N
    <2> QED BY <1>1, <1>2, SetInduction
<1>4. PICK f \in [0 .. m -> S] : Upto(f, m)
    <2>1. m \in N
        BY <1>3
    <2> QED BY <2>1
<1>5. Recurs(f, S, a, step, m)
    BY <1>4 DEF Recurs
<1> QED BY <1>5

\* The powers of two.
LEMMA PowerIs ==
    /\ \A n \in 0 .. Width : Power[n] \in Nat
    /\ Power[0] = 1
    /\ \A n \in 0 .. Width : n # 0 => Power[n] = 2 * Power[n - 1]
<1> DEFINE step == [x \in Nat |-> 2 * x]
           Is(f) == f = [n \in 0 .. Width |-> IF n = 0 THEN 1 ELSE 2 * f[n - 1]]
<1>1. Width \in Nat
    BY DEF Width
<1>2. step \in [Nat -> Nat] /\ 1 \in Nat
    OBVIOUS
<1>3. PICK f \in [0 .. Width -> Nat] : f[0] = 1 /\ \A n \in 1 .. Width : f[n] = step[f[n - 1]]
    <2> HIDE DEF step
    <2>1. Recursive(Nat, 1, step, Width)
        BY <1>1, <1>2 DEF Recursive
    <2>2. PICK f : Recurs(f, Nat, 1, step, Width)
        BY <2>1, Recursion
    <2> QED BY <2>2 DEF Recurs
<1>4. ASSUME NEW n \in 0 .. Width PROVE f[n] = IF n = 0 THEN 1 ELSE 2 * f[n - 1]
    <2>1. CASE n = 0
        BY <1>3, <2>1
    <2>2. CASE n # 0
        <3>1. n \in 1 .. Width /\ n - 1 \in 0 .. Width
            BY <1>1, <2>2
        <3>2. f[n - 1] \in Nat
            BY <3>1
        <3>3. f[n] = step[f[n - 1]]
            BY <1>3, <3>1
        <3> QED BY <2>2, <3>2, <3>3
    <2> QED BY <2>1, <2>2
<1>5. Is(f)
    BY <1>3, <1>4
<1>6. Is(Power)
    <2>1. Power = CHOOSE g : Is(g)
        BY DEF Power
    <2> HIDE DEF Is
    <2> QED BY <1>5, <2>1
<1>7. \A n \in 0 .. Width : Power[n] = IF n = 0 THEN 1 ELSE 2 * Power[n - 1]
    BY <1>6
<1>8. \A n \in 0 .. Width : Power[n] \in Nat
    <2> DEFINE N == {n \in Nat : n \in 0 .. Width => Power[n] \in Nat}
    <2>1. 0 \in N
        BY <1>7
    <2>2. ASSUME NEW n \in Nat, n \in N PROVE n + 1 \in N
        <3>1. SUFFICES ASSUME n + 1 \in 0 .. Width PROVE Power[n + 1] \in Nat
            OBVIOUS
        <3>2. n \in 0 .. Width /\ n + 1 # 0 /\ (n + 1) - 1 = n
            BY <1>1, <3>1
        <3>3. Power[n] \in Nat
            BY <2>2, <3>2
        <3>4. Power[n + 1] = 2 * Power[n]
            BY <1>7, <3>1, <3>2
        <3> QED BY <3>3, <3>4
    <2>3. Nat \subseteq N
        <3> HIDE DEF N
        <3> QED BY <2>1, <2>2, SetInduction
    <2> QED BY <1>1, <2>3
<1>9. 0 \in 0 .. Width
    BY <1>1
<1> QED BY <1>7, <1>8, <1>9

\* Halves of numbers.
LEMMA HalfIs ==
    ASSUME NEW x \in Nat
    PROVE  x \div 2 \in Nat /\ x % 2 \in 0 .. 1 /\ x = 2 * (x \div 2) + (x % 2)
    BY SMT

\* What BitByBit defines.
Bits == [0 .. 1 -> [0 .. 1 -> 0 .. 1]]
ByHalves(f, bits) ==
    /\ f \in [0 .. Width -> [Nat -> [Nat -> Nat]]]
    /\ \A x, y \in Nat : f[0][x][y] = 0
    /\ \A n \in 1 .. Width : \A x, y \in Nat :
           f[n][x][y] = bits[x % 2][y % 2] + 2 * f[n - 1][x \div 2][y \div 2]

LEMMA HalvesStep ==
    ASSUME NEW f, NEW bits, ByHalves(f, bits), NEW n \in 1 .. Width, NEW x \in Nat, NEW y \in Nat
    PROVE  f[n][x][y] = bits[x % 2][y % 2] + 2 * f[n - 1][x \div 2][y \div 2]
    BY DEF ByHalves

LEMMA ByHalvesExists == ASSUME NEW bits \in Bits PROVE \E f : ByHalves(f, bits)
<1> DEFINE S == [Nat -> [Nat -> Nat]]
           row(h, x) == [y \in Nat |-> bits[x % 2][y % 2] + 2 * h[x \div 2][y \div 2]]
           step == [h \in S |-> [x \in Nat |-> row(h, x)]]
           zero == [x \in Nat |-> [y \in Nat |-> 0]]
<1>1. zero \in S /\ \A x, y \in Nat : zero[x][y] = 0
    OBVIOUS
<1>2. ASSUME NEW h \in S, NEW x \in Nat
      PROVE  row(h, x) \in [Nat -> Nat] /\ \A y \in Nat : row(h, x)[y] = bits[x % 2][y % 2] + 2 * h[x \div 2][y \div 2]
    <2>1. ASSUME NEW y \in Nat PROVE bits[x % 2][y % 2] + 2 * h[x \div 2][y \div 2] \in Nat
        <3>1. x \div 2 \in Nat /\ y \div 2 \in Nat /\ x % 2 \in 0 .. 1 /\ y % 2 \in 0 .. 1
            BY HalfIs
        <3>2. h[x \div 2] \in [Nat -> Nat]
            BY <3>1
        <3>3. h[x \div 2][y \div 2] \in Nat
            BY <3>1, <3>2
        <3>4. bits[x % 2][y % 2] \in 0 .. 1
            BY <3>1 DEF Bits
        <3>5. \A a \in 0 .. 1, b \in Nat : a + 2 * b \in Nat
            OBVIOUS
        <3> QED BY <3>3, <3>4, <3>5
    <2> QED BY <2>1
<1> HIDE DEF row
<1>3. step \in [S -> S] /\ \A h \in S, x \in Nat : step[h][x] = row(h, x)
    BY <1>2
<1> HIDE DEF step, zero, S
<1>4. Width \in Nat
    BY DEF Width
<1>5. Recursive(S, zero, step, Width)
    BY <1>1, <1>3, <1>4 DEF Recursive
<1>6. PICK f \in [0 .. Width -> S] : f[0] = zero /\ \A n \in 1 .. Width : f[n] = step[f[n - 1]]
    <2>1. PICK f : Recurs(f, S, zero, step, Width)
        BY <1>5, Recursion
    <2> QED BY <2>1 DEF Recurs
<1>7. \A x, y \in Nat : f[0][x][y] = 0
    BY <1>1, <1>6
<1>8. ASSUME NEW n \in 1 .. Width, NEW x \in Nat, NEW y \in Nat
      PROVE  f[n][x][y] = bits[x % 2][y % 2] + 2 * f[n - 1][x \div 2][y \div 2]
    <2>1. n - 1 \in 0 .. Width
        BY <1>4
    <2>2. f[n - 1] \in S
        BY <1>6, <2>1
    <2>3. f[n] = step[f[n - 1]]
        BY <1>6
    <2>4. f[n][x] = row(f[n - 1], x)
        BY <1>3, <2>2, <2>3
    <2> QED BY <1>2, <2>2, <2>4
<1>9. f \in [0 .. Width -> [Nat -> [Nat -> Nat]]]
    BY <1>6 DEF S
<1>10. ByHalves(f, bits)
    BY <1>7, <1>8, <1>9 DEF ByHalves
<1> QED BY <1>10

LEMMA BitByBitIs == ASSUME NEW bits \in Bits PROVE ByHalves(BitByBit(bits), bits)
<1> DEFINE e(g, n, x, y) == IF n = 0 THEN 0 ELSE bits[x % 2][y % 2] + 2 * g[n - 1][x \div 2][y \div 2]
           Is(g) == g = [n \in 0 .. Width |-> [x \in Nat |-> [y \in Nat |-> e(g, n, x, y)]]]
<1>1. PICK f : ByHalves(f, bits)
    BY ByHalvesExists
<1>2. ASSUME NEW n \in 0 .. Width, NEW x \in Nat, NEW y \in Nat PROVE f[n][x][y] = e(f, n, x, y)
    <2>1. CASE n = 0
        BY <1>1, <2>1 DEF ByHalves
    <2>2. CASE n # 0
        <3>1. n \in 1 .. Width
            BY <2>2 DEF Width
        <3> QED BY <1>1, <2>2, <3>1 DEF ByHalves
    <2> QED BY <2>1, <2>2
<1>3. f \in [0 .. Width -> [Nat -> [Nat -> Nat]]]
    BY <1>1 DEF ByHalves
<1> HIDE DEF e
<1>4. ASSUME NEW n \in 0 .. Width PROVE f[n] = [x \in Nat |-> [y \in Nat |-> e(f, n, x, y)]]
    <2>1. f[n] \in [Nat -> [Nat -> Nat]]
        BY <1>3
    <2>2. ASSUME NEW x \in Nat PROVE f[n][x] = [y \in Nat |-> e(f, n, x, y)]
        <3>1. f[n][x] \in [Nat -> Nat]
            BY <2>1
        <3> QED BY <1>2, <3>1
    <2> QED BY <2>1, <2>2
<1>5. Is(f)
    BY <1>3, <1>4
<1> DEFINE g == BitByBit(bits)
<1>6. Is(g)
    <2>1. g = CHOOSE h : Is(h)
        BY DEF BitByBit, e
    <2> HIDE DEF Is, g
    <2> QED BY <1>5, <2>1
<1> HIDE DEF g
<1>7. DOMAIN g = 0 .. Width /\ \A n \in 0 .. Width : g[n] = [x \in Nat |-> [y \in Nat |-> e(g, n, x, y)]]
    BY <1>6
<1>8. ASSUME NEW n \in 0 .. Width, NEW x \in Nat PROVE g[n][x] = [y \in Nat |-> e(g, n, x, y)]
    BY <1>7
<1>9. ASSUME NEW n \in 0 .. Width, NEW x \in Nat, NEW y \in Nat PROVE g[n][x][y] = e(g, n, x, y)
    <2> DEFINE row == [z \in Nat |-> e(g, n, x, z)]
    <2>1. row[y] = e(g, n, x, y)
        OBVIOUS
    <2>2. g[n][x] = row
        BY <1>8
    <2> QED BY <2>1, <2>2
<1> HIDE DEF Is
<1>10. \A n \in 0 .. Width : \A x, y \in Nat : g[n][x][y] = f[n][x][y]
    <2> DEFINE N == {k \in Nat : k \in 0 .. Width => \A x, y \in Nat : g[k][x][y] = f[k][x][y]}
    <2>1. 0 \in N
        <3>1. 0 \in 0 .. Width
            BY DEF Width
        <3> QED BY <1>2, <1>9, <3>1 DEF e
    <2>2. ASSUME NEW k \in Nat, k \in N PROVE k + 1 \in N
        <3>1. SUFFICES ASSUME k + 1 \in 0 .. Width, NEW x \in Nat, NEW y \in Nat
                       PROVE  g[k + 1][x][y] = f[k + 1][x][y]
            OBVIOUS
        <3>2. k \in 0 .. Width /\ k + 1 # 0 /\ (k + 1) - 1 = k
            BY <3>1 DEF Width
        <3>3. x \div 2 \in Nat /\ y \div 2 \in Nat
            BY HalfIs
        <3>4. g[k][x \div 2][y \div 2] = f[k][x \div 2][y \div 2]
            BY <2>2, <3>2, <3>3
        <3>5. e(g, k + 1, x, y) = e(f, k + 1, x, y)
            BY <3>2, <3>4 DEF e
        <3> QED BY <1>2, <1>9, <3>1, <3>5
    <2>3. Nat \subseteq N
        <3> HIDE DEF N
        <3> QED BY <2>1, <2>2, SetInduction
    <2> QED BY <2>3 DEF Width
<1>11. \A n \in 0 .. Width : g[n] = f[n]
    <2> SUFFICES ASSUME NEW n \in 0 .. Width PROVE g[n] = f[n]
        OBVIOUS
    <2>1. f[n] \in [Nat -> [Nat -> Nat]]
        BY <1>3
    <2>2. ASSUME NEW x \in Nat PROVE g[n][x] = f[n][x]
        <3>1. f[n][x] \in [Nat -> Nat]
            BY <2>1
        <3>2. g[n][x] = [y \in Nat |-> g[n][x][y]]
            BY <1>8
        <3>3. \A y \in Nat : g[n][x][y] = f[n][x][y]
            BY <1>10
        <3> QED BY <3>1, <3>2, <3>3
    <2>3. g[n] = [x \in Nat |-> g[n][x]]
        BY <1>7
    <2> QED BY <2>1, <2>2, <2>3
<1>12. g = f
    <2>1. g = [n \in 0 .. Width |-> g[n]]
        BY <1>6 DEF Is
    <2> QED BY <1>3, <1>11, <2>1
<1> QED BY <1>1, <1>12 DEF g
---------------------------------------------------------------------------
\* No number below b, but zero, is a multiple of b.
LEMMA NoProperMultiple ==
    ASSUME NEW b \in Nat \ {0}, NEW d \in Int, 0 <= b * d, b * d < b PROVE d = 0
<1>1. CASE d >= 1
    <2>1. b * d = b + b * (d - 1) /\ b * (d - 1) >= 0
        BY <1>1
    <2> QED BY <2>1
<1>2. CASE d <= -1
    <2>1. b * d = -b + b * (d + 1) /\ b * (d + 1) <= 0
        BY <1>2
    <2> QED BY <2>1
<1> QED BY <1>1, <1>2

\* There is one quotient and one remainder.
LEMMA Division ==
    ASSUME NEW m \in Nat \ {0}, NEW c \in Nat, NEW d \in Nat, d < m, NEW x \in Nat, x = m * c + d
    PROVE  x \div m = c /\ x % m = d
<1> DEFINE q == x \div m
           r == x % m
<1>1. x = m * q + r /\ q \in Nat /\ r \in Nat /\ r < m
    OBVIOUS
<1> HIDE DEF q, r
<1>2. CASE d >= r
    <2>1. 0 <= m * (q - c) /\ m * (q - c) < m
        BY <1>1, <1>2
    <2>2. q - c = 0
        BY <1>1, <2>1, NoProperMultiple
    <2> QED BY <1>1, <2>2 DEF q, r
<1>3. CASE d < r
    <2>1. 0 <= m * (c - q) /\ m * (c - q) < m
        BY <1>1, <1>3
    <2>2. c - q = 0
        BY <1>1, <2>1, NoProperMultiple
    <2> QED BY <1>1, <2>2 DEF q, r
<1> QED BY <1>1, <1>2, <1>3

\* The lowest bit and the others of a number of some bits more.
LEMMA BitMore ==
    ASSUME NEW x \in Nat, NEW p \in Nat \ {0}
    PROVE  /\ x % (2 * p) = (x % 2) + 2 * ((x \div 2) % p)
           /\ x \div (2 * p) = (x \div 2) \div p
<1> DEFINE q == x \div 2
           r == x % 2
           c == q \div p
           d == q % p
<1>1. x = 2 * q + r /\ q \in Nat /\ r \in 0 .. 1
    BY HalfIs
<1> HIDE DEF q, r
<1>2. q = p * c + d /\ c \in Nat /\ d \in Nat /\ d < p
    BY <1>1
<1> HIDE DEF c, d
<1>3. x = (2 * p) * c + (2 * d + r)
    BY <1>1, <1>2
<1>4. 2 * d + r \in Nat /\ 2 * d + r < 2 * p /\ 2 * p \in Nat \ {0}
    BY <1>1, <1>2
<1>5. x \div (2 * p) = c /\ x % (2 * p) = 2 * d + r
    <2> DEFINE m == 2 * p
               e == 2 * d + r
    <2>1. m \in Nat \ {0} /\ e \in Nat /\ e < m /\ x = m * c + e
        BY <1>3, <1>4
    <2> HIDE DEF m, e
    <2>2. x \div m = c /\ x % m = e
        BY <1>2, <2>1, Division
    <2> QED BY <2>2 DEF m, e
<1> QED BY <1>1, <1>2, <1>5 DEF q, r, c, d

LEMMA PowerValues == Power[0] = 1 /\ Power[4] = 16 /\ Power[8] = 256 /\ Power[16] = IdRange
<1>1. \A n \in 1 .. 16 : Power[n] = 2 * Power[n - 1]
    BY PowerIs DEF Width
<1>2. Power[1] = 2 * Power[0] /\ Power[2] = 2 * Power[1] /\ Power[3] = 2 * Power[2] /\ Power[4] = 2 * Power[3]
    BY <1>1
<1>3. Power[5] = 2 * Power[4] /\ Power[6] = 2 * Power[5] /\ Power[7] = 2 * Power[6] /\ Power[8] = 2 * Power[7]
    BY <1>1
<1>4. Power[9] = 2 * Power[8] /\ Power[10] = 2 * Power[9] /\ Power[11] = 2 * Power[10] /\ Power[12] = 2 * Power[11]
    BY <1>1
<1>5. Power[13] = 2 * Power[12] /\ Power[14] = 2 * Power[13] /\ Power[15] = 2 * Power[14] /\ Power[16] = 2 * Power[15]
    BY <1>1
<1> QED BY <1>2, <1>3, <1>4, <1>5, PowerIs DEF IdRange

---------------------------------------------------------------------------
\* What is taken together with a number of four bits.
LEMMA BothAre == BothBits \in Bits /\ \A i, j \in 0 .. 1 : BothBits[i][j] = IF i = 1 /\ j = 1 THEN 1 ELSE 0
    BY DEF BothBits, Bits

LEMMA AndZero ==
    ASSUME NEW f, ByHalves(f, BothBits)
    PROVE  \A n \in 0 .. Width : \A x \in Nat : f[n][x][0] = 0
<1> DEFINE N == {k \in Nat : k \in 0 .. Width => \A x \in Nat : f[k][x][0] = 0}
<1>1. 0 \in N
    BY DEF ByHalves
<1>2. ASSUME NEW k \in Nat, k \in N PROVE k + 1 \in N
    <2>1. SUFFICES ASSUME k + 1 \in 0 .. Width, NEW x \in Nat PROVE f[k + 1][x][0] = 0
        OBVIOUS
    <2>2. k \in 0 .. Width /\ k + 1 \in 1 .. Width /\ (k + 1) - 1 = k /\ 0 % 2 = 0 /\ 0 \div 2 = 0
        BY <2>1 DEF Width
    <2>3. x \div 2 \in Nat /\ x % 2 \in 0 .. 1
        BY HalfIs
    <2>4. f[k + 1][x][0] = BothBits[x % 2][0] + 2 * f[k][x \div 2][0]
        <3>1. f[k + 1][x][0] = BothBits[x % 2][0 % 2] + 2 * f[(k + 1) - 1][x \div 2][0 \div 2]
            BY <2>2, HalvesStep
        <3> QED BY <2>2, <3>1
    <2>5. f[k][x \div 2][0] = 0
        BY <1>2, <2>2, <2>3
    <2>6. BothBits[x % 2][0] = 0
        BY <2>3, BothAre
    <2> QED BY <2>4, <2>5, <2>6
<1>3. Nat \subseteq N
    <2> HIDE DEF N
    <2> QED BY <1>1, <1>2, SetInduction
<1> QED BY <1>3 DEF Width

\* One bit more of a mask.
Masks(f, n, p) == \A x \in Nat : f[n][x][p - 1] = x % p
OneMore(n, p, m, q) == n \in 0 .. Width - 1 /\ p \in Nat \ {0} /\ m = n + 1 /\ q = 2 * p

LEMMA AndMask ==
    ASSUME NEW f, ByHalves(f, BothBits), NEW n, NEW p, NEW m, NEW q, OneMore(n, p, m, q), Masks(f, n, p)
    PROVE  Masks(f, m, q)
<1> SUFFICES ASSUME NEW x \in Nat PROVE f[m][x][q - 1] = x % q
    BY DEF Masks
<1>1. /\ m \in 1 .. Width /\ m - 1 = n /\ p \in Nat \ {0} /\ q = 2 * p
      /\ q - 1 \in Nat /\ (q - 1) % 2 = 1 /\ (q - 1) \div 2 = p - 1
    BY DEF OneMore, Width
<1>2. x \div 2 \in Nat /\ x % 2 \in 0 .. 1
    BY HalfIs
<1>3. f[m][x][q - 1] = BothBits[x % 2][1] + 2 * f[n][x \div 2][p - 1]
    <2> DEFINE y == q - 1
    <2>1. f[m][x][y] = BothBits[x % 2][y % 2] + 2 * f[m - 1][x \div 2][y \div 2]
        <3>1. y \in Nat /\ m \in 1 .. Width
            BY <1>1
        <3> HIDE DEF y
        <3>2. \A a, b \in Nat : f[m][a][b] = BothBits[a % 2][b % 2] + 2 * f[m - 1][a \div 2][b \div 2]
            BY <3>1 DEF ByHalves
        <3> QED BY <3>1, <3>2
    <2> QED BY <1>1, <2>1
<1>4. BothBits[x % 2][1] = x % 2
    BY <1>2, BothAre
<1>5. f[n][x \div 2][p - 1] = (x \div 2) % p
    BY <1>2 DEF Masks
<1>6. x % q = (x % 2) + 2 * ((x \div 2) % p)
    BY <1>1, BitMore
<1> QED BY <1>3, <1>4, <1>5, <1>6

\* The mask of AppendIntegral keeps four bits.
LEMMA MaskIs == \A x \in Nat : BitAnd(x, 15) = x % 16
<1> DEFINE f == BitByBit(BothBits)
<1>1. ByHalves(f, BothBits)
    BY BothAre, BitByBitIs
<1>2. \A x \in Nat : BitAnd(x, 15) = f[16][x][15]
    BY DEF BitAnd, Width
<1> HIDE DEF f
<1>3. Masks(f, 12, 1)
    <2>1. \A x \in Nat : f[12][x][0] = 0
        BY <1>1, AndZero DEF Width
    <2>2. \A x \in Nat : x % 1 = 0
        OBVIOUS
    <2> QED BY <2>1, <2>2 DEF Masks
<1>4. OneMore(12, 1, 13, 2) /\ OneMore(13, 2, 14, 4) /\ OneMore(14, 4, 15, 8) /\ OneMore(15, 8, 16, 16)
    BY DEF OneMore, Width
<1>5. Masks(f, 13, 2)
    BY <1>1, <1>3, <1>4, AndMask
<1>6. Masks(f, 14, 4)
    BY <1>1, <1>4, <1>5, AndMask
<1>7. Masks(f, 15, 8)
    BY <1>1, <1>4, <1>6, AndMask
<1>8. Masks(f, 16, 16)
    BY <1>1, <1>4, <1>7, AndMask
<1>9. \A x \in Nat : f[16][x][15] = x % 16
    BY <1>8 DEF Masks
<1> QED BY <1>2, <1>9

---------------------------------------------------------------------------
\* What is added bit by bit to a number of eight zeros at its end.
LEMMA EitherAre == EitherBits \in Bits /\ \A i, j \in 0 .. 1 : EitherBits[i][j] = IF i = 1 \/ j = 1 THEN 1 ELSE 0
    BY DEF EitherBits, Bits

Ones(f, n) == \A x \in Nat : x < Power[n] => /\ f[n][0][x] = x
                                             /\ f[n][x][0] = x
                                             /\ f[n][x][Power[n] - 1] = Power[n] - 1

LEMMA OnesMore ==
    ASSUME NEW f, ByHalves(f, EitherBits), NEW n \in Nat, NEW m \in 1 .. Width, m = n + 1,
           Power[n] \in Nat \ {0}, Ones(f, n)
    PROVE  Ones(f, m) /\ Power[m] \in Nat \ {0}
<1> DEFINE p == Power[n]
           q == Power[m]
           o == q - 1
<1>1. m - 1 = n /\ q = 2 * p /\ p \in Nat \ {0} /\ q \in Nat \ {0}
    <2>1. m \in 0 .. Width /\ m # 0 /\ m - 1 = n
        BY DEF Width
    <2> QED BY <2>1, PowerIs
<1>2. ASSUME NEW x \in Nat, x < p PROVE f[n][0][x] = x /\ f[n][x][0] = x /\ f[n][x][p - 1] = p - 1
    BY <1>2 DEF Ones
<1> HIDE DEF p
<1>3. o \in Nat /\ o % 2 = 1 /\ o \div 2 = p - 1 /\ o = 2 * (p - 1) + 1
    BY <1>1
<1> HIDE DEF q, o
<1>4. 0 % 2 = 0 /\ 0 \div 2 = 0
    OBVIOUS
<1>5. \A a, b \in Nat : f[m][a][b] = EitherBits[a % 2][b % 2] + 2 * f[n][a \div 2][b \div 2]
    <2>1. \A a, b \in Nat : f[m][a][b] = EitherBits[a % 2][b % 2] + 2 * f[m - 1][a \div 2][b \div 2]
        BY DEF ByHalves
    <2>2. m - 1 = n
        BY <1>1
    <2> QED BY <2>1, <2>2
<1>6. ASSUME NEW x \in Nat, x < q PROVE f[m][0][x] = x /\ f[m][x][0] = x /\ f[m][x][o] = o
    <2> DEFINE h == x \div 2
               r == x % 2
    <2>1. h \in Nat /\ r \in 0 .. 1 /\ x = 2 * h + r
        BY HalfIs
    <2>2. f[m][0][x] = EitherBits[0 % 2][r] + 2 * f[n][0 \div 2][h]
        BY <1>5
    <2>3. f[m][x][0] = EitherBits[r][0 % 2] + 2 * f[n][h][0 \div 2]
        BY <1>5
    <2>4. f[m][x][o] = EitherBits[r][o % 2] + 2 * f[n][h][o \div 2]
        BY <1>3, <1>5
    <2> HIDE DEF h, r
    <2>5. EitherBits[0][r] = r /\ EitherBits[r][0] = r /\ EitherBits[r][1] = 1
        BY <2>1, EitherAre
    <2>6. h < p
        BY <1>1, <1>6, <2>1
    <2>7. f[n][0][h] = h /\ f[n][h][0] = h /\ f[n][h][p - 1] = p - 1
        BY <1>2, <2>1, <2>6
    <2>8. f[m][0][x] = x /\ f[m][x][0] = x
        BY <1>4, <2>1, <2>2, <2>3, <2>5, <2>7
    <2>9. f[m][x][o] = o
        BY <1>1, <1>3, <2>4, <2>5, <2>7
    <2> QED BY <2>8, <2>9
<1>7. Ones(f, m)
    BY <1>6 DEF Ones, q, o
<1> QED BY <1>1, <1>7 DEF q

LEMMA OnesAll == ASSUME NEW f, ByHalves(f, EitherBits) PROVE \A n \in 0 .. Width : Ones(f, n)
<1> DEFINE N == {k \in Nat : k \in 0 .. Width => Ones(f, k) /\ Power[k] \in Nat \ {0}}
<1>1. 0 \in N
    <2>1. f[0][0][0] = 0 /\ Power[0] = 1 /\ 1 - 1 = 0
        BY PowerIs DEF ByHalves
    <2>2. \A x \in Nat : x < 1 => x = 0
        OBVIOUS
    <2> QED BY <2>1, <2>2 DEF Ones
<1>2. ASSUME NEW k \in Nat, k \in N PROVE k + 1 \in N
    <2>1. SUFFICES ASSUME k + 1 \in 0 .. Width PROVE Ones(f, k + 1) /\ Power[k + 1] \in Nat \ {0}
        OBVIOUS
    <2> DEFINE m == k + 1
    <2>2. k \in 0 .. Width /\ m \in 1 .. Width /\ m = k + 1
        BY <2>1 DEF Width
    <2> HIDE DEF m
    <2>3. Ones(f, m) /\ Power[m] \in Nat \ {0}
        BY <1>2, <2>2, OnesMore
    <2> QED BY <2>3 DEF m
<1>3. Nat \subseteq N
    <2> HIDE DEF N
    <2> QED BY <1>1, <1>2, SetInduction
<1> QED BY <1>3 DEF Width

\* One zero more.
LowBits(f, n, p) == \A a, v \in Nat : f[n][p * a][v] = (v % p) + p * f[8][a][v \div p]

LEMMA LowMore ==
    ASSUME NEW f, ByHalves(f, EitherBits), NEW n, NEW p, NEW m, NEW q, OneMore(n, p, m, q), LowBits(f, n, p)
    PROVE  LowBits(f, m, q)
<1> SUFFICES ASSUME NEW a \in Nat, NEW v \in Nat PROVE f[m][q * a][v] = (v % q) + q * f[8][a][v \div q]
    BY DEF LowBits
<1>1. m \in 1 .. Width /\ m - 1 = n /\ p \in Nat \ {0} /\ q = 2 * p /\ q \in Nat
    BY DEF OneMore, Width
<1> DEFINE x == q * a
           y == p * a
           h == v \div 2
           r == v % 2
           z == f[8][a][h \div p]
<1>2. y \in Nat /\ x = 2 * y
    BY <1>1
<1> HIDE DEF y
<1>3. x \in Nat /\ x % 2 = 0 /\ x \div 2 = y
    BY <1>2
<1> HIDE DEF x
<1>4. h \in Nat /\ r \in 0 .. 1
    BY HalfIs
<1>5. \A b, c \in Nat : f[m][b][c] = EitherBits[b % 2][c % 2] + 2 * f[n][b \div 2][c \div 2]
    BY <1>1 DEF ByHalves
<1>6. f[m][x][v] = EitherBits[0][r] + 2 * f[n][y][h]
    BY <1>3, <1>5
<1>7. v % q = r + 2 * (h % p) /\ v \div q = h \div p
    BY <1>1, BitMore
<1> HIDE DEF h, r
<1>8. EitherBits[0][r] = r
    BY <1>4, EitherAre
<1>9. f[n][y][h] = (h % p) + p * z
    BY <1>4 DEF LowBits, y
<1>10. h % p \in Nat /\ h \div p \in Nat
    BY <1>1, <1>4
<1>11. z \in Nat
    <2>1. 8 \in 0 .. Width
        BY DEF Width
    <2>2. f[8] \in [Nat -> [Nat -> Nat]]
        BY <2>1 DEF ByHalves
    <2> QED BY <1>10, <2>2
<1>12. z = f[8][a][v \div q]
    BY <1>7
<1> HIDE DEF z
<1>13. f[m][x][v] = (v % q) + q * z
    <2> DEFINE d == h % p
    <2>1. f[m][x][v] = r + 2 * (d + p * z) /\ v % q = r + 2 * d /\ d \in Nat
        BY <1>6, <1>7, <1>8, <1>9, <1>10
    <2> HIDE DEF d
    <2> QED BY <1>1, <1>4, <1>11, <2>1
<1> QED BY <1>12, <1>13 DEF x

\* Members of the two ranges, without their bounds in the way.
LEMMA IdsAre == IdRange \in Nat /\ \A x : x \in Ids <=> x \in Nat /\ x < IdRange
<1>1. IdRange \in Nat
    BY DEF IdRange
<1> QED BY <1>1 DEF Ids

LEMMA BytesAre == \A x : x \in Byte <=> x \in Nat /\ x < 256
    BY DEF Byte

\* A byte is added to a number of eight zeros at its end.
LEMMA OrIs ==
    /\ \A x \in Ids : BitOr(0, x) = x
    /\ \A a, w \in Byte : /\ BitOr(256 * a, w) = 256 * a + w
                          /\ BitOr(256 * a, w + IdRange - 256) = w + IdRange - 256
<1> DEFINE f == BitByBit(EitherBits)
<1>1. ByHalves(f, EitherBits)
    BY EitherAre, BitByBitIs
<1>2. \A x, y \in Nat : BitOr(x, y) = f[16][x][y]
    BY DEF BitOr, Width
<1> HIDE DEF f
<1>3. Ones(f, 16) /\ Ones(f, 8)
    BY <1>1, OnesAll DEF Width
<1>4. Power[16] = IdRange /\ Power[8] = 256
    BY PowerValues
<1>5. LowBits(f, 8, 1)
    <2>1. \A a \in Nat : 1 * a = a /\ a % 1 = 0 /\ a \div 1 = a
        OBVIOUS
    <2>2. \A a, v \in Nat : f[8][a][v] \in Nat
        <3>1. 8 \in 0 .. Width
            BY DEF Width
        <3>2. f[8] \in [Nat -> [Nat -> Nat]]
            BY <1>1, <3>1 DEF ByHalves
        <3> QED BY <3>2
    <2>3. \A x \in Nat : 0 + 1 * x = x
        OBVIOUS
    <2> QED BY <2>1, <2>2, <2>3 DEF LowBits
<1>6. OneMore(8, 1, 9, 2) /\ OneMore(9, 2, 10, 4) /\ OneMore(10, 4, 11, 8) /\ OneMore(11, 8, 12, 16)
    BY DEF OneMore, Width
<1>7. OneMore(12, 16, 13, 32) /\ OneMore(13, 32, 14, 64) /\ OneMore(14, 64, 15, 128) /\ OneMore(15, 128, 16, 256)
    BY DEF OneMore, Width
<1>8. LowBits(f, 9, 2)
    BY <1>1, <1>5, <1>6, LowMore
<1>9. LowBits(f, 10, 4)
    BY <1>1, <1>6, <1>8, LowMore
<1>10. LowBits(f, 11, 8)
    BY <1>1, <1>6, <1>9, LowMore
<1>11. LowBits(f, 12, 16)
    BY <1>1, <1>6, <1>10, LowMore
<1>12. LowBits(f, 13, 32)
    BY <1>1, <1>7, <1>11, LowMore
<1>13. LowBits(f, 14, 64)
    BY <1>1, <1>7, <1>12, LowMore
<1>14. LowBits(f, 15, 128)
    BY <1>1, <1>7, <1>13, LowMore
<1>15. LowBits(f, 16, 256)
    BY <1>1, <1>7, <1>14, LowMore
<1>16. \A x \in Ids : BitOr(0, x) = x
    <2>1. \A x \in Ids : x \in Nat /\ x < IdRange
        BY IdsAre
    <2>2. 0 \in Nat
        OBVIOUS
    <2> QED BY <1>2, <1>3, <1>4, <2>1, <2>2 DEF Ones
<1>17. ASSUME NEW a \in Byte, NEW w \in Byte
       PROVE  BitOr(256 * a, w) = 256 * a + w /\ BitOr(256 * a, w + IdRange - 256) = w + IdRange - 256
    <2> DEFINE v == w + IdRange - 256
    <2>1. a \in Nat /\ w \in Nat /\ v \in Nat /\ 256 * a \in Nat /\ a < 256
        BY DEF Byte, IdRange
    <2>2. w % 256 = w /\ w \div 256 = 0 /\ v % 256 = w /\ v \div 256 = 255
        BY DEF Byte, IdRange
    <2> HIDE DEF v
    <2>3. f[8][a][0] = a /\ f[8][a][255] = 255
        BY <1>3, <1>4, <2>1 DEF Ones
    <2>4. f[16][256 * a][w] = w + 256 * a
        <3>1. f[16][256 * a][w] = (w % 256) + 256 * f[8][a][w \div 256]
            BY <1>15, <2>1 DEF LowBits
        <3> QED BY <2>2, <2>3, <3>1
    <2>5. f[16][256 * a][v] = w + 256 * 255
        <3>1. f[16][256 * a][v] = (v % 256) + 256 * f[8][a][v \div 256]
            BY <1>15, <2>1 DEF LowBits
        <3> QED BY <2>2, <2>3, <3>1
    <2>6. v = w + 256 * 255
        BY <2>1 DEF v, IdRange
    <2> QED BY <1>2, <2>1, <2>4, <2>5, <2>6 DEF v
<1> QED BY <1>16, <1>17

---------------------------------------------------------------------------
\* What is read of two bytes.
LEMMA ReadTwo ==
    ASSUME NEW s, Len(s) \in Nat, Len(s) >= 2, s[1] \in Byte, s[2] \in Byte
    PROVE  ReadIntegral(s) = IF s[2] < 128 THEN 256 * s[1] + s[2] ELSE s[2] + IdRange - 256
<1> DEFINE part(k) == ShiftLeft(Widened(s[k]), 8 * (Size - k))
           Is(g) == g = [k \in 0 .. Size |-> IF k = 0 THEN 0
                                             ELSE IF k > Len(s) THEN g[k - 1]
                                             ELSE BitOr(g[k - 1], part(k))]
           a == BitOr(0, part(1))
           b == BitOr(a, part(2))
           h == [k \in 0 .. Size |-> IF k = 0 THEN 0 ELSE IF k = 1 THEN a ELSE b]
<1>1. Is(h)
    <2> HIDE DEF part, a, b
    <2>1. ASSUME NEW k \in 0 .. Size
          PROVE  h[k] = IF k = 0 THEN 0 ELSE IF k > Len(s) THEN h[k - 1] ELSE BitOr(h[k - 1], part(k))
        <3>1. k \in {0, 1, 2}
            BY DEF Size
        <3>2. CASE k = 0
            BY <3>2
        <3>3. CASE k = 1
            <4>1. h[1] = a /\ h[0] = 0 /\ ~(1 > Len(s)) /\ 1 - 1 = 0
                BY DEF Size
            <4>2. a = BitOr(0, part(1))
                BY DEF a
            <4> QED BY <3>3, <4>1, <4>2
        <3>4. CASE k = 2
            <4>1. h[2] = b /\ h[1] = a /\ ~(2 > Len(s)) /\ 2 - 1 = 1
                BY DEF Size
            <4>2. b = BitOr(a, part(2))
                BY DEF b
            <4> QED BY <3>4, <4>1, <4>2
        <3> QED BY <3>1, <3>2, <3>3, <3>4
    <2> QED BY <2>1
<1> DEFINE g == CHOOSE g : Is(g)
<1>2. Is(g)
    <2> HIDE DEF Is, h
    <2> QED BY <1>1
<1>3. ReadIntegral(s) = g[Size]
    BY DEF ReadIntegral
<1> HIDE DEF g, part
<1>4. g[0] = 0
    BY <1>2 DEF Size
<1>5. g[1] = BitOr(0, part(1))
    <2>1. 1 \in 0 .. Size /\ 1 # 0 /\ ~(1 > Len(s)) /\ 1 - 1 = 0
        BY DEF Size
    <2>2. g[1] = BitOr(g[1 - 1], part(1))
        BY <1>2, <2>1
    <2> QED BY <1>4, <2>1, <2>2
<1>6. g[2] = BitOr(g[1], part(2))
    <2>1. 2 \in 0 .. Size /\ 2 # 0 /\ ~(2 > Len(s)) /\ 2 - 1 = 1
        BY DEF Size
    <2>2. g[2] = BitOr(g[2 - 1], part(2))
        BY <1>2, <2>1
    <2> QED BY <2>1, <2>2
<1> HIDE DEF Is
<1>7. part(1) = 256 * s[1] /\ part(2) = Widened(s[2])
    <2>1. part(1) = ShiftLeft(Widened(s[1]), 8) /\ part(2) = ShiftLeft(Widened(s[2]), 0)
        BY DEF part, Size
    <2>2. \A x : ShiftLeft(x, 8) = (x * 256) % IdRange /\ ShiftLeft(x, 0) = (x * 1) % IdRange
        BY PowerValues DEF ShiftLeft
    <2>3. ASSUME NEW x \in Byte
          PROVE  Widened(x) \in Ids /\ (Widened(x) * 256) % IdRange = 256 * x
        <3> DEFINE R == IdRange
                   y == Widened(x)
        <3>1. x \in Nat /\ x < 256
            BY DEF Byte
        <3>2. R = 65536
            BY DEF IdRange
        <3>3. y = IF x < 128 THEN x ELSE x + R - 256
            BY DEF Widened
        <3> HIDE DEF R, y
        <3>4. y \in Nat /\ y < R
            BY <3>1, <3>2, <3>3
        <3>5. R \in Nat \ {0} /\ 256 * x \in Nat /\ 256 * x < R /\ y * 256 \in Nat
            BY <3>1, <3>2, <3>4
        <3>6. CASE x < 128
            <4> DEFINE z == y * 256
                       d == 256 * x
            <4>1. z = R * 0 + d /\ z \in Nat /\ d \in Nat /\ d < R /\ 0 \in Nat
                BY <3>1, <3>2, <3>3, <3>5, <3>6
            <4> HIDE DEF z, d
            <4>2. z % R = d
                <5>1. R \in Nat \ {0}
                    BY <3>5
                <5> QED BY <4>1, <5>1, Division
            <4> QED BY <3>4, <4>2, IdsAre DEF R, y, z, d
        <3>7. CASE ~(x < 128)
            <4> DEFINE z == y * 256
                       d == 256 * x
            <4>1. z = R * 255 + d /\ z \in Nat /\ d \in Nat /\ d < R /\ 255 \in Nat
                BY <3>1, <3>2, <3>3, <3>5, <3>7
            <4> HIDE DEF z, d
            <4>2. z % R = d
                <5>1. R \in Nat \ {0}
                    BY <3>5
                <5> QED BY <4>1, <5>1, Division
            <4> QED BY <3>4, <4>2, IdsAre DEF R, y, z, d
        <3> QED BY <3>6, <3>7
    <2>4. ASSUME NEW x \in Ids PROVE (x * 1) % IdRange = x
        BY IdsAre
    <2>5. (Widened(s[1]) * 256) % IdRange = 256 * s[1]
        BY <2>3
    <2>6. (Widened(s[2]) * 1) % IdRange = Widened(s[2])
        BY <2>3, <2>4
    <2> QED BY <2>1, <2>2, <2>5, <2>6
<1>8. 256 * s[1] \in Ids
    <2> DEFINE c == s[1]
    <2>1. c \in Nat /\ c < 256
        BY BytesAre
    <2> HIDE DEF c
    <2>2. 256 * c \in Nat /\ 256 * c < IdRange
        BY <2>1 DEF IdRange
    <2> QED BY <2>2, IdsAre DEF c
<1>9. g[1] = 256 * s[1]
    BY <1>5, <1>7, <1>8, OrIs
<1>10. ReadIntegral(s) = BitOr(256 * s[1], Widened(s[2]))
    BY <1>3, <1>6, <1>7, <1>9 DEF Size
<1>11. CASE s[2] < 128
    <2>1. Widened(s[2]) = s[2]
        BY <1>11 DEF Widened
    <2> QED BY <1>10, <1>11, <2>1, OrIs
<1>12. CASE ~(s[2] < 128)
    <2>1. Widened(s[2]) = s[2] + IdRange - 256
        BY <1>12 DEF Widened
    <2> QED BY <1>10, <1>12, <2>1, OrIs
<1> QED BY <1>11, <1>12

---------------------------------------------------------------------------
(* Packets.                                                                *)

\* The elements of which bytes and words are spelled.
LEMMA Spellings ==
    /\ Byte \subseteq Elements /\ {Octet, NetAscii, UpperOctet, OtherMode, DefaultText} \subseteq Elements
    /\ {NUL, LF, CR} \subseteq Elements /\ {NUL, LF, CR} \subseteq Byte
    /\ {Octet, NetAscii, UpperOctet, OtherMode, DefaultText} \cap Byte = {}
    BY DEF Elements, Byte, NUL, LF, CR, Octet, NetAscii, UpperOctet, OtherMode, DefaultText

\* The beginning and the end of a sequence.
LEMMA Firsts ==
    ASSUME NEW A, NEW s \in Seq(A), NEW n \in 0 .. Len(s)
    PROVE  /\ SubSeq(s, 1, n) \in Seq(A) /\ Len(SubSeq(s, 1, n)) = n
           /\ \A i \in 1 .. n : SubSeq(s, 1, n)[i] = s[i]
<1>1. Len(s) \in Nat /\ \A i \in 1 .. n : s[i] \in A
    BY LenProperties, ElementOfSeq
<1>2. n \in Int /\ 1 \in Int
    BY <1>1
<1>3. /\ SubSeq(s, 1, n) \in Seq(A) /\ Len(SubSeq(s, 1, n)) = IF 1 <= n THEN n - 1 + 1 ELSE 0
      /\ \A i \in 1 .. n - 1 + 1 : SubSeq(s, 1, n)[i] = s[1 + i - 1]
    BY <1>1, <1>2, SubSeqProperties
<1>4. n - 1 + 1 = n /\ (~(1 <= n) => n = 0)
    BY <1>1
<1>5. ASSUME NEW i \in 1 .. n PROVE SubSeq(s, 1, n)[i] = s[i]
    <2>1. i \in 1 .. n - 1 + 1 /\ 1 + i - 1 = i
        BY <1>1
    <2> QED BY <1>3, <2>1
<1> QED BY <1>3, <1>4, <1>5

LEMMA Lasts ==
    ASSUME NEW A, NEW s \in Seq(A), NEW m \in 1 .. Len(s) + 1
    PROVE  /\ SubSeq(s, m, Len(s)) \in Seq(A) /\ Len(SubSeq(s, m, Len(s))) = Len(s) - m + 1
           /\ \A i \in 1 .. Len(s) - m + 1 : SubSeq(s, m, Len(s))[i] = s[m + i - 1]
<1> DEFINE L == Len(s)
<1>1. L \in Nat /\ \A i \in 1 .. L : s[i] \in A
    BY LenProperties, ElementOfSeq
<1> HIDE DEF L
<1>2. L \in Int /\ m \in Int /\ \A i \in m .. L : s[i] \in A
    BY <1>1 DEF L
<1>3. /\ SubSeq(s, m, L) \in Seq(A) /\ Len(SubSeq(s, m, L)) = IF m <= L THEN L - m + 1 ELSE 0
      /\ \A i \in 1 .. L - m + 1 : SubSeq(s, m, L)[i] = s[m + i - 1]
    BY <1>2, SubSeqProperties
<1>4. m <= L + 1 /\ (~(m <= L) => L - m + 1 = 0)
    BY <1>1, <1>2 DEF L
<1> QED BY <1>3, <1>4 DEF L

\* A sequence of two and another, cut after k elements.
LEMMA CutAfter ==
    ASSUME NEW A, NEW x \in Seq(A), Len(x) = 2, NEW y \in Seq(A), NEW k \in 2 .. Len(y) + 2
    PROVE  LET b == SubSeq(x \o y, 1, k)
           IN  /\ b \in Seq(A) /\ Len(b) = k /\ b[1] = x[1] /\ b[2] = x[2]
               /\ SubSeq(b, 3, Len(b)) = SubSeq(y, 1, k - 2)
<1> DEFINE w == x \o y
           b == SubSeq(w, 1, k)
           c == SubSeq(b, 3, Len(b))
           d == SubSeq(y, 1, k - 2)
           l == Len(y)
<1>1. l \in Nat
    BY LenProperties
<1>2. /\ w \in Seq(A) /\ Len(w) = 2 + l
      /\ \A i \in 1 .. 2 + l : w[i] = IF i <= 2 THEN x[i] ELSE y[i - 2]
    <2>1. /\ w \in Seq(A) /\ Len(w) = Len(x) + l
          /\ \A i \in 1 .. Len(x) + l : w[i] = IF i <= Len(x) THEN x[i] ELSE y[i - Len(x)]
        BY ConcatProperties
    <2> HIDE DEF w, l
    <2> QED BY <2>1
<1> HIDE DEF w
<1>3. b \in Seq(A) /\ Len(b) = k /\ \A i \in 1 .. k : b[i] = w[i]
    <2>1. k \in 0 .. Len(w)
        BY <1>1, <1>2
    <2> QED BY <1>2, <2>1, Firsts
<1> HIDE DEF b
<1>4. b[1] = x[1] /\ b[2] = x[2]
    <2>1. 1 \in 1 .. k /\ 2 \in 1 .. k /\ 1 \in 1 .. 2 + l /\ 2 \in 1 .. 2 + l
        BY <1>1
    <2> QED BY <1>2, <1>3, <2>1
<1>5. c \in Seq(A) /\ Len(c) = k - 2 /\ \A i \in 1 .. k - 2 : c[i] = b[3 + i - 1]
    <2>1. 3 \in 1 .. Len(b) + 1 /\ Len(b) - 3 + 1 = k - 2
        BY <1>1, <1>3
    <2> QED BY <1>3, <2>1, Lasts
<1>6. d \in Seq(A) /\ Len(d) = k - 2 /\ \A i \in 1 .. k - 2 : d[i] = y[i]
    <2>1. k - 2 \in 0 .. Len(y)
        BY <1>1
    <2> QED BY <2>1, Firsts
<1> HIDE DEF c, d
<1>7. ASSUME NEW i \in 1 .. k - 2 PROVE c[i] = d[i]
    <2>1. 3 + i - 1 = i + 2 /\ i + 2 \in 1 .. k /\ i + 2 \in 1 .. 2 + l /\ ~(i + 2 <= 2) /\ (i + 2) - 2 = i
        BY <1>1
    <2>2. c[i] = b[i + 2]
        BY <1>5, <2>1
    <2>3. b[i + 2] = w[i + 2]
        BY <1>3, <2>1
    <2>4. w[i + 2] = y[i]
        BY <1>2, <2>1
    <2> QED BY <1>6, <2>2, <2>3, <2>4
<1>8. c = d
    BY <1>5, <1>6, <1>7, SeqEqual
<1> QED BY <1>3, <1>4, <1>8 DEF b, c, d, w

---------------------------------------------------------------------------
\* The two bytes of a number.
Kept(who) == IF who = "this" THEN 16 ELSE 256

LEMMA NumberIs ==
    ASSUME NEW who \in {"this", "other"}, NEW v \in Ids
    PROVE  /\ Number(who, v) \in Seq(Byte) /\ Len(Number(who, v)) = 2
           /\ Number(who, v)[1] = (v \div 256) % Kept(who)
           /\ Number(who, v)[2] = v % Kept(who)
<1> DEFINE h == v \div 256
<1>1. v \in Nat
    BY IdsAre
<1>2. h \in Nat /\ h % 16 \in Nat /\ h % 16 < 16 /\ v % 16 \in Nat /\ v % 16 < 16
      /\ h % 256 \in Nat /\ h % 256 < 256 /\ v % 256 \in Nat /\ v % 256 < 256
    BY <1>1
<1>3. ShiftRight(v, 8 * (Size - 1)) = h /\ ShiftRight(v, 8 * (Size - 2)) = v
    <2>1. ShiftRight(v, 8 * (Size - 1)) = ShiftRight(v, 8) /\ ShiftRight(v, 8 * (Size - 2)) = ShiftRight(v, 0)
        BY DEF Size
    <2>2. v \div 1 = v
        BY <1>1
    <2> QED BY <2>1, <2>2, PowerValues DEF ShiftRight
<1> HIDE DEF h
<1>4. CASE who = "this"
    <2> DEFINE e(k) == BitAnd(ShiftRight(v, 8 * (Size - k)), 15)
    <2>1. e(1) = h % 16 /\ e(2) = v % 16
        BY <1>1, <1>2, <1>3, MaskIs
    <2>2. AppendIntegral(v) = [k \in 1 .. 2 |-> e(k)]
        BY DEF AppendIntegral, Size
    <2>3. \A k \in 1 .. 2 : e(k) \in Byte
        <3>1. e(1) \in Byte /\ e(2) \in Byte
            BY <1>2, <2>1, BytesAre
        <3>2. \A k \in 1 .. 2 : k = 1 \/ k = 2
            OBVIOUS
        <3> HIDE DEF e
        <3> QED BY <3>1, <3>2
    <2> HIDE DEF e
    <2>4. AppendIntegral(v) \in Seq(Byte) /\ Len(AppendIntegral(v)) = 2
          /\ AppendIntegral(v)[1] = e(1) /\ AppendIntegral(v)[2] = e(2)
        BY <2>2, <2>3
    <2> QED BY <1>4, <2>1, <2>4 DEF Number, Kept, h
<1>5. CASE who # "this"
    <2> DEFINE e(k) == ShiftRight(v, 8 * (Size - k)) % 256
    <2>1. e(1) = h % 256 /\ e(2) = v % 256
        BY <1>3
    <2>2. NetworkOrder(v) = [k \in 1 .. 2 |-> e(k)]
        BY DEF NetworkOrder, Size
    <2>3. \A k \in 1 .. 2 : e(k) \in Byte
        <3>1. e(1) \in Byte /\ e(2) \in Byte
            BY <1>2, <2>1, BytesAre
        <3>2. \A k \in 1 .. 2 : k = 1 \/ k = 2
            OBVIOUS
        <3> HIDE DEF e
        <3> QED BY <3>1, <3>2
    <2> HIDE DEF e
    <2>4. NetworkOrder(v) \in Seq(Byte) /\ Len(NetworkOrder(v)) = 2
          /\ NetworkOrder(v)[1] = e(1) /\ NetworkOrder(v)[2] = e(2)
        BY <2>2, <2>3
    <2> QED BY <1>5, <2>1, <2>4 DEF Number, Kept, h
<1> QED BY <1>4, <1>5

\* What is read of them.
Reads(who, v) == IF who = "this" THEN WireId(v)
                 ELSE IF v % 256 < 128 THEN v ELSE (v % 256) + IdRange - 256

LEMMA NumberReads ==
    ASSUME NEW who \in {"this", "other"}, NEW v \in Ids,
           NEW s, Len(s) \in Nat, Len(s) >= 2, s[1] = Number(who, v)[1], s[2] = Number(who, v)[2]
    PROVE  ReadIntegral(s) = Reads(who, v) /\ Reads(who, v) \in Ids
<1> DEFINE R == IdRange
           h == v \div 256
           l == v % 256
           n == v % 16
           g == h % 16
<1>1. v \in Nat /\ v < R /\ R = 65536
    BY IdsAre DEF IdRange
<1> HIDE DEF R
<1>2. v = 256 * h + l /\ h \in Nat /\ h < 256 /\ l \in Nat /\ l < 256
    BY <1>1
<1>3. n \in Nat /\ n < 16 /\ g \in Nat /\ g < 16
    BY <1>1, <1>2
<1> HIDE DEF h, l, n
<1>4. h % 256 = h
    BY <1>2
<1>5. CASE who = "this"
    <2>1. s[1] = g /\ s[2] = n
        BY <1>5, NumberIs DEF Kept, h, n
    <2>2. s[1] \in Byte /\ s[2] \in Byte /\ s[2] < 128
        BY <1>3, <2>1, BytesAre
    <2>3. ReadIntegral(s) = 256 * s[1] + s[2]
        BY <2>2, ReadTwo
    <2>4. Reads(who, v) = 256 * g + n
        BY <1>5 DEF Reads, WireId, h, n
    <2> HIDE DEF g
    <2>5. 256 * g + n \in Nat /\ 256 * g + n < R
        BY <1>1, <1>3
    <2> QED BY <2>1, <2>3, <2>4, <2>5, IdsAre DEF R
<1> HIDE DEF g
<1>6. CASE who # "this"
    <2>1. s[1] = h /\ s[2] = l
        BY <1>4, <1>6, NumberIs DEF Kept, h, l
    <2>2. s[1] \in Byte /\ s[2] \in Byte
        BY <1>2, <2>1, BytesAre
    <2>3. ReadIntegral(s) = IF l < 128 THEN 256 * h + l ELSE l + R - 256
        BY <2>1, <2>2, ReadTwo DEF R
    <2>4. Reads(who, v) = IF l < 128 THEN v ELSE l + R - 256
        BY <1>6 DEF Reads, l, R
    <2>5. l + R - 256 \in Nat /\ l + R - 256 < R
        BY <1>1, <1>2
    <2> QED BY <1>1, <1>2, <2>3, <2>4, <2>5, IdsAre DEF R
<1> QED BY <1>5, <1>6

---------------------------------------------------------------------------
\* Zeros in a text.
ZeroFree(s) == \A k \in 1 .. Len(s) : s[k] # NUL
NoReturn(s) == \A k \in 1 .. Len(s) : s[k] # CR

LEMMA ConcatFree ==
    ASSUME NEW A, NEW s \in Seq(A), NEW t \in Seq(A)
    PROVE  ZeroFree(s \o t) <=> ZeroFree(s) /\ ZeroFree(t)
<1> DEFINE w == s \o t
           m == Len(s)
           n == Len(t)
<1>1. m \in Nat /\ n \in Nat
    BY LenProperties
<1>2. Len(w) = m + n /\ \A i \in 1 .. m + n : w[i] = IF i <= m THEN s[i] ELSE t[i - m]
    BY ConcatProperties
<1> HIDE DEF w
<1>3. ASSUME ZeroFree(w) PROVE ZeroFree(s) /\ ZeroFree(t)
    <2>1. ASSUME NEW k \in 1 .. m PROVE s[k] # NUL
        <3>1. k \in 1 .. m + n /\ k <= m
            BY <1>1
        <3> QED BY <1>2, <1>3, <3>1 DEF ZeroFree
    <2>2. ASSUME NEW k \in 1 .. n PROVE t[k] # NUL
        <3> DEFINE j == k + m
        <3>1. j \in 1 .. m + n /\ ~(j <= m) /\ j - m = k
            BY <1>1
        <3> HIDE DEF j
        <3> QED BY <1>2, <1>3, <3>1 DEF ZeroFree
    <2> QED BY <2>1, <2>2 DEF ZeroFree
<1>4. ASSUME ZeroFree(s), ZeroFree(t), NEW k \in 1 .. m + n PROVE w[k] # NUL
    <2>1. CASE k <= m
        <3>1. k \in 1 .. m
            BY <1>1, <2>1
        <3> QED BY <1>2, <1>4, <2>1, <3>1 DEF ZeroFree
    <2>2. CASE ~(k <= m)
        <3>1. k - m \in 1 .. n
            BY <1>1, <2>2
        <3> QED BY <1>2, <1>4, <2>2, <3>1 DEF ZeroFree
    <2> QED BY <2>1, <2>2
<1>5. ZeroFree(s) /\ ZeroFree(t) => ZeroFree(w)
    BY <1>2, <1>4 DEF ZeroFree
<1> QED BY <1>3, <1>5 DEF w

\* What makes a zero of the encoding: a zero, or a CR.
LEMMA EncodedFree ==
    ASSUME NEW A, {NUL, LF, CR} \subseteq A, NEW c \in A
    PROVE  ZeroFree(Encoded(c)) <=> c \notin {NUL, CR}
<1>1. NUL # LF /\ NUL # CR /\ LF # CR
    BY DEF NUL, LF, CR
<1>2. CASE c = LF
    <2>1. Encoded(c) = <<CR, LF>>
        BY <1>2, EncodedType
    <2> QED BY <1>1, <1>2, <2>1 DEF ZeroFree
<1>3. CASE c = CR
    BY <1>1, <1>3, EncodedType DEF ZeroFree
<1>4. CASE c \notin {CR, LF}
    <2>1. Encoded(c) = <<c>>
        BY <1>4, EncodedType
    <2> QED BY <1>4, <2>1 DEF ZeroFree
<1> QED BY <1>2, <1>3, <1>4

\* The encoding has a zero exactly if the text has one, or a CR.
LEMMA ZerosOfEncoding ==
    ASSUME NEW A, {NUL, LF, CR} \subseteq A
    PROVE  \A s \in Seq(A) : ZeroFree(ToNetASCII(s)) <=> ZeroFree(s) /\ NoReturn(s)
<1> DEFINE S == {s \in Seq(A) : ZeroFree(ToNetASCII(s)) <=> ZeroFree(s) /\ NoReturn(s)}
<1>1. <<>> \in S
    <2>1. <<>> \in Seq(A) /\ Len(<<>>) = 0
        BY EmptySeq
    <2>2. ZeroFree(<<>>) /\ NoReturn(<<>>)
        BY <2>1 DEF ZeroFree, NoReturn
    <2> QED BY <2>1, <2>2, ToEmpty
<1>2. ASSUME NEW s \in Seq(A), NEW c \in A, s \in S PROVE Append(s, c) \in S
    <2> DEFINE t == Append(s, c)
               n == Len(s)
    <2>1. /\ t \in Seq(A) /\ Len(t) = n + 1 /\ t[n + 1] = c /\ n \in Nat
          /\ \A k \in 1 .. n : t[k] = s[k]
        BY AppendProperties, LenProperties
    <2>2. ToNetASCII(t) = ToNetASCII(s) \o Encoded(c)
        BY ToAppend
    <2> HIDE DEF t
    <2>3. ToNetASCII(s) \in Seq(A) /\ Encoded(c) \in Seq(A)
        BY ToType, EncodedType
    <2>4. ZeroFree(ToNetASCII(t)) <=> ZeroFree(s) /\ NoReturn(s) /\ c \notin {NUL, CR}
        BY <1>2, <2>2, <2>3, ConcatFree, EncodedFree
    <2>5. \A k \in 1 .. n + 1 : k \in 1 .. n \/ k = n + 1
        BY <2>1
    <2>6. \A k \in 1 .. n : k \in 1 .. n + 1
        BY <2>1
    <2>7. n + 1 \in 1 .. n + 1
        BY <2>1
    <2>8. ZeroFree(t) <=> ZeroFree(s) /\ c # NUL
        BY <2>1, <2>5, <2>6, <2>7 DEF ZeroFree
    <2>9. NoReturn(t) <=> NoReturn(s) /\ c # CR
        BY <2>1, <2>5, <2>6, <2>7 DEF NoReturn
    <2>10. ZeroFree(ToNetASCII(t)) <=> ZeroFree(t) /\ NoReturn(t)
        BY <2>4, <2>8, <2>9
    <2> QED BY <2>1, <2>10 DEF t
<1>3. Seq(A) \subseteq S
    <2> HIDE DEF S
    <2> QED BY <1>1, <1>2, SeqInduction
<1> QED BY <1>3

---------------------------------------------------------------------------
\* The first zero.
IsFirstZero(s, n) ==
    /\ n \in 1 .. Len(s) + 1
    /\ \A k \in 1 .. n - 1 : s[k] # NUL
    /\ n <= Len(s) => s[n] = NUL

LEMMA FirstZeroIs == ASSUME NEW A, NEW s \in Seq(A) PROVE IsFirstZero(s, FirstZero(s))
<1> DEFINE L == Len(s)
           z == FirstZero(s)
<1>1. L \in Nat /\ DOMAIN s = 1 .. L
    BY LenProperties
<1>2. Zeros(s) \in SUBSET Nat /\ Zeros(s) # {}
    BY <1>1 DEF Zeros
<1>3. \E k \in Zeros(s) : \A j \in Zeros(s) : k <= j
    BY <1>2, Smallest
<1>4. z \in Zeros(s) /\ \A j \in Zeros(s) : z <= j
    BY <1>3 DEF FirstZero
<1> HIDE DEF z
<1>5. z \in 1 .. L + 1 /\ (z <= L => s[z] = NUL)
    BY <1>1, <1>4 DEF Zeros
<1>6. ASSUME NEW k \in 1 .. z - 1 PROVE s[k] # NUL
    <2>1. k \in 1 .. L /\ ~(z <= k)
        BY <1>1, <1>5
    <2> QED BY <1>1, <1>4, <2>1 DEF Zeros
<1> QED BY <1>5, <1>6 DEF IsFirstZero, z

LEMMA OneFirstZero ==
    ASSUME NEW A, NEW s \in Seq(A), NEW n, IsFirstZero(s, n) PROVE FirstZero(s) = n
<1> DEFINE L == Len(s)
           z == FirstZero(s)
<1>1. L \in Nat
    BY LenProperties
<1>2. /\ z \in 1 .. L + 1 /\ (\A k \in 1 .. z - 1 : s[k] # NUL) /\ (z <= L => s[z] = NUL)
      /\ n \in 1 .. L + 1 /\ (\A k \in 1 .. n - 1 : s[k] # NUL) /\ (n <= L => s[n] = NUL)
    BY FirstZeroIs DEF IsFirstZero
<1> HIDE DEF z, L
<1>3. ~(z < n)
    <2> SUFFICES ASSUME z < n PROVE FALSE
        OBVIOUS
    <2>1. z \in 1 .. n - 1 /\ z <= L
        BY <1>1, <1>2
    <2> QED BY <1>2, <2>1
<1>4. ~(n < z)
    <2> SUFFICES ASSUME n < z PROVE FALSE
        OBVIOUS
    <2>1. n \in 1 .. z - 1 /\ n <= L
        BY <1>1, <1>2
    <2> QED BY <1>2, <2>1
<1>5. z = n
    BY <1>1, <1>2, <1>3, <1>4
<1> QED BY <1>5 DEF z

\* The text before a zero, and what comes after it.
LEMMA AroundZero ==
    ASSUME NEW A, NEW s \in Seq(A), NEW n, IsFirstZero(s, n), NEW m, m = n - 1
    PROVE  /\ ReadUntilZero(s) = SubSeq(s, 1, m)
           /\ ReadUntilZero(s) \in Seq(A) /\ Len(ReadUntilZero(s)) = m
           /\ \A i \in 1 .. m : ReadUntilZero(s)[i] = s[i]
           /\ AfterZero(s) \in Seq(A)
           /\ Len(AfterZero(s)) = IF n <= Len(s) THEN Len(s) - n ELSE 0
           /\ \A i \in 1 .. Len(s) - n : AfterZero(s)[i] = s[n + i]
<1> DEFINE L == Len(s)
<1>1. L \in Nat /\ n \in 1 .. L + 1
    BY LenProperties DEF IsFirstZero
<1>2. FirstZero(s) = n
    BY OneFirstZero
<1>3. m \in 0 .. L
    BY <1>1
<1>4. ReadUntilZero(s) = SubSeq(s, 1, m)
    BY <1>2 DEF ReadUntilZero
<1>5. AfterZero(s) = SubSeq(s, n + 1, L)
    BY <1>2 DEF AfterZero
<1>6. CASE n <= L
    <2>1. n + 1 \in 1 .. L + 1 /\ L - (n + 1) + 1 = L - n
        BY <1>1, <1>6
    <2>2. /\ SubSeq(s, n + 1, L) \in Seq(A) /\ Len(SubSeq(s, n + 1, L)) = L - n
          /\ \A i \in 1 .. L - n : SubSeq(s, n + 1, L)[i] = s[(n + 1) + i - 1]
        BY <2>1, Lasts
    <2>3. \A i \in 1 .. L - n : (n + 1) + i - 1 = n + i
        BY <1>1
    <2> QED BY <1>3, <1>4, <1>5, <1>6, <2>2, <2>3, Firsts
<1>7. CASE ~(n <= L)
    <2>1. SubSeq(s, n + 1, L) = <<>>
        BY <1>1, <1>7, SubSeqEmpty
    <2>2. <<>> \in Seq(A) /\ Len(<<>>) = 0
        BY EmptySeq
    <2>3. \A i \in 1 .. L - n : FALSE
        BY <1>1, <1>7
    <2>4. /\ SubSeq(s, 1, m) \in Seq(A) /\ Len(SubSeq(s, 1, m)) = m
          /\ \A i \in 1 .. m : SubSeq(s, 1, m)[i] = s[i]
        BY <1>3, Firsts
    <2>5. AfterZero(s) \in Seq(A) /\ Len(AfterZero(s)) = IF n <= L THEN L - n ELSE 0
        BY <1>5, <1>7, <2>1, <2>2
    <2> QED BY <1>4, <2>3, <2>4, <2>5
<1> QED BY <1>6, <1>7

---------------------------------------------------------------------------
\* The end of a request, cut after k elements.  A zero in the name or a missing mode
\* makes it one without a mode.
Modes == {Octet, NetAscii, UpperOctet, OtherMode}
RequestText(e, mode) == e \o <<NUL, mode, NUL>>

LEMMA ModesAre ==
    /\ \A m \in Modes : m \in Elements /\ m \notin Byte /\ m # NUL
    /\ \A x : Lower(x) \in {Octet, NetAscii} => x \in Modes
    BY Spellings DEF Modes, Lower, Octet, NetAscii, UpperOctet, OtherMode

LEMMA RequestTextIs ==
    ASSUME NEW e \in Seq(Byte), NEW mode \in Modes, NEW k \in 0 .. Len(e) + 3
    PROVE  LET t == SubSeq(RequestText(e, mode), 1, k)
           IN  /\ RequestText(e, mode) \in Seq(Elements) /\ Len(RequestText(e, mode)) = Len(e) + 3
               /\ t \in Seq(Elements) /\ Len(t) = k
               /\ \A i \in 1 .. k : /\ i <= Len(e) => t[i] = e[i]
                                    /\ i = Len(e) + 1 => t[i] = NUL
                                    /\ i = Len(e) + 2 => t[i] = mode
                                    /\ i = Len(e) + 3 => t[i] = NUL
<1> DEFINE n == Len(e)
           x == <<NUL, mode, NUL>>
           w == e \o x
           t == SubSeq(w, 1, k)
<1>1. mode \in Elements /\ NUL \in Elements
    BY ModesAre, Spellings
<1>2. x \in Seq(Elements) /\ Len(x) = 3 /\ x[1] = NUL /\ x[2] = mode /\ x[3] = NUL
    BY <1>1
<1>3. e \in Seq(Elements) /\ n \in Nat
    <2>1. Seq(Byte) \subseteq Seq(Elements)
        BY Spellings
    <2> QED BY <2>1, LenProperties
<1> HIDE DEF x
<1>4. w \in Seq(Elements) /\ Len(w) = n + 3 /\ \A i \in 1 .. n + 3 : w[i] = IF i <= n THEN e[i] ELSE x[i - n]
    <2>1. /\ w \in Seq(Elements) /\ Len(w) = n + Len(x)
          /\ \A i \in 1 .. n + Len(x) : w[i] = IF i <= n THEN e[i] ELSE x[i - n]
        BY <1>2, <1>3, ConcatProperties
    <2> HIDE DEF w, n
    <2> QED BY <1>2, <2>1
<1> HIDE DEF w
<1>5. t \in Seq(Elements) /\ Len(t) = k /\ \A i \in 1 .. k : t[i] = w[i]
    BY <1>3, <1>4, Firsts
<1> HIDE DEF t, n
<1>6. ASSUME NEW i \in 1 .. k PROVE /\ i <= n => t[i] = e[i]
                                    /\ i = n + 1 => t[i] = NUL
                                    /\ i = n + 2 => t[i] = mode
                                    /\ i = n + 3 => t[i] = NUL
    <2>1. i \in 1 .. n + 3
        BY <1>3 DEF n
    <2>2. t[i] = IF i <= n THEN e[i] ELSE x[i - n]
        BY <1>4, <1>5, <2>1
    <2>3. ASSUME NEW j \in 1 .. 3, i = n + j PROVE ~(i <= n) /\ i - n = j
        BY <1>3, <2>3
    <2>4. i <= n => t[i] = e[i]
        BY <2>2
    <2>5. i = n + 1 => t[i] = NUL
        BY <1>2, <2>2, <2>3
    <2>6. i = n + 2 => t[i] = mode
        BY <1>2, <2>2, <2>3
    <2>7. i = n + 3 => t[i] = NUL
        BY <1>2, <2>2, <2>3
    <2> QED BY <2>4, <2>5, <2>6, <2>7
<1> QED BY <1>4, <1>5, <1>6 DEF RequestText, w, x, t, n

\* One that has its mode, and one that has not.
LEMMA RequestWhole ==
    ASSUME NEW op, NEW e \in Seq(Byte), NEW mode \in Modes, NEW k \in 0 .. Len(e) + 3,
           ZeroFree(e), k >= Len(e) + 2
    PROVE  ParseRequest(op, SubSeq(RequestText(e, mode), 1, k)) =
               IF Lower(mode) \in {Octet, NetAscii} THEN Request(op, FromNetASCII(e), Lower(mode))
               ELSE Threw("UNDEFINED")
<1> DEFINE n == Len(e)
           t == SubSeq(RequestText(e, mode), 1, k)
           u == AfterZero(t)
           word == ReadUntilZero(u)
<1>1. n \in Nat /\ k \in Nat /\ (k = n + 2 \/ k = n + 3)
    BY LenProperties
<1>2. /\ t \in Seq(Elements) /\ Len(t) = k
      /\ \A i \in 1 .. k : /\ i <= n => t[i] = e[i]
                           /\ i = n + 1 => t[i] = NUL
                           /\ i = n + 2 => t[i] = mode
                           /\ i = n + 3 => t[i] = NUL
    BY RequestTextIs
<1> HIDE DEF t
<1>3. IsFirstZero(t, n + 1)
    <2>1. n + 1 \in 1 .. Len(t) + 1 /\ n + 1 - 1 = n
        BY <1>1, <1>2
    <2>2. ASSUME NEW i \in 1 .. n PROVE t[i] # NUL
        <3>1. i \in 1 .. k /\ i <= n /\ i \in 1 .. Len(e)
            BY <1>1
        <3> QED BY <1>2, <3>1 DEF ZeroFree
    <2>3. t[n + 1] = NUL
        BY <1>1, <1>2
    <2> QED BY <2>1, <2>2, <2>3 DEF IsFirstZero
<1>4. ReadUntilZero(t) = e
    <2>1. n = (n + 1) - 1
        BY <1>1
    <2>2. /\ ReadUntilZero(t) \in Seq(Elements) /\ Len(ReadUntilZero(t)) = n
          /\ \A i \in 1 .. n : ReadUntilZero(t)[i] = t[i]
        BY <1>2, <1>3, <2>1, AroundZero
    <2>3. ASSUME NEW i \in 1 .. n PROVE ReadUntilZero(t)[i] = e[i]
        BY <1>1, <1>2, <2>2
    <2>4. e \in Seq(Elements)
        BY Spellings
    <2> QED BY <2>2, <2>3, <2>4, SeqEqual
<1>5. /\ u \in Seq(Elements) /\ Len(u) = k - (n + 1)
      /\ \A i \in 1 .. k - (n + 1) : u[i] = t[(n + 1) + i]
    <2>1. n + 1 <= Len(t) /\ n = (n + 1) - 1
        BY <1>1, <1>2
    <2> QED BY <1>2, <1>3, <2>1, AroundZero
<1> HIDE DEF u
<1>6. u[1] = mode /\ (k = n + 3 => u[2] = NUL)
    <2>1. u[1] = t[n + 2]
        <3>1. 1 \in 1 .. k - (n + 1) /\ (n + 1) + 1 = n + 2
            BY <1>1
        <3> QED BY <1>5, <3>1
    <2>2. k = n + 3 => u[2] = t[n + 3]
        <3>1. k = n + 3 => 2 \in 1 .. k - (n + 1) /\ (n + 1) + 2 = n + 3
            BY <1>1
        <3> QED BY <1>5, <3>1
    <2> QED BY <1>1, <1>2, <2>1, <2>2
<1>7. IsFirstZero(u, 2)
    <2>1. \A i \in 1 .. 2 - 1 : i = 1
        OBVIOUS
    <2>2. 2 \in 1 .. Len(u) + 1 /\ (2 <= Len(u) => k = n + 3)
        BY <1>1, <1>5
    <2> QED BY <1>6, <2>1, <2>2, ModesAre DEF IsFirstZero
<1>8. word # <<>> /\ Len(word) = 1 /\ word[1] = mode
    <2>1. Len(word) = 1 /\ \A i \in 1 .. 1 : word[i] = u[i]
        <3> DEFINE a == 2
                   b == 1
        <3>1. IsFirstZero(u, a) /\ b = a - 1
            BY <1>7
        <3> HIDE DEF a, b
        <3>2. Len(word) = b /\ \A i \in 1 .. b : word[i] = u[i]
            BY <1>5, <3>1, AroundZero
        <3> QED BY <3>2 DEF b
    <2> HIDE DEF word
    <2>2. Len(<<>>) = 0
        BY EmptySeq
    <2>3. word[1] = u[1]
        BY <2>1
    <2> QED BY <1>6, <2>1, <2>2, <2>3
<1> HIDE DEF word
<1>9. ParseRequest(op, t) = IF word # <<>> /\ Len(word) = 1 /\ Lower(word[1]) \in {Octet, NetAscii}
                            THEN Request(op, FromNetASCII(ReadUntilZero(t)), Lower(word[1]))
                            ELSE Threw("UNDEFINED")
    BY DEF ParseRequest, word, u
<1> QED BY <1>4, <1>8, <1>9 DEF t

LEMMA RequestBroken ==
    ASSUME NEW op, NEW e \in Seq(Byte), NEW mode \in Modes, NEW k \in 0 .. Len(e) + 3,
           ~(ZeroFree(e) /\ k >= Len(e) + 2)
    PROVE  ParseRequest(op, SubSeq(RequestText(e, mode), 1, k)) = Threw("UNDEFINED")
<1> DEFINE n == Len(e)
           t == SubSeq(RequestText(e, mode), 1, k)
           z == FirstZero(t)
           u == AfterZero(t)
           word == ReadUntilZero(u)
<1>1. n \in Nat /\ k \in Nat /\ k <= n + 3
    BY LenProperties
<1>2. /\ t \in Seq(Elements) /\ Len(t) = k
      /\ \A i \in 1 .. k : /\ i <= n => t[i] = e[i]
                           /\ i = n + 1 => t[i] = NUL
                           /\ i = n + 2 => t[i] = mode
                           /\ i = n + 3 => t[i] = NUL
    BY RequestTextIs
<1> HIDE DEF t
<1>3. IsFirstZero(t, z)
    BY <1>2, FirstZeroIs
<1> HIDE DEF z
<1>4. z \in 1 .. k + 1 /\ z \in Nat
    BY <1>1, <1>2, <1>3 DEF IsFirstZero
<1>5. /\ u \in Seq(Elements) /\ Len(u) = IF z <= k THEN k - z ELSE 0
      /\ \A i \in 1 .. k - z : u[i] = t[z + i]
    <2> DEFINE m == z - 1
    <2>1. m = z - 1
        OBVIOUS
    <2> HIDE DEF m
    <2> QED BY <1>2, <1>3, <2>1, AroundZero
<1> HIDE DEF u
<1>6. ASSUME word # <<>>, Len(word) = 1, Lower(word[1]) \in {Octet, NetAscii} PROVE FALSE
    <2> DEFINE y == FirstZero(u)
    <2>1. IsFirstZero(u, y)
        BY <1>5, FirstZeroIs
    <2> HIDE DEF y
    <2> DEFINE m == y - 1
    <2>2. m = y - 1
        OBVIOUS
    <2> HIDE DEF m
    <2>3. Len(word) = m /\ \A i \in 1 .. m : word[i] = u[i]
        <3>1. u \in Seq(Elements)
            BY <1>5
        <3> HIDE DEF u
        <3>2. /\ ReadUntilZero(u) \in Seq(Elements) /\ Len(ReadUntilZero(u)) = m
              /\ \A i \in 1 .. m : ReadUntilZero(u)[i] = u[i]
            BY <2>1, <2>2, <3>1, AroundZero
        <3> QED BY <3>2
    <2>4. word[1] = u[1] /\ Len(u) >= 1
        <3>1. y \in 1 .. Len(u) + 1 /\ Len(u) \in Nat
            BY <1>1, <1>4, <1>5, <2>1 DEF IsFirstZero
        <3> QED BY <1>6, <2>2, <2>3, <3>1
    <2>5. 1 \in 1 .. k - z /\ z + 1 \in 1 .. k
        BY <1>1, <1>4, <1>5, <2>4
    <2>6. word[1] = t[z + 1]
        BY <1>5, <2>4, <2>5
    <2>7. t[z + 1] \in Modes
        BY <1>6, <2>6, ModesAre
    <2>8. z + 1 = n + 2
        <3>1. CASE z + 1 <= n
            <4>1. z + 1 \in 1 .. Len(e)
                BY <1>1, <1>4, <3>1
            <4>2. e[z + 1] \in Byte
                BY <4>1, ElementOfSeq
            <4> QED BY <1>2, <2>5, <2>7, <3>1, <4>2, ModesAre
        <3>2. CASE z + 1 = n + 1 \/ z + 1 = n + 3
            BY <1>2, <2>5, <2>7, <3>2, ModesAre
        <3> QED BY <1>1, <1>4, <2>5, <3>1, <3>2
    <2>9. ZeroFree(e)
        <3> SUFFICES ASSUME NEW i \in 1 .. n PROVE e[i] # NUL
            BY DEF ZeroFree
        <3>1. i \in 1 .. z - 1 /\ i \in 1 .. k /\ i <= n
            BY <1>1, <1>4, <2>5, <2>8
        <3> QED BY <1>2, <1>3, <3>1 DEF IsFirstZero
    <2>10. k >= n + 2
        BY <1>1, <1>4, <2>5, <2>8
    <2> QED BY <2>9, <2>10
<1> HIDE DEF word
<1>7. ParseRequest(op, t) = IF word # <<>> /\ Len(word) = 1 /\ Lower(word[1]) \in {Octet, NetAscii}
                            THEN Request(op, FromNetASCII(ReadUntilZero(t)), Lower(word[1]))
                            ELSE Threw("UNDEFINED")
    BY DEF ParseRequest, word, u
<1> QED BY <1>6, <1>7 DEF t

\* The message of an error, cut after k elements.
LEMMA MessageCut ==
    ASSUME NEW A, NUL \in A, NEW e \in Seq(A), ZeroFree(e), NEW k \in 0 .. Len(e) + 1
    PROVE  ReadUntilZero(SubSeq(e \o <<NUL>>, 1, k)) = SubSeq(e, 1, IF k <= Len(e) THEN k ELSE Len(e))
<1> DEFINE n == Len(e)
           m == IF k <= n THEN k ELSE n
           w == Append(e, NUL)
           t == SubSeq(w, 1, k)
<1>1. n \in Nat /\ m \in 0 .. n /\ m \in Nat /\ m <= k /\ (k # m => k = m + 1 /\ m = n)
    BY LenProperties
<1>2. e \o <<NUL>> = w
    BY AppendIsConcat
<1>3. /\ w \in Seq(A) /\ Len(w) = n + 1 /\ w[n + 1] = NUL
      /\ \A i \in 1 .. n : w[i] = e[i]
    BY AppendProperties
<1> HIDE DEF w, m
<1>4. t \in Seq(A) /\ Len(t) = k /\ \A i \in 1 .. k : t[i] = w[i]
    BY <1>3, Firsts
<1> HIDE DEF t
<1>5. \A i \in 1 .. m : i \in 1 .. k /\ i \in 1 .. n
    BY <1>1
<1>6. IsFirstZero(t, m + 1)
    <2>1. m + 1 \in 1 .. Len(t) + 1 /\ m + 1 - 1 = m
        BY <1>1, <1>4
    <2>2. ASSUME NEW i \in 1 .. m PROVE t[i] # NUL
        BY <1>3, <1>4, <1>5 DEF ZeroFree
    <2>3. ASSUME m + 1 <= k PROVE t[m + 1] = NUL
        <3>1. m = n /\ m + 1 \in 1 .. k
            BY <1>1, <2>3
        <3> QED BY <1>3, <1>4, <3>1
    <2> DEFINE q == m + 1
    <2>4. q \in 1 .. Len(t) + 1 /\ q - 1 = m
        BY <1>1, <1>4
    <2>5. q <= Len(t) => t[q] = NUL
        BY <1>4, <2>3
    <2> HIDE DEF q
    <2>6. \A i \in 1 .. q - 1 : t[i] # NUL
        BY <2>2, <2>4
    <2>7. IsFirstZero(t, q)
        BY <2>4, <2>5, <2>6 DEF IsFirstZero
    <2> QED BY <2>7 DEF q
<1>7. /\ ReadUntilZero(t) \in Seq(A) /\ Len(ReadUntilZero(t)) = m
      /\ \A i \in 1 .. m : ReadUntilZero(t)[i] = t[i]
    <2>1. m = (m + 1) - 1
        BY <1>1
    <2> QED BY <1>4, <1>6, <2>1, AroundZero
<1>8. SubSeq(e, 1, m) \in Seq(A) /\ Len(SubSeq(e, 1, m)) = m /\ \A i \in 1 .. m : SubSeq(e, 1, m)[i] = e[i]
    BY <1>1, Firsts
<1>9. \A i \in 1 .. m : ReadUntilZero(t)[i] = SubSeq(e, 1, m)[i]
    BY <1>3, <1>4, <1>5, <1>7, <1>8
<1>10. ReadUntilZero(t) = SubSeq(e, 1, m)
    BY <1>7, <1>8, <1>9, SeqEqual
<1> QED BY <1>2, <1>10 DEF t, m

---------------------------------------------------------------------------
\* A number and what follows it, cut after k elements.
LEMMA ReadNumber ==
    ASSUME NEW who \in {"this", "other"}, NEW v \in Ids, NEW y \in Seq(Elements), NEW k \in 0 .. Len(y) + 2
    PROVE  LET b == SubSeq(Number(who, v) \o y, 1, k)
           IN  /\ b \in Seq(Elements) /\ (TooShort(b) <=> k < 2)
               /\ k >= 2 => ReadIntegral(b) = Reads(who, v) /\ AfterIntegral(b) = SubSeq(y, 1, k - 2)
<1> DEFINE x == Number(who, v)
           b == SubSeq(x \o y, 1, k)
<1>1. x \in Seq(Elements) /\ Len(x) = 2
    <2>1. Seq(Byte) \subseteq Seq(Elements)
        BY Spellings
    <2> QED BY <2>1, NumberIs
<1> HIDE DEF x
<1>2. Len(y) \in Nat /\ k \in Nat
    BY LenProperties
<1>3. b \in Seq(Elements) /\ Len(b) = k
    <2>1. x \o y \in Seq(Elements) /\ Len(x \o y) = Len(x) + Len(y)
        BY <1>1, ConcatProperties
    <2>2. k \in 0 .. Len(x \o y)
        BY <1>1, <1>2, <2>1
    <2> QED BY <2>1, <2>2, Firsts
<1>4. TooShort(b) <=> k < 2
    BY <1>3 DEF TooShort, Size
<1>5. ASSUME k >= 2 PROVE ReadIntegral(b) = Reads(who, v) /\ AfterIntegral(b) = SubSeq(y, 1, k - 2)
    <2>1. k \in 2 .. Len(y) + 2
        BY <1>2, <1>5
    <2>2. b[1] = x[1] /\ b[2] = x[2] /\ SubSeq(b, 3, Len(b)) = SubSeq(y, 1, k - 2)
        <3>1. LET c == SubSeq(x \o y, 1, k)
              IN  /\ c \in Seq(Elements) /\ Len(c) = k /\ c[1] = x[1] /\ c[2] = x[2]
                  /\ SubSeq(c, 3, Len(c)) = SubSeq(y, 1, k - 2)
            BY <1>1, <2>1, CutAfter
        <3> QED BY <3>1
    <2>3. AfterIntegral(b) = SubSeq(b, 3, Len(b))
        BY DEF AfterIntegral, Size
    <2>4. Len(b) \in Nat /\ Len(b) >= 2
        BY <1>2, <1>3, <1>5
    <2> HIDE DEF b
    <2>5. ReadIntegral(b) = Reads(who, v)
        BY <2>2, <2>4, NumberReads DEF x
    <2> QED BY <2>2, <2>3, <2>5
<1> QED BY <1>3, <1>4, <1>5 DEF b, x

\* A small number is read as it was written.
LEMMA SmallNumber ==
    ASSUME NEW who \in {"this", "other"}, NEW c \in 0 .. 15 PROVE c \in Ids /\ Reads(who, c) = c
<1>1. c \in Nat /\ c < IdRange
    BY DEF IdRange
<1>2. c \div 256 = 0 /\ 0 % 16 = 0 /\ c % 16 = c /\ c % 256 = c /\ c < 128
    OBVIOUS
<1>3. WireId(c) = c
    BY <1>2 DEF WireId
<1> QED BY <1>1, <1>2, <1>3, IdsAre DEF Reads

---------------------------------------------------------------------------
\* The packets of both makes, and their bytes after the opcode.
Messages == Seq(Byte) \cup {<<DefaultText>>}
Packets  == RequestPackets(Seq(Byte \ {NUL}), Modes) \cup DataPackets(Seq(Byte)) \cup AckPackets
            \cup [op : {"OACK"}] \cup Errors(Ids, Messages)

Body(who, p) ==
    CASE IsRequest(p)   -> ToNetASCII(p.file) \o <<NUL, p.mode, NUL>>
      [] p.op = "DATA"  -> Number(who, p.id) \o p.chunk
      [] p.op = "ACK"   -> Number(who, p.id)
      [] p.op = "OACK"  -> <<>>
      [] p.op = "ERROR" -> Number(who, p.code) \o ToNetASCII(p.message) \o <<NUL>>

\* The kinds of packets.
LEMMA KindsAre ==
    ASSUME NEW p \in Packets
    PROVE  \/ p.op \in {"RRQ", "WRQ"} /\ p.file \in Seq(Byte \ {NUL}) /\ p.mode \in Modes
              /\ p = Request(p.op, p.file, p.mode)
           \/ p.op = "DATA" /\ p.id \in Ids /\ p.chunk \in Seq(Byte) /\ p = Data(p.id, p.chunk)
           \/ p.op = "ACK" /\ p.id \in Ids /\ p = Ack(p.id)
           \/ p.op = "OACK"
           \/ p.op = "ERROR" /\ p.code \in Ids /\ p.message \in Messages /\ p = ErrorMessage(p.code, p.message)
<1>1. CASE p \in RequestPackets(Seq(Byte \ {NUL}), Modes)
    BY <1>1 DEF RequestPackets, Request
<1>2. CASE p \in DataPackets(Seq(Byte))
    BY <1>2 DEF DataPackets, Data
<1>3. CASE p \in AckPackets
    BY <1>3 DEF AckPackets, Ack
<1>4. CASE p \in [op : {"OACK"}]
    BY <1>4
<1>5. CASE p \in Errors(Ids, Messages)
    BY <1>5 DEF Errors
<1> QED BY <1>1, <1>2, <1>3, <1>4, <1>5 DEF Packets

\* The bytes of a packet are those of its opcode and its body.
LEMMA BodyType ==
    ASSUME NEW who \in {"this", "other"}, NEW p \in Packets
    PROVE  /\ Body(who, p) \in Seq(Elements) /\ Opcode[p.op] \in 0 .. 15
           /\ ToBytes(who, p) = Number(who, Opcode[p.op]) \o Body(who, p)
<1>1. ToBytes(who, p) = Number(who, Opcode[p.op]) \o Body(who, p)
    BY DEF ToBytes, Body
<1>2. Seq(Byte) \subseteq Seq(Elements) /\ NUL \in Elements /\ <<NUL>> \in Seq(Elements)
    BY Spellings
<1>3. ASSUME NEW v \in Ids PROVE Number(who, v) \in Seq(Elements)
    BY <1>2, NumberIs
<1>4. CASE p.op \in {"RRQ", "WRQ"}
    <2>1. p.file \in Seq(Byte \ {NUL}) /\ p.mode \in Modes
        BY <1>4, KindsAre
    <2>2. p.file \in Seq(Elements) /\ p.mode \in Elements
        <3>1. Seq(Byte \ {NUL}) \subseteq Seq(Elements)
            BY Spellings
        <3> QED BY <2>1, <3>1, ModesAre
    <2>3. ToNetASCII(p.file) \in Seq(Elements) /\ <<NUL, p.mode, NUL>> \in Seq(Elements)
        BY <1>2, <2>2, ToType, Spellings
    <2>4. Body(who, p) = ToNetASCII(p.file) \o <<NUL, p.mode, NUL>>
        BY <1>4 DEF Body, IsRequest
    <2>5. Body(who, p) \in Seq(Elements)
        BY <2>3, <2>4, ConcatProperties
    <2>6. Opcode[p.op] \in 0 .. 15
        BY <1>4 DEF Opcode
    <2> QED BY <1>1, <2>5, <2>6
<1>5. CASE p.op = "DATA"
    <2>1. p.id \in Ids /\ p.chunk \in Seq(Byte)
        BY <1>5, KindsAre
    <2>2. Body(who, p) = Number(who, p.id) \o p.chunk
        BY <1>5 DEF Body, IsRequest
    <2>3. Body(who, p) \in Seq(Elements)
        BY <1>2, <1>3, <2>1, <2>2, ConcatProperties
    <2>4. Opcode[p.op] \in 0 .. 15
        BY <1>5 DEF Opcode
    <2> QED BY <1>1, <2>3, <2>4
<1>6. CASE p.op = "ACK"
    <2>1. p.id \in Ids
        BY <1>6, KindsAre
    <2>2. Body(who, p) = Number(who, p.id)
        BY <1>6 DEF Body, IsRequest
    <2>3. Opcode[p.op] \in 0 .. 15
        BY <1>6 DEF Opcode
    <2> QED BY <1>1, <1>3, <2>1, <2>2, <2>3
<1>7. CASE p.op = "OACK"
    <2>1. Body(who, p) = <<>>
        BY <1>7 DEF Body, IsRequest
    <2>2. Opcode[p.op] \in 0 .. 15
        BY <1>7 DEF Opcode
    <2> QED BY <1>1, <2>1, <2>2, EmptySeq
<1>8. CASE p.op = "ERROR"
    <2>1. p.code \in Ids /\ p.message \in Seq(Elements)
        <3>1. p.code \in Ids /\ p.message \in Messages
            BY <1>8, KindsAre
        <3>2. <<DefaultText>> \in Seq(Elements)
            BY Spellings
        <3> QED BY <1>2, <3>1, <3>2 DEF Messages
    <2>2. Body(who, p) = Number(who, p.code) \o ToNetASCII(p.message) \o <<NUL>>
        BY <1>8 DEF Body, IsRequest
    <2>3. Number(who, p.code) \o ToNetASCII(p.message) \in Seq(Elements)
        <3>1. ToNetASCII(p.message) \in Seq(Elements)
            BY <2>1, ToType, Spellings
        <3> QED BY <1>3, <2>1, <3>1, ConcatProperties
    <2>4. Body(who, p) \in Seq(Elements)
        BY <1>2, <2>2, <2>3, ConcatProperties
    <2>5. Opcode[p.op] \in 0 .. 15
        BY <1>8 DEF Opcode
    <2> QED BY <1>1, <2>4, <2>5
<1> QED BY <1>4, <1>5, <1>6, <1>7, <1>8, KindsAre

---------------------------------------------------------------------------
\* What ParsePacket makes of a packet's first k elements.
LEMMA ParseCut ==
    ASSUME NEW who \in {"this", "other"}, NEW p \in Packets, NEW k \in 0 .. Len(ToBytes(who, p))
    PROVE  LET b == SubSeq(ToBytes(who, p), 1, k)
               rest == SubSeq(Body(who, p), 1, k - 2)
           IN  /\ b \in Seq(Elements)
               /\ k < 2 => ParsePacket(b) = Threw("UNDEFINED")
               /\ k >= 2 => /\ k - 2 \in 0 .. Len(Body(who, p))
                            /\ p.op \in {"RRQ", "WRQ"} => ParsePacket(b) = ParseRequest(p.op, rest)
                            /\ p.op = "DATA" => ParsePacket(b) = ParseData(rest)
                            /\ p.op = "ACK" => ParsePacket(b) = ParseAck(rest)
                            /\ p.op = "ERROR" => ParsePacket(b) = ParseError(rest)
                            /\ p.op = "OACK" => ParsePacket(b) = Threw("ILLEGAL_OPCODE")
<1> DEFINE c == Opcode[p.op]
           y == Body(who, p)
           b == SubSeq(ToBytes(who, p), 1, k)
           rest == SubSeq(y, 1, k - 2)
<1>1. y \in Seq(Elements) /\ c \in 0 .. 15 /\ ToBytes(who, p) = Number(who, c) \o y
    BY BodyType
<1>2. c \in Ids /\ Reads(who, c) = c
    BY <1>1, SmallNumber
<1>3. k \in 0 .. Len(y) + 2 /\ k \in Nat /\ Len(y) \in Nat
    <2>1. Number(who, c) \in Seq(Elements) /\ Len(Number(who, c)) = 2
        <3>1. Seq(Byte) \subseteq Seq(Elements)
            BY Spellings
        <3> QED BY <1>2, <3>1, NumberIs
    <2>2. Len(ToBytes(who, p)) = 2 + Len(y)
        <3> DEFINE x == Number(who, c)
        <3>1. x \in Seq(Elements) /\ Len(x) = 2 /\ ToBytes(who, p) = x \o y
            BY <1>1, <2>1
        <3> HIDE DEF x, y
        <3>2. Len(x \o y) = Len(x) + Len(y)
            BY <1>1, <3>1, ConcatProperties
        <3> QED BY <3>1, <3>2
    <2>3. Len(y) \in Nat
        BY <1>1, LenProperties
    <2> QED BY <2>2, <2>3
<1> HIDE DEF y
<1>4. /\ b \in Seq(Elements) /\ (TooShort(b) <=> k < 2)
      /\ k >= 2 => ReadIntegral(b) = c /\ AfterIntegral(b) = rest
    <2> HIDE DEF c
    <2> QED BY <1>1, <1>2, <1>3, ReadNumber
<1> HIDE DEF b, rest
<1>5. CASE k < 2
    <2>1. TooShort(b) /\ ~(k >= 2)
        BY <1>3, <1>4, <1>5
    <2>2. ParsePacket(b) = Threw("UNDEFINED")
        BY <2>1 DEF ParsePacket
    <2> QED BY <1>4, <2>1, <2>2 DEF b, rest, y
<1>6. CASE k >= 2
    <2>1. ~TooShort(b) /\ ReadIntegral(b) = c /\ AfterIntegral(b) = rest /\ ~(k < 2)
        BY <1>3, <1>4, <1>6
    <2>2. k - 2 \in 0 .. Len(y)
        BY <1>3, <1>6
    <2> HIDE DEF c
    <2>3. /\ c = 1 => ParsePacket(b) = ParseRequest("RRQ", rest)
          /\ c = 2 => ParsePacket(b) = ParseRequest("WRQ", rest)
          /\ c = 3 => ParsePacket(b) = ParseData(rest)
          /\ c = 4 => ParsePacket(b) = ParseAck(rest)
          /\ c = 5 => ParsePacket(b) = ParseError(rest)
          /\ c = 6 => ParsePacket(b) = Threw("ILLEGAL_OPCODE")
        BY <2>1 DEF ParsePacket
    <2>4. /\ p.op = "RRQ" => c = 1
          /\ p.op = "WRQ" => c = 2
          /\ p.op = "DATA" => c = 3
          /\ p.op = "ACK" => c = 4
          /\ p.op = "ERROR" => c = 5
          /\ p.op = "OACK" => c = 6
        BY DEF c, Opcode
    <2>5. p.op \in {"RRQ", "WRQ"} => ParsePacket(b) = ParseRequest(p.op, rest)
        BY <2>3, <2>4
    <2> QED BY <1>4, <2>1, <2>2, <2>3, <2>4, <2>5 DEF b, rest, y
<1> QED BY <1>3, <1>5, <1>6

\* The same, packet by packet.
LEMMA RequestParsed ==
    ASSUME NEW who \in {"this", "other"}, NEW p \in Packets, p.op \in {"RRQ", "WRQ"},
           NEW k \in 0 .. Len(ToBytes(who, p))
    PROVE  LET e == ToNetASCII(p.file)
           IN  /\ Len(ToBytes(who, p)) = Len(e) + 5 /\ Len(e) \in Nat
               /\ ParsePacket(SubSeq(ToBytes(who, p), 1, k)) =
                      IF ZeroFree(e) /\ k >= Len(e) + 4 /\ Lower(p.mode) \in {Octet, NetAscii}
                      THEN Request(p.op, p.file, Lower(p.mode)) ELSE Threw("UNDEFINED")
<1> DEFINE e == ToNetASCII(p.file)
           n == Len(e)
           y == Body(who, p)
           b == SubSeq(ToBytes(who, p), 1, k)
           j == k - 2
           rest == SubSeq(y, 1, j)
<1>1. p.file \in Seq(Byte \ {NUL}) /\ p.mode \in Modes
    BY KindsAre
<1>2. p.file \in Seq(Byte) /\ {NUL, LF, CR} \subseteq Byte
    <2>1. Seq(Byte \ {NUL}) \subseteq Seq(Byte)
        BY Spellings
    <2> QED BY <1>1, <2>1, Spellings
<1>3. e \in Seq(Byte) /\ FromNetASCII(e) = p.file /\ n \in Nat
    <2>1. e \in Seq(Byte)
        BY <1>2, ToType
    <2>2. Survives(p.file)
        BY <1>2, AllSurvive
    <2> QED BY <2>1, <2>2, LenProperties DEF Survives
<1>4. y = RequestText(e, p.mode)
    BY DEF Body, IsRequest, RequestText
<1> HIDE DEF e
<1>5. y \in Seq(Elements) /\ Len(y) = n + 3
    <2>1. 0 \in 0 .. Len(e) + 3
        BY <1>3
    <2> QED BY <1>1, <1>3, <1>4, <2>1, RequestTextIs
<1>6. Len(ToBytes(who, p)) = n + 5
    <2> DEFINE c == Opcode[p.op]
               x == Number(who, c)
    <2>1. ToBytes(who, p) = x \o y /\ c \in 0 .. 15
        BY BodyType
    <2>2. x \in Seq(Elements) /\ Len(x) = 2
        <3>1. Seq(Byte) \subseteq Seq(Elements)
            BY Spellings
        <3>2. c \in Ids
            BY <2>1, SmallNumber
        <3> HIDE DEF c
        <3> QED BY <3>1, <3>2, NumberIs
    <2> HIDE DEF x, y
    <2>3. Len(x \o y) = Len(x) + Len(y)
        BY <1>5, <2>2, ConcatProperties
    <2> QED BY <1>3, <1>5, <2>1, <2>2, <2>3
<1>7. k \in Nat /\ k <= n + 5
    BY <1>3, <1>6
<1> HIDE DEF y
<1>8. /\ k < 2 => ParsePacket(b) = Threw("UNDEFINED")
      /\ k >= 2 => ParsePacket(b) = ParseRequest(p.op, rest)
    BY ParseCut DEF y
<1> HIDE DEF b
<1>9. CASE k < 2
    <2>1. ~(k >= n + 4)
        BY <1>3, <1>7, <1>9
    <2> QED BY <1>3, <1>6, <1>8, <1>9, <2>1 DEF b, e
<1>10. CASE ~(k < 2)
    <2>1. k >= 2 /\ j \in 0 .. n + 3 /\ (j >= n + 2 <=> k >= n + 4)
        BY <1>3, <1>7, <1>10
    <2> HIDE DEF j
    <2>2. rest = SubSeq(RequestText(e, p.mode), 1, j)
        BY <1>4
    <2> HIDE DEF rest
    <2>3. CASE ZeroFree(e) /\ j >= n + 2
        BY <1>1, <1>3, <1>6, <1>8, <2>1, <2>2, <2>3, RequestWhole DEF b, e
    <2>4. CASE ~(ZeroFree(e) /\ j >= n + 2)
        BY <1>1, <1>3, <1>6, <1>8, <2>1, <2>2, <2>4, RequestBroken DEF b, e
    <2> QED BY <2>3, <2>4
<1> QED BY <1>9, <1>10

\* What comes after a number that follows the opcode.
NumberThen(who, v, y, rest, k) ==
    /\ Reads(who, v) \in Ids
    /\ k >= 2 => (TooShort(rest) <=> k < 4)
    /\ k >= 4 => ReadIntegral(rest) = Reads(who, v) /\ AfterIntegral(rest) = SubSeq(y, 1, k - 4)

LEMMA NumberParsed ==
    ASSUME NEW who \in {"this", "other"}, NEW p \in Packets, NEW v \in Ids, NEW y \in Seq(Elements),
           Body(who, p) = Number(who, v) \o y, NEW k \in 0 .. Len(ToBytes(who, p))
    PROVE  /\ Len(ToBytes(who, p)) = Len(y) + 4 /\ Len(y) \in Nat
           /\ NumberThen(who, v, y, SubSeq(Body(who, p), 1, k - 2), k)
<1> DEFINE x == Number(who, v)
           b == Body(who, p)
           L == Len(ToBytes(who, p))
           n == Len(y)
           j == k - 2
           rest == SubSeq(b, 1, j)
<1>1. x \in Seq(Elements) /\ Len(x) = 2 /\ n \in Nat
    <2>1. Seq(Byte) \subseteq Seq(Elements)
        BY Spellings
    <2> QED BY <2>1, NumberIs, LenProperties
<1>2. b = x \o y
    OBVIOUS
<1>3. Len(b) = 2 + n
    <2> HIDE DEF x, b
    <2>1. Len(x \o y) = Len(x) + Len(y)
        BY <1>1, ConcatProperties
    <2> QED BY <1>1, <1>2, <2>1
<1>4. L = 2 + Len(b)
    <2> DEFINE c == Opcode[p.op]
               z == Number(who, c)
    <2>1. ToBytes(who, p) = z \o b /\ c \in 0 .. 15 /\ b \in Seq(Elements)
        BY BodyType
    <2>2. z \in Seq(Elements) /\ Len(z) = 2
        <3>1. Seq(Byte) \subseteq Seq(Elements)
            BY Spellings
        <3>2. c \in Ids
            BY <2>1, SmallNumber
        <3> HIDE DEF c
        <3> QED BY <3>1, <3>2, NumberIs
    <2> HIDE DEF z, b
    <2>3. Len(z \o b) = Len(z) + Len(b)
        BY <2>1, <2>2, ConcatProperties
    <2> QED BY <2>1, <2>2, <2>3
<1>5. L = n + 4
    BY <1>1, <1>3, <1>4
<1>6. Reads(who, v) \in Ids
    <2> HIDE DEF x
    <2>1. Len(x) >= 2 /\ Len(x) \in Nat
        BY <1>1
    <2> QED BY <2>1, NumberReads DEF x
<1> HIDE DEF b
<1>7. k >= 2 => (TooShort(rest) <=> k < 4)
               /\ (k >= 4 => ReadIntegral(rest) = Reads(who, v) /\ AfterIntegral(rest) = SubSeq(y, 1, j - 2))
    <2> SUFFICES ASSUME k >= 2
                 PROVE  /\ TooShort(rest) <=> k < 4
                        /\ k >= 4 => ReadIntegral(rest) = Reads(who, v) /\ AfterIntegral(rest) = SubSeq(y, 1, j - 2)
        OBVIOUS
    <2>1. j \in 0 .. n + 2 /\ (j < 2 <=> k < 4) /\ (k >= 4 => j >= 2)
        BY <1>1, <1>5
    <2> HIDE DEF j
    <2>2. rest = SubSeq(x \o y, 1, j)
        BY <1>2
    <2> HIDE DEF rest
    <2>3. LET d == SubSeq(Number(who, v) \o y, 1, j)
          IN  /\ d \in Seq(Elements) /\ (TooShort(d) <=> j < 2)
              /\ j >= 2 => ReadIntegral(d) = Reads(who, v) /\ AfterIntegral(d) = SubSeq(y, 1, j - 2)
        BY <2>1, ReadNumber
    <2> QED BY <2>1, <2>2, <2>3
<1>8. j - 2 = k - 4
    BY <1>1, <1>5
<1>9. k >= 4 => k >= 2
    BY <1>1, <1>5
<1> QED BY <1>1, <1>5, <1>6, <1>7, <1>8, <1>9 DEF b, NumberThen

LEMMA DataParsed ==
    ASSUME NEW who \in {"this", "other"}, NEW p \in Packets, p.op = "DATA",
           NEW k \in 0 .. Len(ToBytes(who, p))
    PROVE  /\ Len(ToBytes(who, p)) = Len(p.chunk) + 4 /\ Len(p.chunk) \in Nat /\ Reads(who, p.id) \in Ids
           /\ ParsePacket(SubSeq(ToBytes(who, p), 1, k)) =
                  IF k < 4 THEN Threw("UNDEFINED") ELSE Data(Reads(who, p.id), SubSeq(p.chunk, 1, k - 4))
<1> DEFINE rest == SubSeq(Body(who, p), 1, k - 2)
           v == p.id
           y == p.chunk
           b == SubSeq(ToBytes(who, p), 1, k)
<1>1. v \in Ids /\ y \in Seq(Byte)
    BY KindsAre
<1>2. y \in Seq(Elements)
    <2>1. Seq(Byte) \subseteq Seq(Elements)
        BY Spellings
    <2> QED BY <1>1, <2>1
<1>3. Body(who, p) = Number(who, v) \o y
    BY DEF Body, IsRequest
<1>4. /\ k < 2 => ParsePacket(b) = Threw("UNDEFINED")
      /\ k >= 2 => ParsePacket(b) = ParseData(rest)
    BY ParseCut
<1> HIDE DEF v, y
<1>5. /\ Len(ToBytes(who, p)) = Len(y) + 4 /\ Len(y) \in Nat /\ Reads(who, v) \in Ids
      /\ k >= 2 => (TooShort(rest) <=> k < 4)
      /\ k >= 4 => ReadIntegral(rest) = Reads(who, v) /\ AfterIntegral(rest) = SubSeq(y, 1, k - 4)
    <2>1. /\ Len(ToBytes(who, p)) = Len(y) + 4 /\ Len(y) \in Nat
          /\ NumberThen(who, v, y, SubSeq(Body(who, p), 1, k - 2), k)
        BY <1>1, <1>2, <1>3, NumberParsed
    <2>2. NumberThen(who, v, y, rest, k)
        BY <2>1
    <2> HIDE DEF rest
    <2> QED BY <2>1, <2>2 DEF NumberThen
<1>6. k \in Nat /\ (k < 2 => k < 4) /\ (~(k < 2) => k >= 2) /\ (~(k < 4) => k >= 4 /\ k >= 2)
    BY <1>5
<1> HIDE DEF rest, b
<1>7. ParsePacket(b) = IF k < 4 THEN Threw("UNDEFINED") ELSE Data(Reads(who, v), SubSeq(y, 1, k - 4))
    BY <1>4, <1>5, <1>6 DEF ParseData
<1> QED BY <1>5, <1>7 DEF v, y, b

LEMMA AckParsed ==
    ASSUME NEW who \in {"this", "other"}, NEW p \in Packets, p.op = "ACK",
           NEW k \in 0 .. Len(ToBytes(who, p))
    PROVE  /\ Len(ToBytes(who, p)) = 4 /\ Reads(who, p.id) \in Ids
           /\ ParsePacket(SubSeq(ToBytes(who, p), 1, k)) =
                  IF k < 4 THEN Threw("UNDEFINED") ELSE Ack(Reads(who, p.id))
<1> DEFINE rest == SubSeq(Body(who, p), 1, k - 2)
           v == p.id
           y == <<>>
           b == SubSeq(ToBytes(who, p), 1, k)
<1>1. v \in Ids
    BY KindsAre
<1>2. y \in Seq(Elements) /\ Len(y) = 0
    BY EmptySeq
<1>3. Body(who, p) = Number(who, v) \o y
    <2>1. Number(who, v) \in Seq(Byte)
        BY <1>1, NumberIs
    <2>2. Number(who, v) \o y = Number(who, v)
        BY <2>1, ConcatEmptySeq
    <2> QED BY <2>2 DEF Body, IsRequest
<1>4. /\ k < 2 => ParsePacket(b) = Threw("UNDEFINED")
      /\ k >= 2 => ParsePacket(b) = ParseAck(rest)
    BY ParseCut
<1> HIDE DEF v, y
<1>5. /\ Len(ToBytes(who, p)) = Len(y) + 4 /\ Reads(who, v) \in Ids
      /\ k >= 2 => (TooShort(rest) <=> k < 4)
      /\ k >= 4 => ReadIntegral(rest) = Reads(who, v)
    <2>1. /\ Len(ToBytes(who, p)) = Len(y) + 4 /\ Len(y) \in Nat
          /\ NumberThen(who, v, y, SubSeq(Body(who, p), 1, k - 2), k)
        BY <1>1, <1>2, <1>3, NumberParsed
    <2>2. NumberThen(who, v, y, rest, k)
        BY <2>1
    <2> HIDE DEF rest
    <2> QED BY <2>1, <2>2 DEF NumberThen
<1>6. k \in Nat /\ (k < 2 => k < 4) /\ (~(k < 2) => k >= 2) /\ (~(k < 4) => k >= 4 /\ k >= 2)
    BY <1>2, <1>5
<1>7. Len(ToBytes(who, p)) = 4
    BY <1>2, <1>5
<1> HIDE DEF rest, b
<1>8. ParsePacket(b) = IF k < 4 THEN Threw("UNDEFINED") ELSE Ack(Reads(who, v))
    BY <1>4, <1>5, <1>6 DEF ParseAck
<1> QED BY <1>5, <1>7, <1>8 DEF v, b

\* The text of an error, cut after k elements.
ErrorText(message, k) == FromNetASCII(ReadUntilZero(SubSeq(ToNetASCII(message) \o <<NUL>>, 1, k)))

LEMMA ErrorParsed ==
    ASSUME NEW who \in {"this", "other"}, NEW p \in Packets, p.op = "ERROR",
           NEW k \in 0 .. Len(ToBytes(who, p))
    PROVE  /\ Len(ToBytes(who, p)) = Len(ToNetASCII(p.message)) + 5 /\ Len(ToNetASCII(p.message)) \in Nat
           /\ Reads(who, p.code) \in Ids
           /\ k >= 4 => ErrorText(p.message, k - 4) \in Seq(Elements)
           /\ ParsePacket(SubSeq(ToBytes(who, p), 1, k)) =
                  IF k < 4 THEN Threw("UNDEFINED")
                  ELSE ErrorMessage(Reads(who, p.code), ErrorText(p.message, k - 4))
<1> DEFINE rest == SubSeq(Body(who, p), 1, k - 2)
           v == p.code
           e == ToNetASCII(p.message)
           y == e \o <<NUL>>
           b == SubSeq(ToBytes(who, p), 1, k)
<1>1. v \in Ids /\ p.message \in Seq(Elements)
    <2>1. v \in Ids /\ p.message \in Messages
        BY KindsAre
    <2>2. Seq(Byte) \subseteq Seq(Elements) /\ <<DefaultText>> \in Seq(Elements)
        BY Spellings
    <2> QED BY <2>1, <2>2 DEF Messages
<1>2. e \in Seq(Elements) /\ <<NUL>> \in Seq(Elements) /\ Len(<<NUL>>) = 1 /\ Len(e) \in Nat
    <2>1. e \in Seq(Elements) /\ NUL \in Elements
        BY <1>1, ToType, Spellings
    <2> QED BY <2>1, LenProperties
<1>3. Body(who, p) = Number(who, v) \o y
    <2>1. Number(who, v) \in Seq(Elements)
        <3>1. Seq(Byte) \subseteq Seq(Elements)
            BY Spellings
        <3> QED BY <1>1, <3>1, NumberIs
    <2>2. Body(who, p) = Number(who, v) \o e \o <<NUL>>
        BY DEF Body, IsRequest
    <2> HIDE DEF v, e
    <2>3. (Number(who, v) \o e) \o <<NUL>> = Number(who, v) \o (e \o <<NUL>>)
        BY <1>2, <2>1, ConcatAssociative
    <2> QED BY <2>2, <2>3
<1>4. /\ k < 2 => ParsePacket(b) = Threw("UNDEFINED")
      /\ k >= 2 => ParsePacket(b) = ParseError(rest)
    BY ParseCut
<1>5. y \in Seq(Elements) /\ Len(y) = Len(e) + 1
    <2> HIDE DEF e
    <2> QED BY <1>2, ConcatProperties
<1> HIDE DEF v, y, e
<1>6. /\ Len(ToBytes(who, p)) = Len(y) + 4 /\ Reads(who, v) \in Ids
      /\ k >= 2 => (TooShort(rest) <=> k < 4)
      /\ k >= 4 => ReadIntegral(rest) = Reads(who, v) /\ AfterIntegral(rest) = SubSeq(y, 1, k - 4)
    <2>1. /\ Len(ToBytes(who, p)) = Len(y) + 4 /\ Len(y) \in Nat
          /\ NumberThen(who, v, y, SubSeq(Body(who, p), 1, k - 2), k)
        BY <1>1, <1>3, <1>5, NumberParsed
    <2>2. NumberThen(who, v, y, rest, k)
        BY <2>1
    <2> HIDE DEF rest
    <2> QED BY <2>1, <2>2 DEF NumberThen
<1>7. k \in Nat /\ (k < 2 => k < 4) /\ (~(k < 2) => k >= 2) /\ (~(k < 4) => k >= 4 /\ k >= 2)
      /\ Len(ToBytes(who, p)) = Len(e) + 5
    BY <1>2, <1>5, <1>6
<1>8. ASSUME k >= 4 PROVE FromNetASCII(ReadUntilZero(SubSeq(y, 1, k - 4))) \in Seq(Elements)
    <2> DEFINE t == SubSeq(y, 1, k - 4)
               m == FirstZero(t) - 1
    <2>1. k - 4 \in 0 .. Len(y)
        BY <1>2, <1>5, <1>6, <1>8
    <2>2. t \in Seq(Elements)
        BY <1>5, <2>1, Firsts
    <2> HIDE DEF t
    <2>3. IsFirstZero(t, FirstZero(t)) /\ m = FirstZero(t) - 1
        BY <2>2, FirstZeroIs
    <2> HIDE DEF m
    <2>4. ReadUntilZero(t) \in Seq(Elements)
        BY <2>2, <2>3, AroundZero
    <2> QED BY <2>4, FromType, Spellings DEF t
<1>9. \A j : ErrorText(p.message, j) = FromNetASCII(ReadUntilZero(SubSeq(y, 1, j)))
    BY DEF ErrorText, y, e
<1> HIDE DEF rest, b
<1>10. ParsePacket(b) = IF k < 4 THEN Threw("UNDEFINED")
                        ELSE ErrorMessage(Reads(who, v), ErrorText(p.message, k - 4))
    BY <1>4, <1>6, <1>7, <1>9 DEF ParseError
<1> QED BY <1>2, <1>6, <1>7, <1>8, <1>9, <1>10 DEF v, b, e

---------------------------------------------------------------------------
\* A text without a CR is decoded from nothing less than its whole encoding.
OnlyWhole(s) == \A n \in 0 .. Len(ToNetASCII(s)) :
                    n # Len(ToNetASCII(s)) => FromNetASCII(SubSeq(ToNetASCII(s), 1, n)) # s

\* Two elements more.
LEMMA AppendTwo ==
    ASSUME NEW A, NEW s \in Seq(A), NEW c \in A, NEW d \in A
    PROVE  s \o <<c, d>> = Append(Append(s, c), d)
<1>1. <<c>> \in Seq(A) /\ <<d>> \in Seq(A) /\ <<c, d>> = <<c>> \o <<d>>
    <2>1. <<c>> \in Seq(A) /\ <<d>> \in Seq(A) /\ <<c, d>> \in Seq(A)
        OBVIOUS
    <2>2. Append(<<c>>, d) = <<c>> \o <<d>>
        BY <2>1, AppendIsConcat
    <2>3. /\ Append(<<c>>, d) \in Seq(A) /\ Len(Append(<<c>>, d)) = 2
          /\ Append(<<c>>, d)[1] = c /\ Append(<<c>>, d)[2] = d
        <3>1. <<c>> \in Seq(A) /\ Len(<<c>>) = 1 /\ <<c>>[1] = c
            BY <2>1
        <3> QED BY <3>1, AppendProperties
    <2>4. Len(<<c, d>>) = 2 /\ <<c, d>>[1] = c /\ <<c, d>>[2] = d
        OBVIOUS
    <2>5. \A i \in 1 .. 2 : i = 1 \/ i = 2
        OBVIOUS
    <2>6. <<c, d>> = Append(<<c>>, d)
        <3> DEFINE x == <<c, d>>
                   y == Append(<<c>>, d)
        <3>1. x \in Seq(A) /\ y \in Seq(A) /\ Len(x) = 2 /\ Len(y) = 2 /\ x[1] = y[1] /\ x[2] = y[2]
            BY <2>1, <2>3, <2>4
        <3> HIDE DEF x, y
        <3>2. x = y
            BY <2>5, <3>1, SeqEqual
        <3> QED BY <3>2 DEF x, y
    <2> QED BY <2>1, <2>2, <2>6
<1>2. s \o (<<c>> \o <<d>>) = (s \o <<c>>) \o <<d>>
    BY <1>1, ConcatAssociative
<1>3. Append(s, c) = s \o <<c>> /\ Append(s, c) \in Seq(A)
    BY AppendIsConcat, AppendProperties
<1>4. Append(Append(s, c), d) = Append(s, c) \o <<d>>
    BY <1>3, AppendIsConcat
<1> QED BY <1>1, <1>2, <1>3, <1>4

LEMMA OnlyWholeAppend ==
    ASSUME NEW A, {NUL, LF, CR} \subseteq A, NEW s \in Seq(A), NEW c \in A, c # CR
    PROVE  OnlyWhole(Append(s, c))
<1> DEFINE t == Append(s, c)
           E == ToNetASCII(s)
           F == ToNetASCII(t)
           half == Append(E, CR)
           m == Len(E)
<1>1. E \in Seq(A) /\ Complete(E) /\ m \in Nat
    <2>1. Survives(s)
        BY AllSurvive
    <2> QED BY <2>1, ToType, LenProperties DEF Survives
<1>2. half \in Seq(A) /\ Len(half) = m + 1
    BY <1>1, AppendProperties
<1>3. \/ F = Append(E, c) /\ Len(F) = m + 1
      \/ F = Append(half, LF) /\ Len(F) = m + 2 /\ c = LF
    <2>1. F = E \o Encoded(c)
        BY ToAppend
    <2>2. CASE c = LF
        <3>1. Encoded(c) = <<CR, LF>>
            BY <2>2, EncodedType
        <3>2. CR \in A /\ LF \in A
            OBVIOUS
        <3>3. E \o <<CR, LF>> = Append(half, LF)
            BY <1>1, <3>2, AppendTwo
        <3>6. F = Append(half, LF)
            BY <2>1, <3>1, <3>3
        <3>7. Len(Append(half, LF)) = Len(half) + 1
            <4> HIDE DEF half
            <4> QED BY <1>2, AppendProperties
        <3> HIDE DEF E, F, half
        <3> QED BY <1>1, <1>2, <2>2, <3>6, <3>7
    <2>3. CASE c # LF
        <3>1. Encoded(c) = <<c>>
            BY <2>3, EncodedType
        <3>2. F = Append(E, c)
            BY <1>1, <2>1, <3>1, AppendIsConcat
        <3>3. Len(Append(E, c)) = m + 1
            BY <1>1, AppendProperties
        <3> QED BY <3>2, <3>3
    <2> QED BY <2>2, <2>3
<1>4. ASSUME NEW n \in 0 .. m PROVE FromNetASCII(SubSeq(E, 1, n)) # t
    <2> DEFINE o == FromNetASCII(SubSeq(E, 1, n))
    <2>1. Beginning(o, s)
        <3>1. Survives(s)
            BY AllSurvive
        <3> QED BY <3>1 DEF Survives
    <2>2. Len(t) = Len(s) + 1 /\ Len(s) \in Nat
        BY AppendProperties, LenProperties
    <2> HIDE DEF o, t
    <2>3. o # t
        BY <2>1, <2>2 DEF Beginning
    <2> QED BY <2>3 DEF o
<1>5. FromNetASCII(half) # t
    <2>1. FromNetASCII(half) = Append(s, CR)
        <3>1. FromNetASCII(E) = s
            BY AllSurvive DEF Survives
        <3> QED BY <1>1, <3>1, FromAppend
    <2>2. Append(s, CR)[Len(s) + 1] = CR /\ t[Len(s) + 1] = c
        BY AppendProperties
    <2> QED BY <2>1, <2>2
<1>6. ASSUME NEW n \in 0 .. m + 1 PROVE SubSeq(half, 1, n) = IF n = m + 1 THEN half ELSE SubSeq(E, 1, n)
    <2> HIDE DEF E
    <2> QED BY <1>1, PrefixOfAppend
<1> HIDE DEF E, F, half, m, t
<1>7. ASSUME NEW n \in 0 .. Len(F), n # Len(F) PROVE FromNetASCII(SubSeq(F, 1, n)) # t
    <2>1. CASE F = Append(E, c) /\ Len(F) = m + 1
        <3>1. n \in 0 .. m /\ n \in 0 .. Len(E) + 1 /\ n # Len(E) + 1
            BY <1>1, <1>7, <2>1 DEF m
        <3>2. SubSeq(F, 1, n) = SubSeq(E, 1, n)
            BY <1>1, <2>1, <3>1, PrefixOfAppend
        <3> QED BY <1>4, <3>1, <3>2
    <2>2. CASE F = Append(half, LF) /\ Len(F) = m + 2
        <3>1. n \in 0 .. m + 1 /\ n \in 0 .. Len(half) + 1 /\ n # Len(half) + 1
            BY <1>1, <1>2, <1>7, <2>2
        <3>2. SubSeq(F, 1, n) = SubSeq(half, 1, n)
            BY <1>2, <2>2, <3>1, PrefixOfAppend
        <3>3. CASE n = m + 1
            BY <1>5, <1>6, <3>1, <3>2, <3>3
        <3>4. CASE n # m + 1
            <4>1. n \in 0 .. m
                BY <1>1, <3>1, <3>4
            <4> QED BY <1>4, <1>6, <3>1, <3>2, <3>4, <4>1
        <3> QED BY <3>3, <3>4
    <2> QED BY <1>3, <2>1, <2>2
<1> QED BY <1>7 DEF OnlyWhole, F, t

\* Every text without a CR is such a text.
LEMMA ProperBeginning ==
    ASSUME NEW A, {NUL, LF, CR} \subseteq A PROVE \A s \in Seq(A) : NoReturn(s) => OnlyWhole(s)
<1> DEFINE S == {s \in Seq(A) : NoReturn(s) => OnlyWhole(s)}
<1>1. <<>> \in S
    <2>1. <<>> \in Seq(A) /\ Len(<<>>) = 0
        BY EmptySeq
    <2>2. OnlyWhole(<<>>)
        BY <2>1, ToEmpty DEF OnlyWhole
    <2> QED BY <2>1, <2>2
<1>2. ASSUME NEW s \in Seq(A), NEW c \in A, s \in S PROVE Append(s, c) \in S
    <2>1. Append(s, c) \in Seq(A) /\ Len(Append(s, c)) = Len(s) + 1 /\ Append(s, c)[Len(s) + 1] = c
          /\ Len(s) \in Nat
        BY AppendProperties, LenProperties
    <2>2. NoReturn(Append(s, c)) => c # CR
        <3>1. Len(s) + 1 \in 1 .. Len(s) + 1
            BY <2>1
        <3> QED BY <2>1, <3>1 DEF NoReturn
    <2> QED BY <2>1, <2>2, OnlyWholeAppend
<1>3. Seq(A) \subseteq S
    <2> HIDE DEF S
    <2> QED BY <1>1, <1>2, SeqInduction
<1> QED BY <1>3

---------------------------------------------------------------------------
\* Which numbers another program gets through.
LEMMA OtherReads ==
    ASSUME NEW v \in Ids PROVE Reads("other", v) = v <=> v % 256 < 128 \/ v \div 256 = 255
<1> DEFINE R == IdRange
           h == v \div 256
           l == v % 256
<1>1. v \in Nat /\ v < R /\ R = 65536
    BY IdsAre DEF IdRange
<1> HIDE DEF R
<1>2. v = 256 * h + l /\ h \in Nat /\ h < 256 /\ l \in Nat /\ l < 256
    BY <1>1
<1>3. Reads("other", v) = IF l < 128 THEN v ELSE l + R - 256
    BY DEF Reads, R, l
<1> HIDE DEF h, l
<1>4. ~(l < 128) => (l + R - 256 = v <=> h = 255)
    BY <1>1, <1>2
<1> QED BY <1>3, <1>4 DEF h, l

\* What reaches the buffer of a packet of which n bytes were sent.
InBufferLen(n) == IF n < BufferSize THEN n ELSE BufferSize

LEMMA InBufferIs ==
    ASSUME NEW A, NEW w \in Seq(A), NEW n \in 0 .. Len(w)
    PROVE  /\ InBuffer(SubSeq(w, 1, n)) = SubSeq(w, 1, InBufferLen(n))
           /\ InBufferLen(n) \in 0 .. Len(w) /\ InBufferLen(n) \in 0 .. n
<1> DEFINE k == InBufferLen(n)
           b == SubSeq(w, 1, n)
<1>1. Len(w) \in Nat /\ n \in Nat /\ n <= Len(w)
    BY LenProperties
<1>2. BufferSize \in Nat
    BY BufferAssumption
<1>3. k \in 0 .. n /\ k \in 0 .. Len(w)
    BY <1>1, <1>2 DEF InBufferLen
<1>4. b \in Seq(A) /\ Len(b) = n /\ \A i \in 1 .. n : b[i] = w[i]
    BY Firsts
<1>5. InBuffer(b) = SubSeq(b, 1, k)
    BY <1>4 DEF InBuffer, InBufferLen
<1> HIDE DEF b, k
<1>6. SubSeq(b, 1, k) \in Seq(A) /\ Len(SubSeq(b, 1, k)) = k /\ \A i \in 1 .. k : SubSeq(b, 1, k)[i] = b[i]
    BY <1>3, <1>4, Firsts
<1>7. SubSeq(w, 1, k) \in Seq(A) /\ Len(SubSeq(w, 1, k)) = k /\ \A i \in 1 .. k : SubSeq(w, 1, k)[i] = w[i]
    BY <1>3, Firsts
<1>8. \A i \in 1 .. k : i \in 1 .. n
    BY <1>1, <1>3
<1>9. \A i \in 1 .. k : SubSeq(b, 1, k)[i] = SubSeq(w, 1, k)[i]
    BY <1>4, <1>6, <1>7, <1>8
<1>10. SubSeq(b, 1, k) = SubSeq(w, 1, k)
    BY <1>6, <1>7, <1>9, SeqEqual
<1> QED BY <1>3, <1>5, <1>10 DEF b, k

---------------------------------------------------------------------------
\* The packets of either make.
LEMMA OwnAre ==
    ASSUME NEW p \in OwnPackets
    PROVE  /\ p \in Packets /\ p.op \in {"RRQ", "WRQ", "DATA", "ACK", "ERROR"}
           /\ p.op \in {"RRQ", "WRQ"} => p.mode \in {Octet, NetAscii}
           /\ p.op = "ERROR" => /\ p.code \in 0 .. 7
                                /\ p.message \in Seq(Byte \ {NUL, CR}) \cup {<<DefaultText>>}
<1> DEFINE names == Seq(Byte \ {NUL})
           own == Seq(Byte \ {NUL, CR}) \cup {<<DefaultText>>}
           chunks == Seq(Byte)
<1>1. \/ p \in RequestPackets(names, {Octet, NetAscii})
      \/ p \in DataPackets(chunks)
      \/ p \in AckPackets
      \/ p \in Errors(0 .. 7, own)
    BY OwnAssumption
<1>2. own \subseteq Messages
    <2>1. Seq(Byte \ {NUL, CR}) \subseteq Seq(Byte)
        BY Spellings
    <2> QED BY <2>1 DEF Messages
<1>3. 0 .. 7 \subseteq Ids
    <2>1. ASSUME NEW c \in 0 .. 7 PROVE c \in Ids
        BY SmallNumber
    <2> QED BY <2>1
<1>4. {Octet, NetAscii} \subseteq Modes
    BY DEF Modes
<1> HIDE DEF own, names
<1>5. CASE p \in RequestPackets(names, {Octet, NetAscii})
    <2>1. p \in RequestPackets(names, Modes)
        BY <1>4, <1>5 DEF RequestPackets
    <2>2. p \in Packets
        BY <2>1 DEF Packets, names
    <2> QED BY <1>5, <2>2 DEF RequestPackets
<1>6. CASE p \in DataPackets(chunks)
    <2>1. p \in Packets
        BY <1>6 DEF Packets
    <2> QED BY <1>6, <2>1 DEF DataPackets
<1>7. CASE p \in AckPackets
    <2>1. p \in Packets
        BY <1>7 DEF Packets
    <2> QED BY <1>7, <2>1 DEF AckPackets
<1>8. CASE p \in Errors(0 .. 7, own)
    <2> DEFINE codes == 0 .. 7
    <2> HIDE DEF codes
    <2>1. p \in Errors(codes, own) /\ codes \subseteq Ids
        BY <1>3, <1>8 DEF codes
    <2>2. p \in Errors(Ids, Messages)
        BY <1>2, <2>1 DEF Errors
    <2>3. p \in Packets
        BY <2>2 DEF Packets
    <2>4. p.op = "ERROR" /\ p.code \in codes /\ p.message \in own
        BY <2>1 DEF Errors
    <2> QED BY <2>3, <2>4 DEF codes, own
<1> QED BY <1>1, <1>5, <1>6, <1>7, <1>8

LEMMA ForeignAre == ForeignPackets \subseteq Packets
    BY ForeignAssumption DEF Packets, Modes, Messages

\* The bytes of a packet.
LEMMA BytesType ==
    ASSUME NEW who \in {"this", "other"}, NEW p \in Packets
    PROVE  ToBytes(who, p) \in Seq(Elements) /\ Len(ToBytes(who, p)) \in Nat
<1> DEFINE c == Opcode[p.op]
           x == Number(who, c)
           y == Body(who, p)
<1>1. ToBytes(who, p) = x \o y /\ c \in 0 .. 15 /\ y \in Seq(Elements)
    BY BodyType
<1>2. x \in Seq(Elements)
    <2>1. Seq(Byte) \subseteq Seq(Elements)
        BY Spellings
    <2>2. c \in Ids
        BY <1>1, SmallNumber
    <2> HIDE DEF c
    <2> QED BY <2>1, <2>2, NumberIs
<1> HIDE DEF x, y
<1> QED BY <1>1, <1>2, ConcatProperties, LenProperties

---------------------------------------------------------------------------
\* What is parsed of a packet of this program.
Fits(p, n) == /\ \A k \in DOMAIN SpelledText(p) : SpelledText(p)[k] # CR
              /\ IF p.op = "DATA" THEN n <= BufferSize ELSE n - 1 <= BufferSize
Arrived(p) == LET whole == ToBytes("this", p)
              IN  ParsePacket(SubSeq(whole, 1, InBufferLen(Len(whole)))) = Wire(p) <=> Fits(p, Len(whole))

LEMMA LowerIs == \A m \in {Octet, NetAscii} : Lower(m) = m
    BY DEF Lower, Octet, NetAscii, UpperOctet

LEMMA BufferLenIs ==
    ASSUME NEW n \in Nat
    PROVE  /\ InBufferLen(n) \in 0 .. n
           /\ n <= BufferSize => InBufferLen(n) = n
           /\ n > BufferSize => InBufferLen(n) = BufferSize
           /\ n >= 4 => InBufferLen(n) >= 4
           /\ n >= 5 => InBufferLen(n) >= 5
           /\ BufferSize \in Nat
    BY BufferAssumption DEF InBufferLen

\* Kind by kind.
LEMMA RequestArrives ==
    ASSUME NEW p \in OwnPackets, p.op \in {"RRQ", "WRQ"} PROVE Arrived(p)
<1> DEFINE e == ToNetASCII(p.file)
           w == ToBytes("this", p)
           n == Len(w)
           k == InBufferLen(n)
           r == ParsePacket(SubSeq(w, 1, k))
<1>1. p \in Packets /\ p.mode \in {Octet, NetAscii} /\ p.file \in Seq(Byte \ {NUL}) /\ p = Request(p.op, p.file, p.mode)
    <2>1. p \in Packets /\ p.mode \in {Octet, NetAscii}
        BY OwnAre
    <2> QED BY <2>1, KindsAre
<1>2. n \in Nat /\ k \in 0 .. n
    BY <1>1, BytesType, BufferLenIs
<1>3. /\ n = Len(e) + 5 /\ Len(e) \in Nat
      /\ r = IF ZeroFree(e) /\ k >= Len(e) + 4 /\ Lower(p.mode) \in {Octet, NetAscii}
             THEN Request(p.op, p.file, Lower(p.mode)) ELSE Threw("UNDEFINED")
    <2> HIDE DEF k
    <2>1. LET f == ToNetASCII(p.file)
          IN  /\ Len(ToBytes("this", p)) = Len(f) + 5 /\ Len(f) \in Nat
              /\ ParsePacket(SubSeq(ToBytes("this", p), 1, k)) =
                     IF ZeroFree(f) /\ k >= Len(f) + 4 /\ Lower(p.mode) \in {Octet, NetAscii}
                     THEN Request(p.op, p.file, Lower(p.mode)) ELSE Threw("UNDEFINED")
        BY <1>1, <1>2, RequestParsed
    <2> QED BY <2>1
<1>4. k >= Len(e) + 4 <=> n - 1 <= BufferSize
    <2> HIDE DEF k, n
    <2>1. k = InBufferLen(n) /\ BufferSize \in Nat
        BY BufferAssumption DEF k
    <2> QED BY <1>2, <1>3, <2>1 DEF InBufferLen
<1>5. ZeroFree(e) <=> \A i \in DOMAIN p.file : p.file[i] # CR
    <2>1. p.file \in Seq(Byte) /\ DOMAIN p.file = 1 .. Len(p.file) /\ Len(p.file) \in Nat
        BY <1>1, LenProperties
    <2>2. ZeroFree(p.file)
        BY <1>1, ElementOfSeq DEF ZeroFree
    <2>3. {NUL, LF, CR} \subseteq Byte
        BY Spellings
    <2>4. ZeroFree(e) <=> ZeroFree(p.file) /\ NoReturn(p.file)
        BY <2>1, <2>3, ZerosOfEncoding
    <2> QED BY <2>1, <2>2, <2>4 DEF NoReturn
<1> HIDE DEF n, k, e, w
<1>6. SpelledText(p) = p.file /\ Wire(p) = p /\ Threw("UNDEFINED") # p /\ p.op # "DATA"
    <2>1. IsRequest(p) /\ p.op \notin {"DATA", "ACK"} /\ p.op # "GARBLED"
        BY DEF IsRequest
    <2>2. Threw("UNDEFINED").op = "GARBLED"
        BY DEF Threw
    <2> QED BY <2>1, <2>2 DEF SpelledText, Wire
<1>7. r = p <=> ZeroFree(e) /\ n - 1 <= BufferSize
    <2>1. Lower(p.mode) = p.mode
        BY <1>1, LowerIs
    <2> HIDE DEF r
    <2> QED BY <1>1, <1>3, <1>4, <1>6, <2>1
<1>8. Fits(p, n) <=> ZeroFree(e) /\ n - 1 <= BufferSize
    BY <1>5, <1>6 DEF Fits
<1> HIDE DEF r
<1>9. r = Wire(p) <=> Fits(p, n)
    BY <1>6, <1>7, <1>8
<1> QED BY <1>9 DEF Arrived, r, k, n, w

LEMMA DataArrives ==
    ASSUME NEW p \in OwnPackets, p.op = "DATA" PROVE Arrived(p)
<1> DEFINE w == ToBytes("this", p)
           n == Len(w)
           k == InBufferLen(n)
           r == ParsePacket(SubSeq(w, 1, k))
           y == p.chunk
           l == Len(y)
<1>1. p \in Packets /\ p.id \in Ids /\ y \in Seq(Byte) /\ p = Data(p.id, y)
    <2>1. p \in Packets
        BY OwnAre
    <2> QED BY <2>1, KindsAre
<1>2. n \in Nat /\ k \in 0 .. n
    BY <1>1, BytesType, BufferLenIs
<1>3. /\ n = l + 4 /\ l \in Nat
      /\ r = IF k < 4 THEN Threw("UNDEFINED") ELSE Data(Reads("this", p.id), SubSeq(y, 1, k - 4))
    <2> HIDE DEF k
    <2> QED BY <1>1, <1>2, DataParsed
<1>4. k \in Nat /\ ~(k < 4) /\ k - 4 \in 0 .. l /\ (k - 4 = l <=> n <= BufferSize)
    <2> HIDE DEF n, l
    <2>1. n >= 4
        BY <1>2, <1>3
    <2>2. /\ n <= BufferSize => k = n
          /\ n > BufferSize => k = BufferSize
          /\ k >= 4 /\ BufferSize \in Nat
        BY <1>2, <2>1, BufferLenIs
    <2> HIDE DEF k
    <2> QED BY <1>2, <1>3, <2>1, <2>2
<1> HIDE DEF k, n, w, r
<1>5. SubSeq(y, 1, k - 4) = y <=> k - 4 = l
    <2>1. Len(SubSeq(y, 1, k - 4)) = k - 4
        BY <1>1, <1>4, Firsts
    <2>2. SubSeq(y, 1, l) = y
        BY <1>1, SubSeqFull
    <2> QED BY <2>1, <2>2
<1> HIDE DEF l
<1>6. r = Data(WireId(p.id), SubSeq(y, 1, k - 4))
    BY <1>3, <1>4 DEF Reads
<1> DEFINE c == SubSeq(y, 1, k - 4)
           i == WireId(p.id)
<1> HIDE DEF c, i
<1>7. Wire(p) = Data(i, y)
    <2>1. Wire(p) = [p EXCEPT !.id = i]
        BY DEF Wire, i
    <2> HIDE DEF y
    <2> QED BY <1>1, <2>1 DEF Data
<1>8. r = Wire(p) <=> c = y
    <2>1. r = Data(i, c)
        BY <1>6 DEF i, c
    <2> HIDE DEF y
    <2> QED BY <1>7, <2>1 DEF Data
<1>9. SpelledText(p) = <<>>
    BY DEF SpelledText, IsRequest
<1>10. Fits(p, n) <=> n <= BufferSize
    BY <1>9 DEF Fits
<1>11. r = Wire(p) <=> Fits(p, n)
    BY <1>4, <1>5, <1>8, <1>10 DEF c
<1> QED BY <1>11 DEF Arrived, r, k, n, w

LEMMA AckArrives ==
    ASSUME NEW p \in OwnPackets, p.op = "ACK" PROVE Arrived(p)
<1> DEFINE w == ToBytes("this", p)
           n == Len(w)
           k == InBufferLen(n)
           r == ParsePacket(SubSeq(w, 1, k))
<1>1. p \in Packets /\ p.id \in Ids /\ p = Ack(p.id)
    <2>1. p \in Packets
        BY OwnAre
    <2> QED BY <2>1, KindsAre
<1>2. n \in Nat /\ k \in 0 .. n
    BY <1>1, BytesType, BufferLenIs
<1>3. /\ n = 4
      /\ r = IF k < 4 THEN Threw("UNDEFINED") ELSE Ack(Reads("this", p.id))
    <2> HIDE DEF k
    <2> QED BY <1>1, <1>2, AckParsed
<1>4. ~(k < 4) /\ n - 1 <= BufferSize
    <2> HIDE DEF n
    <2>1. n >= 4 /\ k = InBufferLen(n)
        BY <1>2, <1>3
    <2> QED BY <1>2, <1>3, <2>1, BufferLenIs, BufferAssumption
<1> HIDE DEF k, n, w, r
<1>5. r = Ack(WireId(p.id))
    BY <1>3, <1>4 DEF Reads
<1>6. Wire(p) = Ack(WireId(p.id))
    <2> DEFINE i == WireId(p.id)
    <2>1. Wire(p) = [p EXCEPT !.id = i]
        BY DEF Wire
    <2> HIDE DEF i
    <2> QED BY <1>1, <2>1 DEF Ack, i
<1>7. SpelledText(p) = <<>> /\ p.op # "DATA"
    BY DEF SpelledText, IsRequest
<1>8. Fits(p, n)
    BY <1>4, <1>7 DEF Fits
<1> QED BY <1>5, <1>6, <1>8 DEF Arrived, r, k, n, w

\* The encoding of a default message is the element that stands for it.
LEMMA DefaultEncoded == ToNetASCII(<<DefaultText>>) = <<DefaultText>>
<1>1. DefaultText \in Elements /\ {NUL, LF, CR} \subseteq Elements /\ DefaultText \notin {CR, LF}
    BY Spellings DEF DefaultText, CR, LF
<1>2. <<>> \in Seq(Elements) /\ Append(<<>>, DefaultText) = <<DefaultText>>
    BY EmptySeq
<1>3. Encoded(DefaultText) = <<DefaultText>>
    BY <1>1, EncodedType
<1>4. ToNetASCII(Append(<<>>, DefaultText)) = ToNetASCII(<<>>) \o Encoded(DefaultText)
    BY <1>1, <1>2, ToAppend
<1>5. <<>> \o <<DefaultText>> = <<DefaultText>>
    <2>1. <<DefaultText>> \in Seq(Elements)
        BY <1>1
    <2> QED BY <2>1, ConcatEmptySeq
<1> QED BY <1>2, <1>3, <1>4, <1>5, ToEmpty

\* The texts of the errors that this program sends.
LEMMA OwnMessages ==
    ASSUME NEW s \in Seq(Byte \ {NUL, CR}) \cup {<<DefaultText>>}
    PROVE  /\ s \in Seq(Elements) /\ ZeroFree(s) /\ NoReturn(s)
           /\ s = <<DefaultText>> => Len(ToNetASCII(s)) = 1
<1> DEFINE plain == Elements \ {NUL, CR}
<1>1. Byte \ {NUL, CR} \subseteq plain /\ DefaultText \in plain
    BY Spellings DEF DefaultText, CR, NUL
<1>2. s \in Seq(plain)
    <2>1. Seq(Byte \ {NUL, CR}) \subseteq Seq(plain)
        BY <1>1
    <2>2. <<DefaultText>> \in Seq(plain)
        BY <1>1
    <2> QED BY <2>1, <2>2
<1>3. \A i \in 1 .. Len(s) : s[i] \in plain
    BY <1>2, ElementOfSeq
<1>4. Seq(plain) \subseteq Seq(Elements)
    OBVIOUS
<1>5. Len(<<DefaultText>>) = 1
    OBVIOUS
<1> QED BY <1>2, <1>3, <1>4, <1>5, DefaultEncoded DEF ZeroFree, NoReturn

\* What is read of the text of an error: all of it, or what is decoded from a beginning.
LEMMA ErrorTextIs ==
    ASSUME NEW s \in Seq(Elements), ZeroFree(s), NoReturn(s), NEW j \in 0 .. Len(ToNetASCII(s)) + 1
    PROVE  ErrorText(s, j) = s <=> j >= Len(ToNetASCII(s))
<1> DEFINE e == ToNetASCII(s)
           m == IF j <= Len(e) THEN j ELSE Len(e)
<1>1. {NUL, LF, CR} \subseteq Elements /\ NUL \in Elements
    BY Spellings
<1>2. e \in Seq(Elements) /\ Len(e) \in Nat /\ FromNetASCII(e) = s
    <2>1. Survives(s)
        BY <1>1, AllSurvive
    <2> QED BY <1>1, <2>1, ToType, LenProperties DEF Survives
<1>3. ZeroFree(e)
    BY <1>1, ZerosOfEncoding
<1>4. ErrorText(s, j) = FromNetASCII(SubSeq(e, 1, m))
    <2>1. ReadUntilZero(SubSeq(e \o <<NUL>>, 1, j)) = SubSeq(e, 1, m)
        <3> DEFINE t == e
        <3>1. t \in Seq(Elements) /\ ZeroFree(t) /\ j \in 0 .. Len(t) + 1
            BY <1>2, <1>3
        <3> HIDE DEF t
        <3>2. ReadUntilZero(SubSeq(t \o <<NUL>>, 1, j)) = SubSeq(t, 1, IF j <= Len(t) THEN j ELSE Len(t))
            BY <1>1, <3>1, MessageCut
        <3> QED BY <3>2 DEF t
    <2> QED BY <2>1 DEF ErrorText
<1>5. OnlyWhole(s)
    BY <1>1, ProperBeginning
<1>6. m \in 0 .. Len(e) /\ (m = Len(e) <=> j >= Len(e))
    <2> DEFINE l == Len(e)
    <2>1. l \in Nat
        BY <1>2
    <2> HIDE DEF l
    <2>2. (IF j <= l THEN j ELSE l) \in 0 .. l /\ ((IF j <= l THEN j ELSE l) = l <=> j >= l)
        BY <2>1
    <2> QED BY <2>2 DEF l
<1> HIDE DEF m
<1>7. SubSeq(e, 1, Len(e)) = e
    BY <1>2, SubSeqFull
<1>8. m # Len(e) => FromNetASCII(SubSeq(e, 1, m)) # s
    BY <1>5, <1>6 DEF OnlyWhole
<1> QED BY <1>2, <1>4, <1>6, <1>7, <1>8

LEMMA ErrorArrives ==
    ASSUME NEW p \in OwnPackets, p.op = "ERROR" PROVE Arrived(p)
<1> DEFINE s == p.message
           e == ToNetASCII(s)
           l == Len(e)
           w == ToBytes("this", p)
           n == Len(w)
           k == InBufferLen(n)
           r == ParsePacket(SubSeq(w, 1, k))
           u == ErrorText(s, k - 4)
<1>1. /\ p \in Packets /\ p = ErrorMessage(p.code, s) /\ p.code \in 0 .. 7
      /\ s \in Seq(Byte \ {NUL, CR}) \cup {<<DefaultText>>}
    <2>1. p \in Packets /\ p.code \in 0 .. 7 /\ p.message \in Seq(Byte \ {NUL, CR}) \cup {<<DefaultText>>}
        BY OwnAre
    <2> QED BY <2>1, KindsAre
<1>2. n \in Nat /\ k \in 0 .. n
    BY <1>1, BytesType, BufferLenIs
<1>3. /\ n = l + 5 /\ l \in Nat
      /\ r = IF k < 4 THEN Threw("UNDEFINED") ELSE ErrorMessage(Reads("this", p.code), u)
    <2> HIDE DEF k
    <2> QED BY <1>1, <1>2, ErrorParsed
<1>4. Reads("this", p.code) = p.code
    <2>1. p.code \in 0 .. 15
        BY <1>1
    <2> QED BY <2>1, SmallNumber
<1>5. /\ k \in Nat /\ ~(k < 4) /\ k - 4 \in 0 .. l + 1 /\ k - 4 >= 1
      /\ k - 4 >= l <=> n - 1 <= BufferSize
    <2> HIDE DEF n, l
    <2>1. n >= 4 /\ n >= 5
        BY <1>2, <1>3
    <2>2. /\ n <= BufferSize => k = n
          /\ n > BufferSize => k = BufferSize
          /\ k >= 5 /\ BufferSize \in Nat
        BY <1>2, <2>1, BufferLenIs
    <2> HIDE DEF k
    <2> QED BY <1>2, <1>3, <2>1, <2>2
<1>6. s \in Seq(Elements) /\ ZeroFree(s) /\ NoReturn(s) /\ (s = <<DefaultText>> => l = 1)
    BY <1>1, OwnMessages
<1>7. u = s <=> k - 4 >= l
    <2> DEFINE j == k - 4
    <2>1. j \in 0 .. Len(ToNetASCII(s)) + 1
        BY <1>5
    <2> HIDE DEF j
    <2>2. ErrorText(s, j) = s <=> j >= Len(ToNetASCII(s))
        BY <1>6, <2>1, ErrorTextIs
    <2> QED BY <2>2 DEF j
<1>8. s = <<DefaultText>> => k - 4 >= l
    <2> HIDE DEF l, k
    <2> QED BY <1>5, <1>6
<1> HIDE DEF l, k, u, r, n, w
<1>9. r = ErrorMessage(p.code, u)
    BY <1>3, <1>4, <1>5
<1>10. r = p <=> u = s
    <2>1. ASSUME u = s PROVE r = p
        BY <1>1, <1>9, <2>1
    <2>2. ASSUME r = p PROVE u = s
        <3>1. r.message = IF u = <<>> /\ p.code \in 1 .. 6 THEN <<DefaultText>> ELSE u
            BY <1>9 DEF ErrorMessage
        <3>2. CASE r.message = u
            BY <2>2, <3>2
        <3>3. CASE r.message = <<DefaultText>>
            BY <1>7, <1>8, <2>2, <3>3
        <3> QED BY <3>1, <3>2, <3>3
    <2> QED BY <2>1, <2>2
<1>11. Wire(p) = p /\ SpelledText(p) = s /\ p.op # "DATA"
    BY DEF Wire, SpelledText, IsRequest
<1>12. DOMAIN s = 1 .. Len(s)
    BY <1>6, LenProperties
<1>13. Fits(p, n) <=> n - 1 <= BufferSize
    <2> HIDE DEF s
    <2> QED BY <1>6, <1>11, <1>12 DEF Fits, NoReturn
<1>14. r = Wire(p) <=> Fits(p, n)
    BY <1>5, <1>7, <1>10, <1>11, <1>13
<1> QED BY <1>14 DEF Arrived, r, k, n, w

\* What Tftp takes for the effect of the wire on the packets of this program.
LEMMA OwnArrive == \A p \in OwnPackets : Arrived(p)
    BY OwnAre, RequestArrives, DataArrives, AckArrives, ErrorArrives

---------------------------------------------------------------------------
\* What is parsed of the first k bytes of any packet: nothing, or a packet of its kind
\* that shares with what is parsed of all bytes what ShortOrRefused says.
Agree(r, whole, p) ==
    /\ r.op = p.op
    /\ r.op \in {"DATA", "ACK"} => r.id = whole.id
    /\ r.op = "DATA" => IsPrefix(r.chunk, whole.chunk)
    /\ r.op = "ERROR" => r.code = whole.code
    /\ IsRequest(r) => r = whole
NumberKept(r, p) == r.op \in {"DATA", "ACK"} => (r.id = p.id <=> p.id % 256 < 128 \/ p.id \div 256 = 255)

Cut(who, p, k) == ParsePacket(SubSeq(ToBytes(who, p), 1, k))
Understood(who, p, k) ==
    LET r == Cut(who, p, k)
    IN  /\ r \in Parsed \cup {Threw("UNDEFINED"), Threw("ILLEGAL_OPCODE")}
        /\ r.op # "GARBLED" => Agree(r, ParsePacket(ToBytes(who, p)), p)
        /\ who = "other" => NumberKept(r, p)

LEMMA ThrewIs == \A c : Threw(c).op = "GARBLED"
    BY DEF Threw

LEMMA Refused ==
    ASSUME NEW who, NEW p, NEW k,
           Cut(who, p, k) \in {Threw("UNDEFINED"), Threw("ILLEGAL_OPCODE")}
    PROVE  Understood(who, p, k)
<1>1. Cut(who, p, k).op = "GARBLED"
    BY ThrewIs
<1> QED BY <1>1 DEF Understood, NumberKept

\* All bytes are the first as many.
LEMMA CutWhole ==
    ASSUME NEW who \in {"this", "other"}, NEW p \in Packets
    PROVE  LET L == Len(ToBytes(who, p)) IN L \in 0 .. L /\ L \in Nat /\ Cut(who, p, L) = ParsePacket(ToBytes(who, p))
<1>1. ToBytes(who, p) \in Seq(Elements) /\ Len(ToBytes(who, p)) \in Nat
    BY BytesType
<1>2. SubSeq(ToBytes(who, p), 1, Len(ToBytes(who, p))) = ToBytes(who, p)
    BY <1>1, SubSeqFull
<1> DEFINE L == Len(ToBytes(who, p))
<1>3. L \in Nat /\ Cut(who, p, L) = ParsePacket(ToBytes(who, p))
    BY <1>1, <1>2 DEF Cut
<1> HIDE DEF L
<1>4. L \in 0 .. L
    BY <1>3
<1> QED BY <1>3, <1>4 DEF L

\* Kind by kind.
LEMMA RequestUnderstood ==
    ASSUME NEW who \in {"this", "other"}, NEW p \in Packets, p.op \in {"RRQ", "WRQ"},
           NEW k \in 0 .. Len(ToBytes(who, p))
    PROVE  Understood(who, p, k)
<1> DEFINE e == ToNetASCII(p.file)
           L == Len(ToBytes(who, p))
           q == Request(p.op, p.file, Lower(p.mode))
           Good(j) == ZeroFree(e) /\ j >= Len(e) + 4 /\ Lower(p.mode) \in {Octet, NetAscii}
<1>1. \A j \in 0 .. L : Cut(who, p, j) = IF Good(j) THEN q ELSE Threw("UNDEFINED")
    <2> SUFFICES ASSUME NEW j \in 0 .. L PROVE Cut(who, p, j) = IF Good(j) THEN q ELSE Threw("UNDEFINED")
        OBVIOUS
    <2>1. LET f == ToNetASCII(p.file)
          IN  /\ Len(ToBytes(who, p)) = Len(f) + 5 /\ Len(f) \in Nat
              /\ ParsePacket(SubSeq(ToBytes(who, p), 1, j)) =
                     IF ZeroFree(f) /\ j >= Len(f) + 4 /\ Lower(p.mode) \in {Octet, NetAscii}
                     THEN Request(p.op, p.file, Lower(p.mode)) ELSE Threw("UNDEFINED")
        BY RequestParsed
    <2> QED BY <2>1 DEF Cut
<1>2. L = Len(e) + 5 /\ Len(e) \in Nat
    <2>1. LET f == ToNetASCII(p.file)
          IN  /\ Len(ToBytes(who, p)) = Len(f) + 5 /\ Len(f) \in Nat
              /\ ParsePacket(SubSeq(ToBytes(who, p), 1, k)) =
                     IF ZeroFree(f) /\ k >= Len(f) + 4 /\ Lower(p.mode) \in {Octet, NetAscii}
                     THEN Request(p.op, p.file, Lower(p.mode)) ELSE Threw("UNDEFINED")
        BY RequestParsed
    <2> QED BY <2>1
<1>3. L \in 0 .. L /\ Cut(who, p, L) = ParsePacket(ToBytes(who, p))
    BY CutWhole
<1>4. Good(k) => Good(L)
    <2> HIDE DEF L, e
    <2>1. L >= Len(e) + 4
        BY <1>2
    <2> QED BY <2>1
<1>5. p.file \in Spelled
    <2>1. p.file \in Seq(Byte \ {NUL})
        BY KindsAre
    <2>2. Seq(Byte \ {NUL}) \subseteq Seq(Elements)
        BY Spellings
    <2> QED BY <2>1, <2>2 DEF Spelled
<1> HIDE DEF L, q
<1>6. CASE Good(k)
    <2>1. Cut(who, p, k) = q /\ ParsePacket(ToBytes(who, p)) = q
        BY <1>1, <1>3, <1>4, <1>6 DEF L
    <2>2. q.op = p.op /\ p.op \notin {"DATA", "ACK", "ERROR"}
        BY DEF q, Request
    <2>3. q \in Parsed
        BY <1>5, <1>6 DEF q, Request, Parsed
    <2>4. Agree(q, q, p) /\ NumberKept(q, p)
        BY <2>2 DEF Agree, NumberKept
    <2> HIDE DEF Good
    <2> QED BY <2>1, <2>3, <2>4 DEF Understood
<1>7. CASE ~Good(k)
    <2>1. Cut(who, p, k) = Threw("UNDEFINED")
        BY <1>1, <1>7 DEF L
    <2> QED BY <2>1, Refused
<1> QED BY <1>6, <1>7

LEMMA DataUnderstood ==
    ASSUME NEW who \in {"this", "other"}, NEW p \in Packets, p.op = "DATA",
           NEW k \in 0 .. Len(ToBytes(who, p))
    PROVE  Understood(who, p, k)
<1> DEFINE L == Len(ToBytes(who, p))
           y == p.chunk
           i == Reads(who, p.id)
<1>1. p.id \in Ids /\ y \in Seq(Byte)
    BY KindsAre
<1>2. L = Len(y) + 4 /\ Len(y) \in Nat /\ i \in Ids
    BY DataParsed
<1>3. \A j \in 0 .. L : Cut(who, p, j) = IF j < 4 THEN Threw("UNDEFINED") ELSE Data(i, SubSeq(y, 1, j - 4))
    <2> SUFFICES ASSUME NEW j \in 0 .. L
                 PROVE  Cut(who, p, j) = IF j < 4 THEN Threw("UNDEFINED") ELSE Data(i, SubSeq(y, 1, j - 4))
        OBVIOUS
    <2> QED BY DataParsed DEF Cut
<1>4. L \in 0 .. L /\ Cut(who, p, L) = ParsePacket(ToBytes(who, p))
    BY CutWhole
<1>5. who = "other" => (i = p.id <=> p.id % 256 < 128 \/ p.id \div 256 = 255)
    BY <1>1, OtherReads
<1> HIDE DEF i
<1>6. CASE k < 4
    <2>1. Cut(who, p, k) = Threw("UNDEFINED")
        BY <1>3, <1>6
    <2> QED BY <2>1, Refused
<1>7. CASE ~(k < 4)
    <2> DEFINE c == SubSeq(y, 1, k - 4)
               d == SubSeq(y, 1, L - 4)
               r == Data(i, c)
               whole == Data(i, d)
    <2> HIDE DEF L
    <2>1. ~(L < 4) /\ L - 4 = Len(y) /\ k - 4 \in 0 .. Len(y) /\ k \in Nat
        <3> DEFINE l == Len(y)
        <3>1. L = l + 4 /\ l \in Nat /\ k \in 0 .. L
            BY <1>2 DEF L
        <3> HIDE DEF l
        <3>2. ~(L < 4) /\ L - 4 = l /\ k - 4 \in 0 .. l /\ k \in Nat
            BY <1>7, <3>1
        <3> QED BY <3>2 DEF l
    <2>2. Cut(who, p, k) = r /\ ParsePacket(ToBytes(who, p)) = whole
        BY <1>3, <1>4, <1>7, <2>1 DEF L
    <2>3. d = y
        BY <1>1, <2>1, SubSeqFull
    <2>4. c \in Seq(Byte) /\ Len(c) = k - 4 /\ k - 4 <= Len(y)
        BY <1>1, <1>2, <2>1, Firsts
    <2>5. SubSeq(c, 1, Len(c)) = c
        BY <2>4, SubSeqFull
    <2>6. IsPrefix(c, d)
        BY <2>3, <2>4, <2>5 DEF IsPrefix
    <2>7. c \in Spelled
        <3>1. Seq(Byte) \subseteq Seq(Elements)
            BY Spellings
        <3> QED BY <2>4, <3>1 DEF Spelled
    <2> HIDE DEF c, d, y
    <2>8. r.op = "DATA" /\ r.id = i /\ r.chunk = c /\ whole.id = i /\ whole.chunk = d
        BY DEF Data
    <2>9. r \in Parsed
        BY <1>2, <2>7 DEF Data, Parsed
    <2> HIDE DEF r, whole
    <2>10. Agree(r, whole, p)
        BY <2>6, <2>8 DEF Agree, IsRequest
    <2>11. who = "other" => NumberKept(r, p)
        BY <1>5, <2>8 DEF NumberKept
    <2> QED BY <2>2, <2>9, <2>10, <2>11 DEF Understood
<1> QED BY <1>6, <1>7

LEMMA AckUnderstood ==
    ASSUME NEW who \in {"this", "other"}, NEW p \in Packets, p.op = "ACK",
           NEW k \in 0 .. Len(ToBytes(who, p))
    PROVE  Understood(who, p, k)
<1> DEFINE L == Len(ToBytes(who, p))
           i == Reads(who, p.id)
           r == Ack(i)
<1>1. p.id \in Ids
    BY KindsAre
<1>2. L = 4 /\ i \in Ids
    BY AckParsed
<1>3. \A j \in 0 .. L : Cut(who, p, j) = IF j < 4 THEN Threw("UNDEFINED") ELSE Ack(i)
    <2> SUFFICES ASSUME NEW j \in 0 .. L PROVE Cut(who, p, j) = IF j < 4 THEN Threw("UNDEFINED") ELSE Ack(i)
        OBVIOUS
    <2> QED BY AckParsed DEF Cut
<1>4. L \in 0 .. L /\ Cut(who, p, L) = ParsePacket(ToBytes(who, p))
    BY CutWhole
<1>5. who = "other" => (i = p.id <=> p.id % 256 < 128 \/ p.id \div 256 = 255)
    BY <1>1, OtherReads
<1> HIDE DEF i
<1>6. CASE k < 4
    <2>1. Cut(who, p, k) = Threw("UNDEFINED")
        BY <1>3, <1>6
    <2> QED BY <2>1, Refused
<1>7. CASE ~(k < 4)
    <2>1. Cut(who, p, k) = r
        BY <1>3, <1>7
    <2>2. ParsePacket(ToBytes(who, p)) = r
        <3> HIDE DEF L
        <3>1. ~(L < 4)
            BY <1>2
        <3> QED BY <1>3, <1>4, <3>1
    <2>3. r.op = "ACK" /\ r.id = i
        BY DEF Ack
    <2>4. r \in Parsed
        BY <1>2 DEF Ack, Parsed
    <2> HIDE DEF r
    <2>5. Agree(r, r, p)
        BY <2>3 DEF Agree, IsRequest
    <2>6. who = "other" => NumberKept(r, p)
        BY <1>5, <2>3 DEF NumberKept
    <2> QED BY <2>1, <2>2, <2>4, <2>5, <2>6 DEF Understood
<1> QED BY <1>6, <1>7

LEMMA ErrorUnderstood ==
    ASSUME NEW who \in {"this", "other"}, NEW p \in Packets, p.op = "ERROR",
           NEW k \in 0 .. Len(ToBytes(who, p))
    PROVE  Understood(who, p, k)
<1> DEFINE L == Len(ToBytes(who, p))
           l == Len(ToNetASCII(p.message))
           i == Reads(who, p.code)
           E(j) == ErrorMessage(i, ErrorText(p.message, j - 4))
<1>1. L = l + 5 /\ l \in Nat /\ i \in Ids /\ (k >= 4 => ErrorText(p.message, k - 4) \in Seq(Elements))
    BY ErrorParsed
<1>2. \A j \in 0 .. L : Cut(who, p, j) = IF j < 4 THEN Threw("UNDEFINED") ELSE E(j)
    <2> SUFFICES ASSUME NEW j \in 0 .. L PROVE Cut(who, p, j) = IF j < 4 THEN Threw("UNDEFINED") ELSE E(j)
        OBVIOUS
    <2> QED BY ErrorParsed DEF Cut
<1>3. L \in 0 .. L /\ Cut(who, p, L) = ParsePacket(ToBytes(who, p))
    BY CutWhole
<1> HIDE DEF i, l
<1>4. \A j : E(j).op = "ERROR" /\ E(j).code = i
    BY DEF ErrorMessage
<1>5. ASSUME k >= 4 PROVE E(k) \in Parsed
    <2> DEFINE u == ErrorText(p.message, k - 4)
               v == IF u = <<>> /\ i \in 1 .. 6 THEN <<DefaultText>> ELSE u
    <2>1. <<DefaultText>> \in Spelled /\ u \in Spelled
        <3>1. DefaultText \in Elements
            BY Spellings
        <3>2. <<DefaultText>> \in Seq(Elements)
            BY <3>1
        <3> QED BY <1>1, <1>5, <3>2 DEF Spelled
    <2> HIDE DEF u
    <2>2. v \in Spelled
        BY <2>1
    <2>3. E(k) = [op |-> "ERROR", code |-> i, message |-> v]
        BY DEF ErrorMessage, u
    <2> HIDE DEF v
    <2> QED BY <1>1, <2>2, <2>3 DEF Parsed
<1>6. CASE k < 4
    <2>1. Cut(who, p, k) = Threw("UNDEFINED")
        BY <1>2, <1>6
    <2> QED BY <2>1, Refused
<1>7. CASE ~(k < 4)
    <2> DEFINE r == E(k)
               whole == E(L)
    <2>1. Cut(who, p, k) = r
        BY <1>2, <1>7
    <2>2. ParsePacket(ToBytes(who, p)) = whole
        <3> HIDE DEF L, E
        <3>1. ~(L < 4)
            BY <1>1
        <3> QED BY <1>2, <1>3, <3>1
    <2>3. r \in Parsed
        <3>1. k >= 4
            <4> HIDE DEF L
            <4>1. k \in 0 .. L /\ L \in Nat
                BY <1>1 DEF L
            <4> QED BY <1>7, <4>1
        <3> QED BY <1>5, <3>1
    <2>4. r.op = "ERROR" /\ r.code = i /\ whole.code = i
        BY <1>4
    <2> HIDE DEF r, whole
    <2>5. Agree(r, whole, p)
        BY <2>4 DEF Agree, IsRequest
    <2>6. NumberKept(r, p)
        BY <2>4 DEF NumberKept
    <2> QED BY <2>1, <2>2, <2>3, <2>5, <2>6 DEF Understood
<1> QED BY <1>6, <1>7

LEMMA UnknownUnderstood ==
    ASSUME NEW who \in {"this", "other"}, NEW p \in Packets, p.op = "OACK",
           NEW k \in 0 .. Len(ToBytes(who, p))
    PROVE  Understood(who, p, k)
<1>1. /\ k < 2 => Cut(who, p, k) = Threw("UNDEFINED")
      /\ k >= 2 => Cut(who, p, k) = Threw("ILLEGAL_OPCODE")
    BY ParseCut DEF Cut
<1>2. k < 2 \/ k >= 2
    BY BytesType
<1> QED BY <1>1, <1>2, Refused

\* No packet of whatever kind and length is misunderstood.
LEMMA AllUnderstood ==
    ASSUME NEW who \in {"this", "other"}, NEW p \in Packets, NEW k \in 0 .. Len(ToBytes(who, p))
    PROVE  Understood(who, p, k)
<1>1. p.op \in {"RRQ", "WRQ"} \/ p.op \in {"DATA"} \/ p.op \in {"ACK"} \/ p.op \in {"OACK"} \/ p.op \in {"ERROR"}
    BY KindsAre
<1> QED BY <1>1, RequestUnderstood, DataUnderstood, AckUnderstood, UnknownUnderstood, ErrorUnderstood

---------------------------------------------------------------------------
(* A file that is transferred as netascii.                                 *)

\* Between the blocks all are whole, or the last is not and was the end.
BlocksInv ==
    \/ begin % BlockSize = 0 /\ told = FALSE
    \/ begin = Len(bytes) /\ begin % BlockSize # 0 /\ told = TRUE

FileInv ==
    /\ raw \in Seq(Byte)
    /\ pc \in {"send", "sent", "parsed", "file"} => begin = 0 /\ data = <<>> /\ told = FALSE
    /\ pc \in {"blocks", "closed"} =>
           /\ bytes = ToNetASCII(raw)
           /\ begin \in 0 .. Len(bytes)
           /\ data = SubSeq(bytes, 1, begin)
           /\ BlocksInv
    /\ pc = "closed" => out = FromNetASCII(data)

LEMMA Characters == {NUL, LF, CR} \subseteq Byte
    BY DEF Byte, NUL, LF, CR

LEMMA NextMultiple ==
    ASSUME NEW b \in Nat \ {0}, NEW x \in Nat, x % b = 0, NEW r \in 0 .. b
    PROVE  (x + r) % b = 0 <=> r \in {0, b}
<1>1. x = b * (x \div b) /\ x \div b \in Nat
    OBVIOUS
<1>2. CASE r = b
    <2> DEFINE p == x \div b
               q == (x + b) \div b
               m == (x + b) % b
    <2>1. x + b = b * q + m /\ q \in Nat /\ m \in Nat /\ m < b /\ x = b * p /\ p \in Nat
        BY <1>1
    <2> HIDE DEF p, q, m
    <2>2. b * (p + 1 - q) = m
        BY <2>1
    <2>3. p + 1 - q = 0
        BY <2>1, <2>2, NoProperMultiple
    <2>4. m = 0
        BY <2>1, <2>2, <2>3
    <2> QED BY <1>2, <2>4 DEF m
<1>3. CASE r # b
    <2>1. (x + r) % b = r
        BY <1>1, <1>3
    <2> QED BY <1>3, <2>1
<1> QED BY <1>2, <1>3

LEMMA FileInit == Init => FileInv
<1> SUFFICES ASSUME Init PROVE FileInv
    OBVIOUS
<1>1. raw \in Seq(Byte)
    <2>1. raw = <<>> \/ raw \in Texts
        BY DEF Init
    <2>2. <<>> \in Seq(Byte)
        BY EmptySeq
    <2> QED BY <2>1, <2>2, TextsAssumption
<1> QED BY <1>1 DEF Init, FileInv

LEMMA FileReads == FileInv /\ ReadFile => FileInv'
<1> SUFFICES ASSUME FileInv, ReadFile PROVE FileInv'
    OBVIOUS
<1>1. bytes' = ToNetASCII(raw) /\ pc' = "blocks" /\ UNCHANGED <<raw, begin, data, told>>
    BY DEF ReadFile
<1>2. raw \in Seq(Byte) /\ begin = 0 /\ data = <<>> /\ told = FALSE
    BY DEF FileInv, ReadFile
<1>3. bytes' \in Seq(Byte) /\ Len(bytes') \in Nat
    BY <1>1, <1>2, Characters, ToType, LenProperties
<1>4. SubSeq(bytes', 1, 0) = <<>>
    BY SubSeqEmpty
<1>5. 0 % BlockSize = 0
    BY BufferAssumption
<1>6. BlocksInv'
    BY <1>1, <1>2, <1>5 DEF BlocksInv
<1> HIDE DEF BlocksInv
<1> QED BY <1>1, <1>2, <1>3, <1>4, <1>6 DEF FileInv

LEMMA FileNextBlock == FileInv /\ NextBlock => FileInv'
<1> SUFFICES ASSUME FileInv, NextBlock PROVE FileInv'
    OBVIOUS
<1> DEFINE L == Len(bytes)
           end == BlockEnd
<1>1. /\ pc = "blocks" /\ begin # L /\ begin' = end
      /\ data' = data \o SubSeq(bytes, begin + 1, end)
      /\ told' = (end - begin < BlockSize)
      /\ UNCHANGED <<pc, bytes, raw, out>>
    BY DEF NextBlock, NextBegin, Received, Eof
<1>2. /\ raw \in Seq(Byte) /\ bytes = ToNetASCII(raw) /\ begin \in 0 .. L
      /\ data = SubSeq(bytes, 1, begin) /\ BlocksInv
    BY <1>1 DEF FileInv
<1>3. bytes \in Seq(Byte) /\ L \in Nat
    BY <1>2, Characters, ToType, LenProperties
<1>4. BlockSize \in Nat \ {0}
    BY BufferAssumption
<1>5. end \in begin + 1 .. L /\ (end - begin < BlockSize => end = L) /\ end - begin <= BlockSize
    BY <1>1, <1>2, <1>3, <1>4 DEF BlockEnd
<1>6. begin % BlockSize = 0 /\ told = FALSE
    BY <1>1, <1>2 DEF BlocksInv
<1> HIDE DEF end
<1>7. BlocksInv'
    <2> DEFINE r == end - begin
    <2>1. r \in 0 .. BlockSize /\ r # 0 /\ begin \in Nat /\ begin + r = end
        BY <1>2, <1>3, <1>4, <1>5
    <2>2. (begin + r) % BlockSize = 0 <=> r \in {0, BlockSize}
        <3> HIDE DEF r
        <3> QED BY <1>4, <1>6, <2>1, NextMultiple
    <2>3. end % BlockSize = 0 <=> ~(end - begin < BlockSize)
        BY <1>4, <2>1, <2>2
    <2>4. end % BlockSize # 0 => end = L
        BY <1>5, <2>3
    <2>5. CASE end % BlockSize = 0
        <3>1. told' = FALSE
            <4>1. (end - begin < BlockSize) = FALSE
                BY <2>3, <2>5
            <4> QED BY <1>1, <4>1
        <3> QED BY <1>1, <2>5, <3>1 DEF BlocksInv
    <2>6. CASE end % BlockSize # 0
        <3>1. told' = TRUE
            BY <1>1, <2>3, <2>6
        <3> QED BY <1>1, <2>4, <2>6, <3>1 DEF BlocksInv
    <2> QED BY <2>5, <2>6
<1>8. data' = SubSeq(bytes, 1, end)
    <2>1. 1 \in 1 .. L + 1 /\ begin \in 1 - 1 .. L /\ end \in begin .. L
        BY <1>2, <1>3, <1>5
    <2>2. SubSeq(bytes, 1, begin) \o SubSeq(bytes, begin + 1, end) = SubSeq(bytes, 1, end)
        BY <1>3, <2>1, ConcatAdjacentSubSeq
    <2> QED BY <1>1, <1>2, <2>2
<1>9. end \in 0 .. L
    BY <1>2, <1>3, <1>5
<1> HIDE DEF BlocksInv
<1> QED BY <1>1, <1>2, <1>7, <1>8, <1>9 DEF FileInv

LEMMA FileStep == FileInv /\ [Next]_vars => FileInv'
<1> SUFFICES ASSUME FileInv, [Next]_vars PROVE FileInv'
    OBVIOUS
<1>1. ASSUME NEW n \in 0 .. BufferSize + 2, Send(n) PROVE FileInv'
    BY <1>1 DEF Send, FileInv
<1>2. CASE Receive
    BY <1>2 DEF Receive, FileInv
<1>3. CASE ReadFile
    BY <1>3, FileReads
<1>4. CASE NextBlock
    BY <1>4, FileNextBlock
<1>5. CASE Close
    <2>1. BlocksInv => BlocksInv'
        BY <1>5 DEF Close, BlocksInv
    <2> HIDE DEF BlocksInv
    <2> QED BY <1>5, <2>1 DEF Close, FileInv
<1>6. CASE UNCHANGED vars
    <2>1. BlocksInv => BlocksInv'
        BY <1>6 DEF vars, BlocksInv
    <2> HIDE DEF BlocksInv
    <2> QED BY <1>6, <2>1 DEF vars, FileInv
<1> QED BY <1>1, <1>2, <1>3, <1>4, <1>5, <1>6 DEF Next

\* The blocks that have been received are what has been read so far of the encoded
\* file, and what is written is their text.
THEOREM FileInvariant == Spec => []FileInv
<1> QED BY FileInit, FileStep, PTL DEF Spec

\* A transfer that gets all its blocks writes the file that was read, wherever the
\* blocks end.
THEOREM TextSurvivesAlways == Spec => []TextSurvives
<1>1. FileInv => TextSurvives
    <2> SUFFICES ASSUME FileInv, pc = "closed", Eof PROVE out = raw
        BY DEF TextSurvives
    <2>1. /\ raw \in Seq(Byte) /\ bytes = ToNetASCII(raw) /\ begin = Len(bytes)
          /\ data = SubSeq(bytes, 1, begin) /\ out = FromNetASCII(data)
        BY DEF FileInv, Eof
    <2>2. data = bytes
        BY <2>1, Characters, ToType, SubSeqFull
    <2>3. Survives(raw)
        BY <2>1, Characters, AllSurvive
    <2> QED BY <2>1, <2>2, <2>3 DEF Survives
<1> QED BY <1>1, FileInvariant, PTL

\* One that gives up writes the beginning of the file, except for a CR in place of the
\* LF when the last block ended between the two.
THEOREM PartialTextAlways == Spec => []PartialText
<1>1. FileInv => PartialText
    <2> SUFFICES ASSUME FileInv, pc = "closed" PROVE Beginning(out, raw)
        BY DEF PartialText, Beginning
    <2>1. /\ raw \in Seq(Byte) /\ bytes = ToNetASCII(raw) /\ begin \in 0 .. Len(bytes)
          /\ data = SubSeq(bytes, 1, begin) /\ out = FromNetASCII(data)
        BY DEF FileInv
    <2>2. Survives(raw)
        BY <2>1, Characters, AllSurvive
    <2> QED BY <2>1, <2>2 DEF Survives
<1> QED BY <1>1, FileInvariant, PTL

\* The receiver is told of the end by a short block exactly if the encoding is no
\* whole number of blocks.
THEOREM EndIsToldAlways == Spec => []EndIsTold
<1>1. FileInv => EndIsTold
    BY DEF FileInv, BlocksInv, EndIsTold, Eof
<1> QED BY <1>1, FileInvariant, PTL

---------------------------------------------------------------------------
(* A packet on its way, and what is made of it.                           *)

Sent(who, p) == p \in IF who = "this" THEN OwnPackets ELSE ForeignPackets
Travelled(who, p, b) ==
    /\ Len(b) \in 0 .. Len(ToBytes(who, p)) /\ b = SubSeq(ToBytes(who, p), 1, Len(b))
    /\ who = "this" => Len(b) = Len(ToBytes(who, p))

PacketInv ==
    /\ pc \in {"send", "sent", "parsed", "file", "blocks", "closed"} /\ maker \in {"this", "other"}
    /\ IF pc \in {"send", "sent", "parsed"} THEN Sent(maker, pkt) ELSE pkt = NoPacket
    /\ pc \in {"sent", "parsed"} => Travelled(maker, pkt, bytes)
    /\ result = IF pc = "parsed" THEN ParsePacket(InBuffer(bytes)) ELSE NoPacket
    /\ pc \in {"send", "file"} => bytes = <<>>
    /\ pc # "closed" => out = <<>>

LEMMA SentAre == ASSUME NEW who \in {"this", "other"}, NEW p, Sent(who, p) PROVE p \in Packets
    BY OwnAre, ForeignAre DEF Sent

\* The invariant holds at first, and every step keeps it.
LEMMA PacketInit == Init => PacketInv
<1> SUFFICES ASSUME Init PROVE PacketInv
    OBVIOUS
<1> QED BY DEF Init, PacketInv, Sent

LEMMA PacketStep == PacketInv /\ [Next]_vars => PacketInv'
<1> SUFFICES ASSUME PacketInv, [Next]_vars PROVE PacketInv'
    OBVIOUS
<1>1. ASSUME NEW n \in 0 .. BufferSize + 2, Send(n) PROVE PacketInv'
    <2> DEFINE w == ToBytes(maker, pkt)
    <2>1. /\ pc = "send" /\ pc' = "sent" /\ bytes' = SubSeq(w, 1, n)
          /\ n <= Len(w) /\ (maker = "this" => n = Len(w))
          /\ UNCHANGED <<maker, pkt, result, out>>
        <3>1. /\ pc = "send" /\ pc' = "sent" /\ bytes' = SubSeq(w, 1, n)
              /\ IF maker = "this" THEN n = Len(w) ELSE n <= Len(w)
              /\ UNCHANGED <<maker, pkt, result, out>>
            BY <1>1 DEF Send
        <3>2. n = Len(w) => n <= Len(w)
            OBVIOUS
        <3> HIDE DEF w
        <3> QED BY <3>1, <3>2
    <2>2. Sent(maker, pkt) /\ maker \in {"this", "other"}
        BY <2>1 DEF PacketInv
    <2>3. w \in Seq(Elements) /\ Len(w) \in Nat
        BY <2>2, SentAre, BytesType
    <2> HIDE DEF w
    <2>4. n \in 0 .. Len(w)
        BY <2>1, <2>3
    <2>5. Len(bytes') = n
        BY <2>1, <2>3, <2>4, Firsts
    <2>6. Travelled(maker, pkt, bytes')
        BY <2>1, <2>4, <2>5 DEF Travelled, w
    <2> QED BY <2>1, <2>2, <2>6 DEF PacketInv
<1>2. CASE Receive
    BY <1>2 DEF Receive, PacketInv
<1>3. CASE ReadFile
    BY <1>3 DEF ReadFile, PacketInv
<1>4. CASE NextBlock
    BY <1>4 DEF NextBlock, PacketInv
<1>5. CASE Close
    BY <1>5 DEF Close, PacketInv
<1>6. CASE UNCHANGED vars
    BY <1>6 DEF vars, PacketInv
<1> QED BY <1>1, <1>2, <1>3, <1>4, <1>5, <1>6 DEF Next

\* What is under way are the bytes of a packet of its maker, all of them or the first,
\* and what came of it is what ParsePacket makes of those that the buffer holds.
THEOREM PacketInvariant == Spec => []PacketInv
<1> QED BY PacketInit, PacketStep, PTL DEF Spec

\* What the receiver of a packet has made of it.
LEMMA ResultIs ==
    ASSUME PacketInv, pc = "parsed"
    PROVE  /\ Sent(maker, pkt) /\ pkt \in Packets /\ maker \in {"this", "other"}
           /\ Len(bytes) \in 0 .. Len(ToBytes(maker, pkt))
           /\ InBufferLen(Len(bytes)) \in 0 .. Len(ToBytes(maker, pkt))
           /\ result = Cut(maker, pkt, InBufferLen(Len(bytes)))
           /\ maker = "this" => Len(bytes) = Len(ToBytes(maker, pkt))
<1> DEFINE w == ToBytes(maker, pkt)
           n == Len(bytes)
<1>1. Sent(maker, pkt) /\ maker \in {"this", "other"} /\ Travelled(maker, pkt, bytes) /\ result = ParsePacket(InBuffer(bytes))
    BY DEF PacketInv
<1>2. pkt \in Packets
    BY <1>1, SentAre
<1>3. w \in Seq(Elements)
    BY <1>1, <1>2, BytesType
<1>4. n \in 0 .. Len(w) /\ bytes = SubSeq(w, 1, n) /\ (maker = "this" => n = Len(w))
    BY <1>1 DEF Travelled
<1>5. InBuffer(bytes) = SubSeq(w, 1, InBufferLen(n)) /\ InBufferLen(n) \in 0 .. Len(w)
    <2> HIDE DEF n, w
    <2>1. InBuffer(SubSeq(w, 1, n)) = SubSeq(w, 1, InBufferLen(n)) /\ InBufferLen(n) \in 0 .. Len(w)
        BY <1>3, <1>4, InBufferIs
    <2> QED BY <1>4, <2>1
<1> QED BY <1>1, <1>2, <1>4, <1>5 DEF Cut

\* Numbers, texts and modes of the packets under way.
THEOREM CodecTypes == Spec => []TypeOK
<1>1. PacketInv /\ FileInv => TypeOK
    <2> SUFFICES ASSUME PacketInv, FileInv PROVE TypeOK
        OBVIOUS
    <2>1. /\ pc \in {"send", "sent", "parsed", "file", "blocks", "closed"} /\ maker \in {"this", "other"}
          /\ pkt = NoPacket \/ Sent(maker, pkt)
          /\ pc \in {"sent", "parsed"} => Sent(maker, pkt) /\ Travelled(maker, pkt, bytes)
          /\ pc \in {"send", "file"} => bytes = <<>>
          /\ pc # "closed" => out = <<>>
        BY DEF PacketInv
    <2>2. pkt.op \in DOMAIN Opcode \/ pkt = NoPacket
        <3>1. ASSUME Sent(maker, pkt) PROVE pkt.op \in DOMAIN Opcode
            <4>1. pkt \in Packets
                BY <2>1, <3>1, SentAre
            <4>2. pkt.op \in {"RRQ", "WRQ", "DATA", "ACK", "OACK", "ERROR"}
                BY <4>1, KindsAre
            <4> QED BY <4>2 DEF Opcode
        <3> QED BY <2>1, <3>1
    <2>3. result \in Parsed \cup {NoPacket, Threw("UNDEFINED"), Threw("ILLEGAL_OPCODE")}
        <3>1. CASE pc = "parsed"
            <4> DEFINE k == InBufferLen(Len(bytes))
            <4>1. pkt \in Packets /\ maker \in {"this", "other"} /\ k \in 0 .. Len(ToBytes(maker, pkt))
                  /\ result = Cut(maker, pkt, k)
                BY <3>1, ResultIs
            <4> HIDE DEF k
            <4>2. Understood(maker, pkt, k)
                BY <4>1, AllUnderstood
            <4> QED BY <4>1, <4>2 DEF Understood
        <3>2. CASE pc # "parsed"
            BY <3>2 DEF PacketInv
        <3> QED BY <3>1, <3>2
    <2>4. Seq(Byte) \subseteq Spelled /\ <<>> \in Spelled /\ {NUL, LF, CR} \subseteq Byte /\ {LF, CR} \subseteq Elements
        <3>1. Seq(Byte) \subseteq Seq(Elements)
            BY Spellings
        <3> QED BY <3>1, Spellings, EmptySeq DEF Spelled
    <2>5. raw \in Seq(Byte)
        BY DEF FileInv
    <2>6. CASE pc \in {"send", "sent", "parsed", "file"}
        <3>1. begin = 0 /\ data = <<>> /\ told = FALSE /\ out = <<>>
            BY <2>1, <2>6 DEF FileInv
        <3>2. bytes \in Spelled
            <4>1. CASE pc \in {"sent", "parsed"}
                <5>1. pkt \in Packets
                    BY <2>1, <4>1, SentAre
                <5>2. ToBytes(maker, pkt) \in Seq(Elements)
                    BY <2>1, <5>1, BytesType
                <5>3. Len(bytes) \in 0 .. Len(ToBytes(maker, pkt)) /\ bytes = SubSeq(ToBytes(maker, pkt), 1, Len(bytes))
                    BY <2>1, <4>1 DEF Travelled
                <5> QED BY <5>2, <5>3, Firsts DEF Spelled
            <4>2. CASE pc \in {"send", "file"}
                BY <2>1, <2>4, <4>2
            <4> QED BY <2>6, <4>1, <4>2
        <3>3. begin \in 0 .. Len(bytes)
            <4>1. Len(bytes) \in Nat
                BY <3>2, LenProperties DEF Spelled
            <4> QED BY <3>1, <4>1
        <3> QED BY <2>1, <2>2, <2>3, <2>4, <2>5, <3>1, <3>2, <3>3 DEF TypeOK
    <2>7. CASE pc \in {"blocks", "closed"}
        <3>1. /\ bytes = ToNetASCII(raw) /\ begin \in 0 .. Len(bytes)
              /\ data = SubSeq(bytes, 1, begin) /\ BlocksInv
              /\ pc = "closed" => out = FromNetASCII(data)
            BY <2>7 DEF FileInv
        <3>2. bytes \in Seq(Byte)
            BY <2>4, <2>5, <3>1, ToType
        <3>3. data \in Seq(Byte)
            BY <3>1, <3>2, Firsts
        <3>4. out \in Spelled
            <4>1. pc = "closed" => out \in Seq(Byte)
                BY <2>4, <3>1, <3>3, FromType
            <4> QED BY <2>1, <2>4, <4>1
        <3>5. told \in BOOLEAN
            BY <3>1 DEF BlocksInv
        <3> QED BY <2>1, <2>2, <2>3, <2>4, <2>5, <3>1, <3>2, <3>3, <3>4, <3>5 DEF TypeOK
    <2> QED BY <2>1, <2>6, <2>7
<1> QED BY <1>1, PacketInvariant, FileInvariant, PTL

\* What Tftp takes for the effect of the wire is what ToBytes and ParsePacket do to every
\* packet of this program that fits the buffer but for its last zero and has no CR in
\* its text; another packet does not arrive as it was sent.
THEOREM ArrivesAsWiredAlways == Spec => []ArrivesAsWired
<1>1. PacketInv => ArrivesAsWired
    <2> SUFFICES ASSUME PacketInv, pc = "parsed", maker = "this" PROVE result = Wire(pkt) <=> Fits(pkt, Len(bytes))
        BY DEF ArrivesAsWired, Fits
    <2>1. pkt \in OwnPackets /\ Len(bytes) = Len(ToBytes("this", pkt))
          /\ result = ParsePacket(SubSeq(ToBytes("this", pkt), 1, InBufferLen(Len(bytes))))
        BY ResultIs DEF Sent, Cut
    <2>2. Arrived(pkt)
        BY <2>1, OwnArrive
    <2> QED BY <2>1, <2>2 DEF Arrived
<1> QED BY <1>1, PacketInvariant, PTL

\* A number in network byte order is read as it was meant exactly if its low byte is not
\* negative as a char, or its high byte has all bits set anyway.
THEOREM ForeignNumberAlways == Spec => []ForeignNumberArrives
<1>1. PacketInv => ForeignNumberArrives
    <2> SUFFICES ASSUME PacketInv, pc = "parsed", maker = "other" PROVE NumberKept(result, pkt)
        BY DEF ForeignNumberArrives, NumberKept
    <2> DEFINE k == InBufferLen(Len(bytes))
    <2>1. pkt \in Packets /\ k \in 0 .. Len(ToBytes("other", pkt)) /\ result = Cut("other", pkt, k)
        BY ResultIs
    <2> HIDE DEF k
    <2>2. Understood("other", pkt, k)
        BY <2>1, AllUnderstood
    <2> QED BY <2>1, <2>2 DEF Understood
<1> QED BY <1>1, PacketInvariant, PTL

\* A packet that ends early is refused, or only text is missing at its end.
THEOREM ShortOrRefusedAlways == Spec => []ShortOrRefused
<1>1. PacketInv => ShortOrRefused
    <2> SUFFICES ASSUME PacketInv, pc = "parsed", maker = "other", result.op # "GARBLED"
                 PROVE  Agree(result, ParsePacket(ToBytes(maker, pkt)), pkt)
        BY DEF ShortOrRefused, Agree
    <2> DEFINE k == InBufferLen(Len(bytes))
    <2>1. pkt \in Packets /\ k \in 0 .. Len(ToBytes("other", pkt)) /\ result = Cut("other", pkt, k)
        BY ResultIs
    <2> HIDE DEF k
    <2>2. Understood("other", pkt, k)
        BY <2>1, AllUnderstood
    <2> QED BY <2>1, <2>2 DEF Understood
<1> QED BY <1>1, PacketInvariant, PTL
=============================================================================
