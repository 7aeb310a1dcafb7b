--------------------------- MODULE SequenceFacts ---------------------------
(***************************************************************************)
(* Induction over numbers and sequences, and what FlattenSeq of            *)
(* SequencesExt computes.  Induction is stated with a set of the values    *)
(* that have the property instead of an operator that says it.             *)
(***************************************************************************)
EXTENDS Integers, SequencesExt, SequenceTheorems, WellFoundedInduction, TLAPS

\* A set of numbers has a smallest one.
LEMMA Smallest ==
    ASSUME NEW S \in SUBSET Nat, S # {} PROVE \E x \in S : \A y \in S : x <= y
<1>1. PICK x \in S : \A y \in S : <<y, x>> \notin OpToRel(<, Nat)
    BY WFMin, NatLessThanWellFounded
<1>2. ASSUME NEW y \in S PROVE x <= y
    <2>1. ~(y < x)
        BY <1>1 DEF OpToRel
    <2> QED BY <2>1
<1> QED BY <1>2

\* A set of numbers that has 0 and the successor of each of its numbers has them all.
LEMMA SetInduction ==
    ASSUME NEW S, 0 \in S, \A n \in Nat : n \in S => n + 1 \in S
    PROVE  Nat \subseteq S
<1> DEFINE T == Nat \ S
<1>1. SUFFICES ASSUME T # {} PROVE FALSE
    OBVIOUS
<1>2. T \in SUBSET Nat
    OBVIOUS
<1>3. PICK x \in T : \A y \in T : x <= y
    <2> HIDE DEF T
    <2> QED BY <1>1, <1>2, Smallest
<1>4. x \in Nat /\ x \notin S
    OBVIOUS
<1>5. x # 0
    BY <1>4
<1>6. x - 1 \in Nat
    BY <1>4, <1>5
<1>7. x - 1 \notin S
    BY <1>4, <1>6
<1> QED BY <1>3, <1>4, <1>6, <1>7

\* Induction over the sequences of elements of A.
LEMMA SeqInduction ==
    ASSUME NEW A, NEW S, <<>> \in S,
           \A s \in Seq(A), e \in A : s \in S => Append(s, e) \in S
    PROVE  Seq(A) \subseteq S
<1> DEFINE N == {n \in Nat : \A s \in Seq(A) : Len(s) = n => s \in S}
<1>1. 0 \in N
    BY EmptySeq
<1>2. ASSUME NEW n \in Nat, n \in N PROVE n + 1 \in N
    <2>1. SUFFICES ASSUME NEW s \in Seq(A), Len(s) = n + 1 PROVE s \in S
        OBVIOUS
    <2>2. s # <<>>
        BY <2>1, EmptySeq
    <2>3. PICK t \in Seq(A), e \in A : s = Append(t, e)
        BY <2>2, SequenceEmptyOrAppend
    <2>4. Len(t) = n
        BY <2>1, <2>3, AppendProperties, LenProperties
    <2> QED BY <1>2, <2>3, <2>4
<1>3. Nat \subseteq N
    <2> HIDE DEF N
    <2> QED BY <1>1, <1>2, SetInduction
<1>4. ASSUME NEW s \in Seq(A) PROVE s \in S
    <2>1. Len(s) \in N
       BY <1>3, LenProperties
    <2> QED BY <2>1
<1> QED BY <1>4

---------------------------------------------------------------------------
\* FlattenSeq(s) is the last value of a function that unfolds s.
Unfolds(f, s) == f = [i \in 1 .. Len(s) |-> IF i = 1 THEN s[i] ELSE f[i - 1] \o s[i]]

\* There is a function that unfolds a sequence.
LEMMA UnfoldingExists ==
    ASSUME NEW s, Len(s) \in Nat PROVE \E f : Unfolds(f, s)
<1> DEFINE L == Len(s)
           Upto(f, n) == f = [i \in 1 .. n |-> IF i = 1 THEN s[i] ELSE f[i - 1] \o s[i]]
           N == {n \in Nat : \E f : Upto(f, n)}
<1>1. 0 \in N
    <2>1. Upto([i \in 1 .. 0 |-> <<>>], 0)
        OBVIOUS
    <2> QED BY <2>1
<1>2. ASSUME NEW n \in Nat, n \in N PROVE n + 1 \in N
    <2>1. PICK f : Upto(f, n)
        BY <1>2
    <2> DEFINE x == IF n = 0 THEN s[1] ELSE f[n] \o s[n + 1]
               g == [i \in 1 .. n + 1 |-> IF i = n + 1 THEN x ELSE f[i]]
    <2>2. ASSUME NEW i \in 1 .. n + 1 PROVE g[i] = IF i = 1 THEN s[i] ELSE g[i - 1] \o s[i]
        <3>1. CASE i = n + 1 /\ n = 0
            BY <3>1
        <3>2. CASE i = n + 1 /\ n # 0
            <4>1. i - 1 \in 1 .. n + 1 /\ i - 1 # n + 1 /\ i # 1 /\ i - 1 = n
               BY <3>2
            <4>2. g[i - 1] = f[n]
               BY <4>1
            <4> QED BY <3>2, <4>1, <4>2
        <3>3. CASE i # n + 1
            <4>1. i \in 1 .. n
               BY <3>3
            <4>2. g[i] = f[i]
               BY <3>3
            <4>3. f[i] = IF i = 1 THEN s[i] ELSE f[i - 1] \o s[i]
               BY <2>1, <4>1
            <4>4. CASE i = 1
               BY <4>2, <4>3, <4>4
            <4>5. CASE i # 1
               <5>1. i - 1 \in 1 .. n + 1 /\ i - 1 # n + 1
                  BY <4>1, <4>5
               <5>2. g[i - 1] = f[i - 1]
                  BY <5>1
               <5> QED BY <4>2, <4>3, <4>5, <5>2
            <4> QED BY <4>4, <4>5
        <3> QED BY <3>1, <3>2, <3>3
    <2>3. DOMAIN g = 1 .. n + 1 /\ g = [i \in 1 .. n + 1 |-> g[i]]
        OBVIOUS
    <2>4. Upto(g, n + 1)
        <3> HIDE DEF g
        <3> QED BY <2>2, <2>3
    <2> HIDE DEF g, Upto
    <2> QED BY <2>4
<1>3. Nat \subseteq N
    <2> HIDE DEF N
    <2> QED BY <1>1, <1>2, SetInduction
<1>4. L \in N
    BY <1>3
<1> QED BY <1>4 DEF Unfolds

\* FlattenSeq takes the last value of one.
LEMMA FlattenUnfolds ==
    ASSUME NEW s, Len(s) \in Nat \ {0}
    PROVE  \E f : Unfolds(f, s) /\ FlattenSeq(s) = f[Len(s)]
<1> DEFINE f == CHOOSE f : Unfolds(f, s)
<1>1. Unfolds(f, s)
    <2>1. \E g : Unfolds(g, s)
       BY UnfoldingExists
    <2> QED BY <2>1
<1>2. FlattenSeq(s) = f[Len(s)]
    BY DEF FlattenSeq, Unfolds
<1> HIDE DEF f
<1> QED BY <1>1, <1>2

\* Its first value, and each of the others.
LEMMA UnfoldingFirst ==
    ASSUME NEW s, NEW f, Unfolds(f, s), Len(s) \in Nat \ {0} PROVE f[1] = s[1]
    BY DEF Unfolds

LEMMA UnfoldingNext ==
    ASSUME NEW s, NEW f, Unfolds(f, s), Len(s) \in Nat, NEW k \in Nat \ {0}, k < Len(s)
    PROVE  f[k + 1] = f[k] \o s[k + 1]
<1> DEFINE i == k + 1
<1>1. i \in 1 .. Len(s) /\ i # 1 /\ i - 1 = k
    OBVIOUS
<1> HIDE DEF i
<1>2. f[i] = IF i = 1 THEN s[i] ELSE f[i - 1] \o s[i]
    BY <1>1 DEF Unfolds
<1>3. f[i] = f[k] \o s[i]
    BY <1>1, <1>2
<1> QED BY <1>3 DEF i

\* What FlattenSeq makes of one sequence more.
LEMMA FlattenAppend ==
    ASSUME NEW A, NEW s \in Seq(Seq(A)), NEW x \in Seq(A)
    PROVE  FlattenSeq(Append(s, x)) = FlattenSeq(s) \o x
<1> DEFINE t == Append(s, x)
           n == Len(s)
<1>1. /\ n \in Nat /\ Len(t) = n + 1
      /\ \A i \in 1 .. n : t[i] = s[i]
      /\ t[n + 1] = x
    BY AppendProperties, LenProperties
<1> HIDE DEF t
<1>2. PICK g : Unfolds(g, t) /\ FlattenSeq(t) = g[n + 1]
    BY <1>1, FlattenUnfolds
<1>3. CASE n = 0
    <2>1. s = <<>> /\ FlattenSeq(s) = s
       BY <1>3, EmptySeq DEF FlattenSeq
    <2>2. g[1] = x
       BY <1>1, <1>2, <1>3, UnfoldingFirst
    <2> QED BY <1>2, <1>3, <2>1, <2>2, ConcatEmptySeq DEF t
<1>4. CASE n # 0
    <2>1. PICK f : Unfolds(f, s) /\ FlattenSeq(s) = f[n]
        BY <1>1, <1>4, FlattenUnfolds
    <2> DEFINE N == {k \in Nat : k \in 1 .. n => f[k] = g[k]}
    <2>2. 0 \in N
        OBVIOUS
    <2>3. ASSUME NEW k \in Nat, k \in N PROVE k + 1 \in N
        <3>1. SUFFICES ASSUME k + 1 \in 1 .. n PROVE f[k + 1] = g[k + 1]
            OBVIOUS
        <3>2. t[k + 1] = s[k + 1]
            BY <1>1, <3>1
        <3>3. CASE k = 0
            <4>1. f[1] = s[1] /\ g[1] = t[1]
               BY <1>1, <1>2, <1>4, <2>1, UnfoldingFirst
            <4> QED BY <3>2, <3>3, <4>1
        <3>4. CASE k # 0
            <4>1. f[k] = g[k]
               BY <2>3, <3>1, <3>4, <1>1
            <4>2. k < n /\ k < Len(t) /\ k \in Nat \ {0}
               BY <1>1, <3>1, <3>4
            <4>3. f[k + 1] = f[k] \o s[k + 1]
               BY <1>1, <2>1, <4>2, UnfoldingNext
            <4>4. g[k + 1] = g[k] \o t[k + 1]
               <5>1. Unfolds(g, t) /\ Len(t) \in Nat
                  BY <1>1, <1>2
               <5> QED BY <4>2, <5>1, UnfoldingNext
            <4> QED BY <3>2, <4>1, <4>3, <4>4
        <3> QED BY <3>3, <3>4
    <2>4. n \in N
        <3> HIDE DEF N
        <3> QED BY <1>1, <2>2, <2>3, SetInduction
    <2>5. f[n] = g[n]
        BY <1>1, <1>4, <2>4
    <2>6. n < Len(t) /\ n \in Nat \ {0} /\ Len(t) \in Nat
        BY <1>1, <1>4
    <2>7. g[n + 1] = g[n] \o t[n + 1]
        BY <1>2, <2>6, UnfoldingNext
    <2> QED BY <1>1, <1>2, <2>1, <2>5, <2>7 DEF t
<1> QED BY <1>3, <1>4 DEF t

\* Nothing is flattened to nothing.
LEMMA FlattenEmpty == FlattenSeq(<<>>) = <<>>
    BY EmptySeq DEF FlattenSeq

\* A sequence of sequences of elements is flattened to a sequence of elements.
LEMMA FlattenType ==
    ASSUME NEW A, NEW s \in Seq(Seq(A)) PROVE FlattenSeq(s) \in Seq(A)
<1> DEFINE S == {t \in Seq(Seq(A)) : FlattenSeq(t) \in Seq(A)}
<1>1. <<>> \in S
    BY FlattenEmpty, EmptySeq
<1>2. ASSUME NEW t \in Seq(Seq(A)), NEW x \in Seq(A), t \in S PROVE Append(t, x) \in S
    <2>1. FlattenSeq(t) \o x \in Seq(A)
        BY <1>2, ConcatProperties
    <2>2. Append(t, x) \in Seq(Seq(A))
        BY AppendProperties
    <2> QED BY <2>1, <2>2, FlattenAppend
<1>3. Seq(Seq(A)) \subseteq S
    <2> HIDE DEF S
    <2> QED BY <1>1, <1>2, SeqInduction
<1> QED BY <1>3

\* Two parts are flattened one after the other.
LEMMA FlattenConcat ==
    ASSUME NEW A, NEW s \in Seq(Seq(A)), NEW t \in Seq(Seq(A))
    PROVE  FlattenSeq(s \o t) = FlattenSeq(s) \o FlattenSeq(t)
<1> DEFINE S == {u \in Seq(Seq(A)) : FlattenSeq(s \o u) = FlattenSeq(s) \o FlattenSeq(u)}
<1>1. <<>> \in S
    <2>1. s \o <<>> = s /\ FlattenSeq(s) \o <<>> = FlattenSeq(s) /\ <<>> \in Seq(Seq(A))
        BY ConcatEmptySeq, FlattenType, EmptySeq
    <2> QED BY <2>1, FlattenEmpty
<1>2. ASSUME NEW u \in Seq(Seq(A)), NEW x \in Seq(A), u \in S PROVE Append(u, x) \in S
    <2>1. Append(u, x) \in Seq(Seq(A)) /\ s \o u \in Seq(Seq(A)) /\ <<x>> \in Seq(Seq(A))
        BY AppendProperties, ConcatProperties
    <2>2. s \o Append(u, x) = Append(s \o u, x)
        <3>1. Append(u, x) = u \o <<x>> /\ Append(s \o u, x) = (s \o u) \o <<x>>
            BY <2>1, AppendIsConcat
        <3> QED BY <2>1, <3>1, ConcatAssociative
    <2>3. FlattenSeq(s \o Append(u, x)) = FlattenSeq(s \o u) \o x
        BY <2>1, <2>2, FlattenAppend
    <2>4. FlattenSeq(Append(u, x)) = FlattenSeq(u) \o x
        BY FlattenAppend
    <2>5. (FlattenSeq(s) \o FlattenSeq(u)) \o x = FlattenSeq(s) \o (FlattenSeq(u) \o x)
        BY FlattenType, ConcatAssociative
    <2> QED BY <1>2, <2>1, <2>3, <2>4, <2>5
<1>3. Seq(Seq(A)) \subseteq S
    <2> HIDE DEF S
    <2> QED BY <1>1, <1>2, SeqInduction
<1> QED BY <1>3

\* One sequence is flattened to itself.
LEMMA FlattenOne ==
    ASSUME NEW A, NEW x \in Seq(A) PROVE FlattenSeq(<<x>>) = x
<1>1. <<>> \in Seq(Seq(A)) /\ <<x>> \in Seq(Seq(A))
    BY EmptySeq
<1>2. Append(<<>>, x) = <<x>>
    BY <1>1, AppendIsConcat, ConcatEmptySeq
<1>3. FlattenSeq(<<x>>) = <<>> \o x
    BY <1>1, <1>2, FlattenAppend, FlattenEmpty
<1> QED BY <1>3, ConcatEmptySeq

\* What is left of a flattened sequence from some element on.
LEMMA FlattenFrom ==
    ASSUME NEW A, NEW s \in Seq(Seq(A)), NEW n \in 1 .. Len(s)
    PROVE  FlattenSeq(SubSeq(s, n, Len(s))) = s[n] \o FlattenSeq(SubSeq(s, n + 1, Len(s)))
<1> DEFINE r == Len(s)
           u == SubSeq(s, n + 1, r)
<1>1. r \in Nat /\ n \in 1 .. r /\ r \in n .. r /\ \A k \in 1 .. r : s[k] \in Seq(A)
    BY LenProperties, ElementOfSeq
<1>2. SubSeq(s, n, r) = <<s[n]>> \o u
    BY <1>1, SubSeqRecursiveFirst
<1>3. u \in Seq(Seq(A))
    <2>1. n + 1 \in Int /\ r \in Int /\ \A k \in n + 1 .. r : s[k] \in Seq(A)
        BY <1>1
    <2> QED BY <2>1, SubSeqProperties
<1>4. <<s[n]>> \in Seq(Seq(A)) /\ s[n] \in Seq(A)
    BY <1>1
<1> HIDE DEF u, r
<1>5. FlattenSeq(<<s[n]>> \o u) = FlattenSeq(<<s[n]>>) \o FlattenSeq(u)
    BY <1>3, <1>4, FlattenConcat
<1>6. FlattenSeq(<<s[n]>>) = s[n]
    BY <1>4, FlattenOne
<1> QED BY <1>2, <1>5, <1>6 DEF u, r

\* What is flattened up to some element.
LEMMA FlattenUpTo ==
    ASSUME NEW A, NEW s \in Seq(Seq(A)), NEW n \in 1 .. Len(s)
    PROVE  FlattenSeq(SubSeq(s, 1, n)) = FlattenSeq(SubSeq(s, 1, n - 1)) \o s[n]
<1> DEFINE r == Len(s)
           u == SubSeq(s, 1, n - 1)
<1>1. r \in Nat /\ 1 \in 1 .. r /\ n \in 1 .. r /\ \A k \in 1 .. r : s[k] \in Seq(A)
    BY LenProperties, ElementOfSeq
<1>2. SubSeq(s, 1, n) = u \o <<s[n]>>
    BY <1>1, SubSeqRecursiveSecond
<1>3. u \in Seq(Seq(A))
    <2>1. 1 \in Int /\ n - 1 \in Int /\ \A k \in 1 .. n - 1 : s[k] \in Seq(A)
        BY <1>1
    <2> QED BY <2>1, SubSeqProperties
<1>4. <<s[n]>> \in Seq(Seq(A)) /\ s[n] \in Seq(A)
    BY <1>1
<1> HIDE DEF u, r
<1>5. FlattenSeq(u \o <<s[n]>>) = FlattenSeq(u) \o FlattenSeq(<<s[n]>>)
    BY <1>3, <1>4, FlattenConcat
<1>6. FlattenSeq(<<s[n]>>) = s[n]
    BY <1>4, FlattenOne
<1> QED BY <1>2, <1>5, <1>6 DEF u
=============================================================================
