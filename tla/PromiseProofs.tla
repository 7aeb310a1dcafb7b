---------------------------- MODULE PromiseProofs ----------------------------
(***************************************************************************)
(* What the two abstract specifications mean, proved for every value of    *)
(* their constants: ChatLog for the members of a chat, FileTransfer for    *)
(* who calls Read or Write.  The chat is a ChatLog by SaidAndHeard of Chat,*)
(* reads and writes are FileTransfers by ReadsTransfer and WritesTransfer  *)
(* of TftpTransfers.                                                       *)
(***************************************************************************)
EXTENDS Integers, Sequences, FiniteSetTheorems, TLAPS

CONSTANTS Members,            \* of a chat
          Stream, BlockSize   \* of a transfer

VARIABLES log, heard,         \* of a chat
          got, known, status  \* of a transfer

Log == INSTANCE ChatLog
Transfer == INSTANCE FileTransfer

---------------------------------------------------------------------------
(* The log of a chat.                                                      *)

Entry == [author : Members, line : Nat]

LogInv ==
    /\ log \in Seq(Entry)
    /\ heard \in [Members -> Seq(Entry)]
    /\ \A c \in Members : /\ Len(heard[c]) <= Len(log)
                          /\ \A k \in 1 .. Len(heard[c]) : heard[c][k] = log[k]

\* A line is added after those that the members have read.
LEMMA LogSay == ASSUME LogInv, NEW c \in Members, Log!Say(c) PROVE LogInv'
<1> DEFINE e == [author |-> c, line |-> Cardinality(Log!SaidBy(c)) + 1]
<1>1. Cardinality(Log!SaidBy(c)) \in Nat
  <2>1. Log!SaidBy(c) \subseteq 1 .. Len(log) /\ Len(log) \in Nat
    BY DEF LogInv, Log!SaidBy
  <2>2. IsFiniteSet(1 .. Len(log))
    BY <2>1, FS_Interval
  <2>3. IsFiniteSet(Log!SaidBy(c))
    BY <2>1, <2>2, FS_Subset
  <2> QED BY <2>3, FS_CardinalityType
<1>2. e \in Entry
  BY <1>1 DEF Entry
<1>3. log' = Append(log, e) /\ heard' = heard
  <2>1. Log!Cardinality(Log!SaidBy(c)) = Cardinality(Log!SaidBy(c))
    BY DEF Log!Cardinality, Cardinality
  <2> QED BY <2>1 DEF Log!Say
<1>4. /\ log' \in Seq(Entry) /\ Len(log') = Len(log) + 1
      /\ \A k \in 1 .. Len(log) : log'[k] = log[k]
  BY <1>2, <1>3 DEF LogInv
<1>5. ASSUME NEW d \in Members
      PROVE Len(heard[d]) <= Len(log') /\ \A k \in 1 .. Len(heard[d]) : heard[d][k] = log'[k]
  <2>1. Len(heard[d]) \in Nat /\ Len(log) \in Nat /\ Len(heard[d]) <= Len(log)
    BY <1>5 DEF LogInv
  <2>2. \A k \in 1 .. Len(heard[d]) : k \in 1 .. Len(log) /\ heard[d][k] = log[k]
    BY <2>1, <1>5 DEF LogInv
  <2> QED BY <1>4, <2>1, <2>2
<1> QED BY <1>3, <1>4, <1>5 DEF LogInv

\* A member reads the line after those it has read.
LEMMA LogHear == ASSUME LogInv, NEW c \in Members, Log!Hear(c) PROVE LogInv'
<1> DEFINE n == Len(heard[c]) + 1
<1>1. /\ heard[c] \in Seq(Entry) /\ n \in 1 .. Len(log) /\ log[n] \in Entry
      /\ log' = log /\ heard' = [heard EXCEPT ![c] = Append(heard[c], log[n])]
  BY DEF LogInv, Log!Hear
<1>2. /\ heard'[c] = Append(heard[c], log[n])
      /\ \A d \in Members \ {c} : heard'[d] = heard[d]
      /\ heard' \in [Members -> Seq(Entry)]
  BY <1>1 DEF LogInv
<1>3. ASSUME NEW d \in Members
      PROVE Len(heard'[d]) <= Len(log) /\ \A k \in 1 .. Len(heard'[d]) : heard'[d][k] = log[k]
  <2>1. CASE d = c
    <3>1. Len(heard'[c]) = n /\ heard'[c][n] = log[n] /\ \A k \in 1 .. Len(heard[c]) : heard'[c][k] = heard[c][k]
      BY <1>1, <1>2
    <3> QED BY <1>1, <2>1, <3>1 DEF LogInv
  <2>2. CASE d # c
    BY <1>2, <2>2 DEF LogInv
  <2> QED BY <2>1, <2>2
<1> QED BY <1>1, <1>2, <1>3 DEF LogInv

\* Two members never disagree on what has been said: what each has read is a
\* beginning of the one log.
THEOREM LogKept == Log!Spec => []LogInv
<1>1. Log!Init => LogInv
  BY DEF Log!Init, LogInv
<1>2. LogInv /\ [Log!Next]_(Log!vars) => LogInv'
  <2>1. ASSUME LogInv, UNCHANGED Log!vars PROVE LogInv'
    BY <2>1 DEF LogInv, Log!vars
  <2> QED BY <2>1, LogSay, LogHear DEF Log!Next
<1> QED BY <1>1, <1>2, PTL DEF Log!Spec

---------------------------------------------------------------------------
(* A transfer.                                                             *)

Blocks == {Stream[k] : k \in Nat \ {0}}

TransferInv ==
    /\ got \in Seq(Blocks)
    /\ known \in Nat /\ known <= Len(got) /\ Len(got) <= known + 1
    /\ \A k \in 1 .. Len(got) : got[k] = Stream[k]
    /\ \A k \in 1 .. Len(got) - 1 : ~(got[k].len < BlockSize)
    /\ status = "done" => Transfer!Whole(got)

\* Before anything is sent nothing has arrived.
LEMMA TransferInit == Transfer!Init => TransferInv
  BY DEF Transfer!Init, TransferInv

\* A block that is delivered is the next one of the stream, after blocks that were
\* not the last.
LEMMA TransferDeliver ==
    ASSUME TransferInv, Transfer!Deliver PROVE TransferInv'
<1> DEFINE n == Len(got) + 1
<1>1. n \in Nat \ {0} /\ Stream[n] \in Blocks
  BY DEF TransferInv, Blocks
<1>2. got' = Append(got, Stream[n]) /\ known' = known /\ known = Len(got) /\ ~Transfer!Whole(got)
  BY DEF Transfer!Deliver
<1>3. /\ got' \in Seq(Blocks) /\ Len(got') = n /\ got'[n] = Stream[n]
      /\ \A k \in 1 .. Len(got) : got'[k] = got[k]
  BY <1>1, <1>2 DEF TransferInv
<1>4. \A k \in 1 .. Len(got') : got'[k] = Stream[k]
  BY <1>3 DEF TransferInv
<1>5. \A k \in 1 .. Len(got') - 1 : ~(got'[k].len < BlockSize)
  <2>1. ASSUME got # <<>> PROVE ~(got[Len(got)].len < BlockSize)
    BY <1>2, <2>1 DEF Transfer!Whole
  <2>2. ASSUME NEW k \in 1 .. Len(got) PROVE ~(got[k].len < BlockSize)
    <3>1. CASE k = Len(got)
      BY <2>1, <3>1 DEF TransferInv
    <3>2. CASE k # Len(got)
      BY <3>2 DEF TransferInv
    <3> QED BY <3>1, <3>2
  <2> QED BY <1>3, <2>2 DEF TransferInv
<1>6. status' = "done" => Transfer!Whole(got')
  BY <1>2 DEF Transfer!Deliver, Transfer!Continue, Transfer!Return, TransferInv
<1> QED BY <1>2, <1>3, <1>4, <1>5, <1>6 DEF TransferInv

\* To learn of a block, or to fail, changes nothing of what has arrived.
LEMMA TransferRest ==
    ASSUME TransferInv, Transfer!Learn \/ Transfer!Fail \/ UNCHANGED Transfer!vars PROVE TransferInv'
<1>1. got' = got
  BY DEF Transfer!Learn, Transfer!Fail, Transfer!vars
<1>2. known' \in Nat /\ known' <= Len(got) /\ Len(got) <= known' + 1
  BY DEF TransferInv, Transfer!Learn, Transfer!Fail, Transfer!vars
<1>3. status' = "done" => Transfer!Whole(got')
  BY <1>1 DEF TransferInv, Transfer!Learn, Transfer!Fail, Transfer!vars, Transfer!Continue, Transfer!Return, Transfer!GiveUp
<1> QED BY <1>1, <1>2, <1>3 DEF TransferInv

\* A transfer hands over the stream's blocks in order and nothing after the short
\* one; it is one block ahead of what the sending side knows at most; and if the
\* call has returned normally, the short block has arrived: the stream is whole.
THEOREM TransferKept == Transfer!Spec => []TransferInv
<1>1. TransferInv /\ [Transfer!Next]_(Transfer!vars) => TransferInv'
  BY TransferDeliver, TransferRest DEF Transfer!Next
<1> QED BY TransferInit, <1>1, PTL DEF Transfer!Spec
=============================================================================
