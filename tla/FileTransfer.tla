---------------------------- MODULE FileTransfer ----------------------------
(***************************************************************************)
(* What Read and Write of the TFTP client promise, with no packets, block  *)
(* numbers, ports or server: the blocks of one stream reach the receiving  *)
(* side in order, each once, and one at a time, that is none before the    *)
(* sending side knows of the one before it.  The call may give up at any   *)
(* time; it returns normally only when the whole stream has arrived.       *)
(***************************************************************************)
EXTENDS Integers, Sequences

CONSTANTS Stream,    \* Stream[k]: the k-th block
          BlockSize  \* a shorter block is the last

VARIABLES got,     \* the blocks that have arrived
          known,   \* how many of them the sending side knows of
          status   \* of the call: "open", "done" or "failed"

vars == <<got, known, status>>

Whole(blocks) == blocks # <<>> /\ blocks[Len(blocks)].len < BlockSize

Init == got = <<>> /\ known = 0 /\ status = "open"

\* The call goes on, as it was, or ends.
Continue == UNCHANGED status
Return   == status = "open" /\ status' = "done" /\ Whole(got')
GiveUp   == status = "open" /\ status' = "failed"

Deliver == /\ ~Whole(got) /\ known = Len(got)
           /\ got' = Append(got, Stream[Len(got) + 1])
           /\ UNCHANGED known
           /\ Continue \/ Return

Learn == /\ known < Len(got)
         /\ known' = known + 1
         /\ UNCHANGED got
         /\ Continue \/ Return

Fail == GiveUp /\ UNCHANGED <<got, known>>

Next == Deliver \/ Learn \/ Fail

Spec == Init /\ [][Next]_vars
=============================================================================
