------------------------------ MODULE ChatLog ------------------------------
(***************************************************************************)
(* What the chat promises, with no connections, buffers or vectors: there  *)
(* is one log, to which every member adds lines in the order they typed    *)
(* them, and which every member reads from its beginning, a line at a      *)
(* time.  Nothing that has been said is taken back or moved.               *)
(***************************************************************************)
EXTENDS Integers, Sequences, FiniteSets

CONSTANT Members

VARIABLES log,    \* what has been said
          heard   \* heard[c]: what member c has read of it

vars == <<log, heard>>

Init == log = <<>> /\ heard = [c \in Members |-> <<>>]

SaidBy(c) == {k \in DOMAIN log : log[k].author = c}
Say(c) == /\ log' = Append(log, [author |-> c, line |-> Cardinality(SaidBy(c)) + 1])
          /\ UNCHANGED heard

Hear(c) == /\ Len(heard[c]) < Len(log)
           /\ heard' = [heard EXCEPT ![c] = Append(@, log[Len(@) + 1])]
           /\ UNCHANGED log

Next == \E c \in Members : Say(c) \/ Hear(c)

Spec == Init /\ [][Next]_vars
=============================================================================
