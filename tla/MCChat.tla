------------------------------- MODULE MCChat -------------------------------
(* Values of Chat's constants for TLC: how much the clients say.           *)
EXTENDS ChatInvariants
LinesOf(a, rest) == [c \in Clients |-> IF c = "a" THEN a ELSE rest]
ATwoOne  == LinesOf(2, 1)
OnlyATwo == LinesOf(2, 0)
=============================================================================
