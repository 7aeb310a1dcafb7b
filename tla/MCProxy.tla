------------------------------ MODULE MCProxy ------------------------------
(* Values of Proxy's constants for TLC: who asks for what, and what the    *)
(* origins say of caching.                                                 *)
EXTENDS ProxyInvariants
SameUrl   == [c \in Clients |-> "u"]
OnlyA     == [c \in Clients |-> c = "a"]
MCControls == {<<MaxAge(1), Word("private"), Word("max-age")>>, <<Word("public"), MaxAge(1)>>,
               <<MaxAge(1), Word("max-age=")>>, <<Word("max-age")>>}
KeepOne   == {<<MaxAge(1)>>}
MCInts    == {-1, 2}
=============================================================================
