--------------------------- MODULE MCHttpMessage ---------------------------
(* Values of HttpMessage's constants for TLC: bodies of a few symbols, CR  *)
(* and LF among them, and headers with and without the space that the      *)
(* parser looks for.                                                       *)
EXTENDS HttpMessage
MCFirstLines == [request  |-> {<<"GET", " ", "u", " ", "HTTP">>},
                 response |-> {<<"HTTP", " ", "404", " ", "Not", " ", "Found">>,
                               <<"HTTP", " ", "200", " ">>, <<"HTTP", " ", "200">>}]
UpTo(n)   == UNION {[1 .. k -> {"x", "CR", "LF"}] : k \in 0 .. n}
MCBodies  == UpTo(2)
Pieces    == UpTo(2) \ {<<>>}
MCChunkings == {<<>>} \cup {<<p>> : p \in Pieces} \cup {<<p, <<"x">>>> : p \in Pieces}
Host      == <<"Host", ":", " ", "h", ":", "8">>
Accept    == AcceptEncoding \o <<":", " ", "gzip", ",", "br">>
Encoded(e) == ContentEncoding \o <<":", " ", e>>
MCOthers  == {<<>>, <<Accept, Host, Accept>>, <<Encoded("gzip")>>, <<Encoded("br"), <<"Host", ":", "h">>>>}
MCSymbols == Known \cup {"x", "GET", "HTTP", "u", "404", "200", "Not", "Found", "Host", "h", "8", "br"}
MCGaps    == {<<>>, <<" ">>, <<" ", " ">>}
=============================================================================
