--------------------------- MODULE TftpTransfers ---------------------------
(***************************************************************************)
(* Tftp implements FileTransfer: every Read is a transfer from the server  *)
(* to its client, every Write one from the client to the server, each with *)
(* whatever transfer of the server the client has bound itself to.         *)
(***************************************************************************)
EXTENDS TftpInvariants

Bindable(c)   == cl[c].peer \notin {NoPort, RequestPort}
BoundTo(c)    == xfer[cl[c].peer]
StatusOf(pc)  == IF pc \in {"done", "failed"} THEN pc ELSE "open"

\* The server's transfer expects the ACK of block id: it knows of those before.
ReadKnown(c)  == IF Bindable(c) /\ BoundTo(c).id > 0 THEN BoundTo(c).id - 1 ELSE 0
WriteGot(c)   == IF Bindable(c) THEN BoundTo(c).got ELSE <<>>
WriteKnown(c) == IF cl[c].block > 0 THEN cl[c].block - 1 ELSE 0

Reading(c) == INSTANCE FileTransfer WITH
                  Stream <- [k \in Nat \ {0} |-> FileChunk(Target[c], k)],
                  got    <- cl[c].out,
                  known  <- ReadKnown(c),
                  status <- StatusOf(cl[c].pc)

Writing(c) == INSTANCE FileTransfer WITH
                  Stream <- [k \in Nat \ {0} |-> InputChunk(c, k)],
                  got    <- WriteGot(c),
                  known  <- WriteKnown(c),
                  status <- StatusOf(cl[c].pc)

\* TLC takes \A c : Instance(c)!Spec only with the quantifier inside the box; that is
\* the same formula, for each of the instances' variables is a function of vars.

\* Every Read is a file transfer: whatever the network does, the client's stream
\* grows by the file's next block, only after the server has seen the ACK of the one
\* before, and Read returns only after the short block.
ReadsTransfer ==
    /\ \A c \in Readers : Reading(c)!Init
    /\ [][\A c \in Readers : [Reading(c)!Next]_(Reading(c)!vars)]_vars

\* Every Write is a file transfer: what TWritingClientBase::Append is given is the
\* next block of the input, once, and Write returns only when all has been appended.
WritesTransfer ==
    /\ \A c \in Writers : Writing(c)!Init
    /\ [][\A c \in Writers : [Writing(c)!Next]_(Writing(c)!vars)]_vars
=============================================================================
