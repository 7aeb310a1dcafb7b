----------------------------- MODULE TftpPorts -----------------------------
(***************************************************************************)
(* The sockets under the transfers of Tftp, TTransport of                  *)
(* udp/lib/Transport.cpp.  Open() draws port numbers until bind succeeds.  *)
(* InitSocket sets SO_REUSEADDR | SO_REUSEPORT, which as an option's       *)
(* number is SO_REUSEPORT: bind succeeds on the port of another transfer   *)
(* as well, and the kernel chooses who gets what is sent there.            *)
(*                                                                         *)
(* In a datagram the port is still a transfer's place in xfer, the one the *)
(* client means; at tells which number it stands for.  Clients that write  *)
(* never compare ports, so that this is all they notice of the numbers;    *)
(* clients that read do compare them and are not modelled here.            *)
(***************************************************************************)
EXTENDS Tftp

CONSTANTS PortNumbers,  \* 1024 .. 65535
          InUse         \* those other programs hold, without SO_REUSEPORT

VARIABLE at   \* at[p]: the number of the port of transfer p

portVars == <<vars, at>>

PortsInit == Init /\ at = <<>>

\* Open(): the loop ends with a number for which Bind returned no error.
Open == \E number \in PortNumbers \ InUse : at' = Append(at, number)

\* Whose sockets are bound where this datagram is going.
Sharing(d) == {q \in Ports : Live(q) /\ d.port \in Ports /\ at[q] = at[d.port]}

\* The kernel hands d to the socket of q.
Steer(d, q) == /\ d \in net /\ d.dir = "up"
               /\ q \in Sharing(d) \ {d.port}
               /\ net' = (net \ {d}) \cup {[d EXCEPT !.port = q]}
               /\ UNCHANGED <<cl, xfer, srv, stored, faults, at>>

PortsNext ==
    \/ (\E c \in Clients : ClientNext(c)) /\ UNCHANGED at
    \/ ServerNext /\ (IF Len(xfer') > Len(xfer) THEN Open ELSE UNCHANGED at)
    \/ (\E p \in Ports : GrowLate(p)) /\ UNCHANGED at
    \/ (\E d \in net : Discard(d) /\ (d.dir = "up" => Sharing(d) = {})) /\ UNCHANGED at
    \/ Faults /\ UNCHANGED at
    \/ \E d \in net, q \in Ports : Steer(d, q)

PortsSpec == PortsInit /\ [][PortsNext]_portVars

---------------------------------------------------------------------------
\* "Choose a random free-to-use port" (Transport.h): while the transfer of a client is
\* open, its port is nobody else's, and no other client's transfer is handed what the
\* client sends.
FreeToUse ==
    \A d \in srv.ready, q \in Ports :
        d.port # RequestPort /\ Live(q) /\ xfer[q].peer = d.c => xfer[d.port].peer = d.c
=============================================================================
