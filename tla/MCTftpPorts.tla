---------------------------- MODULE MCTftpPorts ----------------------------
(* Values of TftpPorts' constants for TLC: two numbers are free, one is not. *)
EXTENDS MCTftp, TftpPorts
MCPortNumbers == 1024 .. 1026
MCInUse       == {1026}
=============================================================================
