----------------------------- MODULE MCTcpEcho ------------------------------
(* Instances of TcpEcho for TLC; the constants are in the .cfg files. *)
EXTENDS TcpEcho
=============================================================================
