---------------------------- MODULE MCUdpUnicast ----------------------------
(* Instances of UdpUnicast for TLC; the constants are in the .cfg files. *)
EXTENDS UdpUnicast
=============================================================================
