--------------------------- MODULE MCUdpBroadcast ---------------------------
(* Instances of UdpBroadcast for TLC; the constants are in the .cfg files. *)
EXTENDS UdpBroadcast
=============================================================================
