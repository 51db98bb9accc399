--------------------------- MODULE MCUdpMulticast ---------------------------
(* Instances of UdpMulticast for TLC. *)
EXTENDS UdpMulticast, TLC

Symmetry == Permutations(Clients) \cup Permutations(Servers)
=============================================================================
