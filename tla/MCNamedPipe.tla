---------------------------- MODULE MCNamedPipe -----------------------------
(* Instances of NamedPipe for TLC.  The safety runs use symmetry; the        *)
(* liveness runs do not.                                                     *)
EXTENDS NamedPipe, TLC

Symmetry == Permutations(Clients) \cup Permutations(Instances)
=============================================================================
