----------------------------- MODULE MCDataCopy -----------------------------
(* Instances of DataCopy for TLC; the constants are in the .cfg files. *)
EXTENDS DataCopy
=============================================================================
