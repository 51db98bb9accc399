--------------------------- MODULE MCFileMapping ---------------------------
(* Instances of FileMapping for TLC; the constants are in the .cfg files. *)
EXTENDS FileMapping
=============================================================================
