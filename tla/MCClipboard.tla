---------------------------- MODULE MCClipboard -----------------------------
(* Instances of Clipboard for TLC; the constants are in the .cfg files. *)
EXTENDS Clipboard
=============================================================================
