----------------------------- MODULE MCTransfer -----------------------------
(* TLC instances of Transfer. *)
EXTENDS Transfer

\* Both pages.
MCPages == {"batchUpload", "download"}
=============================================================================
