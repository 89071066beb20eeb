--------------------------- MODULE MCSockJSIframe ---------------------------
(* TLC instances of SockJSIframe. *)
EXTENDS SockJSIframe
=============================================================================
