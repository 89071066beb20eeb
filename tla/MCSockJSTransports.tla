------------------------- MODULE MCSockJSTransports -------------------------
(* TLC instances of SockJSTransports. *)
EXTENDS SockJSTransports

MCKinds == {"websocket", "xhr", "xdr", "eventsource", "htmlfile", "jsonp"}
=============================================================================
