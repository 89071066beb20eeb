------------------------------ MODULE MCSockJS ------------------------------
(* TLC instances of SockJS. *)
EXTENDS SockJS

\* A browser of today, one where only the iframe transports and JSONP remain, one
\* with XDomainRequest, and one with nothing but scripts.
MCBrowsers == {{"WebSocket", "XHR", "CORS", "EventSource", "iframe"},
               {"opera", "XHR", "iframe"}, {"XDR"}, {}}

MCInfos == [websocket : BOOLEAN, cookie_needed : BOOLEAN]
=============================================================================
