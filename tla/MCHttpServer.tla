---------------------------- MODULE MCHttpServer ----------------------------
(* TLC instances of HttpServer. *)
EXTENDS HttpServer

\* Every way a request can be routed.
MCKinds == AllKinds
=============================================================================
