---------------------------- MODULE MCHttpServer ----------------------------
(***************************************************************************)
(* HttpServer for TLC: more connections than sessions, so that the table   *)
(* is full, is purged and has a place again.                               *)
(***************************************************************************)
EXTENDS HttpServer

=============================================================================
