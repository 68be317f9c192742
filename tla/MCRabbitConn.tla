---------------------------- MODULE MCRabbitConn ----------------------------
(* RabbitConn with a few goroutines, for TLC. *)
EXTENDS RabbitConn

CONSTANTS c1, c2, p, r1, r2
=============================================================================
