---------------------------- MODULE MCDiscovery ----------------------------
(* Discovery for TLC. *)
EXTENDS Discovery

CONSTANTS w1, w2, s1, s2

Every == {"consul", "nacos", "grpc"}
OnlyConsul == {"consul"}
OnlyNacos == {"nacos"}
OnlyGrpc == {"grpc"}
Two == 1..2
=============================================================================
