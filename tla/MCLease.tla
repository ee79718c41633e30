------------------------------ MODULE MCLease ------------------------------
(* Three callers: two in one process (a server with two requests), one in  *)
(* another (the command line).                                             *)
EXTENDS Lease

CONSTANTS c1, c2, c3, server, cli

MCCalls == {c1, c2, c3}

MCProcs == {server, cli}

MCProcOf == [c \in MCCalls |-> IF c = c3 THEN cli ELSE server]
=============================================================================
