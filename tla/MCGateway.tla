------------------------------ MODULE MCGateway ------------------------------
(***************************************************************************)
(* Gateway with two slave threads (RTU and TCP), two coils in the byte and *)
(* three requests, so that a request can come while the master reads the   *)
(* coils, and another while it sends them.  A semaphore of two saturates.  *)
(***************************************************************************)
EXTENDS Gateway
=============================================================================
