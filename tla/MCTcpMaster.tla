----------------------------- MODULE MCTcpMaster -----------------------------
(***************************************************************************)
(* TcpMaster with four numbers, so that other threads can take the numbers *)
(* the master had before and keep it from having them again, two addresses *)
(* (a refusal of the second is that of a slave with one) and a few         *)
(* failures, which is enough for one to follow a connection that broke.    *)
(***************************************************************************)
EXTENDS TcpMaster
=============================================================================
