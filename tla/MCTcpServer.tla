----------------------------- MODULE MCTcpServer -----------------------------
(***************************************************************************)
(* TcpServer with two slots and three clients, so that a client is turned  *)
(* away and slots and numbers are used again; requests of one of them may  *)
(* arrive in two parts.  Four numbers are the listening socket, the two    *)
(* slots and the client being turned away.                                 *)
(***************************************************************************)
EXTENDS TcpServer
=============================================================================
