----------------------------- MODULE MCRingPort -----------------------------
(***************************************************************************)
(* RingPort with a ring of three bytes.  A socket asks the system for as   *)
(* many as the ring holds and may have more waiting; on Windows the port   *)
(* asks for twice as many, and no more than one frame is on the line.      *)
(* Twelve bytes fill the ring four times; the tests use limits and         *)
(* MODBUS_WAIT_FOREVER.                                                    *)
(***************************************************************************)
EXTENDS RingPort

PortOf(type, n, max, limits) ==
  [type |-> type, asks |-> n, unread |-> max, timeouts |-> limits]

\* The socket, and the serial port of Windows under a master.
MCPorts ==
  {PortOf("rtsocket", 3, 5, {MODBUS_WAIT_FOREVER, MODBUS_WAIT_NO, 100}),
   PortOf("win32", 6, 3, {100})}
\* The serial port of Windows under a slave.
SlavePorts == {PortOf("win32", 6, 3, {MODBUS_WAIT_FOREVER, 100})}
=============================================================================
