----------------------------- MODULE MCRtuResync -----------------------------
(***************************************************************************)
(* RtuResync with two queries, both "read one holding register at 0" with  *)
(* their real checksums: to the slave of the tests, whose address is 1 and *)
(* so looks like a function code, and to a slave at 17, which is no        *)
(* function code.  Patience is the master's 130 ms (a timeout_frame of 100 *)
(* and a pause of 30) in timeouts of 10 ms a byte.                         *)
(***************************************************************************)
EXTENDS RtuResync

RtuQuery == <<1, 3, 0, 0, 0, 1, 132, 10>>
FarQuery == <<17, 3, 0, 0, 0, 1, 134, 154>>

\* A line that loses bytes of the query to 1, at any speed; and a line that adds
\* and loses bytes of the query to 17.
MCSettings ==
  {[query |-> RtuQuery, noiseBytes |-> {0}, lost |-> 2, noise |-> 0, prompt |-> FALSE],
   [query |-> FarQuery, noiseBytes |-> {0, 16, 255}, lost |-> 1, noise |-> 2, prompt |-> TRUE]}
\* One byte that nobody sent, and a slave at 1.
ShiftSettings ==
  {[query |-> RtuQuery, noiseBytes |-> {0}, lost |-> 0, noise |-> 1, prompt |-> TRUE]}
\* A read at address 0x1200, whose high byte 18 is no function code: a slave that
\* takes it for one expects no fixed part and gives the frame up too early.
AddressQuery == <<1, 3, 18, 0, 0, 1, 129, 114>>
AddressSettings ==
  {[query |-> AddressQuery, noiseBytes |-> {0}, lost |-> 1, noise |-> 0, prompt |-> FALSE]}
=============================================================================
