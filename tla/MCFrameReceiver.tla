--------------------------- MODULE MCFrameReceiver ---------------------------
(***************************************************************************)
(* FrameReceiver with one function code of every class the two loops tell  *)
(* apart, and the byte counts at which the length checks change their mind.*)
(***************************************************************************)
EXTENDS FrameReceiver

\* 0 and 131 are no legal request codes; 17 has no fixed part in a request.
MCFunctions == {0, 3, 6, 15, 17, 22, 23, 131}

\* RTU answers hold 255 data bytes and TCP answers 251; RTU requests of
\* function 15 hold 251 and of function 23 hold 247, TCP ones 247 and 243.
MCCounts == {0, 1, 2, 243, 244, 247, 248, 251, 252, 255}
=============================================================================
