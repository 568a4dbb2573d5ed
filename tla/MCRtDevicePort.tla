--------------------------- MODULE MCRtDevicePort ---------------------------
(***************************************************************************)
(* RtDevicePort small enough to overflow: four bytes of FIFO, bursts of    *)
(* two, a semaphore that saturates, and reads shorter and as long as the   *)
(* FIFO.                                                                   *)
(***************************************************************************)
EXTENDS RtDevicePort
=============================================================================
