---------------------------- MODULE MCRingBuffer ----------------------------
(***************************************************************************)
(* RingBuffer with a pool of three bytes, puts of up to five (more than    *)
(* the ring holds) and gets of up to four, so that every call can end      *)
(* before, at and behind the end of the pool.                              *)
(***************************************************************************)
EXTENDS RingBuffer

MCElements == 0 .. 1
MCBursts   == UNION {[1 .. n -> MCElements] : n \in 0 .. 5}
=============================================================================
