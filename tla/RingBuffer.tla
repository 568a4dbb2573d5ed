----------------------------- MODULE RingBuffer -----------------------------
(***************************************************************************)
(* The ring buffer of the win32 port, win32device_ringbuffer: a pool, two  *)
(* indices into it, and for each index a mirror bit that flips whenever    *)
(* the index wraps.  Equal indices mean an empty ring when the mirrors     *)
(* agree and a full one when they differ.  (The ring buffer of RT-Thread,  *)
(* which the socket port uses, is the same algorithm.)                     *)
(***************************************************************************)
EXTENDS Naturals, Sequences

CONSTANTS
  Elements,     \* what a byte can be
  buffer_size,  \* bytes of the pool
  Bursts,       \* what a put may be given
  Requests      \* how much a get may ask for

\* The size is an int16_t and the indices have 15 bits.
ASSUME SizeAssumption == buffer_size \in Nat \ {0}
ASSUME WidthAssumption == buffer_size <= 32767
ASSUME CallsAssumption == Bursts \subseteq Seq(Elements) /\ Requests \subseteq Nat
\* The pool is part of a port that is allocated cleared.
ASSUME ElementsAssumption == 0 \in Elements

VARIABLES
  pool, read_mirror, read_index, write_mirror, write_index,
  returned,     \* what the last call returned
  copied        \* what the last get copied to its caller

indices == <<read_mirror, read_index, write_mirror, write_index>>
vars == <<pool, indices, returned, copied>>

Init ==
  /\ pool = [i \in 0 .. buffer_size - 1 |-> 0]
  /\ read_mirror = 0 /\ read_index = 0 /\ write_mirror = 0 /\ write_index = 0
  /\ returned = 0 /\ copied = <<>>

Smaller(a, b) == IF a <= b THEN a ELSE b

\* Mutant: equal indices always mean an empty ring.
data_len_unmirrored ==
  IF write_index >= read_index THEN write_index - read_index
  ELSE buffer_size - (read_index - write_index)

data_len ==
  IF read_index = write_index
    THEN IF read_mirror = write_mirror THEN 0 ELSE buffer_size
    ELSE IF write_index > read_index
           THEN write_index - read_index
           ELSE buffer_size - (read_index - write_index)

space_len == buffer_size - data_len
-----------------------------------------------------------------------------
\* A put that ends before the end of the pool, n bytes of s being stored.
PutAhead(s, n) ==
  /\ pool' = [i \in DOMAIN pool |->
                IF i \in write_index .. write_index + n - 1
                  THEN s[i - write_index + 1] ELSE pool[i]]
  /\ write_index' = write_index + n
  /\ UNCHANGED write_mirror

\* A put that reaches the end of the pool goes on at its beginning.
PutAround(s, n) ==
  LET ahead == buffer_size - write_index
  IN  /\ pool' = [i \in DOMAIN pool |->
                    IF i >= write_index THEN s[i - write_index + 1]
                    ELSE IF i < n - ahead THEN s[i + ahead + 1] ELSE pool[i]]
      /\ write_index' = n - ahead
      /\ write_mirror' = 1 - write_mirror

\* Mutant: a put that ends at the end of the pool does not wrap.
PutLate ==
  \E s \in Bursts :
    LET n == Smaller(Len(s), space_len)
    IN  /\ IF n = 0 THEN UNCHANGED <<pool, write_index, write_mirror>>
           ELSE IF buffer_size - write_index >= n THEN PutAhead(s, n)
           ELSE PutAround(s, n)
        /\ returned' = n /\ copied' = <<>>
        /\ UNCHANGED <<read_mirror, read_index>>

\* win32device_ringbuffer_put: "drop some data" when it does not fit.
Put ==
  \E s \in Bursts :
    LET n == Smaller(Len(s), space_len)
    IN  /\ IF n = 0 THEN UNCHANGED <<pool, write_index, write_mirror>>
           ELSE IF buffer_size - write_index > n THEN PutAhead(s, n)
           ELSE PutAround(s, n)
        /\ returned' = n /\ copied' = <<>>
        /\ UNCHANGED <<read_mirror, read_index>>

\* Mutant: the mirror of the reader does not flip.
GetSameSide ==
  \E length \in Requests :
    LET n == Smaller(length, data_len)
        ahead == buffer_size - read_index
    IN  /\ copied' = [i \in 1 .. n |-> IF i <= ahead THEN pool[read_index + i - 1]
                                                     ELSE pool[i - 1 - ahead]]
        /\ read_index' = IF ahead > n THEN read_index + n ELSE n - ahead
        /\ returned' = n
        /\ UNCHANGED <<pool, read_mirror, write_mirror, write_index>>

\* win32device_ringbuffer_get, after _modbus_win32device_read has cut the length
\* to what there is.
Get ==
  \E length \in Requests :
    LET n == Smaller(length, data_len)
        ahead == buffer_size - read_index
    IN  /\ copied' = [i \in 1 .. n |-> IF i <= ahead THEN pool[read_index + i - 1]
                                                     ELSE pool[i - 1 - ahead]]
        /\ IF ahead > n
             THEN read_index' = read_index + n /\ UNCHANGED read_mirror
             ELSE read_index' = n - ahead /\ read_mirror' = 1 - read_mirror
        /\ returned' = n
        /\ UNCHANGED <<pool, write_mirror, write_index>>

\* win32device_ringbuffer_reset
Reset ==
  /\ read_mirror' = 0 /\ read_index' = 0 /\ write_mirror' = 0 /\ write_index' = 0
  /\ returned' = 0 /\ copied' = <<>>
  /\ UNCHANGED pool

Next == Put \/ Get \/ Reset
Spec == Init /\ [][Next]_vars
-----------------------------------------------------------------------------
\* The type invariant: the indices stay inside the pool.
TypeOK ==
  /\ pool \in [0 .. buffer_size - 1 -> Elements]
  /\ read_index \in 0 .. buffer_size - 1 /\ write_index \in 0 .. buffer_size - 1
  /\ read_mirror \in {0, 1} /\ write_mirror \in {0, 1}
  /\ returned \in 0 .. buffer_size
  /\ copied \in Seq(Elements)

\* On the same side of the mirror the writer is not behind the reader, on
\* different sides it is not ahead of it: what lets one bit tell a full ring from
\* an empty one, and data_len from the indices alone.
MirrorInv ==
  IF read_mirror = write_mirror THEN read_index <= write_index
                                ELSE write_index <= read_index

\* The bytes in the ring, oldest first.
Contents ==
  [i \in 1 .. data_len |->
     IF read_index + i - 1 < buffer_size THEN pool[read_index + i - 1]
     ELSE pool[read_index + i - 1 - buffer_size]]

Fifo == INSTANCE BoundedFifo WITH Capacity <- buffer_size, queue <- Contents

\* The ring is a bounded queue: nothing in it is overwritten, repeated or handed
\* out of order, whatever puts, gets and resets follow one another.
ImplementsFifo == Fifo!Spec
=============================================================================
