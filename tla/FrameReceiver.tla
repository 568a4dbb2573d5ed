---------------------------- MODULE FrameReceiver ----------------------------
(***************************************************************************)
(* How a context cuts a frame out of the byte stream of its port:          *)
(* modbus_slave_wait (a slave collecting a query) and modbus_wait_confirm  *)
(* (a master collecting the answer), both built on modbus_want_read, which *)
(* alternates between reading what the port holds and waiting for more.    *)
(*                                                                         *)
(* A frame is collected in three reads, numbered by the variable step      *)
(* (read_step in the slave, read_position in the master):                  *)
(*   0  the header and the function code,                                  *)
(*   1  the fixed part the function code announces,                        *)
(*   2  the data the byte count announces, and the checksum.               *)
(* Nothing is known of the bytes on the line: the function code and the    *)
(* byte count are whatever arrived, so the module covers noise and frames  *)
(* that are cut or shifted as well as well-formed ones.                    *)
(***************************************************************************)
EXTENDS ModbusBase

CONSTANTS
  Functions,   \* the values a byte in the place of a function code takes
  Counts,      \* the values a byte in the place of a byte count takes
  RxCap,       \* how many unread bytes the port holds at most
  MaxSurplus   \* how many wake-ups it holds for bytes already read

ASSUME FunctionsAssumption == Functions \subseteq Byte
ASSUME CountsAssumption    == Counts \subseteq Byte
ASSUME RxCapAssumption     == RxCap \in Nat \ {0}
ASSUME SurplusAssumption   == MaxSurplus \in Nat

VARIABLES
  core,          \* smb->core, set by modbus_init and fixed from then on
  avail,         \* unread bytes in the port
  surplus,       \* wake-ups in the port that announce bytes already read
  op,            \* the call in progress: "none", "slave_wait", "wait_confirm"
  pc,            \* where it is: "idle", "read", "wait", "step", "check"
  step,          \* read_step / read_position
  function,      \* request[len_header] / response[len_header]
  read_want,     \* bytes the read in progress is to collect
  read_length,   \* bytes the finished reads have stored
  got,           \* read_len of modbus_want_read: bytes of this read so far
  forever,       \* has the wait no end?  MODBUS_WAIT_FOREVER on a serial
                 \* device; a socket makes a wait of 10 ms of it
  ret            \* what the last call returned; 0 while one runs

vars == <<core, avail, surplus, op, pc, step, function, read_want, read_length,
          got, forever, ret>>

-----------------------------------------------------------------------------
Init ==
  /\ core \in {RtuCore, TcpCore}
  /\ avail = 0 /\ surplus = 0
  /\ op = "none" /\ pc = "idle" /\ step = 0 /\ function = 0
  /\ read_want = 0 /\ read_length = 0 /\ got = 0
  /\ forever = FALSE /\ ret = 0

\* The port takes a byte off the line (interrupt handler or network stack).
ByteArrives ==
  /\ avail < RxCap
  /\ avail' = avail + 1
  /\ UNCHANGED <<core, surplus, op, pc, step, function, read_want, read_length,
                 got, forever, ret>>

Begin(o, wait_forever) ==
  /\ op = "none"
  /\ op' = o /\ pc' = "read" /\ step' = 0
  /\ read_want' = core.len_header + 1
  /\ forever' = wait_forever
  /\ ret' = 0
  /\ UNCHANGED <<core, avail, surplus, function, read_length, got>>

\* The application calls modbus_slave_wait with the wait time it likes.
SlaveWait == \E wait_forever \in BOOLEAN : Begin("slave_wait", wait_forever)

\* Mutant: a frame timeout that never ends.
WaitConfirmForever == Begin("wait_confirm", TRUE)

\* The application calls modbus_wait_confirm: wait_time = timeout_frame.
WaitConfirm == Begin("wait_confirm", FALSE)

Return(code) ==
  /\ op' = "none" /\ pc' = "idle" /\ step' = 0 /\ function' = 0
  /\ read_want' = 0 /\ read_length' = 0 /\ got' = 0 /\ forever' = FALSE
  /\ ret' = code

(***************************************************************************)
(* modbus_want_read: modbus_read hands over at most what is still missing; *)
(* the call is over when nothing is, else modbus_wait is called.  A port   *)
(* that counts wake-ups (the semaphore of the serial device) keeps those   *)
(* of the bytes that were read without waiting, so a later wait may end    *)
(* with nothing to read.                                                   *)
(***************************************************************************)
ReadPort ==
  LET missing == read_want - got
      n       == IF avail < missing THEN avail ELSE missing
  IN  /\ pc = "read"
      /\ got' = got + n
      /\ avail' = avail - n
      /\ surplus' \in {k \in surplus .. surplus + n : k <= MaxSurplus}
      /\ pc' = IF n = missing THEN "step" ELSE "wait"
      /\ UNCHANGED <<core, op, step, function, read_want, read_length, forever, ret>>

\* port->wait returns >= 0: there is something to read ...
WaitData ==
  /\ pc = "wait" /\ avail > 0
  /\ pc' = "read"
  /\ UNCHANGED <<core, avail, surplus, op, step, function, read_want, read_length,
                 got, forever, ret>>

\* ... or there was.
WaitSpurious ==
  /\ pc = "wait" /\ surplus > 0
  /\ surplus' = surplus - 1
  /\ pc' = "read"
  /\ UNCHANGED <<core, avail, op, step, function, read_want, read_length, got,
                 forever, ret>>

\* port->wait gives up.  The bytes of this frame read so far are gone.
WaitTimeout ==
  /\ pc = "wait" /\ ~ forever
  /\ Return(MODBUS_TIMEOUT)
  /\ UNCHANGED <<core, avail, surplus>>

\* port->wait reports a broken connection or device.
WaitError ==
  /\ pc = "wait"
  /\ Return(MODBUS_ERROR_READ)
  /\ UNCHANGED <<core, avail, surplus>>

(***************************************************************************)
(* What the two loops do once a read is complete.  Continue is the end of  *)
(* the loop body: leave when nothing more is wanted, else read on with a   *)
(* wait time of timeout_byte for each byte.                                *)
(***************************************************************************)
Stored == read_length + read_want

\* Mutant: the wait time of the first read is kept for the rest of the frame.
ContinueSameWait(want, next_step) ==
  /\ read_want' = want
  /\ read_length' = Stored
  /\ got' = 0
  /\ step' = next_step
  /\ pc' = IF want = 0 THEN "check" ELSE "read"
  /\ UNCHANGED <<core, avail, surplus, op, forever, ret>>

\* Mutant: read_length is advanced before the read, not after it.
ContinueAhead(want, next_step) ==
  /\ read_want' = want
  /\ read_length' = Stored + want
  /\ got' = 0
  /\ step' = next_step
  /\ pc' = IF want = 0 THEN "check" ELSE "read"
  /\ forever' = IF want = 0 THEN forever ELSE FALSE
  /\ UNCHANGED <<core, avail, surplus, op, ret>>

Continue(want, next_step) ==
  /\ read_want' = want
  /\ read_length' = Stored
  /\ got' = 0
  /\ step' = next_step
  /\ pc' = IF want = 0 THEN "check" ELSE "read"
  /\ forever' = IF want = 0 THEN forever ELSE FALSE
  /\ UNCHANGED <<core, avail, surplus, op, ret>>

\* Mutant: the announced length is believed.
ReadTailUnchecked(f, too_long) ==
  \E data \in IF HasCount(op, f) THEN Counts ELSE {0} :
    Continue(data + core.len_checksum, 2) /\ function' = f

\* Mutant: the checksum is left in the port.
ReadTailNoChecksum(f, too_long) ==
  \E data \in IF HasCount(op, f) THEN Counts ELSE {0} :
    IF data + Stored > core.len_adu_max
      THEN Return(too_long) /\ UNCHANGED <<core, avail, surplus>>
      ELSE Continue(data, 2) /\ function' = f

\* The last read: the announced data and the checksum, unless they do not fit.
ReadTail(f, too_long) ==
  \E data \in IF HasCount(op, f) THEN Counts ELSE {0} :
    LET want == data + core.len_checksum
    IN  IF want + Stored > core.len_adu_max
          THEN Return(too_long) /\ UNCHANGED <<core, avail, surplus>>
          ELSE Continue(want, 2) /\ function' = f

\* case 0 of the slave: with no fixed part it falls through into case 1.
SlaveHead ==
  /\ pc = "step" /\ op = "slave_wait" /\ step = 0
  /\ \E f \in Functions :
       IF RequestRest(f) # 0
         THEN Continue(RequestRest(f), 1) /\ function' = f
         ELSE ReadTail(f, MODBUS_FAIL)

SlaveTail ==
  /\ pc = "step" /\ op = "slave_wait" /\ step = 1
  /\ ReadTail(function, MODBUS_FAIL)

ConfirmHead ==
  /\ pc = "step" /\ op = "wait_confirm" /\ step = 0
  /\ \E f \in Functions : Continue(ConfirmRest(f), 1) /\ function' = f

ConfirmTail ==
  /\ pc = "step" /\ op = "wait_confirm" /\ step = 1
  /\ ReadTail(function, MODBUS_FAIL_CONFIRM)

\* Mutant: read_step is counted up after every read.
LastReadCounts ==
  /\ pc = "step" /\ step = 2
  /\ Continue(0, step + 1)
  /\ UNCHANGED function

\* read_step = 2: the frame is complete and the loop ends.
LastRead ==
  /\ pc = "step" /\ step = 2
  /\ Continue(0, 2)
  /\ UNCHANGED function

\* check_wait_request / check_wait_response judge the frame.
CheckFrame ==
  /\ pc = "check"
  /\ \E verdict \in {read_length, MODBUS_FAIL_CHECK, MODBUS_FAIL_ADRR} : Return(verdict)
  /\ UNCHANGED <<core, avail, surplus>>

Thread ==
  \/ ReadPort \/ SlaveHead \/ SlaveTail \/ ConfirmHead \/ ConfirmTail
  \/ LastRead \/ CheckFrame

Next ==
  \/ ByteArrives \/ SlaveWait \/ WaitConfirm
  \/ WaitData \/ WaitSpurious \/ WaitTimeout \/ WaitError \/ Thread

(***************************************************************************)
(* The thread runs when it can, and a wait with a finite time ends.  The   *)
(* line owes nothing, and neither does an application that starts a call.  *)
(***************************************************************************)
Fairness == WF_vars(Thread) /\ WF_vars(WaitData \/ WaitTimeout)

Spec == Init /\ [][Next]_vars /\ Fairness
-----------------------------------------------------------------------------
(***************************************************************************)
(* Properties.                                                             *)
(***************************************************************************)

\* The type invariant: where each local of the two receive loops ranges.
TypeOK ==
  /\ core \in {RtuCore, TcpCore}
  /\ avail \in 0 .. RxCap /\ surplus \in 0 .. MaxSurplus
  /\ op \in {"none", "slave_wait", "wait_confirm"}
  /\ pc \in {"idle", "read", "wait", "step", "check"}
  /\ step \in 0 .. 2
  /\ function \in Byte
  /\ read_want \in Nat /\ read_length \in Nat /\ got \in Nat
  /\ forever \in BOOLEAN
  /\ ret \in Int

\* Whatever the line carries, no read is ever asked to store a byte past the
\* end of read_buff: what is stored and what is still wanted stay within
\* MODBUS_MAX_ADU_LENGTH, although the byte count comes from the line and may
\* announce more than a frame can hold (the ADU checks of both loops).
BufferBound ==
  /\ read_length + read_want <= MODBUS_MAX_ADU_LENGTH
  /\ got <= read_want

\* The length of a frame as the protocol lays it out, given its byte count;
\* the frames this library has no layout for are those of other functions.
RequestLength(f, data) ==
  CASE f <= 6                       -> 5          \* address, quantity or value
    [] f \in MultipleWrites         -> 6 + data   \* ... byte count, data
    [] f = MASK_WRITE_REGISTER      -> 7          \* address, two masks
    [] f = WRITE_AND_READ_REGISTERS -> 10 + data  \* two ranges, count, data
    [] OTHER                        -> 1

ConfirmLength(f, data) ==
  CASE f \in Reads                 -> 2 + data    \* byte count, data
    [] f \in SingleWrites \cup MultipleWrites -> 5 \* address, quantity or value
    [] f = MASK_WRITE_REGISTER     -> 7
    [] OTHER                       -> 2           \* the exception code

FrameLength(o, f, data) ==
  core.len_header
    + (IF o = "slave_wait" THEN RequestLength(f, data) ELSE ConfirmLength(f, data))
    + core.len_checksum

\* A frame handed to the core's check is exactly as long as its own function
\* code and byte count say: the loop neither leaves a byte of it in the port
\* nor takes one of the frame behind it.
FrameExact ==
  pc = "check" =>
    \E data \in IF HasCount(op, function) THEN Counts ELSE {0} :
      read_length = FrameLength(op, function, data)

\* The byte count a loop is about to use lies among the bytes of this frame
\* that have been received, never in what an earlier frame left in read_buff.
CountIsFresh ==
  pc = "step" /\ step = 1 /\ HasCount(op, function) =>
    core.len_header + CountOffset(op, function) < read_length + got

\* A master never hangs in modbus_wait_confirm, and a slave that has seen a
\* header and a function code never hangs in the rest of the frame, even when
\* the application asked it to wait for ever and the line falls silent.
MasterReturns == op = "wait_confirm" ~> op = "none"
SlaveReturns  == op = "slave_wait" /\ step > 0 ~> op = "none"

\* What the header file says of the longest RTU frame: 256 bytes.
RtuFrameLimit == pc = "check" /\ core = RtuCore => read_length <= 256

(***************************************************************************)
(* LoopInv is what the two loops keep true between any two of their steps, *)
(* and the inductive invariant the proofs of the safety properties use:    *)
(* what has been read and what is still wanted, at each of the three reads.*)
(***************************************************************************)
AtRest ==
  op = "none" => /\ pc = "idle" /\ step = 0
                 /\ read_want = 0 /\ read_length = 0 /\ got = 0

AtHead ==
  op # "none" /\ step = 0 =>
    /\ pc \in {"read", "wait", "step"}
    /\ read_length = 0 /\ read_want = core.len_header + 1

AtFixedPart ==
  step = 1 =>
    /\ pc \in {"read", "wait", "step"}
    /\ read_length = core.len_header + 1
    /\ read_want = Rest(op, function) /\ read_want > 0

AtTail ==
  step = 2 =>
    /\ pc # "idle"
    /\ read_length + read_want <= core.len_adu_max
    /\ \E data \in IF HasCount(op, function) THEN Counts ELSE {0} :
         read_length + read_want = FrameLength(op, function, data)

\* Between two steps of a receive loop: nothing is in progress, or the bytes
\* stored and wanted are those of the read the loop is at.
LoopInv ==
  /\ AtRest /\ AtHead /\ AtFixedPart /\ AtTail
  /\ got <= read_want
  /\ pc = "step"  => got = read_want
  /\ pc = "check" => step = 2 /\ read_want = 0

=============================================================================
