---------------------------- MODULE RtDevicePort ----------------------------
(***************************************************************************)
(* The RT-Thread serial port under a context: the interrupt handler of the *)
(* device on one side, and on the other the thread in modbus_want_read     *)
(* (read what there is, else wait) or modbus_error_recovery (flush).  They *)
(* share the FIFO of the device, the semaphore rx_sem and rx_size, and no  *)
(* lock: the interrupt may come between any two steps of the thread.       *)
(*                                                                         *)
(* FIFO and semaphore belong to RT-Thread.  rt_device_read takes bytes one *)
(* by one, each with interrupts disabled, until it has what it asked for   *)
(* or the FIFO is empty; a FIFO that is full drops its oldest byte; a      *)
(* semaphore counts up to a limit.                                         *)
(***************************************************************************)
EXTENDS Naturals

CONSTANTS
  FifoSize,   \* RT_SERIAL_RB_BUFSZ, the bytes the device holds
  SemMax,     \* RT_SEM_VALUE_MAX
  Burst,      \* bytes one interrupt may find in the hardware
  FlushMax,   \* MODBUS_MAX_ADU_LENGTH, the most one flush reads
  Lengths     \* what modbus_want_read is asked for

ASSUME SizesAssumption ==
  /\ FifoSize \in Nat \ {0} /\ SemMax \in Nat \ {0} /\ Burst \in Nat \ {0}
  /\ Lengths \subseteq Nat

\* One flush empties the device only if it may read as much as the device holds.
ASSUME FlushAssumption == FlushMax \in Nat /\ FifoSize <= FlushMax

VARIABLES
  fifo,       \* unread bytes in the device
  rx_sem,     \* value of the semaphore
  rx_size,    \* what the last interrupt reported
  pc,         \* the thread: "idle", "read", "wait", "woken", "flush", "reset"
  want,       \* bytes modbus_want_read still misses, or the flush may still take
  old,        \* of the bytes in the device, those older than the flush
  failed      \* did port->wait report MODBUS_ERROR_READ?

vars == <<fifo, rx_sem, rx_size, pc, want, old, failed>>

Init ==
  /\ fifo = 0 /\ rx_sem = 0 /\ rx_size = 0
  /\ pc = "idle" /\ want = 0 /\ old = 0 /\ failed = FALSE

Less(a, b) == IF a < b THEN a ELSE b

\* Mutant: a semaphore without a limit.
InterruptUnlimited ==
  /\ \E n \in 1 .. Burst :
       /\ fifo' = Less(fifo + n, FifoSize)
       /\ old' = IF fifo + n > FifoSize
                   THEN LET dropped == fifo + n - FifoSize
                        IN  IF old > dropped THEN old - dropped ELSE 0
                   ELSE old
  /\ rx_size' = fifo'
  /\ rx_sem' = rx_sem + 1
  /\ UNCHANGED <<pc, want, failed>>

\* The device interrupt: bytes go into the FIFO, then the handler that open
\* installed (_modbus_rtdevice_rx_indicate) notes how many and releases rx_sem.
Interrupt ==
  /\ \E n \in 1 .. Burst :
       /\ fifo' = Less(fifo + n, FifoSize)
       /\ old' = IF fifo + n > FifoSize
                   THEN LET dropped == fifo + n - FifoSize
                        IN  IF old > dropped THEN old - dropped ELSE 0
                   ELSE old
  /\ rx_size' = fifo'
  /\ rx_sem' = Less(rx_sem + 1, SemMax)
  /\ UNCHANGED <<pc, want, failed>>
-----------------------------------------------------------------------------
(***************************************************************************)
(* modbus_want_read.                                                       *)
(***************************************************************************)
\* Mutant: wait first, read afterwards.
WantReadWaits ==
  /\ pc = "idle"
  /\ \E n \in Lengths : want' = n
  /\ pc' = "wait" /\ failed' = FALSE
  /\ UNCHANGED <<fifo, rx_sem, rx_size, old>>

WantRead ==
  /\ pc = "idle"
  /\ \E n \in Lengths : want' = n
  /\ pc' = "read" /\ failed' = FALSE
  /\ UNCHANGED <<fifo, rx_sem, rx_size, old>>

\* One byte of _modbus_rtdevice_read.
ReadByte ==
  /\ pc = "read" /\ want > 0 /\ fifo > 0
  /\ fifo' = fifo - 1 /\ want' = want - 1
  /\ UNCHANGED <<rx_sem, rx_size, pc, old, failed>>

\* Mutant: one byte is read for each wake-up.
ReadEndEach ==
  /\ pc = "read"
  /\ pc' = IF want = 0 THEN "idle" ELSE "wait"
  /\ UNCHANGED <<fifo, rx_sem, rx_size, want, old, failed>>

\* Mutant: a read that empties the device also forgets the size reported.
ReadEndForgets ==
  /\ pc = "read" /\ (want = 0 \/ fifo = 0)
  /\ pc' = IF want = 0 THEN "idle" ELSE "wait"
  /\ rx_size' = 0
  /\ UNCHANGED <<fifo, rx_sem, want, old, failed>>

\* The read is over: all is there, or the FIFO is empty and the thread waits.
ReadEnd ==
  /\ pc = "read" /\ (want = 0 \/ fifo = 0)
  /\ pc' = IF want = 0 THEN "idle" ELSE "wait"
  /\ UNCHANGED <<fifo, rx_sem, rx_size, want, old, failed>>

\* _modbus_rtdevice_wait: rt_sem_take succeeds, ...
Take ==
  /\ pc = "wait" /\ rx_sem > 0
  /\ rx_sem' = rx_sem - 1
  /\ pc' = "woken"
  /\ UNCHANGED <<fifo, rx_size, want, old, failed>>

\* ... rx_size is looked at, and modbus_want_read reads on, or gives up.
Woken ==
  /\ pc = "woken"
  /\ pc' = IF rx_size = 0 THEN "idle" ELSE "read"
  /\ want' = IF rx_size = 0 THEN 0 ELSE want
  /\ failed' = (rx_size = 0)
  /\ UNCHANGED <<fifo, rx_sem, rx_size, old>>

\* rt_sem_take gives up.
TimedOut ==
  /\ pc = "wait" /\ rx_sem = 0
  /\ pc' = "idle" /\ want' = 0
  /\ UNCHANGED <<fifo, rx_sem, rx_size, old, failed>>
-----------------------------------------------------------------------------
(***************************************************************************)
(* modbus_error_recovery: _modbus_rtdevice_flush.                          *)
(***************************************************************************)
Flush ==
  /\ pc = "idle"
  /\ pc' = "flush" /\ want' = FlushMax /\ old' = fifo /\ failed' = FALSE
  /\ UNCHANGED <<fifo, rx_sem, rx_size>>

\* One byte of its rt_device_read; the oldest byte goes first.
FlushByte ==
  /\ pc = "flush" /\ want > 0 /\ fifo > 0
  /\ fifo' = fifo - 1 /\ want' = want - 1
  /\ old' = IF old > 0 THEN old - 1 ELSE 0
  /\ UNCHANGED <<rx_sem, rx_size, pc, failed>>

\* Mutant: one byte is enough.
FlushEndEarly ==
  /\ pc = "flush" /\ want < FlushMax
  /\ pc' = "reset" /\ want' = 0
  /\ UNCHANGED <<fifo, rx_sem, rx_size, old, failed>>

FlushEnd ==
  /\ pc = "flush" /\ (want = 0 \/ fifo = 0)
  /\ pc' = "reset" /\ want' = 0
  /\ UNCHANGED <<fifo, rx_sem, rx_size, old, failed>>

\* rt_sem_control(RT_IPC_CMD_RESET): the wake-ups go, those of bytes that came
\* after the read included.
Reset ==
  /\ pc = "reset"
  /\ rx_sem' = 0
  /\ pc' = "idle"
  /\ UNCHANGED <<fifo, rx_size, want, old, failed>>

Thread == ReadByte \/ ReadEnd \/ Take \/ Woken \/ FlushByte \/ FlushEnd \/ Reset
Next   == Interrupt \/ WantRead \/ TimedOut \/ Flush \/ Thread

\* The thread goes on when it can.  A wait with no wake-up may last for ever
\* (MODBUS_WAIT_FOREVER), and no interrupt has to come.
Spec == Init /\ [][Next]_vars /\ WF_vars(Thread)
-----------------------------------------------------------------------------
\* The type invariant.
TypeOK ==
  /\ fifo \in 0 .. FifoSize /\ rx_sem \in 0 .. SemMax /\ rx_size \in 0 .. FifoSize
  /\ pc \in {"idle", "read", "wait", "woken", "flush", "reset"}
  /\ want \in Nat /\ old \in 0 .. fifo /\ failed \in BOOLEAN

\* The thread never sleeps over bytes it could read: when it waits and the
\* device holds something, the semaphore lets it go on.  This rests on
\* modbus_want_read reading before it waits, because a flush may leave bytes in
\* the device without the wake-ups that announced them.
NoLostWakeup == pc = "wait" /\ fifo > 0 => rx_sem > 0

\* modbus_want_read never takes the line for broken: a wake-up has always been
\* preceded by an interrupt that reported a size, so MODBUS_ERROR_READ, on which
\* callers give the connection up, cannot come from a device that works.
NoFalseError == ~ failed

\* A flush leaves nothing of what was in the device when it began, so the call
\* after it reads no byte that is older than the recovery.
FlushDropsOld == pc = "reset" => old = 0

\* While the device holds bytes a thread in modbus_want_read goes on: it does
\* not stay in rt_sem_take, with whatever time limit it was given.
WaitEnds == pc = "wait" /\ fifo > 0 ~> pc \in {"read", "idle"}
=============================================================================
