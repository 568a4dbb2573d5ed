------------------------ MODULE RtDevicePort_proofs ------------------------
(***************************************************************************)
(* The safety of the serial port for every size of FIFO, every burst the   *)
(* hardware may deliver and every limit of the semaphore.                  *)
(***************************************************************************)
EXTENDS RtDevicePort, TLAPS

\* Nothing is woken before an interrupt has reported a size.
Reported == (rx_sem > 0 \/ pc = "woken" => rx_size > 0) /\ NoFalseError

\* While a flush runs it may still read all the old bytes there are.
FlushReach ==
  /\ pc = "flush"  => old <= want
  /\ pc # "flush"  => old = 0

IInv == TypeOK /\ NoLostWakeup /\ Reported /\ FlushReach

LEMMA InitIInv == Init => IInv
<1> SUFFICES ASSUME Init PROVE IInv
  OBVIOUS
<1>1. failed \in BOOLEAN /\ ~ failed
  BY DEF Init
<1>2. TypeOK
  BY <1>1, SizesAssumption DEF Init, TypeOK
<1> QED BY <1>1, <1>2 DEF Init, IInv, NoLostWakeup, Reported, NoFalseError, FlushReach

\* The interrupt only adds: it raises the semaphore and drops old bytes first.
LEMMA InterruptIInv == IInv /\ Interrupt => IInv'
<1> SUFFICES ASSUME IInv, Interrupt PROVE IInv'
  OBVIOUS
<1> USE SizesAssumption DEF IInv
<1>1. PICK n \in 1 .. Burst :
        /\ fifo' = Less(fifo + n, FifoSize)
        /\ old' = IF fifo + n > FifoSize
                    THEN IF old > fifo + n - FifoSize THEN old - (fifo + n - FifoSize) ELSE 0
                    ELSE old
  BY DEF Interrupt
<1>2. /\ rx_size' = fifo' /\ rx_sem' = Less(rx_sem + 1, SemMax)
      /\ pc' = pc /\ want' = want /\ failed' = failed
  BY DEF Interrupt
<1>3. fifo' \in 1 .. FifoSize /\ old' \in 0 .. fifo' /\ old' <= old
  BY <1>1 DEF TypeOK, Less
<1>4. rx_sem' \in 1 .. SemMax
  BY <1>2 DEF TypeOK, Less
<1>5. TypeOK'
  BY <1>2, <1>3, <1>4 DEF TypeOK
<1>6. FlushReach'
  BY <1>2, <1>3 DEF TypeOK, FlushReach
<1> QED BY <1>2, <1>3, <1>4, <1>5, <1>6 DEF NoLostWakeup, Reported, NoFalseError

LEMMA StepIInv == IInv /\ [Next]_vars => IInv'
<1> SUFFICES ASSUME IInv, [Next]_vars PROVE IInv'
  OBVIOUS
<1> USE SizesAssumption, FlushAssumption
    DEF IInv, TypeOK, NoLostWakeup, Reported, NoFalseError, FlushReach
<1>1. CASE Interrupt
  BY <1>1, InterruptIInv
<1>2. CASE WantRead
  <2>1. failed' \in BOOLEAN /\ ~ failed'
    BY <1>2 DEF WantRead
  <2> QED BY <1>2, <2>1 DEF WantRead
<1>3. CASE ReadByte
  BY <1>3 DEF ReadByte
<1>4. CASE ReadEnd
  BY <1>4 DEF ReadEnd
<1>5. CASE Take
  BY <1>5 DEF Take
<1>6. CASE Woken
  <2>1. rx_size > 0 /\ failed' \in BOOLEAN /\ ~ failed'
    BY <1>6 DEF Woken
  <2> QED BY <1>6, <2>1 DEF Woken
<1>7. CASE TimedOut
  BY <1>7 DEF TimedOut
<1>8. CASE Flush
  <2>1. failed' \in BOOLEAN /\ ~ failed'
    BY <1>8 DEF Flush
  <2> QED BY <1>8, <2>1 DEF Flush
<1>9. CASE FlushByte
  BY <1>9 DEF FlushByte
<1>10. CASE FlushEnd
  BY <1>10 DEF FlushEnd
<1>11. CASE Reset
  BY <1>11 DEF Reset
<1>12. CASE UNCHANGED vars
  BY <1>12 DEF vars
<1> QED
  BY <1>1, <1>2, <1>3, <1>4, <1>5, <1>6, <1>7, <1>8, <1>9, <1>10, <1>11, <1>12
     DEF Next, Thread

LEMMA Invariant == Spec => []IInv
BY InitIInv, StepIInv, PTL DEF Spec
-----------------------------------------------------------------------------
\* The state the thread and the interrupt share keeps its types; the semaphore
\* stays within its limit.
THEOREM TypeCorrect == Spec => []TypeOK
<1>1. IInv => TypeOK
  BY DEF IInv
<1> QED BY <1>1, Invariant, PTL

\* A thread in rt_sem_take is never left there with bytes in the device, on
\* any interleaving of the interrupt with modbus_want_read and the flush.
THEOREM NoSleepOverData == Spec => []NoLostWakeup
<1>1. IInv => NoLostWakeup
  BY DEF IInv
<1> QED BY <1>1, Invariant, PTL

\* port->wait of a working device never reports MODBUS_ERROR_READ.
THEOREM DeviceNeverFails == Spec => []NoFalseError
<1>1. IInv => NoFalseError
  BY DEF IInv, Reported
<1> QED BY <1>1, Invariant, PTL

\* modbus_error_recovery drops every byte that was in the device when it began,
\* interrupts and overflows of the FIFO during the flush included.
THEOREM RecoveryDropsOld == Spec => []FlushDropsOld
<1>1. IInv => FlushDropsOld
  BY DEF IInv, FlushReach, FlushDropsOld
<1> QED BY <1>1, Invariant, PTL
=============================================================================
