------------------------ MODULE FrameReceiver_proofs ------------------------
(***************************************************************************)
(* The safety properties of FrameReceiver for every set of function codes, *)
(* every set of byte counts and every capacity of the port.                *)
(*                                                                         *)
(* The invariant is TypeOK /\ LoopInv.  LoopInv is inductive once the      *)
(* types are known, and the three safety properties follow from it without *)
(* looking at a step again.                                                *)
(*                                                                         *)
(* The frames of the calls that a master accepts fit the buffer too, and a *)
(* slave's loop gets over bytes its line loses (RtuResync).                *)
(***************************************************************************)
EXTENDS FrameReceiver, SequenceTheorems, TLAPS

\* The fixed part of a frame is short: with it a frame is far from the limit.
LEMMA RestBound ==
  ASSUME NEW o, NEW f \in Byte
  PROVE  Rest(o, f) \in 0 .. 9
BY DEF Rest, RequestRest, ConfirmRest, Byte, Reads, CoilReads, RegisterReads,
       SingleWrites, MultipleWrites, MASK_WRITE_REGISTER,
       WRITE_AND_READ_REGISTERS, WRITE_MULTIPLE_COILS, WRITE_MULTIPLE_REGISTERS

\* A master always has a fixed part to read after the function code.
LEMMA ConfirmRestPositive ==
  ASSUME NEW f \in Byte
  PROVE  ConfirmRest(f) > 0
BY DEF ConfirmRest, Byte, Reads, CoilReads, RegisterReads,
       SingleWrites, MultipleWrites, MASK_WRITE_REGISTER,
       WRITE_MULTIPLE_COILS, WRITE_MULTIPLE_REGISTERS

\* What the loops read is what the protocol lays out: the header, the function
\* code, the fixed part, the announced data and the checksum.
LEMMA RestIsLayout ==
  ASSUME NEW o \in {"slave_wait", "wait_confirm"}, NEW f \in Byte, NEW data \in Byte,
         HasCount(o, f) \/ data = 0, core \in {RtuCore, TcpCore}
  PROVE  FrameLength(o, f, data)
           = core.len_header + 1 + Rest(o, f) + data + core.len_checksum
<1>1. CASE o = "slave_wait"
  BY <1>1 DEF FrameLength, RequestLength, HasCount, Rest, RequestRest,
       Byte, SingleWrites, MultipleWrites, MASK_WRITE_REGISTER, RtuCore, TcpCore,
       WRITE_AND_READ_REGISTERS, WRITE_MULTIPLE_COILS, WRITE_MULTIPLE_REGISTERS
<1>2. CASE o = "wait_confirm"
  BY <1>2 DEF FrameLength, ConfirmLength, HasCount, Rest, ConfirmRest,
       Byte, Reads, CoilReads, RegisterReads, RtuCore, TcpCore,
       SingleWrites, MultipleWrites, MASK_WRITE_REGISTER,
       WRITE_MULTIPLE_COILS, WRITE_MULTIPLE_REGISTERS
<1> QED BY <1>1, <1>2

-----------------------------------------------------------------------------
IInv == TypeOK /\ LoopInv

LEMMA InitIInv == Init => IInv
<1> SUFFICES ASSUME Init PROVE IInv
  OBVIOUS
<1>1. forever \in BOOLEAN
  BY DEF Init
<1>2. TypeOK
  BY <1>1, RxCapAssumption, SurplusAssumption DEF Init, TypeOK, Byte
<1>3. LoopInv
  BY DEF Init, LoopInv, AtRest, AtHead, AtFixedPart, AtTail
<1> QED BY <1>2, <1>3 DEF IInv

\* Every call ends with the locals of the loops gone.
LEMMA ReturnIInv ==
  ASSUME IInv, NEW code \in Int, Return(code), UNCHANGED <<core, avail, surplus>>
  PROVE  IInv'
<1>1. forever' \in BOOLEAN
  BY DEF Return
<1>2. TypeOK'
  BY <1>1 DEF IInv, TypeOK, Return, Byte
<1>3. LoopInv'
  BY DEF LoopInv, AtRest, AtHead, AtFixedPart, AtTail, Return
<1> QED BY <1>2, <1>3 DEF IInv

\* The announced data and the checksum are wanted only when they still fit.
LEMMA ReadTailIInv ==
  ASSUME IInv, pc = "step", op # "none", got = read_want,
         NEW f \in Byte, Stored = core.len_header + 1 + Rest(op, f),
         NEW too_long \in Int, ReadTail(f, too_long)
  PROVE  IInv'
<1>1. PICK data \in IF HasCount(op, f) THEN Counts ELSE {0} :
        IF data + core.len_checksum + Stored > core.len_adu_max
          THEN Return(too_long) /\ UNCHANGED <<core, avail, surplus>>
          ELSE Continue(data + core.len_checksum, 2) /\ function' = f
  BY DEF ReadTail
<1>2. data \in Byte /\ (HasCount(op, f) \/ data = 0)
  BY CountsAssumption DEF Byte
<1>3. CASE data + core.len_checksum + Stored > core.len_adu_max
  BY <1>1, <1>3, ReturnIInv
<1>4. CASE ~ (data + core.len_checksum + Stored > core.len_adu_max)
  <2> DEFINE want == data + core.len_checksum
  <2>1. Continue(want, 2) /\ function' = f
    BY <1>1, <1>4
  <2>2. core \in {RtuCore, TcpCore} /\ op \in {"slave_wait", "wait_confirm"}
    BY DEF IInv, TypeOK
  <2>3. want \in Nat /\ want + Stored <= core.len_adu_max /\ Stored \in Nat
    BY <1>2, <1>4, <2>2, RestBound DEF RtuCore, TcpCore, Byte
  <2>4. Stored + want = FrameLength(op, f, data)
    <3>1. op \in {"slave_wait", "wait_confirm"} /\ Rest(op, f) \in 0 .. 9 /\ data \in 0 .. 255
      BY <1>2, <2>2, RestBound DEF Byte
    <3>2. FrameLength(op, f, data)
            = core.len_header + 1 + Rest(op, f) + data + core.len_checksum
      BY <1>2, <2>2, <3>1, RestIsLayout
    <3> QED BY <2>2, <3>1, <3>2 DEF RtuCore, TcpCore
  <2>5. /\ read_length' = Stored /\ read_want' = want /\ got' = 0 /\ step' = 2
        /\ core' = core /\ op' = op /\ avail' = avail /\ surplus' = surplus /\ ret' = ret
        /\ pc' = IF want = 0 THEN "check" ELSE "read"
        /\ forever' \in BOOLEAN
    BY <2>1 DEF Continue, IInv, TypeOK
  <2>6. TypeOK'
    BY <2>1, <2>2, <2>3, <2>5 DEF IInv, TypeOK
  <2>7. FrameLength(op, f, data)' = FrameLength(op, f, data)
    BY <2>5 DEF FrameLength
  <2>8. AtTail'
    <3>1. data \in IF HasCount(op', function') THEN Counts ELSE {0}
      BY <1>1, <2>1, <2>5
    <3>2. read_length' + read_want' = FrameLength(op, f, data)
      BY <2>3, <2>4, <2>5
    <3>3. FrameLength(op, f, data) = FrameLength(op, function, data)'
      BY <2>1, <2>5 DEF FrameLength
    <3>4. read_length' + read_want' <= core'.len_adu_max /\ pc' # "idle"
      BY <2>2, <2>3, <2>5 DEF RtuCore, TcpCore
    <3> QED BY <3>1, <3>2, <3>3, <3>4 DEF AtTail
  <2>9. LoopInv'
    BY <2>2, <2>3, <2>5, <2>8 DEF LoopInv, AtRest, AtHead, AtFixedPart
  <2> QED BY <2>6, <2>9 DEF IInv
<1> QED BY <1>3, <1>4

\* After the header, a loop goes on to the fixed part its function code names.
LEMMA HeadIInv ==
  ASSUME IInv, pc = "step", op # "none", step = 0, got = read_want,
         NEW f \in Byte, Rest(op, f) > 0,
         Continue(Rest(op, f), 1), function' = f
  PROVE  IInv'
<1>1. Rest(op, f) \in 1 .. 9
  BY RestBound
<1>2. /\ core \in {RtuCore, TcpCore} /\ read_length = 0
      /\ read_want = core.len_header + 1
  BY DEF IInv, TypeOK, LoopInv, AtHead
<1>3. /\ read_length' = core.len_header + 1 /\ read_want' = Rest(op, f)
      /\ got' = 0 /\ step' = 1 /\ pc' = "read"
      /\ UNCHANGED <<core, avail, surplus, op, ret>>
  BY <1>1, <1>2 DEF Continue, Stored, RtuCore, TcpCore
<1>4. TypeOK'
  <2>1. forever' \in BOOLEAN
    BY DEF Continue, IInv, TypeOK
  <2> QED BY <1>1, <1>2, <1>3, <2>1 DEF IInv, TypeOK, RtuCore, TcpCore
<1>5. Rest(op, f) = Rest(op, function)'
  BY <1>3 DEF Rest
<1>6. LoopInv'
  BY <1>1, <1>2, <1>3, <1>5 DEF LoopInv, AtRest, AtHead, AtFixedPart, AtTail
<1> QED BY <1>4, <1>6 DEF IInv

\* Moving bytes, waiting for them and receiving them leaves the plan of the
\* frame alone: only got, avail and pc change.
LEMMA SameRead ==
  ASSUME IInv, UNCHANGED <<core, op, step, function, read_want, read_length, forever, ret>>,
         avail' \in 0 .. RxCap, surplus' \in 0 .. MaxSurplus, got' \in Nat, got' <= read_want,
         \/ pc' = pc /\ got' = got
         \/ pc \in {"read", "wait"} /\ pc' \in {"read", "wait"}
         \/ pc = "read" /\ pc' = "step" /\ got' = read_want
  PROVE  IInv'
<1>1. TypeOK'
  BY DEF IInv, TypeOK
<1>2. AtTail'
  BY DEF IInv, LoopInv, AtTail, FrameLength, HasCount
<1>3. AtFixedPart'
  BY DEF IInv, LoopInv, AtFixedPart, Rest
<1>4. LoopInv'
  BY <1>2, <1>3 DEF IInv, TypeOK, LoopInv, AtRest, AtHead
<1> QED BY <1>1, <1>4 DEF IInv

LEMMA StepIInv == IInv /\ [Next]_vars => IInv'
<1> SUFFICES ASSUME IInv, [Next]_vars
             PROVE  IInv'
  OBVIOUS
<1> USE DEF IInv
<1>0. /\ core \in {RtuCore, TcpCore} /\ avail \in 0 .. RxCap /\ RxCap \in Nat
      /\ surplus \in 0 .. MaxSurplus /\ MaxSurplus \in Nat
      /\ read_want \in Nat /\ got \in Nat /\ read_length \in Nat
      /\ got <= read_want /\ (pc = "step" => got = read_want)
  BY RxCapAssumption, SurplusAssumption DEF TypeOK, LoopInv
<1>1. CASE ByteArrives
  BY <1>0, <1>1, SameRead DEF ByteArrives
<1>2. CASE SlaveWait \/ WaitConfirm
  <2>1. PICK o \in {"slave_wait", "wait_confirm"}, w \in BOOLEAN : Begin(o, w)
    BY <1>2 DEF SlaveWait, WaitConfirm
  <2>2. TypeOK'
    BY <1>0, <2>1 DEF Begin, TypeOK, RtuCore, TcpCore
  <2>3. LoopInv'
    BY <1>0, <2>1 DEF Begin, LoopInv, AtRest, AtHead, AtFixedPart, AtTail,
       RtuCore, TcpCore
  <2> QED BY <2>2, <2>3
<1>3. CASE ReadPort
  <2>1. \/ pc' = "wait" /\ got' <= read_want
        \/ pc' = "step" /\ got' = read_want
    BY <1>0, <1>3 DEF ReadPort
  <2>2. got' \in Nat /\ avail' \in 0 .. RxCap /\ surplus' \in 0 .. MaxSurplus
    BY <1>0, <1>3 DEF ReadPort
  <2> QED BY <1>0, <1>3, <2>1, <2>2, SameRead DEF ReadPort
<1>4. CASE WaitData \/ WaitSpurious
  BY <1>0, <1>4, SameRead DEF WaitData, WaitSpurious
<1>5. CASE WaitTimeout \/ WaitError
  BY <1>5, ReturnIInv DEF WaitTimeout, WaitError, MODBUS_TIMEOUT, MODBUS_ERROR_READ
<1>6. CASE SlaveHead
  <2>1. /\ pc = "step" /\ op = "slave_wait" /\ step = 0
        /\ Stored = core.len_header + 1
    BY <1>0, <1>6 DEF SlaveHead, LoopInv, AtHead, Stored, RtuCore, TcpCore
  <2>2. PICK f \in Functions :
          IF RequestRest(f) # 0
            THEN Continue(RequestRest(f), 1) /\ function' = f
            ELSE ReadTail(f, MODBUS_FAIL)
    BY <1>6 DEF SlaveHead
  <2>3. f \in Byte /\ Rest(op, f) = RequestRest(f) /\ Rest(op, f) \in 0 .. 9
    BY <2>1, FunctionsAssumption, RestBound DEF Rest
  <2>4. CASE RequestRest(f) # 0
    BY <1>0, <2>1, <2>2, <2>3, <2>4, HeadIInv
  <2>5. CASE RequestRest(f) = 0
    <3>1. Stored = core.len_header + 1 + Rest(op, f)
      BY <1>0, <2>1, <2>3, <2>5 DEF RtuCore, TcpCore
    <3> QED BY <1>0, <2>1, <2>2, <2>3, <2>5, <3>1, ReadTailIInv DEF MODBUS_FAIL
  <2> QED BY <2>4, <2>5
<1>7. CASE ConfirmHead
  <2>1. pc = "step" /\ op = "wait_confirm" /\ step = 0
    BY <1>7 DEF ConfirmHead
  <2>2. PICK f \in Functions : Continue(ConfirmRest(f), 1) /\ function' = f
    BY <1>7 DEF ConfirmHead
  <2>3. f \in Byte /\ Rest(op, f) = ConfirmRest(f) /\ Rest(op, f) > 0
    BY <2>1, FunctionsAssumption, ConfirmRestPositive DEF Rest
  <2> QED BY <1>0, <2>1, <2>2, <2>3, HeadIInv
<1>8. CASE SlaveTail \/ ConfirmTail
  <2>1. /\ pc = "step" /\ op # "none" /\ step = 1
        /\ \E too_long \in Int : ReadTail(function, too_long)
    BY <1>8 DEF SlaveTail, ConfirmTail, MODBUS_FAIL, MODBUS_FAIL_CONFIRM
  <2>2. Stored = core.len_header + 1 + Rest(op, function) /\ function \in Byte
    BY <1>0, <2>1 DEF Stored, LoopInv, AtFixedPart, TypeOK
  <2> QED BY <1>0, <2>1, <2>2, ReadTailIInv
<1>9. CASE LastRead
  <2>1. /\ pc = "step" /\ step = 2 /\ read_length' = read_length + read_want
        /\ read_want' = 0 /\ got' = 0 /\ step' = 2 /\ pc' = "check"
        /\ UNCHANGED <<core, avail, surplus, op, ret, function, forever>>
    BY <1>9 DEF LastRead, Continue, Stored
  <2>2. TypeOK'
    BY <1>0, <2>1 DEF TypeOK
  <2>3. read_length' + read_want' = read_length + read_want
    BY <1>0, <2>1
  <2>4. AtTail'
    BY <2>1, <2>3 DEF LoopInv, AtTail, FrameLength, HasCount
  <2>5. AtRest' /\ AtHead' /\ AtFixedPart'
    BY <2>1 DEF LoopInv, AtRest, AtHead, AtFixedPart
  <2> QED BY <2>1, <2>2, <2>4, <2>5 DEF LoopInv
<1>10. CASE CheckFrame
  BY <1>0, <1>10, ReturnIInv DEF CheckFrame, MODBUS_FAIL_CHECK, MODBUS_FAIL_ADRR
<1>11. CASE UNCHANGED vars
  BY <1>0, <1>11, SameRead DEF vars
<1> QED
  BY <1>1, <1>2, <1>3, <1>4, <1>5, <1>6, <1>7, <1>8, <1>9, <1>10, <1>11
     DEF Next, Thread

-----------------------------------------------------------------------------
\* Whatever the line carries, the receive loops keep their books: LoopInv, with
\* the types it needs, holds in every state of every behaviour of
\* modbus_slave_wait and modbus_wait_confirm.
THEOREM LoopInvariant == Spec => [](TypeOK /\ LoopInv)
<1>1. Spec => []IInv
  BY InitIInv, StepIInv, PTL DEF Spec
<1>2. IInv => TypeOK /\ LoopInv
  BY DEF IInv
<1> QED BY <1>1, <1>2, PTL

\* The locals of the receive loops keep their types.
THEOREM TypeCorrect == Spec => []TypeOK
BY LoopInvariant, PTL

\* No byte count, legal or not, makes modbus_want_read store a byte past the
\* end of the context's read buffer.
THEOREM BufferIsRespected == Spec => []BufferBound
<1>1. TypeOK /\ LoopInv => BufferBound
  <2> SUFFICES ASSUME TypeOK, LoopInv
               PROVE  BufferBound
    OBVIOUS
  <2> USE DEF TypeOK, LoopInv, BufferBound, RtuCore, TcpCore, MODBUS_MAX_ADU_LENGTH
  <2>1. CASE step = 0
    BY <2>1 DEF AtRest, AtHead
  <2>2. CASE step = 1
    BY <2>2, RestBound DEF AtFixedPart
  <2>3. CASE step = 2
    BY <2>3 DEF AtTail
  <2> QED BY <2>1, <2>2, <2>3
<1> QED BY <1>1, LoopInvariant, PTL

\* A frame that reaches the check of its core has the length its own function
\* code and byte count announce, so a frame is never cut short and never
\* swallows the head of the next one.
THEOREM FramesAreExact == Spec => []FrameExact
<1>1. TypeOK /\ LoopInv => FrameExact
  BY DEF TypeOK, LoopInv, FrameExact, AtTail
<1> QED BY <1>1, LoopInvariant, PTL

\* The byte count a loop acts on has arrived with the frame it belongs to.
THEOREM CountsAreFresh == Spec => []CountIsFresh
<1>1. TypeOK /\ LoopInv => CountIsFresh
  <2> SUFFICES ASSUME TypeOK, LoopInv, pc = "step", step = 1, HasCount(op, function)
               PROVE  core.len_header + CountOffset(op, function) < read_length + got
    BY DEF CountIsFresh
  <2>1. CountOffset(op, function) \in Nat /\ CountOffset(op, function) < 1 + Rest(op, function)
    BY DEF TypeOK, Byte, HasCount, CountOffset, Rest, RequestRest, ConfirmRest,
           Reads, CoilReads, RegisterReads, MultipleWrites, SingleWrites,
           WRITE_MULTIPLE_COILS, WRITE_MULTIPLE_REGISTERS,
           MASK_WRITE_REGISTER, WRITE_AND_READ_REGISTERS
  <2>2. read_length + got = core.len_header + 1 + Rest(op, function)
    BY DEF TypeOK, LoopInv, AtFixedPart
  <2> QED BY <2>1, <2>2, RestBound DEF TypeOK, RtuCore, TcpCore
<1> QED BY <1>1, LoopInvariant, PTL

-----------------------------------------------------------------------------
\* Eight coils to a byte.
LEMMA CoilBytesBound ==
  ASSUME NEW b \in Nat, NEW k \in 1 .. 8 * b
  PROVE  CoilBytes(k) \in 0 .. b
BY DEF CoilBytes

\* A quantity of 16 bits passes a uint16_t unchanged.
LEMMA UInt16Fits == \A n \in UInt16 : n % 65536 = n
<1>1. \A n, m \in Int : n > 0 /\ m >= 0 /\ m < n => m % n = m
  OBVIOUS
<1>2. \A n \in UInt16 : n \in Nat /\ n < 65536
  <2> DEFINE b == 65535
             m == 65536
  <2>1. UInt16 = 0 .. b
    BY DEF UInt16
  <2>2. b \in Int /\ m \in Int /\ b < m
    OBVIOUS
  <2>3. m = 65536
    OBVIOUS
  <2> HIDE DEF b, m
  <2>4. \A n \in UInt16 : n \in Nat /\ n < m
    BY <2>1, <2>2
  <2> QED BY <2>3, <2>4
<1>3. 65536 \in Int /\ 65536 > 0
  OBVIOUS
<1> QED BY <1>1, <1>2, <1>3

\* The bytes that carry the cells of a legal quantity are counted by one byte.
LEMMA DataFits ==
  ASSUME NEW f \in Reads \cup MultipleWrites, NEW num \in UInt16, modbus_check_addr_num(f, num)
  PROVE  DataBytes(f, num) \in 0 .. (IF f \in MultipleWrites THEN 246 ELSE 250)
<1> DEFINE n == num % 65536
<1>1. \/ f \in CoilReads /\ n \in 1 .. 2000
      \/ f \in RegisterReads /\ n \in 1 .. 125
      \/ f = WRITE_MULTIPLE_COILS /\ n \in 1 .. 1968
      \/ f = WRITE_MULTIPLE_REGISTERS /\ n \in 1 .. 123
  <2>1. f \notin SingleWrites
    BY DEF Reads, CoilReads, RegisterReads, SingleWrites, MultipleWrites,
           WRITE_MULTIPLE_COILS, WRITE_MULTIPLE_REGISTERS
  <2> QED BY <2>1, SMT DEF modbus_check_addr_num, n
<1> HIDE DEF n
<1>2. /\ f \in CoilReads => f \notin MultipleWrites /\ DataBytes(f, n) = CoilBytes(n)
      /\ f \in RegisterReads => f \notin MultipleWrites /\ DataBytes(f, n) = 2 * n
      /\ f = WRITE_MULTIPLE_COILS => f \in MultipleWrites /\ DataBytes(f, n) = CoilBytes(n)
      /\ f = WRITE_MULTIPLE_REGISTERS => f \in MultipleWrites /\ DataBytes(f, n) = 2 * n
  BY DEF DataBytes, CoilReads, RegisterReads, MultipleWrites, WRITE_MULTIPLE_COILS,
         WRITE_MULTIPLE_REGISTERS
<1>3. DataBytes(f, n) \in 0 .. (IF f \in MultipleWrites THEN 246 ELSE 250)
  <2>1. CASE f \in CoilReads /\ n \in 1 .. 2000
    <3>1. n \in 1 .. 8 * 250 /\ 250 \in Nat
      BY <2>1
    <3>2. CoilBytes(n) \in 0 .. 250
      BY <3>1, CoilBytesBound
    <3> QED BY <1>2, <2>1, <3>2
  <2>2. CASE f \in RegisterReads /\ n \in 1 .. 125
    <3>1. 2 * n \in 0 .. 250
      BY <2>2
    <3> QED BY <1>2, <2>2, <3>1
  <2>3. CASE f = WRITE_MULTIPLE_COILS /\ n \in 1 .. 1968
    <3>1. n \in 1 .. 8 * 246 /\ 246 \in Nat
      BY <2>3
    <3>2. CoilBytes(n) \in 0 .. 246
      BY <3>1, CoilBytesBound
    <3> QED BY <1>2, <2>3, <3>2
  <2>4. CASE f = WRITE_MULTIPLE_REGISTERS /\ n \in 1 .. 123
    <3>1. 2 * n \in 0 .. 246
      BY <2>4
    <3> QED BY <1>2, <2>4, <3>1
  <2> QED BY <1>1, <2>1, <2>2, <2>3, <2>4
<1>4. n = num
  BY UInt16Fits DEF n
<1> QED BY <1>3, <1>4

\* What modbus_check_addr_num lets pass fits: for a quantity of 16 bits the byte count
\* of the query and of the answer is a byte, and neither frame is longer than write_buff
\* or than its core accepts.  (The calls of a master take an int: of a wider quantity
\* the check sees the low 16 bits and modbus_start_request copies all of it.)
THEOREM AcceptedFitsAdu ==
  ASSUME NEW f \in Reads \cup SingleWrites \cup MultipleWrites, NEW num \in UInt16,
         modbus_check_addr_num(f, num),
         NEW o \in {"slave_wait", "wait_confirm"}, core \in {RtuCore, TcpCore},
         NEW data, data = IF HasCount(o, f) THEN DataBytes(f, num) ELSE 0
  PROVE  /\ data \in Byte
         /\ FrameLength(o, f, data) <= core.len_adu_max
         /\ FrameLength(o, f, data) <= MODBUS_MAX_ADU_LENGTH
<1>1. f \in Byte
  BY DEF Byte, Reads, CoilReads, RegisterReads, SingleWrites, MultipleWrites,
         WRITE_MULTIPLE_COILS, WRITE_MULTIPLE_REGISTERS
<1>2. data \in 0 .. (IF o = "slave_wait" /\ f \in MultipleWrites THEN 246 ELSE 250)
  <2>1. HasCount(o, f) => f \in Reads \cup MultipleWrites
    BY DEF HasCount, Reads, CoilReads, RegisterReads, SingleWrites, MultipleWrites,
           WRITE_AND_READ_REGISTERS, WRITE_MULTIPLE_COILS, WRITE_MULTIPLE_REGISTERS
  <2>2. HasCount(o, f) /\ o = "wait_confirm" => f \notin MultipleWrites
    BY DEF HasCount, Reads, CoilReads, RegisterReads, MultipleWrites,
           WRITE_MULTIPLE_COILS, WRITE_MULTIPLE_REGISTERS
  <2>3. CASE HasCount(o, f)
    BY <2>1, <2>2, <2>3, DataFits
  <2>4. CASE ~ HasCount(o, f)
    BY <2>4
  <2> QED BY <2>3, <2>4
<1>3. data \in Byte
  BY <1>2 DEF Byte
<1>4. /\ Rest(o, f) \in 0 .. 5
      /\ data = 0 \/ Rest(o, f) <= 1 \/ data <= 246
  <2> USE DEF Rest, RequestRest, ConfirmRest, HasCount, Reads, CoilReads, RegisterReads,
         SingleWrites, MultipleWrites, MASK_WRITE_REGISTER, WRITE_AND_READ_REGISTERS,
         WRITE_MULTIPLE_COILS, WRITE_MULTIPLE_REGISTERS
  <2>1. Rest(o, f) \in 0 .. 5
    OBVIOUS
  <2>2. CASE o = "slave_wait"
    <3>1. HasCount(o, f) => f \in MultipleWrites
      BY <2>2
    <3>2. HasCount(o, f) => data <= 246
      BY <1>2, <2>2, <3>1
    <3> QED BY <2>1, <3>2
  <2>3. CASE o = "wait_confirm"
    <3>1. HasCount(o, f) => Rest(o, f) = 1
      BY <2>3
    <3> QED BY <2>1, <3>1
  <2> QED BY <2>1, <2>2, <2>3
<1>5. Rest(o, f) + data <= 251
  BY <1>2, <1>4
<1>6. FrameLength(o, f, data) = core.len_header + 1 + Rest(o, f) + data + core.len_checksum
  <2>1. HasCount(o, f) \/ data = 0
    OBVIOUS
  <2> QED BY <1>1, <1>3, <2>1, RestIsLayout
<1>7. FrameLength(o, f, data) <= core.len_adu_max
  BY <1>2, <1>4, <1>5, <1>6 DEF RtuCore, TcpCore
<1> QED BY <1>3, <1>7 DEF RtuCore, TcpCore, MODBUS_MAX_ADU_LENGTH
-----------------------------------------------------------------------------
(***************************************************************************)
(* The slave's loop again, on a serial line that loses bytes of a query    *)
(* sent over and over: the damage costs that query alone, provided that    *)
(* whatever byte of the query may be taken for the function code makes     *)
(* the slave wait for more than is left of the query.                      *)
(***************************************************************************)
CONSTANTS RSettings, RPatience
VARIABLES rsetting, rsent, rfifo, rstored, rstep, rwant, rmissing, rpc, ranswered, rclean,
          rlost, rnoise

R == INSTANCE RtuResync WITH
  Settings <- RSettings, Patience <- RPatience, setting <- rsetting, sent <- rsent,
  fifo <- rfifo, stored <- rstored, step <- rstep, want <- rwant, missing <- rmissing,
  pc <- rpc, answered <- ranswered, clean <- rclean, lost <- rlost, noise <- rnoise

\* A frame of this function without a byte count: header, fixed part, checksum.
Span(f) == 4 + R!RequestRest(f)

\* Taken for a function code this byte makes the slave wait for n bytes in all, and
\* for no read longer than the master's pause.
Waits(b, n) ==
  ~ R!HasCount("slave_wait", b) /\ Span(b) >= n /\ R!RequestRest(b) <= RPatience

\* The query has no byte count, two of its bytes are never lost, and the bytes that
\* come second when others are lost make the slave wait.
Gentle(s) ==
  /\ Len(s.query) = Span(s.query[2])
  /\ s.lost + 2 <= Len(s.query)
  /\ \A i \in 2 .. s.lost + 2 : Waits(s.query[i], Len(s.query))

\* What the theorem assumes: a wait for the checksum ends within the master's pause, and
\* every query is gentle.  (An instance does not bring the assumptions of RtuResync.)
Assumed ==
  /\ R!SettingsAssumption /\ RPatience \in Nat /\ 2 <= RPatience
  /\ \A s \in RSettings : Gentle(s)

Sound ==
  /\ rsent \in 0 .. Len(R!Query) /\ rlost \in 0 .. R!MaxLost /\ rclean \in 0 .. 2
  /\ rfifo \in Seq(R!Byte) /\ rstored \in Seq(R!Byte)
  /\ rstep \in 0 .. 2 /\ rwant \in Nat /\ rmissing \in Nat

\* What has come of the query, read or not.
Stream == rstored \o rfifo

\* The three reads of a frame.
Collecting ==
  /\ rpc = "read"
  /\ rstep = 0 => rwant = 2 /\ Len(rstored) + rmissing = 2
  /\ rstep > 0 => Len(rstored) >= 2
  /\ rstep = 1 => /\ rwant = R!RequestRest(rstored[2])
                  /\ Len(rstored) + rmissing = 2 + R!RequestRest(rstored[2])
  /\ rstep = 2 => rwant = 2 /\ Len(rstored) + rmissing = Span(rstored[2])

\* The slave is in the middle of this query: it has all that was sent of a query
\* that is whole so far, and less of one that is not, which it will wait for.
Running ==
  /\ Collecting
  /\ rclean > 0 => Stream = SubSeq(R!Query, 1, rsent)
  /\ rclean = 0 => /\ Len(Stream) < rsent /\ rsent - Len(Stream) <= rlost
                   /\ Len(Stream) >= 2 => Waits(Stream[2], Len(R!Query))

\* The slave has done with this query.
Done ==
  /\ rsent = Len(R!Query) /\ rstored = <<>> /\ rfifo = <<>>
  /\ rstep = 0 /\ rwant = 2 /\ rmissing = 2
  /\ rclean > 0 => rpc = "read" /\ ranswered

Resync ==
  /\ rsetting \in RSettings /\ rnoise \in Nat
  /\ rnoise = 0 => Sound /\ (Running \/ Done)

LEMMA QueryIs ==
  ASSUME Assumed, Resync
  PROVE  /\ R!Query \in Seq(R!Byte) /\ Len(R!Query) \in Nat /\ R!MaxLost \in Nat
         /\ R!MaxLost + 2 <= Len(R!Query) /\ 2 <= Len(R!Query)
         /\ Len(R!Query) = Span(R!Query[2])
         /\ \A i \in 2 .. R!MaxLost + 2 : Waits(R!Query[i], Len(R!Query))
<1>1. rsetting \in RSettings /\ Gentle(rsetting)
  BY DEF Assumed, Resync
<1>2. rsetting.query \in Seq(R!Byte) /\ rsetting.lost \in Nat
  BY <1>1 DEF Assumed, R!SettingsAssumption
<1> QED BY <1>1, <1>2 DEF Gentle, R!Query, R!MaxLost

LEMMA RestIs == ASSUME NEW b \in R!Byte PROVE R!RequestRest(b) \in 0 .. 9
BY DEF R!Byte, R!RequestRest, R!MultipleWrites, R!WRITE_MULTIPLE_COILS, R!WRITE_MULTIPLE_REGISTERS,
       R!MASK_WRITE_REGISTER, R!WRITE_AND_READ_REGISTERS

LEMMA Streams ==
  ASSUME NEW S, NEW s \in Seq(S), NEW f \in Seq(S)
  PROVE  /\ s \o f \in Seq(S) /\ Len(s) \in Nat /\ Len(f) \in Nat
         /\ Len(s \o f) = Len(s) + Len(f)
         /\ \A i \in 1 .. Len(s) : (s \o f)[i] = s[i]
         /\ s \o <<>> = s /\ (Len(f) = 0 => f = <<>>)
         /\ \A b \in S : s \o Append(f, b) = Append(s \o f, b)
OBVIOUS

LEMMA Parted ==
  ASSUME NEW S, NEW f \in Seq(S), NEW n \in 0 .. Len(f)
  PROVE  /\ SubSeq(f, 1, n) \in Seq(S) /\ SubSeq(f, n + 1, Len(f)) \in Seq(S)
         /\ Len(SubSeq(f, 1, n)) = n
         /\ SubSeq(f, 1, n) \o SubSeq(f, n + 1, Len(f)) = f
<1>1. /\ SubSeq(f, 1, n) \in Seq(S) /\ SubSeq(f, n + 1, Len(f)) \in Seq(S)
      /\ Len(SubSeq(f, 1, n)) = n /\ Len(SubSeq(f, n + 1, Len(f))) = Len(f) - n
      /\ \A i \in 1 .. n : SubSeq(f, 1, n)[i] = f[i]
      /\ \A i \in 1 .. Len(f) - n : SubSeq(f, n + 1, Len(f))[i] = f[n + i]
  BY SubSeqProperties
<1> DEFINE a == SubSeq(f, 1, n)
           c == SubSeq(f, n + 1, Len(f))
<1>2. /\ a \in Seq(S) /\ c \in Seq(S) /\ Len(a) = n /\ Len(c) = Len(f) - n
      /\ \A i \in 1 .. n : a[i] = f[i]
      /\ \A i \in 1 .. Len(f) - n : c[i] = f[n + i]
  BY <1>1
<1> HIDE DEF a, c
<1>3. a \o c \in Seq(S) /\ Len(a \o c) = Len(f) /\ Len(f) \in Nat /\ n \in Nat
  <2>1. a \o c \in Seq(S) /\ Len(a \o c) = Len(a) + Len(c)
    BY <1>2, ConcatProperties
  <2> QED BY <1>2, <2>1
<1>4. ASSUME NEW i \in 1 .. Len(f)
      PROVE  (a \o c)[i] = f[i]
  <2>1. CASE i <= n
    BY <1>2, <2>1, ConcatProperties
  <2>2. CASE i > n
    <3>1. (a \o c)[i] = c[i - n]
      BY <1>2, <2>2, ConcatProperties
    <3>2. i - n \in 1 .. Len(f) - n /\ n + (i - n) = i
      BY <2>2
    <3> QED BY <1>2, <3>1, <3>2
  <2> QED BY <1>3, <2>1, <2>2
<1>5. a \o c = f
  BY <1>3, <1>4, SeqEqual
<1> QED BY <1>1, <1>5 DEF a, c

LEMMA CoreIs ==
  /\ R!Header = 2 /\ R!RtuCore.len_header = 1
  /\ R!RtuCore.len_checksum = 2 /\ R!RtuCore.len_adu_max = 260
BY DEF R!Header, R!RtuCore

\* What is second in the stream is what the slave takes for the function code, and it
\* waits for two more bytes behind the fixed part.
LEMMA FunctionIs ==
  ASSUME Assumed, Resync, rnoise = 0, Running, 2 <= Len(rstored)
  PROVE  /\ Waits(rstored[2], Len(R!Query)) /\ R!RequestRest(rstored[2]) \in 0 .. 9
         /\ rclean > 0 => Span(rstored[2]) = Len(R!Query)
         /\ Stream[2] = rstored[2] /\ R!Function = rstored[2] /\ R!TailWant = 2
<1>1. /\ rstored \in Seq(R!Byte) /\ rfifo \in Seq(R!Byte) /\ rclean \in Nat
      /\ rsent \in 0 .. Len(R!Query)
  BY DEF Resync, Sound
<1>2. /\ rstored[2] \in R!Byte /\ Stream[2] = rstored[2] /\ 2 <= Len(Stream)
  BY <1>1, Streams DEF Stream
<1>3. rclean > 0 => rstored[2] = R!Query[2]
  <2> SUFFICES ASSUME rclean > 0 PROVE Stream[2] = R!Query[2]
    BY <1>2
  <2>1. Stream = SubSeq(R!Query, 1, rsent)
    BY DEF Running
  <2>2. /\ Len(SubSeq(R!Query, 1, rsent)) = rsent
        /\ \A i \in 1 .. rsent : SubSeq(R!Query, 1, rsent)[i] = R!Query[i]
    BY <1>1, QueryIs
  <2>3. 2 \in 1 .. rsent
    BY <1>1, <1>2, <2>1, <2>2, QueryIs
  <2> QED BY <2>1, <2>2, <2>3
<1>4. Waits(rstored[2], Len(R!Query))
  <2>1. 2 \in 2 .. R!MaxLost + 2
    BY QueryIs
  <2>2. Waits(R!Query[2], Len(R!Query))
    BY <2>1, QueryIs
  <2>3. CASE rclean > 0
    BY <1>3, <2>2, <2>3
  <2>4. CASE rclean = 0
    BY <1>2, <2>4 DEF Running
  <2> QED BY <1>1, <2>3, <2>4
<1>5. R!RequestRest(rstored[2]) \in 0 .. 9
  BY <1>2, RestIs
<1>6. rclean > 0 => Span(rstored[2]) = Len(R!Query)
  BY <1>3, QueryIs
<1>7. R!Function = rstored[2]
  BY CoreIs DEF R!Function
<1>8. R!TailWant = 2
  BY <1>4, <1>7, CoreIs DEF R!TailWant, Waits
<1> QED BY <1>2, <1>4, <1>5, <1>6, <1>7, <1>8

\* A step of the slave within a frame loses nothing of what has come.
LEMMA GoesOn ==
  ASSUME Resync, rnoise = 0, Running, UNCHANGED R!line, Collecting', Stream' = Stream,
         rstored' \in Seq(R!Byte), rfifo' \in Seq(R!Byte),
         rstep' \in 0 .. 2, rwant' \in Nat, rmissing' \in Nat
  PROVE  Resync'
<1>1. UNCHANGED <<rsetting, rsent, rclean, rlost, rnoise>>
  BY DEF R!line
<1>2. R!Query' = R!Query /\ R!MaxLost' = R!MaxLost
  BY <1>1 DEF R!Query, R!MaxLost
<1>3. Running'
  BY <1>1, <1>2 DEF Running
<1>4. Sound'
  BY <1>1, <1>2 DEF Resync, Sound
<1> QED BY <1>1, <1>3, <1>4 DEF Resync

LEMMA ReadKeeps ==
  ASSUME Assumed, Resync, rnoise = 0, R!Read
  PROVE  Resync'
<1>1. /\ rpc = "read" /\ rmissing > 0 /\ rfifo # <<>>
      /\ UNCHANGED <<rstep, rwant, rpc, ranswered>> /\ UNCHANGED R!line
  BY DEF R!Read
<1>2. Running
  BY <1>1 DEF Resync, Done
<1>3. /\ rfifo \in Seq(R!Byte) /\ rstored \in Seq(R!Byte) /\ rmissing \in Nat
      /\ rwant \in Nat
      /\ rstep \in 0 .. 2
  BY DEF Resync, Sound
<1>4. PICK n \in 0 .. Len(rfifo) :
        /\ n <= rmissing /\ rstored' = rstored \o SubSeq(rfifo, 1, n)
        /\ rfifo' = SubSeq(rfifo, n + 1, Len(rfifo)) /\ rmissing' = rmissing - n
  <2> DEFINE m == IF Len(rfifo) < rmissing THEN Len(rfifo) ELSE rmissing
  <2>1. /\ rstored' = rstored \o SubSeq(rfifo, 1, m)
        /\ rfifo' = SubSeq(rfifo, m + 1, Len(rfifo)) /\ rmissing' = rmissing - m
    BY DEF R!Read
  <2>2. m \in 0 .. Len(rfifo) /\ m <= rmissing
    BY <1>3
  <2> QED BY <2>1, <2>2
<1> DEFINE new == SubSeq(rfifo, 1, n)
<1>5. new \in Seq(R!Byte) /\ Len(new) = n /\ rfifo' \in Seq(R!Byte) /\ new \o rfifo' = rfifo
  BY <1>3, <1>4, Parted
<1>6. rstored' = rstored \o new
  BY <1>4
<1> HIDE DEF new
<1>7. /\ rstored' \in Seq(R!Byte) /\ Len(rstored') = Len(rstored) + n
      /\ Len(rstored) \in Nat
      /\ \A i \in 1 .. Len(rstored) : rstored'[i] = rstored[i]
  <2>1. Len(rstored \o new) = Len(rstored) + Len(new) /\ rstored \o new \in Seq(R!Byte)
    BY <1>3, <1>5, ConcatProperties
  <2>2. \A i \in 1 .. Len(rstored) : (rstored \o new)[i] = rstored[i]
    BY <1>3, <1>5, Streams
  <2> QED BY <1>3, <1>5, <1>6, <2>1, <2>2
<1>8. Stream' = Stream
  <2>1. rstored' \o rfifo' = rstored \o (new \o rfifo')
    <3>1. rstored \in Seq(R!Byte) /\ new \in Seq(R!Byte) /\ rfifo' \in Seq(R!Byte)
      BY <1>3, <1>5
    <3>2. (rstored \o new) \o rfifo' = rstored \o (new \o rfifo')
      BY <3>1
    <3> QED BY <1>6, <3>2
  <2> QED BY <1>5, <2>1 DEF Stream
<1>9. /\ Len(rstored') + rmissing' = Len(rstored) + rmissing
      /\ Len(rstored') >= Len(rstored)
      /\ rmissing' \in Nat /\ (Len(rstored) >= 2 => rstored'[2] = rstored[2])
  <2>1. n \in Nat /\ n <= rmissing /\ rmissing' = rmissing - n
    BY <1>3, <1>4
  <2>2. Len(rstored) >= 2 => rstored'[2] = rstored[2]
    BY <1>7
  <2> QED BY <1>3, <1>7, <2>1, <2>2
<1>10. Collecting'
  <2>1. rpc' = "read" /\ rstep' = rstep /\ rwant' = rwant
    BY <1>1
  <2>2. CASE rstep = 0
    BY <1>2, <1>9, <2>1, <2>2 DEF Running, Collecting
  <2>3. CASE rstep > 0
    <3>1. Len(rstored) >= 2 /\ rstored'[2] = rstored[2] /\ Len(rstored') >= 2
      BY <1>2, <1>7, <1>9, <2>3 DEF Running, Collecting
    <3> QED BY <1>2, <1>3, <1>9, <2>1, <2>3, <3>1 DEF Running, Collecting
  <2> QED BY <1>3, <2>2, <2>3
<1> QED BY <1>1, <1>2, <1>3, <1>5, <1>7, <1>8, <1>9, <1>10, GoesOn

LEMMA HeadReadKeeps ==
  ASSUME Assumed, Resync, rnoise = 0, R!HeadRead
  PROVE  Resync'
<1>1. /\ rpc = "read" /\ rmissing = 0 /\ rstep = 0
      /\ R!Collect(1, R!RequestRest(R!Function))
      /\ UNCHANGED <<rfifo, rstored, rpc, ranswered>> /\ UNCHANGED R!line
  BY DEF R!HeadRead
<1>2. Running
  BY <1>1 DEF Resync, Done
<1>3. rfifo \in Seq(R!Byte) /\ rstored \in Seq(R!Byte) /\ Len(rstored) \in Nat
  BY DEF Resync, Sound
<1>4. Len(rstored) = 2
  BY <1>1, <1>2, <1>3 DEF Running, Collecting
<1>5. R!RequestRest(rstored[2]) \in 0 .. 9 /\ R!Function = rstored[2]
  BY <1>2, <1>4, FunctionIs
<1>6. rstep' = 1 /\ rwant' = R!RequestRest(rstored[2]) /\ rmissing' = R!RequestRest(rstored[2])
  BY <1>1, <1>5 DEF R!Collect
<1>7. Collecting'
  BY <1>1, <1>4, <1>6 DEF Collecting
<1>8. Stream' = Stream
  BY <1>1 DEF Stream
<1>9. rwant' \in Nat /\ rmissing' \in Nat /\ rstep' \in 0 .. 2
  BY <1>5, <1>6
<1> QED BY <1>1, <1>2, <1>3, <1>7, <1>8, <1>9, GoesOn

LEMMA FixedReadKeeps ==
  ASSUME Assumed, Resync, rnoise = 0, R!FixedRead
  PROVE  Resync'
<1>1. /\ rpc = "read" /\ rmissing = 0
      /\ rstep = 1 \/ (rstep = 0 /\ R!RequestRest(R!Function) = 0)
      /\ UNCHANGED <<rfifo, ranswered>> /\ UNCHANGED R!line
  BY DEF R!FixedRead
<1>2. Running
  BY <1>1 DEF Resync, Done
<1>3. /\ rfifo \in Seq(R!Byte) /\ rstored \in Seq(R!Byte) /\ Len(rstored) \in Nat
      /\ rmissing \in Nat /\ rstep \in 0 .. 2
  BY DEF Resync, Sound
<1>4. Len(rstored) >= 2 /\ (rstep = 0 => Len(rstored) = 2)
  <2>1. (rstep = 0 => Len(rstored) + rmissing = 2) /\ (rstep > 0 => Len(rstored) >= 2)
    BY <1>2 DEF Running, Collecting
  <2>2. rmissing = 0 /\ (rstep = 0 \/ rstep = 1)
    BY <1>1
  <2>3. Len(rstored) \in Nat
    BY <1>3
  <2> QED BY <2>1, <2>2, <2>3
<1>5. R!RequestRest(rstored[2]) \in 0 .. 9 /\ R!Function = rstored[2] /\ R!TailWant = 2
  BY <1>2, <1>4, FunctionIs
<1>6. Len(rstored) = 2 + R!RequestRest(rstored[2])
  <2>1. rstep = 1 => Len(rstored) + rmissing = 2 + R!RequestRest(rstored[2])
    BY <1>2 DEF Running, Collecting
  <2>2. /\ rmissing = 0 /\ (rstep = 0 \/ rstep = 1)
        /\ rstep = 0 => R!RequestRest(rstored[2]) = 0
    BY <1>1, <1>5
  <2>3. Len(rstored) \in Nat
    BY <1>3
  <2>4. R!RequestRest(rstored[2]) \in Nat
    BY <1>5
  <2>5. rstep = 0 => Len(rstored) = 2
    BY <1>4
  <2>6. CASE rstep = 1
    <3>1. Len(rstored) + 0 = 2 + R!RequestRest(rstored[2])
      BY <2>1, <2>2, <2>6
    <3> QED BY <2>3, <2>4, <3>1
  <2>7. CASE rstep = 0
    BY <2>2, <2>5, <2>7
  <2> QED BY <2>2, <2>6, <2>7
<1>7. Len(rstored) + R!TailWant <= R!RtuCore.len_adu_max
  BY <1>5, <1>6, CoreIs
<1>8. R!Collect(2, R!TailWant) /\ UNCHANGED <<rstored, rpc>>
  BY <1>3, <1>5, <1>6, <1>7, CoreIs DEF R!FixedRead
<1>9. rstep' = 2 /\ rwant' = 2 /\ rmissing' = 2
  BY <1>5, <1>8 DEF R!Collect
<1>10. Collecting'
  BY <1>1, <1>4, <1>5, <1>6, <1>8, <1>9 DEF Collecting, Span
<1>11. Stream' = Stream
  BY <1>1, <1>8 DEF Stream
<1> QED BY <1>1, <1>2, <1>3, <1>8, <1>9, <1>10, <1>11, GoesOn

\* What has been sent is no more than the query, and a stream is no longer.
LEMMA StreamLength ==
  ASSUME Assumed, Resync, rnoise = 0, Running
  PROVE  /\ Len(rstored) \in Nat /\ Len(rfifo) \in Nat
         /\ Len(Stream) = Len(rstored) + Len(rfifo)
         /\ rclean > 0 => Len(Stream) = rsent
         /\ rclean = 0 => Len(Stream) < rsent /\ rsent - Len(Stream) <= rlost
<1>1. /\ rstored \in Seq(R!Byte) /\ rfifo \in Seq(R!Byte) /\ rclean \in Nat
      /\ rsent \in 0 .. Len(R!Query)
  BY DEF Resync, Sound
<1>2. Len(SubSeq(R!Query, 1, rsent)) = rsent
  BY <1>1, QueryIs
<1> QED BY <1>1, <1>2, Streams DEF Running, Stream

\* A frame is complete only if the whole query has come: the slave answers it.
LEMMA WholeReadKeeps ==
  ASSUME Assumed, Resync, rnoise = 0, R!WholeRead
  PROVE  Resync'
<1>1. /\ rpc = "read" /\ rmissing = 0 /\ rstep = 2 /\ R!Anew
      /\ ranswered' = (ranswered \/ rstored = R!Query)
      /\ rpc' = IF rstored = R!Query THEN "read" ELSE "recover"
      /\ rfifo' = rfifo /\ UNCHANGED R!line
  BY DEF R!WholeRead
<1>2. UNCHANGED <<rsetting, rsent, rclean, rlost, rnoise>>
  BY <1>1 DEF R!line
<1>3. Running
  BY <1>1 DEF Resync, Done
<1>4. /\ rfifo \in Seq(R!Byte) /\ rstored \in Seq(R!Byte) /\ rclean \in Nat /\ rlost \in Nat
      /\ rsent \in 0 .. Len(R!Query) /\ Len(R!Query) \in Nat
  BY QueryIs DEF Resync, Sound
<1>5. Len(rstored) >= 2 /\ Len(rstored) = Span(rstored[2])
  BY <1>1, <1>3, <1>4 DEF Running, Collecting
<1>6. /\ Waits(rstored[2], Len(R!Query)) /\ (rclean > 0 => Len(rstored) = Len(R!Query))
      /\ Span(rstored[2]) >= Len(R!Query)
  BY <1>3, <1>5, FunctionIs DEF Waits
<1>7. rclean > 0 /\ rsent = Len(R!Query) /\ Len(rfifo) = 0
  BY <1>3, <1>4, <1>5, <1>6, StreamLength
<1>8. rfifo = <<>> /\ rstored = R!Query
  <2>1. rfifo = <<>>
    BY <1>4, <1>7
  <2>2. Stream = rstored
    BY <1>4, <2>1, Streams DEF Stream
  <2>3. SubSeq(R!Query, 1, rsent) = R!Query
    BY <1>7, QueryIs, SubSeqFull
  <2> QED BY <1>3, <1>7, <2>1, <2>2, <2>3 DEF Running
<1>9. rstored' = <<>> /\ rstep' = 0 /\ rwant' = 2 /\ rmissing' = 2
  BY <1>1, CoreIs DEF R!Anew, R!Collect
<1>10. R!Query' = R!Query /\ R!MaxLost' = R!MaxLost
  BY <1>2 DEF R!Query, R!MaxLost
<1>11. Done'
  BY <1>1, <1>2, <1>7, <1>8, <1>9, <1>10 DEF Done
<1>12. Sound'
  BY <1>1, <1>2, <1>9, <1>10 DEF Resync, Sound
<1> QED BY <1>2, <1>11, <1>12 DEF Resync

LEMMA TimeoutKeeps ==
  ASSUME Assumed, Resync, rnoise = 0, R!Timeout
  PROVE  Resync'
<1>1. /\ rpc = "read" /\ rmissing > 0 /\ rfifo = <<>> /\ rstep > 0
      /\ rsent \in {0, Len(R!Query)}
      /\ R!Anew /\ rpc' = "recover" /\ rfifo' = rfifo /\ UNCHANGED R!line
  BY DEF R!Timeout, R!Waiting, R!Ends
<1>2. UNCHANGED <<rsetting, rsent, rclean, rlost, rnoise>>
  BY <1>1 DEF R!line
<1>3. Running
  BY <1>1 DEF Resync, Done
<1>4. /\ rstored \in Seq(R!Byte) /\ rclean \in Nat /\ rlost \in Nat /\ rmissing \in Nat
      /\ rsent \in 0 .. Len(R!Query) /\ Len(R!Query) \in Nat /\ Len(rstored) \in Nat
      /\ rstep \in 0 .. 2
  BY QueryIs DEF Resync, Sound
<1>5. Len(rstored) >= 2 /\ Len(rfifo) = 0
  BY <1>1, <1>3, <1>4 DEF Running, Collecting
<1>6. R!RequestRest(rstored[2]) \in 0 .. 9 /\ (rclean > 0 => Span(rstored[2]) = Len(R!Query))
  BY <1>3, <1>5, FunctionIs
<1>7. Len(rstored) < Span(rstored[2])
  <2>1. CASE rstep = 1
    BY <1>1, <1>3, <1>4, <1>6, <2>1 DEF Running, Collecting, Span
  <2>2. CASE rstep = 2
    BY <1>1, <1>3, <1>4, <1>6, <2>2 DEF Running, Collecting, Span
  <2> QED BY <1>1, <1>4, <2>1, <2>2
<1>8. rclean = 0 /\ rsent = Len(R!Query)
  BY <1>1, <1>3, <1>4, <1>5, <1>6, <1>7, StreamLength
<1>9. rstored' = <<>> /\ rstep' = 0 /\ rwant' = 2 /\ rmissing' = 2
  BY <1>1, CoreIs DEF R!Anew, R!Collect
<1>10. R!Query' = R!Query /\ R!MaxLost' = R!MaxLost
  BY <1>2 DEF R!Query, R!MaxLost
<1>11. Done'
  BY <1>1, <1>2, <1>8, <1>9, <1>10 DEF Done
<1>12. Sound'
  BY <1>1, <1>2, <1>9, <1>10 DEF Resync, Sound
<1> QED BY <1>2, <1>11, <1>12 DEF Resync

LEMMA RecoverKeeps ==
  ASSUME Assumed, Resync, rnoise = 0, R!Recover
  PROVE  Resync'
<1>1. /\ rpc = "recover" /\ rpc' = "read" /\ rfifo' = <<>>
      /\ UNCHANGED <<rstored, rstep, rwant, rmissing, ranswered>> /\ UNCHANGED R!line
  BY DEF R!Recover
<1>2. UNCHANGED <<rsetting, rsent, rclean, rlost, rnoise>>
  BY <1>1 DEF R!line
<1>3. Done
  BY <1>1 DEF Resync, Running, Collecting
<1>4. R!Query' = R!Query /\ R!MaxLost' = R!MaxLost
  BY <1>2 DEF R!Query, R!MaxLost
<1>5. Done'
  BY <1>1, <1>2, <1>3, <1>4 DEF Done
<1>6. Sound'
  BY <1>1, <1>2, <1>4 DEF Resync, Sound
<1> QED BY <1>2, <1>5, <1>6 DEF Resync

\* A byte more: the stream is still all of a whole query, and of one that is not the
\* second byte is one that the slave waits for.
LEMMA SendByteKeeps ==
  ASSUME Assumed, Resync, rnoise = 0, R!SendByte
  PROVE  Resync'
<1>1. /\ rsent < Len(R!Query) /\ rsent' = rsent + 1
      /\ rfifo' = Append(rfifo, R!Query[rsent + 1])
      /\ UNCHANGED <<rsetting, ranswered, rclean, rlost, rnoise>> /\ UNCHANGED R!receiver
  BY DEF R!SendByte
<1>2. UNCHANGED <<rstored, rstep, rwant, rmissing, rpc>>
  BY <1>1 DEF R!receiver
<1>3. /\ rfifo \in Seq(R!Byte) /\ rstored \in Seq(R!Byte) /\ rclean \in Nat
      /\ rlost \in 0 .. R!MaxLost
      /\ rsent \in Nat /\ Len(R!Query) \in Nat /\ R!Query \in Seq(R!Byte)
      /\ R!MaxLost \in Nat
  BY QueryIs DEF Resync, Sound
<1>4. Running
  BY <1>1, <1>3 DEF Resync, Done
<1> DEFINE b == R!Query[rsent + 1]
<1>5. b \in R!Byte /\ rfifo' = Append(rfifo, b)
  BY <1>1, <1>3
<1> HIDE DEF b
<1>6. Stream' = Append(Stream, b) /\ Stream \in Seq(R!Byte) /\ rfifo' \in Seq(R!Byte)
  BY <1>2, <1>3, <1>5, Streams DEF Stream
<1>7. R!Query' = R!Query /\ R!MaxLost' = R!MaxLost
  BY <1>1 DEF R!Query, R!MaxLost
<1>8. Collecting'
  BY <1>2, <1>4 DEF Running, Collecting
<1>9. rclean > 0 => Stream' = SubSeq(R!Query, 1, rsent + 1)
  <2> SUFFICES ASSUME rclean > 0 PROVE Append(Stream, b) = SubSeq(R!Query, 1, rsent + 1)
    BY <1>6
  <2>1. Stream = SubSeq(R!Query, 1, rsent)
    BY <1>4 DEF Running
  <2>2. SubSeq(R!Query, 1, rsent + 1) = Append(SubSeq(R!Query, 1, rsent), R!Query[rsent + 1])
    BY <1>1, <1>3
  <2> QED BY <2>1, <2>2 DEF b
<1>10. rclean = 0 => /\ Len(Stream') < rsent + 1 /\ rsent + 1 - Len(Stream') <= rlost
                     /\ Len(Stream') >= 2 => Waits(Stream'[2], Len(R!Query))
  <2> SUFFICES ASSUME rclean = 0
               PROVE  /\ Len(Stream') < rsent + 1 /\ rsent + 1 - Len(Stream') <= rlost
                      /\ Len(Stream') >= 2 => Waits(Stream'[2], Len(R!Query))
    OBVIOUS
  <2>1. Len(Stream') = Len(Stream) + 1 /\ Len(Stream) \in Nat
    BY <1>5, <1>6
  <2>2. /\ Len(Stream) < rsent /\ rsent - Len(Stream) <= rlost
        /\ Len(Stream) >= 2 => Waits(Stream[2], Len(R!Query))
    BY <1>4 DEF Running
  <2>3. CASE Len(Stream) >= 2
    <3>1. Stream'[2] = Stream[2]
      BY <1>5, <1>6, <2>1, <2>3
    <3> QED BY <1>3, <2>1, <2>2, <2>3, <3>1
  <2>4. CASE Len(Stream) = 1
    <3>1. Stream'[2] = b
      BY <1>5, <1>6, <2>1, <2>4
    <3>2. rsent + 1 \in 2 .. R!MaxLost + 2
      BY <1>3, <2>1, <2>2, <2>4
    <3>3. Waits(b, Len(R!Query))
      BY <3>2, QueryIs DEF b
    <3> QED BY <1>3, <2>1, <2>2, <3>1, <3>3
  <2>5. CASE Len(Stream) = 0
    BY <1>3, <2>1, <2>2, <2>5
  <2>6. Len(Stream) >= 2 \/ Len(Stream) = 1 \/ Len(Stream) = 0
    <3>1. \A n \in Nat : n >= 2 \/ n = 1 \/ n = 0
      OBVIOUS
    <3> QED BY <2>1, <3>1, Zenon
  <2> QED BY <2>3, <2>4, <2>5, <2>6
<1>11. Running'
  <2>1. rclean' = rclean /\ rlost' = rlost /\ rsent' = rsent + 1
    BY <1>1
  <2>2. rclean' > 0 => Stream' = SubSeq(R!Query', 1, rsent')
    BY <1>7, <1>9, <2>1
  <2>3. rclean' = 0 => /\ Len(Stream') < rsent' /\ rsent' - Len(Stream') <= rlost'
                       /\ Len(Stream') >= 2 => Waits(Stream'[2], Len(R!Query'))
    <3> SUFFICES ASSUME rclean' = 0
                 PROVE  /\ Len(Stream') < rsent' /\ rsent' - Len(Stream') <= rlost'
                        /\ Len(Stream') >= 2 => Waits(Stream'[2], Len(R!Query'))
      OBVIOUS
    <3>1. /\ Len(Stream') < rsent + 1 /\ rsent + 1 - Len(Stream') <= rlost
          /\ Len(Stream') >= 2 => Waits(Stream'[2], Len(R!Query))
      BY <1>10, <2>1
    <3>2. Len(Stream') < rsent' /\ rsent' - Len(Stream') <= rlost'
      <4>1. rsent \in Nat /\ rlost \in Nat /\ Len(Stream') \in Nat
        BY <1>3, <1>5, <1>6
      <4> QED BY <2>1, <3>1, <4>1
    <3> QED BY <1>7, <3>1, <3>2
  <2> QED BY <1>8, <2>2, <2>3 DEF Running, Waits
<1>12. Sound'
  BY <1>1, <1>2, <1>3, <1>6, <1>7 DEF Resync, Sound
<1> QED BY <1>1, <1>11, <1>12 DEF Resync

LEMMA LoseByteKeeps ==
  ASSUME Assumed, Resync, rnoise = 0, R!LoseByte
  PROVE  Resync'
<1>1. /\ rsent < Len(R!Query) /\ rlost < R!MaxLost /\ rsent' = rsent + 1
      /\ rlost' = rlost + 1
      /\ rclean' = 0 /\ rfifo' = rfifo
      /\ UNCHANGED <<rsetting, ranswered, rnoise>> /\ UNCHANGED R!receiver
  BY DEF R!LoseByte
<1>2. UNCHANGED <<rstored, rstep, rwant, rmissing, rpc>>
  BY <1>1 DEF R!receiver
<1>3. /\ rfifo \in Seq(R!Byte) /\ rstored \in Seq(R!Byte) /\ rclean \in Nat
      /\ rlost \in 0 .. R!MaxLost
      /\ rsent \in 0 .. Len(R!Query) /\ Len(R!Query) \in Nat
      /\ R!Query \in Seq(R!Byte) /\ R!MaxLost \in Nat
  BY QueryIs DEF Resync, Sound
<1>4. Running
  BY <1>1, <1>3 DEF Resync, Done
<1>5. R!Query' = R!Query /\ R!MaxLost' = R!MaxLost
  BY <1>1 DEF R!Query, R!MaxLost
<1>6. Collecting'
  BY <1>2, <1>4 DEF Running, Collecting
<1>7. Stream' = Stream
  BY <1>1, <1>2 DEF Stream
<1>8. Len(Stream) \in Nat /\ Len(Stream) < rsent + 1 /\ rsent + 1 - Len(Stream) <= rlost + 1
  BY <1>3, <1>4, StreamLength
<1>9. Len(Stream) >= 2 => Waits(Stream[2], Len(R!Query))
  <2>1. CASE rclean = 0
    BY <1>4, <2>1 DEF Running
  <2>2. CASE rclean > 0
    <3> SUFFICES ASSUME Len(Stream) >= 2 PROVE Waits(Stream[2], Len(R!Query))
      OBVIOUS
    <3>1. Stream = SubSeq(R!Query, 1, rsent) /\ Len(Stream) = rsent
      BY <1>4, <2>2, StreamLength DEF Running
    <3>2. \A i \in 1 .. rsent : SubSeq(R!Query, 1, rsent)[i] = R!Query[i]
      BY <1>3
    <3>3. Stream[2] = R!Query[2]
      BY <1>3, <3>1, <3>2
    <3>4. 2 \in 2 .. R!MaxLost + 2
      BY <1>3
    <3> QED BY <3>3, <3>4, QueryIs
  <2> QED BY <1>3, <2>1, <2>2
<1>10. Running'
  <2>1. Len(Stream') < rsent' /\ rsent' - Len(Stream') <= rlost'
    <3>1. Len(Stream') = Len(Stream) /\ rsent' = rsent + 1 /\ rlost' = rlost + 1
      BY <1>1, <1>7
    <3>2. rsent \in Nat /\ rlost \in Nat
      BY <1>3
    <3> QED BY <1>8, <3>1, <3>2
  <2>2. Len(Stream') >= 2 => Waits(Stream'[2], Len(R!Query'))
    BY <1>5, <1>7, <1>9
  <2>3. ~ rclean' > 0
    BY <1>1
  <2> QED BY <1>6, <2>1, <2>2, <2>3 DEF Running, Waits
<1>11. Sound'
  BY <1>1, <1>2, <1>3, <1>5 DEF Resync, Sound
<1> QED BY <1>1, <1>10, <1>11 DEF Resync

\* The master sends again only when the slave has done with the query: a slave in the
\* middle of a frame waits for the rest, which the pause outlasts, or has too few of its
\* bytes for a header, which too few losses leave.
LEMMA DoneBeforeNext ==
  ASSUME Assumed, Resync, rnoise = 0, R!NextQuery
  PROVE  Done /\ rpc = "read"
<1>1. /\ rsent = Len(R!Query) /\ rpc = "read" /\ rmissing > 0 /\ rfifo = <<>>
      /\ ~ (rstep > 0 /\ rwant <= RPatience)
  BY DEF R!NextQuery, R!Waiting, R!Ends
<1> SUFFICES ASSUME Running PROVE FALSE
  BY <1>1 DEF Resync
<1>2. /\ rstored \in Seq(R!Byte) /\ rclean \in Nat /\ rlost \in 0 .. R!MaxLost
      /\ rmissing \in Nat
      /\ rwant \in Nat /\ rstep \in 0 .. 2 /\ RPatience \in Nat /\ 2 <= RPatience
      /\ R!MaxLost \in Nat /\ Len(R!Query) \in Nat /\ R!MaxLost + 2 <= Len(R!Query)
  BY QueryIs DEF Resync, Sound, Assumed
<1>3. Len(rfifo) = 0
  BY <1>1
<1>4. CASE rstep = 0
  <2>1. Len(rstored) + rmissing = 2
    BY <1>4 DEF Running, Collecting
  <2> QED BY <1>1, <1>2, <1>3, <2>1, StreamLength
<1>5. CASE rstep > 0
  <2>1. Len(rstored) >= 2
    BY <1>5 DEF Running, Collecting
  <2>2. R!RequestRest(rstored[2]) <= RPatience
    BY <2>1, FunctionIs DEF Waits
  <2>3. CASE rstep = 1
    BY <1>1, <2>2, <2>3 DEF Running, Collecting
  <2>4. CASE rstep = 2
    BY <1>1, <1>2, <2>4 DEF Running, Collecting
  <2> QED BY <1>2, <1>5, <2>3, <2>4
<1> QED BY <1>2, <1>4, <1>5

LEMMA NextQueryKeeps ==
  ASSUME Assumed, Resync, rnoise = 0, R!NextQuery
  PROVE  Resync'
<1>1. /\ rsent' = 0 /\ rfifo' = rfifo /\ UNCHANGED <<rsetting, rlost, rnoise>>
      /\ UNCHANGED R!receiver
      /\ rclean' = IF rclean < 2 THEN rclean + 1 ELSE 2
  BY DEF R!NextQuery
<1>2. UNCHANGED <<rstored, rstep, rwant, rmissing, rpc>>
  BY <1>1 DEF R!receiver
<1>3. Done /\ rpc = "read"
  BY DoneBeforeNext
<1>4. R!Query' = R!Query /\ R!MaxLost' = R!MaxLost /\ R!Query \in Seq(R!Byte) /\ Len(R!Query) \in Nat
  BY <1>1, QueryIs DEF R!Query, R!MaxLost
<1>5. rclean \in 0 .. 2
  BY DEF Resync, Sound
<1>6. rclean' \in 0 .. 2 /\ rclean' > 0
  BY <1>1, <1>5
<1>7. Stream' = <<>> /\ SubSeq(R!Query, 1, 0) = <<>>
  BY <1>1, <1>2, <1>3, <1>4 DEF Done, Stream
<1>8. Len(rstored) = 0
  BY <1>3 DEF Done
<1>9. Collecting'
  BY <1>2, <1>3, <1>8 DEF Done, Collecting
<1>10. Running'
  BY <1>1, <1>4, <1>6, <1>7, <1>9 DEF Running
<1>11. Sound'
  BY <1>1, <1>2, <1>4, <1>6 DEF Resync, Sound
<1> QED BY <1>1, <1>10, <1>11 DEF Resync

LEMMA InitResync ==
  ASSUME Assumed, R!Init
  PROVE  Resync
<1>1. /\ rsetting \in RSettings /\ rsent = 0 /\ rfifo = <<>> /\ rstored = <<>> /\ rstep = 0
      /\ rwant = 2 /\ rmissing = 2 /\ rpc = "read" /\ rclean = 2 /\ rlost = 0 /\ rnoise = 0
  BY CoreIs DEF R!Init
<1>2. R!Query \in Seq(R!Byte) /\ R!MaxLost \in Nat
  BY <1>1 DEF Assumed, R!SettingsAssumption, R!Query, R!MaxLost
<1>3. Stream = <<>> /\ SubSeq(R!Query, 1, 0) = <<>> /\ Len(rstored) = 0 /\ Len(R!Query) \in Nat
  BY <1>1, <1>2 DEF Stream
<1>4. Running
  BY <1>1, <1>3 DEF Running, Collecting
<1>5. Sound
  BY <1>1, <1>2, <1>3 DEF Sound
<1> QED BY <1>1, <1>4, <1>5 DEF Resync

LEMMA ResyncStep ==
  ASSUME Assumed, Resync, [R!Next]_(R!vars)
  PROVE  Resync'
<1>1. rsetting' = rsetting /\ rnoise' \in Nat /\ (rnoise' = 0 => rnoise = 0)
  <2>1. rnoise \in Nat
    BY DEF Resync
  <2>2. CASE R!AddByte
    BY <2>1, <2>2 DEF R!AddByte
  <2>3. CASE R!Slave
    BY <2>1, <2>3 DEF R!Slave, R!Read, R!HeadRead, R!FixedRead, R!WholeRead, R!Timeout, R!Recover, R!line
  <2> QED BY <2>1, <2>2, <2>3 DEF R!Next, R!SendByte, R!LoseByte, R!NextQuery, R!vars
<1>2. CASE rnoise' # 0
  BY <1>1, <1>2 DEF Resync
<1>3. CASE rnoise' = 0 /\ R!Next
  <2>1. rnoise = 0
    BY <1>1, <1>3
  <2>2. ~ R!AddByte
    BY <1>3, <2>1 DEF R!AddByte
  <2> QED BY <1>3, <2>1, <2>2, SendByteKeeps, LoseByteKeeps, NextQueryKeeps, ReadKeeps, HeadReadKeeps,
             FixedReadKeeps, WholeReadKeeps, TimeoutKeeps, RecoverKeeps DEF R!Next, R!Slave
<1>4. CASE UNCHANGED R!vars
  <2>1. UNCHANGED <<rsetting, rsent, rfifo, rstored, rstep, rwant, rmissing, rpc, ranswered,
                    rclean, rlost, rnoise>>
    BY <1>4 DEF R!vars
  <2>2. R!Query' = R!Query /\ R!MaxLost' = R!MaxLost /\ Stream' = Stream
    BY <2>1 DEF R!Query, R!MaxLost, Stream
  <2>3. Sound' = Sound /\ Collecting' = Collecting /\ Done' = Done
    BY <2>1, <2>2 DEF Sound, Collecting, Done
  <2>4. Running' = Running
    BY <2>1, <2>2, <2>3 DEF Running
  <2> QED BY <2>1, <2>3, <2>4 DEF Resync
<1> QED BY <1>2, <1>3, <1>4

\* Bytes the line loses of a query cost that query alone: modbus_slave_wait waits for
\* bytes that do not come, and its timeout and modbus_error_recovery leave it at the
\* beginning of the next query, which it answers if that is whole.
THEOREM LossCostsOneQuery ==
  ASSUME Assumed
  PROVE  R!Spec => R!DamageCostsOneQuery
<1> DEFINE Cost == rsent' < rsent /\ rclean > 0 /\ rnoise = 0 => ranswered
<1>1. Resync /\ [R!Next]_(R!vars) => [Cost]_(R!vars)
  <2> SUFFICES ASSUME Resync, R!Next PROVE Cost
    OBVIOUS
  <2> SUFFICES ASSUME rsent' < rsent, rclean > 0, rnoise = 0 PROVE ranswered
    OBVIOUS
  <2>1. rsent \in Nat
    BY QueryIs DEF Resync, Sound
  <2>2. ~ R!SendByte /\ ~ R!LoseByte /\ ~ R!AddByte
    BY <2>1 DEF R!SendByte, R!LoseByte, R!AddByte
  <2>3. ~ R!Slave
    BY <2>1 DEF R!Slave, R!Read, R!HeadRead, R!FixedRead, R!WholeRead, R!Timeout, R!Recover, R!line
  <2>4. R!NextQuery
    BY <2>2, <2>3 DEF R!Next
  <2> QED BY <2>4, DoneBeforeNext DEF Done
<1>2. Resync /\ [R!Next]_(R!vars) => Resync'
  BY ResyncStep
<1>3. R!Init => Resync
  BY InitResync
<1> QED BY <1>1, <1>2, <1>3, PTL DEF R!Spec, R!DamageCostsOneQuery
=============================================================================
