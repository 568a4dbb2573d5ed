------------------------------ MODULE Exchange ------------------------------
(***************************************************************************)
(* An exchange, byte by byte: a call of the master builds a frame (Codec), *)
(* the line may damage it, the slave checks, reads and answers it, the     *)
(* line may damage the answer, the master judges it.  Pdu, on which        *)
(* Transaction is built, says the same of requests and answers as records: *)
(* here the bytes are held against the records.                            *)
(*                                                                         *)
(* Frames are cut as their sender meant them; that a receiver may cut      *)
(* damaged ones elsewhere is the matter of FrameReceiver and RtuResync.    *)
(***************************************************************************)
EXTENDS Codec

CONSTANTS
  Calls,      \* what the master's application asks for
  Cores,      \* the cores, RtuCore or TcpCore
  Slave,      \* the slave's address
  FirstTids,  \* where transfer_id may stand
  Contents,   \* what the slave's tables may hold
  Stale       \* what a byte of write_buff may hold from an earlier frame

ASSUME CallsAssumption ==
  /\ Calls \subseteq [function : Reads \cup SingleWrites \cup MultipleWrites,
                      addr : UInt16, num : Nat, data : Seq(UInt16)]
  /\ \A q \in Calls :
       IF q.function \in Reads THEN q.data = <<>> ELSE q.num = Len(q.data) /\ q.num <= 1968
  /\ \A q \in Calls : q.function \in SingleWrites => q.num = 1
  /\ \A q \in Calls : q.function = WRITE_MULTIPLE_COILS => q.data \in Seq({0, 1})
ASSUME CoresAssumption == Cores \subseteq {RtuCore, TcpCore}
ASSUME SlaveAssumption == Slave \in 1 .. 247
ASSUME TidsAssumption  == FirstTids \subseteq UInt16
ASSUME StaleAssumption == Stale \subseteq Byte
ASSUME ContentsAssumption ==
  \A t \in Contents :
    /\ t \in [TableNames -> [0 .. Cells - 1 -> UInt16]]
    /\ \A c \in 0 .. Cells - 1 : t["hold_coils"][c] \in {0, 1} /\ t["input_coils"][c] \in {0, 1}

VARIABLES
  core,         \* of master and slave
  transfer_id,  \* of the master
  tables,       \* of the slave
  pc,           \* "idle", "query" or "answer": who is to look at the frame
  call,         \* the call being made, or the last one
  write_buff,   \* the master's request
  frame,        \* the bytes on the line
  damaged,      \* has the line damaged this exchange?
  expected,     \* what Pdu says of the call, once the slave has handled it
  result        \* how the last call ended

vars == <<core, transfer_id, tables, pc, call, write_buff, frame, damaged, expected, result>>

NoCall == [function |-> 0, addr |-> 0, num |-> 0, data |-> <<>>]
Ended(ret) == [ret |-> ret, data |-> NothingRead]

Init ==
  /\ core \in Cores /\ transfer_id \in FirstTids /\ tables \in Contents
  /\ pc = "idle" /\ call = NoCall /\ write_buff = <<>> /\ frame = <<>>
  /\ damaged = FALSE /\ expected = Ended(MODBUS_FAIL) /\ result = Ended(MODBUS_FAIL)

\* modbus_start_request; the header of a TCP request counts transfer_id.
Call ==
  /\ pc = "idle" /\ call = NoCall
  /\ transfer_id' = IF core = TcpCore THEN (transfer_id + 1) % 65536 ELSE transfer_id
  /\ \E q \in Calls :
       /\ modbus_check_addr_num(q.function, q.num)
       /\ call' = q
       /\ write_buff' = start_request(core, transfer_id', Slave, q)
  /\ frame' = write_buff'
  /\ pc' = "query" /\ damaged' = FALSE
  /\ UNCHANGED <<core, tables, expected, result>>

\* A serial line turns a bit over.
Damage ==
  /\ core = RtuCore /\ pc # "idle" /\ ~ damaged
  /\ \E i \in DOMAIN frame, bit \in 0 .. 7 :
       frame' = dio_set_val(frame, 8 * (i - 1) + bit, 1 - dio_get_val(frame, 8 * (i - 1) + bit))
  /\ damaged' = TRUE
  /\ UNCHANGED <<core, transfer_id, tables, pc, call, write_buff, expected, result>>

\* modbus_slave_wait_handle.  A slave that finds a frame damaged is silent, and
\* the call ends with a timeout.
Handle ==
  /\ pc = "query"
  /\ \E refusal \in RefusalCodes, stale \in Stale :
       LET p == pdu(core, frame)
           tid == IF core = TcpCore THEN Word(frame, 1) ELSE 0
       IN  IF check_wait_request(core, frame, Slave) > 0
             THEN /\ tables' = slave_effect(query(p), tables)
                  /\ frame' = response(core, tid, Slave, p, tables, refusal, stale)
                  /\ expected' = handle_confirm(call, slave_answer(call, tables, refusal))
                  /\ pc' = "answer"
                  /\ UNCHANGED result
             ELSE /\ result' = Ended(MODBUS_TIMEOUT)
                  /\ pc' = "idle"
                  /\ UNCHANGED <<tables, frame, expected>>
  /\ UNCHANGED <<core, transfer_id, call, write_buff, damaged>>

\* modbus_wait_confirm and modbus_handle_confirm.
Confirm ==
  /\ pc = "answer"
  /\ LET length == check_wait_response(core, frame, Slave, transfer_id)
     IN  result' = IF length > 0 THEN confirm(pdu(core, write_buff), pdu(core, frame))
                                 ELSE Ended(length)
  /\ pc' = "idle"
  /\ UNCHANGED <<core, transfer_id, tables, call, write_buff, frame, damaged, expected>>

Next == Call \/ Damage \/ Handle \/ Confirm

Spec == Init /\ [][Next]_vars
-----------------------------------------------------------------------------
\* The slave reads out of the bytes what the master was called with.
QueryUnderstood ==
  pc = "query" /\ ~ damaged => query(pdu(core, frame)) = call

\* Two results are the same to the caller: the coils past those the slave
\* served are whatever the last byte holds.
Same(r, s) ==
  /\ r.ret = s.ret /\ Len(r.data) = Len(s.data)
  /\ \A i \in DOMAIN r.data : s.data[i] \in {r.data[i], Padding}

\* Every call on an undamaged line ends, and the master makes of the bytes that
\* came back what Pdu says of the records.
AnswerUnderstood ==
  pc = "idle" /\ call # NoCall /\ ~ damaged => Same(result, expected)

\* A frame in which the line has turned a bit over is taken by nobody: the slave
\* does not act on such a query, and a call whose answer was damaged fails.
DamageIsNoticed ==
  [][/\ damaged /\ pc = "query" => tables' = tables
     /\ damaged /\ pc = "answer" /\ pc' = "idle" => result'.ret = MODBUS_FAIL_CHECK]_vars

\* A call of modbus_write_bit that succeeds has left the coil as it was told to.
CoilIsWritten ==
  pc = "idle" /\ call.function = 5 /\ result.ret = MODBUS_OK =>
    tables["hold_coils"][call.addr] = call.data[1]

\* A read that modbus_start_request accepts asks for no more coils than 2000 and
\* no more registers than 125: the quantity is checked as a uint16_t, while the
\* caller passes an int.
QuantityAllowed ==
  pc # "idle" /\ call.function \in Reads =>
    call.num <= (IF call.function \in CoilReads THEN 2000 ELSE 125)

=============================================================================
