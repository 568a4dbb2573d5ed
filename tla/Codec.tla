-------------------------------- MODULE Codec --------------------------------
(***************************************************************************)
(* The bytes of the frames Pdu speaks of: checksum, packing of coils and   *)
(* registers, headers of the two cores, and what each side reads out of    *)
(* the other's bytes.  A frame is a header (the slave's address, over TCP  *)
(* behind the six bytes of the MBAP), the bytes from the function code on  *)
(* (here: the pdu), and the checksum.                                      *)
(***************************************************************************)
EXTENDS Pdu, Crc16

Hi(n) == (n \div 256) % 256
Lo(n) == n % 256
Word(bytes, i) == 256 * bytes[i] + bytes[i + 1]

(***************************************************************************)
(* Coils and registers in bytes.                                           *)
(***************************************************************************)
dio_get_val(bytes, index) == Bit(bytes[index \div 8 + 1], index % 8)

\* One bit of a byte becomes the status, the others stay.
dio_set_val(bytes, index, status) ==
  LET k == index % 8
  IN  [bytes EXCEPT ![index \div 8 + 1] = @ + (status - Bit(@, k)) * Weight[k + 1]]

\* Coils in bytes that held something else before.
Packed(coils, stale) ==
  [b \in 1 .. CoilBytes(Len(coils)) |->
     LET At(k) == IF 8 * (b - 1) + k < Len(coils) THEN coils[8 * (b - 1) + k + 1] ELSE Bit(stale, k)
     IN  At(0) + 2 * At(1) + 4 * At(2) + 8 * At(3)
           + 16 * At(4) + 32 * At(5) + 64 * At(6) + 128 * At(7)]

Coils(bytes, num) == [i \in 1 .. num |-> dio_get_val(bytes, i - 1)]

\* Mutant: the registers stay in the order of the host.
modbus_reg_h2m_little(words) ==
  [b \in 1 .. 2 * Len(words) |-> IF b % 2 = 1 THEN Lo(words[(b + 1) \div 2])
                                              ELSE Hi(words[(b + 1) \div 2])]

\* The high byte of a register goes first.
modbus_reg_h2m(words) ==
  [b \in 1 .. 2 * Len(words) |-> IF b % 2 = 1 THEN Hi(words[(b + 1) \div 2])
                                              ELSE Lo(words[(b + 1) \div 2])]

modbus_reg_m2h(bytes, num) == [i \in 1 .. num |-> Word(bytes, 2 * i - 1)]

IsCoils(function) == function \in CoilReads \cup {WRITE_MULTIPLE_COILS}

Encoded(function, cells, stale) ==
  IF IsCoils(function) THEN Packed(cells, stale) ELSE modbus_reg_h2m(cells)

Decoded(function, bytes, num) ==
  IF IsCoils(function) THEN Coils(bytes, num) ELSE modbus_reg_m2h(bytes, num)

(***************************************************************************)
(* Frames.                                                                 *)
(***************************************************************************)
header(core, tid, slave) ==
  IF core = RtuCore THEN <<slave>> ELSE <<Hi(tid), Lo(tid), 0, 0, 0, 0, slave>>

\* Mutant: the checksum is sent high byte first.
check_send_pre_swapped(core, bytes) ==
  IF core = RtuCore
    THEN bytes \o <<Hi(modbus_crc16(bytes)), Lo(modbus_crc16(bytes))>>
    ELSE [bytes EXCEPT ![5] = Hi(Len(bytes) - 6), ![6] = Lo(Len(bytes) - 6)]

\* The checksum of RTU, the length field of TCP.
check_send_pre(core, bytes) ==
  IF core = RtuCore
    THEN bytes \o <<Lo(modbus_crc16(bytes)), Hi(modbus_crc16(bytes))>>
    ELSE [bytes EXCEPT ![5] = Hi(Len(bytes) - 6), ![6] = Lo(Len(bytes) - 6)]

\* Is the frame one of this core's, and whole?
Intact(core, bytes) ==
  LET n == Len(bytes)
  IN  IF core = RtuCore
        THEN bytes[n - 1] + 256 * bytes[n] = modbus_crc16(SubSeq(bytes, 1, n - 2))
        ELSE bytes[3] = 0 /\ bytes[4] = 0 /\ n - Word(bytes, 5) = 6

\* The length of a frame that is accepted, else why it is not.
Addressed(core, bytes, slave) ==
  IF bytes[core.len_header] \in {slave, 0} THEN Len(bytes) ELSE MODBUS_FAIL_ADRR

check_wait_request(core, bytes, slave) ==
  IF Intact(core, bytes) THEN Addressed(core, bytes, slave) ELSE MODBUS_FAIL_CHECK

\* Mutant: an answer is taken by its transfer_id and address alone.
check_wait_response_unchecked(core, bytes, slave, tid) ==
  IF core = TcpCore => Word(bytes, 1) = tid
    THEN Addressed(core, bytes, slave) ELSE MODBUS_FAIL_CHECK

check_wait_response(core, bytes, slave, tid) ==
  IF (core = TcpCore => Word(bytes, 1) = tid) /\ Intact(core, bytes)
    THEN Addressed(core, bytes, slave) ELSE MODBUS_FAIL_CHECK

pdu(core, bytes) == SubSeq(bytes, core.len_header + 1, Len(bytes) - core.len_checksum)

(***************************************************************************)
(* The master.  modbus_write_bit hands modbus_start_request the address of *)
(* an int, 0xFF00 or 0, and modbus_start_request looks at the byte there:  *)
(* the lowest, on the machines for which modbus_reg_h2m finds the low byte *)
(* of a register first.                                                    *)
(***************************************************************************)
CoilState(status) ==
  LET int == IF status # 0 THEN 65280 ELSE 0
  IN  IF Lo(int) # 0 THEN 255 ELSE 0

request_pdu(q) ==
  LET at == <<q.function, Hi(q.addr), Lo(q.addr)>>
      written == Encoded(q.function, q.data, 0)
  IN  CASE q.function = 5 -> at \o <<CoilState(q.data[1]), 0>>
        [] q.function = 6 -> at \o modbus_reg_h2m(q.data)
        [] q.function \in Reads -> at \o <<Hi(q.num), Lo(q.num)>>
        [] OTHER -> at \o <<Hi(q.num), Lo(q.num), Lo(Len(written))>> \o written

start_request(core, tid, slave, q) == check_send_pre(core, header(core, tid, slave) \o request_pdu(q))

(***************************************************************************)
(* The slave: what it reads out of a request, and its answer.  A single    *)
(* coil is bit 0 of the high byte.  The callback sets coils in write_buff, *)
(* whose other bits are what an earlier frame left there.                  *)
(***************************************************************************)
query(p) ==
  LET function == p[1]
      data == SubSeq(p, 7, Len(p))
  IN  [function |-> function, addr |-> Word(p, 2),
       num  |-> IF function \in SingleWrites THEN 1 ELSE Word(p, 4),
       data |-> CASE function = 5 -> <<dio_get_val(<<p[4]>>, 0)>>
                  [] function = 6 -> <<Word(p, 4)>>
                  [] function \in Reads -> <<>>
                  [] OTHER -> Decoded(function, data, Word(p, 4))]

response_pdu(p, tables, refusal, stale) ==
  LET a == slave_answer(query(p), tables, refusal)
  IN  CASE a.function >= 128 -> <<a.function, a.code>>
        [] a.function \in Reads ->
             <<a.function, Lo(DataBytes(a.function, a.num))>> \o Encoded(a.function, a.data, stale)
        [] OTHER -> SubSeq(p, 1, 5)

response(core, tid, slave, p, tables, refusal, stale) ==
  check_send_pre(core, header(core, tid, slave) \o response_pdu(p, tables, refusal, stale))

(***************************************************************************)
(* modbus_handle_confirm, of the bytes that were sent and that came back.  *)
(***************************************************************************)
\* Mutant: coils that do not fill a byte are forgotten.
AnswerLengthFloor(p) ==
  CASE p[1] \in CoilReads     -> 2 + Word(p, 4) \div 8
    [] p[1] \in RegisterReads -> 2 + 2 * Word(p, 4)
    [] OTHER                  -> 5

\* How long the answer to a request is, from the function code on.
AnswerLength(p) == IF p[1] \in Reads THEN 2 + DataBytes(p[1], Word(p, 4)) ELSE 5

confirm(p, a) ==
  LET num == Word(p, 4)
  IN  CASE a[1] >= 128 -> [ret |-> 0 - a[1], data |-> NothingRead]
        [] a[1] < 128 /\ a[1] # p[1] -> [ret |-> MODBUS_FAIL_CONFIRM, data |-> NothingRead]
        [] OTHER ->
             [ret  |-> MODBUS_OK,
              data |-> IF /\ p[1] \in Reads
                          /\ Len(a) = AnswerLength(p)
                          /\ a[2] = Lo(DataBytes(p[1], num))
                         THEN Decoded(p[1], SubSeq(a, 3, Len(a)), num) ELSE NothingRead]

=============================================================================
