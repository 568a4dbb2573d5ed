--------------------------------- MODULE Pdu ---------------------------------
(***************************************************************************)
(* The two ends of a request, as functions of the frames alone: what       *)
(* modbus_slave_handle answers and does to the slave's tables (through the *)
(* callback of the test slaves and the vio tables behind it), and what     *)
(* modbus_handle_confirm makes of the answer.                              *)
(*                                                                         *)
(* A request is a record [function, addr, num, data]: data holds the cells *)
(* of a write, one per element, and is empty in a read.  An answer is a    *)
(* record [function, num, data, code].  What a frame spells out byte by    *)
(* byte (big-endian words, coils packed eight to a byte) is abstracted to  *)
(* its cells, except for the LENGTH of the data, which the master compares.*)
(* The cells are those the frame carries: what the bytes are, and what     *)
(* modbus_write_bit makes of the status it is given, is in Codec.          *)
(***************************************************************************)
EXTENDS ModbusBase, Sequences

CONSTANTS
  Cells,        \* cells of each vio table (the tests have 64 coils, 16 registers)
  RefusalCodes  \* what a callback may return for cells it does not serve

ASSUME CellsAssumption == Cells \in Nat \ {0}

\* 0 is what the callbacks of the tests return; a callback may also name an
\* exception, which modbus_slave_handle then passes on.
ASSUME RefusalCodesAssumption == RefusalCodes \subseteq -131 .. 0

\* The bits of a coil answer past the cells the slave filled in: no value of a
\* cell, whatever the bits happen to be.
Padding == -1

\* The tables behind the callbacks, by function code.
TableNames == {"hold_coils", "input_coils", "hold_regs", "input_regs"}
TableOf(function) ==
  CASE function \in {1, 5, WRITE_MULTIPLE_COILS}     -> "hold_coils"
    [] function = 2                                  -> "input_coils"
    [] function \in {3, 6, WRITE_MULTIPLE_REGISTERS} -> "hold_regs"
    [] OTHER                                         -> "input_regs"

(***************************************************************************)
(* The vio functions: all of them serve the part of the range that lies in *)
(* the table and return how many cells that is, none when the range starts *)
(* outside.  The offset of a table in the address space is abstracted.     *)
(***************************************************************************)
Served(addr, num) ==
  IF addr >= Cells THEN 0 ELSE IF addr + num > Cells THEN Cells - addr ELSE num

vio_read(table, addr, num) == [i \in 1 .. Served(addr, num) |-> table[addr + i - 1]]

vio_write(table, addr, num, data) ==
  [c \in DOMAIN table |->
     IF c \in addr .. addr + Served(addr, num) - 1 THEN data[c - addr + 1] ELSE table[c]]

(***************************************************************************)
(* modbus_slave_handle for one request, refusal being the callback's       *)
(* return value should it serve none of the cells.  rc is what the         *)
(* callback returns; an exception travels as the low byte of the code.  Of *)
(* the functions no call of a master sends, the report of the slave's      *)
(* identity is left out.                                                   *)
(***************************************************************************)
Exception(function, code) ==
  [function |-> (function + 128) % 256, num |-> 0, data |-> <<>>, code |-> code % 256]

CallbackResult(q, refusal) ==
  LET n == Served(q.addr, q.num) IN IF n = 0 THEN refusal ELSE n

\* response_data_exception, once a negative rc has replaced it.
ExceptionCode(own, rc) == IF rc < 0 THEN rc ELSE own

slave_answer(q, tables, refusal) ==
  LET rc == CallbackResult(q, refusal)
      table == tables[TableOf(q.function)]
  IN  CASE q.function \in Reads \cup MultipleWrites /\ ~ modbus_check_addr_num(q.function, q.num) ->
             Exception(q.function, MODBUS_EXCEPTION_ILLEGAL_DATA_VALUE)
        [] q.function \in Reads /\ modbus_check_addr_num(q.function, q.num) ->
             IF rc > 0 /\ modbus_check_addr_num(q.function, rc)
               THEN [function |-> q.function, num |-> rc, code |-> 0,
                     data |-> vio_read(table, q.addr, q.num)]
               ELSE Exception(q.function, ExceptionCode(MODBUS_EXCEPTION, rc))
        [] q.function \in MultipleWrites /\ modbus_check_addr_num(q.function, q.num) ->
             IF rc > 0 /\ modbus_check_addr_num(q.function, rc)
               THEN [function |-> q.function, num |-> q.num, code |-> 0, data |-> <<>>]
               ELSE Exception(q.function, ExceptionCode(MODBUS_EXCEPTION, rc))
        [] q.function \in SingleWrites ->
             IF rc = 1
               THEN [function |-> q.function, num |-> 1, code |-> 0, data |-> <<>>]
               ELSE Exception(q.function,
                              ExceptionCode(MODBUS_EXCEPTION_ILLEGAL_DATA_VALUE, rc))
        [] OTHER -> Exception(q.function, MODBUS_EXCEPTION_ILLEGAL_FUNCTION)

\* The tables after the request: the callback runs before its result is judged.
slave_effect(q, tables) ==
  IF \/ q.function \in SingleWrites
     \/ q.function \in MultipleWrites /\ modbus_check_addr_num(q.function, q.num)
    THEN [tables EXCEPT ![TableOf(q.function)] = vio_write(@, q.addr, q.num, q.data)]
    ELSE tables

(***************************************************************************)
(* modbus_handle_confirm: the return value and what is in read_data after. *)
(* A read copies the data only when the answer is as long as the request   *)
(* asked for; whatever else an answer of the right function holds, the     *)
(* call returns the MODBUS_OK of its context check.                        *)
(***************************************************************************)
NothingRead == <<>>

\* modbus_coil_m2h / modbus_reg_m2h: the first num cells the data bytes hold.
Copied(data, num) == [i \in 1 .. num |-> IF i <= Len(data) THEN data[i] ELSE Padding]

\* Mutant: an exception is looked at like any other answer.
handle_confirm_blind(q, a) ==
  [ret  |-> MODBUS_OK,
   data |-> IF /\ q.function \in Reads
               /\ DataBytes(q.function, q.num) = DataBytes(q.function, Len(a.data))
              THEN Copied(a.data, q.num) ELSE NothingRead]

handle_confirm(q, a) ==
  CASE a.function >= 128 ->
         [ret |-> 0 - a.function, data |-> NothingRead]
    [] a.function < 128 /\ a.function # q.function ->
         [ret |-> MODBUS_FAIL_CONFIRM, data |-> NothingRead]
    [] OTHER ->
         [ret  |-> MODBUS_OK,
          data |-> IF /\ q.function \in Reads
                      /\ DataBytes(q.function, q.num) = DataBytes(q.function, Len(a.data))
                     THEN Copied(a.data, q.num) ELSE NothingRead]

=============================================================================
