----------------------------- MODULE ModbusBase -----------------------------
(***************************************************************************)
(* The vocabulary every other module shares: function codes, return codes, *)
(* the two protocol cores (RTU and TCP), the quantity check and the sizes  *)
(* of frames.  There is no state here and no recursion, so the modules     *)
(* that are proved about may extend it.                                    *)
(***************************************************************************)
EXTENDS Integers

(***************************************************************************)
(* Function codes.                                                         *)
(***************************************************************************)
CoilReads      == {1, 2}      \* READ_HOLDING_COILS, READ_INPUTS_COILS
RegisterReads  == {3, 4}      \* READ_HOLDING_REGISTERS, READ_INPUT_REGISTERS
SingleWrites   == {5, 6}      \* WRITE_SINGLE_COIL, WRITE_SINGLE_REGISTER
WRITE_MULTIPLE_COILS     == 15
WRITE_MULTIPLE_REGISTERS == 16
MASK_WRITE_REGISTER      == 22
WRITE_AND_READ_REGISTERS == 23

Reads          == CoilReads \cup RegisterReads
MultipleWrites == {WRITE_MULTIPLE_COILS, WRITE_MULTIPLE_REGISTERS}
Byte           == 0 .. 255
UInt16         == 0 .. 65535

Weight == <<1, 2, 4, 8, 16, 32, 64, 128>>
Bit(byte, k) == (byte \div Weight[k + 1]) % 2

(***************************************************************************)
(* Return codes.                                                           *)
(***************************************************************************)
MODBUS_OK           == 0
MODBUS_FAIL         == -1
MODBUS_TIMEOUT      == -2
MODBUS_FAIL_REQUEST == -3
MODBUS_FAIL_CONFIRM == -4
MODBUS_FAIL_ADRR    == -6
MODBUS_FAIL_CHECK   == -7
MODBUS_ERROR_READ   == -8
MODBUS_EXCEPTION    == -128
MODBUS_EXCEPTION_ILLEGAL_FUNCTION   == -129
MODBUS_EXCEPTION_ILLEGAL_DATA_VALUE == -131

(***************************************************************************)
(* The two cores: how many bytes precede the function code, how many       *)
(* follow the data, and the longest frame each one accepts.  read_buff and *)
(* write_buff of a context hold MODBUS_MAX_ADU_LENGTH bytes.               *)
(***************************************************************************)
MODBUS_MAX_ADU_LENGTH == 260
RtuCore == [len_header |-> 1, len_checksum |-> 2, len_adu_max |-> 260]
TcpCore == [len_header |-> 7, len_checksum |-> 0, len_adu_max |-> 260]

(***************************************************************************)
(* modbus_check_addr_num: is the quantity legal for the function?  The     *)
(* parameter is a uint16_t, so what the caller passes is cut to 16 bits.   *)
(***************************************************************************)
modbus_check_addr_num(function, num) ==
  LET n == num % 65536
  IN  \/ function \in CoilReads                  /\ n \in 1 .. 2000
      \/ function \in RegisterReads              /\ n \in 1 .. 125
      \/ function = WRITE_MULTIPLE_COILS         /\ n \in 1 .. 1968
      \/ function = WRITE_MULTIPLE_REGISTERS     /\ n \in 1 .. 123
      \/ function \in SingleWrites

\* The bytes that hold n coils, eight to a byte.
CoilBytes(n) == n \div 8 + (IF n % 8 # 0 THEN 1 ELSE 0)

\* The data bytes that carry n cells of the table a function addresses.
DataBytes(function, n) ==
  IF function \in CoilReads \cup {WRITE_MULTIPLE_COILS} THEN CoilBytes(n) ELSE 2 * n

(***************************************************************************)
(* The fixed part that follows the function code, in a query and in an     *)
(* answer, as the receive loops take it.                                   *)
(***************************************************************************)
\* Mutant: the quantity's byte count is forgotten in a multiple write.
RequestRestShort(f) ==
  CASE f <= 6                        -> 4
    [] f \in MultipleWrites          -> 4
    [] f = MASK_WRITE_REGISTER       -> 6
    [] f = WRITE_AND_READ_REGISTERS  -> 9
    [] OTHER                         -> 0

RequestRest(f) ==
  CASE f <= 6                        -> 4
    [] f \in MultipleWrites          -> 5
    [] f = MASK_WRITE_REGISTER       -> 6
    [] f = WRITE_AND_READ_REGISTERS  -> 9
    [] OTHER                         -> 0

ConfirmRest(f) ==
  CASE f \in Reads                          -> 1
    [] f \in SingleWrites \cup MultipleWrites -> 4
    [] f = MASK_WRITE_REGISTER              -> 6
    [] OTHER                                -> 1

Rest(o, f) == IF o = "slave_wait" THEN RequestRest(f) ELSE ConfirmRest(f)

(***************************************************************************)
(* Which frames have a byte count, and its offset from the function code.  *)
(***************************************************************************)
HasCount(o, f) ==
  IF o = "slave_wait" THEN f \in MultipleWrites \cup {WRITE_AND_READ_REGISTERS}
                      ELSE f \in Reads

CountOffset(o, f) ==
  CASE o = "slave_wait" /\ f = WRITE_AND_READ_REGISTERS -> 9
    [] o = "slave_wait" /\ f # WRITE_AND_READ_REGISTERS -> 5
    [] OTHER                                            -> 1

=============================================================================
