------------------------------- MODULE Crc16 -------------------------------
(***************************************************************************)
(* modbus_crc16, the checksum of a serial frame, bit by bit as the code    *)
(* computes it.  A word is a number; what ^ does to it is written with     *)
(* sums and differences of the weights of its bits.                        *)
(***************************************************************************)
EXTENDS ModbusBase, Sequences

\* The exclusive or of two bytes.
Xor(a, b) ==
  LET Sum(k) == (Bit(a, k) + Bit(b, k)) % 2
  IN  Sum(0) + 2 * Sum(1) + 4 * Sum(2) + 8 * Sum(3)
        + 16 * Sum(4) + 32 * Sum(5) + 64 * Sum(6) + 128 * Sum(7)

\* A number with the bit of that weight turned over.
Flip(n, weight) == IF (n \div weight) % 2 = 1 THEN n - weight ELSE n + weight

\* One shift: 0xA001 has the bits of 32768, 8192 and 1.
Shift(CRC) ==
  IF CRC % 2 = 1 THEN Flip(Flip(Flip(CRC \div 2, 32768), 8192), 1) ELSE CRC \div 2

Shifted ==
  [CRC \in UInt16 |-> Shift(Shift(Shift(Shift(Shift(Shift(Shift(Shift(CRC))))))))]

\* A byte is taken in: only the low byte of CRC meets it.
Fed(CRC, byte) == Shifted[256 * (CRC \div 256) + Xor(CRC % 256, byte)]

\* CRC after each number of bytes.
Registers(buffer) ==
  LET CRC[CRC_count \in 0 .. Len(buffer)] ==
        IF CRC_count = 0 THEN 65535 ELSE Fed(CRC[CRC_count - 1], buffer[CRC_count])
  IN  CRC

modbus_crc16(buffer) == Registers(buffer)[Len(buffer)]

=============================================================================
