----------------------------- MODULE MCExchange -----------------------------
(***************************************************************************)
(* Exchange with tables of ten cells, so that coils take two bytes and     *)
(* leave six bits of the second, transfer_id where it carries, where it    *)
(* wraps and where modbus.md prints sample frames, and these samples.      *)
(***************************************************************************)
EXTENDS Exchange

Ask(f, a, n)     == [function |-> f, addr |-> a, num |-> n, data |-> <<>>]
Put(f, a, cells) == [function |-> f, addr |-> a, num |-> Len(cells), data |-> cells]

\* Reads within a table, up to its end, past it and outside, and writes of one,
\* of a byte and of more cells.
MCCalls ==
  {Ask(f, a, n) : f \in {1, 2, 3, 4}, a \in {0, 9, 10}, n \in {1, 8, 10}}
    \cup {Put(15, 1, <<1>>), Put(15, 0, <<1, 1, 0, 0, 1, 0, 0, 1, 0, 1>>), Put(15, 9, <<1, 0>>)}
    \cup {Put(16, 0, <<4660>>), Put(16, 1, <<65535, 0, 256>>), Put(16, 9, <<1, 2>>)}
    \cup {Put(6, 3, <<4660>>), Put(6, 10, <<1>>), Put(5, 4, <<0>>)}

CoilCalls == {Put(5, a, <<v>>) : a \in {0, 4}, v \in {0, 1}}

\* Quantities of 2^16 and a little more.
WideCalls == {Ask(f, 0, 65536 + n) : f \in {1, 3}, n \in {0, 1, 2}}

Bits(c)  == IF c \in {0, 3, 4, 8} THEN 1 ELSE 0
Words(c) == CASE c = 0 -> 4660 [] c = 1 -> 65535 [] OTHER -> c

Zero == [t \in TableNames |-> [c \in 0 .. Cells - 1 |-> 0]]
Full == [t \in TableNames |->
           [c \in 0 .. Cells - 1 |->
              IF t \in {"hold_coils", "input_coils"} THEN Bits(c) ELSE Words(c)]]

MCContents  == {Zero, Full}
ZeroOnly    == {Zero}
MCCores     == {RtuCore, TcpCore}
TcpOnly     == {TcpCore}
MCRefusals  == {0, -130}

(***************************************************************************)
(* The frames modbus.md prints (lines 312-315 and 324-329), of a slave at  *)
(* 1 whose first cells are 0.  Each is held against the frame of its own   *)
(* identifier: the two of lines 324 and 325, which the document prints as  *)
(* query and answer, have the identifiers 0 and 1.                         *)
(***************************************************************************)
Sample(c, who, tid, function, bytes) ==
  [core |-> c, pc |-> who, tid |-> tid, function |-> function, frame |-> bytes]

Line324 == <<0, 0, 0, 0, 0, 6, 1, 1, 0, 0, 0, 1>>
Line325 == <<0, 1, 0, 0, 0, 4, 1, 1, 1, 0>>

Samples ==
  {Sample(RtuCore, "query",  0, 1, <<1, 1, 0, 0, 0, 1, 253, 202>>),
   Sample(RtuCore, "answer", 0, 1, <<1, 1, 1, 0, 81, 136>>),
   Sample(RtuCore, "query",  0, 3, <<1, 3, 0, 0, 0, 1, 132, 10>>),
   Sample(RtuCore, "answer", 0, 3, <<1, 3, 2, 0, 0, 184, 68>>),
   Sample(TcpCore, "query",  0, 1, Line324),
   Sample(TcpCore, "answer", 1, 1, Line325),
   Sample(TcpCore, "query",  2, 2, <<0, 2, 0, 0, 0, 6, 1, 2, 0, 0, 0, 1>>),
   Sample(TcpCore, "answer", 2, 2, <<0, 2, 0, 0, 0, 4, 1, 2, 1, 0>>),
   Sample(TcpCore, "query",  3, 3, <<0, 3, 0, 0, 0, 6, 1, 3, 0, 0, 0, 1>>),
   Sample(TcpCore, "answer", 3, 3, <<0, 3, 0, 0, 0, 5, 1, 3, 2, 0, 0>>)}

\* An answer that is no exception and has nothing in the bits behind its coil.
Plain(p) == p[1] < 128 /\ (p[1] \in CoilReads => p[3] \in {0, 1})
ReadsZero == ~ damaged /\ tables = Zero /\ (pc = "answer" => Plain(pdu(core, frame)))

\* Every frame modbus.md prints is, byte for byte, the one the code sends, each under
\* the identifier it carries.
SamplesMatch ==
  \A s \in Samples :
    /\ s.core = core /\ s.pc = pc /\ call = Ask(s.function, 0, 1) /\ ReadsZero
    /\ core = TcpCore => transfer_id = s.tid
    => frame = s.frame

\* The query of modbus.md:324 is answered with the frame of modbus.md:325.  It is
\* not: the slave sends the identifier back that it was sent (modbus.md:87).
PrintedPairMatches ==
  pc = "answer" /\ write_buff = Line324 /\ ReadsZero => frame = Line325
=============================================================================
