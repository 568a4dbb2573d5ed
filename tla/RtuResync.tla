------------------------------ MODULE RtuResync ------------------------------
(***************************************************************************)
(* A serial slave on a line that loses bytes or adds some: when is it in   *)
(* step with its master again?  The loop of the test slave                 *)
(* (modbus_slave_wait_handle with MODBUS_WAIT_FOREVER, and                 *)
(* modbus_error_recovery after every failure) reads the bytes the line     *)
(* gives it, in the three reads of modbus_slave_wait.                      *)
(*                                                                         *)
(* The master sends one query over and over, as its loop does: the bytes,  *)
(* then the wait for the answer, then the pause.  The bytes of the query   *)
(* are real, since a slave out of step takes one of them for the function  *)
(* code; of the checksum it matters only that the query passes and nothing *)
(* else that is read does.                                                 *)
(***************************************************************************)
EXTENDS ModbusBase, Sequences

CONSTANTS
  Settings,    \* the lines and queries to look at, see below
  Patience     \* a wait for more bytes than this outlasts the master's pause

\* query       the bytes of the query
\* noiseBytes  what a byte nobody sent may be
\* lost        bound: bytes the line loses
\* noise       bound: bytes the line adds
\* prompt      is the slave's thread done before the next byte arrives?
ASSUME SettingsAssumption ==
  /\ Settings \subseteq [query : Seq(Byte), noiseBytes : SUBSET Byte, lost : Nat,
                         noise : Nat, prompt : BOOLEAN]
  /\ \A s \in Settings : Len(s.query) >= 2
ASSUME PatienceAssumption == Patience \in Nat

VARIABLES
  setting,   \* one of Settings, once and for all
  sent,      \* bytes of the query the master has sent
  fifo,      \* bytes in the serial device of the slave
  stored,    \* what read_buff holds of the frame being collected
  step,      \* read_step
  want,      \* read_want at the start of the read under way
  missing,   \* how many of these have not been read yet
  pc,        \* the slave's thread: "read" or "recover"
  answered,  \* has this query been answered?
  clean,     \* queries begun since the line last did damage, at most 2
  lost,      \* bytes lost so far
  noise      \* bytes added so far

vars == <<setting, sent, fifo, stored, step, want, missing, pc, answered, clean, lost, noise>>

Query    == setting.query
MaxLost  == setting.lost
MaxNoise == setting.noise

line == <<setting, sent, clean, lost, noise>>

receiver == <<stored, step, want, missing, pc>>

Header == RtuCore.len_header + 1

Init ==
  /\ setting \in Settings
  /\ sent = 0 /\ fifo = <<>>
  /\ stored = <<>> /\ step = 0 /\ want = Header /\ missing = Header /\ pc = "read"
  /\ answered = FALSE /\ clean = 2 /\ lost = 0 /\ noise = 0
-----------------------------------------------------------------------------
\* The slave waits in port->wait.
Waiting == pc = "read" /\ missing > 0 /\ fifo = <<>>

\* Mutant: the wait for a header, which has no end, is kept for the rest.
EndsNever == FALSE

\* Has that wait an end?
Ends == step > 0

\* May the next byte come?  At 9600 baud a byte takes a millisecond.
Ready == setting.prompt => Waiting

SendByte ==
  /\ Ready /\ sent < Len(Query)
  /\ sent' = sent + 1 /\ fifo' = Append(fifo, Query[sent + 1])
  /\ UNCHANGED <<setting, receiver, answered, clean, lost, noise>>

LoseByte ==
  /\ Ready /\ sent < Len(Query) /\ lost < MaxLost
  /\ sent' = sent + 1 /\ lost' = lost + 1 /\ clean' = 0
  /\ UNCHANGED <<setting, fifo, receiver, answered, noise>>

\* A byte nobody sent, in a query or before it.
AddByte ==
  /\ Ready /\ sent < Len(Query) /\ noise < MaxNoise
  /\ \E b \in setting.noiseBytes : fifo' = Append(fifo, b)
  /\ noise' = noise + 1 /\ clean' = 0
  /\ UNCHANGED <<setting, sent, receiver, answered, lost>>

\* The master has its answer or has waited for it in vain (timeout_frame),
\* pauses, and sends again.  By then the slave has read what came, and has given
\* up a frame it waits for the rest of, unless the rest is so long that its wait
\* outlasts the pause.
NextQuery ==
  /\ sent = Len(Query)
  /\ Waiting /\ ~ (Ends /\ want <= Patience)
  /\ sent' = 0 /\ answered' = FALSE
  /\ clean' = IF clean < 2 THEN clean + 1 ELSE 2
  /\ UNCHANGED <<setting, fifo, receiver, lost, noise>>
-----------------------------------------------------------------------------
\* modbus_slave_wait begins a frame, or the next read of one.
Collect(next, number) == step' = next /\ want' = number /\ missing' = number

Anew == Collect(0, Header) /\ stored' = <<>>

\* modbus_want_read: what the device holds, up to what is missing.
Read ==
  /\ pc = "read" /\ missing > 0 /\ fifo # <<>>
  /\ LET n == IF Len(fifo) < missing THEN Len(fifo) ELSE missing
     IN  /\ stored' = stored \o SubSeq(fifo, 1, n)
         /\ fifo' = SubSeq(fifo, n + 1, Len(fifo))
         /\ missing' = missing - n
  /\ UNCHANGED <<step, want, pc, answered, line>>

Function == stored[Header]

\* What the third read is to collect.
TailWant ==
  RtuCore.len_checksum
    + (IF HasCount("slave_wait", Function)
         THEN stored[Header + CountOffset("slave_wait", Function)] ELSE 0)

\* A function with a fixed part.
HeadRead ==
  /\ pc = "read" /\ missing = 0 /\ step = 0
  /\ RequestRest(Function) > 0
  /\ Collect(1, RequestRest(Function))
  /\ UNCHANGED <<fifo, stored, pc, answered, line>>

\* The fixed part, or the header of a function that has none.
FixedRead ==
  /\ pc = "read" /\ missing = 0
  /\ step = 1 \/ (step = 0 /\ RequestRest(Function) = 0)
  /\ \/ /\ Len(stored) + TailWant <= RtuCore.len_adu_max
        /\ Collect(2, TailWant)
        /\ UNCHANGED <<stored, pc>>
     \/ /\ Len(stored) + TailWant > RtuCore.len_adu_max
        /\ Anew /\ pc' = "recover"
  /\ UNCHANGED <<fifo, answered, line>>

\* The check of the frame; modbus_slave_handle answers one that passes.
WholeRead ==
  /\ pc = "read" /\ missing = 0 /\ step = 2
  /\ Anew
  /\ answered' = (answered \/ stored = Query)
  /\ pc' = IF stored = Query THEN "read" ELSE "recover"
  /\ UNCHANGED <<fifo, line>>

\* The rest of a frame does not come.  No wait ends between two bytes of a query:
\* timeout_byte is longer than a byte takes.
Timeout ==
  /\ Waiting /\ Ends /\ sent \in {0, Len(Query)}
  /\ Anew /\ pc' = "recover"
  /\ UNCHANGED <<fifo, answered, line>>

\* modbus_error_recovery; the device holds less than the flush may read.
Recover ==
  /\ pc = "recover"
  /\ pc' = "read" /\ fifo' = <<>>
  /\ UNCHANGED <<stored, step, want, missing, answered, line>>

Slave == Read \/ HeadRead \/ FixedRead \/ WholeRead \/ Timeout \/ Recover

Next == SendByte \/ LoseByte \/ AddByte \/ NextQuery \/ Slave

Spec == Init /\ [][Next]_vars

\* The master's loop and the slave's go on; the line need not fail.
FairSpec == Spec /\ WF_vars(SendByte) /\ WF_vars(NextQuery) /\ WF_vars(Slave)
-----------------------------------------------------------------------------
\* Types, and how far a read may go: what is stored and what is missing never
\* exceed read_buff.
TypeOK ==
  /\ setting \in Settings
  /\ sent \in 0 .. Len(Query) /\ step \in 0 .. 2 /\ clean \in 0 .. 2
  /\ lost \in 0 .. MaxLost /\ noise \in 0 .. MaxNoise
  /\ want \in 0 .. MODBUS_MAX_ADU_LENGTH /\ missing \in 0 .. want
  /\ pc \in {"read", "recover"} /\ answered \in BOOLEAN
  /\ fifo \in Seq(Byte) /\ stored \in Seq(Byte)
  /\ Len(stored) + missing <= MODBUS_MAX_ADU_LENGTH

\* Bytes the line loses of one query cost that query alone: the next one, if the
\* line does it no damage, is answered.
DamageCostsOneQuery == [][sent' < sent /\ clean > 0 /\ noise = 0 => answered]_vars

\* However the line damaged earlier queries, the slave answers again and again.
SlaveAnswersAgain == []<>answered
=============================================================================
