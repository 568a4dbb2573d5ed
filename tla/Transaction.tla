----------------------------- MODULE Transaction -----------------------------
(***************************************************************************)
(* A master that polls one slave, and everything between them: the calls   *)
(* modbus_read_xxx / modbus_write_xxx of the master (start_request,        *)
(* wait_confirm, handle_confirm), the error recovery the master loops of   *)
(* the tests run before each call, the slave loop (wait, handle), and the  *)
(* line.  Frames are whole here: FrameReceiver shows that a frame is taken *)
(* off the port exactly.                                                   *)
(*                                                                         *)
(* An answer passes three places on its way: it travels (wire), it is      *)
(* received by the machine (port), and it is where port->read finds it     *)
(* (ring).                                                                 *)
(*   "rtu"  the interrupt handler of the serial device puts bytes where    *)
(*          port->read finds them; the line may lose a frame;              *)
(*   "tcp"  the network stack keeps bytes (port) until port->wait calls    *)
(*          recv and moves them to the ring buffer; nothing is lost.       *)
(* In both cases flush empties what port->read would find, and only that.  *)
(***************************************************************************)
EXTENDS Pdu

CONSTANTS
  Settings,     \* the ways master and slave may be joined, see below
  Requests,     \* what the master's application asks for
  Values        \* what a cell can hold

\* core    "rtu" or "tcp"
\* tids    transfer_id counts modulo tids (2^16 in the code)
\* late    bound: how often a timeout overtakes an answer that will come
\* lost    bound: how many frames the line loses
\* settles does the master pause until the line is quiet?
ASSUME SettingsAssumption ==
  Settings \subseteq [core : {"rtu", "tcp"}, tids : Nat \ {0}, late : Nat, lost : Nat,
                       settles : BOOLEAN]
ASSUME WidthAssumption == \A s \in Settings : s.tids <= 65536
\* An answer recognised by its identifier is not late for as many calls as there
\* are identifiers; one that is not recognised is not late for a call at all.
ASSUME LateAssumption ==
  \A s \in Settings : IF s.core = "tcp" THEN s.late < s.tids ELSE s.settles
ASSUME ValuesAssumption  == 0 \in Values /\ Values \subseteq Nat
\* Quantities are those a frame can spell; a write names the cells it brings.
ASSUME RequestsAssumption ==
  /\ Requests \subseteq [function : Reads \cup SingleWrites \cup MultipleWrites,
                         addr : UInt16, num : UInt16, data : Seq(Values)]
  /\ \A r \in Requests : r.function \notin Reads => r.num = Len(r.data)
  /\ \A r \in Requests : r.function \in SingleWrites => r.num = 1

VARIABLES
  setting,      \* one of Settings, once and for all
  tables,       \* the slave's vio tables
  transfer_id,  \* smb->transfer_id of the master
  mpc,          \* the master: "pause", "recovered" or "waiting"
  request,      \* the request in its write_buff
  result,       \* how its last call ended
  queries,      \* requests the slave has not handled
  wire, port, ring,
  late, lost    \* how often each bad thing has happened so far

vars == <<setting, tables, transfer_id, mpc, request, result, queries, wire, port, ring,
          late, lost>>

Core        == setting.core
TidMod      == setting.tids
MaxLate     == setting.late
MaxLost     == setting.lost
LineSettles == setting.settles

frames == <<queries, wire, port, ring>>

NoRequest == [function |-> 0, addr |-> 0, num |-> 0, data |-> <<>>]

\* A call has not ended: what it reports should it end without an answer.
Without(ret) == [ret |-> ret, data |-> NothingRead, current |-> FALSE, code |-> 0]
NoResult     == Without(MODBUS_FAIL)

Init ==
  /\ setting \in Settings
  /\ tables = [t \in TableNames |-> [c \in 0 .. Cells - 1 |-> 0]]
  /\ transfer_id = 0 /\ mpc = "pause" /\ request = NoRequest
  /\ result = NoResult
  /\ queries = <<>> /\ wire = <<>> /\ port = <<>> /\ ring = <<>>
  /\ late = 0 /\ lost = 0

\* The frames of the calls made so far are not those of the next call.
Older(s) == [i \in DOMAIN s |-> [s[i] EXCEPT !.current = FALSE]]

-----------------------------------------------------------------------------
(***************************************************************************)
(* The master.                                                             *)
(***************************************************************************)

\* Mutant: modbus_error_recovery leaves the port as it is.
RecoverNothing ==
  /\ mpc = "pause"
  /\ LineSettles => queries = <<>> /\ wire = <<>>
  /\ mpc' = "recovered"
  /\ UNCHANGED <<setting, tables, transfer_id, request, result, queries, wire, port, ring, late, lost>>

\* The pause between two calls, then modbus_error_recovery: port->flush.
Recover ==
  /\ mpc = "pause"
  /\ LineSettles => queries = <<>> /\ wire = <<>>
  /\ mpc' = "recovered"
  /\ ring' = <<>>
  /\ UNCHANGED <<setting, tables, transfer_id, request, result, queries, wire, port, late, lost>>

\* modbus_start_request refuses a quantity no frame can hold.
Reject ==
  /\ mpc = "recovered"
  /\ \E r \in Requests : ~ modbus_check_addr_num(r.function, r.num)
  /\ mpc' = "pause"
  /\ result' = Without(MODBUS_FAIL_REQUEST)
  /\ UNCHANGED <<setting, tables, transfer_id, request, frames, late, lost>>

\* Mutant: every request carries the same transfer_id.
StartRequestSameId ==
  /\ mpc = "recovered"
  /\ \E r \in Requests :
       /\ modbus_check_addr_num(r.function, r.num)
       /\ request' = r
       /\ queries' = Append(Older(queries), [request |-> r, tid |-> transfer_id, current |-> TRUE])
  /\ wire' = Older(wire) /\ port' = Older(port) /\ ring' = Older(ring)
  /\ mpc' = "waiting" /\ result' = NoResult
  /\ UNCHANGED <<setting, tables, transfer_id, late, lost>>

\* Mutant: transfer_id is an int, not a uint16_t.
StartRequestWideId ==
  /\ mpc = "recovered"
  /\ transfer_id' = IF Core = "tcp" THEN transfer_id + 1 ELSE transfer_id
  /\ \E r \in Requests :
       /\ modbus_check_addr_num(r.function, r.num)
       /\ request' = r
       /\ queries' = Append(Older(queries), [request |-> r, tid |-> transfer_id', current |-> TRUE])
  /\ wire' = Older(wire) /\ port' = Older(port) /\ ring' = Older(ring)
  /\ mpc' = "waiting" /\ result' = NoResult
  /\ UNCHANGED <<setting, tables, late, lost>>

\* modbus_start_request builds the frame and sends it.
StartRequest ==
  /\ mpc = "recovered"
  /\ transfer_id' = IF Core = "tcp" THEN (transfer_id + 1) % TidMod ELSE transfer_id
  /\ \E r \in Requests :
       /\ modbus_check_addr_num(r.function, r.num)
       /\ request' = r
       /\ queries' = Append(Older(queries), [request |-> r, tid |-> transfer_id', current |-> TRUE])
  /\ wire' = Older(wire) /\ port' = Older(port) /\ ring' = Older(ring)
  /\ mpc' = "waiting" /\ result' = NoResult
  /\ UNCHANGED <<setting, tables, late, lost>>

\* port->wait of the socket: recv takes all there is and fills the ring buffer.
Receive ==
  /\ Core = "tcp" /\ mpc = "waiting"
  /\ ring = <<>> /\ port # <<>>
  /\ ring' = port
  /\ port' = <<>>
  /\ UNCHANGED <<setting, tables, transfer_id, mpc, request, result, queries, wire, late, lost>>

\* wait_confirm has a frame: check_wait_response, then handle_confirm.  An RTU
\* answer is recognised by nothing but its slave address.
Confirm ==
  /\ mpc = "waiting" /\ ring # <<>>
  /\ LET a == Head(ring).answer
         r == IF Core = "tcp" /\ Head(ring).tid # transfer_id
                THEN [ret |-> MODBUS_FAIL_CHECK, data |-> NothingRead]
                ELSE handle_confirm(request, a)
     IN  result' = [ret |-> r.ret, data |-> r.data, current |-> Head(ring).current, code |-> a.code]
  /\ ring' = Tail(ring)
  /\ mpc' = "pause"
  /\ UNCHANGED <<setting, tables, transfer_id, request, queries, wire, port, late, lost>>

\* port->wait found nothing in time, because nothing is coming or it is late.
Outstanding == queries # <<>> \/ wire # <<>>

Timeout ==
  /\ mpc = "waiting" /\ ring = <<>> /\ port = <<>>
  /\ Outstanding => late < MaxLate
  /\ late' = IF Outstanding THEN late + 1 ELSE late
  /\ result' = Without(MODBUS_TIMEOUT)
  /\ mpc' = "pause"
  /\ UNCHANGED <<setting, tables, transfer_id, request, frames, lost>>

-----------------------------------------------------------------------------
(***************************************************************************)
(* The slave and the line.                                                 *)
(***************************************************************************)

\* One turn of the slave loop: wait for a request, handle it, answer with the
\* identifier it came with.
Serve ==
  /\ queries # <<>>
  /\ LET q == Head(queries)
     IN  /\ \E refusal \in RefusalCodes :
              wire' = Append(wire, [answer  |-> slave_answer(q.request, tables, refusal),
                                    tid     |-> q.tid,
                                    current |-> q.current])
         /\ tables' = slave_effect(q.request, tables)
  /\ queries' = Tail(queries)
  /\ UNCHANGED <<setting, transfer_id, mpc, request, result, port, ring, late, lost>>

Arrive ==
  /\ wire # <<>>
  /\ wire' = Tail(wire)
  /\ IF Core = "tcp" THEN port' = Append(port, Head(wire)) /\ UNCHANGED ring
                     ELSE ring' = Append(ring, Head(wire)) /\ UNCHANGED port
  /\ UNCHANGED <<setting, tables, transfer_id, mpc, request, result, queries, late, lost>>

\* Noise on a serial line: the receiver's CRC check drops the frame.
Lose ==
  /\ Core = "rtu" /\ lost < MaxLost
  /\ \/ queries # <<>> /\ queries' = Tail(queries) /\ UNCHANGED wire
     \/ wire # <<>> /\ wire' = Tail(wire) /\ UNCHANGED queries
  /\ lost' = lost + 1
  /\ UNCHANGED <<setting, tables, transfer_id, mpc, request, result, port, ring, late>>

Master == Recover \/ Reject \/ StartRequest \/ Receive \/ Confirm \/ Timeout
Next   == Master \/ Serve \/ Arrive \/ Lose

(***************************************************************************)
(* The master loop and the slave loop of the tests never stop, and a frame *)
(* on its way arrives or is lost.                                          *)
(***************************************************************************)
Fairness == WF_vars(Master) /\ WF_vars(Serve) /\ WF_vars(Arrive)

Spec == Init /\ [][Next]_vars /\ Fairness
-----------------------------------------------------------------------------
(***************************************************************************)
(* Properties.                                                             *)
(***************************************************************************)
Answer == [function : Byte, num : UInt16, code : Byte, data : Seq(Values)]
IsAnswer(f) == f.answer \in Answer /\ f.tid \in 0 .. TidMod - 1 /\ f.current \in BOOLEAN

\* The type invariant; a return code of a call is never positive.
TypeOK ==
  /\ setting \in Settings
  /\ tables \in [TableNames -> [0 .. Cells - 1 -> Values]]
  /\ transfer_id \in 0 .. TidMod - 1
  /\ mpc \in {"pause", "recovered", "waiting"}
  /\ request \in Requests \cup {NoRequest}
  /\ result.ret \in -255 .. 0
  /\ \A i \in DOMAIN queries : queries[i].request \in Requests /\ queries[i].tid \in 0 .. TidMod - 1
  /\ \A s \in {wire, port, ring} : \A i \in DOMAIN s : IsAnswer(s[i])
  /\ late \in 0 .. MaxLate /\ lost \in 0 .. MaxLost

\* A call that reports success, or an exception of the slave, reports the
\* answer to its own request, never the late answer to an earlier one: over TCP
\* by the transfer_id, on a serial line because the flush before a call drops
\* what the pause before it let in.
AnswerBelongsToRequest ==
  mpc = "pause" /\ result.ret \in {MODBUS_OK} \cup -255 .. MODBUS_EXCEPTION => result.current

\* Whatever has been lost or late, a master on a serial line sooner or later gets
\* the answer to a request of its own again (or has made one that cannot be sent).
AnsweredAgain ==
  Core = "rtu" =>
    []<>(mpc = "pause" /\ (result.current \/ result.ret = MODBUS_FAIL_REQUEST))

\* The same of a master on TCP.
AnsweredAgainTcp ==
  Core = "tcp" =>
    []<>(mpc = "pause" /\ (result.current \/ result.ret = MODBUS_FAIL_REQUEST))

\* A read that reports MODBUS_OK has put the cells it was asked for in
\* read_data.
ReadOkDelivers ==
  mpc = "pause" /\ result.ret = MODBUS_OK /\ request.function \in Reads =>
    /\ Len(result.data) = request.num
    /\ \A i \in 1 .. request.num : result.data[i] # Padding

\* The return value for an exception is the exception code of the slave, as
\* enum returnCode spells it.
ExceptionCodeReported ==
  mpc = "pause" /\ result.ret <= MODBUS_EXCEPTION => result.ret % 256 = result.code

(***************************************************************************)
(* The refinement.  A call succeeds when the range it names lies inside    *)
(* its table and is refused when it starts outside; nothing is promised of *)
(* the data of a read that straddles the end of the table, and a write     *)
(* that does writes the cells there are.                                   *)
(***************************************************************************)
Inside(r)    == r.addr + r.num <= Cells
Outside(r)   == r.addr >= Cells
Straddles(r) == ~ Inside(r) /\ ~ Outside(r)
CellsNamed(r) == r.addr .. r.addr + r.num - 1

Failed  == [ok |-> FALSE, data |-> <<>>]
Nothing == [ok |-> FALSE, data |-> <<"nothing">>]

\* A single write names one cell, so it never straddles.
Promise(r, t) ==
  IF Outside(r) THEN Failed
  ELSE [ok   |-> TRUE,
        data |-> IF r.function \in Reads /\ Inside(r)
                   THEN [i \in 1 .. r.num |-> t[TableOf(r.function)][r.addr + i - 1]]
                   ELSE <<>>]

Change(r, t) ==
  IF r.function \in Reads \/ Outside(r) THEN t
  ELSE [t EXCEPT ![TableOf(r.function)] =
          [c \in DOMAIN @ |-> IF c \in CellsNamed(r) THEN r.data[c - r.addr + 1] ELSE @[c]]]

\* What the caller makes of how a call for r ended.
Seen(r, ret, data) ==
  IF ret # MODBUS_OK THEN Failed
  ELSE [ok |-> TRUE, data |-> IF Straddles(r) THEN <<>> ELSE data]

CurrentAnswers ==
  UNION {{s[i].answer : i \in {j \in DOMAIN s : s[j].current}} : s \in {wire, port, ring}}

CurrentReply ==
  IF mpc = "waiting" /\ CurrentAnswers # {}
    THEN LET c == handle_confirm(request, CHOOSE a \in CurrentAnswers : TRUE)
         IN  Seen(request, c.ret, c.data)
    ELSE Nothing

Remote == INSTANCE RemoteTable WITH
  Calls <- Requests, CellsOfTable <- Cells, Reply <- Promise, Effect <- Change,
  pending <- [i \in DOMAIN queries |-> [call |-> queries[i].request,
                                        awaited |-> queries[i].current]],
  call    <- IF mpc = "waiting" THEN request ELSE Nothing,
  reply   <- CurrentReply,
  result  <- Seen(request, result.ret, result.data)

\* Master, slave and line together are a table read and written from afar: a
\* call that succeeds took effect exactly once while it was made and returns
\* what the slave held then, a call that failed may still take effect, but
\* never after a later one.
RemoteTableSpec == Remote!Spec
=============================================================================
