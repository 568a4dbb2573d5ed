# A TLA+ model of small_modbus

small_modbus is a Modbus library in C for small devices: a master that reads
and writes tables of coils and registers in a slave, over a serial line (RTU)
or over TCP, on RT-Thread, Windows and Linux. This directory holds TLA+
specifications translated from its source, the TLC configurations that check
them on small instances, and proofs that TLAPS checks for every value of the
constants. `PROJECT.json` lists the components, the runs, the source lines of
every definition, the mutants that show each property can fail, the findings
and the hazards.

    tlc -config MCFrameReceiver.cfg MCFrameReceiver     # one of the runs
    tlapm FrameReceiver_proofs.tla                      # one of the proofs

## The system

| component | source | state | operations |
|---|---|---|---|
| master calls | `src/small_modbus_base.c` 261-860 | `write_buff`, `read_buff`, `transfer_id` | `modbus_read_*`, `modbus_write_*`: `start_request`, `wait_confirm`, `handle_confirm`; `error_recovery` |
| slave handler | `src/small_modbus_base.c` 882-1290 | the same, and the tables behind the callback | `slave_wait`, `slave_handle`, `slave_wait_handle` |
| receive loops | `modbus_want_read` and the two waits | step, bytes stored, bytes wanted, wait time | read, wait, next part of the frame, check |
| RTU core | `src/small_modbus_rtu.c` | none | headers of one byte, CRC-16 |
| TCP core | `src/small_modbus_tcp.c` | `transfer_id` | headers of seven bytes, length, identifier |
| utilities | `src/small_modbus_utils.c` | none | quantity check, CRC-16, packing of coils and registers |
| RT-Thread serial port | `src/small_modbus_port_rtthread.c` 85-219 | device FIFO, `rx_sem`, `rx_size` | interrupt, read, wait, write, flush |
| RT-Thread socket port | the same, 300-661 | `socket_fd`, ring buffer, the stack's buffer | wait (recv), read, flush, connect, listen, accept, status, disconnect |
| win32 port | `src/small_modbus_port_win32.c` | mirrored ring buffer, COM handle and its time limits | put, get, reset, open, read, wait, flush |
| linux port | `src/small_modbus_port_linux.c` | none | debug output only |
| virtual IO | `test/board_virtualIO.c` | four tables | clamped reads and writes, change notification |
| slave loops | `test/test_modbus_*_slave.c` | sockets of the clients | wait and handle; recovery; select over clients |
| master loops | `test/test_modbus_*_matser.c` | counters, semaphore | pause, recovery, call; reconnect; send changes on |

(Paths are relative to `src/`.)

A context (`small_modbus_t`) joins a core (RTU or TCP) and a port. A call of
the master builds a frame, writes it to the port and waits in
`modbus_wait_confirm`; the slave waits in `modbus_slave_wait` and answers
through a callback that reads or writes its tables. Both waits are loops over
`modbus_want_read`, which asks the port for the bytes it holds and sleeps in
`port->wait` when they are too few. The library has no locks and no queue of
its own: what runs concurrently is the two machines, the line between them,
on each machine the interrupt handler or network stack that fills the port
while a thread empties it, and, in the test programs, several threads over one
set of tables.

What is hard about it:

- frames are cut out of a byte stream by the function code and byte count in
  the stream itself, which may be noise, a cut frame or the tail of another;
- the interrupt handler shares a FIFO, a semaphore and a size with the thread;
- a timeout may overtake an answer, which then reaches a later call: TCP has an
  identifier against that, RTU has only the flush before each call;
- a write takes effect before its answer is sent, so a failed call may have
  succeeded;
- ranges may straddle the end of the slave's table, and each side clamps,
  checks and reports that in its own way;
- sockets break, are closed and are reused by a descriptor kept in the context;
- one context, with one socket and one ring buffer, serves all clients of the
  TCP slave;
- a serial slave that is out of step recovers by a flush and may stay out of
  step;
- threads change bits of one byte, and a semaphore stands for changes that were
  made before or after the table was read.

What makes each part correct: the receive loops stay inside `read_buff`, take
exactly one frame, use no byte of an earlier one, and return; the ports lose no
byte they were given, never sleep over bytes, never invent an error, and flush
what they say they do; a call that succeeds has been answered by the slave for
this very request and returns what the tables held; after trouble the master is
answered again, and the slave in step again; a client gets answers to its own
requests; a descriptor that is open is known; a change of a table that is to be
sent on is not forgotten; and both ends read out of the bytes what the other
put in.

## The modules

| module | models |
|---|---|
| `ModbusBase` | function codes, return codes, the two cores, the quantity check, data lengths, the lengths the receive loops read |
| `FrameReceiver`, `FrameReceiver_proofs` | the receive loops: a master's and a slave's |
| `Pdu` | the slave handler, the callback and the vio tables, and `modbus_handle_confirm`, as operators on requests and answers |
| `RemoteTable` | abstract: a table read and written from afar |
| `Transaction`, `Transaction_proofs` | master, slave, port and line together; implements `RemoteTable` |
| `RtDevicePort`, `RtDevicePort_proofs` | interrupt handler, reader and flush of the serial port |
| `BoundedFifo` | abstract: a bounded queue |
| `RingBuffer`, `RingBuffer_proofs` | the mirrored ring of the win32 port; implements `BoundedFifo` |
| `RingPort`, `RingPort_proofs` | the ports that receive into a ring: sockets, and the serial port of Windows |
| `TcpServer`, `TcpServer_proofs` | the select loop of the TCP slave over its clients |
| `TcpMaster` | the connection of the TCP master; its theorems are at the end of `TcpServer_proofs` |
| `RtuResync` | a serial slave and its master on a line that loses and adds bytes; its theorem is at the end of `FrameReceiver_proofs` |
| `Gateway`, `Gateway_proofs` | slave threads and a master's thread over one table of coils |
| `Crc16` | the checksum of a serial frame, bit by bit |
| `Codec` | the bytes of a frame: packing, headers, requests and answers |
| `Exchange`, `Exchange_proofs` | one exchange in bytes, held against `Pdu` |
| `MC*` | the instances TLC checks |

How they build on each other: `Transaction` and `Codec` extend `Pdu`, which
extends `ModbusBase`; `Codec` extends `Crc16` too, and `Exchange` extends `Codec`. `Transaction` takes frames whole,
which `FrameReceiver` justifies (`FrameExact`), records for bytes, which
`Exchange` justifies (`QueryUnderstood`, `AnswerUnderstood`), and a port whose
wait ends when there is something to read, which `RtDevicePort` and `RingPort`
show of the ports. `RingPort` takes its ring for a bounded queue, which
`RingBuffer` justifies. `RtuResync` uses the read lengths of `ModbusBase` that
`FrameReceiver` uses. Definitions written as *Mutant* are the bugs the
properties are tried against; they are used by nothing else.

### FrameReceiver

One context, one call at a time. `step` is `read_step` (slave) or
`read_position` (master), `read_want` and `read_length` are the locals of these
names, `got` is `read_len` of `modbus_want_read`. `pc` names the place in the
loop: `read` (about to call `modbus_read`), `wait` (in `modbus_wait`), `step`
(the read is complete; the switch over the step comes next) and `check` (the
core's check comes next). While a read is under way `read_want` keeps its
size, as it does in the code, where the subtraction follows the read.

- `ByteArrives` is the line. `ReadPort`, `WaitData`, `WaitSpurious`,
  `WaitTimeout`, `WaitError` are the calls of the port.
- `SlaveHead`, `SlaveTail`, `ConfirmHead`, `ConfirmTail`, `LastRead` are the
  cases of the two switches, the fall-through of the slave's case 0 included.
- Function code and byte count are *any* member of `Functions` and `Counts`:
  nothing is assumed of the sender. A byte's value is chosen when the loop looks
  at it. Where the choice falls is immaterial as long as the byte has arrived,
  and that it has is a property (`CountIsFresh`).
- `surplus` counts wake-ups for bytes already read, which the semaphore of the
  serial device keeps, so a wait may end with nothing to read.
- `forever` says that a wait has no end: `MODBUS_WAIT_FOREVER` on the serial
  device. The socket port turns the negative time into 10 ms, which is the case
  `forever = FALSE`.

### Pdu, Transaction, RemoteTable

A request is a record of function, address, quantity and data, an answer one of
function, quantity, data and exception code. The bytes of a frame are abstracted
to cells; the *lengths* in bytes are kept, because `modbus_handle_confirm`
compares them: an answer of three coils is as long as one of eight.
`vio_read` and `vio_write` clamp a range to the table as the vio functions do,
and `CallbackResult` is what the callback returns: the number of cells served,
or what a callback returns when it serves none (0 in the tests, an exception if
the application likes). Addresses count from the base of their table
(0, 10000, 30000, 40000 in the callbacks).

`Transaction` has three places for an answer: `wire` (travelling), `port` (in
the network stack) and `ring` (where `port->read` finds it). On a serial line
the interrupt handler puts bytes where `port->read` finds them, so there `port`
stays empty. `Recover` is the pause and the `modbus_error_recovery` that every
master loop of the tests runs before each call; `StartRequest`, `Receive`,
`Confirm` and `Timeout` are the steps of a call; `Reject` is the refusal of an
impossible quantity; `Serve` is one turn of the slave loop; `Lose` is noise,
which the CRC check turns into the loss of the frame. `current` marks what
belongs to the call under way: the code does not have it, and no action's guard
reads it; the properties do. `setting`, chosen once at the start, is the core
and what goes wrong, so that one run looks at both cores.

`RemoteTable` says what a caller may rely on: a call that succeeds took effect
once, between its start and its end, and returned what the tables held then; a
call that fails may still take effect later, but never after a later one.
`Transaction!Remote` maps to it: a query the slave has not handled is a pending
call, an answer on its way is the reply of its call, as `handle_confirm` will
judge it. A range inside the table succeeds, one that begins outside fails. One
that straddles the end succeeds too; nothing is promised then of the data of a
read, and a write writes the cells there are. That is weaker than a user would
like; `ReadOkDelivers` states the stronger reading, and fails (finding 3).

### RtDevicePort

`Interrupt` puts a burst into the FIFO, then runs the handler
`_modbus_rtdevice_rx_indicate`: note the size, release the semaphore. The thread
is in `modbus_want_read` (`read`, `wait`, `woken`) or in a flush (`flush`,
`reset`); reads take a byte at a time, so an interrupt comes between any two
bytes, between a read that found nothing and the wait, and between the read of
a flush and the reset of the semaphore. The device and the semaphore belong to
RT-Thread; they are modelled from how the port uses them. `old` counts the bytes
in the device that are older than the flush and is read by no guard.

### RingBuffer, BoundedFifo

`Put`, `Get` and `Reset` are the three functions of `win32device_ringbuffer`
with the pool, the indices and their mirror bits as the code has them;
`returned` and `copied` are what a caller gets. `Contents` reads the pool from
the read index on, `data_len` bytes of it, and is the queue of `BoundedFifo`: a
put appends what there is room for, a get returns the oldest bytes.
RT-Thread's own ring buffer, which the socket port uses, is the same algorithm,
and is not part of the repository.

### RingPort

Bytes are numbered as they arrive: `arrived`, `received` and `taken` are the
numbers of the last byte in the system, handed over by it, and read or flushed;
`ring` holds numbers. `WantRead`, `Read` and `Wait` are `modbus_want_read` and
the first half of `port->wait`, which sets the time limits; `Receive`, `TimedOut`
and `Broken` are its second half. `limited` is the state of the COM handle
between calls: `MODBUS_WAIT_NO` leaves the limits of an earlier call. `port` is
chosen once at the start: its type, how much it asks the system for (256 bytes;
on Windows 512 into a ring of 256), how much may be unread, and the time limits
its callers use. `FitAssumption` says that one of the two fits the ring.

### TcpServer

The thread of `test_modbus_tcp_slave.c`: `Listen`, `Select`, `Accept` or
`TurnAway`, then the slots one by one, where `Serve` sets `socket_fd` and calls
`modbus_slave_wait_handle` (`ReadPart`, `Receive`, `Handle`, `Reject`, `HangUp`).
`ListenFails`, `NoListener`, `SelectFails` and `AcceptFails` are the error paths, the
listening socket that is returned closed, as -1 or as an error code included;
`TearDown` is the cleanup after a failed select. `peer` says what a descriptor number stands for; the lowest free
number is given out next, so that stale numbers hit. Requests are tagged with
their client, and `answers` records whose request each answer a client got
belongs to. A request arrives whole or in two parts, a head shorter than the
first read and a tail (`Split`); a client may send again before it is answered
(`Pipelined`).

### TcpMaster

The loop of `test_modbus_tcp_matser.c`: connect, calls while the status is
`MODBUS_OK`, disconnect. `Connect`, `Connected` and `Refused` are
`modbus_tcp_connect` over the addresses of a name, `LookupFails` and `NoSocket` the
failures of `getaddrinfo` and `socket` there. The test's slave has one address; a
refusal of the second of two is the same to the code. `StatusOk`, `StatusError`,
`Call` and `CallBroken` are status and a call on whatever `socket_fd` names;
`Break`, `OtherOpens` and `OtherCloses` are the peer and the other threads.

### RtuResync

The three reads of `modbus_slave_wait` on the real bytes of one read query,
repeated for ever: a slave out of step takes one of them for a function code or
a byte count. `SendByte`, `LoseByte` and `AddByte` are the line, `NextQuery` is
the master after its wait and pause, `Recover` the `modbus_error_recovery` of the
slave loop. The wait for a header has no end, the waits for the rest do
(`Ends`). `prompt` says that the slave's thread is done before the next byte
arrives, which a byte time of a millisecond suggests; without it the slave may
be as slow as it likes.

### Gateway

`vio_write_hold_coils` in several threads and `master_sem_poll` in another.
`Compare`, `Load` and `Store` are the loop over the coils of a request, a
byte being read and written back as `dio_set_val` does; `Finish` notifies if
anything changed. `Take`, `Read`, `Send` and `SendFails` are the master: take the
semaphore, read the coils one by one, write them to the remote slave. `failed`
remembers whether the last write failed and is read by no action.

### Codec, Exchange

`Crc16` computes `modbus_crc16` as the code does, eight shifts to a byte; an
exclusive or is a sum of bits modulo 2, so that the prover sees only arithmetic.
`Codec` has the frames as sequences of bytes: `dio_get_val` and `dio_set_val`, `modbus_reg_h2m` and `modbus_reg_m2h`,
header, checksum and length field (`check_send_pre`), the checks of both cores,
`start_request`, what the slave reads out (`query`), its `response` and the
master's `confirm`. `Exchange` makes a call, lets a serial line turn one bit over,
lets the slave handle the frame, the line again, and the master judge the
answer. `expected` is what `Pdu` says of the same call as records. The
callback sets coils in a buffer that holds an earlier frame: the bits behind
the last coil are `Stale`.

## What is checked

| run | question | answer |
|---|---|---|
| `frame_receiver` | do the receive loops survive any byte stream? | `BufferBound`, `FrameExact`, `CountIsFresh`, `LoopInv`, `MasterReturns`, `SlaveReturns` hold (144,000 states) |
| `transaction` | do late and lost frames do harm, over TCP and on a serial line? | `AnswerBelongsToRequest`, `RemoteTableSpec`, and on the serial line `AnsweredAgain` hold (783,000 states) |
| `transaction_lag` | is a TCP master answered again after one late answer? | no (`AnsweredAgainTcp`): finding 1 |
| `rt_device_port` | does the serial port survive its interrupt handler? | `NoLostWakeup`, `NoFalseError`, `FlushDropsOld`, `WaitEnds` hold (1,800 states) |
| `ring_buffer` | is the mirrored ring a bounded queue? | `MirrorInv`, `ImplementsFifo` hold (768 states) |
| `ring_port` | do the ring ports lose or sleep over bytes? | `NothingLost`, `WaitHears` hold for sockets, and for Windows under a master (5,730 states) |
| `tcp_server` | does one context serve several clients rightly? | `AnswerReachesAsker`, `DescriptorsAccounted`, `NeverWaitsForOne`, `WholeRequestAnswered`, `EveryClientTaken` hold (710,000 states) |
| `tcp_master` | does a master come back after its connection broke? | `OnlyOwnSocket`, `NoDescriptorLeak` hold; it does (`Reconnects`) unless `modbus_tcp_connect` itself fails, which leaves it without a connection for good: finding 10 (1,756 states) |
| `rtu_resync` | does a serial slave get back into step? | `DamageCostsOneQuery` after lost bytes (of a query that is gentle, finding 14); `SlaveAnswersAgain` also after added ones, for a slave whose address is no function code (220,000 states) |
| `gateway` | is every change of a coil sent on? | `ChangeIsPending`, `RemoteFollows` hold (1,155,000 states) |
| `exchange` | do the bytes say what the records say? | `QueryUnderstood`, `AnswerUnderstood`, `DamageIsNoticed`, and each sample frame of `modbus.md` by itself (`SamplesMatch`; finding 15 on a pair of them) hold (141,000 states) |
| `exchange_coil` | does `modbus_write_bit` set a coil? | no (`CoilIsWritten`): finding 2 |

The runs also check a `TypeOK`, except those of `TcpMaster` and `RtuResync`, where it
documents the variables only, and of `Exchange`, which has none.

Bounds, and why they are enough:

- `frame_receiver`: one function code of each class the loops tell apart (with
  0, which is no function, and 131, an exception), and the byte counts around
  which each of the length checks changes its mind, for both cores. Beyond
  that the loops compare nothing. `RxCap = 3` unread bytes lets reads be complete,
  short and empty; `MaxSurplus = 2` lets a wait be woken in vain twice in a row.
- `transaction`: tables of two cells are the smallest in which a range can lie
  inside, straddle the end, or begin outside. `MCRequests` has a read and a
  write of each kind, and a quantity no frame can hold. Over TCP three
  identifiers and two late answers bring answers of the last two calls into a
  later one and let the identifier wrap; with as many late answers as there are
  identifiers an old answer *would* be taken for a new one, in the code after
  65536 calls. On the serial line one answer is late and two frames are lost.
- `rt_device_port`: a FIFO of four bytes, bursts of two and a semaphore that
  saturates at six make overflow, partial reads and surplus wake-ups all happen.
- `ring_buffer`: a pool of three bytes, puts of up to five and gets of up to
  four end before, at and behind the end of the pool, and overfill it.
- `ring_port`: a ring of three and twelve bytes in all fill it four times; the
  socket asks for three with five unread, Windows for six with three unread.
- `tcp_server`: two slots and three clients turn one away and use slots and
  numbers again; four numbers are all the thread can have open; two calls fail;
  one client splits its request. One request per client suffices for the mix-ups
  looked for, which take another client.
- `tcp_master`: two addresses, four failures of any kind (lookup, socket, refusal,
  break), four numbers shared with other threads.
- `rtu_resync`: two lost bytes, or two added and one lost, anywhere in any of the
  queries; the damage may come after any number of good ones. `Patience` is the
  master's 130 ms in waits of 10 ms a byte. Added bytes are 0, an address less
  one (16) and 255, or 0.
- `gateway`: two slave threads, two coils in a byte, three requests and one failed
  write; the semaphore saturates at two.
- `exchange`: every read function within, to and past the end of tables of ten
  cells (two bytes of coils, six bits of the second unused), writes of one, of a
  byte and of more cells, two contents of the tables, `transfer_id` where it
  carries and wraps; any one bit of the query or the answer. One exchange per
  behaviour: nothing but `transfer_id` and the tables outlives an exchange, and
  these start anywhere.

`CHECK_DEADLOCK` is off in three runs, in which the system may really stop: in
`exchange` (and `exchange_coil`) after the one exchange, in `gateway` when all
requests have come and been sent on, in `tcp_server` when every client has
been served and has left. Everywhere else a master loop, a slave loop or a line
never stops.

Fairness:

- `FrameReceiver`: the thread goes on when it can, and a wait with an end ends
  or finds data (`port->wait` has a timeout). Nothing is assumed of the line or
  of the application.
- `Transaction`: the master loop goes on (a call ends by answer or timeout), the
  slave loop serves what it has, and a frame on its way arrives or is lost.
- `RtDevicePort`, `RingPort`: the thread goes on when it can. A wait without a
  wake-up or a limit may last for ever, and bytes need not come.
- `TcpServer`: the one thread goes on, and a client that has sent the head of a
  request sends the tail. Clients need not connect, send or close.
- `TcpMaster`: the loop goes on, and what need not fail succeeds in the end; the
  failures are `MaxFailures` at most.
- `RtuResync`: the master sends its query over and over, the slave goes on; the
  line need not do damage.
- `Gateway`: each thread goes on when it can; requests need not come and writes
  need not fail.

Assumptions of the runs that are not in the code:

- `settles` in the serial setting of `transaction`: a serial answer carries
  nothing that says which request it answers, so an answer still travelling when
  the next call begins would be taken for that call's. The loops of the tests
  pause 10 to 30 ms before each flush; the setting assumes that the pause
  outlasts whatever is still travelling (at most one frame, after a timeout of
  100 ms). The TCP setting does not assume it. `transaction_lag` does, to show
  that the TCP master lags behind *even* with a line that settles.
- `prompt` in `rtu_resync`, where bytes are added.
- A little-endian machine (`Codec`): `modbus_reg_h2m` is right only there.
- One frame at a time on a serial line (`FitAssumption`, for Windows).

## What is found

Findings 1 and 2 are runs of their own. The others are shown by the
configurations named, which are kept beside the runs:
`tlc -config MCTcpServerSlow.cfg MCTcpServer`, for example, ends with the
behaviour described.

1. `modbus_error_recovery` of a socket does not drop what the network stack
   holds, so one late answer puts every later call one answer behind
   (`small_modbus_port_rtthread.c:352`; `transaction_lag`).
2. `modbus_write_bit` passes the address of an int and `modbus_start_request` looks
   at one byte there, which is 0 for 0xFF00 on a little-endian machine: a coil can
   be cleared and never set, and the call returns `MODBUS_OK` (`small_modbus_base.c:719`;
   `exchange_coil`).
3. `modbus_handle_confirm` returns `MODBUS_OK` for an answer that is shorter or
   longer than asked for, having copied nothing (`small_modbus_base.c:499`;
   `ReadOkDelivers`, `MCTransactionShort.cfg`).
4. It returns the negated function code of an exception answer where the return
   codes of `small_modbus_base.h` expect the exception code
   (`small_modbus_base.c:468`; `ExceptionCodeReported`, `MCTransactionCode.cfg`).
5. The RTU core accepts frames of 260 bytes where `small_modbus_base.h` says 256
   (`small_modbus_rtu.c:78`; `RtuFrameLimit`, `MCFrameReceiverLimit.cfg`).
6. A quantity is an int in every call and a `uint16_t` in its check: 65537 is
   accepted, and sent as 1 (`small_modbus_utils.c:72`; `QuantityAllowed`,
   `MCExchangeWide.cfg`).
7. On Windows a wait for ever ends only when 512 bytes have come, so a slave does
   not hear a query (`small_modbus_port_win32.c:529`; `WaitHears`,
   `MCRingPortForever.cfg`).
8. A TCP client that sends a second request before it has the first answer leaves
   it in the ring of the one context, where the next client's call takes it: that
   client is sent the answer (`test_modbus_tcp_slave.c:250`; `AnswerReachesAsker`,
   `MCTcpServerPipelined.cfg`).
9. A request that comes in two parts more than 10 ms apart is thrown away in two
   parts: `MODBUS_WAIT_FOREVER` is negative and becomes 10 ms on a socket
   (`small_modbus_port_rtthread.c:368`; `EveryRequestAnswered`, `MCTcpServerSlow.cfg`).
10. A TCP master that fails to connect does not try again: a slave that refuses on its
    last address leaves the closed number in `socket_fd`
    (`small_modbus_port_rtthread.c:548`), `getaddrinfo` or `socket` failing leaves -1,
    and `modbus_tcp_status` is `MODBUS_OK` for either (line 482). The loop then makes
    calls that time out for ever; after a refusal also on the socket of another
    thread that is given the number, which the loop closes when a call on it fails
    (`AlwaysReconnects`, `MCTcpMasterRefused.cfg`).
11. One added byte puts a serial slave at address 1 out of step for ever: the flush
    comes before the last byte of the query, which begins the next frame, and
    address 1 is a function code (`test_modbus_rtu_slave.c:140`; `SlaveAnswersAgain`,
    `MCRtuResyncShift.cfg`).
12. A change of a coil whose one write to the remote slave fails is not sent again
    before the next change (`test_modbus_rtu_matser.c:69`; `ChangesReachRemote`,
    `MCGatewayFailed.cfg`).
13. Two slave threads that write coils of one byte undo each other's acknowledged
    writes (`small_modbus_utils.c:49`; `WrittenBitKept`, `MCGatewayTorn.cfg`).
14. One lost byte costs a read at address 0x1200 two queries: 0x12, taken for a
    function code, has no fixed part in `modbus_slave_wait`, so the slave gives the
    frame up while the query still comes in, and its flush is over too early
    (`small_modbus_base.c:939`; `DamageCostsOneQuery`, `MCRtuResyncAddress.cfg`).
15. `modbus.md` prints a TCP query with identifier 0 and, as its answer, one with
    identifier 1 (lines 324 and 325). The slave sends back the identifier it was sent,
    as line 87 says and lines 326 to 329 show: one of the two is a misprint
    (`PrintedPairMatches`, once it is added to the invariants of `MCExchange.cfg`).
16. A TCP slave that gets no socket to listen with selects over -1, that is over
    nothing: `select` returns every second and does not fail, and the slave never
    listens (`small_modbus_port_rtthread.c:590`; `Listens`, once it is added to the properties
    of `MCTcpServer.cfg`).

## What is proved

Eight modules hold theorems, for all values of the constants under the named
`ASSUME`s of the modules: the codes and counts are bytes; sizes are positive, and
the ring is at most 32767 long, because its indices are 15 bits wide; a flush may
read as much as the device holds; one wait fits the ring; a quantity is what 16 bits
can spell and a write brings the cells it names; over TCP fewer answers are late in
all than there are identifiers, and a serial line settles before each call. TLC
evaluates these on every run. Some theorems have a hypothesis on a constant besides,
without which TLC finds their property violated:

- `AnswersReachAskers`: no client pipelines requests (`MCTcpServerPipelined.cfg`;
  finding 8).
- Those of `Exchange_proofs`: a read asks for a quantity that 16 bits can spell
  (`Spellable`; without it `MCExchangeWide.cfg`, finding 6). `RequestsUnderstood`
  also: a write of one coil does no more than clear it (`OnlyClears`), because a slave
  hears nothing else, as `SingleCoilIsLost` proves (finding 2).
- `LossCostsOneQuery`: a byte of the query that comes to be taken for a function code
  makes the slave wait (`Gentle`; without it `MCRtuResyncAddress.cfg`, finding 14),
  and two bytes of the query are never lost.

`TcpMaster` and `RtuResync` are proved about as instances, which do not bring the
assumptions of their modules with them: these appear as hypotheses.

`FrameReceiver_proofs`: `LoopInvariant`, `TypeCorrect`, `BufferIsRespected`,
`FramesAreExact`, `CountsAreFresh`. `BufferBound` is not inductive by itself:
whether a read fits depends on what the *earlier* parts of the frame were. The
inductive invariant is `TypeOK /\ LoopInv`, where `LoopInv` says for each of the
three reads what has been stored and what is wanted: nothing and a header
(`AtHead`), a header and the fixed part of this function (`AtFixedPart`), a
whole frame of this function within the ADU (`AtTail`). `HeadIInv` and
`ReadTailIInv` are the two steps that do the work; `RestIsLayout` relates the
lengths the code reads to the layout of the protocol. The other theorems on runs
follow from the invariant. `AcceptedFitsAdu` is about the calls instead: what
`modbus_check_addr_num` lets pass has a byte count that fits a byte and frames that
fit the ADU, on both cores. It is stated for quantities of 16 bits; of a wider `int`
the check sees the low half and `modbus_start_request` copies all (finding 6).

The end of `FrameReceiver_proofs` is about the same loop of a slave in `RtuResync`:
`LossCostsOneQuery` states `DamageCostsOneQuery` for every gentle query and every
line, as long as it adds no byte. `Resync` says where the slave is in the query under way, reading
it or done with it. While it reads (`Running`), what it has stored and what waits in
the device are together exactly what was sent, if nothing of this query was lost; if
something was, they are fewer bytes than were sent, and the second of them, taken for
a function code, asks for no fewer than the whole query has. So a damaged query ends
in a timeout with nothing left behind (`TimeoutKeeps`, `RecoverKeeps`), and a whole one
in an answer (`WholeReadKeeps`): both are `Done`, and the master sends the next query
only then (`DoneBeforeNext`), since its pause is longer than the wait it interrupts.
Nothing is said of added bytes, after which only liveness is claimed.

`RtDevicePort_proofs`: `TypeCorrect`, `NoSleepOverData`, `DeviceNeverFails`,
`RecoveryDropsOld`. `NoSleepOverData` needs that a flush may leave bytes without
wake-ups only while the thread is not waiting; `DeviceNeverFails` that a positive
semaphore implies that some interrupt has reported a size (`Reported`);
`RecoveryDropsOld` that the flush's remaining budget covers what is left of the old bytes
(`FlushReach`), which is where `FifoSize <= FlushMax` is used.

`RingBuffer_proofs`: `TypeCorrect`, `MirrorConsistent`, and `Implements`, the
refinement: `Spec => Fifo!Spec`. `MirrorInv` orders the indices according to the
mirrors, so that `data_len` lies between 0 and the size (`DataLenRange`); a put and
a get are shown to change it by what they return whether or not they reach the
end of the pool (`PutIndices`, `GetIndices`), and the cells of the bytes that stay
not to change (`PutCells`). `PutStep`, `GetStep` and `ResetStep` are then the
steps of the queue.

`RingPort_proofs`: `TypeCorrect`, `NoByteLost`. `NothingLost` is preserved by a
wait only because the ring is empty then and what the system has, or what it is
asked for, fits (`RoomToReceive`, `FitAssumption`).

`Gateway_proofs`: `TypeCorrect`, `NoChangeForgotten`. `ChangeIsPending` is
inductive together with the types: a store counts a change, so its thread will
notify; what takes the notification begins to read after it; and a read of a
coil behind which a store comes leaves that store's notification.

`TcpServer_proofs`: `TypeCorrect`, `NeverBlocks`, `DescriptorsKnown`,
`AnswersReachAskers`. The types are inductive only with what is true at each place of
the loop (`Places`): the call under way serves the slot it was made for. `Paired`
makes slots and open connections correspond one to one; it implies
`DescriptorsAccounted` through a bijection (`DescriptorsFact`). `Ready` carries what
select reported over the calls for the slots before: bytes that are there for one
client stay there while another is served, because only its own call takes them.
`AnswerReachesAsker` needs `OneRequest`: the parts of a client's one request are
nowhere but in its inbox and, while it is served, in ring and call, and nothing comes
behind the end of a request. So the ring is empty whenever no call runs, though
nothing empties it.

The end of `TcpServer_proofs` is about the other end of the connection, an instance
of `TcpMaster`: `NothingLeaks`, `OwnSocket`, `NeverConnectsAgain` (and
`MasterTypeCorrect`). The invariant `MasterKnown` says that before a connection stands
the master has no descriptor and after it only the one in `socket_fd`. `MasterOwned`
says when that number is the master's: exactly when `modbus_tcp_connect` did not run
out of addresses, for then it leaves the number it closed, whoever has it by now.
`NeverConnectsAgain` is the other half of finding 10: a master that was left without
a socket stays among its calls (`NoSocketForGood`).

`Transaction_proofs`: `AnswersBelong`, `TypeCorrect`, `ActsAsRemoteTable`. That an
answer is the caller's own says nothing about the frames still on their way, and
those decide about later calls.
The inductive invariant `IInv` therefore says of TCP (`InOrder`) that the frames in
flight, from the ring through the network back to the requests the slave has not
handled, carry consecutive identifiers that end with the master's own, and that
there are at most as many as answers have been late, and one for the call under
way: so no two carry the same identifier (`OwnId`), and the one that carries the
master's is its own (`ConfirmOwn`). Of a serial line it says (`Quiet`) that nothing
is in flight when a call begins, so that all that moves while it waits is its own;
that is where the pause before `modbus_error_recovery` is needed
(`LateAssumption`).

`ActsAsRemoteTable` is the refinement, `Spec => Remote!Spec`. It needs the contents
of the frames, of which `IInv` says nothing (`Exact`: every request under way passed
the quantity check, every answer is one a frame can spell, the tables hold values),
and that of all frames under way only the youngest may be the call's own
(`Youngest`), so that the reply `CurrentReply` speaks of is unique and nothing is
served after it. `RInv` is the three together. The data are settled apart from any
state: for a request that passed the check and any tables, what the master makes of
what the slave answers is what the table far away promises (`AnswerIsPromise`), and
what the slave does to its tables is what is promised of the write
(`EffectIsChange`), whether the range lies inside, straddles the end or begins
outside. `MakeStep`, `TakeEffectStep`, `ConfirmStep`, `LoseStep` and `FailStep` are
then the steps of `RemoteTable` (a timeout or a refused quantity fails the call);
`Recover`, `Receive` and `Arrive` change nothing it speaks of (`UnseenStutters`).

`Exchange_proofs`: `RequestsUnderstood`, `AnswersUnderstood`, `SingleCoilIsLost`,
`NoticesOneByte`, `DamageNoticed`, for calls and tables of any size. The inductive
invariant `IInv` says of the frame on the line that it carries what was put into it:
the request of the call under way, or an answer that means what `Pdu` says it means.
Everything else is about the operators. Packing and unpacking lose nothing: a cell of
a frame of coils is the bit it was set to (`PackedCoils`, from `BitsOfByte` and
`CoilPlace`), two bytes are the register they were cut from (`BigEndian`); a frame of
either core begins with its header and carries its contents behind it
(`SerialFrame`, `TcpFrame`, `FrameCarries`); and what the slave reads out of a request
and the master out of an answer follows function by function (`RequestTells`,
`AnswerMeans`).

That damage is noticed rests on the checksum. Its register after each byte is a
recursive function, which exists (`RegistersExist`) by induction over numbers; as the
library's induction takes an operator, `Counting` derives it from `WFMin`, the least
element of a set. One shift loses nothing of the register (`ShiftKeepsApart`), so a
byte fed into two different registers, or two bytes into one register, leave
different registers (`FedKeepsApart`); hence two frames that differ within one byte
have different checksums (`NoticesOneByte`), whatever their length. If the bit turned
over is in the checksum itself the frame is the old one and the checksum is not;
either way the frame is not intact (`NotIntact`, `Marked`), and a slave is silent and a
call fails (`SlaveIsSilent`, `CallFails`).

Only model-checked: every liveness property, since fairness and `ENABLED` are out of the
prover's reach; and `SamplesMatch`, which evaluates particular frames.

## What is not modelled

- The report of the slave's identity (a fixed answer), broadcast, several slaves
  on a line.
- `modbus_init`, the setters and the checks of a context: an assignment or a
  comparison each. That a context from `modbus_create` has uninitialised timeouts is
  listed as a hazard without a property; the models take both timeouts as positive.
  `modbus_set_slave` refuses 247, the last address the protocol allows.
- Failures of a send: in `Transaction` a request that is not sent ends like one that
  is lost.
- Open and close of the win32 port, which configure one handle; the linux port has
  nothing to model.
- In the test programs, the gateway's poll of remote inputs (a table of its own)
  and the low-level update of the input tables from the board.
- That a write straddling the end of the table is acknowledged is what
  `RemoteTable` promises; whether it should is left open.
- Debug output, configuration, the PDFs.

## The plan

Done: `FrameReceiver`; `Pdu`, `RemoteTable`, `Transaction`; `RtDevicePort`;
`RingBuffer`; `RingPort`; `TcpServer`; `TcpMaster`; `RtuResync`; `Gateway`;
`Codec`, `Exchange`.

Proved: every invariant and action property the runs check, except `SamplesMatch`, and
both refinements.

To come: a module `Context` for what `modbus_create`, `modbus_init` and the setters
leave behind.
