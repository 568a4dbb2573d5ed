------------------------------- MODULE Gateway -------------------------------
(***************************************************************************)
(* A slave and a master on one machine: slave threads write the coils of   *)
(* the virtual IO (vio_write_hold_coils, called by modbus_slave_handle     *)
(* through the callback), and the master loop of the RTU test              *)
(* (master_sem_poll) sends every change on to a remote slave.  A semaphore *)
(* tells the master of changes; nothing protects the table.                *)
(*                                                                         *)
(* The coils of the table share a byte: dio_set_val changes one of them by *)
(* reading the byte and writing it back.  What comes after the write in    *)
(* master_sem_poll, a poll of the remote inputs into a table of their own, *)
(* is left out; the start is a moment when table and remote slave agree.   *)
(***************************************************************************)
EXTENDS Integers

CONSTANTS
  Threads,      \* the slave threads that share the table
  Coils,        \* how many coils the byte holds
  SemMax,       \* where the semaphore saturates
  MaxWrites,    \* bound: write requests the slaves are sent
  MaxFailures   \* bound: writes of the master that fail

ASSUME CoilsAssumption == Coils \in Nat \ {0}
ASSUME SemAssumption == SemMax \in Nat \ {0}
ASSUME BoundsAssumption == MaxWrites \in Nat /\ MaxFailures \in Nat

Coil == 0 .. Coils - 1

\* A byte as the program holds it.
Image == [Coil -> BOOLEAN]

VARIABLES
  hold_coils,  \* the table
  at,          \* by slave thread: "idle", "compare", "load" or "store"
  request,     \* by slave thread: the values its request writes
  io_start,    \* by slave thread: the coil it is at
  io_end,      \* by slave thread: the end of the range
  byte,        \* by slave thread: the byte dio_set_val has read
  count,       \* by slave thread: the coils it has changed
  writes,      \* requests so far
  sem,         \* send_modbus_sem
  master,      \* the master's thread: "take", "read" or "send"
  index,       \* how many coils it has read
  temp_buff,   \* what it has read
  remote,      \* the coils of the remote slave
  failures,    \* failed writes so far
  failed       \* did the last one fail?  Read by no action

writer == <<at, request, io_start, io_end, byte, count, writes>>
sender == <<master, index, temp_buff, remote, failures, failed>>
vars == <<hold_coils, writer, sem, sender>>

Off == [c \in Coil |-> FALSE]

Init ==
  /\ hold_coils = Off /\ remote = Off /\ temp_buff = Off
  /\ at = [t \in Threads |-> "idle"]
  /\ request = [t \in Threads |-> Off] /\ byte = [t \in Threads |-> Off]
  /\ io_start = [t \in Threads |-> 0] /\ io_end = [t \in Threads |-> 0]
  /\ count = [t \in Threads |-> 0]
  /\ writes = 0 /\ sem = 0 /\ master = "take" /\ index = 0
  /\ failures = 0 /\ failed = FALSE
-----------------------------------------------------------------------------
(***************************************************************************)
(* vio_write_hold_coils.                                                   *)
(***************************************************************************)

\* A slave thread is asked to write some coils.
Request(t) ==
  /\ at[t] = "idle" /\ writes < MaxWrites
  /\ \E first \in Coil, last \in Coil, values \in Image :
       /\ first <= last
       /\ io_start' = [io_start EXCEPT ![t] = first]
       /\ io_end' = [io_end EXCEPT ![t] = last + 1]
       /\ request' = [request EXCEPT ![t] = values]
  /\ at' = [at EXCEPT ![t] = "compare"]
  /\ count' = [count EXCEPT ![t] = 0]
  /\ writes' = writes + 1
  /\ UNCHANGED <<hold_coils, byte, sem, sender>>

\* val_old != val_new: a coil that has its value already is left alone.
Compare(t) ==
  /\ at[t] = "compare" /\ io_start[t] < io_end[t]
  /\ IF hold_coils[io_start[t]] # request[t][io_start[t]]
       THEN at' = [at EXCEPT ![t] = "load"] /\ UNCHANGED io_start
       ELSE io_start' = [io_start EXCEPT ![t] = @ + 1] /\ UNCHANGED at
  /\ UNCHANGED <<hold_coils, request, io_end, byte, count, writes, sem, sender>>

\* dio_set_val: the byte is read, ...
Load(t) ==
  /\ at[t] = "load"
  /\ byte' = [byte EXCEPT ![t] = hold_coils]
  /\ at' = [at EXCEPT ![t] = "store"]
  /\ UNCHANGED <<hold_coils, request, io_start, io_end, count, writes, sem, sender>>

\* Mutant: the coil that has been written is come to again.
StoreStays(t) ==
  /\ at[t] = "store"
  /\ hold_coils' = [byte[t] EXCEPT ![io_start[t]] = request[t][io_start[t]]]
  /\ count' = [count EXCEPT ![t] = @ + 1]
  /\ at' = [at EXCEPT ![t] = "compare"]
  /\ UNCHANGED <<request, io_start, io_end, byte, writes, sem, sender>>

\* ... and written back with one coil set or cleared.
Store(t) ==
  /\ at[t] = "store"
  /\ hold_coils' = [byte[t] EXCEPT ![io_start[t]] = request[t][io_start[t]]]
  /\ count' = [count EXCEPT ![t] = @ + 1]
  /\ io_start' = [io_start EXCEPT ![t] = @ + 1]
  /\ at' = [at EXCEPT ![t] = "compare"]
  /\ UNCHANGED <<request, io_end, byte, writes, sem, sender>>

\* rt_sem_release: a semaphore at its maximum stays there.
Released == IF sem < SemMax THEN sem + 1 ELSE sem

\* Mutant: no notification when a single coil has changed.
FinishMany(t) ==
  /\ at[t] = "compare" /\ io_start[t] >= io_end[t]
  /\ sem' = IF count[t] > 1 THEN Released ELSE sem
  /\ at' = [at EXCEPT ![t] = "idle"]
  /\ UNCHANGED <<hold_coils, request, io_start, io_end, byte, count, writes, sender>>

\* vio_lowlevel_update, if anything has changed.
Finish(t) ==
  /\ at[t] = "compare" /\ io_start[t] >= io_end[t]
  /\ sem' = IF count[t] > 0 THEN Released ELSE sem
  /\ at' = [at EXCEPT ![t] = "idle"]
  /\ UNCHANGED <<hold_coils, request, io_start, io_end, byte, count, writes, sender>>

Slave(t) == Compare(t) \/ Load(t) \/ Store(t) \/ Finish(t)
-----------------------------------------------------------------------------
(***************************************************************************)
(* master_sem_poll.                                                        *)
(***************************************************************************)

\* The wait of 3000 ms ends with the semaphore; without it nothing is done.
Take ==
  /\ master = "take" /\ sem > 0
  /\ sem' = sem - 1
  /\ master' = "read" /\ index' = 0
  /\ UNCHANGED <<hold_coils, writer, temp_buff, remote, failures, failed>>

\* Mutant: the semaphore is emptied once the coils have been read.
ReadLate ==
  /\ master = "read"
  /\ IF index < Coils
       THEN /\ temp_buff' = [temp_buff EXCEPT ![index] = hold_coils[index]]
            /\ index' = index + 1 /\ UNCHANGED <<master, sem>>
       ELSE master' = "send" /\ sem' = 0 /\ UNCHANGED <<index, temp_buff>>
  /\ UNCHANGED <<hold_coils, writer, remote, failures, failed>>

\* vio_read_hold_coils, a coil at a time.
Read ==
  /\ master = "read"
  /\ IF index < Coils
       THEN /\ temp_buff' = [temp_buff EXCEPT ![index] = hold_coils[index]]
            /\ index' = index + 1 /\ UNCHANGED master
       ELSE master' = "send" /\ UNCHANGED <<index, temp_buff>>
  /\ UNCHANGED <<hold_coils, writer, sem, remote, failures, failed>>

\* modbus_write_bits: the remote slave has the coils.
Send ==
  /\ master = "send"
  /\ remote' = temp_buff /\ failed' = FALSE
  /\ master' = "take"
  /\ UNCHANGED <<hold_coils, writer, sem, index, temp_buff, failures>>

\* modbus_write_bits fails: count_err, and on to the next change.
SendFails ==
  /\ master = "send" /\ failures < MaxFailures
  /\ failures' = failures + 1 /\ failed' = TRUE
  /\ master' = "take"
  /\ UNCHANGED <<hold_coils, writer, sem, index, temp_buff, remote>>

Next ==
  \/ \E t \in Threads : Request(t) \/ Slave(t)
  \/ Take \/ Read \/ Send \/ SendFails

Spec == Init /\ [][Next]_vars

\* Every thread goes on when it can.  Requests need not come.
FairSpec ==
  /\ Spec
  /\ \A t \in Threads : WF_vars(Slave(t))
  /\ WF_vars(Take) /\ WF_vars(Read) /\ WF_vars(Send \/ SendFails)
-----------------------------------------------------------------------------
\* Types, and that no access leaves the table or the range of its request.
TypeOK ==
  /\ hold_coils \in Image /\ temp_buff \in Image /\ remote \in Image
  /\ at \in [Threads -> {"idle", "compare", "load", "store"}]
  /\ request \in [Threads -> Image] /\ byte \in [Threads -> Image]
  /\ io_start \in [Threads -> 0 .. Coils] /\ io_end \in [Threads -> 0 .. Coils]
  /\ \A t \in Threads : at[t] \in {"load", "store"} => io_start[t] < io_end[t]
  /\ count \in [Threads -> 0 .. Coils]
  /\ \A t \in Threads : count[t] <= io_start[t]
  /\ writes \in 0 .. MaxWrites /\ failures \in 0 .. MaxFailures
  /\ sem \in 0 .. SemMax /\ index \in 0 .. Coils
  /\ master \in {"take", "read", "send"} /\ failed \in BOOLEAN

\* A notification that has been given or is bound to be.
Notified == sem > 0 \/ \E t \in Threads : at[t] # "idle" /\ count[t] > 0

\* What the master has read, is about to send, or has sent is the table.
UpToDate ==
  /\ master = "read" => \A c \in Coil : c < index => temp_buff[c] = hold_coils[c]
  /\ master = "send" => temp_buff = hold_coils
  /\ master = "take" => failed \/ remote = hold_coils

\* No change is forgotten: whatever the master has read, is sending, or has sent
\* is the table, or it will be told to read it again; however its reading of the
\* coils and the slaves' writing of them interleave, and after a failure from the
\* next write on that succeeds.
ChangeIsPending == Notified \/ UpToDate

\* In the end the remote slave holds the table, unless the last write failed.
RemoteFollows == <>[](failed \/ remote = hold_coils)

\* In the end the remote slave holds the table.
ChangesReachRemote == <>[](remote = hold_coils)

\* A write that has been acknowledged stands until some other request for the
\* same coil: no thread changes a coil that it was not asked to write.
WrittenBitKept ==
  [][\A t \in Threads, c \in Coil :
       Store(t) /\ hold_coils'[c] # hold_coils[c] => c = io_start[t]]_vars

=============================================================================
