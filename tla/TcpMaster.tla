------------------------------ MODULE TcpMaster ------------------------------
(***************************************************************************)
(* The connection of a TCP master: the loop of the test master             *)
(* (modbus_connect, calls while modbus_tcp_status is MODBUS_OK,            *)
(* modbus_disconnect) over modbus_tcp_connect and the error path of        *)
(* port->wait.  What the calls say is the matter of Transaction; here a    *)
(* call uses whatever socket_fd names.                                     *)
(*                                                                         *)
(* Descriptor numbers are external: a number is free, the master's or that *)
(* of another thread of the program, and a closed number is given out      *)
(* again.                                                                  *)
(***************************************************************************)
EXTENDS Integers, FiniteSets

CONSTANTS
  Fds,          \* descriptor numbers
  Addresses,    \* how many addresses the name of the slave has
  MaxFailures   \* bound: lookups, sockets and connections that fail or break

ASSUME NumbersAssumption ==
  /\ Fds \subseteq Nat /\ Addresses \in Nat \ {0} /\ MaxFailures \in Nat

VARIABLES
  table,      \* what a descriptor number stands for
  socket_fd,  \* of the port
  link,       \* the master's connection: "none", "up", "reset" or "closed"
  pc,         \* "connect", "try", "status", "call" or "disconnect"
  cur,        \* the address modbus_tcp_connect is at, one past the last if it tried all in vain
  failures    \* how much has failed so far

vars == <<table, socket_fd, link, pc, cur, failures>>

Free == "free"
Mine == "mine"
Other == "other"

\* socket gives out the lowest number that is free.
NewFd(fd) == table[fd] = Free /\ \A other \in Fds : table[other] = Free => fd <= other

\* What socket_fd names, if it names anything.
Named == IF socket_fd \in Fds THEN table[socket_fd] ELSE Free

Init ==
  /\ table = [fd \in Fds |-> Free] /\ socket_fd = -1 /\ link = "none"
  /\ pc = "connect" /\ cur = 0 /\ failures = 0
-----------------------------------------------------------------------------
\* modbus_tcp_connect: nothing when there is a socket, else the addresses one
\* by one.
Connect ==
  /\ pc = "connect"
  /\ IF socket_fd < 0 THEN pc' = "try" /\ cur' = 1
                      ELSE pc' = "status" /\ UNCHANGED cur
  /\ UNCHANGED <<table, socket_fd, link, failures>>

Failure == failures < MaxFailures /\ failures' = failures + 1

\* getaddrinfo fails: modbus_tcp_connect returns, and there is no socket.
LookupFails ==
  /\ pc = "connect" /\ socket_fd < 0 /\ Failure
  /\ pc' = "status"
  /\ UNCHANGED <<table, socket_fd, link, cur>>

Connected ==
  /\ pc = "try"
  /\ \E fd \in Fds :
       /\ NewFd(fd)
       /\ socket_fd' = fd /\ table' = [table EXCEPT ![fd] = Mine]
  /\ link' = "up" /\ pc' = "status"
  /\ UNCHANGED <<cur, failures>>

\* After the last address the loop is over, and nobody asks how it ended.
NextAddress == pc' = (IF cur < Addresses THEN "try" ELSE "status") /\ cur' = cur + 1

\* socket fails, and its result is what socket_fd keeps.
NoSocket ==
  /\ pc = "try" /\ Failure
  /\ socket_fd' = -1
  /\ NextAddress
  /\ UNCHANGED <<table, link>>

\* Mutant: the socket that did not connect is not closed.
RefusedOpen ==
  /\ pc = "try" /\ Failure
  /\ \E fd \in Fds :
       /\ NewFd(fd)
       /\ socket_fd' = fd /\ table' = [table EXCEPT ![fd] = Mine]
  /\ NextAddress
  /\ UNCHANGED link

\* connect fails: the socket is closed, and socket_fd keeps its number.
Refused ==
  /\ pc = "try" /\ Failure
  /\ \E fd \in Fds : NewFd(fd) /\ socket_fd' = fd
  /\ NextAddress
  /\ UNCHANGED <<table, link>>

\* modbus_tcp_status is 0, MODBUS_OK, when there is no socket, when the number in
\* socket_fd is not open, and when the socket it names has no error pending.
StatusOk ==
  /\ pc = "status" /\ ~ (Named = Mine /\ link = "reset")
  /\ pc' = "call"
  /\ UNCHANGED <<table, socket_fd, link, cur, failures>>

\* The error may be that of a foreign socket.
StatusError ==
  /\ pc = "status" /\ Named # Free /\ (Named = Mine => link = "reset")
  /\ link' = IF Named = Mine THEN "closed" ELSE link
  /\ pc' = "disconnect"
  /\ UNCHANGED <<table, socket_fd, cur, failures>>

\* A call that is answered, or times out with the connection as it is.  recv on
\* a number that is not open fails too, and its SO_ERROR cannot be read: that is
\* MODBUS_TIMEOUT.
Call ==
  /\ pc = "call"
  /\ Named = Mine => link = "up"
  /\ pc' = "status"
  /\ UNCHANGED <<table, socket_fd, link, cur, failures>>

\* Mutant: the loop goes on after MODBUS_ERROR_READ.
CallBrokenOn ==
  /\ pc = "call" /\ Named # Free /\ (Named = Mine => link \in {"reset", "closed"})
  /\ link' = IF Named = Mine THEN "closed" ELSE link
  /\ pc' = "status"
  /\ UNCHANGED <<table, socket_fd, cur, failures>>

\* The connection is gone, or socket_fd names a foreign one: recv returns 0, or
\* fails and clears the error, which SO_ERROR then reports (MODBUS_ERROR_READ)
\* or not (MODBUS_TIMEOUT).
CallBroken ==
  /\ pc = "call" /\ Named # Free /\ (Named = Mine => link \in {"reset", "closed"})
  /\ link' = IF Named = Mine THEN "closed" ELSE link
  /\ \/ pc' = "disconnect"
     \/ link = "reset" /\ pc' = "status"
  /\ UNCHANGED <<table, socket_fd, cur, failures>>

\* Mutant: socket_fd keeps the closed number.
DisconnectKeeping ==
  /\ pc = "disconnect"
  /\ table' = [fd \in Fds |-> IF fd = socket_fd THEN Free ELSE table[fd]]
  /\ link' = IF Named = Mine THEN "none" ELSE link
  /\ UNCHANGED socket_fd
  /\ pc' = "connect"
  /\ UNCHANGED <<cur, failures>>

\* modbus_tcp_disconnect closes whatever socket_fd names.
Disconnect ==
  /\ pc = "disconnect"
  /\ table' = [fd \in Fds |-> IF fd = socket_fd THEN Free ELSE table[fd]]
  /\ link' = IF Named = Mine THEN "none" ELSE link
  /\ socket_fd' = -1
  /\ pc' = "connect"
  /\ UNCHANGED <<cur, failures>>
-----------------------------------------------------------------------------
\* The connection breaks: the slave closes it, or an error is noticed.
Break ==
  /\ link = "up" /\ Failure
  /\ link' \in {"reset", "closed"}
  /\ UNCHANGED <<table, socket_fd, pc, cur>>

\* Other threads open and close sockets of their own; they leave one number free.
OtherOpens ==
  /\ Cardinality({fd \in Fds : table[fd] = Free}) > 1
  /\ \E fd \in Fds : NewFd(fd) /\ table' = [table EXCEPT ![fd] = Other]
  /\ UNCHANGED <<socket_fd, link, pc, cur, failures>>

OtherCloses ==
  /\ \E fd \in Fds : table[fd] = Other /\ table' = [table EXCEPT ![fd] = Free]
  /\ UNCHANGED <<socket_fd, link, pc, cur, failures>>

Master ==
  \/ Connect \/ Connected \/ StatusOk \/ StatusError \/ Call \/ CallBroken \/ Disconnect
Next == Master \/ LookupFails \/ NoSocket \/ Refused \/ Break \/ OtherOpens \/ OtherCloses

\* The loop of the master never stops; what need not fail succeeds.
Spec == Init /\ [][Next]_vars /\ WF_vars(Master)
-----------------------------------------------------------------------------
\* The type invariant.
TypeOK ==
  /\ table \in [Fds -> {Free, Mine, Other}]
  /\ socket_fd \in Fds \cup {-1}
  /\ link \in {"none", "up", "reset", "closed"}
  /\ pc \in {"connect", "try", "status", "call", "disconnect"}
  /\ cur \in 0 .. Addresses + 1 /\ failures \in 0 .. MaxFailures

\* The number that status, calls and modbus_disconnect use is the master's own,
\* except after modbus_tcp_connect has tried every address in vain: the number it
\* keeps then is not, and may be that of another thread's socket by now.
OnlyOwnSocket ==
  pc \in {"status", "call", "disconnect"} /\ socket_fd >= 0 =>
    (Named = Mine <=> cur <= Addresses)

\* However often connections are refused or break, the master has at most one
\* descriptor, the one it knows.
NoDescriptorLeak == \A fd \in Fds : table[fd] = Mine => fd = socket_fd

\* Where modbus_tcp_connect leaves the master when it fails: its loop goes on to
\* the calls, with no socket or a number that is not its own.
Unconnected == pc \in {"status", "call"} /\ Named # Mine

\* Unless modbus_tcp_connect has failed (see Unconnected), a master whose connection
\* breaks is connected again, whatever other threads do with the number it had.
Reconnects == []<>((link = "up" /\ Named = Mine) \/ Unconnected)

\* One that has no socket then has none ever after: modbus_tcp_status is MODBUS_OK
\* and no call fails with MODBUS_ERROR_READ, so nothing leads back to modbus_connect.
NoSocketForGood ==
  [][(pc \in {"status", "call"} /\ socket_fd = -1) =>
       (pc' \in {"status", "call"} /\ socket_fd' = -1)]_vars

\* What the loop of the test master is for; the code does not do it.
AlwaysReconnects == []<>(link = "up" /\ Named = Mine)
=============================================================================
