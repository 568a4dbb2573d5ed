------------------------------ MODULE RingPort ------------------------------
(***************************************************************************)
(* The two ports that receive into a ring buffer: the socket port of       *)
(* RT-Thread and the serial port of Windows, under a thread that is in     *)
(* modbus_want_read (read what the ring has, else wait) or recovers from   *)
(* an error (flush).  The bytes are numbered as they arrive.               *)
(*                                                                         *)
(* The operating system is external.  It keeps bytes until port->wait asks *)
(* for them:                                                               *)
(*   "rtsocket"  recv returns what there is as soon as there is something; *)
(*   "win32"     ReadFile returns when it has filled the buffer it was     *)
(*               given, or when the time limits of the handle have passed, *)
(*               with what there is; the limits MAXDWORD set no limit.     *)
(* The ring is a bounded queue, as RingBuffer shows.                       *)
(***************************************************************************)
EXTENDS Integers, Sequences

CONSTANTS
  Ports,       \* the ports to look at, see below
  RingSize,    \* bytes of the ring (256 in both)
  Lengths,     \* what modbus_want_read is asked for
  MaxBytes     \* bound: how many bytes arrive

MODBUS_WAIT_FOREVER == -1
MODBUS_WAIT_NO      == 0

\* type      "rtsocket" or "win32"
\* asks      bytes port->wait asks the system for (256, on Windows 512)
\* unread    bytes that may be unread in the system at a time
\* timeouts  the time limits of modbus_want_read
ASSUME PortsAssumption ==
  Ports \subseteq [type : {"rtsocket", "win32"}, asks : Nat \ {0}, unread : Nat,
                   timeouts : SUBSET Int]
ASSUME SizesAssumption ==
  /\ RingSize \in Nat \ {0} /\ MaxBytes \in Nat
  /\ Lengths \subseteq Nat \ {0}
\* One wait fits the ring: the buffer is no larger (sockets), or there is never
\* more than one frame of at most MODBUS_MAX_ADU_LENGTH bytes (serial lines).
ASSUME FitAssumption == \A p \in Ports : p.asks <= RingSize \/ p.unread <= RingSize

VARIABLES
  port,        \* one of Ports, once and for all
  arrived,     \* the number of the last byte that arrived
  received,    \* the number of the last byte the system handed over
  taken,       \* the number of the last byte that was read, or flushed
  ring,        \* the bytes in the ring
  pc,          \* the thread: "idle", "read", "wait" or "blocked" in the system
  want,        \* bytes modbus_want_read still misses
  timeout,     \* its time limit
  limited      \* do the time limits in force end a wait?

Port     == port.type
TempSize == port.asks

vars == <<port, arrived, received, taken, ring, pc, want, timeout, limited>>

\* open leaves the time limits of a Windows handle as it finds them.
Init ==
  /\ port \in Ports
  /\ arrived = 0 /\ received = 0 /\ taken = 0 /\ ring = <<>>
  /\ pc = "idle" /\ want = 0 /\ timeout = MODBUS_WAIT_NO
  /\ limited \in IF Port = "win32" THEN BOOLEAN ELSE {TRUE}

Smaller(a, b) == IF a <= b THEN a ELSE b

Arrive ==
  /\ arrived < MaxBytes /\ arrived - received < port.unread
  /\ arrived' = arrived + 1
  /\ UNCHANGED <<port, received, taken, ring, pc, want, timeout, limited>>
-----------------------------------------------------------------------------
\* modbus_want_read
WantRead ==
  /\ pc = "idle"
  /\ \E n \in Lengths, t \in port.timeouts : want' = n /\ timeout' = t
  /\ pc' = "read"
  /\ UNCHANGED <<port, arrived, received, taken, ring, limited>>

\* Mutant: the loop waits after every read, though the ring has more.
ReadPart ==
  /\ pc = "read"
  /\ LET n == Smaller(1, Smaller(want, Len(ring)))
     IN  /\ taken' = IF n = 0 THEN taken ELSE ring[n]
         /\ ring'  = SubSeq(ring, n + 1, Len(ring))
         /\ want'  = want - n
         /\ pc'    = IF want = n THEN "idle" ELSE "wait"
  /\ UNCHANGED <<port, arrived, received, timeout, limited>>

\* _modbus_rtsocket_read, _modbus_win32device_read: the call has all it wants,
\* or goes on to wait.
Read ==
  /\ pc = "read"
  /\ LET n == Smaller(want, Len(ring))
     IN  /\ taken' = IF n = 0 THEN taken ELSE ring[n]
         /\ ring'  = SubSeq(ring, n + 1, Len(ring))
         /\ want'  = want - n
         /\ pc'    = IF want = n THEN "idle" ELSE "wait"
  /\ UNCHANGED <<port, arrived, received, timeout, limited>>

\* The first part of port->wait sets the time limits.  On a socket a limit that
\* is not positive becomes 10 ms; on Windows MODBUS_WAIT_FOREVER takes the
\* limits away, and MODBUS_WAIT_NO leaves those of an earlier call.
Wait ==
  /\ pc = "wait" /\ pc' = "blocked"
  /\ limited' = IF Port = "rtsocket" THEN TRUE
                ELSE IF timeout = MODBUS_WAIT_NO THEN limited
                ELSE timeout > MODBUS_WAIT_FOREVER
  /\ UNCHANGED <<port, arrived, received, taken, ring, want, timeout>>

\* Mutant: recv waits for all the caller wants.
ReceiveAll ==
  /\ pc = "blocked" /\ arrived - received >= want
  /\ Port = "win32" => limited \/ arrived - received >= TempSize
  /\ LET n == Smaller(arrived - received, TempSize)
         stored == Smaller(n, RingSize - Len(ring))
     IN  /\ received' = received + n
         /\ ring' = ring \o [i \in 1 .. stored |-> received + i]
  /\ pc' = "read"
  /\ UNCHANGED <<port, arrived, taken, want, timeout, limited>>

\* Mutant: the whole buffer counts as received.
ReceiveFull ==
  /\ pc = "blocked" /\ arrived > received
  /\ Port = "win32" => limited \/ arrived - received >= TempSize
  /\ LET stored == Smaller(TempSize, RingSize - Len(ring))
     IN  /\ received' = received + TempSize
         /\ ring' = ring \o [i \in 1 .. stored |-> received + i]
  /\ pc' = "read"
  /\ UNCHANGED <<port, arrived, taken, want, timeout, limited>>

\* The second part: recv or ReadFile returns n bytes, and those the ring has
\* room for are put into it.
Receive ==
  /\ pc = "blocked" /\ arrived > received
  /\ Port = "win32" => limited \/ arrived - received >= TempSize
  /\ LET n == Smaller(arrived - received, TempSize)
         stored == Smaller(n, RingSize - Len(ring))
     IN  /\ received' = received + n
         /\ ring' = ring \o [i \in 1 .. stored |-> received + i]
  /\ pc' = "read"
  /\ UNCHANGED <<port, arrived, taken, want, timeout, limited>>

\* MODBUS_TIMEOUT
TimedOut ==
  /\ pc = "blocked" /\ limited /\ arrived = received
  /\ pc' = "idle" /\ want' = 0
  /\ UNCHANGED <<port, arrived, received, taken, ring, timeout, limited>>

\* MODBUS_ERROR_READ: the connection broke, or the device failed.
Broken ==
  /\ pc = "blocked"
  /\ pc' = "idle" /\ want' = 0
  /\ UNCHANGED <<port, arrived, received, taken, ring, timeout, limited>>

\* modbus_error_recovery: _modbus_rtsocket_flush resets the ring,
\* _modbus_win32device_flush also drops what the system has (PurgeComm).
Flush ==
  /\ pc = "idle"
  /\ ring' = <<>>
  /\ received' = IF Port = "win32" THEN arrived ELSE received
  /\ taken' = received'
  /\ UNCHANGED <<port, arrived, pc, want, timeout, limited>>

Thread == Read \/ Wait \/ Receive \/ TimedOut
Next   == Arrive \/ WantRead \/ Thread \/ Broken \/ Flush

\* The thread goes on when it can, and a time limit ends.
Spec == Init /\ [][Next]_vars /\ WF_vars(Thread)
-----------------------------------------------------------------------------
\* The type invariant.
TypeOK ==
  /\ port \in Ports
  /\ arrived \in 0 .. MaxBytes /\ received \in 0 .. arrived /\ taken \in 0 .. received
  /\ ring \in Seq(Nat) /\ Len(ring) <= RingSize
  /\ pc \in {"idle", "read", "wait", "blocked"}
  /\ want \in Nat /\ timeout \in Int /\ limited \in BOOLEAN

\* The ring holds exactly the bytes that follow the last one read or flushed, up
\* to the last one the system handed over: port->wait drops nothing, however the
\* bytes arrive, because modbus_want_read has emptied the ring before it waits.
NothingLost ==
  /\ Len(ring) = received - taken
  /\ \A i \in 1 .. Len(ring) : ring[i] = taken + i

\* A thread in port->wait gets what has arrived, or its time runs out: it does
\* not stay there with bytes it could have.
WaitHears == pc = "blocked" /\ arrived > received ~> pc # "blocked"
=============================================================================
