------------------------------ MODULE TcpServer ------------------------------
(***************************************************************************)
(* The TCP slave of the tests: one thread that listens, selects over the   *)
(* listening socket and up to MaxClients connections, and serves those     *)
(* that are ready through ONE context.  The context has one socket_fd,     *)
(* which is set to the connection being served, and one ring buffer, which *)
(* is not emptied between connections.                                     *)
(*                                                                         *)
(* Network and descriptors are external.  A number is free, the listening  *)
(* socket or a connection; a closed number is given out again.  A request  *)
(* arrives whole, or as a head shorter than what modbus_slave_wait reads   *)
(* first and a tail.                                                       *)
(***************************************************************************)
EXTENDS Integers, Sequences, FiniteSets

CONSTANTS
  Conns,        \* connections clients open, each once
  Fds,          \* descriptor numbers
  MaxClients,   \* MAX_CLIENT_NUM
  MaxRequests,  \* bound: requests of a connection
  MaxFaults,    \* bound: calls that fail: socket, listen, select and accept
  Pipelined,    \* those that send a request before they have the last answer
  Split         \* those whose requests may arrive in two parts

ASSUME NumbersAssumption ==
  /\ Fds \subseteq Nat /\ Conns \cap Fds = {}
  /\ MaxClients \in Nat \ {0} /\ MaxRequests \in Nat /\ MaxFaults \in Nat
ASSUME ClientsAssumption == Pipelined \subseteq Conns /\ Split \subseteq Conns

VARIABLES
  peer,           \* what a descriptor number stands for
  server_socket, client_socket, readset,   \* locals of the thread
  socket_fd,      \* of the port
  ring,           \* parts of requests in the ring buffer of the port
  held,           \* the part the call in progress has taken from it
  pc, slot,       \* where the thread is, and at which client
  conn,           \* a connection: "off", "queued", "on" or "over"
  closed,         \* the connections their clients have closed
  inbox,          \* parts that have arrived and are not received
  sent,           \* requests a client has begun to send
  owes,           \* clients that have sent a head and not its tail
  answers,        \* answers a connection got: whose request each one answers
  faults          \* calls that have failed so far

loop    == <<server_socket, client_socket, readset, pc, slot>>
port    == <<socket_fd, ring, held>>
net     == <<peer, conn>>
clients == <<closed, sent, owes>>
vars    == <<loop, port, net, clients, inbox, answers, faults>>

Slots == 1 .. MaxClients
Free  == "free"
Listener == "listener"
ASSUME NamesAssumption == Free \notin Conns /\ Listener \notin Conns
FreeFds == {fd \in Fds : peer[fd] = Free}
\* socket and accept give out the lowest number that is free.
NewFd(fd) == fd \in FreeFds /\ \A other \in FreeFds : fd <= other

Init ==
  /\ peer = [fd \in Fds |-> Free]
  /\ server_socket = -1 /\ client_socket = [i \in Slots |-> -1] /\ readset = {}
  /\ socket_fd = -1 /\ ring = <<>> /\ held = <<>>
  /\ pc = "listen" /\ slot = 0
  /\ conn = [c \in Conns |-> "off"] /\ closed = {} /\ inbox = [c \in Conns |-> <<>>]
  /\ sent = [c \in Conns |-> 0] /\ owes = {}
  /\ answers = [c \in Conns |-> <<>>]
  /\ faults = 0

Fault == faults < MaxFaults /\ faults' = faults + 1

\* closesocket of some numbers; those that are not open are refused.
Close(fds) ==
  /\ peer' = [fd \in Fds |-> IF fd \in fds THEN Free ELSE peer[fd]]
  /\ conn' = [c \in Conns |->
                IF \/ \E fd \in fds \cap Fds : peer[fd] = c
                   \/ conn[c] = "queued" /\ \E fd \in fds \cap Fds : peer[fd] = Listener
                THEN "over" ELSE conn[c]]
-----------------------------------------------------------------------------
(***************************************************************************)
(* The thread.                                                             *)
(***************************************************************************)
\* modbus_tcp_listen.  It would return the socket it has, but the thread has
\* closed that one.
Listen ==
  /\ pc = "listen" /\ socket_fd < 0
  /\ \E fd \in Fds :
       /\ NewFd(fd)
       /\ socket_fd' = fd /\ server_socket' = fd
       /\ peer' = [peer EXCEPT ![fd] = Listener]
  /\ pc' = "select"
  /\ UNCHANGED <<client_socket, readset, slot, ring, held, conn, clients, inbox, answers, faults>>

\* bind or listen fails: the descriptor is closed, and returned all the same.
ListenFails ==
  /\ pc = "listen" /\ socket_fd < 0 /\ Fault
  /\ \E fd \in Fds : NewFd(fd) /\ socket_fd' = fd /\ server_socket' = fd
  /\ pc' = "select"
  /\ UNCHANGED <<client_socket, readset, slot, ring, held, net, clients, inbox, answers>>

\* There is no socket to listen with: what comes back is -1, or the code of
\* getaddrinfo, which is no descriptor, though it may look like one.
NoListener ==
  /\ pc = "listen" /\ socket_fd < 0 /\ Fault
  /\ server_socket' \in {-1} \cup FreeFds
  /\ pc' = "select"
  /\ UNCHANGED <<client_socket, readset, slot, port, net, clients, inbox, answers>>

\* A server_socket of -1 is put into the set too, but select, which is told to look
\* at the numbers up to the greatest, looks at none: there are no clients then.
Watched == {fd \in {server_socket} \cup {client_socket[i] : i \in Slots} : fd >= 0}

Readable(fd) ==
  \/ peer[fd] = Listener /\ \E c \in Conns : conn[c] = "queued"
  \/ peer[fd] \in Conns /\ (inbox[peer[fd]] # <<>> \/ peer[fd] \in closed)

\* Mutant: every descriptor is taken to be ready.
SelectAll ==
  /\ pc = "select" /\ \A fd \in Watched : peer[fd] # Free
  /\ readset' = {fd \in Watched : peer[fd] # Listener \/ Readable(fd)}
  /\ readset' # {}
  /\ pc' = "accept"
  /\ UNCHANGED <<server_socket, client_socket, slot, port, net, clients, inbox, answers, faults>>

\* select returns when a watched descriptor is readable (and every second).
Select ==
  /\ pc = "select" /\ \A fd \in Watched : peer[fd] # Free
  /\ readset' = {fd \in Watched : Readable(fd)}
  /\ readset' # {}
  /\ pc' = "accept"
  /\ UNCHANGED <<server_socket, client_socket, slot, port, net, clients, inbox, answers, faults>>

\* It fails, as it always does when a watched descriptor is not open.
SelectBroken ==
  /\ pc = "select" /\ \E fd \in Watched : peer[fd] = Free
  /\ pc' = "teardown"
  /\ UNCHANGED <<server_socket, client_socket, readset, slot, port, net, clients, inbox, answers, faults>>

SelectFails ==
  /\ pc = "select" /\ Fault
  /\ pc' = "teardown"
  /\ UNCHANGED <<server_socket, client_socket, readset, slot, port, net, clients, inbox, answers>>

ToClients == pc' = "serve" /\ slot' = 1

NoAccept ==
  /\ pc = "accept" /\ server_socket \notin readset
  /\ ToClients
  /\ UNCHANGED <<server_socket, client_socket, readset, port, net, clients, inbox, answers, faults>>

\* modbus_tcp_accept, and a slot for the connection.
Accept ==
  /\ pc = "accept" /\ server_socket \in readset
  /\ \E c \in Conns, fd \in Fds :
       /\ conn[c] = "queued" /\ NewFd(fd)
       /\ conn' = [conn EXCEPT ![c] = "on"] /\ peer' = [peer EXCEPT ![fd] = c]
       /\ \E i \in Slots :
            /\ client_socket[i] < 0 /\ \A j \in 1 .. i - 1 : client_socket[j] >= 0
            /\ client_socket' = [client_socket EXCEPT ![i] = fd]
  /\ ToClients
  /\ UNCHANGED <<server_socket, readset, port, clients, inbox, answers, faults>>

\* Mutant: without a slot the connection is left where it is.
TurnAwayLater ==
  /\ pc = "accept" /\ server_socket \in readset
  /\ \A i \in Slots : client_socket[i] >= 0
  /\ FreeFds # {}
  /\ ToClients
  /\ UNCHANGED <<server_socket, client_socket, readset, port, net, clients, inbox, answers, faults>>

\* No slot: the port's socket is set to the new connection and disconnected.
TurnAway ==
  /\ pc = "accept" /\ server_socket \in readset
  /\ \A i \in Slots : client_socket[i] >= 0
  /\ FreeFds # {}
  /\ \E c \in Conns : conn[c] = "queued" /\ conn' = [conn EXCEPT ![c] = "over"]
  /\ socket_fd' = -1
  /\ ToClients
  /\ UNCHANGED <<server_socket, client_socket, readset, ring, held, peer, clients, inbox,
                 answers, faults>>

\* accept fails, on account of the length it is given uninitialised if nothing
\* else; the connection may be gone with it.
AcceptFails ==
  /\ pc = "accept" /\ server_socket \in readset /\ Fault
  /\ \E c \in Conns :
       /\ conn[c] = "queued"
       /\ \/ conn' = [conn EXCEPT ![c] = "over"]
          \/ UNCHANGED conn
  /\ ToClients
  /\ UNCHANGED <<server_socket, client_socket, readset, port, peer, clients, inbox, answers>>

\* Mutant: one client too many.
NextSlotPast ==
  IF slot > MaxClients THEN pc' = "select" /\ slot' = 0 /\ readset' = {}
  ELSE pc' = "serve" /\ slot' = slot + 1 /\ UNCHANGED readset

\* After the last client FD_ZERO begins the next turn.
NextSlot ==
  IF slot = MaxClients THEN pc' = "select" /\ slot' = 0 /\ readset' = {}
  ELSE pc' = "serve" /\ slot' = slot + 1 /\ UNCHANGED readset

\* A client that is not there, or not ready.
Skip ==
  /\ pc = "serve" /\ client_socket[slot] \notin readset
  /\ NextSlot
  /\ UNCHANGED <<server_socket, client_socket, port, net, clients, inbox, answers, faults>>

\* Mutant: the context keeps the socket it has, if it is a connection.
ServeStale ==
  /\ pc = "serve" /\ client_socket[slot] \in readset
  /\ socket_fd' = IF \E i \in Slots : socket_fd >= 0 /\ socket_fd = client_socket[i]
                  THEN socket_fd ELSE client_socket[slot]
  /\ held' = <<>> /\ pc' = "request"
  /\ UNCHANGED <<server_socket, client_socket, readset, slot, ring, net, clients, inbox,
                 answers, faults>>

\* modbus_tcp_set_socket, then modbus_slave_wait_handle begins.
Serve ==
  /\ pc = "serve" /\ client_socket[slot] \in readset
  /\ socket_fd' = client_socket[slot]
  /\ held' = <<>> /\ pc' = "request"
  /\ UNCHANGED <<server_socket, client_socket, readset, slot, ring, net, clients, inbox,
                 answers, faults>>

(***************************************************************************)
(* modbus_slave_wait_handle.  A part is [from, part]; a call takes a whole *)
(* request, or a head and then its tail, out of the ring, and calls        *)
(* port->wait when the ring has no more.                                   *)
(***************************************************************************)
Part(c, what) == [from |-> c, part |-> what]

\* What the call has read makes a request, or will not pass the check.
IsRequest(parts) ==
  \/ Len(parts) = 1 /\ parts[1].part = "whole"
  \/ Len(parts) = 2 /\ parts[1].part = "head" /\ parts[2] = Part(parts[1].from, "tail")
IsBeginning(parts) == Len(parts) = 1 /\ parts[1].part = "head"

\* Mutant: what is read stays in the ring.
ReadPartPeeking ==
  /\ pc = "request" /\ ring # <<>>
  /\ held' = Append(held, Head(ring)) /\ UNCHANGED ring
  /\ pc' = IF IsBeginning(held') THEN "request" ELSE "handle"
  /\ UNCHANGED <<server_socket, client_socket, readset, slot, socket_fd, net, clients, inbox,
                 answers, faults>>

ReadPart ==
  /\ pc = "request" /\ ring # <<>>
  /\ held' = Append(held, Head(ring)) /\ ring' = Tail(ring)
  /\ pc' = IF IsBeginning(held') THEN "request" ELSE "handle"
  /\ UNCHANGED <<server_socket, client_socket, readset, slot, socket_fd, net, clients, inbox,
                 answers, faults>>

\* The peer of socket_fd: what _modbus_rtsocket_wait and _write talk to.
Asker == peer[socket_fd]

\* recv has something: all that has arrived goes into the ring.
Receive ==
  /\ pc = "request" /\ ring = <<>> /\ inbox[Asker] # <<>>
  /\ ring' = inbox[Asker]
  /\ inbox' = [inbox EXCEPT ![Asker] = <<>>]
  /\ UNCHANGED <<server_socket, client_socket, readset, pc, slot, socket_fd, held, net, clients,
                 answers, faults>>

\* The request passes the check, is handled and answered.
Handle ==
  /\ pc = "handle" /\ IsRequest(held)
  /\ answers' = [answers EXCEPT ![Asker] = Append(@, held[1].from)]
  /\ held' = <<>>
  /\ NextSlot
  /\ UNCHANGED <<server_socket, client_socket, socket_fd, ring, net, clients, inbox, faults>>

\* modbus_error_recovery
Recover == ring' = <<>> /\ held' = <<>>

\* MODBUS_FAIL_CHECK, or MODBUS_TIMEOUT: nothing has come for 10 ms, which is
\* what port->wait makes of MODBUS_WAIT_FOREVER.
Reject ==
  /\ \/ pc = "handle" /\ ~ IsRequest(held)
     \/ pc = "request" /\ ring = <<>> /\ inbox[Asker] = <<>> /\ Asker \notin closed
  /\ Recover
  /\ NextSlot
  /\ UNCHANGED <<server_socket, client_socket, socket_fd, net, clients, inbox, answers, faults>>

\* MODBUS_ERROR_READ: the client has closed; so does the slave.
HangUp ==
  /\ pc = "request" /\ ring = <<>> /\ inbox[Asker] = <<>> /\ Asker \in closed
  /\ Close({client_socket[slot]}) /\ socket_fd' = -1
  /\ client_socket' = [client_socket EXCEPT ![slot] = -1]
  /\ Recover
  /\ NextSlot
  /\ UNCHANGED <<server_socket, clients, inbox, answers, faults>>

\* Mutant: the connections are left open.
TearDownListener ==
  /\ pc = "teardown"
  /\ Close({server_socket})
  /\ server_socket' = -1 /\ client_socket' = [i \in Slots |-> -1] /\ socket_fd' = -1
  /\ pc' = "listen"
  /\ UNCHANGED <<readset, slot, ring, held, clients, inbox, answers, faults>>

\* After a failed select everything is closed, and the thread starts again.
TearDown ==
  /\ pc = "teardown"
  /\ Close(Watched)
  /\ server_socket' = -1 /\ client_socket' = [i \in Slots |-> -1] /\ socket_fd' = -1
  /\ pc' = "listen"
  /\ UNCHANGED <<readset, slot, ring, held, clients, inbox, answers, faults>>
-----------------------------------------------------------------------------
(***************************************************************************)
(* The clients.                                                            *)
(***************************************************************************)
Connect(c) ==
  /\ conn[c] = "off" /\ \E fd \in Fds : peer[fd] = Listener
  /\ conn' = [conn EXCEPT ![c] = "queued"]
  /\ UNCHANGED <<loop, port, peer, clients, inbox, answers, faults>>

Open(c) == conn[c] \in {"queued", "on"} /\ c \notin closed

Send(c) ==
  /\ Open(c) /\ c \notin owes /\ sent[c] < MaxRequests
  /\ c \in Pipelined \/ Len(answers[c]) >= sent[c]
  /\ sent' = [sent EXCEPT ![c] = @ + 1]
  /\ \/ /\ inbox' = [inbox EXCEPT ![c] = Append(@, Part(c, "whole"))]
        /\ UNCHANGED owes
     \/ /\ c \in Split
        /\ inbox' = [inbox EXCEPT ![c] = Append(@, Part(c, "head"))]
        /\ owes' = owes \cup {c}
  /\ UNCHANGED <<loop, port, net, closed, answers, faults>>

SendTail(c) ==
  /\ Open(c) /\ c \in owes
  /\ inbox' = [inbox EXCEPT ![c] = Append(@, Part(c, "tail"))]
  /\ owes' = owes \ {c}
  /\ UNCHANGED <<loop, port, net, closed, sent, answers, faults>>

HangsUp(c) ==
  /\ Open(c)
  /\ closed' = closed \cup {c}
  /\ UNCHANGED <<loop, port, net, inbox, sent, owes, answers, faults>>

Thread ==
  \/ Listen \/ Select \/ SelectBroken \/ NoAccept \/ Accept \/ TurnAway
  \/ Skip \/ Serve \/ ReadPart \/ Receive \/ Handle \/ Reject \/ HangUp \/ TearDown

Next ==
  \/ Thread \/ ListenFails \/ NoListener \/ SelectFails \/ AcceptFails
  \/ \E c \in Conns : Connect(c) \/ Send(c) \/ SendTail(c) \/ HangsUp(c)

\* The loop never stops, and the rest of a request that has begun arrives.
Spec ==
  /\ Init /\ [][Next]_vars
  /\ WF_vars(Thread) /\ \A c \in Conns : WF_vars(SendTail(c))
-----------------------------------------------------------------------------
\* The type invariant.
TypeOK ==
  /\ peer \in [Fds -> Conns \cup {Free, Listener}]
  /\ server_socket \in Fds \cup {-1} /\ client_socket \in [Slots -> Fds \cup {-1}]
  /\ socket_fd \in Fds \cup {-1} /\ readset \subseteq Fds
  /\ pc \in {"listen", "select", "accept", "serve", "request", "handle", "teardown"}
  /\ slot \in 0 .. MaxClients /\ Len(held) <= 2
  /\ conn \in [Conns -> {"off", "queued", "on", "over"}]
  /\ sent \in [Conns -> 0 .. MaxRequests] /\ faults \in 0 .. MaxFaults

\* An answer goes to the client that asked, though one context, with one socket
\* and one ring buffer, serves them all.
AnswerReachesAsker ==
  \A c \in Conns : \A i \in 1 .. Len(answers[c]) : answers[c][i] = c

\* Every descriptor the thread has opened is one it still knows: nothing leaks
\* when clients come and go or calls fail, and no slot names a number that is
\* closed, or another client's by now.
DescriptorsAccounted ==
  pc \in {"select", "serve", "request", "handle"} =>
    /\ \A fd \in Fds : peer[fd] = Listener => fd = server_socket
    /\ \A c \in Conns : conn[c] = "on" =>
         Cardinality({i \in Slots : client_socket[i] \in Fds /\ peer[client_socket[i]] = c}) = 1
    /\ \A i \in Slots : client_socket[i] >= 0 => peer[client_socket[i]] \in Conns

\* A client that is served has something to say: the loop never waits for one
\* client to begin a request while others are ready.
NeverWaitsForOne ==
  pc = "request" /\ ring = <<>> /\ held = <<>> => inbox[Asker] # <<>> \/ Asker \in closed

\* A request that arrives whole is answered, or one of the two ends closes the
\* connection, whatever pieces other clients send.
WholeRequestAnswered ==
  \A c \in Conns \ Split :
    []<>(Len(answers[c]) >= sent[c] \/ conn[c] = "over" \/ c \in closed)

\* So is every request.
EveryRequestAnswered ==
  \A c \in Conns :
    []<>(Len(answers[c]) >= sent[c] \/ conn[c] = "over" \/ c \in closed)

\* The slave listens, again and again; the code gives it up when it has no socket to
\* listen with, for select then waits for nothing, and does not fail.
Listens == []<>(\E fd \in Fds : peer[fd] = Listener)

\* A client in the queue is accepted or turned away.
EveryClientTaken ==
  \A c \in Conns : conn[c] = "queued" ~> conn[c] # "queued"
=============================================================================
