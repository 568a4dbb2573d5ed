-------------------------- MODULE TcpServer_proofs --------------------------
(***************************************************************************)
(* The TCP slave with any number of clients, slots and descriptors: which  *)
(* descriptors are open, what is ready when a client is served, and whose  *)
(* requests the one ring buffer of the context holds.  At the end, the TCP *)
(* master with any number of descriptors, addresses and failures.          *)
(***************************************************************************)
EXTENDS TcpServer, SequenceTheorems, FiniteSetTheorems, TLAPS

Busy == pc \in {"request", "handle"}

\* What TypeOK does not say of the places the thread is at.
Places ==
  /\ pc = "listen" => socket_fd = -1 /\ server_socket = -1 /\ \A i \in Slots : client_socket[i] = -1
  /\ pc = "serve" \/ Busy => slot \in Slots
  /\ Busy => socket_fd \in Fds /\ socket_fd = client_socket[slot]
  /\ pc = "request" => Len(held) <= 1

Parts == [from : Conns, part : {"whole", "head", "tail"}]

Sequences ==
  /\ inbox \in [Conns -> Seq(Parts)]
  /\ ring \in Seq(Parts) /\ held \in Seq(Parts)
  /\ answers \in [Conns -> Seq(Conns)]
  /\ closed \subseteq Conns /\ owes \subseteq Conns

Typed == TypeOK /\ Places /\ Sequences

-----------------------------------------------------------------------------
(***************************************************************************)
(* The descriptors.                                                        *)
(***************************************************************************)
\* Slots and connections correspond one to one, and the one listening socket is
\* the thread's.
Paired ==
  /\ \A fd \in Fds : peer[fd] = Listener => fd = server_socket
  /\ \A fd \in Fds : peer[fd] \in Conns =>
       conn[peer[fd]] = "on" /\ \E i \in Slots : client_socket[i] = fd
  /\ \A fd, other \in Fds : peer[fd] \in Conns /\ peer[fd] = peer[other] => fd = other
  /\ \A c \in Conns : conn[c] = "on" => \E fd \in Fds : peer[fd] = c
  /\ \A i \in Slots : client_socket[i] \in Fds => peer[client_socket[i]] \in Conns
  /\ \A i, j \in Slots : client_socket[i] = client_socket[j] /\ client_socket[i] \in Fds => i = j

-----------------------------------------------------------------------------
(***************************************************************************)
(* Who is ready.                                                           *)
(***************************************************************************)
HasSomething(fd) == peer[fd] \in Conns /\ (inbox[peer[fd]] # <<>> \/ peer[fd] \in closed)

\* What select reported and has not been served is still so.
Ready ==
  /\ pc = "accept" => \A fd \in readset : peer[fd] # Free
  /\ pc = "accept" => \A i \in Slots : client_socket[i] \in readset => HasSomething(client_socket[i])
  /\ pc = "serve" => \A i \in slot .. MaxClients :
                        client_socket[i] \in readset => HasSomething(client_socket[i])
  /\ Busy => \A i \in slot + 1 .. MaxClients :
                client_socket[i] \in readset => HasSomething(client_socket[i])

-----------------------------------------------------------------------------
(***************************************************************************)
(* Whose requests are under way.                                           *)
(***************************************************************************)
Ends(p) == p.part # "head"
NoEnd(s) == \A i \in 1 .. Len(s) : ~ Ends(s[i])
\* Only the last part of s may be the last of a request.
OneEnd(s) == \A i \in 1 .. Len(s) : Ends(s[i]) => i = Len(s)
AllFrom(s, c) == \A i \in 1 .. Len(s) : s[i].from = c

\* A client that waits for its answers has at most one request under way, and its
\* parts are nowhere but in its inbox and, while it is served, in ring and held.
OneRequest ==
  /\ \A c \in Conns :
       /\ AllFrom(inbox[c], c) /\ OneEnd(inbox[c])
       /\ sent[c] >= Len(answers[c])
       /\ inbox[c] # <<>> => sent[c] > Len(answers[c])
       /\ c \in owes => NoEnd(inbox[c]) /\ sent[c] > Len(answers[c])
  /\ ~ Busy => ring = <<>> /\ held = <<>>
  /\ Busy =>
       /\ AllFrom(ring, Asker) /\ AllFrom(held, Asker)
       /\ OneEnd(ring) /\ OneEnd(held)
       /\ ring # <<>> \/ held # <<>> => sent[Asker] > Len(answers[Asker])
       /\ ~ NoEnd(ring) => inbox[Asker] = <<>>
       /\ ~ NoEnd(held) => ring = <<>> /\ inbox[Asker] = <<>>
       /\ Asker \in owes => NoEnd(ring) /\ NoEnd(held)

IInv == Typed /\ Paired /\ Ready /\ NeverWaitsForOne
UInv == OneRequest /\ AnswerReachesAsker
-----------------------------------------------------------------------------
(***************************************************************************)
(* The types.                                                              *)
(***************************************************************************)
LEMMA InitIInv == Init => IInv /\ UInv
<1> SUFFICES ASSUME Init PROVE IInv /\ UInv
  OBVIOUS
<1> USE NumbersAssumption, NamesAssumption DEF Init
<1>1. TypeOK
  BY EmptySeq DEF TypeOK, Free
<1>2. Places
  BY DEF Places, Busy
<1>3. Sequences
  BY EmptySeq DEF Sequences
<1>4. Paired
  BY DEF Paired, Free, Listener
<1>5. Ready /\ NeverWaitsForOne
  BY DEF Ready, Busy, NeverWaitsForOne
<1>6. OneRequest
  <2>1. Len(<<>>) = 0
    BY EmptySeq
  <2> QED BY <2>1 DEF OneRequest, Busy, AllFrom, OneEnd
<1>7. AnswerReachesAsker
  BY EmptySeq DEF AnswerReachesAsker
<1> QED BY <1>1, <1>2, <1>3, <1>4, <1>5, <1>6, <1>7 DEF IInv, UInv, Typed

\* The one who is served.
LEMMA AskerIsClient ==
  ASSUME Typed, Paired, Busy
  PROVE  Asker \in Conns /\ slot \in Slots /\ socket_fd \in Fds /\ socket_fd = client_socket[slot]
BY DEF Typed, Places, Paired, Asker

LEMMA CloseTypes ==
  ASSUME TypeOK, NEW fds, Close(fds)
  PROVE  /\ peer' \in [Fds -> Conns \cup {Free, Listener}]
         /\ conn' \in [Conns -> {"off", "queued", "on", "over"}]
BY DEF TypeOK, Close

LEMMA NextSlotTypes ==
  ASSUME slot \in Slots, readset \subseteq Fds, NextSlot
  PROVE  /\ readset' \subseteq Fds
         /\ \/ pc' = "select" /\ slot' = 0
            \/ pc' = "serve" /\ slot' = slot + 1 /\ slot' \in Slots
<1>1. MaxClients \in Nat /\ slot \in 1 .. MaxClients
  BY NumbersAssumption DEF Slots
<1>2. CASE slot = MaxClients
  BY <1>2 DEF NextSlot
<1>3. CASE slot # MaxClients
  <2>1. slot + 1 \in Slots
    BY <1>1, <1>3 DEF Slots
  <2> QED BY <1>3, <2>1 DEF NextSlot
<1> QED BY <1>2, <1>3

LEMMA FaultTypes ==
  ASSUME TypeOK, Fault
  PROVE  faults' \in 0 .. MaxFaults
BY NumbersAssumption DEF TypeOK, Fault

LEMMA WatchedTypes ==
  ASSUME TypeOK
  PROVE  Watched \subseteq Fds
BY DEF TypeOK, Watched

\* The steps of the thread between select and the clients.
LEMMA LoopTypes ==
  ASSUME Typed,
         \/ Listen \/ ListenFails \/ NoListener \/ Select \/ SelectBroken \/ SelectFails
         \/ NoAccept \/ Accept \/ TurnAway \/ AcceptFails \/ Skip \/ Serve \/ TearDown
  PROVE  TypeOK' /\ Places'
<1> USE NumbersAssumption DEF Slots
<1>1. TypeOK /\ Places
  BY DEF Typed
<1>2. CASE Listen \/ ListenFails \/ NoListener
  <2>1. faults' \in 0 .. MaxFaults
    BY <1>1, <1>2, FaultTypes DEF Listen, ListenFails, NoListener, TypeOK
  <2>2. socket_fd' \in Fds \cup {-1} /\ server_socket' \in Fds \cup {-1} /\ pc' = "select"
    BY <1>1, <1>2 DEF Listen, ListenFails, NoListener, FreeFds, port, TypeOK
  <2>3. peer' \in [Fds -> Conns \cup {Free, Listener}]
    BY <1>1, <1>2 DEF Listen, ListenFails, NoListener, net, TypeOK
  <2>4. UNCHANGED <<client_socket, readset, slot, held, conn, sent>>
    BY <1>2 DEF Listen, ListenFails, NoListener, net, clients, port
  <2> QED BY <1>1, <2>1, <2>2, <2>3, <2>4 DEF TypeOK, Places, Busy
<1>3. CASE Select
  <2>1. Watched \subseteq Fds
    BY <1>1, WatchedTypes
  <2> QED BY <1>1, <1>3, <2>1 DEF Select, port, net, clients, TypeOK, Places, Busy
<1>4. CASE SelectBroken \/ SelectFails
  <2>1. faults' \in 0 .. MaxFaults
    BY <1>1, <1>4, FaultTypes DEF SelectBroken, SelectFails, TypeOK
  <2>2. /\ pc = "select" /\ pc' = "teardown"
        /\ UNCHANGED <<server_socket, client_socket, readset, slot, port, net, clients>>
    BY <1>4 DEF SelectBroken, SelectFails
  <2> QED BY <1>1, <2>1, <2>2 DEF port, net, clients, TypeOK, Places, Busy
<1>5. CASE NoAccept
  BY <1>1, <1>5 DEF NoAccept, ToClients, port, net, clients, TypeOK, Places, Busy
<1>6. CASE Accept
  <2>1. PICK c \in Conns, fd \in Fds :
          /\ conn' = [conn EXCEPT ![c] = "on"] /\ peer' = [peer EXCEPT ![fd] = c]
          /\ \E i \in Slots : client_socket' = [client_socket EXCEPT ![i] = fd]
    BY <1>6 DEF Accept
  <2>2. client_socket' \in [Slots -> Fds \cup {-1}]
    BY <1>1, <2>1 DEF TypeOK
  <2>3. conn' \in [Conns -> {"off", "queued", "on", "over"}]
        /\ peer' \in [Fds -> Conns \cup {Free, Listener}]
    BY <1>1, <2>1 DEF TypeOK
  <2> QED BY <1>1, <1>6, <2>2, <2>3 DEF Accept, ToClients, port, clients, TypeOK, Places, Busy
<1>7. CASE TurnAway \/ AcceptFails
  <2>1. conn' \in [Conns -> {"off", "queued", "on", "over"}]
    BY <1>1, <1>7 DEF TurnAway, AcceptFails, TypeOK
  <2>2. faults' \in 0 .. MaxFaults
    BY <1>1, <1>7, FaultTypes DEF TurnAway, AcceptFails, TypeOK
  <2>3. socket_fd' \in {socket_fd, -1} /\ pc = "accept" /\ pc' = "serve" /\ slot' = 1
    BY <1>7 DEF TurnAway, AcceptFails, ToClients, port
  <2>4. UNCHANGED <<server_socket, client_socket, readset, held, peer, sent>>
    BY <1>7 DEF TurnAway, AcceptFails, port, clients
  <2> QED BY <1>1, <2>1, <2>2, <2>3, <2>4 DEF TypeOK, Places, Busy
<1>8. CASE Skip
  <2>1. slot \in Slots /\ readset \subseteq Fds /\ NextSlot
    BY <1>1, <1>8 DEF Skip, Places, TypeOK
  <2>2. /\ readset' \subseteq Fds
        /\ \/ pc' = "select" /\ slot' = 0
           \/ pc' = "serve" /\ slot' \in Slots
    BY <2>1, NextSlotTypes
  <2> QED BY <1>1, <1>8, <2>2 DEF Skip, port, net, clients, TypeOK, Places, Busy
<1>9. CASE Serve
  BY <1>1, <1>9, EmptySeq DEF Serve, net, clients, TypeOK, Places, Busy
<1>10. CASE TearDown
  <2>1. /\ peer' \in [Fds -> Conns \cup {Free, Listener}]
        /\ conn' \in [Conns -> {"off", "queued", "on", "over"}]
    BY <1>1, <1>10, CloseTypes DEF TearDown
  <2> QED BY <1>1, <1>10, <2>1 DEF TearDown, clients, TypeOK, Places, Busy
<1> QED BY <1>2, <1>3, <1>4, <1>5, <1>6, <1>7, <1>8, <1>9, <1>10

\* The steps of modbus_slave_wait_handle.
LEMMA CallTypes ==
  ASSUME Typed, ReadPart \/ Receive \/ Handle \/ Reject \/ HangUp
  PROVE  TypeOK' /\ Places'
<1> USE NumbersAssumption
<1>1. TypeOK /\ Places /\ slot \in Slots
  BY DEF Typed, Places, Busy, ReadPart, Receive, Handle, Reject, HangUp
<1>2. ring \in Seq(Parts) /\ held \in Seq(Parts)
  BY DEF Typed, Sequences
<1>3. CASE ReadPart
  <2>1. Len(held') = Len(held) + 1 /\ Len(held) \in Nat /\ Len(held) <= 1
    <3>1. Head(ring) \in Parts
      BY <1>2, <1>3, HeadTailProperties DEF ReadPart
    <3> QED BY <1>1, <1>2, <1>3, <3>1, AppendProperties, LenProperties DEF ReadPart, Places
  <2>2. pc' \in {"request", "handle"} /\ (pc' = "request" => Len(held') = 1)
    BY <1>3 DEF ReadPart, IsBeginning
  <2> QED BY <1>1, <1>3, <2>1, <2>2 DEF ReadPart, net, clients, TypeOK, Places, Busy
<1>4. CASE Receive
  BY <1>1, <1>4 DEF Receive, net, clients, TypeOK, Places, Busy
<1>5. CASE Handle \/ Reject
  <2>1. /\ readset' \subseteq Fds
        /\ \/ pc' = "select" /\ slot' = 0
           \/ pc' = "serve" /\ slot' \in Slots
    BY <1>1, <1>5, NextSlotTypes DEF Handle, Reject, TypeOK
  <2>2. Len(held') = 0
    BY <1>5, EmptySeq DEF Handle, Reject, Recover
  <2>3. slot' \in 0 .. MaxClients
    BY <2>1 DEF Slots
  <2>4. pc # "listen"
    BY <1>5 DEF Handle, Reject
  <2> QED BY <1>1, <1>5, <2>1, <2>2, <2>3, <2>4
          DEF Handle, Reject, net, clients, TypeOK, Places, Busy
<1>6. CASE HangUp
  <2>1. /\ readset' \subseteq Fds
        /\ \/ pc' = "select" /\ slot' = 0
           \/ pc' = "serve" /\ slot' \in Slots
    BY <1>1, <1>6, NextSlotTypes DEF HangUp, TypeOK
  <2>2. Len(held') = 0
    BY <1>6, EmptySeq DEF HangUp, Recover
  <2>3. slot' \in 0 .. MaxClients
    BY <2>1 DEF Slots
  <2>4. /\ peer' \in [Fds -> Conns \cup {Free, Listener}]
        /\ conn' \in [Conns -> {"off", "queued", "on", "over"}]
    BY <1>1, <1>6, CloseTypes DEF HangUp
  <2>5. client_socket' \in [Slots -> Fds \cup {-1}]
    BY <1>1, <1>6 DEF HangUp, TypeOK
  <2> QED BY <1>1, <1>6, <2>1, <2>2, <2>3, <2>4, <2>5
          DEF HangUp, clients, TypeOK, Places, Busy
<1> QED BY <1>3, <1>4, <1>5, <1>6

Client(c) == Connect(c) \/ Send(c) \/ SendTail(c) \/ HangsUp(c)

LEMMA ClientTypes ==
  ASSUME Typed, NEW c \in Conns, Client(c)
  PROVE  TypeOK' /\ Places'
<1>1. TypeOK /\ Places
  BY DEF Typed
<1>2. loop' = loop /\ port' = port /\ peer' = peer /\ faults' = faults
  BY DEF Client, Connect, Send, SendTail, HangsUp, net
<1>3. conn' \in [Conns -> {"off", "queued", "on", "over"}]
  BY <1>1 DEF Client, Connect, Send, SendTail, HangsUp, net, TypeOK
<1>4. sent' \in [Conns -> 0 .. MaxRequests]
  BY <1>1, NumbersAssumption DEF Client, Connect, Send, SendTail, HangsUp, clients, TypeOK
<1> QED BY <1>1, <1>2, <1>3, <1>4 DEF loop, port, TypeOK, Places, Busy

LEMMA PartTypes ==
  ASSUME NEW c \in Conns, NEW what \in {"whole", "head", "tail"}
  PROVE  Part(c, what) \in Parts /\ Part(c, what).from = c /\ Part(c, what).part = what
BY DEF Part, Parts

LEMMA SequencesStep ==
  ASSUME Typed, Paired, [Next]_vars
  PROVE  Sequences'
<1>1. /\ inbox \in [Conns -> Seq(Parts)] /\ ring \in Seq(Parts) /\ held \in Seq(Parts)
      /\ answers \in [Conns -> Seq(Conns)] /\ closed \subseteq Conns /\ owes \subseteq Conns
  BY DEF Typed, Sequences
<1>2. <<>> \in Seq(Parts)
  BY EmptySeq
<1>3. CASE \/ Listen \/ ListenFails \/ NoListener \/ Select \/ SelectBroken \/ SelectFails
           \/ NoAccept \/ Accept \/ TurnAway \/ AcceptFails \/ Skip \/ TearDown
  <2>1. UNCHANGED <<inbox, ring, held, answers, closed, owes>>
    BY <1>3 DEF Listen, ListenFails, NoListener, Select, SelectBroken, SelectFails, NoAccept, Accept,
                TurnAway, AcceptFails, Skip, TearDown, port, clients
  <2> QED BY <1>1, <2>1 DEF Sequences
<1>4. CASE Serve
  BY <1>1, <1>2, <1>4 DEF Serve, clients, Sequences
<1>5. CASE ReadPart
  <2>1. Head(ring) \in Parts /\ Tail(ring) \in Seq(Parts)
    BY <1>1, <1>5, HeadTailProperties DEF ReadPart
  <2>2. Append(held, Head(ring)) \in Seq(Parts)
    BY <1>1, <2>1, AppendProperties
  <2> QED BY <1>1, <1>5, <2>1, <2>2 DEF ReadPart, clients, Sequences
<1>6. CASE Receive
  <2>1. Asker \in Conns
    BY <1>6, AskerIsClient DEF Receive, Busy
  <2> QED BY <1>1, <1>2, <1>6, <2>1 DEF Receive, clients, Sequences
<1>7. CASE Handle
  <2>1. Asker \in Conns
    BY <1>7, AskerIsClient DEF Handle, Busy
  <2>2. held[1] \in Parts
    <3>1. 1 \in 1 .. Len(held)
      BY <1>7 DEF Handle, IsRequest
    <3> QED BY <1>1, <3>1, ElementOfSeq
  <2>3. held[1].from \in Conns
    BY <2>2 DEF Parts
  <2>4. Append(answers[Asker], held[1].from) \in Seq(Conns)
    BY <1>1, <2>1, <2>3, AppendProperties
  <2>5. answers' \in [Conns -> Seq(Conns)]
    BY <1>1, <1>7, <2>1, <2>4 DEF Handle
  <2> QED BY <1>1, <1>2, <1>7, <2>5 DEF Handle, clients, Sequences
<1>8. CASE Reject
  BY <1>1, <1>2, <1>8 DEF Reject, Recover, clients, Sequences
<1>9. CASE HangUp
  BY <1>1, <1>2, <1>9 DEF HangUp, Recover, clients, Sequences
<1>10. ASSUME NEW c \in Conns, Client(c)
       PROVE  Sequences'
  <2>1. \A what \in {"whole", "head", "tail"} :
          [inbox EXCEPT ![c] = Append(@, Part(c, what))] \in [Conns -> Seq(Parts)]
    <3>1. \A what \in {"whole", "head", "tail"} : Append(inbox[c], Part(c, what)) \in Seq(Parts)
      BY <1>1, PartTypes, AppendProperties
    <3> QED BY <1>1, <3>1
  <2>2. inbox' \in [Conns -> Seq(Parts)]
    BY <1>1, <1>10, <2>1 DEF Client, Connect, Send, SendTail, HangsUp
  <2>3. ring' = ring /\ held' = held /\ answers' = answers
    BY <1>10 DEF Client, Connect, Send, SendTail, HangsUp, port
  <2>4. closed' \subseteq Conns /\ owes' \subseteq Conns
    BY <1>1, <1>10 DEF Client, Connect, Send, SendTail, HangsUp, clients
  <2> QED BY <1>1, <2>2, <2>3, <2>4 DEF Sequences
<1>11. CASE UNCHANGED vars
  BY <1>1, <1>11 DEF vars, port, clients, Sequences
<1> QED BY <1>3, <1>4, <1>5, <1>6, <1>7, <1>8, <1>9, <1>10, <1>11 DEF Next, Thread, Client

LEMMA TypedStep ==
  ASSUME Typed, Paired, [Next]_vars
  PROVE  Typed'
<1>1. CASE \/ Listen \/ ListenFails \/ NoListener \/ Select \/ SelectBroken \/ SelectFails
           \/ NoAccept \/ Accept \/ TurnAway \/ AcceptFails \/ Skip \/ Serve \/ TearDown
  BY <1>1, LoopTypes, SequencesStep DEF Typed
<1>2. CASE ReadPart \/ Receive \/ Handle \/ Reject \/ HangUp
  BY <1>2, CallTypes, SequencesStep DEF Typed
<1>3. ASSUME NEW c \in Conns, Client(c)
      PROVE  Typed'
  BY <1>3, ClientTypes, SequencesStep DEF Typed
<1>4. CASE UNCHANGED vars
  <2>1. TypeOK' /\ Places'
    BY <1>4 DEF Typed, vars, loop, port, net, clients, TypeOK, Places, Busy
  <2> QED BY <2>1, SequencesStep DEF Typed
<1> QED BY <1>1, <1>2, <1>3, <1>4 DEF Next, Thread, Client
-----------------------------------------------------------------------------
(***************************************************************************)
(* The descriptors.                                                        *)
(***************************************************************************)
\* Paired speaks of peer, conn and the thread's numbers alone.
LEMMA PairedFrame ==
  ASSUME Paired, UNCHANGED <<peer, conn, server_socket, client_socket>>
  PROVE  Paired'
BY DEF Paired

LEMMA PairedListen ==
  ASSUME Typed, Paired, Listen \/ ListenFails \/ NoListener
  PROVE  Paired'
<1> USE NumbersAssumption, NamesAssumption DEF Paired
<1>1. /\ \A i \in Slots : client_socket[i] = -1
      /\ server_socket = -1 /\ server_socket \notin Fds /\ -1 \notin Fds
      /\ client_socket' = client_socket /\ conn' = conn
  BY DEF Typed, Places, Listen, ListenFails, NoListener, net
<1>2. \A fd \in Fds : peer[fd] # Listener /\ peer[fd] \notin Conns
  BY <1>1
<1>3. \/ peer' = peer
      \/ \E fd \in Fds : server_socket' = fd /\ peer' = [peer EXCEPT ![fd] = Listener]
  BY DEF Listen, ListenFails, NoListener, net
<1>4. peer \in [Fds -> Conns \cup {Free, Listener}]
  BY DEF Typed, TypeOK
<1>5. \A fd \in Fds : peer'[fd] \notin Conns
  BY <1>2, <1>3, <1>4
<1>6. \A fd \in Fds : peer'[fd] = Listener => fd = server_socket'
  BY <1>2, <1>3, <1>4
<1>7. \A c \in Conns : conn'[c] # "on"
  BY <1>1, <1>2
<1>8. \A i \in Slots : client_socket'[i] \notin Fds
  BY <1>1
<1>9. \A fd, other \in Fds : ~ (peer'[fd] \in Conns /\ peer'[fd] = peer'[other])
  BY <1>5
<1> QED BY <1>5, <1>6, <1>7, <1>8, <1>9

LEMMA PairedAccept ==
  ASSUME Typed, Paired, Accept
  PROVE  Paired'
<1> USE NumbersAssumption, NamesAssumption
<1>1. PICK c \in Conns, fd \in Fds :
        /\ conn[c] = "queued" /\ NewFd(fd)
        /\ conn' = [conn EXCEPT ![c] = "on"] /\ peer' = [peer EXCEPT ![fd] = c]
        /\ \E i \in Slots : client_socket[i] < 0
                            /\ client_socket' = [client_socket EXCEPT ![i] = fd]
  BY DEF Accept
<1>2. PICK i \in Slots : /\ client_socket[i] < 0
                         /\ client_socket' = [client_socket EXCEPT ![i] = fd]
  BY <1>1
<1>3. /\ peer \in [Fds -> Conns \cup {Free, Listener}]
      /\ conn \in [Conns -> {"off", "queued", "on", "over"}]
      /\ client_socket \in [Slots -> Fds \cup {-1}] /\ server_socket' = server_socket
  BY DEF Typed, TypeOK, Accept
<1>4. peer[fd] = Free /\ peer[fd] \notin Conns /\ peer[fd] # Listener
  BY <1>1 DEF NewFd, FreeFds, Free, Listener
<1>5. /\ \A other \in Fds : peer'[other] = IF other = fd THEN c ELSE peer[other]
      /\ \A d \in Conns : conn'[d] = IF d = c THEN "on" ELSE conn[d]
      /\ \A j \in Slots : client_socket'[j] = IF j = i THEN fd ELSE client_socket[j]
  BY <1>1, <1>2, <1>3
<1>6. /\ client_socket[i] \notin Fds
      /\ \A j \in Slots : client_socket[j] # fd
      /\ \A other \in Fds : peer[other] # c
  <2>1. client_socket[i] \notin Fds
    <3> SUFFICES ASSUME client_socket[i] \in Fds PROVE FALSE
      OBVIOUS
    <3>1. client_socket[i] \in Nat
      OBVIOUS
    <3> QED BY <1>2, <3>1
  <2>2. \A j \in Slots : client_socket[j] # fd
    BY <1>4 DEF Paired
  <2>3. \A other \in Fds : peer[other] # c
    BY <1>1 DEF Paired
  <2> QED BY <2>1, <2>2, <2>3
<1>7. \A other \in Fds : peer'[other] = Listener => other = server_socket'
  BY <1>3, <1>5 DEF Paired
<1>8. \A other \in Fds : peer'[other] \in Conns =>
        conn'[peer'[other]] = "on" /\ \E j \in Slots : client_socket'[j] = other
  BY <1>3, <1>5, <1>6 DEF Paired
<1>9. \A one, other \in Fds : peer'[one] \in Conns /\ peer'[one] = peer'[other] => one = other
  BY <1>5, <1>6 DEF Paired
<1>10. \A d \in Conns : conn'[d] = "on" => \E other \in Fds : peer'[other] = d
  BY <1>4, <1>5 DEF Paired
<1>11. \A j \in Slots : client_socket'[j] \in Fds => peer'[client_socket'[j]] \in Conns
  <2>1. \A j \in Slots : client_socket[j] \in Fds => peer[client_socket[j]] \in Conns
    BY DEF Paired
  <2> QED BY <1>5, <1>6, <2>1
<1>12. \A j, k \in Slots : client_socket'[j] = client_socket'[k] /\ client_socket'[j] \in Fds => j = k
  <2>1. \A j, k \in Slots : client_socket[j] = client_socket[k] /\ client_socket[j] \in Fds => j = k
    BY DEF Paired
  <2> QED BY <1>5, <1>6, <2>1
<1> QED BY <1>7, <1>8, <1>9, <1>10, <1>11, <1>12 DEF Paired

\* A connection that is turned away, or lost by accept, was in the queue.
LEMMA PairedQueue ==
  ASSUME Paired, UNCHANGED <<peer, server_socket, client_socket>>,
         \A d \in Conns : (conn'[d] = "on") <=> (conn[d] = "on")
  PROVE  Paired'
BY DEF Paired

LEMMA PairedHangUp ==
  ASSUME Typed, Paired, HangUp
  PROVE  Paired'
<1> USE NumbersAssumption, NamesAssumption
<1> DEFINE fd == client_socket[slot]
<1>1. slot \in Slots /\ fd \in Fds /\ peer[fd] \in Conns
  BY AskerIsClient DEF HangUp, Busy, Asker
<1>2. /\ peer \in [Fds -> Conns \cup {Free, Listener}]
      /\ client_socket \in [Slots -> Fds \cup {-1}] /\ server_socket' = server_socket
  BY DEF Typed, TypeOK, HangUp
<1>3. /\ client_socket' = [client_socket EXCEPT ![slot] = -1] /\ Close({fd})
  BY DEF HangUp
<1> HIDE DEF fd
<1>4. /\ \A other \in Fds : peer'[other] = IF other = fd THEN Free ELSE peer[other]
      /\ \A d \in Conns : (conn'[d] = "on") <=> (conn[d] = "on" /\ d # peer[fd])
      /\ \A j \in Slots : client_socket'[j] = IF j = slot THEN -1 ELSE client_socket[j]
  <2>1. \A other \in Fds : peer'[other] = IF other = fd THEN Free ELSE peer[other]
    BY <1>3 DEF Close
  <2>2. \A j \in Slots : client_socket'[j] = IF j = slot THEN -1 ELSE client_socket[j]
    BY <1>2, <1>3
  <2>3. ASSUME NEW d \in Conns
        PROVE  (conn'[d] = "on") <=> (conn[d] = "on" /\ d # peer[fd])
    <3>1. conn'[d] = IF \/ \E other \in {fd} \cap Fds : peer[other] = d
                        \/ conn[d] = "queued" /\ \E other \in {fd} \cap Fds : peer[other] = Listener
                     THEN "over" ELSE conn[d]
      BY <1>3 DEF Close
    <3> QED BY <1>1, <3>1
  <2> QED BY <2>1, <2>2, <2>3
<1>5. Free \notin Conns /\ Free # Listener /\ -1 \notin Fds
  BY DEF Free, Listener
<1>6. \A other \in Fds : peer'[other] = Listener => other = server_socket'
  BY <1>2, <1>4, <1>5 DEF Paired
<1>7. \A other \in Fds : peer'[other] \in Conns =>
        conn'[peer'[other]] = "on" /\ \E j \in Slots : client_socket'[j] = other
  <2> SUFFICES ASSUME NEW other \in Fds, peer'[other] \in Conns
               PROVE  conn'[peer'[other]] = "on" /\ \E j \in Slots : client_socket'[j] = other
    OBVIOUS
  <2>1. other # fd /\ peer'[other] = peer[other] /\ peer[other] # peer[fd]
    BY <1>1, <1>4, <1>5 DEF Paired
  <2>2. PICK j \in Slots : client_socket[j] = other
    BY <2>1 DEF Paired
  <2>3. client_socket'[j] = other
    BY <1>4, <2>1, <2>2 DEF fd
  <2> QED BY <1>4, <2>1, <2>3 DEF Paired
<1>8. \A one, other \in Fds : peer'[one] \in Conns /\ peer'[one] = peer'[other] => one = other
  BY <1>4, <1>5 DEF Paired
<1>9. \A d \in Conns : conn'[d] = "on" => \E other \in Fds : peer'[other] = d
  BY <1>4 DEF Paired
<1>10. \A j \in Slots : client_socket'[j] \in Fds => peer'[client_socket'[j]] \in Conns
  <2> SUFFICES ASSUME NEW j \in Slots, client_socket'[j] \in Fds
               PROVE  peer'[client_socket'[j]] \in Conns
    OBVIOUS
  <2>1. j # slot /\ client_socket'[j] = client_socket[j]
    BY <1>4, <1>5
  <2>2. client_socket[j] # fd
    BY <1>1, <2>1 DEF Paired, fd
  <2>3. peer[client_socket[j]] \in Conns
    BY <2>1 DEF Paired
  <2> QED BY <1>4, <2>1, <2>2, <2>3
<1>11. \A j, k \in Slots : client_socket'[j] = client_socket'[k] /\ client_socket'[j] \in Fds => j = k
  BY <1>4, <1>5 DEF Paired
<1> QED BY <1>6, <1>7, <1>8, <1>9, <1>10, <1>11 DEF Paired

\* Everything that is open is watched, so nothing is left after a tear-down.
LEMMA PairedTearDown ==
  ASSUME Typed, Paired, TearDown
  PROVE  Paired'
<1> USE NumbersAssumption, NamesAssumption
<1>1. /\ peer \in [Fds -> Conns \cup {Free, Listener}]
      /\ client_socket \in [Slots -> Fds \cup {-1}]
  BY DEF Typed, TypeOK
<1>2. /\ Close(Watched) /\ \A j \in Slots : client_socket'[j] = -1
  BY DEF TearDown
<1>3. \A fd \in Fds : peer[fd] # Free => fd \in Watched
  <2>1. \A fd \in Fds : peer[fd] \in Conns => fd \in Watched
    <3> SUFFICES ASSUME NEW fd \in Fds, peer[fd] \in Conns PROVE fd \in Watched
      OBVIOUS
    <3>1. PICK i \in Slots : client_socket[i] = fd
      BY DEF Paired
    <3>2. client_socket[i] >= 0
      BY <3>1
    <3> QED BY <3>1, <3>2 DEF Watched
  <2>2. ASSUME NEW fd \in Fds, peer[fd] = Listener PROVE fd \in Watched
    <3>1. fd = server_socket
      BY <2>2 DEF Paired
    <3>2. fd >= 0
      OBVIOUS
    <3> QED BY <3>1, <3>2 DEF Watched
  <2> QED BY <1>1, <2>1, <2>2
<1>4. \A fd \in Fds : peer'[fd] = Free
  BY <1>1, <1>2, <1>3 DEF Close
<1>5. \A c \in Conns : conn'[c] # "on"
  <2> SUFFICES ASSUME NEW c \in Conns PROVE conn'[c] # "on"
    OBVIOUS
  <2>1. conn'[c] = IF \/ \E fd \in Watched \cap Fds : peer[fd] = c
                      \/ conn[c] = "queued" /\ \E fd \in Watched \cap Fds : peer[fd] = Listener
                   THEN "over" ELSE conn[c]
    BY <1>2 DEF Close
  <2>2. conn[c] = "on" => \E fd \in Watched \cap Fds : peer[fd] = c
    BY <1>3 DEF Paired
  <2> QED BY <2>1, <2>2
<1>6. Free \notin Conns /\ Free # Listener /\ -1 \notin Fds
  BY DEF Free, Listener
<1> QED BY <1>2, <1>4, <1>5, <1>6 DEF Paired

LEMMA PairedStep ==
  ASSUME Typed, Paired, [Next]_vars
  PROVE  Paired'
<1>1. CASE Listen \/ ListenFails \/ NoListener
  BY <1>1, PairedListen
<1>2. CASE Accept
  BY <1>2, PairedAccept
<1>3. CASE TurnAway \/ AcceptFails
  <2>1. PICK c \in Conns : conn[c] = "queued" /\ conn' \in {conn, [conn EXCEPT ![c] = "over"]}
    BY <1>3 DEF TurnAway, AcceptFails
  <2>2. UNCHANGED <<peer, server_socket, client_socket>>
    BY <1>3 DEF TurnAway, AcceptFails
  <2>3. CASE conn' = conn
    BY <2>2, <2>3, PairedFrame
  <2>4. CASE conn' = [conn EXCEPT ![c] = "over"]
    <3>1. \A d \in Conns : (conn'[d] = "on") <=> (conn[d] = "on")
      BY <2>1, <2>4 DEF Typed, TypeOK
    <3> QED BY <2>2, <3>1, PairedQueue
  <2> QED BY <2>1, <2>3, <2>4
<1>4. CASE HangUp
  BY <1>4, PairedHangUp
<1>5. CASE TearDown
  BY <1>5, PairedTearDown
<1>6. CASE \/ Select \/ SelectBroken \/ SelectFails \/ NoAccept \/ Skip \/ Serve
           \/ ReadPart \/ Receive \/ Handle \/ Reject
  <2>1. UNCHANGED <<peer, conn, server_socket, client_socket>>
    BY <1>6 DEF Select, SelectBroken, SelectFails, NoAccept, Skip, Serve, ReadPart, Receive,
                Handle, Reject, net
  <2> QED BY <2>1, PairedFrame
<1>7. ASSUME NEW c \in Conns, Client(c)
      PROVE  Paired'
  <2>1. CASE Connect(c)
    <3>1. conn[c] = "off" /\ conn' = [conn EXCEPT ![c] = "queued"]
          /\ UNCHANGED <<peer, server_socket, client_socket>>
      BY <2>1 DEF Connect, loop
    <3>2. \A d \in Conns : (conn'[d] = "on") <=> (conn[d] = "on")
      BY <3>1 DEF Typed, TypeOK
    <3> QED BY <3>1, <3>2, PairedQueue
  <2>2. CASE Send(c) \/ SendTail(c) \/ HangsUp(c)
    <3>1. UNCHANGED <<peer, conn, server_socket, client_socket>>
      BY <2>2 DEF Send, SendTail, HangsUp, net, loop
    <3> QED BY <3>1, PairedFrame
  <2> QED BY <1>7, <2>1, <2>2 DEF Client
<1>8. CASE UNCHANGED vars
  BY <1>8, PairedFrame DEF vars, net, loop
<1> QED BY <1>1, <1>2, <1>3, <1>4, <1>5, <1>6, <1>7, <1>8 DEF Next, Thread, Client
-----------------------------------------------------------------------------
(***************************************************************************)
(* Who is ready.                                                           *)
(***************************************************************************)
\* What clients do only adds to what there is.
LEMMA ClientsAdd ==
  ASSUME Typed, NEW c \in Conns, Client(c)
  PROVE  /\ closed \subseteq closed'
         /\ \A d \in Conns : inbox[d] # <<>> => inbox'[d] # <<>>
         /\ UNCHANGED <<loop, port, peer>>
<1>1. closed \subseteq closed' /\ UNCHANGED <<loop, port, peer>>
  BY DEF Client, Connect, Send, SendTail, HangsUp, clients, net
<1>2. inbox \in [Conns -> Seq(Parts)]
  BY DEF Typed, Sequences
<1>3. \A what \in {"whole", "head", "tail"} : Append(inbox[c], Part(c, what)) # <<>>
  BY <1>2, PartTypes, AppendProperties
<1>4. inbox' = inbox \/ \E what \in {"whole", "head", "tail"} :
                           inbox' = [inbox EXCEPT ![c] = Append(@, Part(c, what))]
  BY DEF Client, Connect, Send, SendTail, HangsUp
<1>5. \A d \in Conns : inbox[d] # <<>> => inbox'[d] # <<>>
  BY <1>2, <1>3, <1>4
<1> QED BY <1>1, <1>5

LEMMA ReadySelect ==
  ASSUME Typed, Paired, Select
  PROVE  Ready'
<1>1. /\ pc' = "accept" /\ readset' = {fd \in Watched : Readable(fd)}
      /\ UNCHANGED <<client_socket, peer, inbox, closed>>
  BY DEF Select, net, clients
<1>2. ~ Busy' /\ pc' # "serve"
  BY <1>1 DEF Busy
<1>3. \A fd \in readset' : peer'[fd] # Free
  BY <1>1, NamesAssumption DEF Readable, Free, Listener
<1>4. ASSUME NEW i \in Slots, client_socket'[i] \in readset'
      PROVE  HasSomething(client_socket[i])'
  <2>1. Readable(client_socket[i]) /\ client_socket[i] \in Watched
    BY <1>1, <1>4
  <2>2. client_socket[i] \in Fds
    <3>1. Watched \subseteq Fds
      BY WatchedTypes DEF Typed
    <3> QED BY <2>1, <3>1
  <2>3. peer[client_socket[i]] \in Conns
    BY <2>2 DEF Paired
  <2>4. HasSomething(client_socket[i])
    BY <2>1, <2>3, NamesAssumption DEF Readable, HasSomething
  <2> QED BY <1>1, <2>4 DEF HasSomething
<1> QED BY <1>1, <1>2, <1>3, <1>4 DEF Ready

\* After accept the first slot comes first; a new connection was not selected.
LEMMA ReadyAccept ==
  ASSUME Typed, Ready, NoAccept \/ Accept \/ TurnAway \/ AcceptFails
  PROVE  Ready'
<1>1. /\ pc = "accept" /\ pc' = "serve" /\ slot' = 1 /\ ~ Busy'
      /\ UNCHANGED <<readset, inbox, closed>>
  BY DEF NoAccept, Accept, TurnAway, AcceptFails, ToClients, clients, Busy
<1>2. \A i \in Slots : client_socket[i] \in readset => HasSomething(client_socket[i])
  BY <1>1 DEF Ready
<1>3. ASSUME NEW i \in Slots, client_socket'[i] \in readset
      PROVE  client_socket'[i] = client_socket[i] /\ peer'[client_socket[i]] = peer[client_socket[i]]
  <2>1. CASE NoAccept \/ TurnAway \/ AcceptFails
    BY <2>1 DEF NoAccept, TurnAway, AcceptFails, net
  <2>2. CASE Accept
    <3>1. PICK c \in Conns, fd \in Fds :
            /\ NewFd(fd) /\ peer' = [peer EXCEPT ![fd] = c]
            /\ \E j \in Slots : client_socket' = [client_socket EXCEPT ![j] = fd]
      BY <2>2 DEF Accept
    <3>2. PICK j \in Slots : client_socket' = [client_socket EXCEPT ![j] = fd]
      BY <3>1
    <3>3. fd \notin readset
      BY <1>1, <3>1 DEF Ready, NewFd, FreeFds
    <3>4. client_socket \in [Slots -> Fds \cup {-1}]
      BY DEF Typed, TypeOK
    <3>5. client_socket'[i] = client_socket[i] /\ client_socket[i] # fd
      BY <1>3, <3>2, <3>3, <3>4
    <3>6. peer \in [Fds -> Conns \cup {Free, Listener}]
      BY DEF Typed, TypeOK
    <3> QED BY <3>1, <3>5, <3>6
  <2> QED BY <2>1, <2>2
<1>4. ASSUME NEW i \in Slots, client_socket'[i] \in readset'
      PROVE  HasSomething(client_socket[i])'
  <2>1. client_socket'[i] = client_socket[i] /\ peer'[client_socket[i]] = peer[client_socket[i]]
    BY <1>1, <1>3, <1>4
  <2>2. HasSomething(client_socket[i])
    BY <1>1, <1>2, <1>4, <2>1
  <2> QED BY <1>1, <2>1, <2>2 DEF HasSomething
<1>5. \A i \in slot' .. MaxClients : i \in Slots
  BY <1>1 DEF Slots
<1> QED BY <1>1, <1>4, <1>5 DEF Ready

\* The clients after the one at slot have not been served.
Waiting == \A i \in slot + 1 .. MaxClients :
             client_socket[i] \in readset => HasSomething(client_socket[i])

LEMMA ReadyWaiting ==
  ASSUME Typed, Ready, pc = "serve" \/ Busy
  PROVE  Waiting /\ slot \in Slots /\ slot \in Nat
<1>1. slot \in Slots /\ slot \in Nat
  BY NumbersAssumption DEF Typed, Places, Slots
<1>2. CASE pc = "serve"
  <2>1. \A i \in slot + 1 .. MaxClients : i \in slot .. MaxClients
    BY <1>1, NumbersAssumption
  <2> QED BY <1>1, <1>2, <2>1 DEF Ready, Waiting
<1>3. CASE Busy
  BY <1>1, <1>3 DEF Ready, Waiting
<1> QED BY <1>2, <1>3

\* On to the next slot.
LEMMA ReadyNext ==
  ASSUME NextSlot, slot \in Nat,
         \A i \in slot + 1 .. MaxClients :
           client_socket'[i] \in readset => HasSomething(client_socket[i])'
  PROVE  Ready'
<1>1. CASE slot = MaxClients
  <2>1. pc' = "select"
    BY <1>1 DEF NextSlot
  <2> QED BY <2>1 DEF Ready, Busy
<1>2. CASE slot # MaxClients
  <2>1. pc' = "serve" /\ slot' = slot + 1 /\ readset' = readset
    BY <1>2 DEF NextSlot
  <2>2. ~ Busy'
    BY <2>1 DEF Busy
  <2> QED BY <2>1, <2>2 DEF Ready
<1> QED BY <1>1, <1>2

LEMMA ReadyHangUp ==
  ASSUME Typed, Paired, Ready, HangUp
  PROVE  Ready'
<1>1. Busy /\ NextSlot /\ inbox' = inbox /\ closed' = closed
  BY DEF HangUp, Busy, clients
<1>2. Waiting /\ slot \in Slots /\ slot \in Nat
  BY <1>1, ReadyWaiting
<1> DEFINE fd == client_socket[slot]
<1>3. /\ fd \in Fds /\ Close({fd}) /\ client_socket' = [client_socket EXCEPT ![slot] = -1]
      /\ client_socket \in [Slots -> Fds \cup {-1}] /\ readset \subseteq Fds
  BY <1>1, AskerIsClient DEF HangUp, Typed, TypeOK
<1>4. ASSUME NEW i \in slot + 1 .. MaxClients, client_socket'[i] \in readset
      PROVE  HasSomething(client_socket[i])'
  <2>1. i \in Slots /\ i # slot
    BY <1>2, NumbersAssumption DEF Slots
  <2>2. client_socket'[i] = client_socket[i] /\ client_socket[i] \in Fds
    BY <1>3, <1>4, <2>1
  <2>3. client_socket[i] # fd
    BY <1>2, <2>1, <2>2 DEF Paired
  <2>4. peer'[client_socket[i]] = peer[client_socket[i]]
    BY <1>3, <2>2, <2>3 DEF Close
  <2>5. HasSomething(client_socket[i])
    BY <1>2, <1>4, <2>2 DEF Waiting
  <2> QED BY <1>1, <2>2, <2>4, <2>5 DEF HasSomething
<1> QED BY <1>1, <1>2, <1>4, ReadyNext

LEMMA ReadyReceive ==
  ASSUME Typed, Paired, Ready, Receive
  PROVE  Ready'
<1>1. /\ Busy /\ Busy' /\ pc' # "accept" /\ pc' # "serve"
      /\ UNCHANGED <<slot, client_socket, readset, peer, closed>>
      /\ inbox' = [inbox EXCEPT ![Asker] = <<>>]
  BY DEF Receive, Busy, net, clients
<1>2. Waiting /\ slot \in Slots /\ slot \in Nat
  BY <1>1, ReadyWaiting
<1>3. Asker \in Conns /\ socket_fd \in Fds /\ socket_fd = client_socket[slot]
  BY <1>1, AskerIsClient
<1>4. inbox \in [Conns -> Seq(Parts)] /\ readset \subseteq Fds
  BY DEF Typed, Sequences, TypeOK
<1>5. ASSUME NEW i \in slot + 1 .. MaxClients, client_socket[i] \in readset
      PROVE  HasSomething(client_socket[i])'
  <2>1. i \in Slots /\ i # slot /\ client_socket[i] \in Fds
    <3>1. i \in Slots /\ i # slot
      BY <1>2, NumbersAssumption DEF Slots
    <3>2. client_socket[i] \in Fds
      BY <1>4, <1>5
    <3> QED BY <3>1, <3>2
  <2>2. client_socket[i] # socket_fd
    BY <1>2, <1>3, <2>1 DEF Paired
  <2>3. peer[client_socket[i]] \in Conns /\ peer[client_socket[i]] # Asker
    BY <1>3, <2>1, <2>2 DEF Paired, Asker
  <2>4. HasSomething(client_socket[i])
    BY <1>2, <1>5 DEF Waiting
  <2>5. inbox'[peer[client_socket[i]]] = inbox[peer[client_socket[i]]]
    BY <1>1, <1>4, <2>3
  <2> QED BY <1>1, <2>4, <2>5 DEF HasSomething
<1> QED BY <1>1, <1>5 DEF Ready

LEMMA ReadyStep ==
  ASSUME Typed, Paired, Ready, [Next]_vars
  PROVE  Ready'
<1>1. CASE Select
  BY <1>1, ReadySelect
<1>2. CASE NoAccept \/ Accept \/ TurnAway \/ AcceptFails
  BY <1>2, ReadyAccept
<1>3. CASE Receive
  BY <1>3, ReadyReceive
<1>4. CASE HangUp
  BY <1>4, ReadyHangUp
<1>5. CASE Listen \/ ListenFails \/ NoListener \/ SelectBroken \/ SelectFails \/ TearDown
  <2>1. pc' \in {"select", "teardown", "listen"}
    BY <1>5 DEF Listen, ListenFails, NoListener, SelectBroken, SelectFails, TearDown
  <2> QED BY <2>1 DEF Ready, Busy
<1>6. CASE Skip \/ Handle \/ Reject
  <2>1. /\ pc = "serve" \/ Busy
        /\ NextSlot /\ UNCHANGED <<client_socket, peer, inbox, closed>>
    BY <1>6 DEF Skip, Handle, Reject, Busy, net, clients
  <2>2. Waiting /\ slot \in Nat
    BY <2>1, ReadyWaiting
  <2> QED BY <2>1, <2>2, ReadyNext DEF Waiting, HasSomething
<1>7. CASE Serve \/ ReadPart
  <2>1. /\ pc = "serve" \/ Busy
        /\ Busy' /\ pc' # "accept" /\ pc' # "serve"
        /\ UNCHANGED <<slot, readset, client_socket, peer, inbox, closed>>
    BY <1>7 DEF Serve, ReadPart, Busy, net, clients
  <2>2. Waiting
    BY <2>1, ReadyWaiting
  <2> QED BY <2>1, <2>2 DEF Ready, Waiting, HasSomething
<1>8. ASSUME NEW c \in Conns, Client(c)
      PROVE  Ready'
  <2>1. /\ closed \subseteq closed'
        /\ \A d \in Conns : inbox[d] # <<>> => inbox'[d] # <<>>
        /\ UNCHANGED <<pc, slot, readset, client_socket, peer>>
    BY <1>8, ClientsAdd DEF loop
  <2>2. \A i : HasSomething(client_socket[i]) => HasSomething(client_socket[i])'
    BY <2>1 DEF HasSomething
  <2>3. Busy' = Busy
    BY <2>1 DEF Busy
  <2> QED BY <2>1, <2>2, <2>3 DEF Ready
<1>9. CASE UNCHANGED vars
  BY <1>9 DEF vars, loop, net, clients, Ready, Busy, HasSomething
<1> QED BY <1>1, <1>2, <1>3, <1>4, <1>5, <1>6, <1>7, <1>8, <1>9 DEF Next, Thread, Client

LEMMA NeverWaitsStep ==
  ASSUME Typed, Paired, Ready, NeverWaitsForOne, [Next]_vars
  PROVE  NeverWaitsForOne'
<1>1. CASE Serve
  <2>1. slot \in slot .. MaxClients
    BY <1>1, NumbersAssumption DEF Serve, Typed, Places, Slots
  <2>2. HasSomething(client_socket[slot])
    BY <1>1, <2>1 DEF Serve, Ready
  <2>3. Asker' = peer[client_socket[slot]] /\ inbox' = inbox /\ closed' = closed
    BY <1>1 DEF Serve, Asker, net, clients
  <2> QED BY <2>2, <2>3 DEF HasSomething, NeverWaitsForOne
<1>2. CASE ReadPart
  <2>1. held' # <<>>
    <3>1. held \in Seq(Parts) /\ Head(ring) \in Parts
      BY <1>2, HeadTailProperties DEF ReadPart, Typed, Sequences
    <3> QED BY <1>2, <3>1, AppendProperties DEF ReadPart
  <2> QED BY <2>1 DEF NeverWaitsForOne
<1>3. CASE Receive
  BY <1>3 DEF Receive, NeverWaitsForOne
<1>4. CASE \/ Listen \/ ListenFails \/ NoListener \/ Select \/ SelectBroken \/ SelectFails
           \/ NoAccept \/ Accept \/ TurnAway \/ AcceptFails \/ TearDown
           \/ Skip \/ Handle \/ Reject \/ HangUp
  <2>1. pc' # "request"
    BY <1>4 DEF Listen, ListenFails, NoListener, Select, SelectBroken, SelectFails, NoAccept, Accept,
                TurnAway, AcceptFails, TearDown, ToClients, Skip, Handle, Reject, HangUp, NextSlot
  <2> QED BY <2>1 DEF NeverWaitsForOne
<1>5. ASSUME NEW c \in Conns, Client(c)
      PROVE  NeverWaitsForOne'
  <2>1. /\ closed \subseteq closed'
        /\ \A d \in Conns : inbox[d] # <<>> => inbox'[d] # <<>>
        /\ UNCHANGED <<pc, ring, held, socket_fd, peer>>
    BY <1>5, ClientsAdd DEF loop, port
  <2>2. Asker' = Asker
    BY <2>1 DEF Asker
  <2>3. pc = "request" => Asker \in Conns
    BY AskerIsClient DEF Busy
  <2> QED BY <2>1, <2>2, <2>3 DEF NeverWaitsForOne
<1>6. CASE UNCHANGED vars
  BY <1>6 DEF vars, loop, port, net, clients, NeverWaitsForOne, Asker
<1> QED BY <1>1, <1>2, <1>3, <1>4, <1>5, <1>6 DEF Next, Thread, Client
-----------------------------------------------------------------------------
(***************************************************************************)
(* Whose requests are under way.                                           *)
(***************************************************************************)
LEMMA NoParts ==
  /\ NoEnd(<<>>) /\ OneEnd(<<>>) /\ \A c : AllFrom(<<>>, c)
BY EmptySeq DEF NoEnd, OneEnd, AllFrom

LEMMA AppendPart ==
  ASSUME NEW s \in Seq(Parts), NEW p \in Parts, NEW c, AllFrom(s, c), p.from = c, NoEnd(s)
  PROVE  /\ AllFrom(Append(s, p), c) /\ OneEnd(Append(s, p)) /\ Append(s, p) # <<>>
         /\ ~ Ends(p) => NoEnd(Append(s, p))
<1>1. /\ Len(s) \in Nat /\ Len(Append(s, p)) = Len(s) + 1 /\ Append(s, p) # <<>>
      /\ \A i \in 1 .. Len(s) : Append(s, p)[i] = s[i]
      /\ Append(s, p)[Len(s) + 1] = p
  BY AppendProperties, LenProperties
<1>2. \A i \in 1 .. Len(Append(s, p)) : i \in 1 .. Len(s) \/ i = Len(s) + 1
  BY <1>1
<1>3. \A i \in 1 .. Len(s) : ~ Ends(Append(s, p)[i]) /\ Append(s, p)[i].from = c
  BY <1>1 DEF NoEnd, AllFrom
<1> QED BY <1>1, <1>2, <1>3 DEF AllFrom, OneEnd, NoEnd

LEMMA TailPart ==
  ASSUME NEW s \in Seq(Parts), s # <<>>, NEW c, AllFrom(s, c), OneEnd(s)
  PROVE  /\ Tail(s) \in Seq(Parts) /\ AllFrom(Tail(s), c) /\ OneEnd(Tail(s))
         /\ Head(s) \in Parts /\ Head(s).from = c
         /\ ~ NoEnd(Tail(s)) => ~ NoEnd(s)
         /\ Ends(Head(s)) => Tail(s) = <<>> /\ ~ NoEnd(s)
<1>1. /\ Tail(s) \in Seq(Parts) /\ Len(s) \in Nat \ {0} /\ Len(Tail(s)) = Len(s) - 1
      /\ \A i \in 1 .. Len(Tail(s)) : Tail(s)[i] = s[i + 1]
      /\ Head(s) \in Parts /\ Head(s) = s[1]
  BY HeadTailProperties, EmptySeq
<1>2. \A i \in 1 .. Len(Tail(s)) : i + 1 \in 1 .. Len(s) /\ (i + 1 = Len(s) => i = Len(Tail(s)))
  <2>1. \A n \in Nat \ {0} : \A m : m = n - 1 =>
          \A i \in 1 .. m : i + 1 \in 1 .. n /\ (i + 1 = n => i = m)
    OBVIOUS
  <2> QED BY <1>1, <2>1, Zenon
<1>3. 1 \in 1 .. Len(s)
  BY <1>1
<1>4. AllFrom(Tail(s), c) /\ Head(s).from = c
  BY <1>1, <1>2, <1>3 DEF AllFrom
<1>5. OneEnd(Tail(s))
  BY <1>1, <1>2 DEF OneEnd
<1>6. ~ NoEnd(Tail(s)) => ~ NoEnd(s)
  BY <1>1, <1>2 DEF NoEnd
<1>7. Ends(Head(s)) => Tail(s) = <<>> /\ ~ NoEnd(s)
  <2> SUFFICES ASSUME Ends(Head(s)) PROVE Tail(s) = <<>> /\ ~ NoEnd(s)
    OBVIOUS
  <2>1. 1 = Len(s) /\ ~ NoEnd(s)
    BY <1>1, <1>3 DEF OneEnd, NoEnd
  <2>2. Len(Tail(s)) = 0
    <3>1. \A n, m : n = 1 /\ m = n - 1 => m = 0
      OBVIOUS
    <3> QED BY <1>1, <2>1, <3>1, Zenon
  <2> QED BY <1>1, <2>1, <2>2, EmptySeq
<1> QED BY <1>1, <1>4, <1>5, <1>6, <1>7

\* No request is under way when the thread is not in modbus_slave_wait_handle.
LEMMA OneRequestIdle ==
  ASSUME OneRequest, UNCHANGED <<inbox, sent, answers, owes>>,
         ~ Busy', ring' = <<>>, held' = <<>>
  PROVE  OneRequest'
BY DEF OneRequest

LEMMA OneRequestServe ==
  ASSUME OneRequest, Serve
  PROVE  OneRequest'
<1>1. ring' = <<>> /\ held' = <<>> /\ UNCHANGED <<inbox, sent, answers, owes>> /\ Busy'
  BY DEF Serve, OneRequest, Busy, clients
<1> QED BY <1>1, NoParts DEF OneRequest

LEMMA OneRequestRead ==
  ASSUME Typed, Paired, OneRequest, ReadPart
  PROVE  OneRequest'
<1>1. /\ Busy /\ Busy' /\ ring # <<>>
      /\ held' = Append(held, Head(ring)) /\ ring' = Tail(ring)
      /\ UNCHANGED <<inbox, sent, answers, owes, socket_fd, peer>>
  BY DEF ReadPart, Busy, clients, net
<1>2. Asker' = Asker
  BY <1>1 DEF Asker
<1>3. ring \in Seq(Parts) /\ held \in Seq(Parts)
  BY DEF Typed, Sequences
<1>4. /\ AllFrom(ring, Asker) /\ AllFrom(held, Asker) /\ OneEnd(ring) /\ NoEnd(held)
      /\ sent[Asker] > Len(answers[Asker])
      /\ ~ NoEnd(ring) => inbox[Asker] = <<>>
      /\ Asker \in owes => NoEnd(ring)
  BY <1>1 DEF OneRequest
<1>5. /\ Tail(ring) \in Seq(Parts) /\ AllFrom(Tail(ring), Asker) /\ OneEnd(Tail(ring))
      /\ Head(ring) \in Parts /\ Head(ring).from = Asker
      /\ ~ NoEnd(Tail(ring)) => ~ NoEnd(ring)
      /\ Ends(Head(ring)) => Tail(ring) = <<>> /\ ~ NoEnd(ring)
  BY <1>1, <1>3, <1>4, TailPart
<1>6. /\ AllFrom(held', Asker) /\ OneEnd(held')
      /\ ~ NoEnd(held') => Ends(Head(ring))
  BY <1>1, <1>3, <1>4, <1>5, AppendPart
<1>7. \A c \in Conns :
        /\ AllFrom(inbox'[c], c) /\ OneEnd(inbox'[c])
        /\ sent'[c] >= Len(answers'[c])
        /\ inbox'[c] # <<>> => sent'[c] > Len(answers'[c])
        /\ c \in owes' => NoEnd(inbox'[c]) /\ sent'[c] > Len(answers'[c])
  BY <1>1 DEF OneRequest
<1>8. /\ AllFrom(ring', Asker') /\ AllFrom(held', Asker')
      /\ OneEnd(ring') /\ OneEnd(held')
      /\ sent'[Asker'] > Len(answers'[Asker'])
  BY <1>1, <1>2, <1>4, <1>5, <1>6
<1>9. ~ NoEnd(ring') => inbox'[Asker'] = <<>>
  BY <1>1, <1>2, <1>4, <1>5
<1>10. ~ NoEnd(held') => ring' = <<>> /\ inbox'[Asker'] = <<>>
  BY <1>1, <1>2, <1>4, <1>5, <1>6
<1>11. Asker' \in owes' => NoEnd(ring') /\ NoEnd(held')
  BY <1>1, <1>2, <1>4, <1>5, <1>6
<1> QED BY <1>1, <1>7, <1>8, <1>9, <1>10, <1>11 DEF OneRequest

LEMMA OneRequestReceive ==
  ASSUME Typed, Paired, OneRequest, Receive
  PROVE  OneRequest'
<1>1. /\ Busy /\ Busy' /\ ring = <<>> /\ ring' = inbox[Asker] /\ inbox[Asker] # <<>>
      /\ inbox' = [inbox EXCEPT ![Asker] = <<>>]
      /\ UNCHANGED <<held, sent, answers, owes, socket_fd, peer>>
  BY DEF Receive, Busy, clients, net
<1>2. Asker' = Asker /\ Asker \in Conns
  BY <1>1, AskerIsClient DEF Asker
<1>3. inbox \in [Conns -> Seq(Parts)]
  BY DEF Typed, Sequences
<1>4. /\ AllFrom(held, Asker) /\ OneEnd(held) /\ NoEnd(held)
  BY <1>1 DEF OneRequest
<1>5. /\ AllFrom(ring', Asker) /\ OneEnd(ring') /\ sent[Asker] > Len(answers[Asker])
      /\ Asker \in owes => NoEnd(ring')
  BY <1>1, <1>2 DEF OneRequest
<1>6. /\ inbox'[Asker] = <<>>
      /\ \A c \in Conns : c # Asker => inbox'[c] = inbox[c]
  BY <1>1, <1>2, <1>3
<1>7. ASSUME NEW c \in Conns
      PROVE  /\ AllFrom(inbox'[c], c) /\ OneEnd(inbox'[c])
             /\ sent'[c] >= Len(answers'[c])
             /\ inbox'[c] # <<>> => sent'[c] > Len(answers'[c])
             /\ c \in owes' => NoEnd(inbox'[c]) /\ sent'[c] > Len(answers'[c])
  <2>1. sent[c] >= Len(answers[c])
    BY DEF OneRequest
  <2>2. CASE c = Asker
    BY <1>1, <1>5, <1>6, <2>1, <2>2, NoParts
  <2>3. CASE c # Asker
    BY <1>1, <1>6, <2>3 DEF OneRequest
  <2> QED BY <2>2, <2>3
<1> QED BY <1>1, <1>2, <1>4, <1>5, <1>6, <1>7 DEF OneRequest

\* A request that is answered was the only one of its client.
LEMMA OneRequestHandle ==
  ASSUME Typed, Paired, OneRequest, Handle
  PROVE  OneRequest'
<1>1. /\ Busy /\ ~ Busy' /\ IsRequest(held) /\ held' = <<>> /\ ring' = ring
      /\ answers' = [answers EXCEPT ![Asker] = Append(@, held[1].from)]
      /\ UNCHANGED <<inbox, sent, owes>>
  BY DEF Handle, Busy, NextSlot, clients
<1>2. Asker \in Conns /\ answers \in [Conns -> Seq(Conns)]
  BY <1>1, AskerIsClient DEF Typed, Sequences
<1>3. ~ NoEnd(held)
  <2>1. CASE Len(held) = 1 /\ held[1].part = "whole"
    <3>1. 1 \in 1 .. Len(held) /\ Ends(held[1])
      BY <2>1 DEF Ends
    <3> QED BY <3>1 DEF NoEnd
  <2>2. CASE Len(held) = 2 /\ held[2] = Part(held[1].from, "tail")
    <3>1. 2 \in 1 .. Len(held) /\ Ends(held[2])
      BY <2>2 DEF Ends, Part
    <3> QED BY <3>1 DEF NoEnd
  <2> QED BY <1>1, <2>1, <2>2 DEF IsRequest
<1>4. /\ ring = <<>> /\ inbox[Asker] = <<>> /\ Asker \notin owes
      /\ sent[Asker] > Len(answers[Asker])
  BY <1>1, <1>3, NoParts DEF OneRequest
<1>5. \A c \in Conns : c # Asker => answers'[c] = answers[c]
  BY <1>1, <1>2
<1>6. ASSUME NEW c \in Conns
      PROVE  /\ AllFrom(inbox'[c], c) /\ OneEnd(inbox'[c])
             /\ sent'[c] >= Len(answers'[c])
             /\ inbox'[c] # <<>> => sent'[c] > Len(answers'[c])
             /\ c \in owes' => NoEnd(inbox'[c]) /\ sent'[c] > Len(answers'[c])
  <2>1. CASE c = Asker
    <3>1. /\ held[1].from \in Conns /\ answers[c] \in Seq(Conns)
          /\ answers'[c] = Append(answers[c], held[1].from)
      <4>1. held \in Seq(Parts) /\ 1 \in 1 .. Len(held)
        BY <1>1 DEF Typed, Sequences, IsRequest
      <4>2. held[1] \in Parts
        BY <4>1, ElementOfSeq
      <4> QED BY <1>1, <1>2, <2>1, <4>2 DEF Parts
    <3>2. Len(answers'[c]) = Len(answers[c]) + 1 /\ Len(answers[c]) \in Nat
      BY <3>1, AppendProperties, LenProperties
    <3>3. sent[c] \in Nat
      BY NumbersAssumption DEF Typed, TypeOK
    <3>4. sent'[c] >= Len(answers'[c])
      BY <1>1, <1>4, <2>1, <3>2, <3>3
    <3> QED BY <1>1, <1>4, <2>1, <3>4, NoParts
  <2>2. CASE c # Asker
    BY <1>1, <1>5, <2>2 DEF OneRequest
  <2> QED BY <2>1, <2>2
<1> QED BY <1>1, <1>4, <1>6 DEF OneRequest

\* A client that has its answers has nothing under way, so what it sends is all
\* there is of it.
LEMMA OneRequestSend ==
  ASSUME Typed, Paired, OneRequest, Pipelined = {}, NEW c \in Conns, Send(c) \/ SendTail(c)
  PROVE  OneRequest'
<1>1. /\ inbox \in [Conns -> Seq(Parts)] /\ sent \in [Conns -> 0 .. MaxRequests]
      /\ answers \in [Conns -> Seq(Conns)] /\ MaxRequests \in Nat
  BY NumbersAssumption DEF Typed, Sequences, TypeOK
<1>2. /\ UNCHANGED <<pc, socket_fd, peer, ring, held, answers>>
      /\ Asker' = Asker /\ Busy' = Busy
  BY DEF Send, SendTail, loop, port, net, Asker, Busy
<1>3. Busy => Asker \in Conns
  BY AskerIsClient
<1>4. Len(answers[c]) \in Nat /\ sent[c] \in Nat
  BY <1>1, LenProperties
<1>5. PICK what \in {"whole", "head", "tail"} :
        /\ inbox' = [inbox EXCEPT ![c] = Append(@, Part(c, what))]
        /\ owes' = IF what = "head" THEN owes \cup {c} ELSE owes \ {c}
  BY DEF Send, SendTail, Open
<1>6. /\ NoEnd(inbox[c])
      /\ Busy /\ Asker = c => NoEnd(ring) /\ NoEnd(held)
      /\ sent'[c] > Len(answers[c]) /\ \A d \in Conns : d # c => sent'[d] = sent[d]
  <2>1. CASE Send(c)
    <3>1. Len(answers[c]) >= sent[c] /\ sent' = [sent EXCEPT ![c] = @ + 1]
      BY <2>1 DEF Send
    <3>2. ~ (sent[c] > Len(answers[c]))
      BY <1>4, <3>1
    <3>3. inbox[c] = <<>> /\ (Busy /\ Asker = c => ring = <<>> /\ held = <<>>)
      BY <3>2 DEF OneRequest
    <3>4. sent'[c] = sent[c] + 1 /\ \A d \in Conns : d # c => sent'[d] = sent[d]
      BY <1>1, <3>1
    <3>5. sent'[c] > Len(answers[c])
      <4>1. sent[c] >= Len(answers[c])
        BY DEF OneRequest
      <4> QED BY <1>4, <3>4, <4>1
    <3> QED BY <3>3, <3>4, <3>5, NoParts
  <2>2. CASE SendTail(c)
    <3>1. c \in owes /\ sent' = sent
      BY <2>2 DEF SendTail
    <3> QED BY <3>1 DEF OneRequest
  <2> QED BY <2>1, <2>2
<1>7. \A d \in Conns : d # c => inbox'[d] = inbox[d] /\ (d \in owes' <=> d \in owes)
  BY <1>1, <1>5
<1>8. /\ inbox[c] \in Seq(Parts) /\ AllFrom(inbox[c], c)
      /\ inbox'[c] = Append(inbox[c], Part(c, what)) /\ Part(c, what) \in Parts
      /\ Part(c, what).from = c /\ (Ends(Part(c, what)) <=> what # "head")
  BY <1>1, <1>5 DEF OneRequest, Part, Parts, Ends
<1>9. /\ AllFrom(inbox'[c], c) /\ OneEnd(inbox'[c])
      /\ what = "head" => NoEnd(inbox'[c])
  BY <1>6, <1>8, AppendPart
<1>10. c \in owes' => what = "head"
  BY <1>5
<1>11. ASSUME NEW d \in Conns
       PROVE  /\ AllFrom(inbox'[d], d) /\ OneEnd(inbox'[d])
              /\ sent'[d] >= Len(answers'[d])
              /\ inbox'[d] # <<>> => sent'[d] > Len(answers'[d])
              /\ d \in owes' => NoEnd(inbox'[d]) /\ sent'[d] > Len(answers'[d])
  <2>1. CASE d = c
    <3>1. sent'[c] > Len(answers'[c]) /\ sent'[c] >= Len(answers'[c])
      <4>1. sent'[c] \in Int
        BY <1>1, <1>6 DEF Send, SendTail
      <4> QED BY <1>2, <1>4, <1>6, <4>1
    <3> QED BY <1>9, <1>10, <2>1, <3>1
  <2>2. CASE d # c
    BY <1>2, <1>6, <1>7, <2>2 DEF OneRequest
  <2> QED BY <2>1, <2>2
<1>12. ASSUME Busy
       PROVE  /\ ring # <<>> \/ held # <<>> => sent'[Asker] > Len(answers[Asker])
              /\ ~ NoEnd(ring) => inbox'[Asker] = <<>>
              /\ ~ NoEnd(held) => ring = <<>> /\ inbox'[Asker] = <<>>
              /\ Asker \in owes' => NoEnd(ring) /\ NoEnd(held)
  <2>1. CASE Asker = c
    BY <1>6, <1>12, <2>1
  <2>2. CASE Asker # c
    BY <1>3, <1>6, <1>7, <1>12, <2>2 DEF OneRequest
  <2> QED BY <2>1, <2>2
<1> QED BY <1>2, <1>11, <1>12 DEF OneRequest

LEMMA OneRequestStep ==
  ASSUME Typed, Paired, OneRequest, Pipelined = {}, [Next]_vars
  PROVE  OneRequest'
<1>1. CASE Serve
  BY <1>1, OneRequestServe
<1>2. CASE ReadPart
  BY <1>2, OneRequestRead
<1>3. CASE Receive
  BY <1>3, OneRequestReceive
<1>4. CASE Handle
  BY <1>4, OneRequestHandle
<1>5. CASE \/ Listen \/ ListenFails \/ NoListener \/ Select \/ SelectBroken \/ SelectFails
           \/ NoAccept \/ Accept \/ TurnAway \/ AcceptFails \/ Skip
  <2>1. ~ Busy /\ ~ Busy' /\ UNCHANGED <<ring, held, inbox, sent, answers, owes>>
    BY <1>5 DEF Listen, ListenFails, NoListener, Select, SelectBroken, SelectFails, NoAccept, Accept, TurnAway,
                AcceptFails, ToClients, Skip, NextSlot, Busy, port, clients
  <2> QED BY <2>1 DEF OneRequest
<1>6. CASE TearDown
  <2>1. ~ Busy /\ ~ Busy' /\ UNCHANGED <<ring, held, inbox, sent, answers, owes>>
    BY <1>6 DEF TearDown, Busy, clients
  <2> QED BY <2>1 DEF OneRequest
<1>7. CASE Reject \/ HangUp
  <2>1. /\ ~ Busy' /\ ring' = <<>> /\ held' = <<>>
        /\ UNCHANGED <<inbox, sent, answers, owes>>
    BY <1>7 DEF Reject, HangUp, Recover, NextSlot, Busy, clients
  <2> QED BY <2>1, OneRequestIdle
<1>8. ASSUME NEW c \in Conns, Connect(c) \/ HangsUp(c)
      PROVE  OneRequest'
  <2>1. UNCHANGED <<pc, ring, held, socket_fd, peer, inbox, sent, answers, owes>>
    BY <1>8 DEF Connect, HangsUp, loop, port, net, clients
  <2> QED BY <2>1 DEF OneRequest, Busy, Asker
<1>9. ASSUME NEW c \in Conns, Send(c) \/ SendTail(c)
      PROVE  OneRequest'
  BY <1>9, OneRequestSend
<1>10. CASE UNCHANGED vars
  BY <1>10 DEF vars, loop, port, net, clients, OneRequest, Busy, Asker
<1> QED BY <1>1, <1>2, <1>3, <1>4, <1>5, <1>6, <1>7, <1>8, <1>9, <1>10 DEF Next, Thread

\* Only Handle gives an answer, and the request it answers is the asker's.
LEMMA AnswersStep ==
  ASSUME Typed, Paired, OneRequest, AnswerReachesAsker, [Next]_vars
  PROVE  AnswerReachesAsker'
<1>1. CASE Handle
  <2>1. /\ Busy /\ answers' = [answers EXCEPT ![Asker] = Append(@, held[1].from)]
        /\ 1 \in 1 .. Len(held)
    BY <1>1 DEF Handle, Busy, IsRequest
  <2>2. Asker \in Conns /\ answers \in [Conns -> Seq(Conns)]
    BY <2>1, AskerIsClient DEF Typed, Sequences
  <2>3. held[1].from = Asker
    BY <2>1 DEF OneRequest, AllFrom
  <2>4. ASSUME NEW c \in Conns, NEW i \in 1 .. Len(answers'[c])
        PROVE  answers'[c][i] = c
    <3>1. CASE c = Asker
      <4>1. answers'[c] = Append(answers[c], c) /\ answers[c] \in Seq(Conns)
        BY <2>1, <2>2, <2>3, <3>1
      <4>2. /\ Len(answers[c]) \in Nat /\ Len(answers'[c]) = Len(answers[c]) + 1
            /\ \A j \in 1 .. Len(answers[c]) : answers'[c][j] = answers[c][j]
            /\ answers'[c][Len(answers[c]) + 1] = c
        BY <4>1, AppendProperties, LenProperties
      <4>3. i \in 1 .. Len(answers[c]) \/ i = Len(answers[c]) + 1
        BY <4>2
      <4> QED BY <4>2, <4>3 DEF AnswerReachesAsker
    <3>2. CASE c # Asker
      BY <2>1, <2>2, <3>2 DEF AnswerReachesAsker
    <3> QED BY <3>1, <3>2
  <2> QED BY <2>4 DEF AnswerReachesAsker
<1>2. CASE ~ Handle
  <2>1. answers' = answers
    BY <1>2 DEF Next, Thread, Listen, ListenFails, NoListener, Select, SelectBroken, SelectFails, NoAccept,
                Accept, TurnAway, AcceptFails, Skip, Serve, ReadPart, Receive, Reject, HangUp,
                TearDown, Connect, Send, SendTail, HangsUp, vars
  <2> QED BY <2>1 DEF AnswerReachesAsker
<1> QED BY <1>1, <1>2
-----------------------------------------------------------------------------
(***************************************************************************)
(* The theorems.                                                           *)
(***************************************************************************)
LEMMA Invariant == Spec => []IInv
<1>1. Init => IInv
  BY InitIInv
<1>2. IInv /\ [Next]_vars => IInv'
  BY TypedStep, PairedStep, ReadyStep, NeverWaitsStep DEF IInv
<1> QED BY <1>1, <1>2, PTL DEF Spec

\* The values of all variables are what their readers take them to be: slots hold
\* descriptors or -1, the loop's cursor stays within the table of clients, and a
\* call never holds more than a head and a tail.
THEOREM TypeCorrect == Spec => []TypeOK
<1>1. IInv => TypeOK
  BY DEF IInv, Typed
<1> QED BY <1>1, Invariant, PTL

\* The loop calls modbus_slave_wait_handle, which waits, only for a client whose
\* bytes have arrived or who has hung up, with any number of slots to go through
\* since select reported it.
THEOREM NeverBlocks == Spec => []NeverWaitsForOne
<1>1. IInv => NeverWaitsForOne
  BY DEF IInv
<1> QED BY <1>1, Invariant, PTL

\* A connection in the set has one slot.
LEMMA DescriptorsFact == Typed /\ Paired => DescriptorsAccounted
<1> SUFFICES ASSUME Typed, Paired PROVE DescriptorsAccounted
  OBVIOUS
<1>1. client_socket \in [Slots -> Fds \cup {-1}] /\ peer \in [Fds -> Conns \cup {Free, Listener}]
  BY DEF Typed, TypeOK
<1>2. ASSUME NEW c \in Conns, conn[c] = "on"
      PROVE  Cardinality({i \in Slots : client_socket[i] \in Fds /\ peer[client_socket[i]] = c}) = 1
  <2>1. PICK fd \in Fds : peer[fd] = c
    BY <1>2 DEF Paired
  <2>2. PICK i \in Slots : client_socket[i] = fd
    BY <2>1 DEF Paired
  <2>3. \A j \in Slots : client_socket[j] \in Fds /\ peer[client_socket[j]] = c => j = i
    BY <2>1, <2>2 DEF Paired
  <2>4. {j \in Slots : client_socket[j] \in Fds /\ peer[client_socket[j]] = c} = {i}
    BY <2>1, <2>2, <2>3
  <2> QED BY <2>4, FS_Singleton
<1>3. \A i \in Slots : client_socket[i] >= 0 => client_socket[i] \in Fds
  BY <1>1
<1> QED BY <1>2, <1>3 DEF DescriptorsAccounted, Paired

\* Clients come and go, and any call may fail: a connection that is open has one
\* slot, a slot has a connection that is open, and the listening socket is the
\* one the thread knows.
THEOREM DescriptorsKnown == Spec => []DescriptorsAccounted
<1>1. IInv => DescriptorsAccounted
  BY DescriptorsFact DEF IInv
<1> QED BY <1>1, Invariant, PTL

\* One context serves them all, with one ring buffer that is not emptied between
\* two clients; still an answer goes to the client that asked, if every client
\* waits for an answer before it asks again.
THEOREM AnswersReachAskers ==
  ASSUME Pipelined = {}
  PROVE  Spec => []AnswerReachesAsker
<1>1. Init => UInv
  BY InitIInv
<1>2. IInv /\ UInv /\ [Next]_vars => UInv'
  BY OneRequestStep, AnswersStep DEF IInv, UInv
<1>3. UInv => AnswerReachesAsker
  BY DEF UInv
<1> QED BY <1>1, <1>2, <1>3, Invariant, PTL DEF Spec
-----------------------------------------------------------------------------
(***************************************************************************)
(* The descriptor of the TCP master, a program of its own beside the       *)
(* slave's: it never has more than the one it knows, and the number it     *)
(* uses is its own until modbus_tcp_connect has tried every address in     *)
(* vain.                                                                   *)
(***************************************************************************)
CONSTANTS MFds, MAddresses, MMaxFailures
VARIABLES mtable, msocket_fd, mlink, mpc, mcur, mfailures

M == INSTANCE TcpMaster WITH
  Fds <- MFds, Addresses <- MAddresses, MaxFailures <- MMaxFailures,
  table <- mtable, socket_fd <- msocket_fd, link <- mlink, pc <- mpc, cur <- mcur,
  failures <- mfailures

MasterUsing == mpc \in {"status", "call", "disconnect"}

\* Before a connection stands the master has no descriptor, and a number that is
\* its own is the one in socket_fd.
MasterKnown ==
  /\ \A fd \in MFds : mtable[fd] = M!Mine => fd = msocket_fd /\ MasterUsing
  /\ mpc = "connect" => msocket_fd = -1
  /\ mpc = "try" => mcur \in 1 .. MAddresses

MasterIInv == M!TypeOK /\ MasterKnown

\* With the number in socket_fd goes the descriptor, unless every address was tried
\* in vain; then it goes with none of the master's.
MasterOwned == MasterUsing /\ msocket_fd >= 0 => (M!Named = M!Mine <=> mcur <= MAddresses)

LEMMA MasterInit ==
  ASSUME M!NumbersAssumption
  PROVE  M!Init => MasterIInv
BY DEF M!NumbersAssumption, M!Init, MasterIInv, M!TypeOK, MasterKnown, MasterUsing, M!Free, M!Mine

LEMMA MasterStep ==
  ASSUME M!NumbersAssumption, MasterIInv, [M!Next]_(M!vars)
  PROVE  MasterIInv'
<1> USE DEF M!NumbersAssumption, MasterIInv, M!TypeOK, MasterKnown, MasterUsing, M!Free, M!Mine,
            M!Other
<1>1. CASE M!Connect
  BY <1>1 DEF M!Connect
<1>2. CASE M!Connected
  <2>1. PICK fd \in MFds : msocket_fd' = fd /\ mtable' = [mtable EXCEPT ![fd] = M!Mine]
    BY <1>2 DEF M!Connected
  <2>2. \A other \in MFds : mtable[other] # M!Mine
    BY <1>2 DEF M!Connected
  <2> QED BY <1>2, <2>1, <2>2 DEF M!Connected
<1>3. CASE M!Refused \/ M!NoSocket
  <2>1. /\ msocket_fd' \in MFds \cup {-1} /\ mtable' = mtable /\ mlink' = mlink
        /\ mpc = "try" /\ mfailures < MMaxFailures /\ mfailures' = mfailures + 1 /\ mcur' = mcur + 1
        /\ mpc' = IF mcur < MAddresses THEN "try" ELSE "status"
    BY <1>3 DEF M!Refused, M!NoSocket, M!NextAddress, M!Failure
  <2>2. \A other \in MFds : mtable[other] # M!Mine
    BY <2>1
  <2> QED BY <2>1, <2>2
<1>4. CASE M!StatusOk
  BY <1>4 DEF M!StatusOk
<1>5. CASE M!StatusError
  BY <1>5 DEF M!StatusError
<1>6. CASE M!Call
  BY <1>6 DEF M!Call
<1>7. CASE M!CallBroken
  BY <1>7 DEF M!CallBroken
<1>8. CASE M!Disconnect
  <2>1. \A fd \in MFds : mtable'[fd] # M!Mine
    BY <1>8 DEF M!Disconnect
  <2>2. mtable' \in [MFds -> {M!Free, M!Mine, M!Other}]
    BY <1>8 DEF M!Disconnect
  <2> QED BY <1>8, <2>1, <2>2 DEF M!Disconnect
<1>9. CASE M!Break \/ M!LookupFails
  BY <1>9 DEF M!Break, M!LookupFails, M!Failure
<1>10. CASE M!OtherOpens
  <2>1. PICK fd \in MFds : M!NewFd(fd) /\ mtable' = [mtable EXCEPT ![fd] = M!Other]
    BY <1>10 DEF M!OtherOpens
  <2> QED BY <1>10, <2>1 DEF M!OtherOpens
<1>11. CASE M!OtherCloses
  <2>1. PICK fd \in MFds : mtable[fd] = M!Other /\ mtable' = [mtable EXCEPT ![fd] = M!Free]
    BY <1>11 DEF M!OtherCloses
  <2> QED BY <1>11, <2>1 DEF M!OtherCloses
<1>12. CASE UNCHANGED M!vars
  BY <1>12 DEF M!vars
<1> QED BY <1>1, <1>2, <1>3, <1>4, <1>5, <1>6, <1>7, <1>8, <1>9, <1>10, <1>11, <1>12
        DEF M!Next, M!Master

LEMMA MasterInvariant ==
  ASSUME M!NumbersAssumption
  PROVE  M!Spec => []MasterIInv
<1>1. MasterIInv /\ [M!Next]_(M!vars) => MasterIInv'
  BY MasterStep
<1> QED BY <1>1, MasterInit, PTL DEF M!Spec

\* The type invariant of the master.
THEOREM MasterTypeCorrect ==
  ASSUME M!NumbersAssumption
  PROVE  M!Spec => []M!TypeOK
<1>1. MasterIInv => M!TypeOK
  BY DEF MasterIInv
<1> QED BY <1>1, MasterInvariant, PTL

\* modbus_tcp_connect and modbus_tcp_disconnect leave no descriptor behind: the
\* only one that is the master's is in socket_fd, however many addresses are
\* refused and whatever the other threads open and close.
THEOREM NothingLeaks ==
  ASSUME M!NumbersAssumption
  PROVE  M!Spec => []M!NoDescriptorLeak
<1>1. MasterIInv => M!NoDescriptorLeak
  BY DEF MasterIInv, MasterKnown, M!NoDescriptorLeak
<1> QED BY <1>1, MasterInvariant, PTL

\* A foreign descriptor cannot take the number while the master's is open.
LEMMA MasterStepOwned ==
  ASSUME M!NumbersAssumption, MasterIInv, MasterOwned, [M!Next]_(M!vars)
  PROVE  MasterOwned'
<1> USE DEF M!NumbersAssumption, MasterIInv, M!TypeOK, MasterKnown, MasterUsing, MasterOwned, M!Named,
             M!Free, M!Mine, M!Other
<1>1. CASE M!Connect \/ M!LookupFails
  BY <1>1 DEF M!Connect, M!LookupFails
<1>2. CASE M!Connected
  <2>1. PICK fd \in MFds : msocket_fd' = fd /\ mtable' = [mtable EXCEPT ![fd] = M!Mine]
    BY <1>2 DEF M!Connected
  <2> QED BY <1>2, <2>1 DEF M!Connected
<1>3. CASE M!NoSocket
  BY <1>3 DEF M!NoSocket
<1>4. CASE M!Refused
  <2>1. PICK fd \in MFds : mtable[fd] = M!Free /\ msocket_fd' = fd /\ mtable' = mtable
    BY <1>4 DEF M!Refused, M!NewFd
  <2>2. mpc = "try" /\ mcur' = mcur + 1 /\ mpc' = IF mcur < MAddresses THEN "try" ELSE "status"
    BY <1>4 DEF M!Refused, M!NextAddress
  <2>3. mpc' = "status" => mcur' > MAddresses
    BY <2>2
  <2> QED BY <2>1, <2>2, <2>3
<1>5. CASE M!StatusOk \/ M!StatusError \/ M!Call \/ M!CallBroken \/ M!Break
  <2>1. mtable' = mtable /\ msocket_fd' = msocket_fd /\ mcur' = mcur /\ (MasterUsing' => MasterUsing)
    BY <1>5 DEF M!StatusOk, M!StatusError, M!Call, M!CallBroken, M!Break
  <2> QED BY <2>1
<1>6. CASE M!Disconnect
  BY <1>6 DEF M!Disconnect
<1>7. CASE M!OtherOpens
  <2>1. PICK fd \in MFds : M!NewFd(fd) /\ mtable' = [mtable EXCEPT ![fd] = M!Other]
    BY <1>7 DEF M!OtherOpens
  <2> QED BY <1>7, <2>1 DEF M!OtherOpens, M!NewFd
<1>8. CASE M!OtherCloses
  <2>1. PICK fd \in MFds : mtable[fd] = M!Other /\ mtable' = [mtable EXCEPT ![fd] = M!Free]
    BY <1>8 DEF M!OtherCloses
  <2> QED BY <1>8, <2>1 DEF M!OtherCloses
<1>9. CASE UNCHANGED M!vars
  BY <1>9 DEF M!vars
<1> QED BY <1>1, <1>2, <1>3, <1>4, <1>5, <1>6, <1>7, <1>8, <1>9 DEF M!Next, M!Master

\* The number modbus_tcp_connect leaves in socket_fd is open and stays the master's
\* until modbus_tcp_disconnect, whatever other threads open and close, unless every
\* address was tried in vain: the number that is kept then is never the master's.
THEOREM OwnSocket ==
  ASSUME M!NumbersAssumption
  PROVE  M!Spec => []M!OnlyOwnSocket
<1>1. M!Init => MasterOwned
  BY DEF M!Init, MasterOwned, MasterUsing
<1>2. MasterIInv /\ MasterOwned /\ [M!Next]_(M!vars) => MasterOwned'
  BY MasterStepOwned
<1>3. MasterOwned => M!OnlyOwnSocket
  BY DEF MasterOwned, MasterUsing, M!OnlyOwnSocket
<1> QED BY <1>1, <1>2, <1>3, MasterInvariant, PTL DEF M!Spec

\* When modbus_tcp_connect has left it without a socket, for want of an address or
\* of a socket, the loop of the test master stays among its calls: neither
\* modbus_tcp_status nor a call ever leads it back to modbus_connect.
THEOREM NeverConnectsAgain ==
  ASSUME M!NumbersAssumption
  PROVE  M!Spec => M!NoSocketForGood
<1>1. ASSUME mpc \in {"status", "call"}, msocket_fd = -1, [M!Next]_(M!vars)
      PROVE  mpc' \in {"status", "call"} /\ msocket_fd' = -1
  <2>1. M!Named = M!Free
    BY <1>1 DEF M!Named, M!NumbersAssumption
  <2> QED BY <1>1, <2>1
          DEF M!Next, M!Master, M!Connect, M!LookupFails, M!Connected, M!NoSocket, M!Refused,
              M!StatusOk, M!StatusError, M!Call, M!CallBroken, M!Disconnect, M!Break,
              M!OtherOpens, M!OtherCloses, M!vars
<1> QED BY <1>1, PTL DEF M!Spec, M!NoSocketForGood
=============================================================================
