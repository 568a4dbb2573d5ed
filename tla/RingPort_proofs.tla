--------------------------- MODULE RingPort_proofs ---------------------------
(***************************************************************************)
(* The ports with a ring buffer lose nothing, for every size of the ring   *)
(* and of the buffer that fit each other (FitAssumption), every traffic    *)
(* and every time limit.                                                   *)
(***************************************************************************)
EXTENDS RingPort, SequenceTheorems, TLAPS

\* A thread waits only when it has taken all there was, so that a whole buffer
\* fits; and the system never has more than port.unread bytes.
RoomToReceive ==
  /\ pc \in {"wait", "blocked"} => ring = <<>>
  /\ arrived - received <= port.unread

IInv == TypeOK /\ NothingLost /\ RoomToReceive

\* What is known of any of the ports.
LEMMA PortFacts ==
  ASSUME port \in Ports
  PROVE  /\ TempSize \in Nat \ {0} /\ port.unread \in Nat /\ port.timeouts \subseteq Int
         /\ TempSize <= RingSize \/ port.unread <= RingSize
BY PortsAssumption, FitAssumption DEF TempSize

\* An empty ring loses nothing.
LEMMA EmptyRing ==
  ASSUME ring' = <<>>, taken' = received', taken' \in Nat, received' \in Nat
  PROVE  NothingLost'
<1>1. Len(ring') = 0
  BY EmptySeq
<1>2. received' - taken' = 0
  <2>1. \A n \in Nat : n - n = 0
    OBVIOUS
  <2> QED BY <2>1, Zenon
<1>3. \A i \in 1 .. 0 : ring'[i] = taken' + i
  OBVIOUS
<1> QED BY <1>1, <1>2, <1>3 DEF NothingLost

LEMMA InitIInv == Init => IInv
<1> SUFFICES ASSUME Init PROVE IInv
  OBVIOUS
<1>1. limited \in BOOLEAN
  BY DEF Init
<1>2. TypeOK
  BY <1>1, SizesAssumption DEF Init, TypeOK, MODBUS_WAIT_NO
<1>3. port.unread \in Nat
  BY PortFacts DEF Init
<1> QED BY <1>2, <1>3, SizesAssumption DEF Init, IInv, NothingLost, RoomToReceive

\* Reading takes the oldest bytes and leaves the others.
LEMMA ReadIInv == IInv /\ Read => IInv'
<1> SUFFICES ASSUME IInv, Read PROVE IInv'
  OBVIOUS
<1> DEFINE n == Smaller(want, Len(ring))
<1>1. /\ ring \in Seq(Nat) /\ Len(ring) \in Nat /\ Len(ring) <= RingSize /\ want \in Nat
      /\ RingSize \in Nat /\ MaxBytes \in Nat
      /\ arrived \in 0 .. MaxBytes /\ received \in 0 .. arrived /\ taken \in 0 .. received
      /\ Len(ring) = received - taken
      /\ \A i \in 1 .. Len(ring) : ring[i] = taken + i
  BY SizesAssumption DEF IInv, TypeOK, NothingLost
<1>2. n \in 0 .. Len(ring) /\ n <= want /\ (n = want \/ n = Len(ring))
  BY <1>1 DEF Smaller
<1>3. /\ taken' = IF n = 0 THEN taken ELSE ring[n]
      /\ ring' = SubSeq(ring, n + 1, Len(ring)) /\ want' = want - n
      /\ pc' = IF want = n THEN "idle" ELSE "wait"
      /\ UNCHANGED <<port, arrived, received, timeout, limited>>
  BY DEF Read
<1> HIDE DEF n
<1>4. taken' = taken + n
  BY <1>1, <1>2, <1>3
<1>5. /\ ring' \in Seq(Nat) /\ Len(ring') = Len(ring) - n
      /\ \A i \in 1 .. Len(ring) - n : ring'[i] = ring[n + i]
  <2>1. \A i \in n + 1 .. Len(ring) : ring[i] \in Nat
    BY <1>1, <1>2
  <2>2. /\ SubSeq(ring, n + 1, Len(ring)) \in Seq(Nat)
        /\ Len(SubSeq(ring, n + 1, Len(ring))) = Len(ring) - n
    BY <1>1, <1>2, <2>1, SubSeqProperties
  <2>3. \A i \in 1 .. Len(ring) - n : SubSeq(ring, n + 1, Len(ring))[i] = ring[n + i]
    BY <1>1, <1>2, SubSeqProperties
  <2> QED BY <1>3, <2>2, <2>3
<1>6. NothingLost'
  <2>1. ASSUME NEW i \in 1 .. Len(ring') PROVE ring'[i] = taken' + i
    <3>1. n + i \in 1 .. Len(ring) /\ ring'[i] = ring[n + i]
      BY <1>1, <1>2, <1>5
    <3> QED BY <1>1, <1>2, <1>4, <3>1
  <2> QED BY <1>1, <1>2, <1>3, <1>4, <1>5, <2>1 DEF NothingLost
<1>7. TypeOK'
  <2>1. limited' \in BOOLEAN
    BY <1>3 DEF IInv, TypeOK
  <2>2. timeout' \in Int
    BY <1>3 DEF IInv, TypeOK
  <2>3. taken' \in 0 .. received'
    BY <1>1, <1>2, <1>3, <1>4
  <2>4. port' \in Ports
    BY <1>3 DEF IInv, TypeOK
  <2> QED BY <1>1, <1>2, <1>3, <1>5, <2>1, <2>2, <2>3, <2>4 DEF TypeOK
<1>8. RoomToReceive'
  <2>1. pc' # "idle" => ring' = <<>>
    <3>1. pc' # "idle" => Len(ring') = 0
      BY <1>1, <1>2, <1>3, <1>5
    <3> QED BY <1>5, <3>1, EmptySeq
  <2> QED BY <1>3, <2>1 DEF IInv, RoomToReceive
<1> QED BY <1>6, <1>7, <1>8 DEF IInv

\* What a wait receives fits the ring, which is empty.
LEMMA ReceiveIInv == IInv /\ Receive => IInv'
<1> SUFFICES ASSUME IInv, Receive PROVE IInv'
  OBVIOUS
<1> DEFINE n == Smaller(arrived - received, TempSize)
           stored == Smaller(n, RingSize - Len(ring))
<1>1. ring = <<>> /\ received = taken
  BY DEF IInv, RoomToReceive, NothingLost, TypeOK, Receive
<1>2. /\ RingSize \in Nat /\ MaxBytes \in Nat
      /\ arrived \in 0 .. MaxBytes /\ received \in 0 .. arrived
      /\ arrived > received /\ arrived - received <= port.unread
  BY SizesAssumption DEF IInv, TypeOK, RoomToReceive, Receive
<1>3. n \in 1 .. arrived - received /\ n <= RingSize
  <2>1. port \in Ports
    BY DEF IInv, TypeOK
  <2>2. /\ TempSize \in Nat \ {0} /\ port.unread \in Nat
        /\ TempSize <= RingSize \/ port.unread <= RingSize
    BY <2>1, PortFacts
  <2> QED BY <1>2, <2>2 DEF Smaller
<1>4. stored = n
  <2>1. RingSize - Len(ring) = RingSize
    BY <1>1, <1>2
  <2>2. Smaller(n, RingSize) = n
    <3> HIDE DEF n
    <3> QED BY <1>2, <1>3 DEF Smaller
  <2> QED BY <2>1, <2>2
<1>5. /\ received' = received + n /\ pc' = "read"
      /\ UNCHANGED <<port, arrived, taken, want, timeout, limited>>
  BY DEF Receive
<1>6. ring' = <<>> \o [i \in 1 .. n |-> received + i]
  BY <1>1, <1>4 DEF Receive
<1> HIDE DEF n
<1>7. /\ ring' \in Seq(Nat) /\ Len(ring') = n
      /\ \A i \in 1 .. n : ring'[i] = received + i
  <2> DEFINE new == [i \in 1 .. n |-> received + i]
  <2>1. new \in Seq(Nat) /\ Len(new) = n /\ \A i \in 1 .. n : new[i] = received + i
    BY <1>2, <1>3
  <2> HIDE DEF new
  <2>2. <<>> \o new = new
    BY <2>1, ConcatEmptySeq
  <2> QED BY <1>6, <2>1, <2>2 DEF new
<1>8. NothingLost'
  BY <1>1, <1>2, <1>3, <1>5, <1>7 DEF NothingLost
<1>9. TypeOK'
  <2>1. limited' \in BOOLEAN
    BY <1>5 DEF IInv, TypeOK
  <2>2. want' \in Nat /\ timeout' \in Int /\ port' \in Ports
    BY <1>5 DEF IInv, TypeOK
  <2> QED BY <1>1, <1>2, <1>3, <1>5, <1>7, <2>1, <2>2 DEF TypeOK
<1>10. RoomToReceive'
  <2>1. port.unread \in Nat
    BY PortFacts DEF IInv, TypeOK
  <2> QED BY <1>2, <1>3, <1>5, <2>1 DEF RoomToReceive
<1> QED BY <1>8, <1>9, <1>10 DEF IInv

LEMMA StepIInv == IInv /\ [Next]_vars => IInv'
<1> SUFFICES ASSUME IInv, [Next]_vars PROVE IInv'
  OBVIOUS
<1> USE SizesAssumption DEF IInv
<1>0. port.unread \in Nat /\ port.timeouts \subseteq Int
  BY PortFacts DEF TypeOK
<1>1. CASE Arrive
  <2>1. RoomToReceive'
    BY <1>0, <1>1 DEF Arrive, TypeOK, RoomToReceive
  <2> QED BY <1>1, <2>1 DEF Arrive, TypeOK, NothingLost
<1>2. CASE WantRead
  BY <1>0, <1>2 DEF WantRead, TypeOK, NothingLost, RoomToReceive
<1>3. CASE Read
  BY <1>3, ReadIInv
<1>4. CASE Wait
  <2>1. limited \in BOOLEAN /\ (timeout > MODBUS_WAIT_FOREVER) \in BOOLEAN
    BY DEF TypeOK
  <2>2. \/ limited' = TRUE \/ limited' = limited
        \/ limited' = (timeout > MODBUS_WAIT_FOREVER)
    BY <1>4, Zenon DEF Wait
  <2>3. limited' \in BOOLEAN
    BY <2>1, <2>2, Zenon
  <2> QED BY <1>4, <2>3 DEF Wait, TypeOK, NothingLost, RoomToReceive
<1>5. CASE Receive
  BY <1>5, ReceiveIInv
<1>6. CASE TimedOut
  BY <1>6 DEF TimedOut, TypeOK, NothingLost, RoomToReceive
<1>7. CASE Broken
  BY <1>7 DEF Broken, TypeOK, NothingLost, RoomToReceive
<1>8. CASE Flush
  <2>1. NothingLost'
    BY <1>8, EmptyRing DEF Flush, TypeOK
  <2>2. RoomToReceive'
    BY <1>0, <1>8 DEF Flush, TypeOK, RoomToReceive
  <2>3. TypeOK'
    BY <1>8 DEF Flush, TypeOK
  <2> QED BY <2>1, <2>2, <2>3
<1>9. CASE UNCHANGED vars
  BY <1>9 DEF vars, TypeOK, NothingLost, RoomToReceive
<1> QED
  BY <1>1, <1>2, <1>3, <1>4, <1>5, <1>6, <1>7, <1>8, <1>9 DEF Next, Thread

LEMMA Invariant == Spec => []IInv
BY InitIInv, StepIInv, PTL DEF Spec
-----------------------------------------------------------------------------
\* The ring never holds more than it has room for.
THEOREM TypeCorrect == Spec => []TypeOK
<1>1. IInv => TypeOK
  BY DEF IInv
<1> QED BY <1>1, Invariant, PTL

\* port->wait never drops a byte when the ring is too small for what the system
\* hands over: the case cannot arise.
THEOREM NoByteLost == Spec => []NothingLost
<1>1. IInv => NothingLost
  BY DEF IInv
<1> QED BY <1>1, Invariant, PTL
=============================================================================
