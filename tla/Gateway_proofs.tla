--------------------------- MODULE Gateway_proofs ---------------------------
(***************************************************************************)
(* Theorems about Gateway: types, and that no change of a coil is          *)
(* forgotten, for any number of slave threads and coils.  ChangeIsPending  *)
(* is inductive together with the types: what stores a byte counts a       *)
(* change, so a notification is bound to follow it, and what takes the     *)
(* notification has read nothing yet.                                      *)
(***************************************************************************)
EXTENDS Gateway, TLAPS

\* The bounds and the semaphore saturate within their ranges.
LEMMA ReleasedType ==
  ASSUME TypeOK PROVE Released \in 1 .. SemMax
BY SemAssumption DEF TypeOK, Released

\* Every step keeps the types.
LEMMA TypeStep ==
  ASSUME TypeOK, [Next]_vars PROVE TypeOK'
<1> USE CoilsAssumption, SemAssumption, BoundsAssumption DEF TypeOK, Image, Coil, sender, writer
<1>1. ASSUME NEW t \in Threads, Request(t) PROVE TypeOK'
  <2>1. PICK first \in Coil, last \in Coil, values \in Image :
          /\ first <= last
          /\ io_start' = [io_start EXCEPT ![t] = first]
          /\ io_end' = [io_end EXCEPT ![t] = last + 1]
          /\ request' = [request EXCEPT ![t] = values]
    BY <1>1 DEF Request
  <2>2. io_start' \in [Threads -> 0 .. Coils] /\ io_end' \in [Threads -> 0 .. Coils]
    BY <2>1
  <2>3. request' \in [Threads -> Image]
    BY <2>1
  <2>4. at' \in [Threads -> {"idle", "compare", "load", "store"}]
    BY <1>1 DEF Request
  <2>5. \A s \in Threads : at'[s] \in {"load", "store"} => io_start'[s] < io_end'[s]
    BY <1>1, <2>1 DEF Request
  <2>6. /\ count' \in [Threads -> 0 .. Coils]
        /\ \A s \in Threads : count'[s] <= io_start'[s]
    BY <1>1, <2>1 DEF Request
  <2>7. writes' \in 0 .. MaxWrites
    BY <1>1 DEF Request
  <2> QED BY <1>1, <2>2, <2>3, <2>4, <2>5, <2>6, <2>7 DEF Request
<1>2. ASSUME NEW t \in Threads, Compare(t) PROVE TypeOK'
  <2>1. io_start[t] < io_end[t] /\ io_start[t] \in 0 .. Coils /\ io_end[t] \in 0 .. Coils
    BY <1>2 DEF Compare
  <2>5. io_start' = io_start \/ io_start' = [io_start EXCEPT ![t] = io_start[t] + 1]
    BY <1>2 DEF Compare
  <2>6. io_start[t] + 1 \in 0 .. Coils
    BY <2>1
  <2>2. io_start' \in [Threads -> 0 .. Coils]
    BY <2>5, <2>6
  <2>3. ASSUME NEW s \in Threads PROVE count[s] <= io_start'[s]
    <3>1. /\ io_start[s] \in 0 .. Coils /\ count[s] \in 0 .. Coils
          /\ count[s] <= io_start[s]
      OBVIOUS
    <3>2. io_start'[s] = io_start[s] \/ io_start'[s] = io_start[s] + 1
      BY <2>5
    <3> QED BY <3>1, <3>2
  <2>4. /\ at' \in [Threads -> {"idle", "compare", "load", "store"}]
        /\ \A s \in Threads : at'[s] \in {"load", "store"} => io_start'[s] < io_end[s]
    BY <1>2, <2>1 DEF Compare
  <2> QED BY <1>2, <2>2, <2>3, <2>4 DEF Compare
<1>3. ASSUME NEW t \in Threads, Load(t) PROVE TypeOK'
  BY <1>3 DEF Load
<1>4. ASSUME NEW t \in Threads, Store(t) PROVE TypeOK'
  <2>1. /\ io_start[t] < io_end[t] /\ io_start[t] \in 0 .. Coils /\ io_end[t] \in 0 .. Coils
        /\ count[t] <= io_start[t] /\ count[t] \in 0 .. Coils
    BY <1>4 DEF Store
  <2>2. byte[t] \in Image /\ request[t] \in Image /\ io_start[t] \in Coil
    BY <2>1
  <2>3. hold_coils' \in Image
    BY <1>4, <2>2 DEF Store
  <2>4. io_start' \in [Threads -> 0 .. Coils] /\ count' \in [Threads -> 0 .. Coils]
    BY <1>4, <2>1 DEF Store
  <2>5. \A s \in Threads : count'[s] <= io_start'[s]
    BY <1>4, <2>1 DEF Store
  <2>6. /\ at' \in [Threads -> {"idle", "compare", "load", "store"}]
        /\ \A s \in Threads : at'[s] \in {"load", "store"} => io_start'[s] < io_end[s]
    BY <1>4, <2>1 DEF Store
  <2> QED BY <1>4, <2>3, <2>4, <2>5, <2>6 DEF Store
<1>5. ASSUME NEW t \in Threads, Finish(t) PROVE TypeOK'
  <2>1. sem' \in 0 .. SemMax
    BY <1>5, ReleasedType DEF Finish
  <2> QED BY <1>5, <2>1 DEF Finish
<1>6. CASE Take
  BY <1>6 DEF Take
<1>7. CASE Read
  <2>1. CASE index < Coils
    <3>1. index \in Coil
      BY <2>1
    <3>2. temp_buff' \in Image
      BY <1>7, <2>1, <3>1 DEF Read
    <3> QED BY <1>7, <2>1, <3>2 DEF Read
  <2>2. CASE ~ (index < Coils)
    BY <1>7, <2>2 DEF Read
  <2> QED BY <2>1, <2>2
<1>8. CASE Send
  BY <1>8 DEF Send
<1>9. CASE SendFails
  BY <1>9 DEF SendFails
<1>10. CASE UNCHANGED vars
  BY <1>10 DEF vars
<1> QED BY <1>1, <1>2, <1>3, <1>4, <1>5, <1>6, <1>7, <1>8, <1>9, <1>10 DEF Next, Slave

\* The types hold in every state of the gateway.
THEOREM TypeCorrect == Spec => []TypeOK
<1>1. ASSUME Init PROVE TypeOK
  <2>1. Off \in Image
    BY DEF Off, Image
  <2>2. /\ hold_coils \in Image /\ temp_buff \in Image /\ remote \in Image
        /\ request \in [Threads -> Image] /\ byte \in [Threads -> Image]
    BY <1>1, <2>1 DEF Init
  <2>3. /\ io_start \in [Threads -> 0 .. Coils] /\ io_end \in [Threads -> 0 .. Coils]
        /\ count \in [Threads -> 0 .. Coils]
        /\ \A t \in Threads : count[t] <= io_start[t]
    BY <1>1, CoilsAssumption DEF Init
  <2>4. /\ at \in [Threads -> {"idle", "compare", "load", "store"}]
        /\ \A t \in Threads : at[t] \in {"load", "store"} => io_start[t] < io_end[t]
    BY <1>1 DEF Init
  <2>5. /\ writes \in 0 .. MaxWrites /\ failures \in 0 .. MaxFailures
        /\ sem \in 0 .. SemMax /\ index \in 0 .. Coils
        /\ master \in {"take", "read", "send"}
    BY <1>1, CoilsAssumption, SemAssumption, BoundsAssumption DEF Init
  <2>6. failed \in BOOLEAN
    BY <1>1 DEF Init
  <2> QED BY <2>2, <2>3, <2>4, <2>5, <2>6 DEF TypeOK
<1> QED BY <1>1, TypeStep, PTL DEF Spec
-----------------------------------------------------------------------------
\* A step of a slave thread that leaves the table alone forgets no notification.
LEMMA SlaveKeeps ==
  ASSUME ChangeIsPending,
         UNCHANGED <<hold_coils, sender>>,
         Notified => Notified'
  PROVE  ChangeIsPending'
BY DEF ChangeIsPending, UpToDate, sender

\* Every step keeps ChangeIsPending.
LEMMA PendingStep ==
  ASSUME TypeOK, ChangeIsPending, [Next]_vars PROVE ChangeIsPending'
<1>1. ASSUME NEW t \in Threads, Request(t) PROVE ChangeIsPending'
  <2>1. Notified => Notified'
    BY <1>1 DEF Request, Notified, TypeOK
  <2> QED BY <1>1, <2>1, SlaveKeeps DEF Request
<1>2. ASSUME NEW t \in Threads, Compare(t) PROVE ChangeIsPending'
  <2>1. Notified => Notified'
    BY <1>2 DEF Compare, Notified, TypeOK
  <2> QED BY <1>2, <2>1, SlaveKeeps DEF Compare
<1>3. ASSUME NEW t \in Threads, Load(t) PROVE ChangeIsPending'
  <2>1. Notified => Notified'
    BY <1>3 DEF Load, Notified, TypeOK
  <2> QED BY <1>3, <2>1, SlaveKeeps DEF Load
<1>4. ASSUME NEW t \in Threads, Store(t) PROVE ChangeIsPending'
  <2>1. at'[t] = "compare" /\ count'[t] = count[t] + 1 /\ count[t] \in 0 .. Coils
    BY <1>4 DEF Store, TypeOK
  <2>2. count'[t] > 0
    BY <2>1, CoilsAssumption
  <2> QED BY <2>1, <2>2 DEF ChangeIsPending, Notified
<1>5. ASSUME NEW t \in Threads, Finish(t) PROVE ChangeIsPending'
  <2>1. CASE count[t] > 0
    <3>1. sem' > 0
      BY <1>5, <2>1, ReleasedType, SemAssumption DEF Finish
    <3> QED BY <3>1 DEF ChangeIsPending, Notified
  <2>2. CASE ~ (count[t] > 0)
    <3>1. Notified => Notified'
      BY <1>5, <2>2 DEF Finish, Notified, TypeOK
    <3> QED BY <1>5, <3>1, SlaveKeeps DEF Finish
  <2> QED BY <2>1, <2>2
<1>6. CASE Take
  \* Nothing has been read yet, so nothing that has been read is old.
  <2>1. master' = "read" /\ index' = 0
    BY <1>6 DEF Take
  <2>2. \A c \in Coil : ~ (c < 0)
    BY CoilsAssumption DEF Coil
  <2> QED BY <2>1, <2>2 DEF ChangeIsPending, UpToDate
<1>7. CASE Read
  <2>1. Notified => Notified'
    BY <1>7 DEF Read, Notified, writer
  <2>2. SUFFICES ASSUME UpToDate PROVE UpToDate'
    BY <2>1 DEF ChangeIsPending
  <2>3. master = "read" /\ \A c \in Coil : c < index => temp_buff[c] = hold_coils[c]
    BY <1>7, <2>2 DEF Read, UpToDate
  <2>4. hold_coils' = hold_coils
    BY <1>7 DEF Read
  <2>5. CASE index < Coils
    <3>1. index' = index + 1 /\ master' = "read" /\ index \in 0 .. Coils
      BY <1>7, <2>3, <2>5 DEF Read, TypeOK
    <3>2. /\ temp_buff' = [temp_buff EXCEPT ![index] = hold_coils[index]]
          /\ temp_buff \in [Coil -> BOOLEAN]
      BY <1>7, <2>5 DEF Read, TypeOK, Image
    <3>3. ASSUME NEW c \in Coil, c < index + 1 PROVE temp_buff'[c] = hold_coils[c]
      <4>1. CASE c = index
        BY <3>2, <4>1
      <4>2. CASE c # index
        <5>1. c < index
          BY <3>1, <3>3, <4>2, CoilsAssumption DEF Coil
        <5> QED BY <2>3, <3>2, <4>2, <5>1
      <4> QED BY <4>1, <4>2
    <3> QED BY <2>4, <3>1, <3>3 DEF UpToDate
  <2>6. CASE ~ (index < Coils)
    <3>1. master' = "send" /\ temp_buff' = temp_buff
      BY <1>7, <2>6 DEF Read
    <3>2. \A c \in Coil : c < index
      BY <2>6, CoilsAssumption DEF TypeOK, Coil
    <3>3. temp_buff \in [Coil -> BOOLEAN] /\ hold_coils \in [Coil -> BOOLEAN]
      BY DEF TypeOK, Image
    <3>4. temp_buff = hold_coils
      BY <2>3, <3>2, <3>3
    <3> QED BY <2>4, <3>1, <3>4 DEF UpToDate
  <2> QED BY <2>5, <2>6
<1>8. CASE Send
  <2>1. Notified => Notified'
    BY <1>8 DEF Send, Notified, writer
  <2>2. UpToDate => UpToDate'
    BY <1>8 DEF Send, UpToDate
  <2> QED BY <2>1, <2>2 DEF ChangeIsPending
<1>9. CASE SendFails
  BY <1>9 DEF SendFails, ChangeIsPending, UpToDate
<1>10. CASE UNCHANGED vars
  BY <1>10 DEF vars, sender, writer, ChangeIsPending, Notified, UpToDate
<1> QED BY <1>1, <1>2, <1>3, <1>4, <1>5, <1>6, <1>7, <1>8, <1>9, <1>10 DEF Next, Slave

\* No change of a coil is forgotten: the remote slave holds the table, or the
\* master is on its way to send it, or will be told to.
THEOREM NoChangeForgotten == Spec => []ChangeIsPending
<1>1. Init => ChangeIsPending
  BY DEF Init, ChangeIsPending, UpToDate
<1> QED BY <1>1, TypeCorrect, PendingStep, PTL DEF Spec

=============================================================================
