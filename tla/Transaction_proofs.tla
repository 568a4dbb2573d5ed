------------------------- MODULE Transaction_proofs -------------------------
(***************************************************************************)
(* A call that succeeds got the answer to its own request, for every       *)
(* number of identifiers and late answers that fit together                *)
(* (LateAssumption), every kind of request and every content of the        *)
(* tables.  Over TCP the frames in flight, from the ring back to the slave,*)
(* carry consecutive identifiers; there are never more of them than answers*)
(* have been late, and one for the call under way.                         *)
(*                                                                         *)
(* With the contents of those frames the whole refines RemoteTable: only   *)
(* the youngest frame may be the call's own, and its answer is the reply   *)
(* the table far away gave when the slave served the request.              *)
(***************************************************************************)
EXTENDS Transaction, SequenceTheorems, TLAPS

\* The identifier of the k-th request before the one that had id.
Id(k, id, m) == IF k <= id THEN id - k ELSE id - k + m

\* The frames in s are in the order of their requests, with b younger frames
\* behind them; the youngest of all is the call's own, while one waits.
Flight(s, b, id, m, waits) ==
  \A i \in 1 .. Len(s) :
    /\ s[i].tid = Id(Len(s) + b - i, id, m)
    /\ waits /\ Len(s) + b = i => s[i].current

\* The oldest frame leaves.
LEMMA TailFlight ==
  ASSUME NEW S, NEW s \in Seq(S), s # <<>>,
         NEW b \in Nat, NEW id, NEW m, NEW waits, Flight(s, b, id, m, waits)
  PROVE  /\ Tail(s) \in Seq(S) /\ Len(s) \in Nat \ {0} /\ Len(Tail(s)) = Len(s) - 1
         /\ Flight(Tail(s), b, id, m, waits)
         /\ Head(s) = s[1] /\ Head(s) \in S
<1>1. /\ Tail(s) \in Seq(S) /\ Len(s) \in Nat \ {0} /\ Len(Tail(s)) = Len(s) - 1
      /\ \A i \in 1 .. Len(Tail(s)) : Tail(s)[i] = s[i + 1]
      /\ Head(s) \in S
  BY HeadTailProperties, EmptySeq
<1>2. Head(s) = s[1]
  BY <1>1
<1>3. ASSUME NEW i \in 1 .. Len(Tail(s))
      PROVE  /\ Tail(s)[i].tid = Id(Len(Tail(s)) + b - i, id, m)
             /\ waits /\ Len(Tail(s)) + b = i => Tail(s)[i].current
  <2>1. i + 1 \in 1 .. Len(s) /\ Len(Tail(s)) + b - i = Len(s) + b - (i + 1)
    BY <1>1
  <2>2. Tail(s)[i] = s[i + 1]
    BY <1>1
  <2>3. Len(Tail(s)) + b = i <=> Len(s) + b = i + 1
    BY <1>1
  <2> QED BY <2>1, <2>2, <2>3 DEF Flight
<1> QED BY <1>1, <1>2, <1>3 DEF Flight

\* A frame that was the oldest of those behind follows the others.
LEMMA AppendFlight ==
  ASSUME NEW S, NEW s \in Seq(S), NEW e \in S,
         NEW b \in Nat \ {0}, NEW id, NEW m, NEW waits, Flight(s, b, id, m, waits),
         e.tid = Id(b - 1, id, m), waits /\ b = 1 => e.current
  PROVE  /\ Append(s, e) \in Seq(S) /\ Len(Append(s, e)) = Len(s) + 1
         /\ Flight(Append(s, e), b - 1, id, m, waits)
<1>1. /\ Append(s, e) \in Seq(S) /\ Len(Append(s, e)) = Len(s) + 1 /\ Len(s) \in Nat
      /\ \A i \in 1 .. Len(s) : Append(s, e)[i] = s[i]
      /\ Append(s, e)[Len(s) + 1] = e
  BY AppendProperties, LenProperties
<1>2. ASSUME NEW i \in 1 .. Len(Append(s, e))
      PROVE  /\ Append(s, e)[i].tid = Id(Len(Append(s, e)) + (b - 1) - i, id, m)
             /\ waits /\ Len(Append(s, e)) + (b - 1) = i => Append(s, e)[i].current
  <2>1. CASE i \in 1 .. Len(s)
    <3>1. /\ Append(s, e)[i] = s[i]
          /\ Len(Append(s, e)) + (b - 1) - i = Len(s) + b - i
          /\ Len(Append(s, e)) + (b - 1) = Len(s) + b
      BY <1>1, <2>1
    <3> QED BY <2>1, <3>1 DEF Flight
  <2>2. CASE i = Len(s) + 1
    <3>1. /\ Append(s, e)[i] = e
          /\ Len(Append(s, e)) + (b - 1) - i = b - 1
          /\ Len(Append(s, e)) + (b - 1) = i => b = 1
      BY <1>1, <2>2
    <3> QED BY <3>1
  <2> QED BY <1>1, <2>1, <2>2
<1> QED BY <1>1, <1>2 DEF Flight

\* The next identifier, when it is computed as the code does.
LEMMA NextId ==
  ASSUME NEW m \in Nat \ {0}, NEW id \in 0 .. m - 1
  PROVE  (id + 1) % m = IF id + 1 = m THEN 0 ELSE id + 1
<1>1. CASE id + 1 = m
  BY <1>1
<1>2. CASE id + 1 < m
  BY <1>2
<1> QED BY <1>1, <1>2

\* A request more, and every identifier is that of the request one further back.
LEMMA OlderId ==
  ASSUME NEW m \in Nat \ {0}, NEW id \in 0 .. m - 1, NEW k \in Nat, k + 1 < m
  PROVE  Id(k + 1, (id + 1) % m, m) = Id(k, id, m)
<1>1. CASE id + 1 = m
  BY <1>1, NextId DEF Id
<1>2. CASE id + 1 < m
  <2>1. (id + 1) % m = id + 1
    BY <1>2, NextId
  <2> QED BY <1>2, <2>1 DEF Id
<1> QED BY <1>1, <1>2

\* The sequences an aged sequence is of.
LEMMA OlderSeq ==
  ASSUME NEW S, NEW s \in Seq(S), \A f \in S : [f EXCEPT !.current = FALSE] \in S
  PROVE  Older(s) \in Seq(S) /\ Len(Older(s)) = Len(s)
<1>1. Len(s) \in Nat /\ DOMAIN s = 1 .. Len(s) /\ \A i \in 1 .. Len(s) : s[i] \in S
  BY LenProperties, ElementOfSeq
<1>2. Older(s) \in [1 .. Len(s) -> S]
  BY <1>1 DEF Older
<1> QED BY <1>1, <1>2, LenProperties, SeqDef

\* What a new request makes of the frames in flight.
LEMMA OlderFlight ==
  ASSUME NEW S, NEW s \in Seq(S),
         \A f \in S : /\ [f EXCEPT !.current = FALSE] \in S
                      /\ [f EXCEPT !.current = FALSE].tid = f.tid,
         NEW b \in Nat, NEW m \in Nat \ {0}, NEW id \in 0 .. m - 1, NEW w, NEW waits,
         Flight(s, b, id, m, w), Len(s) + b < m
  PROVE  /\ Older(s) \in Seq(S) /\ Len(Older(s)) = Len(s)
         /\ Flight(Older(s), b + 1, (id + 1) % m, m, waits)
<1>1. Len(s) \in Nat /\ DOMAIN s = 1 .. Len(s) /\ \A i \in 1 .. Len(s) : s[i] \in S
  BY LenProperties, ElementOfSeq
<1>2. \A i \in 1 .. Len(s) : Older(s)[i] = [s[i] EXCEPT !.current = FALSE]
  BY <1>1 DEF Older
<1>3. Older(s) \in Seq(S) /\ Len(Older(s)) = Len(s)
  BY OlderSeq
<1>4. ASSUME NEW i \in 1 .. Len(s)
      PROVE  /\ Older(s)[i].tid = Id(Len(s) + (b + 1) - i, (id + 1) % m, m)
             /\ Len(s) + (b + 1) # i
  <2> DEFINE k == Len(s) + b - i
  <2>1. k \in Nat /\ k + 1 = Len(s) + (b + 1) - i /\ Len(s) + (b + 1) # i
    BY <1>1
  <2>2. k + 1 < m
    BY <1>1
  <2>3. s[i].tid = Id(k, id, m)
    BY DEF Flight
  <2>4. Older(s)[i].tid = s[i].tid
    BY <1>1, <1>2
  <2> HIDE DEF k
  <2>5. Id(k + 1, (id + 1) % m, m) = Id(k, id, m)
    BY <2>1, <2>2, OlderId
  <2> QED BY <2>1, <2>3, <2>4, <2>5
<1> QED BY <1>3, <1>4 DEF Flight

\* Of fewer requests than there are identifiers only the last has its own.
LEMMA OwnId ==
  ASSUME NEW m \in Nat, NEW id \in 0 .. m - 1, NEW k \in 0 .. m - 1, Id(k, id, m) = id
  PROVE  k = 0
BY DEF Id
-----------------------------------------------------------------------------
(***************************************************************************)
(* The inductive invariant.                                                *)
(***************************************************************************)
Ids      == 0 .. TidMod - 1
Query    == [request : Requests, tid : Ids, current : BOOLEAN]
Frame(A) == [answer : A, tid : Ids, current : BOOLEAN]

\* The types, as far as they matter here; of an answer they say nothing.
Typed ==
  /\ setting \in Settings
  /\ mpc \in {"pause", "recovered", "waiting"}
  /\ transfer_id \in Ids /\ late \in 0 .. MaxLate
  /\ queries \in Seq(Query)
  /\ \E A : wire \in Seq(Frame(A)) /\ port \in Seq(Frame(A)) /\ ring \in Seq(Frame(A))

Waits == mpc = "waiting"
InFlight == Len(ring) + Len(port) + Len(wire) + Len(queries)

\* Over TCP the frames in flight are numbered one after the other, up to the
\* youngest, and few enough for their identifiers to be different.
InOrder ==
  /\ Flight(ring, Len(port) + Len(wire) + Len(queries), transfer_id, TidMod, Waits)
  /\ Flight(port, Len(wire) + Len(queries), transfer_id, TidMod, Waits)
  /\ Flight(wire, Len(queries), transfer_id, TidMod, Waits)
  /\ Flight(queries, 0, transfer_id, TidMod, Waits)
  /\ InFlight <= late + (IF Waits THEN 1 ELSE 0)

AllCurrent(s) == \A i \in 1 .. Len(s) : s[i].current

\* On a serial line nothing is in flight when a call begins.
Quiet ==
  /\ port = <<>>
  /\ mpc = "recovered" => queries = <<>> /\ wire = <<>> /\ ring = <<>>
  /\ Waits => AllCurrent(queries) /\ AllCurrent(wire) /\ AllCurrent(ring)

IInv ==
  /\ Typed
  /\ Core = "tcp" => InOrder
  /\ Core = "rtu" => Quiet
  /\ AnswerBelongsToRequest

LEMMA SettingFacts ==
  ASSUME setting \in Settings
  PROVE  /\ Core \in {"rtu", "tcp"} /\ TidMod \in Nat \ {0} /\ MaxLate \in Nat
         /\ Core = "tcp" => MaxLate < TidMod
         /\ Core = "rtu" => LineSettles
<1>1. /\ setting.core \in {"rtu", "tcp"} /\ setting.late \in Nat
      /\ setting.tids \in Nat \ {0}
  BY SettingsAssumption
<1>2. IF setting.core = "tcp" THEN setting.late < setting.tids ELSE setting.settles
  BY LateAssumption
<1>3. Core = "tcp" => MaxLate < TidMod
  BY <1>2 DEF Core, MaxLate, TidMod
<1>4. Core = "rtu" => LineSettles
  BY <1>2 DEF Core, LineSettles
<1> QED BY <1>1, <1>3, <1>4 DEF Core, TidMod, MaxLate

LEMMA InitIInv == Init => IInv
<1> SUFFICES ASSUME Init PROVE IInv
  OBVIOUS
<1>1. /\ setting \in Settings /\ mpc = "pause" /\ transfer_id = 0 /\ late = 0
      /\ queries = <<>> /\ wire = <<>> /\ port = <<>> /\ ring = <<>>
      /\ result = NoResult
  BY DEF Init
<1>2. Typed
  <2>1. transfer_id \in Ids /\ late \in 0 .. MaxLate
    BY <1>1, SettingFacts DEF Ids
  <2>2. queries \in Seq(Query) /\ wire \in Seq(Frame({})) /\ port \in Seq(Frame({}))
        /\ ring \in Seq(Frame({}))
    BY <1>1, EmptySeq
  <2> QED BY <1>1, <2>1, <2>2 DEF Typed
<1>3. Len(queries) = 0 /\ Len(wire) = 0 /\ Len(port) = 0 /\ Len(ring) = 0
  BY <1>1, EmptySeq
<1>4. InOrder
  BY <1>1, <1>3 DEF InOrder, InFlight, Flight, Waits
<1>5. Quiet
  BY <1>1 DEF Quiet, Waits
<1>6. AnswerBelongsToRequest
  <2>1. result.ret = -1
    BY <1>1 DEF NoResult, Without, MODBUS_FAIL
  <2> QED BY <2>1 DEF AnswerBelongsToRequest, MODBUS_OK, MODBUS_EXCEPTION
<1> QED BY <1>2, <1>4, <1>5, <1>6 DEF IInv

\* A new request ages frames and queries without changing their kind.
LEMMA Ageing ==
  /\ \A A : \A f \in Frame(A) : /\ [f EXCEPT !.current = FALSE] \in Frame(A)
                             /\ [f EXCEPT !.current = FALSE].tid = f.tid
  /\ \A q \in Query : /\ [q EXCEPT !.current = FALSE] \in Query
                     /\ [q EXCEPT !.current = FALSE].tid = q.tid
<1>1. ASSUME NEW A, NEW f \in Frame(A)
      PROVE  /\ [f EXCEPT !.current = FALSE] \in Frame(A)
             /\ [f EXCEPT !.current = FALSE].tid = f.tid
  BY DEF Frame
<1>2. ASSUME NEW q \in Query
      PROVE  /\ [q EXCEPT !.current = FALSE] \in Query
             /\ [q EXCEPT !.current = FALSE].tid = q.tid
  BY DEF Query
<1> QED BY <1>1, <1>2
-----------------------------------------------------------------------------
(***************************************************************************)
(* The types.                                                              *)
(***************************************************************************)
\* The frame the slave sends, whatever it answers.
LEMMA ServeFrame ==
  ASSUME Typed, Serve
  PROVE  /\ Head(queries) \in Query /\ queries # <<>> /\ queries' = Tail(queries)
         /\ \E B : \E e \in Frame(B) :
              /\ wire \in Seq(Frame(B)) /\ port \in Seq(Frame(B)) /\ ring \in Seq(Frame(B))
              /\ wire' = Append(wire, e)
              /\ e.tid = Head(queries).tid /\ e.current = Head(queries).current
<1>1. PICK A : wire \in Seq(Frame(A)) /\ port \in Seq(Frame(A)) /\ ring \in Seq(Frame(A))
  BY DEF Typed
<1>2. queries \in Seq(Query)
  BY DEF Typed
<1> DEFINE q == Head(queries)
<1>3. q \in Query /\ queries # <<>> /\ queries' = Tail(queries)
  BY <1>2, HeadTailProperties DEF Serve
<1>4. PICK refusal \in RefusalCodes :
        wire' = Append(wire, [answer  |-> slave_answer(q.request, tables, refusal),
                              tid     |-> q.tid, current |-> q.current])
  BY DEF Serve
<1> DEFINE a == slave_answer(q.request, tables, refusal)
           B == A \cup {a}
           e == [answer |-> a, tid |-> q.tid, current |-> q.current]
<1>5. q.tid \in Ids /\ q.current \in BOOLEAN
  BY <1>3 DEF Query
<1> HIDE DEF a, q
<1>6. Frame(A) \subseteq Frame(B)
  BY DEF Frame
<1>7. e \in Frame(B) /\ e.tid = q.tid /\ e.current = q.current
  BY <1>5 DEF Frame
<1>8. wire \in Seq(Frame(B)) /\ port \in Seq(Frame(B)) /\ ring \in Seq(Frame(B))
  BY <1>1, <1>6, SeqMonotonic
<1>9. wire' = Append(wire, e)
  BY <1>4 DEF a
<1> HIDE DEF B, e
<1>10. \E C : \E f \in Frame(C) :
         /\ wire \in Seq(Frame(C)) /\ port \in Seq(Frame(C)) /\ ring \in Seq(Frame(C))
         /\ wire' = Append(wire, f)
         /\ f.tid = q.tid /\ f.current = q.current
  BY <1>7, <1>8, <1>9
<1> QED BY <1>3, <1>10 DEF q

LEMMA TypedStep ==
  ASSUME Typed, [Next]_vars
  PROVE  Typed'
<1>1. PICK A : wire \in Seq(Frame(A)) /\ port \in Seq(Frame(A)) /\ ring \in Seq(Frame(A))
  BY DEF Typed
<1>2. setting' = setting /\ Ids' = Ids /\ Query' = Query /\ \A B : Frame(B)' = Frame(B)
  <2>1. setting' = setting
    BY DEF Next, Master, Recover, Reject, StartRequest, Receive, Confirm, Timeout, Serve,
           Arrive, Lose, vars
  <2> QED BY <2>1 DEF Ids, Query, Frame, TidMod
<1>3. /\ Core \in {"rtu", "tcp"} /\ TidMod \in Nat \ {0} /\ MaxLate \in Nat
      /\ MaxLate' = MaxLate
  BY <1>2, SettingFacts DEF Typed, MaxLate
<1>4. transfer_id \in Ids /\ late \in 0 .. MaxLate /\ queries \in Seq(Query)
      /\ mpc \in {"pause", "recovered", "waiting"} /\ setting \in Settings
  BY DEF Typed
<1>5. CASE Recover
  <2>1. ring' \in Seq(Frame(A))
    BY <1>5, EmptySeq DEF Recover
  <2> QED BY <1>1, <1>2, <1>3, <1>4, <1>5, <2>1 DEF Recover, Typed
<1>6. CASE Reject
  BY <1>1, <1>2, <1>3, <1>4, <1>6 DEF Reject, Typed, frames
<1>7. CASE StartRequest
  <2>1. transfer_id' \in Ids
    BY <1>3, <1>4, <1>7, NextId DEF StartRequest, Ids
  <2>2. /\ Older(wire) \in Seq(Frame(A)) /\ Older(port) \in Seq(Frame(A))
        /\ Older(ring) \in Seq(Frame(A))
    <3>1. \A f \in Frame(A) : [f EXCEPT !.current = FALSE] \in Frame(A)
      BY Ageing
    <3> QED BY <1>1, <3>1, OlderSeq
  <2>3. Older(queries) \in Seq(Query)
    BY <1>4, Ageing, OlderSeq
  <2>4. PICK r \in Requests :
          queries' = Append(Older(queries),
                            [request |-> r, tid |-> transfer_id', current |-> TRUE])
    BY <1>7 DEF StartRequest
  <2>5. [request |-> r, tid |-> transfer_id', current |-> TRUE] \in Query
    BY <2>1 DEF Query
  <2>6. queries' \in Seq(Query)
    BY <2>3, <2>4, <2>5, AppendProperties
  <2> QED BY <1>2, <1>3, <1>4, <1>7, <2>1, <2>2, <2>6 DEF StartRequest, Typed
<1>8. CASE Receive
  <2>1. port' \in Seq(Frame(A))
    BY <1>8, EmptySeq DEF Receive
  <2> QED BY <1>1, <1>2, <1>3, <1>4, <1>8, <2>1 DEF Receive, Typed
<1>9. CASE Confirm
  <2>1. ring' \in Seq(Frame(A))
    BY <1>1, <1>9, HeadTailProperties DEF Confirm
  <2> QED BY <1>1, <1>2, <1>3, <1>4, <1>9, <2>1 DEF Confirm, Typed
<1>10. CASE Timeout
  <2>1. late' \in 0 .. MaxLate
    BY <1>3, <1>4, <1>10 DEF Timeout
  <2> QED BY <1>1, <1>2, <1>3, <1>4, <1>10, <2>1 DEF Timeout, Typed, frames
<1>11. CASE Serve
  <2>1. PICK B : \E e \in Frame(B) :
                   /\ wire \in Seq(Frame(B)) /\ port \in Seq(Frame(B)) /\ ring \in Seq(Frame(B))
                   /\ wire' = Append(wire, e)
    BY <1>11, ServeFrame
  <2>2. wire' \in Seq(Frame(B)) /\ port \in Seq(Frame(B)) /\ ring \in Seq(Frame(B))
    BY <2>1, AppendProperties
  <2>3. queries' \in Seq(Query)
    BY <1>4, <1>11, HeadTailProperties DEF Serve
  <2> QED BY <1>2, <1>3, <1>4, <1>11, <2>2, <2>3 DEF Serve, Typed
<1>12. CASE Arrive
  <2>1. Head(wire) \in Frame(A) /\ wire' \in Seq(Frame(A))
    BY <1>1, <1>12, HeadTailProperties DEF Arrive
  <2>2. Append(port, Head(wire)) \in Seq(Frame(A)) /\ Append(ring, Head(wire)) \in Seq(Frame(A))
    BY <1>1, <2>1, AppendProperties
  <2>3. port' \in Seq(Frame(A)) /\ ring' \in Seq(Frame(A))
    BY <1>1, <1>12, <2>2 DEF Arrive
  <2> QED BY <1>2, <1>3, <1>4, <1>12, <2>1, <2>3 DEF Arrive, Typed
<1>13. CASE Lose
  <2>1. queries' \in Seq(Query) /\ wire' \in Seq(Frame(A))
    BY <1>1, <1>4, <1>13, HeadTailProperties DEF Lose
  <2> QED BY <1>1, <1>2, <1>3, <1>4, <1>13, <2>1 DEF Lose, Typed
<1>14. CASE UNCHANGED vars
  BY <1>1, <1>2, <1>3, <1>4, <1>14 DEF vars, Typed
<1> QED BY <1>5, <1>6, <1>7, <1>8, <1>9, <1>10, <1>11, <1>12, <1>13, <1>14 DEF Next, Master
-----------------------------------------------------------------------------
(***************************************************************************)
(* The order of the frames over TCP.                                       *)
(***************************************************************************)
\* Whether anybody waits matters only if somebody does.
LEMMA Unawaited ==
  ASSUME NEW s, NEW b, NEW id, NEW m, NEW w, Flight(s, b, id, m, w)
  PROVE  Flight(s, b, id, m, FALSE)
BY DEF Flight

\* No frame is out of order among none.
LEMMA NoFlight ==
  ASSUME NEW b, NEW id, NEW m, NEW w
  PROVE  Flight(<<>>, b, id, m, w)
BY EmptySeq DEF Flight

LEMMA SendInOrder ==
  ASSUME Typed, Core = "tcp", InOrder, StartRequest
  PROVE  InOrder'
<1>1. PICK A : wire \in Seq(Frame(A)) /\ port \in Seq(Frame(A)) /\ ring \in Seq(Frame(A))
  BY DEF Typed
<1>2. /\ TidMod \in Nat \ {0} /\ MaxLate \in Nat /\ MaxLate < TidMod
      /\ transfer_id \in 0 .. TidMod - 1 /\ late \in 0 .. MaxLate
      /\ queries \in Seq(Query)
  BY SettingFacts DEF Typed, Ids
<1>3. TidMod' = TidMod /\ Waits' /\ ~ Waits /\ late' = late
  BY DEF StartRequest, TidMod, Waits
<1>4. transfer_id' = (transfer_id + 1) % TidMod
  BY DEF StartRequest
<1>5. /\ Len(ring) \in Nat /\ Len(port) \in Nat /\ Len(wire) \in Nat /\ Len(queries) \in Nat
  BY <1>1, <1>2, LenProperties
<1>6. InFlight <= late /\ InFlight < TidMod /\ InFlight \in Nat
  BY <1>2, <1>3, <1>5 DEF InOrder, InFlight
<1>7. /\ \A f \in Frame(A) : /\ [f EXCEPT !.current = FALSE] \in Frame(A)
                            /\ [f EXCEPT !.current = FALSE].tid = f.tid
      /\ \A q \in Query : /\ [q EXCEPT !.current = FALSE] \in Query
                         /\ [q EXCEPT !.current = FALSE].tid = q.tid
  BY Ageing
<1> DEFINE id == (transfer_id + 1) % TidMod
           b1 == Len(queries)
           b2 == Len(wire) + Len(queries)
           b3 == Len(port) + Len(wire) + Len(queries)
<1>8. /\ b1 \in Nat /\ b2 \in Nat /\ b3 \in Nat
      /\ Len(wire) + b1 < TidMod /\ Len(port) + b2 < TidMod /\ Len(ring) + b3 < TidMod
      /\ Len(queries) + 0 < TidMod
  BY <1>2, <1>5, <1>6 DEF InFlight
<1>9. Len(Older(ring)) = Len(ring) /\ Flight(Older(ring), b3 + 1, id, TidMod, TRUE)
  <2>1. Flight(ring, b3, transfer_id, TidMod, Waits)
    BY DEF InOrder
  <2> HIDE DEF b3
  <2> QED BY <1>1, <1>2, <1>7, <1>8, <2>1, OlderFlight
<1>10. Len(Older(port)) = Len(port) /\ Flight(Older(port), b2 + 1, id, TidMod, TRUE)
  <2>1. Flight(port, b2, transfer_id, TidMod, Waits)
    BY DEF InOrder
  <2> HIDE DEF b2
  <2> QED BY <1>1, <1>2, <1>7, <1>8, <2>1, OlderFlight
<1>11. Len(Older(wire)) = Len(wire) /\ Flight(Older(wire), b1 + 1, id, TidMod, TRUE)
  <2>1. Flight(wire, b1, transfer_id, TidMod, Waits)
    BY DEF InOrder
  <2> HIDE DEF b1
  <2> QED BY <1>1, <1>2, <1>7, <1>8, <2>1, OlderFlight
<1>12. /\ Older(queries) \in Seq(Query) /\ Len(Older(queries)) = Len(queries)
       /\ Flight(Older(queries), 1, id, TidMod, TRUE)
  <2>1. Flight(queries, 0, transfer_id, TidMod, Waits)
    BY DEF InOrder
  <2>2. Flight(Older(queries), 0 + 1, id, TidMod, TRUE)
    BY <1>2, <1>7, <1>8, <2>1, OlderFlight
  <2>3. Older(queries) \in Seq(Query) /\ Len(Older(queries)) = Len(queries)
    BY <1>2, <1>7, OlderSeq
  <2>4. 0 + 1 = 1
    OBVIOUS
  <2> HIDE DEF id
  <2> QED BY <2>2, <2>3, <2>4
<1>13. PICK r \in Requests :
         queries' = Append(Older(queries),
                           [request |-> r, tid |-> transfer_id', current |-> TRUE])
  BY DEF StartRequest
<1> DEFINE e == [request |-> r, tid |-> transfer_id', current |-> TRUE]
<1>14. id \in 0 .. TidMod - 1
  BY <1>2, NextId
<1>15. e \in Query /\ e.tid = Id(0, id, TidMod) /\ e.current
  <2>1. e.tid = id /\ e.current /\ e \in Query
    BY <1>4, <1>14 DEF Query, Ids
  <2>2. Id(0, id, TidMod) = id
    BY <1>14 DEF Id
  <2> QED BY <2>1, <2>2
<1>16. Len(queries') = Len(queries) + 1 /\ Flight(queries', 0, id, TidMod, TRUE)
  <2> HIDE DEF e, id
  <2>1. queries' = Append(Older(queries), e)
    BY <1>13 DEF e
  <2>2. 1 \in Nat \ {0} /\ 1 - 1 = 0
    OBVIOUS
  <2>3. /\ Len(Append(Older(queries), e)) = Len(Older(queries)) + 1
        /\ Flight(Append(Older(queries), e), 1 - 1, id, TidMod, TRUE)
    BY <1>12, <1>15, <2>2, AppendFlight
  <2> QED BY <1>12, <2>1, <2>2, <2>3
<1>17. wire' = Older(wire) /\ port' = Older(port) /\ ring' = Older(ring)
  BY DEF StartRequest
<1>18. /\ Len(queries') = b1 + 1 /\ Len(wire') + Len(queries') = b2 + 1
       /\ Len(port') + Len(wire') + Len(queries') = b3 + 1
       /\ InFlight' <= late' + 1
  BY <1>2, <1>3, <1>5, <1>6, <1>9, <1>10, <1>11, <1>16, <1>17 DEF InFlight
<1>19. Waits' = TRUE
  BY <1>3 DEF Waits
<1>20. transfer_id' = id
  BY <1>4
<1> HIDE DEF b1, b2, b3, id
<1>21. /\ Flight(ring', b3 + 1, transfer_id', TidMod', Waits')
       /\ Flight(port', b2 + 1, transfer_id', TidMod', Waits')
       /\ Flight(wire', b1 + 1, transfer_id', TidMod', Waits')
       /\ Flight(queries', 0, transfer_id', TidMod', Waits')
  BY <1>3, <1>9, <1>10, <1>11, <1>16, <1>17, <1>19, <1>20
<1>22. InFlight' <= late' + (IF Waits' THEN 1 ELSE 0)
  BY <1>18, <1>19
<1> QED BY <1>18, <1>21, <1>22 DEF InOrder

\* The other steps of the master.
LEMMA MasterInOrder ==
  ASSUME Typed, Core = "tcp", InOrder, Recover \/ Reject \/ Receive \/ Confirm \/ Timeout
  PROVE  InOrder'
<1>1. PICK A : wire \in Seq(Frame(A)) /\ port \in Seq(Frame(A)) /\ ring \in Seq(Frame(A))
  BY DEF Typed
<1>2. late \in Nat /\ queries \in Seq(Query)
  BY SettingFacts DEF Typed
<1>3. /\ Len(ring) \in Nat /\ Len(port) \in Nat /\ Len(wire) \in Nat /\ Len(queries) \in Nat
  BY <1>1, <1>2, LenProperties
<1>4. /\ TidMod' = TidMod /\ transfer_id' = transfer_id /\ queries' = queries /\ wire' = wire
  BY DEF Recover, Reject, Receive, Confirm, Timeout, frames, TidMod
<1>5. Len(<<>>) = 0
  BY EmptySeq
<1>6. CASE Recover
  <2>1. /\ ring' = <<>> /\ port' = port /\ late' = late /\ ~ Waits /\ ~ Waits' /\ Waits' = Waits
    BY <1>6 DEF Recover, Waits
  <2>2. InFlight' <= late' + (IF Waits' THEN 1 ELSE 0)
    BY <1>2, <1>3, <1>4, <1>5, <2>1 DEF InOrder, InFlight
  <2> QED BY <1>4, <2>1, <2>2, NoFlight DEF InOrder
<1>7. CASE Reject
  <2>1. /\ ring' = ring /\ port' = port /\ late' = late /\ Waits' = Waits
    BY <1>7 DEF Reject, Waits, frames
  <2> QED BY <1>4, <2>1 DEF InOrder, InFlight
<1>8. CASE Receive
  <2>1. /\ ring = <<>> /\ ring' = port /\ port' = <<>> /\ late' = late /\ Waits' = Waits
    BY <1>8 DEF Receive, Waits
  <2>2. InFlight' = InFlight
    BY <1>3, <1>4, <1>5, <2>1 DEF InFlight
  <2>3. Len(port') + Len(wire') + Len(queries') = Len(wire) + Len(queries)
    BY <1>3, <1>4, <1>5, <2>1
  <2> QED BY <1>4, <2>1, <2>2, <2>3, NoFlight DEF InOrder
<1>9. CASE Confirm
  <2>1. /\ ring # <<>> /\ ring' = Tail(ring) /\ port' = port /\ late' = late /\ Waits /\ Waits' = FALSE
    BY <1>9 DEF Confirm, Waits
  <2> DEFINE b == Len(port) + Len(wire) + Len(queries)
  <2>2. b \in Nat /\ Flight(ring, b, transfer_id, TidMod, Waits)
    BY <1>3 DEF InOrder
  <2> HIDE DEF b
  <2>3. Len(ring') = Len(ring) - 1 /\ Flight(ring', b, transfer_id, TidMod, Waits)
    BY <1>1, <2>1, <2>2, TailFlight
  <2>4. InFlight' <= late' + (IF Waits' THEN 1 ELSE 0)
    BY <1>2, <1>3, <1>4, <2>1, <2>3 DEF InOrder, InFlight
  <2>5. /\ Flight(ring', b, transfer_id, TidMod, FALSE)
        /\ Flight(port, Len(wire) + Len(queries), transfer_id, TidMod, FALSE)
        /\ Flight(wire, Len(queries), transfer_id, TidMod, FALSE)
        /\ Flight(queries, 0, transfer_id, TidMod, FALSE)
    BY <2>3, Unawaited DEF InOrder
  <2> QED BY <1>4, <2>1, <2>4, <2>5 DEF InOrder, b
<1>10. CASE Timeout
  <2>1. /\ ring = <<>> /\ port = <<>> /\ ring' = ring /\ port' = port /\ Waits /\ Waits' = FALSE
        /\ late' = IF Outstanding THEN late + 1 ELSE late
    BY <1>10 DEF Timeout, Waits, frames
  <2>2. InFlight' = InFlight /\ InFlight <= late + 1
    BY <1>4, <2>1 DEF InOrder, InFlight
  <2>3. InFlight' <= late' + (IF Waits' THEN 1 ELSE 0)
    <3>1. CASE Outstanding
      BY <1>2, <2>1, <2>2, <3>1
    <3>2. CASE ~ Outstanding
      <4>1. InFlight = 0
        BY <1>5, <2>1, <3>2 DEF Outstanding, InFlight
      <4> QED BY <1>2, <2>1, <2>2, <3>2, <4>1
    <3> QED BY <3>1, <3>2
  <2>4. /\ Flight(port, Len(wire) + Len(queries), transfer_id, TidMod, FALSE)
        /\ Flight(ring, Len(port) + Len(wire) + Len(queries), transfer_id, TidMod, FALSE)
        /\ Flight(wire, Len(queries), transfer_id, TidMod, FALSE)
        /\ Flight(queries, 0, transfer_id, TidMod, FALSE)
    BY Unawaited DEF InOrder
  <2> QED BY <1>4, <2>1, <2>3, <2>4 DEF InOrder
<1> QED BY <1>6, <1>7, <1>8, <1>9, <1>10

\* The slave and the line.
LEMMA ServeInOrder ==
  ASSUME Typed, Core = "tcp", InOrder, Serve
  PROVE  InOrder'
<1>1. PICK B : \E f \in Frame(B) :
        /\ wire \in Seq(Frame(B)) /\ port \in Seq(Frame(B)) /\ ring \in Seq(Frame(B))
        /\ wire' = Append(wire, f)
        /\ f.tid = Head(queries).tid /\ f.current = Head(queries).current
  BY ServeFrame
<1>2. PICK e \in Frame(B) :
        /\ wire \in Seq(Frame(B)) /\ port \in Seq(Frame(B)) /\ ring \in Seq(Frame(B))
        /\ wire' = Append(wire, e)
        /\ e.tid = Head(queries).tid /\ e.current = Head(queries).current
  BY <1>1
<1>3. queries \in Seq(Query) /\ queries # <<>> /\ queries' = Tail(queries)
  BY ServeFrame DEF Typed
<1>4. /\ TidMod' = TidMod /\ transfer_id' = transfer_id /\ Waits' = Waits /\ late' = late
      /\ port' = port /\ ring' = ring
  BY DEF Serve, TidMod, Waits
<1>5. /\ Len(queries) \in Nat \ {0} /\ Len(queries') = Len(queries) - 1
      /\ Flight(queries', 0, transfer_id, TidMod, Waits)
      /\ Head(queries) = queries[1]
  BY <1>3, TailFlight DEF InOrder
<1>6. /\ e.tid = Id(Len(queries) - 1, transfer_id, TidMod)
      /\ Waits /\ Len(queries) = 1 => e.current
  <2>1. 1 \in 1 .. Len(queries) /\ Len(queries) + 0 - 1 = Len(queries) - 1
        /\ Len(queries) + 0 = Len(queries)
    BY <1>5
  <2>2. Flight(queries, 0, transfer_id, TidMod, Waits)
    BY DEF InOrder
  <2> QED BY <1>2, <1>5, <2>1, <2>2 DEF Flight
<1>7. /\ Len(wire') = Len(wire) + 1
      /\ Flight(wire', Len(queries) - 1, transfer_id, TidMod, Waits)
  BY <1>2, <1>5, <1>6, AppendFlight DEF InOrder
<1>8. /\ Len(ring) \in Nat /\ Len(port) \in Nat /\ Len(wire) \in Nat
  BY <1>2, LenProperties
<1>9. /\ Len(wire') + Len(queries') = Len(wire) + Len(queries)
      /\ Len(port') + Len(wire') + Len(queries') = Len(port) + Len(wire) + Len(queries)
      /\ InFlight' = InFlight
  BY <1>4, <1>5, <1>7, <1>8 DEF InFlight
<1> QED BY <1>4, <1>5, <1>7, <1>9 DEF InOrder

LEMMA ArriveInOrder ==
  ASSUME Typed, Core = "tcp", InOrder, Arrive
  PROVE  InOrder'
<1>1. PICK A : wire \in Seq(Frame(A)) /\ port \in Seq(Frame(A)) /\ ring \in Seq(Frame(A))
  BY DEF Typed
<1>2. /\ TidMod' = TidMod /\ transfer_id' = transfer_id /\ Waits' = Waits /\ late' = late
      /\ queries' = queries /\ ring' = ring
      /\ wire # <<>> /\ wire' = Tail(wire) /\ port' = Append(port, Head(wire))
  BY DEF Arrive, TidMod, Waits
<1>3. /\ Len(ring) \in Nat /\ Len(port) \in Nat /\ Len(queries) \in Nat
  BY <1>1, LenProperties DEF Typed
<1>4. /\ Len(wire) \in Nat \ {0} /\ Len(wire') = Len(wire) - 1
      /\ Flight(wire', Len(queries), transfer_id, TidMod, Waits)
      /\ Head(wire) = wire[1] /\ Head(wire) \in Frame(A)
  BY <1>1, <1>2, <1>3, TailFlight DEF InOrder
<1> DEFINE b == Len(wire) + Len(queries)
<1>5. b \in Nat \ {0} /\ 1 \in 1 .. Len(wire)
  BY <1>3, <1>4
<1>6. /\ Head(wire).tid = Id(b - 1, transfer_id, TidMod)
      /\ Waits /\ b = 1 => Head(wire).current
  <2>1. Flight(wire, Len(queries), transfer_id, TidMod, Waits)
    BY DEF InOrder
  <2> QED BY <1>4, <1>5, <2>1 DEF Flight
<1>7. Flight(port, b, transfer_id, TidMod, Waits)
  BY DEF InOrder
<1> HIDE DEF b
<1>8. Len(port') = Len(port) + 1 /\ Flight(port', b - 1, transfer_id, TidMod, Waits)
  BY <1>1, <1>2, <1>4, <1>5, <1>6, <1>7, AppendFlight
<1>9. /\ Len(wire') + Len(queries') = b - 1
      /\ Len(port') + Len(wire') + Len(queries') = Len(port) + Len(wire) + Len(queries)
      /\ InFlight' = InFlight
  BY <1>2, <1>3, <1>4, <1>8 DEF InFlight, b
<1> QED BY <1>2, <1>4, <1>8, <1>9 DEF InOrder

LEMMA InOrderStep ==
  ASSUME Typed, Core = "tcp", InOrder, [Next]_vars
  PROVE  InOrder'
<1>1. CASE StartRequest
  BY <1>1, SendInOrder
<1>2. CASE Recover \/ Reject \/ Receive \/ Confirm \/ Timeout
  BY <1>2, MasterInOrder
<1>3. CASE Serve
  BY <1>3, ServeInOrder
<1>4. CASE Arrive
  BY <1>4, ArriveInOrder
<1>5. CASE Lose
  BY <1>5 DEF Lose
<1>6. CASE UNCHANGED vars
  BY <1>6 DEF vars, InOrder, InFlight, Waits, TidMod
<1> QED BY <1>1, <1>2, <1>3, <1>4, <1>5, <1>6 DEF Next, Master
-----------------------------------------------------------------------------
(***************************************************************************)
(* The quiet serial line.                                                  *)
(***************************************************************************)
LEMMA TailCurrent ==
  ASSUME NEW S, NEW s \in Seq(S), s # <<>>, AllCurrent(s)
  PROVE  /\ Tail(s) \in Seq(S) /\ AllCurrent(Tail(s))
         /\ Head(s) \in S /\ Head(s).current
<1>1. /\ Tail(s) \in Seq(S) /\ Len(s) \in Nat \ {0} /\ Len(Tail(s)) = Len(s) - 1
      /\ \A i \in 1 .. Len(Tail(s)) : Tail(s)[i] = s[i + 1]
      /\ Head(s) \in S
  BY HeadTailProperties, EmptySeq
<1>2. Head(s) = s[1] /\ 1 \in 1 .. Len(s)
  BY <1>1
<1>3. \A i \in 1 .. Len(Tail(s)) : i + 1 \in 1 .. Len(s)
  BY <1>1
<1> QED BY <1>1, <1>2, <1>3 DEF AllCurrent

LEMMA AppendCurrent ==
  ASSUME NEW S, NEW s \in Seq(S), NEW e \in S, AllCurrent(s), e.current
  PROVE  AllCurrent(Append(s, e))
<1>1. /\ Len(Append(s, e)) = Len(s) + 1 /\ Len(s) \in Nat
      /\ \A i \in 1 .. Len(s) : Append(s, e)[i] = s[i]
      /\ Append(s, e)[Len(s) + 1] = e
  BY AppendProperties, LenProperties
<1>2. \A i \in 1 .. Len(Append(s, e)) : i \in 1 .. Len(s) \/ i = Len(s) + 1
  BY <1>1
<1> QED BY <1>1, <1>2 DEF AllCurrent

\* No frame is all of its own call.
LEMMA NoneCurrent == AllCurrent(<<>>)
BY EmptySeq DEF AllCurrent

\* No frame ages to none.
LEMMA OlderEmpty ==
  ASSUME NEW s, s = <<>>
  PROVE  Older(s) = <<>>
<1>1. s \in Seq({}) /\ Len(s) = 0
  BY EmptySeq
<1>2. Older(s) \in Seq({}) /\ Len(Older(s)) = 0
  BY <1>1, OlderSeq
<1> QED BY <1>2, EmptySeq

\* A call begins after the flush of a line on which nothing moves, so all that
\* moves while it waits is its own.
LEMMA QuietStep ==
  ASSUME Typed, Core = "rtu", Quiet, [Next]_vars
  PROVE  Quiet'
<1>1. PICK A : wire \in Seq(Frame(A)) /\ port \in Seq(Frame(A)) /\ ring \in Seq(Frame(A))
  BY DEF Typed
<1>2. LineSettles /\ queries \in Seq(Query) /\ mpc \in {"pause", "recovered", "waiting"}
  BY SettingFacts DEF Typed
<1>3. port = <<>> /\ Core # "tcp"
  BY DEF Quiet
<1>4. CASE Recover
  <2>1. queries' = <<>> /\ wire' = <<>> /\ ring' = <<>> /\ port' = port /\ mpc' = "recovered"
    BY <1>2, <1>4 DEF Recover
  <2> QED BY <1>3, <2>1 DEF Quiet, Waits
<1>5. CASE Reject
  BY <1>3, <1>5 DEF Reject, Quiet, Waits, frames
<1>6. CASE StartRequest
  <2>1. queries = <<>> /\ wire = <<>> /\ ring = <<>>
    BY <1>6 DEF StartRequest, Quiet
  <2>2. /\ wire' = Older(wire) /\ port' = Older(port) /\ ring' = Older(ring)
        /\ mpc' = "waiting"
    BY <1>6 DEF StartRequest
  <2>3. /\ wire' = <<>> /\ port' = <<>> /\ ring' = <<>> /\ Older(queries) = <<>>
    BY <1>3, <2>1, <2>2, OlderEmpty
  <2>4. PICK r \in Requests :
          queries' = Append(Older(queries),
                            [request |-> r, tid |-> transfer_id', current |-> TRUE])
    BY <1>6 DEF StartRequest
  <2> DEFINE e == [request |-> r, tid |-> transfer_id', current |-> TRUE]
  <2>5. e.current /\ queries' = Append(<<>>, e)
    BY <2>3, <2>4
  <2> HIDE DEF e
  <2>6. AllCurrent(queries')
    <3>1. <<>> \in Seq({e})
      BY EmptySeq
    <3> QED BY <2>5, <3>1, NoneCurrent, AppendCurrent
  <2> QED BY <2>2, <2>3, <2>6, NoneCurrent DEF Quiet
<1>7. CASE Receive
  BY <1>3, <1>7 DEF Receive
<1>8. CASE Confirm
  BY <1>3, <1>8 DEF Confirm, Quiet, Waits
<1>9. CASE Timeout
  BY <1>3, <1>9 DEF Timeout, Quiet, Waits, frames
<1>10. CASE Serve
  <2>1. PICK B : \E f \in Frame(B) :
          /\ wire \in Seq(Frame(B)) /\ port \in Seq(Frame(B)) /\ ring \in Seq(Frame(B))
          /\ wire' = Append(wire, f)
          /\ f.tid = Head(queries).tid /\ f.current = Head(queries).current
    BY <1>10, ServeFrame
  <2>2. PICK e \in Frame(B) :
          /\ wire \in Seq(Frame(B))
          /\ wire' = Append(wire, e)
          /\ e.current = Head(queries).current
    BY <2>1
  <2>3. /\ queries # <<>> /\ queries' = Tail(queries)
        /\ port' = port /\ ring' = ring /\ mpc' = mpc
    BY <1>10 DEF Serve
  <2>4. CASE Waits
    <3>1. AllCurrent(queries') /\ Head(queries).current
      BY <1>2, <2>3, <2>4, TailCurrent DEF Quiet
    <3>2. AllCurrent(wire')
      BY <2>2, <2>4, <3>1, AppendCurrent DEF Quiet
    <3> QED BY <1>3, <2>3, <2>4, <3>1, <3>2 DEF Quiet, Waits
  <2>5. CASE ~ Waits
    <3>1. mpc' # "recovered" /\ ~ Waits'
      BY <2>3, <2>5 DEF Quiet, Waits
    <3> QED BY <1>3, <2>3, <3>1 DEF Quiet
  <2> QED BY <2>4, <2>5
<1>11. CASE Arrive
  <2>1. /\ wire # <<>> /\ wire' = Tail(wire) /\ ring' = Append(ring, Head(wire))
        /\ port' = port /\ queries' = queries /\ mpc' = mpc
    BY <1>3, <1>11 DEF Arrive
  <2>2. CASE Waits
    <3>1. AllCurrent(wire') /\ Head(wire) \in Frame(A) /\ Head(wire).current
      BY <1>1, <2>1, <2>2, TailCurrent DEF Quiet
    <3>2. AllCurrent(ring')
      BY <1>1, <2>1, <2>2, <3>1, AppendCurrent DEF Quiet
    <3> QED BY <1>3, <2>1, <2>2, <3>1, <3>2 DEF Quiet, Waits
  <2>3. CASE ~ Waits
    <3>1. mpc' # "recovered" /\ ~ Waits'
      BY <2>1, <2>3 DEF Quiet, Waits
    <3> QED BY <1>3, <2>1, <3>1 DEF Quiet
  <2> QED BY <2>2, <2>3
<1>12. CASE Lose
  <2>1. port' = port /\ ring' = ring /\ mpc' = mpc
    BY <1>12 DEF Lose
  <2>2. CASE Waits
    <3>1. AllCurrent(queries') /\ AllCurrent(wire')
      BY <1>1, <1>2, <1>12, <2>2, TailCurrent DEF Lose, Quiet
    <3> QED BY <1>3, <2>1, <2>2, <3>1 DEF Quiet, Waits
  <2>3. CASE ~ Waits
    <3>1. mpc' # "recovered" /\ ~ Waits'
      BY <1>12, <2>1, <2>3 DEF Lose, Quiet, Waits
    <3> QED BY <1>3, <2>1, <3>1 DEF Quiet
  <2> QED BY <2>2, <2>3
<1>13. CASE UNCHANGED vars
  BY <1>13 DEF vars, Quiet, Waits
<1> QED BY <1>4, <1>5, <1>6, <1>7, <1>8, <1>9, <1>10, <1>11, <1>12, <1>13 DEF Next, Master
-----------------------------------------------------------------------------
(***************************************************************************)
(* The answers.                                                            *)
(***************************************************************************)
\* An answer that is taken for that of the call under way is.
LEMMA ConfirmOwn ==
  ASSUME IInv, Confirm
  PROVE  AnswerBelongsToRequest'
<1>1. PICK A : wire \in Seq(Frame(A)) /\ port \in Seq(Frame(A)) /\ ring \in Seq(Frame(A))
  BY DEF IInv, Typed
<1>2. /\ Core \in {"rtu", "tcp"} /\ TidMod \in Nat \ {0} /\ MaxLate \in Nat
      /\ Core = "tcp" => MaxLate < TidMod
      /\ transfer_id \in 0 .. TidMod - 1 /\ late \in 0 .. MaxLate /\ queries \in Seq(Query)
  BY SettingFacts DEF IInv, Typed, Ids
<1>3. ring # <<>> /\ Waits
  BY DEF Confirm, Waits
<1>4. result'.current = Head(ring).current
  BY DEF Confirm
<1>5. Head(ring) = ring[1] /\ Len(ring) \in Nat \ {0} /\ 1 \in 1 .. Len(ring)
  BY <1>1, <1>3, HeadTailProperties, EmptySeq, LenProperties
<1>6. CASE Core = "rtu"
  <2>1. AllCurrent(ring)
    BY <1>3, <1>6 DEF IInv, Quiet
  <2> QED BY <1>4, <1>5, <2>1 DEF AllCurrent, AnswerBelongsToRequest
<1>7. CASE Core = "tcp" /\ Head(ring).tid # transfer_id
  <2>1. result'.ret = MODBUS_FAIL_CHECK
    BY <1>7 DEF Confirm
  <2> QED BY <2>1 DEF AnswerBelongsToRequest, MODBUS_FAIL_CHECK, MODBUS_OK, MODBUS_EXCEPTION
<1>8. CASE Core = "tcp" /\ Head(ring).tid = transfer_id
  <2> DEFINE b == Len(port) + Len(wire) + Len(queries)
  <2>1. Flight(ring, b, transfer_id, TidMod, Waits) /\ InFlight <= late + 1
    BY <1>3, <1>8 DEF IInv, InOrder
  <2>2. b \in Nat /\ InFlight = Len(ring) + b
    BY <1>1, <1>2, <1>5, LenProperties DEF InFlight
  <2> HIDE DEF b
  <2> DEFINE k == Len(ring) + b - 1
  <2>3. k \in 0 .. TidMod - 1
    BY <1>2, <1>5, <1>8, <2>1, <2>2
  <2>4. /\ ring[1].tid = Id(k, transfer_id, TidMod)
        /\ Waits /\ Len(ring) + b = 1 => ring[1].current
    BY <1>5, <2>1 DEF Flight
  <2> HIDE DEF k
  <2>5. k = 0
    BY <1>2, <1>5, <1>8, <2>3, <2>4, OwnId
  <2>6. Len(ring) + b = 1
    BY <1>5, <2>2, <2>5 DEF k
  <2> QED BY <1>3, <1>4, <1>5, <2>4, <2>6 DEF AnswerBelongsToRequest
<1> QED BY <1>2, <1>6, <1>7, <1>8

LEMMA OwnAnswer ==
  ASSUME IInv, [Next]_vars
  PROVE  AnswerBelongsToRequest'
<1>1. AnswerBelongsToRequest
  BY DEF IInv
<1>2. CASE Confirm
  BY <1>2, ConfirmOwn
<1>3. CASE Recover
  BY <1>3 DEF Recover, AnswerBelongsToRequest
<1>4. CASE Reject
  <2>1. result'.ret = MODBUS_FAIL_REQUEST
    BY <1>4 DEF Reject, Without
  <2> QED BY <2>1 DEF AnswerBelongsToRequest, MODBUS_FAIL_REQUEST, MODBUS_OK, MODBUS_EXCEPTION
<1>5. CASE StartRequest
  BY <1>5 DEF StartRequest, AnswerBelongsToRequest
<1>6. CASE Timeout
  <2>1. result'.ret = MODBUS_TIMEOUT
    BY <1>6 DEF Timeout, Without
  <2> QED BY <2>1 DEF AnswerBelongsToRequest, MODBUS_TIMEOUT, MODBUS_OK, MODBUS_EXCEPTION
<1>7. CASE Receive \/ Serve \/ Arrive \/ Lose \/ UNCHANGED vars
  <2>1. mpc' = mpc /\ result' = result
    BY <1>7 DEF Receive, Serve, Arrive, Lose, vars
  <2> QED BY <1>1, <2>1 DEF AnswerBelongsToRequest
<1> QED BY <1>2, <1>3, <1>4, <1>5, <1>6, <1>7 DEF Next, Master

LEMMA StepIInv == IInv /\ [Next]_vars => IInv'
<1> SUFFICES ASSUME IInv, [Next]_vars PROVE IInv'
  OBVIOUS
<1>1. Typed /\ (Core = "tcp" => InOrder) /\ (Core = "rtu" => Quiet)
  BY DEF IInv
<1>2. Core' = Core
  BY DEF Next, Master, Recover, Reject, StartRequest, Receive, Confirm, Timeout, Serve,
         Arrive, Lose, vars, Core
<1>3. Typed'
  BY <1>1, TypedStep
<1>4. Core = "tcp" => InOrder'
  BY <1>1, InOrderStep
<1>5. Core = "rtu" => Quiet'
  BY <1>1, QuietStep
<1>6. AnswerBelongsToRequest'
  BY OwnAnswer
<1> QED BY <1>2, <1>3, <1>4, <1>5, <1>6 DEF IInv

LEMMA Invariant == Spec => []IInv
<1>1. IInv /\ [Next]_vars => IInv'
  BY StepIInv
<1> QED BY <1>1, InitIInv, PTL DEF Spec

\* What wait_confirm and handle_confirm report as an answer is the answer to the
\* call's own request: over TCP by transfer_id, as long as fewer answers have been
\* late than there are identifiers, on a serial line that is quiet when
\* modbus_error_recovery flushes it.
THEOREM AnswersBelong == Spec => []AnswerBelongsToRequest
<1>1. IInv => AnswerBelongsToRequest
  BY DEF IInv
<1> QED BY <1>1, Invariant, PTL

-----------------------------------------------------------------------------
(***************************************************************************)
(* The pure part: what the slave makes of a request, and the master of the *)
(* answer.                                                                 *)
(***************************************************************************)
Tables == [TableNames -> [0 .. Cells - 1 -> Values]]
Sent == {r \in Requests : modbus_check_addr_num(r.function, r.num)}

\* The slave reads a quantity as the master wrote it.
LEMMA UInt16Facts == \A n \in UInt16 : n \in Nat /\ \A k \in 0 .. n : k % 65536 = k /\ k \in UInt16
<1>1. \A n, m \in Int : n > 0 /\ m >= 0 /\ m < n => m % n = m
  OBVIOUS
<1>2. 65535 < 65536 /\ 65535 \in Int /\ 65536 \in Int
  OBVIOUS
<1>3. \A n \in UInt16 : n \in Nat /\ n < 65536
  <2> DEFINE b == 65535
             m == 65536
  <2>1. UInt16 = 0 .. b
    BY DEF UInt16
  <2>2. b \in Int /\ m \in Int /\ b < m
    OBVIOUS
  <2>3. m = 65536
    OBVIOUS
  <2> HIDE DEF b, m
  <2>4. \A n \in UInt16 : n \in Nat /\ n < m
    BY <2>1, <2>2
  <2> QED BY <2>3, <2>4
<1>4. \E b \in Int : UInt16 = 0 .. b
  <2> DEFINE b == 65535
  <2>1. UInt16 = 0 .. b
    BY DEF UInt16
  <2>2. b \in Int
    OBVIOUS
  <2> HIDE DEF b
  <2> QED BY <2>1, <2>2
<1>5. \A n \in UInt16 : 0 .. n \subseteq UInt16
  BY <1>4
<1>6. ASSUME NEW n \in UInt16, NEW k \in 0 .. n
      PROVE  k % 65536 = k
  <2>1. k \in Int /\ k >= 0 /\ k < 65536
    BY <1>3
  <2> QED BY <1>1, <1>2, <2>1
<1> QED BY <1>3, <1>5, <1>6

\* The cells of a frame are fewer than its bytes' bits.
LEMMA CheckFacts ==
  ASSUME NEW f \in Reads \cup SingleWrites \cup MultipleWrites,
         NEW n \in UInt16, modbus_check_addr_num(f, n)
  PROVE  /\ f \notin SingleWrites => n # 0
         /\ \A k \in 1 .. n : modbus_check_addr_num(f, k)
<1>1. n \in Nat /\ \A k \in 0 .. n : k % 65536 = k
  BY UInt16Facts
<1> DEFINE low(x) == x % 65536
           Fits(x, a) == low(x) \in 1 .. a
<1>2. \A x : modbus_check_addr_num(f, x) <=>
         \/ f \in CoilReads                  /\ Fits(x, 2000)
         \/ f \in RegisterReads              /\ Fits(x, 125)
         \/ f = WRITE_MULTIPLE_COILS         /\ Fits(x, 1968)
         \/ f = WRITE_MULTIPLE_REGISTERS     /\ Fits(x, 123)
         \/ f \in SingleWrites
  BY DEF modbus_check_addr_num
<1>3. ASSUME NEW a \in Int, Fits(n, a)
      PROVE  n # 0 /\ \A k \in 1 .. n : Fits(k, a)
  <2>1. n \in 1 .. a /\ n # 0
    BY <1>1, <1>3
  <2>2. ASSUME NEW k \in 1 .. n
        PROVE  Fits(k, a)
    <3>1. low(k) = k
      BY <1>1
    <3>2. k \in 1 .. a
      BY <1>1, <2>1
    <3> QED BY <3>1, <3>2
  <2> QED BY <2>1, <2>2
<1>4. 2000 \in Int /\ 125 \in Int /\ 1968 \in Int /\ 123 \in Int
  OBVIOUS
<1> HIDE DEF low, Fits
<1>5. ASSUME NEW a \in Int, Fits(n, a), \A x : Fits(x, a) => modbus_check_addr_num(f, x)
      PROVE  n # 0 /\ \A k \in 1 .. n : modbus_check_addr_num(f, k)
  BY <1>3, <1>5
<1>6. CASE f \in CoilReads /\ Fits(n, 2000)
  BY <1>2, <1>4, <1>5, <1>6, SMT
<1>7. CASE f \in RegisterReads /\ Fits(n, 125)
  BY <1>2, <1>4, <1>5, <1>7, SMT
<1>8. CASE f = WRITE_MULTIPLE_COILS /\ Fits(n, 1968)
  BY <1>2, <1>4, <1>5, <1>8, SMT
<1>9. CASE f = WRITE_MULTIPLE_REGISTERS /\ Fits(n, 123)
  BY <1>2, <1>4, <1>5, <1>9, SMT
<1>10. CASE f \in SingleWrites
  BY <1>2, <1>10, SMT
<1> QED BY <1>2, <1>6, <1>7, <1>8, <1>9, <1>10, SMT

\* What the part of a range that lies in the table amounts to.
LEMMA ServedFacts ==
  ASSUME NEW addr \in Nat, NEW num \in Nat
  PROVE  /\ Served(addr, num) \in 0 .. num
         /\ addr >= Cells => Served(addr, num) = 0
         /\ addr < Cells /\ num > 0 => Served(addr, num) > 0
         /\ addr < Cells => addr + Served(addr, num) <= Cells
         /\ addr < Cells /\ addr + num <= Cells => Served(addr, num) = num
BY CellsAssumption DEF Served

\* The cells served are those of the range named that exist.
LEMMA ServedCells ==
  ASSUME NEW addr \in Nat, NEW num \in Nat, NEW c \in 0 .. Cells - 1
  PROVE  c \in addr .. addr + Served(addr, num) - 1 <=> c \in addr .. addr + num - 1
BY CellsAssumption DEF Served

\* The requests a master sends.
LEMMA SentFacts ==
  ASSUME NEW r \in Sent
  PROVE  /\ r \in Requests /\ r.function \in Reads \cup SingleWrites \cup MultipleWrites
         /\ r.addr \in Nat /\ r.num \in Nat \ {0}
         /\ r.function \in SingleWrites => r.num = 1
         /\ \A k \in 1 .. r.num : modbus_check_addr_num(r.function, k)
<1>1. r \in Requests /\ modbus_check_addr_num(r.function, r.num)
  BY DEF Sent
<1>2. /\ r.function \in Reads \cup SingleWrites \cup MultipleWrites
      /\ r.addr \in UInt16 /\ r.num \in UInt16
  BY <1>1, RequestsAssumption
<1>4. r.function \in SingleWrites => r.num = 1
  BY <1>1, RequestsAssumption
<1>5. r.addr \in Nat /\ r.num \in Nat
  BY <1>2, UInt16Facts
<1>6. r.function \in SingleWrites => r.num # 0
  BY <1>4
<1>7. r.function \notin SingleWrites => r.num # 0
  BY <1>1, <1>2, CheckFacts
<1>8. \A k \in 1 .. r.num : modbus_check_addr_num(r.function, k)
  BY <1>1, <1>2, CheckFacts
<1> QED BY <1>1, <1>2, <1>4, <1>5, <1>6, <1>7, <1>8

\* What a write brings.
LEMMA SentData ==
  ASSUME NEW r \in Sent
  PROVE  /\ r.data \in Seq(Values)
         /\ r.function \notin Reads => r.num = Len(r.data)
BY RequestsAssumption DEF Sent

\* A function code is of one kind and names one table.
LEMMA KindFacts ==
  /\ Reads \cap SingleWrites = {} /\ Reads \cap MultipleWrites = {}
  /\ SingleWrites \cap MultipleWrites = {}
  /\ \A f \in Reads \cup SingleWrites \cup MultipleWrites :
       f \in 1 .. 16 /\ TableOf(f) \in TableNames
BY DEF Reads, SingleWrites, MultipleWrites, CoilReads, RegisterReads, WRITE_MULTIPLE_COILS,
       WRITE_MULTIPLE_REGISTERS, TableOf, TableNames

\* What the callback returns.
LEMMA CallbackFacts ==
  ASSUME NEW r \in Sent, NEW refusal \in RefusalCodes
  PROVE  /\ Outside(r) => CallbackResult(r, refusal) = refusal /\ refusal \in -131 .. 0
         /\ ~ Outside(r) => /\ CallbackResult(r, refusal) = Served(r.addr, r.num)
                            /\ Served(r.addr, r.num) \in 1 .. r.num
<1>1. r.addr \in Nat /\ r.num \in Nat /\ r.num > 0 /\ refusal \in -131 .. 0 /\ Cells \in Nat
  BY SentFacts, RefusalCodesAssumption, CellsAssumption
<1>2. /\ Served(r.addr, r.num) \in 0 .. r.num
      /\ r.addr >= Cells => Served(r.addr, r.num) = 0
      /\ r.addr < Cells => Served(r.addr, r.num) > 0
  BY <1>1, ServedFacts
<1> QED BY <1>1, <1>2, CellsAssumption DEF CallbackResult, Outside

\* The cells of a read.
LEMMA ReadFacts ==
  ASSUME NEW r \in Sent, r.function \in Reads, ~ Outside(r), NEW t \in Tables
  PROVE  LET cells == vio_read(t[TableOf(r.function)], r.addr, r.num)
         IN  /\ cells \in Seq(Values)
             /\ Inside(r) => /\ Len(cells) = r.num
                             /\ cells = [i \in 1 .. r.num |-> t[TableOf(r.function)][r.addr + i - 1]]
<1> DEFINE cells == vio_read(t[TableOf(r.function)], r.addr, r.num)
           n == Served(r.addr, r.num)
<1>1. r.addr \in Nat /\ r.num \in Nat /\ r.addr < Cells /\ Cells \in Nat
  BY SentFacts, CellsAssumption DEF Outside
<1>2. n \in Nat /\ r.addr + n <= Cells /\ (Inside(r) => n = r.num)
  <2>1. /\ Served(r.addr, r.num) \in 0 .. r.num
        /\ r.addr < Cells => r.addr + Served(r.addr, r.num) <= Cells
        /\ r.addr < Cells /\ r.addr + r.num <= Cells => Served(r.addr, r.num) = r.num
    BY <1>1, ServedFacts
  <2> QED BY <1>1, <2>1 DEF Inside
<1>3. cells = [i \in 1 .. n |-> t[TableOf(r.function)][r.addr + i - 1]]
  BY DEF vio_read
<1>4. t[TableOf(r.function)] \in [0 .. Cells - 1 -> Values]
  BY SentFacts, KindFacts DEF Tables
<1> HIDE DEF n, cells
<1>5. \A i \in 1 .. n : r.addr + i - 1 \in 0 .. Cells - 1
  BY <1>1, <1>2, CellsAssumption
<1>6. cells \in [1 .. n -> Values]
  BY <1>3, <1>4, <1>5
<1>7. cells \in Seq(Values) /\ Len(cells) = n
  BY <1>2, <1>6, SeqDef, LenProperties
<1> QED BY <1>2, <1>3, <1>7 DEF cells

\* The answer of the slave, by what was asked.
LEMMA AnswerCases ==
  ASSUME NEW r \in Sent, NEW t, NEW refusal \in RefusalCodes
  PROVE  LET a == slave_answer(r, t, refusal)
         IN  /\ Outside(r) => \E code \in Int : a = Exception(r.function, code)
             /\ ~ Outside(r) /\ r.function \in Reads =>
                  a = [function |-> r.function, num |-> Served(r.addr, r.num), code |-> 0,
                       data |-> vio_read(t[TableOf(r.function)], r.addr, r.num)]
             /\ ~ Outside(r) /\ r.function \notin Reads =>
                  a = [function |-> r.function, num |-> r.num, code |-> 0, data |-> <<>>]
<1>1. /\ r.function \in Reads \cup SingleWrites \cup MultipleWrites /\ r.num \in Nat \ {0}
      /\ r.function \in SingleWrites => r.num = 1
      /\ \A k \in 1 .. r.num : modbus_check_addr_num(r.function, k)
  BY SentFacts
<1>2. modbus_check_addr_num(r.function, r.num)
  BY <1>1
<1> DEFINE rc == CallbackResult(r, refusal)
           n  == Served(r.addr, r.num)
<1>3. /\ Outside(r) => rc \in Int /\ ~ (rc > 0) /\ rc # 1
      /\ ~ Outside(r) => rc = n /\ n \in 1 .. r.num /\ rc > 0
  BY CallbackFacts
<1>4. ~ Outside(r) => modbus_check_addr_num(r.function, rc)
  BY <1>1, <1>3
<1>5. \A own \in Int : Outside(r) => ExceptionCode(own, rc) \in Int
  BY <1>3 DEF ExceptionCode
<1> HIDE DEF rc, n
<1>6. CASE r.function \in Reads
  <2>1. slave_answer(r, t, refusal) =
          IF rc > 0 /\ modbus_check_addr_num(r.function, rc)
               THEN [function |-> r.function, num |-> rc, code |-> 0,
                     data |-> vio_read(t[TableOf(r.function)], r.addr, r.num)]
               ELSE Exception(r.function, ExceptionCode(MODBUS_EXCEPTION, rc))
    BY <1>2, <1>6, KindFacts DEF slave_answer, rc
  <2> QED BY <1>3, <1>4, <1>5, <1>6, <2>1 DEF MODBUS_EXCEPTION, n
<1>7. CASE r.function \in MultipleWrites
  <2>1. slave_answer(r, t, refusal) =
          IF rc > 0 /\ modbus_check_addr_num(r.function, rc)
               THEN [function |-> r.function, num |-> r.num, code |-> 0, data |-> <<>>]
               ELSE Exception(r.function, ExceptionCode(MODBUS_EXCEPTION, rc))
    BY <1>2, <1>7, KindFacts DEF slave_answer, rc
  <2>2. r.function \notin Reads
    BY <1>7, KindFacts
  <2> QED BY <1>3, <1>4, <1>5, <2>1, <2>2 DEF MODBUS_EXCEPTION
<1>8. CASE r.function \in SingleWrites
  <2>1. slave_answer(r, t, refusal) =
          IF rc = 1
               THEN [function |-> r.function, num |-> 1, code |-> 0, data |-> <<>>]
               ELSE Exception(r.function,
                              ExceptionCode(MODBUS_EXCEPTION_ILLEGAL_DATA_VALUE, rc))
    BY <1>2, <1>8, KindFacts DEF slave_answer, rc
  <2>2. r.function \notin Reads /\ r.num = 1
    BY <1>1, <1>8, KindFacts
  <2>3. ~ Outside(r) => rc = 1
    BY <1>3, <2>2
  <2> QED BY <1>3, <1>5, <2>1, <2>2, <2>3 DEF MODBUS_EXCEPTION_ILLEGAL_DATA_VALUE
<1> QED BY <1>1, <1>6, <1>7, <1>8

\* A byte and a code.
LEMMA ExceptionFacts ==
  ASSUME NEW f \in 1 .. 16, NEW code \in Int
  PROVE  /\ Exception(f, code) \in Answer
         /\ Exception(f, code).function = f + 128
<1>1. (f + 128) % 256 = f + 128 /\ code % 256 \in 0 .. 255
  OBVIOUS
<1>2. 0 \in UInt16 /\ <<>> \in Seq(Values) /\ f + 128 \in Byte /\ code % 256 \in Byte
  <2>1. 0 \in UInt16 /\ f + 128 \in Byte /\ code % 256 \in Byte
    BY <1>1 DEF UInt16, Byte
  <2> QED BY <2>1, EmptySeq
<1>3. Exception(f, code) = [function |-> f + 128, num |-> 0, data |-> <<>>, code |-> code % 256]
  BY <1>1 DEF Exception
<1> QED BY <1>2, <1>3 DEF Answer

\* What the slave sends is an answer.
LEMMA AnswerType ==
  ASSUME NEW r \in Sent, NEW t \in Tables, NEW refusal \in RefusalCodes
  PROVE  slave_answer(r, t, refusal) \in Answer
<1> DEFINE a == slave_answer(r, t, refusal)
<1>1. r.function \in 1 .. 16 /\ r.function \in Byte /\ 0 \in Byte
  <2>1. r.function \in 1 .. 16
    BY SentFacts, KindFacts
  <2> QED BY <2>1 DEF Byte
<1>2. CASE Outside(r)
  <2>1. PICK code \in Int : a = Exception(r.function, code)
    BY <1>2, AnswerCases
  <2> HIDE DEF a
  <2> QED BY <1>1, <2>1, ExceptionFacts DEF a
<1>3. CASE ~ Outside(r) /\ r.function \in Reads
  <2> DEFINE cells == vio_read(t[TableOf(r.function)], r.addr, r.num)
             n     == Served(r.addr, r.num)
  <2>1. a = [function |-> r.function, num |-> n, code |-> 0, data |-> cells]
    BY <1>3, AnswerCases
  <2>2. cells \in Seq(Values)
    BY <1>3, ReadFacts
  <2>3. n \in UInt16
    <3>1. n \in 1 .. r.num /\ r.num \in UInt16
      BY <1>3, CallbackFacts, RequestsAssumption DEF Sent
    <3> HIDE DEF n
    <3>2. r.num \in Nat
      BY <3>1, UInt16Facts
    <3>3. n \in 0 .. r.num
      BY <3>1, <3>2
    <3> QED BY <3>1, <3>3, UInt16Facts
  <2> HIDE DEF a, n, cells
  <2>4. a \in Answer
    BY <1>1, <2>1, <2>2, <2>3 DEF Answer
  <2> QED BY <2>4 DEF a
<1>4. CASE ~ Outside(r) /\ r.function \notin Reads
  <2>1. a = [function |-> r.function, num |-> r.num, code |-> 0, data |-> <<>>]
    BY <1>4, AnswerCases
  <2>2. r.num \in UInt16 /\ <<>> \in Seq(Values)
    BY RequestsAssumption, EmptySeq DEF Sent
  <2> HIDE DEF a
  <2>3. a \in Answer
    BY <1>1, <2>1, <2>2 DEF Answer
  <2> QED BY <2>3 DEF a
<1> QED BY <1>2, <1>3, <1>4

\* Served cells are the cells named that the table has.
LEMMA WrittenCells ==
  ASSUME NEW r \in Sent, NEW table \in [0 .. Cells - 1 -> Values], r.function \notin Reads
  PROVE  /\ vio_write(table, r.addr, r.num, r.data) =
              [c \in 0 .. Cells - 1 |-> IF c \in CellsNamed(r) THEN r.data[c - r.addr + 1]
                                        ELSE table[c]]
         /\ vio_write(table, r.addr, r.num, r.data) \in [0 .. Cells - 1 -> Values]
         /\ Outside(r) => vio_write(table, r.addr, r.num, r.data) = table
<1>1. r.addr \in Nat /\ r.num \in Nat /\ Cells \in Nat
  BY SentFacts, CellsAssumption
<1>2. DOMAIN table = 0 .. Cells - 1
  OBVIOUS
<1>3. \A c \in 0 .. Cells - 1 :
        c \in r.addr .. r.addr + Served(r.addr, r.num) - 1 <=> c \in CellsNamed(r)
  BY <1>1, ServedCells DEF CellsNamed
<1>4. vio_write(table, r.addr, r.num, r.data) =
        [c \in 0 .. Cells - 1 |-> IF c \in CellsNamed(r) THEN r.data[c - r.addr + 1]
                                  ELSE table[c]]
  BY <1>2, <1>3 DEF vio_write
<1>5. ASSUME NEW c \in 0 .. Cells - 1, c \in CellsNamed(r)
      PROVE  r.data[c - r.addr + 1] \in Values
  <2>1. r.data \in Seq(Values) /\ r.num = Len(r.data)
    BY SentData
  <2>2. c - r.addr + 1 \in 1 .. r.num
    BY <1>1, <1>5 DEF CellsNamed
  <2> QED BY <2>1, <2>2, ElementOfSeq
<1>6. Outside(r) => \A c \in 0 .. Cells - 1 : c \notin CellsNamed(r)
  BY <1>1 DEF Outside, CellsNamed
<1>7. vio_write(table, r.addr, r.num, r.data) \in [0 .. Cells - 1 -> Values]
  BY <1>4, <1>5
<1>8. Outside(r) => vio_write(table, r.addr, r.num, r.data) = table
  BY <1>4, <1>6
<1> QED BY <1>4, <1>7, <1>8

\* What the slave does to its tables is the change the call names.
LEMMA EffectIsChange ==
  ASSUME NEW r \in Sent, NEW t \in Tables
  PROVE  slave_effect(r, t) = Change(r, t) /\ slave_effect(r, t) \in Tables
<1>1. /\ r.function \in Reads \cup SingleWrites \cup MultipleWrites
      /\ modbus_check_addr_num(r.function, r.num)
      /\ TableOf(r.function) \in TableNames
  BY SentFacts, KindFacts DEF Sent
<1>2. t \in [TableNames -> [0 .. Cells - 1 -> Values]]
  BY DEF Tables
<1>3. CASE r.function \in Reads
  <2>1. slave_effect(r, t) = t
    BY <1>3, KindFacts DEF slave_effect
  <2>2. Change(r, t) = t
    BY <1>3 DEF Change
  <2> QED BY <2>1, <2>2
<1>4. CASE r.function \notin Reads
  <2> DEFINE name == TableOf(r.function)
             new  == vio_write(t[name], r.addr, r.num, r.data)
  <2>1. t[name] \in [0 .. Cells - 1 -> Values]
    BY <1>1, <1>2
  <2>2. slave_effect(r, t) = [t EXCEPT ![name] = new]
    BY <1>1, <1>4 DEF slave_effect
  <2>3. new \in [0 .. Cells - 1 -> Values] /\ (Outside(r) => new = t[name])
    BY <1>4, <2>1, WrittenCells
  <2>4. slave_effect(r, t) \in Tables
    BY <1>2, <2>2, <2>3 DEF Tables
  <2>5. CASE Outside(r)
    <3>1. Change(r, t) = t
      BY <2>5 DEF Change
    <3>2. [t EXCEPT ![name] = new] = t
      BY <1>1, <1>2, <2>3, <2>5
    <3> QED BY <2>2, <2>4, <3>1, <3>2
  <2>6. CASE ~ Outside(r)
    <3>1. new = [c \in 0 .. Cells - 1 |-> IF c \in CellsNamed(r) THEN r.data[c - r.addr + 1]
                                          ELSE t[name][c]]
      BY <1>4, <2>1, WrittenCells
    <3>2. DOMAIN (t[name]) = 0 .. Cells - 1
      BY <2>1
    <3>3. Change(r, t) =
            [t EXCEPT ![name] = [c \in DOMAIN @ |-> IF c \in CellsNamed(r)
                                   THEN r.data[c - r.addr + 1] ELSE @[c]]]
      BY <1>4, <2>6 DEF Change
    <3>4. Change(r, t) = [t EXCEPT ![name] = new]
      BY <3>1, <3>2, <3>3
    <3> QED BY <2>2, <2>4, <3>4
  <2> QED BY <2>5, <2>6
<1> QED BY <1>3, <1>4

\* What the caller makes of the answer is what the call promises.
LEMMA AnswerIsPromise ==
  ASSUME NEW r \in Sent, NEW t \in Tables, NEW refusal \in RefusalCodes
  PROVE  LET c == handle_confirm(r, slave_answer(r, t, refusal))
         IN  Seen(r, c.ret, c.data) = Promise(r, t)
<1> DEFINE a == slave_answer(r, t, refusal)
           c == handle_confirm(r, a)
<1>1. r.function \in 1 .. 16
  BY SentFacts, KindFacts
<1>2. CASE Outside(r)
  <2>1. PICK code \in Int : a = Exception(r.function, code)
    BY <1>2, AnswerCases
  <2> HIDE DEF a
  <2>2. a.function = r.function + 128 /\ a.function \in Int
    <3>1. Exception(r.function, code).function = r.function + 128
      BY <1>1, ExceptionFacts
    <3> QED BY <1>1, <2>1, <3>1
  <2>3. c.ret = 0 - a.function
    BY <1>1, <2>2 DEF handle_confirm
  <2>4. c.ret # 0
    BY <1>1, <2>2, <2>3
  <2> HIDE DEF c
  <2>5. Seen(r, c.ret, c.data) = Failed
    BY <2>4 DEF Seen, MODBUS_OK
  <2>6. Promise(r, t) = Failed
    BY <1>2 DEF Promise
  <2> QED BY <2>5, <2>6 DEF c, a
<1>3. CASE ~ Outside(r) /\ r.function \in Reads
  <2> DEFINE cells == vio_read(t[TableOf(r.function)], r.addr, r.num)
             n     == Served(r.addr, r.num)
  <2>1. a = [function |-> r.function, num |-> n, code |-> 0, data |-> cells]
    BY <1>3, AnswerCases
  <2>2. /\ cells \in Seq(Values)
        /\ Inside(r) => /\ Len(cells) = r.num
                        /\ cells = [i \in 1 .. r.num |-> t[TableOf(r.function)][r.addr + i - 1]]
    BY <1>3, ReadFacts
  <2> HIDE DEF a, n, cells
  <2>3. /\ a.function = r.function /\ a.data = cells
        /\ ~ (a.function >= 128) /\ a.function < 128
    BY <1>1, <2>1
  <2>4. c = [ret  |-> MODBUS_OK,
             data |-> IF DataBytes(r.function, r.num) = DataBytes(r.function, Len(cells))
                        THEN Copied(cells, r.num) ELSE NothingRead]
    BY <1>3, <2>3 DEF handle_confirm
  <2>5. c.ret = MODBUS_OK
    BY <2>4
  <2>6. CASE Straddles(r)
    <3>1. ~ Inside(r)
      BY <2>6 DEF Straddles
    <3> HIDE DEF c
    <3> QED BY <1>3, <2>5, <2>6, <3>1 DEF Seen, Promise, c, a
  <2>7. CASE ~ Straddles(r)
    <3>1. Inside(r)
      BY <1>3, <2>7 DEF Straddles
    <3>2. c.data = Copied(cells, r.num)
      BY <2>2, <2>4, <3>1
    <3>3. Copied(cells, r.num) = cells
      BY <2>2, <3>1 DEF Copied
    <3> HIDE DEF c
    <3> QED BY <1>3, <2>2, <2>5, <2>7, <3>1, <3>2, <3>3 DEF Seen, Promise, c, a
  <2> QED BY <2>6, <2>7
<1>4. CASE ~ Outside(r) /\ r.function \notin Reads
  <2>1. a = [function |-> r.function, num |-> r.num, code |-> 0, data |-> <<>>]
    BY <1>4, AnswerCases
  <2> HIDE DEF a
  <2>2. /\ a.function = r.function /\ ~ (a.function >= 128) /\ a.function < 128
    BY <1>1, <2>1
  <2>3. c = [ret |-> MODBUS_OK, data |-> NothingRead]
    BY <1>4, <2>2 DEF handle_confirm
  <2>4. c.ret = MODBUS_OK /\ c.data = <<>>
    BY <2>3 DEF NothingRead
  <2> HIDE DEF c
  <2> QED BY <1>4, <2>4 DEF Seen, Promise, c, a
<1> QED BY <1>2, <1>3, <1>4

-----------------------------------------------------------------------------
(***************************************************************************)
(* What the refinement needs beside IInv.                                  *)
(***************************************************************************)
Exact ==
  /\ tables \in Tables
  /\ request \in Requests \cup {NoRequest} /\ (Waits => request \in Sent)
  /\ result.ret \in -255 .. 0
  /\ \A i \in 1 .. Len(queries) : queries[i].request \in Sent
  /\ wire \in Seq(Frame(Answer)) /\ port \in Seq(Frame(Answer)) /\ ring \in Seq(Frame(Answer))
  /\ lost \in 0 .. MaxLost

LastOnly(s)  == \A i \in 1 .. Len(s) : s[i].current => i = Len(s)
NoCurrent(s) == \A i \in 1 .. Len(s) : ~ s[i].current

\* Of all the frames under way only the youngest may be the call's own, and while
\* the call waits a request that is its own is the one it made.
Youngest ==
  /\ LastOnly(queries) /\ LastOnly(wire) /\ LastOnly(port) /\ LastOnly(ring)
  /\ queries # <<>> => NoCurrent(wire)
  /\ queries # <<>> \/ wire # <<>> => NoCurrent(port)
  /\ queries # <<>> \/ wire # <<>> \/ port # <<>> => NoCurrent(ring)
  /\ Waits => \A i \in 1 .. Len(queries) : queries[i].current => queries[i].request = request

RInv == IInv /\ Exact /\ Youngest

\* Nothing under way.
LEMMA EmptyYoungest == LastOnly(<<>>) /\ NoCurrent(<<>>)
BY EmptySeq DEF LastOnly, NoCurrent

\* The oldest frame leaves: it is the call's own only if it is the last.
LEMMA TailYoungest ==
  ASSUME NEW S, NEW s \in Seq(S), s # <<>>
  PROVE  /\ Head(s) \in S /\ Tail(s) \in Seq(S)
         /\ LastOnly(s) => LastOnly(Tail(s))
         /\ NoCurrent(s) => NoCurrent(Tail(s)) /\ ~ Head(s).current
         /\ LastOnly(s) /\ Head(s).current => Tail(s) = <<>>
<1>0. /\ Tail(s) \in Seq(S) /\ Len(s) \in Nat \ {0} /\ Len(Tail(s)) = Len(s) - 1
      /\ \A i \in 1 .. Len(Tail(s)) : Tail(s)[i] = s[i + 1]
      /\ Head(s) \in S
  BY HeadTailProperties, EmptySeq
<1>1. Head(s) = s[1]
  BY <1>0
<1>2. /\ 1 \in 1 .. Len(s)
      /\ \A i \in 1 .. Len(Tail(s)) : i + 1 \in 1 .. Len(s) /\ (i + 1 = Len(s) => i = Len(Tail(s)))
  <2>1. \A n \in Nat \ {0} : \A m : m = n - 1 =>
          /\ 1 \in 1 .. n
          /\ \A i \in 1 .. m : i + 1 \in 1 .. n /\ (i + 1 = n => i = m)
    OBVIOUS
  <2> QED BY <1>0, <2>1, Zenon
<1>3. LastOnly(s) => LastOnly(Tail(s))
  BY <1>0, <1>1, <1>2 DEF LastOnly
<1>4. NoCurrent(s) => NoCurrent(Tail(s)) /\ ~ Head(s).current
  BY <1>0, <1>1, <1>2 DEF NoCurrent
<1>5. ASSUME LastOnly(s), Head(s).current
      PROVE  Tail(s) = <<>>
  <2>1. 1 = Len(s)
    BY <1>0, <1>1, <1>2, <1>5 DEF LastOnly
  <2>2. Len(Tail(s)) = 0
    <3>1. \A n, m : n = 1 /\ m = n - 1 => m = 0
      OBVIOUS
    <3> QED BY <1>0, <2>1, <3>1, Zenon
  <2> QED BY <1>0, <2>2, EmptySeq
<1> QED BY <1>0, <1>3, <1>4, <1>5, Zenon

\* A frame follows others none of which is the call's own.
LEMMA AppendYoungest ==
  ASSUME NEW S, NEW s \in Seq(S), NEW e \in S, NoCurrent(s)
  PROVE  /\ Append(s, e) \in Seq(S) /\ Append(s, e) # <<>>
         /\ LastOnly(Append(s, e)) /\ (~ e.current => NoCurrent(Append(s, e)))
<1>1. /\ Append(s, e) \in Seq(S)
      /\ Len(Append(s, e)) = Len(s) + 1 /\ Len(s) \in Nat
      /\ \A i \in 1 .. Len(s) : Append(s, e)[i] = s[i]
      /\ Append(s, e)[Len(s) + 1] = e
  BY AppendProperties, LenProperties
<1>2. \A i \in 1 .. Len(Append(s, e)) : i \in 1 .. Len(s) \/ i = Len(s) + 1
  BY <1>1
<1>3. \A i \in 1 .. Len(s) : ~ Append(s, e)[i].current
  BY <1>1 DEF NoCurrent
<1>4. Append(s, e) # <<>>
  BY AppendProperties
<1>5. LastOnly(Append(s, e))
  BY <1>1, <1>2, <1>3 DEF LastOnly
<1>6. ~ e.current => NoCurrent(Append(s, e))
  BY <1>1, <1>2, <1>3 DEF NoCurrent
<1> QED BY <1>1, <1>4, <1>5, <1>6, Zenon

\* A new call owns none of the frames of those before it.
LEMMA OlderNotCurrent ==
  ASSUME NEW S, NEW s \in Seq(S), Older(s) \in Seq(S), Len(Older(s)) = Len(s),
         \A f \in S : [f EXCEPT !.current = FALSE].current = FALSE
  PROVE  NoCurrent(Older(s))
<1>1. DOMAIN s = 1 .. Len(s) /\ \A i \in 1 .. Len(s) : s[i] \in S
  BY LenProperties, ElementOfSeq
<1>2. \A i \in 1 .. Len(s) : Older(s)[i] = [s[i] EXCEPT !.current = FALSE]
  BY <1>1 DEF Older
<1>3. \A i \in 1 .. Len(s) : Older(s)[i].current = FALSE
  BY <1>1, <1>2
<1> QED BY <1>3 DEF NoCurrent

\* The answers of the call's own frames in s.
Own(s) == {s[i].answer : i \in {j \in DOMAIN s : s[j].current}}

\* The own answers of the call, place by place.
LEMMA OwnFacts ==
  /\ CurrentAnswers = Own(wire) \cup Own(port) \cup Own(ring)
  /\ Own(<<>>) = {}
BY DEF CurrentAnswers, Own

LEMMA OwnNone ==
  ASSUME NEW S, NEW s \in Seq(S), NoCurrent(s)
  PROVE  Own(s) = {}
<1>1. DOMAIN s = 1 .. Len(s)
  BY LenProperties
<1> QED BY <1>1 DEF Own, NoCurrent

\* A frame joins a place ...
LEMMA OwnAppend ==
  ASSUME NEW S, NEW s \in Seq(S), NEW e \in S
  PROVE  Own(Append(s, e)) = Own(s) \cup {x \in {e.answer} : e.current}
<1>1. /\ Append(s, e) \in Seq(S)
      /\ Len(Append(s, e)) = Len(s) + 1 /\ Len(s) \in Nat
      /\ \A i \in 1 .. Len(s) : Append(s, e)[i] = s[i]
      /\ Append(s, e)[Len(s) + 1] = e
  BY AppendProperties, LenProperties
<1>2. DOMAIN s = 1 .. Len(s) /\ DOMAIN Append(s, e) = 1 .. Len(s) + 1
  BY <1>1, LenProperties
<1>3. \A i : i \in 1 .. Len(s) + 1 <=> i \in 1 .. Len(s) \/ i = Len(s) + 1
  BY <1>1
<1> QED BY <1>1, <1>2, <1>3 DEF Own

\* ... and leaves one.
LEMMA OwnTail ==
  ASSUME NEW S, NEW s \in Seq(S), s # <<>>
  PROVE  Own(s) = Own(Tail(s)) \cup {x \in {Head(s).answer} : Head(s).current}
<1>0. /\ Tail(s) \in Seq(S) /\ Len(s) \in Nat \ {0} /\ Len(Tail(s)) = Len(s) - 1
      /\ \A i \in 1 .. Len(Tail(s)) : Tail(s)[i] = s[i + 1]
  BY HeadTailProperties, EmptySeq
<1>1. Head(s) = s[1]
  BY <1>0
<1>2. DOMAIN s = 1 .. Len(s) /\ DOMAIN Tail(s) = 1 .. Len(s) - 1
  BY <1>0, LenProperties
<1>3. /\ 1 \in 1 .. Len(s)
      /\ \A j \in 1 .. Len(s) - 1 : j + 1 \in 1 .. Len(s)
      /\ \A i \in 1 .. Len(s) : i = 1 \/ (i - 1 \in 1 .. Len(s) - 1 /\ (i - 1) + 1 = i)
  <2>1. \A n \in Nat \ {0} :
          /\ 1 \in 1 .. n
          /\ \A j \in 1 .. n - 1 : j + 1 \in 1 .. n
          /\ \A i \in 1 .. n : i = 1 \/ (i - 1 \in 1 .. n - 1 /\ (i - 1) + 1 = i)
    OBVIOUS
  <2> QED BY <1>0, <2>1, Zenon
<1>4. \A j \in 1 .. Len(s) - 1 : Tail(s)[j] = s[j + 1]
  BY <1>0
<1>5. ASSUME NEW x \in Own(s)
      PROVE  x \in Own(Tail(s)) \cup {y \in {Head(s).answer} : Head(s).current}
  <2>1. PICK i \in 1 .. Len(s) : s[i].current /\ x = s[i].answer
    BY <1>2 DEF Own
  <2>2. CASE i = 1
    BY <1>1, <2>1, <2>2
  <2>3. CASE i # 1
    <3>1. i - 1 \in 1 .. Len(s) - 1 /\ Tail(s)[i - 1] = s[i]
      BY <1>3, <1>4, <2>3
    <3> QED BY <1>2, <2>1, <3>1 DEF Own
  <2> QED BY <2>2, <2>3
<1>6. ASSUME NEW x \in Own(Tail(s)) \cup {y \in {Head(s).answer} : Head(s).current}
      PROVE  x \in Own(s)
  <2>1. CASE x \in Own(Tail(s))
    <3>1. PICK j \in 1 .. Len(s) - 1 : Tail(s)[j].current /\ x = Tail(s)[j].answer
      BY <1>2, <2>1 DEF Own
    <3>2. j + 1 \in 1 .. Len(s) /\ s[j + 1].current /\ x = s[j + 1].answer
      BY <1>3, <1>4, <3>1
    <3> QED BY <1>2, <3>2 DEF Own
  <2>2. CASE Head(s).current /\ x = Head(s).answer
    BY <1>1, <1>2, <1>3, <2>2 DEF Own
  <2> QED BY <1>6, <2>1, <2>2
<1> QED BY <1>5, <1>6

\* The frames stay well-typed and in this order.
LEMMA InitRInv == Init => RInv
<1> SUFFICES ASSUME Init PROVE RInv
  OBVIOUS
<1>1. /\ queries = <<>> /\ wire = <<>> /\ port = <<>> /\ ring = <<>> /\ mpc = "pause"
      /\ result = NoResult /\ request = NoRequest /\ lost = 0 /\ setting \in Settings
  BY DEF Init
<1>2. Exact
  <2>1. tables \in Tables
    BY ValuesAssumption DEF Init, Tables
  <2>2. result.ret \in -255 .. 0
    BY <1>1 DEF NoResult, Without, MODBUS_FAIL
  <2>3. lost \in 0 .. MaxLost
    BY <1>1, SettingsAssumption DEF MaxLost
  <2>4. Len(queries) = 0 /\ \A S : <<>> \in Seq(S)
    BY <1>1, EmptySeq
  <2> QED BY <1>1, <2>1, <2>2, <2>3, <2>4 DEF Exact, Waits
<1>3. Youngest
  BY <1>1, EmptyYoungest DEF Youngest, Waits
<1> QED BY <1>2, <1>3, InitIInv DEF RInv

\* The request of a frame stays when a new one ages it.
LEMMA OlderRequest ==
  ASSUME NEW s \in Seq(Query)
  PROVE  \A i \in 1 .. Len(s) : Older(s)[i].request = s[i].request
<1>1. DOMAIN s = 1 .. Len(s) /\ \A i \in 1 .. Len(s) : s[i] \in Query
  BY LenProperties, ElementOfSeq
<1>2. \A i \in 1 .. Len(s) : Older(s)[i] = [s[i] EXCEPT !.current = FALSE]
  BY <1>1 DEF Older
<1>3. \A q \in Query : [q EXCEPT !.current = FALSE].request = q.request
  BY DEF Query
<1> QED BY <1>1, <1>2, <1>3

\* A call that ends returns 0 or a negative number.
LEMMA ConfirmRet ==
  ASSUME NEW r, NEW a \in Answer
  PROVE  handle_confirm(r, a).ret \in -255 .. 0
<1>1. a.function \in 0 .. 255
  BY DEF Answer, Byte
<1>2. CASE a.function >= 128
  <2>1. handle_confirm(r, a).ret = 0 - a.function
    BY <1>1, <1>2 DEF handle_confirm
  <2> QED BY <1>1, <1>2, <2>1
<1>3. CASE a.function < 128 /\ a.function # r.function
  <2>1. handle_confirm(r, a).ret = MODBUS_FAIL_CONFIRM
    BY <1>1, <1>3 DEF handle_confirm
  <2> QED BY <2>1 DEF MODBUS_FAIL_CONFIRM
<1>4. CASE a.function < 128 /\ a.function = r.function
  <2>1. handle_confirm(r, a).ret = MODBUS_OK
    BY <1>1, <1>4 DEF handle_confirm
  <2> QED BY <2>1 DEF MODBUS_OK
<1> QED BY <1>1, <1>2, <1>3, <1>4

LEMMA ExactStep ==
  ASSUME Typed, Exact, [Next]_vars
  PROVE  Exact'
<1>1. setting' = setting /\ \A B : Frame(B)' = Frame(B)
  <2>1. setting' = setting
    BY DEF Next, Master, Recover, Reject, StartRequest, Receive, Confirm, Timeout, Serve,
           Arrive, Lose, vars
  <2> QED BY <2>1 DEF Ids, Frame, TidMod
<1>2. MaxLost' = MaxLost /\ MaxLost \in Nat
  BY <1>1, SettingsAssumption DEF Typed, MaxLost
<1>3. /\ tables \in Tables
      /\ request \in Requests \cup {NoRequest} /\ (Waits => request \in Sent)
      /\ result.ret \in -255 .. 0
      /\ \A i \in 1 .. Len(queries) : queries[i].request \in Sent
      /\ wire \in Seq(Frame(Answer)) /\ port \in Seq(Frame(Answer)) /\ ring \in Seq(Frame(Answer))
      /\ lost \in 0 .. MaxLost
      /\ queries \in Seq(Query)
  BY DEF Exact, Typed
<1>4. CASE Recover
  <2>1. ring' \in Seq(Frame(Answer)) /\ ~ Waits'
    BY <1>4, EmptySeq DEF Recover, Waits
  <2> QED BY <1>1, <1>2, <1>3, <1>4, <2>1 DEF Recover, Exact
<1>5. CASE Reject
  <2>1. result'.ret = MODBUS_FAIL_REQUEST /\ ~ Waits'
    BY <1>5 DEF Reject, Without, Waits
  <2>2. result'.ret \in -255 .. 0
    BY <2>1 DEF MODBUS_FAIL_REQUEST
  <2> QED BY <1>1, <1>2, <1>3, <1>5, <2>1, <2>2 DEF Reject, Exact, frames
<1>6. CASE StartRequest
  <2>1. PICK r \in Requests :
          /\ modbus_check_addr_num(r.function, r.num) /\ request' = r
          /\ queries' = Append(Older(queries),
                               [request |-> r, tid |-> transfer_id', current |-> TRUE])
    BY <1>6 DEF StartRequest
  <2>2. r \in Sent
    BY <2>1 DEF Sent
  <2>3. /\ Older(wire) \in Seq(Frame(Answer)) /\ Older(port) \in Seq(Frame(Answer))
        /\ Older(ring) \in Seq(Frame(Answer))
    <3>1. \A f \in Frame(Answer) : [f EXCEPT !.current = FALSE] \in Frame(Answer)
      BY Ageing
    <3> QED BY <1>3, <3>1, OlderSeq
  <2>4. Older(queries) \in Seq(Query) /\ Len(Older(queries)) = Len(queries)
    BY <1>3, Ageing, OlderSeq
  <2>5. ASSUME NEW i \in 1 .. Len(queries')
        PROVE  queries'[i].request \in Sent
    <3> DEFINE e == [request |-> r, tid |-> transfer_id', current |-> TRUE]
               s == Older(queries)
    <3>1. e.request = r
      OBVIOUS
    <3>2. queries' = Append(s, e) /\ s \in Seq(Query \cup {e})
      <4>1. Query \subseteq Query \cup {e}
        OBVIOUS
      <4> QED BY <2>1, <2>4, <4>1, SeqMonotonic
    <3>3. Len(s) = Len(queries) /\ \A j \in 1 .. Len(queries) : s[j].request = queries[j].request
      BY <1>3, <2>4, OlderRequest
    <3> HIDE DEF e, s
    <3>4. /\ Len(queries') = Len(s) + 1 /\ Len(s) \in Nat
          /\ \A j \in 1 .. Len(s) : queries'[j] = s[j]
          /\ queries'[Len(s) + 1] = e
      BY <3>2, AppendProperties, LenProperties
    <3>5. i \in 1 .. Len(s) \/ i = Len(s) + 1
      BY <3>4
    <3> QED BY <1>3, <2>2, <3>1, <3>3, <3>4, <3>5
  <2>6. result'.ret \in -255 .. 0
    BY <1>6 DEF StartRequest, NoResult, Without, MODBUS_FAIL
  <2> QED BY <1>1, <1>2, <1>3, <1>6, <2>1, <2>2, <2>3, <2>5, <2>6 DEF StartRequest, Exact
<1>7. CASE Receive
  <2>1. port' \in Seq(Frame(Answer)) /\ Waits' = Waits
    BY <1>7, EmptySeq DEF Receive, Waits
  <2> QED BY <1>1, <1>2, <1>3, <1>7, <2>1 DEF Receive, Exact
<1>8. CASE Confirm
  <2>1. ring' \in Seq(Frame(Answer)) /\ Head(ring) \in Frame(Answer)
    BY <1>3, <1>8, HeadTailProperties DEF Confirm
  <2>2. Head(ring).answer \in Answer
    BY <2>1 DEF Frame
  <2>3. handle_confirm(request, Head(ring).answer).ret \in -255 .. 0
    BY <2>2, ConfirmRet
  <2>4. result'.ret \in {MODBUS_FAIL_CHECK, handle_confirm(request, Head(ring).answer).ret}
    BY <1>8 DEF Confirm
  <2>5. result'.ret \in -255 .. 0
    BY <2>3, <2>4 DEF MODBUS_FAIL_CHECK
  <2>6. ~ Waits'
    BY <1>8 DEF Confirm, Waits
  <2> QED BY <1>1, <1>2, <1>3, <1>8, <2>1, <2>5, <2>6 DEF Confirm, Exact
<1>9. CASE Timeout
  <2>1. result'.ret \in -255 .. 0 /\ ~ Waits'
    BY <1>9 DEF Timeout, Without, Waits, MODBUS_TIMEOUT
  <2> QED BY <1>1, <1>2, <1>3, <1>9, <2>1 DEF Timeout, Exact, frames
<1>10. CASE Serve
  <2>1. PICK refusal \in RefusalCodes :
          wire' = Append(wire, [answer  |-> slave_answer(Head(queries).request, tables, refusal),
                                tid     |-> Head(queries).tid,
                                current |-> Head(queries).current])
    BY <1>10 DEF Serve
  <2>2. /\ Head(queries) \in Query /\ Len(queries) \in Nat \ {0} /\ Len(Tail(queries)) = Len(queries) - 1
        /\ \A i \in 1 .. Len(Tail(queries)) : Tail(queries)[i] = queries[i + 1]
    BY <1>3, <1>10, HeadTailProperties, EmptySeq DEF Serve
  <2>3. Head(queries).request \in Sent
    <3>1. Head(queries) = queries[1] /\ 1 \in 1 .. Len(queries)
      BY <2>2
    <3> QED BY <1>3, <3>1
  <2>4. /\ slave_answer(Head(queries).request, tables, refusal) \in Answer
        /\ slave_effect(Head(queries).request, tables) \in Tables
    BY <1>3, <2>3, AnswerType, EffectIsChange
  <2>5. wire' \in Seq(Frame(Answer))
    <3> DEFINE e == [answer  |-> slave_answer(Head(queries).request, tables, refusal),
                     tid     |-> Head(queries).tid, current |-> Head(queries).current]
    <3>1. e \in Frame(Answer)
      BY <2>2, <2>4 DEF Frame, Query
    <3> HIDE DEF e
    <3> QED BY <1>3, <2>1, <3>1, AppendProperties DEF e
  <2>6. tables' \in Tables
    BY <1>10, <2>4 DEF Serve
  <2>7. \A i \in 1 .. Len(queries') : queries'[i].request \in Sent
    <3>1. \A i \in 1 .. Len(Tail(queries)) : i + 1 \in 1 .. Len(queries)
      BY <2>2
    <3> QED BY <1>3, <1>10, <2>2, <3>1 DEF Serve
  <2>8. Waits' = Waits
    BY <1>10 DEF Serve, Waits
  <2> QED BY <1>1, <1>2, <1>3, <1>10, <2>5, <2>6, <2>7, <2>8 DEF Serve, Exact
<1>11. CASE Arrive
  <2>1. Head(wire) \in Frame(Answer) /\ Tail(wire) \in Seq(Frame(Answer))
    BY <1>3, <1>11, HeadTailProperties DEF Arrive
  <2>2. /\ Append(port, Head(wire)) \in Seq(Frame(Answer))
        /\ Append(ring, Head(wire)) \in Seq(Frame(Answer))
    BY <1>3, <2>1, AppendProperties
  <2>3. wire' \in Seq(Frame(Answer)) /\ port' \in Seq(Frame(Answer)) /\ ring' \in Seq(Frame(Answer))
    BY <1>3, <1>11, <2>1, <2>2 DEF Arrive
  <2>4. Waits' = Waits
    BY <1>11 DEF Arrive, Waits
  <2> QED BY <1>1, <1>2, <1>3, <1>11, <2>3, <2>4 DEF Arrive, Exact
<1>12. CASE Lose
  <2>1. /\ lost' \in 0 .. MaxLost /\ Waits' = Waits
        /\ UNCHANGED <<tables, request, result, port, ring>>
    BY <1>2, <1>3, <1>12 DEF Lose, Waits
  <2>2. CASE queries # <<>> /\ queries' = Tail(queries) /\ UNCHANGED wire
    <3>1. /\ Len(queries) \in Nat \ {0} /\ Len(Tail(queries)) = Len(queries) - 1
          /\ \A i \in 1 .. Len(Tail(queries)) : Tail(queries)[i] = queries[i + 1]
      BY <1>3, <2>2, HeadTailProperties, EmptySeq
    <3>2. \A i \in 1 .. Len(Tail(queries)) : i + 1 \in 1 .. Len(queries)
      BY <3>1
    <3> QED BY <1>1, <1>2, <1>3, <2>1, <2>2, <3>1, <3>2 DEF Exact
  <2>3. CASE wire # <<>> /\ wire' = Tail(wire) /\ UNCHANGED queries
    <3>1. Tail(wire) \in Seq(Frame(Answer))
      BY <1>3, <2>3, HeadTailProperties
    <3> QED BY <1>1, <1>2, <1>3, <2>1, <2>3, <3>1 DEF Exact
  <2> QED BY <1>12, <2>2, <2>3 DEF Lose
<1>13. CASE UNCHANGED vars
  BY <1>1, <1>2, <1>3, <1>13 DEF vars, Exact, Waits
<1> QED BY <1>4, <1>5, <1>6, <1>7, <1>8, <1>9, <1>10, <1>11, <1>12, <1>13 DEF Next, Master

LEMMA YoungestStep ==
  ASSUME IInv, Exact, Youngest, [Next]_vars
  PROVE  Youngest'
<1>1. /\ LastOnly(queries) /\ LastOnly(wire) /\ LastOnly(port) /\ LastOnly(ring)
      /\ queries # <<>> => NoCurrent(wire)
      /\ queries # <<>> \/ wire # <<>> => NoCurrent(port)
      /\ queries # <<>> \/ wire # <<>> \/ port # <<>> => NoCurrent(ring)
      /\ Waits => \A i \in 1 .. Len(queries) : queries[i].current => queries[i].request = request
  BY DEF Youngest
<1>2. /\ wire \in Seq(Frame(Answer)) /\ port \in Seq(Frame(Answer)) /\ ring \in Seq(Frame(Answer))
      /\ queries \in Seq(Query)
      /\ Core \in {"rtu", "tcp"} /\ (Core = "rtu" => port = <<>>)
  BY SettingFacts DEF Exact, IInv, Typed, Quiet
<1>3. CASE Recover
  <2>1. ring' = <<>> /\ ~ Waits' /\ UNCHANGED <<queries, wire, port>>
    BY <1>3 DEF Recover, Waits
  <2> QED BY <1>1, <2>1, EmptyYoungest DEF Youngest
<1>4. CASE Reject \/ Timeout
  <2>1. ~ Waits' /\ UNCHANGED <<queries, wire, port, ring>>
    BY <1>4 DEF Reject, Timeout, Waits, frames
  <2> QED BY <1>1, <2>1 DEF Youngest
<1>5. CASE StartRequest
  <2>1. PICK r \in Requests :
          /\ request' = r
          /\ queries' = Append(Older(queries),
                               [request |-> r, tid |-> transfer_id', current |-> TRUE])
    BY <1>5 DEF StartRequest
  <2>2. wire' = Older(wire) /\ port' = Older(port) /\ ring' = Older(ring)
    BY <1>5 DEF StartRequest
  <2>3. /\ \A f \in Frame(Answer) : [f EXCEPT !.current = FALSE].current = FALSE
        /\ \A q \in Query : [q EXCEPT !.current = FALSE].current = FALSE
    BY DEF Frame, Query
  <2>4. /\ \A s \in Seq(Frame(Answer)) : Older(s) \in Seq(Frame(Answer)) /\ Len(Older(s)) = Len(s)
        /\ \A s \in Seq(Query) : Older(s) \in Seq(Query) /\ Len(Older(s)) = Len(s)
    BY Ageing, OlderSeq
  <2>5. NoCurrent(wire') /\ NoCurrent(port') /\ NoCurrent(ring')
    BY <1>2, <2>2, <2>3, <2>4, OlderNotCurrent
  <2>6. \A s : NoCurrent(s) => LastOnly(s)
    BY DEF NoCurrent, LastOnly
  <2> DEFINE e == [request |-> r, tid |-> transfer_id', current |-> TRUE]
             s == Older(queries)
  <2>7. NoCurrent(s) /\ queries' = Append(s, e) /\ e.request = r
    BY <1>2, <2>1, <2>3, <2>4, OlderNotCurrent
  <2>8. s \in Seq(Query \cup {e}) /\ e \in Query \cup {e}
    <3>1. Query \subseteq Query \cup {e}
      OBVIOUS
    <3> QED BY <1>2, <2>4, <3>1, SeqMonotonic
  <2> HIDE DEF e, s
  <2>9. LastOnly(queries')
    BY <2>7, <2>8, AppendYoungest
  <2>10. ASSUME NEW i \in 1 .. Len(queries'), queries'[i].current
         PROVE  queries'[i].request = request'
    <3>1. /\ Len(queries') = Len(s) + 1 /\ Len(s) \in Nat
          /\ queries'[Len(s) + 1] = e
      BY <2>7, <2>8, AppendProperties, LenProperties
    <3>2. i = Len(queries')
      BY <2>9, <2>10 DEF LastOnly
    <3> QED BY <2>1, <2>7, <3>1, <3>2
  <2> QED BY <2>5, <2>6, <2>9, <2>10 DEF Youngest
<1>6. CASE Receive
  <2>1. /\ ring = <<>> /\ ring' = port /\ port' = <<>>
        /\ UNCHANGED <<queries, wire, request>> /\ Waits' = Waits
    BY <1>6 DEF Receive, Waits
  <2> QED BY <1>1, <2>1, EmptyYoungest DEF Youngest
<1>7. CASE Confirm
  <2>1. /\ ring # <<>> /\ ring' = Tail(ring) /\ ~ Waits' /\ UNCHANGED <<queries, wire, port>>
    BY <1>7 DEF Confirm, Waits
  <2>2. LastOnly(Tail(ring)) /\ (NoCurrent(ring) => NoCurrent(Tail(ring)))
    BY <1>1, <1>2, <2>1, TailYoungest
  <2> QED BY <1>1, <2>1, <2>2 DEF Youngest
<1>8. CASE Serve
  <2>1. PICK a :
          /\ queries # <<>> /\ queries' = Tail(queries)
          /\ wire' = Append(wire, [answer  |-> a, tid |-> Head(queries).tid,
                                   current |-> Head(queries).current])
          /\ UNCHANGED <<port, ring, request>> /\ Waits' = Waits
    BY <1>8 DEF Serve, Waits
  <2> DEFINE e == [answer |-> a, tid |-> Head(queries).tid, current |-> Head(queries).current]
             S == Frame(Answer) \cup {e}
  <2>2. e.current = Head(queries).current /\ wire' = Append(wire, e) /\ e \in S
    BY <2>1
  <2>3. wire \in Seq(S)
    <3>1. Frame(Answer) \subseteq S
      OBVIOUS
    <3> QED BY <1>2, <3>1, SeqMonotonic
  <2> HIDE DEF e, S
  <2>4. NoCurrent(wire) /\ NoCurrent(port) /\ NoCurrent(ring)
    BY <1>1, <2>1
  <2>5. /\ wire' # <<>> /\ LastOnly(wire') /\ (~ e.current => NoCurrent(wire'))
    BY <2>2, <2>3, <2>4, AppendYoungest
  <2>6. /\ LastOnly(queries')
        /\ Head(queries).current => queries' = <<>>
    BY <1>1, <1>2, <2>1, TailYoungest
  <2>7. Waits => \A i \in 1 .. Len(queries') : queries'[i].current => queries'[i].request = request
    <3>1. /\ Len(queries) \in Nat \ {0} /\ Len(queries') = Len(queries) - 1
          /\ \A i \in 1 .. Len(queries') : queries'[i] = queries[i + 1]
      BY <1>2, <2>1, HeadTailProperties, EmptySeq
    <3>2. \A i \in 1 .. Len(queries') : i + 1 \in 1 .. Len(queries)
      BY <3>1
    <3> QED BY <1>1, <3>1, <3>2
  <2>8. queries' # <<>> => NoCurrent(wire')
    BY <2>2, <2>5, <2>6
  <2> QED BY <1>1, <2>1, <2>4, <2>5, <2>6, <2>7, <2>8 DEF Youngest
<1>9. CASE Arrive
  <2>1. wire # <<>> /\ wire' = Tail(wire) /\ UNCHANGED <<queries, request>> /\ Waits' = Waits
    BY <1>9 DEF Arrive, Waits
  <2>2. NoCurrent(port) /\ NoCurrent(ring)
    BY <1>1, <2>1
  <2>3. /\ Head(wire) \in Frame(Answer) /\ LastOnly(wire')
        /\ NoCurrent(wire) => NoCurrent(wire') /\ ~ Head(wire).current
        /\ Head(wire).current => wire' = <<>>
    BY <1>1, <1>2, <2>1, TailYoungest
  <2>4. Head(wire).current => queries = <<>>
    BY <1>1, <2>3
  <2>5. CASE Core = "tcp"
    <3>1. port' = Append(port, Head(wire)) /\ ring' = ring
      BY <1>9, <2>5 DEF Arrive
    <3>2. /\ LastOnly(port') /\ (~ Head(wire).current => NoCurrent(port'))
      BY <1>2, <2>2, <2>3, <3>1, AppendYoungest
    <3>3. queries' # <<>> \/ wire' # <<>> => NoCurrent(port')
      BY <2>1, <2>3, <2>4, <3>2
    <3> QED BY <1>1, <2>1, <2>2, <2>3, <3>1, <3>2, <3>3 DEF Youngest
  <2>6. CASE Core = "rtu"
    <3>1. ring' = Append(ring, Head(wire)) /\ port' = port /\ port = <<>>
      BY <1>2, <1>9, <2>6 DEF Arrive
    <3>2. /\ LastOnly(ring') /\ (~ Head(wire).current => NoCurrent(ring'))
      BY <1>2, <2>2, <2>3, <3>1, AppendYoungest
    <3>3. queries' # <<>> \/ wire' # <<>> \/ port' # <<>> => NoCurrent(ring')
      BY <2>1, <2>3, <2>4, <3>1, <3>2
    <3> QED BY <1>1, <2>1, <2>2, <2>3, <3>1, <3>2, <3>3 DEF Youngest
  <2> QED BY <1>2, <2>5, <2>6
<1>10. CASE Lose
  <2>1. UNCHANGED <<port, ring, request>> /\ Waits' = Waits
    BY <1>10 DEF Lose, Waits
  <2>2. CASE queries # <<>> /\ queries' = Tail(queries) /\ UNCHANGED wire
    <3>1. /\ Len(queries) \in Nat \ {0} /\ Len(queries') = Len(queries) - 1
          /\ \A i \in 1 .. Len(queries') : queries'[i] = queries[i + 1]
      BY <1>2, <2>2, HeadTailProperties, EmptySeq
    <3>2. \A i \in 1 .. Len(queries') : i + 1 \in 1 .. Len(queries)
      BY <3>1
    <3>3. Waits => \A i \in 1 .. Len(queries') :
                     queries'[i].current => queries'[i].request = request
      BY <1>1, <3>1, <3>2
    <3>4. LastOnly(queries')
      BY <1>1, <1>2, <2>2, TailYoungest
    <3> QED BY <1>1, <2>1, <2>2, <3>3, <3>4 DEF Youngest
  <2>3. CASE wire # <<>> /\ wire' = Tail(wire) /\ UNCHANGED queries
    <3>1. LastOnly(wire') /\ (NoCurrent(wire) => NoCurrent(wire'))
      BY <1>1, <1>2, <2>3, TailYoungest
    <3> QED BY <1>1, <2>1, <2>3, <3>1 DEF Youngest
  <2> QED BY <1>10, <2>2, <2>3 DEF Lose
<1>11. CASE UNCHANGED vars
  BY <1>1, <1>11 DEF vars, Youngest, Waits
<1> QED BY <1>3, <1>4, <1>5, <1>6, <1>7, <1>8, <1>9, <1>10, <1>11 DEF Next, Master

LEMMA StepRInv == RInv /\ [Next]_vars => RInv'
BY StepIInv, ExactStep, YoungestStep DEF RInv, IInv

LEMMA RInvariant == Spec => []RInv
<1>1. RInv /\ [Next]_vars => RInv'
  BY StepRInv
<1> QED BY <1>1, InitRInv, PTL DEF Spec

\* Tables, requests, return codes and frames are what they are taken to be.
THEOREM TypeCorrect == Spec => []TypeOK
<1>1. RInv => TypeOK
  <2> SUFFICES ASSUME RInv PROVE TypeOK
    OBVIOUS
  <2>1. /\ setting \in Settings /\ transfer_id \in Ids /\ late \in 0 .. MaxLate
        /\ mpc \in {"pause", "recovered", "waiting"} /\ queries \in Seq(Query)
        /\ tables \in Tables /\ request \in Requests \cup {NoRequest}
        /\ result.ret \in -255 .. 0 /\ lost \in 0 .. MaxLost
        /\ wire \in Seq(Frame(Answer)) /\ port \in Seq(Frame(Answer)) /\ ring \in Seq(Frame(Answer))
    BY DEF RInv, IInv, Typed, Exact
  <2>2. ASSUME NEW s \in Seq(Frame(Answer)), NEW i \in DOMAIN s
        PROVE  IsAnswer(s[i])
    <3>1. s[i] \in Frame(Answer)
      BY <2>2, LenProperties, ElementOfSeq
    <3> QED BY <3>1 DEF Frame, IsAnswer, Ids
  <2>3. ASSUME NEW i \in DOMAIN queries
        PROVE  queries[i].request \in Requests /\ queries[i].tid \in 0 .. TidMod - 1
    <3>1. queries[i] \in Query
      BY <2>1, <2>3, LenProperties, ElementOfSeq
    <3> QED BY <3>1 DEF Query, Ids
  <2> QED BY <2>1, <2>2, <2>3 DEF TypeOK, Ids, Tables
<1> QED BY <1>1, RInvariant, PTL

-----------------------------------------------------------------------------
(***************************************************************************)
(* The refinement: every step of master, slave and line is a step of       *)
(* RemoteTable, or changes nothing it speaks of.                           *)
(***************************************************************************)
Marked(s) == [i \in DOMAIN s |-> [call |-> s[i].request, awaited |-> s[i].current]]
Call      == IF mpc = "waiting" THEN request ELSE Nothing
Outcome   == Seen(request, result.ret, result.data)

Mark == [call : Requests, awaited : BOOLEAN]

\* The pending calls of RemoteTable, read off the slave's queue.
LEMMA MarkedFacts ==
  ASSUME NEW s \in Seq(Query)
  PROVE  /\ Marked(s) \in Seq(Mark) /\ Len(Marked(s)) = Len(s)
         /\ DOMAIN Marked(s) = 1 .. Len(s)
         /\ \A i \in 1 .. Len(s) : Marked(s)[i] = [call |-> s[i].request, awaited |-> s[i].current]
<1>1. DOMAIN s = 1 .. Len(s) /\ Len(s) \in Nat /\ \A i \in 1 .. Len(s) : s[i] \in Query
  BY LenProperties, ElementOfSeq
<1>2. Marked(s) \in [1 .. Len(s) -> Mark]
  BY <1>1 DEF Marked, Query, Mark
<1>3. Marked(s) \in Seq(Mark) /\ Len(Marked(s)) = Len(s)
  BY <1>1, <1>2, SeqDef, LenProperties
<1> QED BY <1>1, <1>3 DEF Marked

\* The oldest of them leaves ...
LEMMA MarkedTail ==
  ASSUME NEW s \in Seq(Query), s # <<>>
  PROVE  /\ Marked(s) # <<>>
         /\ Head(Marked(s)) = [call |-> Head(s).request, awaited |-> Head(s).current]
         /\ Marked(Tail(s)) = Tail(Marked(s))
<1>1. /\ Tail(s) \in Seq(Query) /\ Len(s) \in Nat \ {0} /\ Len(Tail(s)) = Len(s) - 1
      /\ \A i \in 1 .. Len(Tail(s)) : Tail(s)[i] = s[i + 1]
  BY HeadTailProperties, EmptySeq
<1>2. Marked(s) \in Seq(Mark) /\ Len(Marked(s)) = Len(s)
  BY MarkedFacts
<1>3. Marked(s) # <<>>
  BY <1>1, <1>2, EmptySeq
<1>4. /\ Tail(Marked(s)) \in Seq(Mark) /\ Len(Tail(Marked(s))) = Len(s) - 1
      /\ \A i \in 1 .. Len(Tail(Marked(s))) : Tail(Marked(s))[i] = Marked(s)[i + 1]
  BY <1>2, <1>3, HeadTailProperties
<1>5. Marked(Tail(s)) \in Seq(Mark) /\ Len(Marked(Tail(s))) = Len(s) - 1
  BY <1>1, MarkedFacts
<1>6. ASSUME NEW i \in 1 .. Len(s) - 1
      PROVE  Marked(Tail(s))[i] = Tail(Marked(s))[i]
  <2>1. i \in 1 .. Len(Tail(s)) /\ i + 1 \in 1 .. Len(s)
    BY <1>1
  <2>2. Marked(Tail(s))[i] = [call |-> Tail(s)[i].request, awaited |-> Tail(s)[i].current]
    BY <1>1, <2>1, MarkedFacts
  <2>3. Tail(Marked(s))[i] = Marked(s)[i + 1]
    BY <1>4, <2>1
  <2>4. Marked(s)[i + 1] = [call |-> s[i + 1].request, awaited |-> s[i + 1].current]
    BY <2>1, MarkedFacts
  <2>5. Tail(s)[i] = s[i + 1]
    BY <1>1, <2>1
  <2> QED BY <2>2, <2>3, <2>4, <2>5
<1>7. Marked(Tail(s)) = Tail(Marked(s))
  BY <1>4, <1>5, <1>6, SeqEqual
<1>8. Head(Marked(s)) = [call |-> Head(s).request, awaited |-> Head(s).current]
  <2>1. Head(s) = s[1] /\ 1 \in 1 .. Len(s)
    BY <1>1
  <2>2. Head(Marked(s)) = Marked(s)[1]
    BY <1>2, <1>3
  <2>3. Marked(s)[1] = [call |-> s[1].request, awaited |-> s[1].current]
    BY <2>1, MarkedFacts
  <2> QED BY <2>1, <2>2, <2>3
<1> QED BY <1>3, <1>7, <1>8

\* ... and a new one follows, the only one still awaited.
LEMMA MarkedSend ==
  ASSUME NEW s \in Seq(Query), NEW r \in Requests, NEW id \in Ids
  PROVE  Marked(Append(Older(s), [request |-> r, tid |-> id, current |-> TRUE])) =
           Append([i \in DOMAIN Marked(s) |-> [Marked(s)[i] EXCEPT !.awaited = FALSE]],
                  [call |-> r, awaited |-> TRUE])
<1> DEFINE e   == [request |-> r, tid |-> id, current |-> TRUE]
           m   == [call |-> r, awaited |-> TRUE]
           aged == [i \in DOMAIN Marked(s) |-> [Marked(s)[i] EXCEPT !.awaited = FALSE]]
<1>1. e \in Query /\ m \in Mark /\ m = [call |-> e.request, awaited |-> e.current]
  BY DEF Query, Mark
<1>2. /\ Older(s) \in Seq(Query) /\ Len(Older(s)) = Len(s) /\ Len(s) \in Nat
      /\ DOMAIN s = 1 .. Len(s) /\ \A i \in 1 .. Len(s) : s[i] \in Query
  BY Ageing, OlderSeq, LenProperties, ElementOfSeq
<1>3. /\ DOMAIN Marked(s) = 1 .. Len(s)
      /\ \A i \in 1 .. Len(s) : Marked(s)[i] = [call |-> s[i].request, awaited |-> s[i].current]
  BY MarkedFacts
<1>4. \A i \in 1 .. Len(s) : Older(s)[i] = [s[i] EXCEPT !.current = FALSE]
  BY <1>2 DEF Older
<1>5. \A q \in Query : /\ [q EXCEPT !.current = FALSE].request = q.request
                       /\ [q EXCEPT !.current = FALSE].current = FALSE
                       /\ q.request \in Requests
  BY DEF Query
<1>6. ASSUME NEW i \in 1 .. Len(s)
      PROVE  aged[i] = [call |-> s[i].request, awaited |-> FALSE]
  <2>1. ASSUME NEW p \in Mark
        PROVE  [p EXCEPT !.awaited = FALSE] = [call |-> p.call, awaited |-> FALSE]
    <3>1. /\ [p EXCEPT !.awaited = FALSE] \in Mark
          /\ [p EXCEPT !.awaited = FALSE].call = p.call
          /\ [p EXCEPT !.awaited = FALSE].awaited = FALSE
      BY DEF Mark
    <3>2. [call |-> p.call, awaited |-> FALSE] \in Mark
      BY DEF Mark
    <3>3. \A x, y \in Mark : x.call = y.call /\ x.awaited = y.awaited => x = y
      BY DEF Mark
    <3> QED BY <3>1, <3>2, <3>3
  <2>2. aged[i] = [Marked(s)[i] EXCEPT !.awaited = FALSE]
    BY <1>3
  <2>3. Marked(s)[i] \in Mark
    BY <1>3, MarkedFacts, ElementOfSeq
  <2>4. Marked(s)[i].call = s[i].request
    BY <1>3
  <2> HIDE DEF aged
  <2> QED BY <2>1, <2>2, <2>3, <2>4
<1>7. aged \in Seq(Mark) /\ Len(aged) = Len(s)
  <2>1. ASSUME NEW i \in 1 .. Len(s)
        PROVE  aged[i] \in Mark
    <3>1. s[i].request \in Requests
      BY <1>2, <1>5
    <3>2. [call |-> s[i].request, awaited |-> FALSE] \in Mark
      BY <3>1 DEF Mark
    <3> HIDE DEF aged
    <3> QED BY <1>6, <3>2
  <2>2. aged = [i \in 1 .. Len(s) |-> aged[i]]
    BY <1>3
  <2> HIDE DEF aged
  <2>3. aged \in [1 .. Len(s) -> Mark]
    BY <2>1, <2>2
  <2> QED BY <1>2, <2>3, SeqDef, LenProperties
<1> HIDE DEF e, m, aged
<1>8. /\ Append(Older(s), e) \in Seq(Query) /\ Len(Append(Older(s), e)) = Len(s) + 1
      /\ \A i \in 1 .. Len(s) : Append(Older(s), e)[i] = Older(s)[i]
      /\ Append(Older(s), e)[Len(s) + 1] = e
  BY <1>1, <1>2, AppendProperties
<1>9. /\ Append(aged, m) \in Seq(Mark) /\ Len(Append(aged, m)) = Len(s) + 1
      /\ \A i \in 1 .. Len(s) : Append(aged, m)[i] = aged[i]
      /\ Append(aged, m)[Len(s) + 1] = m
  BY <1>1, <1>7, AppendProperties
<1>10. /\ Marked(Append(Older(s), e)) \in Seq(Mark)
       /\ Len(Marked(Append(Older(s), e))) = Len(s) + 1
       /\ \A i \in 1 .. Len(s) + 1 : Marked(Append(Older(s), e))[i] =
            [call |-> Append(Older(s), e)[i].request, awaited |-> Append(Older(s), e)[i].current]
  BY <1>8, MarkedFacts
<1>11. ASSUME NEW i \in 1 .. Len(s) + 1
       PROVE  Marked(Append(Older(s), e))[i] = Append(aged, m)[i]
  <2>1. CASE i \in 1 .. Len(s)
    <3>1. Append(Older(s), e)[i].request = s[i].request /\ Append(Older(s), e)[i].current = FALSE
      <4>1. s[i] \in Query /\ Append(Older(s), e)[i] = [s[i] EXCEPT !.current = FALSE]
        BY <1>2, <1>4, <1>8, <2>1
      <4> QED BY <1>5, <4>1
    <3> QED BY <1>6, <1>9, <1>10, <2>1, <3>1
  <2>2. CASE i = Len(s) + 1
    BY <1>1, <1>8, <1>9, <1>10, <2>2
  <2>3. i \in 1 .. Len(s) \/ i = Len(s) + 1
    BY <1>2
  <2> QED BY <2>1, <2>2, <2>3
<1>12. Marked(Append(Older(s), e)) = Append(aged, m)
  BY <1>9, <1>10, <1>11, SeqEqual
<1> QED BY <1>12 DEF e, m, aged

\* What is no call and what is no reply.
LEMMA NothingFacts ==
  /\ \A r \in Requests : r # Nothing
  /\ \A r, ret, data : Seen(r, ret, data) # Nothing
  /\ Failed # Nothing
  /\ \A r, ret, data : ret # MODBUS_OK => Seen(r, ret, data) = Failed
<1>1. \A r \in Requests : r # Nothing
  <2> SUFFICES ASSUME NEW r \in Requests PROVE r # Nothing
    OBVIOUS
  <2>1. DOMAIN r = {"function", "addr", "num", "data"}
    BY RequestsAssumption
  <2>2. DOMAIN Nothing = {"ok", "data"}
    BY DEF Nothing
  <2> QED BY <2>1, <2>2
<1>2. <<>> # <<"nothing">>
  BY EmptySeq
<1>3. Failed # Nothing
  <2>1. Failed.data = <<>> /\ Nothing.data = <<"nothing">>
    BY DEF Failed, Nothing
  <2> QED BY <1>2, <2>1
<1>4. \A r, ret, data : ret # MODBUS_OK => Seen(r, ret, data) = Failed
  BY DEF Seen
<1>5. ASSUME NEW r, NEW ret, NEW data
      PROVE  Seen(r, ret, data) # Nothing
  <2>1. CASE ret # MODBUS_OK
    BY <1>3, <1>4, <2>1
  <2>2. CASE ret = MODBUS_OK
    <3>1. Seen(r, ret, data).ok = TRUE /\ Nothing.ok = FALSE
      BY <2>2 DEF Seen, Nothing
    <3> QED BY <3>1
  <2> QED BY <2>1, <2>2
<1> QED BY <1>1, <1>3, <1>4, <1>5

\* Step by step.
LEMMA RemoteInit == Init => Remote!Init
<1> SUFFICES ASSUME Init PROVE Remote!Init
  OBVIOUS
<1>1. queries = <<>> /\ mpc = "pause" /\ result = NoResult
  BY DEF Init
<1>2. CurrentReply = Nothing
  BY <1>1 DEF CurrentReply
<1>3. Seen(request, result.ret, result.data) = Failed
  BY <1>1 DEF NoResult, Without, Seen, MODBUS_FAIL, MODBUS_OK
<1>4. [i \in DOMAIN queries |-> [call |-> queries[i].request,
                                 awaited |-> queries[i].current]] = <<>>
  BY <1>1
<1> QED BY <1>1, <1>2, <1>3, <1>4 DEF Init, Remote!Init

\* Nothing RemoteTable speaks of.
Unseen == /\ UNCHANGED <<tables, queries, mpc, request, result>>
          /\ CurrentAnswers' = CurrentAnswers

\* A step that moves frames about is not a step of RemoteTable.
LEMMA UnseenStutters == Unseen => UNCHANGED Remote!vars
<1> SUFFICES ASSUME Unseen PROVE UNCHANGED Remote!vars
  OBVIOUS
<1>1. CurrentReply' = CurrentReply
  BY DEF Unseen, CurrentReply
<1> QED BY <1>1 DEF Unseen, Remote!vars

\* A call that ends without an answer has failed.
LEMMA FailStep ==
  ASSUME UNCHANGED <<tables, queries>>, mpc' = "pause", Outcome' = Failed
  PROVE  Remote!Fail
<1>1. CurrentReply' = Nothing
  BY DEF CurrentReply
<1> QED BY <1>1 DEF Remote!Fail, Outcome

\* A request is sent: the call is made.
LEMMA MakeStep ==
  ASSUME RInv, StartRequest
  PROVE  \E c \in Requests : Remote!Make(c)
<1>1. PICK r \in Requests :
        /\ request' = r
        /\ queries' = Append(Older(queries),
                             [request |-> r, tid |-> transfer_id', current |-> TRUE])
  BY DEF StartRequest
<1>2. /\ mpc = "recovered" /\ mpc' = "waiting" /\ result' = NoResult /\ tables' = tables
      /\ wire' = Older(wire) /\ port' = Older(port) /\ ring' = Older(ring)
  BY DEF StartRequest
<1>3. /\ queries \in Seq(Query) /\ transfer_id' \in Ids
      /\ wire \in Seq(Frame(Answer)) /\ port \in Seq(Frame(Answer)) /\ ring \in Seq(Frame(Answer))
  <2>1. Typed /\ Typed' /\ Exact
    BY TypedStep DEF RInv, IInv, Next, Master
  <2>2. setting' = setting
    BY DEF StartRequest
  <2> QED BY <2>1, <2>2 DEF Typed, Exact, Ids, TidMod
<1>4. Marked(queries') =
        Append([i \in DOMAIN Marked(queries) |-> [Marked(queries)[i] EXCEPT !.awaited = FALSE]],
               [call |-> r, awaited |-> TRUE])
  BY <1>1, <1>3, MarkedSend
<1>5. CurrentAnswers' = {}
  <2>1. \A f \in Frame(Answer) : [f EXCEPT !.current = FALSE].current = FALSE
    BY DEF Frame
  <2>2. \A s \in Seq(Frame(Answer)) : Older(s) \in Seq(Frame(Answer)) /\ Len(Older(s)) = Len(s)
    BY Ageing, OlderSeq
  <2>3. \A s \in Seq(Frame(Answer)) : Own(Older(s)) = {}
    BY <2>1, <2>2, OlderNotCurrent, OwnNone
  <2>4. CurrentAnswers' = Own(wire') \cup Own(port') \cup Own(ring')
    BY DEF CurrentAnswers, Own
  <2> QED BY <1>2, <1>3, <2>3, <2>4
<1>6. CurrentReply = Nothing /\ CurrentReply' = Nothing
  BY <1>2, <1>5 DEF CurrentReply
<1>7. Outcome' = Failed
  BY <1>2 DEF Outcome, NoResult, Without, Seen, MODBUS_FAIL, MODBUS_OK
<1>8. Call = Nothing /\ Call' = r
  BY <1>1, <1>2 DEF Call
<1>9. Remote!Make(r)
  BY <1>2, <1>4, <1>6, <1>7, <1>8 DEF Remote!Make, Marked, Outcome, Call
<1> QED BY <1>9

\* A frame is confirmed: the call's own answer is its reply, anything else fails it.
LEMMA ConfirmStep ==
  ASSUME RInv, [Next]_vars, Confirm
  PROVE  Remote!Succeed \/ Remote!Fail
<1> DEFINE a == Head(ring).answer
           c == handle_confirm(request, a)
<1>1. /\ mpc = "waiting" /\ mpc' = "pause" /\ ring # <<>>
      /\ UNCHANGED <<tables, queries, request>>
      /\ result'.current = Head(ring).current
      /\ \/ result'.ret = c.ret /\ result'.data = c.data
         \/ result'.ret = MODBUS_FAIL_CHECK
  BY DEF Confirm
<1> HIDE DEF c
<1>2. CASE result'.ret # MODBUS_OK
  <2>1. Outcome' = Failed
    BY <1>2, NothingFacts DEF Outcome
  <2> QED BY <1>1, <2>1, FailStep
<1>3. CASE result'.ret = MODBUS_OK
  <2>1. Head(ring).current
    <3>1. AnswerBelongsToRequest'
      BY OwnAnswer DEF RInv
    <3> QED BY <1>1, <1>3, <3>1 DEF AnswerBelongsToRequest
  <2>2. result'.ret = c.ret /\ result'.data = c.data
    BY <1>1, <1>3 DEF MODBUS_OK, MODBUS_FAIL_CHECK
  <2>3. CurrentAnswers = {a}
    <3>1. /\ wire \in Seq(Frame(Answer)) /\ port \in Seq(Frame(Answer))
          /\ ring \in Seq(Frame(Answer))
      BY DEF RInv, Exact
    <3>2. ~ NoCurrent(ring) /\ LastOnly(ring) /\ Tail(ring) = <<>>
      BY <1>1, <2>1, <3>1, TailYoungest DEF RInv, Youngest
    <3>3. wire = <<>> /\ port = <<>>
      BY <3>2 DEF RInv, Youngest
    <3>4. Own(ring) = Own(Tail(ring)) \cup {x \in {Head(ring).answer} : Head(ring).current}
      BY <1>1, <3>1, OwnTail
    <3> QED BY <2>1, <3>2, <3>3, <3>4, OwnFacts
  <2>4. CurrentReply = Seen(request, c.ret, c.data)
    <3>1. (CHOOSE x \in CurrentAnswers : TRUE) = a
      BY <2>3
    <3> QED BY <1>1, <2>3, <3>1 DEF CurrentReply, c
  <2>5. Outcome' = CurrentReply /\ CurrentReply # Nothing
    BY <1>1, <2>2, <2>4, NothingFacts DEF Outcome
  <2>6. Call # Nothing /\ Call' = Nothing /\ CurrentReply' = Nothing
    <3>1. request \in Requests
      BY <1>1 DEF RInv, Exact, Waits, Sent
    <3> QED BY <1>1, <3>1, NothingFacts DEF Call, CurrentReply
  <2>7. Remote!Succeed
    BY <1>1, <2>5, <2>6 DEF Remote!Succeed, Outcome, Call
  <2> QED BY <2>7
<1> QED BY <1>2, <1>3

\* The slave serves a request: the call takes effect, and the answer it sends is
\* already the reply the table far away promises.
LEMMA TakeEffectStep ==
  ASSUME RInv, Serve
  PROVE  Remote!TakeEffect
<1> DEFINE q == Head(queries)
<1>1. PICK refusal \in RefusalCodes :
        wire' = Append(wire, [answer  |-> slave_answer(q.request, tables, refusal),
                              tid     |-> q.tid, current |-> q.current])
  BY DEF Serve
<1>2. /\ queries # <<>> /\ queries' = Tail(queries)
      /\ tables' = slave_effect(q.request, tables)
      /\ UNCHANGED <<mpc, request, result, port, ring>>
  BY DEF Serve
<1>3. /\ queries \in Seq(Query) /\ tables \in Tables
      /\ wire \in Seq(Frame(Answer)) /\ port \in Seq(Frame(Answer)) /\ ring \in Seq(Frame(Answer))
  BY DEF RInv, IInv, Typed, Exact
<1>4. /\ q \in Query /\ q.request \in Sent
      /\ Waits /\ q.current => q.request = request
  <2>1. q = queries[1] /\ 1 \in 1 .. Len(queries) /\ q \in Query
    BY <1>2, <1>3, HeadTailProperties, EmptySeq
  <2> QED BY <2>1 DEF RInv, Exact, Youngest
<1> DEFINE a == slave_answer(q.request, tables, refusal)
           e == [answer |-> a, tid |-> q.tid, current |-> q.current]
<1>5. a \in Answer
  BY <1>3, <1>4, AnswerType
<1>6. tables' = Change(q.request, tables)
  BY <1>2, <1>3, <1>4, EffectIsChange
<1>7. /\ Marked(queries) # <<>> /\ Marked(queries') = Tail(Marked(queries))
      /\ Head(Marked(queries)) = [call |-> q.request, awaited |-> q.current]
  BY <1>2, <1>3, MarkedTail
<1> HIDE DEF q, a
<1>8. e \in Frame(Answer) /\ e.answer = a /\ e.current = q.current
  BY <1>4, <1>5 DEF Frame, Query
<1>9. wire' = Append(wire, e)
  BY <1>1 DEF a
<1> HIDE DEF e
<1>10. CurrentAnswers' = CurrentAnswers \cup {x \in {a} : q.current}
  <2>1. Own(wire') = Own(wire) \cup {x \in {a} : q.current}
    BY <1>3, <1>8, <1>9, OwnAppend
  <2>2. CurrentAnswers' = Own(wire') \cup Own(port') \cup Own(ring')
    BY DEF CurrentAnswers, Own
  <2> QED BY <1>2, <2>1, <2>2, OwnFacts
<1>11. CurrentAnswers = {}
  <2>1. NoCurrent(wire) /\ NoCurrent(port) /\ NoCurrent(ring)
    BY <1>2 DEF RInv, Youngest
  <2> QED BY <1>3, <2>1, OwnNone, OwnFacts
<1>12. CurrentReply' = IF q.current /\ Call # Nothing THEN Promise(q.request, tables) ELSE CurrentReply
  <2>1. CASE ~ Waits
    <3>1. Call = Nothing /\ CurrentReply = Nothing /\ CurrentReply' = Nothing
      BY <1>2, <2>1 DEF Waits, Call, CurrentReply
    <3> QED BY <3>1
  <2>2. CASE Waits /\ ~ q.current
    <3>1. CurrentAnswers' = CurrentAnswers
      BY <1>10, <2>2
    <3>2. CurrentReply' = CurrentReply
      BY <1>2, <3>1 DEF CurrentReply
    <3> QED BY <2>2, <3>2
  <2>3. CASE Waits /\ q.current
    <3>1. q.request = request /\ request \in Sent
      BY <1>4, <2>3
    <3>2. Call = request /\ Call # Nothing
      BY <2>3, <3>1, NothingFacts DEF Call, Waits, Sent
    <3>3. CurrentAnswers' = {a}
      BY <1>10, <1>11, <2>3
    <3>4. (CHOOSE x \in CurrentAnswers' : TRUE) = a
      BY <3>3
    <3> DEFINE c == handle_confirm(request, a)
    <3>5. CurrentReply' = Seen(request, c.ret, c.data)
      BY <1>2, <2>3, <3>3, <3>4 DEF CurrentReply, Waits
    <3>6. Seen(request, c.ret, c.data) = Promise(request, tables)
      BY <1>3, <3>1, AnswerIsPromise DEF a
    <3> QED BY <2>3, <3>1, <3>2, <3>5, <3>6
  <2> QED BY <2>1, <2>2, <2>3
<1>13. Call' = Call /\ Outcome' = Outcome
  BY <1>2 DEF Call, Outcome
<1>14. LET p == Head(Marked(queries))
       IN  /\ CurrentReply' = IF p.awaited /\ Call # Nothing THEN Promise(p.call, tables) ELSE CurrentReply
           /\ tables' = Change(p.call, tables)
  <2>1. Head(Marked(queries)).awaited = q.current /\ Head(Marked(queries)).call = q.request
    BY <1>7
  <2> QED BY <1>6, <1>12, <2>1
<1> QED BY <1>7, <1>13, <1>14, ZenonT(60) DEF Remote!TakeEffect, Marked, Call, Outcome

\* A frame is lost: a call that did not take effect, a reply, or nothing of the sort.
LEMMA LoseStep ==
  ASSUME RInv, Lose
  PROVE  Remote!LoseCall \/ Remote!LoseReply \/ UNCHANGED Remote!vars
<1>1. /\ queries \in Seq(Query)
      /\ wire \in Seq(Frame(Answer)) /\ port \in Seq(Frame(Answer)) /\ ring \in Seq(Frame(Answer))
  BY DEF RInv, IInv, Typed, Exact
<1>2. UNCHANGED <<tables, mpc, request, result, port, ring>>
  BY DEF Lose
<1>3. CurrentAnswers' = Own(wire') \cup Own(port') \cup Own(ring')
  BY DEF CurrentAnswers, Own
<1>4. CASE queries # <<>> /\ queries' = Tail(queries) /\ UNCHANGED wire
  <2>1. Marked(queries) # <<>> /\ Marked(queries') = Tail(Marked(queries))
    BY <1>1, <1>4, MarkedTail
  <2>2. CurrentReply' = CurrentReply
    BY <1>2, <1>4 DEF CurrentReply, CurrentAnswers
  <2> QED BY <1>2, <2>1, <2>2 DEF Remote!LoseCall, Marked
<1>5. CASE wire # <<>> /\ wire' = Tail(wire) /\ UNCHANGED queries
  <2>1. Own(wire) = Own(wire') \cup {x \in {Head(wire).answer} : Head(wire).current}
    BY <1>1, <1>5, OwnTail
  <2>2. CASE ~ Head(wire).current
    <3>1. CurrentAnswers' = CurrentAnswers
      BY <1>2, <1>3, <2>1, <2>2, OwnFacts
    <3> QED BY <1>2, <1>5, <3>1, UnseenStutters DEF Unseen
  <2>3. CASE Head(wire).current
    <3>1. NoCurrent(port) /\ NoCurrent(ring) /\ wire' = <<>>
      BY <1>1, <1>5, <2>3, TailYoungest DEF RInv, Youngest
    <3>2. CurrentAnswers' = {}
      BY <1>1, <1>2, <1>3, <3>1, OwnNone, OwnFacts
    <3>3. CurrentReply' = Nothing
      BY <3>2 DEF CurrentReply
    <3>4. CASE CurrentReply # Nothing
      BY <1>2, <1>5, <3>3, <3>4 DEF Remote!LoseReply
    <3>5. CASE CurrentReply = Nothing
      BY <1>2, <1>5, <3>3, <3>5 DEF Remote!vars
    <3> QED BY <3>4, <3>5
  <2> QED BY <2>2, <2>3
<1> QED BY <1>4, <1>5 DEF Lose

LEMMA RemoteStep ==
  ASSUME RInv, [Next]_vars
  PROVE  [Remote!Next]_(Remote!vars)
<1>1. /\ wire \in Seq(Frame(Answer)) /\ port \in Seq(Frame(Answer)) /\ ring \in Seq(Frame(Answer))
      /\ Core \in {"rtu", "tcp"}
  BY SettingFacts DEF RInv, IInv, Typed, Exact
<1>2. CurrentAnswers' = Own(wire') \cup Own(port') \cup Own(ring')
  BY DEF CurrentAnswers, Own
<1>3. CASE Recover
  <2>1. CurrentReply = Nothing /\ CurrentReply' = Nothing
    BY <1>3 DEF Recover, CurrentReply
  <2> QED BY <1>3, <2>1 DEF Recover, Remote!vars
<1>4. CASE Reject
  <2>1. result'.ret = MODBUS_FAIL_REQUEST
    BY <1>4 DEF Reject, Without
  <2>2. Outcome' = Failed
    BY <2>1, NothingFacts DEF Outcome, MODBUS_FAIL_REQUEST, MODBUS_OK
  <2> QED BY <1>4, <2>2, FailStep DEF Reject, frames, Remote!Next
<1>5. CASE StartRequest
  BY <1>5, MakeStep DEF Remote!Next
<1>6. CASE Receive
  <2>1. /\ ring = <<>> /\ ring' = port /\ port' = <<>>
        /\ UNCHANGED <<tables, queries, mpc, request, result, wire>>
    BY <1>6 DEF Receive
  <2>2. CurrentAnswers' = CurrentAnswers
    BY <1>2, <2>1, OwnFacts
  <2> QED BY <2>1, <2>2, UnseenStutters DEF Unseen
<1>7. CASE Confirm
  BY <1>7, ConfirmStep DEF Remote!Next
<1>8. CASE Timeout
  <2>1. result'.ret = MODBUS_TIMEOUT
    BY <1>8 DEF Timeout, Without
  <2>2. Outcome' = Failed
    BY <2>1, NothingFacts DEF Outcome, MODBUS_TIMEOUT, MODBUS_OK
  <2> QED BY <1>8, <2>2, FailStep DEF Timeout, frames, Remote!Next
<1>9. CASE Serve
  BY <1>9, TakeEffectStep DEF Remote!Next
<1>10. CASE Arrive
  <2>1. /\ wire # <<>> /\ wire' = Tail(wire) /\ Head(wire) \in Frame(Answer)
        /\ UNCHANGED <<tables, queries, mpc, request, result>>
    BY <1>1, <1>10, HeadTailProperties DEF Arrive
  <2> DEFINE own == {x \in {Head(wire).answer} : Head(wire).current}
  <2>2. Own(wire) = Own(wire') \cup own
    BY <1>1, <2>1, OwnTail
  <2>3. CASE Core = "tcp"
    <3>0. port' = Append(port, Head(wire)) /\ ring' = ring
      BY <1>10, <2>3 DEF Arrive
    <3>1. Own(Append(port, Head(wire))) = Own(port) \cup own
      BY <1>1, <2>1, OwnAppend
    <3> QED BY <1>2, <2>1, <2>2, <3>0, <3>1, OwnFacts, UnseenStutters DEF Unseen
  <2>4. CASE Core = "rtu"
    <3>0. ring' = Append(ring, Head(wire)) /\ port' = port
      BY <1>10, <2>4 DEF Arrive
    <3>1. Own(Append(ring, Head(wire))) = Own(ring) \cup own
      BY <1>1, <2>1, OwnAppend
    <3> QED BY <1>2, <2>1, <2>2, <3>0, <3>1, OwnFacts, UnseenStutters DEF Unseen
  <2> QED BY <1>1, <2>3, <2>4
<1>11. CASE Lose
  BY <1>11, LoseStep DEF Remote!Next
<1>12. CASE UNCHANGED vars
  <2>1. UNCHANGED <<tables, queries, mpc, request, result, wire, port, ring>>
    BY <1>12 DEF vars
  <2>2. CurrentAnswers' = CurrentAnswers
    BY <2>1 DEF CurrentAnswers
  <2> QED BY <2>1, <2>2, UnseenStutters DEF Unseen
<1> QED BY <1>3, <1>4, <1>5, <1>6, <1>7, <1>8, <1>9, <1>10, <1>11, <1>12 DEF Next, Master

\* The calls of a master, whatever is late or lost, are reads and writes of a table
\* far away: a call that returns MODBUS_OK took effect in the slave exactly once
\* while it was made, and returns what the tables held then.
THEOREM ActsAsRemoteTable == Spec => RemoteTableSpec
<1>1. RInv /\ [Next]_vars => [Remote!Next]_(Remote!vars)
  BY RemoteStep
<1> QED BY <1>1, RemoteInit, RInvariant, PTL DEF Spec, RemoteTableSpec, Remote!Spec
=============================================================================
