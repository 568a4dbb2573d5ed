-------------------------- MODULE RingBuffer_proofs --------------------------
(***************************************************************************)
(* The ring buffer is a bounded queue, for every size of its pool, every   *)
(* kind of byte and every sequence of puts, gets and resets.               *)
(***************************************************************************)
EXTENDS RingBuffer, SequenceTheorems, TLAPS

IInv == TypeOK /\ MirrorInv

\* How many bytes there are is always between nothing and the whole pool.
LEMMA DataLenRange == ASSUME IInv PROVE data_len \in 0 .. buffer_size
BY SizeAssumption DEF IInv, TypeOK, MirrorInv, data_len

\* Contents is a sequence of data_len bytes.
LEMMA ContentsSeq ==
  ASSUME IInv
  PROVE  Contents \in Seq(Elements) /\ Len(Contents) = data_len
<1>1. data_len \in Nat /\ data_len <= buffer_size
  BY DataLenRange, SizeAssumption
<1>2. ASSUME NEW i \in 1 .. data_len
      PROVE  /\ read_index + i - 1 < buffer_size => read_index + i - 1 \in 0 .. buffer_size - 1
             /\ read_index + i - 1 >= buffer_size =>
                  read_index + i - 1 - buffer_size \in 0 .. buffer_size - 1
  BY <1>1, SizeAssumption DEF IInv, TypeOK
<1> DEFINE byte(i) == IF read_index + i - 1 < buffer_size THEN pool[read_index + i - 1]
                      ELSE pool[read_index + i - 1 - buffer_size]
<1>3. ASSUME NEW i \in 1 .. data_len
      PROVE  byte(i) \in Elements
  <2>1. CASE read_index + i - 1 < buffer_size
    BY <1>2, <2>1 DEF IInv, TypeOK
  <2>2. CASE ~ (read_index + i - 1 < buffer_size)
    BY <1>1, <1>2, <2>2, SizeAssumption DEF IInv, TypeOK
  <2> QED BY <2>1, <2>2
<1>4. Contents \in [1 .. data_len -> Elements]
  <2>1. Contents = [i \in 1 .. data_len |-> byte(i)]
    BY DEF Contents
  <2> HIDE DEF byte
  <2> QED BY <1>3, <2>1
<1> QED BY <1>1, <1>4, LenProperties, SeqDef

LEMMA InitIInv == Init => IInv
<1> SUFFICES ASSUME Init PROVE IInv
  OBVIOUS
<1>1. pool \in [0 .. buffer_size - 1 -> Elements]
  BY ElementsAssumption DEF Init
<1>2. copied \in Seq(Elements)
  BY DEF Init
<1> QED BY <1>1, <1>2, SizeAssumption DEF Init, IInv, TypeOK, MirrorInv
-----------------------------------------------------------------------------
(***************************************************************************)
(* Put.                                                                    *)
(***************************************************************************)
\* What a put does, the three cases of the code in one.
Stores(s, n) ==
  /\ n = Smaller(Len(s), space_len)
  /\ IF n = 0 THEN UNCHANGED <<pool, write_index, write_mirror>>
     ELSE IF buffer_size - write_index > n THEN PutAhead(s, n)
     ELSE PutAround(s, n)
  /\ returned' = n /\ copied' = <<>>
  /\ UNCHANGED <<read_mirror, read_index>>

\* A put moves the write index, over the end of the pool if it must, by what it
\* stores; the number of bytes grows by as much.
LEMMA PutIndices ==
  ASSUME IInv, NEW s \in Bursts, NEW n, Stores(s, n)
  PROVE  /\ n \in 0 .. buffer_size /\ n <= Len(s) /\ n <= buffer_size - data_len
         /\ MirrorInv' /\ data_len' = data_len + n
         /\ read_index' = read_index
         /\ write_index' \in 0 .. buffer_size - 1 /\ write_mirror' \in {0, 1}
<1> USE SizeAssumption DEF IInv, TypeOK, MirrorInv
<1>1. data_len \in 0 .. buffer_size
  BY DataLenRange
<1>2. Len(s) \in Nat
  BY CallsAssumption
<1>3. n \in 0 .. buffer_size /\ n <= Len(s) /\ n <= buffer_size - data_len
  BY <1>1, <1>2 DEF Stores, Smaller, space_len
<1>4. read_index' = read_index /\ read_mirror' = read_mirror
  BY DEF Stores
<1>5. CASE n = 0
  BY <1>1, <1>3, <1>4, <1>5 DEF Stores, data_len
<1>6. CASE n # 0 /\ buffer_size - write_index > n
  <2>1. write_index' = write_index + n /\ write_mirror' = write_mirror
    BY <1>6 DEF Stores, PutAhead
  <2> QED BY <1>1, <1>3, <1>4, <1>6, <2>1 DEF data_len
<1>7. CASE n # 0 /\ ~ (buffer_size - write_index > n)
  <2>1. /\ write_index' = n - (buffer_size - write_index)
        /\ write_mirror' = 1 - write_mirror
    BY <1>7 DEF Stores, PutAround
  <2> QED BY <1>1, <1>3, <1>4, <1>7, <2>1 DEF data_len
<1> QED BY <1>5, <1>6, <1>7, <1>3, <1>4

LEMMA PutPool ==
  ASSUME IInv, NEW s \in Bursts, NEW n, Stores(s, n)
  PROVE  pool' \in [0 .. buffer_size - 1 -> Elements]
<1> USE SizeAssumption DEF IInv, TypeOK
<1>1. n \in 0 .. buffer_size /\ n <= Len(s)
  BY PutIndices
<1>2. ASSUME NEW k \in 1 .. n PROVE s[k] \in Elements
  BY <1>1, CallsAssumption, ElementOfSeq
<1> HIDE DEF IInv, TypeOK
<1>3. DOMAIN pool = 0 .. buffer_size - 1 /\ pool \in [0 .. buffer_size - 1 -> Elements]
  BY DEF IInv, TypeOK
<1>4. write_index \in 0 .. buffer_size - 1
  BY DEF IInv, TypeOK
<1>5. CASE n = 0
  BY <1>3, <1>5 DEF Stores
<1>6. CASE n # 0 /\ buffer_size - write_index > n
  <2> DEFINE byte(i) == IF i \in write_index .. write_index + n - 1
                          THEN s[i - write_index + 1] ELSE pool[i]
  <2>1. pool' = [i \in 0 .. buffer_size - 1 |-> byte(i)]
    BY <1>3, <1>6 DEF Stores, PutAhead
  <2>2. ASSUME NEW i \in 0 .. buffer_size - 1
        PROVE  byte(i) \in Elements
    <3>1. CASE i \in write_index .. write_index + n - 1
      <4>1. i - write_index + 1 \in 1 .. n
        BY <1>4, <1>1, <3>1
      <4> QED BY <3>1, <4>1, <1>2
    <3>2. CASE i \notin write_index .. write_index + n - 1
      BY <1>3, <3>2
    <3> QED BY <3>1, <3>2
  <2> HIDE DEF byte
  <2> QED BY <2>1, <2>2
<1>7. CASE n # 0 /\ ~ (buffer_size - write_index > n)
  <2> DEFINE ahead == buffer_size - write_index
             byte(i) == IF i >= write_index THEN s[i - write_index + 1]
                        ELSE IF i < n - ahead THEN s[i + ahead + 1] ELSE pool[i]
  <2>1. pool' = [i \in 0 .. buffer_size - 1 |-> byte(i)]
    BY <1>3, <1>7 DEF Stores, PutAround
  <2>2. ASSUME NEW i \in 0 .. buffer_size - 1
        PROVE  /\ i >= write_index => i - write_index + 1 \in 1 .. n
               /\ i < n - ahead => i + ahead + 1 \in 1 .. n
    BY <1>4, <1>1, <1>7
  <2>3. ASSUME NEW i \in 0 .. buffer_size - 1
        PROVE  byte(i) \in Elements
    <3>1. CASE i >= write_index
      BY <3>1, <2>2, <1>2
    <3>2. CASE ~ (i >= write_index) /\ i < n - ahead
      BY <3>2, <2>2, <1>2
    <3>3. CASE ~ (i >= write_index) /\ ~ (i < n - ahead)
      BY <1>3, <3>3
    <3> QED BY <3>1, <3>2, <3>3
  <2> HIDE DEF byte
  <2> QED BY <2>1, <2>3
<1> QED BY <1>5, <1>6, <1>7

\* Where the i-th byte of the ring lies in the pool.
Cell(i) == IF read_index + i - 1 < buffer_size THEN read_index + i - 1
           ELSE read_index + i - 1 - buffer_size

\* The bytes that were there stay where they are, and the new ones follow them.
LEMMA PutCells ==
  ASSUME IInv, NEW s \in Bursts, NEW n, Stores(s, n),
         NEW i \in 1 .. data_len + n
  PROVE  pool'[Cell(i)] = IF i <= data_len THEN pool[Cell(i)] ELSE s[i - data_len]
<1> DEFINE c == Cell(i)
<1>1. /\ data_len \in 0 .. buffer_size /\ n \in 0 .. buffer_size
      /\ n <= buffer_size - data_len
  BY DataLenRange, PutIndices
<1>2. c \in 0 .. buffer_size - 1
  BY <1>1, SizeAssumption DEF IInv, TypeOK, Cell
<1>3. DOMAIN pool = 0 .. buffer_size - 1
  BY DEF IInv, TypeOK
<1>4. CASE n = 0
  BY <1>1, <1>4 DEF Stores
<1>5. CASE n # 0 /\ buffer_size - write_index > n
  <2>1. pool'[c] = IF c \in write_index .. write_index + n - 1
                     THEN s[c - write_index + 1] ELSE pool[c]
    BY <1>2, <1>3, <1>5 DEF Stores, PutAhead
  <2>2. IF i <= data_len THEN c \notin write_index .. write_index + n - 1
        ELSE c \in write_index .. write_index + n - 1 /\ c - write_index + 1 = i - data_len
    BY <1>1, <1>5, SizeAssumption DEF IInv, TypeOK, MirrorInv, Cell, data_len
  <2> QED BY <2>1, <2>2
<1>6. CASE n # 0 /\ ~ (buffer_size - write_index > n)
  <2> DEFINE ahead == buffer_size - write_index
  <2>1. pool'[c] = IF c >= write_index THEN s[c - write_index + 1]
                   ELSE IF c < n - ahead THEN s[c + ahead + 1] ELSE pool[c]
    BY <1>2, <1>3, <1>6 DEF Stores, PutAround
  <2>2. IF i <= data_len THEN ~ (c >= write_index) /\ ~ (c < n - ahead)
        ELSE \/ c >= write_index /\ c - write_index + 1 = i - data_len
             \/ ~ (c >= write_index) /\ c < n - ahead /\ c + ahead + 1 = i - data_len
    BY <1>1, <1>6, SizeAssumption DEF IInv, TypeOK, MirrorInv, Cell, data_len
  <2> QED BY <2>1, <2>2
<1> QED BY <1>4, <1>5, <1>6

LEMMA ContentsAt == \A i \in 1 .. data_len : Contents[i] = pool[Cell(i)]
BY DEF Contents, Cell

LEMMA PutImplements ==
  ASSUME IInv, NEW s \in Bursts, NEW n, Stores(s, n)
  PROVE  Fifo!Put
<1>1. Len(Contents) = data_len
  BY ContentsSeq
<1>2. data_len' = data_len + n /\ read_index' = read_index
  BY PutIndices
<1>3. Contents' = [i \in 1 .. data_len + n |->
                     IF i <= data_len THEN Contents[i] ELSE s[i - data_len]]
  <2>1. Contents' = [i \in 1 .. data_len + n |-> pool'[Cell(i)]]
    BY <1>2 DEF Contents, Cell
  <2>2. ASSUME NEW i \in 1 .. data_len + n
        PROVE  pool'[Cell(i)] = IF i <= data_len THEN Contents[i] ELSE s[i - data_len]
    <3>1. pool'[Cell(i)] = IF i <= data_len THEN pool[Cell(i)] ELSE s[i - data_len]
      BY PutCells
    <3>2. i <= data_len => Contents[i] = pool[Cell(i)]
      BY ContentsAt, DataLenRange, PutIndices, SizeAssumption
    <3> QED BY <3>1, <3>2
  <2> QED BY <2>1, <2>2
<1>4. n = Smaller(Len(s), buffer_size - Len(Contents))
  BY <1>1 DEF Stores, space_len
<1>5. Fifo!Smaller(Len(s), buffer_size - Len(Contents))
        = Smaller(Len(s), buffer_size - Len(Contents))
  BY DEF Fifo!Smaller, Smaller
<1>6. returned' = n /\ copied' = <<>>
  BY DEF Stores
<1> QED BY <1>1, <1>3, <1>4, <1>5, <1>6 DEF Fifo!Put
-----------------------------------------------------------------------------
(***************************************************************************)
(* Get and reset.                                                          *)
(***************************************************************************)
\* data_len of a ring of size bytes whose indices and mirrors are these.
Between(size, r, rm, w, wm) ==
  IF r = w THEN IF rm = wm THEN 0 ELSE size
  ELSE IF w > r THEN w - r ELSE size - (r - w)

Ordered(r, rm, w, wm) == IF rm = wm THEN r <= w ELSE w <= r

\* Reading n bytes, without and with reaching the end of the pool.
LEMMA ReadAhead ==
  ASSUME NEW size \in Nat, NEW r \in Nat, NEW w \in Nat, NEW n \in Nat,
         NEW rm \in {0, 1}, NEW wm \in {0, 1},
         r < size, w < size, Ordered(r, rm, w, wm),
         n <= Between(size, r, rm, w, wm), r + n < size
  PROVE  /\ Ordered(r + n, rm, w, wm)
         /\ Between(size, r + n, rm, w, wm) = Between(size, r, rm, w, wm) - n
<1>1. CASE rm = wm
  BY <1>1 DEF Between, Ordered
<1>2. CASE rm # wm
  BY <1>2 DEF Between, Ordered
<1> QED BY <1>1, <1>2

LEMMA ReadAround ==
  ASSUME NEW size \in Nat, NEW r \in Nat, NEW w \in Nat, NEW n \in Nat,
         NEW rm \in {0, 1}, NEW wm \in {0, 1},
         r < size, w < size, Ordered(r, rm, w, wm),
         n <= Between(size, r, rm, w, wm), r + n >= size
  PROVE  /\ Ordered(r + n - size, 1 - rm, w, wm)
         /\ Between(size, r + n - size, 1 - rm, w, wm) = Between(size, r, rm, w, wm) - n
<1>1. CASE rm = wm
  BY <1>1 DEF Between, Ordered
<1>2. CASE rm # wm
  BY <1>2 DEF Between, Ordered
<1> QED BY <1>1, <1>2

\* A get moves the read index, over the end of the pool if it must, by what it
\* hands out; the number of bytes shrinks by as much.
LEMMA GetIndices ==
  ASSUME IInv, NEW length \in Requests, NEW n,
         n = Smaller(length, data_len),
         IF buffer_size - read_index > n
           THEN read_index' = read_index + n /\ UNCHANGED read_mirror
           ELSE read_index' = n - (buffer_size - read_index) /\ read_mirror' = 1 - read_mirror,
         UNCHANGED <<write_mirror, write_index>>
  PROVE  /\ n \in 0 .. data_len /\ data_len' = data_len - n
         /\ MirrorInv'
         /\ read_index' \in 0 .. buffer_size - 1 /\ read_mirror' \in {0, 1}
         /\ read_index' = IF read_index + n < buffer_size THEN read_index + n
                          ELSE read_index + n - buffer_size
<1>1. /\ buffer_size \in Nat /\ read_index \in Nat /\ write_index \in Nat
      /\ read_index < buffer_size /\ write_index < buffer_size
      /\ read_mirror \in {0, 1} /\ write_mirror \in {0, 1}
      /\ Ordered(read_index, read_mirror, write_index, write_mirror)
  BY SizeAssumption DEF IInv, TypeOK, MirrorInv, Ordered
<1>2. n \in Nat /\ n <= data_len /\ n \in 0 .. data_len
  BY DataLenRange, SizeAssumption, CallsAssumption DEF Smaller
<1>3. data_len = Between(buffer_size, read_index, read_mirror, write_index, write_mirror)
  BY DEF data_len, Between
<1>4. data_len' = Between(buffer_size, read_index', read_mirror', write_index, write_mirror)
  BY DEF data_len, Between
<1>5. MirrorInv' <=> Ordered(read_index', read_mirror', write_index, write_mirror)
  BY DEF MirrorInv, Ordered
<1>6. CASE buffer_size - read_index > n
  <2>1. read_index' = read_index + n /\ read_mirror' = read_mirror /\ read_index + n < buffer_size
    BY <1>1, <1>2, <1>6
  <2>2. n <= Between(buffer_size, read_index, read_mirror, write_index, write_mirror)
    BY <1>2, <1>3
  <2>3. /\ Ordered(read_index + n, read_mirror, write_index, write_mirror)
        /\ Between(buffer_size, read_index + n, read_mirror, write_index, write_mirror)
             = Between(buffer_size, read_index, read_mirror, write_index, write_mirror) - n
    BY <1>1, <1>2, <2>1, <2>2, ReadAhead
  <2>4. data_len' = data_len - n /\ MirrorInv'
    <3>1. data_len' = data_len - n
      BY <1>3, <1>4, <2>1, <2>3
    <3>2. MirrorInv'
      BY <1>5, <2>1, <2>3
    <3> QED BY <3>1, <3>2
  <2> QED BY <1>1, <1>2, <2>1, <2>4
<1>7. CASE ~ (buffer_size - read_index > n)
  <2>1. /\ read_index' = read_index + n - buffer_size /\ read_mirror' = 1 - read_mirror
        /\ read_index + n >= buffer_size
    BY <1>1, <1>2, <1>7
  <2>2. n <= Between(buffer_size, read_index, read_mirror, write_index, write_mirror)
    BY <1>2, <1>3
  <2>3. /\ Ordered(read_index + n - buffer_size, 1 - read_mirror, write_index, write_mirror)
        /\ Between(buffer_size, read_index + n - buffer_size, 1 - read_mirror, write_index, write_mirror)
             = Between(buffer_size, read_index, read_mirror, write_index, write_mirror) - n
    BY <1>1, <1>2, <2>1, <2>2, ReadAround, SMTT(30)
  <2>4. data_len' = data_len - n /\ MirrorInv'
    <3>1. data_len' = data_len - n
      <4>1. data_len' = Between(buffer_size, read_index + n - buffer_size, 1 - read_mirror,
                                write_index, write_mirror)
        BY <1>4, <2>1
      <4> QED BY <1>3, <2>3, <4>1
    <3>2. MirrorInv'
      BY <1>5, <2>1, <2>3
    <3> QED BY <3>1, <3>2
  <2>5. n <= buffer_size
    BY <1>2, DataLenRange, SizeAssumption
  <2>6. read_index' \in 0 .. buffer_size - 1
    BY <1>1, <1>2, <2>1, <2>5
  <2>7. read_mirror' \in {0, 1}
    BY <1>1, <2>1
  <2> QED BY <1>1, <1>2, <2>1, <2>4, <2>6, <2>7
<1> QED BY <1>6, <1>7

LEMMA GetStep ==
  ASSUME IInv, Get
  PROVE  IInv' /\ Fifo!Get
<1>1. PICK length \in Requests :
        LET n == Smaller(length, data_len)
            ahead == buffer_size - read_index
        IN  /\ copied' = [i \in 1 .. n |-> IF i <= ahead THEN pool[read_index + i - 1]
                                                         ELSE pool[i - 1 - ahead]]
            /\ IF ahead > n
                 THEN read_index' = read_index + n /\ UNCHANGED read_mirror
                 ELSE read_index' = n - ahead /\ read_mirror' = 1 - read_mirror
            /\ returned' = n
            /\ UNCHANGED <<pool, write_mirror, write_index>>
  BY DEF Get
<1> DEFINE n == Smaller(length, data_len)
<1>2. /\ n \in 0 .. data_len /\ data_len' = data_len - n
      /\ MirrorInv'
      /\ read_index' \in 0 .. buffer_size - 1 /\ read_mirror' \in {0, 1}
      /\ read_index' = IF read_index + n < buffer_size THEN read_index + n
                       ELSE read_index + n - buffer_size
  BY <1>1, GetIndices
<1>3. data_len \in 0 .. buffer_size /\ n \in 0 .. buffer_size
  BY <1>2, DataLenRange, SizeAssumption
<1> HIDE DEF n
<1>4. copied' = [i \in 1 .. n |-> Contents[i]]
  <2>1. copied' = [i \in 1 .. n |-> IF i <= buffer_size - read_index
                                      THEN pool[read_index + i - 1]
                                      ELSE pool[i - 1 - (buffer_size - read_index)]]
    BY <1>1 DEF n
  <2>2. ASSUME NEW i \in 1 .. n
        PROVE  Contents[i] = IF i <= buffer_size - read_index
                               THEN pool[read_index + i - 1]
                               ELSE pool[i - 1 - (buffer_size - read_index)]
    <3>1. i \in 1 .. data_len
      BY <1>2, <1>3
    <3>2. Cell(i) = IF i <= buffer_size - read_index THEN read_index + i - 1
                    ELSE i - 1 - (buffer_size - read_index)
      BY <3>1, <1>3, SizeAssumption DEF Cell, IInv, TypeOK
    <3> QED BY <3>1, <3>2, ContentsAt
  <2> QED BY <2>1, <2>2
<1>5. Contents' = [i \in 1 .. data_len - n |-> Contents[i + n]]
  <2>1. Contents' = [i \in 1 .. data_len - n |-> pool[Cell(i)']]
    BY <1>1, <1>2 DEF Contents, Cell
  <2>2. ASSUME NEW i \in 1 .. data_len - n
        PROVE  pool[Cell(i)'] = Contents[i + n]
    <3>1. i + n \in 1 .. data_len
      BY <1>2, <1>3
    <3>2. Cell(i)' = Cell(i + n)
      BY <1>2, <1>3, <3>1, SizeAssumption DEF Cell, IInv, TypeOK
    <3> QED BY <3>1, <3>2, ContentsAt
  <2> QED BY <2>1, <2>2
<1>6. Contents \in Seq(Elements) /\ Len(Contents) = data_len
  BY ContentsSeq
<1>7. copied' \in Seq(Elements)
  <2>1. ASSUME NEW i \in 1 .. n PROVE Contents[i] \in Elements
    BY <1>2, <1>3, <1>6, ElementOfSeq
  <2>2. n \in Nat
    BY <1>3
  <2> QED BY <1>4, <2>1, <2>2, SeqDef
<1>8. IInv'
  <2>1. /\ pool' \in [0 .. buffer_size - 1 -> Elements]
        /\ write_index' \in 0 .. buffer_size - 1 /\ write_mirror' \in {0, 1}
    BY <1>1 DEF IInv, TypeOK
  <2>2. returned' \in 0 .. buffer_size
    BY <1>1, <1>3 DEF n
  <2> QED BY <1>2, <1>7, <2>1, <2>2 DEF IInv, TypeOK
<1>9. Fifo!Smaller(length, Len(Contents)) = n
  BY <1>6 DEF Fifo!Smaller, Smaller, n
<1>10. returned' = n
  BY <1>1 DEF n
<1> QED BY <1>4, <1>5, <1>6, <1>8, <1>9, <1>10 DEF Fifo!Get

LEMMA PutStep ==
  ASSUME IInv, Put
  PROVE  IInv' /\ Fifo!Put
<1>1. PICK s \in Bursts : Stores(s, Smaller(Len(s), space_len))
  BY DEF Put, Stores
<1> DEFINE n == Smaller(Len(s), space_len)
<1>2. /\ n \in 0 .. buffer_size /\ MirrorInv' /\ read_index' = read_index
      /\ write_index' \in 0 .. buffer_size - 1 /\ write_mirror' \in {0, 1}
  BY <1>1, PutIndices
<1>3. pool' \in [0 .. buffer_size - 1 -> Elements]
  BY <1>1, PutPool
<1>4. /\ returned' = n /\ copied' \in Seq(Elements)
      /\ read_index' \in 0 .. buffer_size - 1 /\ read_mirror' \in {0, 1}
  BY <1>1 DEF Stores, IInv, TypeOK
<1>5. IInv'
  BY <1>2, <1>3, <1>4 DEF IInv, TypeOK
<1>6. Fifo!Put
  BY <1>1, PutImplements
<1> QED BY <1>5, <1>6

LEMMA ResetStep ==
  ASSUME IInv, Reset
  PROVE  IInv' /\ Fifo!Reset
<1> USE SizeAssumption
<1>1. IInv'
  <2>1. copied' \in Seq(Elements)
    BY DEF Reset
  <2> QED BY <2>1 DEF Reset, IInv, TypeOK, MirrorInv
<1>2. Contents' = <<>>
  <2>1. data_len' = 0
    BY DEF Reset, data_len
  <2> QED BY <2>1 DEF Contents
<1> QED BY <1>1, <1>2 DEF Reset, Fifo!Reset

LEMMA StepIInv ==
  ASSUME IInv, [Next]_vars
  PROVE  IInv' /\ [Fifo!Next]_(Fifo!vars)
<1>1. CASE Put
  BY <1>1, PutStep DEF Fifo!Next
<1>2. CASE Get
  BY <1>2, GetStep DEF Fifo!Next
<1>3. CASE Reset
  BY <1>3, ResetStep DEF Fifo!Next
<1>4. CASE UNCHANGED vars
  <2>1. Contents' = Contents
    BY <1>4 DEF vars, indices, Contents, data_len
  <2>2. IInv'
    BY <1>4 DEF vars, indices, IInv, TypeOK, MirrorInv
  <2> QED BY <1>4, <2>1, <2>2 DEF vars, Fifo!vars
<1> QED BY <1>1, <1>2, <1>3, <1>4 DEF Next

LEMMA InitFifo == Init => Fifo!Init
<1> SUFFICES ASSUME Init PROVE Fifo!Init
  OBVIOUS
<1>1. Contents = <<>>
  BY DEF Init, Contents, data_len
<1> QED BY <1>1 DEF Init, Fifo!Init

LEMMA Invariant == Spec => []IInv
<1>1. IInv /\ [Next]_vars => IInv'
  BY StepIInv
<1> QED BY <1>1, InitIInv, PTL DEF Spec
-----------------------------------------------------------------------------
\* The indices of the ring buffer never leave its pool.
THEOREM TypeCorrect == Spec => []TypeOK
<1>1. IInv => TypeOK
  BY DEF IInv
<1> QED BY <1>1, Invariant, PTL

\* The mirror bits always tell on which side of the reader the writer is.
THEOREM MirrorConsistent == Spec => []MirrorInv
<1>1. IInv => MirrorInv
  BY DEF IInv
<1> QED BY <1>1, Invariant, PTL

\* win32device_ringbuffer_put, _get and _reset implement a bounded queue: what
\* port->read hands out is what was put, in order, without gap or repetition.
THEOREM Implements == Spec => ImplementsFifo
<1>1. IInv /\ [Next]_vars => [Fifo!Next]_(Fifo!vars)
  BY StepIInv
<1> QED BY <1>1, InitFifo, Invariant, PTL DEF Spec, ImplementsFifo, Fifo!Spec
=============================================================================
