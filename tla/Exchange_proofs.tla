--------------------------- MODULE Exchange_proofs ---------------------------
(***************************************************************************)
(* The bytes say what the records say: whatever is asked for and whatever  *)
(* the tables hold, the slave reads out of a request what the master was   *)
(* called with, and the master makes of the answer what Pdu makes of it.   *)
(***************************************************************************)
EXTENDS Exchange, SequenceTheorems, WellFoundedInduction, TLAPS

-----------------------------------------------------------------------------
(***************************************************************************)
(* Words and bits.  The provers are given the bounds of the two intervals, *)
(* which they would otherwise write out.                                   *)
(***************************************************************************)
LEMMA BytesAre == \A x : x \in Byte <=> x \in Nat /\ x < 256
<1> DEFINE top == 255
<1>1. top \in Nat /\ \A x \in Nat : x <= top <=> x < 256
  OBVIOUS
<1> HIDE DEF top
<1>2. \A x : x \in 0 .. top <=> x \in Nat /\ x <= top
  BY <1>1
<1>3. Byte = 0 .. top
  BY DEF Byte, top
<1> QED BY <1>1, <1>2, <1>3, Zenon

LEMMA WordsAre == \A x : x \in UInt16 <=> x \in Nat /\ x < 65536
<1> DEFINE top == 65535
<1>1. top \in Nat /\ \A x \in Nat : x <= top <=> x < 65536
  OBVIOUS
<1> HIDE DEF top
<1>2. \A x : x \in 0 .. top <=> x \in Nat /\ x <= top
  BY <1>1
<1>3. UInt16 = 0 .. top
  BY DEF UInt16, top
<1> QED BY <1>1, <1>2, <1>3

LEMMA HiLo ==
  ASSUME NEW n \in UInt16
  PROVE  Hi(n) \in Byte /\ Lo(n) \in Byte /\ 256 * Hi(n) + Lo(n) = n
BY BytesAre, WordsAre DEF Hi, Lo

LEMMA WordRange ==
  ASSUME NEW a \in Byte, NEW b \in Byte
  PROVE  256 * a + b \in UInt16
BY BytesAre, WordsAre

LEMMA BitRange ==
  ASSUME NEW byte \in Byte, NEW k \in 0 .. 7
  PROVE  Bit(byte, k) \in {0, 1}
<1>1. k + 1 \in 1 .. 8 /\ Weight[k + 1] \in {1, 2, 4, 8, 16, 32, 64, 128}
  BY DEF Weight
<1> QED BY <1>1, BytesAre DEF Bit

\* Eight bits make a byte, and the byte has these bits.
LEMMA BitsOfByte ==
  ASSUME NEW a \in [0 .. 7 -> {0, 1}], NEW n
  PROVE  n = a[0] + 2 * a[1] + 4 * a[2] + 8 * a[3] + 16 * a[4] + 32 * a[5] + 64 * a[6] + 128 * a[7]
           => n \in Byte /\ \A k \in 0 .. 7 : Bit(n, k) = a[k]
<1>0. SUFFICES ASSUME n = a[0] + 2 * a[1] + 4 * a[2] + 8 * a[3]
                            + 16 * a[4] + 32 * a[5] + 64 * a[6] + 128 * a[7]
               PROVE  n \in Byte /\ \A k \in 0 .. 7 : Bit(n, k) = a[k]
  OBVIOUS
<1> DEFINE b0 == a[0] b1 == a[1] b2 == a[2] b3 == a[3]
           b4 == a[4] b5 == a[5] b6 == a[6] b7 == a[7]
<1>1. /\ b0 \in {0, 1} /\ b1 \in {0, 1} /\ b2 \in {0, 1} /\ b3 \in {0, 1}
      /\ b4 \in {0, 1} /\ b5 \in {0, 1} /\ b6 \in {0, 1} /\ b7 \in {0, 1}
      /\ n = b0 + 2 * b1 + 4 * b2 + 8 * b3 + 16 * b4 + 32 * b5 + 64 * b6 + 128 * b7
  BY <1>0
<1>6. \A k \in 0 .. 7 : k \in {0, 1, 2, 3, 4, 5, 6, 7}
  OBVIOUS
<1> HIDE DEF b0, b1, b2, b3, b4, b5, b6, b7
<1>2. n \in Byte
  BY <1>1, BytesAre
<1>3. /\ Bit(n, 0) = n % 2 /\ Bit(n, 1) = (n \div 2) % 2
      /\ Bit(n, 2) = (n \div 4) % 2 /\ Bit(n, 3) = (n \div 8) % 2
      /\ Bit(n, 4) = (n \div 16) % 2 /\ Bit(n, 5) = (n \div 32) % 2
      /\ Bit(n, 6) = (n \div 64) % 2 /\ Bit(n, 7) = (n \div 128) % 2
  BY <1>2, BytesAre DEF Bit, Weight
<1>4. /\ n % 2 = b0 /\ (n \div 2) % 2 = b1
      /\ (n \div 4) % 2 = b2 /\ (n \div 8) % 2 = b3
  BY <1>1
<1>5. /\ (n \div 16) % 2 = b4 /\ (n \div 32) % 2 = b5
      /\ (n \div 64) % 2 = b6 /\ (n \div 128) % 2 = b7
  BY <1>1
<1> QED BY <1>2, <1>3, <1>4, <1>5, <1>6 DEF b0, b1, b2, b3, b4, b5, b6, b7

-----------------------------------------------------------------------------
(***************************************************************************)
(* Coils and registers.                                                    *)
(***************************************************************************)
LEMMA Eights == ASSUME NEW m \in Nat PROVE m % 8 \in 0 .. 7 /\ m \div 8 \in Nat /\ 8 * (m \div 8) + (m % 8) = m
OBVIOUS

\* Coil i is bit (i - 1) % 8 of a byte there is.
LEMMA CoilPlace ==
  ASSUME NEW n \in Nat, NEW i \in 1 .. n
  PROVE  /\ (i - 1) \div 8 + 1 \in 1 .. CoilBytes(n) /\ (i - 1) % 8 \in 0 .. 7
         /\ 8 * ((i - 1) \div 8) + ((i - 1) % 8) = i - 1
<1> DEFINE m == i - 1
<1>1. m \in Nat /\ m < n
  OBVIOUS
<1> HIDE DEF m
<1>2. m \div 8 + 1 \in 1 .. CoilBytes(n)
  <2>1. CASE n % 8 = 0
    BY <1>1, <2>1 DEF CoilBytes
  <2>2. CASE n % 8 # 0
    BY <1>1, <2>2 DEF CoilBytes
  <2> QED BY <2>1, <2>2
<1>3. m % 8 \in 0 .. 7 /\ 8 * (m \div 8) + (m % 8) = m
  BY <1>1, Eights
<1> QED BY <1>2, <1>3 DEF m

LEMMA CoilBytesNat == ASSUME NEW n \in Nat PROVE CoilBytes(n) \in Nat /\ 8 * CoilBytes(n) < n + 8
BY DEF CoilBytes

\* Coils come out of the bytes as they went in, whatever the bytes held before.
LEMMA PackedCoils ==
  ASSUME NEW coils \in Seq({0, 1}), NEW stale \in Byte
  PROVE  /\ Packed(coils, stale) \in Seq(Byte)
         /\ Len(Packed(coils, stale)) = CoilBytes(Len(coils))
         /\ \A i \in 1 .. Len(coils) : dio_get_val(Packed(coils, stale), i - 1) = coils[i]
<1> DEFINE At(b, k) == IF 8 * (b - 1) + k < Len(coils) THEN coils[8 * (b - 1) + k + 1] ELSE Bit(stale, k)
           Sum(b) == At(b, 0) + 2 * At(b, 1) + 4 * At(b, 2) + 8 * At(b, 3)
                       + 16 * At(b, 4) + 32 * At(b, 5) + 64 * At(b, 6) + 128 * At(b, 7)
           N == CoilBytes(Len(coils))
<1>1. Packed(coils, stale) = [b \in 1 .. N |-> Sum(b)]
  BY DEF Packed
<1>2. N \in Nat /\ Len(coils) \in Nat
  BY CoilBytesNat
<1>3. ASSUME NEW b \in 1 .. N, NEW k \in 0 .. 7
      PROVE  At(b, k) \in {0, 1}
  BY <1>2, BitRange
<1>4. ASSUME NEW b \in 1 .. N
      PROVE  Sum(b) \in Byte /\ \A k \in 0 .. 7 : Bit(Sum(b), k) = At(b, k)
  <2> DEFINE a == [k \in 0 .. 7 |-> At(b, k)]
  <2>1. a \in [0 .. 7 -> {0, 1}] /\ \A k \in 0 .. 7 : a[k] = At(b, k)
    BY <1>3
  <2>2. Sum(b) = a[0] + 2 * a[1] + 4 * a[2] + 8 * a[3] + 16 * a[4] + 32 * a[5] + 64 * a[6] + 128 * a[7]
    <3> HIDE DEF a, At
    <3> QED BY <2>1
  <2> HIDE DEF a, Sum, At
  <2> QED BY <2>1, <2>2, BitsOfByte
<1>5. ASSUME NEW i \in 1 .. Len(coils)
      PROVE  dio_get_val(Packed(coils, stale), i - 1) = coils[i]
  <2> DEFINE b == (i - 1) \div 8 + 1
             k == (i - 1) % 8
  <2>1. b \in 1 .. N /\ k \in 0 .. 7 /\ 8 * (b - 1) + k = i - 1
    BY <1>2, CoilPlace
  <2>2. dio_get_val(Packed(coils, stale), i - 1) = Bit(Packed(coils, stale)[b], k)
    BY DEF dio_get_val
  <2> HIDE DEF b, k
  <2>3. Bit(Sum(b), k) = At(b, k) /\ Packed(coils, stale)[b] = Sum(b)
    BY <1>1, <1>4, <2>1
  <2>4. At(b, k) = coils[i]
    BY <2>1
  <2> QED BY <2>2, <2>3, <2>4
<1>6. Packed(coils, stale) \in Seq(Byte) /\ Len(Packed(coils, stale)) = N
  <2> HIDE DEF Sum, N
  <2>1. [b \in 1 .. N |-> Sum(b)] \in Seq(Byte)
    BY <1>2, <1>4, IsASeq
  <2>2. Len([b \in 1 .. N |-> Sum(b)]) = N
    BY <1>2, <2>1, LenProperties
  <2> QED BY <1>1, <2>1, <2>2
<1> QED BY <1>5, <1>6

\* Registers come out of the bytes as they went in.
LEMMA BigEndian ==
  ASSUME NEW words \in Seq(UInt16)
  PROVE  /\ modbus_reg_h2m(words) \in Seq(Byte)
         /\ Len(modbus_reg_h2m(words)) = 2 * Len(words)
         /\ \A i \in 1 .. Len(words) : Word(modbus_reg_h2m(words), 2 * i - 1) = words[i]
<1> DEFINE N == 2 * Len(words)
           Half(b) == IF b % 2 = 1 THEN Hi(words[(b + 1) \div 2]) ELSE Lo(words[(b + 1) \div 2])
<1>1. modbus_reg_h2m(words) = [b \in 1 .. N |-> Half(b)]
  BY DEF modbus_reg_h2m
<1>2. N \in Nat /\ Len(words) \in Nat
  OBVIOUS
<1>3. ASSUME NEW b \in 1 .. N PROVE Half(b) \in Byte
  <2>1. (b + 1) \div 2 \in 1 .. Len(words)
    BY <1>2
  <2>2. words[(b + 1) \div 2] \in UInt16
    BY <2>1
  <2> QED BY <2>2, HiLo
<1>4. modbus_reg_h2m(words) \in Seq(Byte) /\ Len(modbus_reg_h2m(words)) = N
  <2> HIDE DEF Half, N
  <2>1. [b \in 1 .. N |-> Half(b)] \in Seq(Byte)
    BY <1>2, <1>3, IsASeq
  <2>2. Len([b \in 1 .. N |-> Half(b)]) = N
    BY <1>2, <2>1, LenProperties
  <2> QED BY <1>1, <2>1, <2>2
<1>5. ASSUME NEW i \in 1 .. Len(words)
      PROVE  Word(modbus_reg_h2m(words), 2 * i - 1) = words[i]
  <2>1. /\ 2 * i - 1 \in 1 .. N /\ (2 * i - 1) + 1 \in 1 .. N
        /\ (2 * i - 1) % 2 = 1 /\ ((2 * i - 1) + 1) % 2 = 0
        /\ ((2 * i - 1) + 1) \div 2 = i /\ (((2 * i - 1) + 1) + 1) \div 2 = i
    BY <1>2
  <2>2. Half(2 * i - 1) = Hi(words[i]) /\ Half((2 * i - 1) + 1) = Lo(words[i])
    BY <2>1
  <2>3. /\ modbus_reg_h2m(words)[2 * i - 1] = Hi(words[i])
        /\ modbus_reg_h2m(words)[(2 * i - 1) + 1] = Lo(words[i])
    <3> HIDE DEF Half, N
    <3> QED BY <1>1, <2>1, <2>2
  <2> QED BY <2>3, HiLo DEF Word
<1> QED BY <1>4, <1>5

-----------------------------------------------------------------------------
(***************************************************************************)
(* The checksum.  Its loop is a recursive function of the bytes taken in:  *)
(* that there is one, and what holds of all its values, is proved by the   *)
(* least count for which it would not be so.                               *)
(***************************************************************************)
Less == {p \in Nat \X Nat : p[1] < p[2]}

LEMMA Counting ==
  ASSUME NEW N \in Nat, NEW T, 0 \in T, \A n \in 1 .. N : n - 1 \in T => n \in T
  PROVE  \A n \in 0 .. N : n \in T
<1> DEFINE Left == {n \in 0 .. N : n \notin T}
<1>1. SUFFICES ASSUME Left # {} PROVE FALSE
  OBVIOUS
<1>2. IsWellFoundedOn(Less, Nat)
  BY NatLessThanWellFounded DEF OpToRel, Less
<1>3. Left \subseteq Nat
  OBVIOUS
<1> HIDE DEF Left
<1>4. PICK m \in Left : \A n \in Left : ~ (<<n, m>> \in Less)
  BY <1>1, <1>2, <1>3, WFMin
<1>5. m \in 1 .. N /\ m \notin T
  BY DEF Left
<1>6. m - 1 \in Left
  BY <1>5 DEF Left
<1>7. <<m - 1, m>> \in Less
  BY <1>5 DEF Less
<1> QED BY <1>4, <1>6, <1>7

LEMMA BitsMakeByte ==
  ASSUME NEW a \in Byte, NEW b \in Byte, \A k \in 0 .. 7 : Bit(a, k) = Bit(b, k)
  PROVE  a = b
<1>1. \A x \in Byte :
        x = (x % 2) + 2 * ((x \div 2) % 2) + 4 * ((x \div 4) % 2) + 8 * ((x \div 8) % 2)
              + 16 * ((x \div 16) % 2) + 32 * ((x \div 32) % 2) + 64 * ((x \div 64) % 2)
              + 128 * ((x \div 128) % 2)
  <2> TAKE x \in Byte
  <2> DEFINE h1 == x \div 2   h2 == x \div 4   h3 == x \div 8   h4 == x \div 16
             h5 == x \div 32  h6 == x \div 64  h7 == x \div 128
  <2>1. x \in Nat /\ x < 256
    BY BytesAre
  <2>2. /\ x = 2 * h1 + (x % 2) /\ h1 = 2 * h2 + (h1 % 2) /\ h2 = 2 * h3 + (h2 % 2)
        /\ h3 = 2 * h4 + (h3 % 2)
    BY <2>1
  <2>3. /\ h4 = 2 * h5 + (h4 % 2) /\ h5 = 2 * h6 + (h5 % 2) /\ h6 = 2 * h7 + (h6 % 2)
        /\ h7 = h7 % 2
    BY <2>1
  <2>4. h1 \in Int /\ h2 \in Int /\ h3 \in Int /\ h4 \in Int /\ h5 \in Int /\ h6 \in Int /\ h7 \in Int
    BY <2>1
  <2>5. /\ x % 2 \in Int /\ h1 % 2 \in Int /\ h2 % 2 \in Int /\ h3 % 2 \in Int
        /\ h4 % 2 \in Int /\ h5 % 2 \in Int /\ h6 % 2 \in Int /\ h7 % 2 \in Int
    BY <2>1
  <2> HIDE DEF h1, h2, h3, h4, h5, h6, h7
  <2>6. x = (x % 2) + 2 * (h1 % 2) + 4 * (h2 % 2) + 8 * (h3 % 2)
              + 16 * (h4 % 2) + 32 * (h5 % 2) + 64 * (h6 % 2) + 128 * (h7 % 2)
    BY <2>1, <2>2, <2>3, <2>4, <2>5
  <2> QED BY <2>6 DEF h1, h2, h3, h4, h5, h6, h7
<1>2. \A x \in Byte :
        /\ Bit(x, 0) = x % 2 /\ Bit(x, 1) = (x \div 2) % 2
        /\ Bit(x, 2) = (x \div 4) % 2 /\ Bit(x, 3) = (x \div 8) % 2
        /\ Bit(x, 4) = (x \div 16) % 2 /\ Bit(x, 5) = (x \div 32) % 2
        /\ Bit(x, 6) = (x \div 64) % 2 /\ Bit(x, 7) = (x \div 128) % 2
  BY BytesAre DEF Bit, Weight
<1> QED BY <1>1, <1>2

LEMMA XorBits ==
  ASSUME NEW a \in Byte, NEW b \in Byte
  PROVE  /\ Xor(a, b) \in Byte
         /\ \A k \in 0 .. 7 : Bit(Xor(a, b), k) = (Bit(a, k) + Bit(b, k)) % 2
<1> DEFINE s == [k \in 0 .. 7 |-> (Bit(a, k) + Bit(b, k)) % 2]
<1>1. s \in [0 .. 7 -> {0, 1}]
  BY BitRange
<1>2. Xor(a, b) = s[0] + 2 * s[1] + 4 * s[2] + 8 * s[3] + 16 * s[4] + 32 * s[5] + 64 * s[6] + 128 * s[7]
  BY DEF Xor
<1>3. \A k \in 0 .. 7 : s[k] = (Bit(a, k) + Bit(b, k)) % 2
  OBVIOUS
<1> HIDE DEF s
<1> QED BY <1>1, <1>2, <1>3, BitsOfByte

\* Bytes that differ still differ when the same byte meets them.
LEMMA XorKeepsApart ==
  ASSUME NEW a \in Byte, NEW b \in Byte, NEW x \in Byte
  PROVE  Xor(x, a) = Xor(x, b) => a = b
<1>1. SUFFICES ASSUME Xor(x, a) = Xor(x, b) PROVE a = b
  OBVIOUS
<1>2. ASSUME NEW k \in 0 .. 7 PROVE Bit(a, k) = Bit(b, k)
  <2>1. (Bit(x, k) + Bit(a, k)) % 2 = (Bit(x, k) + Bit(b, k)) % 2
    BY <1>1, XorBits
  <2>2. Bit(x, k) \in {0, 1} /\ Bit(a, k) \in {0, 1} /\ Bit(b, k) \in {0, 1}
    BY BitRange
  <2> QED BY <2>1, <2>2
<1> QED BY <1>2, BitsMakeByte

LEMMA XorCommutes ==
  ASSUME NEW a \in Byte, NEW b \in Byte
  PROVE  Xor(a, b) = Xor(b, a)
<1>1. \A k \in 0 .. 7 : Bit(a, k) \in {0, 1} /\ Bit(b, k) \in {0, 1}
  BY BitRange
<1>2. \A k \in 0 .. 7 : Bit(Xor(a, b), k) = Bit(Xor(b, a), k)
  BY <1>1, XorBits
<1> QED BY <1>2, XorBits, BitsMakeByte

\* A shift loses nothing: the bit it drops is the highest of what it leaves.
LEMMA ShiftKeepsApart ==
  /\ \A c \in UInt16 : Shift(c) \in UInt16
  /\ \A c, d \in UInt16 : Shift(c) = Shift(d) => c = d
<1> DEFINE Halves == {n \in Nat : n < 32768}
           A(h) == Flip(h, 8192)
           B(h) == Flip(h, 1)
           Odd(h) == Flip(Flip(Flip(h, 32768), 8192), 1)
<1>1. \A h \in Halves : Flip(h, 32768) = h + 32768
  BY DEF Flip
<1>2. \A h \in Halves : A(h) \in Halves /\ Flip(h + 32768, 8192) = A(h) + 32768
  BY DEF Flip
<1>3. \A h \in Halves : B(h) \in Halves /\ Flip(h + 32768, 1) = B(h) + 32768
  BY DEF Flip
<1>4. \A h, k \in Halves : /\ A(h) = A(k) => h = k
                           /\ B(h) = B(k) => h = k
  BY DEF Flip
<1>5. \A c \in UInt16 : /\ c \div 2 \in Halves /\ c = 2 * (c \div 2) + (c % 2) /\ c % 2 \in {0, 1}
                        /\ c \div 2 \in Int
  BY WordsAre
<1>6. \A n \in Halves : /\ n \in Nat /\ n < 32768
                        /\ n \in UInt16 /\ n + 32768 \in UInt16
  BY WordsAre
<1>7. \A c \in UInt16 : Shift(c) = IF c % 2 = 1 THEN Odd(c \div 2) ELSE c \div 2
  BY DEF Shift
<1> HIDE DEF Halves, A, B
<1>8. \A h \in Halves : Odd(h) = B(A(h)) + 32768
  <2> TAKE h \in Halves
  <2>1. Flip(Flip(h, 32768), 8192) = A(h) + 32768
    BY <1>1, <1>2
  <2>2. A(h) \in Halves
    BY <1>2
  <2> QED BY <1>3, <2>1, <2>2
<1> HIDE DEF Odd
<1>9. \A c \in UInt16 : Shift(c) = IF c % 2 = 1 THEN B(A(c \div 2)) + 32768 ELSE c \div 2
  BY <1>5, <1>7, <1>8
<1>10. \A h \in Halves : B(A(h)) \in Halves
  BY <1>2, <1>3
<1>11. \A h, k \in Halves : B(A(h)) = B(A(k)) => h = k
  BY <1>2, <1>4
<1>12. \A c \in UInt16 : Shift(c) \in UInt16
  BY <1>5, <1>6, <1>9, <1>10
<1>13. ASSUME NEW c \in UInt16, NEW d \in UInt16, Shift(c) = Shift(d)
       PROVE  c = d
  <2> DEFINE h == c \div 2   u == B(A(h))   m == c % 2
             k == d \div 2   v == B(A(k))   n == d % 2
  <2>1. /\ h \in Halves /\ k \in Halves /\ u \in Halves /\ v \in Halves
        /\ h \in Nat /\ h < 32768 /\ k \in Nat /\ k < 32768 /\ u \in Nat /\ v \in Nat
    BY <1>5, <1>6, <1>10
  <2>2. /\ (IF m = 1 THEN u + 32768 ELSE h) = (IF n = 1 THEN v + 32768 ELSE k)
        /\ u = v => h = k
    BY <1>9, <1>11, <1>13, <2>1
  <2>3. c = 2 * h + m /\ d = 2 * k + n /\ m \in {0, 1} /\ n \in {0, 1}
    BY <1>5
  <2> HIDE DEF h, u, m, k, v, n
  <2>4. m = n
    BY <2>1, <2>2, <2>3
  <2>5. h = k
    BY <2>1, <2>2, <2>3, <2>4
  <2> QED BY <2>3, <2>4, <2>5
<1> QED BY <1>12, <1>13

LEMMA ShiftedKeepsApart ==
  /\ \A c \in UInt16 : Shifted[c] \in UInt16
  /\ \A c, d \in UInt16 : Shifted[c] = Shifted[d] => c = d
<1> DEFINE S2(c) == Shift(Shift(c))
           S4(c) == S2(S2(c))
           S8(c) == S4(S4(c))
<1>1. /\ \A c \in UInt16 : S2(c) \in UInt16
      /\ \A c, d \in UInt16 : S2(c) = S2(d) => c = d
  BY ShiftKeepsApart
<1>2. \A c \in UInt16 : Shifted[c] = S8(c)
  BY DEF Shifted
<1> HIDE DEF S2
<1>3. /\ \A c \in UInt16 : S4(c) \in UInt16
      /\ \A c, d \in UInt16 : S4(c) = S4(d) => c = d
  BY <1>1
<1> HIDE DEF S4
<1>4. /\ \A c \in UInt16 : S8(c) \in UInt16
      /\ \A c, d \in UInt16 : S8(c) = S8(d) => c = d
  BY <1>3
<1> HIDE DEF S8
<1> QED BY <1>2, <1>4

\* What a byte makes of CRC tells both CRC, knowing the byte, and the byte, knowing
\* CRC.
LEMMA FedKeepsApart ==
  ASSUME NEW c \in UInt16, NEW d \in UInt16, NEW a \in Byte, NEW b \in Byte
  PROVE  /\ Fed(c, a) \in UInt16
         /\ Fed(c, a) = Fed(d, a) => c = d
         /\ Fed(c, a) = Fed(c, b) => a = b
<1> DEFINE In(x, y) == 256 * (x \div 256) + Xor(x % 256, y)
<1>1. \A x \in UInt16 : x \div 256 \in Byte /\ x % 256 \in Byte /\ x = 256 * (x \div 256) + (x % 256)
  BY WordsAre, BytesAre
<1>2. \A x \in UInt16, y \in Byte : Xor(x % 256, y) \in Byte
  BY <1>1, XorBits
<1>3. \A x \in UInt16, y \in Byte : Fed(x, y) = Shifted[In(x, y)]
  BY DEF Fed
<1>4. \A h, k, l, m \in Byte : 256 * h + l \in UInt16 /\ (256 * h + l = 256 * k + m => h = k /\ l = m)
  BY BytesAre, WordsAre
<1>5. \A x, z \in UInt16, y, w \in Byte :
        /\ In(x, y) \in UInt16
        /\ In(x, y) = In(z, w) => x \div 256 = z \div 256 /\ Xor(x % 256, y) = Xor(z % 256, w)
  <2> TAKE x, z \in UInt16, y, w \in Byte
  <2> DEFINE h == x \div 256   l == Xor(x % 256, y)
             k == z \div 256   m == Xor(z % 256, w)
  <2>1. h \in Byte /\ l \in Byte /\ k \in Byte /\ m \in Byte
    BY <1>1, <1>2
  <2>2. In(x, y) = 256 * h + l /\ In(z, w) = 256 * k + m
    OBVIOUS
  <2> HIDE DEF h, l, k, m, In
  <2>3. 256 * h + l \in UInt16 /\ (256 * h + l = 256 * k + m => h = k /\ l = m)
    BY <1>4, <2>1
  <2>4. In(x, y) \in UInt16 /\ (In(x, y) = In(z, w) => h = k /\ l = m)
    BY <2>2, <2>3
  <2> QED BY <2>4 DEF h, l, k, m
<1> HIDE DEF In
<1>6. \A x, z \in UInt16, y, w \in Byte :
        Fed(x, y) = Fed(z, w) => x \div 256 = z \div 256 /\ Xor(x % 256, y) = Xor(z % 256, w)
  <2> SUFFICES ASSUME NEW x \in UInt16, NEW z \in UInt16, NEW y \in Byte, NEW w \in Byte,
                      Fed(x, y) = Fed(z, w)
               PROVE  x \div 256 = z \div 256 /\ Xor(x % 256, y) = Xor(z % 256, w)
    BY Zenon
  <2>1. Shifted[In(x, y)] = Shifted[In(z, w)]
    BY <1>3
  <2>2. In(x, y) \in UInt16 /\ In(z, w) \in UInt16
    BY <1>5
  <2>3. In(x, y) = In(z, w)
    BY <2>1, <2>2, ShiftedKeepsApart, Zenon
  <2>4. In(x, y) = In(z, w) => x \div 256 = z \div 256 /\ Xor(x % 256, y) = Xor(z % 256, w)
    BY <1>5
  <2> QED BY <2>3, <2>4, Zenon
<1>7. Fed(c, a) \in UInt16
  BY <1>3, <1>5, ShiftedKeepsApart
<1>8. ASSUME Fed(c, a) = Fed(d, a) PROVE c = d
  <2>1. c \div 256 = d \div 256 /\ Xor(c % 256, a) = Xor(d % 256, a)
    BY <1>6, <1>8
  <2>2. Xor(a, c % 256) = Xor(a, d % 256)
    BY <1>1, <2>1, XorCommutes
  <2>3. c % 256 = d % 256
    BY <1>1, <2>2, XorKeepsApart
  <2> QED BY <1>1, <2>1, <2>3
<1>9. ASSUME Fed(c, a) = Fed(c, b) PROVE a = b
  <2>1. Xor(c % 256, a) = Xor(c % 256, b)
    BY <1>6, <1>9
  <2> QED BY <1>1, <2>1, XorKeepsApart
<1> QED BY <1>7, <1>8, <1>9

Loop(r, buffer) ==
  [n \in 0 .. Len(buffer) |-> IF n = 0 THEN 65535 ELSE Fed(r[n - 1], buffer[n])]

LEMMA RegistersExist ==
  ASSUME NEW buffer \in Seq(Byte)
  PROVE  \E r : r = Loop(r, buffer)
<1> DEFINE N == Len(buffer)
           Up(n, r) == /\ r[0] = 65535
                       /\ \A k \in 1 .. n : r[k] = Fed(r[k - 1], buffer[k])
           T == {n \in 0 .. N : \E r \in [0 .. n -> UInt16] : Up(n, r)}
<1>1. N \in Nat /\ \A n \in 1 .. N : buffer[n] \in Byte
  OBVIOUS
<1> HIDE DEF N
<1>2. 0 \in T
  <2> DEFINE r == [n \in 0 .. 0 |-> 65535]
  <2>1. 65535 \in UInt16
    BY WordsAre
  <2>2. r \in [0 .. 0 -> UInt16] /\ Up(0, r)
    BY <2>1
  <2>3. 0 \in 0 .. N
    BY <1>1
  <2> HIDE DEF Up, r
  <2> QED BY <2>2, <2>3, Zenon
<1>3. ASSUME NEW n \in 1 .. N, n - 1 \in T PROVE n \in T
  <2>1. PICK r \in [0 .. n - 1 -> UInt16] : Up(n - 1, r)
    <3> HIDE DEF Up
    <3> QED BY <1>3, Zenon
  <2> DEFINE g == [k \in 0 .. n |-> IF k = n THEN Fed(r[n - 1], buffer[n]) ELSE r[k]]
  <2>2. n \in Nat /\ n >= 1 /\ n - 1 \in 0 .. n - 1
    BY <1>1
  <2>3. Fed(r[n - 1], buffer[n]) \in UInt16
    BY <1>1, <2>2, FedKeepsApart
  <2>4. g \in [0 .. n -> UInt16]
    BY <2>2, <2>3
  <2>5. Up(n, g)
    BY <2>1, <2>2
  <2>6. n \in 0 .. N
    BY <1>1
  <2> HIDE DEF Up, g
  <2> QED BY <2>4, <2>5, <2>6, Zenon
<1>4. N \in T
  <2> HIDE DEF T
  <2>1. \A n \in 0 .. N : n \in T
    BY <1>1, <1>2, <1>3, Counting
  <2> QED BY <1>1, <2>1
<1>5. PICK r \in [0 .. N -> UInt16] : Up(N, r)
  <2> HIDE DEF Up
  <2> QED BY <1>4, Zenon
<1>6. r = Loop(r, buffer)
  <2>1. Loop(r, buffer) = [n \in 0 .. N |-> IF n = 0 THEN 65535 ELSE Fed(r[n - 1], buffer[n])]
    BY DEF Loop, N
  <2>2. \A n \in 0 .. N : r[n] = IF n = 0 THEN 65535 ELSE Fed(r[n - 1], buffer[n])
    BY <1>1, <1>5
  <2> QED BY <2>1, <2>2
<1> QED BY <1>6

\* CRC after n bytes, as the loop computes it.
LEMMA RegistersAre ==
  ASSUME NEW buffer \in Seq(Byte)
  PROVE  /\ Registers(buffer)[0] = 65535
         /\ \A n \in 1 .. Len(buffer) : Registers(buffer)[n] = Fed(Registers(buffer)[n - 1], buffer[n])
         /\ \A n \in 0 .. Len(buffer) : Registers(buffer)[n] \in UInt16
<1> DEFINE R == Registers(buffer)
           N == Len(buffer)
<1>1. R = CHOOSE r : r = Loop(r, buffer)
  BY DEF Registers, Loop
<1>2. R = Loop(R, buffer)
  BY <1>1, RegistersExist, Zenon
<1>3. N \in Nat /\ \A n \in 1 .. N : buffer[n] \in Byte
  OBVIOUS
<1> HIDE DEF R
<1>4. \A n \in 0 .. N : R[n] = IF n = 0 THEN 65535 ELSE Fed(R[n - 1], buffer[n])
  <2> DEFINE S == R
  <2>1. R = Loop(S, buffer)
    BY <1>2
  <2> HIDE DEF S
  <2>2. \A n \in 0 .. N : R[n] = IF n = 0 THEN 65535 ELSE Fed(S[n - 1], buffer[n])
    BY <2>1 DEF Loop
  <2> QED BY <2>2 DEF S
<1> HIDE DEF N
<1>5. R[0] = 65535 /\ \A n \in 1 .. N : R[n] = Fed(R[n - 1], buffer[n])
  <2>1. 0 \in 0 .. N /\ \A n \in 1 .. N : n \in 0 .. N /\ n # 0
    BY <1>3
  <2> QED BY <1>4, <2>1
<1>6. \A n \in 0 .. N : R[n] \in UInt16
  <2> DEFINE T == {n \in 0 .. N : R[n] \in UInt16}
  <2>1. 0 \in T
    BY <1>3, <1>5, WordsAre
  <2>2. ASSUME NEW n \in 1 .. N, n - 1 \in T PROVE n \in T
    <3>1. R[n - 1] \in UInt16 /\ n \in 0 .. N
      BY <1>3, <2>2
    <3>2. R[n] \in UInt16
      BY <1>3, <1>5, <3>1, FedKeepsApart
    <3> QED BY <3>1, <3>2
  <2> HIDE DEF T
  <2>3. \A n \in 0 .. N : n \in T
    BY <1>3, <2>1, <2>2, Counting
  <2> QED BY <2>3 DEF T
<1> QED BY <1>5, <1>6 DEF R, N

LEMMA ChecksumIsWord == \A buffer \in Seq(Byte) : modbus_crc16(buffer) \in UInt16
<1> TAKE buffer \in Seq(Byte)
<1>1. Len(buffer) \in 0 .. Len(buffer)
  OBVIOUS
<1> QED BY <1>1, RegistersAre DEF modbus_crc16

\* modbus_crc16 notices all damage within one byte, in bytes of any number: a round
\* of its loop loses nothing of CRC and nothing of the byte.
THEOREM NoticesOneByte ==
  ASSUME NEW f \in Seq(Byte), NEW g \in Seq(Byte), Len(g) = Len(f), NEW i \in 1 .. Len(f),
         g[i] # f[i], \A j \in 1 .. Len(f) : j # i => g[j] = f[j]
  PROVE  modbus_crc16(g) # modbus_crc16(f)
<1> DEFINE N == Len(f)
           F == Registers(f)
           G == Registers(g)
           T == {n \in 0 .. N : F[n] = G[n] <=> n < i}
<1>1. N \in Nat /\ i \in Nat /\ 1 <= i /\ i <= N /\ \A n \in 1 .. N : f[n] \in Byte /\ g[n] \in Byte
  OBVIOUS
<1>2. /\ F[0] = 65535 /\ G[0] = 65535
      /\ \A n \in 1 .. N : F[n] = Fed(F[n - 1], f[n]) /\ G[n] = Fed(G[n - 1], g[n])
      /\ \A n \in 0 .. N : F[n] \in UInt16 /\ G[n] \in UInt16
  BY RegistersAre
<1>3. modbus_crc16(f) = F[N] /\ modbus_crc16(g) = G[N]
  BY DEF modbus_crc16
<1>4. g[i] # f[i] /\ \A j \in 1 .. N : j # i => g[j] = f[j]
  OBVIOUS
<1> HIDE DEF N, F, G
<1>5. 0 \in T
  BY <1>1, <1>2
<1>6. ASSUME NEW n \in 1 .. N, n - 1 \in T PROVE n \in T
  <2>1. n - 1 \in 0 .. N /\ n \in 0 .. N /\ (F[n - 1] = G[n - 1] <=> n - 1 < i)
    BY <1>1, <1>6
  <2>2. /\ F[n - 1] \in UInt16 /\ G[n - 1] \in UInt16 /\ f[n] \in Byte /\ g[n] \in Byte
        /\ F[n] = Fed(F[n - 1], f[n]) /\ G[n] = Fed(G[n - 1], g[n])
    BY <1>1, <1>2, <2>1
  <2>3. CASE n < i
    <3>1. F[n - 1] = G[n - 1] /\ f[n] = g[n]
      BY <1>1, <1>4, <2>1, <2>3
    <3> QED BY <2>1, <2>2, <2>3, <3>1
  <2>4. CASE n = i
    <3>1. F[n - 1] = G[n - 1] /\ f[n] # g[n]
      BY <1>1, <1>4, <2>1, <2>4
    <3>2. F[n] # G[n]
      BY <2>2, <3>1, FedKeepsApart
    <3> QED BY <1>1, <2>1, <2>4, <3>2
  <2>5. CASE n > i
    <3>1. F[n - 1] # G[n - 1] /\ f[n] = g[n]
      BY <1>1, <1>4, <2>1, <2>5
    <3>2. F[n] # G[n]
      BY <2>2, <3>1, FedKeepsApart
    <3> QED BY <1>1, <2>1, <2>5, <3>2
  <2> QED BY <1>1, <2>3, <2>4, <2>5
<1>7. N \in T
  <2> HIDE DEF T
  <2>1. \A n \in 0 .. N : n \in T
    BY <1>1, <1>5, <1>6, Counting
  <2> QED BY <1>1, <2>1
<1> QED BY <1>1, <1>3, <1>7

-----------------------------------------------------------------------------
(***************************************************************************)
(* Frames.  What is put between a header and a checksum is found there.    *)
(***************************************************************************)
LEMMA Middle ==
  ASSUME NEW S, NEW h \in Seq(S), NEW s \in Seq(S), NEW t \in Seq(S)
  PROVE  SubSeq((h \o s) \o t, Len(h) + 1, Len(h) + Len(s)) = s
<1> DEFINE w == (h \o s) \o t
           m == Len(h) + 1
           n == Len(h) + Len(s)
<1>1. /\ h \o s \in Seq(S) /\ Len(h \o s) = n
      /\ \A i \in 1 .. n : (h \o s)[i] = IF i <= Len(h) THEN h[i] ELSE s[i - Len(h)]
  BY ConcatProperties
<1>2. /\ w \in Seq(S) /\ Len(w) = n + Len(t)
      /\ \A i \in 1 .. n : w[i] = (h \o s)[i]
  BY <1>1, ConcatProperties
<1>3. \A i \in 1 .. Len(s) : w[Len(h) + i] = s[i]
  <2> HIDE DEF w
  <2> QED BY <1>1, <1>2
<1>4. \A i \in m .. n : w[i] \in S
  <2> HIDE DEF w
  <2> QED BY <1>2
<1>5. /\ SubSeq(w, m, n) \in Seq(S)
      /\ Len(SubSeq(w, m, n)) = IF m <= n THEN n - m + 1 ELSE 0
      /\ \A i \in 1 .. n - m + 1 : SubSeq(w, m, n)[i] = w[m + i - 1]
  <2> HIDE DEF w
  <2>1. m \in Int /\ n \in Int
    OBVIOUS
  <2> HIDE DEF m, n
  <2> QED BY <1>4, <2>1, SubSeqProperties
<1>6. Len(SubSeq(w, m, n)) = Len(s) /\ \A i \in 1 .. Len(s) : SubSeq(w, m, n)[i] = s[i]
  <2> HIDE DEF w
  <2> QED BY <1>3, <1>5
<1> HIDE DEF w, m, n
<1>7. SubSeq(w, m, n) = s
  BY <1>5, <1>6, SeqEqual
<1> QED BY <1>7 DEF w, m, n

\* A frame is whole, is for the slave in its header, and carries what was put
\* into it, and over TCP the identifier.
Carries(f, c, tid, slave, p) ==
  /\ f \in Seq(Byte) /\ Len(f) = c.len_header + Len(p) + c.len_checksum
  /\ pdu(c, f) = p
  /\ Intact(c, f)
  /\ f[c.len_header] = slave
  /\ c = TcpCore => Word(f, 1) = tid

LEMMA SerialFrame ==
  ASSUME NEW tid \in UInt16, NEW slave \in Byte, NEW p \in Seq(Byte)
  PROVE  Carries(check_send_pre(RtuCore, header(RtuCore, tid, slave) \o p), RtuCore, tid, slave, p)
<1> DEFINE h == <<slave>>
           sum == modbus_crc16(h \o p)
           t == <<Lo(sum), Hi(sum)>>
           f == (h \o p) \o t
<1>1. check_send_pre(RtuCore, header(RtuCore, tid, slave) \o p) = f
  BY DEF check_send_pre, header
<1>2. h \in Seq(Byte) /\ Len(h) = 1 /\ h[1] = slave
  OBVIOUS
<1>3. /\ h \o p \in Seq(Byte) /\ Len(h \o p) = Len(p) + 1 /\ (h \o p)[1] = slave
  BY <1>2, ConcatProperties
<1>4. sum \in UInt16
  BY <1>3, ChecksumIsWord
<1>5. t \in Seq(Byte) /\ Len(t) = 2 /\ t[1] = Lo(sum) /\ t[2] = Hi(sum)
  BY <1>4, HiLo
<1>6. /\ f \in Seq(Byte) /\ Len(f) = Len(p) + 3
      /\ f[1] = slave /\ f[Len(p) + 2] = Lo(sum) /\ f[Len(p) + 3] = Hi(sum)
  <2> DEFINE b == h \o p
  <2>1. b \in Seq(Byte) /\ Len(b) = Len(p) + 1 /\ b[1] = slave /\ Len(p) \in Nat
    BY <1>3
  <2> HIDE DEF b, t, sum
  <2>2. /\ b \o t \in Seq(Byte) /\ Len(b \o t) = Len(b) + Len(t)
        /\ \A i \in 1 .. Len(b) + Len(t) : (b \o t)[i] = IF i <= Len(b) THEN b[i] ELSE t[i - Len(b)]
    BY <2>1, <1>5, ConcatProperties
  <2>3. f = b \o t
    BY DEF b
  <2> HIDE DEF f
  <2>4. /\ f \in Seq(Byte) /\ Len(f) = Len(p) + 3
        /\ \A i \in 1 .. Len(p) + 3 : f[i] = IF i <= Len(p) + 1 THEN b[i] ELSE t[i - (Len(p) + 1)]
    BY <1>5, <2>1, <2>2, <2>3
  <2>5. /\ 1 \in 1 .. Len(p) + 3 /\ 1 <= Len(p) + 1
        /\ Len(p) + 2 \in 1 .. Len(p) + 3 /\ ~ Len(p) + 2 <= Len(p) + 1
        /\ Len(p) + 3 \in 1 .. Len(p) + 3 /\ ~ Len(p) + 3 <= Len(p) + 1
        /\ (Len(p) + 2) - (Len(p) + 1) = 1 /\ (Len(p) + 3) - (Len(p) + 1) = 2
    BY <2>1
  <2>6. f[1] = b[1] /\ f[Len(p) + 2] = t[1] /\ f[Len(p) + 3] = t[2]
    BY <2>4, <2>5
  <2> QED BY <1>5, <2>1, <2>4, <2>6
<1>7. SubSeq(f, 2, Len(p) + 1) = p
  <2> HIDE DEF h, t
  <2>1. SubSeq((h \o p) \o t, Len(h) + 1, Len(h) + Len(p)) = p
    BY <1>2, <1>5, Middle
  <2>2. Len(h) + 1 = 2 /\ Len(h) + Len(p) = Len(p) + 1
    BY <1>2
  <2> QED BY <2>1, <2>2
<1>8. SubSeq(f, 1, Len(p) + 1) = h \o p
  <2> HIDE DEF h, t
  <2> DEFINE b == h \o p
  <2>1. SubSeq(b \o t, 1, Len(b)) = SubSeq(b, 1, Len(b))
    BY <1>3, <1>5, SubSeqOfConcat1
  <2>2. SubSeq(b, 1, Len(b)) = b
    BY <1>3, SubSeqFull
  <2> QED BY <1>3, <2>1, <2>2
<1>9. f[Len(p) + 2] + 256 * f[Len(p) + 3] = sum
  <2> HIDE DEF f, sum
  <2> QED BY <1>4, <1>6, HiLo, BytesAre
<1> HIDE DEF f
<1>10. /\ Len(f) - RtuCore.len_checksum = Len(p) + 1 /\ Len(f) - 2 = Len(p) + 1
       /\ Len(f) - 1 = Len(p) + 2 /\ RtuCore.len_header = 1 /\ RtuCore # TcpCore
  BY <1>6 DEF RtuCore, TcpCore
<1>11. Intact(RtuCore, f)
  BY <1>6, <1>8, <1>9, <1>10 DEF Intact
<1>12. pdu(RtuCore, f) = p
  BY <1>7, <1>10 DEF pdu
<1> QED BY <1>1, <1>6, <1>10, <1>11, <1>12 DEF Carries, RtuCore

LEMMA TcpFrame ==
  ASSUME NEW tid \in UInt16, NEW slave \in Byte, NEW p \in Seq(Byte), Len(p) <= 253
  PROVE  Carries(check_send_pre(TcpCore, header(TcpCore, tid, slave) \o p), TcpCore, tid, slave, p)
<1> DEFINE h == <<Hi(tid), Lo(tid), 0, 0, 0, 0, slave>>
           b == h \o p
           f == [b EXCEPT ![5] = Hi(Len(b) - 6), ![6] = Lo(Len(b) - 6)]
<1>1. check_send_pre(TcpCore, header(TcpCore, tid, slave) \o p) = f
  BY DEF check_send_pre, header, RtuCore, TcpCore
<1>2. /\ h \in Seq(Byte) /\ Len(h) = 7 /\ h[7] = slave
      /\ h[1] = Hi(tid) /\ h[2] = Lo(tid) /\ h[3] = 0 /\ h[4] = 0
  BY HiLo, BytesAre
<1>3. Len(p) \in Nat /\ Len(p) + 1 \in UInt16
  BY WordsAre
<1>4. /\ b \in Seq(Byte) /\ Len(b) = Len(p) + 7
      /\ \A i \in 1 .. Len(p) + 7 : b[i] = IF i <= 7 THEN h[i] ELSE p[i - 7]
  <2>1. ASSUME NEW s \in Seq(Byte), Len(s) = 7
        PROVE  /\ s \o p \in Seq(Byte) /\ Len(s \o p) = Len(p) + 7
               /\ \A i \in 1 .. Len(p) + 7 : (s \o p)[i] = IF i <= 7 THEN s[i] ELSE p[i - 7]
    <3>1. /\ s \o p \in Seq(Byte) /\ Len(s \o p) = Len(s) + Len(p)
          /\ \A i \in 1 .. Len(s) + Len(p) : (s \o p)[i] = IF i <= Len(s) THEN s[i] ELSE p[i - Len(s)]
      BY ConcatProperties
    <3> QED BY <1>3, <2>1, <3>1
  <2> HIDE DEF h
  <2> QED BY <1>2, <2>1, Zenon
<1>5. Len(b) - 6 = Len(p) + 1
  BY <1>3, <1>4
<1> DEFINE hi == Hi(Len(p) + 1)
           lo == Lo(Len(p) + 1)
<1>6. hi \in Byte /\ lo \in Byte /\ 256 * hi + lo = Len(p) + 1
  BY <1>3, HiLo
<1>7. f = [[b EXCEPT ![5] = hi] EXCEPT ![6] = lo]
  BY <1>5
<1> HIDE DEF f, b, h, hi, lo
<1>8. /\ f \in Seq(Byte) /\ Len(f) = Len(p) + 7
      /\ f[5] = hi /\ f[6] = lo
      /\ \A i \in 1 .. Len(p) + 7 : i \notin {5, 6} => f[i] = b[i]
  <2> DEFINE g == [b EXCEPT ![5] = hi]
  <2>1. /\ g \in Seq(Byte) /\ Len(g) = Len(b)
        /\ \A j \in 1 .. Len(b) : g[j] = IF j = 5 THEN hi ELSE b[j]
    BY <1>3, <1>4, <1>6, ExceptSeq
  <2> HIDE DEF g
  <2>2. /\ [g EXCEPT ![6] = lo] \in Seq(Byte) /\ Len([g EXCEPT ![6] = lo]) = Len(g)
        /\ \A j \in 1 .. Len(g) : [g EXCEPT ![6] = lo][j] = IF j = 6 THEN lo ELSE g[j]
    BY <1>3, <1>4, <1>6, <2>1, ExceptSeq
  <2>3. f = [g EXCEPT ![6] = lo]
    BY <1>7 DEF g
  <2> QED BY <1>3, <1>4, <2>1, <2>2, <2>3
<1>9. /\ f[1] = Hi(tid) /\ f[2] = Lo(tid) /\ f[3] = 0 /\ f[4] = 0 /\ f[7] = slave
      /\ \A i \in 1 .. Len(p) : f[i + 7] = p[i]
  <2>1. \A i \in 1 .. 7 : i \in 1 .. Len(p) + 7 /\ i <= 7
    BY <1>3
  <2>2. /\ f[1] = h[1] /\ f[2] = h[2] /\ f[3] = h[3] /\ f[4] = h[4] /\ f[7] = h[7]
    BY <1>4, <1>8, <2>1
  <2>3. ASSUME NEW i \in 1 .. Len(p)
        PROVE  f[i + 7] = p[i]
    <3>1. i + 7 \in 1 .. Len(p) + 7 /\ i + 7 \notin {5, 6} /\ ~ i + 7 <= 7 /\ (i + 7) - 7 = i
      BY <1>3
    <3> QED BY <1>4, <1>8, <3>1
  <2> QED BY <1>2, <2>2, <2>3
<1>10. /\ TcpCore.len_header = 7 /\ Len(f) - TcpCore.len_checksum = Len(f)
       /\ TcpCore.len_checksum = 0 /\ TcpCore # RtuCore
  BY <1>3, <1>8 DEF TcpCore, RtuCore
<1>11. pdu(TcpCore, f) = p
  <2> DEFINE q == SubSeq(f, 8, Len(f))
  <2>1. \A i \in 8 .. Len(f) : f[i] \in Byte
    BY <1>8
  <2>2. Len(f) \in Int /\ 8 \in Int
    BY <1>3, <1>8
  <2>3. /\ q \in Seq(Byte) /\ Len(q) = IF 8 <= Len(f) THEN Len(f) - 8 + 1 ELSE 0
        /\ \A i \in 1 .. Len(f) - 8 + 1 : q[i] = f[8 + i - 1]
    BY <2>1, <2>2, SubSeqProperties
  <2> HIDE DEF q
  <2>4. Len(q) = Len(p) /\ \A i \in 1 .. Len(p) : q[i] = p[i]
    BY <1>3, <1>8, <1>9, <2>3
  <2>5. q = p
    BY <2>3, <2>4, SeqEqual
  <2>6. pdu(TcpCore, f) = q
    BY <1>10 DEF pdu, q
  <2> QED BY <2>5, <2>6
<1>12. Intact(TcpCore, f)
  <2>1. Word(f, 5) = Len(p) + 1
    BY <1>6, <1>8 DEF Word
  <2> QED BY <1>3, <1>8, <1>9, <1>10, <2>1 DEF Intact
<1>13. Word(f, 1) = tid
  BY <1>9, HiLo DEF Word
<1> QED BY <1>1, <1>3, <1>8, <1>9, <1>10, <1>11, <1>12, <1>13 DEF Carries

\* check_send_pre and the checks of the other side agree on both cores.
LEMMA FrameCarries ==
  ASSUME NEW c \in {RtuCore, TcpCore},
         NEW tid \in UInt16, NEW slave \in Byte, NEW p \in Seq(Byte), Len(p) <= 253
  PROVE  Carries(check_send_pre(c, header(c, tid, slave) \o p), c, tid, slave, p)
BY SerialFrame, TcpFrame

-----------------------------------------------------------------------------
(***************************************************************************)
(* Cells in bytes, whatever the function.                                  *)
(***************************************************************************)
CellOf(function) == IF IsCoils(function) THEN {0, 1} ELSE UInt16

LEMMA Coded ==
  ASSUME NEW f, NEW cells \in Seq(CellOf(f)), NEW stale \in Byte
  PROVE  /\ Encoded(f, cells, stale) \in Seq(Byte)
         /\ Len(Encoded(f, cells, stale)) = DataBytes(f, Len(cells))
         /\ \A num \in Nat :
              LET d == Decoded(f, Encoded(f, cells, stale), num)
              IN  /\ Len(d) = num /\ DOMAIN d = 1 .. num
                  /\ \A i \in 1 .. num : i <= Len(cells) => d[i] = cells[i]
<1>1. CASE IsCoils(f)
  <2>1. cells \in Seq({0, 1}) /\ Encoded(f, cells, stale) = Packed(cells, stale)
    BY <1>1 DEF CellOf, Encoded
  <2> DEFINE bytes == Packed(cells, stale)
  <2>2. /\ bytes \in Seq(Byte) /\ Len(bytes) = CoilBytes(Len(cells))
        /\ \A i \in 1 .. Len(cells) : dio_get_val(bytes, i - 1) = cells[i]
    BY <2>1, PackedCoils
  <2>3. DataBytes(f, Len(cells)) = CoilBytes(Len(cells))
    BY <1>1 DEF DataBytes, IsCoils
  <2> HIDE DEF bytes
  <2>4. ASSUME NEW num \in Nat
        PROVE  LET d == Decoded(f, bytes, num)
               IN  /\ Len(d) = num /\ DOMAIN d = 1 .. num
                   /\ \A i \in 1 .. num : i <= Len(cells) => d[i] = cells[i]
    <3>1. Decoded(f, bytes, num) = [i \in 1 .. num |-> dio_get_val(bytes, i - 1)]
      BY <1>1 DEF Decoded, Coils
    <3>2. Len(cells) \in Nat
      OBVIOUS
    <3> QED BY <2>2, <3>1, <3>2
  <2> QED BY <2>1, <2>2, <2>3, <2>4 DEF bytes
<1>2. CASE ~ IsCoils(f)
  <2>1. cells \in Seq(UInt16) /\ Encoded(f, cells, stale) = modbus_reg_h2m(cells)
    BY <1>2 DEF CellOf, Encoded
  <2> DEFINE bytes == modbus_reg_h2m(cells)
  <2>2. /\ bytes \in Seq(Byte) /\ Len(bytes) = 2 * Len(cells)
        /\ \A i \in 1 .. Len(cells) : Word(bytes, 2 * i - 1) = cells[i]
    BY <2>1, BigEndian
  <2>3. DataBytes(f, Len(cells)) = 2 * Len(cells)
    BY <1>2 DEF DataBytes, IsCoils
  <2> HIDE DEF bytes
  <2>4. ASSUME NEW num \in Nat
        PROVE  LET d == Decoded(f, bytes, num)
               IN  /\ Len(d) = num /\ DOMAIN d = 1 .. num
                   /\ \A i \in 1 .. num : i <= Len(cells) => d[i] = cells[i]
    <3>1. Decoded(f, bytes, num) = [i \in 1 .. num |-> Word(bytes, 2 * i - 1)]
      BY <1>2 DEF Decoded, modbus_reg_m2h
    <3>2. Len(cells) \in Nat
      OBVIOUS
    <3> QED BY <2>2, <3>1, <3>2
  <2> QED BY <2>1, <2>2, <2>3, <2>4 DEF bytes
<1> QED BY <1>1, <1>2

\* What was coded is decoded.
LEMMA Decodes ==
  ASSUME NEW f, NEW cells \in Seq(CellOf(f)), NEW stale \in Byte
  PROVE  Decoded(f, Encoded(f, cells, stale), Len(cells)) = cells
<1> DEFINE d == Decoded(f, Encoded(f, cells, stale), Len(cells))
<1>1. Len(cells) \in Nat
  OBVIOUS
<1>2. /\ Len(d) = Len(cells) /\ DOMAIN d = 1 .. Len(cells)
      /\ \A i \in 1 .. Len(cells) : i <= Len(cells) => d[i] = cells[i]
  BY <1>1, Coded
<1>3. d = [i \in 1 .. Len(cells) |-> d[i]]
  BY <1>1 DEF Decoded, Coils, modbus_reg_m2h
<1> HIDE DEF d
<1>4. \A i \in 1 .. Len(cells) : d[i] = cells[i]
  BY <1>1, <1>2
<1>5. d \in Seq(CellOf(f))
  BY <1>1, <1>3, <1>4, IsASeq
<1>6. d = cells
  BY <1>2, <1>4, <1>5, SeqEqual
<1> QED BY <1>6 DEF d

\* What follows a header is found behind it.
LEMMA Behind ==
  ASSUME NEW S, NEW h \in Seq(S), NEW s \in Seq(S)
  PROVE  SubSeq(h \o s, Len(h) + 1, Len(h \o s)) = s
<1>1. <<>> \in Seq(S)
  BY EmptySeq
<1>2. h \o s \in Seq(S) /\ Len(h \o s) = Len(h) + Len(s)
  BY ConcatProperties
<1>3. (h \o s) \o <<>> = h \o s
  BY <1>2, ConcatEmptySeq
<1>4. SubSeq((h \o s) \o <<>>, Len(h) + 1, Len(h) + Len(s)) = s
  BY <1>1, Middle
<1> QED BY <1>2, <1>3, <1>4

-----------------------------------------------------------------------------
(***************************************************************************)
(* Requests.                                                               *)
(***************************************************************************)
Functions == Reads \cup SingleWrites \cup MultipleWrites

\* A call whose request a frame can spell out.
Clear(q) ==
  /\ q \in [function : Functions, addr : UInt16, num : UInt16, data : Seq(UInt16)]
  /\ IF q.function \in Reads THEN q.data = <<>> ELSE q.num = Len(q.data) /\ q.num <= 1968
  /\ q.function \in SingleWrites => q.num = 1
  /\ q.function = WRITE_MULTIPLE_COILS => q.data \in Seq({0, 1})
  /\ modbus_check_addr_num(q.function, q.num)

LEMMA FunctionsAre ==
  /\ Functions = {1, 2, 3, 4, 5, 6, 15, 16} /\ Reads = {1, 2, 3, 4}
  /\ SingleWrites = {5, 6} /\ MultipleWrites = {15, 16}
  /\ \A f : IsCoils(f) <=> f \in {1, 2, 15}
BY DEF Functions, Reads, CoilReads, RegisterReads, SingleWrites, MultipleWrites, IsCoils,
       WRITE_MULTIPLE_COILS, WRITE_MULTIPLE_REGISTERS

LEMMA SmallMod == ASSUME NEW n \in UInt16 PROVE n % 65536 = n
BY WordsAre

\* The data of a frame that passes the quantity check.
LEMMA DataFits ==
  ASSUME NEW f \in Functions, NEW n \in UInt16, modbus_check_addr_num(f, n), f \notin SingleWrites
  PROVE  /\ DataBytes(f, n) \in Nat /\ DataBytes(f, n) <= 250
         /\ f \in MultipleWrites => DataBytes(f, n) <= 246
<1>1. n % 65536 = n /\ n \in Nat
  BY SmallMod, WordsAre
<1>2. CASE f \in {1, 2}
  <2>1. n <= 2000
    BY <1>1, <1>2, FunctionsAre
       DEF modbus_check_addr_num, CoilReads, RegisterReads, SingleWrites, WRITE_MULTIPLE_COILS,
           WRITE_MULTIPLE_REGISTERS
  <2>2. DataBytes(f, n) = CoilBytes(n)
    BY <1>2 DEF DataBytes, CoilReads
  <2> QED BY <1>1, <1>2, <2>1, <2>2, CoilBytesNat, FunctionsAre
<1>3. CASE f = 15
  <2>1. n <= 1968
    BY <1>1, <1>3
       DEF modbus_check_addr_num, CoilReads, RegisterReads, SingleWrites, WRITE_MULTIPLE_COILS,
           WRITE_MULTIPLE_REGISTERS
  <2>2. DataBytes(f, n) = CoilBytes(n)
    BY <1>3 DEF DataBytes, WRITE_MULTIPLE_COILS
  <2> QED BY <1>1, <2>1, <2>2, CoilBytesNat
<1>4. CASE f \in {3, 4, 16}
  <2>1. n <= 125 /\ (f = 16 => n <= 123)
    BY <1>1, <1>4
       DEF modbus_check_addr_num, CoilReads, RegisterReads, SingleWrites, WRITE_MULTIPLE_COILS,
           WRITE_MULTIPLE_REGISTERS
  <2>2. DataBytes(f, n) = 2 * n
    BY <1>4 DEF DataBytes, CoilReads, WRITE_MULTIPLE_COILS
  <2> QED BY <1>1, <1>4, <2>1, <2>2, FunctionsAre
<1> QED BY <1>2, <1>3, <1>4, FunctionsAre

LEMMA Joined ==
  ASSUME NEW h \in Seq(Byte), NEW r \in Seq(Byte)
  PROVE  /\ h \o r \in Seq(Byte) /\ Len(h \o r) = Len(h) + Len(r)
         /\ \A i \in 1 .. Len(h) : (h \o r)[i] = h[i]
         /\ \A i \in 1 .. Len(r) : (h \o r)[Len(h) + i] = r[i]
<1>1. /\ h \o r \in Seq(Byte) /\ Len(h \o r) = Len(h) + Len(r)
      /\ \A i \in 1 .. Len(h) + Len(r) : (h \o r)[i] = IF i <= Len(h) THEN h[i] ELSE r[i - Len(h)]
  BY ConcatProperties
<1>2. Len(h) \in Nat /\ Len(r) \in Nat
  OBVIOUS
<1>3. ASSUME NEW i \in 1 .. Len(r)
      PROVE  (h \o r)[Len(h) + i] = r[i]
  <2>1. /\ Len(h) + i \in 1 .. Len(h) + Len(r) /\ ~ Len(h) + i <= Len(h)
        /\ (Len(h) + i) - Len(h) = i
    BY <1>2
  <2> QED BY <1>1, <2>1
<1> QED BY <1>1, <1>2, <1>3

\* The three bytes every request begins with.
Begins(p, q) == p[1] = q.function /\ Word(p, 2) = q.addr

LEMMA Beginning ==
  ASSUME NEW q, Clear(q), NEW r \in Seq(Byte)
  PROVE  LET p == <<q.function, Hi(q.addr), Lo(q.addr)>> \o r
         IN  /\ p \in Seq(Byte) /\ Len(p) = 3 + Len(r) /\ Begins(p, q)
             /\ \A i \in 1 .. Len(r) : p[3 + i] = r[i]
<1> DEFINE h == <<q.function, Hi(q.addr), Lo(q.addr)>>
<1>1. q.function \in Functions /\ q.addr \in UInt16
  BY DEF Clear
<1>2. q.function \in Byte
  BY <1>1, FunctionsAre, BytesAre
<1>3. /\ h \in Seq(Byte) /\ Len(h) = 3
      /\ h[1] = q.function /\ h[2] = Hi(q.addr) /\ h[3] = Lo(q.addr)
  BY <1>1, <1>2, HiLo
<1> HIDE DEF h
<1>4. /\ h \o r \in Seq(Byte) /\ Len(h \o r) = 3 + Len(r)
      /\ (h \o r)[1] = h[1] /\ (h \o r)[2] = h[2] /\ (h \o r)[3] = h[3]
      /\ \A i \in 1 .. Len(r) : (h \o r)[3 + i] = r[i]
  <2>1. /\ h \o r \in Seq(Byte) /\ Len(h \o r) = Len(h) + Len(r)
        /\ \A i \in 1 .. Len(h) : (h \o r)[i] = h[i]
        /\ \A i \in 1 .. Len(r) : (h \o r)[Len(h) + i] = r[i]
    BY <1>3, Joined
  <2>2. 1 \in 1 .. Len(h) /\ 2 \in 1 .. Len(h) /\ 3 \in 1 .. Len(h)
    BY <1>3
  <2> QED BY <1>3, <2>1, <2>2
<1>5. Begins(h \o r, q)
  BY <1>1, <1>3, <1>4, HiLo DEF Begins, Word
<1> QED BY <1>4, <1>5 DEF h

LEMMA RequestIs ==
  ASSUME NEW q, Clear(q)
  PROVE  q = [function |-> q.function, addr |-> q.addr, num |-> q.num, data |-> q.data]
BY DEF Clear

\* What the slave is to hear of a call: all of it, but for the state of a single
\* coil, which is always 0.
HeardData(q) == IF q.function = 5 THEN <<0>> ELSE q.data
Heard(q) == [function |-> q.function, addr |-> q.addr, num |-> q.num, data |-> HeardData(q)]

\* What is proved of the request to every function.
Tells(p, q) ==
  /\ p \in Seq(Byte) /\ 5 <= Len(p) /\ Len(p) <= 253
  /\ Begins(p, q) /\ (q.function \notin SingleWrites => Word(p, 4) = q.num)
  /\ query(p) = Heard(q)

\* The number and the data of the query, given its beginning.
LEMMA TellsIf ==
  ASSUME NEW q, Clear(q), NEW p \in Seq(Byte), 5 <= Len(p), Len(p) <= 253, Begins(p, q),
         q.function \notin SingleWrites => Word(p, 4) = q.num,
         q.function = 5 => dio_get_val(<<p[4]>>, 0) = 0,
         q.function = 6 => q.data = <<Word(p, 4)>>,
         q.function \in MultipleWrites => q.data = Decoded(q.function, SubSeq(p, 7, Len(p)), Word(p, 4))
  PROVE  Tells(p, q)
<1> DEFINE d == CASE p[1] = 5 -> <<dio_get_val(<<p[4]>>, 0)>>
                  [] p[1] = 6 -> <<Word(p, 4)>>
                  [] p[1] \in Reads -> <<>>
                  [] OTHER -> Decoded(p[1], SubSeq(p, 7, Len(p)), Word(p, 4))
<1>1. p[1] = q.function /\ q.function \in Functions /\ (q.function \in Reads => q.data = <<>>)
  BY DEF Begins, Clear
<1>2. d = HeardData(q)
  <2>1. CASE q.function = 5
    BY <1>1, <2>1, FunctionsAre DEF HeardData
  <2>2. CASE q.function = 6
    BY <1>1, <2>2, FunctionsAre DEF HeardData
  <2>3. CASE q.function \in Reads
    BY <1>1, <2>3, FunctionsAre DEF HeardData
  <2>4. CASE q.function \in MultipleWrites
    BY <1>1, <2>4, FunctionsAre DEF HeardData
  <2> QED BY <1>1, <2>1, <2>2, <2>3, <2>4, FunctionsAre DEF HeardData
<1>3. query(p) = [function |-> p[1], addr |-> Word(p, 2),
                  num |-> IF p[1] \in SingleWrites THEN 1 ELSE Word(p, 4), data |-> d]
  BY DEF query
<1> HIDE DEF d
<1>4. Word(p, 2) = q.addr /\ (IF p[1] \in SingleWrites THEN 1 ELSE Word(p, 4)) = q.num
  BY <1>1 DEF Begins, Clear
<1>5. query(p) = Heard(q)
  BY <1>1, <1>2, <1>3, <1>4 DEF Heard
<1> QED BY <1>5 DEF Tells

LEMMA ReadTells ==
  ASSUME NEW q, Clear(q), q.function \in Reads
  PROVE  Tells(request_pdu(q), q)
<1> DEFINE r == <<Hi(q.num), Lo(q.num)>>
           p == <<q.function, Hi(q.addr), Lo(q.addr)>> \o r
<1>1. /\ q.num \in UInt16 /\ q.data = <<>>
      /\ q.function # 5 /\ q.function # 6 /\ q.function \notin MultipleWrites
  BY FunctionsAre DEF Clear
<1>2. request_pdu(q) = p
  BY <1>1 DEF request_pdu
<1>3. r \in Seq(Byte) /\ Len(r) = 2 /\ r[1] = Hi(q.num) /\ r[2] = Lo(q.num)
  BY <1>1, HiLo
<1> HIDE DEF r
<1>4. /\ p \in Seq(Byte) /\ Len(p) = 3 + Len(r) /\ Begins(p, q)
      /\ \A i \in 1 .. Len(r) : p[3 + i] = r[i]
  BY <1>3, Beginning
<1> HIDE DEF p
<1>5. Len(p) = 5 /\ p[4] = r[1] /\ p[5] = r[2]
  BY <1>3, <1>4
<1>6. Word(p, 4) = q.num
  BY <1>1, <1>3, <1>5, HiLo DEF Word
<1>7. 5 <= Len(p) /\ Len(p) <= 253
  BY <1>5
<1>8. Tells(p, q)
  BY <1>1, <1>4, <1>6, <1>7, TellsIf
<1> QED BY <1>2, <1>8

LEMMA SingleTells ==
  ASSUME NEW q, Clear(q), q.function \in SingleWrites
  PROVE  Tells(request_pdu(q), q)
<1> DEFINE r == IF q.function = 5 THEN <<0, 0>> ELSE modbus_reg_h2m(q.data)
           p == <<q.function, Hi(q.addr), Lo(q.addr)>> \o r
<1>1. /\ q.function \in {5, 6} /\ q.num = 1 /\ Len(q.data) = 1
      /\ q.data \in Seq(UInt16) /\ q.data[1] \in UInt16
  <2>1. q.function \in {5, 6} /\ q.function \notin Reads
    BY FunctionsAre
  <2>a. q.data \in Seq(UInt16)
    BY DEF Clear
  <2>b. q.num = 1
    BY DEF Clear
  <2>c. q.num = Len(q.data)
    BY <2>1 DEF Clear
  <2>2. q.num = 1 /\ Len(q.data) = 1 /\ q.data \in Seq(UInt16)
    BY <2>a, <2>b, <2>c
  <2>3. q.data[1] \in UInt16
    BY <2>2
  <2> QED BY <2>1, <2>2, <2>3
<1>2. request_pdu(q) = p
  <2>1. CASE q.function = 5
    <3>1. CoilState(q.data[1]) = 0
      BY DEF CoilState, Lo
    <3> QED BY <2>1, <3>1, FunctionsAre DEF request_pdu
  <2>2. CASE q.function = 6
    BY <2>2, FunctionsAre DEF request_pdu
  <2> QED BY <1>1, <2>1, <2>2
<1>3. /\ r \in Seq(Byte) /\ Len(r) = 2
      /\ q.function = 6 => Word(r, 1) = q.data[1]
      /\ q.function = 5 => r[1] = 0
  <2>1. CASE q.function = 5
    BY <2>1, BytesAre
  <2>2. CASE q.function = 6
    <3>1. /\ modbus_reg_h2m(q.data) \in Seq(Byte)
          /\ Len(modbus_reg_h2m(q.data)) = 2 * Len(q.data)
          /\ \A i \in 1 .. Len(q.data) : Word(modbus_reg_h2m(q.data), 2 * i - 1) = q.data[i]
      BY <1>1, BigEndian
    <3> QED BY <1>1, <2>2, <3>1
  <2> QED BY <1>1, <2>1, <2>2
<1> HIDE DEF r
<1>4. /\ p \in Seq(Byte) /\ Len(p) = 3 + Len(r) /\ Begins(p, q)
      /\ \A i \in 1 .. Len(r) : p[3 + i] = r[i]
  BY <1>3, Beginning
<1> HIDE DEF p
<1>5. Len(p) = 5 /\ p[4] = r[1] /\ p[5] = r[2]
  BY <1>3, <1>4
<1>6. q.function = 5 => dio_get_val(<<p[4]>>, 0) = 0
  BY <1>1, <1>3, <1>5 DEF dio_get_val, Bit, Weight
<1>7. q.function = 6 => <<Word(p, 4)>> = q.data
  <2>1. q.function = 6 => Word(p, 4) = q.data[1]
    BY <1>3, <1>5 DEF Word
  <2>2. q.data = <<q.data[1]>>
    BY <1>1
  <2> QED BY <2>1, <2>2
<1>8. q.function \notin MultipleWrites /\ (q.function \notin SingleWrites => Word(p, 4) = q.num)
  BY FunctionsAre
<1>9. 5 <= Len(p) /\ Len(p) <= 253
  BY <1>5
<1>10. Tells(p, q)
  BY <1>4, <1>6, <1>7, <1>8, <1>9, TellsIf
<1> QED BY <1>2, <1>10

LEMMA MultipleTells ==
  ASSUME NEW q, Clear(q), q.function \in MultipleWrites
  PROVE  Tells(request_pdu(q), q)
<1> DEFINE w == Encoded(q.function, q.data, 0)
           at == <<q.function, Hi(q.addr), Lo(q.addr)>>
           r == <<Hi(q.num), Lo(q.num), Lo(Len(w))>>
           h == at \o r
           p == h \o w
<1>1. /\ q.function \in Functions /\ q.function \notin Reads \cup SingleWrites
      /\ q.function \notin {5, 6} /\ q.num \in UInt16 /\ q.num = Len(q.data)
      /\ modbus_check_addr_num(q.function, q.num) /\ q.data \in Seq(CellOf(q.function))
  BY FunctionsAre DEF Clear, CellOf, WRITE_MULTIPLE_COILS
<1>2. request_pdu(q) = p
  BY <1>1 DEF request_pdu
<1>3. /\ w \in Seq(Byte) /\ Len(w) = DataBytes(q.function, q.num)
      /\ Decoded(q.function, w, q.num) = q.data
  <2>1. 0 \in Byte
    BY BytesAre
  <2> QED BY <1>1, <2>1, Coded, Decodes
<1>4. Len(w) \in Nat /\ Len(w) <= 246
  BY <1>1, <1>3, DataFits
<1> HIDE DEF w
<1>5. Lo(Len(w)) \in Byte
  BY <1>4, BytesAre DEF Lo
<1>6. r \in Seq(Byte) /\ Len(r) = 3 /\ r[1] = Hi(q.num) /\ r[2] = Lo(q.num)
  BY <1>1, <1>5, HiLo
<1> HIDE DEF r
<1>7. /\ h \in Seq(Byte) /\ Len(h) = 3 + Len(r) /\ Begins(h, q)
      /\ \A i \in 1 .. Len(r) : h[3 + i] = r[i]
  BY <1>6, Beginning
<1> HIDE DEF at, h
<1>8. Len(h) = 6 /\ h[4] = r[1] /\ h[5] = r[2]
  BY <1>6, <1>7
<1>9. /\ p \in Seq(Byte) /\ Len(p) = Len(h) + Len(w)
      /\ \A i \in 1 .. Len(h) : p[i] = h[i]
  BY <1>3, <1>7, Joined
<1>10. SubSeq(p, 7, Len(p)) = w
  <2>1. SubSeq(p, Len(h) + 1, Len(p)) = w
    BY <1>3, <1>7, Behind
  <2> QED BY <1>8, <2>1
<1> HIDE DEF p
<1>11. p[1] = h[1] /\ p[2] = h[2] /\ p[3] = h[3] /\ p[4] = h[4] /\ p[5] = h[5]
  BY <1>8, <1>9
<1>12. Begins(p, q) /\ Word(p, 4) = q.num
  BY <1>1, <1>6, <1>7, <1>8, <1>11, HiLo DEF Begins, Word
<1>13. 5 <= Len(p) /\ Len(p) <= 253
  BY <1>4, <1>8, <1>9
<1>14. q.data = Decoded(q.function, SubSeq(p, 7, Len(p)), Word(p, 4))
  BY <1>3, <1>10, <1>12
<1>15. Tells(p, q)
  BY <1>1, <1>9, <1>12, <1>13, <1>14, TellsIf
<1> QED BY <1>2, <1>15

\* The slave reads out of a request what the master was called with.
LEMMA RequestTells ==
  ASSUME NEW q, Clear(q)
  PROVE  Tells(request_pdu(q), q)
<1>1. q.function \in Functions
  BY DEF Clear
<1> QED BY <1>1, ReadTells, SingleTells, MultipleTells DEF Functions

-----------------------------------------------------------------------------
(***************************************************************************)
(* Answers.                                                                *)
(***************************************************************************)
\* Tables that hold cells.
Holds(t) ==
  /\ t \in [TableNames -> [0 .. Cells - 1 -> UInt16]]
  /\ \A c \in 0 .. Cells - 1 : t["hold_coils"][c] \in {0, 1} /\ t["input_coils"][c] \in {0, 1}

IsException(a, q) == a.function = q.function + 128 /\ a.code \in Byte

IsData(a, q) ==
  /\ q.function \in Reads /\ a.function = q.function
  /\ a.data \in Seq(CellOf(q.function)) /\ a.num = Len(a.data)
  /\ a.num \in UInt16 /\ modbus_check_addr_num(q.function, a.num)

IsEcho(a, q) == q.function \notin Reads /\ a.function = q.function

LEMMA ServedCells ==
  ASSUME NEW addr \in Nat, NEW num \in Nat, Served(addr, num) # 0
  PROVE  /\ Served(addr, num) \in Nat /\ Served(addr, num) <= num
         /\ addr + Served(addr, num) <= Cells
BY CellsAssumption DEF Served

LEMMA CellsRead ==
  ASSUME NEW t, Holds(t), NEW f \in Reads, NEW addr \in Nat, NEW num \in Nat, Served(addr, num) # 0
  PROVE  /\ vio_read(t[TableOf(f)], addr, num) \in Seq(CellOf(f))
         /\ Len(vio_read(t[TableOf(f)], addr, num)) = Served(addr, num)
<1> DEFINE n == Served(addr, num)
           table == t[TableOf(f)]
           d == [i \in 1 .. n |-> table[addr + i - 1]]
<1>1. n \in Nat /\ addr + n <= Cells
  BY ServedCells
<1>2. vio_read(t[TableOf(f)], addr, num) = d
  BY DEF vio_read
<1>3. \A c \in 0 .. Cells - 1 : table[c] \in CellOf(f)
  <2>1. CASE f \in {1, 2}
    <3>1. TableOf(f) \in {"hold_coils", "input_coils"} /\ CellOf(f) = {0, 1}
      BY <2>1, FunctionsAre DEF TableOf, CellOf, WRITE_MULTIPLE_COILS, WRITE_MULTIPLE_REGISTERS
    <3> QED BY <3>1 DEF Holds
  <2>2. CASE f \in {3, 4}
    <3>1. TableOf(f) \in {"hold_regs", "input_regs"} /\ CellOf(f) = UInt16
      BY <2>2, FunctionsAre DEF TableOf, CellOf, WRITE_MULTIPLE_COILS, WRITE_MULTIPLE_REGISTERS
    <3> QED BY <3>1 DEF Holds, TableNames
  <2> QED BY <2>1, <2>2, FunctionsAre
<1> HIDE DEF n, table
<1>4. ASSUME NEW i \in 1 .. n
      PROVE  table[addr + i - 1] \in CellOf(f)
  <2>1. addr + i - 1 \in 0 .. Cells - 1
    BY <1>1, CellsAssumption
  <2> QED BY <1>3, <2>1
<1>5. d \in Seq(CellOf(f))
  BY <1>1, <1>4, IsASeq
<1>6. Len(d) = n
  BY <1>1, <1>5, LenProperties
<1> QED BY <1>2, <1>5, <1>6 DEF n

LEMMA ExceptionIs ==
  ASSUME NEW q, Clear(q), NEW code \in Int
  PROVE  IsException(Exception(q.function, code), q)
<1>1. q.function \in {1, 2, 3, 4, 5, 6, 15, 16}
  BY FunctionsAre DEF Clear
<1>2. (q.function + 128) % 256 = q.function + 128 /\ code % 256 \in Nat /\ code % 256 < 256
  BY <1>1
<1> QED BY <1>2, BytesAre DEF IsException, Exception

LEMMA AnswerKinds ==
  ASSUME NEW q, Clear(q), NEW t, Holds(t), NEW refusal \in RefusalCodes
  PROVE  LET a == slave_answer(q, t, refusal) IN IsException(a, q) \/ IsData(a, q) \/ IsEcho(a, q)
<1> DEFINE a == slave_answer(q, t, refusal)
           rc == CallbackResult(q, refusal)
           n == Served(q.addr, q.num)
<1> SUFFICES IsException(a, q) \/ IsData(a, q) \/ IsEcho(a, q)
  OBVIOUS
<1>1. /\ q.function \in Functions /\ q.addr \in Nat /\ q.num \in Nat /\ q.num < 65536
      /\ modbus_check_addr_num(q.function, q.num)
  BY WordsAre DEF Clear
<1>2. refusal \in Int /\ refusal <= 0
  BY RefusalCodesAssumption
<1>3. rc \in Int /\ (rc > 0 => rc = n /\ n # 0 /\ n \in UInt16)
  BY <1>1, <1>2, ServedCells, WordsAre DEF CallbackResult
<1>4. /\ IsException(Exception(q.function, ExceptionCode(MODBUS_EXCEPTION, rc)), q)
      /\ IsException(Exception(q.function, ExceptionCode(MODBUS_EXCEPTION_ILLEGAL_DATA_VALUE, rc)), q)
  BY <1>3, ExceptionIs DEF ExceptionCode, MODBUS_EXCEPTION, MODBUS_EXCEPTION_ILLEGAL_DATA_VALUE
<1>5. CASE q.function \in Reads
  <2>1. a = IF rc > 0 /\ modbus_check_addr_num(q.function, rc)
              THEN [function |-> q.function, num |-> rc, code |-> 0,
                    data |-> vio_read(t[TableOf(q.function)], q.addr, q.num)]
              ELSE Exception(q.function, ExceptionCode(MODBUS_EXCEPTION, rc))
    BY <1>1, <1>5, FunctionsAre DEF slave_answer
  <2> HIDE DEF a
  <2>2. CASE rc > 0 /\ modbus_check_addr_num(q.function, rc)
    <3>1. /\ a.function = q.function /\ a.num = rc
          /\ a.data = vio_read(t[TableOf(q.function)], q.addr, q.num)
      BY <2>1, <2>2
    <3>2. a.data \in Seq(CellOf(q.function)) /\ Len(a.data) = n
      BY <1>1, <1>3, <1>5, <2>2, <3>1, CellsRead
    <3> QED BY <1>3, <1>5, <2>2, <3>1, <3>2 DEF IsData
  <2>3. CASE ~ (rc > 0 /\ modbus_check_addr_num(q.function, rc))
    BY <1>4, <2>1, <2>3
  <2> QED BY <2>2, <2>3
<1>6. CASE q.function \in SingleWrites
  <2>1. a = IF rc = 1
              THEN [function |-> q.function, num |-> 1, code |-> 0, data |-> <<>>]
              ELSE Exception(q.function, ExceptionCode(MODBUS_EXCEPTION_ILLEGAL_DATA_VALUE, rc))
    BY <1>1, <1>6, FunctionsAre DEF slave_answer
  <2>2. q.function \notin Reads
    BY <1>6, FunctionsAre
  <2> HIDE DEF a, rc
  <2> QED BY <1>4, <2>1, <2>2 DEF IsEcho
<1>7. CASE q.function \in MultipleWrites
  <2>1. a = IF rc > 0 /\ modbus_check_addr_num(q.function, rc)
              THEN [function |-> q.function, num |-> q.num, code |-> 0, data |-> <<>>]
              ELSE Exception(q.function, ExceptionCode(MODBUS_EXCEPTION, rc))
    BY <1>1, <1>7, FunctionsAre DEF slave_answer
  <2>2. q.function \notin Reads
    BY <1>7, FunctionsAre
  <2> HIDE DEF a, rc
  <2> QED BY <1>4, <2>1, <2>2 DEF IsEcho
<1> QED BY <1>1, <1>5, <1>6, <1>7 DEF Functions

\* What the master makes of the bytes of an answer, and what Pdu makes of it.
Means(p, q, bytes, a) ==
  /\ bytes \in Seq(Byte) /\ Len(bytes) <= 253
  /\ Same(confirm(p, bytes), handle_confirm(q, a))

LEMMA SameIfEmpty ==
  ASSUME NEW ret
  PROVE  Same([ret |-> ret, data |-> NothingRead], [ret |-> ret, data |-> NothingRead])
BY DEF Same, NothingRead

LEMMA ExceptionMeans ==
  ASSUME NEW q, Clear(q), NEW p, NEW a, IsException(a, q)
  PROVE  Means(p, q, <<a.function, a.code>>, a)
<1> DEFINE bytes == <<a.function, a.code>>
<1>1. q.function \in Functions
  BY DEF Clear
<1>2. a.function \in Byte /\ a.function >= 128 /\ a.code \in Byte
  BY <1>1, FunctionsAre, BytesAre DEF IsException
<1>3. bytes \in Seq(Byte) /\ Len(bytes) = 2 /\ bytes[1] = a.function
  BY <1>2
<1> HIDE DEF bytes
<1>4. a.function \in Int /\ a.function >= 128
  BY <1>2, BytesAre
<1>5. /\ confirm(p, bytes) = [ret |-> 0 - a.function, data |-> NothingRead]
      /\ handle_confirm(q, a) = [ret |-> 0 - a.function, data |-> NothingRead]
  BY <1>3, <1>4 DEF confirm, handle_confirm
<1>6. Means(p, q, bytes, a)
  BY <1>3, <1>5, SameIfEmpty DEF Means
<1> QED BY <1>6 DEF bytes

LEMMA EchoMeans ==
  ASSUME NEW q, Clear(q), NEW p, Tells(p, q), NEW a, IsEcho(a, q)
  PROVE  Means(p, q, SubSeq(p, 1, 5), a)
<1> DEFINE bytes == SubSeq(p, 1, 5)
<1>1. /\ q.function \in Int /\ q.function < 128 /\ q.function \notin Reads
      /\ a.function = q.function /\ p[1] = q.function
  BY FunctionsAre DEF Clear, IsEcho, Tells, Begins
<1>2. p \in Seq(Byte) /\ \A i \in 1 .. 5 : p[i] \in Byte
  BY DEF Tells
<1>3. bytes \in Seq(Byte) /\ Len(bytes) = 5 /\ bytes[1] = p[1]
  BY <1>2, SubSeqProperties
<1> HIDE DEF bytes
<1>4. /\ confirm(p, bytes) = [ret |-> MODBUS_OK, data |-> NothingRead]
      /\ handle_confirm(q, a) = [ret |-> MODBUS_OK, data |-> NothingRead]
  BY <1>1, <1>3 DEF confirm, handle_confirm
<1>5. Means(p, q, bytes, a)
  BY <1>3, <1>4, SameIfEmpty DEF Means
<1> QED BY <1>5 DEF bytes

LEMMA DataMeans ==
  ASSUME NEW q, Clear(q), NEW p, Tells(p, q), NEW a, IsData(a, q), NEW stale \in Byte
  PROVE  Means(p, q, <<a.function, Lo(DataBytes(a.function, a.num))>>
                       \o Encoded(a.function, a.data, stale), a)
<1> DEFINE f == q.function
           e == Encoded(f, a.data, stale)
           size == DataBytes(f, a.num)
           asked == DataBytes(f, q.num)
           h == <<f, Lo(size)>>
           bytes == h \o e
<1>1. /\ f \in Reads /\ f \in Functions /\ f \notin SingleWrites /\ f \in Byte
      /\ f \in Int /\ f < 128 /\ a.function = f /\ p[1] = f /\ Word(p, 4) = q.num
      /\ q.num \in UInt16 /\ modbus_check_addr_num(f, q.num)
  <2>1. f \in Reads /\ a.function = f
    BY DEF IsData
  <2>2. f \in Functions /\ f \notin SingleWrites /\ f \in Int /\ f < 128
    BY <2>1, FunctionsAre
  <2>3. f \in Byte
    BY <2>1, FunctionsAre, BytesAre
  <2>4. q.num \in UInt16 /\ modbus_check_addr_num(f, q.num)
    BY DEF Clear
  <2>5. p[1] = f /\ Word(p, 4) = q.num
    BY <2>2 DEF Tells, Begins
  <2> QED BY <2>1, <2>2, <2>3, <2>4, <2>5
<1>2. /\ a.data \in Seq(CellOf(f)) /\ a.num = Len(a.data)
      /\ a.num \in UInt16 /\ modbus_check_addr_num(f, a.num)
  BY DEF IsData
<1>3. size \in Nat /\ size <= 250 /\ asked \in Nat /\ asked <= 250
  BY <1>1, <1>2, DataFits
<1>4. /\ e \in Seq(Byte) /\ Len(e) = size
      /\ Len(Decoded(f, e, q.num)) = q.num /\ DOMAIN Decoded(f, e, q.num) = 1 .. q.num
      /\ \A i \in 1 .. q.num : i <= Len(a.data) => Decoded(f, e, q.num)[i] = a.data[i]
  <2>1. q.num \in Nat
    BY <1>1, WordsAre
  <2>2. /\ e \in Seq(Byte) /\ Len(e) = DataBytes(f, Len(a.data))
        /\ \A num \in Nat :
             LET d == Decoded(f, e, num)
             IN  /\ Len(d) = num /\ DOMAIN d = 1 .. num
                 /\ \A i \in 1 .. num : i <= Len(a.data) => d[i] = a.data[i]
    BY <1>2, Coded
  <2> HIDE DEF e
  <2> QED BY <1>2, <2>1, <2>2
<1>5. size % 256 = size /\ asked % 256 = asked
  BY <1>3
<1>6. h \in Seq(Byte) /\ Len(h) = 2 /\ h[1] = f /\ h[2] = size
  BY <1>1, <1>3, <1>5, BytesAre DEF Lo
<1> HIDE DEF e, h, size, asked
<1>7. /\ bytes \in Seq(Byte) /\ Len(bytes) = 2 + size
      /\ bytes[1] = f /\ bytes[2] = size
      /\ SubSeq(bytes, 3, Len(bytes)) = e
  <2>1. /\ h \o e \in Seq(Byte) /\ Len(h \o e) = Len(h) + Len(e)
        /\ \A i \in 1 .. Len(h) : (h \o e)[i] = h[i]
    BY <1>4, <1>6, Joined
  <2>2. 1 \in 1 .. Len(h) /\ 2 \in 1 .. Len(h) /\ Len(h) + 1 = 3
    BY <1>6
  <2>3. SubSeq(h \o e, Len(h) + 1, Len(h \o e)) = e
    BY <1>4, <1>6, Behind
  <2> QED BY <1>4, <1>6, <2>1, <2>2, <2>3
<1> HIDE DEF bytes
<1>8. AnswerLength(p) = 2 + asked
  BY <1>1 DEF AnswerLength, asked
<1>9. confirm(p, bytes) = [ret  |-> MODBUS_OK,
                           data |-> IF size = asked THEN Decoded(f, e, q.num) ELSE NothingRead]
  <2>1. (/\ p[1] \in Reads /\ Len(bytes) = AnswerLength(p)
         /\ bytes[2] = Lo(DataBytes(p[1], Word(p, 4)))) <=> size = asked
    BY <1>1, <1>3, <1>5, <1>7, <1>8 DEF Lo, asked
  <2>2. /\ ~ bytes[1] >= 128 /\ ~ (bytes[1] < 128 /\ bytes[1] # p[1])
    BY <1>1, <1>7
  <2>3. Decoded(p[1], SubSeq(bytes, 3, Len(bytes)), Word(p, 4)) = Decoded(f, e, q.num)
    BY <1>1, <1>7
  <2> QED BY <2>1, <2>2, <2>3 DEF confirm
<1>10. handle_confirm(q, a) = [ret  |-> MODBUS_OK,
                               data |-> IF size = asked THEN Copied(a.data, q.num) ELSE NothingRead]
  BY <1>1, <1>2 DEF handle_confirm, size, asked
<1>11. Same(confirm(p, bytes), handle_confirm(q, a))
  <2>1. CASE size = asked
    <3> DEFINE r == Decoded(f, e, q.num)
               s == Copied(a.data, q.num)
    <3>1. confirm(p, bytes).ret = handle_confirm(q, a).ret
      BY <1>9, <1>10
    <3>2. confirm(p, bytes).data = r /\ handle_confirm(q, a).data = s
      BY <1>9, <1>10, <2>1
    <3>3. q.num \in Nat
      BY <1>1, WordsAre
    <3>4. Len(s) = q.num
      BY <3>3 DEF Copied
    <3>5. \A i \in 1 .. q.num : s[i] \in {r[i], Padding}
      BY <1>4 DEF Copied
    <3> HIDE DEF r, s
    <3>6. Len(r) = q.num /\ DOMAIN r = 1 .. q.num
      BY <1>4 DEF r
    <3> QED BY <3>1, <3>2, <3>4, <3>5, <3>6 DEF Same
  <2>2. CASE size # asked
    BY <1>9, <1>10, <2>2, SameIfEmpty
  <2> QED BY <2>1, <2>2
<1>12. Means(p, q, bytes, a)
  BY <1>3, <1>7, <1>11 DEF Means
<1> QED BY <1>1, <1>12 DEF bytes, h, e, size

\* The master makes of the slave's bytes what Pdu makes of its answer.
LEMMA AnswerMeans ==
  ASSUME NEW q, Clear(q), NEW p, Tells(p, q), NEW t, Holds(t),
         NEW refusal \in RefusalCodes, NEW stale \in Byte
  PROVE  Means(p, q, response_pdu(p, t, refusal, stale), slave_answer(q, t, refusal))
<1> DEFINE a == slave_answer(q, t, refusal)
<1>1. slave_answer(query(p), t, refusal) = a
  BY DEF Tells, Heard, slave_answer, CallbackResult
<1>2. response_pdu(p, t, refusal, stale) =
        CASE a.function >= 128 -> <<a.function, a.code>>
          [] a.function \in Reads ->
               <<a.function, Lo(DataBytes(a.function, a.num))>> \o Encoded(a.function, a.data, stale)
          [] OTHER -> SubSeq(p, 1, 5)
  BY <1>1 DEF response_pdu
<1>3. IsException(a, q) \/ IsData(a, q) \/ IsEcho(a, q)
  BY AnswerKinds
<1>4. q.function \in {1, 2, 3, 4, 5, 6, 15, 16}
  BY FunctionsAre DEF Clear
<1> HIDE DEF a
<1>5. CASE IsException(a, q)
  <2>1. a.function >= 128 /\ a.function \notin Reads
    BY <1>4, <1>5, FunctionsAre DEF IsException
  <2> QED BY <1>2, <1>5, <2>1, ExceptionMeans DEF a
<1>6. CASE IsData(a, q)
  <2>1. ~ a.function >= 128 /\ a.function \in Reads
    BY <1>4, <1>6 DEF IsData
  <2> QED BY <1>2, <1>6, <2>1, DataMeans DEF a
<1>7. CASE IsEcho(a, q)
  <2>1. ~ a.function >= 128 /\ a.function \notin Reads
    BY <1>4, <1>7 DEF IsEcho
  <2> QED BY <1>2, <1>7, <2>1, EchoMeans DEF a
<1> QED BY <1>3, <1>5, <1>6, <1>7

-----------------------------------------------------------------------------
(***************************************************************************)
(* The exchange.                                                           *)
(***************************************************************************)
\* No read asks for more than a frame can say.
Spellable == \A q \in Calls : q.function \in Reads => q.num \in UInt16

LEMMA CallIsClear ==
  ASSUME Spellable, NEW q \in Calls, modbus_check_addr_num(q.function, q.num)
  PROVE  Clear(q)
<1>1. q \in [function : Reads \cup SingleWrites \cup MultipleWrites,
             addr : UInt16, num : Nat, data : Seq(UInt16)]
  BY CallsAssumption
<1>2. /\ IF q.function \in Reads THEN q.data = <<>> ELSE q.num = Len(q.data) /\ q.num <= 1968
      /\ q.function \in SingleWrites => q.num = 1
      /\ q.function = WRITE_MULTIPLE_COILS => q.data \in Seq({0, 1})
  BY CallsAssumption
<1>3. q.num \in UInt16
  <2>1. q.num \in Nat
    BY <1>1
  <2> QED BY <1>2, <2>1, WordsAre DEF Spellable
<1> QED BY <1>1, <1>2, <1>3 DEF Clear, Functions

\* The bytes p in a frame of this exchange.
Wire(f, p) == Carries(f, core, transfer_id, Slave, p)

\* The frame holds an answer of which the master will make what is expected.
Answered ==
  \E bytes, a : /\ Means(request_pdu(call), call, bytes, a)
                /\ Wire(frame, bytes)
                /\ expected = handle_confirm(call, a)

IInv ==
  /\ core \in {RtuCore, TcpCore} /\ transfer_id \in UInt16
  /\ pc \in {"idle", "query", "answer"}
  /\ call = NoCall => pc = "idle"
  /\ call = NoCall \/ pc = "query" => Holds(tables)
  /\ call # NoCall => Clear(call) /\ Wire(write_buff, request_pdu(call))
  /\ pc = "query" /\ ~ damaged => frame = write_buff
  /\ pc = "answer" /\ ~ damaged => Answered
  /\ pc = "idle" /\ call # NoCall /\ ~ damaged => Same(result, expected)

LEMMA SlaveByte == Slave \in Byte
BY SlaveAssumption, BytesAre

LEMMA CarriedIsTaken ==
  ASSUME NEW c \in {RtuCore, TcpCore}, NEW tid \in UInt16, NEW f, NEW p \in Seq(Byte),
         Carries(f, c, tid, Slave, p)
  PROVE  check_wait_request(c, f, Slave) > 0 /\ check_wait_response(c, f, Slave, tid) > 0
<1>1. Len(p) \in Nat /\ Len(f) > 0
  BY DEF Carries, RtuCore, TcpCore
<1>2. Addressed(c, f, Slave) = Len(f)
  BY DEF Carries, Addressed
<1> QED BY <1>1, <1>2 DEF Carries, check_wait_request, check_wait_response

LEMMA InitIInv == Init => IInv
<1> SUFFICES ASSUME Init PROVE IInv
  OBVIOUS
<1>1. core \in {RtuCore, TcpCore} /\ transfer_id \in UInt16
  BY CoresAssumption, TidsAssumption DEF Init
<1>2. Holds(tables)
  BY ContentsAssumption DEF Init, Holds
<1> QED BY <1>1, <1>2 DEF Init, IInv

LEMMA CallKeeps ==
  ASSUME Spellable, IInv, Call
  PROVE  IInv'
<1>1. PICK q \in Calls : /\ modbus_check_addr_num(q.function, q.num) /\ call' = q
                         /\ write_buff' = start_request(core, transfer_id', Slave, q)
  BY DEF Call
<1>2. /\ call = NoCall /\ frame' = write_buff' /\ pc' = "query"
      /\ core' = core /\ tables' = tables
  BY DEF Call
<1>3. transfer_id' \in UInt16
  <2>1. \A n \in Nat : n % 65536 \in Nat /\ n % 65536 < 65536
    OBVIOUS
  <2>2. transfer_id \in UInt16 /\ transfer_id \in Nat /\ transfer_id + 1 \in Nat
    BY WordsAre DEF IInv
  <2>3. (transfer_id + 1) % 65536 \in UInt16
    BY <2>1, <2>2, WordsAre
  <2> QED BY <2>2, <2>3 DEF Call
<1>4. Clear(q) /\ Tells(request_pdu(q), q)
  BY <1>1, CallIsClear, RequestTells
<1>5. Carries(write_buff', core, transfer_id', Slave, request_pdu(q))
  BY <1>1, <1>3, <1>4, SlaveByte, FrameCarries DEF IInv, Tells, start_request
<1>6. call' # NoCall
  BY <1>1, <1>4, FunctionsAre DEF Clear, NoCall
<1>7. Holds(tables)
  BY <1>2 DEF IInv
<1> QED BY <1>1, <1>2, <1>3, <1>4, <1>5, <1>6, <1>7 DEF IInv, Wire

LEMMA HandleKeeps ==
  ASSUME IInv, Handle
  PROVE  IInv'
<1>1. PICK refusal \in RefusalCodes, stale \in Stale :
        LET p == pdu(core, frame)
            tid == IF core = TcpCore THEN Word(frame, 1) ELSE 0
        IN  IF check_wait_request(core, frame, Slave) > 0
              THEN /\ tables' = slave_effect(query(p), tables)
                   /\ frame' = response(core, tid, Slave, p, tables, refusal, stale)
                   /\ expected' = handle_confirm(call, slave_answer(call, tables, refusal))
                   /\ pc' = "answer"
                   /\ UNCHANGED result
              ELSE /\ result' = Ended(MODBUS_TIMEOUT)
                   /\ pc' = "idle"
                   /\ UNCHANGED <<tables, frame, expected>>
  BY DEF Handle
<1>2. /\ pc = "query" /\ core' = core /\ transfer_id' = transfer_id /\ call' = call
      /\ write_buff' = write_buff /\ damaged' = damaged /\ pc' \in {"idle", "answer"}
  BY DEF Handle
<1>3. /\ core \in {RtuCore, TcpCore} /\ transfer_id \in UInt16
      /\ call # NoCall /\ Clear(call) /\ Wire(write_buff, request_pdu(call)) /\ Holds(tables)
  BY <1>2 DEF IInv
<1>4. CASE damaged
  BY <1>2, <1>3, <1>4 DEF IInv, Wire
<1>5. CASE ~ damaged
  <2> DEFINE p == request_pdu(call)
             tid == IF core = TcpCore THEN Word(frame, 1) ELSE 0
             bytes == response_pdu(p, tables, refusal, stale)
             a == slave_answer(call, tables, refusal)
  <2>1. Tells(p, call)
    BY <1>3, RequestTells
  <2>2. Carries(frame, core, transfer_id, Slave, p)
    BY <1>2, <1>3, <1>5 DEF IInv, Wire
  <2>3. /\ check_wait_request(core, frame, Slave) > 0
        /\ pdu(core, frame) = p
    <3>1. p \in Seq(Byte)
      BY <2>1 DEF Tells
    <3> QED BY <1>3, <2>2, <3>1, CarriedIsTaken DEF Carries
  <2>4. tid \in UInt16 /\ (core = TcpCore => tid = transfer_id)
    <3>1. 0 \in UInt16
      BY WordsAre
    <3> QED BY <1>3, <2>2, <3>1 DEF Carries
  <2> HIDE DEF tid
  <2>5. /\ frame' = response(core, tid, Slave, p, tables, refusal, stale)
        /\ expected' = handle_confirm(call, a) /\ pc' = "answer"
    BY <1>1, <2>3 DEF tid
  <2>6. Means(p, call, bytes, a)
    BY <1>3, <2>1, StaleAssumption, AnswerMeans
  <2> HIDE DEF a, bytes
  <2>7. Carries(frame', core, tid, Slave, bytes)
    <3>1. frame' = check_send_pre(core, header(core, tid, Slave) \o bytes)
      BY <2>5 DEF response, bytes
    <3>2. bytes \in Seq(Byte) /\ Len(bytes) <= 253
      BY <2>6 DEF Means
    <3> QED BY <1>3, <2>4, <3>1, <3>2, SlaveByte, FrameCarries
  <2>8. Carries(frame', core, transfer_id, Slave, bytes)
    BY <2>4, <2>7 DEF Carries
  <2>9. Answered'
    BY <1>2, <2>5, <2>6, <2>8 DEF Answered, Wire
  <2> QED BY <1>2, <1>3, <2>5, <2>9 DEF IInv, Wire
<1> QED BY <1>4, <1>5

LEMMA ConfirmKeeps ==
  ASSUME IInv, Confirm
  PROVE  IInv'
<1>1. /\ pc = "answer" /\ pc' = "idle" /\ core' = core /\ transfer_id' = transfer_id
      /\ tables' = tables /\ call' = call /\ write_buff' = write_buff
      /\ damaged' = damaged /\ expected' = expected
  BY DEF Confirm
<1>2. /\ core \in {RtuCore, TcpCore} /\ transfer_id \in UInt16
      /\ call # NoCall /\ Clear(call) /\ Wire(write_buff, request_pdu(call))
  BY <1>1 DEF IInv
<1>3. CASE damaged
  BY <1>1, <1>2, <1>3 DEF IInv, Wire
<1>4. CASE ~ damaged
  <2>1. PICK bytes, a : /\ Means(request_pdu(call), call, bytes, a)
                        /\ Carries(frame, core, transfer_id, Slave, bytes)
                        /\ expected = handle_confirm(call, a)
    BY <1>1, <1>4 DEF IInv, Answered, Wire
  <2>2. check_wait_response(core, frame, Slave, transfer_id) > 0
    <3>1. bytes \in Seq(Byte)
      BY <2>1 DEF Means
    <3> QED BY <1>2, <2>1, <3>1, CarriedIsTaken
  <2>3. pdu(core, write_buff) = request_pdu(call) /\ pdu(core, frame) = bytes
    BY <1>2, <2>1 DEF Wire, Carries
  <2>4. result' = confirm(request_pdu(call), bytes)
    BY <2>2, <2>3 DEF Confirm
  <2>5. Same(result', expected')
    BY <1>1, <2>1, <2>4 DEF Means
  <2> QED BY <1>1, <1>2, <2>5 DEF IInv, Wire
<1> QED BY <1>3, <1>4

LEMMA StepIInv ==
  ASSUME Spellable, IInv, [Next]_vars
  PROVE  IInv'
<1>1. CASE Call
  BY <1>1, CallKeeps
<1>2. CASE Damage
  BY <1>2 DEF Damage, IInv, Wire
<1>3. CASE Handle
  BY <1>3, HandleKeeps
<1>4. CASE Confirm
  BY <1>4, ConfirmKeeps
<1>5. CASE UNCHANGED vars
  BY <1>5 DEF vars, IInv, Wire, Answered
<1> QED BY <1>1, <1>2, <1>3, <1>4, <1>5 DEF Next

LEMMA Invariant ==
  ASSUME Spellable
  PROVE  Spec => []IInv
<1>1. IInv /\ [Next]_vars => IInv'
  BY StepIInv
<1> QED BY <1>1, InitIInv, PTL DEF Spec

LEMMA QueryIsHeard ==
  ASSUME IInv, pc = "query", ~ damaged
  PROVE  query(pdu(core, frame)) = Heard(call) /\ Clear(call)
<1>1. Clear(call) /\ Wire(frame, request_pdu(call))
  BY DEF IInv
<1>2. Tells(request_pdu(call), call)
  BY <1>1, RequestTells
<1> QED BY <1>1, <1>2 DEF Wire, Carries, Tells

\* Nobody sets a single coil: a write of one writes what modbus_write_bit can say.
OnlyClears == \A q \in Calls : q.function = 5 => q.data = HeardData(q)

\* The slave reads out of the bytes of a request what the master was called
\* with: modbus_start_request and modbus_slave_handle agree for any addresses,
\* quantities and cells a frame can say, on both cores, but for the state of a
\* single coil.
THEOREM RequestsUnderstood ==
  ASSUME Spellable, OnlyClears
  PROVE  Spec => []QueryUnderstood
<1> DEFINE Cleared == call # NoCall => call \in Calls
<1>1. Init => Cleared
  BY DEF Init
<1>2. Cleared /\ [Next]_vars => Cleared'
  BY DEF Cleared, Next, vars, Call, Damage, Handle, Confirm
<1>3. IInv /\ Cleared => QueryUnderstood
  <2> SUFFICES ASSUME IInv, Cleared, pc = "query", ~ damaged
               PROVE  query(pdu(core, frame)) = call
    BY DEF QueryUnderstood
  <2>1. call \in Calls
    BY DEF IInv
  <2>2. HeardData(call) = call.data
    BY <2>1 DEF OnlyClears, HeardData
  <2> QED BY <2>2, QueryIsHeard, RequestIs DEF Heard
<1> QED BY <1>1, <1>2, <1>3, Invariant, PTL DEF Spec

\* modbus_write_bit never asks for anything but 0, whatever status it is given:
\* the coil of exchange_coil is no special case.
BitIsLost ==
  pc = "query" /\ ~ damaged /\ call.function = 5 => query(pdu(core, frame)).data = <<0>>

THEOREM SingleCoilIsLost ==
  ASSUME Spellable
  PROVE  Spec => []BitIsLost
<1>1. IInv => BitIsLost
  BY QueryIsHeard DEF BitIsLost, Heard, HeardData
<1> QED BY <1>1, Invariant, PTL

\* The master makes of the bytes that came back what Pdu makes of the answer as a
\* record, exceptions and answers of fewer cells than were asked for included:
\* Transaction may take frames for records.
THEOREM AnswersUnderstood ==
  ASSUME Spellable
  PROVE  Spec => []AnswerUnderstood
<1>1. IInv => AnswerUnderstood
  BY DEF IInv, AnswerUnderstood
<1> QED BY <1>1, Invariant, PTL

-----------------------------------------------------------------------------
(***************************************************************************)
(* A bit turned over on the line.                                          *)
(***************************************************************************)
\* One bit of a frame the other way round.
Turned(f, i, bit) ==
  dio_set_val(f, 8 * (i - 1) + bit, 1 - dio_get_val(f, 8 * (i - 1) + bit))

TurnedByte(byte, bit) == byte + ((1 - Bit(byte, bit)) - Bit(byte, bit)) * Weight[bit + 1]

LEMMA TurnedIs ==
  ASSUME NEW f \in Seq(Byte), NEW i \in 1 .. Len(f), NEW bit \in 0 .. 7
  PROVE  /\ Turned(f, i, bit) = [f EXCEPT ![i] = TurnedByte(f[i], bit)]
         /\ f[i] \in Int /\ TurnedByte(f[i], bit) \in Int /\ TurnedByte(f[i], bit) # f[i]
<1> DEFINE x == 8 * (i - 1) + bit
<1>1. x \div 8 + 1 = i /\ x % 8 = bit
  OBVIOUS
<1> HIDE DEF x
<1>2. dio_get_val(f, x) = Bit(f[i], bit)
  BY <1>1 DEF dio_get_val
<1>3. Turned(f, i, bit) = [f EXCEPT ![i] = TurnedByte(f[i], bit)]
  BY <1>1, <1>2 DEF Turned, dio_set_val, TurnedByte, x
<1>4. f[i] \in Byte /\ f[i] \in Int
  BY BytesAre
<1>5. Bit(f[i], bit) \in {0, 1}
  BY <1>4, BitRange
<1>6. bit + 1 \in 1 .. 8 /\ Weight[bit + 1] \in {1, 2, 4, 8, 16, 32, 64, 128}
  BY DEF Weight
<1>7. TurnedByte(f[i], bit) \in Int /\ TurnedByte(f[i], bit) # f[i]
  <2> DEFINE w == Weight[bit + 1]
             c == Bit(f[i], bit)
  <2>1. TurnedByte(f[i], bit) = f[i] + ((1 - c) - c) * w
    BY DEF TurnedByte
  <2>2. w \in Nat /\ w > 0 /\ c \in {0, 1}
    BY <1>5, <1>6
  <2> HIDE DEF w, c
  <2>3. ((1 - c) - c) * w \in {w, -w}
    <3>1. CASE c = 0
      BY <2>2, <3>1
    <3>2. CASE c = 1
      BY <2>2, <3>2
    <3> QED BY <2>2, <3>1, <3>2
  <2> QED BY <1>4, <2>1, <2>2, <2>3
<1> QED BY <1>3, <1>4, <1>7

LEMMA TurnedByteIsByte ==
  ASSUME NEW byte \in Byte, NEW bit \in 0 .. 7
  PROVE  TurnedByte(byte, bit) \in Byte
<1> DEFINE Turn(w) == byte + ((1 - ((byte \div w) % 2)) - ((byte \div w) % 2)) * w
<1>1. byte \in Nat /\ byte < 256
  BY BytesAre
<1>2. \A w \in {1, 2, 4, 8, 16, 32, 64, 128} : Turn(w) \in Nat /\ Turn(w) < 256
  BY <1>1
<1>3. bit + 1 \in 1 .. 8 /\ Weight[bit + 1] \in {1, 2, 4, 8, 16, 32, 64, 128}
  BY DEF Weight
<1>4. TurnedByte(byte, bit) = Turn(Weight[bit + 1])
  BY DEF TurnedByte, Bit
<1> HIDE DEF Turn
<1> QED BY <1>2, <1>3, <1>4, BytesAre

\* What the checksum is for: with one bit turned over the bytes have another.
LEMMA NoticesOneBit ==
  ASSUME NEW b \in Seq(Byte), NEW i \in 1 .. Len(b), NEW bit \in 0 .. 7
  PROVE  modbus_crc16(Turned(b, i, bit)) # modbus_crc16(b)
<1> DEFINE t == TurnedByte(b[i], bit)
           g == Turned(b, i, bit)
<1>1. g = [b EXCEPT ![i] = t] /\ t # b[i]
  BY TurnedIs
<1>2. b[i] \in Byte
  OBVIOUS
<1>3. t \in Byte
  BY <1>2, TurnedByteIsByte
<1> HIDE DEF t, g
<1>4. /\ g \in Seq(Byte) /\ Len(g) = Len(b)
      /\ \A j \in 1 .. Len(b) : g[j] = IF j = i THEN t ELSE b[j]
  BY <1>1, <1>3, ExceptSeq
<1>5. g[i] # b[i] /\ \A j \in 1 .. Len(b) : j # i => g[j] = b[j]
  BY <1>1, <1>4
<1>6. modbus_crc16(g) # modbus_crc16(b)
  BY <1>4, <1>5, NoticesOneByte
<1> QED BY <1>6 DEF g

LEMMA BeginningTurned ==
  ASSUME NEW f \in Seq(Int), NEW m \in 1 .. Len(f), NEW i \in 1 .. Len(f), NEW t \in Int
  PROVE  SubSeq([f EXCEPT ![i] = t], 1, m)
           = IF i <= m THEN [SubSeq(f, 1, m) EXCEPT ![i] = t] ELSE SubSeq(f, 1, m)
<1> DEFINE g == [f EXCEPT ![i] = t]
           a == SubSeq(g, 1, m)
           b == SubSeq(f, 1, m)
           c == IF i <= m THEN [b EXCEPT ![i] = t] ELSE b
<1>1. /\ g \in Seq(Int) /\ Len(g) = Len(f)
      /\ \A j \in 1 .. Len(f) : g[j] = IF j = i THEN t ELSE f[j]
  BY ExceptSeq
<1> HIDE DEF g
<1>2. m \in Int /\ 1 \in Int /\ (\A j \in 1 .. m : g[j] \in Int) /\ (\A j \in 1 .. m : f[j] \in Int)
  BY <1>1
<1>3. /\ a \in Seq(Int) /\ Len(a) = m
      /\ \A j \in 1 .. m : a[j] = g[j]
  <2>1. /\ a \in Seq(Int) /\ Len(a) = IF 1 <= m THEN m - 1 + 1 ELSE 0
        /\ \A j \in 1 .. m - 1 + 1 : a[j] = g[1 + j - 1]
    BY <1>2, SubSeqProperties
  <2> HIDE DEF a
  <2> QED BY <2>1
<1>4. /\ b \in Seq(Int) /\ Len(b) = m
      /\ \A j \in 1 .. m : b[j] = f[j]
  <2>1. /\ b \in Seq(Int) /\ Len(b) = IF 1 <= m THEN m - 1 + 1 ELSE 0
        /\ \A j \in 1 .. m - 1 + 1 : b[j] = f[1 + j - 1]
    BY <1>2, SubSeqProperties
  <2> HIDE DEF b
  <2> QED BY <2>1
<1> HIDE DEF a, b
<1>5. /\ c \in Seq(Int) /\ Len(c) = m
      /\ \A j \in 1 .. m : c[j] = IF j = i THEN t ELSE f[j]
  <2>1. CASE i <= m
    BY <1>4, <2>1, ExceptSeq
  <2>2. CASE ~ i <= m
    BY <1>4, <2>2
  <2> QED BY <2>1, <2>2
<1> HIDE DEF c
<1>6. a = c
  <2>1. ASSUME NEW j \in 1 .. m
        PROVE  a[j] = c[j]
    <3>1. j \in 1 .. Len(f)
      OBVIOUS
    <3> QED BY <1>1, <1>3, <1>5, <3>1
  <2> QED BY <1>3, <1>5, <2>1, SeqEqual
<1> QED BY <1>6 DEF a, b, c, g

\* Then no serial frame is whole with one bit turned over, be it of the checksum.
LEMMA NotIntact ==
  ASSUME NEW f \in Seq(Byte), Len(f) >= 3, Intact(RtuCore, f),
         NEW i \in 1 .. Len(f), NEW bit \in 0 .. 7
  PROVE  ~ Intact(RtuCore, Turned(f, i, bit))
<1> DEFINE n == Len(f)
           m == n - 2
           t == TurnedByte(f[i], bit)
           g == Turned(f, i, bit)
           b == SubSeq(f, 1, m)
<1>1. g = [f EXCEPT ![i] = t] /\ f[i] \in Int /\ t \in Int /\ t # f[i]
  BY TurnedIs
<1>2. f \in Seq(Int) /\ \A j \in 1 .. n : f[j] \in Int
  <2>1. Byte \subseteq Int
    BY BytesAre
  <2>2. f \in Seq(Int)
    BY <2>1, SeqMonotonic
  <2> QED BY <2>2
<1>3. n \in Nat /\ n >= 3 /\ m \in 1 .. n /\ n - 1 \in 1 .. n /\ n \in 1 .. n
  OBVIOUS
<1> HIDE DEF t, g
<1>9. /\ g \in Seq(Int) /\ Len(g) = n
      /\ \A j \in 1 .. n : g[j] = IF j = i THEN t ELSE f[j]
  <2>1. /\ [f EXCEPT ![i] = t] \in Seq(Int) /\ Len([f EXCEPT ![i] = t]) = Len(f)
        /\ \A j \in 1 .. Len(f) : [f EXCEPT ![i] = t][j] = IF j = i THEN t ELSE f[j]
    BY <1>1, <1>2, ExceptSeq
  <2> QED BY <1>1, <2>1
<1>4. SubSeq(g, 1, m) = IF i <= m THEN [b EXCEPT ![i] = t] ELSE b
  <2>1. m \in 1 .. Len(f)
    BY <1>3
  <2> HIDE DEF m
  <2>2. SubSeq([f EXCEPT ![i] = t], 1, m) = IF i <= m THEN [SubSeq(f, 1, m) EXCEPT ![i] = t]
                                                      ELSE SubSeq(f, 1, m)
    BY <1>1, <1>2, <2>1, BeginningTurned
  <2> QED BY <1>1, <2>2
<1>5. f[n - 1] + 256 * f[n] = modbus_crc16(b)
  BY <1>2 DEF Intact
<1>6. Intact(RtuCore, g) <=> g[n - 1] + 256 * g[n] = modbus_crc16(SubSeq(g, 1, m))
  BY <1>9 DEF Intact
<1>7. CASE i <= m
  <2>1. b \in Seq(Byte) /\ Len(b) = m /\ b[i] = f[i]
    <3>1. \A j \in 1 .. m : f[j] \in Byte
      BY <1>3
    <3>2. /\ b \in Seq(Byte) /\ Len(b) = IF 1 <= m THEN m - 1 + 1 ELSE 0
          /\ \A j \in 1 .. m - 1 + 1 : b[j] = f[1 + j - 1]
      <4>1. 1 \in Int /\ m \in Int
        BY <1>3
      <4> HIDE DEF m
      <4> QED BY <3>1, <4>1, SubSeqProperties
    <3> HIDE DEF b
    <3> QED BY <1>3, <1>7, <3>2
  <2> HIDE DEF b
  <2>2. i \in 1 .. Len(b)
    BY <1>3, <1>7, <2>1
  <2>3. Turned(b, i, bit) = [b EXCEPT ![i] = t]
    BY <2>1, <2>2, TurnedIs DEF t
  <2>4. modbus_crc16(SubSeq(g, 1, m)) # modbus_crc16(b)
    BY <1>4, <1>7, <2>1, <2>2, <2>3, NoticesOneBit
  <2>5. g[n - 1] = f[n - 1] /\ g[n] = f[n]
    <3>1. n - 1 # i /\ n # i
      BY <1>3, <1>7
    <3> QED BY <1>3, <1>9, <3>1
  <2> QED BY <1>5, <1>6, <2>4, <2>5 DEF g
<1>8. CASE ~ i <= m
  <2>1. SubSeq(g, 1, m) = b
    BY <1>4, <1>8
  <2>2. i = n - 1 \/ i = n
    BY <1>3, <1>8
  <2>3. g[n - 1] + 256 * g[n] # f[n - 1] + 256 * f[n]
    <3>1. f[n - 1] \in Int /\ f[n] \in Int
      BY <1>2, <1>3
    <3>2. CASE i = n - 1
      <4>1. g[n - 1] = t /\ g[n] = f[n]
        <5>1. n # i /\ n - 1 = i
          BY <1>3, <3>2
        <5> QED BY <1>3, <1>9, <5>1
      <4> QED BY <1>1, <3>1, <3>2, <4>1
    <3>3. CASE i = n
      <4>1. g[n - 1] = f[n - 1] /\ g[n] = t
        <5>1. n = i /\ n - 1 # i
          BY <1>3, <3>3
        <5> QED BY <1>3, <1>9, <5>1
      <4> QED BY <1>1, <3>1, <3>3, <4>1
    <3> QED BY <2>2, <3>2, <3>3
  <2> QED BY <1>5, <1>6, <2>1, <2>3 DEF g
<1> QED BY <1>7, <1>8

\* A damaged frame shows it.
Marked == damaged => core = RtuCore /\ (pc # "idle" => ~ Intact(RtuCore, frame))

LEMMA DamageMarks ==
  ASSUME IInv, Damage
  PROVE  Marked'
<1>1. /\ core = RtuCore /\ core' = core /\ pc # "idle" /\ ~ damaged /\ pc' = pc
  BY DEF Damage
<1>2. PICK i \in DOMAIN frame, bit \in 0 .. 7 : frame' = Turned(frame, i, bit)
  BY DEF Damage, Turned
<1>3. \E p \in Seq(Byte) : Wire(frame, p)
  <2>1. CASE pc = "query"
    <3>1. Clear(call) /\ Wire(frame, request_pdu(call))
      BY <1>1, <2>1 DEF IInv
    <3>2. request_pdu(call) \in Seq(Byte)
      BY <3>1, RequestTells DEF Tells
    <3> QED BY <3>1, <3>2
  <2>2. CASE pc = "answer"
    BY <1>1, <2>2 DEF IInv, Answered, Means
  <2> QED BY <1>1, <2>1, <2>2 DEF IInv
<1>4. frame \in Seq(Byte) /\ Len(frame) >= 3 /\ Intact(RtuCore, frame)
  <2>1. PICK p \in Seq(Byte) : Carries(frame, RtuCore, transfer_id, Slave, p)
    BY <1>1, <1>3 DEF Wire
  <2>2. Len(p) \in Nat
    OBVIOUS
  <2> QED BY <2>1, <2>2 DEF Carries, RtuCore
<1> QED BY <1>1, <1>2, <1>4, NotIntact DEF Marked

\* What a slave or a master does that finds a frame damaged.
LEMMA SlaveIsSilent ==
  ASSUME Marked, damaged, Handle
  PROVE  pc' = "idle" /\ tables' = tables
<1>1. pc = "query" /\ core = RtuCore /\ ~ Intact(core, frame)
  BY DEF Handle, Marked
<1>2. ~ check_wait_request(core, frame, Slave) > 0
  BY <1>1 DEF check_wait_request, MODBUS_FAIL_CHECK
<1> QED BY <1>2 DEF Handle

LEMMA CallFails ==
  ASSUME Marked, damaged, Confirm
  PROVE  result'.ret = MODBUS_FAIL_CHECK
<1>1. pc = "answer" /\ core = RtuCore /\ ~ Intact(core, frame)
  BY DEF Confirm, Marked
<1>2. check_wait_response(core, frame, Slave, transfer_id) = MODBUS_FAIL_CHECK
  BY <1>1 DEF check_wait_response
<1>3. result' = Ended(MODBUS_FAIL_CHECK)
  BY <1>2 DEF Confirm, MODBUS_FAIL_CHECK
<1> QED BY <1>3 DEF Ended

LEMMA StepMarked ==
  ASSUME IInv, Marked, [Next]_vars
  PROVE  Marked'
<1>1. CASE Call
  BY <1>1 DEF Call, Marked
<1>2. CASE Damage
  BY <1>2, DamageMarks
<1>3. CASE Handle
  <2>1. damaged' = damaged /\ core' = core
    BY <1>3 DEF Handle
  <2> QED BY <1>3, <2>1, SlaveIsSilent DEF Marked
<1>4. CASE Confirm
  BY <1>4 DEF Confirm, Marked
<1>5. CASE UNCHANGED vars
  BY <1>5 DEF vars, Marked
<1> QED BY <1>1, <1>2, <1>3, <1>4, <1>5 DEF Next

\* A frame in which the line has turned a bit over is taken by nobody, whatever
\* it asked or answered and whichever bit it was, be it of the checksum:
\* modbus_crc16 notices it, and check_wait_request and check_wait_response look at
\* the whole frame, and before anything else.
THEOREM DamageNoticed ==
  ASSUME Spellable
  PROVE  Spec => DamageIsNoticed
<1>1. Init => Marked
  BY DEF Init, Marked
<1>2. IInv /\ Marked /\ [Next]_vars => Marked'
  BY StepMarked
<1> DEFINE Step == /\ damaged /\ pc = "query" => tables' = tables
                   /\ damaged /\ pc = "answer" /\ pc' = "idle" => result'.ret = MODBUS_FAIL_CHECK
<1>3. Marked /\ [Next]_vars => [Step]_vars
  <2> SUFFICES ASSUME Marked, Next PROVE Step
    OBVIOUS
  <2>1. CASE Call
    BY <2>1 DEF Call
  <2>2. CASE Damage
    BY <2>2 DEF Damage
  <2>3. CASE Handle
    BY <2>3, SlaveIsSilent DEF Handle
  <2>4. CASE Confirm
    BY <2>4, CallFails DEF Confirm
  <2> QED BY <2>1, <2>2, <2>3, <2>4 DEF Next
<1> QED BY <1>1, <1>2, <1>3, Invariant, PTL DEF Spec, DamageIsNoticed

=============================================================================
