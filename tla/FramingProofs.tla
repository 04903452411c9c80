--------------------------- MODULE FramingProofs ---------------------------
(***************************************************************************)
(* What the header says of the length is what the receiver reads, and what *)
(* one side masks the other unmasks, for every length and every byte.      *)
(* Then for the decoder: what FlattenSeq makes of one part more, at either *)
(* end; how the bytes of a frame divide into head, length, key and data;   *)
(* that each part is read back; and the bytes of a stream of frames.       *)
(***************************************************************************)
EXTENDS Framing, SequencesExt, SequenceTheorems, TLAPS, WellFoundedInduction

(* A payload length that takes 16 bits survives the header. *)
THEOREM Length16RoundTrip ==
    ASSUME NEW n \in Nat, n < 65536
    PROVE  UInt16(UInt16Bytes(n)) = n
<1>1. n \div 256 \in Nat /\ n \div 256 < 256
  BY Z3
<1> QED
  BY <1>1, SMT DEF UInt16, UInt16Bytes

(* One byte more of a number, as Horner's rule puts it back. *)
LEMMA Horner ==
    ASSUME NEW n \in Nat
    PROVE  /\ n \div 256 \in Nat
           /\ n % 256 \in 0 .. 255
           /\ 256 * (n \div 256) + (n % 256) = n
  BY SMT

(* So does one that takes 64 bits, of which frame() writes the lower 48. *)
THEOREM Length64RoundTrip ==
    ASSUME NEW n \in Nat, n < 256 * 256 * 256 * 256 * 256 * 256
    PROVE  /\ UInt64(UInt64Bytes(n)) = n
           /\ ~Unsafe(UInt64Bytes(n))
<1> DEFINE n1 == n \div 256
           n2 == n1 \div 256
           n3 == n2 \div 256
           n4 == n3 \div 256
           n5 == n4 \div 256
<1>1. n1 \in Nat /\ 256 * n1 + (n % 256) = n
  BY Horner
<1>2. n2 \in Nat /\ 256 * n2 + (n1 % 256) = n1
  BY <1>1, Horner
<1>3. n3 \in Nat /\ 256 * n3 + (n2 % 256) = n2
  BY <1>2, Horner
<1>4. n4 \in Nat /\ 256 * n4 + (n3 % 256) = n3
  BY <1>3, Horner
<1>5. n5 \in Nat /\ 256 * n5 + (n4 % 256) = n4
  BY <1>4, Horner
<1> HIDE DEF n1, n2, n3, n4, n5
<1>6. /\ n1 < 256 * 256 * 256 * 256 * 256
      /\ n % 256 >= 0 /\ n1 % 256 >= 0 /\ n2 % 256 >= 0 /\ n3 % 256 >= 0 /\ n4 % 256 >= 0
  BY <1>1, <1>2, <1>3, <1>4, Horner, SMT
<1>7. n2 < 256 * 256 * 256 * 256
  BY <1>2, <1>6, <1>1, SMT
<1>8. n3 < 256 * 256 * 256
  BY <1>3, <1>7, <1>6, <1>2, SMT
<1>9. n4 < 256 * 256
  BY <1>4, <1>8, <1>6, <1>3, SMT
<1>10. n5 % 256 = n5
  BY <1>5, <1>9, <1>6, <1>4, SMT
<1>11. UInt64Bytes(n) = <<0, 0, n5 % 256, n4 % 256, n3 % 256, n2 % 256, n1 % 256, n % 256>>
  BY DEF UInt64Bytes, n1, n2, n3, n4, n5
<1>12. 256 * (256 * 0 + 0) + (n5 % 256) = n5
  BY <1>10, <1>5, SMT
<1>13. UInt64(UInt64Bytes(n)) = n
  BY <1>11, <1>12, <1>1, <1>2, <1>3, <1>4, <1>5 DEF UInt64
<1> QED
  BY <1>11, <1>13 DEF Unsafe

-----------------------------------------------------------------------------
(* A byte is the sum of its bits. *)
Bits(z0, z1, z2, z3, z4, z5, z6, z7) == z0 + 2 * z1 + 4 * z2 + 8 * z3 + 16 * z4 + 32 * z5 + 64 * z6 + 128 * z7

LEMMA BitsDiffer ==
    ASSUME NEW z0 \in {0, 1}, NEW z1 \in {0, 1}, NEW z2 \in {0, 1}, NEW z3 \in {0, 1},
           NEW z4 \in {0, 1}, NEW z5 \in {0, 1}, NEW z6 \in {0, 1}, NEW z7 \in {0, 1}
    PROVE  /\ Bits(z0, z1, z2, z3, z4, z5, z6, z7) \in Byte
           /\ (Bits(z0, z1, z2, z3, z4, z5, z6, z7) \div 1) % 2 = z0
           /\ (Bits(z0, z1, z2, z3, z4, z5, z6, z7) \div 2) % 2 = z1
           /\ (Bits(z0, z1, z2, z3, z4, z5, z6, z7) \div 4) % 2 = z2
           /\ (Bits(z0, z1, z2, z3, z4, z5, z6, z7) \div 8) % 2 = z3
           /\ (Bits(z0, z1, z2, z3, z4, z5, z6, z7) \div 16) % 2 = z4
           /\ (Bits(z0, z1, z2, z3, z4, z5, z6, z7) \div 32) % 2 = z5
           /\ (Bits(z0, z1, z2, z3, z4, z5, z6, z7) \div 64) % 2 = z6
           /\ (Bits(z0, z1, z2, z3, z4, z5, z6, z7) \div 128) % 2 = z7
<1> DEFINE n == Bits(z0, z1, z2, z3, z4, z5, z6, z7)
<1>0. n \in Nat /\ n = z0 + 2 * z1 + 4 * z2 + 8 * z3 + 16 * z4 + 32 * z5 + 64 * z6 + 128 * z7 /\ n < 256
  BY DEF Bits
<1> HIDE DEF n
<1>1. (n \div 1) % 2 = z0
  BY <1>0, SMT
<1>2. (n \div 2) % 2 = z1
  BY <1>0, SMT
<1>3. (n \div 4) % 2 = z2
  BY <1>0, SMT
<1>4. (n \div 8) % 2 = z3
  BY <1>0, SMT
<1>5. (n \div 16) % 2 = z4
  BY <1>0, SMT
<1>6. (n \div 32) % 2 = z5
  BY <1>0, SMT
<1>7. (n \div 64) % 2 = z6
  BY <1>0, SMT
<1>8. (n \div 128) % 2 = z7
  BY <1>0, SMT
<1> QED
  BY <1>0, <1>1, <1>2, <1>3, <1>4, <1>5, <1>6, <1>7, <1>8 DEF n, Byte

LEMMA ByteHasBits ==
    ASSUME NEW a \in Byte
    PROVE  \E z0, z1, z2, z3, z4, z5, z6, z7 \in {0, 1} : a = Bits(z0, z1, z2, z3, z4, z5, z6, z7)
<1> DEFINE d(w) == (a \div w) % 2
<1>0. a \in Nat /\ a < 256
  BY DEF Byte
<1>1. (a \div 1) % 2 \in {0, 1}
  BY <1>0, SMT
<1>2. (a \div 2) % 2 \in {0, 1}
  BY <1>0, SMT
<1>3. (a \div 4) % 2 \in {0, 1}
  BY <1>0, SMT
<1>4. (a \div 8) % 2 \in {0, 1}
  BY <1>0, SMT
<1>5. (a \div 16) % 2 \in {0, 1}
  BY <1>0, SMT
<1>6. (a \div 32) % 2 \in {0, 1}
  BY <1>0, SMT
<1>7. (a \div 64) % 2 \in {0, 1}
  BY <1>0, SMT
<1>8. (a \div 128) % 2 \in {0, 1}
  BY <1>0, SMT
<1>9. a = ((a \div 1) % 2) + 2 * ((a \div 2) % 2) + 4 * ((a \div 4) % 2) + 8 * ((a \div 8) % 2) + 16 * ((a \div 16) % 2) + 32 * ((a \div 32) % 2) + 64 * ((a \div 64) % 2) + 128 * ((a \div 128) % 2)
  BY <1>0, SMT
<1> QED
  BY <1>1, <1>2, <1>3, <1>4, <1>5, <1>6, <1>7, <1>8, <1>9 DEF Bits

(* A byte masked twice with the same key byte is the byte. *)
THEOREM XorTwice ==
    ASSUME NEW a \in Byte, NEW b \in Byte
    PROVE  Xor(a, b) \in Byte /\ Xor(Xor(a, b), b) = a
<1>1. PICK x0, x1, x2, x3, x4, x5, x6, x7 \in {0, 1} : a = Bits(x0, x1, x2, x3, x4, x5, x6, x7)
  BY ByteHasBits
<1>2. PICK y0, y1, y2, y3, y4, y5, y6, y7 \in {0, 1} : b = Bits(y0, y1, y2, y3, y4, y5, y6, y7)
  BY ByteHasBits
<1> DEFINE c0 == IF x0 = y0 THEN 0 ELSE 1
           c1 == IF x1 = y1 THEN 0 ELSE 1
           c2 == IF x2 = y2 THEN 0 ELSE 1
           c3 == IF x3 = y3 THEN 0 ELSE 1
           c4 == IF x4 = y4 THEN 0 ELSE 1
           c5 == IF x5 = y5 THEN 0 ELSE 1
           c6 == IF x6 = y6 THEN 0 ELSE 1
           c7 == IF x7 = y7 THEN 0 ELSE 1
           c == Bits(c0, c1, c2, c3, c4, c5, c6, c7)
<1>3. c0 \in {0, 1} /\ c1 \in {0, 1} /\ c2 \in {0, 1} /\ c3 \in {0, 1} /\ c4 \in {0, 1} /\ c5 \in {0, 1} /\ c6 \in {0, 1} /\ c7 \in {0, 1}
  OBVIOUS
<1> HIDE DEF c0, c1, c2, c3, c4, c5, c6, c7
<1>4. /\ (a \div 1) % 2 = x0
      /\ (a \div 2) % 2 = x1
      /\ (a \div 4) % 2 = x2
      /\ (a \div 8) % 2 = x3
      /\ (a \div 16) % 2 = x4
      /\ (a \div 32) % 2 = x5
      /\ (a \div 64) % 2 = x6
      /\ (a \div 128) % 2 = x7
  BY <1>1, BitsDiffer
<1>5. /\ (b \div 1) % 2 = y0
      /\ (b \div 2) % 2 = y1
      /\ (b \div 4) % 2 = y2
      /\ (b \div 8) % 2 = y3
      /\ (b \div 16) % 2 = y4
      /\ (b \div 32) % 2 = y5
      /\ (b \div 64) % 2 = y6
      /\ (b \div 128) % 2 = y7
  BY <1>2, BitsDiffer
<1>6. /\ (c \div 1) % 2 = c0
      /\ (c \div 2) % 2 = c1
      /\ (c \div 4) % 2 = c2
      /\ (c \div 8) % 2 = c3
      /\ (c \div 16) % 2 = c4
      /\ (c \div 32) % 2 = c5
      /\ (c \div 64) % 2 = c6
      /\ (c \div 128) % 2 = c7
  BY <1>3, BitsDiffer
<1>7. /\ c \in Byte /\ c = Bits(c0, c1, c2, c3, c4, c5, c6, c7)
  BY <1>3, BitsDiffer
<1> HIDE DEF c
<1>8. Xor(a, b) = c
  <2>1. XorBit(a, b, 1) = c0
    BY <1>4, <1>5 DEF XorBit, c0
  <2>2. XorBit(a, b, 2) = 2 * c1
    BY <1>4, <1>5 DEF XorBit, c1
  <2>3. XorBit(a, b, 4) = 4 * c2
    BY <1>4, <1>5 DEF XorBit, c2
  <2>4. XorBit(a, b, 8) = 8 * c3
    BY <1>4, <1>5 DEF XorBit, c3
  <2>5. XorBit(a, b, 16) = 16 * c4
    BY <1>4, <1>5 DEF XorBit, c4
  <2>6. XorBit(a, b, 32) = 32 * c5
    BY <1>4, <1>5 DEF XorBit, c5
  <2>7. XorBit(a, b, 64) = 64 * c6
    BY <1>4, <1>5 DEF XorBit, c6
  <2>8. XorBit(a, b, 128) = 128 * c7
    BY <1>4, <1>5 DEF XorBit, c7
  <2> QED
    BY <2>1, <2>2, <2>3, <2>4, <2>5, <2>6, <2>7, <2>8, <1>7 DEF Xor, Bits
<1>9. Xor(c, b) = a
  <2>1. XorBit(c, b, 1) = x0
    BY <1>6, <1>5 DEF XorBit, c0
  <2>2. XorBit(c, b, 2) = 2 * x1
    BY <1>6, <1>5 DEF XorBit, c1
  <2>3. XorBit(c, b, 4) = 4 * x2
    BY <1>6, <1>5 DEF XorBit, c2
  <2>4. XorBit(c, b, 8) = 8 * x3
    BY <1>6, <1>5 DEF XorBit, c3
  <2>5. XorBit(c, b, 16) = 16 * x4
    BY <1>6, <1>5 DEF XorBit, c4
  <2>6. XorBit(c, b, 32) = 32 * x5
    BY <1>6, <1>5 DEF XorBit, c5
  <2>7. XorBit(c, b, 64) = 64 * x6
    BY <1>6, <1>5 DEF XorBit, c6
  <2>8. XorBit(c, b, 128) = 128 * x7
    BY <1>6, <1>5 DEF XorBit, c7
  <2> QED
    BY <1>1, <2>1, <2>2, <2>3, <2>4, <2>5, <2>6, <2>7, <2>8 DEF Xor, Bits
<1> QED
  BY <1>7, <1>8, <1>9

(* unmask() of what mask() made is the payload, whatever the key. *)
THEOREM UnmaskMasked ==
    ASSUME NEW bytes \in Seq(Byte), NEW key \in [1 .. 4 -> Byte]
    PROVE  /\ Masked(bytes, key) \in Seq(Byte)
           /\ Len(Masked(bytes, key)) = Len(bytes)
           /\ Masked(Masked(bytes, key), key) = bytes
<1> DEFINE k(i) == key[((i - 1) % 4) + 1]
           m == Masked(bytes, key)
<1>1. \A i \in 1 .. Len(bytes) : k(i) \in Byte /\ bytes[i] \in Byte
  <2> SUFFICES ASSUME NEW i \in 1 .. Len(bytes) PROVE ((i - 1) % 4) + 1 \in 1 .. 4 /\ i \in 1 .. Len(bytes)
    OBVIOUS
  <2> QED
    BY SMT
<1>2. m = [i \in 1 .. Len(bytes) |-> Xor(bytes[i], k(i))]
  BY DEF Masked
<1> HIDE DEF k
<1>3. m \in [1 .. Len(bytes) -> Byte]
  BY <1>1, <1>2, XorTwice
<1>4. m \in Seq(Byte) /\ Len(m) = Len(bytes)
  BY <1>2, <1>3
<1>5. Masked(m, key) = [i \in 1 .. Len(bytes) |-> Xor(m[i], k(i))]
  BY <1>4 DEF Masked, k
<1>6. \A i \in 1 .. Len(bytes) : Xor(m[i], k(i)) = bytes[i]
  BY <1>1, <1>2, XorTwice
<1> QED
  BY <1>4, <1>5, <1>6

-----------------------------------------------------------------------------
(* Induction over the naturals, for a set of numbers. *)
LEMMA SetInduction ==
    ASSUME NEW T, 0 \in T, \A n \in Nat : n \in T => n + 1 \in T
    PROVE  \A n \in Nat : n \in T
<1> DEFINE M == Nat \ T
           R == OpToRel(<, Nat)
<1> SUFFICES ASSUME M # {} PROVE FALSE
  OBVIOUS
<1>1. M \subseteq Nat
  OBVIOUS
<1> HIDE DEF M, R
<1>2. PICK n \in M : \A m \in M : ~(<<m, n>> \in R)
  BY <1>1, NatLessThanWellFounded, WFMin DEF R
<1>3. ASSUME NEW m \in M PROVE ~(m < n)
  BY <1>1, <1>2, Zenon DEF R, OpToRel
<1>4. n \in Nat /\ n # 0 /\ n \notin T
  BY <1>1, <1>2 DEF M
<1>5. n - 1 \in Nat /\ n - 1 < n /\ (n - 1) + 1 = n
  BY <1>4
<1>6. n - 1 \in T
  BY <1>3, <1>5 DEF M
<1> QED BY <1>4, <1>5, <1>6

(* f concatenates ss from the left. *)
IsFlat(ss, f) == f = [i \in 1 .. Len(ss) |-> IF i = 1 THEN ss[i] ELSE f[i - 1] \o ss[i]]

(* Its values, one at a time. *)
LEMMA FlatEquations ==
    ASSUME NEW ss, Len(ss) \in Nat, NEW f, IsFlat(ss, f), NEW i \in 1 .. Len(ss)
    PROVE  f[i] = IF i = 1 THEN ss[i] ELSE f[i - 1] \o ss[i]
BY DEF IsFlat

(* Such a function exists, for every sequence. *)
LEMMA FlatExists ==
    ASSUME NEW ss, Len(ss) \in Nat
    PROVE  \E f : IsFlat(ss, f)
<1> DEFINE Upto(n, f) == f = [i \in 1 .. n |-> IF i = 1 THEN ss[i] ELSE f[i - 1] \o ss[i]]
           T == {n \in Nat : \E f : Upto(n, f)}
<1>1. 0 \in T
  <2>1. Upto(0, [i \in 1 .. 0 |-> 0])
    OBVIOUS
  <2> QED BY <2>1
<1>2. ASSUME NEW n \in Nat, n \in T
      PROVE  n + 1 \in T
  <2>1. PICK f : Upto(n, f)
    BY <1>2
  <2> DEFINE last == IF n = 0 THEN ss[1] ELSE f[n] \o ss[n + 1]
             g == [i \in 1 .. (n + 1) |-> IF i = n + 1 THEN last ELSE f[i]]
  <2>2. ASSUME NEW i \in 1 .. (n + 1)
        PROVE  g[i] = IF i = 1 THEN ss[i] ELSE g[i - 1] \o ss[i]
    <3>1. CASE i = n + 1
      <4>1. i # 1 => i - 1 = n /\ n \in 1 .. (n + 1) /\ n # n + 1
        BY <3>1
      <4> QED BY <3>1, <4>1
    <3>2. CASE i # n + 1
      <4>1. i \in 1 .. n
        BY <3>2
      <4>2. f[i] = IF i = 1 THEN ss[i] ELSE f[i - 1] \o ss[i]
        BY <2>1, <4>1
      <4>3. i # 1 => i - 1 \in 1 .. (n + 1) /\ i - 1 # n + 1
        BY <4>1
      <4> QED BY <3>2, <4>2, <4>3
    <3> QED BY <3>1, <3>2
  <2>3. g = [i \in 1 .. (n + 1) |-> IF i = 1 THEN ss[i] ELSE g[i - 1] \o ss[i]]
    <3> HIDE DEF last
    <3>1. g = [i \in 1 .. (n + 1) |-> g[i]]
      OBVIOUS
    <3> HIDE DEF g
    <3> QED BY <2>2, <3>1
  <2>4. Upto(n + 1, g)
    BY <2>3
  <2> HIDE DEF g, Upto
  <2>5. \E h : Upto(n + 1, h)
    BY <2>4
  <2> QED BY <2>5
<1> HIDE DEF T
<1>3. Len(ss) \in T
  BY <1>1, <1>2, SetInduction
<1> QED BY <1>3 DEF T, IsFlat

(* Two of them agree as far as the sequences do. *)
LEMMA FlatAgree ==
    ASSUME NEW ss, NEW tt, Len(ss) \in Nat, Len(tt) \in Nat, Len(ss) <= Len(tt),
           \A i \in 1 .. Len(ss) : tt[i] = ss[i],
           NEW f, NEW g, IsFlat(ss, f), IsFlat(tt, g)
    PROVE  \A i \in 1 .. Len(ss) : f[i] = g[i]
<1> DEFINE T == {n \in Nat : n \in 1 .. Len(ss) => f[n] = g[n]}
<1>1. 0 \in T
  OBVIOUS
<1>2. ASSUME NEW n \in Nat, n \in T PROVE n + 1 \in T
  <2> SUFFICES ASSUME n + 1 \in 1 .. Len(ss) PROVE f[n + 1] = g[n + 1]
    OBVIOUS
  <2>1. n + 1 \in 1 .. Len(tt) /\ tt[n + 1] = ss[n + 1] /\ (n + 1) - 1 = n
    OBVIOUS
  <2>2. /\ f[n + 1] = IF n + 1 = 1 THEN ss[n + 1] ELSE f[(n + 1) - 1] \o ss[n + 1]
        /\ g[n + 1] = IF n + 1 = 1 THEN tt[n + 1] ELSE g[(n + 1) - 1] \o tt[n + 1]
    BY <2>1, FlatEquations
  <2>3. n + 1 # 1 => f[n] = g[n]
    BY <1>2
  <2> QED BY <2>1, <2>2, <2>3
<1> HIDE DEF T
<1>3. \A n \in Nat : n \in T
  BY <1>1, <1>2, SetInduction
<1> QED BY <1>3 DEF T

(* Flattening takes the last value of such a function. *)
LEMMA FlattenIsFlat ==
    ASSUME NEW ss, Len(ss) \in Nat, Len(ss) # 0, NEW f, IsFlat(ss, f)
    PROVE  FlattenSeq(ss) = f[Len(ss)]
<1> DEFINE g == CHOOSE h : IsFlat(ss, h)
<1>1. IsFlat(ss, g)
  BY Zenon
<1>2. FlattenSeq(ss) = g[Len(ss)]
  BY DEF FlattenSeq, IsFlat
<1> HIDE DEF g
<1> QED BY <1>1, <1>2, FlatAgree

(* Nothing flattens to nothing. *)
LEMMA FlattenNone == FlattenSeq(<<>>) = <<>>
BY DEF FlattenSeq

(* One sequence flattens to itself. *)
LEMMA FlattenOne ==
    ASSUME NEW ss, Len(ss) = 1
    PROVE  FlattenSeq(ss) = ss[1]
<1>1. PICK f : IsFlat(ss, f)
  BY FlatExists
<1>2. FlattenSeq(ss) = f[1]
  BY <1>1, FlattenIsFlat
<1>3. f[1] = ss[1]
  BY <1>1, FlatEquations
<1> QED BY <1>2, <1>3

(* One sequence more goes behind the others. *)
LEMMA FlattenNext ==
    ASSUME NEW ss, NEW tt, NEW n \in Nat \ {0}, Len(ss) = n, Len(tt) = n + 1,
           \A i \in 1 .. n : tt[i] = ss[i]
    PROVE  FlattenSeq(tt) = FlattenSeq(ss) \o tt[n + 1]
<1>1. PICK f : IsFlat(ss, f)
  BY FlatExists
<1>2. PICK g : IsFlat(tt, g)
  BY FlatExists
<1>3. f[n] = g[n]
  BY <1>1, <1>2, FlatAgree
<1>4. g[n + 1] = g[n] \o tt[n + 1]
  <2>1. Len(tt) \in Nat /\ n + 1 \in 1 .. Len(tt) /\ n + 1 # 1 /\ (n + 1) - 1 = n
    OBVIOUS
  <2>2. g[n + 1] = IF n + 1 = 1 THEN tt[n + 1] ELSE g[(n + 1) - 1] \o tt[n + 1]
    BY <1>2, <2>1, FlatEquations
  <2> QED BY <2>1, <2>2
<1>5. FlattenSeq(ss) = f[n] /\ FlattenSeq(tt) = g[n + 1]
  <2>1. Len(ss) # 0 /\ Len(tt) \in Nat /\ Len(tt) # 0
    OBVIOUS
  <2> QED BY <1>1, <1>2, <2>1, FlattenIsFlat
<1> QED BY <1>3, <1>4, <1>5

-----------------------------------------------------------------------------
(* The parts of a frame on the wire. *)
HeadPart(f) == <<Bit(f.fin, 128) + Bit(f.rsv1, 64) + Bit(f.rsv2, 32) + f.opcode,
                 Bit(f.mask # <<>>, 128) + f.form>>
LengthPart(f) == IF f.unsafe THEN <<0, 32, 0, 0, 0, 0, 0, 0>>
                             ELSE LengthBytes(Len(f.payload), f.form)
DataPart(f) == IF f.mask = <<>> THEN f.payload ELSE Masked(f.payload, f.mask)

(* The length of the middle part. *)
LengthSize(f) == IF f.form = 127 THEN 8 ELSE IF f.form = 126 THEN 2 ELSE 0

(* The fields of a frame. *)
LEMMA FrameHead ==
    ASSUME NEW f \in WireFrames
    PROVE  /\ f.opcode \in 0 .. 15 /\ f.form \in 0 .. 127
           /\ f.fin \in BOOLEAN /\ f.rsv1 \in BOOLEAN /\ f.rsv2 \in BOOLEAN
BY DEF WireFrames

LEMMA FramePayload ==
    ASSUME NEW f \in WireFrames
    PROVE  /\ f.payload \in Seq(Byte) /\ Len(f.payload) \in Nat
           /\ f.unsafe \in BOOLEAN /\ f.form \in Nat
<1>1. f.payload \in Seq(Byte) /\ f.unsafe \in BOOLEAN
  BY DEF WireFrames
<1>2. f.form \in 0 .. 127
  BY DEF WireFrames
<1>3. f.form \in Nat
  <2> DEFINE n == f.form
  <2>1. n \in 0 .. 127
    BY <1>2
  <2> HIDE DEF n
  <2>2. n \in Nat
    BY <2>1
  <2> QED BY <2>2 DEF n
<1>4. Len(f.payload) \in Nat
  BY <1>1, LenProperties
<1> QED BY <1>1, <1>3, <1>4

LEMMA FrameMask ==
    ASSUME NEW f \in WireFrames
    PROVE  /\ f.mask \in Seq(Byte)
           /\ f.mask # <<>> => f.mask \in [1 .. 4 -> Byte] /\ Len(f.mask) = 4
<1>1. f.mask = <<>> \/ f.mask \in [1 .. 4 -> Byte]
  BY DEF WireFrames
<1>2. CASE f.mask = <<>>
  BY <1>2, EmptySeq, Zenon
<1>3. CASE f.mask \in [1 .. 4 -> Byte]
  <2> DEFINE m == f.mask
  <2>1. m \in [1 .. 4 -> Byte]
    BY <1>3
  <2> HIDE DEF m
  <2>2. m \in Seq(Byte)
    <3>1. 4 \in Nat
      OBVIOUS
    <3> QED BY <2>1, <3>1, SeqDef, Zenon
  <2>3. DOMAIN m = 1 .. Len(m) /\ Len(m) \in Nat
    BY <2>2, LenProperties
  <2>4. DOMAIN m = 1 .. 4
    BY <2>1
  <2>5. Len(m) = 4
    <3>1. \A n \in Nat : 1 .. n = 1 .. 4 => n = 4
      <4> SUFFICES ASSUME NEW n \in Nat, 1 .. n = 1 .. 4 PROVE n = 4
        OBVIOUS
      <4>1. 4 \in 1 .. n /\ (n >= 1 => n \in 1 .. 4)
        OBVIOUS
      <4> QED BY <4>1
    <3> QED BY <2>3, <2>4, <3>1
  <2> QED BY <2>1, <2>2, <2>5 DEF m
<1> QED BY <1>1, <1>2, <1>3

(* What holds of its length. *)
LEMMA FrameLength ==
    ASSUME NEW f \in WireFrames
    PROVE  /\ f.unsafe => f.form = 127
           /\ ~f.unsafe => Fits(Len(f.payload), f.form)
BY Zenon DEF WireFrames

(* The first byte is read back, *)
LEMMA FirstByte ==
    ASSUME NEW f \in WireFrames
    PROVE  LET b == HeadPart(f)[1]
           IN /\ b \in Byte
              /\ ((b \div 128) % 2 = 1) = f.fin /\ ((b \div 64) % 2 = 1) = f.rsv1
              /\ ((b \div 32) % 2 = 1) = f.rsv2 /\ ~((b \div 16) % 2 = 1)
              /\ b % 16 = f.opcode
<1> DEFINE o == f.opcode
           b == Bit(f.fin, 128) + Bit(f.rsv1, 64) + Bit(f.rsv2, 32) + o
<1>1. /\ o \in 0 .. 15
      /\ f.fin \in BOOLEAN /\ f.rsv1 \in BOOLEAN /\ f.rsv2 \in BOOLEAN
  BY FrameHead
<1>2. HeadPart(f)[1] = b
  BY DEF HeadPart
<1> HIDE DEF o
<1>3. \A x, y, z \in {0, 1}, i \in 0 .. 15 :
         LET c == 128 * x + 64 * y + 32 * z + i
         IN /\ c \in 0 .. 255 /\ (c \div 128) % 2 = x /\ (c \div 64) % 2 = y
            /\ (c \div 32) % 2 = z /\ (c \div 16) % 2 = 0 /\ c % 16 = i
  BY SMT
<1> DEFINE x == IF f.fin THEN 1 ELSE 0
           y == IF f.rsv1 THEN 1 ELSE 0
           z == IF f.rsv2 THEN 1 ELSE 0
<1>4. b = 128 * x + 64 * y + 32 * z + o /\ x \in {0, 1} /\ y \in {0, 1} /\ z \in {0, 1}
  BY <1>1 DEF Bit
<1>5. (x = 1) = f.fin /\ (y = 1) = f.rsv1 /\ (z = 1) = f.rsv2
  BY <1>1
<1> HIDE DEF x, y, z, b
<1>6. /\ b \in 0 .. 255 /\ (b \div 128) % 2 = x /\ (b \div 64) % 2 = y
      /\ (b \div 32) % 2 = z /\ (b \div 16) % 2 = 0 /\ b % 16 = o
  BY <1>1, <1>3, <1>4
<1> QED BY <1>2, <1>5, <1>6 DEF Byte, o

(* and so is the second. *)
LEMMA SecondByte ==
    ASSUME NEW f \in WireFrames
    PROVE  LET b == HeadPart(f)[2]
           IN /\ b \in Byte
              /\ ((b \div 128) % 2 = 1) = (f.mask # <<>>) /\ b % 128 = f.form
<1> DEFINE o == f.form
           m == f.mask # <<>>
           b == Bit(m, 128) + o
<1>1. o \in 0 .. 127
  BY FrameHead
<1>2. HeadPart(f)[2] = b
  BY DEF HeadPart
<1>3. m \in BOOLEAN
  OBVIOUS
<1> HIDE DEF o, m
<1>4. \A x \in {0, 1}, i \in 0 .. 127 :
         LET c == 128 * x + i
         IN c \in 0 .. 255 /\ (c \div 128) % 2 = x /\ c % 128 = i
  BY SMT
<1> DEFINE x == IF m THEN 1 ELSE 0
<1>5. b = 128 * x + o /\ x \in {0, 1} /\ (x = 1) = m
  BY <1>1, <1>3 DEF Bit
<1> HIDE DEF x, b
<1>6. b \in 0 .. 255 /\ (b \div 128) % 2 = x /\ b % 128 = o
  BY <1>1, <1>4, <1>5
<1> QED BY <1>2, <1>5, <1>6 DEF Byte, o, m

(* A number and its last byte. *)
LEMMA ByteOff ==
    ASSUME NEW x \in Nat
    PROVE  x \div 256 \in Nat /\ x % 256 \in Byte
<1>1. x \div 256 \in Nat /\ x % 256 \in 0 .. 255
  BY SMT
<1> QED BY <1>1 DEF Byte

(* Two quotients of 65536 and a rest below it make six bytes. *)
LEMMA SixBytes ==
    ASSUME NEW x \in Nat, (x \div 65536) \div 65536 < 65536
    PROVE  x < 256 * 256 * 256 * 256 * 256 * 256
<1>1. PICK y \in Nat : y = x \div 65536
  BY SMT
<1>2. PICK z \in Nat : z = y \div 65536
  BY SMT
<1>3. z < 65536
  BY <1>1, <1>2
<1>4. y < 65536 * 65536
  BY <1>2, <1>3, SMT
<1>5. x < 65536 * 65536 * 65536
  BY <1>1, <1>4, SMT
<1> QED BY <1>5, SMT

(* Numbers are written in bytes. *)
LEMMA LengthIsBytes ==
    ASSUME NEW n \in Nat
    PROVE  /\ UInt64Bytes(n) \in Seq(Byte) /\ Len(UInt64Bytes(n)) = 8
           /\ UInt16Bytes(n) \in Seq(Byte) /\ Len(UInt16Bytes(n)) = 2
<1> DEFINE n1 == n \div 256
           n2 == n1 \div 256
           n3 == n2 \div 256
           n4 == n3 \div 256
           n5 == n4 \div 256
<1>1. n1 \in Nat /\ n % 256 \in Byte
  BY ByteOff
<1>2. n2 \in Nat /\ n1 % 256 \in Byte
  BY <1>1, ByteOff
<1>3. n3 \in Nat /\ n2 % 256 \in Byte
  BY <1>2, ByteOff
<1>4. n4 \in Nat /\ n3 % 256 \in Byte
  BY <1>3, ByteOff
<1>5. n5 \in Nat /\ n4 % 256 \in Byte
  BY <1>4, ByteOff
<1>6. n5 % 256 \in Byte /\ 0 \in Byte
  BY <1>5, ByteOff DEF Byte
<1>7. UInt64Bytes(n) = <<0, 0, n5 % 256, n4 % 256, n3 % 256, n2 % 256, n1 % 256, n % 256>>
  BY DEF UInt64Bytes
<1>8. UInt16Bytes(n) = <<n1 % 256, n % 256>>
  BY DEF UInt16Bytes
<1> DEFINE b0 == n % 256
           b1 == n1 % 256
           b2 == n2 % 256
           b3 == n3 % 256
           b4 == n4 % 256
           b5 == n5 % 256
<1>9. UInt64Bytes(n) = <<0, 0, b5, b4, b3, b2, b1, b0>> /\ UInt16Bytes(n) = <<b1, b0>>
  BY <1>7, <1>8
<1>10. /\ b0 \in Byte /\ b1 \in Byte /\ b2 \in Byte /\ b3 \in Byte
       /\ b4 \in Byte /\ b5 \in Byte /\ 0 \in Byte
  BY <1>1, <1>2, <1>3, <1>4, <1>5, <1>6
<1> HIDE DEF b0, b1, b2, b3, b4, b5
<1> QED BY <1>9, <1>10

(* The bytes of the length. *)
LEMMA LengthRead ==
    ASSUME NEW f \in WireFrames
    PROVE  /\ LengthPart(f) \in Seq(Byte) /\ Len(LengthPart(f)) = LengthSize(f)
           /\ f.form = 127 => (Unsafe(LengthPart(f)) = f.unsafe)
           /\ f.form = 127 /\ ~f.unsafe => UInt64(LengthPart(f)) = Len(f.payload)
           /\ f.form = 126 => UInt16(LengthPart(f)) = Len(f.payload)
<1> DEFINE n == Len(f.payload)
<1>1. n \in Nat /\ f.unsafe \in BOOLEAN /\ f.form \in Nat
  BY FramePayload
<1>2. f.unsafe => f.form = 127
  BY FrameLength, Zenon
<1>3. CASE f.unsafe
  <2>1. LengthPart(f) = <<0, 32, 0, 0, 0, 0, 0, 0>> /\ LengthSize(f) = 8
    BY <1>2, <1>3 DEF LengthPart, LengthSize
  <2>2. <<0, 32, 0, 0, 0, 0, 0, 0>> \in Seq(Byte)
    BY DEF Byte
  <2>3. Unsafe(<<0, 32, 0, 0, 0, 0, 0, 0>>)
    BY DEF Unsafe
  <2> QED BY <1>2, <1>3, <2>1, <2>2, <2>3
<1>4. CASE ~f.unsafe /\ f.form = 127
  <2>1. LengthPart(f) = UInt64Bytes(n) /\ LengthSize(f) = 8
    BY <1>4 DEF LengthPart, LengthSize, LengthBytes
  <2>2. (n \div 65536) \div 65536 < 65536
    <3>1. Fits(n, 127)
      BY <1>4, FrameLength, Zenon
    <3> HIDE DEF n
    <3> QED BY <3>1 DEF Fits
  <2> HIDE DEF n
  <2>3. UInt64(UInt64Bytes(n)) = n /\ ~Unsafe(UInt64Bytes(n))
    BY <1>1, <2>2, SixBytes, Length64RoundTrip
  <2>4. UInt64Bytes(n) \in Seq(Byte) /\ Len(UInt64Bytes(n)) = 8
    BY <1>1, LengthIsBytes
  <2>5. f.form # 126
    BY <1>4
  <2>6. /\ LengthPart(f) \in Seq(Byte) /\ Len(LengthPart(f)) = LengthSize(f)
        /\ Unsafe(LengthPart(f)) = FALSE /\ UInt64(LengthPart(f)) = Len(f.payload)
    BY <2>1, <2>3, <2>4 DEF n
  <2>7. f.unsafe = FALSE
    BY <1>1, <1>4
  <2> QED BY <2>5, <2>6, <2>7, Zenon
<1>5. CASE ~f.unsafe /\ f.form = 126
  <2>1. LengthPart(f) = UInt16Bytes(n) /\ LengthSize(f) = 2
    BY <1>5 DEF LengthPart, LengthSize, LengthBytes
  <2>2. n < 65536
    <3>1. Fits(n, 126)
      BY <1>5, FrameLength, Zenon
    <3> HIDE DEF n
    <3> QED BY <3>1 DEF Fits
  <2> HIDE DEF n
  <2>3. UInt16(UInt16Bytes(n)) = n
    BY <1>1, <2>2, Length16RoundTrip
  <2>4. UInt16Bytes(n) \in Seq(Byte) /\ Len(UInt16Bytes(n)) = 2
    BY <1>1, LengthIsBytes
  <2> QED BY <1>5, <2>1, <2>3, <2>4 DEF n
<1>6. CASE ~f.unsafe /\ f.form # 126 /\ f.form # 127
  <2>1. LengthPart(f) = <<>> /\ LengthSize(f) = 0
    BY <1>6 DEF LengthPart, LengthSize, LengthBytes
  <2> QED BY <1>6, <2>1, EmptySeq
<1> QED BY <1>1, <1>3, <1>4, <1>5, <1>6

(* A short form is the length. *)
LEMMA ShortLength ==
    ASSUME NEW f \in WireFrames, f.form < 126
    PROVE  ~f.unsafe /\ Len(f.payload) = f.form
<1>1. f.form # 127 /\ f.form # 126
  OBVIOUS
<1>2. ~f.unsafe
  BY <1>1, FrameLength, Zenon
<1>3. Fits(Len(f.payload), f.form)
  BY <1>2, FrameLength, Zenon
<1>4. Len(f.payload) = f.form
  <2> DEFINE n == Len(f.payload)
             form == f.form
  <2>1. Fits(n, form) /\ form # 127 /\ form # 126
    BY <1>1, <1>3
  <2> HIDE DEF n, form
  <2>2. n = form
    BY <2>1 DEF Fits
  <2> QED BY <2>2 DEF n, form
<1> QED BY <1>2, <1>4

(* The bytes of the payload. *)
LEMMA DataRead ==
    ASSUME NEW f \in WireFrames
    PROVE  /\ DataPart(f) \in Seq(Byte) /\ Len(DataPart(f)) = Len(f.payload)
           /\ (IF f.mask = <<>> THEN DataPart(f) ELSE Masked(DataPart(f), f.mask)) = f.payload
<1>1. f.payload \in Seq(Byte)
  BY FramePayload
<1>2. CASE f.mask = <<>>
  BY <1>1, <1>2, Zenon DEF DataPart
<1>3. CASE f.mask # <<>>
  <2>1. f.mask \in [1 .. 4 -> Byte]
    BY <1>3, FrameMask
  <2>2. DataPart(f) = Masked(f.payload, f.mask)
    BY <1>3 DEF DataPart
  <2> QED BY <1>1, <1>3, <2>1, <2>2, UnmaskMasked, Zenon
<1> QED BY <1>2, <1>3

-----------------------------------------------------------------------------
(* Concatenation, for the provers a name and no more. *)
Cat(s, t) == s \o t

LEMMA CatTypes ==
    ASSUME NEW S, NEW s \in Seq(S), NEW t \in Seq(S)
    PROVE  /\ Cat(s, t) \in Seq(S)
           /\ Len(Cat(s, t)) = Len(s) + Len(t)
BY ConcatProperties DEF Cat

LEMMA CatNothing ==
    ASSUME NEW S, NEW s \in Seq(S)
    PROVE  Cat(s, <<>>) = s /\ Cat(<<>>, s) = s
BY ConcatEmptySeq, Zenon DEF Cat

LEMMA CatAssociative ==
    ASSUME NEW S, NEW s \in Seq(S), NEW t \in Seq(S), NEW u \in Seq(S)
    PROVE  Cat(Cat(s, t), u) = Cat(s, Cat(t, u))
BY ConcatAssociative DEF Cat

(* One sequence more, the first one included. *)
LEMMA FlattenLast ==
    ASSUME NEW S, NEW n \in Nat, NEW ss \in Seq(Seq(S)), NEW tt \in Seq(Seq(S)),
           Len(ss) = n, Len(tt) = n + 1, \A i \in 1 .. n : tt[i] = ss[i]
    PROVE  FlattenSeq(tt) = Cat(FlattenSeq(ss), tt[n + 1])
<1>1. CASE n = 0
  <2>1. ss = <<>> /\ tt[1] \in Seq(S) /\ Len(tt) = 1
    BY <1>1, EmptySeq
  <2>2. FlattenSeq(ss) = <<>> /\ FlattenSeq(tt) = tt[1]
    BY <2>1, FlattenNone, FlattenOne
  <2>3. Cat(<<>>, tt[1]) = tt[1]
    BY <2>1, CatNothing
  <2>4. n + 1 = 1
    BY <1>1
  <2> QED BY <2>2, <2>3, <2>4
<1>2. CASE n # 0
  BY <1>2, FlattenNext DEF Cat
<1> QED BY <1>1, <1>2

(* What is flattened is a sequence of what the parts hold. *)
LEMMA FlattenType ==
    ASSUME NEW S, NEW ss \in Seq(Seq(S))
    PROVE  FlattenSeq(ss) \in Seq(S)
<1> DEFINE T == {n \in Nat : \A tt \in Seq(Seq(S)) : Len(tt) = n => FlattenSeq(tt) \in Seq(S)}
<1>1. 0 \in T
  <2> SUFFICES ASSUME NEW tt \in Seq(Seq(S)), Len(tt) = 0 PROVE FlattenSeq(tt) \in Seq(S)
    OBVIOUS
  <2>1. tt = <<>>
    BY EmptySeq
  <2> QED BY <2>1, FlattenNone, EmptySeq
<1>2. ASSUME NEW n \in Nat, n \in T PROVE n + 1 \in T
  <2> SUFFICES ASSUME NEW tt \in Seq(Seq(S)), Len(tt) = n + 1 PROVE FlattenSeq(tt) \in Seq(S)
    OBVIOUS
  <2> DEFINE ss1 == SubSeq(tt, 1, n)
  <2>1. ss1 \in Seq(Seq(S)) /\ Len(ss1) = n /\ \A i \in 1 .. n : tt[i] = ss1[i]
    BY SubSeqProperties
  <2> HIDE DEF ss1
  <2>2. FlattenSeq(tt) = Cat(FlattenSeq(ss1), tt[n + 1])
    BY <2>1, FlattenLast
  <2>3. FlattenSeq(ss1) \in Seq(S) /\ tt[n + 1] \in Seq(S)
    BY <1>2, <2>1
  <2> QED BY <2>2, <2>3, CatTypes
<1> HIDE DEF T
<1>3. \A n \in Nat : n \in T
  BY <1>1, <1>2, SetInduction
<1> QED BY <1>3, LenProperties DEF T

(* The first part goes in front of the others. *)
LEMMA FlattenFirst ==
    ASSUME NEW S, NEW n \in Nat, NEW ss \in Seq(Seq(S)), NEW tt \in Seq(Seq(S)),
           Len(ss) = n + 1, Len(tt) = n, \A i \in 1 .. n : tt[i] = ss[i + 1]
    PROVE  FlattenSeq(ss) = Cat(ss[1], FlattenSeq(tt))
<1> DEFINE Tails(m, aa, bb) == Len(aa) = m + 1 /\ Len(bb) = m /\ \A i \in 1 .. m : bb[i] = aa[i + 1]
           T == {m \in Nat : \A aa, bb \in Seq(Seq(S)) :
                    Tails(m, aa, bb) => FlattenSeq(aa) = Cat(aa[1], FlattenSeq(bb))}
<1>1. 0 \in T
  <2> SUFFICES ASSUME NEW aa \in Seq(Seq(S)), NEW bb \in Seq(Seq(S)), Tails(0, aa, bb)
               PROVE  FlattenSeq(aa) = Cat(aa[1], FlattenSeq(bb))
    OBVIOUS
  <2>1. bb = <<>> /\ Len(aa) = 1
    BY EmptySeq
  <2>2. aa[1] \in Seq(S)
    <3>1. 1 \in 1 .. Len(aa)
      BY <2>1
    <3> QED BY <3>1, ElementOfSeq
  <2>3. FlattenSeq(bb) = <<>> /\ FlattenSeq(aa) = aa[1]
    BY <2>1, FlattenNone, FlattenOne
  <2>4. Cat(aa[1], <<>>) = aa[1]
    BY <2>2, CatNothing
  <2> QED BY <2>3, <2>4
<1>2. ASSUME NEW m \in Nat, m \in T PROVE m + 1 \in T
  <2> SUFFICES ASSUME NEW aa \in Seq(Seq(S)), NEW bb \in Seq(Seq(S)), Tails(m + 1, aa, bb)
               PROVE  FlattenSeq(aa) = Cat(aa[1], FlattenSeq(bb))
    OBVIOUS
  <2> DEFINE a0 == SubSeq(aa, 1, m + 1)
             b0 == SubSeq(bb, 1, m)
  <2>0. Len(aa) = (m + 1) + 1 /\ Len(bb) = m + 1 /\ \A i \in 1 .. (m + 1) : bb[i] = aa[i + 1]
    OBVIOUS
  <2>1. a0 \in Seq(Seq(S)) /\ Len(a0) = m + 1 /\ \A i \in 1 .. (m + 1) : aa[i] = a0[i]
    BY <2>0, SubSeqProperties
  <2>2. b0 \in Seq(Seq(S)) /\ Len(b0) = m /\ \A i \in 1 .. m : bb[i] = b0[i]
    BY <2>0, SubSeqProperties
  <2> HIDE DEF a0, b0
  <2>3. Tails(m, a0, b0)
    BY <2>0, <2>1, <2>2
  <2>4. FlattenSeq(a0) = Cat(a0[1], FlattenSeq(b0))
    BY <1>2, <2>1, <2>2, <2>3
  <2>5. FlattenSeq(aa) = Cat(FlattenSeq(a0), aa[(m + 1) + 1])
    <3> DEFINE p == m + 1
    <3>1. /\ p \in Nat /\ Len(aa) = p + 1 /\ Len(a0) = p
          /\ \A i \in 1 .. p : aa[i] = a0[i]
      BY <2>0, <2>1
    <3> HIDE DEF p
    <3>2. FlattenSeq(aa) = Cat(FlattenSeq(a0), aa[p + 1])
      BY <2>1, <3>1, FlattenLast
    <3> QED BY <3>2 DEF p
  <2>6. FlattenSeq(bb) = Cat(FlattenSeq(b0), bb[m + 1])
    BY <2>0, <2>2, FlattenLast
  <2>7. aa[(m + 1) + 1] = bb[m + 1] /\ a0[1] = aa[1]
    BY <2>0, <2>1
  <2>8. aa[1] \in Seq(S) /\ bb[m + 1] \in Seq(S) /\ FlattenSeq(b0) \in Seq(S)
    BY <2>0, <2>2, FlattenType
  <2>9. Cat(Cat(aa[1], FlattenSeq(b0)), bb[m + 1]) = Cat(aa[1], Cat(FlattenSeq(b0), bb[m + 1]))
    BY <2>8, CatAssociative
  <2> QED BY <2>4, <2>5, <2>6, <2>7, <2>9
<1> HIDE DEF T
<1>3. n \in T
  BY <1>1, <1>2, SetInduction
<1> QED BY <1>3 DEF T

-----------------------------------------------------------------------------
(* The bytes of a frame in front of others, from its payload on, from its   *)
(* key and from its length.                                                 *)
FromData(f, r) == Cat(DataPart(f), r)
FromMask(f, r) == Cat(f.mask, FromData(f, r))
FromLength(f, r) == Cat(LengthPart(f), FromMask(f, r))

LEMMA FrameOctets ==
    ASSUME NEW f \in WireFrames, NEW r \in Seq(Byte)
    PROVE  /\ Octets(f) \in Seq(Byte)
           /\ HeadPart(f) \in Seq(Byte) /\ Len(HeadPart(f)) = 2
           /\ FromData(f, r) \in Seq(Byte) /\ FromMask(f, r) \in Seq(Byte)
           /\ FromLength(f, r) \in Seq(Byte)
           /\ Cat(Octets(f), r) = Cat(HeadPart(f), FromLength(f, r))
<1> DEFINE h == HeadPart(f)
           l == LengthPart(f)
           m == f.mask
           d == DataPart(f)
<1>1. h \in Seq(Byte) /\ Len(h) = 2
  <2>1. h[1] \in Byte /\ h[2] \in Byte
    BY FirstByte, SecondByte
  <2>2. h = <<h[1], h[2]>>
    BY DEF HeadPart
  <2> DEFINE b1 == h[1]
             b2 == h[2]
  <2>3. b1 \in Byte /\ b2 \in Byte /\ h = <<b1, b2>>
    BY <2>1, <2>2
  <2> HIDE DEF h, b1, b2
  <2> QED BY <2>3
<1>2. l \in Seq(Byte)
  BY LengthRead
<1>3. m \in Seq(Byte)
  BY FrameMask
<1>4. d \in Seq(Byte)
  BY DataRead
<1>5. Octets(f) = Cat(Cat(Cat(h, l), m), d)
  BY DEF Octets, HeadPart, LengthPart, DataPart, Cat
<1> HIDE DEF h, l, m, d
<1>6. Cat(h, l) \in Seq(Byte) /\ Cat(d, r) \in Seq(Byte)
  BY <1>1, <1>2, <1>4, CatTypes
<1>7. Cat(Cat(h, l), m) \in Seq(Byte) /\ Cat(m, Cat(d, r)) \in Seq(Byte)
  BY <1>3, <1>6, CatTypes
<1>8. Cat(Cat(Cat(h, l), m), d) \in Seq(Byte) /\ Cat(l, Cat(m, Cat(d, r))) \in Seq(Byte)
  BY <1>2, <1>4, <1>7, CatTypes
<1>9. Cat(Cat(Cat(Cat(h, l), m), d), r) = Cat(h, Cat(l, Cat(m, Cat(d, r))))
  <2>1. Cat(Cat(Cat(Cat(h, l), m), d), r) = Cat(Cat(Cat(h, l), m), Cat(d, r))
    BY <1>4, <1>7, CatAssociative
  <2>2. Cat(Cat(Cat(h, l), m), Cat(d, r)) = Cat(Cat(h, l), Cat(m, Cat(d, r)))
    BY <1>3, <1>6, CatAssociative
  <2>3. Cat(Cat(h, l), Cat(m, Cat(d, r))) = Cat(h, Cat(l, Cat(m, Cat(d, r))))
    BY <1>1, <1>2, <1>7, CatAssociative
  <2> QED BY <2>1, <2>2, <2>3
<1> QED BY <1>1, <1>5, <1>6, <1>7, <1>8, <1>9 DEF h, l, m, d, FromData, FromMask, FromLength

(* The bytes of the frames behind the first k of them. *)
Behind(fs, k) == FlattenSeq([i \in 1 .. (Len(fs) - k) |-> Octets(fs[k + i])])

LEMMA BehindParts ==
    ASSUME NEW fs \in Seq(WireFrames), NEW k \in 0 .. Len(fs)
    PROVE  /\ [i \in 1 .. (Len(fs) - k) |-> Octets(fs[k + i])] \in Seq(Seq(Byte))
           /\ Behind(fs, k) \in Seq(Byte)
<1> DEFINE ss == [i \in 1 .. (Len(fs) - k) |-> Octets(fs[k + i])]
<1>1. Len(fs) - k \in Nat
  BY LenProperties
<1>2. \A i \in 1 .. (Len(fs) - k) : Octets(fs[k + i]) \in Seq(Byte)
  <2> SUFFICES ASSUME NEW i \in 1 .. (Len(fs) - k) PROVE Octets(fs[k + i]) \in Seq(Byte)
    OBVIOUS
  <2>1. k + i \in 1 .. Len(fs)
    BY LenProperties
  <2>2. fs[k + i] \in WireFrames
    BY <2>1, ElementOfSeq
  <2> QED BY <2>2, EmptySeq, FrameOctets
<1>3. ss \in [1 .. (Len(fs) - k) -> Seq(Byte)]
  BY <1>2
<1>4. ss \in Seq(Seq(Byte))
  <2> DEFINE n == Len(fs) - k
  <2>1. n \in Nat /\ ss \in [1 .. n -> Seq(Byte)]
    BY <1>1, <1>3
  <2> HIDE DEF ss, n
  <2>2. ss \in UNION {[1 .. i -> Seq(Byte)] : i \in Nat}
    BY <2>1
  <2> QED BY <2>2, SeqDef
<1> HIDE DEF ss
<1>5. FlattenSeq(ss) \in Seq(Byte)
  BY <1>4, FlattenType
<1> QED BY <1>4, <1>5 DEF ss, Behind

(* The next frame comes first, and behind the last comes nothing. *)
LEMMA BehindNext ==
    ASSUME NEW fs \in Seq(WireFrames), NEW k \in 0 .. Len(fs)
    PROVE  /\ k = Len(fs) => Behind(fs, k) = <<>>
           /\ k < Len(fs) => /\ fs[k + 1] \in WireFrames
                             /\ Behind(fs, k) = Cat(Octets(fs[k + 1]), Behind(fs, k + 1))
<1> DEFINE part(j) == [i \in 1 .. (Len(fs) - j) |-> Octets(fs[j + i])]
<1>0. Len(fs) \in Nat
  BY LenProperties
<1>1. ASSUME k = Len(fs) PROVE Behind(fs, k) = <<>>
  <2>1. part(k) \in Seq(Seq(Byte))
    BY BehindParts
  <2>2. Len(part(k)) = 0
    BY <1>0, <1>1
  <2>3. part(k) = <<>>
    BY <2>1, <2>2, EmptySeq
  <2> QED BY <2>3, FlattenNone DEF Behind
<1>2. ASSUME k < Len(fs)
      PROVE  fs[k + 1] \in WireFrames /\ Behind(fs, k) = Cat(Octets(fs[k + 1]), Behind(fs, k + 1))
  <2>1. k + 1 \in 1 .. Len(fs) /\ k + 1 \in 0 .. Len(fs) /\ k \in Nat
    BY <1>0, <1>2
  <2> DEFINE ss == part(k)
             tt == part(k + 1)
             n == Len(fs) - (k + 1)
  <2>2. ss \in Seq(Seq(Byte)) /\ tt \in Seq(Seq(Byte))
    BY <2>1, BehindParts
  <2>3. n \in Nat /\ n + 1 = Len(fs) - k
    BY <1>0, <2>1
  <2>4. Len(ss) = n + 1 /\ Len(tt) = n
    BY <2>3
  <2>5. ASSUME NEW i \in 1 .. n PROVE tt[i] = ss[i + 1]
    <3>1. i + 1 \in 1 .. (Len(fs) - k) /\ i \in 1 .. (Len(fs) - (k + 1)) /\ (k + 1) + i = k + (i + 1)
      BY <2>1, <2>3
    <3> QED BY <3>1, Zenon
  <2>6. ss[1] = Octets(fs[k + 1])
    <3>1. 1 \in 1 .. (Len(fs) - k)
      BY <2>1, <2>3
    <3> QED BY <3>1, Zenon
  <2>7. Behind(fs, k) = FlattenSeq(ss) /\ Behind(fs, k + 1) = FlattenSeq(tt)
    BY DEF Behind
  <2> HIDE DEF ss, tt, n
  <2>8. FlattenSeq(ss) = Cat(ss[1], FlattenSeq(tt))
    BY <2>2, <2>3, <2>4, <2>5, FlattenFirst
  <2>9. fs[k + 1] \in WireFrames
    BY <2>1, ElementOfSeq
  <2> QED BY <2>6, <2>7, <2>8, <2>9
<1> QED BY <1>1, <1>2

(* What is read of a concatenation. *)
LEMMA CatAt ==
    ASSUME NEW S, NEW s \in Seq(S), NEW t \in Seq(S), NEW i \in 1 .. (Len(s) + Len(t))
    PROVE  Cat(s, t)[i] = IF i <= Len(s) THEN s[i] ELSE t[i - Len(s)]
BY ConcatProperties DEF Cat

(* Two ways to cut the same bytes. *)
LEMMA SameBytes ==
    ASSUME NEW a \in Seq(Byte), NEW x \in Seq(Byte), NEW b \in Seq(Byte), NEW y \in Seq(Byte),
           Cat(a, x) = Cat(b, y), Len(b) <= Len(a)
    PROVE  /\ \A i \in 1 .. Len(b) : a[i] = b[i]
           /\ SubSeq(a, 1, Len(b)) = b
           /\ Cat(SubSeq(a, Len(b) + 1, Len(a)), x) = y
<1> DEFINE m == Len(b)
           n == Len(a)
           c == SubSeq(a, m + 1, n)
<1>1. m \in Nat /\ n \in Nat /\ m <= n /\ Len(x) \in Nat /\ Len(y) \in Nat
  BY LenProperties
<1>2. Len(Cat(a, x)) = n + Len(x) /\ Len(Cat(b, y)) = m + Len(y)
  BY CatTypes
<1>3. n + Len(x) = m + Len(y)
  BY <1>2
<1>4. ASSUME NEW i \in 1 .. m PROVE a[i] = b[i]
  <2>1. i \in 1 .. (n + Len(x)) /\ i \in 1 .. (m + Len(y)) /\ i <= n /\ i <= m
    BY <1>1
  <2>2. Cat(a, x)[i] = a[i] /\ Cat(b, y)[i] = b[i]
    BY <2>1, CatAt
  <2> QED BY <2>2
<1>5. SubSeq(a, 1, m) = b
  <2> DEFINE d == SubSeq(a, 1, m)
  <2>1. \A i \in 1 .. m : a[i] \in Byte
    BY <1>1
  <2>2. d \in Seq(Byte) /\ Len(d) = m /\ \A i \in 1 .. m : d[i] = a[i]
    BY <1>1, <2>1, SubSeqProperties
  <2> HIDE DEF d
  <2>3. \A i \in 1 .. Len(d) : d[i] = b[i]
    BY <1>4, <2>2
  <2>4. d = b
    BY <2>2, <2>3, SeqEqual
  <2> QED BY <2>4 DEF d
<1>6. c \in Seq(Byte) /\ Len(c) = n - m /\ \A i \in 1 .. (n - m) : c[i] = a[m + i]
  <2>1. \A i \in (m + 1) .. n : a[i] \in Byte
    BY <1>1
  <2>2. /\ c \in Seq(Byte) /\ Len(c) = IF m + 1 <= n THEN n - (m + 1) + 1 ELSE 0
        /\ \A i \in 1 .. (n - (m + 1) + 1) : c[i] = a[(m + 1) + i - 1]
    BY <1>1, <2>1, SubSeqProperties
  <2> HIDE DEF c, m, n
  <2>3. Len(c) = n - m
    BY <1>1, <2>2
  <2>4. ASSUME NEW i \in 1 .. (n - m) PROVE c[i] = a[m + i]
    <3>1. n - (m + 1) + 1 = n - m /\ (m + 1) + i - 1 = m + i
      BY <1>1
    <3> QED BY <2>2, <3>1
  <2> QED BY <2>2, <2>3, <2>4
<1> HIDE DEF c, m, n
<1>7. Cat(c, x) = y
  <2>1. Cat(c, x) \in Seq(Byte) /\ Len(Cat(c, x)) = (n - m) + Len(x)
    BY <1>6, CatTypes
  <2>2. Len(Cat(c, x)) = Len(y)
    BY <1>1, <1>3, <2>1
  <2>3. ASSUME NEW i \in 1 .. Len(y) PROVE Cat(c, x)[i] = y[i]
    <3>0. m + i \in 1 .. (m + Len(y)) /\ ~(m + i <= m) /\ (m + i) - m = i
      BY <1>1
    <3>1. Cat(b, y)[m + i] = y[i]
      <4>1. Cat(b, y)[m + i] = IF m + i <= m THEN b[m + i] ELSE y[(m + i) - m]
        BY <3>0, CatAt DEF m
      <4> QED BY <3>0, <4>1
    <3>2. i \in 1 .. ((n - m) + Len(x)) /\ m + i \in 1 .. (n + Len(x))
      BY <1>1, <1>3
    <3>3. Cat(c, x)[i] = IF i <= n - m THEN c[i] ELSE x[i - (n - m)]
      <4>1. Len(c) = n - m /\ i \in 1 .. (Len(c) + Len(x)) /\ c \in Seq(Byte)
        BY <1>6, <3>2
      <4>2. Cat(c, x)[i] = IF i <= Len(c) THEN c[i] ELSE x[i - Len(c)]
        BY <4>1, CatAt
      <4> QED BY <4>1, <4>2
    <3>4. Cat(a, x)[m + i] = IF m + i <= n THEN a[m + i] ELSE x[(m + i) - n]
      <4> DEFINE j == m + i
      <4>1. Len(a) = n /\ j \in 1 .. (Len(a) + Len(x))
        BY <3>2 DEF n
      <4> HIDE DEF j
      <4>2. Cat(a, x)[j] = IF j <= Len(a) THEN a[j] ELSE x[j - Len(a)]
        BY <4>1, CatAt
      <4>3. Cat(a, x)[j] = IF j <= n THEN a[j] ELSE x[j - n]
        BY <4>1, <4>2, Zenon
      <4> QED BY <4>3, Zenon DEF j
    <3>5. CASE i <= n - m
      <4>1. c[i] = a[m + i] /\ m + i <= n
        BY <1>1, <1>6, <3>5
      <4> QED BY <3>1, <3>3, <3>4, <3>5, <4>1
    <3>6. CASE ~(i <= n - m)
      <4>1. ~(m + i <= n) /\ (m + i) - n = i - (n - m)
        BY <1>1, <3>6
      <4> QED BY <3>1, <3>3, <3>4, <3>6, <4>1
    <3> QED BY <3>5, <3>6
  <2> QED BY <2>1, <2>2, <2>3, SeqEqual
<1> QED BY <1>4, <1>5, <1>7 DEF c, m, n

(* All frames are those behind none. *)
LEMMA AllFrames ==
    ASSUME NEW fs \in Seq(WireFrames)
    PROVE  FlattenSeq([k \in 1 .. Len(fs) |-> Octets(fs[k])]) = Behind(fs, 0)
<1>1. Len(fs) \in Nat
  BY LenProperties
<1>2. Len(fs) - 0 = Len(fs) /\ \A k \in 1 .. Len(fs) : 0 + k = k
  BY <1>1
<1>3. [k \in 1 .. Len(fs) |-> Octets(fs[k])]
        = [i \in 1 .. (Len(fs) - 0) |-> Octets(fs[0 + i])]
  BY <1>2
<1> QED
  BY <1>3, Zenon DEF Behind
=============================================================================
