------------------------------ MODULE FramingProofs ------------------------------
(***************************************************************************)
(* Proof that the checksum catches every burst (Intact of Framing) and     *)
(* that what is finalized is routed, for any packets.                      *)
(***************************************************************************)
EXTENDS Framing, Integers, SequenceTheorems, WellFoundedInduction, TLAPS

-------------------------------------------------------------------------------
(* Bytes are their bits.                                                   *)

LEMMA BitIsBit ==
  ASSUME NEW a \in Byte, NEW v \in BitValues PROVE Bit(a, v) \in {0, 1}
BY DEF Byte, BitValues, Bit

LEMMA Split ==
  ASSUME NEW a \in Byte
  PROVE  a = Bit(a, 1) + 2 * Bit(a, 2) + 4 * Bit(a, 4) + 8 * Bit(a, 8) + 16 * Bit(a, 16)
             + 32 * Bit(a, 32) + 64 * Bit(a, 64) + 128 * Bit(a, 128)
BY DEF Byte, Bit

LEMMA SameBits ==
  ASSUME NEW a \in Byte, NEW b \in Byte, \A v \in BitValues : Bit(a, v) = Bit(b, v)
  PROVE  a = b
<1>1. /\ Bit(a, 1) = Bit(b, 1) /\ Bit(a, 2) = Bit(b, 2) /\ Bit(a, 4) = Bit(b, 4)
      /\ Bit(a, 8) = Bit(b, 8) /\ Bit(a, 16) = Bit(b, 16) /\ Bit(a, 32) = Bit(b, 32)
      /\ Bit(a, 64) = Bit(b, 64) /\ Bit(a, 128) = Bit(b, 128)
  BY DEF BitValues
<1> QED
  BY <1>1, Split

LEMMA Join ==
  ASSUME NEW c \in {0, 1}, NEW d \in {0, 1}, NEW e \in {0, 1}, NEW f \in {0, 1},
         NEW g \in {0, 1}, NEW h \in {0, 1}, NEW i \in {0, 1}, NEW j \in {0, 1},
         NEW a, a = c + 2 * d + 4 * e + 8 * f + 16 * g + 32 * h + 64 * i + 128 * j
  PROVE  /\ a \in Byte
         /\ Bit(a, 1) = c /\ Bit(a, 2) = d /\ Bit(a, 4) = e /\ Bit(a, 8) = f
         /\ Bit(a, 16) = g /\ Bit(a, 32) = h /\ Bit(a, 64) = i /\ Bit(a, 128) = j
BY DEF Byte, Bit

LEMMA XorBits ==
  ASSUME NEW a \in Byte, NEW b \in Byte
  PROVE  /\ Xor(a, b) \in Byte
         /\ \A v \in BitValues : Bit(Xor(a, b), v) = (Bit(a, v) + Bit(b, v)) % 2
<1> DEFINE x(v) == (Bit(a, v) + Bit(b, v)) % 2
<1>1. \A v \in BitValues : x(v) \in {0, 1}
  BY BitIsBit
<1>2. /\ x(1) \in {0, 1} /\ x(2) \in {0, 1} /\ x(4) \in {0, 1} /\ x(8) \in {0, 1}
      /\ x(16) \in {0, 1} /\ x(32) \in {0, 1} /\ x(64) \in {0, 1} /\ x(128) \in {0, 1}
  BY <1>1 DEF BitValues
<1>3. Xor(a, b) = 1 * x(1) + 2 * x(2) + 4 * x(4) + 8 * x(8) + 16 * x(16) + 32 * x(32)
                  + 64 * x(64) + 128 * x(128)
  BY DEF Xor
<1> HIDE DEF x
<1>4. Xor(a, b) = x(1) + 2 * x(2) + 4 * x(4) + 8 * x(8) + 16 * x(16) + 32 * x(32)
                  + 64 * x(64) + 128 * x(128)
  BY <1>2, <1>3
<1>5. /\ Xor(a, b) \in Byte
      /\ Bit(Xor(a, b), 1) = x(1) /\ Bit(Xor(a, b), 2) = x(2) /\ Bit(Xor(a, b), 4) = x(4)
      /\ Bit(Xor(a, b), 8) = x(8) /\ Bit(Xor(a, b), 16) = x(16) /\ Bit(Xor(a, b), 32) = x(32)
      /\ Bit(Xor(a, b), 64) = x(64) /\ Bit(Xor(a, b), 128) = x(128)
  BY <1>2, <1>4, Join
<1>6. \A v \in BitValues : Bit(Xor(a, b), v) = x(v)
  BY <1>5 DEF BitValues
<1> QED
  BY <1>5, <1>6 DEF x

(* Exclusive or is commutative, associative and its own inverse.           *)
LEMMA XorLaws ==
  ASSUME NEW a \in Byte, NEW b \in Byte, NEW c \in Byte
  PROVE  /\ Xor(a, b) \in Byte
         /\ Xor(a, b) = Xor(b, a)
         /\ Xor(Xor(a, b), c) = Xor(a, Xor(b, c))
         /\ Xor(a, a) = 0
         /\ Xor(a, 0) = a
<1>1. 0 \in Byte /\ \A v \in BitValues : Bit(0, v) = 0
  BY DEF Byte, Bit, BitValues
<1>2. Xor(a, b) \in Byte /\ Xor(b, a) \in Byte /\ Xor(b, c) \in Byte /\ Xor(a, a) \in Byte
      /\ Xor(a, 0) \in Byte
  BY <1>1, XorBits
<1>3. Xor(Xor(a, b), c) \in Byte /\ Xor(a, Xor(b, c)) \in Byte
  BY <1>2, XorBits
<1>4. ASSUME NEW v \in BitValues
      PROVE  /\ Bit(Xor(a, b), v) = Bit(Xor(b, a), v)
             /\ Bit(Xor(Xor(a, b), c), v) = Bit(Xor(a, Xor(b, c)), v)
             /\ Bit(Xor(a, a), v) = Bit(0, v)
             /\ Bit(Xor(a, 0), v) = Bit(a, v)
  <2>1. Bit(a, v) \in {0, 1} /\ Bit(b, v) \in {0, 1} /\ Bit(c, v) \in {0, 1} /\ Bit(0, v) = 0
    BY <1>1, BitIsBit
  <2>2. /\ Bit(Xor(a, b), v) = (Bit(a, v) + Bit(b, v)) % 2
        /\ Bit(Xor(b, a), v) = (Bit(b, v) + Bit(a, v)) % 2
        /\ Bit(Xor(b, c), v) = (Bit(b, v) + Bit(c, v)) % 2
        /\ Bit(Xor(a, a), v) = (Bit(a, v) + Bit(a, v)) % 2
        /\ Bit(Xor(a, 0), v) = (Bit(a, v) + Bit(0, v)) % 2
    BY <1>1, XorBits
  <2>3. /\ Bit(Xor(Xor(a, b), c), v) = (Bit(Xor(a, b), v) + Bit(c, v)) % 2
        /\ Bit(Xor(a, Xor(b, c)), v) = (Bit(a, v) + Bit(Xor(b, c), v)) % 2
    BY <1>2, XorBits
  <2> QED
    BY <2>1, <2>2, <2>3
<1> QED
  BY <1>1, <1>2, <1>3, <1>4, SameBits

-------------------------------------------------------------------------------
(* The checksum of a byte is linear, and that of no other byte than 0 is 0. *)

LEMMA ShiftBits ==
  ASSUME NEW d \in Byte
  PROVE  /\ Shift(d) \in Byte
         /\ Bit(Shift(d), 1) = Bit(d, 128)
         /\ Bit(Shift(d), 2) = (Bit(d, 1) + Bit(d, 128)) % 2
         /\ Bit(Shift(d), 4) = (Bit(d, 2) + Bit(d, 128)) % 2
         /\ \A v \in BitValues \ {1, 2, 4} : Bit(Shift(d), v) = Bit(d, v \div 2)
<1> DEFINE e == IF d >= 128 THEN 2 * d - 256 ELSE 2 * d
<1>1. /\ e \in Byte /\ Bit(e, 1) = 0
      /\ \A v \in BitValues \ {1} : Bit(e, v) = Bit(d, v \div 2)
      /\ Bit(d, 128) = IF d >= 128 THEN 1 ELSE 0
  <2>1. /\ Bit(d, 1) \in {0, 1} /\ Bit(d, 2) \in {0, 1} /\ Bit(d, 4) \in {0, 1}
        /\ Bit(d, 8) \in {0, 1} /\ Bit(d, 16) \in {0, 1} /\ Bit(d, 32) \in {0, 1}
        /\ Bit(d, 64) \in {0, 1} /\ Bit(d, 128) \in {0, 1}
    BY BitIsBit DEF BitValues
  <2>2. Bit(d, 128) = IF d >= 128 THEN 1 ELSE 0
    BY <2>1, Split
  <2>3. e = 0 + 2 * Bit(d, 1) + 4 * Bit(d, 2) + 8 * Bit(d, 4) + 16 * Bit(d, 8)
              + 32 * Bit(d, 16) + 64 * Bit(d, 32) + 128 * Bit(d, 64)
    BY <2>1, <2>2, Split
  <2> HIDE DEF e
  <2>4. /\ e \in Byte /\ Bit(e, 1) = 0
        /\ Bit(e, 2) = Bit(d, 1) /\ Bit(e, 4) = Bit(d, 2) /\ Bit(e, 8) = Bit(d, 4)
        /\ Bit(e, 16) = Bit(d, 8) /\ Bit(e, 32) = Bit(d, 16) /\ Bit(e, 64) = Bit(d, 32)
        /\ Bit(e, 128) = Bit(d, 64)
    BY <2>1, <2>3, Join
  <2>5. /\ 2 \div 2 = 1 /\ 4 \div 2 = 2 /\ 8 \div 2 = 4 /\ 16 \div 2 = 8 /\ 32 \div 2 = 16
        /\ 64 \div 2 = 32 /\ 128 \div 2 = 64
    OBVIOUS
  <2> QED
    BY <2>2, <2>4, <2>5 DEF BitValues
<1>2. 7 \in Byte /\ \A v \in BitValues : Bit(7, v) = IF v \in {1, 2, 4} THEN 1 ELSE 0
  BY DEF Byte, Bit, BitValues
<1>3. Shift(d) = IF d >= 128 THEN Xor(e, 7) ELSE e
  BY DEF Shift
<1>4. \A v \in BitValues : Bit(d, v) \in {0, 1} /\ Bit(e, v) \in {0, 1}
  BY <1>1, BitIsBit
<1> HIDE DEF e
<1>5. \A v \in BitValues \ {1} : v \div 2 \in BitValues
  BY DEF BitValues
<1>6. CASE d >= 128
  <2>1. Shift(d) \in Byte /\ \A v \in BitValues : Bit(Shift(d), v) = (Bit(e, v) + Bit(7, v)) % 2
    BY <1>1, <1>2, <1>3, <1>6, XorBits
  <2>2. Bit(d, 128) = 1 /\ {1, 2, 4, 128} \subseteq BitValues /\ 2 \div 2 = 1 /\ 4 \div 2 = 2
    BY <1>1, <1>6 DEF BitValues
  <2>3. /\ Bit(e, 1) = 0 /\ Bit(e, 2) = Bit(d, 1) /\ Bit(e, 4) = Bit(d, 2)
        /\ \A v \in BitValues \ {1, 2, 4} : Bit(e, v) = Bit(d, v \div 2)
    BY <1>1, <2>2
  <2>4. /\ Bit(7, 1) = 1 /\ Bit(7, 2) = 1 /\ Bit(7, 4) = 1
        /\ \A v \in BitValues \ {1, 2, 4} : Bit(7, v) = 0
    BY <1>2, <2>2
  <2>5. \A v \in BitValues \ {1, 2, 4} : Bit(Shift(d), v) = Bit(d, v \div 2)
    BY <1>4, <2>1, <2>3, <2>4
  <2>6. /\ Bit(Shift(d), 1) = (0 + 1) % 2 /\ Bit(Shift(d), 2) = (Bit(d, 1) + 1) % 2
        /\ Bit(Shift(d), 4) = (Bit(d, 2) + 1) % 2
    BY <2>1, <2>2, <2>3, <2>4
  <2> QED
    BY <2>1, <2>2, <2>5, <2>6
<1>7. CASE ~(d >= 128)
  <2>1. Shift(d) \in Byte /\ \A v \in BitValues : Bit(Shift(d), v) = Bit(e, v)
    BY <1>1, <1>3, <1>7
  <2> QED
    BY <1>1, <1>4, <1>5, <1>7, <2>1 DEF BitValues
<1> QED
  BY <1>6, <1>7

LEMMA ShiftLinear ==
  ASSUME NEW a \in Byte, NEW b \in Byte
  PROVE  /\ Shift(a) \in Byte
         /\ Shift(Xor(a, b)) = Xor(Shift(a), Shift(b))
         /\ Shift(a) = 0 => a = 0
<1>1. Shift(a) \in Byte /\ Shift(b) \in Byte /\ Xor(a, b) \in Byte
  BY ShiftBits, XorBits
<1>2. Shift(Xor(a, b)) \in Byte /\ Xor(Shift(a), Shift(b)) \in Byte
  BY <1>1, ShiftBits, XorBits
<1>3. ASSUME NEW v \in BitValues
      PROVE  Bit(Shift(Xor(a, b)), v) = Bit(Xor(Shift(a), Shift(b)), v)
  <2> DEFINE c == Xor(a, b)
  <2>1. Bit(Xor(Shift(a), Shift(b)), v) = (Bit(Shift(a), v) + Bit(Shift(b), v)) % 2
    BY <1>1, XorBits
  <2>2. \A u \in BitValues : /\ Bit(a, u) \in {0, 1} /\ Bit(b, u) \in {0, 1}
                             /\ Bit(c, u) = (Bit(a, u) + Bit(b, u)) % 2
    BY BitIsBit, XorBits
  <2>3. {1, 2, 4, 128} \subseteq BitValues
    BY DEF BitValues
  <2> HIDE DEF c
  <2>4. c \in Byte
    BY <1>1 DEF c
  <2>5. CASE v = 1
    BY <2>1, <2>2, <2>3, <2>4, <2>5, ShiftBits DEF c
  <2>6. CASE v = 2
    <3>1. /\ Bit(Shift(c), 2) = (Bit(c, 1) + Bit(c, 128)) % 2
          /\ Bit(Shift(a), 2) = (Bit(a, 1) + Bit(a, 128)) % 2
          /\ Bit(Shift(b), 2) = (Bit(b, 1) + Bit(b, 128)) % 2
      BY <2>4, ShiftBits
    <3> QED
      BY <2>1, <2>2, <2>3, <2>6, <3>1 DEF c
  <2>7. CASE v = 4
    <3>1. /\ Bit(Shift(c), 4) = (Bit(c, 2) + Bit(c, 128)) % 2
          /\ Bit(Shift(a), 4) = (Bit(a, 2) + Bit(a, 128)) % 2
          /\ Bit(Shift(b), 4) = (Bit(b, 2) + Bit(b, 128)) % 2
      BY <2>4, ShiftBits
    <3> QED
      BY <2>1, <2>2, <2>3, <2>7, <3>1 DEF c
  <2>8. CASE v \in BitValues \ {1, 2, 4}
    <3>1. v \div 2 \in BitValues
      BY <2>8 DEF BitValues
    <3>2. /\ Bit(Shift(c), v) = Bit(c, v \div 2)
          /\ Bit(Shift(a), v) = Bit(a, v \div 2)
          /\ Bit(Shift(b), v) = Bit(b, v \div 2)
      BY <2>4, <2>8, ShiftBits
    <3> QED
      BY <2>1, <2>2, <3>1, <3>2 DEF c
  <2> QED
    BY <2>5, <2>6, <2>7, <2>8
<1>4. ASSUME Shift(a) = 0 PROVE a = 0
  <2>1. \A v \in BitValues : Bit(0, v) = 0 /\ Bit(a, v) \in {0, 1}
    BY BitIsBit DEF Bit, BitValues
  <2>2. /\ Bit(a, 128) = 0 /\ (Bit(a, 1) + Bit(a, 128)) % 2 = 0
        /\ (Bit(a, 2) + Bit(a, 128)) % 2 = 0
    BY <1>4, <2>1, ShiftBits DEF BitValues
  <2>3. Bit(a, 1) = 0 /\ Bit(a, 2) = 0
    BY <2>1, <2>2 DEF BitValues
  <2>4. \A v \in BitValues \ {1, 2, 4} : Bit(a, v \div 2) = 0
    BY <1>4, <2>1, ShiftBits
  <2>5. \A v \in BitValues : Bit(a, v) = Bit(0, v)
    <3>1. /\ {8, 16, 32, 64, 128} \subseteq BitValues \ {1, 2, 4}
          /\ 8 \div 2 = 4 /\ 16 \div 2 = 8 /\ 32 \div 2 = 16 /\ 64 \div 2 = 32
          /\ 128 \div 2 = 64
      BY DEF BitValues
    <3>2. Bit(a, 4) = 0 /\ Bit(a, 8) = 0 /\ Bit(a, 16) = 0 /\ Bit(a, 32) = 0 /\ Bit(a, 64) = 0
      BY <2>4, <3>1
    <3> QED
      BY <2>1, <2>2, <2>3, <3>2 DEF BitValues
  <2>6. 0 \in Byte
    BY DEF Byte
  <2> QED
    BY <2>5, <2>6, SameBits
<1> QED
  BY <1>1, <1>2, <1>3, <1>4, SameBits

(* The same is true of eight shifts.                                       *)
LEMMA CrcLinear ==
  ASSUME NEW a \in Byte, NEW b \in Byte
  PROVE  /\ CrcTable[a] \in Byte
         /\ CrcTable[Xor(a, b)] = Xor(CrcTable[a], CrcTable[b])
         /\ CrcTable[a] = 0 => a = 0
         /\ Shift(a) \in Byte /\ CrcTable[Shift(a)] = Shift(CrcTable[a])
<1> DEFINE S2(d) == Shift(Shift(d))
           S4(d) == S2(S2(d))
<1>1. \A c, d \in Byte : /\ S2(c) \in Byte /\ S2(Xor(c, d)) = Xor(S2(c), S2(d))
                         /\ S2(c) = 0 => c = 0
  BY ShiftLinear
<1>2. \A c, d \in Byte : /\ S4(c) \in Byte /\ S4(Xor(c, d)) = Xor(S4(c), S4(d))
                         /\ S4(c) = 0 => c = 0
  <2> HIDE DEF S2
  <2> QED
    BY <1>1
<1>3. Shift(a) \in Byte /\ Xor(a, b) \in Byte
  BY ShiftLinear, XorLaws
<1>4. \A d \in Byte : CrcTable[d] = S4(S4(d))
  BY DEF CrcTable
<1>5. CrcTable[Shift(a)] = Shift(CrcTable[a])
  BY <1>3 DEF CrcTable
<1> HIDE DEF S4
<1> QED
  BY <1>2, <1>3, <1>4, <1>5, ShiftLinear

LEMMA CrcOfZero == CrcTable[0] = 0
<1>1. Shift(0) = 0 /\ 0 \in Byte
  BY DEF Shift, Byte
<1> QED
  BY <1>1 DEF CrcTable

(* What is left of the bits of two bytes, the first of which has been      *)
(* taken up, is a shift of what was left before.                           *)
Left(u, l) == Xor(CrcTable[u], l)

LEMMA Doubling ==
  ASSUME NEW u \in 0..127, NEW l \in Byte
  PROVE  Left(2 * u + Bit(l, 128), (2 * l) % 256) = Shift(Left(u, l))
<1> DEFINE b == Bit(l, 128)
           m == (2 * l) % 256
<1>1. /\ u \in Byte /\ 2 * u \in Byte /\ Shift(u) = 2 * u /\ b \in {0, 1} /\ m \in Byte
      /\ b \in Byte /\ 2 * u + b \in Byte
  BY DEF Byte, Shift, Bit
<1>2. 7 \in Byte /\ 0 \in Byte /\ 1 \in Byte
  BY DEF Byte
<1>3. CrcTable[0] = 0
  BY CrcOfZero
<1>4. CrcTable[1] = 7
  <2>1. Shift(1) = 2 /\ Shift(2) = 4 /\ Shift(4) = 8 /\ Shift(8) = 16 /\ Shift(16) = 32
        /\ Shift(32) = 64 /\ Shift(64) = 128 /\ Shift(128) = Xor(0, 7)
    BY DEF Shift
  <2>2. Xor(0, 7) = 7
    BY <1>2, XorLaws
  <2> QED
    BY <1>2, <2>1, <2>2 DEF CrcTable
<1>5. Shift(l) = Xor(m, CrcTable[b])
  <2>1. CASE l >= 128
    <3>1. b = 1 /\ m = 2 * l - 256
      BY <2>1 DEF Byte, Bit
    <3> QED
      BY <1>4, <2>1, <3>1 DEF Shift
  <2>2. CASE ~(l >= 128)
    <3>1. b = 0 /\ m = 2 * l
      BY <2>2 DEF Byte, Bit
    <3> QED
      BY <1>1, <1>2, <1>3, <2>2, <3>1, XorLaws DEF Shift
  <2> QED
    BY <2>1, <2>2
<1>6. Xor(2 * u, b) = 2 * u + b
  <2>1. CASE b = 0
    BY <1>1, <1>2, <2>1, XorLaws
  <2>2. CASE b = 1
    <3>1. Bit(2 * u, 1) = 0 /\ Bit(1, 1) = 1
          /\ \A v \in BitValues \ {1} : Bit(1, v) = 0
      BY DEF Bit, BitValues
    <3>2. \A v \in BitValues \ {1} : Bit(2 * u + 1, v) = Bit(2 * u, v)
      BY DEF Bit, BitValues
    <3>3. Bit(2 * u + 1, 1) = 1
      BY DEF Bit
    <3>4. \A v \in BitValues : Bit(Xor(2 * u, 1), v) = Bit(2 * u + 1, v)
      <4>1. \A v \in BitValues : /\ Bit(Xor(2 * u, 1), v) = (Bit(2 * u, v) + Bit(1, v)) % 2
                                 /\ Bit(2 * u, v) \in {0, 1}
        BY <1>1, <1>2, XorBits, BitIsBit
      <4> QED
        BY <3>1, <3>2, <3>3, <4>1
    <3>5. 2 * u + 1 \in Byte
      BY DEF Byte
    <3>6. Xor(2 * u, 1) \in Byte
      BY <1>1, <1>2, XorBits
    <3>7. Xor(2 * u, 1) = 2 * u + 1
      BY <3>4, <3>5, <3>6, SameBits
    <3> QED
      BY <2>2, <3>7
  <2> QED
    BY <1>1, <2>1, <2>2
<1> HIDE DEF b, m
<1>7. CrcTable[2 * u + b] = Xor(Shift(CrcTable[u]), CrcTable[b])
  <2>1. CrcTable[Shift(u)] = Shift(CrcTable[u])
    BY <1>1, CrcLinear
  <2> QED
    BY <1>1, <1>6, <2>1, CrcLinear
<1>8. /\ CrcTable[u] \in Byte /\ CrcTable[b] \in Byte /\ Shift(CrcTable[u]) \in Byte
      /\ Shift(Left(u, l)) = Xor(Shift(CrcTable[u]), Xor(m, CrcTable[b]))
  <2>1. CrcTable[u] \in Byte /\ CrcTable[b] \in Byte
    BY <1>1, CrcLinear
  <2>2. Shift(CrcTable[u]) \in Byte
    BY <2>1, ShiftLinear
  <2>3. Shift(Xor(CrcTable[u], l)) = Xor(Shift(CrcTable[u]), Shift(l))
    BY <2>1, ShiftLinear
  <2> QED
    BY <1>5, <2>1, <2>2, <2>3 DEF Left
<1>9. Left(2 * u + b, m) = Xor(Xor(Shift(CrcTable[u]), CrcTable[b]), m)
  BY <1>7 DEF Left
<1> QED
  <2> DEFINE c == Shift(CrcTable[u])
             d == CrcTable[b]
  <2>1. c \in Byte /\ d \in Byte /\ m \in Byte
    BY <1>1, <1>8
  <2> HIDE DEF c, d
  <2>2. Xor(Xor(c, d), m) = Xor(c, Xor(d, m)) /\ Xor(d, m) = Xor(m, d)
    BY <2>1, XorLaws
  <2>3. Left(2 * u + b, m) = Shift(Left(u, l))
    BY <1>8, <1>9, <2>2 DEF c, d
  <2> QED
    BY <2>3 DEF b, m

(* One place to the left.                                                  *)
LEMMA Halving ==
  ASSUME NEW w \in BitValues \ {128}, NEW p \in 128..255
  PROVE  /\ Upper(p, 2 * w) = 2 * Upper(p, w) + Bit(Lower(p, w), 128)
         /\ Lower(p, 2 * w) = (2 * Lower(p, w)) % 256
<1>1. CASE w = 1
  BY <1>1 DEF Upper, Lower, Bit
<1>2. CASE w = 2
  BY <1>2 DEF Upper, Lower, Bit
<1>3. CASE w = 4
  BY <1>3 DEF Upper, Lower, Bit
<1>4. CASE w = 8
  BY <1>4 DEF Upper, Lower, Bit
<1>5. CASE w = 16
  BY <1>5 DEF Upper, Lower, Bit
<1>6. CASE w = 32
  BY <1>6 DEF Upper, Lower, Bit
<1>7. CASE w = 64
  BY <1>7 DEF Upper, Lower, Bit
<1> QED
  BY <1>1, <1>2, <1>3, <1>4, <1>5, <1>6, <1>7 DEF BitValues

(* No burst is a multiple of the polynomial.                               *)
LEMMA BurstRemains ==
  ASSUME NEW v \in BitValues, NEW pattern \in 128..255
  PROVE  /\ Upper(pattern, v) \in Byte /\ Lower(pattern, v) \in Byte
         /\ Upper(pattern, v) # 0
         /\ CrcTable[Upper(pattern, v)] # Lower(pattern, v)
<1>1. pattern \in Byte /\ pattern # 0 /\ 0 \in 0..127 /\ 0 \in Byte
  BY DEF Byte
<1>2. Left(0, pattern) = pattern
  <2>1. Xor(0, pattern) = Xor(pattern, 0) /\ Xor(pattern, 0) = pattern
    BY <1>1, XorLaws
  <2> QED
    BY <2>1, CrcOfZero DEF Left
<1>3. \A w \in BitValues : /\ Upper(pattern, w) \in 1..255 /\ Lower(pattern, w) \in Byte
                          /\ Left(Upper(pattern, w), Lower(pattern, w)) # 0
  <2> DEFINE Fine(w) == /\ Upper(pattern, w) \in 1..255 /\ Lower(pattern, w) \in Byte
                        /\ Left(Upper(pattern, w), Lower(pattern, w)) # 0
  <2>1. Fine(1)
    <3>1. Upper(pattern, 1) = 1 /\ Lower(pattern, 1) = 2 * pattern - 256
      BY DEF Upper, Lower
    <3>2. Bit(pattern, 128) = 1 /\ (2 * pattern) % 256 = 2 * pattern - 256
      BY DEF Bit
    <3>3. Left(1, 2 * pattern - 256) = Shift(pattern)
      <4>1. Left(2 * 0 + Bit(pattern, 128), (2 * pattern) % 256) = Shift(Left(0, pattern))
        BY <1>1, Doubling
      <4> QED
        BY <1>2, <3>2, <4>1
    <3>4. Shift(pattern) # 0
      BY <1>1, ShiftLinear
    <3>5. 2 * pattern - 256 \in Byte
      BY DEF Byte
    <3> QED
      BY <3>1, <3>3, <3>4, <3>5
  <2>2. ASSUME NEW w \in BitValues \ {128}, Fine(w) PROVE Fine(2 * w)
    <3> DEFINE u == Upper(pattern, w)
               l == Lower(pattern, w)
    <3>1. u \in 0..127 /\ l \in Byte /\ u # 0
      BY <2>2 DEF BitValues, Upper
    <3>2. /\ Upper(pattern, 2 * w) = 2 * u + Bit(l, 128)
          /\ Lower(pattern, 2 * w) = (2 * l) % 256
      BY Halving
    <3>3. Bit(l, 128) \in {0, 1} /\ (2 * l) % 256 \in Byte
      BY <3>1 DEF Byte, Bit
    <3>4. Left(u, l) \in Byte /\ Left(u, l) # 0
      <4>1. u \in Byte
        BY <3>1 DEF Byte
      <4>2. CrcTable[u] \in Byte
        BY <4>1, CrcLinear
      <4> QED
        BY <2>2, <3>1, <4>2, XorBits DEF Left
    <3> HIDE DEF u, l
    <3>5. Left(2 * u + Bit(l, 128), (2 * l) % 256) = Shift(Left(u, l))
      BY <3>1, Doubling
    <3>6. Shift(Left(u, l)) # 0
      BY <3>4, ShiftLinear
    <3> QED
      BY <3>1, <3>2, <3>3, <3>5, <3>6
  <2> HIDE DEF Fine
  <2>3. Fine(2) /\ Fine(4) /\ Fine(8)
    <3>1. Fine(2)
      BY <2>1, <2>2 DEF BitValues
    <3>2. Fine(4)
      BY <3>1, <2>2 DEF BitValues
    <3> QED
      BY <3>1, <3>2, <2>2 DEF BitValues
  <2>4. Fine(16) /\ Fine(32)
    <3>1. Fine(16)
      BY <2>3, <2>2 DEF BitValues
    <3> QED
      BY <3>1, <2>2 DEF BitValues
  <2>5. Fine(64) /\ Fine(128)
    <3>1. Fine(64)
      BY <2>4, <2>2 DEF BitValues
    <3> QED
      BY <3>1, <2>2 DEF BitValues
  <2>6. \A w \in BitValues : Fine(w)
    BY <2>1, <2>3, <2>4, <2>5 DEF BitValues
  <2> QED
    BY <2>6 DEF Fine
<1>4. Upper(pattern, v) \in Byte /\ Lower(pattern, v) \in Byte /\ Upper(pattern, v) # 0
  BY <1>3 DEF Byte
<1>5. CrcTable[Upper(pattern, v)] # Lower(pattern, v)
  BY <1>3, <1>4, XorLaws DEF Left
<1> QED
  BY <1>4, <1>5

-------------------------------------------------------------------------------
(* The checksum of a sequence of bytes.                                    *)

(* Induction, for a set of numbers in the place of a predicate.            *)
LEMMA Least ==
  ASSUME NEW T, T \subseteq Nat, T # {}
  PROVE  \E x \in T : \A y \in T : x <= y
<1>1. PICK R : R = OpToRel(<, Nat)
  OBVIOUS
<1>2. IsWellFoundedOn(R, Nat)
  BY <1>1, NatLessThanWellFounded
<1>3. \A x, y \in Nat : y < x => <<y, x>> \in R
  BY <1>1 DEF OpToRel
<1>4. PICK x \in T : \A y \in T : ~(<<y, x>> \in R)
  BY <1>2, WFMin
<1>5. ASSUME NEW y \in T PROVE x <= y
  <2>1. x \in Nat /\ y \in Nat
    OBVIOUS
  <2>2. ~(y < x)
    BY <1>3, <1>4, <2>1
  <2> QED
    BY <2>1, <2>2
<1> QED
  BY <1>5

LEMMA Induct ==
  ASSUME NEW T, 0 \in T, \A n \in Nat : n \in T => n + 1 \in T
  PROVE  Nat \subseteq T
<1> SUFFICES ASSUME Nat \ T # {} PROVE FALSE
  OBVIOUS
<1>1. PICK x \in Nat \ T : \A y \in Nat \ T : x <= y
  BY Least
<1>2. x # 0 /\ x - 1 \in Nat
  BY <1>1
<1>3. x - 1 \in T
  BY <1>1, <1>2
<1> QED
  BY <1>2, <1>3

(* c goes through the checksums of the first n bytes.                      *)
Runs(c, bytes, n) == /\ c \in [0..n -> Byte] /\ c[0] = 0
                     /\ \A k \in 1..n : c[k] = CrcTable[Xor(c[k - 1], bytes[k])]

LEMMA RunExists ==
  ASSUME NEW m \in Nat, NEW bytes, \A k \in 1..m : bytes[k] \in Byte
  PROVE  \E c : Runs(c, bytes, m)
<1> DEFINE T == {n \in Nat : n <= m => \E c : Runs(c, bytes, n)}
<1>1. 0 \in T
  <2> DEFINE c == [k \in 0..0 |-> 0]
  <2>1. c \in [0..0 -> Byte] /\ c[0] = 0
    BY DEF Byte
  <2> HIDE DEF c
  <2>2. Runs(c, bytes, 0)
    BY <2>1 DEF Runs
  <2> QED
    BY <2>2
<1>2. ASSUME NEW n \in Nat, n \in T PROVE n + 1 \in T
  <2> SUFFICES ASSUME n + 1 <= m PROVE \E c : Runs(c, bytes, n + 1)
    OBVIOUS
  <2>1. PICK c : Runs(c, bytes, n)
    BY <1>2
  <2> DEFINE d == [k \in 0..(n + 1) |-> IF k = n + 1 THEN CrcTable[Xor(c[n], bytes[n + 1])]
                                        ELSE c[k]]
  <2>2. CrcTable[Xor(c[n], bytes[n + 1])] \in Byte
    <3>1. c[n] \in Byte /\ bytes[n + 1] \in Byte
      BY <2>1 DEF Runs
    <3> QED
      BY <3>1, XorBits, CrcLinear
  <2>3. \A k \in 0..(n + 1) : d[k] \in Byte
    BY <2>1, <2>2 DEF Runs
  <2>4. d \in [0..(n + 1) -> Byte] /\ d[0] = 0 /\ d[n + 1] = CrcTable[Xor(c[n], bytes[n + 1])]
    BY <2>1, <2>3 DEF Runs
  <2>5. \A k \in 0..n : d[k] = c[k]
    OBVIOUS
  <2> HIDE DEF d
  <2>6. \A k \in 1..(n + 1) : d[k] = CrcTable[Xor(d[k - 1], bytes[k])]
    <3> SUFFICES ASSUME NEW k \in 1..(n + 1) PROVE d[k] = CrcTable[Xor(d[k - 1], bytes[k])]
      OBVIOUS
    <3>1. d[k - 1] = c[k - 1]
      BY <2>5
    <3>2. CASE k = n + 1
      BY <2>4, <3>1, <3>2
    <3>3. CASE k \in 1..n
      BY <2>1, <2>5, <3>1, <3>3 DEF Runs
    <3> QED
      BY <3>2, <3>3
  <2>7. Runs(d, bytes, n + 1)
    BY <2>4, <2>6 DEF Runs
  <2> QED
    BY <2>7
<1>3. Nat \subseteq T
  <2> HIDE DEF T
  <2> QED
    BY <1>1, <1>2, Induct
<1> QED
  BY <1>3

LEMMA CrcRuns ==
  ASSUME NEW n \in Nat, NEW bytes, \A k \in 1..n : bytes[k] \in Byte
  PROVE  \E c : Runs(c, bytes, n) /\ CrcOf(bytes, n) = c[n]
<1> DEFINE Steps(f) == [k \in 0..n |-> IF k = 0 THEN 0 ELSE CrcTable[Xor(f[k - 1], bytes[k])]]
           crc == CHOOSE f : f = Steps(f)
<1>1. PICK c : Runs(c, bytes, n)
  BY RunExists
<1>2. c = Steps(c)
  <2>1. \A k \in 0..n : c[k] = Steps(c)[k]
    BY <1>1 DEF Runs
  <2>2. DOMAIN c = 0..n /\ c = [k \in 0..n |-> c[k]]
    BY <1>1 DEF Runs
  <2> QED
    BY <2>1, <2>2
<1>3. crc = Steps(crc)
  <2> HIDE DEF Steps
  <2> QED
    BY <1>2 DEF crc
<1>4. CrcOf(bytes, n) = crc[n]
  BY DEF CrcOf
<1> HIDE DEF crc
<1>5. /\ crc[0] = 0 /\ \A k \in 1..n : crc[k] = CrcTable[Xor(crc[k - 1], bytes[k])]
      /\ DOMAIN crc = 0..n /\ crc = [k \in 0..n |-> crc[k]]
  <2>1. /\ Steps(crc)[0] = 0
        /\ \A k \in 1..n : Steps(crc)[k] = CrcTable[Xor(crc[k - 1], bytes[k])]
        /\ DOMAIN Steps(crc) = 0..n /\ Steps(crc) = [k \in 0..n |-> Steps(crc)[k]]
    OBVIOUS
  <2> HIDE DEF Steps
  <2> QED
    BY <1>3, <2>1
<1> HIDE DEF Steps
<1> DEFINE T == {k \in Nat : k <= n => crc[k] \in Byte}
<1>6. 0 \in T
  BY <1>5 DEF Byte
<1>7. ASSUME NEW k \in Nat, k \in T PROVE k + 1 \in T
  <2> SUFFICES ASSUME k + 1 <= n PROVE crc[k + 1] \in Byte
    OBVIOUS
  <2>1. crc[k] \in Byte /\ k + 1 \in 1..n
    BY <1>7
  <2>2. Xor(crc[k], bytes[k + 1]) \in Byte
    BY <2>1, XorBits
  <2>3. crc[k + 1] = CrcTable[Xor(crc[k], bytes[k + 1])]
    BY <1>5, <2>1
  <2> QED
    BY <2>2, <2>3, CrcLinear
<1>8. Nat \subseteq T
  <2> HIDE DEF T
  <2> QED
    BY <1>6, <1>7, Induct
<1>9. \A k \in 0..n : crc[k] \in Byte
  BY <1>8
<1>10. crc \in [0..n -> Byte]
  BY <1>5, <1>9
<1> QED
  BY <1>4, <1>5, <1>10 DEF Runs

LEMMA CrcInjective ==
  ASSUME NEW a \in Byte, NEW b \in Byte
  PROVE  /\ CrcTable[a] = CrcTable[b] => a = b
         /\ Xor(a, b) = 0 => a = b
<1>1. Xor(Xor(a, b), b) = a /\ Xor(a, b) \in Byte
  BY XorLaws
<1>2. ASSUME Xor(a, b) = 0 PROVE a = b
  <2>1. 0 \in Byte
    BY DEF Byte
  <2>2. Xor(0, b) = b
    BY <2>1, XorLaws
  <2> QED
    BY <1>1, <1>2, <2>2
<1>3. ASSUME CrcTable[a] = CrcTable[b] PROVE a = b
  <2>1. CrcTable[Xor(a, b)] = Xor(CrcTable[a], CrcTable[a]) /\ CrcTable[a] \in Byte
    BY <1>3, CrcLinear
  <2>2. CrcTable[Xor(a, b)] = 0
    BY <2>1, XorLaws
  <2> QED
    BY <1>1, <1>2, <2>2, CrcLinear
<1> QED
  BY <1>2, <1>3

(* Two pairs can be joined crosswise.                                      *)
LEMMA XorSwap ==
  ASSUME NEW a \in Byte, NEW b \in Byte, NEW c \in Byte, NEW d \in Byte
  PROVE  Xor(Xor(a, b), Xor(c, d)) = Xor(Xor(a, c), Xor(b, d))
<1>1. Xor(c, d) \in Byte /\ Xor(b, d) \in Byte /\ Xor(b, c) = Xor(c, b)
  BY XorLaws
<1>2. Xor(Xor(a, b), Xor(c, d)) = Xor(a, Xor(b, Xor(c, d)))
  BY <1>1, XorLaws
<1>3. Xor(b, Xor(c, d)) = Xor(Xor(b, c), d) /\ Xor(Xor(c, b), d) = Xor(c, Xor(b, d))
  BY XorLaws
<1>4. Xor(Xor(a, c), Xor(b, d)) = Xor(a, Xor(c, Xor(b, d)))
  BY <1>1, XorLaws
<1> QED
  BY <1>1, <1>2, <1>3, <1>4

LEMMA XorTwice ==
  ASSUME NEW a \in Byte, NEW b \in Byte
  PROVE  Xor(0, a) = a /\ Xor(Xor(a, b), b) = a /\ Xor(b, Xor(b, a)) = a
<1>1. 0 \in Byte
  BY DEF Byte
<1>2. Xor(0, a) = Xor(a, 0) /\ Xor(a, 0) = a /\ Xor(b, b) = 0
  BY <1>1, XorLaws
<1>3. Xor(Xor(a, b), b) = Xor(a, Xor(b, b)) /\ Xor(Xor(b, b), a) = Xor(b, Xor(b, a))
  BY XorLaws
<1> QED
  BY <1>2, <1>3

(* A burst in a frame of n bytes and a checksum does not pass the check.   *)
Hit(n, p, w, i, v, pattern) ==
  w = [k \in 1..(n + 1) |-> CASE k = i -> Xor(p[k], Upper(pattern, v))
                              [] k = i + 1 -> Xor(p[k], Lower(pattern, v))
                              [] OTHER -> p[k]]

LEMMA BurstIsCaught ==
  ASSUME NEW n \in Nat, NEW p, NEW w, \A k \in 1..(n + 1) : p[k] \in Byte /\ w[k] \in Byte,
         NEW i \in 1..(n + 1), NEW v \in BitValues, NEW pattern \in 128..255,
         Hit(n, p, w, i, v, pattern),
         NEW c, Runs(c, p, n), c[n] = p[n + 1], NEW d, Runs(d, w, n), d[n] = w[n + 1]
  PROVE  FALSE
<1> DEFINE u == Upper(pattern, v)
           l == Lower(pattern, v)
<1>1. u \in Byte /\ l \in Byte /\ u # 0 /\ CrcTable[u] # l /\ CrcTable[u] \in Byte
  <2>1. u \in Byte /\ l \in Byte /\ u # 0 /\ CrcTable[u] # l
    BY Zenon, BurstRemains
  <2> HIDE DEF u, l
  <2>2. CrcTable[u] \in Byte
    BY <2>1, Zenon, CrcLinear
  <2> QED
    BY <2>1, <2>2
<1> HIDE DEF u, l
<1>2. \A k \in 1..(n + 1) : /\ k = i => w[k] = Xor(p[k], u)
                            /\ k = i + 1 => w[k] = Xor(p[k], l)
                            /\ k # i /\ k # i + 1 => w[k] = p[k]
  <2>1. \A k \in 1..(n + 1) : w[k] = CASE k = i -> Xor(p[k], u)
                                       [] k = i + 1 -> Xor(p[k], l)
                                       [] OTHER -> p[k]
    <3>1. w = [k \in 1..(n + 1) |-> CASE k = i -> Xor(p[k], u)
                                      [] k = i + 1 -> Xor(p[k], l)
                                      [] OTHER -> p[k]]
      BY Zenon DEF Hit, u, l
    <3> QED
      BY <3>1, Zenon
  <2>2. i \in Nat /\ i # i + 1
    OBVIOUS
  <2> QED
    BY <2>1, <2>2
<1>3. \A k \in 0..n : c[k] \in Byte /\ d[k] \in Byte
  BY DEF Runs
<1>4. \A k \in 1..n : /\ c[k] = CrcTable[Xor(c[k - 1], p[k])]
                      /\ d[k] = CrcTable[Xor(d[k - 1], w[k])]
  BY DEF Runs
<1>5. \A k \in 1..(n + 1) : p[k] \in Byte
  OBVIOUS
<1>6. c[i - 1] = d[i - 1]
  <2> DEFINE T == {k \in Nat : k < i => c[k] = d[k]}
  <2>1. 0 \in T
    BY DEF Runs
  <2>2. ASSUME NEW k \in Nat, k \in T PROVE k + 1 \in T
    <3> SUFFICES ASSUME k + 1 < i PROVE c[k + 1] = d[k + 1]
      OBVIOUS
    <3>1. k + 1 \in 1..n /\ w[k + 1] = p[k + 1] /\ c[k] = d[k]
      BY <1>2, <2>2
    <3> QED
      BY <1>4, <3>1
  <2>3. Nat \subseteq T
    <3> HIDE DEF T
    <3> QED
      BY <2>1, <2>2, Induct
  <2> QED
    BY <2>3
<1>7. i \in 1..n
  <2> SUFFICES ASSUME i = n + 1 PROVE FALSE
    OBVIOUS
  <2>1. Xor(p[i], u) = p[i]
    BY <1>2, <1>6
  <2>2. Xor(Xor(p[i], u), p[i]) = Xor(u, Xor(p[i], p[i]))
    <3>1. Xor(p[i], u) = Xor(u, p[i])
      BY <1>1, <1>5, XorLaws
    <3> QED
      BY <1>1, <1>5, <3>1, XorLaws
  <2>3. Xor(p[i], p[i]) = 0 /\ Xor(u, 0) = u
    BY <1>1, <1>5, XorLaws
  <2> QED
    BY <1>1, <2>1, <2>2, <2>3
<1>8. d[i] = Xor(c[i], CrcTable[u])
  <2> DEFINE x == c[i - 1]
             y == p[i]
  <2>1. x \in Byte /\ y \in Byte
    BY <1>3, <1>5, <1>7
  <2>2. d[i] = CrcTable[Xor(x, Xor(y, u))] /\ c[i] = CrcTable[Xor(x, y)]
    BY <1>2, <1>4, <1>6, <1>7
  <2> HIDE DEF x, y
  <2>3. Xor(x, y) \in Byte /\ Xor(Xor(x, y), u) = Xor(x, Xor(y, u))
    BY <1>1, <2>1, XorLaws
  <2>4. CrcTable[Xor(Xor(x, y), u)] = Xor(CrcTable[Xor(x, y)], CrcTable[u])
    BY <1>1, <2>3, CrcLinear
  <2> QED
    BY <2>2, <2>3, <2>4
<1>9. i < n
  <2> SUFFICES ASSUME i = n PROVE FALSE
    BY <1>7
  <2>1. w[n + 1] = Xor(c[n], l)
    BY <1>2
  <2>2. Xor(c[n], CrcTable[u]) = Xor(c[n], l)
    BY <1>8, <2>1
  <2>3. c[n] \in Byte
    BY <1>3
  <2> QED
    BY <1>1, <2>2, <2>3, XorTwice
<1>10. c[i + 1] # d[i + 1]
  <2> SUFFICES ASSUME c[i + 1] = d[i + 1] PROVE FALSE
    OBVIOUS
  <2>1. i + 1 \in 1..n /\ (i + 1) - 1 = i /\ c[i] \in Byte /\ d[i] \in Byte /\ p[i + 1] \in Byte
    BY <1>3, <1>5, <1>9
  <2>2. w[i + 1] = Xor(p[i + 1], l) /\ w[i + 1] \in Byte
    BY <1>2, <2>1
  <2>3. Xor(c[i], p[i + 1]) \in Byte /\ Xor(d[i], w[i + 1]) \in Byte
    BY <2>1, <2>2, XorLaws
  <2>4. Xor(c[i], p[i + 1]) = Xor(d[i], w[i + 1])
    BY <1>4, <2>1, <2>3, CrcInjective
  <2>5. Xor(d[i], w[i + 1]) = Xor(Xor(c[i], p[i + 1]), Xor(CrcTable[u], l))
    BY <1>1, <1>8, <2>1, <2>2, XorSwap
  <2> DEFINE x == Xor(c[i], p[i + 1])
             y == Xor(CrcTable[u], l)
  <2>6. x \in Byte /\ y \in Byte /\ Xor(x, y) = x
    BY <1>1, <2>3, <2>4, <2>5, XorLaws
  <2> HIDE DEF x, y
  <2>7. Xor(Xor(y, x), x) = y /\ Xor(x, y) = Xor(y, x) /\ Xor(x, x) = 0
    BY <2>6, XorLaws
  <2>8. Xor(CrcTable[u], l) = 0
    BY <2>6, <2>7 DEF y
  <2> QED
    BY <1>1, <2>8, CrcInjective
<1>11. c[n] # d[n]
  <2> DEFINE T == {k \in Nat : i + 1 + k <= n => c[i + 1 + k] # d[i + 1 + k]}
  <2>1. 0 \in T
    BY <1>10
  <2>2. ASSUME NEW k \in Nat, k \in T PROVE k + 1 \in T
    <3> SUFFICES ASSUME i + 1 + (k + 1) <= n PROVE c[i + 1 + (k + 1)] # d[i + 1 + (k + 1)]
      OBVIOUS
    <3> DEFINE j == i + 1 + k
    <3>0. i + 1 + (k + 1) = j + 1
      OBVIOUS
    <3>1. j \in 1..n /\ j + 1 \in 1..n /\ (j + 1) - 1 = j /\ c[j] # d[j]
      BY <2>2
    <3>2. w[j + 1] = p[j + 1] /\ p[j + 1] \in Byte
      BY <1>2, <3>1
    <3> HIDE DEF j
    <3> SUFFICES ASSUME c[j + 1] = d[j + 1] PROVE FALSE
      BY <3>0
    <3>3. c[j] \in Byte /\ d[j] \in Byte
      BY <1>3, <3>1
    <3>4. Xor(c[j], p[j + 1]) \in Byte /\ Xor(d[j], p[j + 1]) \in Byte
      BY <3>2, <3>3, XorLaws
    <3>5. Xor(c[j], p[j + 1]) = Xor(d[j], p[j + 1])
      BY <1>4, <3>1, <3>2, <3>4, CrcInjective
    <3>6. Xor(Xor(c[j], p[j + 1]), p[j + 1]) = c[j] /\ Xor(Xor(d[j], p[j + 1]), p[j + 1]) = d[j]
      BY <3>2, <3>3, XorTwice
    <3> QED
      BY <3>1, <3>5, <3>6
  <2>3. Nat \subseteq T
    <3> HIDE DEF T
    <3> QED
      BY <2>1, <2>2, Induct
  <2>4. n - (i + 1) \in Nat /\ i + 1 + (n - (i + 1)) = n
    BY <1>9
  <2> QED
    BY <2>3, <2>4
<1>12. w[n + 1] = p[n + 1]
  BY <1>2, <1>9
<1> QED
  BY <1>11, <1>12

-------------------------------------------------------------------------------
(* The frame on its way.                                                   *)

Numbers == 4..27  \* lengths of packets

(* A packet of n bytes has been sent, and its frame has at most one burst, *)
(* in the places that are sensitive.                                       *)
Framed(n) ==
  /\ sent \in [1..n -> Byte] /\ n = HeaderSize + sent[4] /\ sent[3] = 1
  /\ wire \in [1..(n + 1) -> Byte]
  /\ \A k \in 1..(n + 1) : wire[k] = FrameOf(sent)[k] \/ k \in Sensitive
  /\ \/ wire = FrameOf(sent)
     \/ \E i \in 1..(n + 1), v \in BitValues, pattern \in 128..255 :
           Hit(n, FrameOf(sent), wire, i, v, pattern)
  /\ \E payload \in Payloads : sent[4] = Len(payload)

FrameInv ==
  /\ stage \in {"idle", "travelling", "received"}
  /\ stage = "idle" => sent = <<>> /\ wire = <<>> /\ routed = <<>>
  /\ stage # "idle" => \E n \in Numbers : Framed(n)
  /\ stage = "travelling" => routed = <<>>
  /\ stage = "received" => routed = IF Accepts THEN Packed ELSE <<>>

LEMMA Number == ASSUME NEW n \in Numbers PROVE n \in Nat /\ n >= 4 /\ n <= 27
BY DEF Numbers

LEMMA FunctionIsSequence ==
  ASSUME NEW S, NEW m \in Nat, NEW f \in [1..m -> S]
  PROVE  f \in Seq(S) /\ Len(f) = m
OBVIOUS

LEMMA FrameIsBytes ==
  ASSUME NEW n \in Numbers, NEW p \in [1..n -> Byte]
  PROVE  /\ Len(p) = n /\ FrameOf(p) \in [1..(n + 1) -> Byte] /\ Len(FrameOf(p)) = n + 1
         /\ \A k \in 1..n : FrameOf(p)[k] = p[k]
         /\ FrameOf(p)[n + 1] = CrcOf(p, n)
<1>1. n \in Nat /\ p \in Seq(Byte) /\ Len(p) = n
  BY Number
<1>2. \A k \in 1..n : p[k] \in Byte
  OBVIOUS
<1>3. PICK c : Runs(c, p, n) /\ CrcOf(p, n) = c[n]
  BY <1>1, <1>2, CrcRuns
<1>4. CrcOf(p, n) \in Byte
  BY <1>1, <1>3 DEF Runs
<1>5. FrameOf(p) = Append(p, CrcOf(p, n))
  BY <1>1 DEF FrameOf, CalculateCRC
<1>6. FrameOf(p) \in Seq(Byte) /\ Len(FrameOf(p)) = n + 1
  BY <1>1, <1>4, <1>5, AppendProperties
<1>7. FrameOf(p)[n + 1] = CrcOf(p, n) /\ \A k \in 1..n : FrameOf(p)[k] = p[k]
  BY <1>1, <1>4, <1>5, AppendProperties
<1> QED
  BY <1>1, <1>6, <1>7

LEMMA PackedIsBytes ==
  ASSUME NEW n \in Numbers, wire \in [1..(n + 1) -> Byte]
  PROVE  /\ \A k \in 1..(n + 1) : Buffer[k] = wire[k]
         /\ wire[4] \in Byte /\ Buffer[4] = wire[4]
         /\ Packed \in [1..(HeaderSize + wire[4]) -> Byte] /\ Len(Packed) = HeaderSize + wire[4]
         /\ \A k \in 1..(HeaderSize + wire[4]) : Packed[k] = Buffer[k]
<1>1. n \in Nat /\ Len(wire) = n + 1 /\ 4 \in 1..(n + 1) /\ n + 1 <= 281
  BY Number
<1>2. Buffer = [k \in 1..281 |-> IF k <= n + 1 THEN wire[k] ELSE 0]
  BY <1>1 DEF Buffer, MAX_MAKERNET_FRAME_LENGTH
<1>3. \A k \in 1..281 : Buffer[k] = (IF k <= n + 1 THEN wire[k] ELSE 0) /\ Buffer[k] \in Byte
  BY <1>1, <1>2 DEF Byte
<1>4. Buffer \in [1..281 -> Byte]
  BY <1>2, <1>3
<1>5. Buffer \in Seq(Byte) /\ Len(Buffer) = 281
  <2> DEFINE b == Buffer
             limit == 281
  <2>1. b \in [1..limit -> Byte] /\ limit \in Nat
    BY <1>4
  <2> HIDE DEF b, limit
  <2>2. b \in Seq(Byte) /\ Len(b) = limit
    BY <2>1, FunctionIsSequence
  <2> QED
    BY <2>2 DEF b, limit
<1>6. \A k \in 1..(n + 1) : Buffer[k] = wire[k]
  <2> SUFFICES ASSUME NEW k \in 1..(n + 1) PROVE Buffer[k] = wire[k]
    OBVIOUS
  <2>1. k \in 1..281 /\ k <= n + 1
    BY <1>1
  <2> QED
    BY <1>3, <2>1
<1>7. wire[4] \in Byte /\ Buffer[4] = wire[4]
  BY <1>1, <1>6
<1> DEFINE m == HeaderSize + wire[4]
<1>8. m \in Nat /\ m <= 281
  <2>1. \A size \in 0..255 : 4 + size \in Nat /\ 4 + size <= 281
    OBVIOUS
  <2> QED
    BY <1>7, <2>1 DEF Byte, HeaderSize
<1>9. Packed = SubSeq(Buffer, 1, m)
  BY <1>7 DEF Packed
<1> HIDE DEF m
<1>10. Packed = [k \in 1..m |-> Buffer[k]]
  BY <1>5, <1>8, <1>9
<1>11. \A k \in 1..m : Buffer[k] \in Byte
  <2>1. \A k \in 1..m : k \in 1..281
    BY <1>8
  <2> QED
    BY <1>3, <2>1
<1>12. Packed \in [1..m -> Byte] /\ Len(Packed) = m /\ \A k \in 1..m : Packed[k] = Buffer[k]
  BY <1>8, <1>10, <1>11
<1> QED
  BY <1>6, <1>7, <1>12 DEF m

LEMMA InitFrameInv == Init => FrameInv
BY DEF Init, FrameInv

LEMMA SendKeepsFrame ==
  ASSUME FrameInv, Send
  PROVE  FrameInv'
<1>1. PICK dest \in Dests, payload \in Payloads :
        /\ sent' = <<dest, 1, 1, Len(payload)>> \o payload
        /\ Finalizes(sent')
        /\ wire' = FrameOf(sent')
  BY DEF Send
<1> DEFINE n == HeaderSize + Len(payload)
           header == <<dest, 1, 1, Len(payload)>>
<1>2. dest \in Byte /\ payload \in Seq(Byte) /\ Len(payload) \in Byte /\ 1 \in Byte
  BY ConstantAssumption DEF Byte
<1>3. header \in Seq(Byte) /\ Len(header) = 4 /\ header[3] = 1 /\ header[4] = Len(payload)
  BY <1>2
<1>4. Len(payload) \in Nat /\ n \in Nat /\ n = 4 + Len(payload)
  BY <1>2 DEF HeaderSize
<1> HIDE DEF header, n
<1> DEFINE packet == header \o payload
<1>5. packet \in Seq(Byte) /\ Len(packet) = n /\ \A k \in 1..4 : packet[k] = header[k]
  <2>1. payload \in Seq(Byte) /\ header \in Seq(Byte)
    BY <1>2, <1>3
  <2>2. /\ packet \in Seq(Byte) /\ Len(packet) = Len(header) + Len(payload)
        /\ \A k \in 1..(Len(header) + Len(payload)) :
              packet[k] = IF k <= Len(header) THEN header[k] ELSE payload[k - Len(header)]
    BY <2>1, ConcatProperties
  <2>3. \A k \in 1..4 : k \in 1..(4 + Len(payload)) /\ k <= 4
    BY <1>4
  <2> QED
    BY <1>3, <1>4, <2>2, <2>3
<1>6. packet = sent'
  BY <1>1 DEF header
<1> HIDE DEF packet
<1>7. packet \in [1..n -> Byte] /\ packet[3] = 1 /\ packet[4] = Len(payload)
  BY <1>3, <1>4, <1>5
<1>8. sent' \in [1..n -> Byte] /\ sent'[3] = 1 /\ sent'[4] = Len(payload)
  BY <1>6, <1>7
<1>9. n \in Numbers
  <2>1. Len(payload) < 24
    BY <1>1, <1>8 DEF Finalizes, MAX_MAKERNET_FRAME_LENGTH
  <2>2. \A size \in Nat : size < 24 => 4 + size \in 4..27
    OBVIOUS
  <2> QED
    BY <1>4, <2>1, <2>2, Zenon DEF Numbers
<1>10. wire' \in [1..(n + 1) -> Byte]
  BY <1>1, <1>8, <1>9, FrameIsBytes
<1>11. Framed(n)'
  BY <1>1, <1>4, <1>8, <1>10 DEF Framed, HeaderSize
<1>12. stage' = "travelling" /\ routed' = <<>>
  BY DEF Send, FrameInv
<1> QED
  BY <1>9, <1>11, <1>12 DEF FrameInv

LEMMA DamageKeepsFrame ==
  ASSUME FrameInv, Damage
  PROVE  FrameInv'
<1>1. PICK n \in Numbers : Framed(n)
  BY DEF FrameInv, Damage
<1>2. stage = "travelling" /\ wire = FrameOf(sent) /\ UNCHANGED <<stage, sent, routed>>
  BY DEF Damage
<1>3. sent \in [1..n -> Byte] /\ n \in Nat
  BY <1>1, Number DEF Framed
<1>4. wire \in [1..(n + 1) -> Byte] /\ Len(wire) = n + 1
  BY <1>2, <1>3, FrameIsBytes
<1>5. PICK i \in 1..(n + 1), v \in BitValues, pattern \in 128..255 :
        /\ wire' = Burst(i, v, pattern)
        /\ \A k \in 1..(n + 1) : wire'[k] = wire[k] \/ k \in Sensitive
  BY <1>4 DEF Damage
<1>6. Upper(pattern, v) \in Byte /\ Lower(pattern, v) \in Byte
  BY BurstRemains
<1>7. wire' = [k \in 1..(n + 1) |-> CASE k = i -> Xor(wire[k], Upper(pattern, v))
                                     [] k = i + 1 -> Xor(wire[k], Lower(pattern, v))
                                     [] OTHER -> wire[k]]
  BY <1>4, <1>5 DEF Burst
<1>8. \A k \in 1..(n + 1) : /\ Xor(wire[k], Upper(pattern, v)) \in Byte
                            /\ Xor(wire[k], Lower(pattern, v)) \in Byte /\ wire[k] \in Byte
  BY <1>4, <1>6, XorBits
<1>9. wire' \in [1..(n + 1) -> Byte]
  BY <1>7, <1>8
<1>10. Hit(n, FrameOf(sent'), wire', i, v, pattern)
  BY <1>2, <1>7 DEF Hit
<1>11. Framed(n)'
  BY <1>1, <1>2, <1>5, <1>9, <1>10 DEF Framed
<1> QED
  BY <1>2, <1>11 DEF FrameInv

LEMMA NextFrameInv == FrameInv /\ [Next]_vars => FrameInv'
<1> SUFFICES ASSUME FrameInv, [Next]_vars PROVE FrameInv'
  OBVIOUS
<1>1. CASE Send
  BY <1>1, SendKeepsFrame
<1>2. CASE Damage
  BY <1>2, DamageKeepsFrame
<1>3. CASE Receive
  <2>1. UNCHANGED <<sent, wire>> /\ stage = "travelling" /\ stage' = "received"
        /\ routed' = IF Accepts THEN Packed ELSE <<>>
    BY <1>3 DEF Receive
  <2>2. Accepts' = Accepts /\ Packed' = Packed /\ \A n : Framed(n)' = Framed(n)
    BY <2>1 DEF Accepts, Packed, Checks, Buffer, Framed
  <2> QED
    BY <2>1, <2>2 DEF FrameInv
<1>4. CASE Again
  BY <1>4 DEF Again, FrameInv
<1>5. CASE UNCHANGED vars
  <2>1. Accepts' = Accepts /\ Packed' = Packed /\ \A n : Framed(n)' = Framed(n)
    BY <1>5 DEF vars, Accepts, Packed, Checks, Buffer, Framed
  <2> QED
    BY <1>5, <2>1 DEF vars, FrameInv
<1> QED
  BY <1>1, <1>2, <1>3, <1>4, <1>5 DEF Next

(* What is received without a change is what was sent; with one in any     *)
(* place but the size, nothing is accepted.                                *)
LEMMA Undamaged ==
  ASSUME NEW n \in Numbers, Framed(n), wire = FrameOf(sent)
  PROVE  Packed = sent /\ Checks(Packed) /\ Buffer[1] = sent[1] /\ Buffer[3] = 1 /\ Buffer[4] = sent[4]
<1>1. /\ sent \in [1..n -> Byte] /\ n = HeaderSize + sent[4] /\ sent[3] = 1
      /\ wire \in [1..(n + 1) -> Byte] /\ n \in Nat /\ n >= 4
  BY Number DEF Framed
<1>2. Len(sent) = n /\ wire[n + 1] = CrcOf(sent, n) /\ \A k \in 1..n : wire[k] = sent[k]
  BY <1>1, FrameIsBytes
<1>3. \A k \in 1..(n + 1) : Buffer[k] = wire[k]
  BY <1>1, PackedIsBytes
<1>4. Packed \in [1..n -> Byte] /\ Len(Packed) = n /\ \A k \in 1..n : Packed[k] = Buffer[k]
  <2>1. wire[4] = sent[4]
    BY <1>1, <1>2
  <2> QED
    BY <1>1, <2>1, PackedIsBytes
<1>5. Packed = sent
  <2>1. \A k \in 1..n : Packed[k] = sent[k]
    BY <1>1, <1>2, <1>3, <1>4
  <2> QED
    BY <1>1, <1>4, <2>1
<1>6. Checks(Packed)
  BY <1>1, <1>2, <1>3, <1>5 DEF Checks, CalculateCRC
<1> QED
  BY <1>1, <1>2, <1>3, <1>5, <1>6

LEMMA DamageIsFound ==
  ASSUME NEW n \in Numbers, Framed(n), 4 \notin Sensitive, Checks(Packed)
  PROVE  wire = FrameOf(sent)
<1> SUFFICES ASSUME NEW i \in 1..(n + 1), NEW v \in BitValues, NEW pattern \in 128..255,
                    Hit(n, FrameOf(sent), wire, i, v, pattern)
             PROVE  FALSE
  BY DEF Framed
<1> DEFINE p == FrameOf(sent)
<1>1. /\ sent \in [1..n -> Byte] /\ n = HeaderSize + sent[4]
      /\ wire \in [1..(n + 1) -> Byte] /\ n \in Nat /\ n >= 4
  BY Number DEF Framed
<1>2. /\ p \in [1..(n + 1) -> Byte] /\ Len(p) = n + 1 /\ p[n + 1] = CrcOf(sent, n)
      /\ \A k \in 1..n : p[k] = sent[k]
  BY <1>1, FrameIsBytes
<1>3. Hit(n, p, wire, i, v, pattern)
  OBVIOUS
<1>4. wire[4] = sent[4]
  <2>1. wire[4] = p[4]
    BY <1>1 DEF Framed
  <2> QED
    BY <1>1, <1>2, <2>1
<1> HIDE DEF p
<1>5. /\ Packed \in [1..n -> Byte] /\ Len(Packed) = n
      /\ \A k \in 1..n : Packed[k] = Buffer[k]
      /\ \A k \in 1..(n + 1) : Buffer[k] = wire[k]
  BY <1>1, <1>4, PackedIsBytes
<1>6. CrcOf(Packed, n) = wire[n + 1]
  BY <1>1, <1>5 DEF Checks, CalculateCRC
<1>7. PICK c : Runs(c, sent, n) /\ CrcOf(sent, n) = c[n]
  <2>1. \A k \in 1..n : sent[k] \in Byte
    BY <1>1
  <2> QED
    BY <1>1, <2>1, CrcRuns
<1>8. PICK d : Runs(d, Packed, n) /\ CrcOf(Packed, n) = d[n]
  <2>1. \A k \in 1..n : Packed[k] \in Byte
    BY <1>5
  <2> QED
    BY <1>1, <2>1, CrcRuns
<1>9. Runs(c, p, n) /\ c[n] = p[n + 1]
  BY <1>2, <1>7 DEF Runs
<1>10. \A k \in 1..n : Packed[k] = wire[k]
  BY <1>1, <1>5
<1>11. Runs(d, wire, n) /\ d[n] = wire[n + 1]
  BY <1>6, <1>8, <1>10 DEF Runs
<1>12. \A k \in 1..(n + 1) : p[k] \in Byte /\ wire[k] \in Byte
  BY <1>1, <1>2
<1>13. n \in Nat
  BY <1>1
<1> QED
  BY <1>3, <1>9, <1>11, <1>12, <1>13, BurstIsCaught

-------------------------------------------------------------------------------
(* Theorems.                                                               *)

THEOREM FrameInvariant == Spec => []FrameInv
  BY InitFrameInv, NextFrameInv, PTL DEF Spec

(* Frames and packets are bytes, and a frame is a byte longer than its     *)
(* packet (Network.cpp 424-455).                                           *)
THEOREM FramesAreTyped == Spec => []TypeOK
<1>1. FrameInv => TypeOK
  <2> SUFFICES ASSUME FrameInv PROVE TypeOK
    OBVIOUS
  <2>1. CASE stage = "idle"
    BY <2>1 DEF FrameInv, TypeOK, BytesOnly
  <2>2. CASE stage # "idle"
    <3>1. PICK n \in Numbers : Framed(n)
      BY <2>2 DEF FrameInv
    <3>2. n \in Nat /\ sent \in [1..n -> Byte] /\ wire \in [1..(n + 1) -> Byte]
      BY <3>1, Number DEF Framed
    <3>3. Len(sent) = n /\ Len(wire) = n + 1 /\ BytesOnly(sent) /\ BytesOnly(wire)
      BY <3>2 DEF BytesOnly
    <3>4. BytesOnly(Packed)
      BY <3>2, PackedIsBytes DEF BytesOnly
    <3>5. BytesOnly(<<>>)
      BY DEF BytesOnly
    <3> QED
      BY <2>2, <3>3, <3>4, <3>5 DEF FrameInv, TypeOK
  <2> QED
    BY <2>1, <2>2
<1> QED
  BY <1>1, FrameInvariant, PTL

(* The checksum catches every change of up to eight bits in a row, in a    *)
(* packet of any bytes, unless it hits the size (Network.cpp 307-347,      *)
(* 444-452; Util.cpp 19-42).                                               *)
THEOREM BurstsAreCaught ==
  ASSUME 4 \notin Sensitive
  PROVE  Spec => []Intact
<1>1. FrameInv => Intact
  <2> SUFFICES ASSUME FrameInv, stage = "received", Accepts PROVE Packed = sent
    BY DEF FrameInv, Intact
  <2>1. PICK n \in Numbers : Framed(n)
    BY DEF FrameInv
  <2>2. wire = FrameOf(sent)
    BY <2>1, DamageIsFound DEF Accepts
  <2> QED
    BY <2>1, <2>2, Undamaged
<1> QED
  BY <1>1, FrameInvariant, PTL

(* What finalizePacketToFrame() lets out and nothing changes is routed, if *)
(* the payload is of up to 19 bytes (Network.cpp 320, 437).                *)
THEOREM FinalizedPacketsAreRouted ==
  ASSUME \A payload \in Payloads : SizeFits(Len(payload))
  PROVE  Spec => []FinalizedIsRouted
<1>1. FrameInv => FinalizedIsRouted
  <2> SUFFICES ASSUME FrameInv, stage = "received", wire = FrameOf(sent), ForMe(sent[1])
               PROVE  Accepts /\ Packed = sent
    BY DEF FrameInv, FinalizedIsRouted
  <2>1. PICK n \in Numbers : Framed(n)
    BY DEF FrameInv
  <2>2. SizeFits(sent[4])
    BY <2>1 DEF Framed
  <2> QED
    BY <2>1, <2>2, Undamaged DEF Accepts, NUM_PORTS
<1> QED
  BY <1>1, FrameInvariant, PTL
===============================================================================
