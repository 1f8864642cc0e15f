----------------------------- MODULE WordProofs -----------------------------
(***************************************************************************)
(* What the operations of Words and of Cpu return.  The provers lose        *)
(* themselves in the constants of 16-bit arithmetic, so Word is kept closed  *)
(* and its numbers enter and leave through the first lemmas.                 *)
(***************************************************************************)
EXTENDS Cpu, InstructionTable, TLAPS

(* A word is an integer with bounds, ... *)
LEMMA WordBounds ==
  ASSUME NEW w \in Word
  PROVE  w \in Int /\ 0 <= w /\ w < 65536
  BY SMT DEF Word

(* ... and such an integer is a word. *)
LEMMA BoundedWord ==
  ASSUME NEW w \in Int, 0 <= w, w < 65536
  PROVE  w \in Word
<1> DEFINE max == 65535
<1>1. max \in Int /\ w <= max
  BY SMTT(60)
<1>2. w \in 0 .. max
  <2> HIDE DEF max
  <2> QED
    BY SMTT(60), <1>1
<1>3. Word = 0 .. max
  BY SMTT(60) DEF Word
<1> QED
  <2> HIDE DEF max
  <2> QED
    BY SMTT(60), <1>2, <1>3

(* The halves of a long have those bounds, ... *)
LEMMA LongParts ==
  ASSUME NEW x \in Long
  PROVE  /\ x.hi \in Int /\ 0 <= x.hi /\ x.hi < 65536
         /\ x.lo \in Int /\ 0 <= x.lo /\ x.lo < 65536
<1>1. x.hi \in Word /\ x.lo \in Word
  BY SMT DEF Long
<1> QED
  BY SMT, <1>1, WordBounds

(* ... and any two words are the halves of one. *)
LEMMA LongPair ==
  ASSUME NEW h \in Word, NEW l \in Word
  PROVE  /\ [hi |-> h, lo |-> l] \in Long
         /\ [hi |-> h, lo |-> l].hi = h
         /\ [hi |-> h, lo |-> l].lo = l
  BY SMT DEF Long

(* A quotient and a remainder in their range are \div and %. *)
LEMMA Wrap16 ==
  ASSUME NEW x \in Int, NEW q \in Int, NEW r \in Int,
         x = 65536 * q + r, 0 <= r, r < 65536
  PROVE  x \div 65536 = q /\ x % 65536 = r
<1>1. x = 65536 * (x \div 65536) + (x % 65536) /\ x \div 65536 \in Int
  BY SMTT(60)
<1>2. x % 65536 \in Int /\ 0 <= x % 65536 /\ x % 65536 < 65536
  BY SMTT(60)
<1> DEFINE d == x \div 65536
           e == x % 65536
<1>3. d \in Int /\ e \in Int /\ 0 <= e /\ e < 65536
      /\ 65536 * d + e = 65536 * q + r
  BY SMTT(60), <1>1, <1>2
<1> HIDE DEF d, e
<1>4. d = q /\ e = r
  BY SMTT(60), <1>3
<1> QED
  BY SMTT(60), <1>4 DEF d, e

(* The same for a byte. *)
LEMMA Wrap8 ==
  ASSUME NEW x \in Int, NEW q \in Int, NEW r \in Int,
         x = 256 * q + r, 0 <= r, r < 256
  PROVE  x % 256 = r
  BY SMT

(* A number has a byte at its low end. *)
LEMMA LowByte ==
  ASSUME NEW x \in Int
  PROVE  /\ x % 256 \in Int /\ 0 <= x % 256 /\ x % 256 < 256
         /\ x = 256 * (x \div 256) + (x % 256) /\ x \div 256 \in Int
  BY SMT

(* The two words of a number are its own. *)
LEMMA Digits ==
  ASSUME NEW a \in Int, NEW b \in Int, NEW c \in Int, NEW d \in Int,
         0 <= b, b < 65536, 0 <= d, d < 65536, 65536 * a + b = 65536 * c + d
  PROVE  a = c /\ b = d
  BY SMT
-----------------------------------------------------------------------------
(* A conjunction of four bits is four bits. *)
LEMMA AndNibbleType == \A v \in Nibble, w \in Nibble : AndNibble[v][w] \in Nibble
<1> SUFFICES ASSUME NEW v \in Nibble, NEW w \in Nibble PROVE AndNibble[v][w] \in Nibble
  OBVIOUS
<1> DEFINE B(p) == AndBit(v, w, p)
<1>1. ASSUME NEW p \in {1, 2, 4, 8} PROVE B(p) \in {0, p}
  <2>1. v \in Int /\ w \in Int /\ p \in Int /\ p > 0
    BY SMT DEF Nibble
  <2>2. v \div p \in Int /\ w \div p \in Int
    BY SMT, <2>1
  <2>3. (v \div p) % 2 \in {0, 1} /\ (w \div p) % 2 \in {0, 1}
    BY SMT, <2>2
  <2> QED
    BY SMT, <2>1, <2>3 DEF AndBit
<1>2. AndNibble[v][w] = B(1) + B(2) + B(4) + B(8)
  BY DEF AndNibble
<1> HIDE DEF B
<1>3. B(1) \in {0, 1} /\ B(2) \in {0, 2} /\ B(4) \in {0, 4} /\ B(8) \in {0, 8}
  BY <1>1
<1> QED
  BY SMT, <1>2, <1>3 DEF Nibble

(* A conjunction of words is a word, ... *)
LEMMA AndWordIsWord ==
  ASSUME NEW v \in Word, NEW w \in Word
  PROVE  AndWord(v, w) \in Word
<1> DEFINE a == AndNibble[v % 16][w % 16]
           b == AndNibble[(v \div 16) % 16][(w \div 16) % 16]
           c == AndNibble[(v \div 256) % 16][(w \div 256) % 16]
           d == AndNibble[v \div 4096][w \div 4096]
<1>1. \A x \in Word : /\ x % 16 \in Nibble /\ (x \div 16) % 16 \in Nibble
                     /\ (x \div 256) % 16 \in Nibble /\ x \div 4096 \in Nibble
  <2> SUFFICES ASSUME NEW x \in Int, 0 <= x, x < 65536
               PROVE  /\ x % 16 \in Nibble /\ (x \div 16) % 16 \in Nibble
                      /\ (x \div 256) % 16 \in Nibble /\ x \div 4096 \in Nibble
    BY WordBounds
  <2>1. x % 16 \in Nibble
    BY SMT DEF Nibble
  <2>2. (x \div 16) % 16 \in Nibble
    BY SMT DEF Nibble
  <2>3. (x \div 256) % 16 \in Nibble
    BY SMT DEF Nibble
  <2>4. x \div 4096 \in Nibble
    BY SMT DEF Nibble
  <2> QED
    BY <2>1, <2>2, <2>3, <2>4
<1>2. a \in Nibble /\ b \in Nibble /\ c \in Nibble /\ d \in Nibble
  BY <1>1, AndNibbleType
<1>3. AndWord(v, w) = a + 16 * b + 256 * c + 4096 * d
  BY DEF AndWord
<1> HIDE DEF a, b, c, d
<1>4. AndWord(v, w) \in Int /\ 0 <= AndWord(v, w) /\ AndWord(v, w) < 65536
  BY SMT, <1>2, <1>3 DEF Nibble
<1> QED
  BY SMT, <1>4, BoundedWord

(* ... and one of longs a long. *)
LEMMA AndLongIsLong ==
  ASSUME NEW x \in Long, NEW y \in Long
  PROVE  AndLong(x, y) \in Long
<1>1. x.hi \in Word /\ x.lo \in Word /\ y.hi \in Word /\ y.lo \in Word
  BY SMT DEF Long
<1>2. AndWord(x.hi, y.hi) \in Word /\ AndWord(x.lo, y.lo) \in Word
  BY <1>1, AndWordIsWord
<1> QED
  BY SMT, <1>2, LongPair DEF AndLong

-----------------------------------------------------------------------------
(* The remainder of a wrap is a word, and the small numbers are. *)
LEMMA ModWord ==
  ASSUME NEW x \in Int
  PROVE  x % 65536 \in Word
<1>1. x % 65536 \in Int /\ 0 <= x % 65536 /\ x % 65536 < 65536
  BY SMT
<1> QED
  BY SMT, <1>1, BoundedWord

(* A byte is a word. *)
LEMMA ByteIsWord ==
  ASSUME NEW b \in Byte
  PROVE  b \in Word
  BY SMT, BoundedWord DEF Byte

(* A word is a long ... *)
LEMMA FromWordType ==
  ASSUME NEW w \in Word
  PROVE  FromWord(w) \in Long
<1>1. 0 \in Word
  BY SMT, BoundedWord
<1> QED
  BY <1>1, LongPair DEF FromWord

(* Zero is a long. *)
LEMMA ZeroLongType == ZeroLong \in Long
<1>1. 0 \in Word
  BY SMT, BoundedWord
<1> QED
  BY <1>1, FromWordType DEF ZeroLong

(* A sum that wraps is a long, ... *)
LEMMA AddLongType ==
  ASSUME NEW x \in Long, NEW y \in Long
  PROVE  AddLong(x, y) \in Long
<1> DEFINE lo == x.lo + y.lo
           hi == x.hi + y.hi + lo \div 65536
<1>1. lo \in Int /\ hi \in Int
  BY SMT, LongParts
<1>2. AddLong(x, y) = [hi |-> hi % 65536, lo |-> lo % 65536]
  BY DEF AddLong
<1> HIDE DEF lo, hi
<1> QED
  BY <1>1, <1>2, ModWord, LongPair

(* ... and so is a difference, ... *)
LEMMA SubLongType ==
  ASSUME NEW x \in Long, NEW y \in Long
  PROVE  SubLong(x, y) \in Long
<1> DEFINE lo == x.lo - y.lo
           hi == x.hi - y.hi + lo \div 65536
<1>1. lo \in Int /\ hi \in Int
  BY SMT, LongParts
<1>2. SubLong(x, y) = [hi |-> hi % 65536, lo |-> lo % 65536]
  BY DEF SubLong
<1> HIDE DEF lo, hi
<1> QED
  BY <1>1, <1>2, ModWord, LongPair

(* ... and so is a scaled index. *)
LEMMA ShiftLongType ==
  ASSUME NEW x \in Long, NEW k \in 0 .. 3
  PROVE  ShiftLong(x, k) \in Long
<1> DEFINE f  == IF k = 0 THEN 1 ELSE IF k = 1 THEN 2 ELSE IF k = 2 THEN 4 ELSE 8
           lo == x.lo * f
           hi == x.hi * f + lo \div 65536
<1>1. f \in {1, 2, 4, 8}
  BY SMT
<1>2. lo \in Int
  BY SMT, <1>1, LongParts
<1>3. hi \in Int
  <2> HIDE DEF lo
  <2> QED
    BY SMT, <1>1, <1>2, LongParts
<1>4. ShiftLong(x, k) = [hi |-> hi % 65536, lo |-> lo % 65536]
  BY SMT DEF ShiftLong
<1> HIDE DEF lo, hi
<1> QED
  BY <1>2, <1>3, <1>4, ModWord, LongPair

(* A sign extension is a long. *)
LEMMA SignExtendType ==
  /\ \A w \in Word : SignExtendWord(w) \in Long
  /\ \A b \in Byte : SignExtendByte(b) \in Long
<1>1. 0 \in Word /\ 65535 \in Word
  BY SMT, BoundedWord
<1>2. ASSUME NEW w \in Word PROVE SignExtendWord(w) \in Long
  <2> DEFINE h == IF w >= 32768 THEN 65535 ELSE 0
  <2>1. h \in Word
    BY <1>1
  <2>2. SignExtendWord(w) = [hi |-> h, lo |-> w]
    BY DEF SignExtendWord
  <2> HIDE DEF h
  <2> QED
    BY <2>1, <2>2, LongPair
<1>3. ASSUME NEW b \in Byte PROVE SignExtendByte(b) \in Long
  <2>1. CASE b >= 128
    <3>1. 65280 + b \in Word
      BY SMT, BoundedWord DEF Byte
    <3>2. SignExtendByte(b) = [hi |-> 65535, lo |-> 65280 + b]
      BY <2>1 DEF SignExtendByte
    <3> QED
      BY <1>1, <3>1, <3>2, LongPair
  <2>2. CASE ~(b >= 128)
    BY <2>2, ByteIsWord, FromWordType DEF SignExtendByte
  <2> QED
    BY <2>1, <2>2
<1> QED
  BY <1>2, <1>3

(* The part of a long that an operation uses is a long, ... *)
LEMMA TruncateType ==
  ASSUME NEW x \in Long, NEW n
  PROVE  Truncate(x, n) \in Long
<1>1. x.lo \in Word
  BY DEF Long
<1>2. x.lo % 256 \in Word
  BY SMT, LongParts, BoundedWord
<1>3. CASE n = 0
  BY SMT, <1>2, <1>3, FromWordType DEF Truncate
<1>4. CASE n = 1
  BY SMT, <1>1, <1>4, FromWordType DEF Truncate
<1>5. CASE n \notin {0, 1}
  BY SMT, <1>5 DEF Truncate
<1> QED
  BY <1>3, <1>4, <1>5

(* ... and so is a long with that part replaced. *)
LEMMA MergeType ==
  ASSUME NEW old \in Long, NEW x \in Long, NEW n
  PROVE  Merge(old, x, n) \in Long
<1> DEFINE low == 256 * (old.lo \div 256) + (x.lo % 256)
<1>1. low \in Word
  <2>1. low \in Int /\ 0 <= low /\ low < 65536
    BY SMT, LongParts
  <2> HIDE DEF low
  <2> QED
    BY <2>1, BoundedWord
<1>2. old.hi \in Word
  BY DEF Long
<1>3. \A l : [old EXCEPT !.lo = l] = [hi |-> old.hi, lo |-> l]
  BY DEF Long
<1>4. CASE n = 0
  <2>1. Merge(old, x, n) = [old EXCEPT !.lo = low]
    BY SMT, <1>4 DEF Merge
  <2>2. Merge(old, x, n) = [hi |-> old.hi, lo |-> low]
    BY Zenon, <1>3, <2>1
  <2> HIDE DEF low
  <2> QED
    BY Zenon, <1>1, <1>2, <2>2, LongPair
<1>5. CASE n = 1
  <2>1. Merge(old, x, n) = [old EXCEPT !.lo = x.lo]
    BY SMT, <1>5 DEF Merge
  <2>2. Merge(old, x, n) = [hi |-> old.hi, lo |-> x.lo]
    BY Zenon, <1>3, <2>1
  <2>3. x.lo \in Word
    BY DEF Long
  <2> QED
    BY Zenon, <1>2, <2>2, <2>3, LongPair
<1>6. CASE n \notin {0, 1}
  BY SMT, <1>6 DEF Merge
<1> QED
  BY <1>4, <1>5, <1>6

-----------------------------------------------------------------------------
(* The fields of an opcode, of an effective address and of an extension word. *)
LEMMA FieldTypes ==
  ASSUME NEW w \in Int
  PROVE  /\ Field(w, 0, 3) \in 0 .. 7 /\ Field(w, 3, 3) \in 0 .. 7
         /\ Field(w, 6, 3) \in 0 .. 7 /\ Field(w, 9, 3) \in 0 .. 7
         /\ Field(w, 12, 3) \in 0 .. 7 /\ Field(w, 9, 2) \in 0 .. 3
  BY SMT DEF Field

(* The powers of two of a word's bits, one by one: the provers have no law of *)
(* exponents.                                                               *)
Powers ==
  {1, 2, 4, 8, 16, 32, 64, 128, 256, 512, 1024, 2048, 4096, 8192, 16384, 32768}

(* The power of a bit of a word is one of the sixteen. *)
LEMMA PowerOfBit ==
  ASSUME NEW n \in 0 .. 15
  PROVE  2^n \in Powers
<1>1. CASE n = 0
  BY SMT, <1>1 DEF Powers
<1>2. CASE n = 1
  BY SMT, <1>2 DEF Powers
<1>3. CASE n = 2
  BY SMT, <1>3 DEF Powers
<1>4. CASE n = 3
  BY SMT, <1>4 DEF Powers
<1>5. CASE n = 4
  BY SMT, <1>5 DEF Powers
<1>6. CASE n = 5
  BY SMT, <1>6 DEF Powers
<1>7. CASE n = 6
  BY SMT, <1>7 DEF Powers
<1>8. CASE n = 7
  BY SMT, <1>8 DEF Powers
<1>9. CASE n = 8
  BY SMT, <1>9 DEF Powers
<1>10. CASE n = 9
  BY SMT, <1>10 DEF Powers
<1>11. CASE n = 10
  BY SMT, <1>11 DEF Powers
<1>12. CASE n = 11
  BY SMT, <1>12 DEF Powers
<1>13. CASE n = 12
  BY SMT, <1>13 DEF Powers
<1>14. CASE n = 13
  BY SMT, <1>14 DEF Powers
<1>15. CASE n = 14
  BY SMT, <1>15 DEF Powers
<1>16. CASE n = 15
  BY SMT, <1>16 DEF Powers
<1> QED
  BY SMT, <1>1, <1>2, <1>3, <1>4, <1>5, <1>6, <1>7, <1>8,
     <1>9, <1>10, <1>11, <1>12, <1>13, <1>14, <1>15, <1>16

(* A word with one of its bits replaced is a word. *)
LEMMA ChangedBit ==
  ASSUME NEW w \in Int, 0 <= w, w < 65536, NEW b \in {0, 1}, NEW p \in Powers
  PROVE  /\ w + (b - ((w \div p) % 2)) * p \in Int
         /\ 0 <= w + (b - ((w \div p) % 2)) * p
         /\ w + (b - ((w \div p) % 2)) * p < 65536
<1>1. CASE p = 1
  BY SMT, <1>1
<1>2. CASE p = 2
  BY SMT, <1>2
<1>3. CASE p = 4
  BY SMT, <1>3
<1>4. CASE p = 8
  BY SMT, <1>4
<1>5. CASE p = 16
  BY SMT, <1>5
<1>6. CASE p = 32
  BY SMT, <1>6
<1>7. CASE p = 64
  BY SMT, <1>7
<1>8. CASE p = 128
  BY SMT, <1>8
<1>9. CASE p = 256
  BY SMT, <1>9
<1>10. CASE p = 512
  BY SMT, <1>10
<1>11. CASE p = 1024
  BY SMT, <1>11
<1>12. CASE p = 2048
  BY SMT, <1>12
<1>13. CASE p = 4096
  BY SMT, <1>13
<1>14. CASE p = 8192
  BY SMT, <1>14
<1>15. CASE p = 16384
  BY SMT, <1>15
<1>16. CASE p = 32768
  BY SMT, <1>16
<1> QED
  BY SMT, <1>1, <1>2, <1>3, <1>4, <1>5, <1>6, <1>7, <1>8,
     <1>9, <1>10, <1>11, <1>12, <1>13, <1>14, <1>15, <1>16 DEF Powers

(* A bit of a long is 0 or 1, ... *)
LEMMA LongBitType ==
  ASSUME NEW x \in Long, NEW n \in 0 .. 31
  PROVE  LongBit(x, n) \in {0, 1}
<1>1. \A w \in Int, p \in Powers : (w \div p) % 2 \in {0, 1}
  BY SMT DEF Powers
<1>2. CASE n < 16
  <2>1. 2^n \in Powers
    <3>1. n \in 0 .. 15
      BY SMT, <1>2
    <3> QED
      BY Zenon, <3>1, PowerOfBit
  <2>2. LongBit(x, n) = (x.lo \div 2^n) % 2
    BY <1>2 DEF LongBit, Bit
  <2> QED
    BY <1>1, <2>1, <2>2, LongParts
<1>3. CASE ~(n < 16)
  <2>1. 2^(n - 16) \in Powers
    <3>1. n - 16 \in 0 .. 15
      BY SMT, <1>3
    <3> QED
      BY Zenon, <3>1, PowerOfBit
  <2>2. LongBit(x, n) = (x.hi \div 2^(n - 16)) % 2
    BY <1>3 DEF LongBit, Bit
  <2> QED
    BY <1>1, <2>1, <2>2, LongParts
<1> QED
  BY <1>2, <1>3

(* ... and a long with a bit replaced is a long. *)
LEMMA SetLongBitType ==
  ASSUME NEW x \in Long, NEW n \in 0 .. 31, NEW b \in {0, 1}
  PROVE  SetLongBit(x, n, b) \in Long
<1>1. /\ \A w : [x EXCEPT !.lo = w] = [hi |-> x.hi, lo |-> w]
      /\ \A w : [x EXCEPT !.hi = w] = [hi |-> w, lo |-> x.lo]
      /\ x.hi \in Word /\ x.lo \in Word
  BY DEF Long
<1>2. CASE n < 16
  <2> DEFINE new == x.lo + (b - ((x.lo \div 2^n) % 2)) * 2^n
  <2>1. 2^n \in Powers
    <3>1. n \in 0 .. 15
      BY SMT, <1>2
    <3> QED
      BY Zenon, <3>1, PowerOfBit
  <2>2. new \in Word
    <3>1. new \in Int /\ 0 <= new /\ new < 65536
      BY <2>1, LongParts, ChangedBit
    <3> HIDE DEF new
    <3> QED
      BY <3>1, BoundedWord
  <2>3. SetLongBit(x, n, b) = [hi |-> x.hi, lo |-> new]
    BY Zenon, <1>1, <1>2 DEF SetLongBit, Bit
  <2> HIDE DEF new
  <2> QED
    BY <1>1, <2>2, <2>3, LongPair
<1>3. CASE ~(n < 16)
  <2> DEFINE new == x.hi + (b - ((x.hi \div 2^(n - 16)) % 2)) * 2^(n - 16)
  <2>1. 2^(n - 16) \in Powers
    <3>1. n - 16 \in 0 .. 15
      BY SMT, <1>3
    <3> QED
      BY Zenon, <3>1, PowerOfBit
  <2>2. new \in Word
    <3>1. new \in Int /\ 0 <= new /\ new < 65536
      BY <2>1, LongParts, ChangedBit
    <3> HIDE DEF new
    <3> QED
      BY <3>1, BoundedWord
  <2>3. SetLongBit(x, n, b) = [hi |-> new, lo |-> x.lo]
    BY Zenon, <1>1, <1>3 DEF SetLongBit, Bit
  <2> HIDE DEF new
  <2> QED
    BY <1>1, <2>2, <2>3, LongPair
<1> QED
  BY <1>2, <1>3

(* Putting back the bit that was read changes nothing. *)
LEMMA SetSameBit ==
  ASSUME NEW x \in Long, NEW n \in 0 .. 31
  PROVE  SetLongBit(x, n, LongBit(x, n)) = x
<1>1. /\ [x EXCEPT !.lo = x.lo] = x /\ [x EXCEPT !.hi = x.hi] = x
      /\ x.lo \in Int /\ x.hi \in Int
  <2>1. [x EXCEPT !.lo = x.lo] = x /\ [x EXCEPT !.hi = x.hi] = x
    BY DEF Long
  <2> QED
    BY <2>1, LongParts
<1>2. \A w \in Int, b \in Int, p \in Powers : w + (b - b) * p = w
  BY SMT DEF Powers
<1>3. \A w \in Int, p \in Powers : (w \div p) % 2 \in Int
  BY SMT DEF Powers
<1>4. CASE n < 16
  <2> DEFINE p == 2^n
             b == (x.lo \div p) % 2
  <2>1. p \in Powers
    <3>1. n \in 0 .. 15
      BY SMT, <1>4
    <3> QED
      BY Zenon, <3>1, PowerOfBit
  <2>2. SetLongBit(x, n, LongBit(x, n)) = [x EXCEPT !.lo = x.lo + (b - b) * p]
    BY Zenon, <1>4 DEF SetLongBit, LongBit, Bit
  <2> HIDE DEF p
  <2>3. b \in Int
    BY <1>1, <1>3, <2>1
  <2> HIDE DEF b
  <2> QED
    BY <1>1, <1>2, <2>1, <2>2, <2>3
<1>5. CASE ~(n < 16)
  <2> DEFINE p == 2^(n - 16)
             b == (x.hi \div p) % 2
  <2>1. p \in Powers
    <3>1. n - 16 \in 0 .. 15
      BY SMT, <1>5
    <3> QED
      BY Zenon, <3>1, PowerOfBit
  <2>2. SetLongBit(x, n, LongBit(x, n)) = [x EXCEPT !.hi = x.hi + (b - b) * p]
    BY Zenon, <1>5 DEF SetLongBit, LongBit, Bit
  <2> HIDE DEF p
  <2>3. b \in Int
    BY <1>1, <1>3, <2>1
  <2> HIDE DEF b
  <2> QED
    BY <1>1, <1>2, <2>1, <2>2, <2>3
<1> QED
  BY <1>4, <1>5

-----------------------------------------------------------------------------
(* The operations of Cpu return a status register. *)

(* The user flags are bits of the register. *)
LEMMA FlagIsBit == {SR_Z, SR_N, SR_V, SR_C, SR_X} \subseteq 0 .. 15
  BY SMT DEF SR_Z, SR_N, SR_V, SR_C, SR_X

(* Setting and clearing its bits leaves a status register, ... *)
LEMMA SetFlagType ==
  ASSUME NEW f \in StatusRegister, NEW flag \in 0 .. 15, NEW on
  PROVE  set_sr_flag(f, flag, on) \in StatusRegister
  BY Zenon DEF set_sr_flag, StatusRegister

(* ... and so do the two functions that set all the user flags. *)
LEMMA SetFlagsType ==
  ASSUME NEW f \in StatusRegister, NEW S, NEW D, NEW R, NEW n, NEW is_sub
  PROVE  /\ set_flags(f, S, D, R, n, is_sub) \in StatusRegister
         /\ set_logic_flags(f, R, n) \in StatusRegister
<1>1. f \ {SR_C, SR_V} \in StatusRegister
  BY Zenon DEF StatusRegister
<1>2. /\ SR_Z \in 0 .. 15 /\ SR_N \in 0 .. 15 /\ SR_V \in 0 .. 15
      /\ SR_C \in 0 .. 15 /\ SR_X \in 0 .. 15
  BY Zenon, FlagIsBit
<1> QED
  BY Zenon, <1>1, <1>2, SetFlagType DEF set_flags, set_logic_flags

-----------------------------------------------------------------------------
(* What the sums of addresses do: a step forth and back, and several steps.  *)

(* Reducing a part of a sum first changes nothing. *)
LEMMA ModOfSum ==
  ASSUME NEW x \in Int, NEW k \in Int
  PROVE  ((x % 65536) + k) % 65536 = (x + k) % 65536
<1> DEFINE q == x \div 65536
           r == x % 65536
           p == (r + k) \div 65536
           s == (r + k) % 65536
<1>1. x = 65536 * q + r /\ q \in Int /\ r \in Int
  BY SMTT(30)
<1> HIDE DEF q, r
<1>2. r + k = 65536 * p + s /\ p \in Int /\ s \in Int /\ 0 <= s /\ s < 65536
  BY SMTT(30), <1>1
<1> HIDE DEF p, s
<1>3. x + k = 65536 * (q + p) + s /\ q + p \in Int /\ x + k \in Int
  BY SMTT(30), <1>1, <1>2
<1>4. (x + k) % 65536 = s
  BY <1>2, <1>3, Wrap16
<1> QED
  BY <1>4 DEF r, s

(* The fields of a sum and of a difference. *)
LEMMA AddLongParts ==
  ASSUME NEW x \in Long, NEW y \in Long
  PROVE  /\ AddLong(x, y).hi = (x.hi + y.hi + ((x.lo + y.lo) \div 65536)) % 65536
         /\ AddLong(x, y).lo = (x.lo + y.lo) % 65536
         /\ SubLong(x, y).hi = (x.hi - y.hi + ((x.lo - y.lo) \div 65536)) % 65536
         /\ SubLong(x, y).lo = (x.lo - y.lo) % 65536
<1> DEFINE la == x.lo + y.lo
           ha == (x.hi + y.hi + (la \div 65536)) % 65536
           ls == x.lo - y.lo
           hs == (x.hi - y.hi + (ls \div 65536)) % 65536
<1>1. /\ AddLong(x, y) = [hi |-> ha, lo |-> la % 65536]
      /\ SubLong(x, y) = [hi |-> hs, lo |-> ls % 65536]
  BY DEF AddLong, SubLong
<1> HIDE DEF ha, hs, la, ls
<1>2. /\ AddLong(x, y).hi = ha /\ AddLong(x, y).lo = la % 65536
      /\ SubLong(x, y).hi = hs /\ SubLong(x, y).lo = ls % 65536
  BY <1>1
<1> QED
  BY <1>2 DEF ha, hs, la, ls

(* A long is its two words. *)
LEMMA SameParts ==
  ASSUME NEW x \in Long, NEW y \in Long, x.hi = y.hi, x.lo = y.lo
  PROVE  x = y
  BY DEF Long

(* Adding and then subtracting the same, or the other way round, is nothing. *)
LEMMA AddSubLong ==
  ASSUME NEW x \in Long, NEW y \in Long
  PROVE  SubLong(AddLong(x, y), y) = x /\ AddLong(SubLong(x, y), y) = x
<1>1. /\ x.hi \in Int /\ 0 <= x.hi /\ x.hi < 65536 /\ x.lo \in Int /\ 0 <= x.lo /\ x.lo < 65536
      /\ y.hi \in Int /\ 0 <= y.hi /\ y.hi < 65536 /\ y.lo \in Int /\ 0 <= y.lo /\ y.lo < 65536
  BY LongParts
<1>2. SubLong(AddLong(x, y), y) = x
  <2> DEFINE s == AddLong(x, y)
             k == (x.lo + y.lo) \div 65536
             d == SubLong(s, y)
  <2>1. s \in Long /\ d \in Long
    BY AddLongType, SubLongType
  <2>2. x.lo + y.lo = 65536 * k + s.lo /\ s.hi = (x.hi + y.hi + k) % 65536 /\ k \in Int
    BY SMTT(30), <1>1, AddLongParts
  <2> HIDE DEF s, k
  <2>3. s.lo - y.lo = 65536 * (0 - k) + x.lo /\ 0 - k \in Int
    BY SMTT(30), <1>1, <2>1, <2>2, LongParts
  <2>4. (s.lo - y.lo) \div 65536 = 0 - k /\ (s.lo - y.lo) % 65536 = x.lo
    <3>1. s.lo - y.lo \in Int
      BY <1>1, <2>1, LongParts
    <3> QED
      BY <1>1, <2>3, <3>1, Wrap16
  <2>5. d.lo = x.lo
    BY <2>1, <2>4, AddLongParts
  <2>6. d.hi = x.hi
    <3> DEFINE n == x.hi + y.hi + k
    <3>1. d.hi = (s.hi - y.hi + (0 - k)) % 65536
      BY <2>1, <2>4, AddLongParts
    <3>2. s.hi = n % 65536 /\ n \in Int /\ n + (0 - y.hi - k) = x.hi /\ 0 - y.hi - k \in Int
      BY SMTT(30), <1>1, <2>2
    <3>3. s.hi - y.hi + (0 - k) = s.hi + (0 - y.hi - k)
      BY SMTT(30), <1>1, <2>1, <2>2, LongParts
    <3> HIDE DEF n, d
    <3>4. d.hi = x.hi % 65536
      <4>1. ((n % 65536) + (0 - y.hi - k)) % 65536 = (n + (0 - y.hi - k)) % 65536
        BY SMT, <3>2, ModOfSum
      <4> QED
        BY SMT, <3>1, <3>2, <3>3, <4>1
    <3> QED
      BY SMTT(30), <1>1, <3>4 DEF d
  <2> QED
    BY <2>1, <2>5, <2>6, SameParts DEF s
<1>3. AddLong(SubLong(x, y), y) = x
  <2> DEFINE s == SubLong(x, y)
             k == (x.lo - y.lo) \div 65536
             d == AddLong(s, y)
  <2>1. s \in Long /\ d \in Long
    BY AddLongType, SubLongType
  <2>2. x.lo - y.lo = 65536 * k + s.lo /\ s.hi = (x.hi - y.hi + k) % 65536 /\ k \in Int
    BY SMTT(30), <1>1, AddLongParts
  <2> HIDE DEF s, k
  <2>3. s.lo + y.lo = 65536 * (0 - k) + x.lo /\ 0 - k \in Int
    BY SMTT(30), <1>1, <2>1, <2>2, LongParts
  <2>4. (s.lo + y.lo) \div 65536 = 0 - k /\ (s.lo + y.lo) % 65536 = x.lo
    <3>1. s.lo + y.lo \in Int
      BY <1>1, <2>1, LongParts
    <3> QED
      BY <1>1, <2>3, <3>1, Wrap16
  <2>5. d.lo = x.lo
    BY <2>1, <2>4, AddLongParts
  <2>6. d.hi = x.hi
    <3> DEFINE n == x.hi - y.hi + k
    <3>1. d.hi = (s.hi + y.hi + (0 - k)) % 65536
      BY <2>1, <2>4, AddLongParts
    <3>2. s.hi = n % 65536 /\ n \in Int /\ n + (y.hi - k) = x.hi /\ y.hi - k \in Int
      BY SMTT(30), <1>1, <2>2
    <3>3. s.hi + y.hi + (0 - k) = s.hi + (y.hi - k)
      BY SMTT(30), <1>1, <2>1, <2>2, LongParts
    <3> HIDE DEF n, d
    <3>4. d.hi = x.hi % 65536
      <4>1. ((n % 65536) + (y.hi - k)) % 65536 = (n + (y.hi - k)) % 65536
        BY SMT, <3>2, ModOfSum
      <4> QED
        BY SMT, <3>1, <3>2, <3>3, <4>1
    <3> QED
      BY SMTT(30), <1>1, <3>4 DEF d
  <2> QED
    BY <2>1, <2>5, <2>6, SameParts DEF s
<1> QED
  BY <1>2, <1>3

(* ... also of a word added to a long. *)
LEMMA AddWordParts ==
  ASSUME NEW x \in Long, NEW b \in Word
  PROVE  /\ FromWord(b) \in Long
         /\ AddLong(x, FromWord(b)).hi = (x.hi + ((x.lo + b) \div 65536)) % 65536
         /\ AddLong(x, FromWord(b)).lo = (x.lo + b) % 65536
<1>1. FromWord(b) \in Long /\ FromWord(b).hi = 0 /\ FromWord(b).lo = b
  BY FromWordType DEF FromWord
<1>2. x.hi \in Int /\ x.lo \in Int /\ b \in Int
  BY LongParts, WordBounds
<1> QED
  BY SMTT(30), <1>1, <1>2, AddLongParts

(* Small steps add up, ... *)
LEMMA AddSteps ==
  ASSUME NEW x \in Long, NEW a \in 0 .. 255, NEW b \in 0 .. 255
  PROVE  AddLong(AddLong(x, FromWord(a)), FromWord(b)) = AddLong(x, FromWord(a + b))
<1>1. /\ a \in Word /\ b \in Word /\ a + b \in Word
  BY SMT, BoundedWord
<1>2. FromWord(a) \in Long /\ FromWord(b) \in Long /\ FromWord(a + b) \in Long
  BY <1>1, FromWordType
<1> DEFINE y == AddLong(x, FromWord(a))
           z == AddLong(y, FromWord(b))
           s == AddLong(x, FromWord(a + b))
           k == (x.lo + a) \div 65536
           j == (y.lo + b) \div 65536
<1>3. y \in Long /\ z \in Long /\ s \in Long
  BY <1>2, AddLongType
<1> HIDE DEF z, s, j
<1>4. x.hi \in Int /\ x.lo \in Int /\ k \in Int /\ x.lo + a = 65536 * k + y.lo
      /\ y.hi = (x.hi + k) % 65536
  <2>1. y.hi = (x.hi + k) % 65536 /\ y.lo = (x.lo + a) % 65536
    BY SMT, <1>1, AddWordParts
  <2> HIDE DEF y
  <2>2. x.hi \in Int /\ x.lo \in Int
    BY LongParts
  <2>3. k \in Int /\ x.lo + a = 65536 * k + ((x.lo + a) % 65536)
    BY SMT, <2>2
  <2> HIDE DEF k
  <2> QED
    BY SMTT(30), <2>1, <2>2, <2>3
<1> HIDE DEF y, k
<1>5. j \in Int /\ y.lo + b = 65536 * j + z.lo /\ z.hi = (y.hi + j) % 65536
  <2>1. z.hi = (y.hi + j) % 65536 /\ z.lo = (y.lo + b) % 65536
    BY SMT, <1>1, <1>3, AddWordParts DEF z, j
  <2>2. y.hi \in Int /\ y.lo \in Int
    BY <1>3, LongParts
  <2>3. j \in Int /\ y.lo + b = 65536 * j + ((y.lo + b) % 65536)
    BY SMT, <2>2 DEF j
  <2> QED
    BY SMTT(30), <2>1, <2>3
<1>6. x.lo + (a + b) = 65536 * (k + j) + z.lo /\ k + j \in Int /\ x.lo + (a + b) \in Int
  BY SMTT(30), <1>3, <1>4, <1>5, LongParts
<1>7. (x.lo + (a + b)) \div 65536 = k + j /\ (x.lo + (a + b)) % 65536 = z.lo
  <2>1. z.lo \in Int /\ 0 <= z.lo /\ z.lo < 65536
    BY <1>3, LongParts
  <2> QED
    BY <1>6, <2>1, Wrap16
<1>8. s.lo = z.lo /\ s.hi = (x.hi + (k + j)) % 65536
  BY SMTT(30), <1>1, <1>4, <1>6, <1>7, AddWordParts DEF s
<1>9. z.hi = (x.hi + k + j) % 65536
  <2>1. x.hi + k \in Int
    BY <1>4
  <2> QED
    BY <1>4, <1>5, <2>1, ModOfSum
<1>10. x.hi + (k + j) = x.hi + k + j
  BY <1>4, <1>5
<1>11. s = z
  BY <1>3, <1>8, <1>9, <1>10, SameParts
<1> QED
  BY <1>11 DEF s, y, z

(* ... and none is nothing. *)
LEMMA AddNothing ==
  ASSUME NEW x \in Long
  PROVE  AddLong(x, FromWord(0)) = x
<1>1. /\ x.hi \in Int /\ 0 <= x.hi /\ x.hi < 65536 /\ x.lo \in Int /\ 0 <= x.lo /\ x.lo < 65536
  BY LongParts
<1> DEFINE s == AddLong(x, FromWord(0))
           l == x.lo + 0
           h == x.hi + (l \div 65536)
<1>2. l = x.lo
  BY SMT, <1>1
<1>3. h = x.hi
  <2> HIDE DEF l
  <2> QED
    BY SMTT(30), <1>1, <1>2
<1>4. x.hi % 65536 = x.hi /\ x.lo % 65536 = x.lo
  BY SMTT(30), <1>1
<1>5. 0 \in Word
  BY SMT, BoundedWord
<1>6. s \in Long /\ s.hi = h % 65536 /\ s.lo = l % 65536
  BY SMT, <1>5, AddWordParts, AddLongType
<1> HIDE DEF s, h, l
<1>7. s = x
  BY <1>2, <1>3, <1>4, <1>6, SameParts
<1> QED
  BY <1>7 DEF s

(* A step of an even number leaves a long as even or odd as it was. *)
LEMMA EvenStep ==
  ASSUME NEW x \in Long, NEW s \in {2, 4}
  PROVE  /\ AddLong(x, FromWord(s)).lo % 2 = x.lo % 2
         /\ SubLong(x, FromWord(s)).lo % 2 = x.lo % 2
<1>1. FromWord(s) \in Long /\ FromWord(s).lo = s /\ x.lo \in Int
  <2>1. s \in Word
    BY SMT, BoundedWord
  <2> QED
    BY <2>1, FromWordType, LongParts DEF FromWord
<1>2. ((x.lo + s) % 65536) % 2 = x.lo % 2 /\ ((x.lo - s) % 65536) % 2 = x.lo % 2
  BY SMTT(30), <1>1
<1> QED
  BY <1>1, <1>2, AddLongParts

-----------------------------------------------------------------------------
(* The numbers that an operation of a size sees.  Value is the number, Half  *)
(* the first one with its sign bit on; the lemmas turn signs, order, sums    *)
(* and differences into linear arithmetic on Value.                          *)
SizeCodes == {0, 1, 2, 3}

Half(n) == IF n = 0 THEN 128 ELSE IF n = 1 THEN 32768 ELSE 2147483648

Value(x, n) ==
  IF n = 0 THEN x.lo % 256 ELSE IF n = 1 THEN x.lo ELSE 65536 * x.hi + x.lo

-----------------------------------------------------------------------------
(* Sign bits, in terms of Value. *)
LEMMA ValueSign ==
  ASSUME NEW x \in Long, NEW n \in SizeCodes
  PROVE  /\ Value(x, n) \in Int /\ 0 <= Value(x, n) /\ Value(x, n) < 2 * Half(n)
         /\ Msb(x, n) <=> Value(x, n) >= Half(n)
<1>1. /\ x.hi \in Int /\ 0 <= x.hi /\ x.hi < 65536
      /\ x.lo \in Int /\ 0 <= x.lo /\ x.lo < 65536
      /\ x.lo % 256 \in Int /\ 0 <= x.lo % 256 /\ x.lo % 256 < 256
  BY SMT, LongParts, LowByte
<1>2. CASE n = 0
  BY SMT, <1>1, <1>2 DEF Value, Half, Msb
<1>3. CASE n = 1
  BY SMT, <1>1, <1>3 DEF Value, Half, Msb
<1>4. CASE n \notin {0, 1}
  BY SMT, <1>1, <1>4 DEF Value, Half, Msb
<1> QED
  BY <1>2, <1>3, <1>4

(* Equality and order, in terms of Value. *)
LEMMA ValueOrder ==
  ASSUME NEW x \in Long, NEW y \in Long, NEW n \in SizeCodes
  PROVE  LET u == Truncate(x, n)
             v == Truncate(y, n)
         IN  /\ u = v <=> Value(x, n) = Value(y, n)
             /\ u.hi < v.hi \/ (u.hi = v.hi /\ u.lo < v.lo) <=> Value(x, n) < Value(y, n)
<1> DEFINE Same == Truncate(x, n) = Truncate(y, n)
           Below == \/ Truncate(x, n).hi < Truncate(y, n).hi
                    \/ /\ Truncate(x, n).hi = Truncate(y, n).hi
                       /\ Truncate(x, n).lo < Truncate(y, n).lo
<1>1. /\ x.hi \in Int /\ 0 <= x.hi /\ x.hi < 65536
      /\ x.lo \in Int /\ 0 <= x.lo /\ x.lo < 65536
      /\ y.hi \in Int /\ 0 <= y.hi /\ y.hi < 65536
      /\ y.lo \in Int /\ 0 <= y.lo /\ y.lo < 65536
      /\ x.lo % 256 \in Int /\ y.lo % 256 \in Int
  BY SMT, LongParts, LowByte
<1>2. CASE n = 0
  <2>1. /\ Truncate(x, n) = [hi |-> 0, lo |-> x.lo % 256]
        /\ Truncate(y, n) = [hi |-> 0, lo |-> y.lo % 256]
    BY SMT, <1>2 DEF Truncate, FromWord
  <2> QED
    BY SMT, <1>1, <1>2, <2>1 DEF Value
<1>3. CASE n = 1
  <2>1. /\ Truncate(x, n) = [hi |-> 0, lo |-> x.lo]
        /\ Truncate(y, n) = [hi |-> 0, lo |-> y.lo]
    BY SMT, <1>3 DEF Truncate, FromWord
  <2> QED
    BY SMT, <1>1, <1>3, <2>1 DEF Value
<1>4. CASE n \notin {0, 1}
  <2>1. Truncate(x, n) = x /\ Truncate(y, n) = y
    BY SMT, <1>4 DEF Truncate
  <2>2. x = y <=> x.hi = y.hi /\ x.lo = y.lo
    BY SMT DEF Long
  <2>3. Value(x, n) = 65536 * x.hi + x.lo /\ Value(y, n) = 65536 * y.hi + y.lo
    BY SMT, <1>4 DEF Value
  <2>4. Same <=> Value(x, n) = Value(y, n)
    <3>1. Value(x, n) = Value(y, n) => x.hi = y.hi /\ x.lo = y.lo
      BY SMT, <1>1, <2>3, Digits
    <3>2. x = y => Value(x, n) = Value(y, n)
      BY SMT, <2>3
    <3>3. Same <=> x = y
      BY <2>1, Zenon
    <3> QED
      BY Zenon, <2>2, <3>1, <3>2, <3>3
  <2>5. Below <=> Value(x, n) < Value(y, n)
    BY SMT, <1>1, <2>1, <2>3
  <2> QED
    BY <2>4, <2>5
<1> QED
  BY <1>2, <1>3, <1>4

(* A difference wraps at twice Half. *)
LEMMA ValueSub ==
  ASSUME NEW x \in Long, NEW y \in Long, NEW n \in SizeCodes
  PROVE  /\ SubLong(x, y) \in Long
         /\ Value(SubLong(x, y), n) =
              IF Value(y, n) <= Value(x, n) THEN Value(x, n) - Value(y, n)
                                            ELSE Value(x, n) - Value(y, n) + 2 * Half(n)
<1> DEFINE dl == x.lo - y.lo
           ql == IF dl < 0 THEN -1 ELSE 0
           rl == IF dl < 0 THEN dl + 65536 ELSE dl
           dh == x.hi - y.hi + ql
           rh == IF dh < 0 THEN dh + 65536 ELSE dh
           qh == IF dh < 0 THEN -1 ELSE 0
<1>1. /\ x.hi \in Int /\ 0 <= x.hi /\ x.hi < 65536
      /\ x.lo \in Int /\ 0 <= x.lo /\ x.lo < 65536
      /\ y.hi \in Int /\ 0 <= y.hi /\ y.hi < 65536
      /\ y.lo \in Int /\ 0 <= y.lo /\ y.lo < 65536
  BY SMT, LongParts
<1>2. /\ dl \in Int /\ ql \in Int /\ rl \in Int
      /\ dl = 65536 * ql + rl /\ 0 <= rl /\ rl < 65536
  BY SMT, <1>1
<1>3. dl \div 65536 = ql /\ dl % 65536 = rl
  BY SMT, <1>2, Wrap16
<1>4. /\ dh \in Int /\ qh \in Int /\ rh \in Int
      /\ dh = 65536 * qh + rh /\ 0 <= rh /\ rh < 65536
  BY SMT, <1>1
<1>5. dh % 65536 = rh
  BY SMT, <1>4, Wrap16
<1>6. SubLong(x, y) = [hi |-> rh, lo |-> rl]
  BY SMT, <1>3, <1>5 DEF SubLong
<1>7. rh \in Word /\ rl \in Word
  BY SMT, <1>2, <1>4, BoundedWord
<1>8. SubLong(x, y) \in Long /\ SubLong(x, y).hi = rh /\ SubLong(x, y).lo = rl
  <2> HIDE DEF rh, rl
  <2> QED
    BY SMT, <1>6, <1>7, LongPair
<1>9. CASE n = 0
  <2> DEFINE bx == x.lo % 256
             by == y.lo % 256
             ax == x.lo \div 256
             ay == y.lo \div 256
             r  == IF by <= bx THEN bx - by ELSE bx - by + 256
             q  == (IF dl < 0 THEN 256 ELSE 0) + ax - ay + (IF by <= bx THEN 0 ELSE -1)
  <2>1. /\ bx \in Int /\ 0 <= bx /\ bx < 256 /\ x.lo = 256 * ax + bx /\ ax \in Int
        /\ by \in Int /\ 0 <= by /\ by < 256 /\ y.lo = 256 * ay + by /\ ay \in Int
    BY SMT, <1>1, LowByte
  <2>2. q \in Int /\ r \in Int /\ rl = 256 * q + r /\ 0 <= r /\ r < 256
    BY SMT, <1>1, <2>1
  <2>3. rl % 256 = r
    <3> HIDE DEF rl, r, q
    <3> QED
      BY SMT, <1>2, <2>2, Wrap8
  <2>4. Value(SubLong(x, y), n) = r /\ Value(x, n) = bx /\ Value(y, n) = by /\ Half(n) = 128
    BY SMT, <1>8, <1>9, <2>3 DEF Value, Half
  <2> QED
    BY SMT, <1>8, <2>1, <2>4
<1>10. CASE n = 1
  <2>1. Value(SubLong(x, y), n) = rl /\ Value(x, n) = x.lo /\ Value(y, n) = y.lo /\ Half(n) = 32768
    BY SMT, <1>8, <1>10 DEF Value, Half
  <2> QED
    BY SMT, <1>1, <1>8, <2>1
<1>11. CASE n \notin {0, 1}
  <2>1. /\ Value(SubLong(x, y), n) = 65536 * rh + rl /\ Half(n) = 2147483648
        /\ Value(x, n) = 65536 * x.hi + x.lo /\ Value(y, n) = 65536 * y.hi + y.lo
    BY SMT, <1>8, <1>11 DEF Value, Half
  <2> QED
    BY SMT, <1>1, <1>8, <2>1
<1> QED
  BY Zenon, <1>9, <1>10, <1>11

(* A sum wraps at twice Half. *)
LEMMA ValueAdd ==
  ASSUME NEW x \in Long, NEW y \in Long, NEW n \in SizeCodes
  PROVE  /\ AddLong(x, y) \in Long
         /\ Value(AddLong(x, y), n) =
              IF Value(x, n) + Value(y, n) < 2 * Half(n)
              THEN Value(x, n) + Value(y, n)
              ELSE Value(x, n) + Value(y, n) - 2 * Half(n)
<1> DEFINE sl == x.lo + y.lo
           ql == IF sl < 65536 THEN 0 ELSE 1
           rl == IF sl < 65536 THEN sl ELSE sl - 65536
           sh == x.hi + y.hi + ql
           qh == IF sh < 65536 THEN 0 ELSE 1
           rh == IF sh < 65536 THEN sh ELSE sh - 65536
<1>1. /\ x.hi \in Int /\ 0 <= x.hi /\ x.hi < 65536
      /\ x.lo \in Int /\ 0 <= x.lo /\ x.lo < 65536
      /\ y.hi \in Int /\ 0 <= y.hi /\ y.hi < 65536
      /\ y.lo \in Int /\ 0 <= y.lo /\ y.lo < 65536
  BY SMT, LongParts
<1>2. /\ sl \in Int /\ ql \in Int /\ rl \in Int
      /\ sl = 65536 * ql + rl /\ 0 <= rl /\ rl < 65536
  BY SMT, <1>1
<1>3. sl \div 65536 = ql /\ sl % 65536 = rl
  BY SMT, <1>2, Wrap16
<1>4. /\ sh \in Int /\ qh \in Int /\ rh \in Int
      /\ sh = 65536 * qh + rh /\ 0 <= rh /\ rh < 65536
  BY SMT, <1>1
<1>5. sh % 65536 = rh
  BY SMT, <1>4, Wrap16
<1>6. AddLong(x, y) = [hi |-> rh, lo |-> rl]
  BY SMT, <1>3, <1>5 DEF AddLong
<1>7. rh \in Word /\ rl \in Word
  BY SMT, <1>2, <1>4, BoundedWord
<1>8. AddLong(x, y) \in Long /\ AddLong(x, y).hi = rh /\ AddLong(x, y).lo = rl
  <2> HIDE DEF rh, rl
  <2> QED
    BY SMT, <1>6, <1>7, LongPair
<1>9. CASE n = 0
  <2> DEFINE bx == x.lo % 256
             by == y.lo % 256
             ax == x.lo \div 256
             ay == y.lo \div 256
             r  == IF bx + by < 256 THEN bx + by ELSE bx + by - 256
             q  == ax + ay + (IF bx + by < 256 THEN 0 ELSE 1)
                     - (IF sl < 65536 THEN 0 ELSE 256)
  <2>1. /\ bx \in Int /\ 0 <= bx /\ bx < 256 /\ x.lo = 256 * ax + bx /\ ax \in Int
        /\ by \in Int /\ 0 <= by /\ by < 256 /\ y.lo = 256 * ay + by /\ ay \in Int
    BY SMT, <1>1, LowByte
  <2>2. q \in Int /\ r \in Int /\ rl = 256 * q + r /\ 0 <= r /\ r < 256
    BY SMT, <1>1, <2>1
  <2>3. rl % 256 = r
    <3> HIDE DEF rl, r, q
    <3> QED
      BY SMT, <1>2, <2>2, Wrap8
  <2>4. Value(AddLong(x, y), n) = r /\ Value(x, n) = bx /\ Value(y, n) = by /\ Half(n) = 128
    BY SMT, <1>8, <1>9, <2>3 DEF Value, Half
  <2> QED
    BY SMT, <1>8, <2>1, <2>4
<1>10. CASE n = 1
  <2>1. Value(AddLong(x, y), n) = rl /\ Value(x, n) = x.lo /\ Value(y, n) = y.lo /\ Half(n) = 32768
    BY SMT, <1>8, <1>10 DEF Value, Half
  <2> QED
    BY SMT, <1>1, <1>8, <2>1
<1>11. CASE n \notin {0, 1}
  <2>1. /\ Value(AddLong(x, y), n) = 65536 * rh + rl /\ Half(n) = 2147483648
        /\ Value(x, n) = 65536 * x.hi + x.lo /\ Value(y, n) = 65536 * y.hi + y.lo
    BY SMT, <1>8, <1>11 DEF Value, Half
  <2> QED
    BY SMT, <1>1, <1>8, <2>1
<1> QED
  BY Zenon, <1>9, <1>10, <1>11

-----------------------------------------------------------------------------
(* The low part is zero exactly when the value is. *)
LEMMA ZeroFacts ==
  ASSUME NEW n \in SizeCodes
  PROVE  /\ ZeroLong \in Long /\ Value(ZeroLong, n) = 0
         /\ Truncate(ZeroLong, n) = ZeroLong
<1>1. ZeroLong = [hi |-> 0, lo |-> 0]
  BY DEF ZeroLong, FromWord
<1>2. 0 \in Word
  BY SMT, BoundedWord
<1>3. ZeroLong \in Long /\ ZeroLong.hi = 0 /\ ZeroLong.lo = 0
  BY SMT, <1>1, <1>2, LongPair
<1>4. 0 % 256 = 0
  BY SMT, Wrap8
<1>5. Value(ZeroLong, n) = 0
  BY SMT, <1>3, <1>4 DEF Value
<1>6. Truncate(ZeroLong, n) = ZeroLong
  BY SMT, <1>1, <1>3, <1>4 DEF Truncate, FromWord
<1> QED
  BY <1>3, <1>5, <1>6

(* ... of any long. *)
LEMMA ZeroValue ==
  ASSUME NEW x \in Long, NEW n \in SizeCodes
  PROVE  Truncate(x, n) = ZeroLong <=> Value(x, n) = 0
  BY Zenon, ZeroFacts, ValueOrder

(* Each user flag after an arithmetic operation. *)
LEMMA FlagsOfArithmetic ==
  ASSUME NEW f, NEW S \in Long, NEW D \in Long, NEW R \in Long,
         NEW n \in SizeCodes, NEW is_sub \in BOOLEAN
  PROVE  LET after == set_flags(f, S, D, R, n, is_sub)
         IN  /\ SR_Z \in after <=> Value(R, n) = 0
             /\ SR_N \in after <=> Msb(R, n)
             /\ SR_V \in after <=> overflow(is_sub, Msb(S, n), Msb(D, n), Msb(R, n))
             /\ SR_C \in after <=> carry(is_sub, Msb(S, n), Msb(D, n), Msb(R, n))
             /\ SR_X \in after <=> SR_C \in after
<1> DEFINE Z == Truncate(R, n) = ZeroLong
           N == Msb(R, n)
           V == overflow(is_sub, Msb(S, n), Msb(D, n), Msb(R, n))
           C == carry(is_sub, Msb(S, n), Msb(D, n), Msb(R, n))
           f1 == set_sr_flag(f, SR_Z, Z)
           f2 == set_sr_flag(f1, SR_N, N)
           f3 == set_sr_flag(f2, SR_V, V)
           f4 == set_sr_flag(f3, SR_C, C)
           f5 == set_sr_flag(f4, SR_X, SR_C \in f4)
<1>1. set_flags(f, S, D, R, n, is_sub) = f5
  BY DEF set_flags
<1>2. Z <=> Value(R, n) = 0
  BY ZeroValue
<1> HIDE DEF Z, N, V, C
<1>3. SR_Z \in f1 <=> Z
  BY DEF set_sr_flag
<1>4. (SR_Z \in f2 <=> SR_Z \in f1) /\ (SR_N \in f2 <=> N)
  <2> HIDE DEF f1
  <2> QED
    BY DEF set_sr_flag, SR_Z, SR_N
<1>5. (SR_Z \in f3 <=> SR_Z \in f2) /\ (SR_N \in f3 <=> SR_N \in f2) /\ (SR_V \in f3 <=> V)
  <2> HIDE DEF f2
  <2> QED
    BY DEF set_sr_flag, SR_Z, SR_N, SR_V
<1>6. /\ (SR_Z \in f4 <=> SR_Z \in f3) /\ (SR_N \in f4 <=> SR_N \in f3)
      /\ (SR_V \in f4 <=> SR_V \in f3) /\ (SR_C \in f4 <=> C)
  <2> HIDE DEF f3
  <2> QED
    BY DEF set_sr_flag, SR_Z, SR_N, SR_V, SR_C
<1>7. /\ (SR_Z \in f5 <=> SR_Z \in f4) /\ (SR_N \in f5 <=> SR_N \in f4)
      /\ (SR_V \in f5 <=> SR_V \in f4) /\ (SR_C \in f5 <=> SR_C \in f4)
      /\ (SR_X \in f5 <=> SR_C \in f4)
  <2> HIDE DEF f4
  <2> QED
    BY DEF set_sr_flag, SR_Z, SR_N, SR_V, SR_C, SR_X
<1> HIDE DEF f1, f2, f3, f4, f5
<1> QED
  BY Zenon, <1>1, <1>2, <1>3, <1>4, <1>5, <1>6, <1>7 DEF Z, N, V, C

(* The carry of a subtraction is its borrow, whatever the signs, ... *)
LEMMA BorrowOfSubtraction ==
  ASSUME NEW f, NEW S \in Long, NEW D \in Long, NEW n \in SizeCodes
  PROVE  LET after == set_flags(f, S, D, SubLong(D, S), n, TRUE)
         IN  /\ SR_C \in after <=> Value(D, n) < Value(S, n)
             /\ SR_Z \in after <=> Value(SubLong(D, S), n) = 0
             /\ SR_X \in after <=> SR_C \in after
<1> DEFINE R == SubLong(D, S)
           after == set_flags(f, S, D, R, n, TRUE)
           s == Value(S, n)
           d == Value(D, n)
           r == Value(R, n)
           h == Half(n)
<1>1. /\ R \in Long
      /\ r = IF s <= d THEN d - s ELSE d - s + 2 * h
  BY ValueSub
<1>2. /\ s \in Int /\ 0 <= s /\ s < 2 * h /\ (Msb(S, n) <=> s >= h)
      /\ d \in Int /\ 0 <= d /\ d < 2 * h /\ (Msb(D, n) <=> d >= h)
      /\ r \in Int /\ 0 <= r /\ r < 2 * h /\ (Msb(R, n) <=> r >= h)
  BY <1>1, ValueSign
<1>3. h \in Int
  BY SMT DEF Half
<1>4. /\ SR_Z \in after <=> r = 0
      /\ SR_C \in after <=> carry(TRUE, Msb(S, n), Msb(D, n), Msb(R, n))
      /\ SR_X \in after <=> SR_C \in after
  BY <1>1, FlagsOfArithmetic
<1> HIDE DEF R, after, s, d, r, h
<1>5. carry(TRUE, Msb(S, n), Msb(D, n), Msb(R, n)) <=> d < s
  <2>1. (s >= h /\ d < h) \/ (r >= h /\ d < h) \/ (s >= h /\ r >= h) <=> d < s
    BY SMT, <1>1, <1>2, <1>3
  <2>2. carry(TRUE, Msb(S, n), Msb(D, n), Msb(R, n)) <=>
          (Msb(S, n) /\ ~Msb(D, n)) \/ (Msb(R, n) /\ ~Msb(D, n)) \/ (Msb(S, n) /\ Msb(R, n))
    BY DEF carry
  <2>3. (d < h <=> ~(d >= h)) /\ (s < h <=> ~(s >= h))
    BY SMT, <1>2, <1>3
  <2> QED
    BY Zenon, <1>2, <2>1, <2>2, <2>3
<1> QED
  BY Zenon, <1>4, <1>5 DEF after, R, s, d, r

(* ... and of an addition its wrap. *)
LEMMA CarryOfAddition ==
  ASSUME NEW f, NEW S \in Long, NEW D \in Long, NEW n \in SizeCodes
  PROVE  LET R     == AddLong(D, S)
             after == set_flags(f, S, D, R, n, FALSE)
         IN  /\ SR_C \in after <=> Value(R, n) < Value(D, n)
             /\ SR_Z \in after <=> Value(R, n) = 0
             /\ SR_X \in after <=> SR_C \in after
<1> DEFINE R == AddLong(D, S)
           after == set_flags(f, S, D, R, n, FALSE)
           s == Value(S, n)
           d == Value(D, n)
           r == Value(R, n)
           h == Half(n)
           Sm == Msb(S, n)
           Dm == Msb(D, n)
           Rm == Msb(R, n)
<1>1. /\ R \in Long
      /\ r = IF d + s < 2 * h THEN d + s ELSE d + s - 2 * h
  BY ValueAdd
<1>2. /\ s \in Int /\ 0 <= s /\ s < 2 * h /\ (Sm <=> s >= h)
      /\ d \in Int /\ 0 <= d /\ d < 2 * h /\ (Dm <=> d >= h)
      /\ r \in Int /\ 0 <= r /\ r < 2 * h /\ (Rm <=> r >= h)
  BY <1>1, ValueSign
<1>3. h \in Int
  BY SMT DEF Half
<1>4. /\ SR_Z \in after <=> r = 0
      /\ SR_C \in after <=> carry(FALSE, Sm, Dm, Rm)
      /\ SR_X \in after <=> SR_C \in after
  BY <1>1, FlagsOfArithmetic
<1> HIDE DEF R, after, s, d, r, h, Sm, Dm, Rm
<1>5. carry(FALSE, Sm, Dm, Rm) <=> r < d
  <2>1. (s >= h /\ d >= h) \/ (r < h /\ d >= h) \/ (s >= h /\ r < h) <=> r < d
    BY SMT, <1>1, <1>2, <1>3
  <2>2. carry(FALSE, Sm, Dm, Rm) <=> (Sm /\ Dm) \/ (~Rm /\ Dm) \/ (Sm /\ ~Rm)
    BY DEF carry
  <2>3. r < h <=> ~(r >= h)
    BY SMT, <1>2, <1>3
  <2> QED
    BY Zenon, <1>2, <2>1, <2>2, <2>3
<1> QED
  BY Zenon, <1>4, <1>5 DEF after, R, r, d

(* The low part of a register is the low part of what was put into it. *)
LEMMA MergeTruncate ==
  ASSUME NEW old \in Long, NEW x \in Long, NEW n
  PROVE  Truncate(Merge(old, x, n), n) = Truncate(x, n)
<1>1. CASE n = 0
  <2> DEFINE b == x.lo % 256
             q == old.lo \div 256
             low == 256 * q + b
  <2>1. b \in Int /\ 0 <= b /\ b < 256 /\ q \in Int
    BY SMT, LongParts, LowByte
  <2>2. Merge(old, x, n) = [old EXCEPT !.lo = low]
    BY SMT, <1>1 DEF Merge
  <2>3. Merge(old, x, n).lo = low
    BY <2>2 DEF Long
  <2> HIDE DEF b, q
  <2>4. low % 256 = b
    BY SMT, <2>1, Wrap8
  <2> HIDE DEF low
  <2>5. /\ Truncate(Merge(old, x, n), n) = FromWord(Merge(old, x, n).lo % 256)
        /\ Truncate(x, n) = FromWord(b)
    BY SMT, <1>1 DEF Truncate, b
  <2> QED
    BY <2>3, <2>4, <2>5
<1>2. CASE n = 1
  <2>1. Merge(old, x, n) = [old EXCEPT !.lo = x.lo]
    BY SMT, <1>2 DEF Merge
  <2>2. Merge(old, x, n).lo = x.lo
    BY <2>1 DEF Long
  <2>3. /\ Truncate(Merge(old, x, n), n) = FromWord(Merge(old, x, n).lo)
        /\ Truncate(x, n) = FromWord(x.lo)
    BY SMT, <1>2 DEF Truncate
  <2> QED
    BY <2>2, <2>3
<1>3. CASE n \notin {0, 1}
  BY SMT, <1>3 DEF Truncate, Merge
<1> QED
  BY <1>1, <1>2, <1>3

-----------------------------------------------------------------------------
(* The hexadecimal digits of a word. *)
D3(w) == w \div 4096
D2(w) == (w \div 256) % 16
D1(w) == (w \div 16) % 16
D0(w) == w % 16

OfDigits(a, b, c, d) == 4096 * a + 256 * b + 16 * c + d

(* The digits of a word are digits, ... *)
LEMMA DigitTypes ==
  ASSUME NEW w \in Word
  PROVE  D3(w) \in Nibble /\ D2(w) \in Nibble /\ D1(w) \in Nibble /\ D0(w) \in Nibble
<1>1. w \in Int /\ 0 <= w /\ w < 65536
  BY WordBounds
<1>2. D3(w) \in Nibble
  BY SMT, <1>1 DEF D3, Nibble
<1>3. D2(w) \in Nibble
  BY SMT, <1>1 DEF D2, Nibble
<1>4. D1(w) \in Nibble
  BY SMT, <1>1 DEF D1, Nibble
<1>5. D0(w) \in Nibble
  BY SMT, <1>1 DEF D0, Nibble
<1> QED
  BY <1>2, <1>3, <1>4, <1>5

(* ... and a number made of digits has these digits. *)
LEMMA DigitsOf ==
  ASSUME NEW a \in Nibble, NEW b \in Nibble, NEW c \in Nibble, NEW d \in Nibble
  PROVE  /\ D3(OfDigits(a, b, c, d)) = a /\ D2(OfDigits(a, b, c, d)) = b
         /\ D1(OfDigits(a, b, c, d)) = c /\ D0(OfDigits(a, b, c, d)) = d
<1> DEFINE x == 256 * a + 16 * b + c
           y == 16 * a + b
<1>0. /\ a \in Int /\ 0 <= a /\ a < 16 /\ b \in Int /\ 0 <= b /\ b < 16
      /\ c \in Int /\ 0 <= c /\ c < 16 /\ d \in Int /\ 0 <= d /\ d < 16
  BY SMT DEF Nibble
<1>1. OfDigits(a, b, c, d) = 16 * x + d
  BY SMT, <1>0 DEF OfDigits
<1>2. D0(OfDigits(a, b, c, d)) = d /\ OfDigits(a, b, c, d) \div 16 = x
  <2>1. x \in Int
    BY SMT, <1>0
  <2> HIDE DEF x
  <2> QED
    BY SMT, <1>0, <1>1, <2>1 DEF D0
<1>3. D1(OfDigits(a, b, c, d)) = c
  <2>1. x = 16 * y + c /\ y \in Int
    BY SMT, <1>0
  <2> HIDE DEF x, y
  <2> QED
    BY SMT, <1>0, <1>2, <2>1 DEF D1
<1>4. D2(OfDigits(a, b, c, d)) = b
  <2>1. OfDigits(a, b, c, d) = 256 * y + 16 * c + d /\ y \in Int
    BY SMT, <1>0 DEF OfDigits
  <2>2. OfDigits(a, b, c, d) \div 256 = y
    <3> HIDE DEF y
    <3> QED
      BY SMT, <1>0, <2>1
  <2> QED
    BY SMT, <1>0, <2>2 DEF D2
<1>5. D3(OfDigits(a, b, c, d)) = a
  BY SMT, <1>0 DEF D3, OfDigits
<1> QED
  BY <1>2, <1>3, <1>4, <1>5

-----------------------------------------------------------------------------
(* What the digits of the table's masks leave of a digit. *)
LEMMA MaskedDigit ==
  ASSUME NEW v \in Nibble
  PROVE  /\ AndNibble[v][15] = v /\ AndNibble[v][0] = 0
         /\ AndNibble[v][8] = 8 * (v \div 8)
         /\ AndNibble[v][3] = v % 4 /\ AndNibble[v][1] = v % 2
<1>1. v \in Int /\ 0 <= v /\ v < 16
  BY SMT DEF Nibble
<1>2. \A w \in Nibble :
        AndNibble[v][w] = AndBit(v, w, 1) + AndBit(v, w, 2) + AndBit(v, w, 4) + AndBit(v, w, 8)
  BY DEF AndNibble
<1>3. \A p \in {1, 2, 4, 8} :
        /\ AndBit(v, 0, p) = 0 /\ AndBit(v, 15, p) = p * ((v \div p) % 2)
        /\ AndBit(v, 8, p) = IF p = 8 THEN 8 * ((v \div 8) % 2) ELSE 0
        /\ AndBit(v, 3, p) = IF p < 4 THEN p * ((v \div p) % 2) ELSE 0
        /\ AndBit(v, 1, p) = IF p = 1 THEN v % 2 ELSE 0
  BY SMT, <1>1 DEF AndBit
<1>4. 0 \in Nibble /\ 1 \in Nibble /\ 3 \in Nibble /\ 8 \in Nibble /\ 15 \in Nibble
  BY SMT DEF Nibble
<1>5. /\ (v \div 1) % 2 = v % 2 /\ (v \div 8) % 2 = v \div 8
      /\ v = (v % 2) + 2 * ((v \div 2) % 2) + 4 * ((v \div 4) % 2) + 8 * (v \div 8)
      /\ v % 4 = (v % 2) + 2 * ((v \div 2) % 2)
  BY SMT, <1>1
<1> QED
  BY SMT, <1>1, <1>2, <1>3, <1>4, <1>5

(* A word is the sum of its digits at their places, ... *)
LEMMA WordOfDigits ==
  ASSUME NEW w \in Word
  PROVE  w = OfDigits(D3(w), D2(w), D1(w), D0(w))
<1> DEFINE x == w \div 16
           y == w \div 256
           z == w \div 4096
<1>1. w \in Int /\ x \in Int /\ y \in Int /\ z \in Int
  BY SMT, WordBounds
<1>2. w = 16 * x + (w % 16) /\ x = 16 * y + (x % 16) /\ y = 16 * z + (y % 16)
  BY SMT, <1>1
<1> HIDE DEF x, y, z
<1>3. x % 16 \in Int /\ y % 16 \in Int /\ w % 16 \in Int
  BY SMT, <1>1
<1>4. w = 4096 * z + 256 * (y % 16) + 16 * (x % 16) + (w % 16)
  BY SMT, <1>1, <1>2, <1>3
<1> QED
  BY <1>4 DEF OfDigits, D3, D2, D1, D0, x, y, z

(* ... and a mask is laid over each of them. *)
LEMMA MaskedWord ==
  ASSUME NEW w \in Word, NEW m \in Word
  PROVE  /\ D3(AndWord(w, m)) = AndNibble[D3(w)][D3(m)]
         /\ D2(AndWord(w, m)) = AndNibble[D2(w)][D2(m)]
         /\ D1(AndWord(w, m)) = AndNibble[D1(w)][D1(m)]
         /\ D0(AndWord(w, m)) = AndNibble[D0(w)][D0(m)]
<1> DEFINE e == AndNibble[D3(w)][D3(m)]
           f == AndNibble[D2(w)][D2(m)]
           g == AndNibble[D1(w)][D1(m)]
           h == AndNibble[D0(w)][D0(m)]
<1>1. AndWord(w, m) = h + 16 * g + 256 * f + 4096 * e
  BY DEF AndWord, D3, D2, D1, D0
<1>2. e \in Nibble /\ f \in Nibble /\ g \in Nibble /\ h \in Nibble
  BY DigitTypes, AndNibbleType
<1> HIDE DEF e, f, g, h
<1>3. AndWord(w, m) = OfDigits(e, f, g, h)
  BY SMT, <1>1, <1>2 DEF OfDigits, Nibble
<1> QED
  BY <1>2, <1>3, DigitsOf DEF e, f, g, h

(* So a masked word has a value if it has its digits. *)
LEMMA MaskedIs ==
  ASSUME NEW w \in Word, NEW m \in Word, NEW v \in Word
  PROVE  AndWord(w, m) = v <=>
           /\ AndNibble[D3(w)][D3(m)] = D3(v) /\ AndNibble[D2(w)][D2(m)] = D2(v)
           /\ AndNibble[D1(w)][D1(m)] = D1(v) /\ AndNibble[D0(w)][D0(m)] = D0(v)
<1> DEFINE x == AndWord(w, m)
<1>1. x \in Word
  BY AndWordIsWord
<1>2. x = OfDigits(D3(x), D2(x), D1(x), D0(x)) /\ v = OfDigits(D3(v), D2(v), D1(v), D0(v))
  BY <1>1, WordOfDigits
<1>3. x = v <=> D3(x) = D3(v) /\ D2(x) = D2(v) /\ D1(x) = D1(v) /\ D0(x) = D0(v)
  <2> HIDE DEF x
  <2> QED
    BY Zenon, <1>2
<1> QED
  BY <1>3, MaskedWord

(* What is left of a word under each of the masks of the table. *)
LEMMA MaskFFF8 ==
  ASSUME NEW w \in Word, NEW v \in Word
  PROVE  AndWord(w, \hFFF8) = v <=>
           D3(v) = D3(w) /\ D2(v) = D2(w) /\ D1(v) = D1(w) /\ D0(v) = 8 * (D0(w) \div 8)
<1>1. \hFFF8 \in Word
  BY SMT DEF Word
<1>2. D3(\hFFF8) = 15 /\ D2(\hFFF8) = 15 /\ D1(\hFFF8) = 15 /\ D0(\hFFF8) = 8
  BY SMT DEF D3, D2, D1, D0
<1>3. AndWord(w, \hFFF8) = v <=>
        /\ AndNibble[D3(w)][15] = D3(v) /\ AndNibble[D2(w)][15] = D2(v)
        /\ AndNibble[D1(w)][15] = D1(v) /\ AndNibble[D0(w)][8] = D0(v)
  BY <1>1, <1>2, MaskedIs
<1> QED
  BY <1>3, DigitTypes, MaskedDigit

LEMMA MaskFF38 ==
  ASSUME NEW w \in Word, NEW v \in Word
  PROVE  AndWord(w, \hFF38) = v <=>
           D3(v) = D3(w) /\ D2(v) = D2(w) /\ D1(v) = D1(w) % 4 /\ D0(v) = 8 * (D0(w) \div 8)
<1>1. \hFF38 \in Word
  BY SMT DEF Word
<1>2. D3(\hFF38) = 15 /\ D2(\hFF38) = 15 /\ D1(\hFF38) = 3 /\ D0(\hFF38) = 8
  BY SMT DEF D3, D2, D1, D0
<1>3. AndWord(w, \hFF38) = v <=>
        /\ AndNibble[D3(w)][15] = D3(v) /\ AndNibble[D2(w)][15] = D2(v)
        /\ AndNibble[D1(w)][3] = D1(v) /\ AndNibble[D0(w)][8] = D0(v)
  BY <1>1, <1>2, MaskedIs
<1> QED
  BY <1>3, DigitTypes, MaskedDigit

LEMMA MaskF138 ==
  ASSUME NEW w \in Word, NEW v \in Word
  PROVE  AndWord(w, \hF138) = v <=>
           D3(v) = D3(w) /\ D2(v) = D2(w) % 2 /\ D1(v) = D1(w) % 4 /\ D0(v) = 8 * (D0(w) \div 8)
<1>1. \hF138 \in Word
  BY SMT DEF Word
<1>2. D3(\hF138) = 15 /\ D2(\hF138) = 1 /\ D1(\hF138) = 3 /\ D0(\hF138) = 8
  BY SMT DEF D3, D2, D1, D0
<1>3. AndWord(w, \hF138) = v <=>
        /\ AndNibble[D3(w)][15] = D3(v) /\ AndNibble[D2(w)][1] = D2(v)
        /\ AndNibble[D1(w)][3] = D1(v) /\ AndNibble[D0(w)][8] = D0(v)
  BY <1>1, <1>2, MaskedIs
<1> QED
  BY <1>3, DigitTypes, MaskedDigit

LEMMA MaskF038 ==
  ASSUME NEW w \in Word, NEW v \in Word
  PROVE  AndWord(w, \hF038) = v <=>
           D3(v) = D3(w) /\ D2(v) = 0 /\ D1(v) = D1(w) % 4 /\ D0(v) = 8 * (D0(w) \div 8)
<1>1. \hF038 \in Word
  BY SMT DEF Word
<1>2. D3(\hF038) = 15 /\ D2(\hF038) = 0 /\ D1(\hF038) = 3 /\ D0(\hF038) = 8
  BY SMT DEF D3, D2, D1, D0
<1>3. AndWord(w, \hF038) = v <=>
        /\ AndNibble[D3(w)][15] = D3(v) /\ AndNibble[D2(w)][0] = D2(v)
        /\ AndNibble[D1(w)][3] = D1(v) /\ AndNibble[D0(w)][8] = D0(v)
  BY <1>1, <1>2, MaskedIs
<1> QED
  BY <1>3, DigitTypes, MaskedDigit

LEMMA MaskF000 ==
  ASSUME NEW w \in Word, NEW v \in Word
  PROVE  AndWord(w, \hF000) = v <=>
           D3(v) = D3(w) /\ D2(v) = 0 /\ D1(v) = 0 /\ D0(v) = 0
<1>1. \hF000 \in Word
  BY SMT DEF Word
<1>2. D3(\hF000) = 15 /\ D2(\hF000) = 0 /\ D1(\hF000) = 0 /\ D0(\hF000) = 0
  BY SMT DEF D3, D2, D1, D0
<1>3. AndWord(w, \hF000) = v <=>
        /\ AndNibble[D3(w)][15] = D3(v) /\ AndNibble[D2(w)][0] = D2(v)
        /\ AndNibble[D1(w)][0] = D1(v) /\ AndNibble[D0(w)][0] = D0(v)
  BY <1>1, <1>2, MaskedIs
<1> QED
  BY <1>3, DigitTypes, MaskedDigit

LEMMA MaskFFFF ==
  ASSUME NEW w \in Word, NEW v \in Word
  PROVE  AndWord(w, \hFFFF) = v <=>
           D3(v) = D3(w) /\ D2(v) = D2(w) /\ D1(v) = D1(w) /\ D0(v) = D0(w)
<1>1. \hFFFF \in Word
  BY SMT DEF Word
<1>2. D3(\hFFFF) = 15 /\ D2(\hFFFF) = 15 /\ D1(\hFFFF) = 15 /\ D0(\hFFFF) = 15
  BY SMT DEF D3, D2, D1, D0
<1>3. AndWord(w, \hFFFF) = v <=>
        /\ AndNibble[D3(w)][15] = D3(v) /\ AndNibble[D2(w)][15] = D2(v)
        /\ AndNibble[D1(w)][15] = D1(v) /\ AndNibble[D0(w)][15] = D0(v)
  BY <1>1, <1>2, MaskedIs
<1> QED
  BY <1>3, DigitTypes, MaskedDigit

-----------------------------------------------------------------------------
(* Some bits of a digit. *)
LEMMA Bits ==
  ASSUME NEW d \in Nibble
  PROVE  /\ d \in Int /\ 0 <= d /\ d < 16 /\ (0 = 8 * (d \div 8) <=> d < 8)
         /\ d % 4 \in Int /\ d % 2 \in Int
  BY SMT DEF Nibble

(* What each entry of the table asks of an opcode. *)
LEMMA EntryAsks ==
  ASSUME NEW w \in Word
  PROVE  /\ (1 \in Matches(w) <=> D3(w) = 0 /\ D2(w) = 8 /\ D1(w) = 0 /\ D0(w) < 8)
         /\ (2 \in Matches(w) <=> D3(w) = 0 /\ D2(w) = 8 /\ D1(w) = 4 /\ D0(w) < 8)
         /\ (3 \in Matches(w) <=> D3(w) = 0 /\ D2(w) = 8 /\ D1(w) = 8 /\ D0(w) < 8)
         /\ (4 \in Matches(w) <=> D3(w) = 0 /\ D2(w) = 8 /\ D1(w) = 12 /\ D0(w) < 8)
         /\ (5 \in Matches(w) <=> D3(w) = 0 /\ D2(w) = 2 /\ D1(w) % 4 = 0 /\ D0(w) < 8)
         /\ (6 \in Matches(w) <=> D3(w) = 0 /\ D2(w) = 4 /\ D1(w) % 4 = 0 /\ D0(w) < 8)
         /\ (7 \in Matches(w) <=> D3(w) = 0 /\ D2(w) = 6 /\ D1(w) % 4 = 0 /\ D0(w) < 8)
         /\ (8 \in Matches(w) <=> D3(w) = 5 /\ D2(w) % 2 = 0 /\ D1(w) % 4 = 0 /\ D0(w) < 8)
         /\ (9 \in Matches(w) <=> D3(w) = 5 /\ D2(w) % 2 = 1 /\ D1(w) % 4 = 0 /\ D0(w) < 8)
         /\ (10 \in Matches(w) <=> D3(w) = 1)
         /\ (11 \in Matches(w) <=> D3(w) = 2)
         /\ (12 \in Matches(w) <=> D3(w) = 3)
         /\ (13 \in Matches(w) <=> D3(w) = 6)
         /\ (14 \in Matches(w) <=> D3(w) = 9 /\ D1(w) % 4 = 0 /\ D0(w) < 8)
         /\ (15 \in Matches(w) <=> D3(w) = 13 /\ D1(w) % 4 = 0 /\ D0(w) < 8)
         /\ (16 \in Matches(w) <=> D3(w) = 4 /\ D2(w) = 14 /\ D1(w) = 7 /\ D0(w) = 1)
         /\ (17 \in Matches(w) <=> D3(w) = 4 /\ D2(w) = 14 /\ D1(w) = 7 /\ D0(w) = 5)
<1>1. DOMAIN instruction_table = 1 .. 17
  BY SMT DEF instruction_table
<1>2. \A n \in 1 .. 17 :
        n \in Matches(w) <=> AndWord(w, instruction_table[n].mask) = instruction_table[n].value
  BY <1>1 DEF Matches
<1>3. D0(w) \in Nibble /\ (0 = 8 * (D0(w) \div 8) <=> D0(w) < 8)
  BY DigitTypes, Bits
<1>e1. 1 \in Matches(w) <=> D3(w) = 0 /\ D2(w) = 8 /\ D1(w) = 0 /\ D0(w) < 8
  <2>1. 1 \in Matches(w) <=> AndWord(w, \hFFF8) = \h0800
    <3>1. instruction_table[1].mask = \hFFF8 /\ instruction_table[1].value = \h0800
      BY SMT DEF instruction_table, Entry
    <3> QED
      BY <1>2, <3>1
  <2>2. \h0800 \in Word
    BY SMT DEF Word
  <2>3. D3(\h0800) = 0 /\ D2(\h0800) = 8 /\ D1(\h0800) = 0 /\ D0(\h0800) = 0
    BY SMT DEF D3, D2, D1, D0
  <2> QED
    BY <1>3, <2>1, <2>2, <2>3, MaskFFF8
<1>e2. 2 \in Matches(w) <=> D3(w) = 0 /\ D2(w) = 8 /\ D1(w) = 4 /\ D0(w) < 8
  <2>1. 2 \in Matches(w) <=> AndWord(w, \hFFF8) = \h0840
    <3>1. instruction_table[2].mask = \hFFF8 /\ instruction_table[2].value = \h0840
      BY SMT DEF instruction_table, Entry
    <3> QED
      BY <1>2, <3>1
  <2>2. \h0840 \in Word
    BY SMT DEF Word
  <2>3. D3(\h0840) = 0 /\ D2(\h0840) = 8 /\ D1(\h0840) = 4 /\ D0(\h0840) = 0
    BY SMT DEF D3, D2, D1, D0
  <2> QED
    BY <1>3, <2>1, <2>2, <2>3, MaskFFF8
<1>e3. 3 \in Matches(w) <=> D3(w) = 0 /\ D2(w) = 8 /\ D1(w) = 8 /\ D0(w) < 8
  <2>1. 3 \in Matches(w) <=> AndWord(w, \hFFF8) = \h0880
    <3>1. instruction_table[3].mask = \hFFF8 /\ instruction_table[3].value = \h0880
      BY SMT DEF instruction_table, Entry
    <3> QED
      BY <1>2, <3>1
  <2>2. \h0880 \in Word
    BY SMT DEF Word
  <2>3. D3(\h0880) = 0 /\ D2(\h0880) = 8 /\ D1(\h0880) = 8 /\ D0(\h0880) = 0
    BY SMT DEF D3, D2, D1, D0
  <2> QED
    BY <1>3, <2>1, <2>2, <2>3, MaskFFF8
<1>e4. 4 \in Matches(w) <=> D3(w) = 0 /\ D2(w) = 8 /\ D1(w) = 12 /\ D0(w) < 8
  <2>1. 4 \in Matches(w) <=> AndWord(w, \hFFF8) = \h08C0
    <3>1. instruction_table[4].mask = \hFFF8 /\ instruction_table[4].value = \h08C0
      BY SMT DEF instruction_table, Entry
    <3> QED
      BY <1>2, <3>1
  <2>2. \h08C0 \in Word
    BY SMT DEF Word
  <2>3. D3(\h08C0) = 0 /\ D2(\h08C0) = 8 /\ D1(\h08C0) = 12 /\ D0(\h08C0) = 0
    BY SMT DEF D3, D2, D1, D0
  <2> QED
    BY <1>3, <2>1, <2>2, <2>3, MaskFFF8
<1>e5. 5 \in Matches(w) <=> D3(w) = 0 /\ D2(w) = 2 /\ D1(w) % 4 = 0 /\ D0(w) < 8
  <2>1. 5 \in Matches(w) <=> AndWord(w, \hFF38) = \h0200
    <3>1. instruction_table[5].mask = \hFF38 /\ instruction_table[5].value = \h0200
      BY SMT DEF instruction_table, Entry
    <3> QED
      BY <1>2, <3>1
  <2>2. \h0200 \in Word
    BY SMT DEF Word
  <2>3. D3(\h0200) = 0 /\ D2(\h0200) = 2 /\ D1(\h0200) = 0 /\ D0(\h0200) = 0
    BY SMT DEF D3, D2, D1, D0
  <2> QED
    BY <1>3, <2>1, <2>2, <2>3, MaskFF38
<1>e6. 6 \in Matches(w) <=> D3(w) = 0 /\ D2(w) = 4 /\ D1(w) % 4 = 0 /\ D0(w) < 8
  <2>1. 6 \in Matches(w) <=> AndWord(w, \hFF38) = \h0400
    <3>1. instruction_table[6].mask = \hFF38 /\ instruction_table[6].value = \h0400
      BY SMT DEF instruction_table, Entry
    <3> QED
      BY <1>2, <3>1
  <2>2. \h0400 \in Word
    BY SMT DEF Word
  <2>3. D3(\h0400) = 0 /\ D2(\h0400) = 4 /\ D1(\h0400) = 0 /\ D0(\h0400) = 0
    BY SMT DEF D3, D2, D1, D0
  <2> QED
    BY <1>3, <2>1, <2>2, <2>3, MaskFF38
<1>e7. 7 \in Matches(w) <=> D3(w) = 0 /\ D2(w) = 6 /\ D1(w) % 4 = 0 /\ D0(w) < 8
  <2>1. 7 \in Matches(w) <=> AndWord(w, \hFF38) = \h0600
    <3>1. instruction_table[7].mask = \hFF38 /\ instruction_table[7].value = \h0600
      BY SMT DEF instruction_table, Entry
    <3> QED
      BY <1>2, <3>1
  <2>2. \h0600 \in Word
    BY SMT DEF Word
  <2>3. D3(\h0600) = 0 /\ D2(\h0600) = 6 /\ D1(\h0600) = 0 /\ D0(\h0600) = 0
    BY SMT DEF D3, D2, D1, D0
  <2> QED
    BY <1>3, <2>1, <2>2, <2>3, MaskFF38
<1>e8. 8 \in Matches(w) <=> D3(w) = 5 /\ D2(w) % 2 = 0 /\ D1(w) % 4 = 0 /\ D0(w) < 8
  <2>1. 8 \in Matches(w) <=> AndWord(w, \hF138) = \h5000
    <3>1. instruction_table[8].mask = \hF138 /\ instruction_table[8].value = \h5000
      BY SMT DEF instruction_table, Entry
    <3> QED
      BY <1>2, <3>1
  <2>2. \h5000 \in Word
    BY SMT DEF Word
  <2>3. D3(\h5000) = 5 /\ D2(\h5000) = 0 /\ D1(\h5000) = 0 /\ D0(\h5000) = 0
    BY SMT DEF D3, D2, D1, D0
  <2> QED
    BY <1>3, <2>1, <2>2, <2>3, MaskF138
<1>e9. 9 \in Matches(w) <=> D3(w) = 5 /\ D2(w) % 2 = 1 /\ D1(w) % 4 = 0 /\ D0(w) < 8
  <2>1. 9 \in Matches(w) <=> AndWord(w, \hF138) = \h5100
    <3>1. instruction_table[9].mask = \hF138 /\ instruction_table[9].value = \h5100
      BY SMT DEF instruction_table, Entry
    <3> QED
      BY <1>2, <3>1
  <2>2. \h5100 \in Word
    BY SMT DEF Word
  <2>3. D3(\h5100) = 5 /\ D2(\h5100) = 1 /\ D1(\h5100) = 0 /\ D0(\h5100) = 0
    BY SMT DEF D3, D2, D1, D0
  <2> QED
    BY <1>3, <2>1, <2>2, <2>3, MaskF138
<1>e10. 10 \in Matches(w) <=> D3(w) = 1
  <2>1. 10 \in Matches(w) <=> AndWord(w, \hF000) = \h1000
    <3>1. instruction_table[10].mask = \hF000 /\ instruction_table[10].value = \h1000
      BY SMT DEF instruction_table, Entry
    <3> QED
      BY <1>2, <3>1
  <2>2. \h1000 \in Word
    BY SMT DEF Word
  <2>3. D3(\h1000) = 1 /\ D2(\h1000) = 0 /\ D1(\h1000) = 0 /\ D0(\h1000) = 0
    BY SMT DEF D3, D2, D1, D0
  <2> QED
    BY <1>3, <2>1, <2>2, <2>3, MaskF000
<1>e11. 11 \in Matches(w) <=> D3(w) = 2
  <2>1. 11 \in Matches(w) <=> AndWord(w, \hF000) = \h2000
    <3>1. instruction_table[11].mask = \hF000 /\ instruction_table[11].value = \h2000
      BY SMT DEF instruction_table, Entry
    <3> QED
      BY <1>2, <3>1
  <2>2. \h2000 \in Word
    BY SMT DEF Word
  <2>3. D3(\h2000) = 2 /\ D2(\h2000) = 0 /\ D1(\h2000) = 0 /\ D0(\h2000) = 0
    BY SMT DEF D3, D2, D1, D0
  <2> QED
    BY <1>3, <2>1, <2>2, <2>3, MaskF000
<1>e12. 12 \in Matches(w) <=> D3(w) = 3
  <2>1. 12 \in Matches(w) <=> AndWord(w, \hF000) = \h3000
    <3>1. instruction_table[12].mask = \hF000 /\ instruction_table[12].value = \h3000
      BY SMT DEF instruction_table, Entry
    <3> QED
      BY <1>2, <3>1
  <2>2. \h3000 \in Word
    BY SMT DEF Word
  <2>3. D3(\h3000) = 3 /\ D2(\h3000) = 0 /\ D1(\h3000) = 0 /\ D0(\h3000) = 0
    BY SMT DEF D3, D2, D1, D0
  <2> QED
    BY <1>3, <2>1, <2>2, <2>3, MaskF000
<1>e13. 13 \in Matches(w) <=> D3(w) = 6
  <2>1. 13 \in Matches(w) <=> AndWord(w, \hF000) = \h6000
    <3>1. instruction_table[13].mask = \hF000 /\ instruction_table[13].value = \h6000
      BY SMT DEF instruction_table, Entry
    <3> QED
      BY <1>2, <3>1
  <2>2. \h6000 \in Word
    BY SMT DEF Word
  <2>3. D3(\h6000) = 6 /\ D2(\h6000) = 0 /\ D1(\h6000) = 0 /\ D0(\h6000) = 0
    BY SMT DEF D3, D2, D1, D0
  <2> QED
    BY <1>3, <2>1, <2>2, <2>3, MaskF000
<1>e14. 14 \in Matches(w) <=> D3(w) = 9 /\ D1(w) % 4 = 0 /\ D0(w) < 8
  <2>1. 14 \in Matches(w) <=> AndWord(w, \hF038) = \h9000
    <3>1. instruction_table[14].mask = \hF038 /\ instruction_table[14].value = \h9000
      BY SMT DEF instruction_table, Entry
    <3> QED
      BY <1>2, <3>1
  <2>2. \h9000 \in Word
    BY SMT DEF Word
  <2>3. D3(\h9000) = 9 /\ D2(\h9000) = 0 /\ D1(\h9000) = 0 /\ D0(\h9000) = 0
    BY SMT DEF D3, D2, D1, D0
  <2> QED
    BY <1>3, <2>1, <2>2, <2>3, MaskF038
<1>e15. 15 \in Matches(w) <=> D3(w) = 13 /\ D1(w) % 4 = 0 /\ D0(w) < 8
  <2>1. 15 \in Matches(w) <=> AndWord(w, \hF038) = \hD000
    <3>1. instruction_table[15].mask = \hF038 /\ instruction_table[15].value = \hD000
      BY SMT DEF instruction_table, Entry
    <3> QED
      BY <1>2, <3>1
  <2>2. \hD000 \in Word
    BY SMT DEF Word
  <2>3. D3(\hD000) = 13 /\ D2(\hD000) = 0 /\ D1(\hD000) = 0 /\ D0(\hD000) = 0
    BY SMT DEF D3, D2, D1, D0
  <2> QED
    BY <1>3, <2>1, <2>2, <2>3, MaskF038
<1>e16. 16 \in Matches(w) <=> D3(w) = 4 /\ D2(w) = 14 /\ D1(w) = 7 /\ D0(w) = 1
  <2>1. 16 \in Matches(w) <=> AndWord(w, \hFFFF) = \h4E71
    <3>1. instruction_table[16].mask = \hFFFF /\ instruction_table[16].value = \h4E71
      BY SMT DEF instruction_table, Entry
    <3> QED
      BY <1>2, <3>1
  <2>2. \h4E71 \in Word
    BY SMT DEF Word
  <2>3. D3(\h4E71) = 4 /\ D2(\h4E71) = 14 /\ D1(\h4E71) = 7 /\ D0(\h4E71) = 1
    BY SMT DEF D3, D2, D1, D0
  <2> QED
    BY <1>3, <2>1, <2>2, <2>3, MaskFFFF
<1>e17. 17 \in Matches(w) <=> D3(w) = 4 /\ D2(w) = 14 /\ D1(w) = 7 /\ D0(w) = 5
  <2>1. 17 \in Matches(w) <=> AndWord(w, \hFFFF) = \h4E75
    <3>1. instruction_table[17].mask = \hFFFF /\ instruction_table[17].value = \h4E75
      BY SMT DEF instruction_table, Entry
    <3> QED
      BY <1>2, <3>1
  <2>2. \h4E75 \in Word
    BY SMT DEF Word
  <2>3. D3(\h4E75) = 4 /\ D2(\h4E75) = 14 /\ D1(\h4E75) = 7 /\ D0(\h4E75) = 5
    BY SMT DEF D3, D2, D1, D0
  <2> QED
    BY <1>3, <2>1, <2>2, <2>3, MaskFFFF
<1> QED
  BY <1>e1, <1>e2, <1>e3, <1>e4, <1>e5, <1>e6, <1>e7, <1>e8, <1>e9, <1>e10, <1>e11, <1>e12,
     <1>e13, <1>e14, <1>e15, <1>e16, <1>e17

(* No two entries ask for the same digits: entries with the same first digit  *)
(* differ in a digit, or in the bit of one, that both ask for.               *)
LEMMA OneEntryAtMost ==
  ASSUME NEW w \in Word, NEW m \in Matches(w), NEW n \in Matches(w)
  PROVE  m = n
<1> DEFINE a == D3(w)
           b == D2(w)
           c == D1(w)
           d == D0(w)
           e == b % 2
<1>1. DOMAIN instruction_table = 1 .. 17
  BY SMT DEF instruction_table
<1>2. m \in 1 .. 17 /\ n \in 1 .. 17
  BY <1>1 DEF Matches
<1>3. a \in Int /\ b \in Int /\ c \in Int /\ d \in Int /\ e \in Int
  BY DigitTypes, Bits
<1>4. /\ 1 \in Matches(w) => a = 0 /\ b = 8 /\ c = 0
      /\ 2 \in Matches(w) => a = 0 /\ b = 8 /\ c = 4
      /\ 3 \in Matches(w) => a = 0 /\ b = 8 /\ c = 8
      /\ 4 \in Matches(w) => a = 0 /\ b = 8 /\ c = 12
      /\ 5 \in Matches(w) => a = 0 /\ b = 2
      /\ 6 \in Matches(w) => a = 0 /\ b = 4
      /\ 7 \in Matches(w) => a = 0 /\ b = 6
      /\ 8 \in Matches(w) => a = 5 /\ e = 0
      /\ 9 \in Matches(w) => a = 5 /\ e = 1
      /\ 10 \in Matches(w) => a = 1
      /\ 11 \in Matches(w) => a = 2
      /\ 12 \in Matches(w) => a = 3
      /\ 13 \in Matches(w) => a = 6
      /\ 14 \in Matches(w) => a = 9
      /\ 15 \in Matches(w) => a = 13
      /\ 16 \in Matches(w) => a = 4 /\ d = 1
      /\ 17 \in Matches(w) => a = 4 /\ d = 5
  BY EntryAsks
<1> DEFINE M == Matches(w)
<1> HIDE DEF a, b, c, d, e, M
<1>5. m \in M /\ n \in M
  BY DEF M
<1> QED
  BY SMTT(60), <1>2, <1>3, <1>4, <1>5 DEF M

(* An opcode is handled by the one entry that it matches: a MOVE by its top   *)
(* digit, NOP and RTS by themselves, and none of the entries asks for zero.   *)
LEMMA MatchHandles ==
  ASSUME NEW w \in Word, NEW k \in Matches(w)
  PROVE  handler_of(w) = instruction_table[k].handler
<1>1. \A n \in Matches(w) : n = k
  BY OneEntryAtMost
<1>2. k \in DOMAIN instruction_table
  BY DEF Matches
<1>3. k \in Int
  BY <1>2 DEF instruction_table
<1>4. \A n \in Matches(w) : k <= n
  BY <1>1, <1>3
<1> DEFINE first == CHOOSE n \in Matches(w) : \A j \in Matches(w) : n <= j
<1>5. first \in Matches(w)
  BY <1>4
<1>6. first = k
  BY <1>1, <1>5
<1> HIDE DEF first
<1>7. Matches(w) # {}
  OBVIOUS
<1> QED
  BY <1>6, <1>7 DEF handler_of, first

LEMMA HandlerOfMove ==
  ASSUME NEW w \in Word
  PROVE  /\ D3(w) = 1 => handler_of(w) = "move_b"
         /\ D3(w) = 2 => handler_of(w) = "move_l"
         /\ D3(w) = 3 => handler_of(w) = "move_w"
<1>1. /\ instruction_table[10].handler = "move_b"
      /\ instruction_table[11].handler = "move_l"
      /\ instruction_table[12].handler = "move_w"
  BY DEF instruction_table, Entry
<1>2. /\ D3(w) = 1 => 10 \in Matches(w)
      /\ D3(w) = 2 => 11 \in Matches(w)
      /\ D3(w) = 3 => 12 \in Matches(w)
  BY EntryAsks
<1> QED
  BY <1>1, <1>2, MatchHandles

LEMMA DigitsOfOpcodes ==
  /\ \h4E71 \in Word /\ \h4E75 \in Word /\ 0 \in Word
  /\ D3(\h4E71) = 4 /\ D2(\h4E71) = 14 /\ D1(\h4E71) = 7 /\ D0(\h4E71) = 1
  /\ D3(\h4E75) = 4 /\ D2(\h4E75) = 14 /\ D1(\h4E75) = 7 /\ D0(\h4E75) = 5
  /\ D3(0) = 0 /\ D2(0) = 0 /\ D1(0) = 0 /\ D0(0) = 0
  BY SMT DEF Word, D3, D2, D1, D0

LEMMA HandlerOfOthers ==
  handler_of(\h4E71) = "nop" /\ handler_of(\h4E75) = "rts" /\ handler_of(0) = "none"
<1>1. 16 \in Matches(\h4E71) /\ 17 \in Matches(\h4E75)
  BY DigitsOfOpcodes, EntryAsks
<1>2. instruction_table[16].handler = "nop" /\ instruction_table[17].handler = "rts"
  BY DEF instruction_table, Entry
<1>3. \A k \in 1 .. 17 : k \notin Matches(0)
  <2> SUFFICES ASSUME NEW k \in 1 .. 17 PROVE k \notin Matches(0)
    OBVIOUS
  <2>1. k \in {1, 2, 3, 4, 5, 6, 7, 8, 9, 10, 11, 12, 13, 14, 15, 16, 17}
    BY SMT
  <2> QED
    BY <2>1, DigitsOfOpcodes, EntryAsks
<1>4. Matches(0) \subseteq 1 .. 17
  BY DEF Matches, instruction_table
<1>5. Matches(0) = {}
  BY <1>3, <1>4
<1>6. handler_of(0) = "none"
  BY <1>5 DEF handler_of
<1> QED
  BY <1>1, <1>2, <1>6, DigitsOfOpcodes, MatchHandles

(* The opcode of a MOVE, from its fields. *)
MoveCode(s, src, dest) == 4096 * s + 512 * (dest % 8) + 64 * (dest \div 8) + src

(* The opcode of a MOVE is put together of its size, its destination and its   *)
(* source, and taken apart into them.                                        *)
LEMMA OpcodeOfMove ==
  ASSUME NEW s \in 1 .. 3, NEW src \in 0 .. 63, NEW dest \in 0 .. 63,
         NEW op, op = MoveCode(s, src, dest)
  PROVE  /\ op \in Word /\ D3(op) = s /\ op % 64 = src
         /\ 8 * Field(op, 6, 3) + Field(op, 9, 3) = dest
<1> DEFINE r == dest % 8
           d == dest \div 8
<1>1. r \in 0 .. 7 /\ d \in 0 .. 7 /\ dest = 8 * d + r
  BY SMT
<1> HIDE DEF r, d
<1>2. op = 4096 * s + 512 * r + 64 * d + src /\ op \in Int
  BY <1>1 DEF MoveCode, r, d
<1>3. op \div 4096 = s
  BY SMT, <1>1, <1>2
<1>4. op % 64 = src
  BY SMT, <1>1, <1>2
<1>5. op \div 64 = 64 * s + 8 * r + d /\ op \div 512 = 8 * s + r
  BY SMT, <1>1, <1>2
<1>6. (64 * s + 8 * r + d) % 8 = d /\ (8 * s + r) % 8 = r
  BY SMT, <1>1
<1>7. 2^6 = 64 /\ 2^9 = 512 /\ 2^3 = 8
  BY SMT
<1>8. Field(op, 6, 3) = d /\ Field(op, 9, 3) = r
  BY <1>5, <1>6, <1>7 DEF Field
<1>9. 0 <= op /\ op < 65536
  BY SMT, <1>1, <1>2
<1> QED
  BY <1>1, <1>2, <1>3, <1>4, <1>8, <1>9, BoundedWord DEF D3

(* An address and the longs that it is moved through. *)
LEMMA PartsOfNumber ==
  ASSUME NEW a \in Nat
  PROVE  /\ a \div 65536 \in Nat /\ a % 65536 \in Nat /\ a % 65536 < 65536
         /\ a = 65536 * (a \div 65536) + (a % 65536)
         /\ FromNumber(a) = [hi |-> (a \div 65536) % 65536, lo |-> a % 65536]
<1>1. /\ a \div 65536 \in Nat /\ a % 65536 \in Nat /\ a % 65536 < 65536
      /\ a = 65536 * (a \div 65536) + (a % 65536)
  BY SMTT(60)
<1> QED
  BY <1>1 DEF FromNumber

(* In the 32 bits of an address it is its own number, and so is a lower one. *)
LEMMA AddressNumber ==
  ASSUME NEW a \in Nat, AsNumber(FromNumber(a)) = a, NEW b \in Nat, b <= a
  PROVE  /\ FromNumber(b).hi = b \div 65536 /\ FromNumber(b).lo = b % 65536
         /\ AsNumber(FromNumber(b)) = b
<1> DEFINE q == a \div 65536
           r == a % 65536
           p == b \div 65536
           s == b % 65536
           h == q % 65536
<1>1. /\ q \in Nat /\ r \in Nat /\ r < 65536 /\ a = 65536 * q + r
      /\ p \in Nat /\ s \in Nat /\ s < 65536 /\ b = 65536 * p + s
  BY PartsOfNumber
<1>2. FromNumber(a).hi = h /\ FromNumber(a).lo = r
  BY PartsOfNumber
<1>3. FromNumber(b).hi = p % 65536 /\ FromNumber(b).lo = s
  BY PartsOfNumber
<1>4. 65536 * h + r = a
  BY <1>2 DEF AsNumber
<1>5. h \in Int /\ 0 <= h /\ h < 65536
  <2>1. h \in Word
    BY <1>1, ModWord
  <2> QED
    BY <2>1, WordBounds
<1> HIDE DEF q, r, p, s, h
<1>6. p < 65536
  BY SMT, <1>1, <1>4, <1>5
<1>7. p % 65536 = p
  BY <1>1, <1>6, Wrap16
<1>8. 65536 * p + s = b
  BY <1>1
<1> QED
  BY <1>3, <1>7, <1>8 DEF AsNumber, p, s

LEMMA AddressPlus ==
  ASSUME NEW a \in Nat, NEW k \in 0 .. 255
  PROVE  AddLong(FromNumber(a), FromWord(k)) = FromNumber(a + k)
<1> DEFINE q == a \div 65536
           r == a % 65536
           c == (r + k) \div 65536
           s == (r + k) % 65536
<1>1. q \in Nat /\ r \in Nat /\ r < 65536 /\ a = 65536 * q + r
  BY PartsOfNumber
<1>2. c \in Int /\ s \in Int /\ 0 <= s /\ s < 65536 /\ r + k = 65536 * c + s
  <2>1. r + k \in Nat
    BY <1>1
  <2> HIDE DEF r
  <2> QED
    BY <2>1, PartsOfNumber
<1>3. AddLong(FromNumber(a), FromWord(k)) = [hi |-> ((q % 65536) + 0 + c) % 65536, lo |-> s]
  <2>1. FromNumber(a).hi = q % 65536 /\ FromNumber(a).lo = r
    BY PartsOfNumber
  <2>2. FromWord(k).hi = 0 /\ FromWord(k).lo = k
    BY DEF FromWord
  <2> QED
    BY <2>1, <2>2 DEF AddLong
<1> HIDE DEF q, r, c, s
<1>4. ((q % 65536) + 0 + c) % 65536 = (q + c) % 65536
  <2>1. ((q % 65536) + c) % 65536 = (q + c) % 65536
    BY <1>1, <1>2, ModOfSum
  <2>2. q % 65536 \in Int
    BY <1>1, ModWord, WordBounds
  <2>3. (q % 65536) + 0 = q % 65536
    BY <2>2
  <2> QED
    BY <2>1, <2>3
<1>5. a + k = 65536 * (q + c) + s /\ a + k \in Nat /\ q + c \in Int
  BY SMT, <1>1, <1>2
<1>6. (a + k) \div 65536 = q + c /\ (a + k) % 65536 = s
  BY <1>2, <1>5, Wrap16
<1> QED
  BY <1>3, <1>4, <1>6 DEF FromNumber

=============================================================================
