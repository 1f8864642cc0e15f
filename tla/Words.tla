------------------------------- MODULE Words -------------------------------
(***************************************************************************)
(* The integer types of the simulator at their real widths: uint8_t,       *)
(* uint16_t and uint32_t.  TLC's integers have 32 bits with a sign, so a    *)
(* uint32_t is the record of its two 16-bit halves; every operation on it  *)
(* wraps modulo 2^32 as the C arithmetic does.                             *)
(*                                                                         *)
(* An operation's size is the size_code of the source: 0 is a byte, 1 a    *)
(* word, and every other code a long (the last branch of each test of it). *)
(***************************************************************************)
EXTENDS Integers

Byte == 0 .. 255
Word == 0 .. 65535
Long == [hi : Word, lo : Word]

(* The uint32_t of a small natural number. *)
FromWord(w) == [hi |-> 0, lo |-> w]

ZeroLong == FromWord(0)

(* The uint32_t of an address, which wraps, and the number of a uint32_t.    *)
FromNumber(n) == [hi |-> (n \div 65536) % 65536, lo |-> n % 65536]
AsNumber(x) == 65536 * x.hi + x.lo

AddLong(x, y) ==
  LET lo == x.lo + y.lo
  IN  [hi |-> (x.hi + y.hi + lo \div 65536) % 65536, lo |-> lo % 65536]

SubLong(x, y) ==
  LET lo == x.lo - y.lo
  IN  [hi |-> (x.hi - y.hi + lo \div 65536) % 65536, lo |-> lo % 65536]

(* x << k for the scale factors k \in 0..3 of an index register. *)
ShiftLong(x, k) ==
  LET f  == CASE k = 0 -> 1 [] k = 1 -> 2 [] k = 2 -> 4 [] OTHER -> 8
      lo == x.lo * f
  IN  [hi |-> (x.hi * f + lo \div 65536) % 65536, lo |-> lo % 65536]

(* (int32_t)(int16_t) and (int32_t)(int8_t). *)
SignExtendWord(w) == [hi |-> IF w >= 32768 THEN 65535 ELSE 0, lo |-> w]

SignExtendByte(b) ==
  IF b >= 128 THEN [hi |-> 65535, lo |-> 65280 + b] ELSE FromWord(b)

-----------------------------------------------------------------------------
(* Bit n of a word, n bits of it from bit i, and bit n of a long. *)
Bit(w, n) == (w \div 2^n) % 2

Field(w, i, n) == (w \div 2^i) % 2^n

LongBit(x, n) == IF n < 16 THEN Bit(x.lo, n) ELSE Bit(x.hi, n - 16)

(* x with its bit n replaced by b. *)
SetLongBit(x, n, b) ==
  IF n < 16 THEN [x EXCEPT !.lo = @ + (b - Bit(@, n)) * 2^n]
            ELSE [x EXCEPT !.hi = @ + (b - Bit(@, n - 16)) * 2^(n - 16)]

(* The bitwise conjunction: bit by bit for four bits, four bits at a time    *)
(* for a word.                                                               *)
Nibble == 0 .. 15

AndBit(v, w, p) == p * ((v \div p) % 2) * ((w \div p) % 2)

AndNibble ==
  [v \in Nibble |-> [w \in Nibble |->
     AndBit(v, w, 1) + AndBit(v, w, 2) + AndBit(v, w, 4) + AndBit(v, w, 8)]]

AndWord(v, w) ==
    AndNibble[v % 16][w % 16]
  + 16 * AndNibble[(v \div 16) % 16][(w \div 16) % 16]
  + 256 * AndNibble[(v \div 256) % 16][(w \div 256) % 16]
  + 4096 * AndNibble[v \div 4096][w \div 4096]

AndLong(x, y) == [hi |-> AndWord(x.hi, y.hi), lo |-> AndWord(x.lo, y.lo)]

-----------------------------------------------------------------------------
(* The low part of x that an operation of this size uses (x & size_mask). *)
Truncate(x, size_code) ==
  CASE size_code = 0 -> FromWord(x.lo % 256)
    [] size_code = 1 -> FromWord(x.lo)
    [] OTHER -> x

(* Mistake: the rest of the register is cleared. *)
Merge_cleared(old, x, size_code) == Truncate(x, size_code)

(* old with its low part replaced by the low part of x. *)
Merge(old, x, size_code) ==
  CASE size_code = 0 -> [old EXCEPT !.lo = 256 * (@ \div 256) + (x.lo % 256)]
    [] size_code = 1 -> [old EXCEPT !.lo = x.lo]
    [] OTHER -> x

(* x & msb_mask # 0: the sign bit of x at this size. *)
Msb(x, size_code) ==
  \/ size_code = 0 /\ x.lo % 256 >= 128
  \/ size_code = 1 /\ x.lo >= 32768
  \/ size_code \notin {0, 1} /\ x.hi >= 32768

=============================================================================
