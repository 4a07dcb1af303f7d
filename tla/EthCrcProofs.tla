------------------------------ MODULE EthCrcProofs ------------------------------
(***************************************************************************)
(* The sender's check sequence, nibble by nibble with the equations of     *)
(* PCK_CRC32_D4.vhd, and that of crc32-checker.c, bit by bit on reflected  *)
(* words, are the same for frames of any bytes, and a single damaged bit   *)
(* makes them differ.                                                      *)
(*                                                                         *)
(* A register is a linear function of the bits sent, so both loops are     *)
(* compared through the history of registers R of a sender: it is carried  *)
(* through the invariant as an existential, one element per step, in place *)
(* of an induction over the frame.                                         *)
(***************************************************************************)
EXTENDS EthCrc, TLAPS

\* The terms of a sum of bits, and the words of k bits: which bit has which terms.
Term == {One} \cup {<<"bit", n, b>> : n \in Nat, b \in Nat}

Words(k) == SUBSET ((0 .. (k - 1)) \X Term)

\* Term t is a term of bit n.
In(w, n, t) == <<n, t>> \in w

-------------------------------------------------------------------------------
(* Words, bit by bit.                                                        *)

LEMMA XorIn ==
  ASSUME NEW v, NEW w, NEW n, NEW t
  PROVE  In(v ++ w, n, t) <=> ~(In(v, n, t) <=> In(w, n, t))
BY DEF In, ++, SymDiff

LEMMA XorType ==
  ASSUME NEW k, NEW v \in Words(k), NEW w \in Words(k)
  PROVE  (v ++ w) \in Words(k)
BY DEF ++, SymDiff, Words

LEMMA WordEqual ==
  ASSUME NEW k \in Nat, NEW v \in Words(k), NEW w \in Words(k),
         \A n \in 0 .. (k - 1), t \in Term : In(v, n, t) <=> In(w, n, t)
  PROVE  v = w
BY DEF Words, In

LEMMA InBits ==
  ASSUME NEW k \in Nat, NEW w \in Words(k), NEW n, NEW t, In(w, n, t)
  PROVE  n \in 0 .. (k - 1) /\ t \in Term
BY DEF Words, In

\* Words moved by k bits, and turned around bit k.
Shift(w, k) == {<<e[1] + k, e[2]>> : e \in w}
Turn(w, k) == {<<k - e[1], e[2]>> : e \in w}

LEMMA ShiftIn ==
  ASSUME NEW m \in Nat, NEW w \in Words(m), NEW k \in Int, NEW n \in Int, NEW t
  PROVE  In(Shift(w, k), n, t) <=> In(w, n - k, t)
BY DEF Words, Shift, In

LEMMA TurnIn ==
  ASSUME NEW m \in Nat, NEW w \in Words(m), NEW k \in Int, NEW n \in Int, NEW t
  PROVE  In(Turn(w, k), n, t) <=> In(w, k - n, t)
BY DEF Words, Turn, In

LEMMA BitsIn ==
  ASSUME NEW m \in Nat, NEW w \in Words(m), NEW lo \in Nat, NEW hi \in Nat, NEW n, NEW t
  PROVE  /\ Bits(w, lo, hi) \in Words(m)
         /\ In(Bits(w, lo, hi), n, t) <=> n \in lo .. hi /\ In(w, n, t)
BY DEF Words, Bits, In

LEMMA SpreadIn ==
  ASSUME NEW k \in Nat, NEW w \in Words(k), NEW ns, NEW n \in Nat, NEW m \in Nat, NEW t
  PROVE  In(Spread(ns, Bit(w, m)), n, t) <=> n \in ns /\ In(w, m, t)
<1>1. t \in Bit(w, m) <=> In(w, m, t)
  BY DEF Words, Bit, In
<1> QED BY <1>1 DEF Spread, In

LEMMA SpreadType ==
  ASSUME NEW ns \in SUBSET (0 .. 31), NEW ts \in SUBSET Term
  PROVE  Spread(ns, ts) \in Words(32)
<1>1. \A e \in ns \X ts : e \in (0 .. 31) \X Term
  OBVIOUS
<1>2. 32 - 1 = 31
  OBVIOUS
<1> QED BY <1>1, <1>2 DEF Spread, Words

LEMMA CmBit ==
  ASSUME NEW w
  PROVE  cm_bit(w) = Shift(Bits(w, 0, 30), 1) ++ Spread(Poly, Bit(w, 31))
BY DEF cm_bit, Moved, Shift

LEMMA CmBitType ==
  ASSUME NEW w \in Words(32)
  PROVE  cm_bit(w) \in Words(32)
<1>1. Shift(Bits(w, 0, 30), 1) \in Words(32)
  BY DEF Words, Bits, Shift
<1>2. Spread(Poly, Bit(w, 31)) \in Words(32)
  BY DEF Words, Spread, Poly, Bit
<1> QED BY <1>1, <1>2, CmBit, XorType

-------------------------------------------------------------------------------
(* The loop of cm_nxt.                                                       *)

\* A bit of the register after one step of the loop.
LEMMA CmBitIn ==
  ASSUME NEW w \in Words(32), NEW n \in 0 .. 31, NEW t
  PROVE  In(cm_bit(w), n, t) <=> ~((n >= 1 /\ In(w, n - 1, t)) <=> (n \in Poly /\ In(w, 31, t)))
<1> DEFINE a == Shift(Bits(w, 0, 30), 1)
           b == Spread(Poly, Bit(w, 31))
<1>1. In(a, n, t) <=> n >= 1 /\ In(w, n - 1, t)
  BY BitsIn, ShiftIn
<1>2. In(b, n, t) <=> n \in Poly /\ In(w, 31, t)
  BY SpreadIn
<1>3. cm_bit(w) = a ++ b
  BY CmBit
<1> HIDE DEF a, b
<1> QED BY <1>1, <1>2, <1>3, XorIn

Four(w) == cm_bit(cm_bit(cm_bit(cm_bit(w))))

LEMMA FourType ==
  ASSUME NEW w \in Words(32)
  PROVE  Four(w) \in Words(32)
BY CmBitType DEF Four

\* Four steps are what PCK_CRC32_D4 does with a nibble.
LEMMA FourIn ==
  ASSUME NEW w \in Words(32), NEW n \in 0 .. 31, NEW t
  PROVE  In(Four(w), n, t) <=>
           ~((n >= 4 /\ In(w, n - 4, t)) <=>
             ~((n \in Taps(0) /\ In(w, 28, t)) <=>
               ~((n \in Taps(1) /\ In(w, 29, t)) <=>
                 ~((n \in Taps(2) /\ In(w, 30, t)) <=> (n \in Taps(3) /\ In(w, 31, t))))))
<1> DEFINE w1 == cm_bit(w)
           w2 == cm_bit(w1)
           w3 == cm_bit(w2)
<1>1. w1 \in Words(32) /\ w2 \in Words(32) /\ w3 \in Words(32)
  BY CmBitType
<1>2. \A m \in 0 .. 31 : In(w1, m, t) <=> ~((m >= 1 /\ In(w, m - 1, t)) <=> (m \in Poly /\ In(w, 31, t)))
  BY CmBitIn
<1>3. \A m \in 0 .. 31 : In(w2, m, t) <=> ~((m >= 1 /\ In(w1, m - 1, t)) <=> (m \in Poly /\ In(w1, 31, t)))
  BY <1>1, CmBitIn
<1>4. \A m \in 0 .. 31 : In(w3, m, t) <=> ~((m >= 1 /\ In(w2, m - 1, t)) <=> (m \in Poly /\ In(w2, 31, t)))
  BY <1>1, CmBitIn
<1>5. In(Four(w), n, t) <=> ~((n >= 1 /\ In(w3, n - 1, t)) <=> (n \in Poly /\ In(w3, 31, t)))
  BY <1>1, CmBitIn DEF Four
<1> HIDE DEF w1, w2, w3
<1>6. /\ In(w1, 31, t) <=> In(w, 30, t)
      /\ In(w1, 30, t) <=> In(w, 29, t)
      /\ In(w1, 29, t) <=> In(w, 28, t)
  BY <1>2 DEF Poly
<1>7. /\ In(w2, 31, t) <=> In(w, 29, t)
      /\ In(w2, 30, t) <=> In(w, 28, t)
  BY <1>3, <1>6 DEF Poly
<1>8. In(w3, 31, t) <=> In(w, 28, t)
  BY <1>4, <1>7 DEF Poly
<1> QED BY <1>2, <1>3, <1>4, <1>5, <1>6, <1>7, <1>8 DEF Poly, Taps

-------------------------------------------------------------------------------
(* A nibble enters the register.                                             *)

\* A nibble in the place of the register it is added to, its lowest bit in the highest.
Entered(x) == Shift(Turn(x, 3), 28)

After(c, x) == Four(c ++ Entered(x))

LEMMA EnteredIn ==
  ASSUME NEW x \in Words(4)
  PROVE  /\ Entered(x) \in Words(32)
         /\ \A n \in Int : \A t : In(Entered(x), n, t) <=> In(x, 31 - n, t)
<1>1. Turn(x, 3) \in Words(4)
  BY DEF Turn, Words
<1>2. Entered(x) \in Words(32)
  BY <1>1 DEF Words, Shift, Entered
<1>3. ASSUME NEW n \in Int, NEW t
      PROVE  In(Entered(x), n, t) <=> In(x, 31 - n, t)
  <2>1. In(Entered(x), n, t) <=> In(Turn(x, 3), n - 28, t)
    BY <1>1, ShiftIn DEF Entered
  <2>2. In(Turn(x, 3), n - 28, t) <=> In(x, 3 - (n - 28), t)
    BY TurnIn
  <2> QED BY <2>1, <2>2
<1> QED BY <1>2, <1>3

LEMMA AfterType ==
  ASSUME NEW c \in Words(32), NEW x \in Words(4)
  PROVE  After(c, x) \in Words(32)
BY EnteredIn, XorType, FourType DEF After

LEMMA SliceType ==
  ASSUME NEW m \in Nat, NEW w \in Words(m), NEW lo \in Nat, NEW hi \in Nat
  PROVE  Slice(w, lo, hi) \in Words((hi - lo) + 1)
BY DEF Slice, Moved, Bits, Words

LEMMA SliceBit ==
  ASSUME NEW m \in Nat, NEW w \in Words(m), NEW lo \in Nat, NEW hi \in Nat, NEW n \in Int, NEW t
  PROVE  In(Slice(w, lo, hi), n, t) <=> n \in 0 .. (hi - lo) /\ In(w, n + lo, t)
BY DEF Slice, Moved, Bits, Words, In

\* nextCRC32_D4 adds the nibble to the four highest bits and does four steps.
LEMMA NextIsAfter ==
  ASSUME NEW x \in Words(4), NEW c \in Words(32)
  PROVE  nextCRC32_D4(Left(x, 4), c) = After(c, x)
<1> DEFINE dd == Turn(x, 3)
           top == dd ++ Slice(c, 28, 31)
           up == Shift(Bits(c, 0, 27), 4)
           s0 == Spread(Taps(0), Bit(top, 0))
           s1 == Spread(Taps(1), Bit(top, 1))
           s2 == Spread(Taps(2), Bit(top, 2))
           s3 == Spread(Taps(3), Bit(top, 3))
           y == c ++ Entered(x)
<1>1. nextCRC32_D4(Left(x, 4), c) = up ++ s0 ++ s1 ++ s2 ++ s3
  <2>1. Left(x, 4) = dd
    BY DEF Left, Moved, Turn
  <2>2. Moved(Bits(c, 0, 27), LAMBDA n : n + 4) = up
    BY DEF Moved, Shift
  <2> QED BY <2>1, <2>2 DEF nextCRC32_D4
<1>2. dd \in Words(4) /\ Slice(c, 28, 31) \in Words(4) /\ top \in Words(4)
  <2>1. dd \in Words(4)
    BY DEF Turn, Words
  <2>2. Slice(c, 28, 31) \in Words((31 - 28) + 1)
    BY SliceType
  <2> QED BY <2>1, <2>2, XorType
<1>3. y \in Words(32)
  BY EnteredIn, XorType
<1>4. /\ up \in Words(32) /\ s0 \in Words(32) /\ s1 \in Words(32)
      /\ s2 \in Words(32) /\ s3 \in Words(32)
  <2>1. up \in Words(32)
    BY DEF Words, Bits, Shift
  <2>2. ASSUME NEW m \in Nat
        PROVE  Bit(top, m) \subseteq Term
    <3> HIDE DEF top
    <3> QED BY <1>2 DEF Bit, Words
  <2>3. ASSUME NEW ns \in SUBSET (0 .. 31), NEW m \in Nat
        PROVE  Spread(ns, Bit(top, m)) \in Words(32)
    <3>1. Bit(top, m) \subseteq Term
      BY <2>2
    <3> HIDE DEF top
    <3> QED BY <3>1, SpreadType
  <2>4. /\ Taps(0) \in SUBSET (0 .. 31) /\ Taps(1) \in SUBSET (0 .. 31)
        /\ Taps(2) \in SUBSET (0 .. 31) /\ Taps(3) \in SUBSET (0 .. 31)
    BY DEF Taps
  <2> QED BY <2>1, <2>3, <2>4
<1>5. ASSUME NEW n \in 0 .. 31, NEW t \in Term
      PROVE  In(up ++ s0 ++ s1 ++ s2 ++ s3, n, t) <=> In(Four(y), n, t)
  <2>1. \A k \in 0 .. 3 : In(top, k, t) <=> In(y, 28 + k, t)
    <3> SUFFICES ASSUME NEW k \in 0 .. 3
                 PROVE  In(top, k, t) <=> In(y, 28 + k, t)
      OBVIOUS
    <3>1. In(top, k, t) <=> ~(In(dd, k, t) <=> In(Slice(c, 28, 31), k, t))
      BY XorIn
    <3>2. In(dd, k, t) <=> In(x, 3 - k, t)
      BY TurnIn
    <3>3. In(Slice(c, 28, 31), k, t) <=> In(c, 28 + k, t)
      <4>1. In(Slice(c, 28, 31), k, t) <=> k \in 0 .. (31 - 28) /\ In(c, k + 28, t)
        BY SliceBit
      <4> QED BY <4>1
    <3>4. In(y, 28 + k, t) <=> ~(In(c, 28 + k, t) <=> In(Entered(x), 28 + k, t))
      BY XorIn
    <3>5. In(Entered(x), 28 + k, t) <=> In(x, 3 - k, t)
      <4>1. In(Entered(x), 28 + k, t) <=> In(x, 31 - (28 + k), t)
        BY EnteredIn
      <4> QED BY <4>1
    <3> HIDE DEF dd, top, y
    <3> QED BY <3>1, <3>2, <3>3, <3>4, <3>5
  <2>2. n <= 27 => (In(y, n, t) <=> In(c, n, t))
    <3> SUFFICES ASSUME n <= 27
                 PROVE  In(y, n, t) <=> In(c, n, t)
      OBVIOUS
    <3>1. ~In(x, 31 - n, t)
      BY InBits
    <3> QED BY <3>1, XorIn, EnteredIn
  <2>3. In(up, n, t) <=> n >= 4 /\ In(y, n - 4, t)
    <3>1. In(up, n, t) <=> n - 4 \in 0 .. 27 /\ In(c, n - 4, t)
      BY BitsIn, ShiftIn
    <3>2. n >= 4 => (In(y, n - 4, t) <=> In(c, n - 4, t))
      <4> SUFFICES ASSUME n >= 4
                   PROVE  In(y, n - 4, t) <=> In(c, n - 4, t)
        OBVIOUS
      <4>1. ~In(x, 31 - (n - 4), t)
        BY InBits
      <4> QED BY <4>1, XorIn, EnteredIn
    <3> QED BY <3>1, <3>2
  <2>4. /\ In(s0, n, t) <=> n \in Taps(0) /\ In(top, 0, t)
        /\ In(s1, n, t) <=> n \in Taps(1) /\ In(top, 1, t)
        /\ In(s2, n, t) <=> n \in Taps(2) /\ In(top, 2, t)
        /\ In(s3, n, t) <=> n \in Taps(3) /\ In(top, 3, t)
    <3> HIDE DEF top
    <3>1. In(s0, n, t) <=> n \in Taps(0) /\ In(top, 0, t)
      BY <1>2, SpreadIn
    <3>2. In(s1, n, t) <=> n \in Taps(1) /\ In(top, 1, t)
      BY <1>2, SpreadIn
    <3>3. In(s2, n, t) <=> n \in Taps(2) /\ In(top, 2, t)
      BY <1>2, SpreadIn
    <3>4. In(s3, n, t) <=> n \in Taps(3) /\ In(top, 3, t)
      BY <1>2, SpreadIn
    <3> QED BY <3>1, <3>2, <3>3, <3>4
  <2>5. In(up ++ s0 ++ s1 ++ s2 ++ s3, n, t) <=>
          ~(~(~(~(In(up, n, t) <=> In(s0, n, t)) <=> In(s1, n, t)) <=> In(s2, n, t)) <=> In(s3, n, t))
    BY XorIn
  <2>6. /\ In(top, 0, t) <=> In(y, 28, t)
        /\ In(top, 1, t) <=> In(y, 29, t)
        /\ In(top, 2, t) <=> In(y, 30, t)
        /\ In(top, 3, t) <=> In(y, 31, t)
    BY <2>1
  <2> HIDE DEF up, s0, s1, s2, s3, top, y
  <2> QED BY <1>3, <2>3, <2>4, <2>5, <2>6, FourIn
<1>6. up ++ s0 ++ s1 ++ s2 ++ s3 \in Words(32) /\ Four(y) \in Words(32)
  BY <1>3, <1>4, XorType, FourType
<1>7. up ++ s0 ++ s1 ++ s2 ++ s3 = Four(y)
  <2> HIDE DEF up, s0, s1, s2, s3, y
  <2> QED BY <1>5, <1>6, WordEqual
<1> QED BY <1>1, <1>7 DEF After

\* A byte in its place: reflect(ch, 8) << 24.
Entered8(ch) == Shift(Turn(ch, 7), 24)

LEMMA Entered8In ==
  ASSUME NEW ch \in Words(8)
  PROVE  /\ Entered8(ch) \in Words(32)
         /\ \A n \in Int : \A t : In(Entered8(ch), n, t) <=> In(ch, 31 - n, t)
<1>1. Turn(ch, 7) \in Words(8)
  BY DEF Turn, Words
<1>2. Entered8(ch) \in Words(32)
  BY <1>1 DEF Words, Shift, Entered8
<1>3. ASSUME NEW n \in Int, NEW t
      PROVE  In(Entered8(ch), n, t) <=> In(ch, 31 - n, t)
  <2>1. In(Entered8(ch), n, t) <=> In(Turn(ch, 7), n - 24, t)
    BY <1>1, ShiftIn DEF Entered8
  <2>2. In(Turn(ch, 7), n - 24, t) <=> In(ch, 7 - (n - 24), t)
    BY TurnIn
  <2> QED BY <2>1, <2>2
<1> QED BY <1>2, <1>3

LEMMA NxtIsEight ==
  ASSUME NEW reg, NEW ch \in Words(8)
  PROVE  cm_nxt(reg, ch) = Four(Four(reg ++ Entered8(ch)))
<1>1. reflect(ch, 8) = Turn(ch, 7)
  BY DEF reflect, Moved, Turn, Words
<1>2. Moved(Turn(ch, 7), LAMBDA n : n + 24) = Entered8(ch)
  BY DEF Moved, Shift, Entered8
<1> QED BY <1>1, <1>2 DEF cm_nxt, Four

LEMMA NibbleIn ==
  ASSUME NEW ch \in Words(8), NEW h \in {0, 1}
  PROVE  /\ Nibble(ch, h) \in Words(4)
         /\ \A n \in Int : \A t : In(Nibble(ch, h), n, t) <=> n \in 0 .. 3 /\ In(ch, n + (4 * h), t)
<1>1. Nibble(ch, h) \in Words((((4 * h) + 3) - (4 * h)) + 1)
  BY SliceType DEF Nibble
<1>2. ASSUME NEW n \in Int, NEW t
      PROVE  In(Nibble(ch, h), n, t) <=> n \in 0 .. 3 /\ In(ch, n + (4 * h), t)
  <2>1. In(Nibble(ch, h), n, t) <=> n \in 0 .. (((4 * h) + 3) - (4 * h)) /\ In(ch, n + (4 * h), t)
    BY SliceBit DEF Nibble
  <2> QED BY <2>1
<1>3. (((4 * h) + 3) - (4 * h)) + 1 = 4
  OBVIOUS
<1> QED BY <1>1, <1>2, <1>3

\* cm_nxt adds the byte at once; that is as good as adding its nibbles in turn, the
\* low one first.
LEMMA NxtIsAfter ==
  ASSUME NEW reg \in Words(32), NEW ch \in Words(8)
  PROVE  cm_nxt(reg, ch) = After(After(reg, Nibble(ch, 0)), Nibble(ch, 1))
<1> DEFINE lo == Nibble(ch, 0)
           hi == Nibble(ch, 1)
           y == reg ++ Entered8(ch)
           z == reg ++ Entered(lo)
<1>1. lo \in Words(4) /\ hi \in Words(4)
  BY NibbleIn
<1>2. y \in Words(32) /\ z \in Words(32) /\ Entered(hi) \in Words(32)
  BY <1>1, Entered8In, EnteredIn, XorType
<1>3. ASSUME NEW n \in 0 .. 31, NEW t \in Term
      PROVE  In(Four(y), n, t) <=> In(Four(z) ++ Entered(hi), n, t)
  <2>1. \A m \in Int : In(y, m, t) <=> ~(In(reg, m, t) <=> In(ch, 31 - m, t))
    BY XorIn, Entered8In
  <2>2. \A m \in Int : In(z, m, t) <=> ~(In(reg, m, t) <=> (31 - m \in 0 .. 3 /\ In(ch, 31 - m, t)))
    <3> SUFFICES ASSUME NEW m \in Int
                 PROVE  In(z, m, t) <=> ~(In(reg, m, t) <=> (31 - m \in 0 .. 3 /\ In(ch, 31 - m, t)))
      OBVIOUS
    <3>1. In(Entered(lo), m, t) <=> In(lo, 31 - m, t)
      BY <1>1, EnteredIn
    <3>2. In(lo, 31 - m, t) <=> 31 - m \in 0 .. 3 /\ In(ch, (31 - m) + (4 * 0), t)
      BY NibbleIn
    <3> HIDE DEF lo
    <3>3. In(lo, 31 - m, t) <=> 31 - m \in 0 .. 3 /\ In(ch, 31 - m, t)
      BY <3>2
    <3> QED BY <3>1, <3>3, XorIn
  <2>3. In(Entered(hi), n, t) <=> n >= 28 /\ In(ch, 35 - n, t)
    <3>1. In(Entered(hi), n, t) <=> In(hi, 31 - n, t)
      BY <1>1, EnteredIn
    <3>2. In(hi, 31 - n, t) <=> 31 - n \in 0 .. 3 /\ In(ch, (31 - n) + (4 * 1), t)
      BY NibbleIn
    <3>3. (31 - n) + (4 * 1) = 35 - n
      OBVIOUS
    <3> QED BY <3>1, <3>2, <3>3
  <2>4. /\ In(y, 28, t) <=> In(z, 28, t)
        /\ In(y, 29, t) <=> In(z, 29, t)
        /\ In(y, 30, t) <=> In(z, 30, t)
        /\ In(y, 31, t) <=> In(z, 31, t)
    <3> HIDE DEF y, z
    <3> QED BY <2>1, <2>2
  <2>5. In(y, n - 4, t) <=> ~(In(z, n - 4, t) <=> (n >= 28 /\ In(ch, 35 - n, t)))
    <3>1. In(ch, 35 - n, t) => 35 - n <= 7
      BY InBits
    <3>2. 31 - (n - 4) = 35 - n
      OBVIOUS
    <3> HIDE DEF y, z
    <3> QED BY <2>1, <2>2, <3>1, <3>2
  <2>6. In(Four(z) ++ Entered(hi), n, t) <=> ~(In(Four(z), n, t) <=> In(Entered(hi), n, t))
    BY XorIn
  <2> HIDE DEF y, z, hi
  <2> QED BY <1>2, <2>3, <2>4, <2>5, <2>6, FourIn
<1>4. Four(y) = Four(z) ++ Entered(hi)
  <2> HIDE DEF y, z, hi
  <2>1. Four(y) \in Words(32) /\ Four(z) ++ Entered(hi) \in Words(32)
    BY <1>2, FourType, XorType
  <2> QED BY <1>3, <2>1, WordEqual
<1> QED BY <1>4, NxtIsEight DEF After

-------------------------------------------------------------------------------
(* A damage is never lost: words that differ go on differing.                *)

LEMMA Differ ==
  ASSUME NEW k \in Nat, NEW v \in Words(k), NEW w \in Words(k), v # w
  PROVE  \E n \in 0 .. (k - 1), t \in Term : ~(In(v, n, t) <=> In(w, n, t))
BY WordEqual

LEMMA CmBitDiffers ==
  ASSUME NEW v \in Words(32), NEW w \in Words(32), v # w
  PROVE  cm_bit(v) # cm_bit(w)
<1>1. PICK n \in 0 .. 31, t \in Term : ~(In(v, n, t) <=> In(w, n, t))
  BY Differ
<1>2. CASE ~(In(v, 31, t) <=> In(w, 31, t))
  <2>1. /\ In(cm_bit(v), 0, t) <=> In(v, 31, t)
        /\ In(cm_bit(w), 0, t) <=> In(w, 31, t)
    BY CmBitIn DEF Poly
  <2> QED BY <1>2, <2>1
<1>3. CASE In(v, 31, t) <=> In(w, 31, t)
  <2>1. n \in 0 .. 30
    BY <1>1, <1>3
  <2>2. /\ In(cm_bit(v), n + 1, t) <=> ~(In(v, n, t) <=> (n + 1 \in Poly /\ In(v, 31, t)))
        /\ In(cm_bit(w), n + 1, t) <=> ~(In(w, n, t) <=> (n + 1 \in Poly /\ In(w, 31, t)))
    <3>1. PICK m \in 0 .. 31 : m = n + 1
      BY <2>1
    <3>2. /\ In(cm_bit(v), m, t) <=> ~((m >= 1 /\ In(v, m - 1, t)) <=> (m \in Poly /\ In(v, 31, t)))
          /\ In(cm_bit(w), m, t) <=> ~((m >= 1 /\ In(w, m - 1, t)) <=> (m \in Poly /\ In(w, 31, t)))
      BY CmBitIn
    <3>3. m - 1 = n /\ m >= 1
      BY <3>1
    <3> QED BY <3>1, <3>2, <3>3
  <2> QED BY <1>1, <1>3, <2>2
<1> QED BY <1>2, <1>3

LEMMA FourDiffers ==
  ASSUME NEW v \in Words(32), NEW w \in Words(32), v # w
  PROVE  Four(v) # Four(w)
BY CmBitDiffers, CmBitType DEF Four

LEMMA XorDiffers ==
  ASSUME NEW v, NEW w, NEW x, NEW y, (v = w) # (x = y)
  PROVE  v ++ x # w ++ y
BY DEF ++, SymDiff

\* The register or the byte differs, but not both.
LEMMA NxtDiffers ==
  ASSUME NEW v \in Words(32), NEW w \in Words(32), NEW a \in Words(8), NEW b \in Words(8),
         (v = w) # (a = b)
  PROVE  cm_nxt(v, a) # cm_nxt(w, b)
<1>1. a # b => Entered8(a) # Entered8(b)
  <2> SUFFICES ASSUME a # b
               PROVE  Entered8(a) # Entered8(b)
    OBVIOUS
  <2>1. PICK n \in 0 .. 7, t \in Term : ~(In(a, n, t) <=> In(b, n, t))
    BY Differ
  <2>2. /\ In(Entered8(a), 31 - n, t) <=> In(a, 31 - (31 - n), t)
        /\ In(Entered8(b), 31 - n, t) <=> In(b, 31 - (31 - n), t)
    BY Entered8In
  <2>3. 31 - (31 - n) = n
    OBVIOUS
  <2> QED BY <2>1, <2>2, <2>3
<1>2. v ++ Entered8(a) # w ++ Entered8(b)
  BY <1>1, XorDiffers
<1>3. v ++ Entered8(a) \in Words(32) /\ w ++ Entered8(b) \in Words(32)
  BY Entered8In, XorType
<1>4. Four(v ++ Entered8(a)) # Four(w ++ Entered8(b))
  BY <1>2, <1>3, FourDiffers
<1> QED BY <1>3, <1>4, FourType, FourDiffers, NxtIsEight

-------------------------------------------------------------------------------
(* The inductive invariant.                                                  *)

\* The k-th nibble of the frame, from 0.
Nib(k) == Nibble(FrameByte(k \div 2), k % 2)

\* R is the register of a sender of m nibbles, after each of them.
Chain(R, m) == /\ R \in [0 .. m -> Words(32)]
               /\ R[0] = Ones(32)
               /\ \A k \in 0 .. (m - 1) : R[k + 1] = After(R[k], Nib(k))

\* A nibble of the check sequence.
Check(k) == Slice(scrc, 4 * k, (4 * k) + 3) ++ Ones(4)

Flips == {NoFlip} \cup ((0 .. (FrameBytes + 3)) \X (0 .. 7))

CrcTypes ==
    /\ spc \in {"Frame", "FrameCheck", "Sent", "Captured"}
    /\ scrc \in Words(32) /\ nibbles \in Seq(Words(4)) /\ flip \in Flips
    /\ mpc \in {"open", "scan"} /\ judged \in Seq(BOOLEAN)
    /\ crc_buffer \in [0 .. (FrameBytes + 3) -> Words(8)]
    /\ frame_sz \in 0 .. (FrameBytes + 4) /\ j \in 0 .. 255

\* What was sent, and that nothing is read before it was captured.
SentSoFar ==
    /\ spc = "Frame" => Len(nibbles) < 2 * FrameBytes
    /\ spc = "FrameCheck" => Len(nibbles) \in (2 * FrameBytes) .. ((2 * FrameBytes) + 7)
    /\ spc \in {"Sent", "Captured"} => Len(nibbles) = (2 * FrameBytes) + 8
    /\ \A k \in 0 .. (Len(nibbles) - 1) :
          nibbles[k + 1] = IF k < 2 * FrameBytes THEN Nib(k) ELSE Check(k - (2 * FrameBytes))
    /\ spc # "Captured" => flip = NoFlip /\ mpc = "open" /\ judged = << >>

\* The first file: what was read of it, and that the loop runs after that.
Reading ==
    /\ mpc = "open" => file_ret = 0 /\ frame_sz = 0
    /\ mpc = "scan" => /\ \A n \in 0 .. (frame_sz - 1) : crc_buffer[n] = Captured(n)
                       /\ file_ret = EOF => frame_sz = FrameBytes + 4
                       /\ file_ret # EOF => j = 0 /\ cm_reg = Ones(32)
                       /\ j <= FrameBytes /\ cm_reg \in Words(32)

\* The damaged byte is among the first n.
Damaged(n) == flip # NoFlip /\ flip[1] < n

\* The sender's register is that of the bits sent; the checker's agrees with it
\* until it has met the damage, and never again.
Registers(R) ==
    /\ Chain(R, IF spc = "Frame" THEN Len(nibbles) ELSE 2 * FrameBytes)
    /\ Turn(scrc, 31) = R[IF spc = "Frame" THEN Len(nibbles) ELSE 2 * FrameBytes]
    /\ mpc = "scan" /\ judged = << >> => (cm_reg = R[2 * j] <=> ~Damaged(j))

CrcInd == /\ CrcTypes /\ SentSoFar /\ (judged = << >> => Reading)
          /\ \E R : Registers(R)
          /\ FramesMatch

-------------------------------------------------------------------------------
(* Frames and captures.                                                      *)

LEMMA FrameByteType ==
  ASSUME NEW n \in Nat
  PROVE  FrameByte(n) \in Words(8)
BY DEF FrameByte, Words, Term

LEMMA OnesType ==
  ASSUME NEW k \in Nat
  PROVE  /\ Ones(k) \in Words(k)
         /\ \A n, t : In(Ones(k), n, t) <=> n \in 0 .. (k - 1) /\ t = One
BY DEF Ones, Words, Term, In

LEMMA NibType ==
  ASSUME NEW k \in Nat
  PROVE  Nib(k) \in Words(4)
<1>1. k \div 2 \in Nat /\ k % 2 \in {0, 1}
  OBVIOUS
<1> QED BY <1>1, FrameByteType, NibbleIn DEF Nib

LEMMA TurnTwice ==
  ASSUME NEW k \in Nat, NEW w \in Words(k)
  PROVE  Turn(w, k - 1) \in Words(k) /\ Turn(Turn(w, k - 1), k - 1) = w
<1>1. \A v \in Words(k) : Turn(v, k - 1) \in Words(k)
  BY DEF Turn, Words
<1>2. Turn(w, k - 1) \in Words(k) /\ Turn(Turn(w, k - 1), k - 1) \in Words(k)
  BY <1>1
<1>3. ASSUME NEW n \in 0 .. (k - 1), NEW t \in Term
      PROVE  In(Turn(Turn(w, k - 1), k - 1), n, t) <=> In(w, n, t)
  <2>1. In(Turn(Turn(w, k - 1), k - 1), n, t) <=> In(Turn(w, k - 1), (k - 1) - n, t)
    BY <1>2, TurnIn
  <2>2. In(Turn(w, k - 1), (k - 1) - n, t) <=> In(w, (k - 1) - ((k - 1) - n), t)
    BY TurnIn
  <2>3. (k - 1) - ((k - 1) - n) = n
    OBVIOUS
  <2> QED BY <2>1, <2>2, <2>3
<1> QED BY <1>2, <1>3, WordEqual

\* Byte n of a capture, bit by bit.
LEMMA CapturedIn ==
  ASSUME NEW n \in Nat, NEW x \in Words(4), NEW y \in Words(4),
         nibbles[(2 * n) + 1] = x, nibbles[(2 * n) + 2] = y
  PROVE  /\ Captured(n) \in Words(8)
         /\ \A b \in 0 .. 7 : \A t : In(Captured(n), b, t) <=>
              ~((IF b < 4 THEN In(x, b, t) ELSE In(y, b - 4, t)) <=> (flip = <<n, b>> /\ t = One))
<1> DEFINE d == {<<b, One>> : b \in {b \in 0 .. 7 : flip = <<n, b>>}}
<1>1. Captured(n) = x ++ Shift(y, 4) ++ d
  BY DEF Captured, Moved, Shift
<1>2. x \in Words(8) /\ Shift(y, 4) \in Words(8)
  BY DEF Shift, Words
<1>3. d \in Words(8)
  BY DEF Words, Term
<1>4. ASSUME NEW b \in 0 .. 7, NEW t
      PROVE  In(Captured(n), b, t) <=>
               ~((IF b < 4 THEN In(x, b, t) ELSE In(y, b - 4, t)) <=> (flip = <<n, b>> /\ t = One))
  <2>1. In(d, b, t) <=> flip = <<n, b>> /\ t = One
    BY DEF In
  <2>2. In(Shift(y, 4), b, t) <=> In(y, b - 4, t)
    BY ShiftIn
  <2>3. In(x, b, t) => b < 4
    BY InBits
  <2>4. In(y, b - 4, t) => b >= 4
    BY InBits
  <2>5. In(x ++ Shift(y, 4) ++ d, b, t) <=> ~(~(In(x, b, t) <=> In(Shift(y, 4), b, t)) <=> In(d, b, t))
    BY XorIn
  <2> HIDE DEF d
  <2> QED BY <1>1, <2>1, <2>2, <2>3, <2>4, <2>5
<1> HIDE DEF d
<1> QED BY <1>1, <1>2, <1>3, <1>4, XorType

\* A byte of the frame is captured as it was sent, unless it is the damaged one.
LEMMA CapturedByte ==
  ASSUME CrcTypes, SentSoFar, spc = "Captured", NEW n \in 0 .. (FrameBytes - 1)
  PROVE  /\ Captured(n) \in Words(8)
         /\ Captured(n) = FrameByte(n) <=> ~(flip # NoFlip /\ flip[1] = n)
<1> DEFINE ch == FrameByte(n)
<1>0. n \in Nat /\ FrameBytes \in Nat
  BY CrcAssumption
<1>1. ch \in Words(8)
  BY <1>0, FrameByteType
<1>2. nibbles[(2 * n) + 1] = Nibble(ch, 0) /\ nibbles[(2 * n) + 2] = Nibble(ch, 1)
  <2>1. nibbles[(2 * n) + 1] = Nib(2 * n) /\ nibbles[((2 * n) + 1) + 1] = Nib((2 * n) + 1)
    <3>1. PICK k \in Nat : k = 2 * n
      BY <1>0
    <3>2. k \in 0 .. (Len(nibbles) - 1) /\ k + 1 \in 0 .. (Len(nibbles) - 1) /\ k + 1 < 2 * FrameBytes
      BY <1>0, <3>1 DEF SentSoFar
    <3> QED BY <1>0, <3>1, <3>2 DEF SentSoFar
  <2>2. (2 * n) \div 2 = n /\ (2 * n) % 2 = 0 /\ ((2 * n) + 1) \div 2 = n /\ ((2 * n) + 1) % 2 = 1
    BY <1>0
  <2>3. ((2 * n) + 1) + 1 = (2 * n) + 2
    BY <1>0
  <2> QED BY <2>1, <2>2, <2>3 DEF Nib
<1>3. Nibble(ch, 0) \in Words(4) /\ Nibble(ch, 1) \in Words(4)
  BY <1>1, NibbleIn
<1>4. Captured(n) \in Words(8)
  BY <1>0, <1>2, <1>3, CapturedIn
<1>5. ASSUME NEW b \in 0 .. 7, NEW t
      PROVE  In(Captured(n), b, t) <=> ~(In(ch, b, t) <=> (flip = <<n, b>> /\ t = One))
  <2>1. In(Captured(n), b, t) <=>
          ~((IF b < 4 THEN In(Nibble(ch, 0), b, t) ELSE In(Nibble(ch, 1), b - 4, t))
             <=> (flip = <<n, b>> /\ t = One))
    BY <1>0, <1>2, <1>3, CapturedIn
  <2>2. b < 4 => (In(Nibble(ch, 0), b, t) <=> In(ch, b, t))
    <3>1. In(Nibble(ch, 0), b, t) <=> b \in 0 .. 3 /\ In(ch, b + (4 * 0), t)
      BY <1>1, NibbleIn
    <3> QED BY <3>1
  <2>3. b >= 4 => (In(Nibble(ch, 1), b - 4, t) <=> In(ch, b, t))
    <3>1. In(Nibble(ch, 1), b - 4, t) <=> b - 4 \in 0 .. 3 /\ In(ch, (b - 4) + (4 * 1), t)
      BY <1>1, NibbleIn
    <3>2. (b - 4) + (4 * 1) = b
      OBVIOUS
    <3> QED BY <3>1, <3>2
  <2> HIDE DEF ch
  <2> QED BY <2>1, <2>2, <2>3
<1>6. CASE flip # NoFlip /\ flip[1] = n
  <2>1. PICK b \in 0 .. 7 : flip = <<n, b>>
    BY <1>6 DEF CrcTypes, Flips
  <2>2. In(Captured(n), b, One) <=> ~In(ch, b, One)
    BY <1>5, <2>1
  <2> QED BY <1>4, <1>6, <2>2
<1>7. CASE ~(flip # NoFlip /\ flip[1] = n)
  <2>1. \A b \in 0 .. 7 : flip # <<n, b>>
    BY <1>0, <1>7, FlipAssumption DEF CrcTypes, Flips
  <2>2. \A b \in 0 .. 7, t \in Term : In(Captured(n), b, t) <=> In(ch, b, t)
    BY <1>5, <2>1
  <2>3. 8 - 1 = 7
    OBVIOUS
  <2> HIDE DEF ch
  <2>4. Captured(n) = ch
    BY <1>1, <1>4, <2>2, <2>3, WordEqual
  <2> QED BY <1>4, <1>7, <2>4 DEF ch
<1> QED BY <1>6, <1>7

\* A byte of the check sequence is the complement of eight bits of the sender's
\* register, but for the damage.
LEMMA CapturedCheck ==
  ASSUME CrcTypes, SentSoFar, spc = "Captured", NEW i \in 0 .. 3
  PROVE  /\ Captured(FrameBytes + i) \in Words(8)
         /\ \A b \in 0 .. 7 : \A t : In(Captured(FrameBytes + i), b, t) <=>
              ~(~(In(scrc, (8 * i) + b, t) <=> t = One) <=> (flip = <<FrameBytes + i, b>> /\ t = One))
<1>0. PICK n \in Nat : n = FrameBytes + i /\ FrameBytes \in Nat
  BY CrcAssumption
<1>1. nibbles[(2 * n) + 1] = Check(2 * i) /\ nibbles[(2 * n) + 2] = Check((2 * i) + 1)
  <2>1. PICK k \in Nat : k = 2 * n
    BY <1>0
  <2>2. /\ k \in 0 .. (Len(nibbles) - 1) /\ k + 1 \in 0 .. (Len(nibbles) - 1)
        /\ k >= 2 * FrameBytes /\ k - (2 * FrameBytes) = 2 * i
        /\ (k + 1) - (2 * FrameBytes) = (2 * i) + 1
    BY <1>0, <2>1 DEF SentSoFar
  <2>3. nibbles[k + 1] = Check(2 * i) /\ nibbles[(k + 1) + 1] = Check((2 * i) + 1)
    <3>1. \A m \in 0 .. (Len(nibbles) - 1) :
            nibbles[m + 1] = IF m < 2 * FrameBytes THEN Nib(m) ELSE Check(m - (2 * FrameBytes))
      BY DEF SentSoFar
    <3>2. nibbles[k + 1] = Check(k - (2 * FrameBytes))
      <4>1. ~(k < 2 * FrameBytes)
        BY <1>0, <2>2
      <4> QED BY <2>2, <3>1, <4>1
    <3>3. PICK m \in Nat : m = k + 1
      OBVIOUS
    <3>4. m \in 0 .. (Len(nibbles) - 1) /\ ~(m < 2 * FrameBytes)
      BY <1>0, <2>2, <3>3
    <3>5. nibbles[m + 1] = Check(m - (2 * FrameBytes))
      BY <3>1, <3>4
    <3> QED BY <2>2, <3>2, <3>3, <3>5
  <2>4. (k + 1) + 1 = (2 * n) + 2
    BY <2>1
  <2> QED BY <2>1, <2>3, <2>4
<1>2. ASSUME NEW k \in 0 .. 7
      PROVE  /\ Check(k) \in Words(4)
             /\ \A b \in 0 .. 3 : \A t : In(Check(k), b, t) <=> ~(In(scrc, b + (4 * k), t) <=> t = One)
  <2>1. Slice(scrc, 4 * k, (4 * k) + 3) \in Words((((4 * k) + 3) - (4 * k)) + 1)
    <3>1. scrc \in Words(32) /\ 4 * k \in Nat /\ (4 * k) + 3 \in Nat /\ 32 \in Nat
      BY DEF CrcTypes
    <3> QED BY <3>1, SliceType
  <2>2. (((4 * k) + 3) - (4 * k)) + 1 = 4
    OBVIOUS
  <2>3. Ones(4) \in Words(4)
    BY OnesType
  <2>4. Check(k) \in Words(4)
    BY <2>1, <2>2, <2>3, XorType DEF Check
  <2>5. ASSUME NEW b \in 0 .. 3, NEW t
        PROVE  In(Check(k), b, t) <=> ~(In(scrc, b + (4 * k), t) <=> t = One)
    <3>1. In(Slice(scrc, 4 * k, (4 * k) + 3), b, t) <=>
            b \in 0 .. (((4 * k) + 3) - (4 * k)) /\ In(scrc, b + (4 * k), t)
      BY SliceBit DEF CrcTypes
    <3>2. In(Ones(4), b, t) <=> t = One
      BY OnesType
    <3>3. In(Check(k), b, t) <=> ~(In(Slice(scrc, 4 * k, (4 * k) + 3), b, t) <=> In(Ones(4), b, t))
      BY XorIn DEF Check
    <3> QED BY <3>1, <3>2, <3>3
  <2> QED BY <2>4, <2>5
<1>3. 2 * i \in 0 .. 7 /\ (2 * i) + 1 \in 0 .. 7
  OBVIOUS
<1>4. Check(2 * i) \in Words(4) /\ Check((2 * i) + 1) \in Words(4)
  BY <1>2, <1>3
<1>5. Captured(n) \in Words(8)
  BY <1>1, <1>4, CapturedIn
<1>6. ASSUME NEW b \in 0 .. 7, NEW t
      PROVE  In(Captured(n), b, t) <=>
               ~(~(In(scrc, (8 * i) + b, t) <=> t = One) <=> (flip = <<n, b>> /\ t = One))
  <2>1. In(Captured(n), b, t) <=>
          ~((IF b < 4 THEN In(Check(2 * i), b, t) ELSE In(Check((2 * i) + 1), b - 4, t))
             <=> (flip = <<n, b>> /\ t = One))
    BY <1>1, <1>4, CapturedIn
  <2>2. b < 4 => (In(Check(2 * i), b, t) <=> ~(In(scrc, (8 * i) + b, t) <=> t = One))
    <3>1. b + (4 * (2 * i)) = (8 * i) + b
      OBVIOUS
    <3> QED BY <1>2, <1>3, <3>1
  <2>3. b >= 4 => (In(Check((2 * i) + 1), b - 4, t) <=> ~(In(scrc, (8 * i) + b, t) <=> t = One))
    <3>1. (b - 4) + (4 * ((2 * i) + 1)) = (8 * i) + b
      OBVIOUS
    <3> QED BY <1>2, <1>3, <3>1
  <2> QED BY <2>1, <2>2, <2>3
<1> QED BY <1>0, <1>5, <1>6

\* The four last bytes of the buffer, the last one the highest.
LEMMA FcsIn ==
  ASSUME NEW w0 \in Words(8), NEW w1 \in Words(8), NEW w2 \in Words(8), NEW w3 \in Words(8),
         crc_buffer[(frame_sz - 4) + 0] = w0, crc_buffer[(frame_sz - 4) + 1] = w1,
         crc_buffer[(frame_sz - 4) + 2] = w2, crc_buffer[(frame_sz - 4) + 3] = w3
  PROVE  /\ frame_fcs \in Words(32)
         /\ \A b \in 0 .. 7 : \A t : /\ In(frame_fcs, b, t) <=> In(w0, b, t)
                                     /\ In(frame_fcs, 8 + b, t) <=> In(w1, b, t)
                                     /\ In(frame_fcs, 16 + b, t) <=> In(w2, b, t)
                                     /\ In(frame_fcs, 24 + b, t) <=> In(w3, b, t)
<1>1. frame_fcs = Shift(w0, 0) \cup Shift(w1, 8) \cup Shift(w2, 16) \cup Shift(w3, 24)
  <2>1. frame_fcs = UNION {Shift(crc_buffer[(frame_sz - 4) + n], 8 * n) : n \in 0 .. 3}
    BY DEF frame_fcs, Moved, Shift
  <2>2. 0 .. 3 = {0, 1, 2, 3} /\ 8 * 0 = 0 /\ 8 * 1 = 8 /\ 8 * 2 = 16 /\ 8 * 3 = 24
    OBVIOUS
  <2>3. frame_fcs = UNION {Shift(crc_buffer[(frame_sz - 4) + n], 8 * n) : n \in {0, 1, 2, 3}}
    BY <2>1, <2>2
  <2> QED BY <2>2, <2>3
<1>2. /\ Shift(w0, 0) \in Words(32) /\ Shift(w1, 8) \in Words(32)
      /\ Shift(w2, 16) \in Words(32) /\ Shift(w3, 24) \in Words(32)
  BY DEF Shift, Words
<1>3. frame_fcs \in Words(32)
  BY <1>1, <1>2 DEF Words
<1>4. ASSUME NEW n \in Int, NEW t
      PROVE  In(frame_fcs, n, t) <=> \/ In(w0, n, t) \/ In(w1, n - 8, t)
                                     \/ In(w2, n - 16, t) \/ In(w3, n - 24, t)
  <2>1. In(frame_fcs, n, t) <=> \/ In(Shift(w0, 0), n, t) \/ In(Shift(w1, 8), n, t)
                                \/ In(Shift(w2, 16), n, t) \/ In(Shift(w3, 24), n, t)
    BY <1>1 DEF In
  <2>2. In(Shift(w0, 0), n, t) <=> In(w0, n - 0, t)
    BY ShiftIn
  <2>3. n - 0 = n
    OBVIOUS
  <2>4. /\ In(Shift(w1, 8), n, t) <=> In(w1, n - 8, t)
        /\ In(Shift(w2, 16), n, t) <=> In(w2, n - 16, t)
        /\ In(Shift(w3, 24), n, t) <=> In(w3, n - 24, t)
    BY ShiftIn
  <2> QED BY <2>1, <2>2, <2>3, <2>4
<1>5. ASSUME NEW b \in 0 .. 7, NEW t
      PROVE  /\ In(frame_fcs, b, t) <=> In(w0, b, t)
             /\ In(frame_fcs, 8 + b, t) <=> In(w1, b, t)
             /\ In(frame_fcs, 16 + b, t) <=> In(w2, b, t)
             /\ In(frame_fcs, 24 + b, t) <=> In(w3, b, t)
  <2>1. \A n \in Int : ~(n \in 0 .. 7) => ~In(w0, n, t) /\ ~In(w1, n, t) /\ ~In(w2, n, t) /\ ~In(w3, n, t)
    BY InBits
  <2> QED BY <1>4, <2>1
<1> QED BY <1>3, <1>5

LEMMA CrcIn ==
  ASSUME NEW w \in Words(32)
  PROVE  /\ cm_crc(w) \in Words(32)
         /\ \A n \in 0 .. 31 : \A t : In(cm_crc(w), n, t) <=> ~(t = One <=> In(w, 31 - n, t))
<1>1. reflect(w, 32) = Turn(w, 31)
  BY DEF reflect, Moved, Turn, Words
<1>2. Turn(w, 31) \in Words(32)
  BY DEF Turn, Words
<1>3. cm_crc(w) = Ones(32) ++ Turn(w, 31)
  BY <1>1 DEF cm_crc
<1>4. ASSUME NEW n \in 0 .. 31, NEW t
      PROVE  In(cm_crc(w), n, t) <=> ~(t = One <=> In(w, 31 - n, t))
  <2>1. In(Ones(32), n, t) <=> t = One
    BY OnesType
  <2>2. In(Turn(w, 31), n, t) <=> In(w, 31 - n, t)
    BY TurnIn
  <2> QED BY <1>3, <2>1, <2>2, XorIn
<1> QED BY <1>2, <1>3, <1>4, OnesType, XorType

LEMMA CrcDiffers ==
  ASSUME NEW v \in Words(32), NEW w \in Words(32), v # w
  PROVE  cm_crc(v) # cm_crc(w)
<1>1. PICK n \in 0 .. 31, t \in Term : ~(In(v, n, t) <=> In(w, n, t))
  BY Differ
<1>2. PICK m \in 0 .. 31 : m = 31 - n
  OBVIOUS
<1>3. 31 - m = n
  BY <1>2
<1>4. ~(In(cm_crc(v), m, t) <=> In(cm_crc(w), m, t))
  BY <1>1, <1>3, CrcIn
<1> QED BY <1>4

\* The damaged bit is in one byte only, before the check sequence or in it.
LEMMA Verdict ==
  ASSUME CrcTypes, SentSoFar, Reading, spc = "Captured", mpc = "scan", judged = << >>,
         file_ret = EOF, j = FrameBytes, NEW R, Registers(R)
  PROVE  cm_crc(cm_reg) = frame_fcs <=> flip = NoFlip
<1> DEFINE w == Turn(scrc, 31)
           hurt(i, b) == flip = <<FrameBytes + i, b>>
<1>0. FrameBytes \in Nat /\ FrameBytes >= 1
  BY CrcAssumption
<1>1. w \in Words(32) /\ scrc \in Words(32) /\ cm_reg \in Words(32) /\ 32 \in Nat
  <2>1. scrc \in Words(32)
    BY DEF CrcTypes
  <2>2. 32 - 1 = 31 /\ 32 \in Nat
    OBVIOUS
  <2>3. w \in Words(32)
    BY <2>1, <2>2, TurnTwice
  <2> QED BY <2>1, <2>2, <2>3 DEF Reading
<1>2. cm_reg = w <=> ~Damaged(FrameBytes)
  BY DEF Registers
<1>3. /\ frame_fcs \in Words(32)
      /\ \A i \in 0 .. 3, b \in 0 .. 7 : \A t : In(frame_fcs, (8 * i) + b, t) <=>
           ~(~(In(scrc, (8 * i) + b, t) <=> t = One) <=> (hurt(i, b) /\ t = One))
  <2> DEFINE c(i) == Captured(FrameBytes + i)
  <2>1. frame_sz = FrameBytes + 4
    BY DEF Reading
  <2>2. ASSUME NEW i \in 0 .. 3
        PROVE  crc_buffer[(frame_sz - 4) + i] = c(i)
    <3>1. FrameBytes + i \in 0 .. (frame_sz - 1) /\ (frame_sz - 4) + i = FrameBytes + i
      BY <1>0, <2>1
    <3> QED BY <3>1 DEF Reading
  <2>3. \A i \in 0 .. 3 : c(i) \in Words(8)
    BY CapturedCheck
  <2>4. c(0) \in Words(8) /\ c(1) \in Words(8) /\ c(2) \in Words(8) /\ c(3) \in Words(8)
    BY <2>3
  <2>5. /\ crc_buffer[(frame_sz - 4) + 0] = c(0) /\ crc_buffer[(frame_sz - 4) + 1] = c(1)
        /\ crc_buffer[(frame_sz - 4) + 2] = c(2) /\ crc_buffer[(frame_sz - 4) + 3] = c(3)
    BY <2>2
  <2>6. \A i \in 0 .. 3, b \in 0 .. 7 : \A t : In(c(i), b, t) <=>
           ~(~(In(scrc, (8 * i) + b, t) <=> t = One) <=> (hurt(i, b) /\ t = One))
    BY CapturedCheck
  <2> HIDE DEF c, hurt
  <2>7. /\ frame_fcs \in Words(32)
        /\ \A b \in 0 .. 7 : \A t : /\ In(frame_fcs, b, t) <=> In(c(0), b, t)
                                    /\ In(frame_fcs, 8 + b, t) <=> In(c(1), b, t)
                                    /\ In(frame_fcs, 16 + b, t) <=> In(c(2), b, t)
                                    /\ In(frame_fcs, 24 + b, t) <=> In(c(3), b, t)
    BY <2>4, <2>5, FcsIn
  <2>8. ASSUME NEW i \in 0 .. 3, NEW b \in 0 .. 7, NEW t
        PROVE  In(frame_fcs, (8 * i) + b, t) <=> In(c(i), b, t)
    <3>1. /\ (8 * 0) + b = b /\ (8 * 1) + b = 8 + b
          /\ (8 * 2) + b = 16 + b /\ (8 * 3) + b = 24 + b
      OBVIOUS
    <3>2. i = 0 \/ i = 1 \/ i = 2 \/ i = 3
      OBVIOUS
    <3> QED BY <2>7, <3>1, <3>2
  <2> QED BY <2>6, <2>7, <2>8
<1>4. ASSUME NEW n \in 0 .. 31, NEW t
      PROVE  In(cm_crc(w), n, t) <=> ~(In(scrc, n, t) <=> t = One)
  <2>1. In(cm_crc(w), n, t) <=> ~(t = One <=> In(w, 31 - n, t))
    BY <1>1, CrcIn
  <2>2. In(w, 31 - n, t) <=> In(scrc, 31 - (31 - n), t)
    BY <1>1, TurnIn
  <2>3. 31 - (31 - n) = n
    OBVIOUS
  <2> QED BY <2>1, <2>2, <2>3
<1>5. cm_crc(w) \in Words(32)
  BY <1>1, CrcIn
<1>6. ASSUME \A i \in 0 .. 3, b \in 0 .. 7 : ~hurt(i, b)
      PROVE  frame_fcs = cm_crc(w)
  <2>1. ASSUME NEW n \in 0 .. 31, NEW t \in Term
        PROVE  In(frame_fcs, n, t) <=> In(cm_crc(w), n, t)
    <3>1. PICK i \in 0 .. 3, b \in 0 .. 7 : n = (8 * i) + b
      <4>1. n \div 8 \in 0 .. 3 /\ n % 8 \in 0 .. 7 /\ n = (8 * (n \div 8)) + (n % 8)
        OBVIOUS
      <4> QED BY <4>1
    <3> HIDE DEF hurt, w
    <3> QED BY <1>3, <1>4, <1>6, <3>1
  <2> HIDE DEF w
  <2>2. 32 - 1 = 31
    OBVIOUS
  <2> QED BY <1>1, <1>3, <1>5, <2>1, <2>2, WordEqual
<1>7. CASE flip = NoFlip
  <2>1. \A i \in 0 .. 3, b \in 0 .. 7 : ~hurt(i, b)
    BY <1>0, <1>7, FlipAssumption
  <2> QED BY <1>2, <1>6, <1>7, <2>1 DEF Damaged
<1>8. CASE flip # NoFlip /\ flip[1] < FrameBytes
  <2>1. \A i \in 0 .. 3, b \in 0 .. 7 : ~hurt(i, b)
    BY <1>0, <1>8
  <2>2. cm_reg # w
    BY <1>2, <1>8 DEF Damaged
  <2>3. cm_crc(cm_reg) # cm_crc(w)
    BY <1>1, <2>2, CrcDiffers
  <2> QED BY <1>6, <1>8, <2>1, <2>3
<1>9. CASE flip # NoFlip /\ ~(flip[1] < FrameBytes)
  <2>1. PICK i \in 0 .. 3, b \in 0 .. 7 : hurt(i, b)
    <3>1. PICK n \in 0 .. (FrameBytes + 3), b \in 0 .. 7 : flip = <<n, b>>
      BY <1>9 DEF CrcTypes, Flips
    <3>2. n >= FrameBytes
      BY <1>0, <1>9, <3>1
    <3>3. n - FrameBytes \in 0 .. 3 /\ FrameBytes + (n - FrameBytes) = n
      BY <1>0, <3>2
    <3> QED BY <3>1, <3>3
  <2>2. PICK n \in 0 .. 31 : n = (8 * i) + b
    OBVIOUS
  <2> HIDE DEF hurt
  <2>3. In(frame_fcs, n, One) <=> In(scrc, n, One)
    BY <1>3, <2>1, <2>2
  <2>4. In(cm_crc(w), n, One) <=> ~In(scrc, n, One)
    BY <1>4
  <2>5. cm_reg = w
    BY <1>2, <1>9 DEF Damaged
  <2> QED BY <1>9, <2>3, <2>4, <2>5
<1> QED BY <1>7, <1>8, <1>9

-------------------------------------------------------------------------------
(* Each step keeps the invariant.                                            *)

LEMMA CrcInitInd == CrcInit => CrcInd
<1> SUFFICES ASSUME CrcInit
             PROVE  CrcInd
  OBVIOUS
<1>0. FrameBytes \in Nat /\ FrameBytes >= 1
  BY CrcAssumption
<1>1. Ones(32) \in Words(32) /\ {} \in Words(8)
  BY OnesType DEF Words
<1>2. Turn(Ones(32), 31) = Ones(32)
  <2>1. Turn(Ones(32), 31) \in Words(32)
    BY <1>1 DEF Turn, Words
  <2>2. ASSUME NEW n \in 0 .. 31, NEW t \in Term
        PROVE  In(Turn(Ones(32), 31), n, t) <=> In(Ones(32), n, t)
    <3>1. In(Turn(Ones(32), 31), n, t) <=> In(Ones(32), 31 - n, t)
      BY <1>1, TurnIn
    <3>2. 31 - n \in 0 .. (32 - 1) /\ n \in 0 .. (32 - 1)
      OBVIOUS
    <3> QED BY <3>1, <3>2, OnesType
  <2>3. 32 - 1 = 31
    OBVIOUS
  <2> QED BY <1>1, <2>1, <2>2, <2>3, WordEqual
<1>3. CrcTypes
  BY <1>0, <1>1 DEF CrcInit, CrcTypes, Flips, Buffer
<1>4. SentSoFar
  BY <1>0 DEF CrcInit, SentSoFar
<1>5. Reading
  BY DEF CrcInit, Reading
<1>6. Registers([k \in 0 .. 0 |-> Ones(32)])
  BY <1>1, <1>2 DEF CrcInit, Registers, Chain
<1>7. FramesMatch
  BY DEF CrcInit, FramesMatch
<1> QED BY <1>3, <1>4, <1>5, <1>6, <1>7 DEF CrcInd

\* A nibble of the frame.
LEMMA SendNibbleInd == CrcInd /\ SendNibble => CrcInd'
<1> SUFFICES ASSUME CrcInd, SendNibble
             PROVE  CrcInd'
  OBVIOUS
<1> DEFINE m == Len(nibbles)
           x == Nib(m)
<1>0. FrameBytes \in Nat /\ FrameBytes >= 1
  BY CrcAssumption
<1>1. CrcTypes /\ SentSoFar /\ spc = "Frame"
  BY DEF CrcInd, SendNibble
<1>2. m \in Nat /\ m < 2 * FrameBytes /\ scrc \in Words(32) /\ x \in Words(4)
  BY <1>1, NibType DEF CrcTypes, SentSoFar
<1>3. /\ nibbles' = Append(nibbles, x)
      /\ scrc' = Left(nextCRC32_D4(Left(x, 4), Left(scrc, 32)), 32)
      /\ spc' = IF m + 1 = 2 * FrameBytes THEN "FrameCheck" ELSE "Frame"
      /\ UNCHANGED <<flip, checker>>
  BY DEF SendNibble, Nib
<1>4. Turn(scrc, 31) \in Words(32)
  <2>1. 32 - 1 = 31 /\ 32 \in Nat
    OBVIOUS
  <2> HIDE DEF x
  <2> QED BY <1>2, <2>1, TurnTwice
<1>5. After(Turn(scrc, 31), x) \in Words(32)
  BY <1>2, <1>4, AfterType
<1>6. scrc' = Turn(After(Turn(scrc, 31), x), 31)
  <2>1. \A w : Left(w, 32) = Turn(w, 31)
    BY DEF Left, Moved, Turn
  <2>2. nextCRC32_D4(Left(x, 4), Turn(scrc, 31)) = After(Turn(scrc, 31), x)
    BY <1>2, <1>4, NextIsAfter
  <2> HIDE DEF x
  <2> QED BY <1>3, <2>1, <2>2
<1>7. scrc' \in Words(32) /\ Turn(scrc', 31) = After(Turn(scrc, 31), x)
  <2>1. 32 - 1 = 31 /\ 32 \in Nat
    OBVIOUS
  <2> HIDE DEF x
  <2> QED BY <1>5, <1>6, <2>1, TurnTwice
<1>8. Len(nibbles') = m + 1 /\ nibbles' \in Seq(Words(4))
  <2> HIDE DEF x
  <2> QED BY <1>1, <1>2, <1>3 DEF CrcTypes
<1>9. CrcTypes'
  BY <1>1, <1>3, <1>7, <1>8 DEF CrcTypes, checker
<1>10. SentSoFar'
  <2>1. ASSUME NEW k \in 0 .. m
        PROVE  nibbles'[k + 1] = Nib(k)
    <3>1. CASE k = m
      BY <1>1, <1>2, <1>3, <3>1 DEF CrcTypes
    <3>2. CASE k # m
      <4>1. k \in 0 .. (Len(nibbles) - 1) /\ k < 2 * FrameBytes
        BY <1>0, <1>2, <3>2
      <4>2. nibbles[k + 1] = Nib(k)
        BY <1>1, <4>1 DEF SentSoFar
      <4>3. nibbles'[k + 1] = nibbles[k + 1]
        <5> HIDE DEF x
        <5> QED BY <1>1, <1>3, <4>1 DEF CrcTypes
      <4> QED BY <4>2, <4>3
    <3> QED BY <3>1, <3>2
  <2>2. ASSUME NEW k \in 0 .. (Len(nibbles') - 1)
        PROVE  k \in 0 .. m /\ k < 2 * FrameBytes
    BY <1>0, <1>2, <1>8
  <2>3. /\ spc' = "Frame" => Len(nibbles') < 2 * FrameBytes
        /\ spc' = "FrameCheck" => Len(nibbles') \in (2 * FrameBytes) .. ((2 * FrameBytes) + 7)
        /\ spc' \in {"Frame", "FrameCheck"}
    BY <1>0, <1>2, <1>3, <1>8
  <2>4. flip' = NoFlip /\ mpc' = "open" /\ judged' = << >>
    BY <1>1, <1>3 DEF SentSoFar, checker
  <2> QED BY <2>1, <2>2, <2>3, <2>4 DEF SentSoFar
<1>11. Reading'
  <2>1. Reading /\ mpc = "open"
    BY <1>1 DEF CrcInd, SentSoFar
  <2> QED BY <1>3, <2>1 DEF Reading, checker
<1>12. \E S : Registers(S)'
  <2>1. PICK R : Registers(R)
    BY DEF CrcInd
  <2>2. Chain(R, m) /\ Turn(scrc, 31) = R[m]
    BY <1>1, <2>1 DEF Registers
  <2> DEFINE S == [k \in 0 .. (m + 1) |-> IF k = m + 1 THEN After(R[m], x) ELSE R[k]]
  <2>3. S \in [0 .. (m + 1) -> Words(32)] /\ S[0] = Ones(32) /\ S[m + 1] = After(R[m], x)
    <3> HIDE DEF x
    <3> QED BY <1>2, <1>5, <2>2 DEF Chain
  <2>4. ASSUME NEW k \in 0 .. m
        PROVE  S[k + 1] = After(S[k], Nib(k))
    <3>1. CASE k = m
      BY <1>2, <3>1
    <3>2. CASE k # m
      <4>1. k \in 0 .. (m - 1)
        BY <1>2, <3>2
      <4>2. S[k + 1] = R[k + 1] /\ S[k] = R[k]
        <5> HIDE DEF x
        <5> QED BY <1>2, <4>1
      <4> QED BY <2>2, <4>1, <4>2 DEF Chain
    <3> QED BY <3>1, <3>2
  <2> HIDE DEF S
  <2>5. Chain(S, m + 1)
    <3>1. (m + 1) - 1 = m
      BY <1>2
    <3> QED BY <2>3, <2>4, <3>1 DEF Chain
  <2>6. Turn(scrc', 31) = S[m + 1]
    BY <1>7, <2>2, <2>3
  <2>7. mpc' = "open"
    BY <1>1, <1>3 DEF SentSoFar, checker
  <2>8. (IF spc' = "Frame" THEN Len(nibbles') ELSE 2 * FrameBytes) = m + 1
    BY <1>3, <1>8
  <2>9. PICK T : T = S
    OBVIOUS
  <2>10. Registers(T)'
    <3> HIDE DEF x
    <3> QED BY <2>5, <2>6, <2>7, <2>8, <2>9 DEF Registers
  <2> QED BY <2>10
<1>13. FramesMatch'
  BY <1>1, <1>3 DEF SentSoFar, FramesMatch, checker
<1> QED BY <1>9, <1>10, <1>11, <1>12, <1>13 DEF CrcInd

\* A nibble of the check sequence.
LEMMA FrameCheckInd == CrcInd /\ FrameCheck => CrcInd'
<1> SUFFICES ASSUME CrcInd, FrameCheck
             PROVE  CrcInd'
  OBVIOUS
<1>0. FrameBytes \in Nat /\ FrameBytes >= 1
  BY CrcAssumption
<1>1. CrcTypes /\ SentSoFar /\ spc = "FrameCheck"
  BY DEF CrcInd, FrameCheck
<1>2. PICK m \in Nat : m = Len(nibbles) /\ m \in (2 * FrameBytes) .. ((2 * FrameBytes) + 7)
  BY <1>1 DEF CrcTypes, SentSoFar
<1>3. PICK i \in 0 .. 7 : i = m - (2 * FrameBytes)
  BY <1>0, <1>2
<1>4. /\ nibbles' = Append(nibbles, Check(i))
      /\ spc' = IF i = 7 THEN "Sent" ELSE "FrameCheck"
      /\ UNCHANGED <<scrc, flip, checker>>
  <2>1. 4 * (Len(nibbles) - (2 * FrameBytes)) = 4 * i /\ (4 * i = 28 <=> i = 7)
    BY <1>2, <1>3
  <2> QED BY <2>1 DEF FrameCheck, Check
<1>5. Check(i) \in Words(4)
  <2>1. scrc \in Words(32) /\ 4 * i \in Nat /\ (4 * i) + 3 \in Nat /\ 32 \in Nat
    BY <1>1 DEF CrcTypes
  <2>2. Slice(scrc, 4 * i, (4 * i) + 3) \in Words((((4 * i) + 3) - (4 * i)) + 1)
    BY <2>1, SliceType
  <2>3. (((4 * i) + 3) - (4 * i)) + 1 = 4
    OBVIOUS
  <2> QED BY <2>2, <2>3, OnesType, XorType DEF Check
<1>6. Len(nibbles') = m + 1 /\ nibbles' \in Seq(Words(4))
  BY <1>1, <1>2, <1>4, <1>5 DEF CrcTypes
<1>7. CrcTypes'
  BY <1>1, <1>4, <1>6 DEF CrcTypes, checker
<1>8. SentSoFar'
  <2>1. ASSUME NEW k \in 0 .. (Len(nibbles') - 1)
        PROVE  nibbles'[k + 1] = IF k < 2 * FrameBytes THEN Nib(k) ELSE Check(k - (2 * FrameBytes))
    <3>1. CASE k = m
      <4>1. nibbles'[k + 1] = Check(i)
        BY <1>1, <1>2, <1>4, <3>1 DEF CrcTypes
      <4>2. ~(k < 2 * FrameBytes) /\ k - (2 * FrameBytes) = i
        BY <1>0, <1>2, <1>3, <3>1
      <4> QED BY <4>1, <4>2
    <3>2. CASE k # m
      <4>1. k \in 0 .. (Len(nibbles) - 1)
        BY <1>2, <1>6, <3>2
      <4>2. nibbles'[k + 1] = nibbles[k + 1]
        BY <1>1, <1>4, <4>1 DEF CrcTypes
      <4> QED BY <1>1, <4>1, <4>2 DEF SentSoFar
    <3> QED BY <3>1, <3>2
  <2>2. \A k : Check(k)' = Check(k)
    BY <1>4 DEF Check
  <2>3. /\ spc' = "FrameCheck" => Len(nibbles') \in (2 * FrameBytes) .. ((2 * FrameBytes) + 7)
        /\ spc' \in {"Sent", "Captured"} => Len(nibbles') = (2 * FrameBytes) + 8
        /\ spc' \in {"FrameCheck", "Sent"}
    BY <1>0, <1>2, <1>3, <1>4, <1>6
  <2>4. flip' = NoFlip /\ mpc' = "open" /\ judged' = << >>
    BY <1>1, <1>4 DEF SentSoFar, checker
  <2> QED BY <2>1, <2>2, <2>3, <2>4 DEF SentSoFar
<1>9. Reading'
  <2>1. Reading /\ mpc = "open"
    BY <1>1 DEF CrcInd, SentSoFar
  <2> QED BY <1>4, <2>1 DEF Reading, checker
<1>10. \E R : Registers(R)'
  <2>1. PICK R : Registers(R)
    BY DEF CrcInd
  <2>2. Registers(R)'
    BY <1>1, <1>4, <2>1 DEF Registers, SentSoFar, checker
  <2> QED BY <2>2
<1>11. FramesMatch'
  BY <1>1, <1>4 DEF SentSoFar, FramesMatch, checker
<1> QED BY <1>7, <1>8, <1>9, <1>10, <1>11 DEF CrcInd

\* The capture is made before anything is read.
LEMMA CaptureInd == CrcInd /\ Capture => CrcInd'
<1> SUFFICES ASSUME CrcInd, Capture
             PROVE  CrcInd'
  OBVIOUS
<1>1. /\ CrcTypes /\ SentSoFar /\ spc = "Sent" /\ spc' = "Captured" /\ flip' \in Flips
      /\ UNCHANGED <<scrc, nibbles, checker>>
  BY DEF CrcInd, Capture, Flips
<1>2. judged = << >> /\ mpc = "open" /\ Reading
  BY <1>1 DEF CrcInd, SentSoFar
<1>3. CrcTypes'
  BY <1>1 DEF CrcTypes, checker
<1>4. SentSoFar'
  BY <1>1 DEF SentSoFar, Check, checker
<1>5. Reading'
  BY <1>1, <1>2 DEF Reading, checker
<1>6. \E R : Registers(R)'
  <2>1. PICK R : Registers(R)
    BY DEF CrcInd
  <2>2. Registers(R)'
    BY <1>1, <1>2, <2>1 DEF Registers, checker
  <2> QED BY <2>2
<1>7. FramesMatch'
  BY <1>1, <1>2 DEF FramesMatch, checker
<1> QED BY <1>3, <1>4, <1>5, <1>6, <1>7 DEF CrcInd

\* The checker leaves the sender and the capture alone.
LEMMA CheckerKeeps ==
  ASSUME CrcInd, UNCHANGED <<snd, flip>>, spc = "Captured"
  PROVE  /\ SentSoFar' /\ \A n : Captured(n)' = Captured(n)
         /\ \A n : Damaged(n)' = Damaged(n)
         /\ \A R : Registers(R) => /\ Chain(R, 2 * FrameBytes)
                                   /\ (mpc = "scan" /\ judged = << >> => (cm_reg = R[2 * j] <=> ~Damaged(j)))
                                   /\ ((mpc' = "scan" /\ judged' = << >> => (cm_reg' = R[2 * j'] <=> ~Damaged(j'))))
                                        => Registers(R)'
<1>1. SentSoFar'
  BY DEF CrcInd, SentSoFar, Check, snd
<1>2. \A n : Captured(n)' = Captured(n)
  <2>1. nibbles' = nibbles /\ flip' = flip
    BY DEF snd
  <2> QED BY <2>1 DEF Captured, Moved
<1>3. \A n : Damaged(n)' = Damaged(n)
  BY DEF Damaged
<1> QED BY <1>1, <1>2, <1>3 DEF Registers, snd, Damaged

LEMMA OpenInd == CrcInd /\ Open => CrcInd'
<1> SUFFICES ASSUME CrcInd, Open
             PROVE  CrcInd'
  OBVIOUS
<1>0. FrameBytes \in Nat /\ FrameBytes >= 1 /\ {} \in Words(8) /\ Ones(32) \in Words(32)
  BY CrcAssumption, OnesType DEF Words
<1>1. CrcTypes /\ UNCHANGED <<snd, flip>> /\ spc = "Captured"
  BY DEF CrcInd, Open
<1>2. SentSoFar'
  BY <1>1, CheckerKeeps
<1>3. CrcTypes'
  BY <1>0, <1>1 DEF CrcTypes, Open, Buffer, snd
<1>4. judged' = << >> => Reading'
  <2> SUFFICES ASSUME judged' = << >>
               PROVE  Reading'
    OBVIOUS
  <2>1. Reading /\ mpc = "open"
    BY DEF CrcInd, Open
  <2>2. file_ret' = 0 /\ frame_sz' = 0 /\ mpc' = "scan" /\ j' = 0 /\ cm_reg' = Ones(32)
    BY <2>1 DEF Open, Reading
  <2> QED BY <1>0, <2>2 DEF Reading, EOF
<1>5. \E R : Registers(R)'
  <2>1. PICK R : Registers(R)
    BY DEF CrcInd
  <2>2. R[0] = Ones(32)
    BY <2>1, <1>1, CheckerKeeps DEF Chain
  <2>3. cm_reg' = R[2 * j'] /\ ~Damaged(j')
    <3>1. j' = 0 /\ cm_reg' = Ones(32) /\ 2 * 0 = 0
      BY DEF Open
    <3>2. ~Damaged(0)
      BY <1>1 DEF Damaged, CrcTypes, Flips
    <3> QED BY <2>2, <3>1, <3>2
  <2>4. Registers(R)'
    BY <1>1, <2>1, <2>3, CheckerKeeps
  <2> QED BY <2>4
<1>6. FramesMatch'
  BY DEF CrcInd, FramesMatch, Open
<1> QED BY <1>2, <1>3, <1>4, <1>5, <1>6 DEF CrcInd

\* A byte is read.
LEMMA ScanInd == CrcInd /\ Scan => CrcInd'
<1> SUFFICES ASSUME CrcInd, Scan
             PROVE  CrcInd'
  OBVIOUS
<1>0. FrameBytes \in Nat /\ FrameBytes >= 1
  BY CrcAssumption
<1>1. CrcTypes /\ SentSoFar /\ UNCHANGED <<snd, flip, mpc, j, cm_reg, judged>>
  BY DEF CrcInd, Scan
<1>2. mpc = "scan" /\ file_ret # EOF /\ spc = "Captured"
  BY DEF CrcInd, Scan, SentSoFar
<1>3. SentSoFar' /\ (\A n : Captured(n)' = Captured(n))
  BY <1>1, <1>2, CheckerKeeps
<1>4. \A n \in 0 .. (FrameBytes + 3) : Captured(n) \in Words(8)
  <2> SUFFICES ASSUME NEW n \in 0 .. (FrameBytes + 3)
               PROVE  Captured(n) \in Words(8)
    OBVIOUS
  <2>1. CASE n < FrameBytes
    <3>1. n \in 0 .. (FrameBytes - 1)
      BY <1>0, <2>1
    <3> QED BY <1>1, <1>2, <3>1, CapturedByte
  <2>2. CASE ~(n < FrameBytes)
    <3>1. PICK i \in 0 .. 3 : n = FrameBytes + i
      <4>1. n - FrameBytes \in 0 .. 3 /\ n = FrameBytes + (n - FrameBytes)
        BY <1>0, <2>2
      <4> QED BY <4>1
    <3> QED BY <1>1, <1>2, <3>1, CapturedCheck
  <2> QED BY <2>1, <2>2
<1>5. ASSUME frame_sz < FrameBytes + 4
      PROVE  CrcTypes' /\ (judged' = << >> => Reading')
  <2>1. /\ crc_buffer' = [crc_buffer EXCEPT ![frame_sz] = Captured(frame_sz)]
        /\ frame_sz' = frame_sz + 1 /\ file_ret' = 1
    BY <1>5 DEF Scan
  <2>2. PICK z \in 0 .. (FrameBytes + 3) : z = frame_sz
    BY <1>0, <1>1, <1>5 DEF CrcTypes
  <2>3. /\ crc_buffer' \in [0 .. (FrameBytes + 3) -> Words(8)]
        /\ crc_buffer'[z] = Captured(z)
        /\ \A n \in 0 .. (z - 1) : crc_buffer'[n] = crc_buffer[n]
    BY <1>0, <1>1, <1>4, <2>1, <2>2 DEF CrcTypes
  <2>4. CrcTypes'
    BY <1>0, <1>1, <2>1, <2>2, <2>3 DEF CrcTypes, snd
  <2>5. judged' = << >> => Reading'
    <3> SUFFICES ASSUME judged' = << >>
                 PROVE  Reading'
      OBVIOUS
    <3>1. Reading
      BY <1>1 DEF CrcInd
    <3>2. ASSUME NEW n \in 0 .. (frame_sz' - 1)
          PROVE  crc_buffer'[n] = Captured(n)
      <4>1. CASE n = z
        BY <2>3, <4>1
      <4>2. CASE n # z
        <5>1. n \in 0 .. (z - 1)
          BY <2>1, <2>2, <4>2
        <5>2. crc_buffer[n] = Captured(n)
          BY <1>2, <2>2, <3>1, <5>1 DEF Reading
        <5> QED BY <2>3, <5>1, <5>2
      <4> QED BY <4>1, <4>2
    <3>3. j = 0 /\ cm_reg = Ones(32) /\ j <= FrameBytes /\ cm_reg \in Words(32)
      BY <1>2, <3>1 DEF Reading
    <3>4. file_ret' # EOF /\ mpc' = "scan"
      BY <1>1, <1>2, <2>1 DEF EOF
    <3> QED BY <1>1, <1>3, <3>2, <3>3, <3>4 DEF Reading
  <2> QED BY <2>4, <2>5
<1>6. ASSUME ~(frame_sz < FrameBytes + 4)
      PROVE  CrcTypes' /\ (judged' = << >> => Reading')
  <2>1. file_ret' = EOF /\ UNCHANGED <<crc_buffer, frame_sz>>
    BY <1>6 DEF Scan
  <2>2. frame_sz = FrameBytes + 4
    BY <1>0, <1>1, <1>6 DEF CrcTypes
  <2>3. CrcTypes'
    BY <1>1, <2>1 DEF CrcTypes, snd
  <2>4. judged' = << >> => Reading'
    <3> SUFFICES ASSUME judged' = << >>
                 PROVE  Reading'
      OBVIOUS
    <3>1. Reading
      BY <1>1 DEF CrcInd
    <3> QED BY <1>1, <1>2, <1>3, <2>1, <2>2, <3>1 DEF Reading
  <2> QED BY <2>3, <2>4
<1>7. CrcTypes' /\ (judged' = << >> => Reading')
  BY <1>5, <1>6
<1>8. \E R : Registers(R)'
  <2>1. PICK R : Registers(R)
    BY DEF CrcInd
  <2>2. Registers(R)'
    BY <1>1, <1>2, <2>1, CheckerKeeps
  <2> QED BY <2>2
<1>9. FramesMatch'
  BY <1>1 DEF CrcInd, FramesMatch
<1> QED BY <1>3, <1>7, <1>8, <1>9 DEF CrcInd

\* A byte goes through the register.
LEMMA StepInd == CrcInd /\ Step => CrcInd'
<1> SUFFICES ASSUME CrcInd, Step
             PROVE  CrcInd'
  OBVIOUS
<1>0. FrameBytes \in Nat /\ FrameBytes >= 1 /\ FrameBytes <= 255
  BY CrcAssumption
<1>1. /\ CrcTypes /\ SentSoFar /\ UNCHANGED <<snd, flip, mpc, file_ret, frame_sz, crc_buffer, judged>>
      /\ mpc = "scan" /\ file_ret = EOF /\ spc = "Captured"
      /\ j < frame_sz - 4 /\ j' = (j + 1) % 256 /\ cm_reg' = cm_nxt(cm_reg, crc_buffer[j])
  BY DEF CrcInd, Step, SentSoFar
<1>2. SentSoFar' /\ (\A n : Captured(n)' = Captured(n)) /\ (\A n : Damaged(n)' = Damaged(n))
  BY <1>1, CheckerKeeps
<1>3. CrcTypes'
  <2>1. j' \in 0 .. 255
    BY <1>1 DEF CrcTypes
  <2> QED BY <1>1, <2>1 DEF CrcTypes, snd
<1>4. PICK R : Registers(R)
  BY DEF CrcInd
<1>5. ASSUME judged = << >>
      PROVE  (judged' = << >> => Reading') /\ \E S : Registers(S)'
  <2>1. Reading
    BY <1>5 DEF CrcInd
  <2>2. PICK n \in 0 .. (FrameBytes - 1) : n = j
    BY <1>0, <1>1, <2>1 DEF Reading, CrcTypes
  <2>3. /\ crc_buffer[n] = Captured(n) /\ j' = n + 1 /\ cm_reg \in Words(32)
        /\ frame_sz = FrameBytes + 4
    BY <1>0, <1>1, <2>1, <2>2 DEF Reading
  <2>4. /\ Captured(n) \in Words(8) /\ FrameByte(n) \in Words(8)
        /\ Captured(n) = FrameByte(n) <=> ~(flip # NoFlip /\ flip[1] = n)
    BY <1>0, <1>1, CapturedByte, FrameByteType
  <2>5. cm_reg' = cm_nxt(cm_reg, Captured(n))
    BY <1>1, <2>2, <2>3
  <2>6. Chain(R, 2 * FrameBytes) /\ (cm_reg = R[2 * n] <=> ~Damaged(n))
    BY <1>1, <1>4, <1>5, <2>2, CheckerKeeps
  <2>7. R[2 * n] \in Words(32) /\ R[2 * (n + 1)] = cm_nxt(R[2 * n], FrameByte(n))
    <3>1. PICK k \in Nat : k = 2 * n
      BY <1>0
    <3>2. /\ k \in 0 .. ((2 * FrameBytes) - 1) /\ k + 1 \in 0 .. ((2 * FrameBytes) - 1)
          /\ k \in 0 .. (2 * FrameBytes) /\ 2 * (n + 1) = (k + 1) + 1
      BY <1>0, <3>1
    <3>3. R[k] \in Words(32)
      BY <2>6, <3>2 DEF Chain
    <3>4. R[k + 1] = After(R[k], Nib(k)) /\ R[(k + 1) + 1] = After(R[k + 1], Nib(k + 1))
      BY <2>6, <3>2 DEF Chain
    <3>5. k \div 2 = n /\ k % 2 = 0 /\ (k + 1) \div 2 = n /\ (k + 1) % 2 = 1
      BY <3>1
    <3>6. Nib(k) = Nibble(FrameByte(n), 0) /\ Nib(k + 1) = Nibble(FrameByte(n), 1)
      BY <3>5 DEF Nib
    <3>7. cm_nxt(R[k], FrameByte(n))
            = After(After(R[k], Nibble(FrameByte(n), 0)), Nibble(FrameByte(n), 1))
      BY <2>4, <3>3, NxtIsAfter
    <3> QED BY <3>1, <3>2, <3>3, <3>4, <3>6, <3>7
  <2>8. cm_reg' \in Words(32)
    <3>1. cm_nxt(cm_reg, Captured(n)) = Four(Four(cm_reg ++ Entered8(Captured(n))))
      BY <2>4, NxtIsEight
    <3>2. cm_reg ++ Entered8(Captured(n)) \in Words(32)
      BY <2>3, <2>4, Entered8In, XorType
    <3> QED BY <2>5, <3>1, <3>2, FourType
  <2>9. Damaged(n + 1) <=> Damaged(n) \/ (flip # NoFlip /\ flip[1] = n)
    <3>1. flip # NoFlip => flip[1] \in Nat
      BY <1>0, <1>1 DEF CrcTypes, Flips
    <3> QED BY <1>0, <3>1 DEF Damaged
  <2>10. ~(Damaged(n) /\ (flip # NoFlip /\ flip[1] = n))
    BY <1>0 DEF Damaged
  <2>11. cm_reg' = R[2 * (n + 1)] <=> ~Damaged(n + 1)
    <3>1. CASE Damaged(n)
      <4>1. cm_reg # R[2 * n] /\ Captured(n) = FrameByte(n)
        BY <2>4, <2>6, <2>10, <3>1
      <4>2. cm_nxt(cm_reg, Captured(n)) # cm_nxt(R[2 * n], FrameByte(n))
        BY <2>3, <2>4, <2>7, <4>1, NxtDiffers
      <4> QED BY <2>5, <2>7, <2>9, <3>1, <4>2
    <3>2. CASE flip # NoFlip /\ flip[1] = n
      <4>1. cm_reg = R[2 * n] /\ Captured(n) # FrameByte(n)
        BY <2>4, <2>6, <2>10, <3>2
      <4>2. cm_nxt(cm_reg, Captured(n)) # cm_nxt(R[2 * n], FrameByte(n))
        BY <2>3, <2>4, <2>7, <4>1, NxtDiffers
      <4> QED BY <2>5, <2>7, <2>9, <3>2, <4>2
    <3>3. CASE ~Damaged(n) /\ ~(flip # NoFlip /\ flip[1] = n)
      BY <2>4, <2>5, <2>6, <2>7, <2>9, <3>3
    <3> QED BY <3>1, <3>2, <3>3
  <2>12. Reading'
    <3>1. j' <= FrameBytes
      BY <1>0, <2>3
    <3> QED BY <1>1, <1>2, <2>1, <2>3, <2>8, <3>1 DEF Reading
  <2>13. Registers(R)'
    <3>1. cm_reg' = R[2 * j'] <=> ~Damaged(j')
      BY <2>3, <2>11
    <3> QED BY <1>1, <1>4, <3>1, CheckerKeeps
  <2> QED BY <2>12, <2>13
<1>6. ASSUME judged # << >>
      PROVE  (judged' = << >> => Reading') /\ \E S : Registers(S)'
  <2>1. judged' # << >>
    BY <1>1, <1>6
  <2>2. Registers(R)'
    BY <1>1, <1>4, <2>1, CheckerKeeps
  <2> QED BY <2>1, <2>2
<1>7. FramesMatch'
  BY <1>1 DEF CrcInd, FramesMatch
<1>8. (judged' = << >> => Reading') /\ \E S : Registers(S)'
  BY <1>5, <1>6
<1> QED BY <1>2, <1>3, <1>7, <1>8 DEF CrcInd

\* The verdict.
LEMMA CompareInd == CrcInd /\ Compare => CrcInd'
<1> SUFFICES ASSUME CrcInd, Compare
             PROVE  CrcInd'
  OBVIOUS
<1>0. FrameBytes \in Nat /\ FrameBytes >= 1
  BY CrcAssumption
<1> DEFINE matched == cm_crc(cm_reg) = frame_fcs
<1>1. /\ CrcTypes /\ SentSoFar /\ UNCHANGED <<snd, flip, file_ret, frame_sz, crc_buffer, j, cm_reg>>
      /\ mpc = "scan" /\ file_ret = EOF /\ spc = "Captured"
      /\ j >= frame_sz - 4 /\ mpc' = "open" /\ judged' = Append(judged, matched)
  BY DEF CrcInd, Compare, SentSoFar
<1>2. SentSoFar'
  BY <1>1, CheckerKeeps
<1>3. judged \in Seq(BOOLEAN) /\ matched \in BOOLEAN
  BY <1>1 DEF CrcTypes
<1>4. PICK v \in BOOLEAN : v = matched
  BY <1>3
<1> HIDE DEF matched
<1>5. /\ judged' # << >> /\ judged' \in Seq(BOOLEAN)
      /\ judged = << >> => judged'[1] = v
      /\ judged # << >> => judged'[1] = judged[1]
  BY <1>1, <1>3, <1>4
<1>6. CrcTypes'
  BY <1>1, <1>5 DEF CrcTypes, snd
<1>7. PICK R : Registers(R)
  BY DEF CrcInd
<1>8. Registers(R)'
  BY <1>1, <1>7, CheckerKeeps
<1>9. FramesMatch'
  <2>1. CASE judged = << >>
    <3>1. Reading
      BY <2>1 DEF CrcInd
    <3>2. j = FrameBytes
      BY <1>0, <1>1, <3>1 DEF Reading, CrcTypes
    <3>3. v <=> flip = NoFlip
      BY <1>1, <1>4, <1>7, <2>1, <3>1, <3>2, Verdict DEF matched
    <3> QED BY <1>1, <1>5, <2>1, <3>3 DEF FramesMatch
  <2>2. CASE judged # << >>
    BY <1>1, <1>5, <2>2 DEF CrcInd, FramesMatch
  <2> QED BY <2>1, <2>2
<1> QED BY <1>2, <1>5, <1>6, <1>8, <1>9 DEF CrcInd

LEMMA CrcStutterInd == CrcInd /\ UNCHANGED crcvars => CrcInd'
<1> SUFFICES ASSUME CrcInd, UNCHANGED crcvars
             PROVE  CrcInd'
  OBVIOUS
<1>1. UNCHANGED snd /\ UNCHANGED flip /\ UNCHANGED checker
  BY DEF crcvars
<1>2. CrcTypes'
  BY <1>1 DEF CrcInd, CrcTypes, snd, checker
<1>3. SentSoFar'
  BY <1>1 DEF CrcInd, SentSoFar, Check, snd, checker
<1>4. \A n : Captured(n)' = Captured(n)
  <2>1. nibbles' = nibbles /\ flip' = flip
    BY <1>1 DEF snd
  <2> QED BY <2>1 DEF Captured, Moved
<1>5. judged' = << >> => Reading'
  BY <1>1, <1>4 DEF CrcInd, Reading, checker
<1>6. \E R : Registers(R)'
  <2>1. PICK R : Registers(R)
    BY DEF CrcInd
  <2>2. Registers(R)'
    BY <1>1, <2>1 DEF Registers, Damaged, snd, checker
  <2> QED BY <2>2
<1>7. FramesMatch'
  BY <1>1 DEF CrcInd, FramesMatch, checker
<1> QED BY <1>2, <1>3, <1>5, <1>6, <1>7 DEF CrcInd

\* Sender and checker go through the same registers, for every frame of up to 255
\* bytes, until the checker meets the damaged bit, and never after it.
THEOREM CrcInvariance == CrcSpec => []CrcInd
<1>1. CrcInd /\ [CrcNext]_crcvars => CrcInd'
  BY SendNibbleInd, FrameCheckInd, CaptureInd, OpenInd, ScanInd, StepInd, CompareInd,
     CrcStutterInd DEF CrcNext
<1> QED BY <1>1, CrcInitInd, PTL DEF CrcSpec

\* crc32-checker.c finds every frame mac_snd.vhd sends matched, whatever its bytes, and
\* every frame with one damaged bit not matched.
THEOREM FramesAreMatched == CrcSpec => []FramesMatch
<1>1. CrcInd => FramesMatch
  BY DEF CrcInd
<1> QED BY <1>1, CrcInvariance, PTL
================================================================================
