--------------------------- MODULE AdminCodecProofs ---------------------------
(***************************************************************************)
(* The codec of AdminCodec carries every bit of every configuration: the   *)
(* writer implements AdminStream, the reader and the board find each field *)
(* where the writer put it, and a probe brings it back.                    *)
(*                                                                         *)
(* A sequence is known here by its length and its elements (Sized, Joined, *)
(* Lies); what the words of the buffer hold is settled bit by bit.         *)
(***************************************************************************)
EXTENDS AdminCodec, SequenceTheorems, TLAPS

-------------------------------------------------------------------------------
(* Reversing a word.                                                         *)

\* The mask of the loop when blocks of s bits change places.
Mask(s) == {p \in WordBits : (p \div s) % 2 = 0}

LEMMA MaskStep ==
  /\ XorShifted(WordBits, 32) = Mask(32) /\ XorShifted(Mask(32), 16) = Mask(16)
  /\ XorShifted(Mask(16), 8) = Mask(8) /\ XorShifted(Mask(8), 4) = Mask(4)
  /\ XorShifted(Mask(4), 2) = Mask(2) /\ XorShifted(Mask(2), 1) = Mask(1)
<1> USE DEF XorShifted, SymDiff, Mask, WordBits
<1>1. XorShifted(WordBits, 32) = Mask(32)
  OBVIOUS
<1>2. XorShifted(Mask(32), 16) = Mask(16)
  OBVIOUS
<1>3. XorShifted(Mask(16), 8) = Mask(8)
  OBVIOUS
<1>4. XorShifted(Mask(8), 4) = Mask(4)
  OBVIOUS
<1>5. XorShifted(Mask(4), 2) = Mask(2)
  OBVIOUS
<1>6. XorShifted(Mask(2), 1) = Mask(1)
  OBVIOUS
<1> QED
  BY <1>1, <1>2, <1>3, <1>4, <1>5, <1>6

\* Each bit comes from the neighbouring block.
LEMMA ExchangeBits ==
  ASSUME NEW t, NEW s \in {32, 16, 8, 4, 2, 1}, XorShifted(t.mask, s) = Mask(s), NEW p \in WordBits
  PROVE  /\ Exchange(t, s).mask = Mask(s)
         /\ (p \div s) % 2 = 0 => p + s \in WordBits /\ Exchange(t, s).n[p] = t.n[p + s]
         /\ (p \div s) % 2 # 0 => p - s \in WordBits /\ Exchange(t, s).n[p] = t.n[p - s]
<1>1. Exchange(t, s).mask = Mask(s)
  BY DEF Exchange
<1>2. Exchange(t, s).n = Or(And(Shr(t.n, s), Mask(s)), And(Shl(t.n, s), WordBits \ Mask(s)))
  BY DEF Exchange
<1>3. ASSUME (p \div s) % 2 = 0
      PROVE  p + s \in WordBits /\ p + s <= 63 /\ p \in Mask(s)
  BY <1>3 DEF WordBits, Mask
<1>4. ASSUME (p \div s) % 2 # 0
      PROVE  p - s \in WordBits /\ p >= s /\ p \notin Mask(s)
  BY <1>4 DEF WordBits, Mask
<1>5. ASSUME (p \div s) % 2 = 0
      PROVE  Exchange(t, s).n[p] = t.n[p + s]
  BY <1>2, <1>3, <1>5 DEF Or, And, Shr, Shl
<1>6. ASSUME (p \div s) % 2 # 0
      PROVE  Exchange(t, s).n[p] = t.n[p - s]
  BY <1>2, <1>4, <1>6 DEF Or, And, Shr, Shl
<1> QED
  BY <1>1, <1>3, <1>4, <1>5, <1>6

\* Where the bit at p comes from once blocks of s bits have changed places.
From(s, p) == (s * ((64 \div s) - 1 - (p \div s))) + (p % s)

Stage(t, n, s) == t.mask = Mask(s) /\ \A p \in WordBits : t.n[p] = n[From(s, p)]

LEMMA FromStep ==
  ASSUME NEW p \in WordBits
  PROVE  /\ (p \div 32) % 2 = 0 => p + 32 = From(32, p)
         /\ (p \div 32) % 2 # 0 => p - 32 = From(32, p)
         /\ (p \div 16) % 2 = 0 => From(32, p + 16) = From(16, p)
         /\ (p \div 16) % 2 # 0 => From(32, p - 16) = From(16, p)
         /\ (p \div 8) % 2 = 0 => From(16, p + 8) = From(8, p)
         /\ (p \div 8) % 2 # 0 => From(16, p - 8) = From(8, p)
         /\ (p \div 4) % 2 = 0 => From(8, p + 4) = From(4, p)
         /\ (p \div 4) % 2 # 0 => From(8, p - 4) = From(4, p)
         /\ (p \div 2) % 2 = 0 => From(4, p + 2) = From(2, p)
         /\ (p \div 2) % 2 # 0 => From(4, p - 2) = From(2, p)
         /\ (p \div 1) % 2 = 0 => From(2, p + 1) = From(1, p)
         /\ (p \div 1) % 2 # 0 => From(2, p - 1) = From(1, p)
<1> USE DEF From, WordBits
<1>1. ((p \div 32) % 2 = 0 => p + 32 = From(32, p)) /\ ((p \div 32) % 2 # 0 => p - 32 = From(32, p))
  OBVIOUS
<1>2. /\ (p \div 16) % 2 = 0 => From(32, p + 16) = From(16, p)
      /\ (p \div 16) % 2 # 0 => From(32, p - 16) = From(16, p)
  OBVIOUS
<1>3. /\ (p \div 8) % 2 = 0 => From(16, p + 8) = From(8, p)
      /\ (p \div 8) % 2 # 0 => From(16, p - 8) = From(8, p)
  OBVIOUS
<1>4. /\ (p \div 4) % 2 = 0 => From(8, p + 4) = From(4, p)
      /\ (p \div 4) % 2 # 0 => From(8, p - 4) = From(4, p)
  OBVIOUS
<1>5. /\ (p \div 2) % 2 = 0 => From(4, p + 2) = From(2, p)
      /\ (p \div 2) % 2 # 0 => From(4, p - 2) = From(2, p)
  OBVIOUS
<1>6. /\ (p \div 1) % 2 = 0 => From(2, p + 1) = From(1, p)
      /\ (p \div 1) % 2 # 0 => From(2, p - 1) = From(1, p)
  OBVIOUS
<1> QED
  BY <1>1, <1>2, <1>3, <1>4, <1>5, <1>6

\* Blocks that have been exchanged so far, and the halves of them next.
LEMMA StageStep ==
  ASSUME NEW n, NEW t, NEW s \in {32, 16, 8, 4, 2, 1}, XorShifted(t.mask, s) = Mask(s),
         \A p \in WordBits :
            /\ (p \div s) % 2 = 0 => t.n[p + s] = n[From(s, p)]
            /\ (p \div s) % 2 # 0 => t.n[p - s] = n[From(s, p)]
  PROVE  Stage(Exchange(t, s), n, s)
<1>1. Exchange(t, s).mask = Mask(s)
  BY DEF Exchange
<1>2. ASSUME NEW p \in WordBits PROVE Exchange(t, s).n[p] = n[From(s, p)]
  BY ExchangeBits
<1> QED
  BY <1>1, <1>2 DEF Stage

LEMMA StageSteps ==
  ASSUME NEW n, NEW t
  PROVE  /\ t = [mask |-> WordBits, n |-> n] => Stage(Exchange(t, 32), n, 32)
         /\ Stage(t, n, 32) => Stage(Exchange(t, 16), n, 16)
         /\ Stage(t, n, 16) => Stage(Exchange(t, 8), n, 8)
         /\ Stage(t, n, 8) => Stage(Exchange(t, 4), n, 4)
         /\ Stage(t, n, 4) => Stage(Exchange(t, 2), n, 2)
         /\ Stage(t, n, 2) => Stage(Exchange(t, 1), n, 1)
<1>1. ASSUME t = [mask |-> WordBits, n |-> n] PROVE Stage(Exchange(t, 32), n, 32)
  <2>1. t.mask = WordBits /\ t.n = n
    BY <1>1
  <2>2. XorShifted(t.mask, 32) = Mask(32)
    BY <2>1, MaskStep
  <2>3. ASSUME NEW p \in WordBits
        PROVE  /\ (p \div 32) % 2 = 0 => t.n[p + 32] = n[From(32, p)]
               /\ (p \div 32) % 2 # 0 => t.n[p - 32] = n[From(32, p)]
    BY <2>1, FromStep
  <2> QED
    BY <2>2, <2>3, StageStep
<1>2. ASSUME Stage(t, n, 32) PROVE Stage(Exchange(t, 16), n, 16)
  <2>1. XorShifted(t.mask, 16) = Mask(16)
    BY <1>2, MaskStep DEF Stage
  <2>2. ASSUME NEW p \in WordBits
        PROVE  /\ (p \div 16) % 2 = 0 => p + 16 \in WordBits
               /\ (p \div 16) % 2 # 0 => p - 16 \in WordBits
    BY DEF WordBits
  <2>3. ASSUME NEW p \in WordBits
        PROVE  /\ (p \div 16) % 2 = 0 => t.n[p + 16] = n[From(16, p)]
               /\ (p \div 16) % 2 # 0 => t.n[p - 16] = n[From(16, p)]
    BY <1>2, <2>2, FromStep DEF Stage
  <2> QED
    BY <2>1, <2>3, StageStep
<1>3. ASSUME Stage(t, n, 16) PROVE Stage(Exchange(t, 8), n, 8)
  <2>1. XorShifted(t.mask, 8) = Mask(8)
    BY <1>3, MaskStep DEF Stage
  <2>2. ASSUME NEW p \in WordBits
        PROVE  /\ (p \div 8) % 2 = 0 => p + 8 \in WordBits
               /\ (p \div 8) % 2 # 0 => p - 8 \in WordBits
    BY DEF WordBits
  <2>3. ASSUME NEW p \in WordBits
        PROVE  /\ (p \div 8) % 2 = 0 => t.n[p + 8] = n[From(8, p)]
               /\ (p \div 8) % 2 # 0 => t.n[p - 8] = n[From(8, p)]
    BY <1>3, <2>2, FromStep DEF Stage
  <2> QED
    BY <2>1, <2>3, StageStep
<1>4. ASSUME Stage(t, n, 8) PROVE Stage(Exchange(t, 4), n, 4)
  <2>1. XorShifted(t.mask, 4) = Mask(4)
    BY <1>4, MaskStep DEF Stage
  <2>2. ASSUME NEW p \in WordBits
        PROVE  /\ (p \div 4) % 2 = 0 => p + 4 \in WordBits
               /\ (p \div 4) % 2 # 0 => p - 4 \in WordBits
    BY DEF WordBits
  <2>3. ASSUME NEW p \in WordBits
        PROVE  /\ (p \div 4) % 2 = 0 => t.n[p + 4] = n[From(4, p)]
               /\ (p \div 4) % 2 # 0 => t.n[p - 4] = n[From(4, p)]
    BY <1>4, <2>2, FromStep DEF Stage
  <2> QED
    BY <2>1, <2>3, StageStep
<1>5. ASSUME Stage(t, n, 4) PROVE Stage(Exchange(t, 2), n, 2)
  <2>1. XorShifted(t.mask, 2) = Mask(2)
    BY <1>5, MaskStep DEF Stage
  <2>2. ASSUME NEW p \in WordBits
        PROVE  /\ (p \div 2) % 2 = 0 => p + 2 \in WordBits
               /\ (p \div 2) % 2 # 0 => p - 2 \in WordBits
    BY DEF WordBits
  <2>3. ASSUME NEW p \in WordBits
        PROVE  /\ (p \div 2) % 2 = 0 => t.n[p + 2] = n[From(2, p)]
               /\ (p \div 2) % 2 # 0 => t.n[p - 2] = n[From(2, p)]
    BY <1>5, <2>2, FromStep DEF Stage
  <2> QED
    BY <2>1, <2>3, StageStep
<1>6. ASSUME Stage(t, n, 2) PROVE Stage(Exchange(t, 1), n, 1)
  <2>1. XorShifted(t.mask, 1) = Mask(1)
    BY <1>6, MaskStep DEF Stage
  <2>2. ASSUME NEW p \in WordBits
        PROVE  /\ (p \div 1) % 2 = 0 => p + 1 \in WordBits
               /\ (p \div 1) % 2 # 0 => p - 1 \in WordBits
    BY DEF WordBits
  <2>3. ASSUME NEW p \in WordBits
        PROVE  /\ (p \div 1) % 2 = 0 => t.n[p + 1] = n[From(1, p)]
               /\ (p \div 1) % 2 # 0 => t.n[p - 1] = n[From(1, p)]
    BY <1>6, <2>2, FromStep DEF Stage
  <2> QED
    BY <2>1, <2>3, StageStep
<1> QED
  BY <1>1, <1>2, <1>3, <1>4, <1>5, <1>6

\* The loop of reverse_bits_64, unrolled.
LEMMA ReverseLoop ==
  ASSUME NEW n
  PROVE  reverse_bits_64(n) =
           Exchange(Exchange(Exchange(Exchange(Exchange(Exchange([mask |-> WordBits, n |-> n],
             32), 16), 8), 4), 2), 1).n
<1> DEFINE S == {64, 32, 16, 8, 4, 2, 1}
           t64 == [mask |-> WordBits, n |-> n]
           t32 == Exchange(t64, 32)  t16 == Exchange(t32, 16)  t8 == Exchange(t16, 8)
           t4 == Exchange(t8, 4)     t2 == Exchange(t4, 2)     t1 == Exchange(t2, 1)
           Fn(h) == h = [s \in S |-> IF s = 64 THEN t64 ELSE Exchange(h[2 * s], s)]
           w == [s \in S |-> IF s = 64 THEN t64 ELSE IF s = 32 THEN t32 ELSE IF s = 16 THEN t16
                             ELSE IF s = 8 THEN t8 ELSE IF s = 4 THEN t4 ELSE IF s = 2 THEN t2 ELSE t1]
           l == CHOOSE h : Fn(h)
<1> HIDE DEF t32, t16, t8, t4, t2, t1
<1>1. Fn(w)
  <2>1. ASSUME NEW s \in S PROVE w[s] = IF s = 64 THEN t64 ELSE Exchange(w[2 * s], s)
    BY DEF t32, t16, t8, t4, t2, t1
  <2> QED
    BY <2>1, Zenon
<1>2. Fn(l)
  BY <1>1, Zenon
<1>3. reverse_bits_64(n) = l[1].n
  BY DEF reverse_bits_64
<1> HIDE DEF l
<1>4. l[64] = t64 /\ l[32] = Exchange(l[64], 32) /\ l[16] = Exchange(l[32], 16)
       /\ l[8] = Exchange(l[16], 8) /\ l[4] = Exchange(l[8], 4)
       /\ l[2] = Exchange(l[4], 2) /\ l[1] = Exchange(l[2], 1)
  BY <1>2
<1>5. l[1] = t1
  BY <1>4 DEF t32, t16, t8, t4, t2, t1
<1> QED
  BY <1>3, <1>5 DEF t32, t16, t8, t4, t2, t1

LEMMA ReverseBits ==
  ASSUME NEW n, NEW p \in WordBits
  PROVE  reverse_bits_64(n)[p] = n[63 - p]
<1> DEFINE t64 == [mask |-> WordBits, n |-> n]
           t32 == Exchange(t64, 32)  t16 == Exchange(t32, 16)  t8 == Exchange(t16, 8)
           t4 == Exchange(t8, 4)     t2 == Exchange(t4, 2)     t1 == Exchange(t2, 1)
<1>1. reverse_bits_64(n) = t1.n
  BY ReverseLoop, Zenon
<1> HIDE DEF t32, t16, t8, t4, t2, t1
<1>2. Stage(t32, n, 32)
  BY StageSteps DEF t32
<1> HIDE DEF t64
<1>3. Stage(t16, n, 16)
  BY <1>2, StageSteps DEF t16
<1>4. Stage(t8, n, 8)
  BY <1>3, StageSteps DEF t8
<1>5. Stage(t4, n, 4)
  BY <1>4, StageSteps DEF t4
<1>6. Stage(t2, n, 2)
  BY <1>5, StageSteps DEF t2
<1>7. Stage(t1, n, 1)
  BY <1>6, StageSteps DEF t1
<1>8. From(1, p) = 63 - p
  BY DEF From, WordBits
<1> QED
  BY <1>1, <1>7, <1>8 DEF Stage
-------------------------------------------------------------------------------
(* A word in memory.                                                         *)

\* The digit of the product and the copy of the byte that bit r comes from.
LEMMA Digit ==
  ASSUME NEW r \in 0 .. 7
  PROVE  LET d == CHOOSE d \in Kept : d % 10 = r
             c == CHOOSE c \in Copies : d - c \in 0 .. 7
         IN d - c = 7 - r
<1> DEFINE d == CHOOSE d \in Kept : d % 10 = r
           c == CHOOSE c \in Copies : d - c \in 0 .. 7
           D == IF r = 0 THEN 40 ELSE IF r = 1 THEN 31 ELSE IF r = 2 THEN 22 ELSE IF r = 3 THEN 13
                ELSE IF r = 4 THEN 4 ELSE IF r = 5 THEN 35 ELSE IF r = 6 THEN 26 ELSE 17
<1>1. D \in Kept /\ D % 10 = r /\ \A e \in Kept : e % 10 = r => e = D
  BY DEF Kept
<1> HIDE DEF D
<1>2. d = D
  BY <1>1
<1>3. D - (D - 7 + r) = 7 - r /\ D - 7 + r \in Copies
       /\ \A e \in Copies : D - e \in 0 .. 7 => e = D - 7 + r
  BY DEF D, Copies
<1> HIDE DEF d
<1>4. c = D - 7 + r
  BY <1>2, <1>3
<1> HIDE DEF c
<1>5. d - c = 7 - r
  BY <1>2, <1>3, <1>4
<1> QED
  BY <1>5 DEF d, c

LEMMA ReverseByte ==
  ASSUME NEW n, NEW p \in WordBits
  PROVE  reverse_bits_byte_64(n)[p] = n[8 * (p \div 8) + (7 - (p % 8))]
<1>1. p % 8 \in 0 .. 7
  BY DEF WordBits
<1> QED
  BY <1>1, Digit DEF reverse_bits_byte_64

\* In the file the highest bit of the buffer comes first.
LEMMA InMemory ==
  ASSUME NEW w, NEW p \in WordBits
  PROVE  reverse_bits_byte_64(bswap_64(w))[p] = w[63 - p]
<1> DEFINE q == 8 * (p \div 8) + (7 - (p % 8))
<1>1. q \in WordBits /\ 8 * (7 - (q \div 8)) + (q % 8) = 63 - p
  BY DEF WordBits
<1>2. reverse_bits_byte_64(bswap_64(w))[p] = bswap_64(w)[q]
  BY ReverseByte
<1> HIDE DEF q
<1> QED
  BY <1>1, <1>2 DEF bswap_64

-------------------------------------------------------------------------------
(* Sequences of anything.                                                    *)

\* s is a sequence of n elements.
Sized(s, n) == n \in Nat /\ s = [i \in 1 .. n |-> s[i]]

LEMMA SizedSeq ==
  ASSUME NEW s, NEW n, Sized(s, n)
  PROVE  /\ s \in Seq({s[i] : i \in 1 .. n}) /\ Len(s) = n /\ DOMAIN s = 1 .. n
<1>1. n \in Nat /\ DOMAIN s = 1 .. n /\ s \in [1 .. n -> {s[i] : i \in 1 .. n}]
  BY DEF Sized
<1> QED
  BY <1>1

\* u is s with t behind it.
Joined(u, s, m, t, n) == /\ Sized(u, m + n)
                         /\ \A i \in 1 .. m : u[i] = s[i]
                         /\ \A i \in 1 .. n : u[m + i] = t[i]

LEMMA SizedCat ==
  ASSUME NEW s, NEW t, NEW m, NEW n, Sized(s, m), Sized(t, n)
  PROVE  Joined(s \o t, s, m, t, n)
<1> DEFINE S == {s[i] : i \in 1 .. m} \cup {t[i] : i \in 1 .. n}
<1>1. m \in Nat /\ n \in Nat /\ Len(s) = m /\ Len(t) = n
  BY SizedSeq DEF Sized
<1>2. s \in Seq({s[i] : i \in 1 .. m}) /\ t \in Seq({t[i] : i \in 1 .. n})
  BY SizedSeq
<1>3. s \in Seq(S) /\ t \in Seq(S)
  BY <1>2
<1> HIDE DEF S
<1>4. /\ s \o t \in Seq(S) /\ Len(s \o t) = m + n
      /\ \A i \in 1 .. m + n : (s \o t)[i] = IF i <= m THEN s[i] ELSE t[i - m]
  BY <1>1, <1>3, ConcatProperties
<1> DEFINE u == s \o t
<1> HIDE DEF u
<1>5. Sized(u, m + n)
  <2>1. u \in [1 .. m + n -> S]
    BY <1>4, LenProperties DEF u
  <2> QED
    BY <1>1, <2>1 DEF Sized
<1>6. ASSUME NEW i \in 1 .. m PROVE (s \o t)[i] = s[i]
  BY <1>1, <1>4
<1>7. ASSUME NEW i \in 1 .. n PROVE (s \o t)[m + i] = t[i]
  BY <1>1, <1>4
<1> QED
  BY <1>5, <1>6, <1>7 DEF u, Joined

LEMMA SizedEqual ==
  ASSUME NEW s, NEW t, NEW n, Sized(s, n), Sized(t, n), \A i \in 1 .. n : s[i] = t[i]
  PROVE  s = t
BY DEF Sized

LEMMA SizedPrefix ==
  ASSUME NEW s, NEW t, NEW m, NEW n, Sized(s, m), Sized(t, n), m <= n, \A i \in 1 .. m : t[i] = s[i]
  PROVE  IsPrefix(s, t)
<1>1. m \in Nat /\ n \in Nat /\ Len(s) = m /\ Len(t) = n
  BY SizedSeq DEF Sized
<1>2. SubSeq(s, 1, m) = [i \in 1 .. m |-> s[i]] /\ SubSeq(t, 1, m) = [i \in 1 .. m |-> t[i]]
  BY <1>1, SizedSeq
<1> QED
  BY <1>1, <1>2 DEF IsPrefix

-------------------------------------------------------------------------------
(* The packing buffer.                                                       *)

\* The bits of the hashed copy, how many of them the tag covers, and how many a
\* packet has.
CopyBits == 0 .. 1023
SealedBits == 960
PacketBits == 1024

\* The part of the buffer that is clean is zero; the file, in whole 32-bit words,
\* holds what the hashed copy holds.
Buffer ==
  /\ admin_buf_bits_clean \in 0 .. 64
  /\ \A p \in WordBits : p < admin_buf_bits_clean => admin_buf[p] = Zero
  /\ admin_buf_data_ptr \in Nat /\ admin_buf_data_ptr % 4 = 0
  /\ Sized(admin_pkt, 8 * admin_buf_data_ptr)
  /\ DOMAIN admin_buf_data = CopyBits
  /\ \A q \in CopyBits : q < 8 * admin_buf_data_ptr => admin_buf_data[q] = admin_pkt[q + 1]

\* All that was written, in the file or not.
WrittenOf(pkt, buf, clean) == pkt \o [b \in 1 .. 64 - clean |-> buf[64 - b]]

Written == WrittenOf(admin_pkt, admin_buf, admin_buf_bits_clean)

LEMMA WrittenIsStream == Written = admin_pkt \o Waiting /\ Written' = (admin_pkt \o Waiting)'
BY Zenon DEF Written, WrittenOf, Waiting

\* The bits of u are those of pkt and then those that wait in buf.
Spelled(u, pkt, m, buf, clean) ==
  /\ Sized(u, m + (64 - clean))
  /\ \A i \in 1 .. m : u[i] = pkt[i]
  /\ \A b \in 1 .. 64 - clean : u[m + b] = buf[64 - b]

LEMMA WrittenBits ==
  ASSUME NEW pkt, NEW m, Sized(pkt, m), NEW buf, NEW clean \in 0 .. 64
  PROVE  Spelled(WrittenOf(pkt, buf, clean), pkt, m, buf, clean)
<1> DEFINE w == [b \in 1 .. 64 - clean |-> buf[64 - b]]
<1>1. 64 - clean \in Nat
  OBVIOUS
<1>2. Sized(w, 64 - clean) /\ \A b \in 1 .. 64 - clean : w[b] = buf[64 - b]
  BY <1>1, Zenon DEF Sized
<1> HIDE DEF w
<1>3. Joined(pkt \o w, pkt, m, w, 64 - clean)
  BY <1>2, SizedCat
<1>4. WrittenOf(pkt, buf, clean) = pkt \o w
  BY DEF WrittenOf, w
<1>5. Joined(WrittenOf(pkt, buf, clean), pkt, m, w, 64 - clean)
  BY <1>3, <1>4
<1> QED
  BY <1>2, <1>5 DEF Joined, Spelled

\* The argument as it goes into the buffer: first bit highest.
LEMMA InfoBits ==
  ASSUME NEW v, NEW k \in 1 .. 64, Sized(v, k), NEW p \in WordBits
  PROVE  Shr(reverse_bits_64(Word(v)), 64 - k)[p] = IF p < k THEN v[k - p] ELSE Zero
<1>1. Len(v) = k
  BY SizedSeq
<1>2. CASE p < k
  <2>1. p + (64 - k) \in WordBits /\ p + (64 - k) <= 63
    BY <1>2 DEF WordBits
  <2>2. Shr(reverse_bits_64(Word(v)), 64 - k)[p] = reverse_bits_64(Word(v))[p + (64 - k)]
    BY <2>1 DEF Shr
  <2>3. reverse_bits_64(Word(v))[p + (64 - k)] = Word(v)[63 - (p + (64 - k))]
    BY <2>1, ReverseBits
  <2>4. 63 - (p + (64 - k)) = (k - p) - 1 /\ (k - p) - 1 \in WordBits /\ (k - p) - 1 < k
        /\ ((k - p) - 1) + 1 = k - p
    BY <1>2 DEF WordBits
  <2>5. Word(v)[(k - p) - 1] = v[k - p]
    BY <1>1, <2>4 DEF Word
  <2> QED
    BY <1>2, <2>2, <2>3, <2>4, <2>5
<1>3. CASE ~(p < k)
  <2>1. ~(p + (64 - k) <= 63)
    BY <1>3 DEF WordBits
  <2> QED
    BY <1>3, <2>1 DEF Shr
<1> QED
  BY <1>2, <1>3

\* n bytes of a word have gone to the file and to the hashed copy.
Flushed(w, n) ==
  /\ admin_buf_data_ptr' = admin_buf_data_ptr + n
  /\ Sized(admin_pkt', 8 * admin_buf_data_ptr')
  /\ \A i \in 1 .. 8 * admin_buf_data_ptr : admin_pkt'[i] = admin_pkt[i]
  /\ \A b \in 1 .. 8 * n : admin_pkt'[8 * admin_buf_data_ptr + b] = w[64 - b]
  /\ DOMAIN admin_buf_data' = CopyBits
  /\ \A q \in CopyBits : q < 8 * admin_buf_data_ptr' => admin_buf_data'[q] = admin_pkt'[q + 1]
  /\ IsPrefix(admin_pkt, admin_pkt')

LEMMA Flush ==
  ASSUME Buffer, NEW w, NEW n \in {0, 4, 8},
         write_admin_buf_item_and_hash(reverse_bits_byte_64(bswap_64(w)), n)
  PROVE  Flushed(w, n)
<1> DEFINE x == reverse_bits_byte_64(bswap_64(w))
           ptr == admin_buf_data_ptr
<1>0. /\ Sized(admin_pkt, 8 * ptr) /\ DOMAIN admin_buf_data = CopyBits
      /\ \A q \in CopyBits : q < 8 * ptr => admin_buf_data[q] = admin_pkt[q + 1]
  BY DEF Buffer
<1>1. \A p \in WordBits : x[p] = w[63 - p]
  BY InMemory
<1> HIDE DEF x
<1>2. /\ ptr \in Nat /\ ptr' = ptr + n /\ admin_pkt' = admin_pkt \o Bytes(x, n)
      /\ admin_buf_data' = [q \in DOMAIN admin_buf_data |->
                              IF q - 8 * ptr \in 0 .. 8 * n - 1 THEN x[q - 8 * ptr] ELSE admin_buf_data[q]]
  BY DEF write_admin_buf_item_and_hash, x, Buffer
<1>3. Sized(Bytes(x, n), 8 * n) /\ \A b \in 1 .. 8 * n : Bytes(x, n)[b] = x[b - 1]
  BY DEF Bytes, Sized
<1>4. /\ Sized(admin_pkt \o Bytes(x, n), 8 * ptr + 8 * n)
      /\ \A i \in 1 .. 8 * ptr : (admin_pkt \o Bytes(x, n))[i] = admin_pkt[i]
      /\ \A b \in 1 .. 8 * n : (admin_pkt \o Bytes(x, n))[8 * ptr + b] = Bytes(x, n)[b]
  <2>1. Sized(Bytes(x, n), 8 * n) /\ 8 * n \in Nat /\ 8 * ptr \in Nat
    BY <1>2, <1>3
  <2>2. Joined(admin_pkt \o Bytes(x, n), admin_pkt, 8 * ptr, Bytes(x, n), 8 * n)
    BY <1>0, <2>1, SizedCat
  <2> QED
    BY <2>2 DEF Joined
<1>5. Sized(admin_pkt', 8 * ptr')
  <2>1. 8 * ptr' = 8 * ptr + 8 * n
    BY <1>2
  <2> QED
    BY <1>2, <1>4, <2>1
<1>6. \A i \in 1 .. 8 * ptr : admin_pkt'[i] = admin_pkt[i]
  BY <1>2, <1>4
<1>7. ASSUME NEW b \in 1 .. 8 * n
      PROVE  admin_pkt'[8 * ptr + b] = x[b - 1] /\ x[b - 1] = w[64 - b]
  <2>1. b - 1 \in WordBits /\ 63 - (b - 1) = 64 - b
    BY DEF WordBits
  <2>2. x[b - 1] = w[63 - (b - 1)]
    BY <1>1, <2>1, Zenon
  <2>3. admin_pkt'[8 * ptr + b] = x[b - 1]
    BY <1>2, <1>3, <1>4, Zenon
  <2> QED
    BY <2>1, <2>2, <2>3
<1>8. DOMAIN admin_buf_data' = CopyBits
  BY <1>0, <1>2
<1>11. ASSUME NEW q \in CopyBits
       PROVE  admin_buf_data'[q] = IF q - 8 * ptr \in 0 .. 8 * n - 1 THEN x[q - 8 * ptr]
                                   ELSE admin_buf_data[q]
  <2>1. /\ DOMAIN admin_buf_data = CopyBits
        /\ admin_buf_data' = [r \in DOMAIN admin_buf_data |->
                              IF r - 8 * ptr \in 0 .. 8 * n - 1 THEN x[r - 8 * ptr] ELSE admin_buf_data[r]]
    BY <1>0, <1>2
  <2> QED
    BY <2>1, Zenon
<1>9. ASSUME NEW q \in CopyBits, q < 8 * ptr' PROVE admin_buf_data'[q] = admin_pkt'[q + 1]
  <2>1. CASE q < 8 * ptr
    <3>1. ~(q - 8 * ptr \in 0 .. 8 * n - 1) /\ q + 1 \in 1 .. 8 * ptr
      BY <1>2, <2>1 DEF CopyBits
    <3>2. admin_buf_data'[q] = admin_buf_data[q]
      BY <1>11, <3>1
    <3> QED
      BY <1>0, <1>6, <2>1, <3>1, <3>2
  <2>2. CASE ~(q < 8 * ptr)
    <3>1. /\ q - 8 * ptr \in 0 .. 8 * n - 1 /\ (q - 8 * ptr) + 1 \in 1 .. 8 * n
          /\ 8 * ptr + ((q - 8 * ptr) + 1) = q + 1 /\ ((q - 8 * ptr) + 1) - 1 = q - 8 * ptr
      BY <1>2, <1>9, <2>2 DEF CopyBits
    <3>2. admin_buf_data'[q] = x[q - 8 * ptr]
      BY <1>11, <3>1
    <3> QED
      BY <1>7, <3>1, <3>2
  <2> QED
    BY <2>1, <2>2
<1>10. IsPrefix(admin_pkt, admin_pkt')
  <2>1. 8 * ptr <= 8 * ptr'
    BY <1>2
  <2> QED
    BY <1>0, <1>5, <1>6, <2>1, SizedPrefix, Zenon
<1> QED
  <2>1. ptr' = ptr + n
    BY <1>2
  <2> QED
    BY <1>5, <1>6, <1>7, <1>8, <1>9, <1>10, <2>1, Zenon DEF Flushed

\* The i-th bit of all that was written.
BitAt(pkt, m, buf, i) == IF i <= m THEN pkt[i] ELSE buf[64 - (i - m)]

\* The second file and buffer hold what the first hold, and v behind it.
Grown(pkt, m, buf, clean, pkt2, m2, buf2, clean2, v, k) ==
  /\ m \in Nat /\ m2 \in Nat /\ k \in Nat /\ clean \in 0 .. 64 /\ clean2 \in 0 .. 64
  /\ Sized(pkt, m) /\ Sized(pkt2, m2) /\ Sized(v, k)
  /\ m2 + (64 - clean2) = m + (64 - clean) + k
  /\ \A i \in 1 .. m + (64 - clean) : BitAt(pkt2, m2, buf2, i) = BitAt(pkt, m, buf, i)
  /\ \A i \in 1 .. k : BitAt(pkt2, m2, buf2, m + (64 - clean) + i) = v[i]

LEMMA WrittenGrows ==
  ASSUME NEW pkt, NEW m, NEW buf, NEW clean, NEW pkt2, NEW m2, NEW buf2, NEW clean2, NEW v, NEW k,
         Grown(pkt, m, buf, clean, pkt2, m2, buf2, clean2, v, k)
  PROVE  WrittenOf(pkt2, buf2, clean2) = WrittenOf(pkt, buf, clean) \o v
<1> USE DEF Grown
<1> DEFINE w == WrittenOf(pkt, buf, clean)
           w2 == WrittenOf(pkt2, buf2, clean2)
           L == m + (64 - clean)
<1>1. Spelled(w, pkt, m, buf, clean) /\ Spelled(w2, pkt2, m2, buf2, clean2)
  BY WrittenBits
<1> HIDE DEF w, w2
<1>0. Sized(w, L) /\ Sized(w2, L + k) /\ L \in Nat
  BY <1>1 DEF Spelled
<1>2. ASSUME NEW i \in 1 .. L PROVE w[i] = BitAt(pkt, m, buf, i)
  <2>1. CASE i <= m
    BY <1>1, <2>1 DEF BitAt, Spelled
  <2>2. CASE ~(i <= m)
    <3>1. i - m \in 1 .. 64 - clean /\ m + (i - m) = i
      BY <2>2
    <3> QED
      BY <1>1, <2>2, <3>1 DEF BitAt, Spelled
  <2> QED
    BY <2>1, <2>2
<1>3. ASSUME NEW i \in 1 .. L + k PROVE w2[i] = BitAt(pkt2, m2, buf2, i)
  <2>1. CASE i <= m2
    BY <1>1, <2>1 DEF BitAt, Spelled
  <2>2. CASE ~(i <= m2)
    <3>1. i - m2 \in 1 .. 64 - clean2 /\ m2 + (i - m2) = i
      BY <2>2
    <3> QED
      BY <1>1, <2>2, <3>1 DEF BitAt, Spelled
  <2> QED
    BY <2>1, <2>2
<1>4. Joined(w \o v, w, L, v, k)
  BY <1>0, SizedCat
<1>5. Sized(w \o v, L + k)
  BY <1>4 DEF Joined
<1>6. ASSUME NEW i \in 1 .. L + k PROVE w2[i] = (w \o v)[i]
  <2>1. CASE i <= L
    <3>1. i \in 1 .. L
      BY <2>1
    <3> QED
      BY <1>2, <1>3, <1>4, <3>1 DEF Joined
  <2>2. CASE ~(i <= L)
    <3>1. i - L \in 1 .. k /\ L + (i - L) = i
      BY <1>0, <2>2
    <3>2. BitAt(pkt2, m2, buf2, L + (i - L)) = v[i - L]
      BY <3>1
    <3>3. (w \o v)[L + (i - L)] = v[i - L]
      BY <1>4, <3>1 DEF Joined
    <3> QED
      BY <1>3, <3>1, <3>2, <3>3
  <2> QED
    BY <2>1, <2>2
<1>7. w2 = w \o v
  BY <1>0, <1>5, <1>6, SizedEqual
<1> QED
  BY <1>7 DEF w, w2

\* What a call of write_admin_buf does to the stream.
Appends(v) == Buffer' /\ Written' = Written \o v /\ IsPrefix(admin_pkt, admin_pkt')

LEMMA BufferFacts ==
  ASSUME Buffer
  PROVE  /\ admin_buf_bits_clean \in 0 .. 64
         /\ 8 * admin_buf_data_ptr \in Nat
         /\ Sized(admin_pkt, 8 * admin_buf_data_ptr)
         /\ \A p \in WordBits : p < admin_buf_bits_clean => admin_buf[p] = Zero
BY DEF Buffer

\* The argument fits.
LEMMA FitAppends ==
  ASSUME Buffer, NEW v, NEW k \in 1 .. 64, Sized(v, k), NEW info,
         \A p \in WordBits : info[p] = IF p < k THEN v[k - p] ELSE Zero,
         Fit(info, k)
  PROVE  Appends(v)
<1> DEFINE clean == admin_buf_bits_clean
           m == 8 * admin_buf_data_ptr
<1>1. /\ clean \in 0 .. 64 /\ m \in Nat /\ Sized(admin_pkt, m)
      /\ \A p \in WordBits : p < clean => admin_buf[p] = Zero
  BY BufferFacts
<1>2. /\ clean >= k /\ clean' = clean - k /\ clean' \in 0 .. 64
      /\ admin_buf' = Or(admin_buf, Shl(info, clean - k))
      /\ UNCHANGED <<admin_buf_data, admin_buf_data_ptr, admin_pkt>>
  BY <1>1 DEF Fit
<1> HIDE DEF clean, m
<1>0. clean \in 0 .. 64 /\ m \in Nat /\ clean >= k
  BY <1>1, <1>2
<1>3. ASSUME NEW p \in WordBits
      PROVE  admin_buf'[p] = IF p >= clean THEN admin_buf[p]
                             ELSE IF p >= clean - k THEN v[clean - p] ELSE Zero
  <2>1. admin_buf'[p] = IF admin_buf[p] = Zero THEN Shl(info, clean - k)[p]
                        ELSE IF Shl(info, clean - k)[p] = Zero THEN admin_buf[p] ELSE Clash
    BY <1>2 DEF Or
  <2>2. p >= clean - k => p - (clean - k) \in WordBits /\ k - (p - (clean - k)) = clean - p
    BY <1>0 DEF WordBits
  <2>3. Shl(info, clean - k)[p] = IF p >= clean - k THEN info[p - (clean - k)] ELSE Zero
    BY DEF Shl
  <2>4. Shl(info, clean - k)[p] = IF p >= clean THEN Zero
                                  ELSE IF p >= clean - k THEN v[clean - p] ELSE Zero
    <3>1. p >= clean <=> p >= clean - k /\ ~(p - (clean - k) < k)
      BY <1>0 DEF WordBits
    <3> QED
      BY <2>2, <2>3, <3>1
  <2>5. p < clean => admin_buf[p] = Zero
    BY <1>1
  <2>6. p \in Int /\ clean \in Int
    BY <1>0 DEF WordBits
  <2> QED
    BY <2>1, <2>4, <2>5, <2>6
<1>4. Buffer'
  <2>1. \A p \in WordBits : p < clean' => admin_buf'[p] = Zero
    BY <1>1, <1>2, <1>3 DEF WordBits
  <2> QED
    BY <1>2, <2>1 DEF Buffer, clean
<1>5. Written' = Written \o v
  <2>1. m + (64 - clean') = m + (64 - clean) + k
    BY <1>1, <1>2
  <2>2. ASSUME NEW i \in 1 .. m + (64 - clean)
        PROVE  BitAt(admin_pkt, m, admin_buf', i) = BitAt(admin_pkt, m, admin_buf, i)
    <3>1. CASE i <= m
      BY <3>1 DEF BitAt
    <3>2. CASE ~(i <= m)
      <4>1. 64 - (i - m) \in WordBits /\ 64 - (i - m) >= clean
        BY <1>0, <3>2 DEF WordBits
      <4> QED
        BY <1>3, <3>2, <4>1 DEF BitAt
    <3> QED
      BY <3>1, <3>2
  <2>3. ASSUME NEW i \in 1 .. k PROVE BitAt(admin_pkt, m, admin_buf', m + (64 - clean) + i) = v[i]
    <3> DEFINE j == m + (64 - clean) + i
               p == 64 - (j - m)
    <3>1. p \in WordBits /\ ~(p >= clean) /\ p >= clean - k /\ clean - p = i /\ ~(j <= m)
      BY <1>0 DEF WordBits
    <3>2. BitAt(admin_pkt, m, admin_buf', j) = admin_buf'[p]
      BY <3>1 DEF BitAt
    <3> HIDE DEF p
    <3>3. admin_buf'[p] = v[i]
      BY <1>3, <3>1
    <3> QED
      BY <3>2, <3>3
  <2>4. WrittenOf(admin_pkt, admin_buf', clean') = WrittenOf(admin_pkt, admin_buf, clean) \o v
    <3>1. Grown(admin_pkt, m, admin_buf, clean, admin_pkt, m, admin_buf', clean', v, k)
      BY <1>1, <1>2, <2>1, <2>2, <2>3 DEF Grown
    <3> QED
      BY <3>1, WrittenGrows
  <2> QED
    BY <1>2, <2>4 DEF Written, clean
<1>6. IsPrefix(admin_pkt, admin_pkt')
  <2>1. m <= m
    BY <1>1
  <2> QED
    BY <1>1, <1>2, <2>1, SizedPrefix
<1> QED
  BY <1>4, <1>5, <1>6 DEF Appends

\* The argument goes over the end of the word.
LEMMA SplitAppends ==
  ASSUME Buffer, NEW v, NEW k \in 1 .. 64, Sized(v, k), NEW info,
         \A p \in WordBits : info[p] = IF p < k THEN v[k - p] ELSE Zero,
         Split(info, k)
  PROVE  Appends(v)
<1> DEFINE clean == admin_buf_bits_clean
           m == 8 * admin_buf_data_ptr
           aw == k - clean
           x == Or(admin_buf, Shr(info, aw))
<1>1. /\ clean \in 0 .. 64 /\ m \in Nat /\ Sized(admin_pkt, m)
      /\ \A p \in WordBits : p < clean => admin_buf[p] = Zero
  BY BufferFacts
<1>2. /\ clean < k /\ clean' = 64 - aw /\ clean' \in 0 .. 64 /\ aw \in 1 .. 64
      /\ admin_buf' = Shl(And(info, 0 .. aw), 64 - aw)
      /\ write_admin_buf_item_and_hash(reverse_bits_byte_64(bswap_64(x)), 8)
  BY <1>1 DEF Split
<1>0. clean \in 0 .. 64 /\ m \in Nat /\ clean < k /\ aw \in 1 .. 64 /\ aw = k - clean
  BY <1>1, <1>2
<1>3. /\ admin_buf_data_ptr' = admin_buf_data_ptr + 8
      /\ Sized(admin_pkt', 8 * admin_buf_data_ptr')
      /\ \A i \in 1 .. 8 * admin_buf_data_ptr : admin_pkt'[i] = admin_pkt[i]
      /\ \A b \in 1 .. 8 * 8 : admin_pkt'[8 * admin_buf_data_ptr + b] = x[64 - b]
      /\ DOMAIN admin_buf_data' = CopyBits
      /\ \A q \in CopyBits : q < 8 * admin_buf_data_ptr' => admin_buf_data'[q] = admin_pkt'[q + 1]
      /\ IsPrefix(admin_pkt, admin_pkt')
  <2>1. Flushed(x, 8)
    BY <1>2, Flush
  <2> HIDE DEF x
  <2> QED
    BY <2>1 DEF Flushed
<1>4. /\ m' = m + 64 /\ Sized(admin_pkt', m')
      /\ \A i \in 1 .. m : admin_pkt'[i] = admin_pkt[i]
      /\ \A b \in 1 .. 64 : admin_pkt'[m + b] = x[64 - b]
  <2>1. m' = m + 64
    <3>1. admin_buf_data_ptr \in Nat
      BY DEF Buffer
    <3> QED
      BY <1>3, <3>1
  <2> QED
    BY <1>3, <2>1
<1>5. ASSUME NEW p \in WordBits PROVE x[p] = IF p >= clean THEN admin_buf[p] ELSE v[clean - p]
  <2>1. x[p] = IF admin_buf[p] = Zero THEN Shr(info, aw)[p]
               ELSE IF Shr(info, aw)[p] = Zero THEN admin_buf[p] ELSE Clash
    BY DEF Or
  <2>2. p + aw <= 63 => p + aw \in WordBits /\ k - (p + aw) = clean - p
    BY <1>0 DEF WordBits
  <2>3. Shr(info, aw)[p] = IF p + aw <= 63 THEN info[p + aw] ELSE Zero
    BY DEF Shr
  <2>4. Shr(info, aw)[p] = IF p >= clean THEN Zero ELSE v[clean - p]
    <3>1. p < clean <=> p + aw <= 63 /\ p + aw < k
      BY <1>0 DEF WordBits
    <3>2. p < clean <=> ~(p >= clean)
      BY <1>0 DEF WordBits
    <3> QED
      BY <2>2, <2>3, <3>1, <3>2
  <2>5. p < clean => admin_buf[p] = Zero
    BY <1>1
  <2>6. p \in Int /\ clean \in Int
    BY <1>0 DEF WordBits
  <2> HIDE DEF x
  <2> QED
    BY <2>1, <2>4, <2>5, <2>6
<1> HIDE DEF x
<1>6. ASSUME NEW p \in WordBits
      PROVE  admin_buf'[p] = IF p >= 64 - aw THEN v[(clean + 64) - p] ELSE Zero
  <2>1. admin_buf'[p] = IF p >= 64 - aw THEN And(info, 0 .. aw)[p - (64 - aw)] ELSE Zero
    BY <1>2 DEF Shl
  <2>2. ASSUME p >= 64 - aw
        PROVE  /\ p - (64 - aw) \in WordBits /\ p - (64 - aw) \in 0 .. aw /\ p - (64 - aw) < k
               /\ k - (p - (64 - aw)) = (clean + 64) - p
    BY <1>0, <2>2 DEF WordBits
  <2>3. ASSUME p >= 64 - aw
        PROVE  And(info, 0 .. aw)[p - (64 - aw)] = info[p - (64 - aw)]
    BY <2>2, <2>3 DEF And
  <2>4. ASSUME p >= 64 - aw
        PROVE  info[p - (64 - aw)] = v[(clean + 64) - p]
    BY <2>2, <2>4
  <2> QED
    BY <2>1, <2>3, <2>4
<1> HIDE DEF clean, m, aw
<1>7. Buffer'
  <2>1. \A p \in WordBits : p < clean' => admin_buf'[p] = Zero
    <3>1. clean' = 64 - aw
      BY <1>2
    <3> QED
      BY <1>0, <3>1, <1>6 DEF WordBits
  <2>2. admin_buf_data_ptr' \in Nat /\ admin_buf_data_ptr' % 4 = 0
    <3>1. admin_buf_data_ptr \in Nat /\ admin_buf_data_ptr % 4 = 0
      BY DEF Buffer
    <3>2. admin_buf_data_ptr' = admin_buf_data_ptr + 8
      BY <1>3
    <3> QED
      BY <3>1, <3>2
  <2> QED
    BY <1>2, <1>3, <2>1, <2>2 DEF Buffer, clean
<1>8. Written' = Written \o v
  <2>1. m' \in Nat /\ m' + (64 - clean') = m + (64 - clean) + k
    BY <1>1, <1>2, <1>4 DEF aw
  <2>2. ASSUME NEW i \in 1 .. m + 64
        PROVE  BitAt(admin_pkt', m', admin_buf', i) = IF i <= m THEN admin_pkt[i] ELSE x[64 - (i - m)]
    <3>1. i <= m'
      BY <1>1, <1>4
    <3>2. CASE i <= m
      BY <1>4, <3>1, <3>2 DEF BitAt
    <3>3. CASE ~(i <= m)
      <4>1. i - m \in 1 .. 64 /\ m + (i - m) = i
        BY <1>1, <3>3
      <4> QED
        BY <1>4, <3>1, <3>3, <4>1 DEF BitAt
    <3> QED
      BY <3>2, <3>3
  <2>3. ASSUME NEW i \in 1 .. m + (64 - clean)
        PROVE  BitAt(admin_pkt', m', admin_buf', i) = BitAt(admin_pkt, m, admin_buf, i)
    <3>1. i \in 1 .. m + 64
      BY <1>1
    <3>2. CASE i <= m
      BY <2>2, <3>1, <3>2 DEF BitAt
    <3>3. CASE ~(i <= m)
      <4>1. 64 - (i - m) \in WordBits /\ 64 - (i - m) >= clean
        BY <1>0, <3>3 DEF WordBits
      <4> QED
        BY <1>5, <2>2, <3>1, <3>3, <4>1 DEF BitAt
    <3> QED
      BY <3>2, <3>3
  <2>4. ASSUME NEW i \in 1 .. k
        PROVE  BitAt(admin_pkt', m', admin_buf', m + (64 - clean) + i) = v[i]
    <3> DEFINE j == m + (64 - clean) + i
    <3>1. CASE i <= clean
      <4>1. j \in 1 .. m + 64 /\ ~(j <= m) /\ 64 - (j - m) \in WordBits
            /\ ~(64 - (j - m) >= clean) /\ clean - (64 - (j - m)) = i
        BY <1>0, <3>1 DEF WordBits
      <4>2. BitAt(admin_pkt', m', admin_buf', j) = x[64 - (j - m)]
        BY <2>2, <4>1
      <4> HIDE DEF j
      <4>3. x[64 - (j - m)] = v[i]
        BY <1>5, <4>1
      <4> QED
        BY <4>2, <4>3 DEF j
    <3>2. CASE ~(i <= clean)
      <4> DEFINE p == 64 - (j - (m + 64))
      <4>1. ~(j <= m + 64) /\ p \in WordBits /\ p >= 64 - aw /\ (clean + 64) - p = i
        BY <1>0, <3>2 DEF WordBits
      <4>2. BitAt(admin_pkt', m', admin_buf', j) = admin_buf'[p]
        BY <1>4, <4>1 DEF BitAt
      <4> HIDE DEF p, j
      <4>3. admin_buf'[p] = v[i]
        BY <1>6, <4>1
      <4> QED
        BY <4>2, <4>3 DEF j
    <3> QED
      BY <3>1, <3>2
  <2>5. WrittenOf(admin_pkt', admin_buf', clean') = WrittenOf(admin_pkt, admin_buf, clean) \o v
    <3>1. Grown(admin_pkt, m, admin_buf, clean, admin_pkt', m', admin_buf', clean', v, k)
      <4>1. /\ m \in Nat /\ m' \in Nat /\ clean \in 0 .. 64 /\ clean' \in 0 .. 64
            /\ Sized(admin_pkt, m) /\ Sized(admin_pkt', m') /\ Sized(v, k)
        BY <1>1, <1>2, <1>4, <2>1
      <4>2. k \in Nat
        OBVIOUS
      <4>3. \A i \in 1 .. m + (64 - clean) :
               BitAt(admin_pkt', m', admin_buf', i) = BitAt(admin_pkt, m, admin_buf, i)
        BY <2>3
      <4>4. \A i \in 1 .. k : BitAt(admin_pkt', m', admin_buf', m + (64 - clean) + i) = v[i]
        BY <2>4
      <4> QED
        BY <2>1, <4>1, <4>2, <4>3, <4>4, Zenon DEF Grown
    <3> QED
      BY <3>1, WrittenGrows
  <2> QED
    BY <2>5 DEF Written, clean
<1> QED
  BY <1>3, <1>7, <1>8 DEF Appends

\* A call of write_admin_buf adds the bits of its argument, wherever in the
\* buffer they come to lie.
THEOREM WriteAppends ==
  ASSUME Buffer, NEW v, NEW k \in 1 .. 64, Sized(v, k), write_admin_buf(v)
  PROVE  Appends(v)
<1> DEFINE info == Shr(reverse_bits_64(Word(v)), 64 - k)
<1>1. Len(v) = k
  BY SizedSeq
<1>2. \A p \in WordBits : info[p] = IF p < k THEN v[k - p] ELSE Zero
  BY InfoBits
<1>3. Fit(info, k) \/ Split(info, k)
  BY <1>1 DEF write_admin_buf
<1> HIDE DEF info
<1> QED
  BY <1>2, <1>3, FitAppends, SplitAppends

\* A close adds zeros up to a whole 32-bit word and leaves nothing in the buffer.
LEMMA CloseAppends ==
  ASSUME Buffer, Close
  PROVE  /\ Appends([b \in 1 .. (32 - ((64 - admin_buf_bits_clean) % 32)) % 32 |-> Zero])
         /\ admin_buf_bits_clean' = 64
<1> DEFINE clean == admin_buf_bits_clean
           m == 8 * admin_buf_data_ptr
           n == 4 * ((((64 - clean) + 7) \div 8 + 3) \div 4)
           k == (32 - ((64 - clean) % 32)) % 32
           v == [b \in 1 .. k |-> Zero]
<1>1. /\ clean \in 0 .. 64 /\ m \in Nat /\ Sized(admin_pkt, m)
      /\ \A p \in WordBits : p < clean => admin_buf[p] = Zero
  BY BufferFacts
<1>2. /\ n \in {0, 4, 8} /\ 8 * n = (64 - clean) + k /\ 8 * n <= 64 /\ k \in Nat
  BY <1>1
<1>3. clean' = 64 /\ admin_buf' = Word(<< >>)
      /\ write_admin_buf_item_and_hash(reverse_bits_byte_64(bswap_64(admin_buf)), n)
  BY DEF Close
<1>4. Sized(v, k) /\ \A i \in 1 .. k : v[i] = Zero
  BY <1>2, Zenon DEF Sized
<1> HIDE DEF n, v, k, m
<1>5. /\ admin_buf_data_ptr' = admin_buf_data_ptr + n
      /\ Sized(admin_pkt', 8 * admin_buf_data_ptr')
      /\ \A i \in 1 .. 8 * admin_buf_data_ptr : admin_pkt'[i] = admin_pkt[i]
      /\ \A b \in 1 .. 8 * n : admin_pkt'[8 * admin_buf_data_ptr + b] = admin_buf[64 - b]
      /\ DOMAIN admin_buf_data' = CopyBits
      /\ \A q \in CopyBits : q < 8 * admin_buf_data_ptr' => admin_buf_data'[q] = admin_pkt'[q + 1]
      /\ IsPrefix(admin_pkt, admin_pkt')
  <2>1. Flushed(admin_buf, n)
    BY <1>2, <1>3, Flush
  <2> QED
    BY <2>1 DEF Flushed
<1>6. /\ m' = m + 8 * n /\ Sized(admin_pkt', m')
      /\ \A i \in 1 .. m : admin_pkt'[i] = admin_pkt[i]
      /\ \A b \in 1 .. 8 * n : admin_pkt'[m + b] = admin_buf[64 - b]
  <2>1. m' = m + 8 * n
    <3>1. admin_buf_data_ptr \in Nat
      BY DEF Buffer
    <3>2. admin_buf_data_ptr' = admin_buf_data_ptr + n
      BY <1>5
    <3> QED
      BY <1>2, <3>1, <3>2 DEF m
  <2> QED
    BY <1>5, <2>1 DEF m
<1>7. Buffer'
  <2>1. \A p \in WordBits : admin_buf'[p] = Zero
    BY <1>3 DEF Word, WordBits
  <2>2. admin_buf_data_ptr' \in Nat /\ admin_buf_data_ptr' % 4 = 0
    <3>1. admin_buf_data_ptr \in Nat /\ admin_buf_data_ptr % 4 = 0
      BY DEF Buffer
    <3>2. admin_buf_data_ptr' = admin_buf_data_ptr + n
      BY <1>5
    <3> QED
      BY <1>2, <3>1, <3>2
  <2>3. clean' \in 0 .. 64
    BY <1>3
  <2> QED
    BY <1>5, <2>1, <2>2, <2>3 DEF Buffer
<1>0. clean \in 0 .. 64 /\ m \in Nat /\ n \in Nat /\ k \in Nat /\ 8 * n = (64 - clean) + k /\ 8 * n <= 64
  BY <1>1, <1>2
<1>8. Written' = Written \o v
  <2>1. m' \in Nat /\ m' + (64 - clean') = m + (64 - clean) + k
    BY <1>0, <1>3, <1>6
  <2>2. ASSUME NEW i \in 1 .. m + 8 * n
        PROVE  BitAt(admin_pkt', m', admin_buf', i) = BitAt(admin_pkt, m, admin_buf, i)
    <3>1. i <= m'
      BY <1>0, <1>6
    <3>2. CASE i <= m
      BY <1>6, <3>1, <3>2 DEF BitAt
    <3>3. CASE ~(i <= m)
      <4>1. i - m \in 1 .. 8 * n /\ m + (i - m) = i
        BY <1>0, <3>3
      <4> QED
        BY <1>6, <3>1, <3>3, <4>1 DEF BitAt
    <3> QED
      BY <3>2, <3>3
  <2>3. ASSUME NEW i \in 1 .. m + (64 - clean)
        PROVE  BitAt(admin_pkt', m', admin_buf', i) = BitAt(admin_pkt, m, admin_buf, i)
    <3>1. i \in 1 .. m + 8 * n
      BY <1>0
    <3> QED
      BY <2>2, <3>1
  <2>4. ASSUME NEW i \in 1 .. k
        PROVE  BitAt(admin_pkt', m', admin_buf', m + (64 - clean) + i) = v[i]
    <3> DEFINE j == m + (64 - clean) + i
    <3>1. j \in 1 .. m + 8 * n /\ ~(j <= m) /\ 64 - (j - m) \in WordBits /\ 64 - (j - m) < clean
      BY <1>0 DEF WordBits
    <3> HIDE DEF j
    <3>2. BitAt(admin_pkt', m', admin_buf', j) = admin_buf[64 - (j - m)]
      BY <2>2, <3>1 DEF BitAt
    <3>3. admin_buf[64 - (j - m)] = Zero
      BY <1>1, <3>1
    <3> QED
      BY <1>4, <3>2, <3>3 DEF j
  <2>5. Grown(admin_pkt, m, admin_buf, clean, admin_pkt', m', admin_buf', clean', v, k)
    BY <1>0, <1>1, <1>3, <1>4, <1>6, <2>1, <2>3, <2>4 DEF Grown
  <2>6. WrittenOf(admin_pkt', admin_buf', clean') = WrittenOf(admin_pkt, admin_buf, clean) \o v
    BY <2>5, WrittenGrows
  <2> QED
    BY <2>6 DEF Written
<1>9. Appends(v)
  BY <1>5, <1>7, <1>8 DEF Appends
<1> QED
  BY <1>3, <1>9 DEF v, k

-------------------------------------------------------------------------------
(* The calls of write_to_admin_pkt and where their bits come to lie.         *)

\* The fields of a section, in the order of their calls: flag, length, end
\* pointers and cells.
Heads(x) == IF x = "dns" THEN 4 ELSE 2
Count(x) == Heads(x) + Depth * Cells[x]

FieldOf(x, k) == IF k = 1 THEN BW(x)
                 ELSE IF k = 2 THEN Length(x)
                 ELSE IF k <= Heads(x) THEN EndPtr(k - 3)
                 ELSE Cell(x, (k - (Heads(x) + 1)) \div Cells[x], (k - (Heads(x) + 1)) % Cells[x])

\* The bits of a field in a packet.
ValueOf(c, fld) == IF IsPort(fld) THEN htons(Symbols(c, fld)) ELSE Symbols(c, fld)

LEMMA Widths ==
  /\ Width(ReplyType) = 1
  /\ \A x \in Sections : Width(BW(x)) = 1 /\ Width(Length(x)) = 2
  /\ \A i \in 0 .. 1 : Width(EndPtr(i)) = 8
  /\ \A x \in Sections : \A i, j \in Nat : Width(Cell(x, i, j)) = IF x \in Ports THEN 16 ELSE 8
<1>1. Width(ReplyType) = 1
  BY DEF Width, ReplyType, IsPort
<1>2. ASSUME NEW x \in Sections PROVE Width(BW(x)) = 1 /\ Width(Length(x)) = 2
  BY DEF Width, BW, Length, IsPort
<1>3. ASSUME NEW i \in 0 .. 1 PROVE Width(EndPtr(i)) = 8
  BY DEF Width, EndPtr, IsPort
<1>4. ASSUME NEW x \in Sections, NEW i \in Nat, NEW j \in Nat
      PROVE  Width(Cell(x, i, j)) = IF x \in Ports THEN 16 ELSE 8
  BY DEF Width, Cell, IsPort
<1> QED
  BY <1>1, <1>2, <1>3, <1>4

LEMMA AreFields ==
  /\ ReplyType \in FilterFields
  /\ \A x \in Sections : BW(x) \in FilterFields /\ Length(x) \in FilterFields
  /\ \A i \in 0 .. 1 : EndPtr(i) \in FilterFields
  /\ \A x \in Sections : \A i \in 0 .. 1, j \in 0 .. Cells[x] - 1 : Cell(x, i, j) \in FilterFields
<1> DEFINE Flags == {BW(x) : x \in Sections}
           Lengths == {Length(x) : x \in Sections}
           Lists == UNION {ListFields(x) : x \in Sections}
           Ptrs == {EndPtr(i) : i \in 0 .. Depth - 1}
<1>1. \A x \in Sections : BW(x) \in Flags /\ Length(x) \in Lengths
  BY Zenon
<1>2. ASSUME NEW i \in 0 .. 1 PROVE EndPtr(i) \in Ptrs
  <2>1. i \in 0 .. Depth - 1
    BY DEF Depth
  <2> QED
    BY <2>1, Zenon
<1>3. ASSUME NEW x \in Sections, NEW i \in 0 .. 1, NEW j \in 0 .. Cells[x] - 1
      PROVE  Cell(x, i, j) \in Lists
  <2>1. i \in 0 .. Depth - 1
    BY DEF Depth
  <2>2. Cell(x, i, j) \in ListFields(x)
    BY <2>1 DEF ListFields
  <2> QED
    BY <2>2, Zenon
<1>4. FilterFields = Flags \cup Lengths \cup Lists \cup Ptrs \cup {ReplyType}
  BY Zenon DEF FilterFields
<1> HIDE DEF Flags, Lengths, Lists, Ptrs
<1> QED
  BY <1>1, <1>2, <1>3, <1>4

LEMMA CellNumbers ==
  /\ \A x \in Sections : Cells[x] \in 1 .. 16
  /\ Cells["srcMAC"] = 6 /\ Cells["dstMAC"] = 6 /\ Cells["srcIP"] = 4 /\ Cells["dstIP"] = 4
  /\ Cells["srcPort"] = 1 /\ Cells["dstPort"] = 1 /\ Cells["dns"] = 16
BY DEF Cells, Sections

LEMMA SymbolsSized ==
  ASSUME NEW c, NEW fld, Width(fld) \in Nat
  PROVE  /\ Sized(Symbols(c, fld), Width(fld))
         /\ \A b \in 1 .. Width(fld) : Symbols(c, fld)[b] = <<c, fld, b>>
BY Zenon DEF Symbols, Sized

LEMMA HtonsBits ==
  ASSUME NEW v, Sized(v, 16)
  PROVE  Sized(htons(v), 16) /\ \A b \in 1 .. 16 : htons(v)[b] = v[IF b <= 8 THEN b + 8 ELSE b - 8]
<1> DEFINE h == SubSeq(v, 9, 16)
           l == SubSeq(v, 1, 8)
<1>1. v \in Seq({v[i] : i \in 1 .. 16}) /\ Len(v) = 16
  BY SizedSeq
<1>2. Sized(h, 8) /\ \A i \in 1 .. 8 : h[i] = v[i + 8]
  <2>1. h = [i \in 1 .. 8 |-> v[i + 8]]
    BY <1>1
  <2> QED
    BY <2>1 DEF Sized
<1>3. Sized(l, 8) /\ \A i \in 1 .. 8 : l[i] = v[i]
  <2>1. l = [i \in 1 .. 8 |-> v[i]]
    BY <1>1
  <2> QED
    BY <2>1 DEF Sized
<1>4. htons(v) = h \o l
  BY DEF htons
<1> HIDE DEF h, l
<1>5. Joined(htons(v), h, 8, l, 8)
  BY <1>2, <1>3, <1>4, SizedCat
<1>6. ASSUME NEW b \in 1 .. 16 PROVE htons(v)[b] = v[IF b <= 8 THEN b + 8 ELSE b - 8]
  <2>1. CASE b <= 8
    BY <1>2, <1>5, <2>1 DEF Joined
  <2>2. CASE ~(b <= 8)
    <3>1. b - 8 \in 1 .. 8 /\ 8 + (b - 8) = b
      BY <2>2
    <3> QED
      BY <1>3, <1>5, <2>2, <3>1 DEF Joined
  <2> QED
    BY <2>1, <2>2
<1> QED
  BY <1>5, <1>6 DEF Joined

LEMMA Pair == ASSUME NEW a, NEW b PROVE Sized(<<a, b>>, 2) /\ <<a, b>>[1] = a /\ <<a, b>>[2] = b
BY DEF Sized

LEMMA PortCells ==
  /\ ~IsPort(ReplyType)
  /\ \A x \in Sections : ~IsPort(BW(x)) /\ ~IsPort(Length(x))
  /\ \A i \in 0 .. 1 : ~IsPort(EndPtr(i))
  /\ \A x \in Sections : \A i, j \in Nat : IsPort(Cell(x, i, j)) <=> x \in Ports
<1>1. ~IsPort(ReplyType)
  BY DEF IsPort, ReplyType
<1>2. ASSUME NEW x \in Sections PROVE ~IsPort(BW(x)) /\ ~IsPort(Length(x))
  BY DEF IsPort, BW, Length
<1>3. ASSUME NEW i \in 0 .. 1 PROVE ~IsPort(EndPtr(i))
  BY DEF IsPort, EndPtr
<1>4. ASSUME NEW x \in Sections, NEW i \in Nat, NEW j \in Nat PROVE IsPort(Cell(x, i, j)) <=> x \in Ports
  BY DEF IsPort, Cell
<1> QED
  BY <1>1, <1>2, <1>3, <1>4

\* The number of the item and of the cell in it.
LEMMA CellIndex ==
  ASSUME NEW x \in Sections, NEW n \in 0 .. 2 * Cells[x] - 1
  PROVE  n \div Cells[x] \in 0 .. 1 /\ n % Cells[x] \in 0 .. Cells[x] - 1
<1>1. Cells[x] \in {1, 4, 6, 16}
  BY CellNumbers DEF Sections
<1> QED
  BY <1>1

LEMMA CellCallsAt ==
  ASSUME NEW c, NEW x \in Sections
  PROVE  /\ Sized(CellCalls(c, x), 2 * Cells[x])
         /\ \A n \in 1 .. 2 * Cells[x] : CellCalls(c, x)[n] =
              Call(ValueOf(c, Cell(x, (n - 1) \div Cells[x], (n - 1) % Cells[x])))
<1> DEFINE N == 2 * Cells[x]
           V(n) == filter(c)[Cell(x, (n - 1) \div Cells[x], (n - 1) % Cells[x])]
           E(n) == Call(IF x \in Ports THEN htons(V(n)) ELSE V(n))
<1>1. N \in Nat /\ Depth * Cells[x] = N
  BY CellNumbers DEF Depth
<1>2. CellCalls(c, x) = [n \in 1 .. N |-> E(n)]
  BY <1>1, Zenon DEF CellCalls
<1> HIDE DEF E, N
<1>3. Sized(CellCalls(c, x), N) /\ \A n \in 1 .. N : CellCalls(c, x)[n] = E(n)
  BY <1>1, <1>2, Zenon DEF Sized
<1>4. ASSUME NEW n \in 1 .. N
      PROVE  E(n) = Call(ValueOf(c, Cell(x, (n - 1) \div Cells[x], (n - 1) % Cells[x])))
  <2> DEFINE i == (n - 1) \div Cells[x]
             j == (n - 1) % Cells[x]
  <2>1. n - 1 \in 0 .. 2 * Cells[x] - 1
    BY CellNumbers DEF N
  <2>2. i \in 0 .. 1 /\ j \in 0 .. Cells[x] - 1
    BY <2>1, CellIndex
  <2>3. i \in Nat /\ j \in Nat
    BY <2>2, CellNumbers
  <2>4. E(n) = Call(IF x \in Ports THEN htons(filter(c)[Cell(x, i, j)]) ELSE filter(c)[Cell(x, i, j)])
    BY DEF E
  <2> HIDE DEF i, j
  <2>5. Cell(x, i, j) \in FilterFields
    BY <2>2, AreFields
  <2>6. filter(c)[Cell(x, i, j)] = Symbols(c, Cell(x, i, j))
    BY <2>5, Zenon DEF filter
  <2>7. IsPort(Cell(x, i, j)) <=> x \in Ports
    BY <2>3, PortCells
  <2>8. E(n) = Call(ValueOf(c, Cell(x, i, j)))
    BY <2>4, <2>6, <2>7 DEF ValueOf
  <2> QED
    BY <2>8 DEF i, j
<1> QED
  BY <1>3, <1>4 DEF N

\* Where a sequence lies in another.
Lies(u, o, s, n) == \A i \in 1 .. n : u[o + i] = s[i]

LEMMA LiesOn ==
  ASSUME NEW u, NEW s, NEW m \in Nat, NEW t, NEW n \in Nat, Joined(u, s, m, t, n)
  PROVE  /\ Lies(u, m, t, n) /\ Lies(u, 0, s, m)
         /\ \A r : \A o, k \in Nat : Lies(s, o, r, k) /\ o + k <= m => Lies(u, o, r, k)
BY DEF Joined, Lies

LEMMA SectionCallsAt ==
  ASSUME NEW c, NEW x \in Sections
  PROVE  /\ Sized(SectionCalls(c, x), Count(x))
         /\ \A k \in 1 .. Count(x) : SectionCalls(c, x)[k] = Call(ValueOf(c, FieldOf(x, k)))
<1> DEFINE h == <<Call(filter(c)[BW(x)]), Call(filter(c)[Length(x)])>>
           e == IF x = "dns" THEN [n \in 1 .. Depth |-> Call(filter(c)[EndPtr(n - 1)])] ELSE << >>
           l == CellCalls(c, x)
           N == 2 * Cells[x]
<1>1. /\ Call(filter(c)[BW(x)]) = Call(ValueOf(c, BW(x)))
      /\ Call(filter(c)[Length(x)]) = Call(ValueOf(c, Length(x)))
  <2>1. filter(c)[BW(x)] = Symbols(c, BW(x)) /\ filter(c)[Length(x)] = Symbols(c, Length(x))
    BY AreFields, Zenon DEF filter
  <2> QED
    BY <2>1, PortCells DEF ValueOf
<1>2. Sized(h, 2) /\ h[1] = Call(ValueOf(c, BW(x))) /\ h[2] = Call(ValueOf(c, Length(x)))
  BY <1>1, Pair
<1>3. Sized(e, Heads(x) - 2) /\ \A k \in 1 .. Heads(x) - 2 : e[k] = Call(ValueOf(c, EndPtr(k - 1)))
  <2>1. CASE x = "dns"
    <3>1. e = [n \in 1 .. 2 |-> Call(filter(c)[EndPtr(n - 1)])]
      BY <2>1 DEF Depth
    <3> HIDE DEF e
    <3>2. ASSUME NEW k \in 1 .. 2 PROVE filter(c)[EndPtr(k - 1)] = ValueOf(c, EndPtr(k - 1))
      <4>1. k - 1 \in 0 .. 1
        OBVIOUS
      <4>2. EndPtr(k - 1) \in FilterFields /\ ~IsPort(EndPtr(k - 1))
        BY <4>1, AreFields, PortCells
      <4> QED
        BY <4>2, Zenon DEF filter, ValueOf
    <3>3. Sized(e, 2) /\ \A k \in 1 .. 2 : e[k] = Call(filter(c)[EndPtr(k - 1)])
      BY <3>1, Zenon DEF Sized
    <3>4. Heads(x) - 2 = 2
      BY <2>1 DEF Heads
    <3> QED
      BY <3>2, <3>3, <3>4
  <2>2. CASE x # "dns"
    <3>1. Heads(x) - 2 = 0 /\ e = << >>
      BY <2>2 DEF Heads
    <3> HIDE DEF e
    <3> QED
      BY <3>1 DEF Sized
  <2> QED
    BY <2>1, <2>2
<1>4. Sized(l, N) /\ \A n \in 1 .. N : l[n] =
              Call(ValueOf(c, Cell(x, (n - 1) \div Cells[x], (n - 1) % Cells[x])))
  BY CellCallsAt
<1>5. SectionCalls(c, x) = (h \o e) \o l
  BY Zenon DEF SectionCalls
<1> HIDE DEF h, e, l, N
<1>6. Heads(x) \in {2, 4} /\ N \in Nat /\ Count(x) = 2 + (Heads(x) - 2) + N /\ N = 2 * Cells[x]
  BY CellNumbers DEF Heads, N, Count, Depth
<1>7. Joined(h \o e, h, 2, e, Heads(x) - 2)
  BY <1>2, <1>3, SizedCat
<1>8. Sized(h \o e, 2 + (Heads(x) - 2))
  BY <1>7 DEF Joined
<1>9. Joined(SectionCalls(c, x), h \o e, 2 + (Heads(x) - 2), l, N)
  BY <1>4, <1>5, <1>8, SizedCat
<1> DEFINE u == h \o e
           S == SectionCalls(c, x)
<1> HIDE DEF u, S
<1>10. /\ \A i \in 1 .. 2 + (Heads(x) - 2) : S[i] = u[i]
       /\ \A i \in 1 .. N : S[2 + (Heads(x) - 2) + i] = l[i]
       /\ Sized(S, Count(x))
       /\ \A i \in 1 .. 2 : u[i] = h[i]
       /\ \A i \in 1 .. Heads(x) - 2 : u[2 + i] = e[i]
  BY <1>6, <1>7, <1>9 DEF Joined, S, u
<1>11. ASSUME NEW k \in 1 .. Count(x) PROVE S[k] = Call(ValueOf(c, FieldOf(x, k)))
  <2>1. CASE k = 1
    BY <1>2, <1>6, <1>10, <2>1 DEF FieldOf
  <2>2. CASE k = 2
    BY <1>2, <1>6, <1>10, <2>2 DEF FieldOf
  <2>3. CASE k > 2 /\ k <= Heads(x)
    <3>1. k - 2 \in 1 .. Heads(x) - 2 /\ k \in 1 .. 2 + (Heads(x) - 2) /\ 2 + (k - 2) = k /\ (k - 2) - 1 = k - 3
          /\ k # 1 /\ k # 2
      BY <1>6, <2>3
    <3>2. S[k] = e[k - 2]
      BY <1>10, <3>1
    <3>3. e[k - 2] = Call(ValueOf(c, EndPtr(k - 3)))
      BY <1>3, <3>1
    <3> QED
      BY <2>3, <3>1, <3>2, <3>3 DEF FieldOf
  <2>4. CASE k > Heads(x)
    <3> DEFINE n == k - Heads(x)
    <3>1. n \in 1 .. N /\ 2 + (Heads(x) - 2) + n = k /\ n - 1 = k - (Heads(x) + 1)
          /\ k # 1 /\ k # 2 /\ ~(k <= Heads(x))
      BY <1>6, <2>4
    <3> HIDE DEF n
    <3>2. S[k] = l[n]
      BY <1>10, <3>1
    <3>3. l[n] = Call(ValueOf(c, Cell(x, (n - 1) \div Cells[x], (n - 1) % Cells[x])))
      BY <1>4, <3>1
    <3>4. FieldOf(x, k) = Cell(x, (k - (Heads(x) + 1)) \div Cells[x], (k - (Heads(x) + 1)) % Cells[x])
      BY <3>1 DEF FieldOf
    <3> QED
      BY <3>1, <3>2, <3>3, <3>4
  <2> QED
    BY <1>6, <2>1, <2>2, <2>3, <2>4
<1> QED
  BY <1>10, <1>11 DEF S

\* The list of calls of write_to_admin_pkt.
Layout(P, c) ==
  /\ Sized(P, 101)
  /\ Lies(P, 0, SectionCalls(c, "srcMAC"), 14)
  /\ Lies(P, 14, SectionCalls(c, "dstMAC"), 14)
  /\ Lies(P, 28, SectionCalls(c, "srcIP"), 10)
  /\ Lies(P, 38, SectionCalls(c, "dstIP"), 10)
  /\ Lies(P, 48, SectionCalls(c, "srcPort"), 4)
  /\ Lies(P, 52, SectionCalls(c, "dstPort"), 4)
  /\ Lies(P, 56, SectionCalls(c, "dns"), 36)
  /\ P[93] = Call(ValueOf(c, ReplyType)) /\ P[94] = CloseCall
  /\ \A n \in 95 .. 98 : P[n] = Call(ZeroWord)
  /\ P[99] = CloseCall /\ P[100] = TagCall /\ P[101] = CloseCall

LEMMA ProgramAt ==
  ASSUME NEW c
  PROVE  Layout(write_to_admin_pkt(c), c)
<1> DEFINE s1 == SectionCalls(c, "srcMAC")
           s2 == SectionCalls(c, "dstMAC")
           s3 == SectionCalls(c, "srcIP")
           s4 == SectionCalls(c, "dstIP")
           s5 == SectionCalls(c, "srcPort")
           s6 == SectionCalls(c, "dstPort")
           s7 == SectionCalls(c, "dns")
           s8 == <<Call(filter(c)[ReplyType]), CloseCall>>
           s9 == [n \in 1 .. 4 |-> Call(ZeroWord)]
           s10 == <<CloseCall>>
           s11 == <<TagCall, CloseCall>>
           t2 == s1 \o s2
           t3 == t2 \o s3
           t4 == t3 \o s4
           t5 == t4 \o s5
           t6 == t5 \o s6
           t7 == t6 \o s7
           t8 == t7 \o s8
           t9 == t8 \o s9
           t10 == t9 \o s10
           t11 == t10 \o s11
<1>1. ValueOf(c, ReplyType) = filter(c)[ReplyType]
  BY AreFields, PortCells, Zenon DEF ValueOf, filter
<1>2. write_to_admin_pkt(c) = t11
  BY Zenon DEF write_to_admin_pkt
<1>3. /\ Sized(s1, 14) /\ Sized(s2, 14) /\ Sized(s3, 10) /\ Sized(s4, 10) /\ Sized(s5, 4) /\ Sized(s6, 4)
      /\ Sized(s7, 36)
  <2>1. /\ Count("srcMAC") = 14 /\ Count("dstMAC") = 14 /\ Count("srcIP") = 10 /\ Count("dstIP") = 10
        /\ Count("srcPort") = 4 /\ Count("dstPort") = 4 /\ Count("dns") = 36
    BY CellNumbers DEF Count, Heads, Depth
  <2>2. \A x \in Sections : Sized(SectionCalls(c, x), Count(x))
    BY SectionCallsAt
  <2>3. {"srcMAC", "dstMAC", "srcIP", "dstIP", "srcPort", "dstPort", "dns"} = Sections
    BY DEF Sections
  <2> QED
    BY <2>1, <2>2, <2>3
<1>4. Sized(s8, 2) /\ s8[1] = Call(ValueOf(c, ReplyType)) /\ s8[2] = CloseCall
  BY <1>1, Pair
<1>5. Sized(s9, 4) /\ \A n \in 1 .. 4 : s9[n] = Call(ZeroWord)
  BY DEF Sized
<1>6. Sized(s10, 1) /\ s10[1] = CloseCall
  BY DEF Sized
<1>7. Sized(s11, 2) /\ s11[1] = TagCall /\ s11[2] = CloseCall
  BY Pair
<1> HIDE DEF s1, s2, s3, s4, s5, s6, s7, s8, s9, s10, s11
<1>8. /\ Sized(t2, 28)
      /\ Lies(t2, 0, s1, 14)
      /\ Lies(t2, 14, s2, 14)
  <2>1. Joined(t2, s1, 14, s2, 14)
    BY <1>3, SizedCat
  <2> HIDE DEF t2
  <2>2. Sized(t2, 28)
    BY <2>1 DEF Joined
  <2>3. /\ Lies(t2, 14, s2, 14) /\ Lies(t2, 0, s1, 14)
        /\ \A r : \A o, n \in Nat : Lies(s1, o, r, n) /\ o + n <= 14 => Lies(t2, o, r, n)
    BY <2>1, LiesOn
  <2> QED
    BY <2>2, <2>3
<1> HIDE DEF t2
<1>9. /\ Sized(t3, 38)
      /\ Lies(t3, 0, s1, 14)
      /\ Lies(t3, 14, s2, 14)
      /\ Lies(t3, 28, s3, 10)
  <2>1. Joined(t3, t2, 28, s3, 10)
    BY <1>8, <1>3, SizedCat
  <2> HIDE DEF t3
  <2>2. Sized(t3, 38)
    BY <2>1 DEF Joined
  <2>3. /\ Lies(t3, 28, s3, 10) /\ Lies(t3, 0, t2, 28)
        /\ \A r : \A o, n \in Nat : Lies(t2, o, r, n) /\ o + n <= 28 => Lies(t3, o, r, n)
    BY <2>1, LiesOn
  <2> QED
    BY <1>8, <2>2, <2>3
<1> HIDE DEF t3
<1>10. /\ Sized(t4, 48)
      /\ Lies(t4, 0, s1, 14)
      /\ Lies(t4, 14, s2, 14)
      /\ Lies(t4, 28, s3, 10)
      /\ Lies(t4, 38, s4, 10)
  <2>1. Joined(t4, t3, 38, s4, 10)
    BY <1>9, <1>3, SizedCat
  <2> HIDE DEF t4
  <2>2. Sized(t4, 48)
    BY <2>1 DEF Joined
  <2>3. /\ Lies(t4, 38, s4, 10) /\ Lies(t4, 0, t3, 38)
        /\ \A r : \A o, n \in Nat : Lies(t3, o, r, n) /\ o + n <= 38 => Lies(t4, o, r, n)
    BY <2>1, LiesOn
  <2> QED
    BY <1>9, <2>2, <2>3
<1> HIDE DEF t4
<1>11. /\ Sized(t5, 52)
      /\ Lies(t5, 0, s1, 14)
      /\ Lies(t5, 14, s2, 14)
      /\ Lies(t5, 28, s3, 10)
      /\ Lies(t5, 38, s4, 10)
      /\ Lies(t5, 48, s5, 4)
  <2>1. Joined(t5, t4, 48, s5, 4)
    BY <1>10, <1>3, SizedCat
  <2> HIDE DEF t5
  <2>2. Sized(t5, 52)
    BY <2>1 DEF Joined
  <2>3. /\ Lies(t5, 48, s5, 4) /\ Lies(t5, 0, t4, 48)
        /\ \A r : \A o, n \in Nat : Lies(t4, o, r, n) /\ o + n <= 48 => Lies(t5, o, r, n)
    BY <2>1, LiesOn
  <2> QED
    BY <1>10, <2>2, <2>3
<1> HIDE DEF t5
<1>12. /\ Sized(t6, 56)
      /\ Lies(t6, 0, s1, 14)
      /\ Lies(t6, 14, s2, 14)
      /\ Lies(t6, 28, s3, 10)
      /\ Lies(t6, 38, s4, 10)
      /\ Lies(t6, 48, s5, 4)
      /\ Lies(t6, 52, s6, 4)
  <2>1. Joined(t6, t5, 52, s6, 4)
    BY <1>11, <1>3, SizedCat
  <2> HIDE DEF t6
  <2>2. Sized(t6, 56)
    BY <2>1 DEF Joined
  <2>3. /\ Lies(t6, 52, s6, 4) /\ Lies(t6, 0, t5, 52)
        /\ \A r : \A o, n \in Nat : Lies(t5, o, r, n) /\ o + n <= 52 => Lies(t6, o, r, n)
    BY <2>1, LiesOn
  <2> QED
    BY <1>11, <2>2, <2>3
<1> HIDE DEF t6
<1>13. /\ Sized(t7, 92)
      /\ Lies(t7, 0, s1, 14)
      /\ Lies(t7, 14, s2, 14)
      /\ Lies(t7, 28, s3, 10)
      /\ Lies(t7, 38, s4, 10)
      /\ Lies(t7, 48, s5, 4)
      /\ Lies(t7, 52, s6, 4)
      /\ Lies(t7, 56, s7, 36)
  <2>1. Joined(t7, t6, 56, s7, 36)
    BY <1>12, <1>3, SizedCat
  <2> HIDE DEF t7
  <2>2. Sized(t7, 92)
    BY <2>1 DEF Joined
  <2>3. /\ Lies(t7, 56, s7, 36) /\ Lies(t7, 0, t6, 56)
        /\ \A r : \A o, n \in Nat : Lies(t6, o, r, n) /\ o + n <= 56 => Lies(t7, o, r, n)
    BY <2>1, LiesOn
  <2> QED
    BY <1>12, <2>2, <2>3
<1> HIDE DEF t7
<1>14. /\ Sized(t8, 94)
      /\ Lies(t8, 0, s1, 14)
      /\ Lies(t8, 14, s2, 14)
      /\ Lies(t8, 28, s3, 10)
      /\ Lies(t8, 38, s4, 10)
      /\ Lies(t8, 48, s5, 4)
      /\ Lies(t8, 52, s6, 4)
      /\ Lies(t8, 56, s7, 36)
      /\ Lies(t8, 92, s8, 2)
  <2>1. Joined(t8, t7, 92, s8, 2)
    BY <1>13, <1>4, SizedCat
  <2> HIDE DEF t8
  <2>2. Sized(t8, 94)
    BY <2>1 DEF Joined
  <2>3. /\ Lies(t8, 92, s8, 2) /\ Lies(t8, 0, t7, 92)
        /\ \A r : \A o, n \in Nat : Lies(t7, o, r, n) /\ o + n <= 92 => Lies(t8, o, r, n)
    BY <2>1, LiesOn
  <2> QED
    BY <1>13, <2>2, <2>3
<1> HIDE DEF t8
<1>15. /\ Sized(t9, 98)
      /\ Lies(t9, 0, s1, 14)
      /\ Lies(t9, 14, s2, 14)
      /\ Lies(t9, 28, s3, 10)
      /\ Lies(t9, 38, s4, 10)
      /\ Lies(t9, 48, s5, 4)
      /\ Lies(t9, 52, s6, 4)
      /\ Lies(t9, 56, s7, 36)
      /\ Lies(t9, 92, s8, 2)
      /\ Lies(t9, 94, s9, 4)
  <2>1. Joined(t9, t8, 94, s9, 4)
    BY <1>14, <1>5, SizedCat
  <2> HIDE DEF t9
  <2>2. Sized(t9, 98)
    BY <2>1 DEF Joined
  <2>3. /\ Lies(t9, 94, s9, 4) /\ Lies(t9, 0, t8, 94)
        /\ \A r : \A o, n \in Nat : Lies(t8, o, r, n) /\ o + n <= 94 => Lies(t9, o, r, n)
    BY <2>1, LiesOn
  <2> QED
    BY <1>14, <2>2, <2>3
<1> HIDE DEF t9
<1>16. /\ Sized(t10, 99)
      /\ Lies(t10, 0, s1, 14)
      /\ Lies(t10, 14, s2, 14)
      /\ Lies(t10, 28, s3, 10)
      /\ Lies(t10, 38, s4, 10)
      /\ Lies(t10, 48, s5, 4)
      /\ Lies(t10, 52, s6, 4)
      /\ Lies(t10, 56, s7, 36)
      /\ Lies(t10, 92, s8, 2)
      /\ Lies(t10, 94, s9, 4)
      /\ Lies(t10, 98, s10, 1)
  <2>1. Joined(t10, t9, 98, s10, 1)
    BY <1>15, <1>6, SizedCat
  <2> HIDE DEF t10
  <2>2. Sized(t10, 99)
    BY <2>1 DEF Joined
  <2>3. /\ Lies(t10, 98, s10, 1) /\ Lies(t10, 0, t9, 98)
        /\ \A r : \A o, n \in Nat : Lies(t9, o, r, n) /\ o + n <= 98 => Lies(t10, o, r, n)
    BY <2>1, LiesOn
  <2> QED
    BY <1>15, <2>2, <2>3
<1> HIDE DEF t10
<1>17. /\ Sized(t11, 101)
      /\ Lies(t11, 0, s1, 14)
      /\ Lies(t11, 14, s2, 14)
      /\ Lies(t11, 28, s3, 10)
      /\ Lies(t11, 38, s4, 10)
      /\ Lies(t11, 48, s5, 4)
      /\ Lies(t11, 52, s6, 4)
      /\ Lies(t11, 56, s7, 36)
      /\ Lies(t11, 92, s8, 2)
      /\ Lies(t11, 94, s9, 4)
      /\ Lies(t11, 98, s10, 1)
      /\ Lies(t11, 99, s11, 2)
  <2>1. Joined(t11, t10, 99, s11, 2)
    BY <1>16, <1>7, SizedCat
  <2> HIDE DEF t11
  <2>2. Sized(t11, 101)
    BY <2>1 DEF Joined
  <2>3. /\ Lies(t11, 99, s11, 2) /\ Lies(t11, 0, t10, 99)
        /\ \A r : \A o, n \in Nat : Lies(t10, o, r, n) /\ o + n <= 99 => Lies(t11, o, r, n)
    BY <2>1, LiesOn
  <2> QED
    BY <1>16, <2>2, <2>3
<1> HIDE DEF t11
<1>18. /\ t11[93] = s8[1] /\ t11[94] = s8[2]
       /\ \A n \in 95 .. 98 : t11[n] = Call(ZeroWord)
       /\ t11[99] = s10[1] /\ t11[100] = s11[1] /\ t11[101] = s11[2]
  <2>1. ASSUME NEW n \in 95 .. 98 PROVE t11[n] = Call(ZeroWord)
    <3>1. n - 94 \in 1 .. 4 /\ 94 + (n - 94) = n
      OBVIOUS
    <3> QED
      BY <1>5, <1>17, <3>1 DEF Lies
  <2> QED
    BY <1>17, <2>1 DEF Lies
<1> QED
  BY <1>2, <1>4, <1>6, <1>7, <1>17, <1>18 DEF Layout, s1, s2, s3, s4, s5, s6, s7

\* The width of the k-th field of a section, and its distance from the first.
WidthAt(x, k) == IF k = 1 THEN 1 ELSE IF k = 2 THEN 2 ELSE IF x \in Ports THEN 16 ELSE 8
PlaceAt(x, k) == IF k = 1 THEN 0 ELSE IF k = 2 THEN 1
                 ELSE IF x \in Ports THEN 3 + (16 * (k - 3)) ELSE 3 + (8 * (k - 3))

\* How many bits have been written before the n-th call.
Pos(n) == IF n <= 14 THEN PlaceAt("srcMAC", n)
          ELSE IF n <= 28 THEN 99 + PlaceAt("dstMAC", n - 14)
          ELSE IF n <= 38 THEN 198 + PlaceAt("srcIP", n - 28)
          ELSE IF n <= 48 THEN 265 + PlaceAt("dstIP", n - 38)
          ELSE IF n <= 52 THEN 332 + PlaceAt("srcPort", n - 48)
          ELSE IF n <= 56 THEN 367 + PlaceAt("dstPort", n - 52)
          ELSE IF n <= 92 THEN 402 + PlaceAt("dns", n - 56)
          ELSE IF n = 93 THEN 677
          ELSE IF n = 94 THEN 678
          ELSE IF n <= 99 THEN 704 + (64 * (n - 95))
          ELSE IF n = 100 THEN 960
          ELSE 1024

LEMMA ValueSized ==
  ASSUME NEW c, NEW x \in Sections, NEW k \in 1 .. Count(x)
  PROVE  Sized(ValueOf(c, FieldOf(x, k)), WidthAt(x, k))
<1>1. Count(x) = Heads(x) + (2 * Cells[x]) /\ Cells[x] \in 1 .. 16 /\ Heads(x) \in {2, 4}
  BY CellNumbers DEF Count, Depth, Heads
<1>2. CASE k = 1
  <2>1. FieldOf(x, k) = BW(x) /\ WidthAt(x, k) = 1
    BY <1>2 DEF FieldOf, WidthAt
  <2> QED
    BY <2>1, SymbolsSized, Widths, PortCells DEF ValueOf
<1>3. CASE k = 2
  <2>1. FieldOf(x, k) = Length(x) /\ WidthAt(x, k) = 2
    BY <1>3 DEF FieldOf, WidthAt
  <2> QED
    BY <2>1, SymbolsSized, Widths, PortCells DEF ValueOf
<1>4. CASE k > 2 /\ k <= Heads(x)
  <2>1. x = "dns" /\ k - 3 \in 0 .. 1
    BY <1>4 DEF Heads
  <2>2. FieldOf(x, k) = EndPtr(k - 3) /\ WidthAt(x, k) = 8
    BY <1>4, <2>1 DEF FieldOf, WidthAt, Ports
  <2> QED
    BY <2>1, <2>2, SymbolsSized, Widths, PortCells DEF ValueOf
<1>5. CASE k > Heads(x)
  <2> DEFINE n == k - (Heads(x) + 1)
             i == n \div Cells[x]
             j == n % Cells[x]
  <2>1. n \in 0 .. 2 * Cells[x] - 1 /\ k # 1 /\ k # 2 /\ ~(k <= Heads(x))
    BY <1>1, <1>5
  <2>2. i \in 0 .. 1 /\ j \in 0 .. Cells[x] - 1
    BY <2>1, CellIndex
  <2>3. FieldOf(x, k) = Cell(x, i, j)
    BY <2>1 DEF FieldOf
  <2>4. i \in Nat /\ j \in Nat
    BY <1>1, <2>2
  <2> HIDE DEF n, i, j
  <2>5. /\ Width(Cell(x, i, j)) = IF x \in Ports THEN 16 ELSE 8
        /\ IsPort(Cell(x, i, j)) <=> x \in Ports
    BY <2>4, Widths, PortCells
  <2>6. WidthAt(x, k) = IF x \in Ports THEN 16 ELSE 8
    BY <2>1 DEF WidthAt
  <2>7. Sized(Symbols(c, Cell(x, i, j)), WidthAt(x, k))
    BY <2>5, <2>6, SymbolsSized
  <2>8. CASE x \in Ports
    BY <2>3, <2>5, <2>6, <2>7, <2>8, HtonsBits DEF ValueOf
  <2>9. CASE x \notin Ports
    BY <2>3, <2>5, <2>7, <2>9 DEF ValueOf
  <2> QED
    BY <2>8, <2>9
<1> QED
  BY <1>1, <1>2, <1>3, <1>4, <1>5

\* What the n-th call is, and how many bits it writes.
IsCall(c, n, call) ==
  /\ n \in {94, 99, 101} => call = CloseCall
  /\ n = 100 => call = TagCall
  /\ n \notin {94, 99, 100, 101} => /\ call.op = "write" /\ Pos(n + 1) - Pos(n) \in 1 .. 64
                                    /\ Sized(call.bits, Pos(n + 1) - Pos(n))

LEMMA SectionPos ==
  ASSUME NEW n \in 1 .. 92
  PROVE
    /\ n \in 1 .. 14 => Pos(n + 1) - Pos(n) = WidthAt("srcMAC", n - 0)
    /\ n \in 15 .. 28 => Pos(n + 1) - Pos(n) = WidthAt("dstMAC", n - 14)
    /\ n \in 29 .. 38 => Pos(n + 1) - Pos(n) = WidthAt("srcIP", n - 28)
    /\ n \in 39 .. 48 => Pos(n + 1) - Pos(n) = WidthAt("dstIP", n - 38)
    /\ n \in 49 .. 52 => Pos(n + 1) - Pos(n) = WidthAt("srcPort", n - 48)
    /\ n \in 53 .. 56 => Pos(n + 1) - Pos(n) = WidthAt("dstPort", n - 52)
    /\ n \in 57 .. 92 => Pos(n + 1) - Pos(n) = WidthAt("dns", n - 56)
<1> USE DEF Pos, PlaceAt, WidthAt, Ports
<1>1. ASSUME n \in 1 .. 14 PROVE Pos(n + 1) - Pos(n) = WidthAt("srcMAC", n - 0)
  BY <1>1
<1>2. ASSUME n \in 15 .. 28 PROVE Pos(n + 1) - Pos(n) = WidthAt("dstMAC", n - 14)
  BY <1>2
<1>3. ASSUME n \in 29 .. 38 PROVE Pos(n + 1) - Pos(n) = WidthAt("srcIP", n - 28)
  BY <1>3
<1>4. ASSUME n \in 39 .. 48 PROVE Pos(n + 1) - Pos(n) = WidthAt("dstIP", n - 38)
  BY <1>4
<1>5. ASSUME n \in 49 .. 52 PROVE Pos(n + 1) - Pos(n) = WidthAt("srcPort", n - 48)
  BY <1>5
<1>6. ASSUME n \in 53 .. 56 PROVE Pos(n + 1) - Pos(n) = WidthAt("dstPort", n - 52)
  BY <1>6
<1>7. ASSUME n \in 57 .. 92 PROVE Pos(n + 1) - Pos(n) = WidthAt("dns", n - 56)
  BY <1>7
<1> QED
  BY <1>1, <1>2, <1>3, <1>4, <1>5, <1>6, <1>7

LEMMA SectionCall ==
  ASSUME NEW c, NEW P, NEW x \in Sections, NEW o \in Nat, Lies(P, o, SectionCalls(c, x), Count(x)),
         NEW k \in 1 .. Count(x)
  PROVE  /\ P[o + k] = Call(ValueOf(c, FieldOf(x, k))) /\ P[o + k].op = "write"
         /\ P[o + k].bits = ValueOf(c, FieldOf(x, k)) /\ Sized(P[o + k].bits, WidthAt(x, k))
<1>1. P[o + k] = Call(ValueOf(c, FieldOf(x, k)))
  BY SectionCallsAt DEF Lies
<1> QED
  BY <1>1, ValueSized DEF Call

LEMMA Counts ==
  /\ Count("srcMAC") = 14 /\ Count("dstMAC") = 14 /\ Count("srcIP") = 10 /\ Count("dstIP") = 10
  /\ Count("srcPort") = 4 /\ Count("dstPort") = 4 /\ Count("dns") = 36
BY CellNumbers DEF Count, Heads, Depth

LEMMA CallsAre ==
  ASSUME NEW c, NEW n \in 1 .. 101
  PROVE  IsCall(c, n, write_to_admin_pkt(c)[n])
<1> DEFINE P == write_to_admin_pkt(c)
<1>0. Layout(P, c)
  BY ProgramAt
<1> HIDE DEF P
<1>1. CASE n \in 1 .. 14
  <2>1. "srcMAC" \in Sections /\ Lies(P, 0, SectionCalls(c, "srcMAC"), Count("srcMAC"))
    BY <1>0, Counts DEF Layout, Sections
  <2>2. n - 0 \in 1 .. Count("srcMAC") /\ 0 + (n - 0) = n /\ 0 \in Nat
    BY <1>1, Counts
  <2>3. P[n].op = "write" /\ Sized(P[n].bits, WidthAt("srcMAC", n - 0))
    BY <2>1, <2>2, SectionCall
  <2>4. Pos(n + 1) - Pos(n) = WidthAt("srcMAC", n - 0) /\ n \notin {94, 99, 100, 101}
    BY <1>1, SectionPos
  <2>5. WidthAt("srcMAC", n - 0) \in 1 .. 64
    BY DEF WidthAt
  <2> QED
    BY <2>3, <2>4, <2>5 DEF IsCall, P
<1>2. CASE n \in 15 .. 28
  <2>1. "dstMAC" \in Sections /\ Lies(P, 14, SectionCalls(c, "dstMAC"), Count("dstMAC"))
    BY <1>0, Counts DEF Layout, Sections
  <2>2. n - 14 \in 1 .. Count("dstMAC") /\ 14 + (n - 14) = n /\ 14 \in Nat
    BY <1>2, Counts
  <2>3. P[n].op = "write" /\ Sized(P[n].bits, WidthAt("dstMAC", n - 14))
    BY <2>1, <2>2, SectionCall
  <2>4. Pos(n + 1) - Pos(n) = WidthAt("dstMAC", n - 14) /\ n \notin {94, 99, 100, 101}
    BY <1>2, SectionPos
  <2>5. WidthAt("dstMAC", n - 14) \in 1 .. 64
    BY DEF WidthAt
  <2> QED
    BY <2>3, <2>4, <2>5 DEF IsCall, P
<1>3. CASE n \in 29 .. 38
  <2>1. "srcIP" \in Sections /\ Lies(P, 28, SectionCalls(c, "srcIP"), Count("srcIP"))
    BY <1>0, Counts DEF Layout, Sections
  <2>2. n - 28 \in 1 .. Count("srcIP") /\ 28 + (n - 28) = n /\ 28 \in Nat
    BY <1>3, Counts
  <2>3. P[n].op = "write" /\ Sized(P[n].bits, WidthAt("srcIP", n - 28))
    BY <2>1, <2>2, SectionCall
  <2>4. Pos(n + 1) - Pos(n) = WidthAt("srcIP", n - 28) /\ n \notin {94, 99, 100, 101}
    BY <1>3, SectionPos
  <2>5. WidthAt("srcIP", n - 28) \in 1 .. 64
    BY DEF WidthAt
  <2> QED
    BY <2>3, <2>4, <2>5 DEF IsCall, P
<1>4. CASE n \in 39 .. 48
  <2>1. "dstIP" \in Sections /\ Lies(P, 38, SectionCalls(c, "dstIP"), Count("dstIP"))
    BY <1>0, Counts DEF Layout, Sections
  <2>2. n - 38 \in 1 .. Count("dstIP") /\ 38 + (n - 38) = n /\ 38 \in Nat
    BY <1>4, Counts
  <2>3. P[n].op = "write" /\ Sized(P[n].bits, WidthAt("dstIP", n - 38))
    BY <2>1, <2>2, SectionCall
  <2>4. Pos(n + 1) - Pos(n) = WidthAt("dstIP", n - 38) /\ n \notin {94, 99, 100, 101}
    BY <1>4, SectionPos
  <2>5. WidthAt("dstIP", n - 38) \in 1 .. 64
    BY DEF WidthAt
  <2> QED
    BY <2>3, <2>4, <2>5 DEF IsCall, P
<1>5. CASE n \in 49 .. 52
  <2>1. "srcPort" \in Sections /\ Lies(P, 48, SectionCalls(c, "srcPort"), Count("srcPort"))
    BY <1>0, Counts DEF Layout, Sections
  <2>2. n - 48 \in 1 .. Count("srcPort") /\ 48 + (n - 48) = n /\ 48 \in Nat
    BY <1>5, Counts
  <2>3. P[n].op = "write" /\ Sized(P[n].bits, WidthAt("srcPort", n - 48))
    BY <2>1, <2>2, SectionCall
  <2>4. Pos(n + 1) - Pos(n) = WidthAt("srcPort", n - 48) /\ n \notin {94, 99, 100, 101}
    BY <1>5, SectionPos
  <2>5. WidthAt("srcPort", n - 48) \in 1 .. 64
    BY DEF WidthAt
  <2> QED
    BY <2>3, <2>4, <2>5 DEF IsCall, P
<1>6. CASE n \in 53 .. 56
  <2>1. "dstPort" \in Sections /\ Lies(P, 52, SectionCalls(c, "dstPort"), Count("dstPort"))
    BY <1>0, Counts DEF Layout, Sections
  <2>2. n - 52 \in 1 .. Count("dstPort") /\ 52 + (n - 52) = n /\ 52 \in Nat
    BY <1>6, Counts
  <2>3. P[n].op = "write" /\ Sized(P[n].bits, WidthAt("dstPort", n - 52))
    BY <2>1, <2>2, SectionCall
  <2>4. Pos(n + 1) - Pos(n) = WidthAt("dstPort", n - 52) /\ n \notin {94, 99, 100, 101}
    BY <1>6, SectionPos
  <2>5. WidthAt("dstPort", n - 52) \in 1 .. 64
    BY DEF WidthAt
  <2> QED
    BY <2>3, <2>4, <2>5 DEF IsCall, P
<1>7. CASE n \in 57 .. 92
  <2>1. "dns" \in Sections /\ Lies(P, 56, SectionCalls(c, "dns"), Count("dns"))
    BY <1>0, Counts DEF Layout, Sections
  <2>2. n - 56 \in 1 .. Count("dns") /\ 56 + (n - 56) = n /\ 56 \in Nat
    BY <1>7, Counts
  <2>3. P[n].op = "write" /\ Sized(P[n].bits, WidthAt("dns", n - 56))
    BY <2>1, <2>2, SectionCall
  <2>4. Pos(n + 1) - Pos(n) = WidthAt("dns", n - 56) /\ n \notin {94, 99, 100, 101}
    BY <1>7, SectionPos
  <2>5. WidthAt("dns", n - 56) \in 1 .. 64
    BY DEF WidthAt
  <2> QED
    BY <2>3, <2>4, <2>5 DEF IsCall, P
<1>8. CASE n = 93
  <2>1. P[93].op = "write" /\ P[93].bits = Symbols(c, ReplyType)
    BY <1>0, PortCells DEF Layout, Call, ValueOf
  <2>2. Pos(94) - Pos(93) = 1
    BY DEF Pos
  <2>3. Sized(Symbols(c, ReplyType), 1)
    BY SymbolsSized, Widths
  <2> QED
    BY <1>8, <2>1, <2>2, <2>3 DEF IsCall, P
<1>9. CASE n \in 95 .. 98
  <2>1. P[n].op = "write" /\ P[n].bits = ZeroWord
    BY <1>0, <1>9 DEF Layout, Call
  <2>2. Pos(n + 1) - Pos(n) = 64
    BY <1>9 DEF Pos
  <2>3. Sized(ZeroWord, 64)
    BY DEF ZeroWord, Sized
  <2>4. n \notin {94, 99, 100, 101}
    BY <1>9
  <2> QED
    BY <2>1, <2>2, <2>3, <2>4 DEF IsCall, P
<1>10. CASE n \in {94, 99, 101}
  BY <1>0, <1>10 DEF Layout, IsCall, P
<1>11. CASE n = 100
  BY <1>0, <1>11 DEF Layout, IsCall, P
<1> QED
  BY <1>1, <1>2, <1>3, <1>4, <1>5, <1>6, <1>7, <1>8, <1>9, <1>10, <1>11

-------------------------------------------------------------------------------
(* The writer.                                                               *)

\* The buffer is empty after a close, and the calls made so far have written the
\* bits they should.
WriterInv ==
  /\ Buffer
  /\ g \in {1, 2} /\ pc \in 0 .. 101
  /\ pc \in {0, 1, 95, 100} => admin_buf_bits_clean = 64
  /\ pc # 0 => 8 * admin_buf_data_ptr + (64 - admin_buf_bits_clean) = Pos(pc)

\* The bits the next call writes, and how many there are.
NextBits == IF pc \in {94, 99, 101} THEN [b \in 1 .. (32 - (Pos(pc) % 32)) % 32 |-> Zero]
            ELSE IF pc = 100 THEN siphash(SubSeq(Written, 1, SealedBits))
            ELSE write_to_admin_pkt(g)[pc].bits

NextWidth == IF pc = 101 THEN 0 ELSE Pos(pc + 1) - Pos(pc)

LEMMA ProgramsAre ==
  ASSUME g \in {1, 2}
  PROVE  Programs[g] = write_to_admin_pkt(g) /\ Len(Programs[g]) = 101
<1>1. Programs[g] = write_to_admin_pkt(g)
  BY DEF Programs
<1>2. Sized(write_to_admin_pkt(g), 101)
  BY ProgramAt DEF Layout
<1>3. Len(write_to_admin_pkt(g)) = 101
  BY <1>2, SizedSeq
<1> QED
  BY <1>1, <1>3

LEMMA SiphashSized == ASSUME NEW v PROVE Sized(siphash(v), 64)
BY DEF siphash, Sized

\* d holds the n elements of w, counted from zero.
CopyOf(n, w, d) == Sized(w, n) /\ \A b \in 1 .. n : d[b - 1] = w[b]
Copied(n, w, d) == SubSeq(w, 1, n) = [b \in 1 .. n |-> d[b - 1]]

LEMMA CopyIs ==
  ASSUME NEW w, NEW n \in Nat, NEW d, CopyOf(n, w, d)
  PROVE  Copied(n, w, d)
<1>1. SubSeq(w, 1, n) = [b \in 1 .. n |-> w[b]]
  BY SizedSeq DEF CopyOf
<1>2. [b \in 1 .. n |-> w[b]] = [b \in 1 .. n |-> d[b - 1]]
  BY Zenon DEF CopyOf
<1> QED
  BY <1>1, <1>2 DEF Copied

LEMMA WriteStep ==
  ASSUME WriterInv, Write
  PROVE  /\ Appends(NextBits) /\ Sized(NextBits, NextWidth)
         /\ pc \in {94, 99, 101} => admin_buf_bits_clean' = 64
         /\ pc \in 1 .. 101 /\ g' = g /\ pc' = IF pc = 101 THEN 0 ELSE pc + 1
<1> DEFINE c == write_to_admin_pkt(g)[pc]
           clean == admin_buf_bits_clean
           m == 8 * admin_buf_data_ptr
<1>1. pc \in 1 .. 101 /\ g \in {1, 2}
  BY DEF WriterInv, Write
<1>2. Programs[g][pc] = c /\ Len(Programs[g]) = 101
  BY <1>1, ProgramsAre
<1>3. IsCall(g, pc, c)
  BY <1>1, CallsAre
<1>4. g' = g /\ pc' = IF pc = 101 THEN 0 ELSE pc + 1
  BY <1>2 DEF Write
<1>5. (CASE c.op = "close" -> Close
         [] c.op = "write" -> write_admin_buf(c.bits)
         [] c.op = "tag"   -> write_admin_buf(siphash([b \in 1 .. SealedBits |-> admin_buf_data[b - 1]])))
  BY <1>2 DEF Write, SealedBits
<1> HIDE DEF c
<1>6. Buffer /\ clean \in 0 .. 64 /\ m \in Nat /\ m + (64 - clean) = Pos(pc) /\ Sized(admin_pkt, m)
  BY <1>1, BufferFacts DEF WriterInv
<1>7. CASE pc \in {94, 99, 101}
  <2>1. c.op = "close"
    BY <1>3, <1>7 DEF IsCall, CloseCall
  <2>2. Close
    BY <1>5, <2>1
  <2>3. /\ Appends([b \in 1 .. (32 - ((64 - clean) % 32)) % 32 |-> Zero])
        /\ clean' = 64
    BY <1>6, <2>2, CloseAppends
  <2>4. (64 - clean) % 32 = Pos(pc) % 32
    <3>1. admin_buf_data_ptr \in Nat /\ admin_buf_data_ptr % 4 = 0
      BY DEF WriterInv, Buffer
    <3>2. Pos(pc) = 8 * admin_buf_data_ptr + (64 - clean)
      BY <1>6
    <3>3. clean \in 0 .. 64
      BY <1>6
    <3> QED
      BY <3>1, <3>2, <3>3
  <2>5. (32 - (Pos(pc) % 32)) % 32 = NextWidth
    BY <1>7 DEF Pos, NextWidth
  <2>6. NextBits = [b \in 1 .. (32 - ((64 - clean) % 32)) % 32 |-> Zero]
    BY <1>7, <2>4, Zenon DEF NextBits
  <2>7. NextWidth \in Nat
    BY <1>7 DEF Pos, NextWidth
  <2>8. Sized([b \in 1 .. NextWidth |-> Zero], NextWidth)
    BY <2>7, Zenon DEF Sized
  <2>9. NextBits = [b \in 1 .. NextWidth |-> Zero]
    BY <1>7, <2>5, Zenon DEF NextBits
  <2> QED
    BY <1>1, <1>4, <2>3, <2>6, <2>8, <2>9
<1>8. CASE pc = 100
  <2>1. c.op = "tag"
    BY <1>3, <1>8 DEF IsCall, TagCall
  <2> DEFINE d == [b \in 1 .. SealedBits |-> admin_buf_data[b - 1]]
  <2>2. write_admin_buf(siphash(d))
    BY <1>5, <2>1
  <2>3. clean = 64 /\ m = SealedBits
    <3>1. clean = 64
      BY <1>8 DEF WriterInv
    <3>2. Pos(100) = SealedBits
      BY DEF Pos, SealedBits
    <3> QED
      BY <1>6, <1>8, <3>1, <3>2
  <2>4. Spelled(Written, admin_pkt, SealedBits, admin_buf, 64)
    BY <1>6, <2>3, WrittenBits DEF Written
  <2>5. ASSUME NEW b \in 1 .. SealedBits PROVE admin_buf_data[b - 1] = Written[b]
    <3>1. b - 1 \in CopyBits /\ b - 1 < 8 * admin_buf_data_ptr /\ (b - 1) + 1 = b
      BY <2>3 DEF SealedBits, CopyBits
    <3>2. admin_buf_data[b - 1] = admin_pkt[b]
      BY <3>1 DEF WriterInv, Buffer
    <3> QED
      BY <2>4, <3>2 DEF Spelled
  <2>6. SubSeq(Written, 1, SealedBits) = d
    <3>1. Sized(Written, SealedBits)
      BY <2>4 DEF Spelled, SealedBits
    <3>2. CopyOf(SealedBits, Written, admin_buf_data)
      BY <2>5, <3>1 DEF CopyOf
    <3>3. Copied(SealedBits, Written, admin_buf_data)
      BY <3>2, CopyIs DEF SealedBits
    <3> QED
      BY <3>3 DEF Copied
  <2> HIDE DEF d
  <2>7. NextBits = siphash(d) /\ NextWidth = 64
    <3>1. NextBits = siphash(SubSeq(Written, 1, SealedBits))
      BY <1>8 DEF NextBits
    <3>2. NextWidth = 64
      BY <1>8 DEF NextWidth, Pos
    <3> QED
      BY <2>6, <3>1, <3>2
  <2>8. Appends(siphash(d))
    BY <1>6, <2>2, SiphashSized, WriteAppends
  <2> QED
    BY <1>1, <1>4, <1>8, <2>7, <2>8, SiphashSized
<1>9. CASE pc \notin {94, 99, 100, 101}
  <2>1. c.op = "write" /\ NextWidth \in 1 .. 64 /\ Sized(c.bits, NextWidth)
    BY <1>3, <1>9 DEF IsCall, NextWidth
  <2>2. write_admin_buf(c.bits)
    BY <1>5, <2>1
  <2>3. Appends(c.bits)
    BY <1>6, <2>1, <2>2, WriteAppends
  <2>4. NextBits = c.bits
    BY <1>9 DEF NextBits, c
  <2> QED
    BY <1>1, <1>4, <1>9, <2>1, <2>3, <2>4
<1> QED
  BY <1>7, <1>8, <1>9

LEMMA Eightfold == \A n \in Nat : 8 * n \in Nat
OBVIOUS

\* After a call the length of all that was written is what the call makes of it.
LEMMA AppendedLength ==
  ASSUME Buffer, NEW v, NEW k \in Nat, Sized(v, k), Appends(v)
  PROVE  /\ 8 * admin_buf_data_ptr' + (64 - admin_buf_bits_clean')
              = 8 * admin_buf_data_ptr + (64 - admin_buf_bits_clean) + k
         /\ Joined(Written', Written, 8 * admin_buf_data_ptr + (64 - admin_buf_bits_clean), v, k)
<1> DEFINE L == 8 * admin_buf_data_ptr + (64 - admin_buf_bits_clean)
<1>1. Buffer' /\ Written' = Written \o v
  BY DEF Appends
<1>2. /\ admin_buf_bits_clean' \in 0 .. 64 /\ 8 * admin_buf_data_ptr' \in Nat
      /\ Sized(admin_pkt', 8 * admin_buf_data_ptr')
  <2>1. /\ admin_buf_bits_clean' \in 0 .. 64 /\ admin_buf_data_ptr' \in Nat
        /\ Sized(admin_pkt', 8 * admin_buf_data_ptr')
    BY <1>1 DEF Buffer
  <2>2. admin_buf_data_ptr' \in Nat
    BY <2>1
  <2>3. 8 * admin_buf_data_ptr' \in Nat
    BY <2>2, Eightfold
  <2> QED
    BY <2>1, <2>3
<1>3. Spelled(Written', admin_pkt', 8 * admin_buf_data_ptr', admin_buf', admin_buf_bits_clean')
  BY <1>2, WrittenBits DEF Written
<1>4. Sized(Written', L')
  BY <1>3 DEF Spelled
<1>5. L \in Nat /\ Sized(Written, L)
  <2>1. Spelled(Written, admin_pkt, 8 * admin_buf_data_ptr, admin_buf, admin_buf_bits_clean)
    BY BufferFacts, WrittenBits DEF Written
  <2> QED
    BY <2>1, BufferFacts DEF Spelled
<1> HIDE DEF L
<1>6. Joined(Written', Written, L, v, k)
  BY <1>1, <1>5, SizedCat
<1>7. Sized(Written', L + k)
  BY <1>6 DEF Joined
<1>8. L' = L + k
  <2>1. Len(Written') = L' /\ Len(Written') = L + k
    BY <1>4, <1>7, SizedSeq
  <2> QED
    BY <2>1
<1> QED
  BY <1>6, <1>8 DEF L

LEMMA WriterInit == Init => WriterInv
<1> SUFFICES ASSUME Init PROVE WriterInv
  OBVIOUS
<1>1. \A p \in WordBits : admin_buf[p] = Zero
  <2> SUFFICES ASSUME NEW p \in WordBits PROVE Word(<< >>)[p] = Zero
    BY DEF Init
  <2>1. Len(<< >>) = 0
    OBVIOUS
  <2>2. ~(p < Len(<< >>))
    BY <2>1 DEF WordBits
  <2>3. Word(<< >>)[p] = IF p < Len(<< >>) THEN << >>[p + 1] ELSE Zero
    BY Zenon DEF Word
  <2> QED
    BY <2>2, <2>3
<1>2. Sized(admin_pkt, 8 * admin_buf_data_ptr)
  BY DEF Init, Sized
<1>3. DOMAIN admin_buf_data = CopyBits
  BY DEF Init, CopyBits
<1>4. Buffer
  <2>1. admin_buf_bits_clean = 64 /\ admin_buf_data_ptr = 0
    BY DEF Init
  <2> QED
    BY <1>1, <1>2, <1>3, <2>1 DEF Buffer, CopyBits
<1> QED
  BY <1>4 DEF Init, WriterInv

LEMMA OpenWriter ==
  ASSUME WriterInv, Open
  PROVE  WriterInv' /\ admin_pkt' = << >> /\ Written' = << >> /\ admin_buf_bits_clean' = 64
<1>1. /\ admin_buf_bits_clean = 64 /\ admin_buf_bits_clean' = 64 /\ admin_buf' = admin_buf
      /\ admin_pkt' = << >> /\ admin_buf_data_ptr' = 0 /\ pc' = 1 /\ g' = 3 - g
  BY DEF Open, WriterInv
<1>2. DOMAIN admin_buf_data' = CopyBits
  BY DEF Open, WriterInv, Buffer
<1>3. \A p \in WordBits : p < 64 => admin_buf[p] = Zero
  BY <1>1 DEF WriterInv, Buffer
<1>4. Sized(admin_pkt', 8 * admin_buf_data_ptr')
  BY <1>1 DEF Sized
<1>5. Buffer'
  BY <1>1, <1>2, <1>3, <1>4 DEF Buffer
<1>6. Pos(1) = 0
  BY DEF Pos, PlaceAt
<1>7. WriterInv'
  BY <1>1, <1>5, <1>6 DEF WriterInv
<1>8. Written' = << >>
  BY <1>1 DEF Written, WrittenOf
<1> QED
  BY <1>1, <1>7, <1>8

LEMMA WriteWriter ==
  ASSUME WriterInv, Write
  PROVE  WriterInv'
<1>1. /\ Appends(NextBits) /\ Sized(NextBits, NextWidth)
      /\ pc \in {94, 99, 101} => admin_buf_bits_clean' = 64
      /\ pc \in 1 .. 101 /\ g' = g /\ pc' = IF pc = 101 THEN 0 ELSE pc + 1
  BY WriteStep
<1>2. NextWidth \in Nat
  BY <1>1 DEF Sized
<1>3. 8 * admin_buf_data_ptr' + (64 - admin_buf_bits_clean')
        = 8 * admin_buf_data_ptr + (64 - admin_buf_bits_clean) + NextWidth
  BY <1>1, <1>2, AppendedLength DEF WriterInv
<1>4. 8 * admin_buf_data_ptr + (64 - admin_buf_bits_clean) = Pos(pc)
  BY <1>1 DEF WriterInv
<1>5. pc' # 0 => 8 * admin_buf_data_ptr' + (64 - admin_buf_bits_clean') = Pos(pc')
  <2>1. ASSUME pc # 101 PROVE pc' = pc + 1 /\ NextWidth = Pos(pc + 1) - Pos(pc)
    BY <1>1, <2>1 DEF NextWidth
  <2>2. Pos(pc) \in Int /\ Pos(pc + 1) \in Int
    BY <1>1 DEF Pos, PlaceAt
  <2> QED
    BY <1>1, <1>3, <1>4, <2>1, <2>2
<1>6. pc' \in {0, 1, 95, 100} => admin_buf_bits_clean' = 64
  BY <1>1
<1>7. pc' \in 0 .. 101
  BY <1>1
<1> QED
  BY <1>1, <1>5, <1>6, <1>7 DEF WriterInv, Appends

LEMMA WriterNext == WriterInv /\ [Next]_vars => WriterInv'
<1> SUFFICES ASSUME WriterInv, [Next]_vars PROVE WriterInv'
  OBVIOUS
<1>1. CASE Open
  BY <1>1, OpenWriter
<1>2. CASE Write
  BY <1>2, WriteWriter
<1>3. CASE UNCHANGED writer
  <2>1. /\ g' = g /\ pc' = pc /\ admin_buf' = admin_buf /\ admin_buf_bits_clean' = admin_buf_bits_clean
        /\ admin_buf_data' = admin_buf_data /\ admin_buf_data_ptr' = admin_buf_data_ptr
        /\ admin_pkt' = admin_pkt
    BY <1>3 DEF writer
  <2>2. Buffer'
    BY <2>1, Zenon DEF WriterInv, Buffer
  <2> QED
    BY <2>1, <2>2, Zenon DEF WriterInv
<1>4. Open \/ Write \/ UNCHANGED writer
  BY DEF Next, vars, Load, UpdateFilter, ReplyQuery, Probe
<1> QED
  BY <1>1, <1>2, <1>3, <1>4

\* The writer's invariant: for every packet, whatever was written before it.
THEOREM WriterInvariance == Spec => []WriterInv
BY WriterInit, WriterNext, PTL DEF Spec

-------------------------------------------------------------------------------
(* The writer implements AdminStream.                                        *)

\* The stream of AdminStream holds what was written and its file is the file.
StreamNow == admin_pkt \o Waiting

LEMMA OpenIsOpen ==
  ASSUME WriterInv, Open
  PROVE  Stream!Open
<1>1. admin_pkt' = << >> /\ StreamNow' = << >>
  BY OpenWriter, WrittenIsStream DEF StreamNow
<1> QED
  BY <1>1 DEF Open, Stream!Open, StreamNow

LEMMA WriteIsWrite ==
  ASSUME WriterInv, Write
  PROVE  Stream!Write
<1> DEFINE c == write_to_admin_pkt(g)[pc]
           L == 8 * admin_buf_data_ptr + (64 - admin_buf_bits_clean)
<1>1. /\ Appends(NextBits) /\ Sized(NextBits, NextWidth)
      /\ pc \in {94, 99, 101} => admin_buf_bits_clean' = 64
      /\ pc \in 1 .. 101 /\ g' = g /\ pc' = IF pc = 101 THEN 0 ELSE pc + 1
  BY WriteStep
<1>2. g \in {1, 2} /\ Buffer /\ L = Pos(pc)
  BY <1>1 DEF WriterInv
<1>3. CallsOf(g)[pc] = c /\ Len(CallsOf(g)) = 101
  BY <1>2, ProgramsAre DEF CallsOf
<1>4. IsCall(g, pc, c)
  BY <1>1, CallsAre
<1> HIDE DEF c
<1>5. StreamNow = Written /\ StreamNow' = Written'
  BY WrittenIsStream DEF StreamNow
<1>6. Len(StreamNow) = Pos(pc)
  <2>1. Spelled(Written, admin_pkt, 8 * admin_buf_data_ptr, admin_buf, admin_buf_bits_clean)
    BY <1>2, BufferFacts, WrittenBits DEF Written
  <2>2. Sized(Written, L)
    BY <2>1 DEF Spelled
  <2>3. Len(Written) = L
    BY <2>2, SizedSeq
  <2> QED
    BY <1>2, <1>5, <2>3
<1>7. Stream!Added = NextBits
  <2>1. CASE pc \in {94, 99, 101}
    <3>1. c.op = "close"
      BY <1>4, <2>1 DEF IsCall, CloseCall
    <3>2. Stream!Added = Stream!Padding(Len(StreamNow))
      BY <1>3, <3>1 DEF Stream!Added, StreamNow
    <3>3. Stream!Padding(Len(StreamNow)) = [b \in 1 .. (32 - (Pos(pc) % 32)) % 32 |-> Zero]
      BY <1>6 DEF Stream!Padding
    <3> QED
      BY <2>1, <3>2, <3>3 DEF NextBits
  <2>2. CASE pc = 100
    <3>1. c.op = "tag"
      BY <1>4, <2>2 DEF IsCall, TagCall
    <3>2. Stream!Added = Sealed(StreamNow)
      BY <1>3, <3>1 DEF Stream!Added, StreamNow
    <3>3. NextBits = siphash(SubSeq(Written, 1, SealedBits))
      BY <2>2 DEF NextBits
    <3> QED
      BY <1>5, <3>2, <3>3 DEF Sealed, SealedBits
  <2>3. CASE pc \notin {94, 99, 100, 101}
    <3>1. c.op = "write"
      BY <1>4, <2>3 DEF IsCall
    <3>2. Stream!Added = c.bits
      BY <1>3, <3>1 DEF Stream!Added
    <3> QED
      BY <2>3, <3>2 DEF NextBits, c
  <2> QED
    BY <2>1, <2>2, <2>3
<1>8. StreamNow' = StreamNow \o Stream!Added
  BY <1>1, <1>5, <1>7 DEF Appends
<1>9. IsPrefix(admin_pkt, admin_pkt')
  BY <1>1 DEF Appends
<1>10. /\ admin_buf_bits_clean' \in 0 .. 64 /\ 8 * admin_buf_data_ptr' \in Nat
       /\ Sized(admin_pkt', 8 * admin_buf_data_ptr')
       /\ Spelled(Written', admin_pkt', 8 * admin_buf_data_ptr', admin_buf', admin_buf_bits_clean')
  <2>1. /\ admin_buf_bits_clean' \in 0 .. 64 /\ admin_buf_data_ptr' \in Nat
        /\ Sized(admin_pkt', 8 * admin_buf_data_ptr')
    BY <1>1 DEF Appends, Buffer
  <2>2. Spelled(Written', admin_pkt', 8 * admin_buf_data_ptr', admin_buf', admin_buf_bits_clean')
    BY <2>1, WrittenBits DEF Written
  <2> QED
    BY <2>1, <2>2, Eightfold
<1>11. IsPrefix(admin_pkt', StreamNow')
  <2> DEFINE m == 8 * admin_buf_data_ptr'
             n == m + (64 - admin_buf_bits_clean')
  <2>1. m <= n
    BY <1>10
  <2>2. Sized(Written', n) /\ \A i \in 1 .. m : Written'[i] = admin_pkt'[i]
    BY <1>10 DEF Spelled
  <2> HIDE DEF m, n
  <2>3. Sized(admin_pkt', m)
    BY <1>10 DEF m
  <2> QED
    BY <1>5, <2>1, <2>2, <2>3, SizedPrefix
<1>12. ASSUME CallsOf(g)[pc].op = "close" PROVE admin_pkt' = StreamNow'
  <2>1. pc \in {94, 99, 101}
    BY <1>3, <1>4, <1>12 DEF IsCall, TagCall
  <2>2. admin_buf_bits_clean' = 64
    BY <1>1, <2>1
  <2> DEFINE m == 8 * admin_buf_data_ptr'
  <2>3. Spelled(Written', admin_pkt', m, admin_buf', 64) /\ m \in Nat /\ Sized(admin_pkt', m)
    BY <1>10, <2>2
  <2> HIDE DEF m
  <2>4. m + (64 - 64) = m
    BY <2>3
  <2>5. Sized(Written', m) /\ \A i \in 1 .. m : Written'[i] = admin_pkt'[i]
    BY <2>3, <2>4 DEF Spelled
  <2>6. Written' = admin_pkt'
    BY <2>3, <2>5, SizedEqual
  <2> QED
    BY <1>5, <2>6
<1>13. pc # 0 /\ pc' = IF pc = Len(CallsOf(g)) THEN 0 ELSE pc + 1
  BY <1>1, <1>3
<1>14. Stream!IsPrefix(admin_pkt, admin_pkt') /\ Stream!IsPrefix(admin_pkt', StreamNow')
  <2>1. \A s, t : IsPrefix(s, t) = Stream!IsPrefix(s, t)
    BY Zenon DEF IsPrefix, Stream!IsPrefix
  <2> QED
    BY <1>9, <1>11, <2>1, Zenon
<1>15. g' = g
  BY <1>1
<1> QED
  BY <1>8, <1>12, <1>13, <1>14, <1>15, Zenon DEF Stream!Write, StreamNow

\* No bit is lost, moved or doubled: Write, the code's way over a 64-bit buffer that
\* is shared by all packets, is one step of AdminStream.
THEOREM CodecImplementsStream == Spec => ImplementsStream
<1>1. Init => Stream!Init
  <2> SUFFICES ASSUME Init PROVE Stream!Init
    OBVIOUS
  <2>1. Waiting = << >>
    BY DEF Init, Waiting
  <2>2. admin_pkt = << >> /\ << >> \o << >> = << >>
    BY DEF Init
  <2>3. StreamNow = << >>
    BY <2>1, <2>2 DEF StreamNow
  <2> QED
    BY <2>3 DEF Init, Stream!Init, StreamNow
<1>2. WriterInv /\ [Next]_vars => [Stream!Next]_(Stream!streamvars)
  <2> SUFFICES ASSUME WriterInv, [Next]_vars PROVE [Stream!Next]_(Stream!streamvars)
    OBVIOUS
  <2>1. CASE Open
    BY <2>1, OpenIsOpen DEF Stream!Next
  <2>2. CASE Write
    BY <2>2, WriteIsWrite DEF Stream!Next
  <2>3. CASE UNCHANGED writer
    <3>1. /\ g' = g /\ pc' = pc /\ admin_buf' = admin_buf /\ admin_buf_bits_clean' = admin_buf_bits_clean
          /\ admin_pkt' = admin_pkt
      BY <2>3 DEF writer
    <3>2. StreamNow' = StreamNow
      BY <3>1, Zenon DEF StreamNow, Waiting
    <3> QED
      BY <3>1, <3>2 DEF Stream!streamvars, StreamNow
  <2>4. Open \/ Write \/ UNCHANGED writer
    BY DEF Next, vars, Load, UpdateFilter, ReplyQuery, Probe
  <2> QED
    BY <2>1, <2>2, <2>3, <2>4
<1> QED
  BY <1>1, <1>2, WriterInvariance, PTL DEF Spec, ImplementsStream, Stream!Spec

-------------------------------------------------------------------------------
(* What a packet holds.                                                      *)

\* The bits of the n-th call lie where they should in a sequence of l bits.
CallLies(w, l, c, n) ==
  /\ Pos(n + 1) <= l
  /\ Lies(w, Pos(n), write_to_admin_pkt(c)[n].bits, Pos(n + 1) - Pos(n))

\* The tag seals the bits before it.
FirstBits(w, n) == SubSeq(w, 1, n)
Tagged(w) == Lies(w, SealedBits, siphash(FirstBits(w, SealedBits)), 64)

\* The calls before the n-th have been made.
Held(w, l, c, n) ==
  /\ Sized(w, l)
  /\ \A i \in 1 .. 93 : i < n => CallLies(w, l, c, i)
  /\ n > 100 => PacketBits <= l /\ Tagged(w)

LEMMA PosNat ==
  /\ \A n \in 1 .. 102 : Pos(n) \in Nat
  /\ \A n \in 1 .. 93 : Pos(n + 1) >= Pos(n)
<1>1. ASSUME NEW n \in 1 .. 102 PROVE Pos(n) \in Nat
  BY DEF Pos, PlaceAt
<1>2. ASSUME NEW n \in 1 .. 93 PROVE Pos(n + 1) >= Pos(n)
  <2>1. IsCall(1, n, write_to_admin_pkt(1)[n]) /\ n \notin {94, 99, 100, 101}
    BY CallsAre
  <2>2. Pos(n + 1) - Pos(n) \in 1 .. 64 /\ Pos(n) \in Nat /\ Pos(n + 1) \in Nat
    BY <1>1, <2>1 DEF IsCall
  <2> QED
    BY <2>2
<1> QED
  BY <1>1, <1>2

\* The first n bits do not change.
Same(u, w, n) == \A i \in 1 .. n : u[i] = w[i]

LEMMA SamePart ==
  ASSUME NEW u, NEW l \in Nat, Sized(u, l), NEW w, NEW m \in Nat, Sized(w, m), NEW n \in Nat,
         n <= l, n <= m, Same(u, w, n)
  PROVE  FirstBits(u, n) = FirstBits(w, n)
<1>1. SubSeq(u, 1, n) = [b \in 1 .. n |-> u[b]] /\ SubSeq(w, 1, n) = [b \in 1 .. n |-> w[b]]
  BY SizedSeq
<1>2. [b \in 1 .. n |-> u[b]] = [b \in 1 .. n |-> w[b]]
  BY Zenon DEF Same
<1> QED
  BY <1>1, <1>2 DEF FirstBits

LEMMA SameLess ==
  ASSUME NEW u, NEW w, NEW l \in Nat, NEW n \in Nat, n <= l, Same(u, w, l)
  PROVE  Same(u, w, n)
BY DEF Same

LEMMA CallStays ==
  ASSUME NEW u, NEW w, NEW l \in Nat, NEW v, NEW k \in Nat, Joined(u, w, l, v, k),
         NEW c, NEW n \in 1 .. 93, CallLies(w, l, c, n)
  PROVE  CallLies(u, l + k, c, n)
<1> DEFINE o == Pos(n)
           d == Pos(n + 1) - Pos(n)
           r == write_to_admin_pkt(c)[n].bits
<1>1. o \in Nat /\ Pos(n + 1) \in Nat /\ Pos(n + 1) >= o /\ Pos(n + 1) <= l /\ Lies(w, o, r, d)
  BY PosNat DEF CallLies
<1>2. d \in Nat /\ o + d <= l
  BY <1>1
<1> HIDE DEF o, d, r
<1>3. Lies(u, o, r, d)
  BY <1>1, <1>2, LiesOn
<1>4. Pos(n + 1) <= l + k
  BY <1>1
<1> QED
  BY <1>3, <1>4 DEF CallLies, o, d, r

LEMMA TagStays ==
  ASSUME NEW u, NEW w, NEW l \in Nat, PacketBits <= l, Sized(w, l), NEW v, NEW k \in Nat, Joined(u, w, l, v, k),
         Tagged(w)
  PROVE  Tagged(u)
<1>1. Sized(u, l + k) /\ Same(u, w, l)
  BY DEF Joined, Same
<1>2. FirstBits(u, SealedBits) = FirstBits(w, SealedBits)
  <2>1. l + k \in Nat /\ SealedBits <= l + k /\ SealedBits <= l /\ SealedBits \in Nat
    BY DEF SealedBits, PacketBits
  <2>2. Same(u, w, SealedBits)
    BY <1>1, <2>1, SameLess
  <2> QED
    BY <1>1, <2>1, <2>2, SamePart
<1> DEFINE t == siphash(FirstBits(w, SealedBits))
<1>3. Lies(w, SealedBits, t, 64)
  BY DEF Tagged
<1> HIDE DEF t
<1>4. Lies(u, SealedBits, t, 64)
  <2>1. SealedBits \in Nat /\ 64 \in Nat /\ SealedBits + 64 <= l
    BY DEF SealedBits, PacketBits
  <2>2. \A r : \A o, n \in Nat : Lies(w, o, r, n) /\ o + n <= l => Lies(u, o, r, n)
    BY LiesOn
  <2> QED
    BY <1>3, <2>1, <2>2
<1> QED
  BY <1>2, <1>4 DEF t, Tagged

LEMMA HeldStep ==
  ASSUME WriterInv, pc \in 1 .. 101, Held(Written, Pos(pc), g, pc), NEW u,
         Sized(NextBits, NextWidth), Joined(u, Written, Pos(pc), NextBits, NextWidth)
  PROVE  Held(u, Pos(pc) + NextWidth, g, pc + 1)
<1> DEFINE l == Pos(pc)
           k == NextWidth
<1>1. l \in Nat /\ k \in Nat /\ Sized(u, l + k) /\ Sized(Written, l)
  BY PosNat DEF Sized, Joined, Held
<1>2. ASSUME NEW i \in 1 .. 93, i < pc + 1 PROVE CallLies(u, l + k, g, i)
  <2>1. CASE i < pc
    <3>1. CallLies(Written, l, g, i)
      BY <2>1 DEF Held
    <3> HIDE DEF l, k
    <3> QED
      BY <1>1, <3>1, CallStays DEF l, k
  <2>2. CASE i = pc
    <3>1. NextBits = write_to_admin_pkt(g)[i].bits /\ k = Pos(i + 1) - Pos(i)
      BY <2>2 DEF NextBits, NextWidth
    <3>2. Lies(u, l, NextBits, k)
      BY <1>1, LiesOn
    <3>3. Pos(i + 1) <= l + k
      BY <1>1, <2>2, <3>1, PosNat
    <3> QED
      BY <2>2, <3>1, <3>2, <3>3 DEF CallLies
  <2> QED
    BY <1>2, <2>1, <2>2
<1>3. ASSUME pc + 1 > 100 PROVE PacketBits <= l + k /\ Tagged(u)
  <2>1. CASE pc = 100
    <3>1. NextBits = siphash(SubSeq(Written, 1, SealedBits)) /\ l = SealedBits /\ k = 64
      BY <2>1 DEF NextBits, NextWidth, Pos, SealedBits
    <3> HIDE DEF l, k
    <3>2. Joined(u, Written, l, NextBits, k)
      BY DEF l, k
    <3>3. Lies(u, l, NextBits, k)
      BY <1>1, <3>2, LiesOn
    <3>4. Same(u, Written, l)
      BY <3>2 DEF Joined, Same
    <3>5. l <= l /\ l <= l + k /\ l + k \in Nat
      BY <1>1
    <3>6. FirstBits(u, l) = FirstBits(Written, l)
      BY <1>1, <3>4, <3>5, SamePart
    <3>7. Tagged(u) <=> Lies(u, SealedBits, siphash(FirstBits(u, SealedBits)), 64)
      BY DEF Tagged
    <3>8. NextBits = siphash(FirstBits(Written, SealedBits))
      BY <3>1, Zenon DEF FirstBits
    <3>9. PacketBits <= l + k
      BY <3>1 DEF SealedBits, PacketBits
    <3> QED
      BY <3>1, <3>3, <3>6, <3>7, <3>8, <3>9
  <2>2. CASE pc = 101
    <3>1. PacketBits <= l /\ Tagged(Written) /\ k = 0
      BY <2>2 DEF Held, NextWidth
    <3> HIDE DEF l, k
    <3>2. Joined(u, Written, l, NextBits, k)
      BY DEF l, k
    <3>3. Tagged(u)
      BY <1>1, <3>1, <3>2, TagStays
    <3> QED
      BY <1>1, <3>1, <3>3
  <2> QED
    BY <1>3, <2>1, <2>2
<1> QED
  BY <1>1, <1>2, <1>3 DEF Held

-------------------------------------------------------------------------------
(* The fields of a packet.                                                   *)

\* The number of calls before those of a section.
CallsBefore(x) == IF x = "srcMAC" THEN 0 ELSE IF x = "dstMAC" THEN 14 ELSE IF x = "srcIP" THEN 28
                  ELSE IF x = "dstIP" THEN 38 ELSE IF x = "srcPort" THEN 48 ELSE IF x = "dstPort" THEN 52
                  ELSE 56

\* The field the n-th call writes.
FieldNo(n) == IF n = 93 THEN ReplyType
              ELSE IF n <= 14 THEN FieldOf("srcMAC", n - 0)
              ELSE IF n <= 28 THEN FieldOf("dstMAC", n - 14)
              ELSE IF n <= 38 THEN FieldOf("srcIP", n - 28)
              ELSE IF n <= 48 THEN FieldOf("dstIP", n - 38)
              ELSE IF n <= 52 THEN FieldOf("srcPort", n - 48)
              ELSE IF n <= 56 THEN FieldOf("dstPort", n - 52)
              ELSE FieldOf("dns", n - 56)

LEMMA ParsePlaces ==
  /\ ParseFrom(ReplyType) = 677
  /\ \A x \in Sections : ParseFrom(BW(x)) = ParseAt[x].bw /\ ParseFrom(Length(x)) = ParseAt[x].length
  /\ \A i \in 0 .. 1 : ParseFrom(EndPtr(i)) = 405 + 8 * i
  /\ \A x \in Sections : \A i, j \in Nat :
        ParseFrom(Cell(x, i, j)) = ParseAt[x].list + ParseAt[x].item * i + 8 * j
<1>1. ParseFrom(ReplyType) = 677
  BY DEF ParseFrom, ReplyType
<1>2. ASSUME NEW x \in Sections PROVE ParseFrom(BW(x)) = ParseAt[x].bw
  <2>1. BW(x) # ReplyType
    BY DEF BW, ReplyType, Sections
  <2>2. BW(x)[1] = x /\ BW(x)[2] = "BW"
    BY DEF BW
  <2> QED
    BY <2>1, <2>2 DEF ParseFrom
<1>3. ASSUME NEW x \in Sections PROVE ParseFrom(Length(x)) = ParseAt[x].length
  <2>1. Length(x)[1] = x /\ Length(x)[2] = "Length"
    BY DEF Length
  <2> QED
    BY <2>1 DEF ParseFrom
<1>4. ASSUME NEW i \in 0 .. 1 PROVE ParseFrom(EndPtr(i)) = 405 + 8 * i
  <2>1. EndPtr(i)[2] = "ItemEndPtr" /\ EndPtr(i)[3] = i
    BY DEF EndPtr
  <2> QED
    BY <2>1 DEF ParseFrom
<1>5. ASSUME NEW x \in Sections, NEW i \in Nat, NEW j \in Nat
      PROVE  ParseFrom(Cell(x, i, j)) = ParseAt[x].list + ParseAt[x].item * i + 8 * j
  <2>1. Cell(x, i, j)[1] = x /\ Cell(x, i, j)[2] = "List" /\ Cell(x, i, j)[3] = i /\ Cell(x, i, j)[4] = j
    BY DEF Cell
  <2> QED
    BY <2>1 DEF ParseFrom
<1> QED
  BY <1>1, <1>2, <1>3, <1>4, <1>5

LEMMA SlicePlaces ==
  /\ SliceFrom(ReplyType) = 677
  /\ \A x \in Sections : SliceFrom(BW(x)) = SliceAt[x].bw /\ SliceFrom(Length(x)) = SliceAt[x].length
  /\ \A i \in 0 .. 1 : SliceFrom(EndPtr(i)) = EndPtrAt[i + 1]
  /\ \A x \in Sections : \A i \in 0 .. 1, j \in Nat : SliceFrom(Cell(x, i, j)) = SliceAt[x].list[i + 1] + 8 * j
<1>1. SliceFrom(ReplyType) = 677
  BY DEF SliceFrom, ReplyType
<1>2. ASSUME NEW x \in Sections PROVE SliceFrom(BW(x)) = SliceAt[x].bw
  <2>1. BW(x) # ReplyType
    BY DEF BW, ReplyType, Sections
  <2>2. BW(x)[1] = x /\ BW(x)[2] = "BW"
    BY DEF BW
  <2> QED
    BY <2>1, <2>2 DEF SliceFrom
<1>3. ASSUME NEW x \in Sections PROVE SliceFrom(Length(x)) = SliceAt[x].length
  <2>1. Length(x)[1] = x /\ Length(x)[2] = "Length"
    BY DEF Length
  <2> QED
    BY <2>1 DEF SliceFrom
<1>4. ASSUME NEW i \in 0 .. 1 PROVE SliceFrom(EndPtr(i)) = EndPtrAt[i + 1]
  <2>1. EndPtr(i)[2] = "ItemEndPtr" /\ EndPtr(i)[3] = i
    BY DEF EndPtr
  <2> QED
    BY <2>1 DEF SliceFrom
<1>5. ASSUME NEW x \in Sections, NEW i \in 0 .. 1, NEW j \in Nat
      PROVE  SliceFrom(Cell(x, i, j)) = SliceAt[x].list[i + 1] + 8 * j
  <2>1. Cell(x, i, j)[1] = x /\ Cell(x, i, j)[2] = "List" /\ Cell(x, i, j)[3] = i /\ Cell(x, i, j)[4] = j
    BY DEF Cell
  <2> QED
    BY <2>1 DEF SliceFrom
<1> QED
  BY <1>1, <1>2, <1>3, <1>4, <1>5

\* The tables of the tool and of the board agree with the order of the calls.
LEMMA Tables ==
  ASSUME NEW x \in Sections
  PROVE  LET b == Pos(CallsBefore(x) + 1) IN
         /\ ParseAt[x].bw = b /\ SliceAt[x].bw = b
         /\ ParseAt[x].length = b + 1 /\ SliceAt[x].length = b + 1
         /\ ParseAt[x].list = b + 3 + 8 * (Heads(x) - 2) /\ SliceAt[x].list[1] = b + 3 + 8 * (Heads(x) - 2)
         /\ ParseAt[x].item = IF x \in Ports THEN 16 ELSE 8 * Cells[x]
         /\ SliceAt[x].list[2] = ParseAt[x].list + ParseAt[x].item
<1>1. CASE x = "srcMAC"
  <2>1. CallsBefore(x) = 0
    BY <1>1 DEF CallsBefore
  <2>2. Pos(0 + 1) = 0
    BY DEF Pos, PlaceAt
  <2> QED
    BY <1>1, <2>1, <2>2, CellNumbers DEF ParseAt, SliceAt, Heads, Ports
<1>2. CASE x = "dstMAC"
  <2>1. CallsBefore(x) = 14
    BY <1>2 DEF CallsBefore
  <2>2. Pos(14 + 1) = 99
    BY DEF Pos, PlaceAt
  <2> QED
    BY <1>2, <2>1, <2>2, CellNumbers DEF ParseAt, SliceAt, Heads, Ports
<1>3. CASE x = "srcIP"
  <2>1. CallsBefore(x) = 28
    BY <1>3 DEF CallsBefore
  <2>2. Pos(28 + 1) = 198
    BY DEF Pos, PlaceAt
  <2> QED
    BY <1>3, <2>1, <2>2, CellNumbers DEF ParseAt, SliceAt, Heads, Ports
<1>4. CASE x = "dstIP"
  <2>1. CallsBefore(x) = 38
    BY <1>4 DEF CallsBefore
  <2>2. Pos(38 + 1) = 265
    BY DEF Pos, PlaceAt
  <2> QED
    BY <1>4, <2>1, <2>2, CellNumbers DEF ParseAt, SliceAt, Heads, Ports
<1>5. CASE x = "srcPort"
  <2>1. CallsBefore(x) = 48
    BY <1>5 DEF CallsBefore
  <2>2. Pos(48 + 1) = 332
    BY DEF Pos, PlaceAt
  <2> QED
    BY <1>5, <2>1, <2>2, CellNumbers DEF ParseAt, SliceAt, Heads, Ports
<1>6. CASE x = "dstPort"
  <2>1. CallsBefore(x) = 52
    BY <1>6 DEF CallsBefore
  <2>2. Pos(52 + 1) = 367
    BY DEF Pos, PlaceAt
  <2> QED
    BY <1>6, <2>1, <2>2, CellNumbers DEF ParseAt, SliceAt, Heads, Ports
<1>7. CASE x = "dns"
  <2>1. CallsBefore(x) = 56
    BY <1>7 DEF CallsBefore
  <2>2. Pos(56 + 1) = 402
    BY DEF Pos, PlaceAt
  <2> QED
    BY <1>7, <2>1, <2>2, CellNumbers DEF ParseAt, SliceAt, Heads, Ports
<1> QED
  BY <1>1, <1>2, <1>3, <1>4, <1>5, <1>6, <1>7 DEF Sections

LEMMA SectionPlace ==
  ASSUME NEW x \in Sections, NEW k \in 1 .. Count(x)
  PROVE  LET n == CallsBefore(x) + k IN
         /\ n \in 1 .. 92 /\ FieldNo(n) = FieldOf(x, k)
         /\ Pos(n) = Pos(CallsBefore(x) + 1) + PlaceAt(x, k)
         /\ Pos(n + 1) - Pos(n) = WidthAt(x, k)
<1>1. CASE x = "srcMAC"
  <2>1. CallsBefore(x) = 0 /\ k \in 1 .. 14
    BY <1>1, Counts DEF CallsBefore
  <2>2. Pos(0 + 1) = 0
    BY DEF Pos, PlaceAt
  <2>3. (0 + k) - 0 = k
    BY <2>1
  <2>4. 0 + k \in 1 .. 92 /\ FieldNo(0 + k) = FieldOf("srcMAC", k)
    BY <2>1, <2>3 DEF FieldNo
  <2>5. Pos(0 + k) = 0 + PlaceAt("srcMAC", k)
    BY <2>1, <2>3 DEF Pos, PlaceAt, Ports
  <2>6. Pos((0 + k) + 1) - Pos(0 + k) = WidthAt("srcMAC", k)
    BY <2>1, <2>3, <2>4, SectionPos
  <2> QED
    BY <1>1, <2>1, <2>2, <2>4, <2>5, <2>6
<1>2. CASE x = "dstMAC"
  <2>1. CallsBefore(x) = 14 /\ k \in 1 .. 14
    BY <1>2, Counts DEF CallsBefore
  <2>2. Pos(14 + 1) = 99
    BY DEF Pos, PlaceAt
  <2>3. (14 + k) - 14 = k
    BY <2>1
  <2>4. 14 + k \in 1 .. 92 /\ FieldNo(14 + k) = FieldOf("dstMAC", k)
    BY <2>1, <2>3 DEF FieldNo
  <2>5. Pos(14 + k) = 99 + PlaceAt("dstMAC", k)
    BY <2>1, <2>3 DEF Pos, PlaceAt, Ports
  <2>6. Pos((14 + k) + 1) - Pos(14 + k) = WidthAt("dstMAC", k)
    BY <2>1, <2>3, <2>4, SectionPos
  <2> QED
    BY <1>2, <2>1, <2>2, <2>4, <2>5, <2>6
<1>3. CASE x = "srcIP"
  <2>1. CallsBefore(x) = 28 /\ k \in 1 .. 10
    BY <1>3, Counts DEF CallsBefore
  <2>2. Pos(28 + 1) = 198
    BY DEF Pos, PlaceAt
  <2>3. (28 + k) - 28 = k
    BY <2>1
  <2>4. 28 + k \in 1 .. 92 /\ FieldNo(28 + k) = FieldOf("srcIP", k)
    BY <2>1, <2>3 DEF FieldNo
  <2>5. Pos(28 + k) = 198 + PlaceAt("srcIP", k)
    BY <2>1, <2>3 DEF Pos, PlaceAt, Ports
  <2>6. Pos((28 + k) + 1) - Pos(28 + k) = WidthAt("srcIP", k)
    BY <2>1, <2>3, <2>4, SectionPos
  <2> QED
    BY <1>3, <2>1, <2>2, <2>4, <2>5, <2>6
<1>4. CASE x = "dstIP"
  <2>1. CallsBefore(x) = 38 /\ k \in 1 .. 10
    BY <1>4, Counts DEF CallsBefore
  <2>2. Pos(38 + 1) = 265
    BY DEF Pos, PlaceAt
  <2>3. (38 + k) - 38 = k
    BY <2>1
  <2>4. 38 + k \in 1 .. 92 /\ FieldNo(38 + k) = FieldOf("dstIP", k)
    BY <2>1, <2>3 DEF FieldNo
  <2>5. Pos(38 + k) = 265 + PlaceAt("dstIP", k)
    BY <2>1, <2>3 DEF Pos, PlaceAt, Ports
  <2>6. Pos((38 + k) + 1) - Pos(38 + k) = WidthAt("dstIP", k)
    BY <2>1, <2>3, <2>4, SectionPos
  <2> QED
    BY <1>4, <2>1, <2>2, <2>4, <2>5, <2>6
<1>5. CASE x = "srcPort"
  <2>1. CallsBefore(x) = 48 /\ k \in 1 .. 4
    BY <1>5, Counts DEF CallsBefore
  <2>2. Pos(48 + 1) = 332
    BY DEF Pos, PlaceAt
  <2>3. (48 + k) - 48 = k
    BY <2>1
  <2>4. 48 + k \in 1 .. 92 /\ FieldNo(48 + k) = FieldOf("srcPort", k)
    BY <2>1, <2>3 DEF FieldNo
  <2>5. Pos(48 + k) = 332 + PlaceAt("srcPort", k)
    BY <2>1, <2>3 DEF Pos, PlaceAt, Ports
  <2>6. Pos((48 + k) + 1) - Pos(48 + k) = WidthAt("srcPort", k)
    BY <2>1, <2>3, <2>4, SectionPos
  <2> QED
    BY <1>5, <2>1, <2>2, <2>4, <2>5, <2>6
<1>6. CASE x = "dstPort"
  <2>1. CallsBefore(x) = 52 /\ k \in 1 .. 4
    BY <1>6, Counts DEF CallsBefore
  <2>2. Pos(52 + 1) = 367
    BY DEF Pos, PlaceAt
  <2>3. (52 + k) - 52 = k
    BY <2>1
  <2>4. 52 + k \in 1 .. 92 /\ FieldNo(52 + k) = FieldOf("dstPort", k)
    BY <2>1, <2>3 DEF FieldNo
  <2>5. Pos(52 + k) = 367 + PlaceAt("dstPort", k)
    BY <2>1, <2>3 DEF Pos, PlaceAt, Ports
  <2>6. Pos((52 + k) + 1) - Pos(52 + k) = WidthAt("dstPort", k)
    BY <2>1, <2>3, <2>4, SectionPos
  <2> QED
    BY <1>6, <2>1, <2>2, <2>4, <2>5, <2>6
<1>7. CASE x = "dns"
  <2>1. CallsBefore(x) = 56 /\ k \in 1 .. 36
    BY <1>7, Counts DEF CallsBefore
  <2>2. Pos(56 + 1) = 402
    BY DEF Pos, PlaceAt
  <2>3. (56 + k) - 56 = k
    BY <2>1
  <2>4. 56 + k \in 1 .. 92 /\ FieldNo(56 + k) = FieldOf("dns", k)
    BY <2>1, <2>3 DEF FieldNo
  <2>5. Pos(56 + k) = 402 + PlaceAt("dns", k)
    BY <2>1, <2>3 DEF Pos, PlaceAt, Ports
  <2>6. Pos((56 + k) + 1) - Pos(56 + k) = WidthAt("dns", k)
    BY <2>1, <2>3, <2>4, SectionPos
  <2> QED
    BY <1>7, <2>1, <2>2, <2>4, <2>5, <2>6
<1> QED
  BY <1>1, <1>2, <1>3, <1>4, <1>5, <1>6, <1>7 DEF Sections

\* Tool and board find a field where its call put it.
LEMMA FieldPlace ==
  ASSUME NEW x \in Sections, NEW k \in 1 .. Count(x)
  PROVE  LET fld == FieldOf(x, k)
             n == CallsBefore(x) + k
         IN /\ ParseFrom(fld) = Pos(n) /\ SliceFrom(fld) = Pos(n)
            /\ Width(fld) = Pos(n + 1) - Pos(n) /\ fld \in FilterFields
<1> DEFINE fld == FieldOf(x, k)
           b == Pos(CallsBefore(x) + 1)
<1>0. /\ ParseAt[x].bw = b /\ SliceAt[x].bw = b
      /\ ParseAt[x].length = b + 1 /\ SliceAt[x].length = b + 1
      /\ ParseAt[x].list = b + 3 + 8 * (Heads(x) - 2) /\ SliceAt[x].list[1] = b + 3 + 8 * (Heads(x) - 2)
      /\ ParseAt[x].item = IF x \in Ports THEN 16 ELSE 8 * Cells[x]
      /\ SliceAt[x].list[2] = ParseAt[x].list + ParseAt[x].item
  BY Tables
<1>1. b \in Nat
  <2>1. CallsBefore(x) + 1 \in 1 .. 102
    BY DEF CallsBefore
  <2> QED
    BY <2>1, PosNat
<1> HIDE DEF b
<1>2. Count(x) = Heads(x) + (2 * Cells[x]) /\ Cells[x] \in 1 .. 16 /\ Heads(x) \in {2, 4}
  BY CellNumbers DEF Count, Depth, Heads
<1>3. /\ Pos(CallsBefore(x) + k) = b + PlaceAt(x, k)
      /\ Pos((CallsBefore(x) + k) + 1) - Pos(CallsBefore(x) + k) = WidthAt(x, k)
  BY SectionPlace DEF b
<1>4. /\ ParseFrom(fld) = b + PlaceAt(x, k) /\ SliceFrom(fld) = b + PlaceAt(x, k)
      /\ Width(fld) = WidthAt(x, k) /\ fld \in FilterFields
  <2>1. CASE k = 1
    <3>1. fld = BW(x) /\ WidthAt(x, k) = 1 /\ PlaceAt(x, k) = 0
      BY <2>1 DEF FieldOf, WidthAt, PlaceAt
    <3> QED
      BY <1>0, <1>1, <3>1, Widths, AreFields, ParsePlaces, SlicePlaces
  <2>2. CASE k = 2
    <3>1. fld = Length(x) /\ WidthAt(x, k) = 2 /\ PlaceAt(x, k) = 1
      BY <2>2 DEF FieldOf, WidthAt, PlaceAt
    <3> QED
      BY <1>0, <1>1, <3>1, Widths, AreFields, ParsePlaces, SlicePlaces
  <2>3. CASE k > 2 /\ k <= Heads(x)
    <3>1. x = "dns" /\ k - 3 \in 0 .. 1
      BY <2>3 DEF Heads
    <3>2. fld = EndPtr(k - 3) /\ WidthAt(x, k) = 8 /\ PlaceAt(x, k) = 3 + 8 * (k - 3)
      BY <2>3, <3>1 DEF FieldOf, WidthAt, PlaceAt, Ports
    <3>3. b = 402
      BY <1>0, <3>1 DEF ParseAt
    <3>4. EndPtrAt[(k - 3) + 1] = 405 + 8 * (k - 3)
      BY <3>1 DEF EndPtrAt
    <3>5. ParseFrom(fld) = 405 + 8 * (k - 3) /\ SliceFrom(fld) = 405 + 8 * (k - 3)
          /\ Width(fld) = 8 /\ fld \in FilterFields
      BY <3>1, <3>2, <3>4, Widths, AreFields, ParsePlaces, SlicePlaces
    <3> QED
      BY <3>1, <3>2, <3>3, <3>5
  <2>4. CASE k > Heads(x)
    <3> DEFINE n == k - (Heads(x) + 1)
               i == n \div Cells[x]
               j == n % Cells[x]
    <3>1. n \in 0 .. 2 * Cells[x] - 1 /\ k # 1 /\ k # 2 /\ ~(k <= Heads(x)) /\ k - 3 = n + (Heads(x) - 2)
      BY <1>2, <2>4
    <3>2. i \in 0 .. 1 /\ j \in 0 .. Cells[x] - 1
      BY <3>1, CellIndex
    <3>3. Cells[x] * i + j = n
      <4>1. Cells[x] \in {1, 4, 6, 16}
        BY CellNumbers DEF Sections
      <4> HIDE DEF n
      <4> QED
        BY <3>1, <4>1
    <3>4. fld = Cell(x, i, j)
      BY <3>1 DEF FieldOf
    <3>5. i \in Nat /\ j \in Nat
      BY <1>2, <3>2
    <3> HIDE DEF n, i, j, fld
    <3>6. fld \in FilterFields /\ Width(fld) = WidthAt(x, k)
      BY <3>1, <3>2, <3>4, <3>5, Widths, AreFields DEF WidthAt
    <3>7. ParseAt[x].item * i + 8 * j = IF x \in Ports THEN 16 * n ELSE 8 * n
      <4>1. CASE x \in Ports
        <5>1. Cells[x] = 1 /\ ParseAt[x].item = 16
          BY <1>0, <4>1, CellNumbers DEF Ports
        <5>2. j = 0 /\ i = n
          BY <3>2, <3>3, <3>5, <5>1
        <5> QED
          BY <3>5, <4>1, <5>1, <5>2
      <4>2. CASE x \notin Ports
        <5>1. ParseAt[x].item = 8 * Cells[x]
          BY <1>0, <4>2
        <5>2. CASE i = 0
          BY <1>2, <3>1, <3>3, <3>5, <4>2, <5>1, <5>2
        <5>3. CASE i = 1
          BY <1>2, <3>1, <3>3, <3>5, <4>2, <5>1, <5>3
        <5> QED
          BY <3>2, <5>2, <5>3
      <4> QED
        BY <4>1, <4>2
    <3>8. ParseFrom(fld) = ParseAt[x].list + ParseAt[x].item * i + 8 * j
      BY <3>4, <3>5, ParsePlaces
    <3>9. SliceFrom(fld) = ParseAt[x].list + ParseAt[x].item * i + 8 * j
      <4>1. SliceFrom(fld) = SliceAt[x].list[i + 1] + 8 * j
        BY <3>2, <3>4, <3>5, SlicePlaces
      <4>2. ParseAt[x].item \in Nat /\ ParseAt[x].list \in Nat
        BY <1>0, <1>1, <1>2
      <4>3. CASE i = 0
        BY <1>0, <3>5, <4>1, <4>2, <4>3
      <4>4. CASE i = 1
        BY <1>0, <3>5, <4>1, <4>2, <4>4
      <4> QED
        BY <3>2, <4>3, <4>4
    <3>10. PlaceAt(x, k) = 3 + (IF x \in Ports THEN 16 * (k - 3) ELSE 8 * (k - 3))
      BY <3>1 DEF PlaceAt
    <3>11. x \in Ports => Heads(x) = 2
      BY DEF Ports, Heads
    <3>12. /\ ParseAt[x].list \in Nat /\ ParseAt[x].item \in Nat /\ ParseAt[x].item * i \in Nat
           /\ ParseAt[x].list = b + 3 + 8 * (Heads(x) - 2)
      <4>1. ParseAt[x].item \in Nat /\ ParseAt[x].list \in Nat
        BY <1>0, <1>1, <1>2
      <4>2. ParseAt[x].item * i \in Nat
        BY <3>2, <4>1
      <4> QED
        BY <1>0, <4>1, <4>2
    <3>13. ParseAt[x].list + ParseAt[x].item * i + 8 * j = b + PlaceAt(x, k)
      <4> DEFINE q == ParseAt[x].item * i
      <4>1. q \in Nat /\ q + 8 * j = IF x \in Ports THEN 16 * n ELSE 8 * n
        BY <3>7, <3>12
      <4> HIDE DEF q
      <4>2. ParseAt[x].list + q + 8 * j = b + PlaceAt(x, k)
        <5>1. ParseAt[x].list = b + 3 + 8 * (Heads(x) - 2) /\ b \in Nat /\ Heads(x) \in Nat
          BY <1>1, <1>2, <3>12
        <5>2. n \in Nat /\ k - 3 = n + (Heads(x) - 2) /\ j \in Nat /\ q \in Nat
          BY <1>2, <3>1, <3>5, <4>1
        <5>3. CASE x \in Ports
          <6>1. q + 8 * j = 16 * n /\ Heads(x) = 2 /\ PlaceAt(x, k) = 3 + 16 * (k - 3)
            BY <3>10, <3>11, <4>1, <5>3
          <6> QED
            BY <5>1, <5>2, <6>1
        <5>4. CASE x \notin Ports
          <6>1. q + 8 * j = 8 * n /\ PlaceAt(x, k) = 3 + 8 * (k - 3)
            BY <3>10, <4>1, <5>4
          <6> QED
            BY <5>1, <5>2, <6>1
        <5> QED
          BY <5>3, <5>4
      <4> QED
        BY <4>2 DEF q
    <3> QED
      BY <3>6, <3>8, <3>9, <3>13
  <2> QED
    BY <1>2, <2>1, <2>2, <2>3, <2>4
<1> QED
  BY <1>3, <1>4

\* Every field has its call.
LEMMA FieldFound ==
  ASSUME NEW fld \in FilterFields
  PROVE  \E n \in 1 .. 93 : fld = FieldNo(n)
<1> DEFINE Flags == {BW(x) : x \in Sections}
           Lengths == {Length(x) : x \in Sections}
           Lists == UNION {ListFields(x) : x \in Sections}
           Ptrs == {EndPtr(i) : i \in 0 .. Depth - 1}
<1>1. fld \in Flags \/ fld \in Lengths \/ fld \in Lists \/ fld \in Ptrs \/ fld = ReplyType
  <2>1. FilterFields = Flags \cup Lengths \cup Lists \cup Ptrs \cup {ReplyType}
    BY DEF FilterFields
  <2> HIDE DEF Flags, Lengths, Lists, Ptrs
  <2> QED
    BY <2>1
<1>2. ASSUME NEW x \in Sections, NEW k \in 1 .. Count(x), fld = FieldOf(x, k)
      PROVE  \E n \in 1 .. 93 : fld = FieldNo(n)
  <2> DEFINE n == CallsBefore(x) + k
  <2>1. n \in 1 .. 92 /\ FieldNo(n) = FieldOf(x, k)
    BY SectionPlace
  <2> HIDE DEF n
  <2>2. n \in 1 .. 93 /\ fld = FieldNo(n)
    BY <1>2, <2>1
  <2> QED
    BY <2>2
<1>3. \A x \in Sections : Count(x) = Heads(x) + (2 * Cells[x]) /\ Cells[x] \in {1, 4, 6, 16} /\ Heads(x) \in {2, 4}
  BY CellNumbers DEF Count, Depth, Heads, Sections
<1>4. CASE fld \in Flags
  <2>1. PICK x \in Sections : fld = BW(x)
    BY <1>4
  <2>2. 1 \in 1 .. Count(x) /\ fld = FieldOf(x, 1)
    BY <1>3, <2>1 DEF FieldOf
  <2> QED
    BY <1>2, <2>2
<1>5. CASE fld \in Lengths
  <2>1. PICK x \in Sections : fld = Length(x)
    BY <1>5
  <2>2. 2 \in 1 .. Count(x) /\ fld = FieldOf(x, 2)
    BY <1>3, <2>1 DEF FieldOf
  <2> QED
    BY <1>2, <2>2
<1>6. CASE fld \in Lists
  <2>1. PICK x \in Sections : fld \in ListFields(x)
    BY <1>6
  <2>2. PICK i \in 0 .. Depth - 1, j \in 0 .. Cells[x] - 1 : fld = Cell(x, i, j)
    BY <2>1 DEF ListFields
  <2> DEFINE n == Cells[x] * i + j
             k == (Heads(x) + 1) + n
  <2>3. i \in 0 .. 1
    BY <2>2 DEF Depth
  <2>4. /\ n \in 0 .. 2 * Cells[x] - 1 /\ n \div Cells[x] = i /\ n % Cells[x] = j
    <3>1. Cells[x] \in {1, 4, 6, 16}
      BY <1>3
    <3>2. CASE Cells[x] = 1
      BY <2>3, <3>2
    <3>3. CASE Cells[x] = 4
      BY <2>3, <3>3
    <3>4. CASE Cells[x] = 6
      BY <2>3, <3>4
    <3>5. CASE Cells[x] = 16
      BY <2>3, <3>5
    <3> QED
      BY <3>1, <3>2, <3>3, <3>4, <3>5
  <2> HIDE DEF n
  <2>5. k \in 1 .. Count(x) /\ k - (Heads(x) + 1) = n /\ ~(k <= Heads(x)) /\ k # 1 /\ k # 2
    BY <1>3, <2>4
  <2> HIDE DEF k
  <2>6. fld = FieldOf(x, k)
    BY <2>2, <2>4, <2>5 DEF FieldOf
  <2> QED
    BY <1>2, <2>5, <2>6
<1>7. CASE fld \in Ptrs
  <2>1. PICK i \in 0 .. Depth - 1 : fld = EndPtr(i)
    BY <1>7
  <2> DEFINE x == "dns"
             k == i + 3
  <2>2. x \in Sections /\ k \in 1 .. Count(x) /\ k - 3 = i /\ k <= Heads(x) /\ k # 1 /\ k # 2
    BY <2>1, Counts DEF Sections, Depth, Heads
  <2> HIDE DEF x, k
  <2>3. fld = FieldOf(x, k)
    BY <2>1, <2>2 DEF FieldOf
  <2> QED
    BY <1>2, <2>2, <2>3
<1>8. CASE fld = ReplyType
  BY <1>8 DEF FieldNo
<1> QED
  BY <1>1, <1>4, <1>5, <1>6, <1>7, <1>8

LEMMA SectionOf ==
  ASSUME NEW n \in 1 .. 92
  PROVE  \E x \in Sections : n - CallsBefore(x) \in 1 .. Count(x)
<1>1. CASE n \in 1 .. 14
  <2>1. "srcMAC" \in Sections /\ n - CallsBefore("srcMAC") \in 1 .. Count("srcMAC")
    BY <1>1, Counts DEF Sections, CallsBefore
  <2> QED
    BY <2>1
<1>2. CASE n \in 15 .. 28
  <2>1. "dstMAC" \in Sections /\ n - CallsBefore("dstMAC") \in 1 .. Count("dstMAC")
    BY <1>2, Counts DEF Sections, CallsBefore
  <2> QED
    BY <2>1
<1>3. CASE n \in 29 .. 38
  <2>1. "srcIP" \in Sections /\ n - CallsBefore("srcIP") \in 1 .. Count("srcIP")
    BY <1>3, Counts DEF Sections, CallsBefore
  <2> QED
    BY <2>1
<1>4. CASE n \in 39 .. 48
  <2>1. "dstIP" \in Sections /\ n - CallsBefore("dstIP") \in 1 .. Count("dstIP")
    BY <1>4, Counts DEF Sections, CallsBefore
  <2> QED
    BY <2>1
<1>5. CASE n \in 49 .. 52
  <2>1. "srcPort" \in Sections /\ n - CallsBefore("srcPort") \in 1 .. Count("srcPort")
    BY <1>5, Counts DEF Sections, CallsBefore
  <2> QED
    BY <2>1
<1>6. CASE n \in 53 .. 56
  <2>1. "dstPort" \in Sections /\ n - CallsBefore("dstPort") \in 1 .. Count("dstPort")
    BY <1>6, Counts DEF Sections, CallsBefore
  <2> QED
    BY <2>1
<1>7. CASE n \in 57 .. 92
  <2>1. "dns" \in Sections /\ n - CallsBefore("dns") \in 1 .. Count("dns")
    BY <1>7, Counts DEF Sections, CallsBefore
  <2> QED
    BY <2>1
<1> QED
  BY <1>1, <1>2, <1>3, <1>4, <1>5, <1>6, <1>7

LEMMA FieldFacts ==
  ASSUME NEW c, NEW n \in 1 .. 93
  PROVE  LET fld == FieldNo(n) IN
         /\ fld \in FilterFields /\ Width(fld) = Pos(n + 1) - Pos(n)
         /\ ParseFrom(fld) = Pos(n) /\ SliceFrom(fld) = Pos(n)
         /\ write_to_admin_pkt(c)[n].bits = ValueOf(c, fld)
<1> DEFINE P == write_to_admin_pkt(c)
<1>0. Layout(P, c)
  BY ProgramAt
<1> HIDE DEF P
<1>1. CASE n \in 1 .. 92
  <2>1. PICK x \in Sections : n - CallsBefore(x) \in 1 .. Count(x)
    BY <1>1, SectionOf
  <2> DEFINE k == n - CallsBefore(x)
             o == CallsBefore(x)
  <2>2. k \in 1 .. Count(x) /\ o + k = n /\ o \in Nat
    BY <2>1 DEF CallsBefore
  <2> HIDE DEF k, o
  <2>3. /\ FieldNo(n) = FieldOf(x, k)
        /\ ParseFrom(FieldOf(x, k)) = Pos(n) /\ SliceFrom(FieldOf(x, k)) = Pos(n)
        /\ Width(FieldOf(x, k)) = Pos(n + 1) - Pos(n) /\ FieldOf(x, k) \in FilterFields
    BY <2>2, SectionPlace, FieldPlace DEF o
  <2>4. Lies(P, o, SectionCalls(c, x), Count(x))
    BY <1>0, Counts DEF Layout, o, CallsBefore, Sections
  <2>5. P[o + k].bits = ValueOf(c, FieldOf(x, k))
    BY <2>2, <2>4, SectionCall
  <2> QED
    BY <2>2, <2>3, <2>5 DEF P
<1>2. CASE n = 93
  <2>1. P[93].bits = ValueOf(c, ReplyType)
    BY <1>0 DEF Layout, Call
  <2>2. Pos(93) = 677 /\ Pos(94) = 678 /\ FieldNo(93) = ReplyType
    BY DEF Pos, FieldNo
  <2> QED
    BY <1>2, <2>1, <2>2, Widths, AreFields, ParsePlaces, SlicePlaces DEF P
<1> QED
  BY <1>1, <1>2

\* The calls write one behind the other.
LEMMA PosGrows ==
  ASSUME NEW n \in 1 .. 93, NEW m \in 1 .. 94, n < m
  PROVE  Pos(n + 1) <= Pos(m)
<1> USE DEF Pos, PlaceAt, Ports
<1>1. CASE n \in 1 .. 14
  BY <1>1
<1>2. CASE n \in 15 .. 28
  BY <1>2
<1>3. CASE n \in 29 .. 38
  BY <1>3
<1>4. CASE n \in 39 .. 48
  BY <1>4
<1>5. CASE n \in 49 .. 52
  BY <1>5
<1>6. CASE n \in 53 .. 56
  BY <1>6
<1>7. CASE n \in 57 .. 92
  BY <1>7
<1>8. CASE n = 93
  BY <1>8
<1> QED
  BY <1>1, <1>2, <1>3, <1>4, <1>5, <1>6, <1>7, <1>8

-------------------------------------------------------------------------------
(* Reading bits out of a packet.                                             *)

LEMMA ByteBits ==
  ASSUME NEW pkt, NEW l, Sized(pkt, l), NEW i \in Nat, NEW mask, NEW p \in WordBits
  PROVE  PktByte(pkt, i, mask)[p] = IF p \in mask /\ p < 8 THEN pkt[8 * i + 1 + p] ELSE Zero
<1> DEFINE v == SubSeq(pkt, 8 * i + 1, 8 * i + 8)
<1>1. pkt \in Seq({pkt[j] : j \in 1 .. l}) /\ Len(pkt) = l
  BY SizedSeq
<1>2. v = [j \in 1 .. 8 |-> pkt[(8 * i + 1) + j - 1]]
  <2>1. v = [j \in 1 .. ((8 * i + 8) - (8 * i + 1)) + 1 |-> pkt[(8 * i + 1) + j - 1]]
    BY <1>1
  <2>2. ((8 * i + 8) - (8 * i + 1)) + 1 = 8
    OBVIOUS
  <2> QED
    BY <2>1, <2>2
<1> HIDE DEF v
<1>3. Sized(v, 8)
  BY <1>2 DEF Sized
<1>4. Len(v) = 8
  BY <1>3, SizedSeq
<1>5. PktByte(pkt, i, mask)[p] = IF p \in mask THEN Word(v)[p] ELSE Zero
  BY Zenon DEF PktByte, And, v
<1>6. Word(v)[p] = IF p < 8 THEN v[p + 1] ELSE Zero
  BY <1>4 DEF Word
<1>7. p < 8 => p + 1 \in 1 .. 8 /\ (8 * i + 1) + (p + 1) - 1 = 8 * i + 1 + p
  BY DEF WordBits
<1>8. p < 8 => v[p + 1] = pkt[8 * i + 1 + p]
  BY <1>2, <1>7
<1> QED
  BY <1>5, <1>6, <1>8

\* Where a byte of several is shifted to, and which of its bits are taken.
GatherMask(i, eb, eo) == IF i = eb THEN 0 .. eo - 1 ELSE 0 .. 7
GatherFirst(pkt, sb, so) == Shr(PktByte(pkt, sb, so .. 7), so)
GatherNext(pkt, w, i, sb, so, eb, eo) == Or(w, Shl(PktByte(pkt, i, GatherMask(i, eb, eo)), (i - sb) * 8 - so))

\* The bits from s on that have been gathered when byte i is in.
GatheredTo(w, pkt, i, sb, so, k) ==
  \A p \in WordBits : w[p] = IF p < 8 * (i - sb + 1) - so /\ p < k THEN pkt[8 * sb + so + p + 1] ELSE Zero

LEMMA GatherStart ==
  ASSUME NEW pkt, NEW l, Sized(pkt, l), NEW sb \in Nat, NEW so \in 0 .. 7, NEW k \in 1 .. 64, 8 - so < k
  PROVE  GatheredTo(GatherFirst(pkt, sb, so), pkt, sb, sb, so, k)
<1> SUFFICES ASSUME NEW p \in WordBits
             PROVE  GatherFirst(pkt, sb, so)[p] =
                      IF p < 8 * (sb - sb + 1) - so /\ p < k THEN pkt[8 * sb + so + p + 1] ELSE Zero
  BY DEF GatheredTo
<1>1. GatherFirst(pkt, sb, so)[p] = IF p + so <= 63 THEN PktByte(pkt, sb, so .. 7)[p + so] ELSE Zero
  BY Zenon DEF GatherFirst, Shr
<1>2. 8 * (sb - sb + 1) - so = 8 - so
  OBVIOUS
<1>3. CASE p < 8 - so
  <2>1. p + so \in WordBits /\ p + so <= 63 /\ p + so \in so .. 7 /\ p + so < 8 /\ p < k
        /\ 8 * sb + 1 + (p + so) = 8 * sb + so + p + 1
    BY <1>3 DEF WordBits
  <2> QED
    BY <1>1, <1>2, <1>3, <2>1, ByteBits
<1>4. CASE ~(p < 8 - so)
  <2>1. p + so <= 63 => p + so \in WordBits /\ ~(p + so < 8)
    BY <1>4 DEF WordBits
  <2> QED
    BY <1>1, <1>2, <1>4, <2>1, ByteBits
<1> QED
  BY <1>3, <1>4

LEMMA GatherStep ==
  ASSUME NEW pkt, NEW l, Sized(pkt, l), NEW sb \in Nat, NEW so \in 0 .. 7, NEW k \in 1 .. 64,
         NEW eb \in Nat, NEW eo \in 1 .. 8, k = 8 * (eb - sb) - so + eo,
         NEW i \in Nat, sb < i, i <= eb, NEW w, GatheredTo(w, pkt, i - 1, sb, so, k)
  PROVE  GatheredTo(GatherNext(pkt, w, i, sb, so, eb, eo), pkt, i, sb, so, k)
<1> DEFINE n == (i - sb) * 8 - so
           mask == GatherMask(i, eb, eo)
<1> SUFFICES ASSUME NEW p \in WordBits
             PROVE  GatherNext(pkt, w, i, sb, so, eb, eo)[p] =
                      IF p < 8 * (i - sb + 1) - so /\ p < k THEN pkt[8 * sb + so + p + 1] ELSE Zero
  BY DEF GatheredTo
<1>1. n \in Nat /\ 8 * ((i - 1) - sb + 1) - so = n /\ 8 * (i - sb + 1) - so = n + 8
  OBVIOUS
<1>2. w[p] = IF p < n /\ p < k THEN pkt[8 * sb + so + p + 1] ELSE Zero
  BY <1>1 DEF GatheredTo
<1>3. n < k /\ (i = eb => k = n + eo) /\ (i # eb => n + 8 < k)
  OBVIOUS
<1>4. ASSUME p >= n
      PROVE  /\ p - n \in WordBits /\ 8 * i + 1 + (p - n) = 8 * sb + so + p + 1
             /\ p - n \in mask /\ p - n < 8 <=> p < n + 8 /\ p < k
  <2>1. p - n \in WordBits
    BY <1>1, <1>4 DEF WordBits
  <2>2. 8 * i + 1 + (p - n) = 8 * sb + so + p + 1
    BY DEF WordBits
  <2>3. p - n \in mask /\ p - n < 8 <=> p < n + 8 /\ p < k
    <3> p \in Int /\ n \in Nat
      BY <1>1 DEF WordBits
    <3> HIDE DEF n
    <3>1. CASE i = eb
      BY <1>3, <1>4, <3>1 DEF GatherMask
    <3>2. CASE i # eb
      BY <1>3, <1>4, <3>2 DEF GatherMask
    <3> QED
      BY <3>1, <3>2
  <2> QED
    BY <2>1, <2>2, <2>3
<1> DEFINE x == Shl(PktByte(pkt, i, mask), n)
<1>5. GatherNext(pkt, w, i, sb, so, eb, eo)[p] = IF w[p] = Zero THEN x[p] ELSE IF x[p] = Zero THEN w[p] ELSE Clash
  BY Zenon DEF GatherNext, Or
<1>6. x[p] = IF p >= n THEN PktByte(pkt, i, mask)[p - n] ELSE Zero
  BY Zenon DEF Shl
<1> HIDE DEF x, n, mask
<1>7. p >= n => PktByte(pkt, i, mask)[p - n] = IF p < n + 8 /\ p < k THEN pkt[8 * sb + so + p + 1] ELSE Zero
  <2> SUFFICES ASSUME p >= n
               PROVE  PktByte(pkt, i, mask)[p - n] = IF p < n + 8 /\ p < k THEN pkt[8 * sb + so + p + 1] ELSE Zero
    OBVIOUS
  <2>1. PktByte(pkt, i, mask)[p - n] = IF p - n \in mask /\ p - n < 8 THEN pkt[8 * i + 1 + (p - n)] ELSE Zero
    BY <1>4, ByteBits
  <2> QED
    BY <1>4, <2>1
<1>8. CASE p >= n
  <2>1. w[p] = Zero
    BY <1>1, <1>2, <1>8 DEF WordBits
  <2> QED
    BY <1>1, <1>5, <1>6, <1>7, <1>8, <2>1
<1>9. CASE ~(p >= n)
  <2>1. x[p] = Zero
    BY <1>6, <1>9
  <2>2. p < n /\ p < k /\ p < n + 8
    BY <1>1, <1>3, <1>9 DEF WordBits
  <2> QED
    BY <1>1, <1>2, <1>5, <2>1, <2>2
<1> QED
  BY <1>8, <1>9

\* The recursive function that gathers the bytes.
GatherFn(h, pkt, sb, so, eb, eo) ==
  h = [i \in sb .. eb |-> IF i = sb THEN GatherFirst(pkt, sb, so)
                          ELSE GatherNext(pkt, h[i - 1], i, sb, so, eb, eo)]

LEMMA GatherRun ==
  ASSUME NEW pkt, NEW sb \in Nat, NEW so, NEW eb \in Nat, NEW eo, sb < eb, eb <= sb + 8
  PROVE  \E h : GatherFn(h, pkt, sb, so, eb, eo) /\ Gathered(pkt, sb, so, eb, eo) = h[eb]
<1> DEFINE N(w, i) == GatherNext(pkt, w, i, sb, so, eb, eo)
           g0 == GatherFirst(pkt, sb, so)
           g1 == N(g0, sb + 1)  g2 == N(g1, sb + 2)  g3 == N(g2, sb + 3)  g4 == N(g3, sb + 4)
           g5 == N(g4, sb + 5)  g6 == N(g5, sb + 6)  g7 == N(g6, sb + 7)  g8 == N(g7, sb + 8)
           w == [i \in sb .. eb |-> IF i = sb THEN g0 ELSE IF i = sb + 1 THEN g1 ELSE IF i = sb + 2 THEN g2
                                    ELSE IF i = sb + 3 THEN g3 ELSE IF i = sb + 4 THEN g4
                                    ELSE IF i = sb + 5 THEN g5 ELSE IF i = sb + 6 THEN g6
                                    ELSE IF i = sb + 7 THEN g7 ELSE g8]
           h == CHOOSE x : GatherFn(x, pkt, sb, so, eb, eo)
<1>1. GatherFn(w, pkt, sb, so, eb, eo)
  <2>1. ASSUME NEW i \in sb .. eb PROVE w[i] = IF i = sb THEN g0 ELSE N(w[i - 1], i)
    <3>0. i \in Nat /\ i - 1 \in Int /\ (i # sb => i - 1 \in sb .. eb)
      OBVIOUS
    <3> HIDE DEF N, g0
    <3>1. CASE i = sb
      BY <3>1
    <3>2. CASE i = sb + 1
      BY <3>0, <3>2
    <3>3. CASE i = sb + 2
      BY <3>0, <3>3
    <3>4. CASE i = sb + 3
      BY <3>0, <3>4
    <3>5. CASE i = sb + 4
      BY <3>0, <3>5
    <3>6. CASE i = sb + 5
      BY <3>0, <3>6
    <3>7. CASE i = sb + 6
      BY <3>0, <3>7
    <3>8. CASE i = sb + 7
      BY <3>0, <3>8
    <3>9. CASE i = sb + 8
      BY <3>0, <3>9
    <3> QED
      BY <3>0, <3>1, <3>2, <3>3, <3>4, <3>5, <3>6, <3>7, <3>8, <3>9
  <2> DEFINE e(i) == IF i = sb THEN g0 ELSE N(w[i - 1], i)
  <2>2. w = [i \in sb .. eb |-> w[i]]
    OBVIOUS
  <2>3. \A i \in sb .. eb : w[i] = e(i)
    BY <2>1
  <2> HIDE DEF w, e
  <2>4. [i \in sb .. eb |-> w[i]] = [i \in sb .. eb |-> e(i)]
    BY <2>3, Zenon
  <2> QED
    BY <2>2, <2>4, Zenon DEF GatherFn, e
<1>2. GatherFn(h, pkt, sb, so, eb, eo)
  BY <1>1, Zenon
<1>3. Gathered(pkt, sb, so, eb, eo) = h[eb]
  <2>1. sb # eb
    OBVIOUS
  <2> QED
    BY <2>1, SMT DEF Gathered, GatherFn, GatherFirst, GatherNext, GatherMask
<1> QED
  BY <1>2, <1>3

LEMMA GatherRunStep ==
  ASSUME NEW pkt, NEW l, Sized(pkt, l), NEW sb \in Nat, NEW so \in 0 .. 7, NEW k \in 1 .. 64,
         NEW eb \in Nat, NEW eo \in 1 .. 8, k = 8 * (eb - sb) - so + eo,
         NEW h, GatherFn(h, pkt, sb, so, eb, eo), NEW i \in sb + 1 .. eb,
         GatheredTo(h[i - 1], pkt, i - 1, sb, so, k)
  PROVE  GatheredTo(h[i], pkt, i, sb, so, k)
<1>1. i \in Nat /\ sb < i /\ i <= eb /\ i \in sb .. eb /\ i # sb
  OBVIOUS
<1> DEFINE w == h[i - 1]
<1>2. h[i] = GatherNext(pkt, w, i, sb, so, eb, eo)
  BY <1>1, SMT DEF GatherFn
<1>3. GatheredTo(w, pkt, i - 1, sb, so, k)
  OBVIOUS
<1> HIDE DEF w
<1> QED
  BY <1>1, <1>2, <1>3, GatherStep

\* k bits, from bit so of byte sb to before bit eo of byte eb.
Spans(sb, so, eb, eo, k) ==
  /\ sb \in Nat /\ so \in 0 .. 7 /\ k \in 1 .. 64 /\ eb \in Nat /\ eo \in 1 .. 8
  /\ k = 8 * (eb - sb) - so + eo

Reads(w, pkt, sb, so, k) == \A b \in 1 .. k : w[b - 1] = pkt[8 * sb + so + b]

LEMMA GatheredBits ==
  ASSUME NEW pkt, NEW l, Sized(pkt, l), NEW sb, NEW so, NEW eb, NEW eo, NEW k, Spans(sb, so, eb, eo, k)
  PROVE  Reads(Gathered(pkt, sb, so, eb, eo), pkt, sb, so, k)
<1> SUFFICES \A b \in 1 .. k : Gathered(pkt, sb, so, eb, eo)[b - 1] = pkt[8 * sb + so + b]
  BY DEF Reads
<1> /\ sb \in Nat /\ so \in 0 .. 7 /\ k \in 1 .. 64 /\ eb \in Nat /\ eo \in 1 .. 8
    /\ k = 8 * (eb - sb) - so + eo
  BY DEF Spans
<1>1. CASE sb = eb
  <2> SUFFICES ASSUME NEW b \in 1 .. k
               PROVE  Gathered(pkt, sb, so, eb, eo)[b - 1] = pkt[8 * sb + so + b]
    OBVIOUS
  <2> DEFINE p == b - 1
             mask == so .. eo - 1
  <2>1. p \in WordBits /\ p + so <= 63 /\ p + so \in WordBits /\ p + so \in mask /\ p + so < 8
        /\ 8 * sb + 1 + (p + so) = 8 * sb + so + b
    BY <1>1 DEF WordBits
  <2>2. Gathered(pkt, sb, so, eb, eo) = Shr(PktByte(pkt, sb, mask), so)
    BY <1>1, SMT DEF Gathered
  <2> HIDE DEF p, mask
  <2>3. Shr(PktByte(pkt, sb, mask), so)[p] = PktByte(pkt, sb, mask)[p + so]
    BY <2>1, Zenon DEF Shr
  <2>4. PktByte(pkt, sb, mask)[p + so] = pkt[8 * sb + 1 + (p + so)]
    BY <2>1, ByteBits
  <2> QED
    BY <2>1, <2>2, <2>3, <2>4 DEF p
<1>2. CASE sb # eb
  <2>1. sb < eb /\ eb <= sb + 8 /\ 8 - so < k
    BY <1>2
  <2>2. PICK h : GatherFn(h, pkt, sb, so, eb, eo) /\ Gathered(pkt, sb, so, eb, eo) = h[eb]
    BY <2>1, GatherRun
  <2> DEFINE P(i) == GatheredTo(h[i], pkt, i, sb, so, k)
  <2>3. P(sb)
    <3>1. h[sb] = GatherFirst(pkt, sb, so)
      BY <2>1, <2>2, SMT DEF GatherFn
    <3> QED
      BY <2>1, <3>1, GatherStart
  <2> HIDE DEF P
  <2>4. ASSUME NEW j \in 1 .. 8, P(sb + (j - 1)), sb + j <= eb PROVE P(sb + j)
    <3> DEFINE i == sb + j
    <3>1. i \in sb + 1 .. eb /\ sb + (j - 1) = i - 1
      BY <2>4
    <3>2. P(i - 1)
      BY <2>4, <3>1
    <3> HIDE DEF i
    <3>3. P(i)
      BY <2>2, <3>1, <3>2, GatherRunStep DEF P
    <3> QED
      BY <3>3 DEF i
  <2>5. P(eb)
    <3>0. sb + 0 = sb /\ eb \in {sb + 1, sb + 2, sb + 3, sb + 4, sb + 5, sb + 6, sb + 7, sb + 8}
      BY <2>1
    <3>1. P(sb + 1)
      BY <2>1, <2>3, <2>4, <3>0
    <3>2. sb + 2 <= eb => P(sb + 2)
      BY <2>4, <3>1
    <3>3. sb + 3 <= eb => P(sb + 3)
      BY <2>4, <3>2
    <3>4. sb + 4 <= eb => P(sb + 4)
      BY <2>4, <3>3
    <3>5. sb + 5 <= eb => P(sb + 5)
      BY <2>4, <3>4
    <3>6. sb + 6 <= eb => P(sb + 6)
      BY <2>4, <3>5
    <3>7. sb + 7 <= eb => P(sb + 7)
      BY <2>4, <3>6
    <3>8. sb + 8 <= eb => P(sb + 8)
      BY <2>4, <3>7
    <3> QED
      BY <3>0, <3>1, <3>2, <3>3, <3>4, <3>5, <3>6, <3>7, <3>8
  <2>6. ASSUME NEW b \in 1 .. k PROVE h[eb][b - 1] = pkt[8 * sb + so + b]
    <3> DEFINE p == b - 1
    <3>1. p \in WordBits /\ p < k /\ p < 8 * (eb - sb + 1) - so /\ 8 * sb + so + p + 1 = 8 * sb + so + b
      BY DEF WordBits
    <3> HIDE DEF p
    <3>2. h[eb][p] = pkt[8 * sb + so + p + 1]
      BY <2>5, <3>1, SMT DEF P, GatheredTo
    <3> QED
      BY <3>1, <3>2 DEF p
  <2> QED
    BY <2>2, <2>6
<1> QED
  BY <1>1, <1>2

\* Reading k bits from bit s of a packet gives those bits, wherever they lie in
\* its bytes.
THEOREM ExtractReads ==
  ASSUME NEW pkt, NEW l, Sized(pkt, l), NEW s \in Nat, NEW k \in 1 .. 64, NEW b \in 1 .. k
  PROVE  extract_bits_from_arr(pkt, s, s + k - 1)[b - 1] = pkt[s + b]
<1> DEFINE e == s + k - 1
           sb == s \div 8  so == s % 8  eb == e \div 8  eo == (e % 8) + 1
<1>1. Spans(sb, so, eb, eo, k) /\ 8 * sb + so = s
  BY DEF Spans
<1>2. extract_bits_from_arr(pkt, s, e) = Gathered(pkt, sb, so, eb, eo)
  BY Zenon DEF extract_bits_from_arr
<1> HIDE DEF e, sb, so, eb, eo
<1>3. Reads(Gathered(pkt, sb, so, eb, eo), pkt, sb, so, k)
  BY <1>1, GatheredBits
<1> QED
  BY <1>1, <1>2, <1>3 DEF e, Reads

-------------------------------------------------------------------------------
(* A packet that carries a configuration.                                    *)

LEMMA FieldKind ==
  ASSUME NEW fld \in FilterFields
  PROVE  fld[2] # "Counter"
<1> DEFINE Flags == {BW(x) : x \in Sections}
           Lengths == {Length(x) : x \in Sections}
           Lists == UNION {ListFields(x) : x \in Sections}
           Ptrs == {EndPtr(i) : i \in 0 .. Depth - 1}
<1>1. fld \in Flags \/ fld \in Lengths \/ fld \in Lists \/ fld \in Ptrs \/ fld = ReplyType
  <2>1. FilterFields = Flags \cup Lengths \cup Lists \cup Ptrs \cup {ReplyType}
    BY Zenon DEF FilterFields
  <2> HIDE DEF Flags, Lengths, Lists, Ptrs
  <2> QED
    BY <2>1
<1>2. \A x : BW(x)[2] = "BW" /\ Length(x)[2] = "Length" /\ EndPtr(x)[2] = "ItemEndPtr"
  BY DEF BW, Length, EndPtr
<1>3. \A x, i, j : Cell(x, i, j)[2] = "List"
  BY DEF Cell
<1>4. CASE fld \in Flags
  BY <1>2, <1>4
<1>5. CASE fld \in Lengths
  BY <1>2, <1>5
<1>6. CASE fld \in Lists
  <2>1. PICK x \in Sections : fld \in ListFields(x)
    BY <1>6
  <2> QED
    BY <1>3, <2>1 DEF ListFields
<1>7. CASE fld \in Ptrs
  BY <1>2, <1>7
<1>8. CASE fld = ReplyType
  BY <1>8 DEF ReplyType
<1> QED
  BY <1>1, <1>4, <1>5, <1>6, <1>7, <1>8

LEMMA WidthKinds ==
  \A fld : Width(fld) \in {1, 2, 8, 16, 64} /\ (IsPort(fld) => Width(fld) = 16)
BY DEF Width, IsPort

\* All fields end before the counters begin.
LEMMA FieldAt ==
  ASSUME NEW fld \in FilterFields
  PROVE  /\ ParseFrom(fld) = SliceFrom(fld) /\ SliceFrom(fld) \in Nat
         /\ Width(fld) \in 1 .. 64 /\ SliceFrom(fld) + Width(fld) <= 678
<1>1. PICK n \in 1 .. 93 : fld = FieldNo(n)
  BY FieldFound
<1>2. ParseFrom(fld) = Pos(n) /\ SliceFrom(fld) = Pos(n) /\ Width(fld) = Pos(n + 1) - Pos(n)
  BY <1>1, FieldFacts
<1>3. Pos(n) \in Nat /\ Pos(n + 1) \in Nat
  BY PosNat
<1>4. Pos(n + 1) <= Pos(94) /\ Pos(94) = 678
  <2>1. n < 94 /\ 94 \in 1 .. 94
    OBVIOUS
  <2>2. Pos(n + 1) <= Pos(94)
    BY <2>1, PosGrows
  <2> QED
    BY <2>2 DEF Pos
<1>5. Width(fld) \in 1 .. 64
  BY WidthKinds
<1> QED
  BY <1>2, <1>3, <1>4, <1>5

\* No bit belongs to two fields.
LEMMA FieldsApart ==
  ASSUME NEW d \in FilterFields, NEW e \in FilterFields, NEW q \in Int,
         q - SliceFrom(d) \in 0 .. Width(d) - 1, q - SliceFrom(e) \in 0 .. Width(e) - 1
  PROVE  d = e
<1>1. PICK n \in 1 .. 93 : d = FieldNo(n)
  BY FieldFound
<1>2. PICK m \in 1 .. 93 : e = FieldNo(m)
  BY FieldFound
<1>3. /\ SliceFrom(d) = Pos(n) /\ Width(d) = Pos(n + 1) - Pos(n)
      /\ SliceFrom(e) = Pos(m) /\ Width(e) = Pos(m + 1) - Pos(m)
  BY <1>1, <1>2, FieldFacts
<1>4. Pos(n) \in Nat /\ Pos(n + 1) \in Nat /\ Pos(m) \in Nat /\ Pos(m + 1) \in Nat
  BY PosNat
<1>5. Pos(n) <= q /\ q < Pos(n + 1) /\ Pos(m) <= q /\ q < Pos(m + 1)
  BY <1>3, <1>4
<1>6. ~(n < m)
  <2>1. n < m => Pos(n + 1) <= Pos(m)
    BY PosGrows
  <2> QED
    BY <1>4, <1>5, <2>1
<1>7. ~(m < n)
  <2>1. m < n => Pos(m + 1) <= Pos(n)
    BY PosGrows
  <2> QED
    BY <1>4, <1>5, <2>1
<1> QED
  BY <1>1, <1>2, <1>6, <1>7

\* Every field of the configuration lies where the board looks for it.
Carries(w, c) == \A fld \in FilterFields : Lies(w, SliceFrom(fld), ValueOf(c, fld), Width(fld))

LEMMA HeldCarries ==
  ASSUME NEW w, NEW l, NEW c, Held(w, l, c, 102)
  PROVE  Carries(w, c)
<1> SUFFICES ASSUME NEW fld \in FilterFields
             PROVE  Lies(w, SliceFrom(fld), ValueOf(c, fld), Width(fld))
  BY DEF Carries
<1>1. PICK n \in 1 .. 93 : fld = FieldNo(n)
  BY FieldFound
<1>2. SliceFrom(fld) = Pos(n) /\ Width(fld) = Pos(n + 1) - Pos(n)
      /\ write_to_admin_pkt(c)[n].bits = ValueOf(c, fld)
  BY <1>1, FieldFacts
<1>3. n < 102
  OBVIOUS
<1>4. CallLies(w, l, c, n)
  BY <1>3 DEF Held
<1> QED
  BY <1>2, <1>4, Zenon DEF CallLies

\* Twice the other byte order is the first.
LEMMA HtonsTwice ==
  ASSUME NEW v, Sized(v, 16)
  PROVE  htons(htons(v)) = v
<1>1. Sized(htons(v), 16) /\ \A b \in 1 .. 16 : htons(v)[b] = v[IF b <= 8 THEN b + 8 ELSE b - 8]
  BY HtonsBits
<1> DEFINE h == htons(v)
<1> HIDE DEF h
<1>2. Sized(htons(h), 16) /\ \A b \in 1 .. 16 : htons(h)[b] = h[IF b <= 8 THEN b + 8 ELSE b - 8]
  BY <1>1, HtonsBits DEF h
<1>3. ASSUME NEW b \in 1 .. 16 PROVE htons(h)[b] = v[b]
  <2>1. htons(h)[b] = h[IF b <= 8 THEN b + 8 ELSE b - 8]
    BY <1>2
  <2>2. CASE b <= 8
    <3>1. b + 8 \in 1 .. 16 /\ ~(b + 8 <= 8) /\ (b + 8) - 8 = b
      BY <2>2
    <3>2. h[b + 8] = v[b]
      BY <1>1, <3>1 DEF h
    <3> QED
      BY <2>1, <2>2, <3>2
  <2>3. CASE ~(b <= 8)
    <3>1. b - 8 \in 1 .. 16 /\ b - 8 <= 8 /\ (b - 8) + 8 = b
      BY <2>3
    <3>2. h[b - 8] = v[b]
      BY <1>1, <3>1 DEF h
    <3> QED
      BY <2>1, <2>3, <3>2
  <2> QED
    BY <2>2, <2>3
<1>4. htons(h) = v
  BY <1>2, <1>3, SizedEqual
<1> QED
  BY <1>4 DEF h

LEMMA ValueIs ==
  ASSUME NEW c, NEW fld
  PROVE  /\ Sized(Symbols(c, fld), Width(fld)) /\ Sized(ValueOf(c, fld), Width(fld))
         /\ (IF IsPort(fld) THEN htons(ValueOf(c, fld)) ELSE ValueOf(c, fld)) = Symbols(c, fld)
<1>1. Width(fld) \in Nat /\ (IsPort(fld) => Width(fld) = 16)
  BY WidthKinds
<1>2. Sized(Symbols(c, fld), Width(fld))
  BY <1>1, SymbolsSized
<1>3. CASE IsPort(fld)
  <2> DEFINE v == Symbols(c, fld)
  <2>1. Sized(v, 16) /\ ValueOf(c, fld) = htons(v)
    BY <1>1, <1>2, <1>3 DEF ValueOf
  <2> HIDE DEF v
  <2>2. Sized(htons(v), 16) /\ htons(htons(v)) = v
    BY <2>1, HtonsBits, HtonsTwice
  <2> QED
    BY <1>1, <1>2, <1>3, <2>1, <2>2 DEF v
<1>4. CASE ~IsPort(fld)
  BY <1>2, <1>4 DEF ValueOf
<1> QED
  BY <1>3, <1>4

\* parse_admin_bin makes the configuration of any payload that carries it.
THEOREM ParseIsFilter ==
  ASSUME NEW pkt, NEW l, Sized(pkt, l), 680 <= l, NEW c, Carries(pkt, c), NEW f0
  PROVE  parse_admin_bin(pkt, f0) = filter(c)
<1> DEFINE w(fld) == extract_bits_from_arr(pkt, ParseFrom(fld), ParseFrom(fld) + Width(fld) - 1)
           v(fld) == [b \in 1 .. Width(fld) |-> w(fld)[b - 1]]
           e(fld) == IF IsPort(fld) THEN htons(v(fld)) ELSE v(fld)
<1>1. ~(Len(pkt) < 8 * 85)
  <2>1. Len(pkt) = l /\ l \in Nat
    BY SizedSeq DEF Sized
  <2> QED
    BY <2>1
<1>2. parse_admin_bin(pkt, f0) = [fld \in FilterFields |-> e(fld)]
  BY <1>1, Zenon DEF parse_admin_bin
<1>3. ASSUME NEW fld \in FilterFields PROVE e(fld) = Symbols(c, fld)
  <2> DEFINE s == SliceFrom(fld)
             k == Width(fld)
  <2>1. ParseFrom(fld) = s /\ s \in Nat /\ k \in 1 .. 64
    BY FieldAt
  <2>2. Lies(pkt, s, ValueOf(c, fld), k)
    BY DEF Carries
  <2> DEFINE r == ValueOf(c, fld)
  <2>3. v(fld) = [b \in 1 .. k |-> extract_bits_from_arr(pkt, s, s + k - 1)[b - 1]]
    BY <2>1
  <2> HIDE DEF s, k, r
  <2>4. ASSUME NEW b \in 1 .. k PROVE extract_bits_from_arr(pkt, s, s + k - 1)[b - 1] = r[b]
    <3>1. extract_bits_from_arr(pkt, s, s + k - 1)[b - 1] = pkt[s + b]
      BY <2>1, ExtractReads
    <3>2. pkt[s + b] = r[b]
      BY <2>2 DEF Lies, r
    <3> QED
      BY <3>1, <3>2
  <2>5. v(fld) = [b \in 1 .. k |-> r[b]]
    BY <2>3, <2>4, Zenon
  <2>6. r = [b \in 1 .. k |-> r[b]]
    BY ValueIs DEF Sized, r, k
  <2>7. v(fld) = r
    BY <2>5, <2>6
  <2> HIDE DEF v
  <2> QED
    BY <2>7, ValueIs, Zenon DEF r
<1> HIDE DEF e
<1>4. [fld \in FilterFields |-> e(fld)] = [fld \in FilterFields |-> Symbols(c, fld)]
  BY <1>3, Zenon
<1> QED
  BY <1>2, <1>4 DEF filter

-------------------------------------------------------------------------------
(* The board's copy and its answer.                                          *)

LEMMA SliceIs ==
  ASSUME NEW w, NEW l, Sized(w, l), NEW o \in Nat, NEW k \in Nat, o + k <= l, NEW r, Sized(r, k), Lies(w, o, r, k)
  PROVE  Slice(w, o, k) = r
<1>1. w \in Seq({w[i] : i \in 1 .. l}) /\ Len(w) = l /\ l \in Nat
  BY SizedSeq DEF Sized
<1>2. Slice(w, o, k) = [b \in 1 .. k |-> w[o + b]]
  <2>1. SubSeq(w, o + 1, o + k) = [b \in 1 .. ((o + k) - (o + 1)) + 1 |-> w[(o + 1) + b - 1]]
    BY <1>1
  <2>2. ((o + k) - (o + 1)) + 1 = k
    OBVIOUS
  <2>3. ASSUME NEW b \in 1 .. k PROVE w[(o + 1) + b - 1] = w[o + b]
    <3>1. (o + 1) + b - 1 = o + b
      OBVIOUS
    <3> QED
      BY <3>1
  <2>4. [b \in 1 .. k |-> w[(o + 1) + b - 1]] = [b \in 1 .. k |-> w[o + b]]
    BY <2>3, Zenon
  <2> QED
    BY <2>1, <2>2, <2>4, Zenon DEF Slice
<1>3. [b \in 1 .. k |-> w[o + b]] = [b \in 1 .. k |-> r[b]]
  BY Zenon DEF Lies
<1>4. r = [b \in 1 .. k |-> r[b]]
  BY DEF Sized
<1> QED
  BY <1>2, <1>3, <1>4

\* The board accepts every packet the tool has sealed.
LEMMA SealedAccepted ==
  ASSUME NEW w, Sized(w, PacketBits), Tagged(w)
  PROVE  Authentic(w)
<1> DEFINE t == siphash(FirstBits(w, SealedBits))
<1>1. Lies(w, SealedBits, t, 64) /\ Sized(t, 64)
  BY SiphashSized DEF Tagged
<1>2. Slice(w, 0, SealedBits) = FirstBits(w, SealedBits)
  <2>1. 0 + 1 = 1 /\ 0 + SealedBits = SealedBits
    BY DEF SealedBits
  <2> QED
    BY <2>1 DEF Slice, FirstBits
<1> HIDE DEF t
<1>3. Slice(w, SealedBits, 64) = t
  <2>1. SealedBits \in Nat /\ 64 \in Nat /\ SealedBits + 64 <= PacketBits
    BY DEF SealedBits, PacketBits
  <2> QED
    BY <1>1, <2>1, SliceIs
<1> QED
  BY <1>2, <1>3 DEF Authentic, t, SealedBits

\* The board's raw configuration is the c-th, ports in network order.
Holds(c) == [fld \in FilterFields |-> ValueOf(c, fld)]

LEMMA BoardCopy ==
  ASSUME NEW w, NEW l, Sized(w, l), 678 <= l, NEW c, Carries(w, c)
  PROVE  [fld \in FilterFields |-> Slice(w, SliceFrom(fld), Width(fld))] = Holds(c)
<1>1. ASSUME NEW fld \in FilterFields PROVE Slice(w, SliceFrom(fld), Width(fld)) = ValueOf(c, fld)
  <2> DEFINE o == SliceFrom(fld)
             k == Width(fld)
             r == ValueOf(c, fld)
  <2>0. o \in Nat /\ k \in 1 .. 64 /\ o + k <= 678
    BY FieldAt
  <2>1. o \in Nat /\ k \in Nat /\ o + k <= l
    <3>1. l \in Nat
      BY DEF Sized
    <3> HIDE DEF o, k
    <3> QED
      BY <2>0, <3>1
  <2>2. Sized(r, k) /\ Lies(w, o, r, k)
    BY ValueIs DEF Carries
  <2> HIDE DEF o, k, r
  <2>3. Slice(w, o, k) = r
    BY <2>1, <2>2, SliceIs
  <2> QED
    BY <2>3 DEF o, k, r
<1> QED
  BY <1>1, Zenon DEF Holds

\* A counter of the c-th configuration's answer.
CounterField(x) == <<x, "Counter", 0, 0>>

LEMMA CounterPlaces ==
  ASSUME NEW fld \in Stats
  PROVE  /\ fld[1] \in StatsNames /\ fld[2] = "Counter" /\ fld = CounterField(fld[1])
         /\ SliceFrom(fld) = StatsFrom[fld[1]] /\ Width(fld) = 64
         /\ SliceFrom(fld) \in {678, 742, 806, 870, 934}
<1>1. PICK x \in StatsNames : fld = CounterField(x)
  BY DEF Stats, CounterField
<1>2. fld[1] = x /\ fld[2] = "Counter"
  BY <1>1 DEF CounterField
<1>3. SliceFrom(fld) = CounterAt[x]
  BY <1>2 DEF SliceFrom
<1>4. CounterAt[x] = StatsFrom[x] /\ CounterAt[x] \in {678, 742, 806, 870, 934}
  BY DEF CounterAt, StatsFrom, StatsNames
<1>5. Width(fld) = 64
  BY <1>2 DEF Width, IsPort
<1> QED
  BY <1>1, <1>2, <1>3, <1>4, <1>5

LEMMA CountersApart ==
  ASSUME NEW d \in Stats, NEW e \in Stats, NEW q \in Int,
         q - SliceFrom(d) \in 0 .. Width(d) - 1, q - SliceFrom(e) \in 0 .. Width(e) - 1
  PROVE  d = e
<1>1. /\ d[1] \in StatsNames /\ d = CounterField(d[1]) /\ SliceFrom(d) = StatsFrom[d[1]] /\ Width(d) = 64
      /\ e[1] \in StatsNames /\ e = CounterField(e[1]) /\ SliceFrom(e) = StatsFrom[e[1]] /\ Width(e) = 64
      /\ SliceFrom(d) \in {678, 742, 806, 870, 934} /\ SliceFrom(e) \in {678, 742, 806, 870, 934}
  BY CounterPlaces
<1>2. SliceFrom(d) = SliceFrom(e)
  BY <1>1
<1>3. \A x, y \in StatsNames : StatsFrom[x] = StatsFrom[y] => x = y
  BY DEF StatsFrom, StatsNames
<1>4. d[1] = e[1]
  <2>0. SliceFrom(d) = StatsFrom[d[1]] /\ SliceFrom(e) = StatsFrom[e[1]]
    BY <1>1
  <2>1. StatsFrom[d[1]] = StatsFrom[e[1]] /\ d[1] \in StatsNames /\ e[1] \in StatsNames
    <3>1. d[1] \in StatsNames /\ e[1] \in StatsNames
      BY CounterPlaces
    <3> QED
      BY <1>2, <2>0, <3>1, Zenon
  <2> QED
    BY <1>3, <2>1, Zenon
<1>5. d = CounterField(d[1]) /\ e = CounterField(e[1])
  BY <1>1
<1> QED
  BY <1>4, <1>5, Zenon

\* Every bit of an answer has one meaning at most.
LEMMA AnswerOwner ==
  ASSUME NEW q \in Int, NEW fld \in FilterFields \cup Stats, q - SliceFrom(fld) \in 0 .. Width(fld) - 1
  PROVE  AnswerField(q) # {} /\ (CHOOSE e \in AnswerField(q) : TRUE) = fld
<1>1. fld \in AnswerField(q)
  BY Zenon DEF AnswerField
<1>2. ASSUME NEW e \in AnswerField(q) PROVE e = fld
  <2>1. e \in FilterFields \cup Stats /\ q - SliceFrom(e) \in 0 .. Width(e) - 1
    BY Zenon DEF AnswerField
  <2>2. \A d \in FilterFields : q - SliceFrom(d) \in 0 .. Width(d) - 1 => q < 678
    BY FieldAt
  <2>3. \A d \in Stats : q - SliceFrom(d) \in 0 .. Width(d) - 1 => q >= 678
    <3> SUFFICES ASSUME NEW d \in Stats, q - SliceFrom(d) \in 0 .. Width(d) - 1 PROVE q >= 678
      OBVIOUS
    <3>1. Width(d) = 64 /\ SliceFrom(d) \in {678, 742, 806, 870, 934}
      BY CounterPlaces
    <3> QED
      BY <3>1
  <2>4. CASE fld \in FilterFields /\ e \in FilterFields
    BY <2>1, <2>4, FieldsApart
  <2>5. CASE fld \in Stats /\ e \in Stats
    BY <2>1, <2>5, CountersApart
  <2>6. CASE fld \in FilterFields /\ e \in Stats
    <3>1. q < 678 /\ q >= 678
      BY <2>1, <2>2, <2>3, <2>6
    <3> QED
      BY <3>1
  <2>7. CASE fld \in Stats /\ e \in FilterFields
    <3>1. q < 678 /\ q >= 678
      BY <2>1, <2>2, <2>3, <2>7
    <3> QED
      BY <3>1
  <2> QED
    BY <2>1, <2>4, <2>5, <2>6, <2>7
<1> DEFINE e == CHOOSE e \in AnswerField(q) : TRUE
<1>3. e \in AnswerField(q)
  BY <1>1, Zenon
<1> QED
  BY <1>1, <1>2, <1>3

\* The answer carries the configuration and the counters.
Answered(c) ==
  /\ Sized(answer, PacketBits) /\ Carries(answer, c)
  /\ \A fld \in Stats : Lies(answer, SliceFrom(fld), Symbols(c, fld), 64)

LEMMA AnswerCarries ==
  ASSUME f = Holds(g), ReplyQuery
  PROVE  Answered(g)'
<1> DEFINE owner(q) == CHOOSE e \in AnswerField(q) : TRUE
           bit(b) == IF AnswerField(b - 1) = {} THEN <<"probe", b>>
                     ELSE IF owner(b - 1) \in Stats THEN Symbols(g, owner(b - 1))[b - SliceFrom(owner(b - 1))]
                     ELSE f[owner(b - 1)][b - SliceFrom(owner(b - 1))]
<1>1. answer' = [b \in 1 .. PacketBits |-> bit(b)] /\ g' = g
  BY DEF ReplyQuery, writer, PacketBits
<1> HIDE DEF bit
<1>2. Sized(answer', PacketBits) /\ \A b \in 1 .. PacketBits : answer'[b] = bit(b)
  <2>1. \A b \in 1 .. PacketBits : answer'[b] = bit(b)
    BY <1>1, Zenon
  <2>2. answer' = [b \in 1 .. PacketBits |-> answer'[b]]
    <3>1. [b \in 1 .. PacketBits |-> bit(b)] = [b \in 1 .. PacketBits |-> answer'[b]]
      BY <2>1, Zenon
    <3> QED
      BY <1>1, <3>1, Zenon
  <2>3. PacketBits \in Nat
    BY DEF PacketBits
  <2> QED
    BY <2>1, <2>2, <2>3, Zenon DEF Sized
<1>3. ASSUME NEW fld \in FilterFields \cup Stats, NEW j \in 1 .. Width(fld), SliceFrom(fld) \in Nat,
             SliceFrom(fld) + j <= PacketBits
      PROVE  answer'[SliceFrom(fld) + j] = IF fld \in Stats THEN Symbols(g, fld)[j] ELSE f[fld][j]
  <2> DEFINE b == SliceFrom(fld) + j
             s == SliceFrom(fld)
  <2>0. Width(fld) \in Nat
    BY WidthKinds
  <2>1. b \in 1 .. PacketBits /\ b - 1 \in Int /\ (b - 1) - s \in 0 .. Width(fld) - 1 /\ b - s = j
    <3> DEFINE k == Width(fld)
    <3>1. s \in Nat /\ k \in Nat /\ j \in 1 .. k /\ s + j <= PacketBits
      BY <1>3, <2>0
    <3> HIDE DEF s, k
    <3>2. s + j \in 1 .. PacketBits /\ (s + j) - 1 \in Int /\ ((s + j) - 1) - s \in 0 .. k - 1 /\ (s + j) - s = j
      BY <3>1
    <3> QED
      BY <3>2 DEF s, k
  <2> HIDE DEF b
  <2>2. AnswerField(b - 1) # {} /\ owner(b - 1) = fld
    BY <2>1, AnswerOwner
  <2> HIDE DEF owner
  <2>3. bit(b) = IF fld \in Stats THEN Symbols(g, fld)[b - s] ELSE f[fld][b - s]
    BY <2>2 DEF bit
  <2>4. answer'[b] = bit(b)
    BY <1>2, <2>1
  <2> QED
    BY <2>1, <2>3, <2>4 DEF b
<1>4. ASSUME NEW fld \in FilterFields PROVE Lies(answer', SliceFrom(fld), ValueOf(g, fld), Width(fld))
  <2> SUFFICES ASSUME NEW j \in 1 .. Width(fld) PROVE answer'[SliceFrom(fld) + j] = ValueOf(g, fld)[j]
    BY Zenon DEF Lies
  <2>1. SliceFrom(fld) \in Nat /\ Width(fld) \in 1 .. 64 /\ SliceFrom(fld) + Width(fld) <= 678
    BY FieldAt
  <2>2. SliceFrom(fld) + j <= PacketBits
    BY <2>1 DEF PacketBits
  <2>3. fld \notin Stats
    BY FieldKind, CounterPlaces
  <2>4. answer'[SliceFrom(fld) + j] = f[fld][j]
    BY <1>3, <2>1, <2>2, <2>3
  <2>5. f[fld] = ValueOf(g, fld)
    BY DEF Holds
  <2> QED
    BY <2>4, <2>5
<1>5. ASSUME NEW fld \in Stats PROVE Lies(answer', SliceFrom(fld), Symbols(g, fld), 64)
  <2> SUFFICES ASSUME NEW j \in 1 .. 64 PROVE answer'[SliceFrom(fld) + j] = Symbols(g, fld)[j]
    BY Zenon DEF Lies
  <2>1. SliceFrom(fld) \in {678, 742, 806, 870, 934} /\ Width(fld) = 64
    BY CounterPlaces
  <2>2. SliceFrom(fld) \in Nat /\ SliceFrom(fld) + j <= PacketBits /\ j \in 1 .. Width(fld)
    BY <2>1 DEF PacketBits
  <2> QED
    BY <1>3, <2>2
<1>6. Carries(answer', g')
  BY <1>1, <1>4 DEF Carries
<1>7. \A fld \in Stats : Lies(answer', SliceFrom(fld), Symbols(g', fld), 64)
  BY <1>1, <1>5
<1> QED
  BY <1>2, <1>6, <1>7, Zenon DEF Answered

\* What the tool makes of the answer.
LEMMA ProbeParses ==
  ASSUME Answered(g), Probe
  PROVE  /\ probed'.f = filter(g)
         /\ \A fld \in Stats : probed'.s[fld] = Symbols(g, fld)
<1>1. Sized(answer, PacketBits) /\ Carries(answer, g)
  BY DEF Answered
<1>2. Len(answer) = PacketBits
  <2>1. \A w, n : Sized(w, n) => Len(w) = n
    BY SizedSeq
  <2> QED
    BY <1>1, <2>1
<1>3. ~((42 + (Len(answer) \div 8)) - 3 * 8 < 128)
  BY <1>2 DEF PacketBits
<1> DEFINE F == parse_admin_bin(answer, NoFilter)
           w(fld) == extract_bits_from_arr(answer, StatsFrom[fld[1]], StatsFrom[fld[1]] + 63)
           S == [fld \in Stats |-> LET x == w(fld) IN [b \in 1 .. 64 |-> x[b - 1]]]
<1>4. probed' = [f |-> F, s |-> S]
  BY <1>3 DEF Probe, parse_probe_pkt
<1>5. F = filter(g)
  BY <1>1, ParseIsFilter DEF PacketBits
<1>6. ASSUME NEW fld \in Stats PROVE S[fld] = Symbols(g, fld)
  <2> DEFINE s == SliceFrom(fld)
             r == Symbols(g, fld)
  <2>1. StatsFrom[fld[1]] = s /\ s \in {678, 742, 806, 870, 934} /\ Width(fld) = 64
    BY CounterPlaces
  <2>2. S[fld] = [b \in 1 .. 64 |-> w(fld)[b - 1]]
    OBVIOUS
  <2>3. w(fld) = extract_bits_from_arr(answer, s, s + 63)
    BY <2>1
  <2>4. Lies(answer, s, r, 64) /\ Sized(r, 64)
    BY <2>1, ValueIs DEF Answered
  <2> HIDE DEF S, w, s, r
  <2>5. ASSUME NEW b \in 1 .. 64 PROVE w(fld)[b - 1] = r[b]
    <3>1. s \in Nat /\ 64 \in 1 .. 64 /\ s + 64 - 1 = s + 63
      BY <2>1
    <3>2. extract_bits_from_arr(answer, s, s + 64 - 1)[b - 1] = answer[s + b]
      BY <1>1, <3>1, ExtractReads, Zenon
    <3>3. answer[s + b] = r[b]
      BY <2>4 DEF Lies
    <3> QED
      BY <2>3, <3>1, <3>2, <3>3
  <2>6. [b \in 1 .. 64 |-> w(fld)[b - 1]] = [b \in 1 .. 64 |-> r[b]]
    BY <2>5, Zenon
  <2>7. r = [b \in 1 .. 64 |-> r[b]]
    BY <2>4 DEF Sized
  <2> QED
    BY <2>2, <2>6, <2>7 DEF r
<1> HIDE DEF F, S
<1> QED
  BY <1>4, <1>5, <1>6

-------------------------------------------------------------------------------
(* The way of a configuration: written, read back, applied, asked for.       *)

Stages == {"idle", "written", "loaded", "applied", "answered"}

\* While a packet is written the calls so far lie in the stream; from then on the
\* whole packet lies in the file.
PacketInv ==
  /\ stage \in Stages
  /\ pc # 0 => stage = "idle" /\ Held(Written, Pos(pc), g, pc)
  /\ stage # "idle" => pc = 0 /\ Sized(admin_pkt, PacketBits) /\ Held(admin_pkt, PacketBits, g, 102)

\* What the tool and the board have made of it.
ReadInv ==
  /\ stage \in {"loaded", "applied", "answered"} => loaded = filter(g)
  /\ stage \in {"applied", "answered"} => f = Holds(g)
  /\ stage = "answered" => Answered(g)
  /\ ProbeReadsBoard

CodecInd == WriterInv /\ PacketInv /\ ReadInv

LEMMA CodecInit == Init => CodecInd
<1> SUFFICES ASSUME Init PROVE CodecInd
  OBVIOUS
<1>1. stage = "idle" /\ pc = 0 /\ answer = << >>
  BY DEF Init
<1>2. PacketInv
  BY <1>1 DEF PacketInv, Stages
<1>3. ProbeReadsBoard
  BY <1>1 DEF ProbeReadsBoard
<1>4. ReadInv
  BY <1>1, <1>3 DEF ReadInv
<1> QED
  BY <1>2, <1>4, WriterInit DEF CodecInd

LEMMA OpenPacket ==
  ASSUME CodecInd, Open
  PROVE  PacketInv' /\ ReadInv'
<1>1. Written' = << >> /\ pc' = 1 /\ stage' = "idle"
  BY OpenWriter DEF CodecInd, Open
<1>2. Pos(1) = 0
  BY DEF Pos, PlaceAt
<1>3. Sized(<< >>, 0)
  BY DEF Sized
<1>4. Held(Written', Pos(1), g', 1)
  BY <1>1, <1>2, <1>3 DEF Held
<1>5. PacketInv'
  BY <1>1, <1>4 DEF PacketInv, Stages
<1>6. ProbeReadsBoard'
  BY <1>1 DEF ProbeReadsBoard
<1>7. ReadInv'
  BY <1>1, <1>6 DEF ReadInv
<1> QED
  BY <1>5, <1>7

LEMMA WritePacket ==
  ASSUME CodecInd, Write
  PROVE  PacketInv' /\ ReadInv'
<1>1. /\ Appends(NextBits) /\ Sized(NextBits, NextWidth)
      /\ pc \in {94, 99, 101} => admin_buf_bits_clean' = 64
      /\ pc \in 1 .. 101 /\ g' = g /\ pc' = IF pc = 101 THEN 0 ELSE pc + 1
  BY WriteStep DEF CodecInd
<1>2. WriterInv /\ WriterInv'
  BY WriteWriter DEF CodecInd
<1>3. Held(Written, Pos(pc), g, pc) /\ stage = "idle"
  BY <1>1 DEF CodecInd, PacketInv
<1>4. Joined(Written', Written, Pos(pc), NextBits, NextWidth)
  <2>1. Buffer /\ 8 * admin_buf_data_ptr + (64 - admin_buf_bits_clean) = Pos(pc) /\ NextWidth \in Nat
    <3>1. NextWidth \in Nat
      BY <1>1 DEF Sized
    <3>2. Buffer /\ 8 * admin_buf_data_ptr + (64 - admin_buf_bits_clean) = Pos(pc)
      BY <1>1, <1>2 DEF WriterInv
    <3> QED
      BY <3>1, <3>2
  <2>2. Joined(Written', Written, 8 * admin_buf_data_ptr + (64 - admin_buf_bits_clean), NextBits, NextWidth)
    BY <1>1, <2>1, AppendedLength
  <2> QED
    BY <2>1, <2>2
<1>5. Held(Written', Pos(pc) + NextWidth, g, pc + 1)
  BY <1>1, <1>2, <1>3, <1>4, HeldStep
<1>6. stage' = IF pc = 101 THEN "written" ELSE stage
  <2>1. Len(Programs[g]) = 101
    BY <1>2, ProgramsAre DEF WriterInv
  <2> QED
    BY <2>1 DEF Write
<1>7. CASE pc # 101
  <2>1. pc' = pc + 1 /\ stage' = "idle" /\ NextWidth = Pos(pc + 1) - Pos(pc)
    BY <1>1, <1>3, <1>6, <1>7 DEF NextWidth
  <2>2. Pos(pc) + NextWidth = Pos(pc')
    <3>1. Pos(pc) \in Nat /\ Pos(pc + 1) \in Nat
      BY <1>1, PosNat
    <3> QED
      BY <2>1, <3>1
  <2>3. Held(Written', Pos(pc'), g', pc')
    BY <1>1, <1>5, <2>1, <2>2
  <2>4. pc' # 0
    BY <1>1, <2>1
  <2>5. PacketInv'
    BY <2>1, <2>3 DEF PacketInv, Stages
  <2>6. ProbeReadsBoard'
    BY <2>4 DEF ProbeReadsBoard
  <2> QED
    BY <2>1, <2>5, <2>6 DEF ReadInv
<1>8. CASE pc = 101
  <2>1. pc' = 0 /\ stage' = "written" /\ admin_buf_bits_clean' = 64 /\ NextWidth = 0 /\ Pos(pc) = PacketBits
    BY <1>1, <1>6, <1>8 DEF NextWidth, Pos, PacketBits
  <2>2. Pos(pc) + NextWidth = PacketBits /\ pc + 1 = 102
    BY <1>8, <2>1 DEF PacketBits
  <2>3. Held(Written', PacketBits, g', 102)
    BY <1>1, <1>5, <2>2
  <2> DEFINE m == 8 * admin_buf_data_ptr'
  <2>4. m \in Nat /\ Sized(admin_pkt', m)
    <3>1. admin_buf_data_ptr' \in Nat /\ Sized(admin_pkt', m)
      BY <1>2 DEF WriterInv, Buffer
    <3> QED
      BY <3>1, Eightfold
  <2>5. Spelled(Written', admin_pkt', m, admin_buf', 64)
    <3>1. Spelled(Written', admin_pkt', m, admin_buf', admin_buf_bits_clean')
      <4>1. admin_buf_bits_clean' \in 0 .. 64
        BY <1>2 DEF WriterInv, Buffer
      <4> QED
        BY <2>4, <4>1, WrittenBits DEF Written
    <3> QED
      BY <2>1, <3>1
  <2> HIDE DEF m
  <2>6. m + (64 - 64) = m
    BY <2>4
  <2>7. Sized(Written', m) /\ \A i \in 1 .. m : Written'[i] = admin_pkt'[i]
    BY <2>5, <2>6 DEF Spelled
  <2>8. Written' = admin_pkt'
    BY <2>4, <2>7, SizedEqual
  <2>9. Held(admin_pkt', PacketBits, g', 102) /\ Sized(admin_pkt', PacketBits)
    <3>1. \A w, l, c, n : Held(w, l, c, n) => Sized(w, l)
      BY DEF Held
    <3>2. Sized(Written', PacketBits)
      BY <2>3, <3>1
    <3> QED
      BY <2>3, <2>8, <3>2
  <2>10. PacketInv'
    BY <2>1, <2>9 DEF PacketInv, Stages
  <2>11. ProbeReadsBoard'
    BY <2>1 DEF ProbeReadsBoard
  <2> QED
    BY <2>1, <2>10, <2>11 DEF ReadInv
<1> QED
  BY <1>7, <1>8

\* Nothing but Open and Write touches the packet.
LEMMA PacketKept ==
  ASSUME PacketInv, UNCHANGED writer, stage' \in Stages, pc # 0 => stage' = "idle",
         stage' # "idle" => stage # "idle"
  PROVE  PacketInv'
<1>1. /\ g' = g /\ pc' = pc /\ admin_buf' = admin_buf /\ admin_buf_bits_clean' = admin_buf_bits_clean
      /\ admin_pkt' = admin_pkt
  BY DEF writer
<1>2. Written' = Written
  BY <1>1, Zenon DEF Written, WrittenOf
<1>3. pc' # 0 => stage' = "idle" /\ Held(Written', Pos(pc'), g', pc')
  BY <1>1, <1>2, Zenon DEF PacketInv
<1>4. ASSUME stage' # "idle" PROVE pc' = 0 /\ Sized(admin_pkt', PacketBits) /\ Held(admin_pkt', PacketBits, g', 102)
  <2>1. stage # "idle"
    BY <1>4
  <2>2. pc = 0 /\ Sized(admin_pkt, PacketBits) /\ Held(admin_pkt, PacketBits, g, 102)
    BY <2>1 DEF PacketInv
  <2> QED
    BY <1>1, <2>2
<1> QED
  BY <1>3, <1>4, Zenon DEF PacketInv

LEMMA LoadPacket ==
  ASSUME CodecInd, Load
  PROVE  PacketInv' /\ ReadInv'
<1>1. stage = "written" /\ stage' = "loaded" /\ UNCHANGED writer /\ loaded' = parse_admin_bin(admin_pkt, loaded)
  BY DEF Load
<1>2. PacketInv /\ Sized(admin_pkt, PacketBits) /\ Held(admin_pkt, PacketBits, g, 102) /\ pc = 0
  BY <1>1 DEF CodecInd, PacketInv
<1>3. PacketInv'
  BY <1>1, <1>2, PacketKept DEF Stages
<1>4. g' = g
  BY <1>1 DEF writer
<1>5. Carries(admin_pkt, g)
  BY <1>2, HeldCarries
<1>6. loaded' = filter(g')
  <2>1. 680 <= PacketBits
    BY DEF PacketBits
  <2> QED
    BY <1>1, <1>2, <1>4, <1>5, <2>1, ParseIsFilter
<1>7. ProbeReadsBoard'
  BY <1>1 DEF ProbeReadsBoard
<1> QED
  BY <1>1, <1>3, <1>6, <1>7 DEF ReadInv

LEMMA UpdateFilterPacket ==
  ASSUME CodecInd, UpdateFilter
  PROVE  PacketInv' /\ ReadInv'
<1>1. stage = "loaded" /\ stage' = "applied" /\ UNCHANGED writer /\ loaded' = loaded
  BY DEF UpdateFilter
<1>2. PacketInv /\ Sized(admin_pkt, PacketBits) /\ Held(admin_pkt, PacketBits, g, 102) /\ pc = 0 /\ loaded = filter(g)
  BY <1>1 DEF CodecInd, PacketInv, ReadInv
<1>3. PacketInv'
  BY <1>1, <1>2, PacketKept DEF Stages
<1>4. g' = g
  BY <1>1 DEF writer
<1>5. Carries(admin_pkt, g)
  BY <1>2, HeldCarries
<1>6. Authentic(admin_pkt)
  <2>1. 102 > 100
    OBVIOUS
  <2>2. Tagged(admin_pkt)
    BY <1>2, <2>1 DEF Held
  <2> QED
    BY <1>2, <2>2, SealedAccepted
<1>7. f' = [fld \in FilterFields |-> Slice(admin_pkt, SliceFrom(fld), Width(fld))]
  BY <1>6 DEF UpdateFilter
<1>8. f' = Holds(g')
  <2>1. 678 <= PacketBits
    BY DEF PacketBits
  <2> QED
    BY <1>2, <1>4, <1>5, <1>7, <2>1, BoardCopy
<1>9. ProbeReadsBoard'
  BY <1>1 DEF ProbeReadsBoard
<1> QED
  BY <1>1, <1>2, <1>3, <1>4, <1>8, <1>9 DEF ReadInv

LEMMA ReplyQueryPacket ==
  ASSUME CodecInd, ReplyQuery
  PROVE  PacketInv' /\ ReadInv'
<1>1. stage = "applied" /\ stage' = "answered" /\ UNCHANGED writer /\ loaded' = loaded /\ f' = f
  BY DEF ReplyQuery
<1>2. PacketInv /\ pc = 0 /\ loaded = filter(g) /\ f = Holds(g)
  BY <1>1 DEF CodecInd, PacketInv, ReadInv
<1>3. PacketInv'
  BY <1>1, <1>2, PacketKept DEF Stages
<1>4. g' = g
  BY <1>1 DEF writer
<1>5. Answered(g)'
  BY <1>2, AnswerCarries
<1>6. ProbeReadsBoard'
  BY <1>1 DEF ProbeReadsBoard
<1>7. loaded' = filter(g') /\ f' = Holds(g')
  BY <1>1, <1>2, <1>4
<1> QED
  BY <1>3, <1>5, <1>6, <1>7, Zenon DEF ReadInv

LEMMA ProbePacket ==
  ASSUME CodecInd, Probe
  PROVE  PacketInv' /\ ReadInv'
<1>1. stage = "answered" /\ stage' = "idle" /\ UNCHANGED writer
  BY DEF Probe
<1>2. PacketInv /\ Answered(g)
  BY <1>1 DEF CodecInd, ReadInv
<1>3. PacketInv'
  BY <1>1, <1>2, PacketKept DEF Stages
<1>4. g' = g
  BY <1>1 DEF writer
<1>5. probed'.f = filter(g') /\ \A fld \in Stats : probed'.s[fld] = Symbols(g', fld)
  BY <1>2, <1>4, ProbeParses
<1>6. ProbeReadsBoard'
  BY <1>5 DEF ProbeReadsBoard
<1> QED
  BY <1>1, <1>3, <1>6 DEF ReadInv

LEMMA CodecNext == CodecInd /\ [Next]_vars => CodecInd'
<1> SUFFICES ASSUME CodecInd, [Next]_vars PROVE CodecInd'
  OBVIOUS
<1>1. WriterInv'
  BY WriterNext DEF CodecInd
<1>2. PacketInv' /\ ReadInv'
  <2>1. CASE Open
    BY <2>1, OpenPacket
  <2>2. CASE Write
    BY <2>2, WritePacket
  <2>3. CASE Load
    BY <2>3, LoadPacket
  <2>4. CASE UpdateFilter
    BY <2>4, UpdateFilterPacket
  <2>5. CASE ReplyQuery
    BY <2>5, ReplyQueryPacket
  <2>6. CASE Probe
    BY <2>6, ProbePacket
  <2>7. CASE UNCHANGED vars
    <3>1. /\ UNCHANGED writer /\ g' = g /\ pc' = pc /\ stage' = stage /\ loaded' = loaded /\ f' = f
          /\ answer' = answer /\ probed' = probed
      BY <2>7 DEF vars, writer
    <3>2. PacketInv'
      BY <3>1, PacketKept DEF CodecInd, PacketInv
    <3>3. ProbeReadsBoard'
      BY <3>1, Zenon DEF CodecInd, ReadInv, ProbeReadsBoard
    <3>4. ReadInv'
      BY <3>1, <3>3, Zenon DEF CodecInd, ReadInv, Answered
    <3> QED
      BY <3>2, <3>4
  <2> QED
    BY <2>1, <2>2, <2>3, <2>4, <2>5, <2>6, <2>7 DEF Next
<1> QED
  BY <1>1, <1>2 DEF CodecInd

THEOREM CodecInvariance == Spec => []CodecInd
BY CodecInit, CodecNext, PTL DEF Spec

\* A configuration that is saved and loaded is the configuration, whatever its bits.
THEOREM SavedIsLoaded == Spec => []RoundTrip
<1>1. CodecInd => RoundTrip
  BY DEF CodecInd, ReadInv, RoundTrip
<1> QED
  BY <1>1, CodecInvariance, PTL

\* The board accepts what the tool seals and cuts every field where the tool put it.
THEOREM BoardGetsFilter == Spec => []BoardReadsFilter
<1>1. CodecInd => BoardReadsFilter
  <2> SUFFICES ASSUME CodecInd, stage \in {"applied", "answered"}, NEW fld \in FilterFields
               PROVE  f[fld] = IF IsPort(fld) THEN htons(filter(g)[fld]) ELSE filter(g)[fld]
    BY DEF BoardReadsFilter
  <2>1. f[fld] = ValueOf(g, fld)
    BY DEF CodecInd, ReadInv, Holds
  <2>2. filter(g)[fld] = Symbols(g, fld)
    BY DEF filter
  <2> QED
    BY <2>1, <2>2 DEF ValueOf
<1> QED
  BY <1>1, CodecInvariance, PTL

\* What comes back from a probe is what the board holds.
THEOREM ProbeIsRead == Spec => []ProbeReadsBoard
<1>1. CodecInd => ProbeReadsBoard
  BY DEF CodecInd, ReadInv
<1> QED
  BY <1>1, CodecInvariance, PTL
===============================================================================
