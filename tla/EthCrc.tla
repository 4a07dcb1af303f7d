-------------------------------- MODULE EthCrc --------------------------------
(***************************************************************************)
(* The frame check sequence, computed twice: nibble by nibble by the       *)
(* board's sender (mac_snd.vhd with PCK_CRC32_D4.vhd), and bit by bit by   *)
(* crc32-checker.c, which judges captured frames.                          *)
(*                                                                         *)
(* A bit is a sum modulo 2 of terms, one for each bit of the frame, and    *)
(* the constant 1; a word is the set of the pairs of a bit's number and a  *)
(* term of that bit.  Two equal words are equal whatever the frame holds,  *)
(* and one computation stands for all frames of its length.  Between the   *)
(* two, one bit of the capture may have been damaged.                      *)
(***************************************************************************)
EXTENDS Integers, Sequences, FiniteSetsExt

CONSTANTS
    FrameBytes,   \* bound: the bytes of a frame without its check sequence
    MaxFiles,     \* bound: the files the checker is called with (argc - 1)
    NoFlip        \* no bit is damaged

\* With more bytes the loop over j, a uint8_t, has no end.
ASSUME CrcAssumption == FrameBytes \in 1 .. 255 /\ MaxFiles \in Nat \ {0}
ASSUME FlipAssumption == NoFlip \notin Nat \X Nat

VARIABLES
    spc, scrc, nibbles,                           \* mac_snd: state, s.crc, what it has sent
    flip,                                         \* the damaged bit of the capture
    mpc, idx, file_ret, frame_sz, crc_buffer,     \* main
    j, cm_reg, judged                             \* judged: what was printed for each file

snd == <<spc, scrc, nibbles>>
checker == <<mpc, idx, file_ret, frame_sz, crc_buffer, j, cm_reg, judged>>
crcvars == <<snd, flip, checker>>

-------------------------------------------------------------------------------
(* Words.                                                                     *)

One == <<"1">>

w1 ++ w2 == SymDiff(w1, w2)

\* The terms of bit n, the word with bit n moved to At(n), and the word whose bits
\* in ns are the given terms.
Bit(w, n) == {e[2] : e \in {e \in w : e[1] = n}}
Moved(w, At(_)) == {<<At(e[1]), e[2]>> : e \in w}
Spread(ns, terms) == ns \X terms

Bits(w, from, to) == {e \in w : e[1] \in from .. to}
Slice(w, from, to) == Moved(Bits(w, from, to), LAMBDA n : n - from)

FrameByte(n) == {<<b, <<"bit", n, b>> >> : b \in 0 .. 7}
Ones(width) == {<<b, One>> : b \in 0 .. (width - 1)}

-------------------------------------------------------------------------------
(* mac_snd.                                                                   *)

\* The bits of the new CRC that d(n) XOR c(28 + n) goes into.
Taps(n) == CASE n = 0 -> {0, 1, 2, 4, 5, 7, 8, 10, 11, 12, 16, 22, 23, 26}
             [] n = 1 -> {1, 2, 3, 5, 6, 8, 9, 11, 12, 13, 17, 23, 24, 27}
             [] n = 2 -> {2, 3, 4, 6, 7, 9, 10, 12, 13, 14, 18, 24, 25, 28}
             [] n = 3 -> {3, 4, 5, 7, 8, 10, 11, 13, 14, 15, 19, 25, 26, 29}

\* Both vectors are numbered from their left end.
nextCRC32_D4(dd, c) ==
    LET top == dd ++ Slice(c, 28, 31)
    IN Moved(Bits(c, 0, 27), LAMBDA n : n + 4)
         ++ Spread(Taps(0), Bit(top, 0)) ++ Spread(Taps(1), Bit(top, 1))
         ++ Spread(Taps(2), Bit(top, 2)) ++ Spread(Taps(3), Bit(top, 3))

\* VHDL numbers a slice (c + 3 DOWNTO c) and s.crc(31 DOWNTO 0) from the right.
Left(w, width) == Moved(w, LAMBDA n : width - 1 - n)

Nibble(byte, h) == Slice(byte, 4 * h, (4 * h) + 3)

\* Every field of the frame goes out like this, the low nibble of a byte first.
SendNibble ==
    /\ spc = "Frame"
    /\ LET n == Len(nibbles) \div 2
           x == Nibble(FrameByte(n), Len(nibbles) % 2)
       IN /\ nibbles' = Append(nibbles, x)
          /\ scrc' = Left(nextCRC32_D4(Left(x, 4), Left(scrc, 32)), 32)
          /\ spc' = IF Len(nibbles) + 1 = 2 * FrameBytes THEN "FrameCheck" ELSE "Frame"
    /\ UNCHANGED <<flip, checker>>

\* E_TXD <= NOT s.crc((s.c + 3) DOWNTO (s.c))
FrameCheck ==
    /\ spc = "FrameCheck"
    /\ LET c == 4 * (Len(nibbles) - 2 * FrameBytes)
       IN /\ nibbles' = Append(nibbles, Slice(scrc, c, c + 3) ++ Ones(4))
          /\ spc' = IF c = 28 THEN "Sent" ELSE "FrameCheck"
    /\ UNCHANGED <<scrc, flip, checker>>

\* One bit is damaged on the way into the capture, or none.
Capture ==
    /\ spc = "Sent" /\ spc' = "Captured"
    /\ flip' \in {NoFlip} \cup ((0 .. (FrameBytes + 3)) \X (0 .. 7))
    /\ UNCHANGED <<scrc, nibbles, checker>>

\* Byte n of the capture.
Captured(n) == nibbles[2 * n + 1]
                 ++ Moved(nibbles[2 * n + 2], LAMBDA b : b + 4)
                 ++ {<<b, One>> : b \in {b \in 0 .. 7 : flip = <<n, b>>}}

-------------------------------------------------------------------------------
(* crc32-checker.c: the CRC model.                                            *)

Poly == {0, 1, 2, 4, 5, 7, 8, 10, 11, 12, 16, 22, 23, 26}

reflect(w, b) == Moved(w, LAMBDA n : IF n < b THEN b - 1 - n ELSE n)

\* Mutant: a bit of the polynomial is missing.
cm_bit_Poly(reg) == Moved(Bits(reg, 0, 30), LAMBDA n : n + 1) ++ Spread(Poly \ {26}, Bit(reg, 31))

\* if (cm_reg & topbit) cm_reg = (cm_reg << 1) ^ cm_poly; else cm_reg <<= 1
cm_bit(reg) == Moved(Bits(reg, 0, 30), LAMBDA n : n + 1) ++ Spread(Poly, Bit(reg, 31))

cm_nxt(reg, ch) ==
    LET r0 == reg ++ Moved(reflect(ch, 8), LAMBDA n : n + 24)
        r1 == cm_bit(r0)
        r2 == cm_bit(r1)
        r3 == cm_bit(r2)
        r4 == cm_bit(r3)
        r5 == cm_bit(r4)
        r6 == cm_bit(r5)
        r7 == cm_bit(r6)
    IN cm_bit(r7)

cm_crc(reg) == Ones(32) ++ reflect(reg, 32)

-------------------------------------------------------------------------------
(* crc32-checker.c: main.  file_ret and frame_sz are static: they are set     *)
(* once, not for every file.                                                  *)

EOF == -1

Buffer == [n \in 0 .. (FrameBytes + 3) |-> {}]

CrcInit == /\ spc = "Frame" /\ scrc = Ones(32) /\ nibbles = << >> /\ flip = NoFlip
           /\ mpc = "open" /\ idx = 1 /\ file_ret = 0 /\ frame_sz = 0
           /\ crc_buffer = Buffer /\ j = 0 /\ cm_reg = Ones(32) /\ judged = << >>

\* fopen, cm_ini, calloc.
Open == /\ mpc = "open" /\ spc = "Captured" /\ idx <= MaxFiles
        /\ cm_reg' = Ones(32) /\ crc_buffer' = Buffer /\ j' = 0
        /\ mpc' = "scan"
        /\ UNCHANGED <<snd, flip, idx, file_ret, frame_sz, judged>>

\* while (file_ret != EOF ...) fscanf.
Scan == /\ mpc = "scan" /\ file_ret # EOF
        /\ IF frame_sz < FrameBytes + 4
           THEN /\ crc_buffer' = [crc_buffer EXCEPT ![frame_sz] = Captured(frame_sz)]
                /\ frame_sz' = frame_sz + 1 /\ file_ret' = 1
           ELSE file_ret' = EOF /\ UNCHANGED <<crc_buffer, frame_sz>>
        /\ UNCHANGED <<snd, flip, mpc, idx, j, cm_reg, judged>>

\* j is a uint8_t.
Step == /\ mpc = "scan" /\ file_ret = EOF /\ j < frame_sz - 4
        /\ cm_reg' = cm_nxt(cm_reg, crc_buffer[j]) /\ j' = (j + 1) % 256
        /\ UNCHANGED <<snd, flip, mpc, idx, file_ret, frame_sz, crc_buffer, judged>>

\* frame_fcs, the last byte the highest.
frame_fcs == UNION {Moved(crc_buffer[frame_sz - 4 + n], LAMBDA b : b + (8 * n)) : n \in 0 .. 3}

Compare == /\ mpc = "scan" /\ file_ret = EOF /\ j >= frame_sz - 4
           /\ judged' = Append(judged, cm_crc(cm_reg) = frame_fcs)
           /\ idx' = idx + 1 /\ mpc' = "open"
           /\ UNCHANGED <<snd, flip, file_ret, frame_sz, crc_buffer, j, cm_reg>>

CrcNext == SendNibble \/ FrameCheck \/ Capture \/ Open \/ Scan \/ Step \/ Compare

CrcSpec == CrcInit /\ [][CrcNext]_crcvars

-------------------------------------------------------------------------------

\* The checker finds the board's frames matched, whatever they hold, and a frame
\* with one damaged bit not: both compute the same CRC, and send and read it in the
\* same order.
FramesMatch == judged # << >> => (judged[1] <=> flip = NoFlip)
===============================================================================
