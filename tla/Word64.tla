-------------------------------- MODULE Word64 --------------------------------
(* uint64_t as four 16-bit limbs, the lowest first.                            *)
EXTENDS Naturals

LOCAL INSTANCE Bitwise

Limb == 65536
Word == [1 .. 4 -> 0 .. (Limb - 1)]

\* Addition modulo 2^64, with the carry of each limb.
Sum[x \in Word, y \in Word] ==
    LET s1 == x[1] + y[1]
        s2 == x[2] + y[2] + (s1 \div Limb)
        s3 == x[3] + y[3] + (s2 \div Limb)
        s4 == x[4] + y[4] + (s3 \div Limb)
    IN <<s1 % Limb, s2 % Limb, s3 % Limb, s4 % Limb>>

Exclusive[x \in Word, y \in Word] ==
    <<x[1] ^^ y[1], x[2] ^^ y[2], x[3] ^^ y[3], x[4] ^^ y[4]>>

\* Limb j of x rotated by q limbs.
Turned(x, q, j) == x[((j + 3 - q) % 4) + 1]

Rotated[x \in Word, b \in 1 .. 63] ==
    LET q == b \div 16
        r == b % 16
        At(j) == ((Turned(x, q, j) * 2 ^ r) % Limb) + (Turned(x, q + 1, j) \div 2 ^ (16 - r))
    IN <<At(1), At(2), At(3), At(4)>>

Add64(x, y) == Sum[x, y]
Xor64(x, y) == Exclusive[x, y]

\* Mutant: the rotations by 13 and 17 exchanged.
ROTL64_Swapped(x, b) == Rotated[x, IF b = 13 THEN 17 ELSE IF b = 17 THEN 13 ELSE b]

ROTL64(x, b) == Rotated[x, b]
===============================================================================
