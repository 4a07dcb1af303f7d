-------------------------------- MODULE SipHash --------------------------------
(***************************************************************************)
(* siphash of siphash.c, with the parameters write_to_admin_pkt calls it   *)
(* with: a message of whole words, and an output of one word.  It is the   *)
(* specification of the board's hash unit, and knows nothing of words but  *)
(* that they can be added, xored and rotated.                              *)
(***************************************************************************)
EXTENDS Naturals

CONSTANTS
    Add(_, _), Xor(_, _), ROTL(_, _),   \* of uint64_t
    Start,                  \* the four words v0 .. v3 begin with
    Length,                 \* ((uint64_t)inlen) << 56
    Final,                  \* 0xff
    Blocks,                 \* the words of a message (15)
    Message, Key,           \* the messages and keys it may be called with
    Zero                    \* the word 0

VARIABLES
    stage,    \* "ready", or what is being absorbed: "data", "length", "final"
    mixing,   \* the loop of SIPROUNDs is running
    ni, i,    \* words absorbed, rounds of the loop done
    v,        \* v0 .. v3
    in, kk,   \* the arguments
    out       \* the result, once it is known

hashvars == <<stage, mixing, ni, i, v, in, kk, out>>

cROUNDS == 2
dROUNDS == 4

Rounds(a) == IF a = "final" THEN dROUNDS ELSE cROUNDS

Words(a, b, c, e) == [v0 |-> a, v1 |-> b, v2 |-> c, v3 |-> e]

Blank == Words(Zero, Zero, Zero, Zero)

Keyed(x, k) == Words(Xor(x.v0, k.k0), Xor(x.v1, k.k1), Xor(x.v2, k.k0), Xor(x.v3, k.k1))

\* The macro, statement by statement.
SIPROUND(x) ==
    LET a0 == Add(x.v0, x.v1)
        a1 == Xor(ROTL(x.v1, 13), a0)
        b0 == ROTL(a0, 32)
        a2 == Add(x.v2, x.v3)
        a3 == Xor(ROTL(x.v3, 16), a2)
        c0 == Add(b0, a3)
        b3 == Xor(ROTL(a3, 21), c0)
        b2 == Add(a2, a1)
        b1 == Xor(ROTL(a1, 17), b2)
    IN Words(c0, b1, ROTL(b2, 32), b3)

-------------------------------------------------------------------------------

HashInit == /\ stage = "ready" /\ mixing = FALSE /\ ni = 0 /\ i = 0 /\ v = Blank
            /\ in \in Message /\ kk \in Key /\ out = Zero

Call == /\ stage = "ready" /\ stage' = "data"
        /\ in' \in Message /\ kk' \in Key
        /\ v' = Keyed(Start, kk') /\ ni' = 0 /\ out' = Zero
        /\ UNCHANGED <<mixing, i>>

\* m = U8TO64_LE(ni); v3 ^= m.
Absorb == /\ stage = "data" /\ ~mixing /\ ni # Blocks
          /\ v' = [v EXCEPT !.v3 = Xor(@, in[ni])]
          /\ mixing' = TRUE /\ i' = 0
          /\ UNCHANGED <<stage, ni, in, kk, out>>

\* No bytes are left over: b holds the length alone.
AbsorbLength == /\ stage = "data" /\ ~mixing /\ ni = Blocks
                /\ v' = [v EXCEPT !.v3 = Xor(@, Length)]
                /\ stage' = "length" /\ mixing' = TRUE /\ i' = 0
                /\ UNCHANGED <<ni, in, kk, out>>

AbsorbFinal == /\ stage = "final" /\ ~mixing
               /\ v' = [v EXCEPT !.v2 = Xor(@, Final)]
               /\ mixing' = TRUE /\ i' = 0
               /\ UNCHANGED <<stage, ni, in, kk, out>>

Round == /\ mixing /\ i < Rounds(stage)
         /\ \E x \in {v} : v' = SIPROUND(x)
         /\ i' = i + 1
         /\ UNCHANGED <<stage, mixing, ni, in, kk, out>>

RoundsOver == mixing /\ i = Rounds(stage) /\ mixing' = FALSE /\ i' = 0

\* v0 ^= m.
Release == /\ stage = "data" /\ RoundsOver
           /\ v' = [v EXCEPT !.v0 = Xor(@, in[ni])] /\ ni' = ni + 1
           /\ UNCHANGED <<stage, in, kk, out>>

ReleaseLength == /\ stage = "length" /\ RoundsOver
                 /\ v' = [v EXCEPT !.v0 = Xor(@, Length)]
                 /\ stage' = "final"
                 /\ UNCHANGED <<ni, in, kk, out>>

Return == /\ stage = "final" /\ RoundsOver
          /\ out' = Xor(Xor(Xor(v.v0, v.v1), v.v2), v.v3)
          /\ stage' = "ready" /\ ni' = 0 /\ v' = Blank
          /\ UNCHANGED <<in, kk>>

HashNext == \/ Call \/ Absorb \/ AbsorbLength \/ AbsorbFinal \/ Round
            \/ Release \/ ReleaseLength \/ Return

HashSpec == HashInit /\ [][HashNext]_hashvars
===============================================================================
