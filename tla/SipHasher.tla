------------------------------- MODULE SipHasher -------------------------------
(***************************************************************************)
(* siphasher.vhd: the board's hash unit, one step per period of the clock. *)
(* A SIPROUND takes four periods.  The fields crc and dpc are as in the    *)
(* code, dpc counted in words; frc is never used.  What drives the inputs  *)
(* may raise in_start, and change the data, at any time.                   *)
(***************************************************************************)
EXTENDS Naturals

CONSTANTS
    Add(_, _), Xor(_, _), rotate_left(_, _),
    Start, g_siphash_length, g_siphash_finalise_constant,
    g_compression_rounds, g_finalise_rounds,   \* the last round's number
    Blocks, Message, Key, Zero

ASSUME RoundsAssumption == g_compression_rounds = 1 /\ g_finalise_rounds = 3
ASSUME BlocksAssumption == Blocks \in Nat

VARIABLES
    state, crc, dpc, v0, v1, v2, v3,   \* hstate_t
    d, k,                              \* the latched message and key
    in_start, in_data, in_key,
    out_ready

regs == <<v0, v1, v2, v3>>
unit == <<state, crc, dpc, regs, d, k, out_ready>>
sipvars == <<unit, in_start, in_data, in_key>>

out_data == v0

-------------------------------------------------------------------------------
(* The four quarters of a round.                                              *)

siphash_round_1 == /\ v0' = Add(v0, v1) /\ v2' = Add(v2, v3)
                   /\ v1' = rotate_left(v1, 13) /\ v3' = rotate_left(v3, 16)

siphash_round_2 == /\ v1' = Xor(v1, v0) /\ v3' = Xor(v3, v2)
                   /\ v0' = rotate_left(v0, 32) /\ v2' = v2

\* Mutant: the rotations of the first quarter.
siphash_round_3_Copied == /\ v0' = Add(v0, v3) /\ v2' = Add(v2, v1)
                          /\ v1' = rotate_left(v1, 13) /\ v3' = rotate_left(v3, 16)

siphash_round_3 == /\ v0' = Add(v0, v3) /\ v2' = Add(v2, v1)
                   /\ v1' = rotate_left(v1, 17) /\ v3' = rotate_left(v3, 21)

siphash_round_4 == /\ v1' = Xor(v1, v2) /\ v3' = Xor(v3, v0)
                   /\ v2' = rotate_left(v2, 32) /\ v0' = v0

-------------------------------------------------------------------------------

SipInit == /\ state = "Idle" /\ crc = 0 /\ dpc = 0
           /\ v0 = Zero /\ v1 = Zero /\ v2 = Zero /\ v3 = Zero
           /\ d \in Message /\ k \in Key /\ out_ready = FALSE
           /\ in_start = FALSE /\ in_data \in Message /\ in_key \in Key

Idle == /\ state = "Idle" /\ in_start /\ state' = "InitV"
        /\ d' = in_data /\ k' = in_key
        /\ UNCHANGED <<crc, dpc, regs>>

Waiting == /\ state = "Idle" /\ ~in_start
           /\ UNCHANGED <<state, crc, dpc, regs, d, k>>

InitV == /\ state = "InitV" /\ state' = "InitKey"
         /\ v0' = Start.v0 /\ v1' = Start.v1 /\ v2' = Start.v2 /\ v3' = Start.v3
         /\ UNCHANGED <<crc, dpc, d, k>>

InitKey == /\ state = "InitKey" /\ state' = "CompressionBefore"
           /\ v3' = Xor(v3, k.k1) /\ v2' = Xor(v2, k.k0)
           /\ v1' = Xor(v1, k.k1) /\ v0' = Xor(v0, k.k0)
           /\ dpc' = 0
           /\ UNCHANGED <<crc, d, k>>

CompressionBefore == /\ state = "CompressionBefore"
                     /\ IF dpc = Blocks
                        THEN state' = "CompressionLengthBefore" /\ UNCHANGED <<v3, crc>>
                        ELSE /\ v3' = Xor(v3, d[dpc]) /\ crc' = 0
                             /\ state' = "CompressionSIPRound1"
                     /\ UNCHANGED <<dpc, v0, v1, v2, d, k>>

\* What the three loops do in turn, and what follows each.
Quarter1 == [CompressionSIPRound1 |-> "CompressionSIPRound2",
             CompressionLengthSIPRound1 |-> "CompressionLengthSIPRound2",
             FinaliseSIPRound1 |-> "FinaliseSIPRound2"]
Quarter2 == [CompressionSIPRound2 |-> "CompressionSIPRound3",
             CompressionLengthSIPRound2 |-> "CompressionLengthSIPRound3",
             FinaliseSIPRound2 |-> "FinaliseSIPRound3"]
Quarter3 == [CompressionSIPRound3 |-> "CompressionSIPRound4",
             CompressionLengthSIPRound3 |-> "CompressionLengthSIPRound4",
             FinaliseSIPRound3 |-> "FinaliseSIPRound4"]
Quarter4 == [CompressionSIPRound4 |-> "CompressionSIPRound1",
             CompressionLengthSIPRound4 |-> "CompressionLengthSIPRound1",
             FinaliseSIPRound4 |-> "FinaliseSIPRound1"]
Leave == [CompressionSIPRound4 |-> "CompressionAfter",
          CompressionLengthSIPRound4 |-> "CompressionLengthAfter",
          FinaliseSIPRound4 |-> "FinaliseAfter"]

LastRound(q) == IF q = "FinaliseSIPRound4" THEN g_finalise_rounds ELSE g_compression_rounds

SIPRound1 == /\ state \in DOMAIN Quarter1 /\ state' = Quarter1[state]
             /\ siphash_round_1
             /\ UNCHANGED <<crc, dpc, d, k>>

SIPRound2 == /\ state \in DOMAIN Quarter2 /\ state' = Quarter2[state]
             /\ siphash_round_2
             /\ UNCHANGED <<crc, dpc, d, k>>

SIPRound3 == /\ state \in DOMAIN Quarter3 /\ state' = Quarter3[state]
             /\ siphash_round_3
             /\ UNCHANGED <<crc, dpc, d, k>>

SIPRound4 == /\ state \in DOMAIN Quarter4
             /\ siphash_round_4
             /\ IF crc = LastRound(state)
                THEN state' = Leave[state] /\ UNCHANGED crc
                ELSE state' = Quarter4[state] /\ crc' = crc + 1
             /\ UNCHANGED <<dpc, d, k>>

CompressionAfter == /\ state = "CompressionAfter" /\ state' = "CompressionBefore"
                    /\ v0' = Xor(v0, d[dpc]) /\ dpc' = dpc + 1
                    /\ UNCHANGED <<crc, v1, v2, v3, d, k>>

CompressionLengthBefore ==
    /\ state = "CompressionLengthBefore" /\ state' = "CompressionLengthSIPRound1"
    /\ v3' = Xor(v3, g_siphash_length) /\ crc' = 0
    /\ UNCHANGED <<dpc, v0, v1, v2, d, k>>

CompressionLengthAfter ==
    /\ state = "CompressionLengthAfter" /\ state' = "FinaliseBefore"
    /\ v0' = Xor(v0, g_siphash_length)
    /\ UNCHANGED <<crc, dpc, v1, v2, v3, d, k>>

FinaliseBefore == /\ state = "FinaliseBefore" /\ state' = "FinaliseSIPRound1"
                  /\ v2' = Xor(v2, g_siphash_finalise_constant) /\ crc' = 0
                  /\ UNCHANGED <<dpc, v0, v1, v3, d, k>>

FinaliseAfter == /\ state = "FinaliseAfter" /\ state' = "Output"
                 /\ v0' = Xor(Xor(Xor(v0, v1), v2), v3)
                 /\ UNCHANGED <<crc, dpc, v1, v2, v3, d, k>>

\* Mutant: the unit waits for another start first.
Output_Held == /\ state = "Output" /\ in_start /\ state' = "Idle"
               /\ UNCHANGED <<crc, dpc, regs, d, k>>

Output == /\ state = "Output" /\ state' = "Idle"
          /\ UNCHANGED <<crc, dpc, regs, d, k>>

hash == \/ Idle \/ Waiting \/ InitV \/ InitKey \/ CompressionBefore
        \/ SIPRound1 \/ SIPRound2 \/ SIPRound3 \/ SIPRound4
        \/ CompressionAfter \/ CompressionLengthBefore \/ CompressionLengthAfter
        \/ FinaliseBefore \/ FinaliseAfter \/ Output

Clock == hash /\ out_ready' = (state = "Output") /\ UNCHANGED <<in_start, in_data, in_key>>

\* The core, between two edges.
Drive == /\ in_start' \in BOOLEAN /\ in_data' \in Message /\ in_key' \in Key
         /\ UNCHANGED unit

SipNext == Clock \/ Drive

\* The clock never stops.
SipSpec == SipInit /\ [][SipNext]_sipvars /\ WF_sipvars(Clock)

-------------------------------------------------------------------------------
(* The state of siphash.c that a state of the unit stands for: a round that   *)
(* was begun is finished, and keys that were not yet xored in are.            *)

Ready == {"Idle", "Output"}
Looping == DOMAIN Quarter1 \cup DOMAIN Quarter2 \cup DOMAIN Quarter3 \cup DOMAIN Quarter4

Stage == IF state \in Ready THEN "ready"
         ELSE IF state \in {"CompressionLengthSIPRound1", "CompressionLengthSIPRound2",
                            "CompressionLengthSIPRound3", "CompressionLengthSIPRound4",
                            "CompressionLengthAfter"} THEN "length"
         ELSE IF state \in {"FinaliseBefore", "FinaliseSIPRound1", "FinaliseSIPRound2",
                            "FinaliseSIPRound3", "FinaliseSIPRound4", "FinaliseAfter"} THEN "final"
         ELSE "data"

Over == {"CompressionAfter", "CompressionLengthAfter", "FinaliseAfter"}

Mixing == state \in Looping \cup Over

Done == IF state \in DOMAIN Quarter1 THEN crc
        ELSE IF Mixing THEN crc + 1
        ELSE 0

V(a, b, c, e) == [v0 |-> a, v1 |-> b, v2 |-> c, v3 |-> e]

\* Quarter four; three and four; two, three and four; and the keys.
From4(a, b, c, e) == V(a, Xor(b, c), rotate_left(c, 32), Xor(e, a))
From3(a, b, c, e) == From4(Add(a, e), rotate_left(b, 17), Add(c, b), rotate_left(e, 21))
From2(a, b, c, e) == From3(rotate_left(a, 32), Xor(b, a), c, Xor(e, c))
FromKey(x) == V(Xor(x.v0, k.k0), Xor(x.v1, k.k1), Xor(x.v2, k.k0), Xor(x.v3, k.k1))

Now == V(v0, v1, v2, v3)

Finished == IF state \in Ready THEN V(Zero, Zero, Zero, Zero)
            ELSE IF state = "InitV" THEN FromKey(Start)
            ELSE IF state = "InitKey" THEN FromKey(Now)
            ELSE IF state \in DOMAIN Quarter2 THEN From2(v0, v1, v2, v3)
            ELSE IF state \in DOMAIN Quarter3 THEN From3(v0, v1, v2, v3)
            ELSE IF state \in DOMAIN Quarter4 THEN From4(v0, v1, v2, v3)
            ELSE Now

C == INSTANCE SipHash WITH
       ROTL <- rotate_left, Length <- g_siphash_length, Final <- g_siphash_finalise_constant,
       stage <- Stage, mixing <- Mixing,
       ni <- IF state \in Ready \cup {"InitV", "InitKey"} THEN 0 ELSE dpc,
       i <- Done, v <- Finished, in <- d, kk <- k,
       out <- IF state \in Ready THEN v0 ELSE Zero

\* The unit computes siphash of siphash.c on what it latched, round by round,
\* whatever its inputs do meanwhile: the board and the tool agree on every tag.
ImplementsSipHash == C!HashSpec

\* A hash that was begun is announced; the core waits for that without a timeout.
HashAnswers == state = "InitV" ~> out_ready
===============================================================================
