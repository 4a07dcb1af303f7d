--------------------------- MODULE SipHasherProofs ---------------------------
(***************************************************************************)
(* The hash unit computes what siphash.c computes, whatever addition, xor  *)
(* and rotation are, and for any length of message.                        *)
(***************************************************************************)
EXTENDS SipHasher, TLAPS

-------------------------------------------------------------------------------

Round1 == {"CompressionSIPRound1", "CompressionLengthSIPRound1", "FinaliseSIPRound1"}
Round2 == {"CompressionSIPRound2", "CompressionLengthSIPRound2", "FinaliseSIPRound2"}
Round3 == {"CompressionSIPRound3", "CompressionLengthSIPRound3", "FinaliseSIPRound3"}
Round4 == {"CompressionSIPRound4", "CompressionLengthSIPRound4", "FinaliseSIPRound4"}

InRounds == Round1 \cup Round2 \cup Round3 \cup Round4

States == InRounds \cup Over
            \cup {"Idle", "InitV", "InitKey", "CompressionBefore", "CompressionLengthBefore",
                  "FinaliseBefore", "Output"}

Finalising == {"FinaliseSIPRound1", "FinaliseSIPRound2", "FinaliseSIPRound3", "FinaliseSIPRound4",
               "FinaliseAfter"}

\* The number of the last round, in a loop.
Last == IF state \in Finalising THEN 3 ELSE 1

SipTypeOK == /\ state \in States
             /\ crc \in Nat /\ dpc \in Nat
             /\ d \in Message /\ in_data \in Message
             /\ k \in Key /\ in_key \in Key
             /\ in_start \in BOOLEAN /\ out_ready \in BOOLEAN

\* No loop runs over, each is left in its last round, and the length follows the
\* last word.
RoundInv == /\ state \in InRounds => crc <= Last
            /\ state \in Over => crc = Last
            /\ state = "CompressionLengthBefore" => dpc = Blocks

SipInd == SipTypeOK /\ RoundInv

-------------------------------------------------------------------------------
(* The tables, as sets and cases.                                            *)

LEMMA Tables ==
  /\ DOMAIN Quarter1 = Round1 /\ DOMAIN Quarter2 = Round2
  /\ DOMAIN Quarter3 = Round3 /\ DOMAIN Quarter4 = Round4
BY DEF Quarter1, Quarter2, Quarter3, Quarter4, Round1, Round2, Round3, Round4

LEMMA TableEntries ==
  /\ Quarter1["CompressionSIPRound1"] = "CompressionSIPRound2"
  /\ Quarter1["CompressionLengthSIPRound1"] = "CompressionLengthSIPRound2"
  /\ Quarter1["FinaliseSIPRound1"] = "FinaliseSIPRound2"
  /\ Quarter2["CompressionSIPRound2"] = "CompressionSIPRound3"
  /\ Quarter2["CompressionLengthSIPRound2"] = "CompressionLengthSIPRound3"
  /\ Quarter2["FinaliseSIPRound2"] = "FinaliseSIPRound3"
  /\ Quarter3["CompressionSIPRound3"] = "CompressionSIPRound4"
  /\ Quarter3["CompressionLengthSIPRound3"] = "CompressionLengthSIPRound4"
  /\ Quarter3["FinaliseSIPRound3"] = "FinaliseSIPRound4"
  /\ Quarter4["CompressionSIPRound4"] = "CompressionSIPRound1"
  /\ Quarter4["CompressionLengthSIPRound4"] = "CompressionLengthSIPRound1"
  /\ Quarter4["FinaliseSIPRound4"] = "FinaliseSIPRound1"
  /\ Leave["CompressionSIPRound4"] = "CompressionAfter"
  /\ Leave["CompressionLengthSIPRound4"] = "CompressionLengthAfter"
  /\ Leave["FinaliseSIPRound4"] = "FinaliseAfter"
BY DEF Quarter1, Quarter2, Quarter3, Quarter4, Leave

\* A step from a state of the first three quarters goes on in the same loop.
LEMMA NextQuarter ==
  ASSUME NEW st \in States
  PROVE  /\ st \in Round1 => /\ Quarter1[st] \in Round2
                             /\ Quarter1[st] \in Finalising <=> st \in Finalising
         /\ st \in Round2 => /\ Quarter2[st] \in Round3
                             /\ Quarter2[st] \in Finalising <=> st \in Finalising
         /\ st \in Round3 => /\ Quarter3[st] \in Round4
                             /\ Quarter3[st] \in Finalising <=> st \in Finalising
         /\ st \in Round4 => /\ Quarter4[st] \in Round1 /\ Leave[st] \in Over
                             /\ Quarter4[st] \in Finalising <=> st \in Finalising
                             /\ Leave[st] \in Finalising <=> st \in Finalising
BY TableEntries DEF Round1, Round2, Round3, Round4, Over, Finalising

-------------------------------------------------------------------------------
(* The inductive invariant.                                                  *)

LEMMA SipInitInd == SipInit => SipInd
<1> SUFFICES ASSUME SipInit PROVE SipInd
  OBVIOUS
<1>1. in_start \in BOOLEAN /\ out_ready \in BOOLEAN
  BY DEF SipInit
<1>2. /\ state \in States /\ crc \in Nat /\ dpc \in Nat
      /\ d \in Message /\ in_data \in Message /\ k \in Key /\ in_key \in Key
  BY DEF SipInit, States
<1>3. RoundInv
  BY DEF SipInit, RoundInv, InRounds, Over, Round1, Round2, Round3, Round4
<1> QED
  BY <1>1, <1>2, <1>3 DEF SipInd, SipTypeOK

LEMMA HashStep == SipInd /\ hash /\ out_ready' = (state = "Output")
                    /\ UNCHANGED <<in_start, in_data, in_key>> => SipInd'
<1> SUFFICES ASSUME SipInd, hash, out_ready' = (state = "Output"),
                    UNCHANGED <<in_start, in_data, in_key>>
             PROVE  SipInd'
  OBVIOUS
<1> USE RoundsAssumption, BlocksAssumption
    DEF SipInd, SipTypeOK, RoundInv, Last
<1>0. /\ state \in States /\ crc \in Nat /\ dpc \in Nat
      /\ out_ready' \in BOOLEAN
  OBVIOUS
<1>1. CASE Idle
  BY <1>1 DEF Idle, States, InRounds, Over, Round1, Round2, Round3, Round4
<1>2. CASE Waiting
  BY <1>2 DEF Waiting
<1>3. CASE InitV
  BY <1>3 DEF InitV, States, InRounds, Over, Round1, Round2, Round3, Round4
<1>4. CASE InitKey
  BY <1>4 DEF InitKey, States, InRounds, Over, Round1, Round2, Round3, Round4
<1>5. CASE CompressionBefore
  BY <1>5 DEF CompressionBefore, States, InRounds, Over, Finalising, Round1, Round2, Round3, Round4
<1>6. CASE SIPRound1
  BY <1>6, Tables, NextQuarter DEF SIPRound1, States, InRounds, Over, Round1, Round2
<1>7. CASE SIPRound2
  BY <1>7, Tables, NextQuarter DEF SIPRound2, States, InRounds, Over, Round2, Round3
<1>8. CASE SIPRound3
  BY <1>8, Tables, NextQuarter DEF SIPRound3, States, InRounds, Over, Round3, Round4
<1>9. CASE SIPRound4
  BY <1>9, Tables, NextQuarter DEF SIPRound4, LastRound, States, InRounds, Over, Finalising, Round1, Round4
<1>10. CASE CompressionAfter
  BY <1>10 DEF CompressionAfter, States, InRounds, Over, Round1, Round2, Round3, Round4
<1>11. CASE CompressionLengthBefore
  BY <1>11 DEF CompressionLengthBefore, States, InRounds, Over, Finalising, Round1, Round2, Round3, Round4
<1>12. CASE CompressionLengthAfter
  BY <1>12 DEF CompressionLengthAfter, States, InRounds, Over, Round1, Round2, Round3, Round4
<1>13. CASE FinaliseBefore
  BY <1>13 DEF FinaliseBefore, States, InRounds, Over, Finalising, Round1, Round2, Round3, Round4
<1>14. CASE FinaliseAfter
  BY <1>14 DEF FinaliseAfter, States, InRounds, Over, Round1, Round2, Round3, Round4
<1>15. CASE Output
  BY <1>15 DEF Output, States, InRounds, Over, Round1, Round2, Round3, Round4
<1> QED
  BY <1>1, <1>2, <1>3, <1>4, <1>5, <1>6, <1>7, <1>8, <1>9, <1>10, <1>11, <1>12, <1>13,
     <1>14, <1>15 DEF hash

LEMMA SipStep == SipInd /\ [SipNext]_sipvars => SipInd'
<1>1. SipInd /\ Clock => SipInd'
  BY HashStep DEF Clock
<1>2. SipInd /\ Drive => SipInd'
  BY DEF Drive, unit, regs, SipInd, SipTypeOK, RoundInv, Last
<1>3. SipInd /\ UNCHANGED sipvars => SipInd'
  BY DEF sipvars, unit, regs, SipInd, SipTypeOK, RoundInv, Last
<1> QED
  BY <1>1, <1>2, <1>3 DEF SipNext

\* The hash unit's registers stay in their ranges, and every loop does exactly its
\* number of rounds.
THEOREM SipInvariance == SipSpec => []SipInd
BY SipInitInd, SipStep, PTL DEF SipSpec

-------------------------------------------------------------------------------
(* The refinement.                                                           *)

NI == IF state \in Ready \cup {"InitV", "InitKey"} THEN 0 ELSE dpc
Out == IF state \in Ready THEN v0 ELSE Zero

LEMMA HashNames == C!hashvars = <<Stage, Mixing, NI, Done, Finished, d, k, Out>>
BY DEF C!hashvars, NI, Out

StageOf(st) == IF st \in Finalising THEN "final"
               ELSE IF st \in {"CompressionSIPRound1", "CompressionSIPRound2", "CompressionSIPRound3",
                               "CompressionSIPRound4", "CompressionAfter"} THEN "data"
               ELSE "length"

\* What the registers stand for between two rounds: what they hold, ...
Between == /\ state \in Ready => /\ Stage = "ready" /\ Mixing = FALSE /\ NI = 0 /\ Done = 0
                                 /\ Finished = V(Zero, Zero, Zero, Zero) /\ Out = v0
           /\ state = "InitV" => /\ Stage = "data" /\ Mixing = FALSE /\ NI = 0 /\ Done = 0
                                 /\ Finished = FromKey(Start) /\ Out = Zero
           /\ state = "InitKey" => /\ Stage = "data" /\ Mixing = FALSE /\ NI = 0 /\ Done = 0
                                   /\ Finished = FromKey(Now) /\ Out = Zero
           /\ state \in {"CompressionBefore", "CompressionLengthBefore"} =>
                /\ Stage = "data" /\ Mixing = FALSE /\ NI = dpc /\ Done = 0
                /\ Finished = Now /\ Out = Zero
           /\ state = "FinaliseBefore" =>
                /\ Stage = "final" /\ Mixing = FALSE /\ NI = dpc /\ Done = 0
                /\ Finished = Now /\ Out = Zero

\* ... and in a loop: the end of the round that was begun.
Within == state \in InRounds \cup Over =>
            /\ Stage = StageOf(state) /\ Mixing = TRUE /\ NI = dpc /\ Out = Zero
            /\ Done = IF state \in Round1 THEN crc ELSE crc + 1
            /\ state \in Round1 \cup Over => Finished = Now
            /\ state \in Round2 => Finished = From2(v0, v1, v2, v3)
            /\ state \in Round3 => Finished = From3(v0, v1, v2, v3)
            /\ state \in Round4 => Finished = From4(v0, v1, v2, v3)

LEMMA StandsFor == SipInd => Between /\ Within
<1>1. SipInd => Between
  BY Tables DEF Between, Ready, Stage, Mixing, Looping, Over, Done, Finished, NI, Out,
                Round1, Round2, Round3, Round4
<1>2. SipInd => Within
  BY Tables DEF Within, Ready, Stage, StageOf, Finalising, Mixing, Looping, InRounds, Over, Done,
                Finished, NI, Out, Round1, Round2, Round3, Round4
<1> QED
  BY <1>1, <1>2

LEMMA StandsForNext == SipInd' => Between' /\ Within'
BY StandsFor, PTL

LEMMA StageTables ==
  ASSUME NEW st \in States
  PROVE  /\ st \in Round1 => StageOf(Quarter1[st]) = StageOf(st)
         /\ st \in Round2 => StageOf(Quarter2[st]) = StageOf(st)
         /\ st \in Round3 => StageOf(Quarter3[st]) = StageOf(st)
         /\ st \in Round4 => StageOf(Quarter4[st]) = StageOf(st) /\ StageOf(Leave[st]) = StageOf(st)
BY TableEntries DEF StageOf, Finalising, Round1, Round2, Round3, Round4

\* The four quarters make up a SIPROUND.
LEMMA FourQuarters ==
  ASSUME NEW a, NEW b, NEW c, NEW e
  PROVE  From2(Add(a, b), rotate_left(b, 13), Add(c, e), rotate_left(e, 16))
           = C!SIPROUND(V(a, b, c, e))
BY DEF From2, From3, From4, V, C!SIPROUND, C!Words

\* A step of the unit is a step of siphash, or none.
LEMMA SipRefinedStep ==
  ASSUME SipInd, SipInd', hash
  PROVE  C!HashNext \/ UNCHANGED C!hashvars
<1> USE RoundsAssumption, BlocksAssumption
<1>0. /\ SipTypeOK /\ RoundInv /\ Between /\ Within /\ Between' /\ Within'
  BY StandsFor, StandsForNext DEF SipInd
<1>1. CASE Idle
  <2>1. /\ state = "Idle" /\ state' = "InitV" /\ d' = in_data /\ k' = in_key
    BY <1>1 DEF Idle
  <2>2. d' \in Message /\ k' \in Key
    BY <1>0, <2>1 DEF SipTypeOK
  <2>3. /\ Stage = "ready" /\ Stage' = "data" /\ Mixing' = Mixing /\ Done' = Done
        /\ NI' = 0 /\ Out' = Zero /\ Finished' = FromKey(Start)'
    BY <1>0, <2>1 DEF Between, Ready
  <2>4. C!Call
    BY <2>2, <2>3 DEF C!Call, C!Keyed, C!Words, FromKey, V, NI, Out
  <2> QED
    BY <2>4 DEF C!HashNext
<1>2. CASE Waiting
  <2>1. /\ UNCHANGED <<d, k>>
        /\ Stage' = Stage /\ Mixing' = Mixing /\ NI' = NI /\ Done' = Done
        /\ Finished' = Finished /\ Out' = Out
    BY <1>0, <1>2 DEF Waiting, regs, Between, Ready
  <2> QED
    BY <2>1, HashNames DEF C!hashvars, NI, Out
<1>3. CASE InitV
  <2>1. /\ UNCHANGED <<d, k>>
        /\ Stage' = Stage /\ Mixing' = Mixing /\ NI' = NI /\ Done' = Done /\ Out' = Out
    BY <1>0, <1>3 DEF InitV, Between
  <2>2. Finished' = Finished
    BY <1>0, <1>3 DEF InitV, Between, FromKey, Now, V
  <2> QED
    BY <2>1, <2>2 DEF C!hashvars, NI, Out
<1>4. CASE InitKey
  <2>1. /\ UNCHANGED <<d, k>>
        /\ Stage' = Stage /\ Mixing' = Mixing /\ NI' = NI /\ Done' = Done /\ Out' = Out
    BY <1>0, <1>4 DEF InitKey, Between
  <2>2. Finished' = Finished
    BY <1>0, <1>4 DEF InitKey, Between, FromKey, Now, V
  <2> QED
    BY <2>1, <2>2 DEF C!hashvars, NI, Out
<1>5. CASE CompressionBefore
  <2>1. CASE dpc = Blocks
    <3>1. state' = "CompressionLengthBefore" /\ UNCHANGED <<dpc, v0, v1, v2, v3, d, k>>
      BY <1>5, <2>1 DEF CompressionBefore
    <3>2. /\ Stage' = Stage /\ Mixing' = Mixing /\ NI' = NI /\ Done' = Done
          /\ Finished' = Finished /\ Out' = Out
      BY <1>0, <1>5, <3>1 DEF CompressionBefore, Between, Now, V
    <3> QED
      BY <3>1, <3>2 DEF C!hashvars, NI, Out
  <2>2. CASE dpc # Blocks
    <3>1. /\ state = "CompressionBefore" /\ state' = "CompressionSIPRound1" /\ crc' = 0
          /\ v3' = Xor(v3, d[dpc]) /\ UNCHANGED <<dpc, v0, v1, v2, d, k>>
      BY <1>5, <2>2 DEF CompressionBefore
    <3>2. /\ Stage = "data" /\ Mixing = FALSE /\ NI = dpc /\ Finished = Now /\ Out = Zero
      BY <1>0, <3>1 DEF Between
    <3>3. /\ Stage' = "data" /\ Mixing' = TRUE /\ NI' = dpc /\ Done' = 0
          /\ Finished' = Now' /\ Out' = Zero
      BY <1>0, <3>1 DEF Within, StageOf, InRounds, Round1, Finalising
    <3>4. Now' = [Now EXCEPT !.v3 = Xor(@, d[dpc])]
      BY <3>1 DEF Now, V
    <3>5. C!Absorb
      BY <2>2, <3>1, <3>2, <3>3, <3>4 DEF C!Absorb, NI, Out
    <3> QED
      BY <3>5 DEF C!HashNext
  <2> QED
    BY <2>1, <2>2
<1>6. CASE SIPRound1
  <2>1. /\ state \in Round1 /\ state' = Quarter1[state] /\ state' \in Round2
        /\ state \in States /\ StageOf(state') = StageOf(state)
    BY <1>0, <1>6, Tables, NextQuarter, StageTables DEF SIPRound1, SipTypeOK
  <2>2. UNCHANGED <<crc, dpc, d, k>>
    BY <1>6 DEF SIPRound1
  <2>3. /\ Stage = StageOf(state) /\ Mixing = TRUE /\ NI = dpc /\ Finished = Now /\ Out = Zero
        /\ Done = crc
    BY <1>0, <2>1 DEF Within, InRounds
  <2>4. state' \notin Round1
    BY <2>1 DEF Round1, Round2
  <2>5. /\ Stage' = StageOf(state) /\ Mixing' = TRUE /\ NI' = dpc /\ Out' = Zero
        /\ Done' = crc + 1 /\ Finished' = From2(v0', v1', v2', v3')
    BY <1>0, <2>1, <2>2, <2>4 DEF Within, InRounds
  <2>6. Finished' = C!SIPROUND(Finished)
    BY <1>6, <2>3, <2>5, FourQuarters DEF SIPRound1, siphash_round_1, Now
  <2>7. Done < C!Rounds(Stage)
    BY <1>0, <2>1, <2>3 DEF RoundInv, SipTypeOK, Last, StageOf, Finalising, InRounds, Round1,
                            C!Rounds, C!cROUNDS, C!dROUNDS
  <2>8. C!Round
    BY <2>2, <2>3, <2>5, <2>6, <2>7 DEF C!Round, NI, Out
  <2> QED
    BY <2>8 DEF C!HashNext
<1>7. CASE SIPRound2
  <2>1. /\ state \in Round2 /\ state' = Quarter2[state] /\ state' \in Round3
        /\ state \in States /\ StageOf(state') = StageOf(state)
    BY <1>0, <1>7, Tables, NextQuarter, StageTables DEF SIPRound2, SipTypeOK
  <2>2. UNCHANGED <<crc, dpc, d, k>>
    BY <1>7 DEF SIPRound2
  <2>3. state \notin Round1 /\ state' \notin Round1
    BY <2>1 DEF Round1, Round2, Round3
  <2>4. /\ Stage' = Stage /\ Mixing' = Mixing /\ NI' = NI /\ Out' = Out /\ Done' = Done
    BY <1>0, <2>1, <2>2, <2>3 DEF Within, InRounds
  <2>5. Finished = From2(v0, v1, v2, v3) /\ Finished' = From3(v0', v1', v2', v3')
    BY <1>0, <2>1 DEF Within, InRounds
  <2>6. Finished' = Finished
    BY <1>7, <2>5 DEF SIPRound2, siphash_round_2, From2
  <2> QED
    BY <2>2, <2>4, <2>6 DEF C!hashvars, NI, Out
<1>8. CASE SIPRound3
  <2>1. /\ state \in Round3 /\ state' = Quarter3[state] /\ state' \in Round4
        /\ state \in States /\ StageOf(state') = StageOf(state)
    BY <1>0, <1>8, Tables, NextQuarter, StageTables DEF SIPRound3, SipTypeOK
  <2>2. UNCHANGED <<crc, dpc, d, k>>
    BY <1>8 DEF SIPRound3
  <2>3. state \notin Round1 /\ state' \notin Round1
    BY <2>1 DEF Round1, Round3, Round4
  <2>4. /\ Stage' = Stage /\ Mixing' = Mixing /\ NI' = NI /\ Out' = Out /\ Done' = Done
    BY <1>0, <2>1, <2>2, <2>3 DEF Within, InRounds
  <2>5. Finished = From3(v0, v1, v2, v3) /\ Finished' = From4(v0', v1', v2', v3')
    BY <1>0, <2>1 DEF Within, InRounds
  <2>6. Finished' = Finished
    BY <1>8, <2>5 DEF SIPRound3, siphash_round_3, From3
  <2> QED
    BY <2>2, <2>4, <2>6 DEF C!hashvars, NI, Out
<1>9. CASE SIPRound4
  <2>1. /\ state \in Round4 /\ state \in States
    BY <1>0, <1>9, Tables DEF SIPRound4, SipTypeOK
  <2>2. UNCHANGED <<dpc, d, k>>
    BY <1>9 DEF SIPRound4
  <2>3. /\ StageOf(state') = StageOf(state)
        /\ \/ state' \in Over /\ crc' = crc
           \/ state' \in Round1 /\ crc' = crc + 1
    BY <1>9, <2>1, NextQuarter, StageTables DEF SIPRound4
  <2>4. state \notin Round1 /\ (state' \in Over => state' \notin Round1)
    BY <2>1 DEF Round1, Round4, Over
  <2>5. /\ Stage' = Stage /\ Mixing' = Mixing /\ NI' = NI /\ Out' = Out /\ Done' = Done
    BY <1>0, <2>1, <2>2, <2>3, <2>4 DEF Within, InRounds
  <2>6. Finished = From4(v0, v1, v2, v3) /\ Finished' = Now'
    BY <1>0, <2>1, <2>3 DEF Within, InRounds
  <2>7. Finished' = Finished
    BY <1>9, <2>6 DEF SIPRound4, siphash_round_4, From4, Now
  <2> QED
    BY <2>2, <2>5, <2>7 DEF C!hashvars, NI, Out
<1>10. CASE CompressionAfter
  <2>1. /\ state = "CompressionAfter" /\ state' = "CompressionBefore"
        /\ v0' = Xor(v0, d[dpc]) /\ dpc' = dpc + 1 /\ UNCHANGED <<crc, v1, v2, v3, d, k>>
    BY <1>10 DEF CompressionAfter
  <2>2. /\ Stage = "data" /\ Mixing = TRUE /\ NI = dpc /\ Finished = Now /\ Out = Zero
        /\ Done = crc + 1
    BY <1>0, <2>1 DEF Within, StageOf, Over, Finalising, Round1
  <2>3. crc = 1
    BY <1>0, <2>1 DEF RoundInv, Over, Last, Finalising
  <2>4. /\ Stage' = "data" /\ Mixing' = FALSE /\ NI' = dpc + 1 /\ Done' = 0
        /\ Finished' = Now' /\ Out' = Zero
    BY <1>0, <2>1 DEF Between
  <2>5. Now' = [Now EXCEPT !.v0 = Xor(@, d[dpc])]
    BY <2>1 DEF Now, V
  <2>6. C!Release
    BY <2>1, <2>2, <2>3, <2>4, <2>5
       DEF C!Release, C!RoundsOver, C!Rounds, C!cROUNDS, C!dROUNDS, NI, Out
  <2> QED
    BY <2>6 DEF C!HashNext
<1>11. CASE CompressionLengthBefore
  <2>1. /\ state = "CompressionLengthBefore" /\ state' = "CompressionLengthSIPRound1" /\ crc' = 0
        /\ v3' = Xor(v3, g_siphash_length) /\ UNCHANGED <<dpc, v0, v1, v2, d, k>>
    BY <1>11 DEF CompressionLengthBefore
  <2>2. /\ Stage = "data" /\ Mixing = FALSE /\ NI = Blocks /\ Finished = Now /\ Out = Zero
        /\ dpc = Blocks
    BY <1>0, <2>1 DEF Between, RoundInv
  <2>3. /\ Stage' = "length" /\ Mixing' = TRUE /\ NI' = NI /\ Done' = 0
        /\ Finished' = Now' /\ Out' = Zero
    BY <1>0, <2>1, <2>2 DEF Within, StageOf, InRounds, Round1, Finalising
  <2>4. Now' = [Now EXCEPT !.v3 = Xor(@, g_siphash_length)]
    BY <2>1 DEF Now, V
  <2>5. C!AbsorbLength
    BY <2>1, <2>2, <2>3, <2>4 DEF C!AbsorbLength, NI, Out
  <2> QED
    BY <2>5 DEF C!HashNext
<1>12. CASE CompressionLengthAfter
  <2>1. /\ state = "CompressionLengthAfter" /\ state' = "FinaliseBefore"
        /\ v0' = Xor(v0, g_siphash_length) /\ UNCHANGED <<crc, dpc, v1, v2, v3, d, k>>
    BY <1>12 DEF CompressionLengthAfter
  <2>2. /\ Stage = "length" /\ Mixing = TRUE /\ NI = dpc /\ Finished = Now /\ Out = Zero
        /\ Done = crc + 1
    BY <1>0, <2>1 DEF Within, StageOf, Over, Finalising, Round1
  <2>3. crc = 1
    BY <1>0, <2>1 DEF RoundInv, Over, Last, Finalising
  <2>4. /\ Stage' = "final" /\ Mixing' = FALSE /\ NI' = dpc /\ Done' = 0
        /\ Finished' = Now' /\ Out' = Zero
    BY <1>0, <2>1 DEF Between
  <2>5. Now' = [Now EXCEPT !.v0 = Xor(@, g_siphash_length)]
    BY <2>1 DEF Now, V
  <2>6. C!ReleaseLength
    BY <2>1, <2>2, <2>3, <2>4, <2>5
       DEF C!ReleaseLength, C!RoundsOver, C!Rounds, C!cROUNDS, C!dROUNDS, NI, Out
  <2> QED
    BY <2>6 DEF C!HashNext
<1>13. CASE FinaliseBefore
  <2>1. /\ state = "FinaliseBefore" /\ state' = "FinaliseSIPRound1" /\ crc' = 0
        /\ v2' = Xor(v2, g_siphash_finalise_constant) /\ UNCHANGED <<dpc, v0, v1, v3, d, k>>
    BY <1>13 DEF FinaliseBefore
  <2>2. /\ Stage = "final" /\ Mixing = FALSE /\ NI = dpc /\ Finished = Now /\ Out = Zero
    BY <1>0, <2>1 DEF Between
  <2>3. /\ Stage' = "final" /\ Mixing' = TRUE /\ NI' = dpc /\ Done' = 0
        /\ Finished' = Now' /\ Out' = Zero
    BY <1>0, <2>1 DEF Within, StageOf, InRounds, Round1, Finalising
  <2>4. Now' = [Now EXCEPT !.v2 = Xor(@, g_siphash_finalise_constant)]
    BY <2>1 DEF Now, V
  <2>5. C!AbsorbFinal
    BY <2>1, <2>2, <2>3, <2>4 DEF C!AbsorbFinal, NI, Out
  <2> QED
    BY <2>5 DEF C!HashNext
<1>14. CASE FinaliseAfter
  <2>1. /\ state = "FinaliseAfter" /\ state' = "Output"
        /\ v0' = Xor(Xor(Xor(v0, v1), v2), v3) /\ UNCHANGED <<d, k>>
    BY <1>14 DEF FinaliseAfter
  <2>2. /\ Stage = "final" /\ Mixing = TRUE /\ Finished = Now /\ Done = crc + 1
    BY <1>0, <2>1 DEF Within, StageOf, Over, Finalising, Round1
  <2>3. crc = 3
    BY <1>0, <2>1 DEF RoundInv, Over, Last, Finalising
  <2>4. /\ Stage' = "ready" /\ Mixing' = FALSE /\ NI' = 0 /\ Done' = 0
        /\ Finished' = V(Zero, Zero, Zero, Zero) /\ Out' = v0'
    BY <1>0, <2>1 DEF Between, Ready
  <2>5. Out' = Xor(Xor(Xor(Finished.v0, Finished.v1), Finished.v2), Finished.v3)
    BY <2>1, <2>2, <2>4 DEF Now, V
  <2>6. C!Return
    BY <2>1, <2>2, <2>3, <2>4, <2>5
       DEF C!Return, C!RoundsOver, C!Rounds, C!cROUNDS, C!dROUNDS, C!Blank, C!Words, V, NI, Out
  <2> QED
    BY <2>6 DEF C!HashNext
<1>15. CASE Output
  <2>1. /\ UNCHANGED <<d, k>>
        /\ Stage' = Stage /\ Mixing' = Mixing /\ NI' = NI /\ Done' = Done
        /\ Finished' = Finished /\ Out' = Out
    BY <1>0, <1>15 DEF Output, regs, Between, Ready
  <2> QED
    BY <2>1 DEF C!hashvars, NI, Out
<1> QED
  BY <1>1, <1>2, <1>3, <1>4, <1>5, <1>6, <1>7, <1>8, <1>9, <1>10, <1>11, <1>12, <1>13,
     <1>14, <1>15 DEF hash

\* The board's hash unit implements siphash of siphash.c, for any message length,
\* messages and keys, and whatever the inputs do while it works.
THEOREM UnitImplementsSipHash == SipSpec => ImplementsSipHash
<1>1. SipInit => C!HashInit
  <2> SUFFICES ASSUME SipInit PROVE C!HashInit
    OBVIOUS
  <2>1. state = "Idle" /\ v0 = Zero /\ d \in Message /\ k \in Key
    BY DEF SipInit
  <2>2. Between
    BY SipInitInd, StandsFor
  <2>3. /\ Stage = "ready" /\ Mixing = FALSE /\ NI = 0 /\ Done = 0
        /\ Finished = V(Zero, Zero, Zero, Zero) /\ Out = Zero
    BY <2>1, <2>2 DEF Between, Ready
  <2> QED
    BY <2>1, <2>3 DEF C!HashInit, C!Blank, C!Words, V, NI, Out
<1>2. SipInd /\ SipInd' /\ [SipNext]_sipvars => [C!HashNext]_(C!hashvars)
  <2>1. ASSUME SipInd, SipInd', Clock PROVE C!HashNext \/ UNCHANGED C!hashvars
    BY <2>1, SipRefinedStep DEF Clock
  <2>2. Drive \/ UNCHANGED sipvars => UNCHANGED C!hashvars
    BY DEF Drive, sipvars, unit, regs, C!hashvars, Stage, Mixing, Done, Finished, Now, FromKey
  <2> QED
    BY <2>1, <2>2 DEF SipNext
<1> QED
  BY <1>1, <1>2, SipInvariance, PTL DEF SipSpec, ImplementsSipHash, C!HashSpec
===============================================================================
