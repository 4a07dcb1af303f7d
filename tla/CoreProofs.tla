------------------------------ MODULE CoreProofs ------------------------------
(***************************************************************************)
(* The core and its output processor: no answer is lost between them, and  *)
(* every answer becomes a frame that answers it.                           *)
(***************************************************************************)
EXTENDS Core, CoreInProofs

-------------------------------------------------------------------------------
(* The parts of the inductive invariant.                                     *)

Index(x) == IF x = "srcMAC" THEN 0
            ELSE IF x = "dstMAC" THEN 1
            ELSE IF x = "srcIP" THEN 2
            ELSE IF x = "dstIP" THEN 3
            ELSE IF x = "srcPort" THEN 4
            ELSE IF x = "dstPort" THEN 5 ELSE 6

\* The least number of cycles in which the core gets from Idle to state t of
\* section x, or a number below it.
Ahead(t, x) == IF t = "Read" THEN 1
               ELSE IF t = "CheckAdmin" THEN 2
               ELSE IF t = "CheckQuery" THEN 3
               ELSE IF t \in AddrStates THEN 4 + Index(x)
               ELSE IF t = "ReplyQueryHeader" THEN 4
               ELSE IF t \in {"ReplyQueryMeta", "ReplyQueryList"} THEN 5 + Index(x)
               ELSE IF t \in PktStates THEN 10
               ELSE IF t \in QueryStates THEN 12
               ELSE IF t \in {"SetDNSReplyHeader", "SetDNSReplyCount"} THEN 11
               ELSE IF t = "SetDefaultMAC" THEN 12
               ELSE IF t = "Send" THEN 13 ELSE 0

\* The cycles since the output processor saw the core's pulse.
Since(o) == IF o = "MetaInfo" THEN 1
            ELSE IF o = "ChecksumCalc" THEN 2
            ELSE IF o = "ChecksumPopulate" THEN 3
            ELSE IF o = "IPHeader" THEN 4
            ELSE IF o = "UDPHeader" THEN 5
            ELSE IF o = "Finalise" THEN 6 ELSE 7

\* A core that has answered is no further on its way to the next answer than the
\* output processor with this one.
Race == /\ os # "Idle" => Ahead(s, k) <= Since(os)
        /\ snd_en => s = "Idle" /\ os = "Idle"

AllWhole == \A p \in Packets : Whole(p)

\* A packet with lengths the output processor can handle.
Sized(p) == /\ p.dnsLength \in Word /\ p.dnsLength >= 1 /\ p.ipLength \in Word
            /\ AllWhole => Whole(p)

Sizes == /\ snd_en \/ s \notin {"Idle", "Read"} => Sized(rd)
         /\ os # "Idle" \/ el_snd_en => Sized(ord)

\* What ChecksumCalc adds up for answer p.
RawSum(p) == 17664 + Swap(p.ipLength % 256) + (64 * 256 + 17)
               + WordSum(p.addr["dstIP"]) + WordSum(p.addr["srcIP"])

\* What has been assembled of the frame, stage by stage.
Meta == /\ sd.srcIP = ord.addr["dstIP"] /\ sd.dstIP = ord.addr["srcIP"]
        /\ sd.srcPort = ord.addr["dstPort"] /\ sd.dstPort = ord.addr["srcPort"]
        /\ sd.ipTTL = 64
Latched == /\ ipLengthbuf = ord.ipLength
           /\ srcIPchecksumbuf = WordSum(ord.addr["dstIP"])
           /\ dstIPchecksumbuf = WordSum(ord.addr["srcIP"])
Counted == /\ sd.dnsPktCnt = PayloadEnd(ord) * 8 - 4
           /\ udpLengthbuf = PayloadEnd(ord) + 8
Summed == /\ sd.ipLength = Spelled(ord.ipLength)
          /\ sd.ipChecksum = 65535 - (Fold(RawSum(ord)) % 65536)
Lengths == sd.udpLength = PayloadEnd(ord) + 8
Finished == /\ sd.srcMAC = ord.addr["dstMAC"] /\ sd.dstMAC = ReplyMAC
          /\ sd.payload = Payload(ord)

Late == {"IPHeader", "UDPHeader", "Finalise", "Send"}

Assembly ==
    /\ os \in {"ChecksumCalc", "ChecksumPopulate"} \cup Late => Meta /\ Latched
    /\ os \in {"ChecksumPopulate"} \cup Late => Counted
    /\ os = "ChecksumPopulate" => chksumbuf = RawSum(ord)
    /\ os = "IPHeader" => chksumbuf = 65535 - (Fold(RawSum(ord)) % 65536)
    /\ os \in {"UDPHeader", "Finalise", "Send"} => Summed
    /\ os \in {"Finalise", "Send"} => Lengths
    /\ os = "Send" => Finished
    /\ el_snd_en => Meta /\ Counted /\ Summed /\ Lengths /\ Finished /\ os = "Idle"

OutInd == OutTypeOK /\ Race /\ Sizes /\ Assembly

CoreInd == IndInv /\ OutInd

-------------------------------------------------------------------------------
(* The race between the two processors.                                      *)

\* A cycle brings the core at most one cycle nearer to an answer; the pulse comes
\* from Send alone.
Arc == /\ Ahead(s', k') <= Ahead(s, k) + 1
       /\ snd_en' => s = "Send" /\ s' = "Idle" /\ rd' = rd
       /\ s = "Idle" => s' \in {"Idle", "Read"}
       /\ s' = "Read" => s = "Idle"
       /\ s = "Read" => rd' = el_rcv_data

\* Ahead is a number of cycles.
LEMMA AheadNat == \A t, x : Ahead(t, x) \in 0 .. 13
<1>1. \A x : Index(x) \in 0 .. 6
  BY DEF Index
<1> QED
  BY <1>1 DEF Ahead

\* So does every action of the core.
LEMMA Arcs == CoreCycle => Arc
<1> SUFFICES ASSUME CoreCycle PROVE Arc
  OBVIOUS
<1>0. Ahead(s, k) \in 0 .. 13
  BY AheadNat
<1> USE <1>0 DEF Arc, NoPulse, Ahead
<1>1. CASE Idle
  BY <1>1 DEF Idle, AddrStates, PktStates, AreaStates, QueryStates, Index
<1>2. CASE Read
  BY <1>2 DEF Read, AddrStates, PktStates, AreaStates, QueryStates, Index
<1>3. CASE CheckAdmin
  BY <1>3 DEF CheckAdmin, AddrStates, PktStates, AreaStates, QueryStates, Index
<1>4. CASE CheckQuery
  BY <1>4 DEF CheckQuery, AddrStates, PktStates, AreaStates, QueryStates, Index
<1>5. CASE Send
  BY <1>5 DEF Send, AddrStates, PktStates, AreaStates, QueryStates, Index
<1>6. CASE ReplyQueryHeader
  BY <1>6 DEF ReplyQueryHeader, AddrStates, PktStates, AreaStates, QueryStates, Index
<1>7. CASE ReplyQueryReplyType
  BY <1>7 DEF ReplyQueryReplyType, AddrStates, PktStates, AreaStates, QueryStates, Index
<1>8. CASE ReplyQueryCountersTot
  BY <1>8 DEF ReplyQueryCountersTot, AddrStates, PktStates, AreaStates, QueryStates, Index
<1>9. CASE ReplyQueryCountersSeg
  BY <1>9 DEF ReplyQueryCountersSeg, AddrStates, PktStates, AreaStates, QueryStates, Index
<1>10. CASE StartHash
  BY <1>10 DEF StartHash, AddrStates, PktStates, AreaStates, QueryStates, Index
<1>11. CASE WaitHash
  BY <1>11 DEF WaitHash, AddrStates, PktStates, AreaStates, QueryStates, Index
<1>12. CASE HashAuth
  BY <1>12 DEF HashAuth, AddrStates, PktStates, AreaStates, QueryStates, Index
<1>13. CASE UpdateReplyType
  BY <1>13 DEF UpdateReplyType, AddrStates, PktStates, AreaStates, QueryStates, Index
<1>14. CASE CheckPkt
  BY <1>14 DEF CheckPkt, AddrStates, PktStates, AreaStates, QueryStates, Index
<1>15. CASE CmpPktCheck
  BY <1>15 DEF CmpPktCheck, AddrStates, PktStates, AreaStates, QueryStates, Index
<1>16. CASE CmpPktDone
  BY <1>16 DEF CmpPktDone, AddrStates, PktStates, AreaStates, QueryStates, Index
<1>17. CASE FilterPkt
  BY <1>17 DEF FilterPkt, AddrStates, PktStates, AreaStates, QueryStates, Index
<1>18. CASE CmpPktArea32
  BY <1>18 DEF CmpPktArea32, CmpPktArea, AddrStates, PktStates, AreaStates, QueryStates, Index
<1>19. CASE CmpPktArea24
  BY <1>19 DEF CmpPktArea24, CmpPktArea, AddrStates, PktStates, AreaStates, QueryStates, Index
<1>20. CASE CmpPktArea16
  BY <1>20 DEF CmpPktArea16, CmpPktArea, AddrStates, PktStates, AreaStates, QueryStates, Index
<1>21. CASE CmpPktArea8
  BY <1>21 DEF CmpPktArea8, CmpPktArea, AddrStates, PktStates, AreaStates, QueryStates, Index
<1>22. CASE SetDNSReplyHeader
  BY <1>22 DEF SetDNSReplyHeader, AddrStates, PktStates, AreaStates, QueryStates, Index
<1>23. CASE SetDNSReplyCount
  BY <1>23 DEF SetDNSReplyCount, AddrStates, PktStates, AreaStates, QueryStates, Index
<1>24. CASE SetDefaultMAC
  BY <1>24 DEF SetDefaultMAC, AddrStates, PktStates, AreaStates, QueryStates, Index
<1>25. ASSUME NEW x \in Sections, ReplyQueryMeta(x) PROVE Arc
  BY <1>25 DEF ReplyQueryMeta, AddrStates, PktStates, AreaStates, QueryStates, Index
<1>26. ASSUME NEW x \in Sections, ReplyQueryList(x) PROVE Arc
  BY <1>26 DEF ReplyQueryList, Sections, AddrSections, After, AddrStates, PktStates, AreaStates, QueryStates, Index
<1>27. ASSUME NEW x \in Sections, UpdateFilterMeta(x) PROVE Arc
  BY <1>27 DEF UpdateFilterMeta, AddrStates, PktStates, AreaStates, QueryStates, Index
<1>28. ASSUME NEW x \in Sections, UpdateFilterList(x) PROVE Arc
  BY <1>28 DEF UpdateFilterList, Sections, AddrSections, After, AddrStates, PktStates, AreaStates, QueryStates, Index
<1>29. ASSUME NEW x \in AddrSections, CheckList(x) PROVE Arc
  BY <1>29 DEF CheckList, Move, Ban, AddrSections, After, AddrStates, PktStates, AreaStates, QueryStates, Index
<1>30. ASSUME NEW x \in AddrSections, CmpList(x) PROVE Arc
  BY <1>30 DEF CmpList, AddrStates, PktStates, AreaStates, QueryStates, Index
<1>31. ASSUME NEW x \in AddrSections, FilterMatch(x) PROVE Arc
  BY <1>31 DEF FilterMatch, Move, Ban, AddrSections, After, AddrStates, PktStates, AreaStates, QueryStates, Index
<1> QED
  BY StepCases, <1>1, <1>2, <1>3, <1>4, <1>5, <1>6, <1>7, <1>8, <1>9, <1>10, <1>11, <1>12, <1>13, <1>14, <1>15, <1>16, <1>17, <1>18, <1>19, <1>20, <1>21, <1>22, <1>23, <1>24, <1>25, <1>26, <1>27, <1>28, <1>29, <1>30, <1>31 DEF SingleStep, CopyStep, ListStep

\* What a cycle of the output processor does to its state.
OutArc == /\ os = "Idle" => /\ os' = IF snd_en THEN "MetaInfo" ELSE "Idle"
                            /\ ord' = IF snd_en THEN rd ELSE ord
          /\ os # "Idle" => ord' = ord
          /\ os \notin {"Idle", "Send"} => os' # "Idle"
          /\ os' # "Idle" /\ os # "Idle" => Since(os') = Since(os) + 1
          /\ os' \in Out!OutStates
          /\ el_snd_en' \in BOOLEAN
          /\ el_snd_en' => os = "Send" /\ os' = "Idle" /\ sd' = sd

\* The stages follow each other.
LEMMA SinceValues ==
  /\ Since("MetaInfo") = 1 /\ Since("ChecksumCalc") = 2 /\ Since("ChecksumPopulate") = 3
  /\ Since("IPHeader") = 4 /\ Since("UDPHeader") = 5 /\ Since("Finalise") = 6
  /\ Since("Send") = 7
  BY DEF Since

\* So does every action of the output processor.
LEMMA OutArcs == Out!OutCycle => OutArc
<1> USE DEF Out!Quiet
<1>1. CASE Out!Idle
  BY <1>1 DEF Out!Idle, OutArc, Out!OutStates
<1>2. CASE Out!MetaInfo
  <2>1. os = "MetaInfo" /\ os' = "ChecksumCalc" /\ ord' = ord /\ el_snd_en' = FALSE
    BY <1>2 DEF Out!MetaInfo
  <2>2. Since(os') = Since(os) + 1
    BY <2>1, SinceValues
  <2> QED
    BY <2>1, <2>2 DEF OutArc, Out!OutStates
<1>3. CASE Out!ChecksumCalc
  <2>1. os = "ChecksumCalc" /\ os' = "ChecksumPopulate" /\ ord' = ord /\ el_snd_en' = FALSE
    BY <1>3 DEF Out!ChecksumCalc
  <2>2. Since(os') = Since(os) + 1
    BY <2>1, SinceValues
  <2> QED
    BY <2>1, <2>2 DEF OutArc, Out!OutStates
<1>4. CASE Out!ChecksumPopulate
  <2>1. os = "ChecksumPopulate" /\ os' = "IPHeader" /\ ord' = ord /\ el_snd_en' = FALSE
    BY <1>4 DEF Out!ChecksumPopulate
  <2>2. Since(os') = Since(os) + 1
    BY <2>1, SinceValues
  <2> QED
    BY <2>1, <2>2 DEF OutArc, Out!OutStates
<1>5. CASE Out!IPHeader
  <2>1. os = "IPHeader" /\ os' = "UDPHeader" /\ ord' = ord /\ el_snd_en' = FALSE
    BY <1>5 DEF Out!IPHeader
  <2>2. Since(os') = Since(os) + 1
    BY <2>1, SinceValues
  <2> QED
    BY <2>1, <2>2 DEF OutArc, Out!OutStates
<1>6. CASE Out!UDPHeader
  <2>1. os = "UDPHeader" /\ os' = "Finalise" /\ ord' = ord /\ el_snd_en' = FALSE
    BY <1>6 DEF Out!UDPHeader
  <2>2. Since(os') = Since(os) + 1
    BY <2>1, SinceValues
  <2> QED
    BY <2>1, <2>2 DEF OutArc, Out!OutStates
<1>7. CASE Out!Finalise
  <2>1. os = "Finalise" /\ os' = "Send" /\ ord' = ord /\ el_snd_en' = FALSE
    BY <1>7 DEF Out!Finalise
  <2>2. Since(os') = Since(os) + 1
    BY <2>1, SinceValues
  <2> QED
    BY <2>1, <2>2 DEF OutArc, Out!OutStates
<1>8. CASE Out!Send
  BY <1>8 DEF Out!Send, OutArc, Out!OutStates
<1> QED
  BY <1>1, <1>2, <1>3, <1>4, <1>5, <1>6, <1>7, <1>8 DEF Out!OutCycle

\* The output processor wins the race.
LEMMA RaceStep == CoreInd /\ Tick => Race'
<1> SUFFICES ASSUME CoreInd, Tick PROVE Race'
  OBVIOUS
<1>1. Arc /\ Race
  BY Arcs DEF CoreInd, OutInd, Tick, Clock
<1>2. /\ os = "Idle" => os' = IF snd_en THEN "MetaInfo" ELSE "Idle"
      /\ os' # "Idle" /\ os # "Idle" => Since(os') = Since(os) + 1
  BY OutArcs DEF Tick, OutArc
<1>3. Ahead(s, k) \in 0 .. 13 /\ Ahead(s', k') \in 0 .. 13
  BY AheadNat
<1>4. Since(os) \in 1 .. 7
  BY DEF Since
<1>5. snd_en' => s' = "Idle" /\ os' = "Idle"
  <2> SUFFICES ASSUME snd_en' PROVE s' = "Idle" /\ os' = "Idle"
    OBVIOUS
  <2>1. s = "Send" /\ s' = "Idle"
    BY <1>1 DEF Arc
  <2>2. Ahead(s, k) = 13
    BY <2>1 DEF Ahead, AddrStates, PktStates, AreaStates, QueryStates
  <2>3. os = "Idle" /\ ~snd_en
    BY <1>1, <1>4, <2>1, <2>2 DEF Race
  <2> QED
    BY <1>2, <2>1, <2>3
<1>6. ASSUME os' # "Idle" PROVE Ahead(s', k') <= Since(os')
  <2>1. CASE os = "Idle"
    <3>1. snd_en /\ os' = "MetaInfo"
      BY <1>2, <1>6, <2>1
    <3>2. s' \in {"Idle", "Read"}
      BY <1>1, <3>1 DEF Race, Arc
    <3>3. Ahead(s', k') <= 1
      BY <3>2 DEF Ahead, AddrStates, PktStates, AreaStates, QueryStates
    <3> QED
      BY <3>1, <3>3 DEF Since
  <2>2. CASE os # "Idle"
    <3>1. Ahead(s', k') <= Ahead(s, k) + 1 /\ Ahead(s, k) <= Since(os)
      BY <1>1, <2>2 DEF Race, Arc
    <3>2. Since(os') = Since(os) + 1
      BY <1>2, <1>6, <2>2
    <3> QED
      BY <1>3, <1>4, <3>1, <3>2
  <2> QED
    BY <2>1, <2>2
<1> QED
  BY <1>5, <1>6 DEF Race

-------------------------------------------------------------------------------
(* The lengths of what is handed over.                                       *)

\* The lengths the core sets itself are 156 and 40, spelled in received order.
LEMMA FixedLengths == Spelled(201) = 156 /\ Spelled(130) = 40
  BY DEF Spelled, Swap

\* A packet as received has lengths that can be handled.
LEMMA SizedReceived == ASSUME NEW p \in Packets PROVE Sized(p)
<1>1. p \in Packet /\ p.dnsLength >= 1 /\ p.dnsLength < 65536 /\ p.ipLength < 65536
  BY PacketsAssumption DEF Received
<1>2. p.dnsLength \in Nat /\ p.ipLength \in Nat
  BY <1>1 DEF Packet
<1>3. p.dnsLength \in Word /\ p.ipLength \in Word
  BY <1>1, <1>2 DEF Word, UpTo
<1>4. AllWhole => Whole(p)
  BY DEF AllWhole
<1> QED
  BY <1>1, <1>3, <1>4 DEF Sized

\* So have probe answers and negative answers.
LEMMA SizedFixed ==
  ASSUME NEW p, \/ p.ipLength = 201 /\ p.dnsLength = 128
                \/ p.ipLength = 130 /\ p.dnsLength = 12
  PROVE  Sized(p)
<1>1. p.dnsLength \in Word /\ p.dnsLength >= 1 /\ p.ipLength \in Word
  BY DEF Word, UpTo
<1>2. p.dnsLength <= PktBytes
  BY FullSizeAssumption
<1>3. Spelled(p.ipLength) = p.dnsLength + 28
  BY FixedLengths
<1> QED
  BY <1>1, <1>2, <1>3 DEF Sized, Whole

\* It depends on the two lengths only.
LEMMA SizedCopy ==
  ASSUME NEW p, NEW q, Sized(p), q.ipLength = p.ipLength, q.dnsLength = p.dnsLength
  PROVE  Sized(q)
<1>1. Whole(p) => Whole(q)
  BY DEF Whole
<1> QED
  BY <1>1 DEF Sized

\* Lengths change in Read and in the two states that set them.
LEMMA LengthFrame == IndInv /\ CoreCycle =>
    \/ rd'.ipLength = rd.ipLength /\ rd'.dnsLength = rd.dnsLength
    \/ s = "Read" /\ rd' = el_rcv_data
    \/ rd'.ipLength = 201 /\ rd'.dnsLength = 128
    \/ rd'.ipLength = 130 /\ rd'.dnsLength = 12
<1> SUFFICES ASSUME IndInv, CoreCycle
             PROVE \/ rd'.ipLength = rd.ipLength /\ rd'.dnsLength = rd.dnsLength
                   \/ s = "Read" /\ rd' = el_rcv_data
                   \/ rd'.ipLength = 201 /\ rd'.dnsLength = 128
                   \/ rd'.ipLength = 130 /\ rd'.dnsLength = 12
  OBVIOUS
<1>0. rd \in Packet
  BY DEF IndInv, TypeOK
<1>1. CASE Read
  BY <1>1 DEF Read
<1>2. CASE ReplyQueryHeader
  BY <1>0, <1>2 DEF ReplyQueryHeader, Packet
<1>3. CASE ReplyQueryReplyType
  BY <1>0, <1>3 DEF ReplyQueryReplyType, Packet
<1>4. CASE ReplyQueryCountersTot
  BY <1>0, <1>4 DEF ReplyQueryCountersTot, Packet
<1>5. CASE ReplyQueryCountersSeg
  BY <1>0, <1>5 DEF ReplyQueryCountersSeg, Packet
<1>6. CASE SetDNSReplyHeader
  BY <1>0, <1>6 DEF SetDNSReplyHeader, Packet
<1>7. CASE SetDNSReplyCount
  BY <1>0, <1>7 DEF SetDNSReplyCount, Packet
<1>8. CASE SetDefaultMAC
  BY <1>0, <1>8 DEF SetDefaultMAC, Packet
<1>9. ASSUME NEW x \in Sections, ReplyQueryMeta(x)
      PROVE rd'.ipLength = rd.ipLength /\ rd'.dnsLength = rd.dnsLength
  BY <1>0, <1>9 DEF ReplyQueryMeta, Packet
<1>10. ASSUME NEW x \in Sections, ReplyQueryList(x)
       PROVE rd'.ipLength = rd.ipLength /\ rd'.dnsLength = rd.dnsLength
  BY <1>0, <1>10 DEF ReplyQueryList, Packet
<1>11. rd' = rd \/ Read \/ ReplyQueryHeader \/ ReplyQueryReplyType
         \/ ReplyQueryCountersTot \/ ReplyQueryCountersSeg
         \/ SetDNSReplyHeader \/ SetDNSReplyCount \/ SetDefaultMAC
         \/ \E x \in Sections : ReplyQueryMeta(x) \/ ReplyQueryList(x)
  BY Frame DEF FrameOK
<1> QED
  BY <1>1, <1>2, <1>3, <1>4, <1>5, <1>6, <1>7, <1>8, <1>9, <1>10, <1>11

\* The packet in work, and the answer, have lengths that can be handled.
LEMMA SizesStep == CoreInd /\ Tick => Sizes'
<1> SUFFICES ASSUME CoreInd, Tick PROVE Sizes'
  OBVIOUS
<1>0. IndInv /\ Sizes /\ Race /\ CoreCycle /\ Arc
  BY Arcs DEF CoreInd, OutInd, Tick, Clock
<1>1. snd_en' \/ s' \notin {"Idle", "Read"} => Sized(rd')
  <2> SUFFICES ASSUME snd_en' \/ s' \notin {"Idle", "Read"} PROVE Sized(rd')
    OBVIOUS
  <2>1. s # "Idle"
    BY <1>0 DEF Arc
  <2>2. CASE s = "Read"
    BY <1>0, <2>2, SizedReceived DEF IndInv, Flow, Arc
  <2>4. CASE s # "Read"
    <3>1. Sized(rd)
      BY <1>0, <2>1, <2>4 DEF Sizes
    <3> QED
      BY <1>0, <2>4, <3>1, LengthFrame, SizedFixed, SizedCopy
  <2> QED
    BY <2>2, <2>4
<1>2. os' # "Idle" \/ el_snd_en' => Sized(ord')
  <2>1. OutArc
    BY OutArcs DEF Tick
  <2> QED
    BY <1>0, <2>1 DEF Sizes, OutArc
<1> QED
  BY <1>1, <1>2 DEF Sizes

-------------------------------------------------------------------------------
(* The frame, stage by stage.                                                *)

\* The output processor uses the operators of the reference.
LEMMA OutNames == /\ \A n : Out!Swap(n) = Swap(n) /\ Out!Spelled(n) = Spelled(n)
                  /\ \A n : Out!Fold(n) = Fold(n)
                  /\ \A p : Out!Payload(p) = Payload(p)
  BY DEF Out!Swap, Swap, Out!Spelled, Spelled, Out!Fold, Fold, Out!Payload, Payload

\* Sixteen bit numbers stay sixteen bits wide.
LEMMA SwapByte == \A b \in UpTo(255) : Swap(b) \in UpTo(255)
  BY DEF Swap, UpTo

\* The low byte of a length is a byte.
LEMMA LowByte == \A n \in Nat : n % 256 \in UpTo(255)
  BY DEF UpTo

\* A length spelled in wire order still fits.
LEMMA SpelledWord == \A n \in Word : Spelled(n) \in Word
<1> SUFFICES ASSUME NEW n \in Word PROVE Spelled(n) \in Word
  OBVIOUS
<1>1. n \in Nat /\ n <= 65535
  BY DEF Word, UpTo
<1>2. n \div 256 \in UpTo(255) /\ n % 256 \in UpTo(255)
  BY <1>1 DEF UpTo
<1>3. Swap(n \div 256) \in UpTo(255) /\ Swap(n % 256) \in UpTo(255)
  BY <1>2, SwapByte
<1> QED
  BY <1>3 DEF Spelled, Word, UpTo

\* So does a folded and complemented sum.
LEMMA FoldWord == \A n \in Nat : 65535 - (Fold(n) % 65536) \in Word
<1> SUFFICES ASSUME NEW n \in Nat PROVE 65535 - (Fold(n) % 65536) \in Word
  OBVIOUS
<1>1. Fold(n) \in Nat
  BY DEF Fold
<1> QED
  BY <1>1 DEF Word, UpTo

\* The words of a header add up to less than 2^19.
LEMMA RawSumBound ==
  ASSUME NEW p \in Packet PROVE RawSum(p) \in TotalSum
<1>1. p.addr["dstIP"] \in Addr /\ p.addr["srcIP"] \in Addr /\ p.ipLength \in Nat
  BY DEF Packet, AddrSections
<1>2. /\ WordSum(p.addr["dstIP"]) \in Nat /\ WordSum(p.addr["dstIP"]) <= 131070
      /\ WordSum(p.addr["srcIP"]) \in Nat /\ WordSum(p.addr["srcIP"]) <= 131070
  BY <1>1, WordSumAssumption DEF PairSum, UpTo
<1>3. Swap(p.ipLength % 256) \in UpTo(255)
  BY <1>1, LowByte, SwapByte
<1> QED
  BY <1>2, <1>3 DEF RawSum, TotalSum, UpTo

\* The payload that is kept of a packet is neither empty nor longer than 128 bytes.
LEMMA PayloadSize ==
  ASSUME NEW p, Sized(p)
  PROVE  /\ PayloadEnd(p) \in Nat /\ PayloadEnd(p) >= 1 /\ PayloadEnd(p) <= 128
         /\ p.dnsLength >= 128 => PayloadEnd(p) = 128
         /\ ~(p.dnsLength >= 128) => PayloadEnd(p) = p.dnsLength
  BY FullSizeAssumption DEF Sized, PayloadEnd, Word, UpTo

\* Writing one field keeps a frame well typed.
LEMMA SndField ==
  ASSUME NEW r \in SndData, NEW a \in Addr, NEW w \in Word
  PROVE  /\ [r EXCEPT !.srcMAC = a] \in SndData /\ [r EXCEPT !.dstMAC = a] \in SndData
         /\ [r EXCEPT !.srcIP = a] \in SndData /\ [r EXCEPT !.dstIP = a] \in SndData
         /\ [r EXCEPT !.srcPort = a] \in SndData /\ [r EXCEPT !.dstPort = a] \in SndData
         /\ [r EXCEPT !.ipTTL = 64] \in SndData
         /\ [r EXCEPT !.ipLength = w] \in SndData /\ [r EXCEPT !.ipChecksum = w] \in SndData
         /\ [r EXCEPT !.udpLength = w] \in SndData
<1>1. [r EXCEPT !.srcMAC = a] \in SndData /\ [r EXCEPT !.dstMAC = a] \in SndData
  BY DEF SndData
<1>2. [r EXCEPT !.srcIP = a] \in SndData /\ [r EXCEPT !.dstIP = a] \in SndData
  BY DEF SndData
<1>3. [r EXCEPT !.srcPort = a] \in SndData /\ [r EXCEPT !.dstPort = a] \in SndData
  BY DEF SndData
<1>4. [r EXCEPT !.ipTTL = 64] \in SndData
  BY DEF SndData
<1>5. [r EXCEPT !.ipLength = w] \in SndData /\ [r EXCEPT !.ipChecksum = w] \in SndData
  BY DEF SndData
<1>6. [r EXCEPT !.udpLength = w] \in SndData
  BY DEF SndData
<1> QED
  BY <1>1, <1>2, <1>3, <1>4, <1>5, <1>6

\* What each stage may rely on.
LEMMA OutFacts == CoreInd =>
    /\ OutTypeOK /\ Assembly
    /\ ord \in Packet /\ sd \in SndData
    /\ os # "Idle" => Sized(ord)
  BY DEF CoreInd, OutInd, OutTypeOK, Sizes

\* Waiting, or taking an answer over.
LEMMA FrameIdle == CoreInd /\ Out!Idle => OutTypeOK' /\ Assembly'
<1> SUFFICES ASSUME CoreInd, Out!Idle PROVE OutTypeOK' /\ Assembly'
  OBVIOUS
<1>1. /\ el_snd_en' = FALSE /\ sd' = sd /\ chksumbuf' = chksumbuf
      /\ ipLengthbuf' = ipLengthbuf /\ udpLengthbuf' = udpLengthbuf
      /\ srcIPchecksumbuf' = srcIPchecksumbuf /\ dstIPchecksumbuf' = dstIPchecksumbuf
  BY DEF Out!Idle, Out!Quiet, Out!bufs
<1>2. os' \in {"Idle", "MetaInfo"} /\ ord' \in {rd, ord}
  BY DEF Out!Idle
<1>3. ord' \in Packet
  BY <1>2, OutFacts DEF CoreInd, IndInv, TypeOK
<1>4. Assembly'
  BY <1>1, <1>2 DEF Assembly, Late
<1>5. OutTypeOK'
  BY <1>1, <1>2, <1>3, OutFacts DEF OutTypeOK, Out!OutStates
<1> QED
  BY <1>4, <1>5

\* Addresses, ports and lifetime are written; the lengths and sums are latched.
LEMMA FrameMetaInfo == CoreInd /\ Out!MetaInfo => OutTypeOK' /\ Assembly'
<1> SUFFICES ASSUME CoreInd, Out!MetaInfo PROVE OutTypeOK' /\ Assembly'
  OBVIOUS
<1>0. ord \in Packet /\ sd \in SndData /\ OutTypeOK /\ Sized(ord)
  BY OutFacts DEF Out!MetaInfo
<1>1. /\ os' = "ChecksumCalc" /\ el_snd_en' = FALSE /\ ord' = ord
      /\ chksumbuf' = chksumbuf /\ udpLengthbuf' = udpLengthbuf
      /\ ipLengthbuf' = ord.ipLength
      /\ srcIPchecksumbuf' = WordSum(ord.addr["dstIP"])
      /\ dstIPchecksumbuf' = WordSum(ord.addr["srcIP"])
  BY DEF Out!MetaInfo, Out!Quiet
<1>2. \A x \in AddrSections : ord.addr[x] \in Addr
  BY <1>0 DEF Packet
<1>3. /\ sd' \in SndData
      /\ sd'.srcIP = ord.addr["dstIP"] /\ sd'.dstIP = ord.addr["srcIP"]
      /\ sd'.srcPort = ord.addr["dstPort"] /\ sd'.dstPort = ord.addr["srcPort"]
      /\ sd'.ipTTL = 64
  <2>1. sd' = [sd EXCEPT !.srcIP = ord.addr["dstIP"], !.dstIP = ord.addr["srcIP"],
                         !.srcPort = ord.addr["dstPort"], !.dstPort = ord.addr["srcPort"],
                         !.ipTTL = 64]
    BY DEF Out!MetaInfo
  <2>2. /\ ord.addr["dstIP"] \in Addr /\ ord.addr["srcIP"] \in Addr
        /\ ord.addr["dstPort"] \in Addr /\ ord.addr["srcPort"] \in Addr
    BY <1>2 DEF AddrSections
  <2>3. sd' \in SndData
    <3> DEFINE r1 == [sd EXCEPT !.srcIP = ord.addr["dstIP"]]
               r2 == [r1 EXCEPT !.dstIP = ord.addr["srcIP"]]
               r3 == [r2 EXCEPT !.srcPort = ord.addr["dstPort"]]
               r4 == [r3 EXCEPT !.dstPort = ord.addr["srcPort"]]
               r5 == [r4 EXCEPT !.ipTTL = 64]
    <3>0. 0 \in Word
      BY DEF Word, UpTo
    <3>1. r1 \in SndData
      BY <1>0, <2>2, <3>0, SndField
    <3>2. r2 \in SndData
      <4> HIDE DEF r1
      <4> QED
        BY <2>2, <3>0, <3>1, SndField
    <3>3. r3 \in SndData
      <4> HIDE DEF r2
      <4> QED
        BY <2>2, <3>0, <3>2, SndField
    <3>4. r4 \in SndData
      <4> HIDE DEF r3
      <4> QED
        BY <2>2, <3>0, <3>3, SndField
    <3>5. r5 \in SndData
      <4> HIDE DEF r4
      <4> QED
        BY <2>2, <3>0, <3>4, SndField
    <3>6. sd' = r5
      BY <2>1
    <3> QED
      BY <3>5, <3>6
  <2>4. /\ sd'.srcIP = ord.addr["dstIP"] /\ sd'.dstIP = ord.addr["srcIP"]
        /\ sd'.srcPort = ord.addr["dstPort"] /\ sd'.dstPort = ord.addr["srcPort"]
        /\ sd'.ipTTL = 64
    BY <1>0, <2>1 DEF SndData
  <2> QED
    BY <2>3, <2>4
<1>4. Meta' /\ Latched'
  BY <1>1, <1>3 DEF Meta, Latched
<1>5. Assembly'
  BY <1>1, <1>4 DEF Assembly, Late
<1>6. srcIPchecksumbuf' \in PairSum /\ dstIPchecksumbuf' \in PairSum
  BY <1>1, <1>2, WordSumAssumption DEF AddrSections
<1>7. ipLengthbuf' \in Word
  BY <1>0, <1>1 DEF Sized
<1>8. OutTypeOK'
  BY <1>0, <1>1, <1>3, <1>6, <1>7 DEF OutTypeOK, Out!OutStates
<1> QED
  BY <1>5, <1>8

\* The sum is formed and the payload is measured.
LEMMA FrameChecksumCalc == CoreInd /\ Out!ChecksumCalc => OutTypeOK' /\ Assembly'
<1> SUFFICES ASSUME CoreInd, Out!ChecksumCalc PROVE OutTypeOK' /\ Assembly'
  OBVIOUS
<1>0. /\ ord \in Packet /\ sd \in SndData /\ OutTypeOK /\ Sized(ord)
      /\ Meta /\ Latched
  BY OutFacts DEF Out!ChecksumCalc, Assembly
<1>1. /\ os' = "ChecksumPopulate" /\ el_snd_en' = FALSE /\ ord' = ord
      /\ ipLengthbuf' = ipLengthbuf
      /\ srcIPchecksumbuf' = srcIPchecksumbuf /\ dstIPchecksumbuf' = dstIPchecksumbuf
  BY DEF Out!ChecksumCalc, Out!Quiet
<1>2. chksumbuf' = RawSum(ord)
  <2>1. chksumbuf' = 17664 + Swap(ipLengthbuf % 256) + (sd.ipTTL * 256 + 17)
                       + srcIPchecksumbuf + dstIPchecksumbuf
    BY OutNames DEF Out!ChecksumCalc
  <2> QED
    BY <1>0, <2>1 DEF RawSum, Meta, Latched
<1>3. /\ sd' = [sd EXCEPT !.dnsPktCnt = PayloadEnd(ord) * 8 - 4]
      /\ udpLengthbuf' = PayloadEnd(ord) + 8
  <2>1. CASE ord.dnsLength >= 128
    <3>1. PayloadEnd(ord) = 128
      BY <1>0, <2>1, PayloadSize
    <3>2. sd' = [sd EXCEPT !.dnsPktCnt = 1020] /\ udpLengthbuf' = 136
      BY <2>1 DEF Out!ChecksumCalc
    <3>3. PayloadEnd(ord) * 8 - 4 = 1020 /\ PayloadEnd(ord) + 8 = 136
      BY <3>1
    <3> QED
      BY <3>2, <3>3
  <2>2. CASE ~(ord.dnsLength >= 128)
    <3>1. PayloadEnd(ord) = ord.dnsLength
      BY <1>0, <2>2, PayloadSize
    <3>2. sd' = [sd EXCEPT !.dnsPktCnt = ord.dnsLength * 8 - 4]
            /\ udpLengthbuf' = ord.dnsLength + 8
      BY <2>2 DEF Out!ChecksumCalc
    <3> QED
      BY <3>1, <3>2
  <2> QED
    BY <2>1, <2>2
<1>4. PayloadEnd(ord) * 8 - 4 \in UpTo(1023) /\ PayloadEnd(ord) + 8 \in Word
  BY <1>0, PayloadSize DEF UpTo, Word
<1>5. /\ sd' \in SndData /\ sd'.dnsPktCnt = PayloadEnd(ord) * 8 - 4
      /\ sd'.srcIP = sd.srcIP /\ sd'.dstIP = sd.dstIP
      /\ sd'.srcPort = sd.srcPort /\ sd'.dstPort = sd.dstPort /\ sd'.ipTTL = sd.ipTTL
  <2> DEFINE e == PayloadEnd(ord) * 8 - 4
  <2>1. sd' = [sd EXCEPT !.dnsPktCnt = e] /\ e \in UpTo(1023)
    BY <1>3, <1>4
  <2> HIDE DEF e
  <2>2. /\ sd' \in SndData /\ sd'.dnsPktCnt = e
        /\ sd'.srcIP = sd.srcIP /\ sd'.dstIP = sd.dstIP
        /\ sd'.srcPort = sd.srcPort /\ sd'.dstPort = sd.dstPort /\ sd'.ipTTL = sd.ipTTL
    BY <1>0, <2>1 DEF SndData
  <2> QED
    BY <2>2 DEF e
<1>6. Meta' /\ Latched'
  BY <1>0, <1>1, <1>5 DEF Meta, Latched
<1>7. Counted'
  BY <1>1, <1>3, <1>5 DEF Counted
<1>8. chksumbuf' = RawSum(ord')
  BY <1>1, <1>2
<1>9. Assembly'
  BY <1>1, <1>6, <1>7, <1>8 DEF Assembly, Late
<1>10. chksumbuf' \in TotalSum
  BY <1>0, <1>2, RawSumBound
<1>11. udpLengthbuf' \in Word /\ sd' \in SndData
  BY <1>3, <1>4, <1>5
<1>12. OutTypeOK'
  BY <1>0, <1>1, <1>10, <1>11 DEF OutTypeOK, Out!OutStates
<1> QED
  BY <1>9, <1>12

\* The sum is folded and complemented.
LEMMA FrameChecksumPopulate == CoreInd /\ Out!ChecksumPopulate => OutTypeOK' /\ Assembly'
<1> SUFFICES ASSUME CoreInd, Out!ChecksumPopulate PROVE OutTypeOK' /\ Assembly'
  OBVIOUS
<1>0. /\ ord \in Packet /\ OutTypeOK /\ Meta /\ Latched /\ Counted
      /\ chksumbuf = RawSum(ord)
  BY OutFacts DEF Out!ChecksumPopulate, Assembly
<1>1. /\ os' = "IPHeader" /\ el_snd_en' = FALSE /\ ord' = ord /\ sd' = sd
      /\ ipLengthbuf' = ipLengthbuf /\ udpLengthbuf' = udpLengthbuf
      /\ srcIPchecksumbuf' = srcIPchecksumbuf /\ dstIPchecksumbuf' = dstIPchecksumbuf
  BY DEF Out!ChecksumPopulate, Out!Quiet, Out!bufs
<1>2. chksumbuf' = 65535 - (Fold(RawSum(ord)) % 65536)
  BY <1>0, OutNames DEF Out!ChecksumPopulate
<1>3. Meta' /\ Latched' /\ Counted'
  BY <1>0, <1>1 DEF Meta, Latched, Counted
<1>4. chksumbuf' = 65535 - (Fold(RawSum(ord')) % 65536)
  BY <1>1, <1>2
<1>5. Assembly'
  BY <1>1, <1>3, <1>4 DEF Assembly, Late
<1>6. chksumbuf' \in TotalSum
  <2>1. RawSum(ord) \in Nat
    BY <1>0, RawSumBound DEF TotalSum, UpTo
  <2>2. chksumbuf' \in Word
    BY <1>2, <2>1, FoldWord
  <2> QED
    BY <2>2 DEF Word, TotalSum, UpTo
<1>7. OutTypeOK'
  BY <1>0, <1>1, <1>6 DEF OutTypeOK, Out!OutStates
<1> QED
  BY <1>5, <1>7

\* The IP length and the checksum are written.
LEMMA FrameIPHeader == CoreInd /\ Out!IPHeader => OutTypeOK' /\ Assembly'
<1> SUFFICES ASSUME CoreInd, Out!IPHeader PROVE OutTypeOK' /\ Assembly'
  OBVIOUS
<1>0. /\ ord \in Packet /\ sd \in SndData /\ OutTypeOK /\ Meta /\ Latched /\ Counted
      /\ chksumbuf = 65535 - (Fold(RawSum(ord)) % 65536)
  BY OutFacts DEF Out!IPHeader, Assembly, Late
<1>1. /\ os' = "UDPHeader" /\ el_snd_en' = FALSE /\ ord' = ord /\ chksumbuf' = chksumbuf
      /\ ipLengthbuf' = ipLengthbuf /\ udpLengthbuf' = udpLengthbuf
      /\ srcIPchecksumbuf' = srcIPchecksumbuf /\ dstIPchecksumbuf' = dstIPchecksumbuf
  BY DEF Out!IPHeader, Out!Quiet, Out!bufs
<1>2. sd' = [sd EXCEPT !.ipLength = Spelled(ipLengthbuf), !.ipChecksum = chksumbuf]
  <2>1. sd' = [sd EXCEPT !.ipLength = Out!Spelled(ipLengthbuf), !.ipChecksum = chksumbuf]
    BY DEF Out!IPHeader
  <2>2. Out!Spelled(ipLengthbuf) = Spelled(ipLengthbuf)
    BY OutNames
  <2> QED
    BY <2>1, <2>2
<1>3. Spelled(ipLengthbuf) \in Word
  BY <1>0, SpelledWord DEF OutTypeOK
<1>4. chksumbuf \in Word
  <2>1. RawSum(ord) \in Nat
    BY <1>0, RawSumBound DEF TotalSum, UpTo
  <2> QED
    BY <1>0, <2>1, FoldWord
<1>5. sd' \in SndData
  <2> DEFINE r == [sd EXCEPT !.ipLength = Spelled(ipLengthbuf)]
  <2>0. sd \in SndData /\ AdminMAC \in Addr
    BY OutFacts, AddrAssumption
  <2>1. r \in SndData
    BY <1>3, <2>0, SndField
  <2>2. sd' = [r EXCEPT !.ipChecksum = chksumbuf]
    BY <1>2
  <2> HIDE DEF r
  <2> QED
    BY <1>4, <2>0, <2>1, <2>2, SndField
<1>6. /\ sd'.ipLength = Spelled(ipLengthbuf) /\ sd'.ipChecksum = chksumbuf
      /\ sd'.srcIP = sd.srcIP /\ sd'.dstIP = sd.dstIP /\ sd'.dnsPktCnt = sd.dnsPktCnt
      /\ sd'.srcPort = sd.srcPort /\ sd'.dstPort = sd.dstPort /\ sd'.ipTTL = sd.ipTTL
  BY <1>0, <1>2 DEF SndData
<1>7. Meta' /\ Latched' /\ Counted'
  BY <1>0, <1>1, <1>6 DEF Meta, Latched, Counted
<1>8. Summed'
  BY <1>0, <1>1, <1>6 DEF Summed, Latched
<1>9. Assembly'
  BY <1>1, <1>7, <1>8 DEF Assembly, Late
<1>10. OutTypeOK'
  BY <1>1, <1>5, OutFacts DEF OutTypeOK, Out!OutStates
<1> QED
  BY <1>9, <1>10

\* The UDP length is written.
LEMMA FrameUDPHeader == CoreInd /\ Out!UDPHeader => OutTypeOK' /\ Assembly'
<1> SUFFICES ASSUME CoreInd, Out!UDPHeader PROVE OutTypeOK' /\ Assembly'
  OBVIOUS
<1>0. ord \in Packet /\ sd \in SndData /\ OutTypeOK /\ Meta /\ Latched /\ Counted /\ Summed
  BY OutFacts DEF Out!UDPHeader, Assembly, Late
<1>1. /\ os' = "Finalise" /\ el_snd_en' = FALSE /\ ord' = ord /\ chksumbuf' = chksumbuf
      /\ ipLengthbuf' = ipLengthbuf /\ udpLengthbuf' = udpLengthbuf
      /\ srcIPchecksumbuf' = srcIPchecksumbuf /\ dstIPchecksumbuf' = dstIPchecksumbuf
  BY DEF Out!UDPHeader, Out!Quiet, Out!bufs
<1>2. sd' = [sd EXCEPT !.udpLength = udpLengthbuf]
  BY DEF Out!UDPHeader
<1>3. sd' \in SndData
  <2>1. udpLengthbuf \in Word
    BY <1>0 DEF OutTypeOK
  <2> QED
    BY <1>0, <1>2, <2>1, AddrAssumption, SndField
<1>4. /\ sd'.udpLength = udpLengthbuf
      /\ sd'.ipLength = sd.ipLength /\ sd'.ipChecksum = sd.ipChecksum
      /\ sd'.srcIP = sd.srcIP /\ sd'.dstIP = sd.dstIP /\ sd'.dnsPktCnt = sd.dnsPktCnt
      /\ sd'.srcPort = sd.srcPort /\ sd'.dstPort = sd.dstPort /\ sd'.ipTTL = sd.ipTTL
  BY <1>0, <1>2 DEF SndData
<1>5. Meta' /\ Latched' /\ Counted'
  BY <1>0, <1>1, <1>4 DEF Meta, Latched, Counted
<1>6. Summed'
  BY <1>0, <1>1, <1>4 DEF Summed
<1>7. Lengths'
  BY <1>0, <1>1, <1>4 DEF Lengths, Counted
<1>8. Assembly'
  BY <1>1, <1>5, <1>6, <1>7 DEF Assembly, Late
<1>9. OutTypeOK'
  BY <1>0, <1>1, <1>3 DEF OutTypeOK, Out!OutStates
<1> QED
  BY <1>8, <1>9

\* The MAC addresses and the payload are written.
LEMMA FrameFinalise == CoreInd /\ Out!Finalise => OutTypeOK' /\ Assembly'
<1> SUFFICES ASSUME CoreInd, Out!Finalise PROVE OutTypeOK' /\ Assembly'
  OBVIOUS
<1>0. /\ ord \in Packet /\ sd \in SndData /\ OutTypeOK
      /\ Meta /\ Latched /\ Counted /\ Summed /\ Lengths
  BY OutFacts DEF Out!Finalise, Assembly, Late
<1>1. /\ os' = "Send" /\ el_snd_en' = FALSE /\ ord' = ord /\ chksumbuf' = chksumbuf
      /\ ipLengthbuf' = ipLengthbuf /\ udpLengthbuf' = udpLengthbuf
      /\ srcIPchecksumbuf' = srcIPchecksumbuf /\ dstIPchecksumbuf' = dstIPchecksumbuf
  BY DEF Out!Finalise, Out!Quiet, Out!bufs
<1>2. sd' = [sd EXCEPT !.srcMAC = ord.addr["dstMAC"], !.dstMAC = ReplyMAC,
                       !.payload = Payload(ord)]
  <2>1. sd' = [sd EXCEPT !.srcMAC = ord.addr["dstMAC"], !.dstMAC = ReplyMAC,
                         !.payload = Out!Payload(ord)]
    BY DEF Out!Finalise
  <2>2. Out!Payload(ord) = Payload(ord)
    BY OutNames
  <2> QED
    BY <2>1, <2>2
<1>3. sd' \in SndData
  <2> DEFINE r1 == [sd EXCEPT !.srcMAC = ord.addr["dstMAC"]]
             r2 == [r1 EXCEPT !.dstMAC = ReplyMAC]
  <2>0. 0 \in Word
    BY DEF Word, UpTo
  <2>1. r1 \in SndData
    BY <1>0, <2>0, SndField DEF Packet, AddrSections
  <2>2. r2 \in SndData
    <3> HIDE DEF r1
    <3> QED
      BY <2>0, <2>1, SndField, FrameAssumption
  <2>3. Payload(ord) \in [dnsPkt : [PktIndex -> Byte], cfg : RawFilter,
                          stats : Counters, mac : Tag]
    BY <1>0 DEF Payload, Packet
  <2>4. sd' = [r2 EXCEPT !.payload = Payload(ord)]
    BY <1>2
  <2> HIDE DEF r2
  <2> QED
    BY <2>2, <2>3, <2>4 DEF SndData
<1>4. /\ sd'.srcMAC = ord.addr["dstMAC"] /\ sd'.dstMAC = ReplyMAC /\ sd'.payload = Payload(ord)
      /\ sd'.ipLength = sd.ipLength /\ sd'.ipChecksum = sd.ipChecksum
      /\ sd'.srcIP = sd.srcIP /\ sd'.dstIP = sd.dstIP /\ sd'.dnsPktCnt = sd.dnsPktCnt
      /\ sd'.srcPort = sd.srcPort /\ sd'.dstPort = sd.dstPort /\ sd'.ipTTL = sd.ipTTL
      /\ sd'.udpLength = sd.udpLength
  BY <1>0, <1>2 DEF SndData
<1>5. Meta' /\ Latched' /\ Counted'
  BY <1>0, <1>1, <1>4 DEF Meta, Latched, Counted
<1>6. Summed'
  BY <1>0, <1>1, <1>4 DEF Summed
<1>7. Lengths' /\ Finished'
  BY <1>0, <1>1, <1>4 DEF Lengths, Finished
<1>8. Assembly'
  BY <1>1, <1>5, <1>6, <1>7 DEF Assembly, Late
<1>9. OutTypeOK'
  BY <1>0, <1>1, <1>3 DEF OutTypeOK, Out!OutStates
<1> QED
  BY <1>8, <1>9

\* The frame is declared valid.
LEMMA FrameSend == CoreInd /\ Out!Send => OutTypeOK' /\ Assembly'
<1> SUFFICES ASSUME CoreInd, Out!Send PROVE OutTypeOK' /\ Assembly'
  OBVIOUS
<1>0. /\ ord \in Packet /\ sd \in SndData /\ OutTypeOK
      /\ Meta /\ Counted /\ Summed /\ Lengths /\ Finished
  BY OutFacts DEF Out!Send, Assembly, Late
<1>1. /\ os' = "Idle" /\ el_snd_en' = TRUE /\ ord' = ord /\ sd' = sd /\ chksumbuf' = chksumbuf
      /\ ipLengthbuf' = ipLengthbuf /\ udpLengthbuf' = udpLengthbuf
      /\ srcIPchecksumbuf' = srcIPchecksumbuf /\ dstIPchecksumbuf' = dstIPchecksumbuf
  BY DEF Out!Send, Out!bufs
<1>2. Meta' /\ Counted' /\ Summed' /\ Lengths' /\ Finished'
  BY <1>0, <1>1 DEF Meta, Counted, Summed, Lengths, Finished
<1>3. Assembly'
  BY <1>1, <1>2 DEF Assembly, Late
<1>4. OutTypeOK'
  BY <1>0, <1>1 DEF OutTypeOK, Out!OutStates
<1> QED
  BY <1>3, <1>4

-------------------------------------------------------------------------------
(* The invariant.                                                            *)

\* It holds of the initial states.
LEMMA CoreInitInd == CoreInit => CoreInd
<1> SUFFICES ASSUME CoreInit PROVE CoreInd
  OBVIOUS
<1>1. IndInv /\ s = "Idle" /\ snd_en = FALSE /\ rd \in Packet
  BY InitInd DEF CoreInit, Init, IndInv, TypeOK
<1>2. /\ os = "Idle" /\ ord = rd /\ sd = NoFrame /\ el_snd_en = FALSE /\ chksumbuf = 0
      /\ ipLengthbuf = 0 /\ udpLengthbuf = 0 /\ srcIPchecksumbuf = 0 /\ dstIPchecksumbuf = 0
  BY DEF CoreInit, Out!Init
<1>3. 0 \in Word /\ 0 \in PairSum /\ 0 \in TotalSum
  BY DEF Word, PairSum, TotalSum, UpTo
<1>4. OutTypeOK
  BY <1>1, <1>2, <1>3, FrameAssumption DEF OutTypeOK, Out!OutStates
<1>5. Race /\ Sizes /\ Assembly
  BY <1>1, <1>2 DEF Race, Sizes, Assembly, Late
<1> QED
  BY <1>1, <1>4, <1>5 DEF CoreInd, OutInd

\* A cycle keeps it.
LEMMA TickStep == CoreInd /\ Tick => CoreInd'
<1> SUFFICES ASSUME CoreInd, Tick PROVE CoreInd'
  OBVIOUS
<1>1. IndInv'
  BY TypeStep, FlowStep, HashStep, CopyStepInv, CountStep, ScanStep DEF Tick, CoreInd, IndInv
<1>2. OutTypeOK' /\ Assembly'
  BY FrameIdle, FrameMetaInfo, FrameChecksumCalc, FrameChecksumPopulate, FrameIPHeader,
     FrameUDPHeader, FrameFinalise, FrameSend DEF Tick, Out!OutCycle
<1>3. Race' /\ Sizes'
  BY RaceStep, SizesStep
<1> QED
  BY <1>1, <1>2, <1>3 DEF CoreInd, OutInd

\* Arrivals do not reach the output processor, nor what it looks at.
LEMMA OutSame ==
  ASSUME CoreInd, UNCHANGED outvars, UNCHANGED <<s, k, rd, snd_en>>
  PROVE  OutInd'
<1>1. OutTypeOK'
  BY DEF CoreInd, OutInd, OutTypeOK, outvars
<1>2. Race'
  BY DEF CoreInd, OutInd, Race, outvars
<1>3. Sizes'
  BY DEF CoreInd, OutInd, Sizes, outvars
<1>4. Assembly'
  BY DEF CoreInd, OutInd, Assembly, Meta, Latched, Counted, Summed, Lengths, Finished, outvars
<1> QED
  BY <1>1, <1>2, <1>3, <1>4 DEF OutInd

\* Every behaviour of the two processors satisfies the invariant.
THEOREM CoreInvariance == CoreSpec => []CoreInd
<1>1. CoreInit => CoreInd
  BY CoreInitInd
<1>2. CoreInd /\ [CoreNext]_corevars => CoreInd'
  <2>1. ASSUME CoreInd, NEW p \in Packets, Arrival(p) PROVE CoreInd'
    <3>1. IndInv'
      BY <2>1, OfferStep DEF Arrival, CoreInd
    <3>2. UNCHANGED outvars /\ UNCHANGED <<s, k, rd, snd_en>>
      BY <2>1 DEF Arrival, Offer, core
    <3> QED
      BY <2>1, <3>1, <3>2, OutSame DEF CoreInd
  <2>2. ASSUME CoreInd, UNCHANGED corevars PROVE CoreInd'
    <3>1. IndInv'
      BY <2>2, StutterStep DEF corevars, CoreInd
    <3>2. UNCHANGED outvars /\ UNCHANGED <<s, k, rd, snd_en>>
      BY <2>2 DEF corevars, vars, core
    <3> QED
      BY <2>2, <3>1, <3>2, OutSame DEF CoreInd
  <2> QED
    BY <2>1, <2>2, TickStep DEF CoreNext
<1> QED
  BY <1>1, <1>2, PTL DEF CoreSpec

\* The output processor has always finished with one answer when the next one is
\* handed over: for lists of any length, payloads and hash latencies.
THEOREM AnswerIsTaken == CoreSpec => []AnswerTaken
<1>1. CoreInd => AnswerTaken
  BY DEF CoreInd, OutInd, Race, AnswerTaken
<1> QED
  BY <1>1, CoreInvariance, PTL

\* No field of a frame and no buffer of the checksum overflows.
THEOREM OutTypeCorrect == CoreSpec => []OutTypeOK
<1>1. CoreInd => OutTypeOK
  BY DEF CoreInd, OutInd
<1> QED
  BY <1>1, CoreInvariance, PTL

\* The lengths of a frame agree, whichever way the packet took through the core.
THEOREM LengthsAlwaysAgree == CoreSpec => []LengthsAgree
<1>1. CoreInd => LengthsAgree
  <2> SUFFICES ASSUME CoreInd, AllWhole, el_snd_en
               PROVE /\ sd.ipLength = sd.udpLength + 20
                     /\ sd.dnsPktCnt = (sd.udpLength - 8) * 8 - 4
    BY DEF LengthsAgree, AllWhole
  <2>1. Whole(ord) /\ Sized(ord)
    BY DEF CoreInd, OutInd, Sizes, Sized
  <2>2. Counted /\ Summed /\ Lengths
    BY DEF CoreInd, OutInd, Assembly
  <2>3. PayloadEnd(ord) = ord.dnsLength /\ ord.dnsLength \in Nat
    BY <2>1, FullSizeAssumption DEF Whole, Sized, PayloadEnd, Word, UpTo
  <2>4. sd.ipLength = ord.dnsLength + 28 /\ sd.udpLength = ord.dnsLength + 8
    BY <2>1, <2>2, <2>3 DEF Whole, Summed, Lengths
  <2>5. sd.dnsPktCnt = ord.dnsLength * 8 - 4
    BY <2>2, <2>3 DEF Counted
  <2> QED
    BY <2>3, <2>4, <2>5
<1> QED
  BY <1>1, CoreInvariance, PTL

-------------------------------------------------------------------------------
(* Refinement of Responder.                                                  *)

\* The answer handed over and not yet sent, and the frame being sent.
Pend == IF snd_en THEN rd ELSE IF os # "Idle" THEN ord ELSE None
Sent == IF el_snd_en THEN sd ELSE None

\* Responder speaks of the same packets and frames.
LEMMA RespNames ==
  /\ Resp!Packet = Packet /\ Resp!SndData = SndData
  /\ \A fr, p : Resp!Answers(fr, p) = Answers(fr, p)
<1>1. Resp!Packet = Packet
  BY DEF Resp!Packet, Packet, Resp!AddrSections, AddrSections, Resp!PktIndex, PktIndex,
         Resp!Byte, Byte, Resp!RawFilter, RawFilter, Resp!FilterWith, FilterWith,
         Resp!Counters, Counters, Resp!Sections, Sections, Resp!Entries, Entries,
         Resp!ItemIndex, ItemIndex
<1>2. Resp!SndData = SndData
  BY DEF Resp!SndData, SndData, Resp!AddrSections, AddrSections, Resp!PktIndex, PktIndex,
         Resp!Byte, Byte, Resp!RawFilter, RawFilter, Resp!FilterWith, FilterWith,
         Resp!Counters, Counters, Resp!Sections, Sections, Resp!Entries, Entries,
         Resp!ItemIndex, ItemIndex, Resp!Word, Word, Resp!UpTo, UpTo
<1>3. \A fr, p : Resp!Answers(fr, p) = Answers(fr, p)
  BY DEF Resp!Answers, Answers, Resp!Spelled, Spelled, Resp!Swap, Swap, Resp!PayloadEnd,
         PayloadEnd, Resp!Payload, Payload, Resp!HeaderSum, HeaderSum, Resp!Fold, Fold
<1> QED
  BY <1>1, <1>2, <1>3

\* A length below 256 has its low byte only.
LEMMA ShortLength ==
  ASSUME NEW n \in Word, Spelled(n) < 256 PROVE Spelled(n) = Swap(n % 256)
<1>1. n \in Nat /\ n <= 65535
  BY DEF Word, UpTo
<1>2. n \div 256 \in UpTo(255) /\ n % 256 \in UpTo(255)
  BY <1>1 DEF UpTo
<1>3. /\ Swap(n \div 256) \in Nat /\ Swap(n % 256) \in Nat
  BY <1>2, SwapByte DEF UpTo
<1> HIDE DEF Swap
<1>4. Swap(n \div 256) * 256 + Swap(n % 256) < 256
  BY DEF Spelled
<1>5. Swap(n \div 256) = 0
  BY <1>3, <1>4
<1> QED
  BY <1>3, <1>5 DEF Spelled

\* A frame that is complete answers the packet it was made from.
LEMMA CompleteAnswers ==
  ASSUME CoreInd, os = "Send" PROVE Answers(sd, ord)
<1>1. /\ Meta /\ Counted /\ Summed /\ Lengths /\ Finished
      /\ ord \in Packet /\ Sized(ord)
  BY OutFacts DEF Assembly, Late
<1>2. ASSUME sd.ipLength < 256, Fold(HeaderSum(sd)) < 65536
      PROVE  sd.ipChecksum = 65535 - Fold(HeaderSum(sd))
  <2>1. sd.ipLength = Swap(ord.ipLength % 256)
    BY <1>1, <1>2, ShortLength DEF Summed, Sized
  <2>2. HeaderSum(sd) = RawSum(ord)
    BY <1>1, <2>1 DEF HeaderSum, RawSum, Meta
  <2>3. RawSum(ord) \in Nat
    BY <1>1, RawSumBound DEF TotalSum, UpTo
  <2>4. Fold(RawSum(ord)) \in Nat
    BY <2>3 DEF Fold
  <2>5. Fold(RawSum(ord)) % 65536 = Fold(RawSum(ord))
    BY <1>2, <2>2, <2>4
  <2> QED
    BY <1>1, <2>2, <2>5 DEF Summed
<1> QED
  BY <1>1, <1>2 DEF Answers, Meta, Counted, Summed, Lengths, Finished

\* Every cycle hands an answer over, sends one, or does neither.
LEMMA RespStep ==
  ASSUME CoreInd, Tick
  PROVE  \/ Pend = None /\ Pend' \in Packet /\ Sent' = None
         \/ /\ Pend # None /\ Pend' = None
            /\ Sent' \in SndData /\ Answers(Sent', Pend)
         \/ Sent' = None /\ Pend' = Pend
<1>0. CoreInd' /\ Race /\ Race' /\ Arc /\ OutArc
  BY TickStep, Arcs, OutArcs DEF CoreInd, OutInd, Tick, Clock
<1>t. rd' \in Packet /\ sd \in SndData /\ ord \in Packet
  BY <1>0, OutFacts DEF CoreInd, IndInv, TypeOK
<1>1. CASE snd_en'
  <2>1. s = "Send" /\ os' = "Idle"
    BY <1>0, <1>1 DEF Arc, Race
  <2>2. Ahead(s, k) = 13 /\ Since(os) <= 7
    BY <2>1 DEF Ahead, Since, AddrStates, PktStates, AreaStates, QueryStates
  <2>3. Since(os) \in 1 .. 7
    BY DEF Since
  <2>4. os = "Idle" /\ ~snd_en
    BY <1>0, <2>1, <2>2, <2>3 DEF Race
  <2>5. ~el_snd_en'
    BY <1>0, <2>4 DEF OutArc
  <2>6. Pend = None
    BY <2>4 DEF Pend
  <2>7. Pend' \in Packet
    BY <1>1, <1>t DEF Pend
  <2>8. Sent' = None
    BY <2>5 DEF Sent
  <2> QED
    BY <2>6, <2>7, <2>8
<1>2. CASE ~snd_en' /\ os = "Send"
  <2>1. ~snd_en /\ Pend = ord
    BY <1>0, <1>2 DEF Race, Pend
  <2>2. Pend # None
    BY <1>t, <2>1, NoneAssumption
  <2>3. os' = "Idle" /\ el_snd_en' = TRUE /\ sd' = sd
    BY <1>2 DEF Tick, Out!OutCycle, Out!Idle, Out!MetaInfo, Out!ChecksumCalc,
                Out!ChecksumPopulate, Out!IPHeader, Out!UDPHeader, Out!Finalise, Out!Send
  <2>4. Pend' = None
    BY <1>2, <2>3 DEF Pend
  <2>5. Sent' = sd
    BY <2>3 DEF Sent
  <2>6. Answers(sd, ord)
    BY <1>2, CompleteAnswers
  <2> QED
    BY <1>t, <2>1, <2>2, <2>4, <2>5, <2>6
<1>3. CASE ~snd_en' /\ os # "Send"
  <2>1. Sent' = None
    BY <1>0, <1>3 DEF OutArc, Sent
  <2>2. CASE os = "Idle" /\ snd_en
    <3>1. os' = "MetaInfo" /\ ord' = rd
      BY <1>0, <2>2 DEF OutArc
    <3>2. Pend' = rd /\ Pend = rd
      BY <1>3, <2>2, <3>1 DEF Pend
    <3> QED
      BY <2>1, <3>2
  <2>3. CASE os = "Idle" /\ ~snd_en
    <3>1. os' = "Idle"
      BY <1>0, <2>3 DEF OutArc
    <3>2. Pend' = None /\ Pend = None
      BY <1>3, <2>3, <3>1 DEF Pend
    <3> QED
      BY <2>1, <3>2
  <2>4. CASE os # "Idle"
    <3>1. os' # "Idle" /\ ord' = ord
      BY <1>0, <1>3, <2>4 DEF OutArc
    <3>2. ~snd_en
      BY <1>0, <2>4 DEF Race
    <3>3. Pend' = Pend
      BY <1>3, <2>4, <3>1, <3>2 DEF Pend
    <3> QED
      BY <2>1, <3>3
  <2> QED
    BY <2>2, <2>3, <2>4
<1> QED
  BY <1>1, <1>2, <1>3

\* The two processors together answer as Responder promises: no answer is lost,
\* mixed with the next one or sent twice, for any configuration and any packets.
THEOREM CoreImplementsResponder == CoreSpec => ImplementsResponder
<1>1. CoreInit => Resp!Init
  <2> SUFFICES ASSUME CoreInit PROVE Resp!Init
    OBVIOUS
  <2>1. snd_en = FALSE /\ os = "Idle" /\ el_snd_en = FALSE
    BY DEF CoreInit, Init, Out!Init
  <2> QED
    BY <2>1 DEF Resp!Init
<1>2. CoreInd /\ [CoreNext]_corevars => [Resp!Next]_<<Pend, Sent>>
  <2>1. ASSUME CoreInd, Tick PROVE Resp!Next
    <3>1. \/ Pend = None /\ Pend' \in Packet /\ Sent' = None
          \/ /\ Pend # None /\ Pend' = None
             /\ Sent' \in SndData /\ Answers(Sent', Pend)
          \/ Sent' = None /\ Pend' = Pend
      BY <2>1, RespStep
    <3> QED
      BY <3>1, RespNames DEF Resp!Next, Resp!Hand, Resp!Emit, Resp!Withdraw, Pend, Sent
  <2>2. ASSUME NEW p \in Packets, Arrival(p) PROVE UNCHANGED <<Pend, Sent>>
    BY <2>2 DEF Arrival, Offer, core, outvars, Pend, Sent
  <2>3. UNCHANGED corevars => UNCHANGED <<Pend, Sent>>
    BY DEF corevars, vars, core, outvars, Pend, Sent
  <2> QED
    BY <2>1, <2>2, <2>3 DEF CoreNext
<1>3. [][Resp!Next]_<<Pend, Sent>> /\ Resp!Init => Resp!Spec
  BY DEF Resp!Spec, Pend, Sent
<1> QED
  BY <1>1, <1>2, <1>3, CoreInvariance, PTL DEF CoreSpec, ImplementsResponder
===============================================================================
