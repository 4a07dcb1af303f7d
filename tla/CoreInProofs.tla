----------------------------- MODULE CoreInProofs -----------------------------
(***************************************************************************)
(* The inductive invariant of CoreIn, the invariants that follow from it,  *)
(* and, in the second half, the proof that CoreIn implements PacketFilter. *)
(***************************************************************************)
EXTENDS CoreIn, TLAPS

-------------------------------------------------------------------------------
(* The parts of the inductive invariant.                                     *)

\* States in which rd is still the packet that was read.
Untouched == {"CheckAdmin", "CheckQuery", "SetDNSReplyHeader"} \cup HashStates
               \cup UpdateStates \cup AddrStates \cup PktStates

\* Where packets come from: the FIFO's head, taken once.
Flow == /\ el_rcv_dv => el_rcv_data \in Packets
        /\ s = "Read" => el_rcv_dv
        /\ el_rcv_ack => s = "CheckAdmin"
        /\ s \in Untouched => rd \in Packets

\* The five phases of a hash: requested, running, in v0, announced, compared.
HashInv == /\ siphash_start => s = "WaitHash" /\ hs = "Idle"
           /\ hs = "Busy" => s = "WaitHash" /\ ~siphash_start /\ hd = rd.cfg /\ hc >= 1
           /\ hs = "Output" => s = "WaitHash" /\ ~siphash_start /\ v0 = Hash(rd.cfg)
           /\ siphash_ready => /\ s = "WaitHash" /\ hs = "Idle" /\ ~siphash_start
                               /\ v0 = Hash(rd.cfg) /\ ahv = Hash(rd.cfg)
           /\ HashFresh
           /\ s \in UpdateStates => Authentic(rd)

\* The configurations a and b agree on the settings of section x and on its
\* entries before n.
Agree(a, b, x, n) ==
    /\ a.BW[x] = b.BW[x] /\ a.Length[x] = b.Length[x]
    /\ x # "dns" => \A e \in Entries : e < n => a.List[x][e] = b.List[x][e]
    /\ x = "dns" => /\ a.dnsItemEndPtr = b.dnsItemEndPtr
                    /\ \A e \in Entries : e < n => a.dnsList[e] = b.dnsList[e]

\* The copy of b into a has done the sections before x.
Done(a, b, x) == \A y \in Before(x) : Agree(a, b, y, FilterDepth)

\* How far the two copies, admin packet to filter and filter to probe answer,
\* have got.
CopyInv == /\ s \notin UpdateStates => SoundFilter(f)
           /\ s \in {"UpdateFilterMeta", "UpdateFilterList"} => Done(f, rd.cfg, k)
           /\ s = "UpdateFilterList" => Agree(f, rd.cfg, k, ac[AdminCounter(k)])
           /\ s = "UpdateReplyType" => \A y \in Sections : Agree(f, rd.cfg, y, FilterDepth)
           /\ s \in {"ReplyQueryMeta", "ReplyQueryList"} => Done(rd.cfg, f, k)
           /\ s = "ReplyQueryList" => Agree(rd.cfg, f, k, ac[AdminCounter(k)])
           /\ s = "ReplyQueryReplyType" => \A y \in Sections : Agree(rd.cfg, f, y, FilterDepth)

\* A packet in work has been counted at the sections behind it only.
CountInv == /\ CountersNested
            /\ s \in AddrStates /\ k \in {"srcMAC", "dstMAC"} => smc < stc
            /\ s \in AddrStates /\ k \in {"srcIP", "dstIP"} => sic < smc
            /\ s \in AddrStates /\ k \in {"srcPort", "dstPort"} => spc < sic
            /\ s \in PktStates => sfc < spc

IndInv == TypeOK /\ Flow /\ HashInv /\ CopyInv /\ CountInv /\ ScanSound

USE SizeAssumption, AddrAssumption, TagAssumption, LatencyAssumption

\* Section names are closed under After and have a copy counter.
LEMMA SectionFacts ==
  /\ \A x \in Sections : After(x) \in Sections
  /\ \A x \in Sections : AdminCounter(x) \in {"amc", "aic", "apc", "adc"}
  /\ \A x \in AddrSections : x \in Sections
  BY DEF Sections, AddrSections, After, AdminCounter

\* The actions of a cycle, with the section as a parameter.
SingleStep == \/ Idle \/ Read \/ CheckAdmin \/ CheckQuery \/ Send
              \/ ReplyQueryHeader \/ ReplyQueryReplyType
              \/ ReplyQueryCountersTot \/ ReplyQueryCountersSeg
              \/ StartHash \/ WaitHash \/ HashAuth \/ UpdateReplyType
              \/ CheckPkt \/ CmpPktCheck \/ CmpPktDone \/ FilterPkt
              \/ CmpPktArea32 \/ CmpPktArea24 \/ CmpPktArea16 \/ CmpPktArea8
              \/ SetDNSReplyHeader \/ SetDNSReplyCount \/ SetDefaultMAC

CopyStep(x) == ReplyQueryMeta(x) \/ ReplyQueryList(x) \/ UpdateFilterMeta(x) \/ UpdateFilterList(x)

ListStep(x) == CheckList(x) \/ CmpList(x) \/ FilterMatch(x)

\* These are all of them.
LEMMA StepCases == CoreCycle => \/ SingleStep
                                \/ \E x \in Sections : CopyStep(x)
                                \/ \E x \in AddrSections : ListStep(x)
<1>1. QueryRoute => SingleStep \/ \E x \in Sections : CopyStep(x)
  BY DEF QueryRoute, SingleStep, CopyStep, Sections, AddrSections, ReplyQuerySrcMAC,
         ReplyQueryDstMAC, ReplyQuerySrcIP, ReplyQueryDstIP, ReplyQuerySrcPort,
         ReplyQueryDstPort, ReplyQueryDNS
<1>2. AdminRoute => SingleStep \/ \E x \in Sections : CopyStep(x)
  BY DEF AdminRoute, SingleStep, CopyStep, Sections, AddrSections, UpdateFilterSrcMAC,
         UpdateFilterDstMAC, UpdateFilterSrcIP, UpdateFilterDstIP, UpdateFilterSrcPort,
         UpdateFilterDstPort, UpdateFilterDNS
<1>3. FilterRoute => SingleStep \/ \E x \in AddrSections : ListStep(x)
  BY DEF FilterRoute, SingleStep, ListStep, AddrSections, FilterSrcMAC, FilterDstMAC,
         FilterSrcIP, FilterDstIP, FilterSrcPort, FilterDstPort
<1> QED
  BY <1>1, <1>2, <1>3 DEF CoreCycle, SingleStep

\* Who may change what.
FrameOK == /\ f' = f \/ UpdateReplyType
                 \/ \E x \in Sections : UpdateFilterMeta(x) \/ UpdateFilterList(x)
           /\ rd' = rd \/ Read \/ ReplyQueryHeader \/ ReplyQueryReplyType
                 \/ ReplyQueryCountersTot \/ ReplyQueryCountersSeg
                 \/ SetDNSReplyHeader \/ SetDNSReplyCount \/ SetDefaultMAC
                 \/ \E x \in Sections : ReplyQueryMeta(x) \/ ReplyQueryList(x)
           /\ fc' = fc \/ CheckQuery \/ CmpPktDone \/ FilterPkt
                 \/ \E x \in AddrSections : ListStep(x)
           /\ ac' = ac \/ \E x \in Sections : CopyStep(x)
           /\ scan' = scan \/ CheckPkt \/ CmpPktCheck \/ CmpPktDone
                 \/ CmpPktArea32 \/ CmpPktArea24 \/ CmpPktArea16 \/ CmpPktArea8
           /\ counters' = counters \/ CheckQuery \/ CheckPkt \/ FilterPkt
                 \/ \E x \in AddrSections : ListStep(x)
           /\ panel' = panel \/ CheckAdmin \/ HashAuth \/ Send
           /\ snd_en' \in BOOLEAN /\ el_rcv_ack' \in BOOLEAN /\ siphash_start' \in BOOLEAN

\* Everything else is left alone.
LEMMA Frame == CoreCycle => FrameOK
<1> USE DEF scan, counters, panel, NoPulse, FrameOK
<1>1. CASE Idle
  BY <1>1 DEF Idle
<1>2. CASE Read
  BY <1>2 DEF Read
<1>3. CASE CheckAdmin
  BY <1>3 DEF CheckAdmin
<1>4. CASE CheckQuery
  BY <1>4 DEF CheckQuery
<1>5. CASE ReplyQueryHeader
  BY <1>5 DEF ReplyQueryHeader
<1>6. CASE ReplyQueryReplyType
  BY <1>6 DEF ReplyQueryReplyType
<1>7. CASE ReplyQueryCountersTot
  BY <1>7 DEF ReplyQueryCountersTot
<1>8. CASE ReplyQueryCountersSeg
  BY <1>8 DEF ReplyQueryCountersSeg
<1>9. CASE StartHash
  BY <1>9 DEF StartHash
<1>10. CASE WaitHash
  BY <1>10 DEF WaitHash
<1>11. CASE HashAuth
  BY <1>11 DEF HashAuth
<1>12. CASE UpdateReplyType
  BY <1>12 DEF UpdateReplyType
<1>13. CASE CheckPkt
  BY <1>13 DEF CheckPkt
<1>14. CASE CmpPktCheck
  BY <1>14 DEF CmpPktCheck
<1>15. CASE CmpPktArea32
  BY <1>15 DEF CmpPktArea32, CmpPktArea
<1>16. CASE CmpPktArea24
  BY <1>16 DEF CmpPktArea24, CmpPktArea
<1>17. CASE CmpPktArea16
  BY <1>17 DEF CmpPktArea16, CmpPktArea
<1>18. CASE CmpPktArea8
  BY <1>18 DEF CmpPktArea8, CmpPktArea
<1>19. CASE CmpPktDone
  BY <1>19 DEF CmpPktDone
<1>20. CASE FilterPkt
  BY <1>20 DEF FilterPkt
<1>21. CASE SetDNSReplyHeader
  BY <1>21 DEF SetDNSReplyHeader
<1>22. CASE SetDNSReplyCount
  BY <1>22 DEF SetDNSReplyCount
<1>23. CASE SetDefaultMAC
  BY <1>23 DEF SetDefaultMAC
<1>24. CASE Send
  BY <1>24 DEF Send
<1>25. ASSUME NEW x \in Sections, ReplyQueryMeta(x) PROVE FrameOK
  BY <1>25 DEF ReplyQueryMeta, CopyStep
<1>26. ASSUME NEW x \in Sections, ReplyQueryList(x) PROVE FrameOK
  BY <1>26 DEF ReplyQueryList, CopyStep
<1>27. ASSUME NEW x \in Sections, UpdateFilterMeta(x) PROVE FrameOK
  BY <1>27 DEF UpdateFilterMeta, CopyStep
<1>28. ASSUME NEW x \in Sections, UpdateFilterList(x) PROVE FrameOK
  BY <1>28 DEF UpdateFilterList, CopyStep
<1>29. ASSUME NEW x \in AddrSections, CheckList(x) PROVE FrameOK
  BY <1>29 DEF CheckList, ListStep, Move, Ban
<1>30. ASSUME NEW x \in AddrSections, CmpList(x) PROVE FrameOK
  BY <1>30 DEF CmpList, ListStep, Move, Ban
<1>31. ASSUME NEW x \in AddrSections, FilterMatch(x) PROVE FrameOK
  BY <1>31 DEF FilterMatch, ListStep, Move, Ban
<1> QED
  BY StepCases, <1>1, <1>2, <1>3, <1>4, <1>5, <1>6, <1>7, <1>8, <1>9, <1>10, <1>11, <1>12, <1>13, <1>14, <1>15, <1>16, <1>17, <1>18, <1>19, <1>20, <1>21, <1>22, <1>23, <1>24, <1>25, <1>26, <1>27, <1>28, <1>29, <1>30, <1>31 DEF SingleStep, CopyStep, ListStep

-------------------------------------------------------------------------------
(* Type correctness.                                                         *)

\* A packet that is being installed carries a sound configuration.
LEMMA UpdateSound == IndInv /\ s \in UpdateStates => SoundFilter(rd.cfg)
  BY PacketsAssumption DEF IndInv, Flow, HashInv, Untouched, Received, UpdateStates

\* Copying settings, an entry or an item keeps a configuration well typed.
LEMMA MetaType ==
  ASSUME NEW L, NEW c \in FilterWith(L), NEW x \in Sections, NEW b \in {0, 1}, NEW n \in L,
         NEW e \in [Entries -> 0 .. ItemBytes]
  PROVE  [c EXCEPT !.BW[x] = b, !.Length[x] = n, !.dnsItemEndPtr = e] \in FilterWith(L)
  BY DEF FilterWith

\* The same for one entry of an address list.
LEMMA EntryType ==
  ASSUME NEW L, NEW c \in FilterWith(L), NEW x \in AddrSections, NEW i \in Entries, NEW a \in Addr
  PROVE  [c EXCEPT !.List[x][i] = a] \in FilterWith(L)
  BY DEF FilterWith

\* The same for one domain item.
LEMMA ItemType ==
  ASSUME NEW L, NEW c \in FilterWith(L), NEW i \in Entries, NEW a \in [ItemIndex -> Byte]
  PROVE  [c EXCEPT !.dnsList[i] = a] \in FilterWith(L)
  BY DEF FilterWith

\* The parts of a well typed configuration.
LEMMA FilterParts ==
  ASSUME NEW L, NEW c \in FilterWith(L)
  PROVE  /\ \A x \in Sections : c.BW[x] \in {0, 1} /\ c.Length[x] \in L
         /\ \A x \in AddrSections : \A i \in Entries : c.List[x][i] \in Addr
         /\ c.dnsItemEndPtr \in [Entries -> 0 .. ItemBytes]
         /\ \A i \in Entries : c.dnsList[i] \in [ItemIndex -> Byte]
         /\ c.replyType \in {0, 1}
  BY DEF FilterWith

\* f stays a configuration whose lengths fit the lists.
LEMMA TypeF == IndInv /\ CoreCycle => f' \in Filter
<1> SUFFICES ASSUME IndInv, CoreCycle PROVE f' \in Filter
  OBVIOUS
<1> DEFINE L == 0 .. FilterDepth
<1>0. f \in FilterWith(L)
  BY DEF IndInv, TypeOK, Filter
<1>1. s \in UpdateStates => rd.cfg \in FilterWith(L)
  BY UpdateSound DEF SoundFilter, Filter
<1>a. \A x \in Sections : ac[AdminCounter(x)] \in 0 .. FilterDepth
  BY SectionFacts DEF IndInv, TypeOK
<1>2. CASE UpdateReplyType
  BY <1>0, <1>1, <1>2 DEF UpdateReplyType, UpdateStates, Filter, FilterWith
<1>3. ASSUME NEW x \in Sections, UpdateFilterMeta(x) PROVE f' \in Filter
  <2>1. rd.cfg \in FilterWith(L)
    BY <1>1, <1>3 DEF UpdateFilterMeta, UpdateStates
  <2> DEFINE e == IF x = "dns" THEN rd.cfg.dnsItemEndPtr ELSE f.dnsItemEndPtr
  <2>2. e \in [Entries -> 0 .. ItemBytes] /\ rd.cfg.BW[x] \in {0, 1} /\ rd.cfg.Length[x] \in L
    BY <1>0, <2>1, FilterParts
  <2>3. f' = [f EXCEPT !.BW[x] = rd.cfg.BW[x], !.Length[x] = rd.cfg.Length[x], !.dnsItemEndPtr = e]
    BY <1>3 DEF UpdateFilterMeta
  <2> HIDE DEF L, e
  <2> QED
    BY <1>0, <2>2, <2>3, MetaType DEF Filter, L
<1>4. ASSUME NEW x \in Sections, UpdateFilterList(x) PROVE f' \in Filter
  <2> DEFINE i == ac[AdminCounter(x)]
  <2>1. rd.cfg \in FilterWith(L)
    BY <1>1, <1>4 DEF UpdateFilterList, UpdateStates
  <2>2. CASE i < FilterDepth /\ x = "dns"
    <3>1. f' = [f EXCEPT !.dnsList[i] = rd.cfg.dnsList[i]] /\ i \in Entries
      BY <1>4, <1>a, <2>2 DEF UpdateFilterList, Entries
    <3> HIDE DEF L, i
    <3> QED
      BY <1>0, <2>1, <3>1, FilterParts, ItemType DEF Filter, L
  <2>3. CASE i < FilterDepth /\ x # "dns"
    <3>1. f' = [f EXCEPT !.List[x][i] = rd.cfg.List[x][i]] /\ i \in Entries /\ x \in AddrSections
      BY <1>4, <1>a, <2>3 DEF UpdateFilterList, Entries, Sections
    <3> HIDE DEF L, i
    <3> QED
      BY <1>0, <2>1, <3>1, FilterParts, EntryType DEF Filter, L
  <2> QED
    BY <1>0, <1>4, <1>a, <2>2, <2>3 DEF UpdateFilterList, Filter
<1>5. f' = f \/ UpdateReplyType \/ \E x \in Sections : UpdateFilterMeta(x) \/ UpdateFilterList(x)
  BY Frame DEF FrameOK
<1> QED
  BY <1>0, <1>2, <1>3, <1>4, <1>5 DEF Filter

\* rd stays a packet.
LEMMA TypeRd == IndInv /\ CoreCycle => rd' \in Packet
<1> SUFFICES ASSUME IndInv, CoreCycle PROVE rd' \in Packet
  OBVIOUS
<1>0. rd \in Packet /\ rd.cfg \in FilterWith(Nat) /\ f \in FilterWith(Nat)
  BY DEF IndInv, TypeOK, Packet, RawFilter, Filter, FilterWith
<1>b. ASSUME NEW c \in FilterWith(Nat) PROVE [rd EXCEPT !.cfg = c] \in Packet
  BY <1>0 DEF Packet, RawFilter
<1>a. \A x \in Sections : ac[AdminCounter(x)] \in 0 .. FilterDepth
  BY SectionFacts DEF IndInv, TypeOK
<1>1. CASE Read
  BY <1>1 DEF Read, IndInv, TypeOK
<1>2. CASE ReplyQueryHeader
  BY <1>0, <1>2 DEF ReplyQueryHeader, Packet
<1>3. CASE ReplyQueryReplyType
  <2>1. [rd.cfg EXCEPT !.replyType = f.replyType] \in FilterWith(Nat)
    BY <1>0 DEF FilterWith
  <2>2. rd' = [rd EXCEPT !.cfg = [rd.cfg EXCEPT !.replyType = f.replyType]]
    BY <1>0, <1>3 DEF ReplyQueryReplyType
  <2> QED
    BY <2>1, <2>2, <1>b
<1>4. CASE ReplyQueryCountersTot
  BY <1>0, <1>4 DEF ReplyQueryCountersTot, Packet, Counters, IndInv, TypeOK, AddrSections
<1>5. CASE ReplyQueryCountersSeg
  BY <1>0, <1>5 DEF ReplyQueryCountersSeg, Packet, Counters, IndInv, TypeOK
<1>p. rd.dnsPkt \in [PktIndex -> Byte]
  BY <1>0 DEF Packet
<1>6. CASE SetDNSReplyHeader
  <2>1. [rd.dnsPkt EXCEPT ![2] = 128 + 4, ![3] = 32 + 16 + 3] \in [PktIndex -> Byte]
    <3>1. 128 + 4 \in Byte /\ 32 + 16 + 3 \in Byte
      BY DEF Byte
    <3>2. \A a, b \in Byte : [rd.dnsPkt EXCEPT ![2] = a, ![3] = b] \in [PktIndex -> Byte]
      BY <1>p
    <3> QED
      BY <3>1, <3>2
  <2>2. \/ rd' = rd
        \/ rd' = [rd EXCEPT !.dnsPkt = [rd.dnsPkt EXCEPT ![2] = 128 + 4, ![3] = 32 + 16 + 3]]
    BY <1>0, <1>6 DEF SetDNSReplyHeader, Packet
  <2> QED
    BY <1>0, <2>1, <2>2 DEF Packet
<1>7. CASE SetDNSReplyCount
  <2> DEFINE d == [j \in PktIndex |-> IF j \in 4 .. 11 THEN 0 ELSE rd.dnsPkt[j]]
  <2>1. d \in [PktIndex -> Byte]
    BY <1>p DEF Byte
  <2>2. rd' = [rd EXCEPT !.ipLength = 130, !.dnsLength = 12, !.dnsPkt = d]
    BY <1>7 DEF SetDNSReplyCount
  <2> HIDE DEF d
  <2> QED
    BY <1>0, <2>1, <2>2 DEF Packet
<1>8. CASE SetDefaultMAC
  BY <1>0, <1>8 DEF SetDefaultMAC, Packet, AddrSections
<1>9. ASSUME NEW x \in Sections, ReplyQueryMeta(x) PROVE rd' \in Packet
  <2> DEFINE e == IF x = "dns" THEN f.dnsItemEndPtr ELSE rd.cfg.dnsItemEndPtr
  <2>1. e \in [Entries -> 0 .. ItemBytes] /\ f.BW[x] \in {0, 1} /\ f.Length[x] \in Nat
    BY <1>0, FilterParts
  <2> DEFINE c == [rd.cfg EXCEPT !.BW[x] = f.BW[x], !.Length[x] = f.Length[x], !.dnsItemEndPtr = e]
  <2>2. rd' = [rd EXCEPT !.cfg = c]
    BY <1>0, <1>9 DEF ReplyQueryMeta
  <2>3. c \in FilterWith(Nat)
    <3> HIDE DEF e
    <3> QED
      BY <1>0, <2>1, MetaType
  <2> HIDE DEF c
  <2> QED
    BY <2>2, <2>3, <1>b
<1>10. ASSUME NEW x \in Sections, ReplyQueryList(x) PROVE rd' \in Packet
  <2> DEFINE i == ac[AdminCounter(x)]
  <2>1. CASE i < FilterDepth /\ x = "dns"
    <3> DEFINE c == [rd.cfg EXCEPT !.dnsList[i] = f.dnsList[i]]
    <3>1. rd' = [rd EXCEPT !.cfg = c] /\ i \in Entries
      BY <1>0, <1>10, <1>a, <2>1 DEF ReplyQueryList, Entries
    <3>2. c \in FilterWith(Nat)
      <4> HIDE DEF i
      <4> QED
        BY <1>0, <3>1, FilterParts, ItemType
    <3> HIDE DEF c
    <3> QED
      BY <3>1, <3>2, <1>b
  <2>2. CASE i < FilterDepth /\ x # "dns"
    <3> DEFINE c == [rd.cfg EXCEPT !.List[x][i] = f.List[x][i]]
    <3>1. rd' = [rd EXCEPT !.cfg = c] /\ i \in Entries /\ x \in AddrSections
      BY <1>0, <1>10, <1>a, <2>2 DEF ReplyQueryList, Entries, Sections
    <3>2. c \in FilterWith(Nat)
      <4> HIDE DEF i
      <4> QED
        BY <1>0, <3>1, FilterParts, EntryType
    <3> HIDE DEF c
    <3> QED
      BY <3>1, <3>2, <1>b
  <2> QED
    BY <1>0, <1>10, <1>a, <2>1, <2>2 DEF ReplyQueryList
<1>11. \/ rd' = rd \/ Read \/ ReplyQueryHeader \/ ReplyQueryReplyType
       \/ ReplyQueryCountersTot \/ ReplyQueryCountersSeg
       \/ SetDNSReplyHeader \/ SetDNSReplyCount \/ SetDefaultMAC
       \/ \E x \in Sections : ReplyQueryMeta(x) \/ ReplyQueryList(x)
  BY Frame DEF FrameOK
<1> QED
  BY <1>0, <1>1, <1>2, <1>3, <1>4, <1>5, <1>6, <1>7, <1>8, <1>9, <1>10, <1>11

\* s and k stay in range.
LEMMA TypeControl == IndInv /\ CoreCycle => s' \in States /\ k' \in Sections
<1> SUFFICES ASSUME IndInv, CoreCycle PROVE s' \in States /\ k' \in Sections
  OBVIOUS
<1>0. s \in States /\ k \in Sections
  BY DEF IndInv, TypeOK
<1> USE DEF States, QueryStates, HashStates, UpdateStates, AddrStates, PktStates, AreaStates, ReplyStates
<1>1. CASE Idle \/ Read \/ CheckAdmin \/ CheckQuery \/ Send
  BY <1>0, <1>1 DEF Idle, Read, CheckAdmin, CheckQuery, Send, Sections, AddrSections
<1>2. CASE ReplyQueryHeader \/ ReplyQueryReplyType \/ ReplyQueryCountersTot \/ ReplyQueryCountersSeg
  BY <1>0, <1>2 DEF ReplyQueryHeader, ReplyQueryReplyType, ReplyQueryCountersTot,
                    ReplyQueryCountersSeg, Sections, AddrSections
<1>3. CASE StartHash \/ WaitHash \/ HashAuth \/ UpdateReplyType
  BY <1>0, <1>3 DEF StartHash, WaitHash, HashAuth, UpdateReplyType, Sections, AddrSections
<1>4. CASE CheckPkt \/ CmpPktCheck \/ CmpPktDone \/ FilterPkt
  BY <1>0, <1>4 DEF CheckPkt, CmpPktCheck, CmpPktDone, FilterPkt
<1>5. CASE CmpPktArea32 \/ CmpPktArea24 \/ CmpPktArea16 \/ CmpPktArea8
  BY <1>0, <1>5 DEF CmpPktArea32, CmpPktArea24, CmpPktArea16, CmpPktArea8, CmpPktArea
<1>6. CASE SetDNSReplyHeader \/ SetDNSReplyCount \/ SetDefaultMAC
  BY <1>0, <1>6 DEF SetDNSReplyHeader, SetDNSReplyCount, SetDefaultMAC
<1>7. ASSUME NEW x \in Sections, CopyStep(x) PROVE s' \in States /\ k' \in Sections
  BY <1>0, <1>7, SectionFacts
  DEF CopyStep, ReplyQueryMeta, ReplyQueryList, UpdateFilterMeta, UpdateFilterList
<1>8. ASSUME NEW x \in AddrSections, ListStep(x) PROVE s' \in States /\ k' \in Sections
  BY <1>0, <1>8, SectionFacts DEF ListStep, CheckList, CmpList, FilterMatch, Move, Ban
<1> HIDE DEF States, QueryStates, HashStates, UpdateStates, AddrStates, PktStates, AreaStates, ReplyStates
<1> QED
  BY <1>1, <1>2, <1>3, <1>4, <1>5, <1>6, <1>7, <1>8, StepCases DEF SingleStep

\* The entry counters stay within the lists.
LEMMA TypeFc == IndInv /\ CoreCycle => fc' \in [Sections -> 0 .. FilterDepth]
<1> SUFFICES ASSUME IndInv, CoreCycle PROVE fc' \in [Sections -> 0 .. FilterDepth]
  OBVIOUS
<1>0. /\ fc \in [Sections -> 0 .. FilterDepth]
      /\ \A x \in Sections : f.Length[x] \in 0 .. FilterDepth
  BY FilterParts DEF IndInv, TypeOK, Filter
<1>1. CASE CheckQuery
  BY <1>0, <1>1 DEF CheckQuery
<1>2. CASE CmpPktDone
  <2>1. fc["dns"] < f.Length["dns"] /\ "dns" \in Sections
    BY <1>2 DEF CmpPktDone, IndInv, ScanSound, PktScan, PktStates, Sections
  <2> QED
    BY <1>0, <1>2, <2>1 DEF CmpPktDone
<1>3. CASE FilterPkt
  BY <1>0, <1>3 DEF FilterPkt
<1>4. ASSUME NEW x \in AddrSections, ListStep(x) PROVE fc' \in [Sections -> 0 .. FilterDepth]
  <2>1. CASE CmpList(x)
    <3>1. fc[x] < f.Length[x] /\ x \in Sections
      BY <2>1 DEF CmpList, IndInv, ScanSound, AddrScan, AddrStates, Sections
    <3> QED
      BY <1>0, <2>1, <3>1 DEF CmpList
  <2>2. CASE CheckList(x) \/ FilterMatch(x)
    BY <1>0, <2>2 DEF CheckList, FilterMatch, Move, Ban
  <2> QED
    BY <1>4, <2>1, <2>2 DEF ListStep
<1>5. fc' = fc \/ CheckQuery \/ CmpPktDone \/ FilterPkt \/ \E x \in AddrSections : ListStep(x)
  BY Frame DEF FrameOK
<1> QED
  BY <1>0, <1>1, <1>2, <1>3, <1>4, <1>5

\* So do the copy counters.
LEMMA TypeAc == IndInv /\ CoreCycle => ac' \in [{"amc", "aic", "apc", "adc"} -> 0 .. FilterDepth]
<1> SUFFICES ASSUME IndInv, CoreCycle
             PROVE  ac' \in [{"amc", "aic", "apc", "adc"} -> 0 .. FilterDepth]
  OBVIOUS
<1>0. ac \in [{"amc", "aic", "apc", "adc"} -> 0 .. FilterDepth]
  BY DEF IndInv, TypeOK
<1>1. ASSUME NEW x \in Sections, CopyStep(x)
      PROVE  ac' \in [{"amc", "aic", "apc", "adc"} -> 0 .. FilterDepth]
  <2>1. ac[AdminCounter(x)] \in 0 .. FilterDepth
    BY <1>0, SectionFacts
  <2> QED
    BY <1>0, <1>1, <2>1
    DEF CopyStep, ReplyQueryMeta, ReplyQueryList, UpdateFilterMeta, UpdateFilterList
<1>2. ac' = ac \/ \E x \in Sections : CopyStep(x)
  BY Frame DEF FrameOK
<1> QED
  BY <1>0, <1>1, <1>2

\* The window stays within the payload that is kept, and the bytes left of an
\* item within the item.
LEMMA TypeScan == IndInv /\ CoreCycle => /\ fpktsc' \in 0 .. PktBytes
                                        /\ fpktc' \in 0 .. ItemBytes
                                        /\ fpktmf' \in BOOLEAN
<1> SUFFICES ASSUME IndInv, CoreCycle
             PROVE  fpktsc' \in 0 .. PktBytes /\ fpktc' \in 0 .. ItemBytes /\ fpktmf' \in BOOLEAN
  OBVIOUS
<1>0. fpktsc \in 0 .. PktBytes /\ fpktc \in 0 .. ItemBytes /\ fpktmf \in BOOLEAN
  BY DEF IndInv, TypeOK
<1>1. ASSUME fc["dns"] < f.Length["dns"] PROVE ItemEnd \in 0 .. ItemBytes
  <2>1. fc["dns"] \in Entries
    BY <1>1, FilterParts DEF IndInv, TypeOK, Filter, Entries, Sections
  <2> QED
    BY <2>1, FilterParts DEF IndInv, TypeOK, Filter, ItemEnd
<1>2. CASE CheckPkt
  <2>1. fc["dns"] # f.Length["dns"] => fc["dns"] < f.Length["dns"]
    BY <1>2, FilterParts
    DEF CheckPkt, IndInv, TypeOK, Filter, ScanSound, PktScan, PktStates, Sections
  <2>2. fpktsc' = fpktsc \/ fpktsc' = 0
    BY <1>2 DEF CheckPkt
  <2>3. fpktc' = fpktc \/ (fpktc' = ItemEnd /\ fc["dns"] # f.Length["dns"])
    BY <1>2 DEF CheckPkt
  <2>4. fpktmf' \in BOOLEAN
    BY <1>0, <1>2 DEF CheckPkt
  <2> HIDE DEF ItemEnd
  <2> QED
    BY <1>0, <1>1, <2>1, <2>2, <2>3, <2>4
<1>3. CASE CmpPktCheck
  BY <1>0, <1>3 DEF CmpPktCheck
<1>4. CASE CmpPktArea32 \/ CmpPktArea24 \/ CmpPktArea16 \/ CmpPktArea8
  <2>1. /\ CmpPktArea32 => fpktc >= 4
        /\ CmpPktArea24 => fpktc = 3
        /\ CmpPktArea16 => fpktc = 2
        /\ CmpPktArea8 => fpktc = 1
    BY DEF CmpPktArea32, CmpPktArea24, CmpPktArea16, CmpPktArea8, IndInv, ScanSound, WindowScan,
           PktStates, AreaStates
  <2>2. fpktsc' = fpktsc
    BY <1>4 DEF CmpPktArea32, CmpPktArea24, CmpPktArea16, CmpPktArea8, CmpPktArea
  <2>3. fpktmf' \in BOOLEAN
    BY <1>0, <1>4 DEF CmpPktArea32, CmpPktArea24, CmpPktArea16, CmpPktArea8, CmpPktArea
  <2>4. \/ fpktc' = fpktc
        \/ fpktc >= 4 /\ fpktc' = fpktc - 4
        \/ fpktc = 3 /\ fpktc' = fpktc - 3
        \/ fpktc = 2 /\ fpktc' = fpktc - 2
        \/ fpktc = 1 /\ fpktc' = fpktc - 1
    BY <1>4, <2>1 DEF CmpPktArea32, CmpPktArea24, CmpPktArea16, CmpPktArea8, CmpPktArea
  <2> QED
    BY <1>0, <2>2, <2>3, <2>4
<1>5. CASE CmpPktDone
  <2>1. ItemEnd \in 0 .. ItemBytes
    BY <1>1, <1>5 DEF CmpPktDone, IndInv, ScanSound, PktScan, PktStates
  <2>2. PayloadEnd(rd) \in 0 .. PktBytes
    BY DEF PayloadEnd, IndInv, TypeOK, Packet
  <2>3. \/ fpktsc' = fpktsc /\ fpktc' = fpktc
        \/ fpktsc + ItemEnd < PayloadEnd(rd) /\ fpktsc' = fpktsc + 1 /\ fpktc' = ItemEnd
    BY <1>5 DEF CmpPktDone, scan
  <2>4. fpktmf' \in BOOLEAN
    BY <1>0, <1>5 DEF CmpPktDone, scan
  <2> DEFINE e == ItemEnd
             q == PayloadEnd(rd)
  <2>5. e \in 0 .. ItemBytes /\ q \in 0 .. PktBytes
    BY <2>1, <2>2
  <2>6. \/ fpktsc' = fpktsc /\ fpktc' = fpktc
        \/ fpktsc + e < q /\ fpktsc' = fpktsc + 1 /\ fpktc' = e
    BY <2>3
  <2> HIDE DEF e, q
  <2> QED
    BY <1>0, <2>4, <2>5, <2>6
<1>6. scan' = scan \/ CheckPkt \/ CmpPktCheck \/ CmpPktDone
        \/ (CmpPktArea32 \/ CmpPktArea24 \/ CmpPktArea16 \/ CmpPktArea8)
  BY Frame DEF FrameOK
<1> QED
  BY <1>0, <1>2, <1>3, <1>4, <1>5, <1>6 DEF scan

\* The packet counters count, the LEDs show four bits.
LEMMA TypeCounters == IndInv /\ CoreCycle =>
  /\ stc' \in Nat /\ sfc' \in Nat /\ smc' \in Nat /\ sic' \in Nat /\ spc' \in Nat
  /\ led' \in 0 .. 15 /\ pc' \in 0 .. 15
<1> SUFFICES ASSUME IndInv, CoreCycle
             PROVE  /\ stc' \in Nat /\ sfc' \in Nat /\ smc' \in Nat /\ sic' \in Nat /\ spc' \in Nat
                    /\ led' \in 0 .. 15 /\ pc' \in 0 .. 15
  OBVIOUS
<1>0. /\ stc \in Nat /\ sfc \in Nat /\ smc \in Nat /\ sic \in Nat /\ spc \in Nat
      /\ led \in 0 .. 15 /\ pc \in 0 .. 15
  BY DEF IndInv, TypeOK
<1> DEFINE Count == stc' \in Nat /\ sfc' \in Nat /\ smc' \in Nat /\ sic' \in Nat /\ spc' \in Nat
<1>1. ASSUME NEW x \in AddrSections, ListStep(x) PROVE Count
  BY <1>0, <1>1 DEF ListStep, CheckList, CmpList, FilterMatch, Move, Ban, counters
<1>2. Count
  <2>1. counters' = counters \/ CheckQuery \/ CheckPkt \/ FilterPkt
          \/ \E x \in AddrSections : ListStep(x)
    BY Frame DEF FrameOK
  <2>2. counters' = counters => Count
    BY <1>0 DEF counters
  <2>3. CheckQuery => Count
    BY <1>0 DEF CheckQuery
  <2>4. CheckPkt \/ FilterPkt => Count
    BY <1>0 DEF CheckPkt, FilterPkt
  <2> QED
    BY <1>1, <2>1, <2>2, <2>3, <2>4
<1>3. led' \in 0 .. 15 /\ pc' \in 0 .. 15
  <2>1. panel' = panel \/ CheckAdmin \/ HashAuth \/ Send
    BY Frame DEF FrameOK
  <2> QED
    BY <1>0, <2>1 DEF panel, CheckAdmin, HashAuth, Send
<1> QED
  BY <1>2, <1>3

\* So do the hasher, the head of the FIFO and the pulses.
LEMMA TypeAround == IndInv /\ Clock =>
  /\ snd_en' \in BOOLEAN /\ el_rcv_ack' \in BOOLEAN /\ siphash_start' \in BOOLEAN
  /\ el_rcv_dv' \in BOOLEAN /\ el_rcv_data' \in Packet /\ offered' \in Nat
  /\ hs' \in {"Idle", "Busy", "Output"} /\ hc' \in 0 .. HashLatency
  /\ hd' \in RawFilter /\ v0' \in Tag /\ siphash_ready' \in BOOLEAN /\ ahv' \in Tag
<1> SUFFICES ASSUME IndInv, Clock
             PROVE  /\ snd_en' \in BOOLEAN /\ el_rcv_ack' \in BOOLEAN /\ siphash_start' \in BOOLEAN
                    /\ el_rcv_dv' \in BOOLEAN /\ el_rcv_data' \in Packet /\ offered' \in Nat
                    /\ hs' \in {"Idle", "Busy", "Output"} /\ hc' \in 0 .. HashLatency
                    /\ hd' \in RawFilter /\ v0' \in Tag /\ siphash_ready' \in BOOLEAN /\ ahv' \in Tag
  OBVIOUS
<1>0. /\ hs \in {"Idle", "Busy", "Output"} /\ hc \in 0 .. HashLatency
      /\ hd \in RawFilter /\ v0 \in Tag /\ rd.cfg \in RawFilter
      /\ el_rcv_data \in Packet /\ offered \in Nat
  BY DEF IndInv, TypeOK, Packet
<1>1. snd_en' \in BOOLEAN /\ el_rcv_ack' \in BOOLEAN /\ siphash_start' \in BOOLEAN
  BY Frame DEF Clock, FrameOK
<1>2. el_rcv_dv' \in BOOLEAN
  BY DEF Clock, FifoHead
<1>3. el_rcv_data' \in Packet /\ offered' \in Nat
  BY <1>0 DEF Clock, FifoHead
<1>4. siphash_ready' \in BOOLEAN
  BY DEF Clock, Siphasher
<1>5. hs' \in {"Idle", "Busy", "Output"} /\ hd' \in RawFilter
  BY <1>0 DEF Clock, Siphasher
<1>6. hc' \in 0 .. HashLatency
  <2>1. hs = "Busy" => hc >= 1
    BY DEF IndInv, HashInv
  <2>2. hc' = hc \/ hc' = HashLatency \/ (hs = "Busy" /\ hc' = hc - 1)
    BY DEF Clock, Siphasher
  <2> QED
    BY <1>0, <2>1, <2>2
<1>7. v0' \in Tag
  <2>1. hs = "Busy" => hd = rd.cfg /\ rd \in Packets
    BY DEF IndInv, HashInv, Flow, Untouched, HashStates
  <2>2. hs = "Busy" => Hash(hd) \in Tag
    BY <2>1
  <2> QED
    BY <1>0, <2>2 DEF Clock, Siphasher
<1>8. ahv' \in Tag
  BY <1>0 DEF Clock, LatchHash
<1> QED
  BY <1>1, <1>2, <1>3, <1>4, <1>5, <1>6, <1>7, <1>8

\* A cycle keeps the types.
LEMMA TypeStep == IndInv /\ Clock => TypeOK'
<1> SUFFICES ASSUME IndInv, Clock PROVE TypeOK'
  OBVIOUS
<1>1. CoreCycle
  BY DEF Clock
<1> QED
  BY <1>1, TypeF, TypeRd, TypeControl, TypeFc, TypeAc, TypeScan, TypeCounters, TypeAround DEF TypeOK

-------------------------------------------------------------------------------
(* The packet in work and its hash.                                          *)

\* How the packet in work is taken, kept and given up.
LEMMA FlowArcs == CoreCycle => /\ s' = "Read" => s = "Idle" /\ el_rcv_dv
                               /\ el_rcv_ack' => s' = "CheckAdmin"
                               /\ s' \in Untouched => \/ s = "Read" /\ rd' = el_rcv_data
                                                      \/ s \in Untouched /\ rd' = rd
<1> DEFINE Arc == /\ s' = "Read" => s = "Idle" /\ el_rcv_dv
                  /\ el_rcv_ack' => s' = "CheckAdmin"
                  /\ s' \in Untouched => \/ s = "Read" /\ rd' = el_rcv_data
                                         \/ s \in Untouched /\ rd' = rd
<1> USE DEF Untouched, HashStates, UpdateStates, AddrStates, PktStates, AreaStates, NoPulse
<1>1. Idle \/ Read \/ CheckAdmin \/ CheckQuery \/ Send => Arc
  BY DEF Idle, Read, CheckAdmin, CheckQuery, Send
<1>2. ReplyQueryHeader \/ ReplyQueryReplyType \/ ReplyQueryCountersTot \/ ReplyQueryCountersSeg => Arc
  BY DEF ReplyQueryHeader, ReplyQueryReplyType, ReplyQueryCountersTot, ReplyQueryCountersSeg
<1>3. StartHash \/ WaitHash \/ HashAuth \/ UpdateReplyType => Arc
  BY DEF StartHash, WaitHash, HashAuth, UpdateReplyType
<1>4. CheckPkt \/ CmpPktCheck \/ CmpPktDone \/ FilterPkt => Arc
  BY DEF CheckPkt, CmpPktCheck, CmpPktDone, FilterPkt
<1>5. CmpPktArea32 \/ CmpPktArea24 \/ CmpPktArea16 \/ CmpPktArea8 => Arc
  BY DEF CmpPktArea32, CmpPktArea24, CmpPktArea16, CmpPktArea8, CmpPktArea
<1>6. SetDNSReplyHeader \/ SetDNSReplyCount \/ SetDefaultMAC => Arc
  BY DEF SetDNSReplyHeader, SetDNSReplyCount, SetDefaultMAC
<1>7. ASSUME NEW x \in Sections, CopyStep(x) PROVE Arc
  BY <1>7 DEF CopyStep, ReplyQueryMeta, ReplyQueryList, UpdateFilterMeta, UpdateFilterList
<1>8. ASSUME NEW x \in AddrSections, ListStep(x) PROVE Arc
  BY <1>8 DEF ListStep, CheckList, CmpList, FilterMatch, Move, Ban
<1> HIDE DEF Arc
<1>9. CoreCycle => Arc
  BY <1>1, <1>2, <1>3, <1>4, <1>5, <1>6, <1>7, <1>8, StepCases DEF SingleStep
<1> QED
  BY <1>9 DEF Arc

\* A cycle keeps Flow.
LEMMA FlowStep == IndInv /\ Clock => Flow'
<1> SUFFICES ASSUME IndInv, Clock PROVE Flow'
  OBVIOUS
<1>1. /\ s' = "Read" => s = "Idle" /\ el_rcv_dv
      /\ el_rcv_ack' => s' = "CheckAdmin"
      /\ s' \in Untouched => \/ s = "Read" /\ rd' = el_rcv_data
                             \/ s \in Untouched /\ rd' = rd
  BY FlowArcs DEF Clock
<1>2. Flow
  BY DEF IndInv
<1>3. el_rcv_dv' = (el_rcv_dv /\ ~el_rcv_ack) /\ el_rcv_data' = el_rcv_data
  BY DEF Clock, FifoHead
<1>4. s' = "Read" => el_rcv_dv'
  BY <1>1, <1>2, <1>3 DEF Flow
<1>5. s' \in Untouched => rd' \in Packets
  BY <1>1, <1>2 DEF Flow
<1>6. el_rcv_dv' => el_rcv_data' \in Packets
  BY <1>2, <1>3 DEF Flow
<1> QED
  BY <1>1, <1>4, <1>5, <1>6 DEF Flow

\* How a hash is asked for, awaited and used.
LEMMA HashArcs == CoreCycle =>
  /\ siphash_start' => s = "StartHash" /\ s' = "WaitHash"
  /\ s = "WaitHash" => rd' = rd /\ (s' = IF siphash_ready THEN "HashAuth" ELSE "WaitHash")
  /\ s' = "HashAuth" => s = "WaitHash"
  /\ s' \in UpdateStates => rd' = rd /\ (s \in UpdateStates \/ (s = "HashAuth" /\ ahv = rd.mac))
<1> DEFINE Arc ==
      /\ siphash_start' => s = "StartHash" /\ s' = "WaitHash"
      /\ s = "WaitHash" => rd' = rd /\ (s' = IF siphash_ready THEN "HashAuth" ELSE "WaitHash")
      /\ s' = "HashAuth" => s = "WaitHash"
      /\ s' \in UpdateStates => rd' = rd /\ (s \in UpdateStates \/ (s = "HashAuth" /\ ahv = rd.mac))
<1> USE DEF UpdateStates, NoPulse
<1>1. Idle \/ Read \/ CheckAdmin \/ CheckQuery \/ Send => Arc
  BY DEF Idle, Read, CheckAdmin, CheckQuery, Send
<1>2. ReplyQueryHeader \/ ReplyQueryReplyType \/ ReplyQueryCountersTot \/ ReplyQueryCountersSeg => Arc
  BY DEF ReplyQueryHeader, ReplyQueryReplyType, ReplyQueryCountersTot, ReplyQueryCountersSeg
<1>3. StartHash \/ WaitHash \/ HashAuth \/ UpdateReplyType => Arc
  BY DEF StartHash, WaitHash, HashAuth, UpdateReplyType
<1>4. CheckPkt \/ CmpPktCheck \/ CmpPktDone \/ FilterPkt => Arc
  BY DEF CheckPkt, CmpPktCheck, CmpPktDone, FilterPkt
<1>5. CmpPktArea32 \/ CmpPktArea24 \/ CmpPktArea16 \/ CmpPktArea8 => Arc
  BY DEF CmpPktArea32, CmpPktArea24, CmpPktArea16, CmpPktArea8, CmpPktArea
<1>6. SetDNSReplyHeader \/ SetDNSReplyCount \/ SetDefaultMAC => Arc
  BY DEF SetDNSReplyHeader, SetDNSReplyCount, SetDefaultMAC
<1>7. ASSUME NEW x \in Sections, CopyStep(x) PROVE Arc
  BY <1>7 DEF CopyStep, ReplyQueryMeta, ReplyQueryList, UpdateFilterMeta, UpdateFilterList
<1>8. ASSUME NEW x \in AddrSections, ListStep(x) PROVE Arc
  BY <1>8 DEF ListStep, CheckList, CmpList, FilterMatch, Move, Ban
<1> HIDE DEF Arc
<1>9. CoreCycle => Arc
  BY <1>1, <1>2, <1>3, <1>4, <1>5, <1>6, <1>7, <1>8, StepCases DEF SingleStep
<1> QED
  BY <1>9 DEF Arc

\* A cycle keeps HashInv: the hasher answers the request it was given, and the
\* answer is in ahv by the time the core compares it.
LEMMA HashStep == IndInv /\ Clock => HashInv'
<1> SUFFICES ASSUME IndInv, Clock PROVE HashInv'
  OBVIOUS
<1>1. /\ siphash_start' => s = "StartHash" /\ s' = "WaitHash"
      /\ s = "WaitHash" => rd' = rd /\ (s' = IF siphash_ready THEN "HashAuth" ELSE "WaitHash")
      /\ s' = "HashAuth" => s = "WaitHash"
      /\ s' \in UpdateStates => rd' = rd /\ (s \in UpdateStates \/ (s = "HashAuth" /\ ahv = rd.mac))
  BY HashArcs DEF Clock
<1>2. HashInv /\ hs \in {"Idle", "Busy", "Output"} /\ hc \in 0 .. HashLatency
  BY DEF IndInv, TypeOK
<1>3. Siphasher /\ ahv' = v0
  BY DEF Clock, LatchHash
<1>4. siphash_start' => s' = "WaitHash" /\ hs' = "Idle"
  BY <1>1, <1>2, <1>3 DEF HashInv, Siphasher
<1>5. hs' = "Busy" => s' = "WaitHash" /\ ~siphash_start' /\ hd' = rd'.cfg /\ hc' >= 1
  BY <1>1, <1>2, <1>3 DEF HashInv, Siphasher
<1>6. hs' = "Output" => s' = "WaitHash" /\ ~siphash_start' /\ v0' = Hash(rd'.cfg)
  BY <1>1, <1>2, <1>3 DEF HashInv, Siphasher
<1>7. siphash_ready' => /\ s' = "WaitHash" /\ hs' = "Idle" /\ ~siphash_start'
                        /\ v0' = Hash(rd'.cfg) /\ ahv' = Hash(rd'.cfg)
  BY <1>1, <1>2, <1>3 DEF HashInv, Siphasher
<1>8. HashFresh'
  BY <1>1, <1>2, <1>3 DEF HashInv, HashFresh
<1>9. s' \in UpdateStates => Authentic(rd')
  BY <1>1, <1>2 DEF HashInv, HashFresh, Authentic
<1> QED
  BY <1>4, <1>5, <1>6, <1>7, <1>8, <1>9 DEF HashInv, UpdateStates

-------------------------------------------------------------------------------
(* The two copies.                                                           *)

\* The order of the sections.
LEMMA SectionOrder ==
  /\ \A x \in Sections : x \notin Before(x) /\ Before(x) \subseteq Sections
  /\ \A x \in AddrSections : Before(After(x)) = Before(x) \cup {x}
  /\ Before("srcMAC") = {} /\ Before("dns") = AddrSections
  /\ Sections = Before("dns") \cup {"dns"}
  BY DEF Sections, AddrSections, Before, After

\* The steps of one copy, from b into a, in section x with counter i.
CopyMeta(a, a2, b, x) ==
    a2 = [a EXCEPT !.BW[x] = b.BW[x], !.Length[x] = b.Length[x],
                   !.dnsItemEndPtr = IF x = "dns" THEN b.dnsItemEndPtr ELSE @]

CopyEntry(a, a2, b, x, i) ==
    a2 = IF x = "dns" THEN [a EXCEPT !.dnsList[i] = b.dnsList[i]]
                      ELSE [a EXCEPT !.List[x][i] = b.List[x][i]]

\* Copying the settings of section x opens it and keeps the others.
LEMMA AgreeMeta ==
  ASSUME NEW L, NEW a \in FilterWith(L), NEW b, NEW x \in Sections, NEW a2,
         CopyMeta(a, a2, b, x)
  PROVE  /\ Agree(a2, b, x, 0)
         /\ \A y \in Sections \ {x} : Agree(a, b, y, FilterDepth) => Agree(a2, b, y, FilterDepth)
<1>1. /\ a2.BW[x] = b.BW[x] /\ a2.Length[x] = b.Length[x]
      /\ x = "dns" => a2.dnsItemEndPtr = b.dnsItemEndPtr
      /\ x # "dns" => a2.dnsItemEndPtr = a.dnsItemEndPtr
      /\ a2.List = a.List /\ a2.dnsList = a.dnsList
      /\ \A y \in Sections \ {x} : a2.BW[y] = a.BW[y] /\ a2.Length[y] = a.Length[y]
  BY DEF FilterWith, CopyMeta
<1>2. \A e \in Entries : ~(e < 0)
  BY DEF Entries
<1>3. Agree(a2, b, x, 0)
  BY <1>1, <1>2 DEF Agree
<1>4. ASSUME NEW y \in Sections \ {x}, Agree(a, b, y, FilterDepth)
      PROVE  Agree(a2, b, y, FilterDepth)
  <2>1. a2.BW[y] = b.BW[y] /\ a2.Length[y] = b.Length[y]
    BY <1>1, <1>4 DEF Agree
  <2>2. y = "dns" => a2.dnsItemEndPtr = b.dnsItemEndPtr
    BY <1>1, <1>4 DEF Agree
  <2> QED
    BY <1>1, <1>4, <2>1, <2>2 DEF Agree
<1> QED
  BY <1>3, <1>4

\* Copying entry i of section x does the entries before i + 1, and keeps the
\* other sections.
LEMMA AgreeEntry ==
  ASSUME NEW L, NEW a \in FilterWith(L), NEW b, NEW x \in Sections, NEW i \in Entries, NEW a2,
         CopyEntry(a, a2, b, x, i)
  PROVE  /\ Agree(a, b, x, i) => Agree(a2, b, x, i + 1)
         /\ \A y \in Sections \ {x} : Agree(a, b, y, FilterDepth) => Agree(a2, b, y, FilterDepth)
<1>1. \A e \in Entries : e < i + 1 => e < i \/ e = i
  BY DEF Entries
<1>2. CASE x = "dns"
  <2>1. /\ a2.BW = a.BW /\ a2.Length = a.Length /\ a2.List = a.List
        /\ a2.dnsItemEndPtr = a.dnsItemEndPtr
        /\ a2.dnsList[i] = b.dnsList[i]
        /\ \A e \in Entries \ {i} : a2.dnsList[e] = a.dnsList[e]
    BY <1>2 DEF FilterWith, CopyEntry
  <2> QED
    BY <1>1, <1>2, <2>1 DEF Agree
<1>3. CASE x # "dns"
  <2>1. /\ a2.BW = a.BW /\ a2.Length = a.Length /\ a2.dnsList = a.dnsList
        /\ a2.dnsItemEndPtr = a.dnsItemEndPtr
        /\ a2.List[x][i] = b.List[x][i]
        /\ \A e \in Entries \ {i} : a2.List[x][e] = a.List[x][e]
        /\ \A y \in AddrSections \ {x} : a2.List[y] = a.List[y]
    BY <1>3 DEF FilterWith, Sections, CopyEntry
  <2>2. Agree(a, b, x, i) => Agree(a2, b, x, i + 1)
    BY <1>1, <1>3, <2>1 DEF Agree
  <2>3. ASSUME NEW y \in Sections \ {x}, Agree(a, b, y, FilterDepth)
        PROVE  Agree(a2, b, y, FilterDepth)
    BY <2>1, <2>3 DEF Agree, Sections
  <2> QED
    BY <2>2, <2>3
<1> QED
  BY <1>2, <1>3

\* What each of them achieves.
LEMMA CopyMetaDone ==
  ASSUME NEW L, NEW a \in FilterWith(L), NEW b, NEW x \in Sections, NEW a2,
         CopyMeta(a, a2, b, x), Done(a, b, x)
  PROVE  Done(a2, b, x) /\ Agree(a2, b, x, 0)
<1>1. /\ Agree(a2, b, x, 0)
      /\ \A y \in Sections \ {x} : Agree(a, b, y, FilterDepth) => Agree(a2, b, y, FilterDepth)
  BY AgreeMeta
<1> QED
  BY <1>1, SectionOrder DEF Done

\* The same for one entry.
LEMMA CopyEntryDone ==
  ASSUME NEW L, NEW a \in FilterWith(L), NEW b, NEW x \in Sections, NEW a2, NEW i \in Entries,
         CopyEntry(a, a2, b, x, i), Done(a, b, x), Agree(a, b, x, i)
  PROVE  Done(a2, b, x) /\ Agree(a2, b, x, i + 1)
<1>1. /\ Agree(a, b, x, i) => Agree(a2, b, x, i + 1)
      /\ \A y \in Sections \ {x} : Agree(a, b, y, FilterDepth) => Agree(a2, b, y, FilterDepth)
  BY AgreeEntry
<1> QED
  BY <1>1, SectionOrder DEF Done

\* A section whose counter has reached the end is done.
LEMMA CopySectionDone ==
  ASSUME NEW a, NEW b, NEW x \in Sections, Done(a, b, x), Agree(a, b, x, FilterDepth)
  PROVE  /\ x # "dns" => Done(a, b, After(x))
         /\ x = "dns" => \A y \in Sections : Agree(a, b, y, FilterDepth)
  BY SectionOrder DEF Done, Sections

\* A configuration that agrees with a sound one on every section is sound.
LEMMA AgreeSound ==
  ASSUME NEW a \in Filter, NEW b, SoundFilter(b), \A y \in Sections : Agree(a, b, y, FilterDepth)
  PROVE  SoundFilter(a)
<1>1. Agree(a, b, "dns", FilterDepth)
  BY DEF Sections
<1>2. \A e \in Entries : e < FilterDepth
  BY DEF Entries
<1> QED
  BY <1>1, <1>2 DEF SoundFilter, Agree

\* Which steps enter and leave the copying states.
LEMMA CopyArcs == CoreCycle =>
      /\ s' \notin UpdateStates => UpdateReplyType \/ (f' = f /\ s \notin UpdateStates)
      /\ s' \in {"UpdateFilterMeta", "UpdateFilterList"} =>
           \/ s' = "UpdateFilterMeta" /\ k' = "srcMAC"
           \/ \E x \in Sections : UpdateFilterMeta(x) \/ UpdateFilterList(x)
      /\ s' = "UpdateReplyType" => \E x \in Sections : UpdateFilterList(x)
      /\ s' \in {"ReplyQueryMeta", "ReplyQueryList"} =>
           \/ s' = "ReplyQueryMeta" /\ k' = "srcMAC"
           \/ \E x \in Sections : ReplyQueryMeta(x) \/ ReplyQueryList(x)
      /\ s' = "ReplyQueryReplyType" => \E x \in Sections : ReplyQueryList(x)
<1> DEFINE Arc ==
      /\ s' \notin UpdateStates => UpdateReplyType \/ (f' = f /\ s \notin UpdateStates)
      /\ s' \in {"UpdateFilterMeta", "UpdateFilterList"} =>
           \/ s' = "UpdateFilterMeta" /\ k' = "srcMAC"
           \/ \E x \in Sections : UpdateFilterMeta(x) \/ UpdateFilterList(x)
      /\ s' = "UpdateReplyType" => \E x \in Sections : UpdateFilterList(x)
      /\ s' \in {"ReplyQueryMeta", "ReplyQueryList"} =>
           \/ s' = "ReplyQueryMeta" /\ k' = "srcMAC"
           \/ \E x \in Sections : ReplyQueryMeta(x) \/ ReplyQueryList(x)
      /\ s' = "ReplyQueryReplyType" => \E x \in Sections : ReplyQueryList(x)
<1> USE DEF UpdateStates, NoPulse
<1>1. Idle \/ Read \/ CheckAdmin \/ CheckQuery \/ Send => Arc
  BY DEF Idle, Read, CheckAdmin, CheckQuery, Send
<1>2. ReplyQueryHeader \/ ReplyQueryReplyType \/ ReplyQueryCountersTot \/ ReplyQueryCountersSeg => Arc
  BY DEF ReplyQueryHeader, ReplyQueryReplyType, ReplyQueryCountersTot, ReplyQueryCountersSeg
<1>3. StartHash \/ WaitHash \/ HashAuth => Arc
  BY DEF StartHash, WaitHash, HashAuth
<1>4. UpdateReplyType => Arc
  BY DEF UpdateReplyType
<1>5. CheckPkt \/ CmpPktCheck \/ CmpPktDone \/ FilterPkt => Arc
  BY DEF CheckPkt, CmpPktCheck, CmpPktDone, FilterPkt
<1>6. CmpPktArea32 \/ CmpPktArea24 \/ CmpPktArea16 \/ CmpPktArea8 => Arc
  BY DEF CmpPktArea32, CmpPktArea24, CmpPktArea16, CmpPktArea8, CmpPktArea
<1>7. SetDNSReplyHeader \/ SetDNSReplyCount \/ SetDefaultMAC => Arc
  BY DEF SetDNSReplyHeader, SetDNSReplyCount, SetDefaultMAC
<1>8. ASSUME NEW x \in Sections, CopyStep(x) PROVE Arc
  BY <1>8 DEF CopyStep, ReplyQueryMeta, ReplyQueryList, UpdateFilterMeta, UpdateFilterList
<1>9. ASSUME NEW x \in AddrSections, ListStep(x) PROVE Arc
  BY <1>9 DEF ListStep, CheckList, CmpList, FilterMatch, Move, Ban
<1> HIDE DEF Arc
<1>10. CoreCycle => Arc
  BY <1>1, <1>2, <1>3, <1>4, <1>5, <1>6, <1>7, <1>8, <1>9, StepCases DEF SingleStep
<1> QED
  BY <1>10 DEF Arc

\* The copy of an admin packet into the filter makes progress.
UpdateCopy == /\ s \in {"UpdateFilterMeta", "UpdateFilterList"} => Done(f, rd.cfg, k)
              /\ s = "UpdateFilterList" => Agree(f, rd.cfg, k, ac[AdminCounter(k)])
              /\ s = "UpdateReplyType" => \A y \in Sections : Agree(f, rd.cfg, y, FilterDepth)

\* Each of its steps does.
LEMMA UpdateCopyStep ==
  ASSUME IndInv, NEW x \in Sections, UpdateFilterMeta(x) \/ UpdateFilterList(x)
  PROVE  UpdateCopy'
<1> DEFINE L == 0 .. FilterDepth
<1> DEFINE i == ac[AdminCounter(x)]
<1>1. f \in FilterWith(L) /\ i \in 0 .. FilterDepth /\ k = x /\ rd' = rd
  BY SectionFacts DEF IndInv, TypeOK, Filter, UpdateFilterMeta, UpdateFilterList
<1>2. Done(f, rd.cfg, x) /\ (s = "UpdateFilterList" => Agree(f, rd.cfg, x, i))
  BY <1>1 DEF IndInv, CopyInv, UpdateFilterMeta, UpdateFilterList
<1>3. CASE UpdateFilterMeta(x)
  <2>1. CopyMeta(f, f', rd.cfg, x)
    BY <1>3 DEF UpdateFilterMeta, CopyMeta
  <2>2. Done(f', rd.cfg, x) /\ Agree(f', rd.cfg, x, 0)
    <3> HIDE DEF L
    <3> QED
      BY <1>1, <1>2, <2>1, CopyMetaDone
  <2>3. s' = "UpdateFilterList" /\ k' = x /\ ac'[AdminCounter(x)] = 0
    BY <1>1, <1>3, SectionFacts DEF UpdateFilterMeta, IndInv, TypeOK
  <2> QED
    BY <1>1, <2>2, <2>3 DEF UpdateCopy
<1>4. CASE UpdateFilterList(x) /\ i < FilterDepth
  <2>1. CopyEntry(f, f', rd.cfg, x, i) /\ i \in Entries
    BY <1>1, <1>4 DEF UpdateFilterList, CopyEntry, Entries
  <2>2. Done(f', rd.cfg, x) /\ Agree(f', rd.cfg, x, i + 1)
    <3>1. Agree(f, rd.cfg, x, i)
      BY <1>2, <1>4 DEF UpdateFilterList
    <3> HIDE DEF L, i
    <3> QED
      BY <1>1, <1>2, <2>1, <3>1, CopyEntryDone
  <2>3. s' = "UpdateFilterList" /\ k' = x /\ ac'[AdminCounter(x)] = i + 1
    <3>1. s' = s /\ k' = k /\ ac' = [ac EXCEPT ![AdminCounter(x)] = i + 1] /\ s = "UpdateFilterList"
      BY <1>1, <1>4 DEF UpdateFilterList
    <3>2. ac \in [{"amc", "aic", "apc", "adc"} -> 0 .. FilterDepth]
      BY DEF IndInv, TypeOK
    <3> QED
      BY <1>1, <3>1, <3>2, SectionFacts
  <2> QED
    BY <1>1, <2>2, <2>3 DEF UpdateCopy
<1>5. CASE UpdateFilterList(x) /\ i >= FilterDepth
  <2>1. i = FilterDepth
    BY <1>1, <1>5
  <2>2. Agree(f, rd.cfg, x, FilterDepth)
    BY <1>2, <1>5, <2>1 DEF UpdateFilterList
  <2>3. /\ x # "dns" => Done(f, rd.cfg, After(x))
        /\ x = "dns" => \A y \in Sections : Agree(f, rd.cfg, y, FilterDepth)
    BY <1>2, <2>2, CopySectionDone
  <2>4. /\ f' = f /\ k' = After(x)
        /\ s' = IF x = "dns" THEN "UpdateReplyType" ELSE "UpdateFilterMeta"
    BY <1>5, <2>1 DEF UpdateFilterList
  <2> QED
    BY <1>1, <2>3, <2>4 DEF UpdateCopy
<1> QED
  BY <1>1, <1>3, <1>4, <1>5

\* The copy of the filter into the answer to a probe makes progress.
QueryCopy == /\ s \in {"ReplyQueryMeta", "ReplyQueryList"} => Done(rd.cfg, f, k)
             /\ s = "ReplyQueryList" => Agree(rd.cfg, f, k, ac[AdminCounter(k)])
             /\ s = "ReplyQueryReplyType" => \A y \in Sections : Agree(rd.cfg, f, y, FilterDepth)

\* Each of its steps does.
LEMMA QueryCopyStep ==
  ASSUME IndInv, NEW x \in Sections, ReplyQueryMeta(x) \/ ReplyQueryList(x)
  PROVE  QueryCopy'
<1> DEFINE i == ac[AdminCounter(x)]
<1>1. rd \in Packet /\ rd.cfg \in FilterWith(Nat) /\ i \in 0 .. FilterDepth /\ k = x /\ f' = f
  BY SectionFacts DEF IndInv, TypeOK, Packet, RawFilter, ReplyQueryMeta, ReplyQueryList
<1>2. Done(rd.cfg, f, x) /\ (s = "ReplyQueryList" => Agree(rd.cfg, f, x, i))
  BY <1>1 DEF IndInv, CopyInv, ReplyQueryMeta, ReplyQueryList
<1>3. CASE ReplyQueryMeta(x)
  <2>1. CopyMeta(rd.cfg, rd'.cfg, f, x)
    BY <1>1, <1>3 DEF ReplyQueryMeta, CopyMeta, Packet
  <2>2. Done(rd'.cfg, f, x) /\ Agree(rd'.cfg, f, x, 0)
    BY <1>1, <1>2, <2>1, CopyMetaDone
  <2>3. s' = "ReplyQueryList" /\ k' = x /\ ac'[AdminCounter(x)] = 0
    BY <1>1, <1>3, SectionFacts DEF ReplyQueryMeta, IndInv, TypeOK
  <2> QED
    BY <1>1, <2>2, <2>3 DEF QueryCopy
<1>4. CASE ReplyQueryList(x) /\ i < FilterDepth
  <2>1. CopyEntry(rd.cfg, rd'.cfg, f, x, i) /\ i \in Entries
    BY <1>1, <1>4 DEF ReplyQueryList, CopyEntry, Entries, Packet
  <2>2. Done(rd'.cfg, f, x) /\ Agree(rd'.cfg, f, x, i + 1)
    <3>1. Agree(rd.cfg, f, x, i)
      BY <1>2, <1>4 DEF ReplyQueryList
    <3> HIDE DEF i
    <3> QED
      BY <1>1, <1>2, <2>1, <3>1, CopyEntryDone
  <2>3. s' = "ReplyQueryList" /\ k' = x /\ ac'[AdminCounter(x)] = i + 1
    BY <1>1, <1>4, SectionFacts DEF ReplyQueryList, IndInv, TypeOK
  <2> QED
    BY <1>1, <2>2, <2>3 DEF QueryCopy
<1>5. CASE ReplyQueryList(x) /\ i >= FilterDepth
  <2>1. i = FilterDepth
    BY <1>1, <1>5
  <2>2. Agree(rd.cfg, f, x, FilterDepth)
    BY <1>2, <1>5, <2>1 DEF ReplyQueryList
  <2>3. /\ x # "dns" => Done(rd.cfg, f, After(x))
        /\ x = "dns" => \A y \in Sections : Agree(rd.cfg, f, y, FilterDepth)
    BY <1>2, <2>2, CopySectionDone
  <2>4. /\ rd' = rd /\ k' = After(x)
        /\ s' = IF x = "dns" THEN "ReplyQueryReplyType" ELSE "ReplyQueryMeta"
    BY <1>5, <2>1 DEF ReplyQueryList
  <2> QED
    BY <1>1, <2>3, <2>4 DEF QueryCopy
<1> QED
  BY <1>1, <1>3, <1>4, <1>5

\* A cycle keeps CopyInv: a configuration is sound again when it is next used.
LEMMA CopyStepInv == IndInv /\ Clock => CopyInv'
<1> SUFFICES ASSUME IndInv, Clock PROVE CopyInv'
  OBVIOUS
<1> DEFINE Arc ==
      /\ s' \notin UpdateStates => UpdateReplyType \/ (f' = f /\ s \notin UpdateStates)
      /\ s' \in {"UpdateFilterMeta", "UpdateFilterList"} =>
           \/ s' = "UpdateFilterMeta" /\ k' = "srcMAC"
           \/ \E x \in Sections : UpdateFilterMeta(x) \/ UpdateFilterList(x)
      /\ s' = "UpdateReplyType" => \E x \in Sections : UpdateFilterList(x)
      /\ s' \in {"ReplyQueryMeta", "ReplyQueryList"} =>
           \/ s' = "ReplyQueryMeta" /\ k' = "srcMAC"
           \/ \E x \in Sections : ReplyQueryMeta(x) \/ ReplyQueryList(x)
      /\ s' = "ReplyQueryReplyType" => \E x \in Sections : ReplyQueryList(x)
<1>1. Arc
  BY CopyArcs DEF Clock
<1>2. s' \notin UpdateStates => SoundFilter(f')
  <2>1. CASE UpdateReplyType
    <3>1. SoundFilter(rd.cfg) /\ \A y \in Sections : Agree(f, rd.cfg, y, FilterDepth)
      BY <2>1, UpdateSound DEF UpdateReplyType, UpdateStates, IndInv, CopyInv
    <3>2. f' \in Filter
      BY TypeF DEF Clock
    <3>3. f \in FilterWith(0 .. FilterDepth)
      BY DEF IndInv, TypeOK, Filter
    <3>4. /\ f'.BW = f.BW /\ f'.Length = f.Length /\ f'.List = f.List
          /\ f'.dnsItemEndPtr = f.dnsItemEndPtr /\ f'.dnsList = f.dnsList
      BY <2>1, <3>3 DEF UpdateReplyType, FilterWith
    <3>5. \A y \in Sections : Agree(f', rd.cfg, y, FilterDepth)
      BY <3>1, <3>4 DEF Agree
    <3> QED
      BY <3>1, <3>2, <3>5, AgreeSound
  <2> QED
    BY <1>1, <2>1 DEF IndInv, CopyInv
<1>3. UpdateCopy'
  <2>1. CASE \E x \in Sections : UpdateFilterMeta(x) \/ UpdateFilterList(x)
    BY <2>1, UpdateCopyStep
  <2>2. CASE s' = "UpdateFilterMeta" /\ k' = "srcMAC"
    BY <2>2, SectionOrder DEF UpdateCopy, Done
  <2>3. CASE s' \notin {"UpdateFilterMeta", "UpdateFilterList", "UpdateReplyType"}
    BY <2>3 DEF UpdateCopy
  <2> QED
    BY <1>1, <2>1, <2>2, <2>3
<1>4. QueryCopy'
  <2>1. CASE \E x \in Sections : ReplyQueryMeta(x) \/ ReplyQueryList(x)
    BY <2>1, QueryCopyStep
  <2>2. CASE s' = "ReplyQueryMeta" /\ k' = "srcMAC"
    BY <2>2, SectionOrder DEF QueryCopy, Done
  <2>3. CASE s' \notin {"ReplyQueryMeta", "ReplyQueryList", "ReplyQueryReplyType"}
    BY <2>3 DEF QueryCopy
  <2> QED
    BY <1>1, <2>1, <2>2, <2>3
<1> QED
  BY <1>2, <1>3, <1>4 DEF CopyInv, UpdateCopy, QueryCopy, UpdateStates

-------------------------------------------------------------------------------
(* The packet counters.                                                      *)

\* Where a packet enters the sections.
LEMMA JudgingArcs == CoreCycle =>
  /\ s' \in AddrStates => CheckQuery \/ \E x \in AddrSections : ListStep(x)
  /\ s' \in PktStates => \/ \E x \in AddrSections : ListStep(x)
                         \/ CheckPkt \/ CmpPktCheck \/ CmpPktDone
                         \/ CmpPktArea32 \/ CmpPktArea24 \/ CmpPktArea16 \/ CmpPktArea8
  /\ s' = "SetDNSReplyHeader" => CheckPkt \/ FilterPkt
<1> DEFINE Arc ==
      /\ s' \in AddrStates => CheckQuery \/ \E x \in AddrSections : ListStep(x)
      /\ s' \in PktStates => \/ \E x \in AddrSections : ListStep(x)
                             \/ CheckPkt \/ CmpPktCheck \/ CmpPktDone
                             \/ CmpPktArea32 \/ CmpPktArea24 \/ CmpPktArea16 \/ CmpPktArea8
      /\ s' = "SetDNSReplyHeader" => CheckPkt \/ FilterPkt
<1> USE DEF AddrStates, PktStates, AreaStates
<1>1. Idle \/ Read \/ CheckAdmin \/ CheckQuery \/ Send => Arc
  BY DEF Idle, Read, CheckAdmin, CheckQuery, Send
<1>2. ReplyQueryHeader \/ ReplyQueryReplyType \/ ReplyQueryCountersTot \/ ReplyQueryCountersSeg => Arc
  BY DEF ReplyQueryHeader, ReplyQueryReplyType, ReplyQueryCountersTot, ReplyQueryCountersSeg
<1>3. StartHash \/ WaitHash \/ HashAuth \/ UpdateReplyType => Arc
  BY DEF StartHash, WaitHash, HashAuth, UpdateReplyType
<1>4. CheckPkt \/ CmpPktCheck \/ CmpPktDone \/ FilterPkt => Arc
  BY DEF CheckPkt, CmpPktCheck, CmpPktDone, FilterPkt
<1>5. CmpPktArea32 \/ CmpPktArea24 \/ CmpPktArea16 \/ CmpPktArea8 => Arc
  BY DEF CmpPktArea32, CmpPktArea24, CmpPktArea16, CmpPktArea8, CmpPktArea
<1>6. SetDNSReplyHeader \/ SetDNSReplyCount \/ SetDefaultMAC => Arc
  BY DEF SetDNSReplyHeader, SetDNSReplyCount, SetDefaultMAC
<1>7. ASSUME NEW x \in Sections, CopyStep(x) PROVE Arc
  BY <1>7 DEF CopyStep, ReplyQueryMeta, ReplyQueryList, UpdateFilterMeta, UpdateFilterList
<1>8. ASSUME NEW x \in AddrSections, ListStep(x) PROVE Arc
  <2>1. s' # "SetDNSReplyHeader"
    BY <1>8 DEF ListStep, CheckList, CmpList, FilterMatch, Move, Ban
  <2> QED
    BY <1>8, <2>1
<1> HIDE DEF Arc
<1>9. CoreCycle => Arc
  BY <1>1, <1>2, <1>3, <1>4, <1>5, <1>6, <1>7, <1>8, StepCases DEF SingleStep
<1> QED
  BY <1>9 DEF Arc

\* A section that accepts the packet counts it once.
LEMMA CountList ==
  ASSUME IndInv, NEW x \in AddrSections, ListStep(x)
  PROVE  CountInv'
<1>0. /\ stc \in Nat /\ sfc \in Nat /\ smc \in Nat /\ sic \in Nat /\ spc \in Nat
      /\ CountInv
  BY DEF IndInv, TypeOK
<1>1. stc' = stc /\ sfc' = sfc /\ s \in AddrStates /\ k = x
  BY DEF ListStep, CheckList, CmpList, FilterMatch, counters, AddrStates
<1>2. \/ Move(x)
      \/ s' \in AddrStates /\ k' = k /\ smc' = smc /\ sic' = sic /\ spc' = spc
      \/ s' = "Idle" /\ smc' = smc /\ sic' = sic /\ spc' = spc
  BY DEF ListStep, CheckList, CmpList, FilterMatch, counters, AddrStates, Ban
<1>3. CASE s' \in AddrStates /\ k' = k /\ smc' = smc /\ sic' = sic /\ spc' = spc
  BY <1>0, <1>1, <1>3 DEF CountInv, CountersNested, AddrStates, PktStates, AreaStates
<1>4. CASE s' = "Idle" /\ smc' = smc /\ sic' = sic /\ spc' = spc
  BY <1>0, <1>1, <1>4 DEF CountInv, CountersNested, AddrStates, PktStates, AreaStates
<1>5. CASE Move(x)
  BY <1>0, <1>1, <1>5
  DEF Move, After, AddrSections, CountInv, CountersNested, AddrStates, PktStates, AreaStates
<1> QED
  BY <1>2, <1>3, <1>4, <1>5

\* A cycle keeps CountInv.
LEMMA CountStep == IndInv /\ Clock => CountInv'
<1> SUFFICES ASSUME IndInv, Clock PROVE CountInv'
  OBVIOUS
<1>0. /\ stc \in Nat /\ sfc \in Nat /\ smc \in Nat /\ sic \in Nat /\ spc \in Nat
      /\ CountInv
  BY DEF IndInv, TypeOK
<1> USE DEF CountInv, CountersNested, AddrStates, PktStates, AreaStates
<1>1. CASE CheckQuery
  BY <1>0, <1>1 DEF CheckQuery
<1>2. CASE CheckPkt
  BY <1>0, <1>2 DEF CheckPkt
<1>3. CASE FilterPkt
  BY <1>0, <1>3 DEF FilterPkt
<1>4. CASE CmpPktCheck \/ CmpPktDone
  BY <1>0, <1>4 DEF CmpPktCheck, CmpPktDone, counters
<1>5. CASE CmpPktArea32 \/ CmpPktArea24 \/ CmpPktArea16 \/ CmpPktArea8
  BY <1>0, <1>5 DEF CmpPktArea32, CmpPktArea24, CmpPktArea16, CmpPktArea8, CmpPktArea, counters
<1>6. CASE s' \notin AddrStates \cup PktStates /\ counters' = counters
  BY <1>0, <1>6 DEF counters
<1>7. CASE \E x \in AddrSections : ListStep(x)
  BY <1>7, CountList
<1>8. \/ counters' = counters \/ CheckQuery \/ CheckPkt \/ FilterPkt
      \/ \E x \in AddrSections : ListStep(x)
  BY Frame DEF FrameOK, Clock
<1>9. /\ s' \in AddrStates => CheckQuery \/ \E x \in AddrSections : ListStep(x)
      /\ s' \in PktStates => \/ \E x \in AddrSections : ListStep(x)
                             \/ CheckPkt \/ CmpPktCheck \/ CmpPktDone
                             \/ CmpPktArea32 \/ CmpPktArea24 \/ CmpPktArea16 \/ CmpPktArea8
  BY JudgingArcs DEF Clock
<1> HIDE DEF CountInv, CountersNested, AddrStates, PktStates, AreaStates
<1> QED
  BY <1>1, <1>2, <1>3, <1>4, <1>5, <1>6, <1>7, <1>8, <1>9

-------------------------------------------------------------------------------
(* The scan of the lists.                                                    *)

\* What the invariant says of the values the scan works with.
ScanTypes == /\ fc \in [Sections -> 0 .. FilterDepth]
             /\ \A x \in Sections : f.Length[x] \in 0 .. FilterDepth /\ f.BW[x] \in {0, 1}
             /\ fpktsc \in 0 .. PktBytes /\ fpktc \in 0 .. ItemBytes /\ fpktmf \in BOOLEAN
             /\ \A i \in Entries : f.dnsItemEndPtr[i] \in 0 .. ItemBytes
             /\ PayloadEnd(rd) \in 0 .. PktBytes

\* It does.
LEMMA ScanTypesHold == IndInv => ScanTypes
<1> SUFFICES ASSUME IndInv PROVE ScanTypes
  OBVIOUS
<1>1. f \in FilterWith(0 .. FilterDepth) /\ rd \in Packet
  BY DEF IndInv, TypeOK, Filter
<1>2. /\ \A x \in Sections : f.Length[x] \in 0 .. FilterDepth /\ f.BW[x] \in {0, 1}
      /\ \A i \in Entries : f.dnsItemEndPtr[i] \in 0 .. ItemBytes
  BY <1>1, FilterParts
<1>3. PayloadEnd(rd) \in 0 .. PktBytes
  BY <1>1 DEF PayloadEnd, Packet
<1>4. /\ fc \in [Sections -> 0 .. FilterDepth]
      /\ fpktsc \in 0 .. PktBytes /\ fpktc \in 0 .. ItemBytes /\ fpktmf \in BOOLEAN
  BY DEF IndInv, TypeOK
<1> QED
  BY <1>2, <1>3, <1>4 DEF ScanTypes

\* An exhausted blacklist accepts.
LEMMA ExhaustedAccepts ==
  ASSUME NEW c, NEW p, NEW x \in AddrSections, c.BW[x] = 0,
         \A i \in Entries : i < c.Length[x] => c.List[x][i] # p.addr[x]
  PROVE  Accepts(c, p, x)
  BY DEF Accepts, Hit, Listed, AddrSections

\* A whitelist accepts what is on it.
LEMMA MatchedAccepts ==
  ASSUME NEW c, NEW p, NEW x \in AddrSections, c.BW[x] = 1,
         NEW i \in Entries, i < c.Length[x], c.List[x][i] = p.addr[x]
  PROVE  Accepts(c, p, x)
  BY DEF Accepts, Hit, Listed, AddrSections

\* Outside the judging states ScanSound says nothing.
LEMMA ScanElsewhere ==
  s' \notin AddrStates \cup PktStates \cup {"SetDNSReplyHeader"} => ScanSound'
<1> SUFFICES ASSUME s' \notin AddrStates \cup PktStates \cup {"SetDNSReplyHeader"} PROVE ScanSound'
  OBVIOUS
<1>1. AddrScan' /\ PktScan' /\ WindowScan'
  BY DEF AddrScan, PktScan, WindowScan, AddrStates, PktStates
<1> QED
  BY <1>1 DEF ScanSound, Judging, AddrStates, PktStates

\* A section that accepts the packet hands it to the next one.
LEMMA MoveSound ==
  ASSUME IndInv, NEW x \in AddrSections, Move(x), k = x, s \in AddrStates,
         f' = f, rd' = rd, Accepts(f, rd, x)
  PROVE  ScanSound'
<1>0. ScanTypes
  BY ScanTypesHold
<1>1. \A y \in Before(k') : Accepts(f', rd', y)
  <2>1. \A y \in Before(x) : Accepts(f, rd, y)
    BY DEF IndInv, ScanSound, Judging
  <2>2. Before(k') = Before(x) \cup {x}
    BY SectionOrder DEF Move
  <2> QED
    BY <2>1, <2>2
<1>2. /\ k' \in Sections /\ fc'[k'] = 0 /\ s' \in {"Check", "CheckPkt"}
      /\ s' = "Check" => k' \in AddrSections
      /\ s' = "CheckPkt" => k' = "dns"
  BY <1>0, SectionFacts DEF Move, After, AddrSections, Sections, ScanTypes
<1>3. f'.Length[k'] >= 0 /\ \A i \in Entries : ~(i < 0)
  BY <1>0, <1>2 DEF ScanTypes, Entries
<1>4. AddrScan'
  BY <1>2, <1>3 DEF AddrScan, AddrStates
<1>5. PktScan' /\ WindowScan'
  BY <1>2, <1>3 DEF PktScan, WindowScan, PktStates, AreaStates
<1> QED
  BY <1>1, <1>2, <1>4, <1>5 DEF ScanSound

\* The steps of an address list keep ScanSound.
LEMMA ScanList ==
  ASSUME IndInv, NEW x \in AddrSections, ListStep(x)
  PROVE  ScanSound'
<1>0. ScanTypes
  BY ScanTypesHold
<1>1. f' = f /\ rd' = rd /\ k = x /\ s \in AddrStates /\ x \in Sections
  BY SectionFacts DEF ListStep, CheckList, CmpList, FilterMatch, AddrStates
<1>2. /\ fc[x] <= f.Length[x]
      /\ s # "Check" => fc[x] < f.Length[x]
      /\ s # "Match" => \A i \in Entries : i < fc[x] => f.List[x][i] # rd.addr[x]
      /\ s = "Match" => f.List[x][fc[x]] = rd.addr[x]
      /\ \A y \in Before(x) : Accepts(f, rd, y)
  BY <1>1 DEF IndInv, ScanSound, AddrScan, Judging
<1>3. CASE Move(x)
  <2>1. CASE CheckList(x)
    <3>1. fc[x] = f.Length[x] /\ f.BW[x] = 0 /\ s = "Check"
      BY <1>3, <2>1 DEF CheckList, Move, Ban
    <3>2. Accepts(f, rd, x)
      BY <1>2, <3>1, ExhaustedAccepts
    <3> QED
      BY <1>1, <1>3, <3>2, MoveSound
  <2>2. CASE FilterMatch(x)
    <3>1. f.BW[x] = 1 /\ s = "Match"
      BY <1>0, <1>1, <1>3, <2>2 DEF FilterMatch, Move, Ban, ScanTypes
    <3>2. fc[x] \in Entries
      BY <1>0, <1>1, <1>2, <3>1 DEF ScanTypes, Entries
    <3>3. Accepts(f, rd, x)
      BY <1>2, <3>1, <3>2, MatchedAccepts
    <3> QED
      BY <1>1, <1>3, <3>3, MoveSound
  <2>3. ~CmpList(x)
    <3>1. CmpList(x) => \/ s' = "Match"
                        \/ s' = "Check" /\ k' = k
      BY DEF CmpList
    <3>2. s' \in {"Check", "CheckPkt"} /\ k' # x
      BY <1>3 DEF Move, After, AddrSections
    <3> QED
      BY <1>1, <3>1, <3>2
  <2> QED
    BY <2>1, <2>2, <2>3 DEF ListStep
<1>4. CASE Ban(x)
  <2>1. s' = "Idle"
    BY <1>4 DEF Ban
  <2> QED
    BY <2>1, ScanElsewhere DEF AddrStates, PktStates, AreaStates
<1>5. CASE CheckList(x) /\ s' = "Cmp" /\ k' = k /\ fc' = fc /\ fc[x] # f.Length[x]
  <2>1. s = "Check"
    BY <1>5 DEF CheckList
  <2>2. fc[x] < f.Length[x]
    BY <1>0, <1>1, <1>2, <1>5 DEF ScanTypes
  <2>3. AddrScan'
    BY <1>1, <1>2, <1>5, <2>1, <2>2 DEF AddrScan
  <2>4. PktScan' /\ WindowScan'
    BY <1>5 DEF PktScan, WindowScan, PktStates, AreaStates
  <2> QED
    BY <1>1, <1>2, <1>5, <2>3, <2>4 DEF ScanSound
<1>6. CASE CmpList(x)
  <2>1. k' = x /\ s = "Cmp"
    BY <1>1, <1>6 DEF CmpList
  <2>2. \/ s' = "Match" /\ fc' = fc /\ f.List[x][fc[x]] = rd.addr[x]
        \/ s' = "Check" /\ fc'[x] = fc[x] + 1 /\ f.List[x][fc[x]] # rd.addr[x]
    BY <1>0, <1>1, <1>6 DEF CmpList, ScanTypes
  <2>3. AddrScan'
    <3>1. CASE s' = "Match" /\ fc' = fc /\ f.List[x][fc[x]] = rd.addr[x]
      BY <1>1, <1>2, <2>1, <3>1 DEF AddrScan
    <3>2. CASE s' = "Check" /\ fc'[x] = fc[x] + 1 /\ f.List[x][fc[x]] # rd.addr[x]
      <4>1. fc'[x] <= f.Length[x]
        BY <1>0, <1>1, <1>2, <2>1, <3>2 DEF ScanTypes
      <4>2. \A i \in Entries : i < fc'[x] => i < fc[x] \/ i = fc[x]
        BY <1>0, <1>1, <3>2 DEF ScanTypes, Entries
      <4>3. \A i \in Entries : i < fc'[x] => f.List[x][i] # rd.addr[x]
        BY <1>2, <2>1, <3>2, <4>2
      <4> QED
        BY <1>1, <2>1, <3>2, <4>1, <4>3 DEF AddrScan
    <3> QED
      BY <2>2, <3>1, <3>2
  <2>4. PktScan' /\ WindowScan'
    BY <2>2 DEF PktScan, WindowScan, PktStates, AreaStates
  <2>5. s' # "FilterPkt" /\ s' # "SetDNSReplyHeader"
    BY <2>2
  <2> QED
    BY <1>1, <1>2, <2>1, <2>3, <2>4, <2>5 DEF ScanSound
<1>7. \/ Move(x) \/ Ban(x) \/ CmpList(x)
      \/ CheckList(x) /\ s' = "Cmp" /\ k' = k /\ fc' = fc /\ fc[x] # f.Length[x]
  BY DEF ListStep, CheckList, FilterMatch
<1> QED
  BY <1>3, <1>4, <1>5, <1>6, <1>7

\* In the domain states the six address sections have accepted, and the items
\* before the current one do not occur.
LEMMA PktFacts == IndInv /\ s \in PktStates =>
  /\ k = "dns"
  /\ fc["dns"] <= f.Length["dns"]
  /\ s # "CheckPkt" => fc["dns"] < f.Length["dns"] /\ fc["dns"] \in Entries
                       /\ ItemEnd \in 0 .. ItemBytes
  /\ \A i \in Entries : i < fc["dns"] => ~Contains(f, rd, i)
  /\ \A y \in AddrSections : Accepts(f, rd, y)
<1> SUFFICES ASSUME IndInv, s \in PktStates
             PROVE  /\ k = "dns"
                    /\ fc["dns"] <= f.Length["dns"]
                    /\ s # "CheckPkt" => fc["dns"] < f.Length["dns"] /\ fc["dns"] \in Entries
                                         /\ ItemEnd \in 0 .. ItemBytes
                    /\ \A i \in Entries : i < fc["dns"] => ~Contains(f, rd, i)
                    /\ \A y \in AddrSections : Accepts(f, rd, y)
  OBVIOUS
<1>1. PktScan /\ ScanTypes
  BY ScanTypesHold DEF IndInv, ScanSound
<1>2. \A y \in AddrSections : Accepts(f, rd, y)
  BY <1>1, SectionOrder DEF IndInv, ScanSound, Judging, PktScan
<1>3. s # "CheckPkt" => fc["dns"] < f.Length["dns"] /\ fc["dns"] \in Entries
  BY <1>1 DEF PktScan, ScanTypes, Entries, Sections
<1>4. s # "CheckPkt" => ItemEnd \in 0 .. ItemBytes
  BY <1>1, <1>3 DEF ScanTypes, ItemEnd
<1> QED
  BY <1>1, <1>2, <1>3, <1>4 DEF PktScan

\* A step that stays in the domain states and in the same item.
LEMMA PktStay ==
  ASSUME IndInv, s \in PktStates, s' \in PktStates \ {"CheckPkt", "FilterPkt"},
         f' = f, rd' = rd, k' = k, fc' = fc, fc["dns"] < f.Length["dns"], WindowScan'
  PROVE  ScanSound'
<1>1. PktScan'
  BY PktFacts DEF PktScan
<1>2. AddrScan'
  BY DEF AddrScan, AddrStates, PktStates, AreaStates
<1>3. \A y \in Before(k') : Accepts(f', rd', y)
  BY PktFacts, SectionOrder
<1>4. s' # "SetDNSReplyHeader" /\ s' # "FilterPkt"
  BY DEF PktStates, AreaStates
<1> QED
  BY <1>1, <1>2, <1>3, <1>4 DEF ScanSound

\* Once the domain section has accepted, all seven have.
LEMMA AllAccept ==
  ASSUME IndInv, s \in PktStates, s' = "SetDNSReplyHeader", f' = f, rd' = rd,
         Accepts(f, rd, "dns")
  PROVE  ScanSound'
<1>1. \A x \in Sections : Accepts(f', rd', x)
  BY PktFacts DEF Sections
<1>2. AddrScan' /\ PktScan' /\ WindowScan' /\ ~Judging'
  BY DEF AddrScan, PktScan, WindowScan, Judging, AddrStates, PktStates, AreaStates
<1> QED
  BY <1>1, <1>2 DEF ScanSound

\* Opening an item, or finding the domain list exhausted.
LEMMA ScanCheckPkt == IndInv /\ CheckPkt => ScanSound'
<1> SUFFICES ASSUME IndInv, CheckPkt PROVE ScanSound'
  OBVIOUS
<1>0. ScanTypes /\ s \in PktStates /\ s = "CheckPkt" /\ f' = f /\ rd' = rd /\ k' = k /\ fc' = fc
  BY ScanTypesHold DEF CheckPkt, PktStates
<1>1. CASE fc["dns"] = f.Length["dns"] /\ f.BW["dns"] = 0
  <2>1. ~DomainListed(f, rd)
    BY <1>0, <1>1, PktFacts DEF DomainListed
  <2>2. Accepts(f, rd, "dns")
    BY <1>1, <2>1 DEF Accepts, Hit
  <2>3. s' = "SetDNSReplyHeader"
    BY <1>1 DEF CheckPkt
  <2> QED
    BY <1>0, <2>2, <2>3, AllAccept
<1>2. CASE fc["dns"] = f.Length["dns"] /\ f.BW["dns"] # 0
  <2>1. s' = "Idle"
    BY <1>2 DEF CheckPkt
  <2> QED
    BY <2>1, ScanElsewhere DEF AddrStates, PktStates, AreaStates
<1>3. CASE fc["dns"] # f.Length["dns"]
  <2>1. fc["dns"] < f.Length["dns"]
    BY <1>0, <1>3, PktFacts DEF ScanTypes, Sections
  <2>2. s' = "CmpPktCheck" /\ fpktsc' = 0 /\ fpktc' = ItemEnd /\ ItemEnd' = ItemEnd
    BY <1>0, <1>3 DEF CheckPkt, ItemEnd
  <2>3. ItemEnd \in 0 .. ItemBytes
    BY <1>0, <2>1 DEF ScanTypes, ItemEnd, Entries, Sections
  <2>4. WindowScan'
    <3> DEFINE e == ItemEnd
    <3>1. e \in Nat /\ fpktc' = e /\ ItemEnd' = e
      BY <2>2, <2>3
    <3> HIDE DEF e
    <3>2. fpktc' <= ItemEnd' /\ \A j \in ItemIndex : ~(fpktc' <= j /\ j < ItemEnd')
      BY <3>1 DEF ItemIndex
    <3>3. \A o \in 0 .. PktBytes : ~(o < fpktsc')
      BY <2>2
    <3> QED
      BY <2>2, <3>2, <3>3 DEF WindowScan
  <2> QED
    BY <1>0, <2>1, <2>2, <2>4, PktStay DEF PktStates
<1> QED
  BY <1>1, <1>2, <1>3

\* What is known of the window.
LEMMA WindowFacts == IndInv /\ s \in PktStates \ {"CheckPkt", "FilterPkt"} =>
  /\ fpktsc = 0 \/ fpktsc + ItemEnd <= PayloadEnd(rd)
  /\ \A o \in 0 .. PktBytes : o < fpktsc => ~OccursAt(f, rd, fc["dns"], o)
  /\ s # "CmpPktDone" =>
        /\ fpktc <= ItemEnd
        /\ \A j \in ItemIndex : fpktc <= j /\ j < ItemEnd
                                  => rd.dnsPkt[fpktsc + j] = f.dnsList[fc["dns"]][j]
  /\ s = "CmpPktDone" => (fpktmf <=> OccursAt(f, rd, fc["dns"], fpktsc))
  BY DEF IndInv, ScanSound, WindowScan

\* Choosing the next comparison, or finding the whole item compared.
LEMMA ScanCmpPktCheck == IndInv /\ CmpPktCheck => ScanSound'
<1> SUFFICES ASSUME IndInv, CmpPktCheck PROVE ScanSound'
  OBVIOUS
<1>0. /\ ScanTypes /\ s = "CmpPktCheck" /\ s \in PktStates /\ s \notin {"CheckPkt", "FilterPkt"}
      /\ f' = f /\ rd' = rd /\ k' = k /\ fc' = fc
      /\ fpktsc' = fpktsc /\ fpktc' = fpktc /\ ItemEnd' = ItemEnd
  BY ScanTypesHold DEF CmpPktCheck, PktStates, ItemEnd
<1>1. fpktc \in Nat
  BY <1>0 DEF ScanTypes
<1>2. /\ s' \in AreaStates \cup {"CmpPktDone"}
      /\ s' = "CmpPktArea32" => fpktc >= 4
      /\ s' = "CmpPktArea24" => fpktc = 3
      /\ s' = "CmpPktArea16" => fpktc = 2
      /\ s' = "CmpPktArea8" => fpktc = 1
      /\ s' = "CmpPktDone" => fpktc = 0
  BY <1>1 DEF CmpPktCheck, AreaStates
<1>3. s' = "CmpPktDone" => fpktmf' /\ OccursAt(f, rd, fc["dns"], fpktsc)
  <2>1. s' = "CmpPktDone" => fpktmf'
    BY <1>2 DEF CmpPktCheck
  <2>2. fpktc = 0 => OccursAt(f, rd, fc["dns"], fpktsc)
    <3>1. \A j \in ItemIndex : fpktc <= j /\ j < ItemEnd
                                 => rd.dnsPkt[fpktsc + j] = f.dnsList[fc["dns"]][j]
      BY <1>0, WindowFacts
    <3>2. fpktc = 0 => \A j \in ItemIndex : fpktc <= j
      BY DEF ItemIndex
    <3> QED
      BY <3>1, <3>2 DEF OccursAt, ItemEnd
  <2> QED
    BY <1>2, <2>1, <2>2
<1>4. WindowScan'
  BY <1>0, <1>2, <1>3, WindowFacts DEF WindowScan
<1>5. s' \in PktStates \ {"CheckPkt", "FilterPkt"}
  BY <1>2 DEF PktStates, AreaStates
<1>6. fc["dns"] < f.Length["dns"]
  BY <1>0, PktFacts
<1> QED
  BY <1>0, <1>4, <1>5, <1>6, PktStay

\* Comparing the last w of the bytes that are left.
LEMMA ScanArea ==
  ASSUME IndInv, NEW w \in 1 .. 4, s \in AreaStates, fpktc >= w, CmpPktArea(w)
  PROVE  ScanSound'
<1>0. /\ ScanTypes /\ s \in PktStates /\ s \notin {"CheckPkt", "FilterPkt", "CmpPktDone"}
      /\ f' = f /\ rd' = rd /\ k' = k /\ fc' = fc /\ fpktsc' = fpktsc /\ ItemEnd' = ItemEnd
  BY ScanTypesHold DEF CmpPktArea, PktStates, AreaStates, ItemEnd
<1>1. fpktc \in Nat /\ fc["dns"] < f.Length["dns"] /\ ItemEnd \in Nat
  BY <1>0, PktFacts DEF ScanTypes
<1>2. /\ fpktc <= ItemEnd
      /\ \A j \in ItemIndex : fpktc <= j /\ j < ItemEnd
                                => rd.dnsPkt[fpktsc + j] = f.dnsList[fc["dns"]][j]
  BY <1>0, WindowFacts
<1>3. CASE \A j \in ItemIndex : fpktc - w <= j /\ j < fpktc
                                  => rd.dnsPkt[fpktsc + j] = f.dnsList[fc["dns"]][j]
  <2>1. s' = "CmpPktCheck" /\ fpktc' = fpktc - w
    BY <1>3 DEF CmpPktArea
  <2>2. \A j \in ItemIndex : fpktc - w <= j /\ j < ItemEnd => (fpktc - w <= j /\ j < fpktc) \/ (fpktc <= j /\ j < ItemEnd)
    BY <1>1 DEF ItemIndex
  <2>3. \A j \in ItemIndex : fpktc' <= j /\ j < ItemEnd
                               => rd.dnsPkt[fpktsc + j] = f.dnsList[fc["dns"]][j]
    BY <1>2, <1>3, <2>1, <2>2
  <2>4. fpktc' <= ItemEnd
    <3> DEFINE e == ItemEnd
    <3>1. e \in Nat /\ fpktc <= e
      BY <1>1, <1>2
    <3> HIDE DEF e
    <3>2. fpktc' <= e
      BY <1>1, <2>1, <3>1
    <3> QED
      BY <3>2 DEF e
  <2>5. WindowScan'
    BY <1>0, <2>1, <2>3, <2>4, WindowFacts DEF WindowScan
  <2> QED
    BY <1>0, <1>1, <2>1, <2>5, PktStay DEF PktStates
<1>4. CASE ~(\A j \in ItemIndex : fpktc - w <= j /\ j < fpktc
                                    => rd.dnsPkt[fpktsc + j] = f.dnsList[fc["dns"]][j])
  <2>1. s' = "CmpPktDone" /\ fpktmf' = FALSE
    BY <1>4 DEF CmpPktArea
  <2>2. PICK j \in ItemIndex : j < fpktc /\ rd.dnsPkt[fpktsc + j] # f.dnsList[fc["dns"]][j]
    BY <1>4
  <2>3. j < ItemEnd
    <3> DEFINE e == ItemEnd
    <3>1. e \in Nat /\ fpktc <= e
      BY <1>1, <1>2
    <3> HIDE DEF e
    <3>2. j < e
      BY <1>1, <2>2, <3>1 DEF ItemIndex
    <3> QED
      BY <3>2 DEF e
  <2>4. ~OccursAt(f, rd, fc["dns"], fpktsc)
    BY <2>2, <2>3 DEF OccursAt, ItemEnd
  <2>5. WindowScan'
    BY <1>0, <2>1, <2>4, WindowFacts DEF WindowScan
  <2> QED
    BY <1>0, <1>1, <2>1, <2>5, PktStay DEF PktStates
<1> QED
  BY <1>3, <1>4

\* An item that matches at the window lies inside the payload: an item longer
\* than the payload would have to match the cleared bytes behind it, and a
\* sound configuration has no zero byte in an item.
LEMMA MatchInside ==
  ASSUME IndInv, s = "CmpPktDone", OccursAt(f, rd, fc["dns"], fpktsc)
  PROVE  fpktsc + ItemEnd <= PayloadEnd(rd)
<1>0. ScanTypes /\ s \in PktStates /\ s \notin {"CheckPkt", "FilterPkt"}
  BY ScanTypesHold DEF PktStates
<1>1. fc["dns"] \in Entries /\ ItemEnd \in 0 .. ItemBytes
  BY <1>0, PktFacts
<1>2. /\ \A j \in PktIndex : j >= rd.dnsLength => rd.dnsPkt[j] = 0
      /\ rd.dnsLength \in Nat
  <2>1. rd \in Packets
    BY DEF IndInv, Flow, Untouched, PktStates
  <2> QED
    BY <2>1, PacketsAssumption DEF Received, Packet
<1>3. \A j \in ItemIndex : j < ItemEnd => f.dnsList[fc["dns"]][j] # 0
  <2>1. SoundFilter(f)
    BY DEF IndInv, CopyInv, UpdateStates
  <2> QED
    BY <1>1, <2>1 DEF SoundFilter, ItemEnd
<1>4. ASSUME fpktsc = 0, ItemEnd > PayloadEnd(rd) PROVE FALSE
  <2> DEFINE e == ItemEnd
             n == rd.dnsLength
  <2>1. PayloadEnd(rd) = n
    BY <1>0, <1>1, <1>2, <1>4 DEF PayloadEnd
  <2>2. e \in 0 .. ItemBytes /\ n \in Nat /\ n < e
    BY <1>1, <1>2, <1>4, <2>1
  <2>3. n \in ItemIndex /\ n \in PktIndex /\ fpktsc + n = n
    <3> HIDE DEF e, n
    <3> QED
      BY <1>4, <2>2 DEF ItemIndex, PktIndex
  <2>4. rd.dnsPkt[fpktsc + n] = f.dnsList[fc["dns"]][n]
    BY <2>2, <2>3 DEF OccursAt, ItemEnd
  <2>5. rd.dnsPkt[n] = 0
    BY <1>2, <2>2, <2>3
  <2> QED
    BY <1>3, <2>2, <2>3, <2>4, <2>5
<1>5. fpktsc = 0 \/ fpktsc + ItemEnd <= PayloadEnd(rd)
  BY <1>0, WindowFacts
<1> DEFINE e == ItemEnd
           q == PayloadEnd(rd)
<1>6. e \in Nat /\ q \in Nat /\ fpktsc \in Nat
  BY <1>0, <1>1 DEF ScanTypes
<1>7. ~(fpktsc = 0 /\ e > q)
  BY <1>4
<1>8. fpktsc = 0 \/ fpktsc + e <= q
  BY <1>5
<1>9. fpktsc + e <= q
  <2> HIDE DEF e, q
  <2> QED
    BY <1>6, <1>7, <1>8
<1> QED
  BY <1>9

\* The end of a comparison: a match, the next item, or the next byte.
LEMMA ScanCmpPktDone == IndInv /\ CmpPktDone => ScanSound'
<1> SUFFICES ASSUME IndInv, CmpPktDone PROVE ScanSound'
  OBVIOUS
<1>0. /\ ScanTypes /\ s = "CmpPktDone" /\ s \in PktStates /\ s \notin {"CheckPkt", "FilterPkt"}
      /\ f' = f /\ rd' = rd /\ k' = k /\ k = "dns"
  <2>1. s = "CmpPktDone" /\ s \in PktStates /\ s \notin {"CheckPkt", "FilterPkt"}
    BY DEF CmpPktDone, PktStates
  <2> QED
    BY <2>1, ScanTypesHold, PktFacts DEF CmpPktDone
<1>1. /\ fc["dns"] \in Entries /\ ItemEnd \in 0 .. ItemBytes /\ fc["dns"] < f.Length["dns"]
      /\ \A i \in Entries : i < fc["dns"] => ~Contains(f, rd, i)
      /\ \A y \in Before(k') : Accepts(f', rd', y)
  BY <1>0, PktFacts, SectionOrder
<1>2. /\ \A o \in 0 .. PktBytes : o < fpktsc => ~OccursAt(f, rd, fc["dns"], o)
      /\ fpktmf <=> OccursAt(f, rd, fc["dns"], fpktsc)
  BY <1>0, WindowFacts
<1>3. fpktsc \in 0 .. PktBytes /\ PayloadEnd(rd) \in 0 .. PktBytes
  BY <1>0 DEF ScanTypes
<1> DEFINE e == ItemEnd
           q == PayloadEnd(rd)
<1>4. e \in Nat /\ q \in 0 .. PktBytes
  BY <1>1, <1>3
<1>5. CASE fpktmf
  <2>1. s' = "FilterPkt" /\ fc' = fc
    BY <1>5 DEF CmpPktDone
  <2>2. Contains(f, rd, fc["dns"])
    BY <1>0, <1>2, <1>3, <1>5, MatchInside DEF Contains, ItemEnd
  <2>3. AddrScan' /\ WindowScan'
    BY <2>1 DEF AddrScan, WindowScan, AddrStates
  <2>4. PktScan'
    BY <1>0, <1>1, <2>1, PktFacts DEF PktScan
  <2> QED
    BY <1>0, <1>1, <2>1, <2>2, <2>3, <2>4 DEF ScanSound
<1>6. CASE ~fpktmf /\ fpktsc + ItemEnd >= PayloadEnd(rd)
  <2>1. s' = "CheckPkt" /\ fc' = [fc EXCEPT !["dns"] = fc["dns"] + 1]
    BY <1>3, <1>4, <1>6 DEF CmpPktDone
  <2>2. fc'["dns"] = fc["dns"] + 1
    BY <1>0, <2>1 DEF ScanTypes, Sections
  <2>3. ~Contains(f, rd, fc["dns"])
    <3>1. ASSUME NEW o \in 0 .. PktBytes, o + e <= q PROVE o <= fpktsc
      <4>1. fpktsc + e >= q
        BY <1>6
      <4> HIDE DEF e, q
      <4> QED
        BY <1>3, <1>4, <3>1, <4>1
    <3>2. ASSUME NEW o \in 0 .. PktBytes, o + e <= q PROVE ~OccursAt(f, rd, fc["dns"], o)
      <4>1. o < fpktsc \/ o = fpktsc
        BY <1>3, <3>1, <3>2
      <4> QED
        BY <1>2, <1>6, <4>1
    <3> QED
      BY <3>2 DEF Contains, ItemEnd
  <2>4. \A i \in Entries : i < fc'["dns"] => i < fc["dns"] \/ i = fc["dns"]
    BY <1>1, <2>2 DEF Entries
  <2>5. \A i \in Entries : i < fc'["dns"] => ~Contains(f', rd', i)
    BY <1>0, <1>1, <2>3, <2>4
  <2>6. fc'["dns"] <= f'.Length["dns"]
    BY <1>0, <1>1, <2>2 DEF ScanTypes, Sections, Entries
  <2>7. PktScan' /\ AddrScan' /\ WindowScan'
    BY <1>0, <2>1, <2>5, <2>6 DEF PktScan, AddrScan, WindowScan, AddrStates
  <2> QED
    BY <1>1, <2>1, <2>7 DEF ScanSound
<1>7. CASE ~fpktmf /\ fpktsc + ItemEnd < PayloadEnd(rd)
  <2>1. /\ s' = "CmpPktCheck" /\ fc' = fc /\ fpktsc' = fpktsc + 1 /\ fpktc' = ItemEnd
        /\ ItemEnd' = ItemEnd
    <3>1. ~(fpktsc + ItemEnd >= PayloadEnd(rd))
      <4>1. fpktsc + e < q
        BY <1>7
      <4> HIDE DEF e, q
      <4>2. ~(fpktsc + e >= q)
        BY <1>3, <1>4, <4>1
      <4> QED
        BY <4>2 DEF e, q
    <3>2. s' = "CmpPktCheck" /\ fc' = fc /\ fpktsc' = fpktsc + 1 /\ fpktc' = ItemEnd
      BY <1>7, <3>1 DEF CmpPktDone
    <3> QED
      BY <1>0, <3>2 DEF ItemEnd
  <2>2. fpktsc' + e <= q
    <3>1. fpktsc + e < q
      BY <1>7
    <3> HIDE DEF e, q
    <3> QED
      BY <1>3, <1>4, <2>1, <3>1
  <2>3. \A o \in 0 .. PktBytes : o < fpktsc' => o < fpktsc \/ o = fpktsc
    BY <1>3, <2>1
  <2>4. \A o \in 0 .. PktBytes : o < fpktsc' => ~OccursAt(f', rd', fc'["dns"], o)
    BY <1>0, <1>2, <1>7, <2>1, <2>3
  <2>5. fpktc' <= ItemEnd' /\ \A j \in ItemIndex : ~(fpktc' <= j /\ j < ItemEnd')
    <3>1. fpktc' = e /\ ItemEnd' = e
      BY <2>1
    <3> HIDE DEF e
    <3> QED
      BY <1>4, <3>1 DEF ItemIndex
  <2>6. fpktsc' + ItemEnd' <= PayloadEnd(rd')
    BY <1>0, <2>1, <2>2
  <2>7. WindowScan'
    BY <2>1, <2>4, <2>5, <2>6 DEF WindowScan
  <2> QED
    BY <1>0, <1>1, <2>1, <2>7, PktStay DEF PktStates
<1>8. fpktmf \/ (~fpktmf /\ fpktsc + ItemEnd >= PayloadEnd(rd))
             \/ (~fpktmf /\ fpktsc + ItemEnd < PayloadEnd(rd))
  BY DEF CmpPktDone
<1> QED
  BY <1>5, <1>6, <1>7, <1>8

\* A domain match is turned into the verdict.
LEMMA ScanFilterPkt == IndInv /\ FilterPkt => ScanSound'
<1> SUFFICES ASSUME IndInv, FilterPkt PROVE ScanSound'
  OBVIOUS
<1>0. ScanTypes /\ s = "FilterPkt" /\ s \in PktStates /\ f' = f /\ rd' = rd
  BY ScanTypesHold DEF FilterPkt, PktStates
<1>1. CASE f.BW["dns"] = 0
  <2>1. s' = "Idle"
    BY <1>1 DEF FilterPkt
  <2> QED
    BY <2>1, ScanElsewhere DEF AddrStates, PktStates, AreaStates
<1>2. CASE f.BW["dns"] # 0
  <2>1. s' = "SetDNSReplyHeader" /\ f.BW["dns"] = 1
    BY <1>0, <1>2 DEF FilterPkt, ScanTypes, Sections
  <2>2. fc["dns"] \in Entries /\ fc["dns"] < f.Length["dns"]
    BY <1>0, PktFacts
  <2>3. Contains(f, rd, fc["dns"])
    BY <1>0 DEF IndInv, ScanSound
  <2>4. Accepts(f, rd, "dns")
    BY <2>1, <2>2, <2>3 DEF Accepts, Hit, DomainListed
  <2> QED
    BY <1>0, <2>1, <2>4, AllAccept
<1> QED
  BY <1>1, <1>2

\* A packet enters the first section.
LEMMA ScanCheckQuery == IndInv /\ CheckQuery => ScanSound'
<1> SUFFICES ASSUME IndInv, CheckQuery PROVE ScanSound'
  OBVIOUS
<1>0. ScanTypes
  BY ScanTypesHold
<1>1. CASE s' = "ReplyQueryHeader"
  BY <1>1, ScanElsewhere DEF AddrStates, PktStates, AreaStates
<1>2. CASE s' # "ReplyQueryHeader"
  <2>1. s' = "Check" /\ k' = "srcMAC" /\ fc'["srcMAC"] = 0 /\ f' = f
    BY <1>0, <1>2 DEF CheckQuery, ScanTypes, Sections, AddrSections
  <2>2. f.Length["srcMAC"] >= 0 /\ \A i \in Entries : ~(i < 0)
    BY <1>0 DEF ScanTypes, Entries, Sections, AddrSections
  <2>3. AddrScan'
    BY <2>1, <2>2 DEF AddrScan, AddrSections
  <2>4. PktScan' /\ WindowScan'
    BY <2>1 DEF PktScan, WindowScan, PktStates, AreaStates
  <2> QED
    BY <2>1, <2>3, <2>4, SectionOrder DEF ScanSound
<1> QED
  BY <1>1, <1>2

\* A cycle keeps ScanSound.
LEMMA ScanStep == IndInv /\ Clock => ScanSound'
<1> SUFFICES ASSUME IndInv, Clock PROVE ScanSound'
  OBVIOUS
<1>1. /\ s' \in AddrStates => CheckQuery \/ \E x \in AddrSections : ListStep(x)
      /\ s' \in PktStates => \/ \E x \in AddrSections : ListStep(x)
                             \/ CheckPkt \/ CmpPktCheck \/ CmpPktDone
                             \/ CmpPktArea32 \/ CmpPktArea24 \/ CmpPktArea16 \/ CmpPktArea8
      /\ s' = "SetDNSReplyHeader" => CheckPkt \/ FilterPkt
  BY JudgingArcs DEF Clock
<1>2. CASE CmpPktArea32 \/ CmpPktArea24 \/ CmpPktArea16 \/ CmpPktArea8
  <2>1. s \in AreaStates /\ fpktc \in Nat
    BY <1>2 DEF CmpPktArea32, CmpPktArea24, CmpPktArea16, CmpPktArea8, AreaStates, IndInv, TypeOK
  <2>2. \E w \in 1 .. 4 : fpktc >= w /\ CmpPktArea(w)
    <3>1. /\ s = "CmpPktArea32" => fpktc >= 4
          /\ s = "CmpPktArea24" => fpktc >= 3
          /\ s = "CmpPktArea16" => fpktc >= 2
          /\ s = "CmpPktArea8" => fpktc >= 1
      BY <2>1 DEF IndInv, ScanSound, WindowScan, PktStates, AreaStates
    <3>2. \/ fpktc >= 4 /\ CmpPktArea(4)
          \/ fpktc >= 3 /\ CmpPktArea(3)
          \/ fpktc >= 2 /\ CmpPktArea(2)
          \/ fpktc >= 1 /\ CmpPktArea(1)
      BY <1>2, <3>1 DEF CmpPktArea32, CmpPktArea24, CmpPktArea16, CmpPktArea8
    <3>3. 1 \in 1 .. 4 /\ 2 \in 1 .. 4 /\ 3 \in 1 .. 4 /\ 4 \in 1 .. 4
      OBVIOUS
    <3> QED
      BY <3>2, <3>3
  <2> QED
    BY <2>1, <2>2, ScanArea
<1>3. CASE \E x \in AddrSections : ListStep(x)
  BY <1>3, ScanList
<1> QED
  BY <1>1, <1>2, <1>3, ScanCheckQuery, ScanCheckPkt, ScanCmpPktCheck, ScanCmpPktDone,
     ScanFilterPkt, ScanElsewhere

-------------------------------------------------------------------------------
(* The invariant.                                                            *)

\* It holds of the initial states.
LEMMA InitInd == Init => IndInv
<1> SUFFICES ASSUME Init PROVE IndInv
  OBVIOUS
<1> USE DEF Init
<1>1. SoundFilter(f) /\ f \in Filter
  BY BootAssumption DEF SoundFilter
<1>2. f \in RawFilter
  BY <1>1 DEF Filter, RawFilter, FilterWith
<1>3. BlankPacket(f) \in Packet
  BY <1>2 DEF BlankPacket, Packet, Counters, NoCounters, Byte
<1>4. TypeOK
  <2>1. s \in States /\ k \in Sections
    BY DEF States, Sections, AddrSections
  <2>2. /\ fc \in [Sections -> 0 .. FilterDepth]
        /\ ac \in [{"amc", "aic", "apc", "adc"} -> 0 .. FilterDepth]
    OBVIOUS
  <2>3. fpktsc \in 0 .. PktBytes /\ fpktc \in 0 .. ItemBytes
    OBVIOUS
  <2>4. /\ stc \in Nat /\ sfc \in Nat /\ smc \in Nat /\ sic \in Nat /\ spc \in Nat
        /\ led \in 0 .. 15 /\ pc \in 0 .. 15 /\ offered \in Nat /\ hc \in 0 .. HashLatency
    OBVIOUS
  <2>5. /\ snd_en \in BOOLEAN /\ el_rcv_ack \in BOOLEAN /\ siphash_start \in BOOLEAN
        /\ el_rcv_dv \in BOOLEAN /\ siphash_ready \in BOOLEAN /\ fpktmf \in BOOLEAN
    OBVIOUS
  <2>6. hs \in {"Idle", "Busy", "Output"} /\ hd \in RawFilter /\ v0 \in Tag /\ ahv \in Tag
    BY <1>2
  <2> QED
    BY <1>1, <1>3, <2>1, <2>2, <2>3, <2>4, <2>5, <2>6 DEF TypeOK
<1>5. Flow /\ HashInv
  BY DEF Flow, HashInv, HashFresh, Untouched, HashStates, UpdateStates, AddrStates, PktStates,
         AreaStates
<1>6. CopyInv
  BY <1>1 DEF CopyInv
<1>7. CountInv
  BY DEF CountInv, CountersNested, AddrStates, PktStates, AreaStates
<1>8. ScanSound
  BY DEF ScanSound, AddrScan, PktScan, WindowScan, Judging, AddrStates, PktStates, AreaStates
<1> QED
  BY <1>4, <1>5, <1>6, <1>7, <1>8 DEF IndInv

\* The core's part of the invariant does not look at the FIFO's head.
LEMMA OfferStep == ASSUME IndInv, NEW p \in Packets, Offer(p) PROVE IndInv'
<1>1. UNCHANGED <<core, hasher>> /\ el_rcv_dv' = TRUE /\ el_rcv_data' = p /\ offered' = offered + 1
  BY DEF Offer
<1>2. TypeOK'
  <2>1. p \in Packet
    BY PacketsAssumption DEF Received
  <2>2. offered' \in Nat
    BY <1>1 DEF IndInv, TypeOK
  <2> QED
    BY <1>1, <2>1, <2>2 DEF IndInv, TypeOK, core, hasher, scan, counters, panel
<1>3. Flow'
  BY <1>1 DEF IndInv, Flow, core
<1>4. HashInv'
  BY <1>1 DEF IndInv, HashInv, HashFresh, core, hasher
<1>5. CopyInv'
  BY <1>1 DEF IndInv, CopyInv, Done, Agree, core
<1>6. CountInv'
  BY <1>1 DEF IndInv, CountInv, CountersNested, core, counters
<1>7. ScanSound'
  BY <1>1 DEF IndInv, ScanSound, AddrScan, PktScan, WindowScan, Judging, ItemEnd, core, scan
<1> QED
  BY <1>2, <1>3, <1>4, <1>5, <1>6, <1>7 DEF IndInv

\* Nor does a step that changes nothing disturb it.
LEMMA StutterStep == IndInv /\ UNCHANGED vars => IndInv'
<1> SUFFICES ASSUME IndInv, UNCHANGED vars PROVE IndInv'
  OBVIOUS
<1>1. UNCHANGED core /\ UNCHANGED head /\ UNCHANGED hasher
  BY DEF vars
<1>2. TypeOK'
  BY <1>1 DEF IndInv, TypeOK, core, head, hasher, scan, counters, panel
<1>3. Flow'
  BY <1>1 DEF IndInv, Flow, core, head
<1>4. HashInv'
  BY <1>1 DEF IndInv, HashInv, HashFresh, core, hasher
<1>5. CopyInv'
  BY <1>1 DEF IndInv, CopyInv, Done, Agree, core
<1>6. CountInv'
  BY <1>1 DEF IndInv, CountInv, CountersNested, core, counters
<1>7. ScanSound'
  BY <1>1 DEF IndInv, ScanSound, AddrScan, PktScan, WindowScan, Judging, ItemEnd, core, scan
<1> QED
  BY <1>2, <1>3, <1>4, <1>5, <1>6, <1>7 DEF IndInv

\* Every behaviour of the core input processor satisfies the invariant.
THEOREM Invariance == Spec => []IndInv
<1>1. Init => IndInv
  BY InitInd
<1>2. IndInv /\ [Next]_vars => IndInv'
  <2>1. IndInv /\ Clock => IndInv'
    BY TypeStep, FlowStep, HashStep, CopyStepInv, CountStep, ScanStep DEF IndInv
  <2> QED
    BY <2>1, OfferStep, StutterStep DEF Next
<1> QED
  BY <1>1, <1>2, PTL DEF Spec

\* Registers and counters keep their ranges, for lists and payloads of any
\* size: no comparison or copy of i.vhd indexes outside its array.
THEOREM TypeCorrect == Spec => []TypeOK
<1>1. IndInv => TypeOK
  BY DEF IndInv
<1> QED
  BY <1>1, Invariance, PTL

\* The tag HashAuth compares is the hash of the packet in work, for any latency
\* of siphasher.vhd.
THEOREM HashIsFresh == Spec => []HashFresh
<1>1. IndInv => HashFresh
  BY DEF IndInv, HashInv
<1> QED
  BY <1>1, Invariance, PTL

\* The core never takes a packet twice and never takes one that is not there.
THEOREM PacketTakenOnce == Spec => []TakenOnce
<1>1. IndInv => TakenOnce
  BY DEF IndInv, Flow, TakenOnce
<1> QED
  BY <1>1, Invariance, PTL

\* The counters a probe reports are nested, after any number of packets.
THEOREM CountersAreNested == Spec => []CountersNested
<1>1. IndInv => CountersNested
  BY DEF IndInv, CountInv
<1> QED
  BY <1>1, Invariance, PTL

\* The verdict of the lists is the reference verdict, for lists, items and
\* payloads of any size: only a packet that all seven sections accept is
\* answered.
THEOREM ScanIsSound == Spec => []ScanSound
<1>1. IndInv => ScanSound
  BY DEF IndInv
<1> QED
  BY <1>1, Invariance, PTL
-------------------------------------------------------------------------------
(* CoreIn implements PacketFilter, for lists, items and payloads of any      *)
(* size, any packets and any hash.                                           *)

-------------------------------------------------------------------------------
(* What the routes have decided and written.                                 *)

\* A packet on the hashing route is an admin packet, one that is looked at as a
\* query is not.
KindInv == /\ snd_en => s = "Idle"
           /\ s \in HashStates => rd.addr["dstMAC"] = AdminMAC
           /\ s = "CheckQuery" => rd.addr["dstMAC"] # AdminMAC

\* What the answer to a probe holds already.
SnapshotInv == /\ s \in QueryStates \ {"ReplyQueryHeader"} => rd.ipLength = 201 /\ rd.dnsLength = 128
               /\ s \in {"ReplyQueryCountersTot", "ReplyQueryCountersSeg"} => rd.cfg = f
               /\ s = "ReplyQueryCountersSeg" => /\ rd.stats.stc = stc /\ rd.stats.sfc = sfc
                                                 /\ rd.addr["dstMAC"] = QueryMAC

\* What the answer to a normal packet holds already.
AnswerInv == /\ s = "SetDNSReplyCount" => /\ f.replyType # 0
                                          /\ rd.dnsPkt[2] = 132 /\ rd.dnsPkt[3] = 51
             /\ s = "SetDefaultMAC" /\ f.replyType # 0 => /\ rd.ipLength = 130 /\ rd.dnsLength = 12
                                                          /\ rd.dnsPkt = DNSHeader(rd)

RouteInv == KindInv /\ SnapshotInv /\ AnswerInv

-------------------------------------------------------------------------------
(* Configurations and answers as records.                                    *)

\* Configurations that agree on every section and reply alike are equal.
LEMMA AgreeEqual ==
  ASSUME NEW a \in RawFilter, NEW b \in RawFilter, a.replyType = b.replyType,
         \A y \in Sections : Agree(a, b, y, FilterDepth)
  PROVE  a = b
<1>0. \A e \in Entries : e < FilterDepth
  BY DEF Entries
<1>1. a.BW = b.BW /\ a.Length = b.Length
  BY DEF Agree, RawFilter, FilterWith
<1>2. a.List = b.List
  <2>1. \A x \in AddrSections : \A e \in Entries : a.List[x][e] = b.List[x][e]
    BY <1>0 DEF Agree, Sections, AddrSections
  <2>2. a.List \in [AddrSections -> [Entries -> Addr]] /\ b.List \in [AddrSections -> [Entries -> Addr]]
    BY DEF RawFilter, FilterWith
  <2>3. \A x \in AddrSections : a.List[x] = b.List[x]
    BY <2>1, <2>2
  <2> QED
    BY <2>2, <2>3
<1>3. Agree(a, b, "dns", FilterDepth)
  BY DEF Sections
<1>4. a.dnsItemEndPtr = b.dnsItemEndPtr
  BY <1>3 DEF Agree
<1>5. a.dnsList = b.dnsList
  <2>1. \A e \in Entries : a.dnsList[e] = b.dnsList[e]
    BY <1>0, <1>3 DEF Agree
  <2>2. a.dnsList \in [Entries -> [ItemIndex -> Byte]] /\ b.dnsList \in [Entries -> [ItemIndex -> Byte]]
    BY DEF RawFilter, FilterWith
  <2> QED
    BY <2>1, <2>2
<1> QED
  BY <1>1, <1>2, <1>4, <1>5 DEF RawFilter, FilterWith

\* A configuration that fits the lists is one a payload can spell.
LEMMA FilterIsRaw == \A c \in Filter : c \in RawFilter
  BY DEF Filter, RawFilter, FilterWith

\* A packet is determined by its fields.
LEMMA PacketEq ==
  ASSUME NEW p \in Packet, NEW q \in Packet,
         p.addr = q.addr, p.ipLength = q.ipLength, p.dnsLength = q.dnsLength,
         p.dnsPkt = q.dnsPkt, p.cfg = q.cfg, p.stats = q.stats, p.mac = q.mac
  PROVE  p = q
  BY DEF Packet

\* So are the counters.
LEMMA CountersEq ==
  ASSUME NEW m \in Counters, NEW n \in Counters, m.stc = n.stc, m.sfc = n.sfc,
         m.smc = n.smc, m.sic = n.sic, m.spc = n.spc
  PROVE  m = n
  BY DEF Counters

\* The destination is the only address an answer changes.
LEMMA SameAddresses ==
  ASSUME NEW p \in Packet, NEW q \in Packet, NEW a \in Addr,
         \A x \in AddrSections \ {"dstMAC"} : p.addr[x] = q.addr[x]
  PROVE  [p.addr EXCEPT !["dstMAC"] = a] = [q.addr EXCEPT !["dstMAC"] = a]
  BY DEF Packet

\* The fields of the answer to a probe.
LEMMA QueryReplyParts ==
  ASSUME NEW c \in RawFilter, NEW n \in Counters, NEW p \in Packet
  PROVE  /\ QueryReply(c, n, p) \in Packet
         /\ QueryReply(c, n, p).addr = [p.addr EXCEPT !["dstMAC"] = QueryMAC]
         /\ QueryReply(c, n, p).ipLength = 201 /\ QueryReply(c, n, p).dnsLength = 128
         /\ QueryReply(c, n, p).dnsPkt = p.dnsPkt
         /\ QueryReply(c, n, p).cfg = c /\ QueryReply(c, n, p).stats = n
         /\ QueryReply(c, n, p).mac = NoTag
<1>1. [p.addr EXCEPT !["dstMAC"] = QueryMAC] \in [AddrSections -> Addr]
  BY DEF Packet
<1> DEFINE a == [p.addr EXCEPT !["dstMAC"] = QueryMAC]
           u == [p EXCEPT !.addr = a, !.ipLength = 201, !.dnsLength = 128,
                          !.cfg = c, !.stats = n, !.mac = NoTag]
<1>2. QueryReply(c, n, p) = u
  BY DEF QueryReply
<1> HIDE DEF a
<1>3. u \in Packet
  BY <1>1 DEF Packet, a
<1>4. u.addr = a /\ u.ipLength = 201 /\ u.dnsLength = 128 /\ u.dnsPkt = p.dnsPkt
  BY DEF Packet
<1>5. u.cfg = c /\ u.stats = n /\ u.mac = NoTag
  BY DEF Packet
<1> HIDE DEF u
<1> QED
  BY <1>2, <1>3, <1>4, <1>5 DEF a

\* It depends on the probe's payload and addresses, the destination excepted.
LEMMA SameQueryReply ==
  ASSUME NEW c \in RawFilter, NEW n \in Counters, NEW p \in Packet, NEW q \in Packet,
         p.dnsPkt = q.dnsPkt, \A x \in AddrSections \ {"dstMAC"} : p.addr[x] = q.addr[x]
  PROVE  QueryReply(c, n, p) = QueryReply(c, n, q)
<1>1. [p.addr EXCEPT !["dstMAC"] = QueryMAC] = [q.addr EXCEPT !["dstMAC"] = QueryMAC]
  BY SameAddresses
<1> DEFINE u == QueryReply(c, n, p)
           v == QueryReply(c, n, q)
<1>2. /\ u \in Packet /\ u.addr = [p.addr EXCEPT !["dstMAC"] = QueryMAC]
      /\ u.ipLength = 201 /\ u.dnsLength = 128 /\ u.dnsPkt = p.dnsPkt
      /\ u.cfg = c /\ u.stats = n /\ u.mac = NoTag
  BY QueryReplyParts
<1>3. /\ v \in Packet /\ v.addr = [q.addr EXCEPT !["dstMAC"] = QueryMAC]
      /\ v.ipLength = 201 /\ v.dnsLength = 128 /\ v.dnsPkt = q.dnsPkt
      /\ v.cfg = c /\ v.stats = n /\ v.mac = NoTag
  BY QueryReplyParts
<1> HIDE DEF u, v
<1>4. u = v
  BY <1>1, <1>2, <1>3, PacketEq
<1> QED
  BY <1>4 DEF u, v

\* The header of a reply is made of bytes.
LEMMA HeaderType == \A p \in Packet : DNSHeader(p) \in [PktIndex -> Byte]
  BY DEF DNSHeader, Packet, Byte

\* The fields of the answer to a normal packet.
LEMMA ReplyParts ==
  ASSUME NEW c, NEW p \in Packet
  PROVE  /\ Reply(c, p) \in Packet
         /\ Reply(c, p).addr = [p.addr EXCEPT !["dstMAC"] = NormalMAC]
         /\ c.replyType = 0 => /\ Reply(c, p).ipLength = p.ipLength
                               /\ Reply(c, p).dnsLength = p.dnsLength
                               /\ Reply(c, p).dnsPkt = p.dnsPkt
         /\ c.replyType # 0 => /\ Reply(c, p).ipLength = 130 /\ Reply(c, p).dnsLength = 12
                               /\ Reply(c, p).dnsPkt = DNSHeader(p)
         /\ Reply(c, p).cfg = p.cfg /\ Reply(c, p).stats = p.stats /\ Reply(c, p).mac = p.mac
<1>1. [p.addr EXCEPT !["dstMAC"] = NormalMAC] \in [AddrSections -> Addr]
  BY DEF Packet
<1>2. DNSHeader(p) \in [PktIndex -> Byte]
  BY HeaderType
<1> QED
  BY <1>1, <1>2 DEF Reply, Packet

\* It depends on the payload only through its header.
LEMMA SameReply ==
  ASSUME NEW c, c.replyType # 0, NEW p \in Packet, NEW q \in Packet,
         p.addr = q.addr, p.cfg = q.cfg, p.stats = q.stats, p.mac = q.mac,
         DNSHeader(p) = DNSHeader(q)
  PROVE  Reply(c, p) = Reply(c, q)
<1> DEFINE u == Reply(c, p)
           v == Reply(c, q)
<1>1. /\ u \in Packet /\ u.addr = [p.addr EXCEPT !["dstMAC"] = NormalMAC]
      /\ u.ipLength = 130 /\ u.dnsLength = 12 /\ u.dnsPkt = DNSHeader(p)
      /\ u.cfg = p.cfg /\ u.stats = p.stats /\ u.mac = p.mac
  BY ReplyParts
<1>2. /\ v \in Packet /\ v.addr = [q.addr EXCEPT !["dstMAC"] = NormalMAC]
      /\ v.ipLength = 130 /\ v.dnsLength = 12 /\ v.dnsPkt = DNSHeader(q)
      /\ v.cfg = q.cfg /\ v.stats = q.stats /\ v.mac = q.mac
  BY ReplyParts
<1> HIDE DEF u, v
<1>3. u = v
  BY <1>1, <1>2, PacketEq
<1> QED
  BY <1>3 DEF u, v

\* The header depends on the bytes it does not set.
LEMMA SameHeader ==
  ASSUME NEW p, NEW q, \A j \in PktIndex \ (2 .. 11) : p.dnsPkt[j] = q.dnsPkt[j]
  PROVE  DNSHeader(p) = DNSHeader(q)
  BY DEF DNSHeader, PktIndex

-------------------------------------------------------------------------------
(* RouteInv is kept.                                                         *)

\* How the kinds of packets are told apart.
LEMMA KindArcs == CoreCycle =>
  /\ snd_en' => s' = "Idle"
  /\ s' \in HashStates => rd' = rd /\ (s \in HashStates \/ rd.addr["dstMAC"] = AdminMAC)
  /\ s' = "CheckQuery" => rd' = rd /\ rd.addr["dstMAC"] # AdminMAC
<1> DEFINE Arc ==
      /\ snd_en' => s' = "Idle"
      /\ s' \in HashStates => rd' = rd /\ (s \in HashStates \/ rd.addr["dstMAC"] = AdminMAC)
      /\ s' = "CheckQuery" => rd' = rd /\ rd.addr["dstMAC"] # AdminMAC
<1> USE DEF HashStates, NoPulse
<1>1. Idle \/ Read \/ CheckAdmin \/ CheckQuery \/ Send => Arc
  BY DEF Idle, Read, CheckAdmin, CheckQuery, Send
<1>2. ReplyQueryHeader \/ ReplyQueryReplyType \/ ReplyQueryCountersTot \/ ReplyQueryCountersSeg => Arc
  BY DEF ReplyQueryHeader, ReplyQueryReplyType, ReplyQueryCountersTot, ReplyQueryCountersSeg
<1>3. StartHash \/ WaitHash \/ HashAuth \/ UpdateReplyType => Arc
  BY DEF StartHash, WaitHash, HashAuth, UpdateReplyType
<1>4. CheckPkt \/ CmpPktCheck \/ CmpPktDone \/ FilterPkt => Arc
  BY DEF CheckPkt, CmpPktCheck, CmpPktDone, FilterPkt
<1>5. CmpPktArea32 \/ CmpPktArea24 \/ CmpPktArea16 \/ CmpPktArea8 => Arc
  BY DEF CmpPktArea32, CmpPktArea24, CmpPktArea16, CmpPktArea8, CmpPktArea
<1>6. SetDNSReplyHeader \/ SetDNSReplyCount \/ SetDefaultMAC => Arc
  BY DEF SetDNSReplyHeader, SetDNSReplyCount, SetDefaultMAC
<1>7. ASSUME NEW x \in Sections, CopyStep(x) PROVE Arc
  BY <1>7 DEF CopyStep, ReplyQueryMeta, ReplyQueryList, UpdateFilterMeta, UpdateFilterList
<1>8. ASSUME NEW x \in AddrSections, ListStep(x) PROVE Arc
  BY <1>8 DEF ListStep, CheckList, CmpList, FilterMatch, Move, Ban
<1> HIDE DEF Arc
<1>9. CoreCycle => Arc
  BY <1>1, <1>2, <1>3, <1>4, <1>5, <1>6, <1>7, <1>8, StepCases DEF SingleStep
<1> QED
  BY <1>9 DEF Arc

\* Which steps write an answer.
LEMMA AnswerArcs == CoreCycle =>
  /\ s' \in QueryStates => \/ s' = "ReplyQueryHeader"
                           \/ ReplyQueryHeader \/ ReplyQueryReplyType \/ ReplyQueryCountersTot
                           \/ \E x \in Sections : ReplyQueryMeta(x) \/ ReplyQueryList(x)
  /\ s' = "SetDNSReplyCount" => SetDNSReplyHeader
  /\ s' = "SetDefaultMAC" => SetDNSReplyHeader \/ SetDNSReplyCount
<1> DEFINE Arc ==
      /\ s' \in QueryStates => \/ s' = "ReplyQueryHeader"
                               \/ ReplyQueryHeader \/ ReplyQueryReplyType \/ ReplyQueryCountersTot
                               \/ \E x \in Sections : ReplyQueryMeta(x) \/ ReplyQueryList(x)
      /\ s' = "SetDNSReplyCount" => SetDNSReplyHeader
      /\ s' = "SetDefaultMAC" => SetDNSReplyHeader \/ SetDNSReplyCount
<1> USE DEF QueryStates
<1>1. Idle \/ Read \/ CheckAdmin \/ CheckQuery \/ Send => Arc
  BY DEF Idle, Read, CheckAdmin, CheckQuery, Send
<1>2. ReplyQueryHeader \/ ReplyQueryReplyType \/ ReplyQueryCountersTot \/ ReplyQueryCountersSeg => Arc
  BY DEF ReplyQueryHeader, ReplyQueryReplyType, ReplyQueryCountersTot, ReplyQueryCountersSeg
<1>3. StartHash \/ WaitHash \/ HashAuth \/ UpdateReplyType => Arc
  BY DEF StartHash, WaitHash, HashAuth, UpdateReplyType
<1>4. CheckPkt \/ CmpPktCheck \/ CmpPktDone \/ FilterPkt => Arc
  BY DEF CheckPkt, CmpPktCheck, CmpPktDone, FilterPkt
<1>5. CmpPktArea32 \/ CmpPktArea24 \/ CmpPktArea16 \/ CmpPktArea8 => Arc
  BY DEF CmpPktArea32, CmpPktArea24, CmpPktArea16, CmpPktArea8, CmpPktArea
<1>6. SetDNSReplyHeader \/ SetDNSReplyCount \/ SetDefaultMAC => Arc
  BY DEF SetDNSReplyHeader, SetDNSReplyCount, SetDefaultMAC
<1>7. ASSUME NEW x \in Sections, CopyStep(x) PROVE Arc
  BY <1>7 DEF CopyStep, ReplyQueryMeta, ReplyQueryList, UpdateFilterMeta, UpdateFilterList
<1>8. ASSUME NEW x \in AddrSections, ListStep(x) PROVE Arc
  BY <1>8 DEF ListStep, CheckList, CmpList, FilterMatch, Move, Ban
<1> HIDE DEF Arc
<1>9. CoreCycle => Arc
  BY <1>1, <1>2, <1>3, <1>4, <1>5, <1>6, <1>7, <1>8, StepCases DEF SingleStep
<1> QED
  BY <1>9 DEF Arc

\* The packet in work is a packet, the counters are numbers.
LEMMA Typed == IndInv => /\ rd \in Packet /\ rd.cfg \in RawFilter /\ f \in RawFilter
                         /\ f \in Filter /\ stats \in Counters /\ f.replyType \in {0, 1}
  BY DEF IndInv, TypeOK, Packet, Filter, RawFilter, FilterWith, stats, Counters

\* Copying a section of the configuration touches nothing else of the answer.
LEMMA QueryCopyFrame ==
  ASSUME IndInv, NEW x \in Sections, ReplyQueryMeta(x) \/ ReplyQueryList(x)
  PROVE  /\ rd'.addr = rd.addr /\ rd'.ipLength = rd.ipLength /\ rd'.dnsLength = rd.dnsLength
         /\ rd'.dnsPkt = rd.dnsPkt
<1>1. rd \in Packet
  BY Typed
<1> QED
  BY <1>1 DEF ReplyQueryMeta, ReplyQueryList, Packet

\* A cycle keeps SnapshotInv.
LEMMA SnapshotStep == IndInv /\ SnapshotInv /\ CoreCycle => SnapshotInv'
<1> SUFFICES ASSUME IndInv, SnapshotInv, CoreCycle PROVE SnapshotInv'
  OBVIOUS
<1>0. rd \in Packet
  BY Typed
<1>1. CASE ReplyQueryHeader
  BY <1>0, <1>1 DEF ReplyQueryHeader, SnapshotInv, Packet
<1>2. CASE ReplyQueryReplyType
  <2>1. rd'.ipLength = 201 /\ rd'.dnsLength = 128 /\ s' = "ReplyQueryCountersTot" /\ f' = f
    BY <1>0, <1>2 DEF ReplyQueryReplyType, SnapshotInv, QueryStates, Packet
  <2>2. rd'.cfg = f
    <3>1. rd.cfg \in RawFilter /\ f \in RawFilter
      BY Typed
    <3>2. \A y \in Sections : Agree(rd.cfg, f, y, FilterDepth)
      BY <1>2 DEF ReplyQueryReplyType, IndInv, CopyInv
    <3>3. rd'.cfg = [rd.cfg EXCEPT !.replyType = f.replyType]
      BY <1>0, <1>2 DEF ReplyQueryReplyType, Packet
    <3> DEFINE c == rd'.cfg
    <3>4. /\ c \in RawFilter /\ c.replyType = f.replyType
          /\ c.BW = rd.cfg.BW /\ c.Length = rd.cfg.Length /\ c.List = rd.cfg.List
          /\ c.dnsItemEndPtr = rd.cfg.dnsItemEndPtr /\ c.dnsList = rd.cfg.dnsList
      BY <3>1, <3>3 DEF RawFilter, FilterWith
    <3> HIDE DEF c
    <3>5. \A y \in Sections : Agree(c, f, y, FilterDepth)
      BY <3>2, <3>4 DEF Agree
    <3>6. c = f
      BY <3>1, <3>4, <3>5, AgreeEqual
    <3> QED
      BY <3>6 DEF c
  <2> QED
    BY <2>1, <2>2 DEF SnapshotInv
<1>3. CASE ReplyQueryCountersTot
  <2>1. /\ rd'.ipLength = 201 /\ rd'.dnsLength = 128 /\ rd'.cfg = f /\ f' = f
        /\ s' = "ReplyQueryCountersSeg" /\ stc' = stc /\ sfc' = sfc
    BY <1>0, <1>3 DEF ReplyQueryCountersTot, SnapshotInv, QueryStates, Packet, counters
  <2>2. rd'.stats.stc = stc /\ rd'.stats.sfc = sfc /\ rd'.addr["dstMAC"] = QueryMAC
    BY <1>0, <1>3 DEF ReplyQueryCountersTot, Packet, Counters, AddrSections
  <2> QED
    BY <2>1, <2>2 DEF SnapshotInv
<1>4. ASSUME NEW x \in Sections, ReplyQueryMeta(x) \/ ReplyQueryList(x) PROVE SnapshotInv'
  <2>1. rd.ipLength = 201 /\ rd.dnsLength = 128
    BY <1>4 DEF ReplyQueryMeta, ReplyQueryList, SnapshotInv, QueryStates
  <2>2. s' \in {"ReplyQueryMeta", "ReplyQueryList", "ReplyQueryReplyType"}
    BY <1>4 DEF ReplyQueryMeta, ReplyQueryList
  <2> QED
    BY <1>4, <2>1, <2>2, QueryCopyFrame DEF SnapshotInv
<1>5. CASE s' \notin QueryStates \/ s' = "ReplyQueryHeader"
  BY <1>5 DEF SnapshotInv, QueryStates
<1> QED
  BY <1>1, <1>2, <1>3, <1>4, <1>5, AnswerArcs

\* A cycle keeps AnswerInv.
LEMMA AnswerStep == IndInv /\ AnswerInv /\ CoreCycle => AnswerInv'
<1> SUFFICES ASSUME IndInv, AnswerInv, CoreCycle PROVE AnswerInv'
  OBVIOUS
<1>0. rd \in Packet /\ rd.dnsPkt \in [PktIndex -> Byte] /\ 2 \in PktIndex /\ 3 \in PktIndex
  BY Typed DEF Packet, PktIndex
<1>1. CASE SetDNSReplyHeader
  <2>1. f' = f /\ (f.replyType = 0 => s' = "SetDefaultMAC")
    BY <1>1 DEF SetDNSReplyHeader
  <2>2. f.replyType # 0 => /\ s' = "SetDNSReplyCount"
                           /\ rd'.dnsPkt[2] = 132 /\ rd'.dnsPkt[3] = 51
    <3> DEFINE d == [rd.dnsPkt EXCEPT ![2] = 128 + 4, ![3] = 32 + 16 + 3]
    <3>1. d[2] = 132 /\ d[3] = 51
      BY <1>0
    <3>2. f.replyType # 0 => s' = "SetDNSReplyCount" /\ rd' = [rd EXCEPT !.dnsPkt = d]
      BY <1>0, <1>1 DEF SetDNSReplyHeader, Packet
    <3> HIDE DEF d
    <3>3. f.replyType # 0 => rd'.dnsPkt = d
      BY <1>0, <3>2 DEF Packet
    <3> QED
      BY <3>1, <3>2, <3>3
  <2> QED
    BY <2>1, <2>2 DEF AnswerInv
<1>2. CASE SetDNSReplyCount
  <2>1. /\ f' = f /\ s' = "SetDefaultMAC"
        /\ rd'.ipLength = 130 /\ rd'.dnsLength = 12
        /\ rd'.dnsPkt = [j \in PktIndex |-> IF j \in 4 .. 11 THEN 0 ELSE rd.dnsPkt[j]]
    BY <1>0, <1>2 DEF SetDNSReplyCount, Packet
  <2>2. rd.dnsPkt[2] = 132 /\ rd.dnsPkt[3] = 51
    BY <1>2 DEF SetDNSReplyCount, AnswerInv
  <2>3. \A j \in PktIndex : rd'.dnsPkt[j] = DNSHeader(rd')[j]
    BY <2>1, <2>2 DEF DNSHeader
  <2>4. rd'.dnsPkt = DNSHeader(rd')
    BY <2>1, <2>3 DEF DNSHeader
  <2> QED
    BY <2>1, <2>4 DEF AnswerInv
<1>3. CASE s' \notin {"SetDNSReplyCount", "SetDefaultMAC"}
  BY <1>3 DEF AnswerInv
<1> QED
  BY <1>1, <1>2, <1>3, AnswerArcs

\* Every behaviour satisfies RouteInv.
THEOREM Routes == Spec => []RouteInv
<1>1. Init => RouteInv
  BY DEF Init, RouteInv, KindInv, SnapshotInv, AnswerInv, HashStates, QueryStates
<1>2. IndInv /\ RouteInv /\ [Next]_vars => RouteInv'
  <2> SUFFICES ASSUME IndInv, RouteInv, [Next]_vars PROVE RouteInv'
    OBVIOUS
  <2>1. CASE Clock
    <3>1. KindInv'
      BY <2>1, KindArcs DEF Clock, RouteInv, KindInv
    <3> QED
      BY <2>1, <3>1, SnapshotStep, AnswerStep DEF Clock, RouteInv
  <2>2. CASE UNCHANGED core
    BY <2>2 DEF core, counters, RouteInv, KindInv, SnapshotInv, AnswerInv, DNSHeader
  <2> QED
    BY <2>1, <2>2 DEF Next, Offer, vars
<1> QED
  BY <1>1, <1>2, Invariance, PTL DEF Spec

-------------------------------------------------------------------------------
(* The abstract state, by the concrete one.                                  *)

Waiting == s \in {"Idle", "Read"} \cup UpdateStates

Answering == s \in QueryStates \cup ReplyStates \cup {"Send"}

View == /\ s \notin UpdateStates => InForce = f
        /\ s \in UpdateStates => InForce = rd.cfg
        /\ Waiting => InWork = None /\ Stage = "idle" /\ PendingReply = None
        /\ Classifying => InWork = rd /\ Stage = "classify" /\ PendingReply = None
        /\ Judging => InWork = rd /\ Stage = k /\ PendingReply = None
        /\ Answering => InWork = None /\ Stage = "answer" /\ PendingReply \in Packet

\* While an answer is being written it is a packet, and so it is pending.
LEMMA ViewHolds == IndInv => View
<1> SUFFICES ASSUME IndInv PROVE View
  OBVIOUS
<1> USE DEF QueryStates, ReplyStates, HashStates, UpdateStates, AddrStates, PktStates, AreaStates
<1>1. InForce = IF s \in UpdateStates THEN rd.cfg ELSE f
  BY DEF InForce
<1>2. Waiting => InWork = None /\ PendingReply = None /\ ~Classifying /\ ~Judging
  BY DEF Waiting, InWork, PendingReply, Classifying, Judging
<1>3. Classifying => InWork = rd /\ PendingReply = None
  BY DEF Classifying, InWork, PendingReply
<1>4. Judging => InWork = rd /\ PendingReply = None /\ ~Classifying
  BY DEF Classifying, Judging, InWork, PendingReply
<1>5. Answering => InWork = None /\ ~Classifying /\ ~Judging
  BY DEF Answering, Classifying, Judging, InWork
<1>6. Answering => PendingReply \in Packet
  <2>1. rd \in Packet /\ QueryReply(f, stats, rd) \in Packet /\ Reply(f, rd) \in Packet
    BY Typed, QueryReplyParts, ReplyParts
  <2> QED
    BY <2>1 DEF Answering, PendingReply
<1> QED
  BY <1>1, <1>2, <1>3, <1>4, <1>5, <1>6, NoneAssumption DEF View, Stage

\* The same after a step.
LEMMA ViewHoldsNext == IndInv' => View'
  BY ViewHolds, PTL

\* Only Send raises snd_en, and only Idle lowers it.
LEMMA HandedFrame == KindInv /\ CoreCycle => /\ ~Send => Handed' = None
                                             /\ ~Idle => Handed = None
<1>1. /\ CoreCycle /\ ~Send => snd_en' = FALSE
      /\ CoreCycle /\ ~Idle => s # "Idle"
  <2> DEFINE Arc == (Send \/ snd_en' = FALSE) /\ (Idle \/ s # "Idle")
  <2> USE DEF NoPulse
  <2>1. Idle \/ Read \/ CheckAdmin \/ CheckQuery \/ Send => Arc
    BY DEF Idle, Read, CheckAdmin, CheckQuery, Send
  <2>2. ReplyQueryHeader \/ ReplyQueryReplyType \/ ReplyQueryCountersTot \/ ReplyQueryCountersSeg => Arc
    BY DEF ReplyQueryHeader, ReplyQueryReplyType, ReplyQueryCountersTot, ReplyQueryCountersSeg
  <2>3. StartHash \/ WaitHash \/ HashAuth \/ UpdateReplyType => Arc
    BY DEF StartHash, WaitHash, HashAuth, UpdateReplyType
  <2>4. CheckPkt \/ CmpPktCheck \/ CmpPktDone \/ FilterPkt => Arc
    BY DEF CheckPkt, CmpPktCheck, CmpPktDone, FilterPkt
  <2>5. CmpPktArea32 \/ CmpPktArea24 \/ CmpPktArea16 \/ CmpPktArea8 => Arc
    BY DEF CmpPktArea32, CmpPktArea24, CmpPktArea16, CmpPktArea8, CmpPktArea
  <2>6. SetDNSReplyHeader \/ SetDNSReplyCount \/ SetDefaultMAC => Arc
    BY DEF SetDNSReplyHeader, SetDNSReplyCount, SetDefaultMAC
  <2>7. ASSUME NEW x \in Sections, CopyStep(x) PROVE Arc
    BY <2>7 DEF CopyStep, ReplyQueryMeta, ReplyQueryList, UpdateFilterMeta, UpdateFilterList
  <2>8. ASSUME NEW x \in AddrSections, ListStep(x) PROVE Arc
    BY <2>8 DEF ListStep, CheckList, CmpList, FilterMatch, Move, Ban
  <2> HIDE DEF Arc
  <2>9. CoreCycle => Arc
    BY <2>1, <2>2, <2>3, <2>4, <2>5, <2>6, <2>7, <2>8, StepCases DEF SingleStep
  <2> QED
    BY <2>9 DEF Arc
<1> QED
  BY <1>1 DEF Handed, KindInv

\* The counters as a record.
LEMMA StatsFrame == counters' = counters => stats' = stats
  BY DEF counters, stats

-------------------------------------------------------------------------------
(* The steps.                                                                *)

Good == IndInv /\ RouteInv /\ IndInv' /\ CoreCycle

\* What every cycle is: a step of the abstract filter, or none.
Simulated == PF!Next \/ UNCHANGED PF!pfvars

\* Nothing to do, or the answer is withdrawn after its cycle.
LEMMA IdleStep == Good /\ Idle => Simulated
<1> SUFFICES ASSUME Good, Idle PROVE Simulated
  OBVIOUS
<1>1. View /\ View' /\ rd \in Packet
  BY ViewHolds, ViewHoldsNext, Typed DEF Good
<1>2. s = "Idle" /\ s' \in {"Idle", "Read"} /\ f' = f /\ rd' = rd /\ stats' = stats /\ ~Send
  BY StatsFrame DEF Idle, Send
<1>3. /\ InForce' = InForce /\ InWork' = InWork /\ Stage' = Stage /\ PendingReply' = PendingReply
  BY <1>1, <1>2 DEF View, Waiting, UpdateStates
<1>4. Handed' = None
  BY <1>2, HandedFrame DEF Good, RouteInv
<1>5. CASE Handed # None
  BY <1>2, <1>3, <1>4, <1>5 DEF Simulated, PF!Next, PF!Withdraw
<1>6. CASE Handed = None
  BY <1>2, <1>3, <1>4, <1>6 DEF Simulated, PF!pfvars
<1> QED
  BY <1>5, <1>6

\* A packet is taken.
LEMMA ReadStep == Good /\ Read => Simulated
<1> SUFFICES ASSUME Good, Read PROVE Simulated
  OBVIOUS
<1>1. View /\ View'
  BY ViewHolds, ViewHoldsNext DEF Good
<1>2. /\ s = "Read" /\ s' = "CheckAdmin" /\ f' = f /\ rd' = el_rcv_data /\ stats' = stats
      /\ ~Send /\ ~Idle
  BY StatsFrame DEF Read, Idle, Send
<1>3. el_rcv_data \in Packets
  BY <1>2 DEF Good, IndInv, Flow
<1>4. Handed = None /\ Handed' = None
  BY <1>2, HandedFrame DEF Good, RouteInv
<1>5. Stage = "idle" /\ PendingReply = None /\ InForce = f
  BY <1>1, <1>2 DEF View, Waiting, UpdateStates
<1>6. Stage' = "classify" /\ PendingReply' = None /\ InForce' = f' /\ InWork' = rd'
  BY <1>1, <1>2 DEF View, Classifying, UpdateStates
<1>7. PF!Accept(el_rcv_data)
  BY <1>2, <1>4, <1>5, <1>6 DEF PF!Accept
<1> QED
  BY <1>3, <1>7 DEF Simulated, PF!Next

\* Steps on the way to a verdict on the tag change nothing yet.
LEMMA HashingStep == Good /\ (CheckAdmin \/ StartHash \/ WaitHash) => Simulated
<1> SUFFICES ASSUME Good, CheckAdmin \/ StartHash \/ WaitHash PROVE Simulated
  OBVIOUS
<1>1. View /\ View'
  BY ViewHolds, ViewHoldsNext DEF Good
<1>2. /\ s \in {"CheckAdmin", "StartHash", "WaitHash"}
      /\ s' \in {"StartHash", "CheckQuery", "WaitHash", "HashAuth"}
      /\ f' = f /\ rd' = rd /\ stats' = stats
  BY StatsFrame DEF CheckAdmin, StartHash, WaitHash
<1>3. Classifying /\ Classifying' /\ s \notin UpdateStates /\ s' \notin UpdateStates /\ ~Send /\ ~Idle
  BY <1>2 DEF Classifying, HashStates, UpdateStates, Send, Idle
<1>4. Handed = None /\ Handed' = None
  BY <1>3, HandedFrame DEF Good, RouteInv
<1>5. /\ InForce' = InForce /\ InWork' = InWork /\ Stage' = Stage /\ PendingReply' = PendingReply
  BY <1>1, <1>2, <1>3 DEF View
<1> QED
  BY <1>2, <1>4, <1>5 DEF Simulated, PF!pfvars

\* The tag decides whether the configuration is replaced.
LEMMA AuthStep == Good /\ HashAuth => Simulated
<1> SUFFICES ASSUME Good, HashAuth PROVE Simulated
  OBVIOUS
<1>1. View /\ View'
  BY ViewHolds, ViewHoldsNext DEF Good
<1>2. s = "HashAuth" /\ f' = f /\ rd' = rd /\ stats' = stats /\ ~Send /\ ~Idle
  BY StatsFrame DEF HashAuth, Send, Idle
<1>3. ahv = Hash(rd.cfg) /\ rd.addr["dstMAC"] = AdminMAC
  BY <1>2 DEF Good, IndInv, HashInv, HashFresh, RouteInv, KindInv, HashStates
<1>4. s' = IF Authentic(rd) THEN "UpdateFilterMeta" ELSE "Idle"
  BY <1>3 DEF HashAuth, Authentic
<1>5. Handed = None /\ Handed' = None
  BY <1>2, HandedFrame DEF Good, RouteInv
<1>6. InWork = rd /\ Stage = "classify" /\ PendingReply = None /\ InForce = f
  BY <1>1, <1>2 DEF View, Classifying, HashStates, UpdateStates
<1>7. /\ InWork' = None /\ Stage' = "idle" /\ PendingReply' = None
      /\ InForce' = IF Authentic(rd) THEN rd.cfg ELSE f
  BY <1>1, <1>2, <1>4 DEF View, Waiting, UpdateStates
<1>8. PF!Admin
  BY <1>2, <1>3, <1>5, <1>6, <1>7 DEF PF!Admin, PF!Authentic, Authentic
<1> QED
  BY <1>8 DEF Simulated, PF!Next

\* A packet that is not an admin packet is a probe, or is counted and judged.
LEMMA KindStep == Good /\ CheckQuery => Simulated
<1> SUFFICES ASSUME Good, CheckQuery PROVE Simulated
  OBVIOUS
<1>1. View /\ View'
  BY ViewHolds, ViewHoldsNext DEF Good
<1>2. s = "CheckQuery" /\ f' = f /\ rd' = rd /\ ~Send /\ ~Idle
  BY DEF CheckQuery, Send, Idle
<1>3. rd.addr["dstMAC"] # AdminMAC
  BY <1>2 DEF Good, RouteInv, KindInv
<1>4. Handed = None /\ Handed' = None
  BY <1>2, HandedFrame DEF Good, RouteInv
<1>5. InWork = rd /\ Stage = "classify" /\ PendingReply = None /\ InForce = f
  BY <1>1, <1>2 DEF View, Classifying, UpdateStates
<1>6. CASE rd.addr["dstMAC"] = QueryMAC
  <2>1. s' = "ReplyQueryHeader" /\ stats' = stats
    BY <1>6 DEF CheckQuery, stats
  <2>2. InWork' = None /\ Stage' = "answer" /\ InForce' = f'
    BY <1>1, <2>1 DEF View, Answering, QueryStates, UpdateStates
  <2>3. PendingReply' = QueryReply(f, stats, rd)
    BY <1>2, <2>1 DEF PendingReply, QueryStates
  <2>4. PF!Query
    BY <1>2, <1>3, <1>4, <1>5, <1>6, <2>1, <2>2, <2>3 DEF PF!Query, PF!QueryReply, QueryReply
  <2> QED
    BY <2>4 DEF Simulated, PF!Next
<1>7. CASE rd.addr["dstMAC"] # QueryMAC
  <2>1. s' = "Check" /\ k' = "srcMAC" /\ stats' = [stats EXCEPT !.stc = @ + 1]
    BY <1>7 DEF CheckQuery, stats
  <2>2. InWork' = rd' /\ Stage' = "srcMAC" /\ PendingReply' = None /\ InForce' = f'
    BY <1>1, <2>1 DEF View, Judging, AddrStates, UpdateStates
  <2>3. PF!Normal
    BY <1>2, <1>3, <1>4, <1>5, <1>7, <2>1, <2>2 DEF PF!Normal
  <2> QED
    BY <2>3 DEF Simulated, PF!Next
<1> QED
  BY <1>6, <1>7

\* While an admin packet is copied the abstract configuration is its own.
LEMMA UpdateStep ==
  ASSUME Good, NEW x \in Sections, UpdateFilterMeta(x) \/ UpdateFilterList(x)
  PROVE  Simulated
<1>1. View /\ View'
  BY ViewHolds, ViewHoldsNext DEF Good
<1>2. s \in UpdateStates /\ s' \in UpdateStates /\ rd' = rd /\ stats' = stats /\ ~Send /\ ~Idle
  BY StatsFrame DEF UpdateFilterMeta, UpdateFilterList, UpdateStates, Send, Idle
<1>3. Handed = None /\ Handed' = None
  BY <1>2, HandedFrame DEF Good, RouteInv
<1>4. /\ InForce' = InForce /\ InWork' = InWork /\ Stage' = Stage /\ PendingReply' = PendingReply
  BY <1>1, <1>2 DEF View, Waiting
<1> QED
  BY <1>2, <1>3, <1>4 DEF Simulated, PF!pfvars

\* When the copy ends, f is what was in force since the tag was checked.
LEMMA UpdatedStep == Good /\ UpdateReplyType => Simulated
<1> SUFFICES ASSUME Good, UpdateReplyType PROVE Simulated
  OBVIOUS
<1>1. View /\ View'
  BY ViewHolds, ViewHoldsNext DEF Good
<1>2. /\ s = "UpdateReplyType" /\ s' = "Idle" /\ rd' = rd /\ stats' = stats /\ ~Send /\ ~Idle
      /\ f' = [f EXCEPT !.replyType = rd.cfg.replyType]
  BY StatsFrame DEF UpdateReplyType, Send, Idle
<1>3. Handed = None /\ Handed' = None
  BY <1>2, HandedFrame DEF Good, RouteInv
<1>4. f' = rd.cfg
  <2>1. rd.cfg \in RawFilter /\ f \in RawFilter
    BY Typed DEF Good
  <2>2. \A y \in Sections : Agree(f, rd.cfg, y, FilterDepth)
    BY <1>2 DEF Good, IndInv, CopyInv
  <2> DEFINE c == f'
  <2>3. /\ c \in RawFilter /\ c.replyType = rd.cfg.replyType
        /\ c.BW = f.BW /\ c.Length = f.Length /\ c.List = f.List
        /\ c.dnsItemEndPtr = f.dnsItemEndPtr /\ c.dnsList = f.dnsList
    BY <1>2, <2>1 DEF RawFilter, FilterWith
  <2> HIDE DEF c
  <2>4. \A y \in Sections : Agree(c, rd.cfg, y, FilterDepth)
    BY <2>2, <2>3 DEF Agree
  <2>5. c = rd.cfg
    BY <2>1, <2>3, <2>4, AgreeEqual
  <2> QED
    BY <2>5 DEF c
<1>5. /\ InForce' = InForce /\ InWork' = InWork /\ Stage' = Stage /\ PendingReply' = PendingReply
  BY <1>1, <1>2, <1>4 DEF View, Waiting, UpdateStates
<1> QED
  BY <1>2, <1>3, <1>5 DEF Simulated, PF!pfvars

\* A step that writes into an answer without changing what it will be.
LEMMA WriteStep ==
  ASSUME Good, Answering, Answering', f' = f, counters' = counters,
         PendingReply' = PendingReply, s # "Send"
  PROVE  Simulated
<1>1. View /\ View'
  BY ViewHolds, ViewHoldsNext DEF Good
<1>2. s \notin UpdateStates /\ s' \notin UpdateStates /\ ~Send /\ ~Idle /\ stats' = stats
  BY StatsFrame DEF Answering, QueryStates, ReplyStates, UpdateStates, Send, Idle
<1>3. Handed = None /\ Handed' = None
  BY <1>2, HandedFrame DEF Good, RouteInv
<1>4. /\ InForce' = InForce /\ InWork' = InWork /\ Stage' = Stage
  BY <1>1, <1>2 DEF View
<1> QED
  BY <1>2, <1>3, <1>4 DEF Simulated, PF!pfvars

\* Writing into the answer to a probe.
LEMMA SnapshotWrite ==
  ASSUME Good, s \in QueryStates, s' \in QueryStates, f' = f, counters' = counters,
         rd'.dnsPkt = rd.dnsPkt, \A x \in AddrSections \ {"dstMAC"} : rd'.addr[x] = rd.addr[x]
  PROVE  Simulated
<1>1. rd \in Packet /\ f \in RawFilter /\ stats \in Counters
  BY Typed DEF Good
<1>2. rd' \in Packet
  BY DEF Good, IndInv, TypeOK
<1>3. QueryReply(f, stats, rd') = QueryReply(f, stats, rd)
  BY <1>1, <1>2, SameQueryReply
<1>4. PendingReply' = PendingReply
  BY <1>3, StatsFrame DEF PendingReply
<1> QED
  BY <1>4, WriteStep DEF Answering, QueryStates

\* The states that fill the answer to a probe, but the last.
LEMMA SnapshotStates ==
  ASSUME Good, ReplyQueryHeader \/ ReplyQueryReplyType \/ ReplyQueryCountersTot
  PROVE  Simulated
<1>1. rd \in Packet
  BY Typed DEF Good
<1>2. s \in QueryStates /\ s' \in QueryStates /\ f' = f /\ counters' = counters
  BY DEF ReplyQueryHeader, ReplyQueryReplyType, ReplyQueryCountersTot, QueryStates
<1>3. rd'.dnsPkt = rd.dnsPkt
  BY <1>1 DEF ReplyQueryHeader, ReplyQueryReplyType, ReplyQueryCountersTot, Packet
<1>4. \A x \in AddrSections \ {"dstMAC"} : rd'.addr[x] = rd.addr[x]
  BY <1>1 DEF ReplyQueryHeader, ReplyQueryReplyType, ReplyQueryCountersTot, Packet
<1> QED
  BY <1>2, <1>3, <1>4, SnapshotWrite

\* The copy of the configuration into it.
LEMMA SnapshotCopy ==
  ASSUME Good, NEW x \in Sections, ReplyQueryMeta(x) \/ ReplyQueryList(x)
  PROVE  Simulated
<1>1. s \in QueryStates /\ s' \in QueryStates /\ f' = f /\ counters' = counters
  BY DEF ReplyQueryMeta, ReplyQueryList, QueryStates
<1>2. rd'.addr = rd.addr /\ rd'.dnsPkt = rd.dnsPkt
  BY QueryCopyFrame DEF Good
<1> QED
  BY <1>1, <1>2, SnapshotWrite

\* The last counters complete it.
LEMMA SnapshotDone == Good /\ ReplyQueryCountersSeg => Simulated
<1> SUFFICES ASSUME Good, ReplyQueryCountersSeg PROVE Simulated
  OBVIOUS
<1>1. rd \in Packet /\ f \in RawFilter /\ stats \in Counters /\ rd' \in Packet
  BY Typed DEF Good, IndInv, TypeOK
<1>2. s = "ReplyQueryCountersSeg" /\ s' = "Send" /\ f' = f /\ counters' = counters
  BY DEF ReplyQueryCountersSeg
<1>3. /\ rd.ipLength = 201 /\ rd.dnsLength = 128 /\ rd.cfg = f /\ rd.addr["dstMAC"] = QueryMAC
      /\ rd.stats.stc = stc /\ rd.stats.sfc = sfc
  BY <1>2 DEF Good, RouteInv, SnapshotInv, QueryStates
<1>4. /\ rd'.addr = rd.addr /\ rd'.ipLength = 201 /\ rd'.dnsLength = 128
      /\ rd'.dnsPkt = rd.dnsPkt /\ rd'.cfg = f /\ rd'.mac = NoTag
  BY <1>1, <1>3 DEF ReplyQueryCountersSeg, Packet
<1>5. rd'.stats = stats
  <2>1. /\ rd'.stats \in Counters /\ rd.stats \in Counters
        /\ rd'.stats = [rd.stats EXCEPT !.smc = smc, !.sic = sic, !.spc = spc]
    BY <1>1 DEF ReplyQueryCountersSeg, Packet
  <2>2. /\ rd'.stats.stc = stc /\ rd'.stats.sfc = sfc /\ rd'.stats.smc = smc
        /\ rd'.stats.sic = sic /\ rd'.stats.spc = spc
    BY <1>3, <2>1 DEF Counters
  <2>3. /\ stats.stc = stc /\ stats.sfc = sfc /\ stats.smc = smc
        /\ stats.sic = sic /\ stats.spc = spc
    BY DEF stats
  <2> QED
    BY <1>1, <2>1, <2>2, <2>3, CountersEq
<1>6. rd.addr = [rd.addr EXCEPT !["dstMAC"] = QueryMAC]
  BY <1>1, <1>3 DEF Packet
<1>7. rd' = QueryReply(f, stats, rd)
  <2> DEFINE u == QueryReply(f, stats, rd)
  <2>1. /\ u \in Packet /\ u.addr = [rd.addr EXCEPT !["dstMAC"] = QueryMAC]
        /\ u.ipLength = 201 /\ u.dnsLength = 128 /\ u.dnsPkt = rd.dnsPkt
        /\ u.cfg = f /\ u.stats = stats /\ u.mac = NoTag
    BY <1>1, QueryReplyParts
  <2> HIDE DEF u
  <2>2. rd' = u
    BY <1>1, <1>4, <1>5, <1>6, <2>1, PacketEq
  <2> QED
    BY <2>2 DEF u
<1>8. PendingReply' = PendingReply
  BY <1>2, <1>7 DEF PendingReply, QueryStates, ReplyStates
<1> QED
  BY <1>2, <1>8, WriteStep DEF Answering, QueryStates

-------------------------------------------------------------------------------
(* The steps of the seven sections.                                          *)

\* The reference judgement is the same on both levels.
LEMMA SameAccepts == \A c, p, x : PF!Accepts(c, p, x) <=> Accepts(c, p, x)
  BY DEF Accepts, Hit, Listed, DomainListed, Contains, OccursAt, PayloadEnd, Entries, ItemIndex,
         PF!Accepts, PF!Hit, PF!Listed, PF!DomainListed, PF!Contains, PF!OccursAt,
         PF!PayloadEnd, PF!Entries, PF!ItemIndex

\* An exhausted whitelist rejects.
LEMMA ExhaustedRejects ==
  ASSUME NEW c, NEW p, NEW x \in AddrSections, c.BW[x] # 0, c.BW[x] \in {0, 1},
         \A i \in Entries : i < c.Length[x] => c.List[x][i] # p.addr[x]
  PROVE  ~Accepts(c, p, x)
  BY DEF Accepts, Hit, Listed, AddrSections

\* A blacklist rejects what is on it.
LEMMA MatchedRejects ==
  ASSUME NEW c, NEW p, NEW x \in AddrSections, c.BW[x] = 0,
         NEW i \in Entries, i < c.Length[x], c.List[x][i] = p.addr[x]
  PROVE  ~Accepts(c, p, x)
  BY DEF Accepts, Hit, Listed, AddrSections

\* A step of the scan that reaches no verdict.
LEMMA ScanOn ==
  ASSUME Good, Judging, Judging', k' = k, f' = f, rd' = rd, counters' = counters
  PROVE  Simulated
<1>1. View /\ View'
  BY ViewHolds, ViewHoldsNext DEF Good
<1>2. /\ s \notin UpdateStates /\ s' \notin UpdateStates /\ ~Send /\ ~Idle /\ stats' = stats
  BY StatsFrame DEF Judging, AddrStates, PktStates, AreaStates, UpdateStates, Send, Idle
<1>3. Handed = None /\ Handed' = None
  BY <1>2, HandedFrame DEF Good, RouteInv
<1>4. /\ InForce' = InForce /\ InWork' = InWork /\ Stage' = Stage /\ PendingReply' = PendingReply
  BY <1>1, <1>2 DEF View
<1> QED
  BY <1>2, <1>3, <1>4 DEF Simulated, PF!pfvars

\* A step that rejects the packet.
LEMMA Rejected ==
  ASSUME Good, Judging, s' = "Idle", f' = f, counters' = counters, ~Accepts(f, rd, k), k \in Sections
  PROVE  Simulated
<1>1. View /\ View'
  BY ViewHolds, ViewHoldsNext DEF Good
<1>2. s \notin UpdateStates /\ ~Send /\ ~Idle /\ stats' = stats
  BY StatsFrame DEF Judging, AddrStates, PktStates, AreaStates, UpdateStates, Send, Idle
<1>3. Handed = None /\ Handed' = None
  BY <1>2, HandedFrame DEF Good, RouteInv
<1>4. InForce = f /\ InWork = rd /\ Stage = k /\ PendingReply = None
  BY <1>1, <1>2 DEF View
<1>5. InForce' = f' /\ InWork' = None /\ Stage' = "idle" /\ PendingReply' = None
  BY <1>1 DEF View, Waiting, UpdateStates
<1>6. PF!Fail(k)
  BY <1>2, <1>3, <1>4, <1>5, SameAccepts DEF PF!Fail
<1> QED
  BY <1>6 DEF Simulated, PF!Next, PF!Sections, PF!AddrSections, Sections, AddrSections

\* An address list passes the packet on.
LEMMA Passed ==
  ASSUME Good, NEW x \in AddrSections, s \in AddrStates, k = x, Move(x), f' = f, rd' = rd,
         stc' = stc, sfc' = sfc, Accepts(f, rd, x)
  PROVE  Simulated
<1>1. View /\ View'
  BY ViewHolds, ViewHoldsNext DEF Good
<1>2. Judging /\ Judging' /\ s \notin UpdateStates /\ s' \notin UpdateStates /\ ~Send /\ ~Idle
  BY DEF Move, Judging, AddrStates, PktStates, UpdateStates, Send, Idle
<1>3. Handed = None /\ Handed' = None
  BY <1>2, HandedFrame DEF Good, RouteInv
<1>4. InForce = f /\ InWork = rd /\ Stage = x /\ PendingReply = None
  BY <1>1, <1>2 DEF View
<1>5. InForce' = f' /\ InWork' = rd' /\ Stage' = PF!After(x) /\ PendingReply' = None
  <2>1. k' = After(x)
    BY DEF Move
  <2> QED
    BY <1>1, <1>2, <2>1 DEF View, PF!After, After
<1>6. stats' = PF!Counted(stats, x)
  BY DEF Move, stats, PF!Counted, AddrSections
<1>7. x # "dns" /\ x \in PF!Sections
  BY DEF AddrSections, PF!Sections, PF!AddrSections
<1>8. PF!Pass(x)
  BY <1>3, <1>4, <1>5, <1>6, <1>7, SameAccepts DEF PF!Pass
<1> QED
  BY <1>7, <1>8 DEF Simulated, PF!Next

\* The steps of an address list.
LEMMA ListSimulated == ASSUME Good, NEW x \in AddrSections, ListStep(x) PROVE Simulated
<1>0. ScanTypes /\ IndInv
  BY ScanTypesHold DEF Good
<1>1. /\ f' = f /\ rd' = rd /\ k = x /\ s \in AddrStates /\ x \in Sections
      /\ stc' = stc /\ sfc' = sfc
  BY SectionFacts DEF ListStep, CheckList, CmpList, FilterMatch, AddrStates, counters
<1>2. /\ fc[x] <= f.Length[x]
      /\ s # "Check" => fc[x] < f.Length[x]
      /\ s # "Match" => \A i \in Entries : i < fc[x] => f.List[x][i] # rd.addr[x]
      /\ s = "Match" => f.List[x][fc[x]] = rd.addr[x]
  BY <1>0, <1>1 DEF IndInv, ScanSound, AddrScan
<1>3. f.BW[x] \in {0, 1}
  BY <1>0, <1>1 DEF ScanTypes
<1>4. Judging
  BY <1>1 DEF Judging
<1>5. CASE CheckList(x) /\ fc[x] = f.Length[x]
  <2>1. s = "Check" /\ (IF f.BW[x] = 0 THEN Move(x) ELSE Ban(x))
    BY <1>5 DEF CheckList
  <2>2. \A i \in Entries : i < f.Length[x] => f.List[x][i] # rd.addr[x]
    BY <1>2, <1>5, <2>1
  <2>3. CASE f.BW[x] = 0
    <3>1. Accepts(f, rd, x)
      BY <2>2, <2>3, ExhaustedAccepts
    <3> QED
      BY <1>1, <2>1, <2>3, <3>1, Passed
  <2>4. CASE f.BW[x] # 0
    <3>1. ~Accepts(f, rd, x)
      BY <1>3, <2>2, <2>4, ExhaustedRejects
    <3>2. s' = "Idle" /\ counters' = counters
      BY <1>1, <2>1, <2>4 DEF Ban, counters
    <3> QED
      BY <1>1, <1>4, <3>1, <3>2, Rejected
  <2> QED
    BY <2>3, <2>4
<1>6. CASE FilterMatch(x)
  <2>1. s = "Match" /\ (IF f.BW[x] = 0 THEN Ban(x) ELSE Move(x))
    BY <1>6 DEF FilterMatch
  <2>2. fc[x] \in Entries /\ fc[x] < f.Length[x] /\ f.List[x][fc[x]] = rd.addr[x]
    BY <1>0, <1>1, <1>2, <2>1 DEF ScanTypes, Entries
  <2>3. CASE f.BW[x] = 0
    <3>1. ~Accepts(f, rd, x)
      BY <2>2, <2>3, MatchedRejects
    <3>2. s' = "Idle" /\ counters' = counters
      BY <1>1, <2>1, <2>3 DEF Ban, counters
    <3> QED
      BY <1>1, <1>4, <3>1, <3>2, Rejected
  <2>4. CASE f.BW[x] # 0
    <3>1. Accepts(f, rd, x)
      BY <1>3, <2>2, <2>4, MatchedAccepts
    <3> QED
      BY <1>1, <2>1, <2>4, <3>1, Passed
  <2> QED
    BY <2>3, <2>4
<1>7. CASE CmpList(x) \/ (CheckList(x) /\ fc[x] # f.Length[x])
  <2>1. s' \in AddrStates /\ k' = k /\ counters' = counters
    BY <1>1, <1>7 DEF CmpList, CheckList, AddrStates, counters
  <2>2. Judging'
    BY <2>1 DEF Judging
  <2> QED
    BY <1>1, <1>4, <2>1, <2>2, ScanOn
<1> QED
  BY <1>5, <1>6, <1>7 DEF ListStep

\* The domain list accepts the packet, and with it the filter does.
LEMMA PassedAll ==
  ASSUME Good, s \in PktStates, s' = "SetDNSReplyHeader", f' = f, rd' = rd,
         stc' = stc, smc' = smc, sic' = sic, spc' = spc, sfc' = sfc + 1, Accepts(f, rd, "dns")
  PROVE  Simulated
<1>1. View /\ View'
  BY ViewHolds, ViewHoldsNext DEF Good
<1>2. Judging /\ Answering' /\ s \notin UpdateStates /\ s' \notin UpdateStates /\ ~Send /\ ~Idle
  BY DEF Judging, Answering, ReplyStates, PktStates, AreaStates, UpdateStates, Send, Idle
<1>3. Handed = None /\ Handed' = None
  BY <1>2, HandedFrame DEF Good, RouteInv
<1>4. k = "dns"
  BY PktFacts DEF Good
<1>5. InForce = f /\ InWork = rd /\ Stage = "dns" /\ PendingReply = None
  BY <1>1, <1>2, <1>4 DEF View
<1>6. InForce' = f' /\ InWork' = None /\ Stage' = "answer"
  BY <1>1, <1>2 DEF View
<1>7. PendingReply' = Reply(f, rd)
  BY DEF PendingReply, QueryStates, ReplyStates
<1>8. Reply(f, rd) = PF!Reply(f, rd)
  BY DEF Reply, DNSHeader, PktIndex, PF!Reply, PF!DNSHeader, PF!PktIndex
<1>9. stats' = PF!Counted(stats, "dns")
  BY DEF stats, PF!Counted
<1>10. PF!Pass("dns")
  <2>1. PF!Accepts(InForce, InWork, "dns")
    BY <1>5, SameAccepts
  <2> QED
    BY <1>3, <1>5, <1>6, <1>7, <1>8, <1>9, <2>1 DEF PF!Pass
<1> QED
  BY <1>10 DEF Simulated, PF!Next, PF!Sections

\* The steps of the domain list.
LEMMA PktSimulated ==
  ASSUME Good, CheckPkt \/ CmpPktCheck \/ CmpPktDone \/ FilterPkt
                 \/ CmpPktArea32 \/ CmpPktArea24 \/ CmpPktArea16 \/ CmpPktArea8
  PROVE  Simulated
<1>1. s \in PktStates /\ f' = f /\ rd' = rd
  BY DEF CheckPkt, CmpPktCheck, CmpPktDone, FilterPkt, CmpPktArea32, CmpPktArea24, CmpPktArea16,
         CmpPktArea8, CmpPktArea, PktStates, AreaStates
<1>2. Judging
  BY <1>1 DEF Judging
<1>3. /\ k = "dns" /\ "dns" \in Sections
      /\ s # "CheckPkt" => fc["dns"] < f.Length["dns"] /\ fc["dns"] \in Entries
      /\ \A i \in Entries : i < fc["dns"] => ~Contains(f, rd, i)
  BY <1>1, PktFacts DEF Good, Sections
<1>4. f.BW["dns"] \in {0, 1}
  BY <1>3, ScanTypesHold DEF Good, ScanTypes
<1>5. CASE CheckPkt /\ fc["dns"] = f.Length["dns"]
  <2>1. ~DomainListed(f, rd)
    BY <1>3, <1>5 DEF DomainListed
  <2>2. CASE f.BW["dns"] = 0
    <3>1. Accepts(f, rd, "dns")
      BY <2>1, <2>2 DEF Accepts, Hit
    <3>2. /\ s' = "SetDNSReplyHeader" /\ sfc' = sfc + 1
          /\ stc' = stc /\ smc' = smc /\ sic' = sic /\ spc' = spc
      BY <1>5, <2>2 DEF CheckPkt
    <3> QED
      BY <1>1, <3>1, <3>2, PassedAll
  <2>3. CASE f.BW["dns"] # 0
    <3>1. ~Accepts(f, rd, "dns")
      BY <1>4, <2>1, <2>3 DEF Accepts, Hit
    <3>2. s' = "Idle" /\ counters' = counters
      BY <1>5, <2>3 DEF CheckPkt, counters
    <3> QED
      BY <1>1, <1>2, <1>3, <3>1, <3>2, Rejected
  <2> QED
    BY <2>2, <2>3
<1>6. CASE FilterPkt
  <2>1. DomainListed(f, rd)
    <3>1. Contains(f, rd, fc["dns"])
      BY <1>6 DEF FilterPkt, Good, IndInv, ScanSound
    <3>2. s # "CheckPkt"
      BY <1>6 DEF FilterPkt
    <3> QED
      BY <1>3, <3>1, <3>2 DEF DomainListed
  <2>2. CASE f.BW["dns"] = 0
    <3>1. ~Accepts(f, rd, "dns")
      BY <2>1, <2>2 DEF Accepts, Hit
    <3>2. s' = "Idle" /\ counters' = counters
      BY <1>6, <2>2 DEF FilterPkt, counters
    <3> QED
      BY <1>1, <1>2, <1>3, <3>1, <3>2, Rejected
  <2>3. CASE f.BW["dns"] # 0
    <3>1. Accepts(f, rd, "dns")
      BY <1>4, <2>1, <2>3 DEF Accepts, Hit
    <3>2. /\ s' = "SetDNSReplyHeader" /\ sfc' = sfc + 1
          /\ stc' = stc /\ smc' = smc /\ sic' = sic /\ spc' = spc
      BY <1>6, <2>3 DEF FilterPkt
    <3> QED
      BY <1>1, <3>1, <3>2, PassedAll
  <2> QED
    BY <2>2, <2>3
<1>7. CASE \/ CheckPkt /\ fc["dns"] # f.Length["dns"]
           \/ CmpPktCheck \/ CmpPktDone
           \/ CmpPktArea32 \/ CmpPktArea24 \/ CmpPktArea16 \/ CmpPktArea8
  <2>1. s' \in PktStates /\ k' = k
    BY <1>7 DEF CheckPkt, CmpPktCheck, CmpPktDone, CmpPktArea32, CmpPktArea24, CmpPktArea16,
                CmpPktArea8, CmpPktArea, PktStates, AreaStates
  <2>2. counters' = counters
    BY <1>7 DEF CheckPkt, CmpPktCheck, CmpPktDone, CmpPktArea32, CmpPktArea24, CmpPktArea16,
                CmpPktArea8, CmpPktArea, counters
  <2>3. Judging'
    BY <2>1 DEF Judging
  <2> QED
    BY <1>1, <1>2, <2>1, <2>2, <2>3, ScanOn
<1> QED
  BY <1>5, <1>6, <1>7

-------------------------------------------------------------------------------
(* The steps of the answer.                                                  *)

\* The DNS header is written in two steps, which change no byte that it keeps.
LEMMA HeaderStep ==
  ASSUME Good, SetDNSReplyHeader \/ SetDNSReplyCount
  PROVE  Simulated
<1>1. rd \in Packet /\ rd' \in Packet /\ rd.dnsPkt \in [PktIndex -> Byte]
  BY Typed DEF Good, IndInv, TypeOK, Packet
<1>2. /\ s \in ReplyStates /\ s' \in ReplyStates /\ f' = f /\ counters' = counters
  BY DEF SetDNSReplyHeader, SetDNSReplyCount, ReplyStates
<1>3. CASE rd' = rd
  BY <1>2, <1>3, WriteStep DEF Answering, PendingReply, ReplyStates, QueryStates
<1>4. CASE rd' # rd
  <2>1. f.replyType # 0
    BY <1>4 DEF SetDNSReplyHeader, SetDNSReplyCount, Good, RouteInv, AnswerInv
  <2>2. rd'.addr = rd.addr /\ rd'.cfg = rd.cfg /\ rd'.stats = rd.stats /\ rd'.mac = rd.mac
    BY <1>1 DEF SetDNSReplyHeader, SetDNSReplyCount, Packet
  <2>3. \A j \in PktIndex \ (2 .. 11) : rd'.dnsPkt[j] = rd.dnsPkt[j]
    <3>1. CASE SetDNSReplyHeader
      <4> DEFINE d == [rd.dnsPkt EXCEPT ![2] = 128 + 4, ![3] = 32 + 16 + 3]
      <4>1. \A j \in PktIndex \ (2 .. 11) : d[j] = rd.dnsPkt[j]
        BY <1>1 DEF PktIndex
      <4>2. rd' = [rd EXCEPT !.dnsPkt = d]
        BY <1>1, <1>4, <3>1 DEF SetDNSReplyHeader, Packet
      <4> HIDE DEF d
      <4>3. rd'.dnsPkt = d
        BY <1>1, <4>2 DEF Packet
      <4> QED
        BY <4>1, <4>3
    <3>2. CASE SetDNSReplyCount
      <4>1. rd'.dnsPkt = [j \in PktIndex |-> IF j \in 4 .. 11 THEN 0 ELSE rd.dnsPkt[j]]
        BY <1>1, <3>2 DEF SetDNSReplyCount, Packet
      <4> QED
        BY <4>1 DEF PktIndex
    <3> QED
      BY <3>1, <3>2
  <2>4. Reply(f, rd') = Reply(f, rd)
    BY <1>1, <2>1, <2>2, <2>3, SameHeader, SameReply
  <2>5. PendingReply' = PendingReply
    BY <1>2, <2>4 DEF PendingReply, ReplyStates, QueryStates
  <2> QED
    BY <1>2, <2>5, WriteStep DEF Answering, ReplyStates
<1> QED
  BY <1>3, <1>4

\* The destination address completes the answer.
LEMMA AnswerDone == Good /\ SetDefaultMAC => Simulated
<1> SUFFICES ASSUME Good, SetDefaultMAC PROVE Simulated
  OBVIOUS
<1>1. rd \in Packet /\ rd' \in Packet
  BY Typed DEF Good, IndInv, TypeOK
<1>2. s = "SetDefaultMAC" /\ s' = "Send" /\ f' = f /\ counters' = counters
  BY DEF SetDefaultMAC
<1>3. f.replyType # 0 => rd.ipLength = 130 /\ rd.dnsLength = 12 /\ rd.dnsPkt = DNSHeader(rd)
  BY <1>2 DEF Good, RouteInv, AnswerInv
<1>4. /\ rd'.addr = [rd.addr EXCEPT !["dstMAC"] = NormalMAC]
      /\ rd'.ipLength = rd.ipLength /\ rd'.dnsLength = rd.dnsLength /\ rd'.dnsPkt = rd.dnsPkt
      /\ rd'.cfg = rd.cfg /\ rd'.stats = rd.stats /\ rd'.mac = rd.mac
  BY <1>1 DEF SetDefaultMAC, Packet
<1>5. rd' = Reply(f, rd)
  <2> DEFINE u == Reply(f, rd)
  <2>1. /\ u \in Packet /\ u.addr = [rd.addr EXCEPT !["dstMAC"] = NormalMAC]
        /\ u.ipLength = rd.ipLength /\ u.dnsLength = rd.dnsLength /\ u.dnsPkt = rd.dnsPkt
        /\ u.cfg = rd.cfg /\ u.stats = rd.stats /\ u.mac = rd.mac
    BY <1>1, <1>3, ReplyParts
  <2> HIDE DEF u
  <2>2. rd' = u
    BY <1>1, <1>4, <2>1, PacketEq
  <2> QED
    BY <2>2 DEF u
<1>6. PendingReply' = PendingReply
  BY <1>2, <1>5 DEF PendingReply, QueryStates, ReplyStates
<1> QED
  BY <1>2, <1>6, WriteStep DEF Answering, ReplyStates

\* The answer is handed over.
LEMMA SendStep == Good /\ Send => Simulated
<1> SUFFICES ASSUME Good, Send PROVE Simulated
  OBVIOUS
<1>1. View /\ View'
  BY ViewHolds, ViewHoldsNext DEF Good
<1>2. s = "Send" /\ s' = "Idle" /\ f' = f /\ rd' = rd /\ stats' = stats /\ snd_en' = TRUE
  BY StatsFrame DEF Send
<1>3. PendingReply = rd /\ Handed' = rd
  BY <1>2 DEF PendingReply, Handed, QueryStates, ReplyStates
<1>4. InForce = f /\ InWork = None /\ Stage = "answer"
  BY <1>1, <1>2 DEF View, Answering, UpdateStates
<1>5. InForce' = f' /\ InWork' = None /\ Stage' = "idle" /\ PendingReply' = None
  BY <1>1, <1>2 DEF View, Waiting, UpdateStates
<1>6. PF!Answer
  BY <1>2, <1>3, <1>4, <1>5 DEF PF!Answer
<1> QED
  BY <1>6 DEF Simulated, PF!Next

\* Every cycle of the core is one step of the abstract filter, or none.
LEMMA CycleSimulated == Good => Simulated
<1> SUFFICES ASSUME Good PROVE Simulated
  OBVIOUS
<1>1. ASSUME NEW x \in Sections, CopyStep(x) PROVE Simulated
  BY <1>1, UpdateStep, SnapshotCopy DEF CopyStep
<1>2. ASSUME NEW x \in AddrSections, ListStep(x) PROVE Simulated
  BY <1>2, ListSimulated
<1>3. SingleStep => Simulated
  BY IdleStep, ReadStep, HashingStep, AuthStep, KindStep, UpdatedStep, SnapshotStates, SnapshotDone,
     PktSimulated, HeaderStep, AnswerDone, SendStep DEF SingleStep
<1> QED
  BY <1>1, <1>2, <1>3, StepCases DEF Good

\* The power-up state is one of the abstract filter.
LEMMA InitSimulated == Init => PF!Init
<1> SUFFICES ASSUME Init PROVE PF!Init
  OBVIOUS
<1>1. View
  BY InitInd, ViewHolds
<1>2. s = "Idle" /\ f \in BootFilters /\ snd_en = FALSE
  BY DEF Init
<1>3. stats = [stc |-> 0, sfc |-> 0, smc |-> 0, sic |-> 0, spc |-> 0]
  BY DEF Init, stats
<1>4. InForce = f /\ InWork = None /\ Stage = "idle" /\ PendingReply = None
  BY <1>1, <1>2 DEF View, Waiting, UpdateStates
<1>5. Handed = None
  BY <1>2 DEF Handed
<1> QED
  BY <1>2, <1>3, <1>4, <1>5 DEF PF!Init

\* The state machine of i.vhd, with its handshakes, is the atomic filter: over any
\* sequence of packets, for lists, items and payloads of any size and any hash.
THEOREM CoreIsFilter == Spec => ImplementsPacketFilter
<1>1. Init => PF!Init
  BY InitSimulated
<1>2. IndInv /\ IndInv' /\ RouteInv /\ [Next]_vars => [PF!Next]_(PF!pfvars)
  <2> SUFFICES ASSUME IndInv, IndInv', RouteInv, [Next]_vars PROVE Simulated
    BY DEF Simulated
  <2>1. CASE Clock
    BY <2>1, CycleSimulated DEF Clock, Good
  <2>2. CASE UNCHANGED core
    <3>1. /\ s' = s /\ k' = k /\ rd' = rd /\ f' = f /\ snd_en' = snd_en /\ stats' = stats
      BY <2>2, StatsFrame DEF core
    <3> QED
      BY <3>1 DEF Simulated, PF!pfvars, InForce, InWork, Stage, PendingReply, Handed, Classifying,
                  Judging
  <2> QED
    BY <2>1, <2>2 DEF Next, Offer, vars
<1> QED
  BY <1>1, <1>2, Invariance, Routes, PTL DEF Spec, ImplementsPacketFilter, PF!Spec
====
