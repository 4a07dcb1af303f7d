-------------------------------- MODULE CoreIn --------------------------------
(***************************************************************************)
(* The core input processor (i.vhd) with the handshakes it takes part in:  *)
(* the head of the receive FIFO, the SipHash unit and the pulse to the     *)
(* output side.  One step is one cycle of clk50: the rising edge computes  *)
(* the next state, the falling edge registers it.                          *)
(*                                                                         *)
(* s.s is kept as s (what is being done) and k (the section it is done     *)
(* to): CheckDstIP is s = "Check", k = "dstIP".  The counters fsmc ..      *)
(* fdnsc are fc[section]; amc, aic, apc, adc are ac[...].                  *)
(***************************************************************************)
EXTENDS Judgement

CONSTANTS
    BootFilters,  \* the configurations a bitstream may initialise f with
    Packets,      \* the packets mac_rcv can deliver
    None,         \* no packet
    HashLatency,  \* cycles from InitV to FinaliseAfter in siphasher.vhd
    MaxPkts       \* bound: packets offered in one behaviour

ASSUME BootAssumption == \A c \in BootFilters : SoundFilter(c)
ASSUME PacketsAssumption == \A p \in Packets : Received(p)
ASSUME NoneAssumption == None \notin Packet
ASSUME TagAssumption == NoTag \in Tag /\ \A p \in Packets : Hash(p.cfg) \in Tag
ASSUME LatencyAssumption == HashLatency \in Nat /\ HashLatency >= 1 /\ MaxPkts \in Nat

VARIABLES
    s, k,                              \* state and section
    rd,                                \* the packet in work
    f,                                 \* the filter configuration
    fc,                                \* entry under comparison, per section
    ac,                                \* entry being copied: amc, aic, apc, adc
    fpktsc, fpktc, fpktmf,             \* window start, bytes left, match flag
    stc, sfc, smc, sic, spc,           \* the packet counters
    led, pc,                           \* LED register and packet counter
    snd_en, el_rcv_ack, siphash_start, \* one-cycle pulses
    el_rcv_dv, el_rcv_data,            \* buf_not_empty and head of the receive FIFO
    offered,                           \* packets that have reached the FIFO's head
    hs, hc, hd, v0,                    \* siphasher: state, cycles left, latched input, out_data
    siphash_ready, ahv                 \* its ready pulse; the core's copy of out_data

scan == <<fpktsc, fpktc, fpktmf>>
counters == <<stc, sfc, smc, sic, spc>>
panel == <<led, pc>>
core == <<s, k, rd, f, fc, ac, scan, counters, panel, snd_en, el_rcv_ack, siphash_start>>
head == <<el_rcv_dv, el_rcv_data, offered>>
hasher == <<hs, hc, hd, v0, siphash_ready, ahv>>
vars == <<core, head, hasher>>

AdminCounter(x) == CASE x \in {"srcMAC", "dstMAC"}   -> "amc"
                     [] x \in {"srcIP", "dstIP"}     -> "aic"
                     [] x \in {"srcPort", "dstPort"} -> "apc"
                     [] OTHER                        -> "adc"

AreaStates == {"CmpPktArea32", "CmpPktArea24", "CmpPktArea16", "CmpPktArea8"}

QueryStates == {"ReplyQueryHeader", "ReplyQueryMeta", "ReplyQueryList",
                "ReplyQueryReplyType", "ReplyQueryCountersTot", "ReplyQueryCountersSeg"}

HashStates == {"StartHash", "WaitHash", "HashAuth"}

UpdateStates == {"UpdateFilterMeta", "UpdateFilterList", "UpdateReplyType"}

AddrStates == {"Check", "Cmp", "Match"}

PktStates == {"CheckPkt", "CmpPktCheck", "CmpPktDone", "FilterPkt"} \cup AreaStates

ReplyStates == {"SetDNSReplyHeader", "SetDNSReplyCount", "SetDefaultMAC"}

States == {"Idle", "Read", "CheckAdmin", "CheckQuery", "Send"} \cup QueryStates
            \cup HashStates \cup UpdateStates \cup AddrStates \cup PktStates \cup ReplyStates

\* The length of the domain item under comparison.
ItemEnd == f.dnsItemEndPtr[fc["dns"]]

NoCounters == [stc |-> 0, sfc |-> 0, smc |-> 0, sic |-> 0, spc |-> 0]

\* rd before the first packet is read; nothing looks at it.
BlankPacket(c) == [addr |-> [x \in AddrSections |-> NormalMAC], ipLength |-> 0, dnsLength |-> 0,
                   dnsPkt |-> [j \in PktIndex |-> 0], cfg |-> c,
                   stats |-> NoCounters, mac |-> NoTag]

Init == /\ s = "Idle" /\ k = "srcMAC"
        /\ f \in BootFilters
        /\ rd = BlankPacket(f)
        /\ fc = [x \in Sections |-> 0]
        /\ ac = [c \in {"amc", "aic", "apc", "adc"} |-> 0]
        /\ fpktsc = 0 /\ fpktc = 0 /\ fpktmf = FALSE
        /\ stc = 0 /\ sfc = 0 /\ smc = 0 /\ sic = 0 /\ spc = 0
        /\ led = 0 /\ pc = 0
        /\ snd_en = FALSE /\ el_rcv_ack = FALSE /\ siphash_start = FALSE
        /\ el_rcv_dv = FALSE /\ el_rcv_data = BlankPacket(f) /\ offered = 0
        /\ hs = "Idle" /\ hc = 0 /\ hd = f /\ v0 = NoTag
        /\ siphash_ready = FALSE /\ ahv = NoTag

\* Mutant: the acknowledge is not withdrawn.
NoPulse_StickyAck == snd_en' = FALSE /\ UNCHANGED el_rcv_ack /\ siphash_start' = FALSE

\* The pulses fall at every clock edge that does not raise them.
NoPulse == snd_en' = FALSE /\ el_rcv_ack' = FALSE /\ siphash_start' = FALSE

-------------------------------------------------------------------------------
(* Taking a packet and telling its kind by the destination MAC.              *)

Idle == /\ s = "Idle"
        /\ s' = IF el_rcv_dv THEN "Read" ELSE "Idle"
        /\ NoPulse
        /\ UNCHANGED <<k, rd, f, fc, ac, scan, counters, panel>>

Read == /\ s = "Read"
        /\ rd' = el_rcv_data
        /\ el_rcv_ack' = TRUE /\ snd_en' = FALSE /\ siphash_start' = FALSE
        /\ s' = "CheckAdmin"
        /\ UNCHANGED <<k, f, fc, ac, scan, counters, panel>>

\* The LEDs and the packet counter change before the packet is authenticated.
CheckAdmin == /\ s = "CheckAdmin"
              /\ IF rd.addr["dstMAC"] = AdminMAC
                 THEN s' = "StartHash" /\ led' = 15 /\ pc' = 0
                 ELSE s' = "CheckQuery" /\ UNCHANGED panel
              /\ NoPulse
              /\ UNCHANGED <<k, rd, f, fc, ac, scan, counters>>

CheckQuery == /\ s = "CheckQuery"
              /\ IF rd.addr["dstMAC"] = QueryMAC
                 THEN s' = "ReplyQueryHeader" /\ UNCHANGED <<k, fc, stc>>
                 ELSE /\ s' = "Check" /\ k' = "srcMAC"
                      /\ stc' = stc + 1
                      /\ fc' = [fc EXCEPT !["srcMAC"] = 0]
              /\ NoPulse
              /\ UNCHANGED <<rd, f, ac, scan, sfc, smc, sic, spc, panel>>

-------------------------------------------------------------------------------
(* Probe packets: the configuration and the counters overwrite the payload.  *)

ReplyQueryHeader == /\ s = "ReplyQueryHeader"
                    /\ rd' = [rd EXCEPT !.ipLength = 201, !.dnsLength = 128]
                    /\ s' = "ReplyQueryMeta" /\ k' = "srcMAC"
                    /\ NoPulse
                    /\ UNCHANGED <<f, fc, ac, scan, counters, panel>>

ReplyQueryMeta(x) ==
    /\ s = "ReplyQueryMeta" /\ k = x
    /\ rd' = [rd EXCEPT !.cfg.BW[x] = f.BW[x], !.cfg.Length[x] = f.Length[x],
                        !.cfg.dnsItemEndPtr = IF x = "dns" THEN f.dnsItemEndPtr ELSE @]
    /\ ac' = [ac EXCEPT ![AdminCounter(x)] = 0]
    /\ s' = "ReplyQueryList"
    /\ NoPulse
    /\ UNCHANGED <<k, f, fc, scan, counters, panel>>

ReplyQueryList(x) ==
    LET i == ac[AdminCounter(x)] IN
    /\ s = "ReplyQueryList" /\ k = x
    /\ \/ /\ i < FilterDepth
          /\ rd' = IF x = "dns" THEN [rd EXCEPT !.cfg.dnsList[i] = f.dnsList[i]]
                                ELSE [rd EXCEPT !.cfg.List[x][i] = f.List[x][i]]
          /\ ac' = [ac EXCEPT ![AdminCounter(x)] = i + 1]
          /\ UNCHANGED <<s, k>>
       \/ /\ i >= FilterDepth
          /\ s' = IF x = "dns" THEN "ReplyQueryReplyType" ELSE "ReplyQueryMeta"
          /\ k' = After(x)
          /\ UNCHANGED <<rd, ac>>
    /\ NoPulse
    /\ UNCHANGED <<f, fc, scan, counters, panel>>

ReplyQuerySrcMAC == ReplyQueryMeta("srcMAC") \/ ReplyQueryList("srcMAC")
ReplyQueryDstMAC == ReplyQueryMeta("dstMAC") \/ ReplyQueryList("dstMAC")
ReplyQuerySrcIP == ReplyQueryMeta("srcIP") \/ ReplyQueryList("srcIP")
ReplyQueryDstIP == ReplyQueryMeta("dstIP") \/ ReplyQueryList("dstIP")
ReplyQuerySrcPort == ReplyQueryMeta("srcPort") \/ ReplyQueryList("srcPort")
ReplyQueryDstPort == ReplyQueryMeta("dstPort") \/ ReplyQueryList("dstPort")
ReplyQueryDNS == ReplyQueryMeta("dns") \/ ReplyQueryList("dns")

ReplyQueryReplyType == /\ s = "ReplyQueryReplyType"
                       /\ rd' = [rd EXCEPT !.cfg.replyType = f.replyType]
                       /\ s' = "ReplyQueryCountersTot"
                       /\ NoPulse
                       /\ UNCHANGED <<k, f, fc, ac, scan, counters, panel>>

ReplyQueryCountersTot == /\ s = "ReplyQueryCountersTot"
                         /\ rd' = [rd EXCEPT !.stats.stc = stc, !.stats.sfc = sfc,
                                             !.addr["dstMAC"] = QueryMAC]
                         /\ s' = "ReplyQueryCountersSeg"
                         /\ NoPulse
                         /\ UNCHANGED <<k, f, fc, ac, scan, counters, panel>>

\* spc occupies bits 934 to 997, the tag starts at bit 960.
ReplyQueryCountersSeg == /\ s = "ReplyQueryCountersSeg"
                         /\ rd' = [rd EXCEPT !.stats.smc = smc, !.stats.sic = sic,
                                             !.stats.spc = spc, !.mac = NoTag]
                         /\ s' = "Send"
                         /\ NoPulse
                         /\ UNCHANGED <<k, f, fc, ac, scan, counters, panel>>

-------------------------------------------------------------------------------
(* Admin packets: authenticate, then copy the configuration entry by entry.  *)

\* Mutant: the hash is never started.
StartHash_NoPulse == /\ s = "StartHash"
                     /\ NoPulse
                     /\ s' = "WaitHash"
                     /\ UNCHANGED <<k, rd, f, fc, ac, scan, counters, panel>>

StartHash == /\ s = "StartHash"
             /\ siphash_start' = TRUE /\ snd_en' = FALSE /\ el_rcv_ack' = FALSE
             /\ s' = "WaitHash"
             /\ UNCHANGED <<k, rd, f, fc, ac, scan, counters, panel>>

\* Mutant: the tag is compared without waiting for it.
WaitHash_NoWait == /\ s = "WaitHash"
                   /\ s' = "HashAuth"
                   /\ NoPulse
                   /\ UNCHANGED <<k, rd, f, fc, ac, scan, counters, panel>>

WaitHash == /\ s = "WaitHash"
            /\ s' = IF siphash_ready THEN "HashAuth" ELSE "WaitHash"
            /\ NoPulse
            /\ UNCHANGED <<k, rd, f, fc, ac, scan, counters, panel>>

\* Mutant: the tag is not compared.
HashAuth_NoCheck == /\ s = "HashAuth"
                    /\ s' = "UpdateFilterMeta" /\ k' = "srcMAC"
                    /\ NoPulse
                    /\ UNCHANGED <<rd, f, fc, ac, scan, counters, panel>>

HashAuth == /\ s = "HashAuth"
            /\ IF ahv = rd.mac
               THEN s' = "UpdateFilterMeta" /\ k' = "srcMAC" /\ UNCHANGED led
               ELSE s' = "Idle" /\ led' = 8 /\ UNCHANGED k
            /\ NoPulse
            /\ UNCHANGED <<rd, f, fc, ac, scan, counters, pc>>

\* Mutant: the copy counter keeps the value the previous section left.
UpdateFilterMeta_NoReset(x) ==
    /\ s = "UpdateFilterMeta" /\ k = x
    /\ f' = [f EXCEPT !.BW[x] = rd.cfg.BW[x], !.Length[x] = rd.cfg.Length[x],
                      !.dnsItemEndPtr = IF x = "dns" THEN rd.cfg.dnsItemEndPtr ELSE @]
    /\ s' = "UpdateFilterList"
    /\ NoPulse
    /\ UNCHANGED <<k, rd, fc, ac, scan, counters, panel>>

UpdateFilterMeta(x) ==
    /\ s = "UpdateFilterMeta" /\ k = x
    /\ f' = [f EXCEPT !.BW[x] = rd.cfg.BW[x], !.Length[x] = rd.cfg.Length[x],
                      !.dnsItemEndPtr = IF x = "dns" THEN rd.cfg.dnsItemEndPtr ELSE @]
    /\ ac' = [ac EXCEPT ![AdminCounter(x)] = 0]
    /\ s' = "UpdateFilterList"
    /\ NoPulse
    /\ UNCHANGED <<k, rd, fc, scan, counters, panel>>

UpdateFilterList(x) ==
    LET i == ac[AdminCounter(x)] IN
    /\ s = "UpdateFilterList" /\ k = x
    /\ \/ /\ i < FilterDepth
          /\ f' = IF x = "dns" THEN [f EXCEPT !.dnsList[i] = rd.cfg.dnsList[i]]
                               ELSE [f EXCEPT !.List[x][i] = rd.cfg.List[x][i]]
          /\ ac' = [ac EXCEPT ![AdminCounter(x)] = i + 1]
          /\ UNCHANGED <<s, k>>
       \/ /\ i >= FilterDepth
          /\ s' = IF x = "dns" THEN "UpdateReplyType" ELSE "UpdateFilterMeta"
          /\ k' = After(x)
          /\ UNCHANGED <<f, ac>>
    /\ NoPulse
    /\ UNCHANGED <<rd, fc, scan, counters, panel>>

UpdateFilterSrcMAC == UpdateFilterMeta("srcMAC") \/ UpdateFilterList("srcMAC")
UpdateFilterDstMAC == UpdateFilterMeta("dstMAC") \/ UpdateFilterList("dstMAC")
UpdateFilterSrcIP == UpdateFilterMeta("srcIP") \/ UpdateFilterList("srcIP")
UpdateFilterDstIP == UpdateFilterMeta("dstIP") \/ UpdateFilterList("dstIP")
UpdateFilterSrcPort == UpdateFilterMeta("srcPort") \/ UpdateFilterList("srcPort")
UpdateFilterDstPort == UpdateFilterMeta("dstPort") \/ UpdateFilterList("dstPort")
UpdateFilterDNS == UpdateFilterMeta("dns") \/ UpdateFilterList("dns")

UpdateReplyType == /\ s = "UpdateReplyType"
                   /\ f' = [f EXCEPT !.replyType = rd.cfg.replyType]
                   /\ s' = "Idle"
                   /\ NoPulse
                   /\ UNCHANGED <<k, rd, fc, ac, scan, counters, panel>>

-------------------------------------------------------------------------------
(* Normal packets: the six address lists.                                    *)

\* Mutant: sic counts a packet at both of its addresses.
Move_DoubleCount(x) == /\ s' = IF x = "dstPort" THEN "CheckPkt" ELSE "Check"
                       /\ k' = After(x)
                       /\ fc' = [fc EXCEPT ![After(x)] = 0]
                       /\ smc' = IF x = "dstMAC" THEN smc + 1 ELSE smc
                       /\ sic' = IF x \in {"srcIP", "dstIP"} THEN sic + 1 ELSE sic
                       /\ spc' = IF x = "dstPort" THEN spc + 1 ELSE spc

\* Section x accepts the packet: count it and open the next section.
Move(x) == /\ s' = IF x = "dstPort" THEN "CheckPkt" ELSE "Check"
           /\ k' = After(x)
           /\ fc' = [fc EXCEPT ![After(x)] = 0]
           /\ smc' = IF x = "dstMAC" THEN smc + 1 ELSE smc
           /\ sic' = IF x = "dstIP" THEN sic + 1 ELSE sic
           /\ spc' = IF x = "dstPort" THEN spc + 1 ELSE spc

\* Section x rejects the packet.
Ban(x) == /\ s' = "Idle"
          /\ fc' = [fc EXCEPT ![x] = 0]
          /\ UNCHANGED <<k, smc, sic, spc>>

CheckList(x) == /\ s = "Check" /\ k = x
                /\ IF fc[x] = f.Length[x]
                   THEN IF f.BW[x] = 0 THEN Move(x) ELSE Ban(x)
                   ELSE s' = "Cmp" /\ UNCHANGED <<k, fc, smc, sic, spc>>
                /\ NoPulse
                /\ UNCHANGED <<rd, f, ac, scan, stc, sfc, panel>>

CmpList(x) == /\ s = "Cmp" /\ k = x
              /\ IF rd.addr[x] = f.List[x][fc[x]]
                 THEN s' = "Match" /\ UNCHANGED fc
                 ELSE s' = "Check" /\ fc' = [fc EXCEPT ![x] = fc[x] + 1]
              /\ NoPulse
              /\ UNCHANGED <<k, rd, f, ac, scan, counters, panel>>

\* Mutant: black and white are swapped.
FilterMatch_Swapped(x) == /\ s = "Match" /\ k = x
                          /\ IF f.BW[x] = 0 THEN Move(x) ELSE Ban(x)
                          /\ NoPulse
                          /\ UNCHANGED <<rd, f, ac, scan, stc, sfc, panel>>

FilterMatch(x) == /\ s = "Match" /\ k = x
                  /\ IF f.BW[x] = 0 THEN Ban(x) ELSE Move(x)
                  /\ NoPulse
                  /\ UNCHANGED <<rd, f, ac, scan, stc, sfc, panel>>

FilterSrcMAC == CheckList("srcMAC") \/ CmpList("srcMAC") \/ FilterMatch("srcMAC")
FilterDstMAC == CheckList("dstMAC") \/ CmpList("dstMAC") \/ FilterMatch("dstMAC")
FilterSrcIP == CheckList("srcIP") \/ CmpList("srcIP") \/ FilterMatch("srcIP")
FilterDstIP == CheckList("dstIP") \/ CmpList("dstIP") \/ FilterMatch("dstIP")
FilterSrcPort == CheckList("srcPort") \/ CmpList("srcPort") \/ FilterMatch("srcPort")
FilterDstPort == CheckList("dstPort") \/ CmpList("dstPort") \/ FilterMatch("dstPort")

-------------------------------------------------------------------------------
(* Normal packets: the domain list.  A window as long as the item moves over *)
(* the payload byte by byte and is compared from its end, four, three, two   *)
(* or one bytes per cycle.                                                   *)

CheckPkt == /\ s = "CheckPkt"
            /\ IF fc["dns"] = f.Length["dns"]
               THEN /\ IF f.BW["dns"] = 0
                       THEN s' = "SetDNSReplyHeader" /\ sfc' = sfc + 1 /\ UNCHANGED fpktsc
                       ELSE s' = "Idle" /\ fpktsc' = 0 /\ UNCHANGED sfc
                    /\ UNCHANGED <<fpktc, fpktmf>>
               ELSE /\ s' = "CmpPktCheck"
                    /\ fpktsc' = 0 /\ fpktc' = ItemEnd /\ fpktmf' = FALSE
                    /\ UNCHANGED sfc
            /\ NoPulse
            /\ UNCHANGED <<k, rd, f, fc, ac, stc, smc, sic, spc, panel>>

CmpPktCheck == /\ s = "CmpPktCheck"
               /\ s' = CASE fpktc >= 4 -> "CmpPktArea32"
                         [] fpktc = 3  -> "CmpPktArea24"
                         [] fpktc = 2  -> "CmpPktArea16"
                         [] fpktc = 1  -> "CmpPktArea8"
                         [] OTHER      -> "CmpPktDone"
               /\ fpktmf' = IF fpktc = 0 THEN TRUE ELSE fpktmf
               /\ NoPulse
               /\ UNCHANGED <<k, rd, f, fc, ac, fpktsc, fpktc, counters, panel>>

\* The last w of the fpktc bytes left are compared.
CmpPktArea(w) ==
    /\ IF \A j \in ItemIndex : fpktc - w <= j /\ j < fpktc
                                 => rd.dnsPkt[fpktsc + j] = f.dnsList[fc["dns"]][j]
       THEN s' = "CmpPktCheck" /\ fpktc' = fpktc - w /\ UNCHANGED fpktmf
       ELSE s' = "CmpPktDone" /\ fpktmf' = FALSE /\ UNCHANGED fpktc
    /\ NoPulse
    /\ UNCHANGED <<k, rd, f, fc, ac, fpktsc, counters, panel>>

CmpPktArea32 == s = "CmpPktArea32" /\ CmpPktArea(4)
CmpPktArea24 == s = "CmpPktArea24" /\ CmpPktArea(3)
CmpPktArea16 == s = "CmpPktArea16" /\ CmpPktArea(2)
CmpPktArea8 == s = "CmpPktArea8" /\ CmpPktArea(1)

\* Mutant: the window stops one byte early.
CmpPktDone_Early == /\ s = "CmpPktDone"
                    /\ \/ /\ fpktmf
                          /\ s' = "FilterPkt"
                          /\ UNCHANGED <<fc, scan>>
                       \/ /\ ~fpktmf
                          /\ fpktsc + ItemEnd + 1 >= PayloadEnd(rd)
                          /\ s' = "CheckPkt"
                          /\ fc' = [fc EXCEPT !["dns"] = @ + 1]
                          /\ UNCHANGED scan
                       \/ /\ ~fpktmf
                          /\ fpktsc + ItemEnd + 1 < PayloadEnd(rd)
                          /\ s' = "CmpPktCheck"
                          /\ fpktsc' = fpktsc + 1 /\ fpktc' = ItemEnd /\ fpktmf' = FALSE
                          /\ UNCHANGED fc
                    /\ NoPulse
                    /\ UNCHANGED <<k, rd, f, ac, counters, panel>>

\* Mutant: the window does not move.
CmpPktDone_NoStep == /\ s = "CmpPktDone"
                     /\ \/ /\ fpktmf
                           /\ s' = "FilterPkt"
                           /\ UNCHANGED <<fc, scan>>
                        \/ /\ ~fpktmf
                           /\ fpktsc + ItemEnd >= PayloadEnd(rd)
                           /\ s' = "CheckPkt"
                           /\ fc' = [fc EXCEPT !["dns"] = @ + 1]
                           /\ UNCHANGED scan
                        \/ /\ ~fpktmf
                           /\ fpktsc + ItemEnd < PayloadEnd(rd)
                           /\ s' = "CmpPktCheck"
                           /\ fpktc' = ItemEnd
                           /\ UNCHANGED <<fc, fpktsc, fpktmf>>
                     /\ NoPulse
                     /\ UNCHANGED <<k, rd, f, ac, counters, panel>>

CmpPktDone == /\ s = "CmpPktDone"
              /\ \/ /\ fpktmf
                    /\ s' = "FilterPkt"
                    /\ UNCHANGED <<fc, scan>>
                 \/ /\ ~fpktmf
                    /\ fpktsc + ItemEnd >= PayloadEnd(rd)
                    /\ s' = "CheckPkt"
                    /\ fc' = [fc EXCEPT !["dns"] = @ + 1]
                    /\ UNCHANGED scan
                 \/ /\ ~fpktmf
                    /\ fpktsc + ItemEnd < PayloadEnd(rd)
                    /\ s' = "CmpPktCheck"
                    /\ fpktsc' = fpktsc + 1 /\ fpktc' = ItemEnd /\ fpktmf' = FALSE
                    /\ UNCHANGED fc
              /\ NoPulse
              /\ UNCHANGED <<k, rd, f, ac, counters, panel>>

FilterPkt == /\ s = "FilterPkt"
             /\ IF f.BW["dns"] = 0
                THEN s' = "Idle" /\ fc' = [fc EXCEPT !["dns"] = 0] /\ UNCHANGED sfc
                ELSE s' = "SetDNSReplyHeader" /\ sfc' = sfc + 1 /\ UNCHANGED fc
             /\ NoPulse
             /\ UNCHANGED <<k, rd, f, ac, scan, stc, smc, sic, spc, panel>>

-------------------------------------------------------------------------------
(* The answer.                                                               *)

\* Byte 2: QR, AA; byte 3: AD, CD and rcode 3.
SetDNSReplyHeader == /\ s = "SetDNSReplyHeader"
                     /\ IF f.replyType = 0
                        THEN s' = "SetDefaultMAC" /\ UNCHANGED rd
                        ELSE /\ rd' = [rd EXCEPT !.dnsPkt[2] = 128 + 4,
                                                 !.dnsPkt[3] = 32 + 16 + 3]
                             /\ s' = "SetDNSReplyCount"
                     /\ NoPulse
                     /\ UNCHANGED <<k, f, fc, ac, scan, counters, panel>>

\* Mutant: the length is written as a plain number.
SetDNSReplyCount_Plain ==
    /\ s = "SetDNSReplyCount"
    /\ rd' = [rd EXCEPT !.ipLength = 40, !.dnsLength = 12,
                        !.dnsPkt = [j \in PktIndex |-> IF j \in 4 .. 11 THEN 0 ELSE @[j]]]
    /\ s' = "SetDefaultMAC"
    /\ NoPulse
    /\ UNCHANGED <<k, f, fc, ac, scan, counters, panel>>

SetDNSReplyCount ==
    /\ s = "SetDNSReplyCount"
    /\ rd' = [rd EXCEPT !.ipLength = 130, !.dnsLength = 12,
                        !.dnsPkt = [j \in PktIndex |-> IF j \in 4 .. 11 THEN 0 ELSE @[j]]]
    /\ s' = "SetDefaultMAC"
    /\ NoPulse
    /\ UNCHANGED <<k, f, fc, ac, scan, counters, panel>>

SetDefaultMAC == /\ s = "SetDefaultMAC"
                 /\ rd' = [rd EXCEPT !.addr["dstMAC"] = NormalMAC]
                 /\ s' = "Send"
                 /\ NoPulse
                 /\ UNCHANGED <<k, f, fc, ac, scan, counters, panel>>

Send == /\ s = "Send"
        /\ snd_en' = TRUE /\ el_rcv_ack' = FALSE /\ siphash_start' = FALSE
        /\ pc' = IF pc = 15 THEN 0 ELSE pc + 1
        /\ led' = (pc + 1) % 16
        /\ s' = "Idle"
        /\ UNCHANGED <<k, rd, f, fc, ac, scan, counters>>

-------------------------------------------------------------------------------
(* The other registers clocked with the core.                                *)

\* siphasher.vhd, rounds abstracted to their number: it samples in_start and
\* in_data in Idle only, v0 passes through intermediate values, and ready is a
\* pulse one cycle after the result is in v0.
Siphasher ==
    /\ siphash_ready' = (hs = "Output")
    /\ \/ /\ hs = "Idle"
          /\ hs' = IF siphash_start THEN "Busy" ELSE "Idle"
          /\ hc' = IF siphash_start THEN HashLatency ELSE hc
          /\ hd' = IF siphash_start THEN rd.cfg ELSE hd
          /\ UNCHANGED v0
       \/ /\ hs = "Busy"
          /\ hc' = hc - 1
          /\ hs' = IF hc = 1 THEN "Output" ELSE "Busy"
          /\ v0' = IF hc = 1 THEN Hash(hd) ELSE NoTag
          /\ UNCHANGED hd
       \/ /\ hs = "Output"
          /\ hs' = "Idle"
          /\ UNCHANGED <<hc, hd, v0>>

\* reg: s.ahv is out_data as it was before the clock edge.
LatchHash == ahv' = v0

\* The receive FIFO moves on in the cycle that sees the acknowledge.
FifoHead == /\ el_rcv_dv' = (el_rcv_dv /\ ~el_rcv_ack)
            /\ UNCHANGED <<el_rcv_data, offered>>

\* A packet reaches the head of the receive FIFO, at any time.
Offer(p) == /\ ~el_rcv_dv
            /\ offered < MaxPkts
            /\ el_rcv_dv' = TRUE /\ el_rcv_data' = p /\ offered' = offered + 1
            /\ UNCHANGED <<core, hasher>>

QueryRoute == \/ ReplyQueryHeader
              \/ ReplyQuerySrcMAC \/ ReplyQueryDstMAC \/ ReplyQuerySrcIP \/ ReplyQueryDstIP
              \/ ReplyQuerySrcPort \/ ReplyQueryDstPort \/ ReplyQueryDNS
              \/ ReplyQueryReplyType \/ ReplyQueryCountersTot \/ ReplyQueryCountersSeg

AdminRoute == \/ StartHash \/ WaitHash \/ HashAuth
              \/ UpdateFilterSrcMAC \/ UpdateFilterDstMAC
              \/ UpdateFilterSrcIP \/ UpdateFilterDstIP
              \/ UpdateFilterSrcPort \/ UpdateFilterDstPort
              \/ UpdateFilterDNS \/ UpdateReplyType

FilterRoute == \/ FilterSrcMAC \/ FilterDstMAC \/ FilterSrcIP \/ FilterDstIP
               \/ FilterSrcPort \/ FilterDstPort
               \/ CheckPkt \/ CmpPktCheck
               \/ CmpPktArea32 \/ CmpPktArea24 \/ CmpPktArea16 \/ CmpPktArea8
               \/ CmpPktDone \/ FilterPkt
               \/ SetDNSReplyHeader \/ SetDNSReplyCount \/ SetDefaultMAC

CoreCycle == Idle \/ Read \/ CheckAdmin \/ CheckQuery
               \/ QueryRoute \/ AdminRoute \/ FilterRoute \/ Send

Clock == CoreCycle /\ Siphasher /\ LatchHash /\ FifoHead

Next == Clock \/ \E p \in Packets : Offer(p)

\* clk50 does not stop.
Spec == Init /\ [][Next]_vars /\ WF_vars(Clock)

-------------------------------------------------------------------------------
(* Type correctness.                                                         *)

TypeOK == /\ s \in States /\ k \in Sections
          /\ rd \in Packet /\ f \in Filter
          /\ fc \in [Sections -> 0 .. FilterDepth]
          /\ ac \in [{"amc", "aic", "apc", "adc"} -> 0 .. FilterDepth]
          /\ fpktsc \in 0 .. PktBytes /\ fpktc \in 0 .. ItemBytes /\ fpktmf \in BOOLEAN
          /\ stc \in Nat /\ sfc \in Nat /\ smc \in Nat /\ sic \in Nat /\ spc \in Nat
          /\ led \in 0 .. 15 /\ pc \in 0 .. 15
          /\ snd_en \in BOOLEAN /\ el_rcv_ack \in BOOLEAN /\ siphash_start \in BOOLEAN
          /\ el_rcv_dv \in BOOLEAN /\ el_rcv_data \in Packet /\ offered \in Nat
          /\ hs \in {"Idle", "Busy", "Output"} /\ hc \in 0 .. HashLatency
          /\ hd \in RawFilter /\ v0 \in Tag /\ siphash_ready \in BOOLEAN /\ ahv \in Tag

-------------------------------------------------------------------------------
(* Refinement of PacketFilter.                                               *)

stats == [stc |-> stc, sfc |-> sfc, smc |-> smc, sic |-> sic, spc |-> spc]

\* The answer is decided when a packet is found to be a probe or accepted; the
\* states that follow only write it into rd, and Reply and QueryReply are what
\* is still missing of it, since both overwrite.
PendingReply == IF s \in QueryStates THEN QueryReply(f, stats, rd)
                ELSE IF s \in ReplyStates THEN Reply(f, rd)
                ELSE IF s = "Send" THEN rd ELSE None

Classifying == s \in {"CheckAdmin", "CheckQuery"} \cup HashStates
Judging == s \in AddrStates \cup PktStates

Stage == IF Classifying THEN "classify"
         ELSE IF Judging THEN k
         ELSE IF PendingReply # None THEN "answer" ELSE "idle"

\* An update takes effect as a whole when its tag has been checked: until its
\* last entry is copied the core takes no packet that could tell.
InForce == IF s \in UpdateStates THEN rd.cfg ELSE f

InWork == IF Classifying \/ Judging THEN rd ELSE None

Handed == IF snd_en THEN rd ELSE None

PF == INSTANCE PacketFilter WITH
        cfg <- InForce, cnt <- stats, cur <- InWork, stage <- Stage,
        reply <- PendingReply, out <- Handed

\* Over every interleaving of packet arrival, hashing and copying the core is
\* the atomic filter of PacketFilter: the configuration changes as a whole and
\* only by authentic packets, a packet is judged by one configuration, probe
\* answers are consistent snapshots, and a packet is answered exactly when all
\* seven sections accept it.
ImplementsPacketFilter == PF!Spec

-------------------------------------------------------------------------------
(* What the scan of the lists has established, state by state.               *)

\* Entries before fc[k] differ from the packet's field; a match is a listed one.
AddrScan ==
    s \in AddrStates =>
        /\ k \in AddrSections
        /\ fc[k] <= f.Length[k]
        /\ s # "Check" => fc[k] < f.Length[k]
        /\ s # "Match" => \A i \in Entries : i < fc[k] => f.List[k][i] # rd.addr[k]
        /\ s = "Match" => f.List[k][fc[k]] = rd.addr[k]

\* Items before fc["dns"] do not occur in the payload, nor does the current item
\* before fpktsc; the bytes of the window from fpktc on have been found equal.
PktScan ==
    s \in PktStates =>
        /\ k = "dns"
        /\ fc["dns"] <= f.Length["dns"]
        /\ s # "CheckPkt" => fc["dns"] < f.Length["dns"]
        /\ \A i \in Entries : i < fc["dns"] => ~Contains(f, rd, i)

WindowScan ==
    s \in PktStates \ {"CheckPkt", "FilterPkt"} =>
        /\ fpktsc = 0 \/ fpktsc + ItemEnd <= PayloadEnd(rd)
        /\ \A o \in 0 .. PktBytes : o < fpktsc => ~OccursAt(f, rd, fc["dns"], o)
        /\ s # "CmpPktDone" =>
              /\ fpktc <= ItemEnd
              /\ \A j \in ItemIndex : fpktc <= j /\ j < ItemEnd
                                        => rd.dnsPkt[fpktsc + j] = f.dnsList[fc["dns"]][j]
        /\ s = "CmpPktArea32" => fpktc >= 4
        /\ s = "CmpPktArea24" => fpktc = 3
        /\ s = "CmpPktArea16" => fpktc = 2
        /\ s = "CmpPktArea8" => fpktc = 1
        /\ s = "CmpPktDone" => (fpktmf <=> OccursAt(f, rd, fc["dns"], fpktsc))

\* The judgement so far is the reference judgement: every section behind the
\* packet accepts it, a domain match is an occurrence inside the payload (never
\* in the cleared bytes behind it), and only a packet that all seven sections
\* accept reaches the reply states.
ScanSound ==
    /\ AddrScan /\ PktScan /\ WindowScan
    /\ Judging => \A y \in Before(k) : Accepts(f, rd, y)
    /\ s = "FilterPkt" => Contains(f, rd, fc["dns"])
    /\ s = "SetDNSReplyHeader" => \A x \in Sections : Accepts(f, rd, x)

-------------------------------------------------------------------------------
(* The handshakes.                                                           *)

\* The tag compared in HashAuth is the one of the packet in work: not the last
\* packet's, not an intermediate value, although ahv trails v0 by a cycle and
\* ready is a single pulse.
HashFresh == s = "HashAuth" => ahv = Hash(rd.cfg)

\* The core is back at the FIFO only after the acknowledge has moved its head:
\* no packet is taken twice, and none is taken that is not there.
TakenOnce == /\ s \in {"Idle", "Read"} => ~el_rcv_ack
             /\ s = "Read" => el_rcv_dv

\* The counters a probe reports are nested: a packet counted behind a section
\* was counted at every section before it.
CountersNested == sfc <= spc /\ spc <= sic /\ sic <= smc /\ smc <= stc

\* No configuration and no packet keeps the core from its next packet: every
\* scan ends, and a hash that was started is always answered.
PacketFinished == s = "Read" ~> s = "Idle"
===============================================================================
