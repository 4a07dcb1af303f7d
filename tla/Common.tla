-------------------------------- MODULE Common --------------------------------
(***************************************************************************)
(* The records of common.vhd that the core exchanges and keeps.            *)
(*                                                                         *)
(* The 1024 payload bits of rcv_data_t are given as the two views the core *)
(* takes of them: dnsPkt, the bytes a normal packet is matched on, and     *)
(* cfg / stats / mac, the bit fields of admin and probe packets.  A packet *)
(* takes one route through the core, and each route uses one view.         *)
(* Lengths and offsets the VHDL counts in bits are counted in bytes.       *)
(***************************************************************************)
EXTENDS Naturals

CONSTANTS
    Addr,         \* MAC addresses, IP addresses and ports
    AdminMAC,     \* g_admin_mac
    QueryMAC,     \* g_query_mac
    NormalMAC,    \* g_normal_mac
    FilterDepth,  \* filter_depth, the entries of every list
    PktBytes,     \* bytes of payload kept per packet (128)
    ItemBytes,    \* bytes of a domain item (16)
    Tag,          \* 64-bit authentication tags
    NoTag,        \* a tag of no configuration
    Hash(_)       \* SipHash under g_admin_key of the 960 bits that hold cfg

ASSUME AddrAssumption == {AdminMAC, QueryMAC, NormalMAC} \subseteq Addr
ASSUME SizeAssumption == /\ FilterDepth \in Nat /\ FilterDepth >= 1
                         /\ PktBytes \in Nat /\ PktBytes >= 12
                         /\ ItemBytes \in Nat /\ ItemBytes <= PktBytes

\* The checks a packet goes through, in order.
AddrSections == {"srcMAC", "dstMAC", "srcIP", "dstIP", "srcPort", "dstPort"}
Sections == AddrSections \cup {"dns"}

After(x) == CASE x = "srcMAC"  -> "dstMAC"
              [] x = "dstMAC"  -> "srcIP"
              [] x = "srcIP"   -> "dstIP"
              [] x = "dstIP"   -> "srcPort"
              [] x = "srcPort" -> "dstPort"
              [] OTHER         -> "dns"

Before(x) == CASE x = "srcMAC"  -> {}
               [] x = "dstMAC"  -> {"srcMAC"}
               [] x = "srcIP"   -> {"srcMAC", "dstMAC"}
               [] x = "dstIP"   -> {"srcMAC", "dstMAC", "srcIP"}
               [] x = "srcPort" -> {"srcMAC", "dstMAC", "srcIP", "dstIP"}
               [] x = "dstPort" -> {"srcMAC", "dstMAC", "srcIP", "dstIP", "srcPort"}
               [] OTHER         -> AddrSections

Byte == 0 .. 255
Entries == 0 .. (FilterDepth - 1)
PktIndex == 0 .. (PktBytes - 1)
ItemIndex == 0 .. (ItemBytes - 1)

\* filter_t.  BW 0 is a blacklist, 1 a whitelist; replyType 0 forwards the
\* packet, 1 answers it.
FilterWith(lengths) ==
    [BW : [Sections -> {0, 1}],
     Length : [Sections -> lengths],
     List : [AddrSections -> [Entries -> Addr]],
     dnsItemEndPtr : [Entries -> 0 .. ItemBytes],
     dnsList : [Entries -> [ItemIndex -> Byte]],
     replyType : {0, 1}]

Filter == FilterWith(0 .. FilterDepth)

\* What an admin payload can spell: lengths are as wide as their bit field.
RawFilter == FilterWith(Nat)

Counters == [stc : Nat, sfc : Nat, smc : Nat, sic : Nat, spc : Nat]

\* rcv_data_t
Packet == [addr : [AddrSections -> Addr],
           ipLength : Nat,
           dnsLength : Nat,
           dnsPkt : [PktIndex -> Byte],
           cfg : RawFilter,
           stats : Counters,
           mac : Tag]

\* The admin tool signs configurations that fit the lists and whose domain
\* items are text.
SoundFilter(c) == /\ c \in Filter
                  /\ \A i \in Entries : \A j \in ItemIndex :
                        j < c.dnsItemEndPtr[i] => c.dnsList[i][j] # 0

Authentic(p) == p.mac = Hash(p.cfg)

\* mac_rcv clears dnsPkt before it records a payload, so what follows the
\* payload is zero; a frame without payload never meets its end mark.
Received(p) == /\ p \in Packet
               /\ p.dnsLength >= 1 /\ p.dnsLength < 65536 /\ p.ipLength < 65536
               /\ \A j \in PktIndex : j >= p.dnsLength => p.dnsPkt[j] = 0
               /\ Authentic(p) => SoundFilter(p.cfg)

\* The payload bytes that are matched: at most what is kept of the packet.
PayloadEnd(p) == IF p.dnsLength > PktBytes THEN PktBytes ELSE p.dnsLength
===============================================================================
