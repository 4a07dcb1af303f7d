------------------------------- MODULE SendData -------------------------------
(***************************************************************************)
(* snd_data_t of common.vhd, and what the frame of an answer has to say:   *)
(* the reference for the output processor.                                 *)
(*                                                                         *)
(* The numbers of a header are given as the wire spells them; the lengths  *)
(* in a received packet keep the order in which mac_rcv shifted their      *)
(* nibbles in, the low nibble of each byte first.  An IP address enters a  *)
(* checksum by the sum of its two words.                                   *)
(***************************************************************************)
EXTENDS Common

CONSTANTS
    ReplyMAC,    \* g_reply_mac
    WordSum(_),  \* the sum of the two sixteen bit words of an IP address
    NoFrame      \* the record of zeros before the first answer

UpTo(n) == {m \in Nat : m <= n}

Word == UpTo(65535)
PairSum == UpTo(131070)    \* two words
TotalSum == UpTo(524287)   \* the words of a header

Swap(b) == (b % 16) * 16 + (b \div 16)

\* The number spelled by the four nibbles of a received length.
Spelled(n) == Swap(n \div 256) * 256 + Swap(n % 256)

\* The payload bits, in each of their views.
Payload(p) == [dnsPkt |-> p.dnsPkt, cfg |-> p.cfg, stats |-> p.stats, mac |-> p.mac]

\* snd_data_t; udpChecksum is always zero.
SndData == [srcMAC : Addr, dstMAC : Addr, srcIP : Addr, dstIP : Addr,
            srcPort : Addr, dstPort : Addr, ipTTL : {0, 64},
            ipLength : Word, ipChecksum : Word, udpLength : Word,
            dnsPktCnt : UpTo(1023),
            payload : [dnsPkt : [PktIndex -> Byte], cfg : RawFilter,
                       stats : Counters, mac : Tag]]

ASSUME FrameAssumption == ReplyMAC \in Addr /\ NoFrame \in SndData
ASSUME WordSumAssumption == \A a \in Addr : WordSum(a) \in PairSum
ASSUME FullSizeAssumption == PktBytes = 128

-------------------------------------------------------------------------------
(* The reference.                                                            *)

\* Version, header length and service; total length; lifetime and protocol;
\* the addresses.  Identification, flags and offset are zero.
HeaderSum(fr) == 17664 + fr.ipLength + (fr.ipTTL * 256 + 17)
                   + WordSum(fr.srcIP) + WordSum(fr.dstIP)

Fold(n) == (n \div 65536) + (n % 65536)

\* The Internet checksum: folded until no carry is left, then complemented.
Checksum(fr) == 65535 - Fold(Fold(HeaderSum(fr)))

\* fr answers p: addresses and ports are swapped, at most PktBytes of payload
\* follow, and the lengths say so.  The checksum is right for headers shorter
\* than 256 bytes in all whose sum leaves no second carry.
Answers(fr, p) ==
    /\ fr.srcMAC = p.addr["dstMAC"] /\ fr.dstMAC = ReplyMAC
    /\ fr.srcIP = p.addr["dstIP"] /\ fr.dstIP = p.addr["srcIP"]
    /\ fr.srcPort = p.addr["dstPort"] /\ fr.dstPort = p.addr["srcPort"]
    /\ fr.ipTTL = 64
    /\ fr.ipLength = Spelled(p.ipLength)
    /\ fr.udpLength = PayloadEnd(p) + 8
    /\ fr.dnsPktCnt = PayloadEnd(p) * 8 - 4
    /\ fr.payload = Payload(p)
    /\ fr.ipLength < 256 /\ Fold(HeaderSum(fr)) < 65536
         => fr.ipChecksum = 65535 - Fold(HeaderSum(fr))
===============================================================================
