-------------------------------- MODULE MacSnd --------------------------------
(***************************************************************************)
(* mac_snd.vhd: the Ethernet sender, one step per nibble on the wire.  The *)
(* numbers of a record are given by their nibbles, as the wire spells      *)
(* them.  The check sequence is the matter of EthCrc; zeros stand for it.  *)
(***************************************************************************)
EXTENDS EthFrame

CONSTANTS
    Answers,      \* the records of the send FIFO
    MaxAnswers    \* bound: their number

\* snd_data_t, with its numbers by their nibbles.
SndRecord == [dstMAC : [0 .. 11 -> Half], srcMAC : [0 .. 11 -> Half],
              ipLength : [0 .. 3 -> Half], ipTTL : [0 .. 1 -> Half], ipChecksum : [0 .. 3 -> Half],
              srcIP : [0 .. 7 -> Half], dstIP : [0 .. 7 -> Half],
              srcPort : [0 .. 3 -> Half], dstPort : [0 .. 3 -> Half],
              udpLength : [0 .. 3 -> Half], udpChecksum : [0 .. 3 -> Half],
              dnsPktCnt : Nat, dnsPkt : [RecordNibbles -> Half]]

\* What the core hands over: n bytes of payload, counted in both ways (CoreOut).
ASSUME AnswerAssumption ==
    Answers \subseteq {a \in SndRecord :
                        \E n \in 1 .. RecordBytes :
                          Number(a.udpLength) = n + 8 /\ a.dnsPktCnt = (8 * n) - 4}

VARIABLES
    ss, sc,       \* s.s, s.c
    sd,           \* d
    tx,           \* what was sent since E_TX_EN was low
    answers       \* records taken

sndvars == <<ss, sc, sd, tx, answers>>

\* The c of a field's last nibble, the step of c, and what is next.
Layout == [Preamble        |-> <<14, 1, "StartOfFrame">>, StartOfFrame |-> <<0, 1, "EtherMACDST">>,
           EtherMACDST     |-> <<44, 4, "EtherMACSRC">>,  EtherMACSRC  |-> <<44, 4, "EtherType">>,
           EtherType       |-> <<3, 1, "IPIHL">>,         IPIHL        |-> <<0, 1, "IPVersion">>,
           IPVersion       |-> <<0, 1, "IPDSCPECN">>,     IPDSCPECN    |-> <<1, 1, "IPLength">>,
           IPLength        |-> <<12, 4, "IPID">>,         IPID         |-> <<3, 1, "IPFlagsFragment">>,
           IPFlagsFragment |-> <<3, 1, "IPTTL">>,         IPTTL        |-> <<4, 4, "IPProtocol">>,
           IPProtocol      |-> <<1, 1, "IPChecksum">>,    IPChecksum   |-> <<12, 4, "IPAddrSRC">>,
           IPAddrSRC       |-> <<28, 4, "IPAddrDST">>,    IPAddrDST    |-> <<28, 4, "UDPPortSRC">>,
           UDPPortSRC      |-> <<12, 4, "UDPPortDST">>,   UDPPortDST   |-> <<12, 4, "UDPLength">>,
           UDPLength       |-> <<12, 4, "UDPChecksum">>,  UDPChecksum  |-> <<12, 4, "DNSMsg">>]

FieldOf == [EtherMACDST |-> "dstMAC", EtherMACSRC |-> "srcMAC", IPLength |-> "ipLength",
            IPTTL |-> "ipTTL", IPChecksum |-> "ipChecksum", IPAddrSRC |-> "srcIP",
            IPAddrDST |-> "dstIP", UDPPortSRC |-> "srcPort", UDPPortDST |-> "dstPort",
            UDPLength |-> "udpLength", UDPChecksum |-> "udpChecksum"]

Fixed(st, n) == CASE st = "Preamble"     -> 5
                  [] st = "StartOfFrame" -> 13
                  [] st = "EtherType"    -> IF n = 0 THEN 8 ELSE 0
                  [] st = "IPIHL"        -> 5
                  [] st = "IPVersion"    -> 4
                  [] st = "IPProtocol"   -> 1
                  [] OTHER               -> 0

E_TXD(x) == tx' = Append(tx, x)

-------------------------------------------------------------------------------

SndInit == ss = "Idle" /\ sc = 0 /\ sd \in Answers /\ tx = << >> /\ answers = 0

SndIdle == /\ ss = "Idle" /\ answers < MaxAnswers
           /\ ss' = "Read" /\ sc' = 0 /\ tx' = << >>
           /\ UNCHANGED <<sd, answers>>

SndRead == /\ ss = "Read" /\ ss' = "Preamble"
           /\ sd' \in Answers /\ answers' = answers + 1
           /\ UNCHANGED <<sc, tx>>

SndField == /\ ss \in DOMAIN Layout
            /\ E_TXD(IF ss \in DOMAIN FieldOf THEN sd[FieldOf[ss]][sc \div 4] ELSE Fixed(ss, sc))
            /\ IF sc = Layout[ss][1]
               THEN ss' = Layout[ss][3] /\ sc' = 0
               ELSE ss' = ss /\ sc' = sc + Layout[ss][2]
            /\ UNCHANGED <<sd, answers>>

\* Mutant: a short payload is not padded.
DNSMsg_NoPadding == /\ ss = "DNSMsg" /\ E_TXD(sd.dnsPkt[sc \div 4])
                    /\ IF sc >= sd.dnsPktCnt
                       THEN ss' = "FrameCheck" /\ sc' = 0
                       ELSE ss' = ss /\ sc' = sc + 4
                    /\ UNCHANGED <<sd, answers>>

DNSMsg == /\ ss = "DNSMsg" /\ E_TXD(sd.dnsPkt[sc \div 4])
          /\ IF sc >= sd.dnsPktCnt /\ sc >= 140
             THEN ss' = "FrameCheck" /\ sc' = 0
             ELSE ss' = ss /\ sc' = sc + 4
          /\ UNCHANGED <<sd, answers>>

SndFrameCheck == /\ ss = "FrameCheck" /\ E_TXD(0)
                 /\ IF sc = 28 THEN ss' = "InterframeGap" /\ sc' = 0
                               ELSE ss' = ss /\ sc' = sc + 4
                 /\ UNCHANGED <<sd, answers>>

InterframeGap == /\ ss = "InterframeGap"
                 /\ IF sc = 23 THEN ss' = "Idle" /\ sc' = 0
                               ELSE ss' = ss /\ sc' = sc + 1
                 /\ UNCHANGED <<sd, tx, answers>>

SndNext == SndIdle \/ SndRead \/ SndField \/ DNSMsg \/ SndFrameCheck \/ InterframeGap

SndSpec == SndInit /\ [][SndNext]_sndvars

-------------------------------------------------------------------------------

\* What was sent is a frame that spells the record, at least as long as Ethernet
\* wants (64 bytes with the check sequence), with the payload the record has.
AnswerSpelled ==
    ss = "InterframeGap" =>
      LET w == SubSeq(tx, 17, Len(tx) - 8)
          g == Record(w)
      IN /\ SubSeq(tx, 1, 16) = StartPattern
         /\ Complete(w) /\ Len(w) + 8 >= 128
         /\ \A x \in {"dstMAC", "srcMAC", "srcIP", "dstIP", "srcPort", "dstPort"} : g[x] = sd[x]
         /\ g.ipHeaderLength = 5 /\ g.ipLength = Shifted(sd.ipLength)
         /\ g.dnsLength = Number(sd.udpLength) - 8
         /\ g.dnsPkt = [i \in RecordNibbles |-> IF 4 * i <= sd.dnsPktCnt THEN sd.dnsPkt[i] ELSE 0]
         /\ Field(w, 49, 4) = sd.ipChecksum
===============================================================================
