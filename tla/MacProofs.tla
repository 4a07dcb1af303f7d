------------------------------- MODULE MacProofs -------------------------------
(***************************************************************************)
(* Proofs about the Ethernet sender and the receiver.  The frame sent       *)
(* spells the record it was taken from, for every record: what was sent so *)
(* far is the beginning of one frame, as long as the state and the count   *)
(* say.  A record that is announced is spelled by the wire, and a sound    *)
(* frame is announced, whatever else is on the wire: the state and the     *)
(* count say what nibble of a frame is heard next, and the record holds    *)
(* what was heard.                                                         *)
(***************************************************************************)
EXTENDS MacRcv, MacSnd, TLAPS

-------------------------------------------------------------------------------
(* The frame of a record, by position.                                        *)

\* The nibbles of payload, with the padding.
Padded(a) == IF a.dnsPktCnt >= 140 THEN (a.dnsPktCnt \div 4) + 1 ELSE 36

Wire(a, p) == IF p <= 15 THEN 5
              ELSE IF p = 16 THEN 13
              ELSE IF p <= 28 THEN a.dstMAC[p - 17]
              ELSE IF p <= 40 THEN a.srcMAC[p - 29]
              ELSE IF p = 41 THEN 8
              ELSE IF p <= 44 THEN 0
              ELSE IF p = 45 THEN 5
              ELSE IF p = 46 THEN 4
              ELSE IF p <= 48 THEN 0
              ELSE IF p <= 52 THEN a.ipLength[p - 49]
              ELSE IF p <= 60 THEN 0
              ELSE IF p <= 62 THEN a.ipTTL[p - 61]
              ELSE IF p <= 64 THEN 1
              ELSE IF p <= 68 THEN a.ipChecksum[p - 65]
              ELSE IF p <= 76 THEN a.srcIP[p - 69]
              ELSE IF p <= 84 THEN a.dstIP[p - 77]
              ELSE IF p <= 88 THEN a.srcPort[p - 85]
              ELSE IF p <= 92 THEN a.dstPort[p - 89]
              ELSE IF p <= 96 THEN a.udpLength[p - 93]
              ELSE IF p <= 100 THEN a.udpChecksum[p - 97]
              ELSE IF p <= 100 + Padded(a) THEN a.dnsPkt[p - 101]
              ELSE 0

\* The nibbles sent before a field.
Offset == [Preamble   |-> 0,  StartOfFrame |-> 15, EtherMACDST |-> 16, EtherMACSRC     |-> 28,
           EtherType  |-> 40, IPIHL        |-> 44, IPVersion   |-> 45, IPDSCPECN       |-> 46,
           IPLength   |-> 48, IPID         |-> 52, IPFlagsFragment |-> 56, IPTTL       |-> 60,
           IPProtocol |-> 62, IPChecksum   |-> 64, IPAddrSRC   |-> 68, IPAddrDST       |-> 76,
           UDPPortSRC |-> 84, UDPPortDST   |-> 88, UDPLength   |-> 92, UDPChecksum     |-> 96,
           DNSMsg     |-> 100]

Fields == DOMAIN Layout

\* The inductive invariant: which record is sent, how much of its frame, and that
\* what was sent is the beginning of that frame.
SndTypes == /\ ss \in Fields \cup {"Idle", "Read", "DNSMsg", "FrameCheck", "InterframeGap"}
            /\ sc \in Nat /\ sd \in Answers /\ tx \in Seq(Half)

Placed == /\ ss = "Read" => sc = 0 /\ tx = << >>
          /\ ss \in Fields =>
               \E k \in 0 .. sc : /\ sc = Layout[ss][2] * k /\ sc <= Layout[ss][1]
                                  /\ Len(tx) = Offset[ss] + k
          /\ ss = "DNSMsg" => \E k \in 0 .. sc : sc = 4 * k /\ k < Padded(sd) /\ Len(tx) = 100 + k
          /\ ss = "FrameCheck" =>
               \E k \in 0 .. 7 : sc = 4 * k /\ Len(tx) = 100 + Padded(sd) + k
          /\ ss = "InterframeGap" => Len(tx) = 108 + Padded(sd)

Spells == ss \notin {"Idle", "Read"} => \A p \in 1 .. Len(tx) : tx[p] = Wire(sd, p)

SndInd == SndTypes /\ Placed /\ Spells
-------------------------------------------------------------------------------
(* The table of the fields, row by row.                                       *)

\* The states of the header fields.
LEMMA FieldNames == Fields = {"Preamble", "StartOfFrame", "EtherMACDST", "EtherMACSRC", "EtherType",
                            "IPIHL", "IPVersion", "IPDSCPECN", "IPLength", "IPID",
                            "IPFlagsFragment", "IPTTL", "IPProtocol", "IPChecksum", "IPAddrSRC",
                            "IPAddrDST", "UDPPortSRC", "UDPPortDST", "UDPLength", "UDPChecksum"}
  BY DEF Fields, Layout

\* A field of m + 1 nibbles, counted in the given unit, o nibbles into the frame.
Row(st, unit, m, next, o) == /\ Layout[st][1] = unit * m /\ Layout[st][2] = unit /\ Layout[st][3] = next
                             /\ Offset[st] = o /\ Offset[next] = o + m + 1

LEMMA Rows ==
  /\ Row("Preamble", 1, 14, "StartOfFrame", 0)
  /\ Row("StartOfFrame", 1, 0, "EtherMACDST", 15)
  /\ Row("EtherMACDST", 4, 11, "EtherMACSRC", 16)
  /\ Row("EtherMACSRC", 4, 11, "EtherType", 28)
  /\ Row("EtherType", 1, 3, "IPIHL", 40)
  /\ Row("IPIHL", 1, 0, "IPVersion", 44)
  /\ Row("IPVersion", 1, 0, "IPDSCPECN", 45)
  /\ Row("IPDSCPECN", 1, 1, "IPLength", 46)
  /\ Row("IPLength", 4, 3, "IPID", 48)
  /\ Row("IPID", 1, 3, "IPFlagsFragment", 52)
  /\ Row("IPFlagsFragment", 1, 3, "IPTTL", 56)
  /\ Row("IPTTL", 4, 1, "IPProtocol", 60)
  /\ Row("IPProtocol", 1, 1, "IPChecksum", 62)
  /\ Row("IPChecksum", 4, 3, "IPAddrSRC", 64)
  /\ Row("IPAddrSRC", 4, 7, "IPAddrDST", 68)
  /\ Row("IPAddrDST", 4, 7, "UDPPortSRC", 76)
  /\ Row("UDPPortSRC", 4, 3, "UDPPortDST", 84)
  /\ Row("UDPPortDST", 4, 3, "UDPLength", 88)
  /\ Row("UDPLength", 4, 3, "UDPChecksum", 92)
  /\ Row("UDPChecksum", 4, 3, "DNSMsg", 96)
<1>1. Row("Preamble", 1, 14, "StartOfFrame", 0)
  BY DEF Row, Layout, Offset
<1>2. Row("StartOfFrame", 1, 0, "EtherMACDST", 15)
  BY DEF Row, Layout, Offset
<1>3. Row("EtherMACDST", 4, 11, "EtherMACSRC", 16)
  BY DEF Row, Layout, Offset
<1>4. Row("EtherMACSRC", 4, 11, "EtherType", 28)
  BY DEF Row, Layout, Offset
<1>5. Row("EtherType", 1, 3, "IPIHL", 40)
  BY DEF Row, Layout, Offset
<1>6. Row("IPIHL", 1, 0, "IPVersion", 44)
  BY DEF Row, Layout, Offset
<1>7. Row("IPVersion", 1, 0, "IPDSCPECN", 45)
  BY DEF Row, Layout, Offset
<1>8. Row("IPDSCPECN", 1, 1, "IPLength", 46)
  BY DEF Row, Layout, Offset
<1>9. Row("IPLength", 4, 3, "IPID", 48)
  BY DEF Row, Layout, Offset
<1>10. Row("IPID", 1, 3, "IPFlagsFragment", 52)
  BY DEF Row, Layout, Offset
<1>11. Row("IPFlagsFragment", 1, 3, "IPTTL", 56)
  BY DEF Row, Layout, Offset
<1>12. Row("IPTTL", 4, 1, "IPProtocol", 60)
  BY DEF Row, Layout, Offset
<1>13. Row("IPProtocol", 1, 1, "IPChecksum", 62)
  BY DEF Row, Layout, Offset
<1>14. Row("IPChecksum", 4, 3, "IPAddrSRC", 64)
  BY DEF Row, Layout, Offset
<1>15. Row("IPAddrSRC", 4, 7, "IPAddrDST", 68)
  BY DEF Row, Layout, Offset
<1>16. Row("IPAddrDST", 4, 7, "UDPPortSRC", 76)
  BY DEF Row, Layout, Offset
<1>17. Row("UDPPortSRC", 4, 3, "UDPPortDST", 84)
  BY DEF Row, Layout, Offset
<1>18. Row("UDPPortDST", 4, 3, "UDPLength", 88)
  BY DEF Row, Layout, Offset
<1>19. Row("UDPLength", 4, 3, "UDPChecksum", 92)
  BY DEF Row, Layout, Offset
<1>20. Row("UDPChecksum", 4, 3, "DNSMsg", 96)
  BY DEF Row, Layout, Offset
<1> QED
  BY <1>1, <1>2, <1>3, <1>4, <1>5, <1>6, <1>7, <1>8, <1>9, <1>10, <1>11, <1>12, <1>13, <1>14, <1>15, <1>16, <1>17, <1>18, <1>19, <1>20

\* Every field has a row, and is followed by a field or by the payload.
LEMMA RowOf ==
  ASSUME NEW st \in Fields
  PROVE \E unit \in {1, 4}, m \in Nat, next \in Fields \cup {"DNSMsg"}, o \in Nat :
          Row(st, unit, m, next, o)
<1>1. CASE st = "Preamble"
  BY <1>1, Rows, FieldNames
<1>2. CASE st = "StartOfFrame"
  BY <1>2, Rows, FieldNames
<1>3. CASE st = "EtherMACDST"
  BY <1>3, Rows, FieldNames
<1>4. CASE st = "EtherMACSRC"
  BY <1>4, Rows, FieldNames
<1>5. CASE st = "EtherType"
  BY <1>5, Rows, FieldNames
<1>6. CASE st = "IPIHL"
  BY <1>6, Rows, FieldNames
<1>7. CASE st = "IPVersion"
  BY <1>7, Rows, FieldNames
<1>8. CASE st = "IPDSCPECN"
  BY <1>8, Rows, FieldNames
<1>9. CASE st = "IPLength"
  BY <1>9, Rows, FieldNames
<1>10. CASE st = "IPID"
  BY <1>10, Rows, FieldNames
<1>11. CASE st = "IPFlagsFragment"
  BY <1>11, Rows, FieldNames
<1>12. CASE st = "IPTTL"
  BY <1>12, Rows, FieldNames
<1>13. CASE st = "IPProtocol"
  BY <1>13, Rows, FieldNames
<1>14. CASE st = "IPChecksum"
  BY <1>14, Rows, FieldNames
<1>15. CASE st = "IPAddrSRC"
  BY <1>15, Rows, FieldNames
<1>16. CASE st = "IPAddrDST"
  BY <1>16, Rows, FieldNames
<1>17. CASE st = "UDPPortSRC"
  BY <1>17, Rows, FieldNames
<1>18. CASE st = "UDPPortDST"
  BY <1>18, Rows, FieldNames
<1>19. CASE st = "UDPLength"
  BY <1>19, Rows, FieldNames
<1>20. CASE st = "UDPChecksum"
  BY <1>20, Rows, FieldNames
<1> QED
  BY FieldNames, <1>1, <1>2, <1>3, <1>4, <1>5, <1>6, <1>7, <1>8, <1>9, <1>10, <1>11, <1>12, <1>13, <1>14, <1>15, <1>16, <1>17, <1>18, <1>19, <1>20

\* What the sender puts on the wire in a field.
Nib(a, st, c) == IF st \in DOMAIN FieldOf THEN a[FieldOf[st]][c \div 4] ELSE Fixed(st, c)

LEMMA Quarter == \A k \in Nat : (4 * k) \div 4 = k
  OBVIOUS

\* The fields that come from the record.
LEMMA Names ==
  /\ "EtherMACDST" \in DOMAIN FieldOf /\ FieldOf["EtherMACDST"] = "dstMAC"
  /\ "EtherMACSRC" \in DOMAIN FieldOf /\ FieldOf["EtherMACSRC"] = "srcMAC"
  /\ "IPLength" \in DOMAIN FieldOf /\ FieldOf["IPLength"] = "ipLength"
  /\ "IPTTL" \in DOMAIN FieldOf /\ FieldOf["IPTTL"] = "ipTTL"
  /\ "IPChecksum" \in DOMAIN FieldOf /\ FieldOf["IPChecksum"] = "ipChecksum"
  /\ "IPAddrSRC" \in DOMAIN FieldOf /\ FieldOf["IPAddrSRC"] = "srcIP"
  /\ "IPAddrDST" \in DOMAIN FieldOf /\ FieldOf["IPAddrDST"] = "dstIP"
  /\ "UDPPortSRC" \in DOMAIN FieldOf /\ FieldOf["UDPPortSRC"] = "srcPort"
  /\ "UDPPortDST" \in DOMAIN FieldOf /\ FieldOf["UDPPortDST"] = "dstPort"
  /\ "UDPLength" \in DOMAIN FieldOf /\ FieldOf["UDPLength"] = "udpLength"
  /\ "UDPChecksum" \in DOMAIN FieldOf /\ FieldOf["UDPChecksum"] = "udpChecksum"
  /\ "Preamble" \notin DOMAIN FieldOf
  /\ "StartOfFrame" \notin DOMAIN FieldOf
  /\ "EtherType" \notin DOMAIN FieldOf
  /\ "IPIHL" \notin DOMAIN FieldOf
  /\ "IPVersion" \notin DOMAIN FieldOf
  /\ "IPDSCPECN" \notin DOMAIN FieldOf
  /\ "IPID" \notin DOMAIN FieldOf
  /\ "IPFlagsFragment" \notin DOMAIN FieldOf
  /\ "IPProtocol" \notin DOMAIN FieldOf
  BY DEF FieldOf

\* It is what the frame has at that place.
LEMMA FieldNibble ==
  ASSUME NEW a \in SndRecord, NEW st \in Fields, NEW k \in Nat, Layout[st][2] * k <= Layout[st][1]
  PROVE Nib(a, st, Layout[st][2] * k) = Wire(a, Offset[st] + k + 1) /\ Nib(a, st, Layout[st][2] * k) \in Half
<1>1. CASE st = "Preamble"
  <2>1. Layout[st][1] = 14 /\ Layout[st][2] = 1 /\ Offset[st] = 0
    BY <1>1, Rows DEF Row
  <2>2. k \in 0 .. 14
    BY <2>1
  <2>3. Nib(a, st, k) = 5
    BY <1>1, <2>2, Names DEF Nib, Fixed
  <2>4. Wire(a, Offset[st] + k + 1) = 5
    BY <2>1, <2>2 DEF Wire
  <2> QED
    BY <2>1, <2>3, <2>4 DEF Half
<1>2. CASE st = "StartOfFrame"
  <2>1. Layout[st][1] = 0 /\ Layout[st][2] = 1 /\ Offset[st] = 15
    BY <1>2, Rows DEF Row
  <2>2. k \in 0 .. 0
    BY <2>1
  <2>3. Nib(a, st, k) = 13
    BY <1>2, <2>2, Names DEF Nib, Fixed
  <2>4. Wire(a, Offset[st] + k + 1) = 13
    BY <2>1, <2>2 DEF Wire
  <2> QED
    BY <2>1, <2>3, <2>4 DEF Half
<1>3. CASE st = "EtherMACDST"
  <2>1. Layout[st][1] = 44 /\ Layout[st][2] = 4 /\ Offset[st] = 16
    BY <1>3, Rows DEF Row
  <2>2. k \in 0 .. 11
    BY <2>1
  <2>3. Nib(a, st, 4 * k) = a.dstMAC[k]
    BY <1>3, Names, Quarter DEF Nib
  <2>4. Wire(a, Offset[st] + k + 1) = a.dstMAC[k]
    BY <2>1, <2>2 DEF Wire
  <2>5. a.dstMAC[k] \in Half
    BY <2>2 DEF SndRecord
  <2> QED
    BY <2>1, <2>3, <2>4, <2>5
<1>4. CASE st = "EtherMACSRC"
  <2>1. Layout[st][1] = 44 /\ Layout[st][2] = 4 /\ Offset[st] = 28
    BY <1>4, Rows DEF Row
  <2>2. k \in 0 .. 11
    BY <2>1
  <2>3. Nib(a, st, 4 * k) = a.srcMAC[k]
    BY <1>4, Names, Quarter DEF Nib
  <2>4. Wire(a, Offset[st] + k + 1) = a.srcMAC[k]
    BY <2>1, <2>2 DEF Wire
  <2>5. a.srcMAC[k] \in Half
    BY <2>2 DEF SndRecord
  <2> QED
    BY <2>1, <2>3, <2>4, <2>5
<1>5. CASE st = "EtherType"
  <2>1. Layout[st][1] = 3 /\ Layout[st][2] = 1 /\ Offset[st] = 40
    BY <1>5, Rows DEF Row
  <2>2. k \in 0 .. 3
    BY <2>1
  <2>3. Nib(a, st, k) = (IF k = 0 THEN 8 ELSE 0)
    BY <1>5, <2>2, Names DEF Nib, Fixed
  <2>4. Wire(a, Offset[st] + k + 1) = (IF k = 0 THEN 8 ELSE 0)
    BY <2>1, <2>2 DEF Wire
  <2> QED
    BY <2>1, <2>3, <2>4 DEF Half
<1>6. CASE st = "IPIHL"
  <2>1. Layout[st][1] = 0 /\ Layout[st][2] = 1 /\ Offset[st] = 44
    BY <1>6, Rows DEF Row
  <2>2. k \in 0 .. 0
    BY <2>1
  <2>3. Nib(a, st, k) = 5
    BY <1>6, <2>2, Names DEF Nib, Fixed
  <2>4. Wire(a, Offset[st] + k + 1) = 5
    BY <2>1, <2>2 DEF Wire
  <2> QED
    BY <2>1, <2>3, <2>4 DEF Half
<1>7. CASE st = "IPVersion"
  <2>1. Layout[st][1] = 0 /\ Layout[st][2] = 1 /\ Offset[st] = 45
    BY <1>7, Rows DEF Row
  <2>2. k \in 0 .. 0
    BY <2>1
  <2>3. Nib(a, st, k) = 4
    BY <1>7, <2>2, Names DEF Nib, Fixed
  <2>4. Wire(a, Offset[st] + k + 1) = 4
    BY <2>1, <2>2 DEF Wire
  <2> QED
    BY <2>1, <2>3, <2>4 DEF Half
<1>8. CASE st = "IPDSCPECN"
  <2>1. Layout[st][1] = 1 /\ Layout[st][2] = 1 /\ Offset[st] = 46
    BY <1>8, Rows DEF Row
  <2>2. k \in 0 .. 1
    BY <2>1
  <2>3. Nib(a, st, k) = 0
    BY <1>8, <2>2, Names DEF Nib, Fixed
  <2>4. Wire(a, Offset[st] + k + 1) = 0
    BY <2>1, <2>2 DEF Wire
  <2> QED
    BY <2>1, <2>3, <2>4 DEF Half
<1>9. CASE st = "IPLength"
  <2>1. Layout[st][1] = 12 /\ Layout[st][2] = 4 /\ Offset[st] = 48
    BY <1>9, Rows DEF Row
  <2>2. k \in 0 .. 3
    BY <2>1
  <2>3. Nib(a, st, 4 * k) = a.ipLength[k]
    BY <1>9, Names, Quarter DEF Nib
  <2>4. Wire(a, Offset[st] + k + 1) = a.ipLength[k]
    BY <2>1, <2>2 DEF Wire
  <2>5. a.ipLength[k] \in Half
    BY <2>2 DEF SndRecord
  <2> QED
    BY <2>1, <2>3, <2>4, <2>5
<1>10. CASE st = "IPID"
  <2>1. Layout[st][1] = 3 /\ Layout[st][2] = 1 /\ Offset[st] = 52
    BY <1>10, Rows DEF Row
  <2>2. k \in 0 .. 3
    BY <2>1
  <2>3. Nib(a, st, k) = 0
    BY <1>10, <2>2, Names DEF Nib, Fixed
  <2>4. Wire(a, Offset[st] + k + 1) = 0
    BY <2>1, <2>2 DEF Wire
  <2> QED
    BY <2>1, <2>3, <2>4 DEF Half
<1>11. CASE st = "IPFlagsFragment"
  <2>1. Layout[st][1] = 3 /\ Layout[st][2] = 1 /\ Offset[st] = 56
    BY <1>11, Rows DEF Row
  <2>2. k \in 0 .. 3
    BY <2>1
  <2>3. Nib(a, st, k) = 0
    BY <1>11, <2>2, Names DEF Nib, Fixed
  <2>4. Wire(a, Offset[st] + k + 1) = 0
    BY <2>1, <2>2 DEF Wire
  <2> QED
    BY <2>1, <2>3, <2>4 DEF Half
<1>12. CASE st = "IPTTL"
  <2>1. Layout[st][1] = 4 /\ Layout[st][2] = 4 /\ Offset[st] = 60
    BY <1>12, Rows DEF Row
  <2>2. k \in 0 .. 1
    BY <2>1
  <2>3. Nib(a, st, 4 * k) = a.ipTTL[k]
    BY <1>12, Names, Quarter DEF Nib
  <2>4. Wire(a, Offset[st] + k + 1) = a.ipTTL[k]
    BY <2>1, <2>2 DEF Wire
  <2>5. a.ipTTL[k] \in Half
    BY <2>2 DEF SndRecord
  <2> QED
    BY <2>1, <2>3, <2>4, <2>5
<1>13. CASE st = "IPProtocol"
  <2>1. Layout[st][1] = 1 /\ Layout[st][2] = 1 /\ Offset[st] = 62
    BY <1>13, Rows DEF Row
  <2>2. k \in 0 .. 1
    BY <2>1
  <2>3. Nib(a, st, k) = 1
    BY <1>13, <2>2, Names DEF Nib, Fixed
  <2>4. Wire(a, Offset[st] + k + 1) = 1
    BY <2>1, <2>2 DEF Wire
  <2> QED
    BY <2>1, <2>3, <2>4 DEF Half
<1>14. CASE st = "IPChecksum"
  <2>1. Layout[st][1] = 12 /\ Layout[st][2] = 4 /\ Offset[st] = 64
    BY <1>14, Rows DEF Row
  <2>2. k \in 0 .. 3
    BY <2>1
  <2>3. Nib(a, st, 4 * k) = a.ipChecksum[k]
    BY <1>14, Names, Quarter DEF Nib
  <2>4. Wire(a, Offset[st] + k + 1) = a.ipChecksum[k]
    BY <2>1, <2>2 DEF Wire
  <2>5. a.ipChecksum[k] \in Half
    BY <2>2 DEF SndRecord
  <2> QED
    BY <2>1, <2>3, <2>4, <2>5
<1>15. CASE st = "IPAddrSRC"
  <2>1. Layout[st][1] = 28 /\ Layout[st][2] = 4 /\ Offset[st] = 68
    BY <1>15, Rows DEF Row
  <2>2. k \in 0 .. 7
    BY <2>1
  <2>3. Nib(a, st, 4 * k) = a.srcIP[k]
    BY <1>15, Names, Quarter DEF Nib
  <2>4. Wire(a, Offset[st] + k + 1) = a.srcIP[k]
    BY <2>1, <2>2 DEF Wire
  <2>5. a.srcIP[k] \in Half
    BY <2>2 DEF SndRecord
  <2> QED
    BY <2>1, <2>3, <2>4, <2>5
<1>16. CASE st = "IPAddrDST"
  <2>1. Layout[st][1] = 28 /\ Layout[st][2] = 4 /\ Offset[st] = 76
    BY <1>16, Rows DEF Row
  <2>2. k \in 0 .. 7
    BY <2>1
  <2>3. Nib(a, st, 4 * k) = a.dstIP[k]
    BY <1>16, Names, Quarter DEF Nib
  <2>4. Wire(a, Offset[st] + k + 1) = a.dstIP[k]
    BY <2>1, <2>2 DEF Wire
  <2>5. a.dstIP[k] \in Half
    BY <2>2 DEF SndRecord
  <2> QED
    BY <2>1, <2>3, <2>4, <2>5
<1>17. CASE st = "UDPPortSRC"
  <2>1. Layout[st][1] = 12 /\ Layout[st][2] = 4 /\ Offset[st] = 84
    BY <1>17, Rows DEF Row
  <2>2. k \in 0 .. 3
    BY <2>1
  <2>3. Nib(a, st, 4 * k) = a.srcPort[k]
    BY <1>17, Names, Quarter DEF Nib
  <2>4. Wire(a, Offset[st] + k + 1) = a.srcPort[k]
    BY <2>1, <2>2 DEF Wire
  <2>5. a.srcPort[k] \in Half
    BY <2>2 DEF SndRecord
  <2> QED
    BY <2>1, <2>3, <2>4, <2>5
<1>18. CASE st = "UDPPortDST"
  <2>1. Layout[st][1] = 12 /\ Layout[st][2] = 4 /\ Offset[st] = 88
    BY <1>18, Rows DEF Row
  <2>2. k \in 0 .. 3
    BY <2>1
  <2>3. Nib(a, st, 4 * k) = a.dstPort[k]
    BY <1>18, Names, Quarter DEF Nib
  <2>4. Wire(a, Offset[st] + k + 1) = a.dstPort[k]
    BY <2>1, <2>2 DEF Wire
  <2>5. a.dstPort[k] \in Half
    BY <2>2 DEF SndRecord
  <2> QED
    BY <2>1, <2>3, <2>4, <2>5
<1>19. CASE st = "UDPLength"
  <2>1. Layout[st][1] = 12 /\ Layout[st][2] = 4 /\ Offset[st] = 92
    BY <1>19, Rows DEF Row
  <2>2. k \in 0 .. 3
    BY <2>1
  <2>3. Nib(a, st, 4 * k) = a.udpLength[k]
    BY <1>19, Names, Quarter DEF Nib
  <2>4. Wire(a, Offset[st] + k + 1) = a.udpLength[k]
    BY <2>1, <2>2 DEF Wire
  <2>5. a.udpLength[k] \in Half
    BY <2>2 DEF SndRecord
  <2> QED
    BY <2>1, <2>3, <2>4, <2>5
<1>20. CASE st = "UDPChecksum"
  <2>1. Layout[st][1] = 12 /\ Layout[st][2] = 4 /\ Offset[st] = 96
    BY <1>20, Rows DEF Row
  <2>2. k \in 0 .. 3
    BY <2>1
  <2>3. Nib(a, st, 4 * k) = a.udpChecksum[k]
    BY <1>20, Names, Quarter DEF Nib
  <2>4. Wire(a, Offset[st] + k + 1) = a.udpChecksum[k]
    BY <2>1, <2>2 DEF Wire
  <2>5. a.udpChecksum[k] \in Half
    BY <2>2 DEF SndRecord
  <2> QED
    BY <2>1, <2>3, <2>4, <2>5
<1> QED
  BY FieldNames, <1>1, <1>2, <1>3, <1>4, <1>5, <1>6, <1>7, <1>8, <1>9, <1>10, <1>11, <1>12, <1>13, <1>14, <1>15, <1>16, <1>17, <1>18, <1>19, <1>20

-------------------------------------------------------------------------------
(* The sender stays on the frame.                                             *)

LEMMA AnswerFacts ==
  ASSUME NEW a \in Answers
  PROVE /\ a \in SndRecord
        /\ \E n \in 1 .. RecordBytes :
             /\ Number(a.udpLength) = n + 8 /\ a.dnsPktCnt = (8 * n) - 4
             /\ Padded(a) = IF n >= 18 THEN 2 * n ELSE 36
<1>1. a \in SndRecord
  BY AnswerAssumption
<1>2. PICK n \in 1 .. RecordBytes : Number(a.udpLength) = n + 8 /\ a.dnsPktCnt = (8 * n) - 4
  BY AnswerAssumption
<1>3. n \in Nat /\ n >= 1
  BY RecordAssumption
<1>4. ((8 * n) - 4) \div 4 = (2 * n) - 1
  BY <1>3
<1>5. Padded(a) = IF n >= 18 THEN 2 * n ELSE 36
  BY <1>2, <1>3, <1>4 DEF Padded
<1> QED
  BY <1>1, <1>2, <1>5

\* The payload with its padding is in the record.
LEMMA PaddedFits ==
  ASSUME NEW a \in Answers
  PROVE Padded(a) \in Nat /\ Padded(a) >= 36 /\ Padded(a) <= 2 * RecordBytes
  BY AnswerFacts, RecordAssumption

\* A nibble more on the wire.
LEMMA OneMore ==
  ASSUME tx \in Seq(Half), NEW a, \A p \in 1 .. Len(tx) : tx[p] = Wire(a, p),
         NEW x \in Half, x = Wire(a, Len(tx) + 1), tx' = Append(tx, x)
  PROVE /\ tx' \in Seq(Half) /\ Len(tx') = Len(tx) + 1
        /\ \A p \in 1 .. Len(tx') : tx'[p] = Wire(a, p)
<1>1. tx' \in Seq(Half) /\ Len(tx') = Len(tx) + 1
  OBVIOUS
<1>2. ASSUME NEW p \in 1 .. Len(tx')
      PROVE tx'[p] = Wire(a, p)
  <2>1. CASE p = Len(tx) + 1
    <3>1. tx'[p] = x
      BY <2>1
    <3> QED
      BY <2>1, <3>1
  <2>2. CASE p # Len(tx) + 1
    <3>1. p \in 1 .. Len(tx)
      BY <1>1, <2>2
    <3>2. tx'[p] = tx[p]
      BY <3>1
    <3> QED
      BY <3>1, <3>2
  <2> QED
    BY <2>1, <2>2
<1> QED
  BY <1>1, <1>2

LEMMA Apart == /\ {"Idle", "Read", "DNSMsg", "FrameCheck", "InterframeGap"} \cap Fields = {}
               /\ Offset["DNSMsg"] = 100 /\ "Preamble" \in Fields
  BY FieldNames DEF Offset

LEMMA SndInitInd == SndInit => SndInd
  BY Apart DEF SndInit, SndInd, SndTypes, Placed, Spells

LEMMA SndFieldInd == SndInd /\ SndField => SndInd'
<1> SUFFICES ASSUME SndInd, SndField
             PROVE SndInd'
  OBVIOUS
<1>1. ss \in Fields /\ sd' = sd /\ sd \in Answers /\ tx \in Seq(Half) /\ ss \notin {"Idle", "Read"}
  BY Apart DEF SndInd, SndTypes, SndField, Fields
<1>2. PICK unit \in {1, 4}, m \in Nat, next \in Fields \cup {"DNSMsg"}, o \in Nat :
        Row(ss, unit, m, next, o)
  BY <1>1, RowOf
<1>3. /\ Layout[ss][1] = unit * m /\ Layout[ss][2] = unit /\ Layout[ss][3] = next
      /\ Offset[ss] = o /\ Offset[next] = o + m + 1
  BY <1>2 DEF Row
<1>4. PICK k \in 0 .. sc : sc = unit * k /\ sc <= unit * m /\ Len(tx) = o + k
  BY <1>1, <1>3 DEF SndInd, Placed
<1>5. k \in Nat /\ k <= m /\ sc \in Nat
  BY <1>4 DEF SndInd, SndTypes
<1> DEFINE x == Nib(sd, ss, sc)
<1>6. x \in Half /\ x = Wire(sd, Len(tx) + 1)
  <2>1. sd \in SndRecord
    BY <1>1, AnswerFacts
  <2> HIDE DEF x
  <2>2. Layout[ss][2] * k = sc /\ sc <= Layout[ss][1] /\ Offset[ss] + k + 1 = Len(tx) + 1
    BY <1>3, <1>4, <1>5
  <2> QED
    BY <1>1, <1>5, <2>1, <2>2, FieldNibble DEF x
<1>7. tx' = Append(tx, x)
  BY DEF SndField, E_TXD, Nib
<1> HIDE DEF x
<1>8. \A p \in 1 .. Len(tx) : tx[p] = Wire(sd, p)
  BY <1>1 DEF SndInd, Spells
<1>9. /\ tx' \in Seq(Half) /\ Len(tx') = o + k + 1
      /\ \A p \in 1 .. Len(tx') : tx'[p] = Wire(sd, p)
  BY <1>1, <1>4, <1>5, <1>6, <1>7, <1>8, OneMore
<1>10. CASE sc = unit * m
  <2>1. k = m /\ ss' = next /\ sc' = 0
    BY <1>3, <1>4, <1>5, <1>10 DEF SndField
  <2>2. SndTypes' /\ Spells'
    BY <1>1, <1>9, <2>1 DEF SndTypes, Spells
  <2>3. Len(tx') = Offset[next]
    BY <1>3, <1>9, <2>1
  <2>4. CASE next \in Fields
    <3>1. PICK unit2 \in {1, 4}, m2 \in Nat, next2 \in Fields \cup {"DNSMsg"}, o2 \in Nat :
            Row(next, unit2, m2, next2, o2)
      BY <2>4, RowOf
    <3>2. sc' = Layout[next][2] * 0 /\ sc' <= Layout[next][1] /\ Len(tx') = Offset[next] + 0
      BY <2>1, <2>3, <3>1 DEF Row
    <3>3. 0 \in 0 .. sc'
      BY <2>1
    <3>4. Placed'
      BY <2>1, <2>4, <3>2, <3>3, Apart DEF Placed
    <3> QED
      BY <2>2, <3>4 DEF SndInd
  <2>5. CASE next = "DNSMsg"
    <3>1. sc' = 4 * 0 /\ 0 < Padded(sd') /\ Len(tx') = 100 + 0 /\ 0 \in 0 .. sc'
      BY <1>1, <2>1, <2>3, <2>5, PaddedFits, Apart
    <3>2. Placed'
      BY <2>1, <2>5, <3>1, Apart DEF Placed
    <3> QED
      BY <2>2, <3>2 DEF SndInd
  <2> QED
    BY <2>4, <2>5
<1>11. CASE sc # unit * m
  <2>1. ss' = ss /\ sc' = sc + unit
    BY <1>3, <1>11 DEF SndField
  <2>2. SndTypes' /\ Spells'
    BY <1>1, <1>5, <1>9, <2>1 DEF SndTypes, Spells
  <2>3. k + 1 <= m
    BY <1>4, <1>5, <1>11
  <2>4. sc' = unit * (k + 1) /\ sc' <= unit * m /\ Len(tx') = o + (k + 1) /\ (k + 1) \in 0 .. sc'
    BY <1>4, <1>5, <1>9, <2>1, <2>3
  <2>5. Placed'
    BY <1>1, <1>3, <2>1, <2>4, Apart, ZenonT(30) DEF Placed
  <2> QED
    BY <2>2, <2>5 DEF SndInd
<1> QED
  BY <1>10, <1>11

LEMMA DNSMsgInd == SndInd /\ DNSMsg => SndInd'
<1> SUFFICES ASSUME SndInd, DNSMsg
             PROVE SndInd'
  OBVIOUS
<1>1. /\ ss = "DNSMsg" /\ sd' = sd /\ sd \in Answers /\ tx \in Seq(Half) /\ sc \in Nat
      /\ tx' = Append(tx, sd.dnsPkt[sc \div 4])
  BY DEF SndInd, SndTypes, DNSMsg, E_TXD
<1>2. PICK k \in 0 .. sc : sc = 4 * k /\ k < Padded(sd) /\ Len(tx) = 100 + k
  BY <1>1 DEF SndInd, Placed
<1>3. PICK n \in 1 .. RecordBytes : /\ sd.dnsPktCnt = (8 * n) - 4
                                    /\ Padded(sd) = IF n >= 18 THEN 2 * n ELSE 36
  BY <1>1, AnswerFacts
<1>4. k \in Nat /\ n \in Nat /\ n >= 1 /\ sc \div 4 = k /\ Padded(sd) \in Nat
  BY <1>1, <1>2, <1>3, RecordAssumption, PaddedFits
<1> DEFINE x == sd.dnsPkt[k]
<1>5. x \in Half
  <2>1. k \in RecordNibbles
    BY <1>1, <1>2, <1>4, PaddedFits, RecordAssumption DEF RecordNibbles
  <2>2. sd.dnsPkt \in [RecordNibbles -> Half]
    BY <1>1, AnswerFacts DEF SndRecord
  <2> QED
    BY <2>1, <2>2
<1>6. x = Wire(sd, Len(tx) + 1)
  BY <1>2, <1>4 DEF Wire
<1>7. tx' = Append(tx, x)
  BY <1>1, <1>4
<1> HIDE DEF x
<1>8. \A p \in 1 .. Len(tx) : tx[p] = Wire(sd, p)
  BY <1>1 DEF SndInd, Spells
<1>9. /\ tx' \in Seq(Half) /\ Len(tx') = 101 + k
      /\ \A p \in 1 .. Len(tx') : tx'[p] = Wire(sd, p)
  BY <1>1, <1>2, <1>4, <1>5, <1>6, <1>7, <1>8, OneMore
<1>10. (sc >= sd.dnsPktCnt /\ sc >= 140) <=> k + 1 = Padded(sd)
  BY <1>2, <1>3, <1>4
<1>11. CASE k + 1 = Padded(sd)
  <2>1. ss' = "FrameCheck" /\ sc' = 0
    BY <1>10, <1>11 DEF DNSMsg
  <2>2. SndTypes' /\ Spells'
    BY <1>1, <1>9, <2>1 DEF SndTypes, Spells
  <2>3. sc' = 4 * 0 /\ Len(tx') = 100 + Padded(sd') + 0 /\ 0 \in 0 .. 7
    BY <1>1, <1>4, <1>9, <1>11, <2>1
  <2>4. Placed'
    BY <2>1, <2>3, Apart DEF Placed
  <2> QED
    BY <2>2, <2>4 DEF SndInd
<1>12. CASE k + 1 # Padded(sd)
  <2>1. ss' = "DNSMsg" /\ sc' = sc + 4
    BY <1>1, <1>10, <1>12 DEF DNSMsg
  <2>2. SndTypes' /\ Spells'
    BY <1>1, <1>9, <2>1 DEF SndTypes, Spells
  <2>3. /\ sc' = 4 * (k + 1) /\ (k + 1) < Padded(sd') /\ Len(tx') = 100 + (k + 1)
        /\ (k + 1) \in 0 .. sc'
    BY <1>1, <1>2, <1>4, <1>9, <1>12, <2>1
  <2>4. Placed'
    BY <2>1, <2>3, Apart DEF Placed
  <2> QED
    BY <2>2, <2>4 DEF SndInd
<1> QED
  BY <1>11, <1>12

LEMMA SndFrameCheckInd == SndInd /\ SndFrameCheck => SndInd'
<1> SUFFICES ASSUME SndInd, SndFrameCheck
             PROVE SndInd'
  OBVIOUS
<1>1. /\ ss = "FrameCheck" /\ sd' = sd /\ sd \in Answers /\ tx \in Seq(Half)
      /\ tx' = Append(tx, 0)
  BY DEF SndInd, SndTypes, SndFrameCheck, E_TXD
<1>2. PICK k \in 0 .. 7 : sc = 4 * k /\ Len(tx) = 100 + Padded(sd) + k
  BY <1>1 DEF SndInd, Placed
<1>3. Padded(sd) \in Nat
  BY <1>1, PaddedFits
<1>4. 0 = Wire(sd, Len(tx) + 1) /\ 0 \in Half
  <2>1. Len(tx) + 1 \in Nat /\ Len(tx) + 1 > 100 /\ Len(tx) + 1 > 100 + Padded(sd)
    BY <1>2, <1>3
  <2>2. Wire(sd, Len(tx) + 1) = 0
    BY <1>3, <2>1, SMTT(30) DEF Wire
  <2> QED
    BY <2>2 DEF Half
<1>5. \A p \in 1 .. Len(tx) : tx[p] = Wire(sd, p)
  BY <1>1 DEF SndInd, Spells
<1>6. /\ tx' \in Seq(Half) /\ Len(tx') = 101 + Padded(sd) + k
      /\ \A p \in 1 .. Len(tx') : tx'[p] = Wire(sd, p)
  BY <1>1, <1>2, <1>3, <1>4, <1>5, OneMore, SMTT(30)
<1>7. CASE k = 7
  <2>1. ss' = "InterframeGap" /\ sc' = 0
    BY <1>2, <1>7 DEF SndFrameCheck
  <2>2. SndTypes' /\ Spells'
    BY <1>1, <1>6, <2>1 DEF SndTypes, Spells
  <2>3. Len(tx') = 108 + Padded(sd')
    BY <1>1, <1>3, <1>6, <1>7
  <2>4. Placed'
    BY <2>1, <2>3, Apart DEF Placed
  <2> QED
    BY <2>2, <2>4 DEF SndInd
<1>8. CASE k # 7
  <2>1. ss' = "FrameCheck" /\ sc' = sc + 4
    BY <1>1, <1>2, <1>8 DEF SndFrameCheck
  <2>2. SndTypes' /\ Spells'
    BY <1>1, <1>2, <1>6, <2>1 DEF SndTypes, Spells
  <2>3. /\ sc' = 4 * (k + 1) /\ Len(tx') = 100 + Padded(sd') + (k + 1)
        /\ (k + 1) \in 0 .. 7
    BY <1>1, <1>2, <1>3, <1>6, <1>8, <2>1
  <2>4. Placed'
    BY <2>1, <2>3, Apart DEF Placed
  <2> QED
    BY <2>2, <2>4 DEF SndInd
<1> QED
  BY <1>7, <1>8

LEMMA SndIdleInd == SndInd /\ SndIdle => SndInd'
  BY Apart DEF SndInd, SndTypes, Placed, Spells, SndIdle

LEMMA SndReadInd == SndInd /\ SndRead => SndInd'
<1> SUFFICES ASSUME SndInd, SndRead
             PROVE SndInd'
  OBVIOUS
<1>1. ss = "Read" /\ ss' = "Preamble" /\ sc' = 0 /\ tx' = << >> /\ sd' \in Answers
  BY DEF SndInd, Placed, SndRead
<1>2. SndTypes' /\ Spells'
  BY <1>1, Apart DEF SndTypes, Spells
<1>3. sc' = Layout["Preamble"][2] * 0 /\ sc' <= Layout["Preamble"][1] /\ Len(tx') = Offset["Preamble"] + 0
  BY <1>1, Rows DEF Row
<1>4. 0 \in 0 .. sc'
  BY <1>1
<1>5. Placed'
  BY <1>1, <1>3, <1>4, Apart DEF Placed
<1> QED
  BY <1>2, <1>5 DEF SndInd

LEMMA InterframeGapInd == SndInd /\ InterframeGap => SndInd'
  BY Apart DEF SndInd, SndTypes, Placed, Spells, InterframeGap

\* The sender is always at some place of the frame of the record it took.
THEOREM SndInvariance == SndSpec => []SndInd
<1>1. SndInd /\ [SndNext]_sndvars => SndInd'
  <2> SUFFICES ASSUME SndInd, [SndNext]_sndvars
               PROVE SndInd'
    OBVIOUS
  <2>1. CASE SndIdle
    BY <2>1, SndIdleInd
  <2>2. CASE SndRead
    BY <2>2, SndReadInd
  <2>3. CASE SndField
    BY <2>3, SndFieldInd
  <2>4. CASE DNSMsg
    BY <2>4, DNSMsgInd
  <2>5. CASE SndFrameCheck
    BY <2>5, SndFrameCheckInd
  <2>6. CASE InterframeGap
    BY <2>6, InterframeGapInd
  <2>7. CASE UNCHANGED sndvars
    BY <2>7 DEF sndvars, SndInd, SndTypes, Placed, Spells
  <2> QED
    BY <2>1, <2>2, <2>3, <2>4, <2>5, <2>6, <2>7 DEF SndNext
<1> QED
  BY <1>1, SndInitInd, PTL DEF SndSpec

-------------------------------------------------------------------------------
(* What a frame that is spelled says.                                         *)

LEMMA FourIs ==
  ASSUME NEW w \in Seq(Half), NEW i \in Nat, NEW j \in Nat, i >= 1, j = i + 3, j <= Len(w)
  PROVE SubSeq(w, i, j) = <<w[i], w[i + 1], w[i + 2], w[i + 3]>>
<1> DEFINE q == SubSeq(w, i, j)
<1>1. q \in Seq(Half) /\ Len(q) = 4
  OBVIOUS
<1>2. q[1] = w[i] /\ q[2] = w[i + 1] /\ q[3] = w[i + 2] /\ q[4] = w[i + 3]
  OBVIOUS
<1> HIDE DEF q
<1>3. q = <<q[1], q[2], q[3], q[4]>>
  BY <1>1
<1> QED
  BY <1>2, <1>3 DEF q

LEMMA TwoIs ==
  ASSUME NEW w \in Seq(Half), NEW i \in Nat, NEW j \in Nat, i >= 1, j = i + 1, j <= Len(w)
  PROVE SubSeq(w, i, j) = <<w[i], w[i + 1]>>
<1> DEFINE q == SubSeq(w, i, j)
<1>1. q \in Seq(Half) /\ Len(q) = 2
  OBVIOUS
<1>2. q[1] = w[i] /\ q[2] = w[i + 1]
  OBVIOUS
<1> HIDE DEF q
<1>3. q = <<q[1], q[2]>>
  BY <1>1
<1> QED
  BY <1>2, <1>3 DEF q

LEMMA StartIs ==
  ASSUME NEW t \in Seq(Half), NEW i \in Nat, NEW j \in Nat, i >= 1, j = i + 15, j <= Len(t),
         \A n \in 0 .. 14 : t[i + n] = 5, t[j] = 13
  PROVE SubSeq(t, i, j) = StartPattern
<1> DEFINE q == SubSeq(t, i, j)
<1>1. q \in Seq(Half) /\ Len(q) = 16
  OBVIOUS
<1>2. \A n \in 1 .. 16 : q[n] = t[i + (n - 1)]
  OBVIOUS
<1> HIDE DEF q
<1>3. ASSUME NEW n \in 1 .. 16
      PROVE q[n] = IF n = 16 THEN 13 ELSE 5
  <2>1. CASE n = 16
    <3>1. 16 \in 1 .. 16 /\ i + (16 - 1) = j
      OBVIOUS
    <3>2. q[16] = t[j]
      BY <1>2, <3>1
    <3> QED
      BY <2>1, <3>2
  <2>2. CASE n # 16
    <3>1. (n - 1) \in 0 .. 14
      BY <2>2
    <3> QED
      BY <1>2, <2>2, <3>1
  <2> QED
    BY <2>1, <2>2
<1>4. q = [n \in 1 .. 16 |-> q[n]]
  BY <1>1
<1>5. q = StartPattern
  BY <1>3, <1>4 DEF StartPattern
<1> QED
  BY <1>5 DEF q

\* The frame of a record, from its start on.
LEMMA FrameIs ==
  ASSUME NEW a \in Answers, NEW w \in Seq(Half), Len(w) = 84 + Padded(a),
         \A i \in 1 .. Len(w) : w[i] = Wire(a, i + 16)
  PROVE /\ Complete(w) /\ Len(w) + 8 >= 128
        /\ Field(w, 1, 12) = a.dstMAC /\ Field(w, 13, 12) = a.srcMAC
        /\ w[29] = 5 /\ Field(w, 33, 4) = a.ipLength /\ Field(w, 49, 4) = a.ipChecksum
        /\ Field(w, 53, 8) = a.srcIP /\ Field(w, 61, 8) = a.dstIP
        /\ UDPHeader(w) = 69 /\ Field(w, 69, 4) = a.srcPort /\ Field(w, 73, 4) = a.dstPort
        /\ UDPBytes(w) = Number(a.udpLength)
        /\ PayloadFrom(w) = 85 /\ LastNibble(w) = 84 + (2 * (Number(a.udpLength) - 8))
        /\ \A i \in 0 .. (Padded(a) - 1) : w[85 + i] = a.dnsPkt[i]
<1>1. a \in SndRecord /\ Padded(a) \in Nat /\ Padded(a) >= 36
  BY AnswerFacts, PaddedFits
<1>2. PICK n \in 1 .. RecordBytes : /\ Number(a.udpLength) = n + 8
                                    /\ Padded(a) = IF n >= 18 THEN 2 * n ELSE 36
  BY AnswerFacts
<1>3. n \in Nat /\ n >= 1
  BY RecordAssumption
<1>4. Field(w, 1, 12) = a.dstMAC
  <2>1. a.dstMAC \in [0 .. 11 -> Half]
    BY <1>1 DEF SndRecord
  <2>2. ASSUME NEW i \in 0 .. 11 PROVE w[1 + i] = a.dstMAC[i]
    <3>1. (1 + i) \in 1 .. Len(w) /\ w[1 + i] = Wire(a, 17 + i)
      BY <1>1
    <3> QED
      BY <3>1 DEF Wire
  <2>3. Field(w, 1, 12) = [i \in 0 .. 11 |-> w[1 + i]]
    BY DEF Field
  <2>4. a.dstMAC = [i \in 0 .. 11 |-> a.dstMAC[i]]
    BY <2>1
  <2> QED
    BY <2>2, <2>3, <2>4
<1>5. Field(w, 13, 12) = a.srcMAC
  <2>1. a.srcMAC \in [0 .. 11 -> Half]
    BY <1>1 DEF SndRecord
  <2>2. ASSUME NEW i \in 0 .. 11 PROVE w[13 + i] = a.srcMAC[i]
    <3>1. (13 + i) \in 1 .. Len(w) /\ w[13 + i] = Wire(a, 29 + i)
      BY <1>1
    <3> QED
      BY <3>1 DEF Wire
  <2>3. Field(w, 13, 12) = [i \in 0 .. 11 |-> w[13 + i]]
    BY DEF Field
  <2>4. a.srcMAC = [i \in 0 .. 11 |-> a.srcMAC[i]]
    BY <2>1
  <2> QED
    BY <2>2, <2>3, <2>4
<1>6. Field(w, 33, 4) = a.ipLength
  <2>1. a.ipLength \in [0 .. 3 -> Half]
    BY <1>1 DEF SndRecord
  <2>2. ASSUME NEW i \in 0 .. 3 PROVE w[33 + i] = a.ipLength[i]
    <3>1. (33 + i) \in 1 .. Len(w) /\ w[33 + i] = Wire(a, 49 + i)
      BY <1>1
    <3> QED
      BY <3>1 DEF Wire
  <2>3. Field(w, 33, 4) = [i \in 0 .. 3 |-> w[33 + i]]
    BY DEF Field
  <2>4. a.ipLength = [i \in 0 .. 3 |-> a.ipLength[i]]
    BY <2>1
  <2> QED
    BY <2>2, <2>3, <2>4
<1>7. Field(w, 49, 4) = a.ipChecksum
  <2>1. a.ipChecksum \in [0 .. 3 -> Half]
    BY <1>1 DEF SndRecord
  <2>2. ASSUME NEW i \in 0 .. 3 PROVE w[49 + i] = a.ipChecksum[i]
    <3>1. (49 + i) \in 1 .. Len(w) /\ w[49 + i] = Wire(a, 65 + i)
      BY <1>1
    <3> QED
      BY <3>1 DEF Wire
  <2>3. Field(w, 49, 4) = [i \in 0 .. 3 |-> w[49 + i]]
    BY DEF Field
  <2>4. a.ipChecksum = [i \in 0 .. 3 |-> a.ipChecksum[i]]
    BY <2>1
  <2> QED
    BY <2>2, <2>3, <2>4
<1>8. Field(w, 53, 8) = a.srcIP
  <2>1. a.srcIP \in [0 .. 7 -> Half]
    BY <1>1 DEF SndRecord
  <2>2. ASSUME NEW i \in 0 .. 7 PROVE w[53 + i] = a.srcIP[i]
    <3>1. (53 + i) \in 1 .. Len(w) /\ w[53 + i] = Wire(a, 69 + i)
      BY <1>1
    <3> QED
      BY <3>1 DEF Wire
  <2>3. Field(w, 53, 8) = [i \in 0 .. 7 |-> w[53 + i]]
    BY DEF Field
  <2>4. a.srcIP = [i \in 0 .. 7 |-> a.srcIP[i]]
    BY <2>1
  <2> QED
    BY <2>2, <2>3, <2>4
<1>9. Field(w, 61, 8) = a.dstIP
  <2>1. a.dstIP \in [0 .. 7 -> Half]
    BY <1>1 DEF SndRecord
  <2>2. ASSUME NEW i \in 0 .. 7 PROVE w[61 + i] = a.dstIP[i]
    <3>1. (61 + i) \in 1 .. Len(w) /\ w[61 + i] = Wire(a, 77 + i)
      BY <1>1
    <3> QED
      BY <3>1 DEF Wire
  <2>3. Field(w, 61, 8) = [i \in 0 .. 7 |-> w[61 + i]]
    BY DEF Field
  <2>4. a.dstIP = [i \in 0 .. 7 |-> a.dstIP[i]]
    BY <2>1
  <2> QED
    BY <2>2, <2>3, <2>4
<1>10. Field(w, 69, 4) = a.srcPort
  <2>1. a.srcPort \in [0 .. 3 -> Half]
    BY <1>1 DEF SndRecord
  <2>2. ASSUME NEW i \in 0 .. 3 PROVE w[69 + i] = a.srcPort[i]
    <3>1. (69 + i) \in 1 .. Len(w) /\ w[69 + i] = Wire(a, 85 + i)
      BY <1>1
    <3> QED
      BY <3>1 DEF Wire
  <2>3. Field(w, 69, 4) = [i \in 0 .. 3 |-> w[69 + i]]
    BY DEF Field
  <2>4. a.srcPort = [i \in 0 .. 3 |-> a.srcPort[i]]
    BY <2>1
  <2> QED
    BY <2>2, <2>3, <2>4
<1>11. Field(w, 73, 4) = a.dstPort
  <2>1. a.dstPort \in [0 .. 3 -> Half]
    BY <1>1 DEF SndRecord
  <2>2. ASSUME NEW i \in 0 .. 3 PROVE w[73 + i] = a.dstPort[i]
    <3>1. (73 + i) \in 1 .. Len(w) /\ w[73 + i] = Wire(a, 89 + i)
      BY <1>1
    <3> QED
      BY <3>1 DEF Wire
  <2>3. Field(w, 73, 4) = [i \in 0 .. 3 |-> w[73 + i]]
    BY DEF Field
  <2>4. a.dstPort = [i \in 0 .. 3 |-> a.dstPort[i]]
    BY <2>1
  <2> QED
    BY <2>2, <2>3, <2>4
<1>12. Field(w, 77, 4) = a.udpLength
  <2>1. a.udpLength \in [0 .. 3 -> Half]
    BY <1>1 DEF SndRecord
  <2>2. ASSUME NEW i \in 0 .. 3 PROVE w[77 + i] = a.udpLength[i]
    <3>1. (77 + i) \in 1 .. Len(w) /\ w[77 + i] = Wire(a, 93 + i)
      BY <1>1
    <3> QED
      BY <3>1 DEF Wire
  <2>3. Field(w, 77, 4) = [i \in 0 .. 3 |-> w[77 + i]]
    BY DEF Field
  <2>4. a.udpLength = [i \in 0 .. 3 |-> a.udpLength[i]]
    BY <2>1
  <2> QED
    BY <2>2, <2>3, <2>4
<1>13. w[25] = 8 /\ w[26] = 0 /\ w[27] = 0 /\ w[28] = 0 /\ w[29] = 5 /\ w[30] = 4
  BY <1>1 DEF Wire
<1>14. w[41] = 0 /\ w[42] = 0 /\ w[43] = 0 /\ w[44] = 0 /\ w[47] = 1 /\ w[48] = 1
  BY <1>1 DEF Wire
<1>15. \A i \in 0 .. (Padded(a) - 1) : w[85 + i] = a.dnsPkt[i]
  BY <1>1 DEF Wire
<1>16. UDPHeader(w) = 69 /\ PayloadFrom(w) = 85
  BY <1>13 DEF UDPHeader, PayloadFrom
<1>17. UDPBytes(w) = n + 8
  BY <1>2, <1>12, <1>16, SMTT(30) DEF UDPBytes
<1>18. LastNibble(w) = 84 + (2 * n) /\ LastNibble(w) <= Len(w)
  BY <1>2, <1>3, <1>16, <1>17 DEF LastNibble
<1>19. IsUDP(w)
  <2>1. SubSeq(w, 25, 28) = <<w[25], w[25 + 1], w[25 + 2], w[25 + 3]>>
    BY <1>1, FourIs
  <2>2. SubSeq(w, 41, 44) = <<w[41], w[41 + 1], w[41 + 2], w[41 + 3]>>
    BY <1>1, FourIs
  <2>3. SubSeq(w, 47, 48) = <<w[47], w[47 + 1]>>
    BY <1>1, TwoIs
  <2> QED
    BY <1>13, <1>14, <2>1, <2>2, <2>3 DEF IsUDP
<1>20. Complete(w) /\ Len(w) + 8 >= 128
  BY <1>1, <1>3, <1>16, <1>17, <1>18, <1>19 DEF Complete
<1>21. LastNibble(w) = 84 + (2 * (Number(a.udpLength) - 8)) /\ UDPBytes(w) = Number(a.udpLength)
  BY <1>2, <1>3, <1>17, <1>18
<1> QED
  BY <1>4, <1>5, <1>6, <1>7, <1>8, <1>9, <1>10, <1>11, <1>13, <1>15, <1>16, <1>20, <1>21

\* Whatever record the sender takes, the frame it sends is a sound UDP packet that
\* spells this record, padded to the length Ethernet wants.
THEOREM SentIsSpelled == SndSpec => []AnswerSpelled
<1>1. SndInd => AnswerSpelled
  <2> SUFFICES ASSUME SndInd, ss = "InterframeGap"
               PROVE LET w == SubSeq(tx, 17, Len(tx) - 8)
                         g == Record(w)
                     IN /\ SubSeq(tx, 1, 16) = StartPattern
                        /\ Complete(w) /\ Len(w) + 8 >= 128
                        /\ \A x \in {"dstMAC", "srcMAC", "srcIP", "dstIP", "srcPort", "dstPort"} :
                             g[x] = sd[x]
                        /\ g.ipHeaderLength = 5 /\ g.ipLength = Shifted(sd.ipLength)
                        /\ g.dnsLength = Number(sd.udpLength) - 8
                        /\ g.dnsPkt = [i \in RecordNibbles |->
                                         IF 4 * i <= sd.dnsPktCnt THEN sd.dnsPkt[i] ELSE 0]
                        /\ Field(w, 49, 4) = sd.ipChecksum
    BY DEF AnswerSpelled
  <2> DEFINE w == SubSeq(tx, 17, Len(tx) - 8)
  <2>1. sd \in Answers /\ tx \in Seq(Half) /\ Len(tx) = 108 + Padded(sd)
    BY DEF SndInd, SndTypes, Placed
  <2>2. \A p \in 1 .. Len(tx) : tx[p] = Wire(sd, p)
    BY DEF SndInd, Spells
  <2>3. Padded(sd) \in Nat /\ Padded(sd) >= 36 /\ Padded(sd) <= 2 * RecordBytes
    BY <2>1, PaddedFits
  <2>4. SubSeq(tx, 1, 16) = StartPattern
    <3>1. ASSUME NEW n \in 0 .. 14 PROVE tx[1 + n] = 5
      <4>1. (1 + n) \in 1 .. Len(tx) /\ 1 + n <= 15
        BY <2>1, <2>3
      <4> QED
        BY <2>2, <4>1 DEF Wire
    <3>2. tx[16] = 13
      BY <2>1, <2>2, <2>3 DEF Wire
    <3>3. PICK i \in Nat, j \in Nat : i = 1 /\ j = 16
      OBVIOUS
    <3>4. i >= 1 /\ j = i + 15 /\ j <= Len(tx) /\ (\A n \in 0 .. 14 : tx[i + n] = 5) /\ tx[j] = 13
      BY <2>1, <2>3, <3>1, <3>2, <3>3
    <3>5. SubSeq(tx, i, j) = StartPattern
      BY <2>1, <3>4, StartIs
    <3> QED
      BY <3>3, <3>5
  <2>5. w \in Seq(Half) /\ Len(w) = 84 + Padded(sd)
    BY <2>1, <2>3
  <2>6. \A i \in 1 .. Len(w) : w[i] = tx[i + 16] /\ (i + 16) \in 1 .. Len(tx)
    BY <2>1, <2>3, <2>5, SMTT(30)
  <2> HIDE DEF w
  <2>7. \A i \in 1 .. Len(w) : w[i] = Wire(sd, i + 16)
    BY <2>2, <2>6
  <2>8. /\ Complete(w) /\ Len(w) + 8 >= 128
        /\ Field(w, 1, 12) = sd.dstMAC /\ Field(w, 13, 12) = sd.srcMAC
        /\ w[29] = 5 /\ Field(w, 33, 4) = sd.ipLength /\ Field(w, 49, 4) = sd.ipChecksum
        /\ Field(w, 53, 8) = sd.srcIP /\ Field(w, 61, 8) = sd.dstIP
        /\ UDPHeader(w) = 69 /\ Field(w, 69, 4) = sd.srcPort /\ Field(w, 73, 4) = sd.dstPort
        /\ UDPBytes(w) = Number(sd.udpLength)
        /\ PayloadFrom(w) = 85 /\ LastNibble(w) = 84 + (2 * (Number(sd.udpLength) - 8))
        /\ \A i \in 0 .. (Padded(sd) - 1) : w[85 + i] = sd.dnsPkt[i]
    BY <2>1, <2>5, <2>7, FrameIs, SMTT(30)
  <2> DEFINE g == Record(w)
  <2>9. \A x \in {"dstMAC", "srcMAC", "srcIP", "dstIP", "srcPort", "dstPort"} : g[x] = sd[x]
    <3>1. /\ g.dstMAC = Field(w, 1, 12) /\ g.srcMAC = Field(w, 13, 12)
          /\ g.srcIP = Field(w, 53, 8) /\ g.dstIP = Field(w, 61, 8)
          /\ g.srcPort = Field(w, UDPHeader(w), 4) /\ g.dstPort = Field(w, UDPHeader(w) + 4, 4)
      BY DEF Record
    <3> QED
      BY <2>8, <3>1
  <2>10. /\ g.ipHeaderLength = 5 /\ g.ipLength = Shifted(sd.ipLength)
         /\ g.dnsLength = Number(sd.udpLength) - 8
    BY <2>8 DEF Record
  <2>11. g.dnsPkt = [i \in RecordNibbles |-> IF 4 * i <= sd.dnsPktCnt THEN sd.dnsPkt[i] ELSE 0]
    <3>1. g.dnsPkt = [i \in RecordNibbles |->
                        IF PayloadFrom(w) + i <= LastNibble(w) THEN w[PayloadFrom(w) + i] ELSE 0]
      BY DEF Record
    <3>2. PICK n \in 1 .. RecordBytes : /\ Number(sd.udpLength) = n + 8 /\ sd.dnsPktCnt = (8 * n) - 4
                                        /\ Padded(sd) = IF n >= 18 THEN 2 * n ELSE 36
      BY <2>1, AnswerFacts
    <3>3. n \in Nat
      BY RecordAssumption
    <3>4. ASSUME NEW i \in RecordNibbles
          PROVE (IF PayloadFrom(w) + i <= LastNibble(w) THEN w[PayloadFrom(w) + i] ELSE 0)
                  = (IF 4 * i <= sd.dnsPktCnt THEN sd.dnsPkt[i] ELSE 0)
      <4>1. i \in Nat
        BY RecordAssumption DEF RecordNibbles
      <4>2. PayloadFrom(w) + i <= LastNibble(w) <=> i < 2 * n
        <5>1. PayloadFrom(w) = 85 /\ LastNibble(w) = 84 + (2 * n)
          BY <2>8, <3>2, <3>3
        <5> QED
          BY <3>3, <4>1, <5>1
      <4>3. 4 * i <= sd.dnsPktCnt <=> i < 2 * n
        BY <3>2, <3>3, <4>1
      <4>4. i < 2 * n => w[PayloadFrom(w) + i] = sd.dnsPkt[i]
        <5>1. i < 2 * n => i \in 0 .. (Padded(sd) - 1)
          BY <3>2, <3>3, <4>1
        <5> QED
          BY <2>8, <5>1, ZenonT(30)
      <4> QED
        BY <4>2, <4>3, <4>4
    <3> QED
      BY <3>1, <3>4
  <2> QED
    BY <2>4, <2>8, <2>9, <2>10, <2>11 DEF w
<1> QED
  BY <1>1, SndInvariance, PTL

-------------------------------------------------------------------------------
(* The receiver.  o is the place of the start of frame it follows, q the      *)
(* nibbles it has heard since.                                                *)

RcvRecord == [dstMAC : [0 .. 11 -> Half], srcMAC : [0 .. 11 -> Half], ipHeaderLength : Half,
              ipLength : Nat, srcIP : [0 .. 7 -> Half], dstIP : [0 .. 7 -> Half],
              srcPort : [0 .. 3 -> Half], dstPort : [0 .. 3 -> Half], dnsLength : Nat,
              dnsPkt : [RecordNibbles -> Half]]

Word16 == {n \in Nat : n < 65536}
RcvNames == {"Preamble", "StartOfFrame", "EtherMACDST", "EtherMACSRC", "EtherType", "IPIHL", "IPVersion",
             "IPDSCPECN", "IPLength", "IPID", "IPFlagsFragment", "IPTTL", "IPProtocol", "IPChecksum",
             "IPAddrSRC", "IPAddrDST", "IPOptions", "UDPPortSRC", "UDPPortDST", "UDPLength",
             "UDPChecksum", "DNSMsgRecord", "DNSMsgDiscard", "Notify"}
RcvState == [s : RcvNames, c : Nat, ipc : Word16, udpc : Word16]

RcvTypes == /\ r \in RcvState
            /\ el_data \in RcvRecord /\ el_dv \in BOOLEAN
            /\ burst \in Bursts /\ pos \in 0 .. Len(burst)

\* Before a start of frame: the fives counted were heard.
Seek == \/ /\ r.s = "Preamble" /\ r.c \in 0 .. 14 /\ r.c <= pos
           /\ \A i \in 1 .. r.c : burst[pos + 1 - i] = 5
        \/ /\ r.s = "StartOfFrame" /\ r.c = 0 /\ 15 <= pos
           /\ \A i \in 1 .. 15 : burst[pos + 1 - i] = 5

Started(o) == (\A i \in 1 .. 15 : burst[o - i] = 5) /\ burst[o] = 13

\* The nibbles before the UDP header, by the header length that was stored.
Base == 68 + (8 * (el_data.ipHeaderLength - 5))

\* The state and the count say how many nibbles were heard.
Seat(st, from, unit, n, q) == r.s = st /\ q >= from /\ q < from + n /\ r.c = unit * (q - from)

PlaceIP(q) == \/ Seat("EtherMACDST", 0, 4, 12, q) \/ Seat("EtherMACSRC", 12, 4, 12, q)
              \/ Seat("EtherType", 24, 1, 4, q) \/ Seat("IPIHL", 28, 1, 1, q) \/ Seat("IPVersion", 29, 1, 1, q)
              \/ Seat("IPDSCPECN", 30, 1, 2, q) \/ Seat("IPLength", 32, 1, 4, q) \/ Seat("IPID", 36, 1, 4, q)
              \/ Seat("IPFlagsFragment", 40, 1, 4, q) \/ Seat("IPTTL", 44, 1, 2, q)
              \/ Seat("IPProtocol", 46, 1, 2, q) \/ Seat("IPChecksum", 48, 1, 4, q)
              \/ Seat("IPAddrSRC", 52, 4, 8, q) \/ Seat("IPAddrDST", 60, 4, 8, q)

PlaceUDP(q) ==
  /\ q >= 68
  /\ \/ Seat("IPOptions", 68, 1, Base - 68, q)
     \/ Seat("UDPPortSRC", Base, 4, 4, q) \/ Seat("UDPPortDST", Base + 4, 4, 4, q)
     \/ Seat("UDPLength", Base + 8, 1, 4, q) \/ Seat("UDPChecksum", Base + 12, 1, 4, q)
     \/ Seat("DNSMsgRecord", Base + 16, 4, 2 * RecordBytes, q)
     \/ /\ r.s = "DNSMsgDiscard" /\ q >= Base + 16 + (2 * RecordBytes)
        /\ r.c = 4 * (q - (Base + 16))
     \/ r.s = "Notify" /\ q > Base + 16

\* What was heard of the headers.
HeardMAC(o, q) == /\ \A i \in 0 .. 11 : q >= 1 + i => el_data.dstMAC[i] = burst[o + 1 + i]
                  /\ \A i \in 0 .. 11 : q >= 13 + i => el_data.srcMAC[i] = burst[o + 13 + i]
                  /\ \A i \in 25 .. 28 : q >= i => burst[o + i] = IF i = 25 THEN 8 ELSE 0

HeardFlags(o, q) == /\ \A i \in 41 .. 44 : q >= i => burst[o + i] = 0
                    /\ \A i \in 47 .. 48 : q >= i => burst[o + i] = 1

HeardLength(o, q) == /\ q = 32 => r.ipc = 0
                     /\ q = 33 => r.ipc = burst[o + 33]
                     /\ q = 34 => r.ipc = (burst[o + 33] * 16) + burst[o + 34]
                     /\ q = 35 => r.ipc = (((burst[o + 33] * 16) + burst[o + 34]) * 16) + burst[o + 35]
                     /\ q \in 36 .. 39 =>
                          r.ipc = (burst[o + 33] * 4096) + (burst[o + 34] * 256)
                                    + (burst[o + 35] * 16) + burst[o + 36]
                     /\ q >= 40 =>
                          el_data.ipLength = (burst[o + 33] * 4096) + (burst[o + 34] * 256)
                                               + (burst[o + 35] * 16) + burst[o + 36]

HeardIP(o, q) == /\ q >= 29 => burst[o + 29] >= 5 /\ el_data.ipHeaderLength = burst[o + 29]
                 /\ q >= 30 => burst[o + 30] = 4
                 /\ \A i \in 0 .. 7 : q >= 53 + i => el_data.srcIP[i] = burst[o + 53 + i]
                 /\ \A i \in 0 .. 7 : q >= 61 + i => el_data.dstIP[i] = burst[o + 61 + i]

HeardPorts(o, q) ==
    q >= 68 => /\ \A i \in 0 .. 3 : q >= Base + 1 + i => el_data.srcPort[i] = burst[o + Base + 1 + i]
               /\ \A i \in 0 .. 3 : q >= Base + 5 + i => el_data.dstPort[i] = burst[o + Base + 5 + i]

\* The UDP length, as it is put together, and the bit the payload ends at.
LengthAt(p) == ((burst[p] + (16 * burst[p + 1])) * 256) + burst[p + 2] + (16 * burst[p + 3])

HeardUDP(o, q) ==
    q >= 68 => LET p == o + Base + 9
               IN /\ q = Base + 8 => r.udpc = 0
                  /\ q = Base + 9 => r.udpc = burst[p]
                  /\ q = Base + 10 => r.udpc = (burst[p] + (16 * burst[p + 1])) * 256
                  /\ q = Base + 11 => r.udpc = ((burst[p] + (16 * burst[p + 1])) * 256) + burst[p + 2]
                  /\ q >= Base + 12 /\ q < Base + 16 => r.udpc = Wrap(LengthAt(p) + 65528)
                  /\ q >= Base + 16 =>
                       /\ el_data.dnsLength = Wrap(LengthAt(p) + 65528)
                       /\ r.udpc = Wrap((8 * el_data.dnsLength) + 65532)

HeardPayload(o, q) ==
    q >= 68 /\ q >= Base + 16 =>
      /\ \A i \in RecordNibbles :
           el_data.dnsPkt[i] = IF i < q - (Base + 16) THEN burst[o + Base + 17 + i] ELSE 0
      /\ r.s # "Notify" /\ el_data.dnsLength >= 1 /\ el_data.dnsLength < 8192 =>
           q < Base + 16 + (2 * el_data.dnsLength)
      /\ r.s = "Notify" =>
           /\ el_data.dnsLength # 0
           /\ el_data.dnsLength < 8192 => q = Base + 16 + (2 * el_data.dnsLength)

Place(q) == PlaceIP(q) \/ PlaceUDP(q)

Heard(o, q) == /\ HeardMAC(o, q) /\ HeardIP(o, q) /\ HeardLength(o, q) /\ HeardFlags(o, q)
               /\ HeardPorts(o, q) /\ HeardUDP(o, q) /\ HeardPayload(o, q)

Track(o) == o \in 16 .. pos /\ Started(o) /\ Place(pos - o) /\ Heard(o, pos - o)

\* A frame that is sound, and fills the burst from its start.
Body == SubSeq(burst, 17, Len(burst))
Good == SubSeq(burst, 1, 16) = StartPattern /\ Complete(Body) /\ LastNibble(Body) < Len(Body)

\* It is followed from its first nibble.
Followed == /\ pos < 15 => r.s = "Preamble" /\ r.c = pos
            /\ pos = 15 => r.s = "StartOfFrame"
            /\ pos >= 16 /\ pos <= 16 + LastNibble(Body) => Track(16)
            /\ pos > 16 + LastNibble(Body) => Record(Body) \in announced

RcvInd == /\ RcvTypes /\ RecordSpelled
          /\ Seek \/ (\E o \in 16 .. pos : Track(o))
          /\ Good => Followed

-------------------------------------------------------------------------------
(* What a step does to the counters and to the record.                        *)

LEMMA GoFacts ==
  ASSUME r \in RcvState, NEW st \in RcvNames, NEW n \in Nat, Go(st, n)
  PROVE r' \in RcvState /\ r'.s = st /\ r'.c = n /\ r'.ipc = r.ipc /\ r'.udpc = r.udpc
  BY DEF Go, RcvState

LEMMA WrapFacts ==
  ASSUME NEW n \in Nat
  PROVE Wrap(n) \in Word16 /\ (n < 65536 => Wrap(n) = n)
  BY DEF Wrap, Word16

\* A step that sets one of the lengths as well.
LEMMA SetIpc ==
  ASSUME r \in RcvState, NEW st \in RcvNames, NEW n \in Nat, NEW v \in Word16,
         \/ r' = [r EXCEPT !.s = st, !.c = n, !.ipc = v]
         \/ r' = [r EXCEPT !.ipc = v, !.s = st, !.c = n]
  PROVE r' \in RcvState /\ r'.s = st /\ r'.c = n /\ r'.ipc = v
  BY DEF RcvState

LEMMA SetUdpc ==
  ASSUME r \in RcvState, NEW st \in RcvNames, NEW n \in Nat, NEW v \in Word16,
         \/ r' = [r EXCEPT !.s = st, !.c = n, !.udpc = v]
         \/ r' = [r EXCEPT !.udpc = v, !.s = st, !.c = n]
  PROVE r' \in RcvState /\ r'.s = st /\ r'.c = n /\ r'.udpc = v
  BY DEF RcvState

LEMMA CountFacts ==
  ASSUME r \in RcvState, NEW last, NEW step \in Nat, NEW next \in RcvNames, Count(last, step, next)
  PROVE /\ r' \in RcvState /\ r'.ipc = r.ipc /\ r'.udpc = r.udpc
        /\ r.c = last => r'.s = next /\ r'.c = 0
        /\ r.c # last => r'.s = r.s /\ r'.c = r.c + step
<1>1. CASE r.c = last
  <2>1. Go(next, 0)
    BY <1>1 DEF Count
  <2> QED
    BY <1>1, <2>1, GoFacts
<1>2. CASE r.c # last
  <2>1. Go(r.s, r.c + step)
    BY <1>2 DEF Count
  <2>2. r.s \in RcvNames /\ r.c + step \in Nat
    BY DEF RcvState
  <2> QED
    BY <1>2, <2>1, <2>2, GoFacts
<1> QED
  BY <1>1, <1>2

LEMMA Store_dstMAC ==
  ASSUME el_data \in RcvRecord, NEW k \in 0 .. 11, NEW x \in Half, r.c = 4 * k, Store("dstMAC", x)
  PROVE /\ el_data' \in RcvRecord /\ el_data'.dstMAC = [el_data.dstMAC EXCEPT ![k] = x]
        /\ el_data'.srcMAC = el_data.srcMAC /\ el_data'.ipHeaderLength = el_data.ipHeaderLength /\ el_data'.ipLength = el_data.ipLength
        /\ el_data'.srcIP = el_data.srcIP /\ el_data'.dstIP = el_data.dstIP /\ el_data'.srcPort = el_data.srcPort
        /\ el_data'.dstPort = el_data.dstPort /\ el_data'.dnsLength = el_data.dnsLength /\ el_data'.dnsPkt = el_data.dnsPkt
<1> DEFINE v == [el_data.dstMAC EXCEPT ![k] = x]
<1>1. k \in Nat
  BY RecordAssumption DEF RecordNibbles
<1>2. el_data' = [el_data EXCEPT !.dstMAC = v]
  BY <1>1, Quarter DEF Store
<1>3. v \in [0 .. 11 -> Half]
  BY DEF RcvRecord
<1> HIDE DEF v
<1>4. el_data' \in RcvRecord
  BY <1>2, <1>3 DEF RcvRecord
<1>5. el_data'.dstMAC = v
  BY <1>2 DEF RcvRecord
<1> QED
  BY <1>2, <1>4, <1>5 DEF RcvRecord, v

LEMMA Store_srcMAC ==
  ASSUME el_data \in RcvRecord, NEW k \in 0 .. 11, NEW x \in Half, r.c = 4 * k, Store("srcMAC", x)
  PROVE /\ el_data' \in RcvRecord /\ el_data'.srcMAC = [el_data.srcMAC EXCEPT ![k] = x]
        /\ el_data'.dstMAC = el_data.dstMAC /\ el_data'.ipHeaderLength = el_data.ipHeaderLength /\ el_data'.ipLength = el_data.ipLength
        /\ el_data'.srcIP = el_data.srcIP /\ el_data'.dstIP = el_data.dstIP /\ el_data'.srcPort = el_data.srcPort
        /\ el_data'.dstPort = el_data.dstPort /\ el_data'.dnsLength = el_data.dnsLength /\ el_data'.dnsPkt = el_data.dnsPkt
<1> DEFINE v == [el_data.srcMAC EXCEPT ![k] = x]
<1>1. k \in Nat
  BY RecordAssumption DEF RecordNibbles
<1>2. el_data' = [el_data EXCEPT !.srcMAC = v]
  BY <1>1, Quarter DEF Store
<1>3. v \in [0 .. 11 -> Half]
  BY DEF RcvRecord
<1> HIDE DEF v
<1>4. el_data' \in RcvRecord
  BY <1>2, <1>3 DEF RcvRecord
<1>5. el_data'.srcMAC = v
  BY <1>2 DEF RcvRecord
<1> QED
  BY <1>2, <1>4, <1>5 DEF RcvRecord, v

LEMMA Store_srcIP ==
  ASSUME el_data \in RcvRecord, NEW k \in 0 .. 7, NEW x \in Half, r.c = 4 * k, Store("srcIP", x)
  PROVE /\ el_data' \in RcvRecord /\ el_data'.srcIP = [el_data.srcIP EXCEPT ![k] = x]
        /\ el_data'.dstMAC = el_data.dstMAC /\ el_data'.srcMAC = el_data.srcMAC /\ el_data'.ipHeaderLength = el_data.ipHeaderLength
        /\ el_data'.ipLength = el_data.ipLength /\ el_data'.dstIP = el_data.dstIP /\ el_data'.srcPort = el_data.srcPort
        /\ el_data'.dstPort = el_data.dstPort /\ el_data'.dnsLength = el_data.dnsLength /\ el_data'.dnsPkt = el_data.dnsPkt
<1> DEFINE v == [el_data.srcIP EXCEPT ![k] = x]
<1>1. k \in Nat
  BY RecordAssumption DEF RecordNibbles
<1>2. el_data' = [el_data EXCEPT !.srcIP = v]
  BY <1>1, Quarter DEF Store
<1>3. v \in [0 .. 7 -> Half]
  BY DEF RcvRecord
<1> HIDE DEF v
<1>4. el_data' \in RcvRecord
  BY <1>2, <1>3 DEF RcvRecord
<1>5. el_data'.srcIP = v
  BY <1>2 DEF RcvRecord
<1> QED
  BY <1>2, <1>4, <1>5 DEF RcvRecord, v

LEMMA Store_dstIP ==
  ASSUME el_data \in RcvRecord, NEW k \in 0 .. 7, NEW x \in Half, r.c = 4 * k, Store("dstIP", x)
  PROVE /\ el_data' \in RcvRecord /\ el_data'.dstIP = [el_data.dstIP EXCEPT ![k] = x]
        /\ el_data'.dstMAC = el_data.dstMAC /\ el_data'.srcMAC = el_data.srcMAC /\ el_data'.ipHeaderLength = el_data.ipHeaderLength
        /\ el_data'.ipLength = el_data.ipLength /\ el_data'.srcIP = el_data.srcIP /\ el_data'.srcPort = el_data.srcPort
        /\ el_data'.dstPort = el_data.dstPort /\ el_data'.dnsLength = el_data.dnsLength /\ el_data'.dnsPkt = el_data.dnsPkt
<1> DEFINE v == [el_data.dstIP EXCEPT ![k] = x]
<1>1. k \in Nat
  BY RecordAssumption DEF RecordNibbles
<1>2. el_data' = [el_data EXCEPT !.dstIP = v]
  BY <1>1, Quarter DEF Store
<1>3. v \in [0 .. 7 -> Half]
  BY DEF RcvRecord
<1> HIDE DEF v
<1>4. el_data' \in RcvRecord
  BY <1>2, <1>3 DEF RcvRecord
<1>5. el_data'.dstIP = v
  BY <1>2 DEF RcvRecord
<1> QED
  BY <1>2, <1>4, <1>5 DEF RcvRecord, v

LEMMA Store_srcPort ==
  ASSUME el_data \in RcvRecord, NEW k \in 0 .. 3, NEW x \in Half, r.c = 4 * k, Store("srcPort", x)
  PROVE /\ el_data' \in RcvRecord /\ el_data'.srcPort = [el_data.srcPort EXCEPT ![k] = x]
        /\ el_data'.dstMAC = el_data.dstMAC /\ el_data'.srcMAC = el_data.srcMAC /\ el_data'.ipHeaderLength = el_data.ipHeaderLength
        /\ el_data'.ipLength = el_data.ipLength /\ el_data'.srcIP = el_data.srcIP /\ el_data'.dstIP = el_data.dstIP
        /\ el_data'.dstPort = el_data.dstPort /\ el_data'.dnsLength = el_data.dnsLength /\ el_data'.dnsPkt = el_data.dnsPkt
<1> DEFINE v == [el_data.srcPort EXCEPT ![k] = x]
<1>1. k \in Nat
  BY RecordAssumption DEF RecordNibbles
<1>2. el_data' = [el_data EXCEPT !.srcPort = v]
  BY <1>1, Quarter DEF Store
<1>3. v \in [0 .. 3 -> Half]
  BY DEF RcvRecord
<1> HIDE DEF v
<1>4. el_data' \in RcvRecord
  BY <1>2, <1>3 DEF RcvRecord
<1>5. el_data'.srcPort = v
  BY <1>2 DEF RcvRecord
<1> QED
  BY <1>2, <1>4, <1>5 DEF RcvRecord, v

LEMMA Store_dstPort ==
  ASSUME el_data \in RcvRecord, NEW k \in 0 .. 3, NEW x \in Half, r.c = 4 * k, Store("dstPort", x)
  PROVE /\ el_data' \in RcvRecord /\ el_data'.dstPort = [el_data.dstPort EXCEPT ![k] = x]
        /\ el_data'.dstMAC = el_data.dstMAC /\ el_data'.srcMAC = el_data.srcMAC /\ el_data'.ipHeaderLength = el_data.ipHeaderLength
        /\ el_data'.ipLength = el_data.ipLength /\ el_data'.srcIP = el_data.srcIP /\ el_data'.dstIP = el_data.dstIP
        /\ el_data'.srcPort = el_data.srcPort /\ el_data'.dnsLength = el_data.dnsLength /\ el_data'.dnsPkt = el_data.dnsPkt
<1> DEFINE v == [el_data.dstPort EXCEPT ![k] = x]
<1>1. k \in Nat
  BY RecordAssumption DEF RecordNibbles
<1>2. el_data' = [el_data EXCEPT !.dstPort = v]
  BY <1>1, Quarter DEF Store
<1>3. v \in [0 .. 3 -> Half]
  BY DEF RcvRecord
<1> HIDE DEF v
<1>4. el_data' \in RcvRecord
  BY <1>2, <1>3 DEF RcvRecord
<1>5. el_data'.dstPort = v
  BY <1>2 DEF RcvRecord
<1> QED
  BY <1>2, <1>4, <1>5 DEF RcvRecord, v

LEMMA Store_dnsPkt ==
  ASSUME el_data \in RcvRecord, NEW k \in RecordNibbles, NEW x \in Half, r.c = 4 * k, Store("dnsPkt", x)
  PROVE /\ el_data' \in RcvRecord /\ el_data'.dnsPkt = [el_data.dnsPkt EXCEPT ![k] = x]
        /\ el_data'.dstMAC = el_data.dstMAC /\ el_data'.srcMAC = el_data.srcMAC /\ el_data'.ipHeaderLength = el_data.ipHeaderLength
        /\ el_data'.ipLength = el_data.ipLength /\ el_data'.srcIP = el_data.srcIP /\ el_data'.dstIP = el_data.dstIP
        /\ el_data'.srcPort = el_data.srcPort /\ el_data'.dstPort = el_data.dstPort /\ el_data'.dnsLength = el_data.dnsLength
<1> DEFINE v == [el_data.dnsPkt EXCEPT ![k] = x]
<1>1. k \in Nat
  BY RecordAssumption DEF RecordNibbles
<1>2. el_data' = [el_data EXCEPT !.dnsPkt = v]
  BY <1>1, Quarter DEF Store
<1>3. v \in [RecordNibbles -> Half]
  BY DEF RcvRecord
<1> HIDE DEF v
<1>4. el_data' \in RcvRecord
  BY <1>2, <1>3 DEF RcvRecord
<1>5. el_data'.dnsPkt = v
  BY <1>2 DEF RcvRecord
<1> QED
  BY <1>2, <1>4, <1>5 DEF RcvRecord, v

-------------------------------------------------------------------------------
(* What was heard stays true while nothing of it is being heard.              *)

LEMMA KeepMAC ==
  ASSUME NEW o \in Nat, NEW q \in Nat, HeardMAC(o, q), burst' = burst, q >= 28,
         el_data'.dstMAC = el_data.dstMAC, el_data'.srcMAC = el_data.srcMAC
  PROVE HeardMAC(o, q + 1)'
  BY DEF HeardMAC

LEMMA KeepFlags ==
  ASSUME NEW o \in Nat, NEW q \in Nat, HeardFlags(o, q), burst' = burst,
         q \notin 40 .. 43, q \notin 46 .. 47
  PROVE HeardFlags(o, q + 1)'
  BY DEF HeardFlags

LEMMA KeepLength ==
  ASSUME NEW o \in Nat, NEW q \in Nat, HeardLength(o, q), burst' = burst,
         q < 31 \/ (q >= 40 /\ el_data'.ipLength = el_data.ipLength)
  PROVE HeardLength(o, q + 1)'
  BY DEF HeardLength

LEMMA KeepIP ==
  ASSUME NEW o \in Nat, NEW q \in Nat, HeardIP(o, q), burst' = burst,
         q < 28 \/ q \in 30 .. 51 \/ q >= 68,
         q >= 28 => el_data'.ipHeaderLength = el_data.ipHeaderLength,
         el_data'.srcIP = el_data.srcIP, el_data'.dstIP = el_data.dstIP
  PROVE HeardIP(o, q + 1)'
<1>1. CASE q < 28
  BY <1>1 DEF HeardIP
<1>2. CASE q \in 30 .. 51
  BY <1>2 DEF HeardIP
<1>3. CASE q >= 68
  BY <1>3 DEF HeardIP
<1> QED
  BY <1>1, <1>2, <1>3

\* The UDP header begins after twenty bytes of IP header.
LEMMA BaseIs ==
  ASSUME el_data \in RcvRecord, NEW o \in Nat, NEW q \in Nat, HeardIP(o, q), q >= 29
  PROVE Base \in Nat /\ Base >= 68
  BY DEF Base, RcvRecord, Half, HeardIP

LEMMA BaseSame ==
  ASSUME el_data'.ipHeaderLength = el_data.ipHeaderLength
  PROVE Base' = Base
  BY DEF Base

LEMMA KeepPorts ==
  ASSUME NEW o \in Nat, NEW q \in Nat, HeardPorts(o, q), burst' = burst,
         q >= 67 => /\ Base \in Nat /\ Base >= 68 /\ Base' = Base
                    /\ q < Base \/ (/\ q >= Base + 8 /\ el_data'.srcPort = el_data.srcPort
                                    /\ el_data'.dstPort = el_data.dstPort)
  PROVE HeardPorts(o, q + 1)'
<1>1. CASE q < 67
  BY <1>1 DEF HeardPorts
<1>2. CASE q >= 67 /\ q < Base
  BY <1>2 DEF HeardPorts
<1>3. CASE q >= 67 /\ q >= Base + 8
  BY <1>3 DEF HeardPorts
<1> QED
  BY <1>1, <1>2, <1>3

LEMMA KeepUDP ==
  ASSUME NEW o \in Nat, NEW q \in Nat, HeardUDP(o, q), burst' = burst,
         q >= 67 => /\ Base \in Nat /\ Base >= 68 /\ Base' = Base
                    /\ \/ q < Base + 7
                       \/ q >= Base + 12 /\ q < Base + 15 /\ r'.udpc = r.udpc
                       \/ q >= Base + 16 /\ r'.udpc = r.udpc /\ el_data'.dnsLength = el_data.dnsLength
  PROVE HeardUDP(o, q + 1)'
<1>1. CASE q < 67
  BY <1>1 DEF HeardUDP
<1>2. CASE q >= 67 /\ q < Base + 7
  BY <1>2 DEF HeardUDP
<1>3. CASE q >= 67 /\ q >= Base + 12 /\ q < Base + 15
  BY <1>3 DEF HeardUDP, LengthAt, Wrap
<1>4. CASE q >= 67 /\ q >= Base + 16
  BY <1>4 DEF HeardUDP, LengthAt, Wrap
<1> QED
  BY <1>1, <1>2, <1>3, <1>4

LEMMA KeepPayload ==
  ASSUME NEW o \in Nat, NEW q \in Nat,
         q >= 67 => Base \in Nat /\ Base >= 68 /\ Base' = Base /\ q < Base + 15
  PROVE HeardPayload(o, q + 1)'
  BY DEF HeardPayload

-------------------------------------------------------------------------------
(* A step within a frame: the next nibble is heard, or it is wrong there and  *)
(* the receiver gives the frame up.                                           *)

Numeric(o, q) == \A i \in Nat : i >= 1 /\ i <= q + 1 => burst[o + i] \in Nat /\ burst[o + i] <= 15

Hears(o, q, x) == /\ r \in RcvState /\ el_data \in RcvRecord /\ o \in Nat /\ q \in Nat
                  /\ o >= 16 /\ o + q < 16384 /\ Place(q) /\ Heard(o, q)
                  /\ burst' = burst /\ x = burst[o + q + 1] /\ x \in Half
                  /\ Numeric(o, q)

Wrong(n, x) == \/ n = 25 /\ x # 8
               \/ n \in 26 .. 28 /\ x # 0
               \/ n = 29 /\ x < 5
               \/ n = 30 /\ x # 4
               \/ n \in 41 .. 44 /\ x # 0
               \/ n \in 47 .. 48 /\ x # 1

GivesUp == r'.s = "Preamble" /\ r'.c = 0

Step(o, q, x) == /\ r' \in RcvState /\ el_data' \in RcvRecord
                 /\ \/ GivesUp /\ Wrong(q + 1, x)
                    \/ Place(q + 1)' /\ Heard(o, q + 1)'

\* Before the UDP header nothing of it was heard.
LEMMA NoUDP ==
  ASSUME NEW o, NEW q, NEW x, Hears(o, q, x), q < 67
  PROVE HeardPorts(o, q + 1)' /\ HeardUDP(o, q + 1)' /\ HeardPayload(o, q + 1)'
  BY KeepPorts, KeepUDP, KeepPayload DEF Hears, Heard

LEMMA EtherMACDSTStep ==
  ASSUME NEW o, NEW q, NEW x, Hears(o, q, x), StoreField(x), r.s = "EtherMACDST"
  PROVE Step(o, q, x)
<1>a. /\ r \in RcvState /\ el_data \in RcvRecord /\ o \in Nat /\ q \in Nat
      /\ burst' = burst /\ x = burst[o + q + 1] /\ x \in Half
  BY DEF Hears
<1>b. /\ HeardMAC(o, q) /\ HeardIP(o, q) /\ HeardLength(o, q) /\ HeardFlags(o, q)
  BY DEF Hears, Heard
<1>1. q >= 0 /\ q < 12 /\ r.c = 4 * q
  BY <1>a DEF Hears, Place, PlaceIP, PlaceUDP, Seat
<1>2. Store("dstMAC", x) /\ Count(44, 4, "EtherMACSRC")
  BY <1>a DEF StoreField, Stored
<1>3. q \in 0 .. 11
  BY <1>a, <1>1
<1>4. /\ el_data' \in RcvRecord /\ el_data'.dstMAC = [el_data.dstMAC EXCEPT ![q] = x]
      /\ el_data'.srcMAC = el_data.srcMAC /\ el_data'.srcIP = el_data.srcIP /\ el_data'.dstIP = el_data.dstIP
  BY <1>a, <1>1, <1>2, <1>3, Store_dstMAC
<1>5. /\ r' \in RcvState
      /\ q = 11 => r'.s = "EtherMACSRC" /\ r'.c = 0
      /\ q # 11 => r'.s = "EtherMACDST" /\ r'.c = 4 * q + 4
  BY <1>a, <1>1, <1>2, CountFacts DEF RcvNames
<1>6. Place(q + 1)'
  BY <1>a, <1>3, <1>5 DEF Place, PlaceIP, Seat
<1>7. HeardMAC(o, q + 1)'
  <2>1. ASSUME NEW i \in 0 .. 11, q + 1 >= 1 + i
        PROVE el_data'.dstMAC[i] = burst[o + 1 + i]
    <3>1. CASE i = q
      BY <1>a, <1>3, <1>4, <3>1 DEF RcvRecord
    <3>2. CASE i # q
      BY <1>a, <1>b, <1>3, <1>4, <2>1, <3>2 DEF RcvRecord, HeardMAC
    <3> QED
      BY <3>1, <3>2
  <2> QED
    BY <1>a, <1>b, <1>3, <1>4, <2>1 DEF HeardMAC
<1>8. HeardIP(o, q + 1)' /\ HeardLength(o, q + 1)' /\ HeardFlags(o, q + 1)'
  <2>1. HeardIP(o, q + 1)'
    BY <1>a, <1>b, <1>3, <1>4, KeepIP
  <2>2. HeardLength(o, q + 1)'
    BY <1>a, <1>b, <1>3, <1>4, KeepLength
  <2>3. HeardFlags(o, q + 1)'
    BY <1>a, <1>b, <1>3, <1>4, KeepFlags
  <2> QED
    BY <2>1, <2>2, <2>3
<1> QED
  BY <1>a, <1>3, <1>4, <1>5, <1>6, <1>7, <1>8, NoUDP DEF Step, Heard

LEMMA EtherMACSRCStep ==
  ASSUME NEW o, NEW q, NEW x, Hears(o, q, x), StoreField(x), r.s = "EtherMACSRC"
  PROVE Step(o, q, x)
<1>a. /\ r \in RcvState /\ el_data \in RcvRecord /\ o \in Nat /\ q \in Nat
      /\ burst' = burst /\ x = burst[o + q + 1] /\ x \in Half
  BY DEF Hears
<1>b. /\ HeardMAC(o, q) /\ HeardIP(o, q) /\ HeardLength(o, q) /\ HeardFlags(o, q)
  BY DEF Hears, Heard
<1>1. q >= 12 /\ q < 24 /\ r.c = 4 * (q - 12)
  BY <1>a DEF Hears, Place, PlaceIP, PlaceUDP, Seat
<1>2. Store("srcMAC", x) /\ Count(44, 4, "EtherType")
  BY <1>a DEF StoreField, Stored
<1>3. (q - 12) \in 0 .. 11
  BY <1>a, <1>1
<1>4. /\ el_data' \in RcvRecord /\ el_data'.srcMAC = [el_data.srcMAC EXCEPT ![q - 12] = x]
      /\ el_data'.dstMAC = el_data.dstMAC /\ el_data'.srcIP = el_data.srcIP /\ el_data'.dstIP = el_data.dstIP
  BY <1>a, <1>1, <1>2, <1>3, Store_srcMAC
<1>5. /\ r' \in RcvState
      /\ q = 23 => r'.s = "EtherType" /\ r'.c = 0
      /\ q # 23 => r'.s = "EtherMACSRC" /\ r'.c = 4 * (q - 12) + 4
  BY <1>a, <1>1, <1>2, CountFacts DEF RcvNames
<1>6. Place(q + 1)'
  BY <1>a, <1>1, <1>5 DEF Place, PlaceIP, Seat
<1>7. HeardMAC(o, q + 1)'
  <2>1. ASSUME NEW i \in 0 .. 11, q + 1 >= 13 + i
        PROVE el_data'.srcMAC[i] = burst[o + 13 + i]
    <3>1. CASE i = q - 12
      BY <1>a, <1>3, <1>4, <3>1 DEF RcvRecord
    <3>2. CASE i # q - 12
      BY <1>a, <1>b, <1>1, <1>3, <1>4, <2>1, <3>2 DEF RcvRecord, HeardMAC
    <3> QED
      BY <3>1, <3>2
  <2>2. \A i \in 0 .. 11 : el_data'.dstMAC[i] = burst[o + 1 + i]
    BY <1>a, <1>b, <1>1, <1>4 DEF HeardMAC
  <2> QED
    BY <1>a, <1>b, <1>1, <1>4, <2>1, <2>2 DEF HeardMAC
<1>8. HeardIP(o, q + 1)' /\ HeardLength(o, q + 1)' /\ HeardFlags(o, q + 1)'
  <2>1. HeardIP(o, q + 1)'
    BY <1>a, <1>b, <1>1, <1>4, KeepIP
  <2>2. HeardLength(o, q + 1)'
    BY <1>a, <1>b, <1>1, <1>4, KeepLength
  <2>3. HeardFlags(o, q + 1)'
    BY <1>a, <1>b, <1>1, <1>4, KeepFlags
  <2> QED
    BY <2>1, <2>2, <2>3
<1> QED
  BY <1>a, <1>1, <1>4, <1>5, <1>6, <1>7, <1>8, NoUDP DEF Step, Heard

LEMMA EtherTypeStep ==
  ASSUME NEW o, NEW q, NEW x, Hears(o, q, x), EtherType(x)
  PROVE Step(o, q, x)
<1>a. /\ r \in RcvState /\ el_data \in RcvRecord /\ o \in Nat /\ q \in Nat
      /\ burst' = burst /\ x = burst[o + q + 1] /\ x \in Half
  BY DEF Hears
<1>b. /\ HeardMAC(o, q) /\ HeardIP(o, q) /\ HeardLength(o, q) /\ HeardFlags(o, q)
  BY DEF Hears, Heard
<1>1. q >= 24 /\ q < 28 /\ r.c = q - 24 /\ r.s = "EtherType"
  BY <1>a DEF Hears, Place, PlaceIP, PlaceUDP, Seat, EtherType
<1>2. /\ el_data' \in RcvRecord /\ el_data'.srcMAC = el_data.srcMAC /\ el_data'.dstMAC = el_data.dstMAC
      /\ el_data'.srcIP = el_data.srcIP /\ el_data'.dstIP = el_data.dstIP
  BY <1>a DEF EtherType, RcvRecord, Half
<1>3. CASE x # (IF r.c = 0 THEN 8 ELSE 0)
  <2>1. r' \in RcvState /\ GivesUp
    BY <1>a, <1>3, GoFacts DEF EtherType, Reject, GivesUp, RcvNames
  <2>2. Wrong(q + 1, x)
    BY <1>a, <1>1, <1>3 DEF Wrong
  <2> QED
    BY <1>a, <1>2, <2>1, <2>2 DEF Step
<1>4. CASE x = (IF r.c = 0 THEN 8 ELSE 0)
  <2>1. Count(3, 1, "IPIHL")
    BY <1>a, <1>4 DEF EtherType
  <2>2. /\ r' \in RcvState
        /\ q = 27 => r'.s = "IPIHL" /\ r'.c = 0
        /\ q # 27 => r'.s = "EtherType" /\ r'.c = q - 23
    BY <1>a, <1>1, <2>1, CountFacts DEF RcvNames
  <2>3. Place(q + 1)'
    BY <1>a, <1>1, <2>2 DEF Place, PlaceIP, Seat
  <2>4. HeardMAC(o, q + 1)'
    <3>1. /\ \A i \in 0 .. 11 : el_data'.dstMAC[i] = burst[o + 1 + i]
          /\ \A i \in 0 .. 11 : el_data'.srcMAC[i] = burst[o + 13 + i]
      BY <1>a, <1>b, <1>1, <1>2 DEF HeardMAC
    <3>2. ASSUME NEW i \in 25 .. 28, q + 1 >= i
          PROVE burst[o + i] = IF i = 25 THEN 8 ELSE 0
      <4>1. CASE i = q + 1
        <5>1. burst[o + i] = x
          BY <1>a, <4>1
        <5> QED
          BY <1>a, <1>1, <1>4, <4>1, <5>1
      <4>2. CASE i # q + 1
        BY <1>a, <1>b, <3>2, <4>2 DEF HeardMAC
      <4> QED
        BY <4>1, <4>2
    <3> QED
      BY <1>a, <3>1, <3>2 DEF HeardMAC
  <2>5. HeardIP(o, q + 1)' /\ HeardLength(o, q + 1)' /\ HeardFlags(o, q + 1)'
    <3>1. HeardIP(o, q + 1)'
      BY <1>a, <1>b, <1>1, <1>2, KeepIP
    <3>2. HeardLength(o, q + 1)'
      BY <1>a, <1>b, <1>1, <1>2, KeepLength
    <3>3. HeardFlags(o, q + 1)'
      BY <1>a, <1>b, <1>1, <1>2, KeepFlags
    <3> QED
      BY <3>1, <3>2, <3>3
  <2> QED
    BY <1>a, <1>1, <1>2, <2>2, <2>3, <2>4, <2>5, NoUDP DEF Step, Heard
<1> QED
  BY <1>3, <1>4

LEMMA IPIHLStep ==
  ASSUME NEW o, NEW q, NEW x, Hears(o, q, x), IPIHL(x)
  PROVE Step(o, q, x)
<1>a. /\ r \in RcvState /\ el_data \in RcvRecord /\ o \in Nat /\ q \in Nat
      /\ burst' = burst /\ x = burst[o + q + 1] /\ x \in Half
  BY DEF Hears
<1>b. /\ HeardMAC(o, q) /\ HeardIP(o, q) /\ HeardLength(o, q) /\ HeardFlags(o, q)
  BY DEF Hears, Heard
<1>1. q = 28 /\ r.s = "IPIHL"
  BY <1>a, SMTT(30) DEF Hears, Place, PlaceIP, PlaceUDP, Seat, IPIHL
<1>2. /\ el_data' \in RcvRecord /\ el_data'.srcMAC = el_data.srcMAC /\ el_data'.dstMAC = el_data.dstMAC
      /\ x >= 5 => el_data'.ipHeaderLength = x
  BY <1>a DEF IPIHL, RcvRecord, Half
<1>3. CASE ~(x >= 5)
  <2>1. r' \in RcvState /\ GivesUp
    BY <1>a, <1>3, GoFacts DEF IPIHL, Reject, GivesUp, RcvNames
  <2>2. Wrong(q + 1, x)
    BY <1>a, <1>1, <1>3 DEF Wrong, Half
  <2> QED
    BY <1>a, <1>2, <2>1, <2>2 DEF Step
<1>4. CASE x >= 5
  <2>1. r' \in RcvState /\ r'.s = "IPVersion" /\ r'.c = 0
    BY <1>a, <1>4, GoFacts DEF IPIHL, RcvNames
  <2>2. Place(q + 1)'
    BY <1>a, <1>1, <2>1 DEF Place, PlaceIP, Seat
  <2>3. HeardIP(o, q + 1)'
    BY <1>a, <1>b, <1>1, <1>2, <1>4 DEF HeardIP
  <2>4. HeardMAC(o, q + 1)' /\ HeardLength(o, q + 1)' /\ HeardFlags(o, q + 1)'
    <3>1. HeardMAC(o, q + 1)'
      BY <1>a, <1>b, <1>1, <1>2, KeepMAC
    <3>2. HeardLength(o, q + 1)'
      BY <1>a, <1>b, <1>1, <1>2, KeepLength
    <3>3. HeardFlags(o, q + 1)'
      BY <1>a, <1>b, <1>1, <1>2, KeepFlags
    <3> QED
      BY <3>1, <3>2, <3>3
  <2> QED
    BY <1>a, <1>1, <1>2, <2>1, <2>2, <2>3, <2>4, NoUDP DEF Step, Heard
<1> QED
  BY <1>3, <1>4

LEMMA IPVersionStep ==
  ASSUME NEW o, NEW q, NEW x, Hears(o, q, x), IPVersion(x)
  PROVE Step(o, q, x)
<1>a. /\ r \in RcvState /\ el_data \in RcvRecord /\ o \in Nat /\ q \in Nat
      /\ burst' = burst /\ x = burst[o + q + 1] /\ x \in Half
  BY DEF Hears
<1>b. /\ HeardMAC(o, q) /\ HeardIP(o, q) /\ HeardLength(o, q) /\ HeardFlags(o, q)
  BY DEF Hears, Heard
<1>1. q = 29 /\ r.s = "IPVersion" /\ el_data' = el_data
  BY <1>a DEF Hears, Place, PlaceIP, PlaceUDP, Seat, IPVersion
<1>2. CASE x # 4
  <2>1. r' \in RcvState /\ GivesUp
    BY <1>a, <1>2, GoFacts DEF IPVersion, Reject, GivesUp, RcvNames
  <2>2. Wrong(q + 1, x)
    BY <1>a, <1>1, <1>2 DEF Wrong
  <2> QED
    BY <1>a, <1>1, <2>1, <2>2 DEF Step
<1>3. CASE x = 4
  <2>1. r' \in RcvState /\ r'.s = "IPDSCPECN" /\ r'.c = 0
    BY <1>a, <1>3, GoFacts DEF IPVersion, RcvNames
  <2>2. Place(q + 1)'
    BY <1>a, <1>1, <2>1 DEF Place, PlaceIP, Seat
  <2>3. HeardIP(o, q + 1)'
    BY <1>a, <1>b, <1>1, <1>3 DEF HeardIP
  <2>4. HeardMAC(o, q + 1)' /\ HeardLength(o, q + 1)' /\ HeardFlags(o, q + 1)'
    <3>1. HeardMAC(o, q + 1)'
      BY <1>a, <1>b, <1>1, KeepMAC
    <3>2. HeardLength(o, q + 1)'
      BY <1>a, <1>b, <1>1, KeepLength
    <3>3. HeardFlags(o, q + 1)'
      BY <1>a, <1>b, <1>1, KeepFlags
    <3> QED
      BY <3>1, <3>2, <3>3
  <2> QED
    BY <1>a, <1>1, <2>1, <2>2, <2>3, <2>4, NoUDP DEF Step, Heard
<1> QED
  BY <1>2, <1>3

LEMMA IPDSCPECNStep ==
  ASSUME NEW o, NEW q, NEW x, Hears(o, q, x), IPDSCPECN(x)
  PROVE Step(o, q, x)
<1>a. /\ r \in RcvState /\ el_data \in RcvRecord /\ o \in Nat /\ q \in Nat
      /\ burst' = burst /\ x = burst[o + q + 1] /\ x \in Half
  BY DEF Hears
<1>b. /\ HeardMAC(o, q) /\ HeardIP(o, q) /\ HeardLength(o, q) /\ HeardFlags(o, q)
  BY DEF Hears, Heard
<1>1. q >= 30 /\ q < 32 /\ r.c = q - 30 /\ r.s = "IPDSCPECN" /\ el_data' = el_data
  BY <1>a DEF Hears, Place, PlaceIP, PlaceUDP, Seat, IPDSCPECN
<1>2. CASE q = 31
  <2>1. r' = [r EXCEPT !.s = "IPLength", !.c = 0, !.ipc = 0]
    BY <1>a, <1>1, <1>2 DEF IPDSCPECN
  <2>2. r' \in RcvState /\ r'.s = "IPLength" /\ r'.c = 0 /\ r'.ipc = 0
    <3>1. "IPLength" \in RcvNames /\ 0 \in Word16
      BY <1>a DEF RcvNames, Word16
    <3> QED
      BY <1>a, <2>1, <3>1, SetIpc
  <2>3. Place(q + 1)'
    BY <1>a, <1>2, <2>2 DEF Place, PlaceIP, Seat
  <2>4. HeardLength(o, q + 1)'
    BY <1>a, <1>b, <1>2, <2>2 DEF HeardLength
  <2>5. HeardMAC(o, q + 1)' /\ HeardIP(o, q + 1)' /\ HeardFlags(o, q + 1)'
    <3>1. HeardMAC(o, q + 1)'
      BY <1>a, <1>b, <1>1, <1>2, KeepMAC
    <3>2. HeardIP(o, q + 1)'
      BY <1>a, <1>b, <1>1, <1>2, KeepIP
    <3>3. HeardFlags(o, q + 1)'
      BY <1>a, <1>b, <1>1, <1>2, KeepFlags
    <3> QED
      BY <3>1, <3>2, <3>3
  <2> QED
    BY <1>a, <1>1, <1>2, <2>2, <2>3, <2>4, <2>5, NoUDP DEF Step, Heard
<1>3. CASE q = 30
  <2>1. r' = [r EXCEPT !.c = @ + 1]
    BY <1>a, <1>1, <1>3 DEF IPDSCPECN
  <2>2. r' \in RcvState /\ r'.s = "IPDSCPECN" /\ r'.c = 1
    BY <1>a, <1>1, <1>3, <2>1 DEF RcvState
  <2>3. Place(q + 1)'
    BY <1>a, <1>3, <2>2 DEF Place, PlaceIP, Seat
  <2>4. HeardMAC(o, q + 1)' /\ HeardIP(o, q + 1)' /\ HeardFlags(o, q + 1)' /\ HeardLength(o, q + 1)'
    <3>1. HeardMAC(o, q + 1)'
      BY <1>a, <1>b, <1>1, <1>3, KeepMAC
    <3>2. HeardIP(o, q + 1)'
      BY <1>a, <1>b, <1>1, <1>3, KeepIP
    <3>3. HeardFlags(o, q + 1)'
      BY <1>a, <1>b, <1>1, <1>3, KeepFlags
    <3>4. HeardLength(o, q + 1)'
      BY <1>a, <1>b, <1>1, <1>3, KeepLength
    <3> QED
      BY <3>1, <3>2, <3>3, <3>4
  <2> QED
    BY <1>a, <1>1, <1>3, <2>2, <2>3, <2>4, NoUDP DEF Step, Heard
<1> QED
  BY <1>a, <1>1, <1>2, <1>3

LEMMA HeardNibble ==
  ASSUME NEW o, NEW q, NEW x, Hears(o, q, x), NEW i \in Nat, i >= 1, i <= q + 1
  PROVE burst[o + i] \in Nat /\ burst[o + i] <= 15
  BY DEF Hears, Numeric

LEMMA HeardNow ==
  ASSUME NEW o, NEW q, NEW x, Hears(o, q, x)
  PROVE x \in Nat /\ x <= 15
<1>1. q + 1 \in Nat /\ q + 1 >= 1 /\ o + (q + 1) = o + q + 1 /\ x = burst[o + q + 1]
  BY DEF Hears
<1>2. burst[o + (q + 1)] \in Nat /\ burst[o + (q + 1)] <= 15
  BY <1>1, HeardNibble
<1> QED
  BY <1>1, <1>2

LEMMA FourNibbles ==
  ASSUME NEW a \in Nat, NEW b \in Nat, NEW c \in Nat, NEW d \in Nat,
         a <= 15, b <= 15, c <= 15, d <= 15
  PROVE /\ (((((a * 16) + b) * 16) + c) * 16) + d = (a * 4096) + (b * 256) + (c * 16) + d
        /\ (a * 4096) + (b * 256) + (c * 16) + d \in Nat
        /\ (a * 4096) + (b * 256) + (c * 16) + d < 65536
  OBVIOUS

LEMMA Numbers ==
  ASSUME r \in RcvState
  PROVE r.ipc \in Nat /\ r.ipc < 65536 /\ r.udpc \in Nat /\ r.udpc < 65536 /\ r.c \in Nat
  BY DEF RcvState, Word16

LEMMA IPLengthStep ==
  ASSUME NEW o, NEW q, NEW x, Hears(o, q, x), IPLength(x)
  PROVE Step(o, q, x)
<1>a. /\ r \in RcvState /\ el_data \in RcvRecord /\ o \in Nat /\ q \in Nat
      /\ burst' = burst /\ x = burst[o + q + 1] /\ x \in Half
  BY DEF Hears
<1>b. /\ HeardMAC(o, q) /\ HeardIP(o, q) /\ HeardLength(o, q) /\ HeardFlags(o, q)
  BY DEF Hears, Heard
<1>1. q >= 32 /\ q < 36 /\ r.c = q - 32 /\ r.s = "IPLength" /\ el_data' = el_data
  BY <1>a DEF Hears, Place, PlaceIP, PlaceUDP, Seat, IPLength
<1> DEFINE v == Wrap((r.ipc * 16) + x)
           st == IF r.c = 3 THEN "IPID" ELSE r.s
           n == IF r.c = 3 THEN 0 ELSE r.c + 1
<1>2. r' = [r EXCEPT !.ipc = v, !.s = st, !.c = n]
  BY DEF IPLength
<1>3. r.ipc \in Nat /\ x \in Nat /\ x <= 15
  BY <1>a, Numbers, HeardNow
<1>4. /\ r' \in RcvState /\ r'.ipc = v
      /\ q = 35 => r'.s = "IPID" /\ r'.c = 0
      /\ q # 35 => r'.s = "IPLength" /\ r'.c = q - 31
  <2>1. v \in Word16
    <3>1. (r.ipc * 16) + x \in Nat
      BY <1>3
    <3> QED
      BY <3>1, WrapFacts
  <2>2. st \in RcvNames
    BY <1>1 DEF RcvNames
  <2>3. n \in Nat
    BY <1>a, <1>1
  <2>4. (q = 35 => st = "IPID" /\ n = 0) /\ (q # 35 => st = "IPLength" /\ n = q - 31)
    BY <1>a, <1>1
  <2> HIDE DEF v, st, n
  <2>5. r' \in RcvState /\ r'.s = st /\ r'.c = n /\ r'.ipc = v
    BY <1>a, <1>2, <2>1, <2>2, <2>3, SetIpc
  <2> QED
    BY <2>4, <2>5
<1> HIDE DEF v, st, n
<1>5. Place(q + 1)'
  BY <1>a, <1>1, <1>4 DEF Place, PlaceIP, Seat
<1>6. HeardLength(o, q + 1)'
  <2>1. CASE q = 32
    <3>1. r.ipc = 0
      BY <1>b, <2>1 DEF HeardLength
    <3>2. x = burst[o + 33]
      BY <1>a, <2>1
    <3>4. /\ (r.ipc * 16) + x \in Nat /\ (r.ipc * 16) + x < 65536
          /\ (r.ipc * 16) + x = x
      BY <1>3, <3>1
    <3>5. v = x
      BY <3>4, WrapFacts DEF v
    <3> QED
      BY <1>a, <1>4, <2>1, <3>2, <3>5 DEF HeardLength
  <2>2. CASE q = 33
    <3>1. r.ipc = burst[o + 33]
      BY <1>b, <2>2 DEF HeardLength
    <3>2. x = burst[o + 34]
      BY <1>a, <2>2
    <3>3. burst[o + 33] \in Nat /\ burst[o + 33] <= 15
      BY <2>2, HeardNibble
    <3>4. /\ (r.ipc * 16) + x \in Nat /\ (r.ipc * 16) + x < 65536
          /\ (r.ipc * 16) + x = (burst[o + 33] * 16) + x
      BY <1>3, <3>1, <3>3
    <3>5. v = (burst[o + 33] * 16) + x
      BY <3>4, WrapFacts DEF v
    <3> QED
      BY <1>a, <1>4, <2>2, <3>2, <3>5 DEF HeardLength
  <2>3. CASE q = 34
    <3>1. r.ipc = (burst[o + 33] * 16) + burst[o + 34]
      BY <1>b, <2>3 DEF HeardLength
    <3>2. x = burst[o + 35]
      BY <1>a, <2>3
    <3>3. burst[o + 33] \in Nat /\ burst[o + 33] <= 15 /\ burst[o + 34] \in Nat /\ burst[o + 34] <= 15
      BY <2>3, HeardNibble
    <3>4. /\ (r.ipc * 16) + x \in Nat /\ (r.ipc * 16) + x < 65536
          /\ (r.ipc * 16) + x = (((burst[o + 33] * 16) + burst[o + 34]) * 16) + x
      BY <1>3, <3>1, <3>3
    <3>5. v = (((burst[o + 33] * 16) + burst[o + 34]) * 16) + x
      BY <3>4, WrapFacts DEF v
    <3> QED
      BY <1>a, <1>4, <2>3, <3>2, <3>5 DEF HeardLength
  <2>4. CASE q = 35
    <3>1. r.ipc = (((burst[o + 33] * 16) + burst[o + 34]) * 16) + burst[o + 35]
      BY <1>b, <2>4 DEF HeardLength
    <3>2. x = burst[o + 36]
      BY <1>a, <2>4
    <3>3. burst[o + 33] \in Nat /\ burst[o + 33] <= 15 /\ burst[o + 34] \in Nat /\ burst[o + 34] <= 15 /\ burst[o + 35] \in Nat /\ burst[o + 35] <= 15
      BY <2>4, HeardNibble
    <3>4. /\ (r.ipc * 16) + x \in Nat /\ (r.ipc * 16) + x < 65536
          /\ (r.ipc * 16) + x = (burst[o + 33] * 4096) + (burst[o + 34] * 256) + (burst[o + 35] * 16) + x
      <4> DEFINE a == burst[o + 33]
                 b == burst[o + 34]
                 c == burst[o + 35]
      <4>1. a \in Nat /\ a <= 15 /\ b \in Nat /\ b <= 15 /\ c \in Nat /\ c <= 15
        BY <3>3
      <4>2. r.ipc = (((a * 16) + b) * 16) + c
        BY <3>1
      <4> HIDE DEF a, b, c
      <4>3. (r.ipc * 16) + x = (((((a * 16) + b) * 16) + c) * 16) + x
        BY <4>2
      <4>4. /\ (r.ipc * 16) + x \in Nat /\ (r.ipc * 16) + x < 65536
            /\ (r.ipc * 16) + x = (a * 4096) + (b * 256) + (c * 16) + x
        BY <1>3, <4>1, <4>3, FourNibbles
      <4> QED
        BY <4>4 DEF a, b, c
    <3>5. v = (burst[o + 33] * 4096) + (burst[o + 34] * 256) + (burst[o + 35] * 16) + x
      BY <3>4, WrapFacts DEF v
    <3> QED
      BY <1>a, <1>4, <2>4, <3>2, <3>5 DEF HeardLength
  <2> QED
    BY <1>a, <1>1, <2>1, <2>2, <2>3, <2>4
<1>7. HeardMAC(o, q + 1)' /\ HeardIP(o, q + 1)' /\ HeardFlags(o, q + 1)'
  <2>1. HeardMAC(o, q + 1)'
    BY <1>a, <1>b, <1>1, KeepMAC
  <2>2. HeardIP(o, q + 1)'
    BY <1>a, <1>b, <1>1, KeepIP
  <2>3. HeardFlags(o, q + 1)'
    BY <1>a, <1>b, <1>1, KeepFlags
  <2> QED
    BY <2>1, <2>2, <2>3
<1> QED
  BY <1>a, <1>1, <1>4, <1>5, <1>6, <1>7, NoUDP DEF Step, Heard

LEMMA IPIDStep ==
  ASSUME NEW o, NEW q, NEW x, Hears(o, q, x), IPID(x)
  PROVE Step(o, q, x)
<1>a. /\ r \in RcvState /\ el_data \in RcvRecord /\ o \in Nat /\ q \in Nat
      /\ burst' = burst /\ x = burst[o + q + 1] /\ x \in Half
  BY DEF Hears
<1>b. /\ HeardMAC(o, q) /\ HeardIP(o, q) /\ HeardLength(o, q) /\ HeardFlags(o, q)
  BY DEF Hears, Heard
<1>1. q >= 36 /\ q < 40 /\ r.c = q - 36 /\ r.s = "IPID" /\ Count(3, 1, "IPFlagsFragment")
  BY <1>a DEF Hears, Place, PlaceIP, PlaceUDP, Seat, IPID
<1>2. /\ r' \in RcvState /\ r'.ipc = r.ipc
      /\ q = 39 => r'.s = "IPFlagsFragment" /\ r'.c = 0
      /\ q # 39 => r'.s = "IPID" /\ r'.c = q - 35
  BY <1>a, <1>1, CountFacts DEF RcvNames
<1>3. /\ el_data' \in RcvRecord /\ el_data'.srcMAC = el_data.srcMAC /\ el_data'.dstMAC = el_data.dstMAC
      /\ el_data'.srcIP = el_data.srcIP /\ el_data'.dstIP = el_data.dstIP
      /\ el_data'.ipHeaderLength = el_data.ipHeaderLength
      /\ q = 39 => el_data'.ipLength = r.ipc
  <2>1. r.ipc \in Nat
    BY <1>a, Numbers
  <2>2. CASE q = 39
    <3>1. el_data' = [el_data EXCEPT !.ipLength = r.ipc]
      BY <1>a, <1>1, <2>2 DEF IPID
    <3> QED
      BY <1>a, <2>1, <3>1 DEF RcvRecord
  <2>3. CASE q # 39
    <3>1. el_data' = el_data
      BY <1>a, <1>1, <2>3 DEF IPID
    <3> QED
      BY <1>a, <2>3, <3>1
  <2> QED
    BY <2>2, <2>3
<1>4. Place(q + 1)'
  BY <1>a, <1>1, <1>2 DEF Place, PlaceIP, Seat
<1>5. HeardLength(o, q + 1)'
  <2>1. CASE q = 39
    BY <1>a, <1>b, <1>3, <2>1 DEF HeardLength
  <2>2. CASE q # 39
    BY <1>a, <1>b, <1>1, <1>2, <2>2 DEF HeardLength
  <2> QED
    BY <2>1, <2>2
<1>6. HeardMAC(o, q + 1)' /\ HeardIP(o, q + 1)' /\ HeardFlags(o, q + 1)'
  <2>1. HeardMAC(o, q + 1)'
    BY <1>a, <1>b, <1>1, <1>3, KeepMAC
  <2>2. HeardIP(o, q + 1)'
    BY <1>a, <1>b, <1>1, <1>3, KeepIP
  <2>3. HeardFlags(o, q + 1)'
    BY <1>a, <1>b, <1>1, <1>3, KeepFlags
  <2> QED
    BY <2>1, <2>2, <2>3
<1> QED
  BY <1>a, <1>1, <1>2, <1>3, <1>4, <1>5, <1>6, NoUDP DEF Step, Heard

LEMMA IPFlagsFragmentStep ==
  ASSUME NEW o, NEW q, NEW x, Hears(o, q, x), IPFlagsFragment(x)
  PROVE Step(o, q, x)
<1>a. /\ r \in RcvState /\ el_data \in RcvRecord /\ o \in Nat /\ q \in Nat
      /\ burst' = burst /\ x = burst[o + q + 1] /\ x \in Half
  BY DEF Hears
<1>b. /\ HeardMAC(o, q) /\ HeardIP(o, q) /\ HeardLength(o, q) /\ HeardFlags(o, q)
  BY DEF Hears, Heard
<1>1. q >= 40 /\ q < 44 /\ r.c = q - 40 /\ r.s = "IPFlagsFragment" /\ el_data' = el_data
  BY <1>a DEF Hears, Place, PlaceIP, PlaceUDP, Seat, IPFlagsFragment
<1>2. CASE x # 0
  <2>1. r' \in RcvState /\ GivesUp
    BY <1>a, <1>2, GoFacts DEF IPFlagsFragment, Reject, GivesUp, RcvNames
  <2>2. Wrong(q + 1, x)
    BY <1>a, <1>1, <1>2 DEF Wrong
  <2> QED
    BY <1>a, <1>1, <2>1, <2>2 DEF Step
<1>3. CASE x = 0
  <2>1. Count(3, 1, "IPTTL")
    BY <1>3 DEF IPFlagsFragment
  <2>2. /\ r' \in RcvState
        /\ q = 43 => r'.s = "IPTTL" /\ r'.c = 0
        /\ q # 43 => r'.s = "IPFlagsFragment" /\ r'.c = q - 39
    BY <1>a, <1>1, <2>1, CountFacts DEF RcvNames
  <2>3. Place(q + 1)'
    BY <1>a, <1>1, <2>2 DEF Place, PlaceIP, Seat
  <2>4. HeardFlags(o, q + 1)'
    <3>1. ASSUME NEW i \in 41 .. 44, q + 1 >= i
          PROVE burst[o + i] = 0
      <4>1. CASE i = q + 1
        <5>1. burst[o + i] = x
          BY <1>a, <4>1
        <5> QED
          BY <1>3, <5>1
      <4>2. CASE i # q + 1
        BY <1>a, <1>b, <3>1, <4>2 DEF HeardFlags
      <4> QED
        BY <4>1, <4>2
    <3> QED
      BY <1>a, <1>1, <3>1 DEF HeardFlags
  <2>5. HeardMAC(o, q + 1)' /\ HeardIP(o, q + 1)' /\ HeardLength(o, q + 1)'
    <3>0. q >= 28
      BY <1>a, <1>1
    <3>1. HeardMAC(o, q + 1)'
      BY <1>a, <1>b, <1>1, <3>0, KeepMAC
    <3>2. HeardIP(o, q + 1)'
      BY <1>a, <1>b, <1>1, KeepIP
    <3>3. HeardLength(o, q + 1)'
      BY <1>a, <1>b, <1>1, KeepLength
    <3> QED
      BY <3>1, <3>2, <3>3
  <2> QED
    BY <1>a, <1>1, <2>2, <2>3, <2>4, <2>5, NoUDP DEF Step, Heard
<1> QED
  BY <1>2, <1>3

LEMMA IPTTLStep ==
  ASSUME NEW o, NEW q, NEW x, Hears(o, q, x), PassOver(x), r.s = "IPTTL"
  PROVE Step(o, q, x)
<1>a. /\ r \in RcvState /\ el_data \in RcvRecord /\ o \in Nat /\ q \in Nat
      /\ burst' = burst /\ x = burst[o + q + 1] /\ x \in Half
  BY DEF Hears
<1>b. /\ HeardMAC(o, q) /\ HeardIP(o, q) /\ HeardLength(o, q) /\ HeardFlags(o, q)
  BY DEF Hears, Heard
<1>1. q >= 44 /\ q < 46 /\ r.c = q - 44
  BY <1>a DEF Hears, Place, PlaceIP, PlaceUDP, Seat
<1>2. el_data' = el_data /\ Count(1, 1, "IPProtocol")
  BY DEF PassOver
<1>3. /\ r' \in RcvState
      /\ q = 45 => r'.s = "IPProtocol" /\ r'.c = 0
      /\ q # 45 => r'.s = "IPTTL" /\ r'.c = q - 43
  BY <1>a, <1>1, <1>2, CountFacts DEF RcvNames
<1>4. Place(q + 1)'
  BY <1>a, <1>1, <1>3 DEF Place, PlaceIP, Seat
<1>5. HeardMAC(o, q + 1)' /\ HeardIP(o, q + 1)' /\ HeardLength(o, q + 1)' /\ HeardFlags(o, q + 1)'
  <2>0. q >= 28
    BY <1>a, <1>1, <1>2
  <2>1. HeardMAC(o, q + 1)'
    BY <1>a, <1>b, <1>1, <1>2, <2>0, KeepMAC
  <2>2. HeardIP(o, q + 1)'
    BY <1>a, <1>b, <1>1, <1>2, KeepIP
  <2>3. HeardLength(o, q + 1)'
    BY <1>a, <1>b, <1>1, <1>2, KeepLength
  <2>4. HeardFlags(o, q + 1)'
    BY <1>a, <1>b, <1>1, <1>2, KeepFlags
  <2> QED
    BY <2>1, <2>2, <2>3, <2>4
<1> QED
  BY <1>a, <1>1, <1>2, <1>3, <1>4, <1>5, NoUDP DEF Step, Heard

LEMMA IPProtocolStep ==
  ASSUME NEW o, NEW q, NEW x, Hears(o, q, x), IPProtocol(x)
  PROVE Step(o, q, x)
<1>a. /\ r \in RcvState /\ el_data \in RcvRecord /\ o \in Nat /\ q \in Nat
      /\ burst' = burst /\ x = burst[o + q + 1] /\ x \in Half
  BY DEF Hears
<1>b. /\ HeardMAC(o, q) /\ HeardIP(o, q) /\ HeardLength(o, q) /\ HeardFlags(o, q)
  BY DEF Hears, Heard
<1>1. q >= 46 /\ q < 48 /\ r.c = q - 46 /\ r.s = "IPProtocol" /\ el_data' = el_data
  BY <1>a DEF Hears, Place, PlaceIP, PlaceUDP, Seat, IPProtocol
<1>2. CASE x # 1
  <2>1. r' \in RcvState /\ GivesUp
    BY <1>a, <1>2, GoFacts DEF IPProtocol, Reject, GivesUp, RcvNames
  <2>2. Wrong(q + 1, x)
    BY <1>a, <1>1, <1>2 DEF Wrong
  <2> QED
    BY <1>a, <1>1, <2>1, <2>2 DEF Step
<1>3. CASE x = 1
  <2>1. Count(1, 1, "IPChecksum")
    BY <1>3 DEF IPProtocol
  <2>2. /\ r' \in RcvState
        /\ q = 47 => r'.s = "IPChecksum" /\ r'.c = 0
        /\ q # 47 => r'.s = "IPProtocol" /\ r'.c = q - 45
    BY <1>a, <1>1, <2>1, CountFacts DEF RcvNames
  <2>3. Place(q + 1)'
    BY <1>a, <1>1, <2>2 DEF Place, PlaceIP, Seat
  <2>4. HeardFlags(o, q + 1)'
    <3>1. ASSUME NEW i \in 47 .. 48, q + 1 >= i
          PROVE burst[o + i] = 1
      <4>1. CASE i = q + 1
        <5>1. burst[o + i] = x
          BY <1>a, <4>1
        <5> QED
          BY <1>3, <5>1
      <4>2. CASE i # q + 1
        BY <1>a, <1>b, <3>1, <4>2 DEF HeardFlags
      <4> QED
        BY <4>1, <4>2
    <3>2. \A i \in 41 .. 44 : burst[o + i] = 0
      BY <1>a, <1>b, <1>1 DEF HeardFlags
    <3> QED
      BY <1>a, <3>1, <3>2 DEF HeardFlags
  <2>5. HeardMAC(o, q + 1)' /\ HeardIP(o, q + 1)' /\ HeardLength(o, q + 1)'
    <3>0. q >= 28
      BY <1>a, <1>1
    <3>1. HeardMAC(o, q + 1)'
      BY <1>a, <1>b, <1>1, <3>0, KeepMAC
    <3>2. HeardIP(o, q + 1)'
      BY <1>a, <1>b, <1>1, KeepIP
    <3>3. HeardLength(o, q + 1)'
      BY <1>a, <1>b, <1>1, KeepLength
    <3> QED
      BY <3>1, <3>2, <3>3
  <2> QED
    BY <1>a, <1>1, <2>2, <2>3, <2>4, <2>5, NoUDP DEF Step, Heard
<1> QED
  BY <1>2, <1>3

LEMMA IPChecksumStep ==
  ASSUME NEW o, NEW q, NEW x, Hears(o, q, x), PassOver(x), r.s = "IPChecksum"
  PROVE Step(o, q, x)
<1>a. /\ r \in RcvState /\ el_data \in RcvRecord /\ o \in Nat /\ q \in Nat
      /\ burst' = burst /\ x = burst[o + q + 1] /\ x \in Half
  BY DEF Hears
<1>b. /\ HeardMAC(o, q) /\ HeardIP(o, q) /\ HeardLength(o, q) /\ HeardFlags(o, q)
  BY DEF Hears, Heard
<1>1. q >= 48 /\ q < 52 /\ r.c = q - 48
  BY <1>a DEF Hears, Place, PlaceIP, PlaceUDP, Seat
<1>2. el_data' = el_data /\ Count(3, 1, "IPAddrSRC")
  BY DEF PassOver
<1>3. /\ r' \in RcvState
      /\ q = 51 => r'.s = "IPAddrSRC" /\ r'.c = 0
      /\ q # 51 => r'.s = "IPChecksum" /\ r'.c = q - 47
  BY <1>a, <1>1, <1>2, CountFacts DEF RcvNames
<1>4. Place(q + 1)'
  BY <1>a, <1>1, <1>3 DEF Place, PlaceIP, Seat
<1>5. HeardMAC(o, q + 1)' /\ HeardIP(o, q + 1)' /\ HeardLength(o, q + 1)' /\ HeardFlags(o, q + 1)'
  <2>0. q >= 28
    BY <1>a, <1>1, <1>2
  <2>1. HeardMAC(o, q + 1)'
    BY <1>a, <1>b, <1>1, <1>2, <2>0, KeepMAC
  <2>2. HeardIP(o, q + 1)'
    BY <1>a, <1>b, <1>1, <1>2, KeepIP
  <2>3. HeardLength(o, q + 1)'
    BY <1>a, <1>b, <1>1, <1>2, KeepLength
  <2>4. HeardFlags(o, q + 1)'
    BY <1>a, <1>b, <1>1, <1>2, KeepFlags
  <2> QED
    BY <2>1, <2>2, <2>3, <2>4
<1> QED
  BY <1>a, <1>1, <1>2, <1>3, <1>4, <1>5, NoUDP DEF Step, Heard

LEMMA IPAddrSRCStep ==
  ASSUME NEW o, NEW q, NEW x, Hears(o, q, x), StoreField(x), r.s = "IPAddrSRC"
  PROVE Step(o, q, x)
<1>a. /\ r \in RcvState /\ el_data \in RcvRecord /\ o \in Nat /\ q \in Nat
      /\ burst' = burst /\ x = burst[o + q + 1] /\ x \in Half
  BY DEF Hears
<1>b. /\ HeardMAC(o, q) /\ HeardIP(o, q) /\ HeardLength(o, q) /\ HeardFlags(o, q)
  BY DEF Hears, Heard
<1>1. q >= 52 /\ q < 60 /\ r.c = 4 * (q - 52)
  BY <1>a DEF Hears, Place, PlaceIP, PlaceUDP, Seat
<1>2. Store("srcIP", x) /\ Count(28, 4, "IPAddrDST")
  BY DEF StoreField, Stored
<1>3. (q - 52) \in 0 .. 7
  BY <1>a, <1>1
<1>4. /\ el_data' \in RcvRecord /\ el_data'.srcIP = [el_data.srcIP EXCEPT ![q - 52] = x]
      /\ el_data'.dstMAC = el_data.dstMAC /\ el_data'.srcMAC = el_data.srcMAC
      /\ el_data'.dstIP = el_data.dstIP /\ el_data'.ipHeaderLength = el_data.ipHeaderLength
      /\ el_data'.ipLength = el_data.ipLength
  BY <1>a, <1>1, <1>2, <1>3, Store_srcIP
<1>5. /\ r' \in RcvState
      /\ q = 59 => r'.s = "IPAddrDST" /\ r'.c = 0
      /\ q # 59 => r'.s = "IPAddrSRC" /\ r'.c = 4 * (q - 52) + 4
  BY <1>a, <1>1, <1>2, CountFacts DEF RcvNames
<1>6. Place(q + 1)'
  BY <1>a, <1>1, <1>5 DEF Place, PlaceIP, Seat
<1>7. HeardIP(o, q + 1)'
  <2>1. ASSUME NEW i \in 0 .. 7, q + 1 >= 53 + i
        PROVE el_data'.srcIP[i] = burst[o + 53 + i]
    <3>1. CASE i = q - 52
      BY <1>a, <1>1, <1>3, <1>4, <3>1 DEF RcvRecord
    <3>2. CASE i # q - 52
      BY <1>a, <1>b, <1>1, <1>3, <1>4, <2>1, <3>2 DEF RcvRecord, HeardIP
    <3> QED
      BY <3>1, <3>2
  <2>2. burst[o + 29] >= 5 /\ el_data'.ipHeaderLength = burst[o + 29] /\ burst[o + 30] = 4
    BY <1>a, <1>b, <1>1, <1>4 DEF HeardIP
  <2> QED
    BY <1>a, <1>1, <1>4, <2>1, <2>2 DEF HeardIP
<1>8. HeardMAC(o, q + 1)' /\ HeardLength(o, q + 1)' /\ HeardFlags(o, q + 1)'
  <2>0. q >= 28
    BY <1>a, <1>1, <1>4
  <2>1. HeardMAC(o, q + 1)'
    BY <1>a, <1>b, <1>1, <1>4, <2>0, KeepMAC
  <2>2. HeardLength(o, q + 1)'
    BY <1>a, <1>b, <1>1, <1>4, KeepLength
  <2>3. HeardFlags(o, q + 1)'
    BY <1>a, <1>b, <1>1, <1>4, KeepFlags
  <2> QED
    BY <2>1, <2>2, <2>3
<1> QED
  BY <1>a, <1>1, <1>4, <1>5, <1>6, <1>7, <1>8, NoUDP DEF Step, Heard

LEMMA IPAddrDSTStep ==
  ASSUME NEW o, NEW q, NEW x, Hears(o, q, x), IPAddrDST(x)
  PROVE Step(o, q, x)
<1>a. /\ r \in RcvState /\ el_data \in RcvRecord /\ o \in Nat /\ q \in Nat
      /\ burst' = burst /\ x = burst[o + q + 1] /\ x \in Half
  BY DEF Hears
<1>b. /\ HeardMAC(o, q) /\ HeardIP(o, q) /\ HeardLength(o, q) /\ HeardFlags(o, q)
  BY DEF Hears, Heard
<1>1. q >= 60 /\ q < 68 /\ r.c = 4 * (q - 60) /\ r.s = "IPAddrDST"
  BY <1>a DEF Hears, Place, PlaceIP, PlaceUDP, Seat, IPAddrDST
<1> DEFINE next == IF el_data.ipHeaderLength = 5 THEN "UDPPortSRC" ELSE "IPOptions"
<1>2. Store("dstIP", x) /\ Count(28, 4, next)
  BY DEF IPAddrDST
<1>3. (q - 60) \in 0 .. 7
  BY <1>a, <1>1
<1>4. /\ el_data' \in RcvRecord /\ el_data'.dstIP = [el_data.dstIP EXCEPT ![q - 60] = x]
      /\ el_data'.dstMAC = el_data.dstMAC /\ el_data'.srcMAC = el_data.srcMAC
      /\ el_data'.srcIP = el_data.srcIP /\ el_data'.ipHeaderLength = el_data.ipHeaderLength
      /\ el_data'.ipLength = el_data.ipLength
  BY <1>a, <1>1, <1>2, <1>3, Store_dstIP
<1>5. Base \in Nat /\ Base >= 68 /\ Base' = Base /\ (el_data.ipHeaderLength = 5 => Base = 68)
      /\ (el_data.ipHeaderLength # 5 => Base > 68)
  <2>1. Base \in Nat /\ Base >= 68
    BY <1>a, <1>b, <1>1, BaseIs
  <2>2. Base' = Base
    BY <1>4, BaseSame
  <2>3. el_data.ipHeaderLength \in Nat
    BY <1>a DEF RcvRecord, Half
  <2> QED
    BY <2>1, <2>2, <2>3 DEF Base
<1>6. /\ r' \in RcvState
      /\ q = 67 => r'.s = next /\ r'.c = 0
      /\ q # 67 => r'.s = "IPAddrDST" /\ r'.c = 4 * (q - 60) + 4
  <2>1. next \in RcvNames
    BY DEF RcvNames
  <2> HIDE DEF next
  <2> QED
    BY <1>a, <1>1, <1>2, <2>1, CountFacts
<1>7. Place(q + 1)'
  <2>1. CASE q # 67
    BY <1>a, <1>1, <1>6, <2>1 DEF Place, PlaceIP, Seat
  <2>2. CASE q = 67 /\ el_data.ipHeaderLength = 5
    <3>1. r'.s = "UDPPortSRC" /\ r'.c = 0 /\ Base' = 68
      BY <1>5, <1>6, <2>2
    <3> QED
      BY <2>2, <3>1 DEF Place, PlaceUDP, Seat
  <2>3. CASE q = 67 /\ el_data.ipHeaderLength # 5
    <3>1. r'.s = "IPOptions" /\ r'.c = 0 /\ Base' > 68 /\ Base' \in Nat
      BY <1>5, <1>6, <2>3
    <3> QED
      <4>1. q + 1 >= 68 /\ r'.c = 1 * (q + 1 - 68)
        BY <2>3, <3>1
      <4>2. q + 1 < 68 + (Base - 68)'
        <5>1. 68 < 68 + (Base - 68)
          BY <1>5, <2>3
        <5> QED
          BY <1>5, <2>3, <5>1
      <4>3. Seat("IPOptions", 68, 1, Base - 68, q + 1)'
        BY <1>a, <1>5, <2>3, <3>1, <4>1, <4>2 DEF Seat
      <4> QED
        BY <4>1, <4>3 DEF Place, PlaceUDP
  <2> QED
    BY <2>1, <2>2, <2>3
<1>8. HeardIP(o, q + 1)'
  <2>1. ASSUME NEW i \in 0 .. 7, q + 1 >= 61 + i
        PROVE el_data'.dstIP[i] = burst[o + 61 + i]
    <3>1. CASE i = q - 60
      BY <1>a, <1>1, <1>3, <1>4, <3>1 DEF RcvRecord
    <3>2. CASE i # q - 60
      BY <1>a, <1>b, <1>1, <1>3, <1>4, <2>1, <3>2 DEF RcvRecord, HeardIP
    <3> QED
      BY <3>1, <3>2
  <2>2. burst[o + 29] >= 5 /\ el_data'.ipHeaderLength = burst[o + 29] /\ burst[o + 30] = 4
    BY <1>a, <1>b, <1>1, <1>4 DEF HeardIP
  <2>3. \A i \in 0 .. 7 : el_data'.srcIP[i] = burst[o + 53 + i]
    BY <1>a, <1>b, <1>1, <1>4 DEF HeardIP
  <2> QED
    BY <1>a, <2>1, <2>2, <2>3 DEF HeardIP
<1>9. HeardMAC(o, q + 1)' /\ HeardLength(o, q + 1)' /\ HeardFlags(o, q + 1)'
  <2>0. q >= 28
    BY <1>a, <1>1, <1>4
  <2>1. HeardMAC(o, q + 1)'
    BY <1>a, <1>b, <1>1, <1>4, <2>0, KeepMAC
  <2>2. HeardLength(o, q + 1)'
    BY <1>a, <1>b, <1>1, <1>4, KeepLength
  <2>3. HeardFlags(o, q + 1)'
    BY <1>a, <1>b, <1>1, <1>4, KeepFlags
  <2> QED
    BY <2>1, <2>2, <2>3
<1>10. HeardPorts(o, q + 1)' /\ HeardUDP(o, q + 1)' /\ HeardPayload(o, q + 1)'
  BY <1>a, <1>1, <1>5, KeepPorts, KeepUDP, KeepPayload DEF Hears, Heard
<1> QED
  BY <1>a, <1>4, <1>6, <1>7, <1>8, <1>9, <1>10 DEF Step, Heard

LEMMA IPOptionsStep ==
  ASSUME NEW o, NEW q, NEW x, Hears(o, q, x), PassOver(x), r.s = "IPOptions"
  PROVE Step(o, q, x)
<1>a. /\ r \in RcvState /\ el_data \in RcvRecord /\ o \in Nat /\ q \in Nat
      /\ burst' = burst /\ x = burst[o + q + 1] /\ x \in Half
  BY DEF Hears
<1>b. /\ HeardMAC(o, q) /\ HeardIP(o, q) /\ HeardLength(o, q) /\ HeardFlags(o, q)
  BY DEF Hears, Heard
<1>c. HeardPorts(o, q) /\ HeardUDP(o, q) /\ HeardPayload(o, q)
  BY DEF Hears, Heard
<1>1. q >= 68 /\ q < 68 + (Base - 68) /\ r.c = 1 * (q - 68)
  BY <1>a DEF Hears, Place, PlaceIP, PlaceUDP, Seat
<1>2. /\ el_data' = el_data
      /\ Count(((el_data.ipHeaderLength - 5) * 8) - 1, 1, "UDPPortSRC")
  BY DEF PassOver
<1>3. Base \in Nat /\ Base >= 68 /\ Base' = Base
  BY <1>a, <1>b, <1>1, <1>2, BaseIs, BaseSame
<1>4. ((el_data.ipHeaderLength - 5) * 8) - 1 = Base - 69
  <2>1. el_data.ipHeaderLength \in Nat
    BY <1>a DEF RcvRecord, Half
  <2> QED
    BY <2>1 DEF Base
<1>5. q < Base /\ r.c = q - 68
  BY <1>a, <1>1, <1>3
<1>6. /\ r' \in RcvState
      /\ q = Base - 1 => r'.s = "UDPPortSRC" /\ r'.c = 0
      /\ q # Base - 1 => r'.s = "IPOptions" /\ r'.c = q - 67
  <2>1. Count(Base - 69, 1, "UDPPortSRC") /\ "UDPPortSRC" \in RcvNames
    BY <1>2, <1>4 DEF RcvNames
  <2>2. r.c = Base - 69 <=> q = Base - 1
    BY <1>a, <1>3, <1>5
  <2> QED
    BY <1>a, <1>5, <2>1, <2>2, CountFacts
<1>7. Place(q + 1)'
  <2>1. CASE q = Base - 1
    <3>1. Seat("UDPPortSRC", Base, 4, 4, q + 1)'
      BY <1>a, <1>3, <1>6, <2>1 DEF Seat
    <3> QED
      BY <1>a, <1>1, <3>1 DEF Place, PlaceUDP
  <2>2. CASE q # Base - 1
    <3>1. Seat("IPOptions", 68, 1, Base - 68, q + 1)'
      BY <1>a, <1>1, <1>3, <1>5, <1>6, <2>2 DEF Seat
    <3> QED
      BY <1>a, <1>1, <3>1 DEF Place, PlaceUDP
  <2> QED
    BY <2>1, <2>2
<1>8. HeardMAC(o, q + 1)' /\ HeardIP(o, q + 1)' /\ HeardLength(o, q + 1)' /\ HeardFlags(o, q + 1)'
  <2>0. q >= 28
    BY <1>a, <1>1, <1>2
  <2>1. HeardMAC(o, q + 1)'
    BY <1>a, <1>b, <1>1, <1>2, <2>0, KeepMAC
  <2>2. HeardIP(o, q + 1)'
    BY <1>a, <1>b, <1>1, <1>2, KeepIP
  <2>3. HeardLength(o, q + 1)'
    BY <1>a, <1>b, <1>1, <1>2, KeepLength
  <2>4. HeardFlags(o, q + 1)'
    BY <1>a, <1>b, <1>1, <1>2, KeepFlags
  <2> QED
    BY <2>1, <2>2, <2>3, <2>4
<1>9. HeardPorts(o, q + 1)' /\ HeardUDP(o, q + 1)' /\ HeardPayload(o, q + 1)'
  <2>1. HeardPorts(o, q + 1)'
    BY <1>a, <1>c, <1>1, <1>2, <1>3, <1>5, KeepPorts
  <2>2. HeardUDP(o, q + 1)'
    BY <1>a, <1>c, <1>1, <1>2, <1>3, <1>5, KeepUDP
  <2>3. HeardPayload(o, q + 1)'
    BY <1>a, <1>c, <1>1, <1>2, <1>3, <1>5, KeepPayload
  <2> QED
    BY <2>1, <2>2, <2>3
<1> QED
  BY <1>a, <1>2, <1>6, <1>7, <1>8, <1>9 DEF Step, Heard

LEMMA UDPPortSRCStep ==
  ASSUME NEW o, NEW q, NEW x, Hears(o, q, x), StoreField(x), r.s = "UDPPortSRC"
  PROVE Step(o, q, x)
<1>a. /\ r \in RcvState /\ el_data \in RcvRecord /\ o \in Nat /\ q \in Nat
      /\ burst' = burst /\ x = burst[o + q + 1] /\ x \in Half
  BY DEF Hears
<1>b. /\ HeardMAC(o, q) /\ HeardIP(o, q) /\ HeardLength(o, q) /\ HeardFlags(o, q)
  BY DEF Hears, Heard
<1>c. HeardPorts(o, q) /\ HeardUDP(o, q) /\ HeardPayload(o, q)
  BY DEF Hears, Heard
<1>1. q >= 68 /\ q >= Base /\ q < Base + 4 /\ r.c = 4 * (q - Base)
  BY <1>a DEF Hears, Place, PlaceIP, PlaceUDP, Seat
<1>2. Store("srcPort", x) /\ Count(12, 4, "UDPPortDST")
  BY DEF StoreField, Stored
<1>3. Base \in Nat /\ Base >= 68
  BY <1>a, <1>b, <1>1, BaseIs
<1>4. (q - Base) \in 0 .. 3
  BY <1>a, <1>1, <1>3
<1>5. /\ el_data' \in RcvRecord /\ el_data'.srcPort = [el_data.srcPort EXCEPT ![q - Base] = x]
      /\ el_data'.dstMAC = el_data.dstMAC /\ el_data'.srcMAC = el_data.srcMAC
      /\ el_data'.srcIP = el_data.srcIP /\ el_data'.dstIP = el_data.dstIP
      /\ el_data'.ipHeaderLength = el_data.ipHeaderLength
      /\ el_data'.ipLength = el_data.ipLength
  BY <1>a, <1>1, <1>2, <1>4, Store_srcPort
<1>6. Base' = Base
  BY <1>5, BaseSame
<1>7. /\ r' \in RcvState
      /\ q = Base + 3 => r'.s = "UDPPortDST" /\ r'.c = 0
      /\ q # Base + 3 => r'.s = "UDPPortSRC" /\ r'.c = 4 * (q - Base) + 4
  BY <1>a, <1>1, <1>2, <1>3, CountFacts DEF RcvNames
<1>8. Place(q + 1)'
  <2>1. CASE q = Base + 3
    <3>1. Seat("UDPPortDST", Base + 4, 4, 4, q + 1)'
      BY <1>a, <1>3, <1>6, <1>7, <2>1 DEF Seat
    <3> QED
      BY <1>a, <1>1, <3>1 DEF Place, PlaceUDP
  <2>2. CASE q # Base + 3
    <3>1. Seat("UDPPortSRC", Base, 4, 4, q + 1)'
      BY <1>a, <1>1, <1>3, <1>6, <1>7, <2>2 DEF Seat
    <3> QED
      BY <1>a, <1>1, <3>1 DEF Place, PlaceUDP
  <2> QED
    BY <2>1, <2>2
<1>9. HeardPorts(o, q + 1)'
  <2>1. ASSUME NEW i \in 0 .. 3, q + 1 >= Base + 1 + i
        PROVE el_data'.srcPort[i] = burst[o + Base + 1 + i]
    <3>1. CASE i = q - Base
      <4>1. o + Base + 1 + i = o + q + 1
        BY <1>a, <1>3, <3>1
      <4> QED
        BY <1>a, <1>4, <1>5, <3>1, <4>1 DEF RcvRecord
    <3>2. CASE i # q - Base
      BY <1>a, <1>c, <1>1, <1>3, <1>4, <1>5, <2>1, <3>2 DEF RcvRecord, HeardPorts
    <3> QED
      BY <3>1, <3>2
  <2>2. ASSUME NEW i \in 0 .. 3
        PROVE ~(q + 1 >= Base + 5 + i)
    BY <1>a, <1>1, <1>3
  <2> QED
    BY <1>a, <1>6, <2>1, <2>2 DEF HeardPorts
<1>10. HeardMAC(o, q + 1)' /\ HeardIP(o, q + 1)' /\ HeardLength(o, q + 1)' /\ HeardFlags(o, q + 1)'
  <2>0. q >= 28
    BY <1>a, <1>1, <1>5
  <2>1. HeardMAC(o, q + 1)'
    BY <1>a, <1>b, <1>1, <1>5, <2>0, KeepMAC
  <2>2. HeardIP(o, q + 1)'
    BY <1>a, <1>b, <1>1, <1>5, KeepIP
  <2>3. HeardLength(o, q + 1)'
    BY <1>a, <1>b, <1>1, <1>5, KeepLength
  <2>4. HeardFlags(o, q + 1)'
    BY <1>a, <1>b, <1>1, <1>5, KeepFlags
  <2> QED
    BY <2>1, <2>2, <2>3, <2>4
<1>11. HeardUDP(o, q + 1)' /\ HeardPayload(o, q + 1)'
  <2>1. HeardUDP(o, q + 1)'
    BY <1>a, <1>c, <1>1, <1>3, <1>6, KeepUDP
  <2>2. HeardPayload(o, q + 1)'
    BY <1>a, <1>c, <1>1, <1>3, <1>6, KeepPayload
  <2> QED
    BY <2>1, <2>2
<1> QED
  BY <1>a, <1>5, <1>7, <1>8, <1>9, <1>10, <1>11 DEF Step, Heard

LEMMA UDPPortDSTStep ==
  ASSUME NEW o, NEW q, NEW x, Hears(o, q, x), UDPPortDST(x)
  PROVE Step(o, q, x)
<1>a. /\ r \in RcvState /\ el_data \in RcvRecord /\ o \in Nat /\ q \in Nat
      /\ burst' = burst /\ x = burst[o + q + 1] /\ x \in Half
  BY DEF Hears
<1>b. /\ HeardMAC(o, q) /\ HeardIP(o, q) /\ HeardLength(o, q) /\ HeardFlags(o, q)
  BY DEF Hears, Heard
<1>c. HeardPorts(o, q) /\ HeardUDP(o, q) /\ HeardPayload(o, q)
  BY DEF Hears, Heard
<1>1. q >= 68 /\ q >= Base + 4 /\ q < Base + 8 /\ r.c = 4 * (q - (Base + 4)) /\ r.s = "UDPPortDST"
  <2>1. Seat("UDPPortDST", Base + 4, 4, 4, q) /\ q >= 68 /\ r.s = "UDPPortDST"
    BY <1>a DEF Hears, Place, PlaceIP, PlaceUDP, Seat, UDPPortDST
  <2>2. Base \in Nat
    BY <1>a, <1>b, <2>1, BaseIs
  <2> QED
    BY <1>a, <2>1, <2>2 DEF Seat
<1>2. Store("dstPort", x)
  BY DEF UDPPortDST
<1>3. Base \in Nat /\ Base >= 68
  BY <1>a, <1>b, <1>1, BaseIs
<1> DEFINE k == q - (Base + 4)
<1>4. k \in 0 .. 3
  BY <1>a, <1>1, <1>3
<1>5. /\ el_data' \in RcvRecord /\ el_data'.dstPort = [el_data.dstPort EXCEPT ![k] = x]
      /\ el_data'.dstMAC = el_data.dstMAC /\ el_data'.srcMAC = el_data.srcMAC
      /\ el_data'.srcIP = el_data.srcIP /\ el_data'.dstIP = el_data.dstIP
      /\ el_data'.ipHeaderLength = el_data.ipHeaderLength
      /\ el_data'.ipLength = el_data.ipLength /\ el_data'.srcPort = el_data.srcPort
  <2> HIDE DEF k
  <2>1. r.c = 4 * k
    BY <1>1 DEF k
  <2> QED
    BY <1>a, <1>2, <1>4, <2>1, Store_dstPort
<1>6. Base' = Base
  BY <1>5, BaseSame
<1>7. /\ r' \in RcvState
      /\ q = Base + 7 => r'.s = "UDPLength" /\ r'.c = 0 /\ r'.udpc = 0
      /\ q # Base + 7 => r'.s = "UDPPortDST" /\ r'.c = 4 * k + 4
  <2>1. CASE q = Base + 7
    <3>1. r' = [r EXCEPT !.s = "UDPLength", !.c = 0, !.udpc = 0]
      BY <1>a, <1>1, <1>3, <2>1 DEF UDPPortDST
    <3>2. "UDPLength" \in RcvNames /\ 0 \in Word16
      BY DEF RcvNames, Word16
    <3> QED
      BY <1>a, <2>1, <3>1, <3>2, SetUdpc
  <2>2. CASE q # Base + 7
    <3>1. r' = [r EXCEPT !.c = @ + 4]
      BY <1>a, <1>1, <1>3, <2>2 DEF UDPPortDST
    <3> QED
      BY <1>a, <1>1, <2>2, <3>1 DEF RcvState
  <2> QED
    BY <2>1, <2>2
<1>8. Place(q + 1)'
  <2>1. CASE q = Base + 7
    <3>1. Seat("UDPLength", Base + 8, 1, 4, q + 1)'
      BY <1>a, <1>3, <1>6, <1>7, <2>1 DEF Seat
    <3> QED
      BY <1>a, <1>1, <3>1 DEF Place, PlaceUDP
  <2>2. CASE q # Base + 7
    <3>1. Seat("UDPPortDST", Base + 4, 4, 4, q + 1)'
      BY <1>a, <1>1, <1>3, <1>6, <1>7, <2>2 DEF Seat
    <3> QED
      BY <1>a, <1>1, <3>1 DEF Place, PlaceUDP
  <2> QED
    BY <2>1, <2>2
<1>9. HeardPorts(o, q + 1)'
  <2>1. ASSUME NEW i \in 0 .. 3, q + 1 >= Base + 5 + i
        PROVE el_data'.dstPort[i] = burst[o + Base + 5 + i]
    <3>1. CASE i = k
      <4>1. o + Base + 5 + i = o + q + 1
        BY <1>a, <1>3, <3>1
      <4> QED
        BY <1>a, <1>4, <1>5, <3>1, <4>1 DEF RcvRecord
    <3>2. CASE i # k
      <4>1. q >= Base + 5 + i
        BY <1>a, <1>3, <2>1, <3>2
      <4>2. el_data.dstPort[i] = burst[o + Base + 5 + i]
        BY <1>c, <1>1, <4>1 DEF HeardPorts
      <4> QED
        BY <1>a, <1>4, <1>5, <3>2, <4>2 DEF RcvRecord
    <3> QED
      BY <3>1, <3>2
  <2>2. ASSUME NEW i \in 0 .. 3
        PROVE el_data'.srcPort[i] = burst[o + Base + 1 + i]
    <3>1. q >= Base + 1 + i
      BY <1>a, <1>1, <1>3
    <3> QED
      BY <1>c, <1>1, <1>5, <3>1 DEF HeardPorts
  <2> QED
    BY <1>a, <1>6, <2>1, <2>2 DEF HeardPorts
<1>10. HeardMAC(o, q + 1)' /\ HeardIP(o, q + 1)' /\ HeardLength(o, q + 1)' /\ HeardFlags(o, q + 1)'
  <2>0. q >= 28
    BY <1>a, <1>1, <1>5
  <2>1. HeardMAC(o, q + 1)'
    BY <1>a, <1>b, <1>1, <1>5, <2>0, KeepMAC
  <2>2. HeardIP(o, q + 1)'
    BY <1>a, <1>b, <1>1, <1>5, KeepIP
  <2>3. HeardLength(o, q + 1)'
    BY <1>a, <1>b, <1>1, <1>5, KeepLength
  <2>4. HeardFlags(o, q + 1)'
    BY <1>a, <1>b, <1>1, <1>5, KeepFlags
  <2> QED
    BY <2>1, <2>2, <2>3, <2>4
<1>11. HeardUDP(o, q + 1)'
  <2>1. CASE q = Base + 7
    BY <1>a, <1>3, <1>6, <1>7, <2>1 DEF HeardUDP
  <2>2. CASE q # Base + 7
    <3>1. q < Base + 7
      BY <1>a, <1>1, <1>3, <2>2
    <3> QED
      BY <1>a, <1>c, <1>3, <1>6, <3>1, KeepUDP
  <2> QED
    BY <2>1, <2>2
<1>12. HeardPayload(o, q + 1)'
  <2>1. HeardPayload(o, q + 1)'
    BY <1>a, <1>c, <1>1, <1>3, <1>6, KeepPayload
  <2> QED
    BY <2>1
<1> QED
  BY <1>a, <1>5, <1>7, <1>8, <1>9, <1>10, <1>11, <1>12 DEF Step, Heard

LEMMA UDPLengthStep ==
  ASSUME NEW o, NEW q, NEW x, Hears(o, q, x), UDPLength(x)
  PROVE Step(o, q, x)
<1>a. /\ r \in RcvState /\ el_data \in RcvRecord /\ o \in Nat /\ q \in Nat
      /\ burst' = burst /\ x = burst[o + q + 1] /\ x \in Half
  BY DEF Hears
<1>b. /\ HeardMAC(o, q) /\ HeardIP(o, q) /\ HeardLength(o, q) /\ HeardFlags(o, q)
  BY DEF Hears, Heard
<1>c. HeardPorts(o, q) /\ HeardUDP(o, q) /\ HeardPayload(o, q)
  BY DEF Hears, Heard
<1>1. q >= 68 /\ r.s = "UDPLength" /\ el_data' = el_data /\ Seat("UDPLength", Base + 8, 1, 4, q)
  BY <1>a DEF Hears, Place, PlaceIP, PlaceUDP, Seat, UDPLength
<1>2. Base \in Nat /\ Base >= 68 /\ Base' = Base
  BY <1>a, <1>b, <1>1, BaseIs, BaseSame
<1>3. q >= Base + 8 /\ q < Base + 12 /\ r.c = q - (Base + 8)
  BY <1>a, <1>1, <1>2 DEF Seat
<1> DEFINE v == Wrap(IF r.c \in {0, 2} THEN r.udpc + x
                     ELSE IF r.c = 1 THEN (r.udpc + (x * 16)) * 256
                     ELSE r.udpc + (x * 16) + 65528)
           st == IF r.c = 3 THEN "UDPChecksum" ELSE r.s
           n == IF r.c = 3 THEN 0 ELSE r.c + 1
           p == o + Base + 9
<1>4. r' = [r EXCEPT !.udpc = v, !.s = st, !.c = n]
  BY DEF UDPLength
<1>5. r.udpc \in Nat /\ x \in Nat /\ x <= 15
  BY <1>a, Numbers, HeardNow
<1>6. /\ r' \in RcvState /\ r'.udpc = v
      /\ q = Base + 11 => r'.s = "UDPChecksum" /\ r'.c = 0
      /\ q # Base + 11 => r'.s = "UDPLength" /\ r'.c = q - (Base + 7)
  <2>1. v \in Word16
    <3>1. r.udpc + x \in Nat /\ (r.udpc + (x * 16)) * 256 \in Nat /\ r.udpc + (x * 16) + 65528 \in Nat
      BY <1>5
    <3> QED
      BY <3>1, WrapFacts
  <2>2. st \in RcvNames
    BY <1>1 DEF RcvNames
  <2>3. n \in Nat
    BY <1>a, <1>2, <1>3
  <2>4. /\ q = Base + 11 => st = "UDPChecksum" /\ n = 0
        /\ q # Base + 11 => st = "UDPLength" /\ n = q - (Base + 7)
    BY <1>a, <1>1, <1>2, <1>3
  <2> HIDE DEF v, st, n
  <2>5. r' \in RcvState /\ r'.s = st /\ r'.c = n /\ r'.udpc = v
    BY <1>a, <1>4, <2>1, <2>2, <2>3, SetUdpc
  <2> QED
    BY <2>4, <2>5
<1>7. Place(q + 1)'
  <2>1. CASE q = Base + 11
    <3>1. Seat("UDPChecksum", Base + 12, 1, 4, q + 1)'
      BY <1>a, <1>2, <1>6, <2>1 DEF Seat
    <3> QED
      BY <1>a, <1>1, <3>1 DEF Place, PlaceUDP
  <2>2. CASE q # Base + 11
    <3>1. Seat("UDPLength", Base + 8, 1, 4, q + 1)'
      BY <1>a, <1>2, <1>3, <1>6, <2>2 DEF Seat
    <3> QED
      BY <1>a, <1>1, <3>1 DEF Place, PlaceUDP
  <2> QED
    BY <2>1, <2>2
<1>8. HeardUDP(o, q + 1)'
  <2>0. p \in Nat /\ p + 1 \in Nat
    BY <1>a, <1>2
  <2>1. ASSUME NEW j \in Nat, j <= 3, q >= Base + 8 + j
        PROVE burst[p + j] \in Nat /\ burst[p + j] <= 15
    <3>1. Base + 9 + j \in Nat /\ Base + 9 + j >= 1 /\ Base + 9 + j <= q + 1 /\ o + (Base + 9 + j) = p + j
      BY <1>a, <1>2, <2>1
    <3>2. burst[o + (Base + 9 + j)] \in Nat /\ burst[o + (Base + 9 + j)] <= 15
      BY <3>1, HeardNibble
    <3> QED
      BY <3>1, <3>2
  <2>2. CASE q = Base + 8
    <3>1. r.udpc = 0 /\ r.c = 0 /\ x = burst[p]
      BY <1>a, <1>c, <1>1, <1>2, <1>3, <2>2 DEF HeardUDP
    <3>2. v = Wrap(r.udpc + x)
      BY <3>1
    <3>3. v = burst[p]
      BY <1>5, <3>1, <3>2, WrapFacts
    <3> HIDE DEF v
    <3> QED
      BY <1>a, <1>2, <1>6, <2>2, <3>3 DEF HeardUDP
  <2>3. CASE q = Base + 9
    <3>1. r.udpc = burst[p] /\ r.c = 1 /\ x = burst[p + 1]
      BY <1>a, <1>c, <1>1, <1>2, <1>3, <2>3 DEF HeardUDP
    <3>2. v = Wrap((r.udpc + (x * 16)) * 256)
      BY <3>1
    <3>3. r.udpc \in Nat /\ r.udpc <= 15
      <4>1. burst[p + 0] \in Nat /\ burst[p + 0] <= 15
        BY <1>2, <2>1, <2>3
      <4> QED
        BY <2>0, <3>1, <4>1
    <3>4. (r.udpc + (x * 16)) * 256 \in Nat /\ (r.udpc + (x * 16)) * 256 < 65536
      BY <1>5, <3>3
    <3>5. v = (burst[p] + (16 * burst[p + 1])) * 256
      <4>1. v = (r.udpc + (x * 16)) * 256
        BY <3>2, <3>4, WrapFacts
      <4>2. (r.udpc + (x * 16)) * 256 = (r.udpc + (16 * x)) * 256
        BY <1>5, <3>3
      <4> QED
        BY <3>1, <4>1, <4>2
    <3> HIDE DEF v
    <3> QED
      BY <1>a, <1>2, <1>6, <2>3, <3>5 DEF HeardUDP
  <2>4. CASE q = Base + 10
    <3>1. r.udpc = (burst[p] + (16 * burst[p + 1])) * 256 /\ r.c = 2 /\ x = burst[p + 2]
      BY <1>a, <1>c, <1>1, <1>2, <1>3, <2>4 DEF HeardUDP
    <3>2. v = Wrap(r.udpc + x)
      BY <3>1
    <3>3. r.udpc <= 65280
      <4>1. burst[p + 0] \in Nat /\ burst[p + 0] <= 15 /\ burst[p + 1] \in Nat /\ burst[p + 1] <= 15
        BY <1>2, <2>1, <2>4
      <4>2. burst[p] \in Nat /\ burst[p] <= 15
        BY <2>0, <4>1
      <4> QED
        BY <3>1, <4>1, <4>2
    <3>4. v = r.udpc + x
      BY <1>5, <3>2, <3>3, WrapFacts
    <3> HIDE DEF v
    <3> QED
      BY <1>a, <1>2, <1>6, <2>4, <3>1, <3>4 DEF HeardUDP
  <2>5. CASE q = Base + 11
    <3>1. /\ r.udpc = ((burst[p] + (16 * burst[p + 1])) * 256) + burst[p + 2]
          /\ r.c = 3 /\ x = burst[p + 3]
      BY <1>a, <1>c, <1>1, <1>2, <1>3, <2>5 DEF HeardUDP
    <3>2. v = Wrap(r.udpc + (x * 16) + 65528)
      BY <3>1
    <3>3. r.udpc + (x * 16) = LengthAt(p)
      <4>1. r.udpc + (x * 16) = r.udpc + (16 * x)
        BY <1>5
      <4> QED
        BY <3>1, <4>1 DEF LengthAt
    <3>4. v = Wrap(LengthAt(p) + 65528)
      BY <3>2, <3>3
    <3>5. LengthAt(p)' = LengthAt(p)
      BY <1>a, <1>2 DEF LengthAt
    <3> HIDE DEF v
    <3> QED
      BY <1>a, <1>2, <1>6, <2>5, <3>4, <3>5 DEF HeardUDP, Wrap
  <2> QED
    BY <1>a, <1>2, <1>3, <2>2, <2>3, <2>4, <2>5
<1>9. HeardMAC(o, q + 1)' /\ HeardIP(o, q + 1)' /\ HeardLength(o, q + 1)' /\ HeardFlags(o, q + 1)'
  <2>0. q >= 28
    BY <1>a, <1>1
  <2>1. HeardMAC(o, q + 1)'
    BY <1>a, <1>b, <1>1, <2>0, KeepMAC
  <2>2. HeardIP(o, q + 1)'
    BY <1>a, <1>b, <1>1, KeepIP
  <2>3. HeardLength(o, q + 1)'
    BY <1>a, <1>b, <1>1, KeepLength
  <2>4. HeardFlags(o, q + 1)'
    BY <1>a, <1>b, <1>1, KeepFlags
  <2> QED
    BY <2>1, <2>2, <2>3, <2>4
<1>10. HeardPorts(o, q + 1)' /\ HeardPayload(o, q + 1)'
  <2>1. HeardPorts(o, q + 1)'
    BY <1>a, <1>c, <1>1, <1>2, <1>3, KeepPorts
  <2>2. HeardPayload(o, q + 1)'
    BY <1>a, <1>c, <1>1, <1>2, <1>3, KeepPayload
  <2> QED
    BY <2>1, <2>2
<1> QED
  BY <1>a, <1>1, <1>6, <1>7, <1>8, <1>9, <1>10 DEF Step, Heard

LEMMA UDPChecksumStep ==
  ASSUME NEW o, NEW q, NEW x, Hears(o, q, x), UDPChecksum(x)
  PROVE Step(o, q, x)
<1>a. /\ r \in RcvState /\ el_data \in RcvRecord /\ o \in Nat /\ q \in Nat
      /\ burst' = burst /\ x = burst[o + q + 1] /\ x \in Half
  BY DEF Hears
<1>b. /\ HeardMAC(o, q) /\ HeardIP(o, q) /\ HeardLength(o, q) /\ HeardFlags(o, q)
  BY DEF Hears, Heard
<1>c. HeardPorts(o, q) /\ HeardUDP(o, q) /\ HeardPayload(o, q)
  BY DEF Hears, Heard
<1>1. q >= 68 /\ r.s = "UDPChecksum" /\ Seat("UDPChecksum", Base + 12, 1, 4, q)
  BY <1>a DEF Hears, Place, PlaceIP, PlaceUDP, Seat, UDPChecksum
<1>2. Base \in Nat /\ Base >= 68
  BY <1>a, <1>b, <1>1, BaseIs
<1>3. q >= Base + 12 /\ q < Base + 16 /\ r.c = q - (Base + 12)
  BY <1>a, <1>1, <1>2 DEF Seat
<1>4. CASE q # Base + 15
  <2>1. r.c # 3 /\ q < Base + 15
    BY <1>a, <1>2, <1>3, <1>4
  <2>2. Go(r.s, r.c + 1) /\ el_data' = el_data
    BY <2>1 DEF UDPChecksum
  <2>3. r' \in RcvState /\ r'.s = "UDPChecksum" /\ r'.c = q - (Base + 11) /\ r'.udpc = r.udpc
    <3>1. r.s \in RcvNames /\ r.c + 1 \in Nat /\ r.c + 1 = q - (Base + 11)
      BY <1>a, <1>1, <1>2, <1>3 DEF RcvNames
    <3> QED
      BY <1>a, <1>1, <2>2, <3>1, GoFacts
  <2>4. Base' = Base
    BY <2>2, BaseSame
  <2>5. Place(q + 1)'
    <3>1. Seat("UDPChecksum", Base + 12, 1, 4, q + 1)'
      BY <1>a, <1>2, <1>3, <2>1, <2>3, <2>4 DEF Seat
    <3> QED
      BY <1>a, <1>1, <3>1 DEF Place, PlaceUDP
  <2>6. HeardMAC(o, q + 1)' /\ HeardIP(o, q + 1)' /\ HeardLength(o, q + 1)' /\ HeardFlags(o, q + 1)'
    <3>0. q >= 28
      BY <1>a, <1>1, <2>2
    <3>1. HeardMAC(o, q + 1)'
      BY <1>a, <1>b, <1>1, <2>2, <3>0, KeepMAC
    <3>2. HeardIP(o, q + 1)'
      BY <1>a, <1>b, <1>1, <2>2, KeepIP
    <3>3. HeardLength(o, q + 1)'
      BY <1>a, <1>b, <1>1, <2>2, KeepLength
    <3>4. HeardFlags(o, q + 1)'
      BY <1>a, <1>b, <1>1, <2>2, KeepFlags
    <3> QED
      BY <3>1, <3>2, <3>3, <3>4
  <2>7. HeardPorts(o, q + 1)' /\ HeardUDP(o, q + 1)' /\ HeardPayload(o, q + 1)'
    <3>1. HeardPorts(o, q + 1)'
      BY <1>a, <1>c, <1>1, <1>2, <1>3, <2>1, <2>2, <2>3, <2>4, KeepPorts
    <3>2. HeardUDP(o, q + 1)'
      BY <1>a, <1>c, <1>1, <1>2, <1>3, <2>1, <2>2, <2>3, <2>4, KeepUDP
    <3>3. HeardPayload(o, q + 1)'
      BY <1>a, <1>c, <1>1, <1>2, <1>3, <2>1, <2>2, <2>3, <2>4, KeepPayload
    <3> QED
      BY <3>1, <3>2, <3>3
  <2> QED
    BY <1>a, <2>2, <2>3, <2>5, <2>6, <2>7 DEF Step, Heard
<1>5. CASE q = Base + 15
  <2> DEFINE v == Wrap((r.udpc * 8) + 65532)
             z == Zeros(2 * RecordBytes)
  <2>1. /\ r' = [r EXCEPT !.s = "DNSMsgRecord", !.c = 0, !.udpc = v]
        /\ el_data' = [el_data EXCEPT !.dnsLength = r.udpc, !.dnsPkt = z]
    BY <1>a, <1>2, <1>3, <1>5 DEF UDPChecksum
  <2>2. r.udpc \in Nat
    BY <1>a, Numbers
  <2>3. v \in Word16
    <3>1. (r.udpc * 8) + 65532 \in Nat
      BY <2>2
    <3> QED
      BY <3>1, WrapFacts
  <2>4. z = [i \in RecordNibbles |-> 0] /\ z \in [RecordNibbles -> Half]
    BY DEF Zeros, RecordNibbles, Half
  <2> HIDE DEF v, z
  <2>5. r' \in RcvState /\ r'.s = "DNSMsgRecord" /\ r'.c = 0 /\ r'.udpc = v
    <3>1. "DNSMsgRecord" \in RcvNames
      BY DEF RcvNames
    <3> QED
      BY <1>a, <2>1, <2>3, <3>1, SetUdpc
  <2>6. /\ el_data' \in RcvRecord /\ el_data'.dnsLength = r.udpc /\ el_data'.dnsPkt = z
        /\ el_data'.dstMAC = el_data.dstMAC /\ el_data'.srcMAC = el_data.srcMAC
        /\ el_data'.srcIP = el_data.srcIP /\ el_data'.dstIP = el_data.dstIP
        /\ el_data'.ipHeaderLength = el_data.ipHeaderLength
        /\ el_data'.ipLength = el_data.ipLength /\ el_data'.srcPort = el_data.srcPort
        /\ el_data'.dstPort = el_data.dstPort
    BY <1>a, <2>1, <2>2, <2>4 DEF RcvRecord
  <2>7. Base' = Base
    BY <2>6, BaseSame
  <2>8. Place(q + 1)'
    <3>1. Seat("DNSMsgRecord", Base + 16, 4, 2 * RecordBytes, q + 1)'
      BY <1>a, <1>2, <1>5, <2>5, <2>7, RecordAssumption DEF Seat
    <3> QED
      BY <1>a, <1>1, <3>1 DEF Place, PlaceUDP
  <2>9. HeardUDP(o, q + 1)'
    <3>1. r.udpc = Wrap(LengthAt(o + Base + 9) + 65528)
      BY <1>a, <1>c, <1>1, <1>2, <1>5 DEF HeardUDP
    <3>2. LengthAt(o + Base + 9)' = LengthAt(o + Base + 9)
      BY <1>a, <2>7 DEF LengthAt
    <3>3. v = Wrap((8 * r.udpc) + 65532)
      <4>1. r.udpc * 8 = 8 * r.udpc
        BY <2>2
      <4> QED
        BY <4>1 DEF v
    <3> QED
      BY <1>a, <1>2, <1>5, <2>5, <2>6, <2>7, <3>1, <3>2, <3>3 DEF HeardUDP, Wrap
  <2>10. HeardPayload(o, q + 1)'
    <3>1. ASSUME NEW i \in RecordNibbles
          PROVE el_data'.dnsPkt[i] = 0 /\ ~(i < q + 1 - (Base + 16))
      BY <1>2, <1>5, <2>4, <2>6, RecordAssumption DEF RecordNibbles
    <3>2. r'.s # "Notify"
      BY <2>5
    <3>3. el_data'.dnsLength >= 1 => q + 1 < Base + 16 + (2 * el_data'.dnsLength)
      BY <1>2, <1>5, <2>2, <2>6
    <3>4. ASSUME NEW i \in RecordNibbles
          PROVE el_data'.dnsPkt[i] = IF i < q + 1 - (Base' + 16) THEN burst'[o + Base' + 17 + i] ELSE 0
      BY <2>7, <3>1
    <3> QED
      BY <1>a, <1>2, <2>2, <2>6, <3>2, <3>3, <3>4, <2>7 DEF HeardPayload
  <2>11. HeardMAC(o, q + 1)' /\ HeardIP(o, q + 1)' /\ HeardLength(o, q + 1)' /\ HeardFlags(o, q + 1)'
    <3>0. q >= 28
      BY <1>a, <1>1, <2>6
    <3>1. HeardMAC(o, q + 1)'
      BY <1>a, <1>b, <1>1, <2>6, <3>0, KeepMAC
    <3>2. HeardIP(o, q + 1)'
      BY <1>a, <1>b, <1>1, <2>6, KeepIP
    <3>3. HeardLength(o, q + 1)'
      BY <1>a, <1>b, <1>1, <2>6, KeepLength
    <3>4. HeardFlags(o, q + 1)'
      BY <1>a, <1>b, <1>1, <2>6, KeepFlags
    <3> QED
      BY <3>1, <3>2, <3>3, <3>4
  <2>12. HeardPorts(o, q + 1)'
    <3>1. HeardPorts(o, q + 1)'
      BY <1>a, <1>c, <1>1, <1>2, <1>3, <2>6, <2>7, KeepPorts
    <3> QED
      BY <3>1
  <2> QED
    BY <1>a, <2>5, <2>6, <2>8, <2>9, <2>10, <2>11, <2>12 DEF Step, Heard
<1> QED
  BY <1>4, <1>5

\* The bit the last nibble of the payload begins at is met with that nibble.
LEMMA EndBit ==
  ASSUME NEW k \in Nat, k < 16383, NEW dl \in Nat, NEW u, u = Wrap((8 * dl) + 65532)
  PROVE /\ 4 * k = u => dl # 0 /\ (dl < 8192 => k + 1 = 2 * dl)
        /\ 4 * k # u /\ dl >= 1 /\ dl < 8192 /\ k < 2 * dl => k + 1 < 2 * dl
<1>1. ASSUME dl = 0
      PROVE u = 65532
  <2>1. (8 * dl) + 65532 = 65532
    BY <1>1
  <2> QED
    BY <2>1, WrapFacts
<1>2. ASSUME dl >= 1, dl < 8192
      PROVE u = (8 * dl) - 4
  <2> DEFINE m == (8 * dl) - 4
  <2>1. m \in Nat /\ m < 65536 /\ (8 * dl) + 65532 = m + 65536
    BY <1>2
  <2> HIDE DEF m
  <2>2. Wrap(m + 65536) = m
    BY <2>1 DEF Wrap
  <2> QED
    BY <2>1, <2>2 DEF m
<1> QED
  BY <1>1, <1>2

\* The bit count of a payload, while it is heard.
LEMMA PayloadBit ==
  ASSUME NEW o, NEW q, NEW x, Hears(o, q, x), Base \in Nat, Base >= 68, q >= Base + 16, r.s # "Notify",
         r.c = 4 * (q - (Base + 16))
  PROVE /\ r.c = r.udpc =>
             /\ el_data.dnsLength # 0
             /\ el_data.dnsLength < 8192 => q + 1 = Base + 16 + (2 * el_data.dnsLength)
        /\ r.c # r.udpc /\ el_data.dnsLength >= 1 /\ el_data.dnsLength < 8192 =>
             q + 1 < Base + 16 + (2 * el_data.dnsLength)
<1>a. o \in Nat /\ o >= 16 /\ q \in Nat /\ o + q < 16384 /\ q >= 68 /\ el_data.dnsLength \in Nat
  BY DEF Hears, RcvRecord
<1>b. HeardUDP(o, q) /\ HeardPayload(o, q)
  BY DEF Hears, Heard
<1>1. r.udpc = Wrap((8 * el_data.dnsLength) + 65532)
  BY <1>a, <1>b DEF HeardUDP
<1>2. el_data.dnsLength >= 1 /\ el_data.dnsLength < 8192 => q < Base + 16 + (2 * el_data.dnsLength)
  BY <1>a, <1>b DEF HeardPayload
<1> DEFINE k == q - (Base + 16)
<1>3. k \in Nat /\ k < 16383 /\ q = Base + 16 + k /\ r.c = 4 * k
  BY <1>a
<1> HIDE DEF k
<1>4. /\ 4 * k = r.udpc => el_data.dnsLength # 0 /\ (el_data.dnsLength < 8192 => k + 1 = 2 * el_data.dnsLength)
      /\ 4 * k # r.udpc /\ el_data.dnsLength >= 1 /\ el_data.dnsLength < 8192 /\ k < 2 * el_data.dnsLength
           => k + 1 < 2 * el_data.dnsLength
  BY <1>a, <1>1, <1>3, EndBit
<1> QED
  BY <1>a, <1>2, <1>3, <1>4

LEMMA DNSMsgRecordStep ==
  ASSUME NEW o, NEW q, NEW x, Hears(o, q, x), DNSMsgRecord(x)
  PROVE Step(o, q, x)
<1>a. /\ r \in RcvState /\ el_data \in RcvRecord /\ o \in Nat /\ q \in Nat
      /\ burst' = burst /\ x = burst[o + q + 1] /\ x \in Half
  BY DEF Hears
<1>b. /\ HeardMAC(o, q) /\ HeardIP(o, q) /\ HeardLength(o, q) /\ HeardFlags(o, q)
  BY DEF Hears, Heard
<1>c. HeardPorts(o, q) /\ HeardUDP(o, q) /\ HeardPayload(o, q)
  BY DEF Hears, Heard
<1>1. q >= 68 /\ r.s = "DNSMsgRecord" /\ Seat("DNSMsgRecord", Base + 16, 4, 2 * RecordBytes, q)
  BY <1>a DEF Hears, Place, PlaceIP, PlaceUDP, Seat, DNSMsgRecord
<1>2. Base \in Nat /\ Base >= 68
  BY <1>a, <1>b, <1>1, BaseIs
<1>3. q >= Base + 16 /\ q < Base + 16 + (2 * RecordBytes) /\ r.c = 4 * (q - (Base + 16))
  BY <1>a, <1>1, <1>2 DEF Seat
<1> DEFINE k == q - (Base + 16)
<1>4. k \in Nat /\ k \in RecordNibbles /\ q = Base + 16 + k /\ r.c = 4 * k
  BY <1>a, <1>2, <1>3, RecordAssumption DEF RecordNibbles
<1> HIDE DEF k
<1>5. /\ el_data' \in RcvRecord /\ el_data'.dnsPkt = [el_data.dnsPkt EXCEPT ![k] = x]
      /\ el_data'.dstMAC = el_data.dstMAC /\ el_data'.srcMAC = el_data.srcMAC
      /\ el_data'.srcIP = el_data.srcIP /\ el_data'.dstIP = el_data.dstIP
      /\ el_data'.ipHeaderLength = el_data.ipHeaderLength
      /\ el_data'.ipLength = el_data.ipLength /\ el_data'.srcPort = el_data.srcPort
      /\ el_data'.dstPort = el_data.dstPort /\ el_data'.dnsLength = el_data.dnsLength
  <2>1. Store("dnsPkt", x)
    BY DEF DNSMsgRecord
  <2> QED
    BY <1>a, <1>4, <2>1, Store_dnsPkt
<1>6. Base' = Base
  BY <1>5, BaseSame
<1>7. /\ r' \in RcvState /\ r'.udpc = r.udpc
      /\ r.c = r.udpc => r'.s = "Notify"
      /\ r.c # r.udpc => r'.c = r.c + 4 /\ r'.s = IF r.c = (8 * RecordBytes) - 4 THEN "DNSMsgDiscard" ELSE "DNSMsgRecord"
  <2>1. CASE r.c = r.udpc
    <3>1. Go("Notify", 0) /\ "Notify" \in RcvNames
      BY <2>1 DEF DNSMsgRecord, RcvNames
    <3> QED
      BY <1>a, <2>1, <3>1, GoFacts
  <2>2. CASE r.c # r.udpc
    <3> DEFINE st == IF r.c = (8 * RecordBytes) - 4 THEN "DNSMsgDiscard" ELSE r.s
    <3>1. Go(st, r.c + 4)
      BY <2>2 DEF DNSMsgRecord
    <3>2. st \in RcvNames /\ st = IF r.c = (8 * RecordBytes) - 4 THEN "DNSMsgDiscard" ELSE "DNSMsgRecord"
      BY <1>1 DEF RcvNames
    <3>3. r.c + 4 \in Nat
      BY <1>4
    <3> HIDE DEF st
    <3> QED
      BY <1>a, <2>2, <3>1, <3>2, <3>3, GoFacts
  <2> QED
    BY <2>1, <2>2
<1>8. Place(q + 1)'
  <2>1. CASE r.c = r.udpc
    BY <1>a, <1>1, <1>2, <1>3, <1>6, <1>7, <2>1 DEF Place, PlaceUDP
  <2>2. CASE r.c # r.udpc /\ r.c = (8 * RecordBytes) - 4
    <3>1. k = (2 * RecordBytes) - 1
      BY <1>4, <2>2, RecordAssumption
    <3>2. q + 1 >= Base' + 16 + (2 * RecordBytes) /\ r'.c = 4 * (q + 1 - (Base' + 16))
      BY <1>a, <1>2, <1>4, <1>6, <1>7, <2>2, <3>1, RecordAssumption
    <3>3. r'.s = "DNSMsgDiscard"
      BY <1>7, <2>2
    <3> QED
      BY <1>a, <1>1, <1>2, <1>6, <3>2, <3>3 DEF Place, PlaceUDP
  <2>3. CASE r.c # r.udpc /\ r.c # (8 * RecordBytes) - 4
    <3>1. k # (2 * RecordBytes) - 1
      BY <1>4, <2>3, RecordAssumption
    <3>2. q + 1 >= Base' + 16 /\ q + 1 < Base' + 16 + (2 * RecordBytes) /\ r'.c = 4 * (q + 1 - (Base' + 16))
      BY <1>a, <1>2, <1>3, <1>4, <1>6, <1>7, <2>3, <3>1, RecordAssumption
    <3>3. r'.s = "DNSMsgRecord"
      BY <1>7, <2>3
    <3>4. Seat("DNSMsgRecord", Base + 16, 4, 2 * RecordBytes, q + 1)'
      BY <1>a, <1>2, <1>6, <3>2, <3>3, RecordAssumption DEF Seat
    <3> QED
      BY <1>a, <1>1, <3>4 DEF Place, PlaceUDP
  <2> QED
    BY <2>1, <2>2, <2>3
<1>9. HeardPayload(o, q + 1)'
  <2>1. ASSUME NEW i \in RecordNibbles
        PROVE el_data'.dnsPkt[i] = IF i < q + 1 - (Base' + 16) THEN burst'[o + Base' + 17 + i] ELSE 0
    <3>0. i \in Nat /\ el_data.dnsPkt[i] = IF i < k THEN burst[o + Base + 17 + i] ELSE 0
      BY <1>a, <1>c, <1>1, <1>3, RecordAssumption DEF HeardPayload, RecordNibbles, k
    <3>1. CASE i = k
      <4>1. el_data'.dnsPkt[i] = x
        BY <1>a, <1>4, <1>5, <3>1 DEF RcvRecord
      <4>2. o + Base + 17 + i = o + q + 1 /\ i < q + 1 - (Base + 16)
        BY <1>a, <1>2, <1>4, <3>1
      <4> QED
        BY <1>a, <1>6, <4>1, <4>2
    <3>2. CASE i # k
      <4>1. el_data'.dnsPkt[i] = el_data.dnsPkt[i]
        BY <1>a, <1>4, <1>5, <3>2 DEF RcvRecord
      <4>2. i < k <=> i < q + 1 - (Base + 16)
        BY <1>a, <1>2, <1>4, <3>0, <3>2
      <4> QED
        BY <1>a, <1>6, <3>0, <4>1, <4>2
    <3> QED
      BY <3>1, <3>2
  <2>2. /\ r.c = r.udpc =>
             /\ el_data.dnsLength # 0
             /\ el_data.dnsLength < 8192 => q + 1 = Base + 16 + (2 * el_data.dnsLength)
        /\ r.c # r.udpc /\ el_data.dnsLength >= 1 /\ el_data.dnsLength < 8192 =>
             q + 1 < Base + 16 + (2 * el_data.dnsLength)
    BY <1>1, <1>2, <1>3, PayloadBit
  <2>3. r'.s = "Notify" <=> r.c = r.udpc
    BY <1>7
  <2> QED
    BY <1>a, <1>2, <1>5, <1>6, <2>1, <2>2, <2>3 DEF HeardPayload
<1>10. HeardMAC(o, q + 1)' /\ HeardIP(o, q + 1)' /\ HeardLength(o, q + 1)' /\ HeardFlags(o, q + 1)'
  <2>0. q >= 28
    BY <1>a, <1>1, <1>5
  <2>1. HeardMAC(o, q + 1)'
    BY <1>a, <1>b, <1>1, <1>5, <2>0, KeepMAC
  <2>2. HeardIP(o, q + 1)'
    BY <1>a, <1>b, <1>1, <1>5, KeepIP
  <2>3. HeardLength(o, q + 1)'
    BY <1>a, <1>b, <1>1, <1>5, KeepLength
  <2>4. HeardFlags(o, q + 1)'
    BY <1>a, <1>b, <1>1, <1>5, KeepFlags
  <2> QED
    BY <2>1, <2>2, <2>3, <2>4
<1>11. HeardPorts(o, q + 1)' /\ HeardUDP(o, q + 1)'
  <2>1. HeardPorts(o, q + 1)'
    BY <1>a, <1>c, <1>1, <1>2, <1>3, <1>5, <1>6, <1>7, KeepPorts
  <2>2. HeardUDP(o, q + 1)'
    BY <1>a, <1>c, <1>1, <1>2, <1>3, <1>5, <1>6, <1>7, KeepUDP
  <2> QED
    BY <2>1, <2>2
<1> QED
  BY <1>a, <1>5, <1>7, <1>8, <1>9, <1>10, <1>11 DEF Step, Heard

LEMMA DNSMsgDiscardStep ==
  ASSUME NEW o, NEW q, NEW x, Hears(o, q, x), DNSMsgDiscard(x)
  PROVE Step(o, q, x)
<1>a. /\ r \in RcvState /\ el_data \in RcvRecord /\ o \in Nat /\ q \in Nat
      /\ burst' = burst /\ x = burst[o + q + 1] /\ x \in Half
  BY DEF Hears
<1>b. /\ HeardMAC(o, q) /\ HeardIP(o, q) /\ HeardLength(o, q) /\ HeardFlags(o, q)
  BY DEF Hears, Heard
<1>c. HeardPorts(o, q) /\ HeardUDP(o, q) /\ HeardPayload(o, q)
  BY DEF Hears, Heard
<1>1. /\ q >= 68 /\ r.s = "DNSMsgDiscard" /\ q >= Base + 16 + (2 * RecordBytes)
      /\ r.c = 4 * (q - (Base + 16))
  BY <1>a DEF Hears, Place, PlaceIP, PlaceUDP, Seat, DNSMsgDiscard
<1>2. Base \in Nat /\ Base >= 68
  BY <1>a, <1>b, <1>1, BaseIs
<1>3. q >= Base + 16
  BY <1>a, <1>1, <1>2, RecordAssumption
<1>4. el_data' = el_data /\ Count(r.udpc, 4, "Notify")
  BY DEF DNSMsgDiscard
<1>5. Base' = Base
  BY <1>4, BaseSame
<1>6. /\ r' \in RcvState /\ r'.udpc = r.udpc
      /\ r.c = r.udpc => r'.s = "Notify"
      /\ r.c # r.udpc => r'.c = r.c + 4 /\ r'.s = "DNSMsgDiscard"
  <2>1. "Notify" \in RcvNames
    BY DEF RcvNames
  <2> QED
    BY <1>a, <1>1, <1>4, <2>1, CountFacts
<1>7. Place(q + 1)'
  <2>1. CASE r.c = r.udpc
    BY <1>a, <1>1, <1>2, <1>3, <1>5, <1>6, <2>1 DEF Place, PlaceUDP
  <2>2. CASE r.c # r.udpc
    <3>1. q + 1 >= Base' + 16 + (2 * RecordBytes) /\ r'.c = 4 * (q + 1 - (Base' + 16)) /\ r'.s = "DNSMsgDiscard"
      BY <1>a, <1>1, <1>2, <1>5, <1>6, <2>2, RecordAssumption
    <3> QED
      BY <1>a, <1>1, <1>2, <1>5, <3>1 DEF Place, PlaceUDP
  <2> QED
    BY <2>1, <2>2
<1>8. HeardPayload(o, q + 1)'
  <2>1. ASSUME NEW i \in RecordNibbles
        PROVE el_data'.dnsPkt[i] = IF i < q + 1 - (Base' + 16) THEN burst'[o + Base' + 17 + i] ELSE 0
    <3>1. el_data.dnsPkt[i] = IF i < q - (Base + 16) THEN burst[o + Base + 17 + i] ELSE 0
      BY <1>a, <1>c, <1>1, <1>3 DEF HeardPayload
    <3>2. i < q - (Base + 16) /\ i < q + 1 - (Base + 16)
      BY <1>a, <1>1, <1>2, RecordAssumption DEF RecordNibbles
    <3> QED
      BY <1>a, <1>4, <1>5, <3>1, <3>2
  <2>2. /\ r.c = r.udpc =>
             /\ el_data.dnsLength # 0
             /\ el_data.dnsLength < 8192 => q + 1 = Base + 16 + (2 * el_data.dnsLength)
        /\ r.c # r.udpc /\ el_data.dnsLength >= 1 /\ el_data.dnsLength < 8192 =>
             q + 1 < Base + 16 + (2 * el_data.dnsLength)
    BY <1>1, <1>2, <1>3, PayloadBit
  <2>3. r'.s = "Notify" <=> r.c = r.udpc
    BY <1>6
  <2> QED
    BY <1>a, <1>2, <1>4, <1>5, <2>1, <2>2, <2>3 DEF HeardPayload
<1>9. HeardMAC(o, q + 1)' /\ HeardIP(o, q + 1)' /\ HeardLength(o, q + 1)' /\ HeardFlags(o, q + 1)'
  <2>0. q >= 28
    BY <1>a, <1>1, <1>4
  <2>1. HeardMAC(o, q + 1)'
    BY <1>a, <1>b, <1>1, <1>4, <2>0, KeepMAC
  <2>2. HeardIP(o, q + 1)'
    BY <1>a, <1>b, <1>1, <1>4, KeepIP
  <2>3. HeardLength(o, q + 1)'
    BY <1>a, <1>b, <1>1, <1>4, KeepLength
  <2>4. HeardFlags(o, q + 1)'
    BY <1>a, <1>b, <1>1, <1>4, KeepFlags
  <2> QED
    BY <2>1, <2>2, <2>3, <2>4
<1>10. HeardPorts(o, q + 1)' /\ HeardUDP(o, q + 1)'
  <2>1. HeardPorts(o, q + 1)'
    BY <1>a, <1>c, <1>1, <1>2, <1>3, <1>4, <1>5, <1>6, KeepPorts
  <2>2. HeardUDP(o, q + 1)'
    BY <1>a, <1>c, <1>1, <1>2, <1>3, <1>4, <1>5, <1>6, KeepUDP
  <2> QED
    BY <2>1, <2>2
<1> QED
  BY <1>a, <1>4, <1>6, <1>7, <1>8, <1>9, <1>10 DEF Step, Heard

\* The nibbles of a frame, one handler for each.
LEMMA InFrame ==
  ASSUME NEW o, NEW q, NEW x, Hears(o, q, x), rcv_nsl(x), r.s # "Notify"
  PROVE Step(o, q, x)
<1>1. r.s # "Preamble" /\ r.s # "StartOfFrame"
  BY DEF Hears, Place, PlaceIP, PlaceUDP, Seat
<1>2. CASE StoreField(x)
  <2>1. r.s \in {"EtherMACDST", "EtherMACSRC", "IPAddrSRC", "UDPPortSRC"}
    BY <1>2 DEF StoreField, Stored
  <2> QED
    BY <1>2, <2>1, EtherMACDSTStep, EtherMACSRCStep, IPAddrSRCStep, UDPPortSRCStep
<1>3. CASE PassOver(x)
  <2>1. r.s \in {"IPTTL", "IPChecksum", "IPOptions"}
    BY <1>3 DEF PassOver
  <2> QED
    BY <1>3, <2>1, IPTTLStep, IPChecksumStep, IPOptionsStep
<1>4. CASE EtherType(x)
  BY <1>4, EtherTypeStep
<1>5. CASE IPIHL(x) \/ IPVersion(x) \/ IPDSCPECN(x)
  BY <1>5, IPIHLStep, IPVersionStep, IPDSCPECNStep
<1>6. CASE IPLength(x) \/ IPID(x) \/ IPFlagsFragment(x)
  BY <1>6, IPLengthStep, IPIDStep, IPFlagsFragmentStep
<1>7. CASE IPProtocol(x) \/ IPAddrDST(x) \/ UDPPortDST(x)
  BY <1>7, IPProtocolStep, IPAddrDSTStep, UDPPortDSTStep
<1>8. CASE UDPLength(x) \/ UDPChecksum(x)
  BY <1>8, UDPLengthStep, UDPChecksumStep
<1>9. CASE DNSMsgRecord(x) \/ DNSMsgDiscard(x)
  BY <1>9, DNSMsgRecordStep, DNSMsgDiscardStep
<1>10. ~Preamble(x) /\ ~StartOfFrame(x) /\ ~Notify(x)
  BY <1>1 DEF Preamble, StartOfFrame, Notify
<1> QED
  BY <1>2, <1>3, <1>4, <1>5, <1>6, <1>7, <1>8, <1>9, <1>10 DEF rcv_nsl

-------------------------------------------------------------------------------
(* What the receiver heard is what a reader of the nibbles w finds in them.   *)

Reads(w, o, q) == /\ w \in Seq(Half) /\ o \in Nat /\ q \in Nat /\ Len(w) >= q
                  /\ \A i \in Nat : i >= 1 /\ i <= q => w[i] = burst[o + i]

LEMMA ReadNibble ==
  ASSUME NEW w, NEW o, NEW q, Reads(w, o, q), NEW i \in Nat, i >= 1, i <= q
  PROVE w[i] = burst[o + i] /\ w[i] \in Half /\ w[i] \in Nat /\ w[i] <= 15
<1>1. w \in Seq(Half) /\ q \in Nat /\ Len(w) >= q /\ w[i] = burst[o + i]
  BY DEF Reads
<1>2. w[i] \in Half
  BY <1>1
<1> QED
  BY <1>1, <1>2, SMTT(30) DEF Half

\* The UDP header is found where the receiver looks for it.
LEMMA HeaderIs ==
  ASSUME NEW w, NEW o, NEW q, Reads(w, o, q), el_data \in RcvRecord, HeardIP(o, q), q >= 68
  PROVE /\ Base \in Nat /\ Base >= 68 /\ w[29] = el_data.ipHeaderLength /\ w[29] \in Nat /\ w[29] >= 5
        /\ UDPHeader(w) = Base + 1 /\ PayloadFrom(w) = Base + 17
<1>1. o \in Nat /\ q \in Nat /\ q >= 29
  BY DEF Reads
<1>2. burst[o + 29] >= 5 /\ el_data.ipHeaderLength = burst[o + 29]
  BY <1>1 DEF HeardIP
<1>3. PICK j \in Nat : j = 29
  OBVIOUS
<1>4. w[j] = burst[o + j] /\ w[j] \in Nat
  BY <1>1, <1>3, ReadNibble
<1>5. w[29] = el_data.ipHeaderLength /\ w[29] \in Nat /\ w[29] >= 5
  BY <1>2, <1>3, <1>4
<1>6. UDPHeader(w) = Base + 1
  BY <1>5 DEF UDPHeader, Base
<1>7. Base \in Nat /\ Base >= 68
  BY <1>1, BaseIs
<1> QED
  BY <1>5, <1>6, <1>7 DEF PayloadFrom

\* So is the length.
LEMMA BytesAre ==
  ASSUME NEW w, NEW o, NEW q, Reads(w, o, q), el_data \in RcvRecord, HeardIP(o, q), HeardUDP(o, q),
         q >= 68, q >= Base + 16
  PROVE /\ UDPBytes(w) \in Nat /\ UDPBytes(w) < 65536 /\ el_data.dnsLength = Wrap(UDPBytes(w) + 65528)
        /\ UDPBytes(w) >= 8 => el_data.dnsLength = UDPBytes(w) - 8
        /\ UDPBytes(w) < 8 => el_data.dnsLength >= 65528
<1>a. o \in Nat /\ q \in Nat
  BY DEF Reads
<1>1. Base \in Nat /\ Base >= 68 /\ UDPHeader(w) = Base + 1
  BY HeaderIs
<1>2. \A j \in Nat : j <= 3 => /\ w[Base + 9 + j] = burst[o + Base + 9 + j]
                               /\ w[Base + 9 + j] \in Nat /\ w[Base + 9 + j] <= 15
  <2> TAKE j \in Nat
  <2> HAVE j <= 3
  <2>1. /\ Base + 9 + j \in Nat /\ Base + 9 + j >= 1 /\ Base + 9 + j <= q
        /\ o + (Base + 9 + j) = o + Base + 9 + j
    BY <1>a, <1>1
  <2> QED
    BY <2>1, ReadNibble
<1>3. PICK a, b, c, d : /\ a = w[Base + 9] /\ b = w[Base + 10] /\ c = w[Base + 11] /\ d = w[Base + 12]
  OBVIOUS
<1>4. /\ a \in Nat /\ b \in Nat /\ c \in Nat /\ d \in Nat
      /\ a <= 15 /\ b <= 15 /\ c <= 15 /\ d <= 15
      /\ a = burst[o + Base + 9] /\ b = burst[o + Base + 9 + 1]
      /\ c = burst[o + Base + 9 + 2] /\ d = burst[o + Base + 9 + 3]
  <2>1. /\ 0 \in Nat /\ 1 \in Nat /\ 2 \in Nat /\ 3 \in Nat
        /\ Base + 9 + 0 = Base + 9 /\ Base + 9 + 1 = Base + 10
        /\ Base + 9 + 2 = Base + 11 /\ Base + 9 + 3 = Base + 12 /\ o + Base + 9 + 0 = o + Base + 9
    BY <1>a, <1>1
  <2>2. a \in Nat /\ a <= 15 /\ a = burst[o + Base + 9]
    BY <1>2, <1>3, <2>1
  <2>3. b \in Nat /\ b <= 15 /\ b = burst[o + Base + 9 + 1]
    BY <1>2, <1>3, <2>1
  <2>4. c \in Nat /\ c <= 15 /\ c = burst[o + Base + 9 + 2]
    BY <1>2, <1>3, <2>1
  <2>5. d \in Nat /\ d <= 15 /\ d = burst[o + Base + 9 + 3]
    BY <1>2, <1>3, <2>1
  <2> QED
    BY <2>2, <2>3, <2>4, <2>5
<1> DEFINE L == ((a + (16 * b)) * 256) + c + (16 * d)
<1>5. UDPBytes(w) = L
  <2> DEFINE f == Field(w, Base + 9, 4)
  <2>1. f[0] = a /\ f[1] = b /\ f[2] = c /\ f[3] = d
    BY <1>1, <1>3 DEF Field
  <2>2. UDPBytes(w) = Number(f)
    <3>1. UDPHeader(w) + 8 = Base + 9
      BY <1>1
    <3> QED
      BY <3>1 DEF UDPBytes
  <2> HIDE DEF f
  <2> QED
    BY <2>1, <2>2 DEF Number
<1>6. L = LengthAt(o + Base + 9)
  BY <1>4 DEF LengthAt
<1>7. L \in Nat /\ L < 65536
  BY <1>4
<1> HIDE DEF L
<1>8. el_data.dnsLength = Wrap(L + 65528)
  BY <1>a, <1>1, <1>6 DEF HeardUDP
<1>9. L >= 8 => Wrap(L + 65528) = L - 8
  <2>1. L >= 8 => L - 8 \in Nat /\ L - 8 < 65536 /\ L + 65528 = (L - 8) + 65536
    BY <1>7
  <2> QED
    BY <2>1 DEF Wrap
<1>10. L < 8 => Wrap(L + 65528) = L + 65528
  <2>1. L < 8 => L + 65528 \in Nat /\ L + 65528 < 65536
    BY <1>7
  <2> QED
    BY <2>1, WrapFacts
<1> QED
  BY <1>5, <1>7, <1>8, <1>9, <1>10

\* A record that is complete is the one the nibbles spell.
LEMMA RecordAt ==
  ASSUME NEW w, NEW o, NEW q, Reads(w, o, q), el_data \in RcvRecord, Place(q), Heard(o, q),
         r.s = "Notify", el_data.dnsLength < 8192
  PROVE Complete(w) /\ LastNibble(w) = q /\ Record(w) = el_data
<1>a. w \in Seq(Half) /\ o \in Nat /\ q \in Nat /\ Len(w) >= q
  BY DEF Reads
<1>b. /\ HeardMAC(o, q) /\ HeardIP(o, q) /\ HeardLength(o, q) /\ HeardFlags(o, q)
      /\ HeardPorts(o, q) /\ HeardUDP(o, q) /\ HeardPayload(o, q)
  BY DEF Heard
<1>m. HeardMAC(o, q) /\ q \in Nat
  BY <1>a, <1>b
<1>i. HeardIP(o, q) /\ q \in Nat
  BY <1>a, <1>b
<1>1. q >= 68 /\ q > Base + 16
  BY DEF Place, PlaceIP, PlaceUDP, Seat
<1>2. /\ Base \in Nat /\ Base >= 68 /\ w[29] = el_data.ipHeaderLength /\ w[29] \in Nat /\ w[29] >= 5
      /\ UDPHeader(w) = Base + 1 /\ PayloadFrom(w) = Base + 17
  BY <1>b, <1>1, HeaderIs
<1>c. q >= 85 /\ q >= Base + 16
  BY <1>a, <1>1, <1>2
<1>3. /\ UDPBytes(w) \in Nat
      /\ UDPBytes(w) >= 8 => el_data.dnsLength = UDPBytes(w) - 8
      /\ UDPBytes(w) < 8 => el_data.dnsLength >= 65528
  BY <1>b, <1>c, <1>1, BytesAre
<1>4. el_data.dnsLength \in Nat /\ el_data.dnsLength # 0 /\ q = Base + 16 + (2 * el_data.dnsLength)
  BY <1>b, <1>c, <1>1 DEF HeardPayload, RcvRecord
<1>5. UDPBytes(w) > 8 /\ el_data.dnsLength = UDPBytes(w) - 8
  BY <1>3, <1>4
<1>6. LastNibble(w) = q
  BY <1>2, <1>3, <1>4, <1>5 DEF LastNibble
<1>7. \A i \in Nat : i >= 1 /\ i <= q => w[i] = burst[o + i]
  BY ReadNibble
<1>8. IsUDP(w)
  <2>1. \A i \in 25 .. 28 : w[i] = IF i = 25 THEN 8 ELSE 0
    <3>1. \A i \in 25 .. 28 : burst[o + i] = IF i = 25 THEN 8 ELSE 0
      BY <1>m, <1>c DEF HeardMAC
    <3> QED
      BY <1>a, <1>c, <1>7, <3>1
  <2>2. \A i \in 41 .. 44 : w[i] = 0
    BY <1>a, <1>b, <1>c, <1>7 DEF HeardFlags
  <2>3. \A i \in 47 .. 48 : w[i] = 1
    BY <1>a, <1>b, <1>c, <1>7 DEF HeardFlags
  <2>4. w[30] = 4
    <3>1. burst[o + 30] = 4
      BY <1>i, <1>c DEF HeardIP
    <3> QED
      BY <1>a, <1>c, <1>7, <3>1
  <2>5. SubSeq(w, 25, 28) = <<w[25], w[25 + 1], w[25 + 2], w[25 + 3]>>
    BY <1>a, <1>c, FourIs
  <2>6. SubSeq(w, 41, 44) = <<w[41], w[41 + 1], w[41 + 2], w[41 + 3]>>
    BY <1>a, <1>c, FourIs
  <2>7. SubSeq(w, 47, 48) = <<w[47], w[47 + 1]>>
    BY <1>a, <1>c, TwoIs
  <2>8. SubSeq(w, 25, 28) = <<8, 0, 0, 0>>
    BY <2>1, <2>5
  <2>9. SubSeq(w, 41, 44) = <<0, 0, 0, 0>>
    BY <2>2, <2>6
  <2>10. SubSeq(w, 47, 48) = <<1, 1>>
    BY <2>3, <2>7
  <2> QED
    BY <1>2, <2>4, <2>8, <2>9, <2>10 DEF IsUDP
<1>9. Complete(w)
  BY <1>a, <1>c, <1>1, <1>2, <1>3, <1>5, <1>6, <1>8 DEF Complete
<1>10. Field(w, 1, 12) = el_data.dstMAC
  <2>1. el_data.dstMAC \in [0 .. 11 -> Half]
    BY DEF RcvRecord
  <2>2. ASSUME NEW i \in 0 .. 11 PROVE w[1 + i] = el_data.dstMAC[i]
    <3>1. 1 + i \in Nat /\ 1 + i >= 1 /\ 1 + i <= q /\ o + (1 + i) = o + 1 + i
      BY <1>a, <1>c, <1>2
    <3>2. w[1 + i] = burst[o + 1 + i]
      BY <1>7, <3>1
    <3> QED
      BY <1>m, <1>c, <1>1, <3>1, <3>2 DEF HeardMAC
  <2>3. Field(w, 1, 12) = [i \in 0 .. 11 |-> w[1 + i]]
    BY DEF Field
  <2>4. el_data.dstMAC = [i \in 0 .. 11 |-> el_data.dstMAC[i]]
    BY <2>1
  <2> QED
    BY <2>2, <2>3, <2>4
<1>11. Field(w, 13, 12) = el_data.srcMAC
  <2>1. el_data.srcMAC \in [0 .. 11 -> Half]
    BY DEF RcvRecord
  <2>2. ASSUME NEW i \in 0 .. 11 PROVE w[13 + i] = el_data.srcMAC[i]
    <3>1. 13 + i \in Nat /\ 13 + i >= 1 /\ 13 + i <= q /\ o + (13 + i) = o + 13 + i
      BY <1>a, <1>c, <1>2
    <3>2. w[13 + i] = burst[o + 13 + i]
      BY <1>7, <3>1
    <3> QED
      BY <1>m, <1>c, <1>1, <3>1, <3>2 DEF HeardMAC
  <2>3. Field(w, 13, 12) = [i \in 0 .. 11 |-> w[13 + i]]
    BY DEF Field
  <2>4. el_data.srcMAC = [i \in 0 .. 11 |-> el_data.srcMAC[i]]
    BY <2>1
  <2> QED
    BY <2>2, <2>3, <2>4
<1>12. Field(w, 53, 8) = el_data.srcIP
  <2>1. el_data.srcIP \in [0 .. 7 -> Half]
    BY DEF RcvRecord
  <2>2. ASSUME NEW i \in 0 .. 7 PROVE w[53 + i] = el_data.srcIP[i]
    <3>1. 53 + i \in Nat /\ 53 + i >= 1 /\ 53 + i <= q /\ o + (53 + i) = o + 53 + i
      BY <1>a, <1>c, <1>2
    <3>2. w[53 + i] = burst[o + 53 + i]
      BY <1>7, <3>1
    <3> QED
      BY <1>i, <1>c, <1>1, <3>1, <3>2 DEF HeardIP
  <2>3. Field(w, 53, 8) = [i \in 0 .. 7 |-> w[53 + i]]
    BY DEF Field
  <2>4. el_data.srcIP = [i \in 0 .. 7 |-> el_data.srcIP[i]]
    BY <2>1
  <2> QED
    BY <2>2, <2>3, <2>4
<1>13. Field(w, 61, 8) = el_data.dstIP
  <2>1. el_data.dstIP \in [0 .. 7 -> Half]
    BY DEF RcvRecord
  <2>2. ASSUME NEW i \in 0 .. 7 PROVE w[61 + i] = el_data.dstIP[i]
    <3>1. 61 + i \in Nat /\ 61 + i >= 1 /\ 61 + i <= q /\ o + (61 + i) = o + 61 + i
      BY <1>a, <1>c, <1>2
    <3>2. w[61 + i] = burst[o + 61 + i]
      BY <1>7, <3>1
    <3> QED
      BY <1>i, <1>c, <1>1, <3>1, <3>2 DEF HeardIP
  <2>3. Field(w, 61, 8) = [i \in 0 .. 7 |-> w[61 + i]]
    BY DEF Field
  <2>4. el_data.dstIP = [i \in 0 .. 7 |-> el_data.dstIP[i]]
    BY <2>1
  <2> QED
    BY <2>2, <2>3, <2>4
<1>14. Field(w, Base + 1, 4) = el_data.srcPort
  <2>1. el_data.srcPort \in [0 .. 3 -> Half]
    BY DEF RcvRecord
  <2>2. ASSUME NEW i \in 0 .. 3 PROVE w[Base + 1 + i] = el_data.srcPort[i]
    <3>1. Base + 1 + i \in Nat /\ Base + 1 + i >= 1 /\ Base + 1 + i <= q /\ o + (Base + 1 + i) = o + Base + 1 + i
      BY <1>a, <1>c, <1>2
    <3>2. w[Base + 1 + i] = burst[o + Base + 1 + i]
      BY <1>7, <3>1
    <3> QED
      BY <1>a, <1>b, <1>c, <1>1, <3>1, <3>2 DEF HeardPorts
  <2>3. Field(w, Base + 1, 4) = [i \in 0 .. 3 |-> w[Base + 1 + i]]
    BY DEF Field
  <2>4. el_data.srcPort = [i \in 0 .. 3 |-> el_data.srcPort[i]]
    BY <2>1
  <2> QED
    BY <2>2, <2>3, <2>4
<1>15. Field(w, Base + 5, 4) = el_data.dstPort
  <2>1. el_data.dstPort \in [0 .. 3 -> Half]
    BY DEF RcvRecord
  <2>2. ASSUME NEW i \in 0 .. 3 PROVE w[Base + 5 + i] = el_data.dstPort[i]
    <3>1. Base + 5 + i \in Nat /\ Base + 5 + i >= 1 /\ Base + 5 + i <= q /\ o + (Base + 5 + i) = o + Base + 5 + i
      BY <1>a, <1>c, <1>2
    <3>2. w[Base + 5 + i] = burst[o + Base + 5 + i]
      BY <1>7, <3>1
    <3> QED
      BY <1>a, <1>b, <1>c, <1>1, <3>1, <3>2 DEF HeardPorts
  <2>3. Field(w, Base + 5, 4) = [i \in 0 .. 3 |-> w[Base + 5 + i]]
    BY DEF Field
  <2>4. el_data.dstPort = [i \in 0 .. 3 |-> el_data.dstPort[i]]
    BY <2>1
  <2> QED
    BY <2>2, <2>3, <2>4
<1>16. Shifted(Field(w, 33, 4)) = el_data.ipLength
  <2> DEFINE f == Field(w, 33, 4)
  <2>1. f[0] = w[33] /\ f[1] = w[34] /\ f[2] = w[35] /\ f[3] = w[36]
    BY DEF Field
  <2>2. w[33] = burst[o + 33] /\ w[34] = burst[o + 34] /\ w[35] = burst[o + 35] /\ w[36] = burst[o + 36]
    BY <1>a, <1>c, <1>7
  <2>3. el_data.ipLength = (burst[o + 33] * 4096) + (burst[o + 34] * 256)
                             + (burst[o + 35] * 16) + burst[o + 36]
    BY <1>a, <1>b, <1>c DEF HeardLength
  <2> HIDE DEF f
  <2>4. Shifted(f) = el_data.ipLength
    BY <2>1, <2>2, <2>3 DEF Shifted
  <2> QED
    BY <2>4 DEF f
<1> DEFINE p == [i \in RecordNibbles |->
                   IF PayloadFrom(w) + i <= LastNibble(w) THEN w[PayloadFrom(w) + i] ELSE 0]
<1>17. p = el_data.dnsPkt
  <2>1. ASSUME NEW i \in RecordNibbles
        PROVE (IF PayloadFrom(w) + i <= LastNibble(w) THEN w[PayloadFrom(w) + i] ELSE 0) = el_data.dnsPkt[i]
    <3>1. i \in Nat
      BY RecordAssumption DEF RecordNibbles
    <3>2. el_data.dnsPkt[i] = IF i < q - (Base + 16) THEN burst[o + Base + 17 + i] ELSE 0
      BY <1>a, <1>b, <1>c, <1>1 DEF HeardPayload
    <3>3. PayloadFrom(w) + i <= LastNibble(w) <=> i < q - (Base + 16)
      BY <1>a, <1>2, <1>6, <3>1
    <3>4. ASSUME i < q - (Base + 16)
          PROVE w[PayloadFrom(w) + i] = burst[o + Base + 17 + i]
      <4>1. /\ Base + 17 + i \in Nat /\ Base + 17 + i >= 1 /\ Base + 17 + i <= q
            /\ o + (Base + 17 + i) = o + Base + 17 + i
        BY <1>a, <1>2, <3>1, <3>4
      <4> QED
        BY <1>2, <1>7, <4>1
    <3> QED
      BY <3>2, <3>3, <3>4
  <2>2. el_data.dnsPkt = [i \in RecordNibbles |-> el_data.dnsPkt[i]]
    BY DEF RcvRecord
  <2> QED
    BY <2>1, <2>2
<1>18. UDPHeader(w) + 4 = Base + 5
  BY <1>2
<1>19. Record(w) = [dstMAC |-> el_data.dstMAC, srcMAC |-> el_data.srcMAC,
                    ipHeaderLength |-> el_data.ipHeaderLength, ipLength |-> el_data.ipLength,
                    srcIP |-> el_data.srcIP, dstIP |-> el_data.dstIP,
                    srcPort |-> el_data.srcPort, dstPort |-> el_data.dstPort,
                    dnsLength |-> el_data.dnsLength, dnsPkt |-> p]
  BY <1>2, <1>5, <1>10, <1>11, <1>12, <1>13, <1>14, <1>15, <1>16, <1>18 DEF Record
<1> HIDE DEF p
<1>20. Record(w) = el_data
  BY <1>17, <1>19 DEF RcvRecord
<1> QED
  BY <1>6, <1>9, <1>20

-------------------------------------------------------------------------------
(* The steps of the receiver.                                                 *)

LEMMA BurstFacts ==
  ASSUME RcvTypes
  PROVE /\ burst \in Seq(Half) /\ Len(burst) \in Nat /\ Len(burst) <= 16384
        /\ pos \in Nat /\ pos <= Len(burst)
<1>1. burst \in Seq(Half) /\ Len(burst) <= 16384 /\ pos \in 0 .. Len(burst)
  BY BurstAssumption DEF RcvTypes
<1> QED
  BY <1>1

LEMMA TrackHears ==
  ASSUME RcvTypes, NEW o, Track(o), pos < Len(burst), burst' = burst
  PROVE Hears(o, pos - o, burst[pos + 1])
<1>1. /\ burst \in Seq(Half) /\ Len(burst) \in Nat /\ Len(burst) <= 16384
      /\ pos \in Nat
  BY BurstFacts
<1>2. o \in Nat /\ o >= 16 /\ o <= pos /\ Place(pos - o) /\ Heard(o, pos - o)
  BY <1>1 DEF Track
<1>3. pos - o \in Nat /\ o + (pos - o) < 16384 /\ o + (pos - o) + 1 = pos + 1
  BY <1>1, <1>2
<1>4. \A i \in Nat : i >= 1 /\ i <= Len(burst) => burst[i] \in Half /\ burst[i] \in Nat /\ burst[i] <= 15
  <2>1. \A i \in Nat : i >= 1 /\ i <= Len(burst) => burst[i] \in Half
    BY <1>1
  <2> QED
    BY <2>1 DEF Half
<1>5. Numeric(o, pos - o)
  BY <1>1, <1>2, <1>4 DEF Numeric
<1>6. burst[pos + 1] \in Half
  BY <1>1, <1>4
<1> QED
  BY <1>2, <1>3, <1>5, <1>6 DEF Hears, RcvTypes

LEMMA TrackNext ==
  ASSUME RcvTypes, Carrier, NEW o, Track(o), r.s # "Notify", NEW q, q = pos - o
  PROVE /\ r' \in RcvState /\ el_data' \in RcvRecord
        /\ (GivesUp /\ Wrong(q + 1, burst[pos + 1])) \/ Track(o)'
<1>1. pos < Len(burst) /\ pos' = pos + 1 /\ rcv_nsl(burst[pos + 1]) /\ burst' = burst
  BY DEF Carrier
<1>2. PICK x : x = burst[pos + 1]
  OBVIOUS
<1>3. Hears(o, q, x) /\ rcv_nsl(x)
  BY <1>1, <1>2, TrackHears
<1>4. Step(o, q, x)
  BY <1>3, InFrame
<1>5. pos \in Nat /\ o \in Nat /\ o >= 16 /\ o <= pos /\ Started(o)
  BY BurstFacts DEF Track
<1>6. q + 1 = pos' - o /\ o \in 16 .. pos'
  BY <1>1, <1>5
<1>7. Started(o)'
  BY <1>1, <1>5 DEF Started
<1>8. ASSUME Place(q + 1)', Heard(o, q + 1)'
      PROVE Track(o)'
  <2>1. Place(pos - o)' /\ Heard(o, pos - o)'
    BY <1>6, <1>8
  <2> QED
    BY <1>6, <1>7, <2>1 DEF Track
<1> QED
  BY <1>2, <1>4, <1>8 DEF Step

LEMMA NotifyNext ==
  ASSUME RcvTypes, Carrier, r.s = "Notify"
  PROVE r' \in RcvState /\ el_data' = el_data /\ GivesUp
<1>1. Notify(burst[pos + 1])
  BY DEF Carrier, rcv_nsl, Preamble, StartOfFrame, StoreField, Stored, PassOver, EtherType, IPIHL, IPVersion,
         IPDSCPECN, IPLength, IPID, IPFlagsFragment, IPProtocol, IPAddrDST, UDPPortDST, UDPLength,
         UDPChecksum, DNSMsgRecord, DNSMsgDiscard
<1> QED
  BY <1>1, GoFacts DEF Notify, Reject, GivesUp, RcvTypes, RcvNames

LEMMA GivesUpSeeks ==
  ASSUME GivesUp, pos' \in Nat
  PROVE Seek'
  BY DEF GivesUp, Seek

\* A frame that begins was not heard yet.
LEMMA NothingHeard ==
  ASSUME NEW o, r'.s = "EtherMACDST", r'.c = 0
  PROVE Place(0)' /\ Heard(o, 0)'
<1>1. Place(0)'
  BY DEF Place, PlaceIP, Seat
<1>2. HeardMAC(o, 0)' /\ HeardIP(o, 0)'
  BY DEF HeardMAC, HeardIP
<1>3. HeardLength(o, 0)' /\ HeardFlags(o, 0)'
  BY DEF HeardLength, HeardFlags
<1>4. HeardPorts(o, 0)' /\ HeardUDP(o, 0)' /\ HeardPayload(o, 0)'
  BY DEF HeardPorts, HeardUDP, HeardPayload
<1> QED
  BY <1>1, <1>2, <1>3, <1>4 DEF Heard

\* Fives are counted, and a start of frame after fifteen of them begins a frame.
LEMMA SeekNext ==
  ASSUME RcvTypes, Carrier, Seek, NEW p, p = pos + 1
  PROVE /\ r' \in RcvState /\ el_data' = el_data
        /\ Seek' \/ Track(p)'
        /\ r.s = "StartOfFrame" /\ burst[pos + 1] = 13 => Track(p)'
        /\ r.s = "Preamble" /\ burst[pos + 1] = 5 =>
             IF r.c = 14 THEN r'.s = "StartOfFrame" ELSE r'.s = "Preamble" /\ r'.c = r.c + 1
<1> DEFINE x == burst[pos + 1]
<1>a. pos \in Nat /\ pos' = pos + 1 /\ burst' = burst /\ r \in RcvState /\ r.c \in Nat /\ rcv_nsl(x)
  BY BurstFacts DEF Carrier, RcvTypes, RcvState
<1>1. CASE r.s = "Preamble"
  <2>0. r.c \in 0 .. 14 /\ r.c <= pos /\ \A i \in 1 .. r.c : burst[pos + 1 - i] = 5
    BY <1>1 DEF Seek
  <2>1. Preamble(x)
    BY <1>a, <1>1 DEF rcv_nsl, Preamble, StartOfFrame, StoreField, Stored, PassOver, EtherType, IPIHL,
         IPVersion, IPDSCPECN, IPLength, IPID, IPFlagsFragment, IPProtocol, IPAddrDST, UDPPortDST,
         UDPLength, UDPChecksum, DNSMsgRecord, DNSMsgDiscard, Notify
  <2>2. CASE x # 5
    <3>1. r' \in RcvState /\ GivesUp /\ el_data' = el_data
      BY <1>a, <2>1, <2>2, GoFacts DEF Preamble, Reject, GivesUp, RcvNames
    <3>2. Seek'
      BY <1>a, <3>1, GivesUpSeeks
    <3> QED
      BY <1>1, <2>2, <3>1, <3>2
  <2>3. CASE x = 5
    <3>1. el_data' = el_data /\ Count(14, 1, "StartOfFrame") /\ "StartOfFrame" \in RcvNames
      BY <2>1, <2>3 DEF Preamble, RcvNames
    <3>2. /\ r' \in RcvState
          /\ r.c = 14 => r'.s = "StartOfFrame" /\ r'.c = 0
          /\ r.c # 14 => r'.s = "Preamble" /\ r'.c = r.c + 1
      BY <1>a, <1>1, <3>1, CountFacts
    <3>3. ASSUME NEW i \in 1 .. r.c + 1
          PROVE burst'[pos' + 1 - i] = 5
      <4>1. CASE i = 1
        BY <1>a, <2>3, <4>1
      <4>2. CASE i # 1
        <5>1. i - 1 \in 1 .. r.c /\ pos' + 1 - i = pos + 1 - (i - 1)
          BY <1>a, <4>2
        <5> QED
          BY <1>a, <2>0, <5>1
      <4> QED
        BY <4>1, <4>2
    <3>4. CASE r.c = 14
      <4>1. 15 <= pos' /\ \A i \in 1 .. 15 : burst'[pos' + 1 - i] = 5
        BY <1>a, <2>0, <3>3, <3>4
      <4>2. Seek'
        BY <3>2, <3>4, <4>1 DEF Seek
      <4> QED
        BY <1>1, <3>1, <3>2, <3>4, <4>2
    <3>5. CASE r.c # 14
      <4>1. r'.c \in 0 .. 14 /\ r'.c <= pos' /\ \A i \in 1 .. r'.c : burst'[pos' + 1 - i] = 5
        BY <1>a, <2>0, <3>2, <3>3, <3>5
      <4>2. Seek'
        BY <3>2, <3>5, <4>1 DEF Seek
      <4> QED
        BY <1>1, <3>1, <3>2, <3>5, <4>2
    <3> QED
      BY <3>4, <3>5
  <2> QED
    BY <2>2, <2>3
<1>2. CASE r.s = "StartOfFrame"
  <2>0. r.c = 0 /\ 15 <= pos /\ \A i \in 1 .. 15 : burst[pos + 1 - i] = 5
    BY <1>2 DEF Seek
  <2>1. StartOfFrame(x)
    BY <1>a, <1>2 DEF rcv_nsl, Preamble, StartOfFrame, StoreField, Stored, PassOver, EtherType, IPIHL,
         IPVersion, IPDSCPECN, IPLength, IPID, IPFlagsFragment, IPProtocol, IPAddrDST, UDPPortDST,
         UDPLength, UDPChecksum, DNSMsgRecord, DNSMsgDiscard, Notify
  <2>2. CASE x # 13
    <3>1. el_data' = el_data /\ Go("Preamble", 0)
      BY <2>0, <2>1, <2>2 DEF StartOfFrame
    <3>2. r' \in RcvState /\ GivesUp
      BY <1>a, <3>1, GoFacts DEF GivesUp, RcvNames
    <3>3. Seek'
      BY <1>a, <3>2, GivesUpSeeks
    <3> QED
      BY <1>2, <2>2, <3>1, <3>2, <3>3
  <2>3. CASE x = 13
    <3>1. el_data' = el_data /\ Go("EtherMACDST", 0)
      BY <2>0, <2>1, <2>3 DEF StartOfFrame
    <3>2. r' \in RcvState /\ r'.s = "EtherMACDST" /\ r'.c = 0
      BY <1>a, <3>1, GoFacts DEF RcvNames
    <3>3. Started(p)'
      BY <1>a, <2>0, <2>3 DEF Started
    <3>4. Place(0)' /\ Heard(p, 0)'
      BY <3>2, NothingHeard
    <3>5. pos' - p = 0 /\ p \in 16 .. pos'
      BY <1>a, <2>0
    <3>6. Track(p)'
      <4>1. Place(pos - p)' /\ Heard(p, pos - p)'
        BY <3>4, <3>5
      <4> QED
        BY <3>3, <3>5, <4>1 DEF Track
    <3> QED
      BY <1>2, <3>1, <3>2, <3>6
  <2> QED
    BY <2>2, <2>3
<1> QED
  BY <1>1, <1>2 DEF Seek

\* What was heard so far, and all of a burst after a start at its beginning.
Since(o) == SubSeq(burst, o + 1, pos)

LEMMA ReadsSoFar ==
  ASSUME RcvTypes, NEW o \in 16 .. pos
  PROVE Reads(Since(o), o, pos - o) /\ Len(Since(o)) = pos - o
<1>1. burst \in Seq(Half) /\ Len(burst) \in Nat /\ pos \in Nat /\ pos <= Len(burst) /\ o \in Nat /\ o <= pos
  BY BurstFacts
<1>2. Since(o) \in Seq(Half) /\ Len(Since(o)) = pos - o
  BY <1>1 DEF Since
<1>3. \A i \in 1 .. Len(Since(o)) : Since(o)[i] = burst[o + i]
  BY <1>1, <1>2 DEF Since
<1> QED
  BY <1>1, <1>2, <1>3 DEF Reads

LEMMA BodyIs ==
  ASSUME burst \in Seq(Half), Len(Body) >= 84
  PROVE /\ Body \in Seq(Half) /\ Len(Body) \in Nat /\ Len(burst) = Len(Body) + 16
        /\ \A i \in 1 .. Len(Body) : Body[i] = burst[16 + i]
<1>1. Len(burst) \in Nat
  OBVIOUS
<1>2. Len(burst) >= 17
  BY <1>1 DEF Body
<1>3. Body \in Seq(Half) /\ Len(Body) = Len(burst) - 16
  BY <1>1, <1>2 DEF Body
<1>4. \A i \in 1 .. Len(Body) : Body[i] = burst[16 + i]
  BY <1>1, <1>2, <1>3 DEF Body
<1> QED
  BY <1>1, <1>3, <1>4

LEMMA GoodBody ==
  ASSUME RcvTypes, Good
  PROVE /\ Body \in Seq(Half) /\ Len(Body) \in Nat /\ Len(burst) = Len(Body) + 16
        /\ \A i \in 1 .. Len(Body) : Body[i] = burst[16 + i]
<1>1. burst \in Seq(Half)
  BY BurstFacts
<1>2. Len(Body) >= 84
  BY DEF Good, Complete
<1> QED
  BY <1>1, <1>2, BodyIs

LEMMA ReadsBody ==
  ASSUME RcvTypes, Good, NEW o, o = 16, pos >= 16
  PROVE Reads(Body, o, pos - o)
<1>1. pos \in Nat /\ pos <= Len(burst)
  BY BurstFacts
<1>2. /\ Body \in Seq(Half) /\ Len(Body) \in Nat /\ Len(burst) = Len(Body) + 16
      /\ \A i \in 1 .. Len(Body) : Body[i] = burst[16 + i]
  BY GoodBody
<1> HIDE DEF Body
<1> QED
  BY <1>1, <1>2 DEF Reads

\* A packet has a header and some payload.
LEMMA LastIs ==
  ASSUME NEW w \in Seq(Half), Complete(w)
  PROVE /\ w[29] \in Nat /\ w[29] >= 5 /\ UDPBytes(w) \in Nat /\ UDPBytes(w) > 8
        /\ UDPHeader(w) = 69 + (8 * (w[29] - 5))
        /\ LastNibble(w) = UDPHeader(w) + 15 + (2 * (UDPBytes(w) - 8))
        /\ LastNibble(w) \in Nat /\ LastNibble(w) >= UDPHeader(w) + 17 /\ LastNibble(w) >= 86
<1>1. \A i \in 1 .. Len(w) : w[i] \in Half
  OBVIOUS
<1>2. \A i \in 1 .. Len(w) : w[i] \in Nat
  BY <1>1 DEF Half
<1>3. Len(w) \in Nat /\ Len(w) >= 84 /\ IsUDP(w) /\ Len(w) >= UDPHeader(w) + 16 /\ UDPBytes(w) > 8
  BY DEF Complete, PayloadFrom
<1>4. w[29] \in Nat /\ w[29] >= 5 /\ UDPHeader(w) = 69 + (8 * (w[29] - 5))
  BY <1>2, <1>3 DEF IsUDP, UDPHeader
<1>5. UDPHeader(w) \in Nat /\ UDPHeader(w) >= 69
  BY <1>4
<1>6. UDPBytes(w) \in Nat
  <2> DEFINE h == UDPHeader(w) + 8
             f == Field(w, h, 4)
  <2>1. h \in 1 .. Len(w) /\ h + 1 \in 1 .. Len(w) /\ h + 2 \in 1 .. Len(w) /\ h + 3 \in 1 .. Len(w) /\ h + 0 = h
    BY <1>3, <1>5
  <2>2. UDPBytes(w) = Number(f)
    BY DEF UDPBytes
  <2> HIDE DEF h
  <2>3. f[0] = w[h] /\ f[1] = w[h + 1] /\ f[2] = w[h + 2] /\ f[3] = w[h + 3]
    BY <2>1 DEF Field
  <2> HIDE DEF f
  <2>4. f[0] \in Nat /\ f[1] \in Nat /\ f[2] \in Nat /\ f[3] \in Nat
    BY <1>2, <2>1, <2>3
  <2>5. PICK a \in Nat, b \in Nat, c \in Nat, d \in Nat : a = f[0] /\ b = f[1] /\ c = f[2] /\ d = f[3]
    BY <2>4
  <2>6. UDPBytes(w) = ((a + (16 * b)) * 256) + c + (16 * d)
    BY <2>2, <2>5 DEF Number
  <2> QED
    BY <2>6
<1>7. LastNibble(w) = UDPHeader(w) + 15 + (2 * (UDPBytes(w) - 8))
  BY <1>5, <1>6 DEF LastNibble, PayloadFrom
<1>8. UDPHeader(w) \in Nat /\ UDPHeader(w) >= 69 /\ UDPBytes(w) \in Nat /\ UDPBytes(w) > 8
  BY <1>3, <1>5, <1>6
<1>9. LastNibble(w) \in Nat /\ LastNibble(w) >= UDPHeader(w) + 17 /\ LastNibble(w) >= 86
  BY <1>7, <1>8
<1> QED
  BY <1>4, <1>7, <1>8, <1>9

\* Nothing of a sound frame is wrong.
LEMMA GoodIsRight ==
  ASSUME RcvTypes, Good, NEW n \in 1 .. Len(Body)
  PROVE ~Wrong(n, burst[16 + n])
<1>1. /\ Body \in Seq(Half) /\ Len(Body) \in Nat
      /\ \A i \in 1 .. Len(Body) : Body[i] = burst[16 + i]
  BY GoodBody
<1> DEFINE w == Body
<1>2. Len(w) >= 84 /\ IsUDP(w)
  BY DEF Good, Complete
<1> HIDE DEF w
<1>3. w \in Seq(Half) /\ Len(w) \in Nat
  BY <1>1 DEF w
<1>4. /\ SubSeq(w, 25, 28) = <<w[25], w[25 + 1], w[25 + 2], w[25 + 3]>>
      /\ SubSeq(w, 41, 44) = <<w[41], w[41 + 1], w[41 + 2], w[41 + 3]>>
      /\ SubSeq(w, 47, 48) = <<w[47], w[47 + 1]>>
  <2>1. SubSeq(w, 25, 28) = <<w[25], w[25 + 1], w[25 + 2], w[25 + 3]>>
    BY <1>2, <1>3, FourIs
  <2>2. SubSeq(w, 41, 44) = <<w[41], w[41 + 1], w[41 + 2], w[41 + 3]>>
    BY <1>2, <1>3, FourIs
  <2>3. SubSeq(w, 47, 48) = <<w[47], w[47 + 1]>>
    BY <1>2, <1>3, TwoIs
  <2> QED
    BY <2>1, <2>2, <2>3
<1>u. /\ SubSeq(w, 25, 28) = <<8, 0, 0, 0>> /\ SubSeq(w, 41, 44) = <<0, 0, 0, 0>>
      /\ SubSeq(w, 47, 48) = <<1, 1>> /\ w[29] >= 5 /\ w[30] = 4
  BY <1>2 DEF IsUDP
<1>5. w[25] = 8 /\ w[26] = 0 /\ w[27] = 0 /\ w[28] = 0
  <2>1. <<w[25], w[25 + 1], w[25 + 2], w[25 + 3]>> = <<8, 0, 0, 0>>
    BY <1>4, <1>u
  <2> QED
    BY <2>1
<1>6. w[41] = 0 /\ w[42] = 0 /\ w[43] = 0 /\ w[44] = 0
  <2>1. <<w[41], w[41 + 1], w[41 + 2], w[41 + 3]>> = <<0, 0, 0, 0>>
    BY <1>4, <1>u
  <2> QED
    BY <2>1
<1>7. w[47] = 1 /\ w[48] = 1 /\ w[29] >= 5 /\ w[30] = 4
  <2>1. <<w[47], w[47 + 1]>> = <<1, 1>>
    BY <1>4, <1>u
  <2> QED
    BY <1>u, <2>1
<1>8. burst[16 + n] = w[n] /\ n \in Nat
  BY <1>1 DEF w
<1>9. w[29] \in Nat
  <2>1. w[29] \in Half
    BY <1>2, <1>3
  <2> QED
    BY <2>1 DEF Half
<1>10. ~(n = 25 /\ w[n] # 8) /\ ~(n \in 26 .. 28 /\ w[n] # 0)
  BY <1>5
<1>11. ~(n = 29 /\ w[n] < 5) /\ ~(n = 30 /\ w[n] # 4)
  BY <1>7, <1>9
<1>12. ~(n \in 41 .. 44 /\ w[n] # 0) /\ ~(n \in 47 .. 48 /\ w[n] # 1)
  BY <1>6, <1>7
<1> QED
  BY <1>8, <1>10, <1>11, <1>12 DEF Wrong

LEMMA GoodStart ==
  ASSUME RcvTypes, Good
  PROVE (\A i \in 1 .. 15 : burst[i] = 5) /\ burst[16] = 13
<1>1. burst \in Seq(Half) /\ Len(burst) >= 16
  BY GoodBody, BurstFacts
<1>2. \A i \in 1 .. 16 : burst[i] = SubSeq(burst, 1, 16)[i]
  BY <1>1
<1>3. \A i \in 1 .. 16 : burst[i] = StartPattern[i]
  BY <1>2 DEF Good
<1> QED
  BY <1>3 DEF StartPattern

\* The length the receiver counts to is that of the sound frame.
LEMMA GoodLength ==
  ASSUME RcvTypes, Good, pos >= 16, Track(16)
  PROVE /\ r.s # "Notify" => pos < 16 + LastNibble(Body)
        /\ r.s = "Notify" => el_data.dnsLength < 8192
<1>1. PICK o, q : o = 16 /\ q = pos - o
  OBVIOUS
<1>2. /\ o \in Nat /\ q \in Nat /\ pos = 16 + q /\ Place(q) /\ Heard(o, q) /\ Reads(Body, o, q)
  <2>1. pos \in Nat
    BY BurstFacts
  <2>2. Reads(Body, o, q)
    BY <1>1, ReadsBody
  <2> QED
    BY <1>1, <2>1, <2>2 DEF Track
<1>3. /\ HeardIP(o, q) /\ HeardUDP(o, q) /\ HeardPayload(o, q) /\ el_data \in RcvRecord
  BY <1>2 DEF Heard, RcvTypes
<1> DEFINE w == Body
<1>4. w \in Seq(Half) /\ Len(w) \in Nat /\ Len(w) + 16 <= 16384 /\ Complete(w) /\ LastNibble(w) < Len(w)
  BY GoodBody, BurstFacts DEF Good
<1>5. Reads(w, o, q)
  BY <1>2
<1> HIDE DEF w
<1>6. /\ UDPBytes(w) \in Nat /\ UDPBytes(w) > 8
      /\ LastNibble(w) = UDPHeader(w) + 15 + (2 * (UDPBytes(w) - 8))
      /\ LastNibble(w) \in Nat /\ LastNibble(w) >= UDPHeader(w) + 17 /\ LastNibble(w) >= 86
  BY <1>4, LastIs
<1>7. ASSUME q >= 68
      PROVE Base \in Nat /\ Base >= 68 /\ UDPHeader(w) = Base + 1
  BY <1>3, <1>5, <1>7, HeaderIs
<1>8. ASSUME q >= 68, q >= Base + 16
      PROVE /\ el_data.dnsLength = UDPBytes(w) - 8 /\ el_data.dnsLength >= 1 /\ el_data.dnsLength < 8192
            /\ LastNibble(w) = Base + 16 + (2 * el_data.dnsLength)
  <2>1. el_data.dnsLength = UDPBytes(w) - 8
    BY <1>3, <1>5, <1>6, <1>8, BytesAre
  <2> QED
    BY <1>4, <1>6, <1>7, <1>8, <2>1, SMTT(30)
<1>9. ASSUME r.s # "Notify"
      PROVE q < LastNibble(w)
  <2>1. CASE q < 68
    BY <1>2, <1>6, <2>1
  <2>2. CASE q >= 68 /\ q < Base + 16
    BY <1>2, <1>6, <1>7, <2>2
  <2>3. CASE q >= 68 /\ q >= Base + 16
    <3>1. q < Base + 16 + (2 * el_data.dnsLength)
      BY <1>2, <1>3, <1>8, <1>9, <2>3 DEF HeardPayload
    <3> QED
      BY <1>8, <2>3, <3>1
  <2> QED
    BY <1>2, <1>7, <2>1, <2>2, <2>3
<1>10. ASSUME r.s = "Notify"
       PROVE el_data.dnsLength < 8192
  <2>1. q >= 68 /\ q > Base + 16
    BY <1>2, <1>10 DEF Place, PlaceIP, PlaceUDP, Seat
  <2> QED
    BY <1>2, <1>7, <1>8, <2>1
<1> QED
  BY <1>2, <1>6, <1>9, <1>10 DEF w

LEMMA StartedIs ==
  ASSUME burst \in Seq(Half), NEW o \in Nat, o >= 16, o <= Len(burst), Started(o)
  PROVE SubSeq(burst, o - 15, o) = StartPattern
<1>1. PICK t \in Seq(Half), i \in Nat, j \in Nat : t = burst /\ i = o - 15 /\ j = o
  OBVIOUS
<1>2. i >= 1 /\ j = i + 15 /\ j <= Len(t)
  BY <1>1
<1>3. t[j] = 13
  BY <1>1 DEF Started
<1>4. \A n \in 0 .. 14 : t[i + n] = 5
  <2> TAKE n \in 0 .. 14
  <2>1. (15 - n) \in 1 .. 15 /\ o - (15 - n) = i + n
    BY <1>1
  <2> QED
    BY <1>1, <2>1 DEF Started
<1>5. SubSeq(t, i, j) = StartPattern
  BY <1>2, <1>3, <1>4, StartIs
<1> QED
  BY <1>1, <1>5

\* The record that is announced is spelled.
LEMMA AnnouncedIsSpelled ==
  ASSUME RcvTypes, Carrier, r.s = "Notify", NEW o, Track(o)
  PROVE RecordSpelled'
<1> SUFFICES ASSUME el_data.dnsLength < 8192
             PROVE /\ SubSeq(burst, o - 15, o) = StartPattern
                   /\ LET w == Since(o)
                      IN Complete(w) /\ LastNibble(w) = Len(w) /\ el_data = Record(w)
  <2>1. burst' = burst /\ pos' = pos + 1 /\ el_data' = el_data /\ pos \in Nat
    BY NotifyNext, BurstFacts DEF Carrier
  <2>2. o \in 16 .. pos' /\ pos' - 1 = pos
    BY <2>1 DEF Track
  <2> QED
    BY <2>1, <2>2 DEF RecordSpelled, Since
<1>1. burst \in Seq(Half) /\ Len(burst) \in Nat /\ pos \in Nat /\ pos <= Len(burst)
  BY BurstFacts
<1>2. o \in 16 .. pos /\ o \in Nat /\ o >= 16 /\ o <= pos /\ Started(o) /\ Place(pos - o) /\ Heard(o, pos - o)
  BY <1>1 DEF Track
<1>3. SubSeq(burst, o - 15, o) = StartPattern
  BY <1>1, <1>2, StartedIs
<1> DEFINE w == Since(o)
<1>o. o \in 16 .. pos
  BY <1>2
<1>4. Reads(w, o, pos - o) /\ Len(w) = pos - o
  BY <1>o, ReadsSoFar
<1>5. Complete(w) /\ LastNibble(w) = pos - o /\ Record(w) = el_data
  <2>1. el_data \in RcvRecord
    BY DEF RcvTypes
  <2> QED
    BY <1>2, <1>4, <2>1, RecordAt
<1> QED
  <2>1. Complete(w) /\ LastNibble(w) = Len(w) /\ el_data = Record(w)
    BY <1>4, <1>5
  <2> QED
    BY <1>3, <2>1

\* A sound frame is followed to its end, and its record announced.
LEMMA FollowedNext ==
  ASSUME RcvInd, Carrier, Good
  PROVE Followed'
<1>a. RcvTypes /\ Followed /\ (Seek \/ \E o \in 16 .. pos : Track(o))
  BY DEF RcvInd
<1>b. /\ pos \in Nat /\ pos < Len(burst) /\ pos' = pos + 1 /\ burst' = burst /\ announced \subseteq announced'
      /\ r.s = "Notify" => el_data \in announced'
  BY <1>a, BurstFacts DEF Carrier
<1>c. /\ Body \in Seq(Half) /\ Len(Body) \in Nat /\ Len(burst) = Len(Body) + 16
      /\ Complete(Body) /\ LastNibble(Body) < Len(Body) /\ Body' = Body
  BY <1>a, <1>b, GoodBody DEF Good, Body
<1>d. LastNibble(Body) \in Nat /\ LastNibble(Body) >= 86
  BY <1>c, LastIs
<1>e. (\A i \in 1 .. 15 : burst[i] = 5) /\ burst[16] = 13
  BY <1>a, GoodStart
<1>p. PICK p : p = pos + 1
  OBVIOUS
<1>q. PICK L : L = LastNibble(Body)
  OBVIOUS
<1>n. /\ L \in Nat /\ L >= 86
      /\ pos < 15 => r.s = "Preamble" /\ r.c = pos
      /\ pos = 15 => r.s = "StartOfFrame"
      /\ pos >= 16 /\ pos <= 16 + L => Track(16)
      /\ pos > 16 + L => Record(Body) \in announced
  BY <1>a, <1>d, <1>q DEF Followed
<1>z. ASSUME /\ pos' < 15 => r'.s = "Preamble" /\ r'.c = pos'
             /\ pos' = 15 => r'.s = "StartOfFrame"
             /\ pos' >= 16 /\ pos' <= 16 + L => Track(16)'
             /\ pos' > 16 + L => Record(Body) \in announced'
      PROVE Followed'
  BY <1>c, <1>q, <1>z DEF Followed
<1>1. CASE pos < 15
  <2>1. r.s = "Preamble" /\ r.c = pos /\ Seek
    <3>1. r.s = "Preamble" /\ r.c = pos
      BY <1>n, <1>1
    <3>2. \A o : ~Track(o)
      BY <3>1 DEF Track, Place, PlaceIP, PlaceUDP, Seat
    <3> QED
      BY <1>a, <3>1, <3>2
  <2>2. burst[pos + 1] = 5
    <3>1. (pos + 1) \in 1 .. 15
      BY <1>b, <1>1
    <3> QED
      BY <1>e, <3>1
  <2>3. IF r.c = 14 THEN r'.s = "StartOfFrame" ELSE r'.s = "Preamble" /\ r'.c = r.c + 1
    BY <1>a, <1>p, <2>1, <2>2, SeekNext
  <2>4. /\ pos' < 15 => r'.s = "Preamble" /\ r'.c = pos'
        /\ pos' = 15 => r'.s = "StartOfFrame"
        /\ ~(pos' >= 16) /\ ~(pos' > 16 + L)
    BY <1>b, <1>n, <1>1, <2>1, <2>3
  <2> QED
    BY <1>z, <2>4
<1>2. CASE pos = 15
  <2>1. r.s = "StartOfFrame" /\ Seek
    <3>1. r.s = "StartOfFrame"
      BY <1>n, <1>2
    <3>2. \A o : ~Track(o)
      BY <3>1 DEF Track, Place, PlaceIP, PlaceUDP, Seat
    <3> QED
      BY <1>a, <3>1, <3>2
  <2>2. burst[pos + 1] = 13
    BY <1>b, <1>e, <1>2
  <2>3. Track(p)'
    BY <1>a, <1>p, <2>1, <2>2, SeekNext
  <2>4. pos' = 16 /\ p = 16 /\ ~(pos' < 15) /\ pos' # 15 /\ ~(pos' > 16 + L)
    BY <1>b, <1>n, <1>p, <1>2
  <2> QED
    BY <1>z, <2>3, <2>4
<1>3. CASE pos >= 16 /\ pos <= 16 + L
  <2>1. Track(16)
    BY <1>n, <1>3
  <2>2. ~(pos' < 15) /\ pos' # 15
    BY <1>b, <1>3
  <2>3. CASE r.s = "Notify"
    <3>1. el_data.dnsLength < 8192
      BY <1>a, <1>3, <2>1, <2>3, GoodLength
    <3>2. PICK o, q : o = 16 /\ q = pos - o
      OBVIOUS
    <3>3. Reads(Body, o, q)
      BY <1>a, <1>3, <3>2, ReadsBody
    <3>4. Place(q) /\ Heard(o, q) /\ el_data \in RcvRecord
      BY <1>a, <2>1, <3>2 DEF Track, RcvTypes
    <3>5. LastNibble(Body) = q /\ Record(Body) = el_data
      BY <2>3, <3>1, <3>3, <3>4, RecordAt
    <3>6. ~(pos' <= 16 + L)
      BY <1>b, <1>n, <1>q, <3>2, <3>5
    <3>7. Record(Body) \in announced'
      BY <1>b, <2>3, <3>5
    <3> QED
      BY <1>z, <2>2, <3>6, <3>7
  <2>4. CASE r.s # "Notify"
    <3>1. pos < 16 + L
      BY <1>a, <1>q, <1>3, <2>1, <2>4, GoodLength
    <3>2. PICK o, q : o = 16 /\ q = pos - o
      OBVIOUS
    <3>3. Track(o)
      BY <2>1, <3>2
    <3>4. (GivesUp /\ Wrong(q + 1, burst[pos + 1])) \/ Track(o)'
      BY <1>a, <2>4, <3>2, <3>3, TrackNext
    <3>5. ~Wrong(q + 1, burst[pos + 1])
      <4>1. (q + 1) \in 1 .. Len(Body) /\ 16 + (q + 1) = pos + 1
        BY <1>b, <1>c, <1>3, <3>2
      <4>2. ~Wrong(q + 1, burst[16 + (q + 1)])
        BY <1>a, <4>1, GoodIsRight
      <4> QED
        BY <4>1, <4>2
    <3>6. Track(16)'
      BY <3>2, <3>4, <3>5
    <3>7. ~(pos' > 16 + L)
      BY <1>b, <1>n, <3>1
    <3> QED
      BY <1>z, <2>2, <3>6, <3>7
  <2> QED
    BY <2>3, <2>4
<1>4. CASE pos > 16 + L
  <2>1. Record(Body) \in announced'
    BY <1>b, <1>n, <1>4
  <2>2. ~(pos' < 15) /\ pos' # 15 /\ ~(pos' <= 16 + L)
    BY <1>b, <1>n, <1>4
  <2> QED
    BY <1>z, <2>1, <2>2
<1> QED
  BY <1>b, <1>n, <1>1, <1>2, <1>3, <1>4

LEMMA CarrierInd == RcvInd /\ Carrier => RcvInd'
<1> SUFFICES ASSUME RcvInd, Carrier
             PROVE RcvInd'
  OBVIOUS
<1>a. RcvTypes /\ (Seek \/ \E o \in 16 .. pos : Track(o))
  BY DEF RcvInd
<1>b. /\ pos \in Nat /\ Len(burst) \in Nat /\ pos < Len(burst) /\ pos' = pos + 1 /\ burst' = burst
      /\ burst \in Bursts /\ el_data \in RcvRecord /\ el_dv' = (r.s = "Notify")
  BY <1>a, BurstFacts DEF Carrier, RcvTypes
<1>1. /\ r' \in RcvState /\ el_data' \in RcvRecord
      /\ (Seek \/ \E o \in 16 .. pos : Track(o))'
      /\ r.s = "Notify" => RecordSpelled'
  <2>1. CASE Seek
    <3>1. PICK p : p = pos + 1
      OBVIOUS
    <3>2. r' \in RcvState /\ el_data' = el_data /\ (Seek' \/ Track(p)')
      BY <1>a, <2>1, <3>1, SeekNext
    <3>3. Track(p)' => \E o \in 16 .. pos' : Track(o)'
      BY DEF Track
    <3>4. r.s # "Notify"
      BY <2>1 DEF Seek
    <3> QED
      BY <1>b, <3>2, <3>3, <3>4
  <2>2. ASSUME NEW o \in 16 .. pos, Track(o)
        PROVE /\ r' \in RcvState /\ el_data' \in RcvRecord
              /\ (Seek \/ \E u \in 16 .. pos : Track(u))'
              /\ r.s = "Notify" => RecordSpelled'
    <3>1. GivesUp => Seek'
      BY <1>b, GivesUpSeeks
    <3>2. Track(o)' => \E u \in 16 .. pos' : Track(u)'
      BY DEF Track
    <3>3. CASE r.s # "Notify"
      <4>1. PICK q : q = pos - o
        OBVIOUS
      <4>2. r' \in RcvState /\ el_data' \in RcvRecord /\ (GivesUp \/ Track(o)')
        BY <1>a, <2>2, <3>3, <4>1, TrackNext
      <4> QED
        BY <3>1, <3>2, <3>3, <4>2
    <3>4. CASE r.s = "Notify"
      <4>1. r' \in RcvState /\ el_data' = el_data /\ GivesUp
        BY <1>a, <3>4, NotifyNext
      <4>2. RecordSpelled'
        BY <1>a, <2>2, <3>4, AnnouncedIsSpelled
      <4> QED
        BY <1>b, <3>1, <4>1, <4>2
    <3> QED
      BY <3>3, <3>4
  <2> QED
    BY <1>a, <2>1, <2>2
<1>2. RcvTypes'
  <2>1. pos' \in 0 .. Len(burst') /\ burst' \in Bursts
    BY <1>b
  <2>2. el_dv' \in BOOLEAN
    BY <1>b
  <2> QED
    BY <1>1, <2>1, <2>2 DEF RcvTypes
<1>3. RecordSpelled'
  <2>1. r.s # "Notify" => ~el_dv'
    BY <1>b
  <2>2. ~el_dv' => RecordSpelled'
    BY DEF RecordSpelled
  <2> QED
    BY <1>1, <2>1, <2>2
<1>4. Good' => Followed'
  <2>1. Good' => Good
    BY <1>b DEF Good, Body
  <2> QED
    BY <2>1, FollowedNext
<1> QED
  BY <1>1, <1>2, <1>3, <1>4 DEF RcvInd

\* A burst that begins.
LEMMA Begins == RcvTypes /\ ~el_dv /\ pos = 0 /\ r.s = "Preamble" /\ r.c = 0 => RcvInd
<1> SUFFICES ASSUME RcvTypes, ~el_dv, pos = 0, r.s = "Preamble", r.c = 0
             PROVE RcvInd
  OBVIOUS
<1>1. RecordSpelled
  BY DEF RecordSpelled
<1>2. Seek
  BY DEF Seek
<1>3. Good => Followed
  <2> SUFFICES ASSUME Good PROVE Followed
    OBVIOUS
  <2>1. Body \in Seq(Half) /\ Complete(Body)
    BY GoodBody DEF Good
  <2>2. LastNibble(Body) \in Nat
    BY <2>1, LastIs
  <2> QED
    BY <2>2 DEF Followed
<1> QED
  BY <1>1, <1>2, <1>3 DEF RcvInd

LEMMA RcvInitInd == RcvInit => RcvInd
<1> SUFFICES ASSUME RcvInit PROVE RcvInd
  OBVIOUS
<1>1. r \in RcvState /\ r.s = "Preamble" /\ r.c = 0
  BY DEF RcvInit, RcvState, RcvNames, Word16
<1>2. el_data \in RcvRecord
  <2>1. /\ Zeros(12) \in [0 .. 11 -> Half] /\ Zeros(8) \in [0 .. 7 -> Half] /\ Zeros(4) \in [0 .. 3 -> Half]
        /\ 0 \in Half
    BY DEF Zeros, Half
  <2>2. Zeros(2 * RecordBytes) \in [RecordNibbles -> Half]
    BY DEF Zeros, RecordNibbles, Half
  <2> QED
    BY <2>1, <2>2 DEF RcvInit, RcvRecord
<1>3. burst \in Bursts /\ pos = 0 /\ pos \in 0 .. Len(burst)
  BY BurstAssumption DEF RcvInit
<1>4. el_dv = FALSE
  BY DEF RcvInit
<1>5. RcvTypes
  BY <1>1, <1>2, <1>3, <1>4 DEF RcvTypes
<1> QED
  BY <1>1, <1>3, <1>4, <1>5, Begins

LEMMA GapInd == RcvInd /\ Gap => RcvInd'
<1> SUFFICES ASSUME RcvInd, Gap PROVE RcvInd'
  OBVIOUS
<1>1. r' \in RcvState /\ r'.s = "Preamble" /\ r'.c = 0
  BY GoFacts DEF Gap, Silence, Reject, RcvInd, RcvTypes, RcvNames
<1>2. el_data' \in RcvRecord /\ el_dv' = FALSE
  BY DEF Gap, Silence, RcvInd, RcvTypes
<1>3. burst' \in Bursts /\ pos' = 0 /\ pos' \in 0 .. Len(burst')
  BY BurstAssumption DEF Gap
<1>4. RcvTypes'
  BY <1>1, <1>2, <1>3 DEF RcvTypes
<1>5. (RcvTypes /\ ~el_dv /\ pos = 0 /\ r.s = "Preamble" /\ r.c = 0 => RcvInd)'
  BY Begins, PTL
<1> QED
  BY <1>1, <1>2, <1>3, <1>4, <1>5

\* The receiver is always looking for a start, having heard the fives it counted,
\* or at the place of a frame that its state and its counters say, with what it
\* heard of it in the record.
THEOREM RcvInvariance == RcvSpec => []RcvInd
<1>1. RcvInd /\ [RcvNext]_rcvvars => RcvInd'
  <2> SUFFICES ASSUME RcvInd, [RcvNext]_rcvvars
               PROVE RcvInd'
    OBVIOUS
  <2>1. CASE Carrier
    BY <2>1, CarrierInd
  <2>2. CASE Gap
    BY <2>2, GapInd
  <2>3. CASE UNCHANGED rcvvars
    <3>1. /\ r' = r /\ el_data' = el_data /\ el_dv' = el_dv /\ burst' = burst /\ pos' = pos
          /\ announced' = announced
      BY <2>3 DEF rcvvars
    <3>2. RcvTypes' /\ RecordSpelled' /\ (Seek => Seek')
      BY <3>1 DEF RcvInd, RcvTypes, RecordSpelled, Seek
    <3>3. ASSUME NEW o, Track(o) PROVE Track(o)'
      BY <3>1, <3>3 DEF Track, Started, Place, PlaceIP, PlaceUDP, Seat, Base, Heard, HeardMAC, HeardIP,
         HeardLength, HeardFlags, HeardPorts, HeardUDP, LengthAt, HeardPayload
    <3>4. Good' = Good /\ (Followed => Followed')
      BY <3>1, <3>3 DEF Good, Followed, Body
    <3> QED
      BY <3>1, <3>2, <3>3, <3>4 DEF RcvInd
  <2> QED
    BY <2>1, <2>2, <2>3 DEF RcvNext
<1> QED
  BY <1>1, RcvInitInd, PTL DEF RcvSpec

\* Whatever is on the wire, a record that is announced is spelled by the nibbles
\* after a start pattern, and ends with the last of them.
THEOREM ReceivedIsSpelled == RcvSpec => []RecordSpelled
<1>1. RcvInd => RecordSpelled
  BY DEF RcvInd
<1> QED
  BY <1>1, RcvInvariance, PTL

\* A frame that is sound is announced before it ends, whatever was on the wire
\* before it.
THEOREM SoundIsAnnounced == RcvSpec => []FrameAnnounced
<1>1. RcvInd => FrameAnnounced
  <2> SUFFICES ASSUME RcvInd, pos = Len(burst), Good
               PROVE Record(Body) \in announced
    BY DEF FrameAnnounced, Good, Body
  <2>1. RcvTypes /\ Followed
    BY DEF RcvInd
  <2>2. /\ Body \in Seq(Half) /\ Len(Body) \in Nat /\ Len(burst) = Len(Body) + 16
        /\ Complete(Body) /\ LastNibble(Body) < Len(Body)
    BY <2>1, GoodBody DEF Good
  <2>3. LastNibble(Body) \in Nat
    BY <2>2, LastIs
  <2>4. pos > 16 + LastNibble(Body)
    BY <2>2, <2>3
  <2> QED
    BY <2>1, <2>4 DEF Followed
<1> QED
  BY <1>1, RcvInvariance, PTL

================================================================================
