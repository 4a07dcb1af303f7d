-------------------------------- MODULE MCCore --------------------------------
(* Core with payloads of full size and packets of every kind.                  *)
EXTENDS Core, Sequences

CONSTANTS admin, query, normal, other, notag, none

MCAddr == {admin, query, normal, other}
MCHash(c) == <<"tag", c>>
MCTag == {notag} \cup {MCHash(p.cfg) : p \in Packets}

\* Two addresses with the sum of 10.0.179.99, the others with that of 0.1.1.0.
MCWordSum(a) == IF a \in {other, query} THEN 48483 ELSE 257

Open(r) == [BW |-> [x \in Sections |-> 0],
            Length |-> [x \in Sections |-> 0],
            List |-> [x \in AddrSections |-> [i \in Entries |-> normal]],
            dnsItemEndPtr |-> [i \in Entries |-> 0],
            dnsList |-> [i \in Entries |-> [j \in ItemIndex |-> 0]],
            replyType |-> r]

Bytes(b, n) == [j \in PktIndex |-> IF j < n THEN b ELSE 0]

Base(b, n) == [addr |-> [x \in AddrSections |-> normal], ipLength |-> Spelled(n + 28),
               dnsLength |-> n, dnsPkt |-> Bytes(b, n), cfg |-> Open(0),
               stats |-> NoCounters, mac |-> notag]

To(dst, p) == [p EXCEPT !.addr["dstMAC"] = dst]

Signed(c) == To(admin, [Base(0, 128) EXCEPT !.cfg = c, !.mac = MCHash(c)])
Forged(c) == To(admin, [Base(0, 128) EXCEPT !.cfg = c])

\* A blacklisted source, a whitelisted port and a domain item of two bytes.
Strict == [Open(1) EXCEPT !.Length = [@ EXCEPT !["srcIP"] = 1, !["dstPort"] = 1, !["dns"] = 1],
                          !.BW["dstPort"] = 1,
                          !.List["srcIP"] = [i \in Entries |-> other],
                          !.dnsItemEndPtr = [i \in Entries |-> 2 * (1 - i)],
                          !.dnsList = [i \in Entries |-> [j \in ItemIndex |-> (1 - i) * 4]]]

\* A length that only the two bits of its field bound.
TooLong == [Strict EXCEPT !.Length["srcIP"] = 3]

\* Updates, genuine and forged, a probe, and packets of one byte, of two bytes
\* that hold the domain item, of full size and with each listed address.
WholePackets == {Signed(Strict), Signed(Open(0)), Forged(TooLong), To(query, Base(3, 16)),
                 Base(1, 1), Base(4, 2),
                 [Base(2, 128) EXCEPT !.addr["srcIP"] = other],
                 [Base(1, 1) EXCEPT !.addr["dstPort"] = other]}

\* Both addresses have the large sum.
CarryPackets == {[Base(1, 12) EXCEPT !.addr["srcIP"] = other, !.addr["dstIP"] = query]}

Boot == {Open(0)}

ZeroFrame == [srcMAC |-> normal, dstMAC |-> normal, srcIP |-> normal, dstIP |-> normal,
              srcPort |-> normal, dstPort |-> normal, ipTTL |-> 0,
              ipLength |-> 0, ipChecksum |-> 0, udpLength |-> 0, dnsPktCnt |-> 0,
              payload |-> Payload(Base(0, 0))]
===============================================================================
