------------------------------- MODULE Judgement -------------------------------
(***************************************************************************)
(* The filter's judgement of a packet and its answers, as functions of the *)
(* configuration and the packet: the reference the state machine of i.vhd  *)
(* is checked against.                                                     *)
(***************************************************************************)
EXTENDS Common

Listed(c, p, x) == \E i \in Entries : i < c.Length[x] /\ c.List[x][i] = p.addr[x]

\* Item i occurs in packet p at byte offset o.
OccursAt(c, p, i, o) == \A j \in ItemIndex :
                          j < c.dnsItemEndPtr[i] => p.dnsPkt[o + j] = c.dnsList[i][j]

\* Item i occurs somewhere in the kept payload of p.
Contains(c, p, i) == \E o \in 0 .. PktBytes :
                        /\ o + c.dnsItemEndPtr[i] <= PayloadEnd(p)
                        /\ OccursAt(c, p, i, o)

DomainListed(c, p) == \E i \in Entries : i < c.Length["dns"] /\ Contains(c, p, i)

Hit(c, p, x) == IF x = "dns" THEN DomainListed(c, p) ELSE Listed(c, p, x)

\* A blacklist accepts what is not on it, a whitelist what is.
Accepts(c, p, x) == Hit(c, p, x) <=> c.BW[x] = 1

\* The answer to an accepted packet: the packet itself (replyType 0), or a
\* twelve byte DNS header saying that the name does not exist.
DNSHeader(p) == [j \in PktIndex |-> IF j = 2 THEN 132
                                    ELSE IF j = 3 THEN 51
                                    ELSE IF j \in 4 .. 11 THEN 0 ELSE p.dnsPkt[j]]

Reply(c, p) == [p EXCEPT !.addr = [@ EXCEPT !["dstMAC"] = NormalMAC],
                         !.ipLength = IF c.replyType = 0 THEN @ ELSE 130,
                         !.dnsLength = IF c.replyType = 0 THEN @ ELSE 12,
                         !.dnsPkt = IF c.replyType = 0 THEN @ ELSE DNSHeader(p)]

\* The answer to a probe.  The last counter reaches into the bits of the tag.
QueryReply(c, n, p) == [p EXCEPT !.addr = [@ EXCEPT !["dstMAC"] = QueryMAC],
                                 !.ipLength = 201, !.dnsLength = 128,
                                 !.cfg = c, !.stats = n, !.mac = NoTag]
===============================================================================
