------------------------------- MODULE MCCoreIn -------------------------------
(***************************************************************************)
(* Small instances of CoreIn.  Addresses stand for MACs, IPs and ports     *)
(* alike; a domain item has up to seven bytes, so that all four compare    *)
(* widths and their combinations (4+3, 4+2, 4+1) occur, and a packet keeps *)
(* twelve bytes of payload, the least that holds a DNS header.             *)
(***************************************************************************)
EXTENDS CoreIn, Sequences

CONSTANTS admin, query, normal, other, notag, none

MCAddr == {admin, query, normal, other}

\* The tag of a configuration: any injective function will do.
MCHash(c) == <<"tag", c>>

MCTag == {notag} \cup {MCHash(p.cfg) : p \in Packets}

\* An open filter: seven empty blacklists.
Open == [BW |-> [x \in Sections |-> 0],
         Length |-> [x \in Sections |-> 0],
         List |-> [x \in AddrSections |-> [i \in Entries |-> normal]],
         dnsItemEndPtr |-> [i \in Entries |-> 0],
         dnsList |-> [i \in Entries |-> [j \in ItemIndex |-> 0]],
         replyType |-> 0]

Padded(q, last) == [j \in 0 .. last |-> IF j < Len(q) THEN q[j + 1] ELSE 0]

Item(q) == Padded(q, ItemBytes - 1)

\* A packet with payload q of which n bytes were announced.
Base(q, n) == [addr |-> [x \in AddrSections |-> normal], ipLength |-> 40, dnsLength |-> n,
               dnsPkt |-> Padded(q, PktBytes - 1),
               cfg |-> Open, stats |-> NoCounters, mac |-> notag]

-------------------------------------------------------------------------------
(* Address lists: every section alone and every pair of neighbours as black-  *)
(* or whitelist of any length, every packet that differs in one or two fields.*)

WithList(c, x, b, n, l) == [c EXCEPT !.BW[x] = b, !.Length[x] = n, !.List[x] = l]

Lists == {<<0, normal, normal>>, <<1, normal, other>>, <<1, other, normal>>,
          <<2, other, normal>>, <<2, other, other>>}

ListOf(t) == [i \in Entries |-> IF i = 0 THEN t[2] ELSE t[3]]

OneSection == {WithList([Open EXCEPT !.replyType = r], x, b, t[1], ListOf(t)) :
                 x \in AddrSections, b \in {0, 1}, t \in Lists, r \in {0, 1}}

TwoSections == {WithList(WithList(Open, x, b, t[1], ListOf(t)), After(x), b2, t2[1], ListOf(t2)) :
                 x \in AddrSections \ {"dstPort"}, b \in {0, 1}, b2 \in {0, 1},
                 t \in {<<1, normal, other>>, <<2, other, other>>},
                 t2 \in {<<0, normal, normal>>, <<2, other, normal>>}}

AddrFilters == OneSection \cup TwoSections

AddrPackets == {[Base(<<1, 2>>, 2) EXCEPT !.addr[x] = other] : x \in AddrSections}
                 \cup {[Base(<<1, 2>>, 2) EXCEPT !.addr[x] = other, !.addr[After(x)] = other] :
                         x \in AddrSections \ {"dstPort"}}
                 \cup {Base(<<1, 2>>, 2)}

-------------------------------------------------------------------------------
(* The domain list alone.  Items repeat bytes, so that a failed    *)
(* window overlaps a matching one; payloads are shorter than, as long as and  *)
(* longer than the items and than what is kept.                               *)

Words == UNION {[1 .. n -> {1, 2}] : n \in 1 .. 2}

Items == Words \cup {<< >>, <<1, 1, 2>>, <<1, 2, 1, 1>>, <<1, 1, 1, 1, 2>>,
                     <<1, 2, 1, 1, 2, 1>>, <<1, 1, 2, 1, 1, 1, 2>>}

WithItems(b, n, q1, q2, r) ==
    [Open EXCEPT !.BW["dns"] = b, !.Length["dns"] = n, !.replyType = r,
                 !.dnsItemEndPtr = [i \in Entries |-> IF i = 0 THEN Len(q1) ELSE Len(q2)],
                 !.dnsList = [i \in Entries |-> IF i = 0 THEN Item(q1) ELSE Item(q2)]]

DnsFilters == {WithItems(b, 1, q, <<1>>, 0) : b \in {0, 1}, q \in Items}
                \cup {WithItems(b, 2, q, q2, 1) : b \in {0, 1},
                        q \in {<<2, 2>>, <<1, 1, 1, 1, 2>>}, q2 \in {<<1, 2>>, <<1, 1, 2, 1, 1, 1, 2>>}}
                \cup {WithItems(b, 0, <<1>>, <<1>>, 1) : b \in {0, 1}}

Payloads == {<<1>>, <<2>>, <<1, 1>>, <<2, 1>>, <<2, 1, 2>>, <<1, 1, 1, 2>>,
             <<1, 1, 1, 1, 1, 2>>, <<1, 1, 2, 1, 1, 2, 1, 1>>, <<2, 1, 1, 2, 1, 1, 1, 2>>,
             <<2, 2, 2, 2, 2, 2, 2, 1, 1, 1, 1, 2>>, <<1, 1, 1, 2, 2, 1, 1, 2, 1, 1, 1, 2>>}

\* The last payloads are also cut off: fourteen bytes announced, twelve kept.
DnsPackets == {Base(q, Len(q)) : q \in Payloads}
                \cup {Base(q, 14) : q \in {r \in Payloads : Len(r) = 12}}

VerdictFilters == AddrFilters \cup DnsFilters

VerdictPackets == AddrPackets \cup DnsPackets
===============================================================================
