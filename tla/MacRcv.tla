-------------------------------- MODULE MacRcv --------------------------------
(***************************************************************************)
(* mac_rcv.vhd: the Ethernet receiver, one step per nibble on the wire.    *)
(* Counters have sixteen bits and wrap, as synthesised.  The wire carries  *)
(* bursts of nibbles, between which E_RX_DV is low; a burst is a frame,    *)
(* sound or not, and may be cut off.                                       *)
(***************************************************************************)
EXTENDS EthFrame

CONSTANTS
    Bursts,      \* what is sent on the wire
    Cuts,        \* bound: the lengths a burst may be cut off at
    MaxBursts    \* bound: their number

\* A burst is shorter than what sixteen bits of bit count hold; the longest frame
\* of Ethernet has less than a fifth of that.
ASSUME BurstAssumption == Bursts \subseteq {b \in Seq(Half) : Len(b) <= 16384}

VARIABLES
    r,                      \* rcv_t: state and counters
    el_data, el_dv,         \* the record, and the pulse that announces it
    burst, pos, bursts,     \* the wire: the burst, the nibbles of it that are over
    announced               \* the records announced in this burst

rcvvars == <<r, el_data, el_dv, burst, pos, bursts, announced>>

Wrap(n) == n % 65536

Zeros(n) == [i \in 0 .. (n - 1) |-> 0]

RcvInit == /\ r = [s |-> "Preamble", c |-> 0, ipc |-> 0, udpc |-> 0]
           /\ el_data = [dstMAC |-> Zeros(12), srcMAC |-> Zeros(12), ipHeaderLength |-> 0,
                         ipLength |-> 0, srcIP |-> Zeros(8), dstIP |-> Zeros(8),
                         srcPort |-> Zeros(4), dstPort |-> Zeros(4), dnsLength |-> 0,
                         dnsPkt |-> Zeros(2 * RecordBytes)]
           /\ el_dv = FALSE
           /\ burst \in Bursts /\ pos = 0 /\ bursts = 1 /\ announced = {}

-------------------------------------------------------------------------------
(* x is E_RXD.                                                                *)

Go(st, n) == r' = [r EXCEPT !.s = st, !.c = n]
Reject == Go("Preamble", 0)

\* Count to last in steps, then go on.
Count(last, step, next) == IF r.c = last THEN Go(next, 0) ELSE Go(r.s, r.c + step)

Store(field, x) == el_data' = [el_data EXCEPT ![field][r.c \div 4] = x]

Preamble(x) == /\ r.s = "Preamble"
               /\ IF x = 5 THEN Count(14, 1, "StartOfFrame") ELSE Reject
               /\ UNCHANGED el_data

StartOfFrame(x) == /\ r.s = "StartOfFrame"
                   /\ Go(IF x = 13 THEN "EtherMACDST" ELSE "Preamble", r.c)
                   /\ UNCHANGED el_data

\* The fields that are stored, and those that are passed over.
Stored == [EtherMACDST |-> <<"dstMAC", 44, "EtherMACSRC">>,
           EtherMACSRC |-> <<"srcMAC", 44, "EtherType">>,
           IPAddrSRC   |-> <<"srcIP", 28, "IPAddrDST">>,
           UDPPortSRC  |-> <<"srcPort", 12, "UDPPortDST">>]

StoreField(x) == /\ r.s \in DOMAIN Stored
                 /\ Store(Stored[r.s][1], x) /\ Count(Stored[r.s][2], 4, Stored[r.s][3])

PassOver(x) == /\ \/ r.s = "IPTTL" /\ Count(1, 1, "IPProtocol")
                  \/ r.s = "IPChecksum" /\ Count(3, 1, "IPAddrSRC")
                  \/ r.s = "IPOptions" /\ Count(((el_data.ipHeaderLength - 5) * 8) - 1, 1, "UDPPortSRC")
               /\ UNCHANGED el_data

\* 8, 0, 0, 0
EtherType(x) == /\ r.s = "EtherType"
                /\ IF x = (IF r.c = 0 THEN 8 ELSE 0) THEN Count(3, 1, "IPIHL") ELSE Reject
                /\ el_data' = IF x = 0 /\ r.c = 3 THEN [el_data EXCEPT !.ipHeaderLength = 0] ELSE el_data

IPIHL(x) == /\ r.s = "IPIHL"
            /\ IF x >= 5 THEN Go("IPVersion", 0) ELSE Reject
            /\ el_data' = [el_data EXCEPT !.ipHeaderLength = IF x >= 5 THEN x ELSE 0]

IPVersion(x) == /\ r.s = "IPVersion"
                /\ IF x = 4 THEN Go("IPDSCPECN", 0) ELSE Reject
                /\ UNCHANGED el_data

IPDSCPECN(x) == /\ r.s = "IPDSCPECN"
                /\ r' = IF r.c = 1 THEN [r EXCEPT !.s = "IPLength", !.c = 0, !.ipc = 0]
                                   ELSE [r EXCEPT !.c = @ + 1]
                /\ UNCHANGED el_data

IPLength(x) == /\ r.s = "IPLength"
               /\ r' = [r EXCEPT !.ipc = Wrap((@ * 16) + x),
                                 !.s = IF r.c = 3 THEN "IPID" ELSE @,
                                 !.c = IF r.c = 3 THEN 0 ELSE @ + 1]
               /\ UNCHANGED el_data

IPID(x) == /\ r.s = "IPID" /\ Count(3, 1, "IPFlagsFragment")
           /\ el_data' = IF r.c = 3 THEN [el_data EXCEPT !.ipLength = r.ipc] ELSE el_data

IPFlagsFragment(x) == /\ r.s = "IPFlagsFragment"
                      /\ IF x = 0 THEN Count(3, 1, "IPTTL") ELSE Reject
                      /\ UNCHANGED el_data

IPProtocol(x) == /\ r.s = "IPProtocol"
                 /\ IF x = 1 THEN Count(1, 1, "IPChecksum") ELSE Reject
                 /\ UNCHANGED el_data

IPAddrDST(x) == /\ r.s = "IPAddrDST" /\ Store("dstIP", x)
                /\ Count(28, 4, IF el_data.ipHeaderLength = 5 THEN "UDPPortSRC" ELSE "IPOptions")

UDPPortDST(x) == /\ r.s = "UDPPortDST" /\ Store("dstPort", x)
                 /\ r' = IF r.c = 12 THEN [r EXCEPT !.s = "UDPLength", !.c = 0, !.udpc = 0]
                                     ELSE [r EXCEPT !.c = @ + 4]

\* udpc becomes the length less the eight bytes of the header.
UDPLength(x) == /\ r.s = "UDPLength"
                /\ r' = [r EXCEPT !.udpc = Wrap(IF r.c \in {0, 2} THEN @ + x
                                                ELSE IF r.c = 1 THEN (@ + (x * 16)) * 256
                                                ELSE @ + (x * 16) + 65528),
                                  !.s = IF r.c = 3 THEN "UDPChecksum" ELSE @,
                                  !.c = IF r.c = 3 THEN 0 ELSE @ + 1]
                /\ UNCHANGED el_data

\* Mutant: the payload of the last packet stays in the record.
UDPChecksum_NoClear(x) ==
    /\ r.s = "UDPChecksum"
    /\ IF r.c = 3
       THEN /\ r' = [r EXCEPT !.s = "DNSMsgRecord", !.c = 0, !.udpc = Wrap((@ * 8) + 65532)]
            /\ el_data' = [el_data EXCEPT !.dnsLength = r.udpc]
       ELSE Go(r.s, r.c + 1) /\ UNCHANGED el_data

\* udpc becomes the bit at which the last nibble of the payload begins.
UDPChecksum(x) ==
    /\ r.s = "UDPChecksum"
    /\ IF r.c = 3
       THEN /\ r' = [r EXCEPT !.s = "DNSMsgRecord", !.c = 0, !.udpc = Wrap((@ * 8) + 65532)]
            /\ el_data' = [el_data EXCEPT !.dnsLength = r.udpc, !.dnsPkt = Zeros(2 * RecordBytes)]
       ELSE Go(r.s, r.c + 1) /\ UNCHANGED el_data

DNSMsgRecord(x) == /\ r.s = "DNSMsgRecord" /\ Store("dnsPkt", x)
                   /\ IF r.c = r.udpc THEN Go("Notify", 0)
                      ELSE Go(IF r.c = (8 * RecordBytes) - 4 THEN "DNSMsgDiscard" ELSE r.s, r.c + 4)

DNSMsgDiscard(x) == /\ r.s = "DNSMsgDiscard" /\ Count(r.udpc, 4, "Notify")
                    /\ UNCHANGED el_data

Notify(x) == r.s = "Notify" /\ Reject /\ UNCHANGED el_data

rcv_nsl(x) == \/ Preamble(x) \/ StartOfFrame(x) \/ StoreField(x) \/ PassOver(x) \/ EtherType(x)
              \/ IPIHL(x) \/ IPVersion(x) \/ IPDSCPECN(x) \/ IPLength(x) \/ IPID(x)
              \/ IPFlagsFragment(x) \/ IPProtocol(x) \/ IPAddrDST(x) \/ UDPPortDST(x)
              \/ UDPLength(x) \/ UDPChecksum(x) \/ DNSMsgRecord(x) \/ DNSMsgDiscard(x) \/ Notify(x)

\* E_RX_DV = '1'
Carrier == /\ pos < Len(burst) /\ pos' = pos + 1
           /\ rcv_nsl(burst[pos + 1])
           /\ el_dv' = (r.s = "Notify")
           /\ announced' = IF r.s = "Notify" THEN announced \cup {el_data} ELSE announced
           /\ UNCHANGED <<burst, bursts>>

\* Mutant: the counter is left as it is.
Silence_KeepsCount == r' = [r EXCEPT !.s = "Preamble"] /\ el_dv' = FALSE

\* E_RX_DV = '0'
Silence == Reject /\ el_dv' = FALSE

\* The burst is over, and another one follows.
Gap == /\ pos \in Cuts \cup {Len(burst)} /\ bursts < MaxBursts
       /\ Silence
       /\ burst' \in Bursts /\ pos' = 0 /\ bursts' = bursts + 1 /\ announced' = {}
       /\ UNCHANGED el_data

RcvNext == Carrier \/ Gap

RcvSpec == RcvInit /\ [][RcvNext]_rcvvars

-------------------------------------------------------------------------------

\* A record that is announced is spelled by the nibbles after some start pattern,
\* field by field, with zeros behind the payload, and ends with the nibble before
\* this one.  The pattern need not be that of the frame: a receiver that rejects a
\* frame looks for it in the rest.  Lengths that sixteen bits of bit count do not
\* hold are excepted.
RecordSpelled ==
    el_dv /\ el_data.dnsLength < 8192 =>
      \E o \in 16 .. pos :
        /\ SubSeq(burst, o - 15, o) = StartPattern
        /\ LET w == SubSeq(burst, o + 1, pos - 1)
           IN Complete(w) /\ LastNibble(w) = Len(w) /\ el_data = Record(w)

\* A frame that is sound is announced before it ends, whatever came before it.
FrameAnnounced ==
    LET w == SubSeq(burst, 17, Len(burst))
    IN pos = Len(burst) /\ SubSeq(burst, 1, 16) = StartPattern /\ Complete(w) /\ LastNibble(w) < Len(w)
         => Record(w) \in announced
===============================================================================
