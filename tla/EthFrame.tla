------------------------------- MODULE EthFrame -------------------------------
(***************************************************************************)
(* A UDP packet in an Ethernet frame, by the positions of its nibbles: the *)
(* reference for the board's receiver and sender.  Of a byte the low       *)
(* nibble goes first; w are the nibbles after the start of frame.          *)
(***************************************************************************)
EXTENDS Naturals, Sequences

CONSTANT RecordBytes   \* the bytes of payload a record keeps (128)

\* A record holds what the shortest frame carries.
ASSUME RecordAssumption == RecordBytes \in Nat /\ RecordBytes >= 18

StartPattern == [n \in 1 .. 16 |-> IF n = 16 THEN 13 ELSE 5]

Half == 0 .. 15        \* a nibble

RecordNibbles == 0 .. ((2 * RecordBytes) - 1)

\* n nibbles of w from the given position.
Field(w, from, n) == [i \in 0 .. (n - 1) |-> w[from + i]]

\* The number in two bytes, and the number mac_rcv shifts together for an IP length.
Number(q) == ((q[0] + (16 * q[1])) * 256) + q[2] + (16 * q[3])
Shifted(q) == (q[0] * 4096) + (q[1] * 256) + (q[2] * 16) + q[3]

IsUDP(w) == /\ SubSeq(w, 25, 28) = <<8, 0, 0, 0>>       \* type
            /\ w[29] >= 5 /\ w[30] = 4                  \* header length, version
            /\ SubSeq(w, 41, 44) = <<0, 0, 0, 0>>       \* flags, fragment
            /\ SubSeq(w, 47, 48) = <<1, 1>>             \* protocol

\* The options end where the UDP header begins.
UDPHeader(w) == 69 + (8 * (w[29] - 5))
UDPBytes(w) == Number(Field(w, UDPHeader(w) + 8, 4))
PayloadFrom(w) == UDPHeader(w) + 16
LastNibble(w) == PayloadFrom(w) + (2 * (UDPBytes(w) - 8)) - 1

\* w holds a packet with payload, to its end.
Complete(w) == /\ Len(w) >= 84 /\ IsUDP(w)
               /\ Len(w) >= PayloadFrom(w) /\ UDPBytes(w) > 8 /\ Len(w) >= LastNibble(w)

\* rcv_data_t.
Record(w) == [dstMAC |-> Field(w, 1, 12), srcMAC |-> Field(w, 13, 12),
              ipHeaderLength |-> w[29], ipLength |-> Shifted(Field(w, 33, 4)),
              srcIP |-> Field(w, 53, 8), dstIP |-> Field(w, 61, 8),
              srcPort |-> Field(w, UDPHeader(w), 4), dstPort |-> Field(w, UDPHeader(w) + 4, 4),
              dnsLength |-> UDPBytes(w) - 8,
              dnsPkt |-> [i \in RecordNibbles |->
                            IF PayloadFrom(w) + i <= LastNibble(w) THEN w[PayloadFrom(w) + i] ELSE 0]]
===============================================================================
