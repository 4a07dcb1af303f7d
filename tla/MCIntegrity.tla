------------------------------ MODULE MCIntegrity ------------------------------
(***************************************************************************)
(* What guards a packet at the board's edge: the receiver, the sender, the *)
(* check sequence and the tag, each independent of the others: a behaviour *)
(* runs one of them.  The hash unit has words of 64 bits, messages of      *)
(* fifteen words and the key of the board; one message is that of          *)
(* test_siphash_pkts.vhd.                                                  *)
(***************************************************************************)
EXTENDS SipHasher, EthCrc, MacRcv, MacSnd

INSTANCE Word64

VARIABLE part

MCStart == [v0 |-> <<25973, 28787, 28005, 29551>>, v1 |-> <<28525, 28260, 29281, 25711>>,
            v2 |-> <<29281, 28261, 26469, 27769>>, v3 |-> <<25971, 31092, 25698, 29797>>]
MCLength == <<0, 0, 0, 30720>>
MCFinal == <<255, 0, 0, 0>>
MCZero == <<0, 0, 0, 0>>

BoardKey == [k0 |-> <<61865, 7853, 64206, 57034>>, k1 |-> <<2343, 6553, 17410, 5907>>]

TestMessage ==
    LET w == << <<24579, 63816, 29002, 5>>, <<0, 0, 32784, 52546>>, <<65151, 63, 0, 0>>,
                <<320, 0, 32768, 65361>>, <<6655, 12320, 61504, 65535>>, <<24575, 6784, 40088, 54274>>,
                <<33132, 2322, 10, 35328>>, <<3245, 60480, 0, 0>>, <<0, 0, 60640, 60909>>,
                <<44428, 26060, 44524, 13>> >>
    IN [n \in 0 .. 14 |-> IF n < 10 THEN w[n + 1] ELSE MCZero]

TestTag == <<9038, 50522, 2647, 14356>>

OtherMessage == [n \in 0 .. 14 |-> <<65535, 65535, n, 32768>>]

MCMessage == {TestMessage, OtherMessage}
MCKey == {BoardKey}

-------------------------------------------------------------------------------
(* Frames.  Addresses differ in every nibble; payloads are of one byte, of what a  *)
(* record keeps, and of one byte more.                                             *)

Run(from, n) == [i \in 1 .. n |-> (from + i) % 16]
Two(n) == <<(n \div 256) % 16, n \div 4096, n % 16, (n \div 16) % 16>>

Header(type, ihl, flags, protocol) ==
    Run(3, 12) \o Run(6, 12) \o type \o <<ihl, 4, 0, 0>> \o Two(40) \o Run(1, 4) \o flags
      \o <<0, 4>> \o protocol \o Run(2, 4) \o Run(7, 8) \o Run(9, 8) \o Run(4, 8 * (ihl - 5))

UDP(length, payload) == Run(0, 4) \o Run(11, 4) \o Two(length) \o <<0, 0, 0, 0>> \o payload

Check == <<5, 5, 5, 5, 0, 1, 2, 3>>

IPv4 == <<8, 0, 0, 0>>
Flags == <<0, 0, 0, 0>>

Packet(ihl, n) == StartPattern \o Header(IPv4, ihl, Flags, <<1, 1>>) \o UDP(n + 8, Run(n, 2 * n)) \o Check

\* Of another type or protocol, in fragments, with lengths that are too small or
\* too large, with one nibble more before it; one carries a packet in its payload.
Faulty ==
    {StartPattern \o Header(<<8, 0, 6, 0>>, 5, Flags, <<1, 1>>) \o Check,
     StartPattern \o Header(IPv4, 5, <<0, 2, 0, 0>>, <<1, 1>>) \o UDP(9, <<1, 2>>) \o Check,
     StartPattern \o Header(IPv4, 5, Flags, <<6, 0>>) \o UDP(9, Packet(5, 1)) \o Check,
     StartPattern \o Header(IPv4, 5, Flags, <<1, 1>>) \o UDP(8, << >>) \o Check,
     StartPattern \o Header(IPv4, 5, Flags, <<1, 1>>) \o UDP(7, << >>) \o Check,
     StartPattern \o Header(IPv4, 5, Flags, <<1, 1>>) \o UDP(8201, <<1, 2>>) \o Check,
     <<5>> \o Packet(5, 1)}

MCBursts == Faulty \cup {Packet(5, 1), Packet(6, RecordBytes), Packet(5, RecordBytes + 1)}

Indexed(q) == [i \in 0 .. (Len(q) - 1) |-> q[i + 1]]

Reply(n) == [dstMAC |-> Indexed(Run(3, 12)), srcMAC |-> Indexed(Run(6, 12)),
             ipLength |-> Indexed(Two(n + 28)), ipTTL |-> Indexed(<<0, 4>>),
             ipChecksum |-> Indexed(Run(2, 4)),
             srcIP |-> Indexed(Run(7, 8)), dstIP |-> Indexed(Run(9, 8)),
             srcPort |-> Indexed(Run(0, 4)), dstPort |-> Indexed(Run(11, 4)),
             udpLength |-> Indexed(Two(n + 8)), udpChecksum |-> Indexed(Flags),
             dnsPktCnt |-> (8 * n) - 4,
             dnsPkt |-> [i \in RecordNibbles |-> IF i < 2 * n THEN (n + i) % 16 ELSE 0]]

MCAnswers == {Reply(1), Reply(18), Reply(RecordBytes)}

-------------------------------------------------------------------------------

allvars == <<sipvars, crcvars, rcvvars, sndvars, part>>

Init == /\ SipInit /\ CrcInit /\ RcvInit /\ SndInit
        /\ part \in {"tag", "fcs", "receive", "send"}
        \* What is not run starts in one way.
        /\ part # "tag" => in_data = TestMessage /\ d = TestMessage
        /\ part # "receive" => burst = Packet(5, 1)
        /\ sd = Reply(1)

Next == \/ part = "tag" /\ SipNext /\ UNCHANGED <<part, crcvars, rcvvars, sndvars>>
        \/ part = "fcs" /\ CrcNext /\ UNCHANGED <<part, sipvars, rcvvars, sndvars>>
        \/ part = "receive" /\ RcvNext /\ UNCHANGED <<part, sipvars, crcvars, sndvars>>
        \/ part = "send" /\ SndNext /\ UNCHANGED <<part, sipvars, crcvars, rcvvars>>

Spec == /\ Init /\ [][Next]_allvars
        /\ WF_allvars(part = "tag" /\ Clock /\ UNCHANGED <<part, crcvars, rcvvars, sndvars>>)

\* The answer of the unit to the packet of the repository's test bench is the tag
\* that packet carries.
KnownAnswer == out_ready /\ d = TestMessage => out_data = TestTag
===============================================================================
