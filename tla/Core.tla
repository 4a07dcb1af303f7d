---------------------------------- MODULE Core ----------------------------------
(***************************************************************************)
(* The core: the input processor and the output processor as main.vhd      *)
(* connects them.  They run on the same clock; snd_en and rd go from one   *)
(* to the other, and nothing comes back.                                   *)
(***************************************************************************)
EXTENDS CoreIn, SendData

VARIABLES os, ord, sd, el_snd_en, chksumbuf,
          ipLengthbuf, udpLengthbuf, srcIPchecksumbuf, dstIPchecksumbuf

Out == INSTANCE CoreOut WITH rcv_data <- rd, rcv_data_dv <- snd_en

outvars == <<os, ord, sd, el_snd_en, chksumbuf,
             ipLengthbuf, udpLengthbuf, srcIPchecksumbuf, dstIPchecksumbuf>>
corevars == <<vars, outvars>>

CoreInit == Init /\ Out!Init

Tick == Clock /\ Out!OutCycle

Arrival(p) == Offer(p) /\ UNCHANGED outvars

CoreNext == Tick \/ \E p \in Packets : Arrival(p)

CoreSpec == CoreInit /\ [][CoreNext]_corevars /\ WF_corevars(Tick)

-------------------------------------------------------------------------------

OutTypeOK == /\ os \in Out!OutStates /\ ord \in Packet
             /\ sd \in SndData /\ el_snd_en \in BOOLEAN
             /\ chksumbuf \in TotalSum
             /\ ipLengthbuf \in Word /\ udpLengthbuf \in Word
             /\ srcIPchecksumbuf \in PairSum /\ dstIPchecksumbuf \in PairSum

\* The core's pulse is one cycle long and looked at in one of eight states: the
\* output processor is always back in that state, because even the shortest way
\* of a packet through the core is longer than its own.
AnswerTaken == snd_en => os = "Idle"

\* The core's answers, from the cycle in which PacketFilter has them out.
Resp == INSTANCE Responder WITH
          pending <- IF snd_en THEN rd ELSE IF os # "Idle" THEN ord ELSE None,
          sent <- IF el_snd_en THEN sd ELSE None

\* Every answer of the core becomes one frame that answers it, whatever the core
\* does to rd meanwhile.
ImplementsResponder == Resp!Spec

\* A packet that was kept as a whole and had no IP options.
Whole(p) == p.dnsLength <= PktBytes /\ Spelled(p.ipLength) = p.dnsLength + 28

\* The three lengths of a frame agree, for forwarded packets, for answers and for
\* probe answers, whose lengths the core sets in received nibble order.
LengthsAgree == (\A p \in Packets : Whole(p)) /\ el_snd_en
                  => /\ sd.ipLength = sd.udpLength + 20
                     /\ sd.dnsPktCnt = (sd.udpLength - 8) * 8 - 4

\* An answer reaches the send FIFO.
AnswerSent == snd_en ~> el_snd_en

\* fpga.hh, IPchecksum: the sum is folded again after the first carry.
ChecksumRight == el_snd_en => sd.ipChecksum = Checksum(sd)
===============================================================================
