-------------------------------- MODULE CoreOut --------------------------------
(***************************************************************************)
(* The core output processor (o.vhd): eight states that turn an answer of  *)
(* the core into the record the sender needs.  One step is one cycle of    *)
(* clk50.                                                                  *)
(***************************************************************************)
EXTENDS SendData

VARIABLES
    rcv_data, rcv_data_dv,                \* the core's rd and snd_en
    os,                                   \* s.s
    ord,                                  \* rd, the answer in work
    sd, el_snd_en,                        \* the record and its valid pulse
    chksumbuf,                            \* s.chksumbuf
    ipLengthbuf, udpLengthbuf,            \* process variables
    srcIPchecksumbuf, dstIPchecksumbuf

bufs == <<ipLengthbuf, udpLengthbuf, srcIPchecksumbuf, dstIPchecksumbuf>>
outvars == <<os, ord, sd, el_snd_en, chksumbuf, bufs>>

OutStates == {"Idle", "MetaInfo", "ChecksumCalc", "ChecksumPopulate",
              "IPHeader", "UDPHeader", "Finalise", "Send"}

Init == /\ os = "Idle" /\ ord = rcv_data
        /\ sd = NoFrame /\ el_snd_en = FALSE
        /\ chksumbuf = 0
        /\ ipLengthbuf = 0 /\ udpLengthbuf = 0
        /\ srcIPchecksumbuf = 0 /\ dstIPchecksumbuf = 0

Quiet == el_snd_en' = FALSE

\* The only state that looks at the core's pulse; it copies the answer.
Idle == /\ os = "Idle"
        /\ os' = IF rcv_data_dv THEN "MetaInfo" ELSE "Idle"
        /\ ord' = IF rcv_data_dv THEN rcv_data ELSE ord
        /\ Quiet
        /\ UNCHANGED <<sd, chksumbuf, bufs>>

MetaInfo == /\ os = "MetaInfo"
            /\ sd' = [sd EXCEPT !.srcIP = ord.addr["dstIP"], !.dstIP = ord.addr["srcIP"],
                                !.srcPort = ord.addr["dstPort"], !.dstPort = ord.addr["srcPort"],
                                !.ipTTL = 64]
            /\ ipLengthbuf' = ord.ipLength
            /\ srcIPchecksumbuf' = WordSum(ord.addr["dstIP"])
            /\ dstIPchecksumbuf' = WordSum(ord.addr["srcIP"])
            /\ os' = "ChecksumCalc"
            /\ Quiet
            /\ UNCHANGED <<ord, chksumbuf, udpLengthbuf>>

\* Of the length only the low byte is added in.
ChecksumCalc == /\ os = "ChecksumCalc"
                /\ chksumbuf' = 17664 + Swap(ipLengthbuf % 256) + (sd.ipTTL * 256 + 17)
                                  + srcIPchecksumbuf + dstIPchecksumbuf
                /\ IF ord.dnsLength >= 128
                   THEN sd' = [sd EXCEPT !.dnsPktCnt = 1020] /\ udpLengthbuf' = 136
                   ELSE /\ sd' = [sd EXCEPT !.dnsPktCnt = ord.dnsLength * 8 - 4]
                        /\ udpLengthbuf' = ord.dnsLength + 8
                /\ os' = "ChecksumPopulate"
                /\ Quiet
                /\ UNCHANGED <<ord, ipLengthbuf, srcIPchecksumbuf, dstIPchecksumbuf>>

\* Mutant: the sum is not folded.
ChecksumPopulate_NoFold == /\ os = "ChecksumPopulate"
                           /\ chksumbuf' = 65535 - chksumbuf
                           /\ os' = "IPHeader"
                           /\ Quiet
                           /\ UNCHANGED <<ord, sd, bufs>>

\* One fold, in sixteen bits: a carry out of it is lost.  Of the complement the
\* lower half is kept, the upper one is never used.
ChecksumPopulate == /\ os = "ChecksumPopulate"
                    /\ chksumbuf' = 65535 - (Fold(chksumbuf) % 65536)
                    /\ os' = "IPHeader"
                    /\ Quiet
                    /\ UNCHANGED <<ord, sd, bufs>>

IPHeader == /\ os = "IPHeader"
            /\ sd' = [sd EXCEPT !.ipLength = Spelled(ipLengthbuf), !.ipChecksum = chksumbuf]
            /\ os' = "UDPHeader"
            /\ Quiet
            /\ UNCHANGED <<ord, chksumbuf, bufs>>

UDPHeader == /\ os = "UDPHeader"
             /\ sd' = [sd EXCEPT !.udpLength = udpLengthbuf]
             /\ os' = "Finalise"
             /\ Quiet
             /\ UNCHANGED <<ord, chksumbuf, bufs>>

\* Mutant: the payload is taken from the core, which has gone on.
Finalise_Live == /\ os = "Finalise"
                 /\ sd' = [sd EXCEPT !.srcMAC = ord.addr["dstMAC"], !.dstMAC = ReplyMAC,
                                     !.payload = Payload(rcv_data)]
                 /\ os' = "Send"
                 /\ Quiet
                 /\ UNCHANGED <<ord, chksumbuf, bufs>>

Finalise == /\ os = "Finalise"
            /\ sd' = [sd EXCEPT !.srcMAC = ord.addr["dstMAC"], !.dstMAC = ReplyMAC,
                                !.payload = Payload(ord)]
            /\ os' = "Send"
            /\ Quiet
            /\ UNCHANGED <<ord, chksumbuf, bufs>>

\* Mutant: the record is assembled again and again.
Send_NoReturn == /\ os = "Send"
                 /\ el_snd_en' = TRUE
                 /\ os' = "MetaInfo"
                 /\ UNCHANGED <<ord, sd, chksumbuf, bufs>>

\* Mutant: the record is never declared valid.
Send_NoPulse == /\ os = "Send"
                /\ Quiet
                /\ os' = "Idle"
                /\ UNCHANGED <<ord, sd, chksumbuf, bufs>>

Send == /\ os = "Send"
        /\ el_snd_en' = TRUE
        /\ os' = "Idle"
        /\ UNCHANGED <<ord, sd, chksumbuf, bufs>>

OutCycle == Idle \/ MetaInfo \/ ChecksumCalc \/ ChecksumPopulate
              \/ IPHeader \/ UDPHeader \/ Finalise \/ Send
===============================================================================
